CONSTANT N = 3
SPECIFICATION Spec
CHECK_DEADLOCK FALSE
INVARIANT ResumesMeant
