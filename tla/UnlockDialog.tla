----------------------------- MODULE UnlockDialog -----------------------------
(***************************************************************************)
(* The primary password (src/remmina_unlock.c, remmina_passwd.c,           *)
(* remmina_sodium.c): it is asked for before a protected use, and not      *)
(* again for a time.  The dialogs run main loops of their own, in which a  *)
(* command line that arrives may ask a second time; the dialog on top has  *)
(* the input.  All uses share one timer, one flag and one record.          *)
(***************************************************************************)
EXTENDS Naturals, Sequences

CONSTANTS
    Timeout,        \* remmina_pref.unlock_timeout
    MaxNow,         \* bound of the time
    MaxUses         \* bound of the dialogs on top of each other

VARIABLES
    now,            \* the time
    password,       \* unlock_password of the preferences: no key, an empty one, a hash
    timer,          \* the GTimer: start and end of it, whether it runs
    unlocked,       \* the flag
    calls,          \* the calls of remmina_unlock_new in progress, the newest last
    record,         \* remmina_unlock_dialog: the call whose record it is, 0 for a freed one
    given,          \* when the password was given last
    used,           \* when a use was let through last
    hist,           \* history: see below
    fault           \* a dialog that is destroyed is used

vars == <<now, password, timer, unlocked, calls, record, given, used, hist, fault>>

Never == 0

TypeOK ==
    /\ now \in 1 .. MaxNow /\ password \in {"none", "empty", "set"}
    /\ timer \in [there : BOOLEAN, active : BOOLEAN, start : 0 .. MaxNow, end : 0 .. MaxNow]
    /\ unlocked \in BOOLEAN
    /\ calls \in Seq({"passwd", "unlock"}) /\ Len(calls) <= MaxUses
    /\ record \in 0 .. MaxUses
    /\ given \in 0 .. MaxNow /\ used \in 0 .. MaxNow
    /\ hist \in [nested : BOOLEAN, late : BOOLEAN, unmade : BOOLEAN]
    /\ fault \in BOOLEAN

NoTimer == [there |-> FALSE, active |-> FALSE, start |-> 0, end |-> 0]

\* hist.nested: two calls were in progress at once.  hist.late: a use was let through
\* after the time was over, and so was the use before.  hist.unmade: the dialog was shown
\* without a password.
Init ==
    /\ now = 1 /\ password \in {"none", "empty", "set"} /\ timer = NoTimer /\ unlocked = FALSE
    /\ calls = <<>> /\ record = 0 /\ given = Never /\ used = Never
    /\ hist = [nested |-> FALSE, late |-> FALSE, unmade |-> FALSE] /\ fault = FALSE

Tick ==
    /\ now < MaxNow /\ now' = now + 1
    /\ UNCHANGED <<password, timer, unlocked, calls, record, given, used, hist, fault>>

\* g_timer_elapsed: a timer that does not run says what it said when it was stopped.
Elapsed(t) == LET e == IF t.active THEN now ELSE t.end
              IN  IF e < t.start THEN 0 ELSE e - t.start

\* The end of remmina_unlock_new: g_timer_start
Started(t) == IF t.there THEN [t EXCEPT !.active = TRUE, !.start = now] ELSE t

\* Mutant: the time that has passed is not looked at.
TimeOver_Never(t) == FALSE

TimeOver(t) == Elapsed(t) > 0 /\ Elapsed(t) >= Timeout

\* The use before this one was after the time was over.
Late == used > given /\ used - given >= Timeout

\* remmina_unlock_new: a use is let through at once, which leaves the timer stopped, or a
\* dialog is shown, before it one to choose a password where there is none.
remmina_unlock_new ==
    /\ ~fault /\ Len(calls) < MaxUses
    /\ LET t == IF timer.there THEN timer
                ELSE [there |-> TRUE, active |-> TRUE, start |-> now, end |-> now]
           stopped == [t EXCEPT !.active = FALSE, !.end = now]
           over == TimeOver(t)
           free == timer.there /\ unlocked /\ ~over
       IN  /\ timer' = IF over THEN [stopped EXCEPT !.start = now] ELSE stopped
           /\ unlocked' = free
           /\ IF free
              THEN /\ used' = now
                   /\ hist' = [hist EXCEPT !.late = @ \/ Late]
                   /\ UNCHANGED <<calls, record>>
              ELSE /\ calls' = Append(calls, IF password = "set" THEN "unlock" ELSE "passwd")
                   /\ record' = Len(calls) + 1
                   /\ hist' = [hist EXCEPT !.nested = @ \/ calls # <<>>]
                   /\ UNCHANGED used
    /\ UNCHANGED <<now, password, given, fault>>

Top == calls[Len(calls)]
Pop == SubSeq(calls, 1, Len(calls) - 1)
Mine == record = Len(calls)

\* remmina_passwd: a password is chosen, or the dialog dismissed; both go on to the other
\* dialog.  If another call was made meanwhile its record has no dialog to go on to, and the
\* entry that is read is its entry, which is gone.
remmina_passwd(chosen) ==
    /\ ~fault /\ calls # <<>> /\ Top = "passwd"
    /\ IF Mine
       THEN /\ password' = IF chosen THEN "set" ELSE password
            /\ calls' = Append(Pop, "unlock")
            /\ hist' = [hist EXCEPT !.unmade = @ \/ (~chosen /\ password = "none")]
            /\ UNCHANGED <<timer, record, fault>>
       ELSE IF chosen THEN fault' = TRUE /\ UNCHANGED <<password, timer, calls, record, hist>>
       ELSE /\ timer' = NoTimer /\ calls' = Pop /\ record' = 0
            /\ UNCHANGED <<password, hist, fault>>
    /\ UNCHANGED <<now, unlocked, given, used>>

\* remmina_unlock_unlock_clicked and what follows the dialog.  The hash that is compared is
\* that of the preferences; where there is no key the verification has nothing to read.
Unlock(right) ==
    /\ ~fault /\ calls # <<>> /\ Top = "unlock" /\ (right => password = "set")
    /\ IF ~Mine \/ password = "none"
       THEN fault' = TRUE /\ UNCHANGED <<timer, unlocked, calls, record, given, used>>
       ELSE /\ timer' = Started(timer)
            /\ unlocked' = (unlocked \/ right)
            /\ given' = IF right THEN now ELSE given
            /\ used' = IF right THEN now ELSE used
            /\ calls' = Pop /\ record' = 0 /\ UNCHANGED fault
    /\ UNCHANGED <<now, password, hist>>

\* remmina_unlock_cancel_clicked has no dialog to answer if the record is another's; the
\* window can still be closed.  A timer that is gone is not destroyed twice.
Cancel ==
    /\ ~fault /\ calls # <<>> /\ Top = "unlock"
    /\ timer' = NoTimer
    /\ calls' = Pop /\ record' = 0
    /\ UNCHANGED <<now, password, unlocked, given, used, hist, fault>>

Next ==
    \/ Tick \/ remmina_unlock_new \/ Cancel
    \/ \E b \in BOOLEAN : remmina_passwd(b) \/ Unlock(b)

Spec == Init /\ [][Next]_vars

-----------------------------------------------------------------------------

\* A use is let through without the password only when it was given less than the timeout
\* before, or, for once, when the use before that was within the timeout: the timer that an
\* earlier use left stopped does not see the time that has passed since.
LetThrough == ~hist.late

\* A dialog that is gone is used only when two calls met, and the hash that is missing only
\* when no password was chosen.
DialogThere == fault => hist.nested \/ hist.unmade
=============================================================================
