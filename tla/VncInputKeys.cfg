CONSTANTS
    Keyvals = {"s", "m"}
    Keycodes = {1, 2}
    Buttons = {1}
    MaxPressed = 2
SPECIFICATION Spec
PROPERTY ReleasesWhatItSent
