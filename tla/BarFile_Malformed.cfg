\* Expected to fail: see the README, "What the program does not keep".
SPECIFICATION Spec
CONSTANTS
    Closes = {4, 12, 30, 96}
    Digits = 1
    MaxRows = 2
INVARIANT MalformedBarsAreRefused
