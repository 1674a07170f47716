\* Closes of one and two digits, of which one is printed: two that are kept, one
\* rounded down and one up.
SPECIFICATION Spec
CONSTANTS
    Closes = {4, 12, 30, 96}
    Digits = 1
    MaxRows = 4
INVARIANT ReplayTakesQuotes
