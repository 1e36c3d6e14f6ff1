\* Breaks, crashes, takeovers, stops and failing subscriptions, the window
\* never full, under fairness.
CONSTANTS
    Window = 6
    MaxStarts = 2
    MaxBreaks = 1
    MaxCommands = 2
    LocalFaults = TRUE
SPECIFICATION LinkFairSpec
INVARIANTS
    StatusRight
    OnlineListens
PROPERTIES
    ComesOnline
    GoesOffline
\* The bounds on starts and breaks let it stop.
CHECK_DEADLOCK FALSE
