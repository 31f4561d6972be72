SPECIFICATION Spec
CONSTANTS
    Rows = {1, 2}
    Initial = {1, 2}
    Views <- AllViews
    Searches = {{}, {1}}
    MaxFlight = 2
    MaxClicks = 2
    MaxFaults = 1
INVARIANTS TypeOK SettledRows KeepsToItsOwn
PROPERTIES ComesToRest
CHECK_DEADLOCK FALSE
