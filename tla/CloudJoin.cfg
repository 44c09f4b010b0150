SPECIFICATION CloudSpec
CONSTANTS
    Client = {c1, c2}
    Boot = Boot
    MaxDials = 3
    MaxFaults = 2
SYMMETRY Symmetry
INVARIANTS SeatIsHeld OwnIdentity RosterComplete NobodyLeftWaiting
CHECK_DEADLOCK FALSE
