SPECIFICATION Spec
CONSTANTS
    Versions <- Files
    Pinned <- Model
    Found <- Damaged
    Absent = Absent
    Garbage = 0
    MaxFaults = 3
PROPERTIES
    OnlyVerifiedLands
    DownloadCompletes
CHECK_DEADLOCK FALSE
