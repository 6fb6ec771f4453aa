SPECIFICATION Spec
CONSTANTS
    Condstore = TRUE
    Qresync = TRUE
    MaxUid = 2
    MaxModseq = 4
    MaxValidity = 1
    MaxEdits = 0
    MaxFails = 0
INVARIANTS SkipIsSound
