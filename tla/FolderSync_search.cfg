SPECIFICATION Spec
CONSTANTS
    Condstore = TRUE
    Qresync = FALSE
    MaxUid = 3
    MaxModseq = 4
    MaxValidity = 1
    MaxEdits = 0
    MaxFails = 0
INVARIANTS NoMailSkipped
