SPECIFICATION Spec
CONSTANTS
    Condstore = TRUE
    Qresync = FALSE
    MaxUid = 1
    MaxModseq = 3
    MaxValidity = 1
    MaxEdits = 1
    MaxFails = 0
INVARIANTS PendingEditIsLocal
