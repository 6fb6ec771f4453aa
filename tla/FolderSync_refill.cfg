SPECIFICATION FairSpec
CONSTANTS
    Condstore = TRUE
    Qresync = TRUE
    MaxUid = 1
    MaxModseq = 3
    MaxValidity = 2
    MaxEdits = 0
    MaxFails = 0
PROPERTIES RebuiltFolderRefills
