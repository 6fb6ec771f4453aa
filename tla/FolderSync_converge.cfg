SPECIFICATION FairSpec
CONSTANTS
    Condstore = TRUE
    Qresync = FALSE
    MaxUid = 2
    MaxModseq = 3
    MaxValidity = 2
    MaxEdits = 1
    MaxFails = 1
PROPERTIES MailConverges FlagsConverge
