SPECIFICATION Spec
CONSTANTS
    Condstore = TRUE
    Qresync = TRUE
    MaxUid = 2
    MaxModseq = 3
    MaxValidity = 2
    MaxEdits = 1
    MaxFails = 3
INVARIANTS TypeOK CursorCoversFolder
PROPERTIES CursorNeverGoesBack FolderMirrored RowsNeverGetOlder
