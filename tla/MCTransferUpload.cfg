\* A file of two parts; any two faults, and one upload id more than faults.
CONSTANTS
    Parts = {1, 2}
    UploadIds = {u1, u2, u3}
    NoUpload = NoUpload
    MaxFaults = 2
SPECIFICATION FairUploadSpec
INVARIANTS RecordedPartsAreStored OnlyWholeFilesAreJoined
PROPERTIES UploadFinishes
CHECK_DEADLOCK FALSE
