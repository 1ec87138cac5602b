SPECIFICATION Spec
CONSTANTS
    Applies = {a1, a2}
    Editors = {}
    Snapshots = {}
    Files <- MCFiles
    BackupOrder <- MCBackupOrder
    SaveOrder <- MCSaveOrder
    Required <- MCRequired
    Units <- MCUnits
    RestartOrder <- MCRestartOrder
    AbsentUnits = {"mongodb"}
    ContainerUnits = {"mongodb"}
    Fields <- MCFields
    Values <- MCValues
    InitDisks <- MCInitDisks
    Requests <- MCRequests
    EditField = "hand"
    EditValue = "edited"
    EditFiles = {"amf"}
    MaxMinute = 0
    MaxCrashes = 1
    Unset = Unset
    NoFile = NoFile
    Torn = Torn
    Blank = Blank
    Normal <- MCNormal
    Down = Down
    NoDoc = NoDoc
    None = None
    a1 = a1
    a2 = a2
    e1 = e1
    s1 = s1
INVARIANTS MutexHeld BackupIsPreImage QuiescentRunsDisk
PROPERTIES RollbackExact ImplementsContract ApplyAnswered
CHECK_DEADLOCK FALSE
