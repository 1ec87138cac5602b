SPECIFICATION Spec
CONSTANTS
    Applies = {a1}
    Editors = {e1}
    Snapshots = {s1}
    Files <- MCFiles
    BackupOrder <- MCBackupOrder
    SaveOrder <- MCSaveOrder
    Required <- MCRequired
    Units <- MCUnits
    RestartOrder <- MCRestartOrder
    AbsentUnits = {"mongodb"}
    ContainerUnits = {"mongodb"}
    Fields <- MCFields
    Values <- MCValues
    InitDisks <- MCInitDisks
    Requests <- MCRequests
    EditField = "hand"
    EditValue = "edited"
    EditFiles = {"amf"}
    MaxMinute = 1
    MaxCrashes = 0
    Unset = Unset
    NoFile = NoFile
    Torn = Torn
    Blank = Blank
    Normal <- MCNormal
    Down = Down
    NoDoc = NoDoc
    None = None
    a1 = a1
    a2 = a2
    e1 = e1
    s1 = s1
INVARIANTS UntouchedFieldsKept
PROPERTIES RollbackExactApart
CHECK_DEADLOCK FALSE
