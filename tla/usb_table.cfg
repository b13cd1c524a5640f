SPECIFICATION Spec
CONSTANTS
  Lists <- MCLists
  DriveIds <- MCDriveIds
  NoUuid = NoUuid
  NoDrive = NoDrive
  Null = Null
INVARIANTS TypeOK OperatesOnMounted EjectsThatDevice QuietAnswersExact
