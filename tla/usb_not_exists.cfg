SPECIFICATION Spec
CONSTANTS
  Lists <- MCLists
  DriveIds <- MCDriveIds
  NoUuid = NoUuid
  NoDrive = NoDrive
  Null = Null
INVARIANT NotExistsIsTrue
