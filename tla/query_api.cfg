SPECIFICATION Spec
CONSTANTS
  None = None
  Ids = {1, 2, 3}
  Contact <- MCContact
  Trimmed <- MCTrimmed
  Uses <- MCUses
  Forms <- MCForms
  PageForms <- MCPageForms
  WalkFilters <- MCWalkFilters
  UploadDay <- MCUploadDay
  FirstDay = 2
  TopRows = 1
  JobRows <- MCJobRows
  Dashboards <- MCDashboards
  PageSize = 1
  MaxHits = 2
  Window = 2
  MaxEvents = 3
  Together = FALSE
INVARIANTS WalkMissesNothing StillTableAgrees LimitHolds GracefulExitCutsNoOne ExportIsWhatWasFound
CHECK_DEADLOCK FALSE
