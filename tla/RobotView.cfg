SPECIFICATION Spec
CONSTANTS
  MaxCode = 20
  Firmwares = {"old", "new"}
  MaxClears = 2
INVARIANTS
  TypeOK
  ShowsWhatItSaid
  EntitiesAgree
  ResumesWhatIsPaused
  OneClearPerTask
