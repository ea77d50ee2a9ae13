SPECIFICATION FairSpec
CONSTANTS
  Parent = parent
  Children = {c1, c2}
  Configs <- MCConfigs
  Candidates <- MCCandidates
  Missing = Missing
  Malformed = Malformed
  Empty = Empty
  Edits <- MCEdits
  NoConfig = NoConfig
  NumberOf <- MCNumberOf
  NotANumber <- NotNumber
  MaxPort = 65535
  Ephemeral <- MCEphemeral
  Second = 10
  Day = 3
  Threshold = 5
  MinSecret = 32
INVARIANT TypeOK ListenersValidated BoundPortIsChecked LifetimeNeverLonger
PROPERTY DeathStopsService
CHECK_DEADLOCK FALSE
