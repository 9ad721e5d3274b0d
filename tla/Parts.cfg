SPECIFICATION Spec
CONSTANTS
  SpaceCount = 4
  MaxWallCount = 3
  RandMax = 8
  IntMax = 100
  Features = {bestShot, title}
  Span = 2
  ShotNumbers = {0, 3}
  MaxObjects = 2
  MaxTracks = 4
  Timestamps = {0, 1, 2, 3}
  Periods = {0, 2}
  FrameSteps = {1, 2}
  CounterPeriod = 2
  Delays = {0, 2}
  CreationRefs = {"perCreation"}
  CycleRefs = {"perCycle1", "perCycle2"}
  Uuids = {"uuid"}
  ObjectTypes = {"car", "man"}
  NoValue = NoValue
  BadValue = BadValue
  StreamFiles <- MCStreamFiles
  DefaultStream <- MCDefaultStream
  MaxStreamIds = 5
  DetectTypes <- MCDetectTypes
  TrackLength = 3
  MaxDetected = 7
  CellCounts <- MCCellCounts
  AreaSizes <- MCAreaSizes
  MaxAreaIds = 8
  number = number
  string = string
  Reloaders = {r1, r2}
  Tweakers = {"w1", "w2"}
  MaxGuards = 2
  ParamOrder <- MCParamOrder
  StringParams = {string}
  TweakedParams = {string}
  IniTexts <- MCIniTexts
  NoLine = "NoLine"
  NoText = "NoText"
  BadText = "BadText"
  DefaultValue = "default"
  NoReloader = NoReloader
  Characters = {0, 10, 32, 34, 49, 56, 65, 92, 120, 122, 200}
  MaxTextLength = 4
  Lowest = 0
  Middle = 2
  Highest = 3
  Threads = {t1, t2}
  Server = Server
  Nobody = Nobody
  Handlers = {h1, h2, h3}
  NoHandler = NoHandler
  MaxPackets = 3
  InstanceCount = 2
  TestCount = 2
  RunCount = 2
  RandomNames = {"random1", "random2"}
  CommandLines <- MCCommandLines
  StatusRange = 256
  TypeIds = {"car", "man"}
  DefaultTypeIds = {"car"}
  StreamTypeIds <- MCStreamTypeIds
  MaxChoices = 1
  PictureWidth = 3
  BoxWidth = 1
  MaxActionTracks = 2
  ErrorPeriod = 3
  MaxErrorFrames = 4
  MaxErrorFlags = 1
  RequestTimes = {0, 1, 2, 3}
  RequestPeriods = {1, 2}
  DefaultPeriod = 1
  MaxRequests = 2
  FrameTimes = {0, 1, 2, 3}
  FrameSizes = {1, 2}
  WindowSizes = {0, 1, 2}
  FrameLimits = {0, 2}
  TimeUnit = 5
  MaxFrames = 3
INVARIANTS
  TypeOK
  WallsApart
  OneShotPerTrack
  QueueFollowsFrames
  OneTrackPerCycle
  TracksOnlyClimb
  MotionIsShown
  ReloadsAndTweaksAgree
  TextsAreReadBack
  DialogIsSound
  GeneratedFits
  HandlerOutlivesCall
  BatchIsContiguous
  NothingOutlivesItsOwner
  RunIsSound
  DialogIsObeyed
  
  ErrorsAreAsAsked
  RequestsAreAnswered
  StatisticsAreRight
CHECK_DEADLOCK FALSE
