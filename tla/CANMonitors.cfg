SPECIFICATION MonitorsSpec
CONSTANTS
  PeriodicIds = {"soc", "temperature"}
  AllowedGap <- MCGaps
  MaxDelay = 1
  MaxAhead = 0
  LastTick = 6
  ObservedIds = {"soc"}
  MinGap = 2
  RateWindow = 3
  MaxEvents = 2
  MaxProcessingQueue = 2
  LastFrameTime = 7
  MaxFrames = 4
  MaxItems = 4
  SentReadings <- MCSentReadings
  ForeignFrames <- MCForeignFrames
  SenderOrder = "big"
  ReceiverOrder = "big"
  RequireMAC = TRUE
  MaxFlips = 2
INVARIANTS
  LossIsDetected
  PresentIsNotMissing
  WindowIsExact
  FloodIsLimited
  SteadyIsNotLimited
  QueueHoldsNewest
  DecodedIsSent
PROPERTY SilenceIsReportedOnArrival
