CONSTANTS
  PinJobs <- PinLane
  SimJobs <- SimLane
  Extensions = {"redis"}
  Analysed = {"bfs", "redis"}
  Validated = {1}
  Rebuilt = {"pin"}
  Mixes <- SimAlone
  MaxBuilds = 2
  MaxFaults <- FaultsOf
  FidelityJobs <- InputControls
  StageJobs <- StageTwo
  Trials <- Repetitions
  Preparations = {"inputs"}
  Datasets = {"dataset"}
  Threaded = {"threads20"}
SPECIFICATION CSpec
INVARIANT AttemptsFresh
CHECK_DEADLOCK FALSE
