CONSTANTS
  PinJobs <- PinLane
  SimJobs <- SimLane
  Extensions = {"redis"}
  Analysed = {"bfs", "redis"}
  Validated = {1}
  Rebuilt = {"pin"}
  Mixes <- Together
  MaxBuilds = 2
  MaxFaults <- FaultsOf
  FidelityJobs <- InputControls
  StageJobs <- StageTwo
  Trials <- Repetitions
  Preparations = {"inputs"}
  Datasets = {"dataset"}
  Threaded = {"threads20"}
SPECIFICATION CSpec
INVARIANT Verified
INVARIANT Truthful
PROPERTY ResultsKept
PROPERTY HeldStaysQueued
PROPERTY PinFinishes
PROPERTY ChainFinishes
CHECK_DEADLOCK FALSE
