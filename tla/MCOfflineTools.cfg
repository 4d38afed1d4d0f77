CONSTANTS
  Tools <- Everything
  Files = {1, 2}
  MoveFaults = 2
  Words = 2
  Saturated = 2
  PageSizes = {1, 2}
  WordSizes = {1, 2}
  HotWords = 1
  Dumps <- SomeDumps
  BlockSizes = {1, 2, 3}
  Ks = {1, 2}
  Divisors = {1, 2}
  Cases = 3
  StudyFaults = 3
  Processes = {p1, p2}
  Assets = {1, 2}
  Graphs = 3
  Tolerance = 1
  Errors <- ErrorsOfCandidates
  Launches = 4
  InputFaults = 1
  MaxTrials = 2
  MaxRequests = 4
  Room = 1
SPECIFICATION Spec
INVARIANT RawReachable
INVARIANT ValidatedIsWhole
INVARIANT ModelsAgree
INVARIANT OracleIsBest
INVARIANT StudiesTruthful
INVARIANT ProfiledAlone
INVARIANT InputsAttested
INVARIANT RoiMeasured
CHECK_DEADLOCK FALSE
