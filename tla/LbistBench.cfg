SPECIFICATION BenchSpec
CONSTANTS
  CntMax = 1
  CntChainMax = 1
  CntReseedMax = 2
  N = 4
  Tap <- MCTap
  Xnor = TRUE
  MisrTaps <- MCMisrTaps
  Seeds <- MCSeeds
  GOLDEN_SIGNATURE <- MCGolden
  ChainLen <- MCChainLen
  ResetCells <- MCResetCells
  Respond <- MCRespond
  Defects <- MCDefects
  NoDefect <- MCNoDefect
  MaxDrops = 2
INVARIANTS StimulusIsScheduled WholePatterns GoodCorePasses SampleInGo VerdictIsComparison
PROPERTIES BenchEnds
