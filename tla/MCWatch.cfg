SPECIFICATION SensingSpec
CONSTANTS
  Anchorings = {1}
  Txs = {1, 2}
  TxSpends <- MCTxSpends
  CreatedBy <- MCCreatedBy
  RegTriggers <- MCReg
  AddedTriggers <- MCAdd
  SeedTx <- MCSeed
  Satisfying <- MCSat
  Threshold <- MCThr
  HeightHint <- MCHint
  Unwatchable = {}
  MaxHeight = 3
  MaxReorgs = 1
  MaxReorgLen = 2
  MaxFaults = 1
  MaxRegHeight = 0
INVARIANTS ActEvidence NoContradiction QuietMeansCurrent
