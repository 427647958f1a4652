SPECIFICATION RegisteringFairSpec
CONSTANTS
  Anchorings = {1}
  Txs = {1, 2}
  TxSpends <- MCTxSpends
  CreatedBy <- MCCreatedBy
  RegTriggers <- MCReg
  AddedTriggers <- MCAdd
  SeedTx <- MCSeed
  Satisfying <- MCSat
  Threshold <- MCThr
  HeightHint <- MCHint
  Unwatchable = {}
  MaxHeight = 3
  MaxReorgs = 0
  MaxReorgLen = 2
  MaxFaults = 1
  MaxRegHeight = 1
INVARIANTS WholeSet QuietMeansCurrent
PROPERTY Convergence
