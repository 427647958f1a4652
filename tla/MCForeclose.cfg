SPECIFICATION FairSpec
CONSTANTS
  Anchorings = {1, 2}
  Txs = {1, 2}
  TxSpends <- MCTxSpends
  CreatedBy <- MCCreatedBy
  RegTriggers <- MCReg
  AddedTriggers <- MCAdd
  SeedTx <- MCSeed
  Satisfying <- MCSat
  Threshold <- MCThr
  HeightHint <- MCHint
  Unwatchable = {}
  MaxHeight = 2
  MaxReorgs = 1
  MaxReorgLen = 1
  MaxFaults = 1
  MaxRegHeight = 0
INVARIANT StagingCurrent
PROPERTIES Finality Convergence
