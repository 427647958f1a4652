SPECIFICATION FairSpec
CONSTANTS
  Anchorings = {1, 2}
  LivePhases = {"unwitnessed", "witnessed"}
  FinalPhases = {"buried"}
  EffectPhases = {"witnessed", "buried"}
  StuckAfterAttempts = 2
  InitialBackoff = 2
  MaxBackoff = 3
  outboxBatchSize = 2
  Effects = {1, 2, 3}
  MaxPhaseChanges = 2
  MaxFailures = 2
INVARIANTS SiteMatchesRegistry EffectsMatchDeliveries AtLeastOnce
PROPERTIES ImplementsPromise Delivers Dispatches
CHECK_DEADLOCK FALSE
