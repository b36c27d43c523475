SPECIFICATION FairSpec
CONSTANTS
  Inputs <- PairsAndCrowds
  ListingFails = TRUE
  UpdateFails = TRUE
  NoNode = NoNode
  NoCache = NoCache
INVARIANTS TypeOK GoesOnWithFewLaggards DiesOfTimelessTaintsOnly TakesOneTaintOnly CutCopiesAreNotCleaned
PROPERTIES CleanUpsComplete
