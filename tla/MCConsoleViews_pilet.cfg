SPECIFICATION Spec
CONSTANTS
  Pilet = TRUE
  Cores <- SomeCores
  Memories <- SomeMemories
  Sizes <- SomeSizes
  Images <- SomeImages
  Counts <- SomeCounts
  Keys <- SomeKeys
  AllImages <- OfferedImages
ACTION_CONSTRAINT OneAtATime
INVARIANT CreatesAreWellFormed
