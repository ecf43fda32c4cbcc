SPECIFICATION Spec
CONSTANTS
  Pilet = FALSE
  Cores <- SomeCores
  Memories <- SomeMemories
  Sizes <- SomeSizes
  Images <- SomeImages
  Counts <- SomeCounts
  Keys <- SomeKeys
  AllImages <- OfferedImages
ACTION_CONSTRAINT OneAtATime
INVARIANTS PagesAgree AvailabilityAgrees
PROPERTIES EditsOnlyWhatWasTyped
