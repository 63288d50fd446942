\* The system may stop: each attempt saves an address once.
CHECK_DEADLOCK FALSE
SPECIFICATION RecordsSpec
CONSTANTS
  Addresses = {"a", "b"}
  RawPages <- SomeRawPages
  CrawlErrors <- SomeCrawlErrors
  MinWords = 2
  NoiseLines = 2
  AssetLimit = 4
  PreviewLength = 2
INVARIANTS
  ImagesAreComplete
