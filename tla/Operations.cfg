\* The system may stop: export rows, pictures, runs, attempts and time are bounded.
CHECK_DEADLOCK FALSE
SPECIFICATION OperationsSpec
CONSTANTS
  e1 = e1
  e2 = e2
  e3 = e3
  q1 = q1
  q2 = q2
  q3 = q3
  Types = {"zip", "csv"}
  ExportIds = {e1, e2, e3}
  Pictures = {q1, q2, q3}
  FileActs = {h1, h2}
  FileLoads <- SomeFileLoads
  setting = setting
  listed = listed
  unlisted = unlisted
  server1 = server1
  server2 = server2
  worker = worker
  h1 = h1
  h2 = h2
  Settings = {setting}
  Templates = {listed, unlisted}
  Defaults = {setting}
  Servers = {server1, server2}
  Workers = {worker}
  MaxTemplates = 1
  CacheActs = {h1, h2}
  CacheLoads <- SomeCacheLoads
  Urls = {"a", "b", "c", "d"}
  Crawls <- SomeCrawls
  ProgressEvery = 2
  SaveFails = TRUE
  Addresses = {"a", "b"}
  RawPages <- SomeRawPages
  CrawlErrors <- SomeCrawlErrors
  MinWords = 2
  NoiseLines = 2
  AssetLimit = 4
  PreviewLength = 2
  Exporters = {h1, h2}
  ExportLoads <- SomeExportLoads
  MaxEdition = 2
  MarkdownFiles <- TwoEditions
  Structured = {1}
  MonthLengths <- SmallYear
  DayLength = 4
  WeekLength = 3
  Horizon = 80
  Plans <- SmallPlans
  Zones <- FixedZones
  MinTime = 4
  MaxTime = 36
SYMMETRY Interchangeable
INVARIANTS
  OperationsTypeOK
  FilesMatchRows
  CachesAreCurrent
  CountsAreTrue
  ExportsAgree
  NextRunIsEarliest
