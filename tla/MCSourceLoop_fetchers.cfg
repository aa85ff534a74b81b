SPECIFICATION FairLoopSpec
CONSTANTS
  fx35 = fx35
  fx48 = fx48
  core8 = core8
  w10 = w10
  w11 = w11
  kb1 = kb1
  kb2 = kb2
  kb3 = kb3
  kb4 = kb4
  kb5 = kb5
  aug = aug
  sep = sep
  odd = odd
  augDay = augDay
  sepDay = sepDay
  sepFix = sepFix
  noDate = noDate
  noSystem = noSystem
  Updates <- MCUpdates
  ReleaseDate <- MCReleaseDate
  MonthOf <- MCMonthOf
  Documents <- MCDocuments
  Articles <- MCArticles
  Frameworks <- MCFrameworks
  Cores <- MCCores
  Systems <- MCSystems
  KBs <- MCKBs
  Dates <- MCDates
  NoDate = noDate
  NoSystem = noSystem
  MaxConcurrent = 2
  absent = absent
  ended = ended
  Absent = absent
  Days = {1, 2, 3}
  Pages <- MCPages
  OsHeading <- MCOsHeading
  PageElements <- MCPageElements
  Versions <- MCVersions
  VersionElements <- MCVersionElements
  Indexes <- MCIndexes
  Answers <- MCAnswers
  MaxRequests = 2
CHECK_DEADLOCK FALSE
INVARIANT TypeOK
INVARIANT EveryPatchHasItsProduct
INVARIANT EveryFixIsReported
INVARIANT RowsFollowTheirArticle
INVARIANT EveryBundleIsReportedOnce
INVARIANT RowsFollowTheirHeading
INVARIANT SupportEndsWhenLastSaid
INVARIANT VersionsAreAccountedFor
INVARIANT ChannelsAreReported
PROPERTY EverySourceIsReached
