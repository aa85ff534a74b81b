SPECIFICATION Spec
CONSTANTS
  p1 = p1
  p2 = p2
  kb1 = kb1
  kb2 = kb2
  b1 = b1
  b2 = b2
  blank = blank
  i1 = i1
  i2 = i2
  u0 = u0
  u1 = u1
  m1 = m1
  noMonth = noMonth
  e1 = e1
  e2 = e2
  d1 = d1
  noEnd = noEnd
  NoEnd = noEnd
  Ends <- MCEnds
  Blank = blank
  NoMonth = noMonth
  Products <- MCProducts
  KBs <- MCKBs
  Builds <- MCBuilds
  Infos <- MCInfos
  Urls <- MCUrls
  Months <- MCMonths
  MonthOf <- MCMonthOf
  Errors <- MCErrors
  Fetchers <- AdminFetchers
  Offers <- PlainOffers
  Forms <- AdminForms
  MaxRuns = 2
  MaxAdmin = 1
  CrashAt <- Nowhere
CHECK_DEADLOCK FALSE
INVARIANT RunNeverAborts
