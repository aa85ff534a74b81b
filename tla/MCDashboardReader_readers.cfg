SPECIFICATION ReaderSpec
CONSTANTS
  p1 = p1
  p2 = p2
  kb1 = kb1
  kb2 = kb2
  b1 = b1
  b2 = b2
  blank = blank
  i1 = i1
  i2 = i2
  u0 = u0
  u1 = u1
  m1 = m1
  noMonth = noMonth
  e1 = e1
  e2 = e2
  d1 = d1
  noEnd = noEnd
  NoEnd = noEnd
  i3 = i3
  noDate = noDate
  NoDate = noDate
  DateOf <- ReaderDateOf
  Previews <- ReaderPreviews
  OutOfBand <- NoBuilds
  Ends <- MCEnds
  Blank = blank
  NoMonth = noMonth
  Products <- MCProducts
  KBs <- MCKBs
  Builds <- MCBuilds
  Infos <- ReaderInfos
  Urls <- MCUrls
  Months <- MCMonths
  MonthOf <- ReaderMonthOf
  Errors <- MCErrors
  Fetchers <- ReaderFetchers
  Offers <- ReaderOffers
  Forms <- ReaderForms
  MaxRuns = 2
  MaxAdmin = 2
  CrashAt <- InUpserts
CHECK_DEADLOCK FALSE
PROPERTY HistoryKept
PROPERTY ShownIsSearchable
PROPERTY HistoryHasWhatIsShown
PROPERTY ExportIsComplete
