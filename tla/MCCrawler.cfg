SPECIFICATION PackageSpec
CONSTANTS
  site1 = site1
  site2 = site2
  URL <- MCURL
  Page <- MCPage
  Null = Null
  Updater = {u1, u2}
  MaxTime = 2
  Link = {l1, l2}
  Titled = {l1}
  Fetcher = {f1, f2}
  Obj = {o1, o2, o3}
  NoLink = NoLink
  NoObj = NoObj
  NoDocument = NoDocument
SYMMETRY Symmetry
INVARIANTS
  PageEdgesStand
  NoStaleEdges
  CrawlRecorded
  CrawlTypeOK
  OneHolder
  PagesDoNotMix
PROPERTIES
  OnlyStaleRemoved
