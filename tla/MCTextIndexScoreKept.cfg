SPECIFICATION SuiteSpec
CONSTANTS
  Doc = {d1, d2}
  Text = {hit, miss}
  NoText = NoText
  NoDoc = NoDoc
  MaxScore = 1
  Query = {hit}
  BatchSize = 1
  Nil = Nil
  Stores = {"es"}
PROPERTIES
  ESImplementsIndexer
CHECK_DEADLOCK FALSE
