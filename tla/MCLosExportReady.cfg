SPECIFICATION ExportSpec
CONSTANTS
  r1 = r1
  r2 = r2
  m1 = m1
  d1 = d1
  x1 = x1
  x2 = x2
  Runs = {r1, r2}
  Messages = {m1}
  Texts = {m1}
  Docs = {d1}
  DocOf <- MCDocOf
  ChannelOf <- MCChannelOf
  SentAt <- MCSentAt
  Unreadable = {}
  Flaky = {}
  Unstorable = {}
  Entities <- MCEntities
  MaxEntities = 2
  KnownKeys <- MCKeys
  RequiredKeys <- MCKeys
  NumericKeys <- MCKeys
  Fragile = {}
  Exports = {x1}
  MaxFacts = 2
  CoreBankingUrl = FALSE
  Unlucky = {}
INVARIANT
  ReadyExportSucceeds
CHECK_DEADLOCK FALSE
