SPECIFICATION FairClientSpec
CONSTANTS
  r1 = r1
  r2 = r2
  m1 = m1
  d1 = d1
  d2 = d2
  Runs = {r1, r2}
  Messages = {m1}
  Texts = {m1}
  Docs = {d1, d2}
  DocOf <- MCDocOf
  ChannelOf <- MCChannelOf
  SentAt <- MCSentAt
  Unreadable = {}
  Flaky = {d2}
  Unstorable = {d2}
  Entities <- MCEntities
  MaxEntities = 2
  KnownKeys <- MCKnownKeys
  RequiredKeys <- MCKnownKeys
  NumericKeys <- MCKnownKeys
  Fragile = {r1}
  WordChars <- MCWordChars
  CaseFold <- MCCaseFold
  MaxRetries = 2
  Modes = {"provider", "mock"}
  RawEntities <- MCRawEntities
  TextOf <- MCTextOf
INVARIANTS
  ClientTypeOK
  PaidOnce
  ResponsePresent
  CodeNamesCause
  FactsHavePassage
PROPERTY
  ImplementsPipeline
CHECK_DEADLOCK FALSE
