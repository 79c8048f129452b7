SPECIFICATION FairSpec
CONSTANTS
  r1 = r1
  r2 = r2
  r3 = r3
  m1 = m1
  m2 = m2
  d1 = d1
  Runs = {r1, r2}
  Messages = {m1, m2}
  Texts = {m1}
  Docs = {d1}
  DocOf <- MCDocOf
  ChannelOf <- MCChannelOf
  SentAt <- MCSentAt
  Unreadable = {}
  Flaky = {}
  Unstorable = {}
  Entities <- MCEntities
  MaxEntities = 2
  KnownKeys <- MCKeys
  RequiredKeys <- MCKeys
  NumericKeys <- MCKeys
  Fragile = {}
INVARIANT
  NoDuplicateChase
CHECK_DEADLOCK FALSE
