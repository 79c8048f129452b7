SPECIFICATION FairTrailSpec
CONSTANTS
  r1 = r1
  r2 = r2
  m1 = m1
  m2 = m2
  d1 = d1
  Runs = {r1, r2}
  Messages = {m1, m2}
  Texts = {m1}
  Docs = {d1}
  DocOf <- MCDocOf
  ChannelOf <- MCChannelOf
  SentAt <- MCSentAt
  Unreadable = {}
  Flaky = {d1}
  Unstorable = {}
  Entities <- MCEntities
  MaxEntities = 3
  KnownKeys <- MCKnownKeys
  RequiredKeys <- MCRequiredKeys
  NumericKeys <- MCNumericKeys
  Fragile = {}
  t1 = t1
  Trails = {t1}
  AskOf <- MCAskOf
INVARIANTS
  TrailTypeOK
  TrailShowsMismatch
PROPERTIES
  ProcessingEnds
  MessagesAreRead
CHECK_DEADLOCK FALSE
