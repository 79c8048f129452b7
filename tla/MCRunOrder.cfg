SPECIFICATION OrderedSpec
CONSTANTS
  r1 = r1
  r2 = r2
  r3 = r3
  m1 = m1
  m2 = m2
  d1 = d1
  Runs = {r1, r2, r3}
  Messages = {m1, m2}
  Texts = {m1}
  Docs = {d1}
  DocOf <- MCDocOf
  ChannelOf <- MCOneChannel
  SentAt <- MCSentAt
  Unreadable = {}
  Flaky = {}
  Unstorable = {}
  Entities <- MCEntities
  MaxEntities = 2
  KnownKeys <- MCKeys
  RequiredKeys <- MCKeys
  NumericKeys <- MCKeys
  Fragile = {r1, r2, r3}
SYMMETRY RunSymmetry
INVARIANTS
  TypeOK
  ProcessingHasOwner
  NoSilentMismatch
  GenerationsAtomic
  FactsTraceable
  OutcomeAnnounced
  NoStaleFacts
  NoRepeatAfterEnd
  ReadyIsCompleteOrRaced
  FactsCoverMessages
PROPERTY
  LoneFailureFlips
CHECK_DEADLOCK FALSE
