SPECIFICATION FairSpec
CONSTANTS
  d1 = d1
  d2 = d2
  d3 = d3
  d4 = d4
  d5 = d5
  d6 = d6
  d7 = d7
  Deliveries = {d1, d3, d4, d6}
  UserOf <- MCUserOf
  ScopeOf <- MCScopeOf
  AttachmentsOf <- MCAttachmentsOf
  TooLong = {}
  Unstorable = {d6}
  Fragile = {}
  Outcomes = {"pending_docs", "ready_for_los"}
INVARIANT
  QueuedIsOwn
PROPERTIES
  RequestsEnd
  MessagesGetRun
CHECK_DEADLOCK FALSE
