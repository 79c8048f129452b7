SPECIFICATION Spec
CONSTANTS
  d1 = d1
  d2 = d2
  d3 = d3
  d4 = d4
  d5 = d5
  d6 = d6
  d7 = d7
  Deliveries = {d1, d2, d3, d5, d7}
  UserOf <- MCUserOf
  ScopeOf <- MCScopeOf
  AttachmentsOf <- MCAttachmentsOf
  TooLong = {d5}
  Unstorable = {}
  Fragile = {d1}
  Outcomes = {"pending_docs", "ready_for_los"}
INVARIANTS
  TypeOK
  AckedIsDurable
  DocumentHasFile
PROPERTY
  ImplementsInbox
CHECK_DEADLOCK FALSE
