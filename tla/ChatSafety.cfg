SPECIFICATION Spec
CONSTANTS
  r1 = r1  r2 = r2  c1 = c1  h1 = h1  h2 = h2
  Nobody = Nobody
  Requests = {r1, r2}
  Conversations = {c1}
  ConversationOf <- SameConversation
  NeedsApproval = {r1}
  Handoffs = {h1, h2}
  Faults = {"disconnect", "database", "crash"}
  MaxFaults = 2
INVARIANT NoTrackedChildLeftRunning
INVARIANT HistoryIsCurrent
INVARIANT NothingRunsUnapproved
INVARIANT RunTellsWhatHappened
PROPERTY TurnsAreSerial
CHECK_DEADLOCK FALSE
