SPECIFICATION FairSpec
CONSTANTS
  r1 = r1  r2 = r2  c1 = c1  h1 = h1  h2 = h2
  Nobody = Nobody
  Requests = {r1, r2}
  Conversations = {c1}
  ConversationOf <- SameConversation
  NeedsApproval = {r1}
  Handoffs = {}
  Faults = {"disconnect", "database", "crash", "lock"}
  MaxFaults = 1
PROPERTY RequestsReturn
PROPERTY SettlesUndisturbed
CHECK_DEADLOCK FALSE
