SPECIFICATION FrontDoorSpec
CONSTANTS
  a1 = a1
  r1 = r1
  r2 = r2
  r3 = r3
  u1 = u1
  u2 = u2
  Approvals = {a1}
  Requests = {r1, r2, r3}
  Users = {u1, u2}
  MaxAttempts = 3
  f1 = f1
  noon = noon
  owner = owner
  other = other
  Files = {f1}
  Campaigns = {noon}
  Owners = {owner}
  People = {owner, other}
  m1 = m1
  m2 = m2
  m3 = m3
  h1 = h1
  h2 = h2
  Messages = {m1, m2, m3}
  SenderKnown = {m1, m2, m3}
  Commands = {m2}
  Named = {m1}
  Times = {noon}
  Handlers = {h1, h2}
  MaxPosts = 2
CHECK_DEADLOCK FALSE
INVARIANTS
  RecordIsOneDecision
  LogTellsSaved
  ExecutedWasApproved
  InboundAccounted
PROPERTIES
  NeverPendingAgain
  RequestsAnswered
