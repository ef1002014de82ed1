SPECIFICATION SettleSpec
CONSTANTS
  EventIds = {e1, e2} Engagements = {g1} Callers = {c1, c2} MaxClock = 3 Tampering = FALSE
  Agents = {ann, bob} Managers = {ann} Tickets = {q1} FollowUps = {u1} LeadSettings <- MCLeadSettings
  MaxActivity = 2 None = None
CHECK_DEADLOCK FALSE
PROPERTIES
  EveryEventSealed
  SummarySettles
