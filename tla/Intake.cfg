SPECIFICATION IntakeSpec
CONSTANTS
  l1 = l1 l2 = l2 t1 = t1 t2 = t2 t3 = t3 d1 = d1 d2 = d2
  j1 = j1 j2 = j2 m1 = m1 m2 = m2 b1 = b1 b2 = b2
  END = "END" None = "None"
  Links = {l1, l2} Tabs = {t1, t2, t3}
  Device <- MCDevice
  Template <- MCTemplate
  Values <- MCValues
  Crews <- MCCrews
  MaxIter = 2 MaxEvents = 2
  Arts = {a1, a2} Deals = {e1, e2} Reqs = {r1, r2} Mails = {x1}
  NoId = NoId NoDeal = NoDeal Deletions = 1
  OdooDeals = {e1, e2} OwnDeals = {e1} Leads = {11, 12} OdooJobs = {j1, j2}
  NoLead = 0 NoOdooDeal = NoOdooDeal
  OdooCrews <- MCOdooCrews
  MaxRev = 2
  Boxes = {b1, b2} MailReqs = {m1, m2} NoBox = NoBox
  MailWorlds <- MCMailWorlds
  MaxGrants = 3
  Panes = {1, 2} PaneDeals = {1, 2} NoPaneDeal = 0 MaxLost = 1 MaxSessions = 1
  Clients = {x, y} Offered = {tpl1, tpl2} NoClient = NoClient NoTemplate = NoTemplate
  StartScenes <- MCStartScenes
CHECK_DEADLOCK FALSE
INVARIANTS   ImportedWhole MirrorsAreTrue StartsAreTrue
PROPERTIES SubmittedScopeFrozen StaysDisconnected
