SPECIFICATION ProposalAndEnumeration
CONSTANTS
  Req = {r1} GenIds = {g1, g2} MaxMails = 2 Worlds <- LiveWorlds Null = Null
  s1 = s1 s2 = s2 c2 = c2
  SiteUrls = {s1, s2} Reps = {r1, r2} Runners = {w1, w2} MaxAttempts = 1 MaxPresses = 2
  OwnCard = NoCard TemplateCard = c2 NoSite = NoSite NoCard = NoCard
  Decks = {d1, d2} Desks <- LiveDesks MaxDrafts = 3 NoDeck = NoDeck
CHECK_DEADLOCK FALSE
INVARIANT StatusIsTrue
PROPERTIES
  DraftsSettle
  EnumerationSettles
  StudioIsTrue
