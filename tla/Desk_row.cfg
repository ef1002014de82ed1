SPECIFICATION BackSpec
CONSTANTS
  wild = wild black = black white = white apk = apk grey = grey a1 = a1 a2 = a2 noapp = noapp f1 = f1 f2 = f2 k1 = k1
  Sites <- MCSites Options <- MCOptions MaxRedirects = 2 MaxRetries = 1 MapLevels = 3
  WildMethod = wild NoApp = noapp Specific <- MCSpecific NoNode = NoNode Threshold = 6
  CaseCard <- MCCard SomeEntities <- MCEntities SomeMentions <- MCMentions SomeTiers <- MCTiers
  CaseTemplate <- MCTemplateNodes SomeAnswers <- MCAnswers SomeItems <- MCItems
  SomeVerdicts <- MCVerdicts SiteCards <- MCSiteCards MaxCase = 3
  Categories <- MCCategories Preferred <- MCPreferred BatchSize = 2 NoSlug = NoSlug AnyMethod = AnyMethod
  DeskFiles <- MCFiles DeskCards <- MCDeskCards NoRateCard = NoRateCard Readings <- MCReadings
  Tabs = {t1, t2} Corrections = {5} Extras <- MCExtras Tuning <- MCTuning MaxClosed = 1
  DeskWorlds <- MCDeskWorlds
  ann = ann bob = bob Persons = {ann, bob} Founder = ann Roles = {"admin", "rep"} LinkLimit = 1
  Crowds <- MCCrowds MaxBumps = 1 MaxLinks = 2 MaxInvites = 1 MaxUsers = 3 Nobody = Nobody
  END = END None = None Sheets <- MCSheets SampleTree <- MCSample Toggles = {x_ids} MaxNodes = 6 MaxEdits = 3
  c1 = c1 c2 = c2 c3 = c3 c4 = c4 CategorySlugs = {c1, c2, c3, c4} u1 = u1 u2 = u2 Members = {u1, u2}
  NoCat = NoCat Planted <- MCPlanted Template <- MCTaxonomy Scenes <- MCScenes Bottom = 9
  SettingsTabs = {"left", "right"} SettingsScenes <- MCSettingsScenes DefaultRoutes <- MCRoutes
  Events = {"proposal_sent", "approval_granted"} Values = {1, 2} Unset = 0
  CardTabs = {"t1", "t2"} Details = {"d1", "d2"} CardScenes <- MCCardScenes Top = 9 Bad = 77
  Fixtures <- MCFixtures
  InferLines <- MCInferLines Variants <- MCVariants Keywords <- MCKeywords Triggers = {"iam", "dlp"}
  UrlSlug = "cloud" WhiteBox = white ByCustomer <- MCByCustomer
  NonScope = {"identity", "compliance", "methodology"} Docs <- MCDocs NoDoc = NoDoc MaxDraws = 3
  InferTabs = {t1, t2} InferScenes <- MCInferScenes
CHECK_DEADLOCK FALSE
PROPERTY OverrideEditsTheRow
