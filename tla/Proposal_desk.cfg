SPECIFICATION DeskSpec
CONSTANTS
  Req = {r1, r2, r3, r4}
  GenIds = {g1, g2}
  MaxMails = 2
  Worlds <- DeskWorlds
  Null = Null
  Choices = {"anthropic", "openai", "gemini", "ollama", "manual"} NoLlmRow = NoLlmRow
  LlmScenes <- MCLlmScenes
SYMMETRY MCSymmetry
CHECK_DEADLOCK FALSE
INVARIANTS NoPhantomSent OneMail OneGammaStart CallsKeepFaith
