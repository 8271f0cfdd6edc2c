SPECIFICATION Spec
CONSTANTS
  claude = claude
  codex = codex
  gemini = gemini
  MayClaim <- OwnRole
  Daemons = {claude, codex, gemini}
  Configured = {"PRIMARY", "VERIFIER", "FINAL_REVIEWER"}
  MaxLedgerEntries = 3
  Overlap = TRUE
INVARIANT
  AtMostOneActivation
