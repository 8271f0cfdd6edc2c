SPECIFICATION Spec
CONSTANTS
  claude = claude
  codex = codex
  gemini = gemini
  MayClaim <- TwoBots
  Daemons = {claude, codex}
  Configured = {"PRIMARY", "VERIFIER"}
  MaxLedgerEntries = 1
  Overlap = TRUE
INVARIANTS
  DeliveredIsCommitted
  StageWasAnnounced
PROPERTY
  AssignmentNeverRegresses
CONSTRAINT Bounded
