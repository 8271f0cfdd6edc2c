SPECIFICATION Spec
CONSTANTS
  claude = claude
  codex = codex
  gemini = gemini
  MayClaim <- AnyRole
  Daemons = {claude, codex}
  Configured = {"PRIMARY", "VERIFIER", "FINAL_REVIEWER"}
  MaxLedgerEntries = 3
  Overlap = FALSE
SYMMETRY Symmetry
INVARIANTS
  TypeOK
  AtMostOneActivation
  ActivationMatchesAssignment
  SentIsOnRecord
  FailedNeverAdvances
  OneCorrectionRound
PROPERTY KeepsPromise
