SPECIFICATION Spec
SYMMETRY TwoAlike
CONSTANTS
  k1 = k1
  n1 = n1
  a1 = a1
  a2 = a2
  a3 = a3
  Nobody = Nobody
  Keys <- Both
  Native <- NativeKey
  Callers <- TwoCallers
  MaxSessions = 2
  MaxConns = 2
  MaxRestarts = 1
INVARIANT TypeOK CapacityHolds OneCreator EvictedIsQuiet OnePrompt LiveIsResumable SessionsArePrivate
