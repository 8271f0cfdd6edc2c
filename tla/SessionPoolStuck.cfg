SPECIFICATION Spec
SYMMETRY Alike
CONSTANTS
  k1 = k1
  n1 = n1
  a1 = a1
  a2 = a2
  a3 = a3
  Nobody = Nobody
  Keys <- Both
  Native <- NativeKey
  Callers <- ThreeCallers
  MaxSessions = 1
  MaxConns = 2
  MaxRestarts = 0
INVARIANT BusyMeansPrompt
