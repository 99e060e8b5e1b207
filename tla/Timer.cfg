CONSTANTS
  main = main
  c1 = c1
  c2 = c2
  Callers <- MCCallers
  Owner <- main
  Period = 2
SPECIFICATION Spec
INVARIANTS
  SilentOnceShutdown
  NothingToTerminate
PROPERTIES
  NeverTooSoon
  CallsReturn
  CalledUntilShutdown
