CONSTANTS
  Clients <- ReuseClients
  IntMax = 32767
SPECIFICATION Spec
INVARIANT ModelIsOne
