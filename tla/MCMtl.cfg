CONSTANTS
  IntMax = 11
  WordMax = 63
  Primes <- MCPrimes
  SortThreshold = 2
  Keys = {0, 1, 2, 3, 4}
  Prios = {0, 1, 2}
  Data = {0, 1}
  Values = {0, 1, 2}
  MaxSize = 9
  StartCap = 8
  Sizes = {5, 8, 30}
SPECIFICATION Spec
VIEW view
INVARIANT RepOK
PROPERTY Implements
