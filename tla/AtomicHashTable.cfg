CONSTANTS
  k1 = k1
  k2 = k2
  k3 = k3
  short = short
  long = long
  NoOp = NoOp
  NoNode = NoNode
  None = None
  Process = {p1, p2}
  Key = {k1, k2}
  Value = {short, long}
  HashOf <- MCHash
  HashSize = 64
  Size <- MCSize
  Cols <- MCCols
  Ops <- MCOps
  MaxCrashes = 1
  MaxCopies = 1
SPECIFICATION FairSpec
INVARIANTS TypeOK ChainsAreApart ValuesAreWhole NoNodeIsLost CountersDrift
PROPERTIES ImplementsMap CallsEnd
