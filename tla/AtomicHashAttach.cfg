CONSTANTS
  k1 = k1
  k2 = k2
  k3 = k3
  short = short
  long = long
  NoOp = NoOp
  NoNode = NoNode
  None = None
  Process = {p1, p2, p3}
  Key = {k1, k2, k3}
  Value = {short, long}
  HashOf <- MCAttachHash
  HashSize = 64
  Size <- MCSize
  Cols <- MCOneRow
  Ops <- MCAttachOps
  MaxCrashes = 0
  MaxCopies = 1
SPECIFICATION Spec
INVARIANT AttachSucceeds
