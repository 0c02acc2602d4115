SPECIFICATION Spec
CONSTANTS
  short = short
  long = long
  None = None
  Procs = {p1, p2, p3}
  Writers = {p1, p2}
  Values = {short, long}
  Size <- Lengths
  Inodes = {i1, i2, i3, i4, i5}
INVARIANT NoTornLoad
