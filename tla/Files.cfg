SPECIFICATION Spec
CONSTANTS
  j = j  l = l  z = z  x = x  y = y  dots = dots  old = old  new = new  w1 = w1  w2 = w2
  Names = {j, l, z, x, y, dots, w1, w2}  DotNames = {dots}
  NoJail = NoJail  NoPath = NoPath  Missing = Missing  NotDir = NotDir  Failed = Failed
  MaxLinks = 4
  Worlds <- MCWorlds  Args <- MCArgs  AtomicArgs <- MCAtomicArgs
  Data = {new}
  Writers = {w1, w2}
  MaxOps = 3
INVARIANTS TypeOK PlacesInside ListedIsThere OnlyTempsArePartial NoLitter
PROPERTIES ChangesInside ReadsBack LinkLeads ReplacesAtOnce
SYMMETRY Alike
CHECK_DEADLOCK FALSE
