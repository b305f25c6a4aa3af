SPECIFICATION Spec
CONSTANTS
  r1 = r1  r2 = r2  a = a  b = b  h = h  dots = dots  tmp = tmp
  Names = {a, b, h, dots, tmp}  DotNames = {dots}  Tmp = tmp
  Runtimes = {r1, r2}
  Jails <- MCJails  Homes <- MCHomes  Dirs <- MCDirs  Files <- MCFiles
  HomeDirs <- MCHomeDirs  Temps <- MCTemps  Keys = {"home"}
  MaxDepth = 1
  NoJail = NoJail  None = None
INVARIANTS CloneIsIsolated
CHECK_DEADLOCK FALSE
