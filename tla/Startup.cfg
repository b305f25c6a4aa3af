SPECIFICATION Spec
CONSTANTS
  a = a  b = b
  Names <- MCNames  DotNames = {}
  NoJail = NoJail  NoHome = NoHome  NoApp = NoApp  NoPath = NoPath
  Missing = Missing  NotDir = NotDir  Failed = Failed
  NoValue = NoValue  Absent = Absent  Error = Error
  MaxLinks = 2
  Worlds <- MCWorlds  Homes <- MCHomes
  Keys <- MCKeys  Literal <- MCLiteral  EnvTexts <- MCEnvTexts  EnvMaps <- MCEnvMaps  Texts <- MCTexts  Roots <- MCRoots
  Fixtures <- MCFixtures  FileData <- MCFiles
  Settings = {"x", "y"}  Default <- MCDefault  EnvVar <- MCEnvVar
  Layers <- MCLayers  Rank <- MCRank
  GitTops <- MCGitTops
  App = "app"  DotApp = ".app"
  MaxOptions = 1
  MaxOps = 3
INVARIANTS WrittenIsRead  MostSpecificWins
CHECK_DEADLOCK FALSE
