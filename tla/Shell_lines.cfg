SPECIFICATION Spec
CONSTANTS
  Chars <- MCChars
  NUL = NUL
  BufSize = 9
  ArgvCap <- MCArgvCap
  Setups <- MCSetups
  Room = 6
  Homes <- MCHomes
  Paths <- MCPaths
  Letters <- MCLetters
  ROOT = "root"
  Nobody = "nobody"
  RootPaths <- MCRootPaths
  BaseMax = 1
  ExtMax = 1
  PathMax = 9
  MaxDepth = 3
  PromptMax = 7
INVARIANTS WordsAsTyped TextNamesObject PromptLeadsHere InPlace
PROPERTIES CdBackReturns
