CONSTANTS
  Space = "sp"
  Percent = "pct"
  Nul = "NUL"
  Folding <- MCFolding
  HighByte = {"hi"}
  Byte_ = {"a", "A", "pct", "sp"}
  Literal <- MCLiteral
  Argument <- MCArgument
  Order <- MCOrder
  Value <- MCValue
  Heaps <- MCHeaps
  Cyclic <- MCCyclic
  Letter = {"a", "b", "e", "x"}
  Digit = {"0", "1"}
  Keyword <- MCKeyword
  MaxDepth = 2
  MaxBits = 6
  MaxHexits = 4
  Source <- MCSource
  Node <- MCNode
  Base = 4
  Wide = 3
  Magic <- MCMagic
  Padding = 1
  Version <- MCVersion
  PayloadVersion = 3
  Crc = {5, 6, 7}
  CrcBits = 8
  MaxConstants = 8
  MaxUpvalues = 2
  MaxStack = 8
  MaxU32 = 511
  Compiled <- MCCompiled
  Saved <- MCSaved
  Target <- MCTarget
  Name_ <- MCName
  Ext <- MCExt
  BytecodeExt <- MCBytecodeExt
  Cwd <- MCCwd
  Exe <- MCExe
  FileSystem <- MCFileSystem
  SharedObject <- MCSharedObject
  PathLimit = 40
  MaxJoin = 3
  Path_ <- MCPath
  Joinable <- MCJoinable
  Absolute_ <- MCAbsolute
  Import_ <- MCImport
  HexValue <- MCHexValue
  HexBits = 2
  Number_ <- MCNumber
  Integer_ <- MCInteger
  Char_ <- MCChar
  Ascii <- MCAscii
  EscapeOf <- MCEscapeOf
  UpTo32 <- MCUpTo32
  Precision = 3
  Slack = 1
  Json_ <- MCJson
  Raw_ <- MCRaw
SPECIFICATION Spec
INVARIANTS
  
  OperatorLaws
  
  BytecodeLaws
  PathLaws
  JsonLaws
