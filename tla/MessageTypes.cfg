SPECIFICATION Spec
CONSTANTS
  Signatures <- ShownSignatures
  Arguments <- ShownArguments
  Portions = {1, 2}
  MaxByte = 1
  Depth = 3
  Strings <- MCStrings
  Types <- MCTypes
  Entries <- MCEntries
  Packs <- MCPacks
  NoCall = NoCall
INVARIANTS
  TypesAreShown
CHECK_DEADLOCK FALSE
