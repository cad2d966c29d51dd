SPECIFICATION Spec
CONSTANTS
  Signatures <- MCSignatures
  Arguments <- MCArguments
  Portions = {1, 2}
  MaxByte = 1
  Depth = 2
  Strings <- MCStrings
  Types <- MCTypes
  Entries <- MCEntries
  Packs <- MCPacks
  NoCall = NoCall
INVARIANTS
  TypeOK
  ReadsInOrder
  AppendsWhatFits
  ReadsBackWhatWasWritten
  TypeErrorsNameTheMisfit
CHECK_DEADLOCK FALSE
