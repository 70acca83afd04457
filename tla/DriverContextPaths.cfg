SPECIFICATION Spec
CONSTANTS
  Types <- MCTypes
  Pointer <- MCPointer
  Struct <- MCStruct
  Incomplete = {"handle*"}
  Friendly <- MCFriendly
  SizeType = {"size_t"}
  StringType = {"char*"}
  ConstType = {}
  IntLike = {"int"}
  VoidPointer = "void*"
  CharArray = "char*"
  SizeT = "size_t"
  Apis <- MCApis
  DriverSize = 3
CHECK_DEADLOCK FALSE
INVARIANT PathsAreMarked
