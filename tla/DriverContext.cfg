SPECIFICATION Spec
CONSTANTS
  Types <- MCTypes
  Pointer <- MCPointer
  Struct <- MCStruct
  Incomplete = {"handle*"}
  Friendly <- MCFriendly
  SizeType = {"size_t"}
  StringType = {"char*"}
  ConstType = {}
  IntLike = {"int"}
  VoidPointer = "void*"
  CharArray = "char*"
  SizeT = "size_t"
  Apis <- MCApis
  DriverSize = 6
CHECK_DEADLOCK FALSE
INVARIANTS NoUseAfterSink LengthOfLastArray InitialisedOnce SourcedAreProduced FlushFindsArrays
