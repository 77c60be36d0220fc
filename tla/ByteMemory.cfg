SPECIFICATION ByteSpec
CONSTANTS
  ByteMod = 2
  RequestedSize = 8
  Buffers <- MCBuffers
INVARIANT ByteTypeOK
INVARIANT BigEndian
INVARIANT StringsEnd
PROPERTY StoredWordReads
PROPERTY WrittenTextReads
