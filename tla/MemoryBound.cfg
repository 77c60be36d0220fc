SPECIFICATION ByteSpec
CONSTANTS
  ByteMod = 2
  RequestedSize = 8
  Buffers <- MCBuffers
PROPERTY RefusesOnlyOutside
