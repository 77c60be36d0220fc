SPECIFICATION FactorySpec
CONSTANTS
  RawWords <- MCRawWords
  Source <- MCSource
INVARIANT UnknownIsNop
