SPECIFICATION FactorySpec
CONSTANTS
  RawWords <- MCRawWords
  Source <- MCSource
INVARIANT DecodesAssembly
INVARIANT RegistersExist
INVARIANT UnitsReadOwnRegisters
