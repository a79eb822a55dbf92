\* Every string of up to six bytes out of three, all encodings of up to three SCTs,
\* each of them bare and as an OCTET STRING.
CONSTANTS
  MinSctLen = 2
  Inputs <- AllInputs
SPECIFICATION Spec
INVARIANTS
  ReadsInBounds
  EntriesApart
  RoundTrip
PROPERTIES
  ParserEnds
