CONSTANTS
  Byte = 4
  Word = 2
  MODEXP_LEN_LIMIT = 2
  OSAKA_LEN_LIMIT = 3
  PAIR_ELEMENT_LEN = 2
  Names <- MCNames
  Calls <- MCCalls
SPECIFICATION Spec
INVARIANT PairingIsPadded
