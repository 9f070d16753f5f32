SPECIFICATION Spec
CONSTANTS
  U256Max = 127
  U64Max = 7
  TX_L1_FEE_PRECISION = 2
  OracleValues <- MCOracleValues
  Payloads <- MCPayloads
  ForkSchedule <- MCForks
INVARIANTS
  CalldataGasAsDocumented
