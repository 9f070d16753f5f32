SPECIFICATION Spec
CONSTANTS
  U256Max = 1000
  U64Max = 50
  TX_L1_FEE_PRECISION = 2
  alice = alice
  bob = bob
  sequencer = sequencer
  oracleAddr = oracleAddr
  sysAddr = sysAddr
  fresh = fresh
  NoAddr = NoAddr
  Addr <- MCAddr
  SYSTEM_ADDRESS <- sysAddr
  L1_GAS_PRICE_ORACLE_ADDRESS <- oracleAddr
  Txs <- MCLedgerTxs
  InspectedTxs <- MCInspectedTxs
  DefaultTx <- Default
  SystemCalls <- MCSystemCalls
  Blocks <- MCBlocks
  Cfgs <- MCLedgerCfgs
  Worlds <- MCWorlds
  OracleStates <- MCOracleStates
  Payments <- MCPayments
  Creations <- MCCreations
  CallGas = 4
  GasLeft = {0, 4}
  Refunds = {3}
  DbMayFail = TRUE
  DbInlinesCode = TRUE
  MaxRuns = 2
INVARIANTS
  SupplyConserved
  OnlyCallerPays
  LedgerInv
PROPERTIES
  ImplementsLedger
