SPECIFICATION Spec
CONSTANTS
  U256Max = 1000
  U64Max = 50
  TX_L1_FEE_PRECISION = 2
  alice = alice
  bob = bob
  sequencer = sequencer
  oracleAddr = oracleAddr
  sysAddr = sysAddr
  fresh = fresh
  NoAddr = NoAddr
  Addr <- MCAddr
  SYSTEM_ADDRESS <- sysAddr
  L1_GAS_PRICE_ORACLE_ADDRESS <- oracleAddr
  Txs <- MCTxs
  InspectedTxs = {}
  DefaultTx <- Default
  SystemCalls <- MCSystemCalls
  Blocks <- MCBlocks
  Cfgs <- MCCfgs
  Worlds <- MCWorlds
  OracleStates <- MCOracleStates
  Payments <- MCPayments
  Creations <- MCCreations
  CallGas = 5
  GasLeft = {0, 6}
  Refunds = {0, 3}
  DbMayFail = FALSE
  DbInlinesCode = TRUE
  MaxRuns = 1
INVARIANTS
  CreateBumpsNonce
