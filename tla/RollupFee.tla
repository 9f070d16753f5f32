----------------------------- MODULE RollupFee -----------------------------
(***************************************************************************)
(* The life of an L1BlockInfo: the oracle's storage is relayed from L1,    *)
(* the fork advances, the info is fetched for a transaction and prices it. *)
(* The pricing arithmetic (L1BlockInfo.tla) is checked against the fee     *)
(* formulas computed in unbounded integers.                                *)
(***************************************************************************)
EXTENDS L1BlockInfo

CONSTANTS
  OracleValues,   \* the values a slot takes, a subset of U256
  Payloads,       \* the transactions that are priced
  ForkSchedule    \* the specs that are run, a subset of Specs

ASSUME SampleAssumption ==
  OracleValues \subseteq U256 /\ Payloads \subseteq Payload /\ ForkSchedule \subseteq Specs

\* There is room above the cap for what the formulas divide by: 2^256 exceeds
\* 2^64 * 10^18, and 2^64 * 10^9 times the size of any transaction.
ASSUME RoomAssumption ==
  /\ U64Max * TX_L1_FEE_PRECISION * TX_L1_FEE_PRECISION <= U256Max
  /\ \A p \in Payloads :
       p.csize # None => p.csize * (U64Max * TX_L1_FEE_PRECISION) <= U256Max

VARIABLES
  oracle,         \* storage of the oracle predeploy
  spec,           \* cfg().spec()
  info,           \* the context's L1BlockInfo
  fetched,        \* the spec `info` was fetched under, None before the first fetch
  quote           \* the last fee computed from `info`: a pair <<payload, cost>>, or <<>>

vars == <<oracle, spec, info, fetched, quote>>

Init ==
  /\ oracle = [s \in Slots |-> 0]
  /\ spec \in ForkSchedule
  /\ info = DefaultInfo
  /\ fetched = None
  /\ quote = <<>>

\* The oracle predeploy receives new values from L1.  The info that was read
\* before is dropped with the block it was read for.
Relay(slot, value) ==
  /\ value # oracle[slot]
  /\ oracle' = [oracle EXCEPT ![slot] = value]
  /\ info' = DefaultInfo
  /\ fetched' = None
  /\ quote' = <<>>
  /\ UNCHANGED spec

\* The configuration moves to a later fork.  Nothing clears the context's info.
Upgrade(s) ==
  /\ s > spec
  /\ spec' = s
  /\ quote' = <<>>
  /\ UNCHANGED <<oracle, info, fetched>>

\* L1BlockInfo::try_fetch, stored in the context.
Fetch ==
  /\ info' = try_fetch(oracle, spec)
  /\ fetched' = spec
  /\ quote' = <<>>
  /\ UNCHANGED <<oracle, spec>>

\* calculate_tx_l1_cost on the info fetched under the spec in force, with the
\* metadata this spec asks for.
Quote(p) ==
  /\ fetched = spec
  /\ ~calculate_panics(info, p, spec)
  /\ quote' = <<p, calculate_tx_l1_cost(info, p, spec)>>
  /\ UNCHANGED <<oracle, spec, info, fetched>>

Next ==
  \/ \E slot \in Slots, value \in OracleValues : Relay(slot, value)
  \/ \E s \in ForkSchedule : Upgrade(s)
  \/ Fetch
  \/ \E p \in Payloads : Quote(p)

Spec == Init /\ [][Next]_vars

-----------------------------------------------------------------------------
(***************************************************************************)
(* The fee in unbounded integers, as the comments of the source state the  *)
(* formulas.                                                               *)
(***************************************************************************)
DivPrecision(n) == n \div TX_L1_FEE_PRECISION

ExactShanghai(s, p) ==
  DivPrecision((4 * p.zeros + 16 * p.nonzeros + s[L1_OVERHEAD_SLOT] + 64)
               * s[L1_BASE_FEE_SLOT] * s[L1_SCALAR_SLOT])

ExactCurie(s, p) ==
  DivPrecision(s[L1_COMMIT_SCALAR_SLOT] * s[L1_BASE_FEE_SLOT]
               + s[L1_BLOB_SCALAR_SLOT] * size(p) * s[L1_BLOB_BASE_FEE_SLOT])

ExactFeePerByte(s) ==
  s[L1_COMMIT_SCALAR_SLOT] * s[L1_BASE_FEE_SLOT]
  + s[L1_BLOB_SCALAR_SLOT] * s[L1_BLOB_BASE_FEE_SLOT]

ExactFeynman(s, p) ==
  LET penalty == IF p.ratio >= s[PENALTY_THRESHOLD_SLOT]
                 THEN TX_L1_FEE_PRECISION ELSE s[PENALTY_FACTOR_SLOT]
  IN  DivPrecision(DivPrecision(size(p) * ExactFeePerByte(s) * penalty))

ExactGalileo(s, p) ==
  LET factor == IF s[PENALTY_FACTOR_SLOT] = 0 THEN 1 ELSE s[PENALTY_FACTOR_SLOT]
      base   == ExactFeePerByte(s) * p.csize
  IN  DivPrecision(base + (base * p.csize) \div factor)

ExactFee(s, p, sp) ==
  CASE sp < CURIE                    -> ExactShanghai(s, p)
    [] sp >= CURIE /\ sp < FEYNMAN   -> ExactCurie(s, p)
    [] sp >= FEYNMAN /\ sp < GALILEO -> ExactFeynman(s, p)
    [] sp >= GALILEO                 -> ExactGalileo(s, p)

-----------------------------------------------------------------------------
\* The shape of the state.
TypeOK ==
  /\ oracle \in OracleStorage
  /\ spec \in Specs
  /\ info \in Info
  /\ fetched \in Specs \cup {None}
  /\ quote # <<>> => quote[1] \in Payloads /\ quote[2] \in 0 .. U64Max

\* The fee charged is the exact fee capped at U64Max: no saturation on the way
\* (saturating_mul and saturating_add of calculate_tx_l1_cost_*) ever shows in
\* the result, whatever the oracle holds.
QuoteIsCappedExactFee ==
  quote # <<>> => quote[2] = AtMost(ExactFee(oracle, quote[1], spec), U64Max)

\* The unwraps of the pricing code never fail on an info fetched under the spec
\* that prices with it: try_fetch fills every field each later formula reads.
FreshInfoNeverPanics == fetched = spec => ~info_panics(info, spec)

\* A bigger transaction of the same compressibility never pays less: each
\* formula is monotone in the size it charges for, saturated or not.
LargerPaysMore ==
  quote # <<>> =>
    \A q \in Payloads :
      /\ q.zeros >= quote[1].zeros /\ q.nonzeros >= quote[1].nonzeros
      /\ q.ratio = quote[1].ratio
      /\ q.csize >= quote[1].csize
      /\ ~calculate_panics(info, q, spec)
      => calculate_tx_l1_cost(info, q, spec) >= quote[2]

\* What the properties rest on: an info that was fetched is the oracle's under the
\* fork it was fetched for, and a quote is computed from it.
IndInv ==
  /\ TypeOK
  /\ fetched # None => info = try_fetch(oracle, fetched)
  /\ quote # <<>> =>
       \E p \in Payloads : /\ quote = <<p, calculate_tx_l1_cost(info, p, spec)>>
                           /\ fetched = spec /\ ~calculate_panics(info, p, spec)

\* The documentation of the field calldata_gas (src/src/l1block.rs:77): it is
\* the blob scalar times the L1 base fee.
CalldataGasAsDocumented ==
  info.calldata_gas # None =>
    info.calldata_gas = saturating_mul(info.l1_blob_scalar, info.l1_base_fee)
=============================================================================
