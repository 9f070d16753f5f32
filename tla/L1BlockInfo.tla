----------------------------- MODULE L1BlockInfo -----------------------------
(***************************************************************************)
(* The rollup fee: what L1BlockInfo reads from the L1 gas price oracle and *)
(* what a transaction pays for its share of L1 (src/src/l1block.rs).       *)
(*                                                                         *)
(* U256 arithmetic saturates at U256Max, the fee is capped at U64Max.      *)
(* A payload is the signed transaction as the fee sees it: the zero and    *)
(* non-zero bytes of its RLP encoding, its compression ratio and the size  *)
(* of its compressed encoding, the last two optional.                      *)
(***************************************************************************)
EXTENDS ScrollSpecId

CONSTANTS
  U256Max,               \* U256::MAX
  U64Max,                \* U64_MAX, the cap of the fee
  TX_L1_FEE_PRECISION    \* the scale of scalars, ratios and penalties

ASSUME PrecisionAssumption == TX_L1_FEE_PRECISION \in Nat \ {0}
ASSUME WidthAssumption == /\ U256Max \in Nat
                          /\ U64Max \in Nat
                          /\ U64Max <= U256Max

ZERO_BYTE_COST          == 4
NON_ZERO_BYTE_COST      == 16
TX_L1_COMMIT_EXTRA_COST == 64

None == -1               \* Option::None, for options of numbers

U256 == 0 .. U256Max

(***************************************************************************)
(* The oracle's storage slots.                                             *)
(***************************************************************************)
L1_BASE_FEE_SLOT       == 1
L1_OVERHEAD_SLOT       == 2
L1_SCALAR_SLOT         == 3
L1_BLOB_BASE_FEE_SLOT  == 5
L1_COMMIT_SCALAR_SLOT  == 6
L1_BLOB_SCALAR_SLOT    == 7
PENALTY_THRESHOLD_SLOT == 9
PENALTY_FACTOR_SLOT    == 10

Slots == {L1_BASE_FEE_SLOT, L1_OVERHEAD_SLOT, L1_SCALAR_SLOT, L1_BLOB_BASE_FEE_SLOT,
          L1_COMMIT_SCALAR_SLOT, L1_BLOB_SCALAR_SLOT, PENALTY_THRESHOLD_SLOT,
          PENALTY_FACTOR_SLOT}

OracleStorage == [Slots -> U256]

Payload == [zeros: Nat, nonzeros: Nat, ratio: Nat \cup {None}, csize: Nat \cup {None}]

size(p) == p.zeros + p.nonzeros

(***************************************************************************)
(* U256 arithmetic.                                                        *)
(***************************************************************************)
AtMost(n, bound) == IF n > bound THEN bound ELSE n
saturating_add(a, b) == AtMost(a + b, U256Max)

saturating_mul(a, b) == AtMost(a * b, U256Max)

-----------------------------------------------------------------------------
(***************************************************************************)
(* L1BlockInfo.  A field the fork does not have is None.                   *)
(***************************************************************************)
Info == [l1_base_fee : U256, l1_fee_overhead : U256, l1_base_fee_scalar : U256,
         l1_blob_base_fee : U256 \cup {None}, l1_commit_scalar : U256 \cup {None},
         l1_blob_scalar : U256 \cup {None}, calldata_gas : U256 \cup {None},
         penalty_threshold : U256 \cup {None}, penalty_factor : U256 \cup {None}]

\* L1BlockInfo::default(), the chain field of a new context.
DefaultInfo ==
  [l1_base_fee |-> 0, l1_fee_overhead |-> 0, l1_base_fee_scalar |-> 0,
   l1_blob_base_fee |-> None, l1_commit_scalar |-> None, l1_blob_scalar |-> None,
   calldata_gas |-> None, penalty_threshold |-> None, penalty_factor |-> None]

\* Mutant: a field appears one fork late.
since_late(spec, fork, value) == IF is_enabled_in(spec, fork + 1) THEN value ELSE None

\* A field that exists since `fork`.
since(spec, fork, value) == IF is_enabled_in(spec, fork) THEN value ELSE None

try_fetch(storage, spec) ==
  [l1_base_fee        |-> storage[L1_BASE_FEE_SLOT],
   l1_fee_overhead    |-> storage[L1_OVERHEAD_SLOT],
   l1_base_fee_scalar |-> storage[L1_SCALAR_SLOT],
   l1_blob_base_fee   |-> since(spec, CURIE, storage[L1_BLOB_BASE_FEE_SLOT]),
   l1_commit_scalar   |-> since(spec, CURIE, storage[L1_COMMIT_SCALAR_SLOT]),
   l1_blob_scalar     |-> since(spec, CURIE, storage[L1_BLOB_SCALAR_SLOT]),
   calldata_gas       |-> since(spec, CURIE, saturating_mul(storage[L1_COMMIT_SCALAR_SLOT],
                                                            storage[L1_BASE_FEE_SLOT])),
   penalty_threshold  |-> since(spec, FEYNMAN, storage[PENALTY_THRESHOLD_SLOT]),
   penalty_factor     |-> since(spec, FEYNMAN, storage[PENALTY_FACTOR_SLOT])]

-----------------------------------------------------------------------------
(***************************************************************************)
(* Pricing.  Each formula is defined where calculate_panics is false.      *)
(***************************************************************************)
data_gas(info, p, spec) ==
  IF ~is_enabled_in(spec, CURIE)
  THEN saturating_add(saturating_add(p.zeros * ZERO_BYTE_COST + p.nonzeros * NON_ZERO_BYTE_COST,
                                     info.l1_fee_overhead),
                      TX_L1_COMMIT_EXTRA_COST)
  ELSE saturating_mul(saturating_mul(size(p), info.l1_blob_base_fee), info.l1_blob_scalar)

calculate_tx_l1_cost_shanghai(info, p, spec) ==
  saturating_mul(saturating_mul(data_gas(info, p, spec), info.l1_base_fee),
                 info.l1_base_fee_scalar) \div TX_L1_FEE_PRECISION

calculate_tx_l1_cost_curie(info, p, spec) ==
  saturating_add(info.calldata_gas, data_gas(info, p, spec)) \div TX_L1_FEE_PRECISION

\* Mutant: the components wrap.
fee_per_byte_wrapping(info) ==
  (info.l1_commit_scalar * info.l1_base_fee + info.l1_blob_scalar * info.l1_blob_base_fee)
    % (U256Max + 1)

\* fee_per_byte, shared by the two formulas from Feynman on.
fee_per_byte(info) ==
  saturating_add(saturating_mul(info.l1_commit_scalar, info.l1_base_fee),
                 saturating_mul(info.l1_blob_scalar, info.l1_blob_base_fee))

feynman_penalty(info, p) ==
  IF p.ratio >= info.penalty_threshold THEN TX_L1_FEE_PRECISION ELSE info.penalty_factor

calculate_tx_l1_cost_feynman(info, p) ==
  (saturating_mul(saturating_mul(size(p), fee_per_byte(info)), feynman_penalty(info, p))
     \div TX_L1_FEE_PRECISION) \div TX_L1_FEE_PRECISION

\* A zero penalty factor is sanitized to one.
galileo_penalty_factor(info) == IF info.penalty_factor = 0 THEN 1 ELSE info.penalty_factor

calculate_tx_l1_cost_galileo(info, p) ==
  LET base_term    == saturating_mul(fee_per_byte(info), p.csize)
      penalty_term == saturating_mul(base_term, p.csize) \div galileo_penalty_factor(info)
  IN  saturating_add(base_term, penalty_term) \div TX_L1_FEE_PRECISION

\* The formula of the fork.
l1_cost(info, p, spec) ==
  CASE ~is_enabled_in(spec, CURIE) -> calculate_tx_l1_cost_shanghai(info, p, spec)
    [] is_enabled_in(spec, CURIE) /\ ~is_enabled_in(spec, FEYNMAN)
                                   -> calculate_tx_l1_cost_curie(info, p, spec)
    [] is_enabled_in(spec, FEYNMAN) /\ ~is_enabled_in(spec, GALILEO)
                                   -> calculate_tx_l1_cost_feynman(info, p)
    [] is_enabled_in(spec, GALILEO) -> calculate_tx_l1_cost_galileo(info, p)

\* Mutants: no cap, and a truncating cast instead of one.
calculate_tx_l1_cost_uncapped(info, p, spec)  == l1_cost(info, p, spec)
calculate_tx_l1_cost_truncated(info, p, spec) == l1_cost(info, p, spec) % (U64Max + 1)

calculate_tx_l1_cost(info, p, spec) == AtMost(l1_cost(info, p, spec), U64Max)

(***************************************************************************)
(* The expect, unwrap, panic! and assert! calls on the way to the fee.     *)
(***************************************************************************)
\* The metadata the formulas refuse, missing or out of range.
feynman_rejects(p) == p.ratio = None \/ p.ratio < TX_L1_FEE_PRECISION
galileo_rejects(p) == p.csize = None \/ p.csize > size(p)

metadata_panics(p, spec) ==
  \/ is_enabled_in(spec, FEYNMAN) /\ ~is_enabled_in(spec, GALILEO) /\ feynman_rejects(p)
  \/ is_enabled_in(spec, GALILEO) /\ galileo_rejects(p)

\* The fields each formula unwraps.
curie_unwraps(info)   == {info.calldata_gas, info.l1_blob_base_fee, info.l1_blob_scalar}
feynman_unwraps(info) == {info.l1_commit_scalar, info.l1_blob_scalar, info.l1_blob_base_fee,
                          info.penalty_threshold, info.penalty_factor}
galileo_unwraps(info) == {info.l1_commit_scalar, info.l1_blob_scalar, info.l1_blob_base_fee,
                          info.penalty_factor}

info_panics(info, spec) ==
  \/ /\ is_enabled_in(spec, CURIE) /\ ~is_enabled_in(spec, FEYNMAN)
     /\ None \in curie_unwraps(info)
  \/ /\ is_enabled_in(spec, FEYNMAN) /\ ~is_enabled_in(spec, GALILEO)
     /\ None \in feynman_unwraps(info)
  \/ /\ is_enabled_in(spec, GALILEO)
     /\ None \in galileo_unwraps(info)

calculate_panics(info, p, spec) == metadata_panics(p, spec) \/ info_panics(info, spec)
=============================================================================
