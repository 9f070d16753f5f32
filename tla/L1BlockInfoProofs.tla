-------------------------- MODULE L1BlockInfoProofs --------------------------
(***************************************************************************)
(* Facts about the pricing operators, for all values of the constants.     *)
(***************************************************************************)
EXTENDS L1BlockInfo, TLAPS

-----------------------------------------------------------------------------
(***************************************************************************)
(* Arithmetic.                                                             *)
(***************************************************************************)
\* A quotient of naturals is a natural.
LEMMA DivNat == ASSUME NEW a \in Nat, NEW b \in Nat \ {0} PROVE a \div b \in Nat
  BY SMT

\* A product of naturals is a natural.
LEMMA MulNat == ASSUME NEW a \in Nat, NEW b \in Nat PROVE a * b \in Nat
  BY SMT

\* AtMost stays within its bound.
LEMMA AtMostRange == ASSUME NEW n \in Nat, NEW bound \in Nat PROVE AtMost(n, bound) \in 0 .. bound
  BY DEF AtMost

\* The saturating operations of U256 return U256 values.
LEMMA SaturatingRange ==
  ASSUME NEW a \in Nat, NEW b \in Nat
  PROVE  saturating_add(a, b) \in U256 /\ saturating_mul(a, b) \in U256
<1>1. a + b \in Nat /\ a * b \in Nat
  BY MulNat
<1>2. AtMost(a + b, U256Max) \in 0 .. U256Max /\ AtMost(a * b, U256Max) \in 0 .. U256Max
  BY <1>1, WidthAssumption, AtMostRange
<1> QED
  BY <1>2 DEF saturating_add, saturating_mul, U256

-----------------------------------------------------------------------------
(***************************************************************************)
(* try_fetch.                                                              *)
(***************************************************************************)
\* What is read from a well-formed oracle is a well-formed L1BlockInfo.
LEMMA TryFetchType ==
  ASSUME NEW storage \in OracleStorage, NEW spec \in Specs
  PROVE  try_fetch(storage, spec) \in Info
<1>1. \A s \in Slots : storage[s] \in U256
  BY DEF OracleStorage
<1>2. \A s \in Slots : storage[s] \in Nat
  BY <1>1, WidthAssumption DEF U256
<1>3. saturating_mul(storage[L1_COMMIT_SCALAR_SLOT], storage[L1_BASE_FEE_SLOT]) \in U256
  BY <1>2, SaturatingRange DEF Slots
<1>4. \A fork \in Int, v \in U256 : since(spec, fork, v) \in U256 \cup {None}
  BY DEF since
<1> QED
  BY <1>1, <1>3, <1>4 DEF try_fetch, Info, Slots, CURIE, FEYNMAN

\* An info fetched under a spec has every field this spec's formula unwraps.
THEOREM FetchedInfoNeverPanics ==
  ASSUME NEW storage \in OracleStorage, NEW spec \in Specs
  PROVE  ~info_panics(try_fetch(storage, spec), spec)
<1>1. \A s \in Slots : storage[s] # None
  BY WidthAssumption DEF OracleStorage, U256, None
<1>2. saturating_mul(storage[L1_COMMIT_SCALAR_SLOT], storage[L1_BASE_FEE_SLOT]) # None
  <2>1. storage[L1_COMMIT_SCALAR_SLOT] \in Nat /\ storage[L1_BASE_FEE_SLOT] \in Nat
    BY WidthAssumption DEF OracleStorage, U256, Slots
  <2>2. saturating_mul(storage[L1_COMMIT_SCALAR_SLOT], storage[L1_BASE_FEE_SLOT]) \in U256
    BY <2>1, SaturatingRange
  <2> QED
    BY <2>2, WidthAssumption DEF U256, None
<1> QED
  BY <1>1, <1>2 DEF try_fetch, since, info_panics, curie_unwraps,
                    feynman_unwraps, galileo_unwraps, is_enabled_in, Slots, Specs,
                    SHANGHAI, CURIE, FEYNMAN, GALILEO

-----------------------------------------------------------------------------
(***************************************************************************)
(* calculate_tx_l1_cost.                                                   *)
(***************************************************************************)
\* saturating_add and saturating_mul in the form the formulas use them.
LEMMA SaturatingNat ==
  ASSUME NEW a \in Nat, NEW b \in Nat
  PROVE  saturating_add(a, b) \in Nat /\ saturating_mul(a, b) \in Nat
<1>1. saturating_add(a, b) \in 0 .. U256Max /\ saturating_mul(a, b) \in 0 .. U256Max
  BY SaturatingRange DEF U256
<1> QED
  BY <1>1, WidthAssumption

\* The fields an info that does not panic is read for are numbers.
LEMMA UnwrappedFields ==
  ASSUME NEW info \in Info, NEW spec \in Specs, ~info_panics(info, spec)
  PROVE  /\ info.l1_base_fee \in Nat /\ info.l1_fee_overhead \in Nat
         /\ info.l1_base_fee_scalar \in Nat
         /\ spec >= CURIE => info.l1_blob_base_fee \in Nat /\ info.l1_blob_scalar \in Nat
         /\ spec >= CURIE /\ spec < FEYNMAN => info.calldata_gas \in Nat
         /\ spec >= FEYNMAN => info.l1_commit_scalar \in Nat /\ info.penalty_factor \in Nat
<1>1. \A v : v \in U256 => v \in Nat
  BY WidthAssumption DEF U256
<1> QED
  BY <1>1 DEF Info, info_panics, curie_unwraps, feynman_unwraps, galileo_unwraps, is_enabled_in, Specs,
                SHANGHAI, CURIE, FEYNMAN, GALILEO

\* The size of a payload.
LEMMA SizeNat == ASSUME NEW p \in Payload PROVE size(p) \in Nat
  BY DEF Payload, size

\* Before Curie, the bytes, the overhead and the fixed cost; from Curie on, the blob gas.
LEMMA DataGasNat ==
  ASSUME NEW info \in Info, NEW p \in Payload, NEW spec \in Specs, ~info_panics(info, spec)
  PROVE  data_gas(info, p, spec) \in Nat
<1>1. CASE ~is_enabled_in(spec, CURIE)
  <2>1. p.zeros * ZERO_BYTE_COST + p.nonzeros * NON_ZERO_BYTE_COST \in Nat
    BY DEF Payload, ZERO_BYTE_COST, NON_ZERO_BYTE_COST
  <2>2. saturating_add(p.zeros * ZERO_BYTE_COST + p.nonzeros * NON_ZERO_BYTE_COST,
                       info.l1_fee_overhead) \in Nat
    BY <2>1, UnwrappedFields, SaturatingNat
  <2>3. TX_L1_COMMIT_EXTRA_COST \in Nat
    BY DEF TX_L1_COMMIT_EXTRA_COST
  <2> QED
    BY <1>1, <2>2, <2>3, SaturatingNat DEF data_gas
<1>2. CASE is_enabled_in(spec, CURIE)
  <2>1. info.l1_blob_base_fee \in Nat /\ info.l1_blob_scalar \in Nat
    BY <1>2, UnwrappedFields DEF is_enabled_in
  <2>2. saturating_mul(size(p), info.l1_blob_base_fee) \in Nat
    BY <2>1, SizeNat, SaturatingNat
  <2> QED
    BY <1>2, <2>1, <2>2, SaturatingNat DEF data_gas
<1> QED
  BY <1>1, <1>2

\* The price of a byte from Feynman on.
LEMMA FeePerByteNat ==
  ASSUME NEW info \in Info, NEW spec \in Specs, ~info_panics(info, spec), spec >= FEYNMAN
  PROVE  fee_per_byte(info) \in Nat
<1>1. /\ info.l1_commit_scalar \in Nat /\ info.l1_base_fee \in Nat
      /\ info.l1_blob_scalar \in Nat /\ info.l1_blob_base_fee \in Nat
  BY UnwrappedFields DEF CURIE, FEYNMAN, Specs
<1>2. /\ saturating_mul(info.l1_commit_scalar, info.l1_base_fee) \in Nat
      /\ saturating_mul(info.l1_blob_scalar, info.l1_blob_base_fee) \in Nat
  BY <1>1, SaturatingNat
<1> QED
  BY <1>2, SaturatingNat DEF fee_per_byte

\* The fee of a transaction, where the code does not panic, is a u64.
THEOREM CostRange ==
  ASSUME NEW info \in Info, NEW p \in Payload, NEW spec \in Specs,
         ~calculate_panics(info, p, spec)
  PROVE  calculate_tx_l1_cost(info, p, spec) \in 0 .. U64Max
<1> DEFINE P == TX_L1_FEE_PRECISION
<1>0. ~info_panics(info, spec) /\ ~metadata_panics(p, spec) /\ P \in Nat \ {0} /\ U64Max \in Nat
  BY PrecisionAssumption, WidthAssumption DEF calculate_panics
<1> HIDE DEF P
<1>1. CASE ~is_enabled_in(spec, CURIE)
  <2>1. saturating_mul(data_gas(info, p, spec), info.l1_base_fee) \in Nat
    BY <1>0, DataGasNat, UnwrappedFields, SaturatingNat
  <2>2. saturating_mul(saturating_mul(data_gas(info, p, spec), info.l1_base_fee),
                       info.l1_base_fee_scalar) \in Nat
    BY <1>0, <2>1, UnwrappedFields, SaturatingNat
  <2>3. calculate_tx_l1_cost_shanghai(info, p, spec) \in Nat
    BY <1>0, <2>2, DivNat DEF calculate_tx_l1_cost_shanghai, P
  <2>4. calculate_tx_l1_cost(info, p, spec)
          = AtMost(calculate_tx_l1_cost_shanghai(info, p, spec), U64Max)
    BY <1>1 DEF calculate_tx_l1_cost, l1_cost, is_enabled_in, Specs, CURIE, FEYNMAN, GALILEO
  <2> QED
    BY <1>0, <2>3, <2>4, AtMostRange
<1>2. CASE is_enabled_in(spec, CURIE) /\ ~is_enabled_in(spec, FEYNMAN)
  <2>1. info.calldata_gas \in Nat
    BY <1>0, <1>2, UnwrappedFields DEF is_enabled_in, Specs, FEYNMAN
  <2>2. saturating_add(info.calldata_gas, data_gas(info, p, spec)) \in Nat
    BY <1>0, <2>1, DataGasNat, SaturatingNat
  <2>3. calculate_tx_l1_cost_curie(info, p, spec) \in Nat
    BY <1>0, <2>2, DivNat DEF calculate_tx_l1_cost_curie, P
  <2>4. calculate_tx_l1_cost(info, p, spec)
          = AtMost(calculate_tx_l1_cost_curie(info, p, spec), U64Max)
    BY <1>2 DEF calculate_tx_l1_cost, l1_cost, is_enabled_in, Specs, CURIE, FEYNMAN, GALILEO
  <2> QED
    BY <1>0, <2>3, <2>4, AtMostRange
<1>3. CASE is_enabled_in(spec, FEYNMAN) /\ ~is_enabled_in(spec, GALILEO)
  <2>1. fee_per_byte(info) \in Nat /\ info.penalty_factor \in Nat
    BY <1>0, <1>3, FeePerByteNat, UnwrappedFields DEF is_enabled_in
  <2>2. feynman_penalty(info, p) \in Nat
    BY <1>0, <2>1 DEF feynman_penalty, P
  <2>3. saturating_mul(size(p), fee_per_byte(info)) \in Nat
    BY <2>1, SizeNat, SaturatingNat
  <2>4. saturating_mul(saturating_mul(size(p), fee_per_byte(info)), feynman_penalty(info, p))
          \in Nat
    BY <2>2, <2>3, SaturatingNat
  <2>5. calculate_tx_l1_cost_feynman(info, p) \in Nat
    BY <1>0, <2>4, DivNat DEF calculate_tx_l1_cost_feynman, P
  <2>6. calculate_tx_l1_cost(info, p, spec) = AtMost(calculate_tx_l1_cost_feynman(info, p), U64Max)
    BY <1>3 DEF calculate_tx_l1_cost, l1_cost, is_enabled_in, Specs, CURIE, FEYNMAN, GALILEO
  <2> QED
    BY <1>0, <2>5, <2>6, AtMostRange
<1>4. CASE is_enabled_in(spec, GALILEO)
  <2> DEFINE base_term == saturating_mul(fee_per_byte(info), p.csize)
             penalty_term == saturating_mul(base_term, p.csize) \div galileo_penalty_factor(info)
  <2>1. fee_per_byte(info) \in Nat /\ info.penalty_factor \in Nat
    BY <1>0, <1>4, FeePerByteNat, UnwrappedFields
       DEF is_enabled_in, Specs, FEYNMAN, GALILEO
  <2>2. p.csize \in Nat
    BY <1>0, <1>4 DEF metadata_panics, feynman_rejects, galileo_rejects, Payload
  <2>3. base_term \in Nat
    BY <2>1, <2>2, SaturatingNat
  <2>4. saturating_mul(base_term, p.csize) \in Nat
    BY <2>2, <2>3, SaturatingNat
  <2>5. galileo_penalty_factor(info) \in Nat \ {0}
    BY <2>1 DEF galileo_penalty_factor
  <2>6. penalty_term \in Nat
    BY <2>4, <2>5, DivNat
  <2>7. saturating_add(base_term, penalty_term) \in Nat
    BY <2>3, <2>6, SaturatingNat
  <2>8. calculate_tx_l1_cost_galileo(info, p) \in Nat
    BY <1>0, <2>7, DivNat DEF calculate_tx_l1_cost_galileo, P
  <2>9. calculate_tx_l1_cost(info, p, spec) = AtMost(calculate_tx_l1_cost_galileo(info, p), U64Max)
    BY <1>4 DEF calculate_tx_l1_cost, l1_cost, is_enabled_in, Specs, CURIE, FEYNMAN, GALILEO
  <2> QED
    BY <1>0, <2>8, <2>9, AtMostRange
<1> QED
  BY <1>1, <1>2, <1>3, <1>4
=============================================================================
