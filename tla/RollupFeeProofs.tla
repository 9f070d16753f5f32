--------------------------- MODULE RollupFeeProofs ---------------------------
(***************************************************************************)
(* Pricing is exact up to its cap for every width of the integers, every   *)
(* state of the oracle and every transaction.                              *)
(***************************************************************************)
EXTENDS RollupFee, L1BlockInfoProofs

-----------------------------------------------------------------------------
(***************************************************************************)
(* Saturating arithmetic computes the exact value cut at U256Max.          *)
(***************************************************************************)
\* A product with a positive factor is not smaller.
LEMMA MulGrows ==
  ASSUME NEW a \in Nat, NEW b \in Nat \ {0}
  PROVE  a * b \in Nat /\ a * b >= a
  BY SMT

\* Multiplication is monotone.
LEMMA MulUp ==
  ASSUME NEW a \in Nat, NEW b \in Nat, NEW c \in Nat, b <= c
  PROVE  a * b <= a * c
  BY SMT

\* Multiplying what was cut gives the product, cut.
LEMMA MulOfCut ==
  ASSUME NEW a \in Nat, NEW b \in Nat
  PROVE  /\ saturating_mul(AtMost(a, U256Max), b) = AtMost(a * b, U256Max)
         /\ saturating_mul(b, AtMost(a, U256Max)) = AtMost(b * a, U256Max)
<1> DEFINE M == U256Max
<1>0. M \in Nat
  BY WidthAssumption
<1> HIDE DEF M
<1>1. a * b = b * a /\ M * b = b * M /\ a * b \in Nat /\ M * b \in Nat
  BY <1>0
<1>2. AtMost(AtMost(a, M) * b, M) = AtMost(a * b, M)
  <2>1. CASE a <= M
    BY <1>0, <1>1, <2>1 DEF AtMost
  <2>2. CASE a > M /\ b = 0
    BY <1>0, <2>2 DEF AtMost
  <2>3. CASE a > M /\ b # 0
    <3>1. a * b >= a /\ M * b >= M
      BY <1>0, <2>3, MulGrows
    <3> QED
      BY <1>0, <1>1, <2>3, <3>1 DEF AtMost
  <2> QED
    BY <1>0, <2>1, <2>2, <2>3
<1>3. AtMost(a, M) * b = b * AtMost(a, M)
  <2>1. AtMost(a, M) \in Nat
    BY <1>0 DEF AtMost
  <2> QED
    BY <2>1
<1> QED
  BY <1>1, <1>2, <1>3 DEF saturating_mul, M

\* Adding what was cut gives the sum, cut.
LEMMA AddOfCut ==
  ASSUME NEW a \in Nat, NEW b \in Nat
  PROVE  /\ saturating_add(AtMost(a, U256Max), b) = AtMost(a + b, U256Max)
         /\ saturating_add(AtMost(a, U256Max), AtMost(b, U256Max)) = AtMost(a + b, U256Max)
  BY WidthAssumption DEF saturating_add, AtMost

\* A quotient is at least q when the dividend is at least q times the divisor.
LEMMA DivAtLeast ==
  ASSUME NEW a \in Nat, NEW b \in Nat \ {0}, NEW q \in Nat, a >= q * b
  PROVE  a \div b >= q
<1> DEFINE d == a \div b
<1>1. d \in Nat /\ a < (d + 1) * b
  BY SMT
<1> HIDE DEF d
<1>2. q * b < (d + 1) * b
  BY <1>1, MulNat
<1>3. SUFFICES ASSUME d < q PROVE FALSE
  BY <1>1 DEF d
<1>4. (d + 1) * b <= q * b
  <2>1. d + 1 \in Nat /\ d + 1 <= q
    BY <1>1, <1>3
  <2>2. \A x, y, z \in Nat : x <= y => x * z <= y * z
    BY SMT
  <2> QED
    BY <2>1, <2>2
<1> QED
  BY <1>1, <1>2, <1>4

\* One division by the precision, capped, does not see the cut.
LEMMA CapOfDiv ==
  ASSUME NEW n \in Nat
  PROVE  AtMost(AtMost(n, U256Max) \div TX_L1_FEE_PRECISION, U64Max)
           = AtMost(n \div TX_L1_FEE_PRECISION, U64Max)
<1> DEFINE P == TX_L1_FEE_PRECISION
           M == U256Max
           C == U64Max
<1>0. P \in Nat \ {0} /\ M \in Nat /\ C \in Nat /\ C * P * P <= M
  BY PrecisionAssumption, WidthAssumption, RoomAssumption
<1> SUFFICES AtMost(AtMost(n, M) \div P, C) = AtMost(n \div P, C)
  OBVIOUS
<1> HIDE DEF P, M, C
<1>1. C * P \in Nat /\ C * P <= M
  <2>1. C * P \in Nat /\ (C * P) * P >= C * P
    BY <1>0, MulGrows, MulNat
  <2> QED
    BY <1>0, <2>1
<1>2. CASE n <= M
  BY <1>0, <1>2 DEF AtMost
<1>3. CASE n > M
  <2>1. M \div P >= C /\ n \div P >= C /\ M \div P \in Nat /\ n \div P \in Nat
    BY <1>0, <1>1, <1>3, DivAtLeast, DivNat
  <2>2. AtMost(n, M) = M
    BY <1>0, <1>3 DEF AtMost
  <2>3. AtMost(M \div P, C) = C /\ AtMost(n \div P, C) = C
    BY <1>0, <2>1 DEF AtMost
  <2> QED
    BY <2>2, <2>3
<1> QED
  BY <1>0, <1>2, <1>3

\* Nor do two.
LEMMA CapOfTwoDivs ==
  ASSUME NEW n \in Nat
  PROVE  AtMost((AtMost(n, U256Max) \div TX_L1_FEE_PRECISION) \div TX_L1_FEE_PRECISION, U64Max)
           = AtMost((n \div TX_L1_FEE_PRECISION) \div TX_L1_FEE_PRECISION, U64Max)
<1> DEFINE P == TX_L1_FEE_PRECISION
           M == U256Max
           C == U64Max
<1>0. P \in Nat \ {0} /\ M \in Nat /\ C \in Nat /\ C * P \in Nat /\ (C * P) * P <= M
  BY PrecisionAssumption, WidthAssumption, RoomAssumption, MulNat
<1> SUFFICES AtMost((AtMost(n, M) \div P) \div P, C) = AtMost((n \div P) \div P, C)
  OBVIOUS
<1> HIDE DEF P, M, C
<1>1. CASE n <= M
  BY <1>0, <1>1 DEF AtMost
<1>2. CASE n > M
  <2>1. M \div P >= C * P /\ n \div P >= C * P /\ M \div P \in Nat /\ n \div P \in Nat
    BY <1>0, <1>2, DivAtLeast, DivNat
  <2>2. /\ (M \div P) \div P >= C /\ (n \div P) \div P >= C
        /\ (M \div P) \div P \in Nat /\ (n \div P) \div P \in Nat
    BY <1>0, <2>1, DivAtLeast, DivNat
  <2>3. AtMost(n, M) = M
    BY <1>0, <1>2 DEF AtMost
  <2>4. AtMost((M \div P) \div P, C) = C /\ AtMost((n \div P) \div P, C) = C
    BY <1>0, <2>2 DEF AtMost
  <2> QED
    BY <2>3, <2>4
<1> QED
  BY <1>0, <1>1, <1>2

-----------------------------------------------------------------------------
(***************************************************************************)
(* The formulas.                                                           *)
(***************************************************************************)
\* The factors of a formula, as the oracle holds them.
LEMMA SlotsNat ==
  ASSUME NEW storage \in OracleStorage
  PROVE  \A s \in Slots : storage[s] \in Nat
  BY WidthAssumption DEF OracleStorage, U256

\* What try_fetch reads, fork by fork.
LEMMA FetchedFields ==
  ASSUME NEW storage \in OracleStorage, NEW sp \in Specs
  PROVE  LET read == try_fetch(storage, sp)
         IN  /\ read.l1_base_fee = storage[L1_BASE_FEE_SLOT]
             /\ read.l1_fee_overhead = storage[L1_OVERHEAD_SLOT]
             /\ read.l1_base_fee_scalar = storage[L1_SCALAR_SLOT]
             /\ sp >= CURIE =>
                  /\ read.l1_blob_base_fee = storage[L1_BLOB_BASE_FEE_SLOT]
                  /\ read.l1_commit_scalar = storage[L1_COMMIT_SCALAR_SLOT]
                  /\ read.l1_blob_scalar = storage[L1_BLOB_SCALAR_SLOT]
                  /\ read.calldata_gas = saturating_mul(storage[L1_COMMIT_SCALAR_SLOT],
                                                        storage[L1_BASE_FEE_SLOT])
             /\ sp >= FEYNMAN =>
                  /\ read.penalty_threshold = storage[PENALTY_THRESHOLD_SLOT]
                  /\ read.penalty_factor = storage[PENALTY_FACTOR_SLOT]
  BY DEF try_fetch, since, is_enabled_in

\* Before Curie.
LEMMA ShanghaiExact ==
  ASSUME NEW storage \in OracleStorage, NEW p \in Payload, NEW sp \in Specs, sp < CURIE
  PROVE  AtMost(calculate_tx_l1_cost_shanghai(try_fetch(storage, sp), p, sp), U64Max)
           = AtMost(ExactShanghai(storage, p), U64Max)
<1> DEFINE bytes == 4 * p.zeros + 16 * p.nonzeros
           overhead == storage[L1_OVERHEAD_SLOT]
           fee == storage[L1_BASE_FEE_SLOT]
           scalar == storage[L1_SCALAR_SLOT]
<1>1. bytes \in Nat /\ overhead \in Nat /\ fee \in Nat /\ scalar \in Nat
  BY SlotsNat DEF Payload, Slots
<1>2. data_gas(try_fetch(storage, sp), p, sp) = saturating_add(saturating_add(bytes, overhead), 64)
  BY FetchedFields
     DEF data_gas, is_enabled_in, ZERO_BYTE_COST, NON_ZERO_BYTE_COST, TX_L1_COMMIT_EXTRA_COST,
         Payload, CURIE, Specs
<1>3. ExactShanghai(storage, p) = DivPrecision((bytes + overhead + 64) * fee * scalar)
  BY DEF ExactShanghai
<1>4. calculate_tx_l1_cost_shanghai(try_fetch(storage, sp), p, sp)
        = saturating_mul(saturating_mul(saturating_add(saturating_add(bytes, overhead), 64), fee),
                         scalar) \div TX_L1_FEE_PRECISION
  BY <1>2, FetchedFields DEF calculate_tx_l1_cost_shanghai
<1> HIDE DEF bytes, overhead, fee, scalar
<1>5. saturating_add(saturating_add(bytes, overhead), 64) = AtMost(bytes + overhead + 64, U256Max)
  <2>1. bytes + overhead \in Nat
    BY <1>1
  <2> QED
    BY <2>1, AddOfCut DEF saturating_add
<1>6. bytes + overhead + 64 \in Nat /\ (bytes + overhead + 64) * fee \in Nat
      /\ (bytes + overhead + 64) * fee * scalar \in Nat
  BY <1>1, MulNat
<1>7. saturating_mul(AtMost(bytes + overhead + 64, U256Max), fee)
        = AtMost((bytes + overhead + 64) * fee, U256Max)
  BY <1>1, <1>6, MulOfCut
<1>8. saturating_mul(AtMost((bytes + overhead + 64) * fee, U256Max), scalar)
        = AtMost((bytes + overhead + 64) * fee * scalar, U256Max)
  BY <1>1, <1>6, MulOfCut
<1> QED
  BY <1>3, <1>4, <1>5, <1>6, <1>7, <1>8, CapOfDiv DEF DivPrecision

\* From Curie to Feynman.
LEMMA CurieExact ==
  ASSUME NEW storage \in OracleStorage, NEW p \in Payload, NEW sp \in Specs, sp >= CURIE
  PROVE  AtMost(calculate_tx_l1_cost_curie(try_fetch(storage, sp), p, sp), U64Max)
           = AtMost(ExactCurie(storage, p), U64Max)
<1> DEFINE n == size(p)
           commit == storage[L1_COMMIT_SCALAR_SLOT]
           fee == storage[L1_BASE_FEE_SLOT]
           blob == storage[L1_BLOB_SCALAR_SLOT]
           blobFee == storage[L1_BLOB_BASE_FEE_SLOT]
<1>1. n \in Nat /\ commit \in Nat /\ fee \in Nat /\ blob \in Nat /\ blobFee \in Nat
  BY SlotsNat, SizeNat DEF Slots
<1>2. calculate_tx_l1_cost_curie(try_fetch(storage, sp), p, sp)
        = saturating_add(saturating_mul(commit, fee), saturating_mul(saturating_mul(n, blobFee), blob))
            \div TX_L1_FEE_PRECISION
  BY FetchedFields DEF calculate_tx_l1_cost_curie, data_gas, is_enabled_in, CURIE, Specs
<1>3. ExactCurie(storage, p) = DivPrecision(commit * fee + blob * n * blobFee)
  BY DEF ExactCurie
<1> HIDE DEF n, commit, fee, blob, blobFee
<1>4. commit * fee \in Nat /\ n * blobFee \in Nat /\ n * blobFee * blob \in Nat
      /\ n * blobFee * blob = blob * n * blobFee
  BY <1>1, MulNat
<1>5. saturating_mul(saturating_mul(n, blobFee), blob) = AtMost(n * blobFee * blob, U256Max)
  BY <1>1, <1>4, MulOfCut DEF saturating_mul
<1>6. saturating_add(AtMost(commit * fee, U256Max), AtMost(n * blobFee * blob, U256Max))
        = AtMost(commit * fee + n * blobFee * blob, U256Max)
  BY <1>4, AddOfCut
<1>7. commit * fee + n * blobFee * blob \in Nat
  BY <1>4
<1> QED
  BY <1>2, <1>3, <1>4, <1>5, <1>6, <1>7, CapOfDiv DEF DivPrecision, saturating_mul

\* The fee per byte of the two later formulas.
LEMMA FeePerByteExact ==
  ASSUME NEW storage \in OracleStorage, NEW sp \in Specs, sp >= CURIE
  PROVE  /\ ExactFeePerByte(storage) \in Nat
         /\ fee_per_byte(try_fetch(storage, sp)) = AtMost(ExactFeePerByte(storage), U256Max)
<1> DEFINE commit == storage[L1_COMMIT_SCALAR_SLOT]
           fee == storage[L1_BASE_FEE_SLOT]
           blob == storage[L1_BLOB_SCALAR_SLOT]
           blobFee == storage[L1_BLOB_BASE_FEE_SLOT]
<1>1. commit \in Nat /\ fee \in Nat /\ blob \in Nat /\ blobFee \in Nat
  BY SlotsNat DEF Slots
<1>2. fee_per_byte(try_fetch(storage, sp))
        = saturating_add(saturating_mul(commit, fee), saturating_mul(blob, blobFee))
  BY FetchedFields DEF fee_per_byte
<1>3. ExactFeePerByte(storage) = commit * fee + blob * blobFee
  BY DEF ExactFeePerByte
<1> HIDE DEF commit, fee, blob, blobFee
<1>4. commit * fee \in Nat /\ blob * blobFee \in Nat
  BY <1>1, MulNat
<1> QED
  BY <1>2, <1>3, <1>4, AddOfCut DEF saturating_mul

\* From Feynman to Galileo.
LEMMA FeynmanExact ==
  ASSUME NEW storage \in OracleStorage, NEW p \in Payload, NEW sp \in Specs, sp >= FEYNMAN
  PROVE  AtMost(calculate_tx_l1_cost_feynman(try_fetch(storage, sp), p), U64Max)
           = AtMost(ExactFeynman(storage, p), U64Max)
<1> DEFINE n == size(p)
           perByte == ExactFeePerByte(storage)
           penalty == IF p.ratio >= storage[PENALTY_THRESHOLD_SLOT]
                      THEN TX_L1_FEE_PRECISION ELSE storage[PENALTY_FACTOR_SLOT]
<1>1. n \in Nat /\ perByte \in Nat /\ penalty \in Nat
      /\ fee_per_byte(try_fetch(storage, sp)) = AtMost(perByte, U256Max)
  BY SlotsNat, SizeNat, FeePerByteExact, PrecisionAssumption DEF Slots, CURIE, FEYNMAN, Specs
<1>2. feynman_penalty(try_fetch(storage, sp), p) = penalty
  BY FetchedFields DEF feynman_penalty
<1>3. ExactFeynman(storage, p) = DivPrecision(DivPrecision(n * perByte * penalty))
  BY DEF ExactFeynman
<1>4. calculate_tx_l1_cost_feynman(try_fetch(storage, sp), p)
        = (saturating_mul(saturating_mul(n, AtMost(perByte, U256Max)), penalty)
            \div TX_L1_FEE_PRECISION) \div TX_L1_FEE_PRECISION
  BY <1>1, <1>2 DEF calculate_tx_l1_cost_feynman
<1> HIDE DEF n, perByte, penalty
<1>5. n * perByte \in Nat /\ n * perByte * penalty \in Nat
  BY <1>1, MulNat
<1>6. saturating_mul(saturating_mul(n, AtMost(perByte, U256Max)), penalty)
        = AtMost(n * perByte * penalty, U256Max)
  BY <1>1, <1>5, MulOfCut
<1> QED
  BY <1>3, <1>4, <1>5, <1>6, CapOfTwoDivs DEF DivPrecision

\* From Galileo on.  Where the square of the size saturates, the linear term alone
\* is above the cap already.
LEMMA GalileoExact ==
  ASSUME NEW storage \in OracleStorage, NEW p \in Payload, NEW sp \in Specs, sp >= GALILEO,
         p.csize # None, p.csize * (U64Max * TX_L1_FEE_PRECISION) <= U256Max
  PROVE  AtMost(calculate_tx_l1_cost_galileo(try_fetch(storage, sp), p), U64Max)
           = AtMost(ExactGalileo(storage, p), U64Max)
<1> DEFINE M == U256Max
           C == U64Max
           P == TX_L1_FEE_PRECISION
           c == p.csize
           slot == storage[PENALTY_FACTOR_SLOT]
           f == IF slot = 0 THEN 1 ELSE slot
           base == ExactFeePerByte(storage) * c
<1>1. /\ c \in Nat /\ ExactFeePerByte(storage) \in Nat /\ slot \in Nat
      /\ M \in Nat /\ C \in Nat /\ P \in Nat \ {0} /\ c * (C * P) <= M
      /\ fee_per_byte(try_fetch(storage, sp)) = AtMost(ExactFeePerByte(storage), M)
  BY SlotsNat, FeePerByteExact, PrecisionAssumption, WidthAssumption
     DEF Slots, CURIE, GALILEO, Specs, Payload
<1>2. f \in Nat \ {0} /\ base \in Nat
  BY <1>1, MulNat
<1>3. galileo_penalty_factor(try_fetch(storage, sp)) = f
  BY FetchedFields DEF galileo_penalty_factor, FEYNMAN, GALILEO, Specs
<1>4. saturating_mul(fee_per_byte(try_fetch(storage, sp)), c) = AtMost(base, M)
  BY <1>1, MulOfCut
<1>5. calculate_tx_l1_cost_galileo(try_fetch(storage, sp), p)
        = saturating_add(AtMost(base, M), saturating_mul(AtMost(base, M), c) \div f) \div P
  BY <1>3, <1>4 DEF calculate_tx_l1_cost_galileo
<1>6. ExactGalileo(storage, p) = (base + (base * c) \div f) \div P
  BY DEF ExactGalileo, DivPrecision
<1>7. saturating_mul(AtMost(base, M), c) = AtMost(base * c, M)
  BY <1>1, <1>2, MulOfCut
<1> DEFINE penalty == AtMost(base * c, M) \div f
           exact == (base * c) \div f
<1>8. base * c \in Nat /\ penalty \in Nat /\ exact \in Nat
  <2>1. base * c \in Nat
    BY <1>1, <1>2, MulNat
  <2>2. AtMost(base * c, M) \in Nat
    BY <1>1, <2>1 DEF AtMost
  <2> QED
    BY <1>2, <2>1, <2>2, DivNat
<1>9. SUFFICES AtMost(saturating_add(AtMost(base, M), penalty) \div P, C)
                 = AtMost((base + exact) \div P, C)
  BY <1>5, <1>6, <1>7
<1>10. \A n \in Nat : AtMost(AtMost(n, M) \div P, C) = AtMost(n \div P, C)
  BY CapOfDiv
<1>11. saturating_add(AtMost(base, M), penalty) = AtMost(base + penalty, M)
  BY <1>2, <1>8, AddOfCut
<1>12. AtMost(saturating_add(AtMost(base, M), penalty) \div P, C) = AtMost((base + penalty) \div P, C)
  <2>1. base + penalty \in Nat
    BY <1>2, <1>8
  <2> HIDE DEF M, C, P, base, penalty
  <2> QED
    BY <1>10, <1>11, <2>1
<1>13. CASE base * c <= M
  <2>1. penalty = exact
    BY <1>1, <1>13 DEF AtMost
  <2> HIDE DEF M, C, P, base, penalty, exact
  <2> QED
    BY <1>12, <2>1
<1>14. CASE base * c > M
  <2> HIDE DEF M, C, P, c, base, penalty, exact
  <2>1. base >= C * P
    <3>1. C * P \in Nat
      BY <1>1, MulNat
    <3>2. SUFFICES ASSUME base < C * P PROVE FALSE
      BY <1>2, <3>1
    <3>3. base * c <= c * (C * P)
      <4>1. c * base <= c * (C * P)
        BY <1>1, <1>2, <3>1, <3>2, MulUp
      <4> QED
        BY <1>1, <1>2, <4>1
    <3> QED
      BY <1>1, <1>8, <1>14, <3>1, <3>3, MulNat
  <2>2. \A n \in Nat : (base + n) \div P \in Nat /\ (base + n) \div P >= C
    <3>1. SUFFICES ASSUME NEW n \in Nat PROVE (base + n) \div P \in Nat /\ (base + n) \div P >= C
      OBVIOUS
    <3>2. base + n \in Nat /\ base + n >= C * P
      BY <1>1, <1>2, <2>1, MulNat
    <3> QED
      BY <1>1, <3>2, DivNat, DivAtLeast
  <2>3. \A n \in Nat : AtMost((base + n) \div P, C) = C
    BY <1>1, <2>2 DEF AtMost
  <2> QED
    BY <1>8, <1>12, <2>3
<1> QED
  BY <1>1, <1>8, <1>13, <1>14

\* The fee that is charged is the exact fee, capped, in every fork.
LEMMA CostIsCappedExactFee ==
  ASSUME NEW storage \in OracleStorage, NEW p \in Payloads, NEW sp \in Specs,
         ~metadata_panics(p, sp)
  PROVE  calculate_tx_l1_cost(try_fetch(storage, sp), p, sp) = AtMost(ExactFee(storage, p, sp), U64Max)
<1> DEFINE read == try_fetch(storage, sp)
<1>0. p \in Payload /\ sp \in Int
  BY SampleAssumption DEF Specs
<1>1. CASE sp < CURIE
  <2>1. ExactFee(storage, p, sp) = ExactShanghai(storage, p)
    BY <1>1 DEF ExactFee, CURIE, FEYNMAN, GALILEO, Specs
  <2>2. l1_cost(read, p, sp) = calculate_tx_l1_cost_shanghai(read, p, sp)
    BY <1>1 DEF l1_cost, is_enabled_in, CURIE, FEYNMAN, GALILEO, Specs
  <2> QED
    BY <1>0, <1>1, <2>1, <2>2, ShanghaiExact DEF calculate_tx_l1_cost
<1>2. CASE sp >= CURIE /\ sp < FEYNMAN
  <2>1. ExactFee(storage, p, sp) = ExactCurie(storage, p)
    BY <1>2 DEF ExactFee, CURIE, FEYNMAN, GALILEO, Specs
  <2>2. l1_cost(read, p, sp) = calculate_tx_l1_cost_curie(read, p, sp)
    BY <1>2 DEF l1_cost, is_enabled_in, CURIE, FEYNMAN, GALILEO, Specs
  <2> QED
    BY <1>0, <1>2, <2>1, <2>2, CurieExact DEF calculate_tx_l1_cost
<1>3. CASE sp >= FEYNMAN /\ sp < GALILEO
  <2>1. ExactFee(storage, p, sp) = ExactFeynman(storage, p)
    BY <1>3 DEF ExactFee, CURIE, FEYNMAN, GALILEO, Specs
  <2>2. l1_cost(read, p, sp) = calculate_tx_l1_cost_feynman(read, p)
    BY <1>3 DEF l1_cost, is_enabled_in, CURIE, FEYNMAN, GALILEO, Specs
  <2> QED
    BY <1>0, <1>3, <2>1, <2>2, FeynmanExact DEF calculate_tx_l1_cost
<1>4. CASE sp >= GALILEO
  <2>1. ExactFee(storage, p, sp) = ExactGalileo(storage, p)
    BY <1>4 DEF ExactFee, CURIE, FEYNMAN, GALILEO, Specs
  <2>2. l1_cost(read, p, sp) = calculate_tx_l1_cost_galileo(read, p)
    BY <1>4 DEF l1_cost, is_enabled_in, CURIE, FEYNMAN, GALILEO, Specs
  <2>3. p.csize # None /\ p.csize * (U64Max * TX_L1_FEE_PRECISION) <= U256Max
    BY <1>4, RoomAssumption DEF metadata_panics, galileo_rejects, is_enabled_in
  <2> QED
    BY <1>0, <1>4, <2>1, <2>2, <2>3, GalileoExact DEF calculate_tx_l1_cost
<1> QED
  BY <1>0, <1>1, <1>2, <1>3, <1>4 DEF CURIE, FEYNMAN, GALILEO

-----------------------------------------------------------------------------
(***************************************************************************)
(* The exact fee is monotone.                                              *)
(***************************************************************************)
\* So is division.
LEMMA DivUp ==
  ASSUME NEW a \in Nat, NEW b \in Nat, NEW d \in Nat \ {0}, a <= b
  PROVE  a \div d <= b \div d
<1> DEFINE q == a \div d
<1>1. q \in Nat /\ q * d <= a
  BY DivNat
<1> HIDE DEF q
<1>2. b >= q * d
  BY <1>1, MulNat
<1>3. b \div d >= q
  BY <1>1, <1>2, DivAtLeast
<1> QED
  BY <1>1, <1>3, DivNat DEF q

\* Multiplication on either side.
LEMMA MulUpBoth ==
  ASSUME NEW a \in Nat, NEW b \in Nat, NEW c \in Nat, NEW d \in Nat, a <= c, b <= d
  PROVE  a * b <= c * d
<1>1. a * b <= a * d
  BY MulUp
<1>2. a * d = d * a /\ c * d = d * c /\ d * a <= d * c
  BY MulUp
<1>3. a * b \in Nat /\ a * d \in Nat /\ c * d \in Nat
  BY MulNat
<1> QED
  BY <1>1, <1>2, <1>3

\* Every formula charges a bigger transaction of the same compressibility no less.
LEMMA ExactFeeUp ==
  ASSUME NEW storage \in OracleStorage, NEW p \in Payload, NEW q \in Payload, NEW sp \in Specs,
         q.zeros >= p.zeros, q.nonzeros >= p.nonzeros, q.ratio = p.ratio, q.csize >= p.csize,
         sp >= GALILEO => p.csize # None /\ q.csize # None
  PROVE  /\ ExactFee(storage, p, sp) \in Nat /\ ExactFee(storage, q, sp) \in Nat
         /\ ExactFee(storage, p, sp) <= ExactFee(storage, q, sp)
<1> DEFINE P == TX_L1_FEE_PRECISION
<1>0. P \in Nat \ {0} /\ \A s \in Slots : storage[s] \in Nat
  BY PrecisionAssumption, SlotsNat
<1>1. /\ p.zeros \in Nat /\ p.nonzeros \in Nat /\ q.zeros \in Nat /\ q.nonzeros \in Nat
      /\ size(p) \in Nat /\ size(q) \in Nat /\ size(p) <= size(q)
  BY DEF Payload, size
<1> HIDE DEF P
<1>2. CASE sp < CURIE
  <2> DEFINE overhead == storage[L1_OVERHEAD_SLOT]
             fee == storage[L1_BASE_FEE_SLOT]
             scalar == storage[L1_SCALAR_SLOT]
             gas(r) == 4 * r.zeros + 16 * r.nonzeros + overhead + 64
  <2>1. \A r : ExactFee(storage, r, sp) = (gas(r) * fee * scalar) \div P
    BY <1>2 DEF ExactFee, ExactShanghai, DivPrecision, P, CURIE, FEYNMAN, GALILEO, Specs
  <2>2. overhead \in Nat /\ fee \in Nat /\ scalar \in Nat
    BY <1>0 DEF Slots
  <2> HIDE DEF overhead, fee, scalar
  <2>3. gas(p) \in Nat /\ gas(q) \in Nat /\ gas(p) <= gas(q)
    BY <1>1, <2>2
  <2> HIDE DEF gas
  <2>4. gas(p) * fee \in Nat /\ gas(q) * fee \in Nat /\ gas(p) * fee <= gas(q) * fee
    BY <2>2, <2>3, MulNat, MulUpBoth
  <2>5. gas(p) * fee * scalar \in Nat /\ gas(q) * fee * scalar \in Nat
        /\ gas(p) * fee * scalar <= gas(q) * fee * scalar
    BY <2>2, <2>4, MulNat, MulUpBoth
  <2> QED
    BY <1>0, <2>1, <2>5, DivNat, DivUp
<1>3. CASE sp >= CURIE /\ sp < FEYNMAN
  <2> DEFINE commit == storage[L1_COMMIT_SCALAR_SLOT] * storage[L1_BASE_FEE_SLOT]
             blob == storage[L1_BLOB_SCALAR_SLOT]
             blobFee == storage[L1_BLOB_BASE_FEE_SLOT]
  <2>1. \A r : ExactFee(storage, r, sp) = (commit + blob * size(r) * blobFee) \div P
    BY <1>3 DEF ExactFee, ExactCurie, DivPrecision, P, CURIE, FEYNMAN, GALILEO, Specs
  <2>2. commit \in Nat /\ blob \in Nat /\ blobFee \in Nat
    BY <1>0, MulNat DEF Slots
  <2> HIDE DEF commit, blob, blobFee
  <2>3. blob * size(p) \in Nat /\ blob * size(q) \in Nat /\ blob * size(p) <= blob * size(q)
    BY <1>1, <2>2, MulNat, MulUpBoth
  <2>4. blob * size(p) * blobFee \in Nat /\ blob * size(q) * blobFee \in Nat
        /\ blob * size(p) * blobFee <= blob * size(q) * blobFee
    BY <2>2, <2>3, MulNat, MulUpBoth
  <2>5. commit + blob * size(p) * blobFee \in Nat /\ commit + blob * size(q) * blobFee \in Nat
        /\ commit + blob * size(p) * blobFee <= commit + blob * size(q) * blobFee
    BY <2>2, <2>4
  <2> QED
    BY <1>0, <2>1, <2>5, DivNat, DivUp
<1>4. CASE sp >= FEYNMAN /\ sp < GALILEO
  <2> DEFINE perByte == ExactFeePerByte(storage)
             penalty == IF p.ratio >= storage[PENALTY_THRESHOLD_SLOT]
                        THEN P ELSE storage[PENALTY_FACTOR_SLOT]
  <2>1. \A r : r.ratio = p.ratio =>
          ExactFee(storage, r, sp) = ((size(r) * perByte * penalty) \div P) \div P
    BY <1>4 DEF ExactFee, ExactFeynman, DivPrecision, P, CURIE, FEYNMAN, GALILEO, Specs
  <2>2. perByte \in Nat /\ penalty \in Nat
    BY <1>0, <1>4, FeePerByteExact DEF Slots, CURIE, FEYNMAN, Specs
  <2> HIDE DEF perByte, penalty
  <2>3. size(p) * perByte \in Nat /\ size(q) * perByte \in Nat
        /\ size(p) * perByte <= size(q) * perByte
    BY <1>1, <2>2, MulNat, MulUpBoth
  <2>4. size(p) * perByte * penalty \in Nat /\ size(q) * perByte * penalty \in Nat
        /\ size(p) * perByte * penalty <= size(q) * perByte * penalty
    BY <2>2, <2>3, MulNat, MulUpBoth
  <2>5. /\ (size(p) * perByte * penalty) \div P \in Nat /\ (size(q) * perByte * penalty) \div P \in Nat
        /\ (size(p) * perByte * penalty) \div P <= (size(q) * perByte * penalty) \div P
    BY <1>0, <2>4, DivNat, DivUp
  <2> QED
    BY <1>0, <2>1, <2>5, DivNat, DivUp
<1>5. CASE sp >= GALILEO
  <2> DEFINE perByte == ExactFeePerByte(storage)
             f == IF storage[PENALTY_FACTOR_SLOT] = 0 THEN 1 ELSE storage[PENALTY_FACTOR_SLOT]
             base(r) == perByte * r.csize
             quad(r) == (base(r) * r.csize) \div f
  <2>1. \A r : ExactFee(storage, r, sp) = (base(r) + quad(r)) \div P
    BY <1>5 DEF ExactFee, ExactGalileo, DivPrecision, P, CURIE, FEYNMAN, GALILEO, Specs
  <2>2. perByte \in Nat /\ f \in Nat \ {0} /\ p.csize \in Nat /\ q.csize \in Nat
    BY <1>0, <1>5, FeePerByteExact DEF Slots, CURIE, FEYNMAN, GALILEO, Specs, Payload
  <2> HIDE DEF perByte, f
  <2>3. base(p) \in Nat /\ base(q) \in Nat /\ base(p) <= base(q)
    BY <2>2, MulNat, MulUpBoth
  <2> HIDE DEF base
  <2>4. base(p) * p.csize \in Nat /\ base(q) * q.csize \in Nat
        /\ base(p) * p.csize <= base(q) * q.csize
    BY <2>2, <2>3, MulNat, MulUpBoth
  <2>5. quad(p) \in Nat /\ quad(q) \in Nat /\ quad(p) <= quad(q)
    BY <2>2, <2>4, DivNat, DivUp
  <2> HIDE DEF quad
  <2>6. base(p) + quad(p) \in Nat /\ base(q) + quad(q) \in Nat
        /\ base(p) + quad(p) <= base(q) + quad(q)
    BY <2>3, <2>5
  <2> QED
    BY <1>0, <2>1, <2>6, DivNat, DivUp
<1> QED
  BY <1>2, <1>3, <1>4, <1>5 DEF CURIE, FEYNMAN, GALILEO, Specs

-----------------------------------------------------------------------------
(***************************************************************************)
(* The invariant and what follows from it.                                 *)
(***************************************************************************)
\* A fresh context has priced nothing.
LEMMA InitInd == Init => IndInv
<1> SUFFICES ASSUME Init PROVE IndInv
  OBVIOUS
<1>1. DefaultInfo \in Info /\ [s \in Slots |-> 0] \in OracleStorage
  BY WidthAssumption DEF DefaultInfo, Info, U256, None, OracleStorage
<1> QED
  BY <1>1, SampleAssumption DEF Init, IndInv, TypeOK, Specs, None

\* A relay and an upgrade drop what they outdate, a fetch brings what a quote needs.
LEMMA NextInd == IndInv /\ [Next]_vars => IndInv'
<1> SUFFICES ASSUME IndInv, [Next]_vars PROVE IndInv'
  OBVIOUS
<1> USE DEF IndInv, TypeOK
<1>1. ASSUME NEW slot \in Slots, NEW value \in OracleValues, Relay(slot, value) PROVE IndInv'
  <2>1. DefaultInfo \in Info
    BY WidthAssumption DEF DefaultInfo, Info, U256, None
  <2>2. oracle' \in OracleStorage
    BY <1>1, SampleAssumption DEF Relay, OracleStorage
  <2> QED
    BY <1>1, <2>1, <2>2 DEF Relay
<1>2. ASSUME NEW s \in ForkSchedule, Upgrade(s) PROVE IndInv'
  BY <1>2, SampleAssumption DEF Upgrade
<1>3. CASE Fetch
  <2>1. info' \in Info
    BY <1>3, TryFetchType DEF Fetch
  <2> QED
    BY <1>3, <2>1 DEF Fetch
<1>4. ASSUME NEW p \in Payloads, Quote(p) PROVE IndInv'
  <2>1. calculate_tx_l1_cost(info, p, spec) \in 0 .. U64Max
    BY <1>4, SampleAssumption, CostRange DEF Quote
  <2>2. /\ UNCHANGED <<oracle, spec, info, fetched>> /\ fetched = spec
        /\ ~calculate_panics(info, p, spec)
        /\ quote' = <<p, calculate_tx_l1_cost(info, p, spec)>>
    BY <1>4 DEF Quote
  <2> HIDE DEF Quote
  <2> QED
    BY <2>1, <2>2
<1>5. CASE UNCHANGED vars
  BY <1>5 DEF vars
<1> QED
  BY <1>1, <1>2, <1>3, <1>4, <1>5 DEF Next

\* The invariant holds whatever the relayer writes and whenever the fork advances.
THEOREM FeeInvariance == Spec => []IndInv
  BY InitInd, NextInd, PTL DEF Spec

\* A fee is a u64 and an info has the shape of its fork.
THEOREM FeeTypeCorrect == Spec => []TypeOK
<1>1. IndInv => TypeOK
  BY DEF IndInv
<1> QED
  BY <1>1, FeeInvariance, PTL

\* The unwraps of pricing never fail on an info fetched under the fork in force.
THEOREM FreshInfo == Spec => []FreshInfoNeverPanics
<1>1. IndInv => FreshInfoNeverPanics
  BY FetchedInfoNeverPanics DEF IndInv, TypeOK, FreshInfoNeverPanics, Specs, SHANGHAI, GALILEO, None
<1> QED
  BY <1>1, FeeInvariance, PTL

\* The fee is the exact fee, capped: whatever the oracle holds, no saturation on the
\* way ever shows in it, as long as there is the room that U256 has.
THEOREM QuoteExact == Spec => []QuoteIsCappedExactFee
<1>1. IndInv => QuoteIsCappedExactFee
  <2> SUFFICES ASSUME IndInv, quote # <<>>
               PROVE  quote[2] = AtMost(ExactFee(oracle, quote[1], spec), U64Max)
    BY DEF QuoteIsCappedExactFee
  <2>1. PICK p \in Payloads : /\ quote = <<p, calculate_tx_l1_cost(info, p, spec)>>
                              /\ fetched = spec /\ ~calculate_panics(info, p, spec)
    BY DEF IndInv
  <2>2. info = try_fetch(oracle, spec) /\ oracle \in OracleStorage /\ spec \in Specs
    BY <2>1 DEF IndInv, TypeOK, Specs, SHANGHAI, GALILEO, None
  <2>3. calculate_tx_l1_cost(info, p, spec) = AtMost(ExactFee(oracle, p, spec), U64Max)
    BY <2>1, <2>2, CostIsCappedExactFee DEF calculate_panics
  <2> QED
    BY <2>1, <2>3
<1> QED
  BY <1>1, FeeInvariance, PTL

\* A bigger transaction of the same compressibility never pays less.
THEOREM Monotone == Spec => []LargerPaysMore
<1>1. IndInv => LargerPaysMore
  <2> SUFFICES ASSUME IndInv, quote # <<>>, NEW q \in Payloads,
                      q.zeros >= quote[1].zeros, q.nonzeros >= quote[1].nonzeros,
                      q.ratio = quote[1].ratio, q.csize >= quote[1].csize,
                      ~calculate_panics(info, q, spec)
               PROVE  calculate_tx_l1_cost(info, q, spec) >= quote[2]
    BY DEF LargerPaysMore
  <2>1. PICK p \in Payloads : /\ quote = <<p, calculate_tx_l1_cost(info, p, spec)>>
                              /\ fetched = spec /\ ~calculate_panics(info, p, spec)
    BY DEF IndInv
  <2>2. info = try_fetch(oracle, spec) /\ oracle \in OracleStorage /\ spec \in Specs
    BY <2>1 DEF IndInv, TypeOK, Specs, SHANGHAI, GALILEO, None
  <2>3. /\ calculate_tx_l1_cost(info, p, spec) = AtMost(ExactFee(oracle, p, spec), U64Max)
        /\ calculate_tx_l1_cost(info, q, spec) = AtMost(ExactFee(oracle, q, spec), U64Max)
    BY <2>1, <2>2, CostIsCappedExactFee DEF calculate_panics
  <2>4. p \in Payload /\ q \in Payload /\ quote[1] = p
    BY <2>1, SampleAssumption
  <2>5. spec >= GALILEO => p.csize # None /\ q.csize # None
    BY <2>1 DEF calculate_panics, metadata_panics, galileo_rejects, is_enabled_in
  <2>6. /\ ExactFee(oracle, p, spec) \in Nat /\ ExactFee(oracle, q, spec) \in Nat
        /\ ExactFee(oracle, p, spec) <= ExactFee(oracle, q, spec)
    BY <2>2, <2>4, <2>5, ExactFeeUp
  <2>7. AtMost(ExactFee(oracle, q, spec), U64Max) >= AtMost(ExactFee(oracle, p, spec), U64Max)
    BY <2>6, WidthAssumption DEF AtMost
  <2> QED
    BY <2>1, <2>3, <2>7
<1> QED
  BY <1>1, FeeInvariance, PTL
=============================================================================
