------------------------ MODULE HistoryStorageProofs ------------------------
(***************************************************************************)
(* BLOCKHASH and its ring buffer, for every size of the ring, every        *)
(* look-back within it and every activation block.                         *)
(***************************************************************************)
EXTENDS HistoryStorage, TLAPS

\* What division leaves.
LEMMA Remainder ==
  ASSUME NEW w \in Nat, w > 0, NEW a \in Int PROVE a - (a % w) = (a \div w) * w
  BY SMT

\* Division with remainder.
LEMMA Division ==
  ASSUME NEW w \in Nat \ {0}, NEW a \in Nat
  PROVE  /\ a \div w \in Nat /\ a % w \in 0 .. w - 1
         /\ a - (a % w) = (a \div w) * w
<1>1. a \div w \in Nat
  BY SMT
<1>2. a % w \in 0 .. w - 1
  BY SMT
<1>3. a - (a % w) = (a \div w) * w
  BY Remainder
<1> QED
  BY <1>1, <1>2, <1>3

\* A multiple of w between 0 and w is 0.
LEMMA SmallMultiple ==
  ASSUME NEW w \in Nat \ {0}, NEW k \in Int, 0 <= k * w, k * w < w
  PROVE  k * w = 0
<1>1. CASE k <= -1
  <2>1. k * w <= -w
    BY <1>1, SMT
  <2> QED
    BY <2>1
<1>2. CASE k >= 1
  <2>1. k * w >= w
    BY <1>2, SMT
  <2> QED
    BY <2>1
<1>3. CASE k = 0
  BY <1>3, SMT
<1> QED
  BY <1>1, <1>2, <1>3

\* Two numbers less than a ring apart have different slots.
LEMMA SlotsDiffer ==
  ASSUME NEW w \in Nat \ {0}, NEW a \in Nat, NEW b \in Nat, a % w = b % w, a <= b, b - a < w
  PROVE  a = b
<1> DEFINE k == b \div w - a \div w
<1>1. k \in Int
  BY Division
<1>2. b - a = (b \div w) * w - (a \div w) * w
  <2>1. a - (a % w) = (a \div w) * w /\ b - (b % w) = (b \div w) * w
    BY Division
  <2>2. a % w \in Int
    BY Division
  <2> QED
    BY <2>1, <2>2
<1>3. (b \div w) * w - (a \div w) * w = k * w
  <2>1. \A x, y \in Int : x * w - y * w = (x - y) * w
    BY SMT
  <2>2. b \div w \in Int /\ a \div w \in Int
    BY Division
  <2> QED
    BY <2>1, <2>2
<1>4. b - a = k * w
  BY <1>2, <1>3
<1>5. k * w = 0
  BY <1>1, <1>4, SmallMultiple
<1> QED
  BY <1>4, <1>5

\* Numbers a ring apart share a slot.
LEMMA SlotsMeet ==
  ASSUME NEW w \in Nat \ {0}, NEW a \in Nat
  PROVE  (a + w) % w = a % w
<1> DEFINE q == a \div w
           r == a % w
<1>1. q \in Nat /\ r \in 0 .. w - 1 /\ a - r = q * w
  BY Division
<1>2. a + w = w * (q + 1) + r
  <2>1. \A x \in Nat : x * w + w = w * (x + 1)
    BY SMT
  <2> QED
    BY <1>1, <2>1
<1>3. \A m \in Int, x \in Int, y \in 0 .. w - 1 : m = w * x + y => y = m % w
  BY SMT
<1> HIDE DEF q, r
<1>4. q + 1 \in Int /\ a + w \in Int
  BY <1>1
<1>5. r = (a + w) % w
  BY <1>1, <1>2, <1>3, <1>4
<1> QED
  BY <1>5 DEF r

\* Every block has a slot.
LEMMA SlotRange == ASSUME NEW n \in Nat PROVE index(n) \in Slots
  BY HistoryAssumption, SMT DEF index, Slots

\* A new context has empty rings.
LEMMA InitIndInv == Init => IndInv
<1> SUFFICES ASSUME Init PROVE IndInv
  OBVIOUS
<1>1. feynman \in Nat \ {0} /\ number = 1 /\ opened = FALSE
  BY HistoryAssumption DEF Init
<1>2. Zero \in Hashes
  BY DEF Zero, Hashes
<1>3. Holds(db, number - 2) /\ Holds(ring, Last)
  BY <1>1 DEF Init, Holds, Last
<1>4. OnlyParentIsStale /\ WindowIsServed
  BY DEF Init, OnlyParentIsStale, WindowIsServed, Answered
<1>5. db \in [Slots -> Hashes] /\ ring \in [Slots -> Hashes] /\ ring = db
  BY <1>2 DEF Init
<1>6. feynman \in FeynmanBlocks
  BY DEF Init
<1>7. feynman \in FeynmanBlocks /\ number \in Nat \ {0} /\ opened \in BOOLEAN
      /\ (opened => IsFeynman) /\ (~opened => ring = db)
  <2>1. number \in Nat \ {0}
    BY <1>1
  <2> QED
    BY <1>1, <1>5, <1>6, <2>1, Zenon
<1> QED
  BY <1>3, <1>4, <1>5, <1>7, Zenon DEF IndInv

\* Storing the hash of the next block keeps what a ring holds.
LEMMA StoreHolds ==
  ASSUME NEW r \in [Slots -> Hashes], NEW last \in Int, last >= -1, feynman \in Nat \ {0},
         feynman - 1 <= last + 1, Holds(r, last)
  PROVE  Holds([r EXCEPT ![index(last + 1)] = header(last + 1)], last + 1)
<1> DEFINE q == [r EXCEPT ![index(last + 1)] = header(last + 1)]
<1>1. last + 1 \in Nat /\ index(last + 1) \in Slots
  BY SlotRange
<1>2. ASSUME NEW b \in (feynman - 1) .. (last + 1), last + 1 - b < HISTORY_SERVE_WINDOW
      PROVE  q[index(b)] = header(b)
  <2>1. b \in Nat /\ index(b) \in Slots
    BY <1>2, SlotRange
  <2>2. CASE b = last + 1
    BY <1>1, <2>2
  <2>3. CASE b # last + 1
    <3>1. b \in (feynman - 1) .. last /\ last - b < HISTORY_SERVE_WINDOW
      BY <1>2, <2>1, <2>3, HistoryAssumption
    <3>2. index(b) # index(last + 1)
      <4>1. b <= last + 1 /\ (last + 1) - b < HISTORY_SERVE_WINDOW
        BY <1>2
      <4>2. HISTORY_SERVE_WINDOW \in Nat \ {0}
        BY HistoryAssumption
      <4> QED
        BY <1>1, <2>1, <2>3, <4>1, <4>2, SlotsDiffer DEF index
    <3> QED
      BY <2>1, <3>1, <3>2 DEF Holds
  <2> QED
    BY <2>2, <2>3
<1>3. ASSUME NEW i \in Slots
      PROVE  q[i] = Zero \/ \E b \in (feynman - 1) .. (last + 1) : index(b) = i /\ q[i] = header(b)
  <2>1. CASE i = index(last + 1)
    <3>1. last + 1 \in (feynman - 1) .. (last + 1) /\ q[i] = header(last + 1)
      BY <1>1, <2>1
    <3> QED
      BY <2>1, <3>1
  <2>2. CASE i # index(last + 1)
    <3>1. q[i] = r[i]
      BY <2>2
    <3>2. \A b \in (feynman - 1) .. last : b \in (feynman - 1) .. (last + 1)
      OBVIOUS
    <3> QED
      BY <3>1, <3>2 DEF Holds
  <2> QED
    BY <2>1, <2>2
<1> QED
  BY <1>2, <1>3 DEF Holds

\* What a ring holds is what BLOCKHASH returns.
LEMMA AnswerExact ==
  ASSUME IndInv, IsFeynman, NEW n \in Nat, served(n)
  PROVE  /\ n \in Stored => ring[index(n)] = header(n)
         /\ n < feynman - 1 => ring[index(n)] = Zero
         /\ n \in (feynman - 1) .. (number - 1) /\ n \notin Stored
              => n = number - 1 /\ ring[index(n)] \in {Zero, header(number - 1 - HISTORY_SERVE_WINDOW)}
<1>1. /\ feynman \in Nat \ {0} /\ number \in Nat \ {0} /\ opened \in BOOLEAN
      /\ Holds(ring, Last) /\ Last \in Int /\ Last >= number - 2 /\ Last <= number - 1
  BY HistoryAssumption DEF IndInv, Last
<1>2. n <= number - 1 /\ number - n <= HISTORY_SERVE_WINDOW /\ index(n) \in Slots
  BY <1>1, HistoryAssumption, SlotRange DEF served
<1>3. \/ ring[index(n)] = Zero
      \/ \E b \in (feynman - 1) .. Last : index(b) = index(n) /\ ring[index(n)] = header(b)
  BY <1>1, <1>2 DEF Holds
<1> DEFINE W == HISTORY_SERVE_WINDOW
<1>a. W \in Nat \ {0}
  BY HistoryAssumption
<1>4. ASSUME NEW b \in (feynman - 1) .. Last, index(b) = index(n), b # n
      PROVE  b <= n - W
  <2> SUFFICES ASSUME b > n - W PROVE FALSE
    BY <1>1, <1>4, <1>a
  <2>1. b \in Nat /\ b <= number - 1
    BY <1>1, <1>4
  <2>2. b % W = n % W
    BY <1>4 DEF index
  <2>3. CASE b > n
    <3>1. n <= b /\ b - n < W
      BY <1>1, <1>2, <2>1, <2>3, <1>a
    <3> QED
      BY <1>4, <2>1, <2>2, <3>1, <1>a, SlotsDiffer
  <2>4. CASE b < n
    <3>1. b <= n /\ n - b < W
      BY <2>1, <2>4, <1>a
    <3> QED
      BY <1>4, <2>1, <2>2, <3>1, <1>a, SlotsDiffer
  <2> QED
    BY <1>4, <2>1, <2>3, <2>4
<1>5. n \in Stored => ring[index(n)] = header(n)
  <2>1. ASSUME n \in Stored PROVE Last - n < HISTORY_SERVE_WINDOW
    BY <1>1, <1>2, <2>1, HistoryAssumption
  <2> QED
    BY <1>1, <2>1 DEF Holds, Stored
<1>6. n < feynman - 1 => ring[index(n)] = Zero
  BY <1>1, <1>3, <1>4, HistoryAssumption
<1>7. ASSUME n \in (feynman - 1) .. (number - 1), n \notin Stored
      PROVE  n = number - 1 /\ ring[index(n)] \in {Zero, header(number - 1 - HISTORY_SERVE_WINDOW)}
  <2>1. n = number - 1 /\ Last = number - 2
    BY <1>1, <1>7 DEF Stored, Last
  <2> DEFINE c == number - 1 - W
  <2>2. ASSUME NEW b \in (feynman - 1) .. Last, index(b) = index(n)
        PROVE  ring[index(n)] = header(c)
    <3>1. b # n /\ b <= n - W /\ b \in Nat
      BY <1>1, <1>4, <2>1, <2>2
    <3>2. c \in Nat /\ c \in (feynman - 1) .. Last /\ Last - c < W
      BY <1>1, <1>a, <2>1, <2>2, <3>1
    <3>3. index(c) = index(n)
      <4>1. n = c + W
        BY <1>1, <1>a, <2>1
      <4> QED
        BY <1>a, <3>2, <4>1, SlotsMeet DEF index
    <3> QED
      BY <1>1, <3>2, <3>3 DEF Holds
  <2> QED
    BY <1>3, <2>1, <2>2
<1> QED
  BY <1>5, <1>6, <1>7

-----------------------------------------------------------------------------
(***************************************************************************)
(* The inductive invariant.                                                *)
(***************************************************************************)
\* Every step keeps the invariant.
LEMMA NextIndInv == IndInv /\ [Next]_vars => IndInv'
<1> SUFFICES ASSUME IndInv, [Next]_vars PROVE IndInv'
  OBVIOUS
<1>0. /\ feynman \in Nat \ {0} /\ number \in Nat \ {0} /\ HISTORY_SERVE_WINDOW \in Nat \ {0}
  BY HistoryAssumption DEF IndInv
<1>1. CASE blockhash
  <2>1. PICK n \in 0 .. MaxBlock + 1 :
          \/ /\ ~served(n)
             /\ answer' = [requested |-> n, value |-> Zero]
          \/ /\ served(n) /\ ~IsFeynman
             /\ answer' = [requested |-> n, value |-> compute_block_hash(n)]
          \/ /\ served(n) /\ IsFeynman
             /\ answer' = [requested |-> n, value |-> ring[index(n)]]
          \/ answer' = [requested |-> n, value |-> Fatal]
    BY <1>1, Zenon DEF blockhash
  <2>2. UNCHANGED <<feynman, number, db, ring, opened>>
    BY <1>1 DEF blockhash
  <2>3. n \in Nat
    BY <2>1
  <2>4. OnlyParentIsStale' /\ WindowIsServed'
    <3>1. CASE answer' = [requested |-> n, value |-> Fatal]
      BY <3>1 DEF OnlyParentIsStale, WindowIsServed, Answered
    <3>2. CASE ~served(n) /\ answer' = [requested |-> n, value |-> Zero]
      <4>1. n \notin (number - BLOCK_HASH_HISTORY) .. (number - 1)
        BY <1>0, <2>3, <3>2, HistoryAssumption DEF served
      <4> QED
        BY <2>2, <3>2, <4>1 DEF OnlyParentIsStale, WindowIsServed
    <3>3. CASE served(n) /\ ~IsFeynman /\ answer' = [requested |-> n, value |-> compute_block_hash(n)]
      <4>1. Stored = {}
        BY <1>0, <3>3 DEF Stored, Last, IsFeynman, IndInv
      <4>2. Stored' = {} /\ ~IsFeynman'
        BY <2>2, <3>3, <4>1 DEF Stored, Last, IsFeynman
      <4> QED
        BY <3>3, <4>2 DEF OnlyParentIsStale, WindowIsServed
    <3>4. CASE served(n) /\ IsFeynman /\ answer' = [requested |-> n, value |-> ring[index(n)]]
      <4>1. /\ n \in Stored => ring[index(n)] = header(n)
            /\ n < feynman - 1 => ring[index(n)] = Zero
            /\ n \in (feynman - 1) .. (number - 1) /\ n \notin Stored
                 => n = number - 1 /\ ring[index(n)] \in {Zero, header(number - 1 - HISTORY_SERVE_WINDOW)}
        BY <2>3, <3>4, AnswerExact
      <4>2. n < feynman - 1 \/ n \in (feynman - 1) .. (number - 1)
        BY <1>0, <2>3, <3>4 DEF served
      <4>3. Stored' = Stored /\ IsFeynman'
        BY <2>2, <3>4 DEF Stored, Last, IsFeynman
      <4>4. answer'.requested = n /\ answer'.value = ring[index(n)]
        BY <3>4
      <4>5. WindowIsServed'
        BY <2>2, <4>1, <4>3, <4>4 DEF WindowIsServed
      <4>6. OnlyParentIsStale'
        BY <2>2, <4>1, <4>2, <4>4 DEF OnlyParentIsStale
      <4> QED
        BY <4>5, <4>6
    <3> QED
      BY <2>1, <3>1, <3>2, <3>3, <3>4
  <2> QED
    BY <2>2, <2>4 DEF IndInv, Holds, Last, IsFeynman
<1>2. CASE StoreParentHash
  <2>1. /\ ring' = [ring EXCEPT ![index(number - 1)] = header(number - 1)]
        /\ IsFeynman /\ opened = FALSE /\ opened' = TRUE /\ answer' = NoAnswer
        /\ UNCHANGED <<feynman, number, db>>
    BY <1>2 DEF StoreParentHash, index, IndInv
  <2>2. Last = number - 2 /\ Last' = number - 1
    BY <2>1 DEF Last
  <2>3. number - 1 \in Nat /\ header(number - 1) \in Hashes
    BY <1>0 DEF header, Hashes
  <2>4. ring \in [Slots -> Hashes] /\ Holds(ring, number - 2) /\ feynman <= number
    BY <2>1, <2>2 DEF IndInv, IsFeynman
  <2>5. Holds([ring EXCEPT ![index(number - 1)] = header(number - 1)], number - 1)
    <3>1. number - 2 \in Int /\ number - 2 >= -1 /\ (number - 2) + 1 = number - 1
          /\ feynman - 1 <= (number - 2) + 1
      BY <1>0, <2>4
    <3>2. Holds([ring EXCEPT ![index((number - 2) + 1)] = header((number - 2) + 1)], (number - 2) + 1)
      BY <1>0, <2>4, <3>1, StoreHolds
    <3> QED
      BY <3>1, <3>2
  <2>6. Holds(ring, Last)' /\ Holds(db, number - 2)'
    BY <2>1, <2>2, <2>5 DEF IndInv, Holds
  <2>7. ring' \in [Slots -> Hashes]
    BY <2>1, <2>3, <2>4
  <2>8. OnlyParentIsStale' /\ WindowIsServed'
    BY <2>1 DEF OnlyParentIsStale, WindowIsServed, Answered
  <2> QED
    BY <2>1, <2>6, <2>7, <2>8 DEF IndInv, IsFeynman
<1>3. CASE CommitBlock
  <2>1. /\ number' = number + 1 /\ db' = ring /\ opened' = FALSE /\ answer' = NoAnswer
        /\ IsFeynman => opened
        /\ UNCHANGED <<feynman, ring>>
    BY <1>3 DEF CommitBlock
  <2>2. number' \in Nat \ {0} /\ number' - 2 = number - 1 /\ Last' = number - 1
    BY <1>0, <2>1 DEF Last
  <2>3. Holds(ring, number - 1)
    <3>1. CASE opened
      BY <3>1 DEF IndInv, Last
    <3>2. CASE ~opened
      <4>1. (feynman - 1) .. (number - 1) = {} /\ (feynman - 1) .. (number - 2) = {}
        BY <1>0, <2>1, <3>2 DEF IsFeynman
      <4>2. Holds(ring, number - 2)
        BY <3>2 DEF IndInv, Last
      <4> QED
        BY <4>1, <4>2 DEF Holds
    <3> QED
      BY <3>1, <3>2
  <2>4. Holds(ring, Last)' /\ Holds(db, number - 2)'
    BY <2>1, <2>2, <2>3 DEF Holds
  <2>5. OnlyParentIsStale' /\ WindowIsServed'
    BY <2>1 DEF OnlyParentIsStale, WindowIsServed, Answered
  <2> QED
    BY <2>1, <2>2, <2>4, <2>5 DEF IndInv
<1>4. CASE AbandonBlock
  <2>1. ring' = db /\ opened' = FALSE /\ answer' = NoAnswer /\ UNCHANGED <<feynman, number, db>>
    BY <1>4 DEF AbandonBlock
  <2>2. Last' = number - 2
    BY <2>1 DEF Last
  <2>3. Holds(ring, Last)' /\ Holds(db, number - 2)'
    BY <2>1, <2>2 DEF IndInv, Holds
  <2>4. OnlyParentIsStale' /\ WindowIsServed'
    BY <2>1 DEF OnlyParentIsStale, WindowIsServed, Answered
  <2> QED
    BY <2>1, <2>3, <2>4 DEF IndInv
<1>5. CASE UNCHANGED vars
  BY <1>5 DEF vars, IndInv, Holds, Last, IsFeynman, OnlyParentIsStale, WindowIsServed, Answered, Stored
<1> QED
  BY <1>1, <1>2, <1>3, <1>4, <1>5 DEF Next

-----------------------------------------------------------------------------
(***************************************************************************)
(* Theorems.                                                               *)
(***************************************************************************)
\* The inductive invariant holds of every behaviour.
THEOREM Invariance == Spec => []IndInv
<1>1. Init => IndInv
  BY InitIndInv
<1>2. IndInv /\ [Next]_vars => IndInv'
  BY NextIndInv
<1> QED
  BY <1>1, <1>2, PTL DEF Spec

\* BLOCKHASH answers for every block the ring has been given with that block's own
\* hash; before the producer's call of a block, its parent is not one of them.
THEOREM WindowCorrect == Spec => []WindowIsServed
<1>1. IndInv => WindowIsServed
  BY DEF IndInv
<1> QED
  BY <1>1, Invariance, PTL

\* Before the producer's call of a block, only the parent's answer is off.
THEOREM ParentCorrect == Spec => []OnlyParentIsStale
<1>1. IndInv => OnlyParentIsStale
  BY DEF IndInv
<1> QED
  BY <1>1, Invariance, PTL
=============================================================================
