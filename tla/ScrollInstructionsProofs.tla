---------------------- MODULE ScrollInstructionsProofs ----------------------
(***************************************************************************)
(* The overridden instructions for every width of words and memory, every  *)
(* frame and every order of execution.                                     *)
(***************************************************************************)
EXTENDS ScrollInstructions, SequenceTheorems, FiniteSetTheorems, TLAPS

-----------------------------------------------------------------------------
(***************************************************************************)
(* Words, memory words and their price.                                    *)
(***************************************************************************)
\* What the instructions push is a word.
LEMMA WordsPushed ==
  /\ Words \subseteq Nat
  /\ \A n \in 0 .. WordBits : n \in Words
  /\ DIFFICULTY \in Words /\ BaseFee \in Words
<1> DEFINE M == 2^WordBits
<1>1. M \in Nat /\ WordBits < M /\ WordBits \in Nat \ {0}
  BY WidthAssumption
<1>2. Words = 0 .. M - 1
  BY DEF Words
<1> HIDE DEF M
<1> QED
  BY <1>1, <1>2 DEF DIFFICULTY, BaseFee

\* The leading zeros of a word are a word.
LEMMA LeadingZeros == ASSUME NEW v \in Words PROVE leading_zeros(v) \in Words
<1> DEFINE S == 0 .. WordBits - 1
           P == {b \in S : v < 2^b}
<1>1. WordBits \in Nat
  BY WidthAssumption
<1>2. IsFiniteSet(S) /\ Cardinality(S) = WordBits
  BY <1>1, FS_Interval
<1>3. P \in SUBSET S
  OBVIOUS
<1> HIDE DEF P, S
<1>4. IsFiniteSet(P) /\ Cardinality(P) <= WordBits
  BY <1>2, <1>3, FS_Subset
<1>5. Cardinality(P) \in Nat
  BY <1>4, FS_CardinalityType
<1> QED
  BY <1>1, <1>4, <1>5, WordsPushed DEF leading_zeros, P, S

\* Division with remainder.
LEMMA Division ==
  ASSUME NEW w \in Nat \ {0}, NEW a \in Nat
  PROVE  /\ a \div w \in Nat /\ a % w \in 0 .. w - 1
         /\ a = (a \div w) * w + (a % w)
<1>1. a \div w \in Nat
  BY SMT
<1>2. a % w \in 0 .. w - 1
  BY SMT
<1>3. \A v \in Nat, b \in Int : v > 0 => b - (b % v) = (b \div v) * v
  BY SMT
<1>4. (a \div w) * w \in Nat
  BY <1>1
<1> QED
  BY <1>1, <1>2, <1>3, <1>4

\* The quotient is the only one.
LEMMA Quotient ==
  ASSUME NEW w \in Nat \ {0}, NEW k \in Nat, NEW r \in 0 .. w - 1
  PROVE  (k * w + r) \div w = k /\ (k * w + r) % w = r
  BY SMT

\* The words of a length cover it.
LEMMA NumWords ==
  ASSUME NEW n \in Nat
  PROVE  num_words(n) \in Nat /\ num_words(n) * WordBytes >= n
<1> DEFINE w == WordBytes
           a == n + w - 1
<1>1. w \in Nat \ {0} /\ a \in Nat
  BY WidthAssumption
<1> HIDE DEF w
<1>2. /\ a \div w \in Nat /\ a % w \in 0 .. w - 1 /\ a = (a \div w) * w + (a % w)
  BY <1>1, Division
<1>3. (a \div w) * w \in Nat
  BY <1>1, <1>2
<1> QED
  BY <1>1, <1>2, <1>3 DEF num_words, w

\* k words have k words, and no rest.
LEMMA WordsOf ==
  ASSUME NEW k \in Nat
  PROVE  /\ k * WordBytes \in Nat
         /\ num_words(k * WordBytes) = k /\ (k * WordBytes) % WordBytes = 0
<1> DEFINE w == WordBytes
<1>1. w \in Nat \ {0}
  BY WidthAssumption
<1> HIDE DEF w
<1>2. k * w \in Nat
  BY <1>1
<1>3. (k * w + (w - 1)) \div w = k
  BY <1>1, Quotient
<1>4. (k * w + 0) % w = 0
  BY <1>1, Quotient
<1>5. k * w + w - 1 = k * w + (w - 1) /\ k * w + 0 = k * w
  BY <1>1, <1>2
<1> QED
  BY <1>2, <1>3, <1>4, <1>5 DEF num_words, w

\* A length in whole words is that many words.
LEMMA WholeWords ==
  ASSUME NEW n \in Nat, n % WordBytes = 0
  PROVE  n = num_words(n) * WordBytes
<1>1. WordBytes \in Nat \ {0}
  BY WidthAssumption
<1>2. PICK k \in Nat : n = k * WordBytes
  <2>1. n \div WordBytes \in Nat /\ n = (n \div WordBytes) * WordBytes + (n % WordBytes)
    BY <1>1, Division
  <2>2. (n \div WordBytes) * WordBytes \in Nat
    BY <1>1, <2>1
  <2>3. n = (n \div WordBytes) * WordBytes
    BY <2>1, <2>2
  <2> QED
    BY <2>1, <2>3
<1> QED
  BY <1>2, WordsOf

\* More memory costs more.
LEMMA MemoryGas ==
  ASSUME NEW a \in Nat, NEW b \in Nat, a <= b
  PROVE  memory_gas(a) \in Nat /\ memory_gas(b) \in Nat /\ memory_gas(a) <= memory_gas(b)
<1> DEFINE q == MemoryQuotient
<1>1. q \in Nat \ {0}
  BY WidthAssumption
<1> HIDE DEF q
<1>2. a * a \in Nat /\ b * b \in Nat /\ a * a <= b * b
  BY SMT
<1>3. \A x, y \in Nat : x <= y => x \div q \in Nat /\ y \div q \in Nat /\ x \div q <= y \div q
  BY <1>1, SMT
<1>4. (a * a) \div q \in Nat /\ (b * b) \div q \in Nat /\ (a * a) \div q <= (b * b) \div q
  BY <1>2, <1>3
<1> QED
  BY <1>4 DEF memory_gas, q

-----------------------------------------------------------------------------
(***************************************************************************)
(* The interpreter's macros.  A macro or an instruction that takes a frame *)
(* to another one at a price keeps its shape and charges that price and    *)
(* the growth of memory.                                                   *)
(***************************************************************************)
Good(f) ==
  /\ f \in Frame /\ f.result = "none"
  /\ Len(f.stack) <= StackLimit /\ Len(f.memory) % WordBytes = 0

Price(f) == memory_gas(num_words(Len(f.memory)))

Leaves(f, g, cost) ==
  /\ g \in Frame /\ g.is_static = f.is_static
  /\ Len(g.stack) <= StackLimit /\ Len(g.memory) % WordBytes = 0
  /\ g.result = "none" => f.gas - g.gas = cost + Price(g) - Price(f)

\* What a frame is made of.
LEMMA FrameType ==
  ASSUME NEW f \in Frame
  PROVE  /\ f.stack \in Seq(Words) /\ f.memory \in Seq(Nat) /\ f.gas \in Nat
         /\ f.is_static \in BOOLEAN /\ f.result \in Results
         /\ Len(f.stack) \in Nat /\ Len(f.memory) \in Nat /\ Price(f) \in Nat
<1>1. /\ f.stack \in Seq(Words) /\ f.memory \in Seq(Nat) /\ f.gas \in Nat
      /\ f.is_static \in BOOLEAN /\ f.result \in Results
  BY DEF Frame
<1>2. Len(f.stack) \in Nat /\ Len(f.memory) \in Nat
  BY <1>1, LenProperties
<1>3. Price(f) \in Nat
  <2>1. num_words(Len(f.memory)) \in Nat
    BY <1>2, NumWords
  <2> QED
    BY <2>1, MemoryGas DEF Price
<1> QED
  BY <1>1, <1>2, <1>3

\* A halt keeps stack and memory; what was charged no longer matters.
LEMMA HaltLeaves ==
  ASSUME NEW f, Good(f), NEW r \in Results \ {"none"}, NEW c
  PROVE  /\ Leaves(f, halt(f, r), c) /\ halt(f, r).result = r
<1>1. f \in Frame
  BY DEF Good
<1> QED
  BY <1>1 DEF Good, Leaves, halt, Frame

\* Gas is charged or the frame halts.
LEMMA GasLeaves ==
  ASSUME NEW f, Good(f), NEW c \in Nat
  PROVE  LET g == gas_or_fail(f, c)
         IN  /\ Leaves(f, g, c) /\ g.result \in {"none", "OutOfGas"}
             /\ g.stack = f.stack /\ g.memory = f.memory
             /\ g.result = "none" => Good(g) /\ f.gas - g.gas = c
<1> DEFINE g == gas_or_fail(f, c)
<1>1. f \in Frame /\ f.gas \in Nat /\ f.result = "none" /\ Price(f) \in Nat
  BY FrameType DEF Good
<1>2. CASE c > f.gas
  <2>1. g = halt(f, "OutOfGas")
    BY <1>2 DEF gas_or_fail
  <2>2. g.stack = f.stack /\ g.memory = f.memory
    BY <1>1, <2>1 DEF halt, Frame
  <2> QED
    BY <2>1, <2>2, HaltLeaves DEF Results
<1>3. CASE c <= f.gas
  <2>1. g = [f EXCEPT !.gas = @ - c]
    BY <1>1, <1>3 DEF gas_or_fail
  <2>2. g \in Frame /\ g.stack = f.stack /\ g.memory = f.memory /\ g.is_static = f.is_static
        /\ g.result = "none" /\ g.gas = f.gas - c
    BY <1>1, <1>3, <2>1 DEF Frame
  <2>3. Price(g) = Price(f)
    BY <2>2 DEF Price
  <2> HIDE DEF g
  <2>4. Good(g) /\ Leaves(f, g, c)
    BY <1>1, <2>2, <2>3 DEF Good, Leaves
  <2> QED
    BY <1>1, <1>3, <2>2, <2>4 DEF g
<1> QED
  BY <1>1, <1>2, <1>3

\* Operands leave the stack.
LEMMA DropLeaves ==
  ASSUME NEW f, Good(f), NEW n \in Nat, Pops(f, n)
  PROVE  /\ Good(Drop(f, n)) /\ Len(Drop(f, n).stack) = Len(f.stack) - n
         /\ Drop(f, n).memory = f.memory /\ Drop(f, n).gas = f.gas
         /\ Drop(f, n).is_static = f.is_static
         /\ \A i \in 1 .. n : Top(f, i) \in Words
<1> DEFINE s == f.stack
           t == SubSeq(s, 1, Len(s) - n)
<1>1. f \in Frame /\ s \in Seq(Words) /\ Len(s) \in Nat /\ n <= Len(s) /\ Len(s) <= StackLimit
  BY FrameType DEF Good, Pops
<1>2. \A i \in 1 .. Len(s) : s[i] \in Words
  BY <1>1, ElementOfSeq
<1>3. t \in Seq(Words) /\ Len(t) = Len(s) - n
  BY <1>1, <1>2, SubSeqProperties
<1>4. Drop(f, n) = [f EXCEPT !.stack = t]
  BY DEF Drop
<1> HIDE DEF t
<1>5. /\ Drop(f, n) \in Frame /\ Drop(f, n).stack = t /\ Drop(f, n).memory = f.memory
      /\ Drop(f, n).gas = f.gas /\ Drop(f, n).is_static = f.is_static
      /\ Drop(f, n).result = f.result
  BY <1>1, <1>3, <1>4 DEF Frame
<1>6. \A i \in 1 .. n : Top(f, i) \in Words
  BY <1>1, <1>2 DEF Top
<1>7. StackLimit \in Nat
  BY WidthAssumption
<1> QED
  BY <1>1, <1>3, <1>5, <1>6, <1>7 DEF Good

\* A value is pushed or the frame halts.
LEMMA PushLeaves ==
  ASSUME NEW f, Good(f), NEW v \in Words
  PROVE  Leaves(f, push(f, v), 0)
<1>1. f \in Frame /\ f.stack \in Seq(Words) /\ Len(f.stack) \in Nat /\ StackLimit \in Nat
      /\ f.gas \in Nat /\ Price(f) \in Nat
  BY FrameType, WidthAssumption DEF Good
<1>2. CASE Len(f.stack) = StackLimit
  BY <1>2, HaltLeaves DEF push, Results
<1>3. CASE Len(f.stack) # StackLimit
  <2> DEFINE g == push(f, v)
             t == Append(f.stack, v)
  <2>1. t \in Seq(Words) /\ Len(t) = Len(f.stack) + 1
    BY <1>1, AppendProperties
  <2>2. g = [f EXCEPT !.stack = t]
    BY <1>3 DEF push
  <2> HIDE DEF t, g
  <2>3. g \in Frame /\ g.stack = t /\ g.memory = f.memory /\ g.gas = f.gas
        /\ g.is_static = f.is_static
    BY <1>1, <2>1, <2>2 DEF Frame
  <2>4. Price(g) = Price(f)
    BY <2>3 DEF Price
  <2> QED
    BY <1>1, <1>3, <2>1, <2>3, <2>4 DEF Good, Leaves, g
<1> QED
  BY <1>2, <1>3

\* The zeros memory grows by.
Zeros(n) == [i \in 1 .. n |-> 0]

LEMMA ZerosType ==
  ASSUME NEW n \in Nat
  PROVE  Zeros(n) \in Seq(Nat) /\ Len(Zeros(n)) = n /\ \A i \in 1 .. n : Zeros(n)[i] = 0
<1>1. Zeros(n) \in [1 .. n -> Nat]
  BY DEF Zeros
<1>2. Zeros(n) \in Seq(Nat)
  BY <1>1, SeqDef
<1>3. Len(Zeros(n)) = n
  BY <1>1, <1>2, LenProperties
<1> QED
  BY <1>2, <1>3 DEF Zeros

\* Memory covers the range, paid for, in whole words, as it was and zero beyond; or
\* the frame halts.
LEMMA ResizeLeaves ==
  ASSUME NEW f, Good(f), NEW offset \in Nat, NEW len \in Nat
  PROVE  LET g == resize_memory(f, offset, len)
         IN  /\ Leaves(f, g, 0) /\ g.result \in {"none", "MemoryOOG"}
             /\ g.result = "none" =>
                  /\ Good(g) /\ offset + len <= Len(g.memory) /\ Len(f.memory) <= Len(g.memory)
                  /\ \A i \in 1 .. Len(f.memory) : g.memory[i] = f.memory[i]
                  /\ \A i \in Len(f.memory) + 1 .. Len(g.memory) : g.memory[i] = 0
<1> DEFINE g    == resize_memory(f, offset, len)
           w    == WordBytes
           old  == num_words(Len(f.memory))
           new  == num_words(offset + len)
           c    == memory_gas(new) - memory_gas(old)
           paid == gas_or_fail(f, c)
<1>1. /\ f \in Frame /\ f.memory \in Seq(Nat) /\ Len(f.memory) \in Nat /\ f.gas \in Nat
      /\ Len(f.memory) % w = 0 /\ f.result = "none" /\ Price(f) \in Nat
  BY FrameType DEF Good
<1>2. w \in Nat \ {0} /\ old \in Nat /\ new \in Nat /\ new * w >= offset + len
  <2>1. offset + len \in Nat
    OBVIOUS
  <2>2. old \in Nat
    BY <1>1, NumWords
  <2>3. new \in Nat /\ new * w >= offset + len
    BY <2>1, NumWords
  <2> QED
    BY <2>2, <2>3, WidthAssumption
<1>3. Len(f.memory) = old * w
  BY <1>1, WholeWords
<1>4. CASE new <= old
  <2>1. g = f
    BY <1>4 DEF resize_memory
  <2>2. new * w <= old * w
    <3>1. \A x, y, z \in Nat : x <= y => x * z <= y * z
      BY SMT
    <3> QED
      BY <1>2, <1>4, <3>1
  <2>3. offset + len <= Len(f.memory)
    <3>1. new * w \in Nat
      BY <1>2
    <3> HIDE DEF new, w, old
    <3> QED
      BY <1>1, <1>2, <1>3, <2>2, <3>1
  <2>4. Leaves(f, f, 0)
    BY <1>1 DEF Leaves, Good
  <2> QED
    BY <1>1, <2>1, <2>3, <2>4
<1>5. CASE new > old
  <2>1. c \in Nat
    <3> HIDE DEF new, old
    <3>1. old <= new
      BY <1>2, <1>5
    <3>2. memory_gas(old) \in Nat /\ memory_gas(new) \in Nat /\ memory_gas(old) <= memory_gas(new)
      BY <1>2, <3>1, MemoryGas
    <3> QED
      BY <3>2
  <2>2. /\ Leaves(f, paid, c) /\ paid.result \in {"none", "OutOfGas"} /\ paid.memory = f.memory
        /\ paid.result = "none" => Good(paid) /\ f.gas - paid.gas = c
    BY <2>1, GasLeaves
  <2>3. CASE paid.result # "none"
    <3>1. g = halt(f, "MemoryOOG")
      BY <1>2, <1>5, <2>3 DEF resize_memory
    <3> QED
      BY <3>1, HaltLeaves DEF Results
  <2>4. CASE paid.result = "none"
    <3> DEFINE n == (new - old) * w
               m == f.memory \o Zeros(n)
    <3>1. n \in Nat /\ n + old * w = new * w
      <4>1. \A x, y, z \in Nat : x <= y => (y - x) * z \in Nat /\ (y - x) * z + x * z = y * z
        BY SMT
      <4> QED
        BY <1>2, <1>5, <4>1
    <3>2. /\ m \in Seq(Nat) /\ Len(m) = Len(f.memory) + n
          /\ \A i \in 1 .. Len(f.memory) + n :
               m[i] = IF i <= Len(f.memory) THEN f.memory[i] ELSE Zeros(n)[i - Len(f.memory)]
      <4>1. Zeros(n) \in Seq(Nat) /\ Len(Zeros(n)) = n
        BY <3>1, ZerosType
      <4> DEFINE z == Zeros(n)
                 fm == f.memory
      <4>2. fm \in Seq(Nat) /\ z \in Seq(Nat) /\ Len(z) = n
        BY <1>1, <4>1
      <4> HIDE DEF n, z, fm
      <4>3. /\ fm \o z \in Seq(Nat) /\ Len(fm \o z) = Len(fm) + Len(z)
            /\ \A i \in 1 .. Len(fm) + Len(z) :
                 (fm \o z)[i] = IF i <= Len(fm) THEN fm[i] ELSE z[i - Len(fm)]
        BY <4>2, ConcatProperties
      <4> QED
        BY <4>2, <4>3 DEF fm, z
    <3>3. g = [paid EXCEPT !.memory = m]
      <4>1. ~(new <= old)
        BY <1>2, <1>5
      <4>2. g = [paid EXCEPT !.memory = @ \o Zeros(n)]
        BY <2>4, <4>1 DEF resize_memory, Zeros
      <4> QED
        BY <2>2, <4>2
    <3>4. \A i \in Len(f.memory) + 1 .. Len(m) : m[i] = 0
      <4> HIDE DEF n
      <4> SUFFICES ASSUME NEW i \in Len(f.memory) + 1 .. Len(m) PROVE m[i] = 0
        OBVIOUS
      <4>1. i \in 1 .. Len(f.memory) + n /\ ~(i <= Len(f.memory)) /\ i - Len(f.memory) \in 1 .. n
        BY <1>1, <3>1, <3>2
      <4>2. m[i] = Zeros(n)[i - Len(f.memory)]
        BY <3>2, <4>1
      <4> QED
        BY <3>1, <4>1, <4>2, ZerosType
    <3>5. Len(m) = new * w
      <4>1. old * w \in Nat
        BY <1>2
      <4> HIDE DEF n, m, old, new, w
      <4> QED
        BY <1>3, <3>1, <3>2, <4>1
    <3>6. \A i \in 1 .. Len(f.memory) : m[i] = f.memory[i]
      <4>1. n \in Nat
        BY <3>1
      <4>2. Len(f.memory) \in Nat
        BY <1>1
      <4> HIDE DEF m, n
      <4>3. \A i \in 1 .. Len(f.memory) : i \in 1 .. Len(f.memory) + n /\ i <= Len(f.memory)
        BY <4>1, <4>2
      <4> QED
        BY <3>2, <4>3
    <3>7. paid \in Frame /\ paid.result = "none" /\ Len(paid.stack) <= StackLimit
          /\ paid.is_static = f.is_static /\ f.gas - paid.gas = c
      BY <2>2, <2>4 DEF Good, Leaves
    <3> HIDE DEF n, m, paid, g, c
    <3>8. /\ g \in Frame /\ g.memory = m /\ g.stack = paid.stack /\ g.gas = paid.gas
          /\ g.is_static = f.is_static /\ g.result = "none"
      BY <3>2, <3>3, <3>7 DEF Frame
    <3>9. num_words(Len(m)) = new /\ Len(m) % w = 0
      BY <1>2, <3>5, WordsOf
    <3>10. Price(g) - Price(f) = c
      BY <3>8, <3>9 DEF Price, c
    <3>11. Good(g) /\ Leaves(f, g, 0)
      <4>1. c \in Int /\ Price(g) \in Int
        BY <2>1, <3>8, FrameType
      <4> QED
        BY <1>1, <3>7, <3>8, <3>9, <3>10, <4>1 DEF Good, Leaves
    <3>12. offset + len <= Len(m) /\ Len(f.memory) <= Len(m)
      <4>1. new * w \in Nat
        BY <1>2
      <4> HIDE DEF new, old, w
      <4> QED
        BY <1>1, <1>2, <3>1, <3>2, <3>5, <4>1
    <3> QED
      BY <3>4, <3>6, <3>8, <3>11, <3>12 DEF g
  <2> QED
    BY <2>3, <2>4
<1> QED
  BY <1>2, <1>4, <1>5

-----------------------------------------------------------------------------
(***************************************************************************)
(* MCOPY.                                                                  *)
(***************************************************************************)
\* A copy within memory keeps its length, and moves bytes.
LEMMA CopyLeaves ==
  ASSUME NEW f, Good(f), NEW dst \in Nat, NEW src \in Nat, NEW len \in Nat,
         src + len <= Len(f.memory)
  PROVE  LET g == memory_copy(f, dst, src, len)
         IN  /\ Good(g) /\ g.gas = f.gas /\ g.is_static = f.is_static /\ Price(g) = Price(f)
             /\ Len(g.memory) = Len(f.memory)
             /\ \A i \in 0 .. Len(f.memory) - 1 :
                  g.memory[i + 1] = f.memory[(IF i \in dst .. dst + len - 1 THEN i - dst + src ELSE i) + 1]
<1> DEFINE g == memory_copy(f, dst, src, len)
           m == f.memory
           n == [i \in DOMAIN m |-> IF i - 1 \in dst .. dst + len - 1 THEN m[i - dst + src] ELSE m[i]]
<1>1. f \in Frame /\ m \in Seq(Nat) /\ Len(m) \in Nat /\ DOMAIN m = 1 .. Len(m)
  <2>1. f \in Frame /\ m \in Seq(Nat)
    BY FrameType DEF Good
  <2> QED
    BY <2>1, LenProperties
<1>2. g = [f EXCEPT !.memory = n]
  BY DEF memory_copy
<1>3. \A i \in 1 .. Len(m) : m[i] \in Nat
  BY <1>1, ElementOfSeq
<1>4. n \in [1 .. Len(m) -> Nat]
  <2> SUFFICES ASSUME NEW i \in 1 .. Len(m), i - 1 \in dst .. dst + len - 1
               PROVE  i - dst + src \in 1 .. Len(m)
    BY <1>1, <1>3
  <2>1. src + len <= Len(m) /\ i \in Nat
    OBVIOUS
  <2> HIDE DEF m
  <2> QED
    BY <1>1, <2>1
<1>5. n \in Seq(Nat) /\ Len(n) = Len(m)
  <2>1. n \in Seq(Nat)
    BY <1>1, <1>4, SeqDef
  <2>2. DOMAIN n = 1 .. Len(n) /\ DOMAIN n = 1 .. Len(m) /\ Len(n) \in Nat
    BY <1>4, <2>1, LenProperties
  <2> QED
    BY <1>1, <2>1, <2>2
<1>6. \A i \in 0 .. Len(m) - 1 :
        n[i + 1] = m[(IF i \in dst .. dst + len - 1 THEN i - dst + src ELSE i) + 1]
  <2> SUFFICES ASSUME NEW i \in 0 .. Len(m) - 1
               PROVE  n[i + 1] = m[(IF i \in dst .. dst + len - 1 THEN i - dst + src ELSE i) + 1]
    OBVIOUS
  <2>1. i + 1 \in DOMAIN m /\ (i + 1) - 1 = i /\ (i + 1) - dst + src = (i - dst + src) + 1
    <3> HIDE DEF m
    <3> QED
      BY <1>1
  <2>2. n[i + 1] = IF (i + 1) - 1 \in dst .. dst + len - 1 THEN m[(i + 1) - dst + src] ELSE m[i + 1]
    BY <2>1
  <2> QED
    BY <2>1, <2>2
<1> HIDE DEF n, g
<1>7. /\ g \in Frame /\ g.memory = n /\ g.stack = f.stack /\ g.gas = f.gas
      /\ g.is_static = f.is_static /\ g.result = f.result
  BY <1>1, <1>2, <1>5 DEF Frame
<1>8. Good(g) /\ Price(g) = Price(f)
  BY <1>5, <1>7 DEF Good, Price
<1> QED
  BY <1>5, <1>6, <1>7, <1>8 DEF g

\* MCOPY with its operands popped.
LEMMA McopyOf ==
  ASSUME NEW f, Good(f), NEW dst \in Nat, NEW src \in Nat, NEW len \in Nat
  PROVE  LET g == mcopy_of(f, [dst |-> dst, src |-> src, len |-> len])
         IN  /\ Leaves(f, g, 3 + 3 * num_words(len))
             /\ g.result = "none" =>
                  \A i \in 0 .. Len(g.memory) - 1 :
                    ByteAt(g.memory, i) =
                      ByteAt(f.memory, IF i \in dst .. dst + len - 1 THEN i - dst + src ELSE i)
<1> DEFINE o       == [dst |-> dst, src |-> src, len |-> len]
           g       == mcopy_of(f, o)
           cost    == 3 + 3 * num_words(len)
           paid    == gas_or_fail(f, cost)
           end     == mcopy_end(dst, src)
           resized == resize_memory(paid, end, len)
           j(i)    == IF i \in dst .. dst + len - 1 THEN i - dst + src ELSE i
           Moved   == g.result = "none" =>
                        \A i \in 0 .. Len(g.memory) - 1 : ByteAt(g.memory, i) = ByteAt(f.memory, j(i))
<1>1. dst \in Nat /\ src \in Nat /\ len \in Nat /\ UsizeMax \in Nat
  BY WidthAssumption
<1>2. cost \in Nat /\ mcopy_cost(len) = cost
  BY <1>1, NumWords DEF mcopy_cost, copy_cost_verylow
<1>3. /\ Leaves(f, paid, cost) /\ paid.result \in {"none", "OutOfGas"} /\ paid.memory = f.memory
      /\ paid.result = "none" => Good(paid) /\ f.gas - paid.gas = cost
  BY <1>2, GasLeaves
<1>4. f \in Frame /\ f.gas \in Nat /\ Price(f) \in Nat /\ f.result = "none"
      /\ f.memory \in Seq(Nat) /\ Len(f.memory) \in Nat
  BY FrameType DEF Good
<1>5. CASE len > UsizeMax
  <2>1. g = halt(f, "InvalidOperandOOG")
    BY <1>5 DEF mcopy_of
  <2> QED
    BY <2>1, HaltLeaves DEF Results
<1>6. CASE len <= UsizeMax /\ paid.result # "none"
  <2>1. g = paid
    BY <1>1, <1>2, <1>6 DEF mcopy_of
  <2> QED
    BY <1>3, <1>6, <2>1
<1>7. CASE len <= UsizeMax /\ paid.result = "none" /\ len = 0
  <2>1. g = paid
    BY <1>1, <1>2, <1>7 DEF mcopy_of
  <2>2. \A i \in Int : i \notin dst .. dst + len - 1
    BY <1>1, <1>7
  <2>3. \A i \in 0 .. Len(f.memory) - 1 : j(i) = i
    BY <1>4, <2>2
  <2> QED
    BY <1>3, <2>1, <2>3
<1>8. CASE len <= UsizeMax /\ paid.result = "none" /\ len # 0 /\ (dst > UsizeMax \/ src > UsizeMax)
  <2>1. g = halt(paid, "InvalidOperandOOG")
    BY <1>1, <1>2, <1>8 DEF mcopy_of
  <2>2. Leaves(paid, g, 0) /\ g.result # "none"
    BY <1>3, <1>8, <2>1, HaltLeaves DEF Results
  <2> QED
    BY <1>3, <2>2 DEF Leaves
<1>9. CASE len <= UsizeMax /\ paid.result = "none" /\ len # 0 /\ dst <= UsizeMax /\ src <= UsizeMax
  <2>1. end \in Nat /\ end >= src /\ end >= dst
    BY <1>1 DEF mcopy_end
  <2>2. Good(paid) /\ f.gas - paid.gas = cost
    BY <1>3, <1>9
  <2> HIDE DEF paid, end
  <2>3. /\ Leaves(paid, resized, 0) /\ resized.result \in {"none", "MemoryOOG"}
        /\ resized.result = "none" =>
             /\ Good(resized) /\ end + len <= Len(resized.memory)
             /\ Len(paid.memory) <= Len(resized.memory)
             /\ \A i \in 1 .. Len(paid.memory) : resized.memory[i] = paid.memory[i]
             /\ \A i \in Len(paid.memory) + 1 .. Len(resized.memory) : resized.memory[i] = 0
    BY <1>1, <2>1, <2>2, ResizeLeaves
  <2>4. CASE resized.result # "none"
    <3>1. g = resized
      BY <1>1, <1>2, <1>9, <2>4 DEF mcopy_of, paid, end
    <3> QED
      BY <1>3, <2>3, <2>4, <3>1 DEF Leaves
  <2>5. CASE resized.result = "none"
    <3> DEFINE r == resized.memory
    <3>1. Good(resized) /\ end + len <= Len(r) /\ Len(r) \in Nat /\ resized.gas \in Nat
          /\ Price(resized) \in Nat
      BY <2>3, <2>5, FrameType DEF Good
    <3>2. src + len <= Len(r) /\ dst + len <= Len(r)
      <4> HIDE DEF r
      <4> QED
        BY <1>1, <2>1, <3>1
    <3>3. g = memory_copy(resized, dst, src, len)
      <4>1. ~(src + len > Len(r))
        BY <1>1, <3>1, <3>2
      <4> QED
        BY <1>1, <1>2, <1>9, <2>5, <4>1 DEF mcopy_of, paid, end
    <3>4. /\ Good(g) /\ g.gas = resized.gas /\ g.is_static = resized.is_static
          /\ Price(g) = Price(resized) /\ Len(g.memory) = Len(r)
          /\ \A i \in 0 .. Len(r) - 1 : g.memory[i + 1] = r[j(i) + 1]
      <4> HIDE DEF resized
      <4>1. src + len <= Len(resized.memory)
        BY <3>2
      <4>2. /\ Good(memory_copy(resized, dst, src, len))
            /\ memory_copy(resized, dst, src, len).gas = resized.gas
            /\ memory_copy(resized, dst, src, len).is_static = resized.is_static
            /\ Price(memory_copy(resized, dst, src, len)) = Price(resized)
            /\ Len(memory_copy(resized, dst, src, len).memory) = Len(resized.memory)
            /\ \A i \in 0 .. Len(resized.memory) - 1 :
                 memory_copy(resized, dst, src, len).memory[i + 1] =
                   resized.memory[(IF i \in dst .. dst + len - 1 THEN i - dst + src ELSE i) + 1]
        BY <3>1, <4>1, CopyLeaves
      <4> HIDE DEF j
      <4>3. \A i : (IF i \in dst .. dst + len - 1 THEN i - dst + src ELSE i) = j(i)
        BY DEF j
      <4> QED
        BY <3>3, <4>2, <4>3
    <3> HIDE DEF resized, g
    <3>5. Leaves(f, g, cost)
      <4>1. paid.gas - resized.gas = Price(resized) - Price(paid)
        <5>1. paid.gas - resized.gas = 0 + Price(resized) - Price(paid)
          BY <2>3, <2>5 DEF Leaves
        <5>2. Price(resized) \in Int /\ Price(paid) \in Int
          BY <1>3, <2>2, <3>1, FrameType DEF Good
        <5> QED
          BY <5>1, <5>2
      <4>2. Price(paid) = Price(f) /\ paid.gas \in Nat
        BY <1>3, <2>2, FrameType DEF Price, Good, paid
      <4>3. f.gas - g.gas = cost + Price(g) - Price(f)
        <5>1. g.gas = resized.gas /\ Price(g) = Price(resized)
          BY <3>4
        <5>2. /\ cost \in Int /\ Price(f) \in Int /\ Price(resized) \in Int
              /\ f.gas \in Int /\ paid.gas \in Int /\ resized.gas \in Int
          BY <1>2, <1>4, <3>1, <4>2
        <5>3. f.gas - paid.gas = cost
          BY <2>2
        <5> HIDE DEF cost
        <5> QED
          BY <4>1, <4>2, <5>1, <5>2, <5>3
      <4>4. g.is_static = f.is_static
        BY <1>3, <2>3, <3>4 DEF Leaves, paid
      <4> QED
        BY <3>4, <4>3, <4>4 DEF Leaves, Good
    <3>6. \A i \in 0 .. Len(r) - 1 : j(i) \in 0 .. Len(r) - 1
      <4> HIDE DEF r
      <4> QED
        BY <1>1, <3>1, <3>2
    <3>7. \A k \in 0 .. Len(r) - 1 : r[k + 1] = ByteAt(f.memory, k)
      <4>1. /\ Len(f.memory) <= Len(r)
            /\ \A i \in 1 .. Len(f.memory) : r[i] = f.memory[i]
            /\ \A i \in Len(f.memory) + 1 .. Len(r) : r[i] = 0
        BY <1>3, <2>3, <2>5 DEF paid
      <4> HIDE DEF r
      <4> SUFFICES ASSUME NEW k \in 0 .. Len(r) - 1 PROVE r[k + 1] = ByteAt(f.memory, k)
        OBVIOUS
      <4>2. CASE k < Len(f.memory)
        <5>1. k + 1 \in 1 .. Len(f.memory)
          BY <1>4, <3>1, <4>2
        <5> QED
          BY <4>1, <4>2, <5>1 DEF ByteAt
      <4>3. CASE ~(k < Len(f.memory))
        <5>1. k + 1 \in Len(f.memory) + 1 .. Len(r)
          BY <1>4, <3>1, <4>3
        <5> QED
          BY <4>1, <4>3, <5>1 DEF ByteAt
      <4> QED
        BY <4>2, <4>3
    <3>8. \A i \in 0 .. Len(g.memory) - 1 : ByteAt(g.memory, i) = ByteAt(f.memory, j(i))
      <4> HIDE DEF r, j
      <4> SUFFICES ASSUME NEW i \in 0 .. Len(r) - 1 PROVE ByteAt(g.memory, i) = ByteAt(f.memory, j(i))
        BY <3>4
      <4>1. ByteAt(g.memory, i) = g.memory[i + 1]
        BY <3>1, <3>4 DEF ByteAt
      <4> QED
        BY <3>4, <3>6, <3>7, <4>1
    <3> QED
      BY <3>5, <3>8 DEF g
  <2> QED
    BY <2>4, <2>5
<1> QED
  BY <1>1, <1>5, <1>6, <1>7, <1>8, <1>9

\* MCOPY runs from Curie on, for what it is worth, and moves the bytes.
LEMMA McopyLeaves ==
  ASSUME NEW f, Good(f), spec \in Specs
  PROVE  LET g   == mcopy(f)
             dst == Top(f, 1)
             src == Top(f, 2)
             len == Top(f, 3)
         IN  /\ Leaves(f, g, 3 + 3 * num_words(len))
             /\ g.result = "none" =>
                  /\ spec >= CURIE /\ len \in Nat
                  /\ \A i \in 0 .. Len(g.memory) - 1 :
                       ByteAt(g.memory, i) =
                         ByteAt(f.memory, IF i \in dst .. dst + len - 1 THEN i - dst + src ELSE i)
<1> DEFINE g   == mcopy(f)
           dst == Top(f, 1)
           src == Top(f, 2)
           len == Top(f, 3)
           h   == Drop(f, 3)
<1>1. CASE ~is_enabled_in(spec, CURIE)
  BY <1>1, HaltLeaves DEF mcopy, NotActivated, Results
<1>2. CASE is_enabled_in(spec, CURIE) /\ ~Pops(f, 3)
  BY <1>2, HaltLeaves DEF mcopy, Underflow, Results
<1>3. CASE is_enabled_in(spec, CURIE) /\ Pops(f, 3)
  <2>1. g = mcopy_of(h, [dst |-> dst, src |-> src, len |-> len])
    BY <1>3 DEF mcopy, mcopy_operands
  <2>2. /\ Good(h) /\ h.memory = f.memory /\ h.gas = f.gas /\ h.is_static = f.is_static
        /\ dst \in Words /\ src \in Words /\ len \in Words
    BY <1>3, DropLeaves
  <2>3. dst \in Nat /\ src \in Nat /\ len \in Nat
    BY <2>2, WordsPushed
  <2> HIDE DEF g, h, dst, src, len
  <2>4. /\ Leaves(h, g, 3 + 3 * num_words(len))
        /\ g.result = "none" =>
             \A i \in 0 .. Len(g.memory) - 1 :
               ByteAt(g.memory, i) =
                 ByteAt(h.memory, IF i \in dst .. dst + len - 1 THEN i - dst + src ELSE i)
    BY <2>1, <2>2, <2>3, McopyOf
  <2>5. Leaves(f, g, 3 + 3 * num_words(len))
    BY <2>2, <2>4 DEF Leaves, Price
  <2>6. spec >= CURIE
    BY <1>3 DEF is_enabled_in
  <2> QED
    BY <2>2, <2>3, <2>4, <2>5, <2>6 DEF g, dst, src, len
<1> QED
  BY <1>1, <1>2, <1>3

-----------------------------------------------------------------------------
(***************************************************************************)
(* Every instruction.                                                      *)
(***************************************************************************)
\* The static gas is a number.
LEMMA StaticGas ==
  ASSUME NEW op \in Opcodes
  PROVE  static_gas(op) \in Nat
  BY DEF Opcodes, static_gas

\* An instruction charges what it is worth beyond its static gas, and runs to its end
\* only in the forks that have it; TSTORE only with its operands and outside of
\* static frames.
LEMMA InstructionLeaves ==
  ASSUME NEW op \in Opcodes, NEW f, Good(f), spec \in Specs, transient \in [Words -> Words]
  PROVE  LET g == instruction(op, f)
         IN  /\ Leaves(f, g, Worth(op, f) - static_gas(op))
             /\ g.result = "none" => spec \in ActiveIn(op)
             /\ g.result = "none" /\ op = "TSTORE" => ~f.is_static /\ spec >= CURIE /\ Pops(f, 2)
             /\ g.result = "none" /\ op = "MCOPY" => Top(f, 3) \in Nat
<1> DEFINE g == instruction(op, f)
<1>0. /\ spec >= CURIE => spec \in CURIE .. GALILEO
      /\ spec >= GALILEO => spec \in {GALILEO}
      /\ ~(into_eth_spec_id(spec) >= ETH_CANCUN)
  BY DEF Specs, SHANGHAI, CURIE, GALILEO, into_eth_spec_id, ETH_SHANGHAI, ETH_CANCUN
<1>1. CASE op = "BASEFEE"
  <2>1. g = basefee(f) /\ Worth(op, f) - static_gas(op) = 0
    BY <1>1 DEF instruction, Worth, static_gas
  <2>2. CASE is_enabled_in(spec, CURIE)
    <3>1. g = push(f, BaseFee) /\ spec \in ActiveIn(op)
      BY <1>0, <1>1, <2>1, <2>2 DEF basefee, is_enabled_in, ActiveIn
    <3> QED
      BY <1>1, <2>1, <3>1, PushLeaves, WordsPushed
  <2>3. CASE ~is_enabled_in(spec, CURIE)
    BY <2>1, <2>3, HaltLeaves DEF basefee, NotActivated, Results
  <2> QED
    BY <2>2, <2>3
<1>2. CASE op = "TSTORE"
  <2>1. g = tstore(f).frame /\ Worth(op, f) - static_gas(op) = 0
    BY <1>2 DEF instruction, Worth, static_gas
  <2>2. CASE is_enabled_in(spec, CURIE) /\ may_store(f) /\ Pops(f, 2)
    <3>1. g = Drop(f, 2) /\ spec \in ActiveIn(op) /\ spec >= CURIE /\ ~f.is_static
      BY <1>0, <1>2, <2>1, <2>2 DEF tstore, Kept, may_store, is_enabled_in, ActiveIn
    <3>2. /\ Good(Drop(f, 2)) /\ Drop(f, 2).memory = f.memory /\ Drop(f, 2).gas = f.gas
          /\ Drop(f, 2).is_static = f.is_static
      BY <2>2, DropLeaves
    <3>3. f.gas \in Nat /\ Price(f) \in Nat
      BY FrameType DEF Good
    <3>4. Price(Drop(f, 2)) = Price(f)
      BY <3>2 DEF Price
    <3>5. Leaves(f, Drop(f, 2), 0)
      BY <3>2, <3>3, <3>4 DEF Leaves, Good
    <3> QED
      BY <1>2, <2>1, <2>2, <3>1, <3>5
  <2>3. CASE ~(is_enabled_in(spec, CURIE) /\ may_store(f) /\ Pops(f, 2))
    <3>1. \E r \in Results \ {"none"} : g = halt(f, r)
      BY <2>1, <2>3 DEF tstore, Kept, NotActivated, Underflow, Results
    <3> QED
      BY <1>2, <3>1, HaltLeaves
  <2> QED
    BY <2>2, <2>3
<1>3. CASE op = "TLOAD"
  <2>1. g = tload(f) /\ Worth(op, f) - static_gas(op) = 0
    BY <1>3 DEF instruction, Worth, static_gas
  <2>2. CASE is_enabled_in(spec, CURIE) /\ Pops(f, 1)
    <3>1. g = push(Drop(f, 1), transient[Top(f, 1)]) /\ spec \in ActiveIn(op)
      BY <1>0, <1>3, <2>1, <2>2 DEF tload, is_enabled_in, ActiveIn
    <3>2. transient[Top(f, 1)] \in Words
      BY <2>2, DropLeaves
    <3>3. Leaves(f, g, 0)
      BY <2>2, <3>1, <3>2, DropLeaves, PushLeaves DEF Leaves, Price
    <3> QED
      BY <1>3, <2>1, <3>1, <3>3
  <2>3. CASE ~(is_enabled_in(spec, CURIE) /\ Pops(f, 1))
    <3>1. \E r \in Results \ {"none"} : g = halt(f, r)
      BY <2>1, <2>3 DEF tload, NotActivated, Underflow, Results
    <3> QED
      BY <1>3, <3>1, HaltLeaves
  <2> QED
    BY <2>2, <2>3
<1>4. CASE op = "SELFDESTRUCT"
  <2>1. g = halt(f, "NotActivated")
    BY <1>4 DEF instruction, selfdestruct, NotActivated
  <2> QED
    BY <1>4, <2>1, HaltLeaves DEF Results
<1>5. CASE op = "MCOPY"
  <2>1. g = mcopy(f) /\ Worth(op, f) = 3 + 3 * num_words(Top(f, 3)) /\ static_gas(op) = 0
    BY <1>5 DEF instruction, Worth, static_gas
  <2>2. /\ Leaves(f, g, 3 + 3 * num_words(Top(f, 3)))
        /\ g.result = "none" => spec >= CURIE /\ Top(f, 3) \in Nat
    BY <2>1, McopyLeaves
  <2>3. CASE g.result # "none"
    BY <1>5, <2>2, <2>3 DEF Leaves
  <2>4. CASE g.result = "none"
    <3>1. Top(f, 3) \in Nat /\ spec \in ActiveIn(op)
      BY <1>0, <1>5, <2>2, <2>4 DEF ActiveIn
    <3>2. num_words(Top(f, 3)) \in Nat
      BY <3>1, NumWords
    <3>3. Worth(op, f) - static_gas(op) = 3 + 3 * num_words(Top(f, 3))
      BY <2>1, <3>2
    <3> QED
      BY <1>5, <2>2, <3>1, <3>3
  <2> QED
    BY <2>3, <2>4
<1>6. CASE op = "DIFFICULTY"
  <2>1. g = push(f, DIFFICULTY) /\ Worth(op, f) - static_gas(op) = 0 /\ spec \in ActiveIn(op)
    BY <1>6 DEF instruction, difficulty, Worth, static_gas, ActiveIn
  <2> QED
    BY <1>6, <2>1, PushLeaves, WordsPushed
<1>7. CASE op = "CLZ"
  <2>1. g = clz(f) /\ Worth(op, f) - static_gas(op) = 0
    BY <1>7 DEF instruction, Worth, static_gas
  <2>2. CASE is_enabled_in(spec, clz_activation) /\ Pops(f, 1)
    <3>1. g = push(Drop(f, 1), leading_zeros(Top(f, 1))) /\ spec \in ActiveIn(op)
      BY <1>0, <1>7, <2>1, <2>2 DEF clz, clz_activation, is_enabled_in, ActiveIn
    <3>2. leading_zeros(Top(f, 1)) \in Words
      BY <2>2, DropLeaves, LeadingZeros
    <3>3. Leaves(f, g, 0)
      BY <2>2, <3>1, <3>2, DropLeaves, PushLeaves DEF Leaves, Price
    <3> QED
      BY <1>7, <2>1, <3>1, <3>3
  <2>3. CASE ~(is_enabled_in(spec, clz_activation) /\ Pops(f, 1))
    <3>1. \E r \in Results \ {"none"} : g = halt(f, r)
      BY <2>1, <2>3 DEF clz, NotActivated, Underflow, Results
    <3> QED
      BY <1>7, <3>1, HaltLeaves
  <2> QED
    BY <2>2, <2>3
<1>8. CASE op = "BLOBHASH"
  <2>1. g = halt(f, "NotActivated")
    BY <1>0, <1>8 DEF instruction, blobhash, NotActivated
  <2> QED
    BY <1>8, <2>1, HaltLeaves DEF Results
<1> QED
  BY <1>1, <1>2, <1>3, <1>4, <1>5, <1>6, <1>7, <1>8 DEF Opcodes

-----------------------------------------------------------------------------
(***************************************************************************)
(* The inductive invariant.                                                *)
(***************************************************************************)
IndInv ==
  /\ TypeOK /\ OnlyActiveOpcodesRun /\ GasIsExact /\ TransientIsGuarded
  /\ frame.is_static = start.is_static

\* TSTORE stores its word if it runs to its end, and nothing otherwise.
LEMMA TstoreStores ==
  ASSUME NEW f, Good(f)
  PROVE  tstore(f).transient = IF tstore(f).frame.result = "none" THEN Stored(f) ELSE transient
<1>1. CASE is_enabled_in(spec, CURIE) /\ may_store(f) /\ Pops(f, 2)
  <2>1. tstore(f).frame = Drop(f, 2) /\ tstore(f).transient = Stored(f)
    BY <1>1 DEF tstore
  <2>2. Good(Drop(f, 2))
    BY <1>1, DropLeaves
  <2> QED
    BY <2>1, <2>2 DEF Good
<1>2. CASE ~(is_enabled_in(spec, CURIE) /\ may_store(f) /\ Pops(f, 2))
  <2>1. PICK r \in Results \ {"none"} : tstore(f) = Kept(halt(f, r))
    BY <1>2 DEF tstore, NotActivated, Underflow, Results
  <2>2. halt(f, r).result = r
    BY DEF halt, Good, Frame
  <2> QED
    BY <2>1, <2>2 DEF Kept
<1> QED
  BY <1>1, <1>2

\* A frame that starts is in order.
LEMMA StartIsGood ==
  ASSUME NEW f \in Frames
  PROVE  Good(f)
  BY FrameAssumption DEF Good

\* What a transaction starts with satisfies the invariant.
LEMMA FreshInv ==
  ASSUME spec \in Specs, start \in Frames, frame = start,
         transient = [k \in Words |-> 0], work = 0, ran = << >>
  PROVE  IndInv
<1>1. Good(start) /\ Price(start) \in Nat /\ start.gas \in Nat
  BY StartIsGood, FrameType DEF Good
<1>2. 0 \in Words
  BY WordsPushed DEF DIFFICULTY
<1>3. TypeOK
  BY <1>1, <1>2 DEF TypeOK, Good
<1>4. GasIsExact
  BY <1>1 DEF GasIsExact, Price
<1>5. OnlyActiveOpcodesRun /\ TransientIsGuarded
  BY DEF OnlyActiveOpcodesRun, TransientIsGuarded
<1> QED
  BY <1>3, <1>4, <1>5 DEF IndInv

\* The gas charged for an instruction leaves its operands and its worth.
LEMMA ChargedLeaves ==
  ASSUME NEW op \in Opcodes, Good(frame)
  PROVE  LET charged == gas_or_fail(frame, static_gas(op))
         IN  /\ Leaves(frame, charged, static_gas(op))
             /\ charged.memory = frame.memory /\ charged.stack = frame.stack
             /\ charged.is_static = frame.is_static
             /\ Worth(op, charged) = Worth(op, frame)
             /\ Price(charged) = Price(frame)
             /\ charged.result = "none" =>
                  Good(charged) /\ frame.gas - charged.gas = static_gas(op)
<1> DEFINE charged == gas_or_fail(frame, static_gas(op))
<1>1. /\ Leaves(frame, charged, static_gas(op))
      /\ charged.stack = frame.stack /\ charged.memory = frame.memory
      /\ charged.result = "none" => Good(charged) /\ frame.gas - charged.gas = static_gas(op)
  BY StaticGas, GasLeaves
<1> HIDE DEF charged
<1>2. Worth(op, charged) = Worth(op, frame) /\ Price(charged) = Price(frame)
  BY <1>1 DEF Worth, Top, Price
<1>3. charged.is_static = frame.is_static
  BY <1>1 DEF Leaves
<1> QED
  BY <1>1, <1>2, <1>3 DEF charged

\* One instruction keeps the invariant.
LEMMA StepInv ==
  ASSUME IndInv, NEW op \in Opcodes, Step(op)
  PROVE  IndInv'
<1> DEFINE charged == gas_or_fail(frame, static_gas(op))
           after   == IF charged.result = "none" THEN instruction(op, charged) ELSE charged
<1>1. /\ spec \in Specs /\ start \in Frames /\ transient \in [Words -> Words]
      /\ ran \in Seq(Opcodes) /\ work \in Nat /\ Good(frame)
      /\ frame.is_static = start.is_static
  BY DEF IndInv, TypeOK, Step, Good
<1>2. /\ frame' = after /\ UNCHANGED <<spec, start>>
      /\ transient' = IF op = "TSTORE" /\ charged.result = "none"
                      THEN tstore(charged).transient ELSE transient
      /\ IF after.result = "none"
         THEN ran' = Append(ran, op) /\ work' = work + Worth(op, frame)
         ELSE UNCHANGED <<ran, work>>
  BY DEF Step
<1>3. /\ Leaves(frame, charged, static_gas(op))
      /\ charged.memory = frame.memory /\ charged.stack = frame.stack
      /\ charged.is_static = frame.is_static
      /\ Worth(op, charged) = Worth(op, frame) /\ Price(charged) = Price(frame)
      /\ charged.result = "none" => Good(charged) /\ frame.gas - charged.gas = static_gas(op)
  BY <1>1, ChargedLeaves
<1>4. charged.result = "none" =>
        /\ Leaves(charged, after, Worth(op, charged) - static_gas(op))
        /\ after.result = "none" => spec \in ActiveIn(op)
        /\ after.result = "none" /\ op = "TSTORE" =>
             ~charged.is_static /\ spec >= CURIE /\ Pops(charged, 2)
        /\ after.result = "none" /\ op = "MCOPY" => Top(charged, 3) \in Nat
  <2> SUFFICES ASSUME charged.result = "none" PROVE
        /\ Leaves(charged, instruction(op, charged), Worth(op, charged) - static_gas(op))
        /\ instruction(op, charged).result = "none" => spec \in ActiveIn(op)
        /\ instruction(op, charged).result = "none" /\ op = "TSTORE" =>
             ~charged.is_static /\ spec >= CURIE /\ Pops(charged, 2)
        /\ instruction(op, charged).result = "none" /\ op = "MCOPY" => Top(charged, 3) \in Nat
    OBVIOUS
  <2> HIDE DEF charged
  <2> QED
    BY <1>1, <1>3, InstructionLeaves
<1>5. charged.result # "none" => after = charged
  OBVIOUS
<1>13. op = "TSTORE" /\ charged.result = "none" => after = tstore(charged).frame
  BY DEF instruction
<1> HIDE DEF charged, after
<1>14. transient' = IF op = "TSTORE" /\ after.result = "none"
                    THEN [transient EXCEPT ![Top(frame, 1)] = Top(frame, 2)] ELSE transient
  <2>1. CASE op = "TSTORE" /\ charged.result = "none"
    <3>1. Good(charged) /\ charged.stack = frame.stack
      BY <1>3, <2>1
    <3>2. Stored(charged) = [transient EXCEPT ![Top(frame, 1)] = Top(frame, 2)]
      BY <3>1 DEF Stored, Top
    <3> QED
      BY <1>2, <1>13, <2>1, <3>1, <3>2, TstoreStores
  <2>2. CASE ~(op = "TSTORE" /\ charged.result = "none")
    BY <1>2, <1>5, <2>2
  <2> QED
    BY <2>1, <2>2
<1>6. /\ after \in Frame /\ after.is_static = start.is_static
      /\ Len(after.stack) <= StackLimit /\ Len(after.memory) % WordBytes = 0
  BY <1>1, <1>3, <1>4, <1>5 DEF Leaves
<1>7. after.result = "none" => charged.result = "none"
  BY <1>5
<1>8. after.result = "none" => Worth(op, frame) \in Nat
  <2> SUFFICES ASSUME after.result = "none" PROVE Worth(op, frame) \in Nat
    OBVIOUS
  <2>1. CASE op = "MCOPY"
    <3>1. Top(frame, 3) \in Nat
      BY <1>3, <1>4, <1>7, <2>1 DEF Top
    <3>2. num_words(Top(frame, 3)) \in Nat
      BY <3>1, NumWords
    <3> QED
      BY <2>1, <3>2 DEF Worth
  <2>2. CASE op # "MCOPY"
    BY <2>2, StaticGas DEF Worth
  <2> QED
    BY <2>1, <2>2
<1>9. TypeOK'
  <2>1. transient' \in [Words -> Words]
    <3>1. CASE op = "TSTORE" /\ after.result = "none"
      <4>1. Pops(frame, 2)
        BY <1>3, <1>4, <1>7, <3>1 DEF Pops
      <4>2. Top(frame, 1) \in Words /\ Top(frame, 2) \in Words
        BY <1>1, <4>1, DropLeaves
      <4> QED
        BY <1>1, <1>14, <3>1, <4>2
    <3> QED
      BY <1>1, <1>14, <3>1
  <2>2. ran' \in Seq(Opcodes) /\ work' \in Nat
    <3>1. Append(ran, op) \in Seq(Opcodes)
      BY <1>1, AppendProperties
    <3>2. CASE after.result = "none"
      <4>1. ran' = Append(ran, op) /\ work' = work + Worth(op, frame)
        BY <1>2, <3>2
      <4>2. work \in Nat /\ Worth(op, frame) \in Nat
        BY <1>1, <1>8, <3>2
      <4> QED
        BY <3>1, <4>1, <4>2
    <3>3. CASE after.result # "none"
      BY <1>1, <1>2, <3>3
    <3> QED
      BY <3>2, <3>3
  <2> QED
    BY <1>1, <1>2, <1>6, <2>1, <2>2 DEF TypeOK
<1>10. OnlyActiveOpcodesRun'
  <2>1. CASE after.result = "none"
    <3>1. spec \in ActiveIn(op) /\ ran' = Append(ran, op) /\ spec' = spec
      BY <1>2, <1>4, <1>7, <2>1
    <3>2. /\ Len(ran) \in Nat /\ Len(ran') = Len(ran) + 1 /\ DOMAIN ran = 1 .. Len(ran)
          /\ DOMAIN ran' = 1 .. Len(ran')
          /\ \A i \in 1 .. Len(ran) : ran'[i] = ran[i]
          /\ ran'[Len(ran) + 1] = op
      BY <1>1, <3>1, AppendProperties, LenProperties
    <3>3. \A i \in 1 .. Len(ran) : spec \in ActiveIn(ran[i])
      BY <3>2 DEF IndInv, OnlyActiveOpcodesRun
    <3>4. \A i \in DOMAIN ran' : spec' \in ActiveIn(ran'[i])
      <4> SUFFICES ASSUME NEW i \in DOMAIN ran' PROVE spec' \in ActiveIn(ran'[i])
        OBVIOUS
      <4>1. i \in 1 .. Len(ran) \/ i = Len(ran) + 1
        BY <3>2
      <4>2. CASE i \in 1 .. Len(ran)
        BY <3>1, <3>2, <3>3, <4>2
      <4>3. CASE i = Len(ran) + 1
        BY <3>1, <3>2, <4>3
      <4> QED
        BY <4>1, <4>2, <4>3
    <3> QED
      BY <3>4 DEF OnlyActiveOpcodesRun, ActiveIn
  <2>2. CASE after.result # "none"
    BY <1>2, <2>2 DEF IndInv, OnlyActiveOpcodesRun, ActiveIn
  <2> QED
    BY <2>1, <2>2
<1>11. GasIsExact'
  <2>1. CASE after.result # "none"
    BY <1>2, <2>1 DEF GasIsExact
  <2>2. CASE after.result = "none"
    <3>1. start.gas - frame.gas = work + Price(frame) - Price(start)
      BY <1>1 DEF IndInv, GasIsExact, Good, Price
    <3>2. frame.gas - charged.gas = static_gas(op) /\ Good(charged)
      BY <1>3, <1>7, <2>2
    <3>3. charged.gas - after.gas = (Worth(op, frame) - static_gas(op)) + Price(after) - Price(frame)
      BY <1>3, <1>4, <1>7, <2>2 DEF Leaves
    <3>4. Good(start)
      BY <1>1, StartIsGood
    <3>5. /\ start.gas \in Int /\ frame.gas \in Int /\ charged.gas \in Int /\ after.gas \in Int
          /\ Price(start) \in Int /\ Price(frame) \in Int /\ Price(after) \in Int
          /\ work \in Int /\ Worth(op, frame) \in Int /\ static_gas(op) \in Int
      <4>1. start \in Frame /\ frame \in Frame /\ charged \in Frame /\ after \in Frame
        BY <1>1, <1>6, <3>2, <3>4 DEF Good
      <4>2. /\ start.gas \in Nat /\ frame.gas \in Nat /\ charged.gas \in Nat /\ after.gas \in Nat
            /\ Price(start) \in Nat /\ Price(frame) \in Nat /\ Price(after) \in Nat
        BY <4>1, FrameType
      <4>3. work \in Nat /\ Worth(op, frame) \in Nat /\ static_gas(op) \in Nat
        BY <1>1, <1>8, <2>2, StaticGas
      <4> QED
        BY <4>2, <4>3
    <3>6. start.gas - after.gas = (work + Worth(op, frame)) + Price(after) - Price(start)
      <4> DEFINE W == Worth(op, frame)
                 S == static_gas(op)
      <4>1. /\ start.gas \in Int /\ frame.gas \in Int /\ charged.gas \in Int /\ after.gas \in Int
            /\ Price(start) \in Int /\ Price(frame) \in Int /\ Price(after) \in Int
            /\ work \in Int /\ W \in Int /\ S \in Int
        BY <3>5
      <4>2. frame.gas - charged.gas = S
        BY <3>2
      <4>3. charged.gas - after.gas = (W - S) + Price(after) - Price(frame)
        BY <3>3
      <4> HIDE DEF W, S
      <4>4. start.gas - charged.gas = work + S + Price(frame) - Price(start)
        BY <3>1, <4>1, <4>2
      <4>5. start.gas - after.gas = (work + W) + Price(after) - Price(start)
        BY <4>1, <4>3, <4>4
      <4> QED
        BY <4>5 DEF W
    <3> QED
      BY <1>2, <2>2, <3>6 DEF GasIsExact, Price
  <2> QED
    BY <2>1, <2>2
<1>12. TransientIsGuarded'
  <2>1. CASE op = "TSTORE" /\ after.result = "none"
    <3>1. ~charged.is_static /\ spec >= CURIE
      BY <1>4, <1>7, <2>1
    <3>2. ~frame'.is_static /\ spec' = spec /\ ran' = Append(ran, "TSTORE")
      BY <1>1, <1>2, <1>3, <1>6, <2>1, <3>1
    <3>3. Len(ran') \in DOMAIN ran' /\ ran'[Len(ran')] = "TSTORE"
      BY <1>1, <3>2, AppendProperties, LenProperties
    <3> QED
      BY <3>1, <3>2, <3>3 DEF TransientIsGuarded
  <2>2. CASE ~(op = "TSTORE" /\ after.result = "none")
    <3>1. transient' = transient /\ spec' = spec /\ frame'.is_static = frame.is_static
      BY <1>1, <1>2, <1>6, <1>14, <2>2
    <3>2. ASSUME NEW i \in DOMAIN ran, ran[i] = "TSTORE"
          PROVE  \E j \in DOMAIN ran' : ran'[j] = "TSTORE"
      <4>1. CASE after.result = "none"
        <5>1. ran' = Append(ran, op)
          BY <1>2, <4>1
        <5>2. i \in DOMAIN ran' /\ ran'[i] = ran[i]
          BY <1>1, <3>2, <5>1, AppendProperties, LenProperties
        <5> QED
          BY <3>2, <5>2
      <4>2. CASE after.result # "none"
        BY <1>2, <3>2, <4>2
      <4> QED
        BY <4>1, <4>2
    <3>3. (\E i \in DOMAIN ran : ran[i] = "TSTORE") => \E j \in DOMAIN ran' : ran'[j] = "TSTORE"
      BY <3>2
    <3>4. TransientIsGuarded
      BY DEF IndInv
    <3> QED
      BY <3>1, <3>3, <3>4 DEF TransientIsGuarded, Words
  <2> QED
    BY <2>1, <2>2
<1> QED
  BY <1>2, <1>6, <1>9, <1>10, <1>11, <1>12 DEF IndInv

\* Every step keeps the invariant.
LEMMA NextInv == IndInv /\ [Next]_vars => IndInv'
<1> SUFFICES ASSUME IndInv, [Next]_vars PROVE IndInv'
  OBVIOUS
<1>1. ASSUME NEW op \in Opcodes, Step(op) PROVE IndInv'
  BY <1>1, StepInv
<1>2. CASE NextTransaction
  <2>1. /\ spec' \in Specs /\ start' \in Frames /\ frame' = start'
        /\ transient' = [k \in Words |-> 0] /\ work' = 0 /\ ran' = << >>
    BY <1>2 DEF NextTransaction, IndInv, TypeOK
  <2>2. Good(start') /\ Price(start') \in Nat /\ start'.gas \in Nat
    BY <2>1, StartIsGood, FrameType DEF Good
  <2>3. 0 \in Words
    BY WordsPushed DEF DIFFICULTY
  <2>4. TypeOK'
    BY <2>1, <2>2, <2>3 DEF TypeOK, Good
  <2>5. GasIsExact'
    BY <2>1, <2>2 DEF GasIsExact, Price
  <2>6. OnlyActiveOpcodesRun' /\ TransientIsGuarded'
    BY <2>1 DEF OnlyActiveOpcodesRun, TransientIsGuarded
  <2> QED
    BY <2>1, <2>4, <2>5, <2>6 DEF IndInv
<1>3. CASE UNCHANGED vars
  BY <1>3 DEF vars, IndInv, TypeOK, OnlyActiveOpcodesRun, GasIsExact, TransientIsGuarded, Frame,
              ActiveIn, Words, num_words, memory_gas
<1> QED
  BY <1>1, <1>2, <1>3 DEF Next

-----------------------------------------------------------------------------
(***************************************************************************)
(* Theorems.                                                               *)
(***************************************************************************)
\* The inductive invariant holds of every behaviour.
THEOREM Invariance == Spec => []IndInv
<1>1. Init => IndInv
  BY FreshInv DEF Init
<1>2. IndInv /\ [Next]_vars => IndInv'
  BY NextInv
<1> QED
  BY <1>1, <1>2, PTL DEF Spec

\* Stack and memory keep their shape, and MCOPY never reads beyond the memory it grew.
THEOREM TypeCorrect == Spec => []TypeOK
<1>1. IndInv => TypeOK
  BY DEF IndInv
<1> QED
  BY <1>1, Invariance, PTL

\* No opcode runs to its end in a fork that does not have it.
THEOREM OpcodesGated == Spec => []OnlyActiveOpcodesRun
<1>1. IndInv => OnlyActiveOpcodesRun
  BY DEF IndInv
<1> QED
  BY <1>1, Invariance, PTL

\* The gas spent is what the instructions are worth plus the growth of memory.
THEOREM GasExact == Spec => []GasIsExact
<1>1. IndInv => GasIsExact
  BY DEF IndInv
<1> QED
  BY <1>1, Invariance, PTL

\* A TSTORE that halts, whatever for, has not stored.
THEOREM TransientGuarded == Spec => []TransientIsGuarded
<1>1. IndInv => TransientIsGuarded
  BY DEF IndInv
<1> QED
  BY <1>1, Invariance, PTL

\* MCOPY moves the bytes as they were before, and no other byte.
THEOREM CopyCorrect == Spec => CopyIsExact
<1> DEFINE Copied ==
      Len(ran') > Len(ran) /\ ran'[Len(ran')] = "MCOPY" =>
        LET dst == Top(frame, 1)
            src == Top(frame, 2)
            len == Top(frame, 3)
        IN  \A i \in 0 .. Len(frame'.memory) - 1 :
              ByteAt(frame'.memory, i) =
                ByteAt(frame.memory, IF i \in dst .. dst + len - 1 THEN i - dst + src ELSE i)
<1>1. IndInv /\ [Next]_vars => [Copied]_vars
  <2> SUFFICES ASSUME IndInv, Next, Len(ran') > Len(ran), ran'[Len(ran')] = "MCOPY" PROVE Copied
    OBVIOUS
  <2>1. ran \in Seq(Opcodes) /\ Len(ran) \in Nat /\ spec \in Specs /\ transient \in [Words -> Words]
    BY LenProperties DEF IndInv, TypeOK
  <2>2. ~NextTransaction
    BY <2>1 DEF NextTransaction
  <2>3. PICK op \in Opcodes : Step(op)
    BY <2>2 DEF Next
  <2> DEFINE charged == gas_or_fail(frame, static_gas(op))
             after   == IF charged.result = "none" THEN instruction(op, charged) ELSE charged
  <2>4. /\ Good(frame) /\ frame' = after
        /\ IF after.result = "none" THEN ran' = Append(ran, op) ELSE ran' = ran
    BY <2>3 DEF Step, IndInv, TypeOK, Good
  <2>5. after.result = "none" /\ ran' = Append(ran, op)
    BY <2>1, <2>4
  <2>6. op = "MCOPY"
    BY <2>1, <2>5, AppendProperties
  <2>7. charged.result = "none" /\ after = mcopy(charged)
    BY <2>5, <2>6 DEF instruction
  <2>8. Good(charged) /\ charged.stack = frame.stack /\ charged.memory = frame.memory
    BY <2>4, <2>7, ChargedLeaves
  <2> HIDE DEF charged
  <2>9. \A i \in 0 .. Len(mcopy(charged).memory) - 1 :
          ByteAt(mcopy(charged).memory, i) =
            ByteAt(charged.memory,
                   IF i \in Top(charged, 1) .. Top(charged, 1) + Top(charged, 3) - 1
                   THEN i - Top(charged, 1) + Top(charged, 2) ELSE i)
    BY <2>1, <2>5, <2>7, <2>8, McopyLeaves
  <2>10. Top(charged, 1) = Top(frame, 1) /\ Top(charged, 2) = Top(frame, 2)
         /\ Top(charged, 3) = Top(frame, 3)
    BY <2>8 DEF Top
  <2> HIDE DEF after
  <2> QED
    BY <2>4, <2>7, <2>8, <2>9, <2>10
<1> QED
  BY <1>1, Invariance, PTL DEF Spec, CopyIsExact
=============================================================================
