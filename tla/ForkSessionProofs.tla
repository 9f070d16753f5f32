------------------------- MODULE ForkSessionProofs -------------------------
(***************************************************************************)
(* Fork sessions, for all names and calls and for the bounds of every      *)
(* scale: which set, which warm addresses and which switches an execution  *)
(* finds, and what a call to a precompile comes to for every input.        *)
(***************************************************************************)
EXTENDS ForkSession, FoldProofs

-----------------------------------------------------------------------------
(***************************************************************************)
(* Forks and sets.                                                         *)
(***************************************************************************)
\* There are seven forks.
LEMMA SevenSpecs ==
  /\ Specs = {SHANGHAI, BERNOULLI, CURIE, DARWIN, EUCLID, FEYNMAN, GALILEO}
  /\ DefaultSpec \in Specs
  BY DEF Specs, SHANGHAI, BERNOULLI, CURIE, DARWIN, EUCLID, FEYNMAN, GALILEO, DefaultSpec

\* Every set has its addresses among those of the last fork.
LEMMA SetAddresses ==
  ASSUME NEW s \in Specs
  PROVE  DOMAIN precompiles_of(s) \subseteq ECRECOVER .. BLAKE2F \cup {P256VERIFY}
<1>1. DOMAIN pre_bernoulli = ECRECOVER .. BLAKE2F
  BY DEF pre_bernoulli
<1>2. ASSUME NEW set, NEW new PROVE DOMAIN extend(set, new) = DOMAIN set \cup DOMAIN new
  BY DEF extend
<1>3. SHA256 \in ECRECOVER .. BLAKE2F /\ BN_PAIR \in ECRECOVER .. BLAKE2F /\ MODEXP \in ECRECOVER .. BLAKE2F
  BY DEF SHA256, BN_PAIR, MODEXP, ECRECOVER, BLAKE2F
<1>4. DOMAIN bernoulli = ECRECOVER .. BLAKE2F
  <2>1. DOMAIN bernoulli = DOMAIN pre_bernoulli \cup DOMAIN [a \in {SHA256} |-> "sha256"]
    BY <1>2, Zenon DEF bernoulli
  <2> QED
    BY <1>1, <1>3, <2>1
<1>5. DOMAIN euclid = ECRECOVER .. BLAKE2F \cup {P256VERIFY}
  BY <1>2, <1>4 DEF euclid
<1>6. DOMAIN feynman = ECRECOVER .. BLAKE2F \cup {P256VERIFY}
  BY <1>2, <1>3, <1>5 DEF feynman
<1>7. DOMAIN galileo = ECRECOVER .. BLAKE2F \cup {P256VERIFY}
  BY <1>2, <1>3, <1>6 DEF galileo
<1>8. precompiles_of(s) \in {pre_bernoulli, bernoulli, euclid, feynman, galileo}
  BY SevenSpecs DEF precompiles_of, SHANGHAI, BERNOULLI, CURIE, DARWIN, EUCLID, FEYNMAN, GALILEO
<1> QED
  BY <1>1, <1>4, <1>5, <1>6, <1>7, <1>8

\* A name is parsed to a fork: the one of that name, or the default.
LEMMA NameParsed ==
  ASSUME NEW n
  PROVE  /\ from_name(n) \in Specs
         /\ \/ spec_name(from_name(n)) = n
            \/ n \notin {spec_name(s) : s \in Specs} /\ from_name(n) = DefaultSpec
<1>1. CASE n \in {"Shanghai", "bernoulli", "curie", "darwin", "euclid", "feynman", "galileo"}
  BY <1>1, SevenSpecs, SMT
     DEF from_name, spec_name, SHANGHAI, BERNOULLI, CURIE, DARWIN, EUCLID, FEYNMAN, GALILEO
<1>2. CASE n \notin {"Shanghai", "bernoulli", "curie", "darwin", "euclid", "feynman", "galileo"}
  <2>1. from_name(n) = DefaultSpec
    BY <1>2 DEF from_name
  <2>2. ASSUME NEW s \in Specs PROVE spec_name(s) # n
    BY <1>2, SevenSpecs
       DEF spec_name, SHANGHAI, BERNOULLI, CURIE, DARWIN, EUCLID, FEYNMAN, GALILEO
  <2> QED
    BY <2>1, <2>2, SevenSpecs
<1> QED
  BY <1>1, <1>2

\* What set_spec returns is the provider of the new fork, and says so if the old
\* one was that of another.
LEMMA SetSpec ==
  ASSUME NEW old \in Specs, NEW new \in Specs, provider = new_with_spec(old)
  PROVE  /\ set_spec(new).provider = new_with_spec(new)
         /\ set_spec(new).changed \in BOOLEAN
         /\ ~set_spec(new).changed => set_spec(new).provider = provider
  BY DEF set_spec, new_with_spec

-----------------------------------------------------------------------------
(***************************************************************************)
(* Lengths.  from_be_bytes reads a length byte by byte, each time          *)
(* multiplying what it has by the base; LengthAt adds up what every byte   *)
(* counts for.                                                             *)
(***************************************************************************)
\* The positions of a length, from the first on.
UpTo(n) == 1 .. n

\* They are a finite set, the last is the greatest, and without it the others are left.
LEMMA Positions ==
  ASSUME NEW n \in Nat
  PROVE  /\ IsFiniteSet(UpTo(n))
         /\ UpTo(0) = {}
         /\ Max(UpTo(n + 1)) = n + 1
         /\ UpTo(n + 1) \ {n + 1} = UpTo(n)
<1>1. IsFiniteSet(UpTo(n))
  BY FS_Interval DEF UpTo
<1>2. n + 1 \in UpTo(n + 1) /\ \A y \in UpTo(n + 1) : n + 1 >= y
  BY DEF UpTo
<1>3. \A x \in UpTo(n + 1) : (\A y \in UpTo(n + 1) : x >= y) => x = n + 1
  BY <1>2 DEF UpTo
<1>4. Max(UpTo(n + 1)) = n + 1
  BY <1>2, <1>3 DEF Max
<1> QED
  BY <1>1, <1>4 DEF UpTo

\* A set of positions has a greatest.
LEMMA MaxChooses ==
  ASSUME NEW n \in Nat
  PROVE  \A T \in SUBSET UpTo(n) : T # {} => Max(T) \in T
<1> DEFINE Tops(T) == \E x \in T : \A y \in T : x >= y
           P == {T \in SUBSET UpTo(n) : T # {} => Tops(T)}
<1>1. IsFiniteSet(UpTo(n))
  BY Positions
<1>2. {} \in P
  OBVIOUS
<1>3. ASSUME NEW T \in SUBSET UpTo(n), T # {}, \A x \in T : T \ {x} \in P
      PROVE  Tops(T)
  <2>1. PICK x \in T : TRUE
    BY <1>3
  <2>2. CASE T \ {x} = {}
    <3>1. \A y \in T : y = x
      BY <2>2
    <3>2. x \in Nat
      BY DEF UpTo
    <3> QED
      BY <2>1, <3>1, <3>2
  <2>3. CASE T \ {x} # {}
    <3>1. PICK z \in T \ {x} : \A y \in T \ {x} : z >= y
      BY <1>3, <2>1, <2>3
    <3>2. z \in Int /\ x \in Int /\ \A y \in T : y \in Int
      BY <2>1 DEF UpTo
    <3>3. CASE z >= x
      BY <3>1, <3>2, <3>3
    <3>4. CASE x >= z
      BY <2>1, <3>1, <3>2, <3>4
    <3> QED
      BY <3>2, <3>3, <3>4
  <2> QED
    BY <2>2, <2>3
<1> HIDE DEF Tops
<1>4. \A T \in SUBSET UpTo(n) : T # {} /\ (\A x \in T : T \ {x} \in P) => T \in P
  BY <1>3
<1> HIDE DEF P
<1>5. SUBSET UpTo(n) \subseteq P
  BY <1>1, <1>2, <1>4, SubsetInduction
<1>6. \A T \in SUBSET UpTo(n) : T # {} => Tops(T)
  BY <1>5 DEF P
<1> QED
  BY <1>6 DEF Tops, Max

\* A fold that takes the greatest position first meets the others in order.
LEMMA FoldUpTo ==
  ASSUME NEW w \in Nat, NEW V, NEW base \in V, NEW F, MapsInto(F, UpTo(w), V)
  PROVE  \E c, it : /\ \A T \in SUBSET UpTo(w) : c[T] = Max(T)
                    /\ it \in [SUBSET UpTo(w) -> V]
                    /\ IsFold(it, base, c, F, UpTo(w))
<1> DEFINE c == [T \in SUBSET UpTo(w) |-> Max(T)]
<1>1. ChoosesFrom(c, UpTo(w)) /\ \A T \in SUBSET UpTo(w) : c[T] = Max(T)
  BY MaxChooses DEF ChoosesFrom
<1> HIDE DEF c
<1>2. \E it \in [SUBSET UpTo(w) -> V] : IsFold(it, base, c, F, UpTo(w))
  BY <1>1, Positions, FoldExists
<1> QED
  BY <1>1, <1>2

\* The equation from_be_bytes chooses its function by.
BytesEquation(it, s) ==
  it = [T \in SUBSET DOMAIN s |-> IF T = {} THEN 0
                                  ELSE LET x == Max(T) IN it[T \ {x}] * Byte + s[x]]

\* It does.
LEMMA BytesDef ==
  ASSUME NEW s
  PROVE  from_be_bytes(s) = (CHOOSE it : BytesEquation(it, s))[DOMAIN s]
  BY DEF from_be_bytes, FoldLeft, MapThenFoldSet, BytesEquation

\* What from_be_bytes has read after n bytes.
LEMMA BytesRead ==
  ASSUME NEW w \in Nat, NEW s \in [UpTo(w) -> Nat]
  PROVE  \E r \in [0 .. w -> Nat] :
           /\ r[0] = 0 /\ r[w] = from_be_bytes(s)
           /\ \A n \in 0 .. w - 1 : r[n + 1] = r[n] * Byte + s[n + 1]
<1> DEFINE F == [x \in UpTo(w) |-> [v \in Nat |-> v * Byte + s[x]]]
<1>1. Byte \in Nat
  BY ScaleAssumption
<1>2. MapsInto(F, UpTo(w), Nat) /\ \A x \in UpTo(w), v \in Nat : F[x][v] = v * Byte + s[x]
  <2>1. \A x \in UpTo(w), v \in Nat : v * Byte + s[x] \in Nat
    BY <1>1
  <2> QED
    BY <2>1 DEF MapsInto
<1> HIDE DEF F
<1>3. PICK c, it : /\ \A T \in SUBSET UpTo(w) : c[T] = Max(T)
                   /\ it \in [SUBSET UpTo(w) -> Nat]
                   /\ IsFold(it, 0, c, F, UpTo(w))
  <2> DEFINE N == Nat
  <2>1. 0 \in N /\ MapsInto(F, UpTo(w), N)
    BY <1>2
  <2> HIDE DEF N
  <2>2. \E c, it : /\ \A T \in SUBSET UpTo(w) : c[T] = Max(T)
                   /\ it \in [SUBSET UpTo(w) -> N]
                   /\ IsFold(it, 0, c, F, UpTo(w))
    BY <2>1, FoldUpTo
  <2> QED
    BY <2>2 DEF N
<1>4. \A T \in SUBSET UpTo(w) : T # {} =>
        /\ Max(T) \in UpTo(w) /\ it[T \ {Max(T)}] \in Nat
        /\ it[T] = it[T \ {Max(T)}] * Byte + s[Max(T)]
  <2>1. \A T \in SUBSET UpTo(w) : T # {} =>
          Max(T) \in UpTo(w) /\ it[T \ {Max(T)}] \in Nat
    BY <1>3, MaxChooses
  <2> QED
    BY <1>2, <1>3, <2>1 DEF IsFold
<1>5. BytesEquation(it, s)
  BY <1>3, <1>4 DEF IsFold, BytesEquation
<1> DEFINE g == CHOOSE h : BytesEquation(h, s)
<1>6. BytesEquation(g, s)
  BY <1>5
<1>7. from_be_bytes(s) = g[UpTo(w)]
  BY BytesDef
<1> HIDE DEF g
<1>8. \A T \in SUBSET UpTo(w) :
        g[T] = IF T = {} THEN 0 ELSE g[T \ {Max(T)}] * Byte + s[Max(T)]
  BY <1>6 DEF BytesEquation
<1> DEFINE P == {n \in Nat : n <= w => g[UpTo(n)] \in Nat}
<1>9. \A n \in 0 .. w : UpTo(n) \in SUBSET UpTo(w)
  BY DEF UpTo
<1>10. g[UpTo(0)] = 0
  BY <1>8, <1>9, Positions
<1>11. \A n \in 0 .. w - 1 : g[UpTo(n + 1)] = g[UpTo(n)] * Byte + s[n + 1]
  <2>1. TAKE n \in 0 .. w - 1
  <2>2. n \in Nat /\ n + 1 \in 0 .. w
    OBVIOUS
  <2>3. UpTo(n + 1) \in SUBSET UpTo(w) /\ n + 1 \in UpTo(n + 1)
    BY <1>9, <2>2 DEF UpTo
  <2>4. Max(UpTo(n + 1)) = n + 1 /\ UpTo(n + 1) \ {n + 1} = UpTo(n)
    BY <2>2, Positions
  <2> QED
    BY <1>8, <2>3, <2>4
<1>12. 0 \in P
  BY <1>10
<1>13. ASSUME NEW n \in Nat, n \in P PROVE n + 1 \in P
  <2>1. SUFFICES ASSUME n + 1 <= w PROVE g[UpTo(n + 1)] \in Nat
    OBVIOUS
  <2>2. n \in 0 .. w - 1 /\ n + 1 \in UpTo(w)
    BY <2>1 DEF UpTo
  <2>3. g[UpTo(n)] \in Nat /\ s[n + 1] \in Nat
    BY <1>13, <2>2
  <2> QED
    BY <1>1, <1>11, <2>2, <2>3
<1> HIDE DEF P
<1>14. Nat \subseteq P
  BY <1>12, <1>13, NatSetInduction
<1>15. \A n \in 0 .. w : g[UpTo(n)] \in Nat
  BY <1>14 DEF P
<1> DEFINE r == [n \in 0 .. w |-> g[UpTo(n)]]
<1>16. r \in [0 .. w -> Nat] /\ r[0] = 0 /\ r[w] = from_be_bytes(s)
  BY <1>7, <1>10, <1>15
<1>17. \A n \in 0 .. w - 1 : r[n + 1] = r[n] * Byte + s[n + 1]
  BY <1>11
<1> QED
  BY <1>16, <1>17

\* What the bytes count for.
LEMMA PlaceValues ==
  /\ place \in [1 .. Word -> Nat]
  /\ place[Word] = 1
  /\ \A k \in 1 .. Word - 1 : place[k] = Byte * place[k + 1]
<1> DEFINE w == Word
           F == [x \in UpTo(w) |-> [v \in Nat |-> Byte * v]]
<1>1. Byte \in Nat /\ w \in Nat /\ w >= 1
  BY ScaleAssumption
<1>2. MapsInto(F, UpTo(w), Nat) /\ \A x \in UpTo(w), v \in Nat : F[x][v] = Byte * v
  BY <1>1 DEF MapsInto
<1> HIDE DEF F
<1>3. PICK c, it : /\ \A T \in SUBSET UpTo(w) : c[T] = Max(T)
                   /\ it \in [SUBSET UpTo(w) -> Nat]
                   /\ IsFold(it, 1, c, F, UpTo(w))
  <2> DEFINE N == Nat
  <2>1. 1 \in N /\ MapsInto(F, UpTo(w), N)
    BY <1>2
  <2> HIDE DEF N
  <2>2. \E c, it : /\ \A T \in SUBSET UpTo(w) : c[T] = Max(T)
                   /\ it \in [SUBSET UpTo(w) -> N]
                   /\ IsFold(it, 1, c, F, UpTo(w))
    BY <1>1, <2>1, FoldUpTo
  <2> QED
    BY <2>2 DEF N
<1>4. \A n \in 0 .. w : UpTo(n) \in SUBSET UpTo(w)
  BY <1>1 DEF UpTo
<1>5. it[UpTo(0)] = 1
  BY <1>1, <1>3, <1>4, Positions DEF IsFold
<1>6. \A n \in 0 .. w - 1 : it[UpTo(n + 1)] = Byte * it[UpTo(n)]
  <2>1. TAKE n \in 0 .. w - 1
  <2>2. n \in Nat /\ n + 1 \in 0 .. w
    BY <1>1
  <2>3. UpTo(n + 1) \in SUBSET UpTo(w) /\ UpTo(n) \in SUBSET UpTo(w) /\ n + 1 \in UpTo(n + 1)
    BY <1>1, <1>4, <2>2 DEF UpTo
  <2>4. Max(UpTo(n + 1)) = n + 1 /\ UpTo(n + 1) \ {n + 1} = UpTo(n)
    BY <2>2, Positions
  <2>5. UpTo(n + 1) # {} /\ c[UpTo(n + 1)] = n + 1
    BY <1>3, <2>3, <2>4
  <2>6. it[UpTo(n + 1)] = F[n + 1][it[UpTo(n)]]
    BY <1>3, <2>3, <2>4, <2>5 DEF IsFold
  <2> QED
    BY <1>2, <1>3, <2>3, <2>6
<1> DEFINE p == [k \in 1 .. w |-> it[UpTo(w - k)]]
           Eq(q) == q = [k \in 1 .. w |-> IF k = w THEN 1 ELSE Byte * q[k + 1]]
<1>7. Eq(p)
  <2>1. p[w] = 1
    BY <1>1, <1>5
  <2>2. ASSUME NEW k \in 1 .. w, k # w PROVE p[k] = Byte * p[k + 1]
    <3>1. w - (k + 1) \in 0 .. w - 1 /\ (w - (k + 1)) + 1 = w - k /\ k + 1 \in 1 .. w
      BY <1>1, <2>2
    <3>2. it[UpTo((w - (k + 1)) + 1)] = Byte * it[UpTo(w - (k + 1))]
      BY <1>6, <3>1
    <3> QED
      BY <3>1, <3>2
  <2> QED
    BY <2>1, <2>2
<1>8. place = CHOOSE q : Eq(q)
  BY DEF place
<1>9. Eq(place)
  BY <1>7, <1>8
<1>10. place[w] = 1 /\ \A k \in 1 .. w - 1 : place[k] = Byte * place[k + 1]
  <2>1. \A k \in 1 .. w : place[k] = IF k = w THEN 1 ELSE Byte * place[k + 1]
    BY <1>9
  <2>2. w \in 1 .. w /\ \A k \in 1 .. w - 1 : k \in 1 .. w /\ k # w
    BY <1>1
  <2> QED
    BY <2>1, <2>2
<1> DEFINE P == {n \in Nat : n < w => place[w - n] \in Nat}
<1>11. 0 \in P
  BY <1>1, <1>10
<1>12. ASSUME NEW n \in Nat, n \in P PROVE n + 1 \in P
  <2>1. SUFFICES ASSUME n + 1 < w PROVE place[w - (n + 1)] \in Nat
    OBVIOUS
  <2>2. w - (n + 1) \in 1 .. w - 1 /\ (w - (n + 1)) + 1 = w - n
    BY <1>1, <2>1
  <2>3. place[w - n] \in Nat
    BY <1>1, <1>12, <2>1
  <2> QED
    BY <1>1, <1>10, <2>2, <2>3
<1> HIDE DEF P
<1>13. Nat \subseteq P
  BY <1>11, <1>12, NatSetInduction
<1>14. ASSUME NEW k \in 1 .. w PROVE place[k] \in Nat
  <2>1. w - k \in Nat /\ w - k < w /\ w - (w - k) = k
    BY <1>1
  <2>2. w - k \in P
    BY <1>13, <2>1
  <2> QED
    BY <2>1, <2>2 DEF P
<1>15. place = [k \in 1 .. w |-> place[k]]
  BY <1>9
<1> QED
  BY <1>10, <1>14, <1>15

\* The two readings agree.
LEMMA LengthRead ==
  ASSUME NEW s \in [1 .. Word -> Nat]
  PROVE  from_be_bytes(s) = SumFunction([k \in 1 .. Word |-> s[k] * place[k]])
<1> DEFINE w == Word
           S == 1 .. w
           h == [k \in S |-> s[k] * place[k]]
<1>1. w \in Nat /\ w >= 1 /\ Byte \in Nat
  BY ScaleAssumption
<1>2. S = UpTo(w) /\ IsFiniteSet(S)
  BY <1>1, Positions DEF UpTo
<1>3. PICK r \in [0 .. w -> Nat] :
        /\ r[0] = 0 /\ r[w] = from_be_bytes(s)
        /\ \A n \in 0 .. w - 1 : r[n + 1] = r[n] * Byte + s[n + 1]
  BY <1>1, <1>2, BytesRead
<1>4. h \in [S -> Int] /\ \A k \in S : h[k] = s[k] * place[k]
  BY PlaceValues
<1> HIDE DEF h
<1>5. PICK it : Sums(it, h, S) /\ SumFunctionOnSet(h, S) = it[S]
  BY <1>2, <1>4, SumIter
<1>6. \A n \in 0 .. w - 1 : it[UpTo(n + 1)] = h[n + 1] + it[UpTo(n)]
  <2>1. TAKE n \in 0 .. w - 1
  <2>2. n \in Nat /\ UpTo(n + 1) \in SUBSET S /\ n + 1 \in UpTo(n + 1)
    BY <1>1 DEF UpTo
  <2>3. UpTo(n + 1) \ {n + 1} = UpTo(n)
    BY <2>2, Positions
  <2> DEFINE U == UpTo(n + 1)
             x == n + 1
  <2>4. IsFiniteSet(S) /\ h \in [S -> Int] /\ Sums(it, h, S) /\ U \in SUBSET S /\ x \in U
    BY <1>2, <1>4, <1>5, <2>2
  <2>5. it[U] = h[x] + it[U \ {x}]
    <3> HIDE DEF S, U, x
    <3> QED
      BY <2>4, SumsRemove
  <2> QED
    BY <2>3, <2>5
<1>7. it[UpTo(0)] = 0
  BY <1>1, <1>5, Positions DEF Sums
<1> DEFINE P == {n \in Nat : n < w => it[UpTo(n + 1)] = r[n + 1] * place[n + 1]}
<1>8. 0 \in P
  <2>1. 0 \in 0 .. w - 1 /\ 0 + 1 = 1 /\ 1 \in S
    BY <1>1
  <2>2. r[1] = r[0] * Byte + s[1] /\ it[UpTo(1)] = h[1] + it[UpTo(0)]
    BY <1>3, <1>6, <2>1
  <2>3. r[1] = s[1] /\ h[1] = s[1] * place[1] /\ h[1] \in Int
    BY <1>1, <1>3, <1>4, <2>1, <2>2
  <2>4. it[UpTo(1)] = r[1] * place[1]
    BY <1>7, <2>2, <2>3
  <2> QED
    BY <2>1, <2>4
<1>9. ASSUME NEW n \in Nat, n \in P PROVE n + 1 \in P
  <2>1. SUFFICES ASSUME n + 1 < w
                 PROVE  it[UpTo((n + 1) + 1)] = r[(n + 1) + 1] * place[(n + 1) + 1]
    OBVIOUS
  <2> DEFINE m == n + 1
  <2>2. m \in 0 .. w - 1 /\ m \in 1 .. w - 1 /\ m \in S /\ m + 1 \in S /\ m \in 0 .. w
    BY <1>1, <2>1
  <2>3. it[UpTo(m)] = r[m] * place[m]
    BY <1>1, <1>9, <2>1
  <2> HIDE DEF m
  <2>4. r[m + 1] = r[m] * Byte + s[m + 1] /\ it[UpTo(m + 1)] = h[m + 1] + it[UpTo(m)]
    BY <1>3, <1>6, <2>2
  <2>5. h[m + 1] = s[m + 1] * place[m + 1] /\ place[m] = Byte * place[m + 1]
    BY <1>4, <2>2, PlaceValues
  <2>6. r[m] \in Nat /\ s[m + 1] \in Nat /\ place[m + 1] \in Nat
    BY <1>3, <2>2, PlaceValues
  <2>7. it[UpTo(m + 1)] = s[m + 1] * place[m + 1] + r[m] * (Byte * place[m + 1])
    BY <2>3, <2>4, <2>5
  <2> DEFINE a == r[m]
             b == Byte
             c == place[m + 1]
             d == s[m + 1]
  <2>8. a \in Nat /\ b \in Nat /\ c \in Nat /\ d \in Nat
    BY <1>1, <2>6
  <2>9. d * c + a * (b * c) = (a * b + d) * c
    <3> HIDE DEF a, b, c, d
    <3> QED
      BY <2>8
  <2>10. it[UpTo(m + 1)] = r[m + 1] * place[m + 1]
    BY <2>4, <2>7, <2>9
  <2> QED
    BY <2>10 DEF m
<1> HIDE DEF P
<1>10. Nat \subseteq P
  BY <1>8, <1>9, NatSetInduction
<1>11. w - 1 \in Nat /\ w - 1 < w /\ (w - 1) + 1 = w
  BY <1>1
<1>12. w - 1 \in P
  BY <1>10, <1>11
<1>13. it[UpTo(w)] = r[w] * place[w]
  BY <1>11, <1>12 DEF P
<1>14. w \in 0 .. w
  BY <1>1
<1>15. r[w] * place[w] = r[w]
  BY <1>3, <1>14, PlaceValues
<1>16. SumFunction(h) = SumFunctionOnSet(h, S)
  BY <1>4 DEF SumFunction
<1>17. SumFunction(h) = from_be_bytes(s)
  BY <1>2, <1>3, <1>5, <1>13, <1>15, <1>16
<1> QED
  BY <1>17 DEF h

\* Every length MODEXP reads is the one at its place in the header.
LEMMA LengthsAgree ==
  ASSUME NEW input \in Seq(0 .. Byte - 1), NEW i \in 0 .. 2
  PROVE  from_be_bytes(right_pad_with_offset(input, i * Word)) = LengthAt(input, i)
<1> DEFINE s == right_pad_with_offset(input, i * Word)
           b(k) == IF k <= Len(input) THEN input[k] ELSE 0
<1>1. Byte \in Nat /\ Word \in Nat /\ i * Word \in Nat
  BY ScaleAssumption
<1>2. Len(input) \in Nat /\ \A k \in 1 .. Len(input) : input[k] \in Nat
  BY <1>1
<1>3. s = [k \in 1 .. Word |-> b(i * Word + k)]
  BY DEF right_pad_with_offset
<1>4. \A k \in 1 .. Word : b(i * Word + k) \in Nat
  <2>1. TAKE k \in 1 .. Word
  <2>2. i * Word + k \in Nat /\ i * Word + k >= 1
    BY <1>1
  <2> QED
    BY <1>2, <2>2
<1>5. s \in [1 .. Word -> Nat] /\ \A k \in 1 .. Word : s[k] = b(i * Word + k)
  BY <1>3, <1>4
<1>6. LengthAt(input, i) = SumFunction([k \in 1 .. Word |-> b(i * Word + k) * place[k]])
  BY DEF LengthAt
<1> HIDE DEF s, b
<1>7. from_be_bytes(s) = SumFunction([k \in 1 .. Word |-> s[k] * place[k]])
  BY <1>5, LengthRead
<1>8. [k \in 1 .. Word |-> s[k] * place[k]] = [k \in 1 .. Word |-> b(i * Word + k) * place[k]]
  BY <1>5
<1>9. from_be_bytes(s) = LengthAt(input, i)
  BY <1>6, <1>7, <1>8
<1> QED
  BY <1>9 DEF s


-----------------------------------------------------------------------------
(***************************************************************************)
(* What a call comes to under a fork.                                      *)
(***************************************************************************)
\* The limits of MODEXP are limits of the lengths at their places, which are numbers.
LEMMA LengthsChecked ==
  ASSUME NEW input \in Seq(0 .. Byte - 1)
  PROVE  /\ modexp_lens(input) = {LengthAt(input, i) : i \in 0 .. 2}
         /\ modexp_lens(input) \subseteq Nat
<1>1. modexp_lens(input) = {LengthAt(input, i) : i \in 0 .. 2}
  BY LengthsAgree DEF modexp_lens
<1>2. ASSUME NEW i \in 0 .. 2 PROVE from_be_bytes(right_pad_with_offset(input, i * Word)) \in Nat
  <2> DEFINE s == right_pad_with_offset(input, i * Word)
             w == Word
  <2>1. Byte \in Nat /\ w \in Nat /\ i * w \in Nat
    BY ScaleAssumption
  <2>2. Len(input) \in Nat /\ \A k \in 1 .. Len(input) : input[k] \in Nat
    BY <2>1
  <2>3. ASSUME NEW k \in 1 .. w, i * w + k <= Len(input) PROVE input[i * w + k] \in Nat
    <3>1. i * w + k \in 1 .. Len(input)
      BY <2>1, <2>2, <2>3
    <3> QED
      BY <2>2, <3>1
  <2>4. s \in [1 .. w -> Nat]
    BY <2>3 DEF right_pad_with_offset
  <2>5. s \in [UpTo(w) -> Nat] /\ w \in 0 .. w
    BY <2>1, <2>4 DEF UpTo
  <2> HIDE DEF s, w
  <2>6. from_be_bytes(s) \in Nat
    BY <2>1, <2>5, BytesRead
  <2> QED
    BY <2>6 DEF s
<1> QED
  BY <1>1, <1>2 DEF modexp_lens

\* What a number without remainder is a multiple of.
LEMMA Multiple ==
  ASSUME NEW w \in Nat, w > 0, NEW l \in Nat, l % w = 0
  PROVE  \E n \in 0 .. l : l = n * w
<1> DEFINE n == l \div w
           q == n * w
           r == l % w
<1>1. n \in Nat
  BY SMT
<1>2. l - r = q
  BY SMT
<1>3. l = q
  <2>1. r = 0
    OBVIOUS
  <2> HIDE DEF r, q, n
  <2> QED
    BY <1>2, <2>1, l \in Nat
<1>4. n <= q
  <2> HIDE DEF n
  <2> QED
    BY <1>1
<1> HIDE DEF n
<1> QED
  BY <1>1, <1>3, <1>4

\* A pairing is over whole pairs: as many as there are bytes for, or at most four.
LEMMA PairsCounted ==
  ASSUME NEW input \in Seq(0 .. Byte - 1)
  PROVE  /\ pair_accepts(input) <=>
              \E n \in 0 .. Len(input) : Len(input) = n * PAIR_ELEMENT_LEN
         /\ bernoulli_pair_accepts(input) <=>
              \E n \in 0 .. 4 : Len(input) = n * PAIR_ELEMENT_LEN
<1> DEFINE p == PAIR_ELEMENT_LEN
           l == Len(input)
<1>1. l \in Nat /\ p \in Nat /\ p >= 1
  BY ScaleAssumption
<1>2. pair_accepts(input) <=> l % p = 0
  BY DEF pair_accepts
<1>3. bernoulli_pair_accepts(input) <=> l <= 4 * p /\ l % p = 0
  BY DEF bernoulli_pair_accepts, pair_accepts, PAIR_LEN_LIMIT
<1> HIDE DEF p, l
<1>4. l % p = 0 => \E n \in 0 .. l : l = n * p
  BY <1>1, p > 0, Multiple
<1>5. ASSUME NEW n \in Nat, l = n * p PROVE l % p = 0 /\ (l <= 4 * p <=> n <= 4)
  <2>1. l % p = 0
    BY <1>1, <1>5
  <2>2. n <= 4 => n * p <= 4 * p
    BY <1>1, n <= 4 => n \in {0, 1, 2, 3, 4}
  <2>3. ASSUME n > 4 PROVE n * p > 4 * p
    <3> DEFINE d == n - 4
    <3>1. d \in Nat /\ d >= 1 /\ n = d + 4
      BY <2>3
    <3> HIDE DEF d
    <3>2. d * p \in Nat /\ d * p >= 1 /\ n * p = d * p + 4 * p
      BY <1>1, <3>1
    <3> QED
      BY <1>1, <3>2
  <2>4. n * p \in Nat /\ 4 * p \in Nat
    BY <1>1
  <2>5. n <= 4 \/ n > 4
    OBVIOUS
  <2>6. l <= 4 * p <=> n <= 4
    BY <1>5, <2>2, <2>3, <2>4, <2>5
  <2> QED
    BY <2>1, <2>6
<1>6. l % p = 0 <=> \E n \in 0 .. l : l = n * p
  <2>1. ASSUME NEW n \in 0 .. l, l = n * p PROVE l % p = 0
    BY <1>1, <1>5, <2>1
  <2> QED
    BY <1>4, <2>1
<1>7. l <= 4 * p /\ l % p = 0 <=> \E n \in 0 .. 4 : l = n * p
  <2>1. ASSUME l <= 4 * p, l % p = 0 PROVE \E n \in 0 .. 4 : l = n * p
    <3>1. PICK n \in 0 .. l : l = n * p
      BY <1>4, <2>1
    <3>2. n \in Nat /\ n <= 4
      BY <1>1, <1>5, <2>1, <3>1
    <3> QED
      BY <3>1, <3>2
  <2>2. ASSUME NEW n \in 0 .. 4, l = n * p PROVE l <= 4 * p /\ l % p = 0
    <3>1. n \in Nat /\ n <= 4
      OBVIOUS
    <3> QED
      BY <1>5, <2>2, <3>1
  <2> QED
    BY <2>1, <2>2
<1> QED
  BY <1>2, <1>3, <1>6, <1>7 DEF l, p

\* The implementation a fork has at an address, rule by rule.
ImplIn(spec, a) ==
  CASE a = ECRECOVER  -> "ecrecover"
    [] a = SHA256     -> IF spec >= BERNOULLI THEN "sha256" ELSE "not_implemented"
    [] a = RIPEMD160  -> "not_implemented"
    [] a = IDENTITY   -> "identity"
    [] a = MODEXP     -> IF spec >= GALILEO THEN "modexp_osaka" ELSE "modexp_bernoulli"
    [] a = BN_ADD     -> "bn_add"
    [] a = BN_MUL     -> "bn_mul"
    [] a = BN_PAIR    -> IF spec >= FEYNMAN THEN "pair_istanbul" ELSE "pair_bernoulli"
    [] a = BLAKE2F    -> "not_implemented"
    [] a = P256VERIFY -> IF spec >= GALILEO THEN "p256verify_osaka" ELSE "p256verify"

\* The addresses are ten.
LEMMA TenAddresses ==
  ECRECOVER .. BLAKE2F = {ECRECOVER, SHA256, RIPEMD160, IDENTITY, MODEXP, BN_ADD, BN_MUL, BN_PAIR, BLAKE2F}
  BY DEF ECRECOVER, SHA256, RIPEMD160, IDENTITY, MODEXP, BN_ADD, BN_MUL, BN_PAIR, BLAKE2F

\* Each set is what the rules say.
LEMMA SetByRule ==
  ASSUME NEW s \in Specs
  PROVE  /\ \A a : a \in DOMAIN precompiles_of(s) <=> IsPrecompileIn(s, a)
         /\ \A a \in DOMAIN precompiles_of(s) : precompiles_of(s)[a] = ImplIn(s, a)
<1> DEFINE Nine == ECRECOVER .. BLAKE2F
           Ten  == Nine \cup {P256VERIFY}
           Holds(set, D, spec) == DOMAIN set = D /\ \A a \in D : set[a] = ImplIn(spec, a)
<1> USE DEF ECRECOVER, SHA256, RIPEMD160, IDENTITY, MODEXP, BN_ADD, BN_MUL, BN_PAIR, BLAKE2F,
            P256VERIFY, SHANGHAI, BERNOULLI, CURIE, DARWIN, EUCLID, FEYNMAN, GALILEO
<1>1. Holds(pre_bernoulli, Nine, SHANGHAI)
  BY TenAddresses DEF pre_bernoulli, ImplIn
<1>2. ASSUME NEW spec \in {BERNOULLI, CURIE, DARWIN} PROVE Holds(bernoulli, Nine, spec)
  <2>1. DOMAIN bernoulli = Nine
    BY <1>1 DEF bernoulli, extend
  <2> QED
    BY <1>1, <2>1, TenAddresses DEF bernoulli, extend, ImplIn
<1>3. Holds(euclid, Ten, EUCLID)
  BY <1>2, TenAddresses DEF euclid, extend, ImplIn
<1>4. Holds(feynman, Ten, FEYNMAN)
  BY <1>3, TenAddresses DEF feynman, extend, ImplIn
<1>5. Holds(galileo, Ten, GALILEO)
  BY <1>4, TenAddresses DEF galileo, extend, ImplIn
<1> QED
  BY <1>1, <1>2, <1>3, <1>4, <1>5, SevenSpecs DEF precompiles_of, IsPrecompileIn

\* What an implementation accepts is what the rules say.
LEMMA AcceptedByRule ==
  ASSUME NEW s \in Specs, NEW a, IsPrecompileIn(s, a), NEW input \in Seq(0 .. Byte - 1)
  PROVE  accepts(ImplIn(s, a), input) <=> ImplementedIn(s, a) /\ AcceptedIn(s, a, input)
<1>1. a \in {ECRECOVER, SHA256, RIPEMD160, IDENTITY, MODEXP, BN_ADD, BN_MUL, BN_PAIR, BLAKE2F, P256VERIFY}
  BY TenAddresses DEF IsPrecompileIn
<1> USE DEF ECRECOVER, SHA256, RIPEMD160, IDENTITY, MODEXP, BN_ADD, BN_MUL, BN_PAIR, BLAKE2F, P256VERIFY
<1>2. CASE a \in {ECRECOVER, SHA256, RIPEMD160, IDENTITY, BN_ADD, BN_MUL, BLAKE2F, P256VERIFY}
  <2>1. AcceptedIn(s, a, input)
    BY <1>2 DEF AcceptedIn
  <2>2. /\ ~accepts("not_implemented", input)
        /\ \A impl \in {"ecrecover", "sha256", "identity", "bn_add", "bn_mul", "p256verify", "p256verify_osaka"} :
             accepts(impl, input)
    BY DEF accepts
  <2>3. CASE a \in {RIPEMD160, BLAKE2F}
    BY <2>2, <2>3 DEF ImplIn, ImplementedIn
  <2>4. CASE a = SHA256
    BY <2>1, <2>2, <2>4 DEF ImplIn, ImplementedIn
  <2>5. CASE a \in {ECRECOVER, IDENTITY, BN_ADD, BN_MUL, P256VERIFY}
    BY <2>1, <2>2, <2>5 DEF ImplIn, ImplementedIn
  <2> QED
    BY <1>2, <2>3, <2>4, <2>5
<1>3. CASE a = MODEXP
  <2>1. /\ bernoulli_modexp_accepts(input) <=> \A i \in 0 .. 2 : LengthAt(input, i) <= MODEXP_LEN_LIMIT
        /\ osaka_modexp_accepts(input) <=> \A i \in 0 .. 2 : LengthAt(input, i) <= OSAKA_LEN_LIMIT
    BY LengthsChecked DEF bernoulli_modexp_accepts, osaka_modexp_accepts
  <2>2. ImplementedIn(s, a) /\ ImplIn(s, a) = IF s >= GALILEO THEN "modexp_osaka" ELSE "modexp_bernoulli"
    BY <1>3 DEF ImplementedIn, ImplIn
  <2>3. accepts("modexp_bernoulli", input) = bernoulli_modexp_accepts(input)
        /\ accepts("modexp_osaka", input) = osaka_modexp_accepts(input)
    BY DEF accepts
  <2>4. AcceptedIn(s, a, input) <=>
          \A i \in 0 .. 2 : LengthAt(input, i) <= IF s >= GALILEO THEN OSAKA_LEN_LIMIT ELSE MODEXP_LEN_LIMIT
    BY <1>3 DEF AcceptedIn
  <2> QED
    BY <2>1, <2>2, <2>3, <2>4
<1>4. CASE a = BN_PAIR
  <2>1. ImplementedIn(s, a) /\ ImplIn(s, a) = IF s >= FEYNMAN THEN "pair_istanbul" ELSE "pair_bernoulli"
    BY <1>4 DEF ImplementedIn, ImplIn
  <2>2. accepts("pair_bernoulli", input) = bernoulli_pair_accepts(input)
        /\ accepts("pair_istanbul", input) = pair_accepts(input)
    BY DEF accepts
  <2>3. AcceptedIn(s, a, input) <=>
          \E n \in 0 .. IF s >= FEYNMAN THEN Len(input) ELSE 4 : Len(input) = n * PAIR_ELEMENT_LEN
    BY <1>4 DEF AcceptedIn
  <2>4. CASE s >= FEYNMAN
    BY <2>1, <2>2, <2>3, <2>4, PairsCounted
  <2>5. CASE ~(s >= FEYNMAN)
    BY <2>1, <2>2, <2>3, <2>5, PairsCounted
  <2> QED
    BY <2>4, <2>5
<1> QED
  BY <1>1, <1>2, <1>3, <1>4

\* A call by a fork's set comes to what the rules of the fork say.
LEMMA StatusByRule ==
  ASSUME NEW s \in Specs, NEW a, NEW input \in Seq(0 .. Byte - 1)
  PROVE  run(precompiles_of(s), a, input).status = StatusIn(s, a, input)
<1>1. CASE ~IsPrecompileIn(s, a)
  BY <1>1, SetByRule DEF run, NoOutcome, StatusIn
<1>2. CASE IsPrecompileIn(s, a)
  <2>1. a \in DOMAIN precompiles_of(s) /\ precompiles_of(s)[a] = ImplIn(s, a)
    BY <1>2, SetByRule
  <2>2. accepts(ImplIn(s, a), input) <=> ImplementedIn(s, a) /\ AcceptedIn(s, a, input)
    BY <1>2, AcceptedByRule
  <2>3. CASE accepts(ImplIn(s, a), input)
    BY <1>2, <2>1, <2>2, <2>3 DEF run, StatusIn
  <2>4. CASE ~accepts(ImplIn(s, a), input)
    BY <1>2, <2>1, <2>2, <2>4 DEF run, NoOutcome, StatusIn
  <2> QED
    BY <2>3, <2>4
<1> QED
  BY <1>1, <1>2

\* The gas of an address does not fall from fork to fork.
LEMMA GasGrows ==
  ASSUME NEW s \in Specs, NEW t \in Specs, s <= t, NEW a, IsPrecompileIn(s, a),
         NEW input \in Seq(0 .. Byte - 1)
  PROVE  gas_of(ImplIn(t, a), input) >= gas_of(ImplIn(s, a), input)
<1>1. a \in {ECRECOVER, SHA256, RIPEMD160, IDENTITY, MODEXP, BN_ADD, BN_MUL, BN_PAIR, BLAKE2F, P256VERIFY}
  BY TenAddresses DEF IsPrecompileIn
<1>2. s \in Int /\ t \in Int /\ GALILEO \in Int /\ FEYNMAN \in Int /\ BERNOULLI \in Int
  BY DEF Specs, SHANGHAI, GALILEO, FEYNMAN, BERNOULLI
<1> USE DEF ECRECOVER, SHA256, RIPEMD160, IDENTITY, MODEXP, BN_ADD, BN_MUL, BN_PAIR, BLAKE2F, P256VERIFY
<1>3. CASE a \in {ECRECOVER, SHA256, RIPEMD160, IDENTITY, BN_ADD, BN_MUL, BLAKE2F}
  <2>1. \A impl \in {"ecrecover", "sha256", "not_implemented", "identity", "bn_add", "bn_mul"} :
          gas_of(impl, input) = 0
    BY DEF gas_of
  <2>2. \A u \in Specs :
          ImplIn(u, a) \in {"ecrecover", "sha256", "not_implemented", "identity", "bn_add", "bn_mul"}
    BY <1>3 DEF ImplIn
  <2> QED
    BY <2>1, <2>2
<1>4. CASE a \in {MODEXP, P256VERIFY}
  <2>1. /\ gas_of("modexp_bernoulli", input) = 200 /\ gas_of("modexp_osaka", input) = 500
        /\ gas_of("p256verify", input) = 3450 /\ gas_of("p256verify_osaka", input) = 6900
    BY DEF gas_of
  <2>2. /\ a = MODEXP => \A u \in Specs :
             ImplIn(u, a) = IF u >= GALILEO THEN "modexp_osaka" ELSE "modexp_bernoulli"
        /\ a = P256VERIFY => \A u \in Specs :
             ImplIn(u, a) = IF u >= GALILEO THEN "p256verify_osaka" ELSE "p256verify"
    BY DEF ImplIn
  <2>3. t >= GALILEO \/ ~(s >= GALILEO)
    BY <1>2
  <2>4. CASE a = MODEXP
    BY <2>1, <2>2, <2>3, <2>4
  <2>5. CASE a = P256VERIFY
    BY <2>1, <2>2, <2>3, <2>5
  <2> QED
    BY <1>4, <2>4, <2>5
<1>5. CASE a = BN_PAIR
  <2> DEFINE gas == 45000 + 34000 * pairs(input)
  <2>1. gas \in Int
    <3>1. Len(input) \in Nat /\ PAIR_ELEMENT_LEN \in Nat /\ PAIR_ELEMENT_LEN > 0
      BY ScaleAssumption
    <3>2. pairs(input) \in Int
      BY <3>1, SMT DEF pairs
    <3> QED
      BY <3>2
  <2>2. \A u \in Specs : gas_of(ImplIn(u, a), input) = gas
    BY <1>5 DEF gas_of, ImplIn
  <2> QED
    BY <2>1, <2>2
<1> QED
  BY <1>1, <1>3, <1>4, <1>5

\* Neither do the rules narrow.
LEMMA RulesWiden ==
  ASSUME NEW s \in Specs, NEW t \in Specs, s <= t, NEW a, NEW input \in Seq(0 .. Byte - 1),
         IsPrecompileIn(s, a), ImplementedIn(s, a), AcceptedIn(s, a, input)
  PROVE  IsPrecompileIn(t, a) /\ ImplementedIn(t, a) /\ AcceptedIn(t, a, input)
<1>1. s \in Int /\ t \in Int /\ GALILEO \in Int /\ FEYNMAN \in Int /\ BERNOULLI \in Int /\ EUCLID \in Int
  BY DEF Specs, SHANGHAI, GALILEO, FEYNMAN, BERNOULLI, EUCLID
<1>2. IsPrecompileIn(t, a) /\ ImplementedIn(t, a)
  BY <1>1 DEF IsPrecompileIn, ImplementedIn
<1>3. CASE a = MODEXP
  <2> DEFINE Limit(u) == IF u >= GALILEO THEN OSAKA_LEN_LIMIT ELSE MODEXP_LEN_LIMIT
  <2>1. ASSUME NEW u \in {s, t}
        PROVE  AcceptedIn(u, a, input) <=> \A i \in 0 .. 2 : LengthAt(input, i) <= Limit(u)
    BY <1>3 DEF AcceptedIn, MODEXP, BN_PAIR
  <2>2. Limit(s) \in Nat /\ Limit(t) \in Nat /\ Limit(s) <= Limit(t)
    BY <1>1, ScaleAssumption
  <2>3. \A i \in 0 .. 2 : LengthAt(input, i) \in Nat
    BY LengthsChecked
  <2> HIDE DEF Limit
  <2>4. \A i \in 0 .. 2 : LengthAt(input, i) <= Limit(t)
    BY <2>1, <2>2, <2>3
  <2> QED
    BY <1>2, <2>1, <2>4
<1>4. CASE a = BN_PAIR
  <2>1. \A u \in {s, t} : AcceptedIn(u, a, input) <=>
          IF u >= FEYNMAN THEN pair_accepts(input) ELSE bernoulli_pair_accepts(input)
    BY <1>4, PairsCounted DEF AcceptedIn, MODEXP, BN_PAIR
  <2>2. bernoulli_pair_accepts(input) => pair_accepts(input)
    BY DEF bernoulli_pair_accepts
  <2> QED
    BY <1>1, <1>2, <2>1, <2>2
<1>5. CASE a \notin {MODEXP, BN_PAIR}
  BY <1>2, <1>5 DEF AcceptedIn
<1> QED
  BY <1>3, <1>4, <1>5

\* Nor does a call that succeeds.
LEMMA CallsWiden ==
  ASSUME NEW s \in Specs, NEW t \in Specs, s <= t, NEW a, NEW input \in Seq(0 .. Byte - 1),
         run(precompiles_of(s), a, input).status = "ok"
  PROVE  /\ run(precompiles_of(t), a, input).status = "ok"
         /\ run(precompiles_of(t), a, input).gas >= run(precompiles_of(s), a, input).gas
<1>1. IsPrecompileIn(s, a) /\ ImplementedIn(s, a) /\ AcceptedIn(s, a, input)
  BY StatusByRule DEF StatusIn
<1>2. IsPrecompileIn(t, a) /\ ImplementedIn(t, a) /\ AcceptedIn(t, a, input)
  BY <1>1, RulesWiden
<1>3. run(precompiles_of(t), a, input).status = "ok"
  BY <1>2, StatusByRule DEF StatusIn
<1>4. ASSUME NEW u \in {s, t} PROVE run(precompiles_of(u), a, input).gas = gas_of(ImplIn(u, a), input)
  <2>1. u \in Specs /\ IsPrecompileIn(u, a) /\ ImplementedIn(u, a) /\ AcceptedIn(u, a, input)
    BY <1>1, <1>2
  <2>2. accepts(ImplIn(u, a), input) /\ a \in DOMAIN precompiles_of(u) /\ precompiles_of(u)[a] = ImplIn(u, a)
    BY <2>1, SetByRule, AcceptedByRule
  <2> QED
    BY <2>2 DEF run
<1>5. gas_of(ImplIn(t, a), input) >= gas_of(ImplIn(s, a), input)
  BY <1>1, GasGrows
<1> QED
  BY <1>3, <1>4, <1>5

-----------------------------------------------------------------------------
(***************************************************************************)
(* The inductive invariant.                                                *)
(***************************************************************************)
\* A new context satisfies it.
LEMMA InitIndInv == Init => IndInv
<1> SUFFICES ASSUME Init PROVE IndInv
  OBVIOUS
<1>1. TypeOK
  <2>1. eip7702(DefaultSpec) \in BOOLEAN /\ eip7623(DefaultSpec) \in BOOLEAN
    BY DEF eip7702, eip7623, is_enabled_in
  <2>2. cfg \in [spec : Specs, eip7702 : BOOLEAN, eip7623 : BOOLEAN]
    BY <2>1, SevenSpecs DEF Init
  <2> QED
    BY <2>2, SevenSpecs DEF Init, TypeOK
<1>2. ProviderInv /\ WarmInv /\ CallInv /\ NameIsHonoured
  BY DEF Init, ProviderInv, WarmInv, WarmFollowsSet, CallInv, NameIsHonoured
<1>3. SwitchInv
  BY DEF Init, SwitchInv
<1> QED
  BY <1>1, <1>2, <1>3 DEF IndInv

\* Every step keeps it.
LEMMA NextIndInv == IndInv /\ [Next]_vars => IndInv'
<1> SUFFICES ASSUME IndInv, [Next]_vars PROVE IndInv'
  OBVIOUS
<1> USE DEF IndInv
<1>1. CASE modify_cfg
  <2>1. PICK n \in Names : /\ cfg' = [cfg EXCEPT !.spec = from_name(n)]
                           /\ named' = n
                           /\ lowered' = IF from_name(n) < cfg.spec THEN Switches ELSE lowered
    BY <1>1 DEF modify_cfg
  <2>2. cfg'.spec = from_name(n) /\ cfg'.eip7702 = cfg.eip7702 /\ cfg'.eip7623 = cfg.eip7623
        /\ cfg' \in [spec : Specs, eip7702 : BOOLEAN, eip7623 : BOOLEAN]
    BY <2>1, NameParsed DEF TypeOK
  <2>3. mode = "none" /\ mode' = "none"
    BY <1>1 DEF modify_cfg, ProviderInv
  <2>4. TypeOK'
    BY <1>1, <2>1, <2>2 DEF modify_cfg, TypeOK
  <2>5. ProviderInv' /\ WarmInv' /\ CallInv'
    BY <1>1, <2>3 DEF modify_cfg, ProviderInv, WarmInv, WarmFollowsSet, CallInv, warm_addresses
  <2>6. SwitchInv'
    <3>1. CASE from_name(n) < cfg.spec
      BY <2>1, <3>1 DEF SwitchInv, Switches
    <3>2. CASE ~(from_name(n) < cfg.spec)
      <4>1. cfg.spec \in Nat /\ cfg'.spec \in Nat /\ cfg'.spec >= cfg.spec
        BY <2>1, <2>2, <3>2 DEF TypeOK, Specs, SHANGHAI, GALILEO
      <4>2. /\ eip7702(cfg.spec) => eip7702(cfg'.spec)
            /\ eip7623(cfg.spec) => eip7623(cfg'.spec)
        BY <4>1 DEF eip7702, eip7623, is_enabled_in, EUCLID, FEYNMAN
      <4> QED
        BY <2>1, <2>2, <3>2, <4>2 DEF SwitchInv
    <3> QED
      BY <3>1, <3>2
  <2>7. NameIsHonoured'
    BY <2>1, <2>2, NameParsed DEF NameIsHonoured
  <2> QED
    BY <2>4, <2>5, <2>6, <2>7
<1>2. CASE maybe_with_eip_7702
  <2>1. cfg' = [cfg EXCEPT !.eip7702 = eip7702(cfg.spec)] /\ lowered' = lowered \ {"eip7702"}
        /\ cfg'.spec = cfg.spec /\ cfg'.eip7702 = eip7702(cfg.spec) /\ cfg'.eip7623 = cfg.eip7623
    BY <1>2 DEF maybe_with_eip_7702, TypeOK
  <2>2. eip7702(cfg.spec) \in BOOLEAN
    BY DEF eip7702, is_enabled_in
  <2>3. TypeOK'
    BY <1>2, <2>1, <2>2 DEF maybe_with_eip_7702, TypeOK, Switches
  <2>4. ProviderInv' /\ WarmInv' /\ CallInv' /\ NameIsHonoured'
    BY <1>2, <2>1 DEF maybe_with_eip_7702, ProviderInv, WarmInv, WarmFollowsSet, CallInv,
                      NameIsHonoured, warm_addresses
  <2>5. SwitchInv'
    BY <2>1 DEF SwitchInv
  <2> QED
    BY <2>3, <2>4, <2>5
<1>3. CASE maybe_with_eip_7623
  <2>1. cfg' = [cfg EXCEPT !.eip7623 = eip7623(cfg.spec)] /\ lowered' = lowered \ {"eip7623"}
        /\ cfg'.spec = cfg.spec /\ cfg'.eip7623 = eip7623(cfg.spec) /\ cfg'.eip7702 = cfg.eip7702
    BY <1>3 DEF maybe_with_eip_7623, TypeOK
  <2>2. eip7623(cfg.spec) \in BOOLEAN
    BY DEF eip7623, is_enabled_in
  <2>3. TypeOK'
    BY <1>3, <2>1, <2>2 DEF maybe_with_eip_7623, TypeOK, Switches
  <2>4. ProviderInv' /\ WarmInv' /\ CallInv' /\ NameIsHonoured'
    BY <1>3, <2>1 DEF maybe_with_eip_7623, ProviderInv, WarmInv, WarmFollowsSet, CallInv,
                      NameIsHonoured, warm_addresses
  <2>5. SwitchInv'
    BY <2>1 DEF SwitchInv
  <2> QED
    BY <2>3, <2>4, <2>5
<1>4. ASSUME NEW s \in Specs, Provide(s), phase' = "idle", phase # "execution",
             UNCHANGED <<cfg, warm, mode, named, lowered, warmed, call>>
      PROVE  IndInv'
  <2>1. mode = "none" /\ mode' = "none"
    BY <1>4 DEF ProviderInv, TypeOK
  <2>2. TypeOK'
    BY <1>4 DEF Provide, TypeOK
  <2>3. ProviderInv'
    BY <1>4, <2>1 DEF Provide, ProviderInv
  <2>4. WarmInv'
    <3>1. warm' \in {{}, DOMAIN precompiles_of(warmed')}
      BY <1>4 DEF WarmInv
    <3>2. ~replaced' => warm' \in {{}, warm_addresses(provider')}
      BY <1>4, <3>1 DEF Provide, warm_addresses, new_with_spec
    <3> QED
      BY <1>4, <2>1, <3>1, <3>2 DEF WarmInv, WarmFollowsSet
  <2>5. CallInv'
    BY <1>4 DEF CallInv
  <2>6. SwitchInv' /\ NameIsHonoured'
    BY <1>4 DEF SwitchInv, NameIsHonoured
  <2> QED
    BY <2>2, <2>3, <2>4, <2>5, <2>6
<1>5. CASE build_scroll
  <2>1. cfg.spec \in Specs
    BY DEF TypeOK
  <2> QED
    BY <1>4, <1>5, <2>1 DEF build_scroll
<1>6. CASE with_precompiles
  BY <1>4, <1>6 DEF with_precompiles
<1>7. CASE TakeContext
  <2>1. TypeOK'
    BY <1>7, SevenSpecs DEF TakeContext, TypeOK
  <2>2. ProviderInv' /\ WarmInv' /\ CallInv' /\ SwitchInv' /\ NameIsHonoured'
    BY <1>7 DEF TakeContext, ProviderInv, WarmInv, WarmFollowsSet, CallInv, SwitchInv, NameIsHonoured
  <2> QED
    BY <2>1, <2>2
<1>8. CASE StartTransaction
  <2> DEFINE set == set_spec(cfg.spec)
  <2>1. /\ phase = "idle" /\ provider' = set.provider
        /\ IF set.changed \/ warm = {}
           THEN warm' = warm_addresses(set.provider) /\ warmed' = cfg.spec
           ELSE UNCHANGED <<warm, warmed>>
        /\ replaced' = (replaced /\ ~set.changed)
        /\ synced' = cfg.spec /\ phase' = "execution" /\ mode' = "transaction" /\ call' = NoCall
        /\ UNCHANGED <<cfg, named, lowered>>
    BY <1>8 DEF StartTransaction
  <2>2. cfg.spec \in Specs /\ synced \in Specs /\ provider = new_with_spec(synced)
    BY <2>1 DEF TypeOK, ProviderInv
  <2>3. /\ provider' = new_with_spec(cfg.spec)
        /\ set.changed \in BOOLEAN
        /\ ~set.changed => provider' = provider
    BY <2>1, <2>2, SetSpec
  <2>4. warm_addresses(provider') \subseteq ECRECOVER .. BLAKE2F \cup {P256VERIFY}
    BY <2>2, <2>3, SetAddresses DEF warm_addresses, new_with_spec
  <2>5. TypeOK'
    BY <2>1, <2>2, <2>3, <2>4 DEF TypeOK
  <2>6. ProviderInv'
    BY <2>1, <2>3 DEF ProviderInv
  <2>7. ~replaced' => warm' = warm_addresses(provider')
    <3>1. CASE set.changed \/ warm = {}
      BY <2>1, <3>1
    <3>2. CASE ~set.changed /\ warm # {}
      BY <2>1, <2>3, <3>2 DEF WarmInv, warm_addresses
    <3> QED
      BY <3>1, <3>2
  <2>8. WarmInv'
    <3>1. warm' \in {{}, DOMAIN precompiles_of(warmed')}
      <4>1. CASE set.changed \/ warm = {}
        BY <2>1, <2>3, <4>1 DEF warm_addresses, new_with_spec
      <4>2. CASE ~(set.changed \/ warm = {})
        BY <2>1, <4>2 DEF WarmInv
      <4> QED
        BY <4>1, <4>2
    <3> QED
      BY <2>7, <3>1 DEF WarmInv, WarmFollowsSet, warm_addresses
  <2>9. CallInv' /\ SwitchInv' /\ NameIsHonoured'
    BY <2>1 DEF CallInv, SwitchInv, NameIsHonoured
  <2> QED
    BY <2>5, <2>6, <2>8, <2>9
<1>9. CASE system_call_one_with_caller
  <2>1. TypeOK' /\ SwitchInv' /\ NameIsHonoured'
    BY <1>9 DEF system_call_one_with_caller, TypeOK, SwitchInv, NameIsHonoured
  <2>2. ProviderInv' /\ WarmInv' /\ CallInv'
    BY <1>9 DEF system_call_one_with_caller, ProviderInv, WarmInv, WarmFollowsSet, CallInv,
                warm_addresses
  <2> QED
    BY <2>1, <2>2
<1>10. CASE Call
  <2>1. TypeOK' /\ SwitchInv' /\ NameIsHonoured' /\ ProviderInv'
    BY <1>10 DEF Call, TypeOK, SwitchInv, NameIsHonoured, ProviderInv
  <2>2. WarmInv'
    BY <1>10 DEF Call, WarmInv, WarmFollowsSet, warm_addresses
  <2>3. CallInv'
    <3>1. provider.precompiles = precompiles_of(synced) /\ phase = "execution"
      BY <1>10 DEF Call, ProviderInv, new_with_spec
    <3> QED
      BY <1>10, <3>1 DEF Call, CallInv
  <2> QED
    BY <2>1, <2>2, <2>3
<1>11. CASE EndExecution
  <2>1. TypeOK' /\ SwitchInv' /\ NameIsHonoured'
    BY <1>11 DEF EndExecution, TypeOK, SwitchInv, NameIsHonoured
  <2>2. ProviderInv' /\ WarmInv' /\ CallInv'
    BY <1>11 DEF EndExecution, ProviderInv, WarmInv, WarmFollowsSet, CallInv, warm_addresses
  <2> QED
    BY <2>1, <2>2
<1>12. CASE UNCHANGED vars
  BY <1>12 DEF vars, TypeOK, ProviderInv, WarmInv, WarmFollowsSet, CallInv, SwitchInv,
               NameIsHonoured, warm_addresses
<1> QED
  BY <1>1, <1>2, <1>3, <1>5, <1>6, <1>7, <1>8, <1>9, <1>10, <1>11, <1>12 DEF Next

-----------------------------------------------------------------------------
(***************************************************************************)
(* Theorems.                                                               *)
(***************************************************************************)
\* The inductive invariant holds of every behaviour.
THEOREM Invariance == Spec => []IndInv
<1>1. Init => IndInv
  BY InitIndInv
<1>2. IndInv /\ [Next]_vars => IndInv'
  BY NextIndInv
<1> QED
  BY <1>1, <1>2, PTL DEF Spec

\* A transaction finds the precompiles it runs with warm, unless its provider came
\* to a journal that was last warmed for another fork.
THEOREM WarmCorrect == Spec => []WarmFollowsSet
<1>1. IndInv => WarmFollowsSet
  BY DEF IndInv, WarmInv
<1> QED
  BY <1>1, Invariance, PTL

\* No switch is on under a fork without its EIP, unless the fork was lowered since
\* the switch was computed.
THEOREM SwitchesCorrect == Spec => []SwitchesNeverEarly
<1>1. IndInv => SwitchesNeverEarly
  BY DEF IndInv, SwitchInv, SwitchesNeverEarly, eip7702, eip7623, is_enabled_in
<1> QED
  BY <1>1, Invariance, PTL

\* The fork in force is the one that was named, or the default for an unknown name.
THEOREM NamesCorrect == Spec => []NameIsHonoured
<1>1. IndInv => NameIsHonoured
  BY DEF IndInv
<1> QED
  BY <1>1, Invariance, PTL

\* Every call runs by the set of the fork its execution is bound to: the configured
\* one in a transaction, that of the last transaction or build in a system call.
THEOREM CallsBound ==
  Spec => [](call # NoCall =>
               call.outcome = run(precompiles_of(IF call.mode = "transaction" THEN cfg.spec ELSE synced),
                                  call.address, call.input))
<1> DEFINE Bound ==
      call # NoCall =>
        call.outcome = run(precompiles_of(IF call.mode = "transaction" THEN cfg.spec ELSE synced),
                           call.address, call.input)
<1>1. IndInv => Bound
  BY DEF IndInv, CallInv, ProviderInv
<1>2. Spec => []Bound
  BY <1>1, Invariance, PTL
<1> QED
  BY <1>2

\* The state keeps its shape: whatever the fork is changed to, provider and warm
\* addresses are those of some fork.
THEOREM TypeCorrect == Spec => []TypeOK
<1>1. IndInv => TypeOK
  BY DEF IndInv
<1> QED
  BY <1>1, Invariance, PTL

\* Every call to a precompile comes to what the rules of the fork say that its
\* execution is bound to, for every input.
THEOREM CallsCorrect == Spec => []CallsFollowFork
<1>1. IndInv => CallsFollowFork
  <2>1. SUFFICES ASSUME IndInv, call # NoCall PROVE CallsFollowFork
    BY DEF CallsFollowFork
  <2>2. /\ call.mode = mode /\ call.outcome = run(precompiles_of(synced), call.address, call.input)
        /\ call.address \in DOMAIN Calls /\ call.input \in Calls[call.address]
        /\ synced \in Specs
        /\ mode = "transaction" => synced = cfg.spec
    BY <2>1 DEF IndInv, TypeOK, CallInv, ProviderInv
  <2>3. call.input \in Seq(0 .. Byte - 1)
    BY <2>2, CallsAssumption
  <2>4. call.outcome.status = StatusIn(synced, call.address, call.input)
    BY <2>2, <2>3, StatusByRule
  <2> QED
    BY <2>2, <2>4 DEF CallsFollowFork
<1> QED
  BY <1>1, Invariance, PTL

\* A call that succeeds under a fork succeeds under every later one, and is no
\* cheaper there.
THEOREM UpgradesWiden == Spec => []UpgradesOnlyWiden
<1>1. IndInv => UpgradesOnlyWiden
  <2>1. SUFFICES ASSUME IndInv, call # NoCall, call.outcome.status = "ok",
                        NEW later \in synced .. GALILEO
                 PROVE  /\ run(precompiles_of(later), call.address, call.input).status = "ok"
                        /\ run(precompiles_of(later), call.address, call.input).gas >= call.outcome.gas
    BY DEF UpgradesOnlyWiden
  <2>2. /\ call.outcome = run(precompiles_of(synced), call.address, call.input)
        /\ call.address \in DOMAIN Calls /\ call.input \in Calls[call.address]
        /\ synced \in Specs
    BY <2>1 DEF IndInv, TypeOK, CallInv
  <2>3. call.input \in Seq(0 .. Byte - 1)
    BY <2>2, CallsAssumption
  <2>4. later \in Specs /\ synced <= later
    BY <2>2 DEF Specs, SHANGHAI, GALILEO
  <2> QED
    BY <2>1, <2>2, <2>3, <2>4, CallsWiden
<1> QED
  BY <1>1, Invariance, PTL
=============================================================================
