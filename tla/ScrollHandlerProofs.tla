------------------------ MODULE ScrollHandlerProofs ------------------------
(***************************************************************************)
(* What holds of ScrollHandler for every set of accounts, transactions,    *)
(* configurations and oracle states.  First what the journal's entries     *)
(* undo, then what the steps keep.                                         *)
(***************************************************************************)
EXTENDS ScrollHandler, L1BlockInfoProofs, FoldProofs

-----------------------------------------------------------------------------
(***************************************************************************)
(* Undoing a sequence of entries, the last one first.                      *)
(***************************************************************************)
\* Worlds on the way back, where a balance may be below zero for a while.
Loose == [balance : [Addr -> Int], nonce : [Addr -> Int], code : [Addr -> Codes],
          oracle : OracleStorage]

\* A set of numbers has a least.
LEMMA MinChooses ==
  ASSUME NEW T \in SUBSET Nat, T # {}
  PROVE  Min(T) \in T /\ \A y \in T : Min(T) <= y
<1> DEFINE R == OpToRel(<, Nat)
<1>1. IsWellFoundedOn(R, Nat)
  BY NatLessThanWellFounded
<1>2. \A x, y \in Nat : y < x => <<y, x>> \in R
  BY DEF OpToRel
<1> HIDE DEF R
<1>3. PICK x \in T : \A y \in T : ~(<<y, x>> \in R)
  BY <1>1, WFMin
<1>4. \A y \in T : x <= y
  <2>1. TAKE y \in T
  <2>2. x \in Nat /\ y \in Nat
    BY <1>3
  <2>3. ~(y < x)
    BY <1>2, <1>3, <2>2
  <2> QED
    BY <2>2, <2>3
<1> QED
  BY <1>3, <1>4 DEF Min

\* A world is known by its parts.
LEMMA SameWorld ==
  ASSUME NEW v \in Loose, NEW w \in Loose,
         \A a \in Addr : v.balance[a] = w.balance[a] /\ v.nonce[a] = w.nonce[a] /\ v.code[a] = w.code[a],
         v.oracle = w.oracle
  PROVE  v = w
<1>1. v.balance = w.balance /\ v.nonce = w.nonce /\ v.code = w.code
  BY DEF Loose
<1> QED
  BY <1>1 DEF Loose

\* Undoing an entry leaves such a world.
LEMMA UndoEntryType ==
  ASSUME NEW e \in Entry, NEW w \in Loose
  PROVE  UndoEntry(e, w) \in Loose
<1>1. CASE e \in [kind : {"balance"}, addr : Addr, old : Nat]
  BY <1>1 DEF UndoEntry, Loose
<1>2. CASE e \in [kind : {"transfer"}, addr : Addr, to : Addr, amount : Nat]
  <2>1. UndoEntry(e, w) = Pay(w, e.to, e.addr, e.amount)
    BY <1>2 DEF UndoEntry
  <2>2. Debit(w, e.to, e.amount) \in Loose
    BY <1>2 DEF Debit, Loose
  <2> QED
    BY <1>2, <2>1, <2>2 DEF Pay, Credit, Loose
<1>3. CASE e \in [kind : {"nonce", "created"}, addr : Addr]
  <2>1. CASE e.kind = "nonce"
    BY <1>3, <2>1 DEF UndoEntry, Loose
  <2>2. CASE e.kind = "created"
    <3> DEFINE v == [w EXCEPT !.code[e.addr] = "none"]
    <3>1. UndoEntry(e, w) = [v EXCEPT !.nonce[e.addr] = 0]
      BY <2>2 DEF UndoEntry
    <3>2. v \in Loose
      BY <1>3 DEF Loose, Codes
    <3> HIDE DEF v
    <3> QED
      BY <1>3, <3>1, <3>2 DEF Loose
  <2> QED
    BY <1>3, <2>1, <2>2
<1>4. CASE e \in [kind : {"code"}, addr : Addr, old : Codes]
  BY <1>4 DEF UndoEntry, Loose
<1>5. CASE e \in [kind : {"storage"}, old : OracleStorage]
  BY <1>5 DEF UndoEntry, Loose
<1> QED
  BY <1>1, <1>2, <1>3, <1>4, <1>5 DEF Entry

\* The equation Undone chooses its function by.
UndoEquation(it, es, w) ==
  it = [T \in SUBSET DOMAIN es |-> IF T = {} THEN w
                                   ELSE LET x == Min(T) IN UndoEntry(es[x], it[T \ {x}])]

\* It does.
LEMMA UndoneDef ==
  ASSUME NEW es, NEW w
  PROVE  Undone(es, w) = (CHOOSE it : UndoEquation(it, es, w))[DOMAIN es]
  BY DEF Undone, FoldRight, MapThenFoldSet, UndoEquation

\* What the entries at each set S of positions undo.
Undoes(g, S, es, w) ==
  \A T \in SUBSET S : /\ g[T] \in Loose
                      /\ g[T] = IF T = {} THEN w ELSE UndoEntry(es[Min(T)], g[T \ {Min(T)}])

\* Undone computes such worlds.
LEMMA UndoneParts ==
  ASSUME NEW S \in SUBSET Nat, IsFiniteSet(S), NEW es \in [S -> Entry], NEW w \in Loose
  PROVE  \E g : Undone(es, w) = g[S] /\ Undoes(g, S, es, w)
<1> DEFINE c == [T \in SUBSET S |-> Min(T)]
           F == [x \in S |-> [v \in Loose |-> UndoEntry(es[x], v)]]
<1>1. \A T \in SUBSET S : T \in SUBSET Nat
  OBVIOUS
<1>2. ChoosesFrom(c, S) /\ \A T \in SUBSET S : c[T] = Min(T)
  BY <1>1, MinChooses DEF ChoosesFrom
<1>3. MapsInto(F, S, Loose) /\ \A x \in S, v \in Loose : F[x][v] = UndoEntry(es[x], v)
  BY UndoEntryType DEF MapsInto
<1>4. DOMAIN es = S
  OBVIOUS
<1> HIDE DEF c, F
<1>5. PICK it \in [SUBSET S -> Loose] : IsFold(it, w, c, F, S)
  BY <1>2, <1>3, FoldExists
<1>6. \A T \in SUBSET S : T # {} => /\ Min(T) \in S /\ T \ {Min(T)} \in SUBSET S
                                   /\ it[T \ {Min(T)}] \in Loose
  BY <1>2, <1>5 DEF ChoosesFrom
<1>7. \A T \in SUBSET S : it[T] = IF T = {} THEN w ELSE UndoEntry(es[Min(T)], it[T \ {Min(T)}])
  <2>1. \A T \in SUBSET S : it[T] = IF T = {} THEN w ELSE F[c[T]][it[T \ {c[T]}]]
    BY <1>5 DEF IsFold
  <2>2. \A T \in SUBSET S : T # {} =>
          F[Min(T)][it[T \ {Min(T)}]] = UndoEntry(es[Min(T)], it[T \ {Min(T)}])
    BY <1>3, <1>6
  <2> QED
    BY <1>2, <2>1, <2>2
<1>8. UndoEquation(it, es, w)
  BY <1>4, <1>5, <1>7 DEF UndoEquation
<1> DEFINE g == CHOOSE h : UndoEquation(h, es, w)
<1>9. UndoEquation(g, es, w)
  BY <1>8
<1>10. Undone(es, w) = g[S]
  BY <1>4, UndoneDef
<1> HIDE DEF g
<1>11. \A T \in SUBSET S : g[T] = IF T = {} THEN w ELSE UndoEntry(es[Min(T)], g[T \ {Min(T)}])
  BY <1>4, <1>9 DEF UndoEquation
<1>12. \A T \in SUBSET S : g[T] = it[T]
  <2> DEFINE P == {T \in SUBSET S : g[T] = it[T]}
  <2>1. {} \in P
    BY <1>7, <1>11
  <2>2. ASSUME NEW T \in SUBSET S, T # {}, \A x \in T : T \ {x} \in P PROVE T \in P
    <3>1. Min(T) \in T
      BY <1>2, <2>2 DEF ChoosesFrom
    <3>2. g[T \ {Min(T)}] = it[T \ {Min(T)}]
      BY <2>2, <3>1
    <3> QED
      BY <1>7, <1>11, <2>2, <3>2
  <2> HIDE DEF P
  <2>3. SUBSET S \subseteq P
    BY <2>1, <2>2, SubsetInduction
  <2> QED
    BY <2>3 DEF P
<1> QED
  BY <1>5, <1>10, <1>11, <1>12 DEF Undoes

\* Where there is nothing to undo.
LEMMA UndoneNothing ==
  ASSUME NEW w \in Loose
  PROVE  Undone(<<>>, w) = w
<1>1. <<>> \in [{} -> Entry] /\ IsFiniteSet({})
  BY FS_EmptySet
<1>2. PICK g : Undone(<<>>, w) = g[{}] /\ Undoes(g, {}, <<>>, w)
  BY <1>1, UndoneParts
<1> QED
  BY <1>2 DEF Undoes

\* The entry that was made last is undone first.
LEMMA UndoneAppend ==
  ASSUME NEW es \in Seq(Entry), NEW e \in Entry, NEW w \in Loose
  PROVE  Undone(Append(es, e), w) = Undone(es, UndoEntry(e, w))
<1> DEFINE n == Len(es)
           fs == Append(es, e)
           S == 1 .. n
           all == 1 .. n + 1
<1>1. n \in Nat /\ es \in [S -> Entry]
  OBVIOUS
<1>2. fs \in [all -> Entry] /\ fs[n + 1] = e /\ \A i \in S : fs[i] = es[i]
  <2>1. fs \in Seq(Entry) /\ Len(fs) = n + 1
    OBVIOUS
  <2>2. fs[Len(es) + 1] = e /\ \A i \in 1 .. Len(es) : fs[i] = es[i]
    OBVIOUS
  <2> HIDE DEF fs
  <2> QED
    BY <2>1, <2>2
<1>3. UndoEntry(e, w) \in Loose /\ n + 1 \in Nat
  BY <1>1, UndoEntryType
<1>7. S \cup {n + 1} = all /\ S \subseteq Nat /\ n + 1 \notin S /\ \A x \in S : x < n + 1
  BY <1>1
<1>12. IsFiniteSet(S) /\ IsFiniteSet(all) /\ all \in SUBSET Nat
  BY <1>1, <1>3, FS_Interval
<1> HIDE DEF fs
<1>4. PICK g : Undone(es, UndoEntry(e, w)) = g[S] /\ Undoes(g, S, es, UndoEntry(e, w))
  BY <1>1, <1>3, <1>7, <1>12, UndoneParts
<1>6. PICK h : Undone(fs, w) = h[all] /\ Undoes(h, all, fs, w)
  BY <1>2, <1>12, UndoneParts
<1> HIDE DEF n, S, all
<1> DEFINE P == {T \in SUBSET S : h[T \cup {n + 1}] = g[T]}
<1>8. {} \in P
  <2>1. {n + 1} # {} /\ {n + 1} \in SUBSET Nat /\ {n + 1} \in SUBSET all
    BY <1>3, <1>7
  <2>2. Min({n + 1}) = n + 1
    BY <2>1, MinChooses
  <2>3. {n + 1} \ {n + 1} = {} /\ {} \cup {n + 1} = {n + 1}
    OBVIOUS
  <2>4. h[{}] = w
    BY <1>6 DEF Undoes
  <2>5. h[{n + 1}] = UndoEntry(e, w)
    BY <1>2, <1>6, <2>1, <2>2, <2>3, <2>4 DEF Undoes
  <2> QED
    BY <1>4, <2>3, <2>5 DEF Undoes
<1>9. ASSUME NEW T \in SUBSET S, T # {}, \A x \in T : T \ {x} \in P PROVE T \in P
  <2> DEFINE U == T \cup {n + 1}
             m == Min(T)
  <2>1. m \in T /\ m \in S /\ \A y \in T : m <= y
    BY <1>7, <1>9, MinChooses
  <2>2. U # {} /\ U \in SUBSET Nat /\ U \in SUBSET all
    BY <1>3, <1>7
  <2>3. Min(U) \in U /\ \A y \in U : Min(U) <= y
    BY <2>2, MinChooses
  <2>4. Min(U) = m
    <3>1. Min(U) <= m
      BY <2>1, <2>3
    <3>5. m < n + 1 /\ m \in Nat
      BY <1>7, <2>1
    <3>2. Min(U) \in T
      <4>1. Min(U) # n + 1
        BY <1>3, <3>1, <3>5
      <4> QED
        BY <2>3, <4>1
    <3>3. m <= Min(U)
      BY <2>1, <3>2
    <3>4. m \in Nat /\ Min(U) \in Nat
      BY <1>7, <2>1, <3>2
    <3> HIDE DEF m, U
    <3> QED
      BY <3>1, <3>3, <3>4
  <2>5. U \ {m} = (T \ {m}) \cup {n + 1}
    BY <1>7, <2>1
  <2>6. h[(T \ {m}) \cup {n + 1}] = g[T \ {m}]
    BY <1>9, <2>1
  <2> HIDE DEF m, U
  <2>7. h[U] = UndoEntry(fs[m], h[U \ {m}])
    BY <1>6, <2>2, <2>4 DEF Undoes
  <2>8. g[T] = UndoEntry(es[m], g[T \ {m}])
    BY <1>4, <1>9 DEF m, Undoes
  <2>9. h[U] = g[T]
    BY <1>2, <2>1, <2>5, <2>6, <2>7, <2>8
  <2> QED
    BY <2>9 DEF U
<1> HIDE DEF P
<1>10. SUBSET S \subseteq P
  BY <1>8, <1>9, <1>12, SubsetInduction
<1>11. h[S \cup {n + 1}] = g[S]
  BY <1>10 DEF P
<1> QED
  BY <1>4, <1>6, <1>7, <1>11 DEF fs

-----------------------------------------------------------------------------
(***************************************************************************)
(* What each entry undoes.                                                 *)
(***************************************************************************)
\* A world may be taken for one where balances go below zero.
LEMMA WorldLoose == ASSUME NEW w \in World PROVE w \in Loose
  BY DEF World, Loose

\* What taking from an account does to the parts of a world.
LEMMA DebitParts ==
  ASSUME NEW w \in Loose, NEW a \in Addr, NEW n \in Int
  PROVE  /\ Debit(w, a, n) \in Loose
         /\ \A b \in Addr : Debit(w, a, n).balance[b] = IF b = a THEN w.balance[b] - n ELSE w.balance[b]
         /\ Debit(w, a, n).nonce = w.nonce /\ Debit(w, a, n).code = w.code
         /\ Debit(w, a, n).oracle = w.oracle
  BY DEF Debit, Loose

\* What giving to it does.
LEMMA CreditParts ==
  ASSUME NEW w \in Loose, NEW a \in Addr, NEW n \in Int
  PROVE  /\ Credit(w, a, n) \in Loose
         /\ \A b \in Addr : Credit(w, a, n).balance[b] = IF b = a THEN w.balance[b] + n ELSE w.balance[b]
         /\ Credit(w, a, n).nonce = w.nonce /\ Credit(w, a, n).code = w.code
         /\ Credit(w, a, n).oracle = w.oracle
  BY DEF Credit, Loose

\* And what bumping its nonce does.
LEMMA BumpParts ==
  ASSUME NEW w \in Loose, NEW a \in Addr
  PROVE  /\ BumpNonce(w, a) \in Loose
         /\ \A b \in Addr : BumpNonce(w, a).nonce[b] = IF b = a THEN w.nonce[b] + 1 ELSE w.nonce[b]
         /\ BumpNonce(w, a).balance = w.balance /\ BumpNonce(w, a).code = w.code
         /\ BumpNonce(w, a).oracle = w.oracle
  BY DEF BumpNonce, Loose

\* What is appended last is undone first.
LEMMA UndoLast ==
  ASSUME NEW es \in Seq(Entry), NEW e \in Entry, NEW v \in Loose, NEW w, UndoEntry(e, v) = w
  PROVE  Append(es, e) \in Seq(Entry) /\ Undone(Append(es, e), v) = Undone(es, w)
  BY UndoneAppend

\* A balance is restored as it was, whatever was added or taken.
LEMMA UndoBalance ==
  ASSUME NEW w \in World, NEW a \in Addr, NEW v \in Loose,
         \A b \in Addr \ {a} : v.balance[b] = w.balance[b],
         v.nonce = w.nonce, v.code = w.code, v.oracle = w.oracle
  PROVE  BalanceEntry(w, a) \in Entry /\ UndoEntry(BalanceEntry(w, a), v) = w
<1> DEFINE e == BalanceEntry(w, a)
<1>1. e \in [kind : {"balance"}, addr : Addr, old : Nat] /\ e.addr = a /\ e.old = w.balance[a]
      /\ e.kind = "balance"
  BY DEF BalanceEntry, World
<1>2. e \in Entry
  BY <1>1 DEF Entry
<1> HIDE DEF e
<1>3. UndoEntry(e, v) = [v EXCEPT !.balance[a] = w.balance[a]]
  BY <1>1 DEF UndoEntry
<1>4. UndoEntry(e, v) \in Loose /\ w \in Loose
  BY <1>2, UndoEntryType, WorldLoose
<1>5. /\ \A b \in Addr : UndoEntry(e, v).balance[b] = w.balance[b]
      /\ UndoEntry(e, v).nonce = w.nonce /\ UndoEntry(e, v).code = w.code
      /\ UndoEntry(e, v).oracle = w.oracle
  BY <1>3, <1>4 DEF Loose
<1> QED
  BY <1>2, <1>4, <1>5, SameWorld DEF e

\* A transfer goes back to where it came from, also one to the payer itself.
LEMMA UndoTransfer ==
  ASSUME NEW w \in Loose, NEW from \in Addr, NEW to \in Addr, NEW n \in Nat
  PROVE  /\ TransferEntry(from, to, n) \in Entry /\ Pay(w, from, to, n) \in Loose
         /\ UndoEntry(TransferEntry(from, to, n), Pay(w, from, to, n)) = w
<1> DEFINE e == TransferEntry(from, to, n)
           v == Pay(w, from, to, n)
<1>1. e \in [kind : {"transfer"}, addr : Addr, to : Addr, amount : Nat]
      /\ e.kind = "transfer" /\ e.addr = from /\ e.to = to /\ e.amount = n
  BY DEF TransferEntry
<1>2. e \in Entry
  BY <1>1 DEF Entry
<1>3. v \in Loose /\ v.nonce = w.nonce /\ v.code = w.code /\ v.oracle = w.oracle
      /\ \A b \in Addr : v.balance[b] = w.balance[b] + (IF b = to THEN n ELSE 0) - (IF b = from THEN n ELSE 0)
  <2> DEFINE d == Debit(w, from, n)
  <2>1. /\ d \in Loose /\ d.nonce = w.nonce /\ d.code = w.code /\ d.oracle = w.oracle
        /\ \A b \in Addr : d.balance[b] = IF b = from THEN w.balance[b] - n ELSE w.balance[b]
    BY DebitParts
  <2>2. v = Credit(d, to, n)
    BY DEF Pay
  <2>3. \A b \in Addr : w.balance[b] \in Int
    BY DEF Loose
  <2> HIDE DEF d, v
  <2>4. /\ v \in Loose /\ v.nonce = d.nonce /\ v.code = d.code /\ v.oracle = d.oracle
        /\ \A b \in Addr : v.balance[b] = IF b = to THEN d.balance[b] + n ELSE d.balance[b]
    BY <2>1, <2>2, CreditParts
  <2> QED
    BY <2>1, <2>3, <2>4
<1> HIDE DEF e, v
<1>4. UndoEntry(e, v) = Credit(Debit(v, to, n), from, n)
  BY <1>1 DEF UndoEntry, Pay
<1>5. /\ UndoEntry(e, v) \in Loose
      /\ UndoEntry(e, v).nonce = w.nonce /\ UndoEntry(e, v).code = w.code
      /\ UndoEntry(e, v).oracle = w.oracle
      /\ \A b \in Addr : UndoEntry(e, v).balance[b] = w.balance[b]
  <2> DEFINE d == Debit(v, to, n)
  <2>1. /\ d \in Loose /\ d.nonce = v.nonce /\ d.code = v.code /\ d.oracle = v.oracle
        /\ \A b \in Addr : d.balance[b] = IF b = to THEN v.balance[b] - n ELSE v.balance[b]
    BY <1>3, DebitParts
  <2> HIDE DEF d
  <2>2. /\ Credit(d, from, n) \in Loose /\ Credit(d, from, n).nonce = d.nonce
        /\ Credit(d, from, n).code = d.code /\ Credit(d, from, n).oracle = d.oracle
        /\ \A b \in Addr : Credit(d, from, n).balance[b]
             = IF b = from THEN d.balance[b] + n ELSE d.balance[b]
    BY <2>1, CreditParts
  <2>3. \A b \in Addr : w.balance[b] \in Int
    BY DEF Loose
  <2> QED
    BY <1>3, <1>4, <2>1, <2>2, <2>3 DEF d
<1>6. UndoEntry(e, v) = w
  BY <1>5, SameWorld
<1> QED
  BY <1>2, <1>3, <1>6 DEF e, v

\* A bumped nonce is lowered again.
LEMMA UndoNonce ==
  ASSUME NEW w \in Loose, NEW a \in Addr
  PROVE  /\ NonceEntry(a) \in Entry /\ BumpNonce(w, a) \in Loose
         /\ UndoEntry(NonceEntry(a), BumpNonce(w, a)) = w
<1> DEFINE e == NonceEntry(a)
           v == BumpNonce(w, a)
<1>1. e \in [kind : {"nonce", "created"}, addr : Addr] /\ e.kind = "nonce" /\ e.addr = a
  BY DEF NonceEntry
<1>2. e \in Entry
  BY <1>1 DEF Entry
<1>3. /\ v \in Loose /\ v.balance = w.balance /\ v.code = w.code /\ v.oracle = w.oracle
      /\ \A b \in Addr : v.nonce[b] = IF b = a THEN w.nonce[b] + 1 ELSE w.nonce[b]
  BY BumpParts
<1> HIDE DEF e, v
<1>4. UndoEntry(e, v) = [v EXCEPT !.nonce[a] = @ - 1] /\ UndoEntry(e, v) \in Loose
  BY <1>1, <1>2, <1>3, UndoEntryType DEF UndoEntry
<1>5. /\ UndoEntry(e, v).balance = w.balance /\ UndoEntry(e, v).code = w.code
      /\ UndoEntry(e, v).oracle = w.oracle
      /\ \A b \in Addr : UndoEntry(e, v).nonce[b] = w.nonce[b]
  BY <1>3, <1>4 DEF Loose
<1>6. UndoEntry(e, v) = w
  BY <1>4, <1>5, SameWorld
<1> QED
  BY <1>2, <1>3, <1>6 DEF e, v

\* Code is set back to what it was.
LEMMA UndoCode ==
  ASSUME NEW w \in Loose, NEW a \in Addr, NEW c \in Codes
  PROVE  /\ CodeEntry(w, a) \in Entry /\ [w EXCEPT !.code[a] = c] \in Loose
         /\ UndoEntry(CodeEntry(w, a), [w EXCEPT !.code[a] = c]) = w
<1> DEFINE e == CodeEntry(w, a)
           v == [w EXCEPT !.code[a] = c]
<1>1. e \in [kind : {"code"}, addr : Addr, old : Codes] /\ e.kind = "code" /\ e.addr = a
      /\ e.old = w.code[a]
  BY DEF CodeEntry, Loose
<1>2. e \in Entry
  BY <1>1 DEF Entry
<1>3. /\ v \in Loose /\ v.balance = w.balance /\ v.nonce = w.nonce /\ v.oracle = w.oracle
      /\ \A b \in Addr \ {a} : v.code[b] = w.code[b]
  BY DEF Loose
<1> HIDE DEF e, v
<1>4. UndoEntry(e, v) = [v EXCEPT !.code[a] = w.code[a]] /\ UndoEntry(e, v) \in Loose
  BY <1>1, <1>2, <1>3, UndoEntryType DEF UndoEntry
<1>5. /\ UndoEntry(e, v).balance = w.balance /\ UndoEntry(e, v).nonce = w.nonce
      /\ UndoEntry(e, v).oracle = w.oracle
      /\ \A b \in Addr : UndoEntry(e, v).code[b] = w.code[b]
  BY <1>3, <1>4 DEF Loose
<1>6. UndoEntry(e, v) = w
  BY <1>4, <1>5, SameWorld
<1> QED
  BY <1>2, <1>3, <1>6 DEF e, v

\* An account that was free is free again.
LEMMA UndoCreated ==
  ASSUME NEW w \in Loose, NEW a \in Addr, ~Occupied(w, a)
  PROVE  /\ CreatedEntry(a) \in Entry /\ Created(w, a) \in Loose
         /\ UndoEntry(CreatedEntry(a), Created(w, a)) = w
<1> DEFINE e == CreatedEntry(a)
           v == Created(w, a)
<1>1. e \in [kind : {"nonce", "created"}, addr : Addr] /\ e.kind = "created" /\ e.addr = a
  BY DEF CreatedEntry
<1>2. e \in Entry
  BY <1>1 DEF Entry
<1>3. /\ v \in Loose /\ v.balance = w.balance /\ v.oracle = w.oracle
      /\ \A b \in Addr \ {a} : v.code[b] = w.code[b] /\ v.nonce[b] = w.nonce[b]
  <2> DEFINE u == [w EXCEPT !.code[a] = "contract"]
  <2>1. /\ u \in Loose /\ u.balance = w.balance /\ u.oracle = w.oracle /\ u.nonce = w.nonce
        /\ \A b \in Addr \ {a} : u.code[b] = w.code[b]
    BY DEF Loose, Codes
  <2>2. v = [u EXCEPT !.nonce[a] = 1]
    BY DEF Created
  <2> HIDE DEF u, v
  <2> QED
    BY <2>1, <2>2 DEF Loose
<1>4. w.code[a] = "none" /\ w.nonce[a] = 0
  BY DEF Occupied
<1> HIDE DEF e, v
<1>5. UndoEntry(e, v) \in Loose
  BY <1>2, <1>3, UndoEntryType
<1>6. /\ UndoEntry(e, v).balance = w.balance /\ UndoEntry(e, v).oracle = w.oracle
      /\ \A b \in Addr : UndoEntry(e, v).code[b] = w.code[b] /\ UndoEntry(e, v).nonce[b] = w.nonce[b]
  <2> DEFINE u == [v EXCEPT !.code[a] = "none"]
  <2>1. /\ u \in Loose /\ u.balance = w.balance /\ u.oracle = w.oracle
        /\ \A b \in Addr : u.code[b] = w.code[b]
        /\ \A b \in Addr \ {a} : u.nonce[b] = w.nonce[b]
    BY <1>3, <1>4 DEF Loose, Codes
  <2>2. UndoEntry(e, v) = [u EXCEPT !.nonce[a] = 0]
    BY <1>1 DEF UndoEntry
  <2> HIDE DEF u
  <2> QED
    BY <1>4, <2>1, <2>2 DEF Loose
<1>7. UndoEntry(e, v) = w
  BY <1>5, <1>6, SameWorld
<1> QED
  BY <1>2, <1>3, <1>7 DEF e, v

\* So is the oracle's storage.
LEMMA UndoStorage ==
  ASSUME NEW w \in Loose, NEW o \in OracleStorage
  PROVE  /\ StorageEntry(w) \in Entry /\ [w EXCEPT !.oracle = o] \in Loose
         /\ UndoEntry(StorageEntry(w), [w EXCEPT !.oracle = o]) = w
<1> DEFINE e == StorageEntry(w)
           v == [w EXCEPT !.oracle = o]
<1>1. e \in [kind : {"storage"}, old : OracleStorage] /\ e.kind = "storage" /\ e.old = w.oracle
  BY DEF StorageEntry, Loose
<1>2. e \in Entry
  BY <1>1 DEF Entry
<1>3. v \in Loose /\ v.balance = w.balance /\ v.nonce = w.nonce /\ v.code = w.code
  BY DEF Loose
<1> HIDE DEF e, v
<1>4. UndoEntry(e, v) = [v EXCEPT !.oracle = w.oracle] /\ UndoEntry(e, v) \in Loose
  BY <1>1, <1>2, <1>3, UndoEntryType DEF UndoEntry
<1>5. /\ UndoEntry(e, v).balance = w.balance /\ UndoEntry(e, v).nonce = w.nonce
      /\ UndoEntry(e, v).code = w.code /\ UndoEntry(e, v).oracle = w.oracle
  BY <1>3, <1>4 DEF Loose
<1>6. UndoEntry(e, v) = w
  BY <1>4, <1>5, SameWorld
<1> QED
  BY <1>2, <1>3, <1>6 DEF e, v

-----------------------------------------------------------------------------
(***************************************************************************)
(* Worlds.                                                                 *)
(***************************************************************************)
\* Taking from an account what it has leaves a world.
LEMMA DebitType ==
  ASSUME NEW w \in World, NEW a \in Addr, NEW n \in Nat, n <= w.balance[a]
  PROVE  Debit(w, a, n) \in World
  BY DEF Debit, World

\* Giving to an account leaves a world.
LEMMA CreditType ==
  ASSUME NEW w \in World, NEW a \in Addr, NEW n \in Nat
  PROVE  Credit(w, a, n) \in World
  BY DEF Credit, World

\* So does a payment, which leaves nonces, code and oracle alone.
LEMMA PayType ==
  ASSUME NEW w \in World, NEW a \in Addr, NEW b \in Addr, NEW n \in Nat, n <= w.balance[a]
  PROVE  /\ Pay(w, a, b, n) \in World
         /\ Pay(w, a, b, n).nonce = w.nonce /\ Pay(w, a, b, n).code = w.code
         /\ Pay(w, a, b, n).oracle = w.oracle
<1> DEFINE d == Debit(w, a, n)
<1>1. d \in World /\ d.nonce = w.nonce /\ d.code = w.code /\ d.oracle = w.oracle
  BY DebitType, DebitParts, WorldLoose
<1> HIDE DEF d
<1>2. Credit(d, b, n) \in World /\ Credit(d, b, n).nonce = d.nonce
      /\ Credit(d, b, n).code = d.code /\ Credit(d, b, n).oracle = d.oracle
  BY <1>1, CreditType, CreditParts, WorldLoose
<1> QED
  BY <1>1, <1>2 DEF Pay, d

\* A nonce may always be bumped; nothing else changes.
LEMMA BumpNonceType ==
  ASSUME NEW w \in World, NEW a \in Addr
  PROVE  /\ BumpNonce(w, a) \in World /\ BumpNonce(w, a).balance = w.balance
         /\ BumpNonce(w, a).code = w.code /\ BumpNonce(w, a).oracle = w.oracle
         /\ BumpNonce(w, a).nonce[a] = w.nonce[a] + 1
         /\ \A b \in Addr : BumpNonce(w, a).nonce[b] >= w.nonce[b]
  BY DEF BumpNonce, World

\* A creation gives its account code, and its first nonce.
LEMMA CreatedType ==
  ASSUME NEW w \in World, NEW a \in Addr
  PROVE  /\ Created(w, a) \in World /\ Created(w, a).balance = w.balance
         /\ Created(w, a).nonce = [w.nonce EXCEPT ![a] = 1]
         /\ Created(w, a).code = [w.code EXCEPT ![a] = "contract"]
<1> DEFINE u == [w EXCEPT !.code[a] = "contract"]
<1>1. /\ u \in World /\ u.balance = w.balance /\ u.nonce = w.nonce
      /\ u.code = [w.code EXCEPT ![a] = "contract"]
  BY DEF World, Codes
<1>2. Created(w, a) = [u EXCEPT !.nonce[a] = 1]
  BY DEF Created
<1> HIDE DEF u
<1> QED
  BY <1>1, <1>2 DEF World

\* The transaction in the context, field by field.
LEMMA TxType ==
  ASSUME TypeOK
  PROVE  /\ tx \in Tx /\ tx.payload \in Payload
         /\ tx.caller \in Addr /\ tx.to \in Addr /\ tx.value \in Nat /\ tx.gasLimit \in Nat
         /\ tx.initGas \in Nat /\ tx.floorGas \in Nat /\ tx.maxFee \in Nat
         /\ tx.authRefund \in Nat /\ tx.auth \in Addr \cup {NoAddr} /\ tx.l1msg \in BOOLEAN
         /\ tx.create \in BOOLEAN /\ tx.delegate \in Codes
         /\ block \in Block /\ cfg \in Cfg /\ cfg.spec \in Specs
<1>1. tx \in Tx /\ block \in Block /\ cfg \in Cfg
  BY ContextAssumption DEF TypeOK
<1> QED
  BY <1>1 DEF Tx, Block, Cfg, Codes

\* An authorization changes the code and the nonce of its signer only.
LEMMA DelegatedType ==
  ASSUME TypeOK, NEW w \in World, tx.auth # NoAddr
  PROVE  /\ Delegated(w) \in World /\ Delegated(w).balance = w.balance
         /\ Delegated(w).oracle = w.oracle
         /\ \A b \in Addr : Delegated(w).nonce[b] >= w.nonce[b]
         /\ Delegated(w).code = [w.code EXCEPT ![tx.auth] = tx.delegate]
<1>1. tx.auth \in Addr /\ tx.delegate \in Codes
  BY TxType
<1> DEFINE u == [w EXCEPT !.code[tx.auth] = tx.delegate]
<1>2. /\ u \in World /\ u.balance = w.balance /\ u.oracle = w.oracle /\ u.nonce = w.nonce
      /\ u.code = [w.code EXCEPT ![tx.auth] = tx.delegate]
  BY <1>1 DEF World
<1> HIDE DEF u
<1> QED
  BY <1>1, <1>2, BumpNonceType DEF Delegated, u

\* Moving the value leaves a world, and nonces and code as they were.
LEMMA TransferType ==
  ASSUME TypeOK, NEW w \in World, tx.value <= w.balance[tx.caller]
  PROVE  /\ Transfer(w) \in World
         /\ Transfer(w).nonce = w.nonce /\ Transfer(w).code = w.code
  BY TxType, PayType DEF Transfer

\* Entering the frame leaves a world, with the same balances and code.
LEMMA EnterFrameType ==
  ASSUME TypeOK, NEW w \in World
  PROVE  /\ EnterFrame(w) \in World /\ EnterFrame(w).balance = w.balance
         /\ EnterFrame(w).code = w.code
         /\ EnterFrame(w).nonce[tx.caller] = w.nonce[tx.caller] + (IF tx.create THEN 1 ELSE 0)
         /\ \A b \in Addr : EnterFrame(w).nonce[b] >= w.nonce[b]
<1>1. tx.caller \in Addr /\ \A b \in Addr : w.nonce[b] \in Nat
  BY TxType DEF World
<1>2. CASE tx.create
  BY <1>1, <1>2, BumpNonceType DEF EnterFrame
<1>3. CASE ~tx.create
  BY <1>1, <1>3 DEF EnterFrame
<1> QED
  BY <1>2, <1>3

\* So does the start of a frame; the balances are those of the transfer.
LEMMA BeginFrameType ==
  ASSUME TypeOK, NEW w \in World, tx.value <= w.balance[tx.caller]
  PROVE  /\ BeginFrame(w) \in World /\ BeginFrame(w).balance = Transfer(w).balance
         /\ BeginFrame(w).nonce = IF tx.create THEN [w.nonce EXCEPT ![tx.to] = 1] ELSE w.nonce
         /\ BeginFrame(w).code = IF tx.create THEN [w.code EXCEPT ![tx.to] = "contract"] ELSE w.code
<1>1. tx.to \in Addr /\ Transfer(w) \in World /\ Transfer(w).nonce = w.nonce /\ Transfer(w).code = w.code
  BY TxType, TransferType
<1> DEFINE v == Transfer(w)
<1>4. BeginFrame(w) = IF tx.create THEN Created(v, tx.to) ELSE v
  BY DEF BeginFrame
<1>5. v \in World /\ v.nonce = w.nonce /\ v.code = w.code
  BY <1>1
<1> HIDE DEF v
<1>6. /\ BeginFrame(w) \in World /\ BeginFrame(w).balance = v.balance
      /\ BeginFrame(w).nonce = IF tx.create THEN [w.nonce EXCEPT ![tx.to] = 1] ELSE w.nonce
      /\ BeginFrame(w).code = IF tx.create THEN [w.code EXCEPT ![tx.to] = "contract"] ELSE w.code
  <2>1. CASE tx.create
    <3> DEFINE u == Created(v, tx.to)
    <3>1. /\ u \in World /\ u.balance = v.balance /\ u.nonce = [v.nonce EXCEPT ![tx.to] = 1]
          /\ u.code = [v.code EXCEPT ![tx.to] = "contract"]
      BY <1>1, <1>5, CreatedType
    <3>2. BeginFrame(w) = u
      BY <1>4, <2>1
    <3> HIDE DEF u
    <3> QED
      BY <1>5, <2>1, <3>1, <3>2
  <2>2. CASE ~tx.create
    BY <1>4, <1>5, <2>2
  <2> QED
    BY <2>1, <2>2
<1> QED
  BY <1>6 DEF v

-----------------------------------------------------------------------------
(***************************************************************************)
(* What the entries of the handler's own steps undo.                       *)
(***************************************************************************)
\* What an accounted caller has paid, and the nonce that is used up.
LEMMA AccountedParts ==
  ASSUME TypeOK, NEW w \in Loose, NEW n \in Int
  PROVE  /\ Accounted(w, n) \in Loose
         /\ \A b \in Addr : Accounted(w, n).balance[b]
              = IF b = tx.caller THEN w.balance[b] - n ELSE w.balance[b]
         /\ \A b \in Addr : Accounted(w, n).nonce[b]
              = IF b = tx.caller /\ ~tx.create THEN w.nonce[b] + 1 ELSE w.nonce[b]
         /\ Accounted(w, n).code = w.code /\ Accounted(w, n).oracle = w.oracle
<1> DEFINE d == Debit(w, tx.caller, n)
<1>1. tx.caller \in Addr
  BY TxType
<1>2. /\ d \in Loose /\ d.nonce = w.nonce /\ d.code = w.code /\ d.oracle = w.oracle
      /\ \A b \in Addr : d.balance[b] = IF b = tx.caller THEN w.balance[b] - n ELSE w.balance[b]
  BY <1>1, DebitParts
<1>3. Accounted(w, n) = IF tx.create THEN d ELSE BumpNonce(d, tx.caller)
  BY DEF Accounted
<1> HIDE DEF d
<1>4. CASE tx.create
  BY <1>2, <1>3, <1>4
<1>5. CASE ~tx.create
  BY <1>1, <1>2, <1>3, <1>5, BumpParts
<1> QED
  BY <1>4, <1>5

\* Taking the rollup fee in place is as if mainnet had taken it too.
LEMMA AccountedMore ==
  ASSUME TypeOK, NEW w \in Loose, NEW n \in Int, NEW r \in Int
  PROVE  Debit(Accounted(w, n), tx.caller, r) = Accounted(w, n + r)
<1> DEFINE v == Accounted(w, n)
           m == n + r
<1>1. m \in Int /\ tx.caller \in Addr /\ \A b \in Addr : w.balance[b] \in Int
  BY TxType DEF Loose
<1>2. /\ v \in Loose
      /\ \A b \in Addr : v.balance[b] = IF b = tx.caller THEN w.balance[b] - n ELSE w.balance[b]
      /\ \A b \in Addr : v.nonce[b] = IF b = tx.caller /\ ~tx.create THEN w.nonce[b] + 1 ELSE w.nonce[b]
      /\ v.code = w.code /\ v.oracle = w.oracle
  BY AccountedParts
<1>3. \A b \in Addr : b = tx.caller => w.balance[b] - m = (w.balance[b] - n) - r
  BY <1>1
<1> HIDE DEF v, m
<1>4. /\ Accounted(w, m) \in Loose
      /\ \A b \in Addr : Accounted(w, m).balance[b]
           = IF b = tx.caller THEN w.balance[b] - m ELSE w.balance[b]
      /\ \A b \in Addr : Accounted(w, m).nonce[b]
           = IF b = tx.caller /\ ~tx.create THEN w.nonce[b] + 1 ELSE w.nonce[b]
      /\ Accounted(w, m).code = w.code /\ Accounted(w, m).oracle = w.oracle
  BY <1>1, AccountedParts
<1>5. /\ Debit(v, tx.caller, r) \in Loose
      /\ \A b \in Addr : Debit(v, tx.caller, r).balance[b]
           = IF b = tx.caller THEN v.balance[b] - r ELSE v.balance[b]
      /\ Debit(v, tx.caller, r).nonce = v.nonce /\ Debit(v, tx.caller, r).code = v.code
      /\ Debit(v, tx.caller, r).oracle = v.oracle
  BY <1>1, <1>2, DebitParts
<1>6. Debit(v, tx.caller, r) = Accounted(w, m)
  BY <1>2, <1>3, <1>4, <1>5, SameWorld
<1> QED
  BY <1>6 DEF v, m

\* Mainnet's entries undo it, whatever the fee: the balance entry holds what the
\* caller had before.
LEMMA UndoAccounted ==
  ASSUME TypeOK, NEW es \in Seq(Entry), NEW w \in World, NEW n \in Int
  PROVE  /\ AccountingEntries(es, w) \in Seq(Entry)
         /\ Undone(AccountingEntries(es, w), Accounted(w, n)) = Undone(es, w)
<1> DEFINE d == Debit(w, tx.caller, n)
           e == BalanceEntry(w, tx.caller)
           fs == Append(es, e)
<1>1. tx.caller \in Addr /\ w \in Loose
  BY TxType, WorldLoose
<1>2. /\ d \in Loose /\ d.nonce = w.nonce /\ d.code = w.code /\ d.oracle = w.oracle
      /\ \A b \in Addr \ {tx.caller} : d.balance[b] = w.balance[b]
  <2>1. /\ d \in Loose /\ d.nonce = w.nonce /\ d.code = w.code /\ d.oracle = w.oracle
        /\ \A b \in Addr : d.balance[b] = IF b = tx.caller THEN w.balance[b] - n ELSE w.balance[b]
    BY <1>1, DebitParts
  <2> HIDE DEF d
  <2> QED
    BY <2>1
<1> HIDE DEF d
<1>3. e \in Entry /\ UndoEntry(e, d) = w
  BY <1>1, <1>2, UndoBalance
<1> HIDE DEF e
<1>4. fs \in Seq(Entry) /\ Undone(fs, d) = Undone(es, w)
  BY <1>2, <1>3, UndoLast
<1> HIDE DEF fs
<1>5. CASE tx.create
  BY <1>4, <1>5 DEF AccountingEntries, Accounted, d, e, fs
<1>6. CASE ~tx.create
  <2>1. /\ NonceEntry(tx.caller) \in Entry /\ BumpNonce(d, tx.caller) \in Loose
        /\ UndoEntry(NonceEntry(tx.caller), BumpNonce(d, tx.caller)) = d
    BY <1>1, <1>2, UndoNonce
  <2>2. /\ Append(fs, NonceEntry(tx.caller)) \in Seq(Entry)
        /\ Undone(Append(fs, NonceEntry(tx.caller)), BumpNonce(d, tx.caller)) = Undone(fs, d)
    BY <1>4, <2>1, UndoLast
  <2> QED
    BY <1>4, <1>6, <2>2 DEF AccountingEntries, Accounted, d, e, fs
<1> QED
  BY <1>5, <1>6

\* An authorization that was journaled is undone.
LEMMA UndoDelegation ==
  ASSUME TypeOK, NEW es \in Seq(Entry), NEW w \in World, tx.auth # NoAddr
  PROVE  LET fs == Append(Append(es, CodeEntry(w, tx.auth)), NonceEntry(tx.auth))
         IN  fs \in Seq(Entry) /\ Undone(fs, Delegated(w)) = Undone(es, w)
<1> DEFINE u == [w EXCEPT !.code[tx.auth] = tx.delegate]
           e == CodeEntry(w, tx.auth)
           fs == Append(es, e)
<1>1. tx.auth \in Addr /\ w \in Loose /\ tx.delegate \in Codes
  BY TxType, WorldLoose
<1>2. e \in Entry /\ u \in Loose /\ UndoEntry(e, u) = w
  BY <1>1, UndoCode
<1> HIDE DEF u, e
<1>3. fs \in Seq(Entry) /\ Undone(fs, u) = Undone(es, w)
  BY <1>2, UndoLast
<1> HIDE DEF fs
<1>4. /\ NonceEntry(tx.auth) \in Entry /\ BumpNonce(u, tx.auth) \in Loose
      /\ UndoEntry(NonceEntry(tx.auth), BumpNonce(u, tx.auth)) = u
  BY <1>1, <1>2, UndoNonce
<1>5. /\ Append(fs, NonceEntry(tx.auth)) \in Seq(Entry)
      /\ Undone(Append(fs, NonceEntry(tx.auth)), BumpNonce(u, tx.auth)) = Undone(fs, u)
  BY <1>3, <1>4, UndoLast
<1> QED
  BY <1>3, <1>5 DEF Delegated, u, e, fs

\* One that was not survives what undoes the fees.
LEMMA UndoUnderDelegation ==
  ASSUME TypeOK, NEW w \in World, NEW n \in Int, tx.auth # NoAddr
  PROVE  Undone(AccountingEntries(<<>>, w), Delegated(Accounted(w, n))) = Delegated(w)
<1> DEFINE v == Delegated(w)
           u == Accounted(w, n)
<1>1. tx.auth \in Addr /\ tx.delegate \in Codes /\ tx.caller \in Addr /\ w \in Loose /\ <<>> \in Seq(Entry)
  BY TxType, WorldLoose
<1>2. v \in World /\ v.balance = w.balance /\ v \in Loose
  BY DelegatedType, WorldLoose
<1>3. /\ u \in Loose
      /\ \A b \in Addr : u.balance[b] = IF b = tx.caller THEN w.balance[b] - n ELSE w.balance[b]
      /\ \A b \in Addr : u.nonce[b] = IF b = tx.caller /\ ~tx.create THEN w.nonce[b] + 1 ELSE w.nonce[b]
      /\ u.code = w.code /\ u.oracle = w.oracle
  BY <1>1, AccountedParts
<1>4. \A x \in Loose : /\ Delegated(x) \in Loose /\ Delegated(x).balance = x.balance
                       /\ Delegated(x).oracle = x.oracle
                       /\ Delegated(x).code = [x.code EXCEPT ![tx.auth] = tx.delegate]
                       /\ \A b \in Addr : Delegated(x).nonce[b]
                            = IF b = tx.auth THEN x.nonce[b] + 1 ELSE x.nonce[b]
  <2> TAKE x \in Loose
  <2> DEFINE y == [x EXCEPT !.code[tx.auth] = tx.delegate]
  <2>1. /\ y \in Loose /\ y.balance = x.balance /\ y.oracle = x.oracle /\ y.nonce = x.nonce
        /\ y.code = [x.code EXCEPT ![tx.auth] = tx.delegate]
    BY <1>1 DEF Loose
  <2>2. Delegated(x) = BumpNonce(y, tx.auth)
    BY DEF Delegated
  <2> HIDE DEF y
  <2>3. /\ BumpNonce(y, tx.auth) \in Loose
        /\ \A b \in Addr : BumpNonce(y, tx.auth).nonce[b]
             = IF b = tx.auth THEN y.nonce[b] + 1 ELSE y.nonce[b]
        /\ BumpNonce(y, tx.auth).balance = y.balance /\ BumpNonce(y, tx.auth).code = y.code
        /\ BumpNonce(y, tx.auth).oracle = y.oracle
    BY <1>1, <2>1, BumpParts
  <2> QED
    BY <2>1, <2>2, <2>3
<1>5. /\ v.oracle = w.oracle /\ v.code = [w.code EXCEPT ![tx.auth] = tx.delegate]
      /\ \A b \in Addr : v.nonce[b] = IF b = tx.auth THEN w.nonce[b] + 1 ELSE w.nonce[b]
  BY <1>1, <1>4
<1> HIDE DEF u, v
<1>6. /\ Accounted(v, n) \in Loose
      /\ \A b \in Addr : Accounted(v, n).balance[b]
           = IF b = tx.caller THEN v.balance[b] - n ELSE v.balance[b]
      /\ \A b \in Addr : Accounted(v, n).nonce[b]
           = IF b = tx.caller /\ ~tx.create THEN v.nonce[b] + 1 ELSE v.nonce[b]
      /\ Accounted(v, n).code = v.code /\ Accounted(v, n).oracle = v.oracle
  BY <1>2, AccountedParts
<1>7. /\ Delegated(u) \in Loose /\ Delegated(u).balance = u.balance /\ Delegated(u).oracle = u.oracle
      /\ Delegated(u).code = [u.code EXCEPT ![tx.auth] = tx.delegate]
      /\ \A b \in Addr : Delegated(u).nonce[b] = IF b = tx.auth THEN u.nonce[b] + 1 ELSE u.nonce[b]
  BY <1>3, <1>4
<1>8. \A b \in Addr : w.nonce[b] \in Int
  BY <1>1 DEF Loose
<1>9. \A b \in Addr : /\ Delegated(u).nonce[b] = Accounted(v, n).nonce[b]
                      /\ Delegated(u).balance[b] = Accounted(v, n).balance[b]
  BY <1>2, <1>3, <1>5, <1>6, <1>7, <1>8
<1>10. Delegated(u).code = Accounted(v, n).code /\ Delegated(u).oracle = Accounted(v, n).oracle
  BY <1>3, <1>5, <1>6, <1>7
<1>11. Delegated(u) = Accounted(v, n)
  BY <1>6, <1>7, <1>9, <1>10, SameWorld
<1>12. AccountingEntries(<<>>, w) = AccountingEntries(<<>>, v)
  BY <1>2 DEF AccountingEntries, BalanceEntry
<1>13. Undone(AccountingEntries(<<>>, v), Accounted(v, n)) = Undone(<<>>, v)
  BY <1>1, <1>2, UndoAccounted
<1>14. Undone(<<>>, v) = v
  BY <1>2, UndoneNothing
<1> QED
  BY <1>11, <1>12, <1>13, <1>14 DEF u, v

\* The nonce of a creation is bumped under an entry.
LEMMA UndoEnter ==
  ASSUME TypeOK, NEW es \in Seq(Entry), NEW w \in Loose
  PROVE  /\ EnterEntries(es) \in Seq(Entry) /\ EnterFrame(w) \in Loose
         /\ Undone(EnterEntries(es), EnterFrame(w)) = Undone(es, w)
<1>1. tx.caller \in Addr
  BY TxType
<1>2. CASE tx.create
  <2>1. /\ NonceEntry(tx.caller) \in Entry /\ BumpNonce(w, tx.caller) \in Loose
        /\ UndoEntry(NonceEntry(tx.caller), BumpNonce(w, tx.caller)) = w
    BY <1>1, UndoNonce
  <2> QED
    BY <1>2, <2>1, UndoLast DEF EnterEntries, EnterFrame
<1>3. CASE ~tx.create
  BY <1>3 DEF EnterEntries, EnterFrame
<1> QED
  BY <1>2, <1>3

\* So are the transfer and the account a creation makes.
LEMMA UndoBegin ==
  ASSUME TypeOK, NEW es \in Seq(Entry), NEW w \in Loose, tx.create => ~Occupied(w, tx.to)
  PROVE  /\ BeginEntries(es) \in Seq(Entry)
         /\ Undone(BeginEntries(es), BeginFrame(w)) = Undone(es, w)
<1> DEFINE e == TransferEntry(tx.caller, tx.to, tx.value)
           v == Transfer(w)
           fs == Append(es, e)
<1>1. tx.caller \in Addr /\ tx.to \in Addr /\ tx.value \in Nat /\ tx.value \in Int
  BY TxType
<1>2. e \in Entry /\ v \in Loose /\ UndoEntry(e, v) = w
  BY <1>1, UndoTransfer DEF Transfer
<1>3. v.code = w.code /\ v.nonce = w.nonce
  <2> DEFINE d == Debit(w, tx.caller, tx.value)
  <2>1. d \in Loose /\ d.code = w.code /\ d.nonce = w.nonce
    BY <1>1, DebitParts
  <2> HIDE DEF d
  <2>2. Credit(d, tx.to, tx.value).code = d.code /\ Credit(d, tx.to, tx.value).nonce = d.nonce
    BY <1>1, <2>1, CreditParts
  <2> QED
    BY <2>1, <2>2 DEF Transfer, Pay, d
<1> HIDE DEF e, v
<1>4. fs \in Seq(Entry) /\ Undone(fs, v) = Undone(es, w)
  BY <1>2, UndoLast
<1> HIDE DEF fs
<1>5. CASE tx.create
  <2>1. ~Occupied(v, tx.to)
    BY <1>3, <1>5 DEF Occupied
  <2>2. /\ CreatedEntry(tx.to) \in Entry /\ Created(v, tx.to) \in Loose
        /\ UndoEntry(CreatedEntry(tx.to), Created(v, tx.to)) = v
    BY <1>1, <1>2, <2>1, UndoCreated
  <2>3. /\ Append(fs, CreatedEntry(tx.to)) \in Seq(Entry)
        /\ Undone(Append(fs, CreatedEntry(tx.to)), Created(v, tx.to)) = Undone(fs, v)
    BY <1>4, <2>2, UndoLast
  <2> QED
    BY <1>4, <1>5, <2>3 DEF BeginEntries, BeginFrame, e, v, fs
<1>6. CASE ~tx.create
  BY <1>4, <1>6 DEF BeginEntries, BeginFrame, e, v, fs
<1> QED
  BY <1>5, <1>6

\* What a failed transaction may leave is a world.
LEMMA RemainsType == ASSUME TypeOK PROVE Remains \subseteq World
<1>1. start \in World /\ tx.caller \in Addr
  BY TxType DEF TypeOK
<1>2. BumpNonce(start, tx.caller) \in World
  BY <1>1, BumpNonceType
<1>3. tx.auth # NoAddr => Delegated(start) \in World
  BY <1>1, DelegatedType
<1> QED
  BY <1>1, <1>2, <1>3 DEF Remains

\* It depends on the start and on the transaction.
LEMMA RemainsKept == UNCHANGED <<start, tx>> => Remains' = Remains
  BY DEF Remains, Delegated, BumpNonce

-----------------------------------------------------------------------------
(***************************************************************************)
(* Amounts, and what a step leaves as it was.                              *)
(***************************************************************************)
\* The price of gas is a number within the price the sender allows.
LEMMA GasPriceRange ==
  ASSUME TypeOK
  PROVE  GasPrice \in Nat /\ GasPrice <= tx.maxFee
<1>1. tx.maxFee \in Nat /\ tx.tip \in Nat \cup {None} /\ block.basefee \in Nat
  BY TxType DEF Tx, Block
<1> QED
  BY <1>1 DEF GasPrice, effective_gas_price, AtMost

\* Products of naturals are monotone.
LEMMA MulMonotone ==
  ASSUME NEW a \in Nat, NEW b \in Nat, NEW c \in Nat, b <= c
  PROVE  a * b <= a * c
  BY SMT

\* The execution fee that is deducted is covered by what the sender was checked for.
LEMMA ExecutionFeeCovered ==
  ASSUME TypeOK, max_balance_spending(tx) <= state.balance[tx.caller]
  PROVE  tx.gasLimit * GasPrice \in Nat /\ tx.gasLimit * GasPrice <= state.balance[tx.caller]
<1>1. /\ tx.gasLimit \in Nat /\ tx.maxFee \in Nat /\ tx.value \in Nat
      /\ GasPrice \in Nat /\ GasPrice <= tx.maxFee
  BY TxType, GasPriceRange
<1>2. tx.gasLimit * GasPrice <= tx.gasLimit * tx.maxFee
  BY <1>1, MulMonotone
<1>3. tx.gasLimit * GasPrice \in Nat /\ tx.gasLimit * tx.maxFee \in Nat
  BY <1>1, MulNat
<1>4. state.balance[tx.caller] \in Nat
  BY TxType DEF TypeOK, World
<1> HIDE DEF GasPrice
<1> QED
  BY <1>1, <1>2, <1>3, <1>4 DEF max_balance_spending

\* The gas of the first frame.
LEMMA FrameGasType ==
  ASSUME TypeOK, GasInv, AfterValidation
  PROVE  frame_gas_limit \in Nat /\ frame_gas_limit <= tx.gasLimit
  BY TxType DEF GasInv, frame_gas_limit

\* The calldata floor.
LEMMA FloorType == ASSUME TypeOK PROVE floor_gas \in Nat
  BY TxType DEF floor_gas

\* The rollup fee, where the code does not panic, is a number.
LEMMA RollupCostType ==
  ASSUME TypeOK, ~RollupCostPanics
  PROVE  RollupCost \in Nat /\ RollupCost <= U64Max
<1>1. RollupCost \in 0 .. U64Max
  BY TxType, CostRange DEF RollupCost, RollupCostPanics, TypeOK
<1> QED
  BY <1>1, WidthAssumption

-----------------------------------------------------------------------------
(***************************************************************************)
(* What does not change while the context stands.                          *)
(***************************************************************************)
\* Prices, limits and fees depend on the context only.
LEMMA ContextKept ==
  ASSUME UNCHANGED <<tx, block, cfg, mode>>
  PROVE  /\ GasPrice' = GasPrice /\ floor_gas' = floor_gas
         /\ frame_gas_limit' = frame_gas_limit /\ ExecutionFee' = ExecutionFee
  BY DEF GasPrice, effective_gas_price, floor_gas, frame_gas_limit, ExecutionFee

\* So does the rollup fee, as long as the L1BlockInfo stands too.
LEMMA ChainKept ==
  ASSUME UNCHANGED <<tx, block, cfg, mode, chain>>
  PROVE  /\ RollupCost' = RollupCost /\ RollupCostPanics' = RollupCostPanics
         /\ RollupFee' = RollupFee
  BY DEF RollupCost, RollupCostPanics, RollupFee

\* What the run has changed before execution depends on the start of the run, the
\* transaction and the fees.
LEMMA AccountedKept ==
  ASSUME UNCHANGED <<tx, start>>, ExecutionFee' = ExecutionFee
  PROVE  /\ Accounted(start, ExecutionFee)' = Accounted(start, ExecutionFee)
         /\ RollupFee' = RollupFee
              => Accounted(start, ExecutionFee + RollupFee)' = Accounted(start, ExecutionFee + RollupFee)
         /\ AccountingEntries(<<>>, start)' = AccountingEntries(<<>>, start)
         /\ L1Nonce(start)' = L1Nonce(start)
  BY DEF Accounted, Debit, BumpNonce, AccountingEntries, BalanceEntry, NonceEntry, L1Nonce

\* The entries undo what a caller was charged, execution fee and rollup fee.
LEMMA ChargedUndone ==
  ASSUME TypeOK, NEW n \in Int
  PROVE  /\ AccountingEntries(<<>>, start) \in Seq(Entry)
         /\ Undone(AccountingEntries(<<>>, start), Accounted(start, n)) = start
<1>1. start \in World /\ <<>> \in Seq(Entry)
  BY DEF TypeOK
<1>2. start \in Loose
  BY <1>1, WorldLoose
<1> QED
  BY <1>1, <1>2, UndoAccounted, UndoneNothing

\* Where nothing has changed there is nothing to undo.
LEMMA UndoneAtStart ==
  ASSUME TypeOK, entries = <<>>, state = start
  PROVE  Undone(entries, state) \in Remains
<1>1. state \in Loose
  BY WorldLoose DEF TypeOK
<1> QED
  BY <1>1, UndoneNothing DEF Remains

\* From the first frame on, a step whose entries undo what it does preserves UndoInv;
\* so does one that fails.
LEMMA UndoStep ==
  ASSUME UndoInv, UNCHANGED <<start, tx>>, Undone(entries', state') = Undone(entries, state),
         phase' \notin {"idle", "validate", "fetch", "deduct", "l1msg", "rollupFee", "loadAccounts",
                       "authList"}
  PROVE  UndoInv'
  BY RemainsKept DEF UndoInv

\* The invariant holds of a new EVM.
LEMMA InitInd == Init => IndInv
<1> SUFFICES ASSUME Init PROVE IndInv
  OBVIOUS
<1>1. TypeOK
  <2>1. db \in World /\ block \in Block /\ cfg \in Cfg
    BY WorldAssumption, ContextAssumption DEF Init
  <2>2. DefaultInfo \in Info
    BY WidthAssumption DEF DefaultInfo, Info, U256, None
  <2>3. cfg.spec \in Specs
    BY <2>1 DEF Cfg
  <2> QED
    BY <2>1, <2>2, <2>3, ContextAssumption, WorldAssumption
       DEF Init, TypeOK, Phases, Modes, Outcomes, Errors, NoGas, NoFees, NoWorld
<1>2. ModeInv /\ GasInv /\ FeeInv /\ ChainInv /\ UndoInv
  <2>1. ModeInv /\ GasInv /\ FeeInv /\ ChainInv
    BY DEF Init, ModeInv, GasInv, FeeInv, ChainInv, AfterRollupFee, AfterFrame, AfterValidation,
           FeeConservation, PanicsOnlyOnMetadata
  <2>2. Undone(entries, state) \in Remains
    BY <1>1, UndoneAtStart DEF Init
  <2> QED
    BY <2>1, <2>2 DEF Init, UndoInv
<1> QED
  BY <1>1, <1>2 DEF IndInv

-----------------------------------------------------------------------------
(***************************************************************************)
(* The invariant is preserved: before execution.                           *)
(***************************************************************************)
\* A transaction that passes validate has a limit that covers the intrinsic gas
\* and the floor.
LEMMA ValidateInd == IndInv /\ validate => IndInv'
<1> SUFFICES ASSUME IndInv, validate PROVE IndInv'
  OBVIOUS
<1> USE DEF IndInv
<1>0. UNCHANGED <<tx, block, cfg, mode, chain, state, entries, start, fees, gas>> /\ phase = "validate"
      /\ phase' \in {"error", "fetch"}
  BY DEF validate, KeepSession, KeepWorld, KeepRun, journal, Fail
<1>1. TypeOK'
  BY <1>0 DEF validate, TypeOK, KeepSession, KeepWorld, KeepRun, journal, Fail, Phases, Errors
<1>2. ModeInv'
  BY <1>0 DEF ModeInv
<1>3. GasInv'
  <2>1. phase' = "fetch" => tx.initGas <= tx.gasLimit /\ floor_gas <= tx.gasLimit
    <3>1. phase' = "fetch" => tx.gasLimit >= tx.initGas /\ tx.gasLimit >= floor_gas
      BY <1>0 DEF validate, Fail
    <3> QED
      BY <3>1, TxType, FloorType
  <2> QED
    BY <1>0, <2>1, ContextKept DEF GasInv, AfterValidation, AfterRollupFee, AfterFrame
<1>4. FeeInv'
  BY <1>0 DEF FeeInv, AfterRollupFee, AfterFrame, FeeConservation
<1>5. ChainInv'
  BY <1>0 DEF ChainInv, AfterRollupFee, AfterFrame, PanicsOnlyOnMetadata
<1>6. UndoInv'
  BY <1>0, RemainsKept DEF UndoInv
<1> QED
  BY <1>1, <1>2, <1>3, <1>4, <1>5, <1>6

\* A transaction that pays is priced with the info of this run.
LEMMA FetchInd == IndInv /\ fetch_l1_block_info => IndInv'
<1> SUFFICES ASSUME IndInv, fetch_l1_block_info PROVE IndInv'
  OBVIOUS
<1> USE DEF IndInv
<1>0. /\ UNCHANGED <<db, tx, block, cfg, mode, state, entries, start, fees, gas, err>>
      /\ phase = "fetch" /\ chain' = FetchedInfo
      /\ phase' = IF tx.l1msg THEN "l1msg" ELSE "deduct"
  BY DEF fetch_l1_block_info, KeepSession, KeepWorld, KeepRun, journal
<1>1. TypeOK'
  <2>1. FetchedInfo \in Info
    BY TxType, TryFetchType DEF FetchedInfo, TypeOK, World
  <2> QED
    BY <1>0, <2>1 DEF fetch_l1_block_info, TypeOK, KeepSession, KeepWorld, KeepRun, journal, Phases
<1>2. ModeInv'
  BY <1>0 DEF ModeInv
<1>3. GasInv'
  BY <1>0, ContextKept DEF GasInv, AfterValidation, AfterRollupFee, AfterFrame
<1>4. FeeInv'
  BY <1>0 DEF FeeInv, AfterRollupFee, AfterFrame, FeeConservation
<1>5. ChainInv'
  BY <1>0 DEF ChainInv, AfterRollupFee, AfterFrame, FetchedInfo, PaysRollupFee, is_system_tx,
              PanicsOnlyOnMetadata
<1>6. UndoInv'
  BY <1>0, RemainsKept DEF UndoInv
<1> QED
  BY <1>1, <1>2, <1>3, <1>4, <1>5, <1>6

\* The execution fee is covered by the balance, and is what has been charged.
LEMMA DeductInd == IndInv /\ mainnet_deduct_caller => IndInv'
<1> SUFFICES ASSUME IndInv, mainnet_deduct_caller PROVE IndInv'
  OBVIOUS
<1> USE DEF IndInv
<1>0. /\ UNCHANGED <<db, output, runs, tx, block, cfg, mode, chain, start, gas, authRefund,
                     outcome>>
      /\ phase = "deduct" /\ phase' \in {"error", "rollupFee"}
      /\ mode # "system" /\ ~tx.l1msg /\ mode # "none"
      /\ fees = NoFees /\ state = start /\ entries = <<>>
  BY DEF mainnet_deduct_caller, KeepSession, Fail, ModeInv, FeeInv, UndoInv
<1> DEFINE fee == tx.gasLimit * GasPrice
<1>1. CASE phase' = "rollupFee"
  <2>1. /\ MainnetVerdict = "none"
        /\ state' = Accounted(state, fee) /\ entries' = AccountingEntries(entries, state)
        /\ fees' = [fees EXCEPT !.charged = @ + fee]
        /\ UNCHANGED err
    BY <1>0, <1>1 DEF mainnet_deduct_caller, Fail
  <2>2. max_balance_spending(tx) <= state.balance[tx.caller]
    <3>1. max_balance_spending(tx) \in Nat /\ state.balance[tx.caller] \in Nat
      <4>1. state \in World
        BY DEF TypeOK
      <4> QED
        BY <4>1, TxType, MulNat DEF max_balance_spending, World
    <3> QED
      BY <2>1, <3>1 DEF MainnetVerdict
  <2>3. fee \in Nat /\ fee <= state.balance[tx.caller]
    BY <2>2, ExecutionFeeCovered
  <2> HIDE DEF fee
  <2>4. state' \in World
    <3>1. Debit(state, tx.caller, fee) \in World
      BY <2>3, TxType, DebitType DEF TypeOK
    <3> QED
      BY <2>1, <3>1, TxType, BumpNonceType DEF Accounted
  <2>12. start = state /\ fee \in Int /\ entries' \in Seq(Entry)
         /\ Undone(entries', state') = start
    BY <1>0, <2>1, <2>3, ChargedUndone
  <2>5. /\ fees' = [NoFees EXCEPT !.charged = fee]
        /\ fees' \in [charged : Nat, l1 : Nat, reimbursed : Nat, rewarded : Nat]
    BY <1>0, <2>1, <2>3 DEF NoFees
  <2>6. loaded' \subseteq Addr /\ coded' \subseteq loaded'
    BY TxType DEF mainnet_deduct_caller, LoadAccountCode, TypeOK
  <2>7. TypeOK'
    BY <1>0, <1>1, <2>1, <2>4, <2>5, <2>6, <2>12 DEF TypeOK, Phases
  <2>8. ExecutionFee' = fee /\ ExecutionFee' = ExecutionFee
    BY <1>0, ContextKept DEF ExecutionFee, fee
  <2>9. FeeInv'
    BY <1>0, <1>1, <2>5, <2>8 DEF FeeInv, AfterRollupFee, AfterFrame, FeeConservation
  <2>10. GasInv'
    BY <1>0, <1>1, ContextKept DEF GasInv, AfterRollupFee, AfterFrame, AfterValidation
  <2>11. ChainInv'
    BY <1>0, <1>1 DEF ChainInv, AfterRollupFee, AfterFrame, PanicsOnlyOnMetadata, PaysRollupFee, is_system_tx
  <2>13. UndoInv'
    <3>1. /\ Accounted(start, ExecutionFee)' = Accounted(start, fee)
          /\ AccountingEntries(<<>>, start)' = AccountingEntries(<<>>, start)
      BY <1>0, <2>8, AccountedKept
    <3>2. Undone(entries', state') \in Remains'
      BY <1>0, <2>12 DEF Remains
    <3> QED
      BY <1>0, <1>1, <2>1, <3>1, <3>2 DEF UndoInv
  <2> QED
    BY <1>0, <1>1, <2>7, <2>9, <2>10, <2>11, <2>13 DEF ModeInv
<1>2. CASE phase' = "error"
  <2>1. UNCHANGED <<state, entries, fees>> /\ err' \in Errors
    BY <1>0, <1>2 DEF mainnet_deduct_caller, Fail, MainnetVerdict, Errors
  <2>2. loaded' \subseteq Addr /\ coded' \subseteq loaded'
    BY TxType DEF mainnet_deduct_caller, LoadAccountCode, TypeOK
  <2>3. TypeOK'
    BY <1>0, <1>2, <2>1, <2>2 DEF TypeOK, Phases
  <2>4. UndoInv'
    BY <1>0, <1>2, <2>1, UndoStep
  <2> QED
    BY <1>0, <1>2, <2>1, <2>3, <2>4
       DEF ModeInv, GasInv, FeeInv, ChainInv, AfterRollupFee, AfterFrame, AfterValidation,
           FeeConservation, PanicsOnlyOnMetadata
<1> QED
  BY <1>0, <1>1, <1>2

\* The rollup fee is covered by what the execution fee left, and pricing panics
\* only on the transaction's metadata.
LEMMA RollupFeeInd == IndInv /\ deduct_rollup_fee => IndInv'
<1> SUFFICES ASSUME IndInv, deduct_rollup_fee PROVE IndInv'
  OBVIOUS
<1> USE DEF IndInv
<1>0. /\ UNCHANGED <<db, output, runs, tx, block, cfg, mode, chain, entries, start, gas,
                     authRefund, outcome, loaded, coded>>
      /\ phase = "rollupFee" /\ ~tx.l1msg /\ mode # "system" /\ mode # "none"
      /\ fees = [NoFees EXCEPT !.charged = ExecutionFee]
      /\ state = Accounted(start, ExecutionFee) /\ entries = AccountingEntries(<<>>, start)
      /\ phase' \in {"error", "panicked", "loadAccounts"}
  BY DEF deduct_rollup_fee, KeepSession, Fail, ModeInv, FeeInv, UndoInv
<1>1. ExecutionFee' = ExecutionFee /\ RollupFee' = RollupFee /\ RollupCostPanics' = RollupCostPanics
      /\ floor_gas' = floor_gas /\ frame_gas_limit' = frame_gas_limit
  BY <1>0, ContextKept, ChainKept
<1>2. fees.charged = ExecutionFee /\ fees.l1 = 0 /\ fees.reimbursed = 0 /\ fees.rewarded = 0
      /\ ExecutionFee \in Nat
  <2>1. fees.charged = ExecutionFee /\ fees.l1 = 0 /\ fees.reimbursed = 0 /\ fees.rewarded = 0
    BY <1>0 DEF NoFees
  <2> QED
    BY <2>1 DEF TypeOK
<1>7. ASSUME state' = Accounted(start, ExecutionFee + RollupFee), RollupFee \in Int,
             phase' = "loadAccounts"
      PROVE  UndoInv'
  <2> DEFINE n == ExecutionFee + RollupFee
  <2>1. n \in Int
    BY <1>2, <1>7
  <2>2. /\ Accounted(start, n)' = Accounted(start, n)
        /\ AccountingEntries(<<>>, start)' = AccountingEntries(<<>>, start)
    BY <1>0, <1>1, AccountedKept
  <2>3. entries' = AccountingEntries(<<>>, start) /\ state' = Accounted(start, n)
    BY <1>0, <1>7
  <2>4. ~tx'.l1msg /\ state' = Accounted(start, n)'
    BY <1>0, <2>2, <2>3
  <2>6. Undone(entries', state') = start
    <3> HIDE DEF n
    <3> QED
      BY <2>1, <2>3, ChargedUndone
  <2>5. Undone(entries', state') \in Remains'
    BY <1>0, <2>6 DEF Remains
  <2> QED
    BY <1>7, <2>2, <2>3, <2>4, <2>5 DEF UndoInv
<1>3. CASE phase' = "loadAccounts" /\ ~PaysRollupFee(tx)
  <2>1. UNCHANGED <<state, fees, err>> /\ RollupFee = 0
    BY <1>0, <1>3 DEF deduct_rollup_fee, Fail, RollupFee
  <2>2. TypeOK'
    BY <1>0, <1>3, <2>1 DEF TypeOK, Phases
  <2>3. FeeInv'
    BY <1>0, <1>1, <1>2, <1>3, <2>1
       DEF FeeInv, AfterRollupFee, AfterFrame, FeeConservation, PaysRollupFee, is_system_tx
  <2>4. UndoInv'
    <3>1. ExecutionFee + RollupFee = ExecutionFee /\ RollupFee \in Int
      BY <1>2, <2>1
    <3> QED
      BY <1>0, <1>3, <1>7, <2>1, <3>1
  <2> QED
    BY <1>0, <1>1, <1>3, <2>1, <2>2, <2>3, <2>4
       DEF ModeInv, GasInv, ChainInv, AfterRollupFee, AfterFrame, AfterValidation,
           PanicsOnlyOnMetadata, PaysRollupFee, is_system_tx
<1>4. CASE phase' = "loadAccounts" /\ PaysRollupFee(tx)
  <2>1. /\ tx.rlp /\ ~RollupCostPanics /\ CanPayRollupFee
        /\ state' = Debit(state, tx.caller, RollupCost)
        /\ fees' = [fees EXCEPT !.charged = @ + RollupCost, !.l1 = RollupCost]
        /\ UNCHANGED err
    BY <1>0, <1>4 DEF deduct_rollup_fee, Fail
  <2>2. RollupCost \in Nat /\ RollupCost <= state.balance[tx.caller] /\ RollupFee = RollupCost
    BY <1>0, <1>4, <2>1, RollupCostType DEF CanPayRollupFee, RollupFee
  <2>3. state' \in World
    BY <2>1, <2>2, TxType, DebitType DEF TypeOK
  <2>4. fees' = [charged |-> ExecutionFee + RollupFee, l1 |-> RollupFee, reimbursed |-> 0, rewarded |-> 0]
    BY <1>0, <2>1, <2>2 DEF NoFees
  <2>5. fees' \in [charged : Nat, l1 : Nat, reimbursed : Nat, rewarded : Nat]
    BY <1>2, <2>2, <2>4
  <2>6. TypeOK'
    BY <1>0, <1>4, <2>1, <2>3, <2>5 DEF TypeOK, Phases
  <2>7. FeeInv'
    <3>1. /\ fees'.charged = ExecutionFee' + RollupFee' /\ fees'.l1 = RollupFee'
          /\ fees'.reimbursed = 0 /\ fees'.rewarded = 0
      BY <1>1, <2>4
    <3>2. tx.rlp' /\ ~RollupCostPanics'
      BY <1>0, <1>1, <2>1
    <3> QED
      BY <1>4, <3>1, <3>2 DEF FeeInv, AfterRollupFee, AfterFrame, FeeConservation
  <2>8. UndoInv'
    <3>1. start \in Loose /\ ExecutionFee \in Int /\ RollupFee \in Int
      BY <1>2, <2>2, WorldLoose DEF TypeOK
    <3>2. Debit(Accounted(start, ExecutionFee), tx.caller, RollupFee)
            = Accounted(start, ExecutionFee + RollupFee)
      BY <3>1, AccountedMore
    <3> QED
      BY <1>0, <1>4, <1>7, <2>1, <2>2, <3>1, <3>2
  <2> QED
    BY <1>0, <1>1, <1>4, <2>6, <2>7, <2>8
       DEF ModeInv, GasInv, ChainInv, AfterRollupFee, AfterFrame, AfterValidation,
           PanicsOnlyOnMetadata, PaysRollupFee, is_system_tx
<1>5. CASE phase' = "panicked"
  <2>1. UNCHANGED <<state, fees, err>> /\ RollupCostPanics /\ PaysRollupFee(tx)
    BY <1>0, <1>5 DEF deduct_rollup_fee, Fail
  <2>2. metadata_panics(tx.payload, cfg.spec)
    <3>1. chain = try_fetch(db.oracle, cfg.spec)
      BY <1>0, <2>1 DEF ChainInv
    <3>2. ~info_panics(chain, cfg.spec)
      BY <3>1, TxType, FetchedInfoNeverPanics DEF TypeOK, World
    <3> QED
      BY <2>1, <3>2 DEF RollupCostPanics, calculate_panics
  <2>3. TypeOK'
    BY <1>0, <1>5, <2>1 DEF TypeOK, Phases
  <2>4. UndoInv'
    BY <1>0, <1>5, <2>1, UndoStep
  <2> QED
    BY <1>0, <1>5, <2>1, <2>2, <2>3, <2>4
       DEF ModeInv, GasInv, FeeInv, ChainInv, AfterRollupFee, AfterFrame, AfterValidation,
           FeeConservation, PanicsOnlyOnMetadata
<1>6. CASE phase' = "error"
  <2>1. UNCHANGED <<state, fees>> /\ err' \in Errors
    BY <1>0, <1>6 DEF deduct_rollup_fee, Fail, Errors
  <2>2. TypeOK'
    BY <1>0, <1>6, <2>1 DEF TypeOK, Phases
  <2>3. UndoInv'
    BY <1>0, <1>6, <2>1, UndoStep
  <2> QED
    BY <1>0, <1>6, <2>1, <2>2, <2>3
       DEF ModeInv, GasInv, FeeInv, ChainInv, AfterRollupFee, AfterFrame, AfterValidation,
           FeeConservation, PanicsOnlyOnMetadata
<1> QED
  BY <1>0, <1>3, <1>4, <1>5, <1>6

\* An L1 message is charged nothing; its nonce is bumped without an entry, so that
\* it is what may remain of the message.
LEMMA L1MessageInd == IndInv /\ validate_l1_msg => IndInv'
<1> SUFFICES ASSUME IndInv, validate_l1_msg PROVE IndInv'
  OBVIOUS
<1> USE DEF IndInv
<1>0. /\ UNCHANGED <<db, output, runs, tx, block, cfg, mode, chain, start, gas, entries,
                     authRefund, outcome, fees>>
      /\ phase = "l1msg" /\ phase' \in {"error", "loadAccounts"}
      /\ tx.l1msg /\ mode # "system" /\ mode # "none" /\ fees = NoFees
      /\ state = start /\ entries = <<>>
  BY DEF validate_l1_msg, KeepSession, KeepRun, Fail, ModeInv, FeeInv, UndoInv
<1>1. loaded' \subseteq Addr /\ coded' \subseteq loaded'
  BY TxType DEF validate_l1_msg, LoadAccount, TypeOK
<1>2. ExecutionFee' = 0 /\ RollupFee' = 0 /\ ~PaysRollupFee(tx) /\ floor_gas' = floor_gas
      /\ ExecutionFee' = ExecutionFee
  BY <1>0, ContextKept DEF ExecutionFee, RollupFee, PaysRollupFee
<1>3. /\ err' \in Errors
      /\ phase' = "error" => UNCHANGED state
      /\ phase' = "loadAccounts" => state' = L1Nonce(start)
  BY <1>0 DEF validate_l1_msg, Fail, TypeOK, L1MessageVerdict, Errors
<1>4. L1Nonce(start) \in World
  BY TxType, BumpNonceType DEF TypeOK, L1Nonce
<1>5. TypeOK'
  BY <1>0, <1>1, <1>3, <1>4 DEF TypeOK, Phases
<1>6. FeeInv'
  BY <1>0, <1>2 DEF FeeInv, AfterRollupFee, AfterFrame, FeeConservation, NoFees, PaysRollupFee
<1>7. UndoInv'
  <2>1. CASE phase' = "error"
    BY <1>0, <1>3, <2>1, UndoStep
  <2>2. CASE phase' = "loadAccounts"
    <3>1. Undone(entries', state') = L1Nonce(start)
      BY <1>0, <1>3, <1>4, <2>2, WorldLoose, UndoneNothing
    <3>2. L1Nonce(start) \in Remains'
      BY <1>0 DEF L1Nonce, Remains, BumpNonce
    <3>3. L1Nonce(start)' = L1Nonce(start)
      BY <1>0, <1>2, AccountedKept
    <3> QED
      BY <1>0, <1>3, <2>2, <3>1, <3>2, <3>3 DEF UndoInv
  <2> QED
    BY <1>0, <2>1, <2>2
<1>8. ModeInv' /\ GasInv' /\ ChainInv'
  BY <1>0, <1>2 DEF ModeInv, GasInv, ChainInv, AfterRollupFee, AfterFrame, AfterValidation,
                    PanicsOnlyOnMetadata, PaysRollupFee
<1> QED
  BY <1>5, <1>6, <1>7, <1>8

\* Loading the accounts changes none of this.
LEMMA LoadAccountsInd == IndInv /\ load_accounts => IndInv'
<1> SUFFICES ASSUME IndInv, load_accounts PROVE IndInv'
  OBVIOUS
<1> USE DEF IndInv
<1>0. /\ UNCHANGED <<db, output, runs, tx, block, cfg, mode, chain, start, gas, state, entries, loaded,
                     coded, authRefund, outcome, fees, err>>
      /\ phase = "loadAccounts" /\ phase' = "authList"
  BY DEF load_accounts, KeepSession, KeepRun, KeepWorld, journal
<1>1. ExecutionFee' = ExecutionFee /\ RollupFee' = RollupFee
      /\ RollupCostPanics' = RollupCostPanics /\ floor_gas' = floor_gas
  BY <1>0, ContextKept, ChainKept
<1>2. TypeOK'
  BY <1>0, TxType DEF TypeOK, Phases
<1>3. FeeInv'
  BY <1>0, <1>1 DEF FeeInv, AfterRollupFee, AfterFrame, FeeConservation, PaysRollupFee, is_system_tx
<1>4. ModeInv'
  BY <1>0 DEF ModeInv
<1>6. UndoInv'
  <2>1. /\ Accounted(start, ExecutionFee + RollupFee)' = Accounted(start, ExecutionFee + RollupFee)
        /\ AccountingEntries(<<>>, start)' = AccountingEntries(<<>>, start)
        /\ L1Nonce(start)' = L1Nonce(start)
    BY <1>0, <1>1, AccountedKept
  <2>2. Undone(entries', state') \in Remains'
    BY <1>0, RemainsKept DEF UndoInv
  <2>3. IF tx.l1msg THEN state = L1Nonce(start) /\ entries = <<>>
        ELSE /\ state = Accounted(start, ExecutionFee + RollupFee)
             /\ entries = AccountingEntries(<<>>, start)
    BY <1>0 DEF UndoInv
  <2>4. IF tx'.l1msg THEN state' = L1Nonce(start)' /\ entries' = <<>>
        ELSE /\ state' = Accounted(start, ExecutionFee + RollupFee)'
             /\ entries' = AccountingEntries(<<>>, start)'
    BY <1>0, <2>1, <2>3
  <2> QED
    BY <1>0, <2>2, <2>4 DEF UndoInv
<1>5. GasInv' /\ ChainInv'
  BY <1>0, <1>1 DEF GasInv, ChainInv, AfterRollupFee, AfterFrame, AfterValidation, PanicsOnlyOnMetadata,
                    PaysRollupFee, is_system_tx
<1> QED
  BY <1>2, <1>3, <1>4, <1>5, <1>6

\* An authorization is undone, or it is what may remain.
LEMMA AuthListInd == IndInv /\ apply_eip7702_auth_list => IndInv'
<1> SUFFICES ASSUME IndInv, apply_eip7702_auth_list PROVE IndInv'
  OBVIOUS
<1> USE DEF IndInv
<1>0. /\ UNCHANGED <<db, output, runs, tx, block, cfg, mode, chain, start, gas, outcome, fees, err>>
      /\ phase = "authList" /\ phase' = "execution"
  BY DEF apply_eip7702_auth_list, KeepSession
<1>1. ExecutionFee' = ExecutionFee /\ RollupFee' = RollupFee
      /\ RollupCostPanics' = RollupCostPanics /\ floor_gas' = floor_gas
  BY <1>0, ContextKept, ChainKept
<1>2. /\ authRefund' \in Nat
      /\ loaded' \subseteq Addr /\ coded' \subseteq loaded'
  <2>1. \/ UNCHANGED <<loaded, coded>>
        \/ tx.auth \in Addr /\ LoadAccountCode(tx.auth)
    BY TxType DEF apply_eip7702_auth_list, journal
  <2>2. authRefund' \in {authRefund, 0, tx.authRefund}
    BY DEF apply_eip7702_auth_list
  <2>3. authRefund' \in Nat
    BY <2>2, TxType DEF TypeOK
  <2> QED
    BY <2>1, <2>3 DEF LoadAccountCode, TypeOK
<1>3. \/ UNCHANGED <<state, entries>>
      \/ /\ tx.auth # NoAddr /\ state' = Delegated(state)
         /\ \/ UNCHANGED entries
            \/ entries' = Append(Append(entries, CodeEntry(state, tx.auth)), NonceEntry(tx.auth))
  BY DEF apply_eip7702_auth_list, journal
<1>4. /\ state' \in World /\ entries' \in Seq(Entry)
      /\ Undone(entries', state') \in Remains'
  <2>1. state \in World /\ entries \in Seq(Entry) /\ start \in World
    BY DEF TypeOK
  <2>2. CASE UNCHANGED <<state, entries>>
    BY <1>0, <2>1, <2>2, RemainsKept DEF UndoInv
  <2>3. CASE /\ tx.auth # NoAddr /\ state' = Delegated(state)
             /\ entries' = Append(Append(entries, CodeEntry(state, tx.auth)), NonceEntry(tx.auth))
    <3>1. entries' \in Seq(Entry) /\ Undone(entries', state') = Undone(entries, state)
      BY <2>1, <2>3, UndoDelegation
    <3>2. state' \in World
      BY <2>1, <2>3, DelegatedType
    <3> QED
      BY <1>0, <3>1, <3>2, RemainsKept DEF UndoInv
  <2>4. CASE tx.auth # NoAddr /\ state' = Delegated(state) /\ UNCHANGED entries
    <3>1. ~tx.l1msg
      BY <2>4, TxAssumption DEF TypeOK
    <3> DEFINE n == ExecutionFee + RollupFee
    <3>2. state = Accounted(start, n) /\ entries = AccountingEntries(<<>>, start)
      BY <1>0, <3>1 DEF UndoInv
    <3>3. n \in Int
      BY <1>0 DEF FeeInv, AfterRollupFee, AfterFrame, TypeOK
    <3> HIDE DEF n
    <3>4. Undone(entries', state') = Delegated(start)
      BY <2>1, <2>4, <3>2, <3>3, UndoUnderDelegation
    <3>5. Delegated(start) \in Remains'
      BY <1>0, <2>4 DEF Remains, Delegated, BumpNonce
    <3>6. state' \in World
      BY <2>1, <2>4, DelegatedType
    <3> QED
      BY <2>1, <2>4, <3>4, <3>5, <3>6
  <2> QED
    BY <1>3, <2>2, <2>3, <2>4
<1>5. TypeOK'
  BY <1>0, <1>2, <1>4 DEF TypeOK, Phases
<1>6. FeeInv'
  BY <1>0, <1>1 DEF FeeInv, AfterRollupFee, AfterFrame, FeeConservation, PaysRollupFee, is_system_tx
<1>7. ModeInv' /\ UndoInv'
  BY <1>0, <1>4 DEF ModeInv, UndoInv
<1>8. GasInv' /\ ChainInv'
  BY <1>0, <1>1 DEF GasInv, ChainInv, AfterRollupFee, AfterFrame, AfterValidation,
                    PanicsOnlyOnMetadata, PaysRollupFee, is_system_tx
<1> QED
  BY <1>5, <1>6, <1>7, <1>8

-----------------------------------------------------------------------------
(***************************************************************************)
(* The invariant is preserved: the first frame and its gas.                *)
(***************************************************************************)
\* However a frame ends, it leaves no more gas than there was.
LEMMA FrameEndsType ==
  ASSUME NEW limit \in Nat, NEW results \in SUBSET Outcomes, frame_gas_limit \in Nat,
         FrameEndsIn(results, limit) \/ \E o \in Outcomes : FrameEnds(o, 0, 0)
  PROVE  /\ outcome' \in Outcomes /\ phase' = "lastFrame"
         /\ gas' \in [limit : Nat, remaining : Nat, refunded : Nat] /\ gas'.remaining <= limit
<1>1. PICK o \in Outcomes, left \in Nat, r \in Nat : FrameEnds(o, left, r) /\ left <= limit
  BY WorldAssumption DEF FrameEndsIn
<1> QED
  BY <1>1 DEF FrameEnds

\* The first frame begins under entries that undo what it has done so far, or it
\* is over, with what remains of its gas.
LEMMA ExecutionInd == IndInv /\ execution => IndInv'
<1> SUFFICES ASSUME IndInv, execution PROVE IndInv'
  OBVIOUS
<1> USE DEF IndInv
<1>0. /\ UNCHANGED <<db, output, runs, tx, block, cfg, mode, chain, start, authRefund, fees, err>>
      /\ phase = "execution"
  BY DEF execution, KeepSession
<1>1. ExecutionFee' = ExecutionFee /\ RollupFee' = RollupFee
      /\ RollupCostPanics' = RollupCostPanics /\ floor_gas' = floor_gas
      /\ frame_gas_limit' = frame_gas_limit
  BY <1>0, ContextKept, ChainKept
<1>2. frame_gas_limit \in Nat /\ state \in World /\ entries \in Seq(Entry)
  BY <1>0, FrameGasType DEF AfterValidation, AfterRollupFee, TypeOK
<1>3. /\ phase' \in {"frame", "lastFrame"} /\ outcome' \in Outcomes
      /\ gas' \in [limit : Nat, remaining : Nat, refunded : Nat]
      /\ gas'.remaining <= frame_gas_limit
  <2> DEFINE limit == frame_gas_limit
             some == Ends(IF Collides THEN {"halt"} ELSE {"revert", "halt"})
  <2>1. some \in SUBSET Outcomes /\ {"ok", "revert", "halt"} \in SUBSET Outcomes
        /\ "fatal" \in Outcomes /\ "outOfFunds" \in Outcomes
    BY DEF Ends, Outcomes
  <2>2. limit \in Nat
    BY <1>2
  <2>3. \/ FrameEnds("outOfFunds", limit, 0)
        \/ phase' = "frame" /\ UNCHANGED outcome
           /\ gas' = [limit |-> limit, remaining |-> limit, refunded |-> 0]
        \/ FrameEndsIn(some, limit)
        \/ FrameEnds("fatal", 0, 0)
        \/ FrameEndsIn({"ok", "revert", "halt"}, limit)
    BY DEF execution
  <2> HIDE DEF some, IndInv
  <2>4. CASE FrameEnds("outOfFunds", limit, 0)
    BY <2>1, <2>2, <2>4 DEF FrameEnds
  <2>5. CASE phase' = "frame" /\ UNCHANGED outcome
             /\ gas' = [limit |-> limit, remaining |-> limit, refunded |-> 0]
    BY <2>2, <2>5 DEF IndInv, TypeOK
  <2>6. CASE FrameEndsIn(some, limit)
    BY <2>1, <2>2, <2>6, FrameEndsType
  <2>7. CASE FrameEnds("fatal", 0, 0)
    BY <2>1, <2>2, <2>7, FrameEndsType
  <2>8. CASE FrameEndsIn({"ok", "revert", "halt"}, limit)
    BY <2>1, <2>2, <2>8, FrameEndsType
  <2> QED
    BY <2>3, <2>4, <2>5, <2>6, <2>7, <2>8
<1>4. loaded' \subseteq Addr /\ coded' \subseteq loaded'
  <2>1. UNCHANGED <<loaded, coded>> \/ LoadTarget
    BY DEF execution, journal
  <2> QED
    BY <2>1, TxType DEF LoadTarget, LoadAccountCode, TypeOK
<1>5. /\ state' \in World /\ entries' \in Seq(Entry)
      /\ Undone(entries', state') = Undone(entries, state)
  <2>1. /\ EnterFrame(state) \in World /\ EnterFrame(state).balance = state.balance
        /\ EnterEntries(entries) \in Seq(Entry)
        /\ Undone(EnterEntries(entries), EnterFrame(state)) = Undone(entries, state)
    BY <1>2, EnterFrameType, UndoEnter, WorldLoose
  <2>2. \/ UNCHANGED <<state, entries>>
        \/ CanPayValue /\ state' = EnterFrame(state) /\ entries' = EnterEntries(entries)
        \/ /\ CanPayValue /\ ~Collides
           /\ state' = BeginFrame(EnterFrame(state))
           /\ entries' = BeginEntries(EnterEntries(entries))
    BY DEF execution, journal
  <2>3. CASE /\ CanPayValue /\ ~Collides
             /\ state' = BeginFrame(EnterFrame(state))
             /\ entries' = BeginEntries(EnterEntries(entries))
    <3> DEFINE v == EnterFrame(state)
               es == EnterEntries(entries)
    <3>1. tx.create => ~Occupied(v, tx.to)
      BY <2>3 DEF Collides
    <3>2. tx.value <= v.balance[tx.caller]
      BY <2>1, <2>3 DEF CanPayValue
    <3>3. v \in World /\ es \in Seq(Entry) /\ v \in Loose
      BY <2>1, WorldLoose
    <3>4. state' = BeginFrame(v) /\ entries' = BeginEntries(es)
      BY <2>3
    <3>5. Undone(es, v) = Undone(entries, state)
      BY <2>1
    <3> HIDE DEF v, es
    <3>6. BeginFrame(v) \in World
      BY <3>2, <3>3, BeginFrameType
    <3>7. BeginEntries(es) \in Seq(Entry) /\ Undone(BeginEntries(es), BeginFrame(v)) = Undone(es, v)
      BY <3>1, <3>3, UndoBegin
    <3> QED
      BY <3>4, <3>5, <3>6, <3>7
  <2> QED
    BY <1>2, <2>1, <2>2, <2>3
<1>6. TypeOK'
  BY <1>0, <1>3, <1>4, <1>5 DEF TypeOK, Phases
<1>7. FeeInv'
  BY <1>0, <1>1, <1>3 DEF FeeInv, AfterRollupFee, AfterFrame, FeeConservation, PaysRollupFee,
                          is_system_tx
<1>8. ModeInv'
  BY <1>0, <1>3 DEF ModeInv
<1>9. UndoInv'
  BY <1>0, <1>3, <1>5, UndoStep
<1>10. GasInv' /\ ChainInv'
  BY <1>0, <1>1, <1>3 DEF GasInv, ChainInv, AfterRollupFee, AfterFrame, AfterValidation,
                          PanicsOnlyOnMetadata, PaysRollupFee, is_system_tx
<1> QED
  BY <1>6, <1>7, <1>8, <1>9, <1>10

\* An operation that makes a world, under entries that undo it, preserves the
\* invariant.
LEMMA OperationInd ==
  ASSUME IndInv, NEW w \in World, NEW es \in Seq(Entry), NEW accounts \in SUBSET Addr,
         Operation(w, es, accounts), Undone(es, w) = Undone(entries, state)
  PROVE  IndInv'
<1>0. /\ UNCHANGED <<db, output, runs, tx, block, cfg, mode, chain, start, authRefund, outcome, fees,
                     err, phase>>
      /\ phase = "frame" /\ state' = w /\ entries' = es
      /\ loaded' = loaded \cup accounts /\ coded' = coded \cup accounts
      /\ gas.remaining >= CallGas /\ gas' = [gas EXCEPT !.remaining = @ - CallGas]
      /\ TypeOK /\ ModeInv /\ GasInv /\ FeeInv /\ ChainInv /\ UndoInv
  BY DEF Operation, KeepSession, IndInv
<1>1. ExecutionFee' = ExecutionFee /\ RollupFee' = RollupFee
      /\ RollupCostPanics' = RollupCostPanics /\ floor_gas' = floor_gas
      /\ frame_gas_limit' = frame_gas_limit
  BY <1>0, ContextKept, ChainKept
<1>2. /\ gas' \in [limit : Nat, remaining : Nat, refunded : Nat]
      /\ gas'.remaining <= frame_gas_limit
  <2>1. /\ gas \in [limit : Nat, remaining : Nat, refunded : Nat] /\ CallGas \in Nat
        /\ gas.remaining <= frame_gas_limit
    BY <1>0, WorldAssumption DEF TypeOK, GasInv
  <2>2. frame_gas_limit \in Nat
    BY <1>0, FrameGasType DEF AfterValidation, AfterRollupFee
  <2>3. gas.remaining - CallGas \in Nat /\ gas.remaining - CallGas <= frame_gas_limit
    BY <1>0, <2>1, <2>2
  <2>4. gas'.remaining = gas.remaining - CallGas
    BY <1>0, <2>1
  <2> QED
    BY <1>0, <2>1, <2>3, <2>4
<1>3. TypeOK'
  <2>1. loaded' \subseteq Addr /\ coded' \subseteq loaded'
    BY <1>0 DEF TypeOK
  <2> QED
    BY <1>0, <1>2, <2>1 DEF TypeOK, Phases
<1>4. FeeInv'
  BY <1>0, <1>1 DEF FeeInv, AfterRollupFee, AfterFrame, FeeConservation, PaysRollupFee, is_system_tx
<1>5. ModeInv'
  BY <1>0 DEF ModeInv
<1>6. UndoInv'
  BY <1>0, UndoStep
<1>7. GasInv' /\ ChainInv'
  BY <1>0, <1>1, <1>2 DEF GasInv, ChainInv, AfterRollupFee, AfterFrame, AfterValidation,
                          PanicsOnlyOnMetadata, PaysRollupFee, is_system_tx
<1> QED
  BY <1>3, <1>4, <1>5, <1>6, <1>7 DEF IndInv

\* What contracts pay is undone by the transfers they made.
LEMMA ContractPaysInd == IndInv /\ contract_pays => IndInv'
<1> SUFFICES ASSUME IndInv, contract_pays PROVE IndInv'
  OBVIOUS
<1>1. PICK p \in Payments :
        /\ p.amount <= state.balance[p.from]
        /\ Operation(Pay(state, p.from, p.to, p.amount),
                     Append(entries, TransferEntry(p.from, p.to, p.amount)), {p.from, p.to})
  BY DEF contract_pays
<1>2. p.from \in Addr /\ p.to \in Addr /\ p.amount \in Nat
  BY WorldAssumption
<1>3. state \in World /\ state \in Loose /\ entries \in Seq(Entry)
  BY WorldLoose DEF IndInv, TypeOK
<1> DEFINE w == Pay(state, p.from, p.to, p.amount)
           e == TransferEntry(p.from, p.to, p.amount)
<1>4. w \in World
  BY <1>1, <1>2, <1>3, PayType
<1>5. e \in Entry /\ w \in Loose /\ UndoEntry(e, w) = state
  BY <1>2, <1>3, UndoTransfer
<1>6. Operation(w, Append(entries, e), {p.from, p.to})
  BY <1>1
<1> HIDE DEF w, e
<1>7. Append(entries, e) \in Seq(Entry) /\ Undone(Append(entries, e), w) = Undone(entries, state)
  BY <1>3, <1>5, UndoLast
<1> QED
  BY <1>2, <1>4, <1>6, <1>7, OperationInd

\* What they create, by the nonces and accounts they bumped and made.
LEMMA ContractCreatesInd == IndInv /\ contract_creates => IndInv'
<1> SUFFICES ASSUME IndInv, contract_creates PROVE IndInv'
  OBVIOUS
<1>1. PICK c \in Creations :
        /\ HasCode(c.from) /\ ~Occupied(state, c.new)
        /\ Operation(Created(BumpNonce(state, c.from), c.new),
                     Append(Append(entries, NonceEntry(c.from)), CreatedEntry(c.new)),
                     {c.from, c.new})
  BY DEF contract_creates
<1>2. c.from \in Addr /\ c.new \in Addr
  BY WorldAssumption
<1>3. state \in World /\ state \in Loose /\ entries \in Seq(Entry)
  BY WorldLoose DEF IndInv, TypeOK
<1>4. c.from # c.new
  BY <1>1 DEF HasCode, Occupied
<1> DEFINE v == BumpNonce(state, c.from)
           w == Created(v, c.new)
           es == Append(entries, NonceEntry(c.from))
<1>5. Operation(w, Append(es, CreatedEntry(c.new)), {c.from, c.new})
  BY <1>1
<1>6. /\ NonceEntry(c.from) \in Entry /\ v \in World /\ v \in Loose
      /\ UndoEntry(NonceEntry(c.from), v) = state
  BY <1>2, <1>3, UndoNonce, BumpNonceType
<1>7. ~Occupied(v, c.new)
  BY <1>1, <1>2, <1>3, <1>4, BumpParts DEF Occupied
<1> HIDE DEF v
<1>8. CreatedEntry(c.new) \in Entry /\ w \in World /\ w \in Loose /\ UndoEntry(CreatedEntry(c.new), w) = v
  BY <1>2, <1>6, <1>7, UndoCreated, CreatedType
<1> HIDE DEF w
<1>9. es \in Seq(Entry) /\ Undone(es, v) = Undone(entries, state)
  BY <1>3, <1>6, UndoLast
<1> HIDE DEF es
<1>10. /\ Append(es, CreatedEntry(c.new)) \in Seq(Entry)
       /\ Undone(Append(es, CreatedEntry(c.new)), w) = Undone(es, v)
  BY <1>8, <1>9, UndoLast
<1> QED
  BY <1>2, <1>5, <1>8, <1>9, <1>10, OperationInd

\* What the oracle was set to, by what it held.
LEMMA OracleInd == IndInv /\ oracle_is_updated => IndInv'
<1> SUFFICES ASSUME IndInv, oracle_is_updated PROVE IndInv'
  OBVIOUS
<1>1. PICK o \in OracleStates :
        Operation([state EXCEPT !.oracle = o], Append(entries, StorageEntry(state)),
                  {L1_GAS_PRICE_ORACLE_ADDRESS})
  BY DEF oracle_is_updated
<1>2. o \in OracleStorage /\ L1_GAS_PRICE_ORACLE_ADDRESS \in Addr
  BY WorldAssumption, AddrAssumption
<1>3. state \in World /\ state \in Loose /\ entries \in Seq(Entry)
  BY WorldLoose DEF IndInv, TypeOK
<1> DEFINE w == [state EXCEPT !.oracle = o]
<1>4. w \in World
  BY <1>2, <1>3 DEF World
<1>5. StorageEntry(state) \in Entry /\ w \in Loose /\ UndoEntry(StorageEntry(state), w) = state
  BY <1>2, <1>3, UndoStorage
<1>6. Operation(w, Append(entries, StorageEntry(state)), {L1_GAS_PRICE_ORACLE_ADDRESS})
  BY <1>1
<1> HIDE DEF w
<1>7. /\ Append(entries, StorageEntry(state)) \in Seq(Entry)
      /\ Undone(Append(entries, StorageEntry(state)), w) = Undone(entries, state)
  BY <1>3, <1>5, UndoLast
<1> QED
  BY <1>2, <1>4, <1>6, <1>7, OperationInd

\* A frame that succeeds keeps what it did.
LEMMA FrameReturnsInd == IndInv /\ frame_returns => IndInv'
<1> SUFFICES ASSUME IndInv, frame_returns PROVE IndInv'
  OBVIOUS
<1>0. /\ UNCHANGED <<db, output, runs, tx, block, cfg, mode, chain, start, authRefund, fees, err,
                     state, entries, loaded, coded>>
      /\ phase = "frame" /\ FrameEndsIn(Ends({"ok"}), gas.remaining)
      /\ TypeOK /\ ModeInv /\ GasInv /\ FeeInv /\ ChainInv /\ UndoInv
  BY DEF frame_returns, KeepSession, KeepWorld, journal, IndInv
<1>1. ExecutionFee' = ExecutionFee /\ RollupFee' = RollupFee
      /\ RollupCostPanics' = RollupCostPanics /\ floor_gas' = floor_gas
      /\ frame_gas_limit' = frame_gas_limit
  BY <1>0, ContextKept, ChainKept
<1>2. /\ frame_gas_limit \in Nat /\ gas.remaining \in Nat /\ gas.remaining <= frame_gas_limit
  BY <1>0, FrameGasType DEF AfterValidation, AfterRollupFee, TypeOK, GasInv
<1>3. Ends({"ok"}) \in SUBSET Outcomes
  BY DEF Ends, Outcomes
<1>4. /\ phase' = "lastFrame" /\ outcome' \in Outcomes
      /\ gas' \in [limit : Nat, remaining : Nat, refunded : Nat]
      /\ gas'.remaining <= gas.remaining
  BY <1>0, <1>2, <1>3, FrameEndsType
<1>5. gas'.remaining <= frame_gas_limit
  BY <1>2, <1>4
<1>6. TypeOK'
  BY <1>0, <1>4 DEF TypeOK, Phases
<1>7. FeeInv'
  BY <1>0, <1>1, <1>4 DEF FeeInv, AfterRollupFee, AfterFrame, FeeConservation, PaysRollupFee,
                          is_system_tx
<1>8. ModeInv'
  BY <1>0, <1>4 DEF ModeInv
<1>9. UndoInv'
  BY <1>0, <1>4, UndoStep
<1>10. GasInv' /\ ChainInv'
  BY <1>0, <1>1, <1>4, <1>5 DEF GasInv, ChainInv, AfterRollupFee, AfterFrame, AfterValidation,
                                PanicsOnlyOnMetadata, PaysRollupFee, is_system_tx
<1> QED
  BY <1>6, <1>7, <1>8, <1>9, <1>10 DEF IndInv

\* What is left of the gas is within the transaction's limit, and an L1 message
\* has no refund.
LEMMA LastFrameInd == IndInv /\ last_frame_result => IndInv'
<1> SUFFICES ASSUME IndInv, last_frame_result PROVE IndInv'
  OBVIOUS
<1> USE DEF IndInv
<1>0. /\ UNCHANGED <<db, output, runs, tx, block, cfg, mode, chain, start, state, entries, loaded, coded,
                     authRefund, outcome, fees, err>>
      /\ phase = "lastFrame" /\ phase' = IF mode = "system" THEN "result" ELSE "refund"
  BY DEF last_frame_result, KeepSession, KeepWorld, journal
<1>1. ExecutionFee' = ExecutionFee /\ RollupFee' = RollupFee
      /\ RollupCostPanics' = RollupCostPanics /\ floor_gas' = floor_gas
  BY <1>0, ContextKept, ChainKept
<1>2. /\ gas' \in [limit : Nat, remaining : Nat, refunded : Nat]
      /\ gas'.limit = tx.gasLimit /\ gas'.remaining <= gas'.limit
      /\ tx.l1msg => gas'.refunded = 0
  <2>1. frame_gas_limit \in Nat /\ frame_gas_limit <= tx.gasLimit /\ tx.gasLimit \in Nat
    BY <1>0, FrameGasType, TxType DEF AfterValidation, AfterRollupFee, AfterFrame
  <2>2. gas.remaining \in Nat /\ gas.refunded \in Nat /\ gas.remaining <= frame_gas_limit
    BY <1>0 DEF TypeOK, GasInv
  <2>3. gas.remaining <= tx.gasLimit
    BY <2>1, <2>2
  <2> QED
    BY <2>1, <2>2, <2>3 DEF last_frame_result
<1>3. TypeOK'
  BY <1>0, <1>2 DEF TypeOK, Phases
<1>4. FeeInv'
  <2>1. mode = "system" => ExecutionFee = 0 /\ RollupFee = 0
    BY DEF ExecutionFee, RollupFee
  <2>2. mode = "system" => ~tx.l1msg
    BY SystemCallAssumption DEF ModeInv
  <2> QED
    BY <1>0, <1>1, <2>1, <2>2
       DEF FeeInv, AfterRollupFee, AfterFrame, FeeConservation, PaysRollupFee, is_system_tx
<1>5. ModeInv' /\ UndoInv'
  BY <1>0, UndoStep DEF ModeInv
<1>6. GasInv' /\ ChainInv'
  BY <1>0, <1>1, <1>2 DEF GasInv, ChainInv, AfterRollupFee, AfterFrame, AfterValidation, PanicsOnlyOnMetadata,
                          PaysRollupFee, is_system_tx
<1> QED
  BY <1>3, <1>4, <1>5, <1>6

\* The refund counter is cut to a fifth of what was spent, so that refunded and
\* remaining gas stay within the limit.
LEMMA RefundInd == IndInv /\ refund => IndInv'
<1> SUFFICES ASSUME IndInv, refund PROVE IndInv'
  OBVIOUS
<1> USE DEF IndInv
<1>0. /\ UNCHANGED <<db, output, runs, tx, block, cfg, mode, chain, start, state, entries, loaded, coded,
                     authRefund, outcome, fees, err>>
      /\ phase = "refund" /\ phase' = "floor" /\ mode # "system"
  BY DEF refund, KeepSession, KeepWorld, journal, ModeInv
<1>1. ExecutionFee' = ExecutionFee /\ RollupFee' = RollupFee
      /\ RollupCostPanics' = RollupCostPanics /\ floor_gas' = floor_gas
  BY <1>0, ContextKept, ChainKept
<1>2. /\ gas.limit = tx.gasLimit /\ gas.remaining <= gas.limit
      /\ gas \in [limit : Nat, remaining : Nat, refunded : Nat] /\ authRefund \in Nat
  BY <1>0 DEF GasInv, TypeOK
<1>3. /\ gas' \in [limit : Nat, remaining : Nat, refunded : Nat]
      /\ gas'.limit = tx.gasLimit /\ gas'.remaining <= gas'.limit
      /\ gas'.remaining + gas'.refunded <= gas'.limit
      /\ tx.l1msg => gas'.refunded = 0
  <2>1. CASE tx.l1msg
    <3>1. gas' = gas /\ gas.refunded = 0
      BY <1>0, <2>1 DEF refund, GasInv
    <3> QED
      BY <1>2, <3>1
  <2>2. CASE ~tx.l1msg
    <3> DEFINE spent == gas_spent
               r == AtMost(gas.refunded + authRefund, spent \div MAX_REFUND_QUOTIENT)
    <3>1. spent \in Nat /\ spent = gas.limit - gas.remaining
      BY <1>2 DEF gas_spent
    <3>2. r \in Nat /\ r <= spent
      <4>1. spent \div MAX_REFUND_QUOTIENT \in Nat /\ spent \div MAX_REFUND_QUOTIENT <= spent
        BY <3>1 DEF MAX_REFUND_QUOTIENT
      <4>2. gas.refunded + authRefund \in Nat
        BY <1>2
      <4>3. r \in 0 .. spent \div MAX_REFUND_QUOTIENT
        BY <4>1, <4>2, AtMostRange
      <4> HIDE DEF r, spent
      <4> QED
        BY <3>1, <4>1, <4>3
    <3>3. gas' = [gas EXCEPT !.refunded = r]
      BY <2>2 DEF refund
    <3> HIDE DEF r, spent
    <3> QED
      BY <1>2, <2>2, <3>1, <3>2, <3>3
  <2> QED
    BY <2>1, <2>2
<1>4. TypeOK'
  BY <1>0, <1>3 DEF TypeOK, Phases
<1>5. FeeInv'
  BY <1>0, <1>1 DEF FeeInv, AfterRollupFee, AfterFrame, FeeConservation, PaysRollupFee, is_system_tx
<1>6. ModeInv' /\ UndoInv'
  BY <1>0, UndoStep DEF ModeInv
<1>7. GasInv' /\ ChainInv'
  BY <1>0, <1>1, <1>3 DEF GasInv, ChainInv, AfterRollupFee, AfterFrame, AfterValidation,
                                PanicsOnlyOnMetadata, PaysRollupFee, is_system_tx
<1> QED
  BY <1>4, <1>5, <1>6, <1>7

\* The floor was checked against the limit, so raising the gas used to it stays
\* within the limit.
LEMMA FloorInd == IndInv /\ eip7623_check_gas_floor => IndInv'
<1> SUFFICES ASSUME IndInv, eip7623_check_gas_floor PROVE IndInv'
  OBVIOUS
<1> USE DEF IndInv
<1>0. /\ UNCHANGED <<db, output, runs, tx, block, cfg, mode, chain, start, state, entries, loaded, coded,
                     authRefund, outcome, fees, err>>
      /\ phase = "floor" /\ phase' = "reimburse" /\ mode # "system"
  BY DEF eip7623_check_gas_floor, KeepSession, KeepWorld, journal, ModeInv
<1>1. ExecutionFee' = ExecutionFee /\ RollupFee' = RollupFee
      /\ RollupCostPanics' = RollupCostPanics /\ floor_gas' = floor_gas
  BY <1>0, ContextKept, ChainKept
<1>2. /\ gas.limit = tx.gasLimit /\ gas.remaining <= gas.limit
      /\ gas.remaining + gas.refunded <= gas.limit
      /\ gas \in [limit : Nat, remaining : Nat, refunded : Nat]
      /\ floor_gas \in Nat /\ floor_gas <= gas.limit
      /\ tx.l1msg => gas.refunded = 0
  BY <1>0, FloorType DEF GasInv, TypeOK, AfterValidation, AfterRollupFee, AfterFrame
<1>3. /\ gas' \in [limit : Nat, remaining : Nat, refunded : Nat]
      /\ gas'.limit = tx.gasLimit /\ gas'.remaining <= gas'.limit
      /\ gas'.remaining + gas'.refunded <= gas'.limit
      /\ tx.l1msg => gas'.refunded = 0
  <2>1. gas' = gas \/ gas' = [gas EXCEPT !.remaining = gas.limit - floor_gas, !.refunded = 0]
    BY DEF eip7623_check_gas_floor
  <2>2. gas.limit - floor_gas \in Nat /\ gas.limit - floor_gas <= gas.limit
    BY <1>2
  <2>3. CASE gas' = [[gas EXCEPT !.remaining = gas.limit - floor_gas] EXCEPT !.refunded = 0]
    <3>1. gas' = [limit |-> gas.limit, remaining |-> gas.limit - floor_gas, refunded |-> 0]
      BY <1>2, <2>3
    <3> QED
      BY <1>2, <2>2, <3>1
  <2> QED
    BY <1>2, <2>1, <2>3
<1>4. TypeOK'
  BY <1>0, <1>3 DEF TypeOK, Phases
<1>5. FeeInv'
  BY <1>0, <1>1 DEF FeeInv, AfterRollupFee, AfterFrame, FeeConservation, PaysRollupFee, is_system_tx
<1>6. ModeInv' /\ UndoInv'
  BY <1>0, UndoStep DEF ModeInv
<1>7. GasInv' /\ ChainInv'
  BY <1>0, <1>1, <1>3 DEF GasInv, ChainInv, AfterRollupFee, AfterFrame, AfterValidation,
                          PanicsOnlyOnMetadata, PaysRollupFee, is_system_tx
<1> QED
  BY <1>4, <1>5, <1>6, <1>7

-----------------------------------------------------------------------------
(***************************************************************************)
(* The invariant is preserved: fees after execution.                       *)
(***************************************************************************)
\* A credit is undone by the balance that was there before.
LEMMA CreditUndone ==
  ASSUME IndInv, NEW a \in Addr, NEW n \in Nat
  PROVE  LET w  == Credit(state, a, n)
             es == Append(entries, BalanceEntry(state, a))
         IN  w \in World /\ es \in Seq(Entry) /\ Undone(es, w) = Undone(entries, state)
<1> DEFINE w == Credit(state, a, n)
           e == BalanceEntry(state, a)
<1>1. state \in World /\ state \in Loose /\ entries \in Seq(Entry)
  BY WorldLoose DEF IndInv, TypeOK
<1>2. w \in World /\ w \in Loose
  BY <1>1, CreditType, WorldLoose
<1>3. /\ \A b \in Addr \ {a} : w.balance[b] = state.balance[b]
      /\ w.nonce = state.nonce /\ w.code = state.code /\ w.oracle = state.oracle
  <2>1. /\ \A b \in Addr : w.balance[b] = IF b = a THEN state.balance[b] + n ELSE state.balance[b]
        /\ w.nonce = state.nonce /\ w.code = state.code /\ w.oracle = state.oracle
    BY <1>1, CreditParts
  <2> HIDE DEF w
  <2> QED
    BY <2>1
<1> HIDE DEF w
<1>4. e \in Entry /\ UndoEntry(e, w) = state
  BY <1>1, <1>2, <1>3, UndoBalance
<1> HIDE DEF e
<1>5. Append(entries, e) \in Seq(Entry) /\ Undone(Append(entries, e), w) = Undone(entries, state)
  BY <1>1, <1>2, <1>4, UndoLast
<1> QED
  BY <1>2, <1>5 DEF w, e

\* What is given back is the price of the gas left and refunded.
LEMMA ReimburseInd == IndInv /\ reimburse_caller => IndInv'
<1> SUFFICES ASSUME IndInv, reimburse_caller PROVE IndInv'
  OBVIOUS
<1> USE DEF IndInv
<1> DEFINE back == GasPrice * (gas.remaining + gas.refunded)
<1>0. /\ UNCHANGED <<db, output, runs, tx, block, cfg, mode, chain, start, loaded, coded, gas,
                     authRefund, outcome, err>>
      /\ phase = "reimburse" /\ phase' = "reward" /\ mode # "system"
      /\ state' = Credit(state, tx.caller, back)
      /\ entries' = Append(entries, BalanceEntry(state, tx.caller))
      /\ fees' = [fees EXCEPT !.reimbursed = @ + back]
  BY DEF reimburse_caller, KeepSession, ModeInv
<1>1. ExecutionFee' = ExecutionFee /\ RollupFee' = RollupFee /\ GasPrice' = GasPrice
      /\ RollupCostPanics' = RollupCostPanics /\ floor_gas' = floor_gas
  BY <1>0, ContextKept, ChainKept
<1>2. back \in Nat /\ back' = back
  <2>1. GasPrice \in Nat /\ gas.remaining + gas.refunded \in Nat
    BY GasPriceRange DEF TypeOK
  <2> HIDE DEF GasPrice
  <2> QED
    BY <1>0, <1>1, <2>1, MulNat
<1> HIDE DEF back
<1>3. /\ fees \in [charged : Nat, l1 : Nat, reimbursed : Nat, rewarded : Nat]
      /\ fees.reimbursed = 0 /\ fees.rewarded = 0
      /\ fees.charged = ExecutionFee + RollupFee /\ fees.l1 = RollupFee
  BY <1>0 DEF TypeOK, FeeInv, AfterRollupFee, AfterFrame
<1>4. /\ fees' \in [charged : Nat, l1 : Nat, reimbursed : Nat, rewarded : Nat]
      /\ fees'.reimbursed = back /\ fees'.rewarded = 0
      /\ fees'.charged = fees.charged /\ fees'.l1 = fees.l1
  BY <1>0, <1>2, <1>3
<1>9. /\ state' \in World /\ entries' \in Seq(Entry)
      /\ Undone(entries', state') = Undone(entries, state)
  BY <1>0, <1>2, TxType, CreditUndone
<1>5. TypeOK'
  BY <1>0, <1>4, <1>9 DEF TypeOK, Phases
<1>6. FeeInv'
  <2>1. fees'.reimbursed = GasPrice' * (gas'.remaining + gas'.refunded)
    BY <1>2, <1>4 DEF back
  <2> QED
    BY <1>0, <1>1, <1>3, <1>4, <2>1
       DEF FeeInv, AfterRollupFee, AfterFrame, FeeConservation, PaysRollupFee, is_system_tx
<1>7. ModeInv' /\ UndoInv'
  BY <1>0, <1>9, UndoStep DEF ModeInv
<1>8. GasInv' /\ ChainInv'
  BY <1>0, <1>1 DEF GasInv, ChainInv, AfterRollupFee, AfterFrame, AfterValidation, PanicsOnlyOnMetadata,
                    PaysRollupFee, is_system_tx
<1> QED
  BY <1>5, <1>6, <1>7, <1>8

\* The price of all the gas is the price of the gas left and of the gas used.
LEMMA Distribute ==
  ASSUME NEW price \in Nat, NEW limit \in Nat, NEW left \in Nat, left <= limit
  PROVE  limit * price = price * left + price * (limit - left)
  BY SMT

\* The reward does not saturate: it is the price of the gas used and the rollup fee.
LEMMA RewardExact ==
  ASSUME IndInv, phase = "reward", ~tx.l1msg
  PROVE  LET used == gas.limit - (gas.remaining + gas.refunded)
         IN  Reward = GasPrice * used + RollupFee
<1> DEFINE left == gas.remaining + gas.refunded
           used == gas.limit - left
           l1   == IF is_system_tx(tx) THEN 0 ELSE RollupCost
<1>1. mode # "system" /\ TypeOK
  BY DEF IndInv, ModeInv
<1>2. /\ gas.limit \in Nat /\ left \in Nat /\ left <= gas.limit
      /\ gas.limit = tx.gasLimit /\ used \in Nat /\ used <= tx.gasLimit
      /\ gas_used = used
  BY <1>1 DEF IndInv, GasInv, TypeOK, gas_used, gas_spent
<1>3. l1 = RollupFee /\ l1 \in Nat /\ l1 <= U64Max
  <2>1. CASE is_system_tx(tx)
    BY <1>1, <2>1, WidthAssumption DEF RollupFee, PaysRollupFee
  <2>2. CASE ~is_system_tx(tx)
    <3>1. ~RollupCostPanics
      BY <1>1, <2>2 DEF IndInv, FeeInv, AfterRollupFee, AfterFrame, PaysRollupFee
    <3> QED
      BY <1>1, <2>2, <3>1, RollupCostType DEF RollupFee, PaysRollupFee
  <2> QED
    BY <2>1, <2>2
<1>4. GasPrice \in Nat /\ GasPrice <= tx.maxFee /\ tx.maxFee \in Nat /\ tx.gasLimit \in Nat
  BY <1>1, GasPriceRange, TxType
<1> HIDE DEF GasPrice, used, l1
<1>5. /\ GasPrice * used \in Nat
      /\ GasPrice * used + U64Max <= U256Max
  <2>1. GasPrice * used <= GasPrice * tx.gasLimit
    BY <1>2, <1>4, MulMonotone
  <2>2. tx.gasLimit * GasPrice <= tx.gasLimit * tx.maxFee
    BY <1>4, MulMonotone
  <2>3. GasPrice * tx.gasLimit = tx.gasLimit * GasPrice
    BY <1>4
  <2>4. /\ GasPrice * used \in Nat /\ tx.gasLimit * tx.maxFee \in Nat
        /\ tx.gasLimit * GasPrice \in Nat
    BY <1>2, <1>4, MulNat
  <2>5. tx.gasLimit * tx.maxFee + U64Max <= U256Max
    BY <1>1, FeeWidthAssumption DEF TypeOK
  <2>6. U64Max \in Nat /\ U256Max \in Nat
    BY WidthAssumption
  <2> QED
    BY <2>1, <2>2, <2>3, <2>4, <2>5, <2>6
<1>6. saturating_mul(GasPrice, used) = GasPrice * used
  BY <1>5, WidthAssumption DEF saturating_mul, AtMost
<1>7. saturating_add(GasPrice * used, l1) = GasPrice * used + l1
  BY <1>3, <1>5, WidthAssumption DEF saturating_add, AtMost
<1>8. Reward = saturating_add(saturating_mul(GasPrice, gas_used), l1)
  BY DEF Reward, l1
<1> QED
  BY <1>2, <1>3, <1>6, <1>7, <1>8 DEF used

\* The fee that was deducted is paid out in full: to the caller what the gas left
\* is worth, to the beneficiary the rest and the rollup fee.  An L1 message has no
\* refund and no reward.
LEMMA RewardInd == IndInv /\ reward_beneficiary => IndInv'
<1> SUFFICES ASSUME IndInv, reward_beneficiary PROVE IndInv'
  OBVIOUS
<1>0. /\ UNCHANGED <<db, output, runs, tx, block, cfg, mode, chain, start, gas, authRefund, outcome>>
      /\ phase = "reward" /\ mode # "system" /\ mode # "none"
  BY DEF reward_beneficiary, KeepSession, IndInv, ModeInv
<1>1. ExecutionFee' = ExecutionFee /\ RollupFee' = RollupFee /\ GasPrice' = GasPrice
      /\ RollupCostPanics' = RollupCostPanics /\ floor_gas' = floor_gas
  BY <1>0, ContextKept, ChainKept
<1>2. /\ fees \in [charged : Nat, l1 : Nat, reimbursed : Nat, rewarded : Nat]
      /\ fees.charged = ExecutionFee + RollupFee /\ fees.l1 = RollupFee
      /\ fees.rewarded = 0
      /\ fees.reimbursed = GasPrice * (gas.remaining + gas.refunded)
      /\ (PaysRollupFee(tx) => tx.rlp /\ ~RollupCostPanics)
  BY <1>0 DEF IndInv, TypeOK, FeeInv, AfterRollupFee, AfterFrame
<1>3. /\ phase' = "result" /\ UNCHANGED err
      /\ state' \in World /\ loaded' \subseteq Addr /\ coded' \subseteq loaded'
      /\ entries' \in Seq(Entry) /\ Undone(entries', state') = Undone(entries, state)
      /\ fees' \in [charged : Nat, l1 : Nat, reimbursed : Nat, rewarded : Nat]
      /\ fees'.charged = fees.charged /\ fees'.l1 = fees.l1
      /\ IF tx.l1msg
         THEN /\ fees'.charged = 0 /\ fees'.rewarded = 0
              /\ fees'.reimbursed = GasPrice * gas.remaining
         ELSE fees'.charged = fees'.reimbursed + fees'.rewarded
  <2>1. CASE tx.l1msg
    <3>1. phase' = "result" /\ UNCHANGED <<state, entries, loaded, coded, fees, err>>
      BY <2>1 DEF reward_beneficiary, skip_reward, journal
    <3>2. ExecutionFee = 0 /\ RollupFee = 0
      BY <2>1 DEF IndInv, ExecutionFee, RollupFee, PaysRollupFee
    <3>3. fees.charged = 0
      BY <1>2, <3>2
    <3>4. gas.refunded = 0 /\ gas.remaining \in Nat
      BY <1>0, <2>1 DEF IndInv, GasInv, TypeOK
    <3>5. gas.remaining + gas.refunded = gas.remaining
      BY <3>4
    <3>6. fees.reimbursed = GasPrice * gas.remaining
      BY <1>2, <3>5
    <3>7. /\ state \in World /\ loaded \subseteq Addr /\ coded \subseteq loaded
          /\ entries \in Seq(Entry)
      BY DEF IndInv, TypeOK
    <3> HIDE DEF GasPrice
    <3> QED
      BY <1>2, <2>1, <3>1, <3>3, <3>6, <3>7
  <2>2. CASE ~tx.l1msg
    <3>1. /\ LoadAccount(block.beneficiary)
          /\ state' = Credit(state, block.beneficiary, Reward)
          /\ entries' = Append(entries, BalanceEntry(state, block.beneficiary))
          /\ fees' = [fees EXCEPT !.rewarded = @ + Reward]
          /\ phase' = "result" /\ UNCHANGED err
      BY <1>2, <2>2 DEF reward_beneficiary, skip_reward
    <3> DEFINE left == gas.remaining + gas.refunded
               used == gas.limit - left
    <3>2. Reward = GasPrice * used + RollupFee
      BY <1>0, <2>2, RewardExact
    <3>3. /\ GasPrice \in Nat /\ left \in Nat /\ left <= gas.limit /\ gas.limit \in Nat
          /\ gas.limit = tx.gasLimit
      BY <1>0, GasPriceRange DEF IndInv, GasInv, TypeOK
    <3>4. RollupFee \in Nat
      BY <1>2
    <3>5. ExecutionFee = gas.limit * GasPrice
      BY <1>0, <2>2, <3>3 DEF ExecutionFee
    <3> HIDE DEF GasPrice, ExecutionFee, RollupFee, Reward
    <3>6. gas.limit * GasPrice = GasPrice * left + GasPrice * used
      BY <3>3, Distribute
    <3>7. used \in Nat
      BY <3>3
    <3> HIDE DEF left, used
    <3>8. GasPrice * left \in Nat /\ GasPrice * used \in Nat
      BY <3>3, <3>7, MulNat
    <3>9. Reward \in Nat
      BY <3>2, <3>4, <3>8
    <3>10. fees.reimbursed = GasPrice * left
      BY <1>2 DEF left
    <3>11. fees' \in [charged : Nat, l1 : Nat, reimbursed : Nat, rewarded : Nat]
      BY <1>2, <3>1, <3>9
    <3>12. /\ fees'.charged = fees.charged /\ fees'.l1 = fees.l1
           /\ fees'.reimbursed = fees.reimbursed /\ fees'.rewarded = Reward
      BY <1>2, <3>1, <3>9
    <3>13. fees'.charged = fees'.reimbursed + fees'.rewarded
      BY <1>2, <3>2, <3>4, <3>5, <3>6, <3>8, <3>10, <3>12
    <3>14. block.beneficiary \in Addr
      BY TxType DEF IndInv, Block
    <3>15. /\ state' \in World /\ entries' \in Seq(Entry)
           /\ Undone(entries', state') = Undone(entries, state)
      BY <3>1, <3>9, <3>14, CreditUndone
    <3>16. loaded' \subseteq Addr /\ coded' \subseteq loaded'
      BY <3>1, <3>14 DEF LoadAccount, IndInv, TypeOK
    <3> QED
      BY <2>2, <3>1, <3>11, <3>12, <3>13, <3>15, <3>16
  <2> QED
    BY <2>1, <2>2
<1> USE DEF IndInv
<1>4. TypeOK'
  BY <1>0, <1>3 DEF TypeOK, Phases
<1>5. FeeInv'
  BY <1>0, <1>1, <1>2, <1>3
     DEF FeeInv, AfterRollupFee, AfterFrame, FeeConservation, PaysRollupFee, is_system_tx
<1>6. ModeInv' /\ UndoInv'
  BY <1>0, <1>3, UndoStep DEF ModeInv
<1>7. GasInv' /\ ChainInv'
  BY <1>0, <1>1, <1>3 DEF GasInv, ChainInv, AfterRollupFee, AfterFrame, AfterValidation, PanicsOnlyOnMetadata,
                    PaysRollupFee, is_system_tx
<1> QED
  BY <1>4, <1>5, <1>6, <1>7

-----------------------------------------------------------------------------
(***************************************************************************)
(* The invariant is preserved: the ends of a run.                          *)
(***************************************************************************)
\* Between two runs the invariant asks for little.
LEMMA IdleInd ==
  ASSUME TypeOK', phase' = "idle", mode' = "none", fees' = NoFees, state' = start', entries' = <<>>
  PROVE  IndInv'
<1>1. Undone(entries', state') \in Remains'
  <2>1. state' \in Loose
    BY WorldLoose DEF TypeOK
  <2>2. Undone(entries', state') = start'
    BY <2>1, UndoneNothing
  <2> QED
    BY <2>2 DEF Remains
<1>2. UndoInv'
  BY <1>1 DEF UndoInv
<1> QED
  BY <1>2 DEF IndInv, ModeInv, GasInv, FeeInv, ChainInv, AfterRollupFee, AfterFrame,
              AfterValidation, FeeConservation, PanicsOnlyOnMetadata

\* What ReturnToCaller assigns has its type.
LEMMA ReturnType ==
  ASSUME ReturnToCaller
  PROVE  /\ phase' = "idle" /\ mode' = "none" /\ fees' = NoFees
         /\ phase' \in Phases /\ mode' \in Modes /\ outcome' \in Outcomes /\ err' \in Errors
         /\ gas' \in [limit : Nat, remaining : Nat, refunded : Nat] /\ authRefund' \in Nat
         /\ fees' \in [charged : Nat, l1 : Nat, reimbursed : Nat, rewarded : Nat]
  BY DEF ReturnToCaller, Phases, Modes, Outcomes, Errors, NoGas, NoFees

\* The journal's entries become final; an error inside a frame surfaces.
LEMMA ResultInd == IndInv /\ execution_result => IndInv'
<1> SUFFICES ASSUME IndInv, execution_result PROVE IndInv'
  OBVIOUS
<1>0. /\ UNCHANGED <<db, runs, block, cfg, chain>>
      /\ phase = "result" /\ TypeOK
  BY DEF execution_result, IndInv
<1>1. CASE outcome = "fatal"
  <2>1. /\ UNCHANGED <<output, start, mode, tx, state, entries, loaded, coded, gas, authRefund, outcome,
                       fees>>
        /\ phase' = "error" /\ err' = "database"
    BY <1>0, <1>1 DEF execution_result, KeepWorld, KeepRun, journal, Fail
  <2>2. TypeOK'
    BY <1>0, <2>1 DEF TypeOK, Phases, Errors
  <2>3. UndoInv'
    BY <2>1, UndoStep DEF IndInv
  <2> QED
    BY <1>0, <2>1, <2>2, <2>3 DEF IndInv, ModeInv, GasInv, FeeInv, ChainInv, AfterRollupFee, AfterFrame,
                            AfterValidation, FeeConservation, PanicsOnlyOnMetadata
<1>2. CASE outcome # "fatal"
  <2>1. /\ UNCHANGED tx /\ ReturnToCaller
        /\ \/ entries' = <<>> /\ start' = state /\ UNCHANGED <<output, state, loaded, coded>>
           \/ output' = state /\ EmptyJournal(db)
    BY <1>2 DEF execution_result
  <2>2. TypeOK'
    <3>1. <<>> \in Seq(Entry)
      OBVIOUS
    <3> QED
      BY <1>0, <2>1, <3>1, ReturnType DEF TypeOK, EmptyJournal
  <2>3. state' = start' /\ entries' = <<>>
    BY <2>1 DEF EmptyJournal
  <2> QED
    BY <2>1, <2>2, <2>3, ReturnType, IdleInd
<1> QED
  BY <1>1, <1>2

\* A database error leaves everything to catch_error.
LEMMA DatabaseErrorInd == IndInv /\ DatabaseError => IndInv'
<1> SUFFICES ASSUME IndInv, DatabaseError PROVE IndInv'
  OBVIOUS
<1>0. /\ UNCHANGED <<db, output, runs, tx, block, cfg, mode, chain, start, state, entries,
                     loaded, coded, gas, authRefund, outcome, fees>>
      /\ phase' = "error" /\ err' = "database"
      /\ phase \in {"fetch", "deduct", "l1msg", "authList", "execution", "reward"}
  BY DEF DatabaseError, ReadsDatabase, KeepSession, KeepWorld, KeepRun, journal, Fail
<1>1. TypeOK'
  BY <1>0 DEF IndInv, TypeOK, Phases, Errors
<1>2. UndoInv'
  BY <1>0, UndoStep DEF IndInv
<1> QED
  BY <1>0, <1>1, <1>2 DEF IndInv, ModeInv, GasInv, FeeInv, ChainInv, AfterRollupFee, AfterFrame,
                    AfterValidation, FeeConservation, PanicsOnlyOnMetadata

\* What discard_tx restores is a world.
LEMMA CatchErrorInd == IndInv /\ catch_error => IndInv'
<1> SUFFICES ASSUME IndInv, catch_error PROVE IndInv'
  OBVIOUS
<1>0. /\ state' = Undone(entries, state) /\ start' = Undone(entries, state) /\ entries' = <<>>
      /\ ReturnToCaller
      /\ UNCHANGED <<db, output, runs, loaded, coded, chain, tx, block, cfg>>
  BY DEF catch_error
<1>1. TypeOK'
  <2>1. Undone(entries, state) \in World /\ <<>> \in Seq(Entry)
    BY RemainsType DEF IndInv, UndoInv
  <2> QED
    BY <1>0, <2>1, ReturnType DEF IndInv, TypeOK
<1> QED
  BY <1>0, <1>1, ReturnType, IdleInd

-----------------------------------------------------------------------------
(***************************************************************************)
(* The invariant is preserved: the session.                                *)
(***************************************************************************)
\* A transaction starts from what the journal shows, with nothing charged.
LEMMA StartRunInd ==
  ASSUME IndInv, NEW t \in Txs \cup SystemCalls, NEW m \in {"run", "replay", "inspect", "system"},
         StartRun(t, m), m = "system" => t \in SystemCalls
  PROVE  IndInv'
<1>0. /\ UNCHANGED <<db, output, chain, block, cfg, start, err, state, entries, loaded,
                     coded, gas, authRefund, outcome, fees>>
      /\ phase = "idle" /\ runs < MaxRuns /\ runs' = runs + 1 /\ tx' = t /\ mode' = m
      /\ phase' = IF m = "system" THEN "execution" ELSE "validate"
      /\ TypeOK
  BY DEF StartRun, KeepWorld, KeepRun, journal, IndInv
<1>1. TypeOK'
  <2>1. runs' \in 0 .. MaxRuns
    BY <1>0, WorldAssumption DEF TypeOK
  <2> QED
    BY <1>0, <2>1 DEF TypeOK, Phases, Modes
<1>2. fees = NoFees /\ state = start /\ entries = <<>>
  BY <1>0 DEF IndInv, FeeInv, UndoInv
<1>4. UndoInv'
  <2>1. Undone(entries', state') = start'
    <3>1. state \in Loose
      BY <1>0, WorldLoose DEF TypeOK
    <3> QED
      BY <1>0, <1>2, <3>1, UndoneNothing
  <2>2. Undone(entries', state') \in Remains'
    BY <2>1 DEF Remains
  <2> QED
    BY <1>0, <1>2, <2>2 DEF UndoInv
<1>3. FeeInv'
  BY <1>0, <1>2 DEF FeeInv, AfterRollupFee, AfterFrame, FeeConservation, ExecutionFee, RollupFee, NoFees
<1>5. ModeInv'
  BY <1>0 DEF ModeInv
<1> QED
  BY <1>0, <1>1, <1>2, <1>3, <1>4, <1>5
     DEF IndInv, GasInv, ChainInv, AfterRollupFee, AfterFrame, AfterValidation, PanicsOnlyOnMetadata

\* Steps between runs keep the handler idle and the journal at its start.
LEMMA IdleStepInd ==
  IndInv /\ (finalize \/ commit \/ DropOutput \/ SetContext \/ Rebuild) => IndInv'
<1> SUFFICES ASSUME IndInv, finalize \/ commit \/ DropOutput \/ SetContext \/ Rebuild
             PROVE  IndInv'
  OBVIOUS
<1>0. TypeOK /\ <<>> \in Seq(Entry)
  BY DEF IndInv
<1>1. phase = "idle" => mode = "none" /\ fees = NoFees /\ state = start /\ entries = <<>>
  BY DEF IndInv, ModeInv, FeeInv, UndoInv
<1>2. CASE finalize
  <2>1. TypeOK'
    BY <1>0, <1>2 DEF finalize, EmptyJournal, KeepRun, TypeOK
  <2> QED
    BY <1>1, <1>2, <2>1, IdleInd DEF finalize, EmptyJournal, KeepRun
<1>3. CASE commit
  <2>1. output \in World
    BY <1>0, <1>3 DEF commit, TypeOK
  <2>2. TypeOK'
    BY <1>0, <1>3, <2>1 DEF commit, EmptyJournal, KeepRun, TypeOK
  <2> QED
    BY <1>1, <1>3, <2>2, IdleInd DEF commit, EmptyJournal, KeepRun
<1>4. CASE DropOutput
  <2>1. TypeOK'
    BY <1>0, <1>4 DEF DropOutput, KeepWorld, KeepRun, journal, TypeOK
  <2> QED
    BY <1>1, <1>4, <2>1, IdleInd DEF DropOutput, KeepWorld, KeepRun, journal
<1>5. CASE SetContext
  <2>1. TypeOK'
    BY <1>0, <1>5 DEF SetContext, KeepWorld, KeepRun, journal, TypeOK
  <2> QED
    BY <1>1, <1>5, <2>1, IdleInd DEF SetContext, KeepWorld, KeepRun, journal
<1>6. CASE Rebuild
  <2>1. /\ chain' \in Info /\ tx' \in Txs \cup SystemCalls /\ block' \in Blocks /\ cfg' \in Cfgs
        /\ output' = NoWorld /\ UNCHANGED <<db, runs>>
        /\ EmptyJournal(db) /\ ReturnToCaller
    <3>1. DefaultInfo \in Info
      BY WidthAssumption DEF DefaultInfo, Info, U256, None
    <3> QED
      BY <1>6, <3>1, ContextAssumption DEF Rebuild
  <2>2. TypeOK'
    BY <1>0, <2>1, ReturnType DEF EmptyJournal, TypeOK
  <2> QED
    BY <2>1, <2>2, ReturnType, IdleInd DEF EmptyJournal
<1> QED
  BY <1>2, <1>3, <1>4, <1>5, <1>6

-----------------------------------------------------------------------------
(***************************************************************************)
(* The invariant and what follows from it.                                 *)
(***************************************************************************)
\* Every step of the handler and of the session preserves the invariant.
LEMMA NextInd == IndInv /\ [Next]_vars => IndInv'
<1> SUFFICES ASSUME IndInv, [Next]_vars PROVE IndInv'
  OBVIOUS
<1>1. CASE HandlerStep
  BY <1>1, ValidateInd, FetchInd, DeductInd, RollupFeeInd, L1MessageInd, LoadAccountsInd,
     AuthListInd, ExecutionInd, ContractPaysInd, ContractCreatesInd, OracleInd, FrameReturnsInd,
     LastFrameInd, RefundInd, FloorInd, ReimburseInd, RewardInd,
     ResultInd, DatabaseErrorInd, CatchErrorInd
     DEF HandlerStep
<1>2. CASE SessionStep
  <2>1. CASE transact_one
    BY <2>1, StartRunInd DEF transact_one
  <2>2. CASE replay
    <3>1. tx \in Txs \cup SystemCalls
      BY DEF IndInv, TypeOK
    <3> QED
      BY <2>2, <3>1, StartRunInd DEF replay
  <2>3. CASE system_call_one_with_caller
    BY <2>3, StartRunInd DEF system_call_one_with_caller
  <2>4. CASE inspect_one_tx
    BY <2>4, StartRunInd, ContextAssumption DEF inspect_one_tx
  <2> QED
    BY <1>2, <2>1, <2>2, <2>3, <2>4, IdleStepInd DEF SessionStep
<1>3. CASE UNCHANGED vars
  <2>1. TypeOK' /\ ModeInv'
    BY <1>3 DEF vars, IndInv, TypeOK, ModeInv
  <2>2. GasInv' /\ ChainInv'
    BY <1>3 DEF vars, IndInv, GasInv, ChainInv, AfterRollupFee, AfterFrame, AfterValidation,
                PanicsOnlyOnMetadata, frame_gas_limit, floor_gas, PaysRollupFee, is_system_tx
  <2>3. FeeInv'
    <3>1. ExecutionFee' = ExecutionFee /\ RollupFee' = RollupFee /\ GasPrice' = GasPrice
          /\ RollupCostPanics' = RollupCostPanics
      BY <1>3, ContextKept, ChainKept DEF vars
    <3> QED
      BY <1>3, <3>1 DEF vars, IndInv, FeeInv, AfterRollupFee, AfterFrame, FeeConservation,
                        PaysRollupFee, is_system_tx
  <2>4. UndoInv'
    <3>1. ExecutionFee' = ExecutionFee /\ RollupFee' = RollupFee
      BY <1>3, ContextKept, ChainKept DEF vars
    <3>2. Undone(entries', state') \in Remains'
      BY <1>3, RemainsKept DEF vars, IndInv, UndoInv
    <3> DEFINE Early == {"idle", "validate", "fetch", "deduct", "l1msg"}
    <3>3. phase' \in Early => state' = start' /\ entries' = <<>>
      BY <1>3 DEF vars, IndInv, UndoInv
    <3>4. phase' = "rollupFee" => /\ state' = Accounted(start, ExecutionFee)'
                                  /\ entries' = AccountingEntries(<<>>, start)'
      BY <1>3, <3>1, AccountedKept DEF vars, IndInv, UndoInv
    <3>5. phase' \in {"loadAccounts", "authList"} =>
            IF tx'.l1msg THEN state' = L1Nonce(start)' /\ entries' = <<>>
            ELSE /\ state' = Accounted(start, ExecutionFee + RollupFee)'
                 /\ entries' = AccountingEntries(<<>>, start)'
      BY <1>3, <3>1, AccountedKept DEF vars, IndInv, UndoInv
    <3> QED
      BY <3>2, <3>3, <3>4, <3>5 DEF UndoInv
  <2> QED
    BY <2>1, <2>2, <2>3, <2>4 DEF IndInv
<1> QED
  BY <1>1, <1>2, <1>3 DEF Next

\* The inductive invariant holds of every run of the EVM, for every set of
\* accounts, transactions, forks and oracle states.
THEOREM Invariance == Spec => []IndInv
  BY InitInd, NextInd, PTL DEF Spec

\* The state keeps its shape: above all, no balance goes below zero, whatever the
\* order of execution fee, rollup fee and value.
THEOREM TypeCorrect == Spec => []TypeOK
<1>1. IndInv => TypeOK
  BY DEF IndInv
<1> QED
  BY <1>1, Invariance, PTL

\* Every wei charged before execution is given back or paid out: the rollup fee
\* that reward_beneficiary computes again is the one that was deducted.
THEOREM FeesConserved == Spec => []FeeConservation
<1>1. IndInv => FeeConservation
  BY DEF IndInv, FeeInv
<1> QED
  BY <1>1, Invariance, PTL

\* The rollup fee is the one of the oracle as the database holds it, whatever ran
\* before in the same session.
THEOREM FeeFollowsDatabase == Spec => []RollupFeeFollowsDatabase
<1>1. IndInv => RollupFeeFollowsDatabase
  BY DEF IndInv, FeeInv, ChainInv, RollupFeeFollowsDatabase, RollupFee, RollupCost
<1> QED
  BY <1>1, Invariance, PTL

\* The unwraps of the L1BlockInfo never fail inside the handler.
THEOREM InfoNeverPanics == Spec => []PanicsOnlyOnMetadata
<1>1. IndInv => PanicsOnlyOnMetadata
  BY DEF IndInv, ChainInv
<1> QED
  BY <1>1, Invariance, PTL

\* A failed transaction leaves what Remains names and nothing else, at whatever step
\* it failed: undoing the entries of the journal also gives back the rollup fee that
\* was taken without one, and what contracts paid, created and stored.
THEOREM FailureUndone == Spec => FailureLeavesNoTrace
<1> DEFINE Restored == phase = "error" => state' \in Remains
<1>1. IndInv /\ [Next]_vars => [Restored]_vars
  <2> SUFFICES ASSUME IndInv, Next, phase = "error" PROVE Restored
    BY DEF vars
  <2>1. catch_error
    BY DEF Next, HandlerStep, SessionStep, validate, fetch_l1_block_info, mainnet_deduct_caller,
           deduct_rollup_fee, validate_l1_msg, load_accounts, apply_eip7702_auth_list, execution,
           contract_pays, contract_creates, oracle_is_updated, Operation, frame_returns,
           last_frame_result, refund, eip7623_check_gas_floor, reimburse_caller,
           reward_beneficiary, execution_result, DatabaseError, ReadsDatabase, transact_one,
           replay, inspect_one_tx, system_call_one_with_caller, StartRun, finalize, commit,
           DropOutput, SetContext, Rebuild
  <2> QED
    BY <2>1 DEF catch_error, IndInv, UndoInv
<1>2. FailureLeavesNoTrace <=> [][Restored]_vars
  BY DEF FailureLeavesNoTrace
<1> QED
  BY <1>1, <1>2, Invariance, PTL DEF Spec

-----------------------------------------------------------------------------
(***************************************************************************)
(* What a run does to gas, nonces and the money of an L1 message: RunInv,  *)
(* inductive relative to IndInv.  First the arithmetic of refunds.         *)
(***************************************************************************)
\* A refund within a fifth of what was spent leaves four fifths to be paid for.
LEMMA RefundArithmetic ==
  ASSUME NEW limit \in Nat, NEW left \in Nat, NEW counter \in Nat, NEW listed \in Nat,
         NEW initial \in Nat, left + initial <= limit
  PROVE  LET spent  == limit - left
             refunded == AtMost(counter + listed, spent \div 5)
         IN  /\ refunded \in Nat /\ refunded * 5 <= spent /\ left + refunded <= limit
             /\ 5 * (spent - refunded) >= 4 * initial
             /\ refunded <= counter + listed
<1> DEFINE spent == limit - left
           fifth == spent \div 5
           refunded == AtMost(counter + listed, fifth)
<1>1. spent \in Nat /\ spent >= initial
  OBVIOUS
<1> HIDE DEF spent
<1>2. fifth \in Nat /\ fifth * 5 <= spent
  BY <1>1
<1> HIDE DEF fifth
<1>3. refunded \in Nat /\ refunded <= fifth /\ refunded <= counter + listed
  BY <1>2 DEF AtMost
<1> HIDE DEF refunded
<1>4. refunded * 5 <= spent /\ 5 * (spent - refunded) >= 4 * initial /\ refunded <= spent
  BY <1>1, <1>2, <1>3
<1>5. left + refunded <= limit
  BY <1>3, <1>4 DEF spent
<1> QED
  BY <1>3, <1>4, <1>5 DEF spent, refunded, fifth

\* The phases in which the gas of the transaction is settled are entered by the
\* methods that settle it.
LEMMA SettlingSteps ==
  ASSUME Next, phase' \in {"refund", "floor", "reimburse", "reward", "result"}
  PROVE  \/ last_frame_result \/ refund \/ eip7623_check_gas_floor \/ reimburse_caller
         \/ reward_beneficiary
  BY DEF Next, HandlerStep, SessionStep, validate, fetch_l1_block_info, mainnet_deduct_caller,
         deduct_rollup_fee, validate_l1_msg, load_accounts, apply_eip7702_auth_list, execution,
         contract_pays, contract_creates, oracle_is_updated, Operation, frame_returns, FrameEndsIn,
         FrameEnds, execution_result, DatabaseError, catch_error, ReturnToCaller, transact_one, replay,
         inspect_one_tx, system_call_one_with_caller, StartRun, finalize, commit, DropOutput,
         SetContext, Rebuild, Fail

\* The gas of a transaction stays within its bounds.
LEMMA GasRunInd ==
  ASSUME IndInv, GasRunInv, Next
  PROVE  GasRunInv'
<1>1. CASE phase' \notin {"refund", "floor", "reimburse", "reward", "result"}
  BY <1>1 DEF GasRunInv
<1>2. /\ gas \in [limit : Nat, remaining : Nat, refunded : Nat] /\ authRefund \in Nat
      /\ tx.gasLimit \in Nat /\ tx.initGas \in Nat /\ tx.l1msg \in BOOLEAN /\ floor_gas \in Nat
  BY TxType, FloorType DEF IndInv, TypeOK
<1>3. CASE last_frame_result
  <2>1. /\ UNCHANGED <<tx, cfg, mode, outcome, authRefund>>
        /\ phase = "lastFrame" /\ phase' = IF mode = "system" THEN "result" ELSE "refund"
        /\ gas' = [limit     |-> tx.gasLimit,
                   remaining |-> IF is_ok_or_revert THEN gas.remaining ELSE 0,
                   refunded  |-> IF ~tx.l1msg /\ outcome = "ok" THEN gas.refunded ELSE 0]
    BY <1>3 DEF last_frame_result, KeepSession
  <2>2. mode # "system" => gas.remaining + tx.initGas <= tx.gasLimit /\ tx.initGas <= tx.gasLimit
    BY <1>2, <2>1 DEF IndInv, GasInv, AfterValidation, AfterRollupFee, AfterFrame, frame_gas_limit
  <2> QED
    BY <1>2, <2>1, <2>2 DEF GasRunInv, is_ok_or_revert
<1>4. CASE refund
  <2>1. /\ UNCHANGED <<tx, cfg, mode, outcome, authRefund>>
        /\ phase = "refund" /\ phase' = "floor" /\ mode # "system"
        /\ gas' = IF tx.l1msg THEN gas
                  ELSE [gas EXCEPT !.refunded = AtMost(@ + authRefund,
                                                       gas_spent \div MAX_REFUND_QUOTIENT)]
    BY <1>4 DEF refund, KeepSession, IndInv, ModeInv
  <2>2. /\ gas.remaining + tx.initGas <= gas.limit
        /\ outcome = "halt" => gas.remaining = 0 /\ gas.refunded = 0
        /\ tx.l1msg => gas.refunded = 0
    BY <2>1 DEF GasRunInv, IndInv, GasInv
  <2>3. GasBounds'
    <3>1. CASE tx.l1msg
      BY <1>2, <2>1, <2>2, <3>1 DEF GasBounds, gas_used, gas_spent, MAX_REFUND_QUOTIENT
    <3>2. CASE ~tx.l1msg
      <4> DEFINE r == AtMost(gas.refunded + authRefund, (gas.limit - gas.remaining) \div 5)
      <4>1. /\ r \in Nat /\ r * 5 <= gas.limit - gas.remaining /\ gas.remaining + r <= gas.limit
            /\ 5 * ((gas.limit - gas.remaining) - r) >= 4 * tx.initGas
            /\ r <= gas.refunded + authRefund
        BY <1>2, <2>2, RefundArithmetic
      <4>2. gas' = [gas EXCEPT !.refunded = r]
        BY <2>1, <3>2 DEF gas_spent, MAX_REFUND_QUOTIENT
      <4> HIDE DEF r
      <4>3. gas'.limit = gas.limit /\ gas'.remaining = gas.remaining /\ gas'.refunded = r
        BY <1>2, <4>2
      <4> QED
        BY <1>2, <2>1, <2>2, <3>2, <4>1, <4>3
           DEF GasBounds, gas_used, gas_spent, MAX_REFUND_QUOTIENT
    <3> QED
      BY <3>1, <3>2
  <2> QED
    BY <2>1, <2>3 DEF GasRunInv
<1>5. CASE eip7623_check_gas_floor
  <2>1. /\ UNCHANGED <<tx, cfg, mode, outcome, authRefund>>
        /\ phase = "floor" /\ phase' = "reimburse" /\ mode # "system"
        /\ gas' = IF ~tx.l1msg /\ gas_used < floor_gas
                  THEN [gas EXCEPT !.remaining = gas.limit - floor_gas, !.refunded = 0] ELSE gas
    BY <1>5 DEF eip7623_check_gas_floor, KeepSession, IndInv, ModeInv
  <2>2. GasBounds /\ floor_gas' = floor_gas /\ floor_gas <= gas.limit
    BY <2>1 DEF GasRunInv, IndInv, GasInv, AfterValidation, AfterRollupFee, AfterFrame, floor_gas
  <2>3. GasBounds' /\ (tx.l1msg \/ gas_used' >= floor_gas)
    <3>1. CASE ~tx.l1msg /\ gas_used < floor_gas
      <4>1. gas'.limit = gas.limit /\ gas'.remaining = gas.limit - floor_gas /\ gas'.refunded = 0
        BY <1>2, <2>1, <3>1
      <4>2. gas_spent' = floor_gas /\ gas_used' = floor_gas
        BY <1>2, <4>1 DEF gas_spent, gas_used
      <4>3. gas_used \in Int
        BY <1>2 DEF gas_used, gas_spent
      <4>4. /\ gas'.remaining + gas'.refunded <= gas'.limit
            /\ gas'.refunded * MAX_REFUND_QUOTIENT <= gas_spent'
            /\ 5 * gas_used' >= 4 * tx.initGas
            /\ outcome = "halt" => gas_used' + authRefund >= gas'.limit
        BY <1>2, <2>2, <3>1, <4>1, <4>2, <4>3 DEF GasBounds, MAX_REFUND_QUOTIENT
      <4> QED
        BY <1>2, <2>1, <3>1, <4>2, <4>4 DEF GasBounds
    <3>2. CASE ~(~tx.l1msg /\ gas_used < floor_gas)
      <4>1. gas_used \in Int
        BY <1>2 DEF gas_used, gas_spent
      <4>2. gas' = gas
        BY <2>1, <3>2
      <4> QED
        BY <1>2, <2>1, <2>2, <3>2, <4>1, <4>2 DEF GasBounds, gas_used, gas_spent
    <3> QED
      BY <3>1, <3>2
  <2> QED
    BY <2>1, <2>2, <2>3 DEF GasRunInv
<1>6. CASE reimburse_caller \/ reward_beneficiary
  <2>1. /\ UNCHANGED <<tx, cfg, mode, outcome, authRefund, gas>>
        /\ phase \in {"reimburse", "reward"} /\ mode # "system"
    BY <1>6 DEF reimburse_caller, reward_beneficiary, KeepSession, IndInv, ModeInv
  <2>2. GasBounds /\ (tx.l1msg \/ gas_used >= floor_gas)
    BY <2>1 DEF GasRunInv
  <2>3. GasBounds' /\ (tx'.l1msg \/ gas_used' >= floor_gas')
    BY <2>1, <2>2 DEF GasBounds, gas_used, gas_spent, floor_gas
  <2>4. phase' # "refund"
    BY <1>6 DEF reimburse_caller, reward_beneficiary, Fail
  <2> QED
    BY <2>3, <2>4 DEF GasRunInv
<1> QED
  BY <1>1, <1>3, <1>4, <1>5, <1>6, SettlingSteps

-----------------------------------------------------------------------------
(***************************************************************************)
(* Nonces.                                                                 *)
(***************************************************************************)
\* A frame that begins has used up the nonce of its caller, at whatever address a
\* creation creates.
LEMMA BeginNonce ==
  ASSUME TypeOK, CanPayValue, ~Collides
  PROVE  BeginFrame(EnterFrame(state)).nonce[tx.caller]
           >= state.nonce[tx.caller] + (IF tx.create THEN 1 ELSE 0)
<1> DEFINE v == EnterFrame(state)
           c == tx.caller
<1>1. c \in Addr /\ tx.to \in Addr /\ state \in World
  BY TxType DEF TypeOK
<1>2. /\ v \in World /\ v.balance = state.balance
      /\ v.nonce[c] = state.nonce[c] + (IF tx.create THEN 1 ELSE 0)
  BY <1>1, EnterFrameType
<1>3. tx.create => v.nonce[tx.to] = 0
  BY DEF Collides, Occupied
<1>4. state.nonce[c] \in Nat /\ tx.value <= v.balance[c]
  BY <1>1, <1>2 DEF World, CanPayValue
<1> HIDE DEF v
<1>5. BeginFrame(v).nonce = IF tx.create THEN [v.nonce EXCEPT ![tx.to] = 1] ELSE v.nonce
  BY <1>2, <1>4, BeginFrameType
<1>6. v.nonce \in [Addr -> Nat]
  BY <1>2 DEF World
<1>7. CASE tx.create
  <2>1. c # tx.to
    BY <1>2, <1>3, <1>4, <1>7
  <2> QED
    BY <1>1, <1>2, <1>4, <1>5, <1>6, <1>7, <2>1 DEF v
<1>8. CASE ~tx.create
  BY <1>1, <1>2, <1>4, <1>5, <1>8 DEF v
<1> QED
  BY <1>7, <1>8

\* What contracts do: the nonces go up, code that is there stays, and an account
\* without code has nothing taken from it.
LEMMA OperationKeeps ==
  ASSUME IndInv, contract_pays \/ contract_creates \/ oracle_is_updated
  PROVE  /\ UNCHANGED <<db, output, runs, tx, block, cfg, mode, chain, start, phase, outcome, fees,
                        err, authRefund>>
         /\ phase = "frame" /\ HasCode(tx.to) /\ state \in World /\ state' \in World
         /\ \A a \in Addr : state'.nonce[a] >= state.nonce[a]
         /\ \A a \in Addr : HasCode(a) => state'.code[a] = state.code[a]
         /\ \A a \in Addr : ~HasCode(a) => state'.balance[a] >= state.balance[a]
<1> DEFINE Kept == UNCHANGED <<db, output, runs, tx, block, cfg, mode, chain, start, phase, outcome,
                               fees, err, authRefund>>
                   /\ phase = "frame" /\ HasCode(tx.to)
           Grown(w) == /\ \A a \in Addr : w.nonce[a] >= state.nonce[a]
                       /\ \A a \in Addr : HasCode(a) => w.code[a] = state.code[a]
                       /\ \A a \in Addr : ~HasCode(a) => w.balance[a] >= state.balance[a]
<1>1. state \in World
  BY DEF IndInv, TypeOK
<1>2. state' \in World
  BY ContractPaysInd, ContractCreatesInd, OracleInd DEF IndInv, TypeOK
<1>3. \A a \in Addr : state.nonce[a] \in Nat /\ state.balance[a] \in Nat
  BY <1>1 DEF World
<1>4. ASSUME NEW w, NEW es, NEW accounts, Operation(w, es, accounts)
      PROVE  Kept /\ state' = w
  BY <1>4 DEF Operation, KeepSession
<1>5. CASE contract_pays
  <2>1. PICK p \in Payments :
          /\ HasCode(p.from) /\ p.amount <= state.balance[p.from]
          /\ Operation(Pay(state, p.from, p.to, p.amount),
                       Append(entries, TransferEntry(p.from, p.to, p.amount)), {p.from, p.to})
    BY <1>5 DEF contract_pays
  <2>2. Kept /\ state' = Pay(state, p.from, p.to, p.amount)
    BY <1>4, <2>1
  <2>3. p.from \in Addr /\ p.to \in Addr /\ p.amount \in Nat
    BY WorldAssumption
  <2>4. state'.nonce = state.nonce /\ state'.code = state.code
    BY <1>1, <2>1, <2>2, <2>3, PayType
  <2>5. \A a \in Addr : a # p.from => state'.balance[a] >= state.balance[a]
    <3> DEFINE d == Debit(state, p.from, p.amount)
    <3>1. /\ d \in Loose
          /\ \A a \in Addr : d.balance[a]
               = IF a = p.from THEN state.balance[a] - p.amount ELSE state.balance[a]
      BY <1>1, <2>3, DebitParts, WorldLoose
    <3>2. state' = Credit(d, p.to, p.amount)
      BY <2>2 DEF Pay
    <3> HIDE DEF d
    <3>3. \A a \in Addr : Credit(d, p.to, p.amount).balance[a]
            = IF a = p.to THEN d.balance[a] + p.amount ELSE d.balance[a]
      BY <2>3, <3>1, CreditParts
    <3> QED
      BY <1>3, <2>3, <3>1, <3>2, <3>3
  <2>6. Grown(state')
    BY <1>3, <2>1, <2>4, <2>5
  <2> QED
    BY <1>1, <1>2, <2>2, <2>6
<1>6. CASE contract_creates
  <2>1. PICK c \in Creations :
          /\ HasCode(c.from) /\ ~Occupied(state, c.new)
          /\ Operation(Created(BumpNonce(state, c.from), c.new),
                       Append(Append(entries, NonceEntry(c.from)), CreatedEntry(c.new)),
                       {c.from, c.new})
    BY <1>6 DEF contract_creates
  <2> DEFINE v == BumpNonce(state, c.from)
  <2>2. Kept /\ state' = Created(v, c.new)
    BY <1>4, <2>1
  <2>3. c.from \in Addr /\ c.new \in Addr
    BY WorldAssumption
  <2>4. /\ v \in World /\ v.balance = state.balance /\ v.code = state.code
        /\ \A a \in Addr : v.nonce[a] >= state.nonce[a]
    BY <1>1, <2>3, BumpNonceType
  <2> HIDE DEF v
  <2>5. /\ state'.balance = v.balance /\ state'.nonce = [v.nonce EXCEPT ![c.new] = 1]
        /\ state'.code = [v.code EXCEPT ![c.new] = "contract"]
    BY <2>2, <2>3, <2>4, CreatedType
  <2>6. state.nonce[c.new] = 0 /\ ~HasCode(c.new)
    BY <2>1 DEF Occupied, HasCode
  <2>7. v.nonce \in [Addr -> Nat] /\ v.code \in [Addr -> Codes]
    BY <2>4 DEF World
  <2>8. Grown(state')
    <3>1. \A a \in Addr : state'.nonce[a] >= state.nonce[a]
      BY <1>3, <2>3, <2>4, <2>5, <2>6, <2>7
    <3>2. \A a \in Addr : HasCode(a) => state'.code[a] = state.code[a]
      BY <2>3, <2>4, <2>5, <2>6, <2>7
    <3> QED
      BY <1>3, <2>4, <2>5, <3>1, <3>2
  <2> QED
    BY <1>1, <1>2, <2>2, <2>8
<1>7. CASE oracle_is_updated
  <2>1. PICK o \in OracleStates :
          Operation([state EXCEPT !.oracle = o], Append(entries, StorageEntry(state)),
                    {L1_GAS_PRICE_ORACLE_ADDRESS})
    BY <1>7 DEF oracle_is_updated
  <2>2. Kept /\ state' = [state EXCEPT !.oracle = o]
    BY <1>4, <2>1
  <2>3. state'.nonce = state.nonce /\ state'.code = state.code /\ state'.balance = state.balance
    BY <1>1, <2>2 DEF World
  <2>4. Grown(state')
    BY <1>3, <2>3
  <2> QED
    BY <1>1, <1>2, <2>2, <2>4
<1> QED
  BY <1>5, <1>6, <1>7

\* The phases from the first frame on are entered by the frame or after it.
LEMMA FrameSteps ==
  ASSUME Next, phase' \in {"frame", "lastFrame", "refund", "floor", "reimburse", "reward", "result"}
  PROVE  \/ execution \/ contract_pays \/ contract_creates \/ oracle_is_updated \/ frame_returns
         \/ last_frame_result \/ refund \/ eip7623_check_gas_floor \/ reimburse_caller
         \/ reward_beneficiary
  BY DEF Next, HandlerStep, SessionStep, validate, fetch_l1_block_info, mainnet_deduct_caller,
         deduct_rollup_fee, validate_l1_msg, load_accounts, apply_eip7702_auth_list,
         execution_result, DatabaseError, catch_error, ReturnToCaller, transact_one, replay,
         inspect_one_tx, system_call_one_with_caller, StartRun, finalize, commit, DropOutput,
         SetContext, Rebuild, Fail

\* The phases before the first frame are entered by the methods before it, or
\* by the start of a run.
LEMMA EarlySteps ==
  ASSUME TypeOK, Next,
         phase' \in {"validate", "fetch", "deduct", "l1msg", "rollupFee", "loadAccounts",
                    "authList", "execution"}
  PROVE  \/ validate \/ fetch_l1_block_info \/ mainnet_deduct_caller \/ deduct_rollup_fee
         \/ validate_l1_msg \/ load_accounts \/ apply_eip7702_auth_list
         \/ \E t \in Txs \cup SystemCalls, m \in Modes : StartRun(t, m) /\ (m = "system" => t \in SystemCalls)
<1>1. CASE SessionStep
  <2>1. transact_one \/ replay \/ inspect_one_tx \/ system_call_one_with_caller
    BY <1>1 DEF SessionStep, finalize, commit, DropOutput, SetContext, Rebuild, ReturnToCaller
  <2>2. CASE transact_one \/ inspect_one_tx
    BY <2>2, ContextAssumption DEF transact_one, inspect_one_tx, Modes
  <2>3. CASE replay
    BY <2>3 DEF replay, TypeOK, Modes
  <2>4. CASE system_call_one_with_caller
    BY <2>4 DEF system_call_one_with_caller, Modes
  <2> QED
    BY <2>1, <2>2, <2>3, <2>4
<1>2. CASE HandlerStep
  BY <1>2 DEF HandlerStep, execution, contract_pays, contract_creates, oracle_is_updated, Operation,
              frame_returns, FrameEndsIn, FrameEnds, last_frame_result, refund, eip7623_check_gas_floor,
              reimburse_caller, reward_beneficiary, execution_result, DatabaseError, catch_error,
              ReturnToCaller, Fail
<1> QED
  BY <1>1, <1>2 DEF Next

\* The nonce of the caller is used up on the way to the first frame or in it.
LEMMA NonceInd ==
  ASSUME IndInv, NonceInv, Next
  PROVE  NonceInv'
<1> DEFINE c == tx.caller
           Early == {"validate", "fetch", "deduct", "l1msg", "rollupFee", "loadAccounts", "authList",
                     "execution"}
           Late == {"frame", "lastFrame", "refund", "floor", "reimburse", "reward", "result"}
<1>1. TypeOK /\ c \in Addr /\ tx.to \in Addr /\ state \in World /\ start \in World
      /\ tx.create \in BOOLEAN
  BY TxType DEF IndInv, TypeOK, Tx
<1>2. state.nonce[c] \in Nat /\ start.nonce[c] \in Nat
  BY <1>1 DEF World
<1>3. CASE phase' \notin Early \cup Late
  BY <1>3 DEF NonceInv, AfterFrame
<1>4. CASE validate \/ fetch_l1_block_info
  BY <1>4 DEF validate, fetch_l1_block_info, NonceInv, Fail, AfterFrame
<1>5. CASE mainnet_deduct_caller
  <2>1. /\ UNCHANGED <<tx, mode, start>> /\ phase = "deduct" /\ phase' \in {"error", "rollupFee"}
        /\ state = start
    BY <1>5 DEF mainnet_deduct_caller, KeepSession, Fail, IndInv, UndoInv
  <2> DEFINE paid == Debit(state, c, tx.gasLimit * GasPrice)
  <2>2. CASE phase' = "rollupFee"
    <3>1. MainnetVerdict = "none" /\ state' = IF tx.create THEN paid ELSE BumpNonce(paid, c)
      BY <1>5, <2>2 DEF mainnet_deduct_caller, Fail, Accounted
    <3>2. max_balance_spending(tx) <= state.balance[c]
      <4>1. tx.gasLimit * tx.maxFee \in Nat
        BY <1>1, TxType, MulNat
      <4>2. tx.value \in Nat /\ state.balance[c] \in Nat
        BY <1>1, TxType DEF World
      <4>3. max_balance_spending(tx) \in Nat /\ state.balance[c] \in Nat
        BY <4>1, <4>2 DEF max_balance_spending
      <4> QED
        BY <3>1, <4>3 DEF MainnetVerdict
    <3>3. paid \in World /\ paid.nonce = state.nonce
      <4> DEFINE fee == tx.gasLimit * GasPrice
      <4>1. fee \in Nat /\ fee \in Int /\ fee <= state.balance[c]
        BY <1>1, <3>2, ExecutionFeeCovered
      <4> HIDE DEF fee
      <4>2. Debit(state, c, fee) \in World /\ Debit(state, c, fee).nonce = state.nonce
        BY <1>1, <4>1, DebitType, DebitParts, WorldLoose
      <4> QED
        BY <4>2 DEF fee
    <3> HIDE DEF paid
    <3>4. state'.nonce[c] >= start.nonce[c] + (IF tx.create THEN 0 ELSE 1)
      BY <1>1, <1>2, <2>1, <3>1, <3>3, BumpNonceType
    <3> QED
      BY <2>1, <2>2, <3>4 DEF NonceInv, AfterFrame
  <2>3. CASE phase' = "error"
    BY <2>3 DEF NonceInv, AfterFrame
  <2> QED
    BY <2>1, <2>2, <2>3
<1>6. CASE deduct_rollup_fee
  <2>1. UNCHANGED <<tx, mode, start>> /\ phase = "rollupFee"
        /\ phase' \in {"error", "panicked", "loadAccounts"}
    BY <1>6 DEF deduct_rollup_fee, KeepSession, Fail
  <2>2. phase' = "loadAccounts" => state'.nonce = state.nonce
    <3>1. ASSUME PaysRollupFee(tx), ~RollupCostPanics PROVE Debit(state, c, RollupCost).nonce = state.nonce
      BY <1>1, <3>1, RollupCostType, DebitParts, WorldLoose
    <3> QED
      BY <1>6, <3>1 DEF deduct_rollup_fee, Fail
  <2> QED
    BY <2>1, <2>2 DEF NonceInv, AfterFrame
<1>7. CASE validate_l1_msg
  <2>1. UNCHANGED <<tx, mode, start>> /\ phase = "l1msg" /\ state = start
        /\ phase' \in {"error", "loadAccounts"}
    BY <1>7 DEF validate_l1_msg, KeepSession, Fail, IndInv, UndoInv, L1MessageVerdict
  <2>2. phase' = "loadAccounts" => state' = L1Nonce(state)
    BY <1>7 DEF validate_l1_msg, Fail
  <2>3. L1Nonce(state).nonce[c] >= start.nonce[c] + (IF tx.create THEN 0 ELSE 1)
    BY <1>1, <1>2, <2>1, BumpNonceType DEF L1Nonce
  <2> QED
    BY <2>1, <2>2, <2>3 DEF NonceInv, AfterFrame
<1>8. CASE load_accounts
  BY <1>8 DEF load_accounts, KeepSession, KeepWorld, journal, NonceInv, AfterFrame
<1>9. CASE apply_eip7702_auth_list
  <2>1. UNCHANGED <<tx, mode, start>> /\ phase = "authList" /\ phase' = "execution"
    BY <1>9 DEF apply_eip7702_auth_list, KeepSession
  <2>2. state'.nonce[c] >= state.nonce[c] /\ state'.nonce[c] \in Nat
    <3>1. CASE UNCHANGED state
      BY <1>2, <3>1
    <3>2. CASE tx.auth # NoAddr /\ state' = Delegated(state)
      <4>1. state' \in World /\ state'.nonce[c] >= state.nonce[c]
        BY <1>1, <3>2, DelegatedType
      <4> QED
        BY <1>1, <4>1 DEF World
    <3> QED
      BY <1>9, <3>1, <3>2 DEF apply_eip7702_auth_list, journal
  <2>3. mode # "system" => state.nonce[c] >= start.nonce[c] + (IF tx.create THEN 0 ELSE 1)
    BY <2>1 DEF NonceInv
  <2>4. mode # "system" => state'.nonce[c] >= start.nonce[c] + (IF tx.create THEN 0 ELSE 1)
    BY <1>1, <1>2, <2>2, <2>3
  <2> QED
    BY <2>1, <2>4 DEF NonceInv, AfterFrame
<1>10. ASSUME NEW t \in Txs \cup SystemCalls, NEW m \in Modes, StartRun(t, m)
       PROVE  NonceInv'
  <2>1. state = start /\ UNCHANGED <<state, start>> /\ mode' = m
        /\ phase' = IF m = "system" THEN "execution" ELSE "validate"
    BY <1>10 DEF StartRun, KeepWorld, journal, IndInv, UndoInv
  <2> QED
    BY <2>1 DEF NonceInv, AfterFrame
<1>11. CASE execution
  <2>1. UNCHANGED <<tx, mode, start>> /\ phase = "execution"
        /\ phase' \in {"frame", "lastFrame"}
    BY <1>11 DEF execution, KeepSession, FrameEnds, FrameEndsIn
  <2>2. mode # "system" => state.nonce[c] >= start.nonce[c] + (IF tx.create THEN 0 ELSE 1)
    BY <2>1 DEF NonceInv
  <2>3. \/ /\ UNCHANGED state /\ phase' = "lastFrame"
           /\ outcome' = "outOfFunds" \/ mode = "inspect"
        \/ CanPayValue /\ ~Collides /\ state' = BeginFrame(EnterFrame(state))
        \/ CanPayValue /\ state' = EnterFrame(state)
    BY <1>11 DEF execution, FrameEnds, FrameEndsIn, journal
  <2>4. ~(phase' = "lastFrame" /\ tx.create /\ (outcome' = "outOfFunds" \/ mode = "inspect")) =>
          state'.nonce[c] >= state.nonce[c] + (IF tx.create THEN 1 ELSE 0)
    <3>1. CASE UNCHANGED state
      BY <1>1, <1>2, <2>3, <3>1, EnterFrameType, BeginNonce
    <3>2. CASE CanPayValue /\ ~Collides /\ state' = BeginFrame(EnterFrame(state))
      BY <1>1, <1>2, <3>2, BeginNonce
    <3>3. CASE CanPayValue /\ state' = EnterFrame(state)
      BY <1>1, <1>2, <3>3, EnterFrameType
    <3> QED
      BY <2>3, <3>1, <3>2, <3>3
  <2>5. state' \in World
    BY <1>11, <1>1, ExecutionInd DEF IndInv, TypeOK
  <2>6. state'.nonce[c] \in Nat
    BY <1>1, <2>5 DEF World
  <2>7. /\ mode # "system"
        /\ ~(phase' = "lastFrame" /\ tx.create /\ (outcome' = "outOfFunds" \/ mode = "inspect"))
        => state'.nonce[c] > start.nonce[c]
    BY <1>1, <1>2, <2>2, <2>4, <2>6
  <2> QED
    BY <2>1, <2>7 DEF NonceInv, AfterFrame
<1>14. CASE contract_pays \/ contract_creates \/ oracle_is_updated
  <2>1. /\ UNCHANGED <<tx, mode, start, phase>> /\ phase = "frame" /\ state' \in World
        /\ state'.nonce[c] >= state.nonce[c]
    BY <1>1, <1>14, OperationKeeps
  <2>2. mode # "system" => state.nonce[c] > start.nonce[c]
    BY <2>1 DEF NonceInv
  <2>3. state'.nonce[c] \in Nat
    BY <1>1, <2>1 DEF World
  <2>4. mode' # "system" => state'.nonce[tx'.caller] > start'.nonce[tx'.caller]
    BY <1>2, <2>1, <2>2, <2>3
  <2>5. phase' = "frame"
    BY <2>1
  <2> QED
    BY <2>4, <2>5 DEF NonceInv, AfterFrame
<1>15. CASE frame_returns
  <2>1. UNCHANGED <<tx, mode, start, state>> /\ phase = "frame" /\ phase' = "lastFrame"
    BY <1>15 DEF frame_returns, FrameEndsIn, FrameEnds, KeepSession, KeepWorld, journal
  <2>2. mode # "system" => state.nonce[c] > start.nonce[c]
    BY <2>1 DEF NonceInv
  <2>3. mode' # "system" => state'.nonce[tx'.caller] > start'.nonce[tx'.caller]
    BY <2>1, <2>2
  <2>4. phase' = "lastFrame"
    BY <2>1
  <2> QED
    BY <2>3, <2>4 DEF NonceInv, AfterFrame
<1>12. CASE last_frame_result \/ refund \/ eip7623_check_gas_floor
  <2>1. UNCHANGED <<tx, mode, start, state, outcome>> /\ AfterFrame
    BY <1>12 DEF last_frame_result, refund, eip7623_check_gas_floor, KeepSession, KeepWorld, journal,
                 AfterFrame
  <2>2. phase' \in {"refund", "floor", "reimburse", "result"}
    BY <1>12 DEF last_frame_result, refund, eip7623_check_gas_floor
  <2> QED
    BY <2>1, <2>2 DEF NonceInv, AfterFrame
<1>13. CASE reimburse_caller \/ reward_beneficiary
  <2>1. UNCHANGED <<tx, mode, start, outcome>> /\ AfterFrame
        /\ phase' \in {"reward", "result", "error", "panicked"}
    BY <1>13 DEF reimburse_caller, reward_beneficiary, KeepSession, AfterFrame, Fail
  <2>2. UNCHANGED state \/ \E a \in Addr : \E n : state' = Credit(state, a, n)
    BY <1>1, <1>13, TxType DEF reimburse_caller, reward_beneficiary, Block, journal
  <2>3. \A a, n : Credit(state, a, n).nonce = state.nonce
    BY <1>1 DEF Credit, World
  <2>4. state'.nonce = state.nonce
    BY <2>2, <2>3
  <2> QED
    BY <2>1, <2>4 DEF NonceInv, AfterFrame
<1> QED
  BY <1>1, <1>3, <1>4, <1>5, <1>6, <1>7, <1>8, <1>9, <1>10, <1>11, <1>12, <1>13, <1>14, <1>15,
     EarlySteps, FrameSteps

-----------------------------------------------------------------------------
(***************************************************************************)
(* L1 messages.                                                            *)
(***************************************************************************)
\* The balances a transfer leaves depend on the balances it finds.
LEMMA TransferBalance ==
  ASSUME NEW w \in World, NEW v \in World, w.balance = v.balance
  PROVE  Transfer(w).balance = Transfer(v).balance
<1>1. \A u \in World : \A a, n :
        /\ [u EXCEPT !.balance[a] = @ + n].balance = [u.balance EXCEPT ![a] = @ + n]
        /\ [u EXCEPT !.balance[a] = @ - n].balance = [u.balance EXCEPT ![a] = @ - n]
  BY DEF World
<1>2. \A u \in World : Transfer(u).balance
        = [[u.balance EXCEPT ![tx.caller] = @ - tx.value] EXCEPT ![tx.to] = @ + tx.value]
  BY DEF Transfer, Pay, Debit, Credit, World
<1> QED
  BY <1>2

\* A reimbursement adds to the balance of the caller, and to no other.
LEMMA CreditBalance ==
  ASSUME NEW w \in World, NEW a \in Addr, NEW n \in Nat
  PROVE  /\ Credit(w, a, n).balance = [w.balance EXCEPT ![a] = @ + n]
         /\ n = 0 => Credit(w, a, n).balance = w.balance
<1>1. w.balance \in [Addr -> Nat]
  BY DEF World
<1>2. Credit(w, a, n).balance = [w.balance EXCEPT ![a] = @ + n]
  BY DEF Credit, World
<1> QED
  BY <1>1, <1>2

\* A caller pays its value at most when that is transferred.
LEMMA TransferCosts ==
  ASSUME TypeOK, NEW w \in World, tx.value <= w.balance[tx.caller]
  PROVE  Transfer(w).balance[tx.caller] + tx.value >= w.balance[tx.caller]
<1> DEFINE d == Debit(w, tx.caller, tx.value)
<1>1. tx.caller \in Addr /\ tx.to \in Addr /\ tx.value \in Nat /\ w.balance[tx.caller] \in Nat
  BY TxType DEF World
<1>2. d \in Loose /\ d.balance[tx.caller] = w.balance[tx.caller] - tx.value
  <2>1. w \in Loose /\ tx.value \in Int
    BY <1>1, WorldLoose
  <2>2. /\ d \in Loose
        /\ \A b \in Addr : d.balance[b]
             = IF b = tx.caller THEN w.balance[b] - tx.value ELSE w.balance[b]
    BY <1>1, <2>1, DebitParts
  <2> QED
    BY <1>1, <2>2
<1>3. Transfer(w) = Credit(d, tx.to, tx.value)
  BY DEF Transfer, Pay
<1> HIDE DEF d
<1>4. Credit(d, tx.to, tx.value).balance[tx.caller]
        = IF tx.caller = tx.to THEN d.balance[tx.caller] + tx.value ELSE d.balance[tx.caller]
  <2>1. tx.value \in Int /\ d \in Loose /\ tx.to \in Addr
    BY <1>1, <1>2
  <2>2. \A b \in Addr : Credit(d, tx.to, tx.value).balance[b]
          = IF b = tx.to THEN d.balance[b] + tx.value ELSE d.balance[b]
    BY <2>1, CreditParts
  <2> QED
    BY <1>1, <2>2
<1> QED
  BY <1>1, <1>2, <1>3, <1>4

\* What is said of a message's money stands while balances, code and message stand.
LEMMA MoneyKept ==
  ASSUME UNCHANGED <<tx, mode, start, state, outcome, fees>>
  PROVE  /\ CallerKeepsTheRest' = CallerKeepsTheRest /\ MovedItsValue' = MovedItsValue
         /\ HasCode(tx.to)' = HasCode(tx.to)
  BY DEF CallerKeepsTheRest, MovedItsValue, HasCode, Reimbursed, Transfer, Pay, Debit, Credit

\* A message moves no money before its frame and its value when that begins; then
\* only code and the reimbursement move more.
LEMMA L1MoneyInd ==
  ASSUME IndInv, RunInv, Next
  PROVE  L1MoneyInv'
<1> DEFINE c == tx.caller
<1>1. /\ TypeOK /\ state \in World /\ start \in World /\ c \in Addr /\ tx.to \in Addr
      /\ tx.value \in Nat /\ start.balance[c] \in Nat /\ state.balance[c] \in Nat
  <2>1. TypeOK /\ state \in World /\ start \in World
    BY DEF IndInv, TypeOK
  <2> QED
    BY <2>1, TxType DEF World
<1>2. CASE ~tx'.l1msg \/ phase' \notin {"loadAccounts", "authList", "execution", "frame", "lastFrame",
                                       "refund", "floor", "reimburse", "reward", "result"}
  BY <1>2 DEF L1MoneyInv, AfterFrame
<1>3. CASE validate \/ fetch_l1_block_info \/ mainnet_deduct_caller
  BY <1>3 DEF validate, fetch_l1_block_info, mainnet_deduct_caller, Fail, L1MoneyInv, AfterFrame
<1>4. CASE deduct_rollup_fee
  BY <1>4 DEF deduct_rollup_fee, KeepSession, IndInv, ModeInv, L1MoneyInv
<1>5. CASE validate_l1_msg
  <2>1. UNCHANGED <<tx, start>> /\ state = start /\ phase' \in {"error", "loadAccounts"}
    BY <1>5 DEF validate_l1_msg, KeepSession, Fail, IndInv, UndoInv
  <2>2. state'.balance = state.balance
    BY <1>1, <1>5, TxType, BumpNonceType DEF validate_l1_msg, L1Nonce
  <2> QED
    BY <2>1, <2>2 DEF L1MoneyInv, AfterFrame
<1>6. CASE load_accounts \/ apply_eip7702_auth_list
  <2>1. UNCHANGED <<tx, start>> /\ phase \in {"loadAccounts", "authList"}
        /\ phase' \in {"authList", "execution"}
    BY <1>6 DEF load_accounts, apply_eip7702_auth_list, KeepSession
  <2>2. tx.l1msg => UNCHANGED state
    BY <1>1, <1>6, TxAssumption
       DEF load_accounts, apply_eip7702_auth_list, KeepWorld, journal, TypeOK
  <2> QED
    BY <2>1, <2>2 DEF RunInv, L1MoneyInv, AfterFrame
<1>7. ASSUME NEW t \in Txs \cup SystemCalls, NEW m \in Modes, StartRun(t, m),
             m = "system" => t \in SystemCalls
      PROVE  L1MoneyInv'
  <2>1. phase' = (IF m = "system" THEN "execution" ELSE "validate") /\ tx' = t
    BY <1>7 DEF StartRun
  <2> QED
    BY <1>7, <2>1, SystemCallAssumption DEF L1MoneyInv, AfterFrame
<1>8. CASE execution /\ tx.l1msg
  <2>1. UNCHANGED <<tx, mode, start, fees>> /\ state.balance = start.balance
        /\ phase = "execution" /\ phase' \in {"frame", "lastFrame"}
    BY <1>8 DEF execution, KeepSession, RunInv, L1MoneyInv, FrameEnds, FrameEndsIn
  <2>2. fees.reimbursed = 0
    BY <2>1 DEF IndInv, FeeInv, AfterRollupFee, AfterFrame
  <2>3. \/ /\ phase' = "lastFrame" /\ state'.balance = start.balance
           /\ outcome' # "ok" \/ mode = "inspect"
        \/ /\ phase' = "frame" /\ CanPayValue
           /\ state'.balance = Transfer(start).balance
    <3>1. EnterFrame(state) \in World /\ EnterFrame(state).balance = state.balance
      BY <1>1, EnterFrameType
    <3>2. ASSUME CanPayValue
          PROVE  BeginFrame(EnterFrame(state)).balance = Transfer(start).balance
      <4>1. BeginFrame(EnterFrame(state)).balance = Transfer(EnterFrame(state)).balance
        BY <1>1, <3>1, <3>2, BeginFrameType DEF CanPayValue
      <4>2. Transfer(EnterFrame(state)).balance = Transfer(start).balance
        BY <1>1, <2>1, <3>1, TransferBalance
      <4> QED
        BY <4>1, <4>2
    <3>3. \/ phase' = "lastFrame" /\ UNCHANGED state /\ (outcome' # "ok" \/ mode = "inspect")
          \/ phase' = "lastFrame" /\ state' = EnterFrame(state)
             /\ (outcome' # "ok" \/ mode = "inspect")
          \/ phase' = "frame" /\ CanPayValue /\ state' = BeginFrame(EnterFrame(state))
      BY <1>8 DEF execution, FrameEnds, FrameEndsIn, Ends, journal
    <3> QED
      BY <2>1, <3>1, <3>2, <3>3
  <2>4. Transfer(start)' = Transfer(start)
    BY <2>1 DEF Transfer, Pay, Debit, Credit
  <2>5. CASE phase' = "lastFrame"
    <3>1. Reimbursed(start)' = Credit(start, c, 0)
      BY <2>1, <2>2 DEF Reimbursed, Credit
    <3>2. Credit(start, c, 0).balance = start.balance
      BY <1>1, CreditBalance
    <3>3. state'.balance = Reimbursed(start)'.balance
      BY <2>3, <2>5, <3>1, <3>2
    <3>4. MovedItsValue'
      BY <2>1, <2>3, <2>5, <3>3 DEF MovedItsValue
    <3>5. CallerKeepsTheRest'
      BY <1>1, <2>1, <2>2, <2>3, <2>5 DEF CallerKeepsTheRest
    <3> QED
      BY <2>5, <3>4, <3>5 DEF L1MoneyInv
  <2>6. CASE phase' = "frame"
    <3>1. state'.balance[c] + tx.value >= start.balance[c]
      <4>1. Transfer(start).balance[c] + tx.value >= start.balance[c]
        BY <1>1, <2>1, <2>3, <2>6, TransferCosts DEF CanPayValue
      <4> QED
        BY <2>3, <2>6, <4>1
    <3>2. CallerKeepsTheRest'
      BY <1>1, <2>1, <2>2, <3>1 DEF CallerKeepsTheRest
    <3> QED
      BY <2>3, <2>4, <2>6, <3>2 DEF L1MoneyInv, AfterFrame
  <2> QED
    BY <2>1, <2>5, <2>6
<1>11. CASE (contract_pays \/ contract_creates \/ oracle_is_updated) /\ tx.l1msg
  <2>1. /\ UNCHANGED <<tx, mode, start, fees, phase>> /\ phase = "frame" /\ HasCode(tx.to)
        /\ state' \in World
        /\ \A a \in Addr : HasCode(a) => state'.code[a] = state.code[a]
        /\ \A a \in Addr : ~HasCode(a) => state'.balance[a] >= state.balance[a]
    BY <1>11, OperationKeeps
  <2>2. HasCode(tx.to)'
    BY <1>1, <2>1 DEF HasCode
  <2>3. CallerKeepsTheRest
    BY <1>11, <2>1 DEF RunInv, L1MoneyInv
  <2>4. fees.reimbursed \in Nat
    BY <1>1 DEF TypeOK
  <2>5. state'.balance[c] \in Nat
    BY <1>1, <2>1 DEF World
  <2>6. ~HasCode(c)' => ~HasCode(c)
    BY <1>1, <2>1 DEF HasCode
  <2>7. CallerKeepsTheRest'
    <3>1. SUFFICES ASSUME ~HasCode(c)'
                   PROVE  state'.balance[c] + tx.value >= start.balance[c] + fees.reimbursed
      BY <2>1 DEF CallerKeepsTheRest, HasCode
    <3>2. state.balance[c] + tx.value >= start.balance[c] + fees.reimbursed
      BY <2>3, <2>6, <3>1 DEF CallerKeepsTheRest
    <3>3. state'.balance[c] >= state.balance[c]
      BY <1>1, <2>1, <2>6, <3>1
    <3> QED
      BY <1>1, <2>4, <2>5, <3>2, <3>3
  <2> QED
    BY <2>1, <2>2, <2>7 DEF L1MoneyInv, AfterFrame
<1>12. CASE frame_returns /\ tx.l1msg
  <2>1. UNCHANGED <<tx, mode, start, state, fees>> /\ phase = "frame" /\ phase' = "lastFrame"
        /\ (mode # "inspect" => outcome' = "ok")
    BY <1>12 DEF frame_returns, FrameEndsIn, FrameEnds, Ends, KeepSession, KeepWorld, journal
  <2>2. CallerKeepsTheRest /\ (HasCode(tx.to) \/ state.balance = Transfer(start).balance)
    BY <1>12, <2>1 DEF RunInv, L1MoneyInv
  <2>3. CallerKeepsTheRest'
    BY <2>1, <2>2 DEF CallerKeepsTheRest, HasCode
  <2>4. CASE HasCode(tx.to)
    BY <2>1, <2>3, <2>4 DEF L1MoneyInv, HasCode
  <2>5. CASE ~HasCode(tx.to)
    <3>1. state.balance = Transfer(start).balance
      BY <2>2, <2>5
    <3>2. fees.reimbursed = 0
      BY <2>1 DEF IndInv, FeeInv, AfterRollupFee, AfterFrame
    <3>3. Reimbursed(Transfer(start))' = Credit(Transfer(start), c, 0)
      BY <2>1, <3>2 DEF Reimbursed, Transfer, Pay, Debit, Credit
    <3>4. Credit(Transfer(start), c, 0).balance = Transfer(start).balance
      <4> DEFINE t == Transfer(start)
      <4>1. t \in Loose
        BY <1>1, UndoTransfer, WorldLoose DEF Transfer
      <4> HIDE DEF t
      <4>2. t.balance \in [Addr -> Int]
        BY <4>1 DEF Loose
      <4>3. Credit(t, c, 0).balance = [t.balance EXCEPT ![c] = @ + 0]
        BY <4>1 DEF Credit, Loose
      <4>4. Credit(t, c, 0).balance = t.balance
        BY <1>1, <4>2, <4>3
      <4> QED
        BY <4>4 DEF t
    <3>5. state'.balance = Reimbursed(Transfer(start))'.balance
      BY <2>1, <3>1, <3>3, <3>4
    <3>6. MovedItsValue'
      BY <2>1, <3>5 DEF MovedItsValue
    <3> QED
      BY <2>1, <2>3, <3>6 DEF L1MoneyInv
  <2> QED
    BY <2>4, <2>5
<1>13. CASE (last_frame_result \/ refund \/ eip7623_check_gas_floor \/ reward_beneficiary) /\ tx.l1msg
  <2>1. UNCHANGED <<tx, mode, start, outcome, state, fees>> /\ AfterFrame
        /\ phase' \notin {"loadAccounts", "authList", "execution", "frame"}
    BY <1>13 DEF last_frame_result, refund, eip7623_check_gas_floor, reward_beneficiary, skip_reward,
                 KeepSession, KeepWorld, journal, AfterFrame, Fail
  <2>2. CallerKeepsTheRest /\ (HasCode(tx.to) \/ MovedItsValue)
    BY <1>13, <2>1 DEF RunInv, L1MoneyInv
  <2>3. CallerKeepsTheRest' /\ (HasCode(tx.to)' \/ MovedItsValue')
    BY <2>1, <2>2, MoneyKept
  <2> QED
    BY <2>1, <2>3 DEF L1MoneyInv, HasCode
<1>14. CASE reimburse_caller /\ tx.l1msg
  <2> DEFINE back == GasPrice * (gas.remaining + gas.refunded)
  <2>1. /\ UNCHANGED <<tx, mode, start, outcome>> /\ phase = "reimburse" /\ phase' = "reward"
        /\ state' = Credit(state, c, back) /\ fees' = [fees EXCEPT !.reimbursed = @ + back]
    BY <1>14 DEF reimburse_caller, KeepSession
  <2>2. back \in Nat
    <3>1. GasPrice \in Nat /\ gas.remaining + gas.refunded \in Nat
      BY <1>1, GasPriceRange DEF TypeOK
    <3> HIDE DEF GasPrice
    <3> QED
      BY <3>1, MulNat
  <2> HIDE DEF back
  <2>3. fees.reimbursed = 0 /\ fees'.reimbursed = back
    <3>1. fees.reimbursed = 0
      BY <2>1 DEF IndInv, FeeInv, AfterRollupFee, AfterFrame
    <3>2. fees \in [charged : Nat, l1 : Nat, reimbursed : Nat, rewarded : Nat]
      BY <1>1 DEF TypeOK
    <3> QED
      BY <2>1, <2>2, <3>1, <3>2
  <2>4. /\ state'.code = state.code /\ state'.balance = [state.balance EXCEPT ![c] = @ + back]
        /\ state'.balance[c] = state.balance[c] + back
    <3>1. state'.balance = [state.balance EXCEPT ![c] = @ + back]
      BY <1>1, <2>1, <2>2, CreditBalance
    <3>2. state'.code = state.code
      BY <1>1, <2>1 DEF Credit, World
    <3>3. state.balance \in [Addr -> Nat]
      BY <1>1 DEF World
    <3> QED
      BY <1>1, <3>1, <3>2, <3>3
  <2>5. CallerKeepsTheRest /\ (HasCode(tx.to) \/ MovedItsValue)
    BY <1>14, <2>1 DEF RunInv, L1MoneyInv, AfterFrame
  <2>6. CallerKeepsTheRest'
    BY <1>1, <2>1, <2>2, <2>3, <2>4, <2>5 DEF CallerKeepsTheRest, HasCode
  <2>7. HasCode(tx.to)' = HasCode(tx.to)
    BY <2>1, <2>4 DEF HasCode
  <2>8. ASSUME MovedItsValue PROVE MovedItsValue'
    <3>1. \A w \in Loose : /\ Credit(w, c, 0).balance = w.balance
                           /\ Credit(w, c, back).balance = [w.balance EXCEPT ![c] = @ + back]
      <4> TAKE w \in Loose
      <4>1. w.balance \in [Addr -> Int]
        BY DEF Loose
      <4>2. Credit(w, c, 0).balance = [w.balance EXCEPT ![c] = @ + 0]
            /\ Credit(w, c, back).balance = [w.balance EXCEPT ![c] = @ + back]
        BY DEF Credit, Loose
      <4> QED
        BY <1>1, <4>1, <4>2
    <3> DEFINE t == Transfer(start)
    <3>2. start \in Loose /\ t \in Loose
      BY <1>1, UndoTransfer, WorldLoose DEF Transfer
    <3>3. /\ Reimbursed(start) = Credit(start, c, 0) /\ Reimbursed(t) = Credit(t, c, 0)
      BY <2>3 DEF Reimbursed
    <3>4. /\ Reimbursed(start)' = Credit(start, c, back)
          /\ Reimbursed(Transfer(start))' = Credit(t, c, back)
      BY <2>1, <2>3 DEF Reimbursed, Transfer, Pay, Debit, Credit
    <3> HIDE DEF t
    <3>5. /\ Reimbursed(start).balance = start.balance /\ Reimbursed(t).balance = t.balance
          /\ Reimbursed(start)'.balance = [start.balance EXCEPT ![c] = @ + back]
          /\ Reimbursed(Transfer(start))'.balance = [t.balance EXCEPT ![c] = @ + back]
      BY <3>1, <3>2, <3>3, <3>4
    <3>6. /\ state.balance \in {start.balance, t.balance}
          /\ mode # "inspect" => state.balance = IF outcome = "ok" THEN t.balance ELSE start.balance
      BY <2>8, <3>5 DEF MovedItsValue, t
    <3>7. /\ state'.balance \in {Reimbursed(start)'.balance, Reimbursed(Transfer(start))'.balance}
          /\ mode # "inspect" =>
               state'.balance = IF outcome = "ok" THEN Reimbursed(Transfer(start))'.balance
                                ELSE Reimbursed(start)'.balance
      BY <2>4, <3>5, <3>6
    <3> QED
      BY <2>1, <3>7 DEF MovedItsValue
  <2> QED
    BY <2>1, <2>5, <2>6, <2>7, <2>8 DEF L1MoneyInv, AfterFrame
<1>10. CASE /\ \/ execution \/ contract_pays \/ contract_creates \/ oracle_is_updated \/ frame_returns
               \/ last_frame_result \/ refund \/ eip7623_check_gas_floor \/ reimburse_caller
               \/ reward_beneficiary
            /\ ~tx.l1msg
  BY <1>10 DEF execution, contract_pays, contract_creates, oracle_is_updated, Operation, frame_returns,
               last_frame_result, refund, eip7623_check_gas_floor, reimburse_caller,
               reward_beneficiary, KeepSession, L1MoneyInv
<1> QED
  BY <1>1, <1>2, <1>3, <1>4, <1>5, <1>6, <1>7, <1>8, <1>10, <1>11, <1>12, <1>13, <1>14,
     EarlySteps, FrameSteps

\* Where the database delivers code with the account, the check of the sender saw
\* it, and nothing deploys code before the frame.
LEMMA L1SenderInd ==
  ASSUME IndInv, RunInv, Next
  PROVE  L1SenderInv'
<1>1. TypeOK /\ state \in World /\ tx.caller \in Addr
  BY TxType DEF IndInv, TypeOK
<1>2. CASE ~tx'.l1msg \/ phase' \notin {"loadAccounts", "authList", "execution"}
  BY <1>2 DEF L1SenderInv
<1>3. CASE validate \/ fetch_l1_block_info \/ mainnet_deduct_caller
  BY <1>3 DEF validate, fetch_l1_block_info, mainnet_deduct_caller, Fail, L1SenderInv
<1>4. CASE deduct_rollup_fee
  BY <1>4 DEF deduct_rollup_fee, KeepSession, IndInv, ModeInv, L1SenderInv
<1>5. CASE validate_l1_msg
  <2>1. UNCHANGED <<tx, cfg>> /\ phase' \in {"error", "loadAccounts"}
        /\ (phase' = "loadAccounts" => L1MessageVerdict = "none" /\ state' = L1Nonce(state))
    BY <1>5 DEF validate_l1_msg, KeepSession, Fail
  <2>2. L1MessageVerdict = "none" /\ DbInlinesCode /\ ~cfg.eip3607Disabled
          => state.code[tx.caller] # "contract"
    BY DEF L1MessageVerdict, CodeSeen
  <2>3. L1Nonce(state).code = state.code
    BY <1>1, BumpNonceType DEF L1Nonce
  <2> QED
    BY <2>1, <2>2, <2>3 DEF L1SenderInv
<1>6. CASE load_accounts \/ apply_eip7702_auth_list
  <2>1. UNCHANGED <<tx, cfg, mode>> /\ phase \in {"loadAccounts", "authList"}
    BY <1>6 DEF load_accounts, apply_eip7702_auth_list, KeepSession
  <2>2. tx.l1msg => UNCHANGED state
    BY <1>1, <1>6, TxAssumption
       DEF load_accounts, apply_eip7702_auth_list, KeepWorld, journal, TypeOK
  <2> QED
    BY <2>1, <2>2 DEF RunInv, L1SenderInv
<1>7. ASSUME NEW t \in Txs \cup SystemCalls, NEW m \in Modes, StartRun(t, m) PROVE L1SenderInv'
  BY <1>7 DEF StartRun, L1SenderInv
<1> QED
  BY <1>1, <1>2, <1>3, <1>4, <1>5, <1>6, <1>7, EarlySteps

\* From Euclid on nothing but gas, code and the database refuses an L1 message.
LEMMA IncludedInd ==
  ASSUME IndInv, L1MessageIsIncluded, Next
  PROVE  L1MessageIsIncluded'
<1>1. CASE phase' # "error"
  BY <1>1 DEF L1MessageIsIncluded
<1>2. CASE DatabaseError \/ execution_result
  BY <1>2 DEF DatabaseError, execution_result, Fail, ReturnToCaller, L1MessageIsIncluded
<1>3. CASE validate
  BY <1>3 DEF validate, EnvInvalid, Fail, KeepSession, L1MessageIsIncluded
<1>4. CASE mainnet_deduct_caller \/ deduct_rollup_fee
  BY <1>4 DEF mainnet_deduct_caller, deduct_rollup_fee, KeepSession, IndInv, ModeInv,
              L1MessageIsIncluded
<1>5. CASE validate_l1_msg
  BY <1>5 DEF validate_l1_msg, L1MessageVerdict, skip_balance_check, KeepSession, Fail,
              L1MessageIsIncluded
<1>6. CASE reward_beneficiary
  BY <1>6 DEF reward_beneficiary, skip_reward, KeepSession, Fail, L1MessageIsIncluded
<1>7. CASE validate_l1_msg \/ fetch_l1_block_info \/ load_accounts \/ apply_eip7702_auth_list
           \/ execution \/ contract_pays \/ contract_creates \/ oracle_is_updated
           \/ frame_returns \/ last_frame_result \/ refund \/ eip7623_check_gas_floor
           \/ reimburse_caller \/ catch_error
  BY <1>5, <1>7, <1>1 DEF fetch_l1_block_info, load_accounts, apply_eip7702_auth_list, execution,
              contract_pays, contract_creates, oracle_is_updated, Operation, frame_returns,
              FrameEndsIn, FrameEnds, last_frame_result, refund, eip7623_check_gas_floor,
              reimburse_caller, catch_error, ReturnToCaller
<1>8. CASE SessionStep
  <2>1. phase' # "error"
    BY <1>8 DEF SessionStep, transact_one, replay, inspect_one_tx, system_call_one_with_caller,
                StartRun, finalize, commit, DropOutput, SetContext, Rebuild, ReturnToCaller
  <2> QED
    BY <1>1, <2>1
<1> QED
  BY <1>2, <1>3, <1>4, <1>5, <1>6, <1>7, <1>8 DEF Next, HandlerStep

-----------------------------------------------------------------------------
(***************************************************************************)
(* The invariant and what follows from it.                                 *)
(***************************************************************************)
\* The second invariant holds of every run, on top of the first.
THEOREM RunInvariance == Spec => []RunInv
<1>1. Init => RunInv
  BY DEF Init, RunInv, GasRunInv, NonceInv, L1MoneyInv, L1SenderInv, L1MessageIsIncluded, AfterFrame
<1>2. IndInv /\ RunInv /\ [Next]_vars => RunInv'
  <2> SUFFICES ASSUME IndInv, RunInv, [Next]_vars PROVE RunInv'
    OBVIOUS
  <2>1. CASE Next
    <3>1. GasRunInv' /\ NonceInv' /\ L1MessageIsIncluded'
      BY <2>1, GasRunInd, NonceInd, IncludedInd DEF RunInv
    <3>2. L1MoneyInv' /\ L1SenderInv'
      BY <2>1, L1MoneyInd, L1SenderInd
    <3> QED
      BY <3>1, <3>2 DEF RunInv
  <2>2. CASE UNCHANGED vars
    <3>1. GasRunInv' /\ NonceInv' /\ L1SenderInv' /\ L1MessageIsIncluded'
      BY <2>2 DEF vars, RunInv, GasRunInv, NonceInv, L1SenderInv, L1MessageIsIncluded,
                  AfterFrame, GasBounds, gas_used, gas_spent, floor_gas
    <3>2. /\ CallerKeepsTheRest' = CallerKeepsTheRest /\ MovedItsValue' = MovedItsValue
          /\ HasCode(tx.to)' = HasCode(tx.to) /\ Transfer(start)' = Transfer(start)
      BY <2>2, MoneyKept DEF vars, Transfer, Pay, Debit, Credit
    <3>3. L1MoneyInv'
      BY <2>2, <3>2 DEF vars, RunInv, L1MoneyInv, AfterFrame
    <3> QED
      BY <3>1, <3>3 DEF RunInv
  <2> QED
    BY <2>1, <2>2
<1> QED
  BY <1>1, <1>2, Invariance, PTL DEF Spec

\* Refunds and the calldata floor never take the gas of a transaction out of its
\* bounds, in the order in which the handler applies them.
THEOREM GasCorrect == Spec => []GasWithinBounds
<1>1. RunInv => GasWithinBounds
  BY DEF RunInv, GasRunInv, GasWithinBounds
<1> QED
  BY <1>1, RunInvariance, PTL

\* A transaction that is included has used up its nonce.
THEOREM NonceUsed == Spec => []IncludedTxUsesNonce
<1>1. RunInv => IncludedTxUsesNonce
  BY DEF RunInv, NonceInv, AfterFrame, IncludedTxUsesNonce
<1> QED
  BY <1>1, RunInvariance, PTL

\* An L1 message to an account without code moves its value and what its caller is
\* given back; a sender without code loses the value at most, whatever code does.
THEOREM L1MessageMoney == Spec => []L1MessageMovesOnlyItsValue
<1>1. RunInv => L1MessageMovesOnlyItsValue
  BY DEF RunInv, L1MoneyInv, AfterFrame, L1MessageMovesOnlyItsValue
<1> QED
  BY <1>1, RunInvariance, PTL

\* From Euclid on nothing but gas, code and the database refuses an L1 message.
THEOREM L1MessageIncluded == Spec => []L1MessageIsIncluded
<1>1. RunInv => L1MessageIsIncluded
  BY DEF RunInv
<1> QED
  BY <1>1, RunInvariance, PTL

\* Over a database that delivers code with the account, an L1 message from a
\* contract is rejected.
THEOREM L1SenderChecked ==
  ASSUME DbInlinesCode
  PROVE  Spec => []L1SenderHasNoCode
<1>1. RunInv => L1SenderHasNoCode
  BY DEF RunInv, L1SenderInv, L1SenderHasNoCode
<1> QED
  BY <1>1, RunInvariance, PTL
=============================================================================
