------------------------- MODULE ScrollInstructions -------------------------
(***************************************************************************)
(* The instructions Scroll overrides (src/src/instructions.rs), executed   *)
(* in any order by a frame that is in the middle of its program; BLOCKHASH *)
(* is in HistoryStorage.                                                   *)
(*                                                                         *)
(* An instruction is a function from the frame to the frame it leaves.     *)
(* The interpreter charges the static gas of the table before it calls it. *)
(***************************************************************************)
EXTENDS ScrollSpecId, Sequences, FiniteSets

CONSTANTS
  UsizeMax,        \* 2^64 - 1
  WordBits,        \* 256
  WordBytes,       \* 32, the unit of memory and of copies
  MemoryQuotient,  \* 512, of the quadratic term of the memory's cost
  StackLimit,      \* 1024
  Frames,          \* frames in the middle of a program
  MaxSteps         \* bound on the instructions that are observed

Words == 0 .. 2^WordBits - 1

Results == {"none", "OutOfGas", "MemoryOOG", "InvalidOperandOOG", "StackUnderflow", "StackOverflow",
            "NotActivated", "StateChangeDuringStaticCall"}

Frame == [stack : Seq(Words), memory : Seq(Nat), gas : Nat, is_static : BOOLEAN, result : Results]

ASSUME WidthAssumption ==
  /\ UsizeMax \in Nat /\ WordBytes \in Nat \ {0} /\ MemoryQuotient \in Nat \ {0}
  /\ WordBits \in Nat \ {0} /\ 2^WordBits \in Nat /\ WordBits < 2^WordBits
  /\ StackLimit \in Nat /\ MaxSteps \in Nat

ASSUME FrameAssumption ==
  /\ Frames \subseteq Frame
  /\ \A f \in Frames : /\ f.result = "none" /\ Len(f.stack) <= StackLimit
                       /\ Len(f.memory) % WordBytes = 0

VARIABLES
  spec,       \* the configured fork
  frame,      \* stack, memory, gas, whether it is static, how it halted
  transient,  \* the transient storage of the frame's account
  start,      \* history: the frame before the first instruction
  work,       \* history: what the instructions are worth, growth of memory aside
  ran         \* history: the instructions that have run to their end

vars == <<spec, frame, transient, start, work, ran>>

Init ==
  /\ spec \in Specs
  /\ start \in Frames /\ frame = start
  /\ transient = [k \in Words |-> 0]
  /\ work = 0 /\ ran = << >>

-----------------------------------------------------------------------------
(***************************************************************************)
(* The interpreter's macros.                                               *)
(***************************************************************************)
halt(f, result) == [f EXCEPT !.result = result]

Pops(f, n)   == Len(f.stack) >= n
Top(f, i)    == f.stack[Len(f.stack) + 1 - i]
Drop(f, n)   == [f EXCEPT !.stack = SubSeq(@, 1, Len(@) - n)]
push(f, v)   == IF Len(f.stack) = StackLimit THEN halt(f, "StackOverflow")
                ELSE [f EXCEPT !.stack = Append(@, v)]

num_words(n)           == (n + WordBytes - 1) \div WordBytes
memory_gas(words)      == 3 * words + ((words * words) \div MemoryQuotient)
copy_cost_verylow(len) == 3 + 3 * num_words(len)

gas_or_fail(f, cost) ==
  IF cost > f.gas THEN halt(f, "OutOfGas") ELSE [f EXCEPT !.gas = @ - cost]

\* Memory covers offset and length, in whole words, once the growth is paid.
resize_memory(f, offset, len) ==
  LET old  == num_words(Len(f.memory))
      new  == num_words(offset + len)
      paid == gas_or_fail(f, memory_gas(new) - memory_gas(old))
  IN  IF new <= old THEN f
      ELSE IF paid.result # "none" THEN halt(f, "MemoryOOG")
      ELSE [paid EXCEPT !.memory = @ \o [i \in 1 .. (new - old) * WordBytes |-> 0]]

\* Memory::copy, the source read before the destination is written.
memory_copy(f, dst, src, len) ==
  [f EXCEPT !.memory = [i \in DOMAIN @ |-> IF i - 1 \in dst .. dst + len - 1
                                           THEN @[i - dst + src] ELSE @[i]]]

-----------------------------------------------------------------------------
(***************************************************************************)
(* The instructions.                                                       *)
(***************************************************************************)
Opcodes == {"BASEFEE", "TSTORE", "TLOAD", "SELFDESTRUCT", "MCOPY", "DIFFICULTY", "CLZ", "BLOBHASH"}

static_gas(op) ==
  CASE op \in {"BASEFEE", "DIFFICULTY"} -> 2
    [] op \in {"TSTORE", "TLOAD"}       -> 100
    [] op \in {"SELFDESTRUCT", "MCOPY"} -> 0
    [] op = "CLZ"                       -> 5
    [] op = "BLOBHASH"                  -> 3

NotActivated(f) == halt(f, "NotActivated")
Underflow(f)    == halt(f, "StackUnderflow")

selfdestruct(f) == NotActivated(f)

DIFFICULTY == 0
difficulty(f) == push(f, DIFFICULTY)

\* The base fee of the block.
BaseFee == 1

basefee(f) == IF is_enabled_in(spec, CURIE) THEN push(f, BaseFee) ELSE NotActivated(f)

\* require_non_staticcall.
may_store(f) == ~f.is_static

\* host.tstore, and an instruction that leaves the host alone.
Stored(f) == [transient EXCEPT ![Top(f, 1)] = Top(f, 2)]
Kept(f)   == [frame |-> f, transient |-> transient]

\* Mutant: the host stores before the guard of a static frame is asked.
tstore_before_guard(f) ==
  IF ~is_enabled_in(spec, CURIE) THEN Kept(NotActivated(f))
  ELSE IF ~Pops(f, 2) THEN Kept(Underflow(f))
  ELSE [frame     |-> IF may_store(f) THEN Drop(f, 2) ELSE halt(f, "StateChangeDuringStaticCall"),
        transient |-> Stored(f)]

\* The frame and the transient storage TSTORE leaves: the host stores last.
tstore(f) ==
  IF ~is_enabled_in(spec, CURIE) THEN Kept(NotActivated(f))
  ELSE IF ~may_store(f) THEN Kept(halt(f, "StateChangeDuringStaticCall"))
  ELSE IF ~Pops(f, 2) THEN Kept(Underflow(f))
  ELSE [frame |-> Drop(f, 2), transient |-> Stored(f)]

tload(f) ==
  IF ~is_enabled_in(spec, CURIE) THEN NotActivated(f)
  ELSE IF ~Pops(f, 1) THEN Underflow(f) ELSE push(Drop(f, 1), transient[Top(f, 1)])

\* Mutant: memory is grown for the destination only.
mcopy_end_of_dst(dst, src) == dst

\* The larger of both offsets.
mcopy_end(dst, src) == IF src > dst THEN src ELSE dst

\* Mutant: an empty copy is free.
mcopy_cost_of_bytes(len) == IF len = 0 THEN 0 ELSE copy_cost_verylow(len)

mcopy_cost(len) == copy_cost_verylow(len)

\* Mutant: source and destination are popped in the wrong order.
mcopy_operands_swapped(f) == [dst |-> Top(f, 2), src |-> Top(f, 1), len |-> Top(f, 3)]

mcopy_operands(f) == [dst |-> Top(f, 1), src |-> Top(f, 2), len |-> Top(f, 3)]

\* The copy is paid for before its offsets are looked at, memory after; an empty
\* copy looks at neither.
mcopy_of(f, o) ==
  LET paid    == gas_or_fail(f, mcopy_cost(o.len))
      resized == resize_memory(paid, mcopy_end(o.dst, o.src), o.len)
  IN  IF o.len > UsizeMax THEN halt(f, "InvalidOperandOOG")
      ELSE IF paid.result # "none" \/ o.len = 0 THEN paid
      ELSE IF o.dst > UsizeMax \/ o.src > UsizeMax THEN halt(paid, "InvalidOperandOOG")
      ELSE IF resized.result # "none" THEN resized
      ELSE IF o.src + o.len > Len(resized.memory) THEN halt(resized, "panic")
      ELSE memory_copy(resized, o.dst, o.src, o.len)

mcopy(f) ==
  IF ~is_enabled_in(spec, CURIE) THEN NotActivated(f)
  ELSE IF ~Pops(f, 3) THEN Underflow(f) ELSE mcopy_of(Drop(f, 3), mcopy_operands(f))

\* The bits at and above which none is set.
leading_zeros(v) == Cardinality({b \in 0 .. WordBits - 1 : v < 2^b})

\* Mutant: the gate is that of the fork before.
clz_activation_early == FEYNMAN

clz_activation == GALILEO

clz(f) ==
  IF ~is_enabled_in(spec, clz_activation) THEN NotActivated(f)
  ELSE IF ~Pops(f, 1) THEN Underflow(f) ELSE push(Drop(f, 1), leading_zeros(Top(f, 1)))

\* An instruction that is not overridden asks for Ethereum's fork, Cancun here.
ETH_CANCUN == 17
blobhash(f) == IF into_eth_spec_id(spec) >= ETH_CANCUN THEN push(Drop(f, 1), 0) ELSE NotActivated(f)

\* make_scroll_instruction_table: the frame an instruction leaves.
instruction(op, f) ==
  CASE op = "BASEFEE"      -> basefee(f)
    [] op = "TSTORE"       -> tstore(f).frame
    [] op = "TLOAD"        -> tload(f)
    [] op = "SELFDESTRUCT" -> selfdestruct(f)
    [] op = "MCOPY"        -> mcopy(f)
    [] op = "DIFFICULTY"   -> difficulty(f)
    [] op = "CLZ"          -> clz(f)
    [] op = "BLOBHASH"     -> blobhash(f)

\* What an instruction is worth: its static gas, and the words a copy moves.
Worth(op, f) ==
  IF op = "MCOPY" THEN 3 + 3 * num_words(Top(f, 3)) ELSE static_gas(op)

\* One instruction: its static gas is charged, then it runs.  What it has done to
\* the host stays done, however it ends.
Step(op) ==
  /\ frame.result = "none" /\ Len(ran) < MaxSteps
  /\ LET charged == gas_or_fail(frame, static_gas(op))
         after   == IF charged.result = "none" THEN instruction(op, charged) ELSE charged
     IN  /\ frame' = after
         /\ transient' = IF op = "TSTORE" /\ charged.result = "none"
                         THEN tstore(charged).transient ELSE transient
         /\ IF after.result = "none"
            THEN ran' = Append(ran, op) /\ work' = work + Worth(op, frame)
            ELSE UNCHANGED <<ran, work>>
  /\ UNCHANGED <<spec, start>>

\* The transaction ends and its transient storage is dropped; another one comes to
\* the same frame.
NextTransaction ==
  /\ frame' = start
  /\ transient' = [k \in Words |-> 0]
  /\ work' = 0 /\ ran' = << >>
  /\ UNCHANGED <<spec, start>>

Next == (\E op \in Opcodes : Step(op)) \/ NextTransaction

Spec == Init /\ [][Next]_vars

-----------------------------------------------------------------------------
(***************************************************************************)
(* Properties.                                                             *)
(***************************************************************************)
\* The shape of the state.  Memory is in whole words, the stack within its limit,
\* and no instruction panics.
TypeOK ==
  /\ spec \in Specs /\ start \in Frames
  /\ transient \in [Words -> Words]
  /\ frame \in Frame
  /\ Len(frame.stack) <= StackLimit /\ Len(frame.memory) % WordBytes = 0
  /\ ran \in Seq(Opcodes) /\ work \in Nat

\* The forks in which an opcode runs, whatever Ethereum's fork is taken to be.
ActiveIn(op) ==
  CASE op \in {"BASEFEE", "TSTORE", "TLOAD", "MCOPY"} -> CURIE .. GALILEO
    [] op = "CLZ"                                    -> {GALILEO}
    [] op = "DIFFICULTY"                             -> Specs
    [] op \in {"SELFDESTRUCT", "BLOBHASH"}           -> {}

\* No opcode runs to its end in a fork that does not have it: the overridden ones go
\* by Scroll's forks, the others by Shanghai.
OnlyActiveOpcodesRun == \A i \in DOMAIN ran : spec \in ActiveIn(ran[i])

\* While a frame runs, the gas it has spent is exactly what its instructions are
\* worth plus the price of the memory it has grown by, in whatever order copies
\* grow it.
GasIsExact ==
  frame.result = "none" =>
    start.gas - frame.gas =
      work + memory_gas(num_words(Len(frame.memory))) - memory_gas(num_words(Len(start.memory)))

\* What transient storage holds was stored by a TSTORE that ran to its end: one
\* that halts, in a static frame, under a fork without it or for want of operands,
\* has not stored already.
TransientIsGuarded ==
  (\E k \in Words : transient[k] # 0) =>
    /\ ~frame.is_static /\ spec >= CURIE
    /\ \E i \in DOMAIN ran : ran[i] = "TSTORE"

\* The byte at an offset, memory going on with zeros.
ByteAt(memory, i) == IF i < Len(memory) THEN memory[i + 1] ELSE 0

\* MCOPY moves the bytes as they were before, also when source and destination
\* overlap or lie beyond the memory, and no other byte.
CopyIsExact ==
  [][Len(ran') > Len(ran) /\ ran'[Len(ran')] = "MCOPY" =>
       LET dst == Top(frame, 1)
           src == Top(frame, 2)
           len == Top(frame, 3)
       IN  \A i \in 0 .. Len(frame'.memory) - 1 :
             ByteAt(frame'.memory, i) =
               ByteAt(frame.memory, IF i \in dst .. dst + len - 1 THEN i - dst + src ELSE i)]_vars
=============================================================================
