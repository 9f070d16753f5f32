--------------------------- MODULE HistoryStorage ---------------------------
(***************************************************************************)
(* BLOCKHASH across the fork that makes it storage-backed                  *)
(* (src/src/instructions.rs), and the ring buffer it reads: the storage of *)
(* the EIP-2935 contract, which the block producer fills with one system   *)
(* call per block.                                                         *)
(*                                                                         *)
(* A hash is a record of where it comes from: the header of a block, or    *)
(* the keccak of chain id and number that stood for it before Feynman.     *)
(* Block numbers are u64.                                                  *)
(***************************************************************************)
EXTENDS Integers

CONSTANTS
  BLOCK_HASH_HISTORY,    \* 256: how far back BLOCKHASH looks
  HISTORY_SERVE_WINDOW,  \* 8191: the slots of the ring buffer
  FeynmanBlocks,         \* the numbers Feynman may activate at
  MaxBlock,              \* bound on the blocks of a behaviour
  DbMayFail              \* whether the database can return an error

ASSUME HistoryAssumption ==
  /\ BLOCK_HASH_HISTORY \in Nat \ {0} /\ HISTORY_SERVE_WINDOW \in Nat \ {0}
  /\ BLOCK_HASH_HISTORY <= HISTORY_SERVE_WINDOW
  /\ FeynmanBlocks \subseteq Nat \ {0} /\ FeynmanBlocks # {}
  /\ MaxBlock \in Nat /\ DbMayFail \in BOOLEAN

VARIABLES
  feynman,   \* the first block of Feynman
  number,    \* the block that is executed
  db,        \* the ring buffer in the database
  ring,      \* the ring buffer as the journal of the block sees it
  loaded,    \* whether the journal has loaded the contract's account
  cached,    \* the slots the journal has loaded
  opened,    \* whether the producer's system call has run in this block
  answer     \* history: the last BLOCKHASH of the block, or NoAnswer

vars == <<feynman, number, db, ring, loaded, cached, opened, answer>>

Slots == 0 .. HISTORY_SERVE_WINDOW - 1

Zero             == [kind |-> "zero", number |-> 0]
header(n)        == [kind |-> "header", number |-> n]

\* compute_block_hash, on one chain.
compute_block_hash(n) == [kind |-> "computed", number |-> n]

Fatal    == [kind |-> "fatal", number |-> 0]
NoAnswer == [requested |-> 0, value |-> Fatal]

Hashes == [kind : {"zero", "header", "computed", "fatal"}, number : Nat]

IsFeynman == number >= feynman

Init ==
  /\ feynman \in FeynmanBlocks
  /\ number = 1
  /\ db = [i \in Slots |-> Zero] /\ ring = db
  /\ loaded = FALSE /\ cached = {} /\ opened = FALSE /\ answer = NoAnswer

-----------------------------------------------------------------------------
(***************************************************************************)
(* BLOCKHASH.                                                              *)
(***************************************************************************)
\* Mutant: the ring is as long as BLOCKHASH looks back.
index_of_history(n) == n % BLOCK_HASH_HISTORY

\* The slot of a block's hash.
index(n) == n % HISTORY_SERVE_WINDOW

\* Mutant: the oldest block is left out.
served_below(requested) ==
  requested <= number /\ number - requested \in 1 .. BLOCK_HASH_HISTORY - 1

\* The current block, a later one and one that is too old have no hash.
served(requested) ==
  requested <= number /\ number - requested \in 1 .. BLOCK_HASH_HISTORY

\* The account is loaded, then the slot; each read goes to the database unless the
\* journal has it, and the frame halts if that fails.
blockhash ==
  /\ \E requested \in 0 .. MaxBlock + 1 :
       \/ /\ ~served(requested)
          /\ answer' = [requested |-> requested, value |-> Zero]
          /\ UNCHANGED <<loaded, cached>>
       \/ /\ served(requested) /\ ~IsFeynman
          /\ answer' = [requested |-> requested, value |-> compute_block_hash(requested)]
          /\ UNCHANGED <<loaded, cached>>
       \/ /\ served(requested) /\ IsFeynman
          /\ answer' = [requested |-> requested, value |-> ring[index(requested)]]
          /\ loaded' = TRUE /\ cached' = cached \cup {index(requested)}
       \/ /\ served(requested) /\ IsFeynman /\ DbMayFail
          /\ \/ ~loaded /\ UNCHANGED loaded
             \/ index(requested) \notin cached /\ loaded' = TRUE
          /\ UNCHANGED cached
          /\ answer' = [requested |-> requested, value |-> Fatal]
  /\ UNCHANGED <<feynman, number, db, ring, opened>>

-----------------------------------------------------------------------------
(***************************************************************************)
(* The block producer, around the EVM.                                     *)
(***************************************************************************)
\* The system call that stores the hash of the parent.  It comes before the
\* transactions of the block, but nothing in the EVM asks for it.
StoreParentHash ==
  /\ IsFeynman /\ ~opened
  /\ ring' = [ring EXCEPT ![(number - 1) % HISTORY_SERVE_WINDOW] = header(number - 1)]
  /\ opened' = TRUE /\ answer' = NoAnswer
  /\ loaded' = TRUE /\ cached' = cached \cup {(number - 1) % HISTORY_SERVE_WINDOW}
  /\ UNCHANGED <<feynman, number, db>>

\* The block is done.
CommitBlock ==
  /\ number < MaxBlock /\ (IsFeynman => opened)
  /\ number' = number + 1 /\ db' = ring
  /\ loaded' = FALSE /\ cached' = {} /\ opened' = FALSE /\ answer' = NoAnswer
  /\ UNCHANGED <<feynman, ring>>

\* The block is given up, and is built again.
AbandonBlock ==
  /\ ring' = db
  /\ loaded' = FALSE /\ cached' = {} /\ opened' = FALSE /\ answer' = NoAnswer
  /\ UNCHANGED <<feynman, number, db>>

Next == blockhash \/ StoreParentHash \/ CommitBlock \/ AbandonBlock

Spec == Init /\ [][Next]_vars

-----------------------------------------------------------------------------
(***************************************************************************)
(* Properties.                                                             *)
(***************************************************************************)
\* The blocks whose hash the ring has been given: from the parent of the first
\* Feynman block to the parent of the block that last ran its system call.
Last == IF opened THEN number - 1 ELSE number - 2

Stored == (feynman - 1) .. Last

Answered == answer # NoAnswer /\ answer.value # Fatal

\* Before the producer's call of a block only the parent's answer is off: it is
\* zero, or, once the ring has gone round, the hash of the block a whole window
\* earlier.
OnlyParentIsStale ==
  Answered /\ ~opened /\ answer.value \notin {Zero, header(answer.requested),
                                              compute_block_hash(answer.requested)}
    => /\ answer.requested = number - 1
       /\ answer.value = header(number - 1 - HISTORY_SERVE_WINDOW)

\* A block the ring has been given is answered with its own hash, however often the
\* ring has gone round; before Feynman every block is answered with a computed hash,
\* and at the fork the answers for the blocks before it turn to zero.  The parent,
\* before the producer's call of the block, is not among the blocks the ring has
\* been given: its answer may be another block's hash, as OnlyParentIsStale says.
WindowIsServed ==
  Answered /\ answer.requested \in (number - BLOCK_HASH_HISTORY) .. (number - 1) =>
    /\ ~IsFeynman => answer.value = compute_block_hash(answer.requested)
    /\ answer.requested \in Stored => answer.value = header(answer.requested)
    /\ IsFeynman /\ answer.requested < feynman - 1 => answer.value = Zero

-----------------------------------------------------------------------------
(***************************************************************************)
(* The inductive invariant.                                                *)
(***************************************************************************)
\* A ring as it stands after block `last`: the stored blocks of the window are in
\* their slots, and nothing else is anywhere.
Holds(r, last) ==
  /\ \A b \in (feynman - 1) .. last : last - b < HISTORY_SERVE_WINDOW => r[index(b)] = header(b)
  /\ \A i \in Slots : r[i] = Zero \/ \E b \in (feynman - 1) .. last : index(b) = i /\ r[i] = header(b)

\* The inductive invariant; its shape, and what the two rings hold.
IndInv ==
  /\ feynman \in FeynmanBlocks /\ number \in Nat \ {0}
  /\ db \in [Slots -> Hashes] /\ ring \in [Slots -> Hashes]
  /\ opened \in BOOLEAN /\ (opened => IsFeynman)
  /\ Holds(db, number - 2) /\ Holds(ring, Last)
  /\ ~opened => ring = db
  /\ OnlyParentIsStale /\ WindowIsServed
=============================================================================
