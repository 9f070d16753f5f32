---------------------------- MODULE RollupLedger ----------------------------
(***************************************************************************)
(* What a Scroll EVM promises to the block builder that drives it: a       *)
(* ledger of balances and nonces on which a transaction is one step.  An   *)
(* account is a contract if it holds code: then others may make it spend.  *)
(*                                                                         *)
(*   session    what the next transaction starts from                      *)
(*   committed  what the database holds                                    *)
(*   pending    a finalized session the builder has not yet committed,     *)
(*              or Nothing                                                 *)
(*                                                                         *)
(* A transaction takes money from one account and from contracts only.  It *)
(* destroys none, creates none beyond a subsidy (what a message from L1 is *)
(* reimbursed), and never gives a nonce back.  A transaction that fails    *)
(* moves no money.  The database changes only to a finalized session.      *)
(***************************************************************************)
EXTENDS Integers, Functions

CONSTANTS
  Addr,
  Nothing,   \* not a ledger
  Subsidies  \* what a transaction may add to the supply

VARIABLES session, committed, pending

vars == <<session, committed, pending>>

Ledger == [balance : [Addr -> Nat], nonce : [Addr -> Nat], contracts : SUBSET Addr]

TotalSupply(ledger) == SumFunction(ledger.balance)

\* One account pays, and contracts; every other account is paid or untouched.
MovesMoney(from, to) ==
  /\ TotalSupply(to) - TotalSupply(from) \in Subsidies
  /\ \E payer \in Addr :
       \A a \in Addr \ ({payer} \cup to.contracts) : to.balance[a] >= from.balance[a]

KeepsNonces(from, to) == \A a \in Addr : to.nonce[a] >= from.nonce[a]

Included(from, to) == MovesMoney(from, to) /\ KeepsNonces(from, to)

\* At most one nonce is used up, by an account that may become a contract with it,
\* or cease to be one.
Rejected(from, to) ==
  /\ to.balance = from.balance
  /\ \/ to = from
     \/ \E a \in Addr :
          /\ to.nonce = [from.nonce EXCEPT ![a] = @ + 1]
          /\ to.contracts \in {from.contracts, from.contracts \cup {a}, from.contracts \ {a}}

-----------------------------------------------------------------------------
Init ==
  /\ committed \in Ledger
  /\ session = committed
  /\ pending = Nothing

Include ==
  /\ pending = Nothing
  /\ session' \in Ledger /\ Included(session, session')
  /\ UNCHANGED <<committed, pending>>

Reject ==
  /\ pending = Nothing
  /\ session' \in Ledger /\ Rejected(session, session')
  /\ UNCHANGED <<committed, pending>>

\* A transaction whose effect is handed out at once, and not kept.
Simulate ==
  /\ pending = Nothing
  /\ pending' \in Ledger /\ Included(session, pending')
  /\ session' = committed
  /\ UNCHANGED committed

Finalize ==
  /\ pending = Nothing
  /\ pending' = session /\ session' = committed
  /\ UNCHANGED committed

Commit ==
  /\ pending # Nothing
  /\ committed' = pending /\ session' = pending /\ pending' = Nothing

\* The builder gives up the session, or the finalized state, or both.
Discard ==
  /\ session' = committed /\ pending' = Nothing
  /\ UNCHANGED committed

Next == Include \/ Reject \/ Simulate \/ Finalize \/ Commit \/ Discard

Spec == Init /\ [][Next]_vars
=============================================================================
