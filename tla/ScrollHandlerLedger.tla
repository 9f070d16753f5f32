------------------------ MODULE ScrollHandlerLedger ------------------------
(***************************************************************************)
(* ScrollHandler implements RollupLedger.  Between transactions the        *)
(* session of the ledger is the world the journal shows; while a           *)
(* transaction runs it is still the world the transaction started from, so *)
(* that the steps of the handler are invisible until execution_result or   *)
(* catch_error.                                                            *)
(***************************************************************************)
EXTENDS ScrollHandler, FiniteSets

\* Accounts have addresses of 160 bits: what they hold together is a finite sum.
ASSUME FiniteAddrAssumption == IsFiniteSet(Addr)

Money(world) == [balance |-> world.balance, nonce |-> world.nonce,
                 contracts |-> {a \in Addr : world.code[a] # "none"}]

\* What an L1 message may be reimbursed although it was charged nothing.
Reimbursements ==
  {0} \cup UNION {0 .. t.gasLimit * t.maxFee : t \in {t \in Txs \cup SystemCalls : t.l1msg}}

Ledger == INSTANCE RollupLedger WITH
  Nothing   <- NoWorld,
  Subsidies <- Reimbursements,
  session   <- Money(start),
  committed <- Money(db),
  pending   <- IF output = NoWorld THEN NoWorld ELSE Money(output)

\* Each run of the EVM is a run of the ledger: what a transaction, a failure, a
\* replay and a commit do to it is what a block builder may rely on.
ImplementsLedger == Ledger!Spec

\* No step of the handler creates or destroys money but for the fee.  At every
\* point of a transaction, also where it is about to fail, the balances in the
\* journal and the fee in flight (charged and neither given back nor paid out) add
\* up to the balances the transaction started with.  At its end nothing is in
\* flight: only an L1 message has added to the supply, what it was reimbursed.
SupplyConserved ==
  /\ Ledger!TotalSupply(state) + fees.charged
       = Ledger!TotalSupply(start) + fees.reimbursed + fees.rewarded
  /\ phase = "result" =>
       Ledger!TotalSupply(state)
         = Ledger!TotalSupply(start) + IF tx.l1msg THEN fees.reimbursed ELSE 0

BeforeFrame == phase \in {"idle", "validate", "fetch", "deduct", "rollupFee", "l1msg",
                          "loadAccounts", "authList", "execution"}

\* Once code may run, an account that has some may be made to spend.
MaySpend(a) == ~BeforeFrame /\ HasCode(a)

\* The value, once it may have moved.
ValueAtStake == IF BeforeFrame THEN 0 ELSE tx.value

\* At every point of a transaction, also of one that fails: an account without
\* code has no less than at the start, but for the caller, who is down by the fee
\* it has not got back and by the value at most.  No nonce is given back.
OnlyCallerPays ==
  /\ \A a \in Addr \ {tx.caller} : MaySpend(a) \/ state.balance[a] >= start.balance[a]
  /\ \/ MaySpend(tx.caller)
     \/ state.balance[tx.caller] + fees.charged + ValueAtStake
          >= start.balance[tx.caller] + fees.reimbursed
  /\ \A a \in Addr : state.nonce[a] >= start.nonce[a]

\* While a finalized world waits for the caller nothing runs, and the journal is
\* that of an EVM fresh from the database.
OutputWaits == output # NoWorld => phase = "idle" /\ loaded = {} /\ start = db

\* The inductive invariant of the ledger, relative to IndInv.
LedgerInv == SupplyConserved /\ OnlyCallerPays /\ OutputWaits
=============================================================================
