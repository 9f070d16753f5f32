# scroll-revm in TLA+

A verification project for scroll-revm, the crate that turns revm into the EVM of the Scroll
rollup. Source paths are relative to the repository root's parent directory, as everywhere in
this project: `src/src/handler.rs` is the file `src/handler.rs` of the repository.

The crate is a thin layer over revm: it overrides handler methods, prices the L1 data of a
transaction, and selects precompiles and opcodes by fork. It is sequential and holds no locks;
what is hard about it is the *state that outlives a step*: a context shared by all transactions
of a session, a database read below the journal, journal data that is written in place, errors
and panics at any read, and the fact that half of the algorithm lives in revm and is only
inherited.

## 1. Inventory

| Component | Source | State | Operations |
|---|---|---|---|
| Hardforks | `spec.rs` | none | `is_enabled_in`, conversions |
| Rollup fee | `l1block.rs` | `L1BlockInfo`, in the context's `chain` field | `try_fetch` (from the database), `calculate_tx_l1_cost` and its four formulas |
| Transaction handler | `handler.rs` | none of its own; works on context, journal and frame result | `pre_execution`, `validate_against_state_and_deduct_caller`, `last_frame_result`, `refund`, `eip7623_check_gas_floor`, `reward_beneficiary`; everything else is mainnet's |
| Session API | `exec.rs`, `system_call.rs` | context (`tx`, `block`, `cfg`, `chain`), journal | `transact_one`, `inspect_one_tx`, `replay`, `finalize`, `commit`, `set_block`, system calls |
| Transaction | `transaction.rs` | RLP bytes, compression ratio, compressed size next to the base transaction | predicates `is_l1_msg`, `is_system_tx`, accessors |
| EVM and builder | `evm.rs`, `builder.rs` | context, inspector, instruction table, precompile provider, frame stack | construction, the EIP-7702 and EIP-7623 switches of a context, forwarding |
| Precompiles | `precompile/*.rs` | the set and the spec it was built for | `new_with_spec`, `set_spec`, `run`, `warm_addresses`; input limits of modexp and pairing |
| Instructions | `instructions.rs` | the table (fixed); works on frame, journal and transient storage | the eight overridden opcodes, their static gas |

How they interact. A block builder builds an EVM over a database and calls `transact_one` once
per transaction. `Handler::run` walks through the handler's methods; each reads and writes the
context and the journal, and each database read may fail, in which case `catch_error` discards
the journal entries of the transaction. The effects of several transactions collect in the
journal until `finalize` hands them out, and reach the database only with `commit`. `replay`
runs the transaction that is still in the context and finalizes; a system call skips validation
and pre-execution altogether. The `L1BlockInfo` is written into the context in `pre_execution`
and read twice, when the fee is deducted and when the beneficiary is paid. The precompile
provider is told the fork only in `load_accounts`.

What is hard, and the properties that make each component correct:

- *Rollup fee.* Saturating 256-bit arithmetic, divisions at the end, fields that exist only from
  a fork on, asserts on the caller's metadata. Correct: the fee is the exact fee capped at
  `u64::MAX`; nothing panics on a field that `try_fetch` of the same fork has filled; more data
  never costs less.
- *Handler.* The fee is deducted in two steps of which one is not journaled, computed twice, and
  paid out in two steps; L1 messages bypass half of the checks, are included even when they
  cannot pay, and bump a nonce outside the journal. Correct: every wei charged comes back or is
  paid out; an L1 message costs a sender without code its value at most, and makes no money but
  what `reimburse_caller` gives it; gas stays within limit, floor and refund cap; the journal's
  entries undo a failing transaction to the last change; an included one uses its nonce.
- *Session.* A stale `L1BlockInfo`, a stale precompile set, an oracle update that is in the
  journal but not in the database, a replay of a system call. Correct: the rollup fee is the one
  of the committed oracle under the fork in force; to a builder the whole is a ledger on which a
  transaction is one atomic step.
- *Builder and precompiles.* Sets, switches and warm addresses are computed for a fork at one
  moment and used under another one. The provider follows the configured fork only in
  `load_accounts`, which a system call skips; the EIP switches follow it only when the builder
  says so; the warm addresses live in the journal, which survives the EVM. Correct: a
  transaction runs by the set of its fork, finds its addresses warm and has its switches; a new
  fork only widens what a precompile accepts, at exact input lengths.
- *Instructions.* Gates by Scroll's forks next to mainnet opcodes that see Shanghai for ever; gas
  that is charged in parts, the growth of memory last; overlapping copies; a static flag that
  outlives the check; a ring buffer behind BLOCKHASH that somebody else fills, one block late,
  and that starts empty at the fork. Correct: no opcode runs outside of its forks; the gas spent
  is exactly what was done; a copy moves the bytes as they were; a TSTORE that halts has not stored;
  BLOCKHASH answers for a stored block with its own hash, and only for the parent, before the
  producer's call of the block, with that of another block.

The hazards, each at its line and with the properties that cover it, are listed in
`PROJECT.json`.

## 2. Modules

| Module | What it is |
|---|---|
| `ScrollSpecId` | the forks in activation order |
| `L1BlockInfo` | `try_fetch` and the pricing formulas as operators, with every panic as a predicate |
| `RollupFee` | the life of an `L1BlockInfo`: oracle updates, fork changes, fetches, quotes; the formulas in unbounded integers as reference |
| `ScrollHandler` | the core: one action per handler method and per session operation |
| `RollupLedger` | the abstract specification: a ledger of balances and nonces, a transaction is one step |
| `ScrollHandlerLedger` | the refinement mapping from `ScrollHandler` to `RollupLedger`, and what the money does at every step |
| `ScrollPrecompiles` | the set of each fork, and what an implementation accepts and charges |
| `ForkSession` | contexts and the EVMs built over them while the fork changes: switches, provider, warm addresses, calls |
| `HistoryStorage` | BLOCKHASH, the ring buffer it reads and the block producer that fills it |
| `ScrollInstructions` | the other overridden opcodes, run in any order in a frame |
| `MCRollupFee`, `MCScrollHandler`, `MCForkSession`, `MCHistoryStorage`, `MCScrollInstructions` | the instances TLC checks |
| `L1BlockInfoProofs`, `RollupFeeProofs`, `ScrollHandlerProofs`, `ScrollHandlerLedgerProofs`, `ForkSessionProofs`, `HistoryStorageProofs`, `ScrollInstructionsProofs` | theorems and their proofs |
| `FoldProofs` | lemmas about folds over finite sets, and the sums of the ledger |

### ScrollHandler

State. `db` is the committed world, `output` a finalized world that is not committed yet,
`state` the world as the journal shows it, `entries` the journal's entries, `loaded` and `coded`
the accounts the journal holds and those of them whose code it holds. `chain`, `tx`, `block`,
`cfg` are the context. `phase` is the method about to run, `gas`, `authRefund` and `outcome` what
the methods pass to each other, `err` the error. `start` and `fees` are history: the world before
the transaction and the movements of its fee.

The journal. Every change that goes through the journal appends an entry (`BalanceEntry`,
`TransferEntry`, `NonceEntry`, `CodeEntry`, `CreatedEntry`, `StorageEntry`) with what is needed to
undo it, and `discard_tx` folds them from the last to the first (`Undone`). The two changes the
handler makes in place append none: the rollup fee (`deduct_rollup_fee`, handler.rs:121) and the
nonce of an L1 message (`L1Nonce`, handler.rs:170). That the first is undone all the same is not
built in: it follows from the balance that mainnet's entry holds, and a model that records that
balance a step later fails (`AccountingEntries_late`). That the second is not is seen in
`FailureLeavesNoTrace`.

| Action | Code |
|---|---|
| `transact_one`, `inspect_one_tx`, `replay`, `system_call_one_with_caller` | the entry points; a system call starts at `execution` |
| `validate` | revm: environment (not for the type of L1 messages), intrinsic gas, floor |
| `fetch_l1_block_info` | `pre_execution`, the fetch |
| `mainnet_deduct_caller` | revm's checks of the sender and its deduction, journaled |
| `deduct_rollup_fee` | the rollup fee: missing RLP bytes, panics, `LackOfFundForMaxFee`, in-place deduction |
| `validate_l1_msg` | the checks an L1 message gets, and its nonce |
| `load_accounts`, `apply_eip7702_auth_list` | rest of `pre_execution`; what `load_accounts` does to the precompiles is in `ForkSession` |
| `execution` | revm: the first frame does not start (value not covered, collision), begins, or ends reverted; a fatal error; an inspector that answers for it |
| `contract_pays`, `contract_creates`, `oracle_is_updated` | revm: what the code that runs does, one change at a time, each journaled and paid for with `CallGas` |
| `frame_returns` | the first frame succeeds with what was done; an inspector may rewrite the result |
| `last_frame_result`, `refund`, `eip7623_check_gas_floor` | gas after execution |
| `reimburse_caller`, `reward_beneficiary` | the fee is paid out |
| `execution_result` | the journal's entries become final; `replay` finalizes |
| `DatabaseError`, `catch_error` | a read that goes to the database fails; the journal is discarded |
| `finalize`, `commit`, `DropOutput`, `SetContext`, `Rebuild` | what the builder does between transactions |

Abstractions. A transaction carries its intrinsic gas and floor as numbers, and its L1 data as
byte counts. A frame leaves an amount of gas of the set `GasLeft` and a refund of the set
`Refunds`. While a frame runs in an account with code, any account with code may be called, and pay
(`Payments`) or create (`Creations`), or the oracle's storage be written, as often as the gas allows:
an account is a contract from its creation on, whatever code the creation left. A first frame that
reverts or halts is one step that changes nothing but what precedes its checkpoint, since what it did
in between is undone to that point. The source does not show whether revm journals what a valid
authorization changes (the signer's nonce, and a delegation made or ended); the model allows both.
The gas price of an L1 message is free: nothing in the crate asks for zero, and
`tests/l1_message.rs:218` runs one with a price of one. Balances and
nonces are unbounded. A panic ends the EVM, which is then rebuilt over the same database. The
parts of revm that the model needs (validation, deduction, frames, reimbursement, the journal)
are not in this repository; they are written from how the handler relies on them and are marked
external in `PROJECT.json`. The two `CASE` arms of `reward_beneficiary` for missing RLP bytes
and for a panic stand for code that cannot be reached, because `deduct_rollup_fee` has passed
the same tests: the invariant `FeeInv` states so and is proved.

A transaction starts only when no finalized state is waiting, as in `transact_commit` of revm; a
caller that starts one between `finalize` and `commit` would run it on the old database.

An inspector gets mutable access to frame and outcome. It may do what the trait allows to the
result: answer before the frame starts, in which case nothing of the frame happens (the last
disjunct of `execution`), or rewrite how it ended (`Ends`) with the gas the frame had. What an
inspector writes into the context behind the handler's back is not modelled.

### ForkSession and ScrollPrecompiles

The variables are those a call to a precompile depends on: `cfg` (fork and switches), `warm` (the
journal's precompile addresses), `provider` (its spec and set); `named`, `lowered`, `synced`,
`warmed` and `replaced` are history. `modify_cfg`, `maybe_with_eip_7702`, `maybe_with_eip_7623`, `build_scroll`
(with `ScrollEvm::new`), `TakeContext` and `with_precompiles` come in any order;
`StartTransaction` is all that `load_accounts` does to these variables,
`system_call_one_with_caller` starts an execution without it. `Call` runs a precompile by
`ScrollPrecompiles`. A set is a function from addresses to the names of implementations, extended
fork by fork as in the code; the reference in the properties (`StatusIn`) states the rules one by
one instead. Lengths are read from the bytes of the header, padded as `right_pad_with_offset` does;
the reference (`LengthAt`) adds up what each byte counts for at its place, where the code folds.

Three things the properties say about the code as it is: a system call runs by the fork of the last
transaction or of the construction (`synced`), not by the configured one; a provider that is built for
the configured fork over a journal warmed for another one reports no change, so that the old addresses
stay warm (`replaced`; a provider of the fork the journal was warmed for is held to the property);
and a switch is never ahead of the fork through upgrades, however late or early it was computed,
but is when the fork is lowered and the switch not computed again (`lowered`). That a switch may lag
behind an upgrade is what the code does, and no claim.

### HistoryStorage

`db` and `ring` are the ring buffer in the database and in the journal, `opened` says whether the
producer's system call of the block has run. `blockhash` is the instruction, with the two loads that
may each go to the database. `StoreParentHash`, `CommitBlock` and `AbandonBlock` are the producer; the
EVM does not enforce that its call comes first, so BLOCKHASH may run before it.

### ScrollInstructions

An instruction is a function from the frame to the frame it leaves; `Step` charges the static gas of
the table and then runs it. `basefee`, `tstore`, `tload`, `selfdestruct`, `mcopy`, `difficulty` and
`clz` are the overridden ones, `blobhash` stands for those that are not and see Ethereum's fork. What
TSTORE does to the host is its own part of the result (`tstore`), and stays done however the
instruction ends, so that a store before a guard would be seen. The
interpreter's macros (`gas_or_fail`, `resize_memory`, `push`) and `Memory::copy` are external. `work`
and `ran` are history.

### The abstract ledger

`RollupLedger` is what a builder may rely on: a session, the committed ledger, a pending one.
`Include` takes money from one account, which need hold no code, and from contracts, which others
may make spend; it destroys none and creates none beyond `Subsidies`, here what an L1 message may be
reimbursed (at most its gas limit times its gas price); it gives no nonce back. `Reject` moves no
money and uses up at most one nonce (that of an L1 message, or of an authorization); `Commit` is the only step that changes the database. Under the mapping the
session is `start`, so all handler steps stutter until the transaction's last one.

## 3. Runs

| Run | Question | Result |
|---|---|---|
| `rollup_fee` | Is the fee the exact one, capped, and monotone; do unwraps hold? | passes |
| `handler_core` | Do the safety properties and both inductive invariants hold in any session of two transactions, inspected ones included? | passes |
| `handler_ledger` | Does the handler implement the ledger? Is money conserved at every step, and who can have less but the caller and accounts with code? | passes |
| `handler_liveness` | Does every call return, also the replay of what a system call left? | passes |
| `rollup_fee_doc` | Is `calldata_gas` what its documentation says? | no: finding |
| `l1_nonce_doc` | Has the nonce of an L1 message been checked? | no: finding |
| `create_nonce_doc` | Is the nonce of a creation always bumped? | no: finding |
| `l1_sender_code_doc` | Are L1 messages from contracts always rejected? | no: finding, for databases that do not inline code |
| `fork_session` | Which set, warm addresses and switches does an execution run with, whatever order the fork is changed and EVMs are built in? | passes |
| `pairing_doc` | Is a short pairing padded to four pairs? | no: finding |
| `history_storage` | What does BLOCKHASH answer before, at and after the fork, over a ring that goes round? | passes |
| `instructions` | Gates, gas, transient storage and copies, in any order? | passes |

Bounds. `handler_core` has two senders, the beneficiary, the oracle, the system address and an
unused address; seventeen transactions, chosen so that each guard of the handler is met on both
sides (that of the base fee in the runs with two blocks); three forks (before Euclid, Euclid with
EIP-3607 disabled, Galileo), of which the first two share the Curie formula and the third has its
own (the formulas themselves are compared in `rollup_fee`, under every fork); two initial worlds, in
one of which bob is a contract; one block. `handler_ledger` and `handler_liveness` have a second
block with a base fee, in which the sender herself is the beneficiary. Bob's code may pay a sender
and create an account, alice's delegation may pay somebody else (`Payments`, `Creations`); a change
costs `CallGas`, which leaves an ordinary call one, and in `handler_ledger`, with the smaller price,
two. L1 messages have no gas price, or a price of one. Two transactions per session (`MaxRuns`) are
enough for everything one transaction can leave behind for the next one: an info, loaded code, a
delegation, a journal, an oracle update, a nonce. `U256Max`, `U64Max` and the precision are scaled
down; the fee run takes oracle values that saturate and payloads of up to three bytes with `U256Max`
at least `3 * U64Max * PRECISION` and at least `U64Max * PRECISION^2`, as in the code, where 2^256
is far above 2^64 * 10^18. `handler_liveness` has two transactions of five kinds as well, so that a
replay may run what a system call left in the context. `handler_ledger` has the nine that move money
in different ways, under one fork. Of the transactions two, a paying call and an L1 creation, are
also run under an inspector.

`fork_session` needs no bound on its steps, its state space is finite. Bytes have four values and
lengths two bytes; the limits of modexp are 2 and 3 and every header at, below and above them in each
place is tried, as are headers cut short; a pair has two bytes and pairings of nought to five pairs,
whole and not, are tried. `history_storage` looks back three blocks over a ring of four slots: the
look-back is shorter than the ring, as 256 is than 8191, and fifteen blocks take the ring round twice
after the latest of the activations (blocks 1, 2, 4 and 6). `instructions` has
words of three bits, memory words of two bytes, a stack of three, and every stack over the offsets and
lengths next to a memory word and one no `usize` holds; gas is enough for nothing, for a little or for
everything, and two instructions (`MaxSteps`) let one see what another has left. The proofs of these
three modules have no bounds.

Every run checks for deadlock: the number of transactions, blocks and instructions is bounded, but
a builder can always rebuild the EVM or give a block up, and another transaction can come to a frame.

Fairness. `FairSpec` assumes weak fairness of `HandlerStep` only: a transaction is run by one
synchronous call that nothing interrupts. Nothing is assumed of the builder, so no liveness is
claimed for sessions.

Every property has a mutant, a plausible slip in the code it is about, that TLC refutes under
the run's own configuration (`PROJECT.json`, "mutants"); the mutated forms stand just before the
definitions they replace.

## 4. Findings

All five are comments the code does not live up to; none is a claim that a deployed chain
misbehaves.

1. `l1block.rs:77` documents `calldata_gas` as the *blob* scalar times the base fee; it is the
   *commit* scalar.
2. `handler.rs:169` says that the nonce is already checked; for L1 messages nothing checks it.
3. `handler.rs:167` leaves the nonce of a creation to `make_create_frame`, which does not bump it
   when the value cannot be paid. Such a transaction is included, for an L1 message from Euclid
   on, and for a paying one when the rollup fee used up what its value needed.
4. `handler.rs:147` rejects senders with code, but the account is loaded without its code; the
   check then depends on whether the database inlines code in `basic()`.
5. `precompile/bn254.rs:12` says that a pairing of fewer than four pairs is padded to four; it is
   computed, and priced, as it is.

## 5. Proofs

`L1BlockInfoProofs`: the types of the fetched info and of the arithmetic; `FetchedInfoNeverPanics`,
what `try_fetch` returns for a fork has every field that the fork's formula unwraps; `CostRange`,
a fee that does not panic is at most `u64::MAX`.

`RollupFeeProofs`: for every oracle, payload and order of updates and forks the quote is the exact
fee capped at `u64::MAX` (`QuoteExact`), nothing panics (`FreshInfo`), and more data never costs less
(`Monotone`). The argument for exactness: a saturated intermediate result is at least `U256Max`,
which `RoomAssumption` places so far above the cap that what remains after the divisions still
exceeds it; sums and products of cut values are the cut sums and products (`AddOfCut`, `MulOfCut`).
The penalty formula divides in between, and is taken apart division by division.

`ScrollHandlerProofs` proves the inductive invariant `IndInv` (theorem `Invariance`) and from it
`TypeOK`, `FeeConservation`, `RollupFeeFollowsDatabase`, `PanicsOnlyOnMetadata`
and the action property `FailureLeavesNoTrace`, for all values of the
constants that satisfy the assumptions of `ScrollHandler`.

Why `IndInv` is needed. `FeeConservation` speaks of the last step only. It follows from what
each phase knows: `FeeInv` records what has been charged, given back and paid out when a phase
begins, in terms of the context; the context does not change while a transaction runs
(`ContextKept`, `ChainKept`); `GasInv` bounds remaining and refunded gas by the limit, so that
the gas used is a number and the price of the limit splits into what is given back and what is
paid out (`Distribute`); and the reward does not saturate (`RewardExact`). `ChainInv` ties the
info to the database between fetch and reward; `ModeInv` separates system calls and L1 messages
from the paying transactions.

`UndoInv` is what a failure needs. From the first frame on it says that undoing all entries gives a world
in `Remains`: the start, but for the nonce of an L1 message or an authorization. A step that appends
an entry keeps that if the entry undoes what the step did (`UndoBalance`, `UndoTransfer`, `UndoNonce`,
`UndoCode`, `UndoCreated`, `UndoStorage`, `UndoStep`). The rollup fee is no such step: between
`mainnet_deduct_caller` and the authorization list `UndoInv` knows state and entries exactly, and
`UndoAccounted` shows that mainnet's entries undo any fee, because the balance they hold is from
before both. An authorization that is not journaled may stand above them, also one of the caller
herself, whose nonce is then bumped twice and undone once (`UndoUnderDelegation`). What a fold
computes is taken from `FoldProofs`; `UndoneAppend` is its last step. TLC checks `IndInv` as an invariant of `handler_core`.

It also proves a second invariant, `RunInv`, inductive relative to `IndInv`, for what
happens after the fee is paid: `GasRunInv` follows the gas through `last_frame_result`, `refund` and
the floor, `NonceInv` the nonce from the sender's check to the result, `L1MoneyInv` the balances of an
L1 message through whatever code pays, `L1SenderInv` the code of its sender. From it follow `GasWithinBounds`,
`IncludedTxUsesNonce`, `L1MessageMovesOnlyItsValue`, `L1MessageIsIncluded` and, where the database
inlines code (`DbInlinesCode`), `L1SenderHasNoCode`; also for inspected runs.

`FoldProofs`: the community modules define a fold by choosing a function that satisfies an equation,
so that nothing is known of it until such a function exists. `FoldExists` shows that one does, over
any finite set, in any order and for any operator. `SumIter` applies it to `SumFunction`,
`SumsRemove` shows that the order does not matter, and `SumExcept` that changing one value changes
the sum by the difference. The inductions (`NatSetInduction`, `SubsetInduction`) take a *set* for the
predicate, because the provers cannot instantiate the operator that the library's theorems take.

`ScrollHandlerLedgerProofs`: `LedgerInv`, inductive relative to `IndInv`, is `SupplyConserved` and
`OnlyCallerPays` at every point of a transaction, not only at its end, and `OutputWaits` for the time
between `finalize` and `commit`. A step of the handler *runs on* (`RunsOn`) if it keeps the supply with
the fee in flight and *spares* the accounts (`Spares`): it takes from the caller and from accounts
with code only. Whoever has code when the first frame begins keeps it until the transaction ends, so
that what code may be made to spend only grows (`MaySpend`, `CodeHasItsSay`); what the caller owns,
has been charged and has at stake never shrinks (`CallerShare`, `StakeGrows`). There is one lemma per
kind of step, from `DebitSupply`, `CreditSupply` and `PaySupply` for the sums. At the result
`FeeConservation` of `IndInv` settles the fee in flight, and the run is what `Included` of the ledger
allows (`RunIncluded`), the subsidy of an L1 message within its limit (`ReimbursedWithinLimit`); an
error leaves a world of `Remains`, which is `start` but for one nonce (`RunRejected`); all else is
invisible or a step of the builder (`NextMaps`). That is the refinement, `Spec => ImplementsLedger`.
It covers the inspected runs, the replays and the system calls.

`ForkSessionProofs`: `IndInv` there says that an EVM's provider has the set of the fork it was last
made for (`ProviderInv`), that what is warm is its set or nothing unless it was replaced
(`WarmInv`), that a switch that is on was computed for the fork or an earlier one (`SwitchInv`), and that
the last call was answered by that set (`CallInv`). From it `TypeOK`,
`WarmFollowsSet`, `SwitchesNeverEarly`, `NameIsHonoured`, `CallsBound`, and the two properties of what a
call comes to. `SetByRule` computes each fork's set from the extensions it is built of and finds what the rules
say; `LengthsAgree` that the length the code folds from the padded header is the sum `LengthAt`, for
any base and any number of bytes (`LengthRead`, an induction over the bytes in which what has been
read so far, times the value of its last place, is the sum so far); `PairsCounted` that whole pairs are counted.
Together they are `StatusByRule`, hence `CallsFollowFork`; and as the rules only widen
(`RulesWiden`, `GasGrows`), `UpgradesOnlyWiden`.

`HistoryStorageProofs`: `Holds(ring, last)` says that the ring has the header of every block stored
within a window and nothing that was not stored in that slot. It is kept by a store because the slots
of two blocks closer than the window differ, and gives both properties of BLOCKHASH for any look-back
not longer than the ring.

`ScrollInstructionsProofs`: for any width of words, memory words and stack. `Leaves(f, g, cost)` says
that `g` has the shape of a frame and, unless it halted, has spent `cost` and the growth of memory; it
is proved macro by macro and then opcode by opcode (`InstructionLeaves`), and `GasIsExact` is its
sum over a program. `McopyOf` carries the bytes through `resize_memory` and `memory_copy`, which gives
the action property `CopyIsExact`. Type correctness includes that MCOPY never reads beyond memory.

Assumptions. `FeeWidthAssumption`: the gas limit times the maximal fee, plus `u64::MAX`, fits
256 bits; the factors are `u64` and `u128`. `TxAssumption`: an L1 message has no authorization list and
a set-code transaction is no creation (both by their types); the gas price of an L1 message is free. `SystemCallAssumption`: what
`new_system_tx_with_caller` builds. `RoomAssumption`: `U64Max * PRECISION^2`, and `U64Max * PRECISION`
times the size of a payload, fit 256 bits. `HistoryAssumption`: BLOCKHASH looks back no further than the
ring. `ScaleAssumption`, `FrameAssumption` and the rest are types and the order of limits.

`FiniteAddrAssumption`: there are finitely many accounts (addresses have 160
bits), so that what they hold has a sum. `CallsAssumption`: an input is a sequence of bytes.

Only model-checked: liveness (`CallsReturn`), which is out of the prover's reach with its fairness
and ENABLED. Every invariant and action property of the passing runs is a theorem, and so is the
refinement. What the definitions of a small instance compute (that the documented properties of
section 4 fail) is shown by TLC's counterexamples.

## 6. Plan

Done: rollup fee, handler, session and ledger; precompiles and the builder (`ForkSession`);
BLOCKHASH and its history; the other opcodes; inspected runs; the proofs above, the refinement of
the ledger among them.

Left: inspectors that write into the context; a theorem that a transaction that pays and succeeds has moved
its value and its fee and nothing else, of which `L1MessageMovesOnlyItsValue` is the case without fees.

## 7. Not modelled, and why

What a precompile computes of an accepted input is cryptography in other crates. Of the interpreter
only what the overridden opcodes touch is modelled. Accessors and trait plumbing (`evm.rs`,
`transaction.rs`, `EvmTr`, `InspectorEvmTr`) hand out parts of a state and change none; encodings,
serialisation, error texts and names other than those of forks take part in nothing that is stated
here. `test_utils.rs` and the tests are fixtures, `lib.rs` re-exports.
