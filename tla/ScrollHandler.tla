--------------------------- MODULE ScrollHandler ---------------------------
(***************************************************************************)
(* A Scroll EVM and the transactions it runs: the overridden steps of the  *)
(* handler (src/src/handler.rs), the session API around it                 *)
(* (src/src/exec.rs, src/src/system_call.rs) and the context they share.   *)
(*                                                                         *)
(* One action per handler method.  A step that reads the database may fail *)
(* at that point and leave through catch_error.  What revm contributes     *)
(* (mainnet validation, the interpreter, reimbursement, the journal) is    *)
(* modelled from how the source relies on it.  The journal keeps an entry  *)
(* for every change it is told of; the handler also changes accounts in    *)
(* place, without one.                                                     *)
(*                                                                         *)
(* load_accounts is a step only: the precompile provider is modelled in    *)
(* ForkSession.                                                            *)
(*                                                                         *)
(* Balances and nonces are unbounded: no supply reaches 2^256 wei, no      *)
(* account 2^64 transactions.                                              *)
(***************************************************************************)
EXTENDS L1BlockInfo, SequencesExt

CONSTANTS
  Addr,                        \* accounts
  NoAddr,                      \* no account: a transaction without authorization
  SYSTEM_ADDRESS,              \* the caller of system transactions
  L1_GAS_PRICE_ORACLE_ADDRESS, \* the predeploy whose storage prices L1 data
  Txs,                         \* the transactions that are submitted
  InspectedTxs,                \* those that are submitted with an inspector attached
  DefaultTx,                   \* the transaction of a new context
  SystemCalls,                 \* the transactions new_system_tx_with_caller builds
  Blocks,                      \* block environments
  Cfgs,                        \* configurations: fork and switches
  Worlds,                      \* initial contents of the database
  OracleStates,                \* what a call to the oracle may leave in its storage
  Payments,                    \* what running contracts may pay
  Creations,                   \* what running contracts may create
  CallGas,                     \* the least gas a change of state costs a contract
  GasLeft,                     \* bound on the gas a frame may leave unspent
  Refunds,                     \* bound on the refund counter of a frame
  DbMayFail,                   \* whether the database can return an error
  DbInlinesCode,               \* whether Database::basic returns the code of an account
  MaxRuns                      \* bound on the transactions of a behaviour

VARIABLES
  db,          \* the database: the committed world
  output,      \* a finalized world the caller has not committed yet, or NoWorld
  state,       \* the world as the journal sees it
  entries,     \* the journal's entries, from which discard_tx restores the world
  loaded,      \* accounts the journal has loaded
  coded,       \* of those, the ones loaded with their code
  chain,       \* context: L1BlockInfo
  tx,          \* context: transaction
  block,       \* context: block
  cfg,         \* context: configuration
  phase,       \* the handler method about to run
  mode,        \* how the transaction was started
  gas,         \* gas of the first frame, then of the transaction
  authRefund,  \* the refund of apply_eip7702_auth_list
  outcome,     \* how the first frame ended
  err,         \* why the transaction failed
  start,       \* history: the world when the transaction started
  fees,        \* history: balance movements the transaction's fee has caused
  runs         \* how many transactions were started, at most MaxRuns

journal == <<state, entries, loaded, coded>>
context == <<chain, tx, block, cfg>>
session == <<db, output, runs>>
vars == <<db, output, state, entries, loaded, coded, chain, tx, block, cfg, phase, mode, gas,
          authRefund, outcome, err, start, fees, runs>>

-----------------------------------------------------------------------------
\* A contract is an account that a creation made, whatever code it was left with.
Codes == {"none", "delegation", "contract"}

World == [balance : [Addr -> Nat], nonce : [Addr -> Nat], code : [Addr -> Codes],
          oracle : OracleStorage]

NoWorld == [balance |-> <<>>]

Tx == [l1msg : BOOLEAN, caller : Addr, to : Addr, create : BOOLEAN, value : Nat, nonce : Nat,
       gasLimit : Nat, initGas : Nat, floorGas : Nat, maxFee : Nat, tip : Nat \cup {None},
       auth : Addr \cup {NoAddr}, delegate : {"none", "delegation"}, authRefund : Nat,
       rlp : BOOLEAN, payload : Payload]

Block == [basefee : Nat, beneficiary : Addr]

Cfg == [spec : Specs, eip7702 : BOOLEAN, eip7623 : BOOLEAN, eip3607Disabled : BOOLEAN]

NoGas  == [limit |-> 0, remaining |-> 0, refunded |-> 0]
NoFees == [charged |-> 0, l1 |-> 0, reimbursed |-> 0, rewarded |-> 0]

Phases == {"idle", "validate", "fetch", "deduct", "rollupFee", "l1msg", "loadAccounts",
           "authList", "execution", "frame", "lastFrame", "refund", "floor", "reimburse",
           "reward", "result", "error", "panicked"}
Modes    == {"none", "run", "replay", "inspect", "system"}
Outcomes == {"none", "ok", "revert", "halt", "outOfFunds", "fatal"}
Errors   == {"none", "database", "env", "gas", "code", "nonce", "funds", "rlp"}

ASSUME AddrAssumption ==
  /\ SYSTEM_ADDRESS \in Addr
  /\ L1_GAS_PRICE_ORACLE_ADDRESS \in Addr
  /\ NoAddr \notin Addr

ASSUME ContextAssumption ==
  /\ Txs \subseteq Tx /\ DefaultTx \in Txs /\ SystemCalls \subseteq Tx
  /\ InspectedTxs \subseteq Txs
  /\ Blocks \subseteq Block
  /\ Cfgs \subseteq Cfg

\* Authorizations come with a transaction type of their own, which is neither that
\* of an L1 message (0x7E) nor that of a creation.  The gas price of an L1 message
\* is free: nothing in the handler asks for zero.
ASSUME TxAssumption ==
  \A t \in Txs \cup SystemCalls :
    /\ t.l1msg => t.auth = NoAddr
    /\ t.create => t.auth = NoAddr

ASSUME SystemCallAssumption ==
  \A t \in SystemCalls : /\ t.maxFee = 0 /\ t.tip = None /\ t.value = 0
                         /\ ~t.rlp /\ ~t.create /\ ~t.l1msg

ASSUME WorldAssumption ==
  /\ Worlds \subseteq World
  /\ OracleStates \subseteq OracleStorage
  /\ Payments \subseteq [from : Addr, to : Addr, amount : Nat]
  /\ Creations \subseteq [from : Addr, new : Addr]
  /\ GasLeft \subseteq Nat /\ 0 \in GasLeft /\ Refunds \subseteq Nat
  /\ CallGas \in Nat \ {0}
  /\ DbMayFail \in BOOLEAN /\ DbInlinesCode \in BOOLEAN
  /\ MaxRuns \in Nat

\* gas_limit * price fits U256, as do the fee and the reward built from it: the
\* factors are u64 and u128.
ASSUME FeeWidthAssumption ==
  \A t \in Txs \cup SystemCalls : t.gasLimit * t.maxFee + U64Max <= U256Max

-----------------------------------------------------------------------------
(***************************************************************************)
(* Helpers.                                                                *)
(***************************************************************************)
is_system_tx(t) == t.caller = SYSTEM_ADDRESS

\* The transactions that owe a rollup fee.
PaysRollupFee(t) == ~t.l1msg /\ ~is_system_tx(t)

effective_gas_price(t, b) ==
  IF t.tip = None THEN t.maxFee ELSE AtMost(b.basefee + t.tip, t.maxFee)

GasPrice == effective_gas_price(tx, block)

max_balance_spending(t) == t.gasLimit * t.maxFee + t.value

RollupCost       == calculate_tx_l1_cost(chain, tx.payload, cfg.spec)
RollupCostPanics == calculate_panics(chain, tx.payload, cfg.spec)

gas_spent == gas.limit - gas.remaining
gas_used  == gas_spent - gas.refunded

\* The source subtracts with saturation.  That it never saturates is what the
\* balances of TypeOK, which are naturals, say.
Debit(w, a, n)  == [w EXCEPT !.balance[a] = @ - n]
Credit(w, a, n) == [w EXCEPT !.balance[a] = @ + n]
Pay(w, from, to, n) == Credit(Debit(w, from, n), to, n)
BumpNonce(w, a) == [w EXCEPT !.nonce[a] = @ + 1]

\* The account a creation makes.
Created(w, a)  == [w EXCEPT !.code[a] = "contract", !.nonce[a] = 1]
Occupied(w, a) == w.code[a] # "none" \/ w.nonce[a] # 0

(***************************************************************************)
(* The journal's entries: what each change was, or what it replaced.       *)
(***************************************************************************)
BalanceEntry(w, a)         == [kind |-> "balance", addr |-> a, old |-> w.balance[a]]
TransferEntry(from, to, n) == [kind |-> "transfer", addr |-> from, to |-> to, amount |-> n]
NonceEntry(a)              == [kind |-> "nonce", addr |-> a]
CodeEntry(w, a)            == [kind |-> "code", addr |-> a, old |-> w.code[a]]
CreatedEntry(a)            == [kind |-> "created", addr |-> a]
StorageEntry(w)            == [kind |-> "storage", old |-> w.oracle]

Entry ==
  [kind : {"balance"}, addr : Addr, old : Nat]
    \cup [kind : {"transfer"}, addr : Addr, to : Addr, amount : Nat]
    \cup [kind : {"nonce", "created"}, addr : Addr]
    \cup [kind : {"code"}, addr : Addr, old : Codes]
    \cup [kind : {"storage"}, old : OracleStorage]

UndoEntry(e, w) ==
  CASE e.kind = "balance"  -> [w EXCEPT !.balance[e.addr] = e.old]
    [] e.kind = "transfer" -> Pay(w, e.to, e.addr, e.amount)
    [] e.kind = "nonce"    -> [w EXCEPT !.nonce[e.addr] = @ - 1]
    [] e.kind = "code"     -> [w EXCEPT !.code[e.addr] = e.old]
    [] e.kind = "created"  -> [w EXCEPT !.code[e.addr] = "none", !.nonce[e.addr] = 0]
    [] e.kind = "storage"  -> [w EXCEPT !.oracle = e.old]

\* What discard_tx makes of a world: the last entry is undone first.
Undone(es, w) == FoldRight(UndoEntry, es, w)

\* Mutant: the code the database delivered with the account is ignored.
CodeSeen_loaded_only(a) == IF a \in coded THEN state.code[a] ELSE "none"

\* The code of an account as load_account shows it: without load_code, the
\* code is there only if an earlier load or the database brought it.
CodeSeen(a) == IF DbInlinesCode \/ a \in coded THEN state.code[a] ELSE "none"

LoadAccount(a)     == loaded' = loaded \cup {a} /\ UNCHANGED coded
LoadAccountCode(a) == loaded' = loaded \cup {a} /\ coded' = coded \cup {a}

\* Mutant: the error is kept and the method runs again.
Fail_retrying(e) == phase' = phase /\ err' = e

Fail(e) == phase' = "error" /\ err' = e

\* What a step leaves alone.
KeepSession == UNCHANGED <<db, output, runs, block, cfg, tx, mode, start>>
KeepWorld   == UNCHANGED journal
KeepRun     == UNCHANGED <<gas, authRefund, outcome, fees>>

\* The handler returned: nothing of the run is kept but the journal.
ReturnToCaller ==
  /\ phase' = "idle" /\ mode' = "none" /\ gas' = NoGas /\ authRefund' = 0
  /\ outcome' = "none" /\ err' = "none" /\ fees' = NoFees

-----------------------------------------------------------------------------
(***************************************************************************)
(* The session API.                                                        *)
(***************************************************************************)
\* Mutant: the accounts stay loaded.
EmptyJournal_loaded(world) ==
  /\ state' = world /\ entries' = <<>> /\ start' = world
  /\ UNCHANGED <<loaded, coded>>

\* The journal holds nothing: it shows the given world.
EmptyJournal(world) == /\ state' = world /\ entries' = <<>> /\ start' = world
                       /\ loaded' = {} /\ coded' = {}

\* ScrollEvm::new over a database, with a fresh context.
Init ==
  /\ db \in Worlds /\ output = NoWorld /\ runs = 0
  /\ state = db /\ entries = <<>> /\ start = db /\ loaded = {} /\ coded = {}
  /\ chain = DefaultInfo /\ tx = DefaultTx /\ block \in Blocks /\ cfg \in Cfgs
  /\ phase = "idle" /\ mode = "none" /\ gas = NoGas /\ authRefund = 0
  /\ outcome = "none" /\ err = "none" /\ fees = NoFees

\* A new EVM over the same database: for the next block, or after a panic.
Rebuild ==
  /\ phase \in {"idle", "panicked"}
  /\ output' = NoWorld /\ EmptyJournal(db)
  /\ chain' = DefaultInfo /\ tx' = DefaultTx /\ block' \in Blocks /\ cfg' \in Cfgs
  /\ ReturnToCaller
  /\ UNCHANGED <<db, runs>>

\* A transaction starts only once the last finalized state was committed or dropped.
StartRun(t, m) ==
  /\ phase = "idle" /\ output = NoWorld
  /\ runs < MaxRuns /\ runs' = runs + 1
  /\ tx' = t /\ mode' = m
  /\ phase' = IF m = "system" THEN "execution" ELSE "validate"
  /\ UNCHANGED <<db, output, chain, block, cfg, start, err>> /\ KeepWorld /\ KeepRun

transact_one == \E t \in Txs : StartRun(t, "run")

\* Runs the transaction that is in the context.
replay == StartRun(tx, "replay")

\* The same handler, and an inspector that is asked about every frame.
inspect_one_tx == \E t \in InspectedTxs : StartRun(t, "inspect")

\* run_system_call: no validation and no pre-execution.
system_call_one_with_caller == \E t \in SystemCalls : StartRun(t, "system")

finalize ==
  /\ phase = "idle" /\ loaded # {}
  /\ output' = state
  /\ EmptyJournal(db)
  /\ UNCHANGED <<db, runs, chain, tx, block, cfg, phase, mode, err>> /\ KeepRun

\* The journal is empty here, so it shows what the database now holds.
commit ==
  /\ phase = "idle" /\ output # NoWorld
  /\ db' = output /\ output' = NoWorld
  /\ EmptyJournal(output)
  /\ UNCHANGED <<runs, chain, tx, block, cfg, phase, mode, err>> /\ KeepRun

\* The caller discards the finalized state (a simulated call).
DropOutput ==
  /\ phase = "idle" /\ output # NoWorld
  /\ output' = NoWorld
  /\ UNCHANGED <<db, runs, chain, tx, block, cfg, phase, mode, err, start>>
  /\ KeepWorld /\ KeepRun

\* set_block and modify_cfg: the context changes under a living EVM.
SetContext ==
  /\ phase = "idle"
  /\ \/ block' \in Blocks /\ UNCHANGED cfg
     \/ cfg' \in Cfgs /\ UNCHANGED block
  /\ UNCHANGED <<db, output, runs, chain, tx, phase, mode, err, start>>
  /\ KeepWorld /\ KeepRun

-----------------------------------------------------------------------------
(***************************************************************************)
(* Before execution.                                                       *)
(***************************************************************************)
\* validate: the environment (skipped for the type of L1 messages), then the
\* intrinsic gas and the calldata floor (for every transaction).
EnvInvalid ==
  /\ ~tx.l1msg
  /\ \/ tx.maxFee < block.basefee
     \/ tx.tip # None /\ tx.tip > tx.maxFee
     \/ tx.auth # NoAddr /\ ~cfg.eip7702

floor_gas == IF cfg.eip7623 THEN tx.floorGas ELSE 0

validate ==
  /\ phase = "validate"
  /\ \/ EnvInvalid /\ Fail("env")
     \/ ~EnvInvalid /\ (tx.gasLimit < tx.initGas \/ tx.gasLimit < floor_gas) /\ Fail("gas")
     \/ /\ ~EnvInvalid /\ tx.gasLimit >= tx.initGas /\ tx.gasLimit >= floor_gas
        /\ phase' = "fetch" /\ UNCHANGED err
  /\ UNCHANGED chain /\ KeepSession /\ KeepWorld /\ KeepRun

\* Mutants: the oracle read through the journal, and an info that is fetched once.
FetchedInfo_journaled == IF PaysRollupFee(tx) THEN try_fetch(state.oracle, cfg.spec) ELSE chain
FetchedInfo_once ==
  IF PaysRollupFee(tx) /\ chain = DefaultInfo THEN try_fetch(db.oracle, cfg.spec) ELSE chain

\* pre_execution, first step: the L1BlockInfo of this transaction, read from the
\* database and not through the journal.
FetchedInfo == IF PaysRollupFee(tx) THEN try_fetch(db.oracle, cfg.spec) ELSE chain

fetch_l1_block_info ==
  /\ phase = "fetch"
  /\ chain' = FetchedInfo
  /\ phase' = IF tx.l1msg THEN "l1msg" ELSE "deduct"
  /\ UNCHANGED err /\ KeepSession /\ KeepWorld /\ KeepRun

\* mainnet.validate_against_state_and_deduct_caller: sender checks, then the
\* execution fee for the whole gas limit, journaled.
MainnetVerdict ==
  IF ~cfg.eip3607Disabled /\ state.code[tx.caller] = "contract" THEN "code"
  ELSE IF tx.nonce # state.nonce[tx.caller] THEN "nonce"
  ELSE IF max_balance_spending(tx) > state.balance[tx.caller] THEN "funds"
  ELSE "none"

\* A caller that has paid the fee; the nonce of a creation is bumped in its frame.
Accounted(w, fee) ==
  LET paid == Debit(w, tx.caller, fee) IN IF tx.create THEN paid ELSE BumpNonce(paid, tx.caller)

\* Mutant: the balance is recorded once the fee has been taken.
AccountingEntries_late(es, w) ==
  LET paid == Append(es, BalanceEntry(Debit(w, tx.caller, tx.gasLimit * GasPrice), tx.caller))
  IN  IF tx.create THEN paid ELSE Append(paid, NonceEntry(tx.caller))

\* The entries mainnet makes for it: the balance the caller had, then the nonce.
AccountingEntries(es, w) ==
  LET paid == Append(es, BalanceEntry(w, tx.caller))
  IN  IF tx.create THEN paid ELSE Append(paid, NonceEntry(tx.caller))

mainnet_deduct_caller ==
  /\ phase = "deduct"
  /\ LoadAccountCode(tx.caller)
  /\ \/ /\ MainnetVerdict # "none" /\ Fail(MainnetVerdict)
        /\ UNCHANGED <<state, entries, fees>>
     \/ /\ MainnetVerdict = "none"
        /\ state' = Accounted(state, tx.gasLimit * GasPrice)
        /\ entries' = AccountingEntries(entries, state)
        /\ fees' = [fees EXCEPT !.charged = @ + tx.gasLimit * GasPrice]
        /\ phase' = "rollupFee" /\ UNCHANGED err
  /\ UNCHANGED <<chain, gas, authRefund, outcome>> /\ KeepSession

\* Mutant: the balance left by the execution fee is not looked at.
CanPayRollupFee_unchecked == TRUE

CanPayRollupFee == RollupCost <= state.balance[tx.caller]

\* The rollup fee of the caller, taken in place: the deduction has no journal entry
\* of its own.
deduct_rollup_fee ==
  /\ phase = "rollupFee"
  /\ \/ /\ ~PaysRollupFee(tx)
        /\ phase' = "loadAccounts" /\ UNCHANGED <<err, state, fees>>
     \/ /\ PaysRollupFee(tx) /\ ~tx.rlp
        /\ Fail("rlp") /\ UNCHANGED <<state, fees>>
     \/ /\ PaysRollupFee(tx) /\ tx.rlp /\ RollupCostPanics
        /\ phase' = "panicked" /\ UNCHANGED <<err, state, fees>>
     \/ /\ PaysRollupFee(tx) /\ tx.rlp /\ ~RollupCostPanics
        /\ ~CanPayRollupFee
        /\ Fail("funds") /\ UNCHANGED <<state, fees>>
     \/ /\ PaysRollupFee(tx) /\ tx.rlp /\ ~RollupCostPanics
        /\ CanPayRollupFee
        /\ state' = Debit(state, tx.caller, RollupCost)
        /\ fees' = [fees EXCEPT !.charged = @ + RollupCost, !.l1 = RollupCost]
        /\ phase' = "loadAccounts" /\ UNCHANGED err
  /\ UNCHANGED <<entries, loaded, coded, chain, gas, authRefund, outcome>>
  /\ KeepSession

\* Mutant: the check is never skipped.
skip_balance_check_never == FALSE

\* From Euclid on, an L1 message whose value cannot be paid fails in its frame.
skip_balance_check == is_enabled_in(cfg.spec, EUCLID)

\* The checks an L1 message gets instead of mainnet's.
L1MessageVerdict ==
  IF ~skip_balance_check /\ max_balance_spending(tx) > state.balance[tx.caller] THEN "funds"
  ELSE IF ~cfg.eip3607Disabled /\ CodeSeen(tx.caller) = "contract" THEN "code"
  ELSE "none"

\* Mutant: no bump.
L1Nonce_kept(w) == w

\* The nonce of an L1 message is assigned in place, without a journal entry, so
\* that discard_tx does not undo it.
L1Nonce(w) == IF tx.create THEN w ELSE BumpNonce(w, tx.caller)

validate_l1_msg ==
  /\ phase = "l1msg"
  /\ LoadAccount(tx.caller)
  /\ \/ /\ L1MessageVerdict # "none" /\ Fail(L1MessageVerdict)
        /\ UNCHANGED state
     \/ /\ L1MessageVerdict = "none"
        /\ state' = L1Nonce(state)
        /\ phase' = "loadAccounts" /\ UNCHANGED err
  /\ UNCHANGED <<entries, chain>> /\ KeepSession /\ KeepRun

\* load_accounts: the precompile set follows the configured fork.
load_accounts ==
  /\ phase = "loadAccounts"
  /\ phase' = "authList"
  /\ UNCHANGED <<chain, err>> /\ KeepSession /\ KeepWorld /\ KeepRun

\* A valid authorization makes its signer a delegated account, or ends a delegation,
\* and bumps the signer's nonce.
Delegated(w) == BumpNonce([w EXCEPT !.code[tx.auth] = tx.delegate], tx.auth)

\* apply_eip7702_auth_list: an invalid authorization is skipped.  The source does
\* not tell whether revm journals what a valid one changes.
apply_eip7702_auth_list ==
  /\ phase = "authList"
  /\ \/ /\ tx.auth = NoAddr
        /\ UNCHANGED <<journal, authRefund>>
     \/ /\ tx.auth # NoAddr
        /\ LoadAccountCode(tx.auth)
        /\ UNCHANGED <<state, entries, authRefund>>
     \/ /\ tx.auth # NoAddr /\ state.code[tx.auth] # "contract"
        /\ LoadAccountCode(tx.auth)
        /\ state' = Delegated(state)
        /\ \/ UNCHANGED entries
           \/ entries' = Append(Append(entries, CodeEntry(state, tx.auth)), NonceEntry(tx.auth))
        /\ authRefund' \in {0, tx.authRefund}
  /\ phase' = "execution"
  /\ UNCHANGED <<chain, gas, outcome, fees, err>> /\ KeepSession

-----------------------------------------------------------------------------
(***************************************************************************)
(* Execution of the first frame.                                           *)
(***************************************************************************)
frame_gas_limit == IF mode = "system" THEN tx.gasLimit ELSE tx.gasLimit - tx.initGas

CanPayValue == tx.value <= state.balance[tx.caller]

\* A call loads its target, with code; a creation loads the account it creates.
LoadTarget == LoadAccountCode(tx.to)

FrameEnds(result, remaining, refunded) ==
  /\ outcome' = result
  /\ gas' = [limit |-> frame_gas_limit, remaining |-> remaining, refunded |-> refunded]
  /\ phase' = "lastFrame"

\* Any way to end within the gas that is left.
FrameEndsIn(results, remaining) ==
  \E result \in results, left \in GasLeft \cap 0 .. remaining, r \in Refunds :
    FrameEnds(result, left, r)

\* Mutant: the accounts are swapped.
Transfer_swapped(w) == Pay(w, tx.to, tx.caller, tx.value)

Transfer(w) == Pay(w, tx.caller, tx.to, tx.value)

\* make_create_frame bumps the creator's nonce once it knows the value can be paid.
EnterFrame(w)    == IF tx.create THEN BumpNonce(w, tx.caller) ELSE w
EnterEntries(es) == IF tx.create THEN Append(es, NonceEntry(tx.caller)) ELSE es

\* Then the value moves, and a creation makes its account.
BeginFrame(w) == IF tx.create THEN Created(Transfer(w), tx.to) ELSE Transfer(w)
BeginEntries(es) ==
  LET moved == Append(es, TransferEntry(tx.caller, tx.to, tx.value))
  IN  IF tx.create THEN Append(moved, CreatedEntry(tx.to)) ELSE moved

Collides == tx.create /\ Occupied(EnterFrame(state), tx.to)

\* An inspector may rewrite how a frame ended.
Ends(results) == IF mode = "inspect" THEN {"ok", "revert", "halt"} ELSE results

\* The first frame: it does not start, runs, or ends with its changes reverted.
execution ==
  /\ phase = "execution"
  /\ \/ /\ ~CanPayValue
        /\ FrameEnds("outOfFunds", frame_gas_limit, 0)
        /\ IF tx.create THEN UNCHANGED <<loaded, coded>> ELSE LoadTarget
        /\ UNCHANGED <<state, entries>>
     \/ /\ CanPayValue /\ ~Collides
        /\ phase' = "frame" /\ UNCHANGED outcome
        /\ gas' = [limit |-> frame_gas_limit, remaining |-> frame_gas_limit, refunded |-> 0]
        /\ LoadTarget
        /\ state' = BeginFrame(EnterFrame(state))
        /\ entries' = BeginEntries(EnterEntries(entries))
     \/ /\ CanPayValue
        /\ \/ FrameEndsIn(Ends(IF Collides THEN {"halt"} ELSE {"revert", "halt"}), frame_gas_limit)
           \/ DbMayFail /\ FrameEnds("fatal", 0, 0)
        /\ LoadTarget
        /\ state' = EnterFrame(state) /\ entries' = EnterEntries(entries)
     \/ \* An inspector answers for the frame, with gas the frame was given.
        /\ mode = "inspect"
        /\ FrameEndsIn({"ok", "revert", "halt"}, frame_gas_limit)
        /\ UNCHANGED journal
  /\ UNCHANGED <<chain, authRefund, fees, err>> /\ KeepSession

HasCode(a) == state.code[a] # "none"

\* One change of state by the code that runs: a journaled one, and not for free.
Operation(w, es, accounts) ==
  /\ phase = "frame" /\ HasCode(tx.to)
  /\ gas.remaining >= CallGas
  /\ gas' = [gas EXCEPT !.remaining = @ - CallGas]
  /\ state' = w /\ entries' = es
  /\ loaded' = loaded \cup accounts /\ coded' = coded \cup accounts
  /\ UNCHANGED <<chain, phase, authRefund, outcome, fees, err>> /\ KeepSession

\* The code may call any other, and every account with code may spend what it has.
contract_pays ==
  \E p \in Payments :
    /\ HasCode(p.from) /\ p.amount <= state.balance[p.from]
    /\ Operation(Pay(state, p.from, p.to, p.amount),
                 Append(entries, TransferEntry(p.from, p.to, p.amount)), {p.from, p.to})

contract_creates ==
  \E c \in Creations :
    /\ HasCode(c.from) /\ ~Occupied(state, c.new)
    /\ Operation(Created(BumpNonce(state, c.from), c.new),
                 Append(Append(entries, NonceEntry(c.from)), CreatedEntry(c.new)),
                 {c.from, c.new})

oracle_is_updated ==
  \E o \in OracleStates :
    /\ HasCode(L1_GAS_PRICE_ORACLE_ADDRESS)
    /\ Operation([state EXCEPT !.oracle = o], Append(entries, StorageEntry(state)),
                 {L1_GAS_PRICE_ORACLE_ADDRESS})

\* The frame succeeds, with what it has done.
frame_returns ==
  /\ phase = "frame"
  /\ FrameEndsIn(Ends({"ok"}), gas.remaining)
  /\ UNCHANGED <<chain, authRefund, fees, err>> /\ KeepSession /\ KeepWorld

\* Mutant: a halt gives gas back.
is_ok_or_revert_or_halt == outcome # "fatal"

\* last_frame_result: gas is given back unless the frame halted, and refunds are
\* kept only for a transaction that succeeded and is not an L1 message.
is_ok_or_revert == outcome \in {"ok", "revert", "outOfFunds"}

last_frame_result ==
  /\ phase = "lastFrame"
  /\ gas' = [limit     |-> tx.gasLimit,
             remaining |-> IF is_ok_or_revert THEN gas.remaining ELSE 0,
             refunded  |-> IF ~tx.l1msg /\ outcome = "ok" THEN gas.refunded ELSE 0]
  /\ phase' = IF mode = "system" THEN "result" ELSE "refund"
  /\ UNCHANGED <<chain, authRefund, outcome, fees, err>> /\ KeepSession /\ KeepWorld

-----------------------------------------------------------------------------
(***************************************************************************)
(* After execution.                                                        *)
(***************************************************************************)
MAX_REFUND_QUOTIENT == 5

refund ==
  /\ phase = "refund"
  /\ gas' = IF tx.l1msg THEN gas
            ELSE [gas EXCEPT !.refunded = AtMost(@ + authRefund,
                                                 gas_spent \div MAX_REFUND_QUOTIENT)]
  /\ phase' = "floor"
  /\ UNCHANGED <<chain, authRefund, outcome, fees, err>> /\ KeepSession /\ KeepWorld

eip7623_check_gas_floor ==
  /\ phase = "floor"
  /\ gas' = IF ~tx.l1msg /\ gas_used < floor_gas
            THEN [gas EXCEPT !.remaining = gas.limit - floor_gas, !.refunded = 0] ELSE gas
  /\ phase' = "reimburse"
  /\ UNCHANGED <<chain, authRefund, outcome, fees, err>> /\ KeepSession /\ KeepWorld

\* reimburse_caller, not overridden: it runs for L1 messages too.
reimburse_caller ==
  /\ phase = "reimburse"
  /\ LET back == GasPrice * (gas.remaining + gas.refunded)
     IN  /\ state' = Credit(state, tx.caller, back)
         /\ entries' = Append(entries, BalanceEntry(state, tx.caller))
         /\ fees' = [fees EXCEPT !.reimbursed = @ + back]
  /\ phase' = "reward"
  /\ UNCHANGED <<loaded, coded, chain, gas, authRefund, outcome, err>>
  /\ KeepSession

\* Mutant: the beneficiary is paid for the refunded gas too.
Reward_of_gas_spent == saturating_add(saturating_mul(GasPrice, gas_spent),
                                      IF is_system_tx(tx) THEN 0 ELSE RollupCost)

\* reward_beneficiary: the execution fee of the gas used and the rollup fee, the
\* latter computed again from the context.
Reward == saturating_add(saturating_mul(GasPrice, gas_used),
                         IF is_system_tx(tx) THEN 0 ELSE RollupCost)

\* Mutant: the beneficiary is paid for every transaction.
skip_reward_never == FALSE

\* An L1 message has been paid for on L1.
skip_reward == tx.l1msg

reward_beneficiary ==
  /\ phase = "reward"
  /\ \/ /\ skip_reward
        /\ phase' = "result" /\ UNCHANGED <<journal, fees, err>>
     \/ /\ ~skip_reward
        /\ CASE PaysRollupFee(tx) /\ ~tx.rlp ->
                  Fail("rlp") /\ UNCHANGED <<journal, fees>>
             [] PaysRollupFee(tx) /\ tx.rlp /\ RollupCostPanics ->
                  phase' = "panicked" /\ UNCHANGED <<journal, fees, err>>
             [] OTHER ->
                  /\ LoadAccount(block.beneficiary)
                  /\ state' = Credit(state, block.beneficiary, Reward)
                  /\ entries' = Append(entries, BalanceEntry(state, block.beneficiary))
                  /\ fees' = [fees EXCEPT !.rewarded = @ + Reward]
                  /\ phase' = "result" /\ UNCHANGED err
  /\ UNCHANGED <<chain, gas, authRefund, outcome>> /\ KeepSession

\* execution_result: an error the database raised inside a frame surfaces here;
\* otherwise the journal's entries are final.  replay also finalizes.
execution_result ==
  /\ phase = "result"
  /\ \/ /\ outcome = "fatal" /\ Fail("database")
        /\ UNCHANGED <<output, start, mode, tx>> /\ KeepWorld /\ KeepRun
     \/ /\ outcome # "fatal" /\ mode # "replay"
        /\ entries' = <<>> /\ start' = state /\ ReturnToCaller
        /\ UNCHANGED <<output, state, loaded, coded, tx>>
     \/ /\ outcome # "fatal" /\ mode = "replay"
        /\ output' = state /\ EmptyJournal(db) /\ ReturnToCaller
        /\ UNCHANGED tx
  /\ UNCHANGED <<db, runs, block, cfg, chain>>

-----------------------------------------------------------------------------
\* A read that has to go to the database fails.
NeedsCode(a) == a \notin (IF DbInlinesCode THEN loaded ELSE coded)

ReadsDatabase ==
  \/ phase = "fetch"     /\ PaysRollupFee(tx)
  \/ phase = "deduct"    /\ NeedsCode(tx.caller)
  \/ phase = "l1msg"     /\ tx.caller \notin loaded
  \/ phase = "authList"  /\ tx.auth # NoAddr /\ NeedsCode(tx.auth)
  \/ phase = "execution" /\ NeedsCode(tx.to) /\ (tx.create => CanPayValue)
  \/ phase = "reward"    /\ ~tx.l1msg /\ block.beneficiary \notin loaded

DatabaseError ==
  /\ DbMayFail /\ ReadsDatabase
  /\ Fail("database")
  /\ UNCHANGED chain /\ KeepSession /\ KeepWorld /\ KeepRun

\* catch_error: discard_tx undoes the entries, and the error is returned.  The
\* context is not reset.
catch_error ==
  /\ phase = "error"
  /\ state' = Undone(entries, state) /\ start' = Undone(entries, state) /\ entries' = <<>>
  /\ ReturnToCaller
  /\ UNCHANGED <<db, output, runs, loaded, coded, chain, tx, block, cfg>>

-----------------------------------------------------------------------------
HandlerStep ==
  \/ validate \/ fetch_l1_block_info \/ mainnet_deduct_caller \/ deduct_rollup_fee
  \/ validate_l1_msg \/ load_accounts \/ apply_eip7702_auth_list \/ execution
  \/ contract_pays \/ contract_creates \/ oracle_is_updated \/ frame_returns \/ last_frame_result
  \/ refund \/ eip7623_check_gas_floor \/ reimburse_caller \/ reward_beneficiary
  \/ execution_result \/ DatabaseError \/ catch_error

SessionStep ==
  \/ transact_one \/ replay \/ inspect_one_tx \/ system_call_one_with_caller
  \/ finalize \/ commit \/ DropOutput \/ SetContext \/ Rebuild

Next == HandlerStep \/ SessionStep

Spec == Init /\ [][Next]_vars

\* A transaction is run to completion by one synchronous call.
FairSpec == Spec /\ WF_vars(HandlerStep)

-----------------------------------------------------------------------------
(***************************************************************************)
(* Properties.                                                             *)
(***************************************************************************)
\* The shape of the state.
TypeOK ==
  /\ db \in World /\ state \in World /\ start \in World /\ entries \in Seq(Entry)
  /\ output \in World \cup {NoWorld}
  /\ loaded \subseteq Addr /\ coded \subseteq loaded
  /\ chain \in Info /\ tx \in Txs \cup SystemCalls /\ block \in Blocks /\ cfg \in Cfgs
  /\ phase \in Phases /\ mode \in Modes /\ outcome \in Outcomes /\ err \in Errors
  /\ gas \in [limit : Nat, remaining : Nat, refunded : Nat]
  /\ authRefund \in Nat
  /\ fees \in [charged : Nat, l1 : Nat, reimbursed : Nat, rewarded : Nat]
  /\ runs \in 0 .. MaxRuns

\* Every wei a transaction is charged before execution is either given back to
\* its caller or paid to the beneficiary, whatever the frame did with the gas:
\* the fee that reward_beneficiary computes again is the one that was deducted.
\* An L1 message is charged nothing and rewards nobody, but reimburse_caller is
\* not overridden for it: with a gas price it is given the price of the gas it
\* left, although nobody paid for it.
FeeConservation ==
  phase = "result" =>
    IF tx.l1msg
    THEN /\ fees.charged = 0 /\ fees.rewarded = 0
         /\ fees.reimbursed = GasPrice * gas.remaining
    ELSE fees.charged = fees.reimbursed + fees.rewarded

AfterFrame == phase \in {"lastFrame", "refund", "floor", "reimburse", "reward", "result"}

AfterRollupFee == phase \in {"loadAccounts", "authList", "execution", "frame"} \/ AfterFrame

\* The rollup fee follows the oracle as the database holds it, under the fork in
\* force: neither an info left over from an earlier transaction, nor an oracle
\* update that is still in the journal, has a say (pre_execution, try_fetch).
RollupFeeFollowsDatabase ==
  AfterRollupFee /\ mode # "system" =>
    fees.l1 = IF PaysRollupFee(tx)
              THEN calculate_tx_l1_cost(try_fetch(db.oracle, cfg.spec), tx.payload, cfg.spec)
              ELSE 0

Reimbursed(w) == Credit(w, tx.caller, fees.reimbursed)

\* The transaction moved its value, exactly if it succeeded, unless an inspector
\* said otherwise; its caller was given what it was reimbursed.
MovedItsValue ==
  /\ state.balance \in {Reimbursed(start).balance, Reimbursed(Transfer(start)).balance}
  /\ mode # "inspect" =>
       state.balance = Reimbursed(IF outcome = "ok" THEN Transfer(start) ELSE start).balance

\* A caller without code lost the value at most.
CallerKeepsTheRest ==
  ~HasCode(tx.caller) =>
    state.balance[tx.caller] + tx.value >= start.balance[tx.caller] + fees.reimbursed

\* An L1 message to an account without code moves its value and no other money but
\* what reimburse_caller makes for it.  Where code runs, the code may pay as well,
\* but a sender without code loses no more than the value: no fee, and no gas.
L1MessageMovesOnlyItsValue ==
  phase = "result" /\ tx.l1msg => CallerKeepsTheRest /\ (HasCode(tx.to) \/ MovedItsValue)

\* From Euclid on, an L1 message is included whatever its sender can pay and
\* whatever its nonce: it fails only for its gas limit, for a sender with code,
\* or because the database fails (the comment at src/src/handler.rs:131).
L1MessageIsIncluded ==
  phase = "error" /\ tx.l1msg /\ is_enabled_in(cfg.spec, EUCLID)
    => err \in {"gas", "code", "database"}

\* What refunds and floor may do to the gas of a transaction: refunds stay within
\* a fifth of what was spent, so that four fifths of the intrinsic gas are paid
\* for; an L1 message has no refunds; a frame that halted returned none of its
\* gas, apart from the refund of the authorization list.
GasBounds ==
  /\ gas.remaining + gas.refunded <= gas.limit
  /\ gas.refunded * MAX_REFUND_QUOTIENT <= gas_spent
  /\ 5 * gas_used >= 4 * tx.initGas
  /\ tx.l1msg => gas.refunded = 0 /\ gas_spent >= tx.initGas
  /\ outcome = "halt" => gas_used + (IF tx.l1msg THEN 0 ELSE authRefund) >= gas.limit

\* The gas a transaction pays for: within these bounds, and at least the calldata
\* floor unless it is an L1 message (refund, eip7623_check_gas_floor).
GasWithinBounds ==
  phase = "result" /\ mode # "system" => GasBounds /\ (tx.l1msg \/ gas_used >= floor_gas)

\* A transaction that is included has used up its nonce, except a creation whose
\* value could no longer be paid after the rollup fee, or one that the inspector
\* answered for.
IncludedTxUsesNonce ==
  /\ phase = "result" /\ mode # "system"
  /\ ~(tx.create /\ (outcome = "outOfFunds" \/ mode = "inspect"))
  => state.nonce[tx.caller] > start.nonce[tx.caller]

\* Pricing panics only on the metadata of the transaction: the unwraps of the
\* L1BlockInfo never fail inside the handler, whatever the EVM ran before.
PanicsOnlyOnMetadata ==
  phase = "panicked" => metadata_panics(tx.payload, cfg.spec)

\* EIP-3607 for L1 messages (the comment at src/src/handler.rs:147): a sender
\* with deployed code is rejected.
L1SenderHasNoCode ==
  phase = "execution" /\ mode # "system" /\ tx.l1msg /\ ~cfg.eip3607Disabled
    => state.code[tx.caller] # "contract"

\* What a failed transaction may leave behind: the start of the run, the nonce of
\* an L1 message, which is bumped in place (handler.rs:170), or an authorization, if
\* revm does not journal it.
Remains ==
  {start} \cup (IF tx.l1msg /\ ~tx.create THEN {BumpNonce(start, tx.caller)} ELSE {})
          \cup (IF tx.auth # NoAddr THEN {Delegated(start)} ELSE {})

\* A transaction that fails leaves no other trace in the session, at whatever step
\* it failed: the entries of the journal undo every change, also the rollup fee
\* that was taken in place (handler.rs:121), and whatever contracts have paid.
FailureLeavesNoTrace == [][phase = "error" => state' \in Remains]_vars

\* A call into the EVM returns, with a result, an error or a panic.
CallsReturn == phase # "idle" ~> phase \in {"idle", "panicked"}

-----------------------------------------------------------------------------
(***************************************************************************)
(* What comments of the source say and the code does not do.               *)
(***************************************************************************)
\* src/src/handler.rs:169, "Nonce is already checked": when the nonce of an L1
\* message is bumped it is the nonce of its sender.
L1NonceIsChecked ==
  phase = "loadAccounts" /\ tx.l1msg => tx.nonce = start.nonce[tx.caller]

\* src/src/handler.rs:167, "Nonce for CREATE will be bumped in
\* make_create_frame": a creation that is included has used up its nonce.
CreateBumpsNonce ==
  phase = "result" /\ mode # "system" /\ tx.create
    => state.nonce[tx.caller] > start.nonce[tx.caller]

-----------------------------------------------------------------------------
(***************************************************************************)
(* The inductive invariant: what each phase of a run may rely on.          *)
(***************************************************************************)
\* A system call has its own short path; an L1 message and a transaction that
\* pays take different ways through pre_execution.
ModeInv ==
  /\ phase = "idle" <=> mode = "none"
  /\ mode = "system" => /\ tx \in SystemCalls
                         /\ phase \in {"execution", "frame", "lastFrame", "result", "error"}
  /\ phase \in {"deduct", "rollupFee"} => ~tx.l1msg
  /\ phase = "l1msg" => tx.l1msg

AfterValidation == AfterRollupFee \/ phase \in {"fetch", "deduct", "rollupFee", "l1msg"}

\* The gas limit covers the intrinsic gas and the floor once validate has passed;
\* what is left and refunded never exceeds it.
GasInv ==
  /\ AfterValidation /\ mode # "system" => tx.initGas <= tx.gasLimit /\ floor_gas <= tx.gasLimit
  /\ phase \in {"frame", "lastFrame"} => gas.remaining <= frame_gas_limit
  /\ phase \in {"refund", "floor", "reimburse", "reward", "result"}
       => gas.limit = tx.gasLimit /\ gas.remaining <= gas.limit
  /\ phase \in {"refund", "floor", "reimburse", "reward", "result"} /\ tx.l1msg
       => gas.refunded = 0
  /\ phase \in {"floor", "reimburse", "reward", "result"} /\ mode # "system"
       => gas.remaining + gas.refunded <= gas.limit

ExecutionFee == IF mode = "system" \/ tx.l1msg THEN 0 ELSE tx.gasLimit * GasPrice
RollupFee    == IF mode # "system" /\ PaysRollupFee(tx) THEN RollupCost ELSE 0

\* What has been charged, given back and paid out when a phase begins.
FeeInv ==
  /\ AfterRollupFee /\ mode # "system" /\ PaysRollupFee(tx) => tx.rlp /\ ~RollupCostPanics
  /\ phase \in {"idle", "validate", "fetch", "deduct", "l1msg"} => fees = NoFees
  /\ phase = "rollupFee" => fees = [NoFees EXCEPT !.charged = ExecutionFee]
  /\ AfterRollupFee => fees.charged = ExecutionFee + RollupFee /\ fees.l1 = RollupFee
  /\ AfterRollupFee /\ phase \notin {"reward", "result"} => fees.reimbursed = 0 /\ fees.rewarded = 0
  /\ phase = "reward" => fees.reimbursed = GasPrice * (gas.remaining + gas.refunded)
                         /\ fees.rewarded = 0
  /\ FeeConservation

\* The info a paying transaction is priced with is the one of this run.
ChainInv ==
  /\ (AfterRollupFee \/ phase \in {"deduct", "rollupFee"}) /\ mode # "system" /\ PaysRollupFee(tx)
       => chain = try_fetch(db.oracle, cfg.spec)
  /\ PanicsOnlyOnMetadata

\* What the journal's entries undo.  Until the first change there are none; the
\* rollup fee and the nonce of an L1 message are changed in place, so the entries
\* made before are known exactly there.
UndoInv ==
  /\ phase \in {"idle", "validate", "fetch", "deduct", "l1msg"} => state = start /\ entries = <<>>
  /\ phase = "rollupFee" => /\ state = Accounted(start, ExecutionFee)
                            /\ entries = AccountingEntries(<<>>, start)
  /\ phase \in {"loadAccounts", "authList"} =>
       IF tx.l1msg THEN state = L1Nonce(start) /\ entries = <<>>
       ELSE /\ state = Accounted(start, ExecutionFee + RollupFee)
            /\ entries = AccountingEntries(<<>>, start)
  /\ Undone(entries, state) \in Remains

IndInv == TypeOK /\ ModeInv /\ GasInv /\ FeeInv /\ ChainInv /\ UndoInv

-----------------------------------------------------------------------------
(***************************************************************************)
(* A second one on top of it: what a run has done to gas, nonces and the   *)
(* money of an L1 message so far.                                          *)
(***************************************************************************)
\* The bounds hold from refund on, the floor from eip7623_check_gas_floor on.
GasRunInv ==
  /\ phase = "refund" => /\ gas.remaining + tx.initGas <= gas.limit
                         /\ outcome = "halt" => gas.remaining = 0 /\ gas.refunded = 0
  /\ phase \in {"floor", "reimburse", "reward", "result"} /\ mode # "system" => GasBounds
  /\ phase \in {"reimburse", "reward", "result"} /\ mode # "system"
       => tx.l1msg \/ gas_used >= floor_gas

\* The nonce is used up before the first frame, that of a creation in it.
NonceInv ==
  /\ phase \in {"rollupFee", "loadAccounts", "authList", "execution"} /\ mode # "system"
       => state.nonce[tx.caller] >= start.nonce[tx.caller] + (IF tx.create THEN 0 ELSE 1)
  /\ phase = "frame" /\ mode # "system" => state.nonce[tx.caller] > start.nonce[tx.caller]
  /\ AfterFrame /\ mode # "system" /\ ~(tx.create /\ (outcome = "outOfFunds" \/ mode = "inspect"))
       => state.nonce[tx.caller] > start.nonce[tx.caller]

\* An L1 message moves no money before its frame, its value when that begins, and
\* from then on only code and the reimbursement move more.
L1MoneyInv ==
  tx.l1msg =>
    /\ phase \in {"loadAccounts", "authList", "execution"} => state.balance = start.balance
    /\ phase = "frame" /\ ~HasCode(tx.to) => state.balance = Transfer(start).balance
    /\ phase = "frame" \/ AfterFrame => CallerKeepsTheRest
    /\ AfterFrame => HasCode(tx.to) \/ MovedItsValue

\* Where the database delivers code with the account, the sender's was seen.
L1SenderInv ==
  DbInlinesCode /\ phase \in {"loadAccounts", "authList", "execution"} /\ mode # "system"
    /\ tx.l1msg /\ ~cfg.eip3607Disabled => state.code[tx.caller] # "contract"

RunInv == GasRunInv /\ NonceInv /\ L1MoneyInv /\ L1SenderInv /\ L1MessageIsIncluded
=============================================================================
