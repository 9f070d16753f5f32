---------------------- MODULE ScrollHandlerLedgerProofs ----------------------
(***************************************************************************)
(* ScrollHandler implements RollupLedger, for every finite set of accounts *)
(* and all transactions, configurations and oracle states.  What the       *)
(* detailed specification must give for it is LedgerInv: the sum of the    *)
(* balances, who may have lost money, and the nonces.                      *)
(***************************************************************************)
EXTENDS ScrollHandlerLedger, ScrollHandlerProofs

Supply(world) == Ledger!TotalSupply(world)

-----------------------------------------------------------------------------
(***************************************************************************)
(* The sum of the balances.                                                *)
(***************************************************************************)
\* The supply is a number, and a matter of the balances only.
LEMMA SupplyType ==
  ASSUME NEW w \in World
  PROVE  Supply(w) \in Int /\ Supply(w) = SumFunction(w.balance)
<1>1. w.balance \in [Addr -> Int]
  BY DEF World
<1>2. Supply(w) = SumFunction(w.balance)
  BY DEF Supply, Ledger!TotalSupply, Ledger!SumFunction, Ledger!SumFunctionOnSet,
         Ledger!FoldFunctionOnSet, Ledger!MapThenFoldSet, SumFunction, SumFunctionOnSet,
         FoldFunctionOnSet, MapThenFoldSet
<1>3. SumFunction(w.balance) \in Int
  BY <1>1, FiniteAddrAssumption, SumInt
<1> QED
  BY <1>2, <1>3

\* What is taken from an account leaves the supply.
LEMMA DebitSupply ==
  ASSUME NEW w \in World, NEW a \in Addr, NEW n \in Nat, n <= w.balance[a]
  PROVE  Supply(Debit(w, a, n)) = Supply(w) - n
<1>1. w.balance \in [Addr -> Int] /\ w.balance[a] \in Int
  BY DEF World
<1>2. Debit(w, a, n).balance = [w.balance EXCEPT ![a] = w.balance[a] - n]
  BY DEF Debit, World
<1>3. SumFunction([w.balance EXCEPT ![a] = w.balance[a] - n])
        = SumFunction(w.balance) - w.balance[a] + (w.balance[a] - n)
  BY <1>1, FiniteAddrAssumption, SumExcept
<1>4. Debit(w, a, n) \in World
  BY DebitType
<1> QED
  BY <1>1, <1>2, <1>3, <1>4, SupplyType

\* What is given to an account joins it.
LEMMA CreditSupply ==
  ASSUME NEW w \in World, NEW a \in Addr, NEW n \in Nat
  PROVE  Supply(Credit(w, a, n)) = Supply(w) + n
<1>1. w.balance \in [Addr -> Int] /\ w.balance[a] \in Int
  BY DEF World
<1>2. Credit(w, a, n).balance = [w.balance EXCEPT ![a] = w.balance[a] + n]
  BY DEF Credit, World
<1>3. SumFunction([w.balance EXCEPT ![a] = w.balance[a] + n])
        = SumFunction(w.balance) - w.balance[a] + (w.balance[a] + n)
  BY <1>1, FiniteAddrAssumption, SumExcept
<1>4. Credit(w, a, n) \in World
  BY CreditType
<1> QED
  BY <1>1, <1>2, <1>3, <1>4, SupplyType

\* A payment moves money and makes none.
LEMMA PaySupply ==
  ASSUME NEW w \in World, NEW a \in Addr, NEW b \in Addr, NEW n \in Nat, n <= w.balance[a]
  PROVE  Supply(Pay(w, a, b, n)) = Supply(w)
<1> DEFINE d == Debit(w, a, n)
<1>1. d \in World /\ Supply(d) = Supply(w) - n
  BY DebitType, DebitSupply
<1>2. Pay(w, a, b, n) = Credit(d, b, n)
  BY DEF Pay
<1> HIDE DEF d
<1> QED
  BY <1>1, <1>2, CreditSupply, SupplyType

\* Where the balances stand, so does the supply.
LEMMA SupplySame ==
  ASSUME NEW w \in World, NEW v \in World, v.balance = w.balance
  PROVE  Supply(v) = Supply(w)
  BY SupplyType

-----------------------------------------------------------------------------
(***************************************************************************)
(* What a step of the handler does to the ledger while the run goes on.    *)
(***************************************************************************)
\* What the caller owns or may have back, and the value while it may be moving.
CallerShare == state.balance[tx.caller] + fees.charged + ValueAtStake - fees.reimbursed

\* The step gives no nonce back, leaves code its say, and takes money from the
\* caller and from accounts with code only.
Spares ==
  /\ \A a \in Addr : state'.nonce[a] >= state.nonce[a]
  /\ \A a \in Addr : MaySpend(a) => MaySpend(a)'
  /\ \A a \in Addr \ {tx.caller} : MaySpend(a)' \/ state'.balance[a] >= state.balance[a]
  /\ MaySpend(tx.caller)' \/ CallerShare' >= CallerShare

\* The fee that was charged and is neither given back nor paid out.
InFlight == fees.charged - fees.reimbursed - fees.rewarded

\* It moves money between the balances and the fee in flight.
RunsOn ==
  /\ UNCHANGED <<db, output, start, tx>> /\ Spares
  /\ Supply(state') + InFlight' = Supply(state) + InFlight

\* The state before and after a step, part by part.
LEMMA StepTypes ==
  ASSUME TypeOK, TypeOK', UNCHANGED tx
  PROVE  /\ state \in World /\ state' \in World /\ tx.caller \in Addr /\ tx.value \in Nat
         /\ \A a \in Addr : /\ state.balance[a] \in Nat /\ state'.balance[a] \in Nat
                            /\ state.nonce[a] \in Nat /\ state'.nonce[a] \in Nat
         /\ fees.charged \in Nat /\ fees.reimbursed \in Nat /\ fees.rewarded \in Nat
         /\ fees'.charged \in Nat /\ fees'.reimbursed \in Nat /\ fees'.rewarded \in Nat
         /\ Supply(state) \in Int /\ Supply(state') \in Int
         /\ ValueAtStake \in Nat /\ ValueAtStake' \in Nat
<1>1. state \in World /\ state' \in World /\ tx.caller \in Addr /\ tx.value \in Nat
  BY TxType DEF TypeOK
<1>2. /\ fees \in [charged : Nat, l1 : Nat, reimbursed : Nat, rewarded : Nat]
      /\ fees' \in [charged : Nat, l1 : Nat, reimbursed : Nat, rewarded : Nat]
  BY DEF TypeOK
<1>3. Supply(state) \in Int /\ Supply(state') \in Int
  BY <1>1, SupplyType
<1>4. ValueAtStake \in Nat /\ ValueAtStake' \in Nat
  BY <1>1 DEF ValueAtStake
<1>5. \A w \in World : \A a \in Addr : w.balance[a] \in Nat /\ w.nonce[a] \in Nat
  BY DEF World
<1> QED
  BY <1>1, <1>2, <1>3, <1>4, <1>5

\* The value is at stake once, from the frame on.
LEMMA StakeGrows ==
  ASSUME TypeOK, UNCHANGED tx, BeforeFrame' => BeforeFrame
  PROVE  /\ ValueAtStake' >= ValueAtStake
         /\ BeforeFrame /\ ~BeforeFrame' => ValueAtStake' = ValueAtStake + tx.value
<1>1. tx.value \in Nat
  BY TxType
<1> QED
  BY <1>1 DEF ValueAtStake

\* A step before the frame, or one that takes no code away, leaves code its say.
LEMMA CodeHasItsSay ==
  ASSUME BeforeFrame' => BeforeFrame, BeforeFrame \/ \A a \in Addr : HasCode(a) => HasCode(a)'
  PROVE  \A a \in Addr : MaySpend(a) => MaySpend(a)'
  BY DEF MaySpend

\* Where the world and the fees stand, the run goes on.
LEMMA IdleRunsOn ==
  ASSUME TypeOK, TypeOK', UNCHANGED <<db, output, start, tx, fees, state>>,
         BeforeFrame' => BeforeFrame
  PROVE  RunsOn
<1> USE StepTypes
<1>1. \A a \in Addr : MaySpend(a) => MaySpend(a)'
  BY CodeHasItsSay DEF HasCode
<1>2. CallerShare' >= CallerShare
  <2>1. ValueAtStake' >= ValueAtStake
    BY StakeGrows
  <2> QED
    BY <2>1 DEF CallerShare
<1>3. Spares
  BY <1>1, <1>2 DEF Spares
<1>4. Supply(state') + InFlight' = Supply(state) + InFlight
  BY DEF InFlight
<1> QED
  BY <1>3, <1>4 DEF RunsOn

\* A fee is charged as it is taken.
LEMMA ChargeRunsOn ==
  ASSUME TypeOK, TypeOK', UNCHANGED <<db, output, start, tx>>, BeforeFrame, BeforeFrame',
         NEW n \in Nat,
         \A a \in Addr : state'.balance[a]
           = IF a = tx.caller THEN state.balance[a] - n ELSE state.balance[a],
         \A a \in Addr : state'.nonce[a] >= state.nonce[a],
         Supply(state') = Supply(state) - n,
         fees'.charged = fees.charged + n, fees'.reimbursed = fees.reimbursed,
         fees'.rewarded = fees.rewarded
  PROVE  RunsOn
<1>1. /\ tx.caller \in Addr /\ tx.value \in Nat
      /\ \A a \in Addr : state.balance[a] \in Nat
      /\ fees.charged \in Nat /\ fees.reimbursed \in Nat /\ fees.rewarded \in Nat
      /\ Supply(state) \in Int
  BY StepTypes
<1>2. \A a \in Addr : MaySpend(a) => MaySpend(a)'
  BY CodeHasItsSay
<1>3. \A a \in Addr \ {tx.caller} : state'.balance[a] >= state.balance[a]
  BY <1>1
<1>4. CallerShare' >= CallerShare
  <2>1. ValueAtStake = 0 /\ ValueAtStake' = 0
    BY DEF ValueAtStake
  <2>2. state'.balance[tx.caller] = state.balance[tx.caller] - n
    BY <1>1
  <2> QED
    BY <1>1, <2>1, <2>2 DEF CallerShare
<1>5. Spares
  BY <1>2, <1>3, <1>4 DEF Spares
<1>6. Supply(state') + InFlight' = Supply(state) + InFlight
  BY <1>1 DEF InFlight
<1> QED
  BY <1>5, <1>6 DEF RunsOn

\* A step that moves no fee.
LEMMA FreeRunsOn ==
  ASSUME TypeOK, TypeOK', UNCHANGED <<db, output, start, tx, fees>>,
         BeforeFrame' => BeforeFrame,
         BeforeFrame \/ \A a \in Addr : HasCode(a) => HasCode(a)',
         \A a \in Addr : state'.nonce[a] >= state.nonce[a],
         \A a \in Addr \ {tx.caller} : MaySpend(a)' \/ state'.balance[a] >= state.balance[a],
         \/ MaySpend(tx.caller)'
         \/ state'.balance[tx.caller] >= state.balance[tx.caller]
         \/ /\ BeforeFrame /\ ~BeforeFrame'
            /\ state'.balance[tx.caller] + tx.value >= state.balance[tx.caller],
         Supply(state') = Supply(state)
  PROVE  RunsOn
<1>1. /\ tx.caller \in Addr /\ tx.value \in Nat
      /\ state.balance[tx.caller] \in Nat /\ state'.balance[tx.caller] \in Nat
      /\ fees.charged \in Nat /\ fees.reimbursed \in Nat /\ fees.rewarded \in Nat
      /\ Supply(state) \in Int /\ ValueAtStake \in Nat /\ ValueAtStake' \in Nat
  BY StepTypes
<1>2. \A a \in Addr : MaySpend(a) => MaySpend(a)'
  BY CodeHasItsSay
<1>3. MaySpend(tx.caller)' \/ CallerShare' >= CallerShare
  <2>1. /\ ValueAtStake' >= ValueAtStake
        /\ BeforeFrame /\ ~BeforeFrame' => ValueAtStake' = ValueAtStake + tx.value
    BY StakeGrows
  <2> QED
    BY <1>1, <2>1 DEF CallerShare
<1>4. Spares
  BY <1>2, <1>3 DEF Spares
<1>5. Supply(state') + InFlight' = Supply(state) + InFlight
  BY DEF InFlight
<1> QED
  BY <1>4, <1>5 DEF RunsOn

\* What is given back or paid out leaves the fee in flight.
LEMMA CreditRunsOn ==
  ASSUME TypeOK, TypeOK', UNCHANGED <<db, output, start, tx>>, ~BeforeFrame, ~BeforeFrame',
         NEW a \in Addr, NEW n \in Nat, state' = Credit(state, a, n),
         fees'.charged = fees.charged,
         \/ /\ a = tx.caller /\ fees'.reimbursed = fees.reimbursed + n
            /\ fees'.rewarded = fees.rewarded
         \/ fees'.reimbursed = fees.reimbursed /\ fees'.rewarded = fees.rewarded + n
  PROVE  RunsOn
<1>1. /\ state \in World /\ tx.caller \in Addr /\ tx.value \in Nat
      /\ \A b \in Addr : state.balance[b] \in Nat /\ state.nonce[b] \in Nat
      /\ fees.charged \in Nat /\ fees.reimbursed \in Nat /\ fees.rewarded \in Nat
      /\ Supply(state) \in Int
  BY StepTypes
<1>2. /\ \A b \in Addr : state'.balance[b] = IF b = a THEN state.balance[b] + n ELSE state.balance[b]
      /\ state'.nonce = state.nonce /\ state'.code = state.code
  BY <1>1 DEF Credit, World
<1>3. \A b \in Addr : MaySpend(b) => MaySpend(b)'
  BY <1>2, CodeHasItsSay DEF HasCode
<1>4. \A b \in Addr : state'.nonce[b] >= state.nonce[b] /\ state'.balance[b] >= state.balance[b]
  BY <1>1, <1>2
<1>5. CallerShare' >= CallerShare
  <2>1. ValueAtStake = tx.value /\ ValueAtStake' = tx.value
    BY DEF ValueAtStake
  <2>2. state'.balance[tx.caller]
          = IF tx.caller = a THEN state.balance[tx.caller] + n ELSE state.balance[tx.caller]
    BY <1>1, <1>2
  <2> QED
    BY <1>1, <2>1, <2>2 DEF CallerShare
<1>6. Spares
  BY <1>3, <1>4, <1>5 DEF Spares
<1>7. Supply(state') = Supply(state) + n
  BY <1>1, CreditSupply
<1>8. Supply(state') + InFlight' = Supply(state) + InFlight
  BY <1>1, <1>7 DEF InFlight
<1> QED
  BY <1>6, <1>8 DEF RunsOn

-----------------------------------------------------------------------------
(***************************************************************************)
(* The steps of a run.                                                     *)
(***************************************************************************)
\* The execution fee is charged as it is taken.
LEMMA DeductRunsOn == IndInv /\ IndInv' /\ mainnet_deduct_caller => RunsOn
<1> SUFFICES ASSUME IndInv, IndInv', mainnet_deduct_caller PROVE RunsOn
  OBVIOUS
<1>0. /\ UNCHANGED <<db, output, start, tx>> /\ TypeOK /\ TypeOK' /\ state \in World
      /\ tx.caller \in Addr
      /\ fees \in [charged : Nat, l1 : Nat, reimbursed : Nat, rewarded : Nat]
  BY TxType DEF mainnet_deduct_caller, KeepSession, IndInv, TypeOK
<1>1. phase = "deduct" /\ BeforeFrame
  BY DEF mainnet_deduct_caller, BeforeFrame
<1>2. CASE UNCHANGED <<state, fees>>
  BY <1>0, <1>1, <1>2, IdleRunsOn
<1> DEFINE fee == tx.gasLimit * GasPrice
<1>3. CASE ~UNCHANGED <<state, fees>>
  <2>1. /\ MainnetVerdict = "none" /\ phase' = "rollupFee"
        /\ state' = Accounted(state, fee) /\ fees' = [fees EXCEPT !.charged = @ + fee]
    BY <1>3 DEF mainnet_deduct_caller
  <2>2. max_balance_spending(tx) <= state.balance[tx.caller]
    <3>1. tx.gasLimit * tx.maxFee \in Nat /\ tx.value \in Nat /\ state.balance[tx.caller] \in Nat
      BY <1>0, TxType, MulNat DEF World
    <3>2. max_balance_spending(tx) \in Nat /\ state.balance[tx.caller] \in Nat
      BY <3>1 DEF max_balance_spending
    <3> QED
      BY <2>1, <3>2 DEF MainnetVerdict
  <2>3. fee \in Nat /\ fee <= state.balance[tx.caller]
    BY <1>0, <2>2, ExecutionFeeCovered
  <2> HIDE DEF fee
  <2>4. /\ \A b \in Addr : state'.balance[b]
             = IF b = tx.caller THEN state.balance[b] - fee ELSE state.balance[b]
        /\ \A b \in Addr : state'.nonce[b]
             = IF b = tx.caller /\ ~tx.create THEN state.nonce[b] + 1 ELSE state.nonce[b]
    <3>1. state \in Loose /\ fee \in Int
      BY <1>0, <2>3, WorldLoose
    <3> QED
      BY <1>0, <2>1, <3>1, AccountedParts
  <2>5. \A b \in Addr : state'.nonce[b] >= state.nonce[b]
    BY <1>0, <2>4 DEF World
  <2>6. Supply(state') = Supply(state) - fee
    <3> DEFINE paid == Debit(state, tx.caller, fee)
    <3>1. paid \in World /\ Supply(paid) = Supply(state) - fee
      BY <1>0, <2>3, DebitType, DebitSupply
    <3>2. state' = IF tx.create THEN paid ELSE BumpNonce(paid, tx.caller)
      BY <2>1 DEF Accounted
    <3> HIDE DEF paid
    <3>3. state'.balance = paid.balance /\ state' \in World
      BY <1>0, <3>1, <3>2, BumpNonceType
    <3> QED
      BY <3>1, <3>3, SupplySame
  <2>7. fees'.charged = fees.charged + fee /\ fees'.reimbursed = fees.reimbursed
        /\ fees'.rewarded = fees.rewarded
    BY <1>0, <2>1
  <2>8. BeforeFrame'
    BY <2>1 DEF BeforeFrame
  <2> QED
    BY <1>0, <1>1, <2>3, <2>4, <2>5, <2>6, <2>7, <2>8, ChargeRunsOn
<1> QED
  BY <1>2, <1>3

\* So is the rollup fee.
LEMMA RollupFeeRunsOn == IndInv /\ IndInv' /\ deduct_rollup_fee => RunsOn
<1> SUFFICES ASSUME IndInv, IndInv', deduct_rollup_fee PROVE RunsOn
  OBVIOUS
<1>0. /\ UNCHANGED <<db, output, start, tx>> /\ TypeOK /\ TypeOK' /\ state \in World
      /\ tx.caller \in Addr
      /\ fees \in [charged : Nat, l1 : Nat, reimbursed : Nat, rewarded : Nat]
  BY TxType DEF deduct_rollup_fee, KeepSession, IndInv, TypeOK
<1>1. phase = "rollupFee" /\ BeforeFrame
  BY DEF deduct_rollup_fee, BeforeFrame
<1>2. CASE UNCHANGED <<state, fees>>
  BY <1>0, <1>1, <1>2, IdleRunsOn
<1>3. CASE ~UNCHANGED <<state, fees>>
  <2>1. /\ ~RollupCostPanics /\ RollupCost <= state.balance[tx.caller] /\ phase' = "loadAccounts"
        /\ state' = Debit(state, tx.caller, RollupCost)
        /\ fees' = [fees EXCEPT !.charged = @ + RollupCost, !.l1 = RollupCost]
    BY <1>3 DEF deduct_rollup_fee, CanPayRollupFee
  <2>2. RollupCost \in Nat
    BY <1>0, <2>1, RollupCostType
  <2> HIDE DEF RollupCost
  <2>3. /\ \A b \in Addr : state'.balance[b]
             = IF b = tx.caller THEN state.balance[b] - RollupCost ELSE state.balance[b]
        /\ state'.nonce = state.nonce
    <3>1. state \in Loose /\ RollupCost \in Int
      BY <1>0, <2>2, WorldLoose
    <3> QED
      BY <1>0, <2>1, <3>1, DebitParts
  <2>4. \A b \in Addr : state'.nonce[b] >= state.nonce[b]
    BY <1>0, <2>3 DEF World
  <2>5. Supply(state') = Supply(state) - RollupCost
    BY <1>0, <2>1, <2>2, DebitSupply
  <2>6. fees'.charged = fees.charged + RollupCost /\ fees'.reimbursed = fees.reimbursed
        /\ fees'.rewarded = fees.rewarded
    BY <1>0, <2>1
  <2>7. BeforeFrame'
    BY <2>1 DEF BeforeFrame
  <2> QED
    BY <1>0, <1>1, <2>2, <2>3, <2>4, <2>5, <2>6, <2>7, ChargeRunsOn
<1> QED
  BY <1>2, <1>3

\* The nonce of an L1 message is bumped, and an authorization uses up one of its
\* signer's; nothing is paid.
LEMMA NonceRunsOn ==
  IndInv /\ IndInv' /\ (validate_l1_msg \/ apply_eip7702_auth_list) => RunsOn
<1> SUFFICES ASSUME IndInv, IndInv', validate_l1_msg \/ apply_eip7702_auth_list PROVE RunsOn
  OBVIOUS
<1>0. /\ UNCHANGED <<db, output, start, tx, fees>> /\ TypeOK /\ TypeOK' /\ state \in World
      /\ state' \in World /\ tx.caller \in Addr
  BY TxType DEF validate_l1_msg, apply_eip7702_auth_list, KeepSession, KeepRun, IndInv, TypeOK
<1>1. BeforeFrame
  BY DEF validate_l1_msg, apply_eip7702_auth_list, BeforeFrame
<1>2. \/ state' = state
      \/ state' = BumpNonce(state, tx.caller)
      \/ tx.auth # NoAddr /\ state' = Delegated(state)
  BY DEF validate_l1_msg, L1Nonce, apply_eip7702_auth_list, journal
<1>3. /\ state'.balance = state.balance
      /\ \A a \in Addr : state'.nonce[a] >= state.nonce[a]
  <2>1. CASE state' = state
    BY <1>0, <2>1 DEF World
  <2>2. CASE state' = BumpNonce(state, tx.caller)
    BY <1>0, <2>2, BumpNonceType
  <2>3. CASE tx.auth # NoAddr /\ state' = Delegated(state)
    BY <1>0, <2>3, DelegatedType
  <2> QED
    BY <1>2, <2>1, <2>2, <2>3
<1>4. \A a \in Addr : state'.balance[a] >= state.balance[a]
  BY <1>0, <1>3 DEF World
<1>5. Supply(state') = Supply(state)
  BY <1>0, <1>3, SupplySame
<1> QED
  BY <1>0, <1>1, <1>3, <1>4, <1>5, FreeRunsOn

\* Where the first frame begins the value moves: the caller has that much less at
\* most, and nobody else has less.
LEMMA BeginSpares ==
  ASSUME TypeOK, CanPayValue, ~Collides
  PROVE  LET w == BeginFrame(EnterFrame(state))
         IN  /\ w \in World /\ Supply(w) = Supply(state)
             /\ \A a \in Addr : w.nonce[a] >= state.nonce[a]
             /\ \A a \in Addr \ {tx.caller} : w.balance[a] >= state.balance[a]
             /\ w.balance[tx.caller] + tx.value >= state.balance[tx.caller]
<1> DEFINE v == EnterFrame(state)
           w == BeginFrame(v)
<1>1. tx.caller \in Addr /\ tx.to \in Addr /\ tx.value \in Nat /\ state \in World
      /\ tx.value <= state.balance[tx.caller]
      /\ \A a \in Addr : state.balance[a] \in Nat /\ state.nonce[a] \in Nat
  BY TxType DEF TypeOK, CanPayValue, World
<1>2. /\ v \in World /\ v.balance = state.balance
      /\ \A a \in Addr : v.nonce[a] >= state.nonce[a]
  BY <1>1, EnterFrameType
<1>3. tx.create => v.nonce[tx.to] = 0
  BY DEF Collides, Occupied
<1> HIDE DEF v
<1>4. /\ w \in World /\ w.balance = Transfer(v).balance
      /\ w.nonce = IF tx.create THEN [v.nonce EXCEPT ![tx.to] = 1] ELSE v.nonce
  BY <1>1, <1>2, BeginFrameType
<1> HIDE DEF w
<1>5. \A a \in Addr : w.nonce[a] >= state.nonce[a]
  BY <1>1, <1>2, <1>3, <1>4 DEF World
<1>6. Transfer(v) \in World /\ Supply(Transfer(v)) = Supply(v)
  BY <1>1, <1>2, TransferType, PaySupply DEF Transfer
<1>7. Supply(w) = Supply(state)
  BY <1>1, <1>2, <1>4, <1>6, SupplySame
<1>8. Transfer(v).balance[tx.caller] + tx.value >= v.balance[tx.caller]
  BY <1>1, <1>2, TransferCosts
<1>9. \A a \in Addr \ {tx.caller} : Transfer(v).balance[a] >= v.balance[a]
  <2>1. Transfer(v).balance
          = [[v.balance EXCEPT ![tx.caller] = @ - tx.value] EXCEPT ![tx.to] = @ + tx.value]
    BY <1>2 DEF Transfer, Pay, Debit, Credit, World
  <2>2. v.balance \in [Addr -> Nat]
    BY <1>2 DEF World
  <2> QED
    BY <1>1, <2>1, <2>2
<1> QED
  BY <1>1, <1>2, <1>4, <1>5, <1>7, <1>8, <1>9 DEF w, v

\* The first frame moves the value or nothing, also under an inspector.
LEMMA ExecutionRunsOn == IndInv /\ IndInv' /\ execution => RunsOn
<1> SUFFICES ASSUME IndInv, IndInv', execution PROVE RunsOn
  OBVIOUS
<1>0. /\ UNCHANGED <<db, output, start, tx, fees>> /\ TypeOK /\ TypeOK'
      /\ state \in World /\ state' \in World
  BY DEF execution, KeepSession, IndInv, TypeOK
<1>1. BeforeFrame /\ ~BeforeFrame'
  BY DEF execution, BeforeFrame, FrameEnds, FrameEndsIn
<1>2. \/ state' = state
      \/ CanPayValue /\ ~Collides /\ state' = BeginFrame(EnterFrame(state))
      \/ CanPayValue /\ state' = EnterFrame(state)
  BY DEF execution, journal
<1>3. CASE state' = state
  BY <1>0, <1>1, <1>3, IdleRunsOn
<1>4. CASE CanPayValue /\ ~Collides /\ state' = BeginFrame(EnterFrame(state))
  <2>1. /\ Supply(state') = Supply(state)
        /\ \A a \in Addr : state'.nonce[a] >= state.nonce[a]
        /\ \A a \in Addr \ {tx.caller} : state'.balance[a] >= state.balance[a]
        /\ state'.balance[tx.caller] + tx.value >= state.balance[tx.caller]
    BY <1>0, <1>4, BeginSpares
  <2> QED
    BY <1>0, <1>1, <2>1, FreeRunsOn
<1>5. CASE CanPayValue /\ state' = EnterFrame(state)
  <2>1. /\ state'.balance = state.balance
        /\ \A a \in Addr : state'.nonce[a] >= state.nonce[a]
    BY <1>0, <1>5, EnterFrameType
  <2>2. \A a \in Addr : state'.balance[a] >= state.balance[a]
    BY <1>0, <2>1 DEF World
  <2>3. Supply(state') = Supply(state) /\ tx.caller \in Addr
    BY <1>0, <2>1, SupplySame, TxType
  <2> QED
    BY <1>0, <1>1, <2>1, <2>2, <2>3, FreeRunsOn
<1> QED
  BY <1>2, <1>3, <1>4, <1>5

\* Code spends what its account has, and money stays money.
LEMMA OperationRunsOn ==
  IndInv /\ IndInv' /\ (contract_pays \/ contract_creates \/ oracle_is_updated) => RunsOn
<1> SUFFICES ASSUME IndInv, IndInv', contract_pays \/ contract_creates \/ oracle_is_updated
             PROVE  RunsOn
  OBVIOUS
<1>0. /\ UNCHANGED <<db, output, start, tx, fees, phase>> /\ phase = "frame"
      /\ state \in World /\ state' \in World /\ TypeOK /\ TypeOK' /\ tx.caller \in Addr
      /\ \A a \in Addr : state'.nonce[a] >= state.nonce[a]
  BY OperationKeeps, TxType DEF IndInv
<1>1. /\ \A a \in Addr : HasCode(a) => state'.code[a] = state.code[a]
      /\ \A a \in Addr : ~HasCode(a) => state'.balance[a] >= state.balance[a]
  BY OperationKeeps
<1>2. ~BeforeFrame /\ ~BeforeFrame'
  BY <1>0 DEF BeforeFrame
<1>3. \A a \in Addr : HasCode(a) => HasCode(a)'
  BY <1>1 DEF HasCode
<1>4. \A a \in Addr : MaySpend(a)' \/ state'.balance[a] >= state.balance[a]
  BY <1>1, <1>2, <1>3 DEF MaySpend
<1>5. Supply(state') = Supply(state)
  <2>1. CASE contract_pays
    <3>1. PICK p \in Payments : /\ p.amount <= state.balance[p.from]
                                /\ state' = Pay(state, p.from, p.to, p.amount)
      BY <2>1 DEF contract_pays, Operation
    <3>2. p.from \in Addr /\ p.to \in Addr /\ p.amount \in Nat
      BY WorldAssumption
    <3> QED
      BY <1>0, <3>1, <3>2, PaySupply
  <2>2. CASE contract_creates
    <3>1. PICK c \in Creations : state' = Created(BumpNonce(state, c.from), c.new)
      BY <2>2 DEF contract_creates, Operation
    <3>2. c.from \in Addr /\ c.new \in Addr
      BY WorldAssumption
    <3> DEFINE u == BumpNonce(state, c.from)
    <3>3. u \in World /\ u.balance = state.balance
      BY <1>0, <3>2, BumpNonceType
    <3>4. state' = Created(u, c.new)
      BY <3>1
    <3> HIDE DEF u
    <3>5. state'.balance = state.balance
      BY <3>2, <3>3, <3>4, CreatedType
    <3> QED
      BY <1>0, <3>5, SupplySame
  <2>3. CASE oracle_is_updated
    <3>1. PICK o \in OracleStates : state' = [state EXCEPT !.oracle = o]
      BY <2>3 DEF oracle_is_updated, Operation
    <3>2. state'.balance = state.balance
      BY <1>0, <3>1 DEF World
    <3> QED
      BY <1>0, <3>2, SupplySame
  <2> QED
    BY <2>1, <2>2, <2>3
<1> QED
  BY <1>0, <1>2, <1>3, <1>4, <1>5, FreeRunsOn

\* The caller gets back what the gas left is worth.
LEMMA ReimburseRunsOn == IndInv /\ IndInv' /\ reimburse_caller => RunsOn
<1> SUFFICES ASSUME IndInv, IndInv', reimburse_caller PROVE RunsOn
  OBVIOUS
<1> DEFINE back == GasPrice * (gas.remaining + gas.refunded)
<1>0. /\ UNCHANGED <<db, output, start, tx>> /\ TypeOK /\ TypeOK' /\ tx.caller \in Addr
      /\ fees \in [charged : Nat, l1 : Nat, reimbursed : Nat, rewarded : Nat]
      /\ state' = Credit(state, tx.caller, back)
      /\ fees' = [fees EXCEPT !.reimbursed = @ + back]
  BY TxType DEF reimburse_caller, KeepSession, IndInv, TypeOK
<1>1. back \in Nat
  <2>1. gas \in [limit : Nat, remaining : Nat, refunded : Nat]
    BY <1>0 DEF TypeOK
  <2>2. gas.remaining \in Nat /\ gas.refunded \in Nat
    BY <2>1
  <2>3. GasPrice \in Nat /\ gas.remaining + gas.refunded \in Nat
    BY <1>0, <2>2, GasPriceRange
  <2> HIDE DEF GasPrice
  <2> QED
    BY <2>3, MulNat
<1> HIDE DEF back
<1>2. /\ fees'.charged = fees.charged /\ fees'.reimbursed = fees.reimbursed + back
      /\ fees'.rewarded = fees.rewarded
  BY <1>0
<1>3. ~BeforeFrame /\ ~BeforeFrame'
  BY DEF reimburse_caller, BeforeFrame
<1> QED
  BY <1>0, <1>1, <1>2, <1>3, CreditRunsOn

\* The beneficiary gets the rest.
LEMMA RewardRunsOn == IndInv /\ IndInv' /\ reward_beneficiary => RunsOn
<1> SUFFICES ASSUME IndInv, IndInv', reward_beneficiary PROVE RunsOn
  OBVIOUS
<1>0. /\ UNCHANGED <<db, output, start, tx>> /\ TypeOK /\ TypeOK' /\ phase = "reward"
      /\ mode # "system"
      /\ fees \in [charged : Nat, l1 : Nat, reimbursed : Nat, rewarded : Nat]
  BY DEF reward_beneficiary, KeepSession, IndInv, ModeInv, TypeOK
<1>1. ~BeforeFrame /\ ~BeforeFrame'
  BY DEF reward_beneficiary, BeforeFrame, Fail
<1>2. CASE UNCHANGED <<state, fees>>
  BY <1>0, <1>1, <1>2, IdleRunsOn
<1>3. CASE ~UNCHANGED <<state, fees>>
  <2>1. /\ ~tx.l1msg
        /\ state' = Credit(state, block.beneficiary, Reward)
        /\ fees' = [fees EXCEPT !.rewarded = @ + Reward]
    BY <1>3 DEF reward_beneficiary, skip_reward, journal
  <2>2. block.beneficiary \in Addr
    BY <1>0, TxType DEF Block
  <2>3. Reward \in Nat
    <3> DEFINE used == gas.limit - (gas.remaining + gas.refunded)
    <3>1. Reward = GasPrice * used + RollupFee
      BY <1>0, <2>1, RewardExact
    <3>2. GasPrice \in Nat /\ used \in Nat /\ RollupFee \in Nat
      <4>1. GasPrice \in Nat
        BY <1>0, GasPriceRange
      <4>2. used \in Nat
        <5>1. gas \in [limit : Nat, remaining : Nat, refunded : Nat]
          BY <1>0 DEF TypeOK
        <5>2. gas.limit \in Nat /\ gas.remaining \in Nat /\ gas.refunded \in Nat
          BY <5>1
        <5>3. gas.remaining + gas.refunded <= gas.limit
          BY <1>0 DEF IndInv, GasInv
        <5> QED
          BY <5>2, <5>3
      <4>3. RollupFee = fees.l1
        BY <1>0 DEF IndInv, FeeInv, AfterRollupFee, AfterFrame
      <4> QED
        BY <1>0, <4>1, <4>2, <4>3
    <3> HIDE DEF used, GasPrice, RollupFee
    <3> QED
      BY <3>1, <3>2, MulNat
  <2> HIDE DEF Reward
  <2>4. /\ fees'.charged = fees.charged /\ fees'.reimbursed = fees.reimbursed
        /\ fees'.rewarded = fees.rewarded + Reward
    BY <1>0, <2>1
  <2> QED
    BY <1>0, <1>1, <2>1, <2>2, <2>3, <2>4, CreditRunsOn
<1> QED
  BY <1>2, <1>3

\* Every step of the handler runs on but the two that end a run.
LEMMA HandlerRunsOn ==
  ASSUME IndInv, IndInv', HandlerStep, ~catch_error, ~(phase = "result" /\ outcome # "fatal")
  PROVE  RunsOn /\ phase # "idle" /\ phase' # "idle"
<1>0. TypeOK /\ TypeOK'
  BY DEF IndInv
<1>1. phase # "idle"
  BY DEF HandlerStep, validate, fetch_l1_block_info, mainnet_deduct_caller, deduct_rollup_fee,
         validate_l1_msg, load_accounts, apply_eip7702_auth_list, execution, contract_pays,
         contract_creates, oracle_is_updated, Operation, frame_returns, last_frame_result,
         refund, eip7623_check_gas_floor, reimburse_caller, reward_beneficiary, execution_result,
         DatabaseError, ReadsDatabase
<1>2. phase' # "idle"
  BY DEF HandlerStep, validate, fetch_l1_block_info, mainnet_deduct_caller, deduct_rollup_fee,
         validate_l1_msg, load_accounts, apply_eip7702_auth_list, execution, contract_pays,
         contract_creates, oracle_is_updated, Operation, frame_returns, FrameEndsIn, FrameEnds,
         last_frame_result, refund, eip7623_check_gas_floor, reimburse_caller, reward_beneficiary,
         execution_result, DatabaseError, Fail
<1>3. CASE mainnet_deduct_caller \/ deduct_rollup_fee \/ validate_l1_msg
           \/ apply_eip7702_auth_list \/ execution \/ contract_pays \/ contract_creates
           \/ oracle_is_updated \/ reimburse_caller \/ reward_beneficiary
  BY <1>1, <1>2, <1>3, DeductRunsOn, RollupFeeRunsOn, NonceRunsOn, ExecutionRunsOn, OperationRunsOn,
     ReimburseRunsOn, RewardRunsOn
<1>4. CASE validate \/ fetch_l1_block_info \/ load_accounts \/ frame_returns \/ last_frame_result
           \/ refund \/ eip7623_check_gas_floor \/ DatabaseError \/ execution_result
  <2>1. UNCHANGED <<db, output, start, tx, fees, state>>
    <3>1. CASE execution_result
      BY <3>1 DEF execution_result, KeepWorld, KeepRun, journal
    <3>2. CASE ~execution_result
      BY <1>4, <3>2 DEF validate, fetch_l1_block_info, load_accounts, frame_returns, FrameEndsIn,
                  FrameEnds, last_frame_result, refund, eip7623_check_gas_floor, DatabaseError,
                  KeepSession, KeepWorld, KeepRun, journal
    <3> QED
      BY <3>1, <3>2
  <2>2. BeforeFrame' => BeforeFrame
    BY <1>4 DEF validate, fetch_l1_block_info, load_accounts, frame_returns, FrameEndsIn,
                FrameEnds, last_frame_result, refund, eip7623_check_gas_floor, DatabaseError,
                execution_result, Fail, BeforeFrame
  <2> QED
    BY <1>0, <1>1, <1>2, <2>1, <2>2, IdleRunsOn
<1> QED
  BY <1>1, <1>2, <1>3, <1>4 DEF HandlerStep

\* A run whose result is ready ends with execution_result.
LEMMA ResultStep ==
  ASSUME HandlerStep, ~catch_error, phase = "result"
  PROVE  execution_result
  BY DEF HandlerStep, validate, fetch_l1_block_info, mainnet_deduct_caller, deduct_rollup_fee,
         validate_l1_msg, load_accounts, apply_eip7702_auth_list, execution, contract_pays,
         contract_creates, oracle_is_updated, Operation, frame_returns, last_frame_result, refund,
         eip7623_check_gas_floor, reimburse_caller, reward_beneficiary, DatabaseError, ReadsDatabase

-----------------------------------------------------------------------------
(***************************************************************************)
(* The inductive invariant.                                                *)
(***************************************************************************)
\* Between two runs, and when one starts, little is left to ask.
LEMMA RestLedger ==
  ASSUME TypeOK', state' = start', fees' = NoFees, OutputWaits'
  PROVE  LedgerInv'
<1>1. state' \in World /\ start' \in World /\ tx'.caller \in Addr /\ tx'.value \in Nat
  <2>1. tx' \in Tx
    BY ContextAssumption DEF TypeOK
  <2> QED
    BY <2>1 DEF TypeOK, Tx
<1>2. fees'.charged = 0 /\ fees'.reimbursed = 0 /\ fees'.rewarded = 0
  BY DEF NoFees
<1>3. SupplyConserved'
  <2>1. Supply(start') \in Int /\ Supply(state') = Supply(start')
    BY <1>1, SupplyType
  <2> QED
    BY <1>2, <2>1 DEF SupplyConserved, Supply
<1>4. OnlyCallerPays'
  <2>1. \A a \in Addr : state'.balance[a] \in Nat /\ state'.nonce[a] \in Nat
    BY <1>1 DEF World
  <2>2. ValueAtStake' \in Nat
    BY <1>1 DEF ValueAtStake
  <2> QED
    BY <1>1, <1>2, <2>1, <2>2 DEF OnlyCallerPays
<1> QED
  BY <1>3, <1>4 DEF LedgerInv

\* A new EVM over its database.
LEMMA InitLedger == Init => LedgerInv
<1> SUFFICES ASSUME Init PROVE LedgerInv
  OBVIOUS
<1>1. /\ state \in World /\ state = start /\ fees = NoFees /\ output = NoWorld
      /\ tx.caller \in Addr /\ tx.value \in Nat
  <2>1. tx \in Tx
    BY ContextAssumption DEF Init
  <2> QED
    BY <2>1, WorldAssumption DEF Init, Tx
<1>2. fees.charged = 0 /\ fees.reimbursed = 0 /\ fees.rewarded = 0
  BY <1>1 DEF NoFees
<1>3. SupplyConserved
  <2>1. Supply(start) \in Int
    BY <1>1, SupplyType
  <2> QED
    BY <1>1, <1>2, <2>1 DEF SupplyConserved, Supply
<1>4. OnlyCallerPays
  <2>1. \A a \in Addr : state.balance[a] \in Nat /\ state.nonce[a] \in Nat
    BY <1>1 DEF World
  <2>2. ValueAtStake \in Nat
    BY <1>1 DEF ValueAtStake
  <2> QED
    BY <1>1, <1>2, <2>1, <2>2 DEF OnlyCallerPays
<1> QED
  BY <1>1, <1>3, <1>4 DEF LedgerInv, OutputWaits

\* While a run goes on.
LEMMA RunLedger ==
  ASSUME IndInv, IndInv', LedgerInv, RunsOn, phase # "idle"
  PROVE  LedgerInv'
<1>0. TypeOK /\ TypeOK' /\ UNCHANGED <<db, output, start, tx>>
  BY DEF IndInv, RunsOn
<1>1. /\ tx.caller \in Addr
      /\ \A a \in Addr : /\ state.balance[a] \in Nat /\ state'.balance[a] \in Nat
                         /\ state.nonce[a] \in Nat /\ state'.nonce[a] \in Nat
                         /\ start.balance[a] \in Nat /\ start.nonce[a] \in Nat
      /\ fees.charged \in Nat /\ fees.reimbursed \in Nat /\ fees.rewarded \in Nat
      /\ fees'.charged \in Nat /\ fees'.reimbursed \in Nat /\ fees'.rewarded \in Nat
      /\ Supply(state) \in Int /\ Supply(state') \in Int /\ Supply(start) \in Int
      /\ ValueAtStake \in Nat /\ ValueAtStake' \in Nat
  <2>1. start \in World
    BY <1>0 DEF TypeOK
  <2>2. \A a \in Addr : start.balance[a] \in Nat /\ start.nonce[a] \in Nat
    BY <2>1 DEF World
  <2>3. Supply(start) \in Int
    BY <2>1, SupplyType
  <2> QED
    BY <1>0, <2>2, <2>3, StepTypes
<1>2. SupplyConserved'
  <2>1. Supply(state) + fees.charged = Supply(start) + fees.reimbursed + fees.rewarded
    BY DEF LedgerInv, SupplyConserved, Supply
  <2>2. Supply(state') + (fees'.charged - fees'.reimbursed - fees'.rewarded)
          = Supply(state) + (fees.charged - fees.reimbursed - fees.rewarded)
    BY DEF RunsOn, InFlight
  <2>3. Supply(state') + fees'.charged = Supply(start) + fees'.reimbursed + fees'.rewarded
    BY <1>1, <2>1, <2>2
  <2>4. ASSUME phase' = "result"
        PROVE  Supply(state') = Supply(start) + IF tx.l1msg THEN fees'.reimbursed ELSE 0
    <3>1. IF tx.l1msg THEN fees'.charged = 0 /\ fees'.rewarded = 0
          ELSE fees'.charged = fees'.reimbursed + fees'.rewarded
      BY <1>0, <2>4 DEF IndInv, FeeInv, FeeConservation
    <3>2. CASE tx.l1msg
      BY <1>1, <2>3, <3>1, <3>2
    <3>3. CASE ~tx.l1msg
      BY <1>1, <2>3, <3>1, <3>3
    <3> QED
      BY <3>2, <3>3
  <2> QED
    BY <1>0, <2>3, <2>4 DEF SupplyConserved, Supply
<1>3. OnlyCallerPays'
  <2>1. /\ \A a \in Addr : state'.nonce[a] >= state.nonce[a]
        /\ \A a \in Addr : MaySpend(a) => MaySpend(a)'
        /\ \A a \in Addr \ {tx.caller} : MaySpend(a)' \/ state'.balance[a] >= state.balance[a]
        /\ MaySpend(tx.caller)' \/ CallerShare' >= CallerShare
    BY DEF RunsOn, Spares
  <2>2. /\ \A a \in Addr : state.nonce[a] >= start.nonce[a]
        /\ \A a \in Addr \ {tx.caller} : MaySpend(a) \/ state.balance[a] >= start.balance[a]
        /\ \/ MaySpend(tx.caller)
           \/ state.balance[tx.caller] + fees.charged + ValueAtStake
                >= start.balance[tx.caller] + fees.reimbursed
    BY DEF LedgerInv, OnlyCallerPays
  <2>3. \A a \in Addr : state'.nonce[a] >= start.nonce[a]
    BY <1>1, <2>1, <2>2
  <2>4. \A a \in Addr \ {tx.caller} : MaySpend(a)' \/ state'.balance[a] >= start.balance[a]
    BY <1>1, <2>1, <2>2
  <2>5. \/ MaySpend(tx.caller)'
        \/ state'.balance[tx.caller] + fees'.charged + ValueAtStake'
             >= start.balance[tx.caller] + fees'.reimbursed
    <3>1. CASE MaySpend(tx.caller)
      <4>1. ~BeforeFrame' /\ state'.code[tx.caller] # "none"
        BY <1>1, <2>1, <3>1 DEF MaySpend, HasCode
      <4> QED
        BY <1>0, <4>1 DEF MaySpend, HasCode
    <3>2. CASE ~MaySpend(tx.caller) /\ ~MaySpend(tx.caller)'
      <4>1. /\ CallerShare' = state'.balance[tx.caller] + fees'.charged + ValueAtStake'
                                - fees'.reimbursed
            /\ CallerShare = state.balance[tx.caller] + fees.charged + ValueAtStake
                               - fees.reimbursed
        BY <1>0 DEF CallerShare
      <4> QED
        BY <1>1, <2>1, <2>2, <3>2, <4>1
    <3> QED
      BY <3>1, <3>2
  <2> QED
    BY <1>0, <2>3, <2>4, <2>5 DEF OnlyCallerPays
<1>4. OutputWaits'
  BY <1>0 DEF LedgerInv, OutputWaits
<1> QED
  BY <1>2, <1>3, <1>4 DEF LedgerInv

\* Every step keeps it.
LEMMA NextLedger == IndInv /\ IndInv' /\ LedgerInv /\ [Next]_vars => LedgerInv'
<1> SUFFICES ASSUME IndInv, IndInv', LedgerInv, [Next]_vars PROVE LedgerInv'
  OBVIOUS
<1>0. /\ TypeOK /\ TypeOK'
      /\ phase = "idle" => state = start /\ fees = NoFees
      /\ phase' = "idle" => state' = start' /\ fees' = NoFees
      /\ phase # "idle" => output = NoWorld
  BY DEF IndInv, UndoInv, FeeInv, LedgerInv, OutputWaits
<1>1. CASE HandlerStep /\ ~catch_error /\ ~(phase = "result" /\ outcome # "fatal")
  BY <1>1, HandlerRunsOn, RunLedger
<1>2. CASE catch_error
  <2>1. phase' = "idle" /\ UNCHANGED <<db, output>> /\ phase = "error"
    BY <1>2 DEF catch_error, ReturnToCaller
  <2>2. OutputWaits'
    BY <1>0, <2>1 DEF OutputWaits
  <2> QED
    BY <1>0, <2>1, <2>2, RestLedger
<1>3. CASE HandlerStep /\ ~catch_error /\ phase = "result" /\ outcome # "fatal"
  <2>1. execution_result
    BY <1>3, ResultStep
  <2>2. /\ phase' = "idle" /\ UNCHANGED db
        /\ \/ UNCHANGED output
           \/ start' = db /\ loaded' = {}
    BY <1>3, <2>1 DEF execution_result, ReturnToCaller, EmptyJournal
  <2>3. OutputWaits'
    BY <1>0, <1>3, <2>2 DEF OutputWaits
  <2> QED
    BY <1>0, <2>2, <2>3, RestLedger
<1>4. CASE transact_one \/ replay \/ inspect_one_tx \/ system_call_one_with_caller
  <2>1. UNCHANGED <<db, output, start, state, fees>> /\ phase = "idle" /\ output = NoWorld
    BY <1>4 DEF transact_one, replay, inspect_one_tx, system_call_one_with_caller, StartRun,
                KeepWorld, KeepRun, journal
  <2>2. OutputWaits'
    BY <2>1 DEF OutputWaits
  <2> QED
    BY <1>0, <2>1, <2>2, RestLedger
<1>5. CASE finalize \/ commit \/ DropOutput \/ SetContext \/ Rebuild \/ UNCHANGED vars
  <2>1. CASE finalize
    <3>1. phase' = "idle" /\ phase = "idle" /\ output' = state /\ start' = db /\ loaded' = {}
          /\ UNCHANGED db
      BY <2>1 DEF finalize, EmptyJournal
    <3>2. OutputWaits'
      BY <1>0, <3>1 DEF OutputWaits
    <3> QED
      BY <1>0, <3>1, <3>2, RestLedger
  <2>2. CASE commit
    <3>1. phase' = "idle" /\ output' = NoWorld /\ db' = output /\ start' = output
      BY <2>2 DEF commit, EmptyJournal
    <3>2. OutputWaits'
      BY <3>1 DEF OutputWaits
    <3> QED
      BY <1>0, <3>1, <3>2, RestLedger
  <2>3. CASE DropOutput
    <3>1. phase' = "idle" /\ output' = NoWorld /\ UNCHANGED <<db, start>>
      BY <2>3 DEF DropOutput
    <3>2. OutputWaits'
      BY <3>1 DEF OutputWaits
    <3> QED
      BY <1>0, <3>1, <3>2, RestLedger
  <2>4. CASE SetContext
    <3>1. phase' = "idle" /\ UNCHANGED <<db, start, output, loaded, phase>>
      BY <2>4 DEF SetContext, KeepWorld, journal
    <3>2. OutputWaits'
      BY <3>1 DEF LedgerInv, OutputWaits
    <3> QED
      BY <1>0, <3>1, <3>2, RestLedger
  <2>5. CASE Rebuild
    <3>1. phase' = "idle" /\ output' = NoWorld /\ start' = db /\ UNCHANGED db
      BY <2>5 DEF Rebuild, ReturnToCaller, EmptyJournal
    <3>2. OutputWaits'
      BY <3>1 DEF OutputWaits
    <3> QED
      BY <1>0, <3>1, <3>2, RestLedger
  <2>6. CASE UNCHANGED vars
    BY <2>6 DEF vars, LedgerInv, SupplyConserved, OnlyCallerPays, MaySpend, BeforeFrame, HasCode,
                ValueAtStake, OutputWaits
  <2> QED
    BY <1>5, <2>1, <2>2, <2>3, <2>4, <2>5, <2>6
<1> QED
  BY <1>1, <1>2, <1>3, <1>4, <1>5 DEF Next, SessionStep

-----------------------------------------------------------------------------
(***************************************************************************)
(* The refinement, step by step.                                           *)
(***************************************************************************)
\* What the ledger sees of a world is a ledger, with the world's supply.
LEMMA MoneyType ==
  ASSUME NEW w \in World
  PROVE  /\ Money(w) \in Ledger!Ledger /\ Money(w) # NoWorld /\ w # NoWorld
         /\ Ledger!TotalSupply(Money(w)) = Supply(w)
         /\ Money(w).balance = w.balance /\ Money(w).nonce = w.nonce
         /\ Money(w).contracts = {a \in Addr : w.code[a] # "none"}
<1>1. w.balance \in [Addr -> Nat] /\ w.nonce \in [Addr -> Nat]
  BY DEF World
<1>2. /\ Money(w).balance = w.balance /\ Money(w).nonce = w.nonce
      /\ Money(w).contracts = {a \in Addr : w.code[a] # "none"}
  BY DEF Money
<1>3. Money(w) \in Ledger!Ledger
  BY <1>1 DEF Money, Ledger!Ledger
<1>4. Money(w) # NoWorld
  BY DEF Money, NoWorld
<1>5. w # NoWorld
  BY DEF World, NoWorld
<1>6. Ledger!TotalSupply(Money(w)) = Supply(w)
  BY <1>2 DEF Supply, Ledger!TotalSupply
<1> QED
  BY <1>2, <1>3, <1>4, <1>5, <1>6

\* What an L1 message is reimbursed is bounded by the gas it may name a price for.
LEMMA ReimbursedWithinLimit ==
  ASSUME IndInv, phase = "result", tx.l1msg
  PROVE  fees.reimbursed \in Reimbursements
<1>1. /\ TypeOK /\ tx \in Txs \cup SystemCalls /\ tx.gasLimit \in Nat /\ tx.maxFee \in Nat
      /\ GasPrice \in Nat /\ GasPrice <= tx.maxFee
  BY TxType, GasPriceRange DEF IndInv, TypeOK
<1>2. /\ gas.remaining \in Nat /\ gas.remaining <= tx.gasLimit
      /\ fees.reimbursed = GasPrice * gas.remaining
  BY DEF IndInv, TypeOK, GasInv, FeeInv, FeeConservation
<1> HIDE DEF GasPrice
<1>3. GasPrice * gas.remaining <= GasPrice * tx.gasLimit
  BY <1>1, <1>2, MulMonotone
<1>4. GasPrice * tx.gasLimit = tx.gasLimit * GasPrice
  BY <1>1, SMT
<1>5. tx.gasLimit * GasPrice <= tx.gasLimit * tx.maxFee
  BY <1>1, MulMonotone
<1> DEFINE n == GasPrice * gas.remaining
           k == tx.gasLimit * GasPrice
           m == tx.gasLimit * tx.maxFee
<1>6. n \in Nat /\ k \in Nat /\ m \in Nat
  BY <1>1, <1>2, MulNat
<1>7. n <= k /\ k <= m
  BY <1>3, <1>4, <1>5
<1>8. fees.reimbursed = n
  BY <1>2
<1> HIDE DEF n, k
<1>9. n \in 0 .. m
  <2> HIDE DEF m
  <2> QED
    BY <1>6, <1>7
<1> QED
  BY <1>1, <1>8, <1>9 DEF Reimbursements

\* A run that ends well has moved money as an inclusion may.
LEMMA RunIncluded ==
  ASSUME IndInv, LedgerInv, phase = "result"
  PROVE  Ledger!Included(Money(start), Money(state))
<1>1. start \in World /\ state \in World /\ tx.caller \in Addr
  BY TxType DEF IndInv, TypeOK
<1> DEFINE from == Money(start)
           to   == Money(state)
<1>2. /\ from.balance = start.balance /\ from.nonce = start.nonce
      /\ to.balance = state.balance /\ to.nonce = state.nonce
      /\ to.contracts = {a \in Addr : state.code[a] # "none"}
      /\ Ledger!TotalSupply(from) = Supply(start) /\ Ledger!TotalSupply(to) = Supply(state)
  BY <1>1, MoneyType
<1> HIDE DEF from, to
<1>3. Ledger!TotalSupply(to) - Ledger!TotalSupply(from) \in Reimbursements
  <2>1. Supply(state) = Supply(start) + IF tx.l1msg THEN fees.reimbursed ELSE 0
    BY DEF LedgerInv, SupplyConserved, Supply
  <2>2. Supply(start) \in Int /\ fees.reimbursed \in Nat
    BY <1>1, SupplyType DEF IndInv, TypeOK
  <2>3. CASE tx.l1msg
    <3>1. Supply(state) - Supply(start) = fees.reimbursed
      BY <2>1, <2>2, <2>3
    <3> QED
      BY <1>2, <2>3, <3>1, ReimbursedWithinLimit
  <2>4. CASE ~tx.l1msg
    <3>1. Supply(state) - Supply(start) = 0
      BY <2>1, <2>2, <2>4
    <3> QED
      BY <1>2, <3>1 DEF Reimbursements
  <2> QED
    BY <2>3, <2>4
<1>4. \A a \in Addr \ ({tx.caller} \cup to.contracts) : to.balance[a] >= from.balance[a]
  BY <1>2 DEF LedgerInv, OnlyCallerPays, MaySpend, HasCode
<1>5. \A a \in Addr : to.nonce[a] >= from.nonce[a]
  BY <1>2 DEF LedgerInv, OnlyCallerPays
<1>6. Ledger!MovesMoney(from, to)
  BY <1>1, <1>3, <1>4 DEF Ledger!MovesMoney
<1>7. Ledger!KeepsNonces(from, to)
  BY <1>5 DEF Ledger!KeepsNonces
<1> QED
  BY <1>6, <1>7 DEF Ledger!Included, from, to

\* A run that fails has moved none, and used up one nonce at most.
LEMMA RunRejected ==
  ASSUME TypeOK, NEW w \in Remains
  PROVE  w \in World /\ Ledger!Rejected(Money(start), Money(w))
<1>1. start \in World /\ tx.caller \in Addr /\ w \in World
  BY TxType, RemainsType DEF TypeOK
<1>2. CASE w = start
  BY <1>1, <1>2 DEF Ledger!Rejected
<1> DEFINE from == Money(start)
           to   == Money(w)
<1>3. /\ from.balance = start.balance /\ from.nonce = start.nonce
      /\ to.balance = w.balance /\ to.nonce = w.nonce
      /\ from.contracts = {a \in Addr : start.code[a] # "none"}
      /\ to.contracts = {a \in Addr : w.code[a] # "none"}
  BY <1>1, MoneyType
<1> HIDE DEF from, to
<1>4. \A a \in Addr : BumpNonce(start, a).nonce = [start.nonce EXCEPT ![a] = @ + 1]
  BY <1>1 DEF BumpNonce, World
<1>5. CASE w = BumpNonce(start, tx.caller)
  <2>1. w.balance = start.balance /\ w.code = start.code
    BY <1>1, <1>5, BumpNonceType
  <2>2. to.nonce = [from.nonce EXCEPT ![tx.caller] = @ + 1] /\ to.contracts = from.contracts
    BY <1>1, <1>3, <1>4, <1>5, <2>1
  <2>3. Ledger!Rejected(from, to)
    BY <1>1, <1>3, <2>1, <2>2 DEF Ledger!Rejected
  <2> QED
    BY <1>1, <2>3 DEF from, to
<1>6. CASE tx.auth # NoAddr /\ w = Delegated(start)
  <2>1. tx.auth \in Addr
    BY <1>6, TxType
  <2>2. w.balance = start.balance /\ w.code = [start.code EXCEPT ![tx.auth] = tx.delegate]
    BY <1>1, <1>6, DelegatedType
  <2>3. w.nonce = [start.nonce EXCEPT ![tx.auth] = @ + 1]
    BY <1>1, <1>6, <2>1 DEF Delegated, BumpNonce, World
  <2>4. to.contracts \in {from.contracts \cup {tx.auth}, from.contracts \ {tx.auth}}
    <3>1. start.code \in [Addr -> Codes]
      BY <1>1 DEF World
    <3>2. CASE tx.delegate = "none"
      <4>1. to.contracts = from.contracts \ {tx.auth}
        BY <1>3, <2>1, <2>2, <3>1, <3>2
      <4> QED
        BY <4>1
    <3>3. CASE tx.delegate # "none"
      <4>1. to.contracts = from.contracts \cup {tx.auth}
        BY <1>3, <2>1, <2>2, <3>1, <3>3
      <4> QED
        BY <4>1
    <3> QED
      BY <3>2, <3>3
  <2>5. Ledger!Rejected(from, to)
    BY <1>3, <2>1, <2>2, <2>3, <2>4 DEF Ledger!Rejected
  <2> QED
    BY <1>1, <2>5 DEF from, to
<1> QED
  BY <1>2, <1>5, <1>6 DEF Remains

\* A new EVM is a new ledger.
LEMMA InitMaps == Init => Ledger!Init
<1> SUFFICES ASSUME Init PROVE Ledger!Init
  OBVIOUS
<1>1. db \in World /\ start = db /\ output = NoWorld
  BY WorldAssumption DEF Init
<1>2. Money(db) \in Ledger!Ledger
  BY <1>1, MoneyType
<1> QED
  BY <1>1, <1>2 DEF Ledger!Init

\* A step that leaves database, start and output alone is invisible.
LEMMA Invisible ==
  ASSUME UNCHANGED <<db, start, output>>
  PROVE  UNCHANGED Ledger!vars
  BY DEF Ledger!vars, Money

\* Every step is a step of the ledger or invisible.
LEMMA NextMaps ==
  IndInv /\ IndInv' /\ LedgerInv /\ [Next]_vars => [Ledger!Next]_(Ledger!vars)
<1> SUFFICES ASSUME IndInv, IndInv', LedgerInv, [Next]_vars
             PROVE  Ledger!Next \/ UNCHANGED Ledger!vars
  OBVIOUS
<1>0. /\ db \in World /\ start \in World /\ state \in World
      /\ start' \in World
      /\ output \in World \cup {NoWorld} /\ phase = "idle" => state = start
      /\ phase # "idle" => output = NoWorld
      /\ output # NoWorld => loaded = {} /\ start = db
  BY DEF IndInv, TypeOK, UndoInv, LedgerInv, OutputWaits
<1>1. CASE HandlerStep /\ ~catch_error /\ ~(phase = "result" /\ outcome # "fatal")
  <2>1. RunsOn
    BY <1>1, HandlerRunsOn
  <2> QED
    BY <2>1, Invisible DEF RunsOn
<1>2. CASE catch_error
  <2>1. UNCHANGED <<db, output>> /\ output = NoWorld /\ start' \in Remains
    BY <1>0, <1>2 DEF catch_error, IndInv, UndoInv
  <2>2. Ledger!Rejected(Money(start), Money(start'))
    BY <2>1, RunRejected DEF IndInv
  <2>3. Money(start') \in Ledger!Ledger
    BY <1>0, MoneyType
  <2>4. Ledger!Reject
    BY <2>1, <2>2, <2>3 DEF Ledger!Reject
  <2> QED
    BY <2>4 DEF Ledger!Next
<1>3. CASE HandlerStep /\ ~catch_error /\ phase = "result" /\ outcome # "fatal"
  <2>1. execution_result
    BY <1>3, ResultStep
  <2>2. output = NoWorld /\ Ledger!Included(Money(start), Money(state))
    BY <1>0, <1>3, RunIncluded
  <2>3. Money(state) \in Ledger!Ledger
    BY <1>0, MoneyType
  <2>4. CASE mode # "replay"
    <3>1. start' = state /\ UNCHANGED <<db, output>>
      BY <1>3, <2>1, <2>4 DEF execution_result
    <3>2. Ledger!Include
      BY <2>2, <2>3, <3>1 DEF Ledger!Include
    <3> QED
      BY <3>2 DEF Ledger!Next
  <2>5. CASE mode = "replay"
    <3>1. output' = state /\ start' = db /\ UNCHANGED db /\ state # NoWorld
      BY <1>0, <1>3, <2>1, <2>5, MoneyType DEF execution_result, EmptyJournal
    <3>2. Ledger!Simulate
      BY <2>2, <2>3, <3>1 DEF Ledger!Simulate
    <3> QED
      BY <3>2 DEF Ledger!Next
  <2> QED
    BY <2>4, <2>5
<1>4. CASE transact_one \/ replay \/ inspect_one_tx \/ system_call_one_with_caller
  <2>1. UNCHANGED <<db, start, output>>
    BY <1>4 DEF transact_one, replay, inspect_one_tx, system_call_one_with_caller, StartRun
  <2> QED
    BY <2>1, Invisible
<1>5. CASE finalize
  <2>1. /\ output' = state /\ start' = db /\ UNCHANGED db
        /\ state = start /\ start # NoWorld /\ output = NoWorld
    BY <1>0, <1>5, MoneyType DEF finalize, EmptyJournal
  <2>2. Ledger!Finalize
    BY <2>1 DEF Ledger!Finalize
  <2> QED
    BY <2>2 DEF Ledger!Next
<1>6. CASE commit
  <2>1. output # NoWorld /\ output' = NoWorld /\ db' = output /\ start' = output
    BY <1>6 DEF commit, EmptyJournal
  <2>2. Money(output) # NoWorld
    BY <1>0, <2>1, MoneyType
  <2>3. Ledger!Commit
    BY <2>1, <2>2 DEF Ledger!Commit
  <2> QED
    BY <2>3 DEF Ledger!Next
<1>7. CASE DropOutput \/ Rebuild
  <2>1. output' = NoWorld /\ start' = db /\ UNCHANGED db
    BY <1>0, <1>7 DEF DropOutput, Rebuild, EmptyJournal
  <2>2. Ledger!Discard
    BY <2>1 DEF Ledger!Discard
  <2> QED
    BY <2>2 DEF Ledger!Next
<1>8. CASE SetContext \/ UNCHANGED vars
  <2>1. UNCHANGED <<db, start, output>>
    BY <1>8 DEF SetContext, vars
  <2> QED
    BY <2>1, Invisible
<1> QED
  BY <1>1, <1>2, <1>3, <1>4, <1>5, <1>6, <1>7, <1>8 DEF Next, SessionStep

-----------------------------------------------------------------------------
(***************************************************************************)
(* Theorems.                                                               *)
(***************************************************************************)
\* The inductive invariant holds of every behaviour.
THEOREM LedgerInvariance == Spec => []LedgerInv
<1>1. Init => LedgerInv
  BY InitLedger
<1>2. IndInv /\ IndInv' /\ LedgerInv /\ [Next]_vars => LedgerInv'
  BY NextLedger
<1> QED
  BY <1>1, <1>2, Invariance, PTL DEF Spec

\* No step creates or destroys money: balances and fee in flight add up to what
\* the transaction started from, and what it ends with is that, but for what an L1
\* message was reimbursed.
THEOREM SupplyCorrect == Spec => []SupplyConserved
<1>1. LedgerInv => SupplyConserved
  BY DEF LedgerInv
<1> QED
  BY <1>1, LedgerInvariance, PTL

\* At every point of a transaction only its caller, within the fee and the value,
\* and accounts with code may have paid, and no nonce was given back.
THEOREM CallerPays == Spec => []OnlyCallerPays
<1>1. LedgerInv => OnlyCallerPays
  BY DEF LedgerInv
<1> QED
  BY <1>1, LedgerInvariance, PTL

\* The handler and its session implement the ledger: a transaction is one step of
\* it, a failed one moves no money, and the database changes to finalized sessions
\* only.
THEOREM Refinement == Spec => ImplementsLedger
<1>1. Init => Ledger!Init
  BY InitMaps
<1>2. IndInv /\ IndInv' /\ LedgerInv /\ [Next]_vars => [Ledger!Next]_(Ledger!vars)
  BY NextMaps
<1>3. Spec => Ledger!Init /\ [][Ledger!Next]_(Ledger!vars)
  BY <1>1, <1>2, Invariance, LedgerInvariance, PTL DEF Spec
<1>4. ImplementsLedger <=> Ledger!Init /\ [][Ledger!Next]_(Ledger!vars)
  BY DEF ImplementsLedger, Ledger!Spec
<1> QED
  BY <1>3, <1>4
=============================================================================
