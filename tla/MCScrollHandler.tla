--------------------------- MODULE MCScrollHandler ---------------------------
(***************************************************************************)
(* Small instances of ScrollHandler: two senders, the beneficiary, the two *)
(* distinguished addresses and an address a creation may use.              *)
(***************************************************************************)
EXTENDS ScrollHandlerLedger

CONSTANTS alice, bob, sequencer, oracleAddr, sysAddr, fresh

MCAddr == {alice, bob, sequencer, oracleAddr, sysAddr, fresh}

(***************************************************************************)
(* Two states of the oracle: every fork's formula charges differently.     *)
(***************************************************************************)
OracleAt(baseFee) ==
  [s \in Slots |-> CASE s = L1_BASE_FEE_SLOT       -> baseFee
                     [] s = L1_SCALAR_SLOT         -> 0
                     [] s = L1_OVERHEAD_SLOT       -> 0
                     [] s = PENALTY_THRESHOLD_SLOT -> 0
                     [] OTHER                      -> 1]

MCOracleStates == {OracleAt(3)}

(***************************************************************************)
(* alice can pay for one transaction; with the larger balance also for the *)
(* value it carries once the rollup fee is paid.                           *)
(***************************************************************************)
WorldWith(aliceBalance, bobCode) ==
  [balance |-> [a \in MCAddr |-> CASE a = alice -> aliceBalance
                                   [] a = bob   -> 31
                                   [] OTHER     -> 0],
   nonce   |-> [a \in MCAddr |-> 0],
   code    |-> [a \in MCAddr |-> CASE a = bob        -> bobCode
                                   [] a = oracleAddr -> "contract"
                                   [] OTHER          -> "none"],
   oracle  |-> OracleAt(1)]

MCWorlds == {WorldWith(32, "none"), WorldWith(65, "contract")}

(***************************************************************************)
(* Transactions.                                                           *)
(***************************************************************************)
GoodPayload == [zeros |-> 1, nonzeros |-> 1, ratio |-> 2, csize |-> 1]
BarePayload == [zeros |-> 1, nonzeros |-> 1, ratio |-> None, csize |-> None]

Call == [l1msg |-> FALSE, caller |-> alice, to |-> bob, create |-> FALSE, value |-> 1,
         nonce |-> 0, gasLimit |-> 10, initGas |-> 2, floorGas |-> 7, maxFee |-> 3,
         tip |-> None, auth |-> NoAddr, delegate |-> "delegation", authRefund |-> 0,
         rlp |-> TRUE, payload |-> GoodPayload]

OracleCall == [Call EXCEPT !.to = oracleAddr, !.value = 0, !.tip = 1]
Create     == [Call EXCEPT !.create = TRUE, !.to = fresh]
SetCode    == [Call EXCEPT !.auth = bob, !.authRefund = 1]
\* The intrinsic gas of an authorization may exceed the calldata floor.
SetOwnCode == [Call EXCEPT !.auth = alice, !.authRefund = 2, !.value = 0,
                           !.initGas = 10, !.floorGas = 9]
\* The authorization and the transaction have each used up a nonce of alice.
ClearCode  == [SetOwnCode EXCEPT !.delegate = "none", !.nonce = 2]
NoRlp      == [Call EXCEPT !.rlp = FALSE]
NoMetadata == [Call EXCEPT !.payload = BarePayload]
L1Message  == [Call EXCEPT !.l1msg = TRUE, !.maxFee = 0, !.rlp = FALSE, !.nonce = 5,
                           !.payload = BarePayload, !.value = 33]
\* Nothing stops an L1 message from naming a gas price.
PricedMessage == [L1Message EXCEPT !.maxFee = 1, !.value = 1]
L1Create   == [L1Message EXCEPT !.create = TRUE, !.to = fresh]
FromCode   == [L1Message EXCEPT !.caller = bob, !.to = alice, !.value = 1]
LowGas     == [Call EXCEPT !.gasLimit = 6]
LowGasMessage == [L1Message EXCEPT !.gasLimit = 6]
SystemTx   == [Call EXCEPT !.caller = sysAddr, !.maxFee = 0, !.rlp = FALSE, !.value = 0,
                           !.payload = BarePayload]
Default    == [Call EXCEPT !.caller = fresh, !.to = fresh, !.maxFee = 0, !.rlp = FALSE,
                           !.value = 0, !.payload = BarePayload]
Second(t)  == [t EXCEPT !.nonce = 1]

\* The caller of a system call is a parameter: replaying the call later as a
\* transaction goes through validation.
MCSystemCalls ==
  {[SystemTx EXCEPT !.to = oracleAddr], [SystemTx EXCEPT !.to = oracleAddr, !.caller = fresh]}

MCTxs == {Call, Second(Call), OracleCall, Create, SetCode, SetOwnCode, ClearCode, NoRlp,
          NoMetadata, LowGas, L1Message, L1Create, PricedMessage, FromCode, LowGasMessage,
          SystemTx, Default}

\* Those that move money in different ways, and those that take different ways to
\* the end of a run.
MCLedgerTxs   == {Call, OracleCall, Create, SetOwnCode, ClearCode, L1Message, L1Create,
                  PricedMessage, Default}
MCLivenessTxs == {Call, SetCode, NoMetadata, L1Message, Default}

\* What is also run with an inspector attached: a paying call and a
\* creation by an L1 message.
MCInspectedTxs == {Call, L1Create}

(***************************************************************************)
(* What code may do: bob's pays a sender back, alice's (a delegation) pays *)
(* somebody else; bob's creates an account.                                *)
(***************************************************************************)
MCPayments == {[from |-> bob, to |-> alice, amount |-> 2],
               [from |-> alice, to |-> oracleAddr, amount |-> 1]}
MCCreations == {[from |-> bob, new |-> fresh]}

(***************************************************************************)
(* Contexts.                                                               *)
(***************************************************************************)
MCBlocks == {[basefee |-> 0, beneficiary |-> sequencer], [basefee |-> 1, beneficiary |-> alice]}

CfgOf(spec, eip3607Disabled) ==
  [spec |-> spec, eip7702 |-> spec >= EUCLID, eip7623 |-> spec >= FEYNMAN,
   eip3607Disabled |-> eip3607Disabled]

\* The fork advances under a living EVM; the middle one without EIP-3607.
MCCfgs == {CfgOf(DARWIN, FALSE), CfgOf(EUCLID, TRUE), CfgOf(GALILEO, FALSE)}

\* One block for the full set of transactions; the smaller sets have both.
MCCoreBlocks == {[basefee |-> 0, beneficiary |-> sequencer]}

MCLedgerCfgs == {CfgOf(FEYNMAN, FALSE)}
=============================================================================
