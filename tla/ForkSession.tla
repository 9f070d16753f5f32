---------------------------- MODULE ForkSession ----------------------------
(***************************************************************************)
(* A context and the EVMs built over it, across fork changes: the builder  *)
(* (src/src/builder.rs), ScrollEvm (src/src/evm.rs), the precompile        *)
(* provider (src/src/precompile/mod.rs) and what a transaction and a       *)
(* system call do to them before their first frame runs.                   *)
(*                                                                         *)
(* The journal belongs to the context: it survives the EVM, and with it    *)
(* the precompile addresses that are warm in every transaction.            *)
(***************************************************************************)
EXTENDS ScrollPrecompiles

CONSTANTS
  Names,       \* the names a fork is configured by
  Calls        \* the inputs each address is called with

VARIABLES
  cfg,         \* context: the fork and the switches of two EIPs
  warm,        \* context: the precompile addresses of the journal
  provider,    \* EVM: the precompile provider
  phase,       \* "context" without an EVM, "idle", "execution"
  mode,        \* how the execution was started
  named,       \* history: the name the fork was last configured by
  lowered,     \* history: the switches not computed since the fork was last lowered
  synced,      \* history: the fork the provider was last made for
  warmed,      \* history: the fork whose precompiles were last warmed
  replaced,    \* history: a provider came to a journal warmed for another fork
  call         \* history: the last call to a precompile address

\* An input is a sequence of bytes.
ASSUME CallsAssumption == \A a \in DOMAIN Calls : Calls[a] \subseteq Seq(0 .. Byte - 1)

vars == <<cfg, warm, provider, phase, mode, named, lowered, synced, warmed, replaced, call>>

Switches == {"eip7702", "eip7623"}

new_with_spec(spec) == [spec |-> spec, precompiles |-> precompiles_of(spec)]

\* The provider a new context is without.
NoProvider == [spec |-> DefaultSpec, precompiles |-> << >>]

NoCall == [mode |-> "none"]

-----------------------------------------------------------------------------
(***************************************************************************)
(* The context.                                                            *)
(***************************************************************************)
\* Mutant: the switch of EIP-7702 goes on a fork too early.
eip7702_early(spec) == is_enabled_in(spec, DARWIN)

eip7702(spec) == is_enabled_in(spec, EUCLID)
eip7623(spec) == is_enabled_in(spec, FEYNMAN)

\* DefaultScrollContext::scroll.
Init ==
  /\ cfg = [spec |-> DefaultSpec, eip7702 |-> eip7702(DefaultSpec), eip7623 |-> eip7623(DefaultSpec)]
  /\ warm = {} /\ provider = NoProvider
  /\ phase = "context" /\ mode = "none"
  /\ named = spec_name(DefaultSpec) /\ lowered = {} /\ synced = DefaultSpec
  /\ warmed = DefaultSpec /\ replaced = FALSE /\ call = NoCall

\* The fork is configured by name, before the EVM is built or under a living one.
\* The switches keep their values.
modify_cfg ==
  /\ phase \in {"context", "idle"}
  /\ \E n \in Names :
       /\ cfg' = [cfg EXCEPT !.spec = from_name(n)]
       /\ named' = n
       /\ lowered' = IF from_name(n) < cfg.spec THEN Switches ELSE lowered
  /\ UNCHANGED <<warm, provider, phase, mode, synced, warmed, replaced, call>>

maybe_with_eip_7702 ==
  /\ phase = "context"
  /\ cfg' = [cfg EXCEPT !.eip7702 = eip7702(cfg.spec)]
  /\ lowered' = lowered \ {"eip7702"}
  /\ UNCHANGED <<warm, provider, phase, mode, named, synced, warmed, replaced, call>>

maybe_with_eip_7623 ==
  /\ phase = "context"
  /\ cfg' = [cfg EXCEPT !.eip7623 = eip7623(cfg.spec)]
  /\ lowered' = lowered \ {"eip7623"}
  /\ UNCHANGED <<warm, provider, phase, mode, named, synced, warmed, replaced, call>>

-----------------------------------------------------------------------------
(***************************************************************************)
(* The EVM.                                                                *)
(***************************************************************************)
Provide(spec) ==
  /\ provider' = new_with_spec(spec)
  /\ synced' = spec
  /\ replaced' = (warm # {} /\ spec # warmed)

\* ScrollEvm::new, for build_scroll and build_scroll_with_inspector.
build_scroll ==
  /\ phase = "context"
  /\ Provide(cfg.spec)
  /\ phase' = "idle"
  /\ UNCHANGED <<cfg, warm, mode, named, lowered, warmed, call>>

\* The caller takes the context back; EVM and provider are dropped.
TakeContext ==
  /\ phase = "idle"
  /\ phase' = "context"
  /\ provider' = NoProvider /\ synced' = DefaultSpec
  /\ UNCHANGED <<cfg, warm, mode, named, lowered, warmed, replaced, call>>

with_precompiles ==
  /\ phase = "idle"
  /\ \E s \in Specs : Provide(s)
  /\ UNCHANGED <<cfg, warm, phase, mode, named, lowered, warmed, call>>

-----------------------------------------------------------------------------
(***************************************************************************)
(* Executions.                                                             *)
(***************************************************************************)
\* Mutant: the new set is installed, but reported as unchanged.
set_spec_silent(spec) == [changed |-> FALSE, provider |-> new_with_spec(spec)]

\* Mutant: the provider takes the fork and keeps its set.
set_spec_label(spec) ==
  [changed |-> spec # provider.spec, provider |-> [provider EXCEPT !.spec = spec]]

\* PrecompileProvider::set_spec: whether the set was replaced, and the provider.
set_spec(spec) ==
  IF spec = provider.spec THEN [changed |-> FALSE, provider |-> provider]
  ELSE [changed |-> TRUE, provider |-> new_with_spec(spec)]

\* PrecompileProvider::warm_addresses.
warm_addresses(p) == DOMAIN p.precompiles

\* A transaction reaches its first frame: load_accounts has set the fork, and has
\* warmed the precompiles if the set changed or none was warm.
StartTransaction ==
  /\ phase = "idle"
  /\ LET set == set_spec(cfg.spec)
     IN  /\ provider' = set.provider
         /\ IF set.changed \/ warm = {}
            THEN warm' = warm_addresses(set.provider) /\ warmed' = cfg.spec
            ELSE UNCHANGED <<warm, warmed>>
         /\ replaced' = (replaced /\ ~set.changed)
  /\ synced' = cfg.spec
  /\ phase' = "execution" /\ mode' = "transaction" /\ call' = NoCall
  /\ UNCHANGED <<cfg, named, lowered>>

\* A system call executes at once.
system_call_one_with_caller ==
  /\ phase = "idle"
  /\ phase' = "execution" /\ mode' = "system" /\ call' = NoCall
  /\ UNCHANGED <<cfg, warm, provider, named, lowered, synced, warmed, replaced>>

\* A frame calls an address.  One call of an execution is looked at: nothing it
\* depends on changes before the execution ends.
Call ==
  /\ phase = "execution" /\ call = NoCall
  /\ \E a \in DOMAIN Calls : \E input \in Calls[a] :
       call' = [mode |-> mode, address |-> a, input |-> input,
                outcome |-> run(provider.precompiles, a, input)]
  /\ UNCHANGED <<cfg, warm, provider, phase, mode, named, lowered, synced, warmed, replaced>>

\* The execution ends.  The journal keeps the warm precompiles, also when it is
\* finalized.
EndExecution ==
  /\ phase = "execution"
  /\ phase' = "idle" /\ mode' = "none" /\ call' = NoCall
  /\ UNCHANGED <<cfg, warm, provider, named, lowered, synced, warmed, replaced>>

Next ==
  \/ modify_cfg \/ maybe_with_eip_7702 \/ maybe_with_eip_7623
  \/ build_scroll \/ TakeContext \/ with_precompiles
  \/ StartTransaction \/ system_call_one_with_caller \/ Call \/ EndExecution

Spec == Init /\ [][Next]_vars

-----------------------------------------------------------------------------
(***************************************************************************)
(* Properties.                                                             *)
(***************************************************************************)
\* The shape of the state.
TypeOK ==
  /\ cfg \in [spec : Specs, eip7702 : BOOLEAN, eip7623 : BOOLEAN]
  /\ provider \in {new_with_spec(s) : s \in Specs} \cup {NoProvider}
  /\ warm \subseteq ECRECOVER .. BLAKE2F \cup {P256VERIFY}
  /\ phase \in {"context", "idle", "execution"} /\ mode \in {"none", "transaction", "system"}
  /\ phase = "execution" <=> mode # "none"
  /\ named \in Names \cup {spec_name(DefaultSpec)}
  /\ lowered \subseteq Switches /\ synced \in Specs /\ warmed \in Specs /\ replaced \in BOOLEAN

(***************************************************************************)
(* What a call to a precompile must come to under a fork, stated rule by   *)
(* rule instead of set by set.                                             *)
(***************************************************************************)
ImplementedIn(spec, address) ==
  /\ address \notin {RIPEMD160, BLAKE2F}
  /\ address = SHA256 => spec >= BERNOULLI

IsPrecompileIn(spec, address) ==
  address \in ECRECOVER .. BLAKE2F \/ (address = P256VERIFY /\ spec >= EUCLID)

\* What a byte counts for at its place in a length, most significant byte first.
place[k \in 1 .. Word] == IF k = Word THEN 1 ELSE Byte * place[k + 1]

\* The i-th length of MODEXP; the header goes on with zeros where the input ends.
LengthAt(input, i) ==
  LET byte(k) == IF k <= Len(input) THEN input[k] ELSE 0
  IN  SumFunction([k \in 1 .. Word |-> byte(i * Word + k) * place[k]])

AcceptedIn(spec, address, input) ==
  CASE address = MODEXP  -> \A i \in 0 .. 2 : LengthAt(input, i) <=
                              IF spec >= GALILEO THEN OSAKA_LEN_LIMIT ELSE MODEXP_LEN_LIMIT
    [] address = BN_PAIR -> \E n \in 0 .. IF spec >= FEYNMAN THEN Len(input) ELSE 4 :
                              Len(input) = n * PAIR_ELEMENT_LEN
    [] OTHER             -> TRUE

StatusIn(spec, address, input) ==
  IF ~IsPrecompileIn(spec, address) THEN "account"
  ELSE IF ImplementedIn(spec, address) /\ AcceptedIn(spec, address, input) THEN "ok" ELSE "error"

\* A transaction's call to a precompile comes to what the configured fork says,
\* however the fork was changed and the EVM rebuilt before.  A system call skips
\* load_accounts: it runs by the fork of the last transaction, or of the EVM's
\* construction.
CallsFollowFork ==
  call # NoCall =>
    call.outcome.status =
      StatusIn(IF call.mode = "transaction" THEN cfg.spec ELSE synced, call.address, call.input)

\* A fork never takes away what an earlier one offers, and never makes it
\* cheaper: extending the sets only widens what they accept.
UpgradesOnlyWiden ==
  call # NoCall /\ call.outcome.status = "ok" =>
    \A later \in synced .. GALILEO :
      LET then == run(precompiles_of(later), call.address, call.input)
      IN  then.status = "ok" /\ then.gas >= call.outcome.gas

\* The addresses a transaction finds warm are the precompiles it runs with, also
\* over a journal that earlier EVMs have warmed, unless a provider made for another
\* fork than the journal was last warmed for has come since and the configured fork
\* is its own: set_spec then reports no change, and the addresses stay (set_spec,
\* with_precompiles, build_scroll).
WarmFollowsSet ==
  mode = "transaction" /\ ~replaced => warm = warm_addresses(provider)

\* A switch may lag behind an upgrade of its context, it never runs ahead of one:
\* whatever forks the context is raised through, and whenever its switches are
\* computed on the way, none is on in a transaction under a fork without its EIP.
\* Lowering the fork leaves a switch behind until it is computed again.
SwitchesNeverEarly ==
  mode = "transaction" =>
    /\ cfg.eip7702 /\ "eip7702" \notin lowered => cfg.spec >= EUCLID
    /\ cfg.eip7623 /\ "eip7623" \notin lowered => cfg.spec >= FEYNMAN

\* The fork in force is the one that was asked for by name; every name the parser
\* does not know, one in the wrong case included, is taken for the default fork
\* without an error.
NameIsHonoured ==
  \/ spec_name(cfg.spec) = named
  \/ named \notin {spec_name(s) : s \in Specs} /\ cfg.spec = DefaultSpec

-----------------------------------------------------------------------------
(***************************************************************************)
(* The inductive invariant.                                                *)
(***************************************************************************)
\* An EVM has a provider whose set is that of its fork; a transaction's is the
\* configured one.
ProviderInv ==
  /\ phase = "execution" <=> mode # "none"
  /\ phase # "context" => provider = new_with_spec(synced)
  /\ mode = "transaction" => synced = cfg.spec

\* What is warm is the set of the fork it was last warmed for; unless the provider
\* came with another, it is the provider's.
WarmInv ==
  /\ warm \in {{}, DOMAIN precompiles_of(warmed)}
  /\ phase # "context" /\ ~replaced => warm \in {{}, warm_addresses(provider)}
  /\ WarmFollowsSet

\* The last call ran by the set of the fork its execution is bound to.
CallInv ==
  \/ call = NoCall
  \/ /\ phase = "execution" /\ call.mode = mode
     /\ call.address \in DOMAIN Calls /\ call.input \in Calls[call.address]
     /\ call.outcome = run(precompiles_of(synced), call.address, call.input)

\* A switch that is on was computed for this fork or an earlier one.
SwitchInv ==
  /\ cfg.eip7702 /\ "eip7702" \notin lowered => eip7702(cfg.spec)
  /\ cfg.eip7623 /\ "eip7623" \notin lowered => eip7623(cfg.spec)

IndInv == TypeOK /\ ProviderInv /\ WarmInv /\ CallInv /\ SwitchInv /\ NameIsHonoured

-----------------------------------------------------------------------------
(***************************************************************************)
(* What a comment of the source says and the code does not do.             *)
(***************************************************************************)
\* src/src/precompile/bn254.rs:14, "If the inputs provided to the precompile call
\* are < 4, we append (G1::infinity, G2::generator)": a pairing that is accepted
\* before Feynman is over four pairs.
PairingIsPadded ==
  /\ call # NoCall /\ synced < FEYNMAN
  /\ call.address = BN_PAIR /\ call.outcome.status = "ok"
  => call.outcome.pairs = PAIR_LEN_LIMIT
=============================================================================
