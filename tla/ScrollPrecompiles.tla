-------------------------- MODULE ScrollPrecompiles --------------------------
(***************************************************************************)
(* The precompiles of each fork and what they accept (src/src/precompile). *)
(*                                                                         *)
(* A set maps addresses to implementations.  Implementations are names;    *)
(* what they compute is the same function of the input in every fork that  *)
(* has it, so that the outcome of a call is whether it succeeds and the    *)
(* gas it takes.  An input is a sequence of bytes.                         *)
(***************************************************************************)
EXTENDS ScrollSpecId, SequencesExt

CONSTANTS
  Byte,                \* 2^8: the values of a byte are 0 .. Byte - 1
  Word,                \* 32: the bytes of a length in the header of MODEXP
  MODEXP_LEN_LIMIT,    \* 32: bound on the lengths up to Feynman
  OSAKA_LEN_LIMIT,     \* 1024: bound on the lengths since Galileo
  PAIR_ELEMENT_LEN     \* 192: the bytes of one pair

ASSUME ScaleAssumption ==
  /\ Byte \in Nat \ {0, 1} /\ Word \in Nat \ {0} /\ PAIR_ELEMENT_LEN \in Nat \ {0}
  /\ MODEXP_LEN_LIMIT \in Nat /\ OSAKA_LEN_LIMIT \in Nat
  /\ MODEXP_LEN_LIMIT <= OSAKA_LEN_LIMIT

\* The bound on the pairs of a pairing before Feynman.
PAIR_LEN_LIMIT == 4

-----------------------------------------------------------------------------
(***************************************************************************)
(* Addresses and sets.                                                     *)
(***************************************************************************)
ECRECOVER  == 1
SHA256     == 2
RIPEMD160  == 3
IDENTITY   == 4
MODEXP     == 5
BN_ADD     == 6
BN_MUL     == 7
BN_PAIR    == 8
BLAKE2F    == 9
P256VERIFY == 256

\* Precompiles::extend: the new implementations replace those at their addresses.
extend(set, new) ==
  [a \in DOMAIN set \cup DOMAIN new |-> IF a \in DOMAIN new THEN new[a] ELSE set[a]]

pre_bernoulli ==
  [a \in ECRECOVER .. BLAKE2F |->
     CASE a = ECRECOVER -> "ecrecover"
       [] a = IDENTITY  -> "identity"
       [] a = MODEXP    -> "modexp_bernoulli"
       [] a = BN_ADD    -> "bn_add"
       [] a = BN_MUL    -> "bn_mul"
       [] a = BN_PAIR   -> "pair_bernoulli"
       [] a \in {SHA256, RIPEMD160, BLAKE2F} -> "not_implemented"]

bernoulli == extend(pre_bernoulli, [a \in {SHA256} |-> "sha256"])

euclid == extend(bernoulli, [a \in {P256VERIFY} |-> "p256verify"])

\* Mutant: the set of the fork before the last one is extended.
feynman_of_bernoulli == extend(bernoulli, [a \in {BN_PAIR} |-> "pair_istanbul"])

feynman == extend(euclid, [a \in {BN_PAIR} |-> "pair_istanbul"])

galileo ==
  extend(feynman, [a \in {MODEXP, P256VERIFY} |->
                     IF a = MODEXP THEN "modexp_osaka" ELSE "p256verify_osaka"])

\* ScrollPrecompileProvider::new_with_spec, the set it selects.
precompiles_of(spec) ==
  CASE spec = SHANGHAI                   -> pre_bernoulli
    [] spec \in {BERNOULLI, CURIE, DARWIN} -> bernoulli
    [] spec = EUCLID                     -> euclid
    [] spec = FEYNMAN                    -> feynman
    [] spec = GALILEO                    -> galileo

-----------------------------------------------------------------------------
(***************************************************************************)
(* What an implementation accepts.                                         *)
(***************************************************************************)
\* The word at an offset, its missing bytes zero: right_pad_with_offset.
right_pad_with_offset(input, offset) ==
  [i \in 1 .. Word |-> IF offset + i <= Len(input) THEN input[offset + i] ELSE 0]

from_be_bytes(bytes) == FoldLeft(LAMBDA n, b : n * Byte + b, 0, bytes)

\* The lengths of base, exponent and modulus.
modexp_lens(input) ==
  {from_be_bytes(right_pad_with_offset(input, i * Word)) : i \in 0 .. 2}

\* Mutant: the bound is exclusive.
bernoulli_modexp_accepts_below(input) == \A l \in modexp_lens(input) : l < MODEXP_LEN_LIMIT

bernoulli_modexp_accepts(input) == \A l \in modexp_lens(input) : l <= MODEXP_LEN_LIMIT

osaka_modexp_accepts(input) == \A l \in modexp_lens(input) : l <= OSAKA_LEN_LIMIT

\* run_pair: whole pairs only.
pair_accepts(input) == Len(input) % PAIR_ELEMENT_LEN = 0

bernoulli_pair_accepts(input) ==
  Len(input) <= PAIR_LEN_LIMIT * PAIR_ELEMENT_LEN /\ pair_accepts(input)

accepts(impl, input) ==
  CASE impl = "not_implemented"  -> FALSE
    [] impl = "modexp_bernoulli" -> bernoulli_modexp_accepts(input)
    [] impl = "modexp_osaka"     -> osaka_modexp_accepts(input)
    [] impl = "pair_bernoulli"   -> bernoulli_pair_accepts(input)
    [] impl = "pair_istanbul"    -> pair_accepts(input)
    [] OTHER                     -> TRUE

(***************************************************************************)
(* The gas a call takes, as far as forks differ in it: the minimum of      *)
(* MODEXP, the pairs of a pairing, the price of P256VERIFY.                *)
(***************************************************************************)
pairs(input) == Len(input) \div PAIR_ELEMENT_LEN

gas_of(impl, input) ==
  CASE impl = "modexp_bernoulli" -> 200
    [] impl = "modexp_osaka"     -> 500
    [] impl \in {"pair_bernoulli", "pair_istanbul"} -> 45000 + 34000 * pairs(input)
    [] impl = "p256verify"       -> 3450
    [] impl = "p256verify_osaka" -> 6900
    [] OTHER                     -> 0

\* PrecompileProvider::run: no outcome for an address outside of the set, which
\* is then called as an ordinary account.
NoOutcome == [status |-> "account", gas |-> 0, pairs |-> 0]

run(set, address, input) ==
  IF address \notin DOMAIN set THEN NoOutcome
  ELSE IF ~accepts(set[address], input)
       THEN [NoOutcome EXCEPT !.status = "error"]
       ELSE [status |-> "ok", gas |-> gas_of(set[address], input),
             pairs  |-> IF address = BN_PAIR THEN pairs(input) ELSE 0]
=============================================================================
