---------------------------- MODULE ScrollSpecId ----------------------------
(***************************************************************************)
(* The hardforks of Scroll, in activation order (src/src/spec.rs).  A spec *)
(* is the discriminant of the enum; is_enabled_in compares discriminants.  *)
(***************************************************************************)
EXTENDS Integers

SHANGHAI  == 1
BERNOULLI == 2
CURIE     == 3
DARWIN    == 4
EUCLID    == 5
FEYNMAN   == 6
GALILEO   == 7

Specs == SHANGHAI .. GALILEO

\* is_enabled_in(our, other): the fork `other` is active when running `our`.
is_enabled_in(our, other) == our >= other

\* try_from_u8: the fork of a discriminant, if it is one.
try_from_u8(byte) == IF byte \in Specs THEN {byte} ELSE {}

\* into_eth_spec_id: to the instructions and checks of revm, every fork is Shanghai.
ETH_SHANGHAI == 16
into_eth_spec_id(spec) == ETH_SHANGHAI

\* ScrollSpecId::default().
DefaultSpec == EUCLID

\* The name of a fork; Ethereum's name for SHANGHAI is capitalized.
spec_name(spec) ==
  CASE spec = SHANGHAI  -> "Shanghai"
    [] spec = BERNOULLI -> "bernoulli"
    [] spec = CURIE     -> "curie"
    [] spec = DARWIN    -> "darwin"
    [] spec = EUCLID    -> "euclid"
    [] spec = FEYNMAN   -> "feynman"
    [] spec = GALILEO   -> "galileo"

\* Mutant: Shanghai is parsed by the lower case name the other forks have.
from_name_lowercase(name) ==
  CASE name = "shanghai"  -> SHANGHAI
    [] name = "bernoulli" -> BERNOULLI
    [] name = "curie"     -> CURIE
    [] name = "darwin"    -> DARWIN
    [] name = "feynman"   -> FEYNMAN
    [] name = "galileo"   -> GALILEO
    [] OTHER              -> DefaultSpec

\* From<&str>: any other name, also a name in the wrong case, is the default fork.
from_name(name) ==
  CASE name = "Shanghai"  -> SHANGHAI
    [] name = "bernoulli" -> BERNOULLI
    [] name = "curie"     -> CURIE
    [] name = "darwin"    -> DARWIN
    [] name = "euclid"    -> EUCLID
    [] name = "feynman"   -> FEYNMAN
    [] name = "galileo"   -> GALILEO
    [] OTHER              -> DefaultSpec
=============================================================================
