--------------------------- MODULE MCForkSession ---------------------------
(***************************************************************************)
(* Fork sessions at a small scale: bytes of four values, lengths of two    *)
(* bytes, pairs of two bytes.                                              *)
(***************************************************************************)
EXTENDS ForkSession

\* The names of the forks, and one in the wrong case.
MCNames == {spec_name(s) : s \in Specs} \cup {"shanghai"}

\* Lengths of base, exponent and modulus.
Header(b, e, m) == <<b \div Byte, b % Byte, e \div Byte, e % Byte, m \div Byte, m % Byte>>

\* Headers at, below and above both bounds in each place, and headers cut short
\* within a length.
Headers ==
  {Header(2, 2, 2), Header(3, 2, 2), Header(2, 3, 2), Header(2, 2, 3), Header(3, 3, 3),
   Header(4, 3, 3), Header(3, 4, 3), Header(3, 3, 4), <<1, 0>>, <<0, 2, 1>>, <<0>>, << >>}

Zeros(n) == [i \in 1 .. n |-> 0]

\* Every precompile whose rule changes with the fork, one that never changes, one
\* that is never implemented, and an ordinary account; for pairings, every count
\* of bytes up to more than four pairs.
MCCalls ==
  [a \in {SHA256, RIPEMD160, IDENTITY, MODEXP, BN_PAIR, P256VERIFY, 10} |->
     CASE a = MODEXP  -> Headers
       [] a = BN_PAIR -> {Zeros(n) : n \in {0, 1, 2, 6, 7, 8, 9, 10}}
       [] OTHER       -> {Zeros(1)}]
=============================================================================
