---------------------------- MODULE MCRollupFee ----------------------------
(***************************************************************************)
(* Small instances of RollupFee.                                           *)
(***************************************************************************)
EXTENDS RollupFee

\* Zero, a small value whose products stay below U256Max, and one whose products
\* saturate (its square is a multiple of U256Max + 1: it would wrap to zero).
MCOracleValues == {0, 3, 96}

\* One fork of each pricing formula.
MCForks == {DARWIN, FEYNMAN, GALILEO, SHANGHAI}

MCPayloads ==
  {[zeros |-> 0, nonzeros |-> 0, ratio |-> 2, csize |-> 0],
   [zeros |-> 1, nonzeros |-> 1, ratio |-> 2, csize |-> 1],
   [zeros |-> 1, nonzeros |-> 2, ratio |-> 2, csize |-> 3],
   [zeros |-> 0, nonzeros |-> 3, ratio |-> 200, csize |-> 2],
   [zeros |-> 0, nonzeros |-> 1, ratio |-> None, csize |-> None],
   [zeros |-> 0, nonzeros |-> 1, ratio |-> 1, csize |-> 2]}
=============================================================================
