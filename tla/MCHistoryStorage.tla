-------------------------- MODULE MCHistoryStorage --------------------------
(***************************************************************************)
(* A ring of four slots over a look-back of three blocks, for as many      *)
(* blocks as it takes to go round the ring twice after any activation.     *)
(***************************************************************************)
EXTENDS HistoryStorage

\* Feynman from the first block on, in its middle, and late.
MCFeynmanBlocks == {1, 2, 4, 6}
=============================================================================
