------------------------ MODULE MCScrollInstructions ------------------------
(***************************************************************************)
(* Frames over words of three bits and memory words of two bytes.          *)
(***************************************************************************)
EXTENDS ScrollInstructions

\* Offsets and lengths at and next to the bounds of a memory word, and one that no
\* usize holds.
MCValues == {0, 1, 2, 3, 7}

\* Every stack that an instruction could find, over a memory of no, one or two
\* words, with gas for nothing, for a little and for every instruction.
MCFrames ==
  [stack  : UNION {[1 .. n -> MCValues] : n \in 0 .. 3},
   memory : {<< >>, <<8, 9>>, <<6, 7, 8, 9>>},
   gas    : {8, 13, 205},
   is_static : BOOLEAN,
   result : {"none"}]
=============================================================================
