----------------------------- MODULE MCSettings -----------------------------
(***************************************************************************)
(* Settings with numbers of base 3 and words of 4 bits: as in base 10 and  *)
(* 32 bits, the longest PIN may name a number that does not fit, and the   *)
(* largest word begins with a digit smaller than the largest.              *)
(***************************************************************************)
EXTENDS Settings

MCBase == 3
MCMaxWord == 15
MCMaxLen == 3

\* All texts of three characters, and some longer ones.
MCPinNumerals ==
  (UNION {[1..n -> 0..MCBase] : n \in 1..3}) \cup {<<0, 0, 1, 2>>, <<1, 0, 0, 0>>}

\* 0, 1, the largest index, the one above, the largest word, one and two that
\* saturate, one with a tail that agrees, a text, a padded 1.
MCKeyNumerals ==
  {<<0>>, <<1>>, <<2, 1>>, <<2, 2>>, <<1, 2, 0>>, <<1, 2, 1>>, <<2, 2, 0>>,
   <<1, 3>>, <<0, 0, 0, 1>>}

MCStack == {0, 1, 7, 8, 15}
=============================================================================
