------------------------------ MODULE MCMarkov ------------------------------
(***************************************************************************)
(* Model-checking instance of Markov: a source in which a pair repeats     *)
(* with different successors, a word repeats, a word holds a newline (a    *)
(* tag over two lines) and words are shorter and longer than the buffers.  *)
(***************************************************************************)
EXTENDS Markov

MCBytes == {"x", "y", "nl"}
MCSource ==
  LET a == <<"x">>
      b == <<"y", "nl", "y">>
  IN <<a, b, a, b, b, a>>
MCLengths == {0, 1, 2, 5}
MCMaxGiven == 24
=============================================================================
