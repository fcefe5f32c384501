---------------------------- MODULE MCTokenizer ----------------------------
(***************************************************************************)
(* Model-checking instance of Tokenizer: every text of up to three bytes,  *)
(* and of four and five bytes those in which every "mid" and "trail" is    *)
(* behind a byte it can continue a space with, read in every way, through  *)
(* a buffer that holds three of them.                                      *)
(***************************************************************************)
EXTENDS Tokenizer

InRune(t) ==
  \A i \in 1 .. Len(t) :
    /\ t[i] = "mid" => i > 1 /\ t[i - 1] = "lead"
    /\ t[i] = "trail" => i > 1 /\ t[i - 1] \in {"lead", "mid"}

MCTexts ==
  BoundedSeq(Bytes, 3) \cup {t \in [1 .. 4 -> Bytes] \cup [1 .. 5 -> Bytes] : InRune(t)}
=============================================================================
