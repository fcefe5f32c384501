---------------------------- MODULE MarkovStream ----------------------------
(***************************************************************************)
(* What a heffalump Reader promises: an endless text made of whole lines,  *)
(* each a word that may follow the two words before it, or a bare newline  *)
(* after which the chain starts over.  No buffer, no chunk, no remainder.  *)
(***************************************************************************)
EXTENDS MarkovChain

VARIABLES
  text,    (* everything generated so far *)
  c1, c2   (* the last two words of the chain *)

streamVars == <<text, c1, c2>>

Init == text = <<>> /\ c1 = Empty /\ c2 = Empty

(* The next word is one the source allows after c1, c2. *)
Continue ==
  \E w \in Vocabulary \ {Empty} :
    /\ Follows(c1, c2, w)
    /\ text' = text \o Line(w)
    /\ c1' = c2
    /\ c2' = w

(* No word follows c1, c2: an empty line, and the chain starts over. *)
Restart ==
  /\ ~ \E w \in Vocabulary \ {Empty} : Follows(c1, c2, w)
  /\ text' = text \o Line(Empty)
  /\ c1' = Empty
  /\ c2' = Empty

Next == Continue \/ Restart

Spec == Init /\ [][Next]_streamVars
=============================================================================
