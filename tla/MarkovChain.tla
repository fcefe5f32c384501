---------------------------- MODULE MarkovChain ----------------------------
(***************************************************************************)
(* The constant part of internal/heffalump/markov.go: what a word is, what *)
(* the source text is once ScanHTML has split it, and which word the code  *)
(* lets follow which pair of words.                                        *)
(*                                                                         *)
(* A Go string is a sequence of bytes, the empty string is the empty       *)
(* sequence.  Source is the sequence of tokens bufio.Scanner returns; a    *)
(* token is never empty (ScanHTML returns data[start:i] with i > start).   *)
(* A token may contain a newline: a tag is one token whatever it spans.    *)
(***************************************************************************)
EXTENDS Integers, Sequences

CONSTANTS
  Bytes,    (* the bytes a token is made of *)
  Newline,  (* the byte Reader.Read puts after each word *)
  Source    (* the tokens of the source text, in order *)

Empty == <<>>
Strings == Seq(Bytes)

ASSUME ChainAssumption ==
  /\ Newline \in Bytes
  /\ Source \in Seq(Strings)
  /\ \A i \in 1 .. Len(Source) : Source[i] # Empty

(* The i-th token; before the first token Fill's w1 and w2 are "". *)
Word(i) == IF i \in 1 .. Len(Source) THEN Source[i] ELSE Empty

(* Fill adds the i-th token under the two tokens before it ...             *)
FollowsAt(i, a, b, w) == a = Word(i - 2) /\ b = Word(i - 1) /\ w = Word(i)

(* ... and, after the loop, w3 once more under the last two tokens: w1 and *)
(* w2 have moved on by then, so the last token follows itself (and "" the  *)
(* pair of empty strings when the source has no token at all).             *)
FollowsAtTail(a, b, w) ==
  /\ a = Word(Len(Source) - 1)
  /\ b = Word(Len(Source))
  /\ w = Word(Len(Source))

Follows(a, b, w) ==
  \/ \E i \in 1 .. Len(Source) : FollowsAt(i, a, b, w)
  \/ FollowsAtTail(a, b, w)

Vocabulary == {Word(i) : i \in 0 .. Len(Source)}

(* What Read streams for one word: the word and a newline.  The word ""    *)
(* (no successor) gives a bare newline.                                    *)
Line(w) == Append(w, Newline)
=============================================================================
