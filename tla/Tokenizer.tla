----------------------------- MODULE Tokenizer -----------------------------
(***************************************************************************)
(* ScanHTML (internal/heffalump/markov.go) under the bufio.Scanner that    *)
(* Fill drives: the scanner hands it a window of the text that ends        *)
(* wherever a Read happened to end, and asks again with a longer one when  *)
(* there is no token in it.                                                *)
(*                                                                         *)
(* A text is a sequence of bytes of seven kinds: "space" (any space of one *)
(* byte); "lead", "mid" and "trail", of which "lead" and "trail" are a     *)
(* space of two bytes, such as U+00A0, and all three one of three bytes,   *)
(* such as U+2028, but no other sequence of them is a space; "<"; ">"; and *)
(* "x" (all others).                                                       *)
(***************************************************************************)
EXTENDS Integers, SequencesExt

CONSTANTS
  Texts,    (* the texts Fill may be given *)
  MaxToken  (* the scanner's limit for a window, 64 KiB: room for a space *)

Bytes == {"space", "lead", "mid", "trail", "<", ">", "x"}

ASSUME TokenizerAssumption ==
  /\ \A t \in Texts : t \in Seq(Bytes)
  /\ MaxToken \in Nat \ 0 .. 2

VARIABLES
  text,    (* what the Reader given to Fill contains *)
  read,    (* the number of bytes read of it *)
  start,   (* the number of bytes ScanHTML has advanced over *)
  eof,     (* Read has returned io.EOF *)
  pc,      (* "read", "split", or how Fill's loop has ended *)
  tokens   (* what s.Text() has returned *)

vars == <<text, read, start, eof, pc, tokens>>

Init ==
  /\ text \in Texts
  /\ read = 0
  /\ start = 0
  /\ eof = FALSE
  /\ pc = "read"
  /\ tokens = <<>>

Window == SubSeq(text, start + 1, read)

-----------------------------------------------------------------------------
(* A rune of two or three bytes, from a to b, that unicode.IsSpace holds of *)
LongSpace(data, a, b) ==
  /\ 1 <= a /\ b <= Len(data)
  /\ data[a] = "lead" /\ data[b] = "trail"
  /\ b = a + 1 \/ (b = a + 2 /\ data[a + 1] = "mid")

(* The bytes of data that are in a space.                                  *)
SpaceBytes(data) ==
  {i \in 1 .. Len(data) :
     \/ data[i] = "space"
     \/ \E a \in i - 2 .. i, b \in i .. i + 2 : LongSpace(data, a, b)}

Token(advance, token) == [advance |-> advance, token |-> token, found |-> TRUE]
NoToken(advance) == [advance |-> advance, token |-> <<>>, found |-> FALSE]

(* Where the text proper begins: the place after the leading spaces. *)
FirstText(data) == Min((1 .. Len(data) + 1) \ SpaceBytes(data))

IsTag(data) == FirstText(data) <= Len(data) /\ data[FirstText(data)] = "<"

(* Mutant: a tag is a word like any other. *)
EndsLikeWord(data) ==
  {i \in FirstText(data) .. Len(data) : i \in SpaceBytes(data) \/ data[i] = "<"}

(* The places that end the token: the bracket of a tag, or what a word     *)
(* stops before.                                                           *)
Ends(data) ==
  {i \in FirstText(data) .. Len(data) :
     IF IsTag(data) THEN data[i] = ">" ELSE i \in SpaceBytes(data) \/ data[i] = "<"}

(* i + width: the last byte of the space that begins at i. *)
SpaceEnd(data, i) ==
  IF data[i] # "lead" THEN i ELSE IF data[i + 1] = "mid" THEN i + 2 ELSE i + 1

(* A word skips the rune it stops at when that is a space. *)
EndedToken(data, i) ==
  IF data[i] = ">" /\ IsTag(data)
  THEN Token(i, SubSeq(data, FirstText(data), i))
  ELSE Token(IF data[i] = "<" THEN i - 1 ELSE SpaceEnd(data, i),
             SubSeq(data, FirstText(data), i - 1))

(* Mutant: what there is of a word at the end of the window is a token. *)
ScanHTMLNeverAsks(data, atEOF) ==
  IF Ends(data) # {} THEN EndedToken(data, Min(Ends(data)))
  ELSE IF FirstText(data) <= Len(data)
  THEN Token(Len(data), SubSeq(data, FirstText(data), Len(data)))
  ELSE NoToken(FirstText(data) - 1)

(* Mutant: it asks for more data without giving up the spaces. *)
ScanHTMLKeepsSpaces(data, atEOF) ==
  IF Ends(data) # {} THEN EndedToken(data, Min(Ends(data)))
  ELSE IF atEOF /\ FirstText(data) <= Len(data)
  THEN Token(Len(data), SubSeq(data, FirstText(data), Len(data)))
  ELSE NoToken(0)

(* Mutant: len(data) > start is forgotten. *)
ScanHTMLEmptyAtEnd(data, atEOF) ==
  IF Ends(data) # {} THEN EndedToken(data, Min(Ends(data)))
  ELSE IF atEOF
  THEN Token(Len(data), SubSeq(data, FirstText(data), Len(data)))
  ELSE NoToken(FirstText(data) - 1)

ScanHTML(data, atEOF) ==
  IF Ends(data) # {} THEN EndedToken(data, Min(Ends(data)))
  ELSE IF atEOF /\ FirstText(data) <= Len(data)
  THEN Token(Len(data), SubSeq(data, FirstText(data), Len(data)))
  ELSE NoToken(FirstText(data) - 1)

-----------------------------------------------------------------------------
(* Bound: no text has more tokens than bytes. *)
TokensLeft == Len(tokens) <= Len(text)

(* One call of ScanHTML: s.Scan() returns its token, or goes on to read,   *)
(* or has nothing more to read and ends Fill's loop.                       *)
Split ==
  /\ pc = "split"
  /\ TokensLeft
  /\ LET r == ScanHTML(Window, eof) IN
       /\ start' = start + r.advance
       /\ tokens' = IF r.found THEN Append(tokens, r.token) ELSE tokens
       /\ pc' = IF r.found THEN "split" ELSE IF eof THEN "ended" ELSE "read"
  /\ UNCHANGED <<text, read, eof>>

(* The scanner's buffer has room: Read returns some bytes, and io.EOF with *)
(* the last of them or after.                                              *)
Read ==
  /\ pc = "read"
  /\ \E n \in 0 .. MaxToken - Len(Window) :
       /\ Len(Window) < MaxToken
       /\ read + n <= Len(text)
       /\ read' = read + n
       /\ eof' \in {FALSE, read + n = Len(text)}
       /\ n > 0 \/ eof'
  /\ pc' = "split"
  /\ UNCHANGED <<text, start, tokens>>

(* A full buffer without a token: ErrTooLong.  Fill does not look at       *)
(* s.Err(); for it the text is over.                                       *)
GiveUp ==
  /\ pc = "read"
  /\ Len(Window) >= MaxToken
  /\ pc' = "errTooLong"
  /\ UNCHANGED <<text, read, start, eof, tokens>>

Next == Split \/ Read \/ GiveUp

Spec == Init /\ [][Next]_vars

(* init() calls Fill on one goroutine; a Read always returns. *)
FairSpec == Spec /\ WF_vars(Next)

-----------------------------------------------------------------------------
(* The types of the variables; and no token is empty (the comment on       *)
(* ScanHTML, markov.go:31), which Fill and Read rely on: "" means that     *)
(* there is no successor.                                                  *)
TypeOK ==
  /\ text \in Texts
  /\ 0 <= start /\ start <= read /\ read <= Len(text)
  /\ eof \in BOOLEAN
  /\ pc \in {"read", "split", "ended", "errTooLong"}
  /\ \A i \in 1 .. Len(tokens) : tokens[i] # <<>>

(* What the tokens of a text are, without windows or an order of reading.  *)
(* A byte is in a tag from its "<" to its ">"; the bytes of a token are    *)
(* those in tags and those that are not spaces.                            *)
InTag(t) ==
  {i \in 1 .. Len(t) : \E j \in 1 .. i : t[j] = "<" /\ \A k \in j .. i - 1 : t[k] # ">"}

Solid(t) == InTag(t) \cup ((1 .. Len(t)) \ SpaceBytes(t))

(* A token begins after what is none, after a tag and with a tag.          *)
Firsts(t) ==
  {i \in Solid(t) : \/ i - 1 \notin Solid(t)
                    \/ i - 1 \in InTag(t) /\ t[i - 1] = ">"
                    \/ i - 1 \notin InTag(t) /\ t[i] = "<"}

(* It goes on to where no token is, or the next one.                       *)
LastOf(t, a) ==
  Min({b \in a .. Len(t) : \/ b = Len(t)
                           \/ b + 1 \notin Solid(t)
                           \/ b + 1 \in Firsts(t)})

Rank(t, a) == Cardinality({b \in Firsts(t) : b <= a})

Tokens(t) ==
  [k \in 1 .. Cardinality(Firsts(t)) |->
     LET a == CHOOSE a \in Firsts(t) : Rank(t, a) = k IN SubSeq(t, a, LastOf(t, a))]

(* Wherever the reads end, in a word, a tag or a rune, Fill gets the       *)
(* tokens of the text, in order, none cut, joined, lost or doubled; and    *)
(* all of them when the scanner comes to the end.                          *)
TokensExact ==
  /\ IsPrefix(tokens, Tokens(text))
  /\ pc = "ended" => tokens = Tokens(text)

(* How many bytes of a space that goes on after r may come before it.      *)
CutBytes(t, r) ==
  {0} \cup {c \in {1, 2} : \E b \in {r + 1, r + 2} : LongSpace(t, r - c + 1, b)}

(* The rest of a text is lost only if the next token, with the bytes of a  *)
(* cut space that may follow it, is as long as the scanner's buffer: no    *)
(* amount of space between tokens fills it, nor do many tokens.            *)
LostOnlyByLongToken ==
  pc = "errTooLong" =>
    \E k \in DOMAIN Tokens(text), c \in CutBytes(text, read) :
      k = Len(tokens) + 1 /\ Len(Tokens(text)[k]) + c >= MaxToken

(* Fill's loop ends on every text: init() returns. *)
ScanEnds == <>(pc \in {"ended", "errTooLong"})
=============================================================================
