------------------------------- MODULE Markov -------------------------------
(***************************************************************************)
(* internal/heffalump/markov.go: MarkovMap.Fill builds the chain from the  *)
(* tokens of the source, then Reader.Read streams generated words into     *)
(* buffers whose lengths have nothing to do with the lengths of the words. *)
(*                                                                         *)
(* Fill runs once, in init(); the map is read-only afterwards.  One action *)
(* is one iteration of a loop of the code.  A buffer p handed to Read is   *)
(* kept as its filled part p[:n], and its length as want.                  *)
(***************************************************************************)
EXTENDS MarkovChain

CONSTANTS
  Lengths,  (* the buffer lengths Read is called with *)
  MaxGiven  (* bound: no Read starts that would take given past it *)

ASSUME ReadAssumption == Lengths \subseteq Nat /\ MaxGiven \in Nat

VARIABLES
  phase,       (* "fill", then "ready" between calls of Read, "read" in one *)
  scanned,     (* Fill: the tokens s.Scan() has returned *)
  w1, w2, w3,  (* Fill: its three local strings *)
  mm,          (* the MarkovMap, a function on the pairs it has a key for *)
  r1, r2,      (* Reader.w1 and Reader.w2 *)
  pending,     (* Reader.pending *)
  filled,      (* Read: p[:n] *)
  want,        (* Read: len(p) *)
  given        (* history: what the finished calls of Read returned *)

fillVars == <<scanned, w1, w2, w3, mm>>
readVars == <<r1, r2, pending, filled, want, given>>
vars == <<phase, fillVars, readVars>>

Init ==
  /\ phase = "fill"
  /\ scanned = 0
  /\ w1 = Empty /\ w2 = Empty /\ w3 = Empty
  /\ mm = <<>>
  /\ r1 = Empty /\ r2 = Empty /\ pending = Empty
  /\ filled = <<>> /\ want = 0
  /\ given = <<>>

-----------------------------------------------------------------------------
(* MarkovMap.Add: append w to the suffixes of the pair, a new key if none. *)
Suffixes(pair) == IF pair \in DOMAIN mm THEN mm[pair] ELSE <<>>

(* Mutant: a new key is stored with no suffix. *)
AddKeyOnly(a, b, w) ==
  mm' = [pair \in DOMAIN mm \cup {<<a, b>>} |->
           IF pair \notin DOMAIN mm THEN <<>>
           ELSE IF pair = <<a, b>> THEN Append(mm[pair], w) ELSE mm[pair]]

Add(a, b, w) ==
  mm' = [pair \in DOMAIN mm \cup {<<a, b>>} |->
           IF pair = <<a, b>> THEN Append(Suffixes(pair), w) ELSE mm[pair]]

(* MarkovMap.Get: any stored suffix of the pair, "" if it is no key.       *)
(* rand.Intn panics on an empty list; TypeOK says that none is stored.     *)
Get(a, b) ==
  IF <<a, b>> \in DOMAIN mm
  THEN {mm[<<a, b>>][j] : j \in 1 .. Len(mm[<<a, b>>])}
  ELSE {Empty}

(* Mutant: w2 = w3 before w1 = w2. *)
FillTokenInSequence ==
  /\ phase = "fill"
  /\ scanned < Len(Source)
  /\ scanned' = scanned + 1
  /\ w3' = Source[scanned + 1]
  /\ Add(w1, w2, Source[scanned + 1])
  /\ w1' = Source[scanned + 1]
  /\ w2' = Source[scanned + 1]
  /\ UNCHANGED <<phase, readVars>>

(* for s.Scan() { w3 = s.Text(); mm.Add(w1, w2, w3); w1, w2 = w2, w3 } *)
FillToken ==
  /\ phase = "fill"
  /\ scanned < Len(Source)
  /\ scanned' = scanned + 1
  /\ w3' = Source[scanned + 1]
  /\ Add(w1, w2, Source[scanned + 1])
  /\ w1' = w2
  /\ w2' = Source[scanned + 1]
  /\ UNCHANGED <<phase, readVars>>

(* The Add after the loop. *)
FillTail ==
  /\ phase = "fill"
  /\ scanned = Len(Source)
  /\ Add(w1, w2, w3)
  /\ phase' = "ready"
  /\ UNCHANGED <<scanned, w1, w2, w3, readVars>>

-----------------------------------------------------------------------------
(* Reader.Read is called with a buffer of len bytes; an empty buffer       *)
(* returns 0, nil at once and changes nothing.                             *)
CallRead(len) ==
  /\ phase = "ready"
  /\ len > 0
  /\ Len(given) + len <= MaxGiven
  /\ phase' = "read"
  /\ want' = len
  /\ filled' = <<>>
  /\ UNCHANGED <<fillVars, r1, r2, pending, given>>

(* Mutant: a word is copied only where it fits whole. *)
CopiedWhole(s) == IF Len(s) <= want - Len(filled) THEN Len(s) ELSE 0

(* copied := copy(p[n:], s); n += copied; r.pending = s[copied:] *)
Copied(s) == IF Len(s) <= want - Len(filled) THEN Len(s) ELSE want - Len(filled)

(* Mutant: the remainder starts one byte late. *)
CopyOutSkips(s) ==
  /\ filled' = filled \o SubSeq(s, 1, Copied(s))
  /\ pending' = SubSeq(s, Copied(s) + 2, Len(s))

CopyOut(s) ==
  /\ filled' = filled \o SubSeq(s, 1, Copied(s))
  /\ pending' = SubSeq(s, Copied(s) + 1, Len(s))

(* One iteration of the loop with a remainder of the last word to hand on. *)
CopyPending ==
  /\ phase = "read"
  /\ Len(filled) < want
  /\ pending # Empty
  /\ CopyOut(pending)
  /\ UNCHANGED <<phase, fillVars, r1, r2, want, given>>

(* Mutant: the restart forgets w1. *)
CopyNextWordKeepsW1 ==
  /\ phase = "read"
  /\ Len(filled) < want
  /\ pending = Empty
  /\ \E w \in Get(r1, r2) :
       /\ r1' = r2
       /\ r2' = w
       /\ CopyOut(Line(w))
  /\ UNCHANGED <<phase, fillVars, want, given>>

(* One iteration that first draws a word; "" restarts the chain. *)
CopyNextWord ==
  /\ phase = "read"
  /\ Len(filled) < want
  /\ pending = Empty
  /\ \E w \in Get(r1, r2) :
       /\ r1' = IF w = Empty THEN Empty ELSE r2
       /\ r2' = w
       /\ CopyOut(Line(w))
  /\ UNCHANGED <<phase, fillVars, want, given>>

(* n = len(p): return n, nil. *)
ReturnRead ==
  /\ phase = "read"
  /\ Len(filled) = want
  /\ phase' = "ready"
  /\ given' = given \o filled
  /\ filled' = <<>>
  /\ want' = 0
  /\ UNCHANGED <<fillVars, r1, r2, pending>>

-----------------------------------------------------------------------------
Next ==
  \/ FillToken
  \/ FillTail
  \/ \E len \in Lengths : CallRead(len)
  \/ CopyPending
  \/ CopyNextWord
  \/ ReturnRead

Spec == Init /\ [][Next]_vars

(* Fill and Read run on one goroutine and block on nothing; nobody has to  *)
(* call Read.                                                              *)
FairSpec == Spec /\ WF_vars(FillToken \/ FillTail)
                 /\ WF_vars(CopyPending \/ CopyNextWord \/ ReturnRead)

-----------------------------------------------------------------------------
(* The types of the variables; the lists stored in the map are not empty,  *)
(* so Get never calls rand.Intn(0), which panics.                          *)
TypeOK ==
  /\ phase \in {"fill", "ready", "read"}
  /\ scanned \in 0 .. Len(Source)
  /\ w1 \in Vocabulary /\ w2 \in Vocabulary /\ w3 \in Vocabulary
  /\ DOMAIN mm \subseteq Vocabulary \X Vocabulary
  /\ mm \in [DOMAIN mm -> Seq(Vocabulary) \ {<<>>}]
  /\ r1 \in Vocabulary /\ r2 \in Vocabulary
  /\ pending \in Strings
  /\ filled \in Strings
  /\ want \in Nat
  /\ given \in Strings

(* w is stored as a suffix of the pair a, b. *)
Stored(a, b, w) ==
  /\ <<a, b>> \in DOMAIN mm
  /\ \E j \in 1 .. Len(mm[<<a, b>>]) : mm[<<a, b>>][j] = w

(* The map Fill leaves behind is exactly the source's relation of words to *)
(* the two words before them: no suffix that never followed the pair, and  *)
(* none of the source lost, however often a pair or a word repeats.        *)
MapExact ==
  phase # "fill" =>
    /\ \A pair \in DOMAIN mm : \A j \in 1 .. Len(mm[pair]) :
         Follows(pair[1], pair[2], mm[pair][j])
    /\ \A i \in 1 .. Len(Source) : Stored(Word(i - 2), Word(i - 1), Word(i))
    /\ Stored(Word(Len(Source) - 1), Word(Len(Source)), Word(Len(Source)))

(* The chain runs into a pair without successors at one place only, the    *)
(* last token seen twice: the restart of Read (w1, w2 = "", "") happens    *)
(* nowhere else, so a long source gives long stretches without a restart.  *)
DeadEndOnlyAtTail ==
  phase # "fill" =>
    \/ <<r1, r2>> \in DOMAIN mm
    \/ r1 = Word(Len(Source)) /\ r2 = Word(Len(Source))

(* Whatever the lengths of the buffers, the concatenation of what Read     *)
(* returned, of the call in progress and of pending is the text of one     *)
(* walk: no byte of a word lost, repeated or out of place at a boundary.   *)
Stream == INSTANCE MarkovStream
            WITH text <- given \o filled \o pending, c1 <- r1, c2 <- r2
ImplementsStream == Stream!Spec

(* Read fills any buffer and returns: it never spins on a word of no bytes *)
(* (the comment on Read, markov.go:137: never 0, nil for a non-empty       *)
(* buffer).                                                                *)
ReadReturns == phase = "read" ~> phase = "ready"
=============================================================================
