---------------------------- MODULE Markov_proofs ----------------------------
(***************************************************************************)
(* Proofs about Markov: types, the map Fill leaves behind, where the chain *)
(* can run dry, and that Read implements MarkovStream for every source and *)
(* every sequence of buffer lengths.                                       *)
(***************************************************************************)
EXTENDS Markov, SequenceTheorems, TLAPS

(* A word of the vocabulary is a string, and a token is not empty. *)
LEMMA VocabularyStrings ==
  /\ Vocabulary \subseteq Strings
  /\ Empty \in Vocabulary
  /\ \A i \in Int : Word(i) \in Vocabulary
  /\ \A i \in 1 .. Len(Source) : Word(i) = Source[i] /\ Word(i) # Empty
  /\ Len(Source) \in Nat
<1>1. Len(Source) \in Nat
  BY ChainAssumption, LenProperties
<1>2. Empty \in Strings
  BY DEF Empty, Strings
<1>3. \A i \in 1 .. Len(Source) : Source[i] \in Strings
  BY ChainAssumption, ElementOfSeq
<1>4. Word(0) = Empty
  BY <1>1 DEF Word
<1> QED
  BY <1>1, <1>2, <1>3, <1>4, ChainAssumption DEF Word, Vocabulary

(* A line is a string. *)
LEMMA LineString == ASSUME NEW w \in Strings PROVE Line(w) \in Strings
BY ChainAssumption, AppendProperties DEF Line, Strings

(* Add stores one more suffix under its pair and changes nothing else. *)
LEMMA AddStores ==
  ASSUME TypeOK, NEW a \in Vocabulary, NEW b \in Vocabulary,
         NEW w \in Vocabulary, Add(a, b, w)
  PROVE  /\ DOMAIN mm' \subseteq Vocabulary \X Vocabulary
         /\ mm' \in [DOMAIN mm' -> Seq(Vocabulary) \ {<<>>}]
         /\ \A x, y, z \in Vocabulary :
              Stored(x, y, z)' <=> Stored(x, y, z) \/ (x = a /\ y = b /\ z = w)
<1> DEFINE pr == <<a, b>>
           old == Suffixes(pr)
<1>1. old \in Seq(Vocabulary)
  BY DEF TypeOK, Suffixes
<1>2. /\ Append(old, w) \in Seq(Vocabulary)
      /\ Append(old, w) # <<>>
      /\ Len(Append(old, w)) = Len(old) + 1
      /\ \A j \in 1 .. Len(old) : Append(old, w)[j] = old[j]
      /\ Append(old, w)[Len(old) + 1] = w
  BY <1>1, AppendProperties
<1>3. DOMAIN mm' = DOMAIN mm \cup {pr}
  BY DEF Add
<1>4. mm'[pr] = Append(old, w)
  BY DEF Add
<1>5. \A q \in DOMAIN mm : q # pr => mm'[q] = mm[q]
  BY DEF Add
<1>6. mm' \in [DOMAIN mm' -> Seq(Vocabulary) \ {<<>>}]
  <2>1. ASSUME NEW q \in DOMAIN mm' PROVE mm'[q] \in Seq(Vocabulary) \ {<<>>}
    BY <1>2, <1>3, <1>4, <1>5 DEF TypeOK
  <2>2. mm' = [q \in DOMAIN mm' |-> mm'[q]]
    BY DEF Add
  <2> QED BY <2>1, <2>2
<1>7. ASSUME NEW x \in Vocabulary, NEW y \in Vocabulary, NEW z \in Vocabulary
      PROVE  Stored(x, y, z)' <=> Stored(x, y, z) \/ (x = a /\ y = b /\ z = w)
  <2>1. CASE <<x, y>> = pr
    <3>1. Stored(x, y, z)' <=> \E j \in 1 .. Len(old) + 1 : Append(old, w)[j] = z
      BY <2>1, <1>2, <1>3, <1>4 DEF Stored
    <3>2. Len(old) \in Nat
      BY <1>1, LenProperties
    <3>3. (\E j \in 1 .. Len(old) + 1 : Append(old, w)[j] = z)
            <=> (\E j \in 1 .. Len(old) : old[j] = z) \/ z = w
      <4>1. ASSUME NEW j \in 1 .. Len(old) + 1, Append(old, w)[j] = z, z # w
            PROVE  \E i \in 1 .. Len(old) : old[i] = z
        <5>1. j \in 1 .. Len(old)
          BY <4>1, <1>2, <3>2
        <5> QED BY <5>1, <4>1, <1>2
      <4>2. ASSUME NEW j \in 1 .. Len(old), old[j] = z
            PROVE  \E i \in 1 .. Len(old) + 1 : Append(old, w)[i] = z
        <5>1. j \in 1 .. Len(old) + 1
          BY <3>2
        <5> QED BY <5>1, <4>2, <1>2
      <4>3. Len(old) + 1 \in 1 .. Len(old) + 1
        BY <3>2
      <4> QED BY <4>1, <4>2, <4>3, <1>2
    <3>4. Stored(x, y, z) <=> \E j \in 1 .. Len(old) : old[j] = z
      BY <2>1 DEF Stored, Suffixes
    <3>5. x = a /\ y = b
      BY <2>1
    <3> QED BY <3>1, <3>3, <3>4, <3>5
  <2>2. CASE <<x, y>> # pr
    BY <2>2, <1>3, <1>5 DEF Stored
  <2> QED BY <2>1, <2>2
<1> QED BY <1>3, <1>6, <1>7 DEF TypeOK

-----------------------------------------------------------------------------
(* Concatenation of byte strings is associative. *)
LEMMA BytesConcat ==
  \A x, y, z \in Seq(Bytes) : (x \o y) \o z = x \o (y \o z)
BY ConcatAssociative

(* Cutting a string s in two and appending the halves one after the other. *)
LEMMA SplitConcat ==
  ASSUME NEW g \in Seq(Bytes), NEW f \in Seq(Bytes),
         NEW s \in Seq(Bytes), NEW k \in 0 .. Len(s)
  PROVE  /\ f \o SubSeq(s, 1, k) \in Seq(Bytes)
         /\ SubSeq(s, k + 1, Len(s)) \in Seq(Bytes)
         /\ (g \o (f \o SubSeq(s, 1, k))) \o SubSeq(s, k + 1, Len(s))
              = (g \o f) \o s
<1>1. Len(s) \in Nat /\ \A i \in 1 .. Len(s) : s[i] \in Bytes
  BY LenProperties, ElementOfSeq
<1>2. PICK h \in Seq(Bytes) : h = SubSeq(s, 1, k)
  <2>1. \A i \in 1 .. k : s[i] \in Bytes
    BY <1>1
  <2>2. SubSeq(s, 1, k) \in Seq(Bytes)
    BY <2>1, <1>1, SubSeqProperties
  <2> QED BY ONLY <2>2
<1>3. PICK t \in Seq(Bytes) : t = SubSeq(s, k + 1, Len(s))
  <2>1. \A i \in k + 1 .. Len(s) : s[i] \in Bytes
    BY <1>1
  <2>2. SubSeq(s, k + 1, Len(s)) \in Seq(Bytes)
    BY <2>1, <1>1, SubSeqProperties
  <2> QED BY ONLY <2>2
<1>4. h \o t = s
  <2>1. /\ 1 \in 1 .. Len(s) + 1
        /\ k \in 1 - 1 .. Len(s)
        /\ Len(s) \in k .. Len(s)
    BY <1>1
  <2>2. SubSeq(s, 1, k) \o SubSeq(s, k + 1, Len(s)) = SubSeq(s, 1, Len(s))
    BY <2>1, ConcatAdjacentSubSeq
  <2>3. SubSeq(s, 1, Len(s)) = s
    BY SubSeqFull
  <2> QED BY <2>2, <2>3, <1>2, <1>3
<1>5. f \o h \in Seq(Bytes)
  BY ConcatProperties
<1>6. (g \o (f \o h)) \o t = (g \o f) \o (h \o t)
  <2>1. (g \o f) \o h = g \o (f \o h)
    BY ONLY g \in Seq(Bytes), f \in Seq(Bytes), h \in Seq(Bytes), BytesConcat
  <2>2. PICK gf \in Seq(Bytes) : gf = g \o f
    BY ConcatProperties
  <2>3. (gf \o h) \o t = gf \o (h \o t)
    BY BytesConcat, Zenon
  <2> QED BY <2>1, <2>2, <2>3
<1>7. /\ f \o h \in Seq(Bytes)
      /\ t \in Seq(Bytes)
      /\ (g \o (f \o h)) \o t = (g \o f) \o s
  BY <1>4, <1>5, <1>6
<1> QED BY ONLY <1>7, <1>2, <1>3

(* One copy(p[n:], s) hands out a prefix of s and keeps the rest. *)
LEMMA CopySplits ==
  ASSUME TypeOK, Len(filled) < want, NEW s \in Strings, CopyOut(s)
  PROVE  /\ filled' \in Strings
         /\ pending' \in Strings
         /\ (given \o filled') \o pending' = (given \o filled) \o s
<1>1. Len(filled) \in Nat /\ Len(s) \in Nat /\ want \in Nat
  BY LenProperties DEF TypeOK, Strings
<1>2. Copied(s) \in 0 .. Len(s)
  BY <1>1 DEF Copied
<1>3. given \in Strings /\ filled \in Strings
  BY DEF TypeOK
<1>4. \A g, f \in Strings : \A k \in 0 .. Len(s) :
        /\ f \o SubSeq(s, 1, k) \in Strings
        /\ SubSeq(s, k + 1, Len(s)) \in Strings
        /\ (g \o (f \o SubSeq(s, 1, k))) \o SubSeq(s, k + 1, Len(s))
             = (g \o f) \o s
  BY SplitConcat DEF Strings
<1>5. /\ filled \o SubSeq(s, 1, Copied(s)) \in Strings
      /\ SubSeq(s, Copied(s) + 1, Len(s)) \in Strings
      /\ (given \o (filled \o SubSeq(s, 1, Copied(s))))
            \o SubSeq(s, Copied(s) + 1, Len(s)) = (given \o filled) \o s
  BY ONLY <1>2, <1>3, <1>4
<1> QED BY <1>5 DEF CopyOut

-----------------------------------------------------------------------------
(* Init satisfies the types, and every action preserves them. *)
LEMMA TypeInit == Init => TypeOK
<1> SUFFICES ASSUME Init PROVE TypeOK
  OBVIOUS
<1>1. mm \in [DOMAIN mm -> Seq(Vocabulary) \ {<<>>}] /\ DOMAIN mm = {}
  BY DEF Init
<1>2. 0 \in 0 .. Len(Source)
  BY VocabularyStrings
<1> QED BY <1>1, <1>2, VocabularyStrings DEF Init, TypeOK, Empty, Strings

LEMMA TypeNext == TypeOK /\ [Next]_vars => TypeOK'
<1> SUFFICES ASSUME TypeOK, [Next]_vars PROVE TypeOK'
  OBVIOUS
<1> USE DEF TypeOK
<1>1. CASE FillToken
  <2>1. Source[scanned + 1] \in Vocabulary /\ scanned + 1 \in 1 .. Len(Source)
    BY <1>1, VocabularyStrings DEF FillToken
  <2>2. /\ DOMAIN mm' \subseteq Vocabulary \X Vocabulary
        /\ mm' \in [DOMAIN mm' -> Seq(Vocabulary) \ {<<>>}]
    BY <1>1, <2>1, AddStores DEF FillToken
  <2> QED BY <1>1, <2>1, <2>2, VocabularyStrings DEF FillToken, readVars
<1>2. CASE FillTail
  <2>1. /\ DOMAIN mm' \subseteq Vocabulary \X Vocabulary
        /\ mm' \in [DOMAIN mm' -> Seq(Vocabulary) \ {<<>>}]
    BY <1>2, AddStores DEF FillTail
  <2> QED BY <1>2, <2>1 DEF FillTail, readVars
<1>3. ASSUME NEW len \in Lengths, CallRead(len) PROVE TypeOK'
  BY <1>3, ReadAssumption DEF CallRead, fillVars, Strings
<1>4. CASE CopyPending
  BY <1>4, CopySplits DEF CopyPending, fillVars
<1>5. CASE CopyNextWord
  <2>1. PICK w \in Get(r1, r2) : /\ r1' = IF w = Empty THEN Empty ELSE r2
                                 /\ r2' = w
                                 /\ CopyOut(Line(w))
    BY <1>5 DEF CopyNextWord
  <2>2. w \in Vocabulary
    BY <2>1, VocabularyStrings, ElementOfSeq DEF Get
  <2>3. Line(w) \in Strings
    BY <2>2, VocabularyStrings, LineString
  <2>4. filled' \in Strings /\ pending' \in Strings
    BY <1>5, <2>1, <2>3, CopySplits DEF CopyNextWord
  <2> QED BY <1>5, <2>1, <2>2, <2>4, VocabularyStrings DEF CopyNextWord, fillVars
<1>6. CASE ReturnRead
  <2>1. given \o filled \in Strings
    BY ConcatProperties DEF Strings
  <2> QED BY <1>6, <2>1 DEF ReturnRead, fillVars, Strings
<1>7. CASE UNCHANGED vars
  BY <1>7 DEF vars, fillVars, readVars
<1> QED BY <1>1, <1>2, <1>3, <1>4, <1>5, <1>6, <1>7 DEF Next

(* The types hold in every state of every behaviour. *)
THEOREM TypeCorrect == Spec => []TypeOK
BY TypeInit, TypeNext, PTL DEF Spec

-----------------------------------------------------------------------------
(* The strengthening of MapExact and DeadEndOnlyAtTail that the steps      *)
(* preserve: while filling, the three local strings are the last tokens    *)
(* scanned and the map holds exactly the tokens so far; afterwards exactly *)
(* the relation Follows.                                                   *)
FillInv ==
  phase = "fill" =>
    /\ w1 = Word(scanned - 1) /\ w2 = Word(scanned) /\ w3 = Word(scanned)
    /\ r1 = Empty /\ r2 = Empty
    /\ \A a, b, w \in Vocabulary :
         Stored(a, b, w) <=> \E i \in 1 .. scanned : FollowsAt(i, a, b, w)

MapInv ==
  phase # "fill" =>
    \A a, b, w \in Vocabulary : Stored(a, b, w) <=> Follows(a, b, w)

ChainInv ==
  /\ TypeOK
  /\ FillInv
  /\ MapInv
  /\ DeadEndOnlyAtTail
  /\ phase # "read" => filled = <<>>

(* A pair of the vocabulary has a key iff something is stored under it.    *)
LEMMA KeyStored ==
  ASSUME TypeOK, NEW a \in Vocabulary, NEW b \in Vocabulary
  PROVE  <<a, b>> \in DOMAIN mm <=> \E w \in Vocabulary : Stored(a, b, w)
<1>1. ASSUME <<a, b>> \in DOMAIN mm
      PROVE  \E w \in Vocabulary : Stored(a, b, w)
  <2>1. mm[<<a, b>>] \in Seq(Vocabulary) /\ mm[<<a, b>>] # <<>>
    BY <1>1 DEF TypeOK
  <2>2. 1 \in 1 .. Len(mm[<<a, b>>]) /\ mm[<<a, b>>][1] \in Vocabulary
    BY <2>1, EmptySeq, LenProperties, ElementOfSeq
  <2> QED BY <1>1, <2>2 DEF Stored
<1>2. ASSUME NEW w \in Vocabulary, Stored(a, b, w)
      PROVE  <<a, b>> \in DOMAIN mm
  BY <1>2 DEF Stored
<1> QED BY <1>1, <1>2

(* The word Get returns is stored, or the pair has no key and it is "".    *)
LEMMA GetStored ==
  ASSUME TypeOK, NEW a \in Vocabulary, NEW b \in Vocabulary, NEW w \in Get(a, b)
  PROVE  /\ w \in Vocabulary
         /\ \/ Stored(a, b, w)
            \/ <<a, b>> \notin DOMAIN mm /\ w = Empty
<1>1. CASE <<a, b>> \in DOMAIN mm
  <2>1. PICK j \in 1 .. Len(mm[<<a, b>>]) : w = mm[<<a, b>>][j]
    BY <1>1 DEF Get
  <2>2. mm[<<a, b>>] \in Seq(Vocabulary)
    BY <1>1 DEF TypeOK
  <2> QED BY <1>1, <2>1, <2>2, ElementOfSeq DEF Stored
<1>2. CASE <<a, b>> \notin DOMAIN mm
  BY <1>2, VocabularyStrings DEF Get
<1> QED BY <1>1, <1>2

(* The pair of empty strings always has a successor, and so has the pair   *)
(* of the last two tokens: the tail Add saw to that.                       *)
LEMMA StartFollows ==
  /\ \E w \in Vocabulary : Follows(Empty, Empty, w)
  /\ Follows(Word(Len(Source) - 1), Word(Len(Source)), Word(Len(Source)))
<1>1. CASE Len(Source) = 0
  BY <1>1, VocabularyStrings DEF Follows, FollowsAtTail, Word
<1>2. CASE Len(Source) # 0
  <2>1. 1 \in 1 .. Len(Source)
    BY <1>2, VocabularyStrings
  <2>2. FollowsAt(1, Empty, Empty, Word(1))
    BY DEF FollowsAt, Word
  <2> QED BY <2>1, <2>2, VocabularyStrings DEF Follows, FollowsAtTail
<1> QED BY <1>1, <1>2

(* After a word that follows a pair, the chain stands on a pair with a     *)
(* successor or on the last token twice.                                   *)
LEMMA NextPair ==
  ASSUME NEW a \in Vocabulary, NEW b \in Vocabulary, NEW w \in Vocabulary,
         Follows(a, b, w)
  PROVE  \/ \E z \in Vocabulary : Follows(b, w, z)
         \/ b = Word(Len(Source)) /\ w = Word(Len(Source))
<1>1. CASE FollowsAtTail(a, b, w)
  BY <1>1 DEF FollowsAtTail
<1>2. ASSUME NEW i \in 1 .. Len(Source), FollowsAt(i, a, b, w)
      PROVE  \E z \in Vocabulary : Follows(b, w, z)
  <2>1. CASE i = Len(Source)
    BY <1>2, <2>1, StartFollows, VocabularyStrings DEF FollowsAt
  <2>2. CASE i # Len(Source)
    <3>1. i + 1 \in 1 .. Len(Source) /\ i + 1 \in Int
      BY <2>2, VocabularyStrings
    <3>2. FollowsAt(i + 1, b, w, Word(i + 1))
      BY <1>2 DEF FollowsAt
    <3> QED BY <3>1, <3>2, VocabularyStrings DEF Follows
  <2> QED BY <2>1, <2>2
<1> QED BY <1>1, <1>2 DEF Follows

-----------------------------------------------------------------------------
LEMMA ChainInit == Init => ChainInv
<1> SUFFICES ASSUME Init PROVE ChainInv
  OBVIOUS
<1>1. TypeOK
  BY TypeInit
<1>2. FillInv
  <2>1. Word(-1) = Empty /\ Word(0) = Empty
    BY VocabularyStrings DEF Word
  <2>2. DOMAIN mm = {}
    BY DEF Init
  <2> QED BY <2>1, <2>2 DEF Init, FillInv, Stored
<1> QED BY <1>1, <1>2 DEF Init, ChainInv, MapInv, DeadEndOnlyAtTail

(* One token scanned: one more index of the source is stored. *)
LEMMA FillTokenInv == ChainInv /\ FillToken => FillInv' /\ MapInv' /\ DeadEndOnlyAtTail'
<1> SUFFICES ASSUME ChainInv, FillToken
             PROVE  FillInv' /\ MapInv' /\ DeadEndOnlyAtTail'
  OBVIOUS
<1> DEFINE n == scanned + 1
<1>1. /\ TypeOK /\ FillInv /\ phase = "fill" /\ phase' = "fill"
      /\ scanned' = n /\ r1' = r1 /\ r2' = r2
      /\ scanned \in Int /\ n \in 1 .. Len(Source)
  BY VocabularyStrings DEF ChainInv, FillToken, readVars, TypeOK
<1>2. Source[n] = Word(n) /\ Word(n) \in Vocabulary
  BY <1>1, VocabularyStrings
<1>3. w1 = Word(n - 2) /\ w2 = Word(n - 1)
  <2>1. n - 2 = scanned - 1 /\ n - 1 = scanned
    BY <1>1
  <2> QED BY <1>1, <2>1 DEF FillInv
<1>4. w1' = Word(n - 1) /\ w2' = Word(n) /\ w3' = Word(n)
  BY <1>2, <1>3 DEF FillToken
<1>5. w1 \in Vocabulary /\ w2 \in Vocabulary /\ Add(w1, w2, Word(n))
  BY <1>1, <1>2 DEF FillToken, TypeOK
<1>6. ASSUME NEW a \in Vocabulary, NEW b \in Vocabulary, NEW w \in Vocabulary
      PROVE  Stored(a, b, w)' <=> \E i \in 1 .. n : FollowsAt(i, a, b, w)
  <2>1. Stored(a, b, w)' <=> Stored(a, b, w) \/ FollowsAt(n, a, b, w)
    BY <1>1, <1>2, <1>3, <1>5, AddStores DEF FollowsAt
  <2>2. Stored(a, b, w) <=> \E i \in 1 .. scanned : FollowsAt(i, a, b, w)
    BY <1>1 DEF FillInv
  <2>3. 1 .. n = (1 .. scanned) \cup {n}
    BY <1>1
  <2> QED BY <2>1, <2>2, <2>3
<1>7. Word(n - 1) = Word(scanned' - 1)
  BY <1>1
<1> QED BY <1>1, <1>4, <1>6, <1>7 DEF FillInv, MapInv, DeadEndOnlyAtTail

(* The Add after the loop completes the relation. *)
LEMMA FillTailInv == ChainInv /\ FillTail => FillInv' /\ MapInv' /\ DeadEndOnlyAtTail'
<1> SUFFICES ASSUME ChainInv, FillTail
             PROVE  FillInv' /\ MapInv' /\ DeadEndOnlyAtTail'
  OBVIOUS
<1>1. /\ TypeOK /\ FillInv /\ phase = "fill" /\ phase' = "ready"
      /\ scanned = Len(Source) /\ r1' = Empty /\ r2' = Empty
  BY DEF ChainInv, FillTail, readVars, FillInv
<1>2. /\ w1 = Word(Len(Source) - 1)
      /\ w2 = Word(Len(Source))
      /\ w3 = Word(Len(Source))
  BY <1>1 DEF FillInv
<1>3. /\ w1 \in Vocabulary /\ w2 \in Vocabulary /\ w3 \in Vocabulary
      /\ Add(w1, w2, w3)
  BY <1>1 DEF FillTail, TypeOK
<1>4. ASSUME NEW a \in Vocabulary, NEW b \in Vocabulary, NEW w \in Vocabulary
      PROVE  Stored(a, b, w)' <=> Follows(a, b, w)
  <2>1. Stored(a, b, w)' <=> Stored(a, b, w) \/ FollowsAtTail(a, b, w)
    BY <1>1, <1>2, <1>3, AddStores DEF FollowsAtTail
  <2>2. Stored(a, b, w) <=> \E i \in 1 .. Len(Source) : FollowsAt(i, a, b, w)
    BY <1>1 DEF FillInv
  <2> QED BY <2>1, <2>2 DEF Follows
<1>5. <<r1, r2>>' \in DOMAIN mm'
  <2>1. PICK w \in Vocabulary : Follows(Empty, Empty, w)
    BY StartFollows
  <2>2. Stored(Empty, Empty, w)'
    BY <1>4, <2>1, VocabularyStrings
  <2> QED BY <1>1, <2>2 DEF Stored
<1> QED BY <1>1, <1>4, <1>5 DEF FillInv, MapInv, DeadEndOnlyAtTail

(* One word drawn: the reader stands on a pair with a successor or at the  *)
(* tail.                                                                   *)
LEMMA CopyNextWordInv ==
  ChainInv /\ CopyNextWord => FillInv' /\ MapInv' /\ DeadEndOnlyAtTail'
<1> SUFFICES ASSUME ChainInv, CopyNextWord
             PROVE  FillInv' /\ MapInv' /\ DeadEndOnlyAtTail'
  OBVIOUS
<1>1. /\ TypeOK /\ MapInv /\ phase = "read" /\ phase' = "read" /\ mm' = mm
      /\ r1 \in Vocabulary /\ r2 \in Vocabulary
  BY DEF ChainInv, CopyNextWord, fillVars, TypeOK
<1>2. PICK w \in Get(r1, r2) : /\ r1' = IF w = Empty THEN Empty ELSE r2
                               /\ r2' = w
  BY DEF CopyNextWord
<1>3. w \in Vocabulary /\ (Stored(r1, r2, w) \/ w = Empty)
  BY <1>1, <1>2, GetStored
<1>4. MapInv'
  <2>1. \A a, b, z : Stored(a, b, z)' <=> Stored(a, b, z)
    BY <1>1 DEF Stored
  <2> QED BY <1>1, <2>1 DEF MapInv
<1>5. DeadEndOnlyAtTail'
  <2>1. CASE w = Empty
    <3>1. PICK z \in Vocabulary : Follows(Empty, Empty, z)
      BY StartFollows
    <3>2. <<Empty, Empty>> \in DOMAIN mm
      BY <1>1, <3>1, VocabularyStrings DEF MapInv, Stored
    <3> QED BY <1>1, <1>2, <2>1, <3>2 DEF DeadEndOnlyAtTail
  <2>2. CASE w # Empty
    <3>1. Follows(r1, r2, w)
      BY <1>1, <1>3, <2>2 DEF MapInv
    <3>2. CASE r2 = Word(Len(Source)) /\ w = Word(Len(Source))
      BY <1>2, <2>2, <3>2 DEF DeadEndOnlyAtTail
    <3>3. ASSUME NEW z \in Vocabulary, Follows(r2, w, z)
          PROVE  <<r2, w>> \in DOMAIN mm
      BY <1>1, <1>3, <3>3 DEF MapInv, Stored
    <3>4. CASE <<r2, w>> \in DOMAIN mm
      BY <1>1, <1>2, <2>2, <3>4 DEF DeadEndOnlyAtTail
    <3> QED BY <1>1, <1>3, <3>1, <3>2, <3>3, <3>4, NextPair
  <2> QED BY <2>1, <2>2
<1> QED BY <1>1, <1>4, <1>5 DEF FillInv

(* Every step preserves the strengthening. *)
LEMMA ChainNext == ChainInv /\ [Next]_vars => ChainInv'
<1> SUFFICES ASSUME ChainInv, [Next]_vars PROVE ChainInv'
  OBVIOUS
<1>1. TypeOK'
  BY TypeNext DEF ChainInv
<1>2. (phase # "read" => filled = <<>>)'
  BY DEF ChainInv, Next, FillToken, FillTail, CallRead, CopyPending,
         CopyNextWord, ReturnRead, fillVars, readVars, vars
<1>3. ASSUME UNCHANGED <<fillVars, r1, r2>>,
             (phase # "fill" /\ phase' # "fill") \/ phase' = phase
      PROVE  FillInv' /\ MapInv' /\ DeadEndOnlyAtTail'
  <2>1. \A a, b, z : Stored(a, b, z)' <=> Stored(a, b, z)
    BY <1>3 DEF Stored, fillVars
  <2> QED BY <1>3, <2>1 DEF ChainInv, FillInv, MapInv, DeadEndOnlyAtTail, fillVars
<1>4. FillInv' /\ MapInv' /\ DeadEndOnlyAtTail'
  <2>1. CASE FillToken
    BY <2>1, FillTokenInv
  <2>2. CASE FillTail
    BY <2>2, FillTailInv
  <2>3. ASSUME NEW len \in Lengths, CallRead(len)
        PROVE  FillInv' /\ MapInv' /\ DeadEndOnlyAtTail'
    BY <1>3, <2>3 DEF CallRead
  <2>4. CASE CopyPending
    BY <1>3, <2>4 DEF CopyPending
  <2>5. CASE CopyNextWord
    BY <2>5, CopyNextWordInv
  <2>6. CASE ReturnRead
    BY <1>3, <2>6 DEF ReturnRead
  <2>7. CASE UNCHANGED vars
    BY <1>3, <2>7 DEF vars, readVars
  <2> QED BY <2>1, <2>2, <2>3, <2>4, <2>5, <2>6, <2>7 DEF Next
<1> QED BY <1>1, <1>2, <1>4 DEF ChainInv

LEMMA ChainCorrect == Spec => []ChainInv
BY ChainInit, ChainNext, PTL DEF Spec

(* What is stored once Fill is done is exactly what the source lets follow *)
(* each pair of words, whatever the source.                                *)
THEOREM MapCorrect == Spec => []MapExact
<1>1. ChainInv => MapExact
  <2> SUFFICES ASSUME ChainInv, phase # "fill" PROVE MapExact
    BY DEF MapExact
  <2>1. TypeOK /\ MapInv
    BY DEF ChainInv
  <2>2. ASSUME NEW pair \in DOMAIN mm, NEW j \in 1 .. Len(mm[pair])
        PROVE  Follows(pair[1], pair[2], mm[pair][j])
    <3>1. PICK a \in Vocabulary, b \in Vocabulary : pair = <<a, b>>
      BY <2>1 DEF TypeOK
    <3>2. mm[pair] \in Seq(Vocabulary)
      BY <2>1 DEF TypeOK
    <3>3. mm[pair][j] \in Vocabulary
      BY <3>2, ElementOfSeq
    <3>4. Stored(a, b, mm[pair][j])
      BY <3>1 DEF Stored
    <3> QED BY <2>1, <3>1, <3>3, <3>4 DEF MapInv
  <2>3. ASSUME NEW i \in 1 .. Len(Source)
        PROVE  Stored(Word(i - 2), Word(i - 1), Word(i))
    <3>1. Follows(Word(i - 2), Word(i - 1), Word(i))
      BY DEF Follows, FollowsAt
    <3>2. /\ Word(i - 2) \in Vocabulary
          /\ Word(i - 1) \in Vocabulary
          /\ Word(i) \in Vocabulary
      BY VocabularyStrings
    <3> QED BY <2>1, <3>1, <3>2 DEF MapInv
  <2>4. Stored(Word(Len(Source) - 1), Word(Len(Source)), Word(Len(Source)))
    <3>1. Word(Len(Source) - 1) \in Vocabulary /\ Word(Len(Source)) \in Vocabulary
      BY VocabularyStrings
    <3> QED BY <2>1, <3>1, StartFollows DEF MapInv
  <2> QED BY <2>2, <2>3, <2>4 DEF MapExact
<1> QED BY <1>1, ChainCorrect, PTL

(* The chain runs dry at the last token seen twice and nowhere else. *)
THEOREM DeadEndCorrect == Spec => []DeadEndOnlyAtTail
<1>1. ChainInv => DeadEndOnlyAtTail
  BY DEF ChainInv
<1> QED BY <1>1, ChainCorrect, PTL

-----------------------------------------------------------------------------
(* A pair without a key has no successor at all, and a pair under which "" *)
(* is stored neither: both are dead ends of the abstract chain.            *)
LEMMA DeadEnd ==
  ASSUME TypeOK, MapInv, phase # "fill",
         \/ <<r1, r2>> \notin DOMAIN mm
         \/ Stored(r1, r2, Empty)
  PROVE  ~ \E z \in Vocabulary \ {Empty} : Follows(r1, r2, z)
<1> SUFFICES ASSUME NEW z \in Vocabulary \ {Empty}, Follows(r1, r2, z)
             PROVE  FALSE
  OBVIOUS
<1>1. r1 \in Vocabulary /\ r2 \in Vocabulary
  BY DEF TypeOK
<1>2. Stored(r1, r2, z)
  BY <1>1 DEF MapInv
<1>3. <<r1, r2>> \in DOMAIN mm
  BY <1>2 DEF Stored
<1>4. Follows(r1, r2, Empty)
  BY <1>1, <1>3, VocabularyStrings DEF MapInv
<1>5. Len(Source) = 0
  BY <1>4, VocabularyStrings DEF Follows, FollowsAt, FollowsAtTail
<1>6. z = Empty
  BY <1>5 DEF Follows, FollowsAtTail, Word
<1> QED BY <1>6

(* Init is an initial state of the stream; a word drawn is a Continue or a *)
(* Restart; every other step leaves the text alone.                        *)
LEMMA StreamInit == Init => Stream!Init
<1> SUFFICES ASSUME Init PROVE Stream!Init
  OBVIOUS
<1>1. given = <<>> /\ filled = <<>> /\ pending = <<>>
  BY DEF Init, Empty
<1>2. (given \o filled) \o pending = <<>>
  BY <1>1
<1> QED BY <1>2 DEF Init, Stream!Init, Stream!Empty, Empty

LEMMA StreamNext == ChainInv /\ ChainInv' /\ [Next]_vars => [Stream!Next]_(Stream!streamVars)
<1> SUFFICES ASSUME ChainInv, ChainInv', [Next]_vars
             PROVE  Stream!Next \/ UNCHANGED Stream!streamVars
  OBVIOUS
<1>1. /\ TypeOK /\ MapInv
      /\ given \in Strings /\ filled \in Strings /\ pending \in Strings
      /\ r1 \in Vocabulary /\ r2 \in Vocabulary
  BY DEF ChainInv, TypeOK
<1>2. \A x \in Strings : x \o <<>> = x
  BY ConcatEmptySeq DEF Strings
<1>3. CASE UNCHANGED <<given, filled, pending, r1, r2>>
  BY <1>3 DEF Stream!streamVars
<1>4. CASE CopyPending
  <2>1. (given \o filled') \o pending' = (given \o filled) \o pending
    BY <1>1, <1>4, CopySplits DEF CopyPending
  <2> QED BY <1>4, <2>1 DEF CopyPending, Stream!streamVars
<1>5. CASE CopyNextWord
  <2>1. PICK w \in Get(r1, r2) : /\ r1' = IF w = Empty THEN Empty ELSE r2
                                 /\ r2' = w
                                 /\ CopyOut(Line(w))
    BY <1>5 DEF CopyNextWord
  <2>2. /\ w \in Vocabulary
        /\ \/ Stored(r1, r2, w)
           \/ <<r1, r2>> \notin DOMAIN mm /\ w = Empty
    BY <1>1, <2>1, GetStored
  <2>3. Line(w) \in Strings
    BY <2>2, VocabularyStrings, LineString
  <2>4. (given \o filled') \o pending' = (given \o filled) \o Line(w)
    BY <1>1, <1>5, <2>1, <2>3, CopySplits DEF CopyNextWord
  <2>5. (given \o filled) \o pending = given \o filled
    <3>1. PICK x \in Strings : x = given \o filled
      BY <1>1, ConcatProperties DEF Strings
    <3> QED BY <1>2, <1>5, <3>1 DEF CopyNextWord, Empty
  <2>6. (given' \o filled') \o pending' = ((given \o filled) \o pending) \o Line(w)
    BY <1>5, <2>4, <2>5 DEF CopyNextWord
  <2>7. CASE w # Empty
    <3>1. Follows(r1, r2, w)
      BY <1>1, <1>5, <2>2, <2>7 DEF MapInv, CopyNextWord
    <3> QED BY <2>1, <2>2, <2>6, <2>7, <3>1
        DEF Stream!Next, Stream!Continue, Stream!Vocabulary, Stream!Word,
            Stream!Follows, Stream!FollowsAt, Stream!FollowsAtTail, Stream!Line,
            Stream!Empty, Vocabulary, Word, Follows, FollowsAt, FollowsAtTail,
            Line, Empty
  <2>8. CASE w = Empty
    <3>1. ~ \E z \in Vocabulary \ {Empty} : Follows(r1, r2, z)
      BY <1>1, <1>5, <2>2, <2>8, DeadEnd DEF CopyNextWord
    <3> QED BY <2>1, <2>6, <2>8, <3>1
        DEF Stream!Next, Stream!Restart, Stream!Vocabulary, Stream!Word,
            Stream!Follows, Stream!FollowsAt, Stream!FollowsAtTail, Stream!Line,
            Stream!Empty, Vocabulary, Word, Follows, FollowsAt, FollowsAtTail,
            Line, Empty
  <2> QED BY <2>7, <2>8
<1>6. CASE ReturnRead
  <2>1. PICK x \in Strings : x = given \o filled
    BY <1>1, ConcatProperties DEF Strings
  <2>2. given' \o filled' = given \o filled
    BY <1>2, <1>6, <2>1 DEF ReturnRead
  <2> QED BY <1>6, <2>2 DEF ReturnRead, Stream!streamVars
<1>7. ASSUME NEW len \in Lengths, CallRead(len)
      PROVE  UNCHANGED <<given, filled, pending, r1, r2>>
  BY <1>7 DEF CallRead, ChainInv
<1>8. CASE FillToken \/ FillTail \/ UNCHANGED vars
  BY <1>3, <1>8 DEF FillToken, FillTail, vars, readVars
<1> QED BY <1>3, <1>4, <1>5, <1>6, <1>7, <1>8 DEF Next

(* Reader.Read implements the abstract stream: for every source and every  *)
(* sequence of buffer lengths, the buffers put end to end are one walk of  *)
(* the chain, cut anywhere but never altered.                              *)
THEOREM ReadImplementsStream == Spec => ImplementsStream
<1>1. Spec => []ChainInv
  BY ChainCorrect
<1> QED BY <1>1, StreamInit, StreamNext, PTL DEF Spec, ImplementsStream, Stream!Spec
-----------------------------------------------------------------------------
(* p[:n] never outgrows p, and every iteration of Read's loop puts a byte  *)
(* into it at least.                                                       *)
FitsBuffer == phase = "read" => Len(filled) <= want

LEMMA CopyGrows ==
  ASSUME TypeOK, Len(filled) < want, NEW s \in Strings, Len(s) # 0, CopyOut(s)
  PROVE  Len(filled') > Len(filled) /\ Len(filled') <= want
<1>1. Len(filled) \in Nat /\ Len(s) \in Nat /\ want \in Nat
  BY LenProperties DEF TypeOK, Strings
<1>2. PICK k \in 1 .. Len(s) : k = Copied(s) /\ Len(filled) + k <= want
  <2>1. Copied(s) \in 1 .. Len(s) /\ Len(filled) + Copied(s) <= want
    BY <1>1 DEF Copied
  <2> QED BY <2>1
<1>3. SubSeq(s, 1, k) \in Strings /\ Len(SubSeq(s, 1, k)) = k
  <2>1. \A i \in 1 .. k : s[i] \in Bytes
    BY <1>1, ElementOfSeq DEF Strings
  <2> QED BY <1>1, <2>1, SubSeqProperties DEF Strings
<1>4. filled' = filled \o SubSeq(s, 1, k)
  BY <1>2 DEF CopyOut
<1>5. Len(filled') = Len(filled) + k
  BY <1>3, <1>4, ConcatProperties DEF TypeOK, Strings
<1> QED BY <1>1, <1>2, <1>5

LEMMA IterationGrows ==
  ASSUME TypeOK, CopyPending \/ CopyNextWord
  PROVE  Len(filled') > Len(filled) /\ Len(filled') <= want /\ want' = want
<1>1. CASE CopyPending
  <2>1. Len(filled) < want /\ pending # Empty /\ CopyOut(pending) /\ want' = want
    BY <1>1 DEF CopyPending
  <2>2. pending \in Strings /\ Len(pending) # 0
    BY <2>1, EmptySeq DEF TypeOK, Strings, Empty
  <2> QED BY <2>1, <2>2, CopyGrows
<1>2. CASE CopyNextWord
  <2>1. PICK w \in Get(r1, r2) : CopyOut(Line(w))
    BY <1>2 DEF CopyNextWord
  <2>2. Len(filled) < want /\ want' = want
    BY <1>2 DEF CopyNextWord
  <2>3. r1 \in Vocabulary /\ r2 \in Vocabulary
    BY DEF TypeOK
  <2>4. w \in Strings
    BY <2>1, <2>3, GetStored, VocabularyStrings
  <2>5. Line(w) \in Strings /\ Len(Line(w)) # 0
    <3>1. Line(w) = Append(w, Newline) /\ Newline \in Bytes
      BY ChainAssumption DEF ChainAssumption, Line
    <3> QED BY <2>4, <3>1, AppendProperties, LenProperties, LineString DEF Strings
  <2> QED BY <2>1, <2>2, <2>5, CopyGrows
<1> QED BY <1>1, <1>2

(* Read fills the whole buffer and not a byte more, in no more iterations  *)
(* than the buffer has bytes: a word of no bytes still gives its newline.  *)
THEOREM ReadFillsBuffer ==
  Spec => /\ []FitsBuffer
          /\ [][phase = "read" =>
                  \/ phase' = "read" /\ Len(filled') > Len(filled) /\ want' = want
                  \/ phase' = "ready" /\ given' = given \o filled /\ Len(filled) = want]_vars
<1>1. Init => FitsBuffer
  BY DEF Init, FitsBuffer
<1>2. TypeOK /\ FitsBuffer /\ [Next]_vars => FitsBuffer'
  <2> SUFFICES ASSUME TypeOK, FitsBuffer, [Next]_vars, phase' = "read"
               PROVE  Len(filled') <= want'
    BY DEF FitsBuffer
  <2>1. CASE CopyPending \/ CopyNextWord
    BY <2>1, IterationGrows
  <2>2. ASSUME NEW len \in Lengths, CallRead(len) PROVE Len(filled') <= want'
    <3>1. filled' = <<>> /\ want' = len /\ len > 0 /\ len \in Nat
      BY <2>2, ReadAssumption DEF CallRead, ReadAssumption
    <3> QED BY <3>1
  <2>3. CASE UNCHANGED vars
    BY <2>3 DEF vars, readVars, FitsBuffer
  <2> QED BY <2>1, <2>2, <2>3 DEF Next, FillToken, FillTail, ReturnRead
<1>3. TypeOK /\ FitsBuffer /\ [Next]_vars =>
        [phase = "read" =>
           \/ phase' = "read" /\ Len(filled') > Len(filled) /\ want' = want
           \/ phase' = "ready" /\ given' = given \o filled /\ Len(filled) = want]_vars
  <2> SUFFICES ASSUME TypeOK, Next, phase = "read"
               PROVE  \/ phase' = "read" /\ Len(filled') > Len(filled) /\ want' = want
                      \/ phase' = "ready" /\ given' = given \o filled /\ Len(filled) = want
    OBVIOUS
  <2>1. CASE CopyPending \/ CopyNextWord
    <3>1. phase' = "read"
      BY <2>1 DEF CopyPending, CopyNextWord
    <3> QED BY <2>1, <3>1, IterationGrows
  <2>2. CASE ReturnRead
    BY <2>2 DEF ReturnRead
  <2> QED BY <2>1, <2>2 DEF Next, FillToken, FillTail, CallRead
<1> QED BY <1>1, <1>2, <1>3, TypeCorrect, PTL DEF Spec
=============================================================================
