-------------------------- MODULE Tokenizer_proofs --------------------------
(***************************************************************************)
(* Proofs about Tokenizer: for every text, every division of it into reads *)
(* and every size of the scanner's buffer, Fill gets the tokens of the     *)
(* text, and loses the rest of it only behind a token that fills the       *)
(* buffer.                                                                 *)
(*                                                                         *)
(* Where a scan of bytes would call for an induction over the text, the    *)
(* proofs take the least place at which something happens: Least.          *)
(***************************************************************************)
EXTENDS Tokenizer, SequenceTheorems, FiniteSetTheorems, TLAPS

(* A set of naturals has a least element: the order on them is well        *)
(* founded.                                                                *)
LEMMA Least ==
  ASSUME NEW S \in SUBSET Nat, S # {}
  PROVE  \E x \in S : \A y \in S : x <= y
<1>1. \E x \in S : \A y \in S : ~ (<<y, x>> \in OpToRel(<, Nat))
  BY NatLessThanWellFounded, WFMin, Zenon
<1>2. \A x, y \in Nat : x < y => <<x, y>> \in OpToRel(<, Nat)
  BY Zenon DEF OpToRel
<1>3. \E x \in S : \A y \in S : ~ (y < x)
  BY <1>1, <1>2, Zenon
<1> QED BY <1>3

LEMMA MinIsLeast ==
  ASSUME NEW S \in SUBSET Nat, S # {}
  PROVE  Min(S) \in S /\ \A y \in S : Min(S) <= y
BY Least DEF Min

LEMMA MinIs ==
  ASSUME NEW S \in SUBSET Nat, NEW x \in S, \A y \in S : x <= y
  PROVE  Min(S) = x
<1>1. Min(S) \in S /\ \A y \in S : Min(S) <= y
  BY MinIsLeast
<1>2. PICK m \in Nat : m = Min(S)
  BY <1>1
<1>3. m <= x /\ x <= m
  BY <1>1, <1>2
<1> QED BY <1>2, <1>3

-----------------------------------------------------------------------------
(* Spaces of one byte and of more.                                         *)

LEMMA LongSpaceIs ==
  ASSUME NEW w \in Seq(Bytes), NEW a \in Int, NEW b \in Int, LongSpace(w, a, b)
  PROVE  /\ a \in 1 .. Len(w) /\ b \in 1 .. Len(w) /\ b \in a + 1 .. a + 2
         /\ w[a] = "lead" /\ w[b] = "trail"
         /\ \A i \in a + 1 .. b - 1 : w[i] = "mid"
         /\ b = a + 2 => w[a + 1] = "mid"
         /\ \A i \in a .. b : i \in SpaceBytes(w)
<1>1. /\ a \in 1 .. Len(w) /\ b \in 1 .. Len(w) /\ b \in a + 1 .. a + 2
      /\ w[a] = "lead" /\ w[b] = "trail"
      /\ b = a + 2 => w[a + 1] = "mid"
  BY DEF LongSpace
<1>2. ASSUME NEW i \in a + 1 .. b - 1 PROVE w[i] = "mid"
  <2>1. i = a + 1 /\ b = a + 2
    BY <1>1
  <2> QED BY <1>1, <2>1
<1>3. ASSUME NEW i \in a .. b PROVE i \in SpaceBytes(w)
  <2>1. i \in 1 .. Len(w) /\ a \in i - 2 .. i /\ b \in i .. i + 2
    BY <1>1
  <2> QED BY <2>1 DEF SpaceBytes
<1> QED BY <1>1, <1>2, <1>3

LEMMA SpaceIs ==
  ASSUME NEW w \in Seq(Bytes), NEW i \in SpaceBytes(w)
  PROVE  /\ i \in 1 .. Len(w)
         /\ w[i] = "space" \/ \E a \in 1 .. i, b \in i .. Len(w) : LongSpace(w, a, b)
         /\ w[i] \in {"space", "lead", "mid", "trail"}
<1>1. i \in 1 .. Len(w)
  BY DEF SpaceBytes
<1>2. CASE w[i] = "space"
  BY <1>1, <1>2
<1>3. CASE w[i] # "space"
  <2>1. PICK a \in i - 2 .. i, b \in i .. i + 2 : LongSpace(w, a, b)
    BY <1>3 DEF SpaceBytes
  <2>2. /\ a \in 1 .. Len(w) /\ b \in 1 .. Len(w) /\ b \in a + 1 .. a + 2
        /\ w[a] = "lead" /\ w[b] = "trail"
        /\ \A k \in a + 1 .. b - 1 : w[k] = "mid"
    BY <1>1, <2>1, LongSpaceIs
  <2>3. a \in 1 .. i /\ b \in i .. Len(w)
    BY <1>1, <2>1, <2>2
  <2>4. i = a \/ i = b \/ i \in a + 1 .. b - 1
    BY <1>1, <2>2, <2>3
  <2> QED BY <1>1, <2>1, <2>2, <2>3, <2>4
<1> QED BY <1>2, <1>3

(* Where a space begins, its end is i + width.                             *)
LEMMA SpaceEndIs ==
  ASSUME NEW w \in Seq(Bytes), NEW e \in SpaceBytes(w), e - 1 \notin SpaceBytes(w)
  PROVE  /\ SpaceEnd(w, e) \in e .. Len(w)
         /\ \A i \in e .. SpaceEnd(w, e) : i \in SpaceBytes(w)
         /\ w[SpaceEnd(w, e)] \notin {"lead", "mid"}
         /\ w[e] # "mid"
<1>1. e \in 1 .. Len(w)
  BY SpaceIs
<1>2. CASE w[e] = "space"
  BY <1>1, <1>2 DEF SpaceEnd
<1>3. CASE w[e] # "space"
  <2>1. PICK a \in 1 .. e, b \in e .. Len(w) : LongSpace(w, a, b)
    BY <1>3, SpaceIs
  <2>2. /\ b \in a + 1 .. a + 2 /\ w[a] = "lead" /\ w[b] = "trail"
        /\ b = a + 2 => w[a + 1] = "mid"
        /\ \A i \in a .. b : i \in SpaceBytes(w)
    BY <1>1, <2>1, LongSpaceIs
  <2>3. a = e
    <3>1. ~ (e - 1 \in a .. b)
      BY <2>2
    <3> QED BY <1>1, <2>1, <3>1
  <2>4. SpaceEnd(w, e) = b
    <3>1. CASE b = e + 1
      BY <2>2, <2>3, <3>1 DEF SpaceEnd
    <3>2. CASE b = e + 2
      BY <2>2, <2>3, <3>2 DEF SpaceEnd
    <3> QED BY <2>2, <2>3, <3>1, <3>2
  <2> QED BY <2>1, <2>2, <2>3, <2>4
<1> QED BY <1>2, <1>3

(* No space of the text begins at b or before it and goes on after r.      *)
Whole(t, b, r) ==
  \A x \in 1 .. b, y \in r + 1 .. Len(t) : ~ LongSpace(t, x, y)

LEMMA WholeAt ==
  ASSUME NEW t \in Seq(Bytes), NEW b \in 1 .. Len(t), t[b] \notin {"lead", "mid"}
  PROVE  Whole(t, b, b)
<1> SUFFICES ASSUME NEW x \in 1 .. b, NEW y \in b + 1 .. Len(t), LongSpace(t, x, y)
             PROVE  FALSE
  BY DEF Whole
<1>1. t[x] = "lead" /\ \A i \in x + 1 .. y - 1 : t[i] = "mid"
  BY LongSpaceIs
<1>2. b = x \/ b \in x + 1 .. y - 1
  OBVIOUS
<1> QED BY <1>1, <1>2

-----------------------------------------------------------------------------
(* What is in a tag, in a word, and the first and last byte of a token.    *)

(* From its bracket to the next closing one a tag is one token.            *)
LEMMA TagRun ==
  ASSUME NEW t \in Seq(Bytes), NEW a \in 1 .. Len(t), NEW b \in a .. Len(t),
         t[a] = "<", \A k \in a .. b - 1 : t[k] # ">"
  PROVE  /\ a .. b \subseteq InTag(t)
         /\ a .. b \subseteq Solid(t)
         /\ \A i \in a + 1 .. b : i \notin Firsts(t)
<1>1. a .. b \subseteq InTag(t)
  BY DEF InTag
<1>2. ASSUME NEW i \in a + 1 .. b PROVE i \notin Firsts(t)
  <2>1. i - 1 \in a .. b /\ i - 1 \in a .. b - 1
    OBVIOUS
  <2>2. i - 1 \in InTag(t) /\ i - 1 \in Solid(t) /\ t[i - 1] # ">"
    BY <1>1, <2>1 DEF Solid
  <2> QED BY <2>2 DEF Firsts
<1> QED BY <1>1, <1>2 DEF Solid

(* Outside of tags nothing but a bracket opens one.                        *)
LEMMA OutOfTag ==
  ASSUME NEW t \in Seq(Bytes), NEW a \in 1 .. Len(t), NEW b \in a .. Len(t),
         a \notin InTag(t), \A k \in a + 1 .. b : t[k] # "<"
  PROVE  \A i \in a .. b : i \notin InTag(t)
<1> SUFFICES ASSUME NEW i \in a .. b, i \in InTag(t) PROVE FALSE
  OBVIOUS
<1>1. PICK j \in 1 .. i : t[j] = "<" /\ \A k \in j .. i - 1 : t[k] # ">"
  BY DEF InTag
<1>2. j <= a
  BY <1>1
<1>3. \A k \in j .. a - 1 : t[k] # ">"
  BY <1>1, <1>2
<1> QED BY <1>1, <1>2, <1>3 DEF InTag

(* Outside of tags, what has no space and no bracket is in one token.      *)
LEMMA WordRun ==
  ASSUME NEW t \in Seq(Bytes), NEW a \in 1 .. Len(t), NEW b \in a .. Len(t),
         a \notin InTag(t),
         \A k \in a + 1 .. b : t[k] # "<",
         \A k \in a .. b : k \notin SpaceBytes(t)
  PROVE  /\ \A i \in a .. b : i \notin InTag(t)
         /\ a .. b \subseteq Solid(t)
         /\ \A i \in a + 1 .. b : i \notin Firsts(t)
<1>1. \A i \in a .. b : i \notin InTag(t)
  BY OutOfTag
<1>2. a .. b \subseteq Solid(t)
  BY DEF Solid
<1>3. ASSUME NEW i \in a + 1 .. b PROVE i \notin Firsts(t)
  <2>1. i - 1 \in a .. b
    OBVIOUS
  <2> QED BY <1>1, <1>2, <2>1 DEF Firsts
<1> QED BY <1>1, <1>2, <1>3

(* A run of bytes that belong together, after which the text, the bytes    *)
(* that are in tokens or the token end, ends the token.                    *)
LEMMA LastIs ==
  ASSUME NEW t \in Seq(Bytes), NEW a \in 1 .. Len(t), NEW b \in a .. Len(t),
         a .. b \subseteq Solid(t),
         \A i \in a + 1 .. b : i \notin Firsts(t),
         b = Len(t) \/ b + 1 \notin Solid(t) \/ b + 1 \in Firsts(t)
  PROVE  LastOf(t, a) = b
<1> DEFINE S == {c \in a .. Len(t) : \/ c = Len(t)
                                     \/ c + 1 \notin Solid(t)
                                     \/ c + 1 \in Firsts(t)}
<1>1. S \in SUBSET Nat /\ b \in S
  OBVIOUS
<1>2. ASSUME NEW c \in S PROVE b <= c
  <2>1. SUFFICES ASSUME c < b PROVE FALSE
    OBVIOUS
  <2>2. c + 1 \in a + 1 .. b /\ c # Len(t)
    BY <2>1
  <2> QED BY <2>2
<1> HIDE DEF S
<1>3. Min(S) = b
  BY <1>1, <1>2, MinIs
<1> QED BY <1>3 DEF S, LastOf

(* However a token goes on, it has a last byte, and not before the end of  *)
(* a run of bytes that belong together.                                    *)
LEMMA LastAtLeast ==
  ASSUME NEW t \in Seq(Bytes), NEW a \in 1 .. Len(t), NEW b \in a .. Len(t),
         a .. b \subseteq Solid(t),
         \A i \in a + 1 .. b : i \notin Firsts(t)
  PROVE  LastOf(t, a) \in b .. Len(t)
<1> DEFINE S == {c \in a .. Len(t) : \/ c = Len(t)
                                     \/ c + 1 \notin Solid(t)
                                     \/ c + 1 \in Firsts(t)}
<1>1. S \in SUBSET Nat /\ Len(t) \in S
  OBVIOUS
<1>2. ASSUME NEW c \in S PROVE b <= c
  <2>1. SUFFICES ASSUME c < b PROVE FALSE
    OBVIOUS
  <2>2. c + 1 \in a + 1 .. b /\ c # Len(t)
    BY <2>1
  <2> QED BY <2>2
<1>3. S \subseteq a .. Len(t)
  OBVIOUS
<1> HIDE DEF S
<1>4. PICK m \in S : m = Min(S)
  BY <1>1, MinIsLeast
<1>5. Min(S) \in b .. Len(t)
  BY <1>2, <1>3, <1>4
<1> QED BY <1>5 DEF S, LastOf
-----------------------------------------------------------------------------
(* Counting tokens by their first bytes.                                   *)

(* The tokens that begin in the first s bytes.                             *)
Begun(t, s) == Firsts(t) \cap (1 .. s)

LEMMA CountBegun ==
  ASSUME NEW t \in Seq(Bytes), NEW s \in Nat
  PROVE  /\ IsFiniteSet(Firsts(t)) /\ IsFiniteSet(Begun(t, s))
         /\ Cardinality(Firsts(t)) \in Nat
         /\ Cardinality(Begun(t, s)) \in Nat
         /\ Cardinality(Begun(t, s)) <= s
         /\ Cardinality(Begun(t, s)) <= Cardinality(Firsts(t))
<1>1. IsFiniteSet(1 .. Len(t)) /\ IsFiniteSet(1 .. s) /\ Cardinality(1 .. s) = s
  BY FS_Interval
<1>2. Firsts(t) \subseteq 1 .. Len(t)
  BY DEF Firsts, Solid, InTag
<1>3. IsFiniteSet(Firsts(t))
  BY <1>1, <1>2, FS_Subset
<1>4. Begun(t, s) \in SUBSET Firsts(t) /\ Begun(t, s) \in SUBSET (1 .. s)
  BY DEF Begun
<1>5. /\ IsFiniteSet(Begun(t, s))
      /\ Cardinality(Begun(t, s)) <= Cardinality(Firsts(t))
  BY <1>3, <1>4, FS_Subset
<1>6. Cardinality(Begun(t, s)) <= s
  <2>1. Cardinality(Begun(t, s)) <= Cardinality(1 .. s)
    BY <1>1, <1>4, FS_Subset
  <2> QED BY <1>1, <2>1
<1> QED BY <1>3, <1>5, <1>6, FS_CardinalityType

LEMMA RankIsBegun ==
  ASSUME NEW t \in Seq(Bytes), NEW a \in Firsts(t)
  PROVE  /\ a \in 1 .. Len(t)
         /\ {b \in Firsts(t) : b <= a} = Begun(t, a)
         /\ Rank(t, a) = Cardinality(Begun(t, a))
<1>1. Firsts(t) \subseteq 1 .. Len(t)
  BY DEF Firsts, Solid, InTag
<1>2. {b \in Firsts(t) : b <= a} = Begun(t, a)
  BY <1>1 DEF Begun
<1> QED BY <1>1, <1>2 DEF Rank

(* No two tokens have one rank.                                            *)
LEMMA RankGrows ==
  ASSUME NEW t \in Seq(Bytes), NEW a \in Firsts(t), NEW b \in Firsts(t), a < b
  PROVE  Rank(t, a) < Rank(t, b)
<1>1. a \in 1 .. Len(t) /\ b \in 1 .. Len(t)
  BY RankIsBegun
<1>2. /\ IsFiniteSet(Begun(t, a)) /\ IsFiniteSet(Begun(t, b))
      /\ Cardinality(Begun(t, a)) \in Nat /\ Cardinality(Begun(t, b)) \in Nat
  BY <1>1, CountBegun
<1>3. Begun(t, a) \cup {b} \in SUBSET Begun(t, b) /\ b \notin Begun(t, a)
  BY <1>1 DEF Begun
<1>4. Cardinality(Begun(t, a) \cup {b}) = Cardinality(Begun(t, a)) + 1
  BY <1>2, <1>3, FS_AddElement
<1>5. Cardinality(Begun(t, a) \cup {b}) <= Cardinality(Begun(t, b))
  BY <1>2, <1>3, FS_Subset
<1>6. Rank(t, a) = Cardinality(Begun(t, a)) /\ Rank(t, b) = Cardinality(Begun(t, b))
  BY RankIsBegun
<1> QED BY <1>2, <1>4, <1>5, <1>6

(* A token stands in the sequence at its rank.                             *)
LEMMA TokenAtRank ==
  ASSUME NEW t \in Seq(Bytes), NEW a \in Firsts(t)
  PROVE  /\ Rank(t, a) \in 1 .. Cardinality(Firsts(t))
         /\ Tokens(t)[Rank(t, a)] = SubSeq(t, a, LastOf(t, a))
<1>1. a \in 1 .. Len(t)
  BY RankIsBegun
<1>2. /\ IsFiniteSet(Begun(t, a)) /\ Rank(t, a) = Cardinality(Begun(t, a))
      /\ Cardinality(Firsts(t)) \in Nat /\ Rank(t, a) \in Nat
      /\ Rank(t, a) <= Cardinality(Firsts(t))
  BY <1>1, CountBegun, RankIsBegun
<1>3. Rank(t, a) # 0
  <2>1. a \in Begun(t, a)
    BY <1>1 DEF Begun
  <2> QED BY <1>2, <2>1, FS_EmptySet
<1>4. Rank(t, a) \in 1 .. Cardinality(Firsts(t))
  BY <1>2, <1>3
<1>5. ASSUME NEW b \in Firsts(t), Rank(t, b) = Rank(t, a) PROVE b = a
  <2>1. b \in 1 .. Len(t)
    BY RankIsBegun
  <2>2. ~ (a < b) /\ ~ (b < a)
    BY <1>2, <1>5, RankGrows
  <2> QED BY <1>1, <2>1, <2>2
<1>6. (CHOOSE b \in Firsts(t) : Rank(t, b) = Rank(t, a)) = a
  BY <1>5
<1> QED BY <1>4, <1>6 DEF Tokens

LEMMA TokensSeq ==
  ASSUME NEW t \in Seq(Bytes)
  PROVE  /\ \E S : Tokens(t) \in Seq(S)
         /\ Len(Tokens(t)) = Cardinality(Firsts(t))
<1>1. PICK m \in Nat : m = Cardinality(Firsts(t))
  <2>1. Cardinality(Firsts(t)) \in Nat
    BY CountBegun
  <2> QED BY <2>1
<1>2. PICK T : T = Tokens(t)
  OBVIOUS
<1>3. DOMAIN T = 1 .. m /\ T = [k \in 1 .. m |-> T[k]]
  <2> DEFINE E(k) == LET a == CHOOSE a \in Firsts(t) : Rank(t, a) = k
                     IN SubSeq(t, a, LastOf(t, a))
  <2>1. T = [k \in 1 .. m |-> E(k)]
    BY <1>1, <1>2, Zenon DEF Tokens
  <2> HIDE DEF E
  <2> QED BY <2>1
<1>4. T \in [1 .. m -> {T[k] : k \in 1 .. m}]
  BY <1>3
<1>5. T \in Seq({T[k] : k \in 1 .. m})
  BY <1>4
<1>6. Len(T) = m
  BY <1>3, <1>5
<1> QED BY <1>1, <1>2, <1>5, <1>6

(* A scan that passes the first byte of one token, and ends after the last *)
(* one of it, has found the next token of the text.                        *)
LEMMA NextToken ==
  ASSUME NEW t \in Seq(Bytes), NEW s \in 0 .. Len(t), NEW s1 \in 0 .. Len(t),
         NEW a \in Firsts(t), s < a, a <= s1,
         \A i \in s + 1 .. s1 : i # a => i \notin Firsts(t)
  PROVE  /\ Cardinality(Begun(t, s1)) = Cardinality(Begun(t, s)) + 1
         /\ Cardinality(Begun(t, s1)) \in 1 .. Cardinality(Firsts(t))
         /\ Tokens(t)[Cardinality(Begun(t, s1))] = SubSeq(t, a, LastOf(t, a))
<1>1. a \in 1 .. Len(t)
  BY RankIsBegun
<1>2. Begun(t, s1) = Begun(t, s) \cup {a} /\ Begun(t, a) = Begun(t, s1) /\ a \notin Begun(t, s)
  BY <1>1 DEF Begun
<1>3. IsFiniteSet(Begun(t, s)) /\ Cardinality(Begun(t, s)) \in Nat
  BY CountBegun
<1>4. Cardinality(Begun(t, s) \cup {a}) = Cardinality(Begun(t, s)) + 1
  BY <1>2, <1>3, FS_AddElement
<1>5. Rank(t, a) = Cardinality(Begun(t, s1))
  BY <1>2, RankIsBegun
<1> QED BY <1>2, <1>4, <1>5, TokenAtRank
-----------------------------------------------------------------------------
(* The window: what ScanHTML sees of the text from a fresh place on.       *)

(* A scan may go on at s as if the text began there: no tag is open, no    *)
(* word goes on, and no rune is cut.                                       *)
Fresh(t, s) ==
  \/ s = Len(t)
  \/ /\ \A j \in 1 .. s : t[j] = "<" => \E k \in j .. s : t[k] = ">"
     /\ s \notin Solid(t) \/ s \in InTag(t) \/ t[s + 1] = "<"
     /\ Whole(t, s, s)

(* A window onto the bytes from s + 1 to r.                                *)
Shows(w, t, s, r) ==
  /\ w \in Seq(Bytes)
  /\ Len(w) = r - s
  /\ \A i \in 1 .. Len(w) : w[i] = t[s + i]

LEMMA SubSeqShows ==
  ASSUME NEW t \in Seq(Bytes), NEW s \in 0 .. Len(t), NEW r \in s .. Len(t)
  PROVE  Shows(SubSeq(t, s + 1, r), t, s, r)
<1>1. \A i \in s + 1 .. r : t[i] \in Bytes
  OBVIOUS
<1>2. PICK w : w = SubSeq(t, s + 1, r)
  OBVIOUS
<1>3. s + 1 \in Int /\ r \in Int
  OBVIOUS
<1>4. /\ w \in Seq(Bytes)
      /\ Len(w) = IF s + 1 <= r THEN r - (s + 1) + 1 ELSE 0
      /\ \A i \in 1 .. r - (s + 1) + 1 : w[i] = t[s + 1 + i - 1]
  BY <1>1, <1>2, <1>3, SubSeqProperties
<1>5. Shows(w, t, s, r)
  BY <1>4 DEF Shows
<1> QED BY <1>2, <1>5

LEMMA ShowsIsSubSeq ==
  ASSUME NEW t \in Seq(Bytes), NEW s \in 0 .. Len(t), NEW r \in s .. Len(t),
         NEW w, Shows(w, t, s, r)
  PROVE  w = SubSeq(t, s + 1, r)
<1>1. PICK v : v = SubSeq(t, s + 1, r)
  OBVIOUS
<1>2. Shows(v, t, s, r)
  BY <1>1, SubSeqShows
<1>3. /\ w \in Seq(Bytes) /\ v \in Seq(Bytes) /\ Len(w) = Len(v)
      /\ \A i \in 1 .. Len(w) : w[i] = v[i]
  BY <1>2 DEF Shows
<1>4. w = v
  BY <1>3, SeqEqual
<1> QED BY <1>1, <1>4

(* A piece of the window is a piece of the text.                           *)
LEMMA PieceShown ==
  ASSUME NEW t \in Seq(Bytes), NEW s \in 0 .. Len(t), NEW r \in s .. Len(t),
         NEW w, Shows(w, t, s, r),
         NEW f \in 1 .. Len(w), NEW e \in f .. Len(w),
         NEW b, b = s + e
  PROVE  Shows(SubSeq(w, f, e), t, s + (f - 1), b)
<1>1. w \in Seq(Bytes) /\ Len(w) = r - s /\ \A i \in 1 .. Len(w) : w[i] = t[s + i]
  BY DEF Shows
<1>2. PICK g \in 0 .. Len(w) : g = f - 1
  BY <1>1
<1>3. g + 1 = f /\ e \in g .. Len(w)
  BY <1>1, <1>2
<1>4. Shows(SubSeq(w, f, e), w, g, e)
  BY <1>1, <1>3, SubSeqShows
<1>5. PICK q : q = SubSeq(w, f, e)
  OBVIOUS
<1>6. /\ q \in Seq(Bytes) /\ Len(q) = e - g
      /\ \A i \in 1 .. Len(q) : q[i] = w[g + i]
  BY <1>4, <1>5 DEF Shows
<1>7. ASSUME NEW i \in 1 .. Len(q) PROVE q[i] = t[s + (f - 1) + i]
  <2>1. g + i \in 1 .. Len(w) /\ s + (g + i) = s + (f - 1) + i
    BY <1>1, <1>2, <1>6
  <2> QED BY <1>1, <1>6, <2>1
<1>8. Len(q) = b - (s + (f - 1))
  BY <1>1, <1>2, <1>6
<1>9. Shows(q, t, s + (f - 1), b)
  BY <1>6, <1>7, <1>8 DEF Shows
<1> QED BY <1>5, <1>9

(* A space of the window is one of the text.                               *)
LEMMA LongSpaceShown ==
  ASSUME NEW t \in Seq(Bytes), NEW s \in 0 .. Len(t), NEW r \in s .. Len(t),
         NEW w, Shows(w, t, s, r), NEW a \in 1 .. Len(w), NEW b \in 1 .. Len(w)
  PROVE  LongSpace(w, a, b) <=> LongSpace(t, s + a, s + b)
<1>1. w \in Seq(Bytes) /\ Len(w) = r - s /\ \A k \in 1 .. Len(w) : w[k] = t[s + k]
  BY DEF Shows
<1>2. w[a] = t[s + a] /\ w[b] = t[s + b]
  BY <1>1
<1>3. 1 <= a /\ b <= Len(w) /\ 1 <= s + a /\ s + b <= Len(t)
  BY <1>1
<1>4. b = a + 1 <=> s + b = (s + a) + 1
  BY <1>1
<1>5. b = a + 2 <=> s + b = (s + a) + 2
  BY <1>1
<1>6. b = a + 2 => w[a + 1] = t[(s + a) + 1]
  <2>1. b = a + 2 => a + 1 \in 1 .. Len(w) /\ s + (a + 1) = (s + a) + 1
    BY <1>1
  <2> QED BY <1>1, <2>1
<1> QED BY <1>2, <1>3, <1>4, <1>5, <1>6 DEF LongSpace

(* One of the text is missed only where the window ends in the middle of   *)
(* it.                                                                     *)
LEMMA WindowSpaces ==
  ASSUME NEW t \in Seq(Bytes), NEW s \in 0 .. Len(t), NEW r \in s .. Len(t),
         Fresh(t, s), NEW w, Shows(w, t, s, r), NEW i \in 1 .. Len(w)
  PROVE  /\ i \in SpaceBytes(w) => s + i \in SpaceBytes(t)
         /\ s + i \in SpaceBytes(t) /\ i \notin SpaceBytes(w)
              => ~ Whole(t, s + i, r)
<1>1. w \in Seq(Bytes) /\ Len(w) = r - s /\ \A k \in 1 .. Len(w) : w[k] = t[s + k]
  BY DEF Shows
<1>2. i \in SpaceBytes(w) => s + i \in SpaceBytes(t)
  <2> SUFFICES ASSUME i \in SpaceBytes(w) PROVE s + i \in SpaceBytes(t)
    OBVIOUS
  <2>1. CASE w[i] = "space"
    BY <1>1, <2>1 DEF SpaceBytes
  <2>2. CASE w[i] # "space"
    <3>1. PICK a \in 1 .. i, b \in i .. Len(w) : LongSpace(w, a, b)
      BY <1>1, <2>2, SpaceIs
    <3>2. a \in 1 .. Len(w) /\ b \in 1 .. Len(w)
      BY <1>1
    <3>3. LongSpace(t, s + a, s + b)
      BY <3>1, <3>2, LongSpaceShown
    <3>4. s + a \in Int /\ s + b \in Int /\ s + i \in s + a .. s + b
      BY <1>1
    <3> QED BY <3>3, <3>4, LongSpaceIs
  <2> QED BY <2>1, <2>2
<1>3. ASSUME s + i \in SpaceBytes(t), i \notin SpaceBytes(w) PROVE ~ Whole(t, s + i, r)
  <2>1. t[s + i] # "space"
    BY <1>1, <1>3 DEF SpaceBytes
  <2>2. PICK a \in 1 .. s + i, b \in s + i .. Len(t) : LongSpace(t, a, b)
    BY <1>3, <2>1, SpaceIs
  <2>3. a > s
    BY <1>1, <2>2 DEF Fresh, Whole
  <2>4. b > r
    <3> SUFFICES ASSUME b <= r PROVE FALSE
      BY <1>1
    <3>1. PICK x \in 1 .. Len(w) : s + x = a
      <4>1. a - s \in 1 .. Len(w) /\ s + (a - s) = a
        BY <1>1, <2>3
      <4> QED BY <4>1
    <3>2. PICK y \in 1 .. Len(w) : s + y = b
      <4>1. b - s \in 1 .. Len(w) /\ s + (b - s) = b
        BY <1>1
      <4> QED BY <4>1
    <3>3. LongSpace(w, x, y)
      BY <2>2, <3>1, <3>2, LongSpaceShown
    <3>4. i \in x .. y
      BY <1>1, <3>1, <3>2
    <3> QED BY <1>1, <1>3, <3>3, <3>4, LongSpaceIs
  <2>5. a \in 1 .. s + i /\ b \in r + 1 .. Len(t)
    BY <1>1, <2>4
  <2> QED BY <2>2, <2>5 DEF Whole
<1> QED BY <1>2, <1>3

(* The leading spaces, and what they are to the text.                      *)
LEMMA FirstTextIs ==
  ASSUME NEW w \in Seq(Bytes), NEW f, f = FirstText(w)
  PROVE  /\ f \in 1 .. Len(w) + 1
         /\ f \notin SpaceBytes(w)
         /\ \A i \in 1 .. f - 1 : i \in SpaceBytes(w)
<1> DEFINE S == (1 .. Len(w) + 1) \ SpaceBytes(w)
<1>1. S \in SUBSET Nat /\ Len(w) + 1 \in S
  BY DEF SpaceBytes
<1>2. f \in S /\ \A i \in S : f <= i
  <2> HIDE DEF S
  <2>1. Min(S) \in S /\ \A i \in S : Min(S) <= i
    BY <1>1, MinIsLeast
  <2> QED BY <2>1 DEF S, FirstText
<1> QED BY <1>1, <1>2

LEMMA LeadingSpaces ==
  ASSUME NEW t \in Seq(Bytes), NEW s \in 0 .. Len(t), NEW r \in s .. Len(t),
         Fresh(t, s), NEW w, Shows(w, t, s, r), NEW f, f = FirstText(w)
  PROVE  /\ \A i \in s + 1 .. s + f - 1 : /\ i \in SpaceBytes(t)
                                          /\ i \notin InTag(t)
                                          /\ i \notin Solid(t)
                                          /\ t[i] # "<"
         /\ f <= Len(w) => (s + f \in InTag(t) <=> t[s + f] = "<")
<1>0. ASSUME NEW i \in 1 .. Len(w), i \in SpaceBytes(w) PROVE s + i \in SpaceBytes(t)
  BY WindowSpaces, <1>0
<1>1. w \in Seq(Bytes) /\ Len(w) = r - s /\ \A i \in 1 .. Len(w) : w[i] = t[s + i]
  BY DEF Shows
<1>2. /\ f \in 1 .. Len(w) + 1
      /\ \A i \in 1 .. f - 1 : i \in SpaceBytes(w)
  BY <1>1, FirstTextIs
<1>3. ASSUME NEW i \in s + 1 .. s + f - 1
      PROVE  i \in SpaceBytes(t) /\ t[i] # "<"
  <2>1. i - s \in 1 .. Len(w) /\ i - s \in 1 .. f - 1
    BY <1>1, <1>2
  <2>2. PICK p \in 1 .. Len(w) : p = i - s
    BY <2>1
  <2>3. p \in SpaceBytes(w) /\ s + p = i
    BY <1>2, <2>1, <2>2
  <2>4. i \in SpaceBytes(t)
    BY <1>0, <2>2, <2>3
  <2> QED BY <2>4, SpaceIs
<1>4. ASSUME NEW i \in s + 1 .. s + f, i \in InTag(t), s # Len(t)
      PROVE  t[i] = "<"
  <2>1. PICK j \in 1 .. i : t[j] = "<" /\ \A k \in j .. i - 1 : t[k] # ">"
    BY <1>4 DEF InTag
  <2>2. ~ (j <= s)
    BY <1>4, <2>1 DEF Fresh
  <2>3. ~ (j \in s + 1 .. s + f - 1)
    BY <1>3, <2>1
  <2> QED BY <1>2, <2>1, <2>2, <2>3
<1>5. s = Len(t) => Len(w) = 0 /\ f = 1
  BY <1>1, <1>2
<1>6. ASSUME NEW i \in s + 1 .. s + f - 1 PROVE i \notin InTag(t) /\ i \notin Solid(t)
  <2>1. i \in s + 1 .. s + f /\ s # Len(t)
    BY <1>2, <1>5
  <2>2. i \notin InTag(t)
    BY <1>3, <1>4, <2>1
  <2> QED BY <1>3, <2>2 DEF Solid
<1>7. f <= Len(w) => (s + f \in InTag(t) <=> t[s + f] = "<")
  <2> SUFFICES ASSUME f <= Len(w) PROVE s + f \in InTag(t) <=> t[s + f] = "<"
    OBVIOUS
  <2>1. s # Len(t) /\ s + f \in 1 .. Len(t) /\ s + f \in s + 1 .. s + f
    BY <1>1, <1>2
  <2>2. t[s + f] = "<" => s + f \in InTag(t)
    BY <2>1 DEF InTag
  <2> QED BY <1>4, <2>1, <2>2
<1> QED BY <1>3, <1>6, <1>7

(* What begins the window begins a token.                                  *)
LEMMA TokenBegins ==
  ASSUME NEW t \in Seq(Bytes), NEW s \in 0 .. Len(t), NEW r \in s .. Len(t),
         Fresh(t, s), NEW w, Shows(w, t, s, r), NEW f, f = FirstText(w),
         f <= Len(w), s + f \in Solid(t)
  PROVE  s + f \in Firsts(t)
<1>1. w \in Seq(Bytes) /\ Len(w) = r - s /\ \A i \in 1 .. Len(w) : w[i] = t[s + i]
  BY DEF Shows
<1>2. f \in 1 .. Len(w) + 1
  BY <1>1, FirstTextIs
<1>3. CASE f # 1
  <2>1. PICK p \in s + 1 .. s + f - 1 : p = (s + f) - 1
    BY <1>2, <1>3
  <2>2. p \notin Solid(t)
    BY LeadingSpaces
  <2> QED BY <2>1, <2>2 DEF Firsts
<1>4. CASE f = 1
  <2>1. s # Len(t)
    BY <1>1, <1>4
  <2>2. s \in InTag(t) => t[s] = ">"
    <3> SUFFICES ASSUME s \in InTag(t) PROVE t[s] = ">"
      OBVIOUS
    <3>1. PICK j \in 1 .. s : t[j] = "<" /\ \A k \in j .. s - 1 : t[k] # ">"
      BY DEF InTag
    <3>2. PICK k \in j .. s : t[k] = ">"
      BY <2>1, <3>1 DEF Fresh
    <3> QED BY <3>1, <3>2
  <2>3. s + f - 1 = s /\ s + 1 = s + f
    BY <1>4
  <2> QED BY <2>1, <2>2, <2>3 DEF Fresh, Firsts
<1> QED BY <1>3, <1>4
-----------------------------------------------------------------------------
(* One call of ScanHTML.                                                   *)

(* From s to s1 a scan has passed one token, which is what it returns.     *)
Passes(t, s, s1, token) ==
  /\ Cardinality(Begun(t, s1)) = Cardinality(Begun(t, s)) + 1
  /\ Cardinality(Begun(t, s1)) \in 1 .. Cardinality(Firsts(t))
  /\ token = Tokens(t)[Cardinality(Begun(t, s1))]
  /\ token \in Seq(Bytes) \ {<<>>}

LEMMA TokenPassed ==
  ASSUME NEW t \in Seq(Bytes), NEW s \in 0 .. Len(t), NEW s1 \in 0 .. Len(t),
         NEW a \in Firsts(t), NEW b \in a .. s1, s < a,
         \A i \in s + 1 .. a - 1 : i \notin Solid(t),
         a .. b \subseteq Solid(t),
         \A i \in a + 1 .. b : i \notin Firsts(t),
         b = Len(t) \/ b + 1 \notin Solid(t) \/ b + 1 \in Firsts(t),
         \A i \in b + 1 .. s1 : i \notin Solid(t),
         NEW q, Shows(q, t, a - 1, b)
  PROVE  Passes(t, s, s1, q)
<1>1. a \in 1 .. Len(t) /\ b \in a .. Len(t)
  BY RankIsBegun
<1>2. LastOf(t, a) = b
  BY <1>1, LastIs
<1>3. ASSUME NEW i \in s + 1 .. s1, i # a PROVE i \notin Firsts(t)
  <2>1. i \in s + 1 .. a - 1 \/ i \in a + 1 .. b \/ i \in b + 1 .. s1
    BY <1>1, <1>3
  <2> QED BY <2>1 DEF Firsts
<1>4. a <= s1
  BY <1>1
<1>5. /\ Cardinality(Begun(t, s1)) = Cardinality(Begun(t, s)) + 1
      /\ Cardinality(Begun(t, s1)) \in 1 .. Cardinality(Firsts(t))
      /\ Tokens(t)[Cardinality(Begun(t, s1))] = SubSeq(t, a, b)
  BY <1>2, <1>3, <1>4, NextToken
<1>6. q = SubSeq(t, a, b)
  <2>1. PICK c \in 0 .. Len(t) : c = a - 1
    BY <1>1
  <2>2. c + 1 = a /\ b \in c .. Len(t)
    BY <1>1, <2>1
  <2> QED BY <2>1, <2>2, ShowsIsSubSeq
<1>7. q \in Seq(Bytes) \ {<<>>}
  BY <1>1 DEF Shows
<1> QED BY <1>5, <1>6, <1>7 DEF Passes

(* Case 1: the closing bracket of a tag is in the window.                  *)
LEMMA TagEnds ==
  ASSUME NEW t \in Seq(Bytes), NEW s \in 0 .. Len(t), NEW r \in s .. Len(t),
         Fresh(t, s), NEW w, Shows(w, t, s, r), NEW f, f = FirstText(w),
         f <= Len(w), w[f] = "<",
         NEW e \in f .. Len(w), w[e] = ">", \A i \in f .. e - 1 : w[i] # ">"
  PROVE  /\ Passes(t, s, s + e, SubSeq(w, f, e))
         /\ Fresh(t, s + e)
<1>1. w \in Seq(Bytes) /\ Len(w) = r - s /\ \A i \in 1 .. Len(w) : w[i] = t[s + i]
  BY DEF Shows
<1>2. f \in 1 .. Len(w)
  BY <1>1, FirstTextIs
<1> DEFINE a == s + f
           b == s + e
<1>3. /\ a \in 1 .. Len(t) /\ b \in a .. Len(t)
      /\ s < a /\ t[a] = "<" /\ t[b] = ">"
  <2>1. e \in 1 .. Len(w)
    BY <1>2
  <2>2. w[f] = t[s + f] /\ w[e] = t[s + e]
    BY <1>1, <1>2, <2>1
  <2>3. s + f \in 1 .. Len(t) /\ s < s + f
    BY <1>1, <1>2
  <2>4. s + e \in s + f .. Len(t)
    BY <1>1, <1>2, <2>1
  <2> QED BY <2>2, <2>3, <2>4
<1>4. ASSUME NEW k \in a .. b - 1 PROVE t[k] # ">"
  <2>1. k - s \in f .. e - 1 /\ k - s \in 1 .. Len(w) /\ s + (k - s) = k
    BY <1>1, <1>2, <1>4
  <2> QED BY <1>1, <2>1
<1> HIDE DEF a, b
<1>5. /\ a .. b \subseteq InTag(t)
      /\ a .. b \subseteq Solid(t)
      /\ \A i \in a + 1 .. b : i \notin Firsts(t)
  BY <1>3, <1>4, TagRun
<1>6. b \in InTag(t) /\ a \in Solid(t)
  BY <1>3, <1>5
<1>7. b = Len(t) \/ b + 1 \notin Solid(t) \/ b + 1 \in Firsts(t)
  BY <1>3, <1>6 DEF Firsts
<1>8. a \in Firsts(t)
  BY <1>2, <1>6, TokenBegins DEF a
<1>9. \A i \in s + 1 .. a - 1 : i \notin Solid(t)
  <2>1. \A i \in s + 1 .. s + f - 1 : i \notin Solid(t)
    BY LeadingSpaces
  <2> QED BY <1>2, <2>1 DEF a
<1>10. Shows(SubSeq(w, f, e), t, a - 1, b)
  <2>1. Shows(SubSeq(w, f, e), t, s + (f - 1), b)
    BY <1>2, PieceShown DEF b
  <2>2. s + (f - 1) = a - 1
    BY <1>2 DEF a
  <2> QED BY <2>1, <2>2
<1>11. Passes(t, s, b, SubSeq(w, f, e))
  <2>1. b \in 0 .. Len(t) /\ b \in a .. b /\ \A i \in b + 1 .. b : i \notin Solid(t)
    BY <1>3
  <2> QED BY <1>3, <1>5, <1>7, <1>8, <1>9, <1>10, <2>1, TokenPassed
<1>12. Fresh(t, b)
  <2>1. \A j \in 1 .. b : \E k \in j .. b : t[k] = ">"
    BY <1>3
  <2>2. Whole(t, b, b)
    BY <1>3, WholeAt
  <2> QED BY <1>3, <1>6, <2>1, <2>2 DEF Fresh
<1> QED BY <1>11, <1>12 DEF b

(* A word in the window, up to where it is seen to end or the window does: *)
(* the bytes from a to b of the text.                                      *)
LEMMA WordSeen ==
  ASSUME NEW t \in Seq(Bytes), NEW s \in 0 .. Len(t), NEW r \in s .. Len(t),
         Fresh(t, s), NEW w, Shows(w, t, s, r), NEW f, f = FirstText(w),
         f <= Len(w), w[f] # "<",
         NEW a, a = s + f, NEW b \in a .. r,
         \A i \in f .. b - s : i \notin SpaceBytes(w) /\ w[i] # "<",
         Whole(t, b, r)
  PROVE  /\ a \in Firsts(t)
         /\ a .. b \subseteq Solid(t)
         /\ \A i \in a .. b : i \notin InTag(t)
         /\ \A i \in a + 1 .. b : i \notin Firsts(t)
<1>1. w \in Seq(Bytes) /\ Len(w) = r - s /\ \A i \in 1 .. Len(w) : w[i] = t[s + i]
  BY DEF Shows
<1>2. f \in 1 .. Len(w)
  BY <1>1, FirstTextIs
<1>3. a \in 1 .. Len(t) /\ b \in a .. Len(t) /\ t[a] # "<"
  BY <1>1, <1>2
<1>4. a \notin InTag(t)
  BY <1>3, LeadingSpaces
<1>5. ASSUME NEW k \in a .. b PROVE t[k] # "<" /\ k \notin SpaceBytes(t)
  <2>1. PICK p \in 1 .. Len(w) : p = k - s
    <3>1. k - s \in 1 .. Len(w)
      BY <1>1, <1>2, <1>3, <1>5
    <3> QED BY <3>1
  <2>2. p \in f .. b - s /\ s + p = k
    BY <1>1, <1>2, <1>3, <1>5, <2>1
  <2>3. p \notin SpaceBytes(w) /\ w[p] # "<" /\ w[p] = t[k]
    BY <1>1, <2>1, <2>2
  <2>6. s + p \notin SpaceBytes(t)
    <3>1. s + p \in SpaceBytes(t) /\ p \notin SpaceBytes(w) => ~ Whole(t, s + p, r)
      BY <2>1, WindowSpaces
    <3>2. Whole(t, k, r)
      BY <1>3, <1>5 DEF Whole
    <3> QED BY <2>2, <2>3, <3>1, <3>2
  <2> QED BY <2>2, <2>3, <2>6
<1>6. /\ \A i \in a .. b : i \notin InTag(t)
      /\ a .. b \subseteq Solid(t)
      /\ \A i \in a + 1 .. b : i \notin Firsts(t)
  <2>1. \A k \in a + 1 .. b : t[k] # "<"
    BY <1>3, <1>5
  <2> QED BY <1>3, <1>4, <1>5, <2>1, WordRun
<1>7. a \in Firsts(t)
  <2>1. a \in Solid(t)
    BY <1>3, <1>6
  <2> QED BY <1>2, <2>1, TokenBegins
<1> QED BY <1>6, <1>7

(* Case 2: what ends a word is in the window.                              *)
LEMMA WordEnds ==
  ASSUME NEW t \in Seq(Bytes), NEW s \in 0 .. Len(t), NEW r \in s .. Len(t),
         Fresh(t, s), NEW w, Shows(w, t, s, r), NEW f, f = FirstText(w),
         f <= Len(w), w[f] # "<",
         NEW e \in f .. Len(w), e \in SpaceBytes(w) \/ w[e] = "<",
         \A i \in f .. e - 1 : i \notin SpaceBytes(w) /\ w[i] # "<",
         NEW s1, s1 = s + (IF w[e] = "<" THEN e - 1 ELSE SpaceEnd(w, e))
  PROVE  /\ s1 \in s .. r
         /\ Passes(t, s, s1, SubSeq(w, f, e - 1))
         /\ Fresh(t, s1)
<1>1. w \in Seq(Bytes) /\ Len(w) = r - s /\ \A i \in 1 .. Len(w) : w[i] = t[s + i]
  BY DEF Shows
<1>2. f \in 1 .. Len(w) /\ f \notin SpaceBytes(w)
  BY <1>1, FirstTextIs
<1>3. e # f /\ e \in 1 .. Len(w) /\ e - 1 \in f .. Len(w)
  BY <1>1, <1>2
<1>4. PICK a : a = s + f
  OBVIOUS
<1>5. PICK b : b = s + (e - 1)
  OBVIOUS
<1>6. /\ a \in 1 .. Len(t) /\ b \in a .. r /\ b < r /\ b - s = e - 1 /\ b + 1 = s + e
      /\ b + 1 \in 1 .. Len(t) /\ t[b + 1] = w[e]
  <2>1. a \in 1 .. Len(t)
    BY <1>1, <1>2, <1>4
  <2>2. b \in a .. r /\ b < r /\ b - s = e - 1 /\ b + 1 = s + e
    BY <1>1, <1>2, <1>3, <1>4, <1>5
  <2>3. t[s + e] = w[e] /\ s + e \in 1 .. Len(t)
    BY <1>1, <1>3
  <2> QED BY <2>1, <2>2, <2>3
<1>0. w[e] # "<" =>
        /\ SpaceEnd(w, e) \in e .. Len(w)
        /\ \A i \in e .. SpaceEnd(w, e) : i \in SpaceBytes(w)
        /\ w[SpaceEnd(w, e)] \notin {"lead", "mid"}
        /\ w[e] # "mid"
  <2>1. e - 1 \notin SpaceBytes(w)
    BY <1>3
  <2> QED BY <1>1, <2>1, SpaceEndIs
<1>7. /\ a \in Firsts(t)
      /\ a .. b \subseteq Solid(t)
      /\ \A i \in a .. b : i \notin InTag(t)
      /\ \A i \in a + 1 .. b : i \notin Firsts(t)
  <2>1. Whole(t, b, r)
    <3> SUFFICES ASSUME NEW x \in 1 .. b, NEW y \in r + 1 .. Len(t), LongSpace(t, x, y)
                 PROVE  FALSE
      BY DEF Whole
    <3>1. \A i \in x + 1 .. y - 1 : t[i] = "mid"
      BY <1>6, LongSpaceIs
    <3>2. b + 1 \in x + 1 .. y - 1
      BY <1>6
    <3> QED BY <1>0, <1>6, <3>1, <3>2
  <2> QED BY <1>4, <1>6, <2>1, WordSeen
<1>8. ASSUME NEW c \in b .. r, \A i \in b + 1 .. c : t[i] # "<" /\ i \in SpaceBytes(t)
      PROVE  \A i \in b + 1 .. c : i \notin InTag(t) /\ i \notin Solid(t)
  <2>1. b \in 1 .. Len(t) /\ c \in b .. Len(t) /\ b \notin InTag(t)
    BY <1>6, <1>7
  <2>2. \A i \in b .. c : i \notin InTag(t)
    BY <1>8, <2>1, OutOfTag
  <2> QED BY <1>6, <1>8, <2>2 DEF Solid
(* What the scan has passed is a word and the spaces around it.            *)
<1>10. /\ s1 \in b .. r
       /\ b + 1 \notin Solid(t) \/ b + 1 \in Firsts(t)
       /\ \A i \in b + 1 .. s1 : i \notin InTag(t) /\ i \notin Solid(t)
       /\ s1 \notin Solid(t) \/ t[s1 + 1] = "<"
       /\ Whole(t, s1, s1)
  <2>1. CASE w[e] = "<"
    <3>1. s1 = b
      BY <1>5, <2>1
    <3>2. b \in Solid(t) /\ b \notin InTag(t)
      BY <1>6, <1>7
    <3>3. b + 1 \in InTag(t) /\ b + 1 - 1 = b
      BY <1>6, <2>1 DEF InTag
    <3>4. b + 1 \in Firsts(t)
      BY <1>6, <2>1, <3>2, <3>3 DEF Firsts, Solid
    <3>5. Whole(t, b, b)
      <4> SUFFICES ASSUME NEW x \in 1 .. b, NEW y \in b + 1 .. Len(t), LongSpace(t, x, y)
                   PROVE  FALSE
        BY DEF Whole
      <4>1. b + 1 \in x .. y
        BY <1>6
      <4>2. b + 1 \in SpaceBytes(t)
        BY <1>6, <4>1, LongSpaceIs
      <4> QED BY <1>6, <2>1, <4>2, SpaceIs
    <3> QED BY <1>6, <2>1, <3>1, <3>4, <3>5
  <2>2. CASE w[e] # "<"
    <3>1. PICK c \in e .. Len(w) : c = SpaceEnd(w, e)
      BY <1>0, <2>2
    <3>2. c \in 1 .. Len(w) /\ s1 = s + c
      BY <1>3, <2>2, <3>1
    <3>0. e \in Int /\ c \in Int /\ e <= c /\ c <= r - s /\ b + 1 = s + e /\ b \in Int
      BY <1>1, <1>3, <1>6, <3>1
    <3>3. s1 \in b .. r /\ s1 \in 1 .. Len(t) /\ s1 \in b + 1 .. r /\ t[s1] = w[c]
      <4>1. s1 \in b + 1 .. r /\ s1 \in Int
        BY <3>0, <3>2
      <4>2. s1 \in b .. r /\ s1 \in 1 .. Len(t)
        BY <1>6, <4>1
      <4>3. t[s + c] = w[c]
        BY <1>1, <3>2
      <4> QED BY <3>2, <4>1, <4>2, <4>3
    <3>4. ASSUME NEW i \in b + 1 .. s1 PROVE i \in SpaceBytes(t) /\ t[i] # "<"
      <4>1. PICK k \in 1 .. Len(w) : s + k = i /\ k \in e .. c
        <5>1. i - s \in 1 .. Len(w) /\ s + (i - s) = i /\ i - s \in e .. c
          <6>1. i \in Int /\ s + e <= i /\ i <= s + c
            BY <3>0, <3>2
          <6>2. i - s \in e .. c /\ s + (i - s) = i
            BY <3>0, <6>1
          <6> QED BY <1>3, <3>0, <3>2, <6>2
        <5> QED BY <5>1
      <4>2. k \in SpaceBytes(w)
        BY <1>0, <2>2, <3>1, <4>1
      <4>3. i \in SpaceBytes(t)
        BY <4>1, <4>2, WindowSpaces
      <4> QED BY <4>3, SpaceIs
    <3>5. \A i \in b + 1 .. s1 : i \notin InTag(t) /\ i \notin Solid(t)
      BY <1>8, <3>3, <3>4
    <3>6. Whole(t, s1, s1)
      BY <1>0, <2>2, <3>1, <3>3, WholeAt
    <3> QED BY <1>6, <3>3, <3>5, <3>6
  <2> QED BY <2>1, <2>2
<1>11. \A i \in s + 1 .. a - 1 : i \notin InTag(t) /\ i \notin Solid(t)
  <2>1. \A i \in s + 1 .. s + f - 1 : i \notin InTag(t) /\ i \notin Solid(t)
    BY LeadingSpaces
  <2> QED BY <1>2, <1>4, <2>1
<1>12. Passes(t, s, s1, SubSeq(w, f, e - 1))
  <2>1. Shows(SubSeq(w, f, e - 1), t, a - 1, b)
    <3>1. Shows(SubSeq(w, f, e - 1), t, s + (f - 1), b)
      BY <1>2, <1>3, <1>5, PieceShown
    <3>2. s + (f - 1) = a - 1
      BY <1>2, <1>4
    <3> QED BY <3>1, <3>2
  <2>2. s < a /\ s1 \in 0 .. Len(t) /\ b \in a .. s1
    BY <1>2, <1>4, <1>6, <1>10
  <2> QED BY <1>6, <1>7, <1>10, <1>11, <2>1, <2>2, TokenPassed
<1>13. Fresh(t, s1)
  <2>1. ASSUME NEW i \in s + 1 .. s1 PROVE t[i] # "<"
    <3>1. i \in s + 1 .. a - 1 \/ i \in a .. b \/ i \in b + 1 .. s1
      BY <1>4, <1>6, <1>10
    <3>2. i \notin InTag(t) /\ i \in 1 .. Len(t)
      BY <1>6, <1>7, <1>10, <1>11, <3>1
    <3> QED BY <3>2 DEF InTag
  <2>2. s # Len(t) /\ s <= s1 /\ s1 \in Nat
    <3>1. a \in Int /\ b \in Int /\ s < a /\ a <= b /\ b < r
      BY <1>2, <1>4, <1>6
    <3>2. s1 \in Int /\ b <= s1
      BY <1>10, <3>1
    <3> QED BY <3>1, <3>2
  <2>3. ASSUME NEW j \in 1 .. s1, t[j] = "<" PROVE \E k \in j .. s1 : t[k] = ">"
    <3>1. j \in 1 .. s
      BY <2>1, <2>2, <2>3
    <3>2. PICK k \in j .. s : t[k] = ">"
      BY <2>2, <2>3, <3>1 DEF Fresh
    <3> QED BY <2>2, <3>2
  <2> QED BY <1>10, <2>3 DEF Fresh
<1> QED BY <1>2, <1>4, <1>6, <1>10, <1>12, <1>13

(* Case 3: the text ends in the window, and with it the token.             *)
LEMMA TextEnds ==
  ASSUME NEW t \in Seq(Bytes), NEW s \in 0 .. Len(t),
         Fresh(t, s), NEW w, Shows(w, t, s, Len(t)), NEW f, f = FirstText(w),
         f <= Len(w), Ends(w) = {}
  PROVE  Passes(t, s, Len(t), SubSeq(w, f, Len(w)))
<1>1. w \in Seq(Bytes) /\ Len(w) = Len(t) - s /\ \A i \in 1 .. Len(w) : w[i] = t[s + i]
  BY DEF Shows
<1>2. f \in 1 .. Len(w)
  BY <1>1, FirstTextIs
<1>3. PICK a : a = s + f
  OBVIOUS
<1>4. PICK b : b = Len(t)
  OBVIOUS
<1>5. a \in 1 .. Len(t) /\ b \in a .. Len(t) /\ s < a /\ b - s = Len(w) /\ b = s + Len(w)
  BY <1>1, <1>2, <1>3, <1>4
<1>6. /\ a \in Firsts(t)
      /\ a .. b \subseteq Solid(t)
      /\ \A i \in a + 1 .. b : i \notin Firsts(t)
  <2>1. CASE w[f] = "<"
    <3>1. IsTag(w)
      BY <1>2, <2>1 DEF IsTag
    <3>2. \A i \in f .. Len(w) : w[i] # ">"
      BY <3>1 DEF Ends
    <3>3. ASSUME NEW k \in a .. b - 1 PROVE t[k] # ">"
      <4>1. k - s \in f .. Len(w) /\ k - s \in 1 .. Len(w) /\ s + (k - s) = k
        BY <1>1, <1>2, <1>3, <1>5
      <4> QED BY <1>1, <3>2, <4>1
    <3>4. t[a] = "<"
      BY <1>1, <1>2, <1>3, <2>1
    <3>5. /\ a .. b \subseteq Solid(t)
          /\ \A i \in a + 1 .. b : i \notin Firsts(t)
      BY <1>5, <3>3, <3>4, TagRun
    <3>6. a \in Solid(t)
      BY <1>5, <3>5
    <3>7. Len(t) \in s .. Len(t)
      OBVIOUS
    <3>8. a \in Firsts(t)
      BY <1>2, <1>3, <3>6, <3>7, TokenBegins
    <3> QED BY <3>5, <3>8
  <2>2. CASE w[f] # "<"
    <3>1. ~ IsTag(w)
      BY <1>2, <2>2 DEF IsTag
    <3>2. \A i \in f .. b - s : i \notin SpaceBytes(w) /\ w[i] # "<"
      BY <1>5, <3>1 DEF Ends
    <3>3. b \in s .. Len(t) /\ b \in a .. b /\ b = Len(t) /\ Shows(w, t, s, b) /\ f <= Len(w)
          /\ Whole(t, b, b)
      BY <1>4, <1>5 DEF Whole
    <3> QED BY <1>3, <2>2, <3>2, <3>3, WordSeen
  <2> QED BY <2>1, <2>2
<1>7. \A i \in s + 1 .. a - 1 : i \notin Solid(t)
  <2>1. Len(t) \in s .. Len(t)
    OBVIOUS
  <2>2. \A i \in s + 1 .. s + f - 1 : i \notin Solid(t)
    BY <2>1, LeadingSpaces
  <2> QED BY <1>2, <1>3, <2>2
<1>8. Shows(SubSeq(w, f, Len(w)), t, a - 1, b)
  <2>1. Len(t) \in s .. Len(t) /\ Len(w) \in f .. Len(w)
    BY <1>1, <1>2
  <2>2. Shows(SubSeq(w, f, Len(w)), t, s + (f - 1), b)
    BY <1>2, <1>5, <2>1, PieceShown
  <2>3. s + (f - 1) = a - 1
    BY <1>2, <1>3
  <2> QED BY <2>2, <2>3
<1>9. b \in 0 .. Len(t) /\ b \in a .. b /\ \A i \in b + 1 .. b : i \notin Solid(t)
  BY <1>5
<1>10. Passes(t, s, b, SubSeq(w, f, Len(w)))
  BY <1>4, <1>5, <1>6, <1>7, <1>8, <1>9, TokenPassed
<1> QED BY <1>4, <1>10

(* A space of what is left of a window is one of the window.               *)
LEMMA SpaceMoved ==
  ASSUME NEW t \in Seq(Bytes), NEW s \in 0 .. Len(t), NEW r \in s .. Len(t),
         NEW w, Shows(w, t, s, r), NEW g \in 0 .. Len(w),
         NEW s1, s1 = s + g, NEW w1, Shows(w1, t, s1, r),
         NEW i \in SpaceBytes(w1)
  PROVE  g + i \in SpaceBytes(w)
<1>1. w \in Seq(Bytes) /\ Len(w) = r - s /\ \A k \in 1 .. Len(w) : w[k] = t[s + k]
  BY DEF Shows
<1>2. w1 \in Seq(Bytes) /\ Len(w1) = r - s1 /\ \A k \in 1 .. Len(w1) : w1[k] = t[s1 + k]
  BY DEF Shows
<1>3. s1 \in 0 .. Len(t) /\ r \in s1 .. Len(t)
  BY <1>1
<1>4. ASSUME NEW j \in 1 .. Len(w1) PROVE g + j \in 1 .. Len(w) /\ s + (g + j) = s1 + j
  BY <1>1, <1>2
<1>5. i \in 1 .. Len(w1)
  BY DEF SpaceBytes
<1>6. PICK k \in 1 .. Len(w) : k = g + i /\ s + k = s1 + i
  BY <1>4, <1>5
<1>7. CASE w1[i] = "space"
  <2>1. w[k] = "space"
    BY <1>1, <1>2, <1>5, <1>6, <1>7
  <2> QED BY <1>6, <2>1 DEF SpaceBytes
<1>8. CASE w1[i] # "space"
  <2>1. PICK c \in 1 .. i, d \in i .. Len(w1) : LongSpace(w1, c, d)
    BY <1>2, <1>8, SpaceIs
  <2>2. c \in 1 .. Len(w1) /\ d \in 1 .. Len(w1) /\ c <= i /\ i <= d
    BY <1>2, <1>5
  <2>3. PICK x \in 1 .. Len(w) : x = g + c /\ s + x = s1 + c
    BY <1>4, <2>2
  <2>4. PICK y \in 1 .. Len(w) : y = g + d /\ s + y = s1 + d
    BY <1>4, <2>2
  <2>5. LongSpace(t, s1 + c, s1 + d)
    BY <1>3, <2>1, <2>2, LongSpaceShown
  <2>6. LongSpace(w, x, y)
    BY <2>3, <2>4, <2>5, LongSpaceShown
  <2>7. k \in x .. y
    BY <1>5, <1>6, <2>2, <2>3, <2>4
  <2> QED BY <1>1, <1>6, <2>6, <2>7, LongSpaceIs
<1> QED BY <1>7, <1>8

(* Case 4: only the leading spaces are given up, and the window that is    *)
(* left has no token either.                                               *)
LEMMA SpacesSkipped ==
  ASSUME NEW t \in Seq(Bytes), NEW s \in 0 .. Len(t), NEW r \in s .. Len(t),
         Fresh(t, s), NEW w, Shows(w, t, s, r), NEW f, f = FirstText(w),
         Ends(w) = {}, NEW s1, s1 = s + (f - 1), NEW w1, Shows(w1, t, s1, r)
  PROVE  /\ s1 \in s .. r
         /\ f > Len(w) => s1 = r
         /\ Fresh(t, s1)
         /\ Begun(t, s1) = Begun(t, s)
         /\ FirstText(w1) = 1
         /\ Ends(w1) = {}
<1>1. w \in Seq(Bytes) /\ Len(w) = r - s /\ \A i \in 1 .. Len(w) : w[i] = t[s + i]
  BY DEF Shows
<1>2. /\ f \in 1 .. Len(w) + 1
      /\ f \notin SpaceBytes(w)
      /\ \A i \in 1 .. f - 1 : i \in SpaceBytes(w)
  BY <1>1, FirstTextIs
<1>3. s1 \in s .. r /\ s1 \in 0 .. Len(t) /\ (f > Len(w) => s1 = r)
  BY <1>1, <1>2
<1>4. \A i \in s + 1 .. s1 : i \notin Solid(t) /\ t[i] # "<"
  <2>1. \A i \in s + 1 .. s + f - 1 : i \notin Solid(t) /\ t[i] # "<"
    BY LeadingSpaces
  <2> QED BY <1>2, <2>1
<1>5. Begun(t, s1) = Begun(t, s)
  <2>1. \A i \in s + 1 .. s1 : i \notin Firsts(t)
    BY <1>4 DEF Firsts
  <2> QED BY <1>3, <2>1 DEF Begun
<1>6. Fresh(t, s1)
  <2>1. CASE f = 1
    BY <2>1
  <2>2. CASE f # 1
    <3>1. s1 \in s + 1 .. s1 /\ s # Len(t)
      BY <1>1, <1>2, <2>2
    <3>2. s1 \notin Solid(t)
      BY <1>4, <3>1
    <3>3. ASSUME NEW j \in 1 .. s1, t[j] = "<" PROVE \E k \in j .. s1 : t[k] = ">"
      <4>1. j \in 1 .. s
        BY <1>3, <1>4, <3>3
      <4>2. PICK k \in j .. s : t[k] = ">"
        BY <3>1, <3>3, <4>1 DEF Fresh
      <4> QED BY <1>3, <4>2
    <3>4. Whole(t, s1, s1)
      <4> SUFFICES ASSUME NEW x \in 1 .. s1, NEW y \in s1 + 1 .. Len(t), LongSpace(t, x, y)
                   PROVE  FALSE
        BY DEF Whole
      <4>1. t[s1] \in {"lead", "mid"}
        <5>1. t[x] = "lead" /\ \A i \in x + 1 .. y - 1 : t[i] = "mid"
          BY <1>3, LongSpaceIs
        <5>2. s1 = x \/ s1 \in x + 1 .. y - 1
          BY <1>3
        <5> QED BY <5>1, <5>2
      <4>2. PICK g \in 1 .. Len(w) : g = f - 1
        BY <1>1, <1>2, <2>2
      <4>3. g \in SpaceBytes(w) /\ w[g] = t[s1] /\ f = g + 1
        <5>1. f = g + 1 /\ s1 = s + g /\ g \in 1 .. f - 1
          BY <1>2, <4>2
        <5> QED BY <1>1, <1>2, <5>1
      <4>4. PICK c \in 1 .. g, d \in g .. Len(w) : LongSpace(w, c, d)
        BY <1>1, <4>1, <4>3, SpaceIs
      <4>5. w[d] = "trail" /\ \A i \in c .. d : i \in SpaceBytes(w)
        BY <1>1, <4>4, LongSpaceIs
      <4>6. d # g
        BY <4>1, <4>3, <4>5
      <4>7. f \in c .. d
        BY <1>1, <4>3, <4>6
      <4> QED BY <1>2, <4>5, <4>7
    <3> QED BY <3>2, <3>3, <3>4 DEF Fresh
  <2> QED BY <2>1, <2>2
<1>7. PICK g \in 0 .. Len(w) : g = f - 1
  BY <1>1, <1>2
<1>8. Len(w) \in Nat /\ f = g + 1
  BY <1>1, <1>2, <1>7
<1>9. w1 \in Seq(Bytes) /\ Len(w1) = Len(w) - g
  <2>1. w1 \in Seq(Bytes) /\ Len(w1) = r - s1
    BY DEF Shows
  <2>2. s1 = s + g /\ s \in Int /\ r \in Int
    BY <1>8, <1>7
  <2>3. Len(w) = r - s
    BY <1>1
  <2>4. r - s1 = (r - s) - g
    BY <1>7, <2>2
  <2> QED BY <2>1, <2>3, <2>4
<1>10. ASSUME NEW i \in 1 .. Len(w1) PROVE g + i \in f .. Len(w) /\ w1[i] = w[g + i]
  <2>1. w1[i] = t[s1 + i]
    BY DEF Shows
  <2>2. PICK k \in 1 .. Len(w) : k = g + i
    <3>1. g + i \in 1 .. Len(w)
      BY <1>9, <1>8, <1>7
    <3> QED BY <3>1
  <2>3. s + k = s1 + i /\ k \in f .. Len(w)
    BY <1>8, <1>7, <2>2
  <2>4. w[k] = t[s + k]
    BY <1>1, <2>2
  <2> QED BY <2>1, <2>2, <2>3, <2>4
<1>11. ASSUME NEW i \in SpaceBytes(w1) PROVE g + i \in SpaceBytes(w)
  <2>1. s1 = s + g
    BY <1>7, <1>8
  <2> QED BY <2>1, SpaceMoved
<1>12. FirstText(w1) = 1
  <2>1. 1 \notin SpaceBytes(w1)
    <3>1. 1 \in SpaceBytes(w1) => g + 1 \in SpaceBytes(w)
      BY <1>11
    <3> QED BY <1>2, <1>8, <3>1
  <2>2. PICK h : h = FirstText(w1)
    OBVIOUS
  <2>3. h \in 1 .. Len(w1) + 1 /\ \A i \in 1 .. h - 1 : i \in SpaceBytes(w1)
    BY <1>9, <2>2, FirstTextIs
  <2> QED BY <2>1, <2>2, <2>3
<1>13. Ends(w1) = {}
  <2>1. ASSUME NEW i \in 1 .. Len(w1),
               IF IsTag(w1) THEN w1[i] = ">" ELSE i \in SpaceBytes(w1) \/ w1[i] = "<"
        PROVE  FALSE
    <3>1. 1 \in 1 .. Len(w1) /\ g + 1 = f /\ f <= Len(w)
      BY <1>9, <1>8, <1>7, <2>1
    <3>2. w1[1] = w[f]
      BY <1>10, <3>1
    <3>3. IsTag(w1) <=> IsTag(w)
      BY <1>12, <3>1, <3>2 DEF IsTag
    <3>4. g + i \in f .. Len(w) /\ w1[i] = w[g + i]
      BY <1>10
    <3>5. g + i \in Ends(w)
      BY <1>11, <2>1, <3>3, <3>4 DEF Ends
    <3> QED BY <3>5
  <2> QED BY <1>12, <2>1 DEF Ends
<1> QED BY <1>3, <1>5, <1>6, <1>12, <1>13

LEMMA TokenFields ==
  ASSUME NEW z, NEW advance, NEW token, z = Token(advance, token)
  PROVE  z.advance = advance /\ z.token = token
BY DEF Token

(* ScanHTML returns the next token of the text, whole.                     *)
LEMMA ScanFinds ==
  ASSUME NEW t \in Seq(Bytes), NEW s \in 0 .. Len(t), NEW r \in s .. Len(t),
         Fresh(t, s), NEW w, Shows(w, t, s, r),
         NEW atEOF \in BOOLEAN, atEOF => r = Len(t),
         NEW z, z = ScanHTML(w, atEOF), z.found = TRUE
  PROVE  /\ s + z.advance \in s .. r
         /\ Fresh(t, s + z.advance)
         /\ Passes(t, s, s + z.advance, z.token)
<1> DEFINE f == FirstText(w)
<1>1. w \in Seq(Bytes) /\ Len(w) = r - s
  BY DEF Shows
<1>2. f \in 1 .. Len(w) + 1
  BY <1>1, FirstTextIs
<1>3. CASE Ends(w) # {}
  <2>1. Ends(w) \in SUBSET Nat
    BY <1>2 DEF Ends
  <2>2. PICK e \in Ends(w) : e = Min(Ends(w)) /\ \A i \in Ends(w) : e <= i
    BY <1>3, <2>1, MinIsLeast
  <2>3. e \in f .. Len(w) /\ f <= Len(w) /\ e \in Nat
    BY <1>2, <2>2 DEF Ends
  <2>4. ASSUME NEW i \in f .. e - 1 PROVE i \in f .. Len(w) /\ i \notin Ends(w)
    BY <1>2, <2>2, <2>3
  <2>5. z = EndedToken(w, e)
    BY <1>3, <2>2 DEF ScanHTML
  <2>6. CASE w[f] = "<"
    <3>1. IsTag(w)
      BY <2>3, <2>6 DEF IsTag
    <3>2. w[e] = ">" /\ \A i \in f .. e - 1 : w[i] # ">"
      BY <2>2, <2>4, <3>1 DEF Ends
    <3>3. z.advance = e /\ z.token = SubSeq(w, f, e)
      <4>1. z = Token(e, SubSeq(w, f, e))
        BY <2>5, <3>1, <3>2, Zenon DEF EndedToken
      <4> QED BY <4>1, TokenFields, Zenon
    <3>4. Passes(t, s, s + e, SubSeq(w, f, e)) /\ Fresh(t, s + e)
      <4> HIDE DEF f
      <4> QED BY <2>3, <2>6, <3>2, TagEnds DEF f
    <3>5. s + e \in s .. r
      BY <1>1, <2>3
    <3> QED BY <3>3, <3>4, <3>5
  <2>7. CASE w[f] # "<"
    <3>1. ~ IsTag(w)
      BY <2>7 DEF IsTag
    <3>2. e \in SpaceBytes(w) \/ w[e] = "<"
      BY <2>2, <3>1 DEF Ends
    <3>3. \A i \in f .. e - 1 : i \notin SpaceBytes(w) /\ w[i] # "<"
      BY <2>4, <3>1 DEF Ends
    <3>4. /\ z.advance = IF w[e] = "<" THEN e - 1 ELSE SpaceEnd(w, e)
          /\ z.token = SubSeq(w, f, e - 1)
      <4> DEFINE to == IF w[e] = "<" THEN e - 1 ELSE SpaceEnd(w, e)
      <4>1. z = Token(to, SubSeq(w, f, e - 1))
        BY <2>5, <3>1, Zenon DEF EndedToken
      <4>2. z.advance = to /\ z.token = SubSeq(w, f, e - 1)
        <5> HIDE DEF to
        <5> QED BY <4>1, TokenFields, Zenon
      <4> QED BY <4>2
    <3>5. PICK s1 : s1 = s + z.advance
      OBVIOUS
    <3>6. s1 = s + (IF w[e] = "<" THEN e - 1 ELSE SpaceEnd(w, e))
      BY <3>4, <3>5
    <3>7. /\ s1 \in s .. r
          /\ Passes(t, s, s1, SubSeq(w, f, e - 1))
          /\ Fresh(t, s1)
      BY <2>3, <2>7, <3>2, <3>3, <3>6, WordEnds
    <3> QED BY <3>4, <3>5, <3>7
  <2> QED BY <2>6, <2>7
<1>4. CASE Ends(w) = {}
  <2>1. atEOF /\ f <= Len(w)
    BY <1>4 DEF ScanHTML, NoToken
  <2>2. z.advance = Len(w) /\ z.token = SubSeq(w, f, Len(w))
    BY <1>4, <2>1 DEF ScanHTML, Token
  <2>3. r = Len(t) /\ s + Len(w) = r
    BY <1>1, <2>1
  <2>4. Shows(w, t, s, Len(t))
    BY <2>3
  <2>5. Passes(t, s, Len(t), SubSeq(w, f, Len(w)))
    BY <1>4, <2>1, <2>4, TextEnds
  <2>6. Fresh(t, Len(t))
    BY DEF Fresh
  <2> QED BY <2>2, <2>3, <2>5, <2>6
<1> QED BY <1>3, <1>4

(* Or it has no token to return, and gives up leading spaces only.         *)
LEMMA ScanSkips ==
  ASSUME NEW w, NEW atEOF \in BOOLEAN, NEW z, z = ScanHTML(w, atEOF), ~ z.found
  PROVE  /\ Ends(w) = {}
         /\ ~ (atEOF /\ FirstText(w) <= Len(w))
         /\ z.found = FALSE
         /\ z.advance = FirstText(w) - 1
<1>1. Ends(w) = {}
  BY DEF ScanHTML, EndedToken, Token
<1>2. ~ (atEOF /\ FirstText(w) <= Len(w))
  BY <1>1 DEF ScanHTML, Token
<1> QED BY <1>1, <1>2 DEF ScanHTML, NoToken

(* A window that begins with a token and has no end of it: all of it is in *)
(* the token, but for the part of a space it may end in.                   *)
NoEndYet(w) == Len(w) >= 3 /\ FirstText(w) = 1 /\ Ends(w) = {}

InTokenTo(t, a, b, r) ==
  /\ b \in a .. r
  /\ r - b \in CutBytes(t, r)
  /\ a \in Firsts(t)
  /\ a .. b \subseteq Solid(t)
  /\ \A i \in a + 1 .. b : i \notin Firsts(t)

LEMMA WindowInToken ==
  ASSUME NEW t \in Seq(Bytes), NEW s \in 0 .. Len(t), NEW r \in s .. Len(t),
         Fresh(t, s), NEW w, Shows(w, t, s, r), NoEndYet(w),
         NEW a \in 1 .. Len(t), a = s + 1
  PROVE  \E b : InTokenTo(t, a, b, r)
<1>1. w \in Seq(Bytes) /\ Len(w) = r - s /\ \A i \in 1 .. Len(w) : w[i] = t[s + i]
  BY DEF Shows
<1>2. /\ a \in 1 .. Len(t) /\ a + 2 <= r /\ r \in a .. Len(t) /\ a - s = 1
      /\ t[a] = w[1] /\ t[r] = w[Len(w)]
      /\ FirstText(w) = 1 /\ Ends(w) = {} /\ Len(w) >= 3
  BY <1>1 DEF NoEndYet
<1>3. CASE w[1] = "<"
  <2>1. IsTag(w)
    BY <1>2, <1>3 DEF IsTag
  <2>2. ASSUME NEW k \in a .. r - 1 PROVE t[k] # ">"
    <3>1. k - s \in 1 .. Len(w) /\ s + (k - s) = k
      BY <1>1, <1>2
    <3>2. w[k - s] # ">"
      BY <1>2, <2>1, <3>1 DEF Ends
    <3> QED BY <1>1, <3>1, <3>2
  <2>3. /\ a .. r \subseteq Solid(t)
        /\ \A i \in a + 1 .. r : i \notin Firsts(t)
    BY <1>2, <1>3, <2>2, TagRun
  <2>4. a \in Solid(t) /\ r \in a .. r /\ r - r = 0 /\ 0 \in CutBytes(t, r)
    BY <1>2, <2>3 DEF CutBytes
  <2>5. a \in Firsts(t)
    BY <1>2, <2>4, TokenBegins
  <2> QED BY <2>3, <2>4, <2>5 DEF InTokenTo
<1>4. CASE w[1] # "<"
  <2>1. ~ IsTag(w)
    BY <1>2, <1>4 DEF IsTag
  <2>2. \A i \in 1 .. Len(w) : i \notin SpaceBytes(w) /\ w[i] # "<"
    BY <1>2, <2>1 DEF Ends
  <2>3. PICK b \in a .. r : r - b \in CutBytes(t, r) /\ Whole(t, b, r)
    <3>1. CASE Whole(t, r, r)
      <4>1. r \in a .. r /\ r - r = 0 /\ 0 \in CutBytes(t, r)
        BY <1>2 DEF CutBytes
      <4> QED BY <3>1, <4>1
    <3>2. CASE ~ Whole(t, r, r)
      <4>1. PICK x \in 1 .. r, y \in r + 1 .. Len(t) : LongSpace(t, x, y)
        BY <3>2 DEF Whole
      <4>2. y \in x + 1 .. x + 2 /\ t[x] = "lead"
        BY <1>2, <4>1, LongSpaceIs
      <4>3. PICK b \in a .. r : b = x - 1
        <5>1. x - 1 \in a .. r
          BY <1>2, <4>2
        <5> QED BY <5>1
      <4>4. r - b \in CutBytes(t, r)
        <5>1. r - b \in {1, 2} /\ r - (r - b) + 1 = x /\ y \in {r + 1, r + 2}
          BY <1>2, <4>2, <4>3
        <5> QED BY <4>1, <5>1 DEF CutBytes
      <4>5. Whole(t, b, r)
        <5> SUFFICES ASSUME NEW c \in 1 .. b, NEW d \in r + 1 .. Len(t), LongSpace(t, c, d)
                     PROVE  FALSE
          BY DEF Whole
        <5>1. \A i \in c + 1 .. d - 1 : t[i] = "mid"
          BY <1>2, LongSpaceIs
        <5>2. x \in c + 1 .. d - 1
          BY <1>2, <4>3
        <5> QED BY <4>2, <5>1, <5>2
      <4> QED BY <4>4, <4>5
    <3> QED BY <3>1, <3>2
  <2>4. PICK f : f = FirstText(w)
    OBVIOUS
  <2>5. \A i \in f .. b - s : i \notin SpaceBytes(w) /\ w[i] # "<"
    BY <1>1, <1>2, <2>2, <2>3, <2>4
  <2>6. f <= Len(w) /\ w[f] # "<" /\ a = s + f
    BY <1>2, <1>4, <2>4
  <2>8. /\ a \in Firsts(t)
        /\ a .. b \subseteq Solid(t)
        /\ \A i \in a + 1 .. b : i \notin Firsts(t)
    BY <2>3, <2>4, <2>5, <2>6, WordSeen
  <2> QED BY <2>3, <2>8 DEF InTokenTo
<1> QED BY <1>3, <1>4
-----------------------------------------------------------------------------
(* The invariant: the scan stands at a fresh place and has returned the    *)
(* tokens that begin before it; when it is to read on, the window holds    *)
(* the beginning of a token at most, and no end of one.                    *)
TInv ==
  /\ text \in Texts
  /\ start \in 0 .. Len(text)
  /\ read \in start .. Len(text)
  /\ eof \in BOOLEAN
  /\ pc \in {"read", "split", "ended", "errTooLong"}
  /\ tokens \in Seq(Seq(Bytes))
  /\ eof => read = Len(text)
  /\ Fresh(text, start)
  /\ Len(tokens) = Cardinality(Begun(text, start))
  /\ \A k \in 1 .. Len(tokens) : tokens[k] = Tokens(text)[k] /\ tokens[k] # <<>>
  /\ pc = "ended" => start = Len(text)
  /\ pc \in {"read", "errTooLong"} => FirstText(Window) = 1 /\ Ends(Window) = {}
  /\ pc = "errTooLong" => Len(Window) >= MaxToken

LEMMA TextType == \A t \in Texts : t \in Seq(Bytes) /\ Len(t) \in Nat
  BY TokenizerAssumption DEF TokenizerAssumption

LEMMA WindowShows ==
  ASSUME TInv
  PROVE  Shows(Window, text, start, read)
<1>1. text \in Seq(Bytes) /\ start \in 0 .. Len(text) /\ read \in start .. Len(text)
  BY TextType DEF TInv
<1> QED BY <1>1, SubSeqShows DEF Window

(* A call that returns a token: s.Text() is the next token of the text.    *)
LEMMA SplitFound ==
  ASSUME TInv, pc = "split",
         NEW z, z = ScanHTML(Window, eof), z.found = TRUE,
         start' = start + z.advance, tokens' = Append(tokens, z.token),
         pc' = "split", UNCHANGED <<text, read, eof>>
  PROVE  TInv'
<1>1. text \in Seq(Bytes) /\ start \in 0 .. Len(text) /\ read \in start .. Len(text)
  BY TextType DEF TInv
<1>2. /\ Fresh(text, start) /\ Shows(Window, text, start, read)
      /\ eof \in BOOLEAN /\ (eof => read = Len(text))
  BY WindowShows DEF TInv
<1>3. /\ start' \in start .. read
      /\ Fresh(text, start')
      /\ Passes(text, start, start', z.token)
  BY <1>1, <1>2, ScanFinds
<1>4. PICK n \in Nat : n = Len(tokens)
  BY DEF TInv
<1>5. /\ Cardinality(Begun(text, start)) = n
      /\ Cardinality(Begun(text, start')) = n + 1
      /\ z.token = Tokens(text)[n + 1]
      /\ z.token \in Seq(Bytes) /\ z.token # <<>>
  BY <1>3, <1>4 DEF TInv, Passes
<1>6. /\ tokens' \in Seq(Seq(Bytes)) /\ Len(tokens') = n + 1
      /\ \A k \in 1 .. n : tokens'[k] = tokens[k]
      /\ tokens'[n + 1] = z.token
  BY <1>4, <1>5 DEF TInv
<1>7. ASSUME NEW k \in 1 .. Len(tokens')
      PROVE  tokens'[k] = Tokens(text)[k] /\ tokens'[k] # <<>>
  <2>1. k \in 1 .. n \/ k = n + 1
    BY <1>6
  <2> QED BY <1>4, <1>5, <1>6, <2>1 DEF TInv
<1>8. text' = text /\ read' = read /\ eof' = eof
  OBVIOUS
<1>9. start' \in 0 .. Len(text) /\ read \in start' .. Len(text)
  BY <1>1, <1>3
<1>10. Len(tokens') = Cardinality(Begun(text, start'))
  BY <1>5, <1>6
<1> QED BY <1>2, <1>3, <1>6, <1>7, <1>8, <1>9, <1>10 DEF TInv

(* A call that returns none: the scan goes on to read, or is at the end.   *)
LEMMA SplitNone ==
  ASSUME TInv, pc = "split",
         NEW z, z = ScanHTML(Window, eof), z.found # TRUE,
         start' = start + z.advance, tokens' = tokens,
         pc' = (IF eof THEN "ended" ELSE "read"), UNCHANGED <<text, read, eof>>
  PROVE  TInv'
<1>1. text \in Seq(Bytes) /\ start \in 0 .. Len(text) /\ read \in start .. Len(text)
  BY TextType DEF TInv
<1>2. /\ Fresh(text, start) /\ Shows(Window, text, start, read)
      /\ eof \in BOOLEAN /\ (eof => read = Len(text))
  BY WindowShows DEF TInv
<1> DEFINE f == FirstText(Window)
<1>3. Ends(Window) = {} /\ ~ (eof /\ f <= Len(Window)) /\ z.advance = f - 1
  BY <1>2, ScanSkips
<1>4. f \in 1 .. Len(Window) + 1 /\ Len(Window) = read - start
  <2>1. Window \in Seq(Bytes) /\ Len(Window) = read - start
    BY <1>2 DEF Shows
  <2> QED BY <2>1, FirstTextIs
<1>5. text' = text /\ read' = read /\ eof' = eof /\ start' = start + (f - 1)
  BY <1>3
<1>6. start' \in 0 .. Len(text) /\ read \in start' .. Len(text)
  BY <1>1, <1>4, <1>5
<1>7. Shows(Window', text, start', read)
  BY <1>1, <1>5, <1>6, SubSeqShows DEF Window
<1>8. /\ f > Len(Window) => start' = read
      /\ Fresh(text, start')
      /\ Begun(text, start') = Begun(text, start)
      /\ FirstText(Window') = 1
      /\ Ends(Window') = {}
  <2> HIDE DEF f
  <2> QED BY <1>1, <1>2, <1>3, <1>5, <1>7, SpacesSkipped DEF f
<1>9. eof => start' = Len(text)
  BY <1>2, <1>3, <1>4, <1>8
<1>10. FirstText(Window)' = 1 /\ Ends(Window)' = {}
  BY <1>8 DEF FirstText, Ends, IsTag, SpaceBytes, LongSpace
<1>11. /\ tokens' = tokens /\ pc' \in {"read", "ended"}
       /\ Len(tokens') = Cardinality(Begun(text', start'))
       /\ Fresh(text', start')
       /\ pc' = "ended" => start' = Len(text')
  BY <1>2, <1>5, <1>8, <1>9 DEF TInv
<1> QED BY <1>2, <1>5, <1>6, <1>10, <1>11 DEF TInv

LEMMA ScanInit == Init => TInv
<1> SUFFICES ASSUME Init PROVE TInv
  OBVIOUS
<1>1. text \in Seq(Bytes) /\ Len(text) \in Nat /\ text \in Texts
  BY TextType DEF Init
<1>2. Shows(Window, text, 0, 0)
  BY <1>1, SubSeqShows DEF Init, Window
<1>3. Window \in Seq(Bytes) /\ Len(Window) = 0
  BY <1>2 DEF Shows
<1>4. FirstText(Window) = 1 /\ Ends(Window) = {}
  <2>1. PICK f : f = FirstText(Window)
    OBVIOUS
  <2>2. f = 1
    <3>1. f \in 1 .. Len(Window) + 1
      BY <1>3, <2>1, FirstTextIs
    <3> QED BY <1>3, <3>1
  <2> QED BY <1>3, <2>1, <2>2 DEF Ends
<1>5. Fresh(text, 0)
  BY <1>1 DEF Fresh, Solid, InTag, Whole, LongSpace
<1>6. Cardinality(Begun(text, 0)) = 0
  <2>1. Begun(text, 0) = {}
    BY DEF Begun
  <2> QED BY <2>1, FS_EmptySet
<1>7. tokens = <<>> /\ start = 0 /\ read = 0 /\ eof = FALSE /\ pc = "read"
  BY DEF Init
<1>8. tokens \in Seq(Seq(Bytes)) /\ Len(tokens) = 0
  BY <1>7
<1>9. start \in 0 .. Len(text) /\ read \in start .. Len(text)
  BY <1>1, <1>7
<1>10. Fresh(text, start) /\ Len(tokens) = Cardinality(Begun(text, start))
  BY <1>5, <1>6, <1>7, <1>8
<1>11. \A k \in 1 .. Len(tokens) : tokens[k] = Tokens(text)[k] /\ tokens[k] # <<>>
  BY <1>8
<1> QED BY <1>1, <1>4, <1>7, <1>8, <1>9, <1>10, <1>11 DEF TInv

LEMMA ScanNext == TInv /\ [Next]_vars => TInv'
<1> SUFFICES ASSUME TInv, [Next]_vars PROVE TInv'
  OBVIOUS
<1>1. CASE UNCHANGED vars
  BY <1>1 DEF vars, TInv, Window
<1>2. CASE Split
  <2>1. PICK z : z = ScanHTML(Window, eof)
    OBVIOUS
  <2>2. /\ pc = "split" /\ UNCHANGED <<text, read, eof>>
        /\ start' = start + z.advance
        /\ tokens' = IF z.found THEN Append(tokens, z.token) ELSE tokens
        /\ pc' = IF z.found THEN "split" ELSE IF eof THEN "ended" ELSE "read"
    BY <1>2, <2>1 DEF Split
  <2>3. CASE z.found = TRUE
    BY <2>1, <2>2, <2>3, SplitFound
  <2>4. CASE z.found # TRUE
    <3>1. ~ z.found
      BY <2>1, <2>4 DEF ScanHTML, EndedToken, Token, NoToken
    <3> QED BY <2>1, <2>2, <2>4, <3>1, SplitNone
  <2> QED BY <2>3, <2>4
<1>3. CASE Read
  <2>1. PICK n \in 0 .. MaxToken - Len(Window) :
          /\ read + n <= Len(text)
          /\ read' = read + n
          /\ eof' \in {FALSE, read + n = Len(text)}
    BY <1>3 DEF Read
  <2>2. pc' = "split" /\ text' = text /\ start' = start /\ tokens' = tokens
    BY <1>3 DEF Read
  <2>3. Len(text) \in Nat /\ start \in 0 .. Len(text) /\ read \in start .. Len(text)
    BY TextType DEF TInv
  <2>4. n \in Nat
    <3>1. Len(Window) \in Int
      BY <2>3, WindowShows DEF Shows
    <3> QED BY <2>1, <3>1, TokenizerAssumption DEF TokenizerAssumption
  <2>5. read' \in start .. Len(text) /\ eof' \in BOOLEAN /\ (eof' => read' = Len(text))
    <3>1. read' \in start .. Len(text)
      BY <2>1, <2>3, <2>4
    <3>2. eof' = FALSE \/ eof' = (read + n = Len(text))
      BY <2>1, Zenon
    <3>3. eof' \in BOOLEAN /\ (eof' => read' = Len(text))
      BY <2>1, <3>2, Zenon
    <3> QED BY <3>1, <3>3
  <2> QED BY <2>2, <2>5 DEF TInv
<1>4. CASE GiveUp
  <2>1. /\ pc = "read" /\ pc' = "errTooLong" /\ Len(Window) >= MaxToken
        /\ UNCHANGED <<text, read, start, eof, tokens>>
    BY <1>4 DEF GiveUp
  <2> QED BY <2>1 DEF TInv, Window
<1> QED BY <1>1, <1>2, <1>3, <1>4 DEF Next

LEMMA ScanInvariant == Spec => []TInv
  BY ScanInit, ScanNext, PTL DEF Spec

(* The types of the variables; no token is empty.                          *)
THEOREM TokenizerTypes == Spec => []TypeOK
<1>1. TInv => TypeOK
  <2> SUFFICES ASSUME TInv PROVE TypeOK
    OBVIOUS
  <2>1. Len(text) \in Nat /\ start \in 0 .. Len(text) /\ read \in start .. Len(text)
    BY TextType DEF TInv
  <2>2. 0 <= start /\ start <= read /\ read <= Len(text)
    BY <2>1
  <2> QED BY <2>2 DEF TInv, TypeOK
<1> QED BY <1>1, ScanInvariant, PTL

(* The bound of Split never holds it up: a token takes a byte at least.    *)
THEOREM BoundNeverBinds == Spec => []TokensLeft
<1>1. TInv => TokensLeft
  <2> SUFFICES ASSUME TInv PROVE TokensLeft
    OBVIOUS
  <2>1. text \in Seq(Bytes) /\ Len(text) \in Nat /\ start \in 0 .. Len(text)
    BY TextType DEF TInv
  <2>2. start \in Nat /\ start <= Len(text)
    BY <2>1
  <2>3. Cardinality(Begun(text, start)) \in Nat /\ Cardinality(Begun(text, start)) <= start
    BY <2>1, <2>2, CountBegun
  <2>4. Len(tokens) = Cardinality(Begun(text, start))
    BY DEF TInv
  <2> QED BY <2>1, <2>2, <2>3, <2>4 DEF TokensLeft
<1> QED BY <1>1, ScanInvariant, PTL

(* However the reads fall, Fill gets the tokens of the text, and all of    *)
(* them when the scanner comes to the end.                                 *)
THEOREM TokensAreExact == Spec => []TokensExact
<1>1. TInv => TokensExact
  <2> SUFFICES ASSUME TInv PROVE TokensExact
    OBVIOUS
  <2>1. text \in Seq(Bytes) /\ Len(text) \in Nat /\ start \in 0 .. Len(text)
    BY TextType DEF TInv
  <2>2. PICK n \in Nat : n = Len(tokens)
    <3>1. Len(tokens) \in Nat
      BY DEF TInv
    <3> QED BY <3>1
  <2>3. PICK m \in Nat : m = Cardinality(Firsts(text))
    <3>1. Cardinality(Firsts(text)) \in Nat
      BY <2>1, CountBegun
    <3> QED BY <3>1
  <2>4. n = Cardinality(Begun(text, start))
    BY <2>2 DEF TInv
  <2>5. n <= m
    BY <2>1, <2>3, <2>4, CountBegun
  <2>6. Len(Tokens(text)) = m /\ \E S : Tokens(text) \in Seq(S)
    BY <2>1, <2>3, TokensSeq
  <2>7. \A k \in 1 .. n : tokens[k] = Tokens(text)[k]
    BY <2>2 DEF TInv
  <2>8. SubSeq(tokens, 1, n) = SubSeq(Tokens(text), 1, n)
    BY <2>7
  <2>9. IsPrefix(tokens, Tokens(text))
    BY <2>2, <2>5, <2>6, <2>8 DEF IsPrefix
  <2>10. ASSUME pc = "ended" PROVE tokens = Tokens(text)
    <3>1. Begun(text, Len(text)) = Firsts(text)
      BY <2>1 DEF Begun, Firsts, Solid, InTag
    <3>2. n = m
      BY <2>3, <2>4, <2>10, <3>1 DEF TInv
    <3>3. SubSeq(Tokens(text), 1, n) = Tokens(text)
      BY <2>6, <3>2, SubSeqFull
    <3>4. SubSeq(tokens, 1, n) = tokens
      BY <2>2, SubSeqFull DEF TInv
    <3> QED BY <2>8, <3>3, <3>4
  <2> QED BY <2>9, <2>10 DEF TokensExact
<1> QED BY <1>1, ScanInvariant, PTL

(* What is lost is lost behind a token that fills the scanner's buffer.    *)
THEOREM OnlyLongTokensLose == Spec => []LostOnlyByLongToken
<1>1. TInv => LostOnlyByLongToken
  <2> SUFFICES ASSUME TInv, pc = "errTooLong"
               PROVE  \E k \in DOMAIN Tokens(text), c \in CutBytes(text, read) :
                        k = Len(tokens) + 1 /\ Len(Tokens(text)[k]) + c >= MaxToken
    BY DEF LostOnlyByLongToken
  <2>1. text \in Seq(Bytes) /\ start \in 0 .. Len(text) /\ read \in start .. Len(text)
    BY TextType DEF TInv
  <2>2. Fresh(text, start) /\ Shows(Window, text, start, read)
    BY WindowShows DEF TInv
  <2>3. PICK w \in Seq(Bytes) : w = Window
    BY <2>2 DEF Shows
  <2>4. Shows(w, text, start, read) /\ 1 = FirstText(w) /\ Ends(w) = {}
        /\ Len(w) = read - start /\ Len(w) >= MaxToken
        /\ \A i \in 1 .. Len(w) : w[i] = text[start + i]
    BY <2>2, <2>3 DEF Shows, TInv
  <2>5. MaxToken \in Nat /\ MaxToken >= 3
    <3>1. MaxToken \in Nat \ 0 .. 2
      BY TokenizerAssumption DEF TokenizerAssumption
    <3> QED BY <3>1
  <2>6. PICK a \in 1 .. Len(text) : a = start + 1
    <3>1. start + 1 \in 1 .. Len(text)
      BY <2>1, <2>4, <2>5
    <3> QED BY <3>1
  <2>7. /\ start \in Nat /\ read \in Nat /\ a <= read /\ a - start = 1
        /\ 1 <= Len(w) /\ text[a] = w[1]
    BY <2>1, <2>4, <2>5, <2>6
  <2>8. PICK b : InTokenTo(text, a, b, read)
    <3>1. NoEndYet(w)
      BY <2>4, <2>5, <2>7 DEF NoEndYet
    <3>2. \E b : InTokenTo(text, a, b, read)
      BY <2>1, <2>4, <2>2, <2>6, <3>1, WindowInToken
    <3> QED BY <3>2
  <2>9. PICK c \in b .. Len(text) : c = LastOf(text, a)
    <3>1. b \in a .. Len(text)
      BY <2>1, <2>7, <2>8 DEF InTokenTo
    <3>2. LastOf(text, a) \in b .. Len(text)
      BY <2>1, <2>6, <2>8, <3>1, LastAtLeast DEF InTokenTo
    <3> QED BY <3>2
  <2>10. PICK n \in Nat : n = Len(tokens)
    <3>1. Len(tokens) \in Nat
      BY DEF TInv
    <3> QED BY <3>1
  <2>11. n + 1 \in 1 .. Cardinality(Firsts(text)) /\ Tokens(text)[n + 1] = SubSeq(text, a, c)
    <3>1. a \in 0 .. Len(text) /\ start < a /\ \A i \in start + 1 .. a : i # a => i \notin Firsts(text)
      BY <2>1, <2>6
    <3>2. /\ Cardinality(Begun(text, a)) = Cardinality(Begun(text, start)) + 1
          /\ Cardinality(Begun(text, a)) \in 1 .. Cardinality(Firsts(text))
          /\ Tokens(text)[Cardinality(Begun(text, a))] = SubSeq(text, a, LastOf(text, a))
      BY <2>1, <2>8, <3>1, NextToken DEF InTokenTo
    <3>3. n = Cardinality(Begun(text, start))
      BY <2>10 DEF TInv
    <3> QED BY <2>9, <3>2, <3>3
  <2>12. DOMAIN Tokens(text) = 1 .. Cardinality(Firsts(text))
    BY DEF Tokens
  <2>13. Len(SubSeq(text, a, c)) = c - a + 1
    <3>1. \A i \in a .. c : text[i] \in Bytes
      BY <2>1, <2>7, <2>8, <2>9 DEF InTokenTo
    <3>2. a <= c /\ a \in Int /\ c \in Int
      BY <2>7, <2>8, <2>9 DEF InTokenTo
    <3> QED BY <3>1, <3>2, SubSeqProperties
  <2>14. read - b \in CutBytes(text, read) /\ (c - a + 1) + (read - b) >= MaxToken
    BY <2>1, <2>4, <2>5, <2>6, <2>7, <2>8, <2>9 DEF InTokenTo
  <2>15. /\ n + 1 \in DOMAIN Tokens(text) /\ n + 1 = Len(tokens) + 1
         /\ Len(Tokens(text)[n + 1]) = c - a + 1
    BY <2>10, <2>11, <2>12, <2>13
  <2> QED BY <2>14, <2>15
<1> QED BY <1>1, ScanInvariant, PTL
-----------------------------------------------------------------------------
(* What is left to do of a text.  A call of ScanHTML that finds a token    *)
(* passes over some of it; a Read without a byte brings io.EOF, after      *)
(* which there is none.                                                    *)
StageLeft ==
  CASE pc = "split" -> 2 [] pc = "read" -> 1 [] OTHER -> 0

Left ==
  3 * ((Len(text) - read) + (IF eof THEN 0 ELSE 1)) + (Len(text) - start) + StageLeft

ReadsToEOF == pc = "read" => eof = FALSE

LEMMA LeftNat == TInv => Left \in Nat
<1> SUFFICES ASSUME TInv PROVE Left \in Nat
  OBVIOUS
<1>1. Len(text) \in Nat /\ start \in 0 .. Len(text) /\ read \in start .. Len(text)
  BY TextType DEF TInv
<1>2. StageLeft \in 0 .. 2 /\ (IF eof THEN 0 ELSE 1) \in 0 .. 1
  BY DEF StageLeft
<1> QED BY <1>1, <1>2 DEF Left

LEMMA ReadsNext == TInv /\ ReadsToEOF /\ [Next]_vars => ReadsToEOF'
<1> SUFFICES ASSUME TInv, ReadsToEOF, [Next]_vars, pc' = "read" PROVE eof' = FALSE
  BY DEF ReadsToEOF
<1>1. CASE UNCHANGED vars
  BY <1>1 DEF vars, ReadsToEOF
<1>2. CASE Split
  <2>1. PICK z : z = ScanHTML(Window, eof)
    OBVIOUS
  <2>2. eof' = eof /\ pc' = IF z.found THEN "split" ELSE IF eof THEN "ended" ELSE "read"
    BY <1>2, <2>1 DEF Split
  <2>3. eof \in BOOLEAN
    BY DEF TInv
  <2> QED BY <2>2, <2>3
<1> QED BY <1>1, <1>2 DEF Next, Read, GiveUp

LEMMA LeftShrinks == TInv /\ TInv' /\ ReadsToEOF /\ Next => Left' < Left
<1> SUFFICES ASSUME TInv, TInv', ReadsToEOF, Next PROVE Left' < Left
  OBVIOUS
<1>1. Len(text) \in Nat /\ start \in 0 .. Len(text) /\ read \in start .. Len(text)
  BY TextType DEF TInv
<1>2. CASE Split
  <2>1. PICK z : z = ScanHTML(Window, eof)
    OBVIOUS
  <2>2. /\ pc = "split" /\ text' = text /\ read' = read /\ eof' = eof
        /\ start' = start + z.advance
        /\ tokens' = IF z.found THEN Append(tokens, z.token) ELSE tokens
        /\ pc' = IF z.found THEN "split" ELSE IF eof THEN "ended" ELSE "read"
    BY <1>2, <2>1 DEF Split
  <2>3. CASE z.found = TRUE
    <3>1. start' \in start .. Len(text)
      <4>1. /\ text \in Seq(Bytes) /\ Fresh(text, start)
            /\ Shows(Window, text, start, read)
            /\ eof \in BOOLEAN /\ (eof => read = Len(text))
        BY TextType, WindowShows DEF TInv
      <4>2. start' \in start .. read
        BY <1>1, <2>1, <2>2, <2>3, <4>1, ScanFinds
      <4> QED BY <1>1, <4>2
    <3>2. start' # start
      <4>1. Len(tokens) = Cardinality(Begun(text, start)) /\ Len(tokens) \in Nat
        BY DEF TInv
      <4>2. Len(tokens') = Cardinality(Begun(text, start'))
        BY <2>2 DEF TInv
      <4>3. Len(tokens') = Len(tokens) + 1
        <5>1. tokens' = Append(tokens, z.token)
          BY <2>2, <2>3
        <5> QED BY <5>1 DEF TInv
      <4>4. start' = start
              => Cardinality(Begun(text, start')) = Cardinality(Begun(text, start))
        BY Zenon
      <4>5. Len(tokens') # Len(tokens)
        BY <4>1, <4>3
      <4> QED BY <4>1, <4>2, <4>4, <4>5, Zenon
    <3>3. StageLeft = 2 /\ StageLeft' = 2
      BY <2>2, <2>3 DEF StageLeft
    <3>4. (IF eof THEN 0 ELSE 1) \in 0 .. 1
      OBVIOUS
    <3> QED BY <1>1, <2>2, <3>1, <3>2, <3>3, <3>4 DEF Left
  <2>4. CASE z.found # TRUE
    <3>1. ~ z.found
      BY <2>1, <2>4 DEF ScanHTML, EndedToken, Token, NoToken
    <3>2. pc' = IF eof THEN "ended" ELSE "read"
      BY <2>2, <3>1
    <3>3. StageLeft = 2 /\ StageLeft' \in 0 .. 1
      BY <2>2, <3>2 DEF StageLeft
    <3>4. start' \in start .. Len(text)
      <4>1. PICK f : f = FirstText(Window)
        OBVIOUS
      <4>2. z.advance = f - 1
        BY <2>1, <3>1, <4>1, ScanSkips DEF TInv
      <4>3. Window \in Seq(Bytes)
        BY WindowShows DEF Shows
      <4>4. f \in 1 .. Len(Window) + 1 /\ Len(Window) \in Nat
        BY <4>1, <4>3, FirstTextIs
      <4>5. start' \in 0 .. Len(text)
        BY <2>2 DEF TInv
      <4> QED BY <1>1, <2>2, <4>2, <4>4, <4>5
    <3>5. (IF eof THEN 0 ELSE 1) \in 0 .. 1
      OBVIOUS
    <3> QED BY <1>1, <2>2, <3>3, <3>4, <3>5 DEF Left
  <2> QED BY <2>3, <2>4
<1>3. CASE Read
  <2>1. PICK n \in 0 .. MaxToken - Len(Window) :
          /\ read' = read + n
          /\ n > 0 \/ eof'
    BY <1>3 DEF Read
  <2>2. pc = "read" /\ pc' = "split" /\ text' = text /\ start' = start
    BY <1>3 DEF Read
  <2>3. eof = FALSE /\ eof' \in BOOLEAN
    BY <2>2 DEF ReadsToEOF, TInv
  <2>4. read' \in start .. Len(text)
    BY <2>2 DEF TInv
  <2>5. n \in Int /\ n >= 0
    BY <1>1, <2>1, <2>4
  <2>6. StageLeft = 1 /\ StageLeft' = 2
    BY <2>2 DEF StageLeft
  <2>7. (IF eof THEN 0 ELSE 1) = 1 /\ (IF eof THEN 0 ELSE 1)' \in 0 .. 1
    BY <2>3
  <2>8. n = 0 => (IF eof THEN 0 ELSE 1)' = 0
    BY <2>1, <2>3
  <2> QED BY <1>1, <2>1, <2>2, <2>4, <2>5, <2>6, <2>7, <2>8 DEF Left
<1>4. CASE GiveUp
  <2>1. /\ pc = "read" /\ pc' = "errTooLong"
        /\ text' = text /\ read' = read /\ start' = start /\ eof' = eof
    BY <1>4 DEF GiveUp
  <2>2. StageLeft = 1 /\ StageLeft' = 0
    BY <2>1 DEF StageLeft
  <2>3. (IF eof THEN 0 ELSE 1) \in 0 .. 1
    OBVIOUS
  <2> QED BY <1>1, <2>1, <2>2, <2>3 DEF Left
<1> QED BY <1>2, <1>3, <1>4 DEF Next

(* Fill's loop has a bound: each of its steps, reads without a byte and    *)
(* calls without a token included, takes of what is left of the text.      *)
THEOREM ScanBounded == Spec => [](Left \in Nat) /\ [][Left' < Left]_vars
<1>1. Init => ReadsToEOF
  BY DEF Init, ReadsToEOF
<1>2. TInv /\ TInv' /\ ReadsToEOF /\ [Next]_vars => [Left' < Left]_vars
  BY LeftShrinks
<1> QED BY <1>1, <1>2, LeftNat, ReadsNext, ScanInvariant, PTL DEF Spec
=============================================================================
