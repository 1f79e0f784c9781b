------------------------- MODULE PromptCacheProofs -------------------------
(***************************************************************************)
(* What a slot knows of its own cells, for every vocabulary, every set of  *)
(* prompts and every size of the context and the batch: the type invariant *)
(* of PromptCache, that a prompt fits the context once it was set up, that *)
(* there is something to sample from, and that a decode sees the tokens of *)
(* its own request and no others.                                          *)
(*                                                                         *)
(* The first half is about the operators the model is built from: cells,   *)
(* sequences with a part cut out, and the longest common prefix.           *)
(***************************************************************************)
EXTENDS PromptCache, TLAPS, WellFoundedInduction, SequenceTheorems

\* What the division of C++ (on numbers that are not negative) gives.
LEMMA Division ==
    ASSUME NEW a \in Nat, NEW b \in Nat \ {0}
    PROVE  /\ a \div b \in Nat
           /\ (a \div b) * b <= a
           /\ a < (a \div b) * b + b
<1>1. a \div b \in Nat
  OBVIOUS
<1>2. a = b * (a \div b) + (a % b)
  OBVIOUS
<1>3. a % b \in 0..(b - 1)
  OBVIOUS
<1>4. b * (a \div b) = (a \div b) * b
  BY <1>1
<1> QED
  BY <1>1, <1>2, <1>3, <1>4

\* The sequence that is left when n tokens after the first `keep` are cut out.
LEMMA WithoutLen ==
    ASSUME NEW S, NEW s \in Seq(S), NEW keep \in Nat, NEW n \in Nat,
           keep + n <= Len(s)
    PROVE  Without(s, keep, n) \in Seq(S) /\ Len(Without(s, keep, n)) = Len(s) - n
<1>1. SubSeq(s, 1, keep) \in Seq(S) /\ Len(SubSeq(s, 1, keep)) = keep
  OBVIOUS
<1>2. /\ SubSeq(s, keep + n + 1, Len(s)) \in Seq(S)
      /\ Len(SubSeq(s, keep + n + 1, Len(s))) = Len(s) - keep - n
  OBVIOUS
<1> DEFINE front == SubSeq(s, 1, keep)
           back  == SubSeq(s, keep + n + 1, Len(s))
<1> HIDE DEF front, back
<1>3. /\ front \o back \in Seq(S)
      /\ Len(front \o back) = Len(front) + Len(back)
  BY <1>1, <1>2 DEF front, back
<1>4. Without(s, keep, n) = front \o back
  BY DEF Without, front, back
<1>5. Len(front) = keep /\ Len(back) = Len(s) - keep - n /\ Len(s) \in Nat
  BY <1>1, <1>2 DEF front, back
<1>6. keep + (Len(s) - keep - n) = Len(s) - n
  BY <1>5
<1> QED
  BY <1>3, <1>4, <1>5, <1>6

\* A truncated prompt is shorter than the context, and a prompt still, of which
\* something is left.
LEMMA TruncateFits ==
    ASSUME NEW tokens \in Seq(Tokens), NEW keep \in 0..(NCtx - 4)
    PROVE  /\ Truncate(tokens, keep) \in Seq(Tokens)
           /\ Len(Truncate(tokens, keep)) < NCtx
           /\ tokens # <<>> => Len(Truncate(tokens, keep)) > 0
<1>1. CASE Len(tokens) < NCtx
  BY <1>1 DEF Truncate
<1>2. CASE Len(tokens) >= NCtx
  <2> DEFINE block  == (NCtx - keep) \div 2
             rest   == Len(tokens) - keep - block
             erased == rest \div block
  <2>1. NCtx \in Nat /\ keep \in Nat /\ NCtx - keep \in Nat /\ NCtx - keep >= 4
    BY CacheAssumption
  <2>2. block \in Nat \ {0} /\ block + block <= NCtx - keep
    BY <2>1 DEF block
  <2>3. rest \in Nat
    BY <1>2, <2>1, <2>2
  <2> HIDE DEF block, rest
  <2>4. /\ erased \in Nat
        /\ erased * block <= rest
        /\ rest < erased * block + block
    BY <2>2, <2>3, Division
  <2>5. erased * block \in Nat
    BY <2>2, <2>4
  <2> DEFINE n == erased * block
  <2> HIDE DEF erased
  <2>6. keep + n <= Len(tokens) /\ Len(tokens) - n < NCtx /\ Len(tokens) - n > 0
    BY <2>1, <2>2, <2>4, <2>5 DEF rest
  <2>7. /\ Without(tokens, keep, n) \in Seq(Tokens)
        /\ Len(Without(tokens, keep, n)) = Len(tokens) - n
    BY <2>1, <2>5, <2>6, WithoutLen
  <2>8. Truncate(tokens, keep) = Without(tokens, keep, n)
    BY <1>2, <2>1 DEF Truncate, block, rest, erased
  <2> QED
    BY <2>6, <2>7, <2>8
<1> QED
  BY <1>1, <1>2, CacheAssumption

-----------------------------------------------------------------------------
(* Cells *)

LEMMA CellIn ==
    ASSUME NEW S, NEW s \in Seq(S), NEW from \in Int, NEW c
    PROVE  c \in CellsOf(s, from) <=> \E k \in 1..Len(s) : c = <<from + k - 1, s[k]>>
BY DEF CellsOf

\* The cells of two sequences, one behind the other.
LEMMA CellsOfConcat ==
    ASSUME NEW S, NEW a \in Seq(S), NEW b \in Seq(S), NEW from \in Int
    PROVE  CellsOf(a \o b, from) = CellsOf(a, from) \cup CellsOf(b, from + Len(a))
<1> DEFINE s == a \o b
<1>1. /\ s \in Seq(S) /\ Len(s) = Len(a) + Len(b)
      /\ \A k \in 1..Len(a) : s[k] = a[k]
      /\ \A k \in 1..Len(b) : s[Len(a) + k] = b[k]
  OBVIOUS
<1>2. Len(a) \in Nat /\ Len(b) \in Nat
  OBVIOUS
<1> HIDE DEF s
<1>3. ASSUME NEW c \in CellsOf(s, from)
      PROVE  c \in CellsOf(a, from) \cup CellsOf(b, from + Len(a))
  <2>1. PICK k \in 1..Len(s) : c = <<from + k - 1, s[k]>>
    BY <1>1, <1>3, CellIn
  <2>2. CASE k <= Len(a)
    <3>1. k \in 1..Len(a) /\ c = <<from + k - 1, a[k]>>
      BY <1>1, <1>2, <2>1, <2>2
    <3> QED BY <3>1, CellIn
  <2>3. CASE k > Len(a)
    <3> DEFINE j == k - Len(a)
    <3>0. j \in 1..Len(b) /\ Len(a) + j = k /\ from + k - 1 = (from + Len(a)) + j - 1
      BY <1>1, <1>2, <2>1, <2>3
    <3>1. j \in 1..Len(b) /\ s[k] = b[j] /\ from + k - 1 = (from + Len(a)) + j - 1
      BY <1>1, <3>0
    <3>2. from + Len(a) \in Int
      BY <1>2
    <3> HIDE DEF j
    <3>3. c = <<(from + Len(a)) + j - 1, b[j]>>
      BY <2>1, <3>1
    <3> QED BY <3>1, <3>2, <3>3, CellIn
  <2> QED BY <1>2, <2>1, <2>2, <2>3
<1>4. ASSUME NEW c \in CellsOf(a, from)
      PROVE  c \in CellsOf(s, from)
  <2>1. PICK k \in 1..Len(a) : c = <<from + k - 1, a[k]>>
    BY <1>4, CellIn
  <2>2. k \in 1..Len(s) /\ c = <<from + k - 1, s[k]>>
    BY <1>1, <1>2, <2>1
  <2> QED BY <1>1, <2>2, CellIn
<1>5. ASSUME NEW c \in CellsOf(b, from + Len(a))
      PROVE  c \in CellsOf(s, from)
  <2>1. PICK k \in 1..Len(b) : c = <<(from + Len(a)) + k - 1, b[k]>>
    BY <1>2, <1>5, CellIn
  <2> DEFINE j == Len(a) + k
  <2>2. j \in 1..Len(s) /\ s[j] = b[k] /\ (from + Len(a)) + k - 1 = from + j - 1
    BY <1>1, <1>2, <2>1
  <2> HIDE DEF j
  <2>3. c = <<from + j - 1, s[j]>>
    BY <2>1, <2>2
  <2> QED BY <1>1, <2>2, <2>3, CellIn
<1> QED BY <1>3, <1>4, <1>5 DEF s

\* No two tokens in one cell.
LEMMA CellsOfFunctional ==
    ASSUME NEW S, NEW s \in Seq(S), NEW from \in Int,
           NEW c \in CellsOf(s, from), NEW d \in CellsOf(s, from), c[1] = d[1]
    PROVE  c = d
<1>1. PICK j \in 1..Len(s) : c = <<from + j - 1, s[j]>>
  BY CellIn
<1>2. PICK k \in 1..Len(s) : d = <<from + k - 1, s[k]>>
  BY CellIn
<1>3. from + j - 1 = from + k - 1
  BY <1>1, <1>2
<1>4. j = k
  BY <1>3
<1> QED BY <1>1, <1>2, <1>4

LEMMA CellPositions ==
    ASSUME NEW S, NEW s \in Seq(S), NEW from \in Int, NEW c \in CellsOf(s, from)
    PROVE  /\ c[1] \in from..(from + Len(s) - 1)
           /\ c[2] \in S
           /\ c = <<c[1], c[2]>>
           /\ c[2] = s[c[1] - from + 1]
<1>1. PICK k \in 1..Len(s) : c = <<from + k - 1, s[k]>>
  BY CellIn
<1>2. k \in Nat /\ Len(s) \in Nat /\ s[k] \in S
  OBVIOUS
<1>3. c[1] = from + k - 1 /\ c[2] = s[k]
  BY <1>1
<1>4. c[1] - from + 1 = k /\ c[1] \in from..(from + Len(s) - 1)
  BY <1>2, <1>3
<1> QED BY <1>1, <1>2, <1>3, <1>4

\* The cells in front of those of b.
LEMMA CellsOfFront ==
    ASSUME NEW S, NEW a \in Seq(S), NEW b \in Seq(S), Len(a) + Len(b) <= NCtx
    PROVE  SeqRm(CellsOf(a \o b, 0), Len(a), NCtx) = CellsOf(a, 0)
<1>1. CellsOf(a \o b, 0) = CellsOf(a, 0) \cup CellsOf(b, Len(a))
  <2>1. CellsOf(a \o b, 0) = CellsOf(a, 0) \cup CellsOf(b, 0 + Len(a))
    BY CellsOfConcat
  <2> QED BY <2>1
<1>2. NCtx \in Nat /\ Len(a) \in Nat /\ Len(b) \in Nat
  BY CacheAssumption
<1>3. \A c \in CellsOf(a, 0) : c[1] < Len(a)
  <2> TAKE c \in CellsOf(a, 0)
  <2>1. c[1] \in 0..(0 + Len(a) - 1)
    BY CellPositions
  <2> QED BY <1>2, <2>1
<1>4. \A c \in CellsOf(b, Len(a)) : ~(c[1] < Len(a)) /\ ~(c[1] >= NCtx)
  <2> TAKE c \in CellsOf(b, Len(a))
  <2>1. c[1] \in Len(a)..(Len(a) + Len(b) - 1)
    BY <1>2, CellPositions
  <2> QED BY <1>2, <2>1
<1> QED BY <1>1, <1>3, <1>4 DEF SeqRm

-----------------------------------------------------------------------------
(* Sequences *)

LEMMA SubSeqIs ==
    ASSUME NEW S, NEW s \in Seq(S), NEW i \in Nat, NEW j \in Nat, i <= j, j <= Len(s)
    PROVE  /\ SubSeq(s, i + 1, j) \in Seq(S) /\ Len(SubSeq(s, i + 1, j)) = j - i
           /\ \A k \in 1..(j - i) : SubSeq(s, i + 1, j)[k] = s[i + k]
OBVIOUS

\* Sequences of the same length with the same elements are the same.
LEMMA SeqsEqual ==
    ASSUME NEW S, NEW T, NEW s \in Seq(S), NEW t \in Seq(T), Len(s) = Len(t),
           \A k \in 1..Len(s) : s[k] = t[k]
    PROVE  s = t
OBVIOUS

\* ConcatAssociative of SequenceTheorems, for tokens.
LEMMA TokensAssociate ==
    ASSUME NEW a \in Seq(Tokens), NEW b \in Seq(Tokens), NEW c \in Seq(Tokens)
    PROVE  (a \o b) \o c = a \o (b \o c)
BY ConcatAssociative, SMTT(30)

\* A sequence is its first elements and those that follow.
LEMMA SubSeqSplit ==
    ASSUME NEW S, NEW s \in Seq(S), NEW i \in Nat, NEW j \in Nat, i <= j, j <= Len(s)
    PROVE  SubSeq(s, 1, j) = SubSeq(s, 1, i) \o SubSeq(s, i + 1, j)
<1>1. Len(s) \in Nat
  OBVIOUS
<1>2. 1 \in 1..(Len(s) + 1) /\ i \in (1 - 1)..Len(s) /\ j \in i..Len(s)
  BY <1>1
<1> QED BY <1>2, ConcatAdjacentSubSeq

\* The elements of a sequence of which n were cut out.
LEMMA WithoutElements ==
    ASSUME NEW S, NEW s \in Seq(S), NEW keep \in Nat, NEW n \in Nat,
           keep + n <= Len(s)
    PROVE  \A k \in 1..(Len(s) - n) :
              Without(s, keep, n)[k] = IF k <= keep THEN s[k] ELSE s[k + n]
<1> DEFINE a == SubSeq(s, 1, keep)
           b == SubSeq(s, keep + n + 1, Len(s))
<1>0. Len(s) \in Nat /\ keep + n \in Nat
  OBVIOUS
<1>1. /\ a \in Seq(S) /\ Len(a) = keep
      /\ \A k \in 1..keep : a[k] = s[k]
  BY <1>0
<1>2. /\ b \in Seq(S) /\ Len(b) = Len(s) - (keep + n)
      /\ \A k \in 1..(Len(s) - (keep + n)) : b[k] = s[keep + n + k]
  BY <1>0, SubSeqIs
<1> HIDE DEF a, b
<1>3. /\ \A k \in 1..Len(a) : (a \o b)[k] = a[k]
      /\ \A k \in 1..Len(b) : (a \o b)[Len(a) + k] = b[k]
  BY <1>1, <1>2
<1>4. Without(s, keep, n) = a \o b
  BY DEF Without, a, b
<1>5. ASSUME NEW k \in 1..(Len(s) - n)
      PROVE  (a \o b)[k] = IF k <= keep THEN s[k] ELSE s[k + n]
  <2>1. CASE k <= keep
    <3>1. k \in 1..keep
      BY <2>1
    <3> QED BY <1>1, <1>3, <2>1, <3>1
  <2>2. CASE k > keep
    <3>1. k - keep \in 1..(Len(s) - (keep + n)) /\ keep + (k - keep) = k
          /\ keep + n + (k - keep) = k + n
      BY <1>0, <2>2
    <3>2. (a \o b)[keep + (k - keep)] = b[k - keep]
          /\ b[k - keep] = s[keep + n + (k - keep)]
      BY <1>1, <1>2, <1>3, <3>1
    <3>3. ~(k <= keep)
      BY <2>2
    <3> HIDE DEF Without
    <3>4. (a \o b)[k] = s[k + n]
      BY <3>1, <3>2
    <3> QED BY <3>3, <3>4, Zenon
  <2>3. k <= keep \/ k > keep
    OBVIOUS
  <2> QED BY <2>1, <2>2, <2>3, Zenon
<1> QED BY <1>4, <1>5

\* Where the cells of a gap are removed and those behind it close it, the cells are
\* those of the sequence without the gap.
LEMMA GapCloses ==
    ASSUME NEW S, NEW s \in Seq(S), NEW keep \in Nat, NEW n \in Nat,
           keep + n <= Len(s)
    PROVE  SeqAdd(SeqRm(CellsOf(s, 0), keep, keep + n), keep + n, Len(s), 0 - n)
             = CellsOf(Without(s, keep, n), 0)
<1> DEFINE w == Without(s, keep, n)
           left == SeqRm(CellsOf(s, 0), keep, keep + n)
           moved == SeqAdd(left, keep + n, Len(s), 0 - n)
<1>0. /\ w \in Seq(S) /\ Len(w) = Len(s) - n
      /\ \A k \in 1..(Len(s) - n) : w[k] = IF k <= keep THEN s[k] ELSE s[k + n]
  BY WithoutLen, WithoutElements, Zenon
<1> HIDE DEF w
<1>1. /\ w \in Seq(S) /\ Len(w) = Len(s) - n /\ Len(s) \in Nat
      /\ \A k \in 1..Len(w) : w[k] = IF k <= keep THEN s[k] ELSE s[k + n]
  BY <1>0
<1>2. \A c : c \in CellsOf(s, 0) <=> \E k \in 1..Len(s) : c = <<k - 1, s[k]>>
  <2> TAKE c
  <2>1. c \in CellsOf(s, 0) <=> \E k \in 1..Len(s) : c = <<0 + k - 1, s[k]>>
    BY CellIn
  <2> QED BY <1>1, <2>1
<1>3. \A c : c \in CellsOf(w, 0) <=> \E k \in 1..Len(w) : c = <<k - 1, w[k]>>
  <2> TAKE c
  <2>1. c \in CellsOf(w, 0) <=> \E k \in 1..Len(w) : c = <<0 + k - 1, w[k]>>
    BY <1>1, CellIn
  <2> QED BY <1>1, <2>1
<1>4. ASSUME NEW c \in moved
      PROVE  c \in CellsOf(w, 0)
  <2>1. PICK d \in left : c = IF d[1] >= keep + n /\ d[1] < Len(s)
                              THEN <<d[1] + (0 - n), d[2]>> ELSE d
    BY <1>4 DEF SeqAdd
  <2>2. d \in CellsOf(s, 0) /\ (d[1] < keep \/ d[1] >= keep + n)
    BY <2>1 DEF SeqRm
  <2>3. PICK k \in 1..Len(s) : d = <<k - 1, s[k]>>
    BY <1>2, <2>2
  <2>4. d[1] = k - 1 /\ d[2] = s[k] /\ k \in Nat
    BY <2>3
  <2>5. CASE k - 1 < keep
    <3>1. c = <<k - 1, s[k]>>
      BY <2>1, <2>3, <2>4, <2>5
    <3>2. k \in 1..Len(w) /\ w[k] = s[k]
      BY <1>1, <2>4, <2>5
    <3> QED BY <1>3, <3>1, <3>2
  <2>6. CASE k - 1 >= keep + n
    <3>1. k - 1 < Len(s)
      BY <1>1, <2>3
    <3>2. c = <<k - 1 + (0 - n), s[k]>>
      BY <2>1, <2>4, <2>6, <3>1
    <3> DEFINE j == k - n
    <3>3. j \in 1..Len(w) /\ ~(j <= keep) /\ j + n = k /\ k - 1 + (0 - n) = j - 1
      BY <1>1, <2>4, <2>6
    <3> HIDE DEF j
    <3>4. w[j] = s[k]
      BY <1>1, <3>3
    <3> QED BY <1>3, <3>2, <3>3, <3>4
  <2> QED BY <2>2, <2>4, <2>5, <2>6
<1>5. ASSUME NEW c \in CellsOf(w, 0)
      PROVE  c \in moved
  <2>1. PICK k \in 1..Len(w) : c = <<k - 1, w[k]>>
    BY <1>3, <1>5
  <2>2. CASE k <= keep
    <3>1. c = <<k - 1, s[k]>> /\ k \in 1..Len(s) /\ c[1] = k - 1
      BY <1>1, <2>1, <2>2
    <3>2. c \in left
      BY <1>2, <2>2, <3>1 DEF SeqRm
    <3>3. ~(c[1] >= keep + n)
      BY <2>2, <3>1
    <3> QED BY <3>2, <3>3 DEF SeqAdd
  <2>3. CASE k > keep
    <3> DEFINE j == k + n
               d == <<j - 1, s[j]>>
    <3>1. j \in 1..Len(s) /\ j - 1 >= keep + n /\ j - 1 < Len(s)
          /\ (j - 1) + (0 - n) = k - 1
      BY <1>1, <2>1, <2>3
    <3>2. w[k] = s[j]
      BY <1>1, <2>1, <2>3
    <3> HIDE DEF j
    <3>3. d \in left
      BY <1>2, <3>1 DEF SeqRm
    <3>4. c = <<d[1] + (0 - n), d[2]>> /\ d[1] >= keep + n /\ d[1] < Len(s)
      BY <2>1, <3>1, <3>2
    <3> HIDE DEF d, left
    <3> QED BY <3>3, <3>4 DEF SeqAdd
  <2> QED BY <2>1, <2>2, <2>3
<1> QED BY <1>4, <1>5 DEF w

-----------------------------------------------------------------------------
(* The longest common prefix *)

\* Every non-empty set of naturals has a least element. It stands in for
\* induction: a property fails at no number, for there is no least one.
LEMMA LeastNumber ==
    ASSUME NEW B \in SUBSET Nat, B # {}
    PROVE  \E n \in B : \A m \in B : n <= m
<1> DEFINE R == OpToRel(<, Nat)
<1>1. IsWellFoundedOn(R, Nat)
  BY NatLessThanWellFounded, Zenon
<1>2. \A x, y \in Nat : x < y => <<x, y>> \in R
  BY DEF OpToRel
<1> HIDE DEF R
<1>3. PICK n \in B : \A m \in B : ~(<<m, n>> \in R)
  BY <1>1, WFMin, Zenon
<1>4. ASSUME NEW m \in B
      PROVE  n <= m
  <2>1. ~(m < n)
    BY <1>2, <1>3, Zenon
  <2> QED BY <2>1
<1> QED BY <1>4

CommonLen(a, b) == Len(LongestCommonPrefix({a, b}))

\* What slot.n_past = common_lcp(...) counts.
LEMMA CommonPrefixIs ==
    ASSUME NEW a \in Seq(Nat), NEW b \in Seq(Nat)
    PROVE  /\ CommonLen(a, b) \in Nat
           /\ CommonLen(a, b) <= Len(a) /\ CommonLen(a, b) <= Len(b)
           /\ \A k \in 1..CommonLen(a, b) : a[k] = b[k]
<1> DEFINE C == CommonPrefixes({a, b})
           p == LongestCommonPrefix({a, b})
<1>1. /\ Len(a) \in Nat /\ Len(b) \in Nat
  OBVIOUS
<1>2. ASSUME NEW c \in C
      PROVE  IsPrefix(c, a) /\ IsPrefix(c, b) /\ Len(c) \in Nat
  <2>1. c \in UNION {Prefixes(s) : s \in {a, b}} /\ IsPrefix(c, a) /\ IsPrefix(c, b)
    BY <1>2 DEF CommonPrefixes
  <2>2. c \in Prefixes(a) \/ c \in Prefixes(b)
    BY <2>1
  <2>3. CASE c \in Prefixes(a)
    <3>1. PICK l \in 0..Len(a) : c = SubSeq(a, 1, l)
      BY <2>3 DEF Prefixes
    <3>2. Len(SubSeq(a, 1, l)) = l
      BY <1>1
    <3> QED BY <2>1, <3>1, <3>2
  <2>4. CASE c \in Prefixes(b)
    <3>1. PICK l \in 0..Len(b) : c = SubSeq(b, 1, l)
      BY <2>4 DEF Prefixes
    <3>2. Len(SubSeq(b, 1, l)) = l
      BY <1>1
    <3> QED BY <2>1, <3>1, <3>2
  <2> QED BY <2>2, <2>3, <2>4
<1>3. SubSeq(a, 1, 0) \in C
  <2>1. SubSeq(a, 1, 0) = <<>> /\ SubSeq(b, 1, 0) = <<>> /\ Len(<<>>) = 0
        /\ SubSeq(<<>>, 1, 0) = <<>>
    OBVIOUS
  <2>2. SubSeq(a, 1, 0) \in Prefixes(a)
    BY <1>1 DEF Prefixes
  <2>3. IsPrefix(<<>>, a) /\ IsPrefix(<<>>, b)
    BY <1>1, <2>1 DEF IsPrefix
  <2> QED BY <2>1, <2>2, <2>3 DEF CommonPrefixes
<1> DEFINE B == {Len(a) - Len(c) : c \in C}
<1>4. B \in SUBSET Nat /\ B # {}
  <2>1. \A c \in C : Len(a) - Len(c) \in Nat
    BY <1>1, <1>2 DEF IsPrefix
  <2> HIDE DEF C
  <2> QED BY <1>3, <2>1
<1>5. PICK n \in B : \A m \in B : n <= m
  <2> HIDE DEF B
  <2> QED BY <1>4, LeastNumber
<1>6. PICK c \in C : n = Len(a) - Len(c)
  BY <1>5
<1>7. \A other \in C : Len(other) <= Len(c)
  <2> TAKE other \in C
  <2>1. Len(a) - Len(other) \in B
    OBVIOUS
  <2>2. Len(other) \in Nat /\ Len(c) \in Nat
    BY <1>2, <1>6
  <2> HIDE DEF B, C
  <2> QED BY <1>1, <1>5, <1>6, <2>1, <2>2
<1>8. p \in C
  <2> HIDE DEF C
  <2>1. \E longest \in C : \A other \in C : Len(other) <= Len(longest)
    BY <1>6, <1>7
  <2>2. p = CHOOSE longest \in C : \A other \in C : Len(other) <= Len(longest)
    BY DEF LongestCommonPrefix, C
  <2> HIDE DEF p
  <2> QED BY <2>1, <2>2, Zenon
<1>9. IsPrefix(p, a) /\ IsPrefix(p, b) /\ Len(p) \in Nat
  <2> HIDE DEF p, C
  <2> QED BY <1>2, <1>8
<1> HIDE DEF p
<1>10. /\ Len(p) <= Len(a) /\ Len(p) <= Len(b)
       /\ SubSeq(p, 1, Len(p)) = SubSeq(a, 1, Len(p))
       /\ SubSeq(p, 1, Len(p)) = SubSeq(b, 1, Len(p))
  BY <1>9 DEF IsPrefix
<1>11. \A k \in 1..Len(p) : a[k] = b[k]
  <2> TAKE k \in 1..Len(p)
  <2>1. SubSeq(a, 1, Len(p))[k] = a[k] /\ SubSeq(b, 1, Len(p))[k] = b[k]
    BY <1>1, <1>9, <1>10
  <2> QED BY <1>10, <2>1
<1> QED BY <1>9, <1>10, <1>11 DEF p, CommonLen

-----------------------------------------------------------------------------
(* What the slot knows of its own cells *)

\* From SetUp to the first batch, and from there to the release.
SettingUp == phase \in {"reuse", "reused"}
Begun     == phase \in {"prompt", "partway", "logits", "drafting", "generating"}
Filling   == phase \in {"prompt", "partway"}

\* The search for chunks is within cache_tokens, of which the first n_past are those
\* of the prompt.
Found ==
    SettingUp =>
        /\ n_past <= Len(prompt_tokens) /\ n_past <= head_c /\ head_c <= Len(cache_tokens)
        /\ \A k \in 1..n_past : cache_tokens[k] = prompt_tokens[k]
        /\ ~cache_prompt => phase = "reused" /\ n_past = 0

\* A prompt of which a part is left to batch.
PartLeft ==
    Filling =>
        /\ n_past < Len(prompt_tokens)
        /\ context = SubSeq(prompt_tokens, 1, n_past)
        /\ \A c \in kv \cup batch : c[1] < n_past

\* What the slot believes its cells to hold, and nothing where it does not cache.
Believed ==
    Begun =>
        /\ Len(context) = n_past
        /\ cache_prompt => cache_tokens = context
        /\ ~cache_prompt => /\ phase # "drafting"
                            /\ \A k \in DOMAIN cache_tokens : cache_tokens[k] = 0

SlotInv ==
    /\ CacheTypeOK /\ PromptFits
    /\ Len(cache_tokens) < NCtx
    /\ Decoding \/ batch = {}
    /\ phase # "idle" => cache_prompt \in options.cache_prompts
    /\ SettingUp \/ Begun => prompt_tokens # <<>> /\ n_keep \in 0..(NCtx - 4)
    /\ Found /\ PartLeft /\ Believed
    /\ phase \in {"drafting", "generating"} => sampled \in Tokens
    /\ LogitsAreComputed

LEMMA InitSlotInv == Init => SlotInv
<1> SUFFICES ASSUME Init
             PROVE  SlotInv
  OBVIOUS
<1>1. CacheTypeOK
  <2>1. options \in Options /\ phase = "idle" /\ cache_prompt = TRUE /\ n_keep = 0
        /\ n_past = 0 /\ head_c = 0 /\ sampled = 0 /\ batch = {} /\ kv = {}
    BY DEF Init
  <2>2. prompt_tokens \in Seq(Tokens)
    BY DEF Init
  <2>3. cache_tokens \in Seq(Tokens \cup {0})
    BY DEF Init
  <2>4. context \in Seq(Tokens)
    BY DEF Init
  <2> QED BY <2>1, <2>2, <2>3, <2>4, CacheAssumption DEF CacheTypeOK
<1>2. Len(cache_tokens) < NCtx
  BY CacheAssumption DEF Init
<1> QED
  BY <1>1, <1>2 DEF Init, SlotInv, PromptFits, Decoding, SettingUp, Begun, Found, Filling,
     PartLeft, Believed, LogitsAreComputed

LEMMA LaunchSlot ==
    ASSUME SlotInv, UNCHANGED options, NEW tokens \in Prompts, NEW keep \in Keeps,
           NEW cached \in options.cache_prompts, Launch(tokens, keep, cached)
    PROVE  SlotInv'
<1>1. tokens \in Seq(Tokens) /\ keep \in Int
  BY CacheAssumption
<1>2. cached \in BOOLEAN
  BY CacheAssumption DEF SlotInv, CacheTypeOK
<1>3. phase = "idle" /\ phase' = "started" /\ prompt_tokens' = tokens /\ n_keep' = keep
      /\ cache_prompt' = cached /\ n_past' = 0 /\ context' = <<>>
      /\ UNCHANGED <<options, cache_tokens, head_c, sampled, batch, kv>>
  BY DEF Launch
<1>4. context' \in Seq(Tokens)
  BY <1>3
<1>5. CacheTypeOK'
  BY <1>1, <1>2, <1>3, <1>4, CacheAssumption DEF SlotInv, CacheTypeOK
<1> QED
  BY <1>2, <1>3, <1>5 DEF SlotInv, PromptFits, Decoding, SettingUp, Begun, Found, Filling,
     PartLeft, Believed, LogitsAreComputed

\* The slot is released.
LEMMA ToIdleSlot ==
    ASSUME SlotInv, UNCHANGED options, ToIdle, kv' \in SUBSET Cell
    PROVE  SlotInv'
BY DEF ToIdle, requestVars, SlotInv, CacheTypeOK, PromptFits, Decoding, SettingUp, Begun, Found,
   Filling, PartLeft, Believed, LogitsAreComputed

LEMMA SetUpSlot ==
    ASSUME SlotInv, UNCHANGED options, SetUp
    PROVE  SlotInv'
<1> DEFINE keep   == Min2(NCtx - 4, IF n_keep < 0 THEN Len(prompt_tokens) ELSE n_keep)
           tokens == Truncate(prompt_tokens, keep)
           common == IF cache_prompt
                     THEN Len(LongestCommonPrefix({cache_tokens, tokens})) ELSE 0
<1>1. prompt_tokens \in Seq(Tokens) /\ n_keep \in Int /\ cache_tokens \in Seq(Tokens \cup {0})
      /\ Len(cache_tokens) < NCtx /\ Len(cache_tokens) \in Nat
  BY DEF SlotInv, CacheTypeOK
<1>2. keep \in 0..(NCtx - 4)
  BY <1>1, CacheAssumption DEF Min2
<1>3. /\ phase = "started" /\ prompt_tokens # <<>>
      /\ n_keep' = keep /\ prompt_tokens' = tokens
      /\ n_past' = common /\ head_c' = common
      /\ phase' = IF cache_prompt /\ NCacheReuse > 0 THEN "reuse" ELSE "reused"
      /\ UNCHANGED <<options, cache_prompt, cache_tokens, sampled, batch, kv, context>>
  BY DEF SetUp, Refused
<1> HIDE DEF keep
<1>4. tokens \in Seq(Tokens) /\ Len(tokens) < NCtx /\ Len(tokens) > 0
  BY <1>1, <1>2, <1>3, TruncateFits
<1> HIDE DEF tokens
<1>5. /\ common \in Nat /\ common <= Len(cache_tokens) /\ common <= Len(tokens)
      /\ \A k \in 1..common : cache_tokens[k] = tokens[k]
      /\ ~cache_prompt => common = 0
  <2> DEFINE found == CommonLen(cache_tokens, tokens)
  <2>1. /\ found \in Nat /\ found <= Len(cache_tokens) /\ found <= Len(tokens)
        /\ \A k \in 1..found : cache_tokens[k] = tokens[k]
    <3>1. cache_tokens \in Seq(Nat) /\ tokens \in Seq(Nat)
      <4>1. Tokens \in SUBSET Nat /\ (Tokens \cup {0}) \in SUBSET Nat
        BY CacheAssumption
      <4> QED BY <1>1, <1>4, <4>1, SeqMonotonic, Zenon
    <3> QED BY <3>1, CommonPrefixIs
  <2>2. common = IF cache_prompt THEN found ELSE 0
    BY DEF CommonLen
  <2> HIDE DEF common, found
  <2> QED BY <1>1, <1>4, <2>1, <2>2
<1> HIDE DEF common
<1>6. CacheTypeOK'
  BY <1>1, <1>2, <1>3, <1>4, <1>5, CacheAssumption DEF SlotInv, CacheTypeOK
<1>7. Found' /\ prompt_tokens' # <<>>
  BY <1>1, <1>3, <1>4, <1>5 DEF Found, SettingUp
<1> QED
  BY <1>1, <1>2, <1>3, <1>4, <1>6, <1>7 DEF SlotInv, PromptFits, Decoding, SettingUp, Begun,
     Filling, PartLeft, Believed, LogitsAreComputed

-----------------------------------------------------------------------------

\* What common_lcp finds at the heads of the two sequences.
LEMMA NMatchIs ==
    ASSUME SlotInv, InReuse
    PROVE  /\ NMatch \in Nat
           /\ head_c + NMatch <= Len(cache_tokens)
           /\ n_past + NMatch <= Len(prompt_tokens)
           /\ \A k \in 1..NMatch : cache_tokens[head_c + k] = prompt_tokens[n_past + k]
<1> DEFINE a == SubSeq(cache_tokens, head_c + 1, Len(cache_tokens))
           b == SubSeq(prompt_tokens, n_past + 1, Len(prompt_tokens))
<1>1. /\ prompt_tokens \in Seq(Tokens) /\ cache_tokens \in Seq(Tokens \cup {0})
      /\ n_past \in Nat /\ head_c \in Nat /\ Len(cache_tokens) \in Nat
      /\ Len(prompt_tokens) \in Nat
      /\ head_c <= Len(cache_tokens) /\ n_past <= Len(prompt_tokens)
  BY DEF SlotInv, CacheTypeOK, InReuse, Found, SettingUp
<1>2. /\ a \in Seq(Tokens \cup {0}) /\ Len(a) = Len(cache_tokens) - head_c
      /\ \A k \in 1..(Len(cache_tokens) - head_c) : a[k] = cache_tokens[head_c + k]
  BY <1>1, SubSeqIs
<1>3. /\ b \in Seq(Tokens) /\ Len(b) = Len(prompt_tokens) - n_past
      /\ \A k \in 1..(Len(prompt_tokens) - n_past) : b[k] = prompt_tokens[n_past + k]
  BY <1>1, SubSeqIs
<1>4. NMatch = CommonLen(a, b)
  BY DEF NMatch, CommonLen
<1> HIDE DEF a, b
<1>5. /\ NMatch \in Nat /\ NMatch <= Len(a) /\ NMatch <= Len(b)
      /\ \A k \in 1..NMatch : a[k] = b[k]
  <2>1. a \in Seq(Nat) /\ b \in Seq(Nat)
    <3>1. Tokens \in SUBSET Nat /\ (Tokens \cup {0}) \in SUBSET Nat
      BY CacheAssumption
    <3> QED BY <1>2, <1>3, <3>1, SeqMonotonic, Zenon
  <2> QED BY <1>4, <2>1, CommonPrefixIs
<1>6. ASSUME NEW k \in 1..NMatch
      PROVE  cache_tokens[head_c + k] = prompt_tokens[n_past + k]
  <2>1. k \in 1..(Len(cache_tokens) - head_c) /\ k \in 1..(Len(prompt_tokens) - n_past)
    BY <1>1, <1>2, <1>3, <1>5
  <2> QED BY <1>2, <1>3, <1>5, <2>1
<1> QED BY <1>1, <1>2, <1>3, <1>5, <1>6

LEMMA ReuseChunkSlot ==
    ASSUME SlotInv, UNCHANGED options, ReuseChunk
    PROVE  SlotInv'
<1> DEFINE n == NMatch
<1>1. /\ n \in Nat /\ head_c + n <= Len(cache_tokens) /\ n_past + n <= Len(prompt_tokens)
      /\ \A k \in 1..n : cache_tokens[head_c + k] = prompt_tokens[n_past + k]
  BY NMatchIs DEF ReuseChunk
<1>2. /\ kv' = SeqAdd(SeqRm(kv, n_past, head_c), head_c, head_c + n, n_past - head_c)
      /\ cache_tokens' = [k \in DOMAIN cache_tokens |->
                            IF k > n_past /\ k <= n_past + n
                            THEN cache_tokens[k - n_past + head_c] ELSE cache_tokens[k]]
      /\ n_past' = n_past + n /\ head_c' = head_c + n
      /\ UNCHANGED <<phase, options, prompt_tokens, n_keep, cache_prompt, sampled, batch, context>>
      /\ phase = "reuse"
  BY DEF ReuseChunk, InReuse, requestVars
<1> HIDE DEF n
<1>3. /\ n_past \in 0..(NCtx - 1) /\ head_c \in 0..NCtx /\ n_past <= head_c
      /\ head_c <= Len(cache_tokens) /\ n_past <= Len(prompt_tokens)
      /\ \A k \in 1..n_past : cache_tokens[k] = prompt_tokens[k]
      /\ cache_tokens \in Seq(Tokens \cup {0}) /\ prompt_tokens \in Seq(Tokens)
      /\ kv \subseteq Cell /\ cache_prompt
      /\ Len(cache_tokens) < NCtx /\ Len(prompt_tokens) < NCtx
      /\ Len(cache_tokens) \in Nat /\ Len(prompt_tokens) \in Nat /\ NCtx \in Nat
  BY <1>2, CacheAssumption DEF SlotInv, CacheTypeOK, PromptFits, Found, SettingUp
<1>4. /\ cache_tokens' \in Seq(Tokens \cup {0}) /\ Len(cache_tokens') = Len(cache_tokens)
      /\ \A k \in 1..Len(cache_tokens) :
            cache_tokens'[k] = IF k > n_past /\ k <= n_past + n
                               THEN cache_tokens[k - n_past + head_c] ELSE cache_tokens[k]
  <2>1. DOMAIN cache_tokens = 1..Len(cache_tokens)
    BY <1>3
  <2>2. \A k \in 1..Len(cache_tokens) : cache_tokens[k] \in Tokens \cup {0}
    BY <1>3
  <2>3. ASSUME NEW k \in 1..Len(cache_tokens), k > n_past, k <= n_past + n
        PROVE  k - n_past + head_c \in 1..Len(cache_tokens)
    BY <1>1, <1>3, <2>3
  <2>4. cache_tokens' \in [1..Len(cache_tokens) -> Tokens \cup {0}]
    BY <1>2, <2>1, <2>2, <2>3
  <2>5. cache_tokens' \in Seq(Tokens \cup {0}) /\ Len(cache_tokens') = Len(cache_tokens)
    BY <1>3, <2>4
  <2> QED BY <1>2, <2>1, <2>5
<1>5. \A k \in 1..(n_past + n) : cache_tokens'[k] = prompt_tokens[k]
  <2> TAKE k \in 1..(n_past + n)
  <2>1. k \in 1..Len(cache_tokens)
    BY <1>1, <1>3
  <2>2. CASE k <= n_past
    BY <1>3, <1>4, <2>1, <2>2
  <2>3. CASE k > n_past
    <3>1. k - n_past \in 1..n /\ head_c + (k - n_past) = k - n_past + head_c
          /\ n_past + (k - n_past) = k
      BY <1>1, <1>3, <2>3
    <3>2. cache_tokens[head_c + (k - n_past)] = prompt_tokens[n_past + (k - n_past)]
      BY <1>1, <3>1
    <3> QED BY <1>4, <2>1, <2>3, <3>1, <3>2
  <2> QED BY <1>3, <2>2, <2>3
<1>6. kv' \subseteq Cell
  <2>1. ASSUME NEW c \in kv' PROVE c \in Cell
    <3>1. PICK d \in kv : c = IF d[1] >= head_c /\ d[1] < head_c + n
                              THEN <<d[1] + (n_past - head_c), d[2]>> ELSE d
      BY <1>2, <2>1 DEF SeqAdd, SeqRm
    <3>2. d \in Cell /\ d[1] \in 0..(NCtx - 1) /\ d[2] \in Tokens \cup {0}
      BY <1>3 DEF Cell
    <3>3. CASE d[1] >= head_c /\ d[1] < head_c + n
      <4>0. n_past \in Nat /\ head_c \in Nat /\ n_past <= head_c /\ NCtx \in Nat
        BY <1>3
      <4>1. d[1] + (n_past - head_c) \in 0..(NCtx - 1)
        BY <3>2, <3>3, <4>0
      <4>2. c = <<d[1] + (n_past - head_c), d[2]>>
        BY <3>1, <3>3, Zenon
      <4> QED BY <3>2, <4>1, <4>2, Zenon DEF Cell
    <3>4. CASE ~(d[1] >= head_c /\ d[1] < head_c + n)
      BY <3>1, <3>2, <3>4
    <3> QED BY <3>3, <3>4
  <2> QED BY <2>1
<1>7. n_past' \in 0..(NCtx - 1) /\ head_c' \in 0..NCtx
  BY <1>1, <1>2, <1>3
<1>8. CacheTypeOK'
  <2>1. CacheTypeOK
    BY DEF SlotInv
  <2>2. UNCHANGED <<phase, options, prompt_tokens, n_keep, cache_prompt, sampled, batch, context>>
    BY <1>2
  <2>3. cache_tokens' \in Seq(Tokens \cup {0})
    BY <1>4
  <2> QED BY <1>6, <1>7, <2>1, <2>2, <2>3 DEF CacheTypeOK
<1>9. Found'
  <2>1. /\ n_past' <= Len(prompt_tokens') /\ n_past' <= head_c'
        /\ head_c' <= Len(cache_tokens')
    BY <1>1, <1>2, <1>3, <1>4
  <2>2. \A k \in 1..n_past' : cache_tokens'[k] = prompt_tokens'[k]
    BY <1>2, <1>5
  <2>3. cache_prompt'
    BY <1>2, <1>3
  <2> QED BY <2>1, <2>2, <2>3 DEF Found
<1> QED
  BY <1>2, <1>3, <1>4, <1>8, <1>9 DEF SlotInv, PromptFits, Decoding, SettingUp, Begun,
     Filling, PartLeft, Believed, LogitsAreComputed

LEMMA ReuseStepSlot ==
    ASSUME SlotInv, UNCHANGED options, ReuseStep \/ ReuseEnds
    PROVE  SlotInv'
<1>1. CASE ReuseStep
  <2>1. /\ phase = "reuse" /\ head_c < Len(cache_tokens) /\ head_c' = head_c + 1
        /\ UNCHANGED <<phase, options, prompt_tokens, n_keep, cache_prompt, cache_tokens,
                       n_past, sampled, batch, kv, context>>
    BY <1>1 DEF ReuseStep, InReuse, requestVars
  <2>2. /\ head_c \in 0..NCtx /\ Len(cache_tokens) \in Nat /\ Len(cache_tokens) < NCtx
        /\ NCtx \in Nat /\ n_past \in 0..(NCtx - 1)
    BY CacheAssumption DEF SlotInv, CacheTypeOK
  <2>3. head_c' \in 0..NCtx /\ head_c' <= Len(cache_tokens)
    BY <2>1, <2>2
  <2>4. CacheTypeOK'
    BY <2>1, <2>3 DEF SlotInv, CacheTypeOK
  <2>5. Found'
    BY <2>1, <2>2, <2>3 DEF SlotInv, Found, SettingUp
  <2> QED
    BY <2>1, <2>4, <2>5 DEF SlotInv, PromptFits, Decoding, SettingUp, Begun, Filling, PartLeft,
       Believed, LogitsAreComputed
<1>2. CASE ReuseEnds
  BY <1>2 DEF ReuseEnds, requestVars, SlotInv, CacheTypeOK, PromptFits, Decoding, SettingUp,
     Begun, Found, Filling, PartLeft, Believed, LogitsAreComputed
<1> QED BY <1>1, <1>2

-----------------------------------------------------------------------------

\* Where a batch of the prompt begins: behind what is cached or in the cells already,
\* or at the start, and before the last token of the prompt in any case.
LEMMA FromIs ==
    ASSUME SlotInv, phase \in {"reused", "prompt"}, NEW from \in {FirstToEvaluate, 0},
           from < FirstToEvaluate => KeepsUpTo(FirstToEvaluate) # kv
    PROVE  /\ from \in Nat /\ from <= n_past /\ from < Len(prompt_tokens)
           /\ from <= FirstToEvaluate
           /\ phase = "prompt" => from = n_past
           /\ cache_prompt => /\ from <= Len(cache_tokens)
                              /\ \A k \in 1..from : cache_tokens[k] = prompt_tokens[k]
           /\ ~cache_prompt => \A k \in DOMAIN Resize(cache_tokens, from) :
                                  Resize(cache_tokens, from)[k] = 0
<1>1. /\ prompt_tokens \in Seq(Tokens) /\ Len(prompt_tokens) \in Nat
      /\ Len(prompt_tokens) > 0 /\ Len(prompt_tokens) < NCtx
      /\ cache_tokens \in Seq(Tokens \cup {0}) /\ Len(cache_tokens) \in Nat
      /\ n_past \in 0..(NCtx - 1) /\ head_c \in 0..NCtx /\ NCtx \in Nat /\ kv \subseteq Cell
  BY CacheAssumption DEF SlotInv, CacheTypeOK, PromptFits, SettingUp, Begun
<1>2. CASE phase = "reused"
  <2>1. /\ n_past <= Len(prompt_tokens) /\ n_past <= head_c /\ head_c <= Len(cache_tokens)
        /\ \A k \in 1..n_past : cache_tokens[k] = prompt_tokens[k]
        /\ ~cache_prompt => n_past = 0
    BY <1>2 DEF SlotInv, Found, SettingUp
  <2>2. FirstToEvaluate \in Nat /\ FirstToEvaluate <= n_past
        /\ FirstToEvaluate < Len(prompt_tokens)
    BY <1>1, <1>2, <2>1 DEF FirstToEvaluate
  <2>3. from \in Nat /\ from <= n_past /\ from < Len(prompt_tokens) /\ from <= FirstToEvaluate
    BY <1>1, <2>2
  <2>4. ~cache_prompt => DOMAIN Resize(cache_tokens, from) = {}
    BY <1>1, <2>1, <2>3 DEF Resize
  <2> QED BY <1>1, <1>2, <2>1, <2>3, <2>4
<1>3. CASE phase = "prompt"
  <2>1. /\ n_past < Len(prompt_tokens) /\ context = SubSeq(prompt_tokens, 1, n_past)
        /\ \A c \in kv \cup batch : c[1] < n_past
        /\ Len(context) = n_past
        /\ cache_prompt => cache_tokens = context
        /\ ~cache_prompt => \A k \in DOMAIN cache_tokens : cache_tokens[k] = 0
    BY <1>3 DEF SlotInv, PartLeft, Filling, Believed, Begun
  <2>2. FirstToEvaluate = n_past
    BY <1>3 DEF FirstToEvaluate
  <2>3. KeepsUpTo(n_past) = kv
    BY <1>1, <2>1 DEF KeepsUpTo, SeqRm
  <2>4. from = n_past
    BY <1>1, <2>2, <2>3
  <2>5. \A k \in 1..n_past : context[k] = prompt_tokens[k]
    BY <1>1, <2>1
  <2>6. ~cache_prompt => \A k \in DOMAIN Resize(cache_tokens, from) :
                            Resize(cache_tokens, from)[k] = 0
    <3>1. DOMAIN cache_tokens = 1..Len(cache_tokens)
      BY <1>1
    <3>2. DOMAIN Resize(cache_tokens, from) = 1..from
      BY DEF Resize
    <3>3. ASSUME ~cache_prompt, NEW k \in 1..from
          PROVE  Resize(cache_tokens, from)[k] = 0
      <4>1. Resize(cache_tokens, from)[k] = IF k <= Len(cache_tokens) THEN cache_tokens[k]
                                            ELSE 0
        BY DEF Resize
      <4>2. ASSUME k <= Len(cache_tokens)
            PROVE  cache_tokens[k] = 0
        <5>1. \A j \in 1..Len(cache_tokens) : cache_tokens[j] = 0
          BY <2>1, <3>1, <3>3
        <5>2. k \in 1..Len(cache_tokens)
          BY <1>1, <2>4, <4>2
        <5> QED BY <5>1, <5>2
      <4> QED BY <4>1, <4>2
    <3> QED BY <3>2, <3>3
  <2>7. cache_prompt => /\ from <= Len(cache_tokens)
                        /\ \A k \in 1..from : cache_tokens[k] = prompt_tokens[k]
    BY <1>1, <2>1, <2>4, <2>5
  <2>8. /\ from \in Nat /\ from <= n_past /\ from < Len(prompt_tokens)
        /\ from <= FirstToEvaluate
    BY <1>1, <2>1, <2>2, <2>4
  <2> QED BY <2>4, <2>6, <2>7, <2>8
<1> QED BY <1>2, <1>3

\* A step that batches m tokens of the prompt from `from` on, which are `part`.
Fills(from, m, part) ==
    /\ from \in {FirstToEvaluate, 0}
    /\ from < FirstToEvaluate => KeepsUpTo(FirstToEvaluate) # kv
    /\ from + m <= Len(prompt_tokens) /\ Len(part) = m
    /\ part = SubSeq(prompt_tokens, from + 1, from + m)
    /\ \A k \in 1..m : part[k] = prompt_tokens[from + k]
    /\ kv' = KeepsUpTo(from) /\ batch' = CellsOf(part, from)
    /\ cache_tokens' = IF cache_prompt THEN Resize(cache_tokens, from) \o part
                       ELSE Resize(cache_tokens, from)
    /\ n_past' = from + m
    /\ context' = SubSeq(prompt_tokens, 1, from + m)
    /\ \/ phase' = "logits" /\ from + m = Len(prompt_tokens)
       \/ phase' = "partway" /\ from + m < Len(prompt_tokens)

LEMMA FillPromptIs ==
    ASSUME SlotInv, NEW room \in 0..NBatch, FillPrompt(room)
    PROVE  \E from \in Nat, m \in Nat, part \in Seq(Tokens) : Fills(from, m, part)
<1>1. PICK from \in {FirstToEvaluate, 0} :
          LET rest   == SubSeq(prompt_tokens, from + 1, Len(prompt_tokens))
              part   == SubSeq(rest, 1, Min2(room, Len(rest)))
              common == Resize(cache_tokens, from)
          IN  /\ from < FirstToEvaluate => KeepsUpTo(FirstToEvaluate) # kv
              /\ kv' = KeepsUpTo(from)
              /\ batch' = CellsOf(part, from)
              /\ cache_tokens' = IF cache_prompt THEN common \o part ELSE common
              /\ n_past' = from + Len(part)
              /\ context' = SubSeq(prompt_tokens, 1, n_past')
              /\ phase' = IF part = rest THEN "logits" ELSE "partway"
  BY DEF FillPrompt
<1> DEFINE rest == SubSeq(prompt_tokens, from + 1, Len(prompt_tokens))
           m    == Min2(room, Len(rest))
           part == SubSeq(rest, 1, m)
           common == Resize(cache_tokens, from)
<1>2. /\ from < FirstToEvaluate => KeepsUpTo(FirstToEvaluate) # kv
      /\ kv' = KeepsUpTo(from)
      /\ batch' = CellsOf(part, from)
      /\ cache_tokens' = IF cache_prompt THEN common \o part ELSE common
      /\ n_past' = from + Len(part)
      /\ context' = SubSeq(prompt_tokens, 1, n_past')
      /\ phase' = IF part = rest THEN "logits" ELSE "partway"
      /\ phase \in {"reused", "prompt"}
  BY <1>1 DEF FillPrompt
<1>3. /\ prompt_tokens \in Seq(Tokens) /\ Len(prompt_tokens) \in Nat
      /\ from \in Nat /\ from < Len(prompt_tokens)
  <2>1. prompt_tokens \in Seq(Tokens)
    BY DEF SlotInv, CacheTypeOK
  <2>2. from \in Nat /\ from < Len(prompt_tokens)
    BY <1>2, FromIs, Zenon
  <2> QED BY <2>1, <2>2
<1>4. /\ rest \in Seq(Tokens) /\ Len(rest) = Len(prompt_tokens) - from
      /\ \A k \in 1..(Len(prompt_tokens) - from) : rest[k] = prompt_tokens[from + k]
  BY <1>3, SubSeqIs
<1> HIDE DEF rest
<1>5. m \in Nat /\ m <= Len(rest)
  BY <1>3, <1>4, CacheAssumption DEF Min2
<1> HIDE DEF m
<1>6. /\ part \in Seq(Tokens) /\ Len(part) = m
      /\ \A k \in 1..m : part[k] = rest[k]
  BY <1>3, <1>4, <1>5
<1>7. m = Len(rest) => part = rest
  BY <1>4
<1> HIDE DEF part
<1>8. \A k \in 1..m : part[k] = prompt_tokens[from + k]
  <2> TAKE k \in 1..m
  <2>1. k \in 1..(Len(prompt_tokens) - from)
    BY <1>3, <1>4, <1>5
  <2> QED BY <1>4, <1>6, <2>1
<1>9. from + m <= Len(prompt_tokens) /\ from + m \in Nat
  BY <1>3, <1>4, <1>5
<1>10. part = SubSeq(prompt_tokens, from + 1, from + m)
  <2> DEFINE q == SubSeq(prompt_tokens, from + 1, from + m)
  <2>1. /\ q \in Seq(Tokens) /\ Len(q) = m
        /\ \A k \in 1..m : q[k] = prompt_tokens[from + k]
    BY <1>3, <1>5, <1>9, SubSeqIs
  <2> HIDE DEF q
  <2>2. part = q
    BY <1>6, <1>8, <2>1, SeqsEqual
  <2> QED BY <2>2 DEF q
<1>11. \/ phase' = "logits" /\ from + m = Len(prompt_tokens)
       \/ phase' = "partway" /\ from + m < Len(prompt_tokens)
  <2>1. CASE part = rest
    <3>1. m = Len(prompt_tokens) - from
      BY <1>4, <1>6, <2>1
    <3>2. from + m = Len(prompt_tokens)
      BY <1>3, <3>1
    <3> QED BY <1>2, <2>1, <3>2
  <2>2. CASE part # rest
    <3>0. m # Len(rest)
      BY <1>7, <2>2
    <3>1. Len(rest) = Len(prompt_tokens) - from /\ m \in Nat /\ m <= Len(rest)
      BY <1>4, <1>5
    <3>2. from + m < Len(prompt_tokens)
      BY <1>3, <3>0, <3>1
    <3> QED BY <1>2, <2>2, <3>2
  <2> QED BY <2>1, <2>2
<1>12. n_past' = from + m /\ context' = SubSeq(prompt_tokens, 1, from + m)
  BY <1>2, <1>6
<1>13. cache_tokens' = IF cache_prompt THEN Resize(cache_tokens, from) \o part
                       ELSE Resize(cache_tokens, from)
  BY <1>2
<1>14. Fills(from, m, part)
  BY <1>2, <1>6, <1>8, <1>9, <1>10, <1>11, <1>12, <1>13 DEF Fills
<1> HIDE DEF common
<1> QED BY <1>3, <1>5, <1>6, <1>14

-----------------------------------------------------------------------------

\* What is filled is the beginning of the prompt, in cache_tokens too.
LEMMA FilledIs ==
    ASSUME SlotInv, phase \in {"reused", "prompt"},
           NEW from \in Nat, NEW m \in Nat, NEW part \in Seq(Tokens), Fills(from, m, part)
    PROVE  /\ cache_prompt => Resize(cache_tokens, from) = SubSeq(prompt_tokens, 1, from)
           /\ cache_prompt => cache_tokens' = SubSeq(prompt_tokens, 1, from + m)
           /\ ~cache_prompt => \A k \in DOMAIN cache_tokens' : cache_tokens'[k] = 0
           /\ cache_tokens' \in Seq(Tokens \cup {0}) /\ Len(cache_tokens') <= from + m
<1> DEFINE common == Resize(cache_tokens, from)
           front  == SubSeq(prompt_tokens, 1, from)
<1>1. /\ from <= n_past /\ from < Len(prompt_tokens)
      /\ cache_prompt => /\ from <= Len(cache_tokens)
                         /\ \A k \in 1..from : cache_tokens[k] = prompt_tokens[k]
      /\ ~cache_prompt => \A k \in DOMAIN common : common[k] = 0
  <2>1. /\ from \in {FirstToEvaluate, 0}
        /\ from < FirstToEvaluate => KeepsUpTo(FirstToEvaluate) # kv
    BY DEF Fills
  <2> HIDE DEF common
  <2>2. /\ from <= n_past /\ from < Len(prompt_tokens)
        /\ cache_prompt => /\ from <= Len(cache_tokens)
                           /\ \A k \in 1..from : cache_tokens[k] = prompt_tokens[k]
    BY <2>1, FromIs, Zenon
  <2>3. ~cache_prompt => \A k \in DOMAIN common : common[k] = 0
    BY <2>1, FromIs, Zenon DEF common
  <2> QED BY <2>2, <2>3
<1>2. /\ cache_tokens \in Seq(Tokens \cup {0}) /\ prompt_tokens \in Seq(Tokens)
      /\ Len(cache_tokens) \in Nat /\ Len(prompt_tokens) \in Nat
      /\ cache_prompt \in BOOLEAN
  BY DEF SlotInv, CacheTypeOK
<1>3. /\ common \in Seq(Tokens \cup {0}) /\ Len(common) = from
      /\ \A k \in 1..from : common[k] = IF k <= Len(cache_tokens) THEN cache_tokens[k] ELSE 0
  <2>1. common = [k \in 1..from |-> IF k <= Len(cache_tokens) THEN cache_tokens[k] ELSE 0]
    BY DEF Resize
  <2> HIDE DEF common
  <2>2. common \in [1..from -> Tokens \cup {0}]
    BY <1>2, <2>1
  <2>3. common \in Seq(Tokens \cup {0}) /\ Len(common) = from
    BY <2>2
  <2> QED BY <2>1, <2>3
<1>4. /\ front \in Seq(Tokens) /\ Len(front) = from
      /\ \A k \in 1..from : front[k] = prompt_tokens[k]
  BY <1>1, <1>2
<1> HIDE DEF common, front
<1>5. cache_prompt => common = front
  <2>1. SUFFICES ASSUME cache_prompt
                 PROVE  common = front
    OBVIOUS
  <2>2. \A k \in 1..Len(common) : common[k] = front[k]
    <3> TAKE k \in 1..Len(common)
    <3>1. k \in 1..from /\ k <= Len(cache_tokens)
      BY <1>1, <1>2, <1>3, <2>1
    <3> QED BY <1>1, <1>3, <1>4, <2>1, <3>1
  <2> QED BY <1>3, <1>4, <2>2, SeqsEqual
<1>6. front \o part = SubSeq(prompt_tokens, 1, from + m)
  <2>1. /\ part = SubSeq(prompt_tokens, from + 1, from + m)
        /\ from + m <= Len(prompt_tokens) /\ from + m \in Nat /\ from <= from + m
    BY DEF Fills
  <2> QED BY <1>2, <2>1, SubSeqSplit DEF front
<1>7. cache_tokens' = IF cache_prompt THEN common \o part ELSE common
  BY DEF Fills, common
<1>8. common \o part \in Seq(Tokens \cup {0}) /\ Len(common \o part) = from + m
  <2>1. Len(part) = m
    BY DEF Fills
  <2>2. part \in Seq(Tokens \cup {0})
    OBVIOUS
  <2>3. /\ common \o part \in Seq(Tokens \cup {0})
        /\ Len(common \o part) = Len(common) + Len(part)
    BY <1>3, <2>2, ConcatProperties, Zenon
  <2>4. Len(common) + Len(part) = from + m
    BY <1>3, <2>1, Zenon
  <2> QED BY <2>3, <2>4, Zenon
<1>9. cache_prompt => cache_tokens' = SubSeq(prompt_tokens, 1, from + m)
  BY <1>5, <1>6, <1>7, Zenon
<1>10. ~cache_prompt => \A k \in DOMAIN cache_tokens' : cache_tokens'[k] = 0
  BY <1>1, <1>7, Zenon
<1>11. cache_tokens' \in Seq(Tokens \cup {0}) /\ Len(cache_tokens') <= from + m
  <2>1. from <= from + m
    OBVIOUS
  <2> QED BY <1>3, <1>7, <1>8, <2>1
<1> QED BY <1>5, <1>9, <1>10, <1>11 DEF common, front

LEMMA FillPromptSlot ==
    ASSUME SlotInv, UNCHANGED options, NEW room \in 0..NBatch, FillPrompt(room)
    PROVE  SlotInv'
<1>1. /\ phase \in {"reused", "prompt"}
      /\ UNCHANGED <<options, prompt_tokens, n_keep, cache_prompt, head_c, sampled>>
  BY DEF FillPrompt, requestVars
<1>2. PICK from \in Nat, m \in Nat, part \in Seq(Tokens) : Fills(from, m, part)
  BY FillPromptIs
<1>3. /\ from + m <= Len(prompt_tokens) /\ Len(part) = m
      /\ \A k \in 1..m : part[k] = prompt_tokens[from + k]
      /\ kv' = KeepsUpTo(from) /\ batch' = CellsOf(part, from)
      /\ n_past' = from + m /\ context' = SubSeq(prompt_tokens, 1, from + m)
      /\ \/ phase' = "logits" /\ from + m = Len(prompt_tokens)
         \/ phase' = "partway" /\ from + m < Len(prompt_tokens)
  BY <1>2 DEF Fills
<1>4. from < Len(prompt_tokens)
  <2>1. /\ from \in {FirstToEvaluate, 0}
        /\ from < FirstToEvaluate => KeepsUpTo(FirstToEvaluate) # kv
    BY <1>2 DEF Fills
  <2> QED BY <1>1, <2>1, FromIs, Zenon
<1>5. /\ cache_prompt => cache_tokens' = SubSeq(prompt_tokens, 1, from + m)
      /\ ~cache_prompt => \A k \in DOMAIN cache_tokens' : cache_tokens'[k] = 0
      /\ cache_tokens' \in Seq(Tokens \cup {0}) /\ Len(cache_tokens') <= from + m
  BY <1>1, <1>2, FilledIs, Zenon
<1>6. /\ prompt_tokens \in Seq(Tokens) /\ Len(prompt_tokens) \in Nat
      /\ Len(prompt_tokens) < NCtx /\ NCtx \in Nat /\ kv \subseteq Cell
      /\ prompt_tokens # <<>> /\ n_keep \in 0..(NCtx - 4)
      /\ cache_prompt \in options.cache_prompts
  BY <1>1, CacheAssumption DEF SlotInv, CacheTypeOK, PromptFits, SettingUp, Begun
<1>7. /\ context' \in Seq(Tokens) /\ Len(context') = from + m
      /\ \A k \in 1..(from + m) : context'[k] = prompt_tokens[k]
  <2>1. from + m \in Nat
    OBVIOUS
  <2> QED BY <1>3, <1>6, <2>1
<1>8. \A c \in kv' : c[1] < from
  <2>1. \A c \in kv : c[1] \in 0..(NCtx - 1)
    BY <1>6 DEF Cell
  <2> QED BY <1>3, <1>6, <2>1 DEF KeepsUpTo, SeqRm
<1>9. \A c \in batch' : c \in Cell /\ c[1] \in from..(from + m - 1)
  <2> TAKE c \in batch'
  <2>1. c \in CellsOf(part, from)
    BY <1>3
  <2>2. c[1] \in from..(from + Len(part) - 1) /\ c[2] \in Tokens /\ c = <<c[1], c[2]>>
    BY <2>1, CellPositions
  <2>3. c[1] \in from..(from + m - 1)
    BY <1>3, <2>2
  <2>4. c[1] \in 0..(NCtx - 1)
    <3>1. from + m <= Len(prompt_tokens) /\ Len(prompt_tokens) < NCtx
          /\ Len(prompt_tokens) \in Nat /\ NCtx \in Nat
      BY <1>3, <1>6
    <3> QED BY <2>3, <3>1
  <2> QED BY <2>2, <2>3, <2>4 DEF Cell
<1>10. n_past' \in 0..(NCtx - 1)
  BY <1>3, <1>6
<1>11. kv' \subseteq Cell
  BY <1>3, <1>6 DEF KeepsUpTo, SeqRm
<1>12. CacheTypeOK'
  <2>1. CacheTypeOK
    BY DEF SlotInv
  <2>2. phase' \in {"partway", "logits"} /\ batch' \subseteq Cell
    BY <1>3, <1>9
  <2> QED BY <1>1, <1>5, <1>7, <1>10, <1>11, <2>1, <2>2 DEF CacheTypeOK
<1>13. PartLeft'
  <2>1. \A c \in kv' \cup batch' : phase' = "partway" => c[1] < n_past'
    <3> TAKE c \in kv' \cup batch'
    <3>1. CASE c \in kv'
      <4>1. c[1] \in 0..(NCtx - 1)
        BY <1>11, <3>1 DEF Cell
      <4> QED BY <1>3, <1>8, <3>1, <4>1
    <3>2. CASE c \in batch'
      BY <1>3, <1>9, <3>2
    <3> QED BY <3>1, <3>2
  <2> QED BY <1>1, <1>3, <2>1 DEF PartLeft, Filling
<1>14. LogitsAreComputed'
  <2>1. SUFFICES ASSUME phase' = "logits"
                 PROVE  <<n_past' - 1, context'[n_past']>> \in batch'
    BY DEF LogitsAreComputed
  <2>2. m \in 1..Len(part) /\ from + m \in 1..(from + m)
    BY <1>3, <1>4, <1>6, <2>1
  <2>3. part[m] = context'[from + m]
    BY <1>3, <1>7, <2>2
  <2>4. <<from + m - 1, part[m]>> \in CellsOf(part, from)
    BY <2>2, CellIn
  <2>5. n_past' - 1 = from + m - 1 /\ context'[n_past'] = part[m]
    BY <1>3, <2>3
  <2>6. <<n_past' - 1, context'[n_past']>> = <<from + m - 1, part[m]>>
    BY <2>5
  <2> QED BY <1>3, <2>4, <2>6
<1>15. Believed'
  BY <1>1, <1>3, <1>5, <1>7 DEF Believed, Begun
<1> QED
  <2>1. Len(cache_tokens') < NCtx
    <3>1. Len(cache_tokens') \in Nat
      BY <1>5
    <3> QED BY <1>3, <1>5, <1>6, <3>1
  <2>2. phase' \in {"partway", "logits"}
    BY <1>3
  <2> QED
    BY <1>1, <1>6, <1>12, <1>13, <1>14, <1>15, <2>1, <2>2 DEF SlotInv, PromptFits, Decoding,
       SettingUp, Begun, Found

-----------------------------------------------------------------------------

LEMMA DecodedSlot ==
    ASSUME SlotInv, UNCHANGED options,
           DecodePart \/ NoDraft \/ \E token \in Tokens, goesOn \in BOOLEAN :
                                       DecodeAndSample(token, goesOn)
    PROVE  SlotInv'
<1>1. CASE DecodePart
  BY <1>1 DEF DecodePart, requestVars, SlotInv, CacheTypeOK, PromptFits, Decoding, SettingUp,
     Begun, Found, Filling, PartLeft, Believed, LogitsAreComputed
<1>2. CASE NoDraft
  BY <1>2 DEF NoDraft, requestVars, SlotInv, CacheTypeOK, PromptFits, Decoding, SettingUp,
     Begun, Found, Filling, PartLeft, Believed, LogitsAreComputed
<1>3. ASSUME NEW token \in Tokens, NEW goesOn \in BOOLEAN, DecodeAndSample(token, goesOn)
      PROVE  SlotInv'
  <2>1. /\ phase = "logits" /\ sampled' = token /\ kv' = kv \cup batch /\ batch' = {}
        /\ UNCHANGED <<options, prompt_tokens, n_keep, cache_prompt, cache_tokens, n_past,
                       head_c, context>>
        /\ \/ phase' \in {"idle", "generating"}
           \/ phase' = "drafting" /\ cache_prompt
    BY <1>3 DEF DecodeAndSample, requestVars
  <2>2. CacheTypeOK'
    BY <2>1 DEF SlotInv, CacheTypeOK
  <2> QED
    BY <2>1, <2>2 DEF SlotInv, PromptFits, Decoding, SettingUp, Begun, Found, Filling, PartLeft,
       Believed, LogitsAreComputed
<1> QED BY <1>1, <1>2, <1>3

\* Every step after which the slot is idle.
LEMMA ReleasedSlot ==
    ASSUME SlotInv, UNCHANGED options, Refuse \/ CancelSlot \/ Overflow \/ DecodeFails
    PROVE  SlotInv'
<1>1. kv \subseteq Cell /\ batch \subseteq Cell
  BY DEF SlotInv, CacheTypeOK
<1>2. CASE Refuse \/ CancelSlot \/ Overflow
  BY <1>1, <1>2, ToIdleSlot DEF Refuse, CancelSlot, Overflow
<1>3. CASE DecodeFails
  <2>1. ToIdle /\ \E k \in 0..NCtx : kv' = kv \cup SeqRm(batch, k, NCtx)
    BY <1>3 DEF DecodeFails
  <2>2. kv' \subseteq Cell
    BY <1>1, <2>1 DEF SeqRm
  <2> QED BY <2>1, <2>2, ToIdleSlot
<1> QED BY <1>2, <1>3

\* The sampled token joins the batch behind `tokens`, which the cells are about.
LEMMA AddSampledSlot ==
    ASSUME SlotInv, UNCHANGED options, phase = "generating",
           NEW past \in 0..(NCtx - 2), NEW cells \in SUBSET Cell, NEW tokens \in Seq(Tokens),
           NEW cached, Len(tokens) = past,
           cache_prompt => cached = tokens, ~cache_prompt => cached = cache_tokens,
           AddSampled(past, cells, tokens, cached)
    PROVE  SlotInv'
<1>1. /\ phase' = "logits" /\ kv' = cells /\ batch' = {<<past, sampled>>}
      /\ n_past' = past + 1 /\ context' = Append(tokens, sampled)
      /\ cache_tokens' = IF cache_prompt THEN Append(cached, sampled) ELSE cached
      /\ UNCHANGED <<options, prompt_tokens, n_keep, cache_prompt, head_c, sampled>>
  BY DEF AddSampled, requestVars
<1>2. sampled \in Tokens /\ cache_prompt \in BOOLEAN /\ NCtx \in Nat
  BY CacheAssumption DEF SlotInv, CacheTypeOK
<1>3. /\ context' \in Seq(Tokens) /\ Len(context') = past + 1
      /\ context'[past + 1] = sampled
  BY <1>1, <1>2
<1>4. /\ cache_prompt => cache_tokens' = context'
      /\ ~cache_prompt => cache_tokens' = cache_tokens
  BY <1>1
<1>5. cache_tokens' \in Seq(Tokens \cup {0}) /\ Len(cache_tokens') < NCtx
  <2>1. CASE cache_prompt
    BY <1>2, <1>3, <1>4, <2>1
  <2>2. CASE ~cache_prompt
    BY <1>4, <2>2 DEF SlotInv, CacheTypeOK
  <2> QED BY <2>1, <2>2
<1>6. n_past' \in 0..(NCtx - 1) /\ n_past' - 1 = past
  BY <1>1, <1>2
<1>7. <<past, sampled>> \in Cell
  BY <1>2 DEF Cell
<1>8. CacheTypeOK'
  <2>1. CacheTypeOK
    BY DEF SlotInv
  <2>2. batch' \subseteq Cell /\ kv' \subseteq Cell
    BY <1>1, <1>7
  <2> QED BY <1>1, <1>3, <1>5, <1>6, <2>1, <2>2 DEF CacheTypeOK
<1>9. LogitsAreComputed'
  BY <1>1, <1>3, <1>6 DEF LogitsAreComputed
<1>10. Believed'
  <2>1. ~cache_prompt => \A k \in DOMAIN cache_tokens : cache_tokens[k] = 0
    BY DEF SlotInv, Believed, Begun
  <2> QED BY <1>1, <1>3, <1>4, <2>1 DEF Believed
<1> QED
  BY <1>1, <1>5, <1>8, <1>9, <1>10 DEF SlotInv, PromptFits, Decoding, SettingUp, Begun, Found,
     Filling, PartLeft

-----------------------------------------------------------------------------

LEMMA AddTokenSlot ==
    ASSUME SlotInv, UNCHANGED options, AddToken
    PROVE  SlotInv'
<1>1. phase = "generating" /\ ~(n_past + 1 >= NCtx)
      /\ AddSampled(n_past, kv, context, cache_tokens)
  BY DEF AddToken, ContextIsFull
<1>2. /\ n_past \in 0..(NCtx - 1) /\ NCtx \in Nat /\ kv \in SUBSET Cell
      /\ context \in Seq(Tokens) /\ Len(context) = n_past
      /\ cache_prompt => cache_tokens = context
  BY <1>1, CacheAssumption DEF SlotInv, CacheTypeOK, Believed, Begun
<1>3. n_past \in 0..(NCtx - 2)
  BY <1>1, <1>2
<1> QED BY <1>1, <1>2, <1>3, AddSampledSlot, Zenon

\* What a shift discards is at least a token, and is behind those to keep.
LEMMA DiscardIs ==
    ASSUME SlotInv, phase = "generating", ContextIsFull,
           NEW keep, keep = n_keep + AddBos, NEW discard, discard = (n_past - keep) \div 2
    PROVE  /\ keep \in Nat /\ discard \in Nat /\ discard >= 1
           /\ keep + discard <= n_past /\ n_past - discard \in 0..(NCtx - 2)
<1>1. /\ n_past \in 0..(NCtx - 1) /\ NCtx \in Nat /\ n_keep \in 0..(NCtx - 4)
      /\ AddBos \in {0, 1} /\ NCtx > 4
  BY CacheAssumption DEF SlotInv, CacheTypeOK, Begun
<1>2. keep \in Nat /\ n_past - keep \in Nat /\ n_past - keep >= 2
  BY <1>1 DEF ContextIsFull
<1>3. /\ discard \in Nat /\ discard * 2 <= n_past - keep /\ n_past - keep < discard * 2 + 2
  BY <1>2, Division
<1>4. discard >= 1 /\ discard <= n_past - keep
  BY <1>2, <1>3
<1> QED BY <1>1, <1>2, <1>3, <1>4

LEMMA ShiftSlot ==
    ASSUME SlotInv, UNCHANGED options, ShiftAndAddToken
    PROVE  SlotInv'
<1> DEFINE keep    == n_keep + AddBos
           discard == (n_past - keep) \div 2
           cut     == Without(context, keep, discard)
           cells   == ShiftCells(keep, discard)
<1>1. /\ phase = "generating" /\ ContextIsFull
      /\ AddSampled(n_past - discard, cells, cut,
                    IF cache_prompt THEN Without(cache_tokens, keep, discard)
                    ELSE cache_tokens)
  BY DEF ShiftAndAddToken
<1>2. /\ keep \in Nat /\ discard \in Nat /\ discard >= 1
      /\ keep + discard <= n_past /\ n_past - discard \in 0..(NCtx - 2)
  BY <1>1, DiscardIs
<1> HIDE DEF keep, discard
<1>3. /\ n_past \in 0..(NCtx - 1) /\ NCtx \in Nat /\ kv \in SUBSET Cell
      /\ context \in Seq(Tokens) /\ Len(context) = n_past
      /\ cache_prompt => cache_tokens = context
  BY <1>1, CacheAssumption DEF SlotInv, CacheTypeOK, Believed, Begun
<1>4. cut \in Seq(Tokens) /\ Len(cut) = n_past - discard
  BY <1>2, <1>3, WithoutLen
<1>5. cells \in SUBSET Cell
  <2>1. ASSUME NEW c \in cells PROVE c \in Cell
    <3>1. PICK d \in kv : c = IF d[1] >= keep + discard /\ d[1] < n_past
                              THEN <<d[1] + (0 - discard), d[2]>> ELSE d
      BY <2>1 DEF ShiftCells, SeqAdd, SeqRm
    <3>2. d \in Cell /\ d[1] \in 0..(NCtx - 1) /\ d[2] \in Tokens \cup {0}
      BY <1>3 DEF Cell
    <3>3. CASE d[1] >= keep + discard /\ d[1] < n_past
      <4>1. d[1] + (0 - discard) \in 0..(NCtx - 1)
        BY <1>2, <1>3, <3>2, <3>3
      <4> QED BY <3>1, <3>2, <3>3, <4>1 DEF Cell
    <3>4. CASE ~(d[1] >= keep + discard /\ d[1] < n_past)
      BY <3>1, <3>2, <3>4
    <3> QED BY <3>3, <3>4
  <2> QED BY <2>1
<1> DEFINE cached == IF cache_prompt THEN Without(cache_tokens, keep, discard)
                     ELSE cache_tokens
<1>6. /\ cache_prompt => cached = cut
      /\ ~cache_prompt => cached = cache_tokens
  BY <1>3
<1> HIDE DEF cut, cells, cached
<1>7. AddSampled(n_past - discard, cells, cut, cached)
  BY <1>1 DEF cached
<1> QED BY <1>1, <1>2, <1>4, <1>5, <1>6, <1>7, AddSampledSlot, Zenon

\* The sampled token and the part of the draft that is accepted.
Added(draft, accepted) == <<sampled>> \o SubSeq(draft, 1, accepted)
Drafted(draft) == <<sampled>> \o draft

LEMMA AddedIs ==
    ASSUME sampled \in Tokens, NEW draft \in Seq(Tokens), NEW accepted \in 0..Len(draft)
    PROVE  /\ Added(draft, accepted) \in Seq(Tokens)
           /\ Len(Added(draft, accepted)) = accepted + 1
           /\ SubSeq(draft, accepted + 1, Len(draft)) \in Seq(Tokens)
           /\ Len(SubSeq(draft, accepted + 1, Len(draft))) = Len(draft) - accepted
           /\ Drafted(draft)
                = Added(draft, accepted) \o SubSeq(draft, accepted + 1, Len(draft))
<1> DEFINE front == SubSeq(draft, 1, accepted)
           back  == SubSeq(draft, accepted + 1, Len(draft))
<1>1. PICK first \in Seq(Tokens) : first = <<sampled>> /\ Len(first) = 1
  <2>1. <<sampled>> \in Seq(Tokens) /\ Len(<<sampled>>) = 1
    OBVIOUS
  <2> QED BY <2>1, Zenon
<1>2. front \in Seq(Tokens) /\ Len(front) = accepted
  OBVIOUS
<1>3. back \in Seq(Tokens) /\ Len(back) = Len(draft) - accepted
  BY SubSeqIs
<1>4. draft = front \o back
  <2>1. accepted \in Nat /\ Len(draft) \in Nat /\ accepted <= Len(draft)
        /\ Len(draft) <= Len(draft)
    OBVIOUS
  <2>2. SubSeq(draft, 1, Len(draft)) = front \o back
    BY <2>1, SubSeqSplit, Zenon
  <2>3. SubSeq(draft, 1, Len(draft)) = draft
    BY SubSeqFull, Zenon
  <2> QED BY <2>2, <2>3, Zenon
<1>5. Added(draft, accepted) = first \o front
  BY <1>1, Zenon DEF Added
<1>6. Drafted(draft) = first \o draft
  BY <1>1, Zenon DEF Drafted
<1> HIDE DEF front, back
<1>7. first \o front \in Seq(Tokens) /\ Len(first \o front) = accepted + 1
  <2>1. /\ first \o front \in Seq(Tokens)
        /\ Len(first \o front) = Len(first) + Len(front)
    BY <1>1, <1>2, ConcatProperties, Zenon
  <2>2. Len(first) = 1 /\ Len(front) = accepted
    BY <1>1, <1>2, Zenon
  <2> HIDE DEF Added
  <2> QED BY <2>1, <2>2
<1>8. (first \o front) \o back = first \o (front \o back)
  <2>1. PICK b \in Seq(Tokens), c \in Seq(Tokens) : b = front /\ c = back
    BY <1>2, <1>3, Zenon
  <2>2. (first \o b) \o c = first \o (b \o c)
    BY TokensAssociate
  <2> QED BY <2>1, <2>2, Zenon
<1>9. Drafted(draft) = Added(draft, accepted) \o back
  BY <1>4, <1>5, <1>6, <1>8, Zenon
<1> QED BY <1>3, <1>5, <1>7, <1>9 DEF back

\* A draft that fits, and what becomes of the context.
LEMMA SpeculateIs ==
    ASSUME SlotInv, NEW draft \in Drafts, NEW accepted \in 0..NDraftMax, NEW own \in Tokens,
           accepted <= Len(draft), Speculate(draft, accepted, own)
    PROVE  /\ phase = "drafting" /\ cache_prompt /\ sampled \in Tokens
           /\ draft \in Seq(Tokens) /\ accepted \in 0..Len(draft)
           /\ n_past + Len(draft) + 1 < NCtx
           /\ n_past' = n_past + accepted + 1
           /\ cache_tokens' = cache_tokens \o Added(draft, accepted)
           /\ context' = context \o Added(draft, accepted)
           /\ \E k \in IF options.may_fail THEN 0..NCtx ELSE {NCtx} :
                 kv' = SeqRm(kv \cup SeqRm(CellsOf(Drafted(draft), n_past), k, NCtx),
                             n_past + accepted + 1, NCtx)
           /\ phase' \in {"generating", "idle"} /\ sampled' \in Tokens
           /\ UNCHANGED <<prompt_tokens, n_keep, cache_prompt, head_c, batch>>
<1> DEFINE ids == Append(SubSeq(draft, 1, accepted), own)
           front == SubSeq(draft, 1, accepted)
<1>1. /\ phase = "drafting" /\ NDraftMin <= Len(draft) /\ Len(draft) <= DraftMax
      /\ n_past' = n_past + Len(ids)
      /\ cache_tokens' = cache_tokens \o Added(draft, accepted)
      /\ context' = context \o Added(draft, accepted)
      /\ \E k \in IF options.may_fail THEN 0..NCtx ELSE {NCtx} :
            kv' = SeqRm(kv \cup SeqRm(CellsOf(Drafted(draft), n_past), k, NCtx),
                        n_past + Len(ids), NCtx)
      /\ \/ phase' = "generating" /\ sampled' = own
         \/ phase' = "idle" /\ \E j \in DOMAIN ids : sampled' = ids[j]
      /\ UNCHANGED <<prompt_tokens, n_keep, cache_prompt, head_c, batch>>
  BY DEF Speculate, requestVars, Added, Drafted, DropRefused
<1>2. /\ sampled \in Tokens /\ cache_prompt /\ n_past \in 0..(NCtx - 1) /\ NCtx \in Nat
  BY <1>1, CacheAssumption DEF SlotInv, CacheTypeOK, Believed, Begun
<1>3. draft \in Seq(Tokens) /\ Len(draft) \in Nat
  <2>1. PICK n \in 0..NDraftMax : draft \in [1..n -> Tokens]
    BY DEF Drafts
  <2> QED BY <2>1, CacheAssumption
<1>4. accepted \in 0..Len(draft)
  BY <1>3, CacheAssumption
<1>5. front \in Seq(Tokens) /\ Len(front) = accepted
  BY <1>3, <1>4
<1>6. ids = Append(front, own)
  OBVIOUS
<1> HIDE DEF ids, front
<1>7. ids \in Seq(Tokens) /\ Len(ids) = accepted + 1
  BY <1>4, <1>5, <1>6
<1>8. sampled' \in Tokens /\ phase' \in {"generating", "idle"}
  <2>1. \A j \in DOMAIN ids : ids[j] \in Tokens
    BY <1>7
  <2> QED BY <1>1, <2>1
<1>9. n_past + Len(draft) + 1 < NCtx
  BY <1>1, <1>2, <1>3, CacheAssumption DEF DraftMax, Min2
<1>10. n_past + Len(ids) = n_past + accepted + 1
  BY <1>2, <1>4, <1>7
<1> QED BY <1>1, <1>2, <1>3, <1>4, <1>8, <1>9, <1>10

-----------------------------------------------------------------------------

LEMMA SpeculateSlot ==
    ASSUME SlotInv, UNCHANGED options,
           NEW draft \in Drafts, NEW accepted \in 0..NDraftMax, NEW own \in Tokens,
           accepted <= Len(draft), Speculate(draft, accepted, own)
    PROVE  SlotInv'
<1> DEFINE added == Added(draft, accepted)
           cells == CellsOf(Drafted(draft), n_past)
           past  == n_past + accepted + 1
<1>1. /\ phase = "drafting" /\ cache_prompt /\ sampled \in Tokens
      /\ draft \in Seq(Tokens) /\ accepted \in 0..Len(draft)
      /\ n_past + Len(draft) + 1 < NCtx
      /\ n_past' = past
      /\ cache_tokens' = cache_tokens \o added
      /\ context' = context \o added
      /\ \E k \in IF options.may_fail THEN 0..NCtx ELSE {NCtx} :
            kv' = SeqRm(kv \cup SeqRm(cells, k, NCtx), past, NCtx)
      /\ phase' \in {"generating", "idle"} /\ sampled' \in Tokens
      /\ UNCHANGED <<prompt_tokens, n_keep, cache_prompt, head_c, batch>>
  BY SpeculateIs
<1>2. /\ added \in Seq(Tokens) /\ Len(added) = accepted + 1
      /\ Drafted(draft) \in Seq(Tokens) /\ Len(Drafted(draft)) = Len(draft) + 1
  <2> DEFINE back == SubSeq(draft, accepted + 1, Len(draft))
  <2>1. /\ added \in Seq(Tokens) /\ Len(added) = accepted + 1
        /\ back \in Seq(Tokens) /\ Len(back) = Len(draft) - accepted
        /\ Drafted(draft) = added \o back
    BY <1>1, AddedIs
  <2> HIDE DEF added, back
  <2>2. added \o back \in Seq(Tokens) /\ Len(added \o back) = Len(added) + Len(back)
    BY <2>1, ConcatProperties, Zenon
  <2>3. Len(draft) \in Nat /\ accepted \in 0..Len(draft)
    BY <1>1
  <2>4. Len(added) + Len(back) = Len(draft) + 1
    BY <2>1, <2>3
  <2>5. Len(added \o back) = Len(draft) + 1
    BY <2>2, <2>4, Zenon
  <2>6. Drafted(draft) \in Seq(Tokens) /\ Len(Drafted(draft)) = Len(draft) + 1
    BY <2>1, <2>2, <2>5, Zenon
  <2> QED BY <2>1, <2>6
<1> HIDE DEF added
<1>3. /\ n_past \in 0..(NCtx - 1) /\ NCtx \in Nat /\ kv \subseteq Cell
      /\ context \in Seq(Tokens) /\ Len(context) = n_past /\ cache_tokens = context
      /\ Len(draft) \in Nat
  BY <1>1, CacheAssumption DEF SlotInv, CacheTypeOK, Believed, Begun
<1>4. context \o added \in Seq(Tokens) /\ Len(context \o added) = past
  <2>1. context \o added \in Seq(Tokens)
        /\ Len(context \o added) = Len(context) + Len(added)
    BY <1>2, <1>3
  <2> QED BY <1>1, <1>2, <1>3, <2>1
<1>5. past \in 0..(NCtx - 1)
  BY <1>1, <1>3
<1>6. \A c \in cells : c \in Cell
  <2> TAKE c \in cells
  <2>1. c[1] \in n_past..(n_past + Len(Drafted(draft)) - 1) /\ c[2] \in Tokens
        /\ c = <<c[1], c[2]>>
    <3>1. n_past \in Int /\ Drafted(draft) \in Seq(Tokens)
      BY <1>2, <1>3
    <3>2. PICK s \in Seq(Tokens), from \in Int : s = Drafted(draft) /\ from = n_past
      BY <3>1, Zenon
    <3>3. c \in CellsOf(s, from)
      BY <3>2
    <3>4. c[1] \in from..(from + Len(s) - 1) /\ c[2] \in Tokens /\ c = <<c[1], c[2]>>
      BY <3>3, CellPositions
    <3> QED BY <3>2, <3>4, Zenon
  <2>2. c[1] \in 0..(NCtx - 1)
    <3>1. c[1] \in n_past..(n_past + Len(draft))
      <4>1. n_past + Len(Drafted(draft)) - 1 = n_past + Len(draft)
        BY <1>2, <1>3
      <4> QED BY <2>1, <4>1
    <3>2. n_past \in Nat /\ Len(draft) \in Nat /\ NCtx \in Nat
          /\ n_past + Len(draft) + 1 < NCtx
      BY <1>1, <1>3
    <3> HIDE DEF cells
    <3> QED BY <3>1, <3>2
  <2> QED BY <2>1, <2>2 DEF Cell
<1> HIDE DEF cells, past
<1>7. kv' \subseteq Cell
  BY <1>1, <1>3, <1>6 DEF SeqRm
<1>8. cache_tokens' \in Seq(Tokens \cup {0}) /\ cache_tokens' = context'
  <2>1. cache_tokens' = context'
    BY <1>1, <1>3
  <2>2. Tokens \subseteq Tokens \cup {0} /\ cache_tokens' \in Seq(Tokens)
    BY <1>1, <1>4, <2>1
  <2> QED BY <2>1, <2>2, SeqMonotonic, Zenon
<1>9. CacheTypeOK'
  <2>1. CacheTypeOK
    BY DEF SlotInv
  <2>2. context' \in Seq(Tokens) /\ n_past' \in 0..(NCtx - 1)
    BY <1>1, <1>4, <1>5
  <2>3. UNCHANGED <<options, prompt_tokens, n_keep, cache_prompt, head_c, batch>>
        /\ phase' \in {"generating", "idle"} /\ sampled' \in Tokens
    BY <1>1
  <2> QED BY <1>7, <1>8, <2>1, <2>2, <2>3 DEF CacheTypeOK
<1>10. Len(cache_tokens') < NCtx /\ Len(context') = n_past'
  BY <1>1, <1>3, <1>4, <1>5, <1>8
<1>11. UNCHANGED <<options, prompt_tokens, n_keep, cache_prompt, batch>>
       /\ phase = "drafting" /\ phase' \in {"generating", "idle"} /\ sampled' \in Tokens
       /\ cache_prompt
  BY <1>1
<1> QED
  BY <1>8, <1>9, <1>10, <1>11 DEF SlotInv, PromptFits, Decoding, SettingUp, Begun, Found,
     Filling, PartLeft, Believed, LogitsAreComputed

LEMMA NextSlotInv == SlotInv /\ [Next]_cacheVars => SlotInv'
<1> SUFFICES ASSUME SlotInv, [Next]_cacheVars
             PROVE  SlotInv'
  OBVIOUS
<1>1. CASE UNCHANGED cacheVars
  BY <1>1 DEF cacheVars, requestVars, SlotInv, CacheTypeOK, PromptFits, Decoding, SettingUp,
     Begun, Found, Filling, PartLeft, Believed, LogitsAreComputed
<1>2. CASE Step /\ UNCHANGED options
  <2>1. ASSUME NEW tokens \in Prompts, NEW keep \in Keeps,
               NEW cached \in options.cache_prompts, Launch(tokens, keep, cached)
        PROVE  SlotInv'
    BY <1>2, <2>1, LaunchSlot
  <2>2. CASE Refuse \/ CancelSlot \/ Overflow \/ DecodeFails
    BY <1>2, <2>2, ReleasedSlot
  <2>3. CASE SetUp
    BY <1>2, <2>3, SetUpSlot
  <2>4. CASE ReuseChunk
    BY <1>2, <2>4, ReuseChunkSlot
  <2>5. CASE ReuseStep \/ ReuseEnds
    BY <1>2, <2>5, ReuseStepSlot
  <2>6. ASSUME NEW room \in 0..NBatch, FillPrompt(room)
        PROVE  SlotInv'
    BY <1>2, <2>6, FillPromptSlot
  <2>7. CASE \/ DecodePart \/ NoDraft
             \/ \E token \in Tokens, goesOn \in BOOLEAN : DecodeAndSample(token, goesOn)
    BY <1>2, <2>7, DecodedSlot
  <2>8. ASSUME NEW draft \in Drafts, NEW accepted \in 0..NDraftMax, NEW own \in Tokens,
               accepted <= Len(draft), Speculate(draft, accepted, own)
        PROVE  SlotInv'
    BY <1>2, <2>8, SpeculateSlot
  <2>9. CASE AddToken
    BY <1>2, <2>9, AddTokenSlot
  <2>10. CASE ShiftAndAddToken
    BY <1>2, <2>10, ShiftSlot
  <2> QED
    BY <1>2, <2>1, <2>2, <2>3, <2>4, <2>5, <2>6, <2>7, <2>8, <2>9, <2>10 DEF Step
<1> QED BY <1>1, <1>2 DEF Next

LEMMA SlotInvHolds == Spec => []SlotInv
BY InitSlotInv, NextSlotInv, PTL DEF Spec

\* The slot and its cells keep their types: no position is beyond the context, whatever
\* is reused, shifted or drafted, and whatever decodes fail.
THEOREM CacheTypeCorrect == Spec => []CacheTypeOK
<1>1. SlotInv => CacheTypeOK
  BY DEF SlotInv
<1> QED BY <1>1, SlotInvHolds, PTL

\* GGML_ASSERT(slot.n_prompt_tokens < slot.n_ctx) never fails.
THEOREM PromptsFit == Spec => []PromptFits
<1>1. SlotInv => PromptFits
  BY DEF SlotInv
<1> QED BY <1>1, SlotInvHolds, PTL

\* There is always something to sample from: the last token of the context is in the
\* batch, also where the cache held the whole prompt.
THEOREM LogitsComputed == Spec => []LogitsAreComputed
<1>1. SlotInv => LogitsAreComputed
  BY DEF SlotInv
<1> QED BY <1>1, SlotInvHolds, PTL

-----------------------------------------------------------------------------
(* The cells of a slot are those of its request *)

\* One token in each cell.
Functional(cells) == \A c, d \in cells : c[1] = d[1] => c = d

\* A chunk that was moved away, or passed, is between n_past and head_c.
InGap(k) == SettingUp /\ n_past < k /\ k <= head_c

\* Outside of a request, and until its first batch, what counts as cached is cached.
CachedIsComputed ==
    /\ Functional(kv)
    /\ \A k \in DOMAIN cache_tokens :
          ~InGap(k) /\ cache_tokens[k] \in Tokens => <<k - 1, cache_tokens[k]>> \in kv

ExactInv ==
    /\ Begun => kv \cup batch = CellsOf(context, 0)
    /\ ~Begun /\ TRUE \in options.cache_prompts => CachedIsComputed

\* Where requests reuse what others left in the cells: no decode fails, and resize()
\* does not fill with a token where a request without cache_prompt may have come before.
ReuseIsSafe ==
    \A o \in Options :
        TRUE \in o.cache_prompts => /\ ~o.may_fail
                                    /\ FALSE \in o.cache_prompts => 0 \notin Tokens

\* What the cells of a sequence, and no other cells, hold.
LEMMA CellsHold ==
    ASSUME NEW S, NEW s \in Seq(S)
    PROVE  /\ Functional(CellsOf(s, 0))
           /\ \A k \in DOMAIN s : <<k - 1, s[k]>> \in CellsOf(s, 0)
<1>1. ASSUME NEW c \in CellsOf(s, 0), NEW d \in CellsOf(s, 0), c[1] = d[1]
      PROVE  c = d
  BY <1>1, CellsOfFunctional
<1>2. ASSUME NEW k \in DOMAIN s
      PROVE  <<k - 1, s[k]>> \in CellsOf(s, 0)
  <2>1. k \in 1..Len(s)
    OBVIOUS
  <2>2. <<0 + k - 1, s[k]>> \in CellsOf(s, 0)
    BY <2>1, CellIn
  <2> QED BY <2>1, <2>2
<1> QED BY <1>1, <1>2 DEF Functional

\* A slot that was serving a request is released, its batch decoded.
LEMMA ReleasedExact ==
    ASSUME SlotInv, ExactInv, ReuseIsSafe, Begun, phase' \in {"idle"}, kv' = kv \cup batch,
           UNCHANGED <<options, cache_tokens>>
    PROVE  ExactInv'
<1>1. ~Begun' /\ ~SettingUp'
  BY DEF Begun, SettingUp
<1>2. kv' = CellsOf(context, 0)
  BY DEF ExactInv
<1>3. context \in Seq(Tokens) /\ cache_prompt \in options.cache_prompts
      /\ options \in Options /\ cache_prompt \in BOOLEAN
  BY DEF SlotInv, CacheTypeOK, Begun
<1>4. Functional(kv') /\ \A k \in DOMAIN context : <<k - 1, context[k]>> \in kv'
  BY <1>2, <1>3, CellsHold, Zenon
<1>5. ASSUME TRUE \in options.cache_prompts,
             NEW k \in DOMAIN cache_tokens, cache_tokens[k] \in Tokens
      PROVE  <<k - 1, cache_tokens[k]>> \in kv'
  <2>1. CASE cache_prompt
    <3>1. cache_tokens = context
      BY <2>1 DEF SlotInv, Believed
    <3> QED BY <1>4, <1>5, <3>1
  <2>2. CASE ~cache_prompt
    <3>1. cache_tokens[k] = 0
      BY <2>2, <1>5 DEF SlotInv, Believed
    <3>2. FALSE \in options.cache_prompts
      BY <1>3, <2>2
    <3> QED BY <1>3, <1>5, <3>1, <3>2 DEF ReuseIsSafe
  <2> QED BY <1>3, <2>1, <2>2
<1> QED BY <1>1, <1>4, <1>5 DEF ExactInv, CachedIsComputed, InGap

LEMMA InitExact == Init => ExactInv
BY DEF Init, ExactInv, Begun, CachedIsComputed, Functional

\* Steps between two requests, and of the search for chunks, that leave the cells alone.
LEMMA BetweenExact ==
    ASSUME SlotInv, ExactInv, UNCHANGED options,
           \/ Refuse \/ SetUp \/ ReuseStep \/ ReuseEnds
           \/ \E tokens \in Prompts, keep \in Keeps, cached \in options.cache_prompts :
                 Launch(tokens, keep, cached)
    PROVE  ExactInv'
<1>1. ~Begun /\ ~Begun' /\ UNCHANGED <<options, kv, cache_tokens>>
  BY DEF Refuse, SetUp, ReuseStep, ReuseEnds, Launch, InReuse, ToIdle, requestVars, Begun
<1>2. head_c \in Nat /\ cache_tokens \in Seq(Tokens \cup {0})
  BY DEF SlotInv, CacheTypeOK
<1>3. \/ ~SettingUp
      \/ SettingUp' /\ n_past' = n_past /\ head_c' \in {head_c, head_c + 1}
  BY DEF Refuse, SetUp, ReuseStep, ReuseEnds, Launch, InReuse, ToIdle, requestVars,
         SettingUp
<1>4. ASSUME NEW k \in DOMAIN cache_tokens, InGap(k)
      PROVE  InGap(k)'
  <2>1. k \in Nat
    BY <1>2
  <2> QED BY <1>2, <1>3, <1>4, <2>1 DEF InGap
<1>5. CachedIsComputed => CachedIsComputed'
  BY <1>1, <1>4 DEF CachedIsComputed
<1> QED BY <1>1, <1>5 DEF ExactInv

\* A chunk moves into the gap between what was found before and itself.
LEMMA ReuseChunkExact ==
    ASSUME SlotInv, ExactInv, UNCHANGED options, ReuseChunk
    PROVE  ExactInv'
<1> DEFINE n == NMatch
           left == SeqRm(kv, n_past, head_c)
<1>1. /\ n \in Nat /\ head_c + n <= Len(cache_tokens)
  BY NMatchIs DEF ReuseChunk
<1>2. /\ kv' = SeqAdd(left, head_c, head_c + n, n_past - head_c)
      /\ cache_tokens' = [k \in DOMAIN cache_tokens |->
                            IF k > n_past /\ k <= n_past + n
                            THEN cache_tokens[k - n_past + head_c] ELSE cache_tokens[k]]
      /\ n_past' = n_past + n /\ head_c' = head_c + n
      /\ UNCHANGED <<phase, options>> /\ phase = "reuse"
  BY DEF ReuseChunk, InReuse
<1> HIDE DEF n
<1>3. /\ n_past \in Nat /\ head_c \in Nat /\ n_past <= head_c /\ NCtx \in Nat
      /\ cache_tokens \in Seq(Tokens \cup {0}) /\ Len(cache_tokens) \in Nat
      /\ DOMAIN cache_tokens = 1..Len(cache_tokens) /\ kv \subseteq Cell
  BY <1>2, CacheAssumption DEF SlotInv, CacheTypeOK, Found, SettingUp
<1>4. ~Begun /\ ~Begun' /\ SettingUp /\ SettingUp'
  BY <1>2 DEF Begun, SettingUp
<1> SUFFICES ASSUME CachedIsComputed
             PROVE  CachedIsComputed'
  BY <1>2, <1>4 DEF ExactInv
<1>5. \A c \in kv : c[1] \in Nat
  BY <1>3 DEF Cell
<1>6. \A c : c \in left <=> c \in kv /\ (c[1] < n_past \/ c[1] >= head_c)
  BY DEF SeqRm
<1> HIDE DEF left
<1>7. \A c \in kv' : \E d \in kv :
         \/ /\ d[1] >= head_c /\ d[1] < head_c + n
            /\ c = <<d[1] + (n_past - head_c), d[2]>>
         \/ (d[1] < n_past \/ d[1] >= head_c + n) /\ c = d
  <2> TAKE c \in kv'
  <2>1. PICK d \in left : c = IF d[1] >= head_c /\ d[1] < head_c + n
                              THEN <<d[1] + (n_past - head_c), d[2]>> ELSE d
    BY <1>2 DEF SeqAdd
  <2>2. d \in kv /\ d[1] \in Nat /\ (d[1] < n_past \/ d[1] >= head_c)
    BY <1>5, <1>6, <2>1
  <2>3. CASE d[1] >= head_c /\ d[1] < head_c + n
    BY <2>1, <2>2, <2>3
  <2>4. CASE ~(d[1] >= head_c /\ d[1] < head_c + n)
    <3>1. d[1] < n_past \/ d[1] >= head_c + n
      BY <1>1, <1>3, <2>2, <2>4
    <3> QED BY <2>1, <2>2, <2>4, <3>1
  <2> QED BY <2>3, <2>4
<1>8. \A d \in kv : d[1] >= head_c /\ d[1] < head_c + n
                      => <<d[1] + (n_past - head_c), d[2]>> \in kv'
  BY <1>2, <1>6 DEF SeqAdd
<1>9. \A d \in kv : d[1] < n_past \/ d[1] >= head_c + n => d \in kv'
  <2> TAKE d \in kv
  <2>1. SUFFICES ASSUME d[1] < n_past \/ d[1] >= head_c + n
                 PROVE  d \in kv'
    OBVIOUS
  <2>2. d \in left /\ ~(d[1] >= head_c /\ d[1] < head_c + n)
    BY <1>1, <1>3, <1>5, <1>6, <2>1
  <2> QED BY <1>2, <2>2 DEF SeqAdd
<1>10. Functional(kv)'
  <2>1. ASSUME NEW c \in kv', NEW d \in kv', c[1] = d[1]
        PROVE  c = d
    <3>1. PICK c0 \in kv :
             \/ /\ c0[1] >= head_c /\ c0[1] < head_c + n
                /\ c = <<c0[1] + (n_past - head_c), c0[2]>>
             \/ (c0[1] < n_past \/ c0[1] >= head_c + n) /\ c = c0
      BY <1>7
    <3>2. PICK d0 \in kv :
             \/ /\ d0[1] >= head_c /\ d0[1] < head_c + n
                /\ d = <<d0[1] + (n_past - head_c), d0[2]>>
             \/ (d0[1] < n_past \/ d0[1] >= head_c + n) /\ d = d0
      BY <1>7
    <3>3. c0[1] \in Nat /\ d0[1] \in Nat
      BY <1>5
    <3>4. c0[1] = d0[1] => c0 = d0
      BY DEF CachedIsComputed, Functional
    <3>5. c0[1] = d0[1]
      BY <1>1, <1>3, <2>1, <3>1, <3>2, <3>3
    <3> QED BY <1>1, <1>3, <3>1, <3>2, <3>3, <3>4, <3>5
  <2> QED BY <2>1 DEF Functional
<1>11. ASSUME NEW k \in DOMAIN cache_tokens', ~InGap(k)', cache_tokens'[k] \in Tokens
       PROVE  <<k - 1, cache_tokens'[k]>> \in kv'
  <2>1. k \in 1..Len(cache_tokens) /\ (k <= n_past + n \/ head_c + n < k)
    BY <1>1, <1>2, <1>3, <1>4, <1>11 DEF InGap
  <2>2. \A j \in 1..Len(cache_tokens) :
           (j <= n_past \/ head_c < j) /\ cache_tokens[j] \in Tokens
             => <<j - 1, cache_tokens[j]>> \in kv
    BY <1>3 DEF CachedIsComputed, InGap
  <2>3. CASE k <= n_past
    <3>1. cache_tokens'[k] = cache_tokens[k]
      BY <1>1, <1>2, <1>3, <2>1, <2>3
    <3>2. <<k - 1, cache_tokens[k]>> \in kv
      BY <1>11, <2>1, <2>2, <2>3, <3>1
    <3>3. k - 1 < n_past
      BY <1>3, <2>1, <2>3
    <3> QED BY <1>9, <3>1, <3>2, <3>3
  <2>4. CASE n_past < k /\ k <= n_past + n
    <3> DEFINE j == k - n_past + head_c
    <3>1. cache_tokens'[k] = cache_tokens[j]
      BY <1>2, <1>3, <2>1, <2>4
    <3>2. /\ j \in 1..Len(cache_tokens) /\ head_c < j /\ j <= head_c + n
          /\ j - 1 >= head_c /\ j - 1 < head_c + n
          /\ (j - 1) + (n_past - head_c) = k - 1
      BY <1>1, <1>3, <2>1, <2>4
    <3> HIDE DEF j
    <3>3. <<j - 1, cache_tokens[j]>> \in kv
      BY <1>11, <2>2, <3>1, <3>2
    <3> DEFINE d == <<j - 1, cache_tokens[j]>>
    <3>4. d[1] = j - 1 /\ d[2] = cache_tokens[j] /\ d \in kv
      BY <3>3
    <3> HIDE DEF d
    <3>5. <<d[1] + (n_past - head_c), d[2]>> \in kv'
      BY <1>8, <3>2, <3>4
    <3> QED BY <3>1, <3>2, <3>4, <3>5
  <2>5. CASE head_c + n < k
    <3>1. cache_tokens'[k] = cache_tokens[k]
      BY <1>1, <1>2, <1>3, <2>1, <2>5
    <3>2. <<k - 1, cache_tokens[k]>> \in kv
      BY <1>1, <1>3, <1>11, <2>1, <2>2, <2>5, <3>1
    <3>3. k - 1 >= head_c + n
      BY <1>1, <1>3, <2>1, <2>5
    <3> QED BY <1>9, <3>1, <3>2, <3>3
  <2> QED BY <1>1, <1>3, <2>1, <2>3, <2>4, <2>5
<1> QED BY <1>10, <1>11 DEF CachedIsComputed

\* What is left of the cells when a batch of the prompt begins at `from`.
LEMMA KeptIs ==
    ASSUME SlotInv, ExactInv, phase \in {"reused", "prompt"},
           NEW from \in {FirstToEvaluate, 0},
           from < FirstToEvaluate => KeepsUpTo(FirstToEvaluate) # kv
    PROVE  KeepsUpTo(from) = CellsOf(SubSeq(prompt_tokens, 1, from), 0)
<1> DEFINE front == SubSeq(prompt_tokens, 1, from)
<1>1. /\ from \in Nat /\ from <= n_past /\ from < Len(prompt_tokens)
      /\ phase = "prompt" => from = n_past
      /\ cache_prompt => /\ from <= Len(cache_tokens)
                         /\ \A k \in 1..from : cache_tokens[k] = prompt_tokens[k]
  BY FromIs, Zenon
<1>2. /\ prompt_tokens \in Seq(Tokens) /\ Len(prompt_tokens) \in Nat
      /\ cache_tokens \in Seq(Tokens \cup {0}) /\ Len(cache_tokens) \in Nat
      /\ n_past \in 0..(NCtx - 1) /\ NCtx \in Nat /\ kv \subseteq Cell
      /\ cache_prompt \in BOOLEAN /\ cache_prompt \in options.cache_prompts
  BY CacheAssumption DEF SlotInv, CacheTypeOK
<1>3. \A c \in kv : c = <<c[1], c[2]>> /\ c[1] \in 0..(NCtx - 1)
  BY <1>2 DEF Cell
<1>4. /\ front \in Seq(Tokens) /\ Len(front) = from
      /\ \A k \in 1..from : front[k] = prompt_tokens[k]
  BY <1>1, <1>2
<1>5. CASE phase = "prompt"
  <2>1. context = SubSeq(prompt_tokens, 1, n_past) /\ batch = {} /\ from = n_past
        /\ kv \cup batch = CellsOf(context, 0)
    BY <1>1, <1>5 DEF SlotInv, ExactInv, Begun, Decoding, PartLeft, Filling
  <2>2. \A c \in kv : c[1] < n_past
    BY <1>5 DEF SlotInv, PartLeft, Filling
  <2>3. KeepsUpTo(from) = kv
    BY <2>1, <2>2 DEF KeepsUpTo, SeqRm
  <2> QED BY <2>1, <2>3
<1> HIDE DEF front
<1>6. ASSUME NEW c \in CellsOf(front, 0)
      PROVE  \E k \in 1..from : c = <<k - 1, prompt_tokens[k]>>
  <2>1. PICK k \in 1..Len(front) : c = <<0 + k - 1, front[k]>>
    BY <1>4, <1>6, CellIn
  <2>2. k \in 1..from /\ 0 + k - 1 = k - 1 /\ front[k] = prompt_tokens[k]
    BY <1>1, <1>4
  <2> QED BY <2>1, <2>2
<1>7. ASSUME NEW k \in 1..from
      PROVE  <<k - 1, prompt_tokens[k]>> \in CellsOf(front, 0)
  <2>1. <<0 + k - 1, front[k]>> \in CellsOf(front, 0)
    BY <1>4, CellIn
  <2>2. 0 + k - 1 = k - 1 /\ front[k] = prompt_tokens[k]
    BY <1>4
  <2> QED BY <2>1, <2>2
<1>8. \A c : c \in KeepsUpTo(from) <=> c \in kv /\ c[1] < from
  BY <1>2, <1>3 DEF KeepsUpTo, SeqRm
<1>9. CASE phase = "reused" /\ ~cache_prompt
  <2>1. from = 0
    BY <1>1, <1>2, <1>9 DEF SlotInv, Found, SettingUp
  <2>2. ~ \E c : c \in KeepsUpTo(from)
    BY <1>3, <1>8, <2>1
  <2>3. ~ \E c : c \in CellsOf(front, 0)
    BY <1>6, <2>1
  <2> QED BY <2>2, <2>3 DEF front
<1>10. CASE phase = "reused" /\ cache_prompt
  <2>1. CachedIsComputed
    BY <1>2, <1>10 DEF ExactInv, Begun
  <2>2. ASSUME NEW k \in 1..from
        PROVE  <<k - 1, prompt_tokens[k]>> \in kv
    <3>1. k \in DOMAIN cache_tokens /\ k \in 1..Len(prompt_tokens) /\ k <= n_past
      BY <1>1, <1>2, <1>10
    <3>2. cache_tokens[k] = prompt_tokens[k] /\ prompt_tokens[k] \in Tokens
      BY <1>1, <1>2, <1>10, <3>1
    <3>3. ~InGap(k)
      BY <1>2, <3>1 DEF InGap
    <3> QED BY <2>1, <3>1, <3>2, <3>3 DEF CachedIsComputed
  <2>3. ASSUME NEW c \in kv, c[1] < from
        PROVE  c \in CellsOf(front, 0)
    <3> DEFINE k == c[1] + 1
    <3>1. k \in 1..from /\ k - 1 = c[1]
      BY <1>1, <1>3, <2>3
    <3> HIDE DEF k
    <3>2. <<k - 1, prompt_tokens[k]>> \in kv
      BY <2>2, <3>1
    <3> DEFINE d == <<k - 1, prompt_tokens[k]>>
    <3>3. d \in kv /\ d[1] = c[1]
      BY <3>1, <3>2
    <3>4. d \in CellsOf(front, 0)
      BY <1>7, <3>1
    <3> HIDE DEF d
    <3>5. c = d
      BY <2>1, <3>3 DEF CachedIsComputed, Functional
    <3> QED BY <3>4, <3>5
  <2>4. ASSUME NEW c \in CellsOf(front, 0)
        PROVE  c \in kv /\ c[1] < from
    <3>1. PICK k \in 1..from : c = <<k - 1, prompt_tokens[k]>>
      BY <1>6, <2>4
    <3>2. c[1] = k - 1 /\ k - 1 < from
      BY <1>1, <3>1
    <3> QED BY <2>2, <3>1, <3>2
  <2>5. \A c : c \in KeepsUpTo(from) <=> c \in CellsOf(front, 0)
    BY <1>8, <2>3, <2>4
  <2> QED BY <2>5 DEF front
<1> QED BY <1>2, <1>5, <1>9, <1>10

LEMMA FillPromptExact ==
    ASSUME SlotInv, ExactInv, NEW room \in 0..NBatch, FillPrompt(room)
    PROVE  ExactInv'
<1>1. phase \in {"reused", "prompt"}
  BY DEF FillPrompt
<1>2. PICK from \in Nat, m \in Nat, part \in Seq(Tokens) : Fills(from, m, part)
  BY FillPromptIs
<1> DEFINE front == SubSeq(prompt_tokens, 1, from)
<1>3. /\ from \in {FirstToEvaluate, 0}
      /\ from < FirstToEvaluate => KeepsUpTo(FirstToEvaluate) # kv
      /\ from + m <= Len(prompt_tokens)
      /\ part = SubSeq(prompt_tokens, from + 1, from + m)
      /\ kv' = KeepsUpTo(from) /\ batch' = CellsOf(part, from)
      /\ context' = SubSeq(prompt_tokens, 1, from + m)
      /\ phase' \in {"logits", "partway"}
  BY <1>2 DEF Fills
<1>4. kv' = CellsOf(front, 0)
  <2>1. KeepsUpTo(from) = CellsOf(front, 0)
    BY <1>1, <1>3, KeptIs, Zenon
  <2> QED BY <1>3, <2>1
<1>5. prompt_tokens \in Seq(Tokens) /\ Len(prompt_tokens) \in Nat
      /\ from + m \in Nat /\ from <= from + m /\ from <= Len(prompt_tokens)
  BY <1>3 DEF SlotInv, CacheTypeOK
<1>6. front \in Seq(Tokens) /\ Len(front) = from
  BY <1>5
<1>7. context' = front \o part
  BY <1>3, <1>5, SubSeqSplit
<1> HIDE DEF front
<1>8. CellsOf(front \o part, 0) = CellsOf(front, 0) \cup CellsOf(part, from)
  <2>1. CellsOf(front \o part, 0) = CellsOf(front, 0) \cup CellsOf(part, 0 + Len(front))
    BY <1>6, CellsOfConcat
  <2>2. 0 + Len(front) = from
    BY <1>6
  <2> QED BY <2>1, <2>2
<1>9. (kv \cup batch)' = CellsOf(context', 0)
  BY <1>3, <1>4, <1>7, <1>8
<1> QED BY <1>3, <1>9 DEF ExactInv, Begun

-----------------------------------------------------------------------------

LEMMA DecodedExact ==
    ASSUME SlotInv, ExactInv, ReuseIsSafe, UNCHANGED options,
           DecodePart \/ NoDraft \/ \E token \in Tokens, goesOn \in BOOLEAN :
                                       DecodeAndSample(token, goesOn)
    PROVE  ExactInv'
<1>1. CASE DecodePart
  BY <1>1 DEF DecodePart, ExactInv, Begun
<1>2. CASE NoDraft
  BY <1>2 DEF NoDraft, ExactInv, Begun
<1>3. ASSUME NEW token \in Tokens, NEW goesOn \in BOOLEAN, DecodeAndSample(token, goesOn)
      PROVE  ExactInv'
  <2>1. /\ phase = "logits" /\ kv' = kv \cup batch /\ batch' = {}
        /\ UNCHANGED <<options, cache_tokens, context>>
        /\ phase' \in {"idle", "generating", "drafting"}
    BY <1>3 DEF DecodeAndSample
  <2>2. CASE phase' \in {"generating", "drafting"}
    BY <2>1, <2>2 DEF ExactInv, Begun
  <2>3. CASE phase' \in {"idle"}
    <3>1. Begun
      BY <2>1 DEF Begun
    <3> QED BY <2>1, <2>3, <3>1, ReleasedExact
  <2> QED BY <2>1, <2>2, <2>3
<1> QED BY <1>1, <1>2, <1>3

\* Every step after which the slot is idle, a decode that fails among them: it leaves
\* cells that nobody reuses.
LEMMA IdleExact ==
    ASSUME SlotInv, ExactInv, ReuseIsSafe, UNCHANGED options,
           CancelSlot \/ Overflow \/ DecodeFails
    PROVE  ExactInv'
<1>1. ToIdle /\ phase' = "idle" /\ UNCHANGED <<options, cache_tokens>>
  BY DEF ToIdle, CancelSlot, Overflow, DecodeFails
<1>2. ~Begun' /\ ~SettingUp'
  BY <1>1 DEF Begun, SettingUp
<1>3. CASE phase = "started" /\ UNCHANGED kv
  BY <1>1, <1>2, <1>3 DEF ExactInv, Begun, SettingUp, CachedIsComputed, InGap
<1>4. CASE phase \in {"prompt", "generating"} /\ UNCHANGED kv
  <2>1. Begun /\ batch = {}
    BY <1>4 DEF SlotInv, Decoding, Begun
  <2>2. phase' \in {"idle"} /\ kv' = kv \cup batch
    BY <1>1, <1>4, <2>1
  <2> QED BY <1>1, <2>1, <2>2, ReleasedExact
<1>5. CASE DecodeFails
  <2>1. options.may_fail /\ options \in Options
    BY <1>5 DEF DecodeFails, SlotInv, CacheTypeOK
  <2>2. TRUE \notin options.cache_prompts
    BY <2>1 DEF ReuseIsSafe
  <2> QED BY <1>1, <1>2, <2>2 DEF ExactInv
<1> QED BY <1>3, <1>4, <1>5 DEF CancelSlot, Overflow

\* The sampled token joins the batch behind the cells of the context.
LEMMA AddSampledExact ==
    ASSUME SlotInv, NEW past, NEW cells, NEW tokens \in Seq(Tokens), NEW cached,
           phase = "generating", Len(tokens) = past, cells = CellsOf(tokens, 0),
           AddSampled(past, cells, tokens, cached)
    PROVE  ExactInv'
<1>1. /\ phase' = "logits" /\ kv' = cells /\ batch' = {<<past, sampled>>}
      /\ context' = Append(tokens, sampled) /\ sampled \in Tokens
  BY DEF AddSampled, SlotInv
<1>2. PICK one \in Seq(Tokens) : one = <<sampled>> /\ Len(one) = 1 /\ one[1] = sampled
  <2>1. <<sampled>> \in Seq(Tokens) /\ Len(<<sampled>>) = 1 /\ <<sampled>>[1] = sampled
    BY <1>1
  <2> QED BY <2>1, Zenon
<1>3. past \in Nat
  OBVIOUS
<1>4. Append(tokens, sampled) = tokens \o one
  BY <1>1, <1>2
<1>5. CellsOf(tokens \o one, 0) = cells \cup CellsOf(one, past)
  <2>1. CellsOf(tokens \o one, 0) = CellsOf(tokens, 0) \cup CellsOf(one, 0 + Len(tokens))
    BY CellsOfConcat
  <2>2. 0 + Len(tokens) = past
    BY <1>3
  <2> QED BY <2>1, <2>2
<1>6. CellsOf(one, past) = {<<past, sampled>>}
  <2>1. ASSUME NEW c \in CellsOf(one, past)
        PROVE  c = <<past, sampled>>
    <3>1. PICK k \in 1..Len(one) : c = <<past + k - 1, one[k]>>
      BY <1>3, <2>1, CellIn
    <3>2. k = 1 /\ past + k - 1 = past
      BY <1>2, <1>3
    <3> QED BY <1>2, <3>1, <3>2
  <2>2. <<past, sampled>> \in CellsOf(one, past)
    <3>1. <<past + 1 - 1, one[1]>> \in CellsOf(one, past)
      <4>1. 1 \in 1..Len(one)
        BY <1>2
      <4> QED BY <1>3, <4>1, CellIn
    <3>2. past + 1 - 1 = past
      BY <1>3
    <3> QED BY <1>2, <3>1, <3>2
  <2> QED BY <2>1, <2>2
<1>7. kv' \cup batch' = CellsOf(context', 0)
  BY <1>1, <1>4, <1>5, <1>6
<1> QED BY <1>1, <1>7 DEF ExactInv, Begun

LEMMA AddTokenExact ==
    ASSUME SlotInv, ExactInv, AddToken
    PROVE  ExactInv'
<1>1. phase = "generating" /\ AddSampled(n_past, kv, context, cache_tokens)
  BY DEF AddToken
<1>2. context \in Seq(Tokens) /\ Len(context) = n_past /\ kv = CellsOf(context, 0)
  BY <1>1 DEF SlotInv, CacheTypeOK, Believed, Begun, Decoding, ExactInv
<1> QED BY <1>1, <1>2, AddSampledExact, Zenon

\* A shift closes the gap in the cells as in the context.
LEMMA ShiftExact ==
    ASSUME SlotInv, ExactInv, ShiftAndAddToken
    PROVE  ExactInv'
<1> DEFINE keep    == n_keep + AddBos
           discard == (n_past - keep) \div 2
           cut     == Without(context, keep, discard)
           cells   == ShiftCells(keep, discard)
           cached  == IF cache_prompt THEN Without(cache_tokens, keep, discard)
                      ELSE cache_tokens
<1>1. /\ phase = "generating" /\ ContextIsFull
      /\ AddSampled(n_past - discard, cells, cut, cached)
  BY DEF ShiftAndAddToken
<1>2. keep \in Nat /\ discard \in Nat /\ keep + discard <= n_past
  BY <1>1, DiscardIs
<1> HIDE DEF keep, discard, cached
<1>3. /\ n_past \in Nat /\ context \in Seq(Tokens) /\ Len(context) = n_past
      /\ kv = CellsOf(context, 0)
  <2>1. Begun /\ ~Decoding
    BY <1>1 DEF Begun, Decoding
  <2>2. kv \cup batch = CellsOf(context, 0) /\ batch = {}
    BY <2>1 DEF SlotInv, ExactInv
  <2>3. n_past \in Nat /\ context \in Seq(Tokens) /\ Len(context) = n_past
    BY <2>1 DEF SlotInv, CacheTypeOK, Believed
  <2> QED BY <2>2, <2>3
<1>4. cut \in Seq(Tokens) /\ Len(cut) = n_past - discard
  BY <1>2, <1>3, WithoutLen
<1>5. cells = CellsOf(cut, 0)
  <2>1. SeqAdd(SeqRm(CellsOf(context, 0), keep, keep + discard), keep + discard,
               Len(context), 0 - discard) = CellsOf(Without(context, keep, discard), 0)
    BY <1>2, <1>3, GapCloses
  <2> QED BY <1>3, <2>1, Zenon DEF ShiftCells
<1> HIDE DEF cut, cells
<1> QED BY <1>1, <1>4, <1>5, AddSampledExact, Zenon

\* The cells of the refused part of a draft are gone.
LEMMA SpeculateExact ==
    ASSUME SlotInv, ExactInv, ReuseIsSafe, UNCHANGED options,
           NEW draft \in Drafts, NEW accepted \in 0..NDraftMax, NEW own \in Tokens,
           accepted <= Len(draft), Speculate(draft, accepted, own)
    PROVE  ExactInv'
<1> DEFINE added == Added(draft, accepted)
           back  == SubSeq(draft, accepted + 1, Len(draft))
           cells == CellsOf(Drafted(draft), n_past)
           past  == n_past + accepted + 1
<1>1. /\ phase = "drafting" /\ cache_prompt /\ sampled \in Tokens
      /\ draft \in Seq(Tokens) /\ accepted \in 0..Len(draft)
      /\ n_past + Len(draft) + 1 < NCtx
      /\ cache_tokens' = cache_tokens \o added
      /\ context' = context \o added
      /\ \E k \in IF options.may_fail THEN 0..NCtx ELSE {NCtx} :
            kv' = SeqRm(kv \cup SeqRm(cells, k, NCtx), past, NCtx)
      /\ phase' \in {"generating", "idle"} /\ batch' = batch
  BY SpeculateIs
<1>2. /\ added \in Seq(Tokens) /\ Len(added) = accepted + 1
      /\ back \in Seq(Tokens) /\ Len(back) = Len(draft) - accepted
      /\ Drafted(draft) = added \o back
  BY <1>1, AddedIs
<1> HIDE DEF added, back
<1>3. /\ n_past \in Nat /\ NCtx \in Nat /\ Len(draft) \in Nat
      /\ context \in Seq(Tokens) /\ Len(context) = n_past /\ cache_tokens = context
      /\ kv = CellsOf(context, 0) /\ batch = {}
      /\ options \in Options /\ TRUE \in options.cache_prompts
  <2>1. Begun /\ ~Decoding /\ cache_prompt
    BY <1>1 DEF Begun, Decoding
  <2>2. kv \cup batch = CellsOf(context, 0) /\ batch = {}
    BY <2>1 DEF SlotInv, ExactInv
  <2>3. n_past \in Nat /\ context \in Seq(Tokens) /\ Len(context) = n_past
        /\ cache_tokens = context
    BY <2>1 DEF SlotInv, CacheTypeOK, Believed
  <2>4. options \in Options /\ TRUE \in options.cache_prompts
    <3>1. cache_prompt = TRUE /\ cache_prompt \in options.cache_prompts
      BY <1>1, <2>1 DEF SlotInv, CacheTypeOK
    <3> QED BY <3>1 DEF SlotInv, CacheTypeOK
  <2>5. NCtx \in Nat /\ Len(draft) \in Nat
    BY <1>1, CacheAssumption
  <2> QED BY <2>2, <2>3, <2>4, <2>5
<1>4. kv' = SeqRm(kv \cup SeqRm(cells, NCtx, NCtx), past, NCtx)
  BY <1>1, <1>3 DEF ReuseIsSafe
<1>5. Drafted(draft) \in Seq(Tokens)
  BY <1>2, ConcatProperties, Zenon
<1>6. SeqRm(cells, NCtx, NCtx) = cells
  <2>1. ASSUME NEW c \in cells
        PROVE  c[1] < NCtx \/ c[1] >= NCtx
    <3>1. c \in CellsOf(Drafted(draft), n_past) /\ n_past \in Int
      BY <1>3
    <3>2. c[1] \in n_past..(n_past + Len(Drafted(draft)) - 1)
      BY <1>5, <3>1, CellPositions, Zenon
    <3>3. c[1] \in Int
      BY <3>2
    <3> QED BY <1>3, <3>3
  <2> QED BY <2>1 DEF SeqRm
<1>7. kv \cup cells = CellsOf(context \o Drafted(draft), 0)
  <2>1. CellsOf(context \o Drafted(draft), 0)
          = CellsOf(context, 0) \cup CellsOf(Drafted(draft), 0 + Len(context))
    BY <1>3, <1>5, CellsOfConcat
  <2>2. 0 + Len(context) = n_past
    BY <1>3
  <2> QED BY <1>3, <2>1, <2>2
<1>8. context \o Drafted(draft) = (context \o added) \o back
  <2>1. (context \o added) \o back = context \o (added \o back)
    <3>1. PICK a \in Seq(Tokens), b \in Seq(Tokens), c \in Seq(Tokens) :
             a = context /\ b = added /\ c = back
      BY <1>2, <1>3, Zenon
    <3>2. (a \o b) \o c = a \o (b \o c)
      BY TokensAssociate
    <3> QED BY <3>1, <3>2, Zenon
  <2> QED BY <1>2, <2>1, Zenon
<1> HIDE DEF cells
<1>9. PICK front \in Seq(Tokens) : front = context \o added
  BY <1>2, <1>3, ConcatProperties, Zenon
<1>10. Len(front) = past /\ Len(front) + Len(back) <= NCtx
  <2>1. Len(front) = Len(context) + Len(added)
    BY <1>2, <1>3, <1>9, ConcatProperties, Zenon
  <2>2. accepted \in 0..Len(draft) /\ n_past + Len(draft) + 1 < NCtx
    BY <1>1
  <2>3. Len(context) = n_past /\ n_past \in Nat /\ Len(draft) \in Nat /\ NCtx \in Nat
    BY <1>3
  <2>4. Len(added) = accepted + 1 /\ Len(back) = Len(draft) - accepted
    BY <1>2
  <2> QED BY <2>1, <2>2, <2>3, <2>4
<1>11. SeqRm(CellsOf(front \o back, 0), Len(front), NCtx) = CellsOf(front, 0)
  BY <1>2, <1>10, CellsOfFront, Zenon
<1>12. kv' = CellsOf(front, 0)
  BY <1>4, <1>6, <1>7, <1>8, <1>9, <1>10, <1>11, Zenon
<1>13. context' = front /\ cache_tokens' = front /\ batch' = {}
  BY <1>1, <1>3, <1>9
<1>14. CASE phase' = "generating"
  BY <1>12, <1>13, <1>14 DEF ExactInv, Begun
<1>15. CASE phase' = "idle"
  <2>1. Functional(kv') /\ \A k \in DOMAIN cache_tokens' : <<k - 1, cache_tokens'[k]>> \in kv'
    BY <1>12, <1>13, CellsHold, Zenon
  <2> QED BY <1>15, <2>1 DEF ExactInv, Begun, CachedIsComputed, Functional
<1> QED BY <1>1, <1>14, <1>15

LEMMA NextExactInv ==
    ASSUME ReuseIsSafe, SlotInv, ExactInv, [Next]_cacheVars
    PROVE  ExactInv'
<1>1. CASE UNCHANGED cacheVars
  BY <1>1 DEF cacheVars, requestVars, ExactInv, Begun, CachedIsComputed, InGap, SettingUp
<1>2. CASE Step /\ UNCHANGED options
  <2>1. CASE \/ Refuse \/ SetUp \/ ReuseStep \/ ReuseEnds
             \/ \E tokens \in Prompts, keep \in Keeps, cached \in options.cache_prompts :
                   Launch(tokens, keep, cached)
    BY <1>2, <2>1, BetweenExact
  <2>2. CASE ReuseChunk
    BY <1>2, <2>2, ReuseChunkExact
  <2>3. ASSUME NEW room \in 0..NBatch, FillPrompt(room)
        PROVE  ExactInv'
    BY <1>2, <2>3, FillPromptExact
  <2>4. CASE \/ DecodePart \/ NoDraft
             \/ \E token \in Tokens, goesOn \in BOOLEAN : DecodeAndSample(token, goesOn)
    BY <1>2, <2>4, DecodedExact
  <2>5. CASE CancelSlot \/ Overflow \/ DecodeFails
    BY <1>2, <2>5, IdleExact
  <2>6. CASE AddToken
    BY <2>6, AddTokenExact
  <2>7. CASE ShiftAndAddToken
    BY <2>7, ShiftExact
  <2>8. ASSUME NEW draft \in Drafts, NEW accepted \in 0..NDraftMax, NEW own \in Tokens,
               accepted <= Len(draft), Speculate(draft, accepted, own)
        PROVE  ExactInv'
    BY <1>2, <2>8, SpeculateExact
  <2> QED BY <1>2, <2>1, <2>2, <2>3, <2>4, <2>5, <2>6, <2>7, <2>8 DEF Step
<1> QED BY <1>1, <1>2 DEF Next

\* Where a slot reuses cells it computed, a decode sees the tokens of its request and no
\* others: no matter what was reused, moved, shifted or drafted before.
THEOREM ContextsAreExact == ReuseIsSafe => (Spec => []ContextIsExact)
<1> SUFFICES ASSUME ReuseIsSafe
             PROVE  Spec => []ContextIsExact
  OBVIOUS
<1>1. SlotInv /\ ExactInv => ContextIsExact
  BY DEF ExactInv, ContextIsExact, Decoding, Begun
<1>2. SlotInv /\ ExactInv /\ [Next]_cacheVars => ExactInv'
  BY NextExactInv
<1> QED BY <1>1, <1>2, InitExact, SlotInvHolds, PTL DEF Spec
=============================================================================
