--------------------------- MODULE TextStreamProofs ---------------------------
(***************************************************************************)
(* What a caller gets of a completion, for any pieces that a model may     *)
(* sample, any stop words and any length: nothing from the first stop word *)
(* on, and whole characters.                                               *)
(***************************************************************************)
EXTENDS TextStream, TLAPS, WellFoundedInduction, SequenceTheorems

-----------------------------------------------------------------------------
(* Texts and the words that stand in them *)

\* Every non-empty set of naturals has a least element.
LEMMA LeastPosition ==
  ASSUME NEW B \in SUBSET Nat, B # {}
  PROVE  \E n \in B : \A m \in B : n <= m
<1> DEFINE R == OpToRel(<, Nat)
<1>1. IsWellFoundedOn(R, Nat)
  BY NatLessThanWellFounded, Zenon
<1>2. \A x, y \in Nat : x < y => <<x, y>> \in R
  BY DEF OpToRel
<1> HIDE DEF R
<1>3. PICK n \in B : \A m \in B : ~(<<m, n>> \in R)
  BY <1>1, WFMin, Zenon
<1>4. ASSUME NEW m \in B PROVE n <= m
  <2>1. ~(m < n)
    BY <1>2, <1>3, Zenon
  <2> QED BY <2>1
<1> QED BY <1>4

\* The text begins with all of g.
Extends(text, g) == Len(g) <= Len(text) /\ \A j \in 1..Len(g) : text[j] = g[j]

LEMMA TokenExtends ==
  ASSUME NEW g \in Seq(Bytes), NEW token \in Seq(Bytes)
  PROVE  /\ g \o token \in Seq(Bytes) /\ Len(g \o token) = Len(g) + Len(token)
         /\ Extends(g \o token, g)
BY ConcatProperties DEF Extends

LEMMA RestOfText ==
  ASSUME NEW text \in Seq(Bytes), NEW pos \in 0..Len(text)
  PROVE  LET rest == SubSeq(text, pos + 1, Len(text))
         IN  /\ rest \in Seq(Bytes) /\ Len(rest) = Len(text) - pos
             /\ \A j \in 1..Len(rest) : rest[j] = text[pos + j]
<1>1. pos + 1 \in Int /\ Len(text) \in Int
  OBVIOUS
<1>2. \A i \in (pos + 1)..Len(text) : text[i] \in Bytes
  OBVIOUS
<1> QED BY <1>1, <1>2, SubSeqProperties

LEMMA StartOfText ==
  ASSUME NEW text \in Seq(Bytes), NEW n \in 0..Len(text)
  PROVE  LET start == SubSeq(text, 1, n)
         IN  /\ start \in Seq(Bytes) /\ Len(start) = n
             /\ \A j \in 1..n : start[j] = text[j]
<1>1. n \in Int /\ \A i \in 1..n : text[i] \in Bytes
  OBVIOUS
<1> QED BY <1>1, SubSeqProperties

LEMMA StartAndRest ==
  ASSUME NEW text \in Seq(Bytes), NEW pos \in 0..Len(text), NEW n \in pos..Len(text)
  PROVE  SubSeq(text, 1, pos) \o SubSeq(text, pos + 1, n) = SubSeq(text, 1, n)
<1>1. 1 \in 1..(Len(text) + 1) /\ pos \in (1 - 1)..Len(text)
  OBVIOUS
<1> QED BY <1>1, ConcatAdjacentSubSeq

\* What a text begins with does not change while it grows.
LEMMA StartStays ==
  ASSUME NEW g \in Seq(Bytes), NEW text \in Seq(Bytes), Extends(text, g), NEW n \in 0..Len(g)
  PROVE  SubSeq(text, 1, n) = SubSeq(g, 1, n)
<1>1. n \in 0..Len(text)
  BY DEF Extends
<1>2. \A j \in 1..n : SubSeq(text, 1, n)[j] = SubSeq(g, 1, n)[j]
  BY <1>1, StartOfText DEF Extends
<1> QED BY <1>1, <1>2, StartOfText, SeqEqual

\* The word stands in the text at position k, byte by byte.
LEMMA StandsByBytes ==
  ASSUME NEW text \in Seq(Bytes), NEW word \in Seq(Bytes), NEW k \in Nat
  PROVE  StandsAt(word, text, k) <=>
             /\ k + Len(word) <= Len(text)
             /\ \A j \in 1..Len(word) : text[k + j] = word[j]
<1> DEFINE part == SubSeq(text, k + 1, k + Len(word))
<1>1. ASSUME k + Len(word) <= Len(text)
      PROVE  /\ part \in Seq(Bytes) /\ Len(part) = Len(word)
             /\ \A j \in 1..Len(word) : part[j] = text[k + j]
  <2>1. \A i \in (k + 1)..(k + Len(word)) : text[i] \in Bytes
    BY <1>1
  <2> QED BY <1>1, <2>1, SubSeqProperties
<1>2. ASSUME StandsAt(word, text, k)
      PROVE  \A j \in 1..Len(word) : text[k + j] = word[j]
  BY <1>1, <1>2 DEF StandsAt
<1>3. ASSUME k + Len(word) <= Len(text), \A j \in 1..Len(word) : text[k + j] = word[j]
      PROVE  part = word
  <2>1. \A j \in 1..Len(part) : part[j] = word[j]
    BY <1>1, <1>3
  <2> HIDE DEF part
  <2> QED BY <1>1, <1>3, <2>1, SeqEqual
<1> QED BY <1>2, <1>3 DEF StandsAt

\* Where a word stands in the rest of a text is where it stands in the text.
LEMMA StandsInRest ==
  ASSUME NEW text \in Seq(Bytes), NEW word \in Seq(Bytes), NEW pos \in 0..Len(text), NEW k \in Nat
  PROVE  StandsAt(word, SubSeq(text, pos + 1, Len(text)), k) <=> StandsAt(word, text, pos + k)
<1> DEFINE rest == SubSeq(text, pos + 1, Len(text))
<1>1. /\ rest \in Seq(Bytes) /\ Len(rest) = Len(text) - pos
      /\ \A j \in 1..Len(rest) : rest[j] = text[pos + j]
  BY RestOfText
<1>2. pos + k \in Nat /\ pos \in Nat
  OBVIOUS
<1> HIDE DEF rest
<1>3. /\ StandsAt(word, rest, k) <=> /\ k + Len(word) <= Len(rest)
                                     /\ \A j \in 1..Len(word) : rest[k + j] = word[j]
      /\ StandsAt(word, text, pos + k) <=> /\ pos + k + Len(word) <= Len(text)
                                           /\ \A j \in 1..Len(word) : text[pos + k + j] = word[j]
  BY <1>1, <1>2, StandsByBytes
<1>4. k + Len(word) <= Len(rest) <=> pos + k + Len(word) <= Len(text)
  BY <1>1
<1>5. k + Len(word) <= Len(rest) =>
          \A j \in 1..Len(word) : rest[k + j] = text[pos + k + j]
  <2>1. ASSUME k + Len(word) <= Len(rest), NEW j \in 1..Len(word)
        PROVE  rest[k + j] = text[pos + k + j]
    <3>1. k + j \in 1..Len(rest) /\ pos + (k + j) = pos + k + j
      BY <1>1, <2>1
    <3> QED BY <1>1, <3>1
  <2> QED BY <2>1
<1> QED BY <1>3, <1>4, <1>5 DEF rest

\* Somewhere within the text the word is another than stands at position k.
Differs(word, text, k) == \E j \in 1..Len(word) : k + j <= Len(text) /\ text[k + j] # word[j]

LEMMA DiffersForGood ==
  ASSUME NEW g \in Seq(Bytes), NEW text \in Seq(Bytes), Extends(text, g),
         NEW word \in Seq(Bytes), NEW k \in Nat, Differs(word, g, k)
  PROVE  Differs(word, text, k) /\ ~StandsAt(word, text, k)
<1>1. PICK j \in 1..Len(word) : k + j <= Len(g) /\ g[k + j] # word[j]
  BY DEF Differs
<1>2. k + j \in 1..Len(g)
  BY <1>1
<1>3. k + j <= Len(text) /\ text[k + j] # word[j]
  BY <1>1, <1>2 DEF Extends
<1> QED BY <1>3, StandsByBytes DEF Differs

\* A word that stands within the old text stood there before.
LEMMA StoodBefore ==
  ASSUME NEW g \in Seq(Bytes), NEW text \in Seq(Bytes), Extends(text, g),
         NEW word \in Seq(Bytes), NEW k \in Nat, StandsAt(word, text, k), k + Len(word) <= Len(g)
  PROVE  StandsAt(word, g, k)
<1>1. \A j \in 1..Len(word) : text[k + j] = word[j]
  BY StandsByBytes
<1>2. \A j \in 1..Len(word) : k + j \in 1..Len(g)
  OBVIOUS
<1>3. \A j \in 1..Len(word) : g[k + j] = word[j]
  BY <1>1, <1>2 DEF Extends
<1> QED BY <1>3, StandsByBytes

-----------------------------------------------------------------------------
(* What the searches find *)

\* A text that ends in the beginning of a stop word is held back.
LEMMA PartialStopIsFound ==
  ASSUME NEW text \in Seq(Bytes), NEW word \in antiprompt, word \in Seq(Bytes),
         NEW n \in 1..Len(word), n <= Len(text),
         \A j \in 1..n : text[Len(text) - n + j] = word[j]
  PROVE  PartialStop(text)
<1> DEFINE start == SubSeq(word, 1, n)
<1>1. /\ start \in Seq(Bytes) /\ Len(start) = n
      /\ \A j \in 1..n : start[j] = word[j]
  BY StartOfText
<1> HIDE DEF start
<1>2. /\ Reverse(start) \in Seq(Bytes) /\ Len(Reverse(start)) = n
      /\ \A i \in 1..n : Reverse(start)[i] = start[n - i + 1]
  BY <1>1 DEF Reverse
<1>3. /\ Reverse(text) \in Seq(Bytes) /\ Len(Reverse(text)) = Len(text)
      /\ \A i \in 1..Len(text) : Reverse(text)[i] = text[Len(text) - i + 1]
  BY DEF Reverse
<1>4. \A i \in 1..n : Reverse(start)[i] = Reverse(text)[i]
  <2> TAKE i \in 1..n
  <2>1. n - i + 1 \in 1..n /\ Len(text) - n + (n - i + 1) = Len(text) - i + 1 /\ i \in 1..Len(text)
    OBVIOUS
  <2>2. text[Len(text) - n + (n - i + 1)] = word[n - i + 1]
    BY <2>1
  <2> QED BY <1>1, <1>2, <1>3, <2>1, <2>2
<1>5. SubSeq(Reverse(start), 1, n) = SubSeq(Reverse(text), 1, n)
  <2>1. n \in 0..Len(Reverse(text)) /\ n \in 0..Len(Reverse(start))
    BY <1>2, <1>3
  <2>2. \A j \in 1..n : SubSeq(Reverse(start), 1, n)[j] = SubSeq(Reverse(text), 1, n)[j]
    BY <1>2, <1>3, <1>4, <2>1, StartOfText
  <2> QED BY <1>2, <1>3, <2>1, <2>2, StartOfText, SeqEqual
<1>6. IsSuffix(start, text)
  BY <1>2, <1>3, <1>5 DEF IsSuffix, IsPrefix
<1> QED BY <1>6 DEF PartialStop, start

\* No character is cut at position k.
WholeTo(text, k) == \A j \in 1..k : j + Width(text[j]) - 1 <= k

\* A text that validate_utf8 finds complete ends with a character.
LEMMA ValidIsWhole ==
  ASSUME NEW text \in Seq(Bytes), ValidateUtf8(text) = Len(text)
  PROVE  WholeTo(text, Len(text))
<1> DEFINE cut == {i \in 1..Min2(4, Len(text)) : i < Width(text[Len(text) - i + 1])}
<1>1. Min2(4, Len(text)) \in Nat /\ Min2(4, Len(text)) <= Len(text)
      /\ \A i \in 1..Len(text) : i <= 4 => i \in 1..Min2(4, Len(text))
  BY DEF Min2
<1>2. \A byte \in Bytes : Width(byte) \in 1..4
  BY DEF Width, Bytes
<1>3. cut = {}
  <2>1. SUFFICES ASSUME cut # {} PROVE FALSE
    OBVIOUS
  <2>2. cut \in SUBSET Nat
    BY <1>1
  <2>3. \E i \in cut : \A j \in cut : i <= j
    <3> HIDE DEF cut
    <3> QED BY <2>1, <2>2, LeastPosition
  <2>4. (CHOOSE i \in cut : \A j \in cut : i <= j) \in cut
    <3> HIDE DEF cut
    <3> QED BY <2>3
  <2>5. ValidateUtf8(text) = Len(text) - (CHOOSE i \in cut : \A j \in cut : i <= j)
    BY <2>1 DEF ValidateUtf8
  <2>6. PICK x \in 1..Len(text) : ValidateUtf8(text) = Len(text) - x
    <3>1. cut \subseteq 1..Len(text)
      BY <1>1
    <3> HIDE DEF cut
    <3> QED BY <2>4, <2>5, <3>1
  <2> QED BY <2>6
<1>4. ASSUME NEW j \in 1..Len(text) PROVE j + Width(text[j]) - 1 <= Len(text)
  <2>1. SUFFICES ASSUME j + Width(text[j]) - 1 > Len(text) PROVE FALSE
    BY <1>2
  <2>2. Width(text[j]) \in 1..4 /\ Len(text) - (Len(text) - j + 1) + 1 = j
    BY <1>2
  <2>3. /\ Len(text) - j + 1 \in 1..Len(text) /\ Len(text) - j + 1 <= 4
        /\ Len(text) - j + 1 < Width(text[j])
    BY <2>1, <2>2
  <2>4. Len(text) - j + 1 \in cut
    BY <1>1, <2>2, <2>3
  <2> QED BY <1>3, <2>4
<1> QED BY <1>4 DEF WholeTo

-----------------------------------------------------------------------------
(* Where a text is cut *)

\* None of the words stands in the text. An empty one would, in any text.
NoneStands(words, text) ==
    text # <<>> => \A word \in words, k \in 0..Len(text) : ~StandsAt(word, text, k)

\* Cut, for any words.
CutBefore(words, text) ==
    LET stops == {k \in 0..Len(text) : \E word \in words : StandsAt(word, text, k)}
    IN  IF stops = {} THEN text
        ELSE SubSeq(text, 1, CHOOSE k \in stops : \A j \in stops : k <= j)

LEMMA CutIsBefore == \A text : Cut(text) = CutBefore(antiprompt, text)
BY DEF Cut, CutBefore

LEMMA CutNothing ==
  ASSUME NEW words, NEW text \in Seq(Bytes), NoneStands(words, text)
  PROVE  CutBefore(words, text) = text
<1> DEFINE stops == {k \in 0..Len(text) : \E word \in words : StandsAt(word, text, k)}
<1>1. CASE stops = {}
  BY <1>1 DEF CutBefore
<1>2. CASE stops # {}
  <2>1. text = <<>>
    BY <1>2 DEF NoneStands
  <2>2. stops = {0}
    BY <1>2, <2>1
  <2>3. (CHOOSE k \in stops : \A j \in stops : k <= j) = 0
    BY <2>2
  <2>4. SubSeq(text, 1, 0) = <<>>
    BY SubSeqEmpty
  <2> QED BY <1>2, <2>1, <2>3, <2>4 DEF CutBefore
<1> QED BY <1>1, <1>2

LEMMA CutAtFirst ==
  ASSUME NEW words, NEW text \in Seq(Bytes), NEW c \in 0..Len(text),
         \E word \in words : StandsAt(word, text, c),
         \A word \in words, k \in 0..Len(text) : StandsAt(word, text, k) => c <= k
  PROVE  CutBefore(words, text) = SubSeq(text, 1, c)
<1> DEFINE stops == {k \in 0..Len(text) : \E word \in words : StandsAt(word, text, k)}
<1>1. c \in stops /\ stops \subseteq Int /\ \A j \in stops : c <= j
  OBVIOUS
<1>2. CutBefore(words, text) = SubSeq(text, 1, CHOOSE k \in stops : \A j \in stops : k <= j)
  BY <1>1 DEF CutBefore
<1> HIDE DEF stops
<1>3. (CHOOSE k \in stops : \A j \in stops : k <= j) = c
  <2> DEFINE x == CHOOSE k \in stops : \A j \in stops : k <= j
  <2>1. x \in stops /\ \A j \in stops : x <= j
    BY <1>1
  <2> HIDE DEF x
  <2>2. x = c
    BY <1>1, <2>1
  <2> QED BY <2>2 DEF x
<1> QED BY <1>2, <1>3

LEMMA CutIsText ==
  ASSUME NEW words, NEW text \in Seq(Bytes)
  PROVE  CutBefore(words, text) \in Seq(Bytes)
<1> DEFINE stops == {k \in 0..Len(text) : \E word \in words : StandsAt(word, text, k)}
           x     == CHOOSE k \in stops : \A j \in stops : k <= j
<1>1. CASE stops = {}
  BY <1>1 DEF CutBefore
<1>2. CASE stops # {}
  <2>1. stops \in SUBSET Nat /\ stops \subseteq 0..Len(text)
    OBVIOUS
  <2>2. \E k \in stops : \A j \in stops : k <= j
    <3> HIDE DEF stops
    <3> QED BY <1>2, <2>1, LeastPosition
  <2>3. x \in 0..Len(text)
    <3> HIDE DEF stops
    <3> QED BY <2>1, <2>2
  <2>4. CutBefore(words, text) = SubSeq(text, 1, x)
    BY <1>2 DEF CutBefore
  <2> HIDE DEF x
  <2> QED BY <2>3, <2>4, StartOfText
<1> QED BY <1>1, <1>2

\* A start of the text before its first stop word.
LEMMA StartIsPrefix ==
  ASSUME NEW text \in Seq(Bytes), NEW n \in 0..Len(text)
  PROVE  IsPrefix(SubSeq(text, 1, n), text)
<1>1. SubSeq(text, 1, n) \in Seq(Bytes) /\ Len(SubSeq(text, 1, n)) = n
  BY StartOfText
<1>2. SubSeq(SubSeq(text, 1, n), 1, n) = SubSeq(text, 1, n)
  BY <1>1, SubSeqFull
<1> QED BY <1>1, <1>2 DEF IsPrefix

LEMMA OwnPrefix ==
  ASSUME NEW text \in Seq(Bytes)
  PROVE  IsPrefix(text, text)
BY DEF IsPrefix

LEMMA EmptyPrefix ==
  ASSUME NEW text \in Seq(Bytes)
  PROVE  IsPrefix(<<>>, text)
<1>1. SubSeq(<<>>, 1, 0) = <<>> /\ SubSeq(text, 1, 0) = <<>>
  BY SubSeqEmpty
<1> QED BY <1>1 DEF IsPrefix

-----------------------------------------------------------------------------
(* The induction *)

\* No stop word begins in what was sent, whatever follows it.
SentIsSafe == \A word \in antiprompt, k \in 0..(n_sent_text - 1) : Differs(word, raw, k)

\* What was sent is a beginning of what was sampled, and ends where an output ended.
StreamInv ==
    /\ TextTypeOK
    /\ \A word \in antiprompt \ {<<>>} : Head(word) # "tail"
    /\ phase = "generating" =>
           /\ n_decoded < MaxDecoded /\ generated_text = raw
           /\ stream => /\ received = SubSeq(raw, 1, n_sent_text)
                        /\ n_sent_text = 0 \/ n_sent_text \in breaks
    /\ stream => Len(received) <= Len(raw)
    /\ ~stream => breaks = {} /\ (phase # "done" => received = <<>>)

\* Nothing that was searched holds a stop word.
SearchInv ==
    ~missed =>
        /\ phase = "generating" => NoneStands(antiprompt, raw) /\ SentIsSafe
        /\ IsPrefix(received, Cut(raw))
        /\ ~stream /\ phase = "stopped" => generated_text = Cut(raw)
        /\ ~stream /\ phase = "done" => received = Cut(raw)

\* Outputs ended between characters. The one that a stop word ends does if what was
\* sampled is a text.
WholeInv ==
    <<>> \notin antiprompt /\ (phase = "generating" \/ IsText(raw)) =>
        \A k \in breaks : WholeTo(raw, k)

TextInv == StreamInv /\ SearchInv /\ WholeInv

LEMMA InitTextInv == Init => TextInv
<1> SUFFICES ASSUME Init PROVE TextInv
  OBVIOUS
<1> USE DEF Init
<1>1. <<>> \in Seq(Bytes) /\ Len(<<>>) = 0 /\ MaxDecoded \in Nat
  BY TextAssumption
<1>2. TextTypeOK
  <2>1. n_decoded \in 0..MaxDecoded
    BY <1>1
  <2> QED BY <1>1, <2>1 DEF TextTypeOK
<1>3. StreamInv
  BY <1>1, <1>2 DEF StreamInv
<1>4. SearchInv
  <2>1. Cut(raw) = raw
    BY <1>1, CutNothing, CutIsBefore DEF NoneStands
  <2> QED BY <1>1, <2>1, EmptyPrefix DEF SearchInv
<1>5. WholeInv
  BY DEF WholeInv
<1> QED BY <1>3, <1>4, <1>5 DEF TextInv

\* Launch starts with nothing, whatever the slot had before.
LEMMA LaunchText ==
  ASSUME TextInv, NEW words \in StopSets, NEW streamed \in BOOLEAN, Launch(words, streamed)
  PROVE  TextInv'
<1> USE DEF Launch
<1>1. /\ <<>> \in Seq(Bytes) /\ Len(<<>>) = 0 /\ MaxDecoded \in Nat /\ 0 < MaxDecoded
      /\ \A word \in words \ {<<>>} : Head(word) # "tail"
  BY TextAssumption
<1>2. TextTypeOK'
  <2>1. /\ n_decoded' \in 0..MaxDecoded /\ n_sent_text' \in Nat
        /\ n_sent_text' <= Len(generated_text') /\ breaks' \subseteq 0..Len(received')
    BY <1>1
  <2>2. /\ phase' = "generating" /\ antiprompt' \in StopSets /\ stream' \in BOOLEAN
        /\ generated_text' \in Seq(Bytes) /\ raw' \in Seq(Bytes) /\ received' \in Seq(Bytes)
        /\ missed' \in BOOLEAN
    BY <1>1
  <2> QED BY <2>1, <2>2 DEF TextTypeOK
<1>3. StreamInv'
  <2>1. SubSeq(raw', 1, n_sent_text') = <<>>
    BY SubSeqEmpty
  <2> QED BY <1>1, <1>2, <2>1 DEF StreamInv
<1>4. SearchInv'
  <2>1. NoneStands(antiprompt', raw') /\ SentIsSafe'
    BY DEF NoneStands, SentIsSafe
  <2>2. Cut(raw)' = raw'
    <3>1. CutBefore(antiprompt', raw') = raw'
      BY <1>1, <2>1, CutNothing
    <3> QED BY <3>1 DEF Cut, CutBefore
  <2> QED BY <1>1, <2>1, <2>2, EmptyPrefix DEF SearchInv
<1>5. WholeInv'
  BY DEF WholeInv
<1> QED BY <1>3, <1>4, <1>5 DEF TextInv

LEMMA ReleaseText == ASSUME TextInv, Release PROVE TextInv'
<1> USE DEF Release, requestVars
<1>1. StreamInv'
  BY DEF TextInv, StreamInv, TextTypeOK
<1>2. SearchInv'
  BY DEF TextInv, SearchInv, Cut
<1>3. WholeInv'
  BY DEF TextInv, WholeInv, IsText, WholeTo
<1> QED BY <1>1, <1>2, <1>3 DEF TextInv

\* The final result brings the whole text, or nothing to who had it streamed.
LEMMA SendFinalText == ASSUME TextInv, SendFinal PROVE TextInv'
<1>1. /\ phase = "stopped" /\ phase' = "done" /\ generated_text' = <<>>
      /\ UNCHANGED <<antiprompt, stream, n_sent_text, n_decoded, raw, missed>>
      /\ received' = received \o FinalResult(generated_text).content
      /\ breaks' = breaks
  BY DEF SendFinal, Receive, FinalResult, requestVars
<1>2. /\ TextTypeOK /\ received \in Seq(Bytes) /\ generated_text \in Seq(Bytes)
      /\ raw \in Seq(Bytes) /\ antiprompt \in StopSets \cup {{}} /\ stream \in BOOLEAN
      /\ n_sent_text \in Nat /\ n_decoded \in 0..MaxDecoded /\ breaks \subseteq 0..Len(received)
      /\ missed \in BOOLEAN
  BY DEF TextInv, StreamInv, TextTypeOK
<1>3. CASE stream
  <2>1. received' = received
    <3>1. FinalResult(generated_text).content = <<>>
      BY <1>3 DEF FinalResult
    <3> QED BY <1>1, <1>2, <3>1, ConcatEmptySeq
  <2>2. StreamInv'
    BY <1>1, <1>2, <1>3, <2>1 DEF TextInv, StreamInv, TextTypeOK
  <2>3. SearchInv'
    BY <1>1, <1>3, <2>1 DEF TextInv, SearchInv, Cut
  <2>4. WholeInv'
    BY <1>1 DEF TextInv, WholeInv, IsText, WholeTo
  <2> QED BY <2>2, <2>3, <2>4 DEF TextInv
<1>4. CASE ~stream
  <2>1. received = <<>> /\ breaks = {}
    BY <1>1, <1>4 DEF TextInv, StreamInv
  <2>2. received' = generated_text
    <3>1. FinalResult(generated_text).content = generated_text
      BY <1>4 DEF FinalResult
    <3> QED BY <1>1, <1>2, <2>1, <3>1, ConcatEmptySeq
  <2>3. StreamInv'
    BY <1>1, <1>2, <1>4, <2>1, <2>2 DEF TextInv, StreamInv, TextTypeOK
  <2>4. SearchInv'
    <3>1. ~missed' => generated_text = Cut(raw)
      BY <1>1, <1>4 DEF TextInv, SearchInv
    <3>2. Cut(raw)' = Cut(raw)
      BY <1>1 DEF Cut
    <3>3. generated_text = Cut(raw) => IsPrefix(received', Cut(raw))
      BY <1>2, <2>2, OwnPrefix
    <3> QED BY <1>1, <1>4, <2>2, <3>1, <3>2, <3>3 DEF SearchInv
  <2>5. WholeInv'
    BY <1>1, <2>1 DEF WholeInv
  <2> QED BY <2>3, <2>4, <2>5 DEF TextInv
<1> QED BY <1>2, <1>3, <1>4

-----------------------------------------------------------------------------
(* A token *)

\* What process_token finds before it looks at the token.
LEMMA TokenFound ==
  ASSUME TextInv, phase = "generating", NEW token \in Tokens
  PROVE  /\ generated_text = raw /\ raw \in Seq(Bytes) /\ received \in Seq(Bytes)
         /\ token \in Seq(Bytes) /\ antiprompt \subseteq Seq(Bytes)
         /\ n_sent_text \in 0..Len(raw)
         /\ raw \o token \in Seq(Bytes) /\ Len(raw \o token) = Len(raw) + Len(token)
         /\ Extends(raw \o token, raw)
<1>1. /\ generated_text = raw /\ raw \in Seq(Bytes) /\ n_sent_text \in Nat
      /\ received \in Seq(Bytes)
      /\ n_sent_text <= Len(generated_text) /\ antiprompt \in StopSets \cup {{}}
  BY DEF TextInv, StreamInv, TextTypeOK
<1>2. token \in Seq(Bytes)
  BY TextAssumption
<1>3. antiprompt \subseteq Seq(Bytes)
  BY <1>1, TextAssumption
<1>4. n_sent_text \in 0..Len(raw)
  BY <1>1
<1> QED BY <1>1, <1>2, <1>3, <1>4, TokenExtends

\* Where a stop word stands that was not there before the token, the search finds it:
\* the window goes back as far as a word that the token completes can begin.
LEMMA NewStopIsFound ==
  ASSUME NEW g \in Seq(Bytes), NEW token \in Seq(Bytes), NEW sent \in 0..Len(g),
         NEW text \in Seq(Bytes), text = g \o token, antiprompt \subseteq Seq(Bytes),
         NoneStands(antiprompt, g),
         \A word \in antiprompt, k \in 0..(sent - 1) : Differs(word, g, k),
         NEW word \in antiprompt, NEW k \in 0..Len(text), StandsAt(word, text, k)
  PROVE  /\ sent <= k
         /\ k - sent \in FullStops(SubSeq(text, sent + 1, Len(text)), Len(token))
<1> DEFINE rest == SubSeq(text, sent + 1, Len(text))
<1>1. /\ Len(text) = Len(g) + Len(token) /\ Extends(text, g) /\ word \in Seq(Bytes)
      /\ sent \in 0..Len(text) /\ k \in Nat /\ Len(g) \in Nat /\ Len(token) \in Nat
      /\ Len(word) \in Nat
  BY TokenExtends
<1>2. sent <= k
  <2>1. SUFFICES ASSUME k < sent PROVE FALSE
    BY <1>1
  <2>2. Differs(word, g, k)
    BY <1>1, <2>1
  <2> QED BY <1>1, <2>2, DiffersForGood
<1>3. rest \in Seq(Bytes) /\ Len(rest) = Len(text) - sent
  BY <1>1, RestOfText
<1>4. StandsAt(word, rest, k - sent)
  <2>1. k - sent \in Nat /\ sent + (k - sent) = k
    BY <1>1, <1>2
  <2> QED BY <1>1, <2>1, StandsInRest
<1> HIDE DEF rest
<1>5. k - sent \in 0..Len(rest)
  BY <1>1, <1>2, <1>3
<1>6. k - sent >= SearchFrom(rest, word, Len(token))
  <2>1. CASE k + Len(word) > Len(g)
    BY <1>1, <1>2, <1>3, <2>1 DEF SearchFrom
  <2>2. CASE k + Len(word) <= Len(g)
    <3>1. k \in 0..Len(g)
      BY <1>1, <2>2
    <3>2. StandsAt(word, g, k)
      BY <1>1, <2>2, StoodBefore
    <3>3. g = <<>>
      BY <3>1, <3>2 DEF NoneStands
    <3>4. Len(rest) <= Len(token) /\ Len(rest) \in Nat
      BY <1>1, <1>3, <3>3
    <3>5. SearchFrom(rest, word, Len(token)) = 0
      BY <1>1, <3>4 DEF SearchFrom
    <3> QED BY <1>5, <3>4, <3>5
  <2> QED BY <1>1, <2>1, <2>2
<1> QED BY <1>2, <1>4, <1>5, <1>6 DEF FullStops, rest

\* What the search finds stands in the text.
LEMMA FoundStopStands ==
  ASSUME NEW text \in Seq(Bytes), NEW sent \in 0..Len(text), antiprompt \subseteq Seq(Bytes),
         NEW last, NEW k \in FullStops(SubSeq(text, sent + 1, Len(text)), last)
  PROVE  /\ sent + k \in 0..Len(text)
         /\ \E word \in antiprompt : StandsAt(word, text, sent + k)
<1> DEFINE rest == SubSeq(text, sent + 1, Len(text))
<1>1. Len(rest) = Len(text) - sent
  BY RestOfText
<1>2. k \in 0..Len(rest) /\ \E word \in antiprompt : StandsAt(word, rest, k)
  BY DEF FullStops
<1>3. sent + k \in 0..Len(text) /\ k \in Nat
  <2> HIDE DEF rest
  <2> QED BY <1>1, <1>2
<1> QED BY <1>2, <1>3, StandsInRest

-----------------------------------------------------------------------------
(* What a token sends *)

\* The text up to position c is sent from where the caller has it.
LEMMA TextSent ==
  ASSUME NEW text \in Seq(Bytes), NEW sent \in 0..Len(text), NEW c \in sent..Len(text),
         n_sent_text = sent, stream => received = SubSeq(text, 1, sent),
         SendText(SubSeq(text, 1, c), sent)
  PROVE  /\ generated_text' = SubSeq(text, 1, c) /\ n_sent_text' = c
         /\ stream => received' = SubSeq(text, 1, c) /\ breaks' = breaks \cup {c}
         /\ ~stream => UNCHANGED <<received, breaks>>
<1> DEFINE start == SubSeq(text, 1, c)
<1>1. /\ c \in 0..Len(text) /\ c \in Nat /\ sent \in Nat
      /\ start \in Seq(Bytes) /\ Len(start) = c /\ \A j \in 1..c : start[j] = text[j]
  BY StartOfText
<1> HIDE DEF start
<1>2. /\ SubSeq(start, sent + 1, c) \in Seq(Bytes)
      /\ Len(SubSeq(start, sent + 1, c)) = c - sent
      /\ \A j \in 1..(c - sent) : SubSeq(start, sent + 1, c)[j] = start[sent + j]
  <2>1. \A i \in (sent + 1)..c : start[i] \in Bytes
    BY <1>1
  <2>2. \A j \in 1..(c - sent) : sent + 1 + j - 1 = sent + j
    BY <1>1
  <2> QED BY <1>1, <2>1, <2>2, SubSeqProperties
<1>3. /\ SubSeq(text, sent + 1, c) \in Seq(Bytes)
      /\ Len(SubSeq(text, sent + 1, c)) = c - sent
      /\ \A j \in 1..(c - sent) : SubSeq(text, sent + 1, c)[j] = text[sent + j]
  <2>1. \A i \in (sent + 1)..c : text[i] \in Bytes
    BY <1>1
  <2>2. \A j \in 1..(c - sent) : sent + 1 + j - 1 = sent + j
    BY <1>1
  <2> QED BY <1>1, <2>1, <2>2, SubSeqProperties
<1>4. SubSeq(start, sent + 1, c) = SubSeq(text, sent + 1, c)
  <2>1. \A j \in 1..(c - sent) : SubSeq(start, sent + 1, c)[j] = SubSeq(text, sent + 1, c)[j]
    BY <1>1, <1>2, <1>3
  <2> QED BY <1>2, <1>3, <2>1, SeqEqual
<1>5. generated_text' = start /\ n_sent_text' = c
  BY <1>1 DEF SendText, start
<1>6. ASSUME stream PROVE received' = start /\ breaks' = breaks \cup {c}
  <2>1. /\ received' = received \o SubSeq(start, sent + 1, c)
        /\ breaks' = breaks \cup {Len(received')}
    BY <1>1, <1>6 DEF SendText, Receive, PartialResult, start
  <2>2. received' = start
    BY <1>4, <1>6, <2>1, StartAndRest DEF start
  <2> QED BY <1>1, <2>1, <2>2
<1> QED BY <1>5, <1>6 DEF SendText, start

\* What may become a stop word is held back: an output without text is sent.
LEMMA TextHeldBack ==
  ASSUME NEW text \in Seq(Bytes), n_sent_text \in Nat, received \in Seq(Bytes),
         SendText(text, Len(text))
  PROVE  /\ generated_text' = text /\ n_sent_text' = n_sent_text /\ received' = received
         /\ stream => breaks' = breaks \cup {Len(received)}
         /\ ~stream => breaks' = breaks
<1>1. SubSeq(text, Len(text) + 1, Len(text)) = <<>> /\ received \o <<>> = received
  BY SubSeqEmpty, ConcatEmptySeq
<1>2. n_sent_text' = n_sent_text
  BY DEF SendText
<1> QED BY <1>1, <1>2 DEF SendText, Receive, PartialResult

-----------------------------------------------------------------------------
(* What holds after a token *)

\* The caller of a stream has what was counted as sent.
LEMMA StreamAfterToken ==
  ASSUME TextInv, phase = "generating", NEW token \in Tokens,
         NEW found \in BOOLEAN, NEW limit \in BOOLEAN, NEW eog \in BOOLEAN,
         GoesOn(found, limit, eog), raw' = raw \o token, missed' \in BOOLEAN,
         n_sent_text' \in n_sent_text..Len(raw'), generated_text' \in Seq(Bytes),
         found \/ generated_text' = raw',
         stream => /\ received' = SubSeq(raw', 1, n_sent_text')
                   /\ \/ breaks' = breaks \cup {n_sent_text'}
                      \/ breaks' = breaks /\ n_sent_text' = n_sent_text,
         ~stream => UNCHANGED <<received, breaks>>
  PROVE  StreamInv'
<1>1. /\ generated_text = raw /\ raw \in Seq(Bytes) /\ received \in Seq(Bytes)
      /\ n_sent_text \in 0..Len(raw)
      /\ raw' \in Seq(Bytes) /\ Len(raw') = Len(raw) + Len(token) /\ Len(token) \in Nat
  BY TokenFound
<1>2. /\ antiprompt' = antiprompt /\ stream' = stream /\ n_decoded' = n_decoded + 1
      /\ phase' = IF found \/ limit \/ eog THEN "stopped" ELSE "generating"
      /\ n_decoded' = MaxDecoded => found \/ limit \/ eog
  BY DEF GoesOn, requestVars
<1>3. /\ antiprompt \in StopSets \cup {{}} /\ stream \in BOOLEAN /\ n_decoded \in 0..MaxDecoded
      /\ n_decoded < MaxDecoded /\ breaks \subseteq 0..Len(received) /\ MaxDecoded \in Nat
      /\ \A word \in antiprompt \ {<<>>} : Head(word) # "tail"
  BY TextAssumption DEF TextInv, StreamInv, TextTypeOK
<1>4. n_sent_text' \in 0..Len(raw') /\ n_sent_text' \in Nat
  BY <1>1
<1>5. n_decoded' \in 0..MaxDecoded
  BY <1>2, <1>3
<1>6. phase' = "generating" => n_decoded' < MaxDecoded /\ generated_text' = raw'
  BY <1>2, <1>3
<1>7. CASE stream
  <2>1. received' \in Seq(Bytes) /\ Len(received') = n_sent_text'
    BY <1>1, <1>4, <1>7, StartOfText
  <2>2. /\ Len(received) = n_sent_text
        /\ n_sent_text = 0 \/ n_sent_text \in breaks
    BY <1>1, <1>7, StartOfText DEF TextInv, StreamInv
  <2>3. breaks' \subseteq 0..Len(received')
    <3>1. breaks \subseteq 0..n_sent_text'
      BY <1>1, <1>3, <2>2
    <3>2. n_sent_text' \in 0..n_sent_text'
      BY <1>4
    <3> QED BY <1>7, <2>1, <3>1, <3>2
  <2>4. n_sent_text' = 0 \/ n_sent_text' \in breaks'
    BY <1>7, <2>2
  <2>5. TextTypeOK'
    BY <1>1, <1>2, <1>3, <1>4, <1>5, <1>6, <2>1, <2>3 DEF TextTypeOK
  <2>6. Len(received') <= Len(raw') /\ received' = SubSeq(raw', 1, n_sent_text') /\ stream'
    <3>1. Len(received') <= Len(raw')
      BY <1>1, <1>4, <2>1
    <3>2. stream'
      BY <1>2, <1>7
    <3> QED BY <1>7, <3>1, <3>2
  <2>7. \A word \in antiprompt' \ {<<>>} : Head(word) # "tail"
    BY <1>2, <1>3
  <2> QED BY <1>6, <2>4, <2>5, <2>6, <2>7 DEF StreamInv
<1>8. CASE ~stream
  <2>1. received = <<>> /\ breaks = {}
    BY <1>8 DEF TextInv, StreamInv
  <2>2. TextTypeOK'
    BY <1>1, <1>2, <1>3, <1>4, <1>5, <1>6, <1>8, <2>1 DEF TextTypeOK
  <2> QED BY <1>2, <1>3, <1>6, <1>8, <2>1, <2>2 DEF StreamInv
<1> QED BY <1>7, <1>8

\* Where earlier outputs ended, characters still end.
LEMMA BreaksStay ==
  ASSUME TextInv, phase = "generating", NEW token \in Tokens, <<>> \notin antiprompt
  PROVE  \A k \in breaks : WholeTo(raw \o token, k)
<1>1. /\ raw \in Seq(Bytes) /\ Extends(raw \o token, raw) /\ n_sent_text \in 0..Len(raw)
  BY TokenFound
<1>2. breaks \subseteq 0..Len(raw)
  <2>1. breaks \subseteq 0..Len(received) /\ stream \in BOOLEAN
    BY DEF TextInv, StreamInv, TextTypeOK
  <2>2. stream => Len(received) = n_sent_text
    BY <1>1, StartOfText DEF TextInv, StreamInv
  <2>3. ~stream => breaks = {}
    BY DEF TextInv, StreamInv
  <2> QED BY <1>1, <2>1, <2>2, <2>3
<1>3. ASSUME NEW k \in breaks PROVE WholeTo(raw \o token, k)
  <2>1. \A j \in 1..k : j + Width(raw[j]) - 1 <= k
    BY DEF TextInv, WholeInv, WholeTo
  <2>2. \A j \in 1..k : (raw \o token)[j] = raw[j]
    BY <1>1, <1>2, <1>3 DEF Extends
  <2> QED BY <2>1, <2>2 DEF WholeTo
<1> QED BY <1>3

\* A token after which no stop word stands in the text.
LEMMA SearchAfterToken ==
  ASSUME antiprompt' = antiprompt, stream' = stream, stream \in BOOLEAN, raw' \in Seq(Bytes),
         phase' \in {"generating", "stopped"}, generated_text' = raw',
         n_sent_text' \in 0..Len(raw'),
         stream => received' = SubSeq(raw', 1, n_sent_text'), ~stream => received' = <<>>,
         ~missed' => NoneStands(antiprompt, raw') /\ SentIsSafe'
  PROVE  SearchInv'
<1> SUFFICES ASSUME ~missed' PROVE SearchInv'
  BY DEF SearchInv
<1>1. CutBefore(antiprompt, raw') = raw'
  BY CutNothing
<1>2. Cut(raw)' = raw'
  BY <1>1 DEF Cut, CutBefore
<1>3. IsPrefix(received', raw')
  BY StartIsPrefix, EmptyPrefix
<1> QED BY <1>2, <1>3 DEF SearchInv

\* A text that ends within a character waits; what it may have missed is remembered.
LEMMA IncompleteText ==
  ASSUME TextInv, NEW token \in Tokens, NEW limit \in BOOLEAN, NEW eog \in BOOLEAN,
         ProcessIncomplete(token, limit, eog)
  PROVE  TextInv'
<1> DEFINE text == raw \o token
<1>1. phase = "generating"
  BY DEF ProcessIncomplete
<1>2. /\ generated_text = raw /\ raw \in Seq(Bytes) /\ received \in Seq(Bytes)
      /\ token \in Seq(Bytes) /\ antiprompt \subseteq Seq(Bytes) /\ n_sent_text \in 0..Len(raw)
      /\ text \in Seq(Bytes) /\ Len(text) = Len(raw) + Len(token) /\ Extends(text, raw)
      /\ Len(token) \in Nat
  BY <1>1, TokenFound
<1>3. /\ generated_text' = text /\ raw' = text /\ UNCHANGED <<n_sent_text, received, breaks>>
      /\ missed' = (missed \/ \E word \in antiprompt, k \in 0..Len(text) :
                       StandsAt(word, text, k) /\ k + Len(word) > Len(raw))
      /\ GoesOn(FALSE, limit, eog)
  BY <1>2 DEF ProcessIncomplete
<1>4. /\ antiprompt' = antiprompt /\ stream' = stream /\ stream \in BOOLEAN
      /\ phase' \in {"generating", "stopped"} /\ missed \in BOOLEAN
  BY <1>3 DEF GoesOn, requestVars, TextInv, StreamInv, TextTypeOK
<1> HIDE DEF text
<1>5. n_sent_text' \in 0..Len(text) /\ n_sent_text' \in n_sent_text..Len(raw')
  BY <1>2, <1>3
<1>6. /\ stream => received' = SubSeq(raw', 1, n_sent_text')
      /\ ~stream => received' = <<>>
  <2>1. stream => received = SubSeq(raw, 1, n_sent_text)
    BY <1>1 DEF TextInv, StreamInv
  <2>2. SubSeq(text, 1, n_sent_text) = SubSeq(raw, 1, n_sent_text)
    BY <1>2, StartStays
  <2>3. ~stream => received = <<>>
    BY <1>1 DEF TextInv, StreamInv
  <2> QED BY <1>3, <2>1, <2>2, <2>3
<1>7. StreamInv'
  <2>1. raw' = raw \o token /\ missed' \in BOOLEAN /\ generated_text' \in Seq(Bytes)
        /\ generated_text' = raw' /\ FALSE \in BOOLEAN
    BY <1>2, <1>3, <1>4 DEF text
  <2> QED BY <1>1, <1>3, <1>5, <1>6, <2>1, StreamAfterToken
<1>8. ASSUME ~missed' PROVE NoneStands(antiprompt, raw') /\ SentIsSafe'
  <2>1. ~missed /\ \A word \in antiprompt, k \in 0..Len(text) :
                      StandsAt(word, text, k) => ~(k + Len(word) > Len(raw))
    BY <1>3, <1>8
  <2>2. NoneStands(antiprompt, raw) /\ SentIsSafe
    BY <1>1, <2>1 DEF TextInv, SearchInv
  <2>3. ASSUME text # <<>>, NEW word \in antiprompt, NEW k \in 0..Len(text), StandsAt(word, text, k)
        PROVE  FALSE
    <3>1. /\ word \in Seq(Bytes) /\ Len(word) \in Nat /\ k \in Nat /\ Len(raw) \in Nat
          /\ k + Len(word) <= Len(raw)
      BY <1>2, <2>1, <2>3
    <3>2. k \in 0..Len(raw)
      BY <3>1
    <3>3. StandsAt(word, raw, k)
      BY <1>2, <2>3, <3>1, StoodBefore
    <3>4. raw = <<>>
      BY <2>2, <3>2, <3>3 DEF NoneStands
    <3>5. Len(raw) = 0 /\ Len(text) \in Nat /\ Len(text) # 0
      BY <1>2, <2>3, <3>4
    <3>6. /\ Len(word) = 0 /\ Len(text) + Len(word) <= Len(text) /\ 1..Len(word) = {}
          /\ Len(text) + Len(word) > Len(raw) /\ Len(text) \in 0..Len(text)
      BY <3>1, <3>5
    <3>7. StandsAt(word, text, Len(text))
      BY <1>2, <3>1, <3>5, <3>6, StandsByBytes
    <3> QED BY <2>1, <3>6, <3>7
  <2>4. ASSUME NEW word \in antiprompt, NEW k \in 0..(n_sent_text - 1) PROVE Differs(word, text, k)
    <3>1. Differs(word, raw, k) /\ k \in Nat /\ word \in Seq(Bytes)
      BY <1>2, <2>2 DEF SentIsSafe
    <3> QED BY <1>2, <3>1, DiffersForGood
  <2>5. SentIsSafe'
    BY <1>3, <1>4, <2>4 DEF SentIsSafe
  <2>6. NoneStands(antiprompt, text)
    BY <2>3 DEF NoneStands
  <2> QED BY <1>3, <2>5, <2>6
<1>9. SearchInv'
  <2>1. raw' \in Seq(Bytes) /\ generated_text' = raw' /\ n_sent_text' \in 0..Len(raw')
    BY <1>2, <1>3, <1>5
  <2> QED BY <1>4, <1>6, <1>8, <2>1, SearchAfterToken
<1>10. WholeInv'
  <2>1. <<>> \notin antiprompt => \A k \in breaks : WholeTo(raw \o token, k)
    BY <1>1, BreaksStay
  <2> QED BY <1>3, <1>4, <2>1 DEF WholeInv, WholeTo, text
<1> QED BY <1>7, <1>9, <1>10 DEF TextInv

\* A text that can be searched is cut off at the first stop word, or sent up to what may
\* become one.
LEMMA SearchedText ==
  ASSUME TextInv, NEW token \in Tokens, NEW limit \in BOOLEAN, NEW eog \in BOOLEAN,
         ProcessToken(token, limit, eog)
  PROVE  TextInv'
<1> DEFINE text  == raw \o token
           rest  == SubSeq(text, n_sent_text + 1, Len(text))
           stops == FullStops(rest, Len(token))
<1>1. phase = "generating"
  BY DEF ProcessToken
<1>2. /\ generated_text = raw /\ raw \in Seq(Bytes) /\ received \in Seq(Bytes)
      /\ token \in Seq(Bytes) /\ antiprompt \subseteq Seq(Bytes) /\ n_sent_text \in 0..Len(raw)
      /\ text \in Seq(Bytes) /\ Len(text) = Len(raw) + Len(token) /\ Extends(text, raw)
      /\ Len(token) \in Nat
  BY <1>1, TokenFound
<1>3. Min2(n_sent_text, Len(text)) = n_sent_text /\ n_sent_text \in 0..Len(text)
  <2> HIDE DEF text
  <2> QED BY <1>2 DEF Min2
<1>4. /\ ValidateUtf8(text) = Len(text) /\ raw' = text /\ missed' = missed
      /\ GoesOn(stops # {}, limit, eog)
      /\ \/ \E k \in stops : /\ \A j \in stops : k <= j
                             /\ SendText(SubSeq(text, 1, n_sent_text + k), n_sent_text)
         \/ stops = {} /\ ~PartialStop(rest) /\ SendText(text, n_sent_text)
         \/ stops = {} /\ PartialStop(rest) /\ SendText(text, Len(text))
  BY <1>2, <1>3 DEF ProcessToken
<1>5. /\ antiprompt' = antiprompt /\ stream' = stream /\ stream \in BOOLEAN
      /\ phase' = IF stops # {} \/ limit \/ eog THEN "stopped" ELSE "generating"
      /\ missed \in BOOLEAN /\ (stops # {}) \in BOOLEAN
  BY <1>4 DEF GoesOn, requestVars, TextInv, StreamInv, TextTypeOK
<1>6. /\ stream => received = SubSeq(text, 1, n_sent_text)
      /\ ~stream => received = <<>>
  <2>1. stream => received = SubSeq(raw, 1, n_sent_text)
    BY <1>1 DEF TextInv, StreamInv
  <2>2. SubSeq(text, 1, n_sent_text) = SubSeq(raw, 1, n_sent_text)
    <3> HIDE DEF text
    <3> QED BY <1>2, StartStays
  <2>3. ~stream => received = <<>>
    BY <1>1 DEF TextInv, StreamInv
  <2> QED BY <2>1, <2>2, <2>3
<1>7. <<>> \notin antiprompt => \A k \in breaks : WholeTo(text, k)
  BY <1>1, BreaksStay
<1>8. ~missed => /\ NoneStands(antiprompt, raw)
                 /\ \A word \in antiprompt, k \in 0..(n_sent_text - 1) : Differs(word, raw, k)
  BY <1>1 DEF TextInv, SearchInv, SentIsSafe
\* Stop words that stand in the text are found, and what is found stands in it.
<1>9. ASSUME ~missed, NEW word \in antiprompt, NEW k \in 0..Len(text), StandsAt(word, text, k)
      PROVE  n_sent_text <= k /\ k - n_sent_text \in stops
  BY <1>2, <1>8, <1>9, NewStopIsFound
<1>10. ASSUME NEW k \in stops
       PROVE  /\ n_sent_text + k \in 0..Len(text) /\ k \in Nat
              /\ \E word \in antiprompt : StandsAt(word, text, n_sent_text + k)
  <2>1. k \in Nat
    BY DEF FullStops
  <2> QED BY <1>2, <1>3, <2>1, FoundStopStands
<1>11. raw' = raw \o token /\ missed' \in BOOLEAN
  BY <1>4, <1>5
<1>12. ASSUME NEW k \in stops, \A j \in stops : k <= j,
              SendText(SubSeq(text, 1, n_sent_text + k), n_sent_text)
       PROVE  TextInv'
  <2> DEFINE c == n_sent_text + k
  <2>1. c \in 0..Len(text) /\ c \in n_sent_text..Len(text)
    BY <1>2, <1>10, <1>12
  <2> HIDE DEF text, rest, stops, c
  <2>2. /\ generated_text' = SubSeq(text, 1, c) /\ n_sent_text' = c
        /\ stream => received' = SubSeq(text, 1, c) /\ breaks' = breaks \cup {c}
        /\ ~stream => UNCHANGED <<received, breaks>>
    BY <1>2, <1>3, <1>6, <1>12, <2>1, TextSent DEF c
  <2>3. stops # {} /\ phase' = "stopped" /\ generated_text' \in Seq(Bytes)
    BY <1>2, <1>5, <1>12, <2>1, <2>2, StartOfText
  <2>4. StreamInv'
    BY <1>1, <1>4, <1>5, <1>11, <2>1, <2>2, <2>3, StreamAfterToken
  <2>5. ASSUME ~missed' PROVE CutBefore(antiprompt, text) = SubSeq(text, 1, c)
    <3>1. \E word \in antiprompt : StandsAt(word, text, c)
      BY <1>10, <1>12 DEF c
    <3>2. ASSUME NEW word \in antiprompt, NEW i \in 0..Len(text), StandsAt(word, text, i)
          PROVE  c <= i
      <4>1. n_sent_text <= i /\ i - n_sent_text \in stops
        BY <1>4, <1>9, <2>5, <3>2
      <4>2. k <= i - n_sent_text
        BY <1>12, <4>1
      <4> QED BY <1>2, <1>10, <1>12, <4>2 DEF c
    <3> QED BY <1>2, <2>1, <3>1, <3>2, CutAtFirst
  <2>6. SearchInv'
    <3>1. Cut(raw)' = CutBefore(antiprompt, text)
      BY <1>4, <1>5 DEF Cut, CutBefore
    <3>2. SubSeq(text, 1, c) \in Seq(Bytes)
      BY <1>2, <2>1, StartOfText
    <3>3. IsPrefix(SubSeq(text, 1, c), SubSeq(text, 1, c)) /\ IsPrefix(<<>>, SubSeq(text, 1, c))
      BY <3>2, OwnPrefix, EmptyPrefix
    <3> QED BY <1>5, <1>6, <2>2, <2>3, <2>5, <3>1, <3>3 DEF SearchInv
  <2>7. ASSUME <<>> \notin antiprompt, IsText(text) PROVE WholeTo(text, c)
    <3>1. PICK word \in antiprompt : StandsAt(word, text, c)
      BY <1>10, <1>12 DEF c
    <3>2. /\ word \in Seq(Bytes) /\ word # <<>> /\ Len(word) \in Nat \ {0} /\ c \in Nat
          /\ 1 \in 1..Len(word) /\ Head(word) = word[1]
      <4>1. word \in Seq(Bytes) /\ word # <<>>
        BY <1>2, <2>7
      <4>2. c \in Nat
        BY <2>1
      <4> QED BY <4>1, <4>2
    <3>3. c + Len(word) <= Len(text) /\ text[c + 1] # "tail"
      <4>1. Head(word) # "tail"
        BY <3>2 DEF TextInv, StreamInv
      <4>2. /\ c + Len(word) <= Len(text)
            /\ \A j \in 1..Len(word) : text[c + j] = word[j]
        BY <1>2, <3>1, <3>2, StandsByBytes
      <4> QED BY <3>2, <4>1, <4>2
    <3>4. c + 1 \in 1..Len(text) /\ c + 1 - 1 = c
      BY <1>2, <3>2, <3>3
    <3>5. \A i \in 1..c : i + Width(text[i]) - 1 < c + 1
      <4>1. PICK d \in 1..Len(text) : d = c + 1
        BY <3>4
      <4>2. text[d] # "tail"
        BY <3>3, <4>1
      <4>3. \A i \in 1..(d - 1) : i + Width(text[i]) - 1 < d
        BY <2>7, <4>2 DEF IsText
      <4>4. d - 1 = c
        BY <3>2, <4>1
      <4> QED BY <4>1, <4>3, <4>4
    <3>6. \A i \in 1..c : Width(text[i]) \in Int
      BY DEF Width
    <3> QED BY <3>2, <3>5, <3>6 DEF WholeTo
  <2>8. WholeInv'
    <3>1. ASSUME <<>> \notin antiprompt, IsText(text), NEW i \in breaks'
          PROVE  WholeTo(text, i)
      BY <1>7, <2>2, <2>7, <3>1
    <3> QED BY <1>4, <1>5, <2>3, <3>1 DEF WholeInv, IsText, WholeTo
  <2> QED BY <2>4, <2>6, <2>8 DEF TextInv
\* Otherwise none stands there.
<1>13. ASSUME stops = {}, ~missed
       PROVE  \A word \in antiprompt, k \in 0..Len(text) : ~StandsAt(word, text, k)
  BY <1>9, <1>13
<1>14. ASSUME stops = {}, ~PartialStop(rest), SendText(text, n_sent_text)
       PROVE  TextInv'
  <2> HIDE DEF text, rest, stops
  <2>1. SubSeq(text, 1, Len(text)) = text /\ Len(text) \in n_sent_text..Len(text)
        /\ Len(text) \in Nat
    BY <1>2, <1>3, SubSeqFull
  <2>2. /\ generated_text' = text /\ n_sent_text' = Len(text)
        /\ stream => received' = text /\ breaks' = breaks \cup {Len(text)}
        /\ ~stream => UNCHANGED <<received, breaks>>
    BY <1>2, <1>3, <1>6, <1>14, <2>1, TextSent
  <2>3. StreamInv'
    BY <1>1, <1>2, <1>4, <1>5, <1>11, <2>1, <2>2, StreamAfterToken
  <2>4. ASSUME ~missed, NEW word \in antiprompt, NEW k \in 0..(Len(text) - 1)
        PROVE  Differs(word, text, k)
    <3>1. /\ word \in Seq(Bytes) /\ k \in Nat /\ Len(word) \in Nat /\ Len(text) \in Nat
          /\ n_sent_text \in Nat /\ k < Len(text) /\ k \in 0..Len(text)
      BY <1>2, <1>3, <2>4
    <3>2. CASE k < n_sent_text
      BY <1>2, <1>8, <2>4, <3>1, <3>2, DiffersForGood
    <3>3. CASE n_sent_text <= k
      <4>1. SUFFICES ASSUME ~Differs(word, text, k) PROVE FALSE
        OBVIOUS
      <4>2. \A j \in 1..Len(word) : k + j <= Len(text) => text[k + j] = word[j]
        BY <4>1 DEF Differs
      <4>3. ~(k + Len(word) <= Len(text))
        <5>1. ~StandsAt(word, text, k)
          BY <1>13, <1>14, <2>4, <3>1
        <5>2. ASSUME k + Len(word) <= Len(text), NEW j \in 1..Len(word)
              PROVE  text[k + j] = word[j]
          BY <3>1, <4>2, <5>2
        <5> QED BY <1>2, <3>1, <5>1, <5>2, StandsByBytes
      <4> DEFINE n == Len(text) - k
      <4>4. /\ rest \in Seq(Bytes) /\ Len(rest) = Len(text) - n_sent_text
            /\ \A j \in 1..Len(rest) : rest[j] = text[n_sent_text + j]
        BY <1>2, <1>3, RestOfText DEF rest
      <4>5. n \in 1..Len(word) /\ n <= Len(rest)
        BY <3>1, <3>3, <4>3, <4>4
      <4>6. ASSUME NEW j \in 1..n PROVE rest[Len(rest) - n + j] = word[j]
        <5>1. /\ Len(rest) - n + j \in 1..Len(rest) /\ n_sent_text + (Len(rest) - n + j) = k + j
              /\ k + j <= Len(text) /\ j \in 1..Len(word)
          BY <3>1, <3>3, <4>3, <4>4
        <5> QED BY <4>2, <4>4, <5>1
      <4> HIDE DEF n
      <4> QED BY <1>14, <3>1, <4>4, <4>5, <4>6, PartialStopIsFound
    <3> QED BY <3>1, <3>2, <3>3
  <2>5. SearchInv'
    <3>1. ~missed' => NoneStands(antiprompt, raw') /\ SentIsSafe'
      BY <1>4, <1>5, <1>13, <1>14, <2>2, <2>4 DEF NoneStands, SentIsSafe
    <3>2. /\ phase' \in {"generating", "stopped"} /\ raw' \in Seq(Bytes) /\ generated_text' = raw'
          /\ n_sent_text' \in 0..Len(raw')
          /\ stream => received' = SubSeq(raw', 1, n_sent_text')
          /\ ~stream => received' = <<>>
      BY <1>2, <1>4, <1>5, <1>6, <2>1, <2>2
    <3> QED BY <1>5, <3>1, <3>2, SearchAfterToken
  <2>6. WholeInv'
    <3>1. WholeTo(text, Len(text))
      BY <1>2, <1>4, ValidIsWhole
    <3>2. <<>> \notin antiprompt => \A i \in breaks' : WholeTo(text, i)
      BY <1>5, <1>7, <2>2, <3>1
    <3> QED BY <1>4, <1>5, <3>2 DEF WholeInv, WholeTo
  <2> QED BY <2>3, <2>5, <2>6 DEF TextInv
<1>15. ASSUME stops = {}, SendText(text, Len(text))
       PROVE  TextInv'
  <2> HIDE DEF text, rest, stops
  <2>1. /\ generated_text' = text /\ n_sent_text' = n_sent_text /\ received' = received
        /\ stream => breaks' = breaks \cup {Len(received)}
        /\ ~stream => breaks' = breaks
    <3>1. n_sent_text \in Nat /\ received \in Seq(Bytes) /\ text \in Seq(Bytes)
      BY <1>2
    <3> QED BY <1>15, <3>1, TextHeldBack
  <2>2. stream => Len(received) = n_sent_text /\ (n_sent_text = 0 \/ n_sent_text \in breaks)
    <3>1. stream => Len(received) = n_sent_text
      BY <1>2, <1>3, <1>6, StartOfText
    <3> QED BY <1>1, <3>1 DEF TextInv, StreamInv
  <2>3. /\ n_sent_text' \in n_sent_text..Len(raw') /\ generated_text' \in Seq(Bytes)
        /\ generated_text' = raw'
        /\ stream => /\ received' = SubSeq(raw', 1, n_sent_text')
                     /\ breaks' = breaks \cup {n_sent_text'}
        /\ ~stream => UNCHANGED <<received, breaks>>
    BY <1>2, <1>3, <1>4, <1>6, <2>1, <2>2
  <2>4. StreamInv'
    BY <1>1, <1>4, <1>5, <1>11, <2>3, StreamAfterToken
  <2>5. ASSUME ~missed, NEW word \in antiprompt, NEW k \in 0..(n_sent_text - 1)
        PROVE  Differs(word, text, k)
    <3>1. Differs(word, raw, k) /\ k \in Nat /\ word \in Seq(Bytes)
      BY <1>2, <1>8, <2>5
    <3> QED BY <1>2, <3>1, DiffersForGood
  <2>6. SearchInv'
    <3>1. ~missed' => NoneStands(antiprompt, raw') /\ SentIsSafe'
      BY <1>4, <1>5, <1>13, <1>15, <2>1, <2>5 DEF NoneStands, SentIsSafe
    <3>2. /\ phase' \in {"generating", "stopped"} /\ raw' \in Seq(Bytes)
          /\ n_sent_text' \in 0..Len(raw')
          /\ ~stream => received' = <<>>
      BY <1>2, <1>3, <1>4, <1>5, <1>6, <2>1
    <3> QED BY <1>5, <2>3, <3>1, <3>2, SearchAfterToken
  <2>7. WholeInv'
    <3>1. WholeTo(text, 0)
      BY DEF WholeTo
    <3>2. <<>> \notin antiprompt => \A i \in breaks' : WholeTo(text, i)
      BY <1>5, <1>7, <2>1, <2>2, <3>1
    <3> QED BY <1>4, <1>5, <3>2 DEF WholeInv, WholeTo
  <2> QED BY <2>4, <2>6, <2>7 DEF TextInv
<1> HIDE DEF text, rest, stops
<1> QED BY <1>4, <1>12, <1>14, <1>15

LEMMA NextTextInv == TextInv /\ [Next]_textVars => TextInv'
<1> SUFFICES ASSUME TextInv, [Next]_textVars PROVE TextInv'
  OBVIOUS
<1>1. CASE UNCHANGED textVars
  <2>1. UNCHANGED <<phase, antiprompt, stream, generated_text, n_sent_text, n_decoded, raw,
                    received, breaks, missed>>
    BY <1>1 DEF textVars, requestVars
  <2>2. StreamInv'
    BY <2>1 DEF TextInv, StreamInv, TextTypeOK
  <2>3. SearchInv'
    BY <2>1 DEF TextInv, SearchInv, SentIsSafe, Cut
  <2>4. WholeInv'
    BY <2>1 DEF TextInv, WholeInv
  <2> QED BY <2>2, <2>3, <2>4 DEF TextInv
<1>2. ASSUME NEW words \in StopSets, NEW streamed \in BOOLEAN, Launch(words, streamed)
      PROVE  TextInv'
  BY <1>2, LaunchText
<1>3. CASE Release
  BY <1>3, ReleaseText
<1>4. ASSUME NEW token \in Tokens, NEW limit \in BOOLEAN, NEW eog \in BOOLEAN,
             ProcessIncomplete(token, limit, eog) \/ ProcessToken(token, limit, eog)
      PROVE  TextInv'
  BY <1>4, IncompleteText, SearchedText
<1>5. CASE SendFinal
  BY <1>5, SendFinalText
<1> QED BY <1>1, <1>2, <1>3, <1>4, <1>5 DEF Next

LEMMA TextInvHolds == Spec => []TextInv
BY InitTextInv, NextTextInv, PTL DEF Spec

-----------------------------------------------------------------------------
(* The theorems *)

\* The variables of the stream keep their types; what is counted as sent is within the
\* text while the generation goes on.
THEOREM TextTypeCorrect == Spec => []TextTypeOK
<1>1. TextInv => TextTypeOK
  BY DEF TextInv, StreamInv
<1> QED BY <1>1, TextInvHolds, PTL

\* Nothing is streamed from the first stop word on, in whatever pieces it was sampled, and
\* a caller who does not stream gets all of the text before it.
THEOREM NothingBehindStopWords == Spec => []StopsBeforeStopWord
<1>1. TextInv => StopsBeforeStopWord
  BY DEF TextInv, SearchInv, StopsBeforeStopWord
<1> QED BY <1>1, TextInvHolds, PTL

\* Every streamed output ends where a character ends.
THEOREM OutputsEndWithCharacters == Spec => []OutputsAreWhole
<1>1. TextInv => OutputsAreWhole
  BY DEF TextInv, WholeInv, WholeTo, OutputsAreWhole
<1> QED BY <1>1, TextInvHolds, PTL
=============================================================================
