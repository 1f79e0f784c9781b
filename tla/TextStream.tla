----------------------------- MODULE TextStream -----------------------------
(***************************************************************************)
(* The text of a completion on its way from the sampled tokens of a slot   *)
(* to the outputs of its caller: server_context::process_token with its    *)
(* search for stop words and cut-off characters, send_partial_response,    *)
(* send_final_response and what receiveCompletion takes from them.         *)
(*                                                                         *)
(* A text is a sequence of bytes, a token the bytes of its piece. Only     *)
(* what process_token tells apart is kept of a byte: the ones that lead a  *)
(* character, and the letters of stop words. Positions count from 0, as in *)
(* the code: position k of a text follows its first k bytes. Which test    *)
(* stopped a generation (slot.stop) is reported and not read; the limits   *)
(* by time and by indentation cannot be set through InferenceParameters.   *)
(* A stop word may be empty: params_from_json_cmpl asks a JSON string      *)
(* whether it is empty(), and none ever is.                                *)
(***************************************************************************)
EXTENDS Integers, Sequences, SequencesExt

CONSTANTS
    Tokens,         \* the pieces the model may sample
    StopSets,       \* the sets of stop words a request may come with
    MaxDecoded      \* bound: tokens of a generation

Bytes == {"a", "b", "lead2", "lead3", "lead4", "tail"}

\* Stop words come from Java strings, so none begins within a character.
ASSUME TextAssumption ==
    /\ Tokens \subseteq Seq(Bytes)
    /\ StopSets \subseteq SUBSET Seq(Bytes)
    /\ \A words \in StopSets : \A word \in words \ {<<>>} : Head(word) # "tail"
    /\ MaxDecoded \in Nat \ {0}

VARIABLES
    phase,              \* idle, generating, stopped, done
    antiprompt,         \* params.antiprompt: the stop words
    stream,             \* params.stream
    generated_text,     \* the text of the slot
    n_sent_text,        \* how much of it went out
    n_decoded,          \* tokens of this generation
    raw,                \* all that was sampled for the request
    received,           \* all that its caller was given
    breaks,             \* how much that was, after each streamed output
    missed              \* a token that completed a stop word began a character

requestVars == <<antiprompt, stream>>
textVars == <<phase, requestVars, generated_text, n_sent_text, n_decoded, raw,
              received, breaks, missed>>

Min2(m, n) == IF m < n THEN m ELSE n

-----------------------------------------------------------------------------
(* The two searches *)

\* How many bytes the character takes that a byte leads.
Width(byte) == CASE byte = "lead2" -> 2
                 [] byte = "lead3" -> 3
                 [] byte = "lead4" -> 4
                 [] OTHER -> 1

\* Mutant: the lead of a character is looked for in the last two bytes.
ValidateShort(text) ==
    LET cut == {i \in 1..Min2(2, Len(text)) : i < Width(text[Len(text) - i + 1])}
    IN  IF cut = {} THEN Len(text)
        ELSE Len(text) - (CHOOSE i \in cut : \A j \in cut : i <= j)

\* The position before the last character if it is cut off, found from its
\* lead among the last four bytes, or the length of the text.
ValidateUtf8(text) ==
    LET cut == {i \in 1..Min2(4, Len(text)) : i < Width(text[Len(text) - i + 1])}
    IN  IF cut = {} THEN Len(text)
        ELSE Len(text) - (CHOOSE i \in cut : \A j \in cut : i <= j)

\* The word stands in the text at position k.
StandsAt(word, text, k) ==
    /\ k + Len(word) <= Len(text)
    /\ SubSeq(text, k + 1, k + Len(word)) = word

\* Mutant: the search begins with the last token.
SearchFromToken(text, word, last) == IF Len(text) > last THEN Len(text) - last ELSE 0

\* Where the search for a word begins that the last token, of so many bytes,
\* may have completed.
SearchFrom(text, word, last) ==
    LET tmp == Len(word) + last
    IN  IF Len(text) > tmp THEN Len(text) - tmp ELSE 0

\* find_stopping_strings with is_full_stop: where stop words stand. The first
\* position of all is the one returned.
FullStops(text, last) ==
    {k \in 0..Len(text) : \E word \in antiprompt :
        k >= SearchFrom(text, word, last) /\ StandsAt(word, text, k)}

\* find_stopping_strings without is_full_stop: the text ends in the beginning
\* of a stop word, or in all of it.
PartialStop(text) ==
    \E word \in antiprompt : \E n \in 1..Len(word) :
        IsSuffix(SubSeq(word, 1, n), text)

TextTypeOK ==
    /\ phase \in {"idle", "generating", "stopped", "done"}
    /\ antiprompt \in StopSets \cup {{}} /\ stream \in BOOLEAN
    /\ {generated_text, raw, received} \subseteq Seq(Bytes)
    /\ n_sent_text \in Nat /\ n_decoded \in 0..MaxDecoded
    /\ phase = "generating" => n_sent_text <= Len(generated_text)
    /\ breaks \subseteq 0..Len(received) /\ missed \in BOOLEAN

-----------------------------------------------------------------------------
(* The life of a generation *)

Init ==
    /\ phase = "idle"
    /\ antiprompt = {} /\ stream = FALSE
    /\ generated_text = <<>> /\ n_sent_text = 0 /\ n_decoded = 0
    /\ raw = <<>> /\ received = <<>> /\ breaks = {} /\ missed = FALSE

\* Mutant: n_sent_text is kept from the request before.
LaunchKeepsSent(words, streamed) ==
    /\ phase \in {"idle", "done"}
    /\ phase' = "generating"
    /\ antiprompt' = words /\ stream' = streamed
    /\ generated_text' = <<>> /\ n_decoded' = 0
    /\ raw' = <<>> /\ received' = <<>> /\ breaks' = {} /\ missed' = FALSE
    /\ UNCHANGED n_sent_text

\* The slot is reset for the next request, and its prompt processed.
Launch(words, streamed) ==
    /\ phase \in {"idle", "done"}
    /\ phase' = "generating"
    /\ antiprompt' = words /\ stream' = streamed
    /\ generated_text' = <<>> /\ n_sent_text' = 0 /\ n_decoded' = 0
    /\ raw' = <<>> /\ received' = <<>> /\ breaks' = {} /\ missed' = FALSE

\* A cancel or a failed decode: the slot is idle and nothing of it is reset.
Release ==
    /\ phase = "generating"
    /\ phase' = "idle"
    /\ UNCHANGED <<requestVars, generated_text, n_sent_text, n_decoded, raw,
                   received, breaks, missed>>

\* The generation goes on unless a stop word was found, the budget or the
\* context is used up (limit) or the token was the end of generation.
GoesOn(found, limit, eog) ==
    /\ n_decoded' = n_decoded + 1
    /\ n_decoded' = MaxDecoded => found \/ limit \/ eog
    /\ phase' = IF found \/ limit \/ eog THEN "stopped" ELSE "generating"
    /\ UNCHANGED requestVars

\* What receiveCompletion reads of a result: its content, and whether it is the last.
PartialResult(content) == [content |-> content, stop |-> FALSE]

\* "in stream mode, content is already in last partial chunk".
FinalResult(content) == [content |-> IF stream THEN <<>> ELSE content, stop |-> TRUE]

Receive(result) ==
    /\ received' = received \o result.content
    /\ breaks' = IF result.stop THEN breaks ELSE breaks \cup {Len(received')}

\* The text is sent from position pos on, and counted whether or not the
\* caller gets to see it. Nothing, too, is an output.
SendText(text, pos) ==
    /\ generated_text' = text
    /\ n_sent_text' = n_sent_text + Len(text) - pos
    /\ IF stream THEN Receive(PartialResult(SubSeq(text, pos + 1, Len(text))))
       ELSE UNCHANGED <<received, breaks>>

\* A text that ends within a character waits for the rest of it, and is not
\* searched. The next search begins behind a stop word that this token completes.
ProcessIncomplete(token, limit, eog) ==
    LET text == generated_text \o token
    IN  /\ phase = "generating"
        /\ ValidateUtf8(text) < Len(text)
        /\ generated_text' = text
        /\ raw' = raw \o token
        /\ missed' = (missed \/ \E word \in antiprompt, k \in 0..Len(text) :
                        StandsAt(word, text, k) /\ k + Len(word) > Len(generated_text))
        /\ GoesOn(FALSE, limit, eog)
        /\ UNCHANGED <<n_sent_text, received, breaks>>

\* Any other text is searched where it was not sent yet: a stop word is cut
\* off with what follows it, and what may become one is held back.
ProcessToken(token, limit, eog) ==
    LET text  == generated_text \o token
        pos   == Min2(n_sent_text, Len(text))
        test  == SubSeq(text, pos + 1, Len(text))
        stops == FullStops(test, Len(token))
    IN  /\ phase = "generating"
        /\ ValidateUtf8(text) = Len(text)
        /\ raw' = raw \o token /\ UNCHANGED missed
        /\ GoesOn(stops # {}, limit, eog)
        /\ \/ \E k \in stops :
                /\ \A j \in stops : k <= j
                /\ SendText(SubSeq(text, 1, pos + k), pos)
           \/ stops = {} /\ ~PartialStop(test) /\ SendText(text, pos)
           \/ stops = {} /\ PartialStop(test) /\ SendText(text, Len(text))

\* The text moves into the final result, and the text of the slot is gone.
SendFinal ==
    /\ phase = "stopped"
    /\ phase' = "done"
    /\ Receive(FinalResult(generated_text))
    /\ generated_text' = <<>>
    /\ UNCHANGED <<requestVars, n_sent_text, n_decoded, raw, missed>>

Next ==
    \/ \E words \in StopSets, streamed \in BOOLEAN : Launch(words, streamed)
    \/ Release
    \/ \E token \in Tokens, limit, eog \in BOOLEAN :
          /\ eog => token = <<>>
          /\ ProcessIncomplete(token, limit, eog) \/ ProcessToken(token, limit, eog)
    \/ SendFinal

Spec == Init /\ [][Next]_textVars

-----------------------------------------------------------------------------
(* What the caller may rely on *)

\* The text before the first stop word in it, or all of it: what a search of
\* the whole text for every word would leave.
Cut(text) ==
    LET stops == {k \in 0..Len(text) :
                    \E word \in antiprompt : StandsAt(word, text, k)}
    IN  IF stops = {} THEN text
        ELSE SubSeq(text, 1, CHOOSE k \in stops : \A j \in stops : k <= j)

\* However the pieces cut stop words up, the window of find_stopping_strings and
\* the holding back of process_token let nothing out that a stop word turns
\* out to begin in, nothing twice and nothing out of order; and a caller who
\* does not stream gets all of the rest. (Except for a stop word that a token
\* completes which begins a character: process_token does not search there.)
StopsBeforeStopWord == ~missed =>
    /\ IsPrefix(received, Cut(raw))
    /\ phase = "done" /\ ~stream => received = Cut(raw)

\* The bytes of a text: a tail is one of the bytes that a lead announces, and
\* these are all tails; the last character may be cut off.
IsText(bytes) ==
    \A j \in 1..Len(bytes) :
        IF bytes[j] = "tail" THEN \E i \in 1..(j - 1) : i + Width(bytes[i]) - 1 >= j
        ELSE \A i \in 1..(j - 1) : i + Width(bytes[i]) - 1 < j

\* As long as the model samples a text, in whatever pieces, every streamed output
\* ends where a character ends: LlamaOutput makes a string of each. (An empty stop
\* word cuts within a character that one token began and the next completes.)
OutputsAreWhole ==
    IsText(raw) /\ <<>> \notin antiprompt =>
        \A k \in breaks : \A j \in 1..k : j + Width(raw[j]) - 1 <= k

\* "in stream mode, content is already in last partial chunk": the outputs
\* make up the whole text when the generation has ended.
StreamIsComplete == phase = "done" /\ stream => received = Cut(raw)
=============================================================================
