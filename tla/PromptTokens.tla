----------------------------- MODULE PromptTokens -----------------------------
(***************************************************************************)
(* From prompts to tokens: the helpers of utils.hpp that the native        *)
(* methods call before they post tasks.                                    *)
(*                                                                         *)
(* A JSON value is <<"string", text>> (a text stands for the tokens        *)
(* llama.cpp finds in it), <<"number", token>>, <<"array", values>>,       *)
(* <<"scalar", token>> (a boolean or a number with a fraction, which       *)
(* becomes that token) or <<"other">>. parse_jstring and parse_jbytes have *)
(* Java convert the bytes of a text, so that it stays what it is;          *)
(* GetStringUTFChars does not.                                             *)
(***************************************************************************)
EXTENDS Naturals, Sequences, SequencesExt

CONSTANTS
    BOS, EOS, SEP,      \* special tokens of the vocabulary
    Opening, Closing,   \* those it puts around a text: BOS or none, none or EOS
    Supplementary,      \* tokens that are characters beyond U+FFFF
    High, Low           \* what llama.cpp makes of the two halves of one of these

IsString(json) == json[1] = "string"
IsNumber(json) == json[1] = "number"
IsArray(json)  == json[1] = "array"

\* An empty array is one, too.
IsArrayOfNumbers(json) ==
    IsArray(json) /\ \A k \in DOMAIN json[2] : IsNumber(json[2][k])

IsMixed(json) ==
    /\ IsArray(json)
    /\ \E k \in DOMAIN json[2] : IsString(json[2][k])
    /\ \E k \in DOMAIN json[2] : IsNumber(json[2][k])

\* With add_special, a text gets what the vocabulary puts around it.
CommonTokenize(text, special) == IF special THEN Opening \o text \o Closing ELSE text

\* A document of a ranking arrives in the modified UTF-8 of JNI, which has three bytes
\* for each half of such a character; llama.cpp expects four bytes for both.
Modified(text) ==
    FlattenSeq([k \in DOMAIN text |-> IF text[k] \in Supplementary THEN <<High, Low>>
                                      ELSE <<text[k]>>])

ParseStringArray(texts) == [k \in DOMAIN texts |-> <<"string", Modified(texts[k])>>]

-----------------------------------------------------------------------------

\* Mutant: every text of a mixed prompt gets special tokens.
PieceWithBOS(pieces, k, special) ==
    IF IsString(pieces[k]) THEN CommonTokenize(pieces[k][2], special)
    ELSE <<pieces[k][2]>>

\* Only a text that begins the prompt gets special tokens.
Piece(pieces, k, special) ==
    IF IsString(pieces[k]) THEN CommonTokenize(pieces[k][2], special /\ k = 1)
    ELSE <<pieces[k][2]>>

TokenizeMixed(json, special) ==
    IF IsArray(json)
    THEN FlattenSeq([k \in DOMAIN json[2] |-> Piece(json[2], k, special)])
    ELSE CommonTokenize(json[2], special)

\* What encode returns for a text.
Encode(text) == TokenizeMixed(<<"string", text>>, FALSE)

\* get<llama_token>() takes any number and booleans.
IsPiece(json) == json[1] \in {"string", "number", "scalar"}

\* A text, a list of tokens, or a list of both, in which other scalars are tokens, too.
IsPrompt(json) ==
    /\ IsString(json) \/ IsMixed(json) \/ IsArrayOfNumbers(json)
    /\ IsMixed(json) => \A k \in DOMAIN json[2] : IsPiece(json[2][k])

\* What is neither a prompt nor a list of prompts is refused.
IsPrompts(json) ==
    \/ IsPrompt(json)
    \/ IsArray(json) /\ \A k \in DOMAIN json[2] : IsPrompt(json[2][k])

TokenizeInputPrompts(json, special) ==
    IF IsPrompt(json) THEN <<TokenizeMixed(json, special)>>
    ELSE [k \in DOMAIN json[2] |-> TokenizeMixed(json[2][k], special)]

FormatRerank(query, doc) == <<BOS>> \o query \o <<EOS, SEP>> \o doc \o <<EOS>>
=============================================================================
