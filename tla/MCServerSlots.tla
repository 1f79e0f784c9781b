---------------------------- MODULE MCServerSlots ----------------------------
(***************************************************************************)
(* Small instances of ServerSlots for TLC.                                 *)
(***************************************************************************)
EXTENDS ServerSlots

CONSTANTS m1, m2

TwoModels == {m1, m2}
OneOfThem == {m1}
TheOther  == m2

String(tokens) == <<"string", tokens>>
Array(values)  == <<"array", values>>
NoQuery        == String(<<>>)

Completion(prompt) == [type |-> "COMPLETION", query |-> NoQuery, cached |-> TRUE,
                       prompt |-> prompt]
Uncached(prompt)   == [Completion(prompt) EXCEPT !.cached = FALSE]
Embedding(prompt)  == [Completion(prompt) EXCEPT !.type = "EMBEDDING"]
Rerank(docs)       == [Completion(docs) EXCEPT !.type = "RERANK",
                                               !.query = String(<<"q">>)]

Vocabulary == {"a", "b", "c", "d", "q", "wide", "high", "low", "BOS", "EOS", "SEP",
               "sampled"}

\* Prompts with a beginning in common; tokens and texts mixed, or tokens and an empty
\* text, with a chunk in common; two prompts, not cached; none of a token; two
\* embeddings; no documents; and three, one with a supplementary character.
SomeCalls ==
    {Completion(String(<<"a", "b">>)),
     Completion(Array(<<String(<<"a">>), <<"number", "c">>, String(<<"b">>)>>)),
     Completion(Array(<<<<"scalar", "b">>, <<"number", "d">>, String(<<>>)>>)),
     Uncached(Array(<<String(<<"a">>), String(<<"d">>)>>)), Completion(Array(<<>>)),
     Embedding(String(<<"a", "b">>)), Embedding(String(<<"d">>)),
     Rerank(<<>>), Rerank(<<<<"d">>, <<"a", "b">>, <<"wide", "d">>>>)}

\* Bound: other models are constructed and closed only while this one has no calls.
\* They share nothing with its slots.
OthersWait == calls # <<>> => \A m \in Models \ {Served} : java[m] = "none"

Half     == <<1, 2>>
AllModes == {"pooled", "unpooled", "reranking"}
Sizes    == {2, 32}
Wide     == {"wide"}
OnlyBOS  == <<"BOS">>
NoTokens == <<>>
Base     == {"adapter"}
=============================================================================
