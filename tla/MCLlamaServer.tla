---------------------------- MODULE MCLlamaServer ----------------------------
(***************************************************************************)
(* Small instances of LlamaServer for TLC.                                 *)
(***************************************************************************)
EXTENDS LlamaServer, TLC

CONSTANTS t1, t2

Default == [type |-> "COMPLETION", stream |-> FALSE, docs |-> 1,
            n_prompt |-> 1, fits |-> TRUE, grammar |-> TRUE]

Generate    == [Default EXCEPT !.stream = TRUE]
LongPrompt  == [Default EXCEPT !.n_prompt = 3]
EmptyPrompt == [Default EXCEPT !.n_prompt = 0]
TooLarge    == [Default EXCEPT !.fits = FALSE]
BadGrammar  == [Default EXCEPT !.grammar = FALSE]
EmptyEmbed  == [Default EXCEPT !.type = "EMBEDDING", !.n_prompt = 0]
Rerank      == [Default EXCEPT !.type = "RERANK", !.docs = 2]

StreamsAndRefused == {Generate, TooLarge, LongPrompt, EmptyPrompt, EmptyEmbed, BadGrammar}
RanksAndTexts     == {Rerank, LongPrompt}
Streams           == {Generate}

\* What llama_decode returns: a cfg has no negative numbers.
DecodesOnly  == {0}
DecodesOrHalves == {0, 1}
DecodesOrFails == {0, -1}

ThreadSymmetry == Permutations(Threads)
=============================================================================
