---------------------------- MODULE MCPromptCache ----------------------------
(***************************************************************************)
(* Small instances of PromptCache for TLC.                                 *)
(***************************************************************************)
EXTENDS PromptCache

SeqsOf(S, n) == [1..n -> S]

\* Two tokens that are not the one resize() fills with.
TwoTokens == {1, 2}

Short == SeqsOf(TwoTokens, 1) \cup SeqsOf(TwoTokens, 2) \cup SeqsOf(TwoTokens, 3)

\* As long as the context, longer by one and by more than a block.
Long == {<<1, 2, 1, 1, 2, 2>>, <<2, 2, 1, 2, 1, 1, 2>>,
         <<1, 1, 2, 2, 1, 2, 2, 1, 1, 2>>}

ShortAndLong == {<<>>} \cup Short \cup Long

KeepSome == {-1, 0, 1}
KeepNone == {0}

\* Requests with cache_prompt and without it take turns while decodes succeed; or
\* all come without it, where decodes fail and contexts overflow; or all come with
\* it, to a slot that speculates.
Shifting == [ctx_shift |-> TRUE, cache_prompts |-> BOOLEAN, drafts |-> FALSE,
             may_fail |-> FALSE]
Failing  == [Shifting EXCEPT !.ctx_shift = FALSE, !.cache_prompts = {FALSE},
                             !.may_fail = TRUE]
Drafting == [Shifting EXCEPT !.cache_prompts = {TRUE}, !.drafts = TRUE]
Exact    == {Shifting, Failing, Drafting}

\* All with it, and decodes fail.
CachedFailing == {[Failing EXCEPT !.cache_prompts = {TRUE}]}
=============================================================================
