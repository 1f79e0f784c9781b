----------------------------- MODULE PromptCache -----------------------------
(***************************************************************************)
(* One slot and its part of the KV cache: how update_slots of server.hpp   *)
(* truncates a prompt, reuses what the cache holds of it, batches the rest *)
(* and shifts the context of a generation that outgrows it, or lets the    *)
(* draft model run ahead of it. The slot remembers in cache_tokens what it *)
(* believes the cache to hold; the cells themselves are llama.cpp's.       *)
(*                                                                         *)
(* ServerWorker has the order in which slots are served, and counts tokens *)
(* where this module names them. Other slots are felt here as room that is *)
(* missing in the batch. n_discard is 0: InferenceParameters has no setter *)
(* for it. Embeddings and ranks, which never reuse anything, are left out. *)
(***************************************************************************)
EXTENDS Integers, Sequences, SequencesExt

CONSTANTS
    Tokens,         \* the vocabulary: numbers, as resize() fills with 0
    Prompts,        \* the prompts of the requests
    Keeps,          \* their n_keep
    NCtx,           \* n_ctx of the slot
    NBatch,         \* n_batch
    NCacheReuse,    \* params_base.n_cache_reuse
    AddBos,         \* add_bos_token, 0 or 1
    NDraftMin,      \* params.speculative.n_min
    NDraftMax,      \* params.speculative.n_max
    Options         \* params_base.ctx_shift, the cache_prompt of the requests,
                    \* whether the slot can_speculate() for those that cache,
                    \* and whether llama_decode may fail

ASSUME CacheAssumption ==
    /\ Tokens \subseteq Nat /\ Prompts \subseteq Seq(Tokens)
    /\ Keeps \subseteq Int
    /\ NCtx \in Nat /\ NCtx > 4 /\ NBatch \in Nat \ {0}
    /\ NCacheReuse \in Nat /\ AddBos \in {0, 1}
    /\ NDraftMin \in Nat /\ NDraftMax \in Nat
    /\ Options \subseteq [ctx_shift : BOOLEAN, cache_prompts : SUBSET BOOLEAN,
                         drafts : BOOLEAN, may_fail : BOOLEAN]

VARIABLES
    options,        \* one of Options
    phase,          \* see CacheTypeOK
    prompt_tokens,  \* the prompt, truncated once it was set up
    n_keep,         \* params.n_keep
    cache_prompt,   \* params.cache_prompt
    cache_tokens,   \* what the slot believes its cells to hold
    n_past,         \* tokens of the slot in the cache and the batch
    head_c,         \* where the search for chunks is in cache_tokens
    sampled,        \* the token sampled last
    batch,          \* the cells that the next decode is to fill
    kv,             \* the cells of the slot: pairs of position and token
    context         \* the tokens the request is about, as many as n_past

requestVars == <<prompt_tokens, n_keep, cache_prompt>>
cacheVars == <<options, phase, requestVars, cache_tokens, n_past, head_c,
               sampled, batch, kv, context>>

Min2(m, n) == IF m < n THEN m ELSE n

Cell == (0..(NCtx - 1)) \X (Tokens \cup {0})

\* started: SLOT_STATE_STARTED, reuse and reused: the same, further on; prompt:
\* between two batches of the prompt; partway and logits: before a decode, with
\* a part of the prompt or with a last token; drafting: after a token was sampled,
\* where the slot can speculate; generating: before the next token.
CacheTypeOK ==
    /\ options \in Options
    /\ phase \in {"idle", "started", "reuse", "reused", "prompt", "partway",
                  "logits", "drafting", "generating"}
    /\ prompt_tokens \in Seq(Tokens) /\ n_keep \in Int
    /\ cache_prompt \in BOOLEAN
    /\ cache_tokens \in Seq(Tokens \cup {0})
    /\ n_past \in 0..(NCtx - 1) /\ head_c \in 0..NCtx
    /\ sampled \in Tokens \cup {0}
    /\ batch \subseteq Cell /\ kv \subseteq Cell
    /\ context \in Seq(Tokens)

Init ==
    /\ options \in Options
    /\ phase = "idle"
    /\ prompt_tokens = <<>> /\ n_keep = 0 /\ cache_prompt = TRUE
    /\ cache_tokens = <<>> /\ n_past = 0 /\ head_c = 0 /\ sampled = 0
    /\ batch = {} /\ kv = {} /\ context = <<>>

\* The tokens of a sequence in the cells from position `from` on.
CellsOf(tokens, from) == {<<from + k - 1, tokens[k]>> : k \in DOMAIN tokens}

\* llama_kv_cache_seq_rm(from, to) and llama_kv_cache_seq_add(from, to, delta).
SeqRm(cells, from, to) == {c \in cells : c[1] < from \/ c[1] >= to}
SeqAdd(cells, from, to, delta) ==
    {IF c[1] >= from /\ c[1] < to THEN <<c[1] + delta, c[2]>> ELSE c : c \in cells}

\* A sequence without n tokens after its first `keep` ones.
Without(tokens, keep, n) ==
    SubSeq(tokens, 1, keep) \o SubSeq(tokens, keep + n + 1, Len(tokens))

-----------------------------------------------------------------------------
(* A prompt arrives *)

Launch(tokens, keep, cached) ==
    /\ phase = "idle"
    /\ phase' = "started"
    /\ prompt_tokens' = tokens /\ n_keep' = keep /\ cache_prompt' = cached
    /\ n_past' = 0 /\ context' = <<>>
    /\ UNCHANGED <<cache_tokens, head_c, sampled, batch, kv>>

\* The slot is released: nothing of it is reset before the next launch.
ToIdle ==
    /\ phase' = "idle" /\ batch' = {}
    /\ UNCHANGED <<requestVars, cache_tokens, n_past, head_c, sampled, context>>

\* The prompt is empty, or the context cannot be shifted and is too small.
Refused == prompt_tokens = <<>> \/ (~options.ctx_shift /\ Len(prompt_tokens) >= NCtx)

Refuse == phase = "started" /\ Refused /\ ToIdle /\ UNCHANGED kv

\* Mutant: one block too few.
TruncateTooLittle(tokens, keep) ==
    LET block  == (NCtx - keep) \div 2
        erased == (Len(tokens) - keep - block) \div block - 1
    IN  IF Len(tokens) < NCtx THEN tokens
        ELSE Without(tokens, keep, erased * block)

\* A prompt that does not fit loses whole blocks after its first `keep` tokens.
Truncate(tokens, keep) ==
    LET block  == (NCtx - keep) \div 2
        erased == (Len(tokens) - keep - block) \div block
    IN  IF Len(tokens) < NCtx THEN tokens
        ELSE Without(tokens, keep, erased * block)

\* The tokens to keep, the prompt that remains and what the cache has of it.
SetUp ==
    LET keep   == Min2(NCtx - 4, IF n_keep < 0 THEN Len(prompt_tokens) ELSE n_keep)
        tokens == Truncate(prompt_tokens, keep)
        common == IF cache_prompt
                  THEN Len(LongestCommonPrefix({cache_tokens, tokens})) ELSE 0
    IN  /\ phase = "started" /\ ~Refused
        /\ n_keep' = keep /\ prompt_tokens' = tokens
        /\ n_past' = common /\ head_c' = common
        /\ phase' = IF cache_prompt /\ NCacheReuse > 0 THEN "reuse" ELSE "reused"
        /\ UNCHANGED <<cache_prompt, cache_tokens, sampled, batch, kv, context>>

\* How many tokens from head_c on match the prompt from n_past (head_p) on.
NMatch ==
    Len(LongestCommonPrefix({SubSeq(cache_tokens, head_c + 1, Len(cache_tokens)),
                             SubSeq(prompt_tokens, n_past + 1, Len(prompt_tokens))}))
InReuse == phase = "reuse" /\ head_c < Len(cache_tokens)
                           /\ n_past < Len(prompt_tokens)

\* Mutant: the cells between the heads stay.
ReuseWithoutRm ==
    /\ InReuse /\ NMatch >= NCacheReuse
    /\ kv' = SeqAdd(kv, head_c, head_c + NMatch, n_past - head_c)
    /\ cache_tokens' =
          [k \in DOMAIN cache_tokens |->
              IF k > n_past /\ k <= n_past + NMatch
              THEN cache_tokens[k - n_past + head_c] ELSE cache_tokens[k]]
    /\ n_past' = n_past + NMatch /\ head_c' = head_c + NMatch
    /\ UNCHANGED <<phase, requestVars, sampled, batch, context>>

\* A chunk found further on in the cache moves to where the prompt has it.
ReuseChunk ==
    /\ InReuse /\ NMatch >= NCacheReuse
    /\ kv' = SeqAdd(SeqRm(kv, n_past, head_c),
                    head_c, head_c + NMatch, n_past - head_c)
    /\ cache_tokens' =
          [k \in DOMAIN cache_tokens |->
              IF k > n_past /\ k <= n_past + NMatch
              THEN cache_tokens[k - n_past + head_c] ELSE cache_tokens[k]]
    /\ n_past' = n_past + NMatch /\ head_c' = head_c + NMatch
    /\ UNCHANGED <<phase, requestVars, sampled, batch, context>>

ReuseStep ==
    /\ InReuse /\ NMatch < NCacheReuse
    /\ head_c' = head_c + 1
    /\ UNCHANGED <<phase, requestVars, cache_tokens, n_past, sampled, batch, kv,
                   context>>

ReuseEnds ==
    /\ phase = "reuse"
    /\ head_c >= Len(cache_tokens) \/ n_past >= Len(prompt_tokens)
    /\ phase' = "reused"
    /\ UNCHANGED <<requestVars, cache_tokens, n_past, head_c, sampled, batch, kv,
                   context>>

-----------------------------------------------------------------------------
(* The prompt is batched *)

\* std::vector::resize: cut off, or filled up with zeros.
Resize(tokens, n) == [k \in 1..n |-> IF k <= Len(tokens) THEN tokens[k] ELSE 0]

\* Mutant: a prompt that is cached as a whole is not evaluated at all.
FirstToEvaluateNone == n_past

\* At least one token of a prompt has to be evaluated.
FirstToEvaluate ==
    IF phase = "reused" /\ n_past = Len(prompt_tokens) /\ n_past > 0
    THEN n_past - 1 ELSE n_past

KeepsUpTo(from) == SeqRm(kv, from, NCtx)

\* Cells that are not common with the prompt are removed, all of them where
\* llama.cpp cannot remove a part, and as much of the rest of the prompt is
\* batched as there is room for.
FillPrompt(room) ==
    /\ phase \in {"reused", "prompt"}
    /\ \E from \in {FirstToEvaluate, 0} :
          LET rest   == SubSeq(prompt_tokens, from + 1, Len(prompt_tokens))
              part   == SubSeq(rest, 1, Min2(room, Len(rest)))
              common == Resize(cache_tokens, from)
          IN  /\ from < FirstToEvaluate => KeepsUpTo(FirstToEvaluate) # kv
              /\ kv' = KeepsUpTo(from)
              /\ batch' = CellsOf(part, from)
              /\ cache_tokens' = IF cache_prompt THEN common \o part ELSE common
              /\ n_past' = from + Len(part)
              /\ context' = SubSeq(prompt_tokens, 1, n_past')
              /\ phase' = IF part = rest THEN "logits" ELSE "partway"
    /\ UNCHANGED <<requestVars, head_c, sampled>>

-----------------------------------------------------------------------------
(* Decoding *)

DecodePart ==
    /\ phase = "partway"
    /\ phase' = "prompt"
    /\ kv' = kv \cup batch /\ batch' = {}
    /\ UNCHANGED <<requestVars, cache_tokens, n_past, head_c, sampled, context>>

\* The next token is sampled. process_token ends the generation at the latest
\* when the context is full.
DecodeAndSample(token, goesOn) ==
    /\ phase = "logits"
    /\ goesOn => n_past < NCtx
    /\ phase' = IF ~goesOn THEN "idle"
                ELSE IF options.drafts /\ cache_prompt THEN "drafting" ELSE "generating"
    /\ sampled' = token
    /\ kv' = kv \cup batch /\ batch' = {}
    /\ UNCHANGED <<requestVars, cache_tokens, n_past, head_c, context>>

\* The decode fails, perhaps after some views of the batch.
DecodeFails ==
    /\ options.may_fail /\ phase \in {"partway", "logits"}
    /\ \E k \in 0..NCtx : kv' = kv \cup SeqRm(batch, k, NCtx)
    /\ ToIdle

CancelSlot ==
    /\ phase \in {"started", "prompt", "generating"}
    /\ ToIdle /\ UNCHANGED kv

-----------------------------------------------------------------------------
(* Speculative decoding *)

\* The longest draft: the sampled token needs a cell, and a shift one more.
DraftMax == Min2(NDraftMax, NCtx - n_past - 2)

\* No draft is made, or it is too short: because of DraftMax, of what is left of
\* n_predict, or of what the draft model can say.
NoDraft ==
    /\ phase = "drafting" /\ (NDraftMin = 0 => DraftMax < 0)
    /\ phase' = "generating"
    /\ UNCHANGED <<requestVars, cache_tokens, n_past, head_c, sampled, batch, kv,
                   context>>

\* Mutant: the cells of the refused part of a draft stay.
KeepRefused(cells, past) == cells

\* The cells behind the last accepted token go.
DropRefused(cells, past) == SeqRm(cells, past, NCtx)

\* The sampled token and the draft are decoded together, whatever llama_decode
\* returns. As many tokens of the draft are accepted as the model would have
\* sampled itself, and one of its own. process_token takes them one by one and may
\* end the generation at any; all of them count as cached even so.
Speculate(draft, accepted, own) ==
    LET ids   == Append(SubSeq(draft, 1, accepted), own)
        added == <<sampled>> \o SubSeq(draft, 1, accepted)
        cells == CellsOf(<<sampled>> \o draft, n_past)
        past  == n_past + Len(ids)
    IN  /\ phase = "drafting"
        /\ NDraftMin <= Len(draft) /\ Len(draft) <= DraftMax
        /\ accepted < Len(draft) => own # draft[accepted + 1]
        /\ \E k \in IF options.may_fail THEN 0..NCtx ELSE {NCtx} :
              kv' = DropRefused(kv \cup SeqRm(cells, k, NCtx), past)
        /\ n_past' = past
        /\ cache_tokens' = cache_tokens \o added
        /\ context' = context \o added
        /\ \/ phase' = "generating" /\ sampled' = own
           \/ phase' = "idle" /\ \E j \in DOMAIN ids : sampled' = ids[j]
        /\ UNCHANGED <<requestVars, head_c, batch>>

\* Token sequences no longer than a draft.
Drafts == UNION {[1..n -> Tokens] : n \in 0..NDraftMax}

-----------------------------------------------------------------------------
(* The context of a generation *)

\* Mutant: one token too late.
ContextIsFullLate == n_past >= NCtx

ContextIsFull == n_past + 1 >= NCtx

Overflow ==
    /\ phase = "generating" /\ ContextIsFull /\ ~options.ctx_shift
    /\ ToIdle /\ UNCHANGED kv

\* The sampled token joins the batch at position past.
AddSampled(past, cells, tokens, cached) ==
    /\ phase' = "logits"
    /\ kv' = cells
    /\ batch' = {<<past, sampled>>}
    /\ n_past' = past + 1
    /\ context' = Append(tokens, sampled)
    /\ cache_tokens' = IF cache_prompt THEN Append(cached, sampled) ELSE cached
    /\ UNCHANGED <<requestVars, head_c, sampled>>

AddToken ==
    /\ phase = "generating" /\ ~ContextIsFull
    /\ AddSampled(n_past, kv, context, cache_tokens)

\* Mutant: the cells behind the gap keep their positions.
ShiftCellsStay(keep, discard) == SeqRm(kv, keep, keep + discard)

\* Those behind the gap close it.
ShiftCells(keep, discard) ==
    SeqAdd(SeqRm(kv, keep, keep + discard), keep + discard, n_past, 0 - discard)

\* Half of what follows the tokens to keep is discarded first.
ShiftAndAddToken ==
    LET keep    == n_keep + AddBos
        discard == (n_past - keep) \div 2
    IN  /\ phase = "generating" /\ ContextIsFull /\ options.ctx_shift
        /\ AddSampled(n_past - discard, ShiftCells(keep, discard),
                      Without(context, keep, discard),
                      IF cache_prompt THEN Without(cache_tokens, keep, discard)
                      ELSE cache_tokens)

Step ==
    \/ \E tokens \in Prompts, keep \in Keeps, cached \in options.cache_prompts :
          Launch(tokens, keep, cached)
    \/ Refuse \/ SetUp \/ ReuseChunk \/ ReuseStep \/ ReuseEnds
    \/ \E room \in 0..NBatch : FillPrompt(room)
    \/ DecodePart \/ DecodeFails \/ CancelSlot
    \/ \E token \in Tokens, goesOn \in BOOLEAN : DecodeAndSample(token, goesOn)
    \/ NoDraft
    \/ \E draft \in Drafts, accepted \in 0..NDraftMax, own \in Tokens :
          accepted <= Len(draft) /\ Speculate(draft, accepted, own)
    \/ Overflow \/ AddToken \/ ShiftAndAddToken

Next == Step /\ UNCHANGED options

Spec == Init /\ [][Next]_cacheVars

-----------------------------------------------------------------------------
(* What makes the cache correct *)

Decoding == phase \in {"partway", "logits"}

\* Whatever was reused, moved, truncated or shifted before, a decode sees the
\* tokens of its own request, each once and at its own position, and no other
\* cell: the answer does not depend on what the slot did before.
ContextIsExact == Decoding => kv \cup batch = CellsOf(context, 0)

\* GGML_ASSERT(slot.n_prompt_tokens < slot.n_ctx), and room for one token more.
PromptFits ==
    phase \notin {"idle", "started"} => Len(prompt_tokens) < NCtx

\* "we have to evaluate at least 1 token to generate logits": a token is only
\* sampled after a decode of the last token of the context.
LogitsAreComputed ==
    phase = "logits" => <<n_past - 1, context[n_past]>> \in batch

\* "reuse any previously computed tokens that are common with the new prompt":
\* what is not in the batch has been computed, for this token at this position.
ReusedIsComputed ==
    Decoding => \A k \in 1..n_past : <<k - 1, context[k]>> \in kv \cup batch
=============================================================================
