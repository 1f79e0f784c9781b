------------------------------ MODULE ServerSlots ------------------------------
(***************************************************************************)
(* Which slot of a model a task gets, which slots share a batch, and whose *)
(* rows of it they answer with: get_available_slot, the LoRA adapters of   *)
(* launch_slot_with_task, the batch of update_slots, send_embedding and    *)
(* send_rerank, and the callers in embed and rerank of jllama.cpp.         *)
(*                                                                         *)
(* The slots are those that the model's init made, in a process where      *)
(* other models come and go (ModelLifecycle). ServerWorker says how the    *)
(* worker and the callers interleave, so here a task is processed at once  *)
(* and a round of update_slots is one action; every batch has room for the *)
(* prompts, and llama_decode fails only for want of space, at the first    *)
(* view. What is computed from tokens is written as these tokens.          *)
(***************************************************************************)
EXTENDS ModelLifecycle, PromptTokens, Integers, FiniteSets, FiniteSetsExt

CONSTANTS
    Served,         \* the model whose slots these are
    Tokens,         \* its vocabulary
    Calls,          \* what callers ask for: [type, query, prompt, cached], with
                    \* the texts of documents as the prompt of a ranking
    MaxCalls,       \* bound: calls
    MaxClock,       \* bound: microseconds
    MaxCached,      \* bound: cached tokens a completion goes on with
    NCacheReuse,    \* n_cache_reuse: the least chunk that is reused, 0 for none
    Similarity,     \* slot_prompt_similarity, <<numerator, denominator>>
    Adapters,       \* the LoRA adapters the model was loaded with
    Modes,          \* its params.embedding and params.reranking, with the pooling:
                    \* "pooled", "unpooled" or "reranking"
    ViewSizes,      \* how many tokens a view may come to hold
    Sampled         \* a token that is generated

\* The JSON values that prompts are made of.
Texts   == {"string"} \X Seq(Tokens)
Parts   == Texts \cup {"number", "scalar"} \X Tokens
Prompts == Texts \cup {"array"} \X Seq(Parts)

\* A completion may have any JSON that is accepted as a prompt or as several, with or
\* without cache_prompt. embed takes one text, rerank takes texts.
Requests ==
    [type : {"COMPLETION"}, query : Texts, cached : BOOLEAN,
     prompt : {json \in Prompts \cup {"array"} \X Seq(Prompts) : IsPrompts(json)}]
    \cup [type : {"EMBEDDING"}, query : Texts, cached : {TRUE}, prompt : Texts]
    \cup [type : {"RERANK"}, query : Texts, cached : {TRUE}, prompt : Seq(Seq(Tokens))]

ASSUME SlotsAssumption ==
    /\ Served \in Models \ Drafted
    /\ {BOS, EOS, SEP, High, Low, Sampled} \subseteq Tokens
    /\ Opening \in Seq(Tokens) /\ Closing \in Seq(Tokens)
    /\ Calls \subseteq Requests
    /\ {MaxCalls, MaxClock, MaxCached, NCacheReuse} \subseteq Nat
    /\ ViewSizes \subseteq Nat \ {0} /\ ViewSizes # {} /\ IsFiniteSet(ViewSizes)
    /\ Similarity \in Nat \X (Nat \ {0})

VARIABLES
    mode,           \* one of Modes
    clock,          \* ggml_time_us
    queue,          \* queue_tasks
    deferred,       \* queue_tasks_deferred
    state,          \* per slot: "IDLE", "STARTED" or "GENERATING"
    t_last_used,    \* per slot
    task,           \* per slot: the task it runs, or ran last
    lora,           \* per slot
    cache,          \* per slot: cache_tokens
    computed,       \* per slot: the adapters its cells were computed with
    stranded,       \* a slot released in this microsecond was overlooked, or a task
                    \* was handed back for nothing
    calls,          \* the calls made
    heard           \* per call: the results its caller received, in their order

choiceVars == <<state, t_last_used, task, lora, cache, computed>>
taskVars   == <<queue, deferred, stranded>>
slotsVars  == <<mode, clock, choiceVars, taskVars, calls, heard>>
vars       == <<lifeVars, slotsVars>>

Slots == 1..slots[Served]

NoTask == [call |-> 0, index |-> 0, type |-> "COMPLETION", cached |-> TRUE,
           prompt |-> <<>>]

\* What results carry: the index of the prompt and the rows of an embedding, or the
\* row whose first number is a score. (Whether the view held all of the prompt is for
\* a property only.) For a prompt without tokens there are none.
IsResultOf(result, call) ==
    /\ DOMAIN result = {"index", "rows", "whole"} /\ result.whole \in BOOLEAN
    /\ result.index \in IF call.type = "RERANK" /\ call.prompt # <<>>
                       THEN DOMAIN call.prompt ELSE {1}
    /\ IF call.type = "RERANK" THEN Len(result.rows) = 1
       ELSE result.rows = <<>> => TokenizeMixed(call.prompt, TRUE) = <<>>

SlotsTypeOK ==
    /\ mode \in Modes /\ clock \in 0..MaxClock
    /\ state \in [1..NParallel -> {"IDLE", "STARTED", "GENERATING"}]
    /\ \A s \in 1..NParallel : state[s] # "IDLE" => s \in Slots /\ task[s] # NoTask
    /\ t_last_used \in [1..NParallel -> -1..MaxClock]
    /\ lora \in [1..NParallel -> {{}, Adapters}]
    /\ computed \in [1..NParallel -> SUBSET {{}, Adapters}]
    /\ stranded \in BOOLEAN
    /\ calls \in Seq(Calls) /\ DOMAIN heard = DOMAIN calls
    /\ \A n \in DOMAIN calls : \A k \in DOMAIN heard[n] : IsResultOf(heard[n][k], calls[n])

ServerInit ==
    /\ Init
    /\ mode \in Modes /\ clock = 0 /\ queue = <<>> /\ deferred = <<>>
    /\ state = [s \in 1..NParallel |-> "IDLE"]
    /\ t_last_used = [s \in 1..NParallel |-> -1]
    /\ task = [s \in 1..NParallel |-> NoTask]
    /\ lora = [s \in 1..NParallel |-> {}]
    /\ cache = [s \in 1..NParallel |-> <<>>]
    /\ computed = [s \in 1..NParallel |-> {}]
    /\ stranded = FALSE /\ calls = <<>> /\ heard = <<>>

IsProcessing(s) == state[s] # "IDLE"
IsNonCausal(s)  == task[s].type # "COMPLETION"

Tick ==
    /\ clock < MaxClock /\ clock' = clock + 1
    /\ UNCHANGED <<lifeVars, mode, choiceVars, taskVars, calls, heard>>

-----------------------------------------------------------------------------
(* The callers.                                                             *)

\* rerank puts each document behind the query, both with their special tokens.
PromptsOf(call) ==
    IF call.type = "RERANK"
    THEN LET query == TokenizeMixed(call.query, TRUE)
             docs  == TokenizeInputPrompts(<<"array", ParseStringArray(call.prompt)>>, TRUE)
         IN  [k \in DOMAIN docs |-> FormatRerank(query, docs[k])]
    ELSE TokenizeInputPrompts(call.prompt, TRUE)

\* embed and rerank throw unless the model was loaded for them.
Offered(call) ==
    /\ call.type = "RERANK" => mode = "reranking"
    /\ call.type = "EMBEDDING" => mode \in {"pooled", "unpooled"}

\* One task for each prompt. A completion of several prompts is refused, but its
\* tasks have been posted.
Call ==
    /\ java[Served] = "constructed" /\ Len(calls) < MaxCalls
    /\ \E call \in Calls :
          LET prompts == PromptsOf(call) IN
          /\ Offered(call)
          /\ calls' = Append(calls, call) /\ heard' = Append(heard, <<>>)
          /\ queue' = queue \o [k \in DOMAIN prompts |->
                [call |-> Len(calls) + 1, index |-> k, type |-> call.type,
                 cached |-> call.cached, prompt |-> prompts[k]]]
    /\ UNCHANGED <<lifeVars, mode, clock, choiceVars, deferred, stranded>>

\* Mutant: documents are counted as their results arrive.
DocumentByArrival(n, k) == calls[n].prompt[k]

\* document_vector[index] of the k-th result that call n received. NewStringUTF turns
\* modified UTF-8 back into the text it came from.
DocumentOf(n, k) == calls[n].prompt[heard[n][k].index]

\* The map of rerank: a document that was given twice has one entry.
Ranks(n) ==
    [doc \in {DocumentOf(n, k) : k \in DOMAIN heard[n]} |->
        heard[n][Max({k \in DOMAIN heard[n] : DocumentOf(n, k) = doc})]]

\* Mutant: the last row of the result.
EmbeddedLast(n) == Last(heard[n][1].rows)

\* What embed returns: the first row of the result. (For a prompt without tokens the
\* result is a completion's, and embed reads a key that is not there.)
Embedded(n) == Head(heard[n][1].rows)

-----------------------------------------------------------------------------
(* get_available_slot.                                                      *)

\* The length of the longest common subsequence. A row holds that of what was seen of
\* a and each beginning of b.
Lcs(a, b) ==
    LET Cell(row, x, j, left) ==
            IF x = b[j] THEN row[j] + 1 ELSE Max({row[j + 1], left[j]})
        NextRow(row, x) ==
            LET new[j \in 0..Len(b)] ==
                    IF j = 0 THEN <<0>>
                    ELSE LET left == new[j - 1] IN Append(left, Cell(row, x, j, left))
            IN  new[Len(b)]
        rows[i \in 0..Len(a)] ==
            IF i = 0 THEN [j \in 1..(Len(b) + 1) |-> 0] ELSE NextRow(rows[i - 1], a[i])
    IN  Last(rows[Len(a)])

IsSimilar(s, t) ==
    Lcs(cache[s], t.prompt) * Similarity[2] > Len(cache[s]) * Similarity[1]

\* Mutant: the length to beat is not kept, so that the last similar slot is taken.
LastSimilar(t) ==
    LET ret[s \in 0..slots[Served]] ==
            IF s = 0 THEN 0
            ELSE IF ~IsProcessing(s) /\ Lcs(cache[s], t.prompt) > 0 /\ IsSimilar(s, t)
                 THEN s ELSE ret[s - 1]
    IN  ret[slots[Served]]

\* The first idle slot that shares most of its cache with the prompt, 0 if none:
\* ret[s] is what the loop has found when it is through with slot s.
MostSimilar(t) ==
    LET ret[s \in 0..slots[Served]] ==
            IF s = 0 THEN 0
            ELSE LET best    == ret[s - 1]
                     lcs_len == IF best = 0 THEN 0 ELSE Lcs(cache[best], t.prompt)
                 IN  IF /\ ~IsProcessing(s)
                        /\ Lcs(cache[s], t.prompt) > lcs_len /\ IsSimilar(s, t)
                     THEN s ELSE best
    IN  ret[slots[Served]]

\* The first that was not used for the longest time; it must be older than now.
LeastRecent ==
    LET ret[s \in 0..slots[Served]] ==
            IF s = 0 THEN 0
            ELSE LET best   == ret[s - 1]
                     t_last == IF best = 0 THEN clock ELSE t_last_used[best]
                 IN  IF ~IsProcessing(s) /\ t_last_used[s] < t_last THEN s ELSE best
    IN  ret[slots[Served]]

\* With a similarity of 0 only the age counts.
GetAvailableSlot(t) ==
    IF Similarity[1] # 0 /\ MostSimilar(t) # 0 THEN MostSimilar(t) ELSE LeastRecent

-----------------------------------------------------------------------------
(* process_single_task.                                                     *)

\* embed and rerank leave the adapters of their tasks empty.
LoraOf(t) == IF t.type = "COMPLETION" THEN Adapters ELSE {}

Working == worker[Served] = "looping"

\* are_lora_equal: the same adapters with the same scales.
AreLoraEqual(l1, l2) == l1 = l2

\* Mutant: the slot starts without its task.
LaunchUnbound(s, t, started) ==
    /\ state' = [state EXCEPT ![s] = IF started THEN "STARTED" ELSE @]
    /\ UNCHANGED <<task, lora, cache, computed, t_last_used>>

\* Mutant: the cache outlives the adapters.
LaunchKeepsCache(s, t, started) ==
    /\ task' = [task EXCEPT ![s] = t]
    /\ state' = [state EXCEPT ![s] = IF started THEN "STARTED" ELSE @]
    /\ lora' = [lora EXCEPT ![s] = LoraOf(t)]
    /\ UNCHANGED <<cache, computed, t_last_used>>

\* The slot takes the task on, or stays idle, if the grammar cannot be parsed. With
\* other adapters than before its cache is of no use.
Launch(s, t, started) ==
    /\ task' = [task EXCEPT ![s] = t]
    /\ state' = [state EXCEPT ![s] = IF started THEN "STARTED" ELSE @]
    /\ IF AreLoraEqual(LoraOf(t), lora[s]) THEN UNCHANGED <<lora, cache, computed>>
       ELSE /\ lora' = [lora EXCEPT ![s] = LoraOf(t)]
            /\ cache' = [cache EXCEPT ![s] = <<>>]
            /\ computed' = [computed EXCEPT ![s] = {}]
    /\ UNCHANGED t_last_used

LaunchTask ==
    /\ Working /\ queue # <<>>
    /\ GetAvailableSlot(Head(queue)) # 0
    /\ \E started \in BOOLEAN :
          /\ ~started => Head(queue).type = "COMPLETION"
          /\ Launch(GetAvailableSlot(Head(queue)), Head(queue), started)
          /\ stranded' = (stranded \/ (~started /\ deferred # <<>>))
    /\ queue' = Tail(queue)
    /\ UNCHANGED <<lifeVars, mode, clock, deferred, calls, heard>>

DeferTask ==
    /\ Working /\ queue # <<>>
    /\ GetAvailableSlot(Head(queue)) = 0
    /\ deferred' = Append(deferred, Head(queue)) /\ queue' = Tail(queue)
    /\ stranded' = (stranded \/ \E s \in Slots : ~IsProcessing(s) /\ t_last_used[s] = clock)
    /\ UNCHANGED <<lifeVars, mode, clock, choiceVars, calls, heard>>

\* Mutant: the callback of a release is called for the first of several slots only.
ReleaseHandsBackOne(released) ==
    LET n == IF released = {} \/ deferred = <<>> THEN 0 ELSE 1
    IN  /\ queue' = queue \o SubSeq(deferred, 1, n)
        /\ deferred' = SubSeq(deferred, n + 1, Len(deferred))
        /\ t_last_used' = [s \in 1..NParallel |->
                              IF s \in released THEN clock ELSE t_last_used[s]]

\* Each slot that is released hands one deferred task back.
Release(released) ==
    LET n == Min({Cardinality(released), Len(deferred)})
    IN  /\ queue' = queue \o SubSeq(deferred, 1, n)
        /\ deferred' = SubSeq(deferred, n + 1, Len(deferred))
        /\ t_last_used' = [s \in 1..NParallel |->
                              IF s \in released THEN clock ELSE t_last_used[s]]

\* Java cancels completions only.
Cancel ==
    /\ Working
    /\ \E s \in Slots :
          /\ IsProcessing(s) /\ ~IsNonCausal(s)
          /\ Release({s}) /\ state' = [state EXCEPT ![s] = "IDLE"]
    /\ UNCHANGED <<lifeVars, mode, clock, task, lora, cache, computed, stranded, calls,
                   heard>>

-----------------------------------------------------------------------------
(* update_slots.                                                            *)

\* slot_batched: the first slot that generates, or else the first that processes.
Opener ==
    LET generating == {s \in Slots : state[s] = "GENERATING"}
    IN  Min(IF generating # {} THEN generating ELSE {s \in Slots : IsProcessing(s)})

\* Mutant: the adapters of the others are not looked at, nor what they are for.
AnyBatch(s) == IsProcessing(s)

\* can_batch_with.
InBatch(s) ==
    /\ IsProcessing(s)
    /\ IsNonCausal(s) = IsNonCausal(Opener) /\ AreLoraEqual(lora[s], lora[Opener])

\* The batch, for tasks without generation: which slot and which token of its prompt.
Batch ==
    FlattenSeq([s \in Slots |-> IF InBatch(s) THEN [k \in DOMAIN task[s].prompt |-> <<s, k>>]
                                ELSE <<>>])

\* The positions of the view of at most size tokens that holds the last token of s.
ViewOf(s, size) ==
    LET last  == Max({p \in DOMAIN Batch : Batch[p][1] = s})
        first == ((last - 1) \div size) * size + 1
    IN  first..Min({first + size - 1, Len(Batch)})

\* There is output for the last token of a prompt, or without pooling for all.
HasOutput(p) ==
    mode = "unpooled" \/ Batch[p][2] = Len(task[Batch[p][1]].prompt)

\* llama_get_embeddings_seq pools what the view holds of a slot; without pooling
\* llama_get_embeddings_ith is what attention makes of all tokens so far.
Row(p, view) ==
    LET s == Batch[p][1] IN
    IF mode = "unpooled" THEN SubSeq(task[s].prompt, 1, Batch[p][2])
    ELSE LET own == {Batch[q][2] : q \in {r \in view : Batch[r][1] = s}}
         IN  SubSeq(task[s].prompt, Min(own), Max(own))

\* Mutant: the rows of other slots are not skipped.
OutputsOfAll(s, view) == {p \in view : HasOutput(p)}

OutputsOf(s, view) == {p \in view : HasOutput(p) /\ Batch[p][1] = s}

\* The numbers of a set, the smallest first.
InOrder(numbers) ==
    CHOOSE seq \in [1..Cardinality(numbers) -> numbers] :
        \A j, k \in DOMAIN seq : j < k => seq[j] < seq[k]

\* send_final_response, where there is nothing to decode.
EmptyResult(s) == [index |-> task[s].index, rows |-> <<>>, whole |-> TRUE]

\* send_embedding has a row for each output, send_rerank a score from the last.
ResultOf(s, size) ==
    LET view    == ViewOf(s, size)
        outputs == InOrder(OutputsOf(s, view))
        rows    == [k \in DOMAIN outputs |-> Row(outputs[k], view)]
    IN  IF task[s].prompt = <<>> THEN EmptyResult(s)
        ELSE [index |-> task[s].index,
              rows  |-> IF task[s].type = "RERANK" THEN <<Last(rows)>> ELSE rows,
              whole |-> \E p \in view : Batch[p] = <<s, 1>>]

AnsweredFor(n, released) ==
    InOrder({s \in released : IsNonCausal(s) /\ task[s].call = n})

CommonPrefix(a, b) ==
    Max({n \in 0..Min({Len(a), Len(b)}) : SubSeq(a, 1, n) = SubSeq(b, 1, n)})

\* Behind that prefix, what follows in the prompt lies somewhere in the cache.
HasChunk(a, b) ==
    LET head == CommonPrefix(a, b) IN
    /\ NCacheReuse > 0 /\ head + NCacheReuse <= Len(b)
    /\ \E head_c \in head..(Len(a) - NCacheReuse) :
          SubSeq(a, head_c + 1, head_c + NCacheReuse) =
              SubSeq(b, head + 1, head + NCacheReuse)

\* A completion with cache_prompt goes on from the cells its prompt has in common with
\* the cache, or from a chunk that is shifted there.
Reuses(s) ==
    \/ state[s] = "GENERATING"
    \/ /\ ~IsNonCausal(s) /\ task[s].cached /\ Len(task[s].prompt) > 1
       /\ CommonPrefix(cache[s], task[s].prompt) > 0 \/ HasChunk(cache[s], task[s].prompt)

CacheAfter(s) ==
    IF ~task[s].cached THEN <<>>
    ELSE IF state[s] = "GENERATING" THEN Append(cache[s], Sampled) ELSE task[s].prompt

\* The whole batch is decoded with the adapters of the opener, but for slots whose
\* prompt is empty, which are only answered and released. Tasks without generation are
\* answered and released, completions when they end.
Round ==
    /\ Working /\ queue = <<>>
    /\ \E s \in Slots : IsProcessing(s)
    /\ \E size \in ViewSizes, over \in SUBSET {s \in Slots : InBatch(s)} :
          LET batched == {s \in Slots : InBatch(s)}
              decoded == {s \in batched : task[s].prompt # <<>>}
          IN
          /\ IsNonCausal(Opener) => over = batched
          /\ (batched \ decoded) \cup {s \in decoded : Len(CacheAfter(s)) > MaxCached}
                \subseteq over
          /\ ~IsNonCausal(Opener) => size = Max(ViewSizes)
          /\ Release(over)
          /\ state' = [s \in 1..NParallel |-> IF s \in over THEN "IDLE"
                          ELSE IF s \in batched THEN "GENERATING" ELSE state[s]]
          /\ cache' = [s \in 1..NParallel |-> IF s \in decoded THEN CacheAfter(s)
                                              ELSE cache[s]]
          /\ computed' = [s \in 1..NParallel |->
                IF s \in decoded
                THEN (IF Reuses(s) THEN computed[s] ELSE {}) \cup {lora[Opener]}
                ELSE computed[s]]
          /\ heard' = [n \in DOMAIN heard |->
                LET answered == AnsweredFor(n, over)
                IN  heard[n] \o [k \in DOMAIN answered |-> ResultOf(answered[k], size)]]
    /\ UNCHANGED <<lifeVars, mode, clock, task, lora, stranded, calls>>

SlotsNext ==
    \/ Next /\ UNCHANGED slotsVars
    \/ Tick \/ Call \/ LaunchTask \/ DeferTask \/ Cancel \/ Round

SlotsSpec == ServerInit /\ [][SlotsNext]_vars

-----------------------------------------------------------------------------
(* Properties.                                                              *)

Idle == {s \in Slots : ~IsProcessing(s)}

Shared(s, t) == Lcs(cache[s], t.prompt)

\* The idle slots a task may get: those that hold most of its prompt, if any holds
\* enough, or else those that were idle for longest.
BestSlots(t) ==
    LET similar == {s \in Idle :
                       Similarity[1] # 0 /\ Shared(s, t) > 0 /\ IsSimilar(s, t)}
    IN  IF similar # {}
        THEN {s \in similar : \A u \in similar : Shared(u, t) <= Shared(s, t)}
        ELSE {s \in Idle : \A u \in Idle : t_last_used[s] <= t_last_used[u]}

\* A task never gets a slot that is busy, nor one whose cache helps it less than that
\* of another idle slot.
ChoosesBest ==
    [][\A s \in Slots : task'[s] # task[s] => s \in BestSlots(task'[s])]_choiceVars

\* No slot stays idle while a task is deferred: for each that is, one is on its way
\* through the queue. Exceptions are a release and a choice in the same microsecond
\* and a task that is handed back and cannot be launched.
DeferredIsServable ==
    Working /\ deferred # <<>> /\ ~stranded => Cardinality(Idle) <= Len(queue)

\* The cells behind a slot's cached tokens were computed with the adapters the slot
\* has now, whatever ran in it before and whatever shared its batches.
CacheIsOfAdapters == \A s \in Slots : computed[s] \subseteq {lora[s]}

\* The tokens of a prompt are those that encode finds in its parts, with special tokens
\* around the first if it is a text.
IsWhole(tokens, json) ==
    LET parts == IF IsArray(json) THEN json[2] ELSE <<json>>
        Own(k) == IF IsString(parts[k]) THEN Encode(parts[k][2]) ELSE <<parts[k][2]>>
        Dressed(k) == IF k = 1 /\ IsString(parts[1]) THEN Opening \o Own(k) \o Closing
                      ELSE Own(k)
    IN  tokens = FlattenSeq([k \in DOMAIN parts |-> Dressed(k)])

PromptsAreWhole ==
    \A s \in Slots : task[s].type = "COMPLETION" /\ task[s] # NoTask =>
        LET json == calls[task[s].call].prompt
        IN  IsWhole(task[s].prompt, IF IsPrompt(json) THEN json ELSE json[2][task[s].index])

\* embed and rerank answer for what they were asked: a document is ranked by the row
\* that was computed from the prompt that was made of it, an embedding is that of its
\* prompt (of the first token, if nothing pools), in whatever order tasks were deferred,
\* batched and answered. Exceptions are a prompt that was cut by the end of a view, one
\* without tokens and a ranking of no documents, which has a result.
AnswersAreOwn ==
    \A n \in DOMAIN calls : heard[n] # <<>> /\ calls[n].prompt # <<>> =>
        IF calls[n].type = "RERANK"
        THEN \A doc \in DOMAIN Ranks(n) : Ranks(n)[doc].whole =>
                \E k \in DOMAIN calls[n].prompt :
                    /\ calls[n].prompt[k] = doc
                    /\ Ranks(n)[doc].rows = <<PromptsOf(calls[n])[k]>>
        ELSE heard[n][1].whole /\ heard[n][1].rows # <<>> =>
                LET prompt == TokenizeMixed(calls[n].prompt, TRUE)
                IN  Embedded(n) = IF mode = "unpooled" THEN <<Head(prompt)>> ELSE prompt
=============================================================================
