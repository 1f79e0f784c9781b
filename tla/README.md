# A TLA+ model of java-llama.cpp

java-llama.cpp runs a llama.cpp model inside a Java process. `LlamaModel`
loads a model natively and starts one **worker thread**; any number of **Java
threads** then call `complete`, `generate`, `embed`, `rerank`, `cancel` and
`close`. They meet the worker in two monitors of
`src/main/cpp/server.hpp`: the task queue (`server_queue`, mutex
`mutex_tasks`) and the results (`server_response`, mutex `mutex_results`).
Everything between - slots, batches, decode retries, streams - is the worker's
alone. The interesting behaviour is what the interleavings of these threads and
the failures of `llama_decode` do to a task on its way from the caller to a slot
and back.

llama.cpp itself, the JVM and the file system are not part of the repository.
They appear as the choices they leave to this code: what `llama_decode` returns,
which token is sampled, whether an allocation or a conversion fails, what a
mapped file allows. They are marked external in `PROJECT.json`.

The paths below are relative to `src/main/cpp/` (C++) and
`src/main/java/de/kherud/llama/` (Java).

## 1. Inventory

| Component | State | Operations | Shared with | Correct when |
|---|---|---|---|---|
| task queue, `server_queue` (server.hpp) | `id`, `running`, `queue_tasks`, `queue_tasks_deferred` | get_new_id, post, defer, pop_deferred_task, terminate, start_loop, cleanup_pending_task | all Java threads and the worker, mutex_tasks | a task is in one place, a deferred one is handed back, the loop never sleeps on work and ends when told |
| result queue, `server_response` (server.hpp) | `waiting_task_ids`, `queue_results` | add/remove waiting ids, send, recv | the same, mutex_results | results are kept for those who wait and for no others; nothing is left behind |
| slots and batches, get_available_slot, launch_slot_with_task, update_slots, send_embedding, send_rerank | per slot `t_last_used`, `lora`, `cache_tokens`; the batch and its views | choose, launch, batch, answer | embed and rerank, models of the same process | a task gets the best idle slot and waits beside none, and its caller hears of its own prompt |
| worker and slots, `server_context` (server.hpp) | slots, batch, view of the decode loop | process_single_task, update_slots, release, send_* | the two queues; llama_decode | each slot samples from its own logits, each task ends once, after a failure too |
| native methods and iterators (jllama.cpp, LlamaModel, LlamaIterator) | where a thread is, its ids | requestCompletion, receiveCompletion, releaseTask, cancelCompletion, embed, rerank, delete | the two queues | what is heard of a task grows, ends once and cleans up |
| text of a completion (process_token, send_partial_response, send_final_response) | `generated_text`, `n_sent_text`, stop words | append a token, search, hold back, send | the slot; results | a caller gets the text, in whole characters, up to the stop word and not beyond |
| prompt cache and context (update_slots) | `cache_tokens`, `n_past`, KV cells | truncate, reuse, shift, batch, speculate | llama.cpp's KV cache | the model sees exactly the tokens of the request |
| log callback and JNI references (jllama.cpp) | global references, `o_log_callback`, `log_callback` | JNI_OnLoad, JNI_OnUnload, setLogger, the trampoline | every thread that logs, no lock | no reference is used or released after its release; the callback set last is the one that is called |
| model loading (LlamaModel, loadModel, load_model, init) | the heap object, slots, `ctx`, the worker | constructor, close | the backend | a constructed model works, a closed one leaves nothing |
| library loading (LlamaLoader) | files in a shared directory | cleanup, extractFile, loadNativeLibrary | other JVMs, through the directory | a process loads the library of its own jar |
| request parameters (InferenceParameters, params_from_json_cmpl, has_budget) | the JSON map, `slot_params` | setters, parsing, launch, limits | - | what is accepted is sane, and what was asked for last holds |
| tokenizer, templates and grammar | - | encode, decode, applyTemplate, jsonSchemaToGrammar | llama.cpp | a prompt of any shape becomes its tokens, with the vocabulary's special tokens where a text begins it; templates and grammars are not modelled |
| OpenAI-compatible formats | - | to_json | - | not modelled |
| text and UTF-8 helpers of utils.hpp | - | tokenize_mixed, format_rerank, validate_utf8, base64, infill format | - | as above; base64 and the infill format are not modelled |
| enumerations of arguments (args/) | - | - | - | not modelled |

**How they interact.** A Java thread draws ids from the task queue, registers
them with the result queue, posts its tasks and waits in `recv`. The worker
takes tasks in `start_loop`, gives each a slot or defers it, and calls
`update_slots` when the queue is drained. That posts a NEXT_RESPONSE task to
itself while any slot works, fills one batch with a token of every generating
slot and with prompts, decodes it in views, and answers through `send`. A slot
that is released calls `pop_deferred_task` through `callback_on_release`. A
cancel removes the waiting id and posts a CANCEL to the *front* of the queue.

**What is hard.** Concurrency: every call is several critical sections, and
cancels, answers, deferrals and terminate interleave between them. Failure:
`llama_decode` may return 1 (the view is halved and tried again) or -1 (all
slots are released and told). Ordering: a CANCEL overtakes its task, a slot is
released before or after its answer, text is held back behind later tokens.
Staleness: `slot.id_task`, `i_batch` and `cache_tokens` outlive what they
describe. Limits: batches, contexts, block-wise truncation, -1/-2/0 as numbers
of tokens. Other actors: several processes in one temporary directory, loggers
without a lock. `PROJECT.json` lists each of these hazards at its line, with the
properties that watch it, or with the reason why none does.

## 2. Modules

```
ServerTask ── ServerQueue ──┬── ServerWorker ──┐
        └──── ServerResponse┴── NativeCalls  ──┴── LlamaServer ── MCLlamaServer
                                                     │  └ INSTANCE CompletionService
                                                     └ LlamaServerProofs ── ServiceProofs
TextStream ─┬ MCTextStream          LogCallback ─┬ MCLogCallback
            └ TextStreamProofs                   └ LogCallbackProofs
PromptCache ─┬ MCPromptCache        LibraryExtraction ─┬ MCLibraryExtraction
             └ PromptCacheProofs                       └ LibraryExtractionProofs
RequestParams ─┬ MCRequestParams
               └ RequestParamsProofs
ModelLifecycle ──┬── ServerSlots ── MCServerSlots
PromptTokens ────┘      └ ServerSlotsProofs
```

### The server: one model at work

- **ServerTask** - tasks and results as records. A request is what the server
  tells apart: its type, whether it streams, into how many tasks it is split,
  how long its prompt is, whether it fits and whether its grammar parses.
- **ServerQueue** - each primed operator is one critical section of
  mutex_tasks. `CleanupPendingTask` is the loop of cleanup_pending_task.
- **ServerResponse** - each primed operator is one critical section of
  mutex_results. The vector `queue_results` is cut into one sequence per id,
  which a reader of one id cannot tell apart, and a reader of several (rerank)
  sees in more orders than the vector allows.
- **ServerWorker** - the worker thread. `wpc` is where it is (`tasks` and `wait`
  in start_loop, `process` in process_single_task, the rest in update_slots),
  `at` the slot its current loop has come to. An action is one critical section
  with the thread-local work around it; loops over slots therefore take a step
  per slot whenever they send or release. `ReleaseInLoop` and `SendReply` keep
  the code's order of release and answer. Tokens are counted, not named. Which
  idle slot a task gets is left open (ServerSlots says it).
- **NativeCalls** - the Java threads; `cpc` is how far a thread is in its native
  method. A thread has one iterator at a time and hands it to no other.
- **LlamaServer** - the composition, its properties, and the refinement mapping.
- **CompletionService** - what the server promises, without queues, slots or
  threads: a task is taken once, runs once, and its caller hears of it in order,
  to one end. Nothing follows the end of a completion or an error. An embedding or
  a rank may be taken back by an error while a rerank waits for its other
  documents: a released slot keeps its id, and a decode that fails tells idle
  slots, too (`FailSlot`). `Life` in LlamaServer maps queues and slots to unborn, pending,
  running and over; `got` is what the caller heard.

### What a slot does inside

ServerWorker counts where the next modules name.

- **TextStream** - `generated_text` and `n_sent_text` through process_token,
  the two searches, the UTF-8 check, partial and final results, and what
  receiveCompletion makes of them. Text is a sequence of bytes, of which only the
  leads and tails of characters and the letters of stop words are kept.
  `raw`, `received`, `breaks` and `missed` are history: what was sampled and what
  arrived, and whether a search was skipped that would have found a stop word.
  A stop word may be empty: `word.empty()` of server.hpp line 441 asks a JSON
  string, for which it is always false. PartialResult and FinalResult are what
  receiveCompletion reads of the two kinds of results.
- **PromptCache** - one slot over its KV cells: truncation in blocks, the common
  prefix, reuse by chunks, batches, context shift, overflow, failed decodes, and
  the drafts of a draft model (`Speculate`): a draft is decoded behind the sampled
  token, what the sampler refuses is removed again.
  `context` is history: the tokens the request is about. Other slots are felt as
  room missing in the batch. `options` is chosen at the start and never changes:
  whether contexts are shifted, whether requests may ask for cache_prompt, and
  whether decodes may fail.

- **PromptTokens** - the pure functions between a JSON prompt and its tokens:
  which arrays are lists of tokens, mixed or lists of prompts, where special tokens
  go, the format of a ranking, and the modified UTF-8 in which documents arrive. A text
  stands for the tokens that llama.cpp finds in it; what the vocabulary puts around a
  text is `Opening` and `Closing`. In a mixed array any scalar is a token, since
  get<llama_token>() converts booleans and fractions (`IsPiece`).
- **ServerSlots** - which slot a task gets, with which LoRA adapters, in which
  batch, and whose rows answer it, from the calls of embed, rerank and complete
  to what they return. It extends ModelLifecycle: calls are made to a model that
  is constructed, and its slots are those its init() made. ServerWorker has the
  interleavings, so here a task is processed at once and a round of update_slots
  is one action. Embeddings and scores are written as the tokens they are computed
  from, so that a wrong slot, view or index shows. `Requests` are the shapes of JSON
  that jllama.cpp takes over `Tokens`, the vocabulary; an empty prompt is answered
  with an empty completion and released without being decoded (`EmptyResult`). Without
  cache_prompt a slot forgets its tokens; with it, it goes on from a common prefix or
  from a chunk of `NCacheReuse` tokens behind it (`Reuses`). The loops over slots and the table of common_lcs are
  recursive functions, so that they can be proved about. `computed` is history: the
  adapters the cells of a slot were computed with. `stranded` is history, too: a
  task was deferred beside a slot that was released in the same microsecond, or a
  task that had been handed back could not be launched.

### Around the server

- **LogCallback** - global references as numbers with a set of live ones;
  setLogger and the trampoline in the steps another thread can come between.
  Every overlap is in the model; `raced` is history and remembers whether a
  setLogger ever met another or a message. Deleting a reference twice changes
  nothing. `ggml` is what llama_log_set was given last: the trampoline, nothing, or
  the function of common_init(), which every loadModel runs (`CommonInit`);
  `overridden` remembers that one came after the last setLogger. The callback
  itself no loadModel touches.
- **ModelLifecycle** - each way out of loadModel, load_model and init, with what
  it leaves behind, and the order in which the worker is started. Only models of
  `Drafted` have the draft model that can make init() give up. A draft model is loaded
  twice, and if the second load fails, loadModel goes on through null pointers: the
  process, with all its models, is gone (`DraftIsNull`). The module ends
  where NativeCalls and ServerWorker begin.
- **LibraryExtraction** - processes over one name in one directory. A deleted
  file lives on for those who have it open or mapped; on Windows what is mapped
  can be neither deleted nor replaced. Files.copy is delete, create and several
  writes. Whether System.load takes a file that is not whole is up to the system
  (`LoadOutcomes`). `windows` is chosen at the start. `disturbed` is history: the processes
  that another did something to while they were extracting.
- **RequestParams** - setters over a map of JSON values, params_from_json_cmpl
  as operators over that map, launch, and the limits of process_token. What is
  converted outside of json_value throws if it has another type (`IsUnusable`). A
  trigger word that is one token becomes a trigger of type TOKEN without a token
  (`AsToken`), every other trigger stays as it came. Any token of `EOG` ends a
  generation, while ignore_eos is about `EOS` alone, if the vocabulary has one. The
  model may have been trained for less, or more, than the context. The limit of the server, `n_predict`, is chosen at the start. A request brings its own as
  n_predict or max_tokens. A value has the type that is asked for, or is one that
  json_value gives up on (InputsAssumption).

## 3. What each run checks

A property is stated, with the code it is about, above its definition. States
are distinct states; with two TLC workers no run takes more than a few minutes.

### Passing runs

| Run | Bounds | Properties | States |
|---|---|---|---|
| contention | 2 threads, 2 tasks, 1 slot, batch 2; streams, long and empty prompts, empty embeddings, prompts too large, bad grammars; decode succeeds or fails, no context shift, no continuous batching | ResultsAwaited, IdsAreCleanedUp, OneHome, ImplementsService | 1.54 M |
| batches | 2 threads, one may close, 3 tasks, 2 slots, batch 4; reranks of 2 documents, long prompts; decode succeeds or wants half a view, down to a view of 1, where it fails; no context shift, continuous batching; FairSpec | TypeOK, OwnLogits, RoundsAreComplete, NoSleepWhileProcessing, DeferredIsServed, ImplementsService, CallsReturn, TerminateEndsWorker | 307 k |
| text | 12 pieces, 7 sets of stop words, 4 tokens | TextTypeOK, OutputsAreWhole, StopsBeforeStopWord | 370 k |
| cache | prompts of 0-3, 6, 7 and 10 tokens, context 6, batch 3, chunk reuse, drafts of 1 and 2 tokens; shifts and cache_prompt by turns, or failing decodes without either | CacheTypeOK, ContextIsExact, PromptFits, LogitsAreComputed | 688 k |
| logger | 2 threads, 2 callbacks, 4 calls of setLogger, any overlap, any number of models loaded in between | LogTypeOK, SettingsInForce, MessagesReachLatest, OneCallbackLive | 733 k |
| slots | 2 models of 2 slots, one with a draft model; on the other 2 calls among 8 (completions of one, two and no prompts, embeddings, rankings of 3 documents and of none), with and without cache_prompt, a clock of 3 instants, 4 cached tokens, chunks of 1, views of 2 tokens or of all, a vocabulary with BOS only | LifeTypeOK, WorkersHaveServers, SlotsTypeOK, DeferredIsServable, CacheIsOfAdapters, PromptsAreWhole, AnswersAreOwn, ChoosesBest | 235 k |
| shared_dir | 3 processes, 2 versions, 3 files of 2 writes, Windows and not | LoaderTypeOK, UndisturbedLoads, CleanupDeletesOld, MappedIsNotWritten | 1.40 M |
| params | 4 inputs among 50 with good, absent, null and wrong values; a server limit of 2 or none; context 6, trained for 5, prompts of 1 and 5; two tokens of three end a generation | AcceptedIsSane, LimitsHold | 3.07 M |

What they show:

- **contention** - results go to those who wait and to no others; a completion
  that ended, failed or was cancelled leaves nothing behind; a task is in one
  place through deferrals, cancels and failures, so it runs once; and what callers observe is CompletionService: a result only
  while or after the task runs, streams in order, one end.
- **batches** - each slot samples from its own logits however the batch was cut
  into views, halved, given up and begun again; no round ends with work half
  done; the worker never sleeps on work; a deferred task is handed back; and callers of rerank, whose documents run
  side by side, observe CompletionService, too. Under fairness, who waits is
  answered, through deferrals, retries and failed decodes, unless the model is
  closed; and a terminate() that meets the running loop ends it.
- **text** - no byte from the first stop word on is ever streamed, and outputs are
  whole characters, wherever tokens cut words and characters.
- **cache** - what is in the KV cache at every decode is exactly the request's own
  (truncated, shifted) text, also when part of a draft was refused; prompts fit;
  there is always something to sample from.
- **logger** - as long as no call of setLogger met another or a message, the last
  callback is the one that is called, through a live reference, GGML messages go
  where it was asked until the next loadModel takes them to the common log, and one
  reference is live at most.
- **slots** - no worker starts without its server, whatever fails; a task gets an
  idle slot that holds most of its prompt, or else the one idle for longest, and
  none waits beside an idle slot (except after two events in one microsecond, or a
  launch that failed); cached cells are those of the adapters in use, whatever
  shared the batch; prompts of every shape are tokenized whole; and embed and rerank
  answer each caller from its own prompt and each document by the row of the prompt
  made of it (what that prompt looks like is not the property's concern, see below).
- **shared_dir** - a whole library that is mapped is not written to; who is not disturbed loads its
  own library, whatever killed processes left behind.
- **params** - what is accepted from any JSON is fit for the sampler, and limits on
  both sides hold to the end of a generation, also when a draft adds tokens in bulk.

**Why the bounds are enough to be interesting.** Two threads over one slot is the
smallest contention for a slot, and a rerank among others defers one task behind
another. Two slots is the smallest batch with two owners, and a batch of 2 or 4
against prompts of 3 splits a prompt over rounds and a batch over views. A view of
4 is halved twice. Two generated tokens let a stream be cancelled between two
outputs. In TextStream four tokens of several bytes are more than the longest
stop word and the longest character have. In PromptCache a context of 6 with
prompts up to 10 loses one block and several, and a generation shifts more than
once. Every property of every passing run has a mutant - a plausible error in a
mapped definition, listed in `PROJECT.json` - that TLC finds with the run's own
configuration, so the bounds are known to reach the case each property is about.
In ServerSlots two calls are up to six tasks on two slots: enough to defer, to
share a batch, to go on from the cache of another and to be cut by a view. The
run's constraint OthersWait keeps other models from coming and going while this one
has calls; they share nothing with its slots. Names of bounds: MaxTasks, MaxDecoded
(server and text), MaxSets, MaxFiles, MaxInputs, MaxCalls, MaxClock, MaxCached,
ViewSizes.

**Deadlock** is checked except where the system really may stop. In `contention` a
caller may ask an iterator for more after it threw, and `recv` waits for an id
nobody will answer. In `batches` the worker ends at a close() while others wait.
Threads that have used up every id stutter in `Finished`. LogCallback,
LibraryExtraction, RequestParams and ServerSlots (with the procedures of
ModelLifecycle) end when what they do is done or their bounds are reached.

**Fairness** (FairSpec of LlamaServer): weak fairness of the worker, and of each
thread inside a native method. The operating system runs every thread that can
run, a mutex is held only for a few assignments, and llama_decode returns. Weak
fairness is enough, since a waiter in `recv` stays enabled once its result is
there. Nothing is assumed of callers: that they go on with an iterator
(`NextOutput`), abandon or cancel it is their choice, and so is what parameters
lead to (`Reject`). The callers of `batches` do not stream, so none of them asks
an iterator for more after an exception.

### Where the code and its own words part

Each of these runs checks one statement that a comment or the documentation makes, and TLC finds a
behaviour of the code that breaks it. The quoted lines are in `PROJECT.json`.

| Run | Property | What happens |
|---|---|---|
| cancel_pending | CancelledIsNotPending | the clean-up looks at `id_target`, which is -1 in a request, so a cancelled task stays queued and is run |
| held_back | StreamIsComplete | text held back as the possible start of a stop word is lost to a stream when the generation ends |
| failed | ReusedIsComputed | tokens count as cached before the decode that then fails, and the next prompt reuses them |
| json_logger | JsonKeepsGgmlOut | setLogger in JSON mode does not take the trampoline of an earlier text mode away, so GGML messages reach the JSON callback instead of stdout |

Without cache_prompt a failed decode does no harm (`cache`).

### Behaviours that are in the model and that no run states

They follow from the code, and the properties above are worded around them:

- A deferred task whose grammar is refused uses up the wake-up of the one behind
  it (`LaunchFails`); DeferredIsServed holds, and is proved, for grammars that parse.
- Results of embed and rerank are never `is_stop()`, so their ids are never
  removed (`ReceiveScored`).
- An embedding with an empty prompt is answered like a completion, by
  send_final_response (server.hpp lines 2844-2850). embed then reads the key
  `embedding` of a const value that has none (jllama.cpp line 643), where JSON_ASSERT,
  which utils.hpp line 17 makes GGML_ASSERT, may end the process. In the model the call
  returns and the others go on (`ReceiveFinal`): EmptyEmbed is a request of contention,
  not of batches, where CallsReturn is checked.
- start_loop sets `running` again after a terminate() that came too early
  (`StartLoop`).
- A token that completes a stop word and begins a character is not searched, and
  the next search starts behind the word (`ProcessIncomplete`); `missed` remembers it.
- `resize(n_past)` lengthens an empty `cache_tokens` with zeros (`Resize`), which a
  later request with cache_prompt takes for the token 0 in these cells; the overflow check comes one token before the limit of process_token
  (`ContextIsFull`).
- setLogger(null) leaves a deleted reference in `o_log_callback`; a message in the
  trampoline may meet a setLogger; common_init() of a loadModel takes GGML messages
  away from a callback in text mode; JNI_OnUnload deletes one class twice and another never.
- Arguments that cannot be parsed leave a constructed object without a model;
  init() cannot report that it gave up; a draft model that does not load a second time
  ends the process; the server_context is never deleted.
- Two processes may replace the same file between each other's steps; on Windows a
  mapped file cannot be replaced; elsewhere nothing is cleaned up, since the name
  begins with `lib`.
- n_predict = -2 ends with the first token, while InferenceParameters.java line 92 and
  ModelParameters.java line 122 say "-2 = until context filled": has_budget subtracts
  from it as from any limit.
- A trigger word that is one token loses both its word and its token: server.hpp line
  384 assigns the number to the string `value`, of which it becomes one char, and
  `token` is never set (`AsToken`).
- An end-of-generation token other than EOS ends a generation with ignore_eos, too.
- An empty map does not override an earlier
  bias; an n_probs of 0 is taken for none; a bias of -Infinity is no JSON, and the
  parse is outside of the try block.
- A deferred task stays behind an idle slot when a release and the search for a slot
  fall into one microsecond (`DeferTask`), until the next release.
- rerank tokenizes query and documents with their special tokens and format_rerank
  adds its own, so that both come twice, while the comment at utils.hpp line 247
  has `[BOS]query[EOS][SEP]doc[EOS]`. AnswersAreOwn does not approve of either form:
  it compares a score with the row of the prompt that the code made. A document that is given twice has one entry in the map. A
  character beyond U+FFFF in a document is ranked as its two halves.
- embed of a model that does not pool returns the row of the first token, which is
  BOS. A prompt that the end of a view cuts, after llama_decode had the batch
  halved, is embedded or ranked by what the last view holds of it.
- A completion of several prompts is refused after its tasks were posted (`Call`).
- n_decoded counts what a draft brought, also what process_token never saw
  (`Speculate`).

Three more follow from the code and are outside of the models. receiveCompletion
looks for `probs`, `tok_str` and `prob` in completion_probabilities, where to_json
writes `top_logprobs`, `token` and `logprob`: a request with n_probs above 0, as
LlamaOutput describes it, reads keys that are not there. setUseChatTemplate says
that generate applies a template; nothing in requestCompletion does. rerank
without documents ranks one empty prompt and reads element 0 of an empty vector: the model has
the ranking, and AnswersAreOwn leaves out what the read returns.

## 4. What is proved

The constants are arbitrary in every theorem: any number of threads, slots and
requests, any batch and context size. The assumptions are the ones the modules
name, and TLC evaluates them in the runs: MaxTasksAssumption and WorkerAssumption
(the constants have their types, there is a slot and room in a batch),
LifecycleAssumption and SlotsAssumption (the same for models and their slots: calls have
the shapes that jllama.cpp accepts, the model is loaded without a draft model, and views
hold a token at least),
NativeCallsAssumption (only reranks have several tasks, only completions stream or
have grammars, and the prompt of a rerank is never empty, as it has special tokens), NonCausalFits (an embedding that
passed the size checks fits an empty batch: llama.cpp's n_ubatch <= n_batch),
CacheAssumption (a context of more than 4 tokens), TextAssumption (a stop word does
not begin within a character: they come from Java strings), LogAssumption and
LoaderAssumption (types, and that a library takes a write at least),
ParamsAssumption (types, and a prompt shorter than the context) and InputsAssumption (what is not of the type asked for
counts as wrong). Two theorems have a hypothesis of their own, in the table;
ReuseIsSafe is defined and explained in PromptCacheProofs.

| Theorem | Module | Property |
|---|---|---|
| TypeCorrect | LlamaServerProofs | TypeOK |
| ResultsAreAwaited | LlamaServerProofs | ResultsAwaited |
| TasksHaveOneHome | LlamaServerProofs | OneHome |
| WorkerStaysAwake | LlamaServerProofs | NoSleepWhileProcessing |
| DeferredTasksAreServed | LlamaServerProofs | DeferredIsServed, if all grammars parse |
| LogitsAreOwn | LlamaServerProofs | OwnLogits |
| RoundsEndComplete | LlamaServerProofs | RoundsAreComplete |
| EndedIdsAreCleanedUp | ServiceProofs | IdsAreCleanedUp |
| ServerImplementsService | ServiceProofs | ImplementsService |
| CleanupKeeps | LlamaServerProofs | what cleanup_pending_task leaves of any deque |
| TextTypeCorrect | TextStreamProofs | TextTypeOK |
| NothingBehindStopWords | TextStreamProofs | StopsBeforeStopWord |
| OutputsEndWithCharacters | TextStreamProofs | OutputsAreWhole |
| PromptsFit | PromptCacheProofs | PromptFits |
| CacheTypeCorrect | PromptCacheProofs | CacheTypeOK |
| LogitsComputed | PromptCacheProofs | LogitsAreComputed |
| ContextsAreExact | PromptCacheProofs | ContextIsExact, if ReuseIsSafe |
| LifecycleTypeCorrect | ServerSlotsProofs | LifeTypeOK |
| WorkersStartWithServers | ServerSlotsProofs | WorkersHaveServers |
| CachesAreOfAdapters | ServerSlotsProofs | CacheIsOfAdapters |
| SlotsTypeCorrect | ServerSlotsProofs | SlotsTypeOK |
| IdleSlotsAreServed | ServerSlotsProofs | DeferredIsServable |
| PromptsStayWhole | ServerSlotsProofs | PromptsAreWhole |
| AnswersStayOwn | ServerSlotsProofs | AnswersAreOwn |
| SlotsAreBest | ServerSlotsProofs | ChoosesBest |
| LcsIsLongest | ServerSlotsProofs | Lcs is the length of a longest common subsequence |
| LogTypeCorrect | LogCallbackProofs | LogTypeOK |
| SettingsAreInForce | LogCallbackProofs | SettingsInForce |
| MessagesReachTheLatest | LogCallbackProofs | MessagesReachLatest |
| OneReferenceLives | LogCallbackProofs | OneCallbackLive |
| LoaderTypeCorrect | LibraryExtractionProofs | LoaderTypeOK |
| MappedStaysWhatItWas | LibraryExtractionProofs | MappedIsNotWritten |
| UndisturbedProcessesLoad | LibraryExtractionProofs | UndisturbedLoads |
| CleanupLeavesNone | LibraryExtractionProofs | CleanupDeletesOld |
| AcceptedParamsAreSane | RequestParamsProofs | AcceptedIsSane |
| GenerationsStayInLimits | RequestParamsProofs | LimitsHold |

- **TypeInv** strengthens TypeOK. `at` walks beyond the last slot, so each action
  that indexes a slot needs `AtASlot`; a prompt is filled by subtraction, so
  n_past stays a number only because no prompt is batched past its end
  (`PastInPrompt`); a thread takes results only while it waits for some
  (`Waiting`) and its ids were drawn from the counter (`Numbered`).
- **HomeInv** strengthens OneHome. That posting a request makes no second copy
  needs that ids being made are nowhere yet and below the counter (`Drawn`), that
  no two threads have the same id (`Unshared`), and that only inference tasks
  have names (`Named`). LlamaServerProofs begins with what deques do under push,
  pop and clean-up: CleanupPendingTask is a recursive function over the length of a deque,
  and facts about it are proved by looking at the least length at which one
  would fail (a least-element argument, since the library's induction theorems
  take an operator as a parameter and cannot be instantiated).
- **WakeInv** strengthens NoSleepWhileProcessing: between update_slots and the
  next wait a NEXT_RESPONSE is in the queue or in the worker's hands whenever a
  slot works (`Awake`).
- **ServedInv** adds that the tasks anywhere have grammars that parse. Without
  that, DeferredIsServed is false: see `LaunchFails` above.
- **RoundInv** strengthens OwnLogits and RoundsAreComplete. `i_batch` is an index
  into a batch that is cut into views, given up and begun again, so what must hold
  is said of every slot that waits for logits, at every place of the loops over
  slots: its index is that of its own last token, and that token lies in no view
  that was done (`LogitsOwed`). A prompt that is not done has tokens left
  (`PromptsCounted`), and where the worker is tells how far the batch is (`Places`).
- **ServiceInv** is what the refinement needs beside HomeInv. Tasks and slots carry
  what their caller asked (`FormedInv`); only completions generate, and a slot is
  released before its last reply (`CausalInv`); only what process_single_task began
  is in a slot or was heard of, and no two slots have one id (`BegunInv`); what a
  caller heard and what is still queued for it are, one after the other, outputs
  that grow and then an end, and a slot that works has said no end (`HeardInv`); an
  id whose caller knows the end is being removed by its own thread (`RemovedInv`,
  from which IdsAreCleanedUp follows). The refinement then goes step by step: an
  action of the server is one step of CompletionService, or stutters.
- **TextInv** says what a search that only looks at a window must leave behind. In the
  text that was searched no stop word stands (`NoneStands`), and in what was sent no
  stop word can begin, whatever follows: at each of its positions every stop word
  already differs from the text (`SentIsSafe`, which a longer text cannot undo). So a
  word that stands in the text after a token begins behind what was sent and ends in
  the token, and the window of find_stopping_strings reaches back to it
  (NewStopIsFound); if nothing is found and no partial stop is either, all may be
  sent. StreamInv says that what was sent is a beginning of what was sampled, and
  WholeInv that outputs end between characters: validate_utf8 sees to that, or the
  stop word that cuts the text off and begins a character itself.
- **SlotInv** of PromptCache strengthens CacheTypeOK, PromptFits and
  LogitsAreComputed. Truncation is arithmetic: integer division by the block size,
  for every n_ctx above 4 and every n_keep. Behind it, the invariant follows the
  search for chunks through a `cache_tokens` that no longer is what the cells hold
  (`Found`: the first n_past of it are the prompt's), says that a prompt being
  batched has tokens left and no cells behind n_past (`PartLeft`), and that a slot
  believes its cells to hold the context where it caches, and fills its list with
  zeros where it does not (`Believed`). Common prefixes are CHOOSE of a longest one
  in the model; that it exists, and agrees with both lists, is proved by a
  least-element argument, too.
- **ExactInv** is why ContextIsExact holds. Once a request has a batch, cells and
  batch together hold the context and nothing else. Before, and between requests,
  every token that counts as cached must be in its cell (`CachedIsComputed`), except
  in the gap that a moved chunk leaves between n_past and head_c (`InGap`), of which
  nothing is believed any more when the search ends. The hypothesis **ReuseIsSafe**
  names the two ways in which the code breaks that: a decode that fails after its
  tokens were counted (the run `failed`), and a vocabulary with a token 0 that the
  zeros of `resize` are taken for, when requests with cache_prompt follow others
  without. Where no request asks for cache_prompt, ReuseIsSafe holds and decodes
  may fail.
- **LifeInv** ties what a model has to how far its loadModel came (`Staged`), since
  a worker is complete only because each stage left something behind.
- **AdaptersInv** carries the adapters of a slot's cells through launches and rounds:
  a launch forgets cells when the adapters change, and what shares a batch has the
  adapters of its opener. Which slot is chosen does not matter here; that a slot
  exists comes from LifeInv.
- **SlotsInv** is LifeInv and AdaptersInv with what the answers of embed and rerank
  need. Every task in the queue, deferred or in a slot is one of a call that was made:
  its index is that of a prompt of the call, and its tokens are this prompt's (`Tasks`).
  PromptsAreWhole follows from that and from what tokenize_input_prompts makes of JSON
  of each shape. Every result that was heard is an answer to its call (`IsAnswer`); an
  answer is said of each result, while AnswersAreOwn is about the map that a
  caller makes of them. `WorkerRan` says that slots are at work and tasks deferred only
  once the worker was in its loop, when init adds no more idle slots. `IdleAreServed` says the same as DeferredIsServable
  without that condition: a deferral finds no idle slot (or is noted as `stranded`), a
  release hands a task back for each slot that becomes idle, and a launch takes a task
  and a slot at once, which is where the search must be known: LeastRecent finds a
  slot whenever one was idle before this instant.
  That a result is an answer follows a slot through a round: the batch is a sequence
  of blocks, one per slot (`IsBatch`), in which each slot's tokens stand in their
  order; the view of its last token holds an end of its block (`ViewIs`), all of it if
  it holds the first token; and the outputs of a slot in a view are in this order
  (`InOrderIs`), so that the last is that of the last token.
- **The search for a slot** is proved from what its loops compute. MostSimilar and
  LeastRecent are recursive functions over the slots seen so far, and what they hold
  after each slot is shown by induction up to a number (UpTo: a set that holds 0, and
  k when it holds k - 1, holds all up to n; it is itself proved from the least number
  that it would not hold). LcsIsLongest shows the same of the table of common_lcs, two
  inductions deep: a row for each token of one sequence, a cell for each of the other.
  Sequences put together by folds (FlattenSeq) are handled likewise.
- **LogInv** speaks of the runs in which no setLogger met another or a message. There
  a setLogger has the variables for itself (`Alone`), so that what it did so far can be
  told from where it is (`DoneSoFar`), and a message is in the trampoline only while
  the settings name a callback (`Routed`). What is in force between two calls is then what the
  last one asked for (`BetweenInForce`), and the live reference, if there is one, is
  the one in `o_log_callback`. LogTypeInv adds which branch a call took.
- **ExtractionInv** has a part for all processes, FileInv: who writes has a file open,
  and only who has loaded has something mapped (`Opened`, `Loaded`). The other part is for those
  that nobody disturbed: where such a process is tells what is under the name, which
  version it has and whether it is whole (`Advanced`). Files that grow or appear leave
  the others as they were (`FilesKept`).
- **ParamsInv** says what was accepted and what a generation has used: params are those
  of the map that was parsed, completed by launch, and after each round that goes on
  both counts are below the limits (`GoesOn`), which leaves room for the token, or the
  draft, that comes next.

Each invariant is shown to hold initially and to be preserved by every action,
with a step per action of the worker and of a thread; the temporal step combines
these with PTL.

**Only model-checked**: CallsReturn and TerminateEndsWorker, which are out of the
prover's reach (liveness under fairness, ENABLED). Every invariant and every action
property of the passing runs, and the refinement, is stated by a theorem. TLC found
SlotsInv to be an invariant of the run `slots` before it was proved.

## 5. What is not modelled, and why

- Chat templates, grammars, JSON schemas, detokenization: pure functions of
  llama.cpp, of which the native methods keep nothing. An exception in one of
  applyTemplate or jsonSchemaToGrammar leaves the native frame, as in `Terminate`.
- base64 and the infill format of utils.hpp: jllama.cpp never asks for them.
- Token probabilities and timings: no control depends on them.
- OpenAI-compatible formats: formatting, and jllama.cpp asks for
  OAICOMPAT_TYPE_NONE everywhere.
- Tasks that jllama.cpp never posts: metrics, slot save, restore and erase, LoRA
  changes; `recv_with_timeout` and `remove_waiting_task_ids`, which it never calls.
- A draft model beside other slots: PromptCache and RequestParams have one slot, so
  that a slot whose token lies in a later view never speculates before that view
  is decoded, as it may in the code.
- Time limits of requests, which no setter reaches. Requests that name a slot or
  bring LoRA adapters of their own, for which there are no setters either, so that
  completions use the adapters of the model, and embed and rerank none.
- The order of log messages, the detection of the platform (OSInfo,
  ProcessRunner), the Metal file of macOS.
- Task ids that wrap after 2^31: ids are numbers below a bound.

## 6. Plan

The core came first, since nothing else matters if a task is lost: queues, worker
and native calls (done), then a slot's text and context (done), then loading,
logging and parameters (done), then the choice of slots, the answers of embed and
rerank and speculative decoding (done). What is left, in this order:

1. More of the system: the number of NEXT_RESPONSE tasks in the queue, several slots
   with a draft model, token probabilities in TextStream.
2. Several threads on one iterator, if the repository comes to say what it promises
   of them, and the ids' 32 bits.
