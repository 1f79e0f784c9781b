---------------------------- MODULE ServerWorker ----------------------------
(***************************************************************************)
(* The worker thread of a model: server_queue::start_loop, which calls     *)
(* process_single_task and update_slots of server_context. It alone        *)
(* touches the slots, and it meets the Java threads in the critical        *)
(* sections of ServerQueue and ServerResponse: an action holds at most one *)
(* of them, together with the thread-local work around it.                 *)
(*                                                                         *)
(* Tokens are counted, not named. Which idle slot a task gets (similarity, *)
(* least recently used) is left open here and said by ServerSlots. id_slot *)
(* and slot save/restore cannot be reached through the Java API; LoRA      *)
(* adapters are those of the model for every request of one kind; there is *)
(* no draft model (PromptCache has one).                                   *)
(***************************************************************************)
EXTENDS ServerQueue, ServerResponse

CONSTANTS
    NSlots,         \* n_parallel
    NBatch,         \* llama_n_batch(ctx)
    DecodeCodes,    \* what llama_decode may return: 0, 1 (no space), -1
    CtxShift,       \* params_base.ctx_shift
    ContBatching,   \* params_base.cont_batching
    MaxDecoded      \* bound: tokens a completion generates at most

ASSUME WorkerAssumption ==
    /\ NSlots \in Nat \ {0}
    /\ NBatch \in Nat \ {0}
    /\ DecodeCodes \subseteq {-1, 0, 1}
    /\ CtxShift \in BOOLEAN
    /\ ContBatching \in BOOLEAN
    /\ MaxDecoded \in Nat \ {0}

VARIABLES
    state,          \* per slot: server_slot.state
    id_task,        \* per slot: the task it runs, or ran last
    params,         \* per slot: the request of that task
    n_past,         \* per slot: prompt tokens put into batches so far
    n_decoded,      \* per slot: tokens generated
    i_batch,        \* per slot: its position in the batch, or -1
    batch,          \* the slot each token of the batch belongs to
    view,           \* i of the decode loop: where the batch view starts
    n_view,         \* n_batch of the decode loop, halved when space runs out
    slot_batched,   \* the slot others must be able to batch with, 0 if none
    wpc,            \* where the worker is
    at,             \* the slot the worker's current loop has come to
    cur,            \* the task the worker took from the queue
    reply           \* what is sent for the slot just released, and the loop
                    \* that goes on then

slotVars   == <<state, id_task, params, n_past, n_decoded, i_batch>>
batchVars  == <<batch, view, n_view, slot_batched>>
workerVars == <<slotVars, batchVars, wpc, at, cur, reply>>

Slots == 1..NSlots
SlotStates == {"IDLE", "STARTED", "PROCESSING_PROMPT", "DONE_PROMPT",
               "GENERATING"}
Pcs == {"load", "tasks", "process", "update", "shift", "sampled", "prompt",
        "decode", "failed", "view", "scored", "stop", "reply", "wait", "end"}
Reply == [kind: {"final", "error"}, loop: {"shift", "prompt", "failed", "view"}]
NoReply == [kind |-> "error", loop |-> "failed"]

SlotsTypeOK ==
    /\ state \in [Slots -> SlotStates]
    /\ id_task \in [Slots -> TaskIds \cup {NoTask}]
    /\ params \in [Slots -> Request]
    /\ n_past \in [Slots -> Nat]
    /\ n_decoded \in [Slots -> Nat]
    /\ i_batch \in [Slots -> Nat \cup {-1}]

BatchTypeOK ==
    /\ batch \in Seq(Slots)
    /\ view \in Nat
    /\ n_view \in Nat
    /\ slot_batched \in Slots \cup {0}

ControlTypeOK ==
    /\ wpc \in Pcs
    /\ at \in 1..(NSlots + 1)
    /\ cur \in Task
    /\ reply \in Reply

WorkerTypeOK == SlotsTypeOK /\ BatchTypeOK /\ ControlTypeOK

WorkerInit ==
    /\ state = [s \in Slots |-> "IDLE"]
    /\ id_task = [s \in Slots |-> NoTask]
    /\ params = [s \in Slots |-> NoRequest]
    /\ n_past = [s \in Slots |-> 0]
    /\ n_decoded = [s \in Slots |-> 0]
    /\ i_batch = [s \in Slots |-> -1]
    /\ batch = <<>> /\ view = 0 /\ n_view = NBatch /\ slot_batched = 0
    /\ wpc = "load" /\ at = 1 /\ cur = NextResponse /\ reply = NoReply

-----------------------------------------------------------------------------
(* Slots *)

IsProcessing(s) == state[s] # "IDLE"
IsNonCausal(s)  == params[s].type \in {"EMBEDDING", "RERANK"}
CanBatchWith(s, u) == IsNonCausal(s) = IsNonCausal(u)

\* Mutant: callback_on_release is not called.
ReleaseSilently(s) ==
    /\ state' = [state EXCEPT ![s] = "IDLE"]
    /\ UNCHANGED queueVars

\* server_slot::release: a processing slot becomes idle and hands one deferred
\* task back to the queue; an idle slot is left alone.
Release(s) ==
    /\ state' = [state EXCEPT ![s] = "IDLE"]
    /\ IF IsProcessing(s) THEN PopDeferredTask ELSE UNCHANGED queueVars

\* A result is sent under the id the slot holds. The id of a slot that never
\* ran a task is nobody's.
SendFor(s, kind, n) ==
    IF id_task[s] = NoTask THEN UNCHANGED responseVars
    ELSE Send(id_task[s], [kind |-> kind, n |-> n])

-----------------------------------------------------------------------------
(* Control *)

\* The worker goes on at pc; in a loop over the slots, with slot s.
WorkerAt(pc, s) == wpc' = pc /\ at' = s

\* It does nothing else.
Proceed(pc, s) ==
    /\ WorkerAt(pc, s)
    /\ UNCHANGED <<queueVars, responseVars, slotVars, batchVars, cur, reply>>

\* The slot s is released in one of the loops over the slots; its task will be
\* sent a result of the given kind before that loop goes on.
ReleaseInLoop(s, kind, loop) ==
    /\ Release(s)
    /\ reply' = [kind |-> kind, loop |-> loop]
    /\ WorkerAt("reply", s)
    /\ UNCHANGED <<responseVars, id_task, params, n_past, n_decoded, i_batch, cur>>

SendReply ==
    /\ wpc = "reply"
    /\ SendFor(at, reply.kind, IF reply.kind = "error" THEN 0 ELSE n_decoded[at])
    /\ reply' = NoReply
    /\ WorkerAt(reply.loop, at + 1)
    /\ UNCHANGED <<queueVars, slotVars, batchVars, cur>>

\* update_slots returns: what the batch holds is not read again before
\* common_batch_clear, so it is forgotten here.
EndUpdate ==
    /\ WorkerAt("wait", 1)
    /\ batch' = <<>> /\ view' = 0 /\ n_view' = NBatch /\ slot_batched' = 0
    /\ UNCHANGED <<queueVars, responseVars, slotVars, cur, reply>>

-----------------------------------------------------------------------------
(* start_loop *)

WorkerStart ==
    /\ wpc = "load"
    /\ StartLoop
    /\ WorkerAt("tasks", 1)
    /\ UNCHANGED <<responseVars, slotVars, batchVars, cur, reply>>

WorkerTakesTask ==
    /\ wpc = "tasks"
    /\ TakeTask
    /\ cur' = Head(queue_tasks)
    /\ WorkerAt("process", 1)
    /\ UNCHANGED <<responseVars, slotVars, batchVars, reply>>

WorkerDrained == wpc = "tasks" /\ running /\ queue_tasks = <<>> /\ Proceed("update", 1)
WorkerWakes == wpc = "wait" /\ running /\ queue_tasks # <<>> /\ Proceed("tasks", 1)
\* Mutant: terminate() does not wake a worker that waits.
WorkerMissesTerminate == wpc = "tasks" /\ ~running /\ Proceed("end", 1)

WorkerEnds == wpc \in {"tasks", "wait"} /\ ~running /\ Proceed("end", 1)

-----------------------------------------------------------------------------
(* process_single_task *)

\* The task has been dealt with; cur is not read again.
TaskDone == WorkerAt("tasks", 1) /\ cur' = NextResponse /\ UNCHANGED reply

\* An idle slot is reset and bound to the task, whether or not it then starts.
BindSlot(s) ==
    /\ ~IsProcessing(s)
    /\ id_task' = [id_task EXCEPT ![s] = cur.id]
    /\ params' = [params EXCEPT ![s] = cur.params]
    /\ n_past' = [n_past EXCEPT ![s] = 0]
    /\ UNCHANGED <<n_decoded, i_batch>>

LaunchSlotWithTask ==
    /\ wpc = "process" /\ cur.type = "INFERENCE"
    /\ cur.params.grammar
    /\ \E s \in Slots :
          BindSlot(s) /\ state' = [state EXCEPT ![s] = "STARTED"]
    /\ TaskDone
    /\ UNCHANGED <<queueVars, responseVars, batchVars>>

\* The grammar cannot be parsed: the slot stays idle and is not released.
LaunchFails ==
    /\ wpc = "process" /\ cur.type = "INFERENCE"
    /\ ~cur.params.grammar
    /\ \E s \in Slots : BindSlot(s)
    /\ Send(cur.id, [kind |-> "error", n |-> 0])
    /\ TaskDone
    /\ UNCHANGED <<queueVars, state, batchVars>>

\* Mutant: the task is dropped, not deferred.
DeferDrops ==
    /\ wpc = "process" /\ cur.type = "INFERENCE"
    /\ \A s \in Slots : IsProcessing(s)
    /\ TaskDone
    /\ UNCHANGED <<queueVars, responseVars, slotVars, batchVars>>

DeferTask ==
    /\ wpc = "process" /\ cur.type = "INFERENCE"
    /\ \A s \in Slots : IsProcessing(s)
    /\ Defer(cur)
    /\ TaskDone
    /\ UNCHANGED <<responseVars, slotVars, batchVars>>

\* The first slot that holds the target is released, if it still runs it.
ProcessCancel ==
    /\ wpc = "process" /\ cur.type = "CANCEL"
    /\ \/ /\ \A s \in Slots : id_task[s] # cur.id_target
          /\ UNCHANGED <<queueVars, state>>
       \/ \E s \in Slots :
             /\ id_task[s] = cur.id_target
             /\ \A u \in 1..(s - 1) : id_task[u] # cur.id_target
             /\ Release(s)
    /\ TaskDone
    /\ UNCHANGED <<responseVars, id_task, params, n_past, n_decoded, i_batch,
                   batchVars>>

ProcessNextResponse ==
    /\ wpc = "process" /\ cur.type = "NEXT_RESPONSE"
    /\ TaskDone
    /\ UNCHANGED <<queueVars, responseVars, slotVars, batchVars>>

-----------------------------------------------------------------------------
(* update_slots: before the batch *)

AllSlotsIdle ==
    wpc = "update" /\ (\A s \in Slots : ~IsProcessing(s)) /\ Proceed("wait", 1)

\* Mutant: nothing is posted.
NextResponseNotPosted ==
    /\ wpc = "update"
    /\ \E s \in Slots : IsProcessing(s)
    /\ WorkerAt("shift", 1)
    /\ UNCHANGED <<queueVars, responseVars, slotVars, batchVars, cur, reply>>

PostNextResponse ==
    /\ wpc = "update"
    /\ \E s \in Slots : IsProcessing(s)
    /\ PostBack(<<NextResponse>>)
    /\ WorkerAt("shift", 1)
    /\ UNCHANGED <<responseVars, slotVars, batchVars, cur, reply>>

\* Without context shift a generation that fills the context is given up. How
\* full the context is, PromptCache says; here any generation may fill it.
ContextOverflow ==
    /\ wpc = "shift" /\ ~CtxShift
    /\ \E s \in at..NSlots :
          state[s] = "GENERATING" /\ ReleaseInLoop(s, "error", "shift")
    /\ UNCHANGED batchVars

ContextsFit == wpc = "shift" /\ Proceed("sampled", 1)

-----------------------------------------------------------------------------
(* update_slots: the batch *)

\* A slot may enter the batch if the slot that opened it can be batched with it.
Batchable(s) == slot_batched # 0 => CanBatchWith(slot_batched, s)
JoinBatch(s) == slot_batched' = IF slot_batched = 0 THEN s ELSE slot_batched

\* The sampled token of the next slot that generates goes into the batch.
AddsToken(s) == state[s] = "GENERATING" /\ Batchable(s)

AddSampledToken ==
    /\ wpc = "sampled"
    /\ \E s \in at..NSlots :
          /\ AddsToken(s)
          /\ \A u \in at..(s - 1) : ~AddsToken(u)
          /\ batch' = Append(batch, s)
          /\ i_batch' = [i_batch EXCEPT ![s] = Len(batch)]
          /\ JoinBatch(s)
          /\ WorkerAt("sampled", s + 1)
    /\ UNCHANGED <<queueVars, responseVars, state, id_task, params, n_past,
                   n_decoded, view, n_view, cur, reply>>

SampledTokensAdded ==
    /\ wpc = "sampled"
    /\ \A s \in at..NSlots : ~AddsToken(s)
    /\ Proceed(IF ContBatching \/ batch = <<>> THEN "prompt" ELSE "decode", 1)

\* The loop over the slots that batches pending prompts is at slot s.
HasPrompt(s) ==
    state[s] \in {"STARTED", "PROCESSING_PROMPT"} /\ Batchable(s)
AtPromptOf(s) == wpc = "prompt" /\ at = s /\ HasPrompt(s)

\* No prompt here: the slot is idle, generates, or cannot join the batch. The
\* loop ends at a full batch, which the `continue` of the last case steps over.
PromptSkip ==
    /\ wpc = "prompt" /\ at <= NSlots /\ ~HasPrompt(at)
    /\ IF IsProcessing(at) /\ Batchable(at) THEN JoinBatch(at)
       ELSE UNCHANGED slot_batched
    /\ IF Len(batch) >= NBatch /\ (IsProcessing(at) => Batchable(at))
       THEN WorkerAt("decode", 1) ELSE WorkerAt("prompt", at + 1)
    /\ UNCHANGED <<queueVars, responseVars, slotVars, batch, view, n_view, cur,
                   reply>>

\* An empty prompt is answered with an empty final result, one too large for
\* the physical batch or the context with an error.
PromptRefused ==
    /\ \E s \in Slots :
          /\ AtPromptOf(s) /\ state[s] = "STARTED"
          /\ params[s].n_prompt = 0 \/ ~params[s].fits
          /\ JoinBatch(s)
          /\ ReleaseInLoop(s, IF params[s].n_prompt = 0 THEN "final" ELSE "error",
                           "prompt")
    /\ UNCHANGED <<batch, view, n_view>>

\* A prompt that is accepted now, or was before.
AtAccepted(s) ==
    /\ AtPromptOf(s)
    /\ state[s] = "STARTED" => params[s].n_prompt # 0 /\ params[s].fits
Waits(s) == IsNonCausal(s) /\ Len(batch) + params[s].n_prompt > NBatch

\* A non-causal prompt has to enter the batch as a whole, or waits.
PromptWaits ==
    /\ \E s \in Slots :
          /\ AtAccepted(s) /\ Waits(s)
          /\ JoinBatch(s)
          /\ state' = [state EXCEPT ![s] = "PROCESSING_PROMPT"]
    /\ WorkerAt("prompt", at + 1)
    /\ UNCHANGED <<queueVars, responseVars, id_task, params, n_past, n_decoded,
                   i_batch, batch, view, n_view, cur, reply>>

\* Where the logits of a prompt are whose last n tokens enter the batch now.
LastOfPrompt(n) == Len(batch) + n - 1

\* As many prompt tokens as fit go into the batch; with the last one of the
\* prompt the slot notes where its logits will be.
PromptFill ==
    /\ \E s \in Slots :
          LET room == IF Len(batch) < NBatch THEN NBatch - Len(batch) ELSE 0
              rest == params[s].n_prompt - n_past[s]
              n    == IF rest < room THEN rest ELSE room
              done == n = rest
          IN  /\ AtAccepted(s) /\ ~Waits(s)
              /\ JoinBatch(s)
              /\ batch' = batch \o [k \in 1..n |-> s]
              /\ n_past' = [n_past EXCEPT ![s] = @ + n]
              /\ state' = [state EXCEPT ![s] = IF done THEN "DONE_PROMPT"
                                               ELSE "PROCESSING_PROMPT"]
              /\ n_decoded' = [n_decoded EXCEPT ![s] = IF done THEN 0 ELSE @]
              /\ i_batch' = [i_batch EXCEPT ![s] = IF done THEN LastOfPrompt(n)
                                                   ELSE @]
              /\ IF Len(batch) + n >= NBatch THEN WorkerAt("decode", 1)
                 ELSE WorkerAt("prompt", s + 1)
    /\ UNCHANGED <<queueVars, responseVars, id_task, params, view, n_view, cur,
                   reply>>

PromptsBatched == wpc = "prompt" /\ at > NSlots /\ Proceed("decode", 1)

-----------------------------------------------------------------------------
(* update_slots: the decode loop *)

NoTokens == wpc = "decode" /\ batch = <<>> /\ EndUpdate

\* The view [view, ViewEnd) of the batch is decoded.
ViewEnd == IF view + n_view < Len(batch) THEN view + n_view ELSE Len(batch)

DecodeSucceeds ==
    wpc = "decode" /\ batch # <<>> /\ 0 \in DecodeCodes /\ Proceed("view", 1)

\* Mutant: the halved round starts where the failed one ended.
DecodeHalvesSkips ==
    /\ wpc = "decode" /\ batch # <<>>
    /\ 1 \in DecodeCodes /\ n_view # 1
    /\ n_view' = n_view \div 2
    /\ view' = view + n_view \div 2
    /\ WorkerAt("decode", 1)
    /\ UNCHANGED <<queueVars, responseVars, slotVars, batch, slot_batched,
                   cur, reply>>

\* No space for the view: `n_batch /= 2; i -= n_batch; continue` starts the
\* next round at the same i, because the loop adds the halved n_batch again.
DecodeHalves ==
    /\ wpc = "decode" /\ batch # <<>>
    /\ 1 \in DecodeCodes /\ n_view # 1
    /\ n_view' = n_view \div 2
    /\ WorkerAt("decode", 1)
    /\ UNCHANGED <<queueVars, responseVars, slotVars, batch, view, slot_batched,
                   cur, reply>>

DecodeFails ==
    /\ wpc = "decode" /\ batch # <<>>
    /\ -1 \in DecodeCodes \/ (1 \in DecodeCodes /\ n_view = 1)
    /\ Proceed("failed", 1)

\* Mutant: the error is sent but the slot goes on.
ErrorWithoutRelease ==
    /\ wpc = "failed" /\ at <= NSlots
    /\ reply' = [kind |-> "error", loop |-> "failed"]
    /\ WorkerAt("reply", at)
    /\ UNCHANGED <<queueVars, responseVars, slotVars, batchVars, cur>>

\* Every slot, idle ones too, is released and its task told of the error.
ReleaseFailed ==
    /\ wpc = "failed" /\ at <= NSlots
    /\ ReleaseInLoop(at, "error", "failed")
    /\ UNCHANGED batchVars

FailedDone == wpc = "failed" /\ at > NSlots /\ EndUpdate

\* Mutant: an i_batch left over is taken for a fresh one.
HasLogitsInAnyState(s) == view <= i_batch[s] /\ i_batch[s] < ViewEnd

\* The loop over the slots after a decoded view comes to those whose logits
\* are in the view.
HasLogits(s) ==
    /\ view <= i_batch[s] /\ i_batch[s] < ViewEnd
    /\ state[s] \in {"DONE_PROMPT", "GENERATING"}
NextWithLogits(s) ==
    wpc = "view" /\ s >= at /\ HasLogits(s) /\ \A u \in at..(s - 1) : ~HasLogits(u)
IsScored(s) == state[s] = "DONE_PROMPT" /\ IsNonCausal(s)

\* An embedding or a rank is sent before its slot is released.
SendScored ==
    /\ \E s \in Slots :
          /\ NextWithLogits(s) /\ IsScored(s)
          /\ SendFor(s, "scored", 0)
          /\ WorkerAt("scored", s)
    /\ UNCHANGED <<queueVars, slotVars, batchVars, cur, reply>>

ReleaseScored ==
    /\ wpc = "scored"
    /\ Release(at)
    /\ i_batch' = [i_batch EXCEPT ![at] = -1]
    /\ WorkerAt("view", at + 1)
    /\ UNCHANGED <<responseVars, id_task, params, n_past, n_decoded, batchVars,
                   cur, reply>>

\* send_partial_response for the token just counted.
SendPartial(s) == SendFor(s, "partial", n_decoded[s] + 1)

\* A token is sampled. process_token streams it, unless the text ends within a
\* character, and decides whether the generation goes on.
SampleToken(streamed, goesOn) ==
    /\ \E s \in Slots :
          /\ NextWithLogits(s) /\ ~IsScored(s)
          /\ state' = [state EXCEPT ![s] = "GENERATING"]
          /\ i_batch' = [i_batch EXCEPT ![s] = -1]
          /\ n_decoded' = [n_decoded EXCEPT ![s] = @ + 1]
          /\ goesOn => n_decoded[s] + 1 < MaxDecoded
          /\ streamed => params[s].stream
          /\ IF streamed THEN SendPartial(s) ELSE UNCHANGED responseVars
          /\ IF goesOn THEN WorkerAt("view", s + 1) ELSE WorkerAt("stop", s)
    /\ UNCHANGED <<queueVars, id_task, params, n_past, batchVars, cur, reply>>

ReleaseStopped ==
    wpc = "stop" /\ ReleaseInLoop(at, "final", "view") /\ UNCHANGED batchVars

\* All slots seen: the next view of the batch, or the end of update_slots.
ViewDone == wpc = "view" /\ \A s \in at..NSlots : ~HasLogits(s)

NextView ==
    /\ ViewDone /\ view + n_view < Len(batch)
    /\ view' = view + n_view
    /\ WorkerAt("decode", 1)
    /\ UNCHANGED <<queueVars, responseVars, slotVars, batch, n_view,
                   slot_batched, cur, reply>>

LastView == ViewDone /\ view + n_view >= Len(batch) /\ EndUpdate

-----------------------------------------------------------------------------
Worker ==
    \/ WorkerStart \/ WorkerTakesTask \/ WorkerDrained \/ WorkerWakes
    \/ WorkerEnds
    \/ LaunchSlotWithTask \/ LaunchFails \/ DeferTask \/ ProcessCancel
    \/ ProcessNextResponse
    \/ AllSlotsIdle \/ PostNextResponse \/ ContextOverflow \/ ContextsFit
    \/ AddSampledToken \/ SampledTokensAdded
    \/ PromptSkip \/ PromptRefused \/ PromptWaits \/ PromptFill
    \/ PromptsBatched
    \/ NoTokens \/ DecodeSucceeds \/ DecodeHalves \/ DecodeFails
    \/ ReleaseFailed \/ FailedDone
    \/ SendScored \/ ReleaseScored
    \/ \E streamed, goesOn \in BOOLEAN : SampleToken(streamed, goesOn)
    \/ ReleaseStopped \/ NextView \/ LastView
    \/ SendReply
=============================================================================
