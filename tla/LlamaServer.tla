----------------------------- MODULE LlamaServer -----------------------------
(***************************************************************************)
(* One loaded model at work: the worker thread (ServerWorker) and the Java *)
(* threads (NativeCalls) over the task queue and the results they share.   *)
(***************************************************************************)
EXTENDS ServerWorker, NativeCalls

\* llama.cpp makes n_ubatch at most n_batch, so an embedding or a rerank that
\* passes the size checks fits into an empty batch.
ASSUME NonCausalFits ==
    \A r \in Requests : r.type # "COMPLETION" /\ r.fits => r.n_prompt <= NBatch

vars == <<queueVars, responseVars, workerVars, clientVars>>

TypeOK == QueueTypeOK /\ ResponseTypeOK /\ WorkerTypeOK /\ ClientTypeOK
Init   == QueueInit /\ ResponseInit /\ WorkerInit /\ ClientInit

\* The bounded model is used up: no id is left and nobody is waiting.
Finished ==
    /\ \A t \in Threads : cpc[t] \in {"idle", "closed"}
    /\ \A r \in Requests : id + r.docs > MaxTasks
    /\ wpc \in {"wait", "end"}
    /\ UNCHANGED vars

Next ==
    \/ Worker /\ UNCHANGED clientVars
    \/ \E t \in Threads : (Native(t) \/ Caller(t)) /\ UNCHANGED workerVars
    \/ Finished

Spec == Init /\ [][Next]_vars

\* The operating system runs every thread that can run, and llama_decode
\* returns. Callers owe the model nothing.
Fairness ==
    /\ WF_vars(Worker /\ UNCHANGED clientVars)
    /\ \A t \in Threads : WF_vars(Native(t) /\ UNCHANGED workerVars)

FairSpec == Spec /\ Fairness

-----------------------------------------------------------------------------
(* Safety *)

RunningIds == {id_task[s] : s \in {u \in Slots : IsProcessing(u)}}
CurId == IF wpc = "process" THEN {cur.id} \ {NoTask} ELSE {}
PendingIds == IdsIn(queue_tasks) \cup IdsIn(queue_tasks_deferred) \cup CurId
BeingMade == UNION {ids[t] : t \in {u \in Threads : cpc[u] \in {"register", "post"}}}

NoDuplicate(q) ==
    \A j, k \in DOMAIN q : q[j].id = q[k].id /\ q[j].id # NoTask => j = k

\* A task is in one place: in the queue, deferred, in the worker's hands or in
\* one slot. So it is never run twice, whatever cancels, deferrals and failed
\* decodes happen on the way (post, defer, pop_deferred_task, launch, release).
OneHome ==
    /\ NoDuplicate(queue_tasks)
    /\ NoDuplicate(queue_tasks_deferred)
    /\ IdsIn(queue_tasks) \cap IdsIn(queue_tasks_deferred) = {}
    /\ (IdsIn(queue_tasks) \cup IdsIn(queue_tasks_deferred)) \cap CurId = {}
    /\ PendingIds \cap RunningIds = {}
    /\ \A s, u \in Slots :
          IsProcessing(s) /\ IsProcessing(u) /\ id_task[s] = id_task[u] => s = u

\* Results are stored only under ids somebody waits for: remove_waiting_task_id
\* takes the results along, and send() looks at the ids under the same lock.
ResultsAwaited ==
    \A i \in TaskIds : queue_results[i] # <<>> => i \in waiting_task_ids

\* The worker does not sleep on an empty queue while a slot has work: the
\* NEXT_RESPONSE that update_slots posts keeps start_loop going.
NoSleepWhileProcessing ==
    wpc = "wait" /\ queue_tasks = <<>> => \A s \in Slots : ~IsProcessing(s)

\* A deferred task is not forgotten: a slot will be released, or a task is on
\* its way to a slot, so that pop_deferred_task is called again.
DeferredIsServed ==
    queue_tasks_deferred # <<>> =>
        \/ \E s \in Slots : IsProcessing(s)
        \/ IdsIn(queue_tasks) # {}
        \/ CurId # {}

\* The logits a slot samples from are those of its own last token, in the part
\* of the batch just decoded, although i_batch is neither reset with the slot
\* nor after a failed decode.
OwnLogits ==
    wpc = "view" =>
        \A s \in at..NSlots : HasLogits(s) =>
            /\ batch[i_batch[s] + 1] = s
            /\ \A k \in (i_batch[s] + 2)..Len(batch) : batch[k] # s

\* Between two calls of update_slots no prompt is left half-way into sampling
\* and no slot that generates still waits for logits: whatever views the batch
\* was cut into, every logit asked for was used.
RoundsAreComplete ==
    wpc \in {"tasks", "process", "update", "wait"} =>
        \A s \in Slots :
            /\ state[s] # "DONE_PROMPT"
            /\ state[s] = "GENERATING" => i_batch[s] = -1

\* Once an iterator is at its end or cancelled, or a caller was given a final
\* result or an exception, nothing is kept of the id, though the worker may still
\* run the task and answer. (Embeddings and ranks are no is_stop() results: embed
\* and rerank leave their ids behind, and so does a caller who drops an iterator.)
IdsAreCleanedUp ==
    \A i \in TaskIds : i \in waiting_task_ids \/ queue_results[i] # <<>> =>
        /\ \A t \in Threads : i \in ids[t] => cpc[t] # "finished"
        /\ got[i].end \in {"final", "error"} => \E t \in Threads : i \in ids[t]

\* The clean-up of post() leaves no trace of a cancelled task in the queues:
\* "if this is cancel task make sure to clean up pending tasks".
CancelledIsNotPending ==
    \A k \in DOMAIN queue_tasks : queue_tasks[k].type = "CANCEL" =>
        queue_tasks[k].id_target \notin
            IdsIn(queue_tasks) \cup IdsIn(queue_tasks_deferred)

-----------------------------------------------------------------------------
(* Refinement: what a caller observes is what CompletionService promises *)

Life(i) ==
    CASE i >= id \/ i \in BeingMade -> "unborn"
      [] i \in PendingIds           -> "pending"
      [] i \in RunningIds           -> "running"
      [] OTHER                      -> "over"

Service == INSTANCE CompletionService
             WITH Ids <- TaskIds,
                  life <- [i \in TaskIds |-> Life(i)],
                  heard <- got

\* Whatever the worker and the threads do, every task lives once and its caller
\* hears of it in order and to one end.
ImplementsService == Service!ServiceSpec

-----------------------------------------------------------------------------
(* Liveness *)

\* Every call that waits for a result gets one (or an exception), unless the
\* model is closed under it and its worker has ended.
CallsReturn ==
    \A t \in Threads : cpc[t] = "recv" ~> cpc[t] # "recv" \/ wpc = "end"

\* A terminate() that meets the running loop ends the worker thread, whatever
\* it is doing and however many slots it still serves.
TerminateEndsWorker == (wpc # "load" /\ ~running) ~> wpc = "end"
=============================================================================
