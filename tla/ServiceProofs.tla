---------------------------- MODULE ServiceProofs ----------------------------
(***************************************************************************)
(* The server keeps what CompletionService promises, and nothing is kept of *)
(* an id whose call is over, for every number of threads, slots and requests. *)
(* The induction follows a task from its call to its slot (FormedInv), says *)
(* which ids the worker has begun (BegunInv), what has been sent for a slot *)
(* that will send more (HeardInv) and who removes an id after its last result *)
(* (RemovedInv).                                                           *)
(***************************************************************************)
EXTENDS LlamaServerProofs

-----------------------------------------------------------------------------
(* The tasks that are on their way to a slot *)

TasksIn(q) == {q[k] : k \in DOMAIN q}
HeldTasks == TasksIn(queue_tasks) \cup TasksIn(queue_tasks_deferred) \cup {cur}

\* What the operations on deques do to the tasks they hold.
LEMMA TasksOfConcat ==
  ASSUME NEW p \in Seq(Task), NEW q \in Seq(Task)
  PROVE  TasksIn(p \o q) = TasksIn(p) \cup TasksIn(q)
<1> DEFINE r == p \o q
<1>1. /\ Len(p) \in Nat /\ Len(q) \in Nat /\ r \in Seq(Task) /\ Len(r) = Len(p) + Len(q)
      /\ \A k \in 1..(Len(p) + Len(q)) : r[k] = IF k <= Len(p) THEN p[k] ELSE q[k - Len(p)]
  BY ConcatProperties
<1>2. /\ DOMAIN p = 1..Len(p) /\ DOMAIN q = 1..Len(q) /\ DOMAIN r = 1..(Len(p) + Len(q))
  BY <1>1
<1> HIDE DEF r
<1>3. \A k \in DOMAIN p : k \in DOMAIN r /\ r[k] = p[k]
  BY <1>1, <1>2
<1>4. \A k \in DOMAIN q : k + Len(p) \in DOMAIN r /\ r[k + Len(p)] = q[k]
  <2>1. TAKE k \in DOMAIN q
  <2>2. /\ k + Len(p) \in 1..(Len(p) + Len(q)) /\ ~(k + Len(p) <= Len(p))
        /\ k + Len(p) - Len(p) = k
    BY <1>1, <1>2
  <2> QED BY <1>1, <1>2, <2>2
<1>5. \A k \in DOMAIN r : \/ k \in DOMAIN p /\ r[k] = p[k]
                          \/ k - Len(p) \in DOMAIN q /\ r[k] = q[k - Len(p)]
  BY <1>1, <1>2
<1>6. TasksIn(p) \subseteq TasksIn(r) /\ TasksIn(q) \subseteq TasksIn(r)
  BY <1>3, <1>4 DEF TasksIn
<1>7. TasksIn(r) \subseteq TasksIn(p) \cup TasksIn(q)
  BY <1>5 DEF TasksIn
<1> QED BY <1>6, <1>7 DEF r

LEMMA TasksOfAppend ==
  ASSUME NEW q \in Seq(Task), NEW x \in Task
  PROVE  TasksIn(Append(q, x)) = TasksIn(q) \cup {x}
<1> DEFINE r == Append(q, x)
<1>1. /\ Len(q) \in Nat /\ DOMAIN q = 1..Len(q) /\ DOMAIN r = 1..(Len(q) + 1)
      /\ r[Len(q) + 1] = x /\ \A k \in 1..Len(q) : r[k] = q[k]
  OBVIOUS
<1> HIDE DEF r
<1>2. TasksIn(r) = TasksIn(q) \cup {x}
  BY <1>1 DEF TasksIn
<1> QED BY <1>2 DEF r

LEMMA TasksOfTail ==
  ASSUME NEW q \in Seq(Task), q # <<>>
  PROVE  TasksIn(Tail(q)) \subseteq TasksIn(q) /\ Head(q) \in TasksIn(q)
<1> DEFINE r == Tail(q)
<1>1. /\ Len(q) \in Nat /\ Len(q) # 0 /\ DOMAIN q = 1..Len(q)
      /\ DOMAIN r = 1..(Len(q) - 1) /\ Head(q) = q[1]
      /\ \A k \in 1..(Len(q) - 1) : r[k] = q[k + 1]
  BY HeadTailProperties, EmptySeq
<1> HIDE DEF r
<1>2. TasksIn(r) \subseteq TasksIn(q) /\ q[1] \in TasksIn(q)
  BY <1>1 DEF TasksIn
<1> QED BY <1>1, <1>2 DEF r

LEMMA TasksOfCleanup ==
  ASSUME NEW q \in Seq(Task), NEW i
  PROVE  TasksIn(CleanupPendingTask(q, i)) \subseteq TasksIn(q)
<1> DEFINE p == CleanupPendingTask(q, i)
<1>1. PICK e : IsKept(q, i, Len(q), p, e)
  BY CleanupKeeps
<1> HIDE DEF p
<1>2. \A a \in DOMAIN p : e[a] \in DOMAIN q /\ p[a] = q[e[a]]
  BY <1>1 DEF IsKept
<1>3. TasksIn(p) \subseteq TasksIn(q)
  BY <1>2 DEF TasksIn
<1> QED BY <1>3 DEF p

\* The tasks of a request carry its ids and the request itself.
LEMMA TasksOfRequest ==
  ASSUME NEW first \in Nat, NEW r \in Request,
         first..(first + r.docs - 1) \subseteq TaskIds
  PROVE  /\ TasksOf(first, r) \in Seq(Task)
         /\ \A x \in TasksIn(TasksOf(first, r)) :
               \E i \in first..(first + r.docs - 1) : x = Inference(i, r)
<1>1. r.docs \in Nat \ {0}
  BY DEF Request
<1>2. \A k \in 1..r.docs : first + k - 1 \in first..(first + r.docs - 1)
  BY <1>1
<1>3. \A k \in 1..r.docs : Inference(first + k - 1, r) \in Task
  BY <1>2 DEF Inference, Task
<1>4. TasksOf(first, r) \in Seq(Task)
  BY <1>1, <1>3 DEF TasksOf
<1>5. \A k \in DOMAIN TasksOf(first, r) :
         k \in 1..r.docs /\ TasksOf(first, r)[k] = Inference(first + k - 1, r)
  BY <1>1 DEF TasksOf
<1> QED BY <1>2, <1>4, <1>5 DEF TasksIn

\* The worker moves tasks about and posts nothing but NEXT_RESPONSE.
LEMMA WorkerHeldSteps ==
  ASSUME TypeInv, Worker
  PROVE  HeldTasks' \subseteq HeldTasks \cup {NextResponse}
<1> USE DEF TypeInv
<1> DEFINE q == TasksIn(queue_tasks)
           d == TasksIn(queue_tasks_deferred)
<1>1. /\ queue_tasks \in Seq(Task) /\ queue_tasks_deferred \in Seq(Task) /\ cur \in Task
      /\ <<NextResponse>> \in Seq(Task)
  <2>1. <<NextResponse>> \in Seq(Task)
    BY TasksTyped
  <2> QED BY <2>1 DEF QueueTypeOK, WorkerTypeInv, WorkerTypeOK, ControlTypeOK
<1>2. cur' \in q \cup {cur, NextResponse}
  <2>1. ASSUME WorkerTakesTask PROVE cur' \in q
    BY <1>1, <2>1, TasksOfTail DEF WorkerTakesTask, TakeTask
  <2> QED BY <2>1, WorkerTaskSteps
<1>3. q' \cup d' \subseteq q \cup d \cup {cur, NextResponse}
  <2>1. CASE UNCHANGED queueVars \/ StartLoop
    BY <2>1 DEF queueVars, StartLoop
  <2>2. CASE PostBack(<<NextResponse>>)
    <3>1. TasksIn(<<NextResponse>>) = {NextResponse}
      BY DEF TasksIn
    <3>2. TasksIn(queue_tasks \o <<NextResponse>>) = q \cup {NextResponse}
      BY <1>1, <3>1, TasksOfConcat, Zenon
    <3>3. q' = q \cup {NextResponse} /\ d' = d
      BY <2>2, <3>2, Zenon DEF PostBack
    <3> QED BY <3>3
  <2>3. CASE Defer(cur)
    <3>1. q' = q /\ d' = d \cup {cur}
      BY <1>1, <2>3, TasksOfAppend DEF Defer
    <3> QED BY <3>1
  <2>4. CASE PopDeferredTask /\ queue_tasks_deferred # <<>>
    <3>1. /\ queue_tasks' = Append(queue_tasks, Head(queue_tasks_deferred))
          /\ queue_tasks_deferred' = Tail(queue_tasks_deferred)
      BY <2>4 DEF PopDeferredTask
    <3>2. Head(queue_tasks_deferred) \in d /\ d' \subseteq d
          /\ Head(queue_tasks_deferred) \in Task
      BY <1>1, <2>4, <3>1, TasksOfTail, HeadTailProperties
    <3>3. q' = q \cup {Head(queue_tasks_deferred)}
      BY <1>1, <3>1, <3>2, TasksOfAppend
    <3> QED BY <3>2, <3>3
  <2>5. CASE PopDeferredTask /\ queue_tasks_deferred = <<>>
    BY <2>5 DEF PopDeferredTask
  <2>6. CASE TakeTask
    <3>1. q' \subseteq q /\ d' = d
      BY <1>1, <2>6, TasksOfTail DEF TakeTask
    <3> QED BY <3>1
  <2> QED BY <2>1, <2>2, <2>3, <2>4, <2>5, <2>6, WorkerQueueSteps
<1> QED BY <1>2, <1>3 DEF HeldTasks

\* A thread posts its own request, or a CANCEL.
LEMMA ClientHeldSteps ==
  ASSUME TypeInv, NEW t \in Threads, Native(t) \/ Caller(t), UNCHANGED workerVars
  PROVE  \A x \in HeldTasks' : \/ x \in HeldTasks
                               \/ cpc[t] = "post" /\ \E i \in ids[t] : x = Inference(i, call[t])
                               \/ \E i \in TaskIds : x = Cancel(i)
<1> USE DEF TypeInv
<1> DEFINE q == TasksIn(queue_tasks)
           d == TasksIn(queue_tasks_deferred)
<1>1. /\ queue_tasks \in Seq(Task) /\ queue_tasks_deferred \in Seq(Task) /\ cur' = cur
      /\ call[t] \in Request /\ ids[t] \subseteq TaskIds
  BY DEF QueueTypeOK, workerVars, ClientTypeInv, ClientTypeOK
<1>2. CASE UNCHANGED <<queue_tasks, queue_tasks_deferred>>
  BY <1>1, <1>2 DEF HeldTasks
<1>3. CASE PostRequest(t)
  <2>1. PICK low \in ids[t] : /\ \A i \in ids[t] : low <= i
                              /\ PostBack(TasksOf(low, call[t]))
    BY <1>3 DEF PostRequest
  <2>2. PICK first \in Nat : ids[t] = first..(first + call[t].docs - 1)
    BY <1>3 DEF PostRequest, ClientTypeInv, Numbered
  <2>3. call[t].docs \in Nat \ {0}
    BY <1>1 DEF Request
  <2>4. low = first
    <3>1. first \in ids[t]
      BY <2>2, <2>3
    <3> QED BY <2>1, <2>2, <3>1
  <2>5. /\ TasksOf(first, call[t]) \in Seq(Task)
        /\ \A x \in TasksIn(TasksOf(first, call[t])) :
              \E i \in ids[t] : x = Inference(i, call[t])
    <3>1. first..(first + call[t].docs - 1) \subseteq TaskIds
      BY <1>1, <2>2
    <3> QED BY <1>1, <2>2, <3>1, TasksOfRequest
  <2>6. q' = q \cup TasksIn(TasksOf(first, call[t])) /\ d' = d
    BY <1>1, <2>1, <2>4, <2>5, TasksOfConcat DEF PostBack
  <2>7. cpc[t] = "post"
    BY <1>3 DEF PostRequest
  <2> QED BY <1>1, <2>5, <2>6, <2>7 DEF HeldTasks
<1>4. ASSUME NEW i \in TaskIds, PostCancel(i)
      PROVE  \A x \in HeldTasks' : x \in HeldTasks \/ x = Cancel(i)
  <2> DEFINE p == CleanupPendingTask(queue_tasks, i)
             e == CleanupPendingTask(queue_tasks_deferred, i)
  <2>1. queue_tasks' = <<Cancel(i)>> \o p /\ queue_tasks_deferred' = e
    BY <1>4 DEF PostCancel
  <2>2. TasksIn(p) \subseteq q /\ TasksIn(e) \subseteq d /\ p \in Seq(Task)
    BY <1>1, TasksOfCleanup, IdsOfCleanup
  <2>3. /\ Cancel(i) \in Task /\ <<Cancel(i)>> \in Seq(Task)
        /\ TasksIn(<<Cancel(i)>>) = {Cancel(i)}
    BY TasksTyped DEF Cancel, Task, NoTask, TasksIn
  <2> HIDE DEF p, e
  <2>4. TasksIn(<<Cancel(i)>> \o p) = {Cancel(i)} \cup TasksIn(p)
    BY <2>2, <2>3, TasksOfConcat
  <2>5. q' \subseteq q \cup {Cancel(i)} /\ d' \subseteq d
    BY <2>1, <2>2, <2>4
  <2> QED BY <1>1, <2>5 DEF HeldTasks
<1> QED
  <2>1. \A r \in Requests : Begin(t, r) => UNCHANGED <<queue_tasks, queue_tasks_deferred>>
    BY DEF Begin, GetNewIds
  <2>2. UNCHANGED queueVars \/ Terminate => UNCHANGED <<queue_tasks, queue_tasks_deferred>>
    BY DEF queueVars, Terminate
  <2> QED BY <1>2, <1>3, <1>4, <2>1, <2>2, ClientIdSteps


-----------------------------------------------------------------------------
(* A task is what its caller asked for, on its way and in its slot *)

\* The tokenizer never makes an embedding or a rerank an empty prompt.
PromptGiven(r) == r.type = "RERANK" => r.n_prompt > 0

TaskFormed(x) ==
    /\ x.id < id
    /\ x.type = "INFERENCE" => x.id_target = NoTask
    /\ x.type # "INFERENCE" => x.id = NoTask
    /\ PromptGiven(x.params)
    /\ \A t \in Threads : x.id \in ids[t] => x.params = call[t]
TasksFormed == \A x \in HeldTasks : TaskFormed(x)

SlotFormed(s) ==
    /\ id_task[s] < id
    /\ PromptGiven(params[s])
    /\ \A t \in Threads : id_task[s] \in ids[t] => params[s] = call[t]
SlotsFormed == \A s \in Slots : SlotFormed(s)

\* Only a rerank has several ids, and only a stream an iterator.
Iterating == {"user", "release", "postCancel", "cancelRemove", "finished"}
CallFormed(t) ==
    /\ call[t] \in Requests \cup {NoRequest}
    /\ cpc[t] \in {"idle", "closed"} => ids[t] = {}
    /\ cpc[t] \notin {"idle", "closed"} /\ call[t].docs = 1 => \E i \in ids[t] : ids[t] = {i}
CallsFormed == \A t \in Threads : CallFormed(t)

FormedInv == TasksFormed /\ SlotsFormed /\ CallsFormed

LEMMA RequestsFormed ==
  ASSUME NEW r \in Requests \cup {NoRequest}
  PROVE  /\ PromptGiven(r) /\ r \in Request
         /\ r.stream \/ r.type # "RERANK" => r.docs = 1
<1>1. CASE r = NoRequest
  BY <1>1, TasksTyped DEF NoRequest, PromptGiven
<1>2. CASE r \in Requests
  <2>1. /\ r \in Request /\ (r.docs > 1 => r.type = "RERANK")
        /\ (r.stream => r.type = "COMPLETION") /\ PromptGiven(r)
    BY <1>2, NativeCallsAssumption DEF PromptGiven
  <2>2. r.docs \in Nat \ {0}
    BY <2>1 DEF Request
  <2>3. r.type # "RERANK" => r.docs = 1
    BY <2>1, <2>2
  <2> QED BY <2>1, <2>3
<1> QED BY <1>1, <1>2

\* A thread begins a request, goes on with it, drops one of its ids, or forgets it.
GoesOnInCall(t) ==
    /\ UNCHANGED <<call, ids>>
    /\ \/ UNCHANGED cpc
       \/ cpc[t] = "idle" /\ Goto(t, "closed")
       \/ cpc[t] \notin {"idle", "closed"}
          /\ \E pc \in ClientPcs \ {"idle", "closed"} : Goto(t, pc)
DropsId(t) ==
    /\ UNCHANGED <<cpc, call>>
    /\ \E i \in ids[t] : ids[t] # {i} /\ ids' = [ids EXCEPT ![t] = @ \ {i}]

LEMMA ClientCallSteps ==
  ASSUME ClientTypeInv, NEW t \in Threads, Native(t) \/ Caller(t)
  PROVE  \/ \E r \in Requests : Begin(t, r)
         \/ Return(t)
         \/ DropsId(t)
         \/ GoesOnInCall(t)
<1>1. CASE \/ Register(t) \/ PostRequest(t) \/ ReceiveError(t) \/ ReceiveFinal(t)
           \/ ReceivePartial(t) \/ ReleaseTask(t) \/ NextOutput(t) \/ CancelRemove(t)
           \/ CancelPost(t) \/ CancelRemoveAgain(t) \/ Close(t)
  BY <1>1 DEF Register, PostRequest, ReceiveError, ReceiveFinal, ReceivePartial, Take,
              ReleaseTask, NextOutput, CancelRemove, CancelPost, CancelRemoveAgain, Close,
              GoesOnInCall, ClientPcs
<1>2. CASE Reject(t) \/ Abandon(t)
  BY <1>2 DEF Reject, Abandon
<1>3. CASE ReceiveScored(t)
  BY <1>3 DEF ReceiveScored, GoesOnInCall
<1>4. CASE RemoveAfterError(t)
  <2>1. PICK i \in ids[t] :
          IF call[t].stream THEN Goto(t, "user") /\ UNCHANGED <<call, ids, left>>
          ELSE IF ids[t] = {i} THEN Return(t)
          ELSE /\ ids' = [ids EXCEPT ![t] = @ \ {i}]
               /\ UNCHANGED <<cpc, call, left>>
    BY <1>4 DEF RemoveAfterError
  <2>2. cpc[t] = "removeAll"
    BY <1>4 DEF RemoveAfterError
  <2> QED BY <2>1, <2>2 DEF DropsId, GoesOnInCall, ClientPcs
<1>5. CASE RemoveAfterFinal(t)
  BY <1>5 DEF RemoveAfterFinal, GoesOnInCall, ClientPcs
<1> QED BY <1>1, <1>2, <1>3, <1>4, <1>5 DEF Native, Caller

\* A call in progress keeps its request; ids are forgotten but never exchanged.
LEMMA ClientIdsKept ==
  ASSUME TypeInv, NEW t \in Threads, Native(t) \/ Caller(t)
  PROVE  \/ \E r \in Requests : Begin(t, r)
         \/ \A u \in Threads : /\ ids'[u] \subseteq ids[u]
                               /\ ids'[u] # {} => call'[u] = call[u]
<1>1. ids \in [Threads -> SUBSET TaskIds] /\ call \in [Threads -> Request]
  BY DEF TypeInv, ClientTypeInv, ClientTypeOK
<1>2. ClientTypeInv
  BY DEF TypeInv
<1>3. CASE Return(t)
  BY <1>1, <1>3 DEF Return
<1>4. CASE DropsId(t)
  BY <1>1, <1>4 DEF DropsId
<1>5. CASE GoesOnInCall(t)
  BY <1>5 DEF GoesOnInCall
<1> QED BY <1>2, <1>3, <1>4, <1>5, ClientCallSteps

\* The counter of ids only grows.
LEMMA CounterGrows ==
  ASSUME TypeInv, [Next]_vars PROVE id <= id'
<1> USE DEF TypeInv
<1>1. id \in Nat
  BY MaxTasksAssumption DEF QueueTypeOK
<1>2. ASSUME Worker PROVE id' = id
  BY <1>2, WorkerQueueSteps
  DEF queueVars, PostBack, Defer, PopDeferredTask, StartLoop, TakeTask
<1>3. ASSUME NEW t \in Threads, Native(t) \/ Caller(t) PROVE id <= id'
  <2>1. CASE \E n \in Nat : GetNewIds(n)
    BY <1>1, <2>1 DEF GetNewIds
  <2>2. CASE \/ UNCHANGED queueVars \/ Terminate \/ \E i \in TaskIds : PostCancel(i)
             \/ \E tasks \in Seq(Task) : PostBack(tasks)
    <3>1. id' = id
      BY <2>2 DEF queueVars, Terminate, PostCancel, PostBack
    <3> QED BY <1>1, <3>1
  <2> QED BY <1>3, <2>1, <2>2, ClientQueueSteps
<1>4. UNCHANGED vars => id' = id
  BY DEF vars, queueVars
<1> QED BY <1>1, <1>2, <1>3, <1>4 DEF Next, Finished

\* The worker binds a task to a slot with its id and request, or changes no slot's.
LEMMA WorkerTagSteps ==
  ASSUME Worker
  PROVE  \/ LaunchSlotWithTask
         \/ LaunchFails
         \/ UNCHANGED <<id_task, params>>
<1>1. CASE ContextOverflow \/ PromptRefused \/ ReleaseFailed \/ ReleaseScored
           \/ ReleaseStopped \/ ProcessCancel
  BY <1>1 DEF ContextOverflow, PromptRefused, ReleaseFailed, ReleaseScored,
              ReleaseStopped, ReleaseInLoop, ProcessCancel
<1>2. CASE PromptWaits \/ PromptFill \/ \E streamed, goesOn \in BOOLEAN : SampleToken(streamed, goesOn)
  BY <1>2 DEF PromptWaits, PromptFill, SampleToken
<1>3. CASE WorkerStart \/ WorkerTakesTask \/ DeferTask \/ PostNextResponse
           \/ ProcessNextResponse \/ AddSampledToken \/ PromptSkip \/ DecodeHalves
           \/ SendScored \/ NextView \/ SendReply
  BY <1>3 DEF WorkerStart, WorkerTakesTask, DeferTask, PostNextResponse,
              ProcessNextResponse, AddSampledToken, PromptSkip, DecodeHalves, SendScored,
              NextView, SendReply, slotVars
<1>4. CASE WorkerDrained \/ WorkerWakes \/ WorkerEnds \/ AllSlotsIdle \/ ContextsFit
           \/ PromptsBatched \/ DecodeSucceeds \/ DecodeFails \/ SampledTokensAdded
           \/ NoTokens \/ FailedDone \/ LastView
  BY <1>4 DEF WorkerDrained, WorkerWakes, WorkerEnds, AllSlotsIdle, ContextsFit,
              PromptsBatched, DecodeSucceeds, DecodeFails, SampledTokensAdded,
              NoTokens, FailedDone, LastView, EndUpdate, Proceed, slotVars
<1> QED BY <1>1, <1>2, <1>3, <1>4 DEF Worker

\* An idle slot is bound to the task at hand.
LEMMA LaunchBinds ==
  ASSUME TypeInv, LaunchSlotWithTask \/ LaunchFails
  PROVE  /\ wpc = "process" /\ wpc' = "tasks" /\ cur.type = "INFERENCE"
         /\ cur' = NextResponse /\ UNCHANGED queueVars
         /\ \E s \in Slots :
               /\ ~IsProcessing(s)
               /\ id_task'[s] = cur.id /\ params'[s] = cur.params
               /\ LaunchSlotWithTask => state'[s] = "STARTED"
               /\ LaunchFails => state'[s] = state[s]
               /\ \A u \in Slots : /\ u # s => /\ id_task'[u] = id_task[u]
                                               /\ params'[u] = params[u]
                                               /\ state'[u] = state[u]
                                   /\ n_decoded'[u] = n_decoded[u]
<1>1. /\ state \in [Slots -> SlotStates] /\ id_task \in [Slots -> TaskIds \cup {NoTask}]
      /\ params \in [Slots -> Request]
  BY DEF TypeInv, WorkerTypeInv, WorkerTypeOK, SlotsTypeOK
<1>2. /\ wpc = "process" /\ wpc' = "tasks" /\ cur.type = "INFERENCE"
      /\ cur' = NextResponse /\ UNCHANGED queueVars
  BY DEF LaunchSlotWithTask, LaunchFails, TaskDone, WorkerAt
<1>3. PICK s \in Slots : /\ BindSlot(s)
                         /\ LaunchSlotWithTask => state' = [state EXCEPT ![s] = "STARTED"]
                         /\ LaunchFails => state' = state
  <2>1. ~(LaunchSlotWithTask /\ LaunchFails)
    BY DEF LaunchSlotWithTask, LaunchFails
  <2> QED BY <2>1 DEF LaunchSlotWithTask, LaunchFails
<1> QED BY <1>1, <1>2, <1>3 DEF BindSlot

\* The tasks without an id belong to no request.
LEMMA OtherTasksFormed ==
  ASSUME TypeInv
  PROVE  /\ TaskFormed(NextResponse)
         /\ \A i \in TaskIds : TaskFormed(Cancel(i))
<1>1. /\ NoTask < id /\ NoTask \notin TaskIds
      /\ \A t \in Threads : ids[t] \subseteq TaskIds
  BY MaxTasksAssumption
  DEF NoTask, TaskIds, TypeInv, QueueTypeOK, ClientTypeInv, ClientTypeOK
<1>2. PromptGiven(NoRequest)
  BY DEF NoRequest, PromptGiven
<1> QED BY <1>1, <1>2 DEF TaskFormed, NextResponse, Cancel

\* What was formed stays so, whoever begins or forgets a request.
LEMMA FormedSteps ==
  ASSUME TypeInv, [Next]_vars
  PROVE  /\ \A x \in Task : TaskFormed(x) => TaskFormed(x)'
         /\ \A s \in Slots : SlotFormed(s) /\ UNCHANGED <<id_task, params>> => SlotFormed(s)'
         /\ \A x \in Task : \A s \in Slots :
               TaskFormed(x)' /\ id_task'[s] = x.id /\ params'[s] = x.params => SlotFormed(s)'
<1> USE DEF TypeInv
<1>1. /\ id \in Nat /\ id' \in Nat /\ id <= id'
      /\ call \in [Threads -> Request] /\ ids \in [Threads -> SUBSET TaskIds]
  BY CounterGrows, NextTypeInv, MaxTasksAssumption
  DEF QueueTypeOK, ClientTypeInv, ClientTypeOK
<1>2. /\ \A x \in Task : x.id \in Int
      /\ \A s \in Slots : id_task[s] \in Int
  BY DEF Task, TaskIds, NoTask, WorkerTypeInv, WorkerTypeOK, SlotsTypeOK
<1>3. ASSUME NEW i \in Int, i < id, NEW u \in Threads, i \in ids'[u]
      PROVE  i \in ids[u] /\ call'[u] = call[u]
  <2>1. CASE UNCHANGED clientVars
    BY <1>3, <2>1 DEF clientVars
  <2>2. ASSUME NEW t \in Threads, Native(t) \/ Caller(t)
        PROVE  i \in ids[u] /\ call'[u] = call[u]
    <3>1. ASSUME NEW r \in Requests, Begin(t, r)
          PROVE  i \in ids[u] /\ call'[u] = call[u]
      <4>1. /\ ids' = [ids EXCEPT ![t] = id..(id + r.docs - 1)]
            /\ call' = [call EXCEPT ![t] = r]
        BY <3>1 DEF Begin
      <4>2. i \notin id..(id + r.docs - 1)
        BY <1>1, <1>3
      <4> QED BY <1>1, <1>3, <4>1, <4>2
    <3> QED BY <1>3, <2>2, <3>1, ClientIdsKept
  <2> QED BY <2>1, <2>2 DEF Next, Finished, vars
<1>4. ASSUME NEW x \in Task, TaskFormed(x) PROVE TaskFormed(x)'
  <2>1. x.id \in Int /\ x.id < id /\ x.id < id'
    BY <1>1, <1>2, <1>4 DEF TaskFormed
  <2> QED BY <1>3, <1>4, <2>1 DEF TaskFormed
<1>5. ASSUME NEW s \in Slots, SlotFormed(s), UNCHANGED <<id_task, params>> PROVE SlotFormed(s)'
  <2>1. id_task[s] \in Int /\ id_task[s] < id /\ id_task[s] < id'
    BY <1>1, <1>2, <1>5 DEF SlotFormed
  <2> QED BY <1>3, <1>5, <2>1 DEF SlotFormed
<1>6. ASSUME NEW x \in Task, NEW s \in Slots,
             TaskFormed(x)', id_task'[s] = x.id, params'[s] = x.params
      PROVE  SlotFormed(s)'
  BY <1>6 DEF TaskFormed, SlotFormed
<1> QED BY <1>4, <1>5, <1>6

LEMMA HeldTyped ==
  ASSUME TypeInv PROVE HeldTasks \subseteq Task
<1>1. /\ queue_tasks \in Seq(Task) /\ queue_tasks_deferred \in Seq(Task) /\ cur \in Task
  BY DEF TypeInv, QueueTypeOK, WorkerTypeInv, WorkerTypeOK, ControlTypeOK
<1>2. \A q \in Seq(Task) : TasksIn(q) \subseteq Task
  BY ElementOfSeq DEF TasksIn
<1> QED BY <1>1, <1>2 DEF HeldTasks

\* A call that goes on keeps its one id.
LEMMA CallSteps ==
  ASSUME TypeInv, CallsFormed, NEW t \in Threads, Native(t) \/ Caller(t)
  PROVE  CallsFormed'
<1>1. /\ ids \in [Threads -> SUBSET TaskIds] /\ call \in [Threads -> Request]
      /\ cpc \in [Threads -> ClientPcs] /\ ClientTypeInv /\ id \in Nat
  BY MaxTasksAssumption DEF TypeInv, ClientTypeInv, ClientTypeOK, QueueTypeOK
<1>2. ASSUME NEW r \in Requests, Begin(t, r) PROVE CallsFormed'
  <2>1. /\ cpc' = [cpc EXCEPT ![t] = "register"] /\ call' = [call EXCEPT ![t] = r]
        /\ ids' = [ids EXCEPT ![t] = id..(id + r.docs - 1)]
    BY <1>2 DEF Begin, Goto
  <2>2. r.docs = 1 => id..(id + r.docs - 1) = {id}
    BY <1>1
  <2>3. CallFormed(t)'
    BY <1>1, <2>1, <2>2 DEF CallFormed
  <2>4. ASSUME NEW u \in Threads, u # t PROVE CallFormed(u)'
    <3>1. cpc'[u] = cpc[u] /\ call'[u] = call[u] /\ ids'[u] = ids[u] /\ CallFormed(u)
      BY <1>1, <2>1, <2>4 DEF CallsFormed
    <3> QED BY <3>1 DEF CallFormed
  <2> QED BY <2>3, <2>4 DEF CallsFormed
<1>3. ASSUME \A u \in Threads : u # t => cpc'[u] = cpc[u] /\ call'[u] = call[u] /\ ids'[u] = ids[u],
             CallFormed(t)'
      PROVE  CallsFormed'
  <2>1. ASSUME NEW u \in Threads, u # t PROVE CallFormed(u)'
    <3>1. CallFormed(u) /\ cpc'[u] = cpc[u] /\ call'[u] = call[u] /\ ids'[u] = ids[u]
      BY <1>3, <2>1 DEF CallsFormed
    <3> QED BY <3>1 DEF CallFormed
  <2> QED BY <1>3, <2>1 DEF CallsFormed
<1>4. CASE Return(t)
  <2>1. /\ cpc' = [cpc EXCEPT ![t] = "idle"] /\ call' = [call EXCEPT ![t] = NoRequest]
        /\ ids' = [ids EXCEPT ![t] = {}]
    BY <1>4 DEF Return, Goto
  <2>2. CallFormed(t)'
    BY <1>1, <2>1 DEF CallFormed
  <2> QED BY <1>1, <1>3, <2>1, <2>2
<1>5. CASE DropsId(t)
  <2>1. PICK i \in ids[t] : ids[t] # {i} /\ ids' = [ids EXCEPT ![t] = @ \ {i}]
    BY <1>5 DEF DropsId
  <2>2. UNCHANGED <<cpc, call>> /\ CallFormed(t)
    BY <1>5 DEF DropsId, CallsFormed
  <2>3. CallFormed(t)'
    BY <1>1, <2>1, <2>2 DEF CallFormed
  <2> QED BY <1>1, <1>3, <2>1, <2>2, <2>3
<1>6. CASE GoesOnInCall(t)
  <2>1. CallFormed(t) /\ UNCHANGED <<call, ids>>
    BY <1>6 DEF GoesOnInCall, CallsFormed
  <2>2. CallFormed(t)'
    BY <1>1, <1>6, <2>1 DEF CallFormed, GoesOnInCall, Goto
  <2>3. \A u \in Threads : u # t => cpc'[u] = cpc[u]
    BY <1>1, <1>6 DEF GoesOnInCall, Goto
  <2> QED BY <1>3, <2>1, <2>2, <2>3
<1> QED BY <1>1, <1>2, <1>4, <1>5, <1>6, ClientCallSteps

LEMMA NextFormedInv == TypeInv /\ HomeInv /\ FormedInv /\ [Next]_vars => FormedInv'
<1> SUFFICES ASSUME TypeInv, HomeInv, FormedInv, [Next]_vars PROVE FormedInv'
  OBVIOUS
<1>1. /\ HeldTasks \subseteq Task /\ NextResponse \in Task
      /\ TaskFormed(NextResponse)' /\ \A i \in TaskIds : TaskFormed(Cancel(i))'
      /\ \A x \in HeldTasks : x \in Task /\ TaskFormed(x)'
      /\ cur \in HeldTasks
  <2>1. \A i \in TaskIds : Cancel(i) \in Task
    BY TasksTyped DEF Cancel, Task, NoTask
  <2>2. HeldTasks \subseteq Task /\ cur \in HeldTasks
    BY HeldTyped DEF HeldTasks
  <2>3. \A x \in HeldTasks : TaskFormed(x)
    BY DEF FormedInv, TasksFormed
  <2> QED BY <2>1, <2>2, <2>3, OtherTasksFormed, FormedSteps, TasksTyped
<1>2. ASSUME UNCHANGED <<id_task, params>> PROVE SlotsFormed'
  BY <1>2, FormedSteps DEF FormedInv, SlotsFormed
<1>3. CASE Worker /\ UNCHANGED clientVars
  <2>1. TasksFormed'
    BY <1>1, <1>3, WorkerHeldSteps DEF TasksFormed
  <2>2. CASE LaunchSlotWithTask \/ LaunchFails
    <3>1. PICK s \in Slots :
             /\ id_task'[s] = cur.id /\ params'[s] = cur.params
             /\ \A u \in Slots : u # s => id_task'[u] = id_task[u] /\ params'[u] = params[u]
      BY <2>2, LaunchBinds
    <3>2. SlotFormed(s)'
      BY <1>1, <3>1, FormedSteps
    <3>3. ASSUME NEW u \in Slots, u # s PROVE SlotFormed(u)'
      <4>1. id_task'[u] = id_task[u] /\ params'[u] = params[u] /\ SlotFormed(u)
        BY <3>1, <3>3 DEF FormedInv, SlotsFormed
      <4>2. UNCHANGED <<ids, call>> /\ UNCHANGED id
        BY <1>3, <2>2, LaunchBinds DEF clientVars, queueVars
      <4> QED BY <4>1, <4>2 DEF SlotFormed
    <3>4. SlotsFormed'
      BY <3>2, <3>3 DEF SlotsFormed
    <3>5. CallsFormed'
      BY <1>3 DEF clientVars, FormedInv, CallsFormed, CallFormed
    <3> QED BY <2>1, <3>4, <3>5 DEF FormedInv
  <2>3. CASE UNCHANGED <<id_task, params>>
    <3>1. CallsFormed'
      BY <1>3 DEF clientVars, FormedInv, CallsFormed, CallFormed
    <3> QED BY <1>2, <2>1, <2>3, <3>1 DEF FormedInv
  <2> QED BY <1>3, <2>2, <2>3, WorkerTagSteps
<1>4. ASSUME NEW t \in Threads, Native(t) \/ Caller(t), UNCHANGED workerVars
      PROVE  FormedInv'
  <2>1. ASSUME cpc[t] = "post", NEW i \in ids[t], NEW x, x = Inference(i, call[t])
        PROVE  TaskFormed(x)'
    <3>1. /\ PromptGiven(call[t]) /\ i \in TaskIds /\ i < id /\ call[t] \in Request
      <4>1. call[t] \in Requests \cup {NoRequest}
        BY DEF FormedInv, CallsFormed, CallFormed
      <4>2. id \in Nat /\ ids[t] \subseteq TaskIds
        BY MaxTasksAssumption DEF TypeInv, QueueTypeOK, ClientTypeInv, ClientTypeOK
      <4>3. i \in 0..(id - 1)
        BY <2>1 DEF HomeInv, Drawn
      <4> QED BY <2>1, <4>1, <4>2, <4>3, RequestsFormed
    <3>2. \A u \in Threads : i \in ids[u] => u = t
      <4>1. \A u \in Threads : t # u => ids[t] \cap ids[u] = {}
        BY DEF HomeInv, Unshared
      <4> QED BY <2>1, <4>1
    <3>3. TaskFormed(x)
      BY <2>1, <3>1, <3>2 DEF TaskFormed, Inference
    <3>4. x \in Task
      BY <2>1, <3>1 DEF Inference, Task
    <3> QED BY <3>3, <3>4, FormedSteps
  <2>2. TasksFormed'
    <3>1. ASSUME NEW x \in HeldTasks' PROVE TaskFormed(x)'
      BY <1>1, <1>4, <2>1, ClientHeldSteps
    <3> QED BY <3>1 DEF TasksFormed
  <2>3. SlotsFormed'
    BY <1>2, <1>4 DEF workerVars, slotVars
  <2>4. CallsFormed'
    BY <1>4, CallSteps DEF FormedInv
  <2> QED BY <2>2, <2>3, <2>4 DEF FormedInv
<1>5. CASE UNCHANGED vars
  <2>1. HeldTasks' = HeldTasks
    BY <1>5 DEF vars, queueVars, workerVars, HeldTasks, TasksIn
  <2>2. CallsFormed'
    BY <1>5 DEF vars, clientVars, FormedInv, CallsFormed, CallFormed
  <2>3. SlotsFormed'
    BY <1>2, <1>5 DEF vars, workerVars, slotVars
  <2> QED BY <1>1, <2>1, <2>2, <2>3 DEF FormedInv, TasksFormed
<1> QED BY <1>3, <1>4, <1>5 DEF Next, Finished

-----------------------------------------------------------------------------
(* Which ids are pending *)

\* A cancelled task keeps its place: the clean-up looks at the targets of the
\* tasks, and an inference has none.
LEMMA CleanupKeepsIds ==
  ASSUME NEW q \in Seq(Task), \A x \in TasksIn(q) : x.id # NoTask => x.id_target = NoTask,
         NEW i \in TaskIds
  PROVE  IdsIn(CleanupPendingTask(q, i)) = IdsIn(q)
<1> DEFINE S == {x \in Task : x.id # NoTask => x.id_target = NoTask}
<1>1. /\ Len(q) \in Nat /\ DOMAIN q = 1..Len(q) /\ \A k \in 1..Len(q) : q[k] \in Task
  OBVIOUS
<1>2. \A k \in 1..Len(q) : q[k] \in S
  BY <1>1 DEF TasksIn
<1> HIDE DEF S
<1>3. q \in Seq(S)
  BY <1>1, <1>2
<1>4. S \in SUBSET Task /\ \A x \in S : x.id # NoTask => x.id_target = NoTask
  BY DEF S
<1>5. IdsIn(q) \subseteq IdsIn(CleanupPendingTask(q, i))
  BY <1>3, <1>4, CleanupKeepsGood
<1> QED BY <1>5, IdsOfCleanup

\* Only process_single_task takes a task out of the hands of the queue for good.
LEMMA WorkerPendingSteps ==
  ASSUME TypeInv, HomeInv, TasksFormed, Worker
  PROVE  \/ /\ LaunchSlotWithTask \/ LaunchFails
            /\ cur.id \in PendingIds /\ cur.id # NoTask /\ PendingIds' = PendingIds \ {cur.id}
         \/ /\ ~LaunchSlotWithTask /\ ~LaunchFails /\ UNCHANGED <<id_task, params>>
            /\ PendingIds' = PendingIds
<1> USE DEF TypeInv
<1> DEFINE q == IdsIn(queue_tasks)
           d == IdsIn(queue_tasks_deferred)
<1>1. /\ queue_tasks \in Seq(Task) /\ queue_tasks_deferred \in Seq(Task) /\ cur \in Task
      /\ NextResponse \in Task /\ NextResponse.id = NoTask
  BY TasksTyped DEF QueueTypeOK, WorkerTypeInv, WorkerTypeOK, ControlTypeOK, NextResponse
<1>2. /\ q \cap d = {} /\ (q \cup d) \cap CurId = {} /\ CurNamed
      /\ PendingIds = q \cup d \cup CurId /\ PendingIds' = q' \cup d' \cup CurId'
  BY DEF HomeInv, OneHome, Named, PendingIds
<1>3. cur.type # "INFERENCE" => cur.id = NoTask
  BY DEF TasksFormed, TaskFormed, HeldTasks
<1>4. CASE LaunchSlotWithTask \/ LaunchFails
  <2>1. /\ UNCHANGED queueVars /\ wpc = "process" /\ wpc' = "tasks"
        /\ cur.type = "INFERENCE"
    BY <1>4, LaunchBinds
  <2>2. /\ q' = q /\ d' = d /\ CurId' = {} /\ CurId = {cur.id} /\ cur.id # NoTask
    BY <1>2, <2>1 DEF queueVars, CurId, CurNamed
  <2> QED BY <1>2, <1>4, <2>2
<1>5. CASE WorkerTakesTask
  <2>1. /\ queue_tasks # <<>> /\ queue_tasks' = Tail(queue_tasks) /\ cur' = Head(queue_tasks)
        /\ queue_tasks_deferred' = queue_tasks_deferred /\ wpc = "tasks" /\ wpc' = "process"
        /\ UNCHANGED <<id_task, params>>
    BY <1>5 DEF WorkerTakesTask, TakeTask, WorkerAt, slotVars
  <2>2. q = q' \cup ({cur'.id} \ {NoTask}) /\ d' = d
    BY <1>1, <2>1, IdsOfTail
  <2>3. CurId = {} /\ CurId' = {cur'.id} \ {NoTask}
    BY <2>1 DEF CurId
  <2>4. PendingIds' = PendingIds
    BY <1>2, <2>2, <2>3
  <2> QED BY <1>4, <2>1, <2>4
<1>6. CASE DeferTask /\ wpc' # "process"
  <2>1. /\ wpc = "process" /\ cur.type = "INFERENCE" /\ queue_tasks' = queue_tasks
        /\ queue_tasks_deferred' = Append(queue_tasks_deferred, cur)
        /\ UNCHANGED <<id_task, params>>
    BY <1>6 DEF DeferTask, Defer, slotVars
  <2>2. CurId = {cur.id} \ {NoTask} /\ CurId' = {}
    BY <1>6, <2>1 DEF CurId
  <2>3. q' = q /\ d' = d \cup ({cur.id} \ {NoTask})
    BY <1>1, <2>1, IdsOfAppend
  <2>4. PendingIds' = PendingIds
    BY <1>2, <2>2, <2>3
  <2> QED BY <1>4, <2>1, <2>4
<1>7. ASSUME ~LaunchSlotWithTask, ~LaunchFails, ~DeferTask, wpc' # "process",
             UNCHANGED queueVars \/ PostBack(<<NextResponse>>) \/ PopDeferredTask \/ StartLoop
      PROVE  PendingIds' = PendingIds
  <2>1. CurId' = {}
    BY <1>7 DEF CurId
  <2>2. CurId = {}
    <3>1. CASE wpc = "process"
      <4>1. ProcessCancel \/ ProcessNextResponse
        BY <1>7, <3>1, WorkerAtProcess
      <4> QED BY <1>3, <4>1 DEF ProcessCancel, ProcessNextResponse, CurId
    <3> QED BY <3>1 DEF CurId
  <2>3. q' \cup d' = q \cup d
    <3>1. CASE UNCHANGED queueVars \/ StartLoop
      BY <3>1 DEF queueVars, StartLoop
    <3>2. CASE PostBack(<<NextResponse>>)
      <4>1. /\ queue_tasks' = Append(queue_tasks, NextResponse)
            /\ queue_tasks_deferred' = queue_tasks_deferred
        BY <1>1, <3>2 DEF PostBack
      <4>2. IdsIn(Append(queue_tasks, NextResponse)) = q \cup ({NextResponse.id} \ {NoTask})
        BY <1>1, IdsOfAppend
      <4> QED BY <1>1, <4>1, <4>2
    <3>3. CASE PopDeferredTask /\ queue_tasks_deferred # <<>>
      <4> DEFINE x == Head(queue_tasks_deferred)
      <4>1. /\ queue_tasks' = Append(queue_tasks, x)
            /\ queue_tasks_deferred' = Tail(queue_tasks_deferred)
        BY <3>3 DEF PopDeferredTask
      <4>2. d = d' \cup ({x.id} \ {NoTask}) /\ x \in Task
        BY <1>1, <3>3, <4>1, IdsOfTail
      <4> HIDE DEF x
      <4>3. q' = q \cup ({x.id} \ {NoTask})
        BY <1>1, <4>1, <4>2, IdsOfAppend
      <4> QED BY <4>2, <4>3
    <3>4. CASE PopDeferredTask /\ queue_tasks_deferred = <<>>
      BY <3>4 DEF PopDeferredTask
    <3> QED BY <1>7, <3>1, <3>2, <3>3, <3>4
  <2> QED BY <1>2, <2>1, <2>2, <2>3
<1>8. WorkerTypeInv
  OBVIOUS
<1> QED BY <1>4, <1>5, <1>6, <1>7, <1>8, WorkerCurSteps, WorkerTagSteps

\* Making a request, posting it and having it refused are the only steps that
\* change which ids are in the making.
LEMMA ClientMakingSteps ==
  ASSUME TypeInv, NEW t \in Threads, Native(t) \/ Caller(t)
  PROVE  \/ \E r \in Requests : Begin(t, r)
         \/ PostRequest(t)
         \/ Reject(t)
         \/ BeingMade' = BeingMade
<1> DEFINE Making(u) == cpc[u] \in {"register", "post"}
           Same == \A u \in Threads : /\ cpc'[u] \in {"register", "post"} <=> Making(u)
                                      /\ Making(u) => ids'[u] = ids[u]
<1>1. cpc \in [Threads -> ClientPcs] /\ ids \in [Threads -> SUBSET TaskIds]
  BY DEF TypeInv, ClientTypeInv, ClientTypeOK
<1>2. ASSUME NEW pc, Goto(t, pc), ids' = ids \/ ~Making(t),
             \A u \in Threads : u # t => ids'[u] = ids[u],
             pc \in {"register", "post"} <=> Making(t)
      PROVE  BeingMade' = BeingMade
  <2>1. ASSUME NEW u \in Threads
        PROVE  cpc'[u] = IF u = t THEN pc ELSE cpc[u]
    BY <1>1, <1>2 DEF Goto
  <2>2. Same
    BY <1>2, <2>1
  <2> QED BY <2>2 DEF BeingMade
<1>3. ASSUME Return(t), ~Making(t) PROVE BeingMade' = BeingMade
  <2>1. \A u \in Threads : u # t => ids'[u] = ids[u]
    BY <1>1, <1>3 DEF Return
  <2> QED BY <1>2, <1>3, <2>1 DEF Return
<1>4. CASE Register(t)
  BY <1>2, <1>4 DEF Register
<1>5. CASE \/ ReceiveError(t) \/ ReceiveFinal(t) \/ ReceivePartial(t) \/ ReleaseTask(t)
           \/ CancelPost(t) \/ CancelRemoveAgain(t) \/ NextOutput(t) \/ CancelRemove(t)
           \/ Close(t)
  <2>1. ~Making(t) /\ ids' = ids
    BY <1>5 DEF ReceiveError, ReceiveFinal, ReceivePartial, Take, ReleaseTask, CancelPost,
                CancelRemoveAgain, NextOutput, CancelRemove, Close
  <2>2. PICK pc \in ClientPcs \ {"register", "post"} : Goto(t, pc)
    BY <1>5 DEF ReceiveError, ReceiveFinal, ReceivePartial, ReleaseTask, CancelPost,
                CancelRemoveAgain, NextOutput, CancelRemove, Close, ClientPcs
  <2> QED BY <1>2, <2>1, <2>2
<1>6. CASE ReceiveScored(t)
  <2>1. ~Making(t)
    BY <1>6 DEF ReceiveScored, Take
  <2>2. Return(t) \/ UNCHANGED <<cpc, ids>>
    BY <1>6 DEF ReceiveScored
  <2> QED BY <1>3, <2>1, <2>2 DEF BeingMade
<1>7. CASE RemoveAfterError(t)
  <2>1. ~Making(t)
    BY <1>7 DEF RemoveAfterError
  <2>2. PICK i \in ids[t] : \/ Goto(t, "user") /\ ids' = ids
                            \/ Return(t)
                            \/ ids' = [ids EXCEPT ![t] = @ \ {i}] /\ cpc' = cpc
    BY <1>7 DEF RemoveAfterError
  <2>3. CASE ids' = [ids EXCEPT ![t] = @ \ {i}] /\ cpc' = cpc
    <3>1. Same
      BY <1>1, <2>1, <2>3
    <3> QED BY <3>1 DEF BeingMade
  <2> QED BY <1>2, <1>3, <2>1, <2>2, <2>3
<1>8. CASE RemoveAfterFinal(t) \/ Abandon(t)
  <2>1. ~Making(t)
    BY <1>8 DEF RemoveAfterFinal, Abandon
  <2>2. Return(t) \/ (Goto(t, "release") /\ ids' = ids)
    BY <1>8 DEF RemoveAfterFinal, Abandon
  <2> QED BY <1>2, <1>3, <2>1, <2>2
<1> QED BY <1>4, <1>5, <1>6, <1>7, <1>8 DEF Native, Caller

\* Posting a request makes its ids pending; no other step of a thread does.
LEMMA ClientPendingSteps ==
  ASSUME TypeInv, HomeInv, FormedInv, NEW t \in Threads, Native(t) \/ Caller(t),
         UNCHANGED workerVars
  PROVE  \/ \E r \in Requests : /\ BeingMade' = BeingMade \cup (id..(id + r.docs - 1))
                                /\ id' = id + r.docs /\ PendingIds' = PendingIds
         \/ /\ PostRequest(t) /\ id' = id /\ ids[t] \subseteq BeingMade
            /\ BeingMade' = BeingMade \ ids[t] /\ PendingIds' = PendingIds \cup ids[t]
         \/ /\ Reject(t) /\ id' = id /\ ids[t] \subseteq BeingMade
            /\ BeingMade' = BeingMade \ ids[t] /\ PendingIds' = PendingIds
         \/ UNCHANGED <<id, BeingMade, PendingIds>>
<1> USE DEF TypeInv
<1> DEFINE q == IdsIn(queue_tasks)
           d == IdsIn(queue_tasks_deferred)
<1>1. /\ queue_tasks \in Seq(Task) /\ queue_tasks_deferred \in Seq(Task)
      /\ ids \in [Threads -> SUBSET TaskIds] /\ cpc \in [Threads -> ClientPcs]
      /\ call[t] \in Request
  BY DEF QueueTypeOK, ClientTypeInv, ClientTypeOK
<1>2. /\ CurId' = CurId
      /\ PendingIds = q \cup d \cup CurId /\ PendingIds' = q' \cup d' \cup CurId'
  BY DEF workerVars, CurId, PendingIds
<1>3. UNCHANGED <<queue_tasks, queue_tasks_deferred>> => PendingIds' = PendingIds
  BY <1>2
<1>4. \A u, v \in Threads : u # v => ids[u] \cap ids[v] = {}
  BY DEF HomeInv, Unshared
\* A thread leaves off making its request.
<1>5. ASSUME cpc[t] \in {"register", "post"}, NEW pc, pc \notin {"register", "post"}, Goto(t, pc),
             \A u \in Threads : u # t => ids'[u] = ids[u]
      PROVE  ids[t] \subseteq BeingMade /\ BeingMade' = BeingMade \ ids[t]
  <2>1. \A u \in Threads : cpc'[u] = IF u = t THEN pc ELSE cpc[u]
    BY <1>1, <1>5 DEF Goto
  <2>2. ids[t] \subseteq BeingMade
    BY <1>5 DEF BeingMade
  <2>3. \A u \in Threads :
           cpc'[u] \in {"register", "post"} <=> u # t /\ cpc[u] \in {"register", "post"}
    BY <1>5, <2>1
  <2>4. BeingMade' = BeingMade \ ids[t]
    BY <1>4, <1>5, <2>3 DEF BeingMade
  <2> QED BY <2>2, <2>4
<1>6. ASSUME NEW r \in Requests, Begin(t, r)
      PROVE  /\ BeingMade' = BeingMade \cup (id..(id + r.docs - 1))
             /\ id' = id + r.docs /\ PendingIds' = PendingIds
  <2>1. /\ UNCHANGED <<queue_tasks, queue_tasks_deferred>> /\ id' = id + r.docs
        /\ cpc[t] = "idle" /\ cpc' = [cpc EXCEPT ![t] = "register"]
        /\ ids' = [ids EXCEPT ![t] = id..(id + r.docs - 1)]
    BY <1>6 DEF Begin, GetNewIds, Goto
  <2> DEFINE new == id..(id + r.docs - 1)
  <2> HIDE DEF new
  <2>2. \A u \in Threads :
           /\ cpc'[u] \in {"register", "post"} <=> u = t \/ cpc[u] \in {"register", "post"}
           /\ ids'[u] = IF u = t THEN new ELSE ids[u]
    BY <1>1, <2>1 DEF new
  <2>3. cpc[t] \notin {"register", "post"}
    BY <2>1
  <2>4. BeingMade' = BeingMade \cup new
    BY <2>2, <2>3 DEF BeingMade
  <2> QED BY <1>3, <2>1, <2>4 DEF new
<1>7. CASE PostRequest(t)
  <2>1. PICK low \in ids[t] : /\ \A i \in ids[t] : low <= i
                              /\ PostBack(TasksOf(low, call[t]))
    BY <1>7 DEF PostRequest
  <2>2. PICK first \in Nat : ids[t] = first..(first + call[t].docs - 1)
    BY <1>7 DEF PostRequest, ClientTypeInv, Numbered
  <2>3. call[t].docs \in Nat \ {0}
    BY <1>1 DEF Request
  <2>4. low = first
    <3>1. first \in ids[t]
      BY <2>2, <2>3
    <3> QED BY <2>1, <2>2, <3>1
  <2>5. IdsIn(queue_tasks \o TasksOf(first, call[t])) = q \cup ids[t]
    <3>1. first..(first + call[t].docs - 1) \subseteq TaskIds
      BY <1>1, <2>2
    <3> QED BY <1>1, <2>2, <3>1, IdsOfRequest
  <2>6. PendingIds' = PendingIds \cup ids[t] /\ id' = id
    BY <1>2, <2>1, <2>4, <2>5 DEF PostBack
  <2>7. PICK pc \in {"user", "recv"} : Goto(t, pc)
    BY <1>7 DEF PostRequest
  <2>8. ids[t] \subseteq BeingMade /\ BeingMade' = BeingMade \ ids[t]
    BY <1>5, <1>7, <2>7 DEF PostRequest
  <2> QED BY <1>7, <2>6, <2>8
<1>8. CASE Reject(t)
  <2>1. /\ cpc[t] = "register" /\ Goto(t, "idle") /\ ids' = [ids EXCEPT ![t] = {}]
        /\ UNCHANGED queueVars
    BY <1>8 DEF Reject, Return
  <2>2. ids[t] \subseteq BeingMade /\ BeingMade' = BeingMade \ ids[t]
    BY <1>1, <1>5, <2>1
  <2>3. PendingIds' = PendingIds /\ id' = id
    BY <1>3, <2>1 DEF queueVars
  <2> QED BY <1>8, <2>2, <2>3
<1>9. ASSUME BeingMade' = BeingMade, UNCHANGED queueVars \/ Terminate \/ \E i \in TaskIds : PostCancel(i)
      PROVE  UNCHANGED <<id, BeingMade, PendingIds>>
  <2>1. CASE UNCHANGED queueVars \/ Terminate
    BY <1>3, <1>9, <2>1 DEF queueVars, Terminate
  <2>2. ASSUME NEW i \in TaskIds, PostCancel(i) PROVE PendingIds' = PendingIds /\ id' = id
    <3> DEFINE p == CleanupPendingTask(queue_tasks, i)
               e == CleanupPendingTask(queue_tasks_deferred, i)
    <3>1. queue_tasks' = <<Cancel(i)>> \o p /\ queue_tasks_deferred' = e /\ id' = id
      BY <2>2 DEF PostCancel
    <3>2. \A x \in HeldTasks : x.id # NoTask => x.id_target = NoTask
      BY DEF FormedInv, TasksFormed, TaskFormed
    <3>3. IdsIn(p) = q /\ IdsIn(e) = d /\ p \in Seq(Task)
      BY <1>1, <3>2, CleanupKeepsIds, IdsOfCleanup DEF HeldTasks
    <3> HIDE DEF p, e
    <3>4. IdsIn(<<Cancel(i)>> \o p) = IdsIn(p)
      BY <3>3, IdsOfCancel
    <3> QED BY <1>2, <3>1, <3>3, <3>4
  <2> QED BY <1>9, <2>1, <2>2
<1> QED BY <1>6, <1>7, <1>8, <1>9, ClientMakingSteps, ClientIdSteps

-----------------------------------------------------------------------------
(* What the worker has begun stays begun *)

\* The task was taken by process_single_task (or its request was refused).
Begun(i) == i < id /\ i \notin BeingMade /\ i \notin PendingIds

LEMMA BegunStays ==
  ASSUME TypeInv, HomeInv, FormedInv, [Next]_vars, NEW i \in Int, Begun(i)
  PROVE  Begun(i)'
<1>1. id \in Nat
  BY MaxTasksAssumption DEF TypeInv, QueueTypeOK
<1>2. CASE Worker /\ UNCHANGED clientVars
  <2>1. BeingMade' = BeingMade /\ PendingIds' \subseteq PendingIds
    BY <1>2, WorkerPendingSteps DEF FormedInv, clientVars, BeingMade
  <2>2. id' = id
    BY <1>2, WorkerQueueSteps
    DEF TypeInv, queueVars, PostBack, Defer, PopDeferredTask, StartLoop, TakeTask
  <2> QED BY <2>1, <2>2 DEF Begun
<1>3. ASSUME NEW t \in Threads, Native(t) \/ Caller(t), UNCHANGED workerVars PROVE Begun(i)'
  <2>1. ASSUME NEW r \in Requests, BeingMade' = BeingMade \cup (id..(id + r.docs - 1)),
               id' = id + r.docs, PendingIds' = PendingIds
        PROVE  Begun(i)'
    <3>1. r.docs \in Nat
      BY NativeCallsAssumption DEF Request
    <3> QED BY <1>1, <2>1, <3>1 DEF Begun
  <2>2. ASSUME id' = id, ids[t] \subseteq BeingMade, BeingMade' = BeingMade \ ids[t],
               PendingIds' \subseteq PendingIds \cup ids[t]
        PROVE  Begun(i)'
    BY <2>2 DEF Begun
  <2>3. CASE UNCHANGED <<id, BeingMade, PendingIds>>
    BY <2>3 DEF Begun
  <2> QED BY <1>3, <2>1, <2>2, <2>3, ClientPendingSteps
<1>4. CASE UNCHANGED vars
  BY <1>4 DEF vars, queueVars, workerVars, clientVars, Begun, BeingMade, PendingIds, IdsIn, CurId
<1> QED BY <1>2, <1>3, <1>4 DEF Next, Finished

\* A task is begun when it is bound to a slot.
LEMMA LaunchBegins ==
  ASSUME TypeInv, HomeInv, FormedInv, Worker, UNCHANGED clientVars,
         LaunchSlotWithTask \/ LaunchFails
  PROVE  ~Begun(cur.id) /\ cur.id # NoTask /\ cur.id \in TaskIds
         /\ \A i : i = cur.id => Begun(i)'
<1>1. cur.id \in PendingIds /\ cur.id # NoTask /\ PendingIds' = PendingIds \ {cur.id}
  BY WorkerPendingSteps DEF FormedInv
<1>2. cur.id < id /\ cur.id \in TaskIds
  BY <1>1 DEF FormedInv, TasksFormed, TaskFormed, HeldTasks, TypeInv, WorkerTypeInv,
              WorkerTypeOK, ControlTypeOK, Task
<1>3. cur.id \notin BeingMade
  BY <1>1 DEF HomeInv, Unshared, HomeIds, BeingMade
<1>4. id' = id /\ BeingMade' = BeingMade
  BY LaunchBinds DEF queueVars, clientVars, BeingMade
<1> QED BY <1>1, <1>2, <1>3, <1>4 DEF Begun

-----------------------------------------------------------------------------
(* What the worker's steps do to the slots *)

\* Only completions generate; a slot stops generating, and is released, before
\* its last result is sent. A rerank is never sent a completion's result.
TextGenerated == \A s \in Slots : state[s] = "GENERATING" => params[s].type = "COMPLETION"
StopsGenerating == wpc = "stop" => state[at] = "GENERATING"
RepliesReleased ==
    wpc = "reply" => /\ ~IsProcessing(at)
                     /\ reply.kind = "final" => params[at].type # "RERANK"
CausalInv == TextGenerated /\ StopsGenerating /\ RepliesReleased

\* The steps of the worker other than a launch, as far as slots and results go.
Quiet ==
    /\ UNCHANGED <<state, n_decoded, responseVars>>
    /\ wpc \notin {"scored", "reply"} /\ wpc' \notin {"scored", "stop", "reply"}
Stops ==
    /\ \E s \in Slots, kind \in {"final", "error"} :
          /\ Release(s)
          /\ UNCHANGED <<n_decoded, responseVars>>
          /\ wpc' = "reply" /\ at' = s /\ reply'.kind = kind
          /\ kind = "final" => IsProcessing(s) /\ params[s].type # "RERANK"
    /\ wpc \notin {"scored", "reply"}
Cancels ==
    /\ UNCHANGED <<n_decoded, responseVars>>
    /\ state' = state \/ \E s \in Slots : Release(s)
    /\ wpc = "process" /\ wpc' = "tasks"
Fresh == {"STARTED", "PROCESSING_PROMPT"}
FillsPrompt ==
    /\ UNCHANGED responseVars
    /\ \E s \in Slots :
          /\ state[s] \in Fresh
          /\ \E st \in {"PROCESSING_PROMPT", "DONE_PROMPT"} : state' = [state EXCEPT ![s] = st]
          /\ \A u \in Slots : u # s => n_decoded'[u] = n_decoded[u]
    /\ wpc = "prompt" /\ wpc' \in {"prompt", "decode"}
Samples ==
    \E s \in Slots, streamed \in BOOLEAN :
       /\ state[s] \in {"DONE_PROMPT", "GENERATING"}
       /\ state[s] = "DONE_PROMPT" => params[s].type = "COMPLETION"
       /\ state' = [state EXCEPT ![s] = "GENERATING"]
       /\ n_decoded' = [n_decoded EXCEPT ![s] = @ + 1]
       /\ wpc = "view" /\ (wpc' = "view" \/ (wpc' = "stop" /\ at' = s))
       /\ streamed => params[s].stream
       /\ IF streamed THEN SendPartial(s) ELSE UNCHANGED responseVars
Scores ==
    \E s \in Slots : /\ UNCHANGED <<state, n_decoded>>
                     /\ state[s] = "DONE_PROMPT" /\ params[s].type # "COMPLETION"
                     /\ wpc = "view" /\ wpc' = "scored" /\ at' = s
                     /\ SendFor(s, "scored", 0)
Replies ==
    \E s \in Slots : /\ UNCHANGED <<state, n_decoded>>
                     /\ wpc = "reply" /\ at = s /\ wpc' \notin {"scored", "stop", "reply"}
                     /\ SendFor(s, reply.kind, IF reply.kind = "error" THEN 0 ELSE n_decoded[s])

LEMMA WorkerMoves ==
  ASSUME TypeInv, CausalInv, SlotsFormed, Worker
  PROVE  \/ LaunchSlotWithTask \/ LaunchFails \/ ReleaseScored
         \/ Quiet \/ Stops \/ Cancels \/ FillsPrompt \/ Samples \/ Scores \/ Replies
<1>1. /\ \A s \in Slots : params[s] \in Request /\ PromptGiven(params[s])
      /\ \A s \in Slots : ~IsNonCausal(s) <=> params[s].type = "COMPLETION"
  BY DEF TypeInv, WorkerTypeInv, WorkerTypeOK, SlotsTypeOK, Request, IsNonCausal,
         SlotsFormed, SlotFormed
<1>2. ASSUME NEW s \in Slots, NEW kind \in {"final", "error"}, NEW loop,
             ReleaseInLoop(s, kind, loop), wpc \notin {"scored", "reply"},
             kind = "final" => IsProcessing(s) /\ params[s].type # "RERANK"
      PROVE  Stops
  BY <1>2 DEF ReleaseInLoop, Stops, WorkerAt
<1>3. at \in 1..(NSlots + 1) /\ AtASlot
  BY DEF TypeInv, WorkerTypeInv, WorkerTypeOK, ControlTypeOK
<1>4. CASE ContextOverflow
  <2>1. PICK s \in Slots : ReleaseInLoop(s, "error", "shift")
    BY <1>3, <1>4, SlotNumbers DEF ContextOverflow
  <2> QED BY <1>2, <1>4, <2>1 DEF ContextOverflow
<1>5. CASE PromptRefused
  <2>1. PICK s \in Slots :
          /\ AtPromptOf(s) /\ state[s] = "STARTED"
          /\ ReleaseInLoop(s, IF params[s].n_prompt = 0 THEN "final" ELSE "error", "prompt")
    BY <1>5 DEF PromptRefused
  <2>2. params[s].n_prompt = 0 => params[s].type # "RERANK"
    BY <1>1 DEF PromptGiven
  <2>3. wpc = "prompt" /\ IsProcessing(s)
    BY <2>1 DEF AtPromptOf, IsProcessing
  <2> QED BY <1>2, <2>1, <2>2, <2>3
<1>6. CASE ReleaseFailed
  <2>1. at \in Slots /\ wpc = "failed" /\ ReleaseInLoop(at, "error", "failed")
    BY <1>3, <1>6, SlotNumbers DEF ReleaseFailed
  <2>2. PICK s \in Slots : s = at
    BY <2>1
  <2> QED BY <1>2, <2>1, <2>2
<1>7. CASE ReleaseStopped
  <2>1. at \in Slots /\ wpc = "stop" /\ ReleaseInLoop(at, "final", "view")
    BY <1>3, <1>7 DEF ReleaseStopped, AtASlot
  <2>2. IsProcessing(at) /\ params[at].type # "RERANK"
    BY <2>1 DEF CausalInv, StopsGenerating, TextGenerated, IsProcessing
  <2>3. PICK s \in Slots : s = at
    BY <2>1
  <2> QED BY <1>2, <2>1, <2>2, <2>3
<1>8. CASE ProcessCancel
  BY <1>8 DEF ProcessCancel, Cancels, TaskDone, WorkerAt
<1>9. CASE PromptWaits \/ PromptFill
  <2>1. CASE PromptWaits
    <3>1. PICK s \in Slots : HasPrompt(s) /\ state' = [state EXCEPT ![s] = "PROCESSING_PROMPT"]
                             /\ wpc = "prompt"
      BY <2>1 DEF PromptWaits, AtAccepted, AtPromptOf
    <3>2. /\ UNCHANGED <<responseVars, n_decoded>> /\ wpc' = "prompt"
      BY <2>1 DEF PromptWaits, WorkerAt
    <3> QED BY <3>1, <3>2 DEF FillsPrompt, HasPrompt, Fresh
  <2>2. CASE PromptFill
    <3>1. PICK s \in Slots :
             /\ HasPrompt(s) /\ wpc = "prompt"
             /\ \E st \in {"PROCESSING_PROMPT", "DONE_PROMPT"} : state' = [state EXCEPT ![s] = st]
             /\ \E n : n_decoded' = [n_decoded EXCEPT ![s] = n]
             /\ wpc' \in {"prompt", "decode"}
      BY <2>2 DEF PromptFill, AtAccepted, AtPromptOf, WorkerAt
    <3>2. UNCHANGED responseVars /\ n_decoded \in [Slots -> Nat]
      BY <2>2 DEF PromptFill, TypeInv, WorkerTypeInv, WorkerTypeOK, SlotsTypeOK
    <3>3. \A u \in Slots : u # s => n_decoded'[u] = n_decoded[u]
      BY <3>1, <3>2
    <3> QED BY <3>1, <3>2, <3>3 DEF FillsPrompt, HasPrompt, Fresh
  <2> QED BY <1>9, <2>1, <2>2
<1>10. ASSUME NEW streamed \in BOOLEAN, NEW goesOn \in BOOLEAN, SampleToken(streamed, goesOn)
       PROVE  Samples
  <2>1. PICK s \in Slots :
          /\ NextWithLogits(s) /\ ~IsScored(s)
          /\ state' = [state EXCEPT ![s] = "GENERATING"]
          /\ n_decoded' = [n_decoded EXCEPT ![s] = @ + 1]
          /\ streamed => params[s].stream
          /\ IF streamed THEN SendPartial(s) ELSE UNCHANGED responseVars
          /\ IF goesOn THEN WorkerAt("view", s + 1) ELSE WorkerAt("stop", s)
    BY <1>10 DEF SampleToken
  <2>2. /\ wpc = "view" /\ state[s] \in {"DONE_PROMPT", "GENERATING"}
        /\ state[s] = "DONE_PROMPT" => params[s].type = "COMPLETION"
    <3>1. wpc = "view" /\ state[s] \in {"DONE_PROMPT", "GENERATING"}
      BY <2>1 DEF NextWithLogits, HasLogits
    <3>2. state[s] = "DONE_PROMPT" => ~IsNonCausal(s)
      BY <2>1 DEF IsScored
    <3> QED BY <1>1, <3>1, <3>2
  <2>3. wpc' = "view" \/ (wpc' = "stop" /\ at' = s)
    BY <2>1 DEF WorkerAt
  <2> QED BY <2>1, <2>2, <2>3 DEF Samples
<1>11. CASE SendScored
  BY <1>1, <1>11 DEF SendScored, Scores, IsScored, NextWithLogits, slotVars, WorkerAt
<1>12. CASE SendReply
  <2>1. at \in Slots
    BY <1>3, <1>12 DEF SendReply, AtASlot
  <2>2. reply.loop \notin {"scored", "stop", "reply"}
    BY DEF TypeInv, WorkerTypeInv, WorkerTypeOK, ControlTypeOK, Reply
  <2> QED BY <1>12, <2>1, <2>2 DEF SendReply, Replies, slotVars, WorkerAt
<1>13. CASE WorkerStart \/ WorkerTakesTask \/ DeferTask \/ ProcessNextResponse
            \/ PostNextResponse \/ AddSampledToken \/ PromptSkip \/ DecodeHalves \/ NextView
  BY <1>13 DEF WorkerStart, WorkerTakesTask, DeferTask, ProcessNextResponse, TaskDone,
               PostNextResponse, AddSampledToken, PromptSkip, DecodeHalves, NextView, ViewDone,
               slotVars, Quiet, WorkerAt
<1>14. CASE WorkerDrained \/ WorkerWakes \/ WorkerEnds \/ AllSlotsIdle \/ ContextsFit
            \/ SampledTokensAdded \/ PromptsBatched \/ DecodeSucceeds \/ DecodeFails
  BY <1>14 DEF WorkerDrained, WorkerWakes, WorkerEnds, AllSlotsIdle, ContextsFit,
               SampledTokensAdded, PromptsBatched, DecodeSucceeds, DecodeFails, Proceed,
               WorkerAt, slotVars, Quiet
<1>15. CASE NoTokens \/ FailedDone \/ LastView
  BY <1>15 DEF NoTokens, FailedDone, LastView, ViewDone, EndUpdate, WorkerAt, slotVars, Quiet
<1> QED BY <1>4, <1>5, <1>6, <1>7, <1>8, <1>9, <1>10, <1>11, <1>12, <1>13, <1>14, <1>15
        DEF Worker

LEMMA WorkerCausalSteps ==
  ASSUME TypeInv, CausalInv, SlotsFormed, Worker
  PROVE  CausalInv'
<1>1. /\ state \in [Slots -> SlotStates] /\ WorkerTypeInv'
      /\ \A s \in Slots : "GENERATING" # "STARTED"
  BY NextTypeInv, WorkerTypeSteps DEF TypeInv, WorkerTypeInv, WorkerTypeOK, SlotsTypeOK
<1>2. at' \in 1..(NSlots + 1) /\ (wpc' = "stop" \/ wpc' = "reply" => at' \in Slots)
  BY <1>1 DEF WorkerTypeInv, WorkerTypeOK, ControlTypeOK, AtASlot
<1>3. CASE LaunchSlotWithTask \/ LaunchFails
  <2>1. PICK s \in Slots :
           /\ ~IsProcessing(s) /\ state'[s] \in {"STARTED", state[s]}
           /\ \A u \in Slots : u # s => params'[u] = params[u] /\ state'[u] = state[u]
    BY <1>3, LaunchBinds
  <2>2. TextGenerated'
    BY <2>1 DEF IsProcessing, CausalInv, TextGenerated
  <2>3. wpc' = "tasks"
    BY <1>3, LaunchBinds
  <2> QED BY <2>2, <2>3 DEF CausalInv, StopsGenerating, RepliesReleased
<1>4. ASSUME UNCHANGED params, \A s \in Slots : state'[s] = "GENERATING" => state[s] = "GENERATING"
      PROVE  TextGenerated'
  BY <1>4 DEF CausalInv, TextGenerated
<1>5. ASSUME NEW s \in Slots, Release(s), UNCHANGED params
      PROVE  TextGenerated' /\ state'[s] = "IDLE"
  BY <1>1, <1>4, <1>5 DEF Release
<1>6. CASE UNCHANGED params
  <2>1. CASE Quiet \/ Scores \/ Replies
    <3>1. UNCHANGED state /\ wpc' \notin {"stop", "reply"}
      BY <2>1 DEF Quiet, Scores, Replies
    <3> QED BY <1>4, <1>6, <3>1 DEF CausalInv, StopsGenerating, RepliesReleased
  <2>2. CASE Stops
    <3>1. PICK s \in Slots, kind \in {"final", "error"} :
             /\ Release(s)
             /\ wpc' = "reply" /\ at' = s /\ reply'.kind = kind
             /\ kind = "final" => params[s].type # "RERANK"
      BY <2>2 DEF Stops
    <3>2. TextGenerated' /\ state'[s] = "IDLE"
      BY <1>5, <1>6, <3>1
    <3> QED BY <1>6, <3>1, <3>2 DEF CausalInv, StopsGenerating, RepliesReleased, IsProcessing
  <2>3. CASE Cancels \/ ReleaseScored
    <3>1. (state' = state \/ \E s \in Slots : Release(s)) /\ wpc' \notin {"stop", "reply"}
      BY <2>3 DEF Cancels, ReleaseScored, WorkerAt, TypeInv, WorkerTypeInv, AtASlot
    <3>2. TextGenerated'
      BY <1>4, <1>5, <1>6, <3>1
    <3> QED BY <3>1, <3>2 DEF CausalInv, StopsGenerating, RepliesReleased
  <2>4. CASE FillsPrompt
    <3>1. PICK s \in Slots, st \in {"PROCESSING_PROMPT", "DONE_PROMPT"} :
             state' = [state EXCEPT ![s] = st]
      BY <2>4 DEF FillsPrompt
    <3>2. wpc' \notin {"stop", "reply"}
      BY <2>4 DEF FillsPrompt
    <3>3. TextGenerated'
      BY <1>1, <1>4, <1>6, <3>1
    <3> QED BY <3>2, <3>3 DEF CausalInv, StopsGenerating, RepliesReleased
  <2>5. CASE Samples
    <3>1. PICK s \in Slots :
             /\ state[s] = "DONE_PROMPT" => params[s].type = "COMPLETION"
             /\ state[s] \in {"DONE_PROMPT", "GENERATING"}
             /\ state' = [state EXCEPT ![s] = "GENERATING"]
             /\ wpc' = "view" \/ (wpc' = "stop" /\ at' = s)
      BY <2>5 DEF Samples
    <3>2. TextGenerated'
      BY <1>1, <1>6, <3>1 DEF CausalInv, TextGenerated
    <3> QED BY <1>1, <3>1, <3>2 DEF CausalInv, StopsGenerating, RepliesReleased
  <2>6. CASE LaunchSlotWithTask \/ LaunchFails
    BY <1>3, <2>6
  <2> QED BY <2>1, <2>2, <2>3, <2>4, <2>5, <2>6, WorkerMoves
<1> QED BY <1>3, <1>6, WorkerTagSteps

\* What the slot s has still to say to its caller.
Live(s) ==
    \/ IsProcessing(s) /\ ~(wpc = "scored" /\ at = s)
    \/ wpc = "reply" /\ at = s /\ reply.kind = "final"

\* A step that does not launch a task in s.
Calm(s) ==
    /\ n_decoded'[s] >= n_decoded[s] \/ state[s] \in Fresh
    /\ Live(s)' => Live(s)
    /\ IsProcessing(s)' => IsProcessing(s)
    /\ state'[s] \in Fresh => state[s] \in Fresh

LEMMA WorkerCalmSteps ==
  ASSUME TypeInv, CausalInv, SlotsFormed, Worker, ~LaunchSlotWithTask, ~LaunchFails
  PROVE  \A s \in Slots : Calm(s)
<1>1. /\ state \in [Slots -> SlotStates]
      /\ n_decoded \in [Slots -> Nat]
  BY DEF TypeInv, WorkerTypeInv, WorkerTypeOK, SlotsTypeOK
<1>2. \A s \in Slots : n_decoded[s] \in Nat /\ n_decoded[s] >= n_decoded[s]
  BY <1>1
<1>3. CASE Quiet \/ Scores \/ Replies
  <2>1. UNCHANGED <<state, n_decoded>> /\ wpc' # "reply" /\ wpc # "scored"
    BY <1>3 DEF Quiet, Scores, Replies
  <2> QED BY <1>2, <2>1 DEF Calm, Live, IsProcessing
<1>4. ASSUME NEW s \in Slots, Release(s), UNCHANGED n_decoded, wpc # "scored" \/ at = s,
             wpc' # "scored",
             wpc' = "reply" => at' = s /\ (reply'.kind = "final" => IsProcessing(s) /\ wpc # "scored"),
             NEW u \in Slots
      PROVE  Calm(u)
  <2>1. state'[u] = IF u = s THEN "IDLE" ELSE state[u]
    BY <1>1, <1>4 DEF Release
  <2>2. IsProcessing(u)' => IsProcessing(u) /\ u # s
    BY <2>1 DEF IsProcessing
  <2>3. Live(u)' => Live(u)
    BY <1>4, <2>2 DEF Live
  <2>4. state'[u] \in Fresh => state[u] \in Fresh
    BY <2>1 DEF Fresh
  <2> QED BY <1>2, <1>4, <2>2, <2>3, <2>4 DEF Calm
<1>5. CASE Stops
  <2>1. PICK s \in Slots, kind \in {"final", "error"} :
           /\ Release(s)
           /\ UNCHANGED n_decoded
           /\ wpc' = "reply" /\ at' = s /\ reply'.kind = kind
           /\ kind = "final" => IsProcessing(s)
    BY <1>5 DEF Stops
  <2>2. wpc # "scored"
    BY <1>5 DEF Stops
  <2> QED BY <1>4, <2>1, <2>2
<1>6. CASE Cancels
  <2>1. CASE UNCHANGED state
    BY <1>2, <1>6, <2>1 DEF Cancels, Calm, Live, IsProcessing
  <2>2. ASSUME NEW s \in Slots, Release(s) PROVE \A u \in Slots : Calm(u)
    BY <1>4, <1>6, <2>2 DEF Cancels
  <2> QED BY <1>6, <2>1, <2>2 DEF Cancels
<1>7. CASE ReleaseScored
  <2>1. PICK s \in Slots : s = at
    BY <1>7 DEF ReleaseScored, TypeInv, WorkerTypeInv, AtASlot
  <2>2. Release(s) /\ UNCHANGED n_decoded /\ wpc' = "view"
    BY <1>7, <2>1 DEF ReleaseScored, WorkerAt
  <2> QED BY <1>4, <2>1, <2>2
<1>8. CASE FillsPrompt
  <2>1. PICK s \in Slots, st \in {"PROCESSING_PROMPT", "DONE_PROMPT"} :
           /\ state[s] \in Fresh /\ state' = [state EXCEPT ![s] = st]
           /\ \A u \in Slots : u # s => n_decoded'[u] = n_decoded[u]
    BY <1>8 DEF FillsPrompt
  <2>2. wpc = "prompt" /\ wpc' \in {"prompt", "decode"}
    BY <1>8 DEF FillsPrompt
  <2>3. ASSUME NEW u \in Slots PROVE Calm(u)
    <3>1. state'[u] = IF u = s THEN st ELSE state[u]
      BY <1>1, <2>1
    <3>2. IsProcessing(u)' => IsProcessing(u)
      BY <2>1, <3>1 DEF IsProcessing, Fresh
    <3>3. Live(u)' => Live(u)
      BY <2>2, <3>2 DEF Live
    <3>4. state'[u] \in Fresh => state[u] \in Fresh
      BY <2>1, <3>1
    <3>5. n_decoded'[u] >= n_decoded[u] \/ state[u] \in Fresh
      BY <1>2, <2>1
    <3> QED BY <3>2, <3>3, <3>4, <3>5 DEF Calm
  <2> QED BY <2>3
<1>9. CASE Samples
  <2>1. PICK s \in Slots :
           /\ state[s] \in {"DONE_PROMPT", "GENERATING"}
           /\ state' = [state EXCEPT ![s] = "GENERATING"]
           /\ n_decoded' = [n_decoded EXCEPT ![s] = @ + 1]
           /\ wpc = "view" /\ wpc' \in {"view", "stop"}
    BY <1>9 DEF Samples
  <2>2. ASSUME NEW u \in Slots PROVE Calm(u)
    <3>1. /\ state'[u] = IF u = s THEN "GENERATING" ELSE state[u]
          /\ n_decoded'[u] = IF u = s THEN n_decoded[u] + 1 ELSE n_decoded[u]
      BY <1>1, <2>1
    <3>2. IsProcessing(u)' => IsProcessing(u)
      BY <2>1, <3>1 DEF IsProcessing
    <3>3. Live(u)' => Live(u)
      BY <2>1, <3>2 DEF Live
    <3>4. state'[u] \in Fresh => state[u] \in Fresh
      BY <3>1 DEF Fresh
    <3>5. n_decoded'[u] >= n_decoded[u]
      BY <1>2, <3>1
    <3> QED BY <3>2, <3>3, <3>4, <3>5 DEF Calm
  <2> QED BY <2>2
<1> QED BY <1>3, <1>5, <1>6, <1>7, <1>8, <1>9, WorkerMoves


\* The result r is sent to the caller of the task in s.
Sends(s, r) ==
    /\ id_task[s] # NoTask /\ r \in Result
    /\ Send(id_task[s], r)
    /\ r.kind = "partial" => /\ Live(s) /\ state[s] \notin Fresh /\ params[s].stream
                             /\ r.n = n_decoded[s] + 1 /\ n_decoded'[s] = r.n
    /\ r.kind = "scored"  => Live(s) /\ state[s] \notin Fresh
    /\ r.kind = "final"   => Live(s) /\ r.n = n_decoded[s] /\ params[s].type # "RERANK"
    /\ r.kind \in {"final", "error"} => ~IsProcessing(s)
    /\ r.kind # "partial" => ~Live(s)'

LEMMA WorkerSendSteps ==
  ASSUME TypeInv, CausalInv, SlotsFormed, Worker
  PROVE  \/ UNCHANGED responseVars
         \/ LaunchFails
         \/ \E s \in Slots, r \in Result : Sends(s, r)
<1>1. /\ n_decoded \in [Slots -> Nat] /\ state \in [Slots -> SlotStates]
  BY DEF TypeInv, WorkerTypeInv, WorkerTypeOK, SlotsTypeOK
<1>2. ASSUME NEW s \in Slots, NEW kind \in {"partial", "final", "scored", "error"}, NEW n \in Nat,
             SendFor(s, kind, n)
      PROVE  \/ UNCHANGED responseVars
             \/ /\ id_task[s] # NoTask /\ [kind |-> kind, n |-> n] \in Result
                /\ Send(id_task[s], [kind |-> kind, n |-> n])
  BY <1>2 DEF SendFor, Result
<1>3. CASE Samples
  <2>1. PICK s \in Slots, streamed \in BOOLEAN :
           /\ state[s] \in {"DONE_PROMPT", "GENERATING"} /\ wpc = "view"
           /\ n_decoded' = [n_decoded EXCEPT ![s] = @ + 1]
           /\ streamed => params[s].stream
           /\ IF streamed THEN SendPartial(s) ELSE UNCHANGED responseVars
    BY <1>3 DEF Samples
  <2>2. CASE streamed
    <3> DEFINE r == [kind |-> "partial", n |-> n_decoded[s] + 1]
    <3>1. n_decoded[s] + 1 \in Nat /\ n_decoded'[s] = n_decoded[s] + 1
      BY <1>1, <2>1
    <3>2. SendFor(s, "partial", n_decoded[s] + 1)
      BY <2>1, <2>2 DEF SendPartial
    <3>3. Live(s) /\ state[s] \notin Fresh
      BY <2>1 DEF Live, IsProcessing, Fresh
    <3>4. UNCHANGED responseVars \/ (id_task[s] # NoTask /\ r \in Result /\ Send(id_task[s], r))
      BY <1>2, <3>1, <3>2
    <3>5. r.kind = "partial" /\ r.n = n_decoded[s] + 1
      OBVIOUS
    <3> HIDE DEF r
    <3> QED BY <2>1, <2>2, <3>1, <3>3, <3>4, <3>5 DEF Sends
  <2> QED BY <2>1, <2>2
<1>4. CASE Scores
  <2>1. PICK s \in Slots : /\ state[s] = "DONE_PROMPT" /\ wpc = "view"
                           /\ wpc' = "scored" /\ at' = s /\ SendFor(s, "scored", 0)
    BY <1>4 DEF Scores
  <2> DEFINE r == [kind |-> "scored", n |-> 0]
  <2>2. UNCHANGED responseVars \/ (id_task[s] # NoTask /\ r \in Result /\ Send(id_task[s], r))
    BY <1>2, <2>1
  <2>3. Live(s) /\ state[s] \notin Fresh /\ ~Live(s)'
    BY <2>1 DEF Live, IsProcessing, Fresh
  <2>4. r.kind = "scored"
    OBVIOUS
  <2> HIDE DEF r
  <2> QED BY <2>2, <2>3, <2>4 DEF Sends
<1>5. CASE Replies
  <2>1. PICK s \in Slots :
           /\ UNCHANGED state /\ wpc = "reply" /\ at = s /\ wpc' \notin {"scored", "stop", "reply"}
           /\ SendFor(s, reply.kind, IF reply.kind = "error" THEN 0 ELSE n_decoded[s])
    BY <1>5 DEF Replies
  <2> DEFINE n == IF reply.kind = "error" THEN 0 ELSE n_decoded[s]
             r == [kind |-> reply.kind, n |-> n]
  <2>2. reply.kind \in {"final", "error"} /\ n \in Nat
    BY <1>1 DEF TypeInv, WorkerTypeInv, WorkerTypeOK, ControlTypeOK, Reply
  <2>3. UNCHANGED responseVars \/ (id_task[s] # NoTask /\ r \in Result /\ Send(id_task[s], r))
    BY <1>2, <2>1, <2>2
  <2>4. ~IsProcessing(s) /\ (reply.kind = "final" => params[s].type # "RERANK")
    BY <2>1 DEF CausalInv, RepliesReleased
  <2>5. (reply.kind = "final" => Live(s)) /\ ~Live(s)'
    BY <2>1, <2>4 DEF Live, IsProcessing
  <2>6. r.kind = reply.kind /\ (reply.kind = "final" => r.n = n_decoded[s])
    OBVIOUS
  <2> HIDE DEF r, n
  <2> QED BY <2>2, <2>3, <2>4, <2>5, <2>6 DEF Sends
<1>6. CASE LaunchSlotWithTask \/ ReleaseScored \/ Quiet \/ Stops \/ Cancels \/ FillsPrompt
  BY <1>6 DEF LaunchSlotWithTask, ReleaseScored, Quiet, Stops, Cancels, FillsPrompt, responseVars
<1> QED BY <1>3, <1>4, <1>5, <1>6, WorkerMoves

\* What a thread does to the results: it takes one of an id of its own, or gives
\* the id up.
LEMMA ClientResultSteps ==
  ASSUME ClientTypeInv, NEW t \in Threads, Native(t) \/ Caller(t)
  PROVE  \/ UNCHANGED <<responseVars, got>>
         \/ Register(t)
         \/ \E i \in ids[t] : RemoveWaitingTaskId(i) /\ got' = got
         \/ \E i \in ids[t], kind \in {"partial", "final", "scored", "error"} : Take(t, i, kind)
<1>1. CASE ReceiveError(t) \/ ReceiveFinal(t) \/ ReceivePartial(t) \/ ReceiveScored(t)
  BY <1>1 DEF ReceiveError, ReceiveFinal, ReceivePartial, ReceiveScored
<1>2. CASE RemoveAfterError(t) \/ RemoveAfterFinal(t) \/ ReleaseTask(t) \/ CancelRemove(t)
           \/ CancelRemoveAgain(t)
  BY <1>2 DEF RemoveAfterError, RemoveAfterFinal, ReleaseTask, CancelRemove, CancelRemoveAgain
<1>3. CASE PostRequest(t) \/ CancelPost(t) \/ Reject(t) \/ NextOutput(t) \/ Abandon(t) \/ Close(t)
           \/ \E r \in Requests : Begin(t, r)
  BY <1>3 DEF PostRequest, CancelPost, Reject, NextOutput, Abandon, Close, Begin
<1> QED BY <1>1, <1>2, <1>3 DEF Native, Caller


-----------------------------------------------------------------------------
(* Only what the worker has begun is in a slot or heard of *)

Nothing == [times |-> 0, n |-> 0, end |-> "none"]
SlotsBegun == \A s \in Slots : id_task[s] # NoTask => Begun(id_task[s])
OneSlotEach == \A s, u \in Slots : id_task[s] = id_task[u] /\ id_task[s] # NoTask => s = u
ResultsBegun ==
    \A i \in TaskIds : queue_results[i] # <<>> \/ got[i] # Nothing => Begun(i)
BegunInv == SlotsBegun /\ OneSlotEach /\ ResultsBegun

\* A launched task is new to the slots and to its caller.
LEMMA LaunchIsNews ==
  ASSUME TypeInv, HomeInv, FormedInv, BegunInv, Worker, UNCHANGED clientVars,
         LaunchSlotWithTask \/ LaunchFails
  PROVE  /\ cur.id \in TaskIds /\ cur.id # NoTask
         /\ \A s \in Slots : id_task[s] # cur.id
         /\ queue_results[cur.id] = <<>> /\ got[cur.id] = Nothing
         /\ \A i : i = cur.id => Begun(i)'
BY LaunchBegins DEF BegunInv, SlotsBegun, ResultsBegun

\* The results of a task grow by a sent one, for its slot or its refusal.
LEMMA SentOnlyTo ==
  ASSUME ResponseTypeOK, NEW i, NEW r, Send(i, r), NEW j \in TaskIds, j # i
  PROVE  queue_results'[j] = queue_results[j]
BY DEF Send, ResponseTypeOK

LEMMA TakenOnlyFrom ==
  ASSUME ResponseTypeOK, ClientTypeInv, NEW t \in Threads, NEW i \in ids[t], NEW kind, Take(t, i, kind)
  PROVE  /\ i \in TaskIds /\ queue_results[i] # <<>>
         /\ \A j \in TaskIds : /\ j # i => queue_results'[j] = queue_results[j] /\ got'[j] = got[j]
                               /\ queue_results'[j] # <<>> => queue_results[j] # <<>>
<1>1. /\ queue_results \in [TaskIds -> Seq(Result)] /\ got \in [TaskIds -> Output]
      /\ i \in TaskIds
  BY DEF ResponseTypeOK, ClientTypeInv, ClientTypeOK
<1> QED BY <1>1 DEF Take, Recv

LEMMA NextBegunInv ==
  TypeInv /\ HomeInv /\ FormedInv /\ CausalInv /\ BegunInv /\ [Next]_vars => BegunInv'
<1> SUFFICES ASSUME TypeInv, HomeInv, FormedInv, CausalInv, BegunInv, [Next]_vars PROVE BegunInv'
  OBVIOUS
<1>1. /\ id_task \in [Slots -> TaskIds \cup {NoTask}] /\ TaskIds \subseteq Int /\ NoTask \in Int
      /\ queue_results \in [TaskIds -> Seq(Result)] /\ ResponseTypeOK /\ ClientTypeInv
      /\ ids \in [Threads -> SUBSET TaskIds]
  BY MaxTasksAssumption DEF TypeInv, WorkerTypeInv, WorkerTypeOK, SlotsTypeOK, ResponseTypeOK,
     TaskIds, NoTask, ClientTypeInv, ClientTypeOK
<1>2. \A i \in Int : Begun(i) => Begun(i)'
  BY BegunStays
<1>3. ASSUME UNCHANGED id_task PROVE SlotsBegun' /\ OneSlotEach'
  <2>1. ASSUME NEW s \in Slots, id_task'[s] # NoTask PROVE \A i : i = id_task'[s] => Begun(i)'
    BY <1>1, <1>2, <1>3, <2>1 DEF BegunInv, SlotsBegun
  <2>2. SlotsBegun'
    BY <2>1 DEF SlotsBegun
  <2>3. OneSlotEach'
    BY <1>3 DEF BegunInv, OneSlotEach
  <2> QED BY <2>2, <2>3
<1>4. ASSUME \A i \in TaskIds : queue_results'[i] # <<>> \/ got'[i] # Nothing =>
                 queue_results[i] # <<>> \/ got[i] # Nothing \/ Begun(i) \/ Begun(i)'
      PROVE  ResultsBegun'
  BY <1>1, <1>2, <1>4 DEF BegunInv, ResultsBegun
<1>5. CASE Worker /\ UNCHANGED clientVars
  <2>1. got' = got
    BY <1>5 DEF clientVars
  <2>2. CASE LaunchSlotWithTask \/ LaunchFails
    <3>1. /\ cur.id \in TaskIds /\ \A s \in Slots : id_task[s] # cur.id
          /\ \A i : i = cur.id => Begun(i)'
      BY <1>5, <2>2, LaunchIsNews
    <3>2. PICK s \in Slots : /\ id_task'[s] = cur.id
                             /\ \A u \in Slots : u # s => id_task'[u] = id_task[u]
      BY <2>2, LaunchBinds
    <3>3. ASSUME NEW u \in Slots, id_task'[u] # NoTask PROVE \A i : i = id_task'[u] => Begun(i)'
      BY <1>1, <1>2, <3>1, <3>2, <3>3 DEF BegunInv, SlotsBegun
    <3>4. SlotsBegun'
      BY <3>3 DEF SlotsBegun
    <3>5. OneSlotEach'
      BY <3>1, <3>2 DEF BegunInv, OneSlotEach
    <3>6. \A i \in TaskIds : i # cur.id => queue_results'[i] = queue_results[i]
      BY <1>1, <2>2, SentOnlyTo DEF LaunchSlotWithTask, LaunchFails, responseVars
    <3>7. ResultsBegun'
      BY <1>4, <2>1, <3>1, <3>6
    <3> QED BY <3>4, <3>5, <3>7 DEF BegunInv
  <2>3. CASE ~LaunchSlotWithTask /\ ~LaunchFails
    <3>1. SlotsBegun' /\ OneSlotEach'
      BY <1>3, <1>5, <2>3, WorkerTagSteps
    <3>2. CASE UNCHANGED responseVars
      <4>1. ResultsBegun'
        BY <1>4, <2>1, <3>2 DEF responseVars
      <4> QED BY <3>1, <4>1 DEF BegunInv
    <3>3. ASSUME NEW s \in Slots, NEW r \in Result, Sends(s, r) PROVE ResultsBegun'
      <4>1. id_task[s] # NoTask /\ Send(id_task[s], r)
        BY <3>3 DEF Sends
      <4>2. \A i \in TaskIds : i # id_task[s] => queue_results'[i] = queue_results[i]
        BY <1>1, <4>1, SentOnlyTo
      <4>3. Begun(id_task[s])
        BY <4>1 DEF BegunInv, SlotsBegun
      <4> QED BY <1>4, <2>1, <4>2, <4>3
    <3>4. SlotsFormed
      BY DEF FormedInv
    <3> QED BY <1>5, <2>3, <3>1, <3>2, <3>3, <3>4, WorkerSendSteps DEF BegunInv
  <2> QED BY <2>2, <2>3
<1>6. ASSUME NEW t \in Threads, Native(t) \/ Caller(t), UNCHANGED workerVars
      PROVE  BegunInv'
  <2>1. SlotsBegun' /\ OneSlotEach'
    BY <1>3, <1>6 DEF workerVars, slotVars
  <2>2. ASSUME UNCHANGED <<responseVars, got>> \/ Register(t) PROVE ResultsBegun'
    <3>1. queue_results' = queue_results /\ got' = got
      BY <2>2 DEF responseVars, Register, AddWaitingTasks
    <3> QED BY <1>4, <3>1
  <2>3. ASSUME NEW i \in ids[t], RemoveWaitingTaskId(i), got' = got PROVE ResultsBegun'
    <3>1. \A j \in TaskIds : queue_results'[j] # <<>> => queue_results[j] # <<>>
      BY <1>1, <2>3 DEF RemoveWaitingTaskId
    <3> QED BY <1>4, <2>3, <3>1
  <2>4. ASSUME NEW i \in ids[t], NEW kind \in {"partial", "final", "scored", "error"}, Take(t, i, kind)
        PROVE  ResultsBegun'
    <3>1. /\ queue_results[i] # <<>>
          /\ \A j \in TaskIds : /\ j # i => got'[j] = got[j]
                                /\ queue_results'[j] # <<>> => queue_results[j] # <<>>
      BY <1>1, <2>4, TakenOnlyFrom
    <3> QED BY <1>4, <3>1
  <2>5. ResultsBegun'
    BY <1>1, <1>6, <2>2, <2>3, <2>4, ClientResultSteps
  <2> QED BY <2>1, <2>5 DEF BegunInv
<1>7. CASE UNCHANGED vars
  <2>1. UNCHANGED <<id_task, queue_results, got>>
    BY <1>7 DEF vars, workerVars, slotVars, responseVars, clientVars
  <2>2. ResultsBegun'
    BY <1>4, <2>1
  <2> QED BY <1>3, <2>1, <2>2 DEF BegunInv
<1> QED BY <1>5, <1>6, <1>7 DEF Next, Finished


-----------------------------------------------------------------------------
(* What a caller hears of its task comes in order *)

ResultsOf(i) == {queue_results[i][k] : k \in DOMAIN queue_results[i]}

\* b may come after the result a, and after the output g.
Follows(a, b) ==
    /\ a.kind # "partial" => b.kind = "error"
    /\ b.kind = "partial" => a.n < b.n
    /\ b.kind = "final" => a.n <= b.n
FollowsOutput(g, b) ==
    /\ g.end # "none" => b.kind = "error"
    /\ b.kind = "partial" => g.n < b.n
    /\ b.kind = "final" => g.n <= b.n
InOrder(i) ==
    /\ \A j, k \in DOMAIN queue_results[i] :
          j < k => Follows(queue_results[i][j], queue_results[i][k])
    /\ \A r \in ResultsOf(i) : FollowsOutput(got[i], r)
AllInOrder == \A i \in TaskIds : InOrder(i)

\* While s has something to say of its task i, no end was sent; while it runs
\* the task, no result that ends it; before it samples, nothing.
HeardFrom(s, i) ==
    /\ Live(s) => /\ got[i].end = "none" /\ got[i].n <= n_decoded[s]
                  /\ \A r \in ResultsOf(i) : r.kind = "partial" /\ r.n <= n_decoded[s]
    /\ IsProcessing(s) => \A r \in ResultsOf(i) : r.kind \in {"partial", "scored"}
    /\ state[s] \in Fresh => ResultsOf(i) = {} /\ got[i].n = 0
SlotsHeard == \A s \in Slots, i \in TaskIds : id_task[s] = i => HeardFrom(s, i)

\* Only a stream has partial results, and a rerank no final one.
Fits(r, c) == /\ r.kind = "partial" => c.stream
              /\ r.kind = "final" => c.type # "RERANK"
ResultsFit == \A t \in Threads : \A i \in ids[t] : \A r \in ResultsOf(i) : Fits(r, call[t])
Suits(pc, c) == /\ pc \in Iterating => c.stream
                /\ pc = "removeFinal" => c.type # "RERANK"
CallsFit == \A t \in Threads : Suits(cpc[t], call[t])

HeardInv == AllInOrder /\ SlotsHeard /\ ResultsFit /\ CallsFit

\* What a step does to the results of i and to what its caller was given.
Unheard(i) == queue_results'[i] = queue_results[i] /\ got'[i] = got[i]
Added(i, r) == queue_results'[i] = Append(queue_results[i], r) /\ got'[i] = got[i]
Emptied(i) == queue_results'[i] = <<>> /\ got'[i] = got[i]
Taken(i) ==
    /\ queue_results[i] # <<>> /\ queue_results'[i] = Tail(queue_results[i])
    /\ got'[i] = [times |-> got[i].times + 1, n |-> Head(queue_results[i]).n,
                  end |-> IF Head(queue_results[i]).kind = "partial" THEN "none"
                          ELSE Head(queue_results[i]).kind]

LEMMA OrderSteps ==
  ASSUME ResponseTypeOK, NEW i \in TaskIds, InOrder(i)
  PROVE  /\ Unheard(i) => InOrder(i)' /\ ResultsOf(i)' = ResultsOf(i)
         /\ Emptied(i) => InOrder(i)' /\ ResultsOf(i)' = {}
         /\ Taken(i) => /\ InOrder(i)' /\ ResultsOf(i)' \subseteq ResultsOf(i)
                        /\ Head(queue_results[i]) \in ResultsOf(i)
                        /\ FollowsOutput(got[i], Head(queue_results[i]))
         /\ \A r \in Result : Added(i, r) =>
               /\ ResultsOf(i)' = ResultsOf(i) \cup {r}
               /\ (\A a \in ResultsOf(i) : Follows(a, r)) /\ FollowsOutput(got[i], r) => InOrder(i)'
<1> DEFINE q == queue_results[i]
<1>1. /\ q \in Seq(Result) /\ Len(q) \in Nat /\ DOMAIN q = 1..Len(q)
      /\ \A k \in 1..Len(q) : q[k] \in Result
  BY DEF ResponseTypeOK
<1>2. ASSUME Unheard(i) PROVE InOrder(i)' /\ ResultsOf(i)' = ResultsOf(i)
  BY <1>2 DEF Unheard, InOrder, ResultsOf
<1>3. ASSUME Emptied(i) PROVE InOrder(i)' /\ ResultsOf(i)' = {}
  <2>1. DOMAIN queue_results'[i] = {}
    BY <1>3 DEF Emptied
  <2> QED BY <2>1 DEF InOrder, ResultsOf
<1>4. ASSUME Taken(i)
      PROVE  /\ InOrder(i)' /\ ResultsOf(i)' \subseteq ResultsOf(i)
             /\ Head(q) \in ResultsOf(i) /\ FollowsOutput(got[i], Head(q))
  <2>1. q # <<>> /\ queue_results'[i] = Tail(q)
    BY <1>4 DEF Taken
  <2>2. /\ Len(q) > 0 /\ Head(q) = q[1] /\ DOMAIN Tail(q) = 1..(Len(q) - 1)
        /\ \A k \in 1..(Len(q) - 1) : Tail(q)[k] = q[k + 1]
    BY <1>1, <2>1, HeadTailProperties, EmptySeq
  <2>3. /\ 1 \in 1..Len(q)
        /\ \A k \in 1..(Len(q) - 1) : k + 1 \in 1..Len(q) /\ 1 < k + 1
        /\ \A j, k \in 1..(Len(q) - 1) : j < k => j + 1 < k + 1
    BY <1>1, <2>2
  <2>4. Head(q) \in ResultsOf(i)
    BY <1>1, <2>2, <2>3 DEF ResultsOf
  <2>5. ASSUME NEW r \in ResultsOf(i)'
        PROVE  \E k \in 1..(Len(q) - 1) : r = q[k + 1]
    BY <2>1, <2>2 DEF ResultsOf
  <2>6. ResultsOf(i)' \subseteq ResultsOf(i)
    BY <1>1, <2>3, <2>5 DEF ResultsOf
  <2>7. \A j, k \in DOMAIN queue_results'[i] :
           j < k => Follows(queue_results'[i][j], queue_results'[i][k])
    BY <1>1, <2>1, <2>2, <2>3 DEF InOrder
  <2>8. ASSUME NEW r \in ResultsOf(i)' PROVE FollowsOutput(got'[i], r)
    <3>1. Follows(q[1], r)
      BY <1>1, <2>3, <2>5 DEF InOrder
    <3>2. got'[i].n = q[1].n /\ (got'[i].end # "none" => q[1].kind # "partial")
      BY <1>4, <2>2 DEF Taken
    <3> QED BY <3>1, <3>2 DEF Follows, FollowsOutput
  <2> QED BY <2>4, <2>6, <2>7, <2>8 DEF InOrder
<1>5. ASSUME NEW r \in Result, Added(i, r)
      PROVE  /\ ResultsOf(i)' = ResultsOf(i) \cup {r}
             /\ (\A a \in ResultsOf(i) : Follows(a, r)) /\ FollowsOutput(got[i], r) => InOrder(i)'
  <2> DEFINE p == Append(q, r)
  <2>1. /\ DOMAIN p = 1..(Len(q) + 1) /\ p[Len(q) + 1] = r
        /\ \A k \in 1..Len(q) : p[k] = q[k]
    BY <1>1
  <2>2. \A k : k \in 1..(Len(q) + 1) <=> k \in 1..Len(q) \/ k = Len(q) + 1
    BY <1>1
  <2>3. queue_results'[i] = p /\ got'[i] = got[i]
    BY <1>5 DEF Added
  <2> HIDE DEF p
  <2>4. ResultsOf(i)' = ResultsOf(i) \cup {r}
    <3>1. ResultsOf(i)' = {p[k] : k \in 1..(Len(q) + 1)}
      BY <2>1, <2>3 DEF ResultsOf
    <3>2. ResultsOf(i) = {q[k] : k \in 1..Len(q)}
      BY <1>1 DEF ResultsOf
    <3> HIDE DEF q
    <3> QED BY <2>1, <2>2, <3>1, <3>2
  <2>5. ASSUME \A a \in ResultsOf(i) : Follows(a, r), FollowsOutput(got[i], r)
        PROVE  InOrder(i)'
    <3>1. ASSUME NEW j \in DOMAIN p, NEW k \in DOMAIN p, j < k
          PROVE  Follows(p[j], p[k])
      <4>1. j \in 1..Len(q) /\ p[j] = q[j] /\ q[j] \in ResultsOf(i)
        BY <1>1, <2>1, <3>1 DEF ResultsOf
      <4>2. CASE k = Len(q) + 1
        BY <2>1, <2>5, <4>1, <4>2
      <4>3. CASE k \in 1..Len(q)
        BY <1>1, <2>1, <3>1, <4>1, <4>3 DEF InOrder
      <4> QED BY <2>1, <2>2, <4>2, <4>3
    <3>2. \A a \in ResultsOf(i)' : FollowsOutput(got'[i], a)
      BY <2>3, <2>4, <2>5 DEF InOrder
    <3> QED BY <2>3, <3>1, <3>2 DEF InOrder
  <2> QED BY <2>4, <2>5
<1> QED BY <1>2, <1>3, <1>4, <1>5


\* The worker adds a result at most, and one of a slot's task or a refusal.
LEMMA WorkerResultSteps ==
  ASSUME TypeInv, CausalInv, SlotsFormed, Worker, UNCHANGED clientVars, NEW i \in TaskIds
  PROVE  \/ Unheard(i)
         \/ \E r \in Result : LaunchFails /\ cur.id = i /\ r.kind = "error" /\ Added(i, r)
         \/ \E s \in Slots, r \in Result : id_task[s] = i /\ Sends(s, r) /\ Added(i, r)
<1>1. queue_results \in [TaskIds -> Seq(Result)] /\ got' = got
  BY DEF TypeInv, ResponseTypeOK, clientVars
<1>2. ASSUME NEW j, NEW r \in Result, Send(j, r)
      PROVE  Unheard(i) \/ (j = i /\ Added(i, r))
  BY <1>1, <1>2 DEF Send, Unheard, Added
<1>3. CASE UNCHANGED responseVars
  BY <1>1, <1>3 DEF responseVars, Unheard
<1>4. CASE LaunchFails
  <2> DEFINE r == [kind |-> "error", n |-> 0]
  <2>1. r \in Result /\ r.kind = "error" /\ Send(cur.id, r)
    BY <1>4 DEF LaunchFails, Result
  <2> HIDE DEF r
  <2> QED BY <1>2, <1>4, <2>1
<1>5. ASSUME NEW s \in Slots, NEW r \in Result, Sends(s, r)
      PROVE  Unheard(i) \/ (id_task[s] = i /\ Added(i, r))
  BY <1>2, <1>5 DEF Sends
<1> QED BY <1>3, <1>4, <1>5, WorkerSendSteps

\* A thread hears of its own ids, or forgets them.
LEMMA ClientHearSteps ==
  ASSUME TypeInv, NEW t \in Threads, Native(t) \/ Caller(t), NEW i \in TaskIds
  PROVE  \/ Unheard(i)
         \/ i \in ids[t] /\ Emptied(i)
         \/ i \in ids[t] /\ Taken(i)
            /\ \E kind \in {"partial", "final", "scored", "error"} : Take(t, i, kind)
<1>1. /\ queue_results \in [TaskIds -> Seq(Result)] /\ got \in [TaskIds -> Output]
      /\ ids[t] \subseteq TaskIds /\ ClientTypeInv
  BY DEF TypeInv, ResponseTypeOK, ClientTypeInv, ClientTypeOK
<1>2. CASE UNCHANGED <<responseVars, got>> \/ Register(t)
  BY <1>2 DEF responseVars, Register, AddWaitingTasks, Unheard
<1>3. ASSUME NEW j \in ids[t], RemoveWaitingTaskId(j), got' = got
      PROVE  Unheard(i) \/ (i = j /\ Emptied(i))
  BY <1>1, <1>3 DEF RemoveWaitingTaskId, Unheard, Emptied
<1>4. ASSUME NEW j \in ids[t], NEW kind \in {"partial", "final", "scored", "error"}, Take(t, j, kind)
      PROVE  Unheard(i) \/ (i = j /\ Taken(i))
  <2>1. CASE i # j
    BY <1>1, <1>4, <2>1 DEF Take, Recv, Unheard
  <2>2. CASE i = j
    BY <1>1, <1>4, <2>2 DEF Take, Recv, Taken
  <2> QED BY <2>1, <2>2
<1> QED BY <1>1, <1>2, <1>3, <1>4, ClientResultSteps

LEMMA WorkerHeardSteps ==
  ASSUME TypeInv, HomeInv, FormedInv, CausalInv, BegunInv, HeardInv, Worker, UNCHANGED clientVars,
         TypeInv'
  PROVE  HeardInv'
<1>1. /\ ResponseTypeOK /\ SlotsFormed /\ got' = got /\ ids' = ids /\ call' = call /\ cpc' = cpc
      /\ n_decoded \in [Slots -> Nat] /\ n_decoded' \in [Slots -> Nat]
      /\ \A s \in Slots : id_task[s] \in TaskIds \cup {NoTask}
      /\ \A i \in TaskIds : i # NoTask /\ got[i].n \in Nat
      /\ \A t \in Threads : ids[t] \subseteq TaskIds
  BY MaxTasksAssumption
  DEF TypeInv, clientVars, WorkerTypeInv, WorkerTypeOK, SlotsTypeOK, TaskIds, NoTask, FormedInv,
      ClientTypeInv, ClientTypeOK, Output
<1>2. \A i \in TaskIds : \A r \in ResultsOf(i) : r \in Result /\ r.n \in Nat
  <2>1. ASSUME NEW i \in TaskIds, NEW k \in DOMAIN queue_results[i] PROVE queue_results[i][k] \in Result
    <3>1. queue_results[i] \in Seq(Result)
      BY <1>1 DEF ResponseTypeOK
    <3> QED BY <3>1
  <2> QED BY <2>1 DEF ResultsOf, Result
<1>3. \A i \in TaskIds : InOrder(i)
  BY DEF HeardInv, AllInOrder
\* What is sent for a slot fits what was heard of it before.
<1>4. ASSUME NEW i \in TaskIds, NEW s \in Slots, NEW r \in Result, id_task[s] = i, Sends(s, r)
      PROVE  /\ \A a \in ResultsOf(i) : Follows(a, r)
             /\ FollowsOutput(got[i], r)
  <2>1. HeardFrom(s, i) /\ n_decoded[s] \in Nat
    BY <1>1, <1>4 DEF HeardInv, SlotsHeard
  <2>2. r.kind \in {"partial", "final", "scored", "error"}
    BY DEF Result
  <2>3. CASE r.kind = "error"
    BY <2>3 DEF Follows, FollowsOutput
  <2>4. CASE r.kind # "error"
    <3>1. Live(s) /\ (r.kind = "partial" => r.n > n_decoded[s]) /\ (r.kind = "final" => r.n = n_decoded[s])
      BY <1>4, <2>1, <2>2, <2>4 DEF Sends
    <3>2. got[i].end = "none" /\ got[i].n <= n_decoded[s] /\ got[i].n \in Nat
      BY <1>1, <2>1, <3>1 DEF HeardFrom
    <3>3. r.n \in Nat
      BY DEF Result
    <3>4. FollowsOutput(got[i], r)
      BY <2>1, <3>1, <3>2, <3>3 DEF FollowsOutput
    <3>5. ASSUME NEW a \in ResultsOf(i) PROVE Follows(a, r)
      <4>1. a.kind = "partial" /\ a.n <= n_decoded[s] /\ a.n \in Nat
        BY <1>2, <2>1, <3>1 DEF HeardFrom
      <4> QED BY <2>1, <3>1, <3>3, <4>1 DEF Follows
    <3> QED BY <3>4, <3>5
  <2> QED BY <2>3, <2>4
<1>5. AllInOrder'
  <2>1. ASSUME NEW i \in TaskIds PROVE InOrder(i)'
    <3>1. CASE Unheard(i)
      BY <1>1, <1>3, <3>1, OrderSteps
    <3>2. ASSUME NEW r \in Result, r.kind = "error", Added(i, r) PROVE InOrder(i)'
      <4>1. (\A a \in ResultsOf(i) : Follows(a, r)) /\ FollowsOutput(got[i], r)
        BY <3>2 DEF Follows, FollowsOutput
      <4> QED BY <1>1, <1>3, <3>2, <4>1, OrderSteps
    <3>3. ASSUME NEW s \in Slots, NEW r \in Result, id_task[s] = i, Sends(s, r), Added(i, r)
          PROVE  InOrder(i)'
      BY <1>1, <1>3, <1>4, <3>3, OrderSteps
    <3> QED BY <1>1, <3>1, <3>2, <3>3, WorkerResultSteps
  <2> QED BY <2>1 DEF AllInOrder
<1>6. ASSUME NEW i \in TaskIds, NEW r \in Result, Added(i, r)
      PROVE  ResultsOf(i)' = ResultsOf(i) \cup {r}
  BY <1>1, <1>3, <1>6, OrderSteps
<1>7. ASSUME NEW i \in TaskIds, Unheard(i) PROVE ResultsOf(i)' = ResultsOf(i)
  BY <1>1, <1>3, <1>7, OrderSteps
<1>8. ResultsFit'
  <2>1. ASSUME NEW t \in Threads, NEW i \in ids[t] PROVE \A r \in ResultsOf(i)' : Fits(r, call[t])
    <3>1. i \in TaskIds /\ \A r \in ResultsOf(i) : Fits(r, call[t])
      BY <1>1, <2>1 DEF HeardInv, ResultsFit
    <3>2. CASE Unheard(i)
      BY <1>7, <3>1, <3>2
    <3>3. ASSUME NEW r \in Result, Added(i, r), Fits(r, call[t])
          PROVE  \A a \in ResultsOf(i)' : Fits(a, call[t])
      BY <1>6, <3>1, <3>3
    <3>4. ASSUME NEW r \in Result, r.kind = "error" PROVE Fits(r, call[t])
      BY <3>4 DEF Fits
    <3>5. ASSUME NEW s \in Slots, NEW r \in Result, id_task[s] = i, Sends(s, r)
          PROVE  Fits(r, call[t])
      <4>1. params[s] = call[t]
        BY <1>1, <2>1, <3>5 DEF SlotsFormed, SlotFormed
      <4> QED BY <3>5, <4>1 DEF Sends, Fits
    <3> QED BY <1>1, <3>1, <3>2, <3>3, <3>4, <3>5, WorkerResultSteps
  <2> QED BY <1>1, <2>1 DEF ResultsFit
<1>9. CallsFit'
  BY <1>1 DEF HeardInv, CallsFit
<1>10. SlotsHeard'
  <2>1. ASSUME NEW s \in Slots, NEW i \in TaskIds, id_task'[s] = i, id_task[s] = i, Calm(s),
               ~LaunchSlotWithTask, ~LaunchFails
        PROVE  HeardFrom(s, i)'
    <3>1. HeardFrom(s, i) /\ n_decoded[s] \in Nat /\ n_decoded'[s] \in Nat /\ got[i].n \in Nat
      BY <1>1, <2>1 DEF HeardInv, SlotsHeard
    <3>2. CASE Unheard(i)
      <4>1. ResultsOf(i)' = ResultsOf(i) /\ got'[i] = got[i]
        BY <1>7, <3>2 DEF Unheard
      <4>2. n_decoded'[s] >= n_decoded[s] \/ (ResultsOf(i) = {} /\ got[i].n = 0)
        BY <2>1, <3>1 DEF Calm, HeardFrom
      <4>3. ASSUME Live(s)'
            PROVE  /\ got'[i].end = "none" /\ got'[i].n <= n_decoded'[s]
                   /\ \A r \in ResultsOf(i)' : r.kind = "partial" /\ r.n <= n_decoded'[s]
        BY <1>2, <2>1, <3>1, <4>1, <4>2, <4>3 DEF Calm, HeardFrom
      <4>4. /\ IsProcessing(s)' => \A r \in ResultsOf(i)' : r.kind \in {"partial", "scored"}
            /\ state'[s] \in Fresh => ResultsOf(i)' = {} /\ got'[i].n = 0
        BY <2>1, <3>1, <4>1 DEF Calm, HeardFrom
      <4> QED BY <4>3, <4>4 DEF HeardFrom
    <3>3. ASSUME NEW r \in Result, Sends(s, r), Added(i, r)
          PROVE  HeardFrom(s, i)'
      <4>1. ResultsOf(i)' = ResultsOf(i) \cup {r} /\ got'[i] = got[i]
        BY <1>6, <3>3 DEF Added
      <4>2. r.kind \in {"partial", "final", "scored", "error"} /\ r.n \in Nat
        BY DEF Result
      <4>3. ASSUME Live(s)'
            PROVE  /\ got'[i].end = "none" /\ got'[i].n <= n_decoded'[s]
                   /\ \A a \in ResultsOf(i)' : a.kind = "partial" /\ a.n <= n_decoded'[s]
        <5>1. /\ r.kind = "partial" /\ r.n = n_decoded[s] + 1 /\ n_decoded'[s] = r.n /\ Live(s)
          BY <3>3, <4>3 DEF Sends
        <5>2. got[i].end = "none" /\ got[i].n <= n_decoded'[s]
          BY <3>1, <5>1 DEF HeardFrom
        <5>3. \A a \in ResultsOf(i) : a.kind = "partial" /\ a.n <= n_decoded'[s]
          BY <1>2, <3>1, <5>1 DEF HeardFrom
        <5>4. r.n <= n_decoded'[s]
          BY <4>2, <5>1
        <5> QED BY <4>1, <5>1, <5>2, <5>3, <5>4
      <4>4. ASSUME IsProcessing(s)' PROVE \A a \in ResultsOf(i)' : a.kind \in {"partial", "scored"}
        <5>1. IsProcessing(s) /\ r.kind \in {"partial", "scored"}
          BY <2>1, <3>3, <4>2, <4>4 DEF Calm, Sends
        <5> QED BY <3>1, <4>1, <5>1 DEF HeardFrom
      <4>5. state'[s] \notin Fresh
        <5>1. state[s] \in Fresh => IsProcessing(s)
          BY DEF Fresh, IsProcessing
        <5> QED BY <2>1, <3>3, <4>2, <5>1 DEF Calm, Sends
      <4> QED BY <4>3, <4>4, <4>5 DEF HeardFrom
    <3>4. ASSUME NEW u \in Slots, NEW r \in Result, id_task[u] = i, Sends(u, r), Added(i, r)
          PROVE  HeardFrom(s, i)'
      <4>1. u = s
        BY <1>1, <2>1, <3>4 DEF BegunInv, OneSlotEach
      <4> QED BY <3>3, <3>4, <4>1
    <3> QED BY <1>1, <2>1, <3>2, <3>4, WorkerResultSteps
  <2>2. CASE ~LaunchSlotWithTask /\ ~LaunchFails
    <3>1. UNCHANGED id_task
      BY <2>2, WorkerTagSteps
    <3>2. \A s \in Slots : Calm(s)
      BY <1>1, <2>2, WorkerCalmSteps
    <3> QED BY <2>1, <2>2, <3>1, <3>2 DEF SlotsHeard
  <2>3. CASE LaunchSlotWithTask \/ LaunchFails
    <3>1. /\ cur.id \in TaskIds /\ \A s \in Slots : id_task[s] # cur.id
          /\ queue_results[cur.id] = <<>> /\ got[cur.id] = Nothing
      BY <2>3, LaunchIsNews
    <3>2. PICK s \in Slots :
             /\ ~IsProcessing(s) /\ id_task'[s] = cur.id
             /\ LaunchFails => state'[s] = state[s]
             /\ \A u \in Slots : /\ u # s => id_task'[u] = id_task[u] /\ state'[u] = state[u]
                                 /\ n_decoded'[u] = n_decoded[u]
      BY <2>3, LaunchBinds
    <3>3. wpc = "process" /\ wpc' = "tasks"
      BY <2>3, LaunchBinds
    <3>4. ASSUME NEW u \in Slots, u # s, NEW i \in TaskIds, id_task'[u] = i PROVE HeardFrom(u, i)'
      <4>1. HeardFrom(u, i) /\ i # cur.id
        BY <3>1, <3>2, <3>4 DEF HeardInv, SlotsHeard
      <4>2. queue_results'[i] = queue_results[i]
        BY <1>1, <2>3, <4>1, SentOnlyTo DEF LaunchSlotWithTask, LaunchFails, responseVars
      <4>3. ResultsOf(i)' = ResultsOf(i) /\ got'[i] = got[i]
        BY <1>1, <1>7, <4>2 DEF Unheard
      <4>4. state'[u] = state[u] /\ n_decoded'[u] = n_decoded[u] /\ (Live(u)' => Live(u))
        BY <3>2, <3>3, <3>4 DEF Live, IsProcessing
      <4> QED BY <4>1, <4>3, <4>4 DEF HeardFrom, IsProcessing
    <3>5. ASSUME NEW i \in TaskIds, id_task'[s] = i PROVE HeardFrom(s, i)'
      <4>1. i = cur.id
        BY <3>2, <3>5
      <4>2. CASE LaunchFails
        BY <3>2, <3>3, <4>2 DEF HeardFrom, Live, IsProcessing, Fresh
      <4>3. CASE LaunchSlotWithTask
        <5>1. queue_results'[i] = <<>> /\ got'[i] = Nothing
          BY <1>1, <3>1, <4>1, <4>3 DEF LaunchSlotWithTask, responseVars
        <5>2. ResultsOf(i)' = {} /\ got'[i].n = 0 /\ got'[i].end = "none"
          BY <5>1 DEF ResultsOf, Nothing
        <5>3. 0 <= n_decoded'[s]
          BY <1>1
        <5> QED BY <5>2, <5>3 DEF HeardFrom
      <4> QED BY <2>3, <4>2, <4>3
    <3> QED BY <3>4, <3>5 DEF SlotsHeard
  <2> QED BY <2>2, <2>3
<1> QED BY <1>5, <1>8, <1>9, <1>10 DEF HeardInv


\* A thread iterates over a stream only, and ends a completion only.
LEMMA ClientPlaceSteps ==
  ASSUME TypeInv, HeardInv, NEW t \in Threads, Native(t) \/ Caller(t)
  PROVE  CallsFit'
<1>1. /\ cpc \in [Threads -> ClientPcs] /\ call \in [Threads -> Request]
      /\ \A u \in Threads : Suits(cpc[u], call[u]) /\ ids[u] \subseteq TaskIds
  BY DEF TypeInv, ClientTypeInv, ClientTypeOK, HeardInv, CallsFit
<1>2. ASSUME NEW pc, Goto(t, pc), call' = call, Suits(pc, call[t]) PROVE CallsFit'
  BY <1>1, <1>2 DEF Goto, CallsFit
<1>3. ASSUME Return(t) \/ \E r \in Requests : Begin(t, r) PROVE CallsFit'
  <2>1. \E pc \in {"idle", "register"} : cpc' = [cpc EXCEPT ![t] = pc]
    BY <1>3 DEF Return, Begin, Goto
  <2>2. \A u \in Threads : u # t => call'[u] = call[u]
    BY <1>1, <1>3 DEF Return, Begin
  <2>3. cpc'[t] \in {"idle", "register"} /\ \A u \in Threads : u # t => cpc'[u] = cpc[u]
    BY <1>1, <2>1
  <2> QED BY <1>1, <2>2, <2>3 DEF CallsFit, Suits, Iterating
<1>4. UNCHANGED <<cpc, call>> => CallsFit'
  BY <1>1 DEF CallsFit
<1>5. ASSUME NEW i \in ids[t], NEW kind \in {"partial", "final"}, Take(t, i, kind)
      PROVE  /\ kind = "partial" => call[t].stream
             /\ kind = "final" => call[t].type # "RERANK"
  <2>1. i \in TaskIds /\ queue_results[i] \in Seq(Result) /\ queue_results[i] # <<>>
    BY <1>1, <1>5 DEF Take, TypeInv, ResponseTypeOK
  <2>2. 1 \in DOMAIN queue_results[i] /\ Head(queue_results[i]) = queue_results[i][1]
    BY <2>1, HeadTailProperties, EmptySeq
  <2>3. Fits(Head(queue_results[i]), call[t])
    BY <2>2 DEF HeardInv, ResultsFit, ResultsOf
  <2> QED BY <1>5, <2>3 DEF Take, Fits
<1>6. CASE Register(t)
  BY <1>2, <1>6 DEF Register, Suits, Iterating
<1>7. CASE PostRequest(t)
  <2>1. PICK pc \in {"user", "recv"} : Goto(t, pc) /\ (pc = "user" => call[t].stream)
    BY <1>7 DEF PostRequest
  <2>2. Suits(pc, call[t])
    BY <2>1 DEF Suits, Iterating
  <2> QED BY <1>2, <1>7, <2>1, <2>2 DEF PostRequest
<1>8. CASE ReceiveError(t)
  BY <1>2, <1>8 DEF ReceiveError, Suits, Iterating
<1>9. CASE ReceiveFinal(t)
  <2>1. call[t].type # "RERANK"
    BY <1>5, <1>9 DEF ReceiveFinal
  <2> QED BY <1>2, <1>9, <2>1 DEF ReceiveFinal, Suits, Iterating
<1>10. CASE ReceivePartial(t)
  <2>1. call[t].stream
    BY <1>5, <1>10 DEF ReceivePartial
  <2> QED BY <1>2, <1>10, <2>1 DEF ReceivePartial, Suits
<1>11. CASE ReceiveScored(t)
  BY <1>3, <1>4, <1>11 DEF ReceiveScored
<1>12. CASE RemoveAfterError(t)
  <2>1. \/ Goto(t, "user") /\ call' = call /\ call[t].stream
        \/ Return(t)
        \/ UNCHANGED <<cpc, call>>
    BY <1>12 DEF RemoveAfterError
  <2>2. call[t].stream => Suits("user", call[t])
    BY DEF Suits
  <2> QED BY <1>2, <1>3, <1>4, <2>1, <2>2
<1>13. CASE RemoveAfterFinal(t)
  <2>1. Return(t) \/ (Goto(t, "release") /\ call' = call /\ call[t].stream)
    BY <1>13 DEF RemoveAfterFinal
  <2>2. call[t].stream => Suits("release", call[t])
    BY DEF Suits
  <2> QED BY <1>2, <1>3, <2>1, <2>2
<1>14. CASE ReleaseTask(t) \/ CancelRemove(t) \/ CancelPost(t) \/ CancelRemoveAgain(t)
  <2>1. PICK pc \in Iterating : Goto(t, pc) /\ call' = call
    BY <1>14 DEF ReleaseTask, CancelRemove, CancelPost, CancelRemoveAgain, Iterating
  <2>2. cpc[t] \in Iterating
    BY <1>14 DEF ReleaseTask, CancelRemove, CancelPost, CancelRemoveAgain, Iterating
  <2>3. Suits(pc, call[t])
    BY <1>1, <2>2 DEF Suits, Iterating
  <2> QED BY <1>2, <2>1, <2>3
<1>15. CASE NextOutput(t) \/ Close(t)
  BY <1>2, <1>15 DEF NextOutput, Close, Suits, Iterating
<1> QED BY <1>3, <1>6, <1>7, <1>8, <1>9, <1>10, <1>11, <1>12, <1>13, <1>14, <1>15
        DEF Native, Caller, Reject, Abandon

LEMMA ClientHeardSteps ==
  ASSUME TypeInv, HomeInv, FormedInv, BegunInv, HeardInv,
         NEW t \in Threads, Native(t) \/ Caller(t), UNCHANGED workerVars
  PROVE  HeardInv'
<1>1. /\ ResponseTypeOK /\ UNCHANGED <<state, id_task, n_decoded, wpc, at, reply>>
      /\ ids \in [Threads -> SUBSET TaskIds] /\ call \in [Threads -> Request]
      /\ \A i \in TaskIds : InOrder(i)
  BY DEF TypeInv, workerVars, slotVars, ClientTypeInv, ClientTypeOK, HeardInv, AllInOrder
<1>2. ASSUME NEW i \in TaskIds
      PROVE  InOrder(i)' /\ ResultsOf(i)' \subseteq ResultsOf(i)
  BY <1>1, OrderSteps, ClientHearSteps
<1>3. ASSUME NEW s \in Slots, NEW i \in TaskIds, id_task'[s] = i PROVE HeardFrom(s, i)'
  <2>1. HeardFrom(s, i) /\ Live(s)' = Live(s) /\ IsProcessing(s)' = IsProcessing(s)
    BY <1>1, <1>3 DEF HeardInv, SlotsHeard, Live, IsProcessing
  <2>2. CASE got'[i] = got[i]
    BY <1>1, <1>2, <2>1, <2>2 DEF HeardFrom
  <2>3. CASE Taken(i)
    <3>1. Head(queue_results[i]) \in ResultsOf(i)
      BY <1>1, <2>3, OrderSteps
    <3>2. state[s] \notin Fresh
      BY <2>1, <3>1 DEF HeardFrom
    <3>3. ASSUME Live(s) PROVE got'[i].end = "none" /\ got'[i].n <= n_decoded[s]
      <4>1. Head(queue_results[i]).kind = "partial" /\ Head(queue_results[i]).n <= n_decoded[s]
        BY <2>1, <3>1, <3>3 DEF HeardFrom
      <4> QED BY <2>3, <4>1 DEF Taken
    <3> QED BY <1>1, <1>2, <2>1, <3>2, <3>3 DEF HeardFrom
  <2> QED BY <2>2, <2>3, ClientHearSteps DEF Unheard, Emptied
<1>4. ResultsFit'
  <2>1. ASSUME NEW u \in Threads, NEW i \in ids'[u], i \in ids[u], call'[u] = call[u]
        PROVE  \A r \in ResultsOf(i)' : Fits(r, call'[u])
    <3>1. i \in TaskIds /\ \A r \in ResultsOf(i) : Fits(r, call[u])
      BY <1>1, <2>1 DEF HeardInv, ResultsFit
    <3> QED BY <1>2, <2>1, <3>1
  <2>2. CASE \A u \in Threads : /\ ids'[u] \subseteq ids[u]
                                /\ ids'[u] # {} => call'[u] = call[u]
    BY <2>1, <2>2 DEF ResultsFit
  <2>3. ASSUME NEW r \in Requests, Begin(t, r) PROVE ResultsFit'
    <3>1. /\ id \in Nat /\ queue_results' = queue_results
          /\ ids' = [ids EXCEPT ![t] = id..(id + r.docs - 1)] /\ call' = [call EXCEPT ![t] = r]
      BY <2>3, MaxTasksAssumption DEF Begin, responseVars, TypeInv, QueueTypeOK
    <3>2. ASSUME NEW i \in ids'[t] PROVE ResultsOf(i)' = {}
      <4>1. i \in id..(id + r.docs - 1)
        BY <1>1, <3>1
      <4>2. ~(i < id)
        BY <3>1, <4>1
      <4>3. i \in TaskIds
        <5>1. TypeInv'
          BY NextTypeInv DEF Next
        <5> QED BY <5>1 DEF TypeInv, ClientTypeInv, ClientTypeOK
      <4>4. queue_results[i] = <<>>
        BY <4>2, <4>3 DEF BegunInv, ResultsBegun, Begun
      <4> QED BY <3>1, <4>4 DEF ResultsOf
    <3>3. ASSUME NEW u \in Threads, NEW i \in ids'[u] PROVE \A a \in ResultsOf(i)' : Fits(a, call'[u])
      <4>1. CASE u = t
        BY <3>2, <4>1
      <4>2. CASE u # t
        BY <1>1, <2>1, <3>1, <4>2
      <4> QED BY <4>1, <4>2
    <3> QED BY <3>3 DEF ResultsFit
  <2> QED BY <2>2, <2>3, ClientIdsKept
<1>5. AllInOrder'
  BY <1>2 DEF AllInOrder
<1>6. SlotsHeard'
  BY <1>3 DEF SlotsHeard
<1> QED BY <1>4, <1>5, <1>6, ClientPlaceSteps DEF HeardInv


-----------------------------------------------------------------------------
(* An id whose caller knows the end is removed *)

Removing(i) == \E t \in Threads : i \in ids[t] /\ cpc[t] \in {"removeAll", "removeFinal"}
RemovedAtEnd == \A i \in waiting_task_ids : got[i].end \in {"final", "error"} => Removing(i)
RemovedAtFinish == \A t \in Threads : cpc[t] = "finished" => ids[t] \cap waiting_task_ids = {}
RemovedInv == RemovedAtEnd /\ RemovedAtFinish

\* Only a rerank has several ids.
LEMMA OneIdOnly ==
  ASSUME FormedInv, NEW t \in Threads, cpc[t] \notin {"idle", "closed"},
         call[t].stream \/ call[t].type # "RERANK", NEW i \in ids[t]
  PROVE  ids[t] = {i}
<1>1. call[t] \in Requests \cup {NoRequest}
  BY DEF FormedInv, CallsFormed, CallFormed
<1>2. call[t].docs = 1
  BY <1>1, RequestsFormed
<1> QED BY <1>2 DEF FormedInv, CallsFormed, CallFormed

LEMMA ClientRemovedSteps ==
  ASSUME TypeInv, HomeInv, FormedInv, BegunInv, HeardInv, RemovedInv,
         NEW t \in Threads, Native(t) \/ Caller(t)
  PROVE  RemovedInv'
<1>1. /\ ids \in [Threads -> SUBSET TaskIds] /\ cpc \in [Threads -> ClientPcs]
      /\ call \in [Threads -> Request] /\ got \in [TaskIds -> Output]
      /\ waiting_task_ids \subseteq TaskIds
      /\ ClientTypeInv /\ ResponseTypeOK
  BY DEF TypeInv, ClientTypeInv, ClientTypeOK, ResponseTypeOK
<1>2. \A u, v \in Threads : u # v => ids[u] \cap ids[v] = {}
  BY DEF HomeInv, Unshared
<1>3. \A u \in Threads : u # t => ids'[u] = ids[u] /\ cpc'[u] = cpc[u]
  BY <1>1, ClientCallSteps DEF Begin, Return, DropsId, GoesOnInCall, Goto
\* What the other threads are removing they go on removing.
<1>4. ASSUME NEW i, Removing(i),
             cpc[t] \notin {"removeAll", "removeFinal"} \/ i \notin ids[t]
                \/ (i \in ids'[t] /\ cpc'[t] = cpc[t])
      PROVE  Removing(i)'
  BY <1>1, <1>3, <1>4 DEF Removing
<1>5. ASSUME waiting_task_ids' \subseteq waiting_task_ids, cpc'[t] # "finished"
      PROVE  RemovedAtFinish'
  BY <1>3, <1>5 DEF RemovedInv, RemovedAtFinish
<1>6. ASSUME waiting_task_ids' \subseteq waiting_task_ids, got' = got,
             cpc[t] \notin {"removeAll", "removeFinal"}
      PROVE  RemovedAtEnd'
  BY <1>4, <1>6 DEF RemovedInv, RemovedAtEnd
<1>7. ASSUME NEW pc, Goto(t, pc) PROVE cpc'[t] = pc
  BY <1>1, <1>7 DEF Goto
<1>8. ASSUME Return(t) PROVE cpc'[t] = "idle" /\ ids'[t] = {}
  BY <1>1, <1>8 DEF Return, Goto
<1>9. CASE PostRequest(t) \/ CancelPost(t) \/ NextOutput(t) \/ Close(t)
           \/ \E r \in Requests : Begin(t, r)
  <2>1. /\ waiting_task_ids' = waiting_task_ids /\ got' = got
        /\ cpc[t] \notin {"removeAll", "removeFinal"}
    BY <1>9 DEF PostRequest, CancelPost, NextOutput, Close, Begin, responseVars
  <2>2. PICK pc \in {"user", "recv", "cancelRemove", "closed", "register"} : Goto(t, pc)
    BY <1>9 DEF PostRequest, CancelPost, NextOutput, Close, Begin
  <2> QED BY <1>5, <1>6, <1>7, <2>1, <2>2 DEF RemovedInv
<1>10. CASE Reject(t) \/ Abandon(t)
  <2>1. /\ waiting_task_ids' = waiting_task_ids /\ got' = got /\ Return(t)
        /\ cpc[t] \notin {"removeAll", "removeFinal"}
    BY <1>10 DEF Reject, Abandon, responseVars
  <2> QED BY <1>5, <1>6, <1>8, <2>1 DEF RemovedInv
<1>11. CASE Register(t)
  <2>1. /\ waiting_task_ids' = waiting_task_ids \cup ids[t] /\ got' = got /\ ids' = ids
        /\ cpc[t] = "register" /\ cpc'[t] = "post"
    BY <1>7, <1>11 DEF Register, AddWaitingTasks
  <2>2. ASSUME NEW i \in ids[t] PROVE got[i].end = "none"
    <3>1. i \in BeingMade
      BY <2>1 DEF BeingMade
    <3>2. got[i] = Nothing
      BY <1>1, <3>1 DEF BegunInv, ResultsBegun, Begun
    <3> QED BY <3>2 DEF Nothing
  <2>3. RemovedAtEnd'
    BY <1>4, <2>1, <2>2 DEF RemovedInv, RemovedAtEnd
  <2>4. ASSUME NEW u \in Threads, cpc'[u] = "finished" PROVE ids'[u] \cap waiting_task_ids' = {}
    BY <1>2, <1>3, <2>1, <2>4 DEF RemovedInv, RemovedAtFinish
  <2>5. RemovedAtFinish'
    BY <2>4 DEF RemovedAtFinish
  <2> QED BY <2>3, <2>5 DEF RemovedInv
<1>12. ASSUME NEW i \in ids[t], NEW kind \in {"partial", "final", "scored", "error"}, Take(t, i, kind),
              kind = "error" => cpc'[t] = "removeAll" /\ ids' = ids,
              kind = "final" => cpc'[t] = "removeFinal" /\ ids' = ids,
              cpc'[t] # "finished"
       PROVE  RemovedInv'
  <2>1. /\ waiting_task_ids' = waiting_task_ids /\ cpc[t] = "recv" /\ i \in TaskIds
        /\ \A j \in TaskIds : j # i => got'[j] = got[j]
    BY <1>1, <1>12 DEF Take, Recv
  <2>2. got'[i].end = IF kind = "partial" THEN "none" ELSE kind
    BY <1>1, <1>12, <2>1 DEF Take
  <2>3. ASSUME NEW j \in waiting_task_ids, got'[j].end \in {"final", "error"} PROVE Removing(j)'
    <3>1. CASE j = i
      BY <1>12, <2>2, <2>3, <3>1 DEF Removing
    <3>2. CASE j # i
      BY <1>1, <1>4, <2>1, <2>3, <3>2 DEF RemovedInv, RemovedAtEnd
    <3> QED BY <3>1, <3>2
  <2>4. RemovedAtEnd'
    BY <2>1, <2>3 DEF RemovedAtEnd
  <2> QED BY <1>5, <1>12, <2>1, <2>4 DEF RemovedInv
<1>13. CASE ReceiveError(t) \/ ReceiveFinal(t) \/ ReceivePartial(t)
  <2>1. CASE ReceiveError(t)
    BY <1>7, <1>12, <2>1 DEF ReceiveError
  <2>2. CASE ReceiveFinal(t)
    BY <1>7, <1>12, <2>2 DEF ReceiveFinal
  <2>3. CASE ReceivePartial(t)
    BY <1>7, <1>12, <2>3 DEF ReceivePartial
  <2> QED BY <1>13, <2>1, <2>2, <2>3
<1>14. CASE ReceiveScored(t)
  <2>1. PICK i \in ids[t] : Take(t, i, "scored")
    BY <1>14 DEF ReceiveScored
  <2>2. cpc'[t] # "finished"
    <3>1. Return(t) \/ UNCHANGED cpc
      BY <1>14 DEF ReceiveScored
    <3> QED BY <1>8, <2>1, <3>1 DEF Take
  <2> QED BY <1>12, <2>1, <2>2
<1>15. ASSUME NEW i \in ids[t], RemoveWaitingTaskId(i), got' = got,
              ids[t] = {i} \/ (ids[t] \ {i} \subseteq ids'[t] /\ cpc'[t] = cpc[t]),
              cpc'[t] = "finished" => ids' = ids /\ ids[t] = {i}
       PROVE  RemovedInv'
  <2>1. waiting_task_ids' = waiting_task_ids \ {i}
    BY <1>15 DEF RemoveWaitingTaskId
  <2>2. ASSUME NEW j \in waiting_task_ids', got[j].end \in {"final", "error"} PROVE Removing(j)'
    <3>1. Removing(j) /\ j # i
      BY <2>1, <2>2 DEF RemovedInv, RemovedAtEnd
    <3> QED BY <1>4, <1>15, <3>1
  <2>3. RemovedAtEnd'
    BY <1>15, <2>2 DEF RemovedAtEnd
  <2>4. CASE cpc'[t] = "finished"
    <3>1. ids'[t] \cap waiting_task_ids' = {}
      BY <1>15, <2>1, <2>4
    <3>2. ASSUME NEW u \in Threads, cpc'[u] = "finished" PROVE ids'[u] \cap waiting_task_ids' = {}
      BY <1>3, <2>1, <3>1, <3>2 DEF RemovedInv, RemovedAtFinish
    <3>3. RemovedAtFinish'
      BY <3>2 DEF RemovedAtFinish
    <3> QED BY <2>3, <3>3 DEF RemovedInv
  <2>5. CASE cpc'[t] # "finished"
    BY <1>5, <2>1, <2>3, <2>5 DEF RemovedInv
  <2> QED BY <2>4, <2>5
<1>16. CASE RemoveAfterError(t)
  <2>1. PICK i \in ids[t] :
          /\ RemoveWaitingTaskId(i)
          /\ IF call[t].stream THEN Goto(t, "user") /\ UNCHANGED <<call, ids, left>>
             ELSE IF ids[t] = {i} THEN Return(t)
             ELSE /\ ids' = [ids EXCEPT ![t] = @ \ {i}]
                  /\ UNCHANGED <<cpc, call, left>>
    BY <1>16 DEF RemoveAfterError
  <2>2. got' = got /\ cpc[t] = "removeAll"
    BY <1>16 DEF RemoveAfterError
  <2>3. CASE call[t].stream
    <3>1. ids[t] = {i}
      BY <2>2, <2>3, OneIdOnly
    <3> QED BY <1>7, <1>15, <2>1, <2>2, <2>3, <3>1
  <2>4. CASE ~call[t].stream /\ ids[t] = {i}
    BY <1>8, <1>15, <2>1, <2>2, <2>4
  <2>5. CASE ~call[t].stream /\ ids[t] # {i}
    <3>1. ids'[t] = ids[t] \ {i} /\ cpc'[t] = cpc[t]
      BY <1>1, <2>1, <2>5
    <3> QED BY <1>15, <2>1, <2>2, <3>1
  <2> QED BY <2>3, <2>4, <2>5
<1>17. CASE RemoveAfterFinal(t)
  <2>1. PICK i \in ids[t] : RemoveWaitingTaskId(i)
    BY <1>17 DEF RemoveAfterFinal
  <2>2. /\ got' = got /\ cpc[t] = "removeFinal"
        /\ Return(t) \/ Goto(t, "release")
    BY <1>17 DEF RemoveAfterFinal
  <2>3. ids[t] = {i}
    BY <2>2, OneIdOnly DEF HeardInv, CallsFit, Suits
  <2> QED BY <1>7, <1>8, <1>15, <2>1, <2>2, <2>3
<1>18. CASE ReleaseTask(t) \/ CancelRemove(t) \/ CancelRemoveAgain(t)
  <2>1. PICK i \in ids[t] : RemoveWaitingTaskId(i)
    BY <1>18 DEF ReleaseTask, CancelRemove, CancelRemoveAgain
  <2>2. got' = got /\ ids' = ids /\ cpc[t] \in Iterating
    BY <1>18 DEF ReleaseTask, CancelRemove, CancelRemoveAgain, Iterating
  <2>3. ids[t] = {i}
    BY <2>2, OneIdOnly DEF HeardInv, CallsFit, Suits, Iterating
  <2> QED BY <1>15, <2>1, <2>2, <2>3
<1> QED BY <1>9, <1>10, <1>11, <1>13, <1>14, <1>16, <1>17, <1>18 DEF Native, Caller


-----------------------------------------------------------------------------
(* The invariant of the service *)

ServiceInv == HomeInv /\ FormedInv /\ CausalInv /\ BegunInv /\ HeardInv /\ RemovedInv

LEMMA InitServiceInv == Init => ServiceInv
<1> SUFFICES ASSUME Init PROVE ServiceInv
  OBVIOUS
<1> USE DEF Init
<1>1. TypeInv /\ HomeInv
  BY InitTypeInv, InitHomeInv
<1>2. /\ queue_tasks = <<>> /\ queue_tasks_deferred = <<>> /\ cur = NextResponse /\ id = 0
      /\ wpc = "load" /\ waiting_task_ids = {}
      /\ \A s \in Slots : state[s] = "IDLE" /\ id_task[s] = NoTask /\ params[s] = NoRequest
      /\ \A t \in Threads : cpc[t] = "idle" /\ call[t] = NoRequest /\ ids[t] = {}
      /\ \A i \in TaskIds : got[i] = Nothing /\ queue_results[i] = <<>>
  BY DEF QueueInit, WorkerInit, ResponseInit, ClientInit, Nothing
<1>3. FormedInv
  <2>1. HeldTasks = {NextResponse}
    BY <1>2 DEF HeldTasks, TasksIn
  <2>2. TasksFormed
    BY <1>1, <2>1, OtherTasksFormed DEF TasksFormed
  <2>3. SlotsFormed
    BY <1>2 DEF SlotsFormed, SlotFormed, PromptGiven, NoRequest, NoTask
  <2>4. CallsFormed
    BY <1>2 DEF CallsFormed, CallFormed
  <2> QED BY <2>2, <2>3, <2>4 DEF FormedInv
<1>4. CausalInv
  BY <1>2 DEF CausalInv, TextGenerated, StopsGenerating, RepliesReleased
<1>5. BegunInv
  BY <1>2 DEF BegunInv, SlotsBegun, OneSlotEach, ResultsBegun
<1>6. HeardInv
  <2>1. \A i \in TaskIds : DOMAIN queue_results[i] = {} /\ ResultsOf(i) = {}
    BY <1>2 DEF ResultsOf
  <2>2. AllInOrder
    BY <2>1 DEF AllInOrder, InOrder
  <2>3. SlotsHeard
    BY <1>2 DEF SlotsHeard, HeardFrom, Live, IsProcessing, Fresh, TaskIds, NoTask
  <2>4. ResultsFit /\ CallsFit
    BY <1>2 DEF ResultsFit, CallsFit, Suits, Iterating
  <2> QED BY <2>2, <2>3, <2>4 DEF HeardInv
<1>7. RemovedInv
  BY <1>2 DEF RemovedInv, RemovedAtEnd, RemovedAtFinish
<1> QED BY <1>1, <1>3, <1>4, <1>5, <1>6, <1>7 DEF ServiceInv

LEMMA NextServiceInv == TypeInv /\ ServiceInv /\ [Next]_vars => ServiceInv'
<1> SUFFICES ASSUME TypeInv, ServiceInv, [Next]_vars PROVE ServiceInv'
  OBVIOUS
<1>1. HomeInv /\ FormedInv /\ CausalInv /\ BegunInv /\ HeardInv /\ RemovedInv /\ SlotsFormed
  BY DEF ServiceInv, FormedInv
<1>2. TypeInv' /\ HomeInv' /\ FormedInv' /\ BegunInv'
  BY <1>1, NextTypeInv, NextHomeInv, NextFormedInv, NextBegunInv
<1>3. CASE Worker /\ UNCHANGED clientVars
  <2>1. CausalInv' /\ HeardInv'
    BY <1>1, <1>2, <1>3, WorkerCausalSteps, WorkerHeardSteps
  <2>2. waiting_task_ids' = waiting_task_ids
    BY <1>1, <1>3, WorkerSendSteps DEF Sends, Send, LaunchFails, responseVars
  <2>3. RemovedInv'
    BY <1>1, <1>3, <2>2 DEF clientVars, RemovedInv, RemovedAtEnd, RemovedAtFinish, Removing
  <2> QED BY <1>2, <2>1, <2>3 DEF ServiceInv
<1>4. UNCHANGED workerVars => CausalInv'
  BY <1>1 DEF workerVars, slotVars, CausalInv, TextGenerated, StopsGenerating, RepliesReleased,
              IsProcessing
<1>5. ASSUME NEW t \in Threads, Native(t) \/ Caller(t), UNCHANGED workerVars PROVE ServiceInv'
  BY <1>1, <1>2, <1>4, <1>5, ClientHeardSteps, ClientRemovedSteps DEF ServiceInv
<1>6. CASE UNCHANGED vars
  <2>1. /\ UNCHANGED <<workerVars, clientVars, responseVars>>
    BY <1>6 DEF vars
  <2>2. RemovedInv'
    BY <1>1, <2>1 DEF clientVars, responseVars, RemovedInv, RemovedAtEnd, RemovedAtFinish, Removing
  <2>3. HeardInv'
    <3>1. UNCHANGED <<state, id_task, n_decoded, wpc, at, reply, queue_results, got, ids, call, cpc>>
      BY <2>1 DEF clientVars, responseVars, workerVars, slotVars
    <3>2. (\A i : ResultsOf(i)' = ResultsOf(i)) /\ \A s : Live(s)' = Live(s)
      BY <3>1 DEF ResultsOf, Live, IsProcessing
    <3>3. AllInOrder'
      BY <1>1, <3>1, <3>2 DEF HeardInv, AllInOrder, InOrder
    <3>4. SlotsHeard'
      BY <1>1, <3>1, <3>2 DEF HeardInv, SlotsHeard, HeardFrom, IsProcessing
    <3>5. ResultsFit' /\ CallsFit'
      BY <1>1, <3>1, <3>2 DEF HeardInv, ResultsFit, CallsFit
    <3> QED BY <3>3, <3>4, <3>5 DEF HeardInv
  <2> QED BY <1>2, <1>4, <2>1, <2>2, <2>3 DEF ServiceInv
<1> QED BY <1>3, <1>5, <1>6 DEF Next, Finished

LEMMA ServiceInvHolds == Spec => []ServiceInv
BY InitServiceInv, NextServiceInv, TypeInvHolds, PTL DEF Spec

\* Nothing is kept of an id whose iterator is finished or whose caller was
\* given a final result or an exception, for any number of callers: the removals
\* of receiveCompletion, releaseTask and cancelCompletion against a worker that
\* may still answer. An id awaited after the end is still being removed by its
\* own thread, and an iterator's one id is out of waiting_task_ids when it ends.
THEOREM EndedIdsAreCleanedUp == Spec => []IdsAreCleanedUp
<1>1. TypeInv /\ ServiceInv /\ ResultsAwaited => IdsAreCleanedUp
  <2> SUFFICES ASSUME TypeInv, ServiceInv, ResultsAwaited,
                      NEW i \in TaskIds, i \in waiting_task_ids \/ queue_results[i] # <<>>
               PROVE  /\ \A t \in Threads : i \in ids[t] => cpc[t] # "finished"
                      /\ got[i].end \in {"final", "error"} => \E t \in Threads : i \in ids[t]
    BY DEF IdsAreCleanedUp
  <2>1. i \in waiting_task_ids
    BY DEF ResultsAwaited
  <2> QED BY <2>1 DEF ServiceInv, RemovedInv, RemovedAtEnd, RemovedAtFinish, Removing
<1> QED BY <1>1, ServiceInvHolds, TypeInvHolds, ResultsAreAwaited, PTL


-----------------------------------------------------------------------------
(* The server implements CompletionService *)

\* The cases of Life exclude each other.
Unborn(i) == i >= id \/ i \in BeingMade
Lives ==
    \A i \in TaskIds :
       /\ i \in PendingIds \cup RunningIds => ~Unborn(i)
       /\ i \in PendingIds => i \notin RunningIds
       /\ Life(i) = IF Unborn(i) THEN "unborn"
                    ELSE IF i \in PendingIds THEN "pending"
                    ELSE IF i \in RunningIds THEN "running" ELSE "over"

LEMMA LivesApart == TypeInv /\ ServiceInv => Lives
<1> SUFFICES ASSUME TypeInv, ServiceInv, NEW i \in TaskIds
             PROVE  /\ i \in PendingIds \cup RunningIds => ~Unborn(i)
                    /\ i \in PendingIds => i \notin RunningIds
                    /\ Life(i) = IF Unborn(i) THEN "unborn"
                                 ELSE IF i \in PendingIds THEN "pending"
                                 ELSE IF i \in RunningIds THEN "running" ELSE "over"
  BY DEF Lives
<1>1. i \in Nat /\ id \in Nat /\ PendingIds \cap RunningIds = {}
  BY MaxTasksAssumption DEF ServiceInv, HomeInv, OneHome, TypeInv, QueueTypeOK, TaskIds
<1>2. ASSUME i \in PendingIds \cup RunningIds PROVE ~Unborn(i)
  <2>1. i \in HomeIds
    BY <1>2 DEF HomeIds
  <2>2. i < id
    BY <1>1, <2>1 DEF ServiceInv, HomeInv, Drawn
  <2>3. i \notin BeingMade
    BY <2>1 DEF ServiceInv, HomeInv, Unshared, BeingMade
  <2> QED BY <1>1, <2>2, <2>3 DEF Unborn
<1>3. Unborn(i) <=> i >= id \/ i \in BeingMade
  BY DEF Unborn
<1> HIDE DEF Unborn
<1> QED BY <1>1, <1>2, <1>3 DEF Life

LEMMA LivesApartNext == TypeInv' /\ ServiceInv' => Lives'
BY LivesApart, PTL

\* A step of the worker that launches nothing releases one slot at most.
LEMMA WorkerRunningSteps ==
  ASSUME TypeInv, ServiceInv, Worker, ~LaunchSlotWithTask, ~LaunchFails
  PROVE  \/ RunningIds' = RunningIds
         \/ \E s \in Slots : IsProcessing(s) /\ RunningIds' = RunningIds \ {id_task[s]}
<1>1. /\ state \in [Slots -> SlotStates] /\ CausalInv /\ SlotsFormed /\ id_task' = id_task
      /\ at \in 1..(NSlots + 1)
  BY WorkerTagSteps DEF TypeInv, WorkerTypeInv, WorkerTypeOK, SlotsTypeOK, ControlTypeOK,
     ServiceInv, FormedInv
<1>2. ASSUME \A s \in Slots : IsProcessing(s)' = IsProcessing(s)
      PROVE  RunningIds' = RunningIds
  BY <1>1, <1>2 DEF RunningIds
<1>3. ASSUME NEW s \in Slots, Release(s)
      PROVE  \/ RunningIds' = RunningIds
             \/ IsProcessing(s) /\ RunningIds' = RunningIds \ {id_task[s]}
  <2>1. \A u \in Slots : IsProcessing(u)' <=> u # s /\ IsProcessing(u)
    BY <1>1, <1>3 DEF Release, IsProcessing
  <2>2. CASE ~IsProcessing(s)
    BY <1>2, <2>1, <2>2 DEF IsProcessing
  <2>3. CASE IsProcessing(s)
    <3>1. \A u \in Slots : u # s /\ IsProcessing(u) => id_task[u] # id_task[s]
      BY <2>3 DEF ServiceInv, HomeInv, OneHome
    <3>2. \A i : i \in RunningIds' <=> \E u \in Slots : IsProcessing(u)' /\ i = id_task[u]
      BY <1>1 DEF RunningIds
    <3>3. \A i : i \in RunningIds <=> \E u \in Slots : IsProcessing(u) /\ i = id_task[u]
      BY DEF RunningIds
    <3>4. RunningIds' = RunningIds \ {id_task[s]}
      BY <2>1, <3>1, <3>2, <3>3
    <3> QED BY <2>3, <3>4
  <2> QED BY <2>2, <2>3
<1>4. CASE Quiet \/ Scores \/ Replies
  BY <1>2, <1>4 DEF Quiet, Scores, Replies, IsProcessing
<1>5. CASE Stops \/ Cancels
  <2>1. state' = state \/ \E s \in Slots : Release(s)
    BY <1>5 DEF Stops, Cancels
  <2> QED BY <1>2, <1>3, <2>1 DEF IsProcessing
<1>6. CASE ReleaseScored
  <2>1. Release(at) /\ at \in Slots
    BY <1>6 DEF ReleaseScored, TypeInv, WorkerTypeInv, AtASlot
  <2>2. PICK s \in Slots : s = at
    BY <2>1
  <2> QED BY <1>3, <2>1, <2>2
<1>7. CASE FillsPrompt \/ Samples
  <2>1. PICK s \in Slots, st \in SlotStates \ {"IDLE"} :
           state[s] # "IDLE" /\ state' = [state EXCEPT ![s] = st]
    BY <1>7 DEF FillsPrompt, Samples, Fresh, SlotStates
  <2>2. \A u \in Slots : IsProcessing(u)' = IsProcessing(u)
    BY <1>1, <2>1 DEF IsProcessing
  <2> QED BY <1>2, <2>2
<1> QED BY <1>1, <1>4, <1>5, <1>6, <1>7, WorkerMoves


\* What the promise is about: the life of every task, as the server keeps it.
Lived == [i \in TaskIds |-> Life(i)]

\* A step that changes no id's place is none of the service's.
LEMMA SameLife ==
  ASSUME UNCHANGED <<id, BeingMade, PendingIds, RunningIds>> PROVE Lived' = Lived
BY DEF Lived, Life

LEMMA WorkerImplements ==
  ASSUME TypeInv, ServiceInv, Lives, Lives', Worker, UNCHANGED clientVars
  PROVE  [Service!ServiceNext]_(Service!serviceVars)
<1>1. /\ HomeInv /\ FormedInv /\ BegunInv /\ CausalInv /\ TasksFormed
      /\ NoTask \notin TaskIds /\ TaskIds \subseteq Int
      /\ id_task \in [Slots -> TaskIds \cup {NoTask}]
  BY MaxTasksAssumption DEF ServiceInv, FormedInv, TaskIds, NoTask, TypeInv, WorkerTypeInv,
     WorkerTypeOK, SlotsTypeOK
<1>2. got' = got /\ BeingMade' = BeingMade /\ id' = id
  BY WorkerQueueSteps DEF TypeInv, clientVars, BeingMade, queueVars, PostBack, Defer,
     PopDeferredTask, StartLoop, TakeTask
<1>3. ASSUME NEW i \in TaskIds, NEW from, NEW to, Life(i) = from, Life(i)' = to,
             \A j \in TaskIds : j # i => Life(j)' = Life(j)
      PROVE  Service!Becomes(i, from, to)
  <2>1. Lived' = [Lived EXCEPT ![i] = to]
    BY <1>3 DEF Lived
  <2>2. Lived[i] = from
    BY <1>3 DEF Lived
  <2> QED BY <1>2, <2>1, <2>2 DEF Service!Becomes, Lived
<1>4. ASSUME Lived' = Lived PROVE UNCHANGED Service!serviceVars
  BY <1>2, <1>4 DEF Service!serviceVars, Lived
<1>5. \A i \in TaskIds : Unborn(i)' <=> Unborn(i)
  BY <1>2 DEF Unborn
\* Only the ids that change their place change their life.
<1>6. ASSUME NEW j \in TaskIds, j \in PendingIds' <=> j \in PendingIds,
             j \in RunningIds' <=> j \in RunningIds
      PROVE  Life(j)' = Life(j)
  BY <1>5, <1>6 DEF Lives
<1>7. CASE LaunchSlotWithTask \/ LaunchFails
  <2>1. /\ cur.id \in PendingIds /\ PendingIds' = PendingIds \ {cur.id}
        /\ cur.id \in TaskIds
    BY <1>1, <1>7, WorkerPendingSteps, LaunchIsNews
  <2>2. PICK s \in Slots :
           /\ ~IsProcessing(s) /\ id_task'[s] = cur.id
           /\ LaunchSlotWithTask => state'[s] = "STARTED"
           /\ LaunchFails => state'[s] = state[s]
           /\ \A u \in Slots : u # s => id_task'[u] = id_task[u] /\ state'[u] = state[u]
    BY <1>7, LaunchBinds
  <2>3. /\ \A i : i \in RunningIds' <=> \E u \in Slots : state'[u] # "IDLE" /\ i = id_task'[u]
        /\ \A i : i \in RunningIds <=> \E u \in Slots : state[u] # "IDLE" /\ i = id_task[u]
    BY DEF RunningIds, IsProcessing
  <2>4. cur.id \notin RunningIds /\ ~Unborn(cur.id) /\ Life(cur.id) = "pending"
    BY <2>1 DEF Lives
  <2>5. \A j \in TaskIds : j # cur.id => (j \in RunningIds' <=> j \in RunningIds)
    BY <2>2, <2>3 DEF IsProcessing
  <2>6. \A j \in TaskIds : j # cur.id => Life(j)' = Life(j)
    BY <1>6, <2>1, <2>5
  <2>7. PICK i \in TaskIds : i = cur.id
    BY <2>1
  <2>8. CASE LaunchSlotWithTask
    <3>1. i \in RunningIds' /\ i \notin PendingIds'
      BY <2>1, <2>2, <2>3, <2>7, <2>8
    <3>2. Life(i)' = "running"
      BY <1>5, <2>4, <2>7, <3>1 DEF Lives
    <3>3. Service!Start(i)
      BY <1>3, <2>4, <2>6, <2>7, <3>2 DEF Service!Start
    <3> QED BY <3>3 DEF Service!ServiceNext
  <2>9. CASE LaunchFails
    <3>1. i \notin RunningIds' /\ i \notin PendingIds'
      BY <2>1, <2>2, <2>3, <2>4, <2>7, <2>9 DEF IsProcessing
    <3>2. Life(i)' = "over"
      BY <1>5, <2>4, <2>7, <3>1 DEF Lives
    <3>3. Service!Refuse(i)
      BY <1>3, <2>4, <2>6, <2>7, <3>2 DEF Service!Refuse
    <3> QED BY <3>3 DEF Service!ServiceNext
  <2> QED BY <1>7, <2>8, <2>9
<1>8. CASE ~LaunchSlotWithTask /\ ~LaunchFails
  <2>1. PendingIds' = PendingIds
    BY <1>1, <1>8, WorkerPendingSteps
  <2>2. CASE RunningIds' = RunningIds
    BY <1>2, <1>4, <2>1, <2>2, SameLife
  <2>3. ASSUME NEW s \in Slots, IsProcessing(s), RunningIds' = RunningIds \ {id_task[s]}
        PROVE  Service!ServiceNext
    <3>1. PICK i \in TaskIds : i = id_task[s]
      BY <1>1, <2>3 DEF HomeInv, Named, SlotsNamed
    <3>2. i \in RunningIds
      BY <2>3, <3>1 DEF RunningIds
    <3>3. ~Unborn(i) /\ i \notin PendingIds /\ Life(i) = "running"
      BY <3>2 DEF Lives
    <3>4. Life(i)' = "over"
      BY <1>5, <2>1, <2>3, <3>1, <3>3 DEF Lives
    <3>5. \A j \in TaskIds : j # i => Life(j)' = Life(j)
      BY <1>6, <2>1, <2>3, <3>1
    <3>6. Service!Stop(i)
      BY <1>3, <3>3, <3>4, <3>5 DEF Service!Stop
    <3> QED BY <3>6 DEF Service!ServiceNext
  <2> QED BY <1>8, <2>2, <2>3, WorkerRunningSteps
<1> QED BY <1>7, <1>8


\* What recv() hands to the caller is the next thing to hear of the task.
LEMMA TakeImplements ==
  ASSUME TypeInv, ServiceInv, ResultsAwaited, Lives, Lived' = Lived,
         NEW t \in Threads, NEW i \in ids[t], NEW kind \in {"partial", "final", "scored", "error"},
         Take(t, i, kind)
  PROVE  Service!ServiceNext
<1> DEFINE r == Head(queue_results[i])
<1>1. /\ i \in TaskIds /\ queue_results[i] \in Seq(Result) /\ queue_results[i] # <<>>
      /\ got \in [TaskIds -> Output] /\ r.kind = kind /\ cpc[t] = "recv"
      /\ got' = [got EXCEPT ![i] = [times |-> @.times + 1, n |-> r.n,
                                    end |-> IF kind = "partial" THEN "none" ELSE kind]]
  BY DEF TypeInv, ResponseTypeOK, ClientTypeInv, ClientTypeOK, Take
<1>2. r \in ResultsOf(i)
  <2>1. 1 \in DOMAIN queue_results[i] /\ r = queue_results[i][1]
    BY <1>1, HeadTailProperties, EmptySeq
  <2> QED BY <2>1 DEF ResultsOf
<1>3. FollowsOutput(got[i], r)
  BY <1>1, <1>2 DEF ServiceInv, HeardInv, AllInOrder, InOrder
<1> HIDE DEF r
<1>4. got'[i].n = r.n
  BY <1>1
<1>5. ~Unborn(i) /\ i \notin PendingIds
  <2>1. Begun(i) /\ i \in Nat /\ id \in Nat
    BY <1>1, MaxTasksAssumption
    DEF ServiceInv, BegunInv, ResultsBegun, TypeInv, QueueTypeOK, TaskIds
  <2> QED BY <2>1 DEF Begun, Unborn
<1>6. Lived[i] = IF i \in RunningIds THEN "running" ELSE "over"
  BY <1>1, <1>5 DEF Lives, Lived
<1>7. ASSUME NEW end, end = IF kind = "partial" THEN "none" ELSE kind PROVE Service!Hear(i, end)
  BY <1>1, <1>4, <1>7 DEF Service!Hear, Lived
<1>8. CASE kind = "partial"
  <2>1. Service!Hear(i, "none")
    BY <1>7, <1>8
  <2>2. got[i].end = "none" /\ got'[i].n > got[i].n
    <3>1. got[i] \in Output /\ r \in Result
      BY <1>1, <1>2 DEF ResultsOf
    <3>2. got[i].end = "none" /\ got[i].n < r.n
      BY <1>1, <1>3, <1>8, <3>1 DEF FollowsOutput, Output
    <3> QED BY <1>4, <3>1, <3>2 DEF Output, Result
  <2>3. Lived[i] \in {"running", "over"}
    BY <1>6
  <2>4. Service!HearPartial(i)
    BY <2>1, <2>2, <2>3 DEF Service!HearPartial, Lived
  <2> QED BY <1>1, <2>4 DEF Service!ServiceNext
<1>9. CASE kind # "partial"
  <2>1. Service!Hear(i, kind)
    BY <1>7, <1>9
  <2>2. ASSUME kind \in {"final", "error"} PROVE Lived[i] = "over"
    <3>1. ASSUME i \in RunningIds PROVE FALSE
      <4>1. PICK s \in Slots : IsProcessing(s) /\ id_task[s] = i
        BY <3>1 DEF RunningIds
      <4>2. HeardFrom(s, i)
        BY <1>1, <4>1 DEF ServiceInv, HeardInv, SlotsHeard
      <4>3. r.kind \in {"partial", "scored"}
        BY <1>2, <4>1, <4>2 DEF HeardFrom
      <4> QED BY <1>1, <2>2, <4>3
    <3> QED BY <1>6, <3>1
  <2>3. got[i].end \notin {"final", "error"}
    <3>1. i \in waiting_task_ids
      BY <1>1 DEF ResultsAwaited
    <3>2. \A u \in Threads : i \in ids[u] => u = t
      BY DEF ServiceInv, HomeInv, Unshared
    <3> QED BY <1>1, <3>1, <3>2 DEF ServiceInv, RemovedInv, RemovedAtEnd, Removing
  <2>4. got[i].end \in {"none", "scored"} /\ (got[i].end = "scored" => kind = "error")
    <3>1. got[i].end \in {"none", "final", "scored", "error"}
      BY <1>1 DEF Output
    <3> QED BY <1>1, <1>3, <2>3, <3>1 DEF FollowsOutput
  <2>5. kind = "final" => got'[i].n >= got[i].n
    <3>1. got[i] \in Output /\ r \in Result
      BY <1>1, <1>2 DEF ResultsOf
    <3>2. kind = "final" => got[i].n <= r.n
      BY <1>1, <1>3 DEF FollowsOutput
    <3> QED BY <1>4, <3>1, <3>2 DEF Output, Result
  <2>6. Lived[i] = "over" \/ (Lived[i] = "running" /\ kind = "scored")
    BY <1>6, <1>9, <2>2
  <2>7. Service!HearEnd(i, kind)
    BY <2>1, <2>4, <2>5, <2>6 DEF Service!HearEnd, Lived
  <2>8. kind \in Service!Ends
    BY <1>9 DEF Service!Ends
  <2> QED BY <1>1, <2>7, <2>8 DEF Service!ServiceNext
<1> QED BY <1>8, <1>9

LEMMA ClientImplements ==
  ASSUME TypeInv, ServiceInv, ResultsAwaited, Lives, Lives',
         NEW t \in Threads, Native(t) \/ Caller(t), UNCHANGED workerVars
  PROVE  [Service!ServiceNext]_(Service!serviceVars)
<1>1. /\ HomeInv /\ FormedInv /\ ClientTypeInv /\ ids[t] \subseteq TaskIds
      /\ id \in Nat /\ TaskIds \subseteq Nat /\ call[t] \in Request
  BY MaxTasksAssumption DEF ServiceInv, TypeInv, TaskIds, QueueTypeOK, ClientTypeInv, ClientTypeOK
<1>2. RunningIds' = RunningIds
  BY DEF workerVars, slotVars, RunningIds, IsProcessing
<1>3. ASSUME Lived' = Lived, got' = got PROVE UNCHANGED Service!serviceVars
  BY <1>3 DEF Service!serviceVars, Lived
<1>4. ASSUME NEW i \in ids[t], NEW kind \in {"partial", "final", "scored", "error"}, Take(t, i, kind)
      PROVE  Service!ServiceNext
  <2>1. cpc[t] = "recv" /\ id' = id
    BY <1>4 DEF Take, queueVars
  <2>2. \A r \in Requests : id + r.docs # id
    BY <1>1, NativeCallsAssumption DEF Request
  <2>3. UNCHANGED <<id, BeingMade, PendingIds>>
    BY <1>1, <2>1, <2>2, ClientPendingSteps DEF PostRequest, Reject
  <2>4. Lived' = Lived
    BY <1>2, <2>3, SameLife
  <2> QED BY <1>4, <2>4, TakeImplements
<1>5. CASE got' = got
  <2>1. ASSUME NEW r \in Requests, BeingMade' = BeingMade \cup (id..(id + r.docs - 1)),
               id' = id + r.docs, PendingIds' = PendingIds
        PROVE  Lived' = Lived
    <3>1. r.docs \in Nat \ {0}
      BY NativeCallsAssumption DEF Request
    <3>2. ASSUME NEW i \in TaskIds PROVE Unborn(i)' <=> Unborn(i)
      <4>1. i >= id + r.docs \/ i \in id..(id + r.docs - 1) <=> i >= id
        BY <1>1, <3>1
      <4> QED BY <2>1, <4>1 DEF Unborn
    <3>3. \A i \in TaskIds : Life(i)' = Life(i)
      BY <1>2, <2>1, <3>2 DEF Lives
    <3> QED BY <3>3 DEF Lived
  <2>2. ASSUME id' = id, ids[t] \subseteq BeingMade, BeingMade' = BeingMade \ ids[t]
        PROVE  /\ \A i \in ids[t] : Unborn(i) /\ ~Unborn(i)' /\ Life(i) = "unborn"
                                    /\ i \notin PendingIds /\ i \notin RunningIds
               /\ \A i \in TaskIds \ ids[t] : Unborn(i)' <=> Unborn(i)
    <3>1. \A i \in ids[t] : i < id /\ i \in Nat
      BY <1>1 DEF HomeInv, Drawn
    <3>2. \A i \in ids[t] : Unborn(i) /\ ~Unborn(i)'
      BY <1>1, <2>2, <3>1 DEF Unborn
    <3>3. \A i \in TaskIds \ ids[t] : Unborn(i)' <=> Unborn(i)
      BY <2>2 DEF Unborn
    <3> QED BY <1>1, <3>2, <3>3 DEF Lives
  <2>3. ASSUME PostRequest(t), id' = id, ids[t] \subseteq BeingMade, BeingMade' = BeingMade \ ids[t],
               PendingIds' = PendingIds \cup ids[t]
        PROVE  Service!ServiceNext
    <3>1. \A i \in ids[t] : Life(i) = "unborn" /\ Life(i)' = "pending"
      BY <1>1, <2>2, <2>3 DEF Lives
    <3>2. \A i \in TaskIds \ ids[t] : Life(i)' = Life(i)
      BY <1>2, <2>2, <2>3 DEF Lives
    <3>3. \A i \in ids[t] : Lived[i] = "unborn"
      BY <1>1, <3>1 DEF Lived
    <3>4. Lived' = [i \in TaskIds |-> IF i \in ids[t] THEN "pending" ELSE Lived[i]]
      BY <1>1, <3>1, <3>2 DEF Lived
    <3>5. PICK new \in SUBSET TaskIds : new = ids[t]
      BY <1>1
    <3>6. Service!Accept(new)
      BY <1>5, <3>3, <3>4, <3>5 DEF Service!Accept, Lived
    <3> QED BY <3>6 DEF Service!ServiceNext
  <2>4. ASSUME Reject(t), id' = id, ids[t] \subseteq BeingMade, BeingMade' = BeingMade \ ids[t],
               PendingIds' = PendingIds
        PROVE  Service!ServiceNext
    <3>1. PICK i \in ids[t] : ids[t] = {i}
      <4>1. call[t].type = "COMPLETION" /\ cpc[t] = "register"
        BY <2>4 DEF Reject
      <4>2. call[t].docs = 1
        BY <1>1, <4>1, RequestsFormed DEF FormedInv, CallsFormed, CallFormed
      <4> QED BY <1>1, <4>1, <4>2 DEF FormedInv, CallsFormed, CallFormed
    <3>2. i \in TaskIds /\ Life(i) = "unborn" /\ Life(i)' = "over"
      BY <1>1, <1>2, <2>2, <2>4 DEF Lives
    <3>3. \A j \in TaskIds : j # i => Life(j)' = Life(j)
      BY <1>2, <2>2, <2>4, <3>1 DEF Lives
    <3>4. Lived[i] = "unborn" /\ Lived' = [Lived EXCEPT ![i] = "over"]
      BY <3>2, <3>3 DEF Lived
    <3>5. Service!Drop(i)
      BY <1>5, <3>4 DEF Service!Drop, Service!Becomes, Lived
    <3> QED BY <3>2, <3>5 DEF Service!ServiceNext
  <2>5. CASE UNCHANGED <<id, BeingMade, PendingIds>>
    BY <1>2, <1>3, <1>5, <2>5, SameLife
  <2> QED BY <1>1, <1>3, <1>5, <2>1, <2>3, <2>4, <2>5, ClientPendingSteps
<1>6. Register(t) => got' = got
  BY DEF Register
<1> QED BY <1>1, <1>4, <1>5, <1>6, ClientResultSteps

\* Every step of the server is one the promise allows, or none of its concern: a
\* task is accepted, started, stopped and answered once, in this order, whatever
\* queues, deferrals, cancels and failed decodes it meets on its way; what
\* its caller hears grows and ends once (or in an embedding or a rank that an
\* error takes back). For any number of slots, threads and requests.
THEOREM ServerImplementsService == Spec => ImplementsService
<1>1. Init => Service!ServiceInit
  <2> SUFFICES ASSUME Init PROVE Service!ServiceInit
    OBVIOUS
  <2>1. id = 0 /\ got = [i \in TaskIds |-> [times |-> 0, n |-> 0, end |-> "none"]]
    BY DEF Init, QueueInit, ClientInit
  <2>2. Lives
    BY InitTypeInv, InitServiceInv, LivesApart
  <2>3. \A i \in TaskIds : Unborn(i)
    BY <2>1, MaxTasksAssumption DEF Unborn, TaskIds
  <2>4. \A i \in TaskIds : Life(i) = "unborn"
    BY <2>2, <2>3 DEF Lives
  <2> QED BY <2>1, <2>4 DEF Service!ServiceInit
<1>2. TypeInv /\ ServiceInv /\ ResultsAwaited /\ TypeInv' /\ ServiceInv' /\ [Next]_vars
      => [Service!ServiceNext]_(Service!serviceVars)
  <2> SUFFICES ASSUME TypeInv, ServiceInv, ResultsAwaited, TypeInv', ServiceInv', [Next]_vars
               PROVE  [Service!ServiceNext]_(Service!serviceVars)
    OBVIOUS
  <2>1. Lives /\ Lives'
    BY LivesApart, LivesApartNext
  <2>2. CASE Worker /\ UNCHANGED clientVars
    BY <2>1, <2>2, WorkerImplements
  <2>3. ASSUME NEW t \in Threads, Native(t) \/ Caller(t), UNCHANGED workerVars
        PROVE  [Service!ServiceNext]_(Service!serviceVars)
    BY <2>1, <2>3, ClientImplements
  <2>4. CASE UNCHANGED vars
    <3>1. UNCHANGED <<id, BeingMade, PendingIds, RunningIds, got>>
      BY <2>4 DEF vars, queueVars, workerVars, slotVars, clientVars, BeingMade, PendingIds, CurId,
                  RunningIds, IsProcessing
    <3> QED BY <3>1, SameLife DEF Service!serviceVars, Lived
  <2> QED BY <2>2, <2>3, <2>4 DEF Next, Finished
<1> QED BY <1>1, <1>2, TypeInvHolds, ServiceInvHolds, ResultsAreAwaited, PTL
        DEF Spec, ImplementsService, Service!ServiceSpec
=============================================================================
