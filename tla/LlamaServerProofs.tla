------------------------- MODULE LlamaServerProofs --------------------------
(***************************************************************************)
(* What holds of the server, for every number of threads, slots and        *)
(* requests and every batch size, in five parts: what the operations of a  *)
(* deque keep of it, the types of the server (TypeInv), the places of its  *)
(* tasks (HomeInv), that the worker neither sleeps on work nor forgets a   *)
(* deferred task (WakeInv, ServedInv), and that a round of update_slots    *)
(* leaves no slot half-way (RoundInv).                                     *)
(***************************************************************************)
EXTENDS LlamaServer, TLAPS, WellFoundedInduction, SequenceTheorems

-----------------------------------------------------------------------------
(***************************************************************************)
(* Deques                                                                  *)
(*                                                                         *)
(* What the clean-up of server_queue::post() keeps of a deque, for every   *)
(* deque: its tasks in their order, without repetition, and all of them    *)
(* but those whose target is the cancelled task.                           *)
(***************************************************************************)

\* Every non-empty set of naturals has a least element. It stands in for
\* induction: a property fails at no number, for there is no least one.
LEMMA LeastNat ==
  ASSUME NEW B \in SUBSET Nat, B # {}
  PROVE  \E n \in B : \A m \in B : n <= m
<1> DEFINE R == OpToRel(<, Nat)
<1>1. IsWellFoundedOn(R, Nat)
  BY NatLessThanWellFounded, Zenon
<1>2. \A x, y \in Nat : x < y => <<x, y>> \in R
  BY DEF OpToRel
<1> HIDE DEF R
<1>3. PICK n \in B : \A m \in B : ~(<<m, n>> \in R)
  BY <1>1, WFMin, Zenon
<1>4. ASSUME NEW m \in B PROVE n <= m
  <2>1. ~(m < n)
    BY <1>2, <1>3, Zenon
  <2> QED BY <2>1
<1> QED BY <1>4

\* The step of the recursion in CleanupPendingTask.
Keep(q, i, k, p) == IF q[k].id_target = i THEN p ELSE Append(p, q[k])
KeepFrom(q, i, n, f) ==
    f = [k \in 0..n |-> IF k = 0 THEN <<>> ELSE Keep(q, i, k, f[k - 1])]

\* The function CleanupPendingTask is defined by exists.
LEMMA KeepExists ==
  ASSUME NEW q, NEW i, NEW len \in Nat
  PROVE  \E f : KeepFrom(q, i, len, f)
<1> DEFINE Bad == {n \in Nat : ~\E f : KeepFrom(q, i, n, f)}
<1>1. SUFFICES ASSUME Bad # {} PROVE FALSE
  OBVIOUS
<1>2. PICK n \in Bad : \A m \in Bad : n <= m
  BY <1>1, LeastNat
<1>3. CASE n = 0
  <2>1. KeepFrom(q, i, 0, [k \in 0..0 |-> <<>>])
    BY DEF KeepFrom
  <2> QED BY <1>3, <2>1
<1>4. CASE n # 0
  <2>1. n - 1 \in Nat /\ n - 1 \notin Bad
    BY <1>2, <1>4
  <2>2. PICK f : KeepFrom(q, i, n - 1, f)
    BY <2>1
  <2> DEFINE g == [k \in 0..n |-> IF k = 0 THEN <<>> ELSE Keep(q, i, k, f[k - 1])]
  <2>3. \A k \in 0..(n - 1) : g[k] = f[k]
    BY <2>2, <2>1 DEF KeepFrom
  <2>4. g = [k \in 0..n |-> IF k = 0 THEN <<>> ELSE Keep(q, i, k, g[k - 1])]
    <3>1. \A k \in 0..n : k # 0 => k - 1 \in 0..(n - 1)
      BY <2>1
    <3>2. \A k \in 0..n : k # 0 => g[k - 1] = f[k - 1]
      BY <2>3, <3>1
    <3> HIDE DEF g
    <3>3. g = [k \in 0..n |-> IF k = 0 THEN <<>> ELSE Keep(q, i, k, f[k - 1])]
      BY DEF g
    <3> QED BY <3>2, <3>3
  <2>5. KeepFrom(q, i, n, g)
    BY <2>4 DEF KeepFrom
  <2> QED BY <2>5, <1>2
<1> QED BY <1>3, <1>4

\* e shows p to be the deque q[1..k] without some of its tasks, none of them
\* with a target other than i.
IsKept(q, i, k, p, e) ==
    /\ p \in Seq(Task)
    /\ e \in [1..Len(p) -> 1..k]
    /\ \A a, b \in 1..Len(p) : a < b => e[a] < e[b]
    /\ \A a \in 1..Len(p) : p[a] = q[e[a]]
    /\ \A j \in 1..k : q[j].id_target # i => \E a \in 1..Len(p) : p[a] = q[j]

LEMMA KeepStep ==
  ASSUME NEW q \in Seq(Task), NEW i, NEW k \in 1..Len(q), NEW p,
         \E e : IsKept(q, i, k - 1, p, e)
  PROVE  \E e : IsKept(q, i, k, Keep(q, i, k, p), e)
<1>1. PICK e : IsKept(q, i, k - 1, p, e)
  OBVIOUS
<1>2. CASE q[k].id_target = i
  <2>1. IsKept(q, i, k, p, e)
    BY <1>1, <1>2 DEF IsKept
  <2> QED BY <1>2, <2>1 DEF Keep
<1>3. CASE q[k].id_target # i
  <2> DEFINE r == Append(p, q[k])
             d == [a \in 1..Len(r) |-> IF a = Len(r) THEN k ELSE e[a]]
  <2>1. /\ p \in Seq(Task) /\ Len(p) \in Nat /\ q[k] \in Task
        /\ e \in [1..Len(p) -> 1..(k - 1)]
    BY <1>1 DEF IsKept
  <2>2. /\ r \in Seq(Task) /\ Len(r) = Len(p) + 1 /\ r[Len(r)] = q[k]
        /\ \A a \in 1..Len(p) : r[a] = p[a]
    BY <2>1
  <2> HIDE DEF r
  <2>3. d \in [1..Len(r) -> 1..k]
    BY <2>1, <2>2
  <2>4. \A a, b \in 1..Len(r) : a < b => d[a] < d[b]
    <3>1. \A a \in 1..Len(p) : d[a] = e[a] /\ e[a] < k
      BY <2>1, <2>2
    <3>2. d[Len(r)] = k
      BY <2>1, <2>2
    <3>3. \A a, b \in 1..Len(p) : a < b => e[a] < e[b]
      BY <1>1 DEF IsKept
    <3> HIDE DEF d
    <3>4. ASSUME NEW a \in 1..Len(r), NEW b \in 1..Len(r), a < b
          PROVE  d[a] < d[b]
      <4>1. a \in 1..Len(p) /\ d[a] = e[a] /\ e[a] < k
        BY <2>1, <2>2, <3>1, <3>4
      <4>2. CASE b = Len(r)
        BY <3>2, <4>1, <4>2
      <4>3. CASE b # Len(r)
        <5>1. b \in 1..Len(p)
          BY <2>1, <2>2, <4>3
        <5> QED BY <3>1, <3>3, <3>4, <4>1, <5>1
      <4> QED BY <4>2, <4>3
    <3> QED BY <3>4
  <2>5. \A a \in 1..Len(r) : r[a] = q[d[a]]
    <3>1. \A a \in 1..Len(p) : p[a] = q[e[a]]
      BY <1>1 DEF IsKept
    <3> QED BY <2>1, <2>2, <3>1
  <2>6. \A j \in 1..k : q[j].id_target # i => \E a \in 1..Len(r) : r[a] = q[j]
    <3>1. \A j \in 1..(k - 1) : q[j].id_target # i => \E a \in 1..Len(p) : p[a] = q[j]
      BY <1>1 DEF IsKept
    <3>2. \A a \in 1..Len(p) : a \in 1..Len(r) /\ r[a] = p[a]
      BY <2>1, <2>2
    <3>3. Len(r) \in 1..Len(r)
      BY <2>1, <2>2
    <3>4. TAKE j \in 1..k
    <3>5. HAVE q[j].id_target # i
    <3>6. CASE j = k
      BY <2>2, <3>3, <3>6
    <3>7. CASE j # k
      <4>1. j \in 1..(k - 1)
        BY <3>4, <3>7
      <4>2. PICK a \in 1..Len(p) : p[a] = q[j]
        BY <3>1, <3>5, <4>1
      <4> QED BY <3>2, <4>2
    <3> QED BY <3>6, <3>7
  <2>7. IsKept(q, i, k, r, d)
    BY <2>2, <2>3, <2>4, <2>5, <2>6 DEF IsKept
  <2> QED BY <1>3, <2>7 DEF Keep, r
<1> QED BY <1>2, <1>3

\* CleanupPendingTask keeps tasks of q in their order, each place once, and
\* leaves out none but those whose target is i.
THEOREM CleanupKeeps ==
  ASSUME NEW q \in Seq(Task), NEW i
  PROVE  \E e : IsKept(q, i, Len(q), CleanupPendingTask(q, i), e)
<1> DEFINE keep == CHOOSE f : KeepFrom(q, i, Len(q), f)
<1>1. Len(q) \in Nat
  OBVIOUS
<1>2. KeepFrom(q, i, Len(q), keep)
  BY <1>1, KeepExists
<1>3. CleanupPendingTask(q, i) = keep[Len(q)]
  BY DEF CleanupPendingTask, KeepFrom, Keep
<1> HIDE DEF keep
<1> DEFINE Bad == {n \in Nat : n <= Len(q) /\ ~\E e : IsKept(q, i, n, keep[n], e)}
<1>4. Bad = {}
  <2>1. SUFFICES ASSUME Bad # {} PROVE FALSE
    OBVIOUS
  <2>2. PICK n \in Bad : \A m \in Bad : n <= m
    BY <2>1, LeastNat
  <2>3. CASE n = 0
    <3>1. keep[0] = <<>>
      BY <1>1, <1>2 DEF KeepFrom
    <3>2. IsKept(q, i, 0, <<>>, [a \in 1..0 |-> a])
      BY DEF IsKept
    <3> QED BY <2>3, <3>1, <3>2
  <2>4. CASE n # 0
    <3>1. n \in 1..Len(q) /\ n - 1 \in Nat /\ n - 1 \notin Bad
      BY <1>1, <2>2, <2>4
    <3>2. \E e : IsKept(q, i, n - 1, keep[n - 1], e)
      BY <1>1, <3>1
    <3>3. keep[n] = Keep(q, i, n, keep[n - 1])
      BY <1>1, <1>2, <3>1 DEF KeepFrom
    <3>4. \E e : IsKept(q, i, n, keep[n], e)
      BY <3>1, <3>2, <3>3, KeepStep
    <3> QED BY <3>4
  <2> QED BY <2>3, <2>4
<1> QED BY <1>1, <1>3, <1>4

-----------------------------------------------------------------------------
(***************************************************************************)
(* Types                                                                   *)
(*                                                                         *)
(* The types alone are not inductive: the worker's loops must stop at slots *)
(* that exist, a prompt must not be batched past its end, a thread in a    *)
(* call must still wait for a result, and the ids of a request being made  *)
(* must be consecutive (TypeInv). The steps are first reduced to the       *)
(* critical sections of server_queue and server_response, whose effects    *)
(* are proved once.                                                        *)
(***************************************************************************)

(* The queue and the results *)

\* Every critical section of server_queue keeps the types of the queue.
LEMMA QueueTypeSteps ==
  ASSUME QueueTypeOK
  PROVE  /\ UNCHANGED queueVars => QueueTypeOK'
         /\ \A n \in Nat : GetNewIds(n) => QueueTypeOK'
         /\ \A tasks \in Seq(Task) : PostBack(tasks) => QueueTypeOK'
         /\ \A i \in TaskIds : PostCancel(i) => QueueTypeOK'
         /\ \A task \in Task : Defer(task) => QueueTypeOK'
         /\ PopDeferredTask \/ Terminate \/ StartLoop \/ TakeTask => QueueTypeOK'
<1>1. UNCHANGED queueVars => QueueTypeOK'
  BY DEF QueueTypeOK, queueVars
<1>2. ASSUME NEW n \in Nat, GetNewIds(n) PROVE QueueTypeOK'
  BY <1>2, MaxTasksAssumption DEF QueueTypeOK, GetNewIds
<1>3. ASSUME NEW tasks \in Seq(Task), PostBack(tasks) PROVE QueueTypeOK'
  BY <1>3 DEF QueueTypeOK, PostBack
<1>4. ASSUME NEW i \in TaskIds, PostCancel(i) PROVE QueueTypeOK'
  <2>1. Cancel(i) \in Task /\ <<Cancel(i)>> \in Seq(Task)
    BY DEF Cancel, Task, NoRequest, Request, NoTask
  <2>2. /\ CleanupPendingTask(queue_tasks, i) \in Seq(Task)
        /\ CleanupPendingTask(queue_tasks_deferred, i) \in Seq(Task)
    BY CleanupKeeps DEF QueueTypeOK, IsKept
  <2> QED BY <1>4, <2>1, <2>2 DEF QueueTypeOK, PostCancel
<1>5. ASSUME NEW task \in Task, Defer(task) PROVE QueueTypeOK'
  BY <1>5 DEF QueueTypeOK, Defer
<1>6. ASSUME PopDeferredTask PROVE QueueTypeOK'
  <2>1. CASE queue_tasks_deferred = <<>>
    BY <1>6, <2>1 DEF QueueTypeOK, PopDeferredTask
  <2>2. CASE queue_tasks_deferred # <<>>
    <3>1. /\ Head(queue_tasks_deferred) \in Task
          /\ Tail(queue_tasks_deferred) \in Seq(Task)
      BY <2>2, HeadTailProperties DEF QueueTypeOK
    <3>2. Append(queue_tasks, Head(queue_tasks_deferred)) \in Seq(Task)
      BY <3>1 DEF QueueTypeOK
    <3> QED BY <1>6, <2>2, <3>1, <3>2 DEF QueueTypeOK, PopDeferredTask
  <2> QED BY <2>1, <2>2
<1>7. Terminate \/ StartLoop => QueueTypeOK'
  BY DEF QueueTypeOK, Terminate, StartLoop
<1>8. ASSUME TakeTask PROVE QueueTypeOK'
  <2>1. Tail(queue_tasks) \in Seq(Task)
    BY <1>8, HeadTailProperties DEF QueueTypeOK, TakeTask
  <2> QED BY <1>8, <2>1 DEF QueueTypeOK, TakeTask
<1> QED BY <1>1, <1>2, <1>3, <1>4, <1>5, <1>6, <1>7, <1>8

\* Every critical section of server_response keeps the types of the results.
LEMMA ResponseTypeSteps ==
  ASSUME ResponseTypeOK
  PROVE  /\ UNCHANGED responseVars => ResponseTypeOK'
         /\ \A some \in SUBSET TaskIds : AddWaitingTasks(some) => ResponseTypeOK'
         /\ \A i \in TaskIds : RemoveWaitingTaskId(i) => ResponseTypeOK'
         /\ \A i \in TaskIds : \A r : Recv(i, r) => ResponseTypeOK'
         /\ \A i, r : r \in Result /\ Send(i, r) => ResponseTypeOK'
<1>1. UNCHANGED responseVars => ResponseTypeOK'
  BY DEF ResponseTypeOK, responseVars
<1>2. ASSUME NEW some \in SUBSET TaskIds, AddWaitingTasks(some) PROVE ResponseTypeOK'
  BY <1>2 DEF ResponseTypeOK, AddWaitingTasks
<1>3. ASSUME NEW i \in TaskIds, RemoveWaitingTaskId(i) PROVE ResponseTypeOK'
  BY <1>3 DEF ResponseTypeOK, RemoveWaitingTaskId
<1>4. ASSUME NEW i \in TaskIds, NEW r, Recv(i, r) PROVE ResponseTypeOK'
  <2>1. Tail(queue_results[i]) \in Seq(Result)
    BY <1>4 DEF ResponseTypeOK, Recv
  <2> QED BY <1>4, <2>1 DEF ResponseTypeOK, Recv
<1>5. ASSUME NEW i, NEW r \in Result, Send(i, r) PROVE ResponseTypeOK'
  <2>1. CASE i \in waiting_task_ids
    <3>1. Append(queue_results[i], r) \in Seq(Result)
      BY <2>1 DEF ResponseTypeOK
    <3> QED BY <1>5, <2>1, <3>1 DEF ResponseTypeOK, Send
  <2>2. CASE i \notin waiting_task_ids
    BY <1>5, <2>2 DEF ResponseTypeOK, Send
  <2> QED BY <2>1, <2>2
<1> QED BY <1>1, <1>2, <1>3, <1>4, <1>5

\* Every critical section of server_response keeps results under awaited ids:
\* send() stores none for another id, and an id is removed with its results.
LEMMA AwaitedSteps ==
  ASSUME ResponseTypeOK, ResultsAwaited
  PROVE  /\ UNCHANGED responseVars => ResultsAwaited'
         /\ \A some \in SUBSET TaskIds : AddWaitingTasks(some) => ResultsAwaited'
         /\ \A i \in TaskIds : RemoveWaitingTaskId(i) => ResultsAwaited'
         /\ \A i \in TaskIds : \A r : Recv(i, r) => ResultsAwaited'
         /\ \A i, r : Send(i, r) => ResultsAwaited'
<1>1. UNCHANGED responseVars => ResultsAwaited'
  BY DEF ResultsAwaited, responseVars
<1>2. ASSUME NEW some \in SUBSET TaskIds, AddWaitingTasks(some) PROVE ResultsAwaited'
  BY <1>2 DEF ResultsAwaited, AddWaitingTasks
<1>3. ASSUME NEW i \in TaskIds, RemoveWaitingTaskId(i) PROVE ResultsAwaited'
  BY <1>3 DEF ResultsAwaited, ResponseTypeOK, RemoveWaitingTaskId
<1>4. ASSUME NEW i \in TaskIds, NEW r, Recv(i, r) PROVE ResultsAwaited'
  BY <1>4 DEF ResultsAwaited, ResponseTypeOK, Recv
<1>5. ASSUME NEW i, NEW r, Send(i, r) PROVE ResultsAwaited'
  BY <1>5 DEF ResultsAwaited, ResponseTypeOK, Send
<1> QED BY <1>1, <1>2, <1>3, <1>4, <1>5

-----------------------------------------------------------------------------
(* The worker *)

\* The loops that stop at a slot stop at one that exists.
AtASlot == wpc \in {"reply", "scored", "stop"} => at \in Slots
\* No more of a prompt is batched than there is.
PastInPrompt == \A s \in Slots : n_past[s] <= params[s].n_prompt

WorkerTypeInv == WorkerTypeOK /\ AtASlot /\ PastInPrompt

\* The slots are numbered from 1, and a loop may be one past the last.
LEMMA SlotNumbers ==
  /\ 1 \in Slots /\ 1 \in 1..(NSlots + 1)
  /\ \A s \in Slots : s \in 1..(NSlots + 1) /\ s + 1 \in 1..(NSlots + 1) /\ s \in Nat /\ s # 0
  /\ \A s \in 1..(NSlots + 1) : s <= NSlots => s \in Slots
  /\ \A s \in 1..(NSlots + 1) : s..NSlots \subseteq Slots
BY WorkerAssumption DEF Slots

\* NEXT_RESPONSE is a task, and no request is a request.
LEMMA TasksTyped ==
  /\ NextResponse \in Task /\ NoRequest \in Request
BY DEF NextResponse, NoRequest, Task, Request, NoTask

\* Where the worker goes on.
LEMMA GoesOn ==
  ASSUME NEW pc \in Pcs, NEW s \in 1..(NSlots + 1),
         pc \in {"reply", "scored", "stop"} => s \in Slots,
         WorkerAt(pc, s), cur' \in Task, reply' \in Reply
  PROVE  ControlTypeOK' /\ AtASlot'
BY DEF ControlTypeOK, AtASlot, WorkerAt, Slots

\* A step that leaves the slots alone.
LEMMA SlotsUnchanged ==
  ASSUME SlotsTypeOK, PastInPrompt, UNCHANGED slotVars
  PROVE  SlotsTypeOK' /\ PastInPrompt'
BY DEF SlotsTypeOK, PastInPrompt, slotVars

\* A step that leaves the batch alone.
LEMMA BatchUnchanged ==
  ASSUME BatchTypeOK, UNCHANGED batchVars PROVE BatchTypeOK'
BY DEF BatchTypeOK, batchVars

\* A step that does nothing but go on.
LEMMA ProceedType ==
  ASSUME WorkerTypeInv,
         NEW pc \in Pcs \ {"reply", "scored", "stop"}, NEW s \in 1..(NSlots + 1),
         Proceed(pc, s)
  PROVE  WorkerTypeInv'
<1>1. ControlTypeOK' /\ AtASlot'
  BY GoesOn DEF WorkerTypeInv, WorkerTypeOK, ControlTypeOK, Proceed
<1> QED BY <1>1, SlotsUnchanged, BatchUnchanged DEF WorkerTypeInv, WorkerTypeOK, Proceed

\* A slot is released in a loop of update_slots.
LEMMA ReleaseInLoopType ==
  ASSUME WorkerTypeInv, NEW s \in Slots, NEW kind \in {"final", "error"},
         NEW loop \in {"shift", "prompt", "failed", "view"},
         ReleaseInLoop(s, kind, loop)
  PROVE  ControlTypeOK' /\ AtASlot' /\ SlotsTypeOK' /\ PastInPrompt'
<1>1. ControlTypeOK' /\ AtASlot'
  <2>1. cur' \in Task /\ reply' \in Reply
    BY DEF WorkerTypeInv, WorkerTypeOK, ControlTypeOK, ReleaseInLoop, Reply
  <2> QED BY <2>1, GoesOn, SlotNumbers DEF ReleaseInLoop, Pcs
<1>2. SlotsTypeOK' /\ PastInPrompt'
  BY DEF WorkerTypeInv, WorkerTypeOK, SlotsTypeOK, PastInPrompt, ReleaseInLoop, Release, SlotStates
<1> QED BY <1>1, <1>2

\* update_slots returns.
LEMMA EndUpdateType ==
  ASSUME WorkerTypeInv, EndUpdate PROVE WorkerTypeInv'
<1>1. ControlTypeOK' /\ AtASlot'
  BY GoesOn, SlotNumbers DEF WorkerTypeInv, WorkerTypeOK, ControlTypeOK, EndUpdate, Pcs
<1>2. BatchTypeOK'
  BY WorkerAssumption DEF EndUpdate, BatchTypeOK
<1> QED BY <1>1, <1>2, SlotsUnchanged DEF WorkerTypeInv, WorkerTypeOK, EndUpdate

\* The worker's step, one case per action or group of like actions.
LEMMA WorkerTypeSteps ==
  ASSUME QueueTypeOK, WorkerTypeInv, Worker
  PROVE  WorkerTypeInv'
<1> USE DEF WorkerTypeInv, WorkerTypeOK
<1>1. CASE WorkerStart
  <2>1. ControlTypeOK' /\ AtASlot'
    BY <1>1, GoesOn, SlotNumbers DEF WorkerStart, ControlTypeOK, Pcs
  <2> QED BY <1>1, <2>1, SlotsUnchanged, BatchUnchanged DEF WorkerStart
<1>2. CASE WorkerTakesTask
  <2>1. cur' \in Task
    BY <1>2, HeadTailProperties DEF WorkerTakesTask, TakeTask, QueueTypeOK
  <2>2. ControlTypeOK' /\ AtASlot'
    BY <1>2, <2>1, GoesOn, SlotNumbers DEF WorkerTakesTask, ControlTypeOK, Pcs
  <2> QED BY <1>2, <2>2, SlotsUnchanged, BatchUnchanged DEF WorkerTakesTask
<1>3. CASE WorkerDrained \/ WorkerWakes \/ WorkerEnds \/ AllSlotsIdle \/ ContextsFit
           \/ PromptsBatched \/ DecodeSucceeds \/ DecodeFails
  <2>1. \E pc \in Pcs \ {"reply", "scored", "stop"} : Proceed(pc, 1)
    BY <1>3 DEF Pcs, WorkerDrained, WorkerWakes, WorkerEnds, AllSlotsIdle, ContextsFit,
                PromptsBatched, DecodeSucceeds, DecodeFails
  <2> QED BY <2>1, ProceedType, SlotNumbers
<1>4. CASE SampledTokensAdded
  <2>1. \E pc \in {"prompt", "decode"} : Proceed(pc, 1)
    BY <1>4 DEF SampledTokensAdded
  <2> QED BY <2>1, ProceedType, SlotNumbers DEF Pcs
<1>5. ASSUME NEW s \in Slots, BindSlot(s), TaskDone, UNCHANGED batchVars,
             state' = state \/ state' = [state EXCEPT ![s] = "STARTED"]
      PROVE  WorkerTypeInv'
  <2>1. ControlTypeOK' /\ AtASlot'
    BY <1>5, GoesOn, SlotNumbers, TasksTyped DEF TaskDone, ControlTypeOK, Pcs
  <2>2. cur.id \in TaskIds \cup {NoTask} /\ cur.params \in Request
    BY DEF ControlTypeOK, Task
  <2>3. SlotsTypeOK'
    BY <1>5, <2>2 DEF BindSlot, SlotsTypeOK, SlotStates
  <2>4. PastInPrompt'
    <3>1. cur.params.n_prompt \in Nat
      BY <2>2 DEF Request
    <3> QED BY <1>5, <3>1 DEF BindSlot, SlotsTypeOK, PastInPrompt
  <2> QED BY <1>5, <2>1, <2>3, <2>4, BatchUnchanged
<1>6. CASE LaunchSlotWithTask
  BY <1>5, <1>6 DEF LaunchSlotWithTask
<1>7. CASE LaunchFails
  BY <1>5, <1>7 DEF LaunchFails
<1>8. CASE DeferTask \/ ProcessNextResponse \/ ProcessCancel
  <2>1. ControlTypeOK' /\ AtASlot'
    BY <1>8, GoesOn, SlotNumbers, TasksTyped
    DEF DeferTask, ProcessNextResponse, ProcessCancel, TaskDone, ControlTypeOK, Pcs
  <2>2. SlotsTypeOK' /\ PastInPrompt'
    BY <1>8, SlotsUnchanged DEF DeferTask, ProcessNextResponse, ProcessCancel, Release,
                SlotsTypeOK, PastInPrompt, SlotStates, slotVars
  <2> QED BY <1>8, <2>1, <2>2, BatchUnchanged DEF DeferTask, ProcessNextResponse, ProcessCancel
<1>9. CASE PostNextResponse
  <2>1. ControlTypeOK' /\ AtASlot'
    BY <1>9, GoesOn, SlotNumbers DEF PostNextResponse, ControlTypeOK, Pcs
  <2> QED BY <1>9, <2>1, SlotsUnchanged, BatchUnchanged DEF PostNextResponse
<1>10. CASE ContextOverflow
  <2>1. PICK s \in at..NSlots : ReleaseInLoop(s, "error", "shift")
    BY <1>10 DEF ContextOverflow
  <2>2. s \in Slots
    BY <2>1, SlotNumbers DEF ControlTypeOK
  <2> QED BY <1>10, <2>1, <2>2, ReleaseInLoopType, BatchUnchanged DEF ContextOverflow
<1>11. CASE AddSampledToken
  <2>1. PICK s \in at..NSlots : /\ batch' = Append(batch, s)
                                /\ i_batch' = [i_batch EXCEPT ![s] = Len(batch)]
                                /\ JoinBatch(s)
                                /\ WorkerAt("sampled", s + 1)
    BY <1>11 DEF AddSampledToken
  <2>2. s \in Slots
    BY <2>1, SlotNumbers DEF ControlTypeOK
  <2>3. ControlTypeOK' /\ AtASlot'
    BY <1>11, <2>1, <2>2, GoesOn, SlotNumbers DEF AddSampledToken, ControlTypeOK, Pcs
  <2>4. BatchTypeOK'
    BY <1>11, <2>1, <2>2 DEF AddSampledToken, BatchTypeOK, JoinBatch
  <2>5. SlotsTypeOK' /\ PastInPrompt'
    <3>1. Len(batch) \in Nat
      BY DEF BatchTypeOK
    <3> QED BY <1>11, <2>1, <2>2, <3>1 DEF AddSampledToken, SlotsTypeOK, PastInPrompt
  <2> QED BY <2>3, <2>4, <2>5
<1>12. CASE PromptSkip
  <2>1. at \in Slots
    BY <1>12, SlotNumbers DEF PromptSkip, ControlTypeOK
  <2>2. ControlTypeOK' /\ AtASlot'
    BY <1>12, <2>1, GoesOn, SlotNumbers DEF PromptSkip, ControlTypeOK, Pcs
  <2>3. BatchTypeOK'
    BY <1>12, <2>1 DEF PromptSkip, BatchTypeOK, JoinBatch
  <2> QED BY <1>12, <2>2, <2>3, SlotsUnchanged DEF PromptSkip
<1>13. CASE PromptRefused
  <2>1. PICK s \in Slots : JoinBatch(s) /\ ReleaseInLoop(s,
                 IF params[s].n_prompt = 0 THEN "final" ELSE "error", "prompt")
    BY <1>13 DEF PromptRefused
  <2>2. ControlTypeOK' /\ AtASlot' /\ SlotsTypeOK' /\ PastInPrompt'
    BY <2>1, ReleaseInLoopType
  <2>3. BatchTypeOK'
    BY <1>13, <2>1 DEF PromptRefused, BatchTypeOK, JoinBatch
  <2> QED BY <2>2, <2>3
<1>14. CASE PromptWaits
  <2>1. PICK s \in Slots : /\ at = s /\ JoinBatch(s)
                           /\ state' = [state EXCEPT ![s] = "PROCESSING_PROMPT"]
    BY <1>14 DEF PromptWaits, AtAccepted, AtPromptOf
  <2>2. ControlTypeOK' /\ AtASlot'
    BY <1>14, <2>1, GoesOn, SlotNumbers DEF PromptWaits, ControlTypeOK, Pcs
  <2>3. BatchTypeOK'
    BY <1>14, <2>1 DEF PromptWaits, BatchTypeOK, JoinBatch
  <2>4. SlotsTypeOK' /\ PastInPrompt'
    BY <1>14, <2>1 DEF PromptWaits, SlotsTypeOK, PastInPrompt, SlotStates
  <2> QED BY <2>2, <2>3, <2>4
<1>15. CASE PromptFill
  <2> DEFINE room == IF Len(batch) < NBatch THEN NBatch - Len(batch) ELSE 0
             rest(s) == params[s].n_prompt - n_past[s]
             n(s)    == IF rest(s) < room THEN rest(s) ELSE room
             done(s) == n(s) = rest(s)
  <2>1. PICK s \in Slots :
           /\ at = s /\ JoinBatch(s)
           /\ batch' = batch \o [k \in 1..n(s) |-> s]
           /\ n_past' = [n_past EXCEPT ![s] = @ + n(s)]
           /\ state' = [state EXCEPT ![s] = IF done(s) THEN "DONE_PROMPT"
                                            ELSE "PROCESSING_PROMPT"]
           /\ n_decoded' = [n_decoded EXCEPT ![s] = IF done(s) THEN 0 ELSE @]
           /\ i_batch' = [i_batch EXCEPT ![s] = IF done(s) THEN LastOfPrompt(n(s)) ELSE @]
           /\ IF Len(batch) + n(s) >= NBatch THEN WorkerAt("decode", 1)
              ELSE WorkerAt("prompt", s + 1)
    BY <1>15 DEF PromptFill, AtAccepted, AtPromptOf
  <2>2. Len(batch) \in Nat /\ room \in Nat
    BY WorkerAssumption DEF BatchTypeOK
  <2>3. params[s].n_prompt \in Nat /\ n_past[s] \in Nat /\ n_past[s] <= params[s].n_prompt
    BY DEF SlotsTypeOK, PastInPrompt, Request
  <2>4. n(s) \in Nat /\ n(s) <= rest(s)
    BY <2>2, <2>3
  <2>5. ControlTypeOK' /\ AtASlot'
    BY <1>15, <2>1, GoesOn, SlotNumbers DEF PromptFill, ControlTypeOK, Pcs
  <2>6. BatchTypeOK'
    <3> HIDE DEF n
    <3>1. [k \in 1..n(s) |-> s] \in Seq(Slots)
      BY <2>4
    <3>2. batch \o [k \in 1..n(s) |-> s] \in Seq(Slots)
      BY <3>1, ConcatProperties DEF BatchTypeOK
    <3>3. slot_batched' \in Slots \cup {0}
      BY <2>1 DEF JoinBatch, BatchTypeOK
    <3> QED BY <1>15, <2>1, <3>2, <3>3 DEF PromptFill, BatchTypeOK
  <2>7. LastOfPrompt(n(s)) \in Nat \cup {-1}
    BY <2>2, <2>4 DEF LastOfPrompt
  <2>8. n_past[s] + n(s) \in Nat /\ n_past[s] + n(s) <= params[s].n_prompt
    BY <2>3, <2>4
  <2> HIDE DEF n
  <2>9. SlotsTypeOK' /\ PastInPrompt'
    BY <1>15, <2>1, <2>7, <2>8 DEF PromptFill, SlotsTypeOK, PastInPrompt, SlotStates
  <2> QED BY <2>5, <2>6, <2>9
<1>16. CASE NoTokens \/ FailedDone \/ LastView
  BY <1>16, EndUpdateType DEF NoTokens, FailedDone, LastView
<1>17. CASE DecodeHalves
  <2>1. ControlTypeOK' /\ AtASlot'
    BY <1>17, GoesOn, SlotNumbers DEF DecodeHalves, ControlTypeOK, Pcs
  <2>2. BatchTypeOK'
    BY <1>17 DEF DecodeHalves, BatchTypeOK
  <2> QED BY <1>17, <2>1, <2>2, SlotsUnchanged DEF DecodeHalves
<1>18. CASE ReleaseFailed
  <2>1. at \in Slots
    BY <1>18, SlotNumbers DEF ReleaseFailed, ControlTypeOK
  <2> QED BY <1>18, <2>1, ReleaseInLoopType, BatchUnchanged DEF ReleaseFailed
<1>19. CASE SendScored
  <2>1. PICK s \in Slots : WorkerAt("scored", s)
    BY <1>19 DEF SendScored
  <2>2. ControlTypeOK' /\ AtASlot'
    BY <1>19, <2>1, GoesOn, SlotNumbers DEF SendScored, ControlTypeOK, Pcs
  <2> QED BY <1>19, <2>2, SlotsUnchanged, BatchUnchanged DEF SendScored
<1>20. CASE ReleaseScored
  <2>1. at \in Slots
    BY <1>20 DEF ReleaseScored, AtASlot
  <2>2. ControlTypeOK' /\ AtASlot'
    BY <1>20, <2>1, GoesOn, SlotNumbers DEF ReleaseScored, ControlTypeOK, Pcs
  <2>3. SlotsTypeOK' /\ PastInPrompt'
    BY <1>20, <2>1 DEF ReleaseScored, Release, SlotsTypeOK, PastInPrompt, SlotStates
  <2> QED BY <1>20, <2>2, <2>3, BatchUnchanged DEF ReleaseScored
<1>21. ASSUME NEW streamed \in BOOLEAN, NEW goesOn \in BOOLEAN,
              SampleToken(streamed, goesOn)
       PROVE  WorkerTypeInv'
  <2>1. PICK s \in Slots :
           /\ state' = [state EXCEPT ![s] = "GENERATING"]
           /\ i_batch' = [i_batch EXCEPT ![s] = -1]
           /\ n_decoded' = [n_decoded EXCEPT ![s] = @ + 1]
           /\ IF goesOn THEN WorkerAt("view", s + 1) ELSE WorkerAt("stop", s)
    BY <1>21 DEF SampleToken
  <2>2. ControlTypeOK' /\ AtASlot'
    BY <1>21, <2>1, GoesOn, SlotNumbers DEF SampleToken, ControlTypeOK, Pcs
  <2>3. SlotsTypeOK' /\ PastInPrompt'
    BY <1>21, <2>1 DEF SampleToken, SlotsTypeOK, PastInPrompt, SlotStates
  <2> QED BY <1>21, <2>2, <2>3, BatchUnchanged DEF SampleToken
<1>22. CASE ReleaseStopped
  <2>1. at \in Slots
    BY <1>22 DEF ReleaseStopped, AtASlot
  <2> QED BY <1>22, <2>1, ReleaseInLoopType, BatchUnchanged DEF ReleaseStopped
<1>23. CASE NextView
  <2>1. ControlTypeOK' /\ AtASlot'
    BY <1>23, GoesOn, SlotNumbers DEF NextView, ControlTypeOK, Pcs
  <2>2. BatchTypeOK'
    BY <1>23 DEF NextView, BatchTypeOK
  <2> QED BY <1>23, <2>1, <2>2, SlotsUnchanged DEF NextView
<1>24. CASE SendReply
  <2>1. at \in Slots
    BY <1>24 DEF SendReply, AtASlot
  <2>2. reply' \in Reply /\ reply.loop \in Pcs \ {"reply", "scored", "stop"}
    BY <1>24 DEF SendReply, NoReply, Reply, ControlTypeOK, Pcs
  <2>3. ControlTypeOK' /\ AtASlot'
    BY <1>24, <2>1, <2>2, GoesOn, SlotNumbers DEF SendReply, ControlTypeOK
  <2> QED BY <1>24, <2>3, SlotsUnchanged, BatchUnchanged DEF SendReply
<1> QED
  BY <1>1, <1>2, <1>3, <1>4, <1>6, <1>7, <1>8, <1>9, <1>10, <1>11, <1>12, <1>13,
     <1>14, <1>15, <1>16, <1>17, <1>18, <1>19, <1>20, <1>21, <1>22, <1>23, <1>24
  DEF Worker

\* What a step of the worker does to the queue.
LEMMA WorkerQueueSteps ==
  ASSUME WorkerTypeInv, Worker
  PROVE  \/ UNCHANGED queueVars
         \/ PostBack(<<NextResponse>>)
         \/ Defer(cur)
         \/ PopDeferredTask
         \/ StartLoop
         \/ TakeTask
<1>1. CASE WorkerStart \/ WorkerTakesTask \/ DeferTask \/ PostNextResponse
  BY <1>1 DEF WorkerStart, WorkerTakesTask, DeferTask, PostNextResponse
<1>2. CASE ProcessCancel \/ ContextOverflow \/ PromptRefused \/ ReleaseFailed
           \/ ReleaseScored \/ ReleaseStopped
  BY <1>2 DEF ProcessCancel, ContextOverflow, PromptRefused, ReleaseFailed,
              ReleaseScored, ReleaseStopped, ReleaseInLoop, Release
<1>3. CASE \E streamed, goesOn \in BOOLEAN : SampleToken(streamed, goesOn)
  BY <1>3 DEF SampleToken
<1>4. CASE WorkerDrained \/ WorkerWakes \/ WorkerEnds \/ AllSlotsIdle \/ ContextsFit
           \/ PromptsBatched \/ DecodeSucceeds \/ DecodeFails \/ SampledTokensAdded
           \/ NoTokens \/ FailedDone \/ LastView
  BY <1>4 DEF WorkerDrained, WorkerWakes, WorkerEnds, AllSlotsIdle, ContextsFit,
              PromptsBatched, DecodeSucceeds, DecodeFails, SampledTokensAdded,
              NoTokens, FailedDone, LastView, EndUpdate, Proceed
<1>5. CASE LaunchSlotWithTask \/ LaunchFails \/ ProcessNextResponse \/ AddSampledToken
           \/ PromptSkip \/ PromptWaits \/ PromptFill \/ DecodeHalves \/ SendScored
           \/ NextView \/ SendReply
  BY <1>5 DEF LaunchSlotWithTask, LaunchFails, ProcessNextResponse, AddSampledToken,
              PromptSkip, PromptWaits, PromptFill, DecodeHalves, SendScored, NextView,
              SendReply
<1> QED BY <1>1, <1>2, <1>3, <1>4, <1>5 DEF Worker

\* What a step of the worker does to the results.
LEMMA WorkerResponseSteps ==
  ASSUME WorkerTypeInv, Worker
  PROVE  \/ UNCHANGED responseVars
         \/ \E i : \E r \in Result : Send(i, r)
<1> USE DEF WorkerTypeInv, WorkerTypeOK
<1>1. CASE LaunchFails
  BY <1>1 DEF LaunchFails, Result
<1>2. CASE SendReply
  <2>1. at \in Slots
    BY <1>2 DEF SendReply, AtASlot
  <2>2. [kind |-> reply.kind, n |-> IF reply.kind = "error" THEN 0 ELSE n_decoded[at]] \in Result
    BY <2>1 DEF ControlTypeOK, Reply, SlotsTypeOK, Result
  <2> QED BY <1>2, <2>2 DEF SendReply, SendFor
<1>3. CASE SendScored
  BY <1>3 DEF SendScored, SendFor, Result
<1>4. ASSUME NEW streamed \in BOOLEAN, NEW goesOn \in BOOLEAN,
             SampleToken(streamed, goesOn)
      PROVE  \/ UNCHANGED responseVars
             \/ \E i : \E r \in Result : Send(i, r)
  <2>1. PICK s \in Slots : IF streamed THEN SendPartial(s) ELSE UNCHANGED responseVars
    BY <1>4 DEF SampleToken
  <2>2. [kind |-> "partial", n |-> n_decoded[s] + 1] \in Result
    BY DEF SlotsTypeOK, Result
  <2> QED BY <2>1, <2>2 DEF SendPartial, SendFor
<1>5. CASE WorkerStart \/ WorkerTakesTask \/ DeferTask \/ PostNextResponse
           \/ ProcessCancel \/ ContextOverflow \/ PromptRefused \/ ReleaseFailed
           \/ ReleaseScored \/ ReleaseStopped
  BY <1>5 DEF WorkerStart, WorkerTakesTask, DeferTask, PostNextResponse, ProcessCancel,
              ContextOverflow, PromptRefused, ReleaseFailed, ReleaseScored,
              ReleaseStopped, ReleaseInLoop
<1>6. CASE WorkerDrained \/ WorkerWakes \/ WorkerEnds \/ AllSlotsIdle \/ ContextsFit
           \/ PromptsBatched \/ DecodeSucceeds \/ DecodeFails \/ SampledTokensAdded
           \/ NoTokens \/ FailedDone \/ LastView
  BY <1>6 DEF WorkerDrained, WorkerWakes, WorkerEnds, AllSlotsIdle, ContextsFit,
              PromptsBatched, DecodeSucceeds, DecodeFails, SampledTokensAdded,
              NoTokens, FailedDone, LastView, EndUpdate, Proceed
<1>7. CASE LaunchSlotWithTask \/ ProcessNextResponse \/ AddSampledToken
           \/ PromptSkip \/ PromptWaits \/ PromptFill \/ DecodeHalves \/ NextView
  BY <1>7 DEF LaunchSlotWithTask, ProcessNextResponse, AddSampledToken,
              PromptSkip, PromptWaits, PromptFill, DecodeHalves, NextView
<1> QED BY <1>1, <1>2, <1>3, <1>4, <1>5, <1>6, <1>7 DEF Worker

-----------------------------------------------------------------------------
(* The threads *)

\* A thread in a call waits for at least one result.
Waiting == \A t \in Threads : left[t] = 0 => cpc[t] \in {"idle", "closed"}
\* The ids of a request that is being made are consecutive.
Numbered ==
    \A t \in Threads : cpc[t] \in {"register", "post"} =>
        \E first \in Nat : ids[t] = first..(first + call[t].docs - 1)

ClientTypeInv == ClientTypeOK /\ Waiting /\ Numbered

\* The calls of a thread, one case per action.
LEMMA ClientTypeSteps ==
  ASSUME QueueTypeOK, ResponseTypeOK, ClientTypeInv,
         NEW t \in Threads, Native(t) \/ Caller(t)
  PROVE  ClientTypeInv'
<1> USE DEF ClientTypeInv
\* A step that changes the place of t only, outside of the making of requests.
<1>1. ASSUME NEW pc \in ClientPcs \ {"idle", "register", "closed"}, Goto(t, pc), UNCHANGED <<call, ids, left>>,
             cpc[t] # "idle", cpc[t] # "closed", pc = "post" => cpc[t] = "register",
             got' \in [TaskIds -> Output]
      PROVE  ClientTypeInv'
  BY <1>1 DEF ClientTypeOK, Waiting, Numbered, Goto
<1>2. ASSUME Return(t),
             got' \in [TaskIds -> Output]
      PROVE  ClientTypeInv'
  <2>1. ClientTypeOK'
    BY <1>2, TasksTyped DEF ClientTypeOK, Return, Goto, ClientPcs
  <2> QED BY <1>2, <2>1 DEF ClientTypeOK, Waiting, Numbered, Return, Goto
\* The last output the caller was given.
<1>3. ASSUME NEW i \in ids[t], NEW kind \in {"partial", "final", "scored", "error"},
             Take(t, i, kind)
      PROVE  got' \in [TaskIds -> Output]
  <2>1. i \in TaskIds
    BY DEF ClientTypeOK
  <2>2. Head(queue_results[i]) \in Result
    BY <1>3, <2>1 DEF ResponseTypeOK, Take
  <2>3. [times |-> got[i].times + 1, n |-> Head(queue_results[i]).n,
         end |-> IF kind = "partial" THEN "none" ELSE kind] \in Output
    BY <2>1, <2>2 DEF Result, Output, ClientTypeOK
  <2> QED BY <1>3, <2>1, <2>3 DEF Take, ClientTypeOK
<1>4. ASSUME NEW r \in Requests, Begin(t, r) PROVE ClientTypeInv'
  <2>1. r \in Request /\ r.docs \in Nat \ {0}
    BY NativeCallsAssumption DEF Request
  <2>2. id \in Nat /\ id..(id + r.docs - 1) \subseteq TaskIds
    BY <1>4, <2>1, MaxTasksAssumption DEF Begin, GetNewIds, QueueTypeOK, TaskIds
  <2>3. ClientTypeOK'
    BY <1>4, <2>1, <2>2 DEF Begin, ClientTypeOK, Goto, ClientPcs
  <2>4. Waiting'
    BY <1>4, <2>1 DEF Begin, ClientTypeOK, Waiting, Goto
  <2>5. Numbered'
    BY <1>4, <2>1, <2>2 DEF Begin, ClientTypeOK, Numbered, Goto
  <2> QED BY <2>3, <2>4, <2>5
<1>5. CASE Reject(t) \/ Abandon(t)
  BY <1>2, <1>5 DEF Reject, Abandon, ClientTypeOK
<1>6. CASE Register(t)
  BY <1>1, <1>6 DEF Register, ClientPcs, ClientTypeOK
<1>7. CASE PostRequest(t)
  BY <1>1, <1>7 DEF PostRequest, ClientPcs, ClientTypeOK
<1>8. CASE ReceiveError(t) \/ ReceiveFinal(t) \/ ReceivePartial(t)
  <2>1. PICK i \in ids[t], kind \in {"error", "final", "partial"} : Take(t, i, kind)
    BY <1>8 DEF ReceiveError, ReceiveFinal, ReceivePartial
  <2>2. got' \in [TaskIds -> Output]
    BY <2>1, <1>3
  <2>3. cpc[t] = "recv"
    BY <2>1 DEF Take
  <2> QED BY <1>1, <1>8, <2>2, <2>3
          DEF ReceiveError, ReceiveFinal, ReceivePartial, ClientPcs
<1>9. CASE ReceiveScored(t)
  <2>1. PICK i \in ids[t] : Take(t, i, "scored")
    BY <1>9 DEF ReceiveScored
  <2>2. got' \in [TaskIds -> Output]
    BY <2>1, <1>3
  <2>3. CASE left[t] = 1
    BY <1>2, <1>9, <2>2, <2>3 DEF ReceiveScored
  <2>4. CASE left[t] # 1
    <3>1. cpc[t] = "recv"
      BY <2>1 DEF Take
    <3>2. left[t] \in Nat /\ left[t] # 0
      BY <3>1 DEF ClientTypeOK, Waiting
    <3>3. left[t] - 1 \in Nat /\ left[t] - 1 # 0
      BY <2>4, <3>2
    <3> QED BY <1>9, <2>2, <2>4, <3>1, <3>3 DEF ReceiveScored, ClientTypeOK, Waiting, Numbered
  <2> QED BY <2>3, <2>4
<1>10. CASE RemoveAfterError(t)
  <2>1. PICK i \in ids[t] :
          IF call[t].stream THEN Goto(t, "user") /\ UNCHANGED <<call, ids, left>>
             ELSE IF ids[t] = {i} THEN Return(t)
             ELSE /\ ids' = [ids EXCEPT ![t] = @ \ {i}]
                  /\ UNCHANGED <<cpc, call, left>>
    BY <1>10 DEF RemoveAfterError
  <2>2. cpc[t] = "removeAll" /\ got' = got
    BY <1>10 DEF RemoveAfterError
  <2>3. CASE call[t].stream
    BY <1>1, <2>1, <2>2, <2>3 DEF ClientTypeOK, ClientPcs
  <2>4. CASE ~call[t].stream /\ ids[t] = {i}
    BY <1>2, <2>1, <2>2, <2>4 DEF ClientTypeOK
  <2>5. CASE ~call[t].stream /\ ids[t] # {i}
    BY <2>1, <2>2, <2>5 DEF ClientTypeOK, Waiting, Numbered
  <2> QED BY <2>3, <2>4, <2>5
<1>11. CASE RemoveAfterFinal(t)
  <2>1. CASE call[t].stream
    BY <1>1, <1>11, <2>1 DEF RemoveAfterFinal, ClientTypeOK, ClientPcs
  <2>2. CASE ~call[t].stream
    BY <1>2, <1>11, <2>2 DEF RemoveAfterFinal, ClientTypeOK
  <2> QED BY <2>1, <2>2
<1>12. CASE ReleaseTask(t) \/ CancelRemoveAgain(t)
  BY <1>1, <1>12 DEF ReleaseTask, CancelRemoveAgain, ClientTypeOK, ClientPcs
<1>13. CASE NextOutput(t) \/ CancelRemove(t) \/ CancelPost(t)
  BY <1>1, <1>13 DEF NextOutput, CancelRemove, CancelPost, ClientTypeOK, ClientPcs
<1>14. CASE Close(t)
  BY <1>14 DEF Close, Goto, ClientTypeOK, ClientPcs, Waiting, Numbered
<1> QED BY <1>4, <1>5, <1>6, <1>7, <1>8, <1>9, <1>10, <1>11, <1>12, <1>13, <1>14
        DEF Native, Caller

\* What the step of a thread does to the queue.
LEMMA ClientQueueSteps ==
  ASSUME ClientTypeInv, NEW t \in Threads, Native(t) \/ Caller(t)
  PROVE  \/ UNCHANGED queueVars
         \/ \E n \in Nat : GetNewIds(n)
         \/ \E tasks \in Seq(Task) : PostBack(tasks)
         \/ \E i \in TaskIds : PostCancel(i)
         \/ Terminate
<1> USE DEF ClientTypeInv
<1>1. ASSUME NEW r \in Requests, Begin(t, r) PROVE \E n \in Nat : GetNewIds(n)
  BY <1>1, NativeCallsAssumption DEF Begin, Request
<1>2. CASE PostRequest(t)
  <2>1. PICK low \in ids[t] : /\ \A i \in ids[t] : low <= i
                              /\ PostBack(TasksOf(low, call[t]))
    BY <1>2 DEF PostRequest
  <2>2. PICK first \in Nat : ids[t] = first..(first + call[t].docs - 1)
    BY <1>2 DEF PostRequest, Numbered
  <2>3. call[t] \in Request /\ call[t].docs \in Nat \ {0} /\ ids[t] \subseteq TaskIds
    BY DEF ClientTypeOK, Request
  <2>4. low = first
    <3>1. first \in ids[t]
      BY <2>2, <2>3
    <3> QED BY <2>1, <2>2, <3>1
  <2>5. \A k \in 1..call[t].docs : Inference(low + k - 1, call[t]) \in Task
    <3>1. TAKE k \in 1..call[t].docs
    <3>2. low + k - 1 \in TaskIds
      BY <2>2, <2>3, <2>4
    <3> QED BY <2>3, <3>2 DEF Inference, Task
  <2>6. TasksOf(low, call[t]) \in Seq(Task)
    BY <2>3, <2>5 DEF TasksOf
  <2> QED BY <2>1, <2>6
<1>3. CASE CancelPost(t)
  BY <1>3 DEF CancelPost, ClientTypeOK
<1>4. CASE Close(t)
  BY <1>4 DEF Close
<1>5. CASE ReceiveError(t) \/ ReceiveFinal(t) \/ ReceivePartial(t) \/ ReceiveScored(t)
  BY <1>5 DEF ReceiveError, ReceiveFinal, ReceivePartial, ReceiveScored, Take
<1>6. CASE Reject(t) \/ Register(t) \/ RemoveAfterError(t) \/ RemoveAfterFinal(t)
           \/ ReleaseTask(t) \/ CancelRemoveAgain(t) \/ NextOutput(t) \/ Abandon(t)
           \/ CancelRemove(t)
  BY <1>6 DEF Reject, Register, RemoveAfterError, RemoveAfterFinal, ReleaseTask,
              CancelRemoveAgain, NextOutput, Abandon, CancelRemove
<1> QED BY <1>1, <1>2, <1>3, <1>4, <1>5, <1>6 DEF Native, Caller

\* What the step of a thread does to the results.
LEMMA ClientResponseSteps ==
  ASSUME ClientTypeInv, NEW t \in Threads, Native(t) \/ Caller(t)
  PROVE  \/ UNCHANGED responseVars
         \/ \E some \in SUBSET TaskIds : AddWaitingTasks(some)
         \/ \E i \in TaskIds : RemoveWaitingTaskId(i)
         \/ \E i \in TaskIds : \E r : Recv(i, r)
<1> USE DEF ClientTypeInv
<1>1. ids[t] \subseteq TaskIds
  BY DEF ClientTypeOK
<1>2. CASE Register(t)
  BY <1>1, <1>2 DEF Register
<1>3. CASE ReceiveError(t) \/ ReceiveFinal(t) \/ ReceivePartial(t) \/ ReceiveScored(t)
  BY <1>1, <1>3 DEF ReceiveError, ReceiveFinal, ReceivePartial, ReceiveScored, Take
<1>4. CASE RemoveAfterError(t) \/ RemoveAfterFinal(t) \/ ReleaseTask(t)
           \/ CancelRemove(t) \/ CancelRemoveAgain(t)
  BY <1>1, <1>4 DEF RemoveAfterError, RemoveAfterFinal, ReleaseTask, CancelRemove, CancelRemoveAgain
<1>5. CASE \/ \E r \in Requests : Begin(t, r)
           \/ Reject(t) \/ PostRequest(t) \/ NextOutput(t) \/ Abandon(t)
           \/ CancelPost(t) \/ Close(t)
  BY <1>5 DEF Begin, Reject, PostRequest, NextOutput, Abandon, CancelPost, Close
<1> QED BY <1>1, <1>2, <1>3, <1>4, <1>5 DEF Native, Caller

-----------------------------------------------------------------------------
(* The system *)

\* The inductive invariant of the whole system.
TypeInv == QueueTypeOK /\ ResponseTypeOK /\ WorkerTypeInv /\ ClientTypeInv

\* The threads start with nothing asked for and the worker before its loop.
LEMMA InitTypeInv == Init => TypeInv
<1> SUFFICES ASSUME Init PROVE TypeInv
  OBVIOUS
<1> USE DEF Init
<1>1. QueueTypeOK
  BY MaxTasksAssumption DEF QueueInit, QueueTypeOK
<1>2. ResponseTypeOK
  BY DEF ResponseInit, ResponseTypeOK
<1>3. WorkerTypeInv
  BY WorkerAssumption, TasksTyped, SlotNumbers
  DEF WorkerInit, WorkerTypeInv, WorkerTypeOK, SlotsTypeOK, BatchTypeOK, ControlTypeOK,
      AtASlot, PastInPrompt, SlotStates, Pcs, Reply, NoReply, NoRequest
<1>4. ClientTypeInv
  BY TasksTyped
  DEF ClientInit, ClientTypeInv, ClientTypeOK, Output, Waiting, Numbered, ClientPcs
<1> QED BY <1>1, <1>2, <1>3, <1>4 DEF TypeInv

\* Every step of the worker or of a thread keeps the types and bounds.
LEMMA NextTypeInv == TypeInv /\ [Next]_vars => TypeInv'
<1> SUFFICES ASSUME TypeInv, [Next]_vars PROVE TypeInv'
  OBVIOUS
<1> USE DEF TypeInv
<1>1. CASE Worker /\ UNCHANGED clientVars
  <2>1. QueueTypeOK'
    <3>1. <<NextResponse>> \in Seq(Task) /\ cur \in Task
      BY TasksTyped DEF WorkerTypeInv, WorkerTypeOK, ControlTypeOK
    <3> QED BY <1>1, <3>1, WorkerQueueSteps, QueueTypeSteps
  <2>2. ResponseTypeOK'
    BY <1>1, WorkerResponseSteps, ResponseTypeSteps
  <2>3. WorkerTypeInv'
    BY <1>1, WorkerTypeSteps
  <2>4. ClientTypeInv'
    BY <1>1 DEF ClientTypeInv, ClientTypeOK, Waiting, Numbered, clientVars
  <2> QED BY <2>1, <2>2, <2>3, <2>4
<1>2. ASSUME NEW t \in Threads, Native(t) \/ Caller(t), UNCHANGED workerVars
      PROVE  TypeInv'
  <2>1. QueueTypeOK'
    BY <1>2, ClientQueueSteps, QueueTypeSteps
  <2>2. ResponseTypeOK'
    BY <1>2, ClientResponseSteps, ResponseTypeSteps
  <2>3. WorkerTypeInv'
    BY <1>2 DEF workerVars, slotVars, batchVars, WorkerTypeInv, WorkerTypeOK, SlotsTypeOK,
                BatchTypeOK, ControlTypeOK, AtASlot, PastInPrompt
  <2>4. ClientTypeInv'
    BY <1>2, ClientTypeSteps
  <2> QED BY <2>1, <2>2, <2>3, <2>4
<1>3. CASE UNCHANGED vars
  BY <1>3 DEF vars, queueVars, responseVars, workerVars, clientVars, slotVars, batchVars,
              QueueTypeOK, ResponseTypeOK, WorkerTypeInv, WorkerTypeOK, SlotsTypeOK,
              BatchTypeOK, ControlTypeOK, AtASlot, PastInPrompt, ClientTypeInv,
              ClientTypeOK, Waiting, Numbered
<1> QED BY <1>1, <1>2, <1>3 DEF Next, Finished

\* The strengthened type invariant holds in every state of every instance.
THEOREM TypeInvHolds == Spec => []TypeInv
BY InitTypeInv, NextTypeInv, PTL DEF Spec

\* The variables keep their types, for any number of threads, slots and
\* requests: in particular no step of update_slots indexes past the slots.
THEOREM TypeCorrect == Spec => []TypeOK
<1>1. TypeInv => TypeOK
  BY DEF TypeInv, TypeOK, WorkerTypeInv, ClientTypeInv
<1> QED BY <1>1, TypeInvHolds, PTL

\* Results are stored under awaited ids only, whoever cancels, fails or
\* returns meanwhile: send(), recv() and remove_waiting_task_id.
THEOREM ResultsAreAwaited == Spec => []ResultsAwaited
<1>1. Init => ResultsAwaited
  BY DEF Init, ResponseInit, ResultsAwaited
<1>2. TypeInv /\ ResultsAwaited /\ [Next]_vars => ResultsAwaited'
  <2> SUFFICES ASSUME TypeInv, ResultsAwaited, [Next]_vars PROVE ResultsAwaited'
    OBVIOUS
  <2> USE DEF TypeInv
  <2>1. CASE Worker /\ UNCHANGED clientVars
    BY <2>1, WorkerResponseSteps, AwaitedSteps
  <2>2. ASSUME NEW t \in Threads, Native(t) \/ Caller(t) PROVE ResultsAwaited'
    BY <2>2, ClientResponseSteps, AwaitedSteps
  <2>3. CASE UNCHANGED vars
    BY <2>3, AwaitedSteps DEF vars
  <2> QED BY <2>1, <2>2, <2>3 DEF Next, Finished
<1> QED BY <1>1, <1>2, TypeInvHolds, PTL DEF Spec

-----------------------------------------------------------------------------
(***************************************************************************)
(* One home for each task                                                  *)
(*                                                                         *)
(* A task is in the queue, deferred, in the worker's hands or in one slot  *)
(* (OneHome). The induction needs that the ids in use were drawn from the  *)
(* counter by one thread each, that a request still being made is nowhere  *)
(* yet, and that only inference tasks, which have an id, reach a slot      *)
(* (HomeInv).                                                              *)
(***************************************************************************)

(* The operations on deques, seen through the ids they hold *)

\* Every inference task has an id.
HasIds(q) == \A k \in DOMAIN q : q[k].type = "INFERENCE" => q[k].id # NoTask

\* post() of one task, defer() and pop_deferred_task append it.
LEMMA IdsOfAppend ==
  ASSUME NEW q \in Seq(Task), NEW x \in Task
  PROVE  /\ IdsIn(Append(q, x)) = IdsIn(q) \cup ({x.id} \ {NoTask})
         /\ NoDuplicate(q) /\ x.id \notin IdsIn(q) => NoDuplicate(Append(q, x))
         /\ HasIds(q) /\ (x.type = "INFERENCE" => x.id # NoTask) => HasIds(Append(q, x))
<1> DEFINE r == Append(q, x)
<1>1. /\ Len(q) \in Nat /\ DOMAIN q = 1..Len(q) /\ DOMAIN r = 1..(Len(q) + 1)
      /\ r[Len(q) + 1] = x /\ \A k \in 1..Len(q) : r[k] = q[k]
  OBVIOUS
<1> HIDE DEF r
<1>2. IdsIn(r) = IdsIn(q) \cup ({x.id} \ {NoTask})
  BY <1>1 DEF IdsIn
<1>3. NoDuplicate(q) /\ x.id \notin IdsIn(q) => NoDuplicate(r)
  BY <1>1 DEF IdsIn, NoDuplicate
<1>4. HasIds(q) /\ (x.type = "INFERENCE" => x.id # NoTask) => HasIds(r)
  BY <1>1 DEF HasIds
<1> QED BY <1>2, <1>3, <1>4 DEF r

\* The worker and pop_deferred_task take the head.
LEMMA IdsOfTail ==
  ASSUME NEW q \in Seq(Task), q # <<>>
  PROVE  /\ Head(q) \in Task /\ Tail(q) \in Seq(Task)
         /\ IdsIn(q) = IdsIn(Tail(q)) \cup ({Head(q).id} \ {NoTask})
         /\ NoDuplicate(q) => NoDuplicate(Tail(q)) /\ Head(q).id \notin IdsIn(Tail(q))
         /\ HasIds(q) => /\ HasIds(Tail(q))
                         /\ Head(q).type = "INFERENCE" => Head(q).id # NoTask
<1> DEFINE r == Tail(q)
<1>1. /\ Len(q) \in Nat /\ Len(q) # 0 /\ DOMAIN q = 1..Len(q)
      /\ r \in Seq(Task) /\ DOMAIN r = 1..(Len(q) - 1)
      /\ Head(q) = q[1] /\ Head(q) \in Task
      /\ \A k \in 1..(Len(q) - 1) : r[k] = q[k + 1]
  BY HeadTailProperties, EmptySeq
<1> HIDE DEF r
<1>2. \A k \in DOMAIN q : k = 1 \/ (k - 1 \in DOMAIN r /\ r[k - 1] = q[k])
  BY <1>1
<1>3. \A k \in DOMAIN r : k + 1 \in DOMAIN q /\ r[k] = q[k + 1] /\ k + 1 # 1 /\ k \in Nat
  BY <1>1
<1>4. 1 \in DOMAIN q
  BY <1>1
<1>5. IdsIn(q) = IdsIn(r) \cup ({Head(q).id} \ {NoTask})
  BY <1>1, <1>2, <1>3, <1>4 DEF IdsIn
<1>6. ASSUME NoDuplicate(q) PROVE NoDuplicate(r) /\ Head(q).id \notin IdsIn(r)
  <2>1. NoDuplicate(r)
    BY <1>3, <1>6 DEF NoDuplicate
  <2>2. Head(q).id \notin IdsIn(r)
    BY <1>1, <1>3, <1>4, <1>6 DEF NoDuplicate, IdsIn
  <2> QED BY <2>1, <2>2
<1>7. ASSUME HasIds(q)
      PROVE  HasIds(r) /\ (Head(q).type = "INFERENCE" => Head(q).id # NoTask)
  BY <1>1, <1>3, <1>4, <1>7 DEF HasIds
<1> QED BY <1>1, <1>5, <1>6, <1>7 DEF r

\* The clean-up of a CANCEL adds no task and copies none.
LEMMA IdsOfCleanup ==
  ASSUME NEW q \in Seq(Task), NEW i
  PROVE  LET p == CleanupPendingTask(q, i)
         IN  /\ p \in Seq(Task)
             /\ IdsIn(p) \subseteq IdsIn(q)
             /\ NoDuplicate(q) => NoDuplicate(p)
             /\ HasIds(q) => HasIds(p)
<1> DEFINE p == CleanupPendingTask(q, i)
<1>1. PICK e : IsKept(q, i, Len(q), p, e)
  BY CleanupKeeps
<1> HIDE DEF p
<1>2. /\ p \in Seq(Task) /\ DOMAIN p = 1..Len(p) /\ Len(p) \in Nat
      /\ DOMAIN q = 1..Len(q) /\ Len(q) \in Nat
  BY <1>1 DEF IsKept
<1>3. \A a \in DOMAIN p : e[a] \in DOMAIN q /\ p[a] = q[e[a]]
  BY <1>1, <1>2 DEF IsKept
<1>4. \A a, b \in DOMAIN p : e[a] = e[b] => a = b
  <2>1. \A a, b \in 1..Len(p) : a < b => e[a] < e[b]
    BY <1>1 DEF IsKept
  <2>2. \A a \in 1..Len(p) : e[a] \in 1..Len(q)
    BY <1>1 DEF IsKept
  <2> QED BY <1>2, <2>1, <2>2
<1>5. IdsIn(p) \subseteq IdsIn(q)
  BY <1>3 DEF IdsIn
<1>6. NoDuplicate(q) => NoDuplicate(p)
  BY <1>3, <1>4 DEF NoDuplicate
<1>7. HasIds(q) => HasIds(p)
  BY <1>3 DEF HasIds
<1> QED BY <1>2, <1>5, <1>6, <1>7 DEF p

\* The CANCEL put in front has no id of its own.
LEMMA IdsOfCancel ==
  ASSUME NEW p \in Seq(Task), NEW i \in TaskIds
  PROVE  LET r == <<Cancel(i)>> \o p
         IN  /\ IdsIn(r) = IdsIn(p)
             /\ NoDuplicate(p) => NoDuplicate(r)
             /\ HasIds(p) => HasIds(r)
<1> DEFINE r == <<Cancel(i)>> \o p
<1>1. /\ Len(p) \in Nat /\ DOMAIN p = 1..Len(p) /\ DOMAIN r = 1..(Len(p) + 1)
      /\ r[1] = Cancel(i) /\ \A k \in 1..Len(p) : r[k + 1] = p[k]
  OBVIOUS
<1>2. Cancel(i).id = NoTask /\ Cancel(i).type = "CANCEL"
  BY DEF Cancel
<1> HIDE DEF r
<1>3. \A k \in DOMAIN r : k = 1 \/ (k - 1 \in DOMAIN p /\ r[k] = p[k - 1])
  BY <1>1
<1>4. \A k \in DOMAIN p : k + 1 \in DOMAIN r /\ r[k + 1] = p[k]
  BY <1>1
<1>5. IdsIn(r) = IdsIn(p)
  <2>1. \A k \in DOMAIN r : r[k].id = NoTask \/ \E j \in DOMAIN p : r[k].id = p[j].id
    BY <1>1, <1>2, <1>3
  <2>2. \A j \in DOMAIN p : \E k \in DOMAIN r : r[k].id = p[j].id
    BY <1>4
  <2> QED BY <2>1, <2>2, Zenon DEF IdsIn
<1>6. NoDuplicate(p) => NoDuplicate(r)
  BY <1>1, <1>2, <1>3 DEF NoDuplicate
<1>7. HasIds(p) => HasIds(r)
  BY <1>1, <1>2, <1>3 DEF HasIds
<1> QED BY <1>5, <1>6, <1>7 DEF r

\* The tasks of a request enter the queue together.
LEMMA IdsOfRequest ==
  ASSUME NEW q \in Seq(Task), NEW first \in Nat, NEW r \in Request,
         first..(first + r.docs - 1) \subseteq TaskIds
  PROVE  LET new == first..(first + r.docs - 1)
             p   == q \o TasksOf(first, r)
         IN  /\ IdsIn(p) = IdsIn(q) \cup new
             /\ NoDuplicate(q) /\ IdsIn(q) \cap new = {} => NoDuplicate(p)
             /\ HasIds(q) => HasIds(p)
<1> DEFINE new == first..(first + r.docs - 1)
           p   == q \o TasksOf(first, r)
<1>1. r.docs \in Nat \ {0}
  BY DEF Request
<1>2. /\ \A k \in 1..r.docs : first + k - 1 \in TaskIds
      /\ \A i \in TaskIds : i # NoTask
  BY <1>1 DEF TaskIds, NoTask
<1>3. \A k \in 1..r.docs : Inference(first + k - 1, r) \in Task
  BY <1>2 DEF Inference, Task
<1>4. /\ TasksOf(first, r) \in Seq(Task) /\ Len(TasksOf(first, r)) = r.docs
      /\ \A k \in 1..r.docs : TasksOf(first, r)[k].id = first + k - 1
  BY <1>1, <1>3 DEF TasksOf, Inference
<1>5. /\ Len(q) \in Nat /\ DOMAIN q = 1..Len(q) /\ DOMAIN p = 1..(Len(q) + r.docs)
      /\ \A k \in 1..Len(q) : p[k] = q[k]
      /\ \A k \in (Len(q) + 1)..(Len(q) + r.docs) : p[k] = TasksOf(first, r)[k - Len(q)]
  BY <1>1, <1>4, ConcatProperties
<1> HIDE DEF p
<1>6. \A k \in (Len(q) + 1)..(Len(q) + r.docs) :
         k - Len(q) \in 1..r.docs /\ p[k].id = first + (k - Len(q)) - 1
  BY <1>1, <1>4, <1>5
<1>7. \A i \in new : \E k \in DOMAIN p : p[k].id = i /\ k \notin DOMAIN q
  <2>1. TAKE i \in new
  <2>2. Len(q) \in Nat /\ first \in Nat /\ i \in Nat /\ first <= i /\ i <= first + r.docs - 1
    BY <1>1, <1>5
  <2> DEFINE k == i - first + 1 + Len(q)
  <2>3. k \in Nat /\ k = i - first + 1 + Len(q)
    BY <2>2
  <2> HIDE DEF k
  <2>4. /\ k \in (Len(q) + 1)..(Len(q) + r.docs) /\ first + (k - Len(q)) - 1 = i
        /\ k \in 1..(Len(q) + r.docs) /\ k \notin 1..Len(q)
    BY <1>1, <2>2, <2>3
  <2>5. p[k].id = i
    BY <1>6, <2>4
  <2> QED BY <1>5, <2>4, <2>5
<1>8. \A k \in DOMAIN p : \/ k \in DOMAIN q /\ p[k] = q[k]
                          \/ k \notin DOMAIN q /\ p[k].id \in new /\ p[k].id # NoTask
  <2>1. TAKE k \in DOMAIN p
  <2>2. CASE k \in DOMAIN q
    BY <1>5, <2>2
  <2>3. CASE k \notin DOMAIN q
    <3>1. k \in (Len(q) + 1)..(Len(q) + r.docs)
      BY <1>1, <1>5, <2>1, <2>3
    <3>2. k - Len(q) \in 1..r.docs /\ p[k].id = first + (k - Len(q)) - 1
      BY <1>6, <3>1
    <3>3. p[k].id \in new /\ p[k].id \in TaskIds
      BY <1>1, <3>2
    <3> QED BY <1>2, <2>3, <3>3
  <2> QED BY <2>2, <2>3
<1>9. DOMAIN q \subseteq DOMAIN p
  BY <1>1, <1>5
<1>10. \A j, k \in DOMAIN p :
          j \notin DOMAIN q /\ k \notin DOMAIN q /\ p[j].id = p[k].id => j = k
  <2>1. TAKE j, k \in DOMAIN p
  <2>2. HAVE j \notin DOMAIN q /\ k \notin DOMAIN q /\ p[j].id = p[k].id
  <2>3. /\ j \in (Len(q) + 1)..(Len(q) + r.docs)
        /\ k \in (Len(q) + 1)..(Len(q) + r.docs)
    BY <1>1, <1>5, <2>2
  <2> QED BY <1>5, <1>6, <2>2, <2>3
<1>11. \A i \in new : i # NoTask
  BY <1>1, <1>2
<1> HIDE DEF new
<1>12. IdsIn(p) = IdsIn(q) \cup new
  BY <1>7, <1>8, <1>9, <1>11 DEF IdsIn
<1>13. NoDuplicate(q) /\ IdsIn(q) \cap new = {} => NoDuplicate(p)
  BY <1>8, <1>9, <1>10 DEF NoDuplicate, IdsIn
<1>14. HasIds(q) => HasIds(p)
  BY <1>8 DEF HasIds
<1> QED BY <1>12, <1>13, <1>14 DEF p, new

-----------------------------------------------------------------------------
(* The inductive invariant *)

HomeIds == PendingIds \cup RunningIds

\* No two slots run the same task.
SlotsApart ==
    \A s, u \in Slots :
        IsProcessing(s) /\ IsProcessing(u) /\ id_task[s] = id_task[u] => s = u

\* Every inference task has an id, wherever it is.
CurNamed == wpc = "process" /\ cur.type = "INFERENCE" => cur.id # NoTask
SlotsNamed == \A s \in Slots : IsProcessing(s) => id_task[s] # NoTask
Named == HasIds(queue_tasks) /\ HasIds(queue_tasks_deferred) /\ CurNamed /\ SlotsNamed

\* Ids in use were drawn from the counter, and by one thread each; those of a
\* request that is still being made are nowhere.
Drawn == HomeIds \subseteq 0..(id - 1) /\ \A t \in Threads : ids[t] \subseteq 0..(id - 1)
Unshared ==
    /\ \A t, u \in Threads : t # u => ids[t] \cap ids[u] = {}
    /\ \A t \in Threads : cpc[t] \in {"register", "post"} => ids[t] \cap HomeIds = {}

HomeInv == OneHome /\ Named /\ Drawn /\ Unshared

-----------------------------------------------------------------------------
(* The worker *)

\* A step of the worker starts a task, refuses one or stops some slots.
LEMMA WorkerSlotSteps ==
  ASSUME WorkerTypeInv, Worker
  PROVE  \/ LaunchSlotWithTask
         \/ LaunchFails
         \/ id_task' = id_task /\ \A s \in Slots : IsProcessing(s)' => IsProcessing(s)
<1> USE DEF WorkerTypeInv, WorkerTypeOK
<1>1. ASSUME NEW s \in Slots, Release(s)
      PROVE  \A u \in Slots : IsProcessing(u)' => IsProcessing(u)
  BY <1>1 DEF Release, IsProcessing, SlotsTypeOK
<1>2. CASE ContextOverflow \/ PromptRefused \/ ReleaseFailed \/ ReleaseStopped
  <2>1. \E s \in Slots : Release(s) /\ id_task' = id_task
    <3>1. CASE ContextOverflow
      BY <3>1, SlotNumbers DEF ContextOverflow, ReleaseInLoop, ControlTypeOK
    <3>2. CASE PromptRefused
      BY <3>2 DEF PromptRefused, ReleaseInLoop
    <3>3. CASE ReleaseFailed
      BY <3>3, SlotNumbers DEF ReleaseFailed, ReleaseInLoop, ControlTypeOK
    <3>4. CASE ReleaseStopped
      BY <3>4 DEF ReleaseStopped, ReleaseInLoop, AtASlot
    <3> QED BY <1>2, <3>1, <3>2, <3>3, <3>4
  <2> QED BY <1>1, <2>1
<1>3. CASE ReleaseScored
  <2>1. at \in Slots
    BY <1>3 DEF ReleaseScored, AtASlot
  <2> QED BY <1>1, <1>3, <2>1 DEF ReleaseScored
<1>4. CASE ProcessCancel
  BY <1>1, <1>4 DEF ProcessCancel, IsProcessing
<1>5. CASE PromptWaits \/ PromptFill
  <2>1. PICK s \in Slots : HasPrompt(s) /\ \E st : state' = [state EXCEPT ![s] = st]
    BY <1>5 DEF PromptWaits, PromptFill, AtAccepted, AtPromptOf
  <2>2. IsProcessing(s)
    BY <2>1 DEF HasPrompt, IsProcessing
  <2> QED BY <1>5, <2>1, <2>2 DEF PromptWaits, PromptFill, IsProcessing, SlotsTypeOK
<1>6. ASSUME NEW streamed \in BOOLEAN, NEW goesOn \in BOOLEAN,
             SampleToken(streamed, goesOn)
      PROVE  id_task' = id_task /\ \A s \in Slots : IsProcessing(s)' => IsProcessing(s)
  <2>1. PICK s \in Slots : NextWithLogits(s) /\ state' = [state EXCEPT ![s] = "GENERATING"]
    BY <1>6 DEF SampleToken
  <2>2. IsProcessing(s)
    BY <2>1 DEF NextWithLogits, HasLogits, IsProcessing
  <2> QED BY <1>6, <2>1, <2>2 DEF SampleToken, IsProcessing, SlotsTypeOK
<1>7. CASE WorkerStart \/ WorkerTakesTask \/ DeferTask \/ PostNextResponse
           \/ ProcessNextResponse \/ AddSampledToken \/ PromptSkip \/ DecodeHalves
           \/ SendScored \/ NextView \/ SendReply
  BY <1>7 DEF WorkerStart, WorkerTakesTask, DeferTask, PostNextResponse,
              ProcessNextResponse, AddSampledToken, PromptSkip, DecodeHalves, SendScored,
              NextView, SendReply, slotVars, IsProcessing
<1>8. CASE WorkerDrained \/ WorkerWakes \/ WorkerEnds \/ AllSlotsIdle \/ ContextsFit
           \/ PromptsBatched \/ DecodeSucceeds \/ DecodeFails \/ SampledTokensAdded
           \/ NoTokens \/ FailedDone \/ LastView
  BY <1>8 DEF WorkerDrained, WorkerWakes, WorkerEnds, AllSlotsIdle, ContextsFit,
              PromptsBatched, DecodeSucceeds, DecodeFails, SampledTokensAdded,
              NoTokens, FailedDone, LastView, EndUpdate, Proceed, slotVars, IsProcessing
<1> QED BY <1>2, <1>3, <1>4, <1>5, <1>6, <1>7, <1>8 DEF Worker

\* Only start_loop hands a task to process_single_task, and only
\* process_single_task defers one.
LEMMA WorkerCurSteps ==
  ASSUME WorkerTypeInv, Worker
  PROVE  \/ WorkerTakesTask
         \/ DeferTask /\ wpc' # "process"
         \/ /\ wpc' # "process"
            /\ \/ UNCHANGED queueVars
               \/ PostBack(<<NextResponse>>)
               \/ PopDeferredTask
               \/ StartLoop
<1> USE DEF WorkerTypeInv, WorkerTypeOK
<1>1. CASE WorkerStart \/ DeferTask \/ PostNextResponse \/ WorkerTakesTask
  BY <1>1 DEF WorkerStart, DeferTask, PostNextResponse, TaskDone, WorkerAt
<1>2. CASE ProcessCancel \/ ContextOverflow \/ PromptRefused \/ ReleaseFailed
           \/ ReleaseScored \/ ReleaseStopped
  BY <1>2 DEF ProcessCancel, ContextOverflow, PromptRefused, ReleaseFailed,
              ReleaseScored, ReleaseStopped, ReleaseInLoop, Release, TaskDone, WorkerAt
<1>3. CASE \E streamed, goesOn \in BOOLEAN : SampleToken(streamed, goesOn)
  BY <1>3 DEF SampleToken, WorkerAt
<1>4. CASE WorkerDrained \/ WorkerWakes \/ WorkerEnds \/ AllSlotsIdle \/ ContextsFit
           \/ PromptsBatched \/ DecodeSucceeds \/ DecodeFails \/ SampledTokensAdded
           \/ NoTokens \/ FailedDone \/ LastView
  BY <1>4 DEF WorkerDrained, WorkerWakes, WorkerEnds, AllSlotsIdle, ContextsFit,
              PromptsBatched, DecodeSucceeds, DecodeFails, SampledTokensAdded,
              NoTokens, FailedDone, LastView, EndUpdate, Proceed, WorkerAt
<1>5. CASE LaunchSlotWithTask \/ LaunchFails \/ ProcessNextResponse \/ AddSampledToken
           \/ PromptSkip \/ PromptWaits \/ DecodeHalves \/ SendScored \/ NextView
  BY <1>5 DEF LaunchSlotWithTask, LaunchFails, ProcessNextResponse, AddSampledToken,
              PromptSkip, PromptWaits, DecodeHalves, SendScored, NextView,
              TaskDone, WorkerAt
<1>6. CASE PromptFill
  BY <1>6 DEF PromptFill, WorkerAt
<1>7. CASE SendReply
  BY <1>7 DEF SendReply, WorkerAt, ControlTypeOK, Reply
<1> QED BY <1>1, <1>2, <1>3, <1>4, <1>5, <1>6, <1>7 DEF Worker

\* What the worker's step leaves of the homes: none is new, and every task
\* still has one.
LEMMA WorkerHomeSteps ==
  ASSUME TypeInv, OneHome, Named, Worker
  PROVE  OneHome' /\ Named' /\ HomeIds' \subseteq HomeIds
<1> USE DEF TypeInv
<1> DEFINE q == IdsIn(queue_tasks)
           d == IdsIn(queue_tasks_deferred)
<1>1. /\ queue_tasks \in Seq(Task) /\ queue_tasks_deferred \in Seq(Task) /\ cur \in Task
      /\ NextResponse \in Task /\ NextResponse.id = NoTask
      /\ NextResponse.type = "NEXT_RESPONSE"
  BY TasksTyped DEF QueueTypeOK, WorkerTypeInv, WorkerTypeOK, ControlTypeOK, NextResponse
<1>2. /\ NoDuplicate(queue_tasks) /\ NoDuplicate(queue_tasks_deferred)
      /\ q \cap d = {} /\ (q \cup d) \cap CurId = {}
      /\ PendingIds = q \cup d \cup CurId /\ PendingIds \cap RunningIds = {} /\ SlotsApart
      /\ HasIds(queue_tasks) /\ HasIds(queue_tasks_deferred) /\ CurNamed /\ SlotsNamed
  BY DEF OneHome, SlotsApart, Named, PendingIds
<1>3. CASE LaunchSlotWithTask \/ LaunchFails
  <2>1. /\ UNCHANGED queueVars /\ wpc = "process" /\ wpc' = "tasks"
        /\ cur.type = "INFERENCE"
    BY <1>3 DEF LaunchSlotWithTask, LaunchFails, TaskDone, WorkerAt
  <2>2. /\ q' = q /\ d' = d /\ CurId' = {} /\ CurId = {cur.id} /\ cur.id # NoTask
        /\ CurNamed'
    BY <1>2, <2>1 DEF queueVars, CurId, CurNamed
  <2>3. PICK s \in Slots : /\ ~IsProcessing(s)
                           /\ id_task' = [id_task EXCEPT ![s] = cur.id]
                           /\ \A u \in Slots : IsProcessing(u)' => IsProcessing(u) \/ u = s
    <3>1. PICK s \in Slots : BindSlot(s) /\ (state' = [state EXCEPT ![s] = "STARTED"]
                                             \/ state' = state)
      BY <1>3 DEF LaunchSlotWithTask, LaunchFails
    <3> QED BY <3>1 DEF BindSlot, IsProcessing, WorkerTypeInv, WorkerTypeOK, SlotsTypeOK
  <2>4. \A u \in Slots : id_task'[u] = IF u = s THEN cur.id ELSE id_task[u]
    BY <2>3 DEF WorkerTypeInv, WorkerTypeOK, SlotsTypeOK
  <2>5. RunningIds' \subseteq RunningIds \cup {cur.id} /\ SlotsNamed'
    BY <1>2, <2>2, <2>3, <2>4 DEF RunningIds, SlotsNamed
  <2>6. cur.id \notin RunningIds
    BY <1>2, <2>2
  <2>7. SlotsApart'
    BY <1>2, <2>3, <2>4, <2>6 DEF SlotsApart, RunningIds
  <2>8. OneHome'
    BY <1>2, <2>1, <2>2, <2>5, <2>7 DEF OneHome, PendingIds, SlotsApart, queueVars
  <2>9. Named' /\ HomeIds' \subseteq HomeIds
    BY <1>2, <2>1, <2>2, <2>5 DEF Named, HomeIds, PendingIds, queueVars
  <2> QED BY <2>8, <2>9
<1>4. CASE id_task' = id_task /\ \A s \in Slots : IsProcessing(s)' => IsProcessing(s)
  <2>1. RunningIds' \subseteq RunningIds /\ SlotsApart' /\ SlotsNamed'
    BY <1>2, <1>4 DEF RunningIds, SlotsApart, SlotsNamed
  \* It is enough to say where the ids of the two deques and of cur go.
  <2>2. ASSUME q' \cup d' \cup CurId' \subseteq q \cup d \cup CurId,
               q' \cap d' = {}, (q' \cup d') \cap CurId' = {},
               NoDuplicate(queue_tasks)', NoDuplicate(queue_tasks_deferred)',
               HasIds(queue_tasks)', HasIds(queue_tasks_deferred)', CurNamed'
        PROVE  OneHome' /\ Named' /\ HomeIds' \subseteq HomeIds
    BY <1>2, <2>1, <2>2 DEF OneHome, SlotsApart, Named, HomeIds, PendingIds
  <2>3. CASE WorkerTakesTask
    <3> DEFINE r == Tail(queue_tasks)
               x == Head(queue_tasks)
    <3>1. /\ queue_tasks # <<>> /\ queue_tasks' = r /\ cur' = x
          /\ queue_tasks_deferred' = queue_tasks_deferred
      BY <2>3 DEF WorkerTakesTask, TakeTask
    <3>2. /\ q = IdsIn(r) \cup ({x.id} \ {NoTask}) /\ x.id \notin IdsIn(r)
          /\ NoDuplicate(r) /\ HasIds(r)
          /\ x.type = "INFERENCE" => x.id # NoTask
      BY <1>1, <1>2, <3>1, IdsOfTail
    <3>3. /\ q = q' \cup ({cur'.id} \ {NoTask}) /\ cur'.id \notin q' /\ d' = d
          /\ NoDuplicate(queue_tasks)' /\ HasIds(queue_tasks)'
          /\ cur'.type = "INFERENCE" => cur'.id # NoTask
      BY <3>1, <3>2
    <3>4. CurId' \subseteq {cur'.id} \ {NoTask} /\ CurNamed'
      BY <3>3 DEF CurId, CurNamed
    <3>5. q' \cup d' \cup CurId' \subseteq q \cup d \cup CurId /\ q' \cap d' = {}
      BY <1>2, <3>3, <3>4
    <3>6. (q' \cup d') \cap CurId' = {}
      BY <1>2, <3>3, <3>4
    <3>7. NoDuplicate(queue_tasks_deferred)' /\ HasIds(queue_tasks_deferred)'
      BY <1>2, <3>1
    <3> QED BY <2>2, <3>3, <3>4, <3>5, <3>6, <3>7
  <2>4. CASE DeferTask /\ wpc' # "process"
    <3>1. /\ wpc = "process" /\ cur.type = "INFERENCE" /\ queue_tasks' = queue_tasks
          /\ queue_tasks_deferred' = Append(queue_tasks_deferred, cur)
      BY <2>4 DEF DeferTask, Defer
    <3>2. cur.id # NoTask /\ CurId = {cur.id} /\ CurId' = {} /\ CurNamed'
      BY <1>2, <2>4, <3>1 DEF CurNamed, CurId
    <3>3. cur.id \notin d
      BY <1>2, <3>2
    <3>4. /\ IdsIn(Append(queue_tasks_deferred, cur)) = d \cup ({cur.id} \ {NoTask})
          /\ NoDuplicate(Append(queue_tasks_deferred, cur))
          /\ HasIds(Append(queue_tasks_deferred, cur))
      BY <1>1, <1>2, <3>2, <3>3, IdsOfAppend, Zenon
    <3>5. q' = q /\ d' = d \cup {cur.id}
      BY <3>1, <3>2, <3>4
    <3>6. /\ NoDuplicate(queue_tasks)' /\ HasIds(queue_tasks)'
          /\ NoDuplicate(queue_tasks_deferred)' /\ HasIds(queue_tasks_deferred)'
      BY <1>2, <3>1, <3>4
    <3> QED BY <1>2, <2>2, <3>2, <3>5, <3>6
  <2>5. CASE wpc' # "process" /\ (UNCHANGED queueVars \/ StartLoop)
    <3>1. UNCHANGED <<queue_tasks, queue_tasks_deferred>> /\ CurId' = {} /\ CurNamed'
      BY <2>5 DEF queueVars, StartLoop, CurId, CurNamed
    <3> QED BY <1>2, <2>2, <3>1
  <2>6. CASE wpc' # "process" /\ PostBack(<<NextResponse>>)
    <3>1. /\ queue_tasks' = Append(queue_tasks, NextResponse)
          /\ queue_tasks_deferred' = queue_tasks_deferred /\ CurId' = {} /\ CurNamed'
      BY <1>1, <2>6 DEF PostBack, CurId, CurNamed
    <3>2. NextResponse.id \notin q
      BY <1>1 DEF IdsIn
    <3>3. /\ IdsIn(Append(queue_tasks, NextResponse)) = q \cup ({NextResponse.id} \ {NoTask})
          /\ NoDuplicate(Append(queue_tasks, NextResponse))
          /\ HasIds(Append(queue_tasks, NextResponse))
      <4>1. NextResponse.type # "INFERENCE"
        BY <1>1
      <4> QED BY <1>1, <1>2, <3>2, <4>1, IdsOfAppend, Zenon
    <3>4. q' = q
      BY <1>1, <3>1, <3>3
    <3>5. /\ d' = d /\ NoDuplicate(queue_tasks)' /\ HasIds(queue_tasks)'
          /\ NoDuplicate(queue_tasks_deferred)' /\ HasIds(queue_tasks_deferred)'
      BY <1>2, <3>1, <3>3
    <3> QED BY <1>2, <2>2, <3>1, <3>4, <3>5
  <2>7. CASE wpc' # "process" /\ PopDeferredTask
    <3>1. CurId' = {} /\ CurNamed'
      BY <2>7 DEF CurId, CurNamed
    <3>2. CASE queue_tasks_deferred = <<>>
      <4>1. UNCHANGED <<queue_tasks, queue_tasks_deferred>>
        BY <2>7, <3>2 DEF PopDeferredTask
      <4> QED BY <1>2, <2>2, <3>1, <4>1
    <3>3. CASE queue_tasks_deferred # <<>>
      <4> DEFINE x == Head(queue_tasks_deferred)
      <4>1. /\ queue_tasks' = Append(queue_tasks, x)
            /\ queue_tasks_deferred' = Tail(queue_tasks_deferred)
        BY <2>7, <3>3 DEF PopDeferredTask
      <4>2. /\ d = d' \cup ({x.id} \ {NoTask}) /\ x.id \notin d' /\ x \in Task
            /\ NoDuplicate(queue_tasks_deferred)' /\ HasIds(queue_tasks_deferred)'
            /\ x.type = "INFERENCE" => x.id # NoTask
        BY <1>1, <1>2, <3>3, <4>1, IdsOfTail
      <4> HIDE DEF x
      <4>3. x.id \notin q
        BY <1>2, <4>2 DEF IdsIn
      <4>4. /\ IdsIn(Append(queue_tasks, x)) = q \cup ({x.id} \ {NoTask})
            /\ NoDuplicate(Append(queue_tasks, x)) /\ HasIds(Append(queue_tasks, x))
        BY <1>1, <1>2, <4>2, <4>3, IdsOfAppend, Zenon
      <4>5. /\ q' = q \cup ({x.id} \ {NoTask})
            /\ NoDuplicate(queue_tasks)' /\ HasIds(queue_tasks)'
        BY <4>1, <4>4
      <4> QED BY <1>2, <2>2, <3>1, <4>2, <4>5
    <3> QED BY <3>2, <3>3
  <2> QED BY <2>3, <2>4, <2>5, <2>6, <2>7, WorkerCurSteps
<1> QED BY <1>3, <1>4, WorkerSlotSteps

-----------------------------------------------------------------------------
(* The threads *)

\* A thread makes, posts or cancels a request, or it leaves the deques alone
\* and has no more ids than before.
LEMMA ClientIdSteps ==
  ASSUME ClientTypeInv, NEW t \in Threads, Native(t) \/ Caller(t)
  PROVE  \/ \E r \in Requests : Begin(t, r)
         \/ PostRequest(t)
         \/ /\ \A u \in Threads :
                  /\ ids'[u] \subseteq ids[u]
                  /\ cpc'[u] \in {"register", "post"} =>
                        cpc[u] \in {"register", "post"}
            /\ \/ UNCHANGED queueVars
               \/ Terminate
               \/ \E i \in TaskIds : PostCancel(i)
<1> USE DEF ClientTypeInv
<1> DEFINE Fewer == \A u \in Threads :
                       /\ ids'[u] \subseteq ids[u]
                       /\ cpc'[u] \in {"register", "post"} =>
                             cpc[u] \in {"register", "post"}
<1>1. ASSUME NEW pc, Goto(t, pc), ids' = ids,
             pc \in {"register", "post"} => cpc[t] \in {"register", "post"}
      PROVE  Fewer
  BY <1>1 DEF Goto, ClientTypeOK
<1>2. ASSUME Return(t) PROVE Fewer
  BY <1>2 DEF Return, Goto, ClientTypeOK
<1>3. CASE Reject(t) \/ Abandon(t)
  BY <1>2, <1>3 DEF Reject, Abandon
<1>4. CASE Register(t)
  BY <1>1, <1>4 DEF Register
<1>5. CASE ReceiveError(t) \/ ReceiveFinal(t) \/ ReceivePartial(t)
  BY <1>1, <1>5 DEF ReceiveError, ReceiveFinal, ReceivePartial, Take
<1>6. CASE ReceiveScored(t)
  <2>1. UNCHANGED queueVars
    BY <1>6 DEF ReceiveScored, Take
  <2>2. Fewer
    BY <1>2, <1>6 DEF ReceiveScored
  <2> QED BY <2>1, <2>2
<1>7. CASE RemoveAfterError(t)
  <2>1. Fewer
    <3>1. PICK i \in ids[t] :
            \/ Goto(t, "user") /\ ids' = ids
            \/ Return(t)
            \/ ids' = [ids EXCEPT ![t] = @ \ {i}] /\ cpc' = cpc
      BY <1>7 DEF RemoveAfterError
    <3> QED BY <1>1, <1>2, <3>1 DEF ClientTypeOK
  <2> QED BY <1>7, <2>1 DEF RemoveAfterError
<1>8. CASE RemoveAfterFinal(t)
  <2>1. Fewer
    BY <1>1, <1>2, <1>8 DEF RemoveAfterFinal
  <2> QED BY <1>8, <2>1 DEF RemoveAfterFinal
<1>9. CASE ReleaseTask(t) \/ NextOutput(t) \/ CancelRemove(t) \/ CancelRemoveAgain(t)
           \/ Close(t)
  BY <1>1, <1>9 DEF ReleaseTask, NextOutput, CancelRemove, CancelRemoveAgain, Close
<1>10. CASE CancelPost(t)
  BY <1>1, <1>10 DEF CancelPost, ClientTypeOK
<1> QED BY <1>3, <1>4, <1>5, <1>6, <1>7, <1>8, <1>9, <1>10 DEF Native, Caller

\* A thread's step moves no task, makes no home twice, and draws fresh ids.
LEMMA ClientHomeSteps ==
  ASSUME TypeInv, HomeInv, NEW t \in Threads, Native(t) \/ Caller(t),
         UNCHANGED workerVars
  PROVE  HomeInv'
<1> USE DEF TypeInv
<1> DEFINE q == IdsIn(queue_tasks)
           d == IdsIn(queue_tasks_deferred)
<1>1. /\ queue_tasks \in Seq(Task) /\ queue_tasks_deferred \in Seq(Task) /\ id \in Nat
      /\ ids \in [Threads -> SUBSET TaskIds] /\ cpc \in [Threads -> ClientPcs]
  BY MaxTasksAssumption DEF QueueTypeOK, ClientTypeInv, ClientTypeOK
<1>2. /\ CurId' = CurId /\ RunningIds' = RunningIds
      /\ SlotsApart' = SlotsApart /\ SlotsNamed' = SlotsNamed /\ CurNamed' = CurNamed
  BY DEF workerVars, slotVars, CurId, RunningIds, SlotsApart, SlotsNamed, CurNamed,
         IsProcessing
<1>3. /\ NoDuplicate(queue_tasks) /\ NoDuplicate(queue_tasks_deferred)
      /\ q \cap d = {} /\ (q \cup d) \cap CurId = {}
      /\ PendingIds \cap RunningIds = {} /\ SlotsApart
      /\ HasIds(queue_tasks) /\ HasIds(queue_tasks_deferred) /\ CurNamed /\ SlotsNamed
  BY DEF HomeInv, OneHome, SlotsApart, Named, PendingIds
<1>4. /\ PendingIds = q \cup d \cup CurId
      /\ HomeIds = q \cup d \cup CurId \cup RunningIds
      /\ HomeIds \subseteq 0..(id - 1)
      /\ \A u \in Threads : ids[u] \subseteq 0..(id - 1)
      /\ \A u, v \in Threads : u # v => ids[u] \cap ids[v] = {}
      /\ \A u \in Threads : cpc[u] \in {"register", "post"} => ids[u] \cap HomeIds = {}
  BY DEF HomeInv, Drawn, Unshared, HomeIds, PendingIds
<1>5. ASSUME q' \cap d' = {}, (q' \cup d') \cap (CurId \cup RunningIds) = {},
             NoDuplicate(queue_tasks)', NoDuplicate(queue_tasks_deferred)',
             HasIds(queue_tasks)', HasIds(queue_tasks_deferred)'
      PROVE  OneHome' /\ Named'
  BY <1>2, <1>3, <1>4, <1>5 DEF OneHome, SlotsApart, Named, PendingIds
\* The two deques stay as they are.
<1>6. ASSUME UNCHANGED <<queue_tasks, queue_tasks_deferred>>
      PROVE  OneHome' /\ Named' /\ HomeIds' = HomeIds
  BY <1>2, <1>3, <1>4, <1>5, <1>6 DEF HomeIds, PendingIds
<1>7. ASSUME NEW r \in Requests, Begin(t, r) PROVE HomeInv'
  <2>1. r.docs \in Nat \ {0}
    BY NativeCallsAssumption DEF Request
  <2>2. /\ UNCHANGED <<queue_tasks, queue_tasks_deferred>>
        /\ id' = id + r.docs
        /\ ids' = [ids EXCEPT ![t] = id..(id + r.docs - 1)]
        /\ cpc' = [cpc EXCEPT ![t] = "register"]
    BY <1>7 DEF Begin, GetNewIds, Goto
  <2>3. OneHome' /\ Named' /\ HomeIds' = HomeIds
    BY <1>6, <2>2
  <2>4. /\ \A u \in Threads : ids'[u] = IF u = t THEN id..(id + r.docs - 1) ELSE ids[u]
        /\ \A u \in Threads : u # t => cpc'[u] = cpc[u]
        /\ 0..(id - 1) \cap (id..(id + r.docs - 1)) = {}
        /\ 0..(id - 1) \subseteq 0..(id' - 1) /\ id..(id + r.docs - 1) \subseteq 0..(id' - 1)
    BY <1>1, <2>1, <2>2
  <2>5. Drawn'
    BY <1>4, <2>3, <2>4 DEF Drawn
  <2>6. Unshared'
    BY <1>4, <2>3, <2>4 DEF Unshared
  <2> QED BY <2>3, <2>5, <2>6 DEF HomeInv
<1>8. CASE PostRequest(t)
  <2>1. PICK low \in ids[t] : /\ \A i \in ids[t] : low <= i
                              /\ PostBack(TasksOf(low, call[t]))
    BY <1>8 DEF PostRequest
  <2>2. PICK first \in Nat : ids[t] = first..(first + call[t].docs - 1)
    BY <1>8 DEF PostRequest, ClientTypeInv, Numbered
  <2>3. call[t] \in Request /\ call[t].docs \in Nat \ {0} /\ ids[t] \subseteq TaskIds
    BY <1>1 DEF ClientTypeInv, ClientTypeOK, Request
  <2>4. low = first
    <3>1. first \in ids[t]
      BY <2>2, <2>3
    <3> QED BY <2>1, <2>2, <3>1
  <2>5. /\ queue_tasks' = queue_tasks \o TasksOf(first, call[t]) /\ id' = id
        /\ queue_tasks_deferred' = queue_tasks_deferred /\ ids' = ids
        /\ cpc[t] = "post" /\ cpc'[t] \notin {"register", "post"}
        /\ \A u \in Threads : u # t => cpc'[u] = cpc[u]
    BY <1>1, <1>8, <2>1, <2>4 DEF PostRequest, PostBack, Goto
  <2>6. ids[t] \cap HomeIds = {}
    BY <1>4, <2>5
  <2> DEFINE p == queue_tasks \o TasksOf(first, call[t])
  <2>7. IdsIn(p) = q \cup ids[t] /\ NoDuplicate(p) /\ HasIds(p)
    <3>1. q \cap (first..(first + call[t].docs - 1)) = {}
      BY <1>4, <2>2, <2>6
    <3>2. first..(first + call[t].docs - 1) \subseteq TaskIds
      BY <2>2, <2>3
    <3> QED BY <1>1, <1>3, <2>2, <2>3, <3>1, <3>2, IdsOfRequest
  <2>8. /\ q' = q \cup ids[t] /\ d' = d
        /\ NoDuplicate(queue_tasks)' /\ HasIds(queue_tasks)'
        /\ NoDuplicate(queue_tasks_deferred)' /\ HasIds(queue_tasks_deferred)'
    BY <1>3, <2>5, <2>7
  <2>9. OneHome' /\ Named'
    BY <1>3, <1>4, <1>5, <2>6, <2>8
  <2>10. HomeIds' = HomeIds \cup ids[t]
    BY <1>2, <1>4, <2>8 DEF HomeIds, PendingIds
  <2>11. Drawn'
    BY <1>4, <2>5, <2>10 DEF Drawn
  <2>12. Unshared'
    BY <1>4, <2>5, <2>10 DEF Unshared
  <2> QED BY <2>9, <2>11, <2>12 DEF HomeInv
<1>9. ASSUME \A u \in Threads :
                /\ ids'[u] \subseteq ids[u]
                /\ cpc'[u] \in {"register", "post"} => cpc[u] \in {"register", "post"},
             OneHome', Named', HomeIds' \subseteq HomeIds, id' = id
      PROVE  HomeInv'
  <2>1. Drawn'
    BY <1>4, <1>9 DEF Drawn
  <2>2. Unshared'
    BY <1>4, <1>9 DEF Unshared
  <2> QED BY <1>9, <2>1, <2>2 DEF HomeInv
<1>10. CASE UNCHANGED queueVars \/ Terminate
  <2>1. UNCHANGED <<queue_tasks, queue_tasks_deferred, id>>
    BY <1>10 DEF queueVars, Terminate
  <2> QED BY <1>6, <1>7, <1>8, <1>9, <2>1, ClientIdSteps
<1>11. ASSUME NEW i \in TaskIds, PostCancel(i)
       PROVE  OneHome' /\ Named' /\ HomeIds' \subseteq HomeIds /\ id' = id
  <2> DEFINE p == CleanupPendingTask(queue_tasks, i)
             e == CleanupPendingTask(queue_tasks_deferred, i)
  <2>1. /\ queue_tasks' = <<Cancel(i)>> \o p /\ queue_tasks_deferred' = e /\ id' = id
    BY <1>11 DEF PostCancel
  <2>2. /\ p \in Seq(Task) /\ IdsIn(p) \subseteq q /\ NoDuplicate(p) /\ HasIds(p)
        /\ IdsIn(e) \subseteq d /\ NoDuplicate(e) /\ HasIds(e)
    BY <1>1, <1>3, IdsOfCleanup
  <2> HIDE DEF p, e
  <2>3. LET r == <<Cancel(i)>> \o p
        IN  IdsIn(r) = IdsIn(p) /\ NoDuplicate(r) /\ HasIds(r)
    BY <2>2, IdsOfCancel
  <2>4. /\ q' \subseteq q /\ d' \subseteq d
        /\ NoDuplicate(queue_tasks)' /\ HasIds(queue_tasks)'
        /\ NoDuplicate(queue_tasks_deferred)' /\ HasIds(queue_tasks_deferred)'
    BY <2>1, <2>2, <2>3
  <2>5. q' \cap d' = {} /\ (q' \cup d') \cap (CurId \cup RunningIds) = {}
    BY <1>3, <1>4, <2>4
  <2>6. OneHome' /\ Named'
    BY <1>5, <2>4, <2>5
  <2>7. HomeIds' \subseteq HomeIds
    BY <1>2, <1>4, <2>4 DEF HomeIds, PendingIds
  <2> QED BY <2>1, <2>6, <2>7
<1> QED BY <1>7, <1>8, <1>9, <1>10, <1>11, ClientIdSteps

-----------------------------------------------------------------------------
\* Nothing has an id yet.
LEMMA InitHomeInv == Init => HomeInv
<1> SUFFICES ASSUME Init PROVE HomeInv
  OBVIOUS
<1>1. /\ queue_tasks = <<>> /\ queue_tasks_deferred = <<>> /\ id = 0 /\ wpc = "load"
      /\ \A s \in Slots : ~IsProcessing(s)
      /\ \A t \in Threads : ids[t] = {} /\ cpc[t] = "idle"
  BY DEF Init, QueueInit, WorkerInit, ClientInit, IsProcessing
<1>2. IdsIn(queue_tasks) = {} /\ IdsIn(queue_tasks_deferred) = {} /\ CurId = {}
      /\ RunningIds = {}
  BY <1>1 DEF IdsIn, CurId, RunningIds
<1>3. NoDuplicate(queue_tasks) /\ NoDuplicate(queue_tasks_deferred)
      /\ HasIds(queue_tasks) /\ HasIds(queue_tasks_deferred)
  BY <1>1 DEF NoDuplicate, HasIds
<1>4. OneHome /\ Named
  BY <1>1, <1>2, <1>3 DEF OneHome, PendingIds, Named, CurNamed, SlotsNamed
<1>5. Drawn /\ Unshared
  BY <1>1, <1>2 DEF Drawn, Unshared, HomeIds, PendingIds
<1> QED BY <1>4, <1>5 DEF HomeInv

\* Every step of the worker or of a thread keeps each task in one place.
LEMMA NextHomeInv == TypeInv /\ HomeInv /\ [Next]_vars => HomeInv'
<1> SUFFICES ASSUME TypeInv, HomeInv, [Next]_vars PROVE HomeInv'
  OBVIOUS
<1>1. CASE Worker /\ UNCHANGED clientVars
  <2>1. OneHome' /\ Named' /\ HomeIds' \subseteq HomeIds
    BY <1>1, WorkerHomeSteps DEF HomeInv
  <2>2. id' = id
    BY <1>1, WorkerQueueSteps
    DEF TypeInv, queueVars, PostBack, Defer, PopDeferredTask, StartLoop, TakeTask
  <2>3. Drawn' /\ Unshared'
    BY <1>1, <2>1, <2>2 DEF HomeInv, Drawn, Unshared, clientVars
  <2> QED BY <2>1, <2>3 DEF HomeInv
<1>2. ASSUME NEW t \in Threads, Native(t) \/ Caller(t), UNCHANGED workerVars
      PROVE  HomeInv'
  BY <1>2, ClientHomeSteps
<1>3. CASE UNCHANGED vars
  BY <1>3 DEF vars, queueVars, workerVars, clientVars, slotVars, HomeInv, OneHome, Named,
              Drawn, Unshared, HomeIds, PendingIds, RunningIds, CurId, CurNamed, SlotsNamed,
              IsProcessing
<1> QED BY <1>1, <1>2, <1>3 DEF Next, Finished

\* A task is in one place and is never run twice, for any number of threads,
\* slots and requests: post, defer, pop_deferred_task, the clean-up of a CANCEL,
\* launch and release move it and never copy it.
THEOREM TasksHaveOneHome == Spec => []OneHome
<1>1. TypeInv /\ HomeInv /\ [Next]_vars => HomeInv'
  BY NextHomeInv
<1>2. HomeInv => OneHome
  BY DEF HomeInv
<1> QED BY <1>1, <1>2, InitHomeInv, TypeInvHolds, PTL DEF Spec

-----------------------------------------------------------------------------
(***************************************************************************)
(* Wake-ups                                                                *)
(*                                                                         *)
(* The worker does not sleep while a slot has work, because NEXT_RESPONSE is *)
(* in the queue from the start of update_slots to its end (WakeInv); and a *)
(* deferred task is not forgotten when every grammar can be parsed, because *)
(* a slot stops working through release() alone (ServedInv).               *)
(***************************************************************************)

(* The worker does not sleep on work *)

\* Inside update_slots, after NEXT_RESPONSE was posted.
Updating == wpc \in {"shift", "sampled", "prompt", "decode", "failed", "view", "scored",
                     "stop", "reply"}

\* From the NEXT_RESPONSE that update_slots posts to its end the queue is not
\* empty: only the worker takes tasks.
Awake == Updating => queue_tasks # <<>>
WakeInv == Awake /\ NoSleepWhileProcessing

\* No critical section but the worker's take empties the queue.
LEMMA NotEmptied ==
  ASSUME QueueTypeOK, queue_tasks # <<>>
  PROVE  /\ UNCHANGED queueVars => queue_tasks' # <<>>
         /\ \A tasks \in Seq(Task) : PostBack(tasks) => queue_tasks' # <<>>
         /\ \A task : Defer(task) => queue_tasks' # <<>>
         /\ PopDeferredTask \/ StartLoop \/ Terminate => queue_tasks' # <<>>
<1>1. UNCHANGED queueVars => queue_tasks' # <<>>
  BY DEF queueVars
<1>2. ASSUME NEW tasks \in Seq(Task), PostBack(tasks) PROVE queue_tasks' # <<>>
  <2>1. Len(queue_tasks) \in Nat \ {0} /\ Len(tasks) \in Nat
    BY EmptySeq DEF QueueTypeOK
  <2>2. Len(queue_tasks') = Len(queue_tasks) + Len(tasks)
    BY <1>2 DEF PostBack, QueueTypeOK
  <2> QED BY <2>1, <2>2
<1>3. ASSUME NEW task, Defer(task) PROVE queue_tasks' # <<>>
  BY <1>3 DEF Defer
<1>4. ASSUME PopDeferredTask PROVE queue_tasks' # <<>>
  <2>1. CASE queue_tasks_deferred = <<>>
    BY <1>4, <2>1 DEF PopDeferredTask
  <2>2. CASE queue_tasks_deferred # <<>>
    <3>1. Head(queue_tasks_deferred) \in Task
      BY <2>2, HeadTailProperties DEF QueueTypeOK
    <3>2. Len(Append(queue_tasks, Head(queue_tasks_deferred))) = Len(queue_tasks) + 1
      BY <3>1 DEF QueueTypeOK
    <3>3. Len(queue_tasks) \in Nat
      BY DEF QueueTypeOK
    <3> QED BY <1>4, <2>2, <3>2, <3>3 DEF PopDeferredTask
  <2> QED BY <2>1, <2>2
<1>5. StartLoop \/ Terminate => queue_tasks' # <<>>
  BY DEF StartLoop, Terminate
<1> QED BY <1>1, <1>2, <1>3, <1>4, <1>5

\* A step that takes nothing from the queue.
QueueGrows ==
    UNCHANGED queueVars \/ PostBack(<<NextResponse>>) \/ PopDeferredTask \/ StartLoop

\* Every way into the waiting state and into update_slots.
LEMMA WorkerWaySteps ==
  ASSUME TypeInv, Worker
  PROVE  \/ wpc' # "wait" /\ ~Updating'
         \/ PostNextResponse
         \/ AllSlotsIdle
         \/ Updating /\ QueueGrows
<1>1. CASE WorkerStart \/ WorkerTakesTask \/ WorkerDrained \/ WorkerWakes \/ WorkerEnds
           \/ LaunchSlotWithTask \/ LaunchFails \/ DeferTask \/ ProcessCancel
           \/ ProcessNextResponse
  BY <1>1 DEF WorkerStart, WorkerTakesTask, WorkerDrained, WorkerWakes, WorkerEnds,
              LaunchSlotWithTask, LaunchFails, DeferTask, ProcessCancel,
              ProcessNextResponse, Proceed, TaskDone, WorkerAt, Updating
<1>2. CASE PostNextResponse \/ AllSlotsIdle
  BY <1>2
<1>3. ASSUME Updating PROVE QueueGrows
  <2>1. ~WorkerTakesTask /\ ~DeferTask
    BY <1>3 DEF WorkerTakesTask, DeferTask, Updating
  <2> QED BY <2>1, WorkerCurSteps DEF TypeInv, QueueGrows
<1>4. CASE ContextOverflow \/ ContextsFit \/ AddSampledToken \/ SampledTokensAdded
           \/ PromptSkip \/ PromptsBatched \/ NoTokens \/ DecodeSucceeds \/ DecodeHalves
           \/ DecodeFails \/ ReleaseFailed \/ FailedDone \/ ReleaseScored \/ ReleaseStopped
           \/ NextView \/ LastView \/ SendReply
  <2>1. Updating
    BY <1>4 DEF ContextOverflow, ContextsFit, AddSampledToken, SampledTokensAdded,
                PromptSkip, PromptsBatched, NoTokens, DecodeSucceeds, DecodeHalves,
                DecodeFails, ReleaseFailed, FailedDone, ReleaseScored, ReleaseStopped,
                NextView, LastView, ViewDone, SendReply, Updating
  <2> QED BY <1>3, <2>1
<1>5. CASE PromptRefused \/ PromptWaits \/ PromptFill
  <2>1. Updating
    BY <1>5 DEF PromptRefused, PromptWaits, PromptFill, AtAccepted, AtPromptOf, Updating
  <2> QED BY <1>3, <2>1
<1>6. CASE SendScored \/ \E streamed, goesOn \in BOOLEAN : SampleToken(streamed, goesOn)
  <2>1. Updating
    BY <1>6 DEF SendScored, SampleToken, NextWithLogits, Updating
  <2> QED BY <1>3, <2>1
<1> QED BY <1>1, <1>2, <1>4, <1>5, <1>6 DEF Worker

\* Every step keeps the queue filled while update_slots runs.
LEMMA NextWakeInv == TypeInv /\ WakeInv /\ [Next]_vars => WakeInv'
<1> SUFFICES ASSUME TypeInv, WakeInv, [Next]_vars PROVE WakeInv'
  OBVIOUS
<1>1. CASE Worker
  <2>1. CASE wpc' # "wait" /\ ~Updating'
    BY <2>1 DEF WakeInv, Awake, NoSleepWhileProcessing
  <2>2. CASE PostNextResponse
    <3>1. queue_tasks' = Append(queue_tasks, NextResponse) /\ wpc' = "shift"
      BY <2>2, TasksTyped DEF PostNextResponse, PostBack, WorkerAt, TypeInv, QueueTypeOK
    <3>2. Len(Append(queue_tasks, NextResponse)) = Len(queue_tasks) + 1 /\ Len(queue_tasks) \in Nat
      BY TasksTyped DEF TypeInv, QueueTypeOK
    <3>3. queue_tasks' # <<>>
      BY <3>1, <3>2
    <3> QED BY <3>1, <3>3 DEF WakeInv, Awake, NoSleepWhileProcessing
  <2>3. CASE AllSlotsIdle
    BY <2>3 DEF AllSlotsIdle, Proceed, WorkerAt, slotVars, IsProcessing, Updating, WakeInv,
                Awake, NoSleepWhileProcessing
  <2>4. CASE Updating /\ QueueGrows
    <3>1. queue_tasks # <<>> /\ <<NextResponse>> \in Seq(Task)
      BY <2>4, TasksTyped DEF WakeInv, Awake
    <3>2. queue_tasks' # <<>>
      BY <2>4, <3>1, NotEmptied DEF QueueGrows, TypeInv
    <3> QED BY <3>2 DEF WakeInv, Awake, NoSleepWhileProcessing
  <2> QED BY <1>1, <2>1, <2>2, <2>3, <2>4, WorkerWaySteps
<1>2. ASSUME NEW t \in Threads, Native(t) \/ Caller(t), UNCHANGED workerVars
      PROVE  WakeInv'
  <2>1. wpc' = wpc /\ state' = state
    BY <1>2 DEF workerVars, slotVars
  <2>2. queue_tasks # <<>> => queue_tasks' # <<>>
    <3>1. HAVE queue_tasks # <<>>
    <3>2. ASSUME NEW n \in Nat, GetNewIds(n) PROVE queue_tasks' # <<>>
      BY <3>1, <3>2 DEF GetNewIds
    <3>3. ASSUME NEW i \in TaskIds, PostCancel(i) PROVE queue_tasks' # <<>>
      <4> DEFINE p == CleanupPendingTask(queue_tasks, i)
      <4>1. p \in Seq(Task) /\ queue_tasks' = <<Cancel(i)>> \o p
        BY <3>3, IdsOfCleanup DEF PostCancel, TypeInv, QueueTypeOK
      <4> HIDE DEF p
      <4>2. Len(<<Cancel(i)>> \o p) = 1 + Len(p) /\ Len(p) \in Nat
        BY <4>1
      <4> QED BY <4>1, <4>2
    <3> QED BY <1>2, <3>1, <3>2, <3>3, ClientQueueSteps, NotEmptied DEF TypeInv
  <2> QED BY <2>1, <2>2 DEF WakeInv, Awake, Updating, NoSleepWhileProcessing, IsProcessing
<1>3. CASE UNCHANGED vars
  BY <1>3 DEF vars, queueVars, workerVars, slotVars, WakeInv, Awake, Updating,
              NoSleepWhileProcessing, IsProcessing
<1> QED BY <1>1, <1>2, <1>3 DEF Next, Finished

\* The worker never waits on an empty queue while a slot has work, for any
\* number of slots and threads: the NEXT_RESPONSE posted at the start of
\* update_slots is still in the queue at its end.
THEOREM WorkerStaysAwake == Spec => []NoSleepWhileProcessing
<1>1. Init => WakeInv
  BY DEF Init, WorkerInit, WakeInv, Awake, Updating, NoSleepWhileProcessing
<1>2. TypeInv /\ WakeInv /\ [Next]_vars => WakeInv'
  BY NextWakeInv
<1>3. WakeInv => NoSleepWhileProcessing
  BY DEF WakeInv
<1> QED BY <1>1, <1>2, <1>3, TypeInvHolds, PTL DEF Spec

-----------------------------------------------------------------------------
(* No deferred task is forgotten, if every grammar can be parsed *)

\* The tasks the program makes: an inference has an id and a grammar that
\* parses, the others have no id.
GoodTask == {x \in Task :
    IF x.type = "INFERENCE"
    THEN x.id # NoTask /\ x.id_target = NoTask /\ x.params.grammar
    ELSE x.id = NoTask}
DeferrableTask == {x \in GoodTask : x.type = "INFERENCE"}

GoodInv ==
    /\ queue_tasks \in Seq(GoodTask)
    /\ queue_tasks_deferred \in Seq(DeferrableTask)
    /\ cur \in GoodTask
    /\ \A t \in Threads : call[t].grammar

\* The worker's task comes from the queue, is kept, or is done with.
LEMMA WorkerTaskSteps ==
  ASSUME Worker PROVE WorkerTakesTask \/ cur' = NextResponse \/ cur' = cur
<1>1. CASE LaunchSlotWithTask \/ LaunchFails \/ DeferTask \/ ProcessCancel
           \/ ProcessNextResponse
  BY <1>1 DEF LaunchSlotWithTask, LaunchFails, DeferTask, ProcessCancel,
              ProcessNextResponse, TaskDone
<1>2. CASE ContextOverflow \/ PromptRefused \/ ReleaseFailed \/ ReleaseScored
           \/ ReleaseStopped \/ WorkerStart \/ PostNextResponse \/ AddSampledToken
           \/ PromptSkip \/ PromptWaits \/ DecodeHalves \/ SendScored \/ NextView
           \/ SendReply
  BY <1>2 DEF ContextOverflow, PromptRefused, ReleaseFailed, ReleaseScored,
              ReleaseStopped, ReleaseInLoop, WorkerStart, PostNextResponse,
              AddSampledToken, PromptSkip, PromptWaits, DecodeHalves, SendScored,
              NextView, SendReply
<1>3. CASE PromptFill \/ \E streamed, goesOn \in BOOLEAN : SampleToken(streamed, goesOn)
  BY <1>3 DEF PromptFill, SampleToken
<1>4. CASE WorkerDrained \/ WorkerWakes \/ WorkerEnds \/ AllSlotsIdle \/ ContextsFit
           \/ PromptsBatched \/ DecodeSucceeds \/ DecodeFails \/ SampledTokensAdded
           \/ NoTokens \/ FailedDone \/ LastView
  BY <1>4 DEF WorkerDrained, WorkerWakes, WorkerEnds, AllSlotsIdle, ContextsFit,
              PromptsBatched, DecodeSucceeds, DecodeFails, SampledTokensAdded,
              NoTokens, FailedDone, LastView, EndUpdate, Proceed
<1> QED BY <1>1, <1>2, <1>3, <1>4 DEF Worker

\* The worker moves good tasks and posts good ones.
LEMMA WorkerGoodSteps ==
  ASSUME TypeInv, GoodInv, Worker, UNCHANGED call PROVE GoodInv'
<1>1. /\ queue_tasks \in Seq(GoodTask) /\ queue_tasks_deferred \in Seq(DeferrableTask)
      /\ cur \in GoodTask
  BY DEF GoodInv
<1>2. NextResponse \in GoodTask
  BY TasksTyped DEF NextResponse, GoodTask
<1>3. cur' \in GoodTask
  <2>1. ASSUME WorkerTakesTask PROVE cur' \in GoodTask
    BY <1>1, <2>1, HeadTailProperties DEF WorkerTakesTask, TakeTask
  <2> QED BY <1>1, <1>2, <2>1, WorkerTaskSteps
<1>4. CASE WorkerTakesTask
  <2>1. queue_tasks' = Tail(queue_tasks) /\ queue_tasks # <<>>
        /\ queue_tasks_deferred' = queue_tasks_deferred
    BY <1>4 DEF WorkerTakesTask, TakeTask
  <2>2. Tail(queue_tasks) \in Seq(GoodTask)
    BY <1>1, <2>1, HeadTailProperties
  <2> QED BY <1>1, <1>3, <2>1, <2>2 DEF GoodInv
<1>5. CASE DeferTask
  <2>1. cur \in DeferrableTask
    BY <1>1, <1>5 DEF DeferTask, DeferrableTask
  <2>2. Append(queue_tasks_deferred, cur) \in Seq(DeferrableTask)
    BY <1>1, <2>1
  <2> QED BY <1>1, <1>3, <1>5, <2>2 DEF GoodInv, DeferTask, Defer
<1>6. CASE PopDeferredTask
  <2>1. CASE queue_tasks_deferred = <<>>
    BY <1>1, <1>3, <1>6, <2>1 DEF GoodInv, PopDeferredTask
  <2>2. CASE queue_tasks_deferred # <<>>
    <3> DEFINE x == Head(queue_tasks_deferred)
    <3>1. x \in GoodTask /\ Tail(queue_tasks_deferred) \in Seq(DeferrableTask)
      BY <1>1, <2>2, HeadTailProperties DEF DeferrableTask
    <3> HIDE DEF x
    <3>2. Append(queue_tasks, x) \in Seq(GoodTask)
      BY <1>1, <3>1
    <3> QED BY <1>3, <1>6, <2>2, <3>1, <3>2 DEF GoodInv, PopDeferredTask, x
  <2> QED BY <2>1, <2>2
<1>7. CASE PostBack(<<NextResponse>>)
  <2>1. queue_tasks \o <<NextResponse>> \in Seq(GoodTask)
    BY <1>1, <1>2
  <2> QED BY <1>1, <1>3, <1>7, <2>1 DEF GoodInv, PostBack
<1>8. CASE UNCHANGED queueVars \/ StartLoop
  BY <1>1, <1>3, <1>8 DEF GoodInv, queueVars, StartLoop
<1> QED BY <1>4, <1>5, <1>6, <1>7, <1>8, WorkerCurSteps DEF TypeInv

\* The clean-up of a CANCEL leaves tasks without a target where they are.
LEMMA CleanupKeepsGood ==
  ASSUME NEW S \in SUBSET Task, NEW q \in Seq(S), NEW i \in TaskIds
  PROVE  /\ CleanupPendingTask(q, i) \in Seq(S)
         /\ q = <<>> => CleanupPendingTask(q, i) = <<>>
         /\ (\A x \in S : x.id # NoTask => x.id_target = NoTask) =>
               IdsIn(q) \subseteq IdsIn(CleanupPendingTask(q, i))
<1> DEFINE p == CleanupPendingTask(q, i)
<1>1. q \in Seq(Task) /\ Len(q) \in Nat /\ DOMAIN q = 1..Len(q) /\ \A k \in 1..Len(q) : q[k] \in S
  OBVIOUS
<1>2. PICK e : IsKept(q, i, Len(q), p, e)
  BY <1>1, CleanupKeeps
<1> HIDE DEF p
<1>3. p \in Seq(Task) /\ DOMAIN p = 1..Len(p) /\ Len(p) \in Nat
  BY <1>2 DEF IsKept
<1>4. \A a \in 1..Len(p) : p[a] \in S
  BY <1>1, <1>2 DEF IsKept
<1>5. p \in Seq(S)
  BY <1>3, <1>4
<1>6. ASSUME \A x \in S : x.id # NoTask => x.id_target = NoTask
      PROVE  IdsIn(q) \subseteq IdsIn(p)
  <2>1. \A j \in 1..Len(q) : q[j].id_target # i => \E a \in 1..Len(p) : p[a] = q[j]
    BY <1>2 DEF IsKept
  <2>2. i # NoTask
    BY MaxTasksAssumption DEF TaskIds, NoTask
  <2>3. \A j \in 1..Len(q) : q[j].id # NoTask => \E a \in 1..Len(p) : p[a] = q[j]
    BY <1>1, <1>6, <2>1, <2>2
  <2> QED BY <1>1, <1>3, <2>3 DEF IdsIn
<1>7. ASSUME q = <<>> PROVE p = <<>>
  <2>1. e \in [1..Len(p) -> 1..0]
    BY <1>2, <1>7 DEF IsKept
  <2>2. Len(p) = 0
    <3>1. 1..0 = {}
      OBVIOUS
    <3>2. 1 \notin 1..Len(p)
      BY <2>1, <3>1, Zenon
    <3> QED BY <1>3, <3>2
  <2> QED BY <1>3, <2>2, EmptySeq
<1> QED BY <1>5, <1>6, <1>7 DEF p

\* The requests of the threads are posted as good tasks, and no task leaves
\* the deques in a thread's step.
LEMMA ClientGoodSteps ==
  ASSUME TypeInv, GoodInv, \A r \in Requests : r.grammar,
         NEW t \in Threads, Native(t) \/ Caller(t), UNCHANGED workerVars
  PROVE  /\ GoodInv'
         /\ IdsIn(queue_tasks) \subseteq IdsIn(queue_tasks)'
         /\ queue_tasks_deferred # <<>> \/ queue_tasks_deferred' = <<>>
<1> USE DEF TypeInv
<1>1. /\ queue_tasks \in Seq(GoodTask) /\ queue_tasks_deferred \in Seq(DeferrableTask)
      /\ cur' \in GoodTask
      /\ queue_tasks \in Seq(Task)
  BY DEF GoodInv, workerVars, QueueTypeOK
<1>2. \A u \in Threads : call'[u].grammar
  <2>1. \/ call' = call
        \/ call' = [call EXCEPT ![t] = NoRequest]
        \/ \E r \in Requests : call' = [call EXCEPT ![t] = r]
    <3>1. CASE \E r \in Requests : Begin(t, r)
      BY <3>1 DEF Begin
    <3>2. CASE Reject(t) \/ Abandon(t) \/ ReceiveScored(t) \/ RemoveAfterFinal(t)
      BY <3>2 DEF Reject, Abandon, ReceiveScored, RemoveAfterFinal, Return
    <3>3. CASE RemoveAfterError(t)
      BY <3>3 DEF RemoveAfterError, Return
    <3>4. CASE \/ Register(t) \/ PostRequest(t) \/ ReceiveError(t) \/ ReceiveFinal(t)
               \/ ReceivePartial(t) \/ ReleaseTask(t) \/ CancelPost(t)
               \/ CancelRemoveAgain(t) \/ NextOutput(t) \/ CancelRemove(t) \/ Close(t)
      BY <3>4 DEF Register, PostRequest, ReceiveError, ReceiveFinal, ReceivePartial,
                  ReleaseTask, CancelPost, CancelRemoveAgain, NextOutput, CancelRemove,
                  Close
    <3> QED BY <3>1, <3>2, <3>3, <3>4 DEF Native, Caller
  <2>2. call \in [Threads -> Request] /\ \A u \in Threads : call[u].grammar
    BY DEF GoodInv, ClientTypeInv, ClientTypeOK
  <2>3. NoRequest.grammar
    BY DEF NoRequest
  <2>4. ASSUME NEW r, r.grammar, call' = [call EXCEPT ![t] = r], NEW u \in Threads
        PROVE  call'[u].grammar
    BY <2>2, <2>4, Zenon
  <2> QED BY <2>1, <2>2, <2>3, <2>4
<1>3. CASE UNCHANGED <<queue_tasks, queue_tasks_deferred>>
  BY <1>1, <1>2, <1>3 DEF GoodInv
<1>4. CASE PostRequest(t)
  <2>1. PICK low \in ids[t] : /\ \A i \in ids[t] : low <= i
                              /\ PostBack(TasksOf(low, call[t]))
    BY <1>4 DEF PostRequest
  <2>2. PICK first \in Nat : ids[t] = first..(first + call[t].docs - 1)
    BY <1>4 DEF PostRequest, ClientTypeInv, Numbered
  <2>3. /\ call[t] \in Request /\ call[t].docs \in Nat \ {0} /\ ids[t] \subseteq TaskIds
        /\ call[t].grammar
    BY DEF GoodInv, ClientTypeInv, ClientTypeOK, Request
  <2>4. low = first
    <3>1. first \in ids[t]
      BY <2>2, <2>3
    <3> QED BY <2>1, <2>2, <3>1
  <2>5. \A k \in 1..call[t].docs : Inference(first + k - 1, call[t]) \in GoodTask
    <3>1. TAKE k \in 1..call[t].docs
    <3>2. first + k - 1 \in TaskIds /\ first + k - 1 # NoTask
      BY <2>2, <2>3 DEF NoTask
    <3> QED BY <2>3, <3>2 DEF Inference, Task, GoodTask
  <2>6. TasksOf(first, call[t]) \in Seq(GoodTask)
    BY <2>3, <2>5 DEF TasksOf
  <2>7. /\ queue_tasks' = queue_tasks \o TasksOf(first, call[t])
        /\ queue_tasks_deferred' = queue_tasks_deferred
    BY <2>1, <2>4 DEF PostBack
  <2>8. queue_tasks' \in Seq(GoodTask)
    BY <1>1, <2>6, <2>7
  <2>9. IdsIn(queue_tasks) \subseteq IdsIn(queue_tasks)'
    <3> DEFINE p == queue_tasks \o TasksOf(first, call[t])
    <3>1. first..(first + call[t].docs - 1) \subseteq TaskIds
      BY <2>2, <2>3
    <3>2. IdsIn(queue_tasks) \subseteq IdsIn(p)
      BY <1>1, <2>3, <3>1, IdsOfRequest
    <3> QED BY <2>7, <3>2
  <2> QED BY <1>1, <1>2, <2>7, <2>8, <2>9 DEF GoodInv
<1>5. ASSUME NEW i \in TaskIds, PostCancel(i)
      PROVE  /\ GoodInv'
             /\ IdsIn(queue_tasks) \subseteq IdsIn(queue_tasks)'
             /\ queue_tasks_deferred # <<>> \/ queue_tasks_deferred' = <<>>
  <2> DEFINE p == CleanupPendingTask(queue_tasks, i)
             e == CleanupPendingTask(queue_tasks_deferred, i)
  <2>1. queue_tasks' = <<Cancel(i)>> \o p /\ queue_tasks_deferred' = e
    BY <1>5 DEF PostCancel
  <2>2. /\ GoodTask \in SUBSET Task /\ DeferrableTask \in SUBSET Task
        /\ \A x \in GoodTask : x.id # NoTask => x.id_target = NoTask
    BY DEF GoodTask, DeferrableTask
  <2>3. /\ p \in Seq(GoodTask) /\ IdsIn(queue_tasks) \subseteq IdsIn(p)
        /\ e \in Seq(DeferrableTask)
    BY <1>1, <2>2, CleanupKeepsGood
  <2>4. queue_tasks_deferred = <<>> => e = <<>>
    BY <1>1, <2>2, CleanupKeepsGood
  <2> HIDE DEF p, e
  <2>5. Cancel(i) \in GoodTask
    BY TasksTyped DEF Cancel, Task, GoodTask, NoTask
  <2>6. <<Cancel(i)>> \o p \in Seq(GoodTask)
    BY <2>3, <2>5
  <2>7. p \in Seq(Task)
    BY <2>2, <2>3
  <2>8. IdsIn(<<Cancel(i)>> \o p) = IdsIn(p)
    BY <2>7, IdsOfCancel
  <2> QED BY <1>1, <1>2, <2>1, <2>3, <2>4, <2>6, <2>8 DEF GoodInv
<1> QED
  <2>1. \A r \in Requests : Begin(t, r) => UNCHANGED <<queue_tasks, queue_tasks_deferred>>
    BY DEF Begin, GetNewIds
  <2>2. UNCHANGED queueVars \/ Terminate => UNCHANGED <<queue_tasks, queue_tasks_deferred>>
    BY DEF queueVars, Terminate
  <2> QED BY <1>3, <1>4, <1>5, <2>1, <2>2, ClientIdSteps

\* What process_single_task does with a task.
LEMMA WorkerAtProcess ==
  ASSUME WorkerTypeInv, Worker, wpc = "process"
  PROVE  LaunchSlotWithTask \/ LaunchFails \/ DeferTask \/ ProcessCancel
         \/ ProcessNextResponse
<1>1. CASE ContextOverflow \/ ReleaseFailed \/ ReleaseScored
           \/ ReleaseStopped \/ WorkerStart \/ PostNextResponse \/ AddSampledToken
           \/ PromptSkip \/ DecodeHalves \/ NextView \/ SendReply \/ WorkerTakesTask
  BY <1>1 DEF ContextOverflow, ReleaseFailed, ReleaseScored, ReleaseStopped, WorkerStart,
              PostNextResponse, AddSampledToken, PromptSkip, DecodeHalves, NextView,
              ViewDone, SendReply, WorkerTakesTask
<1>2. CASE PromptRefused \/ PromptWaits \/ PromptFill
  BY <1>2 DEF PromptRefused, PromptWaits, PromptFill, AtAccepted, AtPromptOf
<1>3. CASE SendScored \/ \E streamed, goesOn \in BOOLEAN : SampleToken(streamed, goesOn)
  BY <1>3 DEF SendScored, SampleToken, NextWithLogits
<1>4. CASE WorkerDrained \/ WorkerWakes \/ WorkerEnds \/ AllSlotsIdle \/ ContextsFit
           \/ PromptsBatched \/ DecodeSucceeds \/ DecodeFails \/ SampledTokensAdded
           \/ NoTokens \/ FailedDone \/ LastView
  BY <1>4 DEF WorkerDrained, WorkerWakes, WorkerEnds, AllSlotsIdle, ContextsFit,
              PromptsBatched, DecodeSucceeds, DecodeFails, SampledTokensAdded,
              NoTokens, FailedDone, LastView, ViewDone
<1> QED BY <1>1, <1>2, <1>3, <1>4 DEF Worker

\* No slot stops working but through release().
LEMMA WorkerStateSteps ==
  ASSUME WorkerTypeInv, Worker
  PROVE  \/ \A s \in Slots : IsProcessing(s)' = IsProcessing(s)
         \/ \E s \in Slots : IsProcessing(s)'
         \/ \E s \in Slots : Release(s)
<1> USE DEF WorkerTypeInv, WorkerTypeOK
<1>1. CASE ContextOverflow \/ PromptRefused \/ ReleaseFailed \/ ReleaseStopped
           \/ ReleaseScored
  <2>1. CASE ContextOverflow
    BY <2>1, SlotNumbers DEF ContextOverflow, ReleaseInLoop, ControlTypeOK
  <2>2. CASE PromptRefused
    BY <2>2 DEF PromptRefused, ReleaseInLoop
  <2>3. CASE ReleaseFailed
    BY <2>3, SlotNumbers DEF ReleaseFailed, ReleaseInLoop, ControlTypeOK
  <2>4. CASE ReleaseStopped
    BY <2>4 DEF ReleaseStopped, ReleaseInLoop, AtASlot
  <2>5. CASE ReleaseScored
    BY <2>5 DEF ReleaseScored, AtASlot
  <2> QED BY <1>1, <2>1, <2>2, <2>3, <2>4, <2>5
<1>2. CASE ProcessCancel
  BY <1>2 DEF ProcessCancel, IsProcessing
<1>3. CASE LaunchSlotWithTask
  <2>1. PICK s \in Slots : state' = [state EXCEPT ![s] = "STARTED"]
    BY <1>3 DEF LaunchSlotWithTask
  <2> QED BY <2>1 DEF IsProcessing, SlotsTypeOK
<1>4. CASE PromptWaits \/ PromptFill
  <2>1. PICK s \in Slots, st \in SlotStates \ {"IDLE"} : state' = [state EXCEPT ![s] = st]
    BY <1>4 DEF PromptWaits, PromptFill, SlotStates
  <2> QED BY <2>1 DEF IsProcessing, SlotsTypeOK
<1>5. ASSUME NEW streamed \in BOOLEAN, NEW goesOn \in BOOLEAN,
             SampleToken(streamed, goesOn)
      PROVE  \E s \in Slots : IsProcessing(s)'
  <2>1. PICK s \in Slots : state' = [state EXCEPT ![s] = "GENERATING"]
    BY <1>5 DEF SampleToken
  <2> QED BY <2>1 DEF IsProcessing, SlotsTypeOK
<1>6. CASE WorkerStart \/ WorkerTakesTask \/ DeferTask \/ PostNextResponse \/ LaunchFails
           \/ ProcessNextResponse \/ AddSampledToken \/ PromptSkip \/ DecodeHalves
           \/ SendScored \/ NextView \/ SendReply
  BY <1>6 DEF WorkerStart, WorkerTakesTask, DeferTask, PostNextResponse, LaunchFails,
              ProcessNextResponse, AddSampledToken, PromptSkip, DecodeHalves, SendScored,
              NextView, SendReply, slotVars, IsProcessing
<1>7. CASE WorkerDrained \/ WorkerWakes \/ WorkerEnds \/ AllSlotsIdle \/ ContextsFit
           \/ PromptsBatched \/ DecodeSucceeds \/ DecodeFails \/ SampledTokensAdded
           \/ NoTokens \/ FailedDone \/ LastView
  BY <1>7 DEF WorkerDrained, WorkerWakes, WorkerEnds, AllSlotsIdle, ContextsFit,
              PromptsBatched, DecodeSucceeds, DecodeFails, SampledTokensAdded,
              NoTokens, FailedDone, LastView, EndUpdate, Proceed, slotVars, IsProcessing
<1> QED BY <1>1, <1>2, <1>3, <1>4, <1>5, <1>6, <1>7 DEF Worker

\* The inductive invariant.
ServedInv == GoodInv /\ DeferredIsServed

\* Whatever the worker does with the last busy slot, a deferred task moves on.
LEMMA WorkerServedSteps ==
  ASSUME TypeInv, ServedInv, Worker PROVE DeferredIsServed'
<1> USE DEF TypeInv, WorkerTypeInv, WorkerTypeOK
<1> DEFINE q == IdsIn(queue_tasks)
<1>1. /\ queue_tasks \in Seq(GoodTask) /\ queue_tasks_deferred \in Seq(DeferrableTask)
      /\ queue_tasks \in Seq(Task) /\ queue_tasks_deferred \in Seq(Task) /\ cur \in GoodTask
  BY DEF ServedInv, GoodInv, QueueTypeOK
<1>2. queue_tasks_deferred # <<>> =>
         (\E s \in Slots : IsProcessing(s)) \/ q # {} \/ CurId # {}
  BY DEF ServedInv, DeferredIsServed
<1>3. ASSUME NEW s \in Slots, IsProcessing(s)' PROVE DeferredIsServed'
  BY <1>3 DEF DeferredIsServed
<1>4. CASE PopDeferredTask
  <2>1. CASE queue_tasks_deferred = <<>>
    BY <1>4, <2>1 DEF PopDeferredTask, DeferredIsServed
  <2>2. CASE queue_tasks_deferred # <<>>
    <3> DEFINE x == Head(queue_tasks_deferred)
    <3>1. x \in Task /\ x.id # NoTask
      BY <1>1, <2>2, HeadTailProperties DEF DeferrableTask, GoodTask
    <3>2. queue_tasks' = Append(queue_tasks, x)
      BY <1>4, <2>2 DEF PopDeferredTask
    <3> HIDE DEF x
    <3>3. x.id \in q'
      BY <1>1, <3>1, <3>2, IdsOfAppend
    <3> QED BY <3>3 DEF DeferredIsServed
  <2> QED BY <2>1, <2>2
<1>5. CASE LaunchSlotWithTask
  <2>1. PICK s \in Slots : state' = [state EXCEPT ![s] = "STARTED"]
    BY <1>5 DEF LaunchSlotWithTask
  <2>2. IsProcessing(s)'
    BY <2>1 DEF IsProcessing, SlotsTypeOK
  <2> QED BY <1>3, <2>2
<1>6. CASE LaunchFails
  BY <1>1, <1>6 DEF LaunchFails, GoodTask
<1>7. CASE DeferTask
  <2>1. 1 \in Slots
    BY SlotNumbers
  <2>2. IsProcessing(1)'
    BY <1>7, <2>1 DEF DeferTask, slotVars, IsProcessing
  <2> QED BY <1>3, <2>1, <2>2
<1>8. CASE WorkerTakesTask
  <2>1. /\ queue_tasks # <<>> /\ queue_tasks' = Tail(queue_tasks)
        /\ queue_tasks_deferred' = queue_tasks_deferred /\ cur' = Head(queue_tasks)
        /\ state' = state /\ wpc = "tasks" /\ wpc' = "process"
    BY <1>8 DEF WorkerTakesTask, TakeTask, WorkerAt, slotVars
  <2>2. q = q' \cup CurId' /\ CurId = {}
    <3>1. q = IdsIn(Tail(queue_tasks)) \cup ({Head(queue_tasks).id} \ {NoTask})
      BY <1>1, <2>1, IdsOfTail
    <3> QED BY <2>1, <3>1 DEF CurId
  <2> QED BY <1>2, <2>1, <2>2 DEF DeferredIsServed, IsProcessing
\* In every other step the task in the worker's hands, if any, is no request.
<1>9. ASSUME wpc = "process", ~LaunchSlotWithTask, ~LaunchFails, ~DeferTask
      PROVE  CurId = {}
  <2>1. ProcessCancel \/ ProcessNextResponse
    BY <1>9, WorkerAtProcess
  <2> QED BY <1>1, <2>1 DEF ProcessCancel, ProcessNextResponse, GoodTask, CurId
<1>10. CASE wpc' # "process" /\ (UNCHANGED queueVars \/ PostBack(<<NextResponse>>) \/ StartLoop)
            /\ CurId = {}
  <2>1. q' = q /\ queue_tasks_deferred' = queue_tasks_deferred
    <3>1. NextResponse \in Task /\ NextResponse.id = NoTask
      BY TasksTyped DEF NextResponse
    <3>2. IdsIn(Append(queue_tasks, NextResponse)) = q
      <4>1. IdsIn(Append(queue_tasks, NextResponse)) = q \cup ({NextResponse.id} \ {NoTask})
        BY <1>1, <3>1, IdsOfAppend, Zenon
      <4> QED BY <3>1, <4>1
    <3>3. queue_tasks \o <<NextResponse>> = Append(queue_tasks, NextResponse)
      BY <1>1, <3>1
    <3> QED BY <1>10, <3>2, <3>3 DEF queueVars, PostBack, StartLoop
  <2>2. CASE \A s \in Slots : IsProcessing(s)' = IsProcessing(s)
    BY <1>2, <1>10, <2>1, <2>2 DEF DeferredIsServed
  <2>3. CASE \E s \in Slots : IsProcessing(s)'
    BY <1>3, <2>3
  <2>4. CASE \E s \in Slots : Release(s)
    BY <1>2, <1>4, <1>10, <2>1, <2>4 DEF Release, DeferredIsServed, IsProcessing, SlotsTypeOK
  <2> QED BY <2>2, <2>3, <2>4, WorkerStateSteps
<1> QED BY <1>4, <1>5, <1>6, <1>7, <1>8, <1>9, <1>10, WorkerCurSteps DEF CurId

\* A deferred task is not forgotten, for any number of slots and threads, when
\* every grammar can be parsed: as long as one is deferred a slot is at work, or
\* a request is on its way to a slot. (With a grammar that cannot be parsed the
\* code breaks this promise.)
THEOREM DeferredTasksAreServed ==
  ASSUME \A r \in Requests : r.grammar
  PROVE  Spec => []DeferredIsServed
<1>1. Init => ServedInv
  <2> SUFFICES ASSUME Init PROVE ServedInv
    OBVIOUS
  <2>1. NextResponse \in GoodTask
    BY TasksTyped DEF NextResponse, GoodTask
  <2> QED BY <2>1 DEF Init, QueueInit, WorkerInit, ClientInit, NoRequest, ServedInv, GoodInv,
             DeferredIsServed
<1>2. TypeInv /\ ServedInv /\ [Next]_vars => ServedInv'
  <2> SUFFICES ASSUME TypeInv, ServedInv, [Next]_vars PROVE ServedInv'
    OBVIOUS
  <2>1. CASE Worker /\ UNCHANGED clientVars
    BY <2>1, WorkerServedSteps, WorkerGoodSteps DEF ServedInv, clientVars
  <2>2. ASSUME NEW t \in Threads, Native(t) \/ Caller(t), UNCHANGED workerVars
        PROVE  ServedInv'
    <3>1. /\ GoodInv'
          /\ IdsIn(queue_tasks) \subseteq IdsIn(queue_tasks)'
          /\ queue_tasks_deferred # <<>> \/ queue_tasks_deferred' = <<>>
      BY <2>2, ClientGoodSteps DEF ServedInv
    <3>2. DeferredIsServed'
      BY <2>2, <3>1 DEF ServedInv, DeferredIsServed, workerVars, slotVars, IsProcessing, CurId
    <3> QED BY <3>1, <3>2 DEF ServedInv
  <2>3. CASE UNCHANGED vars
    BY <2>3 DEF vars, queueVars, workerVars, clientVars, slotVars, ServedInv, GoodInv,
                DeferredIsServed, IsProcessing, CurId
  <2> QED BY <2>1, <2>2, <2>3 DEF Next, Finished
<1>3. ServedInv => DeferredIsServed
  BY DEF ServedInv
<1> QED BY <1>1, <1>2, <1>3, TypeInvHolds, PTL DEF Spec

-----------------------------------------------------------------------------
(***************************************************************************)
(* Rounds                                                                  *)
(*                                                                         *)
(* The logits a slot samples from are those of its own last token, and a   *)
(* round leaves no slot half-way (RoundInv).                               *)
(***************************************************************************)

\* The worker is at one of pcs, or sends the reply of a loop it goes back to.
Looping(pcs, loop) == wpc \in pcs \/ (wpc = "reply" /\ reply.loop = loop)

\* The slot waits for logits of the batch.
Asked(s) == state[s] \in {"DONE_PROMPT", "GENERATING"} /\ i_batch[s] # -1

LastOwnToken(s) ==
    /\ i_batch[s] < Len(batch)
    /\ batch[i_batch[s] + 1] = s
    /\ \A k \in (i_batch[s] + 2)..Len(batch) : batch[k] # s

\* Logits waited for are those of the slot's last token, and still to come.
LogitsOwed == \A s \in Slots : Asked(s) => LastOwnToken(s) /\ view <= i_batch[s]

\* A prompt that is not done has tokens left, and one that is waits for logits.
PromptCounted(s) ==
    /\ state[s] = "STARTED" => n_past[s] = 0
    /\ state[s] = "PROCESSING_PROMPT" => n_past[s] < params[s].n_prompt
    /\ state[s] = "DONE_PROMPT" => i_batch[s] # -1
PromptsCounted == \A s \in Slots : PromptCounted(s)

\* Where the worker is tells how far the batch is.
BatchCleared ==
    Looping({"load", "tasks", "process", "update", "shift", "wait", "end"}, "shift") =>
        batch = <<>> /\ view = 0
NotViewed == Looping({"sampled", "prompt"}, "prompt") => view = 0
TokensToAdd == wpc = "sampled" => \A s \in Slots : at <= s => ~Asked(s)
SeenInView ==
    Looping({"view", "scored", "stop"}, "view") =>
        \A s \in Slots : s < at /\ Asked(s) => ViewEnd <= i_batch[s]
SampledAtStop == wpc = "stop" => ~Asked(at)

\* A slot is released before its reply is sent, and all are after a failure.
ReleasedAtReply == wpc = "reply" => ~IsProcessing(at)
ReleasedSoFar ==
    Looping({"failed"}, "failed") => \A s \in Slots : s < at => ~IsProcessing(s)

Places == /\ BatchCleared /\ NotViewed /\ TokensToAdd /\ SeenInView /\ SampledAtStop
          /\ ReleasedAtReply /\ ReleasedSoFar
RoundInv == LogitsOwed /\ PromptsCounted /\ Places

-----------------------------------------------------------------------------
\* A slot as the step found it, or idle.
Kept(s) == /\ state'[s] = state[s] /\ i_batch'[s] = i_batch[s]
           /\ n_past'[s] = n_past[s] /\ params'[s] = params[s]
Settled(s) == Kept(s) \/ state'[s] = "IDLE"

\* A step that only releases slots asks for nothing.
LEMMA SettledSteps ==
  ASSUME LogitsOwed, PromptsCounted, \A s \in Slots : Settled(s),
         UNCHANGED <<batch, view>>
  PROVE  /\ LogitsOwed' /\ PromptsCounted'
         /\ \A s \in Slots : /\ Asked(s)' => Asked(s) /\ i_batch'[s] = i_batch[s]
                             /\ ~IsProcessing(s) /\ Kept(s) => ~IsProcessing(s)'
<1>1. \A s \in Slots : Asked(s)' => Asked(s) /\ i_batch'[s] = i_batch[s]
  BY DEF Settled, Kept, Asked
<1>2. LogitsOwed'
  BY <1>1 DEF LogitsOwed, LastOwnToken
<1>3. PromptsCounted'
  BY DEF PromptsCounted, PromptCounted, Settled, Kept
<1> QED BY <1>1, <1>2, <1>3 DEF Kept, IsProcessing

\* A step that leaves the slots and the batch alone.
LEMMA UnchangedRounds ==
  ASSUME WorkerTypeInv, RoundInv, UNCHANGED <<slotVars, batch, view, n_view>>,
         WorkerStart \/ WorkerTakesTask \/ WorkerDrained \/ WorkerWakes \/ WorkerEnds
         \/ DeferTask \/ ProcessNextResponse \/ AllSlotsIdle \/ PostNextResponse
         \/ ContextsFit \/ SampledTokensAdded \/ PromptSkip \/ PromptsBatched
         \/ DecodeSucceeds \/ DecodeFails \/ SendScored \/ SendReply
  PROVE  RoundInv'
<1>1. /\ \A s \in Slots : Settled(s) /\ Asked(s)' = Asked(s) /\ IsProcessing(s)' = IsProcessing(s)
      /\ UNCHANGED <<state, i_batch, batch, view, n_view>>
  BY DEF slotVars, Settled, Kept, Asked, IsProcessing
<1>2. LogitsOwed' /\ PromptsCounted'
  BY <1>1, SettledSteps DEF RoundInv
<1>3. ViewEnd' = ViewEnd
  BY <1>1 DEF ViewEnd
<1>4. batch = <<>> => \A s \in Slots : ~Asked(s)
  <2>1. SUFFICES ASSUME batch = <<>>, NEW s \in Slots, Asked(s) PROVE FALSE
    OBVIOUS
  <2>2. i_batch[s] \in Nat \cup {-1}
    BY DEF WorkerTypeInv, WorkerTypeOK, SlotsTypeOK
  <2> QED BY <2>1, <2>2 DEF RoundInv, LogitsOwed, LastOwnToken, Asked
<1>5. at \in Int /\ \A s \in Slots : s \in Int /\ s >= 1
  BY WorkerAssumption DEF Slots, WorkerTypeInv, WorkerTypeOK, ControlTypeOK
<1>6. CASE WorkerStart \/ WorkerTakesTask \/ WorkerDrained \/ WorkerWakes \/ WorkerEnds
           \/ DeferTask \/ ProcessNextResponse \/ AllSlotsIdle \/ PostNextResponse
  <2>1. wpc' \in {"tasks", "process", "update", "shift", "wait", "end"} /\ batch = <<>> /\ view = 0
    BY <1>6 DEF WorkerStart, WorkerTakesTask, WorkerDrained, WorkerWakes, WorkerEnds,
       DeferTask, ProcessNextResponse, AllSlotsIdle, PostNextResponse, TaskDone, Proceed,
       WorkerAt, RoundInv, Places, BatchCleared, Looping
  <2>2. Places'
    BY <1>1, <2>1 DEF Places, BatchCleared, NotViewed, TokensToAdd, SeenInView, SampledAtStop,
       ReleasedAtReply, ReleasedSoFar, Looping
  <2> QED BY <1>2, <2>2 DEF RoundInv
<1>7. CASE ContextsFit
  <2>1. wpc' = "sampled" /\ batch = <<>> /\ view = 0
    BY <1>7 DEF ContextsFit, Proceed, WorkerAt, RoundInv, Places, BatchCleared, Looping
  <2>2. Places'
    BY <1>1, <1>4, <2>1 DEF Places, BatchCleared, NotViewed, TokensToAdd, SeenInView, SampledAtStop,
       ReleasedAtReply, ReleasedSoFar, Looping
  <2> QED BY <1>2, <2>2 DEF RoundInv
<1>8. CASE SampledTokensAdded \/ PromptSkip \/ PromptsBatched
  <2>1. wpc' \in {"prompt", "decode"} /\ view = 0
    BY <1>8 DEF SampledTokensAdded, PromptSkip, PromptsBatched, Proceed, WorkerAt, RoundInv,
       Places, NotViewed, Looping
  <2>2. Places'
    BY <1>1, <2>1 DEF Places, BatchCleared, NotViewed, TokensToAdd, SeenInView, SampledAtStop,
       ReleasedAtReply, ReleasedSoFar, Looping
  <2> QED BY <1>2, <2>2 DEF RoundInv
<1>9. CASE DecodeSucceeds \/ DecodeFails
  <2>1. wpc' \in {"view", "failed"} /\ at' = 1
    BY <1>9 DEF DecodeSucceeds, DecodeFails, Proceed, WorkerAt
  <2>2. Places'
    BY <1>1, <1>5, <2>1 DEF Places, BatchCleared, NotViewed, TokensToAdd, SeenInView, SampledAtStop,
       ReleasedAtReply, ReleasedSoFar, Looping
  <2> QED BY <1>2, <2>2 DEF RoundInv
<1>10. CASE SendScored
  <2>1. PICK s \in Slots : NextWithLogits(s) /\ WorkerAt("scored", s)
    BY <1>10 DEF SendScored
  <2>2. \A u \in Slots : u < s /\ Asked(u) => ViewEnd <= i_batch[u]
    <3>1. SUFFICES ASSUME NEW u \in Slots, u < s, Asked(u), at <= u PROVE ViewEnd <= i_batch[u]
      BY <1>5, <2>1 DEF NextWithLogits, RoundInv, Places, SeenInView, Looping
    <3>2. ~HasLogits(u) /\ view <= i_batch[u]
      BY <1>5, <2>1, <3>1 DEF NextWithLogits, RoundInv, LogitsOwed
    <3>3. i_batch[u] \in Int /\ ViewEnd \in Int
      BY DEF ViewEnd, WorkerTypeInv, WorkerTypeOK, SlotsTypeOK, BatchTypeOK
    <3> QED BY <3>1, <3>2, <3>3 DEF HasLogits, Asked
  <2>3. Places'
    BY <1>1, <1>3, <2>1, <2>2 DEF WorkerAt, Places, BatchCleared, NotViewed, TokensToAdd, SeenInView, SampledAtStop,
       ReleasedAtReply, ReleasedSoFar, Looping
  <2> QED BY <1>2, <2>3 DEF RoundInv
<1>11. CASE SendReply
  <2>1. /\ wpc = "reply" /\ wpc' = reply.loop /\ at' = at + 1
        /\ reply.loop \in {"shift", "prompt", "failed", "view"} /\ ~IsProcessing(at)
        /\ ~Asked(at)
    BY <1>11 DEF SendReply, WorkerAt, WorkerTypeInv, WorkerTypeOK, ControlTypeOK, Reply,
       RoundInv, Places, ReleasedAtReply, IsProcessing, Asked
  <2>2. \A s \in Slots : s < at + 1 => s < at \/ s = at
    BY <1>5
  <2>3. Places'
    BY <1>1, <1>3, <2>1, <2>2 DEF RoundInv, Places, BatchCleared, NotViewed, TokensToAdd, SeenInView, SampledAtStop,
       ReleasedAtReply, ReleasedSoFar, Looping
  <2> QED BY <1>2, <2>3 DEF RoundInv
<1> QED BY <1>6, <1>7, <1>8, <1>9, <1>10, <1>11

\* A slot is released, in the loop at it or by a CANCEL.
LEMMA ReleasedRounds ==
  ASSUME WorkerTypeInv, RoundInv,
         ProcessCancel \/ ContextOverflow \/ PromptRefused \/ ReleaseFailed
         \/ ReleaseScored \/ ReleaseStopped
  PROVE  RoundInv'
<1> USE DEF WorkerTypeInv, WorkerTypeOK, SlotsTypeOK
<1>1. at \in Int /\ \A s \in Slots : s \in Int /\ s >= 1
  BY WorkerAssumption DEF Slots, ControlTypeOK
<1>2. CASE ProcessCancel
  <2>1. /\ wpc = "process" /\ wpc' = "tasks" /\ \A s \in Slots : Settled(s)
        /\ UNCHANGED <<batch, view>>
    BY <1>2 DEF ProcessCancel, Release, TaskDone, WorkerAt, batchVars, Settled, Kept
  <2>2. LogitsOwed' /\ PromptsCounted'
    BY <2>1, SettledSteps DEF RoundInv
  <2>3. Places'
    BY <2>1 DEF RoundInv, Places, BatchCleared, NotViewed, TokensToAdd, SeenInView,
       SampledAtStop, ReleasedAtReply, ReleasedSoFar, Looping
  <2> QED BY <2>2, <2>3 DEF RoundInv
\* The other releases are of the slot the loop is at, or goes on to.
<1>3. ASSUME NEW s \in Slots, Release(s), UNCHANGED <<params, n_past, batch, view, n_view>>,
             \A u \in Slots : u = s \/ i_batch'[u] = i_batch[u]
      PROVE  /\ LogitsOwed' /\ PromptsCounted' /\ ViewEnd' = ViewEnd
             /\ \A u \in Slots : /\ Asked(u)' => Asked(u) /\ i_batch'[u] = i_batch[u]
                                 /\ ~IsProcessing(u) => ~IsProcessing(u)'
             /\ ~Asked(s)' /\ ~IsProcessing(s)'
  <2>1. \A u \in Slots : Settled(u)
    BY <1>3 DEF Release, Settled, Kept
  <2>2. state'[s] = "IDLE" /\ ViewEnd' = ViewEnd
    BY <1>3 DEF Release, ViewEnd
  <2> QED BY <1>3, <2>1, <2>2, SettledSteps DEF RoundInv, IsProcessing, Asked, Settled, Kept
<1>4. CASE ReleaseScored
  <2>1. PICK s \in Slots : s = at
    BY <1>4 DEF ReleaseScored, AtASlot
  <2>2. /\ Release(s) /\ UNCHANGED <<params, n_past, batch, view, n_view>>
        /\ \A u \in Slots : u = s \/ i_batch'[u] = i_batch[u]
        /\ wpc = "scored" /\ wpc' = "view" /\ at' = s + 1
    BY <1>4, <2>1 DEF ReleaseScored, batchVars, WorkerAt
  <2>3. /\ LogitsOwed' /\ PromptsCounted' /\ ViewEnd' = ViewEnd /\ ~Asked(s)'
        /\ \A u \in Slots : Asked(u)' => Asked(u) /\ i_batch'[u] = i_batch[u]
    BY <1>3, <2>2
  <2>4. \A u \in Slots : u < s + 1 => u < at \/ u = s
    BY <1>1, <2>1
  <2>5. Places'
    BY <2>2, <2>3, <2>4 DEF RoundInv, Places, BatchCleared, NotViewed, TokensToAdd, SeenInView,
       SampledAtStop, ReleasedAtReply, ReleasedSoFar, Looping
  <2> QED BY <2>3, <2>5 DEF RoundInv
<1>5. ASSUME NEW s \in Slots, NEW kind, NEW loop, ReleaseInLoop(s, kind, loop),
             UNCHANGED <<batch, view, n_view>>,
             \/ loop = "shift" /\ wpc = "shift"
             \/ loop = "prompt" /\ wpc = "prompt"
             \/ loop = "failed" /\ wpc = "failed" /\ at = s
             \/ loop = "view" /\ wpc = "stop" /\ at = s
      PROVE  RoundInv'
  <2>1. /\ LogitsOwed' /\ PromptsCounted' /\ ViewEnd' = ViewEnd /\ ~IsProcessing(s)'
        /\ \A u \in Slots : /\ Asked(u)' => Asked(u) /\ i_batch'[u] = i_batch[u]
                            /\ ~IsProcessing(u) => ~IsProcessing(u)'
    BY <1>3, <1>5 DEF ReleaseInLoop
  <2>2. wpc' = "reply" /\ at' = s /\ reply'.loop = loop
    BY <1>5 DEF ReleaseInLoop, WorkerAt
  <2>3. Places'
    BY <1>5, <2>1, <2>2 DEF RoundInv, Places, BatchCleared, NotViewed, TokensToAdd, SeenInView,
       SampledAtStop, ReleasedAtReply, ReleasedSoFar, Looping
  <2> QED BY <2>1, <2>3 DEF RoundInv
<1>6. CASE ContextOverflow
  BY <1>5, <1>6, SlotNumbers DEF ContextOverflow, ControlTypeOK, batchVars
<1>7. CASE PromptRefused
  BY <1>5, <1>7 DEF PromptRefused, AtPromptOf
<1>8. CASE ReleaseFailed
  BY <1>5, <1>8, SlotNumbers DEF ReleaseFailed, ControlTypeOK, batchVars
<1>9. CASE ReleaseStopped
  BY <1>5, <1>9 DEF ReleaseStopped, AtASlot, batchVars
<1> QED BY <1>2, <1>4, <1>6, <1>7, <1>8, <1>9

\* A slot is bound to a task: what it asked of old batches is void.
LEMMA LaunchRounds ==
  ASSUME WorkerTypeInv, RoundInv, LaunchSlotWithTask \/ LaunchFails
  PROVE  RoundInv'
<1> USE DEF WorkerTypeInv, WorkerTypeOK, SlotsTypeOK
<1>1. wpc = "process" /\ wpc' = "tasks" /\ UNCHANGED <<batch, view>>
  BY DEF LaunchSlotWithTask, LaunchFails, TaskDone, WorkerAt, batchVars
<1>2. PICK s \in Slots : BindSlot(s) /\ (state' = state \/ state' = [state EXCEPT ![s] = "STARTED"])
  BY DEF LaunchSlotWithTask, LaunchFails
<1>3. /\ state'[s] \in {"IDLE", "STARTED"} /\ n_past'[s] = 0
      /\ \A u \in Slots : u # s => Kept(u)
  BY <1>2 DEF BindSlot, IsProcessing, Kept
<1>4. \A u \in Slots : Asked(u)' => u # s /\ Asked(u) /\ i_batch'[u] = i_batch[u]
  BY <1>3 DEF Asked, Kept
<1>5. LogitsOwed'
  BY <1>1, <1>4 DEF RoundInv, LogitsOwed, LastOwnToken
<1>6. PromptsCounted'
  BY <1>3 DEF RoundInv, PromptsCounted, PromptCounted, Kept
<1>7. Places'
  BY <1>1 DEF RoundInv, Places, BatchCleared, NotViewed, TokensToAdd, SeenInView,
       SampledAtStop, ReleasedAtReply, ReleasedSoFar, Looping
<1> QED BY <1>5, <1>6, <1>7 DEF RoundInv

\* update_slots returns: nothing is asked for.
LEMMA EndedRounds ==
  ASSUME WorkerTypeInv, RoundInv, NoTokens \/ FailedDone \/ LastView
  PROVE  RoundInv'
<1> USE DEF WorkerTypeInv, WorkerTypeOK, SlotsTypeOK
<1>1. EndUpdate
  BY DEF NoTokens, FailedDone, LastView
<1>2. at \in Int /\ \A s \in Slots : s \in Int /\ s >= 1 /\ s <= NSlots
  BY WorkerAssumption DEF Slots, ControlTypeOK
<1>3. \A s \in Slots : ~Asked(s)
  <2>1. CASE NoTokens
    BY <2>1 DEF NoTokens, RoundInv, LogitsOwed, LastOwnToken, Asked
  <2>2. CASE FailedDone
    <3>1. wpc = "failed" /\ \A s \in Slots : s < at
      BY <1>2, <2>2, WorkerAssumption DEF FailedDone
    <3>2. \A s \in Slots : state[s] = "IDLE"
      BY <3>1 DEF RoundInv, Places, ReleasedSoFar, Looping, IsProcessing
    <3> QED BY <3>2 DEF Asked
  <2>3. CASE LastView
    <3>1. SUFFICES ASSUME NEW s \in Slots, Asked(s) PROVE FALSE
      OBVIOUS
    <3>2. i_batch[s] < Len(batch) /\ view <= i_batch[s] /\ ViewEnd = Len(batch)
      BY <2>3, <3>1 DEF LastView, RoundInv, LogitsOwed, LastOwnToken, ViewEnd, BatchTypeOK
    <3>3. ~(s < at) /\ ~HasLogits(s)
      <4>1. ~(Len(batch) <= i_batch[s])
        <5>1. Len(batch) \in Nat /\ i_batch[s] \in Int
          BY <3>1 DEF BatchTypeOK
        <5> QED BY <3>2, <5>1
      <4>2. ~(s < at)
        BY <2>3, <3>1, <3>2, <4>1 DEF LastView, ViewDone, RoundInv, Places, SeenInView, Looping
      <4> QED BY <1>2, <2>3, <4>2 DEF LastView, ViewDone
    <3> QED BY <3>1, <3>2, <3>3 DEF HasLogits, Asked
  <2> QED BY <2>1, <2>2, <2>3
<1>4. wpc' = "wait" /\ batch' = <<>> /\ view' = 0 /\ UNCHANGED slotVars
  BY <1>1 DEF EndUpdate, WorkerAt
<1>5. LogitsOwed' /\ PromptsCounted'
  BY <1>3, <1>4 DEF slotVars, RoundInv, LogitsOwed, Asked, PromptsCounted, PromptCounted
<1>6. Places'
  BY <1>4 DEF Places, BatchCleared, NotViewed, TokensToAdd, SeenInView,
       SampledAtStop, ReleasedAtReply, ReleasedSoFar, Looping
<1> QED BY <1>5, <1>6 DEF RoundInv

\* A slot adds tokens of its own to the batch: the others' stay the last of
\* theirs, and its own logits are those of the last one added.
LEMMA BatchExtended ==
  ASSUME WorkerTypeInv, LogitsOwed, NEW s \in Slots, NEW n \in Nat,
         Len(batch') = Len(batch) + n,
         \A k \in 1..Len(batch) : batch'[k] = batch[k],
         \A k \in (Len(batch) + 1)..(Len(batch) + n) : batch'[k] = s,
         view' = view, view = 0,
         \A u \in Slots : u # s => Kept(u),
         Asked(s)' => n # 0 /\ i_batch'[s] = Len(batch) + n - 1
  PROVE  LogitsOwed'
<1> USE DEF WorkerTypeInv, WorkerTypeOK, SlotsTypeOK
<1>1. Len(batch) \in Nat
  BY DEF BatchTypeOK
<1>2. ASSUME NEW u \in Slots, u # s, Asked(u)' PROVE LastOwnToken(u)' /\ view' <= i_batch'[u]
  <2>1. /\ Asked(u) /\ i_batch'[u] = i_batch[u] /\ i_batch[u] \in Nat
        /\ LastOwnToken(u) /\ view <= i_batch[u]
    BY <1>2 DEF Kept, Asked, LogitsOwed
  <2>2. ASSUME NEW k \in (i_batch[u] + 2)..Len(batch') PROVE batch'[k] # u
    <3>1. CASE k <= Len(batch)
      <4>1. k \in (i_batch[u] + 2)..Len(batch) /\ k \in 1..Len(batch)
        BY <1>1, <2>1, <2>2, <3>1
      <4> QED BY <2>1, <4>1 DEF LastOwnToken
    <3>2. CASE ~(k <= Len(batch))
      <4>1. k \in (Len(batch) + 1)..(Len(batch) + n)
        BY <1>1, <2>1, <2>2, <3>2
      <4> QED BY <1>2, <4>1
    <3> QED BY <3>1, <3>2
  <2>3. i_batch[u] < Len(batch') /\ batch'[i_batch[u] + 1] = u
    <3>1. i_batch[u] < Len(batch) /\ i_batch[u] + 1 \in 1..Len(batch)
      BY <1>1, <2>1 DEF LastOwnToken
    <3>2. batch'[i_batch[u] + 1] = batch[i_batch[u] + 1]
      BY <3>1
    <3>3. batch[i_batch[u] + 1] = u
      BY <2>1 DEF LastOwnToken
    <3> QED BY <1>1, <2>1, <3>1, <3>2, <3>3
  <2> QED BY <2>1, <2>2, <2>3 DEF LastOwnToken
<1>3. ASSUME Asked(s)' PROVE LastOwnToken(s)' /\ view' <= i_batch'[s]
  <2>1. /\ n # 0 /\ i_batch'[s] = Len(batch) + n - 1 /\ i_batch'[s] + 1 = Len(batch) + n
        /\ Len(batch) + n \in (Len(batch) + 1)..(Len(batch) + n)
    BY <1>1, <1>3
  <2>2. batch'[i_batch'[s] + 1] = s
    BY <2>1
  <2>3. /\ i_batch'[s] < Len(batch') /\ view' <= i_batch'[s]
        /\ (i_batch'[s] + 2)..Len(batch') = {}
    BY <1>1, <2>1
  <2> QED BY <2>2, <2>3 DEF LastOwnToken
<1> QED BY <1>2, <1>3 DEF LogitsOwed

\* The token sampled last enters the batch, and its logits are asked for.
LEMMA AddSampledRounds ==
  ASSUME WorkerTypeInv, RoundInv, AddSampledToken PROVE RoundInv'
<1> USE DEF WorkerTypeInv, WorkerTypeOK, SlotsTypeOK
<1>1. PICK s \in at..NSlots : /\ AddsToken(s) /\ batch' = Append(batch, s)
                              /\ i_batch' = [i_batch EXCEPT ![s] = Len(batch)]
                              /\ WorkerAt("sampled", s + 1)
  BY DEF AddSampledToken
<1>2. /\ s \in Slots /\ at \in Int /\ s \in Int /\ at <= s
      /\ \A u \in Slots : u \in Int
  BY <1>1, SlotNumbers, WorkerAssumption DEF ControlTypeOK, Slots
<1>3. /\ wpc = "sampled" /\ wpc' = "sampled" /\ at' = s + 1 /\ view = 0
      /\ UNCHANGED <<state, params, n_past, view, n_view>> /\ state[s] = "GENERATING"
  BY <1>1 DEF AddSampledToken, WorkerAt, AddsToken, RoundInv, Places, NotViewed, Looping
<1>4. /\ i_batch'[s] = Len(batch) /\ \A u \in Slots : u # s => Kept(u)
  BY <1>1, <1>2, <1>3 DEF Kept
<1>5. /\ Len(batch) \in Nat /\ Len(batch') = Len(batch) + 1
      /\ \A k \in 1..Len(batch) : batch'[k] = batch[k]
      /\ \A k \in (Len(batch) + 1)..(Len(batch) + 1) : batch'[k] = s
  <2>1. batch \in Seq(Slots) /\ Len(batch) \in Nat
    BY DEF BatchTypeOK
  <2> QED BY <1>1, <1>2, <2>1
<1>6. LogitsOwed'
  <2>1. i_batch'[s] = Len(batch) + 1 - 1
    BY <1>4, <1>5
  <2>2. LogitsOwed /\ view = 0 /\ view' = view /\ Len(batch') = Len(batch) + 1
    BY <1>3, <1>5 DEF RoundInv
  <2>3. /\ \A k \in 1..Len(batch) : batch'[k] = batch[k]
        /\ \A k \in (Len(batch) + 1)..(Len(batch) + 1) : batch'[k] = s
        /\ \A u \in Slots : u # s => Kept(u)
    BY <1>4, <1>5
  <2>4. 1 # 0 /\ 1 \in Nat /\ s \in Slots
    BY <1>2
  <2> QED BY <2>1, <2>2, <2>3, <2>4, BatchExtended
<1>7. PromptsCounted'
  BY <1>3, <1>4 DEF RoundInv, PromptsCounted, PromptCounted, Kept
<1>8. \A u \in Slots : s + 1 <= u => u # s /\ at <= u
  BY <1>2
<1>9. \A u \in Slots : s + 1 <= u => ~Asked(u)'
  BY <1>3, <1>4, <1>8 DEF RoundInv, Places, TokensToAdd, Kept, Asked
<1>10. Places'
  BY <1>3, <1>9 DEF RoundInv, Places, BatchCleared, NotViewed, TokensToAdd, SeenInView,
       SampledAtStop, ReleasedAtReply, ReleasedSoFar, Looping
<1> QED BY <1>6, <1>7, <1>10 DEF RoundInv

\* A prompt waits for a batch that holds it as a whole.
LEMMA PromptWaitsRounds ==
  ASSUME WorkerTypeInv, RoundInv, PromptWaits PROVE RoundInv'
<1> USE DEF WorkerTypeInv, WorkerTypeOK, SlotsTypeOK
<1>1. PICK s \in Slots : /\ AtAccepted(s)
                         /\ state' = [state EXCEPT ![s] = "PROCESSING_PROMPT"]
  BY DEF PromptWaits
<1>2. /\ wpc = "prompt" /\ wpc' = "prompt" /\ view = 0
      /\ UNCHANGED <<params, n_past, i_batch, batch, view>>
      /\ state[s] \in {"STARTED", "PROCESSING_PROMPT"}
      /\ state[s] = "STARTED" => params[s].n_prompt # 0
  BY <1>1 DEF PromptWaits, WorkerAt, AtAccepted, AtPromptOf, HasPrompt, RoundInv, Places,
              NotViewed, Looping
<1>3. state'[s] = "PROCESSING_PROMPT" /\ \A u \in Slots : u # s => Kept(u)
  BY <1>1, <1>2 DEF Kept
<1>4. \A u \in Slots : Asked(u)' => Asked(u) /\ i_batch'[u] = i_batch[u]
  BY <1>3 DEF Asked, Kept
<1>5. LogitsOwed'
  BY <1>2, <1>4 DEF RoundInv, LogitsOwed, LastOwnToken
<1>6. n_past[s] < params[s].n_prompt
  <2>1. params[s].n_prompt \in Nat
    BY DEF Request
  <2> QED BY <1>2, <2>1 DEF RoundInv, PromptsCounted, PromptCounted
<1>7. PromptsCounted'
  BY <1>2, <1>3, <1>6 DEF RoundInv, PromptsCounted, PromptCounted, Kept
<1>8. Places'
  BY <1>2 DEF Places, BatchCleared, NotViewed, TokensToAdd, SeenInView,
       SampledAtStop, ReleasedAtReply, ReleasedSoFar, Looping
<1> QED BY <1>5, <1>7, <1>8 DEF RoundInv

\* The tokens of one slot at the end of the batch.
LEMMA TokensAppended ==
  ASSUME NEW b \in Seq(Slots), NEW s \in Slots, NEW n \in Nat
  PROVE  LET c == b \o [k \in 1..n |-> s]
         IN  /\ Len(c) = Len(b) + n
             /\ \A k \in 1..Len(b) : c[k] = b[k]
             /\ \A k \in (Len(b) + 1)..(Len(b) + n) : c[k] = s
<1> DEFINE own == [k \in 1..n |-> s]
<1>1. own \in Seq(Slots) /\ Len(own) = n /\ \A k \in 1..n : own[k] = s
  <2>1. own \in Seq(Slots)
    OBVIOUS
  <2>2. DOMAIN own = 1..n /\ \A k \in 1..n : own[k] = s
    OBVIOUS
  <2> HIDE DEF own
  <2>3. Len(own) \in Nat /\ 1..Len(own) = 1..n
    BY <2>1, <2>2, LenProperties
  <2>4. /\ Len(own) # 0 => Len(own) \in 1..n
        /\ n # 0 => n \in 1..Len(own)
    BY <2>3
  <2>5. Len(own) = n
    BY <2>3, <2>4
  <2> QED BY <2>1, <2>2, <2>5
<1> HIDE DEF own
<1>2. /\ Len(b \o own) = Len(b) + n /\ Len(b) \in Nat
      /\ \A k \in 1..Len(b) : (b \o own)[k] = b[k]
      /\ \A k \in (Len(b) + 1)..(Len(b) + n) : (b \o own)[k] = own[k - Len(b)]
  <2>1. Len(b \o own) = Len(b) + n /\ Len(b) \in Nat
    BY <1>1
  <2>2. \A k \in 1..Len(b \o own) :
           (b \o own)[k] = IF k <= Len(b) THEN b[k] ELSE own[k - Len(b)]
    BY <1>1, ConcatProperties, Zenon
  <2> QED BY <2>1, <2>2
<1>3. \A k \in (Len(b) + 1)..(Len(b) + n) : k - Len(b) \in 1..n
  BY <1>2
<1> QED BY <1>1, <1>2, <1>3 DEF own

\* Prompt tokens enter the batch; those of a prompt that is done end with the
\* one whose logits are asked for.
LEMMA PromptFillRounds ==
  ASSUME WorkerTypeInv, RoundInv, PromptFill PROVE RoundInv'
<1> USE DEF WorkerTypeInv, WorkerTypeOK, SlotsTypeOK
<1> DEFINE room    == IF Len(batch) < NBatch THEN NBatch - Len(batch) ELSE 0
           rest(s) == params[s].n_prompt - n_past[s]
           n(s)    == IF rest(s) < room THEN rest(s) ELSE room
           done(s) == n(s) = rest(s)
<1>1. PICK s \in Slots :
         /\ AtAccepted(s)
         /\ batch' = batch \o [k \in 1..n(s) |-> s]
         /\ n_past' = [n_past EXCEPT ![s] = @ + n(s)]
         /\ state' = [state EXCEPT ![s] = IF done(s) THEN "DONE_PROMPT" ELSE "PROCESSING_PROMPT"]
         /\ i_batch' = [i_batch EXCEPT ![s] = IF done(s) THEN LastOfPrompt(n(s)) ELSE @]
         /\ wpc' \in {"decode", "prompt"}
  BY DEF PromptFill, WorkerAt
<1>2. /\ wpc = "prompt" /\ view = 0 /\ UNCHANGED <<params, view>>
      /\ state[s] \in {"STARTED", "PROCESSING_PROMPT"}
      /\ state[s] = "STARTED" => params[s].n_prompt # 0
  BY <1>1 DEF PromptFill, AtAccepted, AtPromptOf, HasPrompt, RoundInv, Places,
              NotViewed, Looping
<1>3. n_past[s] \in Nat /\ params[s].n_prompt \in Nat /\ n_past[s] < params[s].n_prompt
  <2>1. params[s].n_prompt \in Nat /\ n_past[s] \in Nat
    BY DEF Request
  <2> QED BY <1>2, <2>1 DEF RoundInv, PromptsCounted, PromptCounted
<1>4. Len(batch) \in Nat /\ room \in Nat
  BY WorkerAssumption DEF BatchTypeOK
<1>5. n(s) \in Nat /\ rest(s) \in Nat /\ rest(s) # 0 /\ n(s) <= rest(s)
  BY <1>3, <1>4
<1>6. /\ Len(batch') = Len(batch) + n(s)
      /\ \A k \in 1..Len(batch) : batch'[k] = batch[k]
      /\ \A k \in (Len(batch) + 1)..(Len(batch) + n(s)) : batch'[k] = s
  BY <1>1, <1>5, TokensAppended DEF BatchTypeOK
<1> HIDE DEF room, n
<1>7. /\ state'[s] = IF done(s) THEN "DONE_PROMPT" ELSE "PROCESSING_PROMPT"
      /\ i_batch'[s] = IF done(s) THEN Len(batch) + n(s) - 1 ELSE i_batch[s]
      /\ n_past'[s] = n_past[s] + n(s)
      /\ \A u \in Slots : u # s => Kept(u)
  BY <1>1, <1>2 DEF Kept, LastOfPrompt
<1>8. Asked(s)' => n(s) # 0 /\ i_batch'[s] = Len(batch) + n(s) - 1
  BY <1>5, <1>7 DEF Asked
<1>9. LogitsOwed'
  BY <1>2, <1>5, <1>6, <1>7, <1>8, BatchExtended DEF RoundInv
<1>10. PromptCounted(s)'
  <2>1. CASE done(s)
    <3>1. i_batch'[s] # -1
      <4>1. i_batch'[s] = Len(batch) + n(s) - 1 /\ n(s) # 0
        BY <1>5, <1>7, <2>1
      <4> QED BY <1>4, <1>5, <4>1
    <3> QED BY <1>7, <2>1, <3>1 DEF PromptCounted
  <2>2. CASE ~done(s)
    <3>1. n_past[s] + n(s) < params[s].n_prompt
      <4>1. n(s) < rest(s)
        BY <1>5, <2>2
      <4> QED BY <1>3, <1>5, <4>1
    <3> QED BY <1>2, <1>7, <2>2, <3>1 DEF PromptCounted
  <2> QED BY <2>1, <2>2
<1>11. PromptsCounted'
  BY <1>2, <1>7, <1>10 DEF RoundInv, PromptsCounted, PromptCounted, Kept
<1>12. Places'
  BY <1>1, <1>2 DEF Places, BatchCleared, NotViewed, TokensToAdd, SeenInView,
       SampledAtStop, ReleasedAtReply, ReleasedSoFar, Looping
<1> QED BY <1>9, <1>11, <1>12 DEF RoundInv

\* A token is sampled: the slot has used the logits it asked for.
LEMMA SampleTokenRounds ==
  ASSUME WorkerTypeInv, RoundInv, NEW streamed \in BOOLEAN, NEW goesOn \in BOOLEAN,
         SampleToken(streamed, goesOn)
  PROVE  RoundInv'
<1> USE DEF WorkerTypeInv, WorkerTypeOK, SlotsTypeOK
<1>1. PICK s \in Slots : /\ NextWithLogits(s)
                         /\ state' = [state EXCEPT ![s] = "GENERATING"]
                         /\ i_batch' = [i_batch EXCEPT ![s] = -1]
                         /\ WorkerAt("view", s + 1) \/ WorkerAt("stop", s)
  BY DEF SampleToken
<1>2. /\ UNCHANGED <<params, n_past, batch, view, n_view>> /\ wpc = "view"
      /\ at \in Int /\ s \in Int /\ at <= s /\ \A u \in Slots : u \in Int
      /\ \A u \in at..(s - 1) : ~HasLogits(u)
  BY <1>1, WorkerAssumption DEF SampleToken, batchVars, NextWithLogits, ControlTypeOK, Slots
<1>3. ~Asked(s)' /\ \A u \in Slots : u # s => Kept(u)
  BY <1>1, <1>2 DEF Asked, Kept
<1>4. \A u \in Slots : Asked(u)' => u # s /\ Asked(u) /\ i_batch'[u] = i_batch[u]
  BY <1>3 DEF Asked, Kept
<1>5. LogitsOwed'
  BY <1>2, <1>4 DEF RoundInv, LogitsOwed, LastOwnToken
<1>6. PromptsCounted'
  BY <1>1, <1>3 DEF RoundInv, PromptsCounted, PromptCounted, Kept
<1>7. ASSUME NEW u \in Slots, u < s, Asked(u) PROVE ViewEnd <= i_batch[u]
  <2>1. CASE u < at
    BY <1>2, <1>7, <2>1 DEF RoundInv, Places, SeenInView, Looping
  <2>2. CASE ~(u < at)
    <3>1. ~HasLogits(u) /\ view <= i_batch[u]
      BY <1>2, <1>7, <2>2 DEF RoundInv, LogitsOwed
    <3>2. i_batch[u] \in Int /\ ViewEnd \in Int
      BY DEF ViewEnd, BatchTypeOK
    <3> QED BY <1>7, <3>1, <3>2 DEF HasLogits, Asked
  <2> QED BY <2>1, <2>2
<1>8. ViewEnd' = ViewEnd
  BY <1>2 DEF ViewEnd
<1>9. \A u \in Slots : u < s + 1 => u < s \/ u = s
  BY <1>2
<1>10. (wpc' = "view" /\ at' = s + 1) \/ (wpc' = "stop" /\ at' = s)
  BY <1>1 DEF WorkerAt
<1>11. \A u \in Slots : u < at' /\ Asked(u)' => ViewEnd' <= i_batch'[u]
  BY <1>4, <1>7, <1>8, <1>9, <1>10
<1>12. wpc' = "stop" => ~Asked(at)'
  BY <1>10, <1>3 DEF Asked
<1>13. Places'
  BY <1>10, <1>11, <1>12 DEF Places, BatchCleared, NotViewed, TokensToAdd, SeenInView,
       SampledAtStop, ReleasedAtReply, ReleasedSoFar, Looping
<1> QED BY <1>5, <1>6, <1>13 DEF RoundInv

\* The next view, or the same one halved: nothing asked for was passed over.
LEMMA NextViewRounds ==
  ASSUME WorkerTypeInv, RoundInv, NextView \/ DecodeHalves
  PROVE  RoundInv'
<1> USE DEF WorkerTypeInv, WorkerTypeOK, SlotsTypeOK
<1>1. wpc' = "decode" /\ UNCHANGED <<slotVars, batch>>
  BY DEF NextView, DecodeHalves, WorkerAt
<1>2. \A u \in Slots : Kept(u) /\ Asked(u)' = Asked(u) /\ i_batch'[u] = i_batch[u]
  BY <1>1 DEF Kept, Asked, slotVars
<1>3. \A u \in Slots : Asked(u) => view' <= i_batch[u]
  <2>1. CASE DecodeHalves
    BY <2>1 DEF DecodeHalves, RoundInv, LogitsOwed
  <2>2. CASE NextView
    <3>1. SUFFICES ASSUME NEW u \in Slots, Asked(u) PROVE view' <= i_batch[u]
      OBVIOUS
    <3>2. /\ wpc = "view" /\ view' = ViewEnd /\ \A s \in at..NSlots : ~HasLogits(s)
      BY <2>2 DEF NextView, ViewDone, ViewEnd
    <3>3. CASE u < at
      BY <3>1, <3>2, <3>3 DEF RoundInv, Places, SeenInView, Looping
    <3>4. CASE ~(u < at)
      <4>1. ~HasLogits(u) /\ view <= i_batch[u]
        <5>1. u \in at..NSlots
          BY <3>4, WorkerAssumption DEF Slots, ControlTypeOK
        <5> QED BY <3>1, <3>2, <5>1 DEF RoundInv, LogitsOwed
      <4>2. i_batch[u] \in Int /\ ViewEnd \in Int
        BY DEF ViewEnd, BatchTypeOK
      <4> QED BY <3>1, <3>2, <4>1, <4>2 DEF HasLogits, Asked
    <3> QED BY <3>3, <3>4
  <2> QED BY <2>1, <2>2
<1>4. LogitsOwed'
  BY <1>1, <1>2, <1>3 DEF RoundInv, LogitsOwed, LastOwnToken
<1>5. PromptsCounted'
  BY <1>2 DEF RoundInv, PromptsCounted, PromptCounted, Kept
<1>6. Places'
  BY <1>1 DEF Places, BatchCleared, NotViewed, TokensToAdd, SeenInView,
       SampledAtStop, ReleasedAtReply, ReleasedSoFar, Looping
<1> QED BY <1>4, <1>5, <1>6 DEF RoundInv

-----------------------------------------------------------------------------
\* Every step of the worker keeps the round in order.
LEMMA WorkerRounds ==
  ASSUME WorkerTypeInv, RoundInv, Worker PROVE RoundInv'
<1>1. CASE WorkerStart \/ WorkerTakesTask \/ WorkerDrained \/ WorkerWakes \/ WorkerEnds
           \/ DeferTask \/ ProcessNextResponse \/ AllSlotsIdle \/ PostNextResponse
           \/ ContextsFit \/ SampledTokensAdded \/ PromptsBatched
           \/ DecodeSucceeds \/ DecodeFails \/ SendScored \/ SendReply
  <2>1. UNCHANGED <<slotVars, batch, view, n_view>>
    BY <1>1 DEF WorkerStart, WorkerTakesTask, WorkerDrained, WorkerWakes, WorkerEnds,
       DeferTask, ProcessNextResponse, AllSlotsIdle, PostNextResponse, ContextsFit,
       SampledTokensAdded, PromptsBatched, DecodeSucceeds, DecodeFails, SendScored,
       SendReply, Proceed, batchVars
  <2> QED BY <1>1, <2>1, UnchangedRounds
<1>2. CASE PromptSkip
  BY <1>2, UnchangedRounds DEF PromptSkip
<1>3. CASE ProcessCancel \/ ContextOverflow \/ PromptRefused \/ ReleaseFailed
           \/ ReleaseScored \/ ReleaseStopped
  BY <1>3, ReleasedRounds
<1>4. CASE LaunchSlotWithTask \/ LaunchFails
  BY <1>4, LaunchRounds
<1>5. CASE NoTokens \/ FailedDone \/ LastView
  BY <1>5, EndedRounds
<1>6. CASE AddSampledToken
  BY <1>6, AddSampledRounds
<1>7. CASE PromptWaits
  BY <1>7, PromptWaitsRounds
<1>8. CASE PromptFill
  BY <1>8, PromptFillRounds
<1>9. CASE \E streamed, goesOn \in BOOLEAN : SampleToken(streamed, goesOn)
  BY <1>9, SampleTokenRounds
<1>10. CASE NextView \/ DecodeHalves
  BY <1>10, NextViewRounds
<1> QED BY <1>1, <1>2, <1>3, <1>4, <1>5, <1>6, <1>7, <1>8, <1>9, <1>10 DEF Worker

\* The threads touch neither the slots nor the batch.
LEMMA RoundInvHolds == Spec => []RoundInv
<1>1. Init => RoundInv
  <2>1. SUFFICES ASSUME Init PROVE RoundInv
    OBVIOUS
  <2>2. /\ \A s \in Slots : state[s] = "IDLE"
        /\ wpc = "load" /\ batch = <<>> /\ view = 0
    BY <2>1 DEF Init, WorkerInit
  <2>3. LogitsOwed /\ PromptsCounted
    BY <2>2 DEF LogitsOwed, PromptsCounted, PromptCounted, Asked
  <2>4. Places
    BY <2>2 DEF Places, BatchCleared, NotViewed, TokensToAdd, SeenInView,
       SampledAtStop, ReleasedAtReply, ReleasedSoFar, Looping
  <2> QED BY <2>3, <2>4 DEF RoundInv
<1>2. TypeInv /\ RoundInv /\ [Next]_vars => RoundInv'
  <2>1. SUFFICES ASSUME TypeInv, RoundInv, [Next]_vars PROVE RoundInv'
    OBVIOUS
  <2>2. CASE Worker
    BY <2>1, <2>2, WorkerRounds DEF TypeInv
  <2>3. CASE UNCHANGED workerVars
    <3>1. UNCHANGED <<state, params, n_past, i_batch, batch, view, n_view, wpc, at, reply>>
      BY <2>3 DEF workerVars, slotVars, batchVars
    <3>2. LogitsOwed' /\ PromptsCounted'
      BY <2>1, <3>1 DEF RoundInv, LogitsOwed, LastOwnToken, Asked, PromptsCounted, PromptCounted
    <3>3. Places'
      BY <2>1, <3>1 DEF RoundInv, ViewEnd, Asked, IsProcessing, Places, BatchCleared, NotViewed, TokensToAdd, SeenInView,
       SampledAtStop, ReleasedAtReply, ReleasedSoFar, Looping
    <3> QED BY <3>2, <3>3 DEF RoundInv
  <2> QED BY <2>1, <2>2, <2>3 DEF Next, Finished, vars
<1> QED BY <1>1, <1>2, TypeInvHolds, PTL DEF Spec

\* A slot samples from the logits of its own last token, for any number of slots
\* and any batch size, however update_slots cuts the batch into views, halves
\* them and gives them up: an i_batch left over from a released slot or a failed
\* decode is never taken for a fresh one.
THEOREM LogitsAreOwn == Spec => []OwnLogits
<1>1. TypeInv /\ RoundInv => OwnLogits
  <2>1. SUFFICES ASSUME TypeInv, RoundInv, wpc = "view",
                        NEW s \in at..NSlots, HasLogits(s)
                 PROVE  /\ batch[i_batch[s] + 1] = s
                        /\ \A k \in (i_batch[s] + 2)..Len(batch) : batch[k] # s
    BY DEF OwnLogits
  <2>2. s \in Slots
    BY <2>1, SlotNumbers DEF TypeInv, WorkerTypeInv, WorkerTypeOK, ControlTypeOK
  <2>3. Asked(s)
    <3>1. view \in Nat
      BY <2>1 DEF TypeInv, WorkerTypeInv, WorkerTypeOK, BatchTypeOK
    <3>2. view <= i_batch[s] /\ state[s] \in {"DONE_PROMPT", "GENERATING"}
      BY <2>1 DEF HasLogits
    <3> QED BY <3>1, <3>2 DEF Asked
  <2> QED BY <2>1, <2>2, <2>3 DEF RoundInv, LogitsOwed, LastOwnToken
<1> QED BY <1>1, TypeInvHolds, RoundInvHolds, PTL

\* update_slots leaves no slot between its prompt and its first token, and no
\* generation waiting for logits, for any number of slots and any batch size.
THEOREM RoundsEndComplete == Spec => []RoundsAreComplete
<1>1. TypeInv /\ RoundInv => RoundsAreComplete
  <2>1. SUFFICES ASSUME TypeInv, RoundInv,
                        wpc \in {"tasks", "process", "update", "wait"}, NEW s \in Slots
                 PROVE  state[s] # "DONE_PROMPT" /\ (state[s] = "GENERATING" => i_batch[s] = -1)
    BY DEF RoundsAreComplete
  <2>2. batch = <<>>
    BY <2>1 DEF RoundInv, Places, BatchCleared, Looping
  <2>3. i_batch[s] \in Nat \cup {-1}
    BY <2>1 DEF TypeInv, WorkerTypeInv, WorkerTypeOK, SlotsTypeOK
  <2>4. ~Asked(s)
    BY <2>1, <2>2, <2>3 DEF RoundInv, LogitsOwed, LastOwnToken, Asked
  <2> QED BY <2>1, <2>4 DEF Asked, RoundInv, PromptsCounted, PromptCounted
<1> QED BY <1>1, TypeInvHolds, RoundInvHolds, PTL
=============================================================================
