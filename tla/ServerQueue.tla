---------------------------- MODULE ServerQueue ----------------------------
(***************************************************************************)
(* The task queue of the server: struct server_queue of server.hpp.        *)
(* Every operator below that primes a variable is one critical section of  *)
(* mutex_tasks; LlamaServer composes them with the threads that call them. *)
(***************************************************************************)
EXTENDS ServerTask

VARIABLES
    id,                     \* the next id get_new_id() hands out
    running,                \* cleared by terminate(), set by start_loop()
    queue_tasks,            \* the deque the worker drains
    queue_tasks_deferred    \* inference tasks that found no free slot

queueVars == <<id, running, queue_tasks, queue_tasks_deferred>>

\* The ids of the requests whose task is in the deque q.
IdsIn(q) == {q[k].id : k \in DOMAIN q} \ {NoTask}

QueueTypeOK ==
    /\ id \in 0..MaxTasks
    /\ running \in BOOLEAN
    /\ queue_tasks \in Seq(Task)
    /\ queue_tasks_deferred \in Seq(Task)

\* `running` has no initialiser: any value until start_loop() stores to it.
QueueInit ==
    /\ id = 0
    /\ running \in BOOLEAN
    /\ queue_tasks = <<>>
    /\ queue_tasks_deferred = <<>>

-----------------------------------------------------------------------------
\* The deque q without the tasks whose target is i, the others in their order.
CleanupPendingTask(q, i) ==
    LET keep[k \in 0..Len(q)] ==
            IF k = 0 THEN <<>>
            ELSE IF q[k].id_target = i THEN keep[k - 1]
                 ELSE Append(keep[k - 1], q[k])
    IN  keep[Len(q)]

\* A request of n tasks calls get_new_id() n times. Calls of other threads in
\* between would change which number a task gets and nothing else.
GetNewIds(n) ==
    /\ id + n <= MaxTasks
    /\ id' = id + n
    /\ UNCHANGED <<running, queue_tasks, queue_tasks_deferred>>

\* post() at the back: the requests of one call (server_task vector) or a
\* single NEXT_RESPONSE.
PostBack(tasks) ==
    /\ queue_tasks' = queue_tasks \o tasks
    /\ UNCHANGED <<id, running, queue_tasks_deferred>>

\* post() of a CANCEL at the front, after the clean-up of both deques.
PostCancel(i) ==
    /\ queue_tasks' = <<Cancel(i)>> \o CleanupPendingTask(queue_tasks, i)
    /\ queue_tasks_deferred' = CleanupPendingTask(queue_tasks_deferred, i)
    /\ UNCHANGED <<id, running>>

Defer(task) ==
    /\ queue_tasks_deferred' = Append(queue_tasks_deferred, task)
    /\ UNCHANGED <<id, running, queue_tasks>>

\* Mutant: the task stays deferred as well.
PopKeepsDeferred ==
    /\ IF queue_tasks_deferred = <<>> THEN UNCHANGED queue_tasks
       ELSE queue_tasks' = Append(queue_tasks, Head(queue_tasks_deferred))
    /\ UNCHANGED <<id, running, queue_tasks_deferred>>

\* One released slot moves one deferred task, the oldest, back to the queue.
PopDeferredTask ==
    /\ IF queue_tasks_deferred = <<>>
       THEN UNCHANGED <<queue_tasks, queue_tasks_deferred>>
       ELSE /\ queue_tasks' = Append(queue_tasks, Head(queue_tasks_deferred))
            /\ queue_tasks_deferred' = Tail(queue_tasks_deferred)
    /\ UNCHANGED <<id, running>>

Terminate ==
    /\ running' = FALSE
    /\ UNCHANGED <<id, queue_tasks, queue_tasks_deferred>>

StartLoop ==
    /\ running' = TRUE
    /\ UNCHANGED <<id, queue_tasks, queue_tasks_deferred>>

\* The head of the queue leaves it (the inner loop of start_loop).
TakeTask ==
    /\ running
    /\ queue_tasks # <<>>
    /\ queue_tasks' = Tail(queue_tasks)
    /\ UNCHANGED <<id, running, queue_tasks_deferred>>
=============================================================================
