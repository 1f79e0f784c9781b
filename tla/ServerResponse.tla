--------------------------- MODULE ServerResponse ---------------------------
(***************************************************************************)
(* The results on their way from the worker to the threads that wait for   *)
(* them: struct server_response of server.hpp. Each primed operator is one *)
(* critical section of mutex_results.                                      *)
(*                                                                         *)
(* queue_results is one vector in the code, which every reader scans for   *)
(* the first result of the ids it asks for; here it is cut into one        *)
(* sequence per id. A reader of a single id sees exactly the same. The     *)
(* reader of several ids (rerank) may see results of different ids in any  *)
(* order, more orders than the vector allows.                              *)
(***************************************************************************)
EXTENDS ServerTask

VARIABLES
    waiting_task_ids,       \* ids somebody waits for; others are not stored
    queue_results           \* per id, the results not yet received

responseVars == <<waiting_task_ids, queue_results>>

ResponseTypeOK ==
    /\ waiting_task_ids \subseteq TaskIds
    /\ queue_results \in [TaskIds -> Seq(Result)]

ResponseInit ==
    /\ waiting_task_ids = {}
    /\ queue_results = [i \in TaskIds |-> <<>>]

-----------------------------------------------------------------------------
AddWaitingTasks(ids) ==
    /\ waiting_task_ids' = waiting_task_ids \cup ids
    /\ UNCHANGED queue_results

\* Mutant: the pending results stay (as in remove_waiting_task_ids).
RemoveIdOnly(i) ==
    /\ waiting_task_ids' = waiting_task_ids \ {i}
    /\ UNCHANGED queue_results

\* Mutant: the id stays.
RemoveResultsOnly(i) ==
    /\ queue_results' = [queue_results EXCEPT ![i] = <<>>]
    /\ UNCHANGED waiting_task_ids

RemoveWaitingTaskId(i) ==
    /\ waiting_task_ids' = waiting_task_ids \ {i}
    /\ queue_results' = [queue_results EXCEPT ![i] = <<>>]

\* recv() returns the oldest result of one of the ids, and blocks (or scans
\* again) while there is none.
Recv(i, result) ==
    /\ queue_results[i] # <<>>
    /\ result = Head(queue_results[i])
    /\ queue_results' = [queue_results EXCEPT ![i] = Tail(@)]
    /\ UNCHANGED waiting_task_ids

\* send() drops a result nobody waits for.
Send(i, result) ==
    /\ queue_results' = IF i \in waiting_task_ids
                        THEN [queue_results EXCEPT ![i] = Append(@, result)]
                        ELSE queue_results
    /\ UNCHANGED waiting_task_ids
=============================================================================
