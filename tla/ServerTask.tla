----------------------------- MODULE ServerTask -----------------------------
(***************************************************************************)
(* The tasks and results of server.hpp that pass between the Java threads  *)
(* and the worker: server_task and server_task_result.                     *)
(*                                                                         *)
(* The ids of NEXT_RESPONSE and CANCEL tasks are drawn from the same       *)
(* counter as those of requests, but nothing ever reads them: they are     *)
(* NoTask here, and the counter of ServerQueue counts the ids of requests. *)
(* METRICS, SLOT_* and SET_LORA tasks are never posted by jllama.cpp.      *)
(***************************************************************************)
EXTENDS Integers, Sequences

CONSTANT MaxTasks           \* bound: ids handed to requests

ASSUME MaxTasksAssumption == MaxTasks \in Nat

TaskIds == 0..(MaxTasks - 1)
NoTask == -1

\* What the server needs to know of a request. docs is the number of tasks it
\* is split into (the documents of a rerank), n_prompt the prompt length of
\* each; fits says that the prompt passes the size checks of update_slots, and
\* grammar that the sampler accepts the grammar.
Request == [type: {"COMPLETION", "EMBEDDING", "RERANK"}, stream: BOOLEAN,
            docs: Nat \ {0}, n_prompt: Nat, fits: BOOLEAN, grammar: BOOLEAN]
NoRequest == [type |-> "COMPLETION", stream |-> FALSE, docs |-> 1,
              n_prompt |-> 0, fits |-> TRUE, grammar |-> TRUE]

\* A task carries the request it runs or the id of the task it cancels.
Task == [type: {"INFERENCE", "CANCEL", "NEXT_RESPONSE"},
         id: TaskIds \cup {NoTask}, id_target: TaskIds \cup {NoTask},
         params: Request]

Inference(i, request) == [type |-> "INFERENCE", id |-> i, id_target |-> NoTask,
                          params |-> request]
Cancel(i)    == [type |-> "CANCEL", id |-> NoTask, id_target |-> i,
                 params |-> NoRequest]
NextResponse == [type |-> "NEXT_RESPONSE", id |-> NoTask, id_target |-> NoTask,
                 params |-> NoRequest]

\* partial: a streamed token, final: the end of a completion, scored: an
\* embedding or a rank, error: the failure of the task. n is the number of
\* tokens decoded when the result was made.
Result == [kind: {"partial", "final", "scored", "error"}, n: Nat]
=============================================================================
