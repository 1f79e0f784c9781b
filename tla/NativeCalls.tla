----------------------------- MODULE NativeCalls -----------------------------
(***************************************************************************)
(* The Java threads inside the native methods of jllama.cpp, as            *)
(* LlamaModel and LlamaIterator call them: requestCompletion,              *)
(* receiveCompletion, releaseTask, cancelCompletion, embed, rerank and     *)
(* delete. A thread uses at most one iterator at a time and does not hand  *)
(* it to another thread.                                                   *)
(***************************************************************************)
EXTENDS ServerQueue, ServerResponse

CONSTANTS
    Threads,        \* Java threads that use the model
    Closers,        \* those of them that may call close()
    Requests        \* the requests they may make

\* A request with several tasks is a rerank; only generate() streams; what a
\* rerank asks for always has its separators, and only a completion brings a
\* grammar.
ASSUME NativeCallsAssumption ==
    /\ Closers \subseteq Threads
    /\ Requests \subseteq Request
    /\ \A r \in Requests :
          /\ r.docs > 1 => r.type = "RERANK"
          /\ r.stream => r.type = "COMPLETION"
          /\ r.type = "RERANK" => r.n_prompt > 0
          /\ r.type # "COMPLETION" => r.grammar

VARIABLES
    cpc,            \* per thread: where it is
    call,           \* per thread: the request it makes
    ids,            \* per thread: the ids of that request
    left,           \* per thread: the results it still has to receive
    got             \* per task: the last output its caller was given

\* How many outputs the caller was given, how long the last one was, and
\* whether it was the end.
Output == [times: Nat, n: Nat, end: {"none", "final", "scored", "error"}]

clientVars == <<cpc, call, ids, left, got>>

\* "user" is the caller's code between two calls on an iterator with a next,
\* "finished" the same after cancel() or the last output.
ClientPcs == {"idle", "register", "post", "recv", "removeAll", "removeFinal",
              "release", "user", "postCancel", "cancelRemove", "finished",
              "closed"}

ClientTypeOK ==
    /\ cpc \in [Threads -> ClientPcs]
    /\ call \in [Threads -> Request]
    /\ ids \in [Threads -> SUBSET TaskIds]
    /\ left \in [Threads -> Nat]
    /\ got \in [TaskIds -> Output]

ClientInit ==
    /\ cpc = [t \in Threads |-> "idle"]
    /\ call = [t \in Threads |-> NoRequest]
    /\ ids = [t \in Threads |-> {}]
    /\ left = [t \in Threads |-> 0]
    /\ got = [i \in TaskIds |-> [times |-> 0, n |-> 0, end |-> "none"]]

Goto(t, pc) == cpc' = [cpc EXCEPT ![t] = pc]

\* Back in the caller's code, nothing kept of the request.
Return(t) ==
    /\ Goto(t, "idle")
    /\ call' = [call EXCEPT ![t] = NoRequest]
    /\ ids' = [ids EXCEPT ![t] = {}]
    /\ left' = [left EXCEPT ![t] = 0]

-----------------------------------------------------------------------------
(* A request is made *)

\* complete(), generate(), embed() or rerank(): the tasks get their ids.
Begin(t, r) ==
    /\ cpc[t] = "idle"
    /\ GetNewIds(r.docs)
    /\ call' = [call EXCEPT ![t] = r]
    /\ ids' = [ids EXCEPT ![t] = id..(id + r.docs - 1)]
    /\ left' = [left EXCEPT ![t] = r.docs]
    /\ Goto(t, "register")
    /\ UNCHANGED <<responseVars, got>>

\* The parameters of a completion are refused after its id was drawn.
Reject(t) ==
    /\ cpc[t] = "register" /\ call[t].type = "COMPLETION"
    /\ Return(t)
    /\ UNCHANGED <<queueVars, responseVars, got>>

Register(t) ==
    /\ cpc[t] = "register"
    /\ AddWaitingTasks(ids[t])
    /\ Goto(t, "post")
    /\ UNCHANGED <<queueVars, call, ids, left, got>>

\* Mutant: the tasks are numbered from one too high.
TasksOffByOne(first, r) == [k \in 1..r.docs |-> Inference(first + k, r)]

\* The tasks of a request, one per document, under consecutive ids.
TasksOf(first, r) == [k \in 1..r.docs |-> Inference(first + k - 1, r)]

\* All tasks of the request enter the queue together. generate() returns its
\* iterator; the others go on to wait.
PostRequest(t) ==
    /\ cpc[t] = "post"
    /\ \E first \in ids[t] :
          /\ \A i \in ids[t] : first <= i
          /\ PostBack(TasksOf(first, call[t]))
    /\ Goto(t, IF call[t].stream THEN "user" ELSE "recv")
    /\ UNCHANGED <<responseVars, call, ids, left, got>>

-----------------------------------------------------------------------------
(* Its results are received *)

\* recv() in receiveCompletion, embed and rerank, when it returns a result of
\* the given kind for the id i of the thread.
Take(t, i, kind) ==
    /\ cpc[t] = "recv"
    /\ queue_results[i] # <<>>
    /\ Head(queue_results[i]).kind = kind
    /\ Recv(i, Head(queue_results[i]))
    /\ got' = [got EXCEPT ![i] =
                  [times |-> @.times + 1, n |-> Head(queue_results[i]).n,
                   end |-> IF kind = "partial" THEN "none" ELSE kind]]
    /\ UNCHANGED queueVars

\* An error: the ids of the request will be removed, then it is thrown.
ReceiveError(t) ==
    /\ \E i \in ids[t] : Take(t, i, "error")
    /\ Goto(t, "removeAll")
    /\ UNCHANGED <<call, ids, left>>

\* An embedding of an empty prompt gets the final result of a completion too.
\* embed() then removes the id and reads a key that is not there, which the
\* assertion of the json library may turn into the end of the process; here
\* every call returns.
ReceiveFinal(t) ==
    /\ \E i \in ids[t] : Take(t, i, "final")
    /\ Goto(t, "removeFinal")
    /\ UNCHANGED <<call, ids, left>>

\* A streamed output is what LlamaIterator.next() returns.
ReceivePartial(t) ==
    /\ \E i \in ids[t] : Take(t, i, "partial")
    /\ Goto(t, "user")
    /\ UNCHANGED <<call, ids, left>>

\* An embedding, or one of the ranks that rerank collects. is_stop() is not
\* set, so the ids stay registered.
ReceiveScored(t) ==
    /\ \E i \in ids[t] : Take(t, i, "scored")
    /\ IF left[t] = 1 THEN Return(t)
       ELSE /\ left' = [left EXCEPT ![t] = @ - 1]
            /\ UNCHANGED <<cpc, call, ids>>

\* After an error the ids of the request are removed one by one, and then it
\* is thrown; an iterator has a next even so.
RemoveAfterError(t) ==
    /\ cpc[t] = "removeAll"
    /\ \E i \in ids[t] :
          /\ RemoveWaitingTaskId(i)
          /\ IF call[t].stream THEN Goto(t, "user") /\ UNCHANGED <<call, ids, left>>
             ELSE IF ids[t] = {i} THEN Return(t)
             ELSE /\ ids' = [ids EXCEPT ![t] = @ \ {i}]
                  /\ UNCHANGED <<cpc, call, left>>
    /\ UNCHANGED <<queueVars, got>>

\* After the final result the id is removed, for an iterator twice: by
\* receiveCompletion and by the releaseTask of LlamaIterator.next().
RemoveAfterFinal(t) ==
    /\ cpc[t] = "removeFinal"
    /\ \E i \in ids[t] : RemoveWaitingTaskId(i)
    /\ IF call[t].stream
       THEN Goto(t, "release") /\ UNCHANGED <<call, ids, left>>
       ELSE Return(t)
    /\ UNCHANGED <<queueVars, got>>

ReleaseTask(t) ==
    /\ cpc[t] = "release"
    /\ \E i \in ids[t] : RemoveWaitingTaskId(i)
    /\ Goto(t, "finished")
    /\ UNCHANGED <<queueVars, call, ids, left, got>>

-----------------------------------------------------------------------------
(* Iterators and close() *)

\* LlamaIterator.next() while hasNext is true.
NextOutput(t) ==
    /\ cpc[t] = "user"
    /\ Goto(t, "recv")
    /\ UNCHANGED <<queueVars, responseVars, call, ids, left, got>>

\* The caller drops the iterator, at its end or before it.
Abandon(t) ==
    /\ cpc[t] \in {"user", "finished"}
    /\ Return(t)
    /\ UNCHANGED <<queueVars, responseVars, got>>

\* LlamaIterator.cancel() is possible at any time, after the end as well.
\* cancel_tasks removes the id and posts the CANCEL; cancelCompletion removes
\* the id once more.
CancelRemove(t) ==
    /\ cpc[t] \in {"user", "finished"}
    /\ \E i \in ids[t] : RemoveWaitingTaskId(i)
    /\ Goto(t, "postCancel")
    /\ UNCHANGED <<queueVars, call, ids, left, got>>

CancelPost(t) ==
    /\ cpc[t] = "postCancel"
    /\ \E i \in ids[t] : PostCancel(i)
    /\ Goto(t, "cancelRemove")
    /\ UNCHANGED <<responseVars, call, ids, left, got>>

CancelRemoveAgain(t) ==
    /\ cpc[t] = "cancelRemove"
    /\ \E i \in ids[t] : RemoveWaitingTaskId(i)
    /\ Goto(t, "finished")
    /\ UNCHANGED <<queueVars, call, ids, left, got>>

\* LlamaModel.close(): the worker is told to end; nothing is freed.
Close(t) ==
    /\ t \in Closers /\ cpc[t] = "idle"
    /\ Terminate
    /\ Goto(t, "closed")
    /\ UNCHANGED <<responseVars, call, ids, left, got>>

-----------------------------------------------------------------------------
\* What a native method goes on to do once it was called.
Native(t) ==
    \/ Register(t) \/ PostRequest(t)
    \/ ReceiveError(t) \/ ReceiveFinal(t) \/ ReceivePartial(t)
    \/ ReceiveScored(t)
    \/ RemoveAfterError(t) \/ RemoveAfterFinal(t) \/ ReleaseTask(t)
    \/ CancelPost(t) \/ CancelRemoveAgain(t)

\* What the caller may do, and the parameters may cause.
Caller(t) ==
    \/ \E r \in Requests : Begin(t, r)
    \/ Reject(t) \/ NextOutput(t) \/ Abandon(t) \/ CancelRemove(t) \/ Close(t)
=============================================================================
