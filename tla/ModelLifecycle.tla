---------------------------- MODULE ModelLifecycle ----------------------------
(***************************************************************************)
(* The life of LlamaModel objects: the constructor, which is loadModel of  *)
(* jllama.cpp with load_model and init of server.hpp in it, the detached   *)
(* worker thread it starts, and close(). Each way out of the three         *)
(* functions is an action, with what it leaves behind.                     *)
(*                                                                         *)
(* NativeCalls and ServerWorker begin where this module ends: with a model *)
(* that was constructed and a worker that is about to enter start_loop.    *)
(***************************************************************************)
EXTENDS Naturals

CONSTANTS
    Models,         \* the LlamaModel objects of the process
    NParallel,      \* params.n_parallel, the slots of each
    Drafted         \* those with a draft model for speculative decoding

ASSUME LifecycleAssumption ==
    /\ NParallel \in Nat \ {0} /\ Drafted \subseteq Models

VARIABLES
    backend,        \* whether llama.cpp's backend is initialised
    java,           \* what the owner of each object sees
    ctx,            \* its field ctx is set
    at,             \* how far its loadModel is
    allocated,      \* its server_context is on the heap
    server_state,   \* the variable state of loadModel
    slots,          \* how many slots it has
    batch,          \* whether its batch was allocated
    callbacks,      \* whether on_new_task and on_update_slots were called
    worker          \* its thread

serverVars == <<backend, server_state, slots, batch, callbacks>>
lifeVars   == <<serverVars, java, ctx, at, allocated, worker>>

LifeTypeOK ==
    /\ backend \in BOOLEAN
    /\ java \in [Models -> {"none", "loading", "constructed", "thrown", "closed",
                          "gone"}]
    /\ ctx \in [Models -> BOOLEAN]
    /\ at \in [Models -> {"parse", "load", "init", "ready", "register", "spawn",
                          "publish", "returned"}]
    /\ allocated \in [Models -> BOOLEAN]
    /\ server_state \in [Models -> {"LOADING_MODEL", "READY"}]
    /\ slots \in [Models -> 0..NParallel]
    /\ batch \in [Models -> BOOLEAN] /\ callbacks \in [Models -> BOOLEAN]
    /\ worker \in [Models -> {"none", "attaching", "looping", "ended"}]

\* JNI_OnLoad has run.
Init ==
    /\ backend = TRUE
    /\ java = [m \in Models |-> "none"]
    /\ ctx = [m \in Models |-> FALSE]
    /\ at = [m \in Models |-> "returned"]
    /\ allocated = [m \in Models |-> FALSE]
    /\ server_state = [m \in Models |-> "LOADING_MODEL"]
    /\ slots = [m \in Models |-> 0]
    /\ batch = [m \in Models |-> FALSE]
    /\ callbacks = [m \in Models |-> FALSE]
    /\ worker = [m \in Models |-> "none"]

Goes(m, from, to) == at[m] = from /\ at' = [at EXCEPT ![m] = to]

Becomes(m, what) == java' = [java EXCEPT ![m] = what]

-----------------------------------------------------------------------------
(* The constructor.                                                         *)

Construct(m) ==
    /\ java[m] = "none"
    /\ Becomes(m, "loading") /\ Goes(m, "returned", "parse")
    /\ UNCHANGED <<serverVars, ctx, allocated, worker>>

\* No memory for argv, or arguments that common_params_parse refuses: loadModel
\* returns as if it had succeeded.
ParseFails(m) ==
    /\ Goes(m, "parse", "returned") /\ Becomes(m, "constructed")
    /\ UNCHANGED <<serverVars, ctx, allocated, worker>>

ParseSucceeds(m) ==
    /\ Goes(m, "parse", "load")
    /\ allocated' = [allocated EXCEPT ![m] = TRUE]
    /\ UNCHANGED <<serverVars, java, ctx, worker>>

\* Mutant: loadModel goes on after the exception is pending.
LoadFailsAndGoesOn(m) ==
    /\ Goes(m, "load", "register") /\ Becomes(m, "thrown")
    /\ backend' = FALSE
    /\ UNCHANGED <<server_state, slots, batch, callbacks, ctx, allocated, worker>>

\* The model or the draft model cannot be loaded, or they do not fit together.
\* The server_context is not deleted, and the backend is that of all models.
LoadFails(m) ==
    /\ Goes(m, "load", "returned") /\ Becomes(m, "thrown")
    /\ backend' = FALSE
    /\ UNCHANGED <<server_state, slots, batch, callbacks, ctx, allocated, worker>>

LoadSucceeds(m) ==
    /\ Goes(m, "load", "init")
    /\ UNCHANGED <<serverVars, java, ctx, allocated, worker>>

\* Mutant: one slot too many.
InitSlotTooMany(m) ==
    /\ at[m] = "init" /\ slots[m] <= NParallel
    /\ slots' = [slots EXCEPT ![m] = @ + 1]
    /\ UNCHANGED <<backend, server_state, batch, callbacks, java, ctx, at,
                   allocated, worker>>

InitSlot(m) ==
    /\ at[m] = "init" /\ slots[m] < NParallel
    /\ slots' = [slots EXCEPT ![m] = @ + 1]
    /\ UNCHANGED <<backend, server_state, batch, callbacks, java, ctx, at,
                   allocated, worker>>

\* A slot's draft context or speculator cannot be created: init returns, and
\* loadModel cannot tell.
InitGivesUp(m) ==
    /\ m \in Drafted /\ slots[m] < NParallel
    /\ Goes(m, "init", "ready")
    /\ UNCHANGED <<serverVars, java, ctx, allocated, worker>>

InitEnds(m) ==
    /\ slots[m] = NParallel
    /\ Goes(m, "init", "ready")
    /\ batch' = [batch EXCEPT ![m] = TRUE]
    /\ UNCHANGED <<backend, server_state, slots, callbacks, java, ctx, allocated,
                   worker>>

\* A draft model is loaded a second time between this and the next step. If it loads,
\* that changes nothing of what is kept.
Ready(m) ==
    /\ Goes(m, "ready", "register")
    /\ server_state' = [server_state EXCEPT ![m] = "READY"]
    /\ UNCHANGED <<backend, slots, batch, callbacks, java, ctx, allocated, worker>>

\* If it does not load, loadModel says so and goes on through null pointers: where that
\* ends the process, no thread and no object of it is left.
DraftIsNull(m) ==
    /\ m \in Drafted /\ at[m] = "register"
    /\ backend' = FALSE
    /\ java' = [n \in Models |-> "gone"] /\ at' = [n \in Models |-> "returned"]
    /\ worker' = [n \in Models |-> IF worker[n] = "none" THEN "none" ELSE "ended"]
    /\ UNCHANGED <<server_state, slots, batch, callbacks, ctx, allocated>>

RegisterCallbacks(m) ==
    /\ Goes(m, "register", "spawn")
    /\ callbacks' = [callbacks EXCEPT ![m] = TRUE]
    /\ UNCHANGED <<backend, server_state, slots, batch, java, ctx, allocated, worker>>

StartWorker(m) ==
    /\ Goes(m, "spawn", "publish")
    /\ worker' = [worker EXCEPT ![m] = "attaching"]
    /\ UNCHANGED <<serverVars, java, ctx, allocated>>

Publish(m) ==
    /\ Goes(m, "publish", "returned")
    /\ ctx' = [ctx EXCEPT ![m] = TRUE] /\ Becomes(m, "constructed")
    /\ UNCHANGED <<serverVars, allocated, worker>>

-----------------------------------------------------------------------------
(* The worker thread, and close().                                          *)

\* AttachCurrentThread and start_loop, before or after a close().
EnterLoop(m) ==
    /\ worker[m] = "attaching"
    /\ worker' = [worker EXCEPT ![m] = "looping"]
    /\ UNCHANGED <<serverVars, java, ctx, at, allocated>>

\* terminate(), which ends a loop that runs; one that starts later goes on (see
\* LlamaServer). On an object without a ctx delete() goes through a null pointer:
\* the model closes only those that have one. The server_context stays.
Close(m) ==
    /\ java[m] = "constructed" /\ ctx[m]
    /\ Becomes(m, "closed")
    /\ worker' = [worker EXCEPT ![m] = IF @ = "looping" THEN "ended" ELSE @]
    /\ UNCHANGED <<serverVars, ctx, at, allocated>>

Next ==
    \E m \in Models :
        \/ Construct(m) \/ ParseFails(m) \/ ParseSucceeds(m)
        \/ LoadFails(m) \/ LoadSucceeds(m)
        \/ InitSlot(m) \/ InitGivesUp(m) \/ InitEnds(m)
        \/ Ready(m) \/ DraftIsNull(m)
        \/ RegisterCallbacks(m) \/ StartWorker(m) \/ Publish(m)
        \/ EnterLoop(m) \/ Close(m)

Spec == Init /\ [][Next]_lifeVars

-----------------------------------------------------------------------------
(* Properties.                                                              *)

\* A worker has a server to work on: it starts after load_model and init are
\* through and its callbacks are set, with all slots and the batch they share
\* (unless a draft model made init give up), and none starts for a model whose
\* constructor threw, whatever other models do meanwhile.
WorkersHaveServers ==
    \A m \in Models : worker[m] # "none" =>
        /\ allocated[m] /\ callbacks[m]
        /\ server_state[m] = "READY" /\ java[m] # "thrown"
        /\ m \notin Drafted => slots[m] = NParallel /\ batch[m]
=============================================================================
