-------------------------- MODULE CompletionService --------------------------
(***************************************************************************)
(* What the server promises of every task, without queues, slots, locks or *)
(* threads: a task is taken once, runs once, and its caller hears of it in *)
(* order: outputs that grow while it runs, then one end. Nothing follows a *)
(* completion or an error. An embedding or a rank may be taken back by an  *)
(* error: its slot keeps the id, a decode that fails later tells idle      *)
(* slots too, and rerank() still listens for its other documents.          *)
(***************************************************************************)
EXTENDS Integers

CONSTANT Ids

VARIABLES
    life,       \* per task: unborn, pending, running or over
    heard       \* per task: how many outputs its caller got, and the last

serviceVars == <<life, heard>>

Ends == {"final", "scored", "error"}

ServiceInit ==
    /\ life = [i \in Ids |-> "unborn"]
    /\ heard = [i \in Ids |-> [times |-> 0, n |-> 0, end |-> "none"]]

Becomes(i, from, to) ==
    /\ life[i] = from
    /\ life' = [life EXCEPT ![i] = to]
    /\ UNCHANGED heard

\* The tasks of one request are taken together.
Accept(tasks) ==
    /\ \A i \in tasks : life[i] = "unborn"
    /\ life' = [i \in Ids |-> IF i \in tasks THEN "pending" ELSE life[i]]
    /\ UNCHANGED heard

Drop(i)   == Becomes(i, "unborn", "over")
Start(i)  == Becomes(i, "pending", "running")
Refuse(i) == Becomes(i, "pending", "over")
Stop(i)   == Becomes(i, "running", "over")

\* The caller of i hears something, the last it hears if end is not "none". How
\* long the output has become is for the other conjuncts to say.
Hear(i, end) ==
    /\ heard' = [heard EXCEPT ![i] = [times |-> @.times + 1,
                                     n |-> heard'[i].n, end |-> end]]
    /\ UNCHANGED life

\* Each output is longer than the one before.
HearPartial(i) ==
    /\ life[i] \in {"running", "over"}
    /\ heard[i].end = "none"
    /\ Hear(i, "none")
    /\ heard'[i].n > heard[i].n

\* A completion and an error are reported when the task is over; an embedding
\* or a rank may be reported a moment before.
HearEnd(i, end) ==
    /\ life[i] = "over" \/ (life[i] = "running" /\ end = "scored")
    /\ heard[i].end = "none" \/ (heard[i].end = "scored" /\ end = "error")
    /\ Hear(i, end)
    /\ end = "final" => heard'[i].n >= heard[i].n

ServiceNext ==
    \/ \E tasks \in SUBSET Ids : Accept(tasks)
    \/ \E i \in Ids :
          \/ Drop(i) \/ Start(i) \/ Refuse(i) \/ Stop(i) \/ HearPartial(i)
          \/ \E end \in Ends : HearEnd(i, end)

ServiceSpec == ServiceInit /\ [][ServiceNext]_serviceVars
=============================================================================
