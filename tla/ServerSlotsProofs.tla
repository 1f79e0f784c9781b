-------------------------- MODULE ServerSlotsProofs --------------------------
(***************************************************************************)
(* Workers start with a server that is complete; slots never go on from    *)
(* cells of other adapters; a task gets the best idle slot, and no slot    *)
(* stays idle while a task waits for one; prompts stay whole, and callers  *)
(* get the answers to what they asked for. All of this for any number of   *)
(* models, slots, adapters and calls, any vocabulary and any view sizes.   *)
(*                                                                         *)
(* The loops and recursions of the model are recursive functions. What     *)
(* they compute is shown by induction up to a number (UpTo), for the set   *)
(* of the numbers that have a property.                                    *)
(***************************************************************************)
EXTENDS ServerSlots, TLAPS, FiniteSetTheorems, SequenceTheorems

-----------------------------------------------------------------------------
(* The life of the models.                                                  *)

\* What init leaves behind, unless a draft model made it give up.
HasSlots(m) == m \notin Drafted => slots[m] = NParallel /\ batch[m]

\* How far loadModel is tells what there is, and the worker comes last.
Staged(m) ==
    /\ at[m] # "returned" => java[m] = "loading"
    /\ at[m] \in {"parse", "load", "init", "ready", "register", "spawn"} =>
          worker[m] = "none"
    /\ at[m] \in {"load", "init", "ready", "register", "spawn"} => allocated[m]
    /\ at[m] \in {"ready", "register", "spawn"} => HasSlots(m)
    /\ at[m] \in {"register", "spawn"} => server_state[m] = "READY"
    /\ at[m] = "spawn" => callbacks[m]
    /\ java[m] = "none" => worker[m] = "none"

HasServer(m) ==
    worker[m] # "none" =>
        /\ allocated[m] /\ callbacks[m]
        /\ server_state[m] = "READY" /\ java[m] # "thrown"
        /\ HasSlots(m)

LifeInv == LifeTypeOK /\ \A m \in Models : Staged(m) /\ HasServer(m)

LEMMA LifeInit == Init => LifeInv
BY LifecycleAssumption DEF Init, LifeInv, LifeTypeOK, Staged, HasServer, HasSlots

\* Every step of a model keeps the stages, its own and those of the others.
LEMMA LifeStep ==
    ASSUME LifeInv, NEW m \in Models,
           \/ Construct(m) \/ ParseFails(m) \/ ParseSucceeds(m)
           \/ LoadFails(m) \/ LoadSucceeds(m)
           \/ InitSlot(m) \/ InitGivesUp(m) \/ InitEnds(m)
           \/ Ready(m) \/ DraftIsNull(m)
           \/ RegisterCallbacks(m) \/ StartWorker(m) \/ Publish(m)
           \/ EnterLoop(m) \/ Close(m)
    PROVE  LifeInv'
<1> USE LifecycleAssumption DEF LifeInv, LifeTypeOK, Staged, HasServer, HasSlots,
        Goes, Becomes, serverVars
<1>1. CASE Construct(m)
  BY <1>1 DEF Construct
<1>2. CASE ParseFails(m)
  BY <1>2 DEF ParseFails
<1>3. CASE ParseSucceeds(m)
  BY <1>3 DEF ParseSucceeds
<1>4. CASE LoadFails(m)
  <2>1. LifeTypeOK'
    BY <1>4 DEF LoadFails
  <2>2. ASSUME NEW n \in Models
        PROVE  Staged(n)' /\ HasServer(n)'
    BY <1>4 DEF LoadFails
  <2> QED
    BY <2>1, <2>2
<1>5. CASE LoadSucceeds(m)
  BY <1>5 DEF LoadSucceeds
<1>6. CASE InitSlot(m)
  BY <1>6 DEF InitSlot
<1>7. CASE InitGivesUp(m)
  BY <1>7 DEF InitGivesUp
<1>8. CASE InitEnds(m)
  BY <1>8 DEF InitEnds
<1>9. CASE Ready(m)
  BY <1>9 DEF Ready
<1>10. CASE RegisterCallbacks(m)
  BY <1>10 DEF RegisterCallbacks
<1>11. CASE StartWorker(m)
  BY <1>11 DEF StartWorker
<1>12. CASE Publish(m)
  BY <1>12 DEF Publish
<1>13. CASE EnterLoop(m)
  BY <1>13 DEF EnterLoop
<1>14. CASE Close(m)
  BY <1>14 DEF Close
<1>15. CASE DraftIsNull(m)
  <2>1. LifeTypeOK'
    BY <1>15 DEF DraftIsNull
  <2>2. ASSUME NEW n \in Models
        PROVE  Staged(n)' /\ HasServer(n)'
    BY <1>15 DEF DraftIsNull
  <2> QED
    BY <2>1, <2>2
<1> QED
  BY <1>1, <1>2, <1>3, <1>4, <1>5, <1>6, <1>7, <1>8, <1>9, <1>10, <1>11, <1>12,
     <1>13, <1>14, <1>15

LEMMA LifeStutters == LifeInv /\ UNCHANGED lifeVars => LifeInv'
BY DEF LifeInv, LifeTypeOK, Staged, HasServer, HasSlots, lifeVars, serverVars

\* The stages are kept while calls are served, too.
LEMMA LifeNext == LifeInv /\ [SlotsNext]_vars => LifeInv'
<1> SUFFICES ASSUME LifeInv, [SlotsNext]_vars PROVE LifeInv'
  OBVIOUS
<1>1. CASE Next
  BY <1>1, LifeStep DEF Next
<1>2. CASE UNCHANGED lifeVars
  BY <1>2, LifeStutters
<1>3. Next \/ UNCHANGED lifeVars
  BY DEF SlotsNext, vars, Tick, Call, LaunchTask, DeferTask, Cancel, Round
<1> QED
  BY <1>1, <1>2, <1>3

\* The objects of a process keep their types, with as many slots as were asked for
\* or fewer, whatever calls the models serve meanwhile.
THEOREM LifecycleTypeCorrect == SlotsSpec => []LifeTypeOK
<1>1. ServerInit => LifeInv
  BY LifeInit DEF ServerInit
<1>2. LifeInv => LifeTypeOK
  BY DEF LifeInv
<1> QED
  BY <1>1, <1>2, LifeNext, PTL DEF SlotsSpec

\* No worker starts before its server is complete, nor for a constructor that threw:
\* for any number of models that load, fail and close around it.
THEOREM WorkersStartWithServers == SlotsSpec => []WorkersHaveServers
<1>1. ServerInit => LifeInv
  BY LifeInit DEF ServerInit
<1>2. LifeInv => WorkersHaveServers
  BY DEF LifeInv, HasServer, HasSlots, WorkersHaveServers
<1> QED
  BY <1>1, <1>2, LifeNext, PTL DEF SlotsSpec

-----------------------------------------------------------------------------
(* The adapters of slots.                                                   *)

AdaptersInv ==
    /\ lora \in [1..NParallel -> {{}, Adapters}]
    /\ computed \in [1..NParallel -> SUBSET {{}, Adapters}]
    /\ \A s \in 1..NParallel : computed[s] \subseteq {lora[s]}

LEMMA AdaptersInit == ServerInit => AdaptersInv
BY DEF ServerInit, AdaptersInv

\* Whatever slot a task is given, its cells are forgotten if the adapters change.
LEMMA LaunchKeepsAdapters ==
    ASSUME AdaptersInv, NEW s, NEW t, NEW started, Launch(s, t, started)
    PROVE  AdaptersInv'
<1>1. CASE AreLoraEqual(LoraOf(t), lora[s])
  BY <1>1 DEF AdaptersInv, Launch
<1>2. CASE ~AreLoraEqual(LoraOf(t), lora[s])
  <2>1. LoraOf(t) \in {{}, Adapters}
    BY DEF LoraOf
  <2>2. /\ lora' = [lora EXCEPT ![s] = LoraOf(t)]
        /\ computed' = [computed EXCEPT ![s] = {}]
    BY <1>2 DEF Launch
  <2> QED
    BY <2>1, <2>2 DEF AdaptersInv
<1> QED
  BY <1>1, <1>2

\* Whatever slot opens a batch, those in it have its adapters.
LEMMA RoundKeepsAdapters ==
    ASSUME AdaptersInv, Round
    PROVE  AdaptersInv'
<1>1. lora' = lora
  BY DEF Round
<1>2. computed' = [s \in 1..NParallel |->
            IF s \in {u \in {v \in Slots : InBatch(v)} : task[u].prompt # <<>>}
            THEN (IF Reuses(s) THEN computed[s] ELSE {}) \cup {lora[Opener]}
            ELSE computed[s]]
  BY DEF Round
<1>3. ASSUME NEW s \in 1..NParallel
      PROVE  computed'[s] \subseteq {lora[s]}
  <2>1. CASE s \in {u \in {v \in Slots : InBatch(v)} : task[u].prompt # <<>>}
    <3>1. lora[Opener] = lora[s]
      BY <2>1 DEF InBatch, AreLoraEqual
    <3>2. computed'[s] = (IF Reuses(s) THEN computed[s] ELSE {}) \cup {lora[s]}
      BY <1>2, <2>1, <3>1
    <3> QED
      BY <3>2 DEF AdaptersInv
  <2>2. CASE s \notin {u \in {v \in Slots : InBatch(v)} : task[u].prompt # <<>>}
    BY <1>2, <2>2 DEF AdaptersInv
  <2> QED
    BY <2>1, <2>2
<1>4. computed' \in [1..NParallel -> SUBSET {{}, Adapters}]
  <2>1. DOMAIN computed' = 1..NParallel
    BY <1>2
  <2>2. \A s \in 1..NParallel : computed'[s] \in SUBSET {{}, Adapters}
    BY <1>3 DEF AdaptersInv
  <2> QED
    BY <1>2, <2>1, <2>2
<1> QED
  BY <1>1, <1>3, <1>4 DEF AdaptersInv

LEMMA AdaptersNext == AdaptersInv /\ [SlotsNext]_vars => AdaptersInv'
<1> SUFFICES ASSUME AdaptersInv, [SlotsNext]_vars PROVE AdaptersInv'
  OBVIOUS
<1>1. CASE LaunchTask
  BY <1>1, LaunchKeepsAdapters DEF LaunchTask
<1>2. CASE Round
  BY <1>2, RoundKeepsAdapters
<1>3. CASE UNCHANGED <<lora, computed>>
  BY <1>3 DEF AdaptersInv
<1>4. LaunchTask \/ Round \/ UNCHANGED <<lora, computed>>
  BY DEF SlotsNext, vars, slotsVars, choiceVars, Tick, Call, DeferTask, Cancel
<1> QED
  BY <1>1, <1>2, <1>3, <1>4

\* A slot never goes on from cells that were computed with other adapters than it
\* has, however completions, embeddings and rankings follow each other in it and
\* share its batches.
THEOREM CachesAreOfAdapters == SlotsSpec => []CacheIsOfAdapters
<1>1. ServerInit => LifeInv /\ AdaptersInv
  BY LifeInit, AdaptersInit DEF ServerInit
<1>2. LifeInv /\ AdaptersInv => CacheIsOfAdapters
  <2> SUFFICES ASSUME LifeInv, AdaptersInv, NEW s \in Slots
               PROVE  computed[s] \subseteq {lora[s]}
    BY DEF CacheIsOfAdapters
  <2>1. slots[Served] \in 0..NParallel
    BY SlotsAssumption DEF LifeInv, LifeTypeOK
  <2>2. s \in 1..NParallel
    BY <2>1, LifecycleAssumption DEF Slots
  <2> QED
    BY <2>2 DEF AdaptersInv
<1>3. LifeInv /\ AdaptersInv /\ [SlotsNext]_vars => LifeInv' /\ AdaptersInv'
  BY LifeNext, AdaptersNext
<1> QED
  BY <1>1, <1>2, <1>3, PTL DEF SlotsSpec

-----------------------------------------------------------------------------
(* Numbers, recursion and order.                                            *)

\* Every non-empty set of naturals has a least element.
LEMMA LeastNumber ==
    ASSUME NEW B \in SUBSET Nat, B # {}
    PROVE  \E n \in B : \A m \in B : n <= m
<1> DEFINE R == OpToRel(<, Nat)
<1>1. IsWellFoundedOn(R, Nat)
  BY NatLessThanWellFounded, Zenon
<1>2. \A x, y \in Nat : x < y => <<x, y>> \in R
  BY DEF OpToRel
<1> HIDE DEF R
<1>3. PICK n \in B : \A m \in B : ~(<<m, n>> \in R)
  BY <1>1, WFMin, Zenon
<1>4. ASSUME NEW m \in B
      PROVE  n <= m
  <2>1. ~(m < n)
    BY <1>2, <1>3, Zenon
  <2> QED BY <2>1
<1> QED BY <1>4

\* Induction up to n, for the set of the numbers that have a property.
LEMMA UpTo ==
    ASSUME NEW n \in Nat, NEW Good, 0 \in Good,
           \A k \in 1..n : k - 1 \in Good => k \in Good
    PROVE  \A k \in 0..n : k \in Good
<1> DEFINE Bad == {k \in 0..n : k \notin Good}
<1>1. SUFFICES ASSUME Bad # {} PROVE FALSE
  OBVIOUS
<1>2. PICK k \in Bad : \A m \in Bad : k <= m
  <2>1. Bad \in SUBSET Nat
    OBVIOUS
  <2> HIDE DEF Bad
  <2> QED BY <1>1, <2>1, LeastNumber
<1>3. k \in 1..n /\ k - 1 \in 0..n /\ ~(k <= k - 1)
  BY <1>2
<1>4. k - 1 \in Good
  BY <1>2, <1>3
<1> QED
  BY <1>2, <1>3, <1>4

\* f is what a loop has found before its first round and after each of its n rounds.
IsLoop(f, V, step, base, n) ==
    /\ f \in [0..n -> V] /\ f[0] = base
    /\ \A k \in 1..n : f[k] = step[<<k, f[k - 1]>>]

\* A function that follows a step from a base is there up to any number.
LEMMA LoopExists ==
    ASSUME NEW V, NEW n \in Nat, NEW base \in V, NEW step \in [(1..n) \X V -> V]
    PROVE  \E f : IsLoop(f, V, step, base, n)
<1> DEFINE Good == {k \in 0..n : \E f : IsLoop(f, V, step, base, k)}
<1>1. 0 \in Good
  <2>1. IsLoop([j \in 0..0 |-> base], V, step, base, 0)
    BY DEF IsLoop
  <2> QED BY <2>1
<1>2. ASSUME NEW k \in 1..n, k - 1 \in Good
      PROVE  k \in Good
  <2>1. PICK f : IsLoop(f, V, step, base, k - 1)
    BY <1>2
  <2>2. f \in [0..(k - 1) -> V] /\ k - 1 \in 0..(k - 1)
    BY <2>1 DEF IsLoop
  <2> DEFINE next == step[<<k, f[k - 1]>>]
             g == [j \in 0..k |-> IF j = k THEN next ELSE f[j]]
  <2>3. next \in V
    BY <2>2
  <2>4. \A j \in 0..(k - 1) : j \in 0..k /\ j # k /\ g[j] = f[j]
    OBVIOUS
  <2>5. g \in [0..k -> V] /\ g[k] = next
    BY <2>2, <2>3
  <2> HIDE DEF g, next
  <2>6. \A j \in 1..k : g[j] = step[<<j, g[j - 1]>>]
    <3>1. ASSUME NEW j \in 1..(k - 1)
          PROVE  g[j] = step[<<j, g[j - 1]>>]
      <4>1. j \in 0..(k - 1) /\ j - 1 \in 0..(k - 1)
        OBVIOUS
      <4>2. f[j] = step[<<j, f[j - 1]>>]
        BY <2>1 DEF IsLoop
      <4> QED BY <2>4, <4>1, <4>2
    <3>2. g[k] = step[<<k, g[k - 1]>>]
      BY <2>2, <2>4, <2>5 DEF next
    <3> QED BY <3>1, <3>2
  <2>7. g[0] = base
    BY <2>1, <2>4 DEF IsLoop
  <2>8. IsLoop(g, V, step, base, k)
    BY <2>5, <2>6, <2>7 DEF IsLoop
  <2> QED BY <2>8
<1>3. n \in 0..n
  OBVIOUS
<1> HIDE DEF Good
<1>4. n \in Good
  BY <1>1, <1>2, <1>3, UpTo
<1> QED
  BY <1>4 DEF Good

-----------------------------------------------------------------------------
(* The loops of get_available_slot.                                         *)

\* The round of a loop that goes for the highest score above start.
Better(k, best, eligible, score, start) ==
    IF k \in eligible /\ score[k] > (IF best = 0 THEN start ELSE score[best])
    THEN k ELSE best

IsBetterLoop(f, n, eligible, score, start) ==
    /\ f \in [0..n -> 0..n] /\ f[0] = 0
    /\ \A k \in 1..n : f[k] = Better(k, f[k - 1], eligible, score, start)

\* The loop is a function, whatever is eligible and however it scores.
LEMMA BetterIsThere ==
    ASSUME NEW n \in Nat, NEW eligible, NEW score, NEW start
    PROVE  \E f : IsBetterLoop(f, n, eligible, score, start)
<1> DEFINE step == [a \in (1..n) \X (0..n) |-> Better(a[1], a[2], eligible, score, start)]
<1>1. step \in [(1..n) \X (0..n) -> 0..n]
  BY DEF Better
<1>2. \A k \in 1..n, best \in 0..n :
          step[<<k, best>>] = Better(k, best, eligible, score, start)
  OBVIOUS
<1> HIDE DEF step
<1>3. PICK f : IsLoop(f, 0..n, step, 0, n)
  <2>1. 0 \in 0..n
    OBVIOUS
  <2> QED BY <1>1, <2>1, LoopExists, Zenon
<1>4. \A k \in 1..n : f[k - 1] \in 0..n
  BY <1>3 DEF IsLoop
<1> QED
  BY <1>2, <1>3, <1>4 DEF IsLoop, IsBetterLoop

\* It ends with the first of the highest, or with 0 if none is above start.
LEMMA BetterIsBest ==
    ASSUME NEW n \in Nat, NEW eligible \in SUBSET (1..n), NEW score \in [1..n -> Int],
           NEW start \in Int, NEW f, f[0] = 0,
           \A k \in 1..n : f[k - 1] \in 0..n =>
               f[k] = Better(k, f[k - 1], eligible, score, start)
    PROVE  \/ f[n] = 0 /\ \A k \in eligible : score[k] <= start
           \/ /\ f[n] \in eligible /\ score[f[n]] > start
              /\ \A k \in eligible : score[k] <= score[f[n]]
<1> DEFINE IsBest(m) ==
        \/ f[m] = 0 /\ \A k \in eligible : k <= m => score[k] <= start
        \/ /\ f[m] \in eligible /\ score[f[m]] > start
           /\ \A k \in eligible : k <= m => score[k] <= score[f[m]]
<1> DEFINE Good == {m \in 0..n : IsBest(m)}
<1>1. 0 \in Good
  OBVIOUS
<1>2. ASSUME NEW m \in 1..n, m - 1 \in Good
      PROVE  m \in Good
  <2>1. IsBest(m - 1)
    BY <1>2
  <2>2. f[m - 1] \in 0..n
    <3>1. \A k \in eligible : k \in 0..n
      OBVIOUS
    <3>2. f[m - 1] = 0 \/ f[m - 1] \in eligible
      BY <2>1
    <3>3. 0 \in 0..n
      OBVIOUS
    <3> QED BY <3>1, <3>2, <3>3, Zenon
  <2>3. f[m] = Better(m, f[m - 1], eligible, score, start)
    BY <2>2
  <2>4. \A k \in eligible : k <= m => k = m \/ k <= m - 1
    OBVIOUS
  <2> DEFINE high == IF f[m - 1] = 0 THEN start ELSE score[f[m - 1]]
  <2>5. \A k \in eligible : score[k] \in Int /\ (k <= m - 1 => score[k] <= high)
    BY <2>1
  <2>6. high \in Int /\ start <= high
    <3>1. CASE f[m - 1] = 0
      BY <3>1
    <3>2. CASE f[m - 1] # 0
      <4>1. f[m - 1] \in eligible /\ score[f[m - 1]] > start
        BY <2>1, <3>2
      <4>2. score[f[m - 1]] \in Int
        BY <2>5, <4>1, Zenon
      <4> QED BY <3>2, <4>1, <4>2
    <3> QED BY <3>1, <3>2
  <2>7. CASE m \in eligible /\ score[m] > high
    <3>1. f[m] = m
      BY <2>3, <2>7 DEF Better
    <3>2. m # 0
      OBVIOUS
    <3> HIDE DEF high
    <3>3. \A k \in eligible : k <= m => score[k] <= score[m]
      BY <2>4, <2>5, <2>6, <2>7
    <3>4. score[m] > start
      BY <2>5, <2>6, <2>7
    <3> QED BY <2>7, <3>1, <3>3, <3>4
  <2>8. CASE ~(m \in eligible /\ score[m] > high)
    <3>1. f[m] = f[m - 1]
      BY <2>3, <2>8 DEF Better
    <3>2. m \in eligible => score[m] <= high
      BY <2>5, <2>6, <2>8
    <3>3. \A k \in eligible : k <= m => score[k] <= high
      BY <2>4, <2>5, <3>2
    <3> QED BY <2>1, <3>1, <3>3
  <2>9. IsBest(m)
    BY <2>7, <2>8
  <2> HIDE DEF IsBest
  <2> QED
    BY <2>9
<1>3. n \in 0..n
  OBVIOUS
<1> HIDE DEF Good
<1>4. n \in Good
  BY <1>1, <1>2, <1>3, UpTo
<1>5. IsBest(n)
  BY <1>4 DEF Good
<1> QED
  BY <1>5

\* The types that the choice of a slot rests on.
SlotTypes ==
    /\ slots[Served] \in 0..NParallel
    /\ t_last_used \in [1..NParallel -> Int] /\ clock \in Int

\* LeastRecent is an idle slot that was not used for longest. It is 0 if all idle slots
\* were used in this microsecond.
LEMMA LeastRecentIs ==
    ASSUME SlotTypes
    PROVE  \/ LeastRecent = 0 /\ \A s \in Idle : t_last_used[s] >= clock
           \/ /\ LeastRecent \in Idle
              /\ \A s \in Idle : t_last_used[LeastRecent] <= t_last_used[s]
<1> DEFINE n == slots[Served]
           score == [s \in 1..n |-> 0 - t_last_used[s]]
           start == 0 - clock
           After(s, best) ==
               IF ~IsProcessing(s)
                  /\ t_last_used[s] < (IF best = 0 THEN clock ELSE t_last_used[best])
               THEN s ELSE best
           Finds(ret) == ret = [s \in 0..n |-> IF s = 0 THEN 0 ELSE After(s, ret[s - 1])]
<1>1. /\ n \in Nat /\ Idle \in SUBSET (1..n)
      /\ score \in [1..n -> Int] /\ start \in Int
  BY LifecycleAssumption DEF SlotTypes, Idle, Slots
<1>2. ASSUME NEW s \in 1..n, NEW best \in 0..n
      PROVE  After(s, best) = Better(s, best, Idle, score, start)
  <2>1. s \in Idle <=> ~IsProcessing(s)
    BY DEF Idle, Slots
  <2>2. /\ t_last_used[s] \in Int /\ score[s] = 0 - t_last_used[s]
        /\ best # 0 => t_last_used[best] \in Int /\ score[best] = 0 - t_last_used[best]
    BY LifecycleAssumption DEF SlotTypes
  <2>3. clock \in Int
    BY DEF SlotTypes
  <2> HIDE DEF score
  <2> QED
    BY <2>1, <2>2, <2>3 DEF Better
<1> HIDE DEF n, score, start, After
<1>3. \E ret : Finds(ret)
  <2>1. PICK f : IsBetterLoop(f, n, Idle, score, start)
    BY <1>1, BetterIsThere
  <2>2. \A k \in 1..n : k - 1 \in 0..n /\ f[k - 1] \in 0..n
    <3>1. f \in [0..n -> 0..n]
      BY <2>1 DEF IsBetterLoop
    <3>2. \A k \in 1..n : k - 1 \in 0..n
      BY <1>1
    <3> QED BY <3>1, <3>2
  <2>3. \A k \in 1..n : f[k] = After(k, f[k - 1])
    BY <1>2, <2>1, <2>2 DEF IsBetterLoop
  <2>4. Finds(f)
    BY <2>1, <2>3, <1>1 DEF IsBetterLoop
  <2> QED BY <2>4
<1> DEFINE ret == CHOOSE f : Finds(f)
<1>4. LeastRecent = ret[n]
  BY Zenon DEF LeastRecent, After, n
<1>5. Finds(ret)
  BY <1>3, Zenon
<1> HIDE DEF ret
<1>6. /\ ret[0] = 0
      /\ \A k \in 1..n : ret[k - 1] \in 0..n =>
             ret[k] = Better(k, ret[k - 1], Idle, score, start)
  BY <1>1, <1>2, <1>5
<1>7. \/ ret[n] = 0 /\ \A k \in Idle : score[k] <= start
      \/ /\ ret[n] \in Idle /\ score[ret[n]] > start
         /\ \A k \in Idle : score[k] <= score[ret[n]]
  BY <1>1, <1>6, BetterIsBest
<1>8. \A s \in Idle : t_last_used[s] \in Int /\ score[s] = 0 - t_last_used[s]
  BY <1>1, LifecycleAssumption DEF SlotTypes, score, n
<1>9. start = 0 - clock /\ clock \in Int
  BY DEF start, SlotTypes
<1> QED
  BY <1>4, <1>7, <1>8, <1>9

-----------------------------------------------------------------------------
(* The longest common subsequence.                                          *)

LEMMA MaxOfTwo ==
    ASSUME NEW x \in Int, NEW y \in Int
    PROVE  Max({x, y}) = IF x >= y THEN x ELSE y
<1>1. \E z \in {x, y} : \A w \in {x, y} : z >= w
  OBVIOUS
<1>2. Max({x, y}) \in {x, y} /\ \A w \in {x, y} : Max({x, y}) >= w
  BY <1>1, Zenon DEF Max
<1> QED
  BY <1>2

\* The parts of Lcs, with a row and what its loop has of it so far.
CellOf(b, row, x, j, left) == IF x = b[j] THEN row[j] + 1 ELSE Max({row[j + 1], left[j]})

IsNew(new, b, row, x) ==
    new = [j \in 0..Len(b) |->
              IF j = 0 THEN <<0>> ELSE Append(new[j - 1], CellOf(b, row, x, j, new[j - 1]))]

NextRowOf(b, row, x) == (CHOOSE new : IsNew(new, b, row, x))[Len(b)]

IsRows(rows, a, b) ==
    rows = [i \in 0..Len(a) |-> IF i = 0 THEN [j \in 1..(Len(b) + 1) |-> 0]
                                ELSE NextRowOf(b, rows[i - 1], a[i])]

LEMMA LcsIs == \A a, b : Lcs(a, b) = Last((CHOOSE rows : IsRows(rows, a, b))[Len(a)])
BY Zenon DEF Lcs, IsRows, NextRowOf, IsNew, CellOf

IsRow(row, m) == row \in Seq(Nat) /\ Len(row) = m + 1 /\ row[1] = 0

\* The first j columns of the row after row, which x leads to.
Follows(new, b, row, x, j) ==
    /\ IsRow(new, j)
    /\ \A i \in 1..j :
          new[i + 1] = IF x = b[i] THEN row[i] + 1
                       ELSE IF row[i + 1] >= new[i] THEN row[i + 1] ELSE new[i]

LEMMA FollowsOn ==
    ASSUME NEW b, Len(b) \in Nat, NEW row, IsRow(row, Len(b)), NEW x, NEW j \in 1..Len(b),
           NEW left, Follows(left, b, row, x, j - 1)
    PROVE  /\ CellOf(b, row, x, j, left) \in Nat
           /\ Follows(Append(left, CellOf(b, row, x, j, left)), b, row, x, j)
<1> DEFINE cell == CellOf(b, row, x, j, left)
           new  == Append(left, cell)
<1>1. left \in Seq(Nat) /\ Len(left) = j /\ left[1] = 0
  BY DEF Follows, IsRow
<1>2. row[j] \in Nat /\ row[j + 1] \in Nat /\ left[j] \in Nat
  <2>1. row \in Seq(Nat) /\ j \in 1..Len(row) /\ j + 1 \in 1..Len(row)
    BY DEF IsRow
  <2>2. row[j] \in Nat /\ row[j + 1] \in Nat
    BY <2>1
  <2>3. left \in Seq(Nat) /\ j \in 1..Len(left)
    BY <1>1
  <2>4. left[j] \in Nat
    BY <2>3
  <2> QED BY <2>2, <2>4
<1>3. /\ cell \in Nat
      /\ cell = IF x = b[j] THEN row[j] + 1
                ELSE IF row[j + 1] >= left[j] THEN row[j + 1] ELSE left[j]
  <2>1. Max({row[j + 1], left[j]}) = IF row[j + 1] >= left[j] THEN row[j + 1] ELSE left[j]
    BY <1>2, MaxOfTwo
  <2> QED
    BY <1>2, <2>1 DEF CellOf
<1> HIDE DEF cell
<1>4. /\ new \in Seq(Nat) /\ Len(new) = j + 1 /\ new[j + 1] = cell
      /\ \A i \in 1..j : new[i] = left[i]
  BY <1>1, <1>3
<1> HIDE DEF new
<1>5. IsRow(new, j)
  BY <1>1, <1>4 DEF IsRow
<1>6. ASSUME NEW i \in 1..j
      PROVE  new[i + 1] = IF x = b[i] THEN row[i] + 1
                          ELSE IF row[i + 1] >= new[i] THEN row[i + 1] ELSE new[i]
  <2>1. CASE i = j
    BY <1>3, <1>4, <2>1
  <2>2. CASE i # j
    <3>1. i \in 1..(j - 1) /\ i + 1 \in 1..j
      BY <2>2
    <3>2. left[i + 1] = IF x = b[i] THEN row[i] + 1
                        ELSE IF row[i + 1] >= left[i] THEN row[i + 1] ELSE left[i]
      BY <3>1 DEF Follows
    <3>3. new[i + 1] = left[i + 1] /\ new[i] = left[i]
      BY <1>4, <3>1
    <3> QED
      BY <3>2, <3>3
  <2> QED
    BY <2>1, <2>2
<1> QED
  BY <1>3, <1>5, <1>6 DEF Follows, new, cell

LEMMA NextRowFollows ==
    ASSUME NEW b, Len(b) \in Nat, NEW row, IsRow(row, Len(b)), NEW x
    PROVE  Follows(NextRowOf(b, row, x), b, row, x, Len(b))
<1> DEFINE m == Len(b)
           After(j, left) == Append(left, CellOf(b, row, x, j, left))
           step == [s \in (1..m) \X Seq(Nat) |->
                       IF Follows(s[2], b, row, x, s[1] - 1) THEN After(s[1], s[2]) ELSE <<0>>]
<1>1. <<0>> \in Seq(Nat) /\ Follows(<<0>>, b, row, x, 0)
  BY DEF Follows, IsRow
<1>2. ASSUME NEW j \in 1..m, NEW left, Follows(left, b, row, x, j - 1)
      PROVE  /\ left \in Seq(Nat) /\ After(j, left) \in Seq(Nat)
             /\ Follows(After(j, left), b, row, x, j)
             /\ step[<<j, left>>] = After(j, left)
  <2>1. Follows(After(j, left), b, row, x, j)
    BY <1>2, FollowsOn
  <2>2. left \in Seq(Nat) /\ After(j, left) \in Seq(Nat)
    BY <1>2, <2>1 DEF Follows, IsRow
  <2> HIDE DEF After
  <2> QED
    BY <1>2, <2>1, <2>2
<1>3. step \in [(1..m) \X Seq(Nat) -> Seq(Nat)]
  <2>1. ASSUME NEW s \in (1..m) \X Seq(Nat)
        PROVE  (IF Follows(s[2], b, row, x, s[1] - 1) THEN After(s[1], s[2]) ELSE <<0>>)
                  \in Seq(Nat)
    <3>1. s[1] \in 1..m
      OBVIOUS
    <3> HIDE DEF step, After
    <3> QED BY <1>1, <1>2, <3>1
  <2> HIDE DEF After
  <2> QED BY <2>1
<1> HIDE DEF step, After
<1>4. PICK f : IsLoop(f, Seq(Nat), step, <<0>>, m)
  BY <1>1, <1>3, LoopExists
<1>5. ASSUME NEW new, new[0] = << 0 >>,
             \A j \in 1..m : Follows(new[j - 1], b, row, x, j - 1) =>
                                 new[j] = After(j, new[j - 1])
      PROVE  \A j \in 0..m : Follows(new[j], b, row, x, j)
  <2> DEFINE Good == {j \in 0..m : Follows(new[j], b, row, x, j)}
  <2>1. 0 \in Good
    BY <1>1, <1>5
  <2>2. ASSUME NEW j \in 1..m, j - 1 \in Good
        PROVE  j \in Good
    <3>1. Follows(new[j - 1], b, row, x, j - 1)
      BY <2>2
    <3>2. new[j] = After(j, new[j - 1])
      BY <1>5, <3>1
    <3>3. Follows(new[j], b, row, x, j)
      BY <1>2, <3>1, <3>2
    <3>4. j \in 0..m
      OBVIOUS
    <3> QED BY <3>3, <3>4
  <2> HIDE DEF Good
  <2>3. \A j \in 0..m : j \in Good
    BY <2>1, <2>2, UpTo
  <2> QED
    BY <2>3 DEF Good
<1>6. \E new : IsNew(new, b, row, x)
  <2>1. \A j \in 1..m : Follows(f[j - 1], b, row, x, j - 1) => f[j] = After(j, f[j - 1])
    BY <1>2, <1>4 DEF IsLoop
  <2>2. \A j \in 0..m : Follows(f[j], b, row, x, j)
    BY <1>4, <1>5, <2>1 DEF IsLoop
  <2>3. \A j \in 1..m : f[j] = After(j, f[j - 1])
    BY <2>1, <2>2
  <2>4. f = [j \in 0..m |-> IF j = 0 THEN <<0>> ELSE After(j, f[j - 1])]
    <3>1. /\ DOMAIN f = 0..m /\ f = [j \in 0..m |-> f[j]]
          /\ \A j \in 0..m : j = 0 \/ j \in 1..m
      BY <1>4 DEF IsLoop
    <3>2. f[0] = <<0>>
      BY <1>4 DEF IsLoop
    <3> QED BY <2>3, <3>1, <3>2
  <2>5. IsNew(f, b, row, x)
    BY <2>4, Zenon DEF IsNew, After
  <2> QED BY <2>5
<1> DEFINE new == CHOOSE n : IsNew(n, b, row, x)
<1>7. IsNew(new, b, row, x)
  BY <1>6, Zenon
<1>8. NextRowOf(b, row, x) = new[m]
  BY DEF NextRowOf
<1> HIDE DEF new
<1>9. new[0] = <<0>> /\ \A j \in 1..m : new[j] = After(j, new[j - 1])
  <2>1. new = [j \in 0..m |-> IF j = 0 THEN <<0>> ELSE After(j, new[j - 1])]
    BY <1>7, Zenon DEF IsNew, After
  <2> QED BY <2>1
<1>10. m \in 0..m /\ \A j \in 0..m : Follows(new[j], b, row, x, j)
  BY <1>5, <1>9
<1> QED
  BY <1>8, <1>10

\* The table of the rows: cell j + 1 of row i is about the first i and j elements.
IsTable(rows, a, b) ==
    /\ IsRow(rows[0], Len(b)) /\ \A j \in 1..(Len(b) + 1) : rows[0][j] = 0
    /\ \A i \in 1..Len(a) : Follows(rows[i], b, rows[i - 1], a[i], Len(b))

LEMMA LcsTable ==
    ASSUME NEW a, NEW b, Len(a) \in Nat, Len(b) \in Nat
    PROVE  \E rows : IsTable(rows, a, b) /\ Lcs(a, b) = rows[Len(a)][Len(b) + 1]
<1> DEFINE m == Len(b)
           zeros == [j \in 1..(m + 1) |-> 0]
           step == [s \in (1..Len(a)) \X Seq(Nat) |->
                       IF IsRow(s[2], m) THEN NextRowOf(b, s[2], a[s[1]]) ELSE zeros]
<1>1. IsRow(zeros, m)
  BY DEF IsRow
<1>2. ASSUME NEW i \in 1..Len(a), NEW row, IsRow(row, m)
      PROVE  /\ row \in Seq(Nat) /\ NextRowOf(b, row, a[i]) \in Seq(Nat)
             /\ IsRow(NextRowOf(b, row, a[i]), m)
             /\ step[<<i, row>>] = NextRowOf(b, row, a[i])
  <2>1. IsRow(NextRowOf(b, row, a[i]), m)
    BY <1>2, NextRowFollows DEF Follows
  <2>2. row \in Seq(Nat) /\ NextRowOf(b, row, a[i]) \in Seq(Nat)
    BY <1>2, <2>1 DEF IsRow
  <2> QED
    BY <1>2, <2>1, <2>2
<1>3. step \in [(1..Len(a)) \X Seq(Nat) -> Seq(Nat)]
  <2>1. ASSUME NEW s \in (1..Len(a)) \X Seq(Nat)
        PROVE  (IF IsRow(s[2], m) THEN NextRowOf(b, s[2], a[s[1]]) ELSE zeros) \in Seq(Nat)
    <3>1. s[1] \in 1..Len(a)
      OBVIOUS
    <3>2. zeros \in Seq(Nat)
      BY <1>1 DEF IsRow
    <3> HIDE DEF step, zeros
    <3> QED BY <1>2, <3>1, <3>2
  <2> HIDE DEF zeros
  <2> QED BY <2>1
<1> HIDE DEF step
<1>4. PICK f : IsLoop(f, Seq(Nat), step, zeros, Len(a))
  <2>1. zeros \in Seq(Nat)
    BY <1>1 DEF IsRow
  <2> HIDE DEF zeros
  <2> QED BY <2>1, <1>3, LoopExists
<1> HIDE DEF zeros
<1>5. ASSUME NEW rows, rows[0] = zeros,
             \A i \in 1..Len(a) : IsRow(rows[i - 1], m) =>
                                      rows[i] = NextRowOf(b, rows[i - 1], a[i])
      PROVE  \A i \in 0..Len(a) : IsRow(rows[i], m)
  <2> DEFINE Good == {i \in 0..Len(a) : IsRow(rows[i], m)}
  <2>1. 0 \in Good
    BY <1>1, <1>5
  <2>2. ASSUME NEW i \in 1..Len(a), i - 1 \in Good
        PROVE  i \in Good
    <3>1. IsRow(rows[i - 1], m)
      BY <2>2
    <3>2. rows[i] = NextRowOf(b, rows[i - 1], a[i])
      BY <1>5, <3>1
    <3>3. IsRow(rows[i], m)
      BY <1>2, <3>1, <3>2
    <3>4. i \in 0..Len(a)
      OBVIOUS
    <3> QED BY <3>3, <3>4
  <2> HIDE DEF Good
  <2>3. \A i \in 0..Len(a) : i \in Good
    BY <2>1, <2>2, UpTo
  <2> QED
    BY <2>3 DEF Good
<1>6. \E rows : IsRows(rows, a, b)
  <2>1. \A i \in 1..Len(a) : IsRow(f[i - 1], m) => f[i] = NextRowOf(b, f[i - 1], a[i])
    BY <1>2, <1>4 DEF IsLoop
  <2>2. \A i \in 0..Len(a) : IsRow(f[i], m)
    BY <1>4, <1>5, <2>1 DEF IsLoop
  <2>3. \A i \in 1..Len(a) : f[i] = NextRowOf(b, f[i - 1], a[i])
    BY <2>1, <2>2
  <2>4. IsRows(f, a, b)
    BY <1>4, <2>3 DEF IsLoop, IsRows, zeros
  <2> QED BY <2>4
<1> DEFINE rows == CHOOSE r : IsRows(r, a, b)
<1>7. IsRows(rows, a, b)
  BY <1>6, Zenon
<1>8. Lcs(a, b) = Last(rows[Len(a)])
  BY LcsIs
<1> HIDE DEF rows
<1>9. rows[0] = zeros /\ \A i \in 1..Len(a) : rows[i] = NextRowOf(b, rows[i - 1], a[i])
  <2>1. rows = [i \in 0..Len(a) |-> IF i = 0 THEN zeros ELSE NextRowOf(b, rows[i - 1], a[i])]
    BY <1>7, Zenon DEF IsRows, zeros
  <2> QED BY <2>1
<1>10. \A i \in 0..Len(a) : IsRow(rows[i], m)
  BY <1>5, <1>9
<1>11. Lcs(a, b) = rows[Len(a)][m + 1]
  BY <1>8, <1>10 DEF IsRow, Last
<1>12. IsTable(rows, a, b)
  <2>1. IsRow(rows[0], m) /\ \A j \in 1..(m + 1) : rows[0][j] = 0
    BY <1>1, <1>9 DEF zeros
  <2>2. ASSUME NEW i \in 1..Len(a)
        PROVE  Follows(rows[i], b, rows[i - 1], a[i], m)
    <3>1. i - 1 \in 0..Len(a)
      OBVIOUS
    <3>2. IsRow(rows[i - 1], m)
      BY <1>10, <3>1
    <3> QED
      BY <1>9, <3>2, NextRowFollows
  <2> QED
    BY <2>1, <2>2 DEF IsTable
<1> QED
  BY <1>11, <1>12

\* Its result is a number.
LEMMA LcsType ==
    ASSUME NEW a, NEW b, Len(a) \in Nat, Len(b) \in Nat
    PROVE  Lcs(a, b) \in Nat
<1>1. PICK rows : IsTable(rows, a, b) /\ Lcs(a, b) = rows[Len(a)][Len(b) + 1]
  BY LcsTable
<1>2. IsRow(rows[Len(a)], Len(b))
  BY <1>1 DEF IsTable, Follows
<1> QED
  BY <1>1, <1>2 DEF IsRow

\* The first i elements of a and the first j of b have a subsequence of k elements in
\* common: the places p in a, and q in b.
AreCommon(p, q, a, b, i, j, k) ==
    /\ p \in [1..k -> 1..i] /\ q \in [1..k -> 1..j]
    /\ \A u, v \in 1..k : u < v => p[u] < p[v] /\ q[u] < q[v]
    /\ \A u \in 1..k : a[p[u]] = b[q[u]]

HaveCommon(a, b, i, j, k) == \E p, q : AreCommon(p, q, a, b, i, j, k)

LEMMA CommonNothing ==
    ASSUME NEW a, NEW b, NEW i \in Nat, NEW j \in Nat
    PROVE  /\ HaveCommon(a, b, i, j, 0)
           /\ \A k \in Nat : (i = 0 \/ j = 0) /\ HaveCommon(a, b, i, j, k) => k = 0
<1>1. AreCommon(<<>>, <<>>, a, b, i, j, 0)
  BY DEF AreCommon
<1>2. ASSUME NEW k \in Nat, k # 0, i = 0 \/ j = 0, HaveCommon(a, b, i, j, k)
      PROVE  FALSE
  <2>1. PICK p, q : AreCommon(p, q, a, b, i, j, k)
    BY <1>2 DEF HaveCommon
  <2>2. p[1] \in 1..i /\ q[1] \in 1..j
    BY <1>2, <2>1 DEF AreCommon
  <2> QED
    BY <1>2, <2>2
<1> QED
  BY <1>1, <1>2 DEF HaveCommon

LEMMA CommonGrows ==
    ASSUME NEW a, NEW b, NEW k \in Nat, NEW i \in Nat, NEW j \in Nat,
           NEW m \in Nat, NEW n \in Nat, i <= m, j <= n, HaveCommon(a, b, i, j, k)
    PROVE  HaveCommon(a, b, m, n, k)
<1>1. PICK p, q : AreCommon(p, q, a, b, i, j, k)
  BY DEF HaveCommon
<1>2. p \in [1..k -> 1..m] /\ q \in [1..k -> 1..n]
  BY <1>1 DEF AreCommon
<1>3. AreCommon(p, q, a, b, m, n, k)
  BY <1>1, <1>2 DEF AreCommon
<1> QED
  BY <1>3 DEF HaveCommon

\* Two elements that are equal extend what those before them have in common.
LEMMA CommonExtends ==
    ASSUME NEW a, NEW b, NEW k \in Nat, NEW i \in Nat \ {0}, NEW j \in Nat \ {0},
           a[i] = b[j], HaveCommon(a, b, i - 1, j - 1, k)
    PROVE  HaveCommon(a, b, i, j, k + 1)
<1>1. PICK p, q : AreCommon(p, q, a, b, i - 1, j - 1, k)
  BY DEF HaveCommon
<1> DEFINE pp == [u \in 1..(k + 1) |-> IF u = k + 1 THEN i ELSE p[u]]
           qq == [u \in 1..(k + 1) |-> IF u = k + 1 THEN j ELSE q[u]]
<1>2. \A u \in 1..k : /\ p[u] \in 1..(i - 1) /\ q[u] \in 1..(j - 1)
                      /\ pp[u] = p[u] /\ qq[u] = q[u]
  BY <1>1 DEF AreCommon
<1>3. pp[k + 1] = i /\ qq[k + 1] = j
  OBVIOUS
<1>4. \A u \in 1..(k + 1) : u = k + 1 \/ u \in 1..k
  OBVIOUS
<1>5. pp \in [1..(k + 1) -> 1..i] /\ qq \in [1..(k + 1) -> 1..j]
  <2>1. \A u \in 1..(k + 1) : pp[u] \in 1..i /\ qq[u] \in 1..j
    <3>1. i \in 1..i /\ j \in 1..j /\ 1..(i - 1) \subseteq 1..i /\ 1..(j - 1) \subseteq 1..j
      OBVIOUS
    <3> HIDE DEF pp, qq
    <3> QED BY <1>2, <1>3, <1>4, <3>1
  <2> QED BY <2>1
<1> HIDE DEF pp, qq
<1>6. \A u \in 1..(k + 1) : a[pp[u]] = b[qq[u]]
  BY <1>1, <1>2, <1>3, <1>4 DEF AreCommon
<1>7. ASSUME NEW u \in 1..(k + 1), NEW v \in 1..(k + 1), u < v
      PROVE  pp[u] < pp[v] /\ qq[u] < qq[v]
  <2>1. u \in 1..k /\ p[u] < i /\ q[u] < j /\ pp[u] = p[u] /\ qq[u] = q[u]
    BY <1>2, <1>7
  <2>2. CASE v = k + 1
    BY <1>3, <2>1, <2>2
  <2>3. CASE v # k + 1
    <3>1. v \in 1..k /\ pp[v] = p[v] /\ qq[v] = q[v]
      BY <1>2, <1>4, <2>3
    <3>2. p[u] < p[v] /\ q[u] < q[v]
      BY <1>1, <1>7, <2>1, <3>1 DEF AreCommon
    <3> QED BY <2>1, <3>1, <3>2
  <2> QED BY <2>2, <2>3
<1>8. AreCommon(pp, qq, a, b, i, j, k + 1)
  BY <1>5, <1>6, <1>7 DEF AreCommon
<1> QED
  BY <1>8 DEF HaveCommon

\* Without its last element it is one of the elements before the last.
LEMMA CommonShrinks ==
    ASSUME NEW a, NEW b, NEW k \in Nat, NEW i \in Nat \ {0}, NEW j \in Nat \ {0},
           HaveCommon(a, b, i, j, k + 1)
    PROVE  HaveCommon(a, b, i - 1, j - 1, k)
<1>1. PICK p, q : AreCommon(p, q, a, b, i, j, k + 1)
  BY DEF HaveCommon
<1> DEFINE pp == [u \in 1..k |-> p[u]]
           qq == [u \in 1..k |-> q[u]]
<1>2. p[k + 1] \in 1..i /\ q[k + 1] \in 1..j
  BY <1>1 DEF AreCommon
<1>3. \A u \in 1..k : /\ pp[u] = p[u] /\ qq[u] = q[u] /\ u \in 1..(k + 1)
                      /\ p[u] \in 1..i /\ q[u] \in 1..j
                      /\ p[u] < p[k + 1] /\ q[u] < q[k + 1]
  BY <1>1 DEF AreCommon
<1>4. \A u \in 1..k : p[u] \in 1..(i - 1) /\ q[u] \in 1..(j - 1)
  BY <1>2, <1>3
<1>5. pp \in [1..k -> 1..(i - 1)] /\ qq \in [1..k -> 1..(j - 1)]
  BY <1>4
<1> HIDE DEF pp, qq
<1>6. AreCommon(pp, qq, a, b, i - 1, j - 1, k)
  BY <1>1, <1>3, <1>5 DEF AreCommon
<1> QED
  BY <1>6 DEF HaveCommon

\* Of two last elements that differ, one is not needed.
LEMMA CommonSplits ==
    ASSUME NEW a, NEW b, NEW k \in Nat, NEW i \in Nat \ {0}, NEW j \in Nat \ {0},
           a[i] # b[j], HaveCommon(a, b, i, j, k)
    PROVE  HaveCommon(a, b, i - 1, j, k) \/ HaveCommon(a, b, i, j - 1, k)
<1>1. PICK p, q : AreCommon(p, q, a, b, i, j, k)
  BY DEF HaveCommon
<1>2. CASE k = 0
  <2>1. i - 1 \in Nat
    OBVIOUS
  <2> QED BY <1>2, <2>1, CommonNothing
<1>3. CASE k # 0
  <2>1. /\ k \in 1..k /\ p[k] \in 1..i /\ q[k] \in 1..j
        /\ \A u \in 1..k : p[u] \in 1..i /\ q[u] \in 1..j
    <3>1. p \in [1..k -> 1..i] /\ q \in [1..k -> 1..j]
      BY <1>1 DEF AreCommon
    <3>2. k \in 1..k
      BY <1>3
    <3> QED BY <3>1, <3>2, Zenon
  <2>2. p[k] # i \/ q[k] # j
    BY <1>1, <2>1 DEF AreCommon
  <2>3. \A u \in 1..k : u = k \/ (p[u] < p[k] /\ q[u] < q[k])
    BY <1>1, <2>1 DEF AreCommon
  <2>4. CASE p[k] # i
    <3>1. \A u \in 1..k : p[u] \in 1..(i - 1)
      BY <2>1, <2>3, <2>4
    <3>2. p \in [1..k -> 1..(i - 1)]
      BY <1>1, <3>1 DEF AreCommon
    <3>3. AreCommon(p, q, a, b, i - 1, j, k)
      BY <1>1, <3>2 DEF AreCommon
    <3> QED BY <3>3 DEF HaveCommon
  <2>5. CASE q[k] # j
    <3>1. \A u \in 1..k : q[u] \in 1..(j - 1)
      BY <2>1, <2>3, <2>5
    <3>2. q \in [1..k -> 1..(j - 1)]
      BY <1>1, <3>1 DEF AreCommon
    <3>3. AreCommon(p, q, a, b, i, j - 1, k)
      BY <1>1, <3>2 DEF AreCommon
    <3> QED BY <3>3 DEF HaveCommon
  <2> QED BY <2>2, <2>4, <2>5
<1> QED
  BY <1>2, <1>3

IsLongest(len, a, b, i, j) ==
    /\ len \in Nat /\ HaveCommon(a, b, i, j, len)
    /\ \A k \in Nat : HaveCommon(a, b, i, j, k) => k <= len

\* The step of the table.
LEMMA LongestStep ==
    ASSUME NEW a, NEW b, NEW i \in Nat \ {0}, NEW j \in Nat \ {0},
           NEW both, IsLongest(both, a, b, i - 1, j - 1),
           NEW up, IsLongest(up, a, b, i - 1, j),
           NEW left, IsLongest(left, a, b, i, j - 1)
    PROVE  IsLongest(IF a[i] = b[j] THEN both + 1 ELSE IF up >= left THEN up ELSE left,
                     a, b, i, j)
<1>1. both \in Nat /\ up \in Nat /\ left \in Nat /\ i - 1 \in Nat /\ j - 1 \in Nat
  BY DEF IsLongest
<1>2. CASE a[i] = b[j]
  <2>1. HaveCommon(a, b, i, j, both + 1)
    BY <1>1, <1>2, CommonExtends DEF IsLongest
  <2>2. ASSUME NEW k \in Nat, HaveCommon(a, b, i, j, k)
        PROVE  k <= both + 1
    <3>1. CASE k = 0
      BY <1>1, <3>1
    <3>2. CASE k # 0
      <4>1. k - 1 \in Nat /\ k = (k - 1) + 1
        BY <3>2
      <4>2. HaveCommon(a, b, i - 1, j - 1, k - 1)
        BY <2>2, <4>1, CommonShrinks
      <4>3. k - 1 <= both
        BY <4>1, <4>2 DEF IsLongest
      <4> QED BY <1>1, <4>3
    <3> QED BY <3>1, <3>2
  <2> QED
    BY <1>1, <1>2, <2>1, <2>2 DEF IsLongest
<1>3. CASE a[i] # b[j]
  <2> DEFINE len == IF up >= left THEN up ELSE left
  <2>1. HaveCommon(a, b, i, j, up) /\ HaveCommon(a, b, i, j, left)
    <3>1. HaveCommon(a, b, i - 1, j, up) /\ HaveCommon(a, b, i, j - 1, left)
      BY DEF IsLongest
    <3>2. i - 1 <= i /\ j - 1 <= j /\ i <= i /\ j <= j
      OBVIOUS
    <3> QED BY <1>1, <3>1, <3>2, CommonGrows
  <2>2. ASSUME NEW k \in Nat, HaveCommon(a, b, i, j, k)
        PROVE  k <= up \/ k <= left
    BY <1>3, <2>2, CommonSplits DEF IsLongest
  <2>3. HaveCommon(a, b, i, j, len) /\ len \in Nat
    BY <1>1, <2>1
  <2>4. \A k \in Nat : HaveCommon(a, b, i, j, k) => k <= len
    BY <1>1, <2>2
  <2>5. IsLongest(len, a, b, i, j)
    BY <2>3, <2>4 DEF IsLongest
  <2> QED
    BY <1>3, <2>5
<1> QED
  BY <1>2, <1>3

\* Lcs is the length of a longest common subsequence: a and b have one of that length,
\* and none that is longer.
THEOREM LcsIsLongest ==
    ASSUME NEW a, NEW b, Len(a) \in Nat, Len(b) \in Nat
    PROVE  IsLongest(Lcs(a, b), a, b, Len(a), Len(b))
<1>1. PICK rows : IsTable(rows, a, b) /\ Lcs(a, b) = rows[Len(a)][Len(b) + 1]
  BY LcsTable
<1> DEFINE m == Len(b)
           Good == {i \in 0..Len(a) : \A j \in 0..m : IsLongest(rows[i][j + 1], a, b, i, j)}
<1>2. 0 \in Good
  <2>1. ASSUME NEW j \in 0..m
        PROVE  IsLongest(rows[0][j + 1], a, b, 0, j)
    <3>1. rows[0][j + 1] = 0
      BY <1>1 DEF IsTable
    <3> QED BY <3>1, CommonNothing DEF IsLongest
  <2> QED BY <2>1
<1>3. ASSUME NEW i \in 1..Len(a), i - 1 \in Good
      PROVE  i \in Good
  <2> DEFINE Fine == {j \in 0..m : IsLongest(rows[i][j + 1], a, b, i, j)}
  <2>1. Follows(rows[i], b, rows[i - 1], a[i], m)
    BY <1>1 DEF IsTable
  <2>2. 0 \in Fine
    <3>1. rows[i][0 + 1] = 0
      BY <2>1 DEF Follows, IsRow
    <3> QED BY <3>1, CommonNothing DEF IsLongest
  <2>3. ASSUME NEW j \in 1..m, j - 1 \in Fine
        PROVE  j \in Fine
    <3> DEFINE both == rows[i - 1][j]
               up   == rows[i - 1][j + 1]
               left == rows[i][j]
    <3>1. \A n \in 0..m : IsLongest(rows[i - 1][n + 1], a, b, i - 1, n)
      BY <1>3
    <3>2. j - 1 \in 0..m /\ j \in 0..m /\ (j - 1) + 1 = j
      OBVIOUS
    <3>3. IsLongest(both, a, b, i - 1, j - 1) /\ IsLongest(up, a, b, i - 1, j)
      BY <3>1, <3>2
    <3>4. IsLongest(left, a, b, i, j - 1)
      BY <2>3, <3>2
    <3>5. rows[i][j + 1] = IF a[i] = b[j] THEN both + 1
                           ELSE IF up >= left THEN up ELSE left
      BY <2>1 DEF Follows
    <3>6. IsLongest(rows[i][j + 1], a, b, i, j)
      <4>1. i \in Nat \ {0} /\ j \in Nat \ {0}
        OBVIOUS
      <4> HIDE DEF both, up, left
      <4>2. IsLongest(IF a[i] = b[j] THEN both + 1 ELSE IF up >= left THEN up ELSE left,
                      a, b, i, j)
        BY <3>3, <3>4, <4>1, LongestStep
      <4> QED BY <3>5, <4>2, Zenon
    <3> QED BY <3>2, <3>6
  <2> HIDE DEF Fine
  <2>4. \A j \in 0..m : j \in Fine
    BY <2>2, <2>3, UpTo
  <2>5. \A j \in 0..m : IsLongest(rows[i][j + 1], a, b, i, j)
    BY <2>4 DEF Fine
  <2> QED BY <2>5
<1> HIDE DEF Good
<1>4. Len(a) \in 0..Len(a) /\ m \in 0..m
  OBVIOUS
<1>5. Len(a) \in Good
  BY <1>2, <1>3, <1>4, UpTo
<1> QED
  BY <1>1, <1>4, <1>5 DEF Good

-----------------------------------------------------------------------------
(* Sequences put together.                                                  *)

\* Functions from 1..n are sequences.
LEMMA SeqOfFunction ==
    ASSUME NEW S, NEW n \in Nat, NEW f \in [1..n -> S]
    PROVE  f \in Seq(S) /\ Len(f) = n
OBVIOUS

\* Where the elements of c = s \o t come from and where those of s and t go.
LEMMA ConcatAt ==
    ASSUME NEW S, NEW s \in Seq(S), NEW t \in Seq(S), NEW c, c = s \o t
    PROVE  /\ c \in Seq(S) /\ Len(c) \in Nat /\ Len(c) = Len(s) + Len(t)
           /\ \A p \in 1..Len(s) : p \in 1..Len(c) /\ c[p] = s[p]
           /\ \A k \in 1..Len(t) : Len(s) + k \in 1..Len(c) /\ c[Len(s) + k] = t[k]
           /\ \A p \in 1..Len(c) :
                 \/ p \in 1..Len(s) /\ c[p] = s[p]
                 \/ /\ p > Len(s) /\ p - Len(s) \in 1..Len(t)
                    /\ c[p] = t[p - Len(s)]
<1>1. /\ c \in Seq(S) /\ Len(c) = Len(s) + Len(t)
      /\ \A p \in 1..(Len(s) + Len(t)) : c[p] = IF p <= Len(s) THEN s[p] ELSE t[p - Len(s)]
  BY ConcatProperties
<1>2. Len(s) \in Nat /\ Len(t) \in Nat
  OBVIOUS
<1>3. \A p \in 1..Len(s) : p \in 1..Len(c) /\ c[p] = s[p]
  BY <1>1, <1>2
<1>4. ASSUME NEW k \in 1..Len(t)
      PROVE  Len(s) + k \in 1..Len(c) /\ c[Len(s) + k] = t[k]
  <2>1. Len(s) + k \in 1..Len(c) /\ ~(Len(s) + k <= Len(s)) /\ (Len(s) + k) - Len(s) = k
    BY <1>1, <1>2
  <2> QED BY <1>1, <2>1
<1>5. ASSUME NEW p \in 1..Len(c), ~(p \in 1..Len(s))
      PROVE  p > Len(s) /\ p - Len(s) \in 1..Len(t) /\ c[p] = t[p - Len(s)]
  <2>1. p > Len(s) /\ p - Len(s) \in 1..Len(t) /\ ~(p <= Len(s))
    BY <1>1, <1>2, <1>5
  <2> QED BY <1>1, <2>1
<1> QED
  BY <1>1, <1>2, <1>3, <1>4, <1>5

\* f[i] is what the first i sequences are together.
IsFlattened(f, seqs, T) ==
    /\ f \in [0..Len(seqs) -> Seq(T)] /\ f[0] = <<>>
    /\ \A i \in 1..Len(seqs) : f[i] = f[i - 1] \o seqs[i]

LEMMA FlattenIs ==
    ASSUME NEW T, NEW seqs \in Seq(Seq(T))
    PROVE  \E f : IsFlattened(f, seqs, T) /\ FlattenSeq(seqs) = f[Len(seqs)]
<1>1. PICK n \in Nat : n = Len(seqs) /\ \A i \in 1..n : seqs[i] \in Seq(T)
  OBVIOUS
<1>2. CASE n = 0
  <2>1. seqs = <<>>
    <3> DEFINE S == Seq(T)
    <3>1. seqs \in Seq(S) /\ Len(seqs) = 0
      BY <1>1, <1>2
    <3> HIDE DEF S
    <3> QED BY <3>1, EmptySeq
  <2>2. FlattenSeq(seqs) = <<>>
    BY <1>1, <1>2, <2>1 DEF FlattenSeq
  <2>3. IsFlattened([i \in 0..0 |-> <<>>], seqs, T)
    BY <1>1, <1>2 DEF IsFlattened
  <2> QED
    BY <1>1, <1>2, <2>2, <2>3
<1>3. CASE n # 0
  <2> DEFINE step == [s \in (1..n) \X Seq(T) |-> s[2] \o seqs[s[1]]]
             Flattens(g) == g = [i \in 1..n |-> IF i = 1 THEN seqs[i] ELSE g[i - 1] \o seqs[i]]
  <2>1. step \in [(1..n) \X Seq(T) -> Seq(T)]
    <3>1. ASSUME NEW s \in (1..n) \X Seq(T)
          PROVE  s[2] \o seqs[s[1]] \in Seq(T)
      <4>1. s[2] \in Seq(T) /\ seqs[s[1]] \in Seq(T)
        BY <1>1
      <4> QED BY <4>1, ConcatProperties
    <3> QED BY <3>1
  <2>2. \A i \in 1..n, v \in Seq(T) : step[<<i, v>>] = v \o seqs[i]
    OBVIOUS
  <2> HIDE DEF step
  <2>3. PICK f : IsLoop(f, Seq(T), step, <<>>, n)
    <3>1. <<>> \in Seq(T)
      OBVIOUS
    <3> QED BY <2>1, <3>1, LoopExists
  <2>4. IsFlattened(f, seqs, T)
    <3>1. \A i \in 1..n : f[i - 1] \in Seq(T)
      BY <2>3 DEF IsLoop
    <3>2. \A i \in 1..n : f[i] = f[i - 1] \o seqs[i]
      BY <2>2, <2>3, <3>1 DEF IsLoop
    <3> QED BY <1>1, <2>3, <3>2 DEF IsLoop, IsFlattened
  <2>5. f[1] = seqs[1]
    <3>1. 1 \in 1..n /\ 1 - 1 = 0
      BY <1>3
    <3>2. f[1] = f[0] \o seqs[1] /\ f[0] = <<>>
      BY <1>1, <2>4, <3>1 DEF IsFlattened
    <3>3. seqs[1] \in Seq(T)
      BY <1>1, <3>1
    <3> QED BY <3>2, <3>3, ConcatEmptySeq
  <2>6. \A i \in 1..n : f[i] = IF i = 1 THEN seqs[i] ELSE f[i - 1] \o seqs[i]
    BY <1>1, <2>4, <2>5 DEF IsFlattened
  <2>7. Flattens([i \in 1..n |-> f[i]])
    <3> DEFINE g == [i \in 1..n |-> f[i]]
    <3>1. \A i \in 1..n : i # 1 => i - 1 \in 1..n /\ g[i - 1] = f[i - 1]
      OBVIOUS
    <3>2. g = [i \in 1..n |-> IF i = 1 THEN seqs[i] ELSE f[i - 1] \o seqs[i]]
      BY <2>6
    <3> HIDE DEF g
    <3>3. g = [i \in 1..n |-> IF i = 1 THEN seqs[i] ELSE g[i - 1] \o seqs[i]]
      BY <3>1, <3>2
    <3> QED BY <3>3 DEF g
  <2> DEFINE flatten == CHOOSE g : Flattens(g)
  <2>8. FlattenSeq(seqs) = flatten[n]
    <3>1. ~(Len(seqs) = 0)
      BY <1>1, <1>3
    <3> QED BY <1>1, <3>1, Zenon DEF FlattenSeq
  <2>9. Flattens(flatten)
    BY <2>7, Zenon
  <2> HIDE DEF flatten
  <2>10. \A i \in 1..n : flatten[i] = IF i = 1 THEN seqs[i] ELSE flatten[i - 1] \o seqs[i]
    BY <2>9
  <2>11. \A i \in 1..n : flatten[i] = f[i]
    <3> DEFINE Good == {0} \cup {i \in 1..n : flatten[i] = f[i]}
    <3>1. 0 \in Good
      OBVIOUS
    <3>2. ASSUME NEW i \in 1..n, i - 1 \in Good
          PROVE  i \in Good
      <4>1. i = 1 \/ (i # 1 /\ flatten[i - 1] = f[i - 1])
        BY <3>2
      <4> QED BY <2>6, <2>10, <4>1
    <3> HIDE DEF Good
    <3>3. \A i \in 0..n : i \in Good
      BY <1>1, <3>1, <3>2, UpTo
    <3>4. \A i \in 1..n : i \in 0..n /\ i # 0
      OBVIOUS
    <3> QED BY <3>3, <3>4 DEF Good
  <2>12. n \in 1..n
    BY <1>1, <1>3
  <2> QED
    BY <1>1, <2>4, <2>8, <2>11, <2>12
<1> QED
  BY <1>2, <1>3

LEMMA FlattenType ==
    ASSUME NEW T, NEW seqs \in Seq(Seq(T))
    PROVE  FlattenSeq(seqs) \in Seq(T)
<1>1. PICK f : IsFlattened(f, seqs, T) /\ FlattenSeq(seqs) = f[Len(seqs)]
  BY FlattenIs
<1>2. Len(seqs) \in 0..Len(seqs)
  OBVIOUS
<1> QED
  BY <1>1, <1>2 DEF IsFlattened

\* A text whose tokens are put together one by one.
LEMMA FlattenSingletons ==
    ASSUME NEW T, NEW text \in Seq(T)
    PROVE  FlattenSeq([k \in DOMAIN text |-> <<text[k]>>]) = text
<1>1. PICK n \in Nat : n = Len(text) /\ DOMAIN text = 1..n /\ \A k \in 1..n : text[k] \in T
  OBVIOUS
<1> DEFINE seqs == [k \in DOMAIN text |-> <<text[k]>>]
<1>2. seqs \in Seq(Seq(T)) /\ Len(seqs) = n /\ \A k \in 1..n : seqs[k] = <<text[k]>>
  BY <1>1
<1> HIDE DEF seqs
<1>3. PICK f : IsFlattened(f, seqs, T) /\ FlattenSeq(seqs) = f[Len(seqs)]
  BY <1>2, FlattenIs
<1> DEFINE Good == {k \in 0..n : Len(f[k]) = k /\ \A j \in 1..k : f[k][j] = text[j]}
<1>4. 0 \in Good
  BY <1>1, <1>3 DEF IsFlattened
<1>5. ASSUME NEW k \in 1..n, k - 1 \in Good
      PROVE  k \in Good
  <2>1. f[k] = f[k - 1] \o seqs[k] /\ f[k - 1] \in Seq(T) /\ text[k] \in T
    <3>1. k - 1 \in 0..Len(seqs) /\ k \in 1..Len(seqs)
      BY <1>2
    <3>2. f \in [0..Len(seqs) -> Seq(T)] /\ \A i \in 1..Len(seqs) : f[i] = f[i - 1] \o seqs[i]
      BY <1>3 DEF IsFlattened
    <3> QED BY <1>1, <3>1, <3>2
  <2>2. Len(f[k - 1]) = k - 1 /\ \A j \in 1..(k - 1) : f[k - 1][j] = text[j]
    BY <1>5
  <2>3. PICK e \in Seq(T) : e = f[k - 1]
    BY <2>1
  <2>4. PICK t \in T : t = text[k]
    BY <2>1
  <2>5. f[k] = Append(e, t)
    <3>1. seqs[k] = <<t>>
      BY <1>2, <2>4
    <3>2. e \o <<t>> = Append(e, t)
      OBVIOUS
    <3> QED BY <2>1, <2>3, <3>1, <3>2
  <2>6. Len(e) = k - 1 /\ \A j \in 1..(k - 1) : e[j] = text[j]
    BY <2>2, <2>3
  <2>7. Len(f[k]) = k /\ \A j \in 1..k : f[k][j] = text[j]
    BY <2>4, <2>5, <2>6
  <2>8. k \in 0..n
    OBVIOUS
  <2> QED BY <2>7, <2>8
<1> HIDE DEF Good
<1>6. n \in Good
  <2>1. n \in 0..n
    BY <1>1
  <2> QED BY <1>1, <1>4, <1>5, <2>1, UpTo
<1>7. f[n] \in Seq(T) /\ Len(f[n]) = n /\ \A j \in 1..n : f[n][j] = text[j]
  BY <1>1, <1>2, <1>3, <1>6 DEF IsFlattened, Good
<1>8. f[n] = text
  BY <1>1, <1>7, SeqEqual
<1> QED
  BY <1>2, <1>3, <1>8 DEF seqs

\* A batch of n blocks, of which block i has places 1 to width[i].
IsBatch(b, width, n) ==
    /\ b \in Seq((1..n) \X Nat)
    /\ \A p \in 1..Len(b) : b[p][2] \in 1..width[b[p][1]]
    /\ \A i \in 1..n : \A k \in 1..width[i] : \E p \in 1..Len(b) : b[p] = <<i, k>>
    /\ \A p, q \in 1..Len(b) :
          p < q => b[p][1] < b[q][1] \/ (b[p][1] = b[q][1] /\ b[p][2] < b[q][2])

LEMMA BatchGrows ==
    ASSUME NEW width, NEW n \in Nat, NEW b, IsBatch(b, width, n),
           NEW block, NEW w \in Nat, w = width[n + 1],
           block \in Seq((1..(n + 1)) \X Nat), Len(block) = w,
           \A k \in 1..w : block[k] = <<n + 1, k>>
    PROVE  IsBatch(b \o block, width, n + 1)
<1>1. b \in Seq((1..n) \X Nat) /\ Len(b) \in Nat
  BY DEF IsBatch
<1>2. \A p \in 1..Len(b) : b[p][1] \in 1..n /\ b[p] \in (1..n) \X Nat
  BY <1>1
<1>3. b \in Seq((1..(n + 1)) \X Nat)
  <2>1. (1..n) \X Nat \subseteq (1..(n + 1)) \X Nat
    OBVIOUS
  <2> QED BY <1>1, <2>1, SeqMonotonic
<1>4. PICK c : c = b \o block
  OBVIOUS
<1>5. /\ c \in Seq((1..(n + 1)) \X Nat) /\ Len(c) \in Nat
      /\ \A p \in 1..Len(b) : p \in 1..Len(c) /\ c[p] = b[p]
      /\ \A k \in 1..w : Len(b) + k \in 1..Len(c) /\ c[Len(b) + k] = <<n + 1, k>>
      /\ \A p \in 1..Len(c) :
            \/ p \in 1..Len(b) /\ c[p] = b[p]
            \/ p > Len(b) /\ p - Len(b) \in 1..w /\ c[p] = <<n + 1, p - Len(b)>>
  <2> DEFINE S == (1..(n + 1)) \X Nat
  <2>1. b \in Seq(S) /\ block \in Seq(S)
    BY <1>3
  <2> HIDE DEF S
  <2>2. c \in Seq(S) /\ Len(c) \in Nat
    BY <1>4, <2>1, ConcatAt
  <2>3. \A p \in 1..Len(b) : p \in 1..Len(c) /\ c[p] = b[p]
    BY <1>4, <2>1, ConcatAt
  <2>4. \A k \in 1..Len(block) : Len(b) + k \in 1..Len(c) /\ c[Len(b) + k] = block[k]
    BY <1>4, <2>1, ConcatAt, SMTT(30)
  <2>5. \A p \in 1..Len(c) :
           \/ p \in 1..Len(b) /\ c[p] = b[p]
           \/ p > Len(b) /\ p - Len(b) \in 1..w /\ c[p] = block[p - Len(b)]
    BY <1>4, <2>1, ConcatAt
  <2>6. \A k \in 1..w : block[k] = <<n + 1, k>>
    OBVIOUS
  <2>7. \A k \in 1..w : c[Len(b) + k] = <<n + 1, k>>
    BY <2>4, <2>6
  <2>8. \A p \in 1..Len(c) :
           \/ p \in 1..Len(b) /\ c[p] = b[p]
           \/ p > Len(b) /\ p - Len(b) \in 1..w /\ c[p] = <<n + 1, p - Len(b)>>
    BY <2>5, <2>6
  <2>9. c \in Seq((1..(n + 1)) \X Nat)
    BY <2>2 DEF S
  <2> QED BY <2>2, <2>3, <2>4, <2>7, <2>8, <2>9
<1>6. \A p \in 1..Len(c) : c[p][2] \in 1..width[c[p][1]]
  <2> TAKE p \in 1..Len(c)
  <2>1. CASE p \in 1..Len(b) /\ c[p] = b[p]
    BY <2>1 DEF IsBatch
  <2>2. CASE p - Len(b) \in 1..w /\ c[p] = <<n + 1, p - Len(b)>>
    BY <2>2
  <2> QED BY <1>5, <2>1, <2>2
<1>7. \A i \in 1..(n + 1) : \A k \in 1..width[i] : \E p \in 1..Len(c) : c[p] = <<i, k>>
  <2> TAKE i \in 1..(n + 1)
  <2> TAKE k \in 1..width[i]
  <2>1. CASE i = n + 1
    <3>1. k \in 1..w
      BY <2>1
    <3> QED BY <1>5, <2>1, <3>1
  <2>2. CASE i # n + 1
    <3>1. i \in 1..n
      BY <2>2
    <3>2. PICK p \in 1..Len(b) : b[p] = <<i, k>>
      BY <3>1 DEF IsBatch
    <3> QED BY <1>5, <3>2
  <2> QED BY <2>1, <2>2
<1>8. ASSUME NEW p \in 1..Len(c), NEW q \in 1..Len(c), p < q
      PROVE  c[p][1] < c[q][1] \/ (c[p][1] = c[q][1] /\ c[p][2] < c[q][2])
  <2>1. CASE q \in 1..Len(b)
    <3>1. p \in 1..Len(b)
      BY <1>1, <1>8, <2>1
    <3>2. c[p] = b[p] /\ c[q] = b[q]
      BY <1>5, <2>1, <3>1
    <3>3. b[p][1] < b[q][1] \/ (b[p][1] = b[q][1] /\ b[p][2] < b[q][2])
      BY <1>8, <2>1, <3>1 DEF IsBatch
    <3> QED BY <3>2, <3>3
  <2>2. CASE q > Len(b) /\ c[q] = <<n + 1, q - Len(b)>>
    <3>1. CASE p \in 1..Len(b)
      <4>1. c[p][1] \in 1..n
        BY <1>2, <1>5, <3>1
      <4> QED BY <2>2, <4>1
    <3>2. CASE p > Len(b) /\ c[p] = <<n + 1, p - Len(b)>>
      <4>1. p - Len(b) < q - Len(b)
        BY <1>1, <1>8
      <4> QED BY <2>2, <3>2, <4>1
    <3> QED BY <1>5, <3>1, <3>2
  <2> QED BY <1>5, <2>1, <2>2
<1>9. IsBatch(c, width, n + 1)
  BY <1>5, <1>6, <1>7, <1>8 DEF IsBatch
<1> QED
  BY <1>4, <1>9

\* The places of one slot.
LEMMA BlockIs ==
    ASSUME NEW m \in Nat, NEW i \in 1..m, NEW w \in Nat, NEW block,
           block = [k \in 1..w |-> <<i, k>>]
    PROVE  /\ block \in Seq((1..m) \X Nat) /\ Len(block) = w
           /\ \A k \in 1..w : block[k] = <<i, k>>
<1> DEFINE S == (1..m) \X Nat
<1>1. \A k \in 1..w : <<i, k>> \in S
  OBVIOUS
<1> HIDE DEF S
<1>2. block \in [1..w -> S]
  BY <1>1
<1>3. block \in Seq(S) /\ Len(block) = w
  BY <1>2, SeqOfFunction
<1> QED
  BY <1>3 DEF S

\* Blocks put together are a batch.
LEMMA BatchIs ==
    ASSUME NEW n \in Nat, NEW width \in [1..n -> Nat], NEW blocks, DOMAIN blocks = 1..n,
           \A i \in 1..n : blocks[i] = [k \in 1..width[i] |-> <<i, k>>],
           blocks = [i \in 1..n |-> blocks[i]]
    PROVE  IsBatch(FlattenSeq(blocks), width, n)
<1> DEFINE S == (1..n) \X Nat
<1>1. \A i \in 1..n : /\ width[i] \in Nat /\ blocks[i] \in Seq(S) /\ Len(blocks[i]) = width[i]
                      /\ \A k \in 1..width[i] : blocks[i][k] = <<i, k>>
  <2> TAKE i \in 1..n
  <2>1. PICK w \in Nat : w = width[i]
    OBVIOUS
  <2>2. PICK block : block = blocks[i]
    OBVIOUS
  <2>3. block = [k \in 1..w |-> <<i, k>>]
    BY <2>1, <2>2
  <2>4. /\ block \in Seq(S) /\ Len(block) = w
        /\ \A k \in 1..w : block[k] = <<i, k>>
    BY <2>3, BlockIs
  <2> HIDE DEF S
  <2> QED BY <2>1, <2>2, <2>4
<1>2. blocks \in Seq(Seq(S)) /\ Len(blocks) = n
  <2> HIDE DEF S
  <2>1. blocks \in [1..n -> Seq(S)]
    BY <1>1
  <2> QED BY <2>1
<1>3. PICK f : IsFlattened(f, blocks, S) /\ FlattenSeq(blocks) = f[Len(blocks)]
  <2> HIDE DEF S
  <2> QED BY <1>2, FlattenIs
<1> DEFINE Good == {i \in 0..n : IsBatch(f[i], width, i)}
<1>4. 0 \in Good
  <2>1. f[0] = <<>>
    BY <1>3 DEF IsFlattened
  <2>2. IsBatch(<<>>, width, 0)
    BY DEF IsBatch
  <2> QED BY <2>1, <2>2
<1>5. ASSUME NEW i \in 1..n, i - 1 \in Good
      PROVE  i \in Good
  <2>1. f[i] = f[i - 1] \o blocks[i]
    BY <1>2, <1>3 DEF IsFlattened
  <2>2. IsBatch(f[i - 1], width, i - 1) /\ i - 1 \in Nat /\ (i - 1) + 1 = i
    BY <1>5
  <2>3. blocks[i] \in Seq((1..i) \X Nat)
    <3>1. width[i] \in Nat /\ i \in Nat /\ i \in 1..i
      OBVIOUS
    <3>2. blocks[i] = [k \in 1..width[i] |-> <<i, k>>]
      OBVIOUS
    <3> QED BY <3>1, <3>2, BlockIs
  <2>4. IsBatch(f[i], width, i)
    <3>1. PICK m \in Nat : m = i - 1 /\ m + 1 = i
      BY <2>2
    <3>2. IsBatch(f[m] \o blocks[i], width, m + 1)
      <4>1. IsBatch(f[m], width, m)
        BY <2>2, <3>1
      <4>2. PICK block : block = blocks[i]
        OBVIOUS
      <4>3. PICK w \in Nat : w = width[m + 1]
        BY <1>1, <3>1
      <4>4. block \in Seq((1..(m + 1)) \X Nat) /\ Len(block) = w
        BY <1>1, <2>3, <3>1, <4>2, <4>3
      <4>5. \A k \in 1..w : block[k] = <<m + 1, k>>
        BY <1>1, <3>1, <4>2, <4>3, SMTT(30)
      <4> HIDE DEF S
      <4>6. IsBatch(f[m] \o block, width, m + 1)
        BY <4>1, <4>3, <4>4, <4>5, BatchGrows
      <4> QED BY <4>2, <4>6
    <3> QED BY <2>1, <3>1, <3>2
  <2>5. i \in 0..n
    OBVIOUS
  <2> QED BY <2>4, <2>5
<1> HIDE DEF Good
<1>6. n \in Good
  <2>1. n \in 0..n
    OBVIOUS
  <2> QED BY <1>4, <1>5, <2>1, UpTo
<1> QED
  BY <1>2, <1>3, <1>6 DEF Good

-----------------------------------------------------------------------------
(* The slot a task gets.                                                    *)

\* Slots of types as they are, and a task that may be compared with them.
Comparable(t) ==
    SlotTypes /\ cache \in [1..NParallel -> Seq(Tokens)] /\ t.prompt \in Seq(Tokens)

Similar(t) == {s \in Idle : IsSimilar(s, t)}

LEMMA SharedType ==
    ASSUME NEW t, Comparable(t), NEW s \in 1..NParallel
    PROVE  Shared(s, t) \in Nat
<1>1. PICK b \in Seq(Tokens) : b = t.prompt
  BY DEF Comparable
<1>2. PICK a \in Seq(Tokens) : a = cache[s]
  BY DEF Comparable
<1>3. Len(a) \in Nat /\ Len(b) \in Nat
  OBVIOUS
<1>4. Lcs(a, b) \in Nat
  BY <1>3, LcsType
<1> QED
  BY <1>1, <1>2, <1>4 DEF Shared

\* MostSimilar is an idle slot that is similar enough and shares most with the prompt,
\* or 0 if none shares anything.
LEMMA MostSimilarIs ==
    ASSUME NEW t, Comparable(t)
    PROVE  \/ MostSimilar(t) = 0 /\ \A s \in Similar(t) : Shared(s, t) <= 0
           \/ /\ MostSimilar(t) \in Similar(t) /\ Shared(MostSimilar(t), t) > 0
              /\ \A s \in Similar(t) : Shared(s, t) <= Shared(MostSimilar(t), t)
<1> DEFINE n == slots[Served]
           score == [s \in 1..n |-> Lcs(cache[s], t.prompt)]
           After(s, best) ==
               IF /\ ~IsProcessing(s)
                  /\ Lcs(cache[s], t.prompt) >
                        (IF best = 0 THEN 0 ELSE Lcs(cache[best], t.prompt))
                  /\ IsSimilar(s, t)
               THEN s ELSE best
           Finds(ret) == ret = [s \in 0..n |-> IF s = 0 THEN 0 ELSE After(s, ret[s - 1])]
<1>1. /\ n \in Nat /\ Similar(t) \in SUBSET (1..n) /\ 1..n \subseteq 1..NParallel
  BY LifecycleAssumption DEF Comparable, SlotTypes, Similar, Idle, Slots
<1>2. score \in [1..n -> Int]
  <2>1. \A s \in 1..n : Lcs(cache[s], t.prompt) \in Int
    BY <1>1, SharedType DEF Shared
  <2> QED BY <2>1
<1>3. ASSUME NEW s \in 1..n, NEW best \in 0..n
      PROVE  After(s, best) = Better(s, best, Similar(t), score, 0)
  <2>1. s \in Similar(t) <=> ~IsProcessing(s) /\ IsSimilar(s, t)
    BY DEF Similar, Idle, Slots
  <2>2. /\ score[s] = Lcs(cache[s], t.prompt)
        /\ best # 0 => score[best] = Lcs(cache[best], t.prompt)
    BY <1>1
  <2>3. (IF best = 0 THEN 0 ELSE Lcs(cache[best], t.prompt))
            = (IF best = 0 THEN 0 ELSE score[best])
    BY <2>2
  <2> HIDE DEF score
  <2> QED
    BY <2>1, <2>2, <2>3, Zenon DEF Better
<1> HIDE DEF n, score, After
<1>4. \E ret : Finds(ret)
  <2>1. PICK f : IsBetterLoop(f, n, Similar(t), score, 0)
    BY <1>1, BetterIsThere
  <2>2. \A k \in 1..n : k - 1 \in 0..n /\ f[k - 1] \in 0..n
    <3>1. f \in [0..n -> 0..n]
      BY <2>1 DEF IsBetterLoop
    <3>2. \A k \in 1..n : k - 1 \in 0..n
      BY <1>1
    <3> QED BY <3>1, <3>2
  <2>3. \A k \in 1..n : f[k] = After(k, f[k - 1])
    BY <1>3, <2>1, <2>2 DEF IsBetterLoop
  <2>4. Finds(f)
    BY <2>1, <2>3, <1>1 DEF IsBetterLoop
  <2> QED BY <2>4
<1> DEFINE ret == CHOOSE f : Finds(f)
<1>5. MostSimilar(t) = ret[n]
  BY Zenon DEF MostSimilar, After, n
<1>6. Finds(ret)
  BY <1>4, Zenon
<1> HIDE DEF ret
<1>7. /\ ret[0] = 0
      /\ \A k \in 1..n : ret[k - 1] \in 0..n =>
             ret[k] = Better(k, ret[k - 1], Similar(t), score, 0)
  BY <1>1, <1>3, <1>6
<1>8. \/ ret[n] = 0 /\ \A k \in Similar(t) : score[k] <= 0
      \/ /\ ret[n] \in Similar(t) /\ score[ret[n]] > 0
         /\ \A k \in Similar(t) : score[k] <= score[ret[n]]
  <2>1. 0 \in Int
    OBVIOUS
  <2> QED BY <1>1, <1>2, <1>7, <2>1, BetterIsBest
<1>9. \A s \in Similar(t) : score[s] = Shared(s, t)
  BY <1>1 DEF score, Shared
<1> QED
  BY <1>5, <1>8, <1>9

\* The loops find a best slot, unless all that are idle were released just now.
LEMMA GetsBest ==
    ASSUME NEW t, Comparable(t), GetAvailableSlot(t) # 0
    PROVE  GetAvailableSlot(t) \in BestSlots(t)
<1> DEFINE similar == {s \in Idle :
                          Similarity[1] # 0 /\ Shared(s, t) > 0 /\ IsSimilar(s, t)}
<1>0. Idle \subseteq 1..NParallel
  BY LifecycleAssumption DEF Comparable, SlotTypes, Idle, Slots
<1>1. CASE Similarity[1] # 0 /\ MostSimilar(t) # 0
  <2>1. /\ MostSimilar(t) \in Similar(t) /\ Shared(MostSimilar(t), t) > 0
        /\ \A s \in Similar(t) : Shared(s, t) <= Shared(MostSimilar(t), t)
    BY <1>1, MostSimilarIs
  <2>2. GetAvailableSlot(t) = MostSimilar(t)
    BY <1>1 DEF GetAvailableSlot
  <2>3. MostSimilar(t) \in similar
    BY <1>1, <2>1 DEF Similar
  <2>4. \A u \in similar : Shared(u, t) <= Shared(MostSimilar(t), t)
    BY <2>1 DEF Similar
  <2> HIDE DEF similar
  <2>5. MostSimilar(t) \in
            {s \in similar : \A u \in similar : Shared(u, t) <= Shared(s, t)}
    BY <2>3, <2>4
  <2> QED
    BY <2>2, <2>3, <2>5 DEF BestSlots, similar
<1>2. CASE ~(Similarity[1] # 0 /\ MostSimilar(t) # 0)
  <2>1. GetAvailableSlot(t) = LeastRecent
    BY <1>2 DEF GetAvailableSlot
  <2>2. LeastRecent \in Idle /\ \A s \in Idle : t_last_used[LeastRecent] <= t_last_used[s]
    <3>1. SlotTypes
      BY DEF Comparable
    <3> QED BY <2>1, <3>1, LeastRecentIs
  <2>3. similar = {}
    <3>1. CASE Similarity[1] = 0
      BY <3>1
    <3>2. CASE MostSimilar(t) = 0
      <4>1. \A s \in Similar(t) : Shared(s, t) <= 0 /\ Shared(s, t) \in Nat
        <5>1. MostSimilar(t) \notin Similar(t)
          BY <1>0, <3>2 DEF Similar
        <5>2. \A s \in Similar(t) : s \in 1..NParallel
          BY <1>0 DEF Similar
        <5> QED BY <5>1, <5>2, MostSimilarIs, SharedType
      <4>2. \A s \in similar : s \in Similar(t) /\ Shared(s, t) > 0
        BY DEF Similar
      <4> HIDE DEF similar
      <4>3. \A s \in similar : FALSE
        BY <4>1, <4>2
      <4> QED BY <4>3
    <3> QED BY <1>2, <3>1, <3>2
  <2>4. BestSlots(t) = {s \in Idle : \A u \in Idle : t_last_used[s] <= t_last_used[u]}
    BY <2>3, Zenon DEF BestSlots
  <2> QED BY <2>1, <2>2, <2>4
<1> QED
  BY <1>1, <1>2

\* If it is 0 though slots are idle, these were released just now.
LEMMA GetsNone ==
    ASSUME NEW t, Comparable(t), GetAvailableSlot(t) = 0
    PROVE  \A s \in Idle : t_last_used[s] >= clock
<1>0. 0 \notin Idle
  BY DEF Idle, Slots
<1>1. GetAvailableSlot(t) = LeastRecent
  BY DEF GetAvailableSlot
<1>2. SlotTypes
  BY DEF Comparable
<1> QED
  BY <1>0, <1>1, <1>2, LeastRecentIs

-----------------------------------------------------------------------------
(* Sets of numbers and their order.                                         *)

LEMMA MinIs ==
    ASSUME NEW S \in SUBSET Nat, S # {}
    PROVE  Min(S) \in S /\ \A y \in S : Min(S) <= y
<1>1. \E n \in S : \A m \in S : n <= m
  BY LeastNumber
<1> QED
  BY <1>1, Zenon DEF Min

LEMMA MaxIs ==
    ASSUME NEW S \in SUBSET Nat, S # {}, NEW N \in Nat, \A y \in S : y <= N
    PROVE  Max(S) \in S /\ \A y \in S : Max(S) >= y
<1> DEFINE B == {N - y : y \in S}
<1>1. B \in SUBSET Nat /\ B # {}
  <2>1. \A y \in S : N - y \in Nat
    OBVIOUS
  <2>2. B \in SUBSET Nat
    BY <2>1
  <2>3. PICK y \in S : TRUE
    OBVIOUS
  <2>4. N - y \in B
    OBVIOUS
  <2> QED BY <2>2, <2>4
<1> HIDE DEF B
<1>2. PICK b \in B : \A c \in B : b <= c
  BY <1>1, LeastNumber
<1>3. PICK m \in S : b = N - m
  BY <1>2 DEF B
<1>4. \A y \in S : m >= y
  <2>1. \A y \in S : N - y \in B
    BY DEF B
  <2> QED BY <1>2, <1>3, <2>1
<1>5. \E n \in S : \A y \in S : n >= y
  BY <1>3, <1>4
<1> QED
  BY <1>5, Zenon DEF Max

LEMMA MinOfTwo ==
    ASSUME NEW a \in Nat, NEW b \in Nat
    PROVE  Min({a, b}) = IF a <= b THEN a ELSE b
<1>1. {a, b} \in SUBSET Nat /\ {a, b} # {}
  OBVIOUS
<1> HIDE DEF Min
<1>2. PICK m : m = Min({a, b})
  OBVIOUS
<1>3. m \in {a, b} /\ \A y \in {a, b} : m <= y
  BY <1>1, <1>2, MinIs
<1>4. m = IF a <= b THEN a ELSE b
  BY <1>3
<1> QED
  BY <1>2, <1>4

IsIncreasing(f, S, c) ==
    f \in [1..c -> S] /\ \A j, k \in 1..c : j < k => f[j] < f[k]

IsOnto(f, S, c) == \A x \in S : \E k \in 1..c : f[k] = x

\* Any finite set of numbers can be counted in its order.
LEMMA IncreasingIsThere ==
    ASSUME NEW N \in Nat, NEW S \in SUBSET (1..N)
    PROVE  \E f : IsIncreasing(f, S, Cardinality(S))
<1> DEFINE Good == {c \in Nat : \A T \in SUBSET (1..N) :
                       Cardinality(T) = c => \E f : IsIncreasing(f, T, c)}
<1>0. \A T \in SUBSET (1..N) : IsFiniteSet(T) /\ Cardinality(T) \in Nat
  <2>1. IsFiniteSet(1..N)
    BY FS_Interval
  <2> QED BY <2>1, FS_Subset, FS_CardinalityType
<1>1. 0 \in Good
  <2> SUFFICES ASSUME NEW T \in SUBSET (1..N)
               PROVE  \E f : IsIncreasing(f, T, 0)
    OBVIOUS
  <2>1. IsIncreasing([k \in 1..0 |-> 0], T, 0)
    BY DEF IsIncreasing
  <2> QED BY <2>1
<1>2. PICK n \in Nat : n = Cardinality(S)
  BY <1>0
<1>3. ASSUME NEW c \in 1..n, c - 1 \in Good
      PROVE  c \in Good
  <2> SUFFICES ASSUME NEW T \in SUBSET (1..N), Cardinality(T) = c
               PROVE  \E f : IsIncreasing(f, T, c)
    OBVIOUS
  <2>1. T # {}
    BY FS_EmptySet
  <2>2. PICK m \in T : \A y \in T : m >= y
    <3>1. T \in SUBSET Nat /\ \A y \in T : y <= N
      OBVIOUS
    <3> QED BY <2>1, <3>1, MaxIs
  <2>3. T \ {m} \in SUBSET (1..N) /\ Cardinality(T \ {m}) = c - 1
    BY <1>0, <2>2, FS_RemoveElement
  <2>4. PICK g : IsIncreasing(g, T \ {m}, c - 1)
    BY <1>3, <2>3
  <2> DEFINE f == [k \in 1..c |-> IF k = c THEN m ELSE g[k]]
  <2>5. \A k \in 1..c : k # c => k \in 1..(c - 1)
    OBVIOUS
  <2>6. \A k \in 1..(c - 1) : g[k] \in T /\ g[k] # m /\ g[k] < m
    <3>1. \A k \in 1..(c - 1) : g[k] \in T \ {m}
      BY <2>4 DEF IsIncreasing
    <3>2. \A y \in T \ {m} : y < m
      BY <2>2
    <3> QED BY <3>1, <3>2
  <2>7. f \in [1..c -> T]
    BY <2>5, <2>6
  <2>8. \A j, k \in 1..c : j < k => f[j] < f[k]
    <3> SUFFICES ASSUME NEW j \in 1..c, NEW k \in 1..c, j < k
                 PROVE  f[j] < f[k]
      OBVIOUS
    <3>1. j \in 1..(c - 1) /\ f[j] = g[j]
      OBVIOUS
    <3>2. CASE k = c
      BY <2>6, <3>1, <3>2
    <3>3. CASE k # c
      <4>1. k \in 1..(c - 1) /\ f[k] = g[k]
        BY <3>3
      <4> QED BY <2>4, <3>1, <4>1 DEF IsIncreasing
    <3> QED BY <3>2, <3>3
  <2> HIDE DEF f
  <2>9. IsIncreasing(f, T, c)
    BY <2>7, <2>8 DEF IsIncreasing
  <2> QED BY <2>9
<1> HIDE DEF Good
<1>4. n \in 0..n
  OBVIOUS
<1>5. n \in Good
  BY <1>1, <1>3, <1>4, UpTo
<1> QED
  BY <1>2, <1>5 DEF Good

\* InOrder numbers the elements of S from 1, the smallest first.
LEMMA InOrderIs ==
    ASSUME NEW N \in Nat, NEW S \in SUBSET (1..N)
    PROVE  /\ Cardinality(S) \in Nat
           /\ IsIncreasing(InOrder(S), S, Cardinality(S))
           /\ IsOnto(InOrder(S), S, Cardinality(S))
<1>0. IsFiniteSet(S) /\ Cardinality(S) \in Nat
  <2>1. IsFiniteSet(1..N)
    BY FS_Interval
  <2> QED BY <2>1, FS_Subset, FS_CardinalityType
<1>1. PICK c \in Nat : c = Cardinality(S)
  BY <1>0
<1>2. PICK g : IsIncreasing(g, S, c)
  BY <1>1, IncreasingIsThere
<1> DEFINE P(seq) == \A j, k \in DOMAIN seq : j < k => seq[j] < seq[k]
<1>3. g \in [1..c -> S] /\ P(g)
  BY <1>2 DEF IsIncreasing
<1>4. InOrder(S) = CHOOSE seq \in [1..c -> S] : P(seq)
  BY <1>1, Zenon DEF InOrder
<1>5. InOrder(S) \in [1..c -> S] /\ P(InOrder(S))
  <2> HIDE DEF P
  <2> QED BY <1>3, <1>4, Zenon
<1>6. PICK f : f = InOrder(S)
  OBVIOUS
<1>7. IsIncreasing(f, S, c)
  BY <1>5, <1>6 DEF IsIncreasing
<1>8. f \in Injection(1..c, S)
  <2>1. ASSUME NEW a \in 1..c, NEW b \in 1..c, f[a] = f[b]
        PROVE  a = b
    <3>1. f[a] \in 1..N /\ f[b] \in 1..N
      BY <1>7 DEF IsIncreasing
    <3>2. ~(a < b) /\ ~(b < a)
      BY <1>7, <2>1, <3>1 DEF IsIncreasing
    <3> QED BY <3>2
  <2>2. f \in [1..c -> S]
    BY <1>7 DEF IsIncreasing
  <2> QED BY <2>1, <2>2 DEF Injection, IsInjective
<1>9. f \in Surjection(1..c, S)
  <2>1. Cardinality(1..c) = c
    BY FS_Interval
  <2>2. PICK T : T = 1..c
    OBVIOUS
  <2>3. f \in Injection(T, S) /\ IsFiniteSet(S) /\ Cardinality(T) = Cardinality(S)
    BY <1>0, <1>1, <1>8, <2>1, <2>2
  <2>4. f \in Surjection(T, S)
    BY <2>3, FS_Injection, Zenon
  <2> QED BY <2>2, <2>4
<1>10. IsOnto(f, S, c)
  BY <1>9 DEF Surjection, IsOnto
<1> QED
  BY <1>0, <1>1, <1>6, <1>7, <1>10

-----------------------------------------------------------------------------
(* Prompts.                                                                 *)

LEMMA PartIs ==
    ASSUME NEW part \in Parts
    PROVE  \/ part[1] = "string" /\ part[2] \in Seq(Tokens)
           \/ part[1] \in {"number", "scalar"} /\ part[2] \in Tokens
BY DEF Parts, Texts

LEMMA PromptIs ==
    ASSUME NEW json \in Prompts
    PROVE  \/ json = <<"string", json[2]>> /\ json[2] \in Seq(Tokens)
           \/ json = <<"array", json[2]>> /\ json[2] \in Seq(Parts)
BY DEF Prompts, Texts

LEMMA OneElement ==
    ASSUME NEW x
    PROVE  [k \in 1..1 |-> x] = <<x>>
OBVIOUS

LEMMA OneOf ==
    ASSUME NEW x
    PROVE  \E seq : seq = <<x>> /\ DOMAIN seq = 1..1 /\ seq[1] = x
<1>1. DOMAIN <<x>> = 1..1 /\ <<x>>[1] = x
  OBVIOUS
<1> QED
  BY <1>1, Zenon

LEMMA OneSequence ==
    ASSUME NEW T, NEW seq \in Seq(T)
    PROVE  FlattenSeq(<<seq>>) = seq
<1>1. PICK seqs \in Seq(Seq(T)) : seqs = <<seq>> /\ Len(seqs) = 1 /\ seqs[1] = seq
  <2> DEFINE S == Seq(T)
  <2>1. seq \in S
    OBVIOUS
  <2> HIDE DEF S
  <2>2. <<seq>> \in Seq(S) /\ Len(<<seq>>) = 1 /\ <<seq>>[1] = seq
    BY <2>1
  <2> QED BY <2>2 DEF S
<1>2. PICK f : IsFlattened(f, seqs, T) /\ FlattenSeq(seqs) = f[Len(seqs)]
  BY FlattenIs
<1>3. f[1] = f[0] \o seqs[1] /\ f[0] = <<>>
  <2>1. 1 \in 1..Len(seqs) /\ 1 - 1 = 0
    BY <1>1
  <2> QED BY <1>2, <2>1 DEF IsFlattened
<1>4. f[1] = seq
  BY <1>1, <1>3, ConcatEmptySeq
<1> QED
  BY <1>1, <1>2, <1>4

LEMMA TextTokens ==
    ASSUME NEW text \in Seq(Tokens)
    PROVE  /\ CommonTokenize(text, FALSE) = text
           /\ CommonTokenize(text, TRUE) = Opening \o text \o Closing
           /\ CommonTokenize(text, TRUE) \in Seq(Tokens)
           /\ Encode(text) = text
           /\ TokenizeMixed(<<"string", text>>, TRUE) = CommonTokenize(text, TRUE)
<1>1. Opening \o text \o Closing \in Seq(Tokens)
  <2>1. PICK begun \in Seq(Tokens) : begun = Opening \o text
    BY SlotsAssumption, ConcatProperties
  <2>2. begun \o Closing \in Seq(Tokens)
    BY SlotsAssumption, ConcatProperties
  <2> QED BY <2>1, <2>2
<1>2. \A special : TokenizeMixed(<<"string", text>>, special) = CommonTokenize(text, special)
  <2>1. ~IsArray(<<"string", text>>) /\ <<"string", text>>[2] = text
    BY DEF IsArray
  <2> QED BY <2>1 DEF TokenizeMixed
<1> QED
  BY <1>1, <1>2 DEF CommonTokenize, Encode

\* What IsWhole says of a part of a prompt.
OwnTokens(part) == IF IsString(part) THEN Encode(part[2]) ELSE <<part[2]>>
Dressed(parts, k) ==
    IF k = 1 /\ IsString(parts[1]) THEN Opening \o OwnTokens(parts[k]) \o Closing
    ELSE OwnTokens(parts[k])

LEMMA IsWholeOf ==
    ASSUME NEW tokens, NEW json, NEW parts,
           parts = IF IsArray(json) THEN json[2] ELSE <<json>>,
           tokens = FlattenSeq([k \in DOMAIN parts |-> Dressed(parts, k)])
    PROVE  IsWhole(tokens, json)
BY Zenon DEF IsWhole, Dressed, OwnTokens

\* With special tokens, a part of a prompt is what IsWhole says of it.
LEMMA SpecialParts ==
    ASSUME NEW parts \in Seq(Parts), NEW k \in DOMAIN parts
    PROVE  /\ Piece(parts, k, TRUE) \in Seq(Tokens)
           /\ Piece(parts, k, TRUE) = Dressed(parts, k)
<1>1. PICK part \in Parts : part = parts[k]
  OBVIOUS
<1>2. CASE part[1] = "string" /\ part[2] \in Seq(Tokens)
  <2>1. PICK text \in Seq(Tokens) : text = part[2]
    BY <1>2
  <2>2. IsString(part)
    BY <1>2 DEF IsString
  <2>3. Piece(parts, k, TRUE) = CommonTokenize(text, k = 1)
    BY <1>1, <2>1, <2>2 DEF Piece
  <2>4. OwnTokens(parts[k]) = text
    BY <1>1, <2>1, <2>2, TextTokens DEF OwnTokens
  <2>5. CASE k = 1
    <3>1. Dressed(parts, k) = Opening \o text \o Closing
      BY <1>1, <2>2, <2>4, <2>5 DEF Dressed
    <3> QED BY <2>3, <2>5, <3>1, TextTokens
  <2>6. CASE k # 1
    <3>1. Dressed(parts, k) = text
      BY <2>4, <2>6 DEF Dressed
    <3> QED BY <2>3, <2>6, <3>1, TextTokens
  <2> QED BY <2>5, <2>6
<1>3. CASE part[1] \in {"number", "scalar"} /\ part[2] \in Tokens
  <2>1. ~IsString(part)
    BY <1>3 DEF IsString
  <2>2. Piece(parts, k, TRUE) = <<part[2]>> /\ <<part[2]>> \in Seq(Tokens)
    BY <1>1, <1>3, <2>1 DEF Piece
  <2> QED BY <1>1, <2>1, <2>2 DEF Dressed, OwnTokens
<1> QED
  BY <1>2, <1>3, PartIs

\* A prompt, with special tokens, is of tokens of the vocabulary and whole.
LEMMA PromptTyped ==
    ASSUME NEW json \in Prompts
    PROVE  /\ TokenizeMixed(json, TRUE) \in Seq(Tokens)
           /\ IsWhole(TokenizeMixed(json, TRUE), json)
<1>1. CASE json = <<"string", json[2]>> /\ json[2] \in Seq(Tokens)
  <2>1. PICK text \in Seq(Tokens) : text = json[2] /\ json = <<"string", text>>
    BY <1>1
  <2>2. PICK whole \in Seq(Tokens) :
            whole = Opening \o text \o Closing /\ TokenizeMixed(json, TRUE) = whole
    <3>1. /\ Opening \o text \o Closing \in Seq(Tokens)
          /\ TokenizeMixed(<<"string", text>>, TRUE) = Opening \o text \o Closing
      BY TextTokens
    <3> QED BY <2>1, <3>1, Zenon
  <2>3. ~IsArray(json) /\ IsString(json)
    BY <2>1 DEF IsArray, IsString
  <2>4. PICK parts : parts = <<json>> /\ DOMAIN parts = 1..1 /\ parts[1] = json
    BY OneOf
  <2>5. Dressed(parts, 1) = whole
    BY <2>1, <2>2, <2>3, <2>4, TextTokens DEF Dressed, OwnTokens
  <2>6. [k \in DOMAIN parts |-> Dressed(parts, k)] = <<whole>>
    <3>1. [k \in DOMAIN parts |-> Dressed(parts, k)] = [k \in 1..1 |-> whole]
      BY <2>4, <2>5
    <3>2. [k \in 1..1 |-> whole] = <<whole>>
      BY OneElement
    <3> QED BY <3>1, <3>2, Zenon
  <2>7. FlattenSeq(<<whole>>) = whole
    BY OneSequence
  <2>8. parts = IF IsArray(json) THEN json[2] ELSE <<json>>
    BY <2>3, <2>4
  <2>9. whole = FlattenSeq([k \in DOMAIN parts |-> Dressed(parts, k)])
    BY <2>6, <2>7, Zenon
  <2>10. IsWhole(whole, json)
    BY <2>8, <2>9, IsWholeOf
  <2> QED BY <2>2, <2>10
<1>2. CASE json = <<"array", json[2]>> /\ json[2] \in Seq(Parts)
  <2>1. PICK parts \in Seq(Parts) : parts = json[2]
    BY <1>2
  <2>2. IsArray(json)
    BY <1>2 DEF IsArray
  <2>3. PICK pieces : pieces = [k \in DOMAIN parts |-> Piece(parts, k, TRUE)]
    OBVIOUS
  <2>4. pieces = [k \in DOMAIN parts |-> Dressed(parts, k)]
    BY <2>3, SpecialParts
  <2>5. pieces \in Seq(Seq(Tokens))
    <3> DEFINE S == Seq(Tokens)
    <3>1. DOMAIN parts = 1..Len(parts) /\ Len(parts) \in Nat
      OBVIOUS
    <3>2. \A k \in DOMAIN parts : Piece(parts, k, TRUE) \in S
      BY SpecialParts
    <3> HIDE DEF S
    <3>3. pieces \in [1..Len(parts) -> S]
      BY <2>3, <3>1, <3>2
    <3>4. pieces \in Seq(S)
      BY <3>1, <3>3, SeqOfFunction
    <3> QED BY <3>4 DEF S
  <2>6. TokenizeMixed(json, TRUE) = FlattenSeq(pieces)
    BY <2>1, <2>2, <2>3 DEF TokenizeMixed
  <2>7. FlattenSeq(pieces) \in Seq(Tokens)
    BY <2>5, FlattenType
  <2>8. parts = IF IsArray(json) THEN json[2] ELSE <<json>>
    BY <2>1, <2>2
  <2>9. FlattenSeq(pieces) = FlattenSeq([k \in DOMAIN parts |-> Dressed(parts, k)])
    BY <2>4, Zenon
  <2>10. IsWhole(FlattenSeq(pieces), json)
    BY <2>8, <2>9, IsWholeOf
  <2> QED BY <2>6, <2>7, <2>10
<1> QED
  BY <1>1, <1>2, PromptIs

\* What a document becomes is of tokens.
LEMMA ModifiedIs ==
    ASSUME NEW text \in Seq(Tokens)
    PROVE  Modified(text) \in Seq(Tokens)
<1> DEFINE Part(k) == IF text[k] \in Supplementary THEN <<High, Low>> ELSE <<text[k]>>
           parts == [k \in DOMAIN text |-> Part(k)]
<1>1. DOMAIN text = 1..Len(text) /\ Len(text) \in Nat /\ \A k \in DOMAIN text : text[k] \in Tokens
  OBVIOUS
<1>2. parts \in Seq(Seq(Tokens))
  <2> DEFINE S == Seq(Tokens)
  <2>1. \A k \in DOMAIN text : Part(k) \in S
    BY <1>1, SlotsAssumption
  <2> HIDE DEF S, Part
  <2>2. parts \in [1..Len(text) -> S]
    BY <1>1, <2>1
  <2>3. parts \in Seq(S)
    <3> HIDE DEF parts
    <3> QED BY <1>1, <2>2, SeqOfFunction
  <2> QED BY <2>3 DEF S
<1>3. Modified(text) = FlattenSeq(parts)
  BY Zenon DEF Modified
<1>4. FlattenSeq(parts) \in Seq(Tokens)
  <2> HIDE DEF parts
  <2> QED BY <1>2, FlattenType
<1> QED
  BY <1>3, <1>4

\* What is ranked is of tokens, and never empty.
LEMMA RankedIs ==
    ASSUME NEW query \in Seq(Tokens), NEW doc \in Seq(Tokens)
    PROVE  /\ FormatRerank(query, doc) \in Seq(Tokens)
           /\ FormatRerank(query, doc) # <<>>
<1>1. <<BOS>> \in Seq(Tokens) /\ <<EOS, SEP>> \in Seq(Tokens) /\ <<EOS>> \in Seq(Tokens)
  BY SlotsAssumption
<1>2. PICK a \in Seq(Tokens) : a = <<BOS>> \o query /\ Len(a) = 1 + Len(query)
  <2>1. PICK e \in Seq(Tokens) : e = <<BOS>> /\ Len(e) = 1
    BY <1>1
  <2>2. e \o query \in Seq(Tokens) /\ Len(e \o query) = Len(e) + Len(query)
    BY ConcatProperties
  <2> QED BY <2>1, <2>2
<1>3. PICK b \in Seq(Tokens) : b = a \o <<EOS, SEP>> /\ Len(b) = Len(a) + Len(<<EOS, SEP>>)
  <2>1. PICK e \in Seq(Tokens) : e = <<EOS, SEP>>
    BY <1>1
  <2>2. a \o e \in Seq(Tokens) /\ Len(a \o e) = Len(a) + Len(e)
    BY ConcatProperties
  <2> QED BY <2>1, <2>2
<1>4. PICK c \in Seq(Tokens) : c = b \o doc /\ Len(c) = Len(b) + Len(doc)
  BY <1>1, ConcatProperties
<1>5. PICK d \in Seq(Tokens) : d = c \o <<EOS>> /\ Len(d) = Len(c) + Len(<<EOS>>)
  <2>1. PICK e \in Seq(Tokens) : e = <<EOS>>
    BY <1>1
  <2>2. c \o e \in Seq(Tokens) /\ Len(c \o e) = Len(c) + Len(e)
    BY ConcatProperties
  <2> QED BY <2>1, <2>2
<1>6. Len(d) > 0
  <2>1. Len(<<EOS>>) = 1 /\ Len(c) \in Nat
    OBVIOUS
  <2> QED BY <1>5, <2>1
<1>7. FormatRerank(query, doc) = d
  BY <1>2, <1>3, <1>4, <1>5 DEF FormatRerank
<1> QED
  BY <1>6, <1>7

-----------------------------------------------------------------------------
(* What callers ask for.                                                    *)

LEMMA TextIs ==
    ASSUME NEW text \in Texts
    PROVE  text = <<"string", text[2]>> /\ text[2] \in Seq(Tokens)
BY DEF Texts

LEMMA RequestIs ==
    ASSUME NEW call \in Requests
    PROVE  /\ call.type \in {"COMPLETION", "EMBEDDING", "RERANK"} /\ call.cached \in BOOLEAN
           /\ call.type = "COMPLETION" =>
                 /\ call.prompt \in Prompts \cup {"array"} \X Seq(Prompts)
                 /\ IsPrompts(call.prompt)
           /\ call.type = "EMBEDDING" =>
                 /\ call.prompt = <<"string", call.prompt[2]>>
                 /\ call.prompt[2] \in Seq(Tokens)
           /\ call.type = "RERANK" =>
                 /\ call.query = <<"string", call.query[2]>>
                 /\ call.query[2] \in Seq(Tokens)
                 /\ call.prompt \in Seq(Seq(Tokens))
<1>1. CASE call \in [type : {"COMPLETION"}, query : Texts, cached : BOOLEAN,
                     prompt : {json \in Prompts \cup {"array"} \X Seq(Prompts) :
                                  IsPrompts(json)}]
  BY <1>1
<1>2. CASE call \in [type : {"EMBEDDING"}, query : Texts, cached : {TRUE}, prompt : Texts]
  <2>1. call.type = "EMBEDDING" /\ call.cached = TRUE /\ call.prompt \in Texts
    BY <1>2
  <2> QED BY <2>1, TextIs
<1>3. CASE call \in [type : {"RERANK"}, query : Texts, cached : {TRUE},
                     prompt : Seq(Seq(Tokens))]
  <2>1. /\ call.type = "RERANK" /\ call.cached = TRUE /\ call.query \in Texts
        /\ call.prompt \in Seq(Seq(Tokens))
    BY <1>3
  <2> QED BY <2>1, TextIs
<1> QED
  BY <1>1, <1>2, <1>3 DEF Requests

\* Arrays of prompts are no prompts themselves, unless they are empty.
LEMMA WholePrompt ==
    ASSUME NEW json \in Prompts \cup {"array"} \X Seq(Prompts), IsPrompt(json)
    PROVE  json \in Prompts
<1>1. CASE json \in {"array"} \X Seq(Prompts)
  <2>1. PICK values \in Seq(Prompts) : json = <<"array", values>>
    BY <1>1
  <2>2. \A k \in DOMAIN values : ~IsNumber(values[k])
    BY DEF Prompts, Texts, IsNumber
  <2>3. \A k \in DOMAIN values : FALSE
    BY <2>1, <2>2 DEF IsPrompt, IsString, IsMixed, IsArrayOfNumbers
  <2>4. values = <<>>
    <3>1. DOMAIN values = 1..Len(values) /\ Len(values) \in Nat
      OBVIOUS
    <3>2. Len(values) = 0
      <4>1. ~(1 \in 1..Len(values))
        BY <2>3, <3>1
      <4> QED BY <3>1, <4>1
    <3> DEFINE S == Prompts
    <3>3. values \in Seq(S)
      OBVIOUS
    <3> HIDE DEF S
    <3> QED BY <3>2, <3>3, EmptySeq
  <2>5. <<>> \in Seq(Parts)
    OBVIOUS
  <2> QED BY <2>1, <2>4, <2>5 DEF Prompts
<1> QED
  BY <1>1

\* What is not a prompt itself is a list of prompts.
LEMMA PromptsInArray ==
    ASSUME NEW json \in Prompts \cup {"array"} \X Seq(Prompts), IsPrompts(json), ~IsPrompt(json)
    PROVE  /\ DOMAIN json[2] = 1..Len(json[2]) /\ Len(json[2]) \in Nat
           /\ \A k \in DOMAIN json[2] : json[2][k] \in Prompts
<1>1. IsArray(json) /\ \A k \in DOMAIN json[2] : IsPrompt(json[2][k])
  BY DEF IsPrompts
<1>2. CASE json \in {"array"} \X Seq(Prompts)
  BY <1>2
<1>3. CASE json \in {"array"} \X Seq(Parts)
  <2>1. PICK values \in Seq(Parts) : json = <<"array", values>>
    BY <1>3
  <2>2. ASSUME NEW k \in DOMAIN values
        PROVE  values[k] \in Prompts
    <3>1. IsPrompt(values[k])
      BY <1>1, <2>1
    <3>2. PICK part \in Parts : part = values[k]
      OBVIOUS
    <3>3. part[1] \notin {"number", "scalar"}
      BY <3>1, <3>2 DEF IsPrompt, IsString, IsMixed, IsArray, IsArrayOfNumbers
    <3> QED BY <3>2, <3>3 DEF Parts, Prompts, Texts
  <2> QED BY <2>1, <2>2
<1>4. ~(json \in Texts)
  BY <1>1 DEF Texts, IsArray
<1> QED
  BY <1>2, <1>3, <1>4 DEF Prompts

\* The prompts of a completion are whole.
LEMMA CompletionPrompts ==
    ASSUME NEW call \in Requests, call.type = "COMPLETION"
    PROVE  /\ PromptsOf(call) \in Seq(Seq(Tokens))
           /\ \A k \in DOMAIN PromptsOf(call) :
                 IsWhole(PromptsOf(call)[k],
                         IF IsPrompt(call.prompt) THEN call.prompt ELSE call.prompt[2][k])
<1>1. PICK json \in Prompts \cup {"array"} \X Seq(Prompts) : json = call.prompt
  BY RequestIs
<1>2. IsPrompts(json)
  BY <1>1, RequestIs
<1>3. PromptsOf(call) = TokenizeInputPrompts(json, TRUE)
  BY <1>1 DEF PromptsOf
<1>4. CASE IsPrompt(json)
  <2>1. json \in Prompts
    BY <1>4, WholePrompt
  <2>2. PICK prompt \in Seq(Tokens) :
            prompt = TokenizeMixed(json, TRUE) /\ IsWhole(prompt, json)
    BY <2>1, PromptTyped
  <2>3. PromptsOf(call) = <<prompt>>
    BY <1>3, <1>4, <2>2 DEF TokenizeInputPrompts
  <2>4. <<prompt>> \in Seq(Seq(Tokens))
    <3> DEFINE S == Seq(Tokens)
    <3>1. prompt \in S
      OBVIOUS
    <3> HIDE DEF S
    <3>2. <<prompt>> \in Seq(S)
      BY <3>1
    <3> QED BY <3>2 DEF S
  <2>5. \A k \in DOMAIN <<prompt>> : <<prompt>>[k] = prompt
    OBVIOUS
  <2> QED BY <1>1, <1>4, <2>2, <2>3, <2>4, <2>5
<1>5. CASE ~IsPrompt(json)
  <2>1. PICK n \in Nat : DOMAIN json[2] = 1..n
    BY <1>2, <1>5, PromptsInArray
  <2>2. \A k \in 1..n : /\ TokenizeMixed(json[2][k], TRUE) \in Seq(Tokens)
                        /\ IsWhole(TokenizeMixed(json[2][k], TRUE), json[2][k])
    BY <1>2, <1>5, <2>1, PromptsInArray, PromptTyped
  <2>3. PICK prompts : prompts = [k \in 1..n |-> TokenizeMixed(json[2][k], TRUE)]
    OBVIOUS
  <2>4. PromptsOf(call) = prompts
    BY <1>3, <1>5, <2>1, <2>3 DEF TokenizeInputPrompts
  <2>5. \A k \in 1..n : prompts[k] = TokenizeMixed(json[2][k], TRUE)
    BY <2>3
  <2>6. prompts \in Seq(Seq(Tokens))
    <3> DEFINE S == Seq(Tokens)
    <3>1. \A k \in 1..n : TokenizeMixed(json[2][k], TRUE) \in S
      BY <2>2
    <3> HIDE DEF S
    <3>2. prompts \in [1..n -> S]
      BY <2>3, <3>1
    <3>3. prompts \in Seq(S)
      BY <3>2, SeqOfFunction
    <3> QED BY <3>3 DEF S
  <2>7. DOMAIN prompts = 1..n
    BY <2>3
  <2> QED BY <1>1, <1>5, <2>2, <2>4, <2>5, <2>6, <2>7
<1> QED
  BY <1>4, <1>5

\* An embedding has one prompt.
LEMMA EmbeddingPrompts ==
    ASSUME NEW call \in Requests, call.type = "EMBEDDING"
    PROVE  /\ TokenizeMixed(call.prompt, TRUE) \in Seq(Tokens)
           /\ PromptsOf(call) = <<TokenizeMixed(call.prompt, TRUE)>>
<1>1. PICK text \in Seq(Tokens) : call.prompt = <<"string", text>>
  BY RequestIs
<1>2. PromptsOf(call) = TokenizeInputPrompts(<<"string", text>>, TRUE)
  BY <1>1 DEF PromptsOf
<1>3. IsPrompt(<<"string", text>>)
  BY DEF IsPrompt, IsString, IsMixed, IsArray
<1>4. PICK prompt : prompt = TokenizeMixed(<<"string", text>>, TRUE)
  OBVIOUS
<1>5. prompt \in Seq(Tokens)
  BY <1>4, TextTokens
<1>6. PromptsOf(call) = <<prompt>>
  BY <1>2, <1>3, <1>4 DEF TokenizeInputPrompts
<1> QED
  BY <1>1, <1>4, <1>5, <1>6

\* A ranking without documents has one prompt.
LEMMA RerankPrompts ==
    ASSUME NEW call \in Requests, call.type = "RERANK"
    PROVE  /\ PromptsOf(call) \in Seq(Seq(Tokens))
           /\ \A k \in DOMAIN PromptsOf(call) : PromptsOf(call)[k] # <<>>
           /\ call.prompt = <<>> => DOMAIN PromptsOf(call) = {1}
           /\ call.prompt # <<>> =>
                 /\ DOMAIN PromptsOf(call) = DOMAIN call.prompt
                 /\ \A k \in DOMAIN call.prompt :
                       PromptsOf(call)[k] =
                           FormatRerank(TokenizeMixed(call.query, TRUE),
                                        CommonTokenize(Modified(call.prompt[k]), TRUE))
<1>1. PICK texts \in Seq(Seq(Tokens)) : texts = call.prompt
  BY RequestIs
<1>2. PICK query \in Seq(Tokens) : query = TokenizeMixed(call.query, TRUE)
  <2>1. PICK text \in Seq(Tokens) : call.query = <<"string", text>>
    BY RequestIs
  <2>2. TokenizeMixed(<<"string", text>>, TRUE) \in Seq(Tokens)
    BY TextTokens
  <2> QED BY <2>1, <2>2
<1>3. PICK n \in Nat : DOMAIN texts = 1..n /\ \A k \in 1..n : texts[k] \in Seq(Tokens)
  BY DEF Seq
<1> DEFINE values == ParseStringArray(texts)
           docs == TokenizeInputPrompts(<<"array", values>>, TRUE)
<1>4. DOMAIN values = 1..n /\ \A k \in 1..n : values[k] = <<"string", Modified(texts[k])>>
  BY <1>3 DEF ParseStringArray
<1> HIDE DEF values
<1>5. PromptsOf(call) = [k \in DOMAIN docs |-> FormatRerank(query, docs[k])]
  BY <1>1, <1>2 DEF PromptsOf, values
<1>6. CASE n = 0
  <2>1. IsPrompt(<<"array", values>>)
    BY <1>4, <1>6 DEF IsPrompt, IsMixed, IsArrayOfNumbers, IsArray, IsString
  <2>2. texts = <<>>
    BY <1>3, <1>6
  <2>3. TokenizeMixed(<<"array", values>>, TRUE) \in Seq(Tokens)
    <3>1. values = <<>>
      BY <1>3, <1>6, <2>2 DEF values, ParseStringArray
    <3>2. <<"array", <<>>>> \in Prompts
      <4>1. <<>> \in Seq(Parts)
        OBVIOUS
      <4> QED BY <4>1 DEF Prompts
    <3> QED BY <3>1, <3>2, PromptTyped
  <2>4. PICK doc \in Seq(Tokens) : docs = <<doc>>
    BY <2>1, <2>3 DEF TokenizeInputPrompts
  <2>5. PICK prompt \in Seq(Tokens) : prompt = FormatRerank(query, doc) /\ prompt # <<>>
    BY RankedIs
  <2>6. PromptsOf(call) = <<prompt>>
    <3>1. DOMAIN <<doc>> = 1..1 /\ <<doc>>[1] = doc
      OBVIOUS
    <3>2. PromptsOf(call) = [k \in 1..1 |-> FormatRerank(query, <<doc>>[k])]
      BY <1>5, <2>4, <3>1
    <3>3. PromptsOf(call) = [k \in 1..1 |-> prompt]
      BY <2>5, <3>1, <3>2
    <3> QED BY <3>3, OneElement
  <2>7. <<prompt>> \in Seq(Seq(Tokens))
    <3> DEFINE S == Seq(Tokens)
    <3>1. prompt \in S
      OBVIOUS
    <3> HIDE DEF S
    <3>2. <<prompt>> \in Seq(S)
      BY <3>1
    <3> QED BY <3>2 DEF S
  <2>8. DOMAIN <<prompt>> = {1} /\ <<prompt>>[1] = prompt
    OBVIOUS
  <2> QED BY <1>1, <2>2, <2>5, <2>6, <2>7, <2>8
<1>7. CASE n # 0
  <2>1. texts # <<>>
    BY <1>3, <1>7
  <2>2. \A k \in 1..n : ~IsNumber(values[k])
    BY <1>4 DEF IsNumber
  <2>3. ~IsPrompt(<<"array", values>>)
    <3>1. 1 \in DOMAIN values
      BY <1>4, <1>7
    <3> QED
      BY <1>4, <2>2, <3>1 DEF IsPrompt, IsMixed, IsArrayOfNumbers, IsArray, IsString
  <2>4. docs = [k \in 1..n |-> TokenizeMixed(values[k], TRUE)]
    BY <1>4, <2>3 DEF TokenizeInputPrompts
  <2>5. \A k \in 1..n : Modified(texts[k]) \in Seq(Tokens)
    BY <1>3, ModifiedIs
  <2>6. \A k \in 1..n : /\ docs[k] = CommonTokenize(Modified(texts[k]), TRUE)
                        /\ docs[k] \in Seq(Tokens)
    <3> TAKE k \in 1..n
    <3>1. PICK text \in Seq(Tokens) : text = Modified(texts[k])
      BY <2>5
    <3>2. docs[k] = TokenizeMixed(<<"string", text>>, TRUE)
      BY <1>4, <2>4, <3>1
    <3>3. /\ TokenizeMixed(<<"string", text>>, TRUE) = CommonTokenize(text, TRUE)
          /\ CommonTokenize(text, TRUE) \in Seq(Tokens)
      BY TextTokens
    <3> QED BY <3>1, <3>2, <3>3
  <2>7. DOMAIN docs = 1..n
    BY <2>4
  <2> HIDE DEF docs
  <2>8. PICK prompts : prompts = [k \in 1..n |-> FormatRerank(query, docs[k])]
    OBVIOUS
  <2>9. PromptsOf(call) = prompts
    BY <1>5, <2>7, <2>8
  <2>10. \A k \in 1..n : /\ prompts[k] = FormatRerank(query, CommonTokenize(Modified(texts[k]), TRUE))
                         /\ prompts[k] \in Seq(Tokens) /\ prompts[k] # <<>>
    <3> TAKE k \in 1..n
    <3>1. PICK doc \in Seq(Tokens) : doc = docs[k] /\ doc = CommonTokenize(Modified(texts[k]), TRUE)
      BY <2>6
    <3>2. prompts[k] = FormatRerank(query, doc)
      BY <2>8, <3>1
    <3> QED BY <3>1, <3>2, RankedIs
  <2>11. DOMAIN prompts = 1..n
    BY <2>8
  <2>12. prompts \in Seq(Seq(Tokens))
    <3> DEFINE S == Seq(Tokens)
    <3>1. \A k \in 1..n : prompts[k] \in S
      BY <2>10
    <3> HIDE DEF S
    <3>2. prompts \in [1..n -> S]
      BY <2>8, <3>1
    <3>3. prompts \in Seq(S)
      BY <3>2, SeqOfFunction
    <3> QED BY <3>3 DEF S
  <2> QED BY <1>1, <1>2, <1>3, <2>1, <2>9, <2>10, <2>11, <2>12
<1> QED
  BY <1>6, <1>7

-----------------------------------------------------------------------------
(* What slots, queues and callers hold.                                     *)

\* The tasks of calls.
Tasks(cs) ==
    {t \in [call : Nat, index : Nat, type : {"COMPLETION", "EMBEDDING", "RERANK"},
            cached : BOOLEAN, prompt : Seq(Tokens)] :
        /\ t.call \in DOMAIN cs /\ t.type = cs[t.call].type
        /\ t.index \in DOMAIN PromptsOf(cs[t.call])
        /\ t.prompt = PromptsOf(cs[t.call])[t.index]}

Results == [index : Nat, rows : Seq(Seq(Tokens)), whole : BOOLEAN]

\* The result of a task without generation, of which a caller reads the first row, if
\* there are tokens to compute it from.
IsAnswer(result, call, pooling) ==
    /\ call.type # "COMPLETION"
    /\ result.index \in DOMAIN PromptsOf(call)
    /\ result.rows = <<>> => PromptsOf(call)[result.index] = <<>>
    /\ call.type = "RERANK" => Len(result.rows) = 1
    /\ result.whole /\ result.rows # <<>> =>
          LET prompt == PromptsOf(call)[result.index]
          IN  Head(result.rows) = IF pooling = "unpooled" THEN <<Head(prompt)>> ELSE prompt

CallsTyped ==
    /\ mode \in Modes /\ stranded \in BOOLEAN /\ calls \in Seq(Calls)
    /\ \A n \in DOMAIN calls : Offered(calls[n])
    /\ queue \in Seq(Tasks(calls)) /\ deferred \in Seq(Tasks(calls))

SlotsTyped ==
    /\ clock \in 0..MaxClock
    /\ state \in [1..NParallel -> {"IDLE", "STARTED", "GENERATING"}]
    /\ t_last_used \in [1..NParallel -> -1..clock]
    /\ cache \in [1..NParallel -> Seq(Tokens)]
    /\ task \in [1..NParallel -> {NoTask} \cup Tasks(calls)]
    /\ \A s \in 1..NParallel : state[s] # "IDLE" => s \in Slots /\ task[s] # NoTask

\* Slots work for tasks once the worker is in its loop.
WorkerRan ==
    deferred # <<>> \/ (\E s \in 1..NParallel : state[s] # "IDLE") =>
        worker[Served] \in {"looping", "ended"}

\* Idle slots have tasks on their way, whether the worker is there for them or not.
IdleAreServed == deferred # <<>> /\ ~stranded => Cardinality(Idle) <= Len(queue)

HeardAnswers ==
    /\ heard \in Seq(Seq(Results)) /\ Len(heard) = Len(calls)
    /\ \A n \in DOMAIN calls : \A k \in DOMAIN heard[n] : IsAnswer(heard[n][k], calls[n], mode)

SlotsInv ==
    /\ LifeInv /\ AdaptersInv
    /\ CallsTyped /\ SlotsTyped /\ WorkerRan /\ IdleAreServed /\ HeardAnswers

-----------------------------------------------------------------------------
(* What a view holds.                                                       *)

\* A number is in the block of d that it is counted to.
LEMMA DivIs ==
    ASSUME NEW a \in Nat, NEW d \in Nat \ {0}
    PROVE  /\ (a \div d) * d \in Nat /\ (a \div d) * d <= a
           /\ a <= (a \div d) * d + d - 1
<1>1. PICK q \in Nat : q = a \div d
  OBVIOUS
<1>2. q * d \in Nat
  OBVIOUS
<1>3. d * q <= a /\ a < d * q + d
  BY <1>1
<1>4. d * q = q * d
  OBVIOUS
<1>5. PICK m \in Nat : m = q * d
  BY <1>2
<1> QED
  BY <1>1, <1>3, <1>4, <1>5

\* A task that is not the placeholder of a slot, and its call.
LEMMA TaskIs ==
    ASSUME SlotsInv, NEW t \in Tasks(calls)
    PROVE  /\ t.call \in DOMAIN calls /\ calls[t.call] \in Requests
           /\ t.type = calls[t.call].type /\ Offered(calls[t.call])
           /\ t.index \in Nat /\ t.index \in DOMAIN PromptsOf(calls[t.call])
           /\ t.prompt = PromptsOf(calls[t.call])[t.index]
           /\ t.prompt \in Seq(Tokens)
           /\ t.type = "RERANK" => t.prompt # <<>>
<1>1. /\ t.call \in DOMAIN calls /\ t.type = calls[t.call].type
      /\ t.index \in Nat /\ t.index \in DOMAIN PromptsOf(calls[t.call])
      /\ t.prompt = PromptsOf(calls[t.call])[t.index] /\ t.prompt \in Seq(Tokens)
  BY DEF Tasks
<1>2. calls[t.call] \in Calls /\ Offered(calls[t.call])
  BY <1>1 DEF SlotsInv, CallsTyped
<1>3. calls[t.call] \in Requests
  BY <1>2, SlotsAssumption
<1>4. PICK call \in Requests : call = calls[t.call]
  BY <1>3
<1>5. t.type = "RERANK" => t.prompt # <<>>
  BY <1>1, <1>4, RerankPrompts
<1> QED
  BY <1>1, <1>2, <1>3, <1>5

\* The slots of the model are among those that the variables are about.
LEMMA SlotsAre ==
    ASSUME SlotsInv
    PROVE  /\ slots[Served] \in Nat /\ slots[Served] <= NParallel /\ Slots \subseteq 1..NParallel
           /\ Slots \in SUBSET Nat
           /\ \A s \in 1..NParallel : task[s].prompt \in Seq(Tokens)
           /\ \A s \in Slots : IsProcessing(s) => task[s] \in Tasks(calls)
<1>1. slots[Served] \in Nat /\ slots[Served] <= NParallel /\ Slots \subseteq 1..NParallel
  BY LifecycleAssumption, SlotsAssumption DEF SlotsInv, LifeInv, LifeTypeOK, Slots
<1>2. Slots \in SUBSET Nat
  BY DEF Slots
<1>3. \A s \in 1..NParallel : task[s].prompt \in Seq(Tokens)
  <2> TAKE s \in 1..NParallel
  <2>1. task[s] = NoTask \/ task[s] \in Tasks(calls)
    BY DEF SlotsInv, SlotsTyped
  <2>2. CASE task[s] = NoTask
    <3>1. <<>> \in Seq(Tokens)
      OBVIOUS
    <3> QED BY <2>2, <3>1 DEF NoTask
  <2>3. CASE task[s] \in Tasks(calls)
    BY <2>3 DEF Tasks
  <2> QED BY <2>1, <2>2, <2>3
<1>4. \A s \in Slots : IsProcessing(s) => task[s] \in Tasks(calls)
  BY <1>1 DEF SlotsInv, SlotsTyped, IsProcessing
<1> QED
  BY <1>1, <1>2, <1>3, <1>4

\* The batch has a place for each token of each prompt in it.
LEMMA BatchTyped ==
    ASSUME SlotsInv
    PROVE  \E width \in [1..slots[Served] -> Nat] :
              /\ IsBatch(Batch, width, slots[Served])
              /\ \A s \in Slots : InBatch(s) => width[s] = Len(task[s].prompt)
<1>1. PICK n \in Nat : n = slots[Served] /\ Slots = 1..n
  BY SlotsAre DEF Slots
<1>2. \A s \in 1..n : /\ task[s].prompt \in Seq(Tokens) /\ Len(task[s].prompt) \in Nat
                      /\ DOMAIN task[s].prompt = 1..Len(task[s].prompt)
  <2> TAKE s \in 1..n
  <2>1. PICK prompt \in Seq(Tokens) : prompt = task[s].prompt
    BY <1>1, SlotsAre
  <2> QED BY <2>1
<1>3. PICK width : width = [s \in 1..n |-> IF InBatch(s) THEN Len(task[s].prompt) ELSE 0]
  OBVIOUS
<1>4. width \in [1..n -> Nat]
  BY <1>2, <1>3
<1>5. PICK blocks : blocks = [s \in 1..n |-> IF InBatch(s)
                                THEN [k \in DOMAIN task[s].prompt |-> <<s, k>>] ELSE <<>>]
  OBVIOUS
<1>6. Batch = FlattenSeq(blocks)
  BY <1>1, <1>5 DEF Batch
<1>7. \A s \in 1..n : blocks[s] = [k \in 1..width[s] |-> <<s, k>>]
  <2> TAKE s \in 1..n
  <2>1. CASE InBatch(s)
    BY <1>2, <1>3, <1>5, <2>1
  <2>2. CASE ~InBatch(s)
    <3>1. width[s] = 0 /\ blocks[s] = <<>>
      BY <1>3, <1>5, <2>2
    <3>2. <<>> = [k \in 1..0 |-> <<s, k>>]
      OBVIOUS
    <3> QED BY <3>1, <3>2
  <2> QED BY <2>1, <2>2
<1>8. DOMAIN blocks = 1..n /\ blocks = [s \in 1..n |-> blocks[s]]
  BY <1>5
<1>9. IsBatch(FlattenSeq(blocks), width, n)
  BY <1>4, <1>7, <1>8, BatchIs
<1>10. \A s \in Slots : InBatch(s) => width[s] = Len(task[s].prompt)
  BY <1>1, <1>3
<1> QED
  BY <1>1, <1>4, <1>6, <1>9, <1>10

-----------------------------------------------------------------------------
(* What a result is computed from.                                          *)

IsLastOf(last, b, s) == last = Max({p \in DOMAIN b : b[p][1] = s})

\* The last place of a slot is that of the last token of its prompt.
LEMMA LastOf ==
    ASSUME NEW n \in Nat, NEW width \in [1..n -> Nat], NEW b, IsBatch(b, width, n),
           NEW s \in 1..n, width[s] > 0,
           NEW last, IsLastOf(last, b, s)
    PROVE  last \in 1..Len(b) /\ b[last] = <<s, width[s]>>
<1>1. b \in Seq((1..n) \X Nat) /\ Len(b) \in Nat /\ DOMAIN b = 1..Len(b)
  BY DEF IsBatch
<1>2. width[s] \in Nat /\ width[s] \in 1..width[s]
  OBVIOUS
<1>3. PICK q \in 1..Len(b) : b[q] = <<s, width[s]>>
  BY <1>2 DEF IsBatch
<1> DEFINE own == {p \in DOMAIN b : b[p][1] = s}
<1>4. own \in SUBSET Nat /\ own # {} /\ q \in own /\ \A p \in own : p <= Len(b)
  <2>1. own \subseteq 1..Len(b)
    BY <1>1
  <2>2. q \in own
    BY <1>1, <1>3
  <2> HIDE DEF own
  <2> QED BY <1>1, <2>1, <2>2, SMTT(30)
<1> HIDE DEF own
<1>5. Max(own) \in own /\ \A y \in own : Max(own) >= y
  BY <1>1, <1>4, MaxIs
<1>6. last \in 1..Len(b) /\ b[last][1] = s /\ q <= last
  BY <1>1, <1>4, <1>5 DEF own, IsLastOf
<1>7. b[last][2] \in 1..width[s]
  BY <1>6 DEF IsBatch
<1>8. ~(q < last)
  <2> SUFFICES ASSUME q < last PROVE FALSE
    OBVIOUS
  <2>1. b[q][1] < b[last][1] \/ (b[q][1] = b[last][1] /\ b[q][2] < b[last][2])
    BY <1>6 DEF IsBatch
  <2>2. b[q][1] = s /\ b[q][2] = width[s]
    BY <1>3
  <2> QED BY <1>2, <1>6, <1>7, <2>1, <2>2
<1>9. q = last
  BY <1>6, <1>8
<1> QED
  BY <1>3, <1>9

\* A view that is counted from the last place of a slot holds it.
LEMMA LastInView ==
    ASSUME NEW N \in Nat, NEW last \in 1..N, NEW size \in Nat \ {0},
           NEW first, first = ((last - 1) \div size) * size + 1
    PROVE  /\ last \in first..Min({first + size - 1, N})
           /\ first..Min({first + size - 1, N}) \subseteq 1..N
<1>1. last - 1 \in Nat
  OBVIOUS
<1>2. PICK below \in Nat : below = ((last - 1) \div size) * size
  BY <1>1, DivIs
<1>3. below <= last - 1 /\ last - 1 <= below + size - 1
  BY <1>1, <1>2, DivIs
<1>4. first = below + 1 /\ first + size - 1 \in Nat
  BY <1>2
<1>5. PICK m : m = Min({first + size - 1, N})
  OBVIOUS
<1>6. m = IF first + size - 1 <= N THEN first + size - 1 ELSE N
  BY <1>4, <1>5, MinOfTwo
<1>7. last \in first..m /\ first..m \subseteq 1..N
  BY <1>3, <1>4, <1>6
<1> QED
  BY <1>5, <1>7

\* The view of a slot ends with the last token of its prompt or behind it.
LEMMA ViewIs ==
    ASSUME NEW n \in Nat, NEW width \in [1..n -> Nat], n = slots[Served],
           IsBatch(Batch, width, n), NEW s \in 1..n, width[s] > 0, NEW size \in Nat \ {0}
    PROVE  \E last \in ViewOf(s, size) :
              Batch[last] = <<s, width[s]>> /\ ViewOf(s, size) \subseteq 1..Len(Batch)
<1>1. PICK b : b = Batch
  OBVIOUS
<1>2. PICK last : last = Max({p \in DOMAIN b : b[p][1] = s})
  OBVIOUS
<1>3. IsBatch(b, width, n)
  BY <1>1
<1>4. last \in 1..Len(b) /\ b[last] = <<s, width[s]>>
  <2>1. IsLastOf(last, b, s)
    BY <1>2 DEF IsLastOf
  <2> QED BY <1>3, <2>1, LastOf
<1>5. PICK first : first = ((last - 1) \div size) * size + 1
  OBVIOUS
<1>6. PICK N \in Nat : N = Len(b)
  BY <1>3 DEF IsBatch
<1>7. ViewOf(s, size) = first..Min({first + size - 1, N})
  <2>1. last = Max({p \in DOMAIN Batch : Batch[p][1] = s}) /\ N = Len(Batch)
    BY <1>1, <1>2, <1>6
  <2>2. ViewOf(s, size) =
            LET l == Max({p \in DOMAIN Batch : Batch[p][1] = s})
                f == ((l - 1) \div size) * size + 1
            IN  f..Min({f + size - 1, Len(Batch)})
    BY Zenon DEF ViewOf
  <2>3. ViewOf(s, size) =
            LET f == ((last - 1) \div size) * size + 1 IN f..Min({f + size - 1, N})
    BY <2>1, <2>2, Zenon
  <2> QED BY <1>5, <2>3, Zenon
<1>8. /\ last \in first..Min({first + size - 1, N})
      /\ first..Min({first + size - 1, N}) \subseteq 1..N
  BY <1>4, <1>5, <1>6, LastInView
<1> QED
  BY <1>1, <1>4, <1>6, <1>7, <1>8

\* Rows are of the tokens of one prompt: without pooling of all up to a place, else of
\* those in the view.
HoldsFirst(b, view, s) == \E q \in view : b[q] = <<s, 1>>

LEMMA RowIs ==
    ASSUME NEW b, NEW view, NEW s, NEW prompt \in Seq(Tokens), b = Batch,
           prompt = task[s].prompt,
           \A p \in view : b[p][1] = s => b[p][2] \in 1..Len(prompt),
           NEW last \in view, b[last] = <<s, Len(prompt)>>,
           NEW p \in view, b[p][1] = s
    PROVE  /\ Row(p, view) \in Seq(Tokens)
           /\ mode = "unpooled" => Row(p, view) = SubSeq(prompt, 1, b[p][2])
           /\ (mode # "unpooled" /\ HoldsFirst(b, view, s)) => Row(p, view) = prompt
<1>0. PICK n \in Nat : n = Len(prompt)
  OBVIOUS
<1>1. CASE mode = "unpooled"
  <2>1. Row(p, view) = SubSeq(prompt, 1, b[p][2])
    BY <1>1, Zenon DEF Row
  <2>2. PICK k \in 1..n : k = b[p][2]
    BY <1>0
  <2>3. SubSeq(prompt, 1, k) \in Seq(Tokens)
    BY <1>0, <2>2
  <2> QED BY <1>1, <2>1, <2>2, <2>3
<1>2. CASE mode # "unpooled"
  <2> DEFINE own == {b[q][2] : q \in {r \in view : b[r][1] = s}}
  <2>1. Row(p, view) = SubSeq(prompt, Min(own), Max(own))
    BY <1>2, Zenon DEF Row
  <2>2. own \subseteq 1..n
    BY <1>0
  <2>3. n \in own
    BY <1>0
  <2>4. HoldsFirst(b, view, s) => 1 \in own
    BY DEF HoldsFirst
  <2> HIDE DEF own
  <2>5. PICK low \in own : low = Min(own) /\ \A y \in own : low <= y
    <3>1. own \in SUBSET Nat /\ own # {}
      BY <2>2, <2>3
    <3> QED BY <3>1, MinIs
  <2>6. PICK high \in own : high = Max(own) /\ \A y \in own : high >= y
    <3>1. own \in SUBSET Nat /\ own # {} /\ \A y \in own : y <= n
      BY <2>2, <2>3
    <3> QED BY <3>1, MaxIs
  <2>7. low \in 1..n /\ high = n
    BY <2>2, <2>3, <2>5, <2>6
  <2>8. Row(p, view) = SubSeq(prompt, low, n)
    BY <2>1, <2>5, <2>6, <2>7
  <2>9. SubSeq(prompt, low, n) \in Seq(Tokens)
    BY <1>0, <2>7
  <2>10. ASSUME HoldsFirst(b, view, s)
         PROVE  Row(p, view) = prompt
    <3>1. low = 1
      BY <2>4, <2>5, <2>7, <2>10
    <3>2. SubSeq(prompt, 1, n) = prompt
      BY <1>0
    <3> QED BY <2>8, <3>1, <3>2
  <2> QED BY <1>2, <2>8, <2>9, <2>10
<1> QED
  BY <1>1, <1>2

\* The beginning of length one.
LEMMA FirstOnly ==
    ASSUME NEW T, NEW seq \in Seq(T), seq # <<>>
    PROVE  SubSeq(seq, 1, 1) = <<Head(seq)>>
<1>1. PICK n \in Nat : n = Len(seq) /\ n > 0 /\ seq[1] \in T /\ Head(seq) = seq[1]
  <2>1. Len(seq) # 0 /\ Len(seq) \in Nat
    BY EmptySeq
  <2>2. Len(seq) > 0 /\ 1 \in 1..Len(seq)
    BY <2>1
  <2> QED BY <2>2
<1>2. PICK x \in T : x = seq[1]
  BY <1>1
<1>3. PICK a : a = SubSeq(seq, 1, 1)
  OBVIOUS
<1>4. a \in Seq(T) /\ Len(a) = 1 /\ a[1] = x
  BY <1>2, <1>1, <1>3
<1>5. PICK b : b = <<x>>
  OBVIOUS
<1>6. b \in Seq(T) /\ Len(b) = 1 /\ b[1] = x
  BY <1>5
<1>7. \A k \in 1..1 : a[k] = b[k]
  BY <1>4, <1>6
<1>8. a = b
  BY <1>4, <1>6, <1>7, SeqEqual
<1> QED
  BY <1>2, <1>1, <1>3, <1>5, <1>8

\* What embed and rerank read of a result is computed from the prompt it is for.
LEMMA DecodedResult ==
    ASSUME SlotsInv, NEW s \in Slots, InBatch(s), IsNonCausal(s), NEW size \in ViewSizes,
           task[s].prompt # <<>>
    PROVE  /\ ResultOf(s, size) \in Results
           /\ task[s].call \in DOMAIN calls
           /\ IsAnswer(ResultOf(s, size), calls[task[s].call], mode)
<1>1. PICK t \in Tasks(calls) : t = task[s]
  BY SlotsAre DEF InBatch
<1>2. PICK call \in Requests : call = calls[t.call]
  BY TaskIs
<1>3. /\ t.call \in DOMAIN calls /\ t.type = call.type /\ Offered(call)
      /\ t.index \in Nat /\ t.index \in DOMAIN PromptsOf(call)
      /\ t.prompt = PromptsOf(call)[t.index] /\ t.type # "COMPLETION"
  BY <1>1, <1>2, TaskIs DEF IsNonCausal
<1>4. PICK prompt \in Seq(Tokens) : prompt = t.prompt /\ prompt # <<>>
  BY <1>1, TaskIs
<1>5. PICK m \in Nat : m = Len(prompt) /\ m > 0 /\ DOMAIN prompt = 1..m
  BY <1>4
<1>6. PICK n \in Nat : n = slots[Served] /\ Slots = 1..n
  BY SlotsAre DEF Slots
<1>7. PICK width \in [1..n -> Nat] : IsBatch(Batch, width, n) /\ width[s] = m
  BY <1>1, <1>4, <1>5, <1>6, BatchTyped
<1>8. PICK view : view = ViewOf(s, size)
  OBVIOUS
<1>9. PICK last \in view : Batch[last] = <<s, m>> /\ view \subseteq 1..Len(Batch)
  <2>1. size \in Nat \ {0}
    BY SlotsAssumption
  <2>2. s \in 1..n /\ width[s] > 0
    BY <1>5, <1>6, <1>7
  <2>3. PICK last \in ViewOf(s, size) :
            Batch[last] = <<s, width[s]>> /\ ViewOf(s, size) \subseteq 1..Len(Batch)
    BY <1>6, <1>7, <2>1, <2>2, ViewIs
  <2> QED BY <1>7, <1>8, <2>3
<1>10. PICK b : b = Batch
  OBVIOUS
<1>11. /\ b \in Seq((1..n) \X Nat)
       /\ \A p \in view : b[p][1] = s => b[p][2] \in 1..m
       /\ \A p, q \in view : p < q => b[p][1] < b[q][1]
                                      \/ (b[p][1] = b[q][1] /\ b[p][2] < b[q][2])
  BY <1>7, <1>9, <1>10 DEF IsBatch
<1>12. PICK N \in Nat : N = Len(b) /\ view \subseteq 1..N
  BY <1>9, <1>10, <1>11
<1>13. PICK O : O = OutputsOf(s, view)
  OBVIOUS
<1>14. /\ O \subseteq view /\ last \in O /\ \A p \in O : b[p][1] = s
       /\ mode = "unpooled" => \A p \in view : b[p][1] = s => p \in O
  <2>1. HasOutput(last)
    BY <1>1, <1>4, <1>5, <1>9 DEF HasOutput
  <2>2. \A p : mode = "unpooled" => HasOutput(p)
    BY DEF HasOutput
  <2>3. last \in O
    BY <1>9, <1>13, <2>1 DEF OutputsOf
  <2> QED BY <1>10, <1>13, <2>2, <2>3 DEF OutputsOf
<1>15. PICK f : f = InOrder(O)
  OBVIOUS
<1>16. PICK c \in Nat : c > 0 /\ IsIncreasing(f, O, c) /\ IsOnto(f, O, c)
  <2>1. O \in SUBSET (1..N)
    BY <1>12, <1>14
  <2>2. /\ Cardinality(O) \in Nat /\ IsIncreasing(f, O, Cardinality(O))
        /\ IsOnto(f, O, Cardinality(O))
    BY <1>15, <2>1, InOrderIs
  <2>3. Cardinality(O) # 0
    BY <1>14, <2>2 DEF IsOnto
  <2> QED BY <2>2, <2>3
<1>17. DOMAIN f = 1..c /\ \A k \in 1..c : f[k] \in O
  BY <1>16 DEF IsIncreasing
<1> DEFINE whole == \E p \in view : b[p] = <<s, 1>>
<1>18. \A p \in O : /\ Row(p, view) \in Seq(Tokens)
                    /\ mode = "unpooled" => Row(p, view) = SubSeq(prompt, 1, b[p][2])
                    /\ (mode # "unpooled" /\ whole) => Row(p, view) = prompt
  <2> TAKE p \in O
  <2>1. p \in view /\ b[p][1] = s
    BY <1>14
  <2>2. b[last] = <<s, Len(prompt)>>
    BY <1>5, <1>9, <1>10
  <2>3. \A q \in view : b[q][1] = s => b[q][2] \in 1..Len(prompt)
    BY <1>5, <1>11
  <2>5. prompt = task[s].prompt
    BY <1>1, <1>4
  <2>6. /\ Row(p, view) \in Seq(Tokens)
        /\ mode = "unpooled" => Row(p, view) = SubSeq(prompt, 1, b[p][2])
        /\ (mode # "unpooled" /\ HoldsFirst(b, view, s)) => Row(p, view) = prompt
    BY <1>10, <2>1, <2>2, <2>3, <2>5, RowIs
  <2> QED BY <2>6 DEF HoldsFirst
<1>19. PICK rows : rows = [k \in 1..c |-> Row(f[k], view)]
  OBVIOUS
<1>20. rows \in Seq(Seq(Tokens)) /\ Len(rows) = c /\ \A k \in 1..c : rows[k] = Row(f[k], view)
  <2> DEFINE S == Seq(Tokens)
  <2>1. \A k \in 1..c : Row(f[k], view) \in S
    BY <1>17, <1>18
  <2> HIDE DEF S
  <2>2. rows \in [1..c -> S]
    BY <1>19, <2>1
  <2>3. rows \in Seq(S) /\ Len(rows) = c
    BY <2>2, SeqOfFunction
  <2> QED BY <1>19, <2>3 DEF S
<1>21. PICK result : result = ResultOf(s, size)
  OBVIOUS
<1>22. /\ result = [index |-> t.index,
                    rows |-> IF t.type = "RERANK" THEN <<Last(rows)>> ELSE rows,
                    whole |-> result.whole]
       /\ result.whole \in BOOLEAN /\ (result.whole <=> whole)
  <2>1. [k \in DOMAIN f |-> Row(f[k], view)] = rows
    BY <1>17, <1>19
  <2>2. ResultOf(s, size) =
            [index |-> task[s].index,
             rows |-> IF task[s].type = "RERANK"
                      THEN <<Last([k \in DOMAIN InOrder(OutputsOf(s, ViewOf(s, size)))
                                      |-> Row(InOrder(OutputsOf(s, ViewOf(s, size)))[k],
                                              ViewOf(s, size))])>>
                      ELSE [k \in DOMAIN InOrder(OutputsOf(s, ViewOf(s, size)))
                                      |-> Row(InOrder(OutputsOf(s, ViewOf(s, size)))[k],
                                              ViewOf(s, size))],
             whole |-> \E p \in ViewOf(s, size) : Batch[p] = <<s, 1>>]
    <3>1. ~(task[s].prompt = <<>>)
      OBVIOUS
    <3> QED BY <3>1, Zenon DEF ResultOf
  <2>3. f = InOrder(OutputsOf(s, ViewOf(s, size)))
    BY <1>8, <1>13, <1>15
  <2>4. rows = [k \in DOMAIN InOrder(OutputsOf(s, ViewOf(s, size)))
                    |-> Row(InOrder(OutputsOf(s, ViewOf(s, size)))[k], ViewOf(s, size))]
    BY <1>8, <2>1, <2>3, Zenon
  <2>5. /\ result.index = t.index
        /\ result.whole \in BOOLEAN
        /\ result.whole <=> \E p \in ViewOf(s, size) : Batch[p] = <<s, 1>>
    BY <1>1, <1>21, <2>2
  <2>6. result.whole <=> whole
    BY <1>8, <1>10, <2>5
  <2>7. result.rows = IF t.type = "RERANK" THEN <<Last(rows)>> ELSE rows
    BY <1>1, <1>21, <2>2, <2>4
  <2>8. result = [index |-> result.index, rows |-> result.rows, whole |-> result.whole]
    BY <1>21, <2>2
  <2> QED BY <2>5, <2>6, <2>7, <2>8
<1> HIDE DEF whole
<1>23. PICK w \in BOOLEAN : w = result.whole /\ (w <=> whole)
  BY <1>22
<1>24. CASE call.type = "RERANK"
  <2>1. mode # "unpooled"
    BY <1>3, <1>24 DEF Offered
  <2>2. Last(rows) = Row(f[c], view) /\ f[c] \in O
    BY <1>16, <1>17, <1>20 DEF Last
  <2>3. PICK row \in Seq(Tokens) : row = Last(rows) /\ (whole => row = prompt)
    BY <1>18, <2>1, <2>2
  <2>4. <<row>> \in Seq(Seq(Tokens)) /\ <<row>> # <<>> /\ Len(<<row>>) = 1 /\ Head(<<row>>) = row
    <3> DEFINE S == Seq(Tokens)
    <3>1. row \in S
      OBVIOUS
    <3> HIDE DEF S
    <3>2. <<row>> \in Seq(S)
      BY <3>1
    <3>3. <<row>> # <<>> /\ Len(<<row>>) = 1 /\ Head(<<row>>) = row
      OBVIOUS
    <3> QED BY <3>2, <3>3 DEF S
  <2>5. result = [index |-> t.index, rows |-> <<row>>, whole |-> w]
    BY <1>3, <1>22, <1>23, <1>24, <2>3
  <2>6. result \in Results
    BY <1>3, <1>23, <2>4, <2>5 DEF Results
  <2>7. IsAnswer(result, call, mode)
    BY <1>3, <1>4, <1>23, <1>24, <2>1, <2>3, <2>4, <2>5 DEF IsAnswer
  <2> QED BY <1>1, <1>2, <1>3, <1>21, <2>6, <2>7
<1>25. CASE call.type # "RERANK"
  <2>1. result = [index |-> t.index, rows |-> rows, whole |-> w]
    BY <1>3, <1>22, <1>23, <1>25
  <2>2. result \in Results
    BY <1>3, <1>20, <1>23, <2>1 DEF Results
  <2>3. rows # <<>> /\ Head(rows) = Row(f[1], view) /\ f[1] \in O
    <3> DEFINE S == Seq(Tokens)
    <3>1. rows \in Seq(S) /\ Len(rows) = c /\ rows[1] = Row(f[1], view) /\ 1 \in 1..c
      BY <1>16, <1>20
    <3> HIDE DEF S
    <3>2. rows # <<>> /\ Head(rows) = rows[1]
      BY <1>16, <3>1
    <3> QED BY <1>17, <3>1, <3>2
  <2>4. ASSUME whole, mode = "unpooled"
        PROVE  Head(rows) = <<Head(prompt)>>
    <3>1. PICK p \in view : b[p] = <<s, 1>>
      BY <2>4 DEF whole
    <3>2. p \in O
      BY <1>14, <2>4, <3>1
    <3>3. PICK k \in 1..c : f[k] = p
      BY <1>16, <3>2 DEF IsOnto
    <3>4. k = 1
      <4> SUFFICES ASSUME k # 1 PROVE FALSE
        OBVIOUS
      <4>1. 1 \in 1..c /\ 1 < k
        BY <1>16
      <4>2. f[1] < p /\ f[1] \in view /\ b[f[1]][1] = s
        BY <1>14, <1>16, <1>17, <3>3, <4>1 DEF IsIncreasing
      <4>3. b[f[1]][1] < b[p][1] \/ (b[f[1]][1] = b[p][1] /\ b[f[1]][2] < b[p][2])
        BY <1>11, <4>2
      <4>4. b[f[1]][2] \in 1..m
        BY <1>11, <4>2
      <4>5. b[p][1] = s /\ b[p][2] = 1 /\ s \in Nat
        BY <1>6, <3>1
      <4> QED BY <4>2, <4>3, <4>4, <4>5
    <3>5. Row(f[1], view) = SubSeq(prompt, 1, 1)
      <4>1. f[1] = p /\ b[p][2] = 1
        BY <3>1, <3>3, <3>4
      <4>2. Row(p, view) = SubSeq(prompt, 1, b[p][2])
        BY <1>18, <2>4, <3>2
      <4> QED BY <4>1, <4>2
    <3>6. SubSeq(prompt, 1, 1) = <<Head(prompt)>>
      BY <1>4, FirstOnly
    <3> QED BY <2>3, <3>5, <3>6
  <2>5. ASSUME whole, mode # "unpooled"
        PROVE  Head(rows) = prompt
    BY <1>18, <2>3, <2>5
  <2>6. IsAnswer(result, call, mode)
    BY <1>3, <1>4, <1>23, <1>25, <2>1, <2>3, <2>4, <2>5 DEF IsAnswer
  <2> QED BY <1>1, <1>2, <1>3, <1>21, <2>2, <2>6
<1> QED
  BY <1>24, <1>25

\* Without tokens, there is a result without rows.
LEMMA ResultIs ==
    ASSUME SlotsInv, NEW s \in Slots, InBatch(s), IsNonCausal(s), NEW size \in ViewSizes
    PROVE  /\ ResultOf(s, size) \in Results
           /\ task[s].call \in DOMAIN calls
           /\ IsAnswer(ResultOf(s, size), calls[task[s].call], mode)
<1>1. CASE task[s].prompt # <<>>
  BY <1>1, DecodedResult
<1>2. CASE task[s].prompt = <<>>
  <2>1. PICK t \in Tasks(calls) : t = task[s]
    BY SlotsAre DEF InBatch
  <2>2. PICK call \in Requests : call = calls[t.call]
    BY TaskIs
  <2>3. /\ t.call \in DOMAIN calls /\ t.type = call.type
        /\ t.index \in Nat /\ t.index \in DOMAIN PromptsOf(call)
        /\ t.prompt = PromptsOf(call)[t.index] /\ t.type # "COMPLETION" /\ t.type # "RERANK"
    BY <1>2, <2>1, <2>2, TaskIs DEF IsNonCausal
  <2>4. PICK result : /\ result = ResultOf(s, size)
                      /\ result = [index |-> t.index, rows |-> <<>>, whole |-> TRUE]
    BY <1>2, <2>1 DEF ResultOf, EmptyResult
  <2>5. <<>> \in Seq(Seq(Tokens))
    OBVIOUS
  <2>6. result \in Results
    BY <2>3, <2>4, <2>5 DEF Results
  <2>7. IsAnswer(result, call, mode)
    BY <1>2, <2>1, <2>3, <2>4 DEF IsAnswer
  <2> QED BY <2>1, <2>2, <2>3, <2>4, <2>6, <2>7
<1> QED BY <1>1, <1>2

-----------------------------------------------------------------------------
(* What steps have in common.                                               *)

\* Slots are made before the worker is started, and a worker that ran never waits again.
LEMMA LifeOfServed ==
    ASSUME LifeInv, [SlotsNext]_vars
    PROVE  /\ worker[Served] # "none" => slots'[Served] = slots[Served]
           /\ worker[Served] \in {"looping", "ended"} => worker'[Served] \in {"looping", "ended"}
<1>1. Served \in Models
  BY SlotsAssumption
<1>2. ASSUME NEW m \in Models,
             \/ Construct(m) \/ ParseFails(m) \/ ParseSucceeds(m)
             \/ LoadFails(m) \/ LoadSucceeds(m)
             \/ InitGivesUp(m) \/ InitEnds(m)
             \/ Ready(m) \/ RegisterCallbacks(m) \/ Publish(m)
      PROVE  UNCHANGED <<slots, worker>>
  BY <1>2 DEF Construct, ParseFails, ParseSucceeds, LoadFails, LoadSucceeds,
     InitGivesUp, InitEnds, Ready, RegisterCallbacks, Publish, serverVars
<1>3. ASSUME NEW m \in Models, InitSlot(m)
      PROVE  worker' = worker /\ (worker[Served] # "none" => slots'[Served] = slots[Served])
  BY <1>1, <1>3 DEF InitSlot, LifeInv, LifeTypeOK, Staged
<1>4. ASSUME NEW m \in Models,
             StartWorker(m) \/ EnterLoop(m) \/ Close(m) \/ DraftIsNull(m)
      PROVE  /\ slots' = slots
             /\ worker[Served] \in {"looping", "ended"} =>
                   worker'[Served] \in {"looping", "ended"}
  <2>1. slots' = slots
    BY <1>4 DEF StartWorker, EnterLoop, Close, DraftIsNull, serverVars
  <2>2. CASE StartWorker(m)
    <3>1. m # Served \/ worker[Served] = "none"
      BY <1>1, <2>2 DEF StartWorker, Goes, LifeInv, LifeTypeOK, Staged
    <3> QED BY <1>1, <2>1, <2>2, <3>1 DEF StartWorker, LifeInv, LifeTypeOK
  <2>3. CASE EnterLoop(m)
    BY <1>1, <2>1, <2>3 DEF EnterLoop, LifeInv, LifeTypeOK
  <2>4. CASE Close(m)
    BY <1>1, <2>1, <2>4 DEF Close, LifeInv, LifeTypeOK
  <2>5. CASE DraftIsNull(m)
    BY <1>1, <2>1, <2>5 DEF DraftIsNull, LifeInv, LifeTypeOK
  <2> QED BY <1>4, <2>2, <2>3, <2>4, <2>5
<1>5. CASE Next
  BY <1>2, <1>3, <1>4, <1>5 DEF Next
<1>6. CASE UNCHANGED lifeVars
  BY <1>6 DEF lifeVars, serverVars
<1>7. Next \/ UNCHANGED lifeVars
  BY DEF SlotsNext, vars, Tick, Call, LaunchTask, DeferTask, Cancel, Round
<1> QED
  BY <1>5, <1>6, <1>7

\* A later call changes nothing of the tasks before it.
LEMMA TasksGrow ==
    ASSUME NEW cs \in Seq(Calls), NEW call \in Calls
    PROVE  Tasks(cs) \subseteq Tasks(Append(cs, call))
<1> SUFFICES ASSUME NEW t \in Tasks(cs)
             PROVE  t \in Tasks(Append(cs, call))
  OBVIOUS
<1>1. t.call \in DOMAIN cs
  BY DEF Tasks
<1>2. t.call \in DOMAIN Append(cs, call) /\ Append(cs, call)[t.call] = cs[t.call]
  BY <1>1, AppendProperties
<1> QED
  BY <1>2 DEF Tasks

\* What Release does to the queues, for tasks of any kind.
LEMMA ReleaseIs ==
    ASSUME NEW released, IsFiniteSet(released), NEW T,
           queue \in Seq(T), deferred \in Seq(T), Release(released)
    PROVE  /\ queue' \in Seq(T) /\ deferred' \in Seq(T)
           /\ deferred = <<>> => deferred' = <<>>
           /\ deferred' # <<>> => Len(queue') = Len(queue) + Cardinality(released)
<1>1. PICK c \in Nat : c = Cardinality(released)
  BY FS_CardinalityType
<1>2. PICK q \in Seq(T) : q = queue
  OBVIOUS
<1>3. PICK d \in Seq(T) : d = deferred
  OBVIOUS
<1>4. PICK k \in Nat : k = Len(d)
  OBVIOUS
<1>5. PICK n \in Nat : n = (IF c <= k THEN c ELSE k) /\ n <= k
  OBVIOUS
<1>6. n = Min({Cardinality(released), Len(deferred)})
  BY <1>1, <1>3, <1>4, <1>5, MinOfTwo
<1>7. queue' = q \o SubSeq(d, 1, n) /\ deferred' = SubSeq(d, n + 1, k)
  BY <1>2, <1>3, <1>4, <1>6 DEF Release
<1>8. SubSeq(d, 1, n) \in Seq(T) /\ Len(SubSeq(d, 1, n)) = n
  BY <1>4, <1>5
<1>9. SubSeq(d, n + 1, k) \in Seq(T)
  BY <1>4, <1>5
<1>10. n = k => SubSeq(d, n + 1, k) = <<>>
  <2> SUFFICES ASSUME n = k PROVE SubSeq(d, n + 1, k) = <<>>
    OBVIOUS
  <2>1. n + 1 \in Int /\ k \in Int /\ k < n + 1
    OBVIOUS
  <2> QED BY <2>1, SubSeqEmpty
<1>11. PICK e \in Seq(T) : e = SubSeq(d, 1, n) /\ Len(e) = n
  BY <1>8
<1>12. q \o e \in Seq(T) /\ Len(q \o e) = Len(q) + n
  BY <1>11, ConcatProperties
<1>13. d = <<>> => n = k
  BY <1>4, <1>5
<1> QED
  BY <1>1, <1>2, <1>3, <1>5, <1>7, <1>9, <1>10, <1>11, <1>12, <1>13

-----------------------------------------------------------------------------
(* The steps.                                                               *)

\* The part of the invariant that is about slots and calls.
ServeInv == CallsTyped /\ SlotsTyped /\ WorkerRan /\ IdleAreServed /\ HeardAnswers

\* The invariant holds before the first call.
LEMMA ServeInit == ServerInit => SlotsInv
<1> SUFFICES ASSUME ServerInit PROVE SlotsInv
  OBVIOUS
<1>1. LifeInv /\ AdaptersInv
  BY LifeInit, AdaptersInit DEF ServerInit
<1>2. <<>> \in Seq(Calls) /\ <<>> \in Seq(Tasks(<<>>)) /\ <<>> \in Seq(Seq(Results))
  OBVIOUS
<1>3. CallsTyped
  <2>1. /\ mode \in Modes /\ stranded \in BOOLEAN
        /\ calls = <<>> /\ queue = <<>> /\ deferred = <<>>
    BY DEF ServerInit
  <2>2. \A n \in DOMAIN calls : Offered(calls[n])
    BY <2>1
  <2> QED BY <1>2, <2>1, <2>2 DEF CallsTyped
<1>4. SlotsTyped
  <2>1. <<>> \in Seq(Tokens)
    OBVIOUS
  <2>2. 0 \in 0..MaxClock
    BY SlotsAssumption
  <2> QED BY <2>1, <2>2 DEF ServerInit, SlotsTyped
<1>5. WorkerRan /\ IdleAreServed
  BY DEF ServerInit, WorkerRan, IdleAreServed
<1>6. HeardAnswers
  BY <1>2 DEF ServerInit, HeardAnswers
<1> QED
  BY <1>1, <1>3, <1>4, <1>5, <1>6 DEF SlotsInv

\* Whatever is asked for, its prompts are numbered from 1 and of tokens.
LEMMA PromptsTyped ==
    ASSUME NEW call \in Requests
    PROVE  \E m \in Nat : /\ DOMAIN PromptsOf(call) = 1..m
                         /\ \A k \in 1..m : PromptsOf(call)[k] \in Seq(Tokens)
<1>1. PICK prompts \in Seq(Seq(Tokens)) : prompts = PromptsOf(call)
  <2>1. CASE call.type = "COMPLETION"
    BY <2>1, CompletionPrompts
  <2>2. CASE call.type = "EMBEDDING"
    <3>1. PICK prompt \in Seq(Tokens) : PromptsOf(call) = <<prompt>>
      BY <2>2, EmbeddingPrompts
    <3> DEFINE S == Seq(Tokens)
    <3>2. prompt \in S
      OBVIOUS
    <3> HIDE DEF S
    <3>3. <<prompt>> \in Seq(S)
      BY <3>2
    <3> QED BY <3>1, <3>3 DEF S
  <2>3. CASE call.type = "RERANK"
    BY <2>3, RerankPrompts
  <2> QED BY <2>1, <2>2, <2>3, RequestIs
<1>2. Len(prompts) \in Nat /\ DOMAIN prompts = 1..Len(prompts)
  OBVIOUS
<1>3. \A k \in 1..Len(prompts) : prompts[k] \in Seq(Tokens)
  OBVIOUS
<1> QED
  BY <1>1, <1>2, <1>3

\* Steps of the models leave slots that work as they are.
LEMMA LifeServes ==
    ASSUME SlotsInv, [SlotsNext]_vars, UNCHANGED slotsVars
    PROVE  ServeInv'
<1> USE DEF slotsVars, choiceVars, taskVars
<1>1. LifeInv
  BY DEF SlotsInv
<1>2. (deferred # <<>> \/ \E s \in 1..NParallel : state[s] # "IDLE") =>
          slots'[Served] = slots[Served] /\ worker'[Served] \in {"looping", "ended"}
  BY <1>1, LifeOfServed DEF SlotsInv, WorkerRan
<1>3. CallsTyped'
  BY DEF SlotsInv, CallsTyped, Offered
<1>4. SlotsTyped'
  <2>1. \A s \in 1..NParallel : state[s] # "IDLE" => s \in Slots'
    BY <1>2 DEF SlotsInv, SlotsTyped, Slots
  <2> QED BY <2>1 DEF SlotsInv, SlotsTyped
<1>5. WorkerRan'
  BY <1>2 DEF WorkerRan
<1>6. IdleAreServed'
  <2> SUFFICES ASSUME deferred # <<>>, ~stranded
               PROVE  Cardinality(Idle') <= Len(queue)
    BY DEF IdleAreServed
  <2>1. Idle' = Idle
    BY <1>2 DEF Idle, Slots, IsProcessing
  <2> QED BY <2>1 DEF SlotsInv, IdleAreServed
<1>7. HeardAnswers'
  BY DEF SlotsInv, HeardAnswers
<1> QED
  BY <1>3, <1>4, <1>5, <1>6, <1>7 DEF ServeInv

\* Time changes nothing but how long slots were idle.
LEMMA TickServes ==
    ASSUME SlotsInv, Tick
    PROVE  ServeInv'
<1>0. UNCHANGED <<lifeVars, mode, choiceVars, taskVars, calls, heard>>
  BY DEF Tick
<1>1. CallsTyped'
  BY <1>0 DEF SlotsInv, CallsTyped, Offered, taskVars
<1>2. SlotsTyped'
  <2>1. clock \in 0..MaxClock /\ clock < MaxClock /\ clock' = clock + 1 /\ MaxClock \in Nat
    BY SlotsAssumption DEF SlotsInv, SlotsTyped, Tick
  <2>2. clock' \in 0..MaxClock /\ -1..clock \subseteq -1..clock'
    BY <2>1
  <2>3. t_last_used' \in [1..NParallel -> -1..clock']
    BY <1>0, <2>2 DEF SlotsInv, SlotsTyped, choiceVars
  <2> QED
    BY <1>0, <2>2, <2>3 DEF SlotsInv, SlotsTyped, Slots, choiceVars, lifeVars, serverVars
<1>3. WorkerRan' /\ IdleAreServed' /\ HeardAnswers'
  BY <1>0 DEF SlotsInv, WorkerRan, IdleAreServed, HeardAnswers, Idle, Slots, IsProcessing,
     choiceVars, taskVars, lifeVars, serverVars
<1> QED
  BY <1>1, <1>2, <1>3 DEF ServeInv

\* The tasks of a call are behind those that were there.
LEMMA CallServes ==
    ASSUME SlotsInv, Call
    PROVE  ServeInv'
<1>0. UNCHANGED <<lifeVars, mode, clock, choiceVars, deferred, stranded>>
  BY DEF Call
<1>1. PICK call \in Calls :
          /\ Offered(call) /\ calls' = Append(calls, call) /\ heard' = Append(heard, <<>>)
          /\ queue' = queue \o [k \in DOMAIN PromptsOf(call) |->
                [call |-> Len(calls) + 1, index |-> k, type |-> call.type,
                 cached |-> call.cached, prompt |-> PromptsOf(call)[k]]]
  BY DEF Call
<1>2. PICK cs \in Seq(Calls) : cs = calls
  BY DEF SlotsInv, CallsTyped
<1>3. PICK n \in Nat : n = Len(cs)
  OBVIOUS
<1>4. PICK more \in Seq(Calls) : /\ more = Append(cs, call) /\ Len(more) = n + 1
                                 /\ DOMAIN more = 1..(n + 1) /\ more[n + 1] = call
                                 /\ \A k \in 1..n : more[k] = cs[k]
  <2>1. PICK more : more = Append(cs, call)
    OBVIOUS
  <2>2. /\ more \in Seq(Calls) /\ Len(more) = n + 1
        /\ more[n + 1] = call /\ \A k \in 1..n : more[k] = cs[k]
    BY <1>3, <2>1, AppendProperties
  <2>3. DOMAIN more = 1..(n + 1)
    BY <2>2
  <2> QED BY <2>1, <2>2, <2>3
<1>5. calls' = more
  BY <1>1, <1>2, <1>4
<1>6. Tasks(cs) \subseteq Tasks(more)
  BY <1>4, TasksGrow
<1>7. PICK m \in Nat : /\ DOMAIN PromptsOf(call) = 1..m
                       /\ \A k \in 1..m : PromptsOf(call)[k] \in Seq(Tokens)
  BY SlotsAssumption, PromptsTyped
<1>9. PICK new : new = [k \in 1..m |-> [call |-> n + 1, index |-> k, type |-> call.type,
                                        cached |-> call.cached,
                                        prompt |-> PromptsOf(call)[k]]]
  OBVIOUS
<1>10. queue' = queue \o new
  BY <1>1, <1>2, <1>3, <1>7, <1>9
<1>11. new \in Seq(Tasks(more)) /\ Len(new) = m
  <2>1. call.type \in {"COMPLETION", "EMBEDDING", "RERANK"} /\ call.cached \in BOOLEAN
    BY SlotsAssumption, RequestIs
  <2>2. ASSUME NEW k \in 1..m
        PROVE  [call |-> n + 1, index |-> k, type |-> call.type, cached |-> call.cached,
                prompt |-> PromptsOf(call)[k]] \in Tasks(more)
    <3>1. n + 1 \in DOMAIN more /\ more[n + 1] = call /\ k \in DOMAIN PromptsOf(call)
      BY <1>4, <1>7
    <3> QED BY <1>7, <2>1, <3>1 DEF Tasks
  <2>3. new \in [1..m -> Tasks(more)]
    BY <1>9, <2>2
  <2> QED BY <2>3, SeqOfFunction
<1>12. queue' \in Seq(Tasks(more)) /\ Len(queue') = Len(queue) + m /\ Len(queue) \in Nat
  <2>1. PICK q \in Seq(Tasks(more)) : q = queue
    <3>1. queue \in Seq(Tasks(cs))
      BY <1>2 DEF SlotsInv, CallsTyped
    <3> QED BY <1>6, <3>1, SeqMonotonic
  <2>2. q \o new \in Seq(Tasks(more)) /\ Len(q \o new) = Len(q) + m
    BY <1>11, ConcatProperties
  <2> QED BY <1>10, <2>1, <2>2
<1>13. CallsTyped'
  <2>1. deferred \in Seq(Tasks(more))
    <3>1. deferred \in Seq(Tasks(cs))
      BY <1>2 DEF SlotsInv, CallsTyped
    <3> QED BY <1>6, <3>1, SeqMonotonic
  <2>2. \A k \in 1..(n + 1) : Offered(more[k])
    <3>1. \A k \in 1..n : Offered(cs[k])
      BY <1>2, <1>3 DEF SlotsInv, CallsTyped
    <3>2. \A k \in 1..(n + 1) : k \in 1..n \/ k = n + 1
      BY <1>3
    <3> QED BY <1>1, <1>4, <3>1, <3>2
  <2>3. \A k \in DOMAIN more : Offered(more[k])'
    BY <1>0, <1>4, <2>2 DEF Offered
  <2>4. mode \in Modes /\ stranded \in BOOLEAN
    BY DEF SlotsInv, CallsTyped
  <2> QED BY <1>0, <1>5, <1>12, <2>1, <2>3, <2>4 DEF CallsTyped
<1>14. SlotsTyped'
  <2>1. task' \in [1..NParallel -> {NoTask} \cup Tasks(more)]
    BY <1>0, <1>2, <1>6 DEF SlotsInv, SlotsTyped, choiceVars
  <2> QED
    BY <1>0, <1>5, <2>1 DEF SlotsInv, SlotsTyped, Slots, choiceVars, lifeVars, serverVars
<1>15. WorkerRan'
  BY <1>0 DEF SlotsInv, WorkerRan, choiceVars, lifeVars, serverVars
<1>16. IdleAreServed'
  <2> SUFFICES ASSUME deferred # <<>>, ~stranded
               PROVE  Cardinality(Idle') <= Len(queue')
    BY <1>0 DEF IdleAreServed
  <2>1. Idle' = Idle
    BY <1>0 DEF Idle, Slots, IsProcessing, choiceVars, lifeVars, serverVars
  <2>2. Cardinality(Idle) <= Len(queue)
    BY DEF SlotsInv, IdleAreServed
  <2>3. Cardinality(Idle) \in Nat
    <3>1. IsFiniteSet(Slots)
      BY SlotsAre, FS_Interval DEF Slots
    <3>2. Idle \in SUBSET Slots
      BY DEF Idle
    <3> QED BY <3>1, <3>2, FS_Subset, FS_CardinalityType
  <2> QED BY <1>12, <2>1, <2>2, <2>3
<1>17. HeardAnswers'
  <2>1. PICK h \in Seq(Seq(Results)) : h = heard /\ Len(h) = n
    BY <1>2, <1>3 DEF SlotsInv, HeardAnswers
  <2> DEFINE S == Seq(Results)
  <2>2. <<>> \in S
    OBVIOUS
  <2>3. PICK g : g = Append(h, <<>>)
    OBVIOUS
  <2>4. /\ g \in Seq(S) /\ Len(g) = n + 1
        /\ g[n + 1] = <<>> /\ \A k \in 1..n : g[k] = h[k]
    <3> HIDE DEF S
    <3>1. h \in Seq(S)
      BY DEF S
    <3> QED BY <2>1, <2>2, <2>3, <3>1, AppendProperties
  <2>5. heard' = g
    BY <1>1, <2>1, <2>3
  <2>6. \A i \in 1..n : \A k \in DOMAIN h[i] : IsAnswer(h[i][k], cs[i], mode)
    <3>1. DOMAIN cs = 1..n
      BY <1>3
    <3> QED BY <1>2, <2>1, <3>1 DEF SlotsInv, HeardAnswers
  <2>7. \A i \in 1..(n + 1) : \A k \in DOMAIN g[i] : IsAnswer(g[i][k], more[i], mode)
    <3> TAKE i \in 1..(n + 1)
    <3> HIDE DEF S
    <3>1. CASE i \in 1..n
      <4>1. g[i] = h[i] /\ more[i] = cs[i]
        BY <1>4, <2>4, <3>1
      <4> QED BY <2>6, <3>1, <4>1
    <3>2. CASE i = n + 1
      <4>1. g[i] = <<>>
        BY <2>4, <3>2
      <4>2. \A k \in DOMAIN g[i] : FALSE
        BY <4>1
      <4> QED BY <4>2
    <3>3. i \in 1..n \/ i = n + 1
      OBVIOUS
    <3> QED BY <3>1, <3>2, <3>3, Zenon
  <2>8. g \in Seq(Seq(Results)) /\ mode' = mode
    BY <1>0, <2>4
  <2> HIDE DEF S
  <2> QED BY <1>4, <1>5, <2>4, <2>5, <2>7, <2>8 DEF HeardAnswers
<1> QED
  BY <1>13, <1>14, <1>15, <1>16, <1>17 DEF ServeInv

\* The task at the head can be compared with the caches.
LEMMA HeadIs ==
    ASSUME SlotsInv, queue # <<>>
    PROVE  /\ Head(queue) \in Tasks(calls) /\ Head(queue) # NoTask
           /\ Comparable(Head(queue))
           /\ Tail(queue) \in Seq(Tasks(calls)) /\ Len(Tail(queue)) = Len(queue) - 1
           /\ Len(queue) \in Nat
<1>1. PICK q \in Seq(Tasks(calls)) : q = queue /\ q # <<>>
  BY DEF SlotsInv, CallsTyped
<1>2. Head(q) \in Tasks(calls) /\ Tail(q) \in Seq(Tasks(calls)) /\ Len(q) \in Nat
  BY <1>1, HeadTailProperties
<1>3. Len(Tail(q)) = Len(q) - 1
  BY <1>1, HeadTailProperties
<1>4. Head(q) # NoTask
  <2>1. Head(q).call \in DOMAIN calls /\ calls \in Seq(Calls)
    BY <1>2, TaskIs DEF SlotsInv, CallsTyped
  <2>2. Head(q).call # 0
    BY <2>1
  <2> QED BY <2>2 DEF NoTask
<1>5. Comparable(Head(q))
  <2>1. Head(q).prompt \in Seq(Tokens)
    BY <1>2, TaskIs
  <2>2. clock \in Int /\ -1..clock \subseteq Int
    BY SlotsAssumption DEF SlotsInv, SlotsTyped
  <2>3. slots[Served] \in 0..NParallel
    BY SlotsAssumption DEF SlotsInv, LifeInv, LifeTypeOK
  <2>4. t_last_used \in [1..NParallel -> Int]
    BY <2>2 DEF SlotsInv, SlotsTyped
  <2> QED BY <2>1, <2>2, <2>3, <2>4 DEF Comparable, SlotTypes, SlotsInv, SlotsTyped
<1> QED
  BY <1>1, <1>2, <1>3, <1>4, <1>5

\* Idle slots can be counted.
LEMMA IdleIs ==
    ASSUME SlotsInv
    PROVE  /\ IsFiniteSet(Slots) /\ IsFiniteSet(Idle) /\ Cardinality(Idle) \in Nat
           /\ Idle \subseteq Slots
<1>1. IsFiniteSet(Slots)
  BY SlotsAre, FS_Interval DEF Slots
<1>2. Idle \in SUBSET Slots
  BY DEF Idle
<1> QED
  BY <1>1, <1>2, FS_Subset, FS_CardinalityType

\* A slot is given a task.
LEMMA LaunchServes ==
    ASSUME SlotsInv, LaunchTask
    PROVE  ServeInv'
<1>1. PICK t : t = Head(queue)
  OBVIOUS
<1>2. PICK s : s = GetAvailableSlot(t)
  OBVIOUS
<1>3. PICK started \in BOOLEAN :
          /\ Launch(s, t, started)
          /\ stranded' = (stranded \/ (~started /\ deferred # <<>>))
  BY <1>1, <1>2 DEF LaunchTask
<1>4. /\ worker[Served] = "looping" /\ queue # <<>> /\ s # 0 /\ queue' = Tail(queue)
      /\ UNCHANGED <<lifeVars, mode, clock, deferred, calls, heard>>
  BY <1>1, <1>2 DEF LaunchTask, Working
<1>5. t \in Tasks(calls) /\ t # NoTask /\ Comparable(t)
  BY <1>1, <1>4, HeadIs
<1>6. s \in Idle
  <2>1. s \in BestSlots(t)
    BY <1>2, <1>4, <1>5, GetsBest
  <2> QED BY <2>1 DEF BestSlots
<1>7. s \in Slots /\ s \in 1..NParallel /\ state[s] = "IDLE"
  BY <1>6, SlotsAre DEF Idle, IsProcessing
<1>8. Slots' = Slots /\ worker' = worker
  BY <1>4 DEF Slots, lifeVars, serverVars
<1>9. /\ task' = [task EXCEPT ![s] = t]
      /\ state' = [state EXCEPT ![s] = IF started THEN "STARTED" ELSE @]
      /\ t_last_used' = t_last_used
      /\ cache' = cache \/ cache' = [cache EXCEPT ![s] = <<>>]
  BY <1>3 DEF Launch
<1>10. CallsTyped'
  <2>1. queue' \in Seq(Tasks(calls))
    BY <1>4, HeadIs
  <2>2. stranded' \in BOOLEAN
    BY <1>3 DEF SlotsInv, CallsTyped
  <2> QED BY <1>4, <2>1, <2>2 DEF SlotsInv, CallsTyped, Offered
<1>11. SlotsTyped'
  <2>1. state' \in [1..NParallel -> {"IDLE", "STARTED", "GENERATING"}]
    BY <1>9 DEF SlotsInv, SlotsTyped
  <2>2. cache' \in [1..NParallel -> Seq(Tokens)]
    <3>1. <<>> \in Seq(Tokens)
      OBVIOUS
    <3> QED BY <1>9, <3>1 DEF SlotsInv, SlotsTyped
  <2>3. task' \in [1..NParallel -> {NoTask} \cup Tasks(calls)]
    BY <1>5, <1>9 DEF SlotsInv, SlotsTyped
  <2>4. ASSUME NEW u \in 1..NParallel, state'[u] # "IDLE"
        PROVE  u \in Slots /\ task'[u] # NoTask
    <3>1. CASE u = s
      BY <1>5, <1>7, <1>9, <3>1 DEF SlotsInv, SlotsTyped
    <3>2. CASE u # s
      BY <1>9, <2>4, <3>2 DEF SlotsInv, SlotsTyped
    <3> QED BY <3>1, <3>2
  <2> QED BY <1>4, <1>8, <1>9, <2>1, <2>2, <2>3, <2>4 DEF SlotsInv, SlotsTyped
<1>12. WorkerRan'
  BY <1>4, <1>8 DEF WorkerRan
<1>13. IdleAreServed'
  <2> SUFFICES ASSUME deferred # <<>>, ~stranded'
               PROVE  Cardinality(Idle') <= Len(queue')
    BY <1>4 DEF IdleAreServed
  <2>1. started /\ ~stranded
    BY <1>3
  <2>2. Idle' = Idle \ {s}
    <3>1. \A u \in Slots : state'[u] = IF u = s THEN "STARTED" ELSE state[u]
      BY <1>7, <1>9, <2>1, SlotsAre DEF SlotsInv, SlotsTyped
    <3> QED BY <1>8, <3>1 DEF Idle, IsProcessing
  <2>3. Cardinality(Idle \ {s}) = Cardinality(Idle) - 1
    BY <1>6, IdleIs, FS_RemoveElement
  <2>4. Cardinality(Idle) <= Len(queue)
    BY <2>1 DEF SlotsInv, IdleAreServed
  <2> QED BY <1>4, <2>2, <2>3, <2>4, HeadIs, IdleIs
<1>14. HeardAnswers'
  BY <1>4 DEF SlotsInv, HeardAnswers
<1> QED
  BY <1>10, <1>11, <1>12, <1>13, <1>14 DEF ServeInv

\* A task is deferred when no slot is idle, or stranded says so.
LEMMA DeferServes ==
    ASSUME SlotsInv, DeferTask
    PROVE  ServeInv'
<1>1. PICK t : t = Head(queue)
  OBVIOUS
<1>2. /\ worker[Served] = "looping" /\ queue # <<>> /\ GetAvailableSlot(t) = 0
      /\ deferred' = Append(deferred, t) /\ queue' = Tail(queue)
      /\ stranded' = (stranded \/ \E s \in Slots : ~IsProcessing(s) /\ t_last_used[s] = clock)
      /\ UNCHANGED <<lifeVars, mode, clock, choiceVars, calls, heard>>
  BY <1>1 DEF DeferTask, Working
<1>3. t \in Tasks(calls) /\ Comparable(t)
  BY <1>1, <1>2, HeadIs
<1>4. Slots' = Slots /\ worker' = worker
  BY <1>2 DEF Slots, lifeVars, serverVars
<1>5. CallsTyped'
  <2>1. queue' \in Seq(Tasks(calls))
    BY <1>2, HeadIs
  <2>2. PICK d \in Seq(Tasks(calls)) : d = deferred
    BY DEF SlotsInv, CallsTyped
  <2>3. Append(d, t) \in Seq(Tasks(calls))
    BY <1>3, AppendProperties
  <2>4. stranded' \in BOOLEAN
    BY <1>2 DEF SlotsInv, CallsTyped
  <2> QED BY <1>2, <2>1, <2>2, <2>3, <2>4 DEF SlotsInv, CallsTyped, Offered
<1>6. SlotsTyped'
  BY <1>2, <1>4 DEF SlotsInv, SlotsTyped, choiceVars
<1>7. WorkerRan'
  BY <1>2, <1>4 DEF WorkerRan
<1>8. IdleAreServed'
  <2> SUFFICES ASSUME ~stranded'
               PROVE  Cardinality(Idle') <= Len(queue')
    BY DEF IdleAreServed
  <2>1. Idle' = Idle
    BY <1>2, <1>4 DEF Idle, IsProcessing, choiceVars
  <2>2. Idle = {}
    <3> SUFFICES ASSUME NEW s \in Idle PROVE FALSE
      OBVIOUS
    <3>1. t_last_used[s] >= clock
      BY <1>2, <1>3, GetsNone
    <3>2. s \in Slots /\ ~IsProcessing(s) /\ s \in 1..NParallel
      BY SlotsAre DEF Idle
    <3>3. t_last_used[s] \in -1..clock /\ clock \in Nat
      BY <3>2, SlotsAssumption DEF SlotsInv, SlotsTyped
    <3>4. t_last_used[s] = clock
      BY <3>1, <3>3
    <3> QED BY <1>2, <3>2, <3>4
  <2>3. Cardinality(Idle) = 0
    BY <2>2, FS_EmptySet
  <2> QED BY <1>2, <2>1, <2>3, HeadIs
<1>9. HeardAnswers'
  BY <1>2 DEF SlotsInv, HeardAnswers
<1> QED
  BY <1>5, <1>6, <1>7, <1>8, <1>9 DEF ServeInv

\* A slot that is cancelled hands a task back.
LEMMA CancelServes ==
    ASSUME SlotsInv, Cancel
    PROVE  ServeInv'
<1>1. PICK s \in Slots :
          IsProcessing(s) /\ Release({s}) /\ state' = [state EXCEPT ![s] = "IDLE"]
  BY DEF Cancel
<1>2. /\ worker[Served] = "looping"
      /\ UNCHANGED <<lifeVars, mode, clock, task, lora, cache, computed, stranded, calls, heard>>
  BY DEF Cancel, Working
<1>3. IsFiniteSet({s}) /\ Cardinality({s}) = 1
  BY FS_Singleton
<1>4. /\ queue' \in Seq(Tasks(calls)) /\ deferred' \in Seq(Tasks(calls))
      /\ deferred = <<>> => deferred' = <<>>
      /\ deferred' # <<>> => Len(queue') = Len(queue) + 1
  BY <1>1, <1>3, ReleaseIs DEF SlotsInv, CallsTyped
<1>5. Slots' = Slots /\ worker' = worker /\ s \in 1..NParallel
  BY <1>2, SlotsAre DEF Slots, lifeVars, serverVars
<1>6. CallsTyped'
  BY <1>2, <1>4 DEF SlotsInv, CallsTyped, Offered
<1>7. SlotsTyped'
  <2>1. t_last_used' = [u \in 1..NParallel |-> IF u \in {s} THEN clock ELSE t_last_used[u]]
    BY <1>1 DEF Release
  <2>2. clock \in -1..clock
    BY SlotsAssumption DEF SlotsInv, SlotsTyped
  <2>3. t_last_used' \in [1..NParallel -> -1..clock]
    BY <2>1, <2>2 DEF SlotsInv, SlotsTyped
  <2>4. state' \in [1..NParallel -> {"IDLE", "STARTED", "GENERATING"}]
    BY <1>1 DEF SlotsInv, SlotsTyped
  <2>5. \A u \in 1..NParallel : state'[u] # "IDLE" => state[u] # "IDLE"
    BY <1>1, <1>5 DEF SlotsInv, SlotsTyped
  <2> QED BY <1>2, <1>5, <2>3, <2>4, <2>5 DEF SlotsInv, SlotsTyped
<1>8. WorkerRan'
  BY <1>2, <1>5 DEF WorkerRan
<1>9. IdleAreServed'
  <2> SUFFICES ASSUME deferred' # <<>>, ~stranded
               PROVE  Cardinality(Idle') <= Len(queue')
    BY <1>2 DEF IdleAreServed
  <2>1. Idle' = Idle \cup {s}
    <3>1. \A u \in Slots : state'[u] = IF u = s THEN "IDLE" ELSE state[u]
      BY <1>1, <1>5, SlotsAre DEF SlotsInv, SlotsTyped
    <3> QED BY <1>5, <3>1 DEF Idle, IsProcessing
  <2>2. s \notin Idle
    BY <1>1 DEF Idle
  <2>3. Cardinality(Idle \cup {s}) = Cardinality(Idle) + 1
    BY <2>2, IdleIs, FS_AddElement
  <2>4. Cardinality(Idle) <= Len(queue)
    BY <1>4 DEF SlotsInv, IdleAreServed
  <2>5. Len(queue) \in Nat
    BY DEF SlotsInv, CallsTyped
  <2> QED BY <1>4, <2>1, <2>3, <2>4, <2>5, IdleIs
<1>10. HeardAnswers'
  BY <1>2 DEF SlotsInv, HeardAnswers
<1> QED
  BY <1>6, <1>7, <1>8, <1>9, <1>10 DEF ServeInv

\* What a round appends to the results of a call.
LEMMA AnswersAre ==
    ASSUME SlotsInv, NEW size \in ViewSizes, NEW n, NEW over, over \subseteq Slots,
           \A s \in over : InBatch(s)
    PROVE  \E new \in Seq(Results) :
              /\ new = [k \in DOMAIN AnsweredFor(n, over) |->
                            ResultOf(AnsweredFor(n, over)[k], size)]
              /\ \A k \in DOMAIN new : n \in DOMAIN calls /\ IsAnswer(new[k], calls[n], mode)
<1> DEFINE own == {s \in over : IsNonCausal(s) /\ task[s].call = n}
<1>1. PICK N \in Nat : Slots = 1..N
  BY SlotsAre DEF Slots
<1>2. own \in SUBSET (1..N)
  BY <1>1
<1>3. \A s \in own : s \in Slots /\ InBatch(s) /\ IsNonCausal(s) /\ task[s].call = n
  OBVIOUS
<1>4. AnsweredFor(n, over) = InOrder(own)
  BY DEF AnsweredFor
<1> HIDE DEF own
<1>5. PICK f : f = AnsweredFor(n, over)
  OBVIOUS
<1>6. PICK c \in Nat : IsIncreasing(f, own, c)
  BY <1>2, <1>4, <1>5, InOrderIs
<1>7. DOMAIN f = 1..c /\ \A k \in 1..c : f[k] \in own
  BY <1>6 DEF IsIncreasing
<1>8. \A k \in 1..c : /\ ResultOf(f[k], size) \in Results
                      /\ n \in DOMAIN calls /\ IsAnswer(ResultOf(f[k], size), calls[n], mode)
  BY <1>3, <1>7, ResultIs
<1>9. PICK new : new = [k \in 1..c |-> ResultOf(f[k], size)]
  OBVIOUS
<1>10. new \in [1..c -> Results]
  BY <1>8, <1>9
<1>11. new \in Seq(Results) /\ DOMAIN new = 1..c
  BY <1>10, SeqOfFunction
<1>12. new = [k \in DOMAIN AnsweredFor(n, over) |-> ResultOf(AnsweredFor(n, over)[k], size)]
  BY <1>5, <1>7, <1>9
<1>13. \A k \in 1..c : new[k] = ResultOf(f[k], size)
  BY <1>9
<1> QED
  BY <1>8, <1>11, <1>12, <1>13

\* The slots that a round releases hand back as many tasks, and what they answer is
\* computed from their own prompts.
LEMMA RoundServes ==
    ASSUME SlotsInv, Round
    PROVE  ServeInv'
<1> DEFINE batched == {s \in Slots : InBatch(s)}
           decoded == {s \in batched : task[s].prompt # <<>>}
<1>1. PICK size \in ViewSizes, over \in SUBSET batched :
          /\ Release(over)
          /\ state' = [s \in 1..NParallel |-> IF s \in over THEN "IDLE"
                          ELSE IF s \in batched THEN "GENERATING" ELSE state[s]]
          /\ cache' = [s \in 1..NParallel |-> IF s \in decoded THEN CacheAfter(s)
                                              ELSE cache[s]]
          /\ heard' = [n \in DOMAIN heard |->
                heard[n] \o [k \in DOMAIN AnsweredFor(n, over) |->
                                ResultOf(AnsweredFor(n, over)[k], size)]]
  BY DEF Round
<1>2. /\ worker[Served] = "looping"
      /\ UNCHANGED <<lifeVars, mode, clock, task, lora, stranded, calls>>
  BY DEF Round, Working
<1>3. Slots' = Slots /\ worker' = worker
  BY <1>2 DEF Slots, lifeVars, serverVars
<1>4. \A s \in batched : /\ s \in Slots /\ s \in 1..NParallel /\ InBatch(s)
                         /\ state[s] # "IDLE"
  BY SlotsAre DEF InBatch, IsProcessing
<1>5. over \subseteq Slots /\ \A s \in over : s \in batched
  OBVIOUS
<1> HIDE DEF batched, decoded
<1>6. IsFiniteSet(over) /\ Cardinality(over) \in Nat
  BY <1>5, IdleIs, FS_Subset, FS_CardinalityType
<1>7. /\ queue' \in Seq(Tasks(calls)) /\ deferred' \in Seq(Tasks(calls))
      /\ deferred = <<>> => deferred' = <<>>
      /\ deferred' # <<>> => Len(queue') = Len(queue) + Cardinality(over)
  BY <1>1, <1>6, ReleaseIs DEF SlotsInv, CallsTyped
<1>8. CallsTyped'
  BY <1>2, <1>7 DEF SlotsInv, CallsTyped, Offered
<1>9. \A s \in 1..NParallel : state'[s] # "IDLE" => state[s] # "IDLE"
  BY <1>1, <1>4
<1>10. SlotsTyped'
  <2>1. t_last_used' = [u \in 1..NParallel |-> IF u \in over THEN clock ELSE t_last_used[u]]
    BY <1>1 DEF Release
  <2>2. clock \in -1..clock
    BY SlotsAssumption DEF SlotsInv, SlotsTyped
  <2>3. t_last_used' \in [1..NParallel -> -1..clock]
    BY <2>1, <2>2 DEF SlotsInv, SlotsTyped
  <2>4. state' \in [1..NParallel -> {"IDLE", "STARTED", "GENERATING"}]
    BY <1>1 DEF SlotsInv, SlotsTyped
  <2>5. cache' \in [1..NParallel -> Seq(Tokens)]
    <3>1. \A s \in 1..NParallel : cache[s] \in Seq(Tokens) /\ CacheAfter(s) \in Seq(Tokens)
      <4> TAKE s \in 1..NParallel
      <4>1. PICK c \in Seq(Tokens) : c = cache[s]
        BY DEF SlotsInv, SlotsTyped
      <4>2. Append(c, Sampled) \in Seq(Tokens)
        BY SlotsAssumption, AppendProperties
      <4>3. <<>> \in Seq(Tokens)
        OBVIOUS
      <4> QED BY <4>1, <4>2, <4>3, SlotsAre DEF CacheAfter
    <3> QED BY <1>1, <3>1
  <2> QED BY <1>2, <1>3, <1>9, <2>3, <2>4, <2>5 DEF SlotsInv, SlotsTyped
<1>11. WorkerRan'
  BY <1>2, <1>3 DEF WorkerRan
<1>12. IdleAreServed'
  <2> SUFFICES ASSUME deferred' # <<>>, ~stranded
               PROVE  Cardinality(Idle') <= Len(queue')
    BY <1>2 DEF IdleAreServed
  <2>1. Idle' = Idle \cup over
    <3>1. \A u \in Slots : state'[u] = "IDLE" <=> u \in over \/ state[u] = "IDLE"
      BY <1>1, <1>4, SlotsAre
    <3> QED BY <1>3, <1>5, <3>1 DEF Idle, IsProcessing
  <2>2. Idle \cap over = {}
    BY <1>4, <1>5 DEF Idle, IsProcessing
  <2>3. Cardinality(Idle \cup over) = Cardinality(Idle) + Cardinality(over)
    BY <1>6, <2>2, IdleIs, FS_Union, FS_EmptySet
  <2>4. Cardinality(Idle) <= Len(queue)
    BY <1>7 DEF SlotsInv, IdleAreServed
  <2>5. Len(queue) \in Nat
    BY DEF SlotsInv, CallsTyped
  <2> QED BY <1>6, <1>7, <2>1, <2>3, <2>4, <2>5, IdleIs
<1>13. HeardAnswers'
  <2>1. PICK m \in Nat : DOMAIN heard = 1..m /\ DOMAIN calls = 1..m /\ Len(calls) = m
    BY DEF SlotsInv, CallsTyped, HeardAnswers
  <2>2. \A n \in 1..m : /\ heard[n] \in Seq(Results)
                        /\ \A k \in DOMAIN heard[n] : IsAnswer(heard[n][k], calls[n], mode)
    <3>1. \A n \in 1..m : heard[n] \in Seq(Results)
      <4> DEFINE S == Seq(Results)
      <4>1. heard \in Seq(S)
        BY DEF SlotsInv, HeardAnswers
      <4> HIDE DEF S
      <4>2. \A n \in DOMAIN heard : heard[n] \in S
        BY <4>1
      <4> QED BY <2>1, <4>2 DEF S
    <3> QED BY <2>1, <3>1 DEF SlotsInv, HeardAnswers
  <2>3. PICK h : h = heard'
    OBVIOUS
  <2>4. ASSUME NEW n \in 1..m
        PROVE  /\ h[n] \in Seq(Results)
               /\ \A k \in DOMAIN h[n] : IsAnswer(h[n][k], calls[n], mode)
    <3>1. PICK old \in Seq(Results) : old = heard[n]
      BY <2>2
    <3>2. \A s \in over : InBatch(s)
      BY <1>4, <1>5
    <3>3. PICK new \in Seq(Results) :
             /\ new = [k \in DOMAIN AnsweredFor(n, over) |->
                           ResultOf(AnsweredFor(n, over)[k], size)]
             /\ \A k \in DOMAIN new : IsAnswer(new[k], calls[n], mode)
      BY <1>5, <3>2, AnswersAre
    <3>4. h[n] = old \o new
      <4>1. n \in DOMAIN heard
        BY <2>1
      <4>2. h[n] = heard[n] \o [k \in DOMAIN AnsweredFor(n, over) |->
                                    ResultOf(AnsweredFor(n, over)[k], size)]
        BY <1>1, <2>3, <4>1
      <4> QED BY <3>1, <3>3, <4>2
    <3>5. PICK all : all = old \o new
      OBVIOUS
    <3>6. /\ all \in Seq(Results) /\ DOMAIN all = 1..Len(all)
          /\ \A k \in 1..Len(all) :
                \/ k \in 1..Len(old) /\ all[k] = old[k]
                \/ k - Len(old) \in 1..Len(new) /\ all[k] = new[k - Len(old)]
      <4>1. all \in Seq(Results)
            /\ \A k \in 1..Len(all) :
                \/ k \in 1..Len(old) /\ all[k] = old[k]
                \/ k - Len(old) \in 1..Len(new) /\ all[k] = new[k - Len(old)]
        BY <3>5, ConcatAt
      <4> QED BY <4>1
    <3>7. \A k \in 1..Len(old) : IsAnswer(old[k], calls[n], mode)
      BY <2>2, <3>1
    <3>8. \A k \in 1..Len(new) : IsAnswer(new[k], calls[n], mode)
      BY <3>3
    <3> QED BY <3>4, <3>5, <3>6, <3>7, <3>8
  <2>5. h \in [1..m -> Seq(Results)]
    <3>1. DOMAIN h = 1..m /\ h = [n \in 1..m |-> h[n]]
      BY <1>1, <2>1, <2>3
    <3> QED BY <2>4, <3>1
  <2>6. h \in Seq(Seq(Results)) /\ Len(h) = m
    <3> DEFINE S == Seq(Results)
    <3>1. h \in [1..m -> S]
      BY <2>5
    <3> HIDE DEF S
    <3>2. h \in Seq(S) /\ Len(h) = m
      BY <3>1, SeqOfFunction
    <3> QED BY <3>2 DEF S
  <2> QED BY <1>2, <2>1, <2>3, <2>4, <2>6 DEF HeardAnswers
<1> QED
  BY <1>8, <1>10, <1>11, <1>12, <1>13 DEF ServeInv

\* Each step keeps the invariant.
LEMMA ServeNext == SlotsInv /\ [SlotsNext]_vars => SlotsInv'
<1> SUFFICES ASSUME SlotsInv, [SlotsNext]_vars PROVE SlotsInv'
  OBVIOUS
<1>1. LifeInv' /\ AdaptersInv'
  BY LifeNext, AdaptersNext DEF SlotsInv
<1>2. UNCHANGED slotsVars => ServeInv'
  BY LifeServes
<1>3. Tick \/ Call \/ LaunchTask \/ DeferTask \/ Cancel \/ Round \/ UNCHANGED slotsVars
  BY DEF SlotsNext, vars
<1>4. ServeInv'
  BY <1>2, <1>3, TickServes, CallServes, LaunchServes, DeferServes, CancelServes, RoundServes
<1> QED
  BY <1>1, <1>4 DEF SlotsInv, ServeInv

\* The invariant holds at any time.
LEMMA SlotsInvariant == SlotsSpec => []SlotsInv
<1> QED
  BY ServeInit, ServeNext, PTL DEF SlotsSpec

\* Results have the form their callers rely on.
LEMMA InvImpliesTypeOK == SlotsInv => SlotsTypeOK
<1> SUFFICES ASSUME SlotsInv PROVE SlotsTypeOK
  OBVIOUS
<1>1. -1..clock \subseteq -1..MaxClock
  BY SlotsAssumption DEF SlotsInv, SlotsTyped
<1>2. t_last_used \in [1..NParallel -> -1..MaxClock]
  BY <1>1 DEF SlotsInv, SlotsTyped
<1>3. lora \in [1..NParallel -> {{}, Adapters}]
  BY DEF SlotsInv, AdaptersInv
<1>4. DOMAIN heard = DOMAIN calls /\ calls \in Seq(Calls)
  BY DEF SlotsInv, CallsTyped, HeardAnswers
<1>5. ASSUME NEW n \in DOMAIN calls, NEW k \in DOMAIN heard[n]
      PROVE  IsResultOf(heard[n][k], calls[n])
  <2>1. PICK call \in Requests : call = calls[n]
    BY <1>4, SlotsAssumption
  <2>2. PICK result \in Results : result = heard[n][k]
    <3> DEFINE S == Seq(Results)
    <3>1. heard \in Seq(S)
      BY DEF SlotsInv, HeardAnswers
    <3>2. heard[n] \in S
      <4> HIDE DEF S
      <4> QED BY <1>4, <3>1
    <3>3. PICK h \in Seq(Results) : h = heard[n]
      BY <3>2
    <3> QED BY <3>3
  <2>3. IsAnswer(result, call, mode)
    BY <2>1, <2>2 DEF SlotsInv, HeardAnswers
  <2>4. DOMAIN result = {"index", "rows", "whole"} /\ result.whole \in BOOLEAN
    BY DEF Results
  <2>5. CASE call.type = "RERANK"
    BY <2>1, <2>2, <2>3, <2>4, <2>5, RerankPrompts DEF IsAnswer, IsResultOf
  <2>6. CASE call.type = "EMBEDDING"
    <3>1. PICK prompt : PromptsOf(call) = <<prompt>> /\ prompt = TokenizeMixed(call.prompt, TRUE)
      BY <2>6, EmbeddingPrompts
    <3>2. DOMAIN <<prompt>> = {1} /\ <<prompt>>[1] = prompt
      OBVIOUS
    <3> QED BY <2>1, <2>2, <2>3, <2>4, <2>6, <3>1, <3>2 DEF IsAnswer, IsResultOf
  <2>7. call.type = "RERANK" \/ call.type = "EMBEDDING"
    BY <2>3, RequestIs DEF IsAnswer
  <2> QED BY <2>5, <2>6, <2>7
<1>6. computed \in [1..NParallel -> SUBSET {{}, Adapters}]
  BY DEF SlotsInv, AdaptersInv
<1> QED
  BY <1>2, <1>3, <1>4, <1>5, <1>6 DEF SlotsInv, CallsTyped, SlotsTyped, SlotsTypeOK

\* Slots that work have tasks, of calls that were made, and whatever arrives at a caller
\* is a result of its call: an index of its prompts or documents, with a row for it.
THEOREM SlotsTypeCorrect == SlotsSpec => []SlotsTypeOK
BY SlotsInvariant, InvImpliesTypeOK, PTL

\* No slot stays idle while a task is deferred, whichever slots are released together,
\* unless stranded tells that a release was overlooked or a task handed back for nothing.
THEOREM IdleSlotsAreServed == SlotsSpec => []DeferredIsServable
<1>1. SlotsInv => DeferredIsServable
  BY DEF SlotsInv, IdleAreServed, DeferredIsServable
<1> QED
  BY <1>1, SlotsInvariant, PTL

\* What a slot works on is what the text, the tokens or the mixture of both say that the
\* caller passed, each with special tokens around the text it begins with.
THEOREM PromptsStayWhole == SlotsSpec => []PromptsAreWhole
<1>1. SlotsInv => PromptsAreWhole
  <2> SUFFICES ASSUME SlotsInv, NEW s \in Slots,
                      task[s].type = "COMPLETION", task[s] # NoTask
               PROVE  LET json == calls[task[s].call].prompt
                      IN  IsWhole(task[s].prompt,
                                  IF IsPrompt(json) THEN json ELSE json[2][task[s].index])
    BY DEF PromptsAreWhole
  <2>1. PICK t \in Tasks(calls) : t = task[s]
    BY SlotsAre DEF SlotsInv, SlotsTyped
  <2>2. PICK call \in Requests : call = calls[t.call]
    BY TaskIs
  <2>3. /\ call.type = "COMPLETION" /\ t.index \in DOMAIN PromptsOf(call)
        /\ t.prompt = PromptsOf(call)[t.index]
    BY <2>1, <2>2, TaskIs
  <2>4. IsWhole(t.prompt, IF IsPrompt(call.prompt) THEN call.prompt
                          ELSE call.prompt[2][t.index])
    BY <2>3, CompletionPrompts
  <2> QED BY <2>1, <2>2, <2>4
<1> QED
  BY <1>1, SlotsInvariant, PTL

\* Callers have the results of what they asked for.
LEMMA InvImpliesOwn == SlotsInv => AnswersAreOwn
<1> SUFFICES ASSUME SlotsInv, NEW n \in DOMAIN calls, heard[n] # <<>>, calls[n].prompt # <<>>
             PROVE  IF calls[n].type = "RERANK"
                    THEN \A doc \in DOMAIN Ranks(n) : Ranks(n)[doc].whole =>
                            \E k \in DOMAIN calls[n].prompt :
                                /\ calls[n].prompt[k] = doc
                                /\ Ranks(n)[doc].rows = <<PromptsOf(calls[n])[k]>>
                    ELSE heard[n][1].whole /\ heard[n][1].rows # <<>> =>
                            LET prompt == TokenizeMixed(calls[n].prompt, TRUE)
                            IN  Embedded(n) = IF mode = "unpooled" THEN <<Head(prompt)>>
                                              ELSE prompt
  BY DEF AnswersAreOwn
<1>1. PICK call \in Requests : call = calls[n] /\ Offered(call)
  BY SlotsAssumption DEF SlotsInv, CallsTyped
<1>2. PICK h \in Seq(Results) : h = heard[n] /\ h # <<>>
  <2> DEFINE S == Seq(Results)
  <2>1. heard \in Seq(S) /\ n \in DOMAIN heard
    BY DEF SlotsInv, CallsTyped, HeardAnswers
  <2>2. heard[n] \in S
    <3> HIDE DEF S
    <3> QED BY <2>1
  <2> QED BY <2>2
<1>3. \A k \in DOMAIN h : IsAnswer(h[k], call, mode) /\ h[k] \in Results
  BY <1>1, <1>2 DEF SlotsInv, HeardAnswers
<1>4. PICK m \in Nat : m = Len(h) /\ m > 0 /\ DOMAIN h = 1..m
  <2>1. Len(h) # 0 /\ Len(h) \in Nat
    BY <1>2, EmptySeq
  <2> QED BY <2>1
<1>5. CASE call.type = "RERANK"
  <2> SUFFICES ASSUME NEW doc \in DOMAIN Ranks(n), Ranks(n)[doc].whole
               PROVE  \E k \in DOMAIN call.prompt :
                          /\ call.prompt[k] = doc
                          /\ Ranks(n)[doc].rows = <<PromptsOf(call)[k]>>
    BY <1>1, <1>5
  <2> DEFINE own == {k \in DOMAIN heard[n] : DocumentOf(n, k) = doc}
  <2>1. Ranks(n)[doc] = heard[n][Max(own)] /\ own # {}
    BY DEF Ranks
  <2>2. own \subseteq 1..m
    BY <1>2, <1>4
  <2>3. Max(own) \in own
    <3> HIDE DEF own
    <3>1. own \in SUBSET Nat /\ \A y \in own : y <= m
      BY <2>2
    <3> QED BY <2>1, <3>1, MaxIs
  <2>4. PICK k \in 1..m : k = Max(own) /\ DocumentOf(n, k) = doc
    BY <2>2, <2>3
  <2>5. PICK result \in Results : result = h[k] /\ IsAnswer(result, call, mode)
    BY <1>3, <1>4
  <2>6. Ranks(n)[doc] = result /\ result.whole
    BY <1>2, <2>1, <2>4, <2>5
  <2>7. call.prompt[result.index] = doc
    BY <1>1, <1>2, <2>4, <2>5 DEF DocumentOf
  <2>8. mode # "unpooled"
    BY <1>1, <1>5 DEF Offered
  <2>9. /\ result.index \in DOMAIN PromptsOf(call) /\ Len(result.rows) = 1
        /\ Head(result.rows) = PromptsOf(call)[result.index]
    <3>1. result.rows # <<>>
      BY <1>5, <2>5 DEF IsAnswer
    <3> QED BY <1>5, <2>5, <2>6, <2>8, <3>1 DEF IsAnswer
  <2>10. call.prompt # <<>>
    BY <1>1
  <2>11. result.index \in DOMAIN call.prompt
    BY <1>5, <2>9, <2>10, RerankPrompts
  <2>12. result.rows = <<Head(result.rows)>>
    <3>1. PICK rows \in Seq(Seq(Tokens)) : rows = result.rows /\ Len(rows) = 1
      BY <2>9 DEF Results
    <3> DEFINE S == Seq(Tokens)
    <3>2. rows \in Seq(S) /\ Len(rows) = 1
      BY <3>1
    <3> HIDE DEF S
    <3>3. rows = [i \in 1..1 |-> rows[i]] /\ Head(rows) = rows[1]
      BY <3>2
    <3>4. [i \in 1..1 |-> rows[i]] = [i \in 1..1 |-> rows[1]]
      OBVIOUS
    <3> QED BY <3>1, <3>3, <3>4, OneElement
  <2> QED BY <2>6, <2>7, <2>9, <2>11, <2>12
<1>6. CASE call.type # "RERANK"
  <2> SUFFICES ASSUME h[1].whole, h[1].rows # <<>>
               PROVE  Head(h[1].rows) =
                         IF mode = "unpooled" THEN <<Head(TokenizeMixed(call.prompt, TRUE))>>
                         ELSE TokenizeMixed(call.prompt, TRUE)
    BY <1>1, <1>2, <1>6 DEF Embedded
  <2>1. IsAnswer(h[1], call, mode)
    BY <1>3, <1>4
  <2>2. call.type = "EMBEDDING"
    BY <1>6, <2>1, RequestIs DEF IsAnswer
  <2>3. PICK prompt : prompt = TokenizeMixed(call.prompt, TRUE) /\ PromptsOf(call) = <<prompt>>
    BY <2>2, EmbeddingPrompts
  <2>4. \A k \in DOMAIN <<prompt>> : <<prompt>>[k] = prompt
    OBVIOUS
  <2>5. PromptsOf(call)[h[1].index] = prompt
    BY <2>1, <2>3, <2>4 DEF IsAnswer
  <2> QED BY <2>1, <2>3, <2>5 DEF IsAnswer
<1> QED
  BY <1>5, <1>6

\* Every document is ranked by the row that was computed from the prompt made of it, and
\* an embedding is that of its text: whatever else is in the batch, however it is cut into
\* views, and in whatever order tasks were deferred, launched and answered.
THEOREM AnswersStayOwn == SlotsSpec => []AnswersAreOwn
BY SlotsInvariant, InvImpliesOwn, PTL

\* A task gets a slot that is idle: the one that shares most of its prompt, if any shares
\* enough, or else the one that was idle for longest.
THEOREM SlotsAreBest == SlotsSpec => ChoosesBest
<1> DEFINE Best == \A s \in Slots : task'[s] # task[s] => s \in BestSlots(task'[s])
<1>1. SlotsInv /\ [SlotsNext]_vars => [Best]_choiceVars
  <2> SUFFICES ASSUME SlotsInv, [SlotsNext]_vars, ~(UNCHANGED choiceVars),
                      NEW s \in Slots, task'[s] # task[s]
               PROVE  s \in BestSlots(task'[s])
    OBVIOUS
  <2>1. LaunchTask
    BY DEF SlotsNext, vars, slotsVars, choiceVars, Tick, Call, DeferTask, Cancel, Round
  <2>2. PICK t : t = Head(queue)
    OBVIOUS
  <2>3. /\ queue # <<>> /\ GetAvailableSlot(t) # 0
        /\ task' = [task EXCEPT ![GetAvailableSlot(t)] = t]
    BY <2>1, <2>2 DEF LaunchTask, Launch
  <2>4. s = GetAvailableSlot(t) /\ task'[s] = t
    BY <2>3, SlotsAre DEF SlotsInv, SlotsTyped
  <2>5. Comparable(t)
    BY <2>2, <2>3, HeadIs
  <2> QED BY <2>3, <2>4, <2>5, GetsBest
<1> QED
  BY <1>1, SlotsInvariant, PTL DEF SlotsSpec, ChoosesBest
=============================================================================
