------------------------- MODULE RequestParamsProofs -------------------------
(***************************************************************************)
(* The parameters of a request, whatever callers put, in any number and    *)
(* order: what is accepted is fit for the sampler, and the limits of both  *)
(* sides hold to the end of the generation, for every draft.               *)
(***************************************************************************)
EXTENDS RequestParams, TLAPS

IntKeys  == {"n_predict", "max_tokens", "repeat_last_n", "dry_penalty_last_n",
             "n_probs", "logprobs", "speculative.n_min", "speculative.n_max"}
BoolKeys == {"ignore_eos", "grammar_lazy", "cache_prompt"}

\* A map whose values were put by callers.
FromInputs(data) ==
    \A key \in DOMAIN data : \E input \in Inputs : input[1] = key /\ input[2] = data[key]

LEMMA NumbersAreNumbers ==
  ASSUME NEW data, FromInputs(data), NEW key \in IntKeys, NEW default \in Int
  PROVE  JsonValue(data, key, default) \in Int
BY InputsAssumption DEF JsonValue, FromInputs, IntKeys

LEMMA BooleansAreBooleans ==
  ASSUME NEW data, FromInputs(data), NEW key \in BoolKeys
  PROVE  JsonValue(data, key, FALSE) \in BOOLEAN
<1>1. CASE key \in DOMAIN data /\ data[key][1] = "value"
  <2>1. PICK input \in Inputs : input[1] = key /\ input[2] = data[key]
    BY <1>1 DEF FromInputs
  <2>2. input[2][2] \in BOOLEAN
    BY <1>1, <2>1, InputsAssumption DEF BoolKeys
  <2> QED BY <1>1, <2>1, <2>2, Zenon DEF JsonValue
<1>2. CASE ~(key \in DOMAIN data /\ data[key][1] = "value")
  BY <1>2, Zenon DEF JsonValue
<1> QED BY <1>1, <1>2

\* What the sampler and the draft model need of p.
Sane(p) ==
    /\ p.last_n >= 0 /\ p.dry_last_n >= 0
    /\ 0 <= p.n_min /\ p.n_min <= p.n_max
    /\ p.lazy => p.triggers # <<>>
    /\ \A e \in p.logit_bias : e[1] \in Vocab
    /\ p.lora \subseteq 0..(NLora - 1)

\* The words of data that trigger as tokens are preserved.
Guarded(data, p) ==
    \A k \in DOMAIN AskedTriggers(data) :
        IsOneToken(AskedTriggers(data)[k]) =>
            TokenOf[AskedTriggers(data)[k].value] \in p.preserved

\* params_from_json_cmpl leaves nothing to the sampler that it cannot use.
LEMMA ParsedIsSane ==
  ASSUME NEW data, FromInputs(data), ~IsRefused(data)
  PROVE  /\ Sane(SlotParams(data)) /\ Guarded(data, SlotParams(data))
         /\ SlotParams(data).n_predict \in Int /\ SlotParams(data).n_max \in Int
         /\ SlotParams(data).n_min \in Int
<1> DEFINE p == SlotParams(data)
<1>1. /\ p.n_predict = AskedFor(data) /\ p.n_min = NMin(data) /\ p.n_max = NMax(data)
      /\ p.last_n = Window(data, "repeat_last_n", 64)
      /\ p.dry_last_n = Window(data, "dry_penalty_last_n", -1)
      /\ p.lazy = GrammarLazy(data)
      /\ p.preserved = Preserved(data) /\ p.triggers = Triggers(data)
      /\ p.logit_bias = LogitBias(data) /\ p.lora = Lora(data)
  BY DEF SlotParams
<1> HIDE DEF p
<1>2. /\ JsonValue(data, "repeat_last_n", 64) \in Int
      /\ JsonValue(data, "dry_penalty_last_n", -1) \in Int
      /\ JsonValue(data, "speculative.n_max", 16) \in Int
      /\ JsonValue(data, "speculative.n_min", 5) \in Int
      /\ AskedFor(data) \in Int
  BY NumbersAreNumbers DEF IntKeys, AskedFor
<1>3. p.last_n >= 0 /\ p.dry_last_n >= 0
  <2>1. ~(JsonValue(data, "repeat_last_n", 64) < -1)
        /\ ~(JsonValue(data, "dry_penalty_last_n", -1) < -1)
    BY DEF IsRefused
  <2> QED BY <1>1, <1>2, <2>1, ParamsAssumption DEF Window
<1>4. /\ p.n_min \in Int /\ p.n_max \in Int
      /\ 0 <= p.n_min /\ p.n_min <= p.n_max
  BY <1>1, <1>2 DEF NMin, NMax, Larger, Smaller
<1>5. p.lazy => p.triggers # <<>>
  BY <1>1 DEF IsRefused
<1>6. Guarded(data, p)
  BY <1>1 DEF IsRefused, Guarded
<1>7. \A e \in p.logit_bias : e[1] \in Vocab
  BY <1>1 DEF LogitBias
<1>8. p.lora \subseteq 0..(NLora - 1)
  <2>1. CASE "lora" \in DOMAIN data
    BY <1>1, <2>1 DEF IsRefused
  <2>2. CASE "lora" \notin DOMAIN data
    BY <1>1, <2>2 DEF Lora
  <2> QED BY <2>1, <2>2
<1> QED BY <1>1, <1>2, <1>3, <1>4, <1>5, <1>6, <1>7, <1>8 DEF Sane, p

LEMMA AdaptedParams ==
  ASSUME NEW data, FromInputs(data), ~IsRefused(data), n_predict \in Int
  PROVE  LET p == Adapted(SlotParams(data)) IN
         /\ Sane(p) /\ Guarded(data, p) /\ p.n_max \in Int /\ p.n_min \in Int
         /\ p.n_predict = IF n_predict > 0 /\ AskedFor(data) > n_predict
                          THEN n_predict ELSE AskedFor(data)
         /\ JsonValue(data, "ignore_eos", FALSE) /\ EOS # NoToken =>
                <<EOS, "false">> \in p.logit_bias

<1> DEFINE q == SlotParams(data)
           p == Adapted(q)
<1>1. Sane(q) /\ Guarded(data, q) /\ q.n_max \in Int /\ q.n_min \in Int /\ q.n_predict = AskedFor(data)
      /\ q.ignore_eos = JsonValue(data, "ignore_eos", FALSE)
  BY ParsedIsSane DEF SlotParams
<1>2. DOMAIN q = {"n_predict", "n_min", "n_max", "n_probs", "last_n", "dry_last_n", "cache",
                  "lazy", "preserved", "triggers", "logit_bias", "ignore_eos", "lora"}
  BY DEF SlotParams
<1> HIDE DEF q
<1>3. /\ p.last_n = q.last_n /\ p.dry_last_n = q.dry_last_n /\ p.n_min = q.n_min /\ p.n_max = q.n_max /\ p.lazy = q.lazy
      /\ p.triggers = q.triggers /\ p.preserved = q.preserved /\ p.lora = q.lora
  BY <1>2 DEF Adapted
<1>4. p.n_predict = IF n_predict > 0 /\ q.n_predict > n_predict THEN n_predict ELSE q.n_predict
  BY <1>2 DEF Adapted
<1>5. p.logit_bias = IF q.ignore_eos /\ EOS # NoToken
                     THEN q.logit_bias \cup {<<EOS, "false">>} ELSE q.logit_bias
  BY <1>2 DEF Adapted
<1> HIDE DEF p
<1>6. \A e \in p.logit_bias : e[1] \in Vocab
  <2>1. EOS # NoToken => <<EOS, "false">>[1] \in Vocab
    BY ParamsAssumption
  <2> QED BY <1>1, <1>5, <2>1 DEF Sane
<1>7. Sane(p) /\ Guarded(data, p)
  BY <1>1, <1>3, <1>6 DEF Sane, Guarded
<1> QED BY <1>1, <1>3, <1>4, <1>5, <1>7 DEF q, p

\* The limit of the generation, and what it has used of it.
Limit == IF params.n_predict # -1 THEN params.n_predict ELSE n_predict

\* What the rules of process_token left after n tokens.
GoesOn(n) ==
    /\ Limitless \/ n < Limit
    /\ params.n_predict < 1 /\ n_predict < 1 => n_prompt + n < NTrain

ParamsInv ==
    /\ n_predict \in Int /\ FromInputs(parameters)
    /\ n_prompt \in Nat /\ n_decoded \in Nat
    /\ processed \in Nat /\ processed <= n_decoded
    /\ phase \in {"building", "refused", "terminated", "generating", "drafting", "stopped"}
    /\ phase \notin {"generating", "drafting", "stopped"} =>
           n_decoded = 0 /\ processed = 0 /\ stop = "NONE"
    /\ Accepted =>
           /\ ~IsRefused(parameters) /\ params = Adapted(SlotParams(parameters))
           /\ n_decoded = 0 \/ Limitless \/ n_decoded <= Larger(Limit, 1)
           /\ params.n_predict < 1 /\ n_predict < 1 =>
                  n_prompt + processed <= NTrain \/ processed <= 1
           /\ stop = "EOS" => sampled \in Sampleable
    /\ phase \in {"generating", "drafting"} => n_decoded = 0 \/ GoesOn(n_decoded)
    /\ phase = "drafting" => n_decoded # 0

LEMMA InitParamsInv == Init => ParamsInv
<1> SUFFICES ASSUME Init PROVE ParamsInv
  OBVIOUS
<1>1. n_predict \in Int /\ n_prompt = 0 /\ n_decoded = 0 /\ processed = 0 /\ stop = "NONE" /\ phase = "building"
  BY ParamsAssumption DEF Init
<1>2. FromInputs(parameters)
  BY DEF Init, FromInputs
<1> QED BY <1>1, <1>2 DEF ParamsInv, Accepted

\* StopAfter lets a generation go on only within its limits.
LEMMA StopsInTime ==
  ASSUME ParamsInv, NEW n \in Nat, NEW t, params.n_predict \in Int,
         StopAfter(t, n) = "NONE"
  PROVE  GoesOn(n)
<1>1. n_prompt \in Nat /\ NTrain \in Nat /\ n_predict \in Int
  BY ParamsAssumption DEF ParamsInv
<1>2. ~AtTrainingLimit(n) /\ HasBudget(n)
  BY DEF StopAfter
<1> QED BY <1>1, <1>2 DEF AtTrainingLimit, HasBudget, Remaining, GoesOn, Limit

\* A token or an accepted draft counts.
LEMMA Counted ==
  ASSUME ParamsInv, Accepted, phase # "stopped", UNCHANGED <<n_predict, parameters, params, n_prompt>>,
         params.n_predict \in Int,
         NEW n \in Nat \ {0}, NEW k \in 1..n,
         n_decoded' = n_decoded + n, processed' = processed + k,
         n = 1 \/ (n_decoded # 0 /\ (Limitless \/ n_decoded + n <= Limit)),
         sampled' \in Sampleable, stop' = StopAfter(sampled', n_decoded'),
         k > 1 => \E t \in Sampleable : StopAfter(t, n_decoded') = "NONE",
         phase' = "stopped" \/ (phase' \in {"generating", "drafting"} /\ stop' = "NONE")
  PROVE  ParamsInv'
<1>1. /\ n_prompt \in Nat /\ NTrain \in Nat /\ n_predict \in Int
      /\ n_decoded \in Nat /\ processed \in Nat /\ processed <= n_decoded
      /\ ~IsRefused(parameters) /\ params = Adapted(SlotParams(parameters))
      /\ n_decoded = 0 \/ GoesOn(n_decoded)
      /\ FromInputs(parameters)
  BY ParamsAssumption DEF ParamsInv, Accepted
<1>2. n_decoded' \in Nat /\ processed' \in Nat /\ processed' <= n_decoded' /\ n_decoded' # 0
  BY <1>1
<1>3. Limit \in Int /\ Limit' = Limit /\ (Limitless' <=> Limitless) /\ Sampleable' = Sampleable
  BY <1>1 DEF Limit, Limitless, Sampleable
<1>4. Limitless' \/ n_decoded' <= Larger(Limit, 1)'
  BY <1>1, <1>3 DEF Larger, GoesOn
<1>5. k > 1 => GoesOn(n_decoded')
  BY <1>2, StopsInTime
<1>6. stop' = "NONE" => GoesOn(n_decoded')
  BY <1>2, StopsInTime
<1>7. GoesOn(n_decoded') <=> GoesOn(n_decoded)'
  BY <1>3 DEF GoesOn
<1>8. params.n_predict < 1 /\ n_predict < 1 =>
         n_prompt + processed' <= NTrain \/ processed' <= 1
  <2>1. CASE k > 1
    BY <1>1, <1>2, <1>5, <2>1 DEF GoesOn
  <2>2. CASE k = 1
    BY <1>1, <2>2 DEF GoesOn
  <2> QED BY <2>1, <2>2
<1>9. stop' = "EOS" => sampled' \in Sampleable'
  BY <1>3
<1>10. FromInputs(parameters)' /\ ~IsRefused(parameters)' /\ params' = Adapted(SlotParams(parameters))'
  BY <1>1 DEF FromInputs, Adapted
<1>11. phase' \in {"generating", "drafting", "stopped"}
       /\ (phase' \in {"generating", "drafting"} => stop' = "NONE")
  OBVIOUS
<1> HIDE DEF Accepted
<1>12. Accepted' => /\ ~IsRefused(parameters)' /\ params' = Adapted(SlotParams(parameters))'
                    /\ n_decoded' = 0 \/ Limitless' \/ n_decoded' <= Larger(Limit, 1)'
                    /\ params'.n_predict < 1 /\ n_predict' < 1 =>
                           n_prompt' + processed' <= NTrain \/ processed' <= 1
                    /\ stop' = "EOS" => sampled' \in Sampleable'
  BY <1>3, <1>4, <1>8, <1>9, <1>10
<1>13. phase' \in {"generating", "drafting"} => n_decoded' = 0 \/ GoesOn(n_decoded)'
  BY <1>6, <1>7, <1>11
<1> QED BY <1>1, <1>2, <1>10, <1>11, <1>12, <1>13 DEF ParamsInv


LEMMA NextParamsInv == ParamsInv /\ [Next]_paramVars => ParamsInv'
<1> SUFFICES ASSUME ParamsInv, [Next]_paramVars PROVE ParamsInv'
  OBVIOUS
<1>1. /\ n_predict \in Int /\ FromInputs(parameters)
      /\ n_prompt \in Nat /\ NTrain \in Nat /\ NCtx \in Nat /\ NPrompts \subseteq Nat
  BY ParamsAssumption DEF ParamsInv
<1>2. AskedFor(parameters) \in Int
  BY <1>1, NumbersAreNumbers DEF AskedFor, IntKeys
<1>3. Accepted => params.n_predict \in Int /\ params.n_max \in Int /\ params.n_min \in Int
  BY <1>1, <1>2, AdaptedParams DEF ParamsInv
<1>4. CASE UNCHANGED paramVars
  BY <1>4 DEF paramVars, slotVars, ParamsInv, Accepted, FromInputs, Adapted, Limit, Limitless, GoesOn, Sampleable
<1>5. CASE Set
  <2>1. FromInputs(parameters)'
    <3>1. PICK input \in Inputs : parameters' = IF SetsNothing(input[1], input[2]) THEN parameters
                                                ELSE Put(parameters, input[1], input[2])
      BY <1>5 DEF Set
    <3>2. CASE parameters' = parameters
      BY <1>1, <3>2 DEF FromInputs
    <3>3. CASE parameters' = Put(parameters, input[1], input[2])
      BY <1>1, <3>3 DEF FromInputs, Put
    <3> QED BY <3>1, <3>2, <3>3
  <2> QED BY <1>1, <1>5, <2>1 DEF Set, slotVars, ParamsInv, Accepted
<1>6. CASE Terminate \/ Refuse
  BY <1>6 DEF Terminate, Refuse, slotVars, ParamsInv, Accepted, FromInputs
<1>7. CASE Accept
  <2>1. /\ phase' = "generating" /\ params' = Adapted(SlotParams(parameters))
        /\ ~IsRefused(parameters) /\ parameters' = parameters /\ n_predict' = n_predict
        /\ n_decoded' = 0 /\ processed' = 0 /\ stop' = "NONE" /\ n_prompt' \in Nat
    BY <1>1, <1>7 DEF Accept, ParamsInv
  <2>2. FromInputs(parameters)' /\ ~IsRefused(parameters)' /\ params' = Adapted(SlotParams(parameters))'
    BY <1>1, <2>1 DEF FromInputs, Adapted
  <2>3. Accepted' => /\ ~IsRefused(parameters)' /\ params' = Adapted(SlotParams(parameters))'
                     /\ n_decoded' = 0 \/ Limitless' \/ n_decoded' <= Larger(Limit, 1)'
                     /\ params'.n_predict < 1 /\ n_predict' < 1 =>
                            n_prompt' + processed' <= NTrain \/ processed' <= 1
                     /\ stop' = "EOS" => sampled' \in Sampleable'
    BY <1>1, <2>1, <2>2
  <2> QED BY <1>1, <2>1, <2>2, <2>3 DEF ParamsInv
<1>8. CASE Generate
  <2>1. sampled' \in Sampleable /\ stop' = StopAfter(sampled', n_decoded')
    BY <1>8 DEF Generate
  <2>2. /\ phase = "generating" /\ n_decoded' = n_decoded + 1 /\ processed' = processed + 1
        /\ UNCHANGED <<n_predict, parameters, params, n_prompt>>
        /\ phase' = "stopped" \/ (phase' \in {"generating", "drafting"} /\ stop' = "NONE")
    BY <1>8 DEF Generate
  <2>3. Accepted /\ phase # "stopped" /\ params.n_predict \in Int
    BY <1>3, <2>2 DEF Accepted
  <2>4. 1 \in Nat \ {0} /\ 1 \in 1..1 /\ ~(1 > 1)
    OBVIOUS
  <2> HIDE <1>3
  <2> QED BY <2>1, <2>2, <2>3, <2>4, Counted, Zenon
<1>9. CASE NoDraft
  BY <1>9 DEF NoDraft, slotVars, ParamsInv, Accepted, FromInputs, Adapted, Limit, Limitless, GoesOn, Sampleable
<1>10. CASE Speculate
  <2>1. PICK n \in 1..(DraftMax + 1) : \E k \in 1..n :
           /\ n_decoded' = n_decoded + n /\ processed' = processed + k
           /\ sampled' \in Sampleable
           /\ stop' = StopAfter(sampled', n_decoded')
           /\ k > 1 => \E t \in Sampleable : StopAfter(t, n_decoded') = "NONE"
           /\ k < n => stop' # "NONE"
    BY <1>10 DEF Speculate
  <2>2. PICK k \in 1..n :
           /\ n_decoded' = n_decoded + n /\ processed' = processed + k
           /\ sampled' \in Sampleable
           /\ stop' = StopAfter(sampled', n_decoded')
           /\ k > 1 => \E t \in Sampleable : StopAfter(t, n_decoded') = "NONE"
    BY <2>1
  <2>3. /\ phase = "drafting" /\ UNCHANGED <<n_predict, parameters, params, n_prompt>>
        /\ phase' = "stopped" \/ (phase' \in {"generating", "drafting"} /\ stop' = "NONE")
    BY <1>10 DEF Speculate
  <2>4. n_decoded \in Nat /\ n_decoded # 0 /\ GoesOn(n_decoded)
    BY <2>3 DEF ParamsInv
  <2>5. params.n_predict \in Int /\ params.n_max \in Int
    BY <1>3, <2>3 DEF Accepted
  <2>6. DraftMax \in Int /\ n \in Nat \ {0} /\ n <= DraftMax + 1
    BY <1>1, <2>1, <2>4, <2>5 DEF DraftMax, Smaller, Remaining
  <2>7. Limitless \/ n_decoded + n <= Limit
    <3>1. SUFFICES ASSUME ~Limitless PROVE n_decoded + n <= Limit
      OBVIOUS
    <3>2. Limit \in Int /\ Remaining(n_decoded) = Limit - n_decoded /\ Remaining(n_decoded) > 0
      BY <1>1, <2>4, <2>5, <3>1 DEF Limit, Remaining, GoesOn
    <3>3. DraftMax <= Remaining(n_decoded) - 1
      <4>1. Remaining(n_decoded) \in Int
        BY <2>4, <3>2
      <4> QED BY <1>1, <2>5, <3>1, <3>2, <4>1 DEF DraftMax, Smaller
    <3> QED BY <2>4, <2>6, <3>2, <3>3
  <2> QED BY <2>2, <2>3, <2>4, <2>5, <2>6, <2>7, Counted DEF Accepted
<1> QED BY <1>4, <1>5, <1>6, <1>7, <1>8, <1>9, <1>10 DEF Next

-----------------------------------------------------------------------------
\* Whatever JSON a request came with, what was accepted of it is fit for the sampler
\* and the draft model.
THEOREM AcceptedParamsAreSane == Spec => []AcceptedIsSane
<1>1. ParamsInv => AcceptedIsSane
  BY AdaptedParams DEF ParamsInv, AcceptedIsSane, Sane, Guarded
<1> QED BY <1>1, InitParamsInv, NextParamsInv, PTL DEF Spec

\* No generation exceeds what its request or its server allows, for every number of
\* tokens that a draft adds at once, and none ends by an EOS it was to ignore.
THEOREM GenerationsStayInLimits == Spec => []LimitsHold
<1>1. ParamsInv => LimitsHold
  <2> SUFFICES ASSUME ParamsInv, Accepted
               PROVE  /\ \A n \in {AskedFor(parameters), n_predict} : n >= 1 => n_decoded <= n
                      /\ AskedFor(parameters) < 1 /\ n_predict < 1 =>
                             n_prompt + processed <= NTrain \/ processed <= 1
                      /\ stop = "EOS" /\ JsonValue(parameters, "ignore_eos", FALSE) =>
                             sampled # EOS
    BY DEF LimitsHold
  <2>1. /\ n_predict \in Int /\ FromInputs(parameters) /\ ~IsRefused(parameters)
        /\ params = Adapted(SlotParams(parameters)) /\ n_decoded \in Nat
        /\ n_decoded = 0 \/ Limitless \/ n_decoded <= Larger(Limit, 1)
        /\ params.n_predict < 1 /\ n_predict < 1 =>
               n_prompt + processed <= NTrain \/ processed <= 1
        /\ stop = "EOS" => sampled \in Sampleable
    BY DEF ParamsInv
  <2>2. AskedFor(parameters) \in Int
    BY <2>1, NumbersAreNumbers DEF AskedFor, IntKeys
  <2>3. /\ params.n_predict = IF n_predict > 0 /\ AskedFor(parameters) > n_predict
                              THEN n_predict ELSE AskedFor(parameters)
        /\ JsonValue(parameters, "ignore_eos", FALSE) /\ EOS # NoToken =>
               <<EOS, "false">> \in params.logit_bias
    BY <2>1, AdaptedParams
  <2>4. \A n \in {AskedFor(parameters), n_predict} : n >= 1 => n_decoded <= n
    BY <2>1, <2>2, <2>3 DEF Limitless, Limit, Larger
  <2>5. AskedFor(parameters) < 1 /\ n_predict < 1 =>
           n_prompt + processed <= NTrain \/ processed <= 1
    BY <2>1, <2>2, <2>3
  <2>6. stop = "EOS" /\ JsonValue(parameters, "ignore_eos", FALSE) => sampled # EOS
    <3>1. NoToken \notin Vocab
      BY ParamsAssumption DEF NoToken, Vocab
    <3> QED BY <2>1, <2>3, <3>1 DEF Sampleable
  <2> QED BY <2>4, <2>5, <2>6
<1> QED BY <1>1, InitParamsInv, NextParamsInv, PTL DEF Spec
=============================================================================
