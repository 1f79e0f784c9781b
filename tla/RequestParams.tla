---------------------------- MODULE RequestParams ----------------------------
(***************************************************************************)
(* The parameters of a request: the setters of InferenceParameters fill a  *)
(* map of JSON values, requestCompletion parses it, params_from_json_cmpl  *)
(* turns it into slot_params, launch_slot_with_task adapts these to the    *)
(* slot, and process_token lets them limit the generation, as update_slots *)
(* lets them limit the drafts of a draft model.                            *)
(*                                                                         *)
(* A JSON value is <<"value", v>>, <<"null">>, <<"wrong">> (of another     *)
(* type than is asked for, or a schema that has no grammar), <<"elements">> *)
(* (an array with elements of another type) or <<"malformed">>. Words are  *)
(* names; those that are one token have it in TokenOf. Parameters that are *)
(* only handed to the sampler, biases of words instead of tokens, what     *)
(* stop words do (TextStream) and the time limits are left out.            *)
(***************************************************************************)
EXTENDS Integers, Sequences, FiniteSets, SequencesExt

CONSTANTS
    Inputs,         \* pairs of a key and a JSON value that callers put
    MaxInputs,      \* bound: calls of setters
    NCtx,           \* llama_n_ctx
    NTrain,         \* llama_model_n_ctx_train
    NVocab,         \* tokens of the vocabulary
    EOG,            \* its tokens that end a generation, llama_vocab_is_eog
    EOS,            \* llama_vocab_eos, or NoToken
    TokenOf,        \* the token of each word that is one
    NLora,          \* adapters the model was loaded with
    NPredicts,      \* what params_base.n_predict may be
    NPrompts,       \* how many tokens prompts have
    HasDraft        \* the model has a draft model

NoToken == -1       \* LLAMA_TOKEN_NULL
Vocab == 0..(NVocab - 1)

\* A prompt is cut until it leaves room in the context. Neither the context nor the
\* prompt needs to stay in what the model was trained for.
ASSUME ParamsAssumption ==
    /\ {MaxInputs, NCtx, NTrain, NVocab, NLora} \subseteq Nat
    /\ EOS \in Vocab \cup {NoToken}
    /\ NPredicts \subseteq Int /\ NPrompts \subseteq 1..(NCtx - 1)
    /\ HasDraft \in BOOLEAN

\* A value of another type than is asked for is <<"wrong">>.
ASSUME InputsAssumption ==
    \A input \in Inputs : input[2][1] = "value" =>
        /\ input[1] \in {"n_predict", "max_tokens", "repeat_last_n", "dry_penalty_last_n",
                        "n_probs", "logprobs", "speculative.n_min",
                        "speculative.n_max"} => input[2][2] \in Int
        /\ input[1] \in {"ignore_eos", "grammar_lazy", "cache_prompt"} =>
               input[2][2] \in BOOLEAN

VARIABLES
    n_predict,      \* params_base.n_predict, the limit of the server
    parameters,     \* JsonParameters.parameters
    calls,          \* calls of setters so far
    phase,          \* "building", "refused", "terminated", "generating", "drafting"
                    \* (a token was sampled in this round), "stopped"
    params,         \* slot_params
    n_prompt,       \* slot.n_prompt_tokens
    n_decoded,
    processed,      \* the tokens that process_token was given
    sampled,        \* the token process_token was given last
    stop            \* slot.stop

slotVars  == <<n_prompt, n_decoded, processed, sampled, stop>>
paramVars == <<n_predict, parameters, calls, phase, params, slotVars>>

-----------------------------------------------------------------------------
(* params_from_json_cmpl.                                                   *)

JsonValue(data, key, default) ==
    IF key \in DOMAIN data /\ data[key][1] = "value" THEN data[key][2] ELSE default

IsArray(data, key) == key \in DOMAIN data /\ data[key][1] = "value"

Larger(m, n)  == IF m > n THEN m ELSE n
Smaller(m, n) == IF m < n THEN m ELSE n

\* The window of the penalties, or of DRY: -1 is the context.
Window(data, key, default) ==
    LET n == JsonValue(data, key, default) IN IF n = -1 THEN NCtx ELSE n

NMax(data) == Larger(JsonValue(data, "speculative.n_max", 16), 0)

\* Mutant: the minimum is not cut to the maximum.
NMinUncut(data) == Larger(JsonValue(data, "speculative.n_min", 5), 0)

NMin(data) ==
    Larger(Smaller(JsonValue(data, "speculative.n_max", 16),
                   JsonValue(data, "speculative.n_min", 5)), 0)

NProbs(data) ==
    LET n == JsonValue(data, "n_probs", 0) IN
    IF "logprobs" \in DOMAIN data /\ n = 0 THEN JsonValue(data, "logprobs", 0) ELSE n

FromSchema(data) == "json_schema" \in DOMAIN data /\ "grammar" \notin DOMAIN data

GrammarLazy(data) == ~FromSchema(data) /\ JsonValue(data, "grammar_lazy", FALSE)

\* The tokens of the words that are one; the others are ignored.
Preserved(data) ==
    {TokenOf[w] : w \in ToSet(JsonValue(data, "preserved_tokens", <<>>)) \cap DOMAIN TokenOf}

AskedTriggers(data) == JsonValue(data, "grammar_triggers", <<>>)

\* A trigger whose word is one token becomes one of type TOKEN, whose token is not
\* set: the number is assigned to the string of its value, where it is a char. Every
\* other trigger, of whatever type, is kept as it came.
IsOneToken(trigger) == trigger.type = "WORD" /\ trigger.value \in DOMAIN TokenOf
AsToken(trigger) ==
    [type |-> "TOKEN", value |-> <<"char", TokenOf[trigger.value] % 256>>, token |-> NoToken]
Kept(trigger) ==
    [type |-> trigger.type, value |-> <<"string", trigger.value>>, token |-> trigger.token]

Triggers(data) ==
    [k \in DOMAIN AskedTriggers(data) |->
        LET t == AskedTriggers(data)[k] IN IF IsOneToken(t) THEN AsToken(t) ELSE Kept(t)]

\* Pairs of a token and "number", "false" (never) or "true", which is skipped. The
\* sampler adds them up in any order.
LogitBias(data) ==
    {e \in ToSet(JsonValue(data, "logit_bias", <<>>)) :
        e[1] \in Vocab /\ e[2] # "true"}

\* parse_lora_request: the adapters that keep a scale.
Lora(data) ==
    IF "lora" \notin DOMAIN data THEN 0..(NLora - 1)
    ELSE ToSet(JsonValue(data, "lora", <<>>))

\* A value that is there is not what its conversion, outside of json_value, takes: of
\* chat_format null is none either, of the lists null is an empty one, and a stop or
\* samplers that is no list is ignored.
IsUnusable(data, key) ==
    key \in DOMAIN data /\
        CASE key = "chat_format" -> data[key][1] # "value"
          [] key = "json_schema" -> "grammar" \notin DOMAIN data /\ data[key][1] = "wrong"
          [] key \in {"preserved_tokens", "grammar_triggers"} ->
                 data[key][1] \in {"wrong", "elements"}
          [] OTHER -> data[key][1] = "elements"

Converted == {"chat_format", "json_schema", "preserved_tokens", "grammar_triggers",
              "stop", "samplers"}

IsRefused(data) ==
    \/ JsonValue(data, "repeat_last_n", 64) < -1
    \/ JsonValue(data, "dry_penalty_last_n", -1) < -1
    \/ "lora" \in DOMAIN data
          /\ ~(IsArray(data, "lora") /\ Lora(data) \subseteq 0..(NLora - 1))
    \/ "dry_sequence_breakers" \in DOMAIN data
          /\ JsonValue(data, "dry_sequence_breakers", <<>>) = <<>>
    \/ \E key \in Converted : IsUnusable(data, key)
    \/ \E k \in DOMAIN AskedTriggers(data) :
          LET t == AskedTriggers(data)[k]
          IN  IsOneToken(t) /\ TokenOf[t.value] \notin Preserved(data)
    \/ GrammarLazy(data) /\ Triggers(data) = <<>>

\* How many tokens the request asks for, -1 for any number.
AskedFor(data) == JsonValue(data, "n_predict", JsonValue(data, "max_tokens", -1))

SlotParams(data) ==
    [n_predict  |-> AskedFor(data),
     n_min      |-> NMin(data),
     n_max      |-> NMax(data),
     n_probs    |-> NProbs(data),
     last_n     |-> Window(data, "repeat_last_n", 64),
     dry_last_n |-> Window(data, "dry_penalty_last_n", -1),
     cache      |-> JsonValue(data, "cache_prompt", TRUE),
     lazy       |-> GrammarLazy(data),
     preserved  |-> Preserved(data),
     triggers   |-> Triggers(data),
     logit_bias |-> LogitBias(data),
     ignore_eos |-> JsonValue(data, "ignore_eos", FALSE),
     lora       |-> Lora(data)]

NoParams == SlotParams(<<>>)

-----------------------------------------------------------------------------
(* The setters and the request.                                             *)

Init ==
    /\ n_predict \in NPredicts
    /\ parameters = <<>> /\ calls = 0
    /\ phase = "building" /\ params = NoParams
    /\ n_prompt = 0 /\ n_decoded = 0 /\ processed = 0 /\ sampled = NoToken /\ stop = "NONE"

Put(map, key, value) == [k \in DOMAIN map \cup {key} |->
                            IF k = key THEN value ELSE map[k]]

\* Those that take a collection do nothing for an empty one.
SetsNothing(key, value) ==
    key \in {"logit_bias", "stop", "samplers"} /\ value = <<"value", <<>>>>

Set ==
    /\ phase = "building" /\ calls < MaxInputs
    /\ \E input \in Inputs :
        /\ parameters' = IF SetsNothing(input[1], input[2]) THEN parameters
                         ELSE Put(parameters, input[1], input[2])
    /\ calls' = calls + 1
    /\ UNCHANGED <<n_predict, phase, params, slotVars>>

Malformed == \E key \in DOMAIN parameters : parameters[key] = <<"malformed">>

\* json::parse throws outside of the try block, through a native frame.
Terminate ==
    /\ phase = "building" /\ Malformed
    /\ phase' = "terminated"
    /\ UNCHANGED <<n_predict, parameters, calls, params, slotVars>>

Refuse ==
    /\ phase = "building" /\ ~Malformed /\ IsRefused(parameters)
    /\ phase' = "refused"
    /\ UNCHANGED <<n_predict, parameters, calls, params, slotVars>>

\* launch_slot_with_task. ignore_eos is about EOS, if the vocabulary has one, not
\* about the other tokens that end a generation.
Adapted(p) ==
    [p EXCEPT
        !.n_predict = IF n_predict > 0 /\ @ > n_predict THEN n_predict ELSE @,
        !.logit_bias = IF p.ignore_eos /\ EOS # NoToken
                       THEN @ \cup {<<EOS, "false">>} ELSE @]

Accept ==
    /\ phase = "building" /\ ~Malformed /\ ~IsRefused(parameters)
    /\ phase' = "generating"
    /\ params' = Adapted(SlotParams(parameters))
    /\ n_prompt' \in NPrompts
    /\ UNCHANGED <<n_predict, parameters, calls, n_decoded, processed, sampled, stop>>

-----------------------------------------------------------------------------
(* The limits of process_token.                                             *)

Limitless == params.n_predict = -1 /\ n_predict = -1

\* The limit of the request, or else of the server, less what was decoded.
Remaining(n) == (IF params.n_predict # -1 THEN params.n_predict ELSE n_predict) - n

\* Mutant: one token too many.
HasBudgetForOneMore(n) == Limitless \/ Remaining(n) >= 0

HasBudget(n) == Limitless \/ Remaining(n) > 0

AtTrainingLimit(n) == params.n_predict < 1 /\ n_predict < 1 /\ n_prompt + n >= NTrain

\* process_token: why it stops after a token, when n tokens count as decoded. It
\* looks at the budget first, at the limit of the training last, and the last reason
\* it finds stands.
StopAfter(token, n) ==
    IF AtTrainingLimit(n) THEN "LIMIT"
    ELSE IF token \in EOG THEN "EOS"
    ELSE IF HasBudget(n) THEN "NONE" ELSE "LIMIT"

\* A token with bias "false" is never sampled.
Sampleable == {t \in Vocab : <<t, "false">> \notin params.logit_bias}

CanSpeculate == HasDraft /\ params.n_max > 0 /\ params.cache

\* The context is shifted in time.
Generate ==
    /\ phase = "generating"
    /\ n_decoded' = n_decoded + 1 /\ processed' = processed + 1
    /\ sampled' \in Sampleable
    /\ stop' = StopAfter(sampled', n_decoded')
    /\ phase' = IF stop' # "NONE" THEN "stopped"
                ELSE IF CanSpeculate THEN "drafting" ELSE "generating"
    /\ UNCHANGED <<n_predict, parameters, calls, params, n_prompt>>

\* Mutant: the budget does not limit a draft.
DraftMaxUnlimited == Smaller(params.n_max, NCtx - 2)

\* The draft has to leave budget for the token that is sampled after it, and room
\* in a context that holds one token at least. (Without limits the n_remaining of
\* the request before may shorten it, as the draft model may.)
DraftMax ==
    LET n == Smaller(params.n_max, NCtx - 2)
    IN  IF ~Limitless /\ Remaining(n_decoded) > 0
        THEN Smaller(n, Remaining(n_decoded) - 1) ELSE n

\* There is no draft, or it is too short.
NoDraft ==
    /\ phase = "drafting"
    /\ phase' = "generating"
    /\ UNCHANGED <<n_predict, parameters, calls, params, slotVars>>

\* The tokens that are accepted all count as decoded before process_token is given
\* the first of them, and those behind the one it stops at it is never given.
Speculate ==
    /\ phase = "drafting" /\ params.n_min <= DraftMax
    /\ \E n \in 1..(DraftMax + 1) : \E k \in 1..n :
        /\ n_decoded' = n_decoded + n /\ processed' = processed + k
        /\ sampled' \in Sampleable
        /\ stop' = StopAfter(sampled', n_decoded')
        /\ k > 1 => \E t \in Sampleable : StopAfter(t, n_decoded') = "NONE"
        /\ k < n => stop' # "NONE"
    /\ phase' = IF stop' = "NONE" THEN "generating" ELSE "stopped"
    /\ UNCHANGED <<n_predict, parameters, calls, params, n_prompt>>

Next == Set \/ Terminate \/ Refuse \/ Accept \/ Generate \/ NoDraft \/ Speculate

Spec == Init /\ [][Next]_paramVars

-----------------------------------------------------------------------------
(* Properties.                                                              *)

Accepted == phase \in {"generating", "drafting", "stopped"}

\* What was accepted is fit for the sampler and the draft model, whatever JSON it
\* came from: the windows of the penalties are lengths, the limits of a draft are in
\* order, a lazy grammar has triggers, every word asked for as a trigger that is one
\* token is preserved as that token, and biases and adapters exist.
AcceptedIsSane ==
    Accepted =>
        /\ params.last_n >= 0 /\ params.dry_last_n >= 0
        /\ 0 <= params.n_min /\ params.n_min <= params.n_max
        /\ params.lazy => params.triggers # <<>>
        /\ \A k \in DOMAIN AskedTriggers(parameters) :
              IsOneToken(AskedTriggers(parameters)[k]) =>
                  TokenOf[AskedTriggers(parameters)[k].value] \in params.preserved
        /\ \A e \in params.logit_bias : e[1] \in Vocab
        /\ params.lora \subseteq 0..(NLora - 1)

\* A generation never exceeds the limit of its request or of the server, not even
\* by what a draft adds at once. If neither sets one, it ends with the context the
\* model was trained for, or with its first token when the prompt is as long as that
\* (contexts may be longer). With ignore_eos it is not EOS that ends it, though
\* another token that ends generations may.
LimitsHold ==
    Accepted =>
        /\ \A n \in {AskedFor(parameters), n_predict} : n >= 1 => n_decoded <= n
        /\ AskedFor(parameters) < 1 /\ n_predict < 1 =>
               n_prompt + processed <= NTrain \/ processed <= 1
        /\ stop = "EOS" /\ JsonValue(parameters, "ignore_eos", FALSE) => sampled # EOS
=============================================================================
