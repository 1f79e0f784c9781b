--------------------------- MODULE MCRequestParams ---------------------------
(***************************************************************************)
(* Small instances of RequestParams for TLC.                               *)
(***************************************************************************)
EXTENDS RequestParams

Of(key, values) == {key} \X {<<"value", v>> : v \in values}

\* What the setters of InferenceParameters put: limits; biases of nothing, of tokens
\* that exist and of others; and biases of -Infinity, which are no JSON.
Limits == Of("n_predict", {-2, -1, 0, 1, 6}) \cup Of("ignore_eos", BOOLEAN)
             \cup Of("repeat_last_n", {-2, -1, 0}) \cup Of("cache_prompt", {FALSE})
Biases == Of("logit_bias", {<<>>, <<<<1, "number">>>>, <<<<1, "false">>, <<7, "number">>>>})
             \cup {<<"logit_bias", <<"malformed">>>>}

\* A word that triggers a grammar, and a token that does.
Word(w) == [type |-> "WORD", value |-> w, token |-> NoToken]
Token2  == [type |-> "TOKEN", value |-> "any", token |-> 2]

\* Any JSON, as far as the rules of params_from_json_cmpl go.
Drafts   == Of("speculative.n_max", {-1, 0, 3}) \cup Of("speculative.n_min", {-1, 2, 9})
Probs    == Of("n_probs", {0, 2}) \cup Of("logprobs", {3})
Grammars == Of("grammar_lazy", BOOLEAN) \cup Of("json_schema", {"schema"})
               \cup Of("grammar", {"grammar"})
               \cup Of("preserved_tokens", {<<"one">>, <<"two">>})
               \cup Of("grammar_triggers", {<<>>, <<Word("one")>>, <<Word("two"), Token2>>})
               \cup {<<"json_schema", <<"wrong">>>>, <<"grammar_triggers", <<"null">>>>,
                     <<"preserved_tokens", <<"elements">>>>}
Loras    == Of("lora", {<<>>, <<1>>, <<5>>}) \cup {<<"lora", <<"wrong">>>>}
Odd      == {<<"n_predict", <<"null">>>>, <<"repeat_last_n", <<"wrong">>>>}
               \cup Of("logit_bias", {<<<<1, "true">>>>}) \cup Of("max_tokens", {2, 9})
               \cup Of("dry_penalty_last_n", {-2, -1})
               \cup Of("dry_sequence_breakers", {<<>>})
               \cup {<<"chat_format", <<"null">>>>, <<"stop", <<"elements">>>>}

AnyJson == Limits \cup Biases \cup Drafts \cup Probs \cup Grammars \cup Loras \cup Odd

\* "one" is a token, "two" is several.
Words1 == [w \in {"one"} |-> 1]

\* Without a limit of the server, and with one.
NoneOrTwo == {-1, 2}
=============================================================================
