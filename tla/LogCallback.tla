----------------------------- MODULE LogCallback -----------------------------
(***************************************************************************)
(* The global references of jllama.cpp: those that JNI_OnLoad creates and  *)
(* JNI_OnUnload releases, and o_log_callback, which setLogger replaces     *)
(* while the worker and the Java threads log through it.                   *)
(*                                                                         *)
(* setLogger is static, native and not synchronized. llama_log_set has two *)
(* callers: setLogger, and common_init(), which every loadModel runs and   *)
(* which registers a function of its own that writes to the common log.    *)
(* Messages of the server's own LOG macros never reach the callback and do *)
(* not occur here.                                                         *)
(***************************************************************************)
EXTENDS Naturals, Sequences, FiniteSets

CONSTANTS
    Threads,        \* the threads that log or call setLogger
    Callbacks,      \* the BiConsumers given to setLogger
    MaxSets         \* bound: calls of setLogger

NoCallback == "null"

ASSUME LogAssumption ==
    /\ NoCallback \notin Callbacks
    /\ MaxSets \in Nat

VARIABLES
    library,            \* "new", "loaded", "failed" or "unloaded"
    globals,            \* the references of JNI_OnLoad that are live
    o_log_callback,     \* the number of a reference, 0 for nullptr
    created,            \* the callback behind each reference made by setLogger
    live,               \* the numbers of those that are not deleted
    log_json,
    log_callback,       \* whether the std::function is set
    ggml,               \* what llama_log_set registered last: the "trampoline",
                        \* the "common" log, or nothing: llama.cpp's "default"
    at,                 \* how far each thread is in setLogger or the trampoline
    arg,                \* the arguments of its setLogger
    settings,           \* the arguments of the setLogger that ended last
    overridden,         \* whether a loadModel came since the last setLogger began
    raced               \* whether a setLogger ever met another or a message

logVars == <<library, globals, o_log_callback, created, live, log_json,
             log_callback, ggml, at, arg, settings, overridden, raced>>

Classes == {"llama_model", "llama_iterator", "output", "string", "hash_map",
            "map", "set", "entry", "iterator", "integer", "float", "biconsumer",
            "llama_error", "log_level", "log_format", "error_oom"}

Objects == {"utf_8", "log_level_debug", "log_level_info", "log_level_warn",
            "log_level_error", "log_format_json", "log_format_text"}

Settings == [format : {"JSON", "TEXT"}, callback : Callbacks \cup {NoCallback}]

LogTypeOK ==
    /\ library \in {"new", "loaded", "failed", "unloaded"}
    /\ globals \subseteq Classes \cup Objects
    /\ created \in Seq(Callbacks) /\ Len(created) <= MaxSets
    /\ o_log_callback \in 0..Len(created) /\ live \subseteq DOMAIN created
    /\ log_json \in BOOLEAN /\ log_callback \in BOOLEAN
    /\ ggml \in {"default", "trampoline", "common"}
    /\ at \in [Threads -> {"idle", "delete", "format", "clear", "restore",
                           "create", "register", "install", "check", "call"}]
    /\ arg \in [Threads -> Settings] /\ settings \in Settings
    /\ overridden \in BOOLEAN /\ raced \in BOOLEAN

Default == [format |-> "TEXT", callback |-> NoCallback]

Init ==
    /\ library = "new" /\ globals = {}
    /\ o_log_callback = 0 /\ created = <<>> /\ live = {}
    /\ log_json = FALSE /\ log_callback = FALSE /\ ggml = "default"
    /\ at = [t \in Threads |-> "idle"]
    /\ arg = [t \in Threads |-> Default] /\ settings = Default
    /\ overridden = FALSE /\ raced = FALSE

Quiet == \A t \in Threads : at[t] = "idle"

InSetLogger(t) == at[t] \notin {"idle", "check", "call"}

-----------------------------------------------------------------------------
(* JNI_OnLoad and JNI_OnUnload.                                             *)

libraryVars == <<library, globals>>
setterVars  == <<o_log_callback, created, live, log_json, log_callback, ggml>>

OnLoad ==
    /\ library = "new"
    /\ library' = "loaded" /\ globals' = Classes \cup Objects
    /\ UNCHANGED <<setterVars, at, arg, settings, overridden, raced>>

\* Every lookup may fail: of a class, before any reference is made; of a method,
\* a field or an object, when the classes have theirs; and at last the exception
\* check. Nothing that was made is deleted.
OnLoadFails ==
    /\ library = "new"
    /\ library' = "failed"
    /\ globals' \in {{}, Classes, Classes \cup Objects}
    /\ UNCHANGED <<setterVars, at, arg, settings, overridden, raced>>

\* log_level is deleted twice, log_format not at all.
OnUnload ==
    /\ library = "loaded" /\ Quiet
    /\ library' = "unloaded"
    /\ globals' = globals \ ((Classes \ {"log_format"}) \cup Objects)
    /\ live' = live \ {o_log_callback}
    /\ UNCHANGED <<o_log_callback, created, log_json, log_callback, ggml, at, arg,
                   settings, overridden, raced>>

-----------------------------------------------------------------------------
(* setLogger, one access to the shared variables at a time.                 *)

Goes(t, from, to) == at[t] = from /\ at' = [at EXCEPT ![t] = to]

SetLogger(t) ==
    /\ library = "loaded" /\ Len(created) < MaxSets
    /\ Goes(t, "idle", "delete")
    /\ \E s \in Settings : arg' = [arg EXCEPT ![t] = s]
    /\ raced' = (raced \/ ~Quiet) /\ overridden' = FALSE
    /\ UNCHANGED <<libraryVars, setterVars, settings>>

\* Mutant: the reference to the old callback is kept.
DeleteNothing(t) ==
    /\ Goes(t, "delete", "format")
    /\ UNCHANGED <<libraryVars, setterVars, arg, settings, overridden, raced>>

DeleteRef(t) ==
    /\ Goes(t, "delete", "format")
    /\ live' = live \ {o_log_callback}
    /\ UNCHANGED <<libraryVars, o_log_callback, created, log_json, log_callback,
                   ggml, arg, settings, overridden, raced>>

SetFormat(t) ==
    /\ Goes(t, "format", IF arg[t].callback = NoCallback THEN "clear" ELSE "create")
    /\ log_json' = (arg[t].format = "JSON")
    /\ UNCHANGED <<libraryVars, o_log_callback, created, live, log_callback, ggml,
                   arg, settings, overridden, raced>>

ClearCallback(t) ==
    /\ Goes(t, "clear", "restore")
    /\ log_callback' = FALSE
    /\ UNCHANGED <<libraryVars, o_log_callback, created, live, log_json, ggml, arg,
                   settings, overridden, raced>>

\* Mutant: GGML keeps the trampoline.
RestoreNothing(t) ==
    /\ Goes(t, "restore", "idle")
    /\ settings' = arg[t]
    /\ UNCHANGED <<libraryVars, setterVars, arg, overridden, raced>>

RestoreGgml(t) ==
    /\ Goes(t, "restore", "idle")
    /\ ggml' = "default" /\ settings' = arg[t]
    /\ UNCHANGED <<libraryVars, o_log_callback, created, live, log_json,
                   log_callback, arg, overridden, raced>>

\* Mutant: the argument is stored without a reference of its own.
StoreArgument(t) ==
    /\ Goes(t, "create", "register")
    /\ o_log_callback' = Len(created) + 1
    /\ UNCHANGED <<libraryVars, created, live, log_json, log_callback, ggml, arg,
                   settings, overridden, raced>>

\* Mutant: only a first callback gets a reference.
CreateOnce(t) ==
    /\ Goes(t, "create", "register")
    /\ IF o_log_callback # 0 THEN UNCHANGED <<o_log_callback, created, live>>
       ELSE /\ created' = Append(created, arg[t].callback)
            /\ o_log_callback' = Len(created) + 1
            /\ live' = live \cup {Len(created) + 1}
    /\ UNCHANGED <<libraryVars, log_json, log_callback, ggml, arg, settings, overridden, raced>>

CreateRef(t) ==
    /\ Goes(t, "create", "register")
    /\ Len(created) < MaxSets
    /\ created' = Append(created, arg[t].callback)
    /\ o_log_callback' = Len(created) + 1
    /\ live' = live \cup {Len(created) + 1}
    /\ UNCHANGED <<libraryVars, log_json, log_callback, ggml, arg, settings, overridden, raced>>

RegisterCallback(t) ==
    /\ Goes(t, "register", "install")
    /\ log_callback' = TRUE
    /\ UNCHANGED <<libraryVars, o_log_callback, created, live, log_json, ggml, arg,
                   settings, overridden, raced>>

InstallTrampoline(t) ==
    /\ Goes(t, "install", "idle")
    /\ ggml' = IF log_json THEN ggml ELSE "trampoline"
    /\ settings' = arg[t]
    /\ UNCHANGED <<libraryVars, o_log_callback, created, live, log_json,
                   log_callback, arg, overridden, raced>>

-----------------------------------------------------------------------------
(* A message of GGML on some thread: log_callback_trampoline.               *)

\* A message that goes to stdout changes nothing here.
LogMessage(t) ==
    /\ library = "loaded" /\ ggml = "trampoline"
    /\ Goes(t, "idle", "check")
    /\ raced' = (raced \/ \E u \in Threads : InSetLogger(u))
    /\ UNCHANGED <<libraryVars, setterVars, arg, settings, overridden>>

CheckCallback(t) ==
    /\ Goes(t, "check", IF log_callback THEN "call" ELSE "idle")
    /\ UNCHANGED <<libraryVars, setterVars, arg, settings, overridden, raced>>

\* CallVoidMethod on o_log_callback.
CallCallback(t) ==
    /\ Goes(t, "call", "idle")
    /\ UNCHANGED <<libraryVars, setterVars, arg, settings, overridden, raced>>

-----------------------------------------------------------------------------
\* common_init() of a loadModel, on any thread and at any time: whatever
\* setLogger registered for GGML is replaced. The callback itself stays set.
CommonInit ==
    /\ library = "loaded"
    /\ ggml' = "common" /\ overridden' = TRUE
    /\ UNCHANGED <<libraryVars, o_log_callback, created, live, log_json,
                   log_callback, at, arg, settings, raced>>

Next ==
    \/ CommonInit
    \/ OnLoad \/ OnLoadFails \/ OnUnload
    \/ \E t \in Threads :
        \/ SetLogger(t) \/ DeleteRef(t) \/ SetFormat(t)
        \/ ClearCallback(t) \/ RestoreGgml(t)
        \/ CreateRef(t) \/ RegisterCallback(t) \/ InstallTrampoline(t)
        \/ LogMessage(t) \/ CheckCallback(t) \/ CallCallback(t)

Spec == Init /\ [][Next]_logVars

-----------------------------------------------------------------------------
(* Properties.                                                              *)

\* What the setLogger that ended last asked for stays in force: with a callback, it
\* is the one that is called, through a reference that is valid; without one GGML
\* messages reach no callback, whatever models are loaded later. Where they go
\* instead is promised until the next loadModel, whose common_init() takes them
\* to the common log: until then to the callback in text mode, and to llama.cpp's
\* default without one. (Of JSON, see JsonKeepsGgmlOut.)
SettingsInForce ==
    ~raced /\ Quiet /\ library = "loaded" =>
        /\ settings.callback = NoCallback =>
               /\ ~log_callback /\ ggml # "trampoline"
               /\ ~overridden => ggml = "default"
        /\ settings.callback # NoCallback =>
               /\ log_callback /\ o_log_callback \in live
               /\ created[o_log_callback] = settings.callback
               /\ settings.format = "TEXT" /\ ~overridden => ggml = "trampoline"

\* As long as no setLogger met another or a message, a message that is in the
\* trampoline reaches the callback set last and no older one, whatever calls of
\* setLogger and loadModel came before; its reference is not deleted under it.
\* (Whether the message should be there at all, JsonKeepsGgmlOut asks.)
MessagesReachLatest ==
    ~raced => \A t \in Threads : at[t] \in {"check", "call"} =>
        /\ log_callback /\ o_log_callback \in live
        /\ created[o_log_callback] = settings.callback

\* In JSON mode the callback gets no messages of GGML: "in text mode the callback
\* will be also invoked with log messages of the GGML backend, while JSON mode can
\* only access request log messages" (setLogger). The code does not do so after a
\* setLogger in text mode: nothing takes the trampoline away.
JsonKeepsGgmlOut ==
    ~raced /\ Quiet /\ library = "loaded" /\ settings.format = "JSON" =>
        ggml # "trampoline"

\* Callbacks that were replaced are released: as long as no setLogger met another or a
\* message, setLogger leaks no reference.
OneCallbackLive == ~raced => Cardinality(live) <= 1
=============================================================================
