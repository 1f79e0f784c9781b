-------------------------- MODULE LogCallbackProofs --------------------------
(***************************************************************************)
(* The log callback, for any number of threads, callbacks and calls of     *)
(* setLogger and loadModel: as long as no setLogger meets another or a     *)
(* message, the settings of the last one are in force, messages reach its  *)
(* callback, and no reference is left behind.                              *)
(***************************************************************************)
EXTENDS LogCallback, FiniteSetTheorems, TLAPS

\* How far a setLogger is tells which of its arguments it goes by.
Branch(t) ==
    /\ at[t] \in {"clear", "restore"} => arg[t].callback = NoCallback
    /\ at[t] \in {"create", "register", "install"} => arg[t].callback # NoCallback

LogTypeInv == LogTypeOK /\ \A t \in Threads : Branch(t)

\* A setLogger has the variables for itself, and the library with them.
Alone ==
    \A t \in Threads : InSetLogger(t) =>
        library = "loaded" /\ \A u \in Threads : u # t => at[u] = "idle"

\* Messages get into the trampoline only if the settings name a callback.
Routed == \A t \in Threads : at[t] \in {"check", "call"} =>
              library = "loaded" /\ settings.callback # NoCallback

\* What a setLogger has done so far.
DoneSoFar(t) ==
    /\ at[t] \in {"format", "clear", "restore", "create"} => live = {}
    /\ at[t] \in {"clear", "restore", "create", "register", "install"} =>
           log_json = (arg[t].format = "JSON")
    /\ at[t] = "restore" => ~log_callback
    /\ at[t] \in {"register", "install"} =>
           o_log_callback \in live /\ created[o_log_callback] = arg[t].callback
    /\ at[t] = "install" => log_callback

\* What SettingsInForce says of the settings.
InForce ==
    /\ settings.callback = NoCallback =>
           /\ ~log_callback /\ ggml # "trampoline"
           /\ ~overridden => ggml = "default"
    /\ settings.callback # NoCallback =>
           /\ log_callback /\ o_log_callback \in live
           /\ created[o_log_callback] = settings.callback
           /\ settings.format = "TEXT" /\ ~overridden => ggml = "trampoline"

\* They are in force except in the middle of a setLogger.
BetweenInForce ==
    library \in {"new", "loaded"} /\ (\A t \in Threads : ~InSetLogger(t)) => InForce

LogInv ==
    ~raced =>
        /\ Alone /\ Routed /\ BetweenInForce
        /\ live \subseteq {o_log_callback}
        /\ \A t \in Threads : DoneSoFar(t)

LEMMA InitLogInv == Init => LogTypeInv /\ LogInv
<1> SUFFICES ASSUME Init PROVE LogTypeInv /\ LogInv
  OBVIOUS
<1>1. Default \in Settings /\ Default.callback = NoCallback
  BY DEF Default, Settings
<1>3. \A t \in Threads : at[t] = "idle"
  BY DEF Init
<1>2. LogTypeInv
  <2>1. created \in Seq(Callbacks) /\ Len(created) = 0
    BY DEF Init
  <2>2. at \in [Threads -> {"idle", "delete", "format", "clear", "restore",
                           "create", "register", "install", "check", "call"}]
        /\ arg \in [Threads -> Settings]
    BY <1>1 DEF Init
  <2>3. LogTypeOK
    <3>1. /\ library = "new" /\ globals = {} /\ o_log_callback = 0 /\ live = {}
          /\ log_json = FALSE /\ log_callback = FALSE /\ ggml = "default"
          /\ settings \in Settings /\ overridden = FALSE /\ raced = FALSE
      BY <1>1 DEF Init
    <3>2. 0 <= MaxSets /\ 0 \in 0..0
      BY LogAssumption
    <3>3. o_log_callback \in 0..Len(created) /\ Len(created) <= MaxSets
      BY <2>1, <3>1, <3>2
    <3> QED BY <2>1, <2>2, <3>1, <3>3 DEF LogTypeOK
  <2> QED BY <1>3, <2>3 DEF LogTypeInv, Branch
<1>4. LogInv
  BY <1>1, <1>3 DEF Init, LogInv, Alone, Routed, BetweenInForce, InForce, DoneSoFar, InSetLogger
<1> QED BY <1>2, <1>4

LEMMA NextLogTypeInv == LogTypeInv /\ [Next]_logVars => LogTypeInv'
<1> SUFFICES ASSUME LogTypeInv, [Next]_logVars PROVE LogTypeInv'
  OBVIOUS
<1> USE LogAssumption DEF LogTypeInv, LogTypeOK, Branch, Goes, libraryVars, setterVars
<1>1. CASE CommonInit \/ OnLoad \/ OnLoadFails \/ OnUnload
  BY <1>1 DEF CommonInit, OnLoad, OnLoadFails, OnUnload
<1>2. ASSUME NEW t \in Threads, SetLogger(t) PROVE LogTypeInv'
  BY <1>2 DEF SetLogger
<1>3. ASSUME NEW t \in Threads, DeleteRef(t) \/ ClearCallback(t) \/ RestoreGgml(t)
      PROVE  LogTypeInv'
  <2>1. CASE DeleteRef(t)
    BY <2>1 DEF DeleteRef
  <2>2. CASE ClearCallback(t)
    BY <2>2 DEF ClearCallback
  <2>3. CASE RestoreGgml(t)
    BY <2>3 DEF RestoreGgml
  <2> QED BY <1>3, <2>1, <2>2, <2>3
<1>4. ASSUME NEW t \in Threads, SetFormat(t) PROVE LogTypeInv'
  BY <1>4 DEF SetFormat
<1>5. ASSUME NEW t \in Threads, CreateRef(t) PROVE LogTypeInv'
  <2>1. arg[t].callback \in Callbacks
    BY <1>5 DEF CreateRef, Settings
  <2>2. /\ created' \in Seq(Callbacks) /\ Len(created') = Len(created) + 1
        /\ Len(created) + 1 <= MaxSets /\ Len(created) \in Nat
        /\ DOMAIN created \subseteq DOMAIN created' /\ Len(created) + 1 \in DOMAIN created'
    BY <1>5, <2>1 DEF CreateRef
  <2> HIDE DEF libraryVars
  <2>3. /\ o_log_callback' \in 0..Len(created') /\ live' \subseteq DOMAIN created'
    BY <1>5, <2>2 DEF CreateRef
  <2>4. UNCHANGED <<library, globals, log_json, log_callback, ggml, arg, settings, overridden, raced>>
    BY <1>5 DEF CreateRef, libraryVars
  <2>5. at' = [at EXCEPT ![t] = "register"] /\ at[t] = "create"
    BY <1>5 DEF CreateRef
  <2> QED BY <2>2, <2>3, <2>4, <2>5
<1>6. ASSUME NEW t \in Threads, RegisterCallback(t) \/ InstallTrampoline(t)
      PROVE  LogTypeInv'
  <2>1. CASE RegisterCallback(t)
    BY <2>1 DEF RegisterCallback
  <2>2. CASE InstallTrampoline(t)
    BY <2>2 DEF InstallTrampoline
  <2> QED BY <1>6, <2>1, <2>2
<1>7. ASSUME NEW t \in Threads, LogMessage(t) \/ CheckCallback(t) \/ CallCallback(t)
      PROVE  LogTypeInv'
  BY <1>7 DEF LogMessage, CheckCallback, CallCallback
<1>8. CASE UNCHANGED logVars
  BY <1>8 DEF logVars
<1> QED BY <1>1, <1>2, <1>3, <1>4, <1>5, <1>6, <1>7, <1>8 DEF Next


\* Booleans that the steps carry from one place to the next.
LEMMA NextLogInv == LogTypeInv /\ LogInv /\ [Next]_logVars => LogInv'
<1> SUFFICES ASSUME LogTypeInv, LogInv, [Next]_logVars, ~raced' PROVE LogInv'
  BY DEF LogInv
<1>1. CASE raced
  <2>1. raced'
    BY <1>1 DEF Next, logVars, libraryVars, setterVars, CommonInit, OnLoad, OnLoadFails, OnUnload, SetLogger,
       DeleteRef, SetFormat, ClearCallback, RestoreGgml, CreateRef, RegisterCallback,
       InstallTrampoline, LogMessage, CheckCallback, CallCallback
  <2> QED BY <2>1
<1>2. CASE ~raced
  <2>1. /\ Alone /\ Routed /\ BetweenInForce
        /\ live \subseteq {o_log_callback}
        /\ \A t \in Threads : DoneSoFar(t)
    BY <1>2 DEF LogInv
  <2>2. at \in [Threads -> {"idle", "delete", "format", "clear", "restore",
                           "create", "register", "install", "check", "call"}]
        /\ arg \in [Threads -> Settings]
        /\ \A t \in Threads : Branch(t)
    BY DEF LogTypeInv, LogTypeOK
  <2> USE DEF Goes, libraryVars, setterVars, InSetLogger
  <2>3. SUFFICES /\ Alone' /\ Routed' /\ BetweenInForce'
                 /\ live' \subseteq {o_log_callback'}
                 /\ \A t \in Threads : DoneSoFar(t)'
    BY DEF LogInv
  <2>4. CASE OnLoad \/ OnLoadFails
    BY <2>1, <2>2, <2>4 DEF OnLoad, OnLoadFails, Alone, Routed, BetweenInForce, InForce, DoneSoFar
  <2>10. CASE CommonInit
    BY <2>1, <2>2, <2>10 DEF CommonInit, Alone, Routed, BetweenInForce, InForce, DoneSoFar
  <2>5. CASE OnUnload
    BY <2>1, <2>2, <2>5 DEF OnUnload, Alone, Routed, BetweenInForce, DoneSoFar, Quiet
  <2>6. ASSUME NEW t \in Threads, SetLogger(t)
        PROVE  /\ Alone' /\ Routed' /\ BetweenInForce'
               /\ live' \subseteq {o_log_callback'}
               /\ \A u \in Threads : DoneSoFar(u)'
    <3>1. Quiet
      BY <2>6 DEF SetLogger
    <3>2. /\ UNCHANGED <<library, o_log_callback, created, live, log_json, log_callback, ggml, settings>>
          /\ library = "loaded" /\ at' = [at EXCEPT ![t] = "delete"]
      BY <2>6 DEF SetLogger
    <3>3. Alone' /\ Routed'
      BY <2>2, <3>1, <3>2 DEF Alone, Routed, Quiet
    <3>4. BetweenInForce'
      <4>1. at'[t] = "delete"
        BY <2>2, <3>2
      <4> QED BY <4>1 DEF BetweenInForce
    <3>5. \A u \in Threads : DoneSoFar(u)'
      BY <2>2, <3>1, <3>2 DEF DoneSoFar, Quiet
    <3> QED BY <2>1, <3>2, <3>3, <3>4, <3>5
  \* The others are steps of a thread that is in a setLogger, or in no one's.
  <2>7. ASSUME NEW t \in Threads,
               \/ DeleteRef(t) \/ SetFormat(t) \/ ClearCallback(t) \/ RestoreGgml(t)
               \/ CreateRef(t) \/ RegisterCallback(t) \/ InstallTrampoline(t)
        PROVE  /\ Alone' /\ Routed' /\ BetweenInForce'
               /\ live' \subseteq {o_log_callback'}
               /\ \A u \in Threads : DoneSoFar(u)'
    <3>1. /\ InSetLogger(t) /\ library = "loaded" /\ library' = library
          /\ \A u \in Threads : u # t => at[u] = "idle" /\ at'[u] = "idle"
          /\ at'[t] \notin {"check", "call"}
      <4>1. InSetLogger(t) /\ library' = library
        BY <2>7 DEF DeleteRef, SetFormat, ClearCallback, RestoreGgml, CreateRef,
           RegisterCallback, InstallTrampoline
      <4>2. \E pc \in {"format", "clear", "create", "restore", "idle", "register", "install"} :
               at' = [at EXCEPT ![t] = pc]
        BY <2>7 DEF DeleteRef, SetFormat, ClearCallback, RestoreGgml, CreateRef,
           RegisterCallback, InstallTrampoline
      <4>3. library = "loaded" /\ \A u \in Threads : u # t => at[u] = "idle"
        BY <2>1, <4>1 DEF Alone
      <4> HIDE DEF InSetLogger
      <4> QED BY <2>2, <4>1, <4>2, <4>3
    <3>2. Alone' /\ Routed'
      BY <3>1 DEF Alone, Routed
    <3>3. \A u \in Threads : u # t => DoneSoFar(u)'
      BY <3>1 DEF DoneSoFar
    <3>4. DoneSoFar(t) /\ Branch(t) /\ live \subseteq {o_log_callback}
      BY <2>1, <2>2
    <3>5. SUFFICES /\ live' \subseteq {o_log_callback'} /\ DoneSoFar(t)'
                   /\ at'[t] = "idle" => InForce'
      <4>1. BetweenInForce'
        BY <3>1, <3>5 DEF BetweenInForce
      <4> QED BY <3>2, <3>3, <3>5, <4>1
    <3> HIDE <2>1
    <3>6. CASE DeleteRef(t)
      BY <2>2, <3>4, <3>6 DEF DeleteRef, DoneSoFar
    <3>7. CASE SetFormat(t)
      BY <2>2, <3>4, <3>7 DEF SetFormat, DoneSoFar
    <3>8. CASE ClearCallback(t)
      BY <2>2, <3>4, <3>8 DEF ClearCallback, DoneSoFar
    <3>9. CASE RestoreGgml(t)
      BY <2>2, <3>4, <3>9 DEF RestoreGgml, DoneSoFar, InForce, Branch
    <3>10. CASE CreateRef(t)
      <4>1. /\ live = {} /\ live' = {o_log_callback'}
            /\ created'[o_log_callback'] = arg[t].callback
        <5>1. created \in Seq(Callbacks)
          BY DEF LogTypeInv, LogTypeOK
        <5> QED BY <3>4, <3>10, <5>1 DEF CreateRef, DoneSoFar
      <4>2. UNCHANGED <<log_json, arg>> /\ at[t] = "create" /\ at' = [at EXCEPT ![t] = "register"]
        BY <3>10 DEF CreateRef
      <4> QED BY <2>2, <3>4, <4>1, <4>2 DEF DoneSoFar
    <3>11. CASE RegisterCallback(t)
      BY <2>2, <3>4, <3>11 DEF RegisterCallback, DoneSoFar
    <3>12. CASE InstallTrampoline(t)
      BY <2>2, <3>4, <3>12 DEF InstallTrampoline, DoneSoFar, InForce, Branch
    <3> QED BY <2>7, <3>6, <3>7, <3>8, <3>9, <3>10, <3>11, <3>12
  <2>8. ASSUME NEW t \in Threads, LogMessage(t) \/ CheckCallback(t) \/ CallCallback(t)
        PROVE  /\ Alone' /\ Routed' /\ BetweenInForce'
               /\ live' \subseteq {o_log_callback'}
               /\ \A u \in Threads : DoneSoFar(u)'
    <3>1. /\ UNCHANGED <<library, o_log_callback, created, live, log_json, log_callback, ggml, arg, settings>>
          /\ at[t] \in {"idle", "check", "call"}
          /\ \E pc \in {"idle", "check", "call"} : at' = [at EXCEPT ![t] = pc]
          /\ library = "loaded" /\ overridden' = overridden
          /\ LogMessage(t) => ggml = "trampoline"
          /\ ~LogMessage(t) => at[t] \in {"check", "call"}
      BY <2>1, <2>8 DEF LogMessage, CheckCallback, CallCallback, Routed
    <3>2. \A u \in Threads : ~InSetLogger(u)
      BY <2>1, <2>8 DEF LogMessage, CheckCallback, CallCallback, Alone
    <3>7. InForce
      BY <2>1, <3>1, <3>2 DEF BetweenInForce
    <3>8. settings.callback # NoCallback
      BY <2>1, <3>1, <3>7 DEF InForce, Routed
    <3>3. \A u \in Threads : ~InSetLogger(u)'
      BY <2>2, <3>1, <3>2
    <3>4. Alone' /\ Routed'
      BY <2>1, <2>2, <3>1, <3>3, <3>8 DEF Alone, Routed
    <3>5. BetweenInForce'
      BY <3>1, <3>7 DEF BetweenInForce, InForce
    <3>6. \A u \in Threads : DoneSoFar(u)'
      BY <3>3 DEF DoneSoFar
    <3> QED BY <2>1, <3>1, <3>4, <3>5, <3>6
  <2>9. CASE UNCHANGED logVars
    BY <2>1, <2>9 DEF logVars, Alone, Routed, BetweenInForce, InForce, DoneSoFar
  <2> QED BY <2>4, <2>5, <2>6, <2>7, <2>8, <2>9, <2>10 DEF Next
<1> QED BY <1>1, <1>2

-----------------------------------------------------------------------------
LEMMA LogInvHolds == Spec => [](LogTypeInv /\ LogInv)
BY InitLogInv, NextLogTypeInv, NextLogInv, PTL DEF Spec

\* The variables keep their types: o_log_callback is a reference that was created,
\* whoever created it.
THEOREM LogTypeCorrect == Spec => []LogTypeOK
<1>1. LogTypeInv => LogTypeOK
  BY DEF LogTypeInv
<1> QED BY <1>1, LogInvHolds, PTL

\* After any sequence of calls of setLogger that did not meet, and of loadModel, the
\* last one's callback is in force; until the next loadModel, so is where it takes
\* GGML's messages.
THEOREM SettingsAreInForce == Spec => []SettingsInForce
<1>1. LogInv => SettingsInForce
  <2> SUFFICES ASSUME LogInv, ~raced, Quiet, library = "loaded" PROVE InForce
    BY DEF SettingsInForce, InForce
  <2>1. \A t \in Threads : ~InSetLogger(t)
    BY DEF Quiet, InSetLogger
  <2> QED BY <2>1 DEF LogInv, BetweenInForce
<1> QED BY <1>1, LogInvHolds, PTL

\* A message that is in the trampoline calls the callback set last, through a
\* reference that is live, though a loadModel may have taken the trampoline away.
THEOREM MessagesReachTheLatest == Spec => []MessagesReachLatest
<1>1. LogInv => MessagesReachLatest
  <2> SUFFICES ASSUME LogInv, ~raced, NEW t \in Threads, at[t] \in {"check", "call"}
               PROVE  /\ log_callback /\ o_log_callback \in live
                      /\ created[o_log_callback] = settings.callback
    BY DEF MessagesReachLatest
  <2>1. library = "loaded" /\ settings.callback # NoCallback
    BY DEF LogInv, Routed
  <2>2. \A u \in Threads : ~InSetLogger(u)
    BY DEF LogInv, Alone, InSetLogger
  <2>3. InForce
    BY <2>1, <2>2 DEF LogInv, BetweenInForce
  <2> QED BY <2>1, <2>3 DEF InForce
<1> QED BY <1>1, LogInvHolds, PTL

\* However often callbacks are replaced, one reference at most is live.
THEOREM OneReferenceLives == Spec => []OneCallbackLive
<1>1. LogInv => OneCallbackLive
  <2> SUFFICES ASSUME LogInv, ~raced PROVE Cardinality(live) <= 1
    BY DEF OneCallbackLive
  <2>1. live = {} \/ live = {o_log_callback}
    BY DEF LogInv
  <2>2. Cardinality({}) = 0 /\ Cardinality({o_log_callback}) = 1
    BY FS_EmptySet, FS_Singleton
  <2> QED BY <2>1, <2>2
<1> QED BY <1>1, LogInvHolds, PTL
=============================================================================
