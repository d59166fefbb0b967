------------------------ MODULE TelemetryBindingProofs ------------------------
(***************************************************************************)
(* Adoption of the console never gets in the way of an explicit install,   *)
(* of the zero-init promise or of a level: for any number of threads,      *)
(* tables, sources and calls.                                              *)
(***************************************************************************)
EXTENDS TelemetryBinding, TLAPS

(* The initial state satisfies the invariant. *)
LEMMA InitKeeps == Init => IInv
  <1> SUFFICES ASSUME Init PROVE IInv
    OBVIOUS
  <1>1. TypeOK
    BY DEF Init, TypeOK, Bindings, Labels
  <1>2. LatchInv
    BY DEF Init, LatchInv
  <1>3. MadeInv
    BY BindingAssumption DEF BindingAssumption, Init, MadeInv
  <1>4. /\ SeedInv
        /\ InstallWins /\ UnboundOnlyIfExplicit /\ LevelSticks /\ FaultsAreHeard
    BY DEF Init, SeedInv, InstallWins, UnboundOnlyIfExplicit, LevelSticks,
           FaultsAreHeard
  <1> QED BY <1>1, <1>2, <1>3, <1>4 DEF IInv

(* A step of a thread that leaves the globals, the level and the ghosts    *)
(* alone keeps the invariant, if where it goes and what it holds there are *)
(* covered.                                                                *)
LEMMA LocalStep ==
    ASSUME IInv, NEW t \in Threads, NEW l \in Labels, NEW x \in Bindings,
           pc' = [pc EXCEPT ![t] = l],
           b' = [b EXCEPT ![t] = x],
           UNCHANGED <<g_binding, g_explicitly_set, made, g_level, latest, chosen>>,
           silent' => silent \/ chosen # <<>> \/ EnvLevel > kWarn,
           l = "store" => g_explicitly_set,
           l = "reload" => g_binding # Null \/ g_explicitly_set,
           x = Console \/ l = "adopt" => made,
           l \in {"use", "emit"} /\ x = Null => g_explicitly_set \/ ~LoggingBuilt
    PROVE  IInv'
  <1>1. pc \in [Threads -> Labels] /\ b \in [Threads -> Bindings]
    BY DEF IInv, TypeOK
  <1>2. \A u \in Threads : pc'[u] = IF u = t THEN l ELSE pc[u]
    BY <1>1
  <1>3. \A u \in Threads : b'[u] = IF u = t THEN x ELSE b[u]
    BY <1>1
  <1>4. TypeOK'
    BY <1>1 DEF IInv, TypeOK
  <1>5. LatchInv'
    BY <1>2 DEF IInv, LatchInv
  <1>6. MadeInv'
    BY <1>2, <1>3 DEF IInv, MadeInv
  <1>7. InstallWins'
    BY DEF IInv, InstallWins
  <1>8. UnboundOnlyIfExplicit'
    BY <1>2, <1>3 DEF IInv, UnboundOnlyIfExplicit
  <1>9. LevelSticks' /\ SeedInv'
    BY DEF IInv, LevelSticks, SeedInv
  <1>10. FaultsAreHeard'
    BY DEF IInv, FaultsAreHeard
  <1> QED BY <1>4, <1>5, <1>6, <1>7, <1>8, <1>9, <1>10 DEF IInv

(* A step that goes on with the binding it has. *)
LEMMA SameBinding ==
    ASSUME IInv, NEW t \in Threads PROVE b[t] \in Bindings /\ b = [b EXCEPT ![t] = b[t]]
  BY DEF IInv, TypeOK

(* Every step keeps the invariant. *)
LEMMA StepKeeps == ASSUME IInv, [Next]_vars PROVE IInv'
  <1>1. CASE UNCHANGED vars
    BY <1>1 DEF vars, globals, local, IInv, TypeOK, LatchInv, MadeInv,
                SeedInv, InstallWins, UnboundOnlyIfExplicit, LevelSticks,
                FaultsAreHeard, ghosts
  <1>2. ASSUME NEW t \in Threads, NEW table \in Tables \cup {Null}, Install(t, table)
        PROVE  IInv'
    <2>1. table \in Bindings /\ table # Console
      BY BindingAssumption DEF BindingAssumption, Bindings
    <2>2. PICK l \in {"latch", "idle"} : pc' = [pc EXCEPT ![t] = l]
      BY <1>2 DEF Install, Goto
    <2>3. l \in Labels
      BY DEF Labels
    <2>4. /\ b' = [b EXCEPT ![t] = table]
          /\ UNCHANGED <<g_binding, g_explicitly_set, made, g_level, ghosts>>
      BY <1>2 DEF Install, globals
    <2> QED BY <2>1, <2>2, <2>3, <2>4, LocalStep DEF ghosts
  <1>3. ASSUME NEW t \in Threads, NEW o, NEW a, Call(t, o, a) PROVE IInv'
    <2>1. /\ pc' = [pc EXCEPT ![t] = "load"] /\ b' = b
          /\ UNCHANGED <<g_binding, g_explicitly_set, made, g_level, ghosts>>
      BY <1>3 DEF Call, Goto, globals
    <2>2. b[t] = Console => made
      BY DEF IInv, MadeInv
    <2> DEFINE l == "load"
    <2>3. /\ l \in Labels /\ pc' = [pc EXCEPT ![t] = l]
          /\ l \notin {"store", "reload", "adopt", "use", "emit"}
      BY <2>1 DEF Labels
    <2>4. b[t] \in Bindings /\ b' = [b EXCEPT ![t] = b[t]]
      BY <2>1, SameBinding
    <2> HIDE DEF l
    <2> QED BY <2>1, <2>2, <2>3, <2>4, LocalStep DEF ghosts
  <1>4. ASSUME NEW t \in Threads, LoadBinding(t) PROVE IInv'
    <2>1. PICK l \in {"explicit", "use"} :
             /\ pc' = [pc EXCEPT ![t] = l]
             /\ l = "use" => g_binding # Null
      BY <1>4 DEF LoadBinding, Goto
    <2>2. /\ b' = [b EXCEPT ![t] = g_binding]
          /\ UNCHANGED <<g_binding, g_explicitly_set, made, g_level, ghosts>>
      BY <1>4 DEF LoadBinding, globals
    <2>3. l \in Labels /\ g_binding \in Bindings /\ (g_binding = Console => made)
      BY DEF Labels, IInv, TypeOK, MadeInv
    <2> QED BY <2>1, <2>2, <2>3, LocalStep DEF ghosts
  <1>5. ASSUME NEW t \in Threads, LoadLatch(t) PROVE IInv'
    <2>1. PICK l \in {"make", "use"} :
             /\ pc' = [pc EXCEPT ![t] = l]
             /\ l = "use" => g_explicitly_set \/ ~LoggingBuilt
      BY <1>5 DEF LoadLatch, Goto
    <2>2. /\ b' = b
          /\ UNCHANGED <<g_binding, g_explicitly_set, made, g_level, ghosts>>
      BY <1>5 DEF LoadLatch, globals
    <2>3. l \in Labels /\ (b[t] = Console => made)
      BY DEF Labels, IInv, MadeInv
    <2> QED BY <2>1, <2>2, <2>3, SameBinding, LocalStep DEF ghosts
  <1>6. ASSUME NEW t \in Threads, Reload(t) PROVE IInv'
    <2>1. /\ pc' = [pc EXCEPT ![t] = "use"] /\ b' = [b EXCEPT ![t] = g_binding]
          /\ UNCHANGED <<g_binding, g_explicitly_set, made, g_level, ghosts>>
          /\ pc[t] = "reload"
      BY <1>6 DEF Reload, Goto, globals
    <2>2. g_binding # Null \/ g_explicitly_set
      BY <2>1 DEF IInv, LatchInv
    <2>3. "use" \in Labels /\ g_binding \in Bindings /\ (g_binding = Console => made)
      BY DEF Labels, IInv, TypeOK, MadeInv
    <2> QED BY <2>1, <2>2, <2>3, LocalStep DEF ghosts
  <1>7. ASSUME NEW t \in Threads,
               \/ GetEventSource(t) \/ Stream(t) \/ Gate(t)
               \/ EmitEvent(t) \/ UnboundEmitEvent(t)
        PROVE  IInv'
    <2>1. /\ b' = b
          /\ UNCHANGED <<g_binding, g_explicitly_set, made, g_level, ghosts>>
      BY <1>7 DEF GetEventSource, Stream, Gate, EmitEvent, UnboundEmitEvent, globals
    <2>2. PICK l \in {"idle", "load", "emit"} :
             /\ pc' = [pc EXCEPT ![t] = l]
             /\ l = "emit" => pc[t] = "use"
      BY <1>7 DEF GetEventSource, Stream, Gate, EmitEvent, UnboundEmitEvent, Goto
    <2>3. l \in Labels /\ (b[t] = Console => made)
      BY DEF Labels, IInv, MadeInv
    <2>4. l = "emit" /\ b[t] = Null => g_explicitly_set \/ ~LoggingBuilt
      BY <2>2 DEF IInv, UnboundOnlyIfExplicit
    <2> QED BY <2>1, <2>2, <2>3, <2>4, SameBinding, LocalStep DEF ghosts
  <1>8. ASSUME NEW t \in Threads, StoreLatch(t) PROVE IInv'
    <2>1. /\ pc' = [pc EXCEPT ![t] = "store"] /\ g_explicitly_set' = TRUE
          /\ UNCHANGED <<g_binding, made, b, latest, chosen, g_level, silent>>
      BY <1>8 DEF StoreLatch, Goto, ghosts
    <2>2. pc \in [Threads -> Labels] /\ "store" \in Labels
      BY DEF Labels, IInv, TypeOK
    <2>3. TypeOK'
      BY <2>1, <2>2 DEF IInv, TypeOK
    <2>4. \A u \in Threads : pc'[u] = IF u = t THEN "store" ELSE pc[u]
      BY <2>1, <2>2
    <2>5. LatchInv' /\ UnboundOnlyIfExplicit'
      BY <2>1 DEF LatchInv, UnboundOnlyIfExplicit
    <2>6. MadeInv'
      BY <2>1, <2>4 DEF IInv, MadeInv
    <2>7. InstallWins' /\ LevelSticks' /\ SeedInv' /\ FaultsAreHeard'
      BY <2>1 DEF IInv, InstallWins, LevelSticks, SeedInv, FaultsAreHeard
    <2> QED BY <2>3, <2>5, <2>6, <2>7 DEF IInv
  <1>9. ASSUME NEW t \in Threads, StoreBinding(t) PROVE IInv'
    <2>1. /\ pc' = [pc EXCEPT ![t] = "idle"] /\ g_binding' = b[t] /\ latest' = b[t]
          /\ UNCHANGED <<g_explicitly_set, made, b, chosen, g_level, silent>>
          /\ pc[t] = "store"
      BY <1>9 DEF StoreBinding, Goto
    <2>2. g_explicitly_set /\ b[t] \in Bindings /\ (b[t] = Console => made)
      BY <2>1 DEF IInv, TypeOK, LatchInv, MadeInv
    <2>3. pc \in [Threads -> Labels] /\ "idle" \in Labels
      BY DEF Labels, IInv, TypeOK
    <2>4. TypeOK'
      BY <2>1, <2>2, <2>3 DEF IInv, TypeOK
    <2>5. \A u \in Threads : pc'[u] = IF u = t THEN "idle" ELSE pc[u]
      BY <2>1, <2>3
    <2>6. LatchInv' /\ UnboundOnlyIfExplicit'
      BY <2>1, <2>2 DEF LatchInv, UnboundOnlyIfExplicit
    <2>7. MadeInv'
      BY <2>1, <2>2, <2>5 DEF IInv, MadeInv
    <2>8. InstallWins' /\ LevelSticks' /\ SeedInv' /\ FaultsAreHeard'
      BY <2>1 DEF IInv, InstallWins, LevelSticks, SeedInv, FaultsAreHeard
    <2> QED BY <2>4, <2>6, <2>7, <2>8 DEF IInv
  <1>10. ASSUME NEW t \in Threads, MakeConsole(t) PROVE IInv'
    <2>1. /\ pc' = [pc EXCEPT ![t] = "adopt"] /\ made' = TRUE
          /\ g_level' = IF made THEN g_level ELSE EnvLevel
          /\ UNCHANGED <<g_binding, g_explicitly_set, b, latest, chosen, silent>>
      BY <1>10 DEF MakeConsole, Goto, ghosts
    <2>2. pc \in [Threads -> Labels] /\ "adopt" \in Labels
      BY DEF Labels, IInv, TypeOK
    <2>3. TypeOK'
      BY <2>1, <2>2 DEF IInv, TypeOK
    <2>4. \A u \in Threads : pc'[u] = IF u = t THEN "adopt" ELSE pc[u]
      BY <2>1, <2>2
    <2>5. LatchInv'
      BY <2>1, <2>4 DEF IInv, LatchInv
    <2>6. UnboundOnlyIfExplicit'
      BY <2>1, <2>4 DEF IInv, UnboundOnlyIfExplicit
    <2>7. MadeInv'
      BY <2>1 DEF MadeInv
    <2>8. LevelSticks' /\ SeedInv' /\ FaultsAreHeard'
      BY <2>1 DEF IInv, MadeInv, LevelSticks, SeedInv, FaultsAreHeard
    <2>9. InstallWins'
      BY <2>1 DEF IInv, InstallWins
    <2> QED BY <2>3, <2>5, <2>6, <2>7, <2>8, <2>9 DEF IInv
  <1>11. ASSUME NEW t \in Threads, Adopt(t) PROVE IInv'
    <2>1. /\ pc' = [pc EXCEPT ![t] = "reload"]
          /\ g_binding' = IF g_binding = Null THEN Console ELSE g_binding
          /\ UNCHANGED <<g_explicitly_set, made, b, latest, chosen, g_level, silent>>
          /\ pc[t] = "adopt"
      BY <1>11 DEF Adopt, Goto, ghosts
    <2>2. made /\ Console # Null
      BY <2>1, BindingAssumption DEF BindingAssumption, IInv, MadeInv
    <2>3. pc \in [Threads -> Labels] /\ "reload" \in Labels /\ Console \in Bindings
      BY DEF Labels, Bindings, IInv, TypeOK
    <2>4. TypeOK'
      BY <2>1, <2>3 DEF IInv, TypeOK
    <2>5. \A u \in Threads : pc'[u] = IF u = t THEN "reload" ELSE pc[u]
      BY <2>1, <2>3
    <2>6. g_binding' # Null
      BY <2>1, <2>2
    <2>7. LatchInv'
      BY <2>1, <2>5, <2>6 DEF IInv, LatchInv
    <2>8. UnboundOnlyIfExplicit'
      BY <2>1, <2>5 DEF IInv, UnboundOnlyIfExplicit
    <2>9. MadeInv'
      BY <2>1, <2>2 DEF MadeInv
    <2>10. InstallWins'
      BY <2>1 DEF IInv, InstallWins
    <2>11. LevelSticks' /\ SeedInv' /\ FaultsAreHeard'
      BY <2>1 DEF IInv, LevelSticks, SeedInv, FaultsAreHeard
    <2> QED BY <2>4, <2>7, <2>8, <2>9, <2>10, <2>11 DEF IInv
  <1>12. ASSUME NEW t \in Threads, SetLogLevel(t) PROVE IInv'
    <2>1. /\ pc' = [pc EXCEPT ![t] = "idle"]
          /\ UNCHANGED <<g_binding, g_explicitly_set, made, b, latest, silent>>
      BY <1>12 DEF SetLogLevel, Goto
    <2>2. \/ b[t] = Console /\ g_level' = arg[t] /\ chosen' = <<arg[t]>>
          \/ UNCHANGED <<g_level, chosen>>
      BY <1>12 DEF SetLogLevel
    <2>3. pc \in [Threads -> Labels] /\ "idle" \in Labels
      BY DEF Labels, IInv, TypeOK
    <2>4. TypeOK'
      BY <2>1, <2>3 DEF IInv, TypeOK
    <2>5. \A u \in Threads : pc'[u] = IF u = t THEN "idle" ELSE pc[u]
      BY <2>1, <2>3
    <2>6. LatchInv' /\ UnboundOnlyIfExplicit'
      BY <2>1, <2>5 DEF IInv, LatchInv, UnboundOnlyIfExplicit
    <2>7. MadeInv'
      BY <2>1, <2>2, <2>5 DEF IInv, MadeInv
    <2>8. LevelSticks' /\ SeedInv' /\ FaultsAreHeard'
      BY <2>1, <2>2 DEF IInv, LevelSticks, SeedInv, FaultsAreHeard
    <2>9. InstallWins'
      BY <2>1 DEF IInv, InstallWins
    <2> QED BY <2>4, <2>6, <2>7, <2>8, <2>9 DEF IInv
  <1>13. ASSUME NEW t \in Threads, ReportHealth(t) \/ UnboundReportHealth(t) PROVE IInv'
    <2>1. b[t] \in Bindings /\ (b[t] = Console => made)
      BY DEF IInv, TypeOK, MadeInv
    <2>2. /\ pc' = [pc EXCEPT ![t] = "idle"] /\ b' = b
          /\ UNCHANGED <<g_binding, g_explicitly_set, made, g_level, latest, chosen>>
      BY <1>13 DEF ReportHealth, UnboundReportHealth, Report, Goto, globals
    <2>3. ASSUME silent', ~silent
          PROVE  /\ b[t] = Console /\ arg[t] # kOk
                 /\ ~ShouldLog(HealthSeverity(arg[t]))
      <3>1. CASE ReportHealth(t)
        BY <2>1, <2>3, <3>1 DEF ReportHealth, Report, Bindings
      <3>2. CASE UnboundReportHealth(t)
        BY <2>3, <3>2 DEF UnboundReportHealth, Report
      <3> QED BY <1>13, <3>1, <3>2
    <2>4. ASSUME silent', ~silent, chosen = <<>>
          PROVE  EnvLevel > kWarn
      <3>1. g_level = EnvLevel
        BY <2>1, <2>3, <2>4 DEF IInv, SeedInv
      <3>2. HealthSeverity(arg[t]) \in {kWarn, kError}
        BY <2>3, <2>4 DEF HealthSeverity
      <3>3. HealthSeverity(arg[t]) # kOff
        BY <3>2 DEF kWarn, kError, kOff
      <3>4. ~(HealthSeverity(arg[t]) >= EnvLevel)
        BY <2>3, <2>4, <3>1, <3>3 DEF ShouldLog
      <3>5. EnvLevel \in Nat
        BY DEF EnvLevel, kInfo, kOff
      <3> HIDE DEF EnvLevel
      <3> QED BY <3>2, <3>4, <3>5 DEF kWarn, kError
    <2>5. silent' => silent \/ chosen # <<>> \/ EnvLevel > kWarn
      BY <2>4
    <2> DEFINE l == "idle"
    <2>6. /\ l \in Labels /\ pc' = [pc EXCEPT ![t] = l]
          /\ l \notin {"store", "reload", "adopt", "use", "emit"}
      BY <2>2 DEF Labels
    <2>7. b' = [b EXCEPT ![t] = b[t]]
      BY <2>2, SameBinding
    <2> HIDE DEF l
    <2> QED BY <2>1, <2>2, <2>5, <2>6, <2>7, LocalStep
  <1> QED BY <1>1, <1>2, <1>3, <1>4, <1>5, <1>6, <1>7, <1>8, <1>9, <1>10, <1>11, <1>12, <1>13
       DEF Next, CallAny, Step, InstallBinding, ActiveBinding

(* The inductive invariant holds. *)
THEOREM InvariantHolds == Spec => []IInv
  <1>1. Init => IInv
    BY InitKeeps
  <1>2. IInv /\ [Next]_vars => IInv'
    BY StepKeeps
  <1> QED BY <1>1, <1>2, PTL DEF Spec

(* The compare-and-swap of ActiveBinding never displaces a table that an   *)
(* application installed.                                                  *)
THEOREM ExplicitInstallWins == Spec => []InstallWins
  <1>1. IInv => InstallWins
    BY DEF IInv
  <1> QED BY <1>1, InvariantHolds, PTL

(* ActiveBinding of a build with logging returns nullptr only after an     *)
(* application called InstallBinding.                                      *)
THEOREM NeverUnboundByItself == Spec => []UnboundOnlyIfExplicit
  <1>1. IInv => UnboundOnlyIfExplicit
    BY DEF IInv
  <1> QED BY <1>1, InvariantHolds, PTL

(* The first use of the console by any thread leaves a level alone that    *)
(* was set through SetLogLevel.                                            *)
THEOREM LevelIsKept == Spec => []LevelSticks
  <1>1. IInv => LevelSticks
    BY DEF IInv
  <1> QED BY <1>1, InvariantHolds, PTL

(* A fault reported through ReportHealth is lost to everybody only where   *)
(* somebody asked for a level that excludes it.                            *)
THEOREM NeverSilent == Spec => []FaultsAreHeard
  <1>1. IInv => FaultsAreHeard
    BY DEF IInv
  <1> QED BY <1>1, InvariantHolds, PTL

-----------------------------------------------------------------------------
(* Lines name their source. *)

(* Interning a name adds it at the end or not at all, and its id is that   *)
(* of its name.                                                            *)
LEMMA InternKeeps ==
    ASSUME names \in Seq(Names), NEW n \in Names
    PROVE  /\ InternSource(n)[1] \in Seq(Names)
           /\ InternSource(n)[2] \in 1 .. Len(InternSource(n)[1])
           /\ InternSource(n)[1][InternSource(n)[2]] = n
           /\ Len(names) <= Len(InternSource(n)[1])
           /\ \A i \in 1 .. Len(names) : InternSource(n)[1][i] = names[i]
  <1>1. CASE Known(n)
    <2>1. IdOf(n) \in 1 .. Len(names) /\ names[IdOf(n)] = n
      BY <1>1 DEF Known, IdOf
    <2>2. InternSource(n) = <<names, IdOf(n)>>
      BY <1>1 DEF InternSource
    <2> QED BY <2>1, <2>2
  <1>2. CASE ~Known(n)
    <2>1. InternSource(n) = <<Append(names, n), Len(names) + 1>>
      BY <1>2 DEF InternSource
    <2> QED BY <2>1
  <1> QED BY <1>1, <1>2

LEMMA RegistryInit == Init => ArgInv /\ RegistryInv
  <1> SUFFICES ASSUME Init PROVE ArgInv /\ RegistryInv
    OBVIOUS
  <1>1. ArgInv
    BY DEF Init, ArgInv, Ops, kOff
  <1>2. NoSource \in Sources /\ NoSource.of # Console
    BY BindingAssumption DEF BindingAssumption, NoSource, Sources, Bindings
  <1>3. /\ NoLine \in [wrote : Names \cup {Anonymous}, handle : Sources]
        /\ NoLine.handle = NoSource
    BY <1>2 DEF NoLine
  <1> QED BY <1>1, <1>2, <1>3 DEF Init, RegistryInv, Handle, LinesAttributed

(* A call brings an argument of its kind. *)
LEMMA ArgStep == ASSUME ArgInv, [Next]_vars PROVE ArgInv'
  <1> USE DEF ArgInv
  <1>1. CASE UNCHANGED <<op, arg>>
    BY <1>1
  <1>2. ASSUME NEW t \in Threads, NEW o \in Ops, NEW a \in Names \cup Nat,
               op' = [op EXCEPT ![t] = o], arg' = [arg EXCEPT ![t] = a],
               o = "source" => a \in Names
        PROVE  ArgInv'
    <2>1. op' \in [Threads -> Ops] /\ arg' \in [Threads -> Names \cup Nat]
      BY <1>2
    <2>2. \A u \in Threads : op'[u] = "source" => arg'[u] \in Names
      BY <1>2
    <2> QED BY <2>1, <2>2
  <1>3. ASSUME NEW t \in Threads, NEW o \in Ops \ {"source"},
               op' = [op EXCEPT ![t] = o], arg' = arg
        PROVE  ArgInv'
    BY <1>3
  <1>4. ASSUME NEW t \in Threads, CallAny(t) PROVE ArgInv'
    <2>1. Severities \subseteq Nat /\ HealthStates \subseteq Nat
      BY BindingAssumption DEF BindingAssumption, kOff
    <2>2. ASSUME NEW n \in Names, Call(t, "source", n) PROVE ArgInv'
      BY <1>2, <2>2 DEF Call, Ops
    <2>3. ASSUME NEW l \in Severities, NEW o \in {"level", "emit", "stream"},
                 Call(t, o, l)
          PROVE  ArgInv'
      <3>1. l \in Names \cup Nat /\ o \in Ops /\ o # "source"
        BY <2>1 DEF Ops
      <3>2. op' = [op EXCEPT ![t] = o] /\ arg' = [arg EXCEPT ![t] = l]
        BY <2>3 DEF Call
      <3> QED BY <1>2, <3>1, <3>2
    <2>4. ASSUME NEW state \in HealthStates, Call(t, "health", state) PROVE ArgInv'
      <3>1. state \in Names \cup Nat /\ "health" \in Ops
        BY <2>1 DEF Ops
      <3>2. op' = [op EXCEPT ![t] = "health"] /\ arg' = [arg EXCEPT ![t] = state]
        BY <2>4 DEF Call
      <3> QED BY <1>2, <3>1, <3>2
    <2>5. ASSUME NEW table, Install(t, table) PROVE ArgInv'
      BY <1>3, <2>5 DEF Install, Ops
    <2> QED BY <1>4, <2>2, <2>3, <2>4, <2>5 DEF CallAny
  <1>5. ASSUME NEW t \in Threads, Stream(t) PROVE ArgInv'
    BY <1>3, <1>5 DEF Stream, Ops
  <1>6. ASSUME NEW t \in Threads, Step(t), ~Stream(t) PROVE UNCHANGED <<op, arg>>
    BY <1>6 DEF Step, InstallBinding, ActiveBinding, StoreLatch, StoreBinding,
                LoadBinding, LoadLatch, MakeConsole, Adopt, Reload, SetLogLevel,
                Gate, GetEventSource, EmitEvent, UnboundEmitEvent, ReportHealth,
                UnboundReportHealth, Report
  <1>7. CASE UNCHANGED vars
    BY <1>7 DEF vars, local
  <1> QED BY <1>1, <1>4, <1>5, <1>6, <1>7 DEF Next

LEMMA RegistryStep ==
    ASSUME IInv, ArgInv, RegistryInv, [Next]_vars PROVE RegistryInv'
  <1> USE DEF RegistryInv
  <1>1. CASE UNCHANGED <<names, source, line>>
    BY <1>1 DEF Handle, LinesAttributed
  <1>2. ASSUME NEW t \in Threads, GetEventSource(t) PROVE RegistryInv'
    <2>1. arg[t] \in Names /\ b[t] \in Bindings
      BY <1>2 DEF GetEventSource, IInv, TypeOK, ArgInv
    <2> DEFINE S == IF b[t] = Console THEN {InternSource(arg[t])}
                    ELSE IF b[t] = Null THEN {<<names, 0>>}
                    ELSE {<<names, id>> : id \in 1 .. 2}
    <2>2. PICK r \in S :
             /\ names' = r[1]
             /\ source' = [source EXCEPT ![t] =
                              [name |-> arg[t], id |-> r[2], of |-> b[t]]]
      BY <1>2 DEF GetEventSource
    <2>3. /\ names' \in Seq(Names) /\ Len(names) <= Len(names') /\ r[2] \in Nat
          /\ \A i \in 1 .. Len(names) : names'[i] = names[i]
          /\ b[t] = Console => r[2] \in 1 .. Len(names') /\ names'[r[2]] = arg[t]
      <3>1. CASE b[t] = Console
        <4>1. r = InternSource(arg[t])
          BY <3>1
        <4> QED BY <2>1, <2>2, <3>1, <4>1, InternKeeps
      <3>2. CASE b[t] # Console
        <4>1. r[1] = names /\ r[2] \in Nat
          BY <3>2
        <4> QED BY <2>2, <3>2, <4>1
      <3> QED BY <3>1, <3>2
    <2>4. UNCHANGED line
      BY <1>2 DEF GetEventSource
    <2>5. source' \in [Threads -> Sources]
      BY <2>1, <2>2, <2>3 DEF Sources
    <2>6. ASSUME NEW u \in Threads PROVE Handle(source[u])'
      <3>1. CASE u = t
        <4>1. source'[u] = [name |-> arg[t], id |-> r[2], of |-> b[t]]
          BY <2>2, <3>1
        <4> QED BY <2>3, <4>1 DEF Handle
      <3>2. CASE u # t
        <4>1. source'[u] = source[u] /\ source[u] \in Sources /\ Handle(source[u])
          BY <2>2, <3>2
        <4> QED BY <2>3, <4>1 DEF Handle, Sources
      <3> QED BY <3>1, <3>2
    <2> QED BY <2>3, <2>4, <2>5, <2>6 DEF LinesAttributed
  <1>3. ASSUME NEW t \in Threads, EmitEvent(t) \/ UnboundEmitEvent(t)
        PROVE  RegistryInv'
    <2>1. UNCHANGED <<names, source>>
      BY <1>3 DEF EmitEvent, UnboundEmitEvent, globals
    <2>2. PICK w \in {LookupSource(source[t].id), source[t].name} :
             line' \in {line, Wrote(t, w)}
      BY <1>3 DEF EmitEvent, UnboundEmitEvent
    <2>3. source[t] \in Sources /\ Handle(source[t])
      OBVIOUS
    <2>4. source[t].of = Console => w = source[t].name
      BY <2>3 DEF LookupSource, Handle, Sources
    <2>5. w \in Names \cup {Anonymous}
      BY <2>3 DEF LookupSource, Sources
    <2>6. line' \in [Threads -> [wrote : Names \cup {Anonymous}, handle : Sources]]
      BY <2>2, <2>3, <2>5 DEF Wrote
    <2>7. LinesAttributed'
      BY <2>2, <2>3, <2>4 DEF Wrote, LinesAttributed
    <2> QED BY <2>1, <2>6, <2>7 DEF Handle
  <1>4. ASSUME NEW t \in Threads, ReportHealth(t) \/ UnboundReportHealth(t)
        PROVE  RegistryInv'
    <2>1. UNCHANGED <<names, source>> /\ line' \in {line, [line EXCEPT ![t] = NoLine]}
      BY <1>4 DEF ReportHealth, UnboundReportHealth, Report, globals
    <2>2. /\ NoLine \in [wrote : Names \cup {Anonymous}, handle : Sources]
          /\ NoLine.handle.of # Console
      BY BindingAssumption DEF BindingAssumption, NoLine, NoSource, Sources, Bindings
    <2>3. line' \in [Threads -> [wrote : Names \cup {Anonymous}, handle : Sources]]
      BY <2>1, <2>2
    <2>4. LinesAttributed'
      BY <2>1, <2>2 DEF LinesAttributed
    <2> QED BY <2>1, <2>3, <2>4 DEF Handle
  <1> QED BY <1>1, <1>2, <1>3, <1>4
          DEF Next, CallAny, Call, Install, Step, InstallBinding, ActiveBinding,
              StoreLatch, StoreBinding, LoadBinding, LoadLatch, MakeConsole, Adopt,
              Reload, SetLogLevel, Stream, Gate, vars, local, globals

(* EmitLine of the console names the source that the emitting handle was   *)
(* registered for with InternSourceImpl, whatever was registered since.    *)
THEOREM LinesNameTheirSource == Spec => []LinesAttributed
  <1>1. RegistryInv => LinesAttributed
    BY DEF RegistryInv
  <1>2. IInv /\ ArgInv /\ RegistryInv /\ [Next]_vars => ArgInv' /\ RegistryInv'
    BY ArgStep, RegistryStep
  <1> QED BY <1>1, <1>2, RegistryInit, InvariantHolds, PTL DEF Spec
=============================================================================
