--------------------------- MODULE TelemetryBinding ---------------------------
(***************************************************************************)
(* The telemetry API tier between its call sites and a backend:            *)
(* InstallBinding and ActiveBinding (telemetry_unbound.cpp), the lazily    *)
(* adopted console binding with its runtime level and source registry      *)
(* (telemetry_console_binding.cpp), and the call sites that go through     *)
(* ActiveBinding: GetEventSource, SetLogLevel, EmitEvent, the streams that *)
(* test the level before they build their text (event.hpp) and             *)
(* ReportHealth (health.hpp).                                              *)
(*                                                                         *)
(* Every access to the two global atomics is a step; the tables of an SDK  *)
(* are external.  What an event says is left out: a line is the source it  *)
(* is attributed to.                                                       *)
(***************************************************************************)
EXTENDS Naturals, Sequences

CONSTANTS
    Threads,        \* threads that log or install
    Tables,         \* binding tables an application may install
    Compatible,     \* those whose abi_version is kBindingAbiVersion
    Console,        \* the table of DefaultConsoleBinding
    Null,           \* nullptr
    LoggingBuilt,   \* ENABLE_LOGGING
    Names,          \* names of event sources
    Anonymous,      \* the source of id 0, and of an id nobody knows
    Severities,     \* severities of events and levels that are set
    Env,            \* the number in $XM_LOG_LEVEL, or anything else
    HealthStates,   \* states that are reported
    MaxCalls        \* bound: calls per thread

kInfo == 2
kWarn == 3
kError == 4
kOff == 6

kOk == 0
kDegraded == 1

(* LevelFromEnv: the seed of the console's level *)
EnvLevel == IF Env \in 0 .. kOff THEN Env ELSE kInfo

ASSUME BindingAssumption ==
    /\ Compatible \subseteq Tables
    /\ Console \notin Tables /\ Null \notin Tables \cup {Console}
    /\ Anonymous \notin Names
    /\ Severities \subseteq 0 .. kOff
    /\ HealthStates \subseteq 0 .. 3
    /\ LoggingBuilt \in BOOLEAN /\ MaxCalls \in Nat

VARIABLES
    g_binding, g_explicitly_set,
    made,       \* the static table of DefaultConsoleBinding is initialized
    g_level,    \* the console's runtime level
    names,      \* SourceRegistry::names, index = id
    pc,         \* a thread's next step, or "idle"
    op, arg,    \* the call it is in and its argument
    b,          \* ActiveBinding: b, or InstallBinding: binding
    source,     \* the EventSource a thread holds: name, id and whose id it is
    line,       \* the last line a thread wrote: its source, and the handle's
    calls,      \* ghost: calls so far
    latest,     \* ghost: the table stored by the latest InstallBinding
    chosen,     \* ghost: the level last set through SetLogLevel, in a tuple
    silent      \* ghost: a fault was reported and nobody was told

globals == <<g_binding, g_explicitly_set, made, g_level, names>>
local == <<pc, op, arg, b, source, line, calls>>
ghosts == <<latest, chosen, silent>>
vars == <<globals, local, ghosts>>

NoSource == [name |-> Anonymous, id |-> 0, of |-> Null]
NoLine == [wrote |-> Anonymous, handle |-> NoSource]

Init ==
    /\ g_binding = Null /\ g_explicitly_set = FALSE
    /\ made = FALSE /\ g_level = kInfo /\ names = <<>>
    /\ pc = [t \in Threads |-> "idle"]
    /\ op = [t \in Threads |-> "none"] /\ arg = [t \in Threads |-> kOff]
    /\ b = [t \in Threads |-> Null]
    /\ source = [t \in Threads |-> NoSource]
    /\ line = [t \in Threads |-> NoLine]
    /\ calls = [t \in Threads |-> 0]
    /\ latest = "none" /\ chosen = <<>> /\ silent = FALSE

Goto(t, l) == pc' = [pc EXCEPT ![t] = l]

-----------------------------------------------------------------------------
(* InstallBinding *)

(* A table of another ABI is refused before anything is touched. *)
Install(t, table) ==
    /\ pc[t] = "idle" /\ calls[t] < MaxCalls
    /\ calls' = [calls EXCEPT ![t] = @ + 1]
    /\ op' = [op EXCEPT ![t] = "install"]
    /\ b' = [b EXCEPT ![t] = table]
    /\ Goto(t, IF table = Null \/ table \in Compatible THEN "latch" ELSE "idle")
    /\ UNCHANGED <<globals, arg, source, line, ghosts>>

StoreLatch(t) ==
    /\ pc[t] = "latch"
    /\ g_explicitly_set' = TRUE
    /\ Goto(t, "store")
    /\ UNCHANGED <<g_binding, made, g_level, names, op, arg, b, source, line,
                   calls, ghosts>>

StoreBinding(t) ==
    /\ pc[t] = "store"
    /\ g_binding' = b[t] /\ latest' = b[t]
    /\ Goto(t, "idle")
    /\ UNCHANGED <<g_explicitly_set, made, g_level, names, op, arg, b, source,
                   line, calls, chosen, silent>>

-----------------------------------------------------------------------------
(* ActiveBinding, at the head of every call site *)

Call(t, o, a) ==
    /\ pc[t] = "idle" /\ calls[t] < MaxCalls
    /\ calls' = [calls EXCEPT ![t] = @ + 1]
    /\ op' = [op EXCEPT ![t] = o] /\ arg' = [arg EXCEPT ![t] = a]
    /\ Goto(t, "load")
    /\ UNCHANGED <<globals, b, source, line, ghosts>>

LoadBinding(t) ==
    /\ pc[t] = "load"
    /\ b' = [b EXCEPT ![t] = g_binding]
    /\ Goto(t, IF g_binding = Null THEN "explicit" ELSE "use")
    /\ UNCHANGED <<globals, op, arg, source, line, calls, ghosts>>

LoadLatch(t) ==
    /\ pc[t] = "explicit"
    /\ Goto(t, IF g_explicitly_set \/ ~LoggingBuilt THEN "use" ELSE "make")
    /\ UNCHANGED <<globals, op, arg, b, source, line, calls, ghosts>>

(* Fault: the level is seeded at every call. *)
MakeConsoleAgain(t) ==
    /\ pc[t] = "make"
    /\ made' = TRUE /\ g_level' = EnvLevel
    /\ Goto(t, "adopt")
    /\ UNCHANGED <<g_binding, g_explicitly_set, names, op, arg, b, source, line,
                   calls, ghosts>>

(* DefaultConsoleBinding: the static is initialized once, which seeds the  *)
(* level.                                                                  *)
MakeConsole(t) ==
    /\ pc[t] = "make"
    /\ made' = TRUE
    /\ g_level' = IF made THEN g_level ELSE EnvLevel
    /\ Goto(t, "adopt")
    /\ UNCHANGED <<g_binding, g_explicitly_set, names, op, arg, b, source, line,
                   calls, ghosts>>

(* Fault: a store in place of the compare-and-swap. *)
AdoptByStore(t) ==
    /\ pc[t] = "adopt"
    /\ g_binding' = Console
    /\ Goto(t, "reload")
    /\ UNCHANGED <<g_explicitly_set, made, g_level, names, op, arg, b, source,
                   line, calls, ghosts>>

(* compare_exchange of nullptr by the console table *)
Adopt(t) ==
    /\ pc[t] = "adopt"
    /\ g_binding' = IF g_binding = Null THEN Console ELSE g_binding
    /\ Goto(t, "reload")
    /\ UNCHANGED <<g_explicitly_set, made, g_level, names, op, arg, b, source,
                   line, calls, ghosts>>

(* Fault: the binding found first is kept. *)
ReloadNothing(t) ==
    /\ pc[t] = "reload"
    /\ Goto(t, "use")
    /\ UNCHANGED <<globals, op, arg, b, source, line, calls, ghosts>>

Reload(t) ==
    /\ pc[t] = "reload"
    /\ b' = [b EXCEPT ![t] = g_binding]
    /\ Goto(t, "use")
    /\ UNCHANGED <<globals, op, arg, source, line, calls, ghosts>>

-----------------------------------------------------------------------------
(* The call sites, with the table ActiveBinding returned *)

Known(n) == \E i \in 1 .. Len(names) : names[i] = n
IdOf(n) == CHOOSE i \in 1 .. Len(names) : names[i] = n

(* Fault: ids from 0, as the vector's own index. *)
InternSourceZeroBased(n) ==
    IF Known(n) THEN <<names, IdOf(n) - 1>> ELSE <<Append(names, n), Len(names)>>

(* InternSourceImpl: the registry and the id, under its mutex *)
InternSource(n) ==
    IF Known(n) THEN <<names, IdOf(n)>> ELSE <<Append(names, n), Len(names) + 1>>

(* LookupSource *)
LookupSource(id) ==
    IF id = 0 \/ id > Len(names) THEN Anonymous ELSE names[id]

(* GetEventSource: an SDK hands out an id of its own. *)
GetEventSource(t) ==
    /\ pc[t] = "use" /\ op[t] = "source"
    /\ \E r \in IF b[t] = Console THEN {InternSource(arg[t])}
                ELSE IF b[t] = Null THEN {<<names, 0>>}
                ELSE {<<names, id>> : id \in 1 .. 2} :
         /\ names' = r[1]
         /\ source' = [source EXCEPT ![t] =
                          [name |-> arg[t], id |-> r[2], of |-> b[t]]]
    /\ Goto(t, "idle")
    /\ UNCHANGED <<g_binding, g_explicitly_set, made, g_level, op, arg, b, line,
                   calls, ghosts>>

(* SetLogLevel: nothing when unbound, the SDK's own business with an SDK. *)
SetLogLevel(t) ==
    /\ pc[t] = "use" /\ op[t] = "level"
    /\ IF b[t] = Console THEN g_level' = arg[t] /\ chosen' = <<arg[t]>>
                         ELSE UNCHANGED <<g_level, chosen>>
    /\ Goto(t, "idle")
    /\ UNCHANGED <<g_binding, g_explicitly_set, made, names, op, arg, b, source,
                   line, calls, latest, silent>>

ShouldLog(sev) == sev # kOff /\ sev >= g_level

(* The gate in front of a table; unbound it is the threshold of stderr, *)
(* and with an SDK its own business.                                    *)
Refused(t) ==
    \/ b[t] = Console /\ ~ShouldLog(arg[t])
    \/ b[t] = Null /\ arg[t] < kWarn

(* XM_*_STREAM: ShouldLog of one ActiveBinding, and then EmitEventDyn,     *)
(* which asks for the binding again.                                       *)
Stream(t) ==
    /\ pc[t] = "use" /\ op[t] = "stream"
    /\ op' = [op EXCEPT ![t] = "emit"]
    /\ Goto(t, IF Refused(t) THEN "idle" ELSE "load")
    /\ UNCHANGED <<globals, arg, b, source, line, calls, ghosts>>

(* EmitEvent, up to the gate before the arguments are packed, and          *)
(* EmitEventDyn                                                            *)
Gate(t) ==
    /\ pc[t] = "use" /\ op[t] = "emit"
    /\ Goto(t, IF Refused(t) THEN "idle" ELSE "emit")
    /\ UNCHANGED <<globals, op, arg, b, source, line, calls, ghosts>>

Wrote(t, name) == [line EXCEPT ![t] = [wrote |-> name, handle |-> source[t]]]

(* EmitEventImpl or EmitEventDynImpl with its second gate, and EmitLine; *)
(* an SDK's ring is not ours.                                            *)
EmitEvent(t) ==
    /\ pc[t] = "emit" /\ b[t] # Null
    /\ line' = IF b[t] = Console /\ ShouldLog(arg[t])
                 THEN Wrote(t, LookupSource(source[t].id)) ELSE line
    /\ Goto(t, "idle")
    /\ UNCHANGED <<globals, op, arg, b, source, calls, ghosts>>

(* UnboundEmitEvent and UnboundEmitEventDyn have the name from the handle. *)
UnboundEmitEvent(t) ==
    /\ pc[t] = "emit" /\ b[t] = Null
    /\ line' = Wrote(t, source[t].name)
    /\ Goto(t, "idle")
    /\ UNCHANGED <<globals, op, arg, b, source, calls, ghosts>>

(* Fault: a degraded subsystem counts as information. *)
HealthSeverityLow(state) == IF state <= kDegraded THEN kInfo ELSE kError

(* The severity of a report in ReportHealthImpl *)
HealthSeverity(state) ==
    CASE state = kOk -> kInfo
      [] state = kDegraded -> kWarn
      [] OTHER -> kError

(* ReportHealth writes one anonymous line, or hands the report to an SDK,  *)
(* or leaves it.                                                           *)
Report(t, says) ==
    /\ line' = IF says THEN [line EXCEPT ![t] = NoLine] ELSE line
    /\ silent' = (silent \/ (b[t] \notin Tables /\ arg[t] # kOk /\ ~says))
    /\ Goto(t, "idle")
    /\ UNCHANGED <<globals, op, arg, b, source, calls, latest, chosen>>

(* report_health of the active table, which is ReportHealthImpl for the    *)
(* console.                                                                *)
ReportHealth(t) ==
    /\ pc[t] = "use" /\ op[t] = "health" /\ b[t] # Null
    /\ Report(t, b[t] = Console /\ ShouldLog(HealthSeverity(arg[t])))

UnboundReportHealth(t) ==
    /\ pc[t] = "use" /\ op[t] = "health" /\ b[t] = Null
    /\ Report(t, arg[t] # kOk)

InstallBinding(t) == StoreLatch(t) \/ StoreBinding(t)
ActiveBinding(t) ==
    LoadBinding(t) \/ LoadLatch(t) \/ MakeConsole(t) \/ Adopt(t) \/ Reload(t)

CallAny(t) ==
    \/ \E n \in Names : Call(t, "source", n)
    \/ \E l \in Severities, o \in {"level", "emit", "stream"} : Call(t, o, l)
    \/ \E state \in HealthStates : Call(t, "health", state)
    \/ \E table \in Tables \cup {Null} : Install(t, table)

Step(t) ==
    \/ InstallBinding(t) \/ ActiveBinding(t)
    \/ GetEventSource(t) \/ SetLogLevel(t)
    \/ Stream(t) \/ Gate(t) \/ EmitEvent(t) \/ UnboundEmitEvent(t)
    \/ ReportHealth(t) \/ UnboundReportHealth(t)

Next == \E t \in Threads : CallAny(t) \/ Step(t)

Spec == Init /\ [][Next]_vars

-----------------------------------------------------------------------------
(* Properties. *)

(* A concurrent explicit InstallBinding of a table wins over adoption: the *)
(* active binding is the one stored last, or the console where that was    *)
(* none.                                                                   *)
InstallWins ==
    \/ g_binding = latest
    \/ g_binding \in {Null, Console} /\ latest \in {"none", Null}

(* Zero init calls: with logging built in, a call site goes unbound only   *)
(* after an application has called InstallBinding.                         *)
UnboundOnlyIfExplicit ==
    \A t \in Threads :
        pc[t] \in {"use", "emit"} /\ b[t] = Null =>
            g_explicitly_set \/ ~LoggingBuilt

(* The seed from the environment never undoes a SetLogLevel, whichever     *)
(* threads race through the first adoption.                                *)
LevelSticks == chosen # <<>> => <<g_level>> = chosen

(* A line names the source its handle was registered for, for every handle *)
(* that came from the console: its ids stay good while other threads       *)
(* register theirs and while tables come and go.                           *)
LinesAttributed ==
    \A t \in Threads :
        line[t].handle.of = Console => line[t].wrote = line[t].handle.name

(* Never silent about a fault: whatever tables come and go while it is on  *)
(* its way, a report of a state that is not OK reaches stderr or an SDK,   *)
(* unless somebody, through SetLogLevel or the environment, asked for a    *)
(* level of the console that may exclude it.                               *)
FaultsAreHeard == silent => chosen # <<>> \/ EnvLevel > kWarn

-----------------------------------------------------------------------------
(* Why: the inductive invariant. *)

Bindings == Tables \cup {Console, Null}
Labels == {"idle", "latch", "store", "load", "explicit", "make", "adopt",
           "reload", "use", "emit"}

TypeOK ==
    /\ g_binding \in Bindings
    /\ g_explicitly_set \in BOOLEAN /\ made \in BOOLEAN
    /\ pc \in [Threads -> Labels] /\ b \in [Threads -> Bindings]

(* The latch is set before anything is stored, so that a binding which the *)
(* adoption put there is gone again only after an explicit call.           *)
LatchInv ==
    \A t \in Threads :
        /\ pc[t] = "store" => g_explicitly_set
        /\ pc[t] = "reload" => g_binding # Null \/ g_explicitly_set

(* Nobody has the console, or a level set through it, before it is made. *)
MadeInv ==
    /\ g_binding = Console \/ chosen # <<>> => made
    /\ \A t \in Threads : b[t] = Console \/ pc[t] = "adopt" => made

(* Until a level is chosen, the console that is made has that of the       *)
(* environment.                                                            *)
SeedInv == made /\ chosen = <<>> => g_level = EnvLevel

IInv ==
    /\ TypeOK /\ LatchInv /\ MadeInv /\ SeedInv
    /\ InstallWins /\ UnboundOnlyIfExplicit /\ LevelSticks /\ FaultsAreHeard

(* An id the console has given out stays that of its name. *)
Handle(s) == s.of = Console => s.id \in 1 .. Len(names) /\ names[s.id] = s.name

Sources == [name : Names \cup {Anonymous}, id : Nat, of : Bindings]

Ops == {"none", "install", "source", "level", "emit", "stream", "health"}

(* The argument of a GetEventSource is a name. *)
ArgInv ==
    /\ op \in [Threads -> Ops] /\ arg \in [Threads -> Names \cup Nat]
    /\ \A t \in Threads : op[t] = "source" => arg[t] \in Names

(* Why the lines are attributed: the registry only grows, under handles    *)
(* that threads hold from before.                                          *)
RegistryInv ==
    /\ names \in Seq(Names)
    /\ source \in [Threads -> Sources]
    /\ line \in [Threads -> [wrote : Names \cup {Anonymous}, handle : Sources]]
    /\ \A t \in Threads : Handle(source[t])
    /\ LinesAttributed

-----------------------------------------------------------------------------
(* What the comment on g_explicitly_set says. *)

(* "Once set, the interim logging binding is never auto-adopted again": an *)
(* explicit unbind that has returned is not undone.                        *)
UnbindIsAuthoritative == latest = Null => g_binding # Console

=============================================================================
