----------------------------- MODULE TraceContext -----------------------------
(***************************************************************************)
(* Correlation across threads: the thread-local current context, the       *)
(* ContextGuard and Span scopes that set and restore it, and the envelopes *)
(* that carry a context from one thread to another (context.hpp, span.hpp).*)
(*                                                                         *)
(* A trace id, two words in the code, is one id here; ids come from NextId,*)
(* never 0, and no two of them are equal.  The carrier of an envelope is   *)
(* the application's: it may lose, delay, repeat, cut or garble it, and    *)
(* Extract takes whatever 24 bytes it is given.  The scopes of a thread    *)
(* are C++ objects of nested blocks, a stack.                              *)
(***************************************************************************)
EXTENDS Integers, Sequences, FiniteSets, SequencesExt

CONSTANTS
    Threads,
    kMaxSpanLinks,  \* 4
    Garbage,        \* what 24 bytes that nobody injected may read as
    MaxIds,         \* bound: ids minted
    MaxDepth,       \* bound: scopes open on a thread
    MaxEnvelopes    \* bound: contexts injected, and garbled ones

Contexts == [trace : Nat, span : Nat]

ASSUME ContextAssumption ==
    /\ kMaxSpanLinks \in Nat /\ MaxIds \in Nat /\ MaxDepth \in Nat
    /\ Garbage \subseteq Contexts /\ MaxEnvelopes \in Nat

None == [trace |-> 0, span |-> 0]

(* TraceId::valid, Context::valid *)
IsValid(ctx) == ctx.trace # 0

VARIABLES
    t_current_context,
    scopes,     \* the open scopes of a thread, the innermost last
    envelopes,  \* contexts some message carries, as they were injected
    garbled,    \* contexts some message carries, as the carrier made them
    records,    \* the contexts and parents that emit_span was given
    ids,        \* ids minted so far
    traceOf,    \* ghost: the trace a span id was minted in
    base        \* ghost: what the thread last set outside every scope

vars == <<t_current_context, scopes, envelopes, garbled, records, ids, traceOf, base>>

Init ==
    /\ t_current_context = [t \in Threads |-> None]
    /\ scopes = [t \in Threads |-> <<>>]
    /\ envelopes = {} /\ garbled = {}
    /\ records = {} /\ ids = 0 /\ traceOf = <<>>
    /\ base = [t \in Threads |-> None]

SetCurrent(t, ctx) ==
    t_current_context' = [t_current_context EXCEPT ![t] = ctx]

Open(t, scope) == scopes' = [scopes EXCEPT ![t] = Append(@, scope)]
CanOpen(t) == Len(scopes[t]) < MaxDepth

(* NextId: k fresh ids, of which the last is a span of the given trace     *)
NextIds(k, trace) ==
    /\ ids + k <= MaxIds
    /\ ids' = ids + k
    /\ traceOf' = traceOf \o [i \in 1 .. k |-> IF i = k THEN trace ELSE 0]

-----------------------------------------------------------------------------

(* Inject into an envelope; the carrier keeps or loses it. *)
Inject(t) ==
    /\ Cardinality(envelopes) < MaxEnvelopes
    /\ envelopes' = envelopes \cup {t_current_context[t]}
    /\ UNCHANGED <<t_current_context, scopes, garbled, records, ids, traceOf, base>>

(* The carrier makes an envelope of something else. *)
Garble ==
    /\ Cardinality(garbled) < MaxEnvelopes
    /\ \E ctx \in Garbage : garbled' = garbled \cup {ctx}
    /\ UNCHANGED <<t_current_context, scopes, envelopes, records, ids, traceOf, base>>

(* Extract: a short envelope, or none, is the zero context; nothing else   *)
(* is looked at.                                                           *)
Extract == envelopes \cup garbled \cup {None}

(* SetCurrentContext, which a thread uses outside its spans: a handler     *)
(* "MUST use" a guard or a span instead.                                   *)
SetCurrentContext(t, ctx) ==
    /\ \A i \in 1 .. Len(scopes[t]) : scopes[t][i].kind = "guard"
    /\ SetCurrent(t, ctx)
    /\ base' = IF scopes[t] = <<>> THEN [base EXCEPT ![t] = ctx] ELSE base
    /\ UNCHANGED <<scopes, envelopes, garbled, records, ids, traceOf>>

Guard(t, ctx) ==
    /\ CanOpen(t)
    /\ Open(t, [kind |-> "guard", saved |-> t_current_context[t]])
    /\ SetCurrent(t, ctx)
    /\ UNCHANGED <<envelopes, garbled, records, base>>

(* ContextGuard of an extracted context *)
ContextGuard(t, ctx) ==
    /\ Guard(t, ctx)
    /\ UNCHANGED <<ids, traceOf>>

(* ContextGuard of NewTrace: a trace id and the id of its root span *)
NewTrace(t) ==
    /\ Guard(t, [trace |-> ids + 1, span |-> ids + 2])
    /\ NextIds(2, ids + 1)

(* Begin: a child of the current context, or the root of a trace of its    *)
(* own with no parent                                                      *)
Child(saved, parent, trace, span, t) ==
    /\ Open(t, [kind |-> "span", saved |-> saved, parent |-> parent,
                links |-> 0, own |-> [trace |-> trace, span |-> span]])
    /\ SetCurrent(t, [trace |-> trace, span |-> span])

(* Fault: the parent of a root is not reset. *)
BeginKeepsParent(t) ==
    LET saved == t_current_context[t] IN
    /\ CanOpen(t)
    /\ IF IsValid(saved)
         THEN Child(saved, saved.span, saved.trace, ids + 1, t) /\ NextIds(1, saved.trace)
         ELSE Child(saved, saved.span, ids + 1, ids + 2, t) /\ NextIds(2, ids + 1)
    /\ UNCHANGED <<envelopes, garbled, records, base>>

Begin(t) ==
    LET saved == t_current_context[t] IN
    /\ CanOpen(t)
    /\ IF IsValid(saved)
         THEN Child(saved, saved.span, saved.trace, ids + 1, t) /\ NextIds(1, saved.trace)
         ELSE Child(saved, 0, ids + 1, ids + 2, t) /\ NextIds(2, ids + 1)
    /\ UNCHANGED <<envelopes, garbled, records, base>>

(* AddLink on an open span: extras and invalid contexts are dropped.  Of   *)
(* the links only their number is kept.                                    *)
AddLink(t, i, ctx) ==
    /\ scopes[t][i].kind = "span"
    /\ scopes[t][i].links < kMaxSpanLinks /\ IsValid(ctx)
    /\ scopes' = [scopes EXCEPT ![t][i].links = @ + 1]
    /\ UNCHANGED <<t_current_context, envelopes, garbled, records, ids, traceOf, base>>

(* ~ContextGuard *)
EndGuard(t) ==
    /\ scopes[t] # <<>> /\ Last(scopes[t]).kind = "guard"
    /\ SetCurrent(t, Last(scopes[t]).saved)
    /\ scopes' = [scopes EXCEPT ![t] = Front(@)]
    /\ UNCHANGED <<envelopes, garbled, records, ids, traceOf, base>>

(* Fault: the context is read after it was restored. *)
EndSpanReadsRestored(t) ==
    LET scope == Last(scopes[t]) IN
    /\ scopes[t] # <<>> /\ scope.kind = "span"
    /\ SetCurrent(t, scope.saved)
    /\ records' = records \cup {[ctx |-> scope.saved, parent |-> scope.parent]}
    /\ scopes' = [scopes EXCEPT ![t] = Front(@)]
    /\ UNCHANGED <<envelopes, garbled, ids, traceOf, base>>

(* Fault: the context is not restored. *)
EndSpanNoRestore(t) ==
    LET scope == Last(scopes[t]) IN
    /\ scopes[t] # <<>> /\ scope.kind = "span"
    /\ records' = records \cup {[ctx |-> t_current_context[t],
                                 parent |-> scope.parent]}
    /\ scopes' = [scopes EXCEPT ![t] = Front(@)]
    /\ UNCHANGED <<t_current_context, envelopes, garbled, ids, traceOf, base>>

(* ~Span: restore, then emit what was current; nothing when unbound *)
EndSpan(t) ==
    LET scope == Last(scopes[t]) IN
    /\ scopes[t] # <<>> /\ scope.kind = "span"
    /\ SetCurrent(t, scope.saved)
    /\ \/ records' = records \cup {[ctx |-> t_current_context[t],
                                    parent |-> scope.parent]}
       \/ UNCHANGED records
    /\ scopes' = [scopes EXCEPT ![t] = Front(@)]
    /\ UNCHANGED <<envelopes, garbled, ids, traceOf, base>>

Next ==
  \/ Garble
  \/ \E t \in Threads :
        \/ Inject(t) \/ NewTrace(t) \/ Begin(t) \/ EndGuard(t) \/ EndSpan(t)
        \/ \E ctx \in Extract :
             \/ SetCurrentContext(t, ctx) \/ ContextGuard(t, ctx)
             \/ \E i \in 1 .. Len(scopes[t]) : AddLink(t, i, ctx)

Spec == Init /\ [][Next]_vars

-----------------------------------------------------------------------------
(* Properties. *)

(* A handler leaves its thread as it found it: with no scope open, the     *)
(* current context is the one last set outside every scope, whatever was   *)
(* guarded, opened or set in between.                                      *)
NoPollution == \A t \in Threads : scopes[t] = <<>> => t_current_context[t] = base[t]

(* Events inside a span carry its id: while a span is the innermost scope, *)
(* its own context is current, also after inner guards and spans ended.    *)
SpanIsCurrent ==
    \A t \in Threads :
        scopes[t] # <<>> /\ Last(scopes[t]).kind = "span" =>
            t_current_context[t] = Last(scopes[t]).own

(* The place of a span in the trees, given its parent.  A span has an id   *)
(* of its own, minted for its trace.  Its parent is an earlier span of the *)
(* same trace; or it has none and is the first of a trace minted with it;  *)
(* or what it took for its parent's context came from a garbled envelope.  *)
InTree(ctx, parent) ==
    /\ ctx.span \in 1 .. ids /\ traceOf[ctx.span] = ctx.trace
    /\ \/ parent \in 1 .. ctx.span - 1 /\ traceOf[parent] = ctx.trace
       \/ parent = 0 /\ ctx.span = ctx.trace + 1
       \/ [trace |-> ctx.trace, span |-> parent] \in garbled

(* The records of all threads form trees, one for each trace, also where a *)
(* parent's id came in an envelope, and each span is recorded once.  Only  *)
(* a garbled envelope leads out of them, and only at the span that has it  *)
(* for its parent: the spans below that one are in its tree.               *)
RecordsFormTrees ==
    \A r \in records :
        /\ InTree(r.ctx, r.parent)
        /\ \A s \in records : s.ctx.span = r.ctx.span => s = r

-----------------------------------------------------------------------------
(* Why: the inductive invariant. *)

Guards == [kind : {"guard"}, saved : Contexts]
Spans == [kind : {"span"}, saved : Contexts, parent : Nat,
          links : Nat, own : Contexts]
Records == [ctx : Contexts, parent : Nat]

TypeOK ==
    /\ t_current_context \in [Threads -> Contexts] /\ base \in [Threads -> Contexts]
    /\ scopes \in [Threads -> Seq(Guards \cup Spans)]
    /\ envelopes \subseteq Contexts /\ garbled \subseteq Contexts
    /\ records \subseteq Records
    /\ ids \in Nat /\ traceOf \in Seq(Nat) /\ Len(traceOf) = ids

(* What is current in the i-th scope of a thread, or will be again when    *)
(* the scopes inside it are gone; i = 0 is outside every scope.            *)
Under(t, i) ==
    IF i = Len(scopes[t]) THEN t_current_context[t] ELSE scopes[t][i + 1].saved

StackInv ==
    \A t \in Threads :
        /\ Under(t, 0) = base[t]
        /\ \A i \in 1 .. Len(scopes[t]) :
             scopes[t][i].kind = "span" => Under(t, i) = scopes[t][i].own

(* A valid context is that of a span that was minted in its trace, or one  *)
(* that the carrier made up.                                               *)
Minted(ctx) ==
    \/ ~IsValid(ctx) \/ ctx \in garbled
    \/ ctx.span \in 1 .. ids /\ traceOf[ctx.span] = ctx.trace

(* Whatever a thread has, will have again or may receive. *)
ContextInv ==
    /\ \A t \in Threads :
         /\ Minted(t_current_context[t])
         /\ \A i \in 1 .. Len(scopes[t]) : Minted(scopes[t][i].saved)
    /\ \A ctx \in envelopes : Minted(ctx)

SpanInv ==
    /\ \A t \in Threads : \A i \in 1 .. Len(scopes[t]) :
         scopes[t][i].kind = "span" => InTree(scopes[t][i].own, scopes[t][i].parent)
    /\ \A r \in records : InTree(r.ctx, r.parent)

(* No span is open twice, or open and recorded, or recorded twice. *)
OnceInv ==
    /\ \A t, u \in Threads :
         \A i \in 1 .. Len(scopes[t]), j \in 1 .. Len(scopes[u]) :
            scopes[t][i].kind = "span" /\ scopes[u][j].kind = "span" =>
                scopes[t][i].own.span # scopes[u][j].own.span \/ (t = u /\ i = j)
    /\ \A r \in records, t \in Threads : \A i \in 1 .. Len(scopes[t]) :
         scopes[t][i].kind = "span" => r.ctx.span # scopes[t][i].own.span
    /\ \A r, s \in records : r.ctx.span = s.ctx.span => r = s

IInv == TypeOK /\ StackInv /\ ContextInv /\ SpanInv /\ OnceInv

=============================================================================
