---------------------------- MODULE TelemetryProofs ----------------------------
(***************************************************************************)
(* What the telemetry handles keep between calls, for any number of        *)
(* threads.                                                                *)
(*                                                                         *)
(* Contexts: they are restored, events carry the span they happen in and   *)
(* records form trees, for any ids, links and nested scopes, whatever      *)
(* bytes the carrier of the envelopes delivers: what it garbles is a       *)
(* parent nobody minted, and nothing else.                                 *)
(*                                                                         *)
(* Metric slots: counts, sums, extremes and bucket ranks are those of the  *)
(* calls that are past the step, for any samples, infinite ones and NaN    *)
(* too, and any number of calls and buckets.  Sums over sets and powers of two are reasoned about by    *)
(* induction with a set in place of the formula.                           *)
(***************************************************************************)
EXTENDS TraceContext, MetricSlots, SequenceTheorems, FiniteSetTheorems, TLAPS

-----------------------------------------------------------------------------
(* CONTEXTS *)

Scope == Guards \cup Spans

-----------------------------------------------------------------------------
(* Stacks. *)

(* A new innermost scope. *)
LEMMA OpenShape ==
    ASSUME TypeOK, NEW t \in Threads, NEW s \in Scope, Open(t, s)
    PROVE  /\ scopes' \in [Threads -> Seq(Scope)]
           /\ Len(scopes'[t]) = Len(scopes[t]) + 1
           /\ scopes'[t][Len(scopes[t]) + 1] = s
           /\ \A i \in 1 .. Len(scopes[t]) : scopes'[t][i] = scopes[t][i]
           /\ \A u \in Threads \ {t} : scopes'[u] = scopes[u]
  <1>1. scopes \in [Threads -> Seq(Scope)] /\ scopes[t] \in Seq(Scope)
    BY DEF TypeOK, Scope
  <1>2. scopes' = [scopes EXCEPT ![t] = Append(scopes[t], s)]
    BY DEF Open
  <1> HIDE DEF Scope
  <1> QED BY <1>1, <1>2

LEMMA FrontShape ==
    ASSUME NEW S, NEW s \in Seq(S), Len(s) # 0
    PROVE  /\ Front(s) \in Seq(S) /\ Len(Front(s)) = Len(s) - 1
           /\ \A i \in 1 .. Len(s) - 1 : Front(s)[i] = s[i]
  <1>1. PICK n \in Nat : n = Len(s) - 1
    OBVIOUS
  <1>0. \A i \in 1 .. n : s[i] \in S
    BY <1>1
  <1>2. /\ SubSeq(s, 1, n) \in Seq(S)
        /\ Len(SubSeq(s, 1, n)) = IF 1 <= n THEN n - 1 + 1 ELSE 0
        /\ \A i \in 1 .. n - 1 + 1 : SubSeq(s, 1, n)[i] = s[1 + i - 1]
    BY <1>0, SubSeqProperties
  <1> QED BY <1>1, <1>2 DEF Front

(* The innermost scope ends. *)
LEMMA CloseShape ==
    ASSUME TypeOK, NEW t \in Threads, scopes[t] # <<>>,
           scopes' = [scopes EXCEPT ![t] = Front(@)]
    PROVE  /\ scopes' \in [Threads -> Seq(Scope)]
           /\ Len(scopes[t]) \in Nat \ {0}
           /\ Len(scopes'[t]) = Len(scopes[t]) - 1
           /\ Last(scopes[t]) = scopes[t][Len(scopes[t])]
           /\ \A i \in 1 .. Len(scopes[t]) - 1 : scopes'[t][i] = scopes[t][i]
           /\ \A u \in Threads \ {t} : scopes'[u] = scopes[u]
  <1>1. scopes \in [Threads -> Seq(Scope)] /\ scopes[t] \in Seq(Scope)
    BY DEF TypeOK, Scope
  <1> HIDE DEF Scope
  <1>2. Len(scopes[t]) \in Nat \ {0}
    BY <1>1
  <1>3. /\ Front(scopes[t]) \in Seq(Scope)
        /\ Len(Front(scopes[t])) = Len(scopes[t]) - 1
        /\ \A i \in 1 .. Len(scopes[t]) - 1 : Front(scopes[t])[i] = scopes[t][i]
    BY <1>1, <1>2, FrontShape
  <1>4. Last(scopes[t]) = scopes[t][Len(scopes[t])]
    BY DEF Last
  <1>5. scopes'[t] = Front(scopes[t]) /\ \A u \in Threads \ {t} : scopes'[u] = scopes[u]
    BY <1>1
  <1>6. scopes' \in [Threads -> Seq(Scope)]
    BY <1>1, <1>3
  <1> QED BY <1>2, <1>3, <1>4, <1>5, <1>6

(* The scopes of a thread, one by one. *)
LEMMA ScopeType ==
    ASSUME TypeOK, NEW t \in Threads, NEW i \in 1 .. Len(scopes[t])
    PROVE  /\ scopes[t][i] \in Scope /\ scopes[t][i].saved \in Contexts
           /\ scopes[t][i].kind \in {"guard", "span"}
           /\ scopes[t][i].kind = "span" => scopes[t][i] \in Spans
  <1>1. scopes[t] \in Seq(Scope)
    BY DEF TypeOK, Scope
  <1>2. scopes[t][i] \in Scope
    <2> HIDE DEF Scope
    <2> QED BY <1>1
  <1> QED BY <1>2 DEF Scope, Guards, Spans

-----------------------------------------------------------------------------
(* Ids. *)

(* NextId goes on where it was, and the last id is a span of the trace. *)
LEMMA Minting ==
    ASSUME TypeOK, NEW k \in {1, 2}, NEW trace \in Nat, NextIds(k, trace)
    PROVE  /\ ids' = ids + k /\ traceOf' \in Seq(Nat) /\ Len(traceOf') = ids'
           /\ \A i \in 1 .. ids : traceOf'[i] = traceOf[i]
           /\ traceOf'[ids'] = trace
  <1> DEFINE fresh == [i \in 1 .. k |-> IF i = k THEN trace ELSE 0]
  <1>1. fresh \in Seq(Nat) /\ Len(fresh) = k /\ fresh[k] = trace
    OBVIOUS
  <1>2. ids' = ids + k /\ traceOf' = traceOf \o fresh
    BY DEF NextIds
  <1>3. ids \in Nat /\ traceOf \in Seq(Nat) /\ Len(traceOf) = ids
    BY DEF TypeOK
  <1> HIDE DEF fresh
  <1> QED BY <1>1, <1>2, <1>3

(* Ids and garbled contexts that are there stay what they are: nothing or  *)
(* more is minted.                                                         *)
Extends ==
    /\ garbled \subseteq garbled' /\ garbled' \subseteq Contexts
    /\ ids' \in Nat /\ ids <= ids' /\ traceOf' \in Seq(Nat) /\ Len(traceOf') = ids'
    /\ \A i \in 1 .. ids : traceOf'[i] = traceOf[i]

LEMMA NothingMinted ==
    ASSUME TypeOK, UNCHANGED <<garbled, ids, traceOf>> PROVE Extends
  BY DEF TypeOK, Extends

LEMMA MoreMinted ==
    ASSUME TypeOK, NEW k \in {1, 2}, NEW trace \in Nat, NextIds(k, trace),
           UNCHANGED garbled
    PROVE  Extends /\ ids' = ids + k /\ traceOf'[ids'] = trace
  <1>1. ids \in Nat /\ ids + k \in Nat /\ ids <= ids + k
    BY DEF TypeOK
  <1>2. /\ ids' = ids + k /\ traceOf' \in Seq(Nat) /\ Len(traceOf') = ids'
        /\ \A i \in 1 .. ids : traceOf'[i] = traceOf[i]
        /\ traceOf'[ids'] = trace
    BY Minting
  <1> QED BY <1>1, <1>2 DEF Extends, TypeOK

(* A context that was minted is one after more ids are, and so is a span   *)
(* in its tree.                                                            *)
LEMMA MintedKept ==
    ASSUME TypeOK, Extends, NEW c \in Contexts, Minted(c)
    PROVE  \/ ~IsValid(c) \/ c \in garbled'
           \/ c.span \in 1 .. ids' /\ traceOf'[c.span] = c.trace
  BY DEF TypeOK, Extends, Minted, Contexts

LEMMA InTreeKept ==
    ASSUME TypeOK, Extends, NEW c \in Contexts, NEW p \in Nat, InTree(c, p)
    PROVE  /\ c.span \in 1 .. ids' /\ traceOf'[c.span] = c.trace
           /\ \/ p \in 1 .. c.span - 1 /\ traceOf'[p] = c.trace
              \/ p = 0 /\ c.span = c.trace + 1
              \/ [trace |-> c.trace, span |-> p] \in garbled'
  <1>1. /\ ids \in Nat /\ c.span \in 1 .. ids /\ traceOf[c.span] = c.trace
        /\ \/ p \in 1 .. c.span - 1 /\ traceOf[p] = c.trace
           \/ p = 0 /\ c.span = c.trace + 1
           \/ [trace |-> c.trace, span |-> p] \in garbled
    BY DEF InTree, TypeOK
  <1>2. p \in 1 .. c.span - 1 => p \in 1 .. ids
    BY <1>1
  <1> QED BY <1>1, <1>2 DEF Extends

-----------------------------------------------------------------------------
(* A scope opens: a guard or a span, with nothing or more minted. *)

LEMMA OpenInv ==
    ASSUME IInv, NEW t \in Threads, NEW s \in Scope, NEW c \in Contexts,
           Open(t, s), SetCurrent(t, c), Extends,
           UNCHANGED <<envelopes, records, base>>,
           s.saved = t_current_context[t],
           \/ ~IsValid(c) \/ c \in garbled'
           \/ c.span \in 1 .. ids' /\ traceOf'[c.span] = c.trace,
           s.kind = "span" =>
              /\ s.own = c /\ c.span \in ids + 1 .. ids' /\ traceOf'[c.span] = c.trace
              /\ \/ s.parent \in 1 .. c.span - 1 /\ traceOf'[s.parent] = c.trace
                 \/ s.parent = 0 /\ c.span = c.trace + 1
                 \/ [trace |-> c.trace, span |-> s.parent] \in garbled'
    PROVE  IInv'
  <1>1. TypeOK /\ StackInv /\ ContextInv /\ SpanInv /\ OnceInv
    BY DEF IInv
  <1>0. PICK n \in Nat : n = Len(scopes[t])
    <2>1. scopes[t] \in Seq(Scope)
      BY <1>1 DEF TypeOK, Scope
    <2>2. Len(scopes[t]) \in Nat
      <3> HIDE DEF Scope
      <3> QED BY <2>1
    <2> QED BY <2>2
  <1>2. /\ scopes' \in [Threads -> Seq(Scope)]
        /\ Len(scopes'[t]) = n + 1 /\ scopes'[t][n + 1] = s
        /\ \A i \in 1 .. n : scopes'[t][i] = scopes[t][i]
        /\ \A u \in Threads \ {t} : scopes'[u] = scopes[u]
    BY <1>0, <1>1, OpenShape
  <1>3. n \in Nat /\ \A u \in Threads : Len(scopes[u]) \in Nat
    BY <1>1 DEF TypeOK
  <1>4. /\ t_current_context' \in [Threads -> Contexts]
        /\ t_current_context'[t] = c
        /\ \A u \in Threads \ {t} : t_current_context'[u] = t_current_context[u]
    BY <1>1 DEF TypeOK, SetCurrent
  <1>5. TypeOK'
    BY <1>1, <1>2, <1>4 DEF TypeOK, Scope, Extends
  <1>6. ASSUME NEW u \in Threads, NEW i \in 1 .. Len(scopes'[u])
        PROVE  \/ u = t /\ i = n + 1
               \/ i \in 1 .. Len(scopes[u]) /\ scopes'[u][i] = scopes[u][i]
    <2>1. CASE u = t
      BY <1>0, <1>2, <2>1
    <2>2. CASE u # t
      BY <1>2, <2>2
    <2> QED BY <2>1, <2>2
  <1>7. StackInv'
    <2> SUFFICES ASSUME NEW u \in Threads
                 PROVE  /\ Under(u, 0)' = base'[u]
                        /\ \A i \in 1 .. Len(scopes'[u]) :
                             scopes'[u][i].kind = "span" =>
                                Under(u, i)' = scopes'[u][i].own
      BY DEF StackInv
    <2>1. CASE u # t
      <3>1. scopes'[u] = scopes[u] /\ t_current_context'[u] = t_current_context[u]
        BY <1>2, <1>4, <2>1
      <3> QED BY <1>1, <3>1 DEF StackInv, Under
    <2>2. CASE u = t
      <3>1. ASSUME NEW i \in 0 .. n PROVE Under(t, i)' = Under(t, i)
        <4>1. Under(t, i)' = scopes'[t][i + 1].saved
          BY <1>2, <1>3 DEF Under
        <4>2. CASE i = n
          BY <1>0, <1>2, <4>1, <4>2 DEF Under
        <4>3. CASE i # n
          <5>1. i + 1 \in 1 .. n
            BY <1>3, <4>3
          <5>2. Under(t, i) = scopes[t][i + 1].saved
            BY <1>0, <4>3 DEF Under
          <5> QED BY <1>2, <4>1, <5>1, <5>2
        <4> QED BY <4>2, <4>3
      <3>2. Under(t, n + 1)' = c
        BY <1>2, <1>4 DEF Under
      <3>3. Under(t, 0)' = base'[t]
        BY <1>1, <1>3, <3>1 DEF StackInv
      <3>4. ASSUME NEW i \in 1 .. n, scopes'[t][i].kind = "span"
            PROVE  Under(t, i)' = scopes'[t][i].own
        BY <1>0, <1>1, <1>2, <3>1, <3>4 DEF StackInv
      <3>5. scopes'[t][n + 1].kind = "span" => Under(t, n + 1)' = scopes'[t][n + 1].own
        BY <1>2, <3>2
      <3> QED BY <1>2, <1>3, <2>2, <3>3, <3>4, <3>5
    <2> QED BY <2>1, <2>2
  <1>8. ContextInv'
    <2>1. ASSUME NEW x \in Contexts, Minted(x) PROVE Minted(x)'
      BY <1>1, <2>1, MintedKept DEF Minted
    <2>2. Minted(c)'
      BY DEF Minted
    <2>3. ASSUME NEW u \in Threads PROVE Minted(t_current_context[u])'
      <3>1. CASE u = t
        BY <1>4, <2>2, <3>1 DEF Minted
      <3>2. CASE u # t
        <4>1. t_current_context[u] \in Contexts /\ Minted(t_current_context[u])
          BY <1>1 DEF TypeOK, ContextInv
        <4> QED BY <1>4, <2>1, <3>2, <4>1 DEF Minted
      <3> QED BY <3>1, <3>2
    <2>4. ASSUME NEW u \in Threads, NEW i \in 1 .. Len(scopes'[u])
          PROVE  Minted(scopes[u][i].saved)'
      <3>1. CASE u = t /\ i = n + 1
        <4>1. t_current_context[t] \in Contexts /\ Minted(t_current_context[t])
          BY <1>1 DEF TypeOK, ContextInv
        <4>2. scopes'[u][i].saved = t_current_context[t]
          BY <1>2, <3>1
        <4> QED BY <2>1, <4>1, <4>2 DEF Minted
      <3>2. CASE i \in 1 .. Len(scopes[u]) /\ scopes'[u][i] = scopes[u][i]
        <4>1. scopes[u][i].saved \in Contexts /\ Minted(scopes[u][i].saved)
          BY <1>1, <3>2, ScopeType DEF ContextInv
        <4> QED BY <2>1, <3>2, <4>1 DEF Minted
      <3> QED BY <1>6, <3>1, <3>2
    <2>5. ASSUME NEW x \in envelopes PROVE Minted(x)'
      BY <1>1, <2>1 DEF TypeOK, ContextInv
    <2> QED BY <2>3, <2>4, <2>5 DEF ContextInv
  <1>9. SpanInv'
    <2>1. ASSUME NEW x \in Contexts, NEW p \in Nat, InTree(x, p) PROVE InTree(x, p)'
      BY <1>1, <2>1, InTreeKept DEF InTree
    <2>2. ASSUME NEW u \in Threads, NEW i \in 1 .. Len(scopes'[u]),
                 scopes'[u][i].kind = "span"
          PROVE  InTree(scopes[u][i].own, scopes[u][i].parent)'
      <3>1. CASE u = t /\ i = n + 1
        <4>1. scopes'[u][i] = s /\ s.kind = "span"
          BY <1>2, <2>2, <3>1
        <4>2. s.own.span \in 1 .. ids'
          <5>1. s.own = c /\ c.span \in ids + 1 .. ids'
            BY <4>1
          <5>2. ids \in Nat /\ ids' \in Nat
            BY <1>1 DEF TypeOK, Extends
          <5> QED BY <5>1, <5>2
        <4> QED BY <4>1, <4>2 DEF InTree
      <3>2. CASE i \in 1 .. Len(scopes[u]) /\ scopes'[u][i] = scopes[u][i]
        <4>1. scopes[u][i] \in Spans
          BY <1>1, <2>2, <3>2, ScopeType
        <4>2. /\ scopes[u][i].own \in Contexts /\ scopes[u][i].parent \in Nat
              /\ InTree(scopes[u][i].own, scopes[u][i].parent)
          BY <1>1, <2>2, <3>2, <4>1 DEF SpanInv, Spans
        <4> QED BY <2>1, <3>2, <4>2 DEF InTree
      <3> QED BY <1>6, <3>1, <3>2
    <2>3. ASSUME NEW r \in records PROVE InTree(r.ctx, r.parent)'
      <3>1. r.ctx \in Contexts /\ r.parent \in Nat /\ InTree(r.ctx, r.parent)
        BY <1>1 DEF TypeOK, Records, SpanInv
      <3> QED BY <2>1, <3>1
    <2> QED BY <2>2, <2>3 DEF SpanInv
  <1>10. OnceInv'
    <2>1. ASSUME NEW u \in Threads, NEW i \in 1 .. Len(scopes[u]),
                 scopes[u][i].kind = "span"
          PROVE  scopes[u][i].own.span \in 1 .. ids
      BY <1>1, <2>1 DEF SpanInv, InTree
    <2>2. ASSUME NEW r \in records PROVE r.ctx.span \in 1 .. ids
      BY <1>1 DEF SpanInv, InTree
    <2>3. s.kind = "span" => s.own.span > ids /\ s.own.span \notin 1 .. ids
      BY <1>1 DEF TypeOK, Extends, Contexts
    <2>4. ASSUME NEW u \in Threads, NEW w \in Threads,
                 NEW i \in 1 .. Len(scopes'[u]), NEW j \in 1 .. Len(scopes'[w]),
                 scopes'[u][i].kind = "span", scopes'[w][j].kind = "span",
                 scopes'[u][i].own.span = scopes'[w][j].own.span
          PROVE  u = w /\ i = j
      <3>1. CASE (u = t /\ i = n + 1) /\ (w = t /\ j = n + 1)
        BY <3>1
      <3>2. CASE (u = t /\ i = n + 1) /\ ~(w = t /\ j = n + 1)
        BY <1>2, <1>6, <2>1, <2>3, <2>4, <3>2
      <3>3. CASE ~(u = t /\ i = n + 1) /\ (w = t /\ j = n + 1)
        BY <1>2, <1>6, <2>1, <2>3, <2>4, <3>3
      <3>4. CASE ~(u = t /\ i = n + 1) /\ ~(w = t /\ j = n + 1)
        <4>1. i \in 1 .. Len(scopes[u]) /\ scopes'[u][i] = scopes[u][i]
          BY <1>6, <3>4
        <4>2. j \in 1 .. Len(scopes[w]) /\ scopes'[w][j] = scopes[w][j]
          BY <1>6, <3>4
        <4> QED BY <1>1, <2>4, <4>1, <4>2 DEF OnceInv
      <3> QED BY <3>1, <3>2, <3>3, <3>4
    <2>5. ASSUME NEW r \in records, NEW u \in Threads, NEW i \in 1 .. Len(scopes'[u]),
                 scopes'[u][i].kind = "span"
          PROVE  r.ctx.span # scopes'[u][i].own.span
      <3>1. CASE u = t /\ i = n + 1
        BY <1>2, <2>2, <2>3, <2>5, <3>1
      <3>2. CASE i \in 1 .. Len(scopes[u]) /\ scopes'[u][i] = scopes[u][i]
        BY <1>1, <2>5, <3>2 DEF OnceInv
      <3> QED BY <1>6, <3>1, <3>2
    <2> QED BY <1>1, <2>4, <2>5 DEF OnceInv
  <1> QED BY <1>5, <1>7, <1>8, <1>9, <1>10 DEF IInv

-----------------------------------------------------------------------------
(* The innermost scope ends, and a span leaves a record or none. *)

LEMMA CloseInv ==
    ASSUME IInv, NEW t \in Threads, scopes[t] # <<>>,
           SetCurrent(t, Last(scopes[t]).saved),
           scopes' = [scopes EXCEPT ![t] = Front(@)],
           UNCHANGED <<envelopes, garbled, ids, traceOf, base>>,
           \/ UNCHANGED records
           \/ /\ Last(scopes[t]).kind = "span"
              /\ records' = records \cup {[ctx |-> t_current_context[t],
                                           parent |-> Last(scopes[t]).parent]}
    PROVE  IInv'
  <1>1. TypeOK /\ StackInv /\ ContextInv /\ SpanInv /\ OnceInv
    BY DEF IInv
  <1>0. PICK n \in Nat : n + 1 = Len(scopes[t])
    <2>1. scopes[t] \in Seq(Scope)
      BY <1>1 DEF TypeOK, Scope
    <2> HIDE DEF Scope
    <2>2. Len(scopes[t]) \in Nat /\ Len(scopes[t]) # 0
      BY <2>1
    <2>3. Len(scopes[t]) - 1 \in Nat
      BY <2>2
    <2> QED BY <2>2, <2>3
  <1> DEFINE s == scopes[t][n + 1]
  <1>2. /\ scopes' \in [Threads -> Seq(Scope)]
        /\ Len(scopes'[t]) = n /\ Last(scopes[t]) = s
        /\ \A i \in 1 .. n : scopes'[t][i] = scopes[t][i]
        /\ \A u \in Threads \ {t} : scopes'[u] = scopes[u]
    <2>1. /\ scopes' \in [Threads -> Seq(Scope)]
          /\ Len(scopes'[t]) = Len(scopes[t]) - 1
          /\ Last(scopes[t]) = scopes[t][Len(scopes[t])]
          /\ \A i \in 1 .. Len(scopes[t]) - 1 : scopes'[t][i] = scopes[t][i]
          /\ \A u \in Threads \ {t} : scopes'[u] = scopes[u]
      BY <1>1, CloseShape
    <2>2. Len(scopes[t]) - 1 = n
      BY <1>0
    <2> QED BY <1>0, <2>1, <2>2
  <1>3. s.saved \in Contexts /\ s.kind \in {"guard", "span"} /\ n + 1 \in 1 .. Len(scopes[t])
    BY <1>0, <1>1, ScopeType
  <1>4. /\ t_current_context' \in [Threads -> Contexts]
        /\ t_current_context'[t] = s.saved
        /\ \A u \in Threads \ {t} : t_current_context'[u] = t_current_context[u]
    BY <1>1, <1>2, <1>3 DEF TypeOK, SetCurrent
  <1>5. s.kind = "span" =>
          /\ t_current_context[t] = s.own /\ s \in Spans /\ s.own \in Contexts
          /\ s.parent \in Nat /\ InTree(s.own, s.parent)
    <2>1. Under(t, n + 1) = t_current_context[t]
      BY <1>0 DEF Under
    <2>2. s.kind = "span" => s \in Spans
      BY <1>0, <1>1, <1>3, ScopeType
    <2> QED BY <1>1, <1>3, <2>1, <2>2 DEF StackInv, SpanInv, Spans
  <1>6. \/ UNCHANGED records
        \/ /\ s.kind = "span"
           /\ records' = records \cup {[ctx |-> s.own, parent |-> s.parent]}
    BY <1>2, <1>5
  <1>7. ASSUME NEW u \in Threads, NEW i \in 1 .. Len(scopes'[u])
        PROVE  /\ i \in 1 .. Len(scopes[u]) /\ scopes'[u][i] = scopes[u][i]
               /\ ~(u = t /\ i = n + 1)
    <2>1. CASE u = t
      BY <1>0, <1>2, <2>1
    <2>2. CASE u # t
      BY <1>2, <2>2
    <2> QED BY <2>1, <2>2
  <1> HIDE DEF s
  <1>8. TypeOK'
    <2>1. records' \subseteq Records
      BY <1>1, <1>5, <1>6 DEF TypeOK, Records
    <2> QED BY <1>1, <1>2, <1>4, <2>1 DEF TypeOK, Scope
  <1>9. StackInv'
    <2> SUFFICES ASSUME NEW u \in Threads
                 PROVE  /\ Under(u, 0)' = base'[u]
                        /\ \A i \in 1 .. Len(scopes'[u]) :
                             scopes'[u][i].kind = "span" =>
                                Under(u, i)' = scopes'[u][i].own
      BY DEF StackInv
    <2>1. CASE u # t
      <3>1. scopes'[u] = scopes[u] /\ t_current_context'[u] = t_current_context[u]
        BY <1>2, <1>4, <2>1
      <3> QED BY <1>1, <3>1 DEF StackInv, Under
    <2>2. CASE u = t
      <3>1. ASSUME NEW i \in 0 .. n PROVE Under(t, i)' = Under(t, i)
        <4>1. Under(t, i) = scopes[t][i + 1].saved
          BY <1>0 DEF Under
        <4>2. CASE i = n
          BY <1>2, <1>4, <4>1, <4>2 DEF Under, s
        <4>3. CASE i # n
          <5>1. i + 1 \in 1 .. n
            BY <4>3
          <5> QED BY <1>2, <4>1, <4>3, <5>1 DEF Under
        <4> QED BY <4>2, <4>3
      <3>2. \A i \in 1 .. n : i \in 1 .. Len(scopes[t]) /\ i \in 0 .. n
        BY <1>0
      <3>3. Under(t, 0)' = base'[t]
        BY <1>1, <3>1 DEF StackInv
      <3> QED BY <1>1, <1>2, <2>2, <3>1, <3>2, <3>3 DEF StackInv
    <2> QED BY <2>1, <2>2
  <1>10. ContextInv'
    <2>1. Minted(s.saved)
      BY <1>1, <1>3 DEF ContextInv, s
    <2>2. ASSUME NEW u \in Threads PROVE Minted(t_current_context[u])'
      BY <1>1, <1>4, <2>1 DEF ContextInv, Minted
    <2>3. ASSUME NEW u \in Threads, NEW i \in 1 .. Len(scopes'[u])
          PROVE  Minted(scopes[u][i].saved)'
      BY <1>1, <1>7 DEF ContextInv, Minted
    <2>4. \A x \in envelopes' : Minted(x)'
      BY <1>1 DEF ContextInv, Minted
    <2> QED BY <2>2, <2>3, <2>4 DEF ContextInv
  <1>11. SpanInv'
    <2>1. ASSUME NEW u \in Threads, NEW i \in 1 .. Len(scopes'[u]),
                 scopes'[u][i].kind = "span"
          PROVE  InTree(scopes[u][i].own, scopes[u][i].parent)'
      BY <1>1, <1>7, <2>1 DEF SpanInv, InTree
    <2>2. ASSUME NEW r \in records' PROVE InTree(r.ctx, r.parent)'
      <3>1. InTree(r.ctx, r.parent)
        BY <1>1, <1>5, <1>6 DEF SpanInv
      <3> QED BY <3>1 DEF InTree
    <2> QED BY <2>1, <2>2 DEF SpanInv
  <1>12. OnceInv'
    <2>1. ASSUME NEW r \in records' PROVE r \in records \/ (s.kind = "span" /\ r.ctx = s.own)
      BY <1>6
    <2>2. ASSUME NEW u \in Threads, NEW w \in Threads,
                 NEW i \in 1 .. Len(scopes'[u]), NEW j \in 1 .. Len(scopes'[w]),
                 scopes'[u][i].kind = "span", scopes'[w][j].kind = "span"
          PROVE  scopes'[u][i].own.span # scopes'[w][j].own.span \/ (u = w /\ i = j)
      <3>1. /\ i \in 1 .. Len(scopes[u]) /\ scopes'[u][i] = scopes[u][i]
            /\ j \in 1 .. Len(scopes[w]) /\ scopes'[w][j] = scopes[w][j]
        BY <1>7
      <3> QED BY <1>1, <2>2, <3>1 DEF OnceInv
    <2>3. ASSUME NEW r \in records', NEW u \in Threads, NEW i \in 1 .. Len(scopes'[u]),
                 scopes'[u][i].kind = "span"
          PROVE  r.ctx.span # scopes'[u][i].own.span
      <3>1. /\ i \in 1 .. Len(scopes[u]) /\ scopes'[u][i] = scopes[u][i]
            /\ ~(u = t /\ i = n + 1)
        BY <1>7
      <3>2. CASE r \in records
        BY <1>1, <2>3, <3>1, <3>2 DEF OnceInv
      <3>3. CASE s.kind = "span" /\ r.ctx = s.own
        BY <1>1, <1>3, <2>3, <3>1, <3>3 DEF OnceInv, s
      <3> QED BY <2>1, <3>2, <3>3
    <2>4. ASSUME s.kind = "span", NEW r \in records PROVE r.ctx.span # s.own.span
      BY <1>1, <1>3, <2>4 DEF OnceInv, s
    <2>5. ASSUME NEW r \in records', NEW q \in records', r.ctx.span = q.ctx.span
          PROVE  r = q
      <3>1. CASE UNCHANGED records
        BY <1>1, <2>5, <3>1 DEF OnceInv
      <3>2. CASE /\ s.kind = "span"
                 /\ records' = records \cup {[ctx |-> s.own, parent |-> s.parent]}
        <4> DEFINE e == [ctx |-> s.own, parent |-> s.parent]
        <4>1. e.ctx = s.own
          OBVIOUS
        <4>2. records' = records \cup {e} /\ s.kind = "span"
          BY <3>2
        <4> HIDE DEF e
        <4>3. CASE r \in records /\ q \in records
          BY <1>1, <2>5, <4>3 DEF OnceInv
        <4>4. CASE r = e /\ q \in records
          BY <2>4, <2>5, <4>1, <4>2, <4>4
        <4>5. CASE r \in records /\ q = e
          BY <2>4, <2>5, <4>1, <4>2, <4>5
        <4> QED BY <4>2, <4>3, <4>4, <4>5
      <3> QED BY <1>6, <3>1, <3>2
    <2> QED BY <2>2, <2>3, <2>5 DEF OnceInv
  <1> QED BY <1>8, <1>9, <1>10, <1>11, <1>12 DEF IInv

-----------------------------------------------------------------------------
(* The actions. *)

LEMMA InitInv == Init => IInv
  <1> SUFFICES ASSUME Init PROVE IInv
    OBVIOUS
  <1>1. None \in Contexts /\ ~IsValid(None)
    BY DEF None, Contexts, IsValid
  <1>3. TypeOK
    BY <1>1 DEF Init, TypeOK
  <1>4. StackInv
    BY DEF Init, StackInv, Under
  <1>5. ContextInv
    BY <1>1 DEF Init, ContextInv, Minted
  <1>6. SpanInv /\ OnceInv
    BY DEF Init, SpanInv, OnceInv
  <1> QED BY <1>3, <1>4, <1>5, <1>6 DEF IInv

(* A context that is extracted is none, one that was injected, or garbled. *)
LEMMA ExtractType ==
    ASSUME IInv, NEW ctx \in Extract PROVE ctx \in Contexts /\ Minted(ctx)
  BY DEF Extract, IInv, TypeOK, ContextInv, None, Contexts, Minted, IsValid

LEMMA InjectInv == ASSUME IInv, NEW t \in Threads, Inject(t) PROVE IInv'
  <1>0. UNCHANGED <<t_current_context, scopes, garbled, records, ids, traceOf, base>>
    BY DEF Inject
  <1>1. envelopes' = envelopes \cup {t_current_context[t]}
    BY DEF Inject
  <1>2. t_current_context[t] \in Contexts /\ Minted(t_current_context[t])
    BY DEF IInv, TypeOK, ContextInv
  <1>3. TypeOK'
    BY <1>0, <1>1, <1>2 DEF IInv, TypeOK
  <1>4. StackInv' /\ OnceInv'
    <2>1. StackInv'
      BY <1>0 DEF IInv, StackInv, Under
    <2>2. OnceInv'
      BY <1>0 DEF IInv, OnceInv
    <2> QED BY <2>1, <2>2
  <1>5. ContextInv'
    BY <1>0, <1>1, <1>2 DEF IInv, ContextInv, Minted
  <1>6. SpanInv'
    BY <1>0 DEF IInv, SpanInv, InTree
  <1> QED BY <1>3, <1>4, <1>5, <1>6 DEF IInv

(* More garbled contexts excuse more; what was minted or in its tree is. *)
LEMMA GarbleInv == ASSUME IInv, Garble PROVE IInv'
  <1>1. /\ garbled \subseteq garbled' /\ garbled' \subseteq Contexts
        /\ UNCHANGED <<t_current_context, scopes, envelopes, records, ids, traceOf, base>>
    BY ContextAssumption DEF Garble, IInv, TypeOK
  <1>2. TypeOK'
    BY <1>1 DEF IInv, TypeOK
  <1>3. StackInv' /\ OnceInv'
    BY <1>1 DEF IInv, StackInv, Under, OnceInv
  <1>4. ContextInv'
    BY <1>1 DEF IInv, ContextInv, Minted
  <1>5. SpanInv'
    BY <1>1 DEF IInv, SpanInv, InTree
  <1> QED BY <1>2, <1>3, <1>4, <1>5 DEF IInv

LEMMA SetCurrentContextInv ==
    ASSUME IInv, NEW t \in Threads, NEW ctx \in Extract, SetCurrentContext(t, ctx)
    PROVE  IInv'
  <1>1. /\ \A i \in 1 .. Len(scopes[t]) : scopes[t][i].kind = "guard"
        /\ t_current_context' = [t_current_context EXCEPT ![t] = ctx]
        /\ base' = IF scopes[t] = <<>> THEN [base EXCEPT ![t] = ctx] ELSE base
        /\ UNCHANGED <<scopes, envelopes, garbled, records, ids, traceOf>>
    BY DEF SetCurrentContext, SetCurrent
  <1>2. ctx \in Contexts /\ Minted(ctx)
    BY ExtractType
  <1>3. /\ t_current_context' \in [Threads -> Contexts]
        /\ t_current_context'[t] = ctx
        /\ \A u \in Threads \ {t} : t_current_context'[u] = t_current_context[u]
    BY <1>1, <1>2 DEF IInv, TypeOK
  <1>4. TypeOK'
    BY <1>1, <1>3 DEF IInv, TypeOK
  <1>5. ContextInv'
    BY <1>1, <1>2, <1>3 DEF IInv, ContextInv, Minted
  <1>6. SpanInv' /\ OnceInv'
    BY <1>1 DEF IInv, SpanInv, InTree, OnceInv
  <1>7. StackInv'
    <2> SUFFICES ASSUME NEW u \in Threads
                 PROVE  /\ Under(u, 0)' = base'[u]
                        /\ \A i \in 1 .. Len(scopes'[u]) :
                             scopes'[u][i].kind = "span" =>
                                Under(u, i)' = scopes'[u][i].own
      BY DEF StackInv
    <2>1. CASE u # t
      BY <1>1, <1>3, <2>1 DEF IInv, StackInv, Under
    <2>2. CASE u = t /\ scopes[t] = <<>>
      <3>1. base' = [base EXCEPT ![t] = ctx] /\ base \in [Threads -> Contexts]
        BY <1>1, <2>2 DEF IInv, TypeOK
      <3>2. base'[t] = ctx /\ scopes'[t] = <<>>
        BY <1>1, <2>2, <3>1
      <3> QED BY <1>3, <2>2, <3>2 DEF Under
    <2>3. CASE u = t /\ scopes[t] # <<>>
      <3>1. scopes[t] \in Seq(Scope)
        BY DEF IInv, TypeOK, Scope
      <3> HIDE DEF Scope
      <3>2. Len(scopes[t]) # 0
        BY <2>3, <3>1
      <3> QED BY <1>1, <2>3, <3>2 DEF IInv, StackInv, Under
    <2> QED BY <2>1, <2>2, <2>3
  <1> QED BY <1>4, <1>5, <1>6, <1>7 DEF IInv

LEMMA ContextGuardInv ==
    ASSUME IInv, NEW t \in Threads, NEW ctx \in Extract, ContextGuard(t, ctx)
    PROVE  IInv'
  <1> DEFINE s == [kind |-> "guard", saved |-> t_current_context[t]]
  <1>1. /\ Open(t, s) /\ SetCurrent(t, ctx)
        /\ UNCHANGED <<envelopes, garbled, records, base, ids, traceOf>>
    BY DEF ContextGuard, Guard
  <1>2. ctx \in Contexts /\ Minted(ctx)
    BY ExtractType
  <1>3. s \in Scope /\ s.kind # "span" /\ s.saved = t_current_context[t]
    BY DEF IInv, TypeOK, Scope, Guards
  <1> HIDE DEF s
  <1>4. Extends
    BY <1>1, NothingMinted DEF IInv
  <1>5. \/ ~IsValid(ctx) \/ ctx \in garbled'
        \/ ctx.span \in 1 .. ids' /\ traceOf'[ctx.span] = ctx.trace
    BY <1>1, <1>2 DEF Minted
  <1> QED BY <1>1, <1>2, <1>3, <1>4, <1>5, OpenInv

LEMMA NewTraceInv == ASSUME IInv, NEW t \in Threads, NewTrace(t) PROVE IInv'
  <1> DEFINE s == [kind |-> "guard", saved |-> t_current_context[t]]
             ctx == [trace |-> ids + 1, span |-> ids + 2]
  <1>1. /\ Open(t, s) /\ SetCurrent(t, ctx) /\ NextIds(2, ids + 1)
        /\ UNCHANGED <<envelopes, garbled, records, base>>
    BY DEF NewTrace, Guard
  <1>2. ids \in Nat
    BY DEF IInv, TypeOK
  <1>3. s \in Scope /\ s.kind # "span" /\ s.saved = t_current_context[t]
    BY DEF IInv, TypeOK, Scope, Guards
  <1>4. ctx \in Contexts /\ ctx.span = ids + 2 /\ ctx.trace = ids + 1
    BY <1>2 DEF Contexts
  <1> HIDE DEF s, ctx
  <1>5. Extends /\ ids' = ids + 2 /\ traceOf'[ids'] = ids + 1
    BY <1>1, <1>2, MoreMinted DEF IInv
  <1>6. ctx.span \in 1 .. ids' /\ traceOf'[ctx.span] = ctx.trace
    BY <1>2, <1>4, <1>5
  <1> QED BY <1>1, <1>3, <1>4, <1>5, <1>6, OpenInv

LEMMA BeginInv == ASSUME IInv, NEW t \in Threads, Begin(t) PROVE IInv'
  <1> DEFINE saved == t_current_context[t]
  <1>1. PICK k \in {1, 2}, parent \in Nat, trace \in Nat :
           /\ Child(saved, parent, trace, ids + k, t) /\ NextIds(k, trace)
           /\ \/ parent \in 1 .. ids /\ traceOf[parent] = trace
              \/ parent = 0 /\ ids + k = trace + 1
              \/ [trace |-> trace, span |-> parent] \in garbled
    <2>1. saved \in Contexts /\ Minted(saved) /\ ids \in Nat
      BY DEF IInv, TypeOK, ContextInv
    <2>2. CASE IsValid(saved)
      <3>1. Child(saved, saved.span, saved.trace, ids + 1, t) /\ NextIds(1, saved.trace)
        BY <2>2 DEF Begin
      <3>2. /\ saved.span \in Nat /\ saved.trace \in Nat
            /\ saved = [trace |-> saved.trace, span |-> saved.span]
        BY <2>1 DEF Contexts
      <3>3. \/ saved.span \in 1 .. ids /\ traceOf[saved.span] = saved.trace
            \/ [trace |-> saved.trace, span |-> saved.span] \in garbled
        BY <2>1, <2>2, <3>2 DEF Minted
      <3> HIDE DEF saved
      <3> QED BY <3>1, <3>2, <3>3
    <2>3. CASE ~IsValid(saved)
      <3>1. Child(saved, 0, ids + 1, ids + 2, t) /\ NextIds(2, ids + 1)
        BY <2>3 DEF Begin
      <3>2. ids + 2 = (ids + 1) + 1 /\ ids + 1 \in Nat
        BY <2>1
      <3> HIDE DEF saved
      <3> QED BY <3>1, <3>2
    <2> QED BY <2>2, <2>3
  <1> DEFINE ctx == [trace |-> trace, span |-> ids + k]
             s == [kind |-> "span", saved |-> saved, parent |-> parent,
                   links |-> 0, own |-> ctx]
  <1>2. Open(t, s) /\ SetCurrent(t, ctx)
    BY <1>1 DEF Child
  <1>3. UNCHANGED <<envelopes, garbled, records, base>>
    BY DEF Begin
  <1>4. ids \in Nat /\ saved \in Contexts
    BY DEF IInv, TypeOK
  <1>5. ctx \in Contexts /\ ctx.span = ids + k /\ ctx.trace = trace
    BY <1>1, <1>4 DEF Contexts
  <1> HIDE DEF ctx
  <1>6. /\ s \in Scope /\ s.saved = t_current_context[t]
        /\ s.own = ctx /\ s.parent = parent
    BY <1>4, <1>5 DEF Scope, Spans
  <1> HIDE DEF s
  <1>7. Extends /\ ids' = ids + k /\ traceOf'[ids'] = trace
    BY <1>1, <1>3, MoreMinted DEF IInv
  <1>8. /\ ctx.span \in 1 .. ids' /\ ctx.span \in ids + 1 .. ids'
        /\ traceOf'[ctx.span] = ctx.trace
    BY <1>4, <1>5, <1>7
  <1>9. \/ parent \in 1 .. ctx.span - 1 /\ traceOf'[parent] = ctx.trace
        \/ parent = 0 /\ ctx.span = ctx.trace + 1
        \/ [trace |-> ctx.trace, span |-> parent] \in garbled'
    <2>1. CASE parent \in 1 .. ids /\ traceOf[parent] = trace
      <3>1. traceOf'[parent] = traceOf[parent]
        BY <1>7, <2>1 DEF Extends
      <3>2. parent \in 1 .. ctx.span - 1
        BY <1>4, <1>5, <2>1
      <3> QED BY <1>5, <2>1, <3>1, <3>2
    <2>2. CASE parent = 0 /\ ids + k = trace + 1
      BY <1>5, <2>2
    <2>3. CASE [trace |-> trace, span |-> parent] \in garbled
      BY <1>3, <1>5, <2>3
    <2> QED BY <1>1, <2>1, <2>2, <2>3
  <1> QED BY <1>2, <1>3, <1>5, <1>6, <1>7, <1>8, <1>9, OpenInv

(* A link changes nothing but the links of its span. *)
LEMMA AddLinkInv ==
    ASSUME IInv, NEW t \in Threads, NEW i \in 1 .. Len(scopes[t]),
           NEW ctx \in Extract, AddLink(t, i, ctx)
    PROVE  IInv'
  <1> DEFINE s == scopes[t][i]
             n == [s EXCEPT !.links = @ + 1]
  <1>1. /\ s.kind = "span" /\ scopes' = [scopes EXCEPT ![t] = [@ EXCEPT ![i] = n]]
        /\ UNCHANGED <<t_current_context, envelopes, garbled, records, ids, traceOf, base>>
    BY DEF AddLink
  <1>2. s \in Spans /\ ctx \in Contexts
    BY <1>1, ScopeType, ExtractType DEF IInv
  <1>3. /\ n \in Spans /\ n.kind = s.kind /\ n.saved = s.saved
        /\ n.parent = s.parent /\ n.own = s.own
    <2>1. s.links + 1 \in Nat
      BY <1>2 DEF Spans
    <2>2. PICK l \in Nat : l = s.links + 1
      BY <2>1
    <2> HIDE DEF s
    <2>3. n = [s EXCEPT !.links = l]
      BY <2>2
    <2> QED BY <1>2, <2>3 DEF Spans
  <1>4. scopes \in [Threads -> Seq(Scope)] /\ n \in Scope
    BY <1>3 DEF IInv, TypeOK, Scope
  <1> HIDE DEF Scope, n
  <1>5. /\ scopes' \in [Threads -> Seq(Scope)]
        /\ Len(scopes'[t]) = Len(scopes[t])
        /\ \A j \in 1 .. Len(scopes[t]) :
             scopes'[t][j] = IF j = i THEN n ELSE scopes[t][j]
        /\ \A u \in Threads \ {t} : scopes'[u] = scopes[u]
    BY <1>1, <1>4
  <1>6. ASSUME NEW u \in Threads
        PROVE  /\ Len(scopes'[u]) = Len(scopes[u])
               /\ \A j \in 1 .. Len(scopes[u]) :
                    /\ scopes'[u][j].kind = scopes[u][j].kind
                    /\ scopes'[u][j].saved = scopes[u][j].saved
                    /\ scopes[u][j].kind = "span" =>
                         /\ scopes'[u][j].parent = scopes[u][j].parent
                         /\ scopes'[u][j].own = scopes[u][j].own
    <2>1. CASE u = t
      BY <1>3, <1>5, <2>1
    <2>2. CASE u # t
      BY <1>5, <2>2
    <2> QED BY <2>1, <2>2
  <1>7. TypeOK'
    BY <1>1, <1>5 DEF IInv, TypeOK, Scope
  <1>8. StackInv'
    <2> SUFFICES ASSUME NEW u \in Threads
                 PROVE  /\ Under(u, 0)' = base'[u]
                        /\ \A j \in 1 .. Len(scopes'[u]) :
                             scopes'[u][j].kind = "span" =>
                                Under(u, j)' = scopes'[u][j].own
      BY DEF StackInv
    <2>1. ASSUME NEW j \in 0 .. Len(scopes[u]) PROVE Under(u, j)' = Under(u, j)
      <3>1. Len(scopes[u]) \in Nat
        BY DEF IInv, TypeOK
      <3>2. CASE j = Len(scopes[u])
        BY <1>1, <1>6, <3>2 DEF Under
      <3>3. CASE j # Len(scopes[u])
        <4>1. j + 1 \in 1 .. Len(scopes[u])
          BY <3>1, <3>3
        <4> QED BY <1>6, <3>3, <4>1 DEF Under
      <3> QED BY <3>2, <3>3
    <2>2. Len(scopes[u]) \in Nat
      BY DEF IInv, TypeOK
    <2> QED BY <1>1, <1>6, <2>1, <2>2 DEF IInv, StackInv
  <1>9. ContextInv'
    BY <1>1, <1>6 DEF IInv, ContextInv, Minted
  <1>10. SpanInv'
    <2> DEFINE In(c, p) ==
          /\ c.span \in 1 .. ids /\ traceOf[c.span] = c.trace
          /\ \/ p \in 1 .. c.span - 1 /\ traceOf[p] = c.trace
             \/ p = 0 /\ c.span = c.trace + 1
             \/ [trace |-> c.trace, span |-> p] \in garbled
    <2>1. /\ \A r \in records : In(r.ctx, r.parent)
          /\ \A u \in Threads : \A j \in 1 .. Len(scopes[u]) :
               scopes[u][j].kind = "span" => In(scopes[u][j].own, scopes[u][j].parent)
      BY DEF IInv, SpanInv, InTree
    <2> HIDE DEF In
    <2>2. ASSUME NEW u \in Threads, NEW j \in 1 .. Len(scopes'[u]),
                 scopes'[u][j].kind = "span"
          PROVE  In(scopes'[u][j].own, scopes'[u][j].parent)
      BY <1>6, <2>1, <2>2
    <2> USE DEF In
    <2> QED BY <1>1, <2>1, <2>2 DEF SpanInv, InTree
  <1>11. OnceInv'
    <2>1. ASSUME NEW u \in Threads, NEW w \in Threads, NEW j \in 1 .. Len(scopes'[u]),
                 NEW k \in 1 .. Len(scopes'[w]),
                 scopes'[u][j].kind = "span" /\ scopes'[w][k].kind = "span"
          PROVE  scopes'[u][j].own.span # scopes'[w][k].own.span \/ (u = w /\ j = k)
      <3>1. /\ j \in 1 .. Len(scopes[u]) /\ k \in 1 .. Len(scopes[w])
            /\ scopes[u][j].kind = "span" /\ scopes[w][k].kind = "span"
            /\ scopes'[u][j].own = scopes[u][j].own /\ scopes'[w][k].own = scopes[w][k].own
        BY <1>6, <2>1
      <3> QED BY <3>1 DEF IInv, OnceInv
    <2>2. ASSUME NEW r \in records, NEW u \in Threads, NEW j \in 1 .. Len(scopes'[u]),
                 scopes'[u][j].kind = "span"
          PROVE  r.ctx.span # scopes'[u][j].own.span
      <3>1. /\ j \in 1 .. Len(scopes[u]) /\ scopes[u][j].kind = "span"
            /\ scopes'[u][j].own = scopes[u][j].own
        BY <1>6, <2>2
      <3> QED BY <3>1 DEF IInv, OnceInv
    <2>3. \A r, w \in records : r.ctx.span = w.ctx.span => r = w
      BY DEF IInv, OnceInv
    <2> QED BY <1>1, <2>1, <2>2, <2>3 DEF OnceInv
  <1> QED BY <1>7, <1>8, <1>9, <1>10, <1>11 DEF IInv

LEMMA EndInv ==
    ASSUME IInv, NEW t \in Threads, EndGuard(t) \/ EndSpan(t) PROVE IInv'
  BY CloseInv DEF EndGuard, EndSpan

LEMMA NextInv == IInv /\ [Next]_vars => IInv'
  <1> SUFFICES ASSUME IInv, [Next]_vars PROVE IInv'
    OBVIOUS
  <1>1. CASE UNCHANGED vars
    BY <1>1 DEF vars, IInv, TypeOK, StackInv, Under, ContextInv, Minted,
                SpanInv, InTree, OnceInv
  <1>2. CASE Next
    BY <1>2, InjectInv, GarbleInv, NewTraceInv, BeginInv, EndInv, SetCurrentContextInv,
       ContextGuardInv, AddLinkInv DEF Next
  <1> QED BY <1>1, <1>2

-----------------------------------------------------------------------------

THEOREM InvariantHolds == Spec => []IInv
  BY InitInv, NextInv, PTL DEF Spec

(* With all its scopes ended, a thread is left with the context it last    *)
(* set outside of them.                                                    *)
THEOREM ThreadsAreNotPolluted == Spec => []NoPollution
  <1>1. IInv => NoPollution
    <2> SUFFICES ASSUME IInv, NEW t \in Threads, scopes[t] = <<>>
                 PROVE  t_current_context[t] = base[t]
      BY DEF NoPollution
    <2> QED BY DEF IInv, StackInv, Under
  <1> QED BY <1>1, InvariantHolds, PTL

(* An event under an innermost span carries that span's own context. *)
THEOREM EventsCarryTheirSpan == Spec => []SpanIsCurrent
  <1>1. IInv => SpanIsCurrent
    <2> SUFFICES ASSUME IInv, NEW t \in Threads, scopes[t] # <<>>,
                        Last(scopes[t]).kind = "span"
                 PROVE  t_current_context[t] = Last(scopes[t]).own
      BY DEF SpanIsCurrent
    <2>1. scopes[t] \in Seq(Scope)
      BY DEF IInv, TypeOK, Scope
    <2> HIDE DEF Scope
    <2>2. Len(scopes[t]) \in 1 .. Len(scopes[t])
      BY <2>1
    <2> QED BY <2>2 DEF IInv, StackInv, Under, Last
  <1> QED BY <1>1, InvariantHolds, PTL

(* What ~Span emits on all threads is a forest: every record is of one     *)
(* span with an id of its own, under an older span of the same trace, or   *)
(* the root of its trace.  The parent of a record is another only where    *)
(* the very context of that parent came in a garbled envelope, whatever    *)
(* else the carrier made up.                                               *)
THEOREM RecordsAreTrees == Spec => []RecordsFormTrees
  <1>1. IInv => RecordsFormTrees
    BY DEF IInv, SpanInv, OnceInv, RecordsFormTrees
  <1> QED BY <1>1, InvariantHolds, PTL

-----------------------------------------------------------------------------
(* METRIC SLOTS *)

-----------------------------------------------------------------------------
(* Induction over finite sets and over the natural numbers, with a set in  *)
(* place of the formula.                                                   *)

(* A family of subsets of a finite set that is not empty has a smallest.   *)
LEMMA SmallestSubset ==
    ASSUME NEW S, IsFiniteSet(S), NEW G, G \subseteq SUBSET S, G # {}
    PROVE  \E T \in G : \A U \in G : U \subseteq T => U = T
  <1>1. IsWellFoundedOn(StrictSubsetOrdering(S), SUBSET S)
    BY FS_StrictSubsetOrderingWellFounded, FS_FiniteSubsetsOfFinite
  <1>2. PICK T \in G : \A U \in G : ~ (<<U, T>> \in StrictSubsetOrdering(S))
    BY <1>1, WFMin
  <1>3. ASSUME NEW U \in G, U \subseteq T, U # T
        PROVE  <<U, T>> \in StrictSubsetOrdering(S)
    BY <1>3 DEF StrictSubsetOrdering
  <1>4. \A U \in G : U \subseteq T => U = T
    BY <1>2, <1>3, Zenon
  <1> QED BY <1>4, Zenon

(* What holds of {} and of T \cup {x} when of T holds of a finite set.     *)
LEMMA FiniteInduction ==
    ASSUME NEW S, IsFiniteSet(S), NEW G, {} \in G,
           \A T \in SUBSET S : \A x \in S \ T : T \in G => T \cup {x} \in G
    PROVE  S \in G
  <1> SUFFICES ASSUME S \notin G PROVE FALSE
    OBVIOUS
  <1> DEFINE B == {T \in SUBSET S : T \notin G}
  <1>1. B \subseteq SUBSET S /\ B # {}
    OBVIOUS
  <1>2. PICK T \in B : \A U \in B : U \subseteq T => U = T
    <2> HIDE DEF B
    <2> QED BY <1>1, SmallestSubset
  <1>3. PICK x \in T : TRUE
    BY <1>2
  <1>4. T \ {x} \in G
    BY <1>2
  <1>5. (T \ {x}) \cup {x} = T
    OBVIOUS
  <1>6. (T \ {x}) \cup {x} \in G
    BY <1>2, <1>4
  <1> QED BY <1>2, <1>5, <1>6

(* What holds of 0, and of n + 1 when of n, holds of every natural number. *)
LEMMA NaturalsBySteps ==
    ASSUME NEW G, 0 \in G, \A n \in Nat : n \in G => n + 1 \in G
    PROVE  \A n \in Nat : n \in G
  <1> SUFFICES ASSUME NEW n \in Nat, n \notin G PROVE FALSE
    OBVIOUS
  <1> DEFINE B == {k \in Nat : k \notin G}
             R == OpToRel(<, Nat)
  <1>1. B \subseteq Nat /\ B # {}
    OBVIOUS
  <1>2. IsWellFoundedOn(R, Nat)
    BY NatLessThanWellFounded
  <1>3. PICK k \in B : \A j \in B : ~ (<<j, k>> \in R)
    <2> HIDE DEF B, R
    <2> QED BY <1>1, <1>2, WFMin
  <1>4. k \in Nat /\ k # 0 /\ k - 1 \in Nat
    OBVIOUS
  <1>5. <<k - 1, k>> \in R
    BY <1>4 DEF OpToRel
  <1>6. k - 1 \in G
    BY <1>3, <1>4, <1>5
  <1>7. k - 1 + 1 \in G /\ k - 1 + 1 = k
    BY <1>4, <1>6
  <1> QED BY <1>7

-----------------------------------------------------------------------------
(* Sums. *)

(* g is the sum of F over every subset of S.                               *)
SumsOf(g, F, S) ==
    /\ g \in [SUBSET S -> Int]
    /\ g[{}] = 0
    /\ \A s \in SUBSET S : \A y \in s : g[s] = F[y] + g[s \ {y}]

LEMMA SumsExist ==
    ASSUME NEW S, IsFiniteSet(S), NEW F, \A y \in S : F[y] \in Int
    PROVE  \E g : SumsOf(g, F, S)
  <1> DEFINE G == {T \in SUBSET S : \E g : SumsOf(g, F, T)}
  <1>1. {} \in G
    <2> DEFINE z == [s \in SUBSET {} |-> 0]
    <2>1. SumsOf(z, F, {})
      BY DEF SumsOf
    <2> QED BY <2>1
  <1>2. ASSUME NEW T \in SUBSET S, NEW x \in S \ T, T \in G
        PROVE  T \cup {x} \in G
    <2>1. PICK g : SumsOf(g, F, T)
      BY <1>2
    <2> DEFINE h == [s \in SUBSET (T \cup {x}) |->
                       IF x \in s THEN F[x] + g[s \ {x}] ELSE g[s]]
    <2>2. F[x] \in Int /\ \A s \in SUBSET T : g[s] \in Int
      BY <2>1 DEF SumsOf
    <2>3. h \in [SUBSET (T \cup {x}) -> Int]
      BY <2>2
    <2>4. h[{}] = 0
      BY <2>1 DEF SumsOf
    <2>5. ASSUME NEW s \in SUBSET (T \cup {x}), NEW y \in s
          PROVE  h[s] = F[y] + h[s \ {y}]
      <3>1. CASE y = x
        <4>1. h[s \ {y}] = g[s \ {x}]
          BY <3>1
        <4> QED BY <3>1, <4>1
      <3>2. CASE y # x /\ x \notin s
        <4>1. s \in SUBSET T /\ y \in s
          BY <3>2
        <4>2. g[s] = F[y] + g[s \ {y}]
          BY <4>1, <2>1 DEF SumsOf
        <4>3. h[s] = g[s] /\ h[s \ {y}] = g[s \ {y}]
          BY <3>2
        <4> QED BY <4>2, <4>3
      <3>3. CASE y # x /\ x \in s
        <4>1. s \ {x} \in SUBSET T /\ y \in s \ {x} /\ F[y] \in Int
          BY <3>3
        <4>2. g[s \ {x}] = F[y] + g[(s \ {x}) \ {y}]
          BY <4>1, <2>1 DEF SumsOf
        <4>3. (s \ {x}) \ {y} = (s \ {y}) \ {x}
          OBVIOUS
        <4>4. /\ h[s] = F[x] + g[s \ {x}]
              /\ h[s \ {y}] = F[x] + g[(s \ {y}) \ {x}]
          BY <3>3
        <4>5. g[(s \ {y}) \ {x}] \in Int
          BY <2>2
        <4>6. PICK k \in Int : k = g[(s \ {y}) \ {x}]
          BY <4>5, Zenon
        <4>7. g[s \ {x}] = F[y] + k
          BY <4>2, <4>3, <4>6, Zenon
        <4>8. h[s] = F[x] + (F[y] + k) /\ h[s \ {y}] = F[x] + k
          BY <4>4, <4>6, <4>7, Zenon
        <4> QED
          <5> HIDE DEF h
          <5> QED BY <2>2, <4>1, <4>8
      <3> QED BY <3>1, <3>2, <3>3
    <2>6. SumsOf(h, F, T \cup {x})
      <3> HIDE DEF h
      <3> QED BY <2>3, <2>4, <2>5 DEF SumsOf
    <2> QED BY <2>6
  <1>3. S \in G
    <2> HIDE DEF G
    <2> QED BY <1>1, <1>2, FiniteInduction
  <1> QED BY <1>3

(* The recursion by which a sum is defined, which takes the terms in the   *)
(* order of CHOOSE.                                                        *)
Chosen(s) == CHOOSE x \in s : TRUE
SumStep(h, F, S) ==
    [s \in SUBSET S |->
        IF s = {} THEN 0 ELSE F[Chosen(s)] + h[s \ {Chosen(s)}]]

LEMMA ChosenSum ==
    ASSUME NEW S, IsFiniteSet(S), NEW F, NEW g, SumsOf(g, F, S),
           NEW h, h = SumStep(h, F, S)
    PROVE  h[S] = g[S]
  <1> SUFFICES ASSUME h[S] # g[S] PROVE FALSE
    OBVIOUS
  <1> DEFINE B == {T \in SUBSET S : h[T] # g[T]}
  <1>1. B \subseteq SUBSET S /\ B # {}
    OBVIOUS
  <1>2. PICK T \in B : \A U \in B : U \subseteq T => U = T
    <2> HIDE DEF B
    <2> QED BY <1>1, SmallestSubset
  <1>3. T # {}
    <2>1. h[{}] = 0
      BY DEF SumStep
    <2> QED BY <1>2, <2>1 DEF SumsOf
  <1>4. PICK c : c = Chosen(T)
    OBVIOUS
  <1>5. c \in T
    BY <1>3, <1>4 DEF Chosen
  <1>6. h[T] = F[c] + h[T \ {c}]
    BY <1>2, <1>3, <1>4 DEF SumStep
  <1>7. g[T] = F[c] + g[T \ {c}]
    BY <1>2, <1>5 DEF SumsOf
  <1>8. T \ {c} \in SUBSET S /\ T \ {c} # T
    BY <1>2, <1>5
  <1>9. h[T \ {c}] = g[T \ {c}]
    BY <1>2, <1>8
  <1> QED BY <1>2, <1>6, <1>7, <1>9

LEMMA SumsAreSteps ==
    ASSUME NEW S, NEW F, NEW g, SumsOf(g, F, S)
    PROVE  g = SumStep(g, F, S)
  <1>1. ASSUME NEW s \in SUBSET S, s # {}
        PROVE  g[s] = F[Chosen(s)] + g[s \ {Chosen(s)}]
    <2>1. Chosen(s) \in s
      BY <1>1 DEF Chosen
    <2> QED BY <2>1 DEF SumsOf
  <1>2. g = [s \in SUBSET S |-> g[s]] /\ g[{}] = 0
    BY DEF SumsOf
  <1> QED BY <1>1, <1>2 DEF SumStep

(* A sum over a finite set does not depend on the order of its terms.      *)
LEMMA SumIs ==
    ASSUME NEW S, IsFiniteSet(S), NEW F, NEW g, SumsOf(g, F, S)
    PROVE  SumFunctionOnSet(F, S) = g[S]
  <1> DEFINE h == CHOOSE h : h = SumStep(h, F, S)
  <1>1. SumFunctionOnSet(F, S) = h[S]
    BY DEF SumFunctionOnSet, FoldFunctionOnSet, MapThenFoldSet, SumStep, Chosen
  <1>2. g = SumStep(g, F, S)
    BY SumsAreSteps
  <1>3. h = SumStep(h, F, S)
    BY <1>2
  <1> HIDE DEF h
  <1>4. h[S] = g[S]
    BY <1>3, ChosenSum
  <1> QED BY <1>1, <1>4

(* The sum of S and one more term. *)
LEMMA SumAdds ==
    ASSUME NEW S, IsFiniteSet(S), NEW x, x \notin S,
           NEW F, \A y \in S \cup {x} : F[y] \in Int,
           NEW E, \A y \in S : E[y] = F[y]
    PROVE  /\ SumFunctionOnSet(E, S) \in Int
           /\ SumFunctionOnSet(F, S \cup {x}) = SumFunctionOnSet(E, S) + F[x]
  <1>1. IsFiniteSet(S \cup {x})
    BY FS_AddElement
  <1>2. PICK g : SumsOf(g, F, S \cup {x})
    BY <1>1, SumsExist
  <1>3. SumFunctionOnSet(F, S \cup {x}) = g[S \cup {x}]
    BY <1>1, <1>2, SumIs
  <1>4. g[S \cup {x}] = F[x] + g[S] /\ g[S] \in Int
    <2>1. (S \cup {x}) \ {x} = S
      OBVIOUS
    <2>2. g[S \cup {x}] = F[x] + g[(S \cup {x}) \ {x}]
      BY <1>2 DEF SumsOf
    <2>3. g[S] \in Int
      BY <1>2 DEF SumsOf
    <2> QED BY <2>1, <2>2, <2>3
  <1> DEFINE h == [s \in SUBSET S |-> g[s]]
  <1>5. SumsOf(h, E, S)
    <2>1. h \in [SUBSET S -> Int] /\ h[{}] = 0
      BY <1>2 DEF SumsOf
    <2>2. ASSUME NEW s \in SUBSET S, NEW y \in s
          PROVE  h[s] = E[y] + h[s \ {y}]
      <3>1. g[s] = F[y] + g[s \ {y}]
        BY <1>2 DEF SumsOf
      <3> QED BY <3>1
    <2> HIDE DEF h
    <2> QED BY <2>1, <2>2 DEF SumsOf
  <1>6. SumFunctionOnSet(E, S) = h[S]
    <2> HIDE DEF h
    <2> QED BY <1>5, SumIs
  <1>7. h[S] = g[S]
    OBVIOUS
  <1> QED
    <2> HIDE DEF h
    <2> QED BY <1>3, <1>4, <1>6, <1>7

LEMMA SumOfNothing ==
    ASSUME NEW F
    PROVE  SumFunctionOnSet(F, {}) = 0
  <1> DEFINE z == [s \in SUBSET {} |-> 0]
  <1>1. SumsOf(z, F, {}) /\ z[{}] = 0
    BY DEF SumsOf
  <1> HIDE DEF z
  <1> QED BY <1>1, SumIs, FS_EmptySet

(* Only the terms of the set count. *)
LEMMA SumAgrees ==
    ASSUME NEW S, IsFiniteSet(S), NEW F, \A y \in S : F[y] \in Int,
           NEW E, \A y \in S : E[y] = F[y]
    PROVE  /\ SumFunctionOnSet(F, S) \in Int
           /\ SumFunctionOnSet(E, S) = SumFunctionOnSet(F, S)
  <1>1. PICK g : SumsOf(g, F, S)
    BY SumsExist
  <1>2. SumsOf(g, E, S)
    BY <1>1 DEF SumsOf
  <1>3. g[S] \in Int
    BY <1>1 DEF SumsOf
  <1> QED BY <1>1, <1>2, <1>3, SumIs

(* One term grows by one. *)
LEMMA SumGrows ==
    ASSUME NEW S, IsFiniteSet(S), NEW F, \A y \in S : F[y] \in Int,
           NEW x, NEW E, \A y \in S \ {x} : E[y] = F[y],
           x \in S => E[x] = F[x] + 1
    PROVE  /\ x \in S => SumFunctionOnSet(E, S) = SumFunctionOnSet(F, S) + 1
           /\ x \notin S => SumFunctionOnSet(E, S) = SumFunctionOnSet(F, S)
  <1>1. ASSUME x \in S
        PROVE  SumFunctionOnSet(E, S) = SumFunctionOnSet(F, S) + 1
    <2> DEFINE R == S \ {x}
    <2>1. IsFiniteSet(R) /\ x \notin R
      BY FS_RemoveElement
    <2>2. R \cup {x} = S
      BY <1>1
    <2>3. \A y \in R \cup {x} : F[y] \in Int /\ E[y] \in Int
      BY <1>1
    <2>4. \A y \in R : E[y] = F[y]
      OBVIOUS
    <2> HIDE DEF R
    <2>5. /\ SumFunctionOnSet(F, R) \in Int
          /\ SumFunctionOnSet(F, R \cup {x}) = SumFunctionOnSet(F, R) + F[x]
      BY <2>1, <2>3, SumAdds
    <2>6. SumFunctionOnSet(E, R \cup {x}) = SumFunctionOnSet(F, R) + E[x]
      BY <2>1, <2>3, <2>4, SumAdds
    <2>7. F[x] \in Int /\ E[x] = F[x] + 1
      BY <1>1
    <2>8. PICK a \in Int : a = SumFunctionOnSet(F, R)
      BY <2>5
    <2>9. SumFunctionOnSet(F, S) = a + F[x] /\ SumFunctionOnSet(E, S) = a + (F[x] + 1)
      BY <2>2, <2>5, <2>6, <2>7, <2>8, Zenon
    <2> QED BY <2>7, <2>9
  <1>2. ASSUME x \notin S
        PROVE  SumFunctionOnSet(E, S) = SumFunctionOnSet(F, S)
    <2>1. \A y \in S : E[y] = F[y]
      BY <1>2
    <2> QED BY <2>1, SumAgrees
  <1> QED BY <1>1, <1>2

(* One term more; the order of the infinities and NaN does not matter. *)
LEMMA DoubleSumAdds ==
    ASSUME NEW V, V \subseteq Values, NEW x \in Values, NEW n, NEW k,
           V \subseteq Int => n \in Int,
           V \cup {x} \subseteq Int => k = n + x
    PROVE  /\ DoubleSum(V, n) \in Values
           /\ DoubleSum(V \cup {x}, k) = Plus(DoubleSum(V, n), x)
  <1> USE SlotAssumption DEF DoubleSum, Plus, Values, Ordered
  <1>1. CASE NaN \in V \/ {PosInf, NegInf} \subseteq V
    BY <1>1
  <1>2. CASE NaN \notin V /\ PosInf \in V /\ NegInf \notin V
    BY <1>2
  <1>3. CASE NaN \notin V /\ PosInf \notin V /\ NegInf \in V
    BY <1>3
  <1>4. CASE V \subseteq Int
    <2>1. DoubleSum(V, n) = n /\ n \in Int
      BY <1>4
    <2>2. CASE x \in Int
      BY <1>4, <2>1, <2>2
    <2>3. CASE x \notin Int
      BY <1>4, <2>1, <2>3
    <2> QED BY <2>1, <2>2, <2>3
  <1> QED BY <1>1, <1>2, <1>3, <1>4

(* The total of a finite set of calls: nothing, and one call more. *)
LEMMA TotalOfNothing == Total({}) = 0
  <1>1. SumFunctionOnSet([r \in {} |-> r.value], {}) = 0
    BY SumOfNothing
  <1> QED BY <1>1 DEF Total, DoubleSum, SumFunction

LEMMA TotalAdds ==
    ASSUME NEW S, IsFiniteSet(S), NEW c, c \notin S,
           \A r \in S \cup {c} : r.value \in Values
    PROVE  /\ Total(S) \in Values
           /\ Total(S \cup {c}) = Plus(Total(S), c.value)
  <1> DEFINE E == [r \in S |-> r.value]
             F == [r \in S \cup {c} |-> r.value]
             W == S \cup {c}
             V == {r.value : r \in S}
  <1>1. /\ SumFunction(E) = SumFunctionOnSet(E, S)
        /\ SumFunction(F) = SumFunctionOnSet(F, W)
    BY DEF SumFunction
  <1>2. V \subseteq Values /\ c.value \in Values /\ {r.value : r \in W} = V \cup {c.value}
    OBVIOUS
  <1>3. ASSUME V \subseteq Int PROVE SumFunctionOnSet(E, S) \in Int
    <2>1. \A r \in S : E[r] \in Int
      BY <1>3
    <2> HIDE DEF E
    <2> QED BY <2>1, SumAgrees
  <1>4. ASSUME V \cup {c.value} \subseteq Int
        PROVE  SumFunctionOnSet(F, W) = SumFunctionOnSet(E, S) + c.value
    <2>1. /\ \A r \in W : F[r] \in Int
          /\ \A r \in S : E[r] = F[r]
          /\ F[c] = c.value
      BY <1>4
    <2> HIDE DEF E, F
    <2>2. SumFunctionOnSet(F, S \cup {c}) = SumFunctionOnSet(E, S) + F[c]
      BY <2>1, SumAdds
    <2> QED BY <2>1, <2>2
  <1>5. PICK n, k : n = SumFunctionOnSet(E, S) /\ k = SumFunctionOnSet(F, W)
    OBVIOUS
  <1>6. Total(S) = DoubleSum(V, n) /\ Total(W) = DoubleSum(V \cup {c.value}, k)
    BY <1>1, <1>2, <1>5 DEF Total
  <1>7. /\ V \subseteq Int => n \in Int
        /\ V \cup {c.value} \subseteq Int => k = n + c.value
    BY <1>3, <1>4, <1>5
  <1> HIDE DEF V, E, F, W
  <1>8. /\ DoubleSum(V, n) \in Values
        /\ DoubleSum(V \cup {c.value}, k) = Plus(DoubleSum(V, n), c.value)
    BY <1>2, <1>7, DoubleSumAdds
  <1> QED BY <1>6, <1>8 DEF W

(* Doubles other than NaN are in a total order. *)
LEMMA LessOrders ==
    ASSUME NEW x \in Ordered, NEW y \in Ordered, NEW z \in Ordered
    PROVE  /\ Less(x, y) => ~Less(y, x)
           /\ ~Less(y, x) /\ ~Less(z, y) => ~Less(z, x)
  BY SlotAssumption DEF Ordered, Less

-----------------------------------------------------------------------------
(* Buckets. *)

(* Powers of two, as the numbers of subsets of an interval.                *)
LEMMA PowerIsSubsets ==
    ASSUME NEW n \in Nat
    PROVE  /\ IsFiniteSet(SUBSET (1 .. n))
           /\ 2^n = Cardinality(SUBSET (1 .. n))
           /\ 2^n \in Nat
  <1>1. IsFiniteSet(1 .. n) /\ Cardinality(1 .. n) = n
    BY FS_Interval
  <1>2. IsFiniteSet(SUBSET (1 .. n)) /\ Cardinality(SUBSET (1 .. n)) = 2^Cardinality(1 .. n)
    BY <1>1, FS_SUBSET
  <1> QED BY <1>1, <1>2, FS_CardinalityType

LEMMA PowerDoubles ==
    ASSUME NEW n \in Nat
    PROVE  2^(n + 1) = 2 * 2^n
  <1> DEFINE A == SUBSET (1 .. n)
             B == {s \cup {n + 1} : s \in A}
             C == SUBSET (1 .. n + 1)
             f == [s \in A |-> s \cup {n + 1}]
  <1>1. C = A \cup B
    <2>1. A \subseteq C
      OBVIOUS
    <2>4. B \subseteq C
      <3> SUFFICES ASSUME NEW s \in A PROVE s \cup {n + 1} \in C
        OBVIOUS
      <3>1. s \subseteq 1 .. n + 1 /\ n + 1 \in 1 .. n + 1
        OBVIOUS
      <3> QED BY <3>1
    <2>2. ASSUME NEW s \in C, n + 1 \notin s PROVE s \in A
      BY <2>2
    <2>3. ASSUME NEW s \in C, n + 1 \in s PROVE s \in B
      <3>1. s \ {n + 1} \in A /\ s = (s \ {n + 1}) \cup {n + 1}
        BY <2>3
      <3> QED BY <3>1
    <2> HIDE DEF A, B, C
    <2> QED BY <2>1, <2>2, <2>3, <2>4
  <1>2. A \cap B = {}
    OBVIOUS
  <1>3. f \in Bijection(A, B)
    <2>1. f \in [A -> B]
      OBVIOUS
    <2>2. \A b \in B : \E s \in A : f[s] = b
      OBVIOUS
    <2>3. ASSUME NEW s \in A, NEW u \in A, f[s] = f[u]
          PROVE  s = u
      <3>1. n + 1 \notin s /\ n + 1 \notin u /\ s \cup {n + 1} = u \cup {n + 1}
        BY <2>3
      <3> QED BY <3>1
    <2> HIDE DEF A, B, f
    <2> QED BY <2>1, <2>2, <2>3 DEF Bijection, Injection, Surjection, IsInjective
  <1>4. IsFiniteSet(A) /\ 2^n = Cardinality(A) /\ 2^n \in Nat
    BY PowerIsSubsets
  <1>5. n + 1 \in Nat /\ 2^(n + 1) = Cardinality(C)
    BY PowerIsSubsets
  <1> HIDE DEF A, B, C, f
  <1>6. IsFiniteSet(B) /\ Cardinality(B) = Cardinality(A)
    BY <1>3, <1>4, FS_Bijection DEF ExistsBijection
  <1>7. Cardinality(A \cup B) = Cardinality(A) + Cardinality(B) - Cardinality(A \cap B)
    BY <1>4, <1>6, FS_Union
  <1>8. Cardinality(A \cap B) = 0
    BY <1>2, FS_EmptySet
  <1> QED BY <1>1, <1>4, <1>5, <1>6, <1>7, <1>8

LEMMA PowerGrows ==
    ASSUME NEW m \in Nat, NEW k \in Nat, m <= k
    PROVE  2^m <= 2^k
  <1> DEFINE G == {n \in Nat : 2^m <= 2^(m + n)}
  <1>1. 0 \in G
    BY PowerIsSubsets
  <1>2. ASSUME NEW n \in Nat, n \in G PROVE n + 1 \in G
    <2>0. m + n \in Nat
      OBVIOUS
    <2>1. 2^(m + n) \in Nat /\ 2^m \in Nat /\ m + n \in Nat
      BY <2>0, PowerIsSubsets, Zenon
    <2>2. 2^((m + n) + 1) = 2 * 2^(m + n)
      BY <2>1, PowerDoubles
    <2>3. (m + n) + 1 = m + (n + 1)
      OBVIOUS
    <2>4. 2^m <= 2 * 2^(m + n)
      BY <1>2, <2>1
    <2> QED BY <2>2, <2>3, <2>4
  <1>3. \A n \in Nat : n \in G
    <2> HIDE DEF G
    <2> QED BY <1>1, <1>2, NaturalsBySteps
  <1>4. k - m \in Nat /\ m + (k - m) = k
    OBVIOUS
  <1> QED BY <1>3, <1>4

LEMMA PowerAbove ==
    ASSUME NEW n \in Nat
    PROVE  n < 2^n
  <1> DEFINE G == {k \in Nat : k < 2^k}
  <1>1. 0 \in G
    <2>1. 2^0 = 1
      BY SMT
    <2> QED BY <2>1
  <1>2. ASSUME NEW k \in Nat, k \in G PROVE k + 1 \in G
    <2>1. 2^k \in Nat /\ 2^(k + 1) = 2 * 2^k /\ k < 2^k
      BY <1>2, PowerIsSubsets, PowerDoubles
    <2> QED BY <2>1
  <1>3. \A k \in Nat : k \in G
    <2> HIDE DEF G
    <2> QED BY <1>1, <1>2, NaturalsBySteps
  <1> QED BY <1>3

(* The exponent of a number exists and is unique. *)
LEMMA ExponentExists ==
    ASSUME NEW x \in Nat, x >= 1
    PROVE  \E e \in 0 .. x : 2^e <= x /\ x < 2^(e + 1)
  <1> DEFINE G == {n \in Nat : \E e \in Nat : 2^e <= n + 1 /\ n + 1 < 2^(e + 1)}
  <1>1. 0 \in G
    <2>1. 2^0 = 1 /\ 0 \in Nat
      BY SMT
    <2>2. 2^(0 + 1) = 2 * 2^0
      BY <2>1, PowerDoubles
    <2>3. 2^0 <= 0 + 1 /\ 0 + 1 < 2^(0 + 1)
      BY <2>1, <2>2
    <2> QED BY <2>1, <2>3
  <1>2. ASSUME NEW n \in Nat, n \in G PROVE n + 1 \in G
    <2>1. PICK e \in Nat : 2^e <= n + 1 /\ n + 1 < 2^(e + 1)
      BY <1>2
    <2>2. e + 1 \in Nat
      OBVIOUS
    <2>3. 2^e \in Nat /\ 2^(e + 1) \in Nat /\ 2^((e + 1) + 1) = 2 * 2^(e + 1)
      BY <2>2, PowerIsSubsets, PowerDoubles
    <2>4. CASE n + 2 < 2^(e + 1)
      <3>1. 2^e <= (n + 1) + 1 /\ (n + 1) + 1 < 2^(e + 1)
        BY <2>1, <2>3, <2>4
      <3> QED BY <3>1
    <2>5. CASE ~(n + 2 < 2^(e + 1))
      <3>1. 2^(e + 1) <= (n + 1) + 1 /\ (n + 1) + 1 < 2^((e + 1) + 1)
        BY <2>1, <2>3, <2>5
      <3> QED BY <2>2, <3>1
    <2> QED BY <2>4, <2>5
  <1>3. \A n \in Nat : n \in G
    <2> HIDE DEF G
    <2> QED BY <1>1, <1>2, NaturalsBySteps
  <1>4. x - 1 \in Nat /\ (x - 1) + 1 = x
    OBVIOUS
  <1>5. PICK e \in Nat : 2^e <= x /\ x < 2^(e + 1)
    BY <1>3, <1>4
  <1>6. e < 2^e /\ 2^e \in Nat
    BY PowerAbove, PowerIsSubsets
  <1>7. e \in 0 .. x
    BY <1>5, <1>6
  <1> QED BY <1>5, <1>7

LEMMA ilogbIs ==
    ASSUME NEW x \in Nat, x >= 1
    PROVE  /\ ilogb(x) \in Nat
           /\ 2^ilogb(x) <= x /\ x < 2^(ilogb(x) + 1)
  <1>1. PICK e : e = ilogb(x)
    OBVIOUS
  <1>2. e \in 0 .. x /\ 2^e <= x /\ x < 2^(e + 1)
    BY <1>1, ExponentExists DEF ilogb
  <1>3. e \in Nat
    BY <1>2
  <1> QED BY <1>1, <1>2, <1>3, Zenon

(* What makes a rank of the buckets a rank of the samples: a sample is in  *)
(* one of the buckets up to i exactly when it is below their upper bound,  *)
(* or NaN.  Of +infinity it is only known that it is in no bucket but the  *)
(* last.                                                                   *)
LEMMA BucketRanks ==
    ASSUME NEW x \in Doubles, NEW b \in HistogramBucketOf(x), NEW i \in Buckets
    PROVE  /\ b \in Int
           /\ x # PosInf \/ i < LastBucket =>
                (b \in 0 .. i <=> x = NaN \/ Less(x, HistogramBucketUpperBound(i)))
           /\ x = PosInf => ~(x = NaN \/ Less(x, HistogramBucketUpperBound(i)))
  <1> USE SlotAssumption
  <1> DEFINE u == HistogramBucketUpperBound(i)
  <1>0. /\ i \in Nat /\ kHistogramBuckets \in Nat /\ LastBucket \in Nat /\ LastBucket >= 1
        /\ i <= LastBucket
    BY DEF Buckets, LastBucket
  <1>1. 2^i \in Nat /\ i < 2^i
    BY <1>0, PowerIsSubsets, PowerAbove
  <1>2. /\ i < LastBucket => u = 2^i
        /\ i = LastBucket => u = PosInf
    BY <1>0 DEF HistogramBucketUpperBound
  <1> HIDE DEF u
  <1>3. CASE x = NaN
    BY <1>0, <1>3 DEF HistogramBucketOf
  <1>4. CASE x = NegInf \/ (x \in Int /\ x < 1)
    <2>1. x # NaN /\ x # PosInf
      BY <1>4
    <2>2. Less(x, 1)
      BY <1>4, <2>1 DEF Less
    <2>3. b = 0
      BY <2>2 DEF HistogramBucketOf
    <2>4. CASE i < LastBucket
      <3>1. u \in Int /\ u >= 1
        BY <1>0, <1>1, <1>2, <2>4
      <3>2. Less(x, u)
        BY <1>4, <2>1, <3>1 DEF Less
      <3> QED BY <1>0, <2>1, <2>3, <3>2 DEF u
    <2>5. CASE i = LastBucket
      <3>1. Less(x, u)
        BY <1>2, <2>1, <2>5 DEF Less
      <3> QED BY <1>0, <2>1, <2>3, <3>1 DEF u
    <2> QED BY <1>0, <2>4, <2>5
  <1>5. CASE x = PosInf
    <2>1. x # NaN /\ ~Less(x, 1) /\ ~Less(x, u)
      BY <1>5 DEF Less
    <2>2. b \in {LastBucket, -1}
      BY <1>5, <2>1 DEF HistogramBucketOf, Outside
    <2>3. b \in Int /\ (i < LastBucket => b \notin 0 .. i)
      BY <1>0, <2>2
    <2> QED BY <1>5, <2>1, <2>3 DEF u
  <1>6. CASE x \in Int /\ ~(x < 1)
    <2>1. x # NaN /\ x # PosInf /\ x \in Nat /\ x >= 1
      BY <1>6
    <2>2. ~Less(x, 1)
      BY <2>1 DEF Less
    <2>3. PICK e \in Nat : e = ilogb(x) /\ 2^e <= x /\ x < 2^(e + 1)
      BY <2>1, ilogbIs
    <2>4. b = Clamped(e + 1)
      BY <2>1, <2>2, <2>3 DEF HistogramBucketOf
    <2>5. b = IF e + 1 >= LastBucket THEN LastBucket ELSE e + 1
      BY <2>4 DEF Clamped
    <2>6. e + 1 \in Nat /\ 2^e \in Nat /\ 2^(e + 1) \in Nat
      <3>1. e + 1 \in Nat
        OBVIOUS
      <3> QED BY <3>1, PowerIsSubsets, Zenon
    <2>7. e + 1 <= i => x < 2^i
      BY <1>0, <1>1, <2>1, <2>3, <2>6, PowerGrows
    <2>8. ~(e + 1 <= i) => 2^i <= x
      <3>1. ~(e + 1 <= i) => i <= e
        BY <1>0
      <3> QED BY <1>0, <1>1, <2>1, <2>3, <2>6, <3>1, PowerGrows
    <2>9. e + 1 <= i <=> x < 2^i
      BY <1>1, <2>1, <2>7, <2>8
    <2>10. CASE i = LastBucket
      <3>1. b \in 0 .. i
        BY <1>0, <2>5, <2>10
      <3>2. Less(x, u)
        BY <1>2, <2>1, <2>10 DEF Less
      <3> QED BY <2>1, <3>1, <3>2 DEF u
    <2>11. CASE i < LastBucket
      <3>1. b \in Int /\ (b \in 0 .. i <=> e + 1 <= i)
        BY <1>0, <2>5, <2>11
      <3>2. Less(x, u) <=> x < 2^i
        BY <1>1, <1>2, <2>1, <2>11 DEF Less
      <3> QED BY <2>1, <2>9, <3>1, <3>2 DEF u
    <2> QED BY <1>0, <2>10, <2>11
  <1> QED BY <1>3, <1>4, <1>5, <1>6 DEF Doubles

-----------------------------------------------------------------------------
(* The calls that are past a step. *)

(* Past, of the calls C and the labels P *)
PastOf(S, C, P, Labels) ==
    {r \in S : r.nth < C[r.by] \/ P[r.by] \in Labels \cup {"idle"}}

(* Announced calls, no later than the last *)
Announced(S, C) ==
    /\ S \in SUBSET Calls /\ C \in [Callers -> Nat]
    /\ \A r \in S : r.nth <= C[r.by]

(* c is the last call of t in S, or t's last call is not in S *)
LastIn(S, C, t, c) ==
    /\ c \in S /\ c.by = t /\ c.nth = C[t]
    /\ \A r \in S : r.by = t /\ r.nth = C[t] => r = c
LastElsewhere(S, C, t) == \A r \in S : ~(r.by = t /\ r.nth = C[t])

(* A thread at l, or idle, is past the step that leads to L. *)
Passed(l, L) == l \in L \cup {"idle"}

OnlyOf(t, f, g) == \A u \in Callers \ {t} : g[u] = f[u]

(* The current call of t passes. *)
LEMMA PastLacks ==
    ASSUME NEW S, NEW C, NEW P, NEW L, NEW t \in Callers, NEW c,
           Announced(S, C), LastIn(S, C, t, c), ~Passed(P[t], L)
    PROVE  c \notin PastOf(S, C, P, L)
  <1>1. C[t] \in Nat
    BY DEF Announced
  <1> QED BY <1>1 DEF PastOf, Passed, LastIn

LEMMA PastGains ==
    ASSUME NEW S, NEW C, NEW P, NEW Q, NEW L, NEW t \in Callers, NEW c,
           Announced(S, C), LastIn(S, C, t, c), OnlyOf(t, P, Q),
           ~Passed(P[t], L), Passed(Q[t], L)
    PROVE  PastOf(S, C, Q, L) = PastOf(S, C, P, L) \cup {c}
  <1>1. \A r \in S : r.by \in Callers /\ r.nth \in Nat /\ C[r.by] \in Nat
    BY DEF Announced, Calls
  <1>3. ASSUME NEW r \in S
        PROVE  r \in PastOf(S, C, Q, L) <=> r \in PastOf(S, C, P, L) \/ r = c
    <2>1. CASE r.by # t
      BY <1>1, <2>1 DEF PastOf, Passed, OnlyOf, LastIn
    <2>2. CASE r.by = t /\ r.nth = C[t]
      BY <2>2 DEF PastOf, Passed, LastIn
    <2>3. CASE r.by = t /\ r.nth # C[t]
      <3>1. r.nth < C[t]
        BY <1>1, <2>3 DEF Announced
      <3> QED BY <2>3, <3>1 DEF PastOf, Passed
    <2> QED BY <2>1, <2>2, <2>3
  <1> QED BY <1>3 DEF PastOf, LastIn

(* No current call passes. *)
LEMMA PastStays ==
    ASSUME NEW S, NEW C, NEW P, NEW Q, NEW L, NEW t \in Callers,
           Announced(S, C), OnlyOf(t, P, Q),
           \/ P[t] \in L \cup {"idle"} <=> Q[t] \in L \cup {"idle"}
           \/ LastElsewhere(S, C, t)
    PROVE  PastOf(S, C, Q, L) = PastOf(S, C, P, L)
  <1>1. \A r \in S : r.by \in Callers /\ r.nth \in Nat /\ C[r.by] \in Nat
    BY DEF Announced, Calls
  <1>2. ASSUME NEW r \in S
        PROVE  r \in PastOf(S, C, Q, L) <=> r \in PastOf(S, C, P, L)
    <2>1. CASE r.by # t
      BY <1>1, <2>1 DEF PastOf, OnlyOf
    <2>2. CASE r.by = t /\ r.nth = C[t]
      BY <1>1, <2>2 DEF PastOf, LastElsewhere
    <2>3. CASE r.by = t /\ r.nth # C[t]
      <3>1. r.nth < C[t]
        BY <1>1, <2>3 DEF Announced
      <3> QED BY <2>3, <3>1 DEF PastOf
    <2> QED BY <2>1, <2>2, <2>3
  <1> QED BY <1>2 DEF PastOf

(* A new call of an idle t is announced, in S or elsewhere. *)
LEMMA PastBegins ==
    ASSUME NEW S, NEW C, NEW P, NEW Q, NEW L, NEW D, NEW t \in Callers, NEW N,
           Announced(S, C), OnlyOf(t, P, Q), OnlyOf(t, C, D),
           P[t] = "idle", D[t] = C[t] + 1,
           \A r \in N : r.by = t /\ r.nth = D[t] /\ Q[t] \notin L \cup {"idle"}
    PROVE  PastOf(S \cup N, D, Q, L) = PastOf(S, C, P, L)
  <1>1. \A r \in S : r.by \in Callers /\ r.nth \in Nat /\ C[r.by] \in Nat
    BY DEF Announced, Calls
  <1>2. ASSUME NEW r \in S
        PROVE  r \in PastOf(S \cup N, D, Q, L) <=> r \in PastOf(S, C, P, L)
    <2>1. CASE r.by # t
      BY <1>1, <2>1 DEF PastOf, OnlyOf
    <2>2. CASE r.by = t
      <3>1. r.nth < D[t]
        BY <1>1, <2>2 DEF Announced
      <3> QED BY <2>2, <3>1 DEF PastOf
    <2> QED BY <2>1, <2>2
  <1>3. D[t] \in Nat /\ ~(D[t] < D[t])
    <2>1. C[t] \in Nat
      BY DEF Announced
    <2> QED BY <2>1
  <1>4. \A r \in N : r \notin PastOf(S \cup N, D, Q, L)
    BY <1>3 DEF PastOf
  <1> QED BY <1>2, <1>4 DEF PastOf

(* Past sets are finite sets of calls. *)
LEMMA PastFinite ==
    ASSUME SlotTypeOK, NEW L
    PROVE  /\ Past(added, L) \in SUBSET Calls /\ IsFiniteSet(Past(added, L))
           /\ Past(recorded, L) \in SUBSET Calls /\ IsFiniteSet(Past(recorded, L))
  <1>1. Past(added, L) \in SUBSET added /\ Past(recorded, L) \in SUBSET recorded
    BY DEF Past
  <1>2. /\ added \subseteq Calls /\ IsFiniteSet(added)
        /\ recorded \subseteq Calls /\ IsFiniteSet(recorded)
    BY DEF SlotTypeOK
  <1> QED BY <1>1, <1>2, FS_Subset

-----------------------------------------------------------------------------
(* The steps of a call. *)

(* Thread t goes from one label of its call to another, or retries.        *)
Moves(t, l, m) ==
    /\ pc[t] = l /\ pc' = [pc EXCEPT ![t] = m]
    /\ UNCHANGED <<v, calls, added, recorded>>

LEMMA PastIs ==
    ASSUME NEW L
    PROVE  /\ Past(added, L) = PastOf(added, calls, pc, L)
           /\ Past(recorded, L) = PastOf(recorded, calls, pc, L)
           /\ Past(added, L)' = PastOf(added', calls', pc', L)
           /\ Past(recorded, L)' = PastOf(recorded', calls', pc', L)
  BY DEF Past, PastOf

(* Steps of Add *)
LEMMA AddMoves ==
    ASSUME SlotTypeOK, CallInv, NEW t \in Callers,
           NEW l \in AddLabels, NEW m \in AddLabels \cup {"idle"}, Moves(t, l, m),
           NEW L, ~Passed(l, L), m # "idle" => ~Passed(m, L)
    PROVE  /\ Past(recorded, L)' = Past(recorded, L)
           /\ m # "idle" => Past(added, L)' = Past(added, L)
           /\ m = "idle" => /\ Current(t) \notin Past(added, L)
                            /\ Past(added, L)' = Past(added, L) \cup {Current(t)}
  <1>1. PICK A, R, C, P, Q : A = added /\ R = recorded /\ C = calls /\ P = pc /\ Q = pc'
    OBVIOUS
  <1>2. PICK c : c = Current(t)
    OBVIOUS
  <1>3. /\ A \in SUBSET Calls /\ R \in SUBSET Calls /\ C \in [Callers -> Nat]
        /\ P \in [Callers -> {"idle"} \cup AddLabels \cup RecordLabels]
    BY <1>1 DEF SlotTypeOK
  <1>4. /\ added' = A /\ recorded' = R /\ calls' = C
        /\ P[t] = l /\ Q[t] = m /\ OnlyOf(t, P, Q)
    BY <1>1, <1>3 DEF Moves, OnlyOf
  <1>5. Announced(A, C) /\ Announced(R, C)
    BY <1>1, <1>3 DEF CallInv, Announced
  <1>6. P[t] # "idle" /\ P[t] \notin RecordLabels /\ P[t] \in AddLabels
    BY <1>4 DEF AddLabels, RecordLabels
  <1>7. LastIn(A, C, t, c)
    BY <1>1, <1>2, <1>6 DEF CallInv, InCall, Current, LastIn
  <1>8. LastElsewhere(R, C, t)
    BY <1>1, <1>6 DEF CallInv, InCall, LastElsewhere
  <1>9. PastOf(R, C, Q, L) = PastOf(R, C, P, L)
    BY <1>4, <1>5, <1>8, PastStays
  <1>10. ASSUME m # "idle" PROVE PastOf(A, C, Q, L) = PastOf(A, C, P, L)
    <2>1. P[t] \notin L \cup {"idle"} /\ Q[t] \notin L \cup {"idle"}
      BY <1>4, <1>10 DEF Passed
    <2> QED BY <1>4, <1>5, <2>1, PastStays
  <1>11. ASSUME Passed(m, L)
         PROVE  c \notin PastOf(A, C, P, L) /\ PastOf(A, C, Q, L) = PastOf(A, C, P, L) \cup {c}
    <2>1. ~Passed(P[t], L) /\ Passed(Q[t], L)
      BY <1>4, <1>11, Zenon
    <2>2. c \notin PastOf(A, C, P, L)
      BY <1>5, <1>7, <2>1, PastLacks
    <2>3. PastOf(A, C, Q, L) = PastOf(A, C, P, L) \cup {c}
      BY <1>4, <1>5, <1>7, <2>1, PastGains
    <2> QED BY <2>2, <2>3
  <1>12. /\ Past(added, L) = PastOf(A, C, P, L) /\ Past(recorded, L) = PastOf(R, C, P, L)
         /\ Past(added, L)' = PastOf(A, C, Q, L) /\ Past(recorded, L)' = PastOf(R, C, Q, L)
    BY <1>1, <1>4, PastIs
  <1> QED BY <1>2, <1>9, <1>10, <1>11, <1>12 DEF Passed

(* Steps of Record *)
LEMMA RecordMoves ==
    ASSUME SlotTypeOK, CallInv, NEW t \in Callers,
           NEW l \in RecordLabels, NEW m \in RecordLabels \cup {"idle"}, Moves(t, l, m),
           NEW L
    PROVE  /\ Past(added, L)' = Past(added, L)
           /\ (l \in L <=> m \in L \cup {"idle"}) =>
                  Past(recorded, L)' = Past(recorded, L)
           /\ l \notin L /\ m \in L \cup {"idle"} =>
                  /\ Current(t) \notin Past(recorded, L)
                  /\ Past(recorded, L)' = Past(recorded, L) \cup {Current(t)}
  <1>1. PICK A, R, C, P, Q : A = added /\ R = recorded /\ C = calls /\ P = pc /\ Q = pc'
    OBVIOUS
  <1>2. PICK c : c = Current(t)
    OBVIOUS
  <1>3. /\ A \in SUBSET Calls /\ R \in SUBSET Calls /\ C \in [Callers -> Nat]
        /\ P \in [Callers -> {"idle"} \cup AddLabels \cup RecordLabels]
    BY <1>1 DEF SlotTypeOK
  <1>4. /\ added' = A /\ recorded' = R /\ calls' = C
        /\ P[t] = l /\ Q[t] = m /\ OnlyOf(t, P, Q)
    BY <1>1, <1>3 DEF Moves, OnlyOf
  <1>5. Announced(A, C) /\ Announced(R, C)
    BY <1>1, <1>3 DEF CallInv, Announced
  <1>6. P[t] # "idle" /\ P[t] \notin AddLabels /\ P[t] \in RecordLabels
    BY <1>4 DEF AddLabels, RecordLabels
  <1>7. LastIn(R, C, t, c)
    BY <1>1, <1>2, <1>6 DEF CallInv, InCall, Current, LastIn
  <1>8. LastElsewhere(A, C, t)
    BY <1>1, <1>6 DEF CallInv, InCall, LastElsewhere
  <1>9. PastOf(A, C, Q, L) = PastOf(A, C, P, L)
    BY <1>4, <1>5, <1>8, PastStays
  <1>10. ASSUME l \in L <=> m \in L \cup {"idle"}
         PROVE  PastOf(R, C, Q, L) = PastOf(R, C, P, L)
    <2>1. P[t] \in L \cup {"idle"} <=> Q[t] \in L \cup {"idle"}
      BY <1>4, <1>6, <1>10
    <2> QED BY <1>4, <1>5, <2>1, PastStays
  <1>11. ASSUME l \notin L, m \in L \cup {"idle"}
         PROVE  c \notin PastOf(R, C, P, L) /\ PastOf(R, C, Q, L) = PastOf(R, C, P, L) \cup {c}
    <2>1. ~Passed(P[t], L) /\ Passed(Q[t], L)
      BY <1>4, <1>6, <1>11 DEF Passed
    <2>2. c \notin PastOf(R, C, P, L)
      BY <1>5, <1>7, <2>1, PastLacks
    <2>3. PastOf(R, C, Q, L) = PastOf(R, C, P, L) \cup {c}
      BY <1>4, <1>5, <1>7, <2>1, PastGains
    <2> QED BY <2>2, <2>3
  <1>12. /\ Past(added, L) = PastOf(A, C, P, L) /\ Past(recorded, L) = PastOf(R, C, P, L)
         /\ Past(added, L)' = PastOf(A, C, Q, L) /\ Past(recorded, L)' = PastOf(R, C, Q, L)
    BY <1>1, <1>4, PastIs
  <1> QED BY <1>2, <1>9, <1>10, <1>11, <1>12

(* The first steps of Add and of Record, and Set *)
LEMMA PastAtCall ==
    ASSUME SlotTypeOK, CallInv, NEW t \in Callers, NEW x \in Doubles,
           Add(t, x) \/ Set(t, x) \/ Record(t, x),
           NEW L, L \cap {"add", "count", "idle"} = {}
    PROVE  Past(added, L)' = Past(added, L) /\ Past(recorded, L)' = Past(recorded, L)
  <1>1. PICK A, R, C, P : A = added /\ R = recorded /\ C = calls /\ P = pc
    OBVIOUS
  <1>2. PICK Q, D, c : Q = pc' /\ D = calls' /\ c = ThisCall(t, x)
    OBVIOUS
  <1>3. /\ A \in SUBSET Calls /\ R \in SUBSET Calls /\ C \in [Callers -> Nat]
        /\ P \in [Callers -> {"idle"} \cup AddLabels \cup RecordLabels]
    BY <1>1 DEF SlotTypeOK
  <1>4. Announced(A, C) /\ Announced(R, C)
    BY <1>1, <1>3 DEF CallInv, Announced
  <1>5. /\ P[t] = "idle" /\ D[t] = C[t] + 1
        /\ OnlyOf(t, P, Q) /\ OnlyOf(t, C, D)
    BY <1>1, <1>2, <1>3 DEF Add, Set, Record, Call, Goto, OnlyOf
  <1>6. c.by = t /\ c.nth = D[t]
    BY <1>1, <1>2, <1>5 DEF ThisCall
  <1>7. PICK N, M :
          /\ added' = A \cup N /\ recorded' = R \cup M
          /\ \A r \in N : r = c /\ Q[t] = "add"
          /\ \A r \in M : r = c /\ Q[t] = "count"
    <2>1. CASE Add(t, x)
      <3>1. added' = A \cup {c} /\ recorded' = R \cup {} /\ Q[t] = "add"
        BY <1>1, <1>2, <1>3, <2>1 DEF Add, Goto
      <3> QED BY <3>1
    <2>2. CASE Set(t, x)
      <3>1. added' = A \cup {} /\ recorded' = R \cup {}
        BY <1>1, <2>2 DEF Set
      <3> QED BY <3>1
    <2>3. CASE Record(t, x)
      <3>1. added' = A \cup {} /\ recorded' = R \cup {c} /\ Q[t] = "count"
        BY <1>1, <1>2, <1>3, <2>3 DEF Record, Goto
      <3> QED BY <3>1
    <2> QED BY <2>1, <2>2, <2>3
  <1>8. /\ \A r \in N : r.by = t /\ r.nth = D[t] /\ Q[t] \notin L \cup {"idle"}
        /\ \A r \in M : r.by = t /\ r.nth = D[t] /\ Q[t] \notin L \cup {"idle"}
    BY <1>6, <1>7
  <1>9. PastOf(A \cup N, D, Q, L) = PastOf(A, C, P, L)
    BY <1>4, <1>5, <1>8, PastBegins
  <1>10. PastOf(R \cup M, D, Q, L) = PastOf(R, C, P, L)
    BY <1>4, <1>5, <1>8, PastBegins
  <1>11. /\ Past(added, L) = PastOf(A, C, P, L)
         /\ Past(recorded, L) = PastOf(R, C, P, L)
         /\ Past(added, L)' = PastOf(A \cup N, D, Q, L)
         /\ Past(recorded, L)' = PastOf(R \cup M, D, Q, L)
    BY <1>1, <1>2, <1>7, PastIs
  <1> QED BY <1>9, <1>10, <1>11

(* The calls stay in order. *)
LEMMA CallsMove ==
    ASSUME SlotTypeOK, CallInv, NEW t \in Callers, NEW l, NEW m, Moves(t, l, m),
           \/ l \in AddLabels /\ m \in AddLabels \cup {"idle"}
           \/ l \in RecordLabels /\ m \in RecordLabels \cup {"idle"}
    PROVE  /\ pc' \in [Callers -> {"idle"} \cup AddLabels \cup RecordLabels]
           /\ CallInv'
  <1>1. /\ pc' \in [Callers -> {"idle"} \cup AddLabels \cup RecordLabels]
        /\ pc[t] = l /\ pc'[t] = m /\ \A u \in Callers \ {t} : pc'[u] = pc[u]
    BY DEF SlotTypeOK, Moves
  <1>2. v' = v /\ calls' = calls /\ added' = added /\ recorded' = recorded
    BY DEF Moves
  <1>3. \A r \in (added \cup recorded)' : r.nth <= calls'[r.by]
    BY <1>2 DEF CallInv
  <1>4. ASSUME NEW u \in Callers
        PROVE  InCall(u, added, AddLabels)' /\ InCall(u, recorded, RecordLabels)'
    <2>1. /\ InCall(u, added, AddLabels) /\ InCall(u, recorded, RecordLabels)
          /\ Current(u)' = Current(u)
      BY <1>2 DEF CallInv, Current
    <2>2. CASE u # t
      <3>1. pc'[u] = pc[u]
        BY <1>1, <2>2
      <3> QED BY <1>2, <2>1, <3>1 DEF InCall
    <2>3. CASE u = t
      <3>1. /\ pc[u] = l /\ pc'[u] = m /\ l # "idle"
            /\ m \in AddLabels => l \in AddLabels
            /\ m \in RecordLabels => l \in RecordLabels
            /\ m # "idle" /\ l \in AddLabels => m \in AddLabels
            /\ m # "idle" /\ l \in RecordLabels => m \in RecordLabels
        BY <1>1, <2>3 DEF AddLabels, RecordLabels
      <3> QED BY <1>2, <2>1, <3>1 DEF InCall
    <2> QED BY <2>2, <2>3
  <1> QED BY <1>1, <1>3, <1>4 DEF CallInv

LEMMA CallsBegin ==
    ASSUME SlotTypeOK, CallInv, NEW t \in Callers, NEW x \in Doubles,
           Add(t, x) \/ Set(t, x) \/ Record(t, x)
    PROVE  /\ pc' \in [Callers -> {"idle"} \cup AddLabels \cup RecordLabels]
           /\ v' \in [Callers -> Values] /\ calls' \in [Callers -> Nat]
           /\ added' \subseteq Calls /\ IsFiniteSet(added')
           /\ recorded' \subseteq Calls /\ IsFiniteSet(recorded')
           /\ CallInv'
  <1> DEFINE c == ThisCall(t, x)
  <1>0. /\ pc \in [Callers -> {"idle"} \cup AddLabels \cup RecordLabels]
        /\ calls \in [Callers -> Nat] /\ v \in [Callers -> Values]
        /\ added \subseteq Calls /\ recorded \subseteq Calls
        /\ IsFiniteSet(added) /\ IsFiniteSet(recorded)
    BY DEF SlotTypeOK
  <1>1. /\ pc[t] = "idle" /\ calls'[t] = calls[t] + 1 /\ calls[t] \in Nat
        /\ calls' \in [Callers -> Nat]
        /\ \A u \in Callers \ {t} : calls'[u] = calls[u] /\ pc'[u] = pc[u] /\ v'[u] = v[u]
    BY <1>0 DEF Add, Set, Record, Call, Goto
  <1>2. x \in Values
    BY SlotAssumption DEF Doubles, Values, Ordered
  <1>3. c \in Calls /\ c.by = t /\ c.nth = calls'[t] /\ c.value = x
    BY <1>1 DEF ThisCall, Calls
  <1> HIDE DEF c
  <1>4. \/ /\ added' = added \cup {c} /\ recorded' = recorded
           /\ pc'[t] = "add" /\ Current(t)' = c
           /\ pc' \in [Callers -> {"idle"} \cup AddLabels \cup RecordLabels]
           /\ v' \in [Callers -> Values]
        \/ /\ added' = added /\ recorded' = recorded
           /\ pc' = pc /\ v' = v
        \/ /\ added' = added /\ recorded' = recorded \cup {c}
           /\ pc'[t] = "count" /\ Current(t)' = c
           /\ pc' \in [Callers -> {"idle"} \cup AddLabels \cup RecordLabels]
           /\ v' \in [Callers -> Values]
    <2>1. CASE Add(t, x)
      <3>1. Current(t)' = c
        BY <1>0, <1>1, <2>1 DEF Add, Call, Current, ThisCall, c
      <3>2. /\ added' = added \cup {c} /\ recorded' = recorded
            /\ pc'[t] = "add"
            /\ pc' \in [Callers -> {"idle"} \cup AddLabels \cup RecordLabels]
            /\ v' \in [Callers -> Values]
        BY <1>0, <1>2, <2>1 DEF Add, Call, Goto, AddLabels, c
      <3> QED BY <3>1, <3>2
    <2>2. CASE Set(t, x)
      BY <2>2 DEF Set
    <2>3. CASE Record(t, x)
      <3>1. Current(t)' = c
        BY <1>0, <1>1, <2>3 DEF Record, Call, Current, ThisCall, c
      <3>2. /\ added' = added /\ recorded' = recorded \cup {c}
            /\ pc'[t] = "count"
            /\ pc' \in [Callers -> {"idle"} \cup AddLabels \cup RecordLabels]
            /\ v' \in [Callers -> Values]
        BY <1>0, <1>2, <2>3 DEF Record, Call, Goto, RecordLabels, c
      <3> QED BY <3>1, <3>2
    <2> QED BY <2>1, <2>2, <2>3
  <1>5. /\ added' \subseteq Calls /\ IsFiniteSet(added')
        /\ recorded' \subseteq Calls /\ IsFiniteSet(recorded')
    <2>1. IsFiniteSet(added \cup {c}) /\ IsFiniteSet(recorded \cup {c})
      BY <1>0, FS_AddElement
    <2> QED BY <1>0, <1>3, <1>4, <2>1
  <1>6. \A r \in added \cup recorded :
          /\ r.by \in Callers /\ r.nth \in Nat /\ calls[r.by] \in Nat
          /\ r.nth <= calls[r.by]
    BY <1>0 DEF CallInv, Calls
  <1>7. \A r \in (added \cup recorded)' : r.nth <= calls'[r.by]
    <2>1. \A r \in added \cup recorded : r.nth <= calls'[r.by]
      BY <1>1, <1>6
    <2>2. c.nth <= calls'[c.by]
      BY <1>1, <1>3
    <2> QED BY <1>4, <2>1, <2>2
  <1>8. ASSUME NEW u \in Callers
        PROVE  InCall(u, added, AddLabels)' /\ InCall(u, recorded, RecordLabels)'
    <2>1. CASE u # t
      <3>1. pc'[u] = pc[u] /\ calls'[u] = calls[u] /\ Current(u)' = Current(u)
        BY <1>1, <2>1 DEF Current
      <3>2. InCall(u, added, AddLabels) /\ InCall(u, recorded, RecordLabels)
        BY DEF CallInv
      <3> QED BY <1>3, <1>4, <2>1, <3>1, <3>2 DEF InCall
    <2>2. CASE u = t
      <3>1. \A r \in added \cup recorded : r.by = t => r.nth # calls'[t]
        BY <1>1, <1>6
      <3> QED BY <1>1, <1>3, <1>4, <2>2, <3>1 DEF InCall, AddLabels, RecordLabels
    <2> QED BY <2>1, <2>2
  <1> QED BY <1>0, <1>1, <1>4, <1>5, <1>7, <1>8 DEF CallInv

(* The slots, one by one. *)
CounterOK == counter = Total(Past(added, {}))
CountOK == count = Cardinality(Counted)
SumOK == sum = Total(Summed)
MinOK == min \in Low /\ \A y \in Low : ~Less(y, min)
MaxOK == max \in High /\ \A y \in High : ~Less(max, y)

LEMMA SlotsStay ==
    /\ CounterOK /\ counter' = counter /\ Past(added, {})' = Past(added, {}) => CounterOK'
    /\ CountOK /\ count' = count /\ Counted' = Counted => CountOK'
    /\ SumOK /\ sum' = sum /\ Summed' = Summed => SumOK'
    /\ MinOK /\ min' = min /\ Minned' = Minned => MinOK'
    /\ MaxOK /\ max' = max /\ Maxed' = Maxed => MaxOK'
    /\ BucketsRankSamples /\ buckets' = buckets /\ Bucketed' = Bucketed =>
           BucketsRankSamples'
  <1>1. CounterOK /\ counter' = counter /\ Past(added, {})' = Past(added, {}) => CounterOK'
    BY DEF CounterOK
  <1>2. CountOK /\ count' = count /\ Counted' = Counted => CountOK'
    BY DEF CountOK
  <1>3. SumOK /\ sum' = sum /\ Summed' = Summed => SumOK'
    BY DEF SumOK
  <1>4. MinOK /\ min' = min /\ Minned' = Minned => MinOK'
    BY DEF MinOK, Low
  <1>5. MaxOK /\ max' = max /\ Maxed' = Maxed => MaxOK'
    BY DEF MaxOK, High
  <1>6. BucketsRankSamples /\ buckets' = buckets /\ Bucketed' = Bucketed =>
           BucketsRankSamples'
    BY DEF BucketsRankSamples, Below
  <1> QED BY <1>1, <1>2, <1>3, <1>4, <1>5, <1>6

(* From which label of Record a thread goes to which *)
Leads(l, m) ==
    \/ l = "count" /\ m = "bucket"
    \/ l = "bucket" /\ m = "sum"
    \/ l = "sum" /\ m = "sumcas"
    \/ l = "sumcas" /\ m \in {"sumcas", "min"}
    \/ l = "min" /\ m = "mincas"
    \/ l = "mincas" /\ m \in {"mincas", "max"}
    \/ l = "max" /\ m = "maxcas"
    \/ l = "maxcas" /\ m \in {"maxcas", "idle"}

(* A step of Record takes the call past at most one slot. *)
LEMMA RecordSets ==
    ASSUME SlotTypeOK, CallInv, NEW t \in Callers, NEW l, NEW m,
           Moves(t, l, m), Leads(l, m)
    PROVE  /\ Past(added, {})' = Past(added, {})
           /\ l # "count" => Counted' = Counted
           /\ l = "count" => /\ Current(t) \notin Counted
                             /\ Counted' = Counted \cup {Current(t)}
           /\ l # "bucket" => Bucketed' = Bucketed
           /\ l = "bucket" => /\ Current(t) \notin Bucketed
                              /\ Bucketed' = Bucketed \cup {Current(t)}
           /\ m # "min" => Summed' = Summed
           /\ m = "min" => /\ Current(t) \notin Summed
                           /\ Summed' = Summed \cup {Current(t)}
           /\ m # "max" => Minned' = Minned
           /\ m = "max" => /\ Current(t) \notin Minned
                           /\ Minned' = Minned \cup {Current(t)}
           /\ m # "idle" => Maxed' = Maxed
           /\ m = "idle" => /\ Current(t) \notin Maxed
                            /\ Maxed' = Maxed \cup {Current(t)}
  <1>0. l \in RecordLabels /\ m \in RecordLabels \cup {"idle"}
    BY DEF Leads, RecordLabels
  <1> DEFINE Stays(L) == l \in L <=> m \in L \cup {"idle"}
             Gains(L) == l \notin L /\ m \in L \cup {"idle"}
             L1 == {"bucket", "sum", "sumcas", "min", "mincas", "max", "maxcas"}
             L2 == {"sum", "sumcas", "min", "mincas", "max", "maxcas"}
             L3 == {"min", "mincas", "max", "maxcas"}
             L4 == {"max", "maxcas"}
  <1>1. ASSUME NEW L
        PROVE  /\ Past(added, L)' = Past(added, L)
               /\ Stays(L) => Past(recorded, L)' = Past(recorded, L)
               /\ Gains(L) => /\ Current(t) \notin Past(recorded, L)
                              /\ Past(recorded, L)' = Past(recorded, L) \cup {Current(t)}
    BY <1>0, RecordMoves
  <1>2. /\ l # "count" => Stays(L1)
        /\ l = "count" => Gains(L1)
        /\ l # "bucket" => Stays(L2)
        /\ l = "bucket" => Gains(L2)
    BY DEF Leads
  <1>3. /\ m # "min" => Stays(L3)
        /\ m = "min" => Gains(L3)
        /\ m # "max" => Stays(L4)
        /\ m = "max" => Gains(L4)
        /\ m # "idle" => Stays({})
        /\ m = "idle" => Gains({})
    BY DEF Leads
  <1>4. /\ Counted = Past(recorded, L1) /\ Counted' = Past(recorded, L1)'
        /\ Bucketed = Past(recorded, L2) /\ Bucketed' = Past(recorded, L2)'
        /\ Summed = Past(recorded, L3) /\ Summed' = Past(recorded, L3)'
        /\ Minned = Past(recorded, L4) /\ Minned' = Past(recorded, L4)'
        /\ Maxed = Past(recorded, {}) /\ Maxed' = Past(recorded, {})'
    BY DEF Counted, Bucketed, Summed, Minned, Maxed
  <1> HIDE DEF Stays, Gains, L1, L2, L3, L4
  <1>5. Past(added, {})' = Past(added, {})
    BY <1>1
  <1>6. /\ l # "count" => Counted' = Counted
        /\ l = "count" => /\ Current(t) \notin Counted
                          /\ Counted' = Counted \cup {Current(t)}
    BY <1>1, <1>2, <1>4, Zenon
  <1>7. /\ l # "bucket" => Bucketed' = Bucketed
        /\ l = "bucket" => /\ Current(t) \notin Bucketed
                           /\ Bucketed' = Bucketed \cup {Current(t)}
    BY <1>1, <1>2, <1>4, Zenon
  <1>8. /\ m # "min" => Summed' = Summed
        /\ m = "min" => /\ Current(t) \notin Summed
                        /\ Summed' = Summed \cup {Current(t)}
    BY <1>1, <1>3, <1>4, Zenon
  <1>9. /\ m # "max" => Minned' = Minned
        /\ m = "max" => /\ Current(t) \notin Minned
                        /\ Minned' = Minned \cup {Current(t)}
    BY <1>1, <1>3, <1>4, Zenon
  <1>10. /\ m # "idle" => Maxed' = Maxed
         /\ m = "idle" => /\ Current(t) \notin Maxed
                          /\ Maxed' = Maxed \cup {Current(t)}
    BY <1>1, <1>3, <1>4, Zenon
  <1> QED BY <1>5, <1>6, <1>7, <1>8, <1>9, <1>10, Zenon

(* The argument of a call in progress *)
LEMMA CurrentType ==
    ASSUME SlotTypeOK, CallInv, NEW t \in Callers, pc[t] # "idle"
    PROVE  Current(t).value = v[t] /\ v[t] \in Doubles
  <1>1. pc[t] \in AddLabels \/ pc[t] \in RecordLabels
    BY DEF SlotTypeOK
  <1>2. Current(t) \in Calls
    BY <1>1 DEF CallInv, InCall, SlotTypeOK
  <1> QED BY <1>2 DEF Current, Calls

(* The extremes, with one sample more *)
LEMMA LowGains ==
    ASSUME SlotTypeOK, NEW c, c.value \in Doubles, Minned' = Minned \cup {c}, MinOK,
           \/ c.value = NaN /\ min' = min
           \/ c.value # NaN /\ ~Less(c.value, min) /\ min' = min
           \/ c.value # NaN /\ Less(c.value, min) /\ min' = c.value
    PROVE  MinOK'
  <1>1. \A y \in Low : y \in Ordered
    <2>1. Minned \in SUBSET Calls
      BY PastFinite DEF Minned
    <2>2. \A r \in Minned : r.value \in Ordered \cup {NaN}
      BY <2>1, SlotAssumption DEF Calls, Doubles, Ordered
    <2> QED BY <2>2 DEF Low, Ordered
  <1>2. Low' = Low \cup ({c.value} \ {NaN})
    BY DEF Low
  <1>3. min \in Ordered /\ c.value \in Ordered \cup {NaN}
    BY SlotAssumption DEF SlotTypeOK, Doubles, Ordered
  <1>4. ~Less(min', min')
    BY DEF Less
  <1>5. ASSUME NEW y \in Low, c.value # NaN, Less(c.value, min)
        PROVE  ~Less(y, c.value)
    BY <1>1, <1>3, <1>5, LessOrders DEF MinOK
  <1> QED BY <1>2, <1>4, <1>5 DEF MinOK

LEMMA HighGains ==
    ASSUME SlotTypeOK, NEW c, c.value \in Doubles, Maxed' = Maxed \cup {c}, MaxOK,
           \/ c.value = NaN /\ max' = max
           \/ c.value # NaN /\ ~Less(max, c.value) /\ max' = max
           \/ c.value # NaN /\ Less(max, c.value) /\ max' = c.value
    PROVE  MaxOK'
  <1>1. \A y \in High : y \in Ordered
    <2>1. Maxed \in SUBSET Calls
      BY PastFinite DEF Maxed
    <2>2. \A r \in Maxed : r.value \in Ordered \cup {NaN}
      BY <2>1, SlotAssumption DEF Calls, Doubles, Ordered
    <2> QED BY <2>2 DEF High, Ordered
  <1>2. High' = High \cup ({c.value} \ {NaN})
    BY DEF High
  <1>3. max \in Ordered /\ c.value \in Ordered \cup {NaN}
    BY SlotAssumption DEF SlotTypeOK, Doubles, Ordered
  <1>4. ~Less(max', max')
    BY DEF Less
  <1>5. ASSUME NEW y \in High, c.value # NaN, Less(max, c.value)
        PROVE  ~Less(c.value, y)
    BY <1>1, <1>3, <1>5, LessOrders DEF MaxOK
  <1> QED BY <1>2, <1>4, <1>5 DEF MaxOK

(* The buckets, with one sample more *)
LEMMA BucketsGain ==
    ASSUME SlotTypeOK, NEW c, c.value \in Doubles, c \notin Bucketed,
           Bucketed' = Bucketed \cup {c}, BucketsRankSamples,
           NEW b \in HistogramBucketOf(c.value),
           buckets' = [j \in Buckets |-> IF j = b THEN buckets[j] + 1 ELSE buckets[j]]
    PROVE  BucketsRankSamples'
  <1>1. PICK B, E, F : B = Bucketed /\ E = buckets' /\ F = buckets
    OBVIOUS
  <1> DEFINE Ranked(r, i) == r.value = NaN \/ Less(r.value, HistogramBucketUpperBound(i))
  <1> SUFFICES ASSUME NEW i \in Buckets
               PROVE  /\ i < LastBucket =>
                           SumFunctionOnSet(E, 0 .. i) =
                             Cardinality({r \in B \cup {c} : Ranked(r, i)})
                      /\ i = LastBucket =>
                           SumFunctionOnSet(E, 0 .. i) \in
                             Cardinality({r \in B \cup {c} : Ranked(r, i)})
                               .. Cardinality(B \cup {c})
    BY <1>1 DEF BucketsRankSamples, Below
  <1> DEFINE S == {r \in B : Ranked(r, i)}
             W == {r \in B \cup {c} : Ranked(r, i)}
  <1>2. /\ i < LastBucket => SumFunctionOnSet(F, 0 .. i) = Cardinality(S)
        /\ i = LastBucket =>
             SumFunctionOnSet(F, 0 .. i) \in Cardinality(S) .. Cardinality(B)
    BY <1>1 DEF BucketsRankSamples, Below
  <1>3. /\ F \in [Buckets -> Nat]
        /\ E = [j \in Buckets |-> IF j = b THEN F[j] + 1 ELSE F[j]]
    BY <1>1 DEF SlotTypeOK
  <1>4. /\ c.value # PosInf \/ i < LastBucket => (b \in 0 .. i <=> Ranked(c, i))
        /\ c.value = PosInf => ~Ranked(c, i)
    BY BucketRanks
  <1>5. IsFiniteSet(B)
    BY <1>1, PastFinite DEF Bucketed
  <1>6. i \in Nat /\ 0 .. i \subseteq Buckets /\ IsFiniteSet(0 .. i)
    <2>1. i \in Nat /\ 0 .. i \subseteq Buckets
      BY SlotAssumption DEF Buckets
    <2>2. i \in Int /\ 0 \in Int
      BY <2>1
    <2> QED BY <2>1, <2>2, FS_Interval, Zenon
  <1>7. /\ \A j \in 0 .. i : F[j] \in Int
        /\ \A j \in 0 .. i \ {b} : E[j] = F[j]
        /\ b \in 0 .. i => E[b] = F[b] + 1
    BY <1>3, <1>6
  <1>8. IsFiniteSet(S) /\ c \notin S /\ c \notin B
    BY <1>1, <1>5, FS_Subset
  <1>9. /\ Ranked(c, i) => W = S \cup {c}
        /\ ~Ranked(c, i) => W = S
    OBVIOUS
  <1> HIDE DEF Ranked, S, W
  <1>10. /\ Cardinality(S) \in Nat /\ Cardinality(S \cup {c}) = Cardinality(S) + 1
         /\ Cardinality(B) \in Nat /\ Cardinality(B \cup {c}) = Cardinality(B) + 1
    BY <1>5, <1>8, FS_AddElement, FS_CardinalityType
  <1>11. /\ b \in 0 .. i => SumFunctionOnSet(E, 0 .. i) = SumFunctionOnSet(F, 0 .. i) + 1
         /\ b \notin 0 .. i => SumFunctionOnSet(E, 0 .. i) = SumFunctionOnSet(F, 0 .. i)
    BY <1>6, <1>7, SumGrows
  <1>12. PICK s, n, f : /\ s = Cardinality(S) /\ n = Cardinality(B)
                        /\ f = SumFunctionOnSet(F, 0 .. i)
    OBVIOUS
  <1>13. /\ Ranked(c, i) => Cardinality(W) = s + 1
         /\ ~Ranked(c, i) => Cardinality(W) = s
    BY <1>9, <1>10, <1>12
  <1>14. CASE i < LastBucket
    <2>1. SumFunctionOnSet(E, 0 .. i) = Cardinality(W)
      BY <1>2, <1>4, <1>11, <1>12, <1>13, <1>14
    <2>2. i # LastBucket
      BY <1>6, <1>14, SlotAssumption DEF LastBucket
    <2> QED BY <2>1, <2>2 DEF W
  <1>15. CASE i = LastBucket
    <2>1. f \in Int /\ s <= f /\ f <= n
      BY <1>2, <1>10, <1>12, <1>15
    <2>2. /\ SumFunctionOnSet(E, 0 .. i) \in {f, f + 1}
          /\ Ranked(c, i) => SumFunctionOnSet(E, 0 .. i) = f + 1
      BY <1>4, <1>11, <1>12
    <2>3. SumFunctionOnSet(E, 0 .. i) \in Cardinality(W) .. n + 1
      BY <1>10, <1>12, <1>13, <2>1, <2>2
    <2>4. ~(i < LastBucket) /\ n + 1 = Cardinality(B \cup {c})
      BY <1>6, <1>10, <1>12, <1>15
    <2> QED BY <2>3, <2>4 DEF W
  <1>16. i < LastBucket \/ i = LastBucket
    BY <1>6, SlotAssumption DEF LastBucket, Buckets
  <1> QED BY <1>14, <1>15, <1>16

-----------------------------------------------------------------------------
(* The invariant. *)

LEMMA SlotInitInv ==
    ASSUME SlotInit
    PROVE  SlotInv
  <1>1. SlotTypeOK
    <2>1. IsFiniteSet({})
      BY FS_EmptySet
    <2> QED BY <2>1, SlotAssumption
            DEF SlotInit, SlotTypeOK, Values, Ordered, Buckets
  <1>2. CallInv /\ StaleInv
    BY DEF SlotInit, CallInv, StaleInv, InCall, AddLabels, RecordLabels
  <1>3. /\ Past(added, {}) = {} /\ Counted = {} /\ Bucketed = {} /\ Summed = {}
        /\ Minned = {} /\ Maxed = {}
    BY DEF SlotInit, Past, Counted, Bucketed, Summed, Minned, Maxed
  <1>4. NothingLost
    BY <1>3, TotalOfNothing, FS_EmptySet DEF SlotInit, NothingLost
  <1>5. ExtremesExact
    BY <1>3, SlotAssumption DEF SlotInit, ExtremesExact, Low, High, Less
  <1>6. ASSUME NEW i \in Buckets
        PROVE  /\ SumFunctionOnSet(buckets, 0 .. i) = 0
               /\ Cardinality(Below(i)) = 0 /\ Cardinality(Bucketed) = 0
    <2>1. PICK F : F = buckets /\ F = [j \in Buckets |-> 0]
      BY DEF SlotInit
    <2>2. i \in Nat /\ 0 .. i \subseteq Buckets
      BY SlotAssumption DEF Buckets
    <2> DEFINE z == [s \in SUBSET (0 .. i) |-> 0]
    <2>3. SumsOf(z, F, 0 .. i) /\ z[0 .. i] = 0
      BY <2>1, <2>2 DEF SumsOf
    <2>4. IsFiniteSet(0 .. i)
      BY <2>2, FS_Interval
    <2>5. SumFunctionOnSet(F, 0 .. i) = 0
      <3> HIDE DEF z
      <3> QED BY <2>3, <2>4, SumIs
    <2>6. Below(i) = {} /\ Bucketed = {}
      BY <1>3 DEF Below
    <2> QED BY <2>1, <2>5, <2>6, FS_EmptySet
  <1>7. BucketsRankSamples
    BY <1>6 DEF BucketsRankSamples
  <1> QED BY <1>1, <1>2, <1>4, <1>5, <1>7 DEF SlotInv

LEMMA SlotInvParts ==
    SlotInv <=> /\ SlotTypeOK /\ CallInv /\ StaleInv
                /\ CounterOK /\ CountOK /\ SumOK /\ MinOK /\ MaxOK
                /\ BucketsRankSamples
  BY DEF SlotInv, NothingLost, ExtremesExact, CounterOK, CountOK, SumOK, MinOK, MaxOK

(* A call begins, or Set. *)
LEMMA CallBeginInv ==
    ASSUME SlotInv, NEW t \in Callers, NEW x \in Doubles,
           Add(t, x) \/ Set(t, x) \/ Record(t, x)
    PROVE  SlotInv'
  <1>0. /\ SlotTypeOK /\ CallInv /\ StaleInv
        /\ CounterOK /\ CountOK /\ SumOK /\ MinOK /\ MaxOK /\ BucketsRankSamples
    BY SlotInvParts
  <1>1. /\ counter' = counter /\ count' = count /\ sum' = sum /\ min' = min
        /\ max' = max /\ buckets' = buckets /\ cur' = cur
        /\ gauge' = gauge \/ gauge' = x
        /\ \A u \in Callers : pc'[u] \in {pc[u], "add", "count"}
    BY <1>0 DEF Add, Set, Record, Call, Goto, slots, SlotTypeOK
  <1>2. SlotTypeOK' /\ CallInv'
    <2>1. gauge' \in Values
      BY <1>0, <1>1, SlotAssumption DEF SlotTypeOK, Values, Ordered, Doubles
    <2> QED BY <1>0, <1>1, <2>1, CallsBegin DEF SlotTypeOK
  <1>3. StaleInv'
    BY <1>0, <1>1 DEF StaleInv
  <1>4. ASSUME NEW L, L \cap {"add", "count", "idle"} = {}
        PROVE  Past(added, L)' = Past(added, L) /\ Past(recorded, L)' = Past(recorded, L)
    BY <1>0, <1>4, PastAtCall
  <1>5. Past(added, {})' = Past(added, {}) /\ Maxed' = Maxed
    BY <1>4 DEF Maxed
  <1>6. Counted' = Counted
    BY <1>4 DEF Counted
  <1>7. Bucketed' = Bucketed
    BY <1>4 DEF Bucketed
  <1>8. Summed' = Summed
    BY <1>4 DEF Summed
  <1>9. Minned' = Minned
    BY <1>4 DEF Minned
  <1>10. CounterOK' /\ CountOK' /\ SumOK' /\ MinOK' /\ MaxOK' /\ BucketsRankSamples'
    BY <1>0, <1>1, <1>5, <1>6, <1>7, <1>8, <1>9, SlotsStay
  <1> QED BY <1>2, <1>3, <1>10, SlotInvParts, PTL

(* The exchange adds the argument of the call to the slot. *)
LEMMA PlusType ==
    ASSUME NEW x \in Values, NEW y \in Values
    PROVE  Plus(x, y) \in Values
  BY SlotAssumption DEF Plus, DoubleSum, Values, Ordered

(* A step of Add *)
LEMMA AddInv ==
    ASSUME SlotInv, NEW t \in Callers,
           \/ LoadFirst(t, "add", "addcas", counter)
           \/ AddCounter(t)
           \/ ExchangeFails(t, "addcas", counter)
    PROVE  SlotInv'
  <1>0. /\ SlotTypeOK /\ CallInv /\ StaleInv
        /\ CounterOK /\ CountOK /\ SumOK /\ MinOK /\ MaxOK /\ BucketsRankSamples
    BY SlotInvParts
  <1>1. PICK l \in AddLabels, m \in AddLabels \cup {"idle"} :
          /\ Moves(t, l, m)
          /\ \/ /\ m = "addcas" /\ counter' = counter
                /\ cur' = [cur EXCEPT ![t] = counter]
             \/ /\ m = "idle" /\ counter' = Plus(counter, v[t]) /\ cur' = cur
    <2>1. CASE LoadFirst(t, "add", "addcas", counter)
      BY <2>1 DEF LoadFirst, Goto, Moves, AddLabels, slots
    <2>2. CASE AddCounter(t)
      BY <2>2 DEF AddCounter, Exchange, Goto, Moves, AddLabels
    <2>3. CASE ExchangeFails(t, "addcas", counter)
      <3>1. pc' = [pc EXCEPT ![t] = "addcas"]
        BY <1>0, <2>3 DEF ExchangeFails, SlotTypeOK
      <3> QED BY <2>3, <3>1 DEF ExchangeFails, Moves, AddLabels, slots
    <2> QED BY <2>1, <2>2, <2>3
  <1>2. /\ gauge' = gauge /\ count' = count /\ sum' = sum /\ min' = min /\ max' = max
        /\ buckets' = buckets
    BY DEF LoadFirst, AddCounter, ExchangeFails, slots
  <1>3. pc[t] = l /\ l # "idle" /\ l \notin {"mincas", "maxcas"}
    BY <1>1 DEF Moves, AddLabels
  <1>4. Current(t).value = v[t] /\ v[t] \in Doubles
    BY <1>0, <1>3, CurrentType
  <1>5. counter' \in Values
    <2>1. v[t] \in Values /\ counter \in Values
      BY <1>0 DEF SlotTypeOK
    <2> QED BY <1>1, <2>1, PlusType
  <1>6. /\ pc' \in [Callers -> {"idle"} \cup AddLabels \cup RecordLabels]
        /\ CallInv'
    BY <1>0, <1>1, CallsMove
  <1>7. SlotTypeOK'
    <2>1. cur' \in [Callers -> Values]
      BY <1>0, <1>1 DEF SlotTypeOK
    <2> QED BY <1>0, <1>1, <1>2, <1>5, <1>6, <2>1 DEF SlotTypeOK, Moves
  <1>8. StaleInv'
    <2>1. \A u \in Callers : u # t => pc'[u] = pc[u] /\ cur'[u] = cur[u]
      BY <1>0, <1>1 DEF SlotTypeOK, Moves
    <2>2. pc'[t] = m /\ m \notin {"mincas", "maxcas"}
      BY <1>0, <1>1 DEF SlotTypeOK, Moves, AddLabels
    <2> QED BY <1>0, <1>2, <2>1, <2>2 DEF StaleInv
  <1>9. ASSUME NEW L, L \cap {"add", "addcas", "idle"} = {}
        PROVE  /\ Past(recorded, L)' = Past(recorded, L)
               /\ m # "idle" => Past(added, L)' = Past(added, L)
               /\ m = "idle" => /\ Current(t) \notin Past(added, L)
                                /\ Past(added, L)' = Past(added, L) \cup {Current(t)}
    <2>1. ~Passed(l, L) /\ (m # "idle" => ~Passed(m, L))
      BY <1>1, <1>9 DEF Passed, AddLabels
    <2> QED BY <1>0, <1>1, <2>1, AddMoves
  <1>10. /\ Counted' = Counted /\ Bucketed' = Bucketed /\ Summed' = Summed
         /\ Minned' = Minned /\ Maxed' = Maxed
    BY <1>9 DEF Counted, Bucketed, Summed, Minned, Maxed
  <1>11. CountOK' /\ SumOK' /\ MinOK' /\ MaxOK' /\ BucketsRankSamples'
    BY <1>0, <1>2, <1>10, SlotsStay
  <1>12. CounterOK'
    <2>0. /\ m # "idle" => Past(added, {})' = Past(added, {})
          /\ m = "idle" => /\ Current(t) \notin Past(added, {})
                           /\ Past(added, {})' = Past(added, {}) \cup {Current(t)}
      BY <1>9
    <2>1. CASE m = "addcas" /\ counter' = counter
      BY <1>0, <2>0, <2>1, SlotsStay
    <2>2. CASE m = "idle" /\ counter' = Plus(counter, v[t])
      <3>1. PICK S, c : S = Past(added, {}) /\ c = Current(t)
        OBVIOUS
      <3>2. IsFiniteSet(S) /\ c \notin S /\ \A r \in S \cup {c} : r.value \in Values
        <4>1. S \in SUBSET Calls /\ IsFiniteSet(S)
          BY <1>0, <3>1, PastFinite
        <4>2. \A r \in S : r.value \in Values
          BY <4>1, SlotAssumption DEF Calls, Doubles, Values, Ordered
        <4>3. c.value \in Values
          BY <1>4, <3>1, SlotAssumption DEF Doubles, Values, Ordered
        <4> QED BY <2>0, <2>2, <3>1, <4>1, <4>2, <4>3
      <3>3. Total(S \cup {c}) = Plus(Total(S), c.value)
        BY <3>2, TotalAdds
      <3>4. Past(added, {})' = S \cup {c} /\ counter = Total(S) /\ c.value = v[t]
        BY <1>0, <1>4, <2>0, <2>2, <3>1 DEF CounterOK
      <3> QED BY <2>2, <3>3, <3>4 DEF CounterOK
    <2> QED BY <1>1, <2>1, <2>2
  <1> QED BY <1>6, <1>7, <1>8, <1>11, <1>12, SlotInvParts, PTL

(* What the steps of Record do to the slots and the expected values *)
RecordEffect(t, l, m) ==
    \/ /\ l = "count" /\ count' = count + 1
       /\ UNCHANGED <<buckets, sum, min, max, cur>>
    \/ /\ l = "bucket"
       /\ \E i \in HistogramBucketOf(v[t]) :
            buckets' = [j \in Buckets |-> IF j = i THEN buckets[j] + 1 ELSE buckets[j]]
       /\ UNCHANGED <<count, sum, min, max, cur>>
    \/ /\ l = "sumcas" /\ m = "min" /\ sum' = Plus(sum, v[t])
       /\ UNCHANGED <<count, buckets, min, max, cur>>
    \/ /\ l = "mincas" /\ m = "max" /\ Less(v[t], min) /\ min' = v[t]
       /\ UNCHANGED <<count, buckets, sum, max, cur>>
    \/ /\ l = "maxcas" /\ m = "idle" /\ Less(max, v[t]) /\ max' = v[t]
       /\ UNCHANGED <<count, buckets, sum, min, cur>>
    \/ /\ \/ l = "mincas" /\ m = "max" /\ ~Less(v[t], cur[t])
          \/ l = "maxcas" /\ m = "idle" /\ ~Less(cur[t], v[t])
       /\ UNCHANGED <<count, buckets, sum, min, max, cur>>
    \/ /\ \/ m = "sumcas" /\ cur' = [cur EXCEPT ![t] = sum]
          \/ m = "mincas" /\ cur' = [cur EXCEPT ![t] = min]
          \/ m = "maxcas" /\ cur' = [cur EXCEPT ![t] = max]
       /\ UNCHANGED <<count, buckets, sum, min, max>>

LEMMA RecordSteps ==
    ASSUME SlotTypeOK, NEW t \in Callers,
           \/ IncrementCount(t) \/ IncrementBucket(t)
           \/ LoadFirst(t, "sum", "sumcas", sum) \/ AddSum(t)
           \/ LoadFirst(t, "min", "mincas", min) \/ LowerMin(t) \/ KeepMin(t)
           \/ LoadFirst(t, "max", "maxcas", max) \/ RaiseMax(t) \/ KeepMax(t)
           \/ ExchangeFails(t, "sumcas", sum)
           \/ ExchangeFails(t, "mincas", min)
           \/ ExchangeFails(t, "maxcas", max)
    PROVE  \E l, m : /\ Moves(t, l, m) /\ Leads(l, m) /\ RecordEffect(t, l, m)
                     /\ counter' = counter /\ gauge' = gauge
  <1> USE DEF Moves, Leads, RecordEffect, Goto, slots
  <1>1. CASE IncrementCount(t)
    <2>1. /\ Moves(t, "count", "bucket") /\ Leads("count", "bucket")
          /\ RecordEffect(t, "count", "bucket")
      BY <1>1 DEF IncrementCount
    <2>2. counter' = counter /\ gauge' = gauge
      BY <1>1 DEF IncrementCount
    <2> HIDE DEF Moves, Leads, RecordEffect
    <2> QED BY <2>1, <2>2
  <1>2. CASE IncrementBucket(t)
    <2>1. /\ Moves(t, "bucket", "sum") /\ Leads("bucket", "sum")
          /\ RecordEffect(t, "bucket", "sum")
      BY <1>2 DEF IncrementBucket
    <2>2. counter' = counter /\ gauge' = gauge
      BY <1>2 DEF IncrementBucket
    <2> HIDE DEF Moves, Leads, RecordEffect
    <2> QED BY <2>1, <2>2
  <1>3. CASE LoadFirst(t, "sum", "sumcas", sum)
    <2>1. /\ Moves(t, "sum", "sumcas") /\ Leads("sum", "sumcas")
          /\ RecordEffect(t, "sum", "sumcas")
      BY <1>3 DEF LoadFirst
    <2>2. counter' = counter /\ gauge' = gauge
      BY <1>3 DEF LoadFirst
    <2> HIDE DEF Moves, Leads, RecordEffect
    <2> QED BY <2>1, <2>2
  <1>4. CASE LoadFirst(t, "min", "mincas", min)
    <2>1. /\ Moves(t, "min", "mincas") /\ Leads("min", "mincas")
          /\ RecordEffect(t, "min", "mincas")
      BY <1>4 DEF LoadFirst
    <2>2. counter' = counter /\ gauge' = gauge
      BY <1>4 DEF LoadFirst
    <2> HIDE DEF Moves, Leads, RecordEffect
    <2> QED BY <2>1, <2>2
  <1>5. CASE LoadFirst(t, "max", "maxcas", max)
    <2>1. /\ Moves(t, "max", "maxcas") /\ Leads("max", "maxcas")
          /\ RecordEffect(t, "max", "maxcas")
      BY <1>5 DEF LoadFirst
    <2>2. counter' = counter /\ gauge' = gauge
      BY <1>5 DEF LoadFirst
    <2> HIDE DEF Moves, Leads, RecordEffect
    <2> QED BY <2>1, <2>2
  <1>6. CASE AddSum(t)
    <2>1. /\ Moves(t, "sumcas", "min") /\ Leads("sumcas", "min")
          /\ RecordEffect(t, "sumcas", "min")
      BY <1>6 DEF AddSum, Exchange
    <2>2. counter' = counter /\ gauge' = gauge
      BY <1>6 DEF AddSum
    <2> HIDE DEF Moves, Leads, RecordEffect
    <2> QED BY <2>1, <2>2
  <1>7. CASE LowerMin(t)
    <2>1. /\ Moves(t, "mincas", "max") /\ Leads("mincas", "max")
          /\ RecordEffect(t, "mincas", "max")
      BY <1>7 DEF LowerMin, Exchange
    <2>2. counter' = counter /\ gauge' = gauge
      BY <1>7 DEF LowerMin
    <2> HIDE DEF Moves, Leads, RecordEffect
    <2> QED BY <2>1, <2>2
  <1>8. CASE KeepMin(t)
    <2>1. /\ Moves(t, "mincas", "max") /\ Leads("mincas", "max")
          /\ RecordEffect(t, "mincas", "max")
      BY <1>8 DEF KeepMin
    <2>2. counter' = counter /\ gauge' = gauge
      BY <1>8 DEF KeepMin
    <2> HIDE DEF Moves, Leads, RecordEffect
    <2> QED BY <2>1, <2>2
  <1>9. CASE RaiseMax(t)
    <2>1. /\ Moves(t, "maxcas", "idle") /\ Leads("maxcas", "idle")
          /\ RecordEffect(t, "maxcas", "idle")
      BY <1>9 DEF RaiseMax, Exchange
    <2>2. counter' = counter /\ gauge' = gauge
      BY <1>9 DEF RaiseMax
    <2> HIDE DEF Moves, Leads, RecordEffect
    <2> QED BY <2>1, <2>2
  <1>10. CASE KeepMax(t)
    <2>1. /\ Moves(t, "maxcas", "idle") /\ Leads("maxcas", "idle")
          /\ RecordEffect(t, "maxcas", "idle")
      BY <1>10 DEF KeepMax
    <2>2. counter' = counter /\ gauge' = gauge
      BY <1>10 DEF KeepMax
    <2> HIDE DEF Moves, Leads, RecordEffect
    <2> QED BY <2>1, <2>2
  <1>11. ASSUME NEW l \in {"sumcas", "mincas", "maxcas"}, pc[t] = l, pc' = pc
         PROVE  pc' = [pc EXCEPT ![t] = l]
    BY <1>11 DEF SlotTypeOK
  <1>12. CASE ExchangeFails(t, "sumcas", sum)
    <2>1. /\ Moves(t, "sumcas", "sumcas") /\ Leads("sumcas", "sumcas")
          /\ RecordEffect(t, "sumcas", "sumcas")
      BY <1>11, <1>12 DEF ExchangeFails
    <2>2. counter' = counter /\ gauge' = gauge
      BY <1>12 DEF ExchangeFails
    <2> HIDE DEF Moves, Leads, RecordEffect
    <2> QED BY <2>1, <2>2
  <1>13. CASE ExchangeFails(t, "mincas", min)
    <2>1. /\ Moves(t, "mincas", "mincas") /\ Leads("mincas", "mincas")
          /\ RecordEffect(t, "mincas", "mincas")
      BY <1>11, <1>13 DEF ExchangeFails
    <2>2. counter' = counter /\ gauge' = gauge
      BY <1>13 DEF ExchangeFails
    <2> HIDE DEF Moves, Leads, RecordEffect
    <2> QED BY <2>1, <2>2
  <1>14. CASE ExchangeFails(t, "maxcas", max)
    <2>1. /\ Moves(t, "maxcas", "maxcas") /\ Leads("maxcas", "maxcas")
          /\ RecordEffect(t, "maxcas", "maxcas")
      BY <1>11, <1>14 DEF ExchangeFails
    <2>2. counter' = counter /\ gauge' = gauge
      BY <1>14 DEF ExchangeFails
    <2> HIDE DEF Moves, Leads, RecordEffect
    <2> QED BY <2>1, <2>2
  <1> HIDE DEF Moves, Leads, RecordEffect
  <1> QED BY <1>1, <1>2, <1>3, <1>4, <1>5, <1>6, <1>7, <1>8, <1>9, <1>10, <1>12,
             <1>13, <1>14

(* A step of Record *)
LEMMA RecordInv ==
    ASSUME SlotInv, NEW t \in Callers, NEW l, NEW m,
           Moves(t, l, m), Leads(l, m), RecordEffect(t, l, m),
           counter' = counter, gauge' = gauge
    PROVE  SlotInv'
  <1>0. /\ SlotTypeOK /\ CallInv /\ StaleInv
        /\ CounterOK /\ CountOK /\ SumOK /\ MinOK /\ MaxOK /\ BucketsRankSamples
    BY SlotInvParts
  <1>1. l \in RecordLabels /\ m \in RecordLabels \cup {"idle"} /\ pc[t] = l /\ l # "idle"
    BY DEF Leads, RecordLabels, Moves
  <1>2. PICK c : c = Current(t)
    OBVIOUS
  <1>3. c.value = v[t] /\ v[t] \in Doubles /\ v[t] \in Values
    BY <1>0, <1>1, <1>2, CurrentType, SlotAssumption DEF Doubles, Values, Ordered
  <1>4. /\ pc' \in [Callers -> {"idle"} \cup AddLabels \cup RecordLabels]
        /\ CallInv'
    BY <1>0, <1>1, CallsMove
  <1>5. /\ count \in Nat /\ sum \in Values /\ min \in Ordered /\ max \in Ordered
        /\ buckets \in [Buckets -> Nat] /\ cur \in [Callers -> Values]
        /\ min \in Values /\ max \in Values
    BY <1>0 DEF SlotTypeOK, Values
  <1>15. /\ Less(v[t], min) \/ Less(max, v[t]) => v[t] \in Ordered
         /\ v[t] = NaN \/ v[t] \in Ordered
    BY <1>3 DEF Less, Values
  <1>6. SlotTypeOK'
    <2>1. count' \in Nat /\ cur' \in [Callers -> Values]
      BY <1>3, <1>5 DEF RecordEffect
    <2>4. min' \in Ordered /\ max' \in Ordered
      BY <1>5, <1>15 DEF RecordEffect
    <2>2. sum' \in Values
      BY <1>3, <1>5, PlusType DEF RecordEffect
    <2>3. buckets' \in [Buckets -> Nat]
      BY <1>5 DEF RecordEffect
    <2> QED BY <1>0, <1>4, <2>1, <2>2, <2>3, <2>4 DEF SlotTypeOK, Moves
  <1>7. StaleInv'
    <2>1. /\ min' \in Ordered /\ max' \in Ordered
          /\ ~Less(min, min') /\ ~Less(max', max)
      <3>1. min' \in Ordered /\ max' \in Ordered
        BY <1>6 DEF SlotTypeOK
      <3>2. /\ min' = min \/ Less(min', min)
            /\ max' = max \/ Less(max, max')
        BY DEF RecordEffect
      <3>3. ~Less(min, min) /\ ~Less(max, max)
        BY DEF Less
      <3> QED BY <1>5, <3>1, <3>2, <3>3, LessOrders
    <2>2. \A u \in Callers : u # t => pc'[u] = pc[u] /\ cur'[u] = cur[u]
      BY <1>0 DEF SlotTypeOK, Moves, RecordEffect
    <2>3. pc'[t] = m
      BY <1>0 DEF SlotTypeOK, Moves
    <2>4. /\ m = "mincas" => cur'[t] = min /\ min' = min
          /\ m = "maxcas" => cur'[t] = max /\ max' = max
      BY <1>5 DEF RecordEffect, Leads
    <2>5. ASSUME NEW u \in Callers, u # t
          PROVE  /\ pc'[u] = "mincas" => cur'[u] \in Ordered /\ ~Less(cur'[u], min')
                 /\ pc'[u] = "maxcas" => cur'[u] \in Ordered /\ ~Less(max', cur'[u])
      <3>1. /\ pc[u] = "mincas" => cur[u] \in Ordered /\ ~Less(cur[u], min)
            /\ pc[u] = "maxcas" => cur[u] \in Ordered /\ ~Less(max, cur[u])
        BY <1>0 DEF StaleInv
      <3> QED BY <1>5, <2>1, <2>2, <2>5, <3>1, LessOrders
    <2>6. /\ pc'[t] = "mincas" => cur'[t] \in Ordered /\ ~Less(cur'[t], min')
          /\ pc'[t] = "maxcas" => cur'[t] \in Ordered /\ ~Less(max', cur'[t])
      <3>1. ~Less(min, min) /\ ~Less(max, max)
        BY DEF Less
      <3> QED BY <1>5, <2>3, <2>4, <3>1
    <2> QED BY <2>5, <2>6 DEF StaleInv
  <1>8. /\ Past(added, {})' = Past(added, {})
        /\ l # "count" => Counted' = Counted
        /\ l = "count" => c \notin Counted /\ Counted' = Counted \cup {c}
        /\ l # "bucket" => Bucketed' = Bucketed
        /\ l = "bucket" => c \notin Bucketed /\ Bucketed' = Bucketed \cup {c}
        /\ m # "min" => Summed' = Summed
        /\ m = "min" => c \notin Summed /\ Summed' = Summed \cup {c}
        /\ m # "max" => Minned' = Minned
        /\ m = "max" => c \notin Minned /\ Minned' = Minned \cup {c}
        /\ m # "idle" => Maxed' = Maxed
        /\ m = "idle" => c \notin Maxed /\ Maxed' = Maxed \cup {c}
    BY <1>0, <1>2, RecordSets
  <1>9. CounterOK'
    BY <1>0, <1>8, SlotsStay
  <1>10. CountOK'
    <2>1. CASE l # "count"
      <3>1. count' = count
        BY <2>1 DEF RecordEffect
      <3> QED BY <1>0, <1>8, <2>1, <3>1, SlotsStay
    <2>2. CASE l = "count"
      <3>1. count' = count + 1
        BY <2>2 DEF RecordEffect, Leads
      <3>2. PICK S : S = Counted
        OBVIOUS
      <3>3. IsFiniteSet(S) /\ c \notin S /\ Counted' = S \cup {c} /\ count = Cardinality(S)
        BY <1>0, <1>8, <2>2, <3>2, PastFinite DEF Counted, CountOK
      <3>4. Cardinality(S \cup {c}) = Cardinality(S) + 1
        BY <3>3, FS_AddElement
      <3> QED BY <3>1, <3>3, <3>4 DEF CountOK
    <2> QED BY <2>1, <2>2
  <1>11. BucketsRankSamples'
    <2>1. CASE l # "bucket"
      <3>1. buckets' = buckets
        BY <2>1 DEF RecordEffect
      <3> QED BY <1>0, <1>8, <2>1, <3>1, SlotsStay
    <2>2. CASE l = "bucket"
      <3>1. PICK i \in HistogramBucketOf(v[t]) :
              buckets' = [j \in Buckets |-> IF j = i THEN buckets[j] + 1 ELSE buckets[j]]
        BY <2>2 DEF RecordEffect, Leads
      <3>2. c \notin Bucketed /\ Bucketed' = Bucketed \cup {c}
        BY <1>8, <2>2
      <3> QED BY <1>0, <1>3, <3>1, <3>2, BucketsGain
    <2> QED BY <2>1, <2>2
  <1>12. SumOK'
    <2>1. CASE m # "min"
      <3>1. sum' = sum
        BY <2>1 DEF RecordEffect
      <3> QED BY <1>0, <1>8, <2>1, <3>1, SlotsStay
    <2>2. CASE m = "min"
      <3>1. sum' = Plus(sum, v[t])
        BY <2>2 DEF RecordEffect, Leads
      <3>2. PICK S : S = Summed
        OBVIOUS
      <3>3. c \notin S /\ Summed' = S \cup {c} /\ sum = Total(S)
        BY <1>0, <1>8, <2>2, <3>2 DEF SumOK
      <3>4. S \in SUBSET Calls /\ IsFiniteSet(S)
        BY <1>0, <3>2, PastFinite DEF Summed
      <3>5. \A r \in S \cup {c} : r.value \in Values
        BY <1>3, <3>4, SlotAssumption DEF Calls, Doubles, Values, Ordered
      <3>6. Total(S \cup {c}) = Plus(Total(S), c.value)
        BY <3>3, <3>4, <3>5, TotalAdds
      <3> QED BY <1>3, <3>1, <3>3, <3>6 DEF SumOK
    <2> QED BY <2>1, <2>2
  <1>13. MinOK'
    <2>1. CASE m # "max"
      <3>1. min' = min
        BY <2>1 DEF RecordEffect
      <3> QED BY <1>0, <1>8, <2>1, <3>1, SlotsStay
    <2>2. CASE m = "max"
      <3>1. l = "mincas" /\ cur[t] \in Ordered /\ ~Less(cur[t], min)
        BY <1>0, <1>1, <2>2 DEF Leads, StaleInv
      <3>2. \/ Less(v[t], min) /\ min' = v[t]
            \/ ~Less(v[t], cur[t]) /\ min' = min
        BY <2>2, <3>1 DEF RecordEffect
      <3>3. \/ c.value = NaN /\ min' = min
            \/ c.value # NaN /\ ~Less(c.value, min) /\ min' = min
            \/ c.value # NaN /\ Less(c.value, min) /\ min' = c.value
        <4>1. CASE Less(v[t], min) /\ min' = v[t]
          BY <1>3, <4>1 DEF Less
        <4>2. CASE ~Less(v[t], cur[t]) /\ min' = min
          BY <1>3, <1>5, <1>15, <3>1, <4>2, LessOrders
        <4> QED BY <3>2, <4>1, <4>2
      <3>4. Minned' = Minned \cup {c}
        BY <1>8, <2>2
      <3> QED BY <1>0, <1>3, <3>3, <3>4, LowGains
    <2> QED BY <2>1, <2>2
  <1>14. MaxOK'
    <2>1. CASE m # "idle"
      <3>1. max' = max
        BY <2>1 DEF RecordEffect
      <3> QED BY <1>0, <1>8, <2>1, <3>1, SlotsStay
    <2>2. CASE m = "idle"
      <3>1. l = "maxcas" /\ cur[t] \in Ordered /\ ~Less(max, cur[t])
        BY <1>0, <1>1, <2>2 DEF Leads, StaleInv
      <3>2. \/ Less(max, v[t]) /\ max' = v[t]
            \/ ~Less(cur[t], v[t]) /\ max' = max
        BY <2>2, <3>1 DEF RecordEffect
      <3>3. \/ c.value = NaN /\ max' = max
            \/ c.value # NaN /\ ~Less(max, c.value) /\ max' = max
            \/ c.value # NaN /\ Less(max, c.value) /\ max' = c.value
        <4>1. CASE Less(max, v[t]) /\ max' = v[t]
          BY <1>3, <4>1 DEF Less
        <4>2. CASE ~Less(cur[t], v[t]) /\ max' = max
          BY <1>3, <1>5, <1>15, <3>1, <4>2, LessOrders
        <4> QED BY <3>2, <4>1, <4>2
      <3>4. Maxed' = Maxed \cup {c}
        BY <1>8, <2>2
      <3> QED BY <1>0, <1>3, <3>3, <3>4, HighGains
    <2> QED BY <2>1, <2>2
  <1> QED BY <1>4, <1>6, <1>7, <1>9, <1>10, <1>11, <1>12, <1>13, <1>14, SlotInvParts, PTL

LEMMA SlotStutters ==
    ASSUME SlotInv, UNCHANGED slotVars
    PROVE  SlotInv'
  <1>0. /\ SlotTypeOK /\ CallInv /\ StaleInv
        /\ CounterOK /\ CountOK /\ SumOK /\ MinOK /\ MaxOK /\ BucketsRankSamples
    BY SlotInvParts
  <1>1. /\ counter' = counter /\ gauge' = gauge /\ count' = count /\ sum' = sum
        /\ min' = min /\ max' = max /\ buckets' = buckets /\ pc' = pc /\ v' = v
        /\ cur' = cur /\ calls' = calls /\ added' = added /\ recorded' = recorded
    BY DEF slotVars, slots
  <1>2. SlotTypeOK' /\ CallInv' /\ StaleInv'
    BY <1>0, <1>1 DEF SlotTypeOK, CallInv, InCall, Current, StaleInv
  <1>3. /\ Past(added, {})' = Past(added, {}) /\ Counted' = Counted
        /\ Bucketed' = Bucketed /\ Summed' = Summed /\ Minned' = Minned /\ Maxed' = Maxed
    BY <1>1 DEF Past, Counted, Bucketed, Summed, Minned, Maxed
  <1>4. CounterOK' /\ CountOK' /\ SumOK' /\ MinOK' /\ MaxOK' /\ BucketsRankSamples'
    BY <1>0, <1>1, <1>3, SlotsStay
  <1> QED BY <1>2, <1>4, SlotInvParts, PTL

(* Every step, of any thread, keeps the invariant of the slots. *)
LEMMA SlotStepInv ==
    ASSUME SlotInv, SlotNext
    PROVE  SlotInv'
  <1>1. PICK t \in Callers : BeginCall(t) \/ Advance(t) \/ Again(t)
    BY DEF SlotNext
  <1>2. CASE BeginCall(t)
    <2>1. PICK x \in Doubles : Add(t, x) \/ Set(t, x) \/ Record(t, x)
      BY <1>2 DEF BeginCall
    <2> QED BY <2>1, CallBeginInv
  <1>3. CASE \/ LoadFirst(t, "add", "addcas", counter)
             \/ AddCounter(t)
             \/ ExchangeFails(t, "addcas", counter)
    BY <1>3, AddInv
  <1>4. CASE \/ IncrementCount(t) \/ IncrementBucket(t)
             \/ LoadFirst(t, "sum", "sumcas", sum) \/ AddSum(t)
             \/ LoadFirst(t, "min", "mincas", min) \/ LowerMin(t) \/ KeepMin(t)
             \/ LoadFirst(t, "max", "maxcas", max) \/ RaiseMax(t) \/ KeepMax(t)
             \/ ExchangeFails(t, "sumcas", sum)
             \/ ExchangeFails(t, "mincas", min)
             \/ ExchangeFails(t, "maxcas", max)
    <2>1. SlotTypeOK
      BY DEF SlotInv
    <2>2. PICK l, m : /\ Moves(t, l, m) /\ Leads(l, m) /\ RecordEffect(t, l, m)
                      /\ counter' = counter /\ gauge' = gauge
      BY <1>4, <2>1, RecordSteps
    <2> QED BY <2>2, RecordInv
  <1> QED BY <1>1, <1>2, <1>3, <1>4 DEF Advance, Again

(* The inductive invariant of the slots holds for any number of threads,   *)
(* samples, buckets and calls.                                             *)
THEOREM SlotInvariant == SlotSpec => []SlotInv
  <1>1. SlotInit => SlotInv
    BY SlotInitInv
  <1>2. SlotInv /\ [SlotNext]_slotVars => SlotInv'
    BY SlotStepInv, SlotStutters
  <1> QED BY <1>1, <1>2, PTL DEF SlotSpec

(* No Add and no Record is lost or counted twice.                          *)
THEOREM NothingIsLost == SlotSpec => []NothingLost
  <1>1. SlotInv => NothingLost
    BY DEF SlotInv
  <1> QED BY <1>1, SlotInvariant, PTL

(* min and max are the extremes of the samples past their loops, although  *)
(* a loop may end on a stale expected value.                               *)
THEOREM ExtremesAreExact == SlotSpec => []ExtremesExact
  <1>1. SlotInv => ExtremesExact
    BY DEF SlotInv
  <1> QED BY <1>1, SlotInvariant, PTL

(* The rank a percentile is read from is the rank of the samples, whatever *)
(* doubles they are; only one of +infinity may be in no bucket.            *)
THEOREM BucketsRank == SlotSpec => []BucketsRankSamples
  <1>1. SlotInv => BucketsRankSamples
    BY DEF SlotInv
  <1> QED BY <1>1, SlotInvariant, PTL

=============================================================================
