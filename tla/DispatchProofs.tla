--------------------------- MODULE DispatchProofs ---------------------------
(***************************************************************************)
(* Proofs about Dispatch: its inductive invariant Inv (types, the depth    *)
(* counter, awaited cascades, the chain), that it implements Cascade, and  *)
(* the strengthenings of Inv for the order of chunks, of the chain and of  *)
(* nesting, for any rules, concurrency, depth limit and number of triggers.*)
(***************************************************************************)
EXTENDS Dispatch, FiniteSetTheorems, TLAPS

-----------------------------------------------------------------------------
(* Sets of executions are finite, and counted. *)

LEMMA PositionsFinite ==
    /\ Cardinality(Rules) \in Nat
    /\ IsFiniteSet(Positions)
    /\ IsFiniteSet(Trig)
    /\ IsFiniteSet(Execs)
<1>1. Cardinality(Rules) \in Nat
  BY DispatchAssumption, FS_CardinalityType DEF DispatchAssumption
<1>2. IsFiniteSet(Positions) /\ IsFiniteSet(Trig)
  BY <1>1, DispatchAssumption, FS_Interval DEF DispatchAssumption, Positions, Trig
<1>3. IsFiniteSet(Trig \X Positions)
  BY <1>2, FS_Product
<1> QED BY <1>1, <1>2, <1>3 DEF Execs

\* The executions of a trigger at given positions are as many as these.
LEMMA PositionsCount ==
    ASSUME NEW t, NEW P, IsFiniteSet(P)
    PROVE  LET E == {<<t, i>> : i \in P}
           IN  IsFiniteSet(E) /\ Cardinality(E) = Cardinality(P)
<1> DEFINE E == {<<t, i>> : i \in P}
           g == [i \in P |-> <<t, i>>]
<1>1. g \in Bijection(P, E)
  BY DEF Bijection, Injection, Surjection, IsInjective
<1>2. ExistsBijection(P, E)
  BY <1>1 DEF ExistsBijection
<1> QED BY <1>2, FS_Bijection

-----------------------------------------------------------------------------
(* What the shared operators do to the state of one trigger. *)

\* The effect of taking trigger t to state s: executions that had started keep
\* their state, and the counter still counts those acting.
Effect(t, s) ==
    /\ st' = [st EXCEPT ![t] = s]
    /\ st' \in [Trig -> TrigStates]
    /\ next' \in [Trig -> Nat]
    /\ ex' \in [Execs -> ExecStates]
    /\ depth' \in Nat
    /\ \A e \in Execs : ex[e] # "none" => ex'[e] = ex[e]
    /\ DepthIsActing'
    /\ StartedInOrder'

LEMMA StartChunkEffect ==
    ASSUME TypeOK, DepthIsActing, StartedInOrder,
           NEW t \in Trig, NEW k \in Keys,
           next[t] <= Len(Matching[k]),
           StartChunk(t, k, next[t])
    PROVE  Effect(t, "running")
<1> DEFINE from == next[t]
           upto == Min2(from + MaxConcurrency, Len(Matching[k]))
           chunk == (from + 1) .. upto
           looking == {i \in chunk : Matching[k][i] \in LookupRules}
<1>1. PICK pass \in SUBSET (chunk \ looking) :
          /\ st' = [st EXCEPT ![t] = "running"]
          /\ next' = [next EXCEPT ![t] = upto]
          /\ ex' = [e \in Execs |->
                      IF e[1] = t /\ e[2] \in chunk
                        THEN IF e[2] \in looking THEN "lookup"
                             ELSE IF e[2] \in pass THEN "acting" ELSE "done"
                        ELSE ex[e]]
          /\ depth' = depth + Cardinality(pass)
  BY DEF StartChunk
<1>2. /\ from \in Nat
      /\ MaxConcurrency \in Nat
      /\ Len(Matching[k]) \in Nat
      /\ Len(Matching[k]) <= Cardinality(Rules)
  BY DispatchAssumption DEF TypeOK, DispatchAssumption
<1>3. upto \in Nat /\ upto <= Cardinality(Rules)
  BY <1>2, PositionsFinite DEF Min2
<1>4. chunk \subseteq Positions
  BY <1>2, <1>3, PositionsFinite DEF Positions
<1> DEFINE new == {<<t, i>> : i \in pass}
<1>5. IsFiniteSet(pass) /\ Cardinality(pass) \in Nat
  BY <1>4, PositionsFinite, FS_Subset, FS_CardinalityType
<1>6. \A e \in Execs : e[1] = t /\ e[2] \in chunk => ex[e] = "none"
  BY <1>2, <1>3 DEF StartedInOrder, Execs, TypeOK, Positions
<1>7. Acting' = Acting \cup new
  <2>1. ASSUME NEW e \in Acting' PROVE e \in Acting \cup new
    <3>1. e \in Execs /\ e = <<e[1], e[2]>> /\ ex'[e] = "acting"
      BY <2>1 DEF Acting, Execs
    <3>2. CASE e[1] = t /\ e[2] \in chunk
      BY <1>1, <3>1, <3>2
    <3>3. CASE ~(e[1] = t /\ e[2] \in chunk)
      BY <1>1, <3>1, <3>3 DEF Acting
    <3> QED BY <3>2, <3>3
  <2>2. ASSUME NEW e \in Acting PROVE e \in Acting'
    BY <1>1, <1>6, <2>2 DEF Acting
  <2>3. ASSUME NEW i \in pass PROVE <<t, i>> \in Acting'
    BY <1>1, <1>4, <2>3 DEF Acting, Execs
  <2> QED BY <2>1, <2>2, <2>3
<1>8. Acting \cap new = {}
  BY <1>4, <1>6 DEF Acting, Execs
<1>9. depth' = Cardinality(Acting') /\ depth' \in Nat
  <2>1. IsFiniteSet(Acting) /\ Cardinality(Acting) \in Nat
    BY PositionsFinite, FS_Subset, FS_CardinalityType DEF Acting
  <2>2. IsFiniteSet(new) /\ Cardinality(new) = Cardinality(pass)
    BY <1>5, PositionsCount
  <2>3. Cardinality(Acting \cup new) = Cardinality(Acting) + Cardinality(new)
    <3>1. Cardinality(Acting \cap new) = 0
      BY <1>8, FS_EmptySet
    <3>2. Cardinality(Acting \cup new)
            = Cardinality(Acting) + Cardinality(new) - Cardinality(Acting \cap new)
      BY <2>1, <2>2, FS_Union
    <3> HIDE DEF new
    <3> QED BY <3>1, <3>2, <2>1, <2>2, <1>5
  <2> QED BY <1>1, <1>5, <1>7, <2>1, <2>2, <2>3 DEF DepthIsActing
<1>10. /\ st' \in [Trig -> TrigStates]
       /\ next' \in [Trig -> Nat]
       /\ \A u \in Trig : u # t => st'[u] = st[u] /\ next'[u] = next[u]
  BY <1>1, <1>3 DEF TypeOK, TrigStates
<1>11. /\ ex' \in [Execs -> ExecStates]
       /\ \A e \in Execs : e[1] # t => ex'[e] = ex[e]
       /\ \A e \in Execs : ex[e] # "none" => ex'[e] = ex[e]
  BY <1>1, <1>6 DEF TypeOK, ExecStates
<1>12. ASSUME NEW e \in Execs, ex'[e] # "none"
       PROVE  e[2] <= next'[e[1]]
  <2>0. e[1] \in Trig /\ e[2] \in Nat
    BY DEF Execs, Positions
  <2>1. CASE e[1] = t /\ e[2] \in chunk
    BY <2>0, <2>1, <1>1, <1>3 DEF TypeOK
  <2>2. CASE ~(e[1] = t /\ e[2] \in chunk)
    <3>1. ex[e] # "none"
      BY <2>2, <1>1, <1>12
    <3>2. e[2] <= next[e[1]]
      BY <3>1 DEF StartedInOrder
    <3>3. CASE e[1] = t
      <4>1. next'[t] = upto
        BY <1>1 DEF TypeOK
      <4>2. e[2] <= from
        BY <3>2, <3>3
      <4>3. e[2] <= upto
        BY <1>2, <2>0, <4>2 DEF Min2
      <4> QED BY <4>1, <4>2, <4>3, <3>3, <1>2, <1>3, <2>0
    <3>4. CASE e[1] # t
      BY <3>2, <3>4, <1>10, <2>0
    <3> QED BY <3>3, <3>4
  <2> QED BY <2>1, <2>2
<1>13. \A u \in Trig : st'[u] \in {"free", "notify", "queued"} => next'[u] = 0
  BY <1>1, <1>10 DEF StartedInOrder, TypeOK
<1>14. ASSUME NEW e \in Execs, Live(e)' PROVE st'[e[1]] = "running"
  <2>1. CASE e[1] = t
    BY <1>1, <2>1 DEF TypeOK
  <2>2. CASE e[1] # t
    BY <1>10, <1>11, <1>14, <2>2 DEF StartedInOrder, Live, Execs
  <2> QED BY <2>1, <2>2
<1>15. StartedInOrder'
  BY <1>12, <1>13, <1>14 DEF StartedInOrder
<1> QED BY <1>1, <1>9, <1>10, <1>11, <1>15 DEF Effect, DepthIsActing

LEMMA SettleEffect ==
    ASSUME TypeOK, DepthIsActing, StartedInOrder,
           NEW t \in Trig, NEW s \in TrigStates,
           s \in {"free", "notify", "queued"} => next[t] = 0,
           \A e \in Execs : Live(e) => e[1] # t,
           SettleAs(t, s)
    PROVE  Effect(t, s)
<1>1. /\ st' = [st EXCEPT ![t] = s]
      /\ depth' = depth /\ next' = next /\ ex' = ex
  BY DEF SettleAs
<1>2. DepthIsActing'
  BY <1>1 DEF DepthIsActing, Acting
<1>3. StartedInOrder'
  BY <1>1 DEF StartedInOrder, TypeOK, Live, Execs
<1> QED BY <1>1, <1>2, <1>3 DEF Effect, TypeOK

\* Processing starts, or there is nothing to do.
LEMMA ProcessTriggeredRulesEffect ==
    ASSUME TypeOK, DepthIsActing, StartedInOrder,
           NEW t \in Trig, NEW k \in Keys,
           st[t] \in {"free", "notify", "queued"},
           ProcessTriggeredRules(t, k)
    PROVE  Effect(t, IF HasWork(k) THEN "running" ELSE "settled")
<1>1. next[t] = 0
  BY DEF StartedInOrder
<1>2. \A e \in Execs : Live(e) => e[1] # t
  BY DEF StartedInOrder
<1>3. CASE HasWork(k)
  <2>1. Len(Matching[k]) \in Nat
    BY DispatchAssumption DEF DispatchAssumption
  <2> QED BY <1>1, <1>3, <2>1, StartChunkEffect DEF ProcessTriggeredRules
<1>4. CASE ~HasWork(k)
  BY <1>2, <1>4, SettleEffect DEF ProcessTriggeredRules, TrigStates
<1> QED BY <1>3, <1>4

\* A trigger is processed at once, dropped, or appended to the chain.
LEMMA ProcessTriggerEffect ==
    ASSUME TypeOK, DepthIsActing, StartedInOrder,
           NEW t \in Trig, NEW k \in Keys,
           st[t] \in {"free", "notify"},
           ProcessTrigger(t, k)
    PROVE  \/ \E s \in {"running", "settled", "dropped"} :
                Effect(t, s) /\ UNCHANGED chainVars
           \/ Effect(t, "queued") /\ queue' = Append(queue, t) /\ active' = active
<1>1. next[t] = 0
  BY DEF StartedInOrder
<1>2. \A e \in Execs : Live(e) => e[1] # t
  BY DEF StartedInOrder
<1>3. CASE depth > 0 /\ depth >= MaxForwardDepth /\ SettleAs(t, "dropped") /\ UNCHANGED chainVars
  BY <1>2, <1>3, SettleEffect DEF TrigStates
<1>4. CASE depth > 0 /\ ProcessTriggeredRules(t, k) /\ UNCHANGED chainVars
  BY <1>4, ProcessTriggeredRulesEffect
<1>5. CASE queue' = Append(queue, t) /\ SettleAs(t, "queued") /\ UNCHANGED active
  BY <1>1, <1>2, <1>5, SettleEffect DEF TrigStates
<1> QED BY <1>3, <1>4, <1>5 DEF ProcessTrigger

-----------------------------------------------------------------------------
(* The remaining conjuncts of Inv: who awaits what, and the chain. *)

\* How the chain changes when trigger t goes to state s.
ChainEffect(t, s) ==
    \/ queue' = queue /\ s # "queued" /\ st[t] # "queued"
    \/ queue' = Append(queue, t) /\ s = "queued" /\ st[t] # "queued"
    \/ queue # <<>> /\ t = Head(queue) /\ queue' = Tail(queue) /\ s # "queued"

LEMMA ChainKept ==
    ASSUME TypeOK, QueueIsQueued,
           NEW t \in Trig, NEW s \in TrigStates,
           st' = [st EXCEPT ![t] = s],
           ChainEffect(t, s)
    PROVE  queue' \in Seq(Trig) /\ QueueIsQueued'
<1>1. queue \in Seq(Trig) /\ st \in [Trig -> TrigStates]
  BY DEF TypeOK
<1>2. CASE queue' = queue /\ s # "queued" /\ st[t] # "queued"
  <2>1. \A i \in 1 .. Len(queue) : queue[i] \in Trig
    BY <1>1
  <2> QED BY <1>1, <1>2, <2>1 DEF QueueIsQueued
<1>3. CASE queue' = Append(queue, t) /\ s = "queued" /\ st[t] # "queued"
  <2>1. \A i \in 1 .. Len(queue) : queue[i] \in Trig /\ queue[i] # t
    BY <1>1, <1>3 DEF QueueIsQueued
  <2>2. /\ queue' \in Seq(Trig)
        /\ Len(queue) \in Nat
        /\ Len(queue') = Len(queue) + 1
        /\ \A i \in 1 .. Len(queue) : queue'[i] = queue[i]
        /\ queue'[Len(queue) + 1] = t
    BY <1>1, <1>3
  <2>3. \A i \in 1 .. Len(queue') : i \in 1 .. Len(queue) \/ i = Len(queue) + 1
    BY <2>2
  <2>4. \A i \in 1 .. Len(queue') : st'[queue'[i]] = "queued"
    BY <1>1, <1>3, <2>1, <2>2, <2>3 DEF QueueIsQueued
  <2>5. \A i, j \in 1 .. Len(queue') : queue'[i] = queue'[j] => i = j
    BY <2>1, <2>2, <2>3 DEF QueueIsQueued
  <2> QED BY <2>2, <2>4, <2>5 DEF QueueIsQueued
<1>4. CASE queue # <<>> /\ t = Head(queue) /\ queue' = Tail(queue) /\ s # "queued"
  <2>1. /\ queue' \in Seq(Trig)
        /\ Len(queue) \in Nat
        /\ Len(queue') = Len(queue) - 1
        /\ \A i \in 1 .. Len(queue') : queue'[i] = queue[i + 1]
        /\ t = queue[1] /\ Len(queue) >= 1
    BY <1>1, <1>4
  <2>2. \A i \in 1 .. Len(queue') : i + 1 \in 1 .. Len(queue) /\ i + 1 # 1
    BY <2>1
  <2>3. \A i \in 1 .. Len(queue') : queue'[i] \in Trig /\ queue'[i] # t
    BY <1>1, <2>1, <2>2 DEF QueueIsQueued
  <2>4. \A i \in 1 .. Len(queue') : st'[queue'[i]] = "queued"
    BY <1>1, <1>4, <2>1, <2>2, <2>3 DEF QueueIsQueued
  <2>5. \A i, j \in 1 .. Len(queue') : queue'[i] = queue'[j] => i = j
    BY <2>1, <2>2 DEF QueueIsQueued
  <2> QED BY <2>1, <2>4, <2>5 DEF QueueIsQueued
<1> QED BY <1>2, <1>3, <1>4 DEF ChainEffect

\* A trigger in progress goes on.
LEMMA ProgressKeeps ==
    ASSUME Inv,
           NEW t \in Trig, NEW s \in TrigStates \ {"free"},
           st[t] # "free", ~Over(t),
           Effect(t, s), ChainEffect(t, s),
           UNCHANGED <<used, key, by, wait, timerDue>>
    PROVE  /\ queue' \in Seq(Trig)
           /\ ParentWaits' /\ UsedTriggers' /\ KeyKnown' /\ QueueIsQueued'
<1>1. /\ st' = [st EXCEPT ![t] = s]
      /\ \A e \in Execs : ex[e] # "none" => ex'[e] = ex[e]
      /\ st \in [Trig -> TrigStates]
      /\ by \in [Trig -> Execs \cup {External}]
  BY DEF Effect, Inv, TypeOK
<1>2. UsedTriggers' /\ KeyKnown'
  BY <1>1 DEF Inv, UsedTriggers, KeyKnown, TypeOK
<1>3. ParentWaits'
  <2> SUFFICES ASSUME NEW m \in Trig,
                      by[m] # External, st'[m] # "free", ~Over(m)'
               PROVE  Live(by[m])' /\ wait[by[m]] = m
    BY DEF ParentWaits
  <2>1. st[m] # "free" /\ ~Over(m)
    BY <1>1 DEF Over
  <2>2. Live(by[m]) /\ wait[by[m]] = m /\ by[m] \in Execs
    BY <2>1, <1>1 DEF Inv, ParentWaits
  <2> QED BY <2>2, <1>1 DEF Live
<1> QED BY <1>1, <1>2, <1>3, ChainKept DEF Inv

\* A trigger arises, for a caller or for an execution that will await it.
LEMMA RaiseKeeps ==
    ASSUME Inv,
           NEW t \in Trig, NEW k \in Keys, NEW s \in TrigStates \ {"free"},
           NEW origin \in Execs \cup {External},
           Raise(t, k, origin),
           Effect(t, s), ChainEffect(t, s),
           \A d \in timerDue' : d \in timerDue \/ (d = t /\ k \in Timers),
           \/ origin = External /\ wait' = wait
           \/ /\ origin # External
              /\ Live(origin)
              /\ wait[origin] = None
              /\ wait' = [wait EXCEPT ![origin] = t]
    PROVE  /\ queue' \in Seq(Trig)
           /\ used' \in 0 .. MaxTriggers
           /\ key' \in [Trig -> Keys \cup {Other}]
           /\ by' \in [Trig -> Execs \cup {External}]
           /\ level' \in [Trig -> Nat]
           /\ wait' \in [Execs -> Trig \cup {None}]
           /\ ParentWaits' /\ UsedTriggers' /\ KeyKnown' /\ QueueIsQueued'
<1>1. /\ st' = [st EXCEPT ![t] = s]
      /\ \A e \in Execs : ex[e] # "none" => ex'[e] = ex[e]
      /\ st \in [Trig -> TrigStates]
      /\ by \in [Trig -> Execs \cup {External}]
      /\ wait \in [Execs -> Trig \cup {None}]
      /\ level \in [Trig -> Nat]
      /\ key \in [Trig -> Keys \cup {Other}]
      /\ used \in 0 .. MaxTriggers
      /\ MaxTriggers \in Nat
  BY DispatchAssumption DEF Effect, Inv, TypeOK, DispatchAssumption
<1>2. /\ t = used + 1 /\ used' = t
      /\ key' = [key EXCEPT ![t] = k]
      /\ by' = [by EXCEPT ![t] = origin]
      /\ level' = [level EXCEPT ![t] =
                     IF origin = External THEN 0
                     ELSE level[origin[1]] + (IF ex[origin] = "acting" THEN 1 ELSE 0)]
  BY DEF Raise
<1>3. None \notin Trig /\ External \notin Execs
  BY DEF Trig, None, External, Execs
<1>4. level' \in [Trig -> Nat]
  BY <1>1, <1>2 DEF Execs
<1>5. used' \in 0 .. MaxTriggers
  BY <1>1, <1>2 DEF Trig
<1>6. wait' \in [Execs -> Trig \cup {None}]
  BY <1>1
<1>7. UsedTriggers'
  <2> SUFFICES ASSUME NEW m \in Trig PROVE m <= used' <=> st'[m] # "free"
    BY DEF UsedTriggers
  <2>1. m <= used <=> st[m] # "free"
    BY DEF Inv, UsedTriggers
  <2>2. CASE m = t
    BY <2>2, <1>1, <1>2 DEF Trig
  <2>3. CASE m # t
    BY <2>1, <2>3, <1>1, <1>2 DEF Trig
  <2> QED BY <2>2, <2>3
<1>8. KeyKnown'
  <2>1. ASSUME NEW m \in Trig, st'[m] # "free" PROVE key'[m] \in Keys
    BY <1>1, <1>2, <2>1 DEF Inv, KeyKnown
  <2>2. st[t] = "free"
    BY <1>1, <1>2 DEF Inv, UsedTriggers
  <2>3. ASSUME NEW d \in timerDue' PROVE st'[d] # "free" /\ key'[d] \in Timers
    <3>1. CASE d \in timerDue
      <4>1. d \in Trig /\ d # t /\ st[d] # "free" /\ key[d] \in Timers
        BY <2>2, <3>1 DEF Inv, KeyKnown, TypeOK
      <4> QED BY <4>1, <1>1, <1>2
    <3>2. CASE d = t /\ k \in Timers
      BY <3>2, <1>1, <1>2
    <3> QED BY <2>3, <3>1, <3>2
  <2> QED BY <2>1, <2>3 DEF KeyKnown
<1>9. ParentWaits'
  <2> SUFFICES ASSUME NEW m \in Trig,
                      by'[m] # External, st'[m] # "free", ~Over(m)'
               PROVE  Live(by[m])' /\ wait'[by'[m]] = m
    BY DEF ParentWaits
  <2>1. CASE m = t
    BY <2>1, <1>1, <1>2 DEF Live
  <2>2. CASE m # t
    <3>1. by'[m] = by[m] /\ by[m] \in Execs /\ st[m] # "free" /\ ~Over(m)
      BY <2>2, <1>1, <1>2 DEF Over
    <3>2. Live(by[m]) /\ wait[by[m]] = m
      BY <3>1 DEF Inv, ParentWaits
    <3>3. wait'[by[m]] = m
      BY <3>1, <3>2, <1>1, <1>3
    <3> QED BY <3>1, <3>2, <3>3, <1>1 DEF Live
  <2> QED BY <2>1, <2>2
<1> QED BY <1>1, <1>2, <1>4, <1>5, <1>6, <1>7, <1>8, <1>9, ChainKept DEF Inv

-----------------------------------------------------------------------------
(* Every step keeps Inv. *)

LEMMA InitInv == Init => Inv
<1> SUFFICES ASSUME Init PROVE Inv
  OBVIOUS
<1> USE DEF Init
<1>1. TypeOK
  BY DispatchAssumption
  DEF DispatchAssumption, TypeOK, TrigStates, ExecStates, Trig, None, External
<1>2. DepthIsActing
  <2>1. Acting = {}
    BY DEF Acting
  <2> QED BY <2>1, FS_EmptySet DEF DepthIsActing
<1>3. StartedInOrder /\ ParentWaits /\ KeyKnown
  BY DEF StartedInOrder, ParentWaits, KeyKnown, Live
<1>4. UsedTriggers /\ QueueIsQueued
  BY DEF UsedTriggers, QueueIsQueued, Trig
<1> QED BY <1>1, <1>2, <1>3, <1>4 DEF Inv

\* Calls of the engine that raise a trigger.
LEMMA ProcessedRaise ==
    ASSUME Inv,
           NEW t \in Trig, NEW k \in Keys,
           Raise(t, k, External), ProcessTrigger(t, k),
           UNCHANGED <<execVars, ctrlVars>>,
           raised' \in 0 .. MaxExternal, timerDue' \in SUBSET Trig,
           \A d \in timerDue' : d \in timerDue \/ (d = t /\ k \in Timers)
    PROVE  Inv'
<1>1. st[t] = "free"
  BY DispatchAssumption
  DEF Inv, UsedTriggers, Raise, Trig, TypeOK, DispatchAssumption
<1>2. UNCHANGED <<pc, wait, running, stop, stopTail, reload, reloadTail>>
  BY DEF execVars, ctrlVars
<1>3. PICK s \in TrigStates \ {"free"} :
        Effect(t, s) /\ ChainEffect(t, s) /\ active' = active
  BY <1>1, ProcessTriggerEffect DEF Inv, ChainEffect, chainVars, TrigStates
<1>4. TypeOK' /\ ParentWaits' /\ UsedTriggers' /\ KeyKnown' /\ QueueIsQueued'
  <2> HIDE DEF Effect, ChainEffect
  <2>1. /\ queue' \in Seq(Trig)
        /\ used' \in 0 .. MaxTriggers
        /\ key' \in [Trig -> Keys \cup {Other}]
        /\ by' \in [Trig -> Execs \cup {External}]
        /\ level' \in [Trig -> Nat]
        /\ wait' \in [Execs -> Trig \cup {None}]
        /\ ParentWaits' /\ UsedTriggers' /\ KeyKnown' /\ QueueIsQueued'
    BY <1>2, <1>3, RaiseKeeps
  <2> QED BY <2>1, <1>2, <1>3 DEF Inv, TypeOK, Effect
<1> QED BY <1>3, <1>4 DEF Inv, Effect

LEMMA InternalEvent ==
    ASSUME Inv,
           NEW t \in Trig, NEW k \in Keys, NEW origin \in Execs \cup {External},
           HandleInternalEvent(t, k, origin),
           UNCHANGED <<ctrlVars, pc>>,
           raised' \in 0 .. MaxExternal, timerDue' \in SUBSET timerDue,
           \/ origin = External /\ wait' = wait
           \/ /\ origin # External
              /\ Live(origin)
              /\ wait[origin] = None
              /\ wait' = [wait EXCEPT ![origin] = t]
    PROVE  Inv'
<1>1. /\ Raise(t, k, origin) /\ SettleAs(t, "notify")
      /\ UNCHANGED <<pc, running, stop, stopTail, reload, reloadTail, queue, active>>
      /\ timerDue' \in SUBSET Trig
  BY DEF Inv, TypeOK, HandleInternalEvent, ctrlVars, chainVars
<1>2. st[t] = "free" /\ next[t] = 0 /\ \A e \in Execs : Live(e) => e[1] # t
  <2>1. st[t] = "free"
    BY <1>1, DispatchAssumption
    DEF Inv, UsedTriggers, Raise, Trig, TypeOK, DispatchAssumption
  <2> QED BY <2>1 DEF Inv, StartedInOrder
<1>3. Effect(t, "notify")
  BY <1>1, <1>2, SettleEffect DEF Inv, TrigStates
<1>4. ChainEffect(t, "notify")
  BY <1>1, <1>2 DEF ChainEffect
<1>5. /\ queue' \in Seq(Trig)
      /\ used' \in 0 .. MaxTriggers
      /\ key' \in [Trig -> Keys \cup {Other}]
      /\ by' \in [Trig -> Execs \cup {External}]
      /\ level' \in [Trig -> Nat]
      /\ wait' \in [Execs -> Trig \cup {None}]
      /\ ParentWaits' /\ UsedTriggers' /\ KeyKnown' /\ QueueIsQueued'
  BY <1>1, <1>3, <1>4, RaiseKeeps DEF TrigStates
<1>6. TypeOK'
  BY <1>1, <1>3, <1>5 DEF Inv, TypeOK, Effect
<1> QED BY <1>3, <1>5, <1>6 DEF Inv, Effect

\* A trigger in progress goes on, and nothing else changes but the chain.
LEMMA Progress ==
    ASSUME Inv,
           NEW t \in Trig, NEW s \in TrigStates \ {"free"},
           st[t] # "free", ~Over(t),
           Effect(t, s), ChainEffect(t, s),
           active' \in Trig \cup {None},
           UNCHANGED <<trigVars, execVars, ctrlVars>>
    PROVE  Inv'
<1>1. /\ queue' \in Seq(Trig)
      /\ ParentWaits' /\ UsedTriggers' /\ KeyKnown' /\ QueueIsQueued'
  BY ProgressKeeps DEF trigVars, execVars
<1>2. TypeOK'
  BY <1>1 DEF Inv, TypeOK, Effect, trigVars, execVars, ctrlVars
<1> QED BY <1>1, <1>2 DEF Inv, Effect

LEMMA NotifiedInv == ASSUME Inv, NEW t \in Trig, Notified(t) PROVE Inv'
<1>1. st[t] = "notify" /\ ~Over(t) /\ key[t] \in Keys
  BY DEF Notified, Over, Inv, KeyKnown
<1>2. PICK s \in TrigStates \ {"free"} :
        Effect(t, s) /\ ChainEffect(t, s) /\ active' = active
  BY <1>1, ProcessTriggerEffect DEF Notified, Inv, ChainEffect, chainVars, TrigStates
<1>3. active' \in Trig \cup {None}
  BY <1>2 DEF Inv, TypeOK
<1> QED BY <1>1, <1>2, <1>3, Progress DEF Notified

LEMMA DequeueInv == ASSUME Inv, Dequeue PROVE Inv'
<1> DEFINE t == Head(queue)
           s == IF HasWork(key[t]) THEN "running" ELSE "settled"
<1>1. queue # <<>> /\ queue \in Seq(Trig)
  BY DEF Dequeue, Inv, TypeOK
<1>2. t \in Trig /\ t = queue[1] /\ 1 \in 1 .. Len(queue)
  BY <1>1
<1>3. st[t] = "queued"
  BY <1>2 DEF Inv, QueueIsQueued
<1>4. ~Over(t) /\ key[t] \in Keys
  BY <1>2, <1>3 DEF Over, Inv, KeyKnown
<1>5. Effect(t, s)
  BY <1>2, <1>3, <1>4, ProcessTriggeredRulesEffect DEF Dequeue, Inv
<1>6. /\ s \in TrigStates \ {"free"}
      /\ ChainEffect(t, s)
      /\ active' \in Trig \cup {None}
  BY <1>1, <1>2 DEF Dequeue, ChainEffect, TrigStates
<1> HIDE DEF t, s
<1>7. UNCHANGED <<trigVars, execVars, ctrlVars>>
  BY DEF Dequeue
<1> QED BY <1>2, <1>3, <1>4, <1>5, <1>6, <1>7, Progress

LEMMA ChunkDoneInv == ASSUME Inv, NEW t \in Trig, ChunkDone(t) PROVE Inv'
<1>1. /\ st[t] = "running" /\ ~Over(t) /\ key[t] \in Keys
      /\ next[t] \in Nat /\ Len(Matching[key[t]]) \in Nat
  BY DispatchAssumption
  DEF ChunkDone, Over, Inv, KeyKnown, TypeOK, DispatchAssumption
<1>2. active' \in Trig \cup {None}
  BY DEF ChunkDone, Inv, TypeOK
<1>3. PICK s \in {"running", "settled"} : Effect(t, s)
  <2>1. CASE next[t] < Len(Matching[key[t]])
    BY <2>1, <1>1, StartChunkEffect DEF ChunkDone, Inv
  <2>2. CASE ~(next[t] < Len(Matching[key[t]]))
    <3>1. \A e \in Execs : Live(e) => e[1] # t
      <4> SUFFICES ASSUME NEW e \in Execs, Live(e), e[1] = t PROVE FALSE
        OBVIOUS
      <4>1. e = <<t, e[2]>> /\ e[2] \in Positions /\ ex[e] # "none"
        BY DEF Execs, Live
      <4>2. e[2] \in 1 .. next[t]
        BY <4>1, <1>1 DEF Inv, StartedInOrder, Positions
      <4> QED BY <4>1, <4>2 DEF ChunkDone, Live
    <3>2. SettleAs(t, "settled")
      BY <2>2 DEF ChunkDone
    <3> QED BY <3>1, <3>2, SettleEffect DEF Inv, TrigStates
  <2> QED BY <2>1, <2>2
<1>4. s \in TrigStates \ {"free"} /\ ChainEffect(t, s)
  BY <1>1, <1>3 DEF ChunkDone, ChainEffect, TrigStates
<1> QED BY <1>1, <1>2, <1>3, <1>4, Progress DEF ChunkDone

\* Steps of one execution that raise no trigger.
LEMMA LookupsResolvedInv == ASSUME Inv, NEW e \in Execs, LookupsResolved(e) PROVE Inv'
<1>1. /\ ex[e] = "lookup"
      /\ wait' = [wait EXCEPT ![e] = None]
      /\ UNCHANGED <<trigVars, chainVars, ctrlVars, st, next, pc>>
  BY DEF LookupsResolved
<1>2. PICK x \in {"done", "acting"} :
        /\ ex' = [ex EXCEPT ![e] = x]
        /\ depth' = IF x = "acting" THEN depth + 1 ELSE depth
  BY DEF LookupsResolved
<1>3. /\ ex \in [Execs -> ExecStates] /\ wait \in [Execs -> Trig \cup {None}]
      /\ depth = Cardinality(Acting) /\ IsFiniteSet(Acting) /\ depth \in Nat
  BY PositionsFinite, FS_Subset DEF Inv, TypeOK, DepthIsActing, Acting
<1>4. Acting' = IF x = "acting" THEN Acting \cup {e} ELSE Acting
  BY <1>1, <1>2, <1>3 DEF Acting
<1>5. DepthIsActing' /\ depth' \in Nat
  <2>1. e \notin Acting
    BY <1>1 DEF Acting
  <2>2. CASE x = "acting"
    <3>1. Cardinality(Acting \cup {e}) = Cardinality(Acting) + 1
      BY <2>1, <1>3, FS_AddElement
    <3>2. Acting' = Acting \cup {e} /\ depth' = depth + 1
      BY <2>2, <1>2, <1>4
    <3>3. depth' = Cardinality(Acting')
      BY <3>1, <3>2, <1>3
    <3> QED BY <3>2, <3>3, <1>3 DEF DepthIsActing
  <2>3. CASE x # "acting"
    BY <2>3, <1>2, <1>3, <1>4 DEF DepthIsActing
  <2> QED BY <2>2, <2>3
<1>6. TypeOK'
  BY <1>1, <1>2, <1>3, <1>5
  DEF Inv, TypeOK, ExecStates, trigVars, chainVars, ctrlVars
<1>7. StartedInOrder'
  BY <1>1, <1>2, <1>3 DEF Inv, StartedInOrder, Live
<1>8. ParentWaits'
  <2> SUFFICES ASSUME NEW m \in Trig,
                      by[m] # External, st[m] # "free", ~Over(m)
               PROVE  Live(by[m])' /\ wait'[by[m]] = m
    BY <1>1 DEF ParentWaits, trigVars, Over
  <2>1. Live(by[m]) /\ wait[by[m]] = m /\ by[m] \in Execs
    BY DEF Inv, ParentWaits, TypeOK
  <2>2. by[m] # e
    BY <2>1 DEF LookupsResolved, Ready, Trig, None
  <2> QED BY <2>1, <2>2, <1>1, <1>2, <1>3 DEF Live, trigVars
<1>9. UsedTriggers' /\ KeyKnown' /\ QueueIsQueued'
  BY <1>1 DEF Inv, UsedTriggers, KeyKnown, QueueIsQueued, trigVars, chainVars
<1> QED BY <1>5, <1>6, <1>7, <1>8, <1>9 DEF Inv

LEMMA RuleLeftInv ==
    ASSUME Inv, NEW e \in Execs, RuleExecuted(e) \/ RuleRejected(e) PROVE Inv'
<1>1. /\ ex[e] = "acting" /\ wait[e] = None
      /\ ex' = [ex EXCEPT ![e] = "done"]
      /\ depth' = depth - 1
      /\ UNCHANGED <<trigVars, execVars, chainVars, ctrlVars, st, next>>
  BY DEF RuleExecuted, RuleRejected, LeaveRule
<1>2. /\ ex \in [Execs -> ExecStates]
      /\ depth = Cardinality(Acting) /\ IsFiniteSet(Acting) /\ depth \in Nat
  BY PositionsFinite, FS_Subset DEF Inv, TypeOK, DepthIsActing, Acting
<1>3. Acting' = Acting \ {e} /\ e \in Acting
  BY <1>1, <1>2 DEF Acting
<1>4. DepthIsActing' /\ depth' \in Nat
  <2>1. Cardinality(Acting \ {e}) = Cardinality(Acting) - 1
    BY <1>2, <1>3, FS_RemoveElement
  <2>2. Cardinality(Acting \ {e}) \in Nat
    BY <1>2, FS_RemoveElement, FS_CardinalityType
  <2>3. depth' = Cardinality(Acting')
    BY <2>1, <1>1, <1>2, <1>3
  <2> QED BY <2>2, <2>3, <1>3 DEF DepthIsActing
<1>5. TypeOK'
  BY <1>1, <1>2, <1>4
  DEF Inv, TypeOK, ExecStates, trigVars, execVars, chainVars, ctrlVars
<1>6. StartedInOrder'
  BY <1>1, <1>2 DEF Inv, StartedInOrder, Live
<1>7. ParentWaits'
  <2> SUFFICES ASSUME NEW m \in Trig,
                      by[m] # External, st[m] # "free", ~Over(m)
               PROVE  Live(by[m])' /\ wait[by[m]] = m
    BY <1>1 DEF ParentWaits, trigVars, execVars, Over
  <2>1. Live(by[m]) /\ wait[by[m]] = m /\ by[m] \in Execs
    BY DEF Inv, ParentWaits, TypeOK
  <2>2. by[m] # e
    BY <2>1, <1>1 DEF Trig, None
  <2> QED BY <2>1, <2>2, <1>1, <1>2 DEF Live, trigVars
<1>8. UsedTriggers' /\ KeyKnown' /\ QueueIsQueued'
  BY <1>1 DEF Inv, UsedTriggers, KeyKnown, QueueIsQueued, trigVars, chainVars
<1> QED BY <1>4, <1>5, <1>6, <1>7, <1>8 DEF Inv

LEMMA EmitReturnsInv == ASSUME Inv, NEW e \in Execs, EmitReturns(e) PROVE Inv'
<1>1. /\ Over(wait[e]) /\ wait[e] # None
      /\ wait' = [wait EXCEPT ![e] = None]
      /\ pc' = [pc EXCEPT ![e] = @ + 1]
      /\ UNCHANGED <<trigVars, startVars, chainVars, ctrlVars>>
  BY DEF EmitReturns
<1>2. TypeOK'
  <2>1. wait' \in [Execs -> Trig \cup {None}] /\ pc' \in [Execs -> Nat]
    <3>1. wait \in [Execs -> Trig \cup {None}] /\ pc \in [Execs -> Nat]
      BY DEF Inv, TypeOK
    <3> QED BY <1>1, <3>1
  <2>2. /\ trigVars' = trigVars /\ startVars' = startVars
        /\ chainVars' = chainVars /\ ctrlVars' = ctrlVars
    BY <1>1
  <2> QED BY <2>1, <2>2 DEF Inv, TypeOK, trigVars, startVars, chainVars, ctrlVars
<1>3. ParentWaits'
  BY <1>1 DEF Inv, TypeOK, ParentWaits, Live, Over, trigVars, startVars
<1>4. DepthIsActing' /\ StartedInOrder' /\ UsedTriggers' /\ KeyKnown' /\ QueueIsQueued'
  BY <1>1
  DEF Inv, DepthIsActing, Acting, StartedInOrder, Live, UsedTriggers, KeyKnown,
      QueueIsQueued, trigVars, startVars, chainVars
<1> QED BY <1>2, <1>3, <1>4 DEF Inv

\* Steps that leave triggers and executions alone, up to the program counter.
LEMMA ControlInv ==
    ASSUME Inv, TypeOK', UNCHANGED <<trigVars, startVars, chainVars, wait>>
    PROVE  Inv'
BY DEF Inv, DepthIsActing, Acting, StartedInOrder, Live, ParentWaits, Over,
       UsedTriggers, KeyKnown, QueueIsQueued, trigVars, startVars, chainVars

LEMMA ExecuteOtherInv == ASSUME Inv, NEW e \in Execs, ExecuteOther(e) PROVE Inv'
<1>1. TypeOK'
  BY SMTT(40) DEF ExecuteOther, Inv, TypeOK, trigVars, startVars, chainVars, ctrlVars
<1> QED BY <1>1, ControlInv DEF ExecuteOther

LEMMA ChainEndType == TypeOK => ChainEnd \in Trig \cup {None}
<1> SUFFICES ASSUME TypeOK PROVE ChainEnd \in Trig \cup {None}
  OBVIOUS
<1>1. queue \in Seq(Trig) /\ active \in Trig \cup {None}
  BY DEF TypeOK
<1>2. queue # <<>> => Len(queue) \in 1 .. Len(queue)
  BY <1>1
<1> QED BY <1>1, <1>2 DEF ChainEnd

LEMMA ControlStep ==
    ASSUME Inv,
           StopCalled \/ StopAwaits \/ StopReturns \/ ReloadAwaits \/ ReloadApplies
    PROVE  Inv'
<1>1. UNCHANGED <<trigVars, startVars, chainVars, execVars>>
  BY DEF StopCalled, StopAwaits, StopReturns, ReloadAwaits, ReloadApplies
<1>2. /\ running' \in BOOLEAN
      /\ stop' \in {"no", "closing", "draining", "stopped"}
      /\ stopTail' \in Trig \cup {None}
      /\ reload' \in {"idle", "waiting", "applied", "failed"}
      /\ reloadTail' \in Trig \cup {None}
  BY ChainEndType
  DEF StopCalled, StopAwaits, StopReturns, ReloadAwaits, ReloadApplies, Inv, TypeOK
<1>3. TypeOK'
  BY <1>1, <1>2 DEF Inv, TypeOK, trigVars, startVars, chainVars, execVars
<1> QED BY <1>1, <1>3, ControlInv DEF execVars

LEMMA NextInv == Inv /\ [Next]_vars => Inv'
<1> SUFFICES ASSUME Inv, [Next]_vars PROVE Inv'
  OBVIOUS
<1> USE DispatchAssumption DEF DispatchAssumption
<1>0. /\ raised \in 0 .. MaxExternal /\ timerDue \in SUBSET Trig
      /\ wait \in [Execs -> Trig \cup {None}]
      /\ key \in [Trig -> Keys \cup {Other}]
      /\ Topics \subseteq Keys /\ Facts \subseteq Keys /\ Timers \subseteq Keys
  BY DEF Inv, TypeOK, Keys
<1>1. ASSUME NEW t \in Trig, NEW k \in Topics, Emit(t, k) PROVE Inv'
  <2>1. /\ raised' \in 0 .. MaxExternal /\ timerDue' \in SUBSET timerDue
        /\ wait' = wait /\ UNCHANGED <<ctrlVars, pc>>
        /\ HandleInternalEvent(t, k, External)
    BY <1>0, <1>1 DEF Emit, RaisedByCaller, execVars
  <2> QED BY <1>0, <2>1, InternalEvent
<1>2. ASSUME NEW t \in Trig, NEW k \in Facts, SetFact(t, k) PROVE Inv'
  <2>1. raised' \in 0 .. MaxExternal /\ timerDue' \in SUBSET Trig /\ timerDue' = timerDue
    BY <1>0, <1>2 DEF SetFact, RaisedByCaller
  <2> QED BY <1>0, <1>2, <2>1, ProcessedRaise DEF SetFact
<1>3. ASSUME NEW t \in Trig, NEW k \in Timers, TimerExpired(t, k) PROVE Inv'
  <2>1. /\ raised' \in 0 .. MaxExternal /\ timerDue' \in SUBSET Trig
        /\ \A d \in timerDue' : d \in timerDue \/ (d = t /\ k \in Timers)
    BY <1>0, <1>3 DEF TimerExpired, RaisedByCaller
  <2> QED BY <1>0, <1>3, <2>1, ProcessedRaise DEF TimerExpired
<1>4. ASSUME NEW d \in Trig, NEW t \in Trig, TimerEmit(d, t) PROVE Inv'
  <2>1. OnExpire[key[d]] \in Keys
    <3>1. key[d] \in Timers
      BY <1>4 DEF TimerEmit, Inv, KeyKnown
    <3> QED BY <3>1, <1>0
  <2>2. /\ raised' \in 0 .. MaxExternal /\ timerDue' \in SUBSET timerDue
        /\ wait' = wait /\ UNCHANGED <<ctrlVars, pc>>
        /\ HandleInternalEvent(t, OnExpire[key[d]], External)
    BY <1>0, <1>4 DEF TimerEmit, execVars
  <2> QED BY <2>1, <2>2, InternalEvent
<1>5. ASSUME NEW e \in Execs, NEW t \in Trig, LookupEmits(e, t) PROVE Inv'
  <2>1. raised' \in 0 .. MaxExternal /\ timerDue' \in SUBSET timerDue
    BY <1>0, <1>5 DEF LookupEmits, RaisedByCaller
  <2>2. Live(e) /\ e # External /\ LookupTopic \in Keys
    BY <1>0, <1>5 DEF LookupEmits, Live, Execs, External, Trig, None
  <2> QED BY <1>5, <2>1, <2>2, InternalEvent DEF LookupEmits
<1>6. ASSUME NEW e \in Execs, NEW t \in Trig, ExecuteEmit(e, t) PROVE Inv'
  <2>1. raised' \in 0 .. MaxExternal /\ timerDue' \in SUBSET timerDue
    BY <1>0, <1>6 DEF ExecuteEmit
  <2>2. Live(e) /\ e # External /\ CurrentAction(e) \in Keys
    BY <1>0, <1>6 DEF ExecuteEmit, Live, Execs, External, Trig, None
  <2> QED BY <1>6, <2>1, <2>2, InternalEvent DEF ExecuteEmit
<1>7. CASE \E t \in Trig : Notified(t)
  BY <1>7, NotifiedInv
<1>8. CASE \E t \in Trig : ChunkDone(t)
  BY <1>8, ChunkDoneInv
<1>9. CASE Dequeue
  BY <1>9, DequeueInv
<1>10. CASE \E e \in Execs : LookupsResolved(e)
  BY <1>10, LookupsResolvedInv
<1>11. CASE \E e \in Execs : ExecuteOther(e)
  BY <1>11, ExecuteOtherInv
<1>12. CASE \E e \in Execs : EmitReturns(e)
  BY <1>12, EmitReturnsInv
<1>13. CASE \E e \in Execs : RuleExecuted(e) \/ RuleRejected(e)
  BY <1>13, RuleLeftInv
<1>14. CASE StopCalled \/ StopAwaits \/ StopReturns \/ ReloadAwaits \/ ReloadApplies
  BY <1>14, ControlStep
<1>15. CASE UNCHANGED vars
  <2>1. TypeOK'
    BY <1>15 DEF Inv, TypeOK, vars, trigVars, execVars, startVars, chainVars, ctrlVars
  <2> QED BY <1>15, <2>1, ControlInv DEF vars, execVars
<1> QED
  BY <1>1, <1>2, <1>3, <1>4, <1>5, <1>6, <1>7, <1>8, <1>9, <1>10, <1>11, <1>12,
     <1>13, <1>14, <1>15
  DEF Next, Environment, Engine, Idle

-----------------------------------------------------------------------------
(* Theorems. *)

\* Every reachable state satisfies Inv, whatever the rules, their actions and
\* the limits are.
THEOREM InvHolds == Spec => []Inv
<1>1. Init => Inv
  BY InitInv
<1>2. Inv /\ [Next]_vars => Inv'
  BY NextInv
<1> QED BY <1>1, <1>2, PTL DEF Spec

\* State variables keep their types.
THEOREM TypeCorrect == Spec => []TypeOK
<1>1. Inv => TypeOK
  BY DEF Inv
<1> QED BY <1>1, InvHolds, PTL

\* The depth counter of the engine counts exactly the rules whose actions are
\* executing (processingDepth, incremented and decremented around execute).
THEOREM DepthCorrect == Spec => []DepthIsActing
<1>1. Inv => DepthIsActing
  BY DEF Inv
<1> QED BY <1>1, InvHolds, PTL

\* A rule that raised a trigger does not go on before the trigger is over.
THEOREM CascadesAwaited == Spec => []ParentWaits
<1>1. Inv => ParentWaits
  BY DEF Inv
<1> QED BY <1>1, InvHolds, PTL

-----------------------------------------------------------------------------
(* Trigger processing implements Cascade. *)

LEMMA ForestArises ==
    ASSUME Inv,
           NEW t \in Trig, NEW k, NEW s \in TrigStates \ {"free"},
           NEW origin \in Execs \cup {External},
           origin # External => Live(origin),
           Raise(t, k, origin),
           st' = [st EXCEPT ![t] = s]
    PROVE  Forest!Next
<1> DEFINE a == IF s \in {"settled", "dropped"} THEN "over" ELSE "open"
<1>1. /\ st \in [Trig -> TrigStates] /\ by \in [Trig -> Execs \cup {External}]
      /\ by' = [by EXCEPT ![t] = origin] /\ t = used + 1 /\ used \in Nat
  BY DispatchAssumption DEF Inv, TypeOK, Raise, DispatchAssumption
<1>2. st[t] = "free"
  BY <1>1 DEF Inv, UsedTriggers
<1>3. origin[1] \in Trig \cup {None}
  BY DEF Execs, External
<1>4. origin[1] # None => Status[origin[1]] = "open"
  <2> SUFFICES ASSUME origin[1] # None PROVE Status[origin[1]] = "open"
    OBVIOUS
  <2>1. origin \in Execs /\ Live(origin) /\ origin[1] \in Trig
    BY <1>3 DEF External
  <2>2. st[origin[1]] = "running"
    BY <2>1 DEF Inv, StartedInOrder
  <2> QED BY <2>1, <2>2 DEF Status, Over
<1>5. Status' = [Status EXCEPT ![t] = a]
  BY <1>1 DEF Status, Over
<1>6. Parent' = [Parent EXCEPT ![t] = origin[1]]
  BY <1>1 DEF Parent
<1>7. Forest!Arise(t, origin[1], a)
  BY <1>2, <1>4, <1>5, <1>6 DEF Forest!Arise, Status
<1> QED BY <1>3, <1>7 DEF Forest!Next

LEMMA ForestGoesOn ==
    ASSUME Inv,
           NEW t \in Trig, NEW s \in TrigStates \ {"free"},
           st[t] # "free", ~Over(t),
           s \in {"settled", "dropped"} => \A e \in Execs : Live(e) => e[1] # t,
           st' = [st EXCEPT ![t] = s],
           by' = by
    PROVE  Forest!Next \/ UNCHANGED <<Status, Parent>>
<1>1. st \in [Trig -> TrigStates] /\ by \in [Trig -> Execs \cup {External}]
  BY DEF Inv, TypeOK
<1>2. Parent' = Parent
  BY DEF Parent
<1>3. CASE s \in {"settled", "dropped"}
  <2>1. Status' = [Status EXCEPT ![t] = "over"]
    BY <1>1, <1>3 DEF Status, Over
  <2>2. ASSUME NEW m \in Trig, Parent[m] = t PROVE Status[m] # "open"
    <3>1. by[m] # External
      BY <2>2 DEF Parent, External, None, Trig
    <3>2. st[m] # "free" /\ ~Over(m) => Live(by[m]) /\ by[m] \in Execs
      BY <3>1, <1>1 DEF Inv, ParentWaits
    <3> QED BY <3>2, <2>2, <1>3 DEF Status, Parent
  <2>3. Forest!Close(t)
    BY <2>1, <2>2, <1>2 DEF Forest!Close, Status
  <2> QED BY <2>3 DEF Forest!Next
<1>4. CASE s \notin {"settled", "dropped"}
  BY <1>1, <1>2, <1>4 DEF Status, Over
<1> QED BY <1>3, <1>4

LEMMA ForestStep ==
    ASSUME Inv, [Next]_vars
    PROVE  Forest!Next \/ UNCHANGED <<Status, Parent>>
<1> DEFINE Goal == Forest!Next \/ UNCHANGED <<Status, Parent>>
<1>1. ASSUME NEW t \in Trig, NEW k, NEW origin \in Execs \cup {External},
             origin # External => Live(origin),
             HandleInternalEvent(t, k, origin)
      PROVE  Goal
  <2>1. st' = [st EXCEPT ![t] = "notify"] /\ Raise(t, k, origin)
    BY <1>1 DEF HandleInternalEvent, SettleAs
  <2> QED BY <1>1, <2>1, ForestArises DEF TrigStates
<1>2. ASSUME NEW t \in Trig, NEW k \in Keys,
             Raise(t, k, External), ProcessTrigger(t, k)
      PROVE  Goal
  <2>1. st[t] = "free"
    BY <1>2, DispatchAssumption
    DEF Raise, Inv, UsedTriggers, Trig, TypeOK, DispatchAssumption
  <2>2. PICK s \in TrigStates \ {"free"} : st' = [st EXCEPT ![t] = s]
    BY <2>1, <1>2, ProcessTriggerEffect DEF Inv, Effect, TrigStates
  <2> QED BY <1>2, <2>2, ForestArises
<1>3. ASSUME NEW t \in Trig, NEW s \in TrigStates \ {"free"},
             st[t] \in {"notify", "queued"},
             Effect(t, s), by' = by
      PROVE  Goal
  <2>1. \A e \in Execs : Live(e) => e[1] # t
    BY <1>3 DEF Inv, StartedInOrder
  <2> QED BY <1>3, <2>1, ForestGoesOn DEF Effect, Over
<1>4. ASSUME NEW t \in Trig, Notified(t) PROVE Goal
  <2>1. st[t] = "notify" /\ key[t] \in Keys /\ by' = by
    BY <1>4 DEF Notified, Inv, KeyKnown, trigVars
  <2>2. PICK s \in TrigStates \ {"free"} : Effect(t, s)
    BY <2>1, <1>4, ProcessTriggerEffect DEF Notified, Inv, TrigStates
  <2> QED BY <2>1, <2>2, <1>3
<1>5. CASE Dequeue
  <2> DEFINE t == Head(queue)
  <2>1. queue # <<>> /\ queue \in Seq(Trig) /\ by' = by
    BY <1>5 DEF Dequeue, Inv, TypeOK, trigVars
  <2>2. t \in Trig /\ t = queue[1] /\ 1 \in 1 .. Len(queue)
    BY <2>1
  <2>3. st[t] = "queued"
    BY <2>2 DEF Inv, QueueIsQueued
  <2>4. key[t] \in Keys
    BY <2>2, <2>3 DEF Inv, KeyKnown
  <2>5. Effect(t, IF HasWork(key[t]) THEN "running" ELSE "settled")
    BY <1>5, <2>2, <2>3, <2>4, ProcessTriggeredRulesEffect DEF Dequeue, Inv
  <2> QED BY <2>1, <2>2, <2>3, <2>5, <1>3 DEF TrigStates
<1>6. ASSUME NEW t \in Trig, ChunkDone(t) PROVE Goal
  <2>1. st[t] = "running" /\ ~Over(t) /\ by' = by /\ next[t] \in Nat
    BY <1>6 DEF ChunkDone, Over, trigVars, Inv, TypeOK
  <2>2. \A e \in Execs : Live(e) => e[1] # t
    <3> SUFFICES ASSUME NEW e \in Execs, Live(e), e[1] = t PROVE FALSE
      OBVIOUS
    <3>1. e = <<t, e[2]>> /\ e[2] \in Positions /\ ex[e] # "none"
      BY DEF Execs, Live
    <3>2. e[2] \in 1 .. next[t]
      BY <3>1, <2>1 DEF Inv, StartedInOrder, Positions
    <3> QED BY <1>6, <3>1, <3>2 DEF ChunkDone, Live
  <2>3. PICK s \in {"running", "settled"} : st' = [st EXCEPT ![t] = s]
    BY <1>6 DEF ChunkDone, StartChunk, SettleAs
  <2> QED BY <2>1, <2>2, <2>3, ForestGoesOn DEF TrigStates
<1>7. ASSUME st' = st, by' = by PROVE Goal
  BY <1>7 DEF Status, Parent, Over
<1>8. CASE Environment
  <2>1. ASSUME NEW t \in Trig, NEW k \in Topics, Emit(t, k) PROVE Goal
    BY <2>1, <1>1 DEF Emit
  <2>2. ASSUME NEW t \in Trig, NEW k \in Facts, SetFact(t, k) PROVE Goal
    BY <2>2, <1>2 DEF SetFact, Keys
  <2>3. ASSUME NEW t \in Trig, NEW k \in Timers, TimerExpired(t, k) PROVE Goal
    BY <2>3, <1>2 DEF TimerExpired, Keys
  <2>4. CASE StopCalled \/ ReloadAwaits
    BY <2>4, <1>7 DEF StopCalled, ReloadAwaits, trigVars, startVars
  <2> QED BY <1>8, <2>1, <2>2, <2>3, <2>4 DEF Environment
<1>9. CASE Engine
  <2>1. ASSUME NEW d \in Trig, NEW t \in Trig, TimerEmit(d, t) PROVE Goal
    BY <2>1, <1>1 DEF TimerEmit
  <2>2. ASSUME NEW e \in Execs, NEW t \in Trig, LookupEmits(e, t) PROVE Goal
    BY <2>2, <1>1 DEF LookupEmits, Live
  <2>3. ASSUME NEW e \in Execs, NEW t \in Trig, ExecuteEmit(e, t) PROVE Goal
    BY <2>3, <1>1 DEF ExecuteEmit, Live
  <2>4. ASSUME NEW e \in Execs,
               \/ LookupsResolved(e) \/ ExecuteOther(e) \/ EmitReturns(e)
               \/ RuleExecuted(e) \/ RuleRejected(e)
        PROVE  Goal
    BY <2>4, <1>7
    DEF LookupsResolved, ExecuteOther, EmitReturns, RuleExecuted, RuleRejected, LeaveRule,
        trigVars, startVars
  <2>5. CASE StopAwaits \/ StopReturns \/ ReloadApplies
    BY <2>5, <1>7 DEF StopAwaits, StopReturns, ReloadApplies, trigVars, startVars
  <2> QED BY <1>9, <1>4, <1>5, <1>6, <2>1, <2>2, <2>3, <2>4, <2>5 DEF Engine
<1>10. CASE UNCHANGED vars
  BY <1>10, <1>7 DEF vars, trigVars, startVars
<1> QED BY <1>8, <1>9, <1>10 DEF Next, Idle

\* Trigger processing implements Cascade: an emit, setFact or emit_event
\* returns after the whole cascade below it is over.
THEOREM CascadeImplemented == Spec => RefinesCascade
<1>1. Init => Forest!Init
  BY DEF Init, Forest!Init, Status, Parent, Over, External
<1>2. Inv /\ [Next]_vars => [Forest!Next]_<<Status, Parent>>
  BY ForestStep
<1> QED BY <1>1, <1>2, InvHolds, PTL DEF Spec, RefinesCascade, Forest!Spec

-----------------------------------------------------------------------------
(* After stop() has been called, nothing new begins. *)

LEMMA StoppedStarts ==
    ASSUME TypeOK, ~running, NEW t \in Trig, NEW k,
           ProcessTriggeredRules(t, k) \/ ProcessTrigger(t, k)
    PROVE  \A u \in Trig : st'[u] = "running" => st[u] = "running"
<1>1. PICK s \in {"settled", "dropped", "queued"} : st' = [st EXCEPT ![t] = s]
  BY DEF ProcessTriggeredRules, ProcessTrigger, HasWork, SettleAs
<1> QED BY <1>1 DEF TypeOK

LEMMA StoppedStep ==
    ASSUME Inv, [Next]_vars, ~running, NEW u \in Trig, st'[u] = "running"
    PROVE  st[u] = "running"
<1>0. st \in [Trig -> TrigStates] /\ TypeOK
  BY DEF Inv, TypeOK
<1>1. ASSUME NEW t \in Trig, SettleAs(t, "notify") PROVE st[u] = "running"
  BY <1>0, <1>1 DEF SettleAs
<1>2. CASE Environment
  BY <1>2 DEF Environment, Emit, SetFact, TimerExpired, StopCalled, ReloadAwaits, startVars
<1>3. ASSUME NEW t \in Trig, Notified(t) PROVE st[u] = "running"
  BY <1>0, <1>3, StoppedStarts DEF Notified
<1>4. CASE Dequeue
  <2>1. queue # <<>> /\ queue \in Seq(Trig)
    BY <1>0, <1>4 DEF Dequeue, TypeOK
  <2>2. Head(queue) \in Trig
    BY <2>1
  <2> QED BY <1>0, <1>4, <2>2, StoppedStarts DEF Dequeue
<1>5. ASSUME NEW t \in Trig, ChunkDone(t) PROVE st[u] = "running"
  BY <1>0, <1>5 DEF ChunkDone, StartChunk, SettleAs
<1>6. ASSUME NEW d \in Trig, NEW t \in Trig, TimerEmit(d, t) PROVE st[u] = "running"
  BY <1>1, <1>6 DEF TimerEmit, HandleInternalEvent
<1>7. ASSUME NEW e \in Execs, NEW t \in Trig, LookupEmits(e, t) \/ ExecuteEmit(e, t)
      PROVE  st[u] = "running"
  BY <1>1, <1>7 DEF LookupEmits, ExecuteEmit, HandleInternalEvent
<1>8. CASE st' = st
  BY <1>8
<1>9. ASSUME NEW e \in Execs,
             \/ LookupsResolved(e) \/ ExecuteOther(e) \/ EmitReturns(e)
               \/ RuleExecuted(e) \/ RuleRejected(e)
      PROVE  st[u] = "running"
  BY <1>9, <1>8
  DEF LookupsResolved, ExecuteOther, EmitReturns, RuleExecuted, RuleRejected, LeaveRule,
      startVars
<1>10. CASE StopAwaits \/ StopReturns \/ ReloadApplies
  BY <1>10, <1>8 DEF StopAwaits, StopReturns, ReloadApplies, startVars
<1>11. CASE UNCHANGED vars
  BY <1>11, <1>8 DEF vars, startVars
<1> QED
  BY <1>2, <1>3, <1>4, <1>5, <1>6, <1>7, <1>9, <1>10, <1>11 DEF Next, Engine, Idle

\* Once stop() has been called no trigger begins to be processed: queued
\* triggers, events being notified and events of timers and rules are let go.
THEOREM StoppedBeginsNothing == Spec => NothingBeginsStopped
<1>1. Inv /\ [Next]_vars
        => [~running => \A t \in Trig : st'[t] = "running" => st[t] = "running"]_vars
  BY StoppedStep
<1> QED BY <1>1, InvHolds, PTL DEF Spec, NothingBeginsStopped

-----------------------------------------------------------------------------
(* On top of Inv: the order of chunks, the bound on nesting, and what those  *)
(* who await the chain find when they go on.                                 *)

\* Chunks start at multiples of the concurrency, the last one may be short.
AtBoundary(t) ==
    \/ next[t] = 0
    \/ /\ next[t] <= Len(Matching[key[t]])
       /\ \/ next[t] = Len(Matching[key[t]])
          \/ \E q \in Nat : next[t] = q * MaxConcurrency

ChunksInOrder ==
    /\ \A t \in Trig : AtBoundary(t)
    /\ ChunkBarrier

\* Whoever awaits the chain up to tail has it before him, or it is processed
\* and no link after it has started.
Ahead(tail) ==
    IF tail = None
      THEN active = None
      ELSE \/ st[tail] = "queued"
           \/ tail = active
           \/ Over(tail) /\ active = None

ChainSound ==
    /\ active # None => st[active] = "running"
    /\ stop # "no" => ~running
    /\ stop = "draining" => Ahead(stopTail)
    /\ stop = "stopped" => active = None
    /\ reload = "waiting" => Ahead(reloadTail)

Open(t) == st[t] \notin {"free", "settled", "dropped"}

\* The executions that a trigger is nested in: each awaits the trigger itself
\* or one that another of them belongs to.
Path(t, S) ==
    /\ \A e \in S :
         /\ Live(e)
         /\ wait[e] \in Trig
         /\ Open(wait[e])
         /\ wait[e] = t \/ \E f \in S : f[1] = wait[e]
    /\ level[t] = Cardinality(S \cap Acting)

Nested ==
    /\ \A t \in Trig : Open(t) => \E S \in SUBSET Execs : Path(t, S)
    /\ \A t \in Trig : st[t] = "queued" => level[t] = 0
    /\ NestingBounded

OrderInv == ChunksInOrder /\ ChainSound /\ Nested

-----------------------------------------------------------------------------
(* Chunks. *)

LEMMA DivBetween ==
    ASSUME NEW x \in Nat, NEW y \in Nat, NEW m \in Nat \ {0}, x \div m < y \div m
    PROVE  \E q \in Nat : x < q * m /\ q * m <= y
<1>1. (x \div m) \in Nat /\ (y \div m) \in Nat
  OBVIOUS
<1>2. (y \div m) * m <= y /\ x < ((x \div m) + 1) * m
  OBVIOUS
<1>3. \A v, w \in Nat : v <= w => v * m <= w * m
  OBVIOUS
<1>4. (x \div m) + 1 \in Nat /\ (x \div m) + 1 <= y \div m
  BY <1>1
<1>5. ((x \div m) + 1) * m <= (y \div m) * m
  BY <1>1, <1>3, <1>4
<1>6. ((x \div m) + 1) * m \in Nat /\ (y \div m) * m \in Nat
  BY <1>1, <1>4
<1> DEFINE lo == ((x \div m) + 1) * m
           hi == (y \div m) * m
<1>7. x < hi /\ hi <= y
  <2>1. hi <= y /\ x < lo /\ lo <= hi /\ lo \in Nat /\ hi \in Nat
    BY <1>2, <1>5, <1>6
  <2> HIDE DEF lo, hi
  <2> QED BY <2>1
<1> QED BY <1>1, <1>7

\* Multiples of m that lie within one chunk's length are the same.
LEMMA MultiplesApart ==
    ASSUME NEW m \in Nat \ {0}, NEW p \in Nat, NEW q \in Nat, p * m < q * m
    PROVE  p * m + m <= q * m
<1>1. p < q
  <2>1. \A v, w \in Nat : v <= w => v * m <= w * m
    OBVIOUS
  <2>2. p * m \in Nat /\ q * m \in Nat
    OBVIOUS
  <2> QED BY <2>1, <2>2
<1>2. \A v, w \in Nat : v <= w => v * m <= w * m
  OBVIOUS
<1>3. (p + 1) * m <= q * m
  BY <1>1, <1>2
<1>4. (p + 1) * m = p * m + m
  OBVIOUS
<1> QED BY <1>3, <1>4

\* Positions in chunks before that of y, which begins at q * m or earlier.
LEMMA EarlierChunk ==
    ASSUME NEW x \in Nat, NEW y \in Nat, NEW m \in Nat \ {0}, NEW q \in Nat,
           x \div m < y \div m, y < q * m + m
    PROVE  x < q * m
<1>1. PICK r \in Nat : x < r * m /\ r * m <= y
  BY DivBetween
<1> DEFINE lo == q * m
           hi == r * m
<1>2. lo \in Nat /\ hi \in Nat
  OBVIOUS
<1>3. lo < hi => lo + m <= hi
  BY MultiplesApart
<1>4. x < hi /\ hi <= y /\ y < lo + m
  BY <1>1
<1> HIDE DEF lo, hi
<1>5. x < lo
  BY <1>2, <1>3, <1>4
<1> QED BY <1>5 DEF lo

\* A chunk starts when all before it are done.
LEMMA StartChunkOrder ==
    ASSUME Inv, ChunksInOrder,
           NEW t \in Trig, NEW k \in Keys,
           next[t] = 0 \/ (k = key[t] /\ next[t] < Len(Matching[k])),
           \A i \in 1 .. next[t] : ex[<<t, i>>] = "done",
           StartChunk(t, k, next[t]),
           key' \in [Trig -> Keys \cup {Other}], key'[t] = k,
           \A u \in Trig : key'[u] = key[u] \/ (next[u] = 0 /\ u = t)
    PROVE  ChunksInOrder'
<1> DEFINE from == next[t]
           upto == Min2(from + MaxConcurrency, Len(Matching[k]))
           chunk == (from + 1) .. upto
           looking == {i \in chunk : Matching[k][i] \in LookupRules}
<1>1. PICK pass \in SUBSET (chunk \ looking) :
          /\ next' = [next EXCEPT ![t] = upto]
          /\ ex' = [e \in Execs |->
                      IF e[1] = t /\ e[2] \in chunk
                        THEN IF e[2] \in looking THEN "lookup"
                             ELSE IF e[2] \in pass THEN "acting" ELSE "done"
                        ELSE ex[e]]
  BY DEF StartChunk
<1>2. /\ from \in Nat
      /\ MaxConcurrency \in Nat \ {0}
      /\ Len(Matching[k]) \in Nat
      /\ next \in [Trig -> Nat]
      /\ ex \in [Execs -> ExecStates]
  BY DispatchAssumption DEF Inv, TypeOK, DispatchAssumption
<1>3. PICK q \in Nat : from = q * MaxConcurrency
  <2>1. CASE from = 0
    <3>1. from = 0 * MaxConcurrency
      BY <2>1, <1>2
    <3> QED BY <3>1
  <2>2. CASE from # 0
    <3>1. AtBoundary(t) /\ from < Len(Matching[key[t]])
      BY <2>2 DEF ChunksInOrder
    <3> QED BY <2>2, <3>1, <1>2 DEF AtBoundary
  <2> QED BY <2>1, <2>2
<1>4. upto \in Nat /\ upto <= Len(Matching[k]) /\ upto <= from + MaxConcurrency
      /\ (upto = Len(Matching[k]) \/ upto = from + MaxConcurrency)
  BY <1>2 DEF Min2
<1>5. ASSUME NEW u \in Trig PROVE AtBoundary(u)'
  <2>1. CASE u = t
    <3>1. next'[u] = upto /\ key'[u] = k
      BY <2>1, <1>1, <1>2
    <3>2. from + MaxConcurrency = (q + 1) * MaxConcurrency
      BY <1>2, <1>3
    <3> QED BY <3>1, <3>2, <1>4 DEF AtBoundary
  <2>2. CASE u # t
    <3>1. next'[u] = next[u] /\ key'[u] = key[u]
      BY <2>2, <1>1, <1>2
    <3> QED BY <3>1 DEF ChunksInOrder, AtBoundary
  <2> QED BY <2>1, <2>2
<1>6. ChunkBarrier'
  <2> SUFFICES ASSUME NEW u \in Trig, NEW i \in Positions, NEW j \in Positions,
                      (i - 1) \div MaxConcurrency < (j - 1) \div MaxConcurrency,
                      ex'[<<u, j>>] # "none"
               PROVE  ex'[<<u, i>>] = "done"
    BY DEF ChunkBarrier
  <2>1. i \in Nat \ {0} /\ j \in Nat \ {0} /\ i - 1 \in Nat /\ j - 1 \in Nat
    BY PositionsFinite DEF Positions
  <2>2. <<u, i>> \in Execs /\ <<u, j>> \in Execs
    BY DEF Execs
  <2>3. CASE ex[<<u, j>>] # "none"
    <3>1. ex[<<u, i>>] = "done"
      BY <2>3 DEF ChunksInOrder, ChunkBarrier
    <3>2. i <= next[u]
      BY <3>1, <2>2 DEF Inv, StartedInOrder
    <3>3. ~(u = t /\ i \in chunk)
      BY <3>2, <2>1, <1>2, <1>4
    <3> QED BY <3>1, <3>3, <2>2, <1>1
  <2>4. CASE ex[<<u, j>>] = "none"
    <3>1. u = t /\ j \in chunk
      BY <2>2, <2>4, <1>1
    <3>2. j - 1 < from + MaxConcurrency
      <4>1. j <= upto /\ upto <= from + MaxConcurrency
        BY <3>1, <1>4, <2>1
      <4>2. upto \in Nat /\ from + MaxConcurrency \in Nat /\ j \in Nat
        BY <1>2, <1>4, <2>1
      <4> HIDE DEF from, upto
      <4> QED BY <4>1, <4>2
    <3>3. i - 1 < from
      <4>1. j - 1 < q * MaxConcurrency + MaxConcurrency
        BY <3>2, <1>3
      <4>2. i - 1 < q * MaxConcurrency
        BY <4>1, <2>1, <1>2, EarlierChunk
      <4> QED BY <4>2, <1>3
    <3>4. i \in 1 .. from
      BY <3>3, <2>1, <1>2
    <3>5. ex[<<t, i>>] = "done" /\ ~(i \in chunk)
      BY <3>4, <2>1, <1>2, <1>4
    <3> QED BY <3>1, <3>5, <2>2, <1>1
  <2> QED BY <2>3, <2>4
<1> QED BY <1>5, <1>6 DEF ChunksInOrder

\* No chunk starts; an execution may only end or go on.
LEMMA OrderKept ==
    ASSUME Inv, ChunksInOrder,
           next' = next,
           \A u \in Trig : key'[u] = key[u] \/ next[u] = 0,
           \A e \in Execs : /\ ex'[e] = "none" <=> ex[e] = "none"
                            /\ ex[e] = "done" => ex'[e] = "done"
    PROVE  ChunksInOrder'
<1>1. \A t \in Trig : AtBoundary(t)'
  BY DEF ChunksInOrder, AtBoundary
<1>2. ChunkBarrier'
  BY DEF ChunksInOrder, ChunkBarrier, Execs
<1> QED BY <1>1, <1>2 DEF ChunksInOrder

LEMMA ProcessOrder ==
    ASSUME Inv, ChunksInOrder,
           NEW t \in Trig, NEW k \in Keys, next[t] = 0,
           ProcessTriggeredRules(t, k) \/ ProcessTrigger(t, k),
           key' \in [Trig -> Keys \cup {Other}], key'[t] = k,
           \A u \in Trig : key'[u] = key[u] \/ (next[u] = 0 /\ u = t)
    PROVE  ChunksInOrder'
<1>1. CASE StartChunk(t, k, 0)
  BY <1>1, StartChunkOrder
<1>2. CASE next' = next /\ ex' = ex
  BY <1>2, OrderKept
<1> QED BY <1>1, <1>2 DEF ProcessTriggeredRules, ProcessTrigger, SettleAs

\* A trigger that arises has not started, whatever its key was before.
LEMMA RaisedKey ==
    ASSUME Inv, NEW t, NEW k \in Keys, NEW origin, Raise(t, k, origin)
    PROVE  /\ t \in Trig /\ st[t] = "free" /\ next[t] = 0
           /\ key' \in [Trig -> Keys \cup {Other}] /\ key'[t] = k
           /\ \A u \in Trig : key'[u] = key[u] \/ (next[u] = 0 /\ u = t)
<1>1. t \in Trig /\ t = used + 1 /\ used \in Nat /\ key' = [key EXCEPT ![t] = k]
  BY DispatchAssumption DEF Raise, Inv, TypeOK, DispatchAssumption
<1>2. st[t] = "free"
  BY <1>1 DEF Inv, UsedTriggers, Trig
<1>3. next[t] = 0
  BY <1>1, <1>2 DEF Inv, StartedInOrder
<1> QED BY <1>1, <1>2, <1>3 DEF Inv, TypeOK

\* Every step keeps the order of the chunks.
LEMMA OrderStep == ASSUME Inv, ChunksInOrder, [Next]_vars PROVE ChunksInOrder'
<1> USE DispatchAssumption DEF DispatchAssumption
<1>1. ASSUME NEW t \in Trig, NEW k \in Keys, NEW origin, HandleInternalEvent(t, k, origin)
      PROVE  ChunksInOrder'
  <2>1. Raise(t, k, origin) /\ next' = next /\ ex' = ex
    BY <1>1 DEF HandleInternalEvent, SettleAs
  <2> QED BY <2>1, RaisedKey, OrderKept
<1>2. ASSUME NEW t \in Trig, NEW k \in Keys, Raise(t, k, External), ProcessTrigger(t, k)
      PROVE  ChunksInOrder'
  BY <1>2, RaisedKey, ProcessOrder
<1>3. ASSUME NEW t \in Trig, Notified(t) PROVE ChunksInOrder'
  <2>1. /\ next[t] = 0 /\ key[t] \in Keys /\ key' = key
        /\ key \in [Trig -> Keys \cup {Other}] /\ ProcessTrigger(t, key[t])
    BY <1>3 DEF Notified, Inv, StartedInOrder, KeyKnown, TypeOK, trigVars
  <2> QED BY <2>1, ProcessOrder
<1>4. CASE Dequeue
  <2> DEFINE t == Head(queue)
  <2>1. queue # <<>> /\ queue \in Seq(Trig)
    BY <1>4 DEF Dequeue, Inv, TypeOK
  <2>2. t \in Trig /\ t = queue[1] /\ 1 \in 1 .. Len(queue)
    BY <2>1
  <2>3. st[t] = "queued"
    BY <2>2 DEF Inv, QueueIsQueued
  <2>4. /\ next[t] = 0 /\ key[t] \in Keys /\ key' = key
        /\ key \in [Trig -> Keys \cup {Other}] /\ ProcessTriggeredRules(t, key[t])
    BY <1>4, <2>2, <2>3 DEF Dequeue, Inv, StartedInOrder, KeyKnown, TypeOK, trigVars
  <2> HIDE DEF t
  <2> QED BY <2>2, <2>4, ProcessOrder
<1>5. ASSUME NEW t \in Trig, ChunkDone(t) PROVE ChunksInOrder'
  <2>1. /\ st[t] = "running" /\ key[t] \in Keys /\ key' = key
        /\ key \in [Trig -> Keys \cup {Other}]
        /\ \A i \in 1 .. next[t] : ex[<<t, i>>] = "done"
    BY <1>5 DEF ChunkDone, Inv, KeyKnown, TypeOK, trigVars
  <2>2. CASE next[t] < Len(Matching[key[t]]) /\ StartChunk(t, key[t], next[t])
    BY <2>1, <2>2, StartChunkOrder
  <2>3. CASE next' = next /\ ex' = ex
    BY <2>1, <2>3, OrderKept
  <2> QED BY <1>5, <2>2, <2>3 DEF ChunkDone, SettleAs
<1>6. ASSUME NEW e \in Execs, NEW x \in {"done", "acting"}, ex[e] \in {"lookup", "acting"},
             ex' = [ex EXCEPT ![e] = x], next' = next, key' = key
      PROVE  ChunksInOrder'
  <2>1. ex \in [Execs -> ExecStates]
    BY DEF Inv, TypeOK
  <2>2. \A f \in Execs : /\ ex'[f] = "none" <=> ex[f] = "none"
                         /\ ex[f] = "done" => ex'[f] = "done"
    BY <1>6, <2>1
  <2> QED BY <1>6, <2>2, OrderKept
<1>7. ASSUME UNCHANGED <<next, ex, key>> PROVE ChunksInOrder'
  BY <1>7, OrderKept
<1>8. CASE Environment
  <2>1. ASSUME NEW t \in Trig, NEW k \in Topics, Emit(t, k) PROVE ChunksInOrder'
    BY <2>1, <1>1 DEF Emit, Keys
  <2>2. ASSUME NEW t \in Trig, NEW k \in Facts, SetFact(t, k) PROVE ChunksInOrder'
    BY <2>2, <1>2 DEF SetFact, Keys
  <2>3. ASSUME NEW t \in Trig, NEW k \in Timers, TimerExpired(t, k) PROVE ChunksInOrder'
    BY <2>3, <1>2 DEF TimerExpired, Keys
  <2>4. CASE StopCalled \/ ReloadAwaits
    BY <2>4, <1>7 DEF StopCalled, ReloadAwaits, trigVars, startVars
  <2> QED BY <1>8, <2>1, <2>2, <2>3, <2>4 DEF Environment
<1>9. CASE Engine
  <2>1. ASSUME NEW d \in Trig, NEW t \in Trig, TimerEmit(d, t) PROVE ChunksInOrder'
    <3>1. key[d] \in Timers
      BY <2>1 DEF TimerEmit, Inv, KeyKnown
    <3>2. OnExpire[key[d]] \in Keys
      BY <3>1 DEF Keys
    <3> QED BY <2>1, <3>2, <1>1 DEF TimerEmit
  <2>2. ASSUME NEW e \in Execs, NEW t \in Trig, LookupEmits(e, t) PROVE ChunksInOrder'
    BY <2>2, <1>1 DEF LookupEmits, Keys
  <2>3. ASSUME NEW e \in Execs, NEW t \in Trig, ExecuteEmit(e, t) PROVE ChunksInOrder'
    <3>1. CurrentAction(e) \in Keys
      BY <2>3 DEF ExecuteEmit, Keys
    <3> QED BY <2>3, <3>1, <1>1 DEF ExecuteEmit
  <2>4. ASSUME NEW e \in Execs, LookupsResolved(e) PROVE ChunksInOrder'
    BY <2>4, <1>6 DEF LookupsResolved, trigVars
  <2>5. ASSUME NEW e \in Execs, RuleExecuted(e) \/ RuleRejected(e) PROVE ChunksInOrder'
    BY <2>5, <1>6 DEF RuleExecuted, RuleRejected, LeaveRule, trigVars
  <2>6. ASSUME NEW e \in Execs, ExecuteOther(e) \/ EmitReturns(e) PROVE ChunksInOrder'
    BY <2>6, <1>7 DEF ExecuteOther, EmitReturns, trigVars, startVars
  <2>7. CASE StopAwaits \/ StopReturns \/ ReloadApplies
    BY <2>7, <1>7 DEF StopAwaits, StopReturns, ReloadApplies, trigVars, startVars
  <2> QED
    BY <1>9, <1>3, <1>4, <1>5, <2>1, <2>2, <2>3, <2>4, <2>5, <2>6, <2>7 DEF Engine
<1>10. CASE UNCHANGED vars
  BY <1>10, <1>7 DEF vars, trigVars, startVars
<1> QED BY <1>8, <1>9, <1>10 DEF Next, Idle

-----------------------------------------------------------------------------
(* The chain, and those who await it. *)

\* A trigger that is not the link being processed, and not in the chain, goes
\* on.
LEMMA AheadKept ==
    ASSUME Inv, ChainSound,
           NEW t \in Trig, NEW s \in TrigStates,
           st[t] \notin {"queued", "settled", "dropped"}, t # active,
           st' = [st EXCEPT ![t] = s], active' = active,
           UNCHANGED ctrlVars
    PROVE  ChainSound'
<1>1. /\ st \in [Trig -> TrigStates] /\ active \in Trig \cup {None}
      /\ stopTail \in Trig \cup {None} /\ reloadTail \in Trig \cup {None}
  BY DEF Inv, TypeOK
<1>2. ASSUME NEW tail \in Trig \cup {None}, Ahead(tail)
      PROVE  IF tail = None
               THEN active' = None
               ELSE \/ st'[tail] = "queued"
                    \/ tail = active'
                    \/ st'[tail] \in {"settled", "dropped"} /\ active' = None
  BY <1>1, <1>2 DEF Ahead, Over
<1>3. active' # None => st'[active'] = "running"
  BY <1>1 DEF ChainSound
<1>4. UNCHANGED <<running, stop, stopTail, reload, reloadTail>>
  BY DEF ctrlVars
<1>5. stop = "draining" => Ahead(stopTail)'
  BY <1>1, <1>2, <1>4 DEF ChainSound, Ahead, Over
<1>6. reload = "waiting" => Ahead(reloadTail)'
  BY <1>1, <1>2, <1>4 DEF ChainSound, Ahead, Over
<1> QED BY <1>3, <1>4, <1>5, <1>6 DEF ChainSound

\* Steps that neither start nor end a trigger and leave the chain alone.
LEMMA AheadSame ==
    ASSUME Inv, ChainSound, UNCHANGED <<st, active, ctrlVars>>
    PROVE  ChainSound'
BY DEF ChainSound, Ahead, Over, ctrlVars

\* The next link starts only when nobody who waits is ready.
LEMMA DequeueChain == ASSUME Inv, ChainSound, Dequeue PROVE ChainSound'
<1> DEFINE t == Head(queue)
           work == HasWork(key[t])
<1>1. queue # <<>> /\ queue \in Seq(Trig)
  BY DEF Dequeue, Inv, TypeOK
<1>2. t \in Trig /\ t = queue[1] /\ 1 \in 1 .. Len(queue)
  BY <1>1
<1>3. st[t] = "queued" /\ active = None /\ ~WaiterReady
  BY <1>2 DEF Dequeue, Inv, QueueIsQueued
<1>4. /\ st' = [st EXCEPT ![t] = IF work THEN "running" ELSE "settled"]
      /\ active' = IF work THEN t ELSE None
      /\ UNCHANGED <<running, stop, stopTail, reload, reloadTail>>
  BY DEF Dequeue, ProcessTriggeredRules, StartChunk, SettleAs, ctrlVars
<1>5. /\ st \in [Trig -> TrigStates]
      /\ stopTail \in Trig \cup {None} /\ reloadTail \in Trig \cup {None}
      /\ None \notin Trig
  BY DEF Inv, TypeOK, Trig, None
<1>6. work => running
  BY DEF HasWork
<1> HIDE DEF t, work
<1>7. ASSUME NEW tail \in Trig \cup {None}, Ahead(tail), ~Resolved(tail)
      PROVE  /\ tail # None
             /\ \/ st'[tail] = "queued"
                \/ tail = active'
                \/ st'[tail] \in {"settled", "dropped"} /\ active' = None
  <2>1. tail \in Trig /\ st[tail] = "queued"
    BY <1>3, <1>5, <1>7 DEF Ahead, Resolved
  <2>2. CASE tail = t
    BY <2>1, <2>2, <1>2, <1>4, <1>5
  <2>3. CASE tail # t
    BY <2>1, <2>3, <1>2, <1>4, <1>5
  <2> QED BY <2>1, <2>2, <2>3, <1>5
<1>8. active' # None => st'[active'] = "running" /\ running
  BY <1>2, <1>4, <1>5, <1>6
<1>9. stop = "draining" => Ahead(stopTail)'
  BY <1>3, <1>4, <1>5, <1>7 DEF ChainSound, Ahead, Over, WaiterReady
<1>10. reload = "waiting" => Ahead(reloadTail)'
  BY <1>3, <1>4, <1>5, <1>7 DEF ChainSound, Ahead, Over, WaiterReady
<1> QED BY <1>4, <1>8, <1>9, <1>10 DEF ChainSound

\* The link being processed is over: the chain is free.
LEMMA ChunkDoneChain == ASSUME Inv, ChainSound, NEW t \in Trig, ChunkDone(t) PROVE ChainSound'
<1>1. /\ st[t] = "running" /\ st \in [Trig -> TrigStates]
      /\ active \in Trig \cup {None} /\ None \notin Trig
      /\ stopTail \in Trig \cup {None} /\ reloadTail \in Trig \cup {None}
      /\ UNCHANGED <<running, stop, stopTail, reload, reloadTail>>
  BY DEF ChunkDone, Inv, TypeOK, Trig, None, ctrlVars
<1>2. CASE st' = [st EXCEPT ![t] = "running"] /\ active' = active
  <2>1. st' = st
    BY <1>1, <1>2
  <2> QED BY <2>1, <1>1, <1>2, AheadSame DEF ctrlVars
<1>3. CASE /\ st' = [st EXCEPT ![t] = "settled"]
           /\ active' = IF active = t THEN None ELSE active
  <2>1. CASE t # active
    <3>1. active' = active
      BY <2>1, <1>3
    <3> QED BY <2>1, <3>1, <1>1, <1>3, AheadKept DEF TrigStates, ctrlVars
  <2>2. CASE t = active
    <3>1. active' = None /\ st'[t] = "settled" /\ \A u \in Trig \ {t} : st'[u] = st[u]
      BY <2>2, <1>1, <1>3
    <3>2. ASSUME NEW tail \in Trig \cup {None}, Ahead(tail)
          PROVE  tail # None => \/ st'[tail] = "queued"
                                \/ st'[tail] \in {"settled", "dropped"}
      BY <2>2, <3>1, <3>2, <1>1 DEF Ahead, Over
    <3>3. stop = "draining" => Ahead(stopTail)'
      BY <3>1, <3>2, <1>1 DEF ChainSound, Ahead, Over
    <3>4. reload = "waiting" => Ahead(reloadTail)'
      BY <3>1, <3>2, <1>1 DEF ChainSound, Ahead, Over
    <3> QED BY <3>1, <3>3, <3>4, <1>1 DEF ChainSound
  <2> QED BY <2>1, <2>2
<1> QED BY <1>2, <1>3 DEF ChunkDone, StartChunk, SettleAs

\* The end of the chain is ahead of whoever begins to await it.
LEMMA ChainEndAhead == Inv /\ ChainSound => Ahead(ChainEnd)
<1> SUFFICES ASSUME Inv, ChainSound PROVE Ahead(ChainEnd)
  OBVIOUS
<1>1. queue \in Seq(Trig) /\ None \notin Trig
  BY DEF Inv, TypeOK, Trig, None
<1>2. CASE queue # <<>>
  <2>1. Len(queue) \in 1 .. Len(queue) /\ queue[Len(queue)] \in Trig
    BY <1>1, <1>2
  <2>2. st[queue[Len(queue)]] = "queued"
    BY <2>1 DEF Inv, QueueIsQueued
  <2> QED BY <1>1, <1>2, <2>1, <2>2 DEF ChainEnd, Ahead
<1>3. CASE queue = <<>>
  BY <1>3 DEF ChainEnd, Ahead
<1> QED BY <1>2, <1>3

LEMMA ControlChain ==
    ASSUME Inv, ChainSound,
           StopCalled \/ StopAwaits \/ StopReturns \/ ReloadAwaits \/ ReloadApplies
    PROVE  ChainSound'
<1>1. UNCHANGED <<st, active>>
  BY DEF StopCalled, StopAwaits, StopReturns, ReloadAwaits, ReloadApplies,
         startVars, chainVars
<1>2. Ahead(ChainEnd) /\ ChainEnd \in Trig \cup {None}
  BY ChainEndAhead, ChainEndType DEF Inv
<1>3. CASE StopCalled
  BY <1>1, <1>3 DEF StopCalled, ChainSound, Ahead, Over
<1>4. CASE StopAwaits
  BY <1>1, <1>2, <1>4 DEF StopAwaits, ChainSound, Ahead, Over
<1>5. CASE StopReturns
  <2>1. active = None
    BY <1>5 DEF StopReturns, ChainSound, Ahead, Over, Resolved
  <2> QED BY <1>1, <1>5, <2>1 DEF StopReturns, ChainSound, Ahead, Over
<1>6. CASE ReloadAwaits
  BY <1>1, <1>2, <1>6 DEF ReloadAwaits, ChainSound, Ahead, Over
<1>7. CASE ReloadApplies
  BY <1>1, <1>7 DEF ReloadApplies, ChainSound, Ahead, Over
<1> QED BY <1>3, <1>4, <1>5, <1>6, <1>7

LEMMA ChainStep == ASSUME Inv, ChainSound, [Next]_vars PROVE ChainSound'
<1>1. ASSUME NEW t \in Trig, NEW s \in TrigStates, st[t] \in {"free", "notify"},
             st' = [st EXCEPT ![t] = s], active' = active, UNCHANGED ctrlVars
      PROVE  ChainSound'
  <2>1. t # active
    BY <1>1 DEF ChainSound, Trig, None
  <2> QED BY <1>1, <2>1, AheadKept
<1>2. ASSUME NEW t, NEW k \in Keys, NEW origin, HandleInternalEvent(t, k, origin),
             UNCHANGED ctrlVars
      PROVE  ChainSound'
  <2>1. t \in Trig /\ st[t] = "free"
    BY <1>2, RaisedKey DEF HandleInternalEvent
  <2> QED BY <1>2, <2>1, <1>1 DEF HandleInternalEvent, SettleAs, chainVars, TrigStates
<1>3. ASSUME NEW t \in Trig, NEW k \in Keys, st[t] \in {"free", "notify"},
             ProcessTrigger(t, k), UNCHANGED ctrlVars
      PROVE  ChainSound'
  <2>1. PICK s \in TrigStates : st' = [st EXCEPT ![t] = s] /\ active' = active
    BY <1>3 DEF ProcessTrigger, ProcessTriggeredRules, StartChunk, SettleAs,
                chainVars, TrigStates
  <2> QED BY <1>1, <1>3, <2>1
<1>4. ASSUME UNCHANGED <<st, active, ctrlVars>> PROVE ChainSound'
  BY <1>4, AheadSame
<1>5. CASE Environment
  <2>1. ASSUME NEW t \in Trig, NEW k \in Topics, Emit(t, k) PROVE ChainSound'
    BY <2>1, <1>2 DEF Emit, Keys
  <2>2. ASSUME NEW t \in Trig, NEW k \in Facts, SetFact(t, k) PROVE ChainSound'
    BY <2>2, <1>3, RaisedKey DEF SetFact, Keys
  <2>3. ASSUME NEW t \in Trig, NEW k \in Timers, TimerExpired(t, k) PROVE ChainSound'
    BY <2>3, <1>3, RaisedKey DEF TimerExpired, Keys
  <2>4. CASE StopCalled \/ ReloadAwaits
    BY <2>4, ControlChain
  <2> QED BY <1>5, <2>1, <2>2, <2>3, <2>4 DEF Environment
<1>6. CASE Engine
  <2> USE DispatchAssumption DEF DispatchAssumption
  <2>1. ASSUME NEW d \in Trig, NEW t \in Trig, TimerEmit(d, t) PROVE ChainSound'
    <3>1. key[d] \in Timers
      BY <2>1 DEF TimerEmit, Inv, KeyKnown
    <3>2. OnExpire[key[d]] \in Keys
      BY <3>1 DEF Keys
    <3> QED BY <2>1, <3>2, <1>2 DEF TimerEmit
  <2>2. ASSUME NEW e \in Execs, NEW t \in Trig, LookupEmits(e, t) PROVE ChainSound'
    BY <2>2, <1>2 DEF LookupEmits, Keys
  <2>3. ASSUME NEW e \in Execs, NEW t \in Trig, ExecuteEmit(e, t) PROVE ChainSound'
    <3>1. CurrentAction(e) \in Keys
      BY <2>3 DEF ExecuteEmit, Keys
    <3> QED BY <2>3, <3>1, <1>2 DEF ExecuteEmit
  <2>4. ASSUME NEW t \in Trig, Notified(t) PROVE ChainSound'
    <3>1. key[t] \in Keys
      BY <2>4 DEF Notified, Inv, KeyKnown
    <3> QED BY <2>4, <3>1, <1>3 DEF Notified
  <2>5. ASSUME NEW e \in Execs,
               \/ LookupsResolved(e) \/ ExecuteOther(e) \/ EmitReturns(e)
               \/ RuleExecuted(e) \/ RuleRejected(e)
        PROVE  ChainSound'
    BY <2>5, <1>4
    DEF LookupsResolved, ExecuteOther, EmitReturns, RuleExecuted, RuleRejected, LeaveRule,
        startVars, chainVars
  <2>6. CASE StopAwaits \/ StopReturns \/ ReloadApplies
    BY <2>6, ControlChain
  <2> QED
    BY <1>6, <2>1, <2>2, <2>3, <2>4, <2>5, <2>6, DequeueChain, ChunkDoneChain DEF Engine
<1>7. CASE UNCHANGED vars
  BY <1>7, <1>4 DEF vars, startVars, chainVars
<1> QED BY <1>5, <1>6, <1>7 DEF Next, Idle

-----------------------------------------------------------------------------
(* Nesting. *)

LEMMA LevelAtMostDepth ==
    ASSUME Inv, Nested, NEW t \in Trig, Open(t)
    PROVE  level[t] \in Nat /\ depth \in Nat /\ level[t] <= depth
<1>1. PICK S \in SUBSET Execs : Path(t, S)
  BY DEF Nested
<1>2. IsFiniteSet(Acting) /\ depth = Cardinality(Acting)
  BY PositionsFinite, FS_Subset DEF Acting, Inv, DepthIsActing
<1>3. level[t] = Cardinality(S \cap Acting)
  BY <1>1 DEF Path
<1>4. IsFiniteSet(S \cap Acting) /\ Cardinality(S \cap Acting) <= Cardinality(Acting)
  BY <1>2, FS_Subset
<1> QED BY <1>2, <1>3, <1>4, FS_CardinalityType

\* Executions that a trigger is nested in await something that is not over.
LEMMA PathAwaits ==
    ASSUME NEW t, NEW S, Path(t, S), NEW e \in S
    PROVE  Live(e) /\ wait[e] # None /\ ~Over(wait[e])
BY DEF Path, Open, Over, Trig, None

\* A trigger goes on to state s; what it was nested in stays.
LEMMA NestedProgress ==
    ASSUME Inv, Nested,
           NEW t \in Trig, NEW s \in TrigStates,
           st' = [st EXCEPT ![t] = s],
           \A e \in Execs : ex[e] # "none" => ex'[e] = ex[e],
           UNCHANGED <<wait, level>>,
           Open(t),
           s \in {"settled", "dropped", "free"} => \A e \in Execs : Live(e) => e[1] # t,
           s = "running" => level[t] < MaxForwardDepth,
           s = "queued" => level[t] = 0
    PROVE  Nested'
<1>1. st \in [Trig -> TrigStates]
  BY DEF Inv, TypeOK
<1>2. ASSUME NEW m \in Trig, Open(m)'
      PROVE  \E S \in SUBSET Execs : Path(m, S)'
  <2>1. Open(m)
    BY <1>1, <1>2 DEF Open
  <2>2. PICK S \in SUBSET Execs : Path(m, S)
    BY <2>1 DEF Nested
  <2>3. \A e \in S : ex'[e] = ex[e] /\ Live(e)
    BY <2>2 DEF Path, Live
  <2>4. \A e \in Execs : ex[e] = "acting" => ex'[e] = "acting"
    OBVIOUS
  <2>5. S \cap Acting' = S \cap Acting
    BY <2>3 DEF Acting
  <2>6. ASSUME NEW e \in S PROVE Open(wait[e])'
    <3>1. wait[e] \in Trig /\ Open(wait[e])
      BY <2>2 DEF Path
    <3>2. wait[e] = t => s \notin {"settled", "dropped", "free"}
      <4> SUFFICES ASSUME wait[e] = t, s \in {"settled", "dropped", "free"} PROVE FALSE
        OBVIOUS
      <4>1. m # t
        BY <1>1, <1>2 DEF Open
      <4>2. PICK f \in S : f[1] = t
        BY <2>2, <4>1 DEF Path
      <4> QED BY <4>2, <2>3
    <3> QED BY <3>1, <3>2, <1>1 DEF Open
  <2>7. Path(m, S)'
    BY <2>2, <2>3, <2>5, <2>6 DEF Path, Live
  <2> QED BY <2>7
<1>3. \A m \in Trig : st'[m] = "queued" => level'[m] = 0
  BY <1>1 DEF Nested
<1>4. NestingBounded'
  BY <1>1 DEF Nested, NestingBounded
<1> QED BY <1>2, <1>3, <1>4 DEF Nested

\* An execution that nothing open is nested in goes on or ends.
LEMMA NestedExec ==
    ASSUME Inv, Nested,
           NEW e \in Execs, wait[e] = None \/ Over(wait[e]),
           \A f \in Execs \ {e} : ex'[f] = ex[f] /\ wait'[f] = wait[f],
           UNCHANGED <<st, level>>
    PROVE  Nested'
<1>1. ASSUME NEW m \in Trig, Open(m)'
      PROVE  \E S \in SUBSET Execs : Path(m, S)'
  <2>1. PICK S \in SUBSET Execs : Path(m, S)
    BY <1>1 DEF Nested, Open
  <2>2. e \notin S
    BY <2>1, PathAwaits
  <2>3. S \cap Acting' = S \cap Acting
    BY <2>2 DEF Acting
  <2>4. \A f \in S : ex'[f] = ex[f] /\ wait'[f] = wait[f]
    BY <2>2
  <2>5. \A f \in S : Live(f)' /\ wait'[f] \in Trig /\ Open(wait[f])'
    BY <2>1, <2>4 DEF Path, Live, Open
  <2>6. level'[m] = Cardinality(S \cap Acting')
    BY <2>1, <2>3 DEF Path
  <2>7. \A f \in S : wait'[f] = m \/ \E g \in S : g[1] = wait'[f]
    BY <2>1, <2>4 DEF Path
  <2>8. Path(m, S)'
    BY <2>5, <2>6, <2>7 DEF Path
  <2> QED BY <2>8
<1> QED BY <1>1 DEF Nested, NestingBounded

\* A trigger arises, nested in its origin and in what its origin is nested in.
LEMMA NestedRaise ==
    ASSUME Inv, Nested,
           NEW t, NEW k \in Keys, NEW s \in TrigStates,
           NEW origin \in Execs \cup {External},
           Raise(t, k, origin),
           st' = [st EXCEPT ![t] = s],
           \A e \in Execs : ex[e] # "none" => ex'[e] = ex[e],
           \/ origin = External /\ wait' = wait
           \/ /\ origin # External /\ s = "notify"
              /\ Live(origin)
              /\ wait[origin] = None
              /\ wait' = [wait EXCEPT ![origin] = t]
    PROVE  Nested'
<1> USE DispatchAssumption DEF DispatchAssumption
<1>1. /\ t \in Trig /\ st[t] = "free" /\ st \in [Trig -> TrigStates]
      /\ wait \in [Execs -> Trig \cup {None}]
      /\ level \in [Trig -> Nat] /\ ex \in [Execs -> ExecStates]
      /\ level' = [level EXCEPT ![t] =
                     IF origin = External THEN 0
                     ELSE level[origin[1]] + (IF ex[origin] = "acting" THEN 1 ELSE 0)]
  BY RaisedKey DEF Raise, Inv, TypeOK
<1>2. ASSUME NEW m \in Trig, NEW S \in SUBSET Execs, Path(m, S)
      PROVE  /\ \A e \in S : /\ Live(e)' /\ wait'[e] = wait[e] /\ Open(wait[e])'
                             /\ wait[e] \in Trig
                             /\ wait[e] = m \/ \E f \in S : f[1] = wait[e]
             /\ S \cap Acting' = S \cap Acting
             /\ origin \notin S
  <2>1. \A e \in S : ex'[e] = ex[e]
    BY <1>2 DEF Path, Live
  <2>2. origin \notin S
    BY <1>2, PathAwaits DEF External, None, Execs, Trig
  <2>3. \A e \in S : wait'[e] = wait[e]
    BY <2>2, <1>1
  <2>4. \A e \in S : wait[e] \in Trig /\ Open(wait[e])'
    BY <1>1, <1>2, <2>3 DEF Path, Open
  <2>5. S \cap Acting' = S \cap Acting
    BY <2>1 DEF Acting
  <2> QED BY <1>2, <2>1, <2>2, <2>3, <2>4, <2>5 DEF Path, Live
<1>3. ASSUME NEW m \in Trig, Open(m)', m # t
      PROVE  \E S \in SUBSET Execs : Path(m, S)'
  <2>1. PICK S \in SUBSET Execs : Path(m, S)
    BY <1>1, <1>3 DEF Nested, Open
  <2>2. level'[m] = level[m]
    BY <1>1, <1>3
  <2>3. S \cap Acting' = S \cap Acting /\ \A e \in S : wait'[e] = wait[e]
    BY <2>1, <1>2
  <2>4. level'[m] = Cardinality(S \cap Acting')
    BY <2>1, <2>2, <2>3 DEF Path
  <2>5. \A e \in S : Live(e)' /\ wait'[e] \in Trig /\ Open(wait[e])'
    BY <2>1, <2>3, <1>2
  <2>6. \A e \in S : wait'[e] = m \/ \E f \in S : f[1] = wait'[e]
    BY <2>1, <2>3 DEF Path
  <2>7. Path(m, S)'
    BY <2>4, <2>5, <2>6 DEF Path
  <2> QED BY <2>7
<1>4. CASE origin = External
  <2>1. level'[t] = 0
    BY <1>1, <1>4
  <2>2. Path(t, {})'
    <3>1. {} \cap Acting' = {}
      OBVIOUS
    <3> QED BY <2>1, <3>1, FS_EmptySet DEF Path
  <2>3. \A m \in Trig : Open(m)' => \E S \in SUBSET Execs : Path(m, S)'
    BY <1>3, <2>2
  <2>4. \A m \in Trig : st'[m] = "queued" => level'[m] = 0
    BY <1>1, <2>1 DEF Nested
  <2>5. NestingBounded'
    BY <1>1, <2>1 DEF Nested, NestingBounded
  <2> QED BY <2>3, <2>4, <2>5 DEF Nested
<1>5. CASE origin # External
  <2>0. origin \in Execs /\ origin[1] \in Trig
    BY <1>5 DEF Execs
  <2> PICK p \in Trig : p = origin[1]
    BY <2>0
  <2>1. p \in Trig /\ st[p] = "running" /\ Open(p) /\ origin \in Execs
    BY <1>5, <2>0 DEF Inv, StartedInOrder, Open
  <2>2. PICK S \in SUBSET Execs : Path(p, S)
    BY <2>1 DEF Nested
  <2>3. origin \notin S /\ wait' = [wait EXCEPT ![origin] = t] /\ s = "notify"
    BY <2>1, <2>2, <1>2, <1>5
  <2> DEFINE R == S \cup {origin}
  <2>4. ex'[origin] = ex[origin] /\ Live(origin) /\ Live(origin)'
    BY <2>1, <1>5 DEF Live
  <2>5. level'[t] = level[p] + (IF ex[origin] = "acting" THEN 1 ELSE 0)
    BY <1>1, <1>5
  <2>6. IsFiniteSet(S \cap Acting') /\ level[p] = Cardinality(S \cap Acting')
    <3>1. S \cap Acting' = S \cap Acting /\ level[p] = Cardinality(S \cap Acting)
      BY ZenonT(40), <2>1, <2>2, <1>2 DEF Path
    <3>2. IsFiniteSet(S \cap Acting)
      BY PositionsFinite, FS_Subset
    <3> QED BY <3>1, <3>2
  <2>7. level'[t] = Cardinality(R \cap Acting')
    <3>1. CASE ex[origin] = "acting"
      <4>1. R \cap Acting' = (S \cap Acting') \cup {origin}
        BY <3>1, <2>1, <2>4 DEF Acting
      <4>2. origin \notin S \cap Acting'
        BY <2>3
      <4>3. Cardinality((S \cap Acting') \cup {origin}) = Cardinality(S \cap Acting') + 1
        BY <2>6, <4>2, FS_AddElement
      <4> QED BY <3>1, <4>1, <4>3, <2>5, <2>6
    <3>2. CASE ex[origin] # "acting"
      <4>1. R \cap Acting' = S \cap Acting'
        BY <3>2, <2>4 DEF Acting
      <4>2. level'[t] = level[p]
        BY <3>2, <2>1, <2>5, <1>1
      <4> QED BY <4>1, <4>2, <2>6
    <3> QED BY <3>1, <3>2
  <2>8. \A e \in S :
          /\ Live(e)' /\ wait'[e] = wait[e] /\ Open(wait[e])' /\ wait[e] \in Trig
          /\ wait[e] = p \/ \E f \in S : f[1] = wait[e]
    BY <2>1, <2>2, <1>2 DEF Open, Live
  <2>9. ASSUME NEW e \in R
        PROVE  /\ Live(e)' /\ wait'[e] \in Trig /\ Open(wait[e])'
               /\ wait'[e] = t \/ \E f \in R : f[1] = wait'[e]
    <3>1. CASE e = origin
      <4>1. wait'[e] = t
        BY <3>1, <2>1, <2>3, <1>1
      <4>2. Open(wait[e])'
        BY <4>1, <1>1, <2>3 DEF Open
      <4> QED BY <3>1, <4>1, <4>2, <2>4, <1>1
    <3>2. CASE e \in S
      <4>1. /\ Live(e)' /\ wait'[e] = wait[e] /\ Open(wait[e])' /\ wait[e] \in Trig
            /\ wait[e] = p \/ \E f \in S : f[1] = wait[e]
        BY <2>8, <3>2 DEF Open, Live
      <4>2. \E f \in R : f[1] = wait[e]
        BY <4>1
      <4> QED BY <4>1, <4>2
    <3> QED BY <3>1, <3>2
  <2>10. Path(t, R)' /\ R \in SUBSET Execs
    BY <2>1, <2>7, <2>9 DEF Path
  <2>11. \A m \in Trig : Open(m)' => \E Q \in SUBSET Execs : Path(m, Q)'
    BY <1>3, <2>10
  <2>12. \A m \in Trig : st'[m] = "queued" => level'[m] = 0
    BY <1>1, <2>3 DEF Nested
  <2>13. NestingBounded'
    BY <1>1, <2>3 DEF Nested, NestingBounded
  <2> QED BY <2>11, <2>12, <2>13 DEF Nested
<1> QED BY <1>4, <1>5

\* Subscribers have returned: what runs at once is nested less deeply than the
\* limit, and what is queued is nested in nothing.
LEMMA NotifiedNested == ASSUME Inv, Nested, NEW t \in Trig, Notified(t) PROVE Nested'
<1>1. /\ st[t] = "notify" /\ key[t] \in Keys /\ ProcessTrigger(t, key[t])
      /\ UNCHANGED <<wait, level>>
  BY DEF Notified, Inv, KeyKnown, trigVars, execVars
<1>2. Open(t) /\ \A e \in Execs : Live(e) => e[1] # t
  BY <1>1 DEF Open, Inv, StartedInOrder
<1>3. level[t] \in Nat /\ depth \in Nat /\ level[t] <= depth
      /\ MaxForwardDepth \in Nat \ {0}
  BY <1>2, LevelAtMostDepth, DispatchAssumption DEF DispatchAssumption
<1>4. \A e \in Execs : ex[e] # "none" => ex'[e] = ex[e]
  BY <1>1, ProcessTriggerEffect DEF Inv, Effect
<1>5. CASE depth > 0 /\ depth >= MaxForwardDepth /\ SettleAs(t, "dropped")
  BY <1>1, <1>2, <1>4, <1>5, NestedProgress DEF SettleAs, TrigStates
<1>6. CASE depth < MaxForwardDepth /\ ProcessTriggeredRules(t, key[t])
  <2>1. PICK s \in {"running", "settled"} : st' = [st EXCEPT ![t] = s]
    BY <1>6 DEF ProcessTriggeredRules, StartChunk, SettleAs
  <2>2. level[t] < MaxForwardDepth
    BY <1>3, <1>6
  <2> QED BY <1>1, <1>2, <1>4, <2>1, <2>2, NestedProgress DEF TrigStates
<1>7. CASE depth = 0 /\ SettleAs(t, "queued")
  <2>1. level[t] = 0
    BY <1>3, <1>7
  <2> QED BY <1>1, <1>2, <1>4, <1>7, <2>1, NestedProgress DEF SettleAs, TrigStates
<1> QED BY <1>1, <1>5, <1>6, <1>7 DEF ProcessTrigger

LEMMA DequeueNested == ASSUME Inv, Nested, Dequeue PROVE Nested'
<1> DEFINE t == Head(queue)
<1>1. queue # <<>> /\ queue \in Seq(Trig)
  BY DEF Dequeue, Inv, TypeOK
<1>2. t \in Trig /\ t = queue[1] /\ 1 \in 1 .. Len(queue)
  BY <1>1
<1>3. st[t] = "queued"
  BY <1>2 DEF Inv, QueueIsQueued
<1>4. /\ key[t] \in Keys /\ ProcessTriggeredRules(t, key[t])
      /\ UNCHANGED <<wait, level>>
  BY <1>2, <1>3 DEF Dequeue, Inv, KeyKnown, trigVars, execVars
<1> HIDE DEF t
<1>5. Open(t) /\ \A e \in Execs : Live(e) => e[1] # t
  BY <1>2, <1>3 DEF Open, Inv, StartedInOrder
<1>6. level[t] < MaxForwardDepth
  BY <1>2, <1>3, DispatchAssumption DEF Nested, DispatchAssumption
<1>7. \A e \in Execs : ex[e] # "none" => ex'[e] = ex[e]
  BY <1>2, <1>3, <1>4, ProcessTriggeredRulesEffect DEF Inv, Effect
<1>8. PICK s \in {"running", "settled"} : st' = [st EXCEPT ![t] = s]
  BY <1>4 DEF ProcessTriggeredRules, StartChunk, SettleAs
<1> QED BY <1>2, <1>4, <1>5, <1>6, <1>7, <1>8, NestedProgress DEF TrigStates

LEMMA ChunkDoneNested == ASSUME Inv, Nested, NEW t \in Trig, ChunkDone(t) PROVE Nested'
<1>1. /\ st[t] = "running" /\ key[t] \in Keys /\ next[t] \in Nat
      /\ Len(Matching[key[t]]) \in Nat
      /\ UNCHANGED <<wait, level>>
  BY DispatchAssumption
  DEF ChunkDone, Inv, KeyKnown, TypeOK, DispatchAssumption, trigVars, execVars
<1>2. Open(t) /\ level[t] < MaxForwardDepth
  BY <1>1 DEF Open, Nested, NestingBounded
<1>3. \A e \in Execs : Live(e) => e[1] # t
  <2> SUFFICES ASSUME NEW e \in Execs, Live(e), e[1] = t PROVE FALSE
    OBVIOUS
  <2>1. e = <<t, e[2]>> /\ e[2] \in Positions /\ ex[e] # "none"
    BY DEF Execs, Live
  <2>2. e[2] \in 1 .. next[t]
    BY <2>1, <1>1 DEF Inv, StartedInOrder, Positions
  <2> QED BY <2>1, <2>2 DEF ChunkDone, Live
<1>4. PICK s \in {"running", "settled"} : st' = [st EXCEPT ![t] = s]
  BY DEF ChunkDone, StartChunk, SettleAs
<1>5. \A e \in Execs : ex[e] # "none" => ex'[e] = ex[e]
  <2>1. CASE next[t] < Len(Matching[key[t]])
    BY <2>1, <1>1, StartChunkEffect DEF ChunkDone, Inv, Effect
  <2>2. CASE ~(next[t] < Len(Matching[key[t]]))
    BY <2>2 DEF ChunkDone, SettleAs
  <2> QED BY <2>1, <2>2
<1> QED BY <1>1, <1>2, <1>3, <1>4, <1>5, NestedProgress DEF TrigStates

LEMMA NestedStep == ASSUME Inv, Nested, [Next]_vars PROVE Nested'
<1> USE DispatchAssumption DEF DispatchAssumption
<1>1. ASSUME NEW t \in Trig, NEW k \in Keys, NEW origin \in Execs \cup {External},
             HandleInternalEvent(t, k, origin),
             \/ origin = External /\ wait' = wait
             \/ /\ origin # External
                /\ Live(origin)
                /\ wait[origin] = None
                /\ wait' = [wait EXCEPT ![origin] = t]
      PROVE  Nested'
  <2>1. Raise(t, k, origin) /\ st' = [st EXCEPT ![t] = "notify"] /\ ex' = ex
    BY <1>1 DEF HandleInternalEvent, SettleAs
  <2> QED BY <1>1, <2>1, NestedRaise DEF TrigStates
<1>2. ASSUME NEW t \in Trig, NEW k \in Keys, Raise(t, k, External), ProcessTrigger(t, k),
             UNCHANGED execVars
      PROVE  Nested'
  <2>1. st[t] = "free" /\ wait' = wait
    BY <1>2, RaisedKey DEF execVars
  <2>2. PICK s \in TrigStates :
          /\ st' = [st EXCEPT ![t] = s]
          /\ \A e \in Execs : ex[e] # "none" => ex'[e] = ex[e]
    BY <2>1, <1>2, ProcessTriggerEffect DEF Inv, Effect, TrigStates
  <2> QED BY <1>2, <2>1, <2>2, NestedRaise
<1>3. ASSUME UNCHANGED <<st, ex, wait, level>> PROVE Nested'
  <2>1. st' = st /\ ex' = ex /\ wait' = wait /\ level' = level
    BY <1>3
  <2>2. Acting' = Acting /\ \A t : Open(t)' <=> Open(t)
    BY <2>1 DEF Acting, Open
  <2>3. \A t \in Trig, S \in SUBSET Execs : Path(t, S) => Path(t, S)'
    BY <2>1, <2>2 DEF Path, Live, Open
  <2> QED BY <2>1, <2>2, <2>3 DEF Nested, NestingBounded
<1>4. CASE Environment
  <2>1. ASSUME NEW t \in Trig, NEW k \in Topics, Emit(t, k) PROVE Nested'
    BY <2>1, <1>1 DEF Emit, Keys, execVars
  <2>2. ASSUME NEW t \in Trig, NEW k \in Facts, SetFact(t, k) PROVE Nested'
    BY <2>2, <1>2 DEF SetFact, Keys
  <2>3. ASSUME NEW t \in Trig, NEW k \in Timers, TimerExpired(t, k) PROVE Nested'
    BY <2>3, <1>2 DEF TimerExpired, Keys
  <2>4. CASE StopCalled \/ ReloadAwaits
    BY <2>4, <1>3 DEF StopCalled, ReloadAwaits, trigVars, startVars, execVars
  <2> QED BY <1>4, <2>1, <2>2, <2>3, <2>4 DEF Environment
<1>5. CASE Engine
  <2>1. ASSUME NEW d \in Trig, NEW t \in Trig, TimerEmit(d, t) PROVE Nested'
    <3>1. key[d] \in Timers
      BY <2>1 DEF TimerEmit, Inv, KeyKnown
    <3>2. OnExpire[key[d]] \in Keys
      BY <3>1 DEF Keys
    <3> QED BY <2>1, <3>2, <1>1 DEF TimerEmit, execVars
  <2>2. ASSUME NEW e \in Execs, NEW t \in Trig, LookupEmits(e, t) PROVE Nested'
    <3>1. LookupTopic \in Keys /\ Live(e) /\ e # External
      BY <2>2 DEF LookupEmits, Keys, Live, External, Execs, Trig, None
    <3> QED BY <2>2, <3>1, <1>1 DEF LookupEmits
  <2>3. ASSUME NEW e \in Execs, NEW t \in Trig, ExecuteEmit(e, t) PROVE Nested'
    <3>1. CurrentAction(e) \in Keys /\ Live(e) /\ e # External
      BY <2>3 DEF ExecuteEmit, Keys, Live, External, Execs, Trig, None
    <3> QED BY <2>3, <3>1, <1>1 DEF ExecuteEmit
  <2>4. ASSUME NEW e \in Execs, LookupsResolved(e) PROVE Nested'
    <3>1. wait[e] = None \/ Over(wait[e])
      BY <2>4 DEF LookupsResolved, Ready
    <3>2. \A f \in Execs \ {e} : ex'[f] = ex[f] /\ wait'[f] = wait[f]
      BY <2>4 DEF LookupsResolved, Inv, TypeOK
    <3> QED BY <2>4, <3>1, <3>2, NestedExec DEF LookupsResolved, trigVars
  <2>5. ASSUME NEW e \in Execs, EmitReturns(e) PROVE Nested'
    <3>1. \A f \in Execs \ {e} : ex'[f] = ex[f] /\ wait'[f] = wait[f]
      BY <2>5 DEF EmitReturns, Inv, TypeOK, startVars
    <3> QED BY <2>5, <3>1, NestedExec DEF EmitReturns, trigVars, startVars
  <2>6. ASSUME NEW e \in Execs, RuleExecuted(e) \/ RuleRejected(e) PROVE Nested'
    <3>1. \A f \in Execs \ {e} : ex'[f] = ex[f] /\ wait'[f] = wait[f]
      BY <2>6 DEF RuleExecuted, RuleRejected, LeaveRule, Inv, TypeOK, execVars
    <3> QED BY <2>6, <3>1, NestedExec DEF RuleExecuted, RuleRejected, LeaveRule, trigVars
  <2>7. CASE (\E e \in Execs : ExecuteOther(e)) \/ StopAwaits \/ StopReturns \/ ReloadApplies
    BY <2>7, <1>3
    DEF ExecuteOther, StopAwaits, StopReturns, ReloadApplies, trigVars, startVars, execVars
  <2> QED
    BY <1>5, <2>1, <2>2, <2>3, <2>4, <2>5, <2>6, <2>7, NotifiedNested, DequeueNested,
       ChunkDoneNested
    DEF Engine
<1>6. CASE UNCHANGED vars
  BY <1>6, <1>3 DEF vars, trigVars, startVars, execVars
<1> QED BY <1>4, <1>5, <1>6 DEF Next, Idle

-----------------------------------------------------------------------------
(* Theorems. *)

LEMMA InitOrder == Init => OrderInv
<1> SUFFICES ASSUME Init PROVE OrderInv
  OBVIOUS
<1>1. ChunksInOrder
  BY DEF Init, ChunksInOrder, AtBoundary, ChunkBarrier, Execs
<1>2. ChainSound
  BY DEF Init, ChainSound
<1>3. Nested
  BY DEF Init, Nested, NestingBounded, Open
<1> QED BY <1>1, <1>2, <1>3 DEF OrderInv

\* Every reachable state satisfies the three strengthenings.
THEOREM OrderInvHolds == Spec => []OrderInv
<1>1. Inv /\ OrderInv /\ [Next]_vars => OrderInv'
  BY OrderStep, ChainStep, NestedStep DEF OrderInv
<1> QED BY <1>1, InitOrder, InvHolds, PTL DEF Spec

\* While a rule of a trigger is not done, no rule of a later chunk of it has
\* started: the loop of processTriggeredRules awaits each chunk, whatever the
\* concurrency and whatever the rules of the chunk emit meanwhile.
THEOREM ChunksAwaited == Spec => []ChunkBarrier
<1>1. OrderInv => ChunkBarrier
  BY DEF OrderInv, ChunksInOrder
<1> QED BY <1>1, OrderInvHolds, PTL

\* No trigger is processed inside maxForwardDepth or more nested executions,
\* however many cascades share the one counter of the engine.
THEOREM RecursionBounded == Spec => []NestingBounded
<1>1. OrderInv => NestingBounded
  BY DEF OrderInv, Nested
<1> QED BY <1>1, OrderInvHolds, PTL

\* When stop() has returned, no link of the chain is being processed.
THEOREM QueueDrained == Spec => []StopDrainsQueue
<1>1. OrderInv => StopDrainsQueue
  BY DEF OrderInv, ChainSound, StopDrainsQueue
<1> QED BY <1>1, OrderInvHolds, PTL

\* A hot reload exchanges the rules between two links, however many triggers
\* are chained while it waits.
THEOREM ReloadedBetweenLinks == Spec => ReloadBetweenLinks
<1>1. ASSUME OrderInv, Next, reload' = "applied", reload # "applied"
      PROVE  active = None
  <2>1. ReloadApplies
    BY <1>1 DEF Next, Environment, Engine, Idle, Emit, SetFact, TimerExpired, StopCalled,
                ReloadAwaits, Notified, ChunkDone, TimerEmit, Dequeue, LookupsResolved,
                LookupEmits, ExecuteOther, ExecuteEmit, EmitReturns, RuleExecuted,
                RuleRejected, LeaveRule, StopAwaits, StopReturns, ctrlVars, vars
  <2>2. reload = "waiting" /\ Resolved(reloadTail) /\ Ahead(reloadTail)
    BY <2>1, <1>1 DEF ReloadApplies, OrderInv, ChainSound
  <2>3. reloadTail # None => active # reloadTail
    BY <2>2, <1>1 DEF Resolved, Over, OrderInv, ChainSound
  <2> QED BY <2>2, <2>3 DEF Ahead, Resolved, Over
<1>2. OrderInv /\ [Next]_vars
        => [reload' = "applied" /\ reload # "applied" => active = None]_vars
  BY <1>1
<1> QED BY <1>2, OrderInvHolds, PTL DEF Spec, ReloadBetweenLinks
=============================================================================
