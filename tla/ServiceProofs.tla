--------------------------- MODULE ServiceProofs ---------------------------
(***************************************************************************)
(* The services around the engine, for every number of them and every      *)
(* bound: the audit log, the facts and the baselines, lookups, webhooks,   *)
(* the event store, server-sent events and subscriptions.  Each has its    *)
(* inductive invariant, and a step of the services is one of one of them.  *)
(***************************************************************************)
EXTENDS Services, FiniteSetTheorems, SequenceTheorems, WellFoundedInduction, NaturalsInduction,
        TLAPS

-----------------------------------------------------------------------------
(* Sequences, finite sets and recursion *)

IsLog(s) == s \in Seq({s[k] : k \in DOMAIN s})

LEMMA LogIs ==
    ASSUME NEW s, IsLog(s)
    PROVE  Len(s) \in Nat /\ DOMAIN s = 1..Len(s)
BY LenProperties DEF IsLog

LEMMA LogGrows ==
    ASSUME NEW s, IsLog(s), NEW e
    PROVE  /\ IsLog(Append(s, e)) /\ Len(s) \in Nat /\ DOMAIN s = 1..Len(s)
           /\ DOMAIN Append(s, e) = 1..Len(s) + 1
           /\ \A k \in DOMAIN s : Append(s, e)[k] = s[k]
           /\ Append(s, e)[Len(s) + 1] = e
<1> DEFINE S == {s[k] : k \in DOMAIN s} \cup {e}
           t == Append(s, e)
<1>1. s \in Seq(S)
  BY SeqMonotonic DEF IsLog
<1>2. /\ t \in Seq(S) /\ Len(t) = Len(s) + 1 /\ \A k \in 1..Len(s) : t[k] = s[k]
      /\ t[Len(s) + 1] = e
  BY <1>1, AppendProperties
<1>3. DOMAIN s = 1..Len(s) /\ DOMAIN t = 1..Len(t) /\ Len(s) \in Nat
  BY <1>1, <1>2, LenProperties
<1>4. t \in Seq({t[k] : k \in DOMAIN t})
  BY <1>2, <1>3
<1> QED BY <1>2, <1>3, <1>4 DEF IsLog

LEMMA LogOfLength ==
    ASSUME NEW n \in Nat, NEW s, s = [k \in 1..n |-> s[k]]
    PROVE  IsLog(s) /\ Len(s) = n /\ DOMAIN s = 1..n
<1> DEFINE S == {s[k] : k \in DOMAIN s}
<1>1. DOMAIN s = 1..n
  OBVIOUS
<1>2. s \in [1..n -> S]
  BY <1>1
<1>3. s \in Seq(S)
  BY <1>2, SeqDef
<1>4. Len(s) = n
  BY <1>1, <1>3, LenProperties
<1> QED BY <1>1, <1>3, <1>4 DEF IsLog

LEMMA LogExcept ==
    ASSUME NEW s, IsLog(s), NEW i \in DOMAIN s, NEW e
    PROVE  /\ IsLog([s EXCEPT ![i] = e]) /\ Len([s EXCEPT ![i] = e]) = Len(s)
           /\ DOMAIN [s EXCEPT ![i] = e] = DOMAIN s
           /\ \A k \in DOMAIN s : [s EXCEPT ![i] = e][k] = IF k = i THEN e ELSE s[k]
<1> DEFINE t == [s EXCEPT ![i] = e]
<1>1. Len(s) \in Nat /\ DOMAIN s = 1..Len(s)
  BY LogIs
<1>2. DOMAIN t = 1..Len(s) /\ \A k \in DOMAIN s : t[k] = IF k = i THEN e ELSE s[k]
  BY <1>1
<1>3. t = [k \in 1..Len(s) |-> t[k]]
  BY <1>2
<1> HIDE DEF t
<1>4. IsLog(t) /\ Len(t) = Len(s)
  BY <1>1, <1>3, LogOfLength
<1> QED BY <1>1, <1>2, <1>4 DEF t

\* A nonempty set of natural numbers has a least element.
LEMMA Smallest ==
    ASSUME NEW S \in SUBSET Nat, S # {}
    PROVE  \E m \in S : \A k \in S : m <= k
<1> DEFINE R == OpToRel(<, Nat)
<1>1. IsWellFoundedOn(R, Nat)
  BY NatLessThanWellFounded
<1>2. PICK m \in S : \A k \in S : <<k, m>> \notin R
  <2> HIDE DEF R
  <2> QED BY <1>1, WFMin
<1>3. \A k \in S : ~(k < m)
  BY <1>2, Zenon DEF OpToRel
<1>4. \A k \in S : m <= k
  BY <1>3
<1> QED BY <1>4

\* And when it is finite, a greatest one.
LEMMA Greatest ==
    ASSUME NEW S \in SUBSET Nat, S # {}, IsFiniteSet(S)
    PROVE  \E m \in S : \A k \in S : k <= m
<1> DEFINE Bad == {T \in SUBSET S : T # {} /\ ~\E m \in T : \A k \in T : k <= m}
           Sizes == {Cardinality(T) : T \in Bad}
<1>1. SUFFICES ASSUME Bad # {} PROVE FALSE
  OBVIOUS
<1>2. \A T \in SUBSET S : IsFiniteSet(T) /\ Cardinality(T) \in Nat
  BY FS_Subset, FS_CardinalityType
<1>3. PICK n \in Sizes : \A k \in Sizes : n <= k
  <2>1. Sizes \in SUBSET Nat
    BY <1>2
  <2>2. Sizes # {}
    BY <1>1
  <2> HIDE DEF Sizes
  <2> QED BY <2>1, <2>2, Smallest
<1>4. PICK T \in Bad : Cardinality(T) = n
  BY <1>3
<1>5. PICK x \in T : TRUE
  OBVIOUS
<1> DEFINE U == T \ {x}
<1>6. U \in SUBSET S /\ Cardinality(U) < Cardinality(T)
  <2>1. T \in SUBSET S
    BY <1>4
  <2>2. IsFiniteSet(T) /\ Cardinality(T) \in Nat
    BY <1>2, <2>1
  <2>3. Cardinality(U) = Cardinality(T) - 1
    BY <1>5, <2>2, FS_RemoveElement
  <2>4. U \in SUBSET S
    BY <2>1
  <2> QED BY <2>2, <2>3, <2>4
<1>7. U \notin Bad
  <2>1. SUFFICES ASSUME U \in Bad PROVE FALSE
    OBVIOUS
  <2>2. Cardinality(U) \in Sizes
    BY <2>1
  <2>3. Cardinality(U) \in Nat /\ n \in Nat
    BY <1>2, <1>4, <1>6
  <2> HIDE DEF Sizes, U
  <2> QED BY <1>3, <1>4, <1>6, <2>2, <2>3
<1>8. CASE U = {}
  BY <1>5, <1>8
<1>9. CASE U # {}
  <2>1. PICK m \in U : \A k \in U : k <= m
    BY <1>6, <1>7, <1>9
  <2> DEFINE g == IF m >= x THEN m ELSE x
  <2>2. g \in T /\ \A k \in T : k <= g
    BY <2>1
  <2> QED BY <2>2
<1> QED BY <1>8, <1>9

\* The rank of an element of a finite set of numbers: how many are not greater.
LEMMA Ranks ==
    ASSUME NEW S \in SUBSET Nat, IsFiniteSet(S)
    PROVE  /\ \A i \in S : Cardinality({j \in S : j <= i}) \in 1..Cardinality(S)
           /\ \A i, k \in S :
                 Cardinality({j \in S : j <= i}) = Cardinality({j \in S : j <= k}) => i = k
<1> DEFINE upTo(i) == {j \in S : j <= i}
<1>1. \A i \in S : IsFiniteSet(upTo(i)) /\ upTo(i) \subseteq S /\ i \in upTo(i)
  BY FS_Subset
<1>2. \A i \in S : Cardinality(upTo(i)) \in 1..Cardinality(S)
  <2> TAKE i \in S
  <2>1. Cardinality(upTo(i)) \in Nat /\ Cardinality(S) \in Nat
        /\ Cardinality(upTo(i)) <= Cardinality(S) /\ Cardinality(upTo(i)) # 0
    BY <1>1, FS_CardinalityType, FS_Subset, FS_EmptySet
  <2> QED BY <2>1
<1>3. ASSUME NEW i \in S, NEW k \in S, i < k
      PROVE  Cardinality(upTo(i)) # Cardinality(upTo(k))
  <2>1. upTo(i) \subseteq upTo(k) /\ k \notin upTo(i) /\ k \in upTo(k)
    <3>1. \A j \in S : j <= i => j <= k
      BY <1>3
    <3>2. ~(k <= i) /\ k <= k
      BY <1>3
    <3> QED BY <3>1, <3>2
  <2>2. upTo(i) # upTo(k)
    BY <2>1
  <2> HIDE DEF upTo
  <2> QED BY <1>1, <2>1, <2>2, FS_Subset
<1>4. \A i, k \in S : Cardinality(upTo(i)) = Cardinality(upTo(k)) => i = k
  BY <1>3
<1> QED BY <1>2, <1>4

\* A recursion over the natural numbers defines a function.
RecursiveUpTo(g, n, S, first, step) ==
    /\ g \in [0..n -> S] /\ g[0] = first
    /\ \A k \in 0..n - 1 : g[k + 1] = step[k][g[k]]

LEMMA RecursionAgrees ==
    ASSUME NEW S, NEW first \in S, NEW step \in [Nat -> [S -> S]],
           NEW m \in Nat, NEW n \in Nat, NEW g, NEW h, m <= n,
           RecursiveUpTo(g, m, S, first, step), RecursiveUpTo(h, n, S, first, step)
    PROVE  \A k \in 0..m : g[k] = h[k]
<1> DEFINE Bad == {k \in 0..m : g[k] # h[k]}
<1>1. SUFFICES ASSUME Bad # {} PROVE FALSE
  OBVIOUS
<1>2. PICK k \in Bad : \A j \in Bad : k <= j
  <2>1. Bad \in SUBSET Nat
    OBVIOUS
  <2> HIDE DEF Bad
  <2> QED BY <1>1, <2>1, Smallest
<1>3. k # 0
  BY DEF RecursiveUpTo
<1>4. k - 1 \in 0..m - 1 /\ k - 1 \in 0..n - 1 /\ k - 1 \notin Bad /\ k - 1 \in 0..m
  BY <1>2, <1>3
<1>5. g[k - 1] = h[k - 1]
  BY <1>4
<1>6. (k - 1) + 1 = k
  OBVIOUS
<1>7. g[k] = step[k - 1][g[k - 1]] /\ h[k] = step[k - 1][h[k - 1]]
  <2>1. g[(k - 1) + 1] = step[k - 1][g[k - 1]] /\ h[(k - 1) + 1] = step[k - 1][h[k - 1]]
    BY <1>4 DEF RecursiveUpTo
  <2> QED BY <1>6, <2>1
<1> QED BY <1>5, <1>7

LEMMA RecursionUpTo ==
    ASSUME NEW S, NEW first \in S, NEW step \in [Nat -> [S -> S]], NEW n \in Nat
    PROVE  \E g : RecursiveUpTo(g, n, S, first, step)
<1> DEFINE Bad == {k \in Nat : ~\E g : RecursiveUpTo(g, k, S, first, step)}
<1>1. SUFFICES ASSUME Bad # {} PROVE FALSE
  OBVIOUS
<1>2. PICK k \in Bad : \A j \in Bad : k <= j
  <2>1. Bad \in SUBSET Nat
    OBVIOUS
  <2> HIDE DEF Bad
  <2> QED BY <1>1, <2>1, Smallest
<1>3. k # 0
  <2> DEFINE g == [j \in 0..0 |-> first]
  <2>1. RecursiveUpTo(g, 0, S, first, step)
    BY DEF RecursiveUpTo
  <2> QED BY <2>1
<1>4. k - 1 \in Nat /\ k - 1 \notin Bad
  BY <1>2, <1>3
<1>5. PICK g : RecursiveUpTo(g, k - 1, S, first, step)
  BY <1>4
<1> DEFINE h == [j \in 0..k |-> IF j = k THEN step[k - 1][g[k - 1]] ELSE g[j]]
<1>6. g[k - 1] \in S /\ \A j \in 0..k - 1 : g[j] \in S
  BY <1>4, <1>5 DEF RecursiveUpTo
<1>7. h \in [0..k -> S] /\ h[0] = first
  <2>1. step[k - 1][g[k - 1]] \in S
    BY <1>4, <1>6
  <2>2. g[0] = first
    BY <1>5 DEF RecursiveUpTo
  <2> QED BY <1>3, <1>6, <2>1, <2>2
<1>8. ASSUME NEW j \in 0..k - 1
      PROVE  h[j + 1] = step[j][h[j]]
  <2>1. h[j] = g[j]
    OBVIOUS
  <2>2. CASE j = k - 1
    <3>1. j + 1 = k
      BY <2>2
    <3> QED BY <2>1, <2>2, <3>1
  <2>3. CASE j # k - 1
    <3>1. j \in 0..k - 1 - 1 /\ j + 1 \in 0..k - 1 /\ j + 1 # k
      BY <2>3
    <3>2. g[j + 1] = step[j][g[j]]
      BY <1>5, <3>1 DEF RecursiveUpTo
    <3> QED BY <2>1, <3>1, <3>2
  <2> QED BY <2>2, <2>3
<1> HIDE DEF h
<1>9. RecursiveUpTo(h, k, S, first, step)
  BY <1>7, <1>8 DEF RecursiveUpTo
<1> QED BY <1>9

IsRecursive(f, S, first, step) ==
    f \in [Nat -> S] /\ f[0] = first /\ \A n \in Nat : f[n + 1] = step[n][f[n]]

LEMMA Recursion ==
    ASSUME NEW S, NEW first \in S, NEW step \in [Nat -> [S -> S]]
    PROVE  \E f : IsRecursive(f, S, first, step)
<1> DEFINE G(n) == CHOOSE g : RecursiveUpTo(g, n, S, first, step)
           f == [n \in Nat |-> G(n)[n]]
<1>1. \A n \in Nat : RecursiveUpTo(G(n), n, S, first, step)
  BY RecursionUpTo
<1> HIDE DEF G
<1>2. f \in [Nat -> S]
  BY <1>1 DEF RecursiveUpTo
<1>3. f[0] = first
  BY <1>1 DEF RecursiveUpTo
<1>4. ASSUME NEW n \in Nat
      PROVE  f[n + 1] = step[n][f[n]]
  <2>1. RecursiveUpTo(G(n), n, S, first, step) /\ RecursiveUpTo(G(n + 1), n + 1, S, first, step)
    BY <1>1
  <2>2. n \in 0..n /\ n \in 0..(n + 1) - 1 /\ n <= n + 1 /\ n + 1 \in Nat
    OBVIOUS
  <2>3. G(n)[n] = G(n + 1)[n]
    BY <2>1, <2>2, RecursionAgrees
  <2>4. G(n + 1)[n + 1] = step[n][G(n + 1)[n]]
    BY <2>1, <2>2 DEF RecursiveUpTo
  <2> QED BY <2>2, <2>3, <2>4
<1> HIDE DEF f
<1> QED BY <1>2, <1>3, <1>4 DEF IsRecursive

-----------------------------------------------------------------------------
(* The audit log *)

Flushes == [todo : SUBSET Nat, loaded : BOOLEAN, existing : SUBSET Nat]

\* What a flush loaded from a bucket was in storage, so that no flush has it and it does not
\* wait for one.
StoredInv ==
    /\ IsLog(log) /\ flushes \subseteq Flushes /\ pending \subseteq Nat /\ stored \subseteq Nat
    /\ \A f \in flushes : f.existing \subseteq stored \cup gone \cup overwritten
    /\ Stored!InOnePlace

LEMMA StoredInit == ASSUME Stored!AuditInit PROVE StoredInv
BY DEF Stored!AuditInit, StoredInv, Stored!InOnePlace, Stored!InFlush, Stored!Ids, IsLog

LEMMA Todos ==
    ASSUME NEW F
    PROVE  \A id : id \in UNION {h.todo : h \in F} <=> \E h \in F : id \in h.todo
OBVIOUS

LEMMA FlushingIs ==
    ASSUME NEW ids \in SUBSET Nat
    PROVE  /\ Stored!Flushing(ids) \in Flushes /\ Stored!Flushing(ids).todo = ids
           /\ Stored!Flushing(ids).existing = {}
BY DEF Stored!Flushing, Flushes

\* What the actions make of the ids that are pending, of the flushes and of storage.
LEMMA FlushBegins ==
    ASSUME StoredInv, NEW ids \in SUBSET Nat, ids \cap (Stored!InFlush \cup stored \cup gone
               \cup overwritten) = {}, pending \subseteq ids,
           IsLog(log)', Stored!Ids' = Stored!Ids \cup ids, pending' = {},
           flushes' = flushes \cup {Stored!Flushing(ids)}, UNCHANGED <<stored, gone, overwritten>>
    PROVE  StoredInv'
<1> DEFINE new == Stored!Flushing(ids)
<1>1. new \in Flushes /\ new.todo = ids /\ new.existing = {}
  BY FlushingIs
<1> HIDE DEF new
<1>2. \A f \in flushes' : f \in flushes \/ f = new
  BY DEF new
<1>3. Stored!InFlush' = Stored!InFlush \cup ids
  <2>1. \A id : id \in Stored!InFlush' <=> \E h \in flushes' : id \in h.todo
    BY Todos DEF Stored!InFlush
  <2>2. \A id : id \in Stored!InFlush <=> \E h \in flushes : id \in h.todo
    BY Todos DEF Stored!InFlush
  <2>3. flushes \subseteq flushes' /\ new \in flushes'
    BY DEF new
  <2> QED BY <1>1, <1>2, <2>1, <2>2, <2>3
<1>4. /\ flushes' \subseteq Flushes
      /\ \A f \in flushes' : f.existing \subseteq stored \cup gone \cup overwritten
  BY <1>1, <1>2 DEF StoredInv
<1>5. \A f, h \in flushes' : f # h => f.todo \cap h.todo = {}
  <2>1. \A h \in flushes : h.todo \cap ids = {}
    BY Todos DEF Stored!InFlush
  <2> QED BY <1>1, <1>2, <2>1 DEF StoredInv, Stored!InOnePlace
<1>6. /\ Stored!Ids' = pending' \cup Stored!InFlush' \cup stored \cup gone \cup overwritten
      /\ pending' \cap Stored!InFlush' = {} /\ stored \cap (pending' \cup Stored!InFlush') = {}
      /\ gone \cap (pending' \cup Stored!InFlush' \cup stored) = {}
      /\ overwritten \cap (pending' \cup Stored!InFlush' \cup stored \cup gone) = {}
  BY <1>3 DEF StoredInv, Stored!InOnePlace
<1> QED BY <1>4, <1>5, <1>6 DEF StoredInv, Stored!InOnePlace

LEMMA StoredRecord ==
    ASSUME StoredInv, NEW kind \in StoredKinds, Stored!Record(kind)
    PROVE  StoredInv'
<1> DEFINE id == Len(log) + 1
<1>1. /\ IsLog(log)' /\ DOMAIN log = 1..Len(log) /\ DOMAIN log' = DOMAIN log \cup {id}
      /\ id \notin DOMAIN log /\ id \in Nat
  BY LogGrows DEF StoredInv, Stored!Record
<1>2. id \notin pending \cup Stored!InFlush \cup stored \cup gone \cup overwritten
  BY <1>1 DEF StoredInv, Stored!InOnePlace, Stored!Ids
<1>3. UNCHANGED <<stored, gone, overwritten>>
  BY DEF Stored!Record
<1>4. CASE pending' = pending \cup {id} /\ UNCHANGED flushes
  BY <1>1, <1>2, <1>3, <1>4 DEF StoredInv, Stored!InOnePlace, Stored!Ids, Stored!InFlush
<1>5. CASE pending' = {} /\ flushes' = flushes \cup {Stored!Flushing(pending \cup {id})}
  <2>1. Stored!Ids' = Stored!Ids \cup (pending \cup {id}) /\ pending \cup {id} \subseteq Nat
    BY <1>1 DEF StoredInv, Stored!InOnePlace, Stored!Ids
  <2>2. (pending \cup {id}) \cap (Stored!InFlush \cup stored \cup gone \cup overwritten) = {}
    BY <1>2 DEF StoredInv, Stored!InOnePlace
  <2> HIDE DEF id
  <2> QED BY <1>1, <1>3, <1>5, <2>1, <2>2, FlushBegins
<1> QED BY <1>4, <1>5 DEF Stored!Record, Stored!Queue

LEMMA StoredFlush ==
    ASSUME StoredInv, Stored!Flush, UNCHANGED <<log, stored, gone, overwritten>>
    PROVE  StoredInv'
<1>1. CASE UNCHANGED <<pending, flushes>>
  BY <1>1 DEF StoredInv, Stored!InOnePlace, Stored!Ids, Stored!InFlush
<1>2. CASE pending' = {} /\ flushes' = flushes \cup {Stored!Flushing(pending)}
  <2>1. Stored!Ids' = Stored!Ids \cup pending /\ IsLog(log)' /\ pending \subseteq Nat
    BY DEF StoredInv, Stored!InOnePlace, Stored!Ids
  <2>2. pending \cap (Stored!InFlush \cup stored \cup gone \cup overwritten) = {}
    BY DEF StoredInv, Stored!InOnePlace
  <2> QED BY <1>2, <2>1, <2>2, FlushBegins
<1> QED BY <1>1, <1>2 DEF Stored!Flush

LEMMA StoredLoad ==
    ASSUME StoredInv, NEW f \in flushes, Stored!Load(f)
    PROVE  StoredInv'
<1> DEFINE b == Stored!InBucket(stored, Stored!Current(f))
           g == [f EXCEPT !.loaded = TRUE, !.existing = b]
<1>1. b \subseteq stored
  BY DEF Stored!InBucket
<1> HIDE DEF b
<1>2. g.todo = f.todo /\ g.existing = b /\ g \in Flushes
  BY <1>1 DEF StoredInv, Flushes
<1> HIDE DEF g
<1>3. flushes' = (flushes \ {f}) \cup {g} /\ UNCHANGED <<log, pending, stored, gone, overwritten>>
  BY DEF Stored!Load, g, b
<1>4. \A h \in flushes' : h \in flushes \ {f} \/ h = g
  BY <1>3
<1>5. Stored!InFlush' = Stored!InFlush
  BY <1>2, <1>3 DEF Stored!InFlush
<1>6. /\ flushes' \subseteq Flushes
      /\ \A h \in flushes' : h.existing \subseteq stored \cup gone \cup overwritten
  BY <1>1, <1>2, <1>4 DEF StoredInv
<1>7. \A x, y \in flushes' : x # y => x.todo \cap y.todo = {}
  BY <1>2, <1>4 DEF StoredInv, Stored!InOnePlace
<1> QED BY <1>3, <1>5, <1>6, <1>7 DEF StoredInv, Stored!InOnePlace, Stored!Ids

LEMMA StoredSave ==
    ASSUME StoredInv, NEW f \in flushes, Stored!Save(f)
    PROVE  StoredInv'
<1> DEFINE merged == f.existing \cup Stored!InBucket(f.todo, Stored!Current(f))
           before == Stored!InBucket(stored, Stored!Current(f))
           rest == Stored!Flushing(f.todo \ merged)
<1>1. /\ before \subseteq stored /\ merged \subseteq f.todo \cup f.existing
      /\ f.existing \subseteq merged /\ f \in Flushes
  BY DEF Stored!InBucket, StoredInv
<1> HIDE DEF merged, before
<1>2. /\ stored' = (stored \ before) \cup merged
      /\ overwritten' = (overwritten \cup (before \ merged)) \ merged
      /\ gone' = gone \ merged
      /\ \/ f.todo \ merged = {} /\ flushes' = flushes \ {f}
         \/ flushes' = (flushes \ {f}) \cup {rest}
      /\ UNCHANGED <<log, pending>>
  BY DEF Stored!Save, Stored!Rest, merged, before
<1>3. \A h \in flushes' : h \in flushes \ {f} \/ h = rest
  BY <1>2
<1>4. rest.todo = f.todo \ merged /\ rest.existing = {} /\ rest \in Flushes
  BY <1>1 DEF Stored!Flushing, Flushes
<1> HIDE DEF rest
<1>5. \A h \in flushes \ {f} : h.todo \cap f.todo = {}
  BY DEF StoredInv, Stored!InOnePlace
<1>6. \A id : id \in Stored!InFlush <=> id \in f.todo \/ \E h \in flushes \ {f} : id \in h.todo
  BY Todos DEF Stored!InFlush
<1>7. \A id : id \in Stored!InFlush' <=>
                 id \in f.todo \ merged \/ \E h \in flushes \ {f} : id \in h.todo
  <2>1. \A id : id \in Stored!InFlush' <=> \E h \in flushes' : id \in h.todo
    BY Todos DEF Stored!InFlush
  <2>2. flushes \ {f} \subseteq flushes' /\ (f.todo \ merged = {} \/ rest \in flushes')
    BY <1>2
  <2> QED BY <1>3, <1>4, <2>1, <2>2
<1>8. f.existing \cap (pending \cup Stored!InFlush) = {}
  BY DEF StoredInv, Stored!InOnePlace
<1>9. Stored!InFlush' = Stored!InFlush \ merged
  <2>1. \A h \in flushes \ {f} : h.todo \cap merged = {}
    BY <1>1, <1>5, <1>6, <1>8
  <2> QED BY <1>6, <1>7, <2>1
<1>10. /\ flushes' \subseteq Flushes /\ stored' \subseteq Nat
       /\ \A h \in flushes' : h.existing \subseteq stored' \cup gone' \cup overwritten'
  <2>1. stored \cup gone \cup overwritten \subseteq stored' \cup gone' \cup overwritten'
    BY <1>2
  <2>2. \A h \in flushes : h.existing \subseteq stored \cup gone \cup overwritten
    BY DEF StoredInv
  <2>3. merged \subseteq Nat
    BY <1>1 DEF Flushes
  <2> QED BY <1>2, <1>3, <1>4, <2>1, <2>2, <2>3 DEF StoredInv
<1>11. \A x, y \in flushes' : x # y => x.todo \cap y.todo = {}
  BY <1>3, <1>4, <1>5 DEF StoredInv, Stored!InOnePlace
<1>12. merged \subseteq Stored!InFlush \cup stored \cup gone \cup overwritten
  <2>1. f.existing \subseteq stored \cup gone \cup overwritten
    BY DEF StoredInv
  <2> QED BY <1>1, <1>6, <2>1
<1>13. merged \cap pending = {}
  <2>1. pending \cap Stored!InFlush = {}
    BY DEF StoredInv, Stored!InOnePlace
  <2> QED BY <1>1, <1>6, <1>8, <2>1
<1>14. /\ Stored!Ids' = pending' \cup Stored!InFlush' \cup stored' \cup gone' \cup overwritten'
       /\ pending' \cap Stored!InFlush' = {} /\ stored' \cap (pending' \cup Stored!InFlush') = {}
       /\ gone' \cap (pending' \cup Stored!InFlush' \cup stored') = {}
       /\ overwritten' \cap (pending' \cup Stored!InFlush' \cup stored' \cup gone') = {}
  BY <1>1, <1>2, <1>9, <1>12, <1>13 DEF StoredInv, Stored!InOnePlace, Stored!Ids
<1> QED BY <1>2, <1>10, <1>11, <1>14 DEF StoredInv, Stored!InOnePlace

LEMMA StoredFails ==
    ASSUME StoredInv, NEW f \in flushes, Stored!FlushFails(f)
    PROVE  StoredInv'
<1>1. /\ flushes' = flushes \ {f} /\ gone' = gone \cup f.todo
      /\ UNCHANGED <<log, pending, stored, overwritten>>
  BY DEF Stored!FlushFails
<1>2. Stored!InFlush' = Stored!InFlush \ f.todo /\ f.todo \subseteq Stored!InFlush
  BY <1>1 DEF Stored!InFlush, StoredInv, Stored!InOnePlace
<1> QED BY <1>1, <1>2 DEF StoredInv, Stored!InOnePlace, Stored!Ids

LEMMA StoredDelete ==
    ASSUME StoredInv, NEW c, NEW b, Stored!DeleteBucket(c, b)
    PROVE  StoredInv'
<1>1. Stored!InBucket(stored, b) \subseteq stored
  BY DEF Stored!InBucket
<1>2. /\ stored' = stored \ Stored!InBucket(stored, b)
      /\ gone' = gone \cup Stored!InBucket(stored, b)
      /\ UNCHANGED <<log, pending, flushes, overwritten>>
  BY DEF Stored!DeleteBucket
<1> QED BY <1>1, <1>2 DEF StoredInv, Stored!InOnePlace, Stored!Ids, Stored!InFlush

LEMMA StoredRestart ==
    ASSUME StoredInv, Stored!Restart
    PROVE  StoredInv'
<1>1. /\ pending' = {} /\ flushes' = {} /\ gone' = gone \cup pending \cup Stored!InFlush
      /\ UNCHANGED <<log, stored, overwritten>>
  BY DEF Stored!Restart, Stored!InFlush
<1>2. Stored!InFlush' = {}
  BY <1>1 DEF Stored!InFlush
<1> QED BY <1>1, <1>2 DEF StoredInv, Stored!InOnePlace, Stored!Ids

LEMMA StoredNext ==
    ASSUME StoredInv, [Stored!AuditNext]_(Stored!auditVars)
    PROVE  StoredInv'
<1>1. ASSUME UNCHANGED <<log, pending, flushes, stored, gone, overwritten>>
      PROVE  StoredInv'
  BY <1>1 DEF StoredInv, Stored!InOnePlace, Stored!Ids, Stored!InFlush
<1>2. CASE \E kind \in StoredKinds : Stored!Record(kind)
  BY <1>2, StoredRecord
<1>3. CASE Stored!IntervalFlush \/ Stored!StopAudit
  BY <1>3, StoredFlush DEF Stored!IntervalFlush, Stored!StopAudit
<1>4. CASE \E f \in flushes : Stored!Load(f) \/ Stored!Save(f) \/ Stored!FlushFails(f)
  BY <1>4, StoredLoad, StoredSave, StoredFails
<1>5. CASE \E c \in cleaning : \E b \in c.keys : Stored!DeleteBucket(c, b)
  BY <1>5, StoredDelete
<1>6. CASE Stored!Restart
  BY <1>6, StoredRestart
<1>7. CASE Stored!Cleanup(Retention) \/ Stored!ClearAudit \/ Stored!AuditTick
  BY <1>1, <1>7 DEF Stored!Cleanup, Stored!ClearAudit, Stored!AuditTick
<1>8. CASE \E c \in cleaning : Stored!ListKeys(c) \/ Stored!CleanupEnds(c)
  BY <1>1, <1>8 DEF Stored!ListKeys, Stored!CleanupEnds
<1>9. CASE UNCHANGED Stored!auditVars
  BY <1>1, <1>9 DEF Stored!auditVars
<1> QED BY <1>2, <1>3, <1>4, <1>5, <1>6, <1>7, <1>8, <1>9 DEF Stored!AuditNext

-----------------------------------------------------------------------------
(* The index of the log in memory *)

InFields == {"type", "category", "source", "ruleId", "correlationId"}

\* The index is of the entries in memory, and of each of their fields.
MemoryInv ==
    /\ IsLog(log) /\ memory \subseteq DOMAIN log /\ auditClock \in Nat
    /\ \A id \in DOMAIN log : log[id].timestamp \in Nat /\ log[id].type # None
    /\ \A f, v, id : <<f, v, id>> \in index <=>
           f \in InFields /\ id \in memory /\ v = log[id][f] /\ v # None
    /\ \A t \in index : t = <<t[1], t[2], t[3]>>

LEMMA MemoryInit == ASSUME InMemory!AuditInit PROVE MemoryInv
BY DEF InMemory!AuditInit, MemoryInv, IsLog

\* An entry leaves the index with the memory.
LEMMA Unindexing ==
    ASSUME MemoryInv, NEW ids
    PROVE  /\ \A f, v, id : <<f, v, id>> \in InMemory!Unindexed(ids) <=>
                  f \in InFields /\ id \in memory \ ids /\ v = log[id][f] /\ v # None
           /\ \A t \in InMemory!Unindexed(ids) : t = <<t[1], t[2], t[3]>>
<1>1. \A f, v, id : <<f, v, id>> \in InMemory!Unindexed(ids)
                        <=> <<f, v, id>> \in index /\ id \notin ids
  BY DEF InMemory!Unindexed
<1> QED BY <1>1 DEF MemoryInv, InMemory!Unindexed

LEMMA MemoryRecord ==
    ASSUME MemoryInv, NEW kind \in RecordedKinds, InMemory!Record(kind)
    PROVE  MemoryInv'
<1> DEFINE id == Len(log) + 1
           entry == [f \in InMemory!Fields \cup {"timestamp"} |->
                        IF f = "timestamp" THEN auditClock ELSE kind[f]]
<1>1. /\ log' = Append(log, entry)
      /\ memory' = (memory \ InMemory!Evicted) \cup {id}
      /\ index' = InMemory!Unindexed(InMemory!Evicted) \cup InMemory!Triples(id, kind)
      /\ UNCHANGED auditClock
  BY DEF InMemory!Record, InMemory!AddEntry
<1>2. /\ entry.timestamp = auditClock /\ entry.type = kind.type
      /\ \A f \in InFields : entry[f] = kind[f]
  BY DEF InMemory!Fields, InFields
<1> HIDE DEF entry
<1>3. /\ IsLog(log)' /\ DOMAIN log = 1..Len(log) /\ DOMAIN log' = DOMAIN log \cup {id}
      /\ id \notin DOMAIN log /\ log'[id] = entry /\ \A k \in DOMAIN log : log'[k] = log[k]
  BY <1>1, LogGrows DEF MemoryInv
<1> HIDE DEF id
<1>4. /\ \A f, v, x : <<f, v, x>> \in InMemory!Triples(id, kind) <=>
             f \in InFields /\ x = id /\ v = kind[f] /\ v # None
      /\ \A t \in InMemory!Triples(id, kind) : t = <<t[1], t[2], t[3]>>
  BY DEF InMemory!Triples, InMemory!Fields, InFields
<1> DEFINE gone_ == InMemory!Evicted
<1> HIDE DEF gone_
<1>5. \A f, v, x : <<f, v, x>> \in index' <=>
          f \in InFields /\ x \in memory' /\ v = log'[x][f] /\ v # None
  <2>1. \A f, v, x : <<f, v, x>> \in InMemory!Unindexed(gone_) <=>
            f \in InFields /\ x \in memory \ gone_ /\ v = log[x][f] /\ v # None
    BY Unindexing
  <2>2. memory \subseteq DOMAIN log
    BY DEF MemoryInv
  <2>3. ASSUME NEW f, NEW v, NEW x
        PROVE  <<f, v, x>> \in index' <=>
                   f \in InFields /\ x \in memory' /\ v = log'[x][f] /\ v # None
    <3>1. CASE x = id
      BY <1>1, <1>2, <1>3, <1>4, <2>1, <2>2, <3>1 DEF gone_
    <3>2. CASE x # id
      BY <1>1, <1>3, <1>4, <2>1, <2>2, <3>2 DEF gone_
    <3> QED BY <3>1, <3>2
  <2> QED BY <2>3
<1>6. \A t \in index' : t = <<t[1], t[2], t[3]>>
  BY <1>1, <1>4, Unindexing
<1>7. memory' \subseteq DOMAIN log'
  BY <1>1, <1>3 DEF MemoryInv
<1>8. \A x \in DOMAIN log' : log'[x].timestamp \in Nat /\ log'[x].type # None
  BY <1>2, <1>3, AuditTyped DEF MemoryInv
<1> QED BY <1>1, <1>3, <1>5, <1>6, <1>7, <1>8 DEF MemoryInv

LEMMA MemoryForgets ==
    ASSUME MemoryInv, NEW ids, memory' = memory \ ids, index' = InMemory!Unindexed(ids),
           UNCHANGED <<log, auditClock>>
    PROVE  MemoryInv'
BY Unindexing DEF MemoryInv

LEMMA MemoryEmpty ==
    ASSUME MemoryInv, memory' = {}, index' = {}, UNCHANGED <<log, auditClock>>
    PROVE  MemoryInv'
BY DEF MemoryInv

LEMMA MemoryNext ==
    ASSUME MemoryInv, [InMemory!AuditNext]_(InMemory!auditVars)
    PROVE  MemoryInv'
<1>1. ASSUME UNCHANGED <<log, memory, index, auditClock>>
      PROVE  MemoryInv'
  BY <1>1 DEF MemoryInv
<1>2. CASE \E kind \in RecordedKinds : InMemory!Record(kind)
  BY <1>2, MemoryRecord
<1>3. CASE InMemory!IntervalFlush \/ InMemory!StopAudit
  BY <1>1, <1>3 DEF InMemory!IntervalFlush, InMemory!StopAudit
<1>4. CASE \E f \in flushes : InMemory!Load(f) \/ InMemory!Save(f) \/ InMemory!FlushFails(f)
  BY <1>1, <1>4 DEF InMemory!Load, InMemory!Save, InMemory!FlushFails
<1>5. CASE InMemory!Cleanup(Retention)
  BY <1>5, MemoryForgets DEF InMemory!Cleanup
<1>6. CASE \E c \in cleaning : \/ InMemory!ListKeys(c) \/ InMemory!CleanupEnds(c)
                               \/ \E b \in c.keys : InMemory!DeleteBucket(c, b)
  BY <1>1, <1>6 DEF InMemory!ListKeys, InMemory!CleanupEnds, InMemory!DeleteBucket
<1>7. CASE InMemory!ClearAudit \/ InMemory!Restart
  <2>1. memory' = {} /\ index' = {} /\ UNCHANGED log
    BY <1>7 DEF InMemory!ClearAudit, InMemory!Restart
  <2>2. UNCHANGED auditClock
    BY <1>7 DEF InMemory!ClearAudit, InMemory!Restart
  <2> QED BY <2>1, <2>2, MemoryEmpty
<1>8. CASE InMemory!AuditTick
  BY <1>8 DEF InMemory!AuditTick, MemoryInv
<1>9. CASE UNCHANGED InMemory!auditVars
  BY <1>1, <1>9 DEF InMemory!auditVars
<1> QED BY <1>2, <1>3, <1>4, <1>5, <1>6, <1>7, <1>8, <1>9 DEF InMemory!AuditNext

\* What an index has for a value.
LEMMA ResolvedIs ==
    ASSUME MemoryInv, NEW f \in InFields, NEW v, v # None
    PROVE  \A id : id \in InMemory!Resolved(f, v) <=> id \in memory /\ log[id][f] = v
<1>1. \A t \in index : t[1] = f /\ t[2] = v => t = <<f, v, t[3]>>
  BY DEF MemoryInv
<1>2. \A id : id \in InMemory!Resolved(f, v) <=> id \in memory /\ <<f, v, id>> \in index
  BY <1>1 DEF InMemory!Resolved
<1> QED BY <1>2 DEF MemoryInv

LEMMA MemoryCardinality == \A S : InMemory!Cardinality(S) = Cardinality(S)
BY DEF InMemory!Cardinality, Cardinality

LEMMA FilterIs ==
    ASSUME NEW q \in InMemory!Filter
    PROVE  q.from \in Nat /\ q.to \in Nat /\ (q.types = {} => ~InMemory!OneType(q))
           /\ \A t \in q.types : \E kind \in RecordedKinds : t = kind.type
<1>1. q.from \in {0, 1} /\ q.to \in {1}
  BY DEF InMemory!Filter
<1>2. q.types \in {{}} \cup {{k.type} : k \in RecordedKinds} \cup {{k.type : k \in RecordedKinds}}
  BY DEF InMemory!Filter
<1>3. q.types = {} => ~InMemory!OneType(q)
  <2>1. InMemory!Cardinality({}) = 0
    BY FS_EmptySet, MemoryCardinality
  <2> QED BY <2>1 DEF InMemory!OneType
<1> QED BY <1>1, <1>2, <1>3

LEMMA MemoryQueryExact == ASSUME MemoryInv PROVE InMemory!QueryExact
<1> SUFFICES ASSUME NEW q \in InMemory!Filter, NEW id
             PROVE  id \in InMemory!Query(q) <=>
                       /\ id \in memory
                       /\ \A f \in InMemory!Fields \ {"type"} : q[f] \in {None, log[id][f]}
                       /\ q.types = {} \/ log[id].type \in q.types
                       /\ log[id].timestamp \in q.from..q.to
  BY DEF InMemory!QueryExact, InMemory!Query, InMemory!ApplyRemainingFilters
<1> DEFINE used == InMemory!UsedIndex(q)
           found == InMemory!SelectCandidates(q)
<1>1. \/ used \in {"correlationId", "ruleId", "source", "category"} /\ q[used] # None
      \/ used = "type" /\ q.types # {}
      \/ used = "none"
  BY FilterIs DEF InMemory!UsedIndex
<1>2. id \in InMemory!Query(q) <=>
        /\ id \in found
        /\ \A f \in InFields \ {"type", used} : q[f] # None => log[id][f] = q[f]
        /\ q.types # {} /\ used # "type" => log[id].type \in q.types
        /\ q.from <= log[id].timestamp /\ log[id].timestamp <= q.to
  BY DEF InMemory!Query, InMemory!ApplyRemainingFilters, InMemory!Fields, InFields
<1>3. CASE used \in {"correlationId", "ruleId", "source", "category"} /\ q[used] # None
  <2>1. found = InMemory!Resolved(used, q[used]) /\ used \in InFields
    BY <1>3 DEF InMemory!SelectCandidates, InFields
  <2>2. id \in found <=> id \in memory /\ log[id][used] = q[used]
    BY <1>3, <2>1, ResolvedIs
  <2> HIDE DEF used, found
  <2>3. id \in memory => log[id].timestamp \in Nat
    BY DEF MemoryInv
  <2> QED BY <1>2, <1>3, <2>1, <2>2, <2>3, FilterIs DEF InMemory!Fields, InFields
<1>4. CASE used = "type" /\ q.types # {}
  <2>1. found = UNION {InMemory!Resolved("type", t) : t \in q.types}
    BY <1>4 DEF InMemory!SelectCandidates
  <2>2. \A t \in q.types : t # None
    BY FilterIs, AuditTyped
  <2>3. \A t \in q.types : id \in InMemory!Resolved("type", t) <=> id \in memory /\ log[id].type = t
    BY <2>2, ResolvedIs DEF InFields
  <2>4. id \in found <=> id \in memory /\ log[id].type \in q.types
    BY <2>1, <2>3
  <2> HIDE DEF used, found
  <2>5. id \in memory => log[id].timestamp \in Nat
    BY DEF MemoryInv
  <2> QED BY <1>2, <1>4, <2>4, <2>5, FilterIs DEF InMemory!Fields, InFields
<1>5. CASE used = "none"
  <2>1. found = memory
    BY <1>5 DEF InMemory!SelectCandidates
  <2> HIDE DEF used, found
  <2>2. id \in memory => log[id].timestamp \in Nat
    BY DEF MemoryInv
  <2> QED BY <1>2, <1>5, <2>1, <2>2, FilterIs DEF InMemory!Fields, InFields
<1> QED BY <1>1, <1>3, <1>4, <1>5

-----------------------------------------------------------------------------
(* The fact store *)

IsText(s) == s \in Seq({s[k] : k \in DOMAIN s}) /\ s # <<>>

LEMMA TextsTyped == \A s \in FactKeys \cup FactPatterns : IsText(s)
BY FactsTyped DEF IsText, ToSet

LEMMA TextIs ==
    ASSUME NEW s, IsText(s)
    PROVE  Len(s) \in Nat /\ Len(s) >= 1 /\ DOMAIN s = 1..Len(s) /\ Head(s) = s[1]
<1>1. Len(s) \in Nat /\ DOMAIN s = 1..Len(s) /\ Len(s) # 0
  BY LenProperties, EmptySeq DEF IsText
<1>2. Head(s) = s[1]
  BY DEF IsText
<1> QED BY <1>1, <1>2

\* A key that matches begins as the pattern does, unless it begins with a wildcard.
LEMMA MatchesBegin ==
    ASSUME NEW key, NEW pattern, IsText(key), IsText(pattern),
           Head(pattern) \notin {"*"} \cup Partial, MatchesFactPattern(key, pattern)
    PROVE  Head(key) = Head(pattern)
<1>1. Head(key) = key[1] /\ Head(pattern) = pattern[1] /\ 1 \in DOMAIN key
  BY TextIs
<1>2. CASE Len(pattern) > 1 /\ Len(key) = Len(pattern) /\ Front(key) = Front(pattern)
  <2>1. Front(key)[1] = key[1] /\ Front(pattern)[1] = pattern[1]
    BY <1>2, TextIs DEF Front, IsText
  <2> QED BY <1>1, <1>2, <2>1
<1>3. CASE \A k \in DOMAIN key : Covered(pattern, key, k)
  BY <1>1, <1>3 DEF Covered
<1> QED BY <1>1, <1>2, <1>3 DEF MatchesFactPattern

\* Without a wildcard only the pattern itself matches.
LEMMA MatchesLiteral ==
    ASSUME NEW key, NEW pattern, IsText(pattern), ~HasWildcard(pattern)
    PROVE  MatchesFactPattern(key, pattern) <=> key = pattern
<1>1. Last(pattern) # "*"
  BY TextIs DEF HasWildcard, Last
<1> QED BY <1>1 DEF MatchesFactPattern

\* The index has the keys of the facts by their first segments.
StoreInv ==
    /\ \A key \in DOMAIN facts : IsText(key)
    /\ \A key \in DOMAIN facts : Head(key) \in DOMAIN prefixIndex
    /\ \A p \in DOMAIN prefixIndex : prefixIndex[p] = {key \in DOMAIN facts : Head(key) = p}

LEMMA StoreInitSound == ASSUME StoreInit PROVE StoreInv
BY DEF StoreInit, StoreInv

LEMMA SetFactSound ==
    ASSUME StoreInv, NEW key, NEW value, IsText(key), SetFact(key, value)
    PROVE  StoreInv'
<1>1. DOMAIN facts' = DOMAIN facts \cup {key}
  BY DEF SetFact
<1>2. CASE key \in DOMAIN facts
  BY <1>1, <1>2 DEF SetFact, StoreInv
<1>3. CASE key \notin DOMAIN facts
  <2>1. prefixIndex' = Indexed(prefixIndex, {key})
    BY <1>3 DEF SetFact
  <2>2. DOMAIN prefixIndex' = DOMAIN prefixIndex \cup {Head(key)}
    BY <2>1 DEF Indexed
  <2>3. \A p \in DOMAIN prefixIndex' :
           prefixIndex'[p] = (IF p \in DOMAIN prefixIndex THEN prefixIndex[p] ELSE {})
                             \cup {k \in {key} : Head(k) = p}
    BY <2>1 DEF Indexed
  <2>4. \A p \in DOMAIN prefixIndex' :
           prefixIndex'[p] = {k \in DOMAIN facts' : Head(k) = p}
    BY <1>1, <2>2, <2>3 DEF StoreInv
  <2> QED BY <1>1, <2>2, <2>4 DEF StoreInv
<1> QED BY <1>2, <1>3

LEMMA DeleteFactsSound ==
    ASSUME StoreInv, NEW keys, DeleteFacts(keys)
    PROVE  StoreInv'
<1>1. DOMAIN facts' = DOMAIN facts \ keys
  BY DEF DeleteFacts
<1> DEFINE left == keys \cap DOMAIN facts
<1>2. prefixIndex' = Unindexed(prefixIndex, left)
  BY DEF DeleteFacts
<1>3. /\ DOMAIN prefixIndex' = {q \in DOMAIN prefixIndex : ~(prefixIndex[q] \subseteq left)}
      /\ \A p \in DOMAIN prefixIndex' : prefixIndex'[p] = prefixIndex[p] \ left
  BY <1>2 DEF Unindexed
<1> QED BY <1>1, <1>3 DEF StoreInv

LEMMA StoreNextSound ==
    ASSUME StoreInv, StoreNext
    PROVE  StoreInv'
<1>1. ASSUME NEW key \in FactKeys, SetFact(key, 0)
      PROVE  StoreInv'
  BY <1>1, TextsTyped, SetFactSound
<1>2. ASSUME NEW key \in FactKeys, DeleteFacts({key})
      PROVE  StoreInv'
  BY <1>2, DeleteFactsSound
<1>3. CASE ClearFacts
  BY <1>3 DEF ClearFacts, StoreInv
<1> QED BY <1>1, <1>2, <1>3 DEF StoreNext

LEMMA StoreQueryExact == ASSUME StoreInv PROVE FactQueryExact
<1> SUFFICES ASSUME NEW pattern \in FactPatterns, Head(pattern) \notin Partial
             PROVE  QueryFacts(pattern) = {key \in DOMAIN facts : MatchesFactPattern(key, pattern)}
  BY DEF FactQueryExact
<1>1. IsText(pattern)
  BY TextsTyped
<1>2. CASE ~HasWildcard(pattern)
  BY <1>1, <1>2, MatchesLiteral DEF QueryFacts
<1>3. CASE HasWildcard(pattern) /\ Head(pattern) = "*"
  BY <1>3 DEF QueryFacts
<1>4. CASE HasWildcard(pattern) /\ Head(pattern) # "*"
  <2>1. \A key \in DOMAIN facts : MatchesFactPattern(key, pattern) => Head(key) = Head(pattern)
    BY <1>1, <1>4, MatchesBegin DEF StoreInv
  <2>2. CASE Head(pattern) \notin DOMAIN prefixIndex
    BY <1>4, <2>1, <2>2 DEF QueryFacts, StoreInv
  <2>3. CASE Head(pattern) \in DOMAIN prefixIndex
    BY <1>4, <2>1, <2>3 DEF QueryFacts, StoreInv
  <2> QED BY <2>2, <2>3
<1> QED BY <1>2, <1>3, <1>4

-----------------------------------------------------------------------------
(* Baselines *)

MetricType == [name : Metric, grouped : BOOLEAN, id : Nat]

\* The metrics are typed and of different names, what has an interval is one of them, and
\* the statistics are of metrics and in the facts.
BaselineTyped ==
    /\ metrics \in Seq(MetricType) /\ registrations \in Nat
    /\ \A j, k \in DOMAIN metrics : metrics[j].name = metrics[k].name => j = k
    /\ \A key \in DOMAIN baselines : key = <<key[1], key[2]>>

BaselineInv == StoreInv /\ BaselineTyped /\ BaselinesBacked

LEMMA BaselineInitSound == ASSUME BaselineInit PROVE BaselineInv
<1>1. StoreInv
  BY StoreInitSound DEF BaselineInit
<1>2. DOMAIN baselines = {} /\ intervals = {} /\ metrics = <<>> /\ registrations = 0
  BY DEF BaselineInit
<1>3. BaselineTyped
  BY <1>2 DEF BaselineTyped
<1>4. BaselinesBacked
  BY <1>2 DEF BaselinesBacked
<1> QED BY <1>1, <1>3, <1>4 DEF BaselineInv

\* What a change of the facts, the metrics and their intervals has to keep.
LEMMA FactKeyIs ==
    ASSUME NEW name, NEW group
    PROVE  /\ IsText(FactKey(name, group))
           /\ \A other, of : FactKey(name, group) = FactKey(other, of) =>
                 name = other /\ group = of
<1>1. IsText(<<"baseline", name, "stats">>)
  BY DEF IsText
<1>2. IsText(<<"baseline", name, group, "stats">>)
  BY DEF IsText
<1> QED BY <1>1, <1>2 DEF FactKey

LEMMA RecalculatedSound ==
    ASSUME BaselineInv, NEW name, NEW group, Recalculated(name, group),
           UNCHANGED <<metrics, intervals, registrations>>
    PROVE  BaselineInv'
<1> DEFINE key == FactKey(name, group)
<1>1. SetFact(key, recalculated')
  BY DEF Recalculated
<1>2. StoreInv'
  BY <1>1, SetFactSound, FactKeyIs DEF BaselineInv
<1>3. /\ DOMAIN baselines' = DOMAIN baselines \cup {<<name, group>>}
      /\ \A k \in DOMAIN baselines' :
            baselines'[k] = IF k = <<name, group>> THEN recalculated' ELSE baselines[k]
  BY DEF Recalculated
<1>4. BaselineTyped'
  BY <1>3 DEF BaselineInv, BaselineTyped
<1>5. /\ DOMAIN facts' = DOMAIN facts \cup {key}
      /\ facts'[key].value = recalculated'
      /\ \A k \in DOMAIN facts : k # key => facts'[k] = facts[k]
  BY <1>1 DEF SetFact
<1>6. name \in Names(metrics)
  BY DEF Recalculated
<1>7. ASSUME NEW k \in DOMAIN baselines'
      PROVE  /\ k[1] \in Names(metrics)' /\ FactKey(k[1], k[2]) \in DOMAIN facts'
             /\ facts'[FactKey(k[1], k[2])].value = baselines'[k]
  <2>1. CASE k = <<name, group>>
    BY <1>3, <1>5, <1>6, <2>1 DEF Names
  <2>2. CASE k # <<name, group>>
    <3>1. k \in DOMAIN baselines /\ k = <<k[1], k[2]>>
      BY <1>3, <2>2 DEF BaselineInv, BaselineTyped
    <3>2. FactKey(k[1], k[2]) # key
      BY <2>2, <3>1, FactKeyIs
    <3> QED BY <1>3, <1>5, <2>2, <3>1, <3>2 DEF BaselineInv, BaselinesBacked, Names
  <2> QED BY <2>1, <2>2
<1>8. BaselinesBacked'
  BY <1>7 DEF BaselineInv, BaselinesBacked, Names
<1> QED BY <1>2, <1>4, <1>8 DEF BaselineInv

\* A part of a sequence.
LEMMA SubSeqIs ==
    ASSUME NEW S, NEW s \in Seq(S), NEW m \in Nat \ {0}, NEW n \in 0..Len(s)
    PROVE  /\ SubSeq(s, m, n) \in Seq(S)
           /\ Len(SubSeq(s, m, n)) = IF m <= n THEN n - m + 1 ELSE 0
           /\ \A i \in 1..n - m + 1 : SubSeq(s, m, n)[i] = s[m + i - 1]
<1>1. \A i \in m..n : s[i] \in S
  OBVIOUS
<1>2. m \in Int /\ n \in Int
  OBVIOUS
<1> QED BY <1>1, <1>2, SubSeqProperties

\* A sequence without one of its elements.
LEMMA RemoveAtIs ==
    ASSUME NEW S, NEW s \in Seq(S), NEW at \in 1..Len(s)
    PROVE  /\ RemoveAt(s, at) \in Seq(S) /\ DOMAIN RemoveAt(s, at) = 1..Len(s) - 1
           /\ \A i \in 1..Len(s) - 1 :
                 RemoveAt(s, at)[i] = s[IF i < at THEN i ELSE i + 1]
<1> DEFINE a == SubSeq(s, 1, at - 1)
           b == SubSeq(s, at + 1, Len(s))
           rest == RemoveAt(s, at)
<1>1. Len(s) \in Nat /\ at - 1 \in 0..Len(s) /\ at + 1 \in Nat \ {0} /\ Len(s) \in 0..Len(s)
      /\ 1 \in Nat \ {0}
  OBVIOUS
<1>2. /\ a \in Seq(S) /\ Len(a) = at - 1
      /\ \A i \in 1..at - 1 : a[i] = s[i]
  <2>1. /\ a \in Seq(S) /\ Len(a) = IF 1 <= at - 1 THEN at - 1 - 1 + 1 ELSE 0
        /\ \A i \in 1..at - 1 - 1 + 1 : a[i] = s[1 + i - 1]
    BY <1>1, SubSeqIs
  <2> QED BY <1>1, <2>1
<1>3. /\ b \in Seq(S) /\ Len(b) = Len(s) - at
      /\ \A i \in 1..Len(s) - at : b[i] = s[at + i]
  <2>1. /\ b \in Seq(S) /\ Len(b) = IF at + 1 <= Len(s) THEN Len(s) - (at + 1) + 1 ELSE 0
        /\ \A i \in 1..Len(s) - (at + 1) + 1 : b[i] = s[(at + 1) + i - 1]
    BY <1>1, SubSeqIs
  <2> QED BY <1>1, <2>1
<1>4. rest = a \o b
  BY DEF RemoveAt
<1> HIDE DEF a, b, rest
<1>5. rest \in Seq(S) /\ Len(rest) = Len(s) - 1
  BY <1>1, <1>2, <1>3, <1>4
<1>6. DOMAIN rest = 1..Len(s) - 1
  BY <1>5
<1>7. \A i \in 1..Len(s) - 1 : rest[i] = IF i <= at - 1 THEN a[i] ELSE b[i - (at - 1)]
  <2>1. \A i \in 1..Len(a) + Len(b) : rest[i] = IF i <= Len(a) THEN a[i] ELSE b[i - Len(a)]
    BY <1>2, <1>3, <1>4, ConcatProperties
  <2> QED BY <1>1, <1>2, <1>3, <2>1
<1>8. ASSUME NEW i \in 1..Len(s) - 1
      PROVE  rest[i] = s[IF i < at THEN i ELSE i + 1]
  <2>1. CASE i < at
    BY <1>1, <1>2, <1>7, <2>1
  <2>2. CASE i >= at
    <3>1. i - (at - 1) \in 1..Len(s) - at /\ at + (i - (at - 1)) = i + 1
      BY <1>1, <2>2
    <3> QED BY <1>1, <1>3, <1>7, <2>2, <3>1
  <2> QED BY <1>1, <2>1, <2>2
<1> QED BY <1>5, <1>6, <1>8 DEF rest

\* What stands of the metrics without one of them: the others, in their order.
LEMMA WithoutMetricIs ==
    ASSUME BaselineInv, NEW name \in Metric
    PROVE  /\ WithoutMetric(name) \in Seq(MetricType)
           /\ Names(WithoutMetric(name)) = Names(metrics) \ {name}
           /\ \A j, k \in DOMAIN WithoutMetric(name) :
                 WithoutMetric(name)[j].name = WithoutMetric(name)[k].name => j = k
<1>1. metrics \in Seq(MetricType)
  BY DEF BaselineInv, BaselineTyped
<1>2. CASE name \notin Names(metrics)
  BY <1>1, <1>2 DEF WithoutMetric, BaselineInv, BaselineTyped
<1>3. CASE name \in Names(metrics)
  <2> DEFINE at == CHOOSE k \in DOMAIN metrics : metrics[k].name = name
             rest == WithoutMetric(name)
  <2>1. at \in DOMAIN metrics /\ metrics[at].name = name
    BY <1>3 DEF Names
  <2>2. rest = RemoveAt(metrics, at)
    BY <1>3 DEF WithoutMetric
  <2> HIDE DEF at, rest
  <2>3. Len(metrics) \in Nat /\ DOMAIN metrics = 1..Len(metrics) /\ at \in 1..Len(metrics)
    BY <1>1, <2>1
  <2>6. /\ rest \in Seq(MetricType) /\ DOMAIN rest = 1..Len(metrics) - 1
        /\ \A i \in DOMAIN rest : rest[i] = metrics[IF i < at THEN i ELSE i + 1]
    BY <1>1, <2>2, <2>3, RemoveAtIs
  <2>7. \A i \in DOMAIN rest : (IF i < at THEN i ELSE i + 1) \in DOMAIN metrics \ {at}
    BY <2>1, <2>3, <2>6
  <2>9. \A i, j \in DOMAIN rest : rest[i].name = rest[j].name => i = j
    <3> SUFFICES ASSUME NEW i \in DOMAIN rest, NEW j \in DOMAIN rest, rest[i].name = rest[j].name
                 PROVE  i = j
      OBVIOUS
    <3>1. (IF i < at THEN i ELSE i + 1) = (IF j < at THEN j ELSE j + 1)
      BY <2>6, <2>7 DEF BaselineInv, BaselineTyped
    <3> QED BY <2>1, <2>3, <2>6, <3>1
  <2>10. \A i \in DOMAIN metrics \ {at} : \E j \in DOMAIN rest : rest[j] = metrics[i]
    <3> SUFFICES ASSUME NEW i \in DOMAIN metrics \ {at}
                 PROVE  \E j \in DOMAIN rest : rest[j] = metrics[i]
      OBVIOUS
    <3>1. CASE i < at
      BY <2>1, <2>3, <2>6, <3>1
    <3>2. CASE i > at
      <4>1. i - 1 \in DOMAIN rest /\ rest[i - 1] = metrics[i]
        BY <2>1, <2>3, <2>6, <3>2
      <4> QED BY <4>1
    <3> QED BY <2>1, <2>3, <3>1, <3>2
  <2>11. \A i \in DOMAIN metrics \ {at} : metrics[i].name # name
    BY <2>1 DEF BaselineInv, BaselineTyped
  <2>12. Names(rest) = Names(metrics) \ {name}
    BY <2>1, <2>6, <2>7, <2>10, <2>11 DEF Names
  <2> QED BY <2>6, <2>9, <2>12 DEF rest
<1> QED BY <1>2, <1>3

\* Unregistering a metric deletes facts of this metric only.
LEMMA FactKeysOfOne ==
    ASSUME BaselineInv, NEW name \in Metric, NEW other, NEW group, other # name
    PROVE  FactKey(other, group) \notin FactKeysOf(name)
<1> DEFINE pattern == <<"baseline", name, "*">>
           key == FactKey(other, group)
<1>1. key # FactKey(name, NoGroupKey)
  BY FactKeyIs
<1>2. SUFFICES ASSUME key \in QueryFacts(pattern)
               PROVE  FALSE
  BY <1>1 DEF FactKeysOf
<1>3. HasWildcard(pattern)
  BY DEF HasWildcard
<1>4. MatchesFactPattern(key, pattern)
  BY <1>2, <1>3 DEF QueryFacts
<1>5. name \notin {"*"} \cup Partial
  BY NamesTyped
<1>6. key[2] = other /\ 2 \in DOMAIN key /\ Len(key) \in {3, 4}
  BY DEF FactKey
<1>7. CASE key = pattern
  BY <1>6, <1>7
<1>8. CASE Len(key) = Len(pattern) /\ Front(key) = Front(pattern)
  <2>1. Len(pattern) = 3 /\ pattern[2] = name /\ key[2] = other
    BY DEF FactKey
  <2>2. Front(pattern)[2] = pattern[2]
    BY <2>1 DEF Front
  <2>3. group = NoGroupKey /\ key = <<"baseline", other, "stats">>
    BY <1>8, <2>1 DEF FactKey
  <2>4. Front(key)[2] = key[2]
    BY <2>3 DEF Front
  <2> QED BY <1>8, <2>1, <2>2, <2>4
<1>9. CASE \A k \in DOMAIN key : Covered(pattern, key, k)
  BY <1>5, <1>6, <1>9 DEF Covered
<1> QED BY <1>4, <1>7, <1>8, <1>9 DEF MatchesFactPattern

\* Without the metric, its statistics and their facts what is left agrees.
LEMMA ForgetSound ==
    ASSUME BaselineInv, NEW name \in Metric, Forget(name),
           Names(metrics) \ {name} \subseteq Names(metrics)'
    PROVE  /\ StoreInv'
           /\ \A key \in DOMAIN baselines' : key = <<key[1], key[2]>>
           /\ \A key \in DOMAIN baselines' :
                 /\ key[1] \in Names(metrics)'
                 /\ FactKey(key[1], key[2]) \in DOMAIN facts'
                 /\ facts'[FactKey(key[1], key[2])].value = baselines'[key]
<1>1. DeleteFacts(FactKeysOf(name))
  BY DEF Forget
<1>2. StoreInv'
  BY <1>1, DeleteFactsSound DEF BaselineInv
<1>3. /\ DOMAIN baselines' = {k \in DOMAIN baselines : k[1] # name}
      /\ \A k \in DOMAIN baselines' : baselines'[k] = baselines[k]
  BY DEF Forget
<1>4. /\ DOMAIN facts' = DOMAIN facts \ FactKeysOf(name)
      /\ \A k \in DOMAIN facts' : facts'[k] = facts[k]
  BY <1>1 DEF DeleteFacts
<1>5. ASSUME NEW key \in DOMAIN baselines'
      PROVE  /\ key = <<key[1], key[2]>>
             /\ key[1] \in Names(metrics)'
             /\ FactKey(key[1], key[2]) \in DOMAIN facts'
             /\ facts'[FactKey(key[1], key[2])].value = baselines'[key]
  <2>1. key \in DOMAIN baselines /\ key[1] # name
    BY <1>3
  <2>2. FactKey(key[1], key[2]) \notin FactKeysOf(name)
    BY <2>1, FactKeysOfOne
  <2>3. /\ key = <<key[1], key[2]>> /\ key[1] \in Names(metrics)
        /\ FactKey(key[1], key[2]) \in DOMAIN facts
        /\ facts[FactKey(key[1], key[2])].value = baselines[key]
    BY <2>1 DEF BaselineInv, BaselineTyped, BaselinesBacked
  <2>4. key[1] \in Names(metrics)'
    BY <2>1, <2>3
  <2>5. FactKey(key[1], key[2]) \in DOMAIN facts'
    BY <1>4, <2>2, <2>3
  <2> QED BY <1>3, <1>4, <2>3, <2>4, <2>5
<1> QED BY <1>2, <1>5

LEMMA UnregisterSound ==
    ASSUME BaselineInv, NEW name \in Metric, Unregister(name)
    PROVE  BaselineInv'
<1>1. metrics' = WithoutMetric(name) /\ intervals' = intervals \ {name} /\ Forget(name)
      /\ registrations' = registrations
  BY DEF Unregister
<1>2. Names(metrics)' = Names(metrics) \ {name}
  BY ZenonT(40), <1>1, WithoutMetricIs DEF Names
<1>3. BaselineTyped'
  BY <1>1, <1>2, ForgetSound, WithoutMetricIs DEF BaselineInv, BaselineTyped
<1>4. BaselinesBacked'
  <2>1. intervals' \subseteq Names(metrics)'
    BY <1>1, <1>2 DEF BaselineInv, BaselinesBacked
  <2>2. \A key \in DOMAIN baselines' :
                 /\ key[1] \in Names(metrics)'
                 /\ FactKey(key[1], key[2]) \in DOMAIN facts'
                 /\ facts'[FactKey(key[1], key[2])].value = baselines'[key]
    BY <1>1, <1>2, ForgetSound
  <2> QED BY <2>1, <2>2 DEF BaselinesBacked
<1> QED BY <1>1, <1>2, <1>3, <1>4, ForgetSound DEF BaselineInv

LEMMA RegisterSound ==
    ASSUME BaselineInv, NEW name \in Metric, NEW grouped \in BOOLEAN, Register(name, grouped)
    PROVE  BaselineInv'
<1> DEFINE rest == WithoutMetric(name)
           new == [name |-> name, grouped |-> grouped, id |-> registrations']
<1>1. /\ registrations' = registrations + 1 /\ metrics' = Append(rest, new)
      /\ intervals' = intervals \cup {name}
      /\ IF name \in Names(metrics) THEN Forget(name)
         ELSE UNCHANGED <<baselines, facts, prefixIndex>>
  BY DEF Register
<1>2. new \in MetricType /\ new.name = name
  BY <1>1 DEF MetricType, BaselineInv, BaselineTyped
<1> HIDE DEF new, rest
<1>3. /\ rest \in Seq(MetricType)
      /\ Names(rest) = Names(metrics) \ {name}
      /\ \A j, k \in DOMAIN rest : rest[j].name = rest[k].name => j = k
  BY WithoutMetricIs DEF rest
<1>4. /\ metrics' \in Seq(MetricType)
      /\ DOMAIN metrics' = 1..Len(rest) + 1 /\ DOMAIN rest = 1..Len(rest) /\ Len(rest) \in Nat
      /\ \A k \in DOMAIN rest : metrics'[k] = rest[k]
      /\ metrics'[Len(rest) + 1] = new
  BY <1>1, <1>2, <1>3
<1>5. Names(metrics)' = Names(rest) \cup {name}
  BY <1>2, <1>4 DEF Names
<1>6. \A j, k \in DOMAIN metrics' : metrics'[j].name = metrics'[k].name => j = k
  <2>1. ASSUME NEW j \in DOMAIN rest PROVE metrics'[j].name # name
    <3>1. rest[j].name \in Names(rest)
      BY DEF Names
    <3>2. name \notin Names(rest)
      BY <1>3
    <3> QED BY <1>4, <3>1, <3>2
  <2> SUFFICES ASSUME NEW j \in DOMAIN metrics', NEW k \in DOMAIN metrics',
                      metrics'[j].name = metrics'[k].name
               PROVE  j = k
    OBVIOUS
  <2>2. metrics'[Len(rest) + 1].name = name
    BY <1>2, <1>4
  <2>3. CASE j \in DOMAIN rest /\ k \in DOMAIN rest
    BY <1>3, <1>4, <2>3
  <2>4. CASE j \notin DOMAIN rest
    <3>1. j = Len(rest) + 1
      BY <1>4, <2>4
    <3> QED BY <1>4, <2>1, <2>2, <3>1
  <2>5. CASE k \notin DOMAIN rest
    <3>1. k = Len(rest) + 1
      BY <1>4, <2>5
    <3> QED BY <1>4, <2>1, <2>2, <3>1
  <2> QED BY <2>3, <2>4, <2>5
<1>7. intervals' \subseteq Names(metrics)'
  BY <1>1, <1>3, <1>5 DEF BaselineInv, BaselinesBacked
<1>8. Names(metrics) \ {name} \subseteq Names(metrics)'
  BY <1>3, <1>5
<1>9. /\ StoreInv'
      /\ \A key \in DOMAIN baselines' : key = <<key[1], key[2]>>
      /\ \A key \in DOMAIN baselines' :
            /\ key[1] \in Names(metrics)'
            /\ FactKey(key[1], key[2]) \in DOMAIN facts'
            /\ facts'[FactKey(key[1], key[2])].value = baselines'[key]
  <2>1. CASE name \in Names(metrics)
    BY <1>1, <1>8, <2>1, ForgetSound
  <2>2. CASE name \notin Names(metrics)
    <3>1. UNCHANGED <<baselines, facts, prefixIndex>>
      BY <1>1, <2>2
    <3>2. StoreInv'
      BY <3>1 DEF BaselineInv, StoreInv
    <3>3. Names(metrics) \subseteq Names(metrics)'
      BY <1>8, <2>2
    <3> QED BY <3>1, <3>2, <3>3 DEF BaselineInv, BaselineTyped, BaselinesBacked, FactKey
  <2> QED BY <2>1, <2>2
<1>10. BaselineTyped'
  BY <1>1, <1>4, <1>6, <1>9 DEF BaselineInv, BaselineTyped
<1>11. BaselinesBacked'
  BY <1>7, <1>9 DEF BaselinesBacked
<1> QED BY <1>9, <1>10, <1>11 DEF BaselineInv

LEMMA BaselineNextSound ==
    ASSUME BaselineInv, BaselineNext
    PROVE  BaselineInv'
<1>1. ASSUME NEW name \in Metric, NEW grouped \in BOOLEAN, Register(name, grouped)
      PROVE  BaselineInv'
  BY <1>1, RegisterSound
<1>2. ASSUME NEW name \in Metric, Unregister(name)
      PROVE  BaselineInv'
  BY <1>2, UnregisterSound
<1>3. ASSUME NEW name \in Metric, NEW group \in GroupKey \cup {NoGroupKey},
             Recalculate(name, group)
      PROVE  BaselineInv'
  BY <1>3, RecalculatedSound DEF Recalculate
<1>4. ASSUME NEW name \in Metric, IntervalFires(name)
      PROVE  BaselineInv'
  BY <1>4, RecalculatedSound DEF IntervalFires, Begin
<1>5. CASE RecalculateAll
  BY <1>5, RecalculatedSound DEF RecalculateAll, Begin
<1>6. ASSUME NEW l \in DOMAIN loops, NextGroup(l)
      PROVE  BaselineInv'
  BY <1>6, RecalculatedSound DEF NextGroup
<1>7. ASSUME NEW l \in DOMAIN loops, NextMetric(l)
      PROVE  BaselineInv'
  BY <1>7, RecalculatedSound DEF NextMetric, Begin
<1>8. ASSUME UNCHANGED <<metrics, baselines, registrations, facts, prefixIndex>>,
             intervals' \subseteq intervals
      PROVE  BaselineInv'
  BY <1>8 DEF BaselineInv, StoreInv, BaselineTyped, BaselinesBacked, Names, FactKey
<1>9. ASSUME NEW l \in DOMAIN loops, LoopFails(l) \/ LoopEnds(l)
      PROVE  BaselineInv'
  BY <1>8, <1>9 DEF LoopFails, LoopEnds
<1>10. CASE StopBaselines
  BY <1>8, <1>10 DEF StopBaselines
<1>11. CASE GroupsChange
  BY <1>8, <1>11 DEF GroupsChange
<1> QED BY <1>1, <1>2, <1>3, <1>4, <1>5, <1>6, <1>7, <1>9, <1>10, <1>11 DEF BaselineNext

-----------------------------------------------------------------------------
(* Lookups *)

LEMMA LookCardinality == \A S : Look!Cardinality(S) = Cardinality(S)
BY DEF Look!Cardinality, Cardinality

\* The longest time for which a lookup of a key keeps a value is there when one does.
LEMMA LongestTtlIs ==
    ASSUME NEW l \in Lookup, LookupOf[l].cached
    PROVE  /\ Look!LongestTtl(LookupOf[l].key) \in Nat
           /\ LookupOf[l].ttl <= Look!LongestTtl(LookupOf[l].key)
<1> DEFINE key == LookupOf[l].key
           some == {m \in Lookup : LookupOf[m].key = key /\ LookupOf[m].cached}
           ttls == {LookupOf[m].ttl : m \in some}
<1>1. ttls \in SUBSET Nat /\ LookupOf[l].ttl \in ttls
  BY LookupsTyped
<1>2. IsFiniteSet(some)
  BY LookupsTyped, FS_Subset
<1>3. IsFiniteSet(ttls)
  <2> DEFINE f == [m \in some |-> LookupOf[m].ttl]
  <2>1. f \in Surjection(some, ttls)
    BY DEF Surjection
  <2> QED BY <1>2, <2>1, FS_Surjection
<1>4. PICK t \in ttls : \A u \in ttls : u <= t
  <2> HIDE DEF ttls
  <2> QED BY <1>1, <1>3, Greatest
<1> DEFINE best(x) == /\ \E m \in Lookup : /\ LookupOf[m].key = key /\ LookupOf[m].cached
                                           /\ LookupOf[m].ttl = x
                      /\ \A m \in Lookup : LookupOf[m].key = key /\ LookupOf[m].cached =>
                                              LookupOf[m].ttl <= x
<1>5. t \in {LookupOf[m].ttl : m \in Lookup} /\ best(t)
  BY <1>4
<1>6. Look!LongestTtl(key) = CHOOSE u \in {LookupOf[m].ttl : m \in Lookup} : best(u)
  BY DEF Look!LongestTtl
<1>7. best(Look!LongestTtl(key)) /\ Look!LongestTtl(key) \in {LookupOf[m].ttl : m \in Lookup}
  <2> HIDE DEF best
  <2> QED BY <1>5, <1>6
<1> QED BY <1>7, LookupsTyped

KeyOf(l) == LookupOf[l].key

\* What a call of a service is remembered by.
IsCall(call) == call = [key |-> call.key, answered |-> call.answered] /\ call.answered \in Int

\* Of the calls in a list: what is in the cache was answered for its key, and expires
\* within the longest time.
KeptFor(entry, key, list) ==
    entry # None /\ entry.value # None =>
        /\ entry.value \in DOMAIN list /\ list[entry.value].key = key
        /\ list[entry.value].answered \in Nat /\ entry.expiresAt \in Int
        /\ Look!LongestTtl(key) \in Nat
        /\ entry.expiresAt <= list[entry.value].answered + Look!LongestTtl(key)

\* A lookup of a resolution waits for a call of its key, or has got what is fresh.
FoundFor(s, key, list) ==
    /\ s.at \in {"called", "answered", "failed", "cached"}
    /\ s.at = "called" => s.call \in DOMAIN list /\ list[s.call].key = key
    /\ s.at = "cached" =>
          /\ s.call \in DOMAIN list /\ list[s.call].key = key
          /\ list[s.call].answered \in Nat /\ s.looked \in Int /\ Look!LongestTtl(key) \in Nat
          /\ s.looked < list[s.call].answered + Look!LongestTtl(key)

ResolutionSound(res, list) ==
    /\ res = [rule |-> res.rule, outcome |-> res.outcome, state |-> res.state]
    /\ res.rule \in RuleLookups /\ DOMAIN res.state = DOMAIN res.rule
    /\ \A i \in DOMAIN res.state : FoundFor(res.state[i], KeyOf(res.rule[i]), list)
    /\ res.outcome = "resolved" <=>
          \A i \in DOMAIN res.state : res.state[i].at \in {"cached", "answered"}

LookInv ==
    /\ IsLog(calls) /\ IsLog(resolutions) /\ lookupClock \in Nat
    /\ hits \in Nat /\ misses \in Nat /\ gets = hits + misses
    /\ \A n \in DOMAIN calls : IsCall(calls[n]) /\ calls[n].answered <= lookupClock
    /\ \A key \in Look!LookupKeys : KeptFor(cache[key], key, calls)
    /\ \A r \in DOMAIN resolutions : ResolutionSound(resolutions[r], calls)

LEMMA LookInitSound == ASSUME Look!LookupInit PROVE LookInv
BY DEF Look!LookupInit, LookInv, IsLog, KeptFor

\* Calls are added, and answered later than before.
Later(list, next) ==
    /\ DOMAIN list \subseteq DOMAIN next
    /\ \A n \in DOMAIN list : IsCall(list[n]) /\ IsCall(next[n])
    /\ \A n \in DOMAIN list :
          /\ next[n].key = list[n].key
          /\ list[n].answered \in Nat => next[n].answered >= list[n].answered

LEMMA RuleIs ==
    ASSUME NEW wanted \in RuleLookups
    PROVE  /\ Len(wanted) \in Nat /\ DOMAIN wanted = 1..Len(wanted)
           /\ \A i \in DOMAIN wanted : wanted[i] \in Lookup /\ KeyOf(wanted[i]) \in Look!LookupKeys
BY LookupsTyped DEF KeyOf, Look!LookupKeys

LEMMA LongestIsNat ==
    ASSUME NEW l \in Lookup, LookupOf[l].cached
    PROVE  Look!LongestTtl(KeyOf(l)) \in Nat /\ LookupOf[l].ttl <= Look!LongestTtl(KeyOf(l))
BY LongestTtlIs DEF KeyOf

LEMMA FoundLater ==
    ASSUME NEW list, NEW next, Later(list, next), NEW s, NEW key, FoundFor(s, key, list)
    PROVE  FoundFor(s, key, next)
<1>1. \A n \in DOMAIN list : list[n].answered \in Int /\ next[n].answered \in Int
  BY DEF Later, IsCall
<1>2. CASE s.at = "cached"
  BY <1>1, <1>2 DEF FoundFor, Later
<1> QED BY <1>2 DEF FoundFor, Later

LEMMA KeptLater ==
    ASSUME NEW list, NEW next, Later(list, next), NEW entry, NEW key, KeptFor(entry, key, list)
    PROVE  KeptFor(entry, key, next)
<1>1. \A n \in DOMAIN list : list[n].answered \in Int /\ next[n].answered \in Int
  BY DEF Later, IsCall
<1> QED BY <1>1 DEF KeptFor, Later

LEMMA SoundLater ==
    ASSUME NEW list, NEW next, Later(list, next), NEW res, ResolutionSound(res, list)
    PROVE  ResolutionSound(res, next)
<1>1. \A i \in DOMAIN res.state : FoundFor(res.state[i], KeyOf(res.rule[i]), next)
  BY FoundLater DEF ResolutionSound
<1> QED BY <1>1 DEF ResolutionSound

LEMMA CachedIs ==
    ASSUME LookInv, NEW l \in Lookup, Look!CacheGet(KeyOf(l)) # None
    PROVE  FoundFor([at |-> "cached", call |-> Look!CacheGet(KeyOf(l)), looked |-> lookupClock],
                    KeyOf(l), calls)
<1>1. KeptFor(cache[KeyOf(l)], KeyOf(l), calls)
  BY DEF LookInv, KeyOf, Look!LookupKeys
<1>2. /\ cache[KeyOf(l)] # None /\ lookupClock < cache[KeyOf(l)].expiresAt
      /\ Look!CacheGet(KeyOf(l)) = cache[KeyOf(l)].value
  BY DEF Look!CacheGet, Look!Fresh
<1>3. lookupClock \in Nat
  BY DEF LookInv
<1> QED BY <1>1, <1>2, <1>3 DEF KeptFor, FoundFor

LEMMA ResolveSound ==
    ASSUME LookInv, NEW wanted \in RuleLookups, Look!Resolve(wanted)
    PROVE  LookInv'
<1> DEFINE key(i) == LookupOf[wanted[i]].key
           found(i) == IF i \in Look!Asked(wanted) THEN Look!CacheGet(key(i)) ELSE None
           called == {i \in DOMAIN wanted : found(i) = None}
           hit == {i \in Look!Asked(wanted) : Look!Fresh(key(i))}
           number(i) == Len(calls) + Look!Cardinality({j \in called : j <= i})
           state == [i \in DOMAIN wanted |->
                       IF i \in called THEN [at |-> "called", call |-> number(i)]
                       ELSE [at |-> "cached", call |-> found(i), looked |-> lookupClock]]
           new == [rule |-> wanted, outcome |-> IF called = {} THEN "resolved" ELSE "waiting",
                   state |-> state]
           N == Len(calls) + Look!Cardinality(called)
<1>1. /\ cache' = [k \in Look!LookupKeys |->
                     IF \E i \in Look!Asked(wanted) : key(i) = k THEN Look!Looked(k) ELSE cache[k]]
      /\ hits' = hits + Look!Cardinality(hit)
      /\ misses' = misses + Look!Cardinality(Look!Asked(wanted) \ hit)
      /\ gets' = gets + Look!Cardinality(Look!Asked(wanted))
      /\ calls' = [n \in 1..N |->
                     IF n <= Len(calls) THEN calls[n]
                     ELSE [key |-> key(CHOOSE i \in called : number(i) = n), answered |-> -1]]
      /\ resolutions' = Append(resolutions, new)
      /\ lookupClock' = lookupClock
  BY DEF Look!Resolve
<1> HIDE DEF state, new
<1>2. /\ Len(wanted) \in Nat /\ DOMAIN wanted = 1..Len(wanted)
      /\ \A i \in DOMAIN wanted : wanted[i] \in Lookup /\ key(i) \in Look!LookupKeys
  BY RuleIs DEF KeyOf
<1>3. IsFiniteSet(DOMAIN wanted) /\ DOMAIN wanted \in SUBSET Nat
  BY <1>2, FS_Interval
<1>4. /\ IsFiniteSet(called) /\ Cardinality(called) \in Nat /\ called \in SUBSET Nat
      /\ called \subseteq DOMAIN wanted
  BY <1>3, FS_Subset, FS_CardinalityType
<1>5. Len(calls) \in Nat /\ DOMAIN calls = 1..Len(calls)
  BY LogIs DEF LookInv
<1>6. N = Len(calls) + Cardinality(called) /\ N \in Nat /\ N >= Len(calls)
  <2> HIDE DEF called
  <2> QED BY <1>4, <1>5, LookCardinality
<1>7. /\ \A i \in called : number(i) \in 1..N /\ ~(number(i) <= Len(calls))
      /\ \A i, j \in called : number(i) = number(j) => i = j
  <2>1. /\ \A i \in called : Cardinality({j \in called : j <= i}) \in 1..Cardinality(called)
        /\ \A i, k \in called : Cardinality({j \in called : j <= i})
                                  = Cardinality({j \in called : j <= k}) => i = k
    <3> HIDE DEF called
    <3> QED BY <1>4, Ranks
  <2>2. \A i \in called : number(i) = Len(calls) + Cardinality({j \in called : j <= i})
    <3> HIDE DEF called
    <3> QED BY LookCardinality
  <2> DEFINE rank(i) == Cardinality({j \in called : j <= i})
  <2>3. /\ \A i \in called : rank(i) \in 1..Cardinality(called)
        /\ \A i, k \in called : rank(i) = rank(k) => i = k
        /\ \A i \in called : number(i) = Len(calls) + rank(i)
    BY <2>1, <2>2
  <2> HIDE DEF called, number, N, rank
  <2> QED BY <1>4, <1>5, <1>6, <2>3
<1>8. DOMAIN calls' = 1..N /\ IsLog(calls')
      /\ \A n \in 1..N : calls'[n] =
            IF n <= Len(calls) THEN calls[n]
            ELSE [key |-> key(CHOOSE i \in called : number(i) = n), answered |-> -1]
  <2>1. DOMAIN calls' = 1..N
        /\ \A n \in 1..N : calls'[n] =
              IF n <= Len(calls) THEN calls[n]
              ELSE [key |-> key(CHOOSE i \in called : number(i) = n), answered |-> -1]
    <3> HIDE DEF called, number, N, key
    <3> QED BY <1>1
  <2>2. calls' = [n \in 1..N |-> calls'[n]]
    <3> HIDE DEF called, number, N, key
    <3> QED BY <1>1
  <2>3. IsLog(calls')
    <3> HIDE DEF N
    <3> QED BY <1>6, <2>2, LogOfLength
  <2> QED BY <2>1, <2>3
<1>9. \A i \in called : number(i) \in DOMAIN calls' /\ calls'[number(i)].key = key(i)
  <2> SUFFICES ASSUME NEW i \in called
               PROVE  number(i) \in DOMAIN calls' /\ calls'[number(i)].key = key(i)
    OBVIOUS
  <2>1. number(i) \in 1..N /\ ~(number(i) <= Len(calls))
    BY <1>7
  <2>2. (CHOOSE j \in called : number(j) = number(i)) = i
    <3> HIDE DEF called, number
    <3> QED BY <1>7
  <2>3. calls'[number(i)] = [key |-> key(i), answered |-> -1]
    <3> HIDE DEF called, number, N, key
    <3> QED BY <1>8, <2>1, <2>2
  <2> HIDE DEF called, number, N, key
  <2> QED BY <1>8, <2>1, <2>3
<1>10. \A n \in DOMAIN calls' : IsCall(calls'[n]) /\ calls'[n].answered <= lookupClock
  <2> SUFFICES ASSUME NEW n \in 1..N
               PROVE  IsCall(calls'[n]) /\ calls'[n].answered <= lookupClock
    BY <1>8
  <2>1. CASE n <= Len(calls)
    <3>1. n \in DOMAIN calls /\ calls'[n] = calls[n]
      <4> HIDE DEF called, number, N, key
      <4> QED BY <1>5, <1>6, <1>8, <2>1
    <3> QED BY <3>1 DEF LookInv
  <2>2. CASE ~(n <= Len(calls))
    <3>1. PICK k : calls'[n] = [key |-> k, answered |-> -1]
      <4> HIDE DEF called, number, N, key
      <4> QED BY <1>8, <2>2
    <3> QED BY <3>1 DEF IsCall, LookInv
  <2> QED BY <2>1, <2>2
<1>11. Later(calls, calls')
  <2>1. \A n \in DOMAIN calls : n \in DOMAIN calls' /\ calls'[n] = calls[n]
    <3> HIDE DEF called, number, N, key
    <3> QED BY <1>5, <1>6, <1>8
  <2>2. \A n \in DOMAIN calls : calls[n].answered \in Int /\ IsCall(calls[n])
    BY DEF LookInv, IsCall
  <2> QED BY <1>10, <2>1, <2>2 DEF Later
<1> HIDE DEF N, number
<1>12. /\ DOMAIN new.state = DOMAIN wanted
       /\ new = [rule |-> wanted, outcome |-> new.outcome, state |-> new.state]
       /\ new.rule = wanted /\ new.state = state /\ DOMAIN state = DOMAIN wanted
       /\ new.outcome = IF called = {} THEN "resolved" ELSE "waiting"
  BY DEF new, state
<1>13. \A i \in DOMAIN wanted : /\ FoundFor(state[i], key(i), calls')
                              /\ state[i].at = IF i \in called THEN "called" ELSE "cached"
  <2> SUFFICES ASSUME NEW i \in DOMAIN wanted
               PROVE  /\ FoundFor(state[i], key(i), calls')
                      /\ state[i].at = IF i \in called THEN "called" ELSE "cached"
    OBVIOUS
  <2>1. CASE i \in called
    <3>1. state[i] = [at |-> "called", call |-> number(i)]
      BY <2>1 DEF state
    <3>2. number(i) \in DOMAIN calls' /\ calls'[number(i)].key = key(i)
      BY <1>9, <2>1
    <3> HIDE DEF called, key
    <3> QED BY <2>1, <3>1, <3>2 DEF FoundFor
  <2>2. CASE i \notin called
    <3>1. state[i] = [at |-> "cached", call |-> found(i), looked |-> lookupClock]
      BY <2>2 DEF state
    <3>2. found(i) # None
      BY <2>2
    <3>3. found(i) = Look!CacheGet(key(i)) /\ Look!CacheGet(key(i)) # None
      BY <3>2
    <3>4. wanted[i] \in Lookup /\ KeyOf(wanted[i]) = key(i)
      BY <1>2 DEF KeyOf
    <3>5. FoundFor(state[i], key(i), calls)
      <4> HIDE DEF found, key
      <4> QED BY <3>1, <3>3, <3>4, CachedIs
    <3>6. state[i].at = "cached"
      BY <3>1
    <3>7. FoundFor(state[i], key(i), calls')
      <4> HIDE DEF called, key
      <4> QED BY <1>11, <3>5, FoundLater
    <3> HIDE DEF called, key
    <3> QED BY <2>2, <3>6, <3>7
  <2> QED BY <2>1, <2>2
<1>14. ResolutionSound(new, calls')
  <2>1. new.outcome = "resolved" <=>
           \A i \in DOMAIN new.state : new.state[i].at \in {"cached", "answered"}
    <3>1. CASE called = {}
      <4> HIDE DEF called
      <4> QED BY <1>12, <1>13, <3>1
    <3>2. CASE called # {}
      <4> HIDE DEF called
      <4>1. PICK i \in called : TRUE
        BY <3>2
      <4>2. i \in DOMAIN wanted /\ state[i].at = "called"
        BY <1>4, <1>13, <4>1
      <4> QED BY <1>12, <3>2, <4>2
    <3> QED BY <3>1, <3>2
  <2>2. \A i \in DOMAIN new.state : FoundFor(new.state[i], KeyOf(new.rule[i]), calls')
    BY <1>12, <1>13 DEF KeyOf
  <2> QED BY <1>12, <2>1, <2>2 DEF ResolutionSound
<1>15. /\ IsLog(resolutions')
       /\ \A r \in DOMAIN resolutions' : ResolutionSound(resolutions'[r], calls')
  <2>1. IsLog(resolutions)
    BY DEF LookInv
  <2>2. \A r \in DOMAIN resolutions : ResolutionSound(resolutions[r], calls')
    BY <1>11, SoundLater DEF LookInv
  <2> HIDE DEF called, key
  <2>3. /\ IsLog(resolutions') /\ DOMAIN resolutions' = 1..Len(resolutions) + 1
        /\ DOMAIN resolutions = 1..Len(resolutions) /\ Len(resolutions) \in Nat
        /\ \A r \in DOMAIN resolutions : resolutions'[r] = resolutions[r]
        /\ resolutions'[Len(resolutions) + 1] = new
    BY <1>1, <2>1, LogGrows
  <2> QED BY <1>14, <2>2, <2>3
<1>16. \A k \in Look!LookupKeys : KeptFor(cache'[k], k, calls')
  <2> SUFFICES ASSUME NEW k \in Look!LookupKeys PROVE KeptFor(cache'[k], k, calls')
    OBVIOUS
  <2>1. cache'[k] = cache[k] \/ cache'[k] = None
    BY <1>1 DEF Look!Looked
  <2>2. KeptFor(cache[k], k, calls')
    BY <1>11, KeptLater DEF LookInv
  <2> QED BY <2>1, <2>2 DEF KeptFor
<1>17. hits' \in Nat /\ misses' \in Nat /\ gets' = hits' + misses'
  <2> DEFINE asked == Look!Asked(wanted)
  <2>1. IsFiniteSet(asked) /\ Cardinality(asked) \in Nat
    BY <1>3, FS_Subset, FS_CardinalityType DEF Look!Asked
  <2>2. hit \subseteq asked
    OBVIOUS
  <2> HIDE DEF asked, hit
  <2>3. IsFiniteSet(hit) /\ Cardinality(hit) \in Nat /\ asked \cap hit = hit
    BY <2>1, <2>2, FS_Subset, FS_CardinalityType
  <2>4. /\ IsFiniteSet(asked \ hit) /\ Cardinality(asked \ hit) \in Nat
        /\ Cardinality(asked \ hit) = Cardinality(asked) - Cardinality(hit)
    BY <2>1, <2>3, FS_Difference, FS_CardinalityType
  <2>5. /\ hits' = hits + Cardinality(hit) /\ misses' = misses + Cardinality(asked \ hit)
        /\ gets' = gets + Cardinality(asked)
    BY <1>1, LookCardinality DEF asked, hit
  <2>6. hits \in Nat /\ misses \in Nat /\ gets = hits + misses
    BY DEF LookInv
  <2> QED BY <2>1, <2>3, <2>4, <2>5, <2>6
<1>18. lookupClock' = lookupClock /\ lookupClock \in Nat
  BY <1>1 DEF LookInv
<1> HIDE DEF called, key, hit
<1> QED BY SMTT(40), <1>8, <1>10, <1>15, <1>16, <1>17, <1>18 DEF LookInv

LEMMA Settled ==
    ASSUME NEW old, NEW state, NEW outcome,
           old = [rule |-> old.rule, outcome |-> old.outcome, state |-> old.state]
    PROVE  [[old EXCEPT !.state = state] EXCEPT !.outcome = outcome]
              = [rule |-> old.rule, outcome |-> outcome, state |-> state]
<1> DEFINE a == old.rule
           b == old.outcome
           c == old.state
<1>1. old = [rule |-> a, outcome |-> b, state |-> c]
  OBVIOUS
<1> HIDE DEF a, b, c
<1>2. [[rule |-> a, outcome |-> b, state |-> c] EXCEPT !.state = state]
        = [rule |-> a, outcome |-> b, state |-> state]
  OBVIOUS
<1>3. [[rule |-> a, outcome |-> b, state |-> state] EXCEPT !.outcome = outcome]
        = [rule |-> a, outcome |-> outcome, state |-> state]
  OBVIOUS
<1> QED BY <1>1, <1>2, <1>3 DEF a

\* What one of its lookups becomes, and with it the outcome.
LEMMA SettlesSound ==
    ASSUME LookInv, Later(calls, calls'), NEW r \in DOMAIN resolutions,
           NEW i \in DOMAIN resolutions[r].state, NEW new, Look!Settles(r, i, new),
           new.at \in {"answered", "failed"}
    PROVE  /\ IsLog(resolutions')
           /\ \A n \in DOMAIN resolutions' : ResolutionSound(resolutions'[n], calls')
<1> DEFINE old == resolutions[r]
           state == [old.state EXCEPT ![i] = new]
           res == [rule |-> old.rule, outcome |-> Look!Outcome(r, state), state |-> state]
<1>1. ResolutionSound(old, calls')
  BY SoundLater DEF LookInv
<1>2. resolutions' = [resolutions EXCEPT ![r] = res]
  <2>1. resolutions' = [resolutions EXCEPT ![r].state = state,
                                           ![r].outcome = Look!Outcome(r, state)]
    BY DEF Look!Settles
  <2>2. old = [rule |-> old.rule, outcome |-> old.outcome, state |-> old.state]
    BY <1>1 DEF ResolutionSound
  <2> HIDE DEF state
  <2>3. [[old EXCEPT !.state = state] EXCEPT !.outcome = Look!Outcome(r, state)] = res
    <3> DEFINE outcome == Look!Outcome(r, state)
    <3> HIDE DEF old, outcome
    <3>1. [[old EXCEPT !.state = state] EXCEPT !.outcome = outcome]
             = [rule |-> old.rule, outcome |-> outcome, state |-> state]
      BY <2>2, Settled
    <3> QED BY <3>1 DEF outcome
  <2> QED BY <2>1, <2>3
<1>3. /\ DOMAIN state = DOMAIN old.state
      /\ \A k \in DOMAIN state : state[k] = IF k = i THEN new ELSE old.state[k]
  OBVIOUS
<1>4. \A k \in DOMAIN state : FoundFor(state[k], KeyOf(old.rule[k]), calls')
  <2> SUFFICES ASSUME NEW k \in DOMAIN state
               PROVE  FoundFor(state[k], KeyOf(old.rule[k]), calls')
    OBVIOUS
  <2>1. CASE k = i
    <3>1. state[k] = new
      BY <1>3, <2>1
    <3> HIDE DEF state
    <3> QED BY <3>1 DEF FoundFor
  <2>2. CASE k # i
    BY <1>1, <1>3, <2>2 DEF ResolutionSound
  <2> QED BY <2>1, <2>2
<1> HIDE DEF state
<1>5. Look!Outcome(r, state) = "resolved" <=>
         \A k \in DOMAIN state : state[k].at \in {"cached", "answered"}
  <2>1. \A k \in DOMAIN state : state[k].at \in {"called", "answered", "failed", "cached"}
    BY <1>4 DEF FoundFor
  <2> QED BY <2>1 DEF Look!Outcome
<1>6. ResolutionSound(res, calls')
  <2>1. /\ res.rule = old.rule /\ res.state = state /\ res.outcome = Look!Outcome(r, state)
        /\ res = [rule |-> res.rule, outcome |-> res.outcome, state |-> res.state]
    OBVIOUS
  <2> HIDE DEF res
  <2> QED BY <1>1, <1>3, <1>4, <1>5, <2>1 DEF ResolutionSound
<1> HIDE DEF res, old
<1>7. IsLog(resolutions)
  BY DEF LookInv
<1>8. /\ IsLog(resolutions') /\ DOMAIN resolutions' = DOMAIN resolutions
      /\ \A n \in DOMAIN resolutions : resolutions'[n] = IF n = r THEN res ELSE resolutions[n]
  BY <1>2, <1>7, LogExcept
<1>9. \A n \in DOMAIN resolutions : ResolutionSound(resolutions[n], calls')
  BY SoundLater DEF LookInv
<1> QED BY <1>6, <1>8, <1>9

LEMMA AnswerSound ==
    ASSUME LookInv, NEW r \in DOMAIN resolutions, NEW i \in Look!Pending(r),
           NEW defined \in BOOLEAN,
           Look!Answer(r, i, defined)
    PROVE  LookInv'
<1> DEFINE s == resolutions[r].state[i]
           l == resolutions[r].rule[i]
           value == IF defined THEN s.call ELSE None
           entry == [value |-> value, expiresAt |-> lookupClock + LookupOf[l].ttl]
<1>1. /\ calls' = [calls EXCEPT ![s.call].answered = lookupClock]
      /\ cache' = IF ~LookupOf[l].cached THEN cache ELSE [cache EXCEPT ![KeyOf(l)] = entry]
      /\ Look!Settles(r, i, [at |-> "answered", call |-> value])
      /\ UNCHANGED <<hits, misses, gets, lookupClock>>
  BY DEF Look!Answer, KeyOf
<1>2. i \in DOMAIN resolutions[r].state /\ s.at = "called"
  BY DEF Look!Pending
<1>3. ResolutionSound(resolutions[r], calls)
  BY DEF LookInv
<1>4. /\ s.call \in DOMAIN calls /\ calls[s.call].key = KeyOf(l)
      /\ resolutions[r].rule \in RuleLookups /\ i \in DOMAIN resolutions[r].rule
  BY <1>2, <1>3 DEF ResolutionSound, FoundFor
<1>5. l \in Lookup /\ KeyOf(l) \in Look!LookupKeys
  BY <1>4, RuleIs
<1>6. lookupClock \in Nat /\ IsLog(calls)
  BY DEF LookInv
<1> DEFINE call == [key |-> KeyOf(l), answered |-> lookupClock]
<1>7. calls' = [calls EXCEPT ![s.call] = call]
  <2>1. IsCall(calls[s.call])
    BY <1>4 DEF LookInv
  <2>2. [calls[s.call] EXCEPT !.answered = lookupClock] = call
    BY <1>4, <2>1 DEF IsCall
  <2> HIDE DEF s, call
  <2> QED BY <1>1, <2>2
<1> HIDE DEF s, l
<1>8. /\ IsLog(calls') /\ DOMAIN calls' = DOMAIN calls
      /\ \A n \in DOMAIN calls : calls'[n] = IF n = s.call THEN call ELSE calls[n]
  <2> HIDE DEF call
  <2> QED BY <1>4, <1>6, <1>7, LogExcept
<1>9. IsCall(call) /\ call.answered = lookupClock /\ call.key = KeyOf(l)
  BY <1>6 DEF IsCall
<1> HIDE DEF call
<1>10. \A n \in DOMAIN calls' : IsCall(calls'[n]) /\ calls'[n].answered <= lookupClock
  BY <1>6, <1>8, <1>9 DEF LookInv
<1>11. Later(calls, calls')
  <2>1. \A n \in DOMAIN calls : IsCall(calls[n]) /\ calls[n].answered \in Int
            /\ calls[n].answered <= lookupClock
    BY DEF LookInv, IsCall
  <2> QED BY <1>4, <1>6, <1>8, <1>9, <1>10, <2>1 DEF Later
<1>12. \A k \in Look!LookupKeys : KeptFor(cache'[k], k, calls')
  <2> SUFFICES ASSUME NEW k \in Look!LookupKeys PROVE KeptFor(cache'[k], k, calls')
    OBVIOUS
  <2>1. KeptFor(cache[k], k, calls')
    BY <1>11, KeptLater DEF LookInv
  <2>2. CASE cache'[k] = cache[k]
    BY <2>1, <2>2
  <2>3. CASE cache'[k] # cache[k]
    <3>1. LookupOf[l].cached /\ k = KeyOf(l) /\ cache'[k] = entry
      <4> HIDE DEF entry
      <4> QED BY <1>1, <2>3
    <3>2. Look!LongestTtl(k) \in Nat /\ LookupOf[l].ttl <= Look!LongestTtl(k)
      BY <1>5, <3>1, LongestIsNat
    <3>3. LookupOf[l].ttl \in Nat
      BY <1>5, LookupsTyped
    <3>4. entry.value # None => entry.value = s.call
      OBVIOUS
    <3>5. entry.expiresAt = lookupClock + LookupOf[l].ttl
      OBVIOUS
    <3>6. calls'[s.call] = call /\ s.call \in DOMAIN calls'
      BY <1>4, <1>8
    <3> HIDE DEF entry
    <3>7. entry.value # None =>
             /\ entry.value \in DOMAIN calls' /\ calls'[entry.value].key = k
             /\ calls'[entry.value].answered = lookupClock
      BY <1>9, <3>1, <3>4, <3>6
    <3>8. entry.expiresAt \in Int /\ entry.expiresAt <= lookupClock + Look!LongestTtl(k)
      BY <1>6, <3>2, <3>3, <3>5
    <3> QED BY <1>6, <3>1, <3>2, <3>7, <3>8 DEF KeptFor
  <2> QED BY <2>2, <2>3
<1>13. /\ IsLog(resolutions')
       /\ \A n \in DOMAIN resolutions' : ResolutionSound(resolutions'[n], calls')
  <2> DEFINE new == [at |-> "answered", call |-> value]
  <2>1. new.at = "answered" /\ Look!Settles(r, i, new)
    BY <1>1
  <2> HIDE DEF new
  <2> QED BY <1>2, <1>11, <2>1, SettlesSound
<1> HIDE DEF entry, value
<1> QED BY ZenonT(40), <1>1, <1>8, <1>10, <1>12, <1>13 DEF LookInv

\* The calls stay as they are.
LEMMA SameCalls == ASSUME LookInv, calls' = calls PROVE Later(calls, calls')
<1>1. \A n \in DOMAIN calls : IsCall(calls[n]) /\ calls[n].answered \in Int
  BY DEF LookInv, IsCall
<1> QED BY <1>1 DEF Later

LEMMA LookupFailsSound ==
    ASSUME LookInv, NEW r \in DOMAIN resolutions, NEW i \in Look!Pending(r), Look!LookupFails(r, i)
    PROVE  LookInv'
<1> DEFINE new == [at |-> "failed", call |-> None]
<1>1. Look!Settles(r, i, new) /\ UNCHANGED <<cache, hits, misses, gets, calls, lookupClock>>
  BY DEF Look!LookupFails
<1>2. i \in DOMAIN resolutions[r].state /\ new.at = "failed"
  BY DEF Look!Pending
<1> HIDE DEF new
<1>3. /\ IsLog(resolutions')
      /\ \A n \in DOMAIN resolutions' : ResolutionSound(resolutions'[n], calls')
  BY <1>1, <1>2, SameCalls, SettlesSound
<1> QED BY <1>1, <1>3 DEF LookInv

\* Entries leave the cache, and time goes on.
LEMMA CacheEmptiesSound ==
    ASSUME LookInv, UNCHANGED <<calls, resolutions>>,
           \A k \in Look!LookupKeys : cache'[k] \in {cache[k], None},
           \/ UNCHANGED <<hits, misses, gets>>
           \/ hits' = 0 /\ misses' = 0 /\ gets' = 0,
           lookupClock' \in {lookupClock, lookupClock + 1}
    PROVE  LookInv'
<1>1. \A k \in Look!LookupKeys : KeptFor(cache'[k], k, calls')
  BY DEF LookInv, KeptFor
<1>2. \A n \in DOMAIN calls : calls[n].answered <= lookupClock'
  BY DEF LookInv, IsCall
<1> QED BY <1>1, <1>2 DEF LookInv

LEMMA LookNextSound == ASSUME LookInv, Look!LookupNext PROVE LookInv'
<1>1. ASSUME NEW wanted \in RuleLookups, Look!Resolve(wanted)
      PROVE  LookInv'
  BY <1>1, ResolveSound
<1>2. ASSUME NEW r \in DOMAIN resolutions, NEW i \in Look!Pending(r), Look!LookupFails(r, i)
      PROVE  LookInv'
  BY <1>2, LookupFailsSound
<1>3. ASSUME NEW r \in DOMAIN resolutions, NEW i \in Look!Pending(r), NEW defined \in BOOLEAN,
             Look!Answer(r, i, defined)
      PROVE  LookInv'
  BY <1>3, AnswerSound
<1>4. CASE Look!CleanupCache
  BY <1>4, CacheEmptiesSound DEF Look!CleanupCache, Look!Looked
<1>5. CASE Look!ClearCache
  BY <1>5, CacheEmptiesSound DEF Look!ClearCache
<1>6. CASE Look!LookupTick
  BY <1>6, CacheEmptiesSound DEF Look!LookupTick
<1> QED BY <1>1, <1>2, <1>3, <1>4, <1>5, <1>6 DEF Look!LookupNext

LEMMA LookIsFresh == ASSUME LookInv PROVE Look!CachedIsFresh
<1>1. ASSUME NEW r \in DOMAIN resolutions
      PROVE  /\ \A i \in DOMAIN resolutions[r].state :
                   LET s == resolutions[r].state[i]
                       key == LookupOf[resolutions[r].rule[i]].key
                   IN  s.at = "cached" =>
                          /\ calls[s.call].key = key /\ calls[s.call].answered >= 0
                          /\ s.looked < calls[s.call].answered + Look!LongestTtl(key)
             /\ (resolutions[r].outcome = "resolved") =
                   (\A i \in DOMAIN resolutions[r].state :
                       resolutions[r].state[i].at \in {"cached", "answered"})
  <2>1. ResolutionSound(resolutions[r], calls)
    BY DEF LookInv
  <2> DEFINE res == resolutions[r]
             got == \A i \in DOMAIN res.state : res.state[i].at \in {"cached", "answered"}
  <2>2. res.outcome = "resolved" <=> got
    BY <2>1 DEF ResolutionSound
  <2>3. got \in BOOLEAN
    OBVIOUS
  <2>4. (res.outcome = "resolved") = got
    <3> HIDE DEF got
    <3> QED BY <2>2, <2>3
  <2>5. ASSUME NEW i \in DOMAIN res.state, res.state[i].at = "cached"
        PROVE  LET s == res.state[i]
                   key == LookupOf[res.rule[i]].key
               IN  /\ calls[s.call].key = key /\ calls[s.call].answered >= 0
                   /\ s.looked < calls[s.call].answered + Look!LongestTtl(key)
    BY <2>1, <2>5 DEF ResolutionSound, FoundFor, KeyOf
  <2> QED BY <2>4, <2>5
<1>2. hits + misses = gets
  BY DEF LookInv
<1> QED BY <1>1, <1>2 DEF Look!CachedIsFresh

-----------------------------------------------------------------------------
(* Webhooks *)

LEMMA HookCardinality == \A S : Hooks!Cardinality(S) = Cardinality(S)
BY DEF Hooks!Cardinality, Cardinality

LEMMA PowerIs ==
    /\ Hooks!Power \in [Nat -> Nat] /\ Hooks!Power[0] = 1
    /\ \A k \in Nat : Hooks!Power[k + 1] = 2 * Hooks!Power[k]
<1> DEFINE step == [k \in Nat |-> [x \in Nat |-> 2 * x]]
           IsPower(f) == f = [k \in Nat |-> IF k = 0 THEN 1 ELSE 2 * f[k - 1]]
<1>1. step \in [Nat -> [Nat -> Nat]] /\ \A k, x \in Nat : step[k][x] = 2 * x
  OBVIOUS
<1>2. PICK f \in [Nat -> Nat] : f[0] = 1 /\ \A k \in Nat : f[k + 1] = step[k][f[k]]
  <2> HIDE DEF step
  <2>1. 1 \in Nat
    OBVIOUS
  <2>2. \E f : IsRecursive(f, Nat, 1, step)
    BY <1>1, <2>1, Recursion
  <2> QED BY <2>2 DEF IsRecursive
<1>3. \A k \in Nat : f[k] = IF k = 0 THEN 1 ELSE 2 * f[k - 1]
  <2> TAKE k \in Nat
  <2>1. CASE k # 0
    <3>1. k - 1 \in Nat /\ (k - 1) + 1 = k
      BY <2>1
    <3> HIDE DEF step
    <3> QED BY <1>1, <1>2, <2>1, <3>1
  <2> QED BY <1>2, <2>1
<1>4. IsPower(f)
  BY <1>2, <1>3
<1>5. Hooks!Power = CHOOSE g : IsPower(g)
  BY DEF Hooks!Power
<1>6. IsPower(Hooks!Power)
  <2> HIDE DEF IsPower
  <2> QED BY <1>4, <1>5
<1> DEFINE P == Hooks!Power
<1>7. P = [k \in Nat |-> IF k = 0 THEN 1 ELSE 2 * P[k - 1]]
  BY <1>6
<1> HIDE DEF P
<1>8. P[0] = 1 /\ DOMAIN P = Nat
  BY <1>7
<1>9. \A k \in Nat : P[k + 1] = 2 * P[k]
  BY <1>7
<1>10. \A k \in Nat : P[k] \in Nat
  <2> DEFINE Bad == {k \in Nat : P[k] \notin Nat}
  <2>1. SUFFICES ASSUME Bad # {} PROVE FALSE
    OBVIOUS
  <2>2. PICK k \in Bad : \A j \in Bad : k <= j
    <3>1. Bad \in SUBSET Nat
      OBVIOUS
    <3> HIDE DEF Bad
    <3> QED BY <2>1, <3>1, Smallest
  <2>3. k # 0
    BY <1>8
  <2>4. k - 1 \in Nat /\ P[k - 1] \in Nat /\ (k - 1) + 1 = k
    BY <2>2, <2>3
  <2> QED BY <1>9, <2>4
<1>11. P \in [Nat -> Nat]
  BY <1>7, <1>10
<1> QED BY <1>8, <1>9, <1>11 DEF P

\* The pauses grow.
LEMMA PowerGrows ==
    ASSUME NEW m \in Nat, NEW n \in Nat, m <= n
    PROVE  Hooks!Power[m] <= Hooks!Power[n] /\ Hooks!Power[m] \in Nat /\ Hooks!Power[n] \in Nat
<1> DEFINE P == Hooks!Power
           Bad == {k \in Nat : m <= k /\ ~(P[m] <= P[k])}
<1>1. /\ P \in [Nat -> Nat] /\ \A k \in Nat : P[k + 1] = 2 * P[k]
      /\ \A k \in Nat : P[k] \in Nat
  BY PowerIs
<1> HIDE DEF P
<1>2. Bad = {}
  <2>1. SUFFICES ASSUME Bad # {} PROVE FALSE
    OBVIOUS
  <2>2. PICK k \in Bad : \A j \in Bad : k <= j
    <3>1. Bad \in SUBSET Nat
      OBVIOUS
    <3> HIDE DEF Bad
    <3> QED BY <2>1, <3>1, Smallest
  <2>3. k # m
    BY <1>1
  <2>4. k - 1 \in Nat /\ m <= k - 1 /\ (k - 1) + 1 = k /\ k - 1 \notin Bad
    BY <2>2, <2>3
  <2>5. P[m] <= P[k - 1] /\ P[k] = 2 * P[k - 1] /\ P[m] \in Nat /\ P[k - 1] \in Nat
    BY <1>1, <2>4
  <2> QED BY <2>5
<1> QED BY <1>1, <1>2 DEF P

\* The pause before an attempt.
Pause(k) == RetryBaseDelay * Hooks!Power[k]

LEMMA PauseIs ==
    /\ Pause(0) = RetryBaseDelay /\ \A k \in Nat : Pause(k) \in Nat /\ Pause(k + 1) = 2 * Pause(k)
    /\ \A k \in Nat : RetryBaseDelay * (Hooks!Power[k] - 1) = Pause(k) - RetryBaseDelay
    /\ \A m, n \in Nat : m <= n => Pause(m) <= Pause(n)
<1>1. \A k \in Nat : Hooks!Power[k] \in Nat /\ Hooks!Power[k + 1] = 2 * Hooks!Power[k]
  BY PowerIs
<1>2. RetryBaseDelay \in Nat
  BY HooksTyped
<1>3. \A x, y \in Nat : /\ x * y \in Nat /\ x * (2 * y) = 2 * (x * y) /\ x * (y - 1) = x * y - x
                        /\ x * 1 = x
  OBVIOUS
<1>4. \A x, y, z \in Nat : y <= z => x * y <= x * z
  <2> SUFFICES ASSUME NEW x \in Nat, NEW y \in Nat, NEW z \in Nat, y <= z PROVE x * y <= x * z
    OBVIOUS
  <2>1. z - y \in Nat
    OBVIOUS
  <2>2. x * (z - y) \in Nat /\ x * (z - y) = x * z - x * y
    BY <2>1
  <2> QED BY <2>2
<1> DEFINE P == Hooks!Power
<1>5. P[0] = 1 /\ \A m, n \in Nat : m <= n => P[m] <= P[n]
  BY PowerIs, PowerGrows
<1>6. \A k \in Nat : Pause(k) = RetryBaseDelay * P[k]
  BY DEF Pause
<1>7. \A k \in Nat : P[k] \in Nat /\ P[k + 1] = 2 * P[k] /\ k + 1 \in Nat
  BY <1>1
<1> HIDE DEF P
<1>8. Pause(0) = RetryBaseDelay
  BY <1>2, <1>3, <1>5, <1>6
<1>9. ASSUME NEW k \in Nat PROVE Pause(k) \in Nat /\ Pause(k + 1) = 2 * Pause(k)
  <2>1. Pause(k) = RetryBaseDelay * P[k] /\ Pause(k + 1) = RetryBaseDelay * (2 * P[k])
    BY <1>6, <1>7
  <2>2. P[k] \in Nat
    BY <1>7
  <2> QED BY <1>2, <1>3, <2>1, <2>2
<1>10. \A k \in Nat : RetryBaseDelay * (P[k] - 1) = Pause(k) - RetryBaseDelay
  BY <1>2, <1>3, <1>6, <1>7
<1>11. \A m, n \in Nat : m <= n => Pause(m) <= Pause(n)
  <2> SUFFICES ASSUME NEW m \in Nat, NEW n \in Nat, m <= n PROVE Pause(m) <= Pause(n)
    OBVIOUS
  <2>1. P[m] <= P[n] /\ P[m] \in Nat /\ P[n] \in Nat
    BY <1>5, <1>7
  <2>2. Pause(m) = RetryBaseDelay * P[m] /\ Pause(n) = RetryBaseDelay * P[n]
    BY <1>6
  <2> QED BY <1>2, <1>4, <2>1, <2>2
<1> QED BY <1>8, <1>9, <1>10, <1>11 DEF P

\* A delivery in time: its requests are as far apart as the pauses, and it is not later than
\* the timeouts and the pauses that it had.
Timed(d, clock) ==
    LET n == Len(d.sent)
    IN  /\ IsLog(d.sent) /\ n \in 1..MaxRetries /\ \A k \in 1..n : d.sent[k] \in Nat
        /\ \A k \in 2..n : d.sent[k] - d.sent[k - 1] >= Pause(k - 2)
        /\ d.phase \in {"request", "sleep", "delivered", "failed"}
        /\ d.phase = "request" =>
              /\ d.until \in Nat /\ d.sent[n] <= clock /\ clock <= d.until
              /\ d.until - d.sent[1] <= n * RequestTimeout + Pause(n - 1) - RetryBaseDelay
        /\ d.phase = "sleep" =>
              /\ d.until \in Nat /\ clock <= d.until /\ n < MaxRetries
              /\ d.until - d.sent[n] >= Pause(n - 1)
              /\ d.until - d.sent[1] <= n * RequestTimeout + Pause(n) - RetryBaseDelay

IsDelivery(d) ==
    d = [hook |-> d.hook, event |-> d.event, phase |-> d.phase, sent |-> d.sent, until |-> d.until]

\* What becomes of a delivery.
Gone(d, phase, until) == [d EXCEPT !.phase = phase, !.until = until]
Sent(d, sent, until) == [d EXCEPT !.phase = "request", !.sent = sent, !.until = until]

LEMMA Becoming ==
    ASSUME NEW d, IsDelivery(d), NEW phase, NEW until, NEW sent
    PROVE  /\ Gone(d, phase, until)
                 = [hook |-> d.hook, event |-> d.event, phase |-> phase, sent |-> d.sent,
                    until |-> until]
           /\ Sent(d, sent, until)
                 = [hook |-> d.hook, event |-> d.event, phase |-> "request", sent |-> sent,
                    until |-> until]
<1> DEFINE h == d.hook
           e == d.event
           s == d.sent
           one == [d EXCEPT !.phase = phase]
           other == [d EXCEPT !.phase = "request"]
           two == [other EXCEPT !.sent = sent]
<1>1. d = [hook |-> h, event |-> e, phase |-> d.phase, sent |-> s, until |-> d.until]
  BY DEF IsDelivery
<1> HIDE DEF h, e, s
<1>2. /\ one = [hook |-> h, event |-> e, phase |-> phase, sent |-> s, until |-> d.until]
      /\ other = [hook |-> h, event |-> e, phase |-> "request", sent |-> s, until |-> d.until]
  BY <1>1
<1> HIDE DEF one, other
<1>3. [one EXCEPT !.until = until]
         = [hook |-> h, event |-> e, phase |-> phase, sent |-> s, until |-> until]
  BY <1>2
<1>4. two = [hook |-> h, event |-> e, phase |-> "request", sent |-> sent, until |-> d.until]
  BY <1>2
<1> HIDE DEF two
<1>5. [two EXCEPT !.until = until]
         = [hook |-> h, event |-> e, phase |-> "request", sent |-> sent, until |-> until]
  BY <1>4
<1>6. /\ Gone(d, phase, until) = [one EXCEPT !.until = until]
      /\ Sent(d, sent, until) = [two EXCEPT !.until = until]
  BY DEF one, other, two, Gone, Sent
<1> QED BY <1>3, <1>5, <1>6 DEF h, e, s

\* It is a delivery of the same event to the same webhook.
LEMMA Became ==
    ASSUME NEW d, IsDelivery(d), NEW phase, NEW until, NEW sent
    PROVE  /\ IsDelivery(Gone(d, phase, until)) /\ IsDelivery(Sent(d, sent, until))
           /\ Gone(d, phase, until).hook = d.hook /\ Gone(d, phase, until).event = d.event
           /\ Gone(d, phase, until).phase = phase /\ Gone(d, phase, until).sent = d.sent
           /\ Gone(d, phase, until).until = until
           /\ Sent(d, sent, until).hook = d.hook /\ Sent(d, sent, until).event = d.event
           /\ Sent(d, sent, until).phase = "request" /\ Sent(d, sent, until).sent = sent
           /\ Sent(d, sent, until).until = until
<1> DEFINE h == d.hook
           e == d.event
           s == d.sent
           one == Gone(d, phase, until)
           two == Sent(d, sent, until)
<1>1. /\ one = [hook |-> h, event |-> e, phase |-> phase, sent |-> s, until |-> until]
      /\ two = [hook |-> h, event |-> e, phase |-> "request", sent |-> sent, until |-> until]
  BY Becoming
<1> HIDE DEF h, e, s, one, two
<1>2. ASSUME NEW new, NEW p, NEW r,
             new = [hook |-> h, event |-> e, phase |-> p, sent |-> r, until |-> until]
      PROVE  /\ IsDelivery(new) /\ new.hook = h /\ new.event = e
             /\ new.phase = p /\ new.sent = r /\ new.until = until
  BY <1>2 DEF IsDelivery
<1>3. /\ IsDelivery(one) /\ one.hook = h /\ one.event = e
      /\ one.phase = phase /\ one.sent = s /\ one.until = until
  BY <1>1, <1>2
<1>4. /\ IsDelivery(two) /\ two.hook = h /\ two.event = e
      /\ two.phase = "request" /\ two.sent = sent /\ two.until = until
  BY <1>1, <1>2
<1> QED BY <1>3, <1>4 DEF h, e, s, one, two

Over(phase) == Cardinality(Hooks!Settled(phase))

HookInv ==
    /\ IsLog(hooks) /\ IsLog(hookEvents) /\ hookClock \in Nat /\ IsFiniteSet(deliveries)
    /\ \A d \in deliveries : IsDelivery(d) /\ Timed(d, hookClock)
    /\ \A d, e \in deliveries : d.hook = e.hook /\ d.event = e.event => d = e
    /\ \A d \in deliveries : d.event \in DOMAIN hookEvents /\ d.hook \in hookEvents[d.event].to
    /\ \A e \in DOMAIN hookEvents : \A h \in hookEvents[e].to :
          \E d \in deliveries : d.hook = h /\ d.event = e
    /\ totals = [total |-> Over("delivered") + Over("failed"), successful |-> Over("delivered"),
                 failed |-> Over("failed")]

LEMMA HookInitSound == ASSUME Hooks!HookInit PROVE HookInv
<1>1. /\ hooks = <<>> /\ deliveries = {} /\ hookEvents = <<>> /\ hookClock = 0
      /\ totals = [total |-> 0, successful |-> 0, failed |-> 0]
  BY DEF Hooks!HookInit
<1>2. Hooks!Settled("delivered") = {} /\ Hooks!Settled("failed") = {}
  BY <1>1 DEF Hooks!Settled
<1>3. Over("delivered") = 0 /\ Over("failed") = 0 /\ IsFiniteSet(deliveries)
  BY <1>1, <1>2, FS_EmptySet DEF Over
<1> QED BY <1>1, <1>3 DEF HookInv, IsLog

\* A delivery goes on: what it becomes takes its place, and counts where it is over.
LEMMA BecomesSound ==
    ASSUME HookInv, NEW d \in deliveries, NEW new, Hooks!Becomes(d, new), IsDelivery(new),
           new.hook = d.hook, new.event = d.event, Timed(new, hookClock),
           d.phase \in {"request", "sleep"},
           totals' = CASE new.phase = "delivered" ->
                             [totals EXCEPT !.total = @ + 1, !.successful = @ + 1]
                       [] new.phase = "failed" -> [totals EXCEPT !.total = @ + 1, !.failed = @ + 1]
                       [] OTHER -> totals,
           UNCHANGED <<hooks, hookEvents, hookClock>>
    PROVE  HookInv'
<1>1. deliveries' = (deliveries \ {d}) \cup {new}
  BY DEF Hooks!Becomes
<1>2. IsFiniteSet(deliveries')
  <2>1. IsFiniteSet(deliveries)
    BY DEF HookInv
  <2> QED BY <1>1, <2>1, FS_RemoveElement, FS_AddElement
<1>3. \A e \in deliveries' : IsDelivery(e) /\ Timed(e, hookClock')
  BY <1>1 DEF HookInv
<1>4. \A e \in deliveries \ {d} : ~(e.hook = d.hook /\ e.event = d.event)
  BY DEF HookInv
<1>5. \A e, f \in deliveries' : e.hook = f.hook /\ e.event = f.event => e = f
  BY <1>1, <1>4 DEF HookInv
<1>6. \A e \in deliveries' : e.event \in DOMAIN hookEvents' /\ e.hook \in hookEvents'[e.event].to
  BY <1>1 DEF HookInv
<1>7. ASSUME NEW e \in DOMAIN hookEvents', NEW h \in hookEvents'[e].to
      PROVE  \E f \in deliveries' : f.hook = h /\ f.event = e
  <2>1. PICK f \in deliveries : f.hook = h /\ f.event = e
    BY <1>7 DEF HookInv
  <2> QED BY <1>1, <2>1
<1>8. ASSUME NEW phase \in {"delivered", "failed"}
      PROVE  Over(phase)' = IF new.phase = phase THEN Over(phase) + 1 ELSE Over(phase)
  <2> DEFINE S == Hooks!Settled(phase)
  <2>1. IsFiniteSet(S)
    BY FS_Subset DEF HookInv, Hooks!Settled
  <2>2. new \notin S
    BY <1>4 DEF Hooks!Settled
  <2>3. Hooks!Settled(phase)' = IF new.phase = phase THEN S \cup {new} ELSE S
    BY <1>1, <1>8 DEF Hooks!Settled
  <2>4. Cardinality(S \cup {new}) = Cardinality(S) + 1
    <3> HIDE DEF S
    <3> QED BY <2>1, <2>2, FS_AddElement
  <2> QED BY <2>3, <2>4 DEF Over
<1>9. Over("delivered") \in Nat /\ Over("failed") \in Nat
  <2>1. ASSUME NEW phase PROVE IsFiniteSet(Hooks!Settled(phase))
    BY FS_Subset DEF HookInv, Hooks!Settled
  <2> QED BY <2>1, FS_CardinalityType DEF Over
<1>10. totals = [total |-> Over("delivered") + Over("failed"), successful |-> Over("delivered"),
                 failed |-> Over("failed")]
  BY DEF HookInv
<1>11. totals' = [total |-> Over("delivered")' + Over("failed")', successful |-> Over("delivered")',
                  failed |-> Over("failed")']
  <2> DEFINE a == Over("delivered")
             b == Over("failed")
             a1 == Over("delivered")'
             b1 == Over("failed")'
  <2>1. /\ a \in Nat /\ b \in Nat /\ totals = [total |-> a + b, successful |-> a, failed |-> b]
        /\ a1 = IF new.phase = "delivered" THEN a + 1 ELSE a
        /\ b1 = IF new.phase = "failed" THEN b + 1 ELSE b
    BY <1>8, <1>9, <1>10
  <2> HIDE DEF a, b, a1, b1
  <2>2. CASE new.phase = "delivered"
    <3>1. totals' = [totals EXCEPT !.total = @ + 1, !.successful = @ + 1]
      BY <2>2
    <3>2. totals' = [total |-> a + b + 1, successful |-> a + 1, failed |-> b]
      BY <2>1, <3>1
    <3>3. a1 = a + 1 /\ b1 = b /\ a1 + b1 = a + b + 1
      BY <2>1, <2>2
    <3>4. totals' = [total |-> a1 + b1, successful |-> a1, failed |-> b1]
      BY <3>2, <3>3
    <3> QED BY <3>4 DEF a1, b1
  <2>3. CASE new.phase = "failed"
    <3>1. totals' = [totals EXCEPT !.total = @ + 1, !.failed = @ + 1]
      BY <2>3
    <3>2. totals' = [total |-> a + b + 1, successful |-> a, failed |-> b + 1]
      BY <2>1, <3>1
    <3>3. a1 = a /\ b1 = b + 1 /\ a1 + b1 = a + b + 1
      BY <2>1, <2>3
    <3>4. totals' = [total |-> a1 + b1, successful |-> a1, failed |-> b1]
      BY <3>2, <3>3
    <3> QED BY <3>4 DEF a1, b1
  <2>4. CASE new.phase \notin {"delivered", "failed"}
    <3>1. totals' = totals /\ a1 = a /\ b1 = b
      BY <2>1, <2>4
    <3>2. totals' = [total |-> a1 + b1, successful |-> a1, failed |-> b1]
      BY <2>1, <3>1
    <3> QED BY <3>2 DEF a1, b1
  <2> QED BY <2>2, <2>3, <2>4
<1> QED BY <1>2, <1>3, <1>5, <1>6, <1>7, <1>11 DEF HookInv

LEMMA SucceedSound ==
    ASSUME HookInv, NEW d \in deliveries, Hooks!Succeed(d)
    PROVE  HookInv'
<1> DEFINE new == [d EXCEPT !.phase = "delivered", !.until = 0]
<1>1. IsDelivery(d) /\ Timed(d, hookClock) /\ d.phase = "request"
  BY DEF HookInv, Hooks!Succeed
<1>2. /\ IsDelivery(new) /\ new.hook = d.hook /\ new.event = d.event /\ new.phase = "delivered"
      /\ new.sent = d.sent
  <2>1. new = Gone(d, "delivered", 0)
    BY DEF Gone
  <2> HIDE DEF new
  <2> QED BY <1>1, <2>1, Became
<1>3. /\ Hooks!Becomes(d, new) /\ UNCHANGED <<hooks, hookEvents, hookClock>>
      /\ totals' = [totals EXCEPT !.total = @ + 1, !.successful = @ + 1]
  BY DEF Hooks!Succeed
<1> HIDE DEF new
<1>4. Timed(new, hookClock)
  BY <1>1, <1>2 DEF Timed
<1> QED BY <1>1, <1>2, <1>3, <1>4, BecomesSound

LEMMA AttemptFailsSound ==
    ASSUME HookInv, NEW d \in deliveries, Hooks!AttemptFails(d)
    PROVE  HookInv'
<1> DEFINE n == Len(d.sent)
<1>1. IsDelivery(d) /\ Timed(d, hookClock) /\ d.phase = "request"
      /\ UNCHANGED <<hooks, hookEvents, hookClock>>
  BY DEF HookInv, Hooks!AttemptFails
<1>2. hookClock \in Nat
  BY DEF HookInv
<1>3. CASE n < MaxRetries
  <2> DEFINE until == hookClock + Pause(n - 1)
             new == [d EXCEPT !.phase = "sleep", !.until = until]
  <2>1. /\ IsDelivery(new) /\ new.hook = d.hook /\ new.event = d.event /\ new.phase = "sleep"
        /\ new.sent = d.sent /\ new.until = until
    <3>1. new = Gone(d, "sleep", until)
      BY DEF Gone
    <3> HIDE DEF new, until
    <3> QED BY <1>1, <3>1, Became
  <2>2. Hooks!Becomes(d, new) /\ totals' = totals
    BY <1>3 DEF Hooks!AttemptFails, Pause
  <2> HIDE DEF new
  <2>3. n \in Nat \ {0} /\ n - 1 \in Nat /\ (n - 1) + 1 = n
    BY <1>1, HooksTyped DEF Timed
  <2>4. Pause(n - 1) \in Nat /\ Pause(n) = 2 * Pause(n - 1) /\ RetryBaseDelay \in Nat
    BY <2>3, PauseIs, HooksTyped
  <2>5. Timed(new, hookClock)
    <3>1. d.sent[n] \in Nat /\ d.sent[1] \in Nat /\ d.until \in Nat
      BY <1>1, <2>3 DEF Timed
    <3>2. n * RequestTimeout \in Nat
      BY <2>3, HooksTyped
    <3> DEFINE T == n * RequestTimeout
    <3>3. /\ until \in Nat /\ hookClock <= until /\ until - d.sent[n] >= Pause(n - 1)
          /\ until - d.sent[1] <= T + Pause(n) - RetryBaseDelay
      <4>1. /\ d.sent[n] <= hookClock /\ hookClock <= d.until
            /\ d.until - d.sent[1] <= T + Pause(n - 1) - RetryBaseDelay
        BY <1>1 DEF Timed
      <4> HIDE DEF T, n
      <4> QED BY <1>2, <2>4, <3>1, <3>2, <4>1 DEF T
    <3> HIDE DEF until
    <3> QED BY <1>1, <1>3, <2>1, <3>3 DEF Timed
  <2> QED BY <1>1, <2>1, <2>2, <2>5, BecomesSound
<1>4. CASE ~(n < MaxRetries)
  <2> DEFINE new == [d EXCEPT !.phase = "failed", !.until = 0]
  <2>1. /\ IsDelivery(new) /\ new.hook = d.hook /\ new.event = d.event /\ new.phase = "failed"
        /\ new.sent = d.sent
    <3>1. new = Gone(d, "failed", 0)
      BY DEF Gone
    <3> HIDE DEF new
    <3> QED BY <1>1, <3>1, Became
  <2>2. Hooks!Becomes(d, new) /\ totals' = [totals EXCEPT !.total = @ + 1, !.failed = @ + 1]
    BY <1>4 DEF Hooks!AttemptFails
  <2> HIDE DEF new
  <2>3. Timed(new, hookClock)
    BY <1>1, <2>1 DEF Timed
  <2> QED BY <1>1, <2>1, <2>2, <2>3, BecomesSound
<1> QED BY <1>3, <1>4

LEMMA RetrySound ==
    ASSUME HookInv, NEW d \in deliveries, Hooks!Retry(d)
    PROVE  HookInv'
<1> DEFINE n == Len(d.sent)
           sent == Append(d.sent, hookClock)
           until == hookClock + RequestTimeout
           new == [d EXCEPT !.phase = "request", !.sent = sent, !.until = until]
<1>1. IsDelivery(d) /\ Timed(d, hookClock) /\ d.phase = "sleep" /\ hookClock >= d.until
      /\ UNCHANGED <<hooks, hookEvents, totals, hookClock>>
  BY DEF HookInv, Hooks!Retry
<1>2. hookClock \in Nat
  BY DEF HookInv
<1>3. /\ IsDelivery(new) /\ new.hook = d.hook /\ new.event = d.event /\ new.phase = "request"
      /\ new.sent = sent /\ new.until = until
  <2>1. new = Sent(d, sent, until)
    BY DEF Sent
  <2> HIDE DEF new, sent, until
  <2> QED BY <1>1, <2>1, Became
<1>4. Hooks!Becomes(d, new)
  BY DEF Hooks!Retry
<1> HIDE DEF new
<1>5. n \in Nat \ {0} /\ n < MaxRetries /\ IsLog(d.sent) /\ DOMAIN d.sent = 1..n
  BY <1>1, HooksTyped, LogIs DEF Timed
<1>6. /\ IsLog(sent) /\ Len(sent) = n + 1 /\ sent[n + 1] = hookClock
      /\ \A k \in 1..n : sent[k] = d.sent[k]
  <2>1. /\ IsLog(sent) /\ DOMAIN sent = 1..n + 1 /\ sent[n + 1] = hookClock
        /\ \A k \in 1..n : sent[k] = d.sent[k]
    BY <1>5, LogGrows
  <2>2. Len(sent) \in Nat /\ DOMAIN sent = 1..Len(sent)
    BY <2>1, LogIs
  <2> HIDE DEF sent
  <2> QED BY <1>5, <2>1, <2>2
<1>7. Timed(new, hookClock)
  <2> HIDE DEF sent
  <2>1. \A k \in 1..n + 1 : sent[k] \in Nat
    <3>1. \A k \in 1..n : d.sent[k] \in Nat
      BY <1>1 DEF Timed
    <3>2. \A k \in 1..n + 1 : k = n + 1 \/ k \in 1..n
      BY <1>5
    <3> HIDE DEF n
    <3> QED BY <1>2, <1>6, <3>1, <3>2
  <2>2. /\ d.until \in Nat /\ hookClock = d.until /\ d.until - d.sent[n] >= Pause(n - 1)
        /\ d.until - d.sent[1] <= n * RequestTimeout + Pause(n) - RetryBaseDelay
    BY <1>1, <1>2 DEF Timed
  <2>3. ASSUME NEW k \in 2..n + 1
        PROVE  sent[k] - sent[k - 1] >= Pause(k - 2)
    <3>1. CASE k = n + 1
      <4>1. k - 1 = n /\ k - 2 = n - 1
        BY <1>5, <3>1
      <4> QED BY <1>5, <1>6, <2>2, <3>1, <4>1
    <3>2. CASE k # n + 1
      <4>1. k \in 2..n /\ k \in 1..n /\ k - 1 \in 1..n
        BY <1>5, <3>2
      <4>2. d.sent[k] - d.sent[k - 1] >= Pause(k - 2)
        BY <1>1, <4>1 DEF Timed
      <4> QED BY <1>6, <4>1, <4>2
    <3> QED BY <3>1, <3>2
  <2>4. until - sent[1] <= (n + 1) * RequestTimeout + Pause((n + 1) - 1) - RetryBaseDelay
    <3> DEFINE T == n * RequestTimeout
               p == Pause(n)
               u == d.until
    <3>1. (n + 1) * RequestTimeout = T + RequestTimeout /\ (n + 1) - 1 = n
      BY <1>5, HooksTyped
    <3>2. sent[1] = d.sent[1] /\ sent[1] \in Nat
      BY <1>5, <1>6, <2>1
    <3>3. n \in Nat /\ T \in Nat /\ RetryBaseDelay \in Nat /\ RequestTimeout \in Nat
      BY <1>5, HooksTyped
    <3>4. p \in Nat
      BY <3>3, PauseIs
    <3>5. u \in Nat /\ hookClock = u /\ u - sent[1] <= T + p - RetryBaseDelay
      BY <2>2, <3>2
    <3>6. until = u + RequestTimeout
      BY <3>5
    <3> HIDE DEF T, p, u, until, n
    <3>7. until - sent[1] <= (T + RequestTimeout) + p - RetryBaseDelay
      BY <3>2, <3>3, <3>4, <3>5, <3>6
    <3> QED BY <3>1, <3>7 DEF p
  <2>5. until \in Nat /\ hookClock <= until
    BY <1>2, HooksTyped
  <2>6. n + 1 \in 1..MaxRetries
    BY <1>5, HooksTyped
  <2> HIDE DEF until
  <2>7. hookClock <= hookClock
    BY <1>2
  <2> QED BY <1>3, <1>6, <2>1, <2>3, <2>4, <2>5, <2>6, <2>7 DEF Timed
<1>8. totals' = totals
  BY <1>1
<1> HIDE DEF sent, until
<1> QED BY <1>1, <1>3, <1>4, <1>7, <1>8, BecomesSound

\* Time goes on until the next timeout.
LEMMA HookTickSound == ASSUME HookInv, Hooks!HookTick PROVE HookInv'
<1>1. /\ hookClock' = hookClock + 1 /\ UNCHANGED <<hooks, deliveries, hookEvents, totals>>
      /\ \A d \in deliveries : d.phase \in {"request", "sleep"} => hookClock < d.until
  BY DEF Hooks!HookTick
<1>2. hookClock \in Nat
  BY DEF HookInv
<1>3. ASSUME NEW d \in deliveries PROVE IsDelivery(d) /\ Timed(d, hookClock')
  <2>1. IsDelivery(d) /\ Timed(d, hookClock)
    BY DEF HookInv
  <2>2. d.phase \in {"request", "sleep"} => hookClock < d.until
    BY <1>1
  <2>3. ASSUME d.phase = "request"
        PROVE  d.until \in Nat /\ d.sent[Len(d.sent)] <= hookClock' /\ hookClock' <= d.until
    <3>1. /\ d.until \in Nat /\ d.sent[Len(d.sent)] <= hookClock /\ hookClock < d.until
          /\ d.sent[Len(d.sent)] \in Nat
      BY <2>1, <2>2, <2>3 DEF Timed
    <3> QED BY <1>1, <1>2, <3>1
  <2>4. ASSUME d.phase = "sleep" PROVE hookClock' <= d.until
    <3>1. d.until \in Nat /\ hookClock < d.until
      BY <2>1, <2>2, <2>4 DEF Timed
    <3> QED BY <1>1, <1>2, <3>1
  <2> QED BY <2>1, <2>3, <2>4 DEF Timed
<1>4. totals' = [total |-> Over("delivered")' + Over("failed")',
                 successful |-> Over("delivered")', failed |-> Over("failed")']
  BY <1>1 DEF HookInv, Over, Hooks!Settled
<1> QED BY <1>1, <1>2, <1>3, <1>4 DEF HookInv

\* An event starts its deliveries.
LEMMA DeliverSound == ASSUME HookInv, NEW topic, Hooks!Deliver(topic) PROVE HookInv'
<1> DEFINE e == Len(hookEvents) + 1
           W == Hooks!Wanted(topic)
           start(h) == [hook |-> h, event |-> e, phase |-> "request", sent |-> <<hookClock>>,
                        until |-> hookClock + RequestTimeout]
           Begun == {start(h) : h \in W}
           entry == [topic |-> topic, to |-> W]
<1>1. /\ hookEvents' = Append(hookEvents, entry) /\ deliveries' = deliveries \cup Begun
      /\ UNCHANGED <<hooks, totals, hookClock>>
  BY DEF Hooks!Deliver
<1>2. /\ IsLog(hookEvents') /\ Len(hookEvents) \in Nat /\ DOMAIN hookEvents = 1..Len(hookEvents)
      /\ DOMAIN hookEvents' = 1..e /\ hookEvents'[e] = entry
      /\ \A n \in DOMAIN hookEvents : hookEvents'[n] = hookEvents[n]
  <2>1. IsLog(hookEvents)
    BY DEF HookInv
  <2> HIDE DEF entry
  <2> QED BY <1>1, <2>1, LogGrows
<1>3. IsFiniteSet(Begun)
  <2>1. Len(hooks) \in Nat /\ DOMAIN hooks = 1..Len(hooks)
    BY LogIs DEF HookInv
  <2>2. IsFiniteSet(W)
    <3>1. IsFiniteSet(DOMAIN hooks)
      BY <2>1, FS_Interval
    <3>2. W \subseteq DOMAIN hooks
      BY DEF Hooks!Wanted
    <3> HIDE DEF W
    <3> QED BY <3>1, <3>2, FS_Subset
  <2> DEFINE f == [h \in W |-> start(h)]
  <2>3. f \in Surjection(W, Begun)
    <3>1. f \in [W -> Begun] /\ \A s \in Begun : \E h \in W : f[h] = s
      OBVIOUS
    <3> QED BY <3>1 DEF Surjection
  <2> HIDE DEF W, Begun, f
  <2> QED BY <2>2, <2>3, FS_Surjection
<1>4. IsFiniteSet(deliveries')
  BY <1>1, <1>3, FS_Union DEF HookInv
<1>5. ASSUME NEW h \in W
      PROVE  /\ IsDelivery(start(h)) /\ start(h).hook = h /\ start(h).event = e
             /\ start(h).phase = "request" /\ Timed(start(h), hookClock)
  <2> DEFINE d == start(h)
  <2>1. /\ IsDelivery(d) /\ d.hook = h /\ d.event = e /\ d.phase = "request"
        /\ d.sent = <<hookClock>> /\ d.until = hookClock + RequestTimeout
    <3> HIDE DEF e
    <3> QED BY DEF IsDelivery
  <2>2. IsLog(<<hookClock>>) /\ Len(<<hookClock>>) = 1 /\ <<hookClock>>[1] = hookClock
    BY DEF IsLog
  <2>3. hookClock \in Nat
    BY DEF HookInv
  <2>4. d.until \in Nat /\ hookClock <= d.until /\ d.until - hookClock = RequestTimeout
    BY <2>1, <2>3, HooksTyped
  <2>5. RequestTimeout <= 1 * RequestTimeout + Pause(1 - 1) - RetryBaseDelay
    BY HooksTyped, PauseIs
  <2> HIDE DEF d
  <2>6. 1 \in 1..MaxRetries
    BY HooksTyped
  <2>7. Timed(d, hookClock)
    <3> DEFINE s == <<hookClock>>
    <3>1. /\ IsLog(s) /\ Len(s) = 1 /\ s[1] = hookClock /\ \A k \in 1..1 : s[k] \in Nat
          /\ hookClock <= hookClock
      BY <2>2, <2>3
    <3> HIDE DEF s
    <3>2. d.sent = s
      BY <2>1 DEF s
    <3>3. \A k \in 2..Len(d.sent) : d.sent[k] - d.sent[k - 1] >= Pause(k - 2)
      <4>1. Len(d.sent) = 1
        BY <3>1, <3>2
      <4>2. \A k \in 2..1 : FALSE
        OBVIOUS
      <4> QED BY <4>1, <4>2
    <3> QED BY <2>1, <2>4, <2>5, <2>6, <3>1, <3>2, <3>3 DEF Timed
  <2> QED BY <2>1, <2>7 DEF d
<1> HIDE DEF start
<1>6. \A d \in deliveries' : IsDelivery(d) /\ Timed(d, hookClock')
  BY <1>1, <1>5 DEF HookInv
<1>7. \A d \in deliveries : d.event \in 1..Len(hookEvents) /\ d.event # e
  BY <1>2 DEF HookInv
<1>8. \A d, f \in deliveries' : d.hook = f.hook /\ d.event = f.event => d = f
  BY <1>1, <1>5, <1>7 DEF HookInv
<1>9. ASSUME NEW d \in deliveries'
      PROVE  d.event \in DOMAIN hookEvents' /\ d.hook \in hookEvents'[d.event].to
  <2>1. CASE d \in deliveries
    <3>1. d.event \in DOMAIN hookEvents /\ d.hook \in hookEvents[d.event].to
      BY <2>1 DEF HookInv
    <3> QED BY <1>2, <3>1
  <2>2. CASE d \in Begun
    <3>1. d.event = e /\ d.hook \in W
      BY <1>5, <2>2
    <3> QED BY <1>2, <3>1
  <2> QED BY <1>1, <2>1, <2>2
<1>10. ASSUME NEW n \in DOMAIN hookEvents', NEW h \in hookEvents'[n].to
       PROVE  \E d \in deliveries' : d.hook = h /\ d.event = n
  <2>1. CASE n = e
    <3>1. h \in W
      BY <1>2, <2>1
    <3>2. start(h) \in deliveries'
      BY <1>1, <3>1
    <3> QED BY <1>5, <2>1, <3>1, <3>2
  <2>2. CASE n # e
    <3>1. n \in DOMAIN hookEvents /\ h \in hookEvents[n].to
      BY <1>2, <2>2
    <3>2. PICK d \in deliveries : d.hook = h /\ d.event = n
      BY <3>1 DEF HookInv
    <3> QED BY <1>1, <3>2
  <2> QED BY <2>1, <2>2
<1>11. ASSUME NEW phase, phase # "request" PROVE Over(phase)' = Over(phase)
  BY <1>1, <1>5, <1>11 DEF Over, Hooks!Settled
<1>12. /\ totals' = totals /\ Over("delivered")' = Over("delivered")
       /\ Over("failed")' = Over("failed")
  BY <1>1, <1>11
<1>13. totals' = [total |-> Over("delivered")' + Over("failed")',
                  successful |-> Over("delivered")', failed |-> Over("failed")']
  BY <1>12 DEF HookInv
<1>14. IsLog(hooks') /\ hookClock' \in Nat
  BY <1>1 DEF HookInv
<1> HIDE DEF Begun, W, entry, e
<1> QED BY <1>2, <1>4, <1>6, <1>8, <1>9, <1>10, <1>13, <1>14 DEF HookInv

\* The webhooks change, their deliveries do not.
LEMMA HooksChangeSound ==
    ASSUME HookInv, IsLog(hooks'), UNCHANGED <<deliveries, hookEvents, totals, hookClock>>
    PROVE  HookInv'
<1>1. totals' = [total |-> Over("delivered")' + Over("failed")',
                 successful |-> Over("delivered")', failed |-> Over("failed")']
  BY DEF HookInv, Over, Hooks!Settled
<1> QED BY <1>1 DEF HookInv

LEMMA HookNextSound == ASSUME HookInv, Hooks!HookNext PROVE HookInv'
<1>1. IsLog(hooks)
  BY DEF HookInv
<1>2. ASSUME NEW patterns, Hooks!Register(patterns) PROVE HookInv'
  <2>1. \E hook : hooks' = Append(hooks, hook)
    BY <1>2 DEF Hooks!Register
  <2>2. IsLog(hooks')
    BY <1>1, <2>1, LogGrows
  <2> QED BY <1>2, <2>2, HooksChangeSound DEF Hooks!Register
<1>3. ASSUME NEW h \in DOMAIN hooks, Hooks!Unregister(h) PROVE HookInv'
  <2> DEFINE hook == [hooks[h] EXCEPT !.registered = FALSE]
  <2>1. hooks' = [hooks EXCEPT ![h] = hook]
    BY <1>3 DEF Hooks!Unregister
  <2> HIDE DEF hook
  <2>2. IsLog(hooks')
    BY <1>1, <2>1, LogExcept
  <2> QED BY <1>3, <2>2, HooksChangeSound DEF Hooks!Unregister
<1>4. ASSUME NEW h \in DOMAIN hooks, NEW enabled, Hooks!SetEnabled(h, enabled) PROVE HookInv'
  <2> DEFINE hook == [hooks[h] EXCEPT !.enabled = enabled]
  <2>1. hooks' = [hooks EXCEPT ![h] = hook]
    BY <1>4 DEF Hooks!SetEnabled
  <2> HIDE DEF hook
  <2>2. IsLog(hooks')
    BY <1>1, <2>1, LogExcept
  <2> QED BY <1>4, <2>2, HooksChangeSound DEF Hooks!SetEnabled
<1> QED BY <1>2, <1>3, <1>4, DeliverSound, SucceedSound, AttemptFailsSound, RetrySound,
           HookTickSound DEF Hooks!HookNext

\* Each event has its deliveries, and a delivery is not later than its timeouts and pauses.
LEMMA HookIsExact == ASSUME HookInv PROVE Hooks!DeliveriesExact
<1>1. Hooks!OneDeliveryEach
  <2> DEFINE P == {<<d.hook, d.event>> : d \in deliveries}
             Q == UNION {{<<h, e>> : h \in hookEvents[e].to} : e \in DOMAIN hookEvents}
  <2>1. P \subseteq Q
    BY DEF HookInv
  <2>2. Q \subseteq P
    <3> SUFFICES ASSUME NEW e \in DOMAIN hookEvents, NEW h \in hookEvents[e].to
                 PROVE  <<h, e>> \in P
      OBVIOUS
    <3>1. PICK d \in deliveries : d.hook = h /\ d.event = e
      BY DEF HookInv
    <3> QED BY <3>1
  <2>3. Cardinality(deliveries) = Cardinality(P)
    <3> DEFINE f == [d \in deliveries |-> <<d.hook, d.event>>]
    <3>1. f \in [deliveries -> P] /\ \A p \in P : \E d \in deliveries : f[d] = p
      OBVIOUS
    <3>2. \A d, e \in deliveries : f[d] = f[e] => d = e
      BY DEF HookInv
    <3>3. IsFiniteSet(deliveries)
      BY DEF HookInv
    <3> HIDE DEF f, P
    <3>4. f \in Bijection(deliveries, P)
      BY <3>1, <3>2 DEF Bijection, Injection, IsInjective, Surjection
    <3>5. ExistsBijection(deliveries, P)
      BY <3>4 DEF ExistsBijection
    <3> QED BY <3>3, <3>5, FS_Bijection
  <2> QED BY <2>1, <2>2, <2>3, HookCardinality DEF Hooks!OneDeliveryEach
<1>2. Hooks!RetriesBounded
  <2> SUFFICES ASSUME NEW d \in deliveries
      PROVE  /\ Len(d.sent) <= MaxRetries
             /\ \A k \in 2..Len(d.sent) :
                   d.sent[k] - d.sent[k - 1] >= RetryBaseDelay * Hooks!Power[k - 2]
             /\ d.phase \in {"request", "sleep"} =>
                   hookClock - d.sent[1] <= MaxRetries * RequestTimeout
                                            + RetryBaseDelay * (Hooks!Power[MaxRetries - 1] - 1)
    BY DEF Hooks!RetriesBounded
  <2> DEFINE n == Len(d.sent)
             m == MaxRetries
             D == RetryBaseDelay
             T == RequestTimeout
  <2>1. Timed(d, hookClock) /\ hookClock \in Nat
    BY DEF HookInv
  <2>2. n \in 1..m /\ m \in Nat \ {0} /\ D \in Nat /\ T \in Nat
    BY <2>1, HooksTyped DEF Timed
  <2>3. \A k \in 2..n : d.sent[k] - d.sent[k - 1] >= D * Hooks!Power[k - 2]
    BY <2>1 DEF Timed, Pause
  <2>4. ASSUME d.phase \in {"request", "sleep"}
        PROVE  hookClock - d.sent[1] <= m * T + D * (Hooks!Power[m - 1] - 1)
    <3>1. PICK p \in {n - 1, n} : /\ d.until \in Nat /\ hookClock <= d.until /\ p <= m - 1
                                  /\ d.until - d.sent[1] <= n * T + Pause(p) - D
      BY <2>1, <2>2, <2>4 DEF Timed
    <3>2. d.sent[1] \in Nat
      BY <2>1, <2>2 DEF Timed
    <3>3. p \in Nat /\ m - 1 \in Nat
      BY <2>2
    <3>4. Pause(p) <= Pause(m - 1) /\ Pause(p) \in Nat /\ Pause(m - 1) \in Nat
          /\ D * (Hooks!Power[m - 1] - 1) = Pause(m - 1) - D
      BY <3>1, <3>3, PauseIs
    <3>5. n * T <= m * T /\ n * T \in Nat /\ m * T \in Nat
      <4>1. m - n \in Nat /\ n \in Nat
        BY <2>2
      <4>2. (m - n) * T \in Nat /\ m * T = n * T + (m - n) * T /\ n * T \in Nat
        BY <2>2, <4>1
      <4> HIDE DEF m, n, T
      <4> QED BY <4>2
    <3> DEFINE x == Pause(p)
               y == Pause(m - 1)
               u == d.until
               s == d.sent[1]
               a == n * T
               b == m * T
    <3>6. /\ u \in Nat /\ s \in Nat /\ x \in Nat /\ y \in Nat /\ a \in Nat /\ b \in Nat
          /\ hookClock <= u /\ u - s <= a + x - D /\ x <= y /\ a <= b
      BY <3>1, <3>2, <3>4, <3>5
    <3> HIDE DEF x, y, u, s, a, b, m, n, D, T
    <3>7. hookClock - s <= b + (y - D)
      BY <2>1, <2>2, <3>6
    <3> QED BY <3>4, <3>7 DEF s, b, y
  <2> QED BY <2>2, <2>3, <2>4
<1>3. Hooks!HookTotals
  BY HookCardinality DEF HookInv, Over, Hooks!HookTotals
<1> QED BY <1>1, <1>2, <1>3 DEF Hooks!DeliveriesExact

-----------------------------------------------------------------------------
(* The event store *)

\* The events that are there are the newest, and they came in the order of their times.
NewestAre(ids, n) == ids \subseteq 1..n /\ \A x \in ids : x..n \subseteq ids

EventsInv ==
    /\ IsLog(eventLog) /\ eventClock \in Nat
    /\ \A x \in DOMAIN eventLog :
           eventLog[x].timestamp \in Nat /\ eventLog[x].timestamp <= eventClock
    /\ \A x, y \in DOMAIN eventLog : x <= y => eventLog[x].timestamp <= eventLog[y].timestamp
    /\ NewestAre(live, Len(eventLog))
    /\ MaxEvents >= 10 => Cardinality(live) <= MaxEvents

\* pruneOldest, by the numbers of the events that are older.
OldestOf(ids, n) == {x \in ids : Cardinality({y \in ids : y < x}) < n}
KeptOf(ids) ==
    IF Cardinality(ids) > MaxEvents THEN ids \ OldestOf(ids, MaxEvents \div 10) ELSE ids

LEMMA NewestFinite ==
    ASSUME NEW n \in Nat, NEW ids, NewestAre(ids, n)
    PROVE  IsFiniteSet(ids) /\ Cardinality(ids) \in Nat /\ ids \in SUBSET Nat
<1>1. IsFiniteSet(1..n)
  BY FS_Interval
<1>2. ids \subseteq 1..n
  BY DEF NewestAre
<1>3. IsFiniteSet(ids)
  BY <1>1, <1>2, FS_Subset
<1> QED BY <1>2, <1>3, FS_CardinalityType

LEMMA KeptAreNewest ==
    ASSUME NEW n \in Nat, NEW ids, NewestAre(ids, n)
    PROVE  NewestAre(KeptOf(ids), n)
<1> DEFINE k == MaxEvents \div 10
           older(x) == {y \in ids : y < x}
<1>1. IsFiniteSet(ids) /\ ids \in SUBSET Nat
  BY NewestFinite
<1>2. k \in Nat
  BY LimitTyped
<1>3. ASSUME NEW x \in ids, NEW z \in ids, x <= z
      PROVE  Cardinality(older(x)) <= Cardinality(older(z)) /\ Cardinality(older(x)) \in Nat
             /\ Cardinality(older(z)) \in Nat
  <2>1. x \in Nat /\ z \in Nat /\ \A y \in ids : y \in Nat
    BY <1>1
  <2>2. older(x) \subseteq older(z) /\ older(z) \subseteq ids /\ older(x) \subseteq ids
    <3>1. \A y \in ids : y < x => y < z
      BY <1>3, <2>1
    <3> QED BY <3>1
  <2> HIDE DEF older
  <2>3. IsFiniteSet(older(x)) /\ IsFiniteSet(older(z))
    BY <1>1, <2>2, FS_Subset
  <2> QED BY <2>2, <2>3, FS_Subset, FS_CardinalityType
<1> DEFINE rest == ids \ OldestOf(ids, k)
<1>4. rest = {x \in ids : ~(Cardinality(older(x)) < k)}
  BY DEF OldestOf
<1> HIDE DEF older
<1>5. NewestAre(rest, n)
  <2>1. rest \subseteq 1..n
    BY <1>4 DEF NewestAre
  <2>2. ASSUME NEW x \in rest, NEW z \in x..n PROVE z \in rest
    <3>1. x \in ids /\ z \in ids /\ x \in Nat /\ x <= z
      BY <1>1, <1>4 DEF NewestAre
    <3>2. Cardinality(older(x)) <= Cardinality(older(z)) /\ Cardinality(older(x)) \in Nat
          /\ Cardinality(older(z)) \in Nat /\ ~(Cardinality(older(x)) < k)
      BY <1>3, <1>4, <3>1
    <3> HIDE DEF rest, k
    <3>3. ~(Cardinality(older(z)) < k)
      BY <1>2, <3>2
    <3> QED BY <1>4, <3>1, <3>3 DEF k
  <2> HIDE DEF rest
  <2> QED BY <2>1, <2>2 DEF NewestAre
<1> QED BY <1>5 DEF KeptOf

LEMMA KeptAreFew ==
    ASSUME NEW n \in Nat, NEW ids, NewestAre(ids, n), MaxEvents >= 10,
           Cardinality(ids) <= MaxEvents + 1
    PROVE  Cardinality(KeptOf(ids)) <= MaxEvents
<1>1. IsFiniteSet(ids) /\ ids \in SUBSET Nat /\ Cardinality(ids) \in Nat
  BY NewestFinite
<1>2. CASE Cardinality(ids) > MaxEvents
  <2> DEFINE old == OldestOf(ids, MaxEvents \div 10)
  <2>1. ids # {}
    BY <1>2, FS_EmptySet, LimitTyped
  <2>2. PICK m \in ids : \A x \in ids : m <= x
    BY <1>1, <2>1, Smallest
  <2>3. {y \in ids : y < m} = {}
    <3>1. \A y \in ids : y \in Nat /\ m \in Nat
      BY <1>1
    <3> QED BY <2>2, <3>1
  <2>4. Cardinality({y \in ids : y < m}) = 0
    BY <2>3, FS_EmptySet
  <2>5. m \in old
    <3>1. 0 < MaxEvents \div 10
      BY LimitTyped
    <3> QED BY <2>4, <3>1 DEF OldestOf
  <2>6. ids \ old \subseteq ids \ {m}
    BY <2>5
  <2> HIDE DEF old
  <2>7. IsFiniteSet(ids \ {m}) /\ Cardinality(ids \ {m}) = Cardinality(ids) - 1
    BY <1>1, FS_RemoveElement
  <2>8. Cardinality(ids \ old) <= Cardinality(ids \ {m}) /\ Cardinality(ids \ old) \in Nat
    BY <2>6, <2>7, FS_Subset, FS_CardinalityType
  <2>9. KeptOf(ids) = ids \ old
    BY <1>2 DEF KeptOf, old
  <2> QED BY <1>1, <2>7, <2>8, <2>9, LimitTyped
<1>3. CASE ~(Cardinality(ids) > MaxEvents)
  BY <1>1, <1>3, LimitTyped DEF KeptOf
<1> QED BY <1>2, <1>3

\* An event is stored, and the oldest may go.
LEMMA StoresSound ==
    ASSUME EventsInv, NEW event, event.timestamp = eventClock, eventLog' = Append(eventLog, event),
           live' = KeptOf(live \cup {Len(eventLog) + 1}), eventClock' = eventClock
    PROVE  EventsInv'
<1> DEFINE n == Len(eventLog)
           ids == live \cup {n + 1}
<1>1. /\ IsLog(eventLog') /\ n \in Nat /\ DOMAIN eventLog = 1..n /\ DOMAIN eventLog' = 1..n + 1
      /\ eventLog'[n + 1] = event
      /\ \A x \in DOMAIN eventLog : eventLog'[x] = eventLog[x]
  BY LogGrows DEF EventsInv
<1>2. Len(eventLog') = n + 1
  <2>1. Len(eventLog') \in Nat /\ DOMAIN eventLog' = 1..Len(eventLog')
    BY <1>1, LogIs
  <2> QED BY <1>1, <2>1
<1>3. NewestAre(live, n) /\ eventClock \in Nat
  BY DEF EventsInv
<1>4. NewestAre(ids, n + 1)
  <2>1. live \subseteq 1..n /\ \A x \in live : x..n \subseteq live
    BY <1>3 DEF NewestAre
  <2>2. ids \subseteq 1..n + 1
    <3>1. 1..n \subseteq 1..n + 1 /\ n + 1 \in 1..n + 1
      <4> HIDE DEF n
      <4> QED BY <1>1
    <3> HIDE DEF n
    <3> QED BY <2>1, <3>1
  <2>3. ASSUME NEW x \in ids, NEW z \in x..n + 1 PROVE z \in ids
    <3>1. z = n + 1 \/ (x \in live /\ z \in x..n)
      <4>1. x \in 1..n + 1
        BY <2>2
      <4> HIDE DEF n
      <4> QED BY <1>1, <4>1
    <3> QED BY <2>1, <3>1
  <2> HIDE DEF ids
  <2> QED BY <2>2, <2>3 DEF NewestAre
<1> HIDE DEF ids
<1>5. NewestAre(live', Len(eventLog'))
  BY <1>1, <1>2, <1>4, KeptAreNewest DEF ids
<1>6. ASSUME MaxEvents >= 10 PROVE Cardinality(live') <= MaxEvents
  <2>1. IsFiniteSet(live) /\ Cardinality(live) \in Nat /\ Cardinality(live) <= MaxEvents
    BY <1>1, <1>3, <1>6, NewestFinite DEF EventsInv
  <2>2. Cardinality(live \cup {n + 1}) <= Cardinality(live) + 1
        /\ Cardinality(live \cup {n + 1}) \in Nat
    <3>1. n + 1 \notin live
      BY <1>1, <1>3 DEF NewestAre
    <3>2. Cardinality(live \cup {n + 1}) = Cardinality(live) + 1
      BY <2>1, <3>1, FS_AddElement
    <3> QED BY <2>1, <3>2
  <2>3. Cardinality(ids) <= MaxEvents + 1
    BY <2>1, <2>2, LimitTyped DEF ids
  <2> QED BY <1>1, <1>4, <1>6, <2>3, KeptAreFew DEF ids
<1>7. \A x \in DOMAIN eventLog' :
         eventLog'[x].timestamp \in Nat /\ eventLog'[x].timestamp <= eventClock'
  BY <1>1, <1>3 DEF EventsInv
<1>8. ASSUME NEW x \in DOMAIN eventLog', NEW y \in DOMAIN eventLog', x <= y
      PROVE  eventLog'[x].timestamp <= eventLog'[y].timestamp
  <2>1. CASE y = n + 1
    BY <1>1, <1>7, <2>1
  <2>2. CASE y # n + 1
    <3>1. x \in DOMAIN eventLog /\ y \in DOMAIN eventLog
      BY <1>1, <1>8, <2>2
    <3> QED BY <1>1, <1>8, <3>1 DEF EventsInv
  <2> QED BY <2>1, <2>2
<1>9. eventClock' \in Nat
  BY <1>3
<1> QED BY <1>1, <1>5, <1>6, <1>7, <1>8, <1>9 DEF EventsInv

\* Those that are too old go, which are the first, or all of them.
LEMMA PrunesSound ==
    ASSUME EventsInv, NEW oldest \in Int,
           live' \in {{x \in live : eventLog[x].timestamp >= oldest}, {}},
           eventLog' = eventLog, eventClock' = eventClock
    PROVE  EventsInv'
<1>1. /\ Len(eventLog) \in Nat /\ DOMAIN eventLog = 1..Len(eventLog)
      /\ NewestAre(live, Len(eventLog))
  BY LogIs DEF EventsInv
<1>2. NewestAre(live', Len(eventLog'))
  <2>1. live' \subseteq live
    OBVIOUS
  <2>2. ASSUME NEW x \in live', NEW z \in x..Len(eventLog) PROVE z \in live'
    <3>1. x \in live /\ z \in live /\ x \in 1..Len(eventLog) /\ z \in 1..Len(eventLog) /\ x <= z
      BY <1>1, <2>1 DEF NewestAre
    <3>2. /\ eventLog[x].timestamp <= eventLog[z].timestamp
          /\ eventLog[x].timestamp \in Nat /\ eventLog[z].timestamp \in Nat
      BY <1>1, <3>1 DEF EventsInv
    <3>3. eventLog[x].timestamp >= oldest
      OBVIOUS
    <3> QED BY <3>1, <3>2, <3>3
  <2> QED BY <1>1, <2>1, <2>2 DEF NewestAre
<1>3. IsFiniteSet(live) /\ Cardinality(live) \in Nat
  BY <1>1, NewestFinite
<1>4. Cardinality(live') <= Cardinality(live) /\ Cardinality(live') \in Nat
  <2>1. live' \subseteq live
    OBVIOUS
  <2> QED BY <1>3, <2>1, FS_Subset, FS_CardinalityType
<1>5. MaxEvents >= 10 => Cardinality(live') <= MaxEvents
  BY <1>3, <1>4, LimitTyped DEF EventsInv
<1> QED BY <1>2, <1>5 DEF EventsInv

LEMMA EventTickSound ==
    ASSUME EventsInv, eventClock' = eventClock + 1, UNCHANGED <<eventLog, live>>
    PROVE  EventsInv'
BY DEF EventsInv

LEMMA EventCardinality ==
    \A S : Kinds!Cardinality(S) = Cardinality(S) /\ Limit!Cardinality(S) = Cardinality(S)
BY DEF Kinds!Cardinality, Limit!Cardinality, Cardinality

LEMMA KindsSound == ASSUME EventsInv, Kinds!EventNext PROVE EventsInv'
<1>1. ASSUME NEW event, Kinds!Store(event) PROVE EventsInv'
  <2> DEFINE entry == [topic |-> event.topic, timestamp |-> eventClock,
                       correlationId |-> event.correlationId]
             ids == live \cup {Len(eventLog) + 1}
  <2>1. eventLog' = Append(eventLog, entry) /\ live' = Kinds!Kept(ids) /\ eventClock' = eventClock
    BY <1>1 DEF Kinds!Store
  <2>2. Kinds!Kept(ids) = KeptOf(ids)
    <3> HIDE DEF ids
    <3> QED BY EventCardinality DEF Kinds!Kept, Kinds!Oldest, KeptOf, OldestOf
  <2>3. entry.timestamp = eventClock
    OBVIOUS
  <2> HIDE DEF entry
  <2> QED BY <2>1, <2>2, <2>3, StoresSound
<1>2. ASSUME NEW maxAge \in 0..MaxEventTime, Kinds!Prune(maxAge) PROVE EventsInv'
  <2>1. eventClock - maxAge \in Int
    BY DEF EventsInv
  <2> DEFINE oldest == eventClock - maxAge
  <2>2. /\ live' = {x \in live : eventLog[x].timestamp >= oldest}
        /\ eventLog' = eventLog /\ eventClock' = eventClock
    BY <1>2 DEF Kinds!Prune
  <2> HIDE DEF oldest
  <2> QED BY <2>1, <2>2, PrunesSound DEF oldest
<1>3. CASE Kinds!ClearEvents
  <2>1. live' = {} /\ eventLog' = eventLog /\ eventClock' = eventClock /\ 0 \in Int
    BY <1>3 DEF Kinds!ClearEvents
  <2> QED BY <2>1, PrunesSound
<1>4. CASE Kinds!EventTick
  BY <1>4, EventTickSound DEF Kinds!EventTick
<1> QED BY <1>1, <1>2, <1>3, <1>4 DEF Kinds!EventNext

LEMMA LimitSound == ASSUME EventsInv, Limit!EventNext PROVE EventsInv'
<1>1. ASSUME NEW event, Limit!Store(event) PROVE EventsInv'
  <2> DEFINE entry == [topic |-> event.topic, timestamp |-> eventClock,
                       correlationId |-> event.correlationId]
             ids == live \cup {Len(eventLog) + 1}
  <2>1. eventLog' = Append(eventLog, entry) /\ live' = Limit!Kept(ids) /\ eventClock' = eventClock
    BY <1>1 DEF Limit!Store
  <2>2. Limit!Kept(ids) = KeptOf(ids)
    <3> HIDE DEF ids
    <3> QED BY EventCardinality DEF Limit!Kept, Limit!Oldest, KeptOf, OldestOf
  <2>3. entry.timestamp = eventClock
    OBVIOUS
  <2> HIDE DEF entry
  <2> QED BY <2>1, <2>2, <2>3, StoresSound
<1>2. ASSUME NEW maxAge \in 0..MaxEventTime, Limit!Prune(maxAge) PROVE EventsInv'
  <2>1. eventClock - maxAge \in Int
    BY DEF EventsInv
  <2> DEFINE oldest == eventClock - maxAge
  <2>2. /\ live' = {x \in live : eventLog[x].timestamp >= oldest}
        /\ eventLog' = eventLog /\ eventClock' = eventClock
    BY <1>2 DEF Limit!Prune
  <2> HIDE DEF oldest
  <2> QED BY <2>1, <2>2, PrunesSound DEF oldest
<1>3. CASE Limit!ClearEvents
  <2>1. live' = {} /\ eventLog' = eventLog /\ eventClock' = eventClock /\ 0 \in Int
    BY <1>3 DEF Limit!ClearEvents
  <2> QED BY <2>1, PrunesSound
<1>4. CASE Limit!EventTick
  BY <1>4, EventTickSound DEF Limit!EventTick
<1> QED BY <1>1, <1>2, <1>3, <1>4 DEF Limit!EventNext

LEMMA EventInitSound ==
    ASSUME Kinds!EventInit \/ Limit!EventInit PROVE EventsInv
<1>1. eventLog = <<>> /\ live = {} /\ eventClock = 0
  BY DEF Kinds!EventInit, Limit!EventInit
<1> QED BY <1>1, FS_EmptySet, LimitTyped DEF EventsInv, NewestAre, IsLog

LEMMA NewestKept ==
    ASSUME EventsInv PROVE Kinds!LimitKeepsNewest /\ Limit!LimitKeepsNewest
BY EventCardinality DEF EventsInv, NewestAre, Kinds!LimitKeepsNewest, Limit!LimitKeepsNewest

-----------------------------------------------------------------------------
(* Server-sent events *)

\* A client, field by field.
Client(filter, listed, ended, since, until, sent) ==
    [filter |-> filter, listed |-> listed, ended |-> ended, since |-> since, until |-> until,
     sent |-> sent]

IsClient(k) == k = Client(k.filter, k.listed, k.ended, k.since, k.until, k.sent)

\* What a step does with a client.
Ended(k) == [k EXCEPT !.ended = TRUE]
Got(k, items) == [k EXCEPT !.sent = @ \o items]

LEMMA ClientIs ==
    ASSUME NEW f, NEW l, NEW e, NEW s, NEW u, NEW t
    PROVE  /\ IsClient(Client(f, l, e, s, u, t))
           /\ Client(f, l, e, s, u, t).filter = f /\ Client(f, l, e, s, u, t).listed = l
           /\ Client(f, l, e, s, u, t).ended = e /\ Client(f, l, e, s, u, t).since = s
           /\ Client(f, l, e, s, u, t).until = u /\ Client(f, l, e, s, u, t).sent = t
BY DEF IsClient, Client

LEMMA ClientBecomes ==
    ASSUME NEW k, IsClient(k), NEW n, NEW items
    PROVE  /\ Sse!Gone(k, n) = Client(k.filter, FALSE, k.ended, k.since, n, k.sent)
           /\ Sse!Closed(k, n) = Client(k.filter, FALSE, TRUE, k.since, n, k.sent)
           /\ Ended(k) = Client(k.filter, k.listed, TRUE, k.since, k.until, k.sent)
           /\ Got(k, items) = Client(k.filter, k.listed, k.ended, k.since, k.until, k.sent \o items)
<1> DEFINE no == FALSE
           yes == TRUE
           f == k.filter
           l == k.listed
           e == k.ended
           s == k.since
           u == k.until
           t == k.sent
           one == [k EXCEPT !.listed = no]
           two == [one EXCEPT !.until = n]
           more == t \o items
<1>1. k = [filter |-> f, listed |-> l, ended |-> e, since |-> s, until |-> u, sent |-> t]
  BY DEF IsClient, Client
<1> HIDE DEF f, l, e, s, u, t, no, yes
<1>2. one = [filter |-> f, listed |-> no, ended |-> e, since |-> s, until |-> u, sent |-> t]
  BY <1>1
<1> HIDE DEF one
<1>3. two = [filter |-> f, listed |-> no, ended |-> e, since |-> s, until |-> n, sent |-> t]
  BY <1>2
<1> HIDE DEF two
<1>4. [two EXCEPT !.ended = yes]
         = [filter |-> f, listed |-> no, ended |-> yes, since |-> s, until |-> n, sent |-> t]
  BY <1>3
<1>5. [k EXCEPT !.ended = yes]
         = [filter |-> f, listed |-> l, ended |-> yes, since |-> s, until |-> u, sent |-> t]
  BY <1>1
<1>6. Got(k, items)
         = [filter |-> f, listed |-> l, ended |-> e, since |-> s, until |-> u, sent |-> more]
  <2>1. Got(k, items) = [k EXCEPT !.sent = more]
    BY DEF Got, t
  <2> HIDE DEF more
  <2> QED BY <1>1, <2>1
<1>7. Sse!Gone(k, n) = two /\ Sse!Closed(k, n) = [two EXCEPT !.ended = yes]
  BY DEF Sse!Gone, Sse!Closed, one, two, no, yes
<1> QED BY <1>3, <1>4, <1>5, <1>6, <1>7 DEF Client, Ended, no, yes, f, l, e, s, u, t

\* Whether a manager passes an item on to a client of the filter.
PassesOn(m, item, filter) ==
    CASE m = "events" -> Sse!MatchesAnyPattern(item, filter)
      [] m = "audit"  -> Sse!MatchesAuditFilter(item, filter)
      [] m = "debug"  -> Sse!MatchesDebugFilter(item, filter)

LEMMA MatchesIs ==
    \A item, c : Sse!Matches(item, c) = PassesOn(manager, item, connections[c].filter)
BY DEF Sse!Matches, PassesOn

\* What a client is to be sent of the items from its first to each one.
IsDue(g, since, last, items, m, filter) ==
    g = [n \in since..last |->
            IF n = since THEN <<>>
            ELSE IF PassesOn(m, items[n], filter) THEN Append(g[n - 1], items[n]) ELSE g[n - 1]]

LEMMA DueAgrees ==
    ASSUME NEW since \in Nat, NEW last \in Nat, NEW items, NEW m, NEW filter,
           NEW g, IsDue(g, since, last, items, m, filter),
           NEW h, IsDue(h, since, last, items, m, filter), since <= last
    PROVE  g[last] = h[last]
<1> DEFINE Bad == {k \in since..last : g[k] # h[k]}
<1>1. SUFFICES ASSUME Bad # {} PROVE FALSE
  OBVIOUS
<1>2. PICK k \in Bad : \A j \in Bad : k <= j
  <2>1. Bad \in SUBSET Nat
    OBVIOUS
  <2> HIDE DEF Bad
  <2> QED BY <1>1, <2>1, Smallest
<1>3. /\ g[k] = IF k = since THEN <<>>
                ELSE IF PassesOn(m, items[k], filter) THEN Append(g[k - 1], items[k]) ELSE g[k - 1]
      /\ h[k] = IF k = since THEN <<>>
                ELSE IF PassesOn(m, items[k], filter) THEN Append(h[k - 1], items[k]) ELSE h[k - 1]
  BY DEF IsDue
<1>4. k # since
  BY <1>3
<1>5. k - 1 \in since..last /\ ~(k <= k - 1)
  BY <1>4
<1>6. g[k - 1] = h[k - 1]
  BY <1>2, <1>5
<1> QED BY <1>3, <1>6

\* A client of the items: it was sent what was due while it was there.
LastOf(k, items) == IF k.listed THEN Len(items) ELSE k.until

ClientSound(k, items, m) ==
    /\ IsClient(k) /\ k.listed \in BOOLEAN /\ k.since \in Nat /\ IsLog(k.sent)
    /\ LastOf(k, items) \in Nat /\ k.since <= LastOf(k, items) /\ LastOf(k, items) <= Len(items)
    /\ \E g : IsDue(g, k.since, LastOf(k, items), items, m, k.filter)
              /\ k.sent = g[LastOf(k, items)]

\* More items, of which the first are the same.
Extends(more, items) ==
    /\ IsLog(items) /\ IsLog(more) /\ Len(items) <= Len(more)
    /\ \A n \in 1..Len(items) : more[n] = items[n]

LEMMA DueExtends ==
    ASSUME NEW since \in Nat, NEW last \in Nat, NEW items, NEW more, Extends(more, items),
           last <= Len(items), NEW m, NEW filter, NEW g, IsDue(g, since, last, items, m, filter)
    PROVE  IsDue(g, since, last, more, m, filter)
<1>1. Len(items) \in Nat
  BY LogIs DEF Extends
<1>2. ASSUME NEW n \in since..last, n # since PROVE more[n] = items[n]
  BY <1>1, <1>2 DEF Extends
<1> QED BY <1>2 DEF IsDue

\* A client that is not one any more, from now on or since long.
LEMMA ClientLeaves ==
    ASSUME NEW k, NEW items, NEW more, NEW m, ClientSound(k, items, m), k.listed,
           Extends(more, items)
    PROVE  /\ ClientSound(Sse!Gone(k, Len(items)), more, m)
           /\ ClientSound(Sse!Closed(k, Len(items)), more, m)
           /\ Sse!Gone(k, Len(items)).sent = k.sent /\ Sse!Closed(k, Len(items)).sent = k.sent
<1> DEFINE n == Len(items)
<1>1. Len(items) \in Nat /\ Len(more) \in Nat /\ n <= Len(more)
  BY LogIs DEF Extends
<1>2. PICK g : IsDue(g, k.since, n, items, m, k.filter) /\ k.sent = g[n]
  BY DEF ClientSound, LastOf
<1>3. k.since \in Nat /\ k.since <= n /\ IsLog(k.sent)
  BY DEF ClientSound, LastOf
<1>4. IsDue(g, k.since, n, more, m, k.filter)
  BY <1>1, <1>2, <1>3, DueExtends
<1> HIDE DEF n
<1>5. ASSUME NEW ended
      PROVE  LET new == Client(k.filter, FALSE, ended, k.since, n, k.sent)
             IN  ClientSound(new, more, m) /\ new.sent = k.sent
  <2> DEFINE no == FALSE
             new == Client(k.filter, no, ended, k.since, n, k.sent)
  <2> HIDE DEF no
  <2>1. /\ IsClient(new) /\ new.filter = k.filter /\ new.listed = no /\ new.since = k.since
        /\ new.until = n /\ new.sent = k.sent
    BY ClientIs
  <2> HIDE DEF new
  <2>2. LastOf(new, more) = n
    BY <2>1 DEF LastOf, no
  <2>3. n \in Nat /\ no \in BOOLEAN
    BY <1>1 DEF n, no
  <2>4. ClientSound(new, more, m)
    BY <1>1, <1>2, <1>3, <1>4, <2>1, <2>2, <2>3 DEF ClientSound
  <2> QED BY <2>1, <2>4 DEF new, no
<1>6. IsClient(k)
  BY DEF ClientSound
<1> QED BY ZenonT(40), <1>5, <1>6, ClientBecomes DEF n

\* A client that stays, and is passed over or gets the item.
LEMMA ClientStays ==
    ASSUME NEW k, NEW items, NEW m, ClientSound(k, items, m), k.listed, IsLog(items), NEW item
    PROVE  /\ ~PassesOn(m, item, k.filter) => ClientSound(k, Append(items, item), m)
           /\ PassesOn(m, item, k.filter) =>
                 /\ ClientSound(Got(k, <<item>>), Append(items, item), m)
                 /\ Len(Got(k, <<item>>).sent) = Len(k.sent) + 1
<1> DEFINE n == Len(items)
           more == Append(items, item)
<1>1. /\ IsLog(more) /\ n \in Nat /\ DOMAIN more = 1..n + 1 /\ DOMAIN items = 1..n
      /\ more[n + 1] = item /\ \A x \in DOMAIN items : more[x] = items[x]
  BY LogGrows
<1>2. Len(more) = n + 1
  <2>1. Len(more) \in Nat /\ DOMAIN more = 1..Len(more)
    BY <1>1, LogIs
  <2> HIDE DEF more, n
  <2> QED BY <1>1, <2>1
<1>3. PICK g : IsDue(g, k.since, n, items, m, k.filter) /\ k.sent = g[n]
  BY DEF ClientSound, LastOf
<1>4. k.since \in Nat /\ k.since <= n /\ IsLog(k.sent) /\ IsClient(k)
  BY DEF ClientSound, LastOf
<1>5. IsDue(g, k.since, n, more, m, k.filter)
  <2>1. Extends(more, items)
    <3> HIDE DEF more
    <3> QED BY <1>1, <1>2 DEF Extends
  <2>2. n <= Len(items)
    BY <1>1
  <2> HIDE DEF more
  <2> QED BY <1>1, <1>3, <1>4, <2>1, <2>2, DueExtends
<1> HIDE DEF more, n
<1> DEFINE h == [x \in k.since..n + 1 |->
                   IF x = n + 1
                   THEN IF PassesOn(m, item, k.filter) THEN Append(g[n], item) ELSE g[n]
                   ELSE g[x]]
<1>6. IsDue(h, k.since, n + 1, more, m, k.filter)
  <2>1. ASSUME NEW x \in k.since..n + 1
        PROVE  h[x] = IF x = k.since THEN <<>>
                      ELSE IF PassesOn(m, more[x], k.filter) THEN Append(h[x - 1], more[x])
                      ELSE h[x - 1]
    <3>1. CASE x = n + 1
      <4>1. x # k.since /\ x - 1 = n /\ n \in k.since..n + 1 /\ n # n + 1
        BY <1>1, <1>4, <3>1
      <4>2. h[x - 1] = g[n]
        BY <4>1
      <4> QED BY <1>1, <3>1, <4>1, <4>2
    <3>2. CASE x # n + 1
      <4>1. x \in k.since..n
        BY <1>1, <1>4, <3>2
      <4>2. g[x] = IF x = k.since THEN <<>>
                   ELSE IF PassesOn(m, more[x], k.filter) THEN Append(g[x - 1], more[x])
                   ELSE g[x - 1]
        BY <1>5, <4>1 DEF IsDue
      <4>3. x # k.since => x - 1 \in k.since..n + 1 /\ x - 1 # n + 1
        BY <1>1, <1>4, <4>1
      <4> QED BY <3>2, <4>2, <4>3
    <3> QED BY <3>1, <3>2
  <2>2. h = [x \in k.since..n + 1 |-> h[x]]
    OBVIOUS
  <2> HIDE DEF h
  <2> QED BY <2>1, <2>2 DEF IsDue
<1>7. h[n + 1] = IF PassesOn(m, item, k.filter) THEN Append(k.sent, item) ELSE k.sent
  BY <1>1, <1>3, <1>4
<1> HIDE DEF h
<1>8. ASSUME NEW new, IsClient(new), new.filter = k.filter, new.listed, new.since = k.since,
             new.sent = h[n + 1], IsLog(new.sent), new.listed \in BOOLEAN
      PROVE  ClientSound(new, more, m)
  <2>1. LastOf(new, more) = n + 1
    BY <1>2, <1>8 DEF LastOf
  <2> QED BY <1>1, <1>2, <1>4, <1>6, <1>8, <2>1 DEF ClientSound
<1>9. ASSUME ~PassesOn(m, item, k.filter) PROVE ClientSound(k, more, m)
  <2>1. k.listed \in BOOLEAN
    BY DEF ClientSound
  <2> QED BY <1>4, <1>7, <1>8, <1>9, <2>1
<1>10. ASSUME PassesOn(m, item, k.filter)
       PROVE  ClientSound(Got(k, <<item>>), more, m) /\ Len(Got(k, <<item>>).sent) = Len(k.sent) + 1
  <2> DEFINE sent == k.sent \o <<item>>
             new == Got(k, <<item>>)
  <2>1. sent = Append(k.sent, item)
    BY <1>4, AppendIsConcat DEF IsLog
  <2>2. IsLog(sent) /\ Len(sent) = Len(k.sent) + 1
    <3>1. /\ IsLog(Append(k.sent, item)) /\ Len(k.sent) \in Nat
          /\ DOMAIN Append(k.sent, item) = 1..Len(k.sent) + 1
      BY <1>4, LogGrows
    <3>2. Len(Append(k.sent, item)) \in Nat
          /\ DOMAIN Append(k.sent, item) = 1..Len(Append(k.sent, item))
      BY <3>1, LogIs
    <3> HIDE DEF sent
    <3>3. DOMAIN sent = 1..Len(k.sent) + 1 /\ Len(sent) \in Nat /\ DOMAIN sent = 1..Len(sent)
      BY <2>1, <3>1, <3>2
    <3> QED BY <2>1, <3>1, <3>3
  <2>3. /\ IsClient(new) /\ new.filter = k.filter /\ new.listed = k.listed /\ new.since = k.since
        /\ new.sent = sent
    <3>1. new = Client(k.filter, k.listed, k.ended, k.since, k.until, sent)
      BY <1>4, ClientBecomes
    <3> DEFINE f == k.filter
               l == k.listed
               e == k.ended
               s == k.since
               u == k.until
    <3> HIDE DEF f, l, e, s, u, new, sent
    <3>2. new = Client(f, l, e, s, u, sent)
      BY <3>1 DEF f, l, e, s, u
    <3>3. /\ IsClient(new) /\ new.filter = f /\ new.listed = l /\ new.since = s
          /\ new.sent = sent
      BY <3>2, ClientIs
    <3> QED BY <3>3 DEF f, l, s
  <2>4. k.listed \in BOOLEAN
    BY DEF ClientSound
  <2> HIDE DEF new, sent
  <2>5. ClientSound(new, more, m)
    BY <1>7, <1>8, <1>10, <2>1, <2>2, <2>3, <2>4
  <2> QED BY <2>2, <2>3, <2>5 DEF new
<1> QED BY <1>9, <1>10 DEF more

\* How much was sent to the clients up to each one.
IsCount(g, list) ==
    g = [n \in 0..Len(list) |-> IF n = 0 THEN 0 ELSE g[n - 1] + Len(list[n].sent)]

Counted(total, list) ==
    \E g : IsCount(g, list) /\ (\A n \in 0..Len(list) : g[n] \in Nat) /\ total = g[Len(list)]

LEMMA CountAgrees ==
    ASSUME NEW list, IsLog(list), NEW g, IsCount(g, list), NEW h, IsCount(h, list)
    PROVE  g[Len(list)] = h[Len(list)]
<1> DEFINE N == Len(list)
           Bad == {k \in 0..N : g[k] # h[k]}
<1>1. N \in Nat
  BY LogIs
<1> HIDE DEF N
<1>2. SUFFICES ASSUME Bad # {} PROVE FALSE
  BY <1>1 DEF N
<1>3. PICK k \in Bad : \A j \in Bad : k <= j
  <2>1. Bad \in SUBSET Nat
    BY <1>1
  <2> HIDE DEF Bad
  <2> QED BY <1>2, <2>1, Smallest
<1>4. /\ g[k] = IF k = 0 THEN 0 ELSE g[k - 1] + Len(list[k].sent)
      /\ h[k] = IF k = 0 THEN 0 ELSE h[k - 1] + Len(list[k].sent)
  BY DEF IsCount, N
<1>5. k # 0
  BY <1>4
<1>6. k - 1 \in 0..N /\ ~(k <= k - 1)
  BY <1>1, <1>5
<1>7. g[k - 1] = h[k - 1]
  BY <1>3, <1>6
<1> QED BY <1>4, <1>7

\* Some of the clients get one more.
OneMore(list, next, R, N) ==
    \A n \in 1..N : /\ Len(list[n].sent) \in Nat
                    /\ Len(next[n].sent) = Len(list[n].sent) + (IF n \in R THEN 1 ELSE 0)

LEMMA CountGrows ==
    ASSUME NEW list, NEW next, NEW N \in Nat, Len(list) = N, Len(next) = N, NEW total,
           Counted(total, list), NEW R \in SUBSET (1..N), OneMore(list, next, R, N)
    PROVE  Counted(total + Cardinality(R), next)
<1>0. \A n \in 1..N : /\ Len(list[n].sent) \in Nat
                      /\ Len(next[n].sent) = Len(list[n].sent) + (IF n \in R THEN 1 ELSE 0)
  BY DEF OneMore
<1>1. PICK g : IsCount(g, list) /\ (\A n \in 0..N : g[n] \in Nat) /\ total = g[N]
  BY DEF Counted
<1> DEFINE upTo(n) == {c \in R : c <= n}
           h == [n \in 0..N |-> g[n] + Cardinality(upTo(n))]
<1>2. \A n \in 0..N : IsFiniteSet(upTo(n)) /\ Cardinality(upTo(n)) \in Nat
  <2>1. IsFiniteSet(1..N)
    BY FS_Interval
  <2>2. \A n \in 0..N : upTo(n) \subseteq 1..N
    OBVIOUS
  <2> HIDE DEF upTo
  <2> QED BY <2>1, <2>2, FS_Subset, FS_CardinalityType
<1>3. upTo(0) = {} /\ upTo(N) = R
  <2>1. \A c \in R : ~(c <= 0) /\ c <= N
    OBVIOUS
  <2> QED BY <2>1
<1>4. ASSUME NEW n \in 1..N
      PROVE  Cardinality(upTo(n)) = Cardinality(upTo(n - 1)) + (IF n \in R THEN 1 ELSE 0)
  <2>1. n - 1 \in 0..N /\ n \notin upTo(n - 1)
    OBVIOUS
  <2>2. upTo(n) = IF n \in R THEN upTo(n - 1) \cup {n} ELSE upTo(n - 1)
    <3>1. \A c \in R : c <= n <=> (c <= n - 1 \/ c = n)
      OBVIOUS
    <3> QED BY <3>1
  <2>3. IsFiniteSet(upTo(n - 1)) /\ Cardinality(upTo(n - 1)) \in Nat
    BY <1>2, <2>1
  <2> HIDE DEF upTo
  <2>4. Cardinality(upTo(n - 1) \cup {n}) = Cardinality(upTo(n - 1)) + 1
    BY <2>1, <2>3, FS_AddElement
  <2> QED BY <2>2, <2>3, <2>4
<1> HIDE DEF upTo
<1>5. ASSUME NEW n \in 0..N
      PROVE  h[n] = IF n = 0 THEN 0 ELSE h[n - 1] + Len(next[n].sent)
  <2>1. CASE n = 0
    BY <1>1, <1>3, <2>1, FS_EmptySet DEF IsCount
  <2>2. CASE n # 0
    <3>1. n \in 1..N /\ n - 1 \in 0..N
      BY <2>2
    <3>2. g[n] = g[n - 1] + Len(list[n].sent)
      BY <1>1, <3>1 DEF IsCount
    <3>3. h[n] = g[n] + Cardinality(upTo(n)) /\ h[n - 1] = g[n - 1] + Cardinality(upTo(n - 1))
      BY <3>1
    <3>4. /\ g[n - 1] \in Nat /\ Len(list[n].sent) \in Nat /\ Cardinality(upTo(n - 1)) \in Nat
          /\ Cardinality(upTo(n)) = Cardinality(upTo(n - 1)) + (IF n \in R THEN 1 ELSE 0)
          /\ Len(next[n].sent) = Len(list[n].sent) + (IF n \in R THEN 1 ELSE 0)
      BY <1>0, <1>1, <1>2, <1>4, <3>1
    <3> DEFINE a == Cardinality(upTo(n))
               b == Cardinality(upTo(n - 1))
               x == Len(next[n].sent)
               y == Len(list[n].sent)
               d == IF n \in R THEN 1 ELSE 0
               p == g[n - 1]
               r == g[n]
               v == h[n - 1]
               w == h[n]
    <3>5. /\ p \in Nat /\ y \in Nat /\ b \in Nat /\ d \in Nat
          /\ r = p + y /\ w = r + a /\ v = p + b /\ a = b + d /\ x = y + d
      <4> HIDE DEF h
      <4> QED BY <3>2, <3>3, <3>4
    <3> HIDE DEF a, b, x, y, d, p, r, v, w
    <3>6. w = v + x
      BY <3>5
    <3> HIDE DEF h
    <3> QED BY <2>2, <3>6 DEF x, v, w
  <2> QED BY <2>1, <2>2
<1>6. \A n \in 0..N : h[n] \in Nat
  BY <1>1, <1>2
<1>7. h = [n \in 0..N |-> h[n]] /\ h[N] = total + Cardinality(R)
  BY <1>1, <1>3
<1> HIDE DEF h
<1>8. IsCount(h, next)
  BY <1>5, <1>7 DEF IsCount
<1> QED BY <1>6, <1>7, <1>8 DEF Counted

\* A client comes, to which nothing was sent.
LEMMA CountAppended ==
    ASSUME NEW list, NEW next, NEW N \in Nat, Len(list) = N, Len(next) = N + 1, NEW total,
           Counted(total, list), \A n \in 1..N : next[n] = list[n], next[N + 1].sent = <<>>
    PROVE  Counted(total, next)
<1>1. PICK g : IsCount(g, list) /\ (\A n \in 0..N : g[n] \in Nat) /\ total = g[N]
  BY DEF Counted
<1> DEFINE h == [n \in 0..N + 1 |-> IF n = N + 1 THEN g[N] ELSE g[n]]
<1>2. ASSUME NEW n \in 0..N + 1
      PROVE  h[n] = IF n = 0 THEN 0 ELSE h[n - 1] + Len(next[n].sent)
  <2>1. CASE n = N + 1
    <3>1. n - 1 = N /\ n # 0 /\ N # N + 1 /\ N \in 0..N + 1 /\ g[N] \in Nat
      BY <1>1, <2>1
    <3>2. h[n] = g[N] /\ h[n - 1] = g[N]
      BY <2>1, <3>1
    <3>3. Len(next[n].sent) = 0
      BY <2>1
    <3> HIDE DEF h
    <3> QED BY <3>1, <3>2, <3>3
  <2>2. CASE n # N + 1
    <3>1. n \in 0..N /\ (n # 0 => n - 1 \in 0..N + 1 /\ n - 1 # N + 1 /\ n \in 1..N)
      BY <2>2
    <3>2. g[n] = IF n = 0 THEN 0 ELSE g[n - 1] + Len(list[n].sent)
      BY <1>1, <3>1 DEF IsCount
    <3>3. h[n] = g[n] /\ (n # 0 => h[n - 1] = g[n - 1])
      BY <2>2, <3>1
    <3> HIDE DEF h
    <3> QED BY <3>1, <3>2, <3>3
  <2> QED BY <2>1, <2>2
<1>3. \A n \in 0..N + 1 : h[n] \in Nat
  BY <1>1
<1>4. h = [n \in 0..N + 1 |-> h[n]] /\ h[N + 1] = total
  BY <1>1
<1> HIDE DEF h
<1>5. IsCount(h, next)
  BY <1>2, <1>4 DEF IsCount
<1> QED BY <1>3, <1>4, <1>5 DEF Counted

StreamInv ==
    /\ IsLog(connections) /\ IsLog(broadcasts)
    /\ \A c \in DOMAIN connections : ClientSound(connections[c], broadcasts, manager)
    /\ Counted(totalSent, connections)

LEMMA StreamInitSound == ASSUME Sse!SseInit PROVE StreamInv
<1>1. connections = <<>> /\ broadcasts = <<>> /\ totalSent = 0
  BY DEF Sse!SseInit
<1> DEFINE g == [n \in 0..0 |-> 0]
<1>2. IsCount(g, connections) /\ (\A n \in 0..Len(connections) : g[n] \in Nat)
      /\ totalSent = g[Len(connections)]
  <2>1. Len(connections) = 0
    BY <1>1
  <2>2. g = [n \in 0..0 |-> IF n = 0 THEN 0 ELSE g[n - 1] + Len(connections[n].sent)]
    OBVIOUS
  <2>3. g[0] = 0 /\ \A n \in 0..0 : g[n] \in Nat
    OBVIOUS
  <2> HIDE DEF g
  <2> QED BY <1>1, <2>1, <2>2, <2>3 DEF IsCount
<1>3. Counted(totalSent, connections)
  BY <1>2 DEF Counted
<1> QED BY <1>1, <1>3 DEF StreamInv, IsLog

\* The clients after a step, each by itself; those in R get one more.
LEMMA ClientsSound ==
    ASSUME StreamInv, NEW R \in SUBSET (DOMAIN connections), IsLog(broadcasts'),
           connections' = [c \in DOMAIN connections |-> connections'[c]],
           \A c \in DOMAIN connections :
               /\ ClientSound(connections'[c], broadcasts', manager)
               /\ Len(connections'[c].sent) =
                      Len(connections[c].sent) + (IF c \in R THEN 1 ELSE 0),
           totalSent' = totalSent + Cardinality(R), manager' = manager
    PROVE  StreamInv'
<1> DEFINE N == Len(connections)
<1>1. N \in Nat /\ DOMAIN connections = 1..N
  BY LogIs DEF StreamInv
<1>2. IsLog(connections') /\ Len(connections') = N /\ DOMAIN connections' = 1..N
  <2> HIDE DEF N
  <2> QED BY <1>1, LogOfLength
<1>3. \A c \in 1..N : Len(connections[c].sent) \in Nat
  BY <1>1, LogIs DEF StreamInv, ClientSound
<1>4. Counted(totalSent', connections')
  <2>1. Counted(totalSent, connections)
    BY DEF StreamInv
  <2> HIDE DEF N
  <2> DEFINE list == connections
             next == connections'
  <2>2. /\ Len(list) = N /\ Len(next) = N /\ R \in SUBSET (1..N)
        /\ OneMore(list, next, R, N)
    BY <1>1, <1>2, <1>3 DEF N, OneMore
  <2>3. Counted(totalSent, list)
    BY <2>1
  <2> HIDE DEF list, next
  <2>4. Counted(totalSent + Cardinality(R), next)
    <3>1. N \in Nat
      BY <1>1
    <3> QED BY <2>2, <2>3, <3>1, CountGrows
  <2> QED BY <2>4 DEF next
<1> QED BY <1>1, <1>2, <1>4 DEF StreamInv

LEMMA TotalIs == ASSUME StreamInv PROVE totalSent \in Nat
<1>1. Len(connections) \in Nat
  BY LogIs DEF StreamInv
<1> QED BY <1>1 DEF StreamInv, Counted

\* A client that is not there is as it was.
LEMMA ClientIsGone ==
    ASSUME NEW k, NEW items, NEW more, NEW m, ClientSound(k, items, m), ~k.listed,
           Extends(more, items)
    PROVE  ClientSound(k, more, m)
<1>1. Len(items) \in Nat /\ Len(more) \in Nat /\ Len(items) <= Len(more)
  BY LogIs DEF Extends
<1>2. LastOf(k, items) = k.until /\ LastOf(k, more) = k.until
  BY DEF LastOf
<1>3. k.until \in Nat /\ k.since \in Nat /\ k.until <= Len(items)
  BY <1>2 DEF ClientSound
<1>4. PICK g : IsDue(g, k.since, k.until, items, m, k.filter) /\ k.sent = g[k.until]
  BY <1>2 DEF ClientSound
<1>5. IsDue(g, k.since, k.until, more, m, k.filter)
  BY <1>3, <1>4, DueExtends
<1> QED BY <1>1, <1>2, <1>3, <1>4, <1>5 DEF ClientSound

LEMMA SameItems == ASSUME NEW items, IsLog(items) PROVE Extends(items, items)
<1>1. Len(items) \in Nat
  BY LogIs
<1> QED BY <1>1 DEF Extends

LEMMA MoreItems ==
    ASSUME NEW items, IsLog(items), NEW item
    PROVE  Extends(Append(items, item), items)
<1> DEFINE n == Len(items)
           more == Append(items, item)
<1>1. /\ IsLog(more) /\ n \in Nat /\ DOMAIN more = 1..n + 1 /\ DOMAIN items = 1..n
      /\ \A x \in DOMAIN items : more[x] = items[x]
  BY LogGrows
<1>2. Len(more) \in Nat /\ DOMAIN more = 1..Len(more)
  BY <1>1, LogIs
<1> HIDE DEF more, n
<1>3. n <= Len(more)
  BY <1>1, <1>2
<1> QED BY <1>1, <1>3 DEF Extends, more, n

LEMMA BroadcastSound ==
    ASSUME StreamInv, NEW item, NEW throws, Sse!Broadcast(item, throws)
    PROVE  StreamInv'
<1> DEFINE n == Len(broadcasts)
           to == {c \in Sse!Listed : Sse!Matches(item, c)}
           R == Sse!Reached(to, throws)
<1>1. /\ broadcasts' = Append(broadcasts, item)
      /\ connections' = Sse!Written(to, throws, <<item>>, n)
      /\ totalSent' = totalSent + Sse!Cardinality(R) /\ manager' = manager
  BY DEF Sse!Broadcast
<1>2. R \in SUBSET (DOMAIN connections)
  BY DEF Sse!Reached, Sse!Listed
<1>3. totalSent' = totalSent + Cardinality(R)
  BY <1>1 DEF Sse!Cardinality, Cardinality
<1>4. IsLog(broadcasts) /\ Extends(broadcasts', broadcasts)
  BY <1>1, MoreItems DEF StreamInv
<1>5. IsLog(broadcasts')
  BY <1>4 DEF Extends
<1>6. \A c \in to : c \in DOMAIN connections /\ connections[c].listed
                    /\ PassesOn(manager, item, connections[c].filter)
  BY MatchesIs DEF Sse!Listed
<1>7. \A c \in DOMAIN connections : c \notin to /\ connections[c].listed =>
         ~PassesOn(manager, item, connections[c].filter)
  BY MatchesIs DEF Sse!Listed
<1>8. /\ connections' = [c \in DOMAIN connections |-> connections'[c]]
      /\ \A c \in DOMAIN connections :
            connections'[c] =
                IF c \notin to THEN connections[c]
                ELSE IF c \in throws \/ connections[c].ended THEN Sse!Gone(connections[c], n)
                ELSE Got(connections[c], <<item>>)
  <2> HIDE DEF to, n
  <2> QED BY <1>1 DEF Sse!Written, Got
<1>9. \A c \in DOMAIN connections : c \in R <=>
         c \in to /\ ~(c \in throws \/ connections[c].ended)
  BY DEF Sse!Reached
<1> HIDE DEF to, R
<1>10. ASSUME NEW c \in DOMAIN connections
       PROVE  /\ ClientSound(connections'[c], broadcasts', manager)
              /\ Len(connections'[c].sent) =
                     Len(connections[c].sent) + (IF c \in R THEN 1 ELSE 0)
  <2> DEFINE k == connections[c]
  <2>1. ClientSound(k, broadcasts, manager)
    BY DEF StreamInv
  <2>2. Len(k.sent) \in Nat
    BY <2>1, LogIs DEF ClientSound
  <2>3. CASE c \notin to
    <3>1. connections'[c] = k /\ c \notin R
      BY <1>8, <1>9, <2>3
    <3>2. CASE k.listed
      <4>1. ~PassesOn(manager, item, k.filter)
        BY <1>7, <2>3, <3>2
      <4> HIDE DEF k
      <4>2. ClientSound(k, Append(broadcasts, item), manager)
        BY <1>4, <2>1, <3>2, <4>1, ClientStays
      <4> QED BY <1>1, <2>2, <3>1, <4>2 DEF k
    <3>3. CASE ~k.listed
      <4> HIDE DEF k
      <4>1. ClientSound(k, broadcasts', manager)
        BY <1>4, <2>1, <3>3, ClientIsGone
      <4> QED BY <2>2, <3>1, <4>1 DEF k
    <3> QED BY <3>2, <3>3
  <2>4. CASE c \in to /\ (c \in throws \/ k.ended)
    <3>1. connections'[c] = Sse!Gone(k, n) /\ c \notin R /\ k.listed
      BY <1>6, <1>8, <1>9, <2>4
    <3> HIDE DEF k
    <3>2. /\ ClientSound(Sse!Gone(k, n), broadcasts', manager)
          /\ Sse!Gone(k, n).sent = k.sent
      BY <1>4, <2>1, <3>1, ClientLeaves
    <3> HIDE DEF n
    <3> QED BY <2>2, <3>1, <3>2 DEF k
  <2>5. CASE c \in to /\ ~(c \in throws \/ k.ended)
    <3>1. connections'[c] = Got(k, <<item>>) /\ c \in R /\ k.listed
          /\ PassesOn(manager, item, k.filter)
      BY <1>6, <1>8, <1>9, <2>5
    <3> HIDE DEF k
    <3>2. /\ ClientSound(Got(k, <<item>>), Append(broadcasts, item), manager)
          /\ Len(Got(k, <<item>>).sent) = Len(k.sent) + 1
      BY <1>4, <2>1, <3>1, ClientStays
    <3> QED BY <1>1, <3>1, <3>2 DEF k
  <2> QED BY <2>3, <2>4, <2>5
<1> HIDE DEF n
<1> QED BY <1>1, <1>2, <1>3, <1>5, <1>8, <1>10, ClientsSound

\* A step in which nothing is broadcast and nobody gets anything.
LEMMA NothingSent ==
    ASSUME StreamInv, UNCHANGED <<manager, broadcasts, totalSent>>,
           connections' = [c \in DOMAIN connections |-> connections'[c]],
           \A c \in DOMAIN connections :
               \/ connections'[c] = connections[c]
               \/ connections'[c] = Ended(connections[c])
               \/ connections'[c] = Got(connections[c], <<>>)
               \/ /\ connections[c].listed
                  /\ connections'[c] \in {Sse!Gone(connections[c], Len(broadcasts)),
                                          Sse!Closed(connections[c], Len(broadcasts))}
    PROVE  StreamInv'
<1>1. IsLog(broadcasts) /\ Extends(broadcasts, broadcasts) /\ broadcasts' = broadcasts
  BY SameItems DEF StreamInv
<1>2. ASSUME NEW c \in DOMAIN connections
      PROVE  ClientSound(connections'[c], broadcasts, manager)
             /\ connections'[c].sent = connections[c].sent
  <2> DEFINE k == connections[c]
             n == Len(broadcasts)
             new == connections'[c]
  <2>1. ClientSound(k, broadcasts, manager)
    BY DEF StreamInv
  <2>2. IsClient(k) /\ k.sent \o <<>> = k.sent
    <3>1. IsClient(k) /\ IsLog(k.sent)
      BY <2>1 DEF ClientSound
    <3> QED BY <3>1, ConcatEmptySeq DEF IsLog
  <2>3. CASE new = Ended(k)
    <3> DEFINE l == k.listed
               u == k.until
    <3>1. new = Client(k.filter, l, TRUE, k.since, u, k.sent)
      BY <2>2, <2>3, ClientBecomes
    <3> HIDE DEF k, new, l, u
    <3>2. /\ IsClient(new) /\ new.filter = k.filter /\ new.listed = l /\ new.since = k.since
          /\ new.until = u /\ new.sent = k.sent
      <4> DEFINE yes == TRUE
      <4>1. new = Client(k.filter, l, yes, k.since, u, k.sent)
        BY <3>1
      <4> HIDE DEF yes
      <4> QED BY <4>1, ClientIs
    <3>3. LastOf(new, broadcasts) = LastOf(k, broadcasts)
      BY <3>2 DEF LastOf, l, u
    <3> QED BY <2>1, <3>2, <3>3 DEF ClientSound, l, k, new
  <2>4. CASE new = Got(k, <<>>)
    <3>1. Got(k, <<>>) = Client(k.filter, k.listed, k.ended, k.since, k.until, k.sent \o <<>>)
      BY <2>2, ClientBecomes
    <3>2. Got(k, <<>>) = k
      BY <2>2, <3>1 DEF IsClient
    <3> QED BY <2>1, <2>4, <3>2
  <2>5. CASE k.listed /\ new \in {Sse!Gone(k, n), Sse!Closed(k, n)}
    <3> HIDE DEF k, new
    <3>1. /\ ClientSound(Sse!Gone(k, n), broadcasts, manager)
          /\ ClientSound(Sse!Closed(k, n), broadcasts, manager)
          /\ Sse!Gone(k, n).sent = k.sent /\ Sse!Closed(k, n).sent = k.sent
      BY <1>1, <2>1, <2>5, ClientLeaves
    <3> HIDE DEF n
    <3> QED BY <2>5, <3>1 DEF k, new
  <2>6. CASE new = k
    BY <2>1, <2>6
  <2> QED BY <2>3, <2>4, <2>5, <2>6
<1>3. /\ {} \in SUBSET (DOMAIN connections) /\ totalSent' = totalSent + Cardinality({})
      /\ manager' = manager
  <2>1. totalSent \in Nat /\ Cardinality({}) = 0
    BY TotalIs, FS_EmptySet
  <2> QED BY <2>1
<1>4. \A c \in DOMAIN connections :
         /\ ClientSound(connections'[c], broadcasts', manager)
         /\ Len(connections'[c].sent) = Len(connections[c].sent) + (IF c \in {} THEN 1 ELSE 0)
  <2>1. \A c \in DOMAIN connections : Len(connections[c].sent) \in Nat
    BY LogIs DEF StreamInv, ClientSound
  <2> QED BY <1>1, <1>2, <2>1
<1> QED BY <1>1, <1>3, <1>4, ClientsSound

\* Nothing but the clients, each by itself, or only the flags of the manager.
LEMMA SameClients ==
    ASSUME StreamInv, UNCHANGED <<manager, broadcasts, totalSent, connections>>
    PROVE  StreamInv'
BY DEF StreamInv

LEMMA AllClosed ==
    ASSUME StreamInv, UNCHANGED <<manager, broadcasts, totalSent>>,
           connections' = [c \in DOMAIN connections |->
                              IF c \in Sse!Listed THEN Sse!Closed(connections[c], Len(broadcasts))
                              ELSE connections[c]]
    PROVE  StreamInv'
<1>1. connections' = [c \in DOMAIN connections |-> connections'[c]]
  OBVIOUS
<1>2. \A c \in DOMAIN connections :
         \/ connections'[c] = connections[c]
         \/ /\ connections[c].listed
            /\ connections'[c] = Sse!Closed(connections[c], Len(broadcasts))
  BY DEF Sse!Listed
<1> QED BY <1>1, <1>2, NothingSent

LEMMA HeartbeatSound ==
    ASSUME StreamInv, NEW throws, Sse!SendHeartbeat(throws)
    PROVE  StreamInv'
<1>1. /\ connections' = Sse!Written(Sse!Listed, throws, <<>>, Len(broadcasts))
      /\ UNCHANGED <<manager, broadcasts, totalSent>>
  BY DEF Sse!SendHeartbeat
<1>2. /\ connections' = [c \in DOMAIN connections |-> connections'[c]]
      /\ \A c \in DOMAIN connections :
            connections'[c] =
                IF c \notin Sse!Listed THEN connections[c]
                ELSE IF c \in throws \/ connections[c].ended
                     THEN Sse!Gone(connections[c], Len(broadcasts))
                ELSE Got(connections[c], <<>>)
  BY <1>1 DEF Sse!Written, Got
<1>3. \A c \in DOMAIN connections :
         \/ connections'[c] = connections[c]
         \/ connections'[c] = Got(connections[c], <<>>)
         \/ /\ connections[c].listed
            /\ connections'[c] = Sse!Gone(connections[c], Len(broadcasts))
  BY <1>2 DEF Sse!Listed
<1> QED BY <1>1, <1>2, <1>3, NothingSent

\* A connection ends, by its client or by someone else.
LEMMA CloseSound ==
    ASSUME StreamInv, NEW c \in DOMAIN connections, Sse!CloseEvent(c) \/ Sse!ResponseEnds(c)
    PROVE  StreamInv'
<1> DEFINE k == connections[c]
           new == IF Sse!CloseEvent(c)
                  THEN IF c \in Sse!Listed THEN Sse!Closed(k, Len(broadcasts)) ELSE k
                  ELSE Ended(k)
<1>1. connections' = [connections EXCEPT ![c] = new]
      /\ UNCHANGED <<manager, broadcasts, totalSent>>
  BY DEF Sse!CloseEvent, Sse!ResponseEnds, Ended
<1>2. \/ new = k \/ new = Ended(k)
      \/ k.listed /\ new = Sse!Closed(k, Len(broadcasts))
  BY DEF Sse!Listed
<1>3. IsLog(connections)
  BY DEF StreamInv
<1> HIDE DEF new
<1>4. /\ connections' = [d \in DOMAIN connections |-> connections'[d]]
      /\ \A d \in DOMAIN connections : connections'[d] = IF d = c THEN new ELSE connections[d]
  BY <1>1
<1>5. \A d \in DOMAIN connections :
         \/ connections'[d] = connections[d]
         \/ connections'[d] = Ended(connections[d])
         \/ /\ connections[d].listed
            /\ connections'[d] = Sse!Closed(connections[d], Len(broadcasts))
  BY <1>2, <1>4
<1> QED BY <1>1, <1>4, <1>5, NothingSent

LEMMA AddConnectionSound ==
    ASSUME StreamInv, NEW filter, NEW throws \in BOOLEAN, Sse!AddConnection(filter, throws)
    PROVE  StreamInv'
<1> DEFINE n == Len(broadcasts)
           N == Len(connections)
           yes == TRUE
           no == FALSE
           new == Client(filter, yes, no, n, 0, <<>>)
           it == IF throws THEN Sse!Gone(new, n) ELSE new
<1>1. /\ connections' = Append(connections, it)
      /\ UNCHANGED <<manager, broadcasts, totalSent>>
  BY DEF Sse!AddConnection, Client
<1>2. n \in Nat /\ IsLog(broadcasts) /\ IsLog(connections)
  BY LogIs DEF StreamInv
<1>3. ClientSound(new, broadcasts, manager) /\ new.listed /\ new.sent = <<>>
  <2> DEFINE g == [x \in n..n |-> <<>>]
  <2>1. IsDue(g, n, n, broadcasts, manager, filter) /\ g[n] = <<>>
    <3>1. \A x \in n..n : x = n
      BY <1>2
    <3>2. n \in n..n
      BY <1>2
    <3> HIDE DEF n
    <3> QED BY <3>1, <3>2 DEF IsDue
  <2> HIDE DEF yes, no
  <2>2. /\ IsClient(new) /\ new.filter = filter /\ new.listed = yes /\ new.since = n
        /\ new.until = 0 /\ new.sent = <<>>
    <3> DEFINE z == 0
               e == <<>>
    <3> HIDE DEF z, e, n
    <3>1. new = Client(filter, yes, no, n, z, e)
      BY DEF z, e
    <3> HIDE DEF new
    <3>2. /\ IsClient(new) /\ new.filter = filter /\ new.listed = yes /\ new.since = n
          /\ new.until = z /\ new.sent = e
      BY <3>1, ClientIs
    <3> QED BY <3>2 DEF z, e
  <2> HIDE DEF new, g
  <2>3. LastOf(new, broadcasts) = n
    BY <2>2 DEF LastOf, yes
  <2>4. n <= n /\ yes \in BOOLEAN /\ IsLog(<<>>)
    BY <1>2 DEF yes, IsLog
  <2> HIDE DEF n
  <2>5. n <= Len(broadcasts)
    BY <2>4 DEF n
  <2> QED BY <1>2, <2>1, <2>2, <2>3, <2>4, <2>5 DEF ClientSound, yes
<1> HIDE DEF new
<1>4. ClientSound(it, broadcasts, manager) /\ it.sent = <<>>
  <2>1. Extends(broadcasts, broadcasts)
    BY <1>2, SameItems
  <2>2. ClientSound(Sse!Gone(new, n), broadcasts, manager) /\ Sse!Gone(new, n).sent = new.sent
    BY <1>3, <2>1, ClientLeaves
  <2> HIDE DEF n
  <2> QED BY <1>3, <2>2
<1> HIDE DEF it
<1>5. /\ IsLog(connections') /\ N \in Nat /\ DOMAIN connections = 1..N
      /\ DOMAIN connections' = 1..N + 1 /\ connections'[N + 1] = it
      /\ \A c \in DOMAIN connections : connections'[c] = connections[c]
  BY <1>1, <1>2, LogGrows
<1>6. Len(connections') = N + 1
  <2>1. Len(connections') \in Nat /\ DOMAIN connections' = 1..Len(connections')
    BY <1>5, LogIs
  <2> HIDE DEF N
  <2> QED BY <1>5, <2>1
<1>7. \A c \in DOMAIN connections' : ClientSound(connections'[c], broadcasts', manager')
  <2>1. \A c \in DOMAIN connections' : c = N + 1 \/ c \in DOMAIN connections
    BY <1>5
  <2> QED BY <1>1, <1>4, <1>5, <2>1 DEF StreamInv
<1>8. Counted(totalSent', connections')
  <2>1. Counted(totalSent, connections)
    BY DEF StreamInv
  <2>2. \A c \in 1..N : connections'[c] = connections[c]
    BY <1>5
  <2> DEFINE list == connections
             next == connections'
  <2>3. /\ Len(list) = N /\ Len(next) = N + 1 /\ Counted(totalSent, list)
        /\ \A c \in 1..N : next[c] = list[c]
        /\ next[N + 1].sent = <<>>
    BY <1>4, <1>5, <1>6, <2>1, <2>2
  <2>4. N \in Nat
    BY <1>5
  <2> HIDE DEF list, next, N
  <2>5. Counted(totalSent, next)
    BY <2>3, <2>4, CountAppended
  <2> QED BY <1>1, <2>5 DEF next
<1> QED BY <1>1, <1>2, <1>5, <1>7, <1>8 DEF StreamInv

LEMMA StreamNextSound == ASSUME StreamInv, Sse!SseNext PROVE StreamInv'
<1>1. CASE Sse!StartEvents \/ Sse!StartAudit \/ Sse!StartDebug
  BY <1>1, SameClients DEF Sse!StartEvents, Sse!StartAudit, Sse!StartDebug
<1>2. CASE Sse!StopEvents
  BY <1>2, AllClosed DEF Sse!StopEvents
<1>3. CASE Sse!StopAuditStream
  BY <1>3, AllClosed DEF Sse!StopAuditStream
<1>4. CASE Sse!StopDebug
  BY <1>4, AllClosed DEF Sse!StopDebug
<1> QED BY <1>1, <1>2, <1>3, <1>4, BroadcastSound, HeartbeatSound, AddConnectionSound, CloseSound
        DEF Sse!SseNext

\* What every client got is what was due, and the total is what they got.
LEMMA SentIsExact == ASSUME StreamInv PROVE Sse!SentExactly
<1>1. ASSUME NEW c \in DOMAIN connections
      PROVE  connections[c].sent =
                 Sse!Due(c, IF c \in Sse!Listed THEN Len(broadcasts) ELSE connections[c].until)
  <2> DEFINE k == connections[c]
             last == LastOf(k, broadcasts)
             D(g) == g = [n \in k.since..last |->
                            IF n = k.since THEN <<>>
                            ELSE IF Sse!Matches(broadcasts[n], c)
                                 THEN Append(g[n - 1], broadcasts[n])
                            ELSE g[n - 1]]
  <2>1. last = IF c \in Sse!Listed THEN Len(broadcasts) ELSE k.until
    BY DEF LastOf, Sse!Listed
  <2>2. ClientSound(k, broadcasts, manager)
    BY DEF StreamInv
  <2>3. /\ k.since \in Nat /\ last \in Nat /\ k.since <= last
        /\ \E g : IsDue(g, k.since, last, broadcasts, manager, k.filter) /\ k.sent = g[last]
    BY <2>2 DEF ClientSound
  <2>4. PICK g : IsDue(g, k.since, last, broadcasts, manager, k.filter) /\ k.sent = g[last]
    BY <2>3
  <2>5. \A h : D(h) <=> IsDue(h, k.since, last, broadcasts, manager, k.filter)
    <3> HIDE DEF last
    <3> QED BY MatchesIs DEF IsDue
  <2>6. Sse!Due(c, last) = (CHOOSE h : D(h))[last]
    <3> HIDE DEF last
    <3> QED BY DEF Sse!Due
  <2> HIDE DEF D
  <2>7. D(CHOOSE h : D(h))
    BY <2>4, <2>5
  <2> DEFINE h == CHOOSE h : D(h)
  <2>8. IsDue(h, k.since, last, broadcasts, manager, k.filter)
    BY <2>5, <2>7
  <2> HIDE DEF h, last, k
  <2>9. g[last] = h[last]
    BY <2>3, <2>4, <2>8, DueAgrees
  <2> QED BY <2>1, <2>4, <2>6, <2>9 DEF h, k
<1>2. Sse!SentTotals
  <2> DEFINE C(g) == g = [n \in 0..Len(connections) |->
                            IF n = 0 THEN 0 ELSE g[n - 1] + Len(connections[n].sent)]
             h == CHOOSE g : C(g)
  <2>1. PICK g : IsCount(g, connections) /\ totalSent = g[Len(connections)]
    BY DEF StreamInv, Counted
  <2>2. \A f : C(f) <=> IsCount(f, connections)
    BY DEF IsCount
  <2>3. Sse!SentTotals <=> totalSent = h[Len(connections)]
    BY DEF Sse!SentTotals
  <2> HIDE DEF C
  <2>4. C(h)
    BY <2>1, <2>2
  <2>5. IsCount(h, connections) /\ IsLog(connections)
    BY <2>2, <2>4 DEF StreamInv
  <2> HIDE DEF h
  <2>6. g[Len(connections)] = h[Len(connections)]
    BY <2>1, <2>5, CountAgrees
  <2> QED BY <2>1, <2>3, <2>6
<1> QED BY <1>1, <1>2 DEF Sse!SentExactly, Sse!SentInOrder

-----------------------------------------------------------------------------
(* Subscriptions *)

\* Sequences put together.
LEMMA LogConcat ==
    ASSUME NEW a, IsLog(a), NEW b, IsLog(b)
    PROVE  IsLog(a \o b) /\ a \o <<>> = a /\ <<>> \o a = a
<1> DEFINE A == {a[k] : k \in DOMAIN a}
           B == {b[k] : k \in DOMAIN b}
           t == a \o b
<1>1. a \in Seq(A) /\ b \in Seq(B)
  BY DEF IsLog
<1> HIDE DEF A, B
<1>2. a \in Seq(A \cup B) /\ b \in Seq(A \cup B)
  BY <1>1, SeqMonotonic
<1>3. t \in Seq(A \cup B)
  BY <1>2, ConcatProperties
<1>4. IsLog(t)
  <2> HIDE DEF t
  <2>1. t \in [1..Len(t) -> A \cup B] /\ DOMAIN t = 1..Len(t) /\ Len(t) \in Nat
    BY <1>3, LenProperties
  <2>2. t = [k \in 1..Len(t) |-> t[k]]
    BY <2>1
  <2> QED BY <2>1, <2>2, LogOfLength
<1> QED BY <1>1, <1>4, ConcatEmptySeq

LEMMA LogAssociative ==
    ASSUME NEW a, IsLog(a), NEW b, IsLog(b), NEW c, IsLog(c)
    PROVE  (a \o b) \o c = a \o (b \o c)
<1> DEFINE A == {a[k] : k \in DOMAIN a}
           B == {b[k] : k \in DOMAIN b}
           C == {c[k] : k \in DOMAIN c}
           S == A \cup B \cup C
<1>1. a \in Seq(A) /\ b \in Seq(B) /\ c \in Seq(C)
  BY DEF IsLog
<1> HIDE DEF A, B, C
<1>2. a \in Seq(S) /\ b \in Seq(S) /\ c \in Seq(S)
  BY <1>1, SeqMonotonic
<1> HIDE DEF S
<1> QED BY <1>2, ConcatAssociative

LEMMA Joins ==
    ASSUME NEW B, NEW b \in Seq(B), NEW t \in Seq(B), NEW one \in Seq(B), Len(one) = 1,
           Len(b) = Len(t) + 1, one[1] = b[1], \A i \in 1..Len(t) : t[i] = b[i + 1]
    PROVE  one \o t = b
<1> DEFINE u == one \o t
<1>1. /\ u \in Seq(B) /\ Len(u) = Len(one) + Len(t)
      /\ \A i \in 1..Len(one) + Len(t) :
            u[i] = IF i <= Len(one) THEN one[i] ELSE t[i - Len(one)]
  BY ConcatProperties
<1> HIDE DEF u
<1>2. Len(t) \in Nat
  BY LenProperties
<1>3. Len(u) = Len(b)
  BY <1>1, <1>2
<1>4. ASSUME NEW i \in 1..Len(u) PROVE u[i] = b[i]
  <2>1. CASE i = 1
    BY <1>1, <1>2, <2>1
  <2>2. CASE i # 1
    <3>1. i - 1 \in 1..Len(t) /\ (i - 1) + 1 = i /\ ~(i <= 1) /\ i \in 1..1 + Len(t)
      BY <1>1, <1>2, <2>2
    <3>2. t[i - 1] = b[(i - 1) + 1]
      BY <3>1
    <3> QED BY <1>1, <3>1, <3>2
  <2> QED BY <2>1, <2>2
<1> QED BY <1>1, <1>3, <1>4, SeqEqual DEF u

LEMMA HeadAndTail ==
    ASSUME NEW b, IsLog(b), b # <<>>
    PROVE  IsLog(<<Head(b)>>) /\ IsLog(Tail(b)) /\ <<Head(b)>> \o Tail(b) = b
<1> DEFINE B == {b[k] : k \in DOMAIN b}
           h == Head(b)
           t == Tail(b)
<1>1. b \in Seq(B)
  BY DEF IsLog
<1> HIDE DEF B
<1>2. /\ h \in B /\ t \in Seq(B) /\ Len(t) = Len(b) - 1 /\ Len(b) \in Nat /\ Len(t) \in Nat
      /\ \A i \in 1..Len(t) : t[i] = b[i + 1]
  BY <1>1, HeadTailProperties, LenProperties
<1>3. h = b[1] /\ Len(b) = Len(t) + 1
  BY <1>1, <1>2
<1> HIDE DEF h, t
<1>4. <<h>> \in Seq(B) /\ Len(<<h>>) = 1 /\ <<h>>[1] = b[1]
  BY <1>2, <1>3
<1>5. \A one \in Seq(B) : Len(one) = 1 /\ one[1] = b[1] => one \o t = b
  BY <1>1, <1>2, <1>3, Joins
<1>6. <<h>> \o t = b
  BY <1>4, <1>5
<1>7. IsLog(<<h>>) /\ IsLog(t)
  <2>1. t \in [1..Len(t) -> B] /\ <<h>> \in [1..1 -> B] /\ 1 \in Nat
    BY <1>2, <1>4, LenProperties
  <2>2. t = [k \in 1..Len(t) |-> t[k]] /\ <<h>> = [k \in 1..1 |-> <<h>>[k]]
    BY <2>1
  <2> QED BY <1>2, <2>1, <2>2, LogOfLength
<1> QED BY <1>6, <1>7 DEF h, t

LEMMA HeadGoesOver ==
    ASSUME NEW a, IsLog(a), NEW b, IsLog(b), b # <<>>
    PROVE  /\ IsLog(Append(a, Head(b))) /\ IsLog(Tail(b))
           /\ Append(a, Head(b)) \o Tail(b) = a \o b
<1> DEFINE h == Head(b)
           t == Tail(b)
<1> HIDE DEF h, t
<1>1. IsLog(<<h>>) /\ IsLog(t) /\ <<h>> \o t = b
  BY HeadAndTail DEF h, t
<1>2. Append(a, h) = a \o <<h>>
  BY AppendIsConcat DEF IsLog
<1>3. IsLog(Append(a, h))
  BY LogGrows
<1>4. (a \o <<h>>) \o t = a \o (<<h>> \o t)
  BY SMTT(40), <1>1, LogAssociative
<1> QED BY <1>1, <1>2, <1>3, <1>4 DEF h, t

\* An event once for each pattern that matches, for the events from the first to each one.
Copies(topic, patterns) ==
    [k \in 1..Cardinality({p \in patterns : topic \in OfPattern[p]}) |-> topic]

IsExpected(f, since, last, topics, patterns) ==
    f = [n \in since..last |->
            IF n = since THEN <<>> ELSE f[n - 1] \o Copies(topics[n], patterns)]

LEMMA CopiesAre ==
    ASSUME NEW topic, NEW patterns, IsFiniteSet(patterns)
    PROVE  IsLog(Copies(topic, patterns))
<1> DEFINE n == Cardinality({p \in patterns : topic \in OfPattern[p]})
           s == [k \in 1..n |-> topic]
<1>1. n \in Nat
  BY FS_Subset, FS_CardinalityType
<1> HIDE DEF n
<1>2. s = [k \in 1..n |-> s[k]]
  OBVIOUS
<1> HIDE DEF s
<1>3. IsLog(s)
  BY <1>1, <1>2, LogOfLength
<1> QED BY <1>3 DEF Copies, s, n

LEMMA ExpectedAgrees ==
    ASSUME NEW since \in Nat, NEW last \in Nat, NEW topics, NEW patterns,
           NEW g, IsExpected(g, since, last, topics, patterns),
           NEW h, IsExpected(h, since, last, topics, patterns), since <= last
    PROVE  g[last] = h[last]
<1> DEFINE Bad == {k \in since..last : g[k] # h[k]}
<1>1. SUFFICES ASSUME Bad # {} PROVE FALSE
  OBVIOUS
<1>2. PICK k \in Bad : \A j \in Bad : k <= j
  <2>1. Bad \in SUBSET Nat
    OBVIOUS
  <2> HIDE DEF Bad
  <2> QED BY <1>1, <2>1, Smallest
<1>3. /\ g[k] = IF k = since THEN <<>> ELSE g[k - 1] \o Copies(topics[k], patterns)
      /\ h[k] = IF k = since THEN <<>> ELSE h[k - 1] \o Copies(topics[k], patterns)
  BY DEF IsExpected
<1>4. k # since
  BY <1>3
<1>5. k - 1 \in since..last /\ ~(k <= k - 1)
  BY <1>4
<1>6. g[k - 1] = h[k - 1]
  BY <1>2, <1>5
<1> QED BY <1>3, <1>6

\* One more event, and what is expected of it.
Goes(h, f, n, items) == h[n + 1] = f[n] \o items

LEMMA ExpectedGrows ==
    ASSUME NEW since \in Nat, NEW topics, IsLog(topics), since <= Len(topics), NEW patterns,
           NEW f, IsExpected(f, since, Len(topics), topics, patterns), NEW topic
    PROVE  \E h : /\ IsExpected(h, since, Len(topics) + 1, Append(topics, topic), patterns)
                  /\ Goes(h, f, Len(topics), Copies(topic, patterns))
<1> DEFINE n == Len(topics)
           more == Append(topics, topic)
<1>1. /\ n \in Nat /\ DOMAIN topics = 1..n /\ more[n + 1] = topic
      /\ \A x \in DOMAIN topics : more[x] = topics[x]
  BY LogGrows
<1> HIDE DEF more
<1>2. since <= n /\ IsExpected(f, since, n, topics, patterns)
  OBVIOUS
<1> HIDE DEF n
<1> DEFINE new == f[n] \o Copies(topic, patterns)
           h == [x \in since..n + 1 |-> IF x = n + 1 THEN new ELSE f[x]]
<1>3. h[n + 1] = new
  BY <1>1, <1>2
<1>4. ASSUME NEW x \in since..n + 1
      PROVE  h[x] = IF x = since THEN <<>> ELSE h[x - 1] \o Copies(more[x], patterns)
  <2>1. CASE x = n + 1
    <3>1. x # since /\ x - 1 = n /\ n \in since..n + 1 /\ n # n + 1
      BY <1>1, <1>2, <2>1
    <3>2. h[x - 1] = f[n]
      BY <3>1
    <3> QED BY <1>1, <1>3, <2>1, <3>1, <3>2
  <2>2. CASE x # n + 1
    <3>1. x \in since..n
      BY <1>1, <2>2
    <3>2. f[x] = IF x = since THEN <<>> ELSE f[x - 1] \o Copies(topics[x], patterns)
      BY <1>2, <3>1 DEF IsExpected
    <3>3. x # since => x - 1 \in since..n + 1 /\ x - 1 # n + 1 /\ x \in 1..n
      BY <1>1, <3>1
    <3> HIDE DEF new
    <3>4. x # since => h[x - 1] = f[x - 1] /\ more[x] = topics[x]
      BY <1>1, <3>3
    <3>5. h[x] = f[x]
      BY <2>2
    <3> HIDE DEF h
    <3> QED BY <3>2, <3>4, <3>5
  <2> QED BY <2>1, <2>2
<1>5. h = [x \in since..n + 1 |-> h[x]]
  OBVIOUS
<1> HIDE DEF h, new
<1>6. IsExpected(h, since, n + 1, more, patterns)
  BY <1>4, <1>5 DEF IsExpected
<1> QED BY <1>3, <1>6 DEF n, more, new, Goes

\* The fields of a subscription, and what no step changes of them.
Fields == {"kind", "patterns", "since", "in", "queue", "got", "consumer", "woken",
           "closed", "calls"}

Same(new, sub) ==
    /\ DOMAIN new = Fields /\ new.kind = sub.kind /\ new.patterns = sub.patterns
    /\ new.since = sub.since /\ new.in = sub.in

\* A subscription after the topics.
SubSound(sub, topics) ==
    /\ DOMAIN sub = Fields /\ sub.kind \in {"handler", "graphql"}
    /\ sub.since \in Nat /\ sub.since <= Len(topics) /\ sub.calls \in Nat
    /\ IsFiniteSet(sub.patterns) /\ IsLog(sub.got) /\ IsLog(sub.queue)
    /\ sub.closed \in BOOLEAN /\ sub.woken \in BOOLEAN
    /\ sub.kind = "handler" =>
          sub.queue = <<>> /\ sub.consumer = "idle" /\ (sub.closed <=> sub.calls # 0)
    /\ sub.consumer = "waiting" /\ (sub.closed \/ sub.queue # <<>>) => sub.woken
    /\ ~sub.closed =>
          \E f : /\ IsExpected(f, sub.since, Len(topics), topics, sub.patterns)
                 /\ sub.got \o sub.queue = f[Len(topics)]

\* What a pull does, as the subscription is closed, has something queued, or not.
LEMMA PulledIs ==
    ASSUME NEW sub, DOMAIN sub = Fields
    PROVE  LET new == Subs!Pulled(sub)
           IN  /\ Same(new, sub) /\ new.closed = sub.closed /\ new.calls = sub.calls
               /\ new.woken = FALSE
               /\ sub.closed => /\ new.consumer = "done" /\ new.got = sub.got
                                /\ new.queue = sub.queue
               /\ ~sub.closed /\ sub.queue # <<>> =>
                     /\ new.consumer = "idle" /\ new.got = Append(sub.got, Head(sub.queue))
                     /\ new.queue = Tail(sub.queue)
               /\ ~sub.closed /\ sub.queue = <<>> =>
                     new.consumer = "waiting" /\ new.got = sub.got /\ new.queue = sub.queue
<1> DEFINE no == FALSE
           g == Append(sub.got, Head(sub.queue))
           q == Tail(sub.queue)
           new == Subs!Pulled(sub)
<1>1. new = IF sub.closed THEN [sub EXCEPT !.consumer = "done", !.woken = no]
            ELSE IF sub.queue # <<>>
            THEN [sub EXCEPT !.queue = q, !.got = g, !.consumer = "idle", !.woken = no]
            ELSE [sub EXCEPT !.consumer = "waiting", !.woken = no]
  BY DEF Subs!Pulled
<1> HIDE DEF no, g, q, new
<1>2. /\ Same(new, sub) /\ new.closed = sub.closed /\ new.calls = sub.calls
      /\ new.woken = no
  BY <1>1 DEF Fields, Same
<1>3. sub.closed => new.consumer = "done" /\ new.got = sub.got /\ new.queue = sub.queue
  BY <1>1 DEF Fields
<1>4. ~sub.closed /\ sub.queue # <<>> => new.consumer = "idle" /\ new.got = g /\ new.queue = q
  BY <1>1 DEF Fields
<1>5. ~sub.closed /\ sub.queue = <<>> =>
         new.consumer = "waiting" /\ new.got = sub.got /\ new.queue = sub.queue
  BY <1>1 DEF Fields
<1> QED BY <1>2, <1>3, <1>4, <1>5 DEF no, g, q, new

LEMMA PulledSound ==
    ASSUME NEW sub, NEW topics, SubSound(sub, topics), sub.kind = "graphql"
    PROVE  SubSound(Subs!Pulled(sub), topics) /\ Same(Subs!Pulled(sub), sub)
           /\ Subs!Pulled(sub).closed = sub.closed
<1> DEFINE new == Subs!Pulled(sub)
<1>1. DOMAIN sub = Fields
  BY DEF SubSound
<1>2. /\ Same(new, sub) /\ new.closed = sub.closed /\ new.calls = sub.calls /\ new.woken = FALSE
      /\ sub.closed => new.consumer = "done" /\ new.got = sub.got /\ new.queue = sub.queue
      /\ ~sub.closed /\ sub.queue # <<>> =>
            /\ new.consumer = "idle" /\ new.got = Append(sub.got, Head(sub.queue))
            /\ new.queue = Tail(sub.queue)
      /\ ~sub.closed /\ sub.queue = <<>> =>
            new.consumer = "waiting" /\ new.got = sub.got /\ new.queue = sub.queue
  BY <1>1, PulledIs
<1> HIDE DEF new
<1>3. /\ IsLog(new.got) /\ IsLog(new.queue)
      /\ ~sub.closed => new.got \o new.queue = sub.got \o sub.queue
  <2>1. IsLog(sub.got) /\ IsLog(sub.queue) /\ sub.closed \in BOOLEAN
    BY DEF SubSound
  <2>2. CASE ~sub.closed /\ sub.queue # <<>>
    <3>1. IsLog(Append(sub.got, Head(sub.queue))) /\ IsLog(Tail(sub.queue))
          /\ Append(sub.got, Head(sub.queue)) \o Tail(sub.queue) = sub.got \o sub.queue
      BY <2>1, <2>2, HeadGoesOver
    <3> QED BY <1>2, <2>2, <3>1
  <2>3. CASE ~(~sub.closed /\ sub.queue # <<>>)
    BY <1>2, <2>1, <2>3
  <2> QED BY <2>2, <2>3
<1>4. new.consumer = "waiting" => ~sub.closed /\ new.queue = <<>>
  BY <1>2 DEF SubSound
<1>5. SubSound(new, topics)
  BY <1>2, <1>3, <1>4 DEF SubSound, Same
<1> QED BY <1>2, <1>5 DEF new

\* What a delivery of some items does.
IsDelivered(new, sub, items) ==
    /\ Same(new, sub) /\ new.closed = sub.closed /\ new.calls = sub.calls
    /\ new.consumer = sub.consumer
    /\ sub.kind = "handler" => /\ new.got = sub.got \o items
                               /\ new.queue = sub.queue /\ new.woken = sub.woken
    /\ sub.kind # "handler" /\ (sub.closed \/ items = <<>>) => new = sub
    /\ sub.kind # "handler" /\ ~(sub.closed \/ items = <<>>) =>
          /\ new.got = sub.got /\ new.queue = sub.queue \o items
          /\ new.woken = (sub.woken \/ sub.consumer = "waiting")

LEMMA DeliveredIs ==
    ASSUME NEW sub, DOMAIN sub = Fields, NEW items
    PROVE  IsDelivered(Subs!Delivered(sub, items), sub, items)
<1> DEFINE g == sub.got \o items
           q == sub.queue \o items
           w == sub.woken \/ sub.consumer = "waiting"
           new == Subs!Delivered(sub, items)
<1>1. new = IF sub.kind = "handler" THEN [sub EXCEPT !.got = g]
            ELSE IF sub.closed \/ items = <<>> THEN sub
            ELSE [sub EXCEPT !.queue = q, !.woken = w]
  BY DEF Subs!Delivered, Subs!Pushed
<1> HIDE DEF g, q, w, new
<1>2. /\ Same(new, sub) /\ new.closed = sub.closed /\ new.calls = sub.calls
      /\ new.consumer = sub.consumer
  BY <1>1 DEF Fields, Same
<1>3. sub.kind = "handler" => new.got = g /\ new.queue = sub.queue /\ new.woken = sub.woken
  BY <1>1 DEF Fields
<1>4. sub.kind # "handler" /\ (sub.closed \/ items = <<>>) => new = sub
  BY <1>1
<1>5. sub.kind # "handler" /\ ~(sub.closed \/ items = <<>>) =>
         new.got = sub.got /\ new.queue = q /\ new.woken = w
  BY <1>1 DEF Fields
<1> QED BY <1>2, <1>3, <1>4, <1>5 DEF g, q, w, new, IsDelivered

\* Once it is closed, what a subscription got is not compared with the events any more.
LEMMA ClosedLater ==
    ASSUME NEW sub, NEW topics, NEW more, SubSound(sub, topics), sub.closed,
           Len(topics) \in Nat, Len(more) \in Nat, Len(topics) <= Len(more)
    PROVE  SubSound(sub, more)
BY DEF SubSound

ItemsFor(items, sub, topic) ==
    items = IF sub.closed THEN <<>> ELSE Copies(topic, sub.patterns)

LEMMA DeliveredSound ==
    ASSUME NEW sub, NEW topics, SubSound(sub, topics), IsLog(topics), NEW topic,
           NEW items, ItemsFor(items, sub, topic)
    PROVE  LET new == Subs!Delivered(sub, items)
           IN  SubSound(new, Append(topics, topic)) /\ Same(new, sub) /\ new.closed = sub.closed
<1> DEFINE new == Subs!Delivered(sub, items)
           more == Append(topics, topic)
           n == Len(topics)
<1>0. /\ DOMAIN sub = Fields /\ sub.closed \in BOOLEAN /\ IsFiniteSet(sub.patterns)
      /\ IsLog(sub.got) /\ IsLog(sub.queue) /\ sub.since \in Nat /\ sub.since <= n
  BY DEF SubSound
<1>10. IsDelivered(new, sub, items)
  BY <1>0, DeliveredIs
<1>1. /\ Same(new, sub) /\ new.closed = sub.closed /\ new.calls = sub.calls
      /\ new.consumer = sub.consumer
      /\ sub.kind = "handler" => /\ new.got = sub.got \o items
                                 /\ new.queue = sub.queue /\ new.woken = sub.woken
      /\ sub.kind # "handler" /\ (sub.closed \/ items = <<>>) => new = sub
      /\ sub.kind # "handler" /\ ~(sub.closed \/ items = <<>>) =>
            /\ new.got = sub.got /\ new.queue = sub.queue \o items
            /\ new.woken = (sub.woken \/ sub.consumer = "waiting")
  BY <1>10 DEF IsDelivered
<1>2. n \in Nat /\ Len(more) = n + 1 /\ IsLog(more)
  <2>1. IsLog(more) /\ n \in Nat /\ DOMAIN more = 1..n + 1
    BY LogGrows
  <2>2. Len(more) \in Nat /\ DOMAIN more = 1..Len(more)
    BY <2>1, LogIs
  <2> HIDE DEF more, n
  <2> QED BY <2>1, <2>2
<1>3. IsLog(items)
  <2>1. IsLog(<<>>)
    BY DEF IsLog
  <2> QED BY <1>0, <2>1, CopiesAre DEF ItemsFor
<1>4. IsLog(sub.got \o items) /\ sub.got \o <<>> = sub.got
      /\ IsLog(sub.queue \o items) /\ sub.queue \o <<>> = sub.queue
      /\ (sub.got \o items) \o <<>> = sub.got \o items
      /\ (sub.got \o sub.queue) \o <<>> = sub.got \o sub.queue
      /\ (sub.got \o sub.queue) \o items = sub.got \o (sub.queue \o items)
  <2> DEFINE a == sub.got
             q == sub.queue
  <2>1. IsLog(a) /\ IsLog(q) /\ IsLog(items)
    BY <1>0, <1>3
  <2> HIDE DEF a, q
  <2>2. IsLog(a \o items) /\ a \o <<>> = a /\ IsLog(q \o items) /\ q \o <<>> = q /\ IsLog(a \o q)
    BY <2>1, LogConcat
  <2>3. (a \o items) \o <<>> = a \o items /\ (a \o q) \o <<>> = a \o q
    BY <2>1, <2>2, LogConcat
  <2>4. (a \o q) \o items = a \o (q \o items)
    BY SMTT(40), <2>1, LogAssociative
  <2> QED BY <2>2, <2>3, <2>4 DEF a, q
<1> HIDE DEF new
<1>5. IsLog(new.got) /\ IsLog(new.queue)
      /\ (~sub.closed => new.got \o new.queue = (sub.got \o sub.queue) \o items)
  <2>1. CASE sub.kind = "handler"
    <3>1. sub.queue = <<>>
      BY <2>1 DEF SubSound
    <3> QED BY <1>0, <1>1, <1>4, <2>1, <3>1
  <2>2. CASE sub.kind # "handler" /\ (sub.closed \/ items = <<>>)
    BY <1>0, <1>1, <1>4, <2>2
  <2>3. CASE sub.kind # "handler" /\ ~(sub.closed \/ items = <<>>)
    BY <1>0, <1>1, <1>4, <2>3
  <2> QED BY <2>1, <2>2, <2>3
<1>6. new.woken \in BOOLEAN
      /\ (new.consumer = "waiting" /\ (new.closed \/ new.queue # <<>>) => new.woken)
  <2>1. CASE sub.kind = "handler"
    BY <1>1, <2>1 DEF SubSound
  <2>2. CASE sub.kind # "handler" /\ (sub.closed \/ items = <<>>)
    BY <1>1, <2>2 DEF SubSound
  <2>3. CASE sub.kind # "handler" /\ ~(sub.closed \/ items = <<>>)
    BY <1>1, <2>3 DEF SubSound
  <2> QED BY <2>1, <2>2, <2>3
<1>7. new.kind = "handler" => new.queue = <<>>
  BY <1>1 DEF SubSound, Same
<1>8. ~new.closed => \E h : /\ IsExpected(h, new.since, Len(more), more, new.patterns)
                            /\ new.got \o new.queue = h[Len(more)]
  <2>1. SUFFICES ASSUME ~sub.closed
                 PROVE  \E h : /\ IsExpected(h, sub.since, n + 1, more, sub.patterns)
                               /\ new.got \o new.queue = h[n + 1]
    BY <1>1, <1>2 DEF Same
  <2>2. PICK f : /\ IsExpected(f, sub.since, n, topics, sub.patterns)
                 /\ sub.got \o sub.queue = f[n]
    BY <2>1 DEF SubSound
  <2>3. PICK h : /\ IsExpected(h, sub.since, n + 1, more, sub.patterns)
                 /\ h[n + 1] = f[n] \o Copies(topic, sub.patterns)
    <3> DEFINE b == sub.since
               p == sub.patterns
    <3>1. IsExpected(f, b, Len(topics), topics, p) /\ b \in Nat /\ b <= Len(topics)
      BY <1>0, <2>2
    <3> HIDE DEF b, p
    <3>2. \E h : /\ IsExpected(h, b, Len(topics) + 1, Append(topics, topic), p)
                 /\ Goes(h, f, Len(topics), Copies(topic, p))
      BY <3>1, ExpectedGrows
    <3> QED BY <3>2 DEF b, p, Goes
  <2>4. items = Copies(topic, sub.patterns)
    BY <2>1 DEF ItemsFor
  <2> HIDE DEF n, more
  <2> QED BY <1>5, <2>1, <2>2, <2>3, <2>4
<1> HIDE DEF more, n
<1>9. n <= n + 1 /\ sub.since <= n + 1
  BY <1>0, <1>2
<1>11. SubSound(new, more)
  BY <1>1, <1>2, <1>5, <1>6, <1>7, <1>8, <1>9 DEF SubSound, Same
<1> QED BY <1>1, <1>11 DEF new, more

\* The two ways to end a subscription.
Unsubscribed(sub) == [sub EXCEPT !.closed = TRUE, !.calls = @ + 1]
Returned(sub) == [sub EXCEPT !.closed = TRUE, !.woken = @ \/ sub.consumer = "waiting"]

LEMMA UnsubscribedSound ==
    ASSUME NEW sub, NEW topics, SubSound(sub, topics), sub.kind = "handler"
    PROVE  SubSound(Unsubscribed(sub), topics) /\ Same(Unsubscribed(sub), sub)
           /\ Unsubscribed(sub).closed
<1> DEFINE yes == TRUE
           c == sub.calls + 1
           new == Unsubscribed(sub)
<1>1. new = [sub EXCEPT !.closed = yes, !.calls = c]
  BY DEF Unsubscribed
<1>2. DOMAIN sub = Fields /\ sub.calls \in Nat /\ sub.consumer = "idle"
  BY DEF SubSound
<1>3. c \in Nat /\ c # 0
  BY <1>2
<1> HIDE DEF yes, c, new
<1>4. /\ Same(new, sub) /\ new.closed = yes /\ new.calls = c /\ new.woken = sub.woken
      /\ new.got = sub.got /\ new.queue = sub.queue /\ new.consumer = sub.consumer
  BY <1>1, <1>2 DEF Same, Fields
<1>5. SubSound(new, topics)
  BY <1>2, <1>3, <1>4 DEF SubSound, Same, yes
<1> QED BY <1>4, <1>5 DEF new, yes

LEMMA ReturnedSound ==
    ASSUME NEW sub, NEW topics, SubSound(sub, topics), sub.kind = "graphql"
    PROVE  SubSound(Returned(sub), topics) /\ Same(Returned(sub), sub) /\ Returned(sub).closed
<1> DEFINE yes == TRUE
           w == sub.woken \/ sub.consumer = "waiting"
           new == Returned(sub)
<1>1. new = [sub EXCEPT !.closed = yes, !.woken = w]
  BY DEF Returned
<1>2. DOMAIN sub = Fields
  BY DEF SubSound
<1>3. w \in BOOLEAN /\ (sub.consumer = "waiting" => w)
  BY DEF SubSound
<1> HIDE DEF yes, w, new
<1>4. /\ Same(new, sub) /\ new.closed = yes /\ new.calls = sub.calls /\ new.woken = w
      /\ new.got = sub.got /\ new.queue = sub.queue /\ new.consumer = sub.consumer
  BY <1>1, <1>2 DEF Same, Fields
<1>5. SubSound(new, topics)
  BY <1>3, <1>4 DEF SubSound, Same, yes
<1> QED BY <1>4, <1>5 DEF new, yes

\* A new subscription: nothing is expected yet.
Fresh(kind, patterns, in, topics) ==
    [kind |-> kind, patterns |-> patterns, since |-> Len(topics), in |-> in,
     queue |-> <<>>, got |-> <<>>, consumer |-> "idle",
     woken |-> FALSE, closed |-> FALSE, calls |-> 0]

LEMMA SubscribedSound ==
    ASSUME NEW kind \in {"handler", "graphql"}, NEW patterns, IsFiniteSet(patterns), NEW in,
           NEW topics, IsLog(topics)
    PROVE  LET sub == Fresh(kind, patterns, in, topics)
           IN  SubSound(sub, topics) /\ sub.patterns = patterns /\ sub.in = in /\ ~sub.closed
<1> DEFINE sub == Fresh(kind, patterns, in, topics)
           n == Len(topics)
           f == [x \in n..n |-> <<>>]
<1>1. n \in Nat /\ n <= n
  BY LogIs
<1> HIDE DEF n
<1>2. IsExpected(f, n, n, topics, patterns) /\ f[n] = <<>>
  <2>1. \A x \in n..n : x = n
    BY <1>1
  <2>2. n \in n..n
    BY <1>1
  <2> QED BY <2>1, <2>2 DEF IsExpected
<1>3. IsLog(<<>>) /\ <<>> \o <<>> = <<>>
  <2>1. IsLog(<<>>)
    BY DEF IsLog
  <2> QED BY <2>1, LogConcat
<1>4. /\ DOMAIN sub = Fields /\ sub.kind = kind /\ sub.patterns = patterns /\ sub.since = n
      /\ sub.in = in /\ sub.queue = <<>> /\ sub.got = <<>> /\ sub.consumer = "idle"
      /\ sub.woken = FALSE /\ sub.closed = FALSE /\ sub.calls = 0
  BY DEF Fields, n, Fresh
<1> HIDE DEF f, sub
<1>5. \E g : IsExpected(g, sub.since, Len(topics), topics, sub.patterns)
             /\ sub.got \o sub.queue = g[Len(topics)]
  BY <1>2, <1>3, <1>4 DEF n
<1>6. sub.since <= Len(topics) /\ sub.since \in Nat
  BY <1>1, <1>4 DEF n
<1>7. 0 \in Nat /\ FALSE \in BOOLEAN
  OBVIOUS
<1>8. SubSound(sub, topics)
  BY <1>3, <1>4, <1>5, <1>6, <1>7 DEF SubSound
<1> QED BY <1>4, <1>8 DEF sub

\* Who is to be told of what a pattern matches: in the Set of the pattern, if it has one.
Holders(list, p) == {s \in DOMAIN list : ~list[s].closed /\ p \in list[s].patterns}

Placed(list, sets, place) ==
    /\ \A p \in Subs!Patterns :
          /\ place[p] = 0 => Holders(list, p) = {}
          /\ place[p] # 0 => place[p] \in DOMAIN sets /\ sets[place[p]] = Holders(list, p)
    /\ \A p, q \in Subs!Patterns : place[p] # 0 /\ place[p] = place[q] => p = q
    /\ \A s \in DOMAIN list : ~list[s].closed =>
          \A p \in list[s].patterns : list[s].in[p] = place[p]

SubInv ==
    /\ IsLog(subs) /\ IsLog(emitted) /\ IsLog(handlerSets)
    /\ patternSet \in [Subs!Patterns -> Nat]
    /\ \A s \in DOMAIN subs : subs[s].patterns \in SubPatterns /\ SubSound(subs[s], emitted)
    /\ Placed(subs, handlerSets, patternSet)

LEMMA SubInitSound == ASSUME Subs!SubInit PROVE SubInv
<1>1. /\ handlerSets = <<>> /\ patternSet = [p \in Subs!Patterns |-> 0]
      /\ subs = <<>> /\ emitted = <<>>
  BY DEF Subs!SubInit
<1>2. IsLog(<<>>) /\ DOMAIN <<>> = {}
  BY DEF IsLog
<1>3. Placed(subs, handlerSets, patternSet)
  BY <1>1, <1>2 DEF Placed, Holders
<1>4. patternSet \in [Subs!Patterns -> Nat]
  BY <1>1
<1> QED BY <1>1, <1>2, <1>3, <1>4 DEF SubInv

LEMMA PatternsOf ==
    ASSUME SubInv, NEW s \in DOMAIN subs, NEW p \in subs[s].patterns
    PROVE  p \in Subs!Patterns
BY DEF SubInv, Subs!Patterns

\* The same subscriptions, whatever they have got meanwhile.
AllSame(next, list) ==
    /\ DOMAIN next = DOMAIN list
    /\ \A s \in DOMAIN list : Same(next[s], list[s]) /\ next[s].closed = list[s].closed

LEMMA PlacedSame ==
    ASSUME NEW list, NEW next, NEW sets, NEW place, Placed(list, sets, place), AllSame(next, list)
    PROVE  Placed(next, sets, place)
<1>1. \A p : Holders(next, p) = Holders(list, p)
  BY DEF Holders, AllSame, Same
<1>2. \A s \in DOMAIN next : /\ next[s].closed = list[s].closed /\ next[s].in = list[s].in
                             /\ next[s].patterns = list[s].patterns /\ s \in DOMAIN list
  BY DEF AllSame, Same
<1> QED BY <1>1, <1>2 DEF Placed

\* A consumer pulls.
LEMMA PullSound ==
    ASSUME SubInv, NEW s \in DOMAIN subs, subs[s].kind = "graphql",
           subs' = [subs EXCEPT ![s] = Subs!Pulled(subs[s])],
           UNCHANGED <<handlerSets, patternSet, emitted>>
    PROVE  SubInv'
<1> DEFINE new == Subs!Pulled(subs[s])
<1>1. /\ IsLog(subs') /\ DOMAIN subs' = DOMAIN subs
      /\ \A x \in DOMAIN subs : subs'[x] = IF x = s THEN new ELSE subs[x]
  <2>1. IsLog(subs)
    BY DEF SubInv
  <2> HIDE DEF new
  <2> DEFINE t == [subs EXCEPT ![s] = new]
  <2>2. /\ IsLog(t) /\ DOMAIN t = DOMAIN subs
        /\ \A x \in DOMAIN subs : t[x] = IF x = s THEN new ELSE subs[x]
    BY <2>1, LogExcept
  <2>3. subs' = t
    BY DEF new
  <2> HIDE DEF t
  <2> QED BY <2>2, <2>3
<1>2. SubSound(new, emitted) /\ Same(new, subs[s]) /\ new.closed = subs[s].closed
  BY PulledSound DEF SubInv
<1> HIDE DEF new
<1>3. AllSame(subs', subs)
  <2>1. \A x \in DOMAIN subs : DOMAIN subs[x] = Fields
    BY DEF SubInv, SubSound
  <2> QED BY <1>1, <1>2, <2>1 DEF AllSame, Same
<1>4. \A x \in DOMAIN subs' : subs'[x].patterns \in SubPatterns /\ SubSound(subs'[x], emitted)
  BY <1>1, <1>2 DEF SubInv, Same
<1>5. Placed(subs', handlerSets, patternSet)
  <2> DEFINE next == subs'
  <2>1. AllSame(next, subs) /\ Placed(subs, handlerSets, patternSet)
    BY <1>3 DEF SubInv
  <2> HIDE DEF next
  <2>2. Placed(next, handlerSets, patternSet)
    BY <2>1, PlacedSame
  <2> QED BY <2>2 DEF next
<1> QED BY <1>1, <1>4, <1>5 DEF SubInv

\* An event comes to those that are open, once for each of their patterns that match.
LEMMA EmitSound ==
    ASSUME SubInv, NEW topic, Subs!Emit(topic)
    PROVE  SubInv'
<1> DEFINE hit(s) == {p \in Subs!Patterns : /\ topic \in OfPattern[p] /\ patternSet[p] # 0
                                            /\ s \in handlerSets[patternSet[p]]}
           items(s) == [k \in 1..Cardinality(hit(s)) |-> topic]
<1>1. /\ emitted' = Append(emitted, topic)
      /\ subs' = [s \in DOMAIN subs |-> Subs!Delivered(subs[s], items(s))]
      /\ handlerSets' = handlerSets /\ patternSet' = patternSet
  <2>1. \A S : Subs!Cardinality(S) = Cardinality(S)
    BY DEF Subs!Cardinality, Cardinality
  <2> QED BY <2>1 DEF Subs!Emit
<1>2. \A s \in DOMAIN subs :
         hit(s) = IF subs[s].closed THEN {} ELSE {p \in subs[s].patterns : topic \in OfPattern[p]}
  <2> TAKE s \in DOMAIN subs
  <2>1. ASSUME NEW p \in Subs!Patterns, patternSet[p] # 0
        PROVE  s \in handlerSets[patternSet[p]] <=> ~subs[s].closed /\ p \in subs[s].patterns
    BY <2>1 DEF SubInv, Placed, Holders
  <2>2. ASSUME NEW p \in subs[s].patterns, ~subs[s].closed
        PROVE  p \in Subs!Patterns /\ patternSet[p] # 0
    BY <2>2, PatternsOf DEF SubInv, Placed, Holders
  <2>3. \A p : p \in hit(s) <=> ~subs[s].closed /\ p \in subs[s].patterns /\ topic \in OfPattern[p]
    BY <2>1, <2>2
  <2> HIDE DEF hit
  <2> QED BY <2>3
<1>3. \A s \in DOMAIN subs : ItemsFor(items(s), subs[s], topic)
  <2> TAKE s \in DOMAIN subs
  <2>1. CASE subs[s].closed
    <3>1. Cardinality(hit(s)) = 0
      BY <1>2, <2>1, FS_EmptySet
    <3> HIDE DEF hit
    <3>2. items(s) = <<>>
      BY <3>1
    <3> HIDE DEF items
    <3> QED BY <2>1, <3>2 DEF ItemsFor
  <2>2. CASE ~subs[s].closed
    <3>1. hit(s) = {p \in subs[s].patterns : topic \in OfPattern[p]}
      BY <1>2, <2>2
    <3> HIDE DEF hit
    <3>2. items(s) = Copies(topic, subs[s].patterns)
      BY <3>1 DEF Copies
    <3> HIDE DEF items
    <3> QED BY <2>2, <3>2 DEF ItemsFor
  <2> QED BY <2>1, <2>2
<1> HIDE DEF items
<1>4. \A s \in DOMAIN subs :
         LET new == Subs!Delivered(subs[s], items(s))
         IN  /\ SubSound(new, Append(emitted, topic)) /\ Same(new, subs[s])
             /\ new.closed = subs[s].closed
  <2> TAKE s \in DOMAIN subs
  <2> DEFINE sub == subs[s]
             it == items(s)
  <2>1. SubSound(sub, emitted) /\ IsLog(emitted) /\ ItemsFor(it, sub, topic)
    BY <1>3 DEF SubInv
  <2> HIDE DEF sub, it
  <2>2. LET new == Subs!Delivered(sub, it)
        IN  SubSound(new, Append(emitted, topic)) /\ Same(new, sub) /\ new.closed = sub.closed
    BY <2>1, DeliveredSound
  <2> QED BY <2>2 DEF sub, it
<1>5. /\ DOMAIN subs' = DOMAIN subs
      /\ \A s \in DOMAIN subs : /\ SubSound(subs'[s], emitted') /\ Same(subs'[s], subs[s])
                                /\ subs'[s].closed = subs[s].closed
  BY <1>1, <1>4
<1>6. IsLog(subs') /\ IsLog(emitted')
  <2>1. Len(subs) \in Nat /\ DOMAIN subs = 1..Len(subs)
    BY LogIs DEF SubInv
  <2>2. subs' = [s \in 1..Len(subs) |-> subs'[s]]
    BY <1>1, <2>1
  <2>3. IsLog(subs')
    BY <2>1, <2>2, LogOfLength
  <2> QED BY <1>1, <2>3, LogGrows DEF SubInv
<1>7. Placed(subs', handlerSets, patternSet)
  <2> DEFINE next == subs'
  <2>1. AllSame(next, subs) /\ Placed(subs, handlerSets, patternSet)
    BY <1>5 DEF SubInv, AllSame
  <2> HIDE DEF next
  <2>2. Placed(next, handlerSets, patternSet)
    BY <2>1, PlacedSame
  <2> QED BY <2>2 DEF next
<1>8. \A s \in DOMAIN subs' : subs'[s].patterns \in SubPatterns
  BY <1>5 DEF SubInv, Same
<1> QED BY <1>1, <1>5, <1>6, <1>7, <1>8 DEF SubInv

\* One leaves its Sets, and a pattern is forgotten with the last that asked for it.
LEMMA LeaveSound ==
    ASSUME SubInv, NEW s \in DOMAIN subs, ~subs[s].closed, Subs!Leave(s), NEW new,
           SubSound(new, emitted), Same(new, subs[s]), new.closed,
           subs' = [subs EXCEPT ![s] = new], emitted' = emitted
    PROVE  SubInv'
<1> DEFINE sets == {subs[s].in[p] : p \in subs[s].patterns}
<1>1. /\ IsLog(subs') /\ DOMAIN subs' = DOMAIN subs
      /\ \A x \in DOMAIN subs : subs'[x] = IF x = s THEN new ELSE subs[x]
  <2> DEFINE t == [subs EXCEPT ![s] = new]
  <2>1. IsLog(subs)
    BY DEF SubInv
  <2>2. /\ IsLog(t) /\ DOMAIN t = DOMAIN subs
        /\ \A x \in DOMAIN subs : t[x] = IF x = s THEN new ELSE subs[x]
    BY <2>1, LogExcept
  <2>3. subs' = t
    OBVIOUS
  <2> HIDE DEF t
  <2> QED BY <2>2, <2>3
<1>2. /\ handlerSets' = [x \in DOMAIN handlerSets |->
                           IF x \in sets THEN handlerSets[x] \ {s} ELSE handlerSets[x]]
      /\ patternSet' = [p \in Subs!Patterns |->
                           IF p \in subs[s].patterns /\ handlerSets[subs[s].in[p]] \subseteq {s}
                           THEN 0 ELSE patternSet[p]]
  BY DEF Subs!Leave
<1>3. \A p : Holders(subs', p) = Holders(subs, p) \ {s}
  BY <1>1 DEF Holders
<1>4. \A p \in subs[s].patterns : /\ p \in Subs!Patterns /\ subs[s].in[p] = patternSet[p]
                                  /\ patternSet[p] # 0 /\ s \in Holders(subs, p)
  BY PatternsOf DEF SubInv, Placed, Holders
<1>5. \A p \in Subs!Patterns : p \notin subs[s].patterns => s \notin Holders(subs, p)
  BY DEF Holders
<1>6. ASSUME NEW p \in Subs!Patterns
      PROVE  /\ patternSet'[p] = 0 => Holders(subs', p) = {}
             /\ patternSet'[p] # 0 =>
                   /\ patternSet'[p] = patternSet[p] /\ patternSet[p] \in DOMAIN handlerSets'
                   /\ handlerSets'[patternSet[p]] = Holders(subs', p)
  <2> DEFINE H == Holders(subs, p)
             rest == Holders(subs', p)
             after == handlerSets'[patternSet[p]]
             at == patternSet'[p]
  <2>0. /\ rest = H \ {s} /\ (H \subseteq {s} => rest = {}) /\ (s \notin H => rest = H)
    <3>1. rest = H \ {s}
      BY <1>3
    <3> HIDE DEF rest, H
    <3> QED BY <3>1
  <2>1. CASE patternSet[p] = 0
    <3>1. patternSet'[p] = 0 /\ Holders(subs, p) = {}
      BY <1>2, <2>1 DEF SubInv, Placed
    <3> QED BY <1>3, <3>1
  <2>2. CASE patternSet[p] # 0
    <3>1. patternSet[p] \in DOMAIN handlerSets /\ handlerSets[patternSet[p]] = Holders(subs, p)
      BY <2>2 DEF SubInv, Placed
    <3>2. CASE p \in subs[s].patterns
      <4>1. patternSet[p] \in sets /\ subs[s].in[p] = patternSet[p]
        BY <1>4, <3>2
      <4>2. handlerSets'[patternSet[p]] = Holders(subs, p) \ {s}
            /\ patternSet[p] \in DOMAIN handlerSets'
        BY <1>2, <3>1, <4>1
      <4>3. patternSet'[p] = IF Holders(subs, p) \subseteq {s} THEN 0 ELSE patternSet[p]
        BY <1>2, <3>1, <3>2, <4>1
      <4>4. after = H \ {s} /\ at = IF H \subseteq {s} THEN 0 ELSE patternSet[p]
        BY <4>2, <4>3
      <4> HIDE DEF H, rest, after, at
      <4>5. at = 0 => rest = {}
        BY <2>0, <2>2, <4>4
      <4>6. at # 0 => at = patternSet[p] /\ after = rest
        BY <2>0, <4>4
      <4> QED BY <4>2, <4>5, <4>6 DEF rest, after, at
    <3>3. CASE p \notin subs[s].patterns
      <4>1. patternSet[p] \notin sets
        <5>1. ASSUME NEW q \in subs[s].patterns, subs[s].in[q] = patternSet[p] PROVE FALSE
          <6>1. q \in Subs!Patterns /\ patternSet[q] = patternSet[p]
            BY <1>4, <5>1
          <6>2. q = p
            BY <2>2, <6>1 DEF SubInv, Placed
          <6> QED BY <3>3, <5>1, <6>2
        <5> QED BY <5>1
      <4>2. handlerSets'[patternSet[p]] = Holders(subs, p)
            /\ patternSet[p] \in DOMAIN handlerSets' /\ patternSet'[p] = patternSet[p]
        BY <1>2, <3>1, <3>3, <4>1
      <4>3. s \notin H
        BY <1>5, <3>3
      <4>4. after = H /\ at = patternSet[p]
        BY <4>2
      <4> HIDE DEF H, rest, after, at
      <4>5. at # 0 /\ at = patternSet[p] /\ after = rest
        BY <2>0, <2>2, <4>3, <4>4
      <4> QED BY <4>2, <4>5 DEF rest, after, at
    <3> QED BY <3>2, <3>3
  <2> QED BY <2>1, <2>2
<1>7. \A x \in DOMAIN subs' : subs'[x].patterns \in SubPatterns /\ SubSound(subs'[x], emitted)
  BY <1>1 DEF SubInv, Same
<1>8. ASSUME NEW x \in DOMAIN subs', ~subs'[x].closed, NEW p \in subs'[x].patterns
      PROVE  subs'[x].in[p] = patternSet'[p]
  <2>1. x # s /\ subs'[x] = subs[x] /\ x \in DOMAIN subs
    BY <1>1, <1>8
  <2>2. p \in Subs!Patterns /\ subs[x].in[p] = patternSet[p] /\ x \in Holders(subs', p)
    BY <1>1, <1>8, <2>1, PatternsOf DEF SubInv, Placed, Holders
  <2> QED BY <1>6, <2>1, <2>2
<1>9. ASSUME NEW p \in Subs!Patterns, NEW q \in Subs!Patterns, patternSet'[p] # 0,
             patternSet'[p] = patternSet'[q]
      PROVE  p = q
  <2>1. patternSet'[p] = patternSet[p] /\ patternSet'[q] = patternSet[q]
    BY <1>6, <1>9
  <2> QED BY <1>9, <2>1 DEF SubInv, Placed
<1>10. Placed(subs', handlerSets', patternSet')
  <2> DEFINE list == subs'
             after == handlerSets'
             place == patternSet'
  <2>1. \A p \in Subs!Patterns :
           /\ place[p] = 0 => Holders(list, p) = {}
           /\ place[p] # 0 => place[p] \in DOMAIN after /\ after[place[p]] = Holders(list, p)
    BY <1>6
  <2>2. \A p, q \in Subs!Patterns : place[p] # 0 /\ place[p] = place[q] => p = q
    BY <1>9
  <2>3. \A x \in DOMAIN list : ~list[x].closed =>
           \A p \in list[x].patterns : list[x].in[p] = place[p]
    BY <1>8
  <2> HIDE DEF list, after, place
  <2>4. Placed(list, after, place)
    BY <2>1, <2>2, <2>3 DEF Placed
  <2> QED BY <2>4 DEF list, after, place
<1>11. IsLog(handlerSets') /\ patternSet' \in [Subs!Patterns -> Nat]
  <2>1. Len(handlerSets) \in Nat /\ DOMAIN handlerSets = 1..Len(handlerSets)
    BY LogIs DEF SubInv
  <2>2. handlerSets' = [x \in 1..Len(handlerSets) |-> handlerSets'[x]]
    BY <1>2, <2>1
  <2>3. IsLog(handlerSets')
    BY <2>1, <2>2, LogOfLength
  <2>4. patternSet' \in [Subs!Patterns -> Nat]
    BY <1>2 DEF SubInv
  <2> QED BY <2>3, <2>4
<1> QED BY <1>1, <1>7, <1>10, <1>11 DEF SubInv

LEMMA EndSound ==
    ASSUME SubInv, NEW s \in DOMAIN subs, Subs!Unsubscribe(s) \/ Subs!Return(s)
    PROVE  SubInv'
<1> DEFINE sub == subs[s]
<1>1. SubSound(sub, emitted)
  BY DEF SubInv
<1>2. CASE Subs!Unsubscribe(s)
  <2> DEFINE new == Unsubscribed(sub)
  <2>1. /\ sub.kind = "handler" /\ sub.calls < 1 /\ Subs!Leave(s) /\ emitted' = emitted
        /\ subs' = [subs EXCEPT ![s].closed = TRUE, ![s].calls = @ + 1]
    BY <1>2 DEF Subs!Unsubscribe
  <2>2. subs' = [subs EXCEPT ![s] = new]
    BY <2>1 DEF Unsubscribed
  <2>3. ~sub.closed
    BY <1>1, <2>1 DEF SubSound
  <2>4. SubSound(new, emitted) /\ Same(new, sub) /\ new.closed
    BY <1>1, <2>1, UnsubscribedSound
  <2> HIDE DEF new
  <2> QED BY <2>1, <2>2, <2>3, <2>4, LeaveSound
<1>3. CASE Subs!Return(s)
  <2> DEFINE new == Returned(sub)
  <2>1. /\ sub.kind = "graphql" /\ ~sub.closed /\ Subs!Leave(s) /\ emitted' = emitted
        /\ subs' = [subs EXCEPT ![s].closed = TRUE,
                                ![s].woken = @ \/ subs[s].consumer = "waiting"]
    BY <1>3 DEF Subs!Return
  <2>2. subs' = [subs EXCEPT ![s] = new]
    BY <2>1 DEF Returned
  <2>4. SubSound(new, emitted) /\ Same(new, sub) /\ new.closed
    BY <1>1, <2>1, ReturnedSound
  <2> HIDE DEF new
  <2> QED BY <2>1, <2>2, <2>4, LeaveSound
<1> QED BY <1>2, <1>3

\* One more is in the Set of each of its patterns, a new one where there was none.
LEMMA SubscribeSound ==
    ASSUME SubInv, NEW kind \in {"handler", "graphql"}, NEW patterns \in SubPatterns,
           Subs!Subscribe(kind, patterns)
    PROVE  SubInv'
<1> DEFINE s == Len(subs) + 1
           new == Subs!NewSets(patterns)
           first == Len(handlerSets)
           last == first + Cardinality(new)
           sub == Fresh(kind, patterns, [p \in patterns |-> patternSet'[p]], emitted)
<1>1. PICK place \in [new -> first + 1..last] :
         /\ \A p, q \in new : p # q => place[p] # place[q]
         /\ patternSet' = [p \in Subs!Patterns |-> IF p \in new THEN place[p] ELSE patternSet[p]]
         /\ handlerSets' =
               [x \in 1..last |->
                   IF x > first THEN {s}
                   ELSE IF \E p \in patterns : patternSet[p] = x THEN handlerSets[x] \cup {s}
                   ELSE handlerSets[x]]
  <2>1. \A S : Subs!Cardinality(S) = Cardinality(S)
    BY DEF Subs!Cardinality, Cardinality
  <2> QED BY <2>1 DEF Subs!Subscribe
<1>2. subs' = Append(subs, sub) /\ emitted' = emitted
  BY DEF Subs!Subscribe, Fresh
<1>3. IsFiniteSet(patterns) /\ patterns \subseteq Subs!Patterns
  BY SubsTyped DEF Subs!Patterns
<1>4. SubSound(sub, emitted) /\ sub.patterns = patterns /\ ~sub.closed
      /\ sub.in = [p \in patterns |-> patternSet'[p]]
  <2> DEFINE in == [p \in patterns |-> patternSet'[p]]
  <2>1. IsLog(emitted)
    BY DEF SubInv
  <2>2. sub = Fresh(kind, patterns, in, emitted)
    OBVIOUS
  <2> HIDE DEF in, sub
  <2>3. SubSound(sub, emitted) /\ sub.patterns = patterns /\ sub.in = in /\ ~sub.closed
    BY <1>3, <2>1, <2>2, SubscribedSound
  <2> QED BY <2>3 DEF in
<1> HIDE DEF sub
<1>5. /\ IsLog(subs') /\ DOMAIN subs = 1..s - 1 /\ DOMAIN subs' = 1..s /\ s \in Nat /\ s > 0
      /\ subs'[s] = sub /\ \A x \in DOMAIN subs : subs'[x] = subs[x]
  <2> DEFINE n == Len(subs)
  <2>1. /\ IsLog(subs') /\ n \in Nat /\ DOMAIN subs = 1..n /\ DOMAIN subs' = 1..n + 1
        /\ subs'[n + 1] = sub /\ \A x \in DOMAIN subs : subs'[x] = subs[x]
    BY <1>2, LogGrows DEF SubInv
  <2>2. s = n + 1
    OBVIOUS
  <2> HIDE DEF n, s
  <2>3. s - 1 = n /\ s > 0 /\ s \in Nat
    BY <2>1, <2>2
  <2> QED BY <2>1, <2>2, <2>3
<1>6. /\ first \in Nat /\ last \in Nat /\ first <= last /\ DOMAIN handlerSets = 1..first
      /\ new = {p \in patterns : patternSet[p] = 0}
  <2>1. first \in Nat /\ DOMAIN handlerSets = 1..first
    BY LogIs DEF SubInv
  <2>2. new = {p \in patterns : patternSet[p] = 0}
    BY DEF Subs!NewSets
  <2>3. Cardinality(new) \in Nat
    BY <1>3, <2>2, FS_Subset, FS_CardinalityType
  <2> HIDE DEF first, new
  <2> QED BY <2>1, <2>2, <2>3
<1> HIDE DEF s, new, first, last
<1>7. \A p : Holders(subs', p) = IF p \in patterns THEN Holders(subs, p) \cup {s}
                                 ELSE Holders(subs, p)
  <2> TAKE p
  <2>1. ASSUME NEW x \in 1..s
        PROVE  x = s \/ x \in DOMAIN subs
    BY <1>5
  <2>2. s \in 1..s /\ s \notin DOMAIN subs /\ DOMAIN subs \subseteq 1..s
    BY <1>5
  <2>3. \A x : x \in Holders(subs', p) <=>
           (x = s /\ p \in patterns) \/ x \in Holders(subs, p)
    BY <1>4, <1>5, <2>1, <2>2 DEF Holders
  <2> QED BY <2>3
<1>8. ASSUME NEW p \in Subs!Patterns
      PROVE  /\ patternSet'[p] = 0 => Holders(subs', p) = {}
             /\ patternSet'[p] # 0 => /\ patternSet'[p] \in DOMAIN handlerSets'
                                      /\ handlerSets'[patternSet'[p]] = Holders(subs', p)
             /\ p \in new => patternSet'[p] > first /\ patternSet'[p] \in Nat
             /\ p \notin new => patternSet'[p] = patternSet[p]
             /\ p \notin new /\ patternSet[p] # 0 => patternSet[p] \in 1..first
  <2>1. CASE p \in new
    <3>1. patternSet'[p] = place[p] /\ place[p] \in first + 1..last
      BY <1>1, <2>1
    <3>2. place[p] > first /\ place[p] \in 1..last /\ place[p] # 0 /\ place[p] \in Nat
      BY <1>6, <3>1
    <3>3. handlerSets'[place[p]] = {s} /\ place[p] \in DOMAIN handlerSets'
      BY <1>1, <3>2
    <3>4. Holders(subs, p) = {} /\ p \in patterns
      BY <1>6, <2>1 DEF SubInv, Placed
    <3>5. Holders(subs', p) = {s}
      BY <1>7, <3>4
    <3> QED BY <2>1, <3>1, <3>2, <3>3, <3>5
  <2>2. CASE p \notin new
    <3>1. patternSet'[p] = patternSet[p]
      BY <1>1, <2>2
    <3>2. CASE patternSet[p] = 0
      <4>1. p \notin patterns /\ Holders(subs, p) = {}
        BY <1>6, <2>2, <3>2 DEF SubInv, Placed
      <4>2. Holders(subs', p) = {}
        BY <1>7, <4>1
      <4> QED BY <2>2, <3>1, <3>2, <4>2
    <3>3. CASE patternSet[p] # 0
      <4> DEFINE x == patternSet[p]
      <4>1. x \in DOMAIN handlerSets /\ handlerSets[x] = Holders(subs, p)
        BY <3>3 DEF SubInv, Placed
      <4>2. x \in 1..first /\ x \in 1..last /\ ~(x > first)
        BY <1>6, <4>1
      <4>3. (\E q \in patterns : patternSet[q] = x) <=> p \in patterns
        BY <1>3, <3>3 DEF SubInv, Placed
      <4> HIDE DEF x
      <4>4. /\ x \in DOMAIN handlerSets'
            /\ handlerSets'[x] = IF p \in patterns THEN Holders(subs, p) \cup {s}
                                 ELSE Holders(subs, p)
        BY <1>1, <4>1, <4>2, <4>3
      <4>5. handlerSets'[x] = Holders(subs', p)
        BY <1>7, <4>4
      <4>6. patternSet'[p] = x /\ x # 0 /\ patternSet[p] = x
        BY <3>1, <3>3 DEF x
      <4> QED BY <2>2, <4>2, <4>4, <4>5, <4>6
    <3> QED BY <3>2, <3>3
  <2> QED BY <2>1, <2>2
<1>9. ASSUME NEW p \in Subs!Patterns, NEW q \in Subs!Patterns, patternSet'[p] # 0,
             patternSet'[p] = patternSet'[q]
      PROVE  p = q
  <2>1. CASE p \in new /\ q \in new
    <3>1. patternSet'[p] = place[p] /\ patternSet'[q] = place[q]
      BY <1>1, <2>1
    <3> QED BY <1>1, <1>9, <2>1, <3>1
  <2>2. CASE p \in new /\ q \notin new
    BY <1>6, <1>8, <1>9, <2>2
  <2>3. CASE p \notin new /\ q \in new
    BY <1>6, <1>8, <1>9, <2>3
  <2>4. CASE p \notin new /\ q \notin new
    <3>1. patternSet'[p] = patternSet[p] /\ patternSet'[q] = patternSet[q]
      BY <1>8, <2>4
    <3> QED BY <1>9, <3>1 DEF SubInv, Placed
  <2> QED BY <2>1, <2>2, <2>3, <2>4
<1>10. ASSUME NEW x \in DOMAIN subs', ~subs'[x].closed, NEW p \in subs'[x].patterns
       PROVE  subs'[x].in[p] = patternSet'[p]
  <2>1. CASE x = s
    BY <1>4, <1>5, <1>10, <2>1
  <2>2. CASE x # s
    <3>1. x \in DOMAIN subs /\ subs'[x] = subs[x]
      BY <1>5, <2>2
    <3>2. p \in Subs!Patterns /\ subs[x].in[p] = patternSet[p] /\ x \in Holders(subs, p)
      BY <1>10, <3>1, PatternsOf DEF SubInv, Placed, Holders
    <3>3. patternSet[p] # 0
      BY <3>2 DEF SubInv, Placed
    <3>4. p \notin new
      BY <1>6, <3>3
    <3> QED BY <1>8, <3>1, <3>2, <3>4
  <2> QED BY <2>1, <2>2
<1>11. Placed(subs', handlerSets', patternSet')
  <2> DEFINE list == subs'
             after == handlerSets'
             at == patternSet'
  <2>1. \A p \in Subs!Patterns :
           /\ at[p] = 0 => Holders(list, p) = {}
           /\ at[p] # 0 => at[p] \in DOMAIN after /\ after[at[p]] = Holders(list, p)
    BY <1>8
  <2>2. \A p, q \in Subs!Patterns : at[p] # 0 /\ at[p] = at[q] => p = q
    BY <1>9
  <2>3. \A x \in DOMAIN list : ~list[x].closed =>
           \A p \in list[x].patterns : list[x].in[p] = at[p]
    BY <1>10
  <2> HIDE DEF list, after, at
  <2>4. Placed(list, after, at)
    BY <2>1, <2>2, <2>3 DEF Placed
  <2> QED BY <2>4 DEF list, after, at
<1>12. IsLog(handlerSets') /\ patternSet' \in [Subs!Patterns -> Nat]
  <2>1. handlerSets' = [x \in 1..last |-> handlerSets'[x]]
    BY <1>1
  <2>2. IsLog(handlerSets')
    BY <1>6, <2>1, LogOfLength
  <2>3. \A p \in Subs!Patterns : patternSet'[p] \in Nat
    BY <1>8 DEF SubInv
  <2>4. patternSet' = [p \in Subs!Patterns |-> patternSet'[p]]
    BY <1>1
  <2> QED BY <2>2, <2>3, <2>4
<1>13. \A x \in DOMAIN subs' : subs'[x].patterns \in SubPatterns /\ SubSound(subs'[x], emitted)
  <2> TAKE x \in DOMAIN subs'
  <2>1. x = s \/ x \in DOMAIN subs
    BY <1>5
  <2> QED BY <1>4, <1>5, <2>1 DEF SubInv
<1> QED BY <1>2, <1>5, <1>11, <1>12, <1>13 DEF SubInv

LEMMA SubNextSound == ASSUME SubInv, Subs!SubNext PROVE SubInv'
<1>1. ASSUME NEW s \in DOMAIN subs, Subs!NextItem(s) \/ Subs!Woken(s)
      PROVE  SubInv'
  <2>1. SubSound(subs[s], emitted)
    BY DEF SubInv
  <2>2. subs[s].kind = "graphql"
    BY <1>1, <2>1 DEF Subs!NextItem, Subs!Woken, SubSound
  <2>3. /\ subs' = [subs EXCEPT ![s] = Subs!Pulled(subs[s])]
        /\ UNCHANGED <<handlerSets, patternSet, emitted>>
    BY <1>1 DEF Subs!NextItem, Subs!Woken
  <2> QED BY <2>2, <2>3, PullSound
<1> QED BY <1>1, EmitSound, EndSound, SubscribeSound DEF Subs!SubNext

\* No wakeup is lost, and what was got and is queued is what was expected.
LEMMA SubscribersAreServed == ASSUME SubInv PROVE Subs!SubscribersServed
<1>1. Subs!NoLostWakeup
  BY DEF SubInv, SubSound, Subs!NoLostWakeup
<1>2. ASSUME NEW s \in DOMAIN subs, ~subs[s].closed
      PROVE  subs[s].got \o subs[s].queue = Subs!Expected(s)
  <2> DEFINE k == subs[s]
             n == Len(emitted)
             D(g) == g = [x \in k.since..n |->
                            IF x = k.since THEN <<>>
                            ELSE g[x - 1] \o [y \in 1..Cardinality({p \in k.patterns :
                                                                      emitted[x] \in OfPattern[p]})
                                                |-> emitted[x]]]
  <2>1. SubSound(k, emitted) /\ IsLog(emitted)
    BY DEF SubInv
  <2>2. n \in Nat /\ k.since \in Nat /\ k.since <= n
    BY <2>1, LogIs DEF SubSound
  <2>3. PICK f : IsExpected(f, k.since, n, emitted, k.patterns) /\ k.got \o k.queue = f[n]
    BY <1>2, <2>1 DEF SubSound
  <2>4. \A h : D(h) <=> IsExpected(h, k.since, n, emitted, k.patterns)
    BY DEF IsExpected, Copies
  <2>5. Subs!Expected(s) = (CHOOSE h : D(h))[n]
    <3>1. \A S : Subs!Cardinality(S) = Cardinality(S)
      BY DEF Subs!Cardinality, Cardinality
    <3> QED BY <3>1 DEF Subs!Expected
  <2> HIDE DEF D
  <2>6. D(CHOOSE h : D(h))
    BY <2>3, <2>4
  <2> DEFINE h == CHOOSE h : D(h)
  <2>7. IsExpected(h, k.since, n, emitted, k.patterns)
    BY <2>4, <2>6
  <2> HIDE DEF h, k, n
  <2>8. f[n] = h[n]
    BY <2>2, <2>3, <2>7, ExpectedAgrees
  <2> QED BY <2>3, <2>5, <2>8 DEF h, k
<1> QED BY <1>1, <1>2 DEF Subs!SubscribersServed, Subs!EveryEventToEach

-----------------------------------------------------------------------------
(* The services *)

\* A service that takes steps has its invariant; the baselines also have theirs while
\* another service does.
ServicesInv ==
    /\ focus = "stored audit log" => StoredInv
    /\ focus = "audit log in memory" => MemoryInv
    /\ focus = "streams" => StreamInv
    /\ focus = "subscriptions" => SubInv
    /\ focus = "webhooks" => HookInv
    /\ focus \in {"kinds of events", "limit of events"} => EventsInv
    /\ focus = "lookups" => LookInv
    /\ StoreInv
    /\ IF focus = "facts" THEN baselines = <<>> /\ intervals = {} ELSE BaselineInv

LEMMA ServicesInitSound == ASSUME ServicesInit PROVE ServicesInv
<1>1. ASSUME focus = "stored audit log" PROVE StoredInv
  BY <1>1, StoredInit DEF ServicesInit
<1>2. ASSUME focus = "audit log in memory" PROVE MemoryInv
  BY <1>2, MemoryInit DEF ServicesInit
<1>3. StreamInv /\ SubInv /\ HookInv /\ LookInv
  BY StreamInitSound, SubInitSound, HookInitSound, LookInitSound DEF ServicesInit
<1>4. ASSUME focus \in {"kinds of events", "limit of events"} PROVE EventsInv
  BY <1>4, EventInitSound DEF ServicesInit
<1>5. BaselineInv /\ StoreInv /\ baselines = <<>> /\ intervals = {}
  BY BaselineInitSound DEF ServicesInit, BaselineInit, BaselineInv
<1> QED BY <1>1, <1>2, <1>3, <1>4, <1>5 DEF ServicesInv

\* What does not change keeps its invariant.
LEMMA AuditStays ==
    ASSUME UNCHANGED auditVars
    PROVE  (StoredInv => StoredInv') /\ (MemoryInv => MemoryInv')
<1>1. StoredInv => StoredInv'
  BY DEF auditVars, StoredInv, Stored!InOnePlace, Stored!Ids, Stored!InFlush
<1>2. MemoryInv => MemoryInv'
  BY DEF auditVars, MemoryInv
<1> QED BY <1>1, <1>2

LEMMA ListenersStay ==
    ASSUME UNCHANGED <<sseVars, subVars, hookVars>>
    PROVE  (StreamInv => StreamInv') /\ (SubInv => SubInv') /\ (HookInv => HookInv')
<1>1. StreamInv => StreamInv'
  BY DEF sseVars, StreamInv
<1>2. SubInv => SubInv'
  BY DEF subVars, SubInv
<1>3. HookInv => HookInv'
  <2>1. Over("delivered")' = Over("delivered") /\ Over("failed")' = Over("failed")
    BY DEF hookVars, Over, Hooks!Settled
  <2> QED BY <2>1 DEF hookVars, HookInv
<1> QED BY <1>1, <1>2, <1>3

LEMMA ReadStays ==
    ASSUME UNCHANGED <<eventVars, lookupVars>>
    PROVE  (EventsInv => EventsInv') /\ (LookInv => LookInv')
<1>1. EventsInv => EventsInv'
  BY DEF eventVars, EventsInv
<1>2. LookInv => LookInv'
  BY DEF lookupVars, LookInv
<1> QED BY <1>1, <1>2

LEMMA FactsStay ==
    ASSUME UNCHANGED baselineVars
    PROVE  (StoreInv => StoreInv') /\ (BaselineInv => BaselineInv')
<1>1. StoreInv => StoreInv'
  BY DEF baselineVars, StoreInv
<1>2. BaselineTyped /\ BaselinesBacked => BaselineTyped' /\ BaselinesBacked'
  BY DEF baselineVars, BaselineTyped, BaselinesBacked, Names
<1> QED BY <1>1, <1>2 DEF BaselineInv

LEMMA ServicesStay == ASSUME ServicesInv, UNCHANGED servicesVars PROVE ServicesInv'
<1>1. /\ focus' = focus /\ baselines' = baselines /\ intervals' = intervals
      /\ UNCHANGED <<auditVars, sseVars, subVars, hookVars, eventVars, lookupVars, baselineVars>>
  BY DEF servicesVars, baselineVars
<1> QED BY <1>1, AuditStays, ListenersStay, ReadStays, FactsStay DEF ServicesInv

LEMMA ServicesNextSound == ASSUME ServicesInv, ServicesNext PROVE ServicesInv'
<1>0. focus' = focus
  BY DEF ServicesNext
<1>1. ASSUME focus = "stored audit log" PROVE StoredInv'
  BY <1>1, StoredNext DEF ServicesInv, ServicesNext
<1>2. ASSUME focus = "audit log in memory" PROVE MemoryInv'
  BY <1>2, MemoryNext DEF ServicesInv, ServicesNext
<1>3. ASSUME focus = "streams" PROVE StreamInv'
  BY <1>3, StreamNextSound DEF ServicesInv, ServicesNext
<1>4. ASSUME focus = "subscriptions" PROVE SubInv'
  BY <1>4, SubNextSound DEF ServicesInv, ServicesNext
<1>5. ASSUME focus = "webhooks" PROVE HookInv'
  BY <1>5, HookNextSound DEF ServicesInv, ServicesNext
<1>6. ASSUME focus \in {"kinds of events", "limit of events"} PROVE EventsInv'
  BY <1>6, KindsSound, LimitSound DEF ServicesInv, ServicesNext
<1>7. ASSUME focus = "lookups" PROVE LookInv'
  BY <1>7, LookNextSound DEF ServicesInv, ServicesNext
<1>8. CASE focus = "facts"
  <2>1. StoreNext /\ UNCHANGED <<metrics, baselines, intervals, groups, loops, recalculated,
                                 registrations>>
    BY <1>8 DEF ServicesNext
  <2>2. StoreInv' /\ baselines' = <<>> /\ intervals' = {}
    BY <1>8, <2>1, StoreNextSound DEF ServicesInv
  <2> QED BY <1>0, <1>8, <2>2 DEF ServicesInv
<1>9. CASE focus = "baselines"
  <2>1. BaselineNext /\ BaselineInv
    BY <1>9 DEF ServicesInv, ServicesNext
  <2>2. BaselineInv' /\ StoreInv'
    BY <2>1, BaselineNextSound DEF BaselineInv
  <2> QED BY <1>0, <1>9, <2>2 DEF ServicesInv
<1>10. CASE focus \notin {"facts", "baselines"}
  <2>1. UNCHANGED baselineVars /\ BaselineInv /\ StoreInv
    BY <1>10 DEF ServicesInv, ServicesNext
  <2>2. BaselineInv' /\ StoreInv'
    BY <2>1, FactsStay
  <2> QED BY <1>0, <1>1, <1>2, <1>3, <1>4, <1>5, <1>6, <1>7, <1>10, <2>2 DEF ServicesInv
<1> QED BY <1>8, <1>9, <1>10

\* The inductive invariant of the services that the code keeps beside the engine holds, for
\* every number of entries, clients, subscriptions, hooks, events, lookups and metrics.
THEOREM ServicesSound == ServicesSpec => []ServicesInv
<1>1. ServicesInv /\ [ServicesNext]_servicesVars => ServicesInv'
  BY ServicesNextSound, ServicesStay
<1> QED BY <1>1, ServicesInitSound, PTL DEF ServicesSpec

\* An audit entry is in one place, in memory, waiting, in a flush or in a bucket, and is lost
\* only where the code loses it; and the store of events keeps the newest.
THEOREM EntriesAreKept == ServicesSpec => []EntriesKept
<1>1. ServicesInv => EntriesKept
  BY NewestKept DEF ServicesInv, EntriesKept, StoredInv
<1> QED BY <1>1, ServicesSound, PTL

\* A query of the audit log in memory, or of the facts by a pattern, finds what a scan finds.
THEOREM QueriesAreExact == ServicesSpec => []QueriesExact
<1>1. ServicesInv => QueriesExact
  BY MemoryQueryExact, StoreQueryExact DEF ServicesInv, QueriesExact
<1> QED BY <1>1, ServicesSound, PTL

\* A resolution gets no value from the cache that is older than its lookup allows, and
\* statistics belong to a metric that is registered and are those of the facts.
THEOREM ReadsAreCurrent == ServicesSpec => []ReadsCurrent
<1>1. ServicesInv => ReadsCurrent
  <2>1. baselines = <<>> /\ intervals = {} => BaselinesBacked
    BY DEF BaselinesBacked
  <2> QED BY <2>1, LookIsFresh DEF ServicesInv, ReadsCurrent, BaselineInv
<1> QED BY <1>1, ServicesSound, PTL

\* A stream, a subscription and a webhook get what they are there for, each item once and in
\* order, and no consumer sleeps on a queue that has something.
THEOREM ListenersAreServed == ServicesSpec => []ListenersServed
<1>1. ServicesInv => ListenersServed
  BY SentIsExact, SubscribersAreServed, HookIsExact DEF ServicesInv, ListenersServed
<1> QED BY <1>1, ServicesSound, PTL

=============================================================================
