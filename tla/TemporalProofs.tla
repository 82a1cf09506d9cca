--------------------------- MODULE TemporalProofs ---------------------------
(***************************************************************************)
(* Proofs about Temporal: instances end once and are timed unless the      *)
(* timer manager has refused to, what is reported fits the patterns that   *)
(* its events were taken by, and a reported absence has been observed, for *)
(* any rules, patterns, groups, and number of events and changes.          *)
(***************************************************************************)
EXTENDS Temporal, TLAPS

-----------------------------------------------------------------------------
(* The inductive invariant. *)

Instance ==
    [rule : Rule, pattern : Pattern, group : Group \cup {NoGroup}, matched : Seq(Nat),
     taken : Seq(Pattern), state : {"matching", "completed", "expired"}, active : BOOLEAN,
     expires : Nat]

Stored == [topic : Topic, group : Group \cup {NoGroup}, at : Int]

Call == [phase : {"begins", "next", "matched", "ending", "over", "failed"},
         rule : Rule \cup {NoRule}, pattern : Pattern \cup {NoPattern},
         todo : SUBSET Nat, waits : Nat, visited : SUBSET Rule]

Visit == [event : DOMAIN store, pattern : Pattern]

TypeInv ==
    /\ rules \in Seq(Rule)
    /\ pattern \in [Rule -> Pattern]
    /\ store \in Seq(Stored)
    /\ calls \in Seq(Call) /\ Len(calls) = Len(store)
    /\ instances \in Seq(Instance)
    /\ reported \in Seq(Elements(reported))
    /\ visits \in [Rule -> Seq(Visit)]
    /\ changes \in Nat /\ clock \in Nat
    /\ changes = 0 => pattern = FirstPattern

Type(i) == PatternOf[instances[i].pattern].type
Start(i) == instances[i].matched[1]

\* The events that the rule has processed.
Seen(r) == {visits[r][k].event : k \in DOMAIN visits[r]}

\* An instance stands for events that its rule has processed.
Begun(i) ==
    /\ instances[i].active => instances[i].state = "matching"
    /\ instances[i].matched # <<>>
    /\ changes = 0 => instances[i].pattern = FirstPattern[instances[i].rule]
    /\ \A k \in DOMAIN instances[i].matched :
          instances[i].matched[k] \in Seen(instances[i].rule)

\* The events so far are those of the steps taken, processed after the first one, and in
\* turn but for those held up.
Fitting(i) ==
    LET matched == instances[i].matched
        r       == instances[i].rule
    IN  /\ StepsFit(i)
        /\ \A k \in 2 .. Len(matched) :
              /\ InTurn(r, matched[1], matched[k])
              /\ InTurn(r, matched[k - 1], matched[k]) \/ HeldUp(matched[k], r, i)

\* Unless rules change, the calls of these events have gone past the rule, and
\* each is there once.
Distinct(i) ==
    LET matched == instances[i].matched
    IN  changes = 0 =>
        /\ \A k \in DOMAIN matched : instances[i].rule \in calls[matched[k]].visited
        /\ \A k, l \in DOMAIN matched : matched[k] = matched[l] => k = l

\* Nothing that an absence waits for has come.
Observed(i) == Type(i) = "absence" /\ instances[i].active => Awaited(i) = {}

\* What a report's instance is like: timed out as an absence, or as long as the sequence
\* that took its last event.
Caused(by, x) ==
    LET len == Len(x.matched)
    IN  IF by = 0 THEN PatternOf[x.pattern].type = "absence"
        ELSE /\ by = x.matched[len] /\ PatternOf[x.taken[len]].type = "sequence"
             /\ len = Len(PatternOf[x.taken[len]].events)

\* A report is about its instance as that is for ever.
Reported(n) ==
    LET i == reported[n].instance
    IN  i # 0 =>
        /\ i \in Ids /\ instances[i].state = "completed"
        /\ reported[n].rule = instances[i].rule
        /\ reported[n].events = instances[i].matched
        /\ Caused(reported[n].by, instances[i])
        /\ \A m \in DOMAIN reported : reported[m].instance = i => m = n

\* A call that awaits a callback in the loop over the instances of a rule was held
\* up for all that it has still to look at, and is not among their events.
Suspended(e) ==
    LET r == calls[e].rule
        q == calls[e].pattern
    IN  calls[e].phase = "matched" =>
        /\ r \in Rule /\ q \in Pattern /\ PatternOf[q].type = "sequence"
        /\ e \in Seen(r)
        /\ changes = 0 => r \in calls[e].visited /\ q = FirstPattern[r]
        /\ \A i \in calls[e].todo :
              /\ i \in Ids /\ instances[i].rule = r
              /\ HeldUp(e, r, i) /\ InTurn(r, Start(i), e)
              /\ changes = 0 => e \notin Elements(instances[i].matched)

IInv ==
    /\ TypeInv
    /\ \A i \in Ids : Begun(i) /\ Fitting(i) /\ Distinct(i) /\ Observed(i)
    /\ \A n \in DOMAIN reported : Reported(n)
    /\ \A e \in DOMAIN calls : Suspended(e)
    /\ OnePerGroup
    /\ TimeoutCovered

-----------------------------------------------------------------------------
(* What a step leaves as it was. *)

\* The histories grow, and unless rules change calls go on over them.
Later ==
    /\ \A r \in Rule : \A k \in DOMAIN visits[r] :
          k \in DOMAIN visits'[r] /\ visits'[r][k] = visits[r][k]
    /\ \A n \in DOMAIN reported : n \in DOMAIN reported' /\ reported'[n] = reported[n]
    /\ \A e \in DOMAIN store : e \in DOMAIN store' /\ store'[e] = store[e]
    /\ changes' = 0 =>
          /\ changes = 0
          /\ \A e \in DOMAIN calls : calls[e].visited \subseteq calls'[e].visited

LEMMA InTurnLater ==
    ASSUME Later, NEW r \in Rule, NEW x, NEW y, InTurn(r, x, y)
    PROVE  InTurn(r, x, y)'
BY DEF Later, InTurn

LEMMA HeldUpLater ==
    ASSUME Later, NEW e, NEW r, NEW i, HeldUp(e, r, i)
    PROVE  HeldUp(e, r, i)'
BY DEF Later, HeldUp

LEMMA MatchesLater ==
    ASSUME Later, NEW e \in DOMAIN store, NEW m
    PROVE  Matches(e, m)' = Matches(e, m)
BY DEF Later, Matches

LEMMA StepLater ==
    ASSUME Later, NEW e \in DOMAIN store, NEW k, NEW p, StepFits(e, k, p)
    PROVE  StepFits(e, k, p)'
BY MatchesLater DEF StepFits

LEMMA SeenLater ==
    ASSUME Later, NEW r \in Rule, NEW e \in Seen(r)
    PROVE  e \in Seen(r)'
BY DEF Later, Seen

\* An instance that keeps its events.
Kept(i) ==
    /\ i \in Ids' /\ instances'[i].rule = instances[i].rule
    /\ instances'[i].group = instances[i].group
    /\ instances'[i].pattern = instances[i].pattern
    /\ instances'[i].matched = instances[i].matched
    /\ instances'[i].taken = instances[i].taken
    /\ instances'[i].active => instances[i].active /\ instances'[i].state = instances[i].state

LEMMA InstanceTyped ==
    ASSUME TypeInv, NEW i \in Ids
    PROVE  /\ i \in Nat /\ i \in 1 .. Len(instances)
           /\ instances[i] \in Instance
           /\ instances[i].rule \in Rule /\ instances[i].group \in Group \cup {NoGroup}
           /\ instances[i].pattern \in Pattern /\ instances[i].taken \in Seq(Pattern)
           /\ instances[i].matched \in Seq(Nat) /\ instances[i].active \in BOOLEAN
           /\ instances[i].state \in {"matching", "completed", "expired"}
<1>1. instances \in Seq(Instance) /\ i \in DOMAIN instances
  BY DEF TypeInv, Ids
<1>2. i \in 1 .. Len(instances) /\ i \in Nat
  BY <1>1
<1>3. instances[i] \in Instance
  BY <1>1
<1> QED BY <1>2, <1>3 DEF Instance

LEMMA EventsStored ==
    ASSUME TypeInv, NEW i \in Ids, Begun(i), NEW k \in DOMAIN instances[i].matched
    PROVE  /\ instances[i].matched[k] \in DOMAIN store
           /\ instances[i].matched[k] \in DOMAIN calls
<1>1. instances[i].rule \in Rule /\ instances[i].matched \in Seq(Nat)
  BY InstanceTyped
<1>2. instances[i].matched[k] \in Seen(instances[i].rule)
  BY DEF Begun
<1>3. visits[instances[i].rule] \in Seq(Visit)
  BY <1>1 DEF TypeInv
<1>4. instances[i].matched[k] \in DOMAIN store
  <2>1. PICK j \in DOMAIN visits[instances[i].rule] :
           instances[i].matched[k] = visits[instances[i].rule][j].event
    BY <1>2 DEF Seen
  <2>2. visits[instances[i].rule][j] \in Visit
    BY <1>3
  <2> QED BY <2>1, <2>2 DEF Visit
<1> QED BY <1>4 DEF TypeInv

LEMMA BegunKept ==
    ASSUME TypeInv, Later, NEW i \in Ids, Kept(i), Begun(i)
    PROVE  Begun(i)'
<1>1. PICK r \in Rule : r = instances[i].rule
  BY InstanceTyped
<1>2. \A e \in Seen(r) : e \in Seen(r)'
  BY <1>1, SeenLater
<1>3. instances'[i].rule = r
  BY <1>1 DEF Kept
<1>4. \A k \in DOMAIN instances'[i].matched : instances'[i].matched[k] \in Seen(r)'
  BY <1>1, <1>2 DEF Kept, Begun
<1> QED BY <1>1, <1>3, <1>4 DEF Begun, Kept, Later, Seen

LEMMA FittingKept ==
    ASSUME TypeInv, Later, NEW i \in Ids, Kept(i), Begun(i), Fitting(i)
    PROVE  Fitting(i)'
<1>1. PICK r \in Rule : r = instances[i].rule
  BY InstanceTyped
<1>2. PICK m \in Seq(Nat), t \in Seq(Pattern) : m = instances[i].matched /\ t = instances[i].taken
  BY InstanceTyped
<1>3. \A k \in DOMAIN m : m[k] \in DOMAIN store
  BY <1>2, EventsStored
<1>4. /\ instances'[i].rule = r /\ instances'[i].matched = m /\ instances'[i].taken = t
      /\ instances'[i].pattern = instances[i].pattern
  BY <1>1, <1>2 DEF Kept
<1>5. /\ DOMAIN t = DOMAIN m /\ t[1] = instances[i].pattern
      /\ \A k \in DOMAIN m : /\ StepFits(m[k], k, PatternOf[t[k]])
                             /\ changes = 0 => t[k] = instances[i].pattern
      /\ \A k \in 2 .. Len(m) :
            /\ InTurn(r, m[1], m[k])
            /\ InTurn(r, m[k - 1], m[k]) \/ HeldUp(m[k], r, i)
  BY <1>1, <1>2 DEF Fitting, StepsFit
<1>6. ASSUME NEW k \in DOMAIN m
      PROVE  StepFits(m[k], k, PatternOf[t[k]])'
  BY <1>3, <1>5, StepLater
<1>7. ASSUME NEW k \in 2 .. Len(m)
      PROVE  /\ InTurn(r, m[1], m[k])'
             /\ InTurn(r, m[k - 1], m[k])' \/ HeldUp(m[k], r, i)'
  BY <1>5, InTurnLater, HeldUpLater
<1>8. changes' = 0 => changes = 0
  BY DEF Later
<1>9. StepsFit(i)'
  BY Zenon, <1>4, <1>5, <1>6, <1>8 DEF StepsFit
<1> QED BY Zenon, <1>4, <1>7, <1>9 DEF Fitting

LEMMA DistinctKept ==
    ASSUME TypeInv, Later, NEW i \in Ids, Kept(i), Begun(i), Distinct(i)
    PROVE  Distinct(i)'
<1>1. \A k \in DOMAIN instances[i].matched : instances[i].matched[k] \in DOMAIN calls
  BY EventsStored
<1> QED BY <1>1 DEF Distinct, Kept, Later

\* w is m and e behind it.
Extends(w, m, e) ==
    /\ w = Append(m, e) /\ w # <<>> /\ Len(w) = Len(m) + 1 /\ Len(w) \in Nat
    /\ DOMAIN w = 1 .. Len(w)
    /\ w[Len(m) + 1] = e /\ 1 \in 1 .. Len(m)
    /\ \A k \in 1 .. Len(m) : w[k] = m[k]
    /\ \A k \in 1 .. Len(w) : k = Len(m) + 1 \/ k \in 1 .. Len(m)
    /\ \A k \in 2 .. Len(w) :
          \/ k = Len(m) + 1 /\ w[k] = e /\ w[k - 1] = m[Len(m)] /\ w[1] = m[1]
          \/ k \in 2 .. Len(m) /\ w[k] = m[k] /\ w[k - 1] = m[k - 1] /\ w[1] = m[1]

LEMMA Appended ==
    ASSUME NEW S, NEW m \in Seq(S), m # <<>>, NEW e \in S
    PROVE  Append(m, e) \in Seq(S) /\ Extends(Append(m, e), m, e)
<1> DEFINE w == Append(m, e)
<1>1. /\ w \in Seq(S) /\ w # <<>> /\ Len(w) = Len(m) + 1 /\ Len(w) \in Nat
      /\ DOMAIN w = 1 .. Len(w)
      /\ w[Len(m) + 1] = e /\ 1 \in 1 .. Len(m)
      /\ \A k \in 1 .. Len(m) : w[k] = m[k]
  OBVIOUS
<1> HIDE DEF w
<1>2. \A k \in 1 .. Len(w) : k = Len(m) + 1 \/ k \in 1 .. Len(m)
  BY <1>1
<1>3. ASSUME NEW k \in 2 .. Len(w)
      PROVE  \/ k = Len(m) + 1 /\ w[k] = e /\ w[k - 1] = m[Len(m)] /\ w[1] = m[1]
             \/ k \in 2 .. Len(m) /\ w[k] = m[k] /\ w[k - 1] = m[k - 1] /\ w[1] = m[1]
  <2>1. CASE k = Len(m) + 1
    <3>1. k - 1 = Len(m) /\ Len(m) \in 1 .. Len(m)
      BY <2>1, <1>1
    <3> QED BY <2>1, <3>1, <1>1
  <2>2. CASE k \in 2 .. Len(m)
    <3>1. k - 1 \in 1 .. Len(m) /\ k \in 1 .. Len(m)
      BY <2>2, <1>1
    <3> QED BY <2>2, <3>1, <1>1
  <2> QED BY <2>1, <2>2, <1>1
<1>4. w = Append(m, e)
  BY DEF w
<1>5. Extends(w, m, e)
  BY <1>1, <1>2, <1>3, <1>4 DEF Extends
<1> QED BY <1>1, <1>4, <1>5

\* An instance of rule r to which event e is added by the loop of a sequence q.
LEMMA AddedSound ==
    ASSUME TypeInv, Later, NEW i \in Ids, Begun(i), Fitting(i), Distinct(i),
           NEW e \in DOMAIN store, NEW r \in Rule, r = instances[i].rule,
           NEW q \in Pattern, PatternOf[q].type = "sequence", Fits(i, q, e),
           changes' = 0 => q = FirstPattern[r],
           NEW m \in Seq(Nat), m = instances[i].matched,
           NEW t \in Seq(Pattern), t = instances[i].taken,
           i \in Ids', instances'[i].rule = r, instances'[i].matched = Append(m, e),
           instances'[i].taken = Append(t, q), instances'[i].pattern = instances[i].pattern,
           instances'[i].active => instances'[i].state = "matching",
           e \in Seen(r)', InTurn(r, m[1], e)',
           InTurn(r, m[Len(m)], e)' \/ HeldUp(e, r, i),
           changes' = 0 => r \in calls'[e].visited /\ e \notin Elements(m)
    PROVE  Begun(i)' /\ Fitting(i)' /\ Distinct(i)'
<1>1. e \in Nat
  BY DEF TypeInv
<1>2. m # <<>> /\ DOMAIN t = DOMAIN m /\ Len(m) \in Nat /\ DOMAIN m = 1 .. Len(m)
  BY DEF Begun, Fitting, StepsFit
<1>3. Len(t) = Len(m) /\ t # <<>>
  BY <1>2
<1>p. PICK w \in Seq(Nat) : w = Append(m, e) /\ Extends(w, m, e)
  BY <1>1, <1>2, Appended
<1>t. PICK v \in Seq(Pattern) : v = Append(t, q) /\ Extends(v, t, q)
  BY <1>3, Appended
<1>4. /\ w = Append(m, e) /\ w # <<>> /\ Len(w) = Len(m) + 1 /\ Len(w) \in Nat
      /\ DOMAIN w = 1 .. Len(w)
      /\ w[Len(m) + 1] = e /\ 1 \in 1 .. Len(m)
      /\ \A k \in 1 .. Len(m) : w[k] = m[k]
      /\ \A k \in 1 .. Len(w) : k = Len(m) + 1 \/ k \in 1 .. Len(m)
      /\ \A k \in 2 .. Len(w) :
            \/ k = Len(m) + 1 /\ w[k] = e /\ w[k - 1] = m[Len(m)] /\ w[1] = m[1]
            \/ k \in 2 .. Len(m) /\ w[k] = m[k] /\ w[k - 1] = m[k - 1] /\ w[1] = m[1]
  BY <1>p DEF Extends
<1>5. /\ v = Append(t, q) /\ DOMAIN v = DOMAIN w
      /\ v[Len(m) + 1] = q /\ v[1] = t[1]
      /\ \A k \in 1 .. Len(m) : v[k] = t[k]
  <2>1. /\ v = Append(t, q) /\ Len(v) = Len(t) + 1 /\ DOMAIN v = 1 .. Len(v)
        /\ v[Len(t) + 1] = q /\ \A k \in 1 .. Len(t) : v[k] = t[k]
    BY <1>t DEF Extends
  <2> QED BY <1>3, <1>4, <2>1
<1>6. \A k \in 1 .. Len(m) : m[k] \in DOMAIN store /\ m[k] \in DOMAIN calls
  BY <1>2, EventsStored
<1>7. changes' = 0 => changes = 0
  BY DEF Later
<1>8. Begun(i)'
  <2>1. \A k \in 1 .. Len(m) : m[k] \in Seen(r)
    BY <1>2 DEF Begun
  <2>2. \A k \in 1 .. Len(m) : m[k] \in Seen(r)'
    BY <2>1, SeenLater
  <2>3. \A k \in DOMAIN w : w[k] \in Seen(r)'
    BY SMTT(40), <1>4, <2>2
  <2>4. changes' = 0 => instances'[i].pattern = FirstPattern[r]
    BY <1>7 DEF Begun
  <2>5. instances'[i].matched = w /\ w # <<>>
    BY <1>4
  <2> QED BY <2>3, <2>4, <2>5 DEF Begun, Seen
<1>9. StepsFit(i)'
  <2>1. /\ t[1] = instances[i].pattern
        /\ \A k \in 1 .. Len(m) : /\ StepFits(m[k], k, PatternOf[t[k]])
                                  /\ changes = 0 => t[k] = instances[i].pattern
    BY <1>2 DEF Fitting, StepsFit
  <2>2. \A k \in 1 .. Len(m) : StepFits(m[k], k, PatternOf[t[k]])'
    BY <1>6, <2>1, StepLater
  <2>3. StepFits(e, Len(m) + 1, PatternOf[q])
    BY DEF Fits, HasStep, StepFits
  <2>4. StepFits(e, Len(m) + 1, PatternOf[q])'
    <3>1. PICK n \in Nat : n = Len(m) + 1
      BY <1>2
    <3> QED BY <2>3, <3>1, StepLater
  <2>5. ASSUME NEW k \in DOMAIN w
        PROVE  /\ StepFits(w[k], k, PatternOf[v[k]])'
               /\ changes' = 0 => v[k] = instances[i].pattern
    <3>1. k = Len(m) + 1 \/ k \in 1 .. Len(m)
      BY <1>4
    <3>2. changes' = 0 => q = instances[i].pattern
      BY <1>7 DEF Begun
    <3>3. CASE k = Len(m) + 1
      <4>1. w[k] = e /\ v[k] = q
        BY <3>3, <1>4, <1>5
      <4> QED BY Zenon, <3>2, <3>3, <4>1, <2>4
    <3>4. CASE k \in 1 .. Len(m)
      <4>1. w[k] = m[k] /\ v[k] = t[k]
        BY <3>4, <1>4, <1>5
      <4> QED BY Zenon, <3>4, <4>1, <1>7, <2>1, <2>2
    <3> QED BY <3>1, <3>3, <3>4
  <2> QED BY ZenonT(40), <1>4, <1>5, <2>1, <2>5 DEF StepsFit
<1>10. Fitting(i)'
  <2>1. \A k \in 2 .. Len(m) :
           /\ InTurn(r, m[1], m[k])
           /\ InTurn(r, m[k - 1], m[k]) \/ HeldUp(m[k], r, i)
    BY DEF Fitting
  <2>2. \A k \in 2 .. Len(m) :
           /\ InTurn(r, m[1], m[k])'
           /\ InTurn(r, m[k - 1], m[k])' \/ HeldUp(m[k], r, i)'
    BY <2>1, InTurnLater, HeldUpLater
  <2>3. InTurn(r, m[1], e)' /\ (InTurn(r, m[Len(m)], e)' \/ HeldUp(e, r, i)')
    BY HeldUpLater
  <2>4. \A k \in 2 .. Len(w) :
           /\ InTurn(r, w[1], w[k])'
           /\ InTurn(r, w[k - 1], w[k])' \/ HeldUp(w[k], r, i)'
    BY SMTT(40), <1>4, <2>2, <2>3
  <2> QED BY ZenonT(40), <1>4, <1>9, <2>4 DEF Fitting
<1>11. Distinct(i)'
  <2> SUFFICES ASSUME changes' = 0
               PROVE  /\ \A k \in DOMAIN w : r \in calls'[w[k]].visited
                      /\ \A k, l \in DOMAIN w : w[k] = w[l] => k = l
    BY SMTT(40), <1>4 DEF Distinct
  <2>1. /\ \A k \in 1 .. Len(m) : r \in calls[m[k]].visited
        /\ \A k, l \in 1 .. Len(m) : m[k] = m[l] => k = l
    BY SMTT(40) DEF Later, Distinct
  <2>2. \A k \in 1 .. Len(m) : r \in calls'[m[k]].visited
    BY <2>1, <1>6 DEF Later
  <2>3. \A k \in 1 .. Len(m) : m[k] # e
    BY SMTT(40) DEF Elements
  <2>4. \A k \in DOMAIN w : r \in calls'[w[k]].visited
    BY SMTT(40), <1>4, <2>2
  <2>5. ASSUME NEW k \in DOMAIN w, NEW l \in DOMAIN w, w[k] = w[l]
        PROVE  k = l
    <3>1. /\ k = Len(m) + 1 \/ k \in 1 .. Len(m)
          /\ l = Len(m) + 1 \/ l \in 1 .. Len(m)
      BY SMTT(40), <1>4
    <3>2. CASE k \in 1 .. Len(m) /\ l \in 1 .. Len(m)
      BY SMTT(40), <3>2, <2>5, <2>1, <1>4
    <3>3. CASE k = Len(m) + 1 /\ l \in 1 .. Len(m)
      BY <3>3, <2>5, <2>3, <1>4
    <3>4. CASE l = Len(m) + 1 /\ k \in 1 .. Len(m)
      BY <3>4, <2>5, <2>3, <1>4
    <3> QED BY <3>1, <3>2, <3>3, <3>4
  <2> QED BY SMTT(40), <2>4, <2>5
<1> QED BY <1>8, <1>10, <1>11

\* A new instance.
LEMMA NewSound ==
    ASSUME TypeInv, Later, NEW i, NEW e \in DOMAIN store, NEW r \in Rule, NEW q \in Pattern,
           StepFits(e, 1, PatternOf[q]), changes' = 0 => q = FirstPattern[r],
           instances'[i].rule = r, instances'[i].pattern = q,
           instances'[i].matched = <<e>>, instances'[i].taken = <<q>>,
           instances'[i].active => instances'[i].state = "matching",
           e \in Seen(r)',
           changes' = 0 => r \in calls'[e].visited
    PROVE  Begun(i)' /\ Fitting(i)' /\ Distinct(i)'
<1>1. /\ <<e>> # <<>> /\ Len(<<e>>) = 1 /\ DOMAIN <<e>> = {1} /\ <<e>>[1] = e
      /\ DOMAIN <<q>> = {1} /\ <<q>>[1] = q
  OBVIOUS
<1>2. Begun(i)'
  BY <1>1 DEF Begun, Seen
<1>3. Fitting(i)'
  <2>1. StepFits(e, 1, PatternOf[q])'
    BY StepLater
  <2>2. StepsFit(i)'
    <3>1. \A k \in {1} : k = 1
      OBVIOUS
    <3> QED BY Zenon, <1>1, <2>1, <3>1 DEF StepsFit
  <2>3. 2 .. Len(<<e>>) = {}
    BY <1>1
  <2> QED BY <2>2, <2>3 DEF Fitting
<1>4. Distinct(i)'
  BY <1>1 DEF Distinct
<1> QED BY <1>2, <1>3, <1>4

-----------------------------------------------------------------------------
(* What the parts of the invariant need of any step. *)

\* Group, rule, pattern and first event stay, and nobody becomes active again.
Remain ==
    \A i \in Ids :
        /\ i \in Ids' /\ instances'[i].rule = instances[i].rule
        /\ instances'[i].group = instances[i].group
        /\ instances'[i].pattern = instances[i].pattern
        /\ instances'[i].active => instances[i].active

\* The rule of i has processed what it had, and perhaps one more that i does not wait for.
Unawaited(i) ==
    LET r == instances[i].rule
    IN  \/ visits'[r] = visits[r]
        \/ \E e \in DOMAIN store, q \in Pattern :
              /\ visits'[r] = Append(visits[r], [event |-> e, pattern |-> q])
              /\ \/ PatternOf[q].type # "absence"
                 \/ ~ Matches(e, PatternOf[q].expected)
                 \/ Key(e, PatternOf[q]) \notin {NoGroup, instances[i].group}

LEMMA ObservedKept ==
    ASSUME TypeInv, Later, NEW i \in Ids, Observed(i), Begun(i), Unawaited(i), i \in Ids',
           instances'[i].rule = instances[i].rule, instances'[i].group = instances[i].group,
           instances'[i].pattern = instances[i].pattern,
           instances'[i].matched[1] = instances[i].matched[1],
           instances'[i].active => instances[i].active
    PROVE  Observed(i)'
<1>1. PICK r \in Rule : r = instances[i].rule
  BY InstanceTyped
<1>2. PICK v \in Seq(Visit) : v = visits[r]
  BY <1>1 DEF TypeInv
<1>3. PICK w : w = visits'[r]
  OBVIOUS
<1> SUFFICES ASSUME Type(i) = "absence", instances'[i].active, NEW k \in Awaited(i)'
             PROVE  FALSE
  BY DEF Observed, Type
<1>4. Awaited(i) = {}
  BY DEF Observed
<1>5. /\ k \in DOMAIN w
      /\ \A j \in DOMAIN w : w[j].event = instances[i].matched[1] => j < k
      /\ PatternOf[w[k].pattern].type = "absence"
      /\ Matches(w[k].event, PatternOf[w[k].pattern].expected)'
      /\ Key(w[k].event, PatternOf[w[k].pattern])' \in {NoGroup, instances[i].group}
  BY Zenon, <1>1, <1>3 DEF Awaited, Matches, Key
<1>6. CASE k \in DOMAIN v
  <2>1. w[k] = v[k] /\ \A j \in DOMAIN v : j \in DOMAIN w /\ w[j] = v[j]
    BY <1>2, <1>3, <1>6 DEF Later
  <2>2. v[k].event \in DOMAIN store
    <3>1. v[k] \in Visit
      BY <1>2, <1>6
    <3> QED BY <3>1 DEF Visit
  <2>3. store'[v[k].event] = store[v[k].event]
    BY <2>2 DEF Later
  <2>4. k \in Awaited(i)
    <3>1. /\ Matches(v[k].event, PatternOf[v[k].pattern].expected)
          /\ Key(v[k].event, PatternOf[v[k].pattern]) \in {NoGroup, instances[i].group}
          /\ PatternOf[v[k].pattern].type = "absence"
      BY <1>5, <2>1, <2>3 DEF Matches, Key
    <3>2. \A j \in DOMAIN v : v[j].event = instances[i].matched[1] => j < k
      BY <1>5, <2>1
    <3> QED BY Zenon, <1>1, <1>2, <1>6, <3>1, <3>2 DEF Awaited
  <2> QED BY <1>4, <2>4
<1>7. CASE k \notin DOMAIN v
  <2>1. PICK e \in DOMAIN store, q \in Pattern :
           /\ w = Append(v, [event |-> e, pattern |-> q])
           /\ \/ PatternOf[q].type # "absence"
              \/ ~ Matches(e, PatternOf[q].expected)
              \/ Key(e, PatternOf[q]) \notin {NoGroup, instances[i].group}
    BY <1>1, <1>2, <1>3, <1>5, <1>7 DEF Unawaited
  <2>2. PICK x : x = [event |-> e, pattern |-> q]
    OBVIOUS
  <2>3. w = Append(v, x) /\ x \in Visit
    BY <2>1, <2>2 DEF Visit
  <2>4. w[k] = x
    BY <1>2, <1>5, <1>7, <2>3
  <2>5. w[k].event = e /\ w[k].pattern = q
    BY <2>2, <2>4
  <2>6. store'[e] = store[e]
    BY DEF Later
  <2> QED BY Zenon, <1>5, <2>1, <2>5, <2>6 DEF Matches, Key
<1> QED BY <1>6, <1>7

\* What a report says stays, and a new one is the first about its instance.
Fresh(rep) ==
    LET i == rep.instance
    IN  i # 0 =>
        /\ i \in Ids' /\ instances'[i].state = "completed"
        /\ rep.rule = instances'[i].rule /\ rep.events = instances'[i].matched
        /\ Caused(rep.by, instances'[i])
        /\ i \in Ids => instances[i].state # "completed"

CompletedStay ==
    \A i \in Ids : instances[i].state = "completed" =>
        /\ i \in Ids' /\ instances'[i].state = "completed"
        /\ instances'[i].rule = instances[i].rule
        /\ instances'[i].pattern = instances[i].pattern
        /\ instances'[i].matched = instances[i].matched
        /\ instances'[i].taken = instances[i].taken

LEMMA AppendAny ==
    ASSUME NEW s, s \in Seq(Elements(s)), NEW x
    PROVE  /\ Append(s, x) \in Seq(Elements(Append(s, x)))
           /\ Len(s) \in Nat /\ DOMAIN s = 1 .. Len(s)
           /\ DOMAIN Append(s, x) = 1 .. Len(s) + 1
           /\ Append(s, x)[Len(s) + 1] = x
           /\ \A n \in DOMAIN s : n \in DOMAIN Append(s, x) /\ Append(s, x)[n] = s[n]
           /\ \A n \in DOMAIN Append(s, x) : n \in DOMAIN s \/ n = Len(s) + 1
           /\ Len(s) + 1 \notin DOMAIN s
<1>1. PICK X : X = Elements(s) \cup {x}
  OBVIOUS
<1>2. s \in Seq(X) /\ x \in X
  <2>1. Elements(s) \subseteq X /\ x \in X
    BY <1>1
  <2> QED BY <2>1
<1>t. PICK t : t = Append(s, x)
  OBVIOUS
<1>u. t \in Seq(X)
  BY <1>2, <1>t
<1>3. /\ Len(s) \in Nat /\ DOMAIN s = 1 .. Len(s)
      /\ DOMAIN t = 1 .. Len(s) + 1 /\ Len(t) = Len(s) + 1
      /\ t[Len(s) + 1] = x
      /\ \A n \in DOMAIN s : n \in DOMAIN t /\ t[n] = s[n]
      /\ \A n \in DOMAIN t : n \in DOMAIN s \/ n = Len(s) + 1
      /\ Len(s) + 1 \notin DOMAIN s
  BY <1>2, <1>t
<1>4. t \in Seq(Elements(t))
  BY <1>u DEF Elements
<1> QED BY <1>t, <1>3, <1>4

LEMMA ReportStays ==
    ASSUME CompletedStay, NEW n, Reported(n), reported'[n] = reported[n],
           NEW i, i = reported[n].instance,
           i # 0 => \A m \in DOMAIN reported' : reported'[m].instance = i => m = n
    PROVE  Reported(n)'
<1> SUFFICES ASSUME i # 0
             PROVE  Reported(n)'
  BY DEF Reported
<1>1. /\ i \in Ids /\ instances[i].state = "completed"
      /\ reported[n].rule = instances[i].rule /\ reported[n].events = instances[i].matched
      /\ Caused(reported[n].by, instances[i])
  BY DEF Reported
<1>2. /\ i \in Ids' /\ instances'[i].state = "completed"
      /\ instances'[i].rule = instances[i].rule
      /\ instances'[i].pattern = instances[i].pattern
      /\ instances'[i].matched = instances[i].matched
      /\ instances'[i].taken = instances[i].taken
  BY <1>1 DEF CompletedStay
<1>3. Caused(reported[n].by, instances'[i])
  BY <1>1, <1>2 DEF Caused
<1> QED BY Zenon, <1>1, <1>2, <1>3 DEF Reported, Caused

LEMMA ReportsKept ==
    ASSUME TypeInv, CompletedStay, \A n \in DOMAIN reported : Reported(n),
           \/ reported' = reported
           \/ \E rep : reported' = Append(reported, rep) /\ Fresh(rep)
    PROVE  reported' \in Seq(Elements(reported')) /\ \A n \in DOMAIN reported' : Reported(n)'
<1>1. CASE reported' = reported
  <2>1. reported' \in Seq(Elements(reported'))
    BY <1>1 DEF TypeInv
  <2>2. \A n \in DOMAIN reported' : Reported(n)'
    <3>1. ASSUME NEW n \in DOMAIN reported
          PROVE  Reported(n)'
      <4>1. PICK i : i = reported[n].instance
        OBVIOUS
      <4>2. i # 0 => \A m \in DOMAIN reported' : reported'[m].instance = i => m = n
        BY <1>1, <4>1 DEF Reported
      <4> QED BY <1>1, <4>1, <4>2, ReportStays
    <3> QED BY <1>1, <3>1
  <2> QED BY <2>1, <2>2
<1>2. ASSUME NEW rep, reported' = Append(reported, rep), Fresh(rep)
      PROVE  reported' \in Seq(Elements(reported')) /\ \A n \in DOMAIN reported' : Reported(n)'
  <2>1. reported \in Seq(Elements(reported))
    BY DEF TypeInv
  <2>2. /\ reported' \in Seq(Elements(reported'))
        /\ DOMAIN reported = 1 .. Len(reported)
        /\ reported'[Len(reported) + 1] = rep
        /\ \A n \in DOMAIN reported : n \in DOMAIN reported' /\ reported'[n] = reported[n]
        /\ \A n \in DOMAIN reported' : n \in DOMAIN reported \/ n = Len(reported) + 1
        /\ Len(reported) + 1 \notin DOMAIN reported
    BY <1>2, <2>1, AppendAny
  <2>3. \A n \in DOMAIN reported : reported[n].instance # 0 => reported[n].instance # rep.instance
    BY <1>2 DEF Fresh, Reported
  <2>4. ASSUME NEW n \in DOMAIN reported', n \in DOMAIN reported
        PROVE  Reported(n)'
    <3>1. PICK i : i = reported[n].instance
      OBVIOUS
    <3>2. ASSUME i # 0, NEW m \in DOMAIN reported', reported'[m].instance = i
          PROVE  m = n
      <4>1. m # Len(reported) + 1
        BY <2>2, <2>3, <2>4, <3>1, <3>2
      <4>2. m \in DOMAIN reported /\ reported[m].instance = i
        BY <2>2, <3>2, <4>1
      <4> QED BY <2>4, <3>1, <3>2, <4>2 DEF Reported
    <3> QED BY <2>2, <2>4, <3>1, <3>2, ReportStays
  <2>5. ASSUME NEW n \in DOMAIN reported', n = Len(reported) + 1
        PROVE  Reported(n)'
    <3> SUFFICES ASSUME rep.instance # 0
                 PROVE  \A m \in DOMAIN reported' : reported'[m].instance = rep.instance => m = n
      BY Zenon, <1>2, <2>2, <2>5 DEF Reported, Fresh
    <3>1. \A m \in DOMAIN reported : reported'[m].instance # rep.instance
      BY <2>2, <2>3
    <3> QED BY <2>2, <2>5, <3>1
  <2> QED BY <2>2, <2>4, <2>5
<1> QED BY <1>1, <1>2

\* A suspended call goes on to wait with what it has to do.
LEMMA SuspendedKept ==
    ASSUME TypeInv, Later, Remain, NEW e \in DOMAIN calls, Suspended(e),
           calls'[e].phase = "matched" =>
              /\ calls[e].phase = "matched" /\ calls'[e].rule = calls[e].rule
              /\ calls'[e].pattern = calls[e].pattern
              /\ calls'[e].todo \subseteq calls[e].todo,
           \A i \in Ids : instances[i].rule = calls[e].rule =>
              /\ instances'[i].matched[1] = instances[i].matched[1]
              /\ \A k \in DOMAIN instances'[i].matched :
                    instances'[i].matched[k] \in Elements(instances[i].matched) \/
                    instances'[i].matched[k] # e
    PROVE  Suspended(e)'
<1>1. PICK r, q : r = calls[e].rule /\ q = calls[e].pattern
  OBVIOUS
<1> SUFFICES ASSUME calls'[e].phase = "matched"
             PROVE  Suspended(e)'
  BY DEF Suspended
<1>2. /\ calls[e].phase = "matched" /\ calls'[e].rule = r /\ calls'[e].pattern = q
      /\ calls'[e].todo \subseteq calls[e].todo
  BY <1>1
<1>3. /\ r \in Rule /\ q \in Pattern /\ PatternOf[q].type = "sequence"
      /\ e \in Seen(r)
      /\ changes = 0 => r \in calls[e].visited /\ q = FirstPattern[r]
      /\ \A i \in calls[e].todo :
            /\ i \in Ids /\ instances[i].rule = r
            /\ HeldUp(e, r, i) /\ InTurn(r, instances[i].matched[1], e)
            /\ changes = 0 => e \notin Elements(instances[i].matched)
  BY <1>1, <1>2 DEF Suspended, Start
<1>4. /\ e \in Seen(r)'
      /\ changes' = 0 => r \in calls'[e].visited /\ q = FirstPattern[r]
  BY <1>3, SeenLater DEF Later
<1>5. ASSUME NEW i \in calls'[e].todo
      PROVE  /\ i \in Ids' /\ instances'[i].rule = r
             /\ HeldUp(e, r, i)'
             /\ changes' = 0 => e \notin Elements(instances'[i].matched)
  <2>1. i \in Ids /\ instances[i].rule = r
    BY <1>2, <1>3
  <2>2. HeldUp(e, r, i)'
    BY <1>2, <1>3, HeldUpLater
  <2>3. changes' = 0 => e \notin Elements(instances'[i].matched)
    BY <1>1, <1>2, <1>3, <2>1 DEF Later, Elements
  <2> QED BY <2>1, <2>2, <2>3 DEF Remain
<1>6. ASSUME NEW i \in calls'[e].todo
      PROVE  InTurn(r, Start(i), e)'
  <2>1. PICK x : x = instances[i].matched[1]
    OBVIOUS
  <2>2. InTurn(r, x, e)'
    BY <1>2, <1>3, <2>1, InTurnLater
  <2>3. instances'[i].matched[1] = x
    BY <1>1, <1>2, <1>3, <2>1
  <2> QED BY <2>2, <2>3 DEF Start, InTurn
<1> QED BY <1>2, <1>3, <1>4, <1>5, <1>6 DEF Suspended, InTurn, Seen

\* A new instance finds no other of its group, where that matters.
LEMMA GroupsKept ==
    ASSUME TypeInv, OnePerGroup, Remain, NEW n, Ids' \subseteq Ids \cup {n},
           n \in Ids' \ Ids /\ instances'[n].active =>
              \A i \in Ids :
                 /\ instances'[i].active /\ instances'[i].rule = instances'[n].rule
                 /\ instances'[i].group = instances'[n].group
                 => Type(n)' = "sequence" /\ instances'[n].group = NoGroup
    PROVE  OnePerGroup'
<1> SUFFICES ASSUME NEW i \in Ids', NEW j \in Ids',
                    instances'[i].active, instances'[j].active,
                    instances'[i].rule = instances'[j].rule,
                    instances'[i].group = instances'[j].group,
                    ApartFromOthers(i)', ApartFromOthers(j)'
             PROVE  i = j
  BY DEF OnePerGroup
<1>1. CASE i \in Ids /\ j \in Ids
  BY <1>1 DEF OnePerGroup, Remain, ApartFromOthers
<1>2. CASE i \in Ids /\ j \notin Ids
  <2>1. j = n
    BY <1>2
  <2> QED BY <1>2, <2>1 DEF Type, ApartFromOthers
<1>3. CASE j \in Ids /\ i \notin Ids
  <2>1. i = n
    BY <1>3
  <2> QED BY <1>3, <2>1 DEF Type, ApartFromOthers
<1>4. CASE i \notin Ids /\ j \notin Ids
  BY <1>4
<1> QED BY <1>1, <1>2, <1>3, <1>4

-----------------------------------------------------------------------------
(* Calls. *)

LEMMA PassedRules ==
    ASSUME TypeInv, NEW k \in DOMAIN rules
    PROVE  Passed(rules[k]) \subseteq Rule /\ rules[k] \in Passed(rules[k])
<1> DEFINE c == CHOOSE n \in DOMAIN rules : rules[n] = rules[k]
<1>1. c \in DOMAIN rules /\ rules[c] = rules[k]
  OBVIOUS
<1> HIDE DEF c
<1>2. rules \in Seq(Rule) /\ c \in 1 .. Len(rules)
  BY <1>1 DEF TypeInv
<1>3. \A n \in 1 .. c : n \in DOMAIN rules /\ rules[n] \in Rule
  BY <1>2
<1>4. Passed(rules[k]) = {rules[n] : n \in 1 .. c}
  BY DEF Passed, c
<1>5. c \in 1 .. c
  BY <1>2
<1> QED BY <1>1, <1>3, <1>4, <1>5

LEMMA CallTyped ==
    ASSUME TypeInv, NEW e \in DOMAIN calls
    PROVE  /\ calls[e] \in Call /\ e \in Nat /\ e \in DOMAIN store
           /\ calls[e].visited \subseteq Rule /\ calls[e].todo \subseteq Nat
<1>1. calls \in Seq(Call) /\ store \in Seq(Stored)
  BY DEF TypeInv
<1>2. e \in 1 .. Len(calls) /\ Len(calls) = Len(store)
  BY <1>1 DEF TypeInv
<1>3. calls[e] \in Call
  BY <1>1
<1>4. e \in Nat /\ e \in DOMAIN store
  BY <1>1, <1>2
<1> QED BY <1>3, <1>4 DEF Call

\* The call of e goes on as c, which it has not failed to do.
GoesOn(e, c) ==
    /\ calls' = [calls EXCEPT ![e] = c] /\ c \in Call
    /\ calls[e].visited \subseteq c.visited /\ calls[e].phase # "failed"

LEMMA GoesTyped ==
    ASSUME TypeInv, NEW e \in DOMAIN calls, NEW r \in Rule, NEW q \in Pattern,
           Runs(e) => r \in Elements(rules),
           NEW ph \in {"next", "matched", "ending"}, NEW todo \in SUBSET Nat, NEW i \in Nat
    PROVE  /\ Goes(e, r, q, ph, todo, i) \in Call
           /\ calls[e].visited \subseteq Goes(e, r, q, ph, todo, i).visited
           /\ Runs(e) => r \in Goes(e, r, q, ph, todo, i).visited
           /\ Goes(e, r, q, ph, todo, i).phase = ph /\ Goes(e, r, q, ph, todo, i).rule = r
           /\ Goes(e, r, q, ph, todo, i).pattern = q
           /\ Goes(e, r, q, ph, todo, i).todo = todo
<1>1. calls[e] \in Call
  BY CallTyped
<1>2. Runs(e) => Passed(r) \subseteq Rule /\ r \in Passed(r)
  BY PassedRules DEF Elements
<1> QED BY <1>1, <1>2 DEF Goes, Call

LEMMA CallsKept ==
    ASSUME TypeInv, NEW e \in DOMAIN calls, NEW c, GoesOn(e, c)
    PROVE  /\ calls' \in Seq(Call) /\ Len(calls') = Len(calls)
           /\ DOMAIN calls' = DOMAIN calls /\ calls'[e] = c
           /\ \A d \in DOMAIN calls : d # e => calls'[d] = calls[d]
           /\ \A d \in DOMAIN calls : calls[d].visited \subseteq calls'[d].visited
<1>1. calls \in Seq(Call)
  BY DEF TypeInv
<1>2. calls' \in Seq(Call) /\ Len(calls') = Len(calls) /\ DOMAIN calls' = DOMAIN calls
  BY <1>1 DEF GoesOn
<1> QED BY <1>1, <1>2 DEF GoesOn

\* Nobody stops having been refused a timer.
LEMMA RefusedStays ==
    ASSUME TypeInv, NEW e \in DOMAIN calls, NEW c, GoesOn(e, c), NEW i, Refused(i)
    PROVE  Refused(i)'
<1>1. PICK d \in DOMAIN calls : calls[d].phase = "failed" /\ calls[d].waits = i
  BY DEF Refused
<1>2. d # e /\ d \in DOMAIN calls' /\ calls'[d] = calls[d]
  BY <1>1, CallsKept DEF GoesOn
<1> QED BY <1>1, <1>2 DEF Refused

-----------------------------------------------------------------------------
(* The loop over the instances. *)

\* What becomes of instance i: it stays, or e is added to it, or it ends.
Added(i, q, e, x) ==
    /\ x.rule = instances[i].rule /\ x.group = instances[i].group
    /\ x.pattern = instances[i].pattern
    /\ x.matched = Append(instances[i].matched, e) /\ x.taken = Append(instances[i].taken, q)
    /\ instances[i].state = "matching" /\ Fits(i, q, e)
    /\ x.active => instances[i].active /\ x.state = "matching"
    /\ x.state = "completed" => Completes(i, q, e)
    /\ x.state \in {"matching", "completed"}

Dropped(i, x) ==
    /\ x.rule = instances[i].rule /\ x.group = instances[i].group
    /\ x.pattern = instances[i].pattern
    /\ x.matched = instances[i].matched /\ x.taken = instances[i].taken
    /\ instances[i].state = "matching"
    /\ x.active = FALSE /\ x.state = "expired"

LEMMA SweptInstance ==
    ASSUME TypeInv, NEW q \in Pattern, NEW e \in DOMAIN store, NEW seen, NEW i \in Ids
    PROVE  /\ Swept(seen, q, e)[i] \in Instance
           /\ \/ Swept(seen, q, e)[i] = instances[i]
              \/ i \in seen /\ Added(i, q, e, Swept(seen, q, e)[i])
              \/ i \in seen /\ Dropped(i, Swept(seen, q, e)[i])
           /\ Swept(seen, q, e)[i].active => i \notin Unarmed(seen, q, e)
           /\ i \in seen /\ Completes(i, q, e) =>
                 /\ Added(i, q, e, Swept(seen, q, e)[i])
                 /\ Swept(seen, q, e)[i].state = "completed"
<1>1. PICK x : x = Swept(seen, q, e)[i]
  OBVIOUS
<1>2. x = IF i \in Open(seen) THEN Advanced(i, q, e) ELSE instances[i]
  BY <1>1 DEF Swept
<1>3. instances[i] \in Instance /\ instances[i].matched \in Seq(Nat) /\ e \in Nat
      /\ instances[i].taken \in Seq(Pattern)
  BY InstanceTyped DEF TypeInv
<1>4. /\ Append(instances[i].matched, e) \in Seq(Nat)
      /\ Append(instances[i].taken, q) \in Seq(Pattern)
  BY <1>3
<1>5. Completes(i, q, e) => Fits(i, q, e)
  BY DEF Completes
<1>6. CASE i \notin Open(seen)
  <2>1. x = instances[i] /\ i \notin Unarmed(seen, q, e)
    BY <1>2, <1>6 DEF Unarmed
  <2>2. ~ (i \in seen /\ Completes(i, q, e))
    BY <1>6 DEF Open, Completes
  <2> QED BY <1>1, <1>3, <2>1, <2>2
<1>7. CASE i \in Open(seen)
  <2>1. i \in seen /\ instances[i].state = "matching"
    BY <1>7 DEF Open
  <2>2. x = Advanced(i, q, e)
    BY <1>2, <1>7
  <2>3. i \in Unarmed(seen, q, e) <=> x.state # "matching"
    BY <1>1, <1>7 DEF Unarmed
  <2>4. CASE Completes(i, q, e)
    <3>1. x = Took(Ended(i, "completed"), q, e)
      BY <2>2, <2>4 DEF Advanced
    <3>2. /\ x \in Instance /\ x.rule = instances[i].rule /\ x.group = instances[i].group
          /\ x.pattern = instances[i].pattern
          /\ x.matched = Append(instances[i].matched, e)
          /\ x.taken = Append(instances[i].taken, q)
          /\ x.active = FALSE /\ x.state = "completed"
      BY <1>3, <1>4, <3>1 DEF Ended, Instance, Took
    <3>3. Added(i, q, e, x)
      BY <1>5, <2>1, <2>4, <3>2 DEF Added
    <3> QED BY <1>1, <2>1, <3>2, <3>3
  <2>5. CASE ~ Completes(i, q, e) /\ Fits(i, q, e)
    <3>1. x = Took(instances[i], q, e)
      BY <2>2, <2>5 DEF Advanced
    <3>2. /\ x \in Instance /\ x.rule = instances[i].rule /\ x.group = instances[i].group
          /\ x.pattern = instances[i].pattern
          /\ x.matched = Append(instances[i].matched, e)
          /\ x.taken = Append(instances[i].taken, q)
          /\ x.active = instances[i].active /\ x.state = "matching"
      BY <1>3, <1>4, <2>1, <3>1 DEF Instance, Took
    <3>3. Added(i, q, e, x)
      BY <2>1, <2>5, <3>2 DEF Added
    <3> QED BY <1>1, <2>1, <2>3, <2>5, <3>2, <3>3
  <2>6. CASE ~ Completes(i, q, e) /\ ~ Fits(i, q, e) /\ Misses(i, q, e) /\ PatternOf[q].strict
    <3>1. x = Ended(i, "expired")
      BY <2>2, <2>6 DEF Advanced
    <3>2. x \in Instance /\ Dropped(i, x)
      BY <1>3, <2>1, <3>1 DEF Ended, Instance, Dropped
    <3> QED BY <1>1, <2>1, <2>6, <3>2 DEF Dropped
  <2>7. CASE ~ Completes(i, q, e) /\ ~ Fits(i, q, e) /\ ~ (Misses(i, q, e) /\ PatternOf[q].strict)
    <3>1. x = instances[i]
      BY <2>2, <2>7 DEF Advanced
    <3> QED BY <1>1, <1>3, <2>1, <2>3, <2>7, <3>1
  <2> QED BY <2>4, <2>5, <2>6, <2>7
<1> QED BY <1>6, <1>7

LEMMA SweptTyped ==
    ASSUME TypeInv, NEW q \in Pattern, NEW e \in DOMAIN store, NEW seen
    PROVE  /\ Swept(seen, q, e) \in Seq(Instance)
           /\ Len(Swept(seen, q, e)) = Len(instances)
           /\ DOMAIN Swept(seen, q, e) = Ids
<1>1. instances \in Seq(Instance) /\ Ids = 1 .. Len(instances) /\ Len(instances) \in Nat
  BY DEF TypeInv, Ids
<1>2. \A i \in Ids : Swept(seen, q, e)[i] \in Instance
  BY SweptInstance
<1>3. PICK s : s = Swept(seen, q, e)
  OBVIOUS
<1>4. s = [i \in 1 .. Len(instances) |-> s[i]]
  BY <1>1, <1>3 DEF Swept
<1>5. \A i \in 1 .. Len(instances) : s[i] \in Instance
  BY <1>1, <1>2, <1>3
<1>6. s \in [1 .. Len(instances) -> Instance]
  BY <1>4, <1>5
<1>7. s \in Seq(Instance) /\ Len(s) = Len(instances) /\ DOMAIN s = 1 .. Len(instances)
  BY <1>1, <1>6
<1> QED BY <1>1, <1>3, <1>7

-----------------------------------------------------------------------------
(* One turn of a call: what processing event e does to the instances of rule r, by *)
(* pattern q.                                                               *)

InTurnNext(r, x, y) ==
    \E j, k \in DOMAIN visits'[r] :
        j < k /\ visits'[r][j].event = x /\ visits'[r][k].event = y

\* Event e may be added to instance i.
ReadyFor(e, r, i) ==
    LET m == instances[i].matched
    IN  /\ instances[i].rule = r
        /\ InTurnNext(r, m[1], e)
        /\ InTurnNext(r, m[Len(m)], e) \/ HeldUp(e, r, i)
        /\ changes' = 0 => e \notin Elements(m)

\* The rule processes e, now or since a callback is awaited, and no other rule does anything.
Comes(e, r, q) ==
    /\ e \in Seen(r)'
    /\ visits'[r] \in {visits[r], Append(visits[r], [event |-> e, pattern |-> q])}
    /\ \A o \in Rule \ {r} : visits'[o] = visits[o]
    /\ changes' = 0 => r \in calls'[e].visited /\ q = FirstPattern[r]

Turns(i, e, r, q, x) ==
    \/ x = instances[i]
    \/ Dropped(i, x)
    \/ PatternOf[q].type = "sequence" /\ Added(i, q, e, x) /\ ReadyFor(e, r, i)

\* A new instance in state st may be put behind ins.
Starts(e, r, q, ins, st) ==
    LET p == PatternOf[q]
    IN  /\ st \in {"matching", "completed"} /\ StepFits(e, 1, p)
        /\ p.type # "sequence" \/ Key(e, p) # NoGroup => ~ Matching(ins, r, Key(e, p))

LEMMA TurnKept ==
    ASSUME NEW i \in Ids, NEW x, instances'[i] = x, i \in Ids',
           x = instances[i] \/ Dropped(i, x)
    PROVE  Kept(i)
BY DEF Kept, Dropped

LEMMA TurnSound ==
    ASSUME TypeInv, Later, NEW e \in DOMAIN store, NEW r \in Rule, NEW q \in Pattern,
           Comes(e, r, q), NEW i \in Ids, Begun(i), Fitting(i), Distinct(i),
           i \in Ids', Turns(i, e, r, q, instances'[i])
    PROVE  Begun(i)' /\ Fitting(i)' /\ Distinct(i)'
<1>1. CASE instances'[i] = instances[i] \/ Dropped(i, instances'[i])
  <2>1. Kept(i)
    BY <1>1, TurnKept
  <2> QED BY <2>1, BegunKept, FittingKept, DistinctKept
<1>2. CASE PatternOf[q].type = "sequence" /\ Added(i, q, e, instances'[i]) /\ ReadyFor(e, r, i)
  <2>1. PICK m \in Seq(Nat), t \in Seq(Pattern) :
           m = instances[i].matched /\ t = instances[i].taken
    BY InstanceTyped
  <2>2. /\ instances'[i].rule = r /\ r = instances[i].rule
        /\ instances'[i].pattern = instances[i].pattern
        /\ instances'[i].matched = Append(m, e) /\ instances'[i].taken = Append(t, q)
        /\ Fits(i, q, e)
        /\ instances'[i].active => instances'[i].state = "matching"
    BY <1>2, <2>1 DEF Added, ReadyFor
  <2>3. InTurn(r, m[1], e)' /\ (InTurn(r, m[Len(m)], e)' \/ HeldUp(e, r, i))
    BY <1>2, <2>1 DEF ReadyFor, InTurn, InTurnNext
  <2>4. changes' = 0 => r \in calls'[e].visited /\ e \notin Elements(m) /\ q = FirstPattern[r]
    BY <1>2, <2>1 DEF ReadyFor, Comes
  <2>5. e \in Seen(r)'
    BY DEF Comes
  <2> QED BY <1>2, <2>1, <2>2, <2>3, <2>4, <2>5, AddedSound
<1> QED BY <1>1, <1>2 DEF Turns

LEMMA TurnRemains ==
    ASSUME TypeInv, NEW e, NEW r, NEW q, NEW i \in Ids, i \in Ids',
           Turns(i, e, r, q, instances'[i])
    PROVE  /\ instances'[i].rule = instances[i].rule
           /\ instances'[i].group = instances[i].group
           /\ instances'[i].pattern = instances[i].pattern
           /\ instances'[i].active => instances[i].active
           /\ instances[i].state = "completed" => instances'[i] = instances[i]
BY InstanceTyped DEF Turns, Added, Dropped

\* The events of an instance are those it had, and e.
LEMMA TurnMatched ==
    ASSUME TypeInv, NEW e \in DOMAIN store, NEW r \in Rule, NEW q \in Pattern,
           NEW i \in Ids, Begun(i), Turns(i, e, r, q, instances'[i])
    PROVE  /\ instances'[i].matched[1] = instances[i].matched[1]
           /\ \A k \in DOMAIN instances'[i].matched :
                 \/ instances'[i].matched[k] \in Elements(instances[i].matched)
                 \/ instances'[i].matched[k] = e
<1>1. CASE instances'[i] = instances[i] \/ Dropped(i, instances'[i])
  BY <1>1 DEF Dropped, Elements
<1>2. CASE Added(i, q, e, instances'[i])
  <2>1. PICK m \in Seq(Nat) : m = instances[i].matched /\ m # <<>>
    BY InstanceTyped DEF Begun
  <2>2. e \in Nat
    BY DEF TypeInv
  <2>3. PICK w : w = Append(m, e) /\ Extends(w, m, e)
    BY <2>1, <2>2, Appended
  <2>4. instances'[i].matched = w
    BY <1>2, <2>1, <2>3 DEF Added
  <2>5. w[1] = m[1] /\ \A k \in DOMAIN w : w[k] = e \/ w[k] \in Elements(m)
    BY <2>1, <2>3 DEF Extends, Elements
  <2> QED BY <2>1, <2>4, <2>5
<1> QED BY <1>1, <1>2 DEF Turns

LEMMA TurnObserved ==
    ASSUME TypeInv, Later, NEW e \in DOMAIN store, NEW r \in Rule, NEW q \in Pattern,
           Comes(e, r, q), PatternOf[q].type # "absence",
           NEW i \in Ids, Begun(i), Observed(i), i \in Ids', Turns(i, e, r, q, instances'[i])
    PROVE  Observed(i)'
<1>1. Unawaited(i)
  <2>1. instances[i].rule \in Rule
    BY InstanceTyped
  <2> QED BY <2>1 DEF Comes, Unawaited
<1>2. /\ instances'[i].rule = instances[i].rule /\ instances'[i].group = instances[i].group
      /\ instances'[i].pattern = instances[i].pattern
      /\ instances'[i].active => instances[i].active
  BY TurnRemains
<1>3. instances'[i].matched[1] = instances[i].matched[1]
  BY TurnMatched
<1> QED BY <1>1, <1>2, <1>3, ObservedKept

LEMMA NewTyped ==
    ASSUME TypeInv, NEW e \in DOMAIN store, NEW r \in Rule, NEW q \in Pattern,
           NEW st \in {"matching", "completed"}
    PROVE  /\ NewInstance(r, q, e, st) \in Instance
           /\ NewInstance(r, q, e, st).rule = r
           /\ NewInstance(r, q, e, st).pattern = q
           /\ NewInstance(r, q, e, st).group = Key(e, PatternOf[q])
           /\ NewInstance(r, q, e, st).matched = <<e>>
           /\ NewInstance(r, q, e, st).taken = <<q>>
           /\ NewInstance(r, q, e, st).state = st
           /\ NewInstance(r, q, e, st).active <=> st = "matching"
<1>1. store \in Seq(Stored) /\ clock \in Nat
  BY DEF TypeInv
<1>2. e \in Nat /\ store[e].group \in Group \cup {NoGroup}
  <2>1. e \in Nat
    BY <1>1
  <2>2. store[e] \in Stored
    BY <1>1
  <2> QED BY <2>1, <2>2 DEF Stored
<1>3. Key(e, PatternOf[q]) \in Group \cup {NoGroup}
  BY <1>2 DEF Key
<1>4. <<e>> \in Seq(Nat) /\ <<q>> \in Seq(Pattern)
  BY <1>2
<1>5. clock + PatternOf[q].window \in Nat
  BY <1>1, PatternsTyped
<1> QED BY <1>3, <1>4, <1>5 DEF NewInstance, Instance

\* The instances after a turn: those there were, and perhaps one more.
LEMMA TurnInstances ==
    ASSUME TypeInv, NEW e \in DOMAIN store, NEW r \in Rule, NEW q \in Pattern,
           NEW ins \in Seq(Instance), Len(ins) = Len(instances),
           \/ instances' = ins
           \/ \E st : /\ Starts(e, r, q, ins, st)
                      /\ instances' = Append(ins, NewInstance(r, q, e, st))
    PROVE  /\ instances' \in Seq(Instance)
           /\ \A i \in Ids : i \in DOMAIN ins /\ i \in Ids' /\ instances'[i] = ins[i]
           /\ DOMAIN ins = Ids
           /\ \/ Ids' = Ids
              \/ /\ Len(ins) + 1 \notin Ids
                 /\ Ids' = Ids \cup {Len(ins) + 1}
                 /\ \E st : /\ Starts(e, r, q, ins, st) /\ st \in {"matching", "completed"}
                            /\ instances'[Len(ins) + 1] = NewInstance(r, q, e, st)
<1>1. instances \in Seq(Instance) /\ Ids = 1 .. Len(instances) /\ Len(instances) \in Nat
  BY DEF TypeInv, Ids
<1>2. CASE instances' = ins
  BY <1>1, <1>2 DEF Ids
<1>3. ASSUME NEW st, Starts(e, r, q, ins, st), instances' = Append(ins, NewInstance(r, q, e, st))
      PROVE  /\ instances' \in Seq(Instance)
             /\ \A i \in Ids : i \in DOMAIN ins /\ i \in Ids' /\ instances'[i] = ins[i]
             /\ DOMAIN ins = Ids
             /\ Len(ins) + 1 \notin Ids
             /\ Ids' = Ids \cup {Len(ins) + 1}
             /\ st \in {"matching", "completed"}
             /\ instances'[Len(ins) + 1] = NewInstance(r, q, e, st)
  <2>1. st \in {"matching", "completed"}
    BY <1>3 DEF Starts
  <2>2. PICK x \in Instance : x = NewInstance(r, q, e, st)
    BY <2>1, NewTyped
  <2>3. instances' = Append(ins, x)
    BY <1>3, <2>2
  <2>4. /\ instances' \in Seq(Instance) /\ DOMAIN instances' = 1 .. Len(ins) + 1
        /\ instances'[Len(ins) + 1] = x
        /\ \A i \in 1 .. Len(ins) : instances'[i] = ins[i]
    BY <2>3
  <2> QED BY <1>1, <2>1, <2>2, <2>4 DEF Ids
<1> QED BY <1>2, <1>3

\* The invariant after a step, but for what TypeInv says of the other variables and
\* for the timers.
Settles ==
    /\ instances' \in Seq(Instance)
    /\ reported' \in Seq(Elements(reported'))
    /\ \A i \in Ids' : Begun(i)' /\ Fitting(i)' /\ Distinct(i)' /\ Observed(i)'
    /\ \A n \in DOMAIN reported' : Reported(n)'
    /\ \A d \in DOMAIN calls' : Suspended(d)'
    /\ OnePerGroup'

LEMMA Turned ==
    ASSUME IInv, Later, NEW e \in DOMAIN calls, NEW r \in Rule, NEW q \in Pattern,
           Comes(e, r, q),
           NEW ins \in Seq(Instance), Len(ins) = Len(instances),
           \A i \in Ids : Turns(i, e, r, q, ins[i]),
           \/ instances' = ins
           \/ \E st : /\ Starts(e, r, q, ins, st)
                      /\ instances' = Append(ins, NewInstance(r, q, e, st)),
           PatternOf[q].type = "absence" => \A i \in Ids' : Observed(i)',
           NEW c, GoesOn(e, c),
           \/ reported' = reported
           \/ \E rep : reported' = Append(reported, rep) /\ Fresh(rep),
           Suspended(e)'
    PROVE  Settles
<1>1. TypeInv /\ e \in DOMAIN store
  BY CallTyped DEF IInv
<1>2. /\ instances' \in Seq(Instance)
      /\ \A i \in Ids : i \in DOMAIN ins /\ i \in Ids' /\ instances'[i] = ins[i]
      /\ DOMAIN ins = Ids
      /\ \/ Ids' = Ids
         \/ /\ Len(ins) + 1 \notin Ids
            /\ Ids' = Ids \cup {Len(ins) + 1}
            /\ \E st : /\ Starts(e, r, q, ins, st) /\ st \in {"matching", "completed"}
                       /\ instances'[Len(ins) + 1] = NewInstance(r, q, e, st)
  BY <1>1, TurnInstances
<1>3. \A i \in Ids : Turns(i, e, r, q, instances'[i])
  BY <1>2
<1>4. Remain /\ CompletedStay
  <2>1. ASSUME NEW i \in Ids
        PROVE  /\ i \in Ids' /\ instances'[i].rule = instances[i].rule
               /\ instances'[i].group = instances[i].group
               /\ instances'[i].pattern = instances[i].pattern
               /\ instances'[i].active => instances[i].active
               /\ instances[i].state = "completed" => instances'[i] = instances[i]
    BY SMTT(40), <1>1, <1>2, <1>3, TurnRemains
  <2> QED BY <2>1 DEF Remain, CompletedStay
<1>5. /\ calls' \in Seq(Call) /\ Len(calls') = Len(calls) /\ DOMAIN calls' = DOMAIN calls
      /\ \A d \in DOMAIN calls : d # e => calls'[d] = calls[d]
  BY <1>1, CallsKept
<1>6. reported' \in Seq(Elements(reported')) /\ \A n \in DOMAIN reported' : Reported(n)'
  BY <1>1, <1>4, ReportsKept DEF IInv
<1>7. ASSUME NEW i \in Ids
      PROVE  Begun(i)' /\ Fitting(i)' /\ Distinct(i)' /\ Observed(i)'
  <2>1. Begun(i) /\ Fitting(i) /\ Distinct(i) /\ Observed(i) /\ i \in Ids'
    BY <1>2 DEF IInv
  <2>2. Begun(i)' /\ Fitting(i)' /\ Distinct(i)'
    BY <1>1, <1>3, <2>1, TurnSound
  <2>3. Observed(i)'
    BY <1>1, <1>3, <2>1, TurnObserved
  <2> QED BY <2>2, <2>3
<1>8. ASSUME NEW n \in Ids', n \notin Ids
      PROVE  /\ Begun(n)' /\ Fitting(n)' /\ Distinct(n)' /\ Observed(n)'
             /\ instances'[n].active =>
                   \A i \in Ids :
                      /\ instances'[i].active /\ instances'[i].rule = instances'[n].rule
                      /\ instances'[i].group = instances'[n].group
                      => Type(n)' = "sequence" /\ instances'[n].group = NoGroup
  <2>1. PICK st \in {"matching", "completed"} :
           Starts(e, r, q, ins, st) /\ instances'[n] = NewInstance(r, q, e, st)
    BY <1>2, <1>8
  <2>2. /\ instances'[n].rule = r /\ instances'[n].group = Key(e, PatternOf[q])
        /\ instances'[n].pattern = q
        /\ instances'[n].matched = <<e>> /\ instances'[n].taken = <<q>>
        /\ instances'[n].state = st
        /\ instances'[n].active <=> st = "matching"
    BY <1>1, <2>1, NewTyped
  <2>3. StepFits(e, 1, PatternOf[q])
    BY <2>1 DEF Starts
  <2>4. e \in Seen(r)' /\ (changes' = 0 => r \in calls'[e].visited /\ q = FirstPattern[r])
    BY DEF Comes
  <2>5. Begun(n)' /\ Fitting(n)' /\ Distinct(n)'
    BY <1>1, <2>2, <2>3, <2>4, NewSound
  <2>6. Observed(n)'
    BY <1>8, <2>2 DEF Observed, Type
  <2>7. ASSUME instances'[n].active, NEW i \in Ids, instances'[i].active,
               instances'[i].rule = instances'[n].rule,
               instances'[i].group = instances'[n].group
        PROVE  Type(n)' = "sequence" /\ instances'[n].group = NoGroup
    <3>1. /\ ins[i].active /\ ins[i].rule = r /\ ins[i].group = Key(e, PatternOf[q])
          /\ i \in DOMAIN ins
      BY <1>2, <2>2, <2>7
    <3>2. ins[i].state = "matching"
      BY <1>2, <1>7, <2>7 DEF Begun
    <3>3. Matching(ins, r, Key(e, PatternOf[q]))
      BY <3>1, <3>2 DEF Matching, Found
    <3> QED BY <2>1, <2>2, <3>3 DEF Starts, Type
  <2> QED BY <2>5, <2>6, <2>7
<1>9. \A i \in Ids' : Begun(i)' /\ Fitting(i)' /\ Distinct(i)' /\ Observed(i)'
  BY <1>7, <1>8
<1>10. OnePerGroup'
  <2>1. Ids' \subseteq Ids \cup {Len(ins) + 1}
    BY <1>2
  <2> QED BY <1>1, <1>4, <1>8, <2>1, GroupsKept DEF IInv
<1>11. ASSUME NEW d \in DOMAIN calls'
       PROVE  Suspended(d)'
  <2>1. CASE d = e
    BY <2>1
  <2>2. CASE d # e
    <3>1. d \in DOMAIN calls /\ calls'[d] = calls[d]
      BY <1>5, <2>2
    <3>2. ASSUME NEW i \in Ids
          PROVE  /\ instances'[i].matched[1] = instances[i].matched[1]
                 /\ \A k \in DOMAIN instances'[i].matched :
                       instances'[i].matched[k] \in Elements(instances[i].matched) \/
                       instances'[i].matched[k] # d
      <4>1. /\ instances'[i].matched[1] = instances[i].matched[1]
            /\ \A k \in DOMAIN instances'[i].matched :
                  \/ instances'[i].matched[k] \in Elements(instances[i].matched)
                  \/ instances'[i].matched[k] = e
        <5>1. Begun(i) /\ Turns(i, e, r, q, instances'[i])
          BY <1>3 DEF IInv
        <5> QED BY <1>1, <5>1, TurnMatched
      <4> QED BY <2>2, <4>1
    <3> QED BY <1>1, <1>4, <3>1, <3>2, SuspendedKept DEF IInv
  <2> QED BY <2>1, <2>2
<1> QED BY <1>2, <1>6, <1>9, <1>10, <1>11 DEF Settles

-----------------------------------------------------------------------------
(* Sequences. *)

\* The timers that a turn leaves are those of the instances that it leaves active.
LEMMA SweptCovered ==
    ASSUME TypeInv, TimeoutCovered, NEW e \in DOMAIN store, NEW q \in Pattern, NEW seen,
           NEW i \in Ids, Swept(seen, q, e)[i].active
    PROVE  i \in (armed \ Unarmed(seen, q, e)) \cup setting \cup due \/ Refused(i)
<1>1. instances[i].active /\ i \notin Unarmed(seen, q, e)
  BY SweptInstance DEF Added, Dropped
<1> QED BY <1>1 DEF TimeoutCovered, Timed

LEMMA SweptTurns ==
    ASSUME TypeInv, NEW e \in DOMAIN store, NEW r \in Rule, NEW q \in Pattern,
           PatternOf[q].type = "sequence", NEW seen, NEW i \in Ids,
           i \in seen => ReadyFor(e, r, i)
    PROVE  Turns(i, e, r, q, Swept(seen, q, e)[i])
BY SweptInstance DEF Turns

LEMMA NowSuspended ==
    ASSUME NEW e, NEW r \in Rule, NEW q \in Pattern, PatternOf[q].type = "sequence",
           e \in Seen(r)',
           calls'[e].rule = r, calls'[e].pattern = q,
           changes' = 0 => r \in calls'[e].visited /\ q = FirstPattern[r],
           \A i \in calls'[e].todo :
              /\ i \in Ids' /\ instances'[i].rule = r /\ HeldUp(e, r, i)'
              /\ InTurnNext(r, instances'[i].matched[1], e)
              /\ changes' = 0 => e \notin Elements(instances'[i].matched)
    PROVE  Suspended(e)'
<1>1. \A i \in calls'[e].todo : HeldUp(e, r, i)'
  OBVIOUS
<1>2. \A i \in calls'[e].todo : HeldUp(e, calls[e].rule, i)'
  BY <1>1 DEF HeldUp
<1>3. \A i \in calls'[e].todo : InTurn(calls[e].rule, Start(i), e)'
  BY DEF InTurnNext, InTurn, Start
<1>4. (e \in Seen(calls[e].rule))'
  BY DEF Seen
<1> QED BY <1>2, <1>3, <1>4 DEF Suspended

LEMMA SameLength ==
    ASSUME NEW S, NEW T, NEW s \in Seq(S), NEW t \in Seq(T), DOMAIN t = DOMAIN s
    PROVE  Len(t) = Len(s)
<1>1. /\ Len(s) \in Nat /\ Len(t) \in Nat
      /\ DOMAIN s = 1 .. Len(s) /\ DOMAIN t = 1 .. Len(t)
  OBVIOUS
<1>2. PICK m \in Nat, n \in Nat : m = Len(s) /\ n = Len(t) /\ 1 .. m = 1 .. n
  BY <1>1
<1>3. ~ (m < n) /\ ~ (n < m)
  <2>1. m < n => n \in 1 .. n /\ n \notin 1 .. m
    OBVIOUS
  <2>2. n < m => m \in 1 .. m /\ m \notin 1 .. n
    OBVIOUS
  <2> QED BY <1>2, <2>1, <2>2
<1> QED BY <1>2, <1>3

\* The call stops at instance hit, which e has completed.
LEMMA HitStep ==
    ASSUME IInv, Later, NEW e \in DOMAIN calls, NEW r \in Rule, NEW q \in Pattern,
           PatternOf[q].type = "sequence", Comes(e, r, q),
           NEW todo \in SUBSET Ids, \A i \in todo : ReadyFor(e, r, i),
           Runs(e) => r \in Elements(rules), calls[e].phase # "failed",
           NEW hit \in todo, Completes(hit, q, e),
           NEW seen \in SUBSET todo, seen = {i \in todo : i <= hit},
           instances' = Swept(seen, q, e), armed' = armed \ Unarmed(seen, q, e),
           reported' = Append(reported,
                              Report(instances[hit].rule, hit, Swept(seen, q, e)[hit].matched, e)),
           calls' = [calls EXCEPT ![e] = Goes(e, r, q, "matched", todo \ seen, 0)],
           UNCHANGED <<setting, due>>
    PROVE  Settles /\ TimeoutCovered'
<1>1. TypeInv /\ e \in DOMAIN store /\ hit \in Ids /\ hit \in seen /\ todo \subseteq Nat
  <2>1. TypeInv /\ hit \in Ids
    BY DEF IInv
  <2>2. hit \in Nat /\ \A i \in Ids : i \in Nat
    BY <2>1, InstanceTyped
  <2> QED BY <2>1, <2>2, CallTyped
<1>2. PICK ins \in Seq(Instance) :
         ins = Swept(seen, q, e) /\ Len(ins) = Len(instances) /\ DOMAIN ins = Ids
  BY <1>1, SweptTyped
<1>3. PICK c : c = Goes(e, r, q, "matched", todo \ seen, 0)
  OBVIOUS
<1>4. /\ c \in Call /\ calls[e].visited \subseteq c.visited
      /\ c.phase = "matched" /\ c.rule = r /\ c.pattern = q /\ c.todo = todo \ seen
  <2>1. PICK t \in SUBSET Nat : t = todo \ seen
    BY <1>1
  <2>2. calls[e] \in Call
    BY <1>1, CallTyped
  <2>3. Runs(e) => Passed(r) \subseteq Rule
    BY <1>1, PassedRules DEF Elements
  <2> QED BY <1>3, <2>1, <2>2, <2>3 DEF Goes, Call
<1>5. GoesOn(e, c)
  BY <1>3, <1>4 DEF GoesOn
<1>6. calls'[e] = c
  BY <1>1, <1>5, CallsKept
<1>7. \A i \in Ids : Turns(i, e, r, q, ins[i])
  BY <1>1, <1>2, SweptTurns
<1>8. PICK m \in Seq(Nat) : m = instances[hit].matched /\ m # <<>>
  BY <1>1, InstanceTyped DEF IInv, Begun
<1>9. PICK w : w = Append(m, e) /\ Extends(w, m, e)
  <2>1. e \in Nat
    BY <1>1, CallTyped
  <2> QED BY <1>8, <2>1, Appended
<1>t. PICK t \in Seq(Pattern) : t = instances[hit].taken /\ DOMAIN t = DOMAIN m
  BY <1>1, <1>8, InstanceTyped DEF IInv, Fitting, StepsFit
<1>u. PICK v : v = Append(t, q) /\ v[Len(m) + 1] = q
  <2>2. Len(t) = Len(m)
    BY <1>8, <1>t, SameLength
  <2>3. Append(t, q)[Len(t) + 1] = q
    BY <1>t
  <2> QED BY <2>2, <2>3
<1>10. Added(hit, q, e, ins[hit]) /\ ins[hit].state = "completed"
  <2>1. Added(hit, q, e, Swept(seen, q, e)[hit]) /\ Swept(seen, q, e)[hit].state = "completed"
    BY <1>1, SweptInstance
  <2> QED BY <1>2, <2>1
<1>11. /\ ins[hit].matched = w /\ ins[hit].taken = v /\ ins[hit].rule = r
       /\ instances[hit].rule = r
  BY <1>1, <1>8, <1>9, <1>t, <1>u, <1>10 DEF Added, ReadyFor
<1>12. PICK rep : rep = Report(r, hit, w, e)
  OBVIOUS
<1>13. rep.rule = r /\ rep.instance = hit /\ rep.events = w /\ rep.by = e
  BY <1>12 DEF Report
<1>14. reported' = Append(reported, rep)
  BY <1>2, <1>11, <1>12
<1>15. Fresh(rep)
  <2>1. hit \in Ids' /\ instances' = ins
    BY <1>1, <1>2 DEF Ids
  <2>2. instances[hit].state # "completed"
    BY DEF Completes
  <2>3. Len(w) = Len(m) + 1 /\ w[Len(m) + 1] = e /\ Len(m) + 1 = Len(PatternOf[q].events)
    BY <1>8, <1>9 DEF Extends, Completes
  <2>4. Caused(e, ins[hit])
    <3>1. e # 0
      BY <1>1 DEF TypeInv
    <3> QED BY <1>11, <1>u, <2>3, <3>1 DEF Caused
  <2> QED BY Zenon, <2>1, <2>2, <2>4, <1>10, <1>11, <1>13 DEF Fresh
<1>16. Suspended(e)'
  <2>1. PICK n \in DOMAIN reported' : reported'[n] = rep
    <3>1. reported \in Seq(Elements(reported))
      BY <1>1 DEF TypeInv
    <3>2. /\ Len(reported) + 1 \in DOMAIN Append(reported, rep)
          /\ Append(reported, rep)[Len(reported) + 1] = rep
      BY <3>1, AppendAny
    <3> QED BY <1>14, <3>2
  <2>2. ASSUME NEW i \in todo \ seen
        PROVE  /\ i \in Ids' /\ instances'[i] = instances[i] /\ instances[i].rule = r
               /\ HeldUp(e, r, i)' /\ InTurnNext(r, instances[i].matched[1], e)
               /\ changes' = 0 => e \notin Elements(instances[i].matched)
    <3>1. i \in Ids' /\ instances'[i] = instances[i]
      BY <1>2, <2>2 DEF Swept, Open, Ids
    <3>2. hit \in 1 .. i - 1
      <4>1. i \in Nat /\ hit \in Nat /\ hit \in 1 .. Len(instances)
        BY <1>1, <2>2, InstanceTyped
      <4>2. ~ (i <= hit)
        BY <2>2
      <4> QED BY <4>1, <4>2
    <3>3. HeldUp(e, r, i)'
      BY <2>1, <3>2, <1>13 DEF HeldUp
    <3> QED BY <2>2, <3>1, <3>3 DEF ReadyFor
  <2>3. ASSUME NEW i \in todo \ seen
        PROVE  InTurnNext(r, instances'[i].matched[1], e)
    BY <2>2
  <2>4. /\ calls'[e].rule = r /\ calls'[e].pattern = q /\ calls'[e].todo = todo \ seen
        /\ e \in Seen(r)' /\ (changes' = 0 => r \in calls'[e].visited /\ q = FirstPattern[r])
    BY <1>4, <1>6 DEF Comes
  <2>5. \A i \in calls'[e].todo :
           /\ i \in Ids' /\ instances'[i].rule = r /\ HeldUp(e, r, i)'
           /\ InTurnNext(r, instances'[i].matched[1], e)
           /\ changes' = 0 => e \notin Elements(instances'[i].matched)
    BY <2>2, <2>3, <2>4
  <2> QED BY <2>4, <2>5, NowSuspended
<1>17. TimeoutCovered'
  <2> SUFFICES ASSUME NEW i \in Ids', instances'[i].active
               PROVE  Timed(i)' \/ Refused(i)'
    BY DEF TimeoutCovered
  <2>1. \/ i \in Ids /\ i \in (armed \ Unarmed(seen, q, e)) \cup setting \cup due
        \/ i \in Ids /\ Refused(i)
    BY <1>1, <1>2, SweptCovered DEF IInv, Ids
  <2> QED BY <1>1, <1>5, <2>1, RefusedStays DEF Timed
<1>18. instances' = ins
  BY <1>2
<1> QED BY <1>2, <1>5, <1>7, <1>14, <1>15, <1>16, <1>17, <1>18, Turned

\* A call that is not in the loop waits for nothing in it.
LEMMA NotSuspended ==
    ASSUME NEW e, calls'[e].phase # "matched"
    PROVE  Suspended(e)'
BY DEF Suspended

LEMMA GoesElsewhere ==
    ASSUME TypeInv, NEW e \in DOMAIN calls, NEW r \in Rule, NEW q \in Pattern,
           Runs(e) => r \in Elements(rules), calls[e].phase # "failed",
           NEW ph \in {"next", "ending"}, NEW i \in Nat,
           calls' = [calls EXCEPT ![e] = Goes(e, r, q, ph, {}, i)]
    PROVE  /\ \E c : GoesOn(e, c)
           /\ Suspended(e)'
<1>1. PICK c : c = Goes(e, r, q, ph, {}, i)
  OBVIOUS
<1>2. c \in Call /\ calls[e].visited \subseteq c.visited /\ c.phase = ph
  <2>1. PICK t \in SUBSET Nat : t = {}
    OBVIOUS
  <2> QED BY <1>1, <2>1, GoesTyped
<1>3. GoesOn(e, c)
  BY <1>1, <1>2 DEF GoesOn
<1>4. calls'[e] = c
  BY <1>3, CallsKept
<1>5. Suspended(e)'
  BY <1>2, <1>4, NotSuspended
<1> QED BY <1>3, <1>5

\* The call has gone over all instances, and may start a new one.
LEMMA StartStep ==
    ASSUME IInv, Later, NEW e \in DOMAIN calls, NEW r \in Rule, NEW q \in Pattern,
           PatternOf[q].type = "sequence", Comes(e, r, q),
           NEW todo \in SUBSET Ids, \A i \in todo : ReadyFor(e, r, i),
           Runs(e) => r \in Elements(rules), calls[e].phase # "failed",
           StartSequence(e, r, q, Swept(todo, q, e), armed \ Unarmed(todo, q, e)),
           UNCHANGED due
    PROVE  Settles /\ TimeoutCovered'
<1>1. TypeInv /\ e \in DOMAIN store
  BY CallTyped DEF IInv
<1>2. PICK ins \in Seq(Instance) :
         ins = Swept(todo, q, e) /\ Len(ins) = Len(instances) /\ DOMAIN ins = Ids
  BY <1>1, SweptTyped
<1>3. PICK n \in Nat : n = Len(ins) + 1
  BY <1>2
<1>4. PICK timers : timers = armed \ Unarmed(todo, q, e)
  OBVIOUS
<1> DEFINE p == PatternOf[q]
           starts == /\ p.events # <<>> /\ Matches(e, p.events[1])
                     /\ Key(e, p) # NoGroup => ~ Matching(ins, r, Key(e, p))
<1>5. \/ /\ instances' = ins /\ armed' = timers
         /\ calls' = [calls EXCEPT ![e] = Goes(e, r, q, "next", {}, 0)]
         /\ UNCHANGED <<setting, reported>>
      \/ /\ starts /\ Len(p.events) = 1
         /\ instances' = Append(ins, NewInstance(r, q, e, "completed")) /\ armed' = timers
         /\ reported' = Append(reported, Report(r, n, <<e>>, e))
         /\ calls' = [calls EXCEPT ![e] = Goes(e, r, q, "ending", {}, 0)]
         /\ UNCHANGED setting
      \/ /\ starts
         /\ instances' = Append(ins, NewInstance(r, q, e, "matching"))
         /\ \/ armed' = timers \cup {n} /\ UNCHANGED setting
            \/ armed' = timers /\ setting' = setting \cup {n}
         /\ calls' = [calls EXCEPT ![e] = Goes(e, r, q, "ending", {}, n)]
         /\ UNCHANGED reported
  BY <1>2, <1>3, <1>4 DEF StartSequence
<1>6. (\E c : GoesOn(e, c)) /\ Suspended(e)'
  <2>1. PICK ph \in {"next", "ending"}, i \in Nat :
           calls' = [calls EXCEPT ![e] = Goes(e, r, q, ph, {}, i)]
    BY <1>5
  <2> QED BY <1>1, <2>1, GoesElsewhere
<1>7. starts => StepFits(e, 1, p)
  <2>1. p.events \in Seq(DOMAIN Covers)
    BY PatternsTyped
  <2>2. p.events # <<>> => 1 \in DOMAIN p.events
    BY <2>1
  <2> QED BY <2>2 DEF StepFits
<1>8. \A i \in Ids : Turns(i, e, r, q, ins[i])
  BY <1>1, <1>2, SweptTurns
<1>9. \/ instances' = ins
      \/ \E st : Starts(e, r, q, ins, st) /\ instances' = Append(ins, NewInstance(r, q, e, st))
  <2>1. starts => Starts(e, r, q, ins, "matching")
    BY <1>7 DEF Starts
  <2>2. starts /\ Len(p.events) = 1 => Starts(e, r, q, ins, "completed")
    BY <1>7 DEF Starts
  <2> QED BY <1>5, <2>1, <2>2
<1>10. /\ \A i \in Ids : i \in DOMAIN ins /\ i \in Ids' /\ instances'[i] = ins[i]
       /\ \/ Ids' = Ids
          \/ n \notin Ids /\ Ids' = Ids \cup {n}
  BY <1>1, <1>2, <1>3, <1>9, TurnInstances
<1>11. \/ reported' = reported
       \/ \E rep : reported' = Append(reported, rep) /\ Fresh(rep)
  <2>1. CASE /\ instances' = Append(ins, NewInstance(r, q, e, "completed"))
             /\ reported' = Append(reported, Report(r, n, <<e>>, e))
             /\ Len(p.events) = 1
    <3>1. PICK rep : rep = Report(r, n, <<e>>, e)
      OBVIOUS
    <3>2. rep.rule = r /\ rep.instance = n /\ rep.events = <<e>> /\ rep.by = e
      BY <3>1 DEF Report
    <3>3. PICK x \in Instance :
             /\ x = NewInstance(r, q, e, "completed") /\ x.rule = r /\ x.taken = <<q>>
             /\ x.matched = <<e>> /\ x.state = "completed"
      BY <1>1, NewTyped
    <3>4. instances' = Append(ins, x)
      BY <2>1, <3>3
    <3>5. instances'[n] = x /\ n \in Ids' /\ n \notin Ids
      BY <1>2, <1>3, <3>4 DEF Ids
    <3>6. Caused(e, x)
      <4>1. Len(<<e>>) = 1 /\ <<e>>[1] = e /\ <<q>>[1] = q /\ e # 0
        BY <1>1 DEF TypeInv
      <4> QED BY <2>1, <3>3, <4>1 DEF Caused
    <3>7. Fresh(rep)
      BY Zenon, <3>2, <3>3, <3>5, <3>6 DEF Fresh
    <3> QED BY <2>1, <3>1, <3>7
  <2> QED BY <1>5, <2>1
<1>12. TimeoutCovered'
  <2>1. ASSUME NEW i \in Ids, instances'[i].active
        PROVE  Timed(i)' \/ Refused(i)'
    <3>1. i \in timers \cup setting \cup due \/ Refused(i)
      BY <1>1, <1>2, <1>4, <1>10, <2>1, SweptCovered DEF IInv
    <3>2. Refused(i) => Refused(i)'
      BY <1>1, <1>6, RefusedStays
    <3>3. timers \subseteq armed' /\ setting \subseteq setting' /\ due' = due
      BY <1>5
    <3> QED BY <3>1, <3>2, <3>3 DEF Timed
  <2>2. ASSUME n \in Ids', n \notin Ids, instances'[n].active
        PROVE  Timed(n)'
    <3>1. instances' # ins
      BY <1>2, <2>2 DEF Ids
    <3>2. CASE instances' = Append(ins, NewInstance(r, q, e, "completed"))
      <4>1. PICK x \in Instance : x = NewInstance(r, q, e, "completed") /\ ~ x.active
        BY <1>1, NewTyped
      <4>2. instances'[n] = x
        BY <1>2, <1>3, <3>2, <4>1
      <4> QED BY <2>2, <4>1, <4>2
    <3>3. n \in armed' \cup setting' \/ instances' = Append(ins, NewInstance(r, q, e, "completed"))
      BY <1>5, <3>1
    <3> QED BY <3>2, <3>3 DEF Timed
  <2> QED BY <1>10, <2>1, <2>2 DEF TimeoutCovered
<1>13. PICK c : GoesOn(e, c)
  BY <1>6
<1> QED BY <1>2, <1>6, <1>8, <1>9, <1>11, <1>12, <1>13, Turned

LEMMA SweepStep ==
    ASSUME IInv, Later, NEW e \in DOMAIN calls, NEW r \in Rule, NEW q \in Pattern,
           PatternOf[q].type = "sequence", Comes(e, r, q),
           NEW todo \in SUBSET Ids, \A i \in todo : ReadyFor(e, r, i),
           Runs(e) => r \in Elements(rules), calls[e].phase # "failed",
           SweepSequence(e, r, q, todo), UNCHANGED due
    PROVE  Settles /\ TimeoutCovered'
<1>1. CASE StartSequence(e, r, q, Swept(todo, q, e), armed \ Unarmed(todo, q, e))
  BY <1>1, StartStep
<1>2. CASE ~ StartSequence(e, r, q, Swept(todo, q, e), armed \ Unarmed(todo, q, e))
  <2>1. PICK hit \in {i \in todo : Completes(i, q, e)}, seen \in SUBSET todo :
           /\ seen = {i \in todo : i <= hit}
           /\ instances' = Swept(seen, q, e) /\ armed' = armed \ Unarmed(seen, q, e)
           /\ reported' = Append(reported,
                 Report(instances[hit].rule, hit, Swept(seen, q, e)[hit].matched, e))
           /\ calls' = [calls EXCEPT ![e] = Goes(e, r, q, "matched", todo \ seen, 0)]
           /\ UNCHANGED setting
    BY ZenonT(40), <1>2 DEF SweepSequence, First
  <2>2. hit \in todo /\ Completes(hit, q, e)
    BY <2>1
  <2> QED BY Zenon, <2>1, <2>2, HitStep
<1> QED BY <1>1, <1>2

-----------------------------------------------------------------------------
(* The other steps. *)

\* A step that leaves the instances as they are, or deactivates some.
LEMMA Calmed ==
    ASSUME IInv, Later, instances' \in Seq(Instance), Ids' = Ids, CompletedStay,
           \A i \in Ids : Kept(i) /\ Unawaited(i),
           \A e \in DOMAIN calls' : calls'[e].phase = "matched" =>
              /\ e \in DOMAIN calls
              /\ calls[e].phase = "matched" /\ calls'[e].rule = calls[e].rule
              /\ calls'[e].pattern = calls[e].pattern
              /\ calls'[e].todo \subseteq calls[e].todo,
           \/ reported' = reported
           \/ \E rep : reported' = Append(reported, rep) /\ Fresh(rep)
    PROVE  Settles
<1>1. TypeInv
  BY DEF IInv
<1>2. ASSUME NEW i \in Ids'
      PROVE  Begun(i)' /\ Fitting(i)' /\ Distinct(i)' /\ Observed(i)'
  <2>1. i \in Ids /\ Begun(i) /\ Fitting(i) /\ Distinct(i) /\ Observed(i) /\ Kept(i)
    BY DEF IInv
  <2>2. Begun(i)' /\ Fitting(i)' /\ Distinct(i)'
    BY <1>1, <2>1, BegunKept, FittingKept, DistinctKept
  <2>3. /\ instances'[i].rule = instances[i].rule /\ instances'[i].group = instances[i].group
        /\ instances'[i].pattern = instances[i].pattern
        /\ instances'[i].matched[1] = instances[i].matched[1]
        /\ instances'[i].active => instances[i].active
    BY <2>1 DEF Kept
  <2>4. Observed(i)'
    BY <1>1, <2>1, <2>3, ObservedKept
  <2> QED BY <2>2, <2>4
<1>3. reported' \in Seq(Elements(reported')) /\ \A n \in DOMAIN reported' : Reported(n)'
  BY <1>1, ReportsKept DEF IInv
<1>4. Remain
  BY DEF Remain, Kept
<1>5. ASSUME NEW e \in DOMAIN calls'
      PROVE  Suspended(e)'
  <2>1. CASE calls'[e].phase # "matched"
    BY <2>1, NotSuspended
  <2>2. CASE calls'[e].phase = "matched"
    <3>1. e \in DOMAIN calls /\ Suspended(e)
      BY <2>2 DEF IInv
    <3>2. \A i \in Ids :
             /\ instances'[i].matched[1] = instances[i].matched[1]
             /\ \A k \in DOMAIN instances'[i].matched :
                   instances'[i].matched[k] \in Elements(instances[i].matched)
      BY DEF Kept, Elements
    <3> QED BY <1>1, <1>4, <2>2, <3>1, <3>2, SuspendedKept
  <2> QED BY <2>1, <2>2
<1>6. OnePerGroup'
  <2>1. Ids' \subseteq Ids \cup {0} /\ 0 \notin Ids' \ Ids
    OBVIOUS
  <2> QED BY <1>1, <1>4, <2>1, GroupsKept DEF IInv
<1> QED BY <1>2, <1>3, <1>5, <1>6 DEF Settles

\* What a turn does to the histories and to the calls.
LEMMA TurnLater ==
    ASSUME TypeInv, NEW e \in DOMAIN calls, NEW c, GoesOn(e, c),
           reported' = reported \/ \E rep : reported' = Append(reported, rep),
           \/ visits' = visits
           \/ \E r \in Rule, q \in Pattern :
                 visits' = [visits EXCEPT ![r] = Append(@, [event |-> e, pattern |-> q])],
           UNCHANGED <<store, changes>>
    PROVE  Later /\ visits' \in [Rule -> Seq(Visit)]
<1>1. \A d \in DOMAIN calls : calls[d].visited \subseteq calls'[d].visited
  BY CallsKept
<1>2. \A n \in DOMAIN reported : n \in DOMAIN reported' /\ reported'[n] = reported[n]
  <2>1. reported \in Seq(Elements(reported))
    BY DEF TypeInv
  <2>2. ASSUME NEW rep, reported' = Append(reported, rep)
        PROVE  \A n \in DOMAIN reported : n \in DOMAIN reported' /\ reported'[n] = reported[n]
    BY <2>1, <2>2, AppendAny
  <2> QED BY <2>2
<1>3. /\ visits' \in [Rule -> Seq(Visit)]
      /\ \A r \in Rule : \A k \in DOMAIN visits[r] :
            k \in DOMAIN visits'[r] /\ visits'[r][k] = visits[r][k]
  <2>1. CASE visits' = visits
    BY <2>1 DEF TypeInv
  <2>2. ASSUME NEW r \in Rule, NEW q \in Pattern,
               visits' = [visits EXCEPT ![r] = Append(@, [event |-> e, pattern |-> q])]
        PROVE  /\ visits' \in [Rule -> Seq(Visit)]
               /\ \A o \in Rule : \A k \in DOMAIN visits[o] :
                     k \in DOMAIN visits'[o] /\ visits'[o][k] = visits[o][k]
    <3>1. PICK S : S = Visit
      OBVIOUS
    <3>2. PICK x \in S : x = [event |-> e, pattern |-> q]
      BY <3>1, CallTyped DEF Visit
    <3>3. visits \in [Rule -> Seq(S)]
      BY <3>1 DEF TypeInv
    <3>4. /\ visits[r] \in Seq(S) /\ Append(visits[r], x) \in Seq(S)
          /\ \A k \in DOMAIN visits[r] :
                k \in DOMAIN Append(visits[r], x) /\ Append(visits[r], x)[k] = visits[r][k]
      BY <3>3
    <3>5. visits' = [visits EXCEPT ![r] = Append(visits[r], x)]
      BY <2>2, <3>2
    <3>6. visits'[r] = Append(visits[r], x) /\ \A o \in Rule \ {r} : visits'[o] = visits[o]
      BY <3>3, <3>5
    <3>7. visits' \in [Rule -> Seq(S)]
      BY <3>3, <3>4, <3>5
    <3> QED BY <3>1, <3>4, <3>6, <3>7
  <2> QED BY <2>1, <2>2
<1> QED BY <1>1, <1>2, <1>3 DEF Later

LEMMA SweepLater ==
    ASSUME TypeInv, NEW e \in DOMAIN calls, NEW r \in Rule, NEW q \in Pattern,
           Runs(e) => r \in Elements(rules), calls[e].phase # "failed",
           NEW todo \in SUBSET Ids, SweepSequence(e, r, q, todo)
    PROVE  /\ \E c : GoesOn(e, c) /\ (Runs(e) => r \in c.visited)
           /\ reported' = reported \/ \E rep : reported' = Append(reported, rep)
<1>1. PICK ph \in {"next", "matched", "ending"}, left \in SUBSET Ids, i \in Nat :
         calls' = [calls EXCEPT ![e] = Goes(e, r, q, ph, left, i)]
  <2>1. CASE StartSequence(e, r, q, Swept(todo, q, e), armed \ Unarmed(todo, q, e))
    <3>1. PICK n \in Nat : n = Len(Swept(todo, q, e)) + 1
      <4>1. Len(Swept(todo, q, e)) = Len(instances) /\ instances \in Seq(Instance)
        BY CallTyped, SweptTyped DEF TypeInv
      <4> QED BY <4>1
    <3> QED BY <2>1, <3>1 DEF StartSequence
  <2>2. CASE ~ StartSequence(e, r, q, Swept(todo, q, e), armed \ Unarmed(todo, q, e))
    <3>1. PICK hit \in todo :
             calls' = [calls EXCEPT
                          ![e] = Goes(e, r, q, "matched", todo \ {j \in todo : j <= hit}, 0)]
      BY <2>2 DEF SweepSequence, First
    <3> QED BY <3>1
  <2> QED BY <2>1, <2>2
<1>2. left \in SUBSET Nat
  BY InstanceTyped
<1>3. \E c : GoesOn(e, c) /\ (Runs(e) => r \in c.visited)
  <2>1. PICK c : c = Goes(e, r, q, ph, left, i)
    OBVIOUS
  <2>2. c \in Call /\ calls[e].visited \subseteq c.visited /\ (Runs(e) => r \in c.visited)
    BY <1>2, <2>1, GoesTyped
  <2> QED BY <1>1, <2>1, <2>2 DEF GoesOn
<1>4. reported' = reported \/ \E rep : reported' = Append(reported, rep)
  BY DEF SweepSequence, StartSequence
<1> QED BY <1>3, <1>4

\* The rule that a call comes to: it has not processed the event before.
LEMMA Comings ==
    ASSUME IInv, NEW e \in DOMAIN calls, NEW r \in Rule, NEW q \in Pattern,
           r \notin calls[e].visited, changes = 0 => q = FirstPattern[r],
           visits' = [visits EXCEPT ![r] = Append(@, [event |-> e, pattern |-> q])],
           UNCHANGED changes, NEW c, GoesOn(e, c), r \in c.visited
    PROVE  /\ Comes(e, r, q)
           /\ visits[r] \in Seq(Visit)
           /\ visits'[r] = Append(visits[r], [event |-> e, pattern |-> q])
           /\ \A i \in Ids : instances[i].rule = r => ReadyFor(e, r, i)
<1>1. TypeInv /\ e \in DOMAIN store
  BY CallTyped DEF IInv
<1>2. PICK v \in Seq(Visit) : v = visits[r]
  BY <1>1 DEF TypeInv
<1>x. PICK x \in Visit : x = [event |-> e, pattern |-> q] /\ x.event = e
  BY <1>1 DEF Visit
<1>3. /\ visits'[r] = Append(v, x)
      /\ \A o \in Rule \ {r} : visits'[o] = visits[o]
  BY <1>1, <1>2, <1>x DEF TypeInv
<1>4. PICK w : w = Append(v, x)
  OBVIOUS
<1>5. /\ Len(v) + 1 \in DOMAIN w /\ w[Len(v) + 1] = x
      /\ \A j \in DOMAIN v : j \in DOMAIN w /\ w[j] = v[j] /\ j < Len(v) + 1
  BY <1>1, <1>4
<1>6. ASSUME NEW i \in Ids, instances[i].rule = r
      PROVE  ReadyFor(e, r, i)
  <2>1. PICK m \in Seq(Nat) : m = instances[i].matched
    BY <1>1, InstanceTyped
  <2>2. m # <<>> /\ \A k \in DOMAIN m : m[k] \in Seen(r)
    BY <1>6, <2>1 DEF IInv, Begun
  <2>3. 1 \in DOMAIN m /\ Len(m) \in DOMAIN m
    BY <2>1, <2>2
  <2>4. ASSUME NEW y \in Seen(r)
        PROVE  InTurnNext(r, y, e)
    <3>1. PICK j \in DOMAIN v : v[j].event = y
      BY <1>2 DEF Seen
    <3>2. /\ j \in DOMAIN w /\ Len(v) + 1 \in DOMAIN w /\ j < Len(v) + 1
          /\ w[j].event = y /\ w[Len(v) + 1].event = e
      BY <1>5, <1>x, <3>1
    <3>3. visits'[r] = w
      BY <1>3, <1>4
    <3> QED BY Zenon, <3>2, <3>3 DEF InTurnNext
  <2>5. InTurnNext(r, m[1], e) /\ InTurnNext(r, m[Len(m)], e)
    BY <2>2, <2>3, <2>4
  <2>6. ASSUME changes = 0
        PROVE  e \notin Elements(m)
    <3>1. \A k \in DOMAIN m : r \in calls[m[k]].visited
      BY <1>6, <2>1, <2>6 DEF IInv, Distinct
    <3> QED BY <3>1 DEF Elements
  <2> QED BY <1>6, <2>1, <2>5, <2>6 DEF ReadyFor
<1>7. e \in Seen(r)'
  BY <1>3, <1>4, <1>5, <1>x DEF Seen
<1>8. calls'[e] = c
  BY <1>1, CallsKept
<1>9. Comes(e, r, q)
  BY <1>2, <1>3, <1>7, <1>8, <1>x DEF Comes
<1> QED BY <1>2, <1>3, <1>6, <1>9, <1>x

LEMMA SequenceStep ==
    ASSUME IInv, Later, NEW e \in DOMAIN calls, Runs(e), NEW r \in Rule, r \in Elements(rules),
           NEW q \in Pattern, changes = 0 => q = FirstPattern[r],
           r \notin calls[e].visited, ProcessSequence(e, r, q),
           visits' = [visits EXCEPT ![r] = Append(@, [event |-> e, pattern |-> q])],
           UNCHANGED <<due, changes>>
    PROVE  Settles /\ TimeoutCovered'
<1>1. PICK todo \in SUBSET Ids : todo = Found(instances, r, Key(e, PatternOf[q]))
  BY DEF Found, Ids
<1>2. PatternOf[q].type = "sequence" /\ SweepSequence(e, r, q, todo)
  BY <1>1 DEF ProcessSequence
<1>3. TypeInv /\ calls[e].phase # "failed"
  BY DEF IInv, Runs
<1>4. PICK c : GoesOn(e, c) /\ r \in c.visited
  BY <1>2, <1>3, SweepLater
<1>5. Comes(e, r, q) /\ \A i \in todo : ReadyFor(e, r, i)
  BY <1>1, <1>4, Comings DEF Found
<1> QED BY <1>2, <1>3, <1>5, SweepStep

LEMMA WindowStep ==
    ASSUME IInv, Later, NEW e \in DOMAIN calls, Runs(e), NEW r \in Rule, r \in Elements(rules),
           NEW q \in Pattern, changes = 0 => q = FirstPattern[r],
           r \notin calls[e].visited, ProcessCount(e, r, q) \/ ProcessAggregate(e, r, q),
           visits' = [visits EXCEPT ![r] = Append(@, [event |-> e, pattern |-> q])],
           UNCHANGED <<due, changes>>
    PROVE  Settles /\ TimeoutCovered'
<1>1. TypeInv /\ e \in DOMAIN store
  BY CallTyped DEF IInv
<1>2. PICK met, these :
         ReportWindow(e, r, q, met, these) /\ PatternOf[q].type \in {"count", "aggregate"}
  BY DEF ProcessCount, ProcessAggregate
<1>3. UNCHANGED <<instances, armed, setting, due>>
  BY <1>2 DEF ReportWindow
<1>4. PICK c : /\ c \in {Goes(e, r, q, "next", {}, 0), Goes(e, r, q, "ending", {}, 0)}
               /\ calls' = [calls EXCEPT ![e] = c]
  BY <1>2 DEF ReportWindow
<1>5. GoesOn(e, c) /\ c.phase # "matched" /\ r \in c.visited
  <2>1. ASSUME NEW ph \in {"next", "ending"}, c = Goes(e, r, q, ph, {}, 0)
        PROVE  /\ c \in Call /\ calls[e].visited \subseteq c.visited /\ c.phase = ph
               /\ r \in c.visited
    <3>1. calls[e] \in Call /\ Passed(r) \subseteq Rule /\ r \in Passed(r)
      BY <1>1, CallTyped, PassedRules DEF Elements
    <3> QED BY <2>1, <3>1 DEF Goes, Call
  <2> QED BY <1>4, <2>1 DEF GoesOn, Runs
<1>6. Comes(e, r, q)
  BY <1>5, Comings
<1>7. ASSUME NEW i \in Ids
      PROVE  Kept(i) /\ Unawaited(i)
  <2>1. instances[i].rule \in Rule
    BY <1>1, InstanceTyped
  <2>2. visits'[instances[i].rule] = visits[instances[i].rule]
           \/ visits'[instances[i].rule] = Append(visits[instances[i].rule],
                                                  [event |-> e, pattern |-> q])
    BY <1>6, <2>1 DEF Comes
  <2>3. Unawaited(i)
    BY <1>1, <1>2, <2>2 DEF Unawaited
  <2>4. Kept(i)
    BY <1>3 DEF Kept, Ids
  <2> QED BY <2>3, <2>4
<1>8. \A d \in DOMAIN calls' : calls'[d].phase = "matched" =>
         /\ d \in DOMAIN calls
         /\ calls[d].phase = "matched" /\ calls'[d].rule = calls[d].rule
         /\ calls'[d].pattern = calls[d].pattern
         /\ calls'[d].todo \subseteq calls[d].todo
  BY <1>1, <1>5, CallsKept
<1>9. \/ reported' = reported
      \/ \E rep : reported' = Append(reported, rep) /\ Fresh(rep)
  <2>1. PICK rep : rep = Report(r, 0, these, e)
    OBVIOUS
  <2>2. Fresh(rep)
    BY <2>1 DEF Fresh, Report
  <2> QED BY <1>2, <2>1, <2>2 DEF ReportWindow
<1>10. CompletedStay /\ instances' \in Seq(Instance) /\ Ids' = Ids
  BY <1>1, <1>3 DEF CompletedStay, Ids, TypeInv
<1>11. TimeoutCovered'
  BY <1>1, <1>3, <1>5, RefusedStays DEF IInv, TimeoutCovered, Ids, Timed
<1> QED BY <1>7, <1>8, <1>9, <1>10, <1>11, Calmed

\* Absences: a new instance has seen nothing that it waits for.
LEMMA AbsenceObserves ==
    ASSUME TypeInv, Later, NEW e \in DOMAIN store, NEW r \in Rule, NEW q \in Pattern,
           NEW v \in Seq(Visit), v = visits[r],
           visits'[r] = Append(v, [event |-> e, pattern |-> q]),
           NEW i \in Ids', instances'[i].rule = r, instances'[i].matched = <<e>>
    PROVE  Observed(i)'
<1>1. PICK x \in Visit : x = [event |-> e, pattern |-> q] /\ x.event = e
  BY DEF Visit
<1>2. PICK w : w = Append(v, x)
  OBVIOUS
<1>3. /\ DOMAIN w = 1 .. Len(v) + 1 /\ w[Len(v) + 1] = x /\ Len(v) \in Nat
  BY <1>1, <1>2
<1> SUFFICES ASSUME instances'[i].active, NEW k \in Awaited(i)'
             PROVE  FALSE
  BY DEF Observed, Type
<1>4. visits'[r] = w /\ <<e>>[1] = e
  BY <1>1, <1>2
<1>5. k \in DOMAIN w /\ \A j \in DOMAIN w : w[j].event = e => j < k
  BY <1>4 DEF Awaited
<1>6. Len(v) + 1 \in DOMAIN w /\ w[Len(v) + 1].event = e
  BY <1>1, <1>3
<1>7. Len(v) + 1 < k
  BY <1>5, <1>6
<1> QED BY <1>3, <1>5, <1>7

LEMMA AbsenceStep ==
    ASSUME IInv, Later, NEW e \in DOMAIN calls, Runs(e), NEW r \in Rule, r \in Elements(rules),
           NEW q \in Pattern, changes = 0 => q = FirstPattern[r],
           r \notin calls[e].visited, ProcessAbsence(e, r, q),
           visits' = [visits EXCEPT ![r] = Append(@, [event |-> e, pattern |-> q])],
           UNCHANGED <<store, due, changes>>
    PROVE  Settles /\ TimeoutCovered'
<1>1. TypeInv /\ e \in DOMAIN store
  BY CallTyped DEF IInv
<1> DEFINE p == PatternOf[q]
<1>2. PICK ended \in SUBSET Ids :
         ended = {i \in Found(instances, r, Key(e, p)) :
                     instances[i].state = "matching" /\ Matches(e, p.expected)}
  BY DEF Found, Ids
<1>3. PICK ins : ins = [i \in Ids |-> IF i \in ended THEN Ended(i, "expired") ELSE instances[i]]
  OBVIOUS
<1>4. /\ ins \in Seq(Instance) /\ Len(ins) = Len(instances) /\ DOMAIN ins = Ids
      /\ \A i \in Ids : /\ i \in ended => Dropped(i, ins[i])
                        /\ i \notin ended => ins[i] = instances[i]
  <2>1. instances \in Seq(Instance) /\ Ids = 1 .. Len(instances) /\ Len(instances) \in Nat
    BY <1>1 DEF TypeInv, Ids
  <2>2. ASSUME NEW i \in Ids
        PROVE  ins[i] \in Instance /\ (i \in ended => Dropped(i, ins[i]))
    <3>1. instances[i] \in Instance
      BY <1>1, InstanceTyped
    <3>2. CASE i \in ended
      <4>1. ins[i] = Ended(i, "expired") /\ instances[i].state = "matching"
        BY <1>2, <1>3, <3>2
      <4> QED BY <3>1, <4>1 DEF Ended, Instance, Dropped
    <3> QED BY <1>3, <3>1, <3>2
  <2>3. ins \in [1 .. Len(instances) -> Instance]
    BY <1>3, <2>1, <2>2
  <2>4. ins \in Seq(Instance) /\ Len(ins) = Len(instances) /\ DOMAIN ins = 1 .. Len(instances)
    BY <2>1, <2>3
  <2> QED BY <1>3, <2>1, <2>2, <2>4
<1>5. PICK n \in Nat : n = Len(ins) + 1
  BY <1>4
<1>6. PICK timers : timers = armed \ ended
  OBVIOUS
<1>7. /\ p.type = "absence" /\ UNCHANGED reported
      /\ \/ /\ instances' = ins /\ armed' = timers
            /\ calls' = [calls EXCEPT ![e] = Goes(e, r, q, "next", {}, 0)]
            /\ UNCHANGED setting
         \/ /\ Matches(e, p.after) /\ ~ Matching(ins, r, Key(e, p))
            /\ instances' = Append(ins, NewInstance(r, q, e, "matching"))
            /\ \/ armed' = timers \cup {n} /\ UNCHANGED setting
               \/ armed' = timers /\ setting' = setting \cup {n}
            /\ calls' = [calls EXCEPT ![e] = Goes(e, r, q, "ending", {}, n)]
  BY <1>2, <1>3, <1>5, <1>6 DEF ProcessAbsence
<1>8. PICK c : GoesOn(e, c) /\ c.phase # "matched" /\ r \in c.visited
  <2>1. PICK ph \in {"next", "ending"}, i \in Nat :
           calls' = [calls EXCEPT ![e] = Goes(e, r, q, ph, {}, i)]
    BY <1>5, <1>7
  <2>2. calls[e] \in Call /\ Passed(r) \subseteq Rule /\ r \in Passed(r)
    BY <1>1, CallTyped, PassedRules DEF Elements
  <2>3. PICK c : c = Goes(e, r, q, ph, {}, i)
    OBVIOUS
  <2>4. /\ c \in Call /\ calls[e].visited \subseteq c.visited /\ c.phase = ph
        /\ r \in c.visited
    BY <2>2, <2>3 DEF Goes, Call
  <2> QED BY <2>1, <2>3, <2>4 DEF GoesOn, Runs
<1>9. /\ visits[r] \in Seq(Visit)
      /\ visits'[r] = Append(visits[r], [event |-> e, pattern |-> q])
      /\ Comes(e, r, q)
  BY <1>8, Comings
<1>s. Suspended(e)'
  <2>1. calls'[e] = c
    BY <1>1, <1>8, CallsKept
  <2> QED BY <1>8, <2>1, NotSuspended
<1>10. \A i \in Ids : Turns(i, e, r, q, ins[i])
  BY <1>4 DEF Turns
<1>11. \/ instances' = ins
       \/ \E st : Starts(e, r, q, ins, st) /\ instances' = Append(ins, NewInstance(r, q, e, st))
  <2>1. Matches(e, p.after) /\ ~ Matching(ins, r, Key(e, p)) => Starts(e, r, q, ins, "matching")
    BY <1>7 DEF Starts, StepFits
  <2> QED BY <1>7, <2>1
<1>12. /\ \A i \in Ids : i \in DOMAIN ins /\ i \in Ids' /\ instances'[i] = ins[i]
       /\ \/ Ids' = Ids
          \/ /\ n \notin Ids
             /\ Ids' = Ids \cup {n}
             /\ \E st : /\ Starts(e, r, q, ins, st) /\ st \in {"matching", "completed"}
                        /\ instances'[n] = NewInstance(r, q, e, st)
  BY SMTT(40), <1>1, <1>4, <1>5, <1>7, <1>11, TurnInstances
<1>13. ASSUME NEW i \in Ids'
       PROVE  Observed(i)'
  <2>1. CASE i \in Ids
    <3>1. instances'[i] = ins[i] /\ Begun(i) /\ Observed(i)
      BY <1>12, <2>1 DEF IInv
    <3>2. ins[i] = instances[i] \/ Dropped(i, ins[i])
      BY <1>4, <2>1
    <3>3. Kept(i)
      BY <2>1, <3>1, <3>2, TurnKept
    <3>4. CASE Unawaited(i)
      <4>1. /\ instances'[i].rule = instances[i].rule /\ instances'[i].group = instances[i].group
            /\ instances'[i].pattern = instances[i].pattern
            /\ instances'[i].matched[1] = instances[i].matched[1]
            /\ instances'[i].active => instances[i].active
        BY <3>3 DEF Kept
      <4> QED BY <1>1, <2>1, <3>1, <3>4, <4>1, ObservedKept
    <3>5. CASE ~ Unawaited(i)
      <4>1. /\ instances[i].rule = r /\ Matches(e, p.expected)
            /\ Key(e, p) \in {NoGroup, instances[i].group}
        <5>1. instances[i].rule \in Rule
          BY <1>1, <2>1, InstanceTyped
        <5> QED BY <1>1, <1>7, <1>9, <3>5, <5>1 DEF Unawaited, Comes
      <4>2. ~ instances'[i].active
        <5> SUFFICES ASSUME instances'[i].active
                     PROVE  FALSE
          OBVIOUS
        <5>1. i \notin ended /\ instances[i].active /\ instances[i].state = "matching"
          BY <1>4, <2>1, <3>1 DEF Dropped, Begun
        <5>2. i \in Found(instances, r, Key(e, p))
          BY <2>1, <4>1, <5>1 DEF Found, Ids
        <5> QED BY <1>2, <4>1, <5>1, <5>2
      <4> QED BY <4>2 DEF Observed
    <3> QED BY <3>4, <3>5
  <2>2. CASE i \notin Ids
    <3>1. PICK st \in {"matching", "completed"} : instances'[i] = NewInstance(r, q, e, st)
      BY <1>12, <2>2
    <3>2. instances'[i].rule = r /\ instances'[i].matched = <<e>>
      BY <1>1, <3>1, NewTyped
    <3> QED BY <1>1, <1>9, <3>2, AbsenceObserves
  <2> QED BY <2>1, <2>2
<1>14. TimeoutCovered'
  <2>1. ASSUME NEW i \in Ids, instances'[i].active
        PROVE  Timed(i)' \/ Refused(i)'
    <3>1. i \notin ended /\ instances[i].active
      BY <1>4, <1>12, <2>1 DEF Dropped
    <3>2. i \in timers \cup setting \cup due \/ Refused(i)
      BY <1>6, <3>1 DEF IInv, TimeoutCovered, Timed
    <3>3. timers \subseteq armed' /\ setting \subseteq setting' /\ due' = due
      BY <1>7
    <3>4. Refused(i) => Refused(i)'
      BY <1>1, <1>8, RefusedStays
    <3> QED BY <3>2, <3>3, <3>4 DEF Timed
  <2>2. ASSUME n \in Ids', n \notin Ids
        PROVE  Timed(n)'
    BY <1>4, <1>7, <2>2 DEF Ids, Timed
  <2> QED BY <1>12, <2>1, <2>2 DEF TimeoutCovered
<1> QED BY <1>4, <1>7, <1>8, <1>s, <1>9, <1>10, <1>11, <1>13, <1>14, Turned

-----------------------------------------------------------------------------
(* Each step keeps the invariant. *)

LEMMA Settled ==
    ASSUME Settles, TimeoutCovered', rules' \in Seq(Rule), store' \in Seq(Stored),
           calls' \in Seq(Call), Len(calls') = Len(store'), pattern' \in [Rule -> Pattern],
           (visits \in [Rule -> Seq(Visit)])', changes' \in Nat, clock' \in Nat,
           changes' = 0 => pattern' = FirstPattern
    PROVE  IInv'
BY DEF IInv, Settles, TypeInv

\* The same for a step that stores no event and changes no rule.
LEMMA SettledHere ==
    ASSUME TypeInv, Settles, TimeoutCovered', calls' \in Seq(Call), Len(calls') = Len(calls),
           visits' \in [Rule -> Seq(Visit)], clock' \in Nat,
           UNCHANGED <<rules, pattern, store, changes>>
    PROVE  IInv'
<1>1. (visits \in [Rule -> Seq(Visit)])'
  BY DEF Visit
<1> QED BY <1>1, Settled DEF TypeInv

LEMMA ProcessRuleKeeps ==
    ASSUME IInv, NEW e \in DOMAIN calls, ProcessRule(e)
    PROVE  IInv'
<1>1. TypeInv
  BY DEF IInv
<1>2. PICK k, r, q :
         /\ k \in DOMAIN rules /\ r = rules[k] /\ q = pattern[r] /\ r \notin calls[e].visited
         /\ \/ ProcessSequence(e, r, q) \/ ProcessAbsence(e, r, q)
            \/ ProcessCount(e, r, q) \/ ProcessAggregate(e, r, q)
         /\ visits' = [visits EXCEPT ![r] = Append(@, [event |-> e, pattern |-> q])]
  BY DEF ProcessRule, First, Visitable
<1>3. /\ r \in Rule /\ r \in Elements(rules) /\ q \in Pattern
      /\ changes = 0 => q = FirstPattern[r]
  BY <1>1, <1>2 DEF TypeInv, Elements
<1>4. Runs(e) /\ UNCHANGED <<rules, pattern, store, due, changes, clock>>
  BY DEF ProcessRule
<1>5. /\ \E c : GoesOn(e, c)
      /\ reported' = reported \/ \E rep : reported' = Append(reported, rep)
  <2> calls[e].phase # "failed"
    BY <1>4 DEF Runs
  <2>1. CASE ProcessSequence(e, r, q)
    <3>1. PICK todo \in SUBSET Ids : todo = Found(instances, r, Key(e, PatternOf[q]))
      BY DEF Found, Ids
    <3> QED BY <1>1, <1>3, <2>1, <3>1, SweepLater DEF ProcessSequence
  <2>2. CASE ~ ProcessSequence(e, r, q)
    <3>1. PICK ph \in {"next", "ending"}, i \in Nat :
             calls' = [calls EXCEPT ![e] = Goes(e, r, q, ph, {}, i)]
      <4>1. CASE ProcessAbsence(e, r, q)
        <5>1. PICK ins :
                 \/ calls' = [calls EXCEPT ![e] = Goes(e, r, q, "next", {}, 0)]
                 \/ /\ calls' = [calls EXCEPT ![e] = Goes(e, r, q, "ending", {}, Len(ins) + 1)]
                    /\ Len(ins) = Len(instances)
          <6>1. PICK ended : \E ins :
                   /\ ins = [i \in Ids |-> IF i \in ended THEN Ended(i, "expired")
                                           ELSE instances[i]]
                   /\ \/ calls' = [calls EXCEPT ![e] = Goes(e, r, q, "next", {}, 0)]
                      \/ calls' = [calls EXCEPT ![e] = Goes(e, r, q, "ending", {}, Len(ins) + 1)]
            BY <4>1 DEF ProcessAbsence
          <6>2. PICK ins :
                   /\ ins = [i \in Ids |-> IF i \in ended THEN Ended(i, "expired")
                                           ELSE instances[i]]
                   /\ \/ calls' = [calls EXCEPT ![e] = Goes(e, r, q, "next", {}, 0)]
                      \/ calls' = [calls EXCEPT ![e] = Goes(e, r, q, "ending", {}, Len(ins) + 1)]
            BY <6>1
          <6>3. Ids = 1 .. Len(instances) /\ Len(instances) \in Nat
            BY <1>1 DEF Ids, TypeInv
          <6>4. Len(ins) = Len(instances)
            BY <6>2, <6>3
          <6> QED BY <6>2, <6>4
        <5>2. Len(instances) + 1 \in Nat
          BY <1>1 DEF TypeInv
        <5> QED BY <5>1, <5>2
      <4>2. CASE ProcessCount(e, r, q) \/ ProcessAggregate(e, r, q)
        BY <4>2 DEF ProcessCount, ProcessAggregate, ReportWindow
      <4> QED BY <1>2, <1>3, <2>2, <4>1, <4>2
    <3>2. \E c : GoesOn(e, c)
      BY Zenon, <1>1, <1>3, <1>4, <3>1, GoesElsewhere
    <3>3. reported' = reported \/ \E rep : reported' = Append(reported, rep)
      BY Zenon, <1>2, <1>3, <2>2 DEF ProcessAbsence, ProcessCount, ProcessAggregate, ReportWindow
    <3> QED BY <3>2, <3>3
  <2> QED BY <2>1, <2>2
<1>6. Later /\ visits' \in [Rule -> Seq(Visit)]
  BY <1>1, <1>2, <1>3, <1>4, <1>5, TurnLater
<1>7. calls' \in Seq(Call) /\ Len(calls') = Len(calls)
  BY <1>1, <1>5, CallsKept
<1>8. Settles /\ TimeoutCovered'
  BY <1>2, <1>3, <1>4, <1>6, SequenceStep, AbsenceStep, WindowStep
<1>9. clock' \in Nat
  BY <1>1, <1>4 DEF TypeInv
<1> QED BY <1>1, <1>4, <1>6, <1>7, <1>8, <1>9, SettledHere

LEMMA MatchReturnsKeeps ==
    ASSUME IInv, NEW e \in DOMAIN calls, MatchReturns(e)
    PROVE  IInv'
<1>1. TypeInv
  BY DEF IInv
<1>2. PICK r, q, todo : r = calls[e].rule /\ q = calls[e].pattern /\ todo = calls[e].todo
  OBVIOUS
<1>3. /\ calls[e].phase = "matched" /\ SweepSequence(e, r, q, todo)
      /\ UNCHANGED <<rules, pattern, store, due, visits, changes, clock>>
  BY <1>2 DEF MatchReturns
<1>4. /\ r \in Rule /\ q \in Pattern /\ PatternOf[q].type = "sequence"
      /\ e \in Seen(r)
      /\ changes = 0 => r \in calls[e].visited /\ q = FirstPattern[r]
      /\ \A i \in todo :
            /\ i \in Ids /\ instances[i].rule = r
            /\ HeldUp(e, r, i) /\ InTurn(r, instances[i].matched[1], e)
            /\ changes = 0 => e \notin Elements(instances[i].matched)
  BY <1>2, <1>3 DEF IInv, Suspended, Start
<1>5. ~ Runs(e) /\ calls[e].phase # "failed"
  BY <1>3 DEF Runs
<1>6. todo \in SUBSET Ids
  BY <1>4
<1>7. /\ \E c : GoesOn(e, c)
      /\ reported' = reported \/ \E rep : reported' = Append(reported, rep)
  BY <1>1, <1>3, <1>4, <1>5, <1>6, SweepLater
<1>8. Later /\ visits' \in [Rule -> Seq(Visit)]
  BY <1>1, <1>3, <1>7, TurnLater
<1>9. calls' \in Seq(Call) /\ Len(calls') = Len(calls) /\ calls[e].visited \subseteq calls'[e].visited
  BY <1>1, <1>7, CallsKept
<1>10. ASSUME NEW i \in todo
       PROVE  ReadyFor(e, r, i)
  <2>1. ASSUME NEW x, InTurn(r, x, e)
        PROVE  InTurnNext(r, x, e)
    BY <1>3, <2>1 DEF InTurn, InTurnNext
  <2> QED BY <1>3, <1>4, <2>1 DEF ReadyFor
<1>11. Comes(e, r, q)
  BY <1>3, <1>4, <1>9 DEF Comes, Seen
<1>12. Settles /\ TimeoutCovered'
  BY <1>3, <1>4, <1>5, <1>6, <1>8, <1>10, <1>11, SweepStep
<1>13. clock' \in Nat
  BY <1>1, <1>3 DEF TypeInv
<1> QED BY <1>1, <1>3, <1>8, <1>9, <1>12, <1>13, SettledHere

LEMMA KeptAsItIs ==
    ASSUME NEW i \in Ids, UNCHANGED <<instances, visits>>
    PROVE  Kept(i) /\ Unawaited(i)
BY DEF Kept, Unawaited, Ids

\* A call that goes on to the next rule, or ends, or fails and with it the setTimer that it
\* waits for.
LEMMA CallMoves ==
    ASSUME IInv, NEW e \in DOMAIN calls, calls[e].phase # "failed",
           NEW ph \in {"next", "over", "failed"},
           calls' = [calls EXCEPT ![e].phase = ph],
           setting' = IF ph = "failed" THEN setting \ {calls[e].waits} ELSE setting,
           UNCHANGED <<rules, pattern, store, instances, armed, due, reported, visits,
                       changes, clock>>
    PROVE  IInv'
<1>1. TypeInv
  BY DEF IInv
<1>2. PICK c : c = [calls[e] EXCEPT !.phase = ph]
  OBVIOUS
<1>3. /\ c \in Call /\ c.visited = calls[e].visited /\ c.phase = ph
      /\ c.waits = calls[e].waits
  <2>1. calls[e] \in Call
    BY <1>1, CallTyped
  <2> QED BY <1>2, <2>1 DEF Call
<1>4. GoesOn(e, c)
  BY <1>2, <1>3 DEF GoesOn
<1>5. /\ calls' \in Seq(Call) /\ Len(calls') = Len(calls)
      /\ DOMAIN calls' = DOMAIN calls /\ calls'[e] = c
      /\ \A d \in DOMAIN calls : d # e => calls'[d] = calls[d]
  BY <1>1, <1>4, CallsKept
<1>6. Later /\ visits' \in [Rule -> Seq(Visit)]
  BY <1>1, <1>4, TurnLater
<1>7. \A i \in Ids : Kept(i) /\ Unawaited(i)
  BY KeptAsItIs
<1>8. CompletedStay /\ Ids' = Ids /\ instances' \in Seq(Instance)
  BY <1>1 DEF CompletedStay, Ids, TypeInv
<1>9. Settles
  BY <1>3, <1>5, <1>6, <1>7, <1>8, Calmed
<1>10. ASSUME NEW i \in Ids', instances'[i].active
       PROVE  Timed(i)' \/ Refused(i)'
  <2>1. Timed(i) \/ Refused(i)
    BY <1>10 DEF IInv, TimeoutCovered, Ids
  <2>2. CASE Refused(i)
    BY <1>1, <1>4, <2>2, RefusedStays
  <2>3. CASE Timed(i) /\ (ph # "failed" \/ i # calls[e].waits)
    BY <2>3 DEF Timed
  <2>4. CASE ph = "failed" /\ i = calls[e].waits
    BY <1>3, <1>5, <2>4 DEF Refused
  <2> QED BY <2>1, <2>2, <2>3, <2>4
<1>11. TimeoutCovered'
  BY <1>10 DEF TimeoutCovered
<1>12. clock' \in Nat
  BY <1>1 DEF TypeInv
<1> QED BY <1>1, <1>5, <1>6, <1>9, <1>11, <1>12, SettledHere

\* The clock and the timers.
LEMMA TimersMove ==
    ASSUME IInv, \A i \in Ids : Timed(i) => Timed(i)' \/ ~ instances[i].active, clock' \in Nat,
           UNCHANGED <<rules, pattern, store, calls, instances, reported, visits, changes>>
    PROVE  IInv'
<1>1. TypeInv
  BY DEF IInv
<1>2. Later
  BY DEF Later
<1>3. \A i \in Ids : Kept(i) /\ Unawaited(i)
  BY KeptAsItIs
<1>4. CompletedStay /\ Ids' = Ids /\ instances' \in Seq(Instance)
  BY <1>1 DEF CompletedStay, Ids, TypeInv
<1>5. Settles
  BY <1>2, <1>3, <1>4, Calmed
<1>6. TimeoutCovered'
  BY <1>4 DEF IInv, TimeoutCovered, Refused
<1>7. /\ calls' \in Seq(Call) /\ Len(calls') = Len(calls)
      /\ visits' \in [Rule -> Seq(Visit)]
  BY <1>1 DEF TypeInv
<1> QED BY <1>1, <1>5, <1>6, <1>7, SettledHere

LEMMA HandleTimeoutKeeps ==
    ASSUME IInv, NEW i \in Ids, HandleTimeout(i)
    PROVE  IInv'
<1>1. TypeInv
  BY DEF IInv
<1>2. /\ due' = due \ {i}
      /\ UNCHANGED <<rules, pattern, store, calls, armed, setting, visits, changes, clock>>
  BY DEF HandleTimeout
<1>3. instances \in Seq(Instance) /\ i \in DOMAIN instances /\ instances[i] \in Instance
  BY <1>1, InstanceTyped DEF TypeInv, Ids
<1>4. instances[i].active => instances[i].state = "matching"
  BY DEF IInv, Begun
<1>c. /\ calls' \in Seq(Call) /\ Len(calls') = Len(calls)
      /\ visits' \in [Rule -> Seq(Visit)] /\ clock' \in Nat
  BY <1>1, <1>2 DEF TypeInv
<1>5. CASE ~ instances[i].active
  <2>1. UNCHANGED <<instances, reported>>
    BY <1>5 DEF HandleTimeout
  <2>2. \A j \in Ids : Timed(j) => Timed(j)' \/ ~ instances[j].active
    BY <1>2, <1>5 DEF Timed
  <2> QED BY <1>2, <1>c, <2>1, <2>2, TimersMove
<1>6. ASSUME instances[i].active
      PROVE  IInv'
  <2>1. PICK x : x = Ended(i, IF Type(i) = "absence" THEN "completed" ELSE "expired")
    OBVIOUS
  <2>2. instances' = [instances EXCEPT ![i] = x]
    BY <1>6, <2>1 DEF HandleTimeout, Type
  <2>3. /\ x \in Instance /\ x.rule = instances[i].rule /\ x.group = instances[i].group
        /\ x.pattern = instances[i].pattern /\ x.taken = instances[i].taken
        /\ x.matched = instances[i].matched /\ x.active = FALSE
        /\ x.state = IF Type(i) = "absence" THEN "completed" ELSE "expired"
    BY <1>3, <2>1 DEF Ended, Instance
  <2>4. /\ instances' \in Seq(Instance) /\ Ids' = Ids /\ instances'[i] = x
        /\ \A j \in Ids : j # i => instances'[j] = instances[j]
    BY <1>3, <2>2, <2>3 DEF Ids
  <2>5. \/ reported' = reported
        \/ /\ Type(i) = "absence"
           /\ reported' = Append(reported, Report(instances[i].rule, i, instances[i].matched, 0))
    BY <1>6 DEF HandleTimeout, Type
  <2>6. Later
    <3>1. reported \in Seq(Elements(reported))
      BY <1>1 DEF TypeInv
    <3>2. \A n \in DOMAIN reported : n \in DOMAIN reported' /\ reported'[n] = reported[n]
      BY <2>5, <3>1, AppendAny
    <3> QED BY <1>2, <3>2 DEF Later
  <2>7. CompletedStay
    BY <1>4, <1>6, <2>4 DEF CompletedStay
  <2>8. ASSUME NEW j \in Ids
        PROVE  Kept(j) /\ Unawaited(j)
    <3>1. CASE j = i
      BY <1>2, <2>3, <2>4, <3>1 DEF Kept, Unawaited
    <3>2. CASE j # i
      BY <1>2, <2>4, <3>2 DEF Kept, Unawaited
    <3> QED BY <3>1, <3>2
  <2>9. \/ reported' = reported
        \/ \E rep : reported' = Append(reported, rep) /\ Fresh(rep)
    <3>1. PICK rep : rep = Report(instances[i].rule, i, instances[i].matched, 0)
      OBVIOUS
    <3>2. /\ rep.rule = instances[i].rule /\ rep.instance = i
          /\ rep.events = instances[i].matched /\ rep.by = 0
      BY <3>1 DEF Report
    <3>3. Type(i) = "absence" => Caused(0, x)
      BY <2>3 DEF Caused, Type
    <3>4. Type(i) = "absence" => Fresh(rep)
      BY <1>4, <1>6, <2>3, <2>4, <3>2, <3>3 DEF Fresh
    <3> QED BY <2>5, <3>1, <3>4
  <2>10. Settles
    BY <1>2, <2>4, <2>6, <2>7, <2>8, <2>9, Calmed
  <2>11. TimeoutCovered'
    <3>1. ASSUME NEW j \in Ids', instances'[j].active
          PROVE  Timed(j)' \/ Refused(j)'
      <4>1. j # i /\ instances[j].active /\ j \in Ids
        BY <2>3, <2>4, <3>1
      <4> QED BY <1>2, <4>1 DEF IInv, TimeoutCovered, Timed, Refused
    <3> QED BY <3>1 DEF TimeoutCovered
  <2> QED BY <1>1, <1>2, <1>c, <2>10, <2>11, SettledHere
<1> QED BY <1>5, <1>6

LEMMA ProcessEventKeeps ==
    ASSUME IInv, NEW t \in Topic, NEW g \in Group \cup {NoGroup}, NEW age \in Ages,
           ProcessEvent(t, g, age)
    PROVE  IInv'
<1>1. TypeInv
  BY DEF IInv
<1>2. UNCHANGED <<rules, pattern, instances, armed, setting, due, reported, visits, changes, clock>>
  BY DEF ProcessEvent
<1>3. PICK x \in Stored : store' = Append(store, x)
  <2>1. clock - age \in Int
    BY <1>1, PatternsTyped DEF TypeInv
  <2>2. [topic |-> t, group |-> g, at |-> clock - age] \in Stored
    BY <2>1 DEF Stored
  <2> QED BY <2>2 DEF ProcessEvent
<1>4. PICK c \in Call : calls' = Append(calls, c) /\ c.phase = "begins"
  <2>1. [phase |-> "begins", rule |-> NoRule, pattern |-> NoPattern,
         todo |-> {}, waits |-> 0, visited |-> {}] \in Call
    BY DEF Call
  <2> QED BY <2>1 DEF ProcessEvent
<1>5. /\ store \in Seq(Stored) /\ calls \in Seq(Call) /\ Len(calls) = Len(store)
      /\ visits \in [Rule -> Seq(Visit)]
  BY <1>1 DEF TypeInv
<1>6. /\ store' \in Seq(Stored) /\ Len(store') = Len(store) + 1
      /\ \A e \in DOMAIN store : e \in DOMAIN store' /\ store'[e] = store[e]
  BY <1>3, <1>5
<1>7. /\ calls' \in Seq(Call) /\ Len(calls') = Len(calls) + 1
      /\ \A e \in DOMAIN calls : e \in DOMAIN calls' /\ calls'[e] = calls[e]
      /\ \A e \in DOMAIN calls' : e \in DOMAIN calls \/ calls'[e] = c
  BY <1>4, <1>5
<1>8. (visits \in [Rule -> Seq(Visit)])'
  <2>1. PICK S, T : S = Visit /\ T = Visit'
    OBVIOUS
  <2>2. S \subseteq T
    BY <1>6, <2>1 DEF Visit
  <2>3. visits \in [Rule -> Seq(S)]
    BY <1>5, <2>1
  <2>4. \A s \in Seq(S) : s \in Seq(T)
    BY <2>2
  <2>5. visits' \in [Rule -> Seq(T)]
    BY <1>2, <2>3, <2>4
  <2> QED BY <2>1, <2>5
<1>9. Later
  BY <1>2, <1>6, <1>7 DEF Later
<1>10. \A i \in Ids : Kept(i) /\ Unawaited(i)
  BY <1>2, KeptAsItIs
<1>11. CompletedStay /\ Ids' = Ids /\ instances' \in Seq(Instance)
  BY <1>1, <1>2 DEF CompletedStay, Ids, TypeInv
<1>12. Settles
  BY <1>2, <1>4, <1>7, <1>9, <1>10, <1>11, Calmed
<1>13. TimeoutCovered'
  BY <1>2, <1>7 DEF IInv, TimeoutCovered, Ids, Timed, Refused
<1>14. /\ rules' \in Seq(Rule) /\ pattern' \in [Rule -> Pattern] /\ changes' \in Nat
       /\ clock' \in Nat /\ (changes' = 0 => pattern' = FirstPattern)
  BY <1>1, <1>2 DEF TypeInv
<1> QED BY <1>5, <1>6, <1>7, <1>8, <1>12, <1>13, <1>14, Settled

\* A change of the rules: it may deactivate instances, and lets iterations pass a
\* rule again.
LEMMA RulesMove ==
    ASSUME IInv, rules' \in Seq(Rule), pattern' \in [Rule -> Pattern],
           instances' \in Seq(Instance), Ids' = Ids,
           \A i \in Ids : \/ instances'[i] = instances[i]
                          \/ instances'[i] = [instances[i] EXCEPT !.active = FALSE],
           calls' \in Seq(Call), Len(calls') = Len(calls),
           \A e \in DOMAIN calls : /\ calls'[e].phase = calls[e].phase
                                   /\ calls'[e].rule = calls[e].rule
                                   /\ calls'[e].pattern = calls[e].pattern
                                   /\ calls'[e].waits = calls[e].waits
                                   /\ calls'[e].todo = calls[e].todo,
           \A i \in armed \cap Ids : i \notin armed' => ~ instances'[i].active,
           changes' = changes + 1,
           UNCHANGED <<store, setting, due, reported, visits, clock>>
    PROVE  IInv'
<1>1. TypeInv
  BY DEF IInv
<1>2. DOMAIN calls' = DOMAIN calls /\ changes' \in Nat /\ changes' # 0
  <2>1. calls \in Seq(Call) /\ changes \in Nat
    BY <1>1 DEF TypeInv
  <2> QED BY <2>1
<1>3. Later
  BY <1>2 DEF Later
<1>4. ASSUME NEW i \in Ids
      PROVE  /\ instances'[i].rule = instances[i].rule
             /\ instances'[i].group = instances[i].group
             /\ instances'[i].pattern = instances[i].pattern
             /\ instances'[i].matched = instances[i].matched
             /\ instances'[i].taken = instances[i].taken
             /\ instances'[i].state = instances[i].state
             /\ instances'[i].active => instances[i].active
  <2>1. instances[i] \in Instance
    BY <1>1, InstanceTyped
  <2> QED BY <2>1 DEF Instance
<1>5. \A i \in Ids : Kept(i) /\ Unawaited(i)
  BY <1>4 DEF Kept, Unawaited
<1>6. CompletedStay
  BY <1>4 DEF CompletedStay
<1>7. Settles
  BY <1>2, <1>3, <1>5, <1>6, Calmed
<1>8. \A i \in Ids : Refused(i) => Refused(i)'
  BY <1>2 DEF Refused
<1>9. TimeoutCovered'
  BY <1>4, <1>8 DEF IInv, TimeoutCovered, Timed
<1>10. (visits \in [Rule -> Seq(Visit)])'
  BY <1>1 DEF TypeInv, Visit
<1> QED BY <1>1, <1>2, <1>7, <1>9, <1>10, Settled DEF TypeInv

LEMMA ChangeKeeps ==
    ASSUME IInv, Change
    PROVE  IInv'
<1>1. TypeInv
  BY DEF IInv
<1>2. /\ rules \in Seq(Rule) /\ instances \in Seq(Instance) /\ calls \in Seq(Call)
      /\ pattern \in [Rule -> Pattern]
      /\ \A i \in Ids : instances[i] \in Instance
      /\ \A e \in DOMAIN calls : calls[e] \in Call
  BY <1>1 DEF TypeInv, Ids
<1>3. changes' = changes + 1 /\ UNCHANGED <<store, setting, due, reported, visits, clock>>
  BY DEF Change
<1>4. ASSUME UNCHANGED <<calls, instances, armed>>, rules' \in Seq(Rule),
             pattern' \in [Rule -> Pattern]
      PROVE  IInv'
  BY <1>2, <1>3, <1>4, RulesMove DEF Ids
<1>5. ASSUME NEW r \in Changing, RegisterRule(r)
      PROVE  IInv'
  <2>1. r \in Rule /\ \A q \in Registrable[r] : q \in Pattern
    BY RulesRegistered
  <2>2. rules' \in Seq(Rule)
    BY <1>2, <1>5, <2>1 DEF RegisterRule
  <2>3. pattern' \in [Rule -> Pattern]
    BY <1>2, <1>5, <2>1 DEF RegisterRule
  <2> QED BY <1>4, <1>5, <2>2, <2>3 DEF RegisterRule
<1>6. ASSUME NEW r \in Changing, UnregisterRule(r)
      PROVE  IInv'
  <2>1. rules' \in Seq(Rule)
    <3>1. PICK k \in DOMAIN rules : rules' = RemoveAt(rules, k)
      BY <1>6 DEF UnregisterRule
    <3> QED BY <1>2, <3>1 DEF RemoveAt
  <2>2. /\ instances' = [i \in Ids |-> IF instances[i].rule = r
                                       THEN [instances[i] EXCEPT !.active = FALSE]
                                       ELSE instances[i]]
        /\ UNCHANGED <<pattern, armed>>
    BY <1>6 DEF UnregisterRule
  <2>3. instances' \in Seq(Instance) /\ Ids' = Ids
    <3>1. \A i \in Ids : instances'[i] \in Instance
      BY <1>2, <2>2 DEF Instance
    <3> QED BY <1>2, <2>2, <3>1 DEF Ids
  <2>4. calls' = [e \in DOMAIN calls |-> [calls[e] EXCEPT !.visited = @ \ {r}]]
    BY <1>6 DEF UnregisterRule
  <2>5. ASSUME NEW e \in DOMAIN calls
        PROVE  /\ calls'[e] \in Call /\ calls'[e].phase = calls[e].phase
               /\ calls'[e].rule = calls[e].rule /\ calls'[e].pattern = calls[e].pattern
               /\ calls'[e].waits = calls[e].waits /\ calls'[e].todo = calls[e].todo
    BY <1>2, <2>4 DEF Call
  <2>6. calls' \in Seq(Call) /\ Len(calls') = Len(calls)
    <3>1. PICK n \in Nat : n = Len(calls) /\ DOMAIN calls = 1 .. n
      BY <1>2
    <3>2. PICK s : s = calls'
      OBVIOUS
    <3>3. s \in [1 .. n -> Call]
      BY <2>4, <2>5, <3>1, <3>2
    <3>4. s \in Seq(Call) /\ Len(s) = n
      BY <3>1, <3>3
    <3> QED BY <3>1, <3>2, <3>4
  <2>7. pattern' \in [Rule -> Pattern]
    BY <1>2, <2>2
  <2> QED BY <1>3, <2>1, <2>2, <2>3, <2>5, <2>6, <2>7, RulesMove
<1>7. ASSUME NEW r \in Changing, SwitchRule(r)
      PROVE  IInv'
  BY <1>2, <1>4, <1>7 DEF SwitchRule
<1>8. ASSUME Clear
      PROVE  IInv'
  <2>1. /\ instances' = [i \in Ids |-> [instances[i] EXCEPT !.active = FALSE]]
        /\ armed' = {i \in armed : ~ instances[i].active}
        /\ UNCHANGED <<rules, pattern, calls>>
    BY <1>8 DEF Clear
  <2>2. instances' \in Seq(Instance) /\ Ids' = Ids
    <3>1. \A i \in Ids : instances'[i] \in Instance
      BY <1>2, <2>1 DEF Instance
    <3> QED BY <1>2, <2>1, <3>1 DEF Ids
  <2>3. \A i \in Ids : /\ instances'[i] = [instances[i] EXCEPT !.active = FALSE]
                       /\ ~ instances'[i].active
    BY <1>2, <2>1 DEF Instance
  <2>4. \A i \in armed \cap Ids : i \notin armed' => ~ instances'[i].active
    BY <2>3
  <2>5. /\ calls' \in Seq(Call) /\ Len(calls') = Len(calls) /\ rules' \in Seq(Rule)
        /\ pattern' \in [Rule -> Pattern]
    BY <1>2, <2>1
  <2>6. \A e \in DOMAIN calls : calls'[e] = calls[e]
    BY <2>1
  <2> QED BY <1>3, <2>2, <2>3, <2>4, <2>5, <2>6, RulesMove
<1> QED BY <1>5, <1>6, <1>7, <1>8 DEF Change

LEMMA InitSound == Init => IInv
<1> SUFFICES ASSUME Init
             PROVE  IInv
  OBVIOUS
<1>1. /\ rules \in Seq(Rule) /\ store = <<>> /\ calls = <<>> /\ instances = <<>>
      /\ reported = <<>> /\ visits = [r \in Rule |-> <<>>] /\ changes = 0 /\ clock = 0
      /\ pattern = FirstPattern /\ pattern \in [Rule -> Pattern]
  BY RulesRegistered DEF Init
<1>2. Ids = {} /\ DOMAIN reported = {} /\ DOMAIN calls = {}
  BY <1>1 DEF Ids
<1>3. TypeInv
  BY <1>1 DEF TypeInv
<1> QED BY <1>2, <1>3 DEF IInv, OnePerGroup, TimeoutCovered

LEMMA NextSound == IInv /\ [Next]_vars => IInv'
<1> SUFFICES ASSUME IInv, [Next]_vars
             PROVE  IInv'
  OBVIOUS
<1>1. ASSUME NEW t \in Topic, NEW g \in Group \cup {NoGroup}, NEW age \in Ages,
             ProcessEvent(t, g, age)
      PROVE  IInv'
  BY <1>1, ProcessEventKeeps
<1>2. CASE Change
  BY <1>2, ChangeKeeps
<1>3. ASSUME NEW e \in DOMAIN calls, ProcessRule(e) \/ MatchReturns(e)
      PROVE  IInv'
  BY <1>3, ProcessRuleKeeps, MatchReturnsKeeps
<1>4. ASSUME NEW e \in DOMAIN calls, CallEnds(e) \/ RuleReturns(e) \/ CallFails(e)
      PROVE  IInv'
  <2>1. calls[e].phase # "failed"
    BY <1>4 DEF CallEnds, RuleReturns, CallFails, Runs
  <2>2. CASE CallEnds(e)
    BY <2>1, <2>2, CallMoves DEF CallEnds
  <2>3. CASE RuleReturns(e)
    BY <2>1, <2>3, CallMoves DEF RuleReturns
  <2>4. CASE CallFails(e)
    BY <2>1, <2>4, CallMoves DEF CallFails
  <2> QED BY <1>4, <2>2, <2>3, <2>4
<1>5. ASSUME NEW i \in Ids, TimerSet(i) \/ TimerFires(i)
      PROVE  IInv'
  <2>1. \A j \in Ids : Timed(j) => Timed(j)' \/ ~ instances[j].active
    BY <1>5 DEF TimerSet, TimerFires, Timed
  <2>2. clock' \in Nat
    BY <1>5 DEF TimerSet, TimerFires, IInv, TypeInv
  <2> QED BY <1>5, <2>1, <2>2, TimersMove DEF TimerSet, TimerFires
<1>6. ASSUME NEW i \in Ids, HandleTimeout(i)
      PROVE  IInv'
  BY <1>6, HandleTimeoutKeeps
<1>7. CASE Tick
  <2>1. \A j \in Ids : Timed(j) => Timed(j)' \/ ~ instances[j].active
    BY <1>7 DEF Tick, Timed
  <2>2. clock' \in Nat
    BY <1>7 DEF Tick, IInv, TypeInv
  <2> QED BY <1>7, <2>1, <2>2, TimersMove DEF Tick
<1>8. CASE UNCHANGED vars
  <2>1. \A j \in Ids : Timed(j) => Timed(j)' \/ ~ instances[j].active
    BY <1>8 DEF vars, Timed
  <2>2. clock' \in Nat
    BY <1>8 DEF vars, IInv, TypeInv
  <2> QED BY <1>8, <2>1, <2>2, TimersMove DEF vars
<1> QED BY <1>1, <1>2, <1>3, <1>4, <1>5, <1>6, <1>7, <1>8 DEF Next, Callers, Processor

-----------------------------------------------------------------------------
(* Theorems. *)

\* The inductive invariant holds: what instances, reports and suspended calls say of
\* each other stays true however calls, callbacks, timers, failures and changes of the
\* rules interleave.
THEOREM InvariantHolds == Spec => []IInv
BY InitSound, NextSound, PTL DEF Spec

\* TemporalProcessor never has two active instances of a group that may have one, and
\* never forgets the time limit of an active instance but one whose creator setTimer has
\* rejected.
THEOREM InstancesSoundHolds == Spec => []InstancesSound
<1>1. IInv => InstancesSound
  BY DEF IInv, InstancesSound
<1> QED BY <1>1, InvariantHolds, PTL

\* Every match that the callback of TemporalProcessor has got has an event for each step,
\* by the pattern that its rule had when the event was processed, and each instance is
\* reported at most once.
THEOREM MatchesFitHolds == Spec => []MatchesFit
<1>1. ASSUME IInv, NEW n \in DOMAIN reported, reported[n].instance # 0
      PROVE  LET rep == reported[n]
                 ins == instances[rep.instance]
                 len == Len(rep.events)
             IN  /\ ins.state = "completed" /\ ins.rule = rep.rule /\ ins.matched = rep.events
                 /\ \A m \in DOMAIN reported :
                       reported[m].instance = rep.instance => m = n
                 /\ StepsFit(rep.instance)
                 /\ IF rep.by = 0 THEN PatternOf[ins.pattern].type = "absence"
                    ELSE /\ rep.by = rep.events[len]
                         /\ PatternOf[ins.taken[len]].type = "sequence"
                         /\ len = Len(PatternOf[ins.taken[len]].events)
                 /\ \A k \in 2 .. len :
                       /\ InTurn(rep.rule, rep.events[1], rep.events[k])
                       /\ \/ InTurn(rep.rule, rep.events[k - 1], rep.events[k])
                          \/ HeldUp(rep.events[k], rep.rule, rep.instance)
                 /\ changes = 0 => IsInjective(rep.events)
  <2>1. PICK i, r, these, by :
           /\ i = reported[n].instance /\ r = reported[n].rule
           /\ these = reported[n].events /\ by = reported[n].by
    OBVIOUS
  <2>2. /\ i \in Ids /\ instances[i].state = "completed"
        /\ r = instances[i].rule /\ these = instances[i].matched
        /\ Caused(by, instances[i])
        /\ \A m \in DOMAIN reported : reported[m].instance = i => m = n
    BY <1>1, <2>1 DEF IInv, Reported
  <2>3. Fitting(i) /\ Distinct(i)
    BY <1>1, <2>2 DEF IInv
  <2>4. changes = 0 => IsInjective(these)
    BY <2>2, <2>3 DEF Distinct, IsInjective
  <2>5. IF by = 0 THEN PatternOf[instances[i].pattern].type = "absence"
        ELSE /\ by = these[Len(these)]
             /\ PatternOf[instances[i].taken[Len(these)]].type = "sequence"
             /\ Len(these) = Len(PatternOf[instances[i].taken[Len(these)]].events)
    BY <2>2 DEF Caused
  <2>6. /\ StepsFit(i)
        /\ \A k \in 2 .. Len(these) :
              /\ InTurn(r, these[1], these[k])
              /\ InTurn(r, these[k - 1], these[k]) \/ HeldUp(these[k], r, i)
    BY <2>2, <2>3 DEF Fitting
  <2> QED BY Zenon, <2>1, <2>2, <2>4, <2>5, <2>6
<1>2. IInv => MatchesFit
  BY Zenon, <1>1 DEF MatchesFit
<1> QED BY <1>2, InvariantHolds, PTL

\* The loop over the instances reports matches that an event has completed.
LEMMA SweepReports ==
    ASSUME NEW e, NEW r, NEW q, NEW todo, SweepSequence(e, r, q, todo)
    PROVE  reported' = reported \/ \E rep : reported' = Append(reported, rep) /\ rep.by = e
<1>1. \A o, i, these : Report(o, i, these, e).by = e
  BY DEF Report
<1>2. \/ reported' = reported
      \/ \E o, i, these : reported' = Append(reported, Report(o, i, these, e))
  BY DEF SweepSequence, StartSequence
<1> QED BY <1>1, <1>2

LEMMA OneReport ==
    ASSUME TypeInv, NEW rep, reported' = Append(reported, rep),
           NEW n \in DOMAIN reported' \ DOMAIN reported
    PROVE  reported'[n] = rep
<1>1. reported \in Seq(Elements(reported))
  BY DEF TypeInv
<1>2. /\ \A m \in DOMAIN Append(reported, rep) : m \in DOMAIN reported \/ m = Len(reported) + 1
      /\ Append(reported, rep)[Len(reported) + 1] = rep
  BY <1>1, AppendAny
<1> QED BY <1>2

\* handleTimeout reports the absence of what the rule has really not processed since
\* the instance began: whatever calls came between the expiry of the timer and its
\* handling, an instance that an event has ended reports nothing.
THEOREM AbsenceObservedHolds == Spec => AbsenceObserved
<1>1. ASSUME IInv, [Next]_vars, NEW n \in DOMAIN reported' \ DOMAIN reported,
             NEW i, i = reported'[n].instance, i # 0, reported'[n].by = 0
      PROVE  Awaited(i) = {}
  <2>1. TypeInv
    BY <1>1 DEF IInv
  <2>2. ASSUME NEW e \in DOMAIN calls, NEW r, NEW q, NEW todo, SweepSequence(e, r, q, todo)
        PROVE  FALSE
    <3>1. e # 0
      <4>1. e \in DOMAIN store /\ store \in Seq(Stored)
        BY <2>1, CallTyped DEF TypeInv
      <4> QED BY <4>1
    <3> QED BY <1>1, <2>1, <2>2, <3>1, SweepReports, OneReport
  <2>3. ASSUME NEW e, NEW r, NEW q, NEW met, NEW these, ReportWindow(e, r, q, met, these)
        PROVE  FALSE
    <3>1. Report(r, 0, these, e).instance = 0
      BY DEF Report
    <3>2. reported' = reported \/ reported' = Append(reported, Report(r, 0, these, e))
      BY <2>3 DEF ReportWindow
    <3> QED BY <1>1, <2>1, <3>1, <3>2, OneReport
  <2>4. ASSUME NEW e \in DOMAIN calls, ProcessRule(e)
        PROVE  FALSE
    <3>1. PICK r, q : \/ ProcessSequence(e, r, q) \/ ProcessAbsence(e, r, q)
                      \/ ProcessCount(e, r, q) \/ ProcessAggregate(e, r, q)
      BY <2>4 DEF ProcessRule
    <3>2. CASE ProcessSequence(e, r, q)
      BY <2>2, <3>2 DEF ProcessSequence
    <3>3. CASE ProcessAbsence(e, r, q)
      BY <1>1, <3>3 DEF ProcessAbsence
    <3>4. CASE ProcessCount(e, r, q) \/ ProcessAggregate(e, r, q)
      BY <2>3, <3>4 DEF ProcessCount, ProcessAggregate
    <3> QED BY <3>1, <3>2, <3>3, <3>4
  <2>5. ASSUME NEW e \in DOMAIN calls, MatchReturns(e)
        PROVE  FALSE
    BY <2>2, <2>5 DEF MatchReturns
  <2>6. ASSUME NEW j \in Ids, HandleTimeout(j)
        PROVE  Awaited(i) = {}
    <3>1. PICK rep : rep = Report(instances[j].rule, j, instances[j].matched, 0)
      OBVIOUS
    <3>2. /\ reported' = Append(reported, rep) /\ instances[j].active
          /\ Type(j) = "absence"
      BY <1>1, <2>6, <3>1 DEF HandleTimeout, Type
    <3>3. i = j
      BY <1>1, <2>1, <3>1, <3>2, OneReport DEF Report
    <3> QED BY <1>1, <3>2, <3>3 DEF IInv, Observed
  <2>7. CASE UNCHANGED reported
    BY <1>1, <2>7
  <2> QED BY <1>1, <2>4, <2>5, <2>6, <2>7
          DEF Next, Callers, Processor, ProcessEvent, Change, CallEnds, RuleReturns, CallFails,
              TimerSet, TimerFires, Tick, vars
<1>2. IInv /\ [Next]_vars =>
         [\A n \in DOMAIN reported' \ DOMAIN reported :
             LET rep == reported'[n]
             IN  rep.instance # 0 /\ rep.by = 0 => Awaited(rep.instance) = {}]_vars
  BY <1>1
<1> QED BY <1>2, InvariantHolds, PTL DEF Spec, AbsenceObserved
=============================================================================
