---------------------------- MODULE WindowProofs ----------------------------
(***************************************************************************)
(* Proofs about Windows: a tumbling window holds each event once and in its *)
(* range, and a sliding window that matches has counted what it should, for *)
(* any patterns, groups, timestamps, and number of events and overlapping   *)
(* calls.                                                                   *)
(***************************************************************************)
EXTENDS Windows, FiniteSetTheorems, WellFoundedInduction, TLAPS

-----------------------------------------------------------------------------
(* The inductive invariant. *)

Key0 == Group \cup {NoGroup}

Event == [topic : Topic, group : Key0, at : Nat, timestamp : Int]

Pcs == {"visit", "sliding", "matched", "tumbling", "reopening", "over", "failed", "lost"}

Call == [pc : Pcs, pattern : Seq(Pattern), seen : SUBSET Pattern, window : Nat]

WindowType == [pattern : Pattern, group : Key0, start : Int, end : Int, events : Seq(Nat),
               active : BOOLEAN, triggered : BOOLEAN, listed : BOOLEAN, first : Nat]

Counting == [window : Nat, events : Seq(Nat), by : Nat]

TypeInv ==
    /\ patterns \in Seq(Pattern)
    /\ events \in Seq(Event)
    /\ calls \in Seq(Call) /\ Len(calls) = Len(events)
    /\ windows \in Seq(WindowType)
    /\ current \in [Pattern -> [Key0 -> Nat]]
    /\ pushes \in [Pattern -> Seq(Nat)]
    /\ counted \in Seq(Counting)
    /\ clock \in Nat /\ changes \in Nat

\* Calls begin in the order of their times.
Timely == \A e \in DOMAIN events :
    /\ events[e].at <= clock
    /\ \A d \in DOMAIN events : d <= e => events[d].at <= events[e].at

\* The call is at this pattern, which has not taken up its event, or has lost it.
At(e, p) ==
    /\ calls[e].pc \in {"sliding", "tumbling", "reopening", "lost"}
    /\ calls[e].pattern # <<>> /\ Head(calls[e].pattern) = p

Visits(e) ==
    calls[e].pc \in {"sliding", "tumbling", "reopening"} =>
       /\ calls[e].pattern # <<>>
       /\ (PatternOf[Head(calls[e].pattern)].sliding <=> calls[e].pc = "sliding")
       /\ Matches(e, PatternOf[Head(calls[e].pattern)].event)

\* Without changes a call comes to each pattern once, and to all before it is over.
Visited(e) ==
    /\ \A p \in Pattern : e \in Elements(pushes[p]) <=>
          p \in calls[e].seen /\ Matches(e, PatternOf[p].event) /\ ~At(e, p)
    /\ \A p \in Pattern : At(e, p) => p \in calls[e].seen
    /\ calls[e].pc = "over" =>
          \A k \in DOMAIN patterns :
             Matches(e, PatternOf[patterns[k]].event) => patterns[k] \in calls[e].seen

\* The window that byGroup names is one of the group.
CurrentSound == \A p \in Pattern, g \in Key0 :
    current[p][g] # 0 =>
       /\ current[p][g] \in Ids
       /\ windows[current[p][g]].pattern = p /\ windows[current[p][g]].group = g

Pushed(p) == \A e \in Elements(pushes[p]) :
    /\ e \in DOMAIN events
    /\ ~PatternOf[p].sliding =>
          \E i \in Ids : windows[i].pattern = p /\ e \in Elements(windows[i].events)

Sorted(s) == \A j, k \in DOMAIN s : j < k => s[j] < s[k]

PushesSorted(p) == InOrder(pushes[p]) => Sorted(pushes[p])

\* What a window holds the pattern has taken up, for its group.
Holds(i) == \A e \in Elements(windows[i].events) :
    e \in Elements(pushes[windows[i].pattern]) /\ Key(e, windows[i].pattern) = windows[i].group

\* A tumbling window begins before its first event.
Ranged(i) ==
    LET w == windows[i]
    IN  /\ \E d \in Elements(w.events) : w.start <= events[d].at
        /\ InOrder(pushes[w.pattern]) =>
              \A e \in Elements(w.events) : w.start <= events[e].at /\ events[e].at <= w.end

\* Without changes no event is in two windows of a tumbling pattern.
Apart(i) == \A j \in Ids : \A e \in Elements(windows[i].events) :
    windows[j].pattern = windows[i].pattern /\ e \in Elements(windows[j].events) => j = i

\* A sliding window holds what its length left when its group was taken up last.
SlidingHeld(p, g) ==
    LET i == current[p][g]
    IN  i # 0 =>
         /\ Sorted(windows[i].events)
         /\ \E e \in Elements(pushes[p]) :
              /\ Key(e, p) = g /\ \A d \in Elements(pushes[p]) : Key(d, p) = g => d <= e
              /\ windows[i].first <= e
              /\ Elements(windows[i].events) = InLength(i, e)

Counted(n) ==
    LET rep == counted[n]
        p   == windows[rep.window].pattern
    IN  rep.by # 0 => /\ rep.window \in Ids
                      /\ rep.by \in Elements(pushes[p])
                      /\ changes = 0 /\ InOrder(pushes[p]) =>
                            Elements(rep.events) = InLength(rep.window, rep.by)

IInv ==
    /\ TypeInv /\ Timely /\ CurrentSound
    /\ \A e \in DOMAIN calls : Visits(e) /\ (changes = 0 => Visited(e))
    /\ \A p \in Pattern : Pushed(p) /\ PushesSorted(p)
    /\ \A i \in Ids : /\ Holds(i)
                      /\ ~PatternOf[windows[i].pattern].sliding =>
                            Ranged(i) /\ (changes = 0 => Apart(i))
    /\ \A p \in Pattern, g \in Key0 :
          changes = 0 /\ PatternOf[p].sliding /\ InOrder(pushes[p]) => SlidingHeld(p, g)
    /\ \A n \in DOMAIN counted : Counted(n)

-----------------------------------------------------------------------------
(* Sequences and numbers. *)

LEMMA Smallest ==
    ASSUME NEW S \in SUBSET Nat, S # {}
    PROVE  Min(S) \in S /\ \A k \in S : Min(S) <= k
<1> DEFINE R == OpToRel(<, Nat)
<1>1. IsWellFoundedOn(R, Nat)
  BY NatLessThanWellFounded
<1>2. PICK m \in S : \A k \in S : <<k, m>> \notin R
  <2> HIDE DEF R
  <2> QED BY <1>1, WFMin
<1>3. \A k \in S : ~(k < m)
  BY <1>2, Zenon DEF OpToRel
<1>4. \A k \in S : m <= k
  BY <1>3
<1> QED BY <1>4 DEF Min

LEMMA Appended ==
    ASSUME NEW S, NEW s \in Seq(S), NEW x
    PROVE  /\ Len(Append(s, x)) = Len(s) + 1
           /\ DOMAIN Append(s, x) = DOMAIN s \cup {Len(s) + 1}
           /\ Append(s, x)[Len(s) + 1] = x
           /\ \A j \in DOMAIN s : Append(s, x)[j] = s[j]
           /\ Elements(Append(s, x)) = Elements(s) \cup {x}
           /\ Len(s) + 1 \notin DOMAIN s
           /\ x \in S => Append(s, x) \in Seq(S)
<1>1. /\ Len(Append(s, x)) = Len(s) + 1
      /\ DOMAIN Append(s, x) = DOMAIN s \cup {Len(s) + 1}
      /\ Append(s, x)[Len(s) + 1] = x
      /\ \A j \in DOMAIN s : Append(s, x)[j] = s[j]
      /\ Len(s) + 1 \notin DOMAIN s
      /\ x \in S => Append(s, x) \in Seq(S)
  OBVIOUS
<1> QED BY <1>1 DEF Elements

\* A sequence in order stays in order as what comes is later than its last.
LEMMA SortedAppend ==
    ASSUME NEW s \in Seq(Nat), NEW x \in Nat, InOrder(s) => Sorted(s)
    PROVE  InOrder(Append(s, x)) =>
              /\ InOrder(s) /\ Sorted(Append(s, x)) /\ \A y \in Elements(s) : y < x
<1> SUFFICES ASSUME InOrder(Append(s, x))
             PROVE  InOrder(s) /\ Sorted(Append(s, x)) /\ \A y \in Elements(s) : y < x
  OBVIOUS
<1>1. /\ Len(Append(s, x)) = Len(s) + 1 /\ Append(s, x)[Len(s) + 1] = x
      /\ DOMAIN Append(s, x) = DOMAIN s \cup {Len(s) + 1} /\ DOMAIN s = 1 .. Len(s)
      /\ \A j \in DOMAIN s : Append(s, x)[j] = s[j]
      /\ Len(s) \in Nat /\ \A j \in DOMAIN s : s[j] \in Nat
  BY Appended
<1>2. InOrder(s)
  BY <1>1 DEF InOrder
<1>3. Sorted(s)
  BY <1>2
<1>4. ASSUME NEW j \in DOMAIN s
      PROVE  s[j] < x
  <2>1. Len(s) \in DOMAIN s /\ Len(s) + 1 \in 2 .. Len(s) + 1
    BY <1>1, <1>4
  <2>2. s[Len(s)] < x
    BY <1>1, <2>1 DEF InOrder
  <2>3. j = Len(s) \/ j < Len(s)
    BY <1>1
  <2>4. j < Len(s) => s[j] < s[Len(s)]
    BY <1>3, <2>1 DEF Sorted
  <2> QED BY <1>1, <2>1, <2>2, <2>3, <2>4
<1>5. Sorted(Append(s, x))
  BY <1>1, <1>3, <1>4 DEF Sorted
<1> QED BY <1>2, <1>4, <1>5 DEF Elements

LEMMA SortedGrows ==
    ASSUME NEW s \in Seq(Nat), NEW x \in Nat, Sorted(s), \A y \in Elements(s) : y < x
    PROVE  Sorted(Append(s, x))
<1>1. /\ Append(s, x)[Len(s) + 1] = x
      /\ DOMAIN Append(s, x) = DOMAIN s \cup {Len(s) + 1} /\ DOMAIN s = 1 .. Len(s)
      /\ \A j \in DOMAIN s : Append(s, x)[j] = s[j]
      /\ Len(s) \in Nat /\ \A j \in DOMAIN s : s[j] \in Nat
  BY Appended
<1>2. \A j \in DOMAIN s : s[j] < x
  BY DEF Elements
<1> QED BY <1>1, <1>2 DEF Sorted

\* What is not too old, and what is behind that.
Recent(S, from) == {d \in S : \E c \in S : c <= d /\ events[c].timestamp >= from}

\* pruneEvents keeps that, of events in order.
LEMMA PrunedIsRecent ==
    ASSUME NEW s \in Seq(Nat), NEW from \in Int, Sorted(s)
    PROVE  /\ Sorted(Pruned(s, from))
           /\ Elements(Pruned(s, from)) = Recent(Elements(s), from)
<1> DEFINE kept == {j \in DOMAIN s : events[s[j]].timestamp >= from}
           recent == Recent(Elements(s), from)
<1>1. DOMAIN s = 1 .. Len(s) /\ Len(s) \in Nat /\ \A j \in DOMAIN s : s[j] \in Nat
  OBVIOUS
<1>2. CASE kept = {}
  <2>1. Pruned(s, from) = <<>>
    BY <1>2 DEF Pruned
  <2>2. recent = {}
    BY <1>2 DEF Elements, Recent
  <2>3. Elements(<<>>) = {} /\ Sorted(<<>>)
    BY DEF Elements, Sorted
  <2> QED BY <2>1, <2>2, <2>3
<1>3. CASE kept # {}
  <2>1. PICK m : m = Min(kept)
    OBVIOUS
  <2>2. m \in kept /\ \A j \in kept : m <= j
    <3>1. kept \in SUBSET Nat
      BY <1>1
    <3> HIDE DEF kept
    <3> QED BY <1>3, <2>1, <3>1, Smallest
  <2>3. m \in 1 .. Len(s) /\ events[s[m]].timestamp >= from
    BY <1>1, <2>2
  <2>4. Pruned(s, from) = SubSeq(s, m, Len(s))
    BY <1>3, <2>1 DEF Pruned
  <2>5. /\ SubSeq(s, m, Len(s)) \in Seq(Nat)
        /\ DOMAIN SubSeq(s, m, Len(s)) = 1 .. (Len(s) - m + 1)
        /\ \A j \in 1 .. (Len(s) - m + 1) : SubSeq(s, m, Len(s))[j] = s[m + j - 1]
    BY <1>1, <2>3
  <2>6. Sorted(Pruned(s, from))
    <3>1. ASSUME NEW j \in 1 .. (Len(s) - m + 1), NEW k \in 1 .. (Len(s) - m + 1), j < k
          PROVE  s[m + j - 1] < s[m + k - 1]
      <4>1. /\ m + j - 1 \in DOMAIN s /\ m + k - 1 \in DOMAIN s
            /\ m + j - 1 < m + k - 1
        BY <1>1, <2>3, <3>1
      <4> QED BY <4>1 DEF Sorted
    <3> QED BY <2>4, <2>5, <3>1 DEF Sorted
  <2>7. Elements(SubSeq(s, m, Len(s))) = {s[k] : k \in m .. Len(s)}
    <3> DEFINE tail == m .. Len(s)
    <3>1. \A j \in 1 .. (Len(s) - m + 1) : m + j - 1 \in tail
      BY <1>1, <2>3
    <3>2. \A k \in tail : k - m + 1 \in 1 .. (Len(s) - m + 1) /\ m + (k - m + 1) - 1 = k
      BY <1>1, <2>3
    <3>3. Elements(SubSeq(s, m, Len(s))) = {s[k] : k \in tail}
      <4> HIDE DEF tail
      <4> QED BY SMTT(40), <2>5, <3>1, <3>2 DEF Elements
    <3> QED BY <3>3
  <2>8. ASSUME NEW k \in m .. Len(s)
        PROVE  s[k] \in recent
    <3>1. k \in DOMAIN s /\ m \in DOMAIN s /\ (m = k \/ m < k)
      BY <1>1, <2>3
    <3>2. s[m] <= s[k]
      BY <1>1, <3>1 DEF Sorted
    <3> QED BY <2>3, <3>1, <3>2 DEF Elements, Recent
  <2>9. ASSUME NEW d \in recent
        PROVE  d \in {s[k] : k \in m .. Len(s)}
    <3>1. PICK c \in Elements(s) : c <= d /\ events[c].timestamp >= from
      BY DEF Recent
    <3>2. PICK j \in DOMAIN s : s[j] = c
      BY DEF Elements
    <3>3. PICK k \in DOMAIN s : s[k] = d
      BY DEF Elements, Recent
    <3>4. j \in kept /\ m <= j
      BY <2>2, <3>1, <3>2
    <3>5. ~(k < j)
      BY <1>1, <3>1, <3>2, <3>3 DEF Sorted
    <3>6. k \in m .. Len(s)
      BY <1>1, <2>3, <3>4, <3>5
    <3> QED BY <3>3, <3>6
  <2>10. {s[k] : k \in m .. Len(s)} = recent
    <3> HIDE DEF recent
    <3> QED BY <2>8, <2>9
  <2> QED BY <2>4, <2>6, <2>7, <2>10
<1> QED BY <1>2, <1>3

\* Windows are aligned so that the time is in its window.
LEMMA Aligned ==
    ASSUME NEW t \in Nat, NEW w \in Nat \ {0}
    PROVE  /\ TumblingWindowStart(t, w) \in Int /\ TumblingWindowStart(t, w) <= t
           /\ t <= TumblingWindowStart(t, w) + w
<1>1. t \div w \in Int /\ (t \div w) * w \in Int
  OBVIOUS
<1>2. (t \div w) * w <= t
  OBVIOUS
<1>3. t <= (t \div w) * w + w
  OBVIOUS
<1> QED BY <1>1, <1>2, <1>3 DEF TumblingWindowStart

-----------------------------------------------------------------------------
(* Steps that leave what patterns and windows have taken up. *)

LEMMA EventTyped ==
    ASSUME TypeInv, NEW e \in DOMAIN events
    PROVE  /\ e \in Nat \ {0} /\ e \in DOMAIN calls /\ events[e] \in Event
           /\ events[e].at \in Nat /\ events[e].timestamp \in Int
<1>1. events \in Seq(Event) /\ calls \in Seq(Call) /\ Len(calls) = Len(events)
  BY DEF TypeInv
<1>2. e \in Nat \ {0} /\ e \in DOMAIN calls /\ events[e] \in Event
  BY <1>1
<1> QED BY <1>2 DEF Event

LEMMA CallTyped ==
    ASSUME TypeInv, NEW e \in DOMAIN calls
    PROVE  e \in Nat \ {0} /\ e \in DOMAIN events /\ calls[e] \in Call
<1>1. events \in Seq(Event) /\ calls \in Seq(Call) /\ Len(calls) = Len(events)
  BY DEF TypeInv
<1> QED BY <1>1

LEMMA WindowTyped ==
    ASSUME TypeInv, NEW i \in Ids
    PROVE  /\ i \in Nat \ {0} /\ windows[i] \in WindowType /\ windows[i].pattern \in Pattern
           /\ windows[i].group \in Key0 /\ windows[i].events \in Seq(Nat)
           /\ windows[i].start \in Int /\ windows[i].end \in Int
<1>1. windows \in Seq(WindowType) /\ i \in DOMAIN windows
  BY DEF TypeInv, Ids
<1>2. i \in Nat \ {0} /\ windows[i] \in WindowType
  BY <1>1
<1> QED BY <1>2 DEF WindowType

LEMMA KeyTyped ==
    ASSUME TypeInv, NEW e \in DOMAIN events, NEW p
    PROVE  Key(e, p) \in Key0
BY EventTyped DEF Key, Event, Key0

Later == \A e \in DOMAIN events : e \in DOMAIN events' /\ events'[e] = events[e]

LEMMA KeyStays ==
    ASSUME Later, NEW e \in DOMAIN events, NEW p, NEW m
    PROVE  Key(e, p)' = Key(e, p) /\ (Matches(e, m)' <=> Matches(e, m))
BY DEF Later, Key, Matches

\* What the window is of stays, and what it holds.
SameKind(i) ==
    /\ i \in Ids'
    /\ windows'[i].pattern = windows[i].pattern /\ windows'[i].group = windows[i].group
    /\ windows'[i].first = windows[i].first

SameWindow(i) ==
    /\ SameKind(i)
    /\ windows'[i].start = windows[i].start /\ windows'[i].end = windows[i].end
    /\ windows'[i].events = windows[i].events

LEMMA InLengthStays ==
    ASSUME Later, NEW i, SameKind(i), NEW p, p = windows[i].pattern, NEW e \in DOMAIN events,
           Elements(pushes[p]) \subseteq DOMAIN events,
           \A d : d <= e => (d \in Elements(pushes'[p]) <=> d \in Elements(pushes[p]))
    PROVE  InLength(i, e)' = InLength(i, e)
<1>1. \A d \in Elements(pushes[p]) : Key(d, p)' = Key(d, p) /\ events'[d] = events[d]
  BY KeyStays DEF Later
<1>2. events'[e] = events[e]
  BY DEF Later
<1>3. \A d : d <= e /\ d \in Elements(pushes'[p]) => d \in Elements(pushes[p])
  OBVIOUS
<1>4. \A d : d <= e /\ d \in Elements(pushes[p]) => d \in Elements(pushes'[p])
  OBVIOUS
<1>5. /\ windows'[i].pattern = p /\ windows'[i].group = windows[i].group
      /\ windows'[i].first = windows[i].first
  BY DEF SameKind
<1>6. Since(i, e)' = Since(i, e)
  BY <1>1, <1>3, <1>4, <1>5 DEF Since
<1>7. \A d \in Since(i, e) : events'[d] = events[d]
  BY <1>1 DEF Since
<1> QED BY <1>2, <1>5, <1>6, <1>7 DEF InLength

LEMMA CountedStays ==
    ASSUME IInv, Later, NEW n \in DOMAIN counted, n \in DOMAIN counted', counted'[n] = counted[n],
           \A i \in Ids : SameKind(i), UNCHANGED pushes, changes' = 0 => changes = 0
    PROVE  Counted(n)'
<1>1. PICK rep, i, p : rep = counted[n] /\ i = rep.window /\ p = windows[i].pattern
  OBVIOUS
<1> SUFFICES ASSUME rep.by # 0
             PROVE  Counted(n)'
  BY <1>1 DEF Counted
<1>2. /\ i \in Ids /\ rep.by \in Elements(pushes[p])
      /\ changes = 0 /\ InOrder(pushes[p]) => Elements(rep.events) = InLength(i, rep.by)
  BY <1>1 DEF IInv, Counted
<1>3. p \in Pattern
  BY <1>1, <1>2, WindowTyped DEF IInv
<1>4. Elements(pushes[p]) \subseteq DOMAIN events /\ rep.by \in DOMAIN events
  BY <1>2, <1>3 DEF IInv, Pushed
<1>5. PICK by : by = rep.by
  OBVIOUS
<1>6. InLength(i, by)' = InLength(i, by)
  <2>1. Elements(pushes'[p]) = Elements(pushes[p])
    BY DEF Elements
  <2> QED BY <1>1, <1>2, <1>4, <1>5, <2>1, InLengthStays
<1>7. counted'[n] = rep /\ windows'[i].pattern = p /\ i \in Ids'
  BY <1>1, <1>2 DEF SameKind
<1> QED BY <1>1, <1>2, <1>5, <1>6, <1>7 DEF Counted

LEMMA Quiet ==
    ASSUME IInv, TypeInv', Later, Timely', CurrentSound', Ids' = Ids, UNCHANGED pushes,
           \A i \in Ids : SameWindow(i),
           changes' = 0 => changes = 0,
           \A p \in Pattern, g \in Key0 : current'[p][g] \in {0, current[p][g]},
           \A e \in DOMAIN calls' : Visits(e)' /\ (changes' = 0 => Visited(e)'),
           counted' = counted \/ \E x : counted' = Append(counted, x) /\ x.by = 0
    PROVE  IInv'
<1>1. ASSUME NEW p \in Pattern
      PROVE  Pushed(p)' /\ PushesSorted(p)' /\ Elements(pushes[p]) \subseteq DOMAIN events
  <2>1. Pushed(p) /\ PushesSorted(p)
    BY DEF IInv
  <2>2. Pushed(p)'
    BY <2>1 DEF Pushed, Later, SameWindow, SameKind
  <2> QED BY <2>1, <2>2 DEF PushesSorted, Pushed
<1>2. ASSUME NEW i \in Ids
      PROVE  /\ Holds(i)'
             /\ ~PatternOf[windows[i].pattern].sliding =>
                   Ranged(i)' /\ (changes' = 0 => Apart(i)')
  <2>1. windows[i].pattern \in Pattern /\ SameWindow(i)
    BY WindowTyped DEF IInv
  <2>2. Elements(windows[i].events) \subseteq Elements(pushes[windows[i].pattern])
    BY DEF IInv, Holds
  <2>3. Elements(windows[i].events) \subseteq DOMAIN events
    BY <1>1, <2>1, <2>2
  <2>4. Holds(i)'
    <3>1. PICK p : p = windows[i].pattern
      OBVIOUS
    <3>2. \A e \in Elements(windows[i].events) :
             e \in Elements(pushes[p]) /\ Key(e, p)' = windows[i].group
      BY <2>3, <3>1, KeyStays DEF IInv, Holds
    <3>3. /\ windows'[i].pattern = p /\ windows'[i].group = windows[i].group
          /\ windows'[i].events = windows[i].events
      BY <2>1, <3>1 DEF SameWindow, SameKind
    <3> QED BY <3>2, <3>3 DEF Holds
  <2>5. ASSUME ~PatternOf[windows[i].pattern].sliding
        PROVE  Ranged(i)' /\ (changes' = 0 => Apart(i)')
    <3>1. Ranged(i) /\ (changes' = 0 => Apart(i))
      BY <2>5 DEF IInv
    <3>2. Ranged(i)'
      BY <2>1, <2>3, <3>1 DEF Ranged, SameWindow, SameKind, Later
    <3> QED BY <2>1, <3>1, <3>2 DEF Apart, SameWindow, SameKind
  <2> QED BY <2>4, <2>5
<1>3. ASSUME NEW p \in Pattern, NEW g \in Key0, changes' = 0, PatternOf[p].sliding,
             InOrder(pushes[p])
      PROVE  SlidingHeld(p, g)'
  <2>1. SlidingHeld(p, g) /\ current'[p][g] \in {0, current[p][g]}
    BY <1>3 DEF IInv
  <2>2. CASE current'[p][g] = 0
    BY <2>2 DEF SlidingHeld
  <2>3. CASE current'[p][g] # 0
    <3>1. PICK i : i = current[p][g]
      OBVIOUS
    <3>2. i # 0 /\ i = current'[p][g] /\ i \in Ids /\ windows[i].pattern = p
      BY <2>1, <2>3, <3>1 DEF IInv, CurrentSound
    <3>3. /\ windows'[i].events = windows[i].events /\ windows'[i].first = windows[i].first
          /\ SameKind(i)
      BY <3>2 DEF SameWindow, SameKind
    <3>4. /\ Sorted(windows[i].events)
          /\ \E e \in Elements(pushes[p]) :
               /\ Key(e, p) = g /\ \A d \in Elements(pushes[p]) : Key(d, p) = g => d <= e
               /\ windows[i].first <= e
               /\ Elements(windows[i].events) = InLength(i, e)
      BY <2>1, <3>1, <3>2 DEF SlidingHeld
    <3>5. PICK e \in Elements(pushes[p]) :
               /\ Key(e, p) = g /\ \A d \in Elements(pushes[p]) : Key(d, p) = g => d <= e
               /\ windows[i].first <= e
               /\ Elements(windows[i].events) = InLength(i, e)
      BY <3>4
    <3>6. e \in DOMAIN events /\ \A d \in Elements(pushes[p]) : Key(d, p)' = Key(d, p)
      BY <1>1, KeyStays
    <3>7. Elements(pushes'[p]) = Elements(pushes[p])
      BY DEF Elements
    <3>8. InLength(i, e)' = InLength(i, e)
      BY <1>1, <3>2, <3>3, <3>6, <3>7, InLengthStays
    <3> QED BY <3>2, <3>3, <3>4, <3>5, <3>6, <3>7, <3>8 DEF SlidingHeld
  <2> QED BY <2>2, <2>3
<1>4. ASSUME NEW n \in DOMAIN counted'
      PROVE  Counted(n)'
  <2>1. counted \in Seq(Counting)
    BY DEF IInv, TypeInv
  <2>2. CASE n \in DOMAIN counted /\ counted'[n] = counted[n]
    BY <2>2, CountedStays DEF SameWindow
  <2>3. CASE counted'[n].by = 0
    BY <2>3 DEF Counted
  <2> QED BY <2>1, <2>2, <2>3
<1>5. \A i \in Ids : windows'[i].pattern = windows[i].pattern
  BY DEF SameWindow, SameKind
<1> QED BY <1>1, <1>2, <1>3, <1>4, <1>5 DEF IInv

LEMMA OthersVisit ==
    ASSUME IInv, Later, NEW d \in DOMAIN calls, d \in DOMAIN calls', calls'[d] = calls[d],
           changes' = 0 =>
              /\ changes = 0 /\ patterns' = patterns
              /\ \A p \in Pattern : d \in Elements(pushes'[p]) <=> d \in Elements(pushes[p])
    PROVE  Visits(d)' /\ (changes' = 0 => Visited(d)')
<1>1. Visits(d) /\ (changes' = 0 => Visited(d)) /\ d \in DOMAIN events
  BY CallTyped DEF IInv
<1>2. \A m : Matches(d, m)' <=> Matches(d, m)
  BY <1>1, KeyStays
<1>3. Visits(d)'
  BY <1>1, <1>2 DEF Visits
<1>4. \A p : At(d, p)' <=> At(d, p)
  BY DEF At
<1>5. ASSUME changes' = 0
      PROVE  Visited(d)'
  BY <1>1, <1>2, <1>4, <1>5 DEF Visited
<1> QED BY <1>3, <1>5

LEMMA GoesTyped ==
    ASSUME TypeInv, NEW e \in DOMAIN calls, NEW pc, Goes(e, pc),
           pc \in Pcs
    PROVE  /\ calls' \in Seq(Call) /\ Len(calls') = Len(calls) /\ DOMAIN calls' = DOMAIN calls
           /\ calls'[e].pc = pc /\ calls'[e].pattern = calls[e].pattern
           /\ calls'[e].seen = calls[e].seen
           /\ \A d \in DOMAIN calls : d # e => calls'[d] = calls[d]
<1>1. PICK c : c = [calls[e] EXCEPT !.pc = pc]
  OBVIOUS
<1>2. /\ c \in Call /\ c.pc = pc /\ c.pattern = calls[e].pattern
      /\ c.seen = calls[e].seen
  BY <1>1, CallTyped DEF Call, Pcs
<1>3. calls' = [calls EXCEPT ![e] = c] /\ calls \in Seq(Call)
  BY <1>1 DEF Goes, TypeInv
<1> QED BY <1>2, <1>3

\* The windows and what is taken up stay, the calls move.
LEMMA CallsMove ==
    ASSUME IInv, TypeInv', Timely', Later, UNCHANGED <<windows, current, counted, pushes>>,
           changes' = changes,
           \A e \in DOMAIN calls' : Visits(e)' /\ (changes' = 0 => Visited(e)')
    PROVE  IInv'
<1>1. Ids' = Ids
  BY DEF Ids
<1>2. \A i \in Ids : SameWindow(i)
  BY <1>1 DEF SameWindow, SameKind
<1>3. CurrentSound'
  BY <1>1 DEF IInv, CurrentSound
<1> QED BY <1>1, <1>2, <1>3, Quiet

LEMMA ProcessEventKeeps ==
    ASSUME PatternsTyped, IInv, NEW t \in Topic, NEW g \in Key0, NEW age \in Ages,
           ProcessEvent(t, g, age)
    PROVE  IInv'
<1>1. /\ TypeInv /\ events \in Seq(Event) /\ calls \in Seq(Call) /\ Len(calls) = Len(events)
      /\ clock \in Nat
  BY DEF IInv, TypeInv
<1>2. PICK x : x = [topic |-> t, group |-> g, at |-> clock, timestamp |-> clock - age]
  OBVIOUS
<1>3. PICK c : c = [pc |-> "visit", pattern |-> <<>>, seen |-> {}, window |-> 0]
  OBVIOUS
<1>4. x \in Event /\ x.at = clock /\ c \in Call /\ c.pc = "visit" /\ c.seen = {}
  <2>1. clock - age \in Int
    BY <1>1 DEF PatternsTyped
  <2> QED BY <1>1, <1>2, <1>3, <2>1 DEF Event, Call, Pcs
<1>5. PICK n \in Nat : n = Len(events) + 1
  BY <1>1
<1>6. /\ events' = Append(events, x) /\ calls' = Append(calls, c)
      /\ UNCHANGED <<patterns, windows, current, counted, pushes, changes, clock>>
  BY <1>2, <1>3 DEF ProcessEvent
<1>7. /\ events' \in Seq(Event) /\ DOMAIN events' = DOMAIN events \cup {n} /\ events'[n] = x
      /\ \A e \in DOMAIN events : events'[e] = events[e]
      /\ n \notin DOMAIN events /\ Len(events') = n /\ \A e \in DOMAIN events : e < n
  BY <1>1, <1>4, <1>5, <1>6
<1>8. /\ calls' \in Seq(Call) /\ DOMAIN calls' = DOMAIN calls \cup {n} /\ calls'[n] = c
      /\ \A e \in DOMAIN calls : calls'[e] = calls[e]
      /\ Len(calls') = n
  BY <1>1, <1>4, <1>5, <1>6
<1>9. Later
  BY <1>7 DEF Later
<1>10. TypeInv'
  BY <1>1, <1>6, <1>7, <1>8 DEF TypeInv
<1>11. Timely'
  <2>1. ASSUME NEW e \in DOMAIN events', NEW d \in DOMAIN events', d <= e
        PROVE  events'[d].at <= events'[e].at
    <3>1. \A f \in DOMAIN events : events[f].at \in Nat /\ events[f].at <= clock /\ f \in Nat
      BY <1>1, EventTyped DEF IInv, Timely
    <3>2. CASE e \in DOMAIN events
      <4>1. d \in DOMAIN events
        BY <1>7, <2>1, <3>1, <3>2
      <4> QED BY <1>7, <2>1, <3>2, <4>1 DEF IInv, Timely
    <3>3. CASE e = n
      BY <1>1, <1>4, <1>7, <3>1, <3>3
    <3> QED BY <1>7, <3>2, <3>3
  <2>2. ASSUME NEW e \in DOMAIN events'
        PROVE  events'[e].at <= clock'
    BY <1>1, <1>4, <1>6, <1>7 DEF IInv, Timely
  <2> QED BY <2>1, <2>2 DEF Timely
<1>12. ASSUME NEW d \in DOMAIN calls'
       PROVE  Visits(d)' /\ (changes' = 0 => Visited(d)')
  <2>1. CASE d \in DOMAIN calls
    BY <1>6, <1>8, <1>9, <2>1, OthersVisit
  <2>2. CASE d = n
    <3>1. Visits(d)'
      BY <1>4, <1>8, <2>2 DEF Visits
    <3>2. \A p \in Pattern : n \notin Elements(pushes[p])
      BY <1>7 DEF IInv, Pushed
    <3>3. \A p : ~At(d, p)'
      BY <1>4, <1>8, <2>2 DEF At
    <3>4. Visited(d)'
      BY <1>4, <1>6, <1>8, <2>2, <3>2, <3>3 DEF Visited
    <3> QED BY <3>1, <3>4
  <2> QED BY <1>8, <2>1, <2>2
<1> QED BY <1>6, <1>9, <1>10, <1>11, <1>12, CallsMove

LEMMA VisitKeeps ==
    ASSUME PatternsTyped, IInv, NEW e \in DOMAIN calls, Visit(e)
    PROVE  IInv'
<1>1. /\ TypeInv /\ calls \in Seq(Call) /\ calls[e] \in Call /\ patterns \in Seq(Pattern)
      /\ e \in DOMAIN events
  BY CallTyped DEF IInv, TypeInv
<1>2. UNCHANGED <<patterns, events, windows, current, counted, pushes, changes, clock>>
  BY DEF Visit
<1>3. Later /\ Timely' /\ \A m : Matches(e, m)' <=> Matches(e, m)
  BY <1>2 DEF Later, Timely, IInv, Matches
<1> DEFINE left == {k \in DOMAIN patterns : /\ patterns[k] \notin calls[e].seen
                                            /\ Matches(e, PatternOf[patterns[k]].event)}
<1>4. calls[e].pc = "visit" /\ \A p : ~At(e, p)
  BY DEF Visit, At
<1>5. changes = 0 => \A p \in Pattern : e \in Elements(pushes[p]) <=>
                        p \in calls[e].seen /\ Matches(e, PatternOf[p].event)
  BY <1>4 DEF IInv, Visited
<1>6. CASE left = {} /\ Goes(e, "over")
  <2>1. /\ calls' \in Seq(Call) /\ Len(calls') = Len(calls) /\ DOMAIN calls' = DOMAIN calls
        /\ calls'[e].pc = "over" /\ calls'[e].seen = calls[e].seen
        /\ \A d \in DOMAIN calls : d # e => calls'[d] = calls[d]
    BY <1>1, <1>6, GoesTyped DEF Pcs
  <2>2. TypeInv'
    BY <1>1, <1>2, <2>1 DEF TypeInv
  <2>3. Visits(e)' /\ (changes' = 0 => Visited(e)')
    <3>1. \A p : ~At(e, p)'
      BY <2>1 DEF At
    <3>2. \A k \in DOMAIN patterns :
             Matches(e, PatternOf[patterns[k]].event) => patterns[k] \in calls[e].seen
      BY <1>6
    <3> QED BY <1>2, <1>3, <1>5, <2>1, <3>1, <3>2 DEF Visits, Visited
  <2>4. \A d \in DOMAIN calls' : Visits(d)' /\ (changes' = 0 => Visited(d)')
    BY <1>2, <1>3, <2>1, <2>3, OthersVisit
  <2> QED BY <1>2, <1>3, <2>2, <2>4, CallsMove
<1>7. ASSUME NEW n \in First(left),
             calls' = [calls EXCEPT
               ![e] = [pc |-> IF PatternOf[patterns[n]].sliding THEN "sliding" ELSE "tumbling",
                       pattern |-> <<patterns[n]>>, window |-> 0,
                       seen |-> @.seen \cup {patterns[k] : k \in 1 .. n}]]
      PROVE  IInv'
  <2>1. /\ n \in DOMAIN patterns /\ n \in Nat /\ \A k \in left : n <= k
        /\ 1 .. n \subseteq DOMAIN patterns /\ n \in 1 .. n
        /\ patterns[n] \notin calls[e].seen /\ Matches(e, PatternOf[patterns[n]].event)
    BY <1>1 DEF First
  <2>2. PICK p \in Pattern : p = patterns[n]
    BY <1>1, <2>1
  <2>3. PICK c : c = [pc |-> IF PatternOf[p].sliding THEN "sliding" ELSE "tumbling",
                      pattern |-> <<p>>, window |-> 0,
                      seen |-> calls[e].seen \cup {patterns[k] : k \in 1 .. n}]
    OBVIOUS
  <2>4. /\ c \in Call /\ c.pattern # <<>> /\ Head(c.pattern) = p
        /\ c.pc = (IF PatternOf[p].sliding THEN "sliding" ELSE "tumbling")
        /\ c.seen = calls[e].seen \cup {patterns[k] : k \in 1 .. n}
    <3>1. {patterns[k] : k \in 1 .. n} \subseteq Pattern
      BY <1>1, <2>1
    <3>2. calls[e].seen \subseteq Pattern
      BY <1>1 DEF Call
    <3>3. <<p>> \in Seq(Pattern) /\ <<p>> # <<>> /\ Head(<<p>>) = p
      OBVIOUS
    <3> QED BY <2>3, <3>1, <3>2, <3>3 DEF Call, Pcs
  <2>5. calls' = [calls EXCEPT ![e] = c]
    BY <1>7, <2>2, <2>3
  <2>6. /\ calls' \in Seq(Call) /\ Len(calls') = Len(calls) /\ DOMAIN calls' = DOMAIN calls
        /\ calls'[e] = c /\ \A d \in DOMAIN calls : d # e => calls'[d] = calls[d]
    BY <1>1, <2>4, <2>5
  <2>7. TypeInv'
    BY <1>1, <1>2, <2>6 DEF TypeInv
  <2>8. PatternOf[p].sliding \in BOOLEAN
    BY DEF PatternsTyped
  <2>9. Visits(e)'
    BY <1>3, <2>1, <2>2, <2>4, <2>6, <2>8 DEF Visits
  <2>10. \A q : At(e, q)' <=> q = p
    BY <2>4, <2>6 DEF At
  <2>11. ASSUME NEW k \in 1 .. n, patterns[k] \notin calls[e].seen, patterns[k] # p,
                Matches(e, PatternOf[patterns[k]].event)
         PROVE  FALSE
    BY <2>1, <2>2, <2>11
  <2>12. ASSUME changes' = 0
         PROVE  Visited(e)'
    <3>1. p \in c.seen
      BY <2>1, <2>2, <2>4
    <3>2. ASSUME NEW q \in Pattern
          PROVE  e \in Elements(pushes[q]) <=>
                   q \in c.seen /\ Matches(e, PatternOf[q].event) /\ q # p
      BY <1>2, <1>5, <2>1, <2>2, <2>4, <2>11, <2>12
    <3>3. c.pc # "over"
      BY <2>4
    <3> QED BY <1>2, <1>3, <2>6, <2>10, <3>1, <3>2, <3>3 DEF Visited
  <2>13. \A d \in DOMAIN calls' : Visits(d)' /\ (changes' = 0 => Visited(d)')
    BY <1>2, <1>3, <2>6, <2>9, <2>12, OthersVisit
  <2> QED BY <1>2, <1>3, <2>7, <2>13, CallsMove
<1> QED BY <1>6, <1>7 DEF Visit

LEMMA CurrentTyped ==
    ASSUME TypeInv, NEW p \in Pattern, NEW g \in Key0
    PROVE  /\ current \in [Pattern -> [Key0 -> Nat]] /\ current[p] \in [Key0 -> Nat]
           /\ current[p][g] \in Nat
BY DEF TypeInv

\* A window ends, and its match may be reported.
Ends(i) ==
    /\ windows' = [windows EXCEPT ![i].active = FALSE] /\ current' = Freed(i)
    /\ counted' = counted \/ counted' = Append(counted, Report(i, windows[i].events, 0))

LEMMA EndsParts ==
    ASSUME IInv, NEW i \in Ids, Ends(i)
    PROVE  /\ windows' \in Seq(WindowType) /\ Ids' = Ids /\ \A j \in Ids : SameWindow(j)
           /\ current' \in [Pattern -> [Key0 -> Nat]] /\ CurrentSound'
           /\ \A p \in Pattern, g \in Key0 : current'[p][g] \in {0, current[p][g]}
           /\ counted' \in Seq(Counting)
           /\ counted' = counted \/ \E x : counted' = Append(counted, x) /\ x.by = 0
<1>1. /\ TypeInv /\ windows \in Seq(WindowType) /\ windows[i] \in WindowType
      /\ windows[i].pattern \in Pattern /\ windows[i].group \in Key0
      /\ windows[i].events \in Seq(Nat) /\ i \in Nat /\ counted \in Seq(Counting)
  BY WindowTyped DEF IInv, TypeInv
<1>2. PICK w : w = [windows[i] EXCEPT !.active = FALSE]
  OBVIOUS
<1>3. /\ w \in WindowType /\ w.pattern = windows[i].pattern /\ w.group = windows[i].group
      /\ w.first = windows[i].first /\ w.start = windows[i].start /\ w.end = windows[i].end /\ w.events = windows[i].events
  BY <1>1, <1>2 DEF WindowType
<1>4. windows' = [windows EXCEPT ![i] = w]
  BY <1>2 DEF Ends
<1>5. /\ windows' \in Seq(WindowType) /\ Ids' = Ids /\ windows'[i] = w
      /\ \A j \in Ids : j # i => windows'[j] = windows[j]
  BY <1>1, <1>3, <1>4 DEF Ids
<1>6. ASSUME NEW j \in Ids
      PROVE  SameWindow(j)
  <2>1. CASE j = i
    BY <1>3, <1>5, <2>1 DEF SameWindow, SameKind
  <2>2. CASE j # i
    BY <1>5, <2>2 DEF SameWindow, SameKind
  <2> QED BY <2>1, <2>2
<1>7. PICK p, g : p = windows[i].pattern /\ g = windows[i].group
  OBVIOUS
<1>8. p \in Pattern /\ g \in Key0 /\ current[p] \in [Key0 -> Nat]
  BY <1>1, <1>7, CurrentTyped
<1>9. PICK row : row = [current[p] EXCEPT ![g] = 0]
  OBVIOUS
<1>10. /\ row \in [Key0 -> Nat] /\ row[g] = 0
       /\ \A h \in Key0 : h # g => row[h] = current[p][h]
  BY <1>8, <1>9
<1>11. current' = current \/ current' = [current EXCEPT ![p] = row]
  BY <1>7, <1>9 DEF Ends, Freed
<1>12. /\ current' \in [Pattern -> [Key0 -> Nat]]
       /\ \A q \in Pattern, h \in Key0 : current'[q][h] \in {0, current[q][h]}
  BY <1>1, <1>8, <1>10, <1>11 DEF TypeInv
<1>13. CurrentSound'
  BY <1>5, <1>6, <1>12 DEF IInv, CurrentSound, SameWindow, SameKind
<1>14. PICK x : x = Report(i, windows[i].events, 0)
  OBVIOUS
<1>15. x \in Counting /\ x.by = 0
  BY <1>1, <1>14 DEF Report, Counting
<1>16. counted' = counted \/ counted' = Append(counted, x)
  BY <1>14 DEF Ends
<1>17. counted' \in Seq(Counting)
  BY <1>1, <1>15, <1>16
<1> QED BY <1>5, <1>6, <1>7, <1>12, <1>13, <1>15, <1>16, <1>17

LEMMA HandleWindowEndKeeps ==
    ASSUME IInv, NEW i \in Ids, HandleWindowEnd(i)
    PROVE  IInv'
<1>1. UNCHANGED <<patterns, events, calls, pushes, changes, clock>>
  BY DEF HandleWindowEnd
<1>2. /\ windows' \in Seq(WindowType) /\ Ids' = Ids /\ \A j \in Ids : SameWindow(j)
      /\ current' \in [Pattern -> [Key0 -> Nat]] /\ CurrentSound'
      /\ \A p \in Pattern, g \in Key0 : current'[p][g] \in {0, current[p][g]}
      /\ counted' \in Seq(Counting)
      /\ counted' = counted \/ \E x : counted' = Append(counted, x) /\ x.by = 0
  <2>1. Ends(i)
    BY DEF HandleWindowEnd, WindowEnds, Ends
  <2> QED BY <2>1, EndsParts
<1>3. TypeInv'
  BY <1>1, <1>2 DEF IInv, TypeInv
<1>4. Later /\ Timely'
  BY <1>1 DEF Later, IInv, Timely
<1>5. \A d \in DOMAIN calls' : Visits(d)' /\ (changes' = 0 => Visited(d)')
  BY <1>1, <1>4, OthersVisit
<1> QED BY <1>1, <1>2, <1>3, <1>4, <1>5, Quiet

\* The window that byGroup names has ended, and the call awaits its callback.
LEMMA TumblingEndsKeeps ==
    ASSUME IInv, NEW e \in DOMAIN calls, calls[e].pc = "tumbling",
           NEW i, i = Found(e, Head(calls[e].pattern)), i # 0, WindowEnds(i),
           Goes(e, "reopening"), UNCHANGED <<pushes, patterns, events, changes, clock>>
    PROVE  IInv'
<1>1. TypeInv /\ e \in DOMAIN events /\ calls[e] \in Call
  BY CallTyped DEF IInv
<1>2. PICK p : p = Head(calls[e].pattern)
  OBVIOUS
<1>3. p \in Pattern /\ ~PatternOf[p].sliding /\ calls[e].pattern # <<>>
  <2>1. ~PatternOf[p].sliding /\ calls[e].pattern # <<>>
    BY <1>2 DEF IInv, Visits
  <2>2. calls[e].pattern \in Seq(Pattern)
    BY <1>1 DEF Call
  <2> QED BY <1>2, <2>1, <2>2
<1>4. i \in Ids /\ windows[i].pattern = p
  BY <1>1, <1>2, <1>3, KeyTyped DEF IInv, CurrentSound, Found
<1>5. /\ windows' \in Seq(WindowType) /\ Ids' = Ids /\ \A j \in Ids : SameWindow(j)
      /\ current' \in [Pattern -> [Key0 -> Nat]] /\ CurrentSound'
      /\ \A q \in Pattern, g \in Key0 : current'[q][g] \in {0, current[q][g]}
      /\ counted' \in Seq(Counting)
      /\ counted' = counted \/ \E x : counted' = Append(counted, x) /\ x.by = 0
  <2>1. Ends(i)
    BY DEF WindowEnds, Ends
  <2> QED BY <1>4, <2>1, EndsParts
<1>6. /\ calls' \in Seq(Call) /\ Len(calls') = Len(calls) /\ DOMAIN calls' = DOMAIN calls
      /\ calls'[e].pc = "reopening" /\ calls'[e].pattern = calls[e].pattern
      /\ calls'[e].seen = calls[e].seen
      /\ \A d \in DOMAIN calls : d # e => calls'[d] = calls[d]
  BY <1>1, GoesTyped DEF Pcs
<1>7. TypeInv'
  BY <1>1, <1>5, <1>6 DEF TypeInv
<1>8. Later /\ Timely' /\ \A m : Matches(e, m)' <=> Matches(e, m)
  BY DEF Later, IInv, Timely, Matches
<1>9. Visits(e)'
  <2>1. Matches(e, PatternOf[p].event)
    BY <1>2 DEF IInv, Visits
  <2> QED BY <1>2, <1>3, <1>6, <1>8, <2>1 DEF Visits
<1>10. \A q : At(e, q)' <=> At(e, q)
  BY <1>6 DEF At
<1>11. ASSUME changes' = 0
       PROVE  Visited(e)'
  BY <1>6, <1>8, <1>10, <1>11 DEF IInv, Visited
<1>12. \A d \in DOMAIN calls' : Visits(d)' /\ (changes' = 0 => Visited(d)')
  BY <1>6, <1>8, <1>9, <1>11, OthersVisit
<1> QED BY <1>3, <1>5, <1>7, <1>8, <1>12, Quiet

\* A callback returns or throws: the pattern has taken up the event, or has lost it.
LEMMA CallGoes ==
    ASSUME IInv, NEW e \in DOMAIN calls, NEW pc, Goes(e, pc),
           \/ calls[e].pc = "matched" /\ pc \in {"visit", "failed"}
           \/ calls[e].pc = "reopening" /\ pc = "lost",
           UNCHANGED <<patterns, events, pushes, changes, clock>>
    PROVE  /\ calls' \in Seq(Call) /\ Len(calls') = Len(calls) /\ Later /\ Timely'
           /\ \A d \in DOMAIN calls' : Visits(d)' /\ (changes' = 0 => Visited(d)')
<1>1. TypeInv /\ Visits(e) /\ (changes = 0 => Visited(e))
  BY DEF IInv
<1>2. /\ calls' \in Seq(Call) /\ Len(calls') = Len(calls) /\ DOMAIN calls' = DOMAIN calls
      /\ calls'[e].pc = pc /\ calls'[e].pattern = calls[e].pattern
      /\ calls'[e].seen = calls[e].seen
      /\ \A d \in DOMAIN calls : d # e => calls'[d] = calls[d]
  BY <1>1, GoesTyped DEF Pcs
<1>3. Later /\ Timely' /\ \A m : Matches(e, m)' <=> Matches(e, m)
  BY DEF Later, IInv, Timely, Matches
<1>4. pc # "over" /\ Visits(e)' /\ \A p : At(e, p)' <=> At(e, p)
  <2>1. CASE calls[e].pc = "matched" /\ pc \in {"visit", "failed"}
    BY <1>2, <2>1 DEF Visits, At
  <2>2. CASE calls[e].pc = "reopening" /\ pc = "lost"
    BY <1>2, <2>2 DEF Visits, At
  <2> QED BY <2>1, <2>2
<1>5. changes' = 0 => Visited(e)'
  BY <1>1, <1>2, <1>3, <1>4 DEF Visited
<1>6. \A d \in DOMAIN calls' : Visits(d)' /\ (changes' = 0 => Visited(d)')
  BY <1>2, <1>3, <1>4, <1>5, OthersVisit
<1> QED BY <1>2, <1>3, <1>6

LEMMA MatchReturnsKeeps ==
    ASSUME IInv, NEW e \in DOMAIN calls, MatchReturns(e)
    PROVE  IInv'
<1>1. /\ calls[e].pc = "matched" /\ Goes(e, "visit")
      /\ UNCHANGED <<patterns, events, current, counted, pushes, changes, clock>>
  BY DEF MatchReturns
<1>2. /\ calls' \in Seq(Call) /\ Len(calls') = Len(calls) /\ Later /\ Timely'
      /\ \A d \in DOMAIN calls' : Visits(d)' /\ (changes' = 0 => Visited(d)')
  BY <1>1, CallGoes
<1>3. PICK i, w : i = calls[e].window /\ w = [windows[i] EXCEPT !.triggered = FALSE]
  OBVIOUS
<1>4. windows' = [windows EXCEPT ![i] = w] /\ windows \in Seq(WindowType)
  BY <1>3 DEF MatchReturns, IInv, TypeInv
<1>5. i \in Ids =>
        /\ w \in WindowType /\ w.pattern = windows[i].pattern /\ w.group = windows[i].group
        /\ w.first = windows[i].first /\ w.start = windows[i].start
        /\ w.end = windows[i].end /\ w.events = windows[i].events
  BY <1>3, WindowTyped DEF IInv, WindowType
<1>6. /\ windows' \in Seq(WindowType) /\ Ids' = Ids
      /\ \A j \in Ids : windows'[j] = IF j = i THEN w ELSE windows[j]
  <2>1. CASE i \in Ids
    BY <1>4, <1>5, <2>1 DEF Ids
  <2>2. CASE i \notin Ids
    <3>1. windows' = windows
      BY <1>4, <2>2 DEF Ids
    <3> QED BY <1>4, <2>2, <3>1 DEF Ids
  <2> QED BY <2>1, <2>2
<1>7. \A j \in Ids : SameWindow(j)
  BY <1>5, <1>6 DEF SameWindow, SameKind
<1>8. TypeInv'
  BY <1>1, <1>2, <1>6 DEF IInv, TypeInv
<1>9. CurrentSound'
  <2>1. ASSUME NEW p \in Pattern, NEW g \in Key0, NEW c, c = current[p][g], c # 0
        PROVE  c \in Ids' /\ windows'[c].pattern = p /\ windows'[c].group = g
    <3>1. c \in Ids /\ windows[c].pattern = p /\ windows[c].group = g
      BY <2>1 DEF IInv, CurrentSound
    <3> QED BY <1>7, <3>1 DEF SameWindow, SameKind
  <2> QED BY <1>1, <2>1 DEF CurrentSound
<1>10. \A p \in Pattern, g \in Key0 : current'[p][g] \in {0, current[p][g]}
  BY <1>1
<1> QED BY <1>1, <1>9, <1>10, <1>2, <1>6, <1>7, <1>8, Quiet

LEMMA CallbackThrowsKeeps ==
    ASSUME IInv, NEW e \in DOMAIN calls, CallbackThrows(e)
    PROVE  IInv'
<1>1. UNCHANGED <<patterns, events, windows, current, counted, pushes, changes, clock>>
  BY DEF CallbackThrows
<1>2. /\ calls' \in Seq(Call) /\ Len(calls') = Len(calls) /\ Later /\ Timely'
      /\ \A d \in DOMAIN calls' : Visits(d)' /\ (changes' = 0 => Visited(d)')
  BY <1>1, CallGoes DEF CallbackThrows
<1>3. TypeInv'
  BY <1>1, <1>2 DEF IInv, TypeInv
<1> QED BY <1>1, <1>2, <1>3, CallsMove

-----------------------------------------------------------------------------
(* Changes of the patterns. *)

LEMMA MapIsSeq ==
    ASSUME NEW S, NEW T, NEW s \in Seq(S), NEW t, DOMAIN t = DOMAIN s,
           t = [i \in DOMAIN t |-> t[i]],
           \A i \in DOMAIN s : t[i] \in T
    PROVE  t \in Seq(T) /\ Len(t) = Len(s)
<1>1. Len(s) \in Nat /\ DOMAIN s = 1 .. Len(s)
  OBVIOUS
<1>2. t \in [1 .. Len(s) -> T]
  BY <1>1
<1> QED BY <1>1, <1>2

\* Windows leave the matcher or its list, and keep what they hold.
Marked ==
    /\ DOMAIN windows' = Ids /\ windows' = [i \in DOMAIN windows' |-> windows'[i]]
    /\ \A i \in Ids : windows'[i] \in {windows[i], [windows[i] EXCEPT !.listed = FALSE],
                                       [windows[i] EXCEPT !.active = FALSE]}

LEMMA MarkedSame ==
    ASSUME TypeInv, Marked
    PROVE  windows' \in Seq(WindowType) /\ Ids' = Ids /\ \A i \in Ids : SameWindow(i)
<1>1. Ids' = Ids
  BY DEF Marked, Ids
<1>2. ASSUME NEW i \in Ids
      PROVE  windows'[i] \in WindowType /\ SameWindow(i)
  <2>1. windows[i] \in WindowType
    BY WindowTyped
  <2>2. PICK u, v : /\ u = [windows[i] EXCEPT !.listed = FALSE]
                    /\ v = [windows[i] EXCEPT !.active = FALSE]
    OBVIOUS
  <2>3. /\ u \in WindowType /\ v \in WindowType
        /\ u.pattern = windows[i].pattern /\ u.group = windows[i].group
        /\ u.start = windows[i].start /\ u.end = windows[i].end
        /\ u.events = windows[i].events /\ u.first = windows[i].first
        /\ v.first = windows[i].first
        /\ v.pattern = windows[i].pattern /\ v.group = windows[i].group
        /\ v.start = windows[i].start /\ v.end = windows[i].end
        /\ v.events = windows[i].events
    BY <2>1, <2>2 DEF WindowType
  <2>4. windows'[i] \in {windows[i], u, v}
    BY <2>2 DEF Marked
  <2> QED BY <1>1, <2>1, <2>3, <2>4 DEF SameWindow, SameKind
<1>3. windows' \in Seq(WindowType)
  <2>1. windows \in Seq(WindowType) /\ DOMAIN windows' = DOMAIN windows
    BY DEF TypeInv, Marked, Ids
  <2>2. \A i \in DOMAIN windows : windows'[i] \in WindowType
    BY <1>2 DEF Ids
  <2>3. windows' = [i \in DOMAIN windows' |-> windows'[i]]
    BY DEF Marked
  <2> QED BY <2>1, <2>2, <2>3, MapIsSeq
<1> QED BY <1>1, <1>2, <1>3

\* The groups keep their windows, or lose them.
Freeing ==
    /\ current' \in [Pattern -> [Key0 -> Nat]]
    /\ \A p \in Pattern, g \in Key0 : current'[p][g] # 0 => current'[p][g] = current[p][g]

\* Calls forget patterns that they have seen.
Forgetting ==
    /\ calls' \in Seq(Call) /\ Len(calls') = Len(calls)
    /\ \A e \in DOMAIN calls : /\ calls'[e].pc = calls[e].pc
                               /\ calls'[e].pattern = calls[e].pattern

LEMMA SeenShrinks ==
    ASSUME TypeInv, NEW seen,
           calls' = [e \in DOMAIN calls |-> [calls[e] EXCEPT !.seen = seen[e]]],
           \A e \in DOMAIN calls : seen[e] \subseteq calls[e].seen
    PROVE  Forgetting
<1>1. calls \in Seq(Call)
  BY DEF TypeInv
<1>2. ASSUME NEW e \in DOMAIN calls
      PROVE  /\ calls'[e] \in Call /\ calls'[e].pc = calls[e].pc
             /\ calls'[e].pattern = calls[e].pattern
  BY CallTyped DEF Call
<1>3. DOMAIN calls' = DOMAIN calls /\ calls' = [i \in DOMAIN calls' |-> calls'[i]]
  OBVIOUS
<1>4. calls' \in Seq(Call) /\ Len(calls') = Len(calls)
  BY <1>1, <1>2, <1>3, MapIsSeq
<1> QED BY <1>2, <1>4 DEF Forgetting

LEMMA CallsStay ==
    ASSUME TypeInv, UNCHANGED calls
    PROVE  Forgetting
BY DEF TypeInv, Forgetting

LEMMA ChangeParts ==
    ASSUME PatternsTyped, IInv, Change
    PROVE  patterns' \in Seq(Pattern) /\ Marked /\ Freeing /\ Forgetting
<1>1. TypeInv /\ patterns \in Seq(Pattern) /\ current \in [Pattern -> [Key0 -> Nat]]
  BY DEF IInv, TypeInv
<1>2. ASSUME NEW p \in Changing, AddPattern(p)
      PROVE  patterns' \in Seq(Pattern) /\ Marked /\ Freeing /\ Forgetting
  <2>1. patterns' \in Seq(Pattern)
    BY <1>1, <1>2 DEF AddPattern, PatternsTyped
  <2>2. Marked
    BY <1>2 DEF AddPattern, Marked
  <2>3. Freeing
    BY <1>1, <1>2 DEF AddPattern, Freeing
  <2>4. Forgetting
    BY <1>1, <1>2, CallsStay DEF AddPattern
  <2> QED BY <2>1, <2>2, <2>3, <2>4
<1>3. ASSUME NEW p \in Changing, RemovePattern(p)
      PROVE  patterns' \in Seq(Pattern) /\ Marked /\ Freeing /\ Forgetting
  <2>1. patterns' \in Seq(Pattern)
    <3>1. PICK k \in DOMAIN patterns : patterns' = RemoveAt(patterns, k)
      BY <1>3 DEF RemovePattern
    <3> QED BY <1>1, <3>1 DEF RemoveAt
  <2>2. Marked
    BY <1>3 DEF RemovePattern, Marked
  <2>3. Freeing
    <3>1. p \in Pattern /\ current[p] \in [Key0 -> Nat]
      BY <1>1 DEF PatternsTyped
    <3>2. PICK row : row = [g \in DOMAIN current[p] |->
               IF current[p][g] # 0 /\ windows[current[p][g]].listed THEN 0 ELSE current[p][g]]
      OBVIOUS
    <3>3. row \in [Key0 -> Nat] /\ \A g \in Key0 : row[g] # 0 => row[g] = current[p][g]
      BY <3>1, <3>2
    <3>4. current' = [current EXCEPT ![p] = row]
      BY <1>3, <3>2 DEF RemovePattern
    <3> QED BY <1>1, <3>1, <3>3, <3>4 DEF Freeing
  <2>4. Forgetting
    <3>1. PICK seen : seen = [e \in DOMAIN calls |-> calls[e].seen \ {p}]
      OBVIOUS
    <3>2. calls' = [e \in DOMAIN calls |-> [calls[e] EXCEPT !.seen = seen[e]]]
      BY <1>3, <3>1 DEF RemovePattern
    <3>3. \A e \in DOMAIN calls : seen[e] \subseteq calls[e].seen
      BY <3>1
    <3> QED BY <1>1, <3>2, <3>3, SeenShrinks
  <2> QED BY <2>1, <2>2, <2>3, <2>4
<1>4. ASSUME Clear
      PROVE  patterns' \in Seq(Pattern) /\ Marked /\ Freeing /\ Forgetting
  <2>1. patterns' \in Seq(Pattern)
    <3>1. patterns' = patterns \/ patterns' = <<>>
      BY <1>4 DEF Clear
    <3>2. <<>> \in Seq(Pattern)
      OBVIOUS
    <3> QED BY <1>1, <3>1, <3>2
  <2>2. Marked
    BY <1>4 DEF Clear, Marked
  <2>3. Freeing
    BY <1>1, <1>4 DEF Clear, Freeing
  <2>4. Forgetting
    <3>1. CASE UNCHANGED calls
      BY <1>1, <3>1, CallsStay
    <3>2. CASE calls' = [e \in DOMAIN calls |-> [calls[e] EXCEPT !.seen = {}]]
      <4>1. PICK seen : seen = [e \in DOMAIN calls |-> {}]
        OBVIOUS
      <4>2. calls' = [e \in DOMAIN calls |-> [calls[e] EXCEPT !.seen = seen[e]]]
        BY <3>2, <4>1
      <4>3. \A e \in DOMAIN calls : seen[e] \subseteq calls[e].seen
        BY <4>1
      <4> QED BY <1>1, <4>2, <4>3, SeenShrinks
    <3> QED BY <1>4, <3>1, <3>2 DEF Clear
  <2> QED BY <2>1, <2>2, <2>3, <2>4
<1> QED BY <1>2, <1>3, <1>4 DEF Change

LEMMA ChangeKeeps ==
    ASSUME PatternsTyped, IInv, Change
    PROVE  IInv'
<1>1. changes' = changes + 1 /\ UNCHANGED <<events, counted, pushes, clock>>
  BY DEF Change
<1>2. patterns' \in Seq(Pattern) /\ Marked /\ Freeing /\ Forgetting /\ TypeInv
  BY ChangeParts DEF IInv
<1>3. windows' \in Seq(WindowType) /\ Ids' = Ids /\ \A i \in Ids : SameWindow(i)
  BY <1>2, MarkedSame
<1>4. TypeInv' /\ changes' # 0
  BY <1>1, <1>2, <1>3 DEF TypeInv, Freeing, Forgetting
<1>5. Later /\ Timely'
  BY <1>1 DEF Later, IInv, Timely
<1>6. CurrentSound'
  <2>1. ASSUME NEW p \in Pattern, NEW g \in Key0, current'[p][g] # 0
        PROVE  /\ current'[p][g] \in Ids' /\ windows'[current'[p][g]].pattern = p
               /\ windows'[current'[p][g]].group = g
    <3>1. current'[p][g] = current[p][g]
      BY <1>2, <2>1 DEF Freeing
    <3>2. /\ current[p][g] \in Ids /\ windows[current[p][g]].pattern = p
          /\ windows[current[p][g]].group = g
      BY <2>1, <3>1 DEF IInv, CurrentSound
    <3> QED BY <1>3, <3>1, <3>2 DEF SameWindow, SameKind
  <2> QED BY <2>1 DEF CurrentSound
<1>7. ASSUME NEW e \in DOMAIN calls'
      PROVE  Visits(e)'
  <2>1. e \in DOMAIN calls
    BY <1>2, <1>7 DEF Forgetting, TypeInv
  <2>2. \A m : Matches(e, m)' <=> Matches(e, m)
    BY <1>1 DEF Matches
  <2> QED BY <1>2, <2>1, <2>2 DEF IInv, Visits, Forgetting
<1>8. \A p \in Pattern, g \in Key0 : current'[p][g] \in {0, current[p][g]}
  BY <1>2 DEF Freeing
<1> QED BY <1>1, <1>3, <1>4, <1>5, <1>6, <1>7, <1>8, Quiet

LEMMA TickKeeps ==
    ASSUME IInv, clock' \in Nat, clock' >= clock,
           UNCHANGED <<patterns, events, calls, windows, current, counted, pushes, changes>>
    PROVE  IInv'
<1>1. TypeInv'
  BY DEF IInv, TypeInv
<1>2. Later
  BY DEF Later
<1>3. Timely'
  <2>1. \A e \in DOMAIN events : events[e].at \in Nat
    BY EventTyped DEF IInv
  <2> QED BY <2>1 DEF IInv, Timely, TypeInv
<1>4. \A e \in DOMAIN calls' : Visits(e)' /\ (changes' = 0 => Visited(e)')
  BY <1>2, OthersVisit
<1> QED BY <1>1, <1>2, <1>3, <1>4, CallsMove

-----------------------------------------------------------------------------
(* A pattern takes up the event of a call. *)

CallMoves(e) == \E c \in Call :
    c.pc \in {"visit", "matched"} /\ c.seen = calls[e].seen /\ calls' = [calls EXCEPT ![e] = c]

Takes(e, p) ==
    /\ e \in DOMAIN calls /\ At(e, p) /\ calls[e].pc # "lost"
    /\ CallMoves(e) /\ TakenUp(e, p) /\ UNCHANGED <<patterns, events, changes, clock>>

LEMMA GoesMoves ==
    ASSUME TypeInv, NEW e \in DOMAIN calls, Goes(e, "visit")
    PROVE  CallMoves(e)
<1>1. PICK c : c = [calls[e] EXCEPT !.pc = "visit"]
  OBVIOUS
<1>2. c \in Call /\ c.pc = "visit" /\ c.seen = calls[e].seen
  BY <1>1, CallTyped DEF Call, Pcs
<1> QED BY <1>1, <1>2 DEF Goes, CallMoves

LEMMA TakesParts ==
    ASSUME IInv, NEW e, NEW p, Takes(e, p)
    PROVE  /\ p \in Pattern /\ e \in DOMAIN events /\ e \in Nat \ {0}
           /\ calls' \in Seq(Call) /\ Len(calls') = Len(calls)
           /\ \A d \in DOMAIN calls' : Visits(d)' /\ (changes' = 0 => Visited(d)')
           /\ pushes' \in [Pattern -> Seq(Nat)]
           /\ \A q \in Pattern : q # p => pushes'[q] = pushes[q]
           /\ Elements(pushes'[p]) = Elements(pushes[p]) \cup {e}
           /\ changes = 0 => e \notin Elements(pushes[p])
           /\ \A q \in Pattern : PushesSorted(q)'
           /\ InOrder(pushes'[p]) => /\ InOrder(pushes[p])
                                     /\ \A d \in Elements(pushes[p]) : d < e
<1>1. /\ TypeInv /\ e \in DOMAIN calls /\ e \in DOMAIN events /\ e \in Nat \ {0}
      /\ calls[e] \in Call /\ pushes \in [Pattern -> Seq(Nat)]
  BY CallTyped DEF IInv, TypeInv, Takes
<1>2. p \in Pattern
  <2>1. calls[e].pattern \in Seq(Pattern) /\ calls[e].pattern # <<>> /\ Head(calls[e].pattern) = p
    BY <1>1 DEF Call, Takes, At
  <2> QED BY <2>1
<1>3. PICK s : s = pushes[p]
  OBVIOUS
<1>4. s \in Seq(Nat) /\ pushes' = [pushes EXCEPT ![p] = Append(s, e)]
  BY <1>1, <1>2, <1>3 DEF Takes, TakenUp
<1>5. /\ Append(s, e) \in Seq(Nat) /\ Elements(Append(s, e)) = Elements(s) \cup {e}
  BY <1>1, <1>4, Appended
<1>6. /\ pushes' \in [Pattern -> Seq(Nat)] /\ pushes'[p] = Append(s, e)
      /\ \A q \in Pattern : q # p => pushes'[q] = pushes[q]
  BY <1>1, <1>2, <1>4, <1>5
<1>7. InOrder(s) => Sorted(s)
  BY <1>2, <1>3 DEF IInv, PushesSorted
<1>8. InOrder(pushes'[p]) =>
         InOrder(s) /\ Sorted(pushes'[p]) /\ \A d \in Elements(s) : d < e
  BY <1>1, <1>4, <1>6, <1>7, SortedAppend
<1>9. \A q \in Pattern : PushesSorted(q)'
  BY <1>2, <1>6, <1>8 DEF IInv, PushesSorted
<1>10. changes = 0 => e \notin Elements(pushes[p])
  BY <1>1, <1>2 DEF IInv, Visited, Takes
<1>11. /\ calls' \in Seq(Call) /\ Len(calls') = Len(calls) /\ DOMAIN calls' = DOMAIN calls
       /\ calls'[e].pc \in {"visit", "matched"} /\ calls'[e].seen = calls[e].seen
       /\ \A d \in DOMAIN calls : d # e => calls'[d] = calls[d]
  <2>1. PICK c \in Call : /\ c.pc \in {"visit", "matched"} /\ c.seen = calls[e].seen
                          /\ calls' = [calls EXCEPT ![e] = c]
    BY DEF Takes, CallMoves
  <2>2. calls \in Seq(Call)
    BY <1>1 DEF TypeInv
  <2> QED BY <1>1, <2>1, <2>2
<1>12. UNCHANGED <<patterns, events, changes>> /\ Later /\ \A m : Matches(e, m)' <=> Matches(e, m)
  BY DEF Takes, Later, Matches
<1>13. ASSUME NEW d \in DOMAIN calls'
       PROVE  Visits(d)' /\ (changes' = 0 => Visited(d)')
  <2>1. CASE d # e
    <3>1. \A q \in Pattern : d \in Elements(pushes'[q]) <=> d \in Elements(pushes[q])
      <4>1. Elements(pushes'[p]) = Elements(pushes[p]) \cup {e}
        BY <1>3, <1>5, <1>6
      <4>2. \A q \in Pattern : q # p => Elements(pushes'[q]) = Elements(pushes[q])
        BY <1>6 DEF Elements
      <4> QED BY <2>1, <4>1, <4>2
    <3> QED BY <1>11, <1>12, <2>1, <3>1, OthersVisit
  <2>2. CASE d = e
    <3>1. Visits(e)' /\ \A q : ~At(e, q)'
      BY <1>11 DEF Visits, At
    <3>2. /\ \A q : At(e, q) <=> q = p
          /\ Matches(e, PatternOf[p].event)
      BY <1>1 DEF Takes, At, IInv, Visits
    <3>3. ASSUME changes = 0
          PROVE  Visited(e)'
      <4>1. /\ p \in calls[e].seen
            /\ \A q \in Pattern : e \in Elements(pushes[q]) <=>
                  q \in calls[e].seen /\ Matches(e, PatternOf[q].event) /\ ~At(e, q)
        BY <1>1, <1>2, <3>2, <3>3 DEF IInv, Visited
      <4>2. \A q \in Pattern : e \in Elements(pushes'[q]) <=>
                  q \in calls[e].seen /\ Matches(e, PatternOf[q].event)
        BY <1>5, <1>6, <3>2, <4>1
      <4> QED BY <1>11, <1>12, <3>1, <4>2 DEF Visited
    <3> QED BY <1>12, <2>2, <3>1, <3>3
  <2> QED BY <2>1, <2>2
<1> QED BY <1>1, <1>2, <1>3, <1>5, <1>6, <1>8, <1>9, <1>10, <1>11, <1>13

\* What the window held that is to hold the event.
Before(i) == IF i \in Ids THEN Elements(windows[i].events) ELSE {}

\* The event is in window i, which is the one of its group from now on.
Placed(e, p, i) ==
    /\ windows' \in Seq(WindowType) /\ Ids' = Ids \cup {i}
    /\ \A j \in Ids : j # i => windows'[j] = windows[j]
    /\ windows'[i].pattern = p /\ windows'[i].group = Key(e, p)
    /\ i \in Ids => SameKind(i) /\ windows[i].group = Key(e, p)
    /\ Elements(windows'[i].events) \subseteq Before(i) \cup {e}
    /\ ~PatternOf[p].sliding => Elements(windows'[i].events) = Before(i) \cup {e}
    /\ current' \in [Pattern -> [Key0 -> Nat]] /\ current'[p][Key(e, p)] = i
    /\ \A q \in Pattern, g \in Key0 :
          (q # p \/ g # Key(e, p)) => current'[q][g] = current[q][g]

\* Matches before stay right, as the event is later than what they counted.
LEMMA CountedLater ==
    ASSUME IInv, NEW e, NEW p, Takes(e, p), NEW i, Placed(e, p, i),
           NEW n \in DOMAIN counted, counted'[n] = counted[n]
    PROVE  Counted(n)'
<1>1. PICK rep, k, q, by : /\ rep = counted[n] /\ k = rep.window /\ by = rep.by
                           /\ q = windows[k].pattern
  OBVIOUS
<1> SUFFICES ASSUME by # 0
             PROVE  Counted(n)'
  BY <1>1 DEF Counted
<1>2. /\ k \in Ids /\ by \in Elements(pushes[q])
      /\ changes = 0 /\ InOrder(pushes[q]) => Elements(rep.events) = InLength(k, by)
  BY <1>1 DEF IInv, Counted
<1>3. q \in Pattern /\ SameKind(k)
  <2>1. q \in Pattern
    BY <1>1, <1>2, WindowTyped DEF IInv
  <2>2. SameKind(k)
    BY <1>2 DEF Placed, SameKind
  <2> QED BY <2>1, <2>2
<1>4. Elements(pushes[q]) \subseteq DOMAIN events /\ by \in DOMAIN events
  BY <1>2, <1>3 DEF IInv, Pushed
<1>5. Later /\ changes' = changes
  BY DEF Later, Takes
<1>6. /\ by \in Elements(pushes'[q])
      /\ InOrder(pushes'[q]) =>
           /\ InOrder(pushes[q])
           /\ \A d : d <= by => (d \in Elements(pushes'[q]) <=> d \in Elements(pushes[q]))
  <2>1. CASE q # p
    <3>1. pushes'[q] = pushes[q]
      BY <1>3, <2>1, TakesParts
    <3> QED BY <1>2, <3>1 DEF Elements
  <2>2. CASE q = p
    <3>1. /\ Elements(pushes'[p]) = Elements(pushes[p]) \cup {e} /\ e \in Nat
          /\ InOrder(pushes'[p]) => InOrder(pushes[p]) /\ \A d \in Elements(pushes[p]) : d < e
      BY TakesParts
    <3>2. by \in Nat
      BY <1>4, EventTyped DEF IInv
    <3> QED BY <1>2, <2>2, <3>1, <3>2
  <2> QED BY <2>1, <2>2
<1>7. ASSUME InOrder(pushes'[q])
      PROVE  InLength(k, by)' = InLength(k, by)
  <2>1. \A d : d <= by => (d \in Elements(pushes'[q]) <=> d \in Elements(pushes[q]))
    BY <1>6, <1>7
  <2> QED BY <1>1, <1>3, <1>4, <1>5, <2>1, InLengthStays
<1>8. counted'[n] = rep /\ windows'[k].pattern = q /\ k \in Ids'
  BY <1>1, <1>3 DEF SameKind
<1> QED BY <1>1, <1>2, <1>5, <1>6, <1>7, <1>8 DEF Counted

\* A window that has an event has it from the pattern, or has just got it.
LEMMA PlacedHolds ==
    ASSUME IInv, NEW e, NEW p, Takes(e, p), NEW i, Placed(e, p, i)
    PROVE  /\ \A j \in Ids' : Holds(j)'
           /\ \A q \in Pattern : Pushed(q)'
           /\ CurrentSound'
<1>1. /\ p \in Pattern /\ e \in DOMAIN events
      /\ \A q \in Pattern : q # p => pushes'[q] = pushes[q]
      /\ Elements(pushes'[p]) = Elements(pushes[p]) \cup {e}
  <2>1. p \in Pattern /\ e \in DOMAIN events
    BY TakesParts
  <2>2. \A q \in Pattern : q # p => pushes'[q] = pushes[q]
    BY TakesParts
  <2>3. Elements(pushes'[p]) = Elements(pushes[p]) \cup {e}
    BY TakesParts
  <2> QED BY <2>1, <2>2, <2>3
<1>2. events' = events /\ \A d, q : Key(d, q)' = Key(d, q)
  BY DEF Takes, Key
<1>3. ASSUME NEW j \in Ids'
      PROVE  Holds(j)'
  <2>1. CASE j = i
    <3>1. \A d \in Before(i) : d \in Elements(pushes[p]) /\ Key(d, p) = Key(e, p)
      BY DEF Before, Placed, SameKind, IInv, Holds
    <3>2. /\ windows'[i].pattern = p /\ windows'[i].group = Key(e, p)
          /\ Elements(windows'[i].events) \subseteq Before(i) \cup {e}
      BY DEF Placed
    <3> QED BY <1>1, <1>2, <2>1, <3>1, <3>2 DEF Holds
  <2>2. CASE j # i
    <3>1. j \in Ids /\ windows'[j] = windows[j]
      BY <2>2 DEF Placed
    <3>2. PICK q : q = windows[j].pattern
      OBVIOUS
    <3>3. q \in Pattern /\ \A d \in Elements(windows[j].events) :
             d \in Elements(pushes[q]) /\ Key(d, q) = windows[j].group
      BY <3>1, <3>2, WindowTyped DEF IInv, Holds
    <3>4. Elements(pushes[q]) \subseteq Elements(pushes'[q])
      <4>1. CASE q = p
        BY <1>1, <4>1
      <4>2. CASE q # p
        BY <1>1, <3>3, <4>2 DEF Elements
      <4> QED BY <4>1, <4>2
    <3> QED BY <1>2, <3>1, <3>2, <3>3, <3>4 DEF Holds
  <2> QED BY <2>1, <2>2
<1>4. ASSUME NEW q \in Pattern
      PROVE  Pushed(q)'
  <2>1. Pushed(q)
    BY DEF IInv
  <2>2. CASE q # p
    <3>1. pushes'[q] = pushes[q]
      BY <1>1, <2>2
    <3>2. \A j \in Ids : windows[j].pattern = q => j \in Ids' /\ windows'[j] = windows[j]
      BY <2>2 DEF Placed, SameKind
    <3> QED BY <1>2, <2>1, <3>1, <3>2 DEF Pushed
  <2>3. CASE q = p
    <3>1. \A d \in Elements(pushes'[p]) : d \in DOMAIN events
      BY <1>1, <2>1, <2>3 DEF Pushed
    <3>2. ASSUME NEW d \in Elements(pushes'[p]), ~PatternOf[p].sliding
          PROVE  \E j \in Ids' : windows'[j].pattern = p /\ d \in Elements(windows'[j].events)
      <4>1. /\ i \in Ids' /\ windows'[i].pattern = p
            /\ Elements(windows'[i].events) = Before(i) \cup {e}
        BY <3>2 DEF Placed
      <4>2. CASE d = e
        BY <4>1, <4>2
      <4>3. CASE d # e
        <5>1. PICK j \in Ids : windows[j].pattern = p /\ d \in Elements(windows[j].events)
          BY <1>1, <2>1, <2>3, <3>2, <4>3 DEF Pushed
        <5>2. CASE j = i
          BY <4>1, <5>1, <5>2 DEF Before
        <5>3. CASE j # i
          BY <5>1, <5>3 DEF Placed
        <5> QED BY <5>2, <5>3
      <4> QED BY <4>2, <4>3
    <3> QED BY <1>2, <2>3, <3>1, <3>2 DEF Pushed
  <2> QED BY <2>2, <2>3
<1>5. ASSUME NEW q \in Pattern, NEW g \in Key0, NEW c, c = current'[q][g], c # 0
      PROVE  c \in Ids' /\ windows'[c].pattern = q /\ windows'[c].group = g
  <2>1. CASE q = p /\ g = Key(e, p)
    BY <1>5, <2>1 DEF Placed
  <2>2. CASE q # p \/ g # Key(e, p)
    <3>1. c = current[q][g]
      BY <1>5, <2>2 DEF Placed
    <3>2. c \in Ids /\ windows[c].pattern = q /\ windows[c].group = g
      BY <1>5, <3>1 DEF IInv, CurrentSound
    <3>3. c # i
      BY <2>2, <3>2 DEF Placed, SameKind
    <3> QED BY <3>2, <3>3 DEF Placed
  <2> QED BY <2>1, <2>2
<1>6. CurrentSound'
  BY <1>5 DEF CurrentSound
<1> QED BY <1>3, <1>4, <1>6

\* The event is in one window of a tumbling pattern, and the others keep their range.
LEMMA PlacedApart ==
    ASSUME IInv, NEW e, NEW p, Takes(e, p), NEW i, Placed(e, p, i)
    PROVE  \A j \in Ids' : ~PatternOf[windows'[j].pattern].sliding =>
              /\ j # i => Ranged(j)'
              /\ changes' = 0 => Apart(j)'
<1>1. /\ p \in Pattern /\ e \in DOMAIN events
      /\ \A q \in Pattern : q # p => pushes'[q] = pushes[q]
      /\ InOrder(pushes'[p]) => InOrder(pushes[p])
      /\ changes = 0 => e \notin Elements(pushes[p])
  BY TakesParts
<1>2. events' = events /\ changes' = changes
  BY DEF Takes
<1>3. \A j \in Ids : j # i => windows'[j] = windows[j]
  BY DEF Placed
<1>4. ASSUME NEW j \in Ids, j # i, ~PatternOf[windows[j].pattern].sliding
      PROVE  Ranged(j)'
  <2>1. Ranged(j) /\ windows[j].pattern \in Pattern
    BY <1>4, WindowTyped DEF IInv
  <2>2. InOrder(pushes'[windows[j].pattern]) => InOrder(pushes[windows[j].pattern])
    BY <1>1, <2>1
  <2> QED BY <1>2, <1>3, <1>4, <2>1, <2>2 DEF Ranged
<1>5. ASSUME NEW j \in Ids', NEW k \in Ids', changes = 0,
             ~PatternOf[windows'[j].pattern].sliding,
             windows'[k].pattern = windows'[j].pattern,
             NEW d \in Elements(windows'[j].events), d \in Elements(windows'[k].events)
      PROVE  k = j
  <2>1. \A l \in Ids : windows[l].pattern = p => e \notin Elements(windows[l].events)
    BY <1>1, <1>5 DEF IInv, Holds
  <2>2. \A l \in Ids : \A m \in Ids : \A x \in Elements(windows[l].events) :
           ~PatternOf[windows[l].pattern].sliding /\ windows[m].pattern = windows[l].pattern
              /\ x \in Elements(windows[m].events) => m = l
    BY <1>5 DEF IInv, Apart
  <2>3. Elements(windows'[i].events) \subseteq Before(i) \cup {e} /\ windows'[i].pattern = p
    BY DEF Placed
  <2>4. /\ \A l \in Ids' : l # i => l \in Ids
        /\ i \in Ids => windows[i].pattern = p
    BY DEF Placed, SameKind
  <2>5. CASE j = i /\ k # i
    <3>1. k \in Ids /\ windows'[k] = windows[k] /\ windows[k].pattern = p
      BY <1>3, <1>5, <2>3, <2>4, <2>5
    <3>2. d # e
      BY <1>5, <2>1, <3>1
    <3>3. i \in Ids /\ d \in Elements(windows[i].events)
      BY <1>5, <2>3, <2>5, <3>2 DEF Before
    <3> QED BY <1>5, <2>2, <2>3, <2>4, <2>5, <3>1, <3>3
  <2>6. CASE j # i /\ k = i
    <3>1. j \in Ids /\ windows'[j] = windows[j] /\ windows[j].pattern = p
      BY <1>3, <1>5, <2>3, <2>4, <2>6
    <3>2. d # e
      BY <1>5, <2>1, <3>1
    <3>3. i \in Ids /\ d \in Elements(windows[i].events)
      BY <1>5, <2>3, <2>6, <3>2 DEF Before
    <3> QED BY <1>5, <2>2, <2>3, <2>4, <2>6, <3>1, <3>3
  <2>7. CASE j # i /\ k # i
    BY <1>3, <1>5, <2>2, <2>4, <2>7
  <2> QED BY <2>5, <2>6, <2>7
<1>6. ASSUME NEW j \in Ids', changes = 0, ~PatternOf[windows'[j].pattern].sliding
      PROVE  Apart(j)'
  BY <1>5, <1>6 DEF Apart
<1> QED BY <1>2, <1>3, <1>4, <1>6 DEF Placed

\* The sliding windows of other groups and patterns hold what they did.
LEMMA PlacedBeside ==
    ASSUME IInv, NEW e, NEW p, Takes(e, p), NEW i, Placed(e, p, i), changes = 0,
           NEW q \in Pattern, NEW g \in Key0, q # p \/ g # Key(e, p),
           PatternOf[q].sliding, InOrder(pushes'[q])
    PROVE  SlidingHeld(q, g)'
<1>1. p \in Pattern /\ e \in DOMAIN events
  BY TakesParts
<1>2. \A r \in Pattern : r # p => pushes'[r] = pushes[r]
  BY TakesParts
<1>3. Elements(pushes'[p]) = Elements(pushes[p]) \cup {e}
  BY TakesParts
<1>4. InOrder(pushes'[p]) => InOrder(pushes[p])
  BY TakesParts
<1>5. events' = events /\ \A d : Key(d, q)' = Key(d, q)
  BY DEF Takes, Key
<1>6. current'[q][g] = current[q][g] /\ SlidingHeld(q, g)
  BY <1>2, <1>4 DEF Placed, IInv
<1>7. \A d \in Elements(pushes'[q]) :
         Key(d, q) = g => d \in Elements(pushes[q])
  <2>1. CASE q = p
    BY <1>3, <2>1
  <2>2. CASE q # p
    BY <1>2, <2>2 DEF Elements
  <2> QED BY <2>1, <2>2
<1>8. Elements(pushes[q]) \subseteq Elements(pushes'[q])
  <2>1. CASE q = p
    BY <1>3, <2>1
  <2>2. CASE q # p
    BY <1>2, <2>2 DEF Elements
  <2> QED BY <2>1, <2>2
<1>9. CASE current[q][g] = 0
  BY <1>6, <1>9 DEF SlidingHeld
<1>10. CASE current[q][g] # 0
  <2>1. PICK c : c = current[q][g]
    OBVIOUS
  <2>2. c \in Ids /\ windows[c].pattern = q /\ windows[c].group = g
    BY <1>10, <2>1 DEF IInv, CurrentSound
  <2>3. windows'[c] = windows[c] /\ c \in Ids'
    <3>1. c # i
      BY <2>2 DEF Placed, SameKind
    <3> QED BY <2>2, <3>1 DEF Placed
  <2>4. /\ Sorted(windows[c].events)
        /\ \E d \in Elements(pushes[q]) :
             /\ Key(d, q) = g /\ \A f \in Elements(pushes[q]) : Key(f, q) = g => f <= d
             /\ windows[c].first <= d
             /\ Elements(windows[c].events) = InLength(c, d)
    BY <1>6, <1>10, <2>1 DEF SlidingHeld
  <2>5. PICK d \in Elements(pushes[q]) :
             /\ Key(d, q) = g /\ \A f \in Elements(pushes[q]) : Key(f, q) = g => f <= d
             /\ windows[c].first <= d
             /\ Elements(windows[c].events) = InLength(c, d)
    BY <2>4
  <2>6. InLength(c, d)' = InLength(c, d)
    <3>1. Since(c, d)' = Since(c, d)
      BY <1>5, <1>7, <1>8, <2>2, <2>3 DEF Since
    <3> QED BY <1>5, <2>2, <2>3, <3>1 DEF InLength
  <2>7. /\ d \in Elements(pushes'[q]) /\ Key(d, q)' = g
        /\ \A f \in Elements(pushes'[q]) : Key(f, q)' = g => f <= d
        /\ windows'[c].first <= d
        /\ Elements(windows'[c].events) = InLength(c, d)'
    BY <1>5, <1>7, <1>8, <2>3, <2>5, <2>6
  <2>8. Sorted(windows'[c].events) /\ c = current'[q][g] /\ c # 0
    BY <1>6, <1>10, <2>1, <2>3, <2>4
  <2> QED BY <2>7, <2>8 DEF SlidingHeld
<1> QED BY <1>9, <1>10

\* What is left to show of the pattern and the window concerned.
LEMMA TakesKeeps ==
    ASSUME IInv, NEW e, NEW p, Takes(e, p), NEW i, Placed(e, p, i),
           ~PatternOf[p].sliding => Ranged(i)',
           changes = 0 /\ PatternOf[p].sliding /\ InOrder(pushes'[p]) =>
              SlidingHeld(p, Key(e, p))',
           counted' \in Seq(Counting),
           \A n \in DOMAIN counted' :
              Counted(n)' \/ (n \in DOMAIN counted /\ counted'[n] = counted[n])
    PROVE  IInv'
<1>1. TypeInv'
  <2>1. calls' \in Seq(Call) /\ Len(calls') = Len(calls)
    BY TakesParts
  <2>2. pushes' \in [Pattern -> Seq(Nat)]
    BY TakesParts
  <2>3. windows' \in Seq(WindowType) /\ current' \in [Pattern -> [Key0 -> Nat]]
    BY DEF Placed
  <2>4. UNCHANGED <<patterns, events, changes, clock>>
    BY DEF Takes
  <2> QED BY <2>1, <2>2, <2>3, <2>4 DEF IInv, TypeInv
<1>2. Timely' /\ changes' = changes
  BY DEF Takes, IInv, Timely
<1>3. CurrentSound' /\ (\A j \in Ids' : Holds(j)') /\ \A q \in Pattern : Pushed(q)'
  BY PlacedHolds
<1>4. \A d \in DOMAIN calls' : Visits(d)' /\ (changes' = 0 => Visited(d)')
  BY TakesParts
<1>5. \A q \in Pattern : PushesSorted(q)'
  BY TakesParts
<1>6. ASSUME NEW j \in Ids', ~PatternOf[windows'[j].pattern].sliding
      PROVE  Ranged(j)' /\ (changes' = 0 => Apart(j)')
  <2>1. (j # i => Ranged(j)') /\ (changes' = 0 => Apart(j)')
    BY <1>6, PlacedApart
  <2>2. windows'[i].pattern = p
    BY DEF Placed
  <2>3. CASE j = i
    BY <1>6, <2>1, <2>2, <2>3
  <2>4. CASE j # i
    BY <2>1, <2>4
  <2> QED BY <2>3, <2>4
<1>7. ASSUME NEW q \in Pattern, NEW g \in Key0, changes' = 0, PatternOf[q].sliding,
             InOrder(pushes'[q])
      PROVE  SlidingHeld(q, g)'
  <2>1. CASE q = p /\ g = Key(e, p)
    <3>1. Key(e, p)' = Key(e, p)
      BY DEF Takes, Key
    <3>2. PICK h : h = Key(e, p)
      OBVIOUS
    <3> QED BY <1>2, <1>7, <2>1, <3>1, <3>2
  <2>2. CASE q # p \/ g # Key(e, p)
    BY <1>2, <1>7, <2>2, PlacedBeside
  <2> QED BY <2>1, <2>2
<1>8. \A n \in DOMAIN counted' : Counted(n)'
  BY CountedLater
<1> QED BY <1>1, <1>2, <1>3, <1>4, <1>5, <1>6, <1>7, <1>8 DEF IInv

-----------------------------------------------------------------------------
(* Sliding windows. *)

LEMMA PrunedTyped ==
    ASSUME NEW s \in Seq(Nat), NEW from
    PROVE  Pruned(s, from) \in Seq(Nat) /\ Elements(Pruned(s, from)) \subseteq Elements(s)
<1> DEFINE kept == {j \in DOMAIN s : events[s[j]].timestamp >= from}
<1>1. DOMAIN s = 1 .. Len(s) /\ Len(s) \in Nat
  OBVIOUS
<1>2. CASE kept = {}
  <2>1. Pruned(s, from) = <<>>
    BY <1>2 DEF Pruned
  <2>2. Elements(<<>>) = {} /\ <<>> \in Seq(Nat)
    BY DEF Elements
  <2> QED BY <2>1, <2>2
<1>3. CASE kept # {}
  <2>1. PICK m : m = Min(kept)
    OBVIOUS
  <2>2. m \in kept
    <3>1. kept \in SUBSET Nat
      BY <1>1
    <3> HIDE DEF kept
    <3> QED BY <1>3, <2>1, <3>1, Smallest
  <2>3. m \in 1 .. Len(s)
    BY <1>1, <2>2
  <2>4. Pruned(s, from) = SubSeq(s, m, Len(s))
    BY <1>3, <2>1 DEF Pruned
  <2>5. /\ SubSeq(s, m, Len(s)) \in Seq(Nat)
        /\ DOMAIN SubSeq(s, m, Len(s)) = 1 .. (Len(s) - m + 1)
        /\ \A j \in 1 .. (Len(s) - m + 1) : SubSeq(s, m, Len(s))[j] = s[m + j - 1]
    BY <1>1, <2>3
  <2>6. \A j \in 1 .. (Len(s) - m + 1) : m + j - 1 \in DOMAIN s
    BY <1>1, <2>3
  <2> QED BY <2>4, <2>5, <2>6 DEF Elements
<1> QED BY <1>2, <1>3

\* What the window of the group holds with the event, before it is pruned.
Longer(e, i) == IF i \in Ids THEN Append(windows[i].events, e) ELSE <<e>>

\* What a sliding window holds with the event of the call is what its length leaves then.
LEMMA SlidingHoldsRecent ==
    ASSUME PatternsTyped, IInv, NEW e, NEW p, Takes(e, p), PatternOf[p].sliding, changes = 0,
           InOrder(pushes'[p]), NEW i, Placed(e, p, i),
           current[p][Key(e, p)] = 0 => i \notin Ids /\ windows'[i].first = e,
           current[p][Key(e, p)] # 0 => i = current[p][Key(e, p)],
           NEW held, held = Pruned(Longer(e, i), events[e].at - PatternOf[p].window)
    PROVE  /\ Sorted(held) /\ Elements(held) = InLength(i, e)'
           /\ windows'[i].first <= e
           /\ \A d \in Elements(pushes'[p]) : d <= e
<1>1. p \in Pattern /\ e \in DOMAIN events /\ e \in Nat
  BY TakesParts
<1>2. Elements(pushes'[p]) = Elements(pushes[p]) \cup {e}
  BY TakesParts
<1>3. InOrder(pushes[p]) /\ \A d \in Elements(pushes[p]) : d < e
  BY TakesParts
<1>4. \A d \in Elements(pushes[p]) :
         d \in DOMAIN events /\ d \in Nat /\ events[d].at \in Nat /\ events[d].timestamp \in Int
  BY <1>1, EventTyped DEF IInv, Pushed
<1>5. TypeInv /\ Timely /\ events[e].at \in Nat /\ events[e].timestamp \in Int
  BY <1>1, EventTyped DEF IInv
<1>6. PICK w \in Nat : w = PatternOf[p].window
  BY <1>1 DEF PatternsTyped
<1>7. PICK g, from : g = Key(e, p) /\ from = events[e].at - w
  OBVIOUS
<1>8. g \in Key0 /\ from \in Int
  BY <1>1, <1>5, <1>6, <1>7, KeyTyped
<1>9. SlidingHeld(p, g)
  BY <1>1, <1>3, <1>8 DEF IInv
<1>10. events' = events /\ \A d : Key(d, p)' = Key(d, p)
  BY DEF Takes, Key
<1>11. \A d \in Elements(pushes'[p]) : d <= e
  BY <1>1, <1>2, <1>3, <1>4
<1>12. /\ windows'[i].pattern = p /\ windows'[i].group = g
       /\ i \in Ids => windows[i].pattern = p /\ windows[i].group = g
                       /\ windows'[i].first = windows[i].first
  BY <1>7 DEF Placed, SameKind
<1>13. PICK S : S = Since(i, e)'
  OBVIOUS
<1>14. S = {d \in Elements(pushes[p]) \cup {e} : windows'[i].first <= d /\ Key(d, p) = g}
  BY <1>2, <1>10, <1>11, <1>12, <1>13 DEF Since
<1>15. InLength(i, e)' = Recent(S, from)
  BY <1>6, <1>7, <1>10, <1>12, <1>13 DEF InLength, Recent
<1>16. held = Pruned(Longer(e, i), from)
  BY <1>6, <1>7
<1>17. CASE current[p][g] = 0
  <2>1. Longer(e, i) = <<e>> /\ windows'[i].first = e
    BY <1>7, <1>17 DEF Longer
  <2>2. <<e>> \in Seq(Nat) /\ Elements(<<e>>) = {e} /\ Sorted(<<e>>)
    BY <1>1 DEF Elements, Sorted
  <2>3. S = {e}
    BY <1>1, <1>3, <1>4, <1>7, <1>14, <2>1
  <2>4. /\ Sorted(Pruned(<<e>>, from))
        /\ Elements(Pruned(<<e>>, from)) = Recent({e}, from)
    BY <1>8, <2>2, PrunedIsRecent
  <2>5. windows'[i].first <= e
    BY <1>1, <2>1
  <2> QED BY <1>11, <1>15, <1>16, <2>1, <2>3, <2>4, <2>5
<1>18. CASE current[p][g] # 0
  <2>1. i \in Ids /\ i = current[p][g] /\ i # 0
    BY <1>1, <1>7, <1>8, <1>18 DEF IInv, CurrentSound
  <2>2. PICK s : s = windows[i].events
    OBVIOUS
  <2>3. s \in Seq(Nat) /\ Longer(e, i) = Append(s, e)
    BY <1>5, <2>1, <2>2, WindowTyped DEF Longer
  <2>4. /\ Sorted(s)
        /\ \E d \in Elements(pushes[p]) :
             /\ Key(d, p) = g /\ \A f \in Elements(pushes[p]) : Key(f, p) = g => f <= d
             /\ windows[i].first <= d
             /\ Elements(s) = InLength(i, d)
    BY <1>9, <2>1, <2>2 DEF SlidingHeld
  <2>5. PICK last \in Elements(pushes[p]) :
             /\ Key(last, p) = g /\ \A f \in Elements(pushes[p]) : Key(f, p) = g => f <= last
             /\ windows[i].first <= last
             /\ Elements(s) = InLength(i, last)
    BY <2>4
  <2>6. PICK T : T = Since(i, last)
    OBVIOUS
  <2>7. T = {d \in Elements(pushes[p]) : windows[i].first <= d /\ Key(d, p) = g}
    BY <1>12, <2>1, <2>5, <2>6 DEF Since
  <2>8. T \subseteq Elements(pushes[p]) /\ \A d \in T : d < e /\ d \in Nat
    BY <1>3, <1>4, <2>7
  <2>9. windows'[i].first = windows[i].first /\ windows[i].first \in Nat
    BY <1>5, <1>12, <2>1, WindowTyped DEF WindowType
  <2>10. windows[i].first <= e
    BY <1>1, <1>3, <1>4, <2>5, <2>9
  <2>11. S = T \cup {e}
    BY <1>7, <1>14, <2>7, <2>9, <2>10
  <2>12. PICK old \in Int : old = events[last].at - w
    BY <1>4, <1>6, <2>5
  <2>13. Elements(s) = {d \in T : \E c \in T : c <= d /\ events[c].timestamp >= old}
    BY <1>6, <1>12, <2>1, <2>5, <2>6, <2>12 DEF InLength
  <2>14. old <= from
    <3>1. events[last].at <= events[e].at
      BY <1>1, <1>3, <1>4, <1>5, <2>5 DEF Timely
    <3> QED BY <1>4, <1>5, <1>6, <1>7, <2>5, <2>12, <3>1
  <2>15. ASSUME NEW c \in T, events[c].timestamp >= from
         PROVE  c \in Elements(s)
    <3>1. events[c].timestamp >= old /\ c <= c
      BY <1>4, <1>8, <2>8, <2>12, <2>14, <2>15
    <3> QED BY <2>13, <3>1
  <2>16. ASSUME NEW d \in T, NEW c \in T, c <= d, events[c].timestamp >= from
         PROVE  d \in Elements(s)
    <3>1. events[c].timestamp >= old
      BY <1>4, <1>8, <2>8, <2>12, <2>14, <2>16
    <3> QED BY <2>13, <2>16, <3>1
  <2>17. PICK E : E = Elements(Append(s, e))
    OBVIOUS
  <2>18. Append(s, e) \in Seq(Nat) /\ E = Elements(s) \cup {e} /\ Elements(s) \subseteq T
    BY <1>1, <2>3, <2>13, <2>17, Appended
  <2>19. Sorted(Append(s, e))
    <3>1. \A y \in Elements(s) : y < e
      BY <2>8, <2>18
    <3> QED BY <1>1, <2>3, <2>4, <3>1, SortedGrows
  <2>20. /\ Sorted(Pruned(Append(s, e), from))
         /\ Elements(Pruned(Append(s, e), from)) = Recent(E, from)
    BY <1>8, <2>17, <2>18, <2>19, PrunedIsRecent
  <2>21. ASSUME NEW d \in S, NEW c \in S, c <= d, events[c].timestamp >= from
         PROVE  d \in E /\ c \in E
    <3>1. c \in E
      BY <2>11, <2>15, <2>18, <2>21
    <3>2. CASE d = e
      BY <2>18, <3>1, <3>2
    <3>3. CASE d # e
      <4>1. d \in T /\ c # e
        BY <1>1, <2>8, <2>11, <2>21, <3>3
      <4> QED BY <2>11, <2>16, <2>18, <2>21, <3>1, <4>1
    <3> QED BY <3>2, <3>3
  <2>22. E \subseteq S
    BY <2>11, <2>18
  <2>23. Recent(E, from) = Recent(S, from)
    BY <2>21, <2>22 DEF Recent
  <2> QED BY <1>11, <1>15, <1>16, <2>3, <2>9, <2>10, <2>20, <2>23
<1> QED BY <1>17, <1>18

NewWindow(e, p, i, w) ==
    /\ i = Len(windows) + 1 /\ windows' = Append(windows, w)
    /\ current' = [current EXCEPT ![p][Key(e, p)] = i]

OldWindow(i, w) == windows' = [windows EXCEPT ![i] = w] /\ current' = current

\* The event comes into a new window of its group.
LEMMA PlacedNew ==
    ASSUME IInv, NEW e, NEW p, Takes(e, p), NEW w \in WindowType,
           w.pattern = p, w.group = Key(e, p), Elements(w.events) \subseteq {e},
           ~PatternOf[p].sliding => Elements(w.events) = {e},
           NEW i, NewWindow(e, p, i, w)
    PROVE  Placed(e, p, i) /\ windows'[i] = w
<1>1. p \in Pattern /\ e \in DOMAIN events
  BY TakesParts
<1>2. /\ TypeInv /\ windows \in Seq(WindowType)
      /\ current \in [Pattern -> [Key0 -> Nat]]
  BY DEF IInv, TypeInv
<1>3. PICK g : g = Key(e, p)
  OBVIOUS
<1>4. g \in Key0 /\ current[p] \in [Key0 -> Nat]
  BY <1>1, <1>2, <1>3, KeyTyped
<1>5. /\ windows' \in Seq(WindowType) /\ windows'[i] = w /\ i \notin Ids /\ Ids' = Ids \cup {i}
      /\ \A j \in Ids : windows'[j] = windows[j]
  BY <1>2 DEF Ids, NewWindow
<1>6. i \in Nat /\ Before(i) \cup {e} = {e}
  BY <1>2, <1>5 DEF Before, NewWindow
<1>7. PICK row : row = [current[p] EXCEPT ![g] = i]
  OBVIOUS
<1>8. /\ row \in [Key0 -> Nat] /\ row[g] = i
      /\ \A h \in Key0 : h # g => row[h] = current[p][h]
  BY <1>4, <1>6, <1>7
<1>9. current' = [current EXCEPT ![p] = row]
  BY <1>3, <1>7 DEF NewWindow
<1>10. /\ current' \in [Pattern -> [Key0 -> Nat]] /\ current'[p][g] = i
       /\ \A q \in Pattern, h \in Key0 : q # p \/ h # g => current'[q][h] = current[q][h]
  BY <1>1, <1>2, <1>4, <1>8, <1>9
<1> QED BY <1>3, <1>5, <1>6, <1>10 DEF Placed

\* The event comes into the window of its group.
LEMMA PlacedOld ==
    ASSUME IInv, NEW e, NEW p, Takes(e, p), NEW i, i # 0, i = current[p][Key(e, p)],
           NEW w \in WindowType,
           w.pattern = p, w.group = Key(e, p), w.first = windows[i].first,
           Elements(w.events) \subseteq Before(i) \cup {e},
           ~PatternOf[p].sliding => Elements(w.events) = Before(i) \cup {e},
           OldWindow(i, w)
    PROVE  Placed(e, p, i) /\ windows'[i] = w
<1>1. p \in Pattern /\ e \in DOMAIN events
  BY TakesParts
<1>2. /\ TypeInv /\ windows \in Seq(WindowType)
      /\ current \in [Pattern -> [Key0 -> Nat]]
  BY DEF IInv, TypeInv
<1>3. i \in Ids /\ windows[i].pattern = p /\ windows[i].group = Key(e, p)
  BY <1>1, <1>2, KeyTyped DEF IInv, CurrentSound
<1>4. /\ windows' \in Seq(WindowType) /\ windows'[i] = w /\ Ids' = Ids
      /\ \A j \in Ids : j # i => windows'[j] = windows[j]
  BY <1>2, <1>3 DEF Ids, OldWindow
<1>5. Ids' = Ids \cup {i}
  BY <1>3, <1>4
<1>6. current' = current
  BY DEF OldWindow
<1>7. SameKind(i)
  BY <1>3, <1>4 DEF SameKind
<1> QED BY <1>2, <1>3, <1>4, <1>5, <1>6, <1>7 DEF Placed

\* The window is marked when it matches.
LEMMA MarkedTyped ==
    ASSUME NEW v \in WindowType, NEW w, w = v \/ w = [v EXCEPT !.triggered = TRUE]
    PROVE  /\ w \in WindowType /\ w.pattern = v.pattern /\ w.group = v.group
           /\ w.events = v.events /\ w.first = v.first
           /\ w.start = v.start /\ w.end = v.end
BY DEF WindowType

LEMMA NewWindowTyped ==
    ASSUME PatternsTyped, TypeInv, NEW e \in DOMAIN events, NEW p \in Pattern, NEW start \in Int,
           NEW held \in Seq(Nat), NEW v, v = Window(e, p, start, held)
    PROVE  /\ v \in WindowType /\ v.pattern = p /\ v.group = Key(e, p) /\ v.events = held
           /\ v.start = start /\ v.end = start + PatternOf[p].window /\ v.first = e
<1>1. Key(e, p) \in Key0 /\ e \in Nat
  BY KeyTyped, EventTyped
<1>2. start + PatternOf[p].window \in Int
  BY DEF PatternsTyped
<1> QED BY <1>1, <1>2 DEF Window, WindowType

LEMMA LongerWindow ==
    ASSUME TypeInv, NEW i \in Ids, NEW held \in Seq(Nat),
           NEW v, v = [windows[i] EXCEPT !.events = held]
    PROVE  /\ v \in WindowType /\ v.pattern = windows[i].pattern
           /\ v.group = windows[i].group /\ v.events = held /\ v.first = windows[i].first
           /\ v.start = windows[i].start /\ v.end = windows[i].end
BY WindowTyped DEF WindowType

LEMMA SlidingMoves ==
    ASSUME IInv, NEW e \in DOMAIN calls, ProcessSlidingWindow(e)
    PROVE  CallMoves(e)
<1>1. TypeInv /\ windows \in Seq(WindowType) /\ e \in DOMAIN events /\ calls[e] \in Call
  BY CallTyped DEF IInv, TypeInv
<1>2. PICK p : p = Head(calls[e].pattern)
  OBVIOUS
<1>3. p \in Pattern
  <2>1. calls[e].pattern \in Seq(Pattern) /\ calls[e].pattern # <<>>
    BY <1>1 DEF Call, IInv, Visits, ProcessSlidingWindow
  <2> QED BY <1>2, <2>1
<1>4. Found(e, p) \in Nat
  BY <1>1, <1>3, KeyTyped, CurrentTyped DEF Found
<1>5. PICK i \in Nat : i = IF Found(e, p) = 0 THEN Len(windows) + 1 ELSE Found(e, p)
  BY <1>1, <1>4
<1>6. PICK pc \in {"visit", "matched"} :
         calls' = [calls EXCEPT ![e].pc = pc, ![e].window = i]
  BY Zenon, <1>2, <1>5 DEF ProcessSlidingWindow
<1>7. PICK c : c = [calls[e] EXCEPT !.pc = pc, !.window = i]
  OBVIOUS
<1>8. c \in Call /\ c.pc = pc /\ c.seen = calls[e].seen
  BY <1>1, <1>7 DEF Call, Pcs
<1>9. calls' = [calls EXCEPT ![e] = c]
  BY <1>1, <1>6, <1>7 DEF TypeInv
<1> QED BY <1>8, <1>9 DEF CallMoves

LEMMA SlidingKeeps ==
    ASSUME PatternsTyped, IInv, NEW e \in DOMAIN calls, ProcessSlidingWindow(e)
    PROVE  IInv'
<1>1. PICK p : p = Head(calls[e].pattern)
  OBVIOUS
<1>2. PatternOf[p].sliding /\ Takes(e, p)
  <2>1. PatternOf[p].sliding /\ At(e, p) /\ calls[e].pc # "lost" /\ TakenUp(e, p)
        /\ UNCHANGED <<patterns, events, changes, clock>>
    BY <1>1 DEF IInv, Visits, At, ProcessSlidingWindow
  <2>2. CallMoves(e)
    BY SlidingMoves
  <2> QED BY <2>1, <2>2 DEF Takes
<1>3. p \in Pattern /\ e \in DOMAIN events /\ e \in Nat \ {0}
  BY <1>2, TakesParts
<1>4. TypeInv /\ windows \in Seq(WindowType)
  BY DEF IInv, TypeInv
<1>5. PICK g, c, from, i : /\ g = Key(e, p) /\ c = current[p][g]
                           /\ from = events[e].at - PatternOf[p].window
                           /\ i = IF c = 0 THEN Len(windows) + 1 ELSE c
  OBVIOUS
<1>6. /\ g \in Key0 /\ from \in Int
      /\ c # 0 => c \in Ids /\ windows[c].pattern = p /\ windows[c].group = g
  <2>1. g \in Key0
    BY <1>3, <1>4, <1>5, KeyTyped
  <2>2. from \in Int
    BY <1>3, <1>4, <1>5, EventTyped DEF PatternsTyped
  <2> QED BY <1>3, <1>5, <2>1, <2>2 DEF IInv, CurrentSound
<1>7. /\ i \in Nat \ {0}
      /\ c = 0 => i \notin Ids
      /\ c # 0 => i = c
  BY <1>4, <1>5, <1>6, WindowTyped DEF Ids
<1>8. PICK held : held = Pruned(Longer(e, i), from)
  OBVIOUS
<1>9. Longer(e, i) = IF c = 0 THEN <<e>> ELSE Append(windows[i].events, e)
  BY SMTT(40), <1>6, <1>7 DEF Longer
<1>10. PICK v, w : /\ v = IF c = 0 THEN Window(e, p, from, held)
                           ELSE [windows[i] EXCEPT !.events = held]
                   /\ w = IF Meets(held, PatternOf[p]) THEN [v EXCEPT !.triggered = TRUE] ELSE v
  OBVIOUS
<1>11. /\ windows' = IF c = 0 THEN Append(windows, w) ELSE [windows EXCEPT ![i] = w]
       /\ current' = IF c = 0 THEN Entered(e, p) ELSE current
       /\ counted' = IF Meets(held, PatternOf[p])
                      THEN Append(counted, Report(i, held, e)) ELSE counted
  BY Zenon, <1>1, <1>5, <1>8, <1>9, <1>10 DEF ProcessSlidingWindow, Found
<1>12. /\ held \in Seq(Nat) /\ Elements(held) \subseteq Before(i) \cup {e}
  <2>1. Longer(e, i) \in Seq(Nat) /\ Elements(Longer(e, i)) = Before(i) \cup {e}
    <3>1. CASE c = 0
      BY <1>3, <1>7, <1>9, <3>1 DEF Before, Elements
    <3>2. CASE c # 0
      <4>1. windows[i].events \in Seq(Nat) /\ i \in Ids
        BY <1>4, <1>6, <1>7, <3>2, WindowTyped
      <4> QED BY <1>3, <1>9, <3>2, <4>1, Appended DEF Before
    <3> QED BY <3>1, <3>2
  <2> QED BY <1>8, <2>1, PrunedTyped
<1>13. w = v \/ w = [v EXCEPT !.triggered = TRUE]
  BY <1>10
<1>14. Placed(e, p, i) /\ windows'[i].events = held /\ (c = 0 => windows'[i].first = e)
  <2>1. CASE c = 0
    <3>1. /\ w \in WindowType /\ w.pattern = p /\ w.group = Key(e, p) /\ w.events = held
          /\ w.first = e
      <4>1. v = Window(e, p, from, held)
        BY <1>10, <2>1
      <4>2. /\ v \in WindowType /\ v.pattern = p /\ v.group = Key(e, p) /\ v.events = held
            /\ v.first = e
        BY <1>3, <1>4, <1>6, <1>12, <4>1, NewWindowTyped
      <4> QED BY <1>13, <4>2, MarkedTyped
    <3>2. NewWindow(e, p, i, w)
      BY <1>5, <1>11, <2>1 DEF Entered, NewWindow
    <3>3. Elements(w.events) \subseteq {e}
      BY <1>7, <1>12, <2>1, <3>1 DEF Before
    <3>4. Placed(e, p, i) /\ windows'[i] = w
      BY <1>2, <3>1, <3>2, <3>3, PlacedNew
    <3> QED BY <3>1, <3>4
  <2>2. CASE c # 0
    <3>1. i \in Ids /\ windows[i].pattern = p /\ windows[i].group = Key(e, p)
      BY <1>5, <1>6, <1>7, <2>2
    <3>2. /\ w \in WindowType /\ w.pattern = p /\ w.group = Key(e, p) /\ w.events = held
          /\ w.first = windows[i].first
      <4>1. v = [windows[i] EXCEPT !.events = held]
        BY <1>10, <2>2
      <4>2. /\ v \in WindowType /\ v.pattern = p /\ v.group = Key(e, p) /\ v.events = held
            /\ v.first = windows[i].first
        BY <1>4, <1>12, <3>1, <4>1, LongerWindow
      <4> QED BY <1>13, <4>2, MarkedTyped
    <3>3. i # 0 /\ i = current[p][Key(e, p)] /\ OldWindow(i, w)
      BY <1>5, <1>7, <1>11, <2>2 DEF OldWindow
    <3>4. Placed(e, p, i) /\ windows'[i] = w
      BY <1>2, <1>12, <3>2, <3>3, PlacedOld
    <3> QED BY <2>2, <3>2, <3>4
  <2> QED BY <2>1, <2>2
<1>15. ASSUME changes = 0, InOrder(pushes'[p])
       PROVE  /\ Sorted(held) /\ Elements(held) = InLength(i, e)' /\ windows'[i].first <= e
              /\ \A d \in Elements(pushes'[p]) : d <= e
  BY <1>2, <1>5, <1>7, <1>8, <1>14, <1>15, SlidingHoldsRecent
<1>16. Elements(pushes'[p]) = Elements(pushes[p]) \cup {e}
  BY <1>2, TakesParts
<1>17. ASSUME changes = 0, InOrder(pushes'[p])
       PROVE  SlidingHeld(p, Key(e, p))'
  <2>1. Key(e, p)' = Key(e, p) /\ current'[p][Key(e, p)] = i
    BY <1>2, <1>14 DEF Takes, Key, Placed
  <2> QED BY <1>14, <1>15, <1>16, <1>17, <2>1 DEF SlidingHeld
<1>18. PICK rep : rep = Report(i, held, e)
  OBVIOUS
<1>19. rep \in Counting /\ rep.window = i /\ rep.events = held /\ rep.by = e
  BY <1>3, <1>7, <1>12, <1>18 DEF Report, Counting
<1>20. counted' = counted \/ counted' = Append(counted, rep)
  BY <1>11, <1>18
<1>21. counted \in Seq(Counting) /\ counted' \in Seq(Counting)
  <2>1. counted \in Seq(Counting)
    BY <1>4 DEF TypeInv
  <2>2. Append(counted, rep) \in Seq(Counting)
    BY <1>19, <2>1
  <2> QED BY <1>20, <2>1, <2>2
<1>22. ASSUME NEW n \in DOMAIN counted'
       PROVE  Counted(n)' \/ (n \in DOMAIN counted /\ counted'[n] = counted[n])
  <2>1. CASE counted'[n] = rep
    <3>1. i \in Ids' /\ windows'[i].pattern = p /\ changes' = changes
      BY <1>2, <1>14 DEF Placed, Takes
    <3>2. /\ counted'[n].window = i /\ counted'[n].events = held /\ counted'[n].by = e
          /\ e \in Elements(pushes'[p])
      BY <1>16, <1>19, <2>1
    <3>3. changes' = 0 /\ InOrder(pushes'[p]) => Elements(held) = InLength(i, e)'
      BY <1>15, <3>1
    <3>4. PICK x : x = counted'[n]
      OBVIOUS
    <3>5. x.window = i /\ x.events = held /\ x.by = e
      BY <3>2, <3>4
    <3> QED BY <3>1, <3>2, <3>3, <3>4, <3>5 DEF Counted
  <2> QED BY <1>20, <1>21, <2>1
<1> QED BY <1>2, <1>14, <1>17, <1>21, <1>22, TakesKeeps

-----------------------------------------------------------------------------
(* Tumbling windows. *)

\* The event comes into a new window, which is aligned to its time.
LEMMA PushNew ==
    ASSUME PatternsTyped, IInv, NEW e, NEW p, Takes(e, p), ~PatternOf[p].sliding,
           Push(e, p, 0)
    PROVE  IInv'
<1>1. p \in Pattern /\ e \in DOMAIN events /\ e \in Nat
  BY TakesParts
<1>2. TypeInv /\ windows \in Seq(WindowType) /\ Len(windows) \in Nat /\ counted \in Seq(Counting)
  BY DEF IInv, TypeInv
<1>3. PICK start : start = TumblingWindowStart(events[e].at, PatternOf[p].window)
  OBVIOUS
<1>4. /\ start \in Int /\ start <= events[e].at /\ events[e].at <= start + PatternOf[p].window
  BY <1>1, <1>2, <1>3, EventTyped, Aligned DEF PatternsTyped
<1>5. PICK held : held = <<e>> /\ held \in Seq(Nat) /\ Elements(held) = {e}
  <2>1. <<e>> \in Seq(Nat) /\ Elements(<<e>>) = {e}
    BY <1>1 DEF Elements
  <2> QED BY <2>1, Zenon
<1>6. PICK i, w : i = Len(windows) + 1 /\ w = Window(e, p, start, held)
  OBVIOUS
<1>7. /\ w \in WindowType /\ w.pattern = p /\ w.group = Key(e, p) /\ w.events = held
      /\ w.start = start /\ w.end = start + PatternOf[p].window
  <2>1. /\ TypeInv /\ e \in DOMAIN events /\ p \in Pattern /\ start \in Int
        /\ held \in Seq(Nat) /\ w = Window(e, p, start, held)
    BY <1>1, <1>2, <1>4, <1>5, <1>6
  <2> QED BY <2>1, NewWindowTyped
<1>8. NewWindow(e, p, i, w)
  BY <1>3, <1>5, <1>6 DEF Push, Entered, NewWindow
<1>9. Elements(w.events) = {e}
  BY <1>5, <1>7
<1>10. Placed(e, p, i) /\ windows'[i] = w
  BY <1>7, <1>8, <1>9, PlacedNew
<1>11. events' = events /\ counted' = counted
  BY DEF Takes, Push
<1>12. Ranged(i)'
  BY <1>4, <1>7, <1>9, <1>10, <1>11 DEF Ranged
<1> QED BY <1>2, <1>10, <1>11, <1>12, TakesKeeps

\* The event comes into the window of its group, which it is not too late for.
LEMMA PushOld ==
    ASSUME IInv, NEW e, NEW p, Takes(e, p), ~PatternOf[p].sliding,
           NEW i, i # 0, i = Found(e, p), events[e].at <= windows[i].end,
           Push(e, p, i)
    PROVE  IInv'
<1>1. p \in Pattern /\ e \in DOMAIN events /\ e \in Nat
  BY TakesParts
<1>2. TypeInv /\ windows \in Seq(WindowType) /\ counted \in Seq(Counting)
  BY DEF IInv, TypeInv
<1>3. Key(e, p) \in Key0 /\ events[e].at \in Nat
  BY <1>1, <1>2, KeyTyped, EventTyped
<1>4. i \in Ids /\ windows[i].pattern = p /\ windows[i].group = Key(e, p)
  BY <1>1, <1>3 DEF IInv, CurrentSound, Found
<1>5. windows[i].events \in Seq(Nat) /\ windows[i].start \in Int /\ windows[i].end \in Int
  BY <1>2, <1>4, WindowTyped
<1>6. PICK s : s = Append(windows[i].events, e)
  OBVIOUS
<1>7. s \in Seq(Nat) /\ Elements(s) = Before(i) \cup {e} /\ Before(i) = Elements(windows[i].events)
  BY <1>1, <1>4, <1>5, <1>6, Appended DEF Before
<1>8. PICK w : w = [windows[i] EXCEPT !.events = s]
  OBVIOUS
<1>9. /\ w \in WindowType /\ w.pattern = p /\ w.group = Key(e, p) /\ w.events = s
      /\ w.start = windows[i].start /\ w.end = windows[i].end /\ w.first = windows[i].first
  BY <1>2, <1>4, <1>7, <1>8, LongerWindow
<1>10. OldWindow(i, w)
  BY <1>6, <1>8 DEF Push, OldWindow
<1>11. Placed(e, p, i) /\ windows'[i] = w
  <2>1. Elements(w.events) = Before(i) \cup {e}
    BY <1>7, <1>9
  <2>2. i = current[p][Key(e, p)]
    BY DEF Found
  <2> QED BY <1>9, <1>10, <2>1, <2>2, PlacedOld
<1>12. events' = events /\ counted' = counted
  BY DEF Takes, Push
<1>13. Ranged(i)
  BY <1>4 DEF IInv
<1>14. PICK d \in Elements(windows[i].events) : windows[i].start <= events[d].at
  BY <1>13 DEF Ranged
<1>15. \A f \in Before(i) : f \in Elements(pushes[p]) /\ f \in DOMAIN events /\ f \in Nat
  <2>1. \A f \in Before(i) : f \in Elements(pushes[p])
    BY <1>4, <1>7 DEF IInv, Holds
  <2>2. \A f \in Elements(pushes[p]) : f \in DOMAIN events
    BY <1>1 DEF IInv, Pushed
  <2> QED BY <1>2, <2>1, <2>2, EventTyped
<1>16. ASSUME InOrder(pushes'[p])
       PROVE  \A f \in Before(i) \cup {e} :
                 windows[i].start <= events[f].at /\ events[f].at <= windows[i].end
  <2>1. InOrder(pushes[p]) /\ \A f \in Elements(pushes[p]) : f < e
    BY <1>16, TakesParts
  <2>2. \A f \in Before(i) :
           windows[i].start <= events[f].at /\ events[f].at <= windows[i].end
    BY <1>4, <1>7, <1>13, <2>1 DEF Ranged
  <2>3. d < e /\ d \in Nat /\ d \in DOMAIN events /\ events[d].at \in Nat
    BY <1>2, <1>7, <1>14, <1>15, <2>1, EventTyped
  <2>4. events[d].at <= events[e].at
    BY <1>1, <2>3 DEF IInv, Timely
  <2>5. windows[i].start <= events[e].at
    BY <1>3, <1>5, <1>14, <2>3, <2>4
  <2> QED BY <2>2, <2>5
<1>17. Ranged(i)'
  BY <1>7, <1>9, <1>11, <1>12, <1>14, <1>16 DEF Ranged
<1> QED BY <1>2, <1>11, <1>12, <1>17, TakesKeeps

LEMMA TumblingKeeps ==
    ASSUME PatternsTyped, IInv, NEW e \in DOMAIN calls, ProcessTumblingWindow(e)
    PROVE  IInv'
<1>1. PICK p, i : p = Head(calls[e].pattern) /\ i = Found(e, p)
  OBVIOUS
<1>2. /\ calls[e].pc = "tumbling" /\ UNCHANGED <<patterns, events, changes, clock>>
      /\ ~PatternOf[p].sliding /\ At(e, p)
  BY <1>1 DEF ProcessTumblingWindow, IInv, Visits, At
<1>3. CASE /\ i # 0 /\ events[e].at > windows[i].end
           /\ WindowEnds(i) /\ Goes(e, "reopening") /\ UNCHANGED pushes
  BY <1>1, <1>2, <1>3, TumblingEndsKeeps
<1>4. CASE ~(i # 0 /\ events[e].at > windows[i].end) /\ Push(e, p, i)
  <2>1. Takes(e, p)
    <3>1. CallMoves(e)
      BY <1>4, GoesMoves DEF Push, IInv
    <3> QED BY <1>2, <1>4, <3>1 DEF Takes, Push
  <2>2. CASE i = 0
    BY <1>2, <1>4, <2>1, <2>2, PushNew
  <2>3. CASE i # 0
    <3>1. p \in Pattern /\ e \in DOMAIN events /\ TypeInv
      BY <2>1, TakesParts DEF IInv
    <3>2. Key(e, p) \in Key0 /\ events[e].at \in Nat
      BY <3>1, KeyTyped, EventTyped
    <3>3. i \in Ids
      BY <1>1, <2>3, <3>1, <3>2 DEF IInv, CurrentSound, Found
    <3>4. windows[i].end \in Int
      BY <3>1, <3>3, WindowTyped
    <3>5. events[e].at <= windows[i].end
      BY <1>4, <2>3, <3>2, <3>4
    <3> QED BY <1>1, <1>2, <1>4, <2>1, <2>3, <3>5, PushOld
  <2> QED BY <2>2, <2>3
<1> QED BY <1>1, <1>3, <1>4 DEF ProcessTumblingWindow

LEMMA ReopenKeeps ==
    ASSUME PatternsTyped, IInv, NEW e \in DOMAIN calls, Reopen(e)
    PROVE  IInv'
<1>1. PICK p : p = Head(calls[e].pattern)
  OBVIOUS
<1>2. ~PatternOf[p].sliding /\ At(e, p) /\ calls[e].pc # "lost" /\ Push(e, p, 0)
      /\ UNCHANGED <<patterns, events, changes, clock>>
  BY <1>1 DEF Reopen, IInv, Visits, At
<1>3. Takes(e, p)
  <2>1. CallMoves(e)
    BY <1>2, GoesMoves DEF Push, IInv
  <2> QED BY <1>2, <2>1 DEF Takes, Push
<1> QED BY <1>2, <1>3, PushNew

-----------------------------------------------------------------------------
(* The theorems. *)

LEMMA InitSound ==
    ASSUME PatternsTyped, Init
    PROVE  IInv
<1>1. /\ events = <<>> /\ calls = <<>> /\ windows = <<>> /\ counted = <<>>
      /\ patterns \in Seq(Pattern) /\ changes = 0 /\ clock = 0
      /\ current = [p \in Pattern |-> [g \in Key0 |-> 0]]
      /\ pushes = [p \in Pattern |-> <<>>]
  BY DEF Init, PatternsTyped, Key0
<1>2. DOMAIN events = {} /\ DOMAIN calls = {} /\ Ids = {} /\ DOMAIN counted = {}
  BY <1>1 DEF Ids
<1>3. \A p \in Pattern : pushes[p] = <<>> /\ Elements(pushes[p]) = {} /\ Sorted(pushes[p])
  BY <1>1 DEF Elements, Sorted
<1>4. \A p \in Pattern, g \in Key0 : current[p][g] = 0
  BY <1>1
<1>5. TypeInv
  <2>1. /\ <<>> \in Seq(Event) /\ <<>> \in Seq(Call) /\ Len(<<>>) = 0
        /\ <<>> \in Seq(WindowType) /\ <<>> \in Seq(Counting) /\ <<>> \in Seq(Nat)
    OBVIOUS
  <2>2. current \in [Pattern -> [Key0 -> Nat]] /\ pushes \in [Pattern -> Seq(Nat)]
    BY <1>1, <2>1
  <2> QED BY <1>1, <2>1, <2>2 DEF TypeInv
<1>6. Timely /\ CurrentSound
  BY <1>2, <1>4 DEF Timely, CurrentSound
<1>7. \A p \in Pattern : Pushed(p) /\ PushesSorted(p)
  BY <1>3 DEF Pushed, PushesSorted
<1>8. \A p \in Pattern, g \in Key0 : SlidingHeld(p, g)
  BY <1>3, <1>4 DEF SlidingHeld
<1> QED BY <1>2, <1>5, <1>6, <1>7, <1>8 DEF IInv

LEMMA NextSound ==
    ASSUME PatternsTyped, IInv, [Next]_vars
    PROVE  IInv'
<1>1. ASSUME NEW t \in Topic, NEW g \in Group \cup {NoGroup}, NEW age \in Ages,
             ProcessEvent(t, g, age)
      PROVE  IInv'
  BY <1>1, ProcessEventKeeps DEF Key0
<1>2. ASSUME NEW e \in DOMAIN calls,
             \/ Visit(e) \/ ProcessSlidingWindow(e) \/ MatchReturns(e)
             \/ ProcessTumblingWindow(e) \/ Reopen(e) \/ CallbackThrows(e)
      PROVE  IInv'
  BY <1>2, VisitKeeps, SlidingKeeps, MatchReturnsKeeps, TumblingKeeps, ReopenKeeps,
     CallbackThrowsKeeps
<1>3. ASSUME NEW i \in Ids, HandleWindowEnd(i)
      PROVE  IInv'
  BY <1>3, HandleWindowEndKeeps
<1>4. CASE Change
  BY <1>4, ChangeKeeps
<1>5. CASE Tick
  <2>1. clock \in Nat
    BY DEF IInv, TypeInv
  <2>2. clock' \in Nat /\ clock' >= clock
    BY <1>5, <2>1 DEF Tick
  <2> QED BY <1>5, <2>2, TickKeeps DEF Tick
<1>6. CASE UNCHANGED vars
  <2>1. clock' = clock /\ clock \in Nat
    BY <1>6 DEF vars, IInv, TypeInv
  <2>2. clock' \in Nat /\ clock' >= clock
    BY <2>1
  <2> QED BY <1>6, <2>2, TickKeeps DEF vars
<1> QED BY <1>1, <1>2, <1>3, <1>4, <1>5, <1>6 DEF Next

LEMMA IInvExact ==
    ASSUME PatternsTyped, IInv
    PROVE  WindowsExact
<1>1. ASSUME NEW p \in Pattern, NEW e \in Elements(pushes[p]), ~PatternOf[p].sliding
      PROVE  /\ \E i \in Ids : windows[i].pattern = p /\ e \in Elements(windows[i].events)
             /\ changes = 0 =>
                  Cardinality({i \in Ids : /\ windows[i].pattern = p
                                           /\ e \in Elements(windows[i].events)}) = 1
             /\ InOrder(pushes[p]) =>
                  \A i \in Ids : windows[i].pattern = p /\ e \in Elements(windows[i].events) =>
                    windows[i].start <= events[e].at /\ events[e].at <= windows[i].end
  <2> DEFINE Having == {i \in Ids : /\ windows[i].pattern = p
                                    /\ e \in Elements(windows[i].events)}
  <2>1. PICK i \in Ids : windows[i].pattern = p /\ e \in Elements(windows[i].events)
    BY <1>1 DEF IInv, Pushed
  <2>2. ASSUME changes = 0
        PROVE  Cardinality(Having) = 1
    <3>1. Apart(i)
      BY <1>1, <2>1, <2>2 DEF IInv
    <3>2. Having = {i}
      BY <2>1, <3>1 DEF Apart
    <3> QED BY <3>2, FS_Singleton
  <2>3. ASSUME InOrder(pushes[p]), NEW j \in Ids, windows[j].pattern = p,
               e \in Elements(windows[j].events)
        PROVE  windows[j].start <= events[e].at /\ events[e].at <= windows[j].end
    <3>1. Ranged(j)
      BY <1>1, <2>3 DEF IInv
    <3> QED BY <2>3, <3>1 DEF Ranged
  <2> QED BY <2>1, <2>2, <2>3
<1>2. ASSUME NEW e \in DOMAIN calls, calls[e].pc = "over", changes = 0,
             NEW k \in DOMAIN patterns, Matches(e, PatternOf[patterns[k]].event)
      PROVE  e \in Elements(pushes[patterns[k]])
  <2>1. patterns[k] \in Pattern
    BY DEF IInv, TypeInv
  <2>2. Visited(e) /\ ~At(e, patterns[k])
    BY <1>2 DEF IInv, At
  <2> QED BY <1>2, <2>1, <2>2 DEF Visited
<1>3. OneWindowEach
  BY <1>1, <1>2 DEF OneWindowEach
<1>4. SlidingExact
  <2>1. ASSUME NEW n \in DOMAIN counted, NEW rep, rep = counted[n],
               NEW p, p = windows[rep.window].pattern,
               rep.by # 0, changes = 0, InOrder(pushes[p])
        PROVE  Elements(rep.events) = InLength(rep.window, rep.by)
    BY <2>1 DEF IInv, Counted
  <2> QED BY <2>1 DEF SlidingExact
<1> QED BY <1>3, <1>4 DEF WindowsExact

\* What the windows hold follows from the operations: each group of a pattern has the
\* window that byGroup names, an event goes into one window of each pattern that takes it
\* up, and what a sliding window was pruned of came before all that could count since.
THEOREM WindowsInvariant ==
    ASSUME PatternsTyped
    PROVE  Spec => []IInv
<1>1. Init => IInv
  BY InitSound
<1>2. IInv /\ [Next]_vars => IInv'
  BY NextSound
<1> QED BY <1>1, <1>2, PTL DEF Spec

\* An event is in one window of each tumbling pattern that takes it up, in its range, and
\* a sliding window that matches has counted what the timestamps of its group since it was
\* opened leave of its length, whatever the timestamps are and whichever window is ended
\* early (processTumblingWindow, processSlidingWindow, handleWindowEnd, pruneEvents of both
\* matchers).
THEOREM WindowsExactHolds ==
    ASSUME PatternsTyped
    PROVE  Spec => []WindowsExact
<1>1. IInv => WindowsExact
  BY IInvExact
<1> QED BY <1>1, WindowsInvariant, PTL
=============================================================================
