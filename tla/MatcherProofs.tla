--------------------------- MODULE MatcherProofs ---------------------------
(***************************************************************************)
(* Proofs about Matchers: an instance of a sequence or absence matcher     *)
(* ends once, and as its window says, for any patterns, groups, and number *)
(* of events, overlapping calls and changes.                               *)
(***************************************************************************)
EXTENDS Matchers, TLAPS

-----------------------------------------------------------------------------
(* The inductive invariant. *)

State == {"open", "completed", "expired", "cancelled"}

Event == [topic : Topic, group : Group \cup {NoGroup}, at : Nat]

Call == [pc : {"visit", "loop", "over"}, pattern : Seq(Pattern), todo : SUBSET Nat,
         seen : SUBSET Pattern]

Instance == [pattern : Pattern, group : Group \cup {NoGroup}, matched : Seq(Nat),
             state : State, active : BOOLEAN, listed : BOOLEAN, expires : Nat]

Ending == [instance : Nat, state : State, by : Nat]

TypeInv ==
    /\ patterns \in Seq(Pattern)
    /\ events \in Seq(Event)
    /\ calls \in Seq(Call) /\ Len(calls) = Len(events)
    /\ started \in Seq(Instance)
    /\ endings \in Seq(Ending)
    /\ clock \in Nat

\* An instance expires a window after its first event, and waits while it is active.
Timed(i) ==
    LET s == started[i]
    IN  /\ s.active => s.state = "open"
        /\ s.matched # <<>> /\ s.matched[1] \in DOMAIN events
        /\ s.expires = events[s.matched[1]].at + PatternOf[s.pattern].within

\* A call in the loop holds instances that there are, of a pattern it has visited.
Holds(e) ==
    /\ calls[e].todo \subseteq Ids
    /\ calls[e].pc = "loop" => calls[e].pattern # <<>>

\* It was an event that ended the instance, before it expired.
InWindow(e, i) == e # 0 /\ events[e].at <= started[i].expires

\* What ended has the state it ended with for ever, and the cause that belongs to it.
Ended(n) ==
    LET i == endings[n].instance
        e == endings[n].by
        type == PatternOf[started[i].pattern].type
    IN  /\ i \in Ids /\ e \in {0} \cup DOMAIN events
        /\ started[i].state = endings[n].state /\ endings[n].state # "open"
        /\ \A m \in DOMAIN endings : endings[m].instance = i => m = n
        /\ type = "sequence" /\ endings[n].state = "completed" => InWindow(e, i)
        /\ type = "absence" => (endings[n].state = "cancelled" <=> InWindow(e, i))

IInv ==
    /\ TypeInv
    /\ \A i \in Ids : Timed(i)
    /\ \A e \in DOMAIN calls : Holds(e)
    /\ \A n \in DOMAIN endings : Ended(n)

-----------------------------------------------------------------------------
(* What the parts of the invariant need of any step. *)

LEMMA InstanceTyped ==
    ASSUME TypeInv, NEW i \in Ids
    PROVE  /\ i \in Nat \ {0} /\ started[i] \in Instance
           /\ started[i].pattern \in Pattern /\ started[i].matched \in Seq(Nat)
           /\ started[i].expires \in Nat /\ started[i].state \in State
<1>1. started \in Seq(Instance) /\ i \in DOMAIN started
  BY DEF TypeInv, Ids
<1>2. i \in Nat \ {0} /\ started[i] \in Instance
  BY <1>1
<1> QED BY <1>2 DEF Instance

LEMMA EventTyped ==
    ASSUME TypeInv, NEW e \in DOMAIN calls
    PROVE  e \in Nat \ {0} /\ e \in DOMAIN events /\ calls[e] \in Call
<1>1. calls \in Seq(Call) /\ events \in Seq(Event) /\ Len(calls) = Len(events)
  BY DEF TypeInv
<1> QED BY <1>1

\* Events stay as they came.
Later == \A e \in DOMAIN events : e \in DOMAIN events' /\ events'[e] = events[e]

\* What a step leaves of an instance, whatever else it does.
Stays(i) ==
    /\ i \in Ids' /\ started'[i].pattern = started[i].pattern
    /\ started'[i].expires = started[i].expires
    /\ started[i].state # "open" => started'[i].state = started[i].state
    /\ started'[i].matched # <<>> /\ started'[i].matched[1] = started[i].matched[1]
    /\ started'[i].active => started[i].active /\ started'[i].state = started[i].state

LEMMA TimedStays ==
    ASSUME Later, NEW i \in Ids, Timed(i), Stays(i)
    PROVE  Timed(i)'
BY DEF Later, Timed, Stays

\* A new ending is the first of its instance.
Fresh(x) ==
    LET i == x.instance
        type == PatternOf[started'[i].pattern].type
        within == x.by # 0 /\ events'[x.by].at <= started'[i].expires
    IN  /\ i \in Ids' /\ x.by \in {0} \cup DOMAIN events'
        /\ i \in Ids => started[i].state = "open"
        /\ started'[i].state = x.state /\ x.state # "open"
        /\ type = "sequence" /\ x.state = "completed" => within
        /\ type = "absence" => (x.state = "cancelled" <=> within)

LEMMA EndingsKept ==
    ASSUME TypeInv, Later, \A n \in DOMAIN endings : Ended(n), \A i \in Ids : Stays(i),
           \/ endings' = endings
           \/ \E x \in Ending : endings' = Append(endings, x) /\ Fresh(x)
    PROVE  endings' \in Seq(Ending) /\ \A n \in DOMAIN endings' : Ended(n)'
<1>1. endings \in Seq(Ending) /\ 0 \notin DOMAIN events
  BY DEF TypeInv
<1>2. ASSUME NEW n \in DOMAIN endings, n \in DOMAIN endings', endings'[n] = endings[n],
             \A m \in DOMAIN endings' :
                endings'[m].instance = endings[n].instance =>
                   m \in DOMAIN endings /\ endings'[m] = endings[m]
      PROVE  Ended(n)'
  <2>1. PICK i, e : i = endings[n].instance /\ e = endings[n].by
    OBVIOUS
  <2>2. /\ i \in Ids /\ e \in {0} \cup DOMAIN events
        /\ started[i].state = endings[n].state /\ endings[n].state # "open"
        /\ \A m \in DOMAIN endings : endings[m].instance = i => m = n
        /\ PatternOf[started[i].pattern].type = "sequence" /\ endings[n].state = "completed" =>
              InWindow(e, i)
        /\ PatternOf[started[i].pattern].type = "absence" =>
              (endings[n].state = "cancelled" <=> InWindow(e, i))
    BY <2>1 DEF Ended
  <2>3. /\ i \in Ids' /\ started'[i].pattern = started[i].pattern
        /\ started'[i].expires = started[i].expires
        /\ started'[i].state = started[i].state
    BY <2>2 DEF Stays
  <2>4. InWindow(e, i)' <=> InWindow(e, i)
    BY <2>2, <2>3 DEF InWindow, Later
  <2>5. e \in {0} \cup DOMAIN events'
    BY <2>2 DEF Later
  <2>6. \A m \in DOMAIN endings' : endings'[m].instance = i => m = n
    BY <1>2, <2>1, <2>2
  <2> QED BY <1>2, <2>1, <2>2, <2>3, <2>4, <2>5, <2>6 DEF Ended, InWindow
<1>3. CASE endings' = endings
  BY <1>1, <1>2, <1>3
<1>4. ASSUME NEW x \in Ending, endings' = Append(endings, x), Fresh(x)
      PROVE  endings' \in Seq(Ending) /\ \A n \in DOMAIN endings' : Ended(n)'
  <2>1. /\ endings' \in Seq(Ending)
        /\ Len(endings) + 1 \notin DOMAIN endings
        /\ endings'[Len(endings) + 1] = x
        /\ \A n \in DOMAIN endings : n \in DOMAIN endings' /\ endings'[n] = endings[n]
        /\ \A n \in DOMAIN endings' : n \in DOMAIN endings \/ n = Len(endings) + 1
    BY <1>1, <1>4
  <2>2. \A n \in DOMAIN endings : endings[n].instance # x.instance
    BY <1>4 DEF Fresh, Ended
  <2>3. ASSUME NEW n \in DOMAIN endings
        PROVE  Ended(n)'
    BY <1>2, <2>1, <2>2
  <2>4. ASSUME NEW n, n = Len(endings) + 1
        PROVE  Ended(n)'
    <3>1. endings'[n] = x
      BY <2>1, <2>4
    <3>2. \A m \in DOMAIN endings' : endings'[m].instance = x.instance => m = n
      BY <2>1, <2>2, <2>4
    <3> QED BY <1>4, <3>1, <3>2 DEF Ended, Fresh, InWindow
  <2> QED BY <2>1, <2>3, <2>4
<1> QED BY <1>3, <1>4

LEMMA Settled ==
    ASSUME IInv, Later, started' \in Seq(Instance), patterns' \in Seq(Pattern),
           events' \in Seq(Event), calls' \in Seq(Call), Len(calls') = Len(events'),
           clock' \in Nat,
           \A i \in Ids : Stays(i), \A i \in Ids' \ Ids : Timed(i)',
           \A e \in DOMAIN calls' :
              /\ calls'[e].todo \subseteq Ids
              /\ calls'[e].pc = "loop" => calls'[e].pattern # <<>>,
           \/ endings' = endings
           \/ \E x \in Ending : endings' = Append(endings, x) /\ Fresh(x)
    PROVE  IInv'
<1>1. TypeInv
  BY DEF IInv
<1>2. endings' \in Seq(Ending) /\ \A n \in DOMAIN endings' : Ended(n)'
  BY <1>1, EndingsKept DEF IInv
<1>3. ASSUME NEW i \in Ids'
      PROVE  Timed(i)'
  <2>1. CASE i \in Ids
    BY <2>1, TimedStays DEF IInv
  <2> QED BY <2>1
<1>4. \A e \in DOMAIN calls' : Holds(e)'
  BY DEF Holds, Stays
<1>5. TypeInv'
  BY <1>2 DEF TypeInv
<1> QED BY <1>2, <1>3, <1>4, <1>5 DEF IInv

\* The instances stay, or some leave the matcher or its list.
LEMMA Calm ==
    ASSUME IInv, started' \in Seq(Instance), Ids' = Ids,
           \A i \in Ids : /\ started'[i].pattern = started[i].pattern
                          /\ started'[i].expires = started[i].expires
                          /\ started'[i].state = started[i].state
                          /\ started'[i].matched = started[i].matched
                          /\ started'[i].active => started[i].active
    PROVE  \A i \in Ids : Stays(i)
BY DEF IInv, Timed, Stays

LEMMA Unchanged ==
    ASSUME IInv, UNCHANGED started
    PROVE  started' \in Seq(Instance) /\ Ids' = Ids /\ \A i \in Ids : Stays(i)
<1>1. started' \in Seq(Instance) /\ Ids' = Ids
  BY DEF IInv, TypeInv, Ids
<1> QED BY <1>1, Calm

-----------------------------------------------------------------------------
(* Instances. *)

\* An instance that waits ends, once and for all.
LEMMA EndStep ==
    ASSUME IInv, UNCHANGED events, NEW i \in Ids, started[i].state = "open",
           NEW st \in State \ {"open"}, NEW m \in Seq(Nat), m # <<>>, m[1] = started[i].matched[1],
           NEW e \in {0} \cup DOMAIN events, End(i, st, m, e),
           LET type == PatternOf[started[i].pattern].type
           IN  /\ type = "sequence" /\ st = "completed" => InWindow(e, i)
               /\ type = "absence" => (st = "cancelled" <=> InWindow(e, i))
    PROVE  /\ started' \in Seq(Instance) /\ Ids' = Ids
           /\ \A j \in Ids : Stays(j)
           /\ \E x \in Ending : endings' = Append(endings, x) /\ Fresh(x)
<1>1. TypeInv /\ started \in Seq(Instance) /\ started[i] \in Instance
  BY InstanceTyped DEF IInv, TypeInv
<1>2. PICK s : s = [started[i] EXCEPT !.state = st, !.active = FALSE, !.matched = m]
  OBVIOUS
<1>3. /\ s \in Instance /\ s.pattern = started[i].pattern /\ s.expires = started[i].expires
      /\ s.state = st /\ s.active = FALSE /\ s.matched = m
  BY <1>1, <1>2 DEF Instance
<1>4. started' = [started EXCEPT ![i] = s]
  BY <1>2 DEF End
<1>5. /\ started' \in Seq(Instance) /\ Ids' = Ids /\ started'[i] = s
      /\ \A j \in Ids : j # i => started'[j] = started[j]
  BY <1>1, <1>3, <1>4 DEF Ids
<1>6. ASSUME NEW j \in Ids
      PROVE  Stays(j)
  <2>1. CASE j = i
    BY <1>3, <1>5, <2>1 DEF Stays
  <2>2. CASE j # i
    BY <1>5, <2>2 DEF Stays, IInv, Timed
  <2> QED BY <2>1, <2>2
<1>7. PICK x : x = [instance |-> i, state |-> st, by |-> e]
  OBVIOUS
<1>8. x \in Ending /\ x.instance = i /\ x.state = st /\ x.by = e
  <2>1. i \in Nat /\ e \in Nat
    BY <1>1, InstanceTyped DEF TypeInv
  <2> QED BY <1>7, <2>1 DEF Ending
<1>9. endings' = Append(endings, x)
  BY <1>7 DEF End
<1>10. Fresh(x)
  BY <1>3, <1>5, <1>8 DEF Fresh, InWindow
<1> QED BY <1>5, <1>6, <1>8, <1>9, <1>10

\* A new instance; one of a sequence of a single step has ended at once.
LEMMA NewStep ==
    ASSUME PatternsTyped, IInv, UNCHANGED events, NEW e \in DOMAIN calls,
           NEW p \in Pattern, NEW st \in {"open", "completed"},
           started' = Append(started, NewInstance(e, p, st)),
           \/ st = "open" /\ endings' = endings
           \/ /\ st = "completed" /\ PatternOf[p].type = "sequence"
              /\ endings' = Append(endings, [instance |-> Len(started) + 1,
                                             state |-> "completed", by |-> e])
    PROVE  /\ started' \in Seq(Instance)
           /\ \A j \in Ids : Stays(j)
           /\ \A j \in Ids' \ Ids : Timed(j)'
           /\ \/ endings' = endings
              \/ \E x \in Ending : endings' = Append(endings, x) /\ Fresh(x)
<1>1. /\ TypeInv /\ started \in Seq(Instance) /\ events \in Seq(Event)
      /\ e \in Nat \ {0} /\ e \in DOMAIN events
  BY EventTyped DEF IInv, TypeInv
<1>2. PICK s : s = NewInstance(e, p, st)
  OBVIOUS
<1>3. PICK n \in Nat : n = Len(started) + 1
  BY <1>1
<1>4. events[e].at \in Nat /\ events[e].group \in Group \cup {NoGroup}
  <2>1. events[e] \in Event
    BY <1>1
  <2> QED BY <2>1 DEF Event
<1>5. /\ s.pattern = p /\ s.state = st /\ (s.active <=> st = "open")
      /\ s.matched = <<e>> /\ s.expires = events[e].at + PatternOf[p].within
  BY <1>2 DEF NewInstance
<1>6. s \in Instance
  <2>1. Key(e, p) \in Group \cup {NoGroup}
    BY <1>4 DEF Key
  <2>2. events[e].at + PatternOf[p].within \in Nat
    BY <1>4 DEF PatternsTyped
  <2>3. <<e>> \in Seq(Nat)
    BY <1>1
  <2> QED BY <1>2, <2>1, <2>2, <2>3 DEF NewInstance, Instance, State
<1>7. /\ started' \in Seq(Instance) /\ started'[n] = s /\ n \notin Ids /\ Ids' = Ids \cup {n}
      /\ \A j \in Ids : started'[j] = started[j]
  BY <1>1, <1>2, <1>3, <1>6 DEF Ids
<1>8. ASSUME NEW j \in Ids
      PROVE  Stays(j)
  BY <1>7 DEF Stays, IInv, Timed
<1>9. Timed(n)'
  <2>1. <<e>> # <<>> /\ <<e>>[1] = e
    OBVIOUS
  <2> QED BY <1>1, <1>5, <1>7, <2>1 DEF Timed
<1>10. ASSUME st = "completed", PatternOf[p].type = "sequence",
              endings' = Append(endings, [instance |-> n, state |-> "completed", by |-> e])
       PROVE  \E x \in Ending : endings' = Append(endings, x) /\ Fresh(x)
  <2>1. PICK x : x = [instance |-> n, state |-> "completed", by |-> e]
    OBVIOUS
  <2>2. x \in Ending /\ x.instance = n /\ x.state = "completed" /\ x.by = e
    BY <1>1, <2>1 DEF Ending, State
  <2>3. events[e].at <= events[e].at + PatternOf[p].within
    BY <1>4 DEF PatternsTyped
  <2>4. Fresh(x)
    BY <1>1, <1>5, <1>7, <1>10, <2>2, <2>3 DEF Fresh
  <2> QED BY <1>10, <2>1, <2>2, <2>4
<1> QED BY <1>3, <1>7, <1>8, <1>9, <1>10

-----------------------------------------------------------------------------
(* Each action preserves the invariant. *)

\* A call that has the thread goes on, and is left with instances that there are.
LEMMA Going ==
    ASSUME IInv, NEW e \in DOMAIN calls, NEW pc \in {"visit", "loop", "over"},
           NEW todo, todo \subseteq Ids, pc = "loop" => calls[e].pc = "loop", Goes(e, pc, todo)
    PROVE  /\ calls' \in Seq(Call) /\ Len(calls') = Len(calls)
           /\ \A d \in DOMAIN calls' : /\ calls'[d].todo \subseteq Ids
                                       /\ calls'[d].pc = "loop" => calls'[d].pattern # <<>>
<1>1. TypeInv /\ calls \in Seq(Call) /\ calls[e] \in Call
  BY EventTyped DEF IInv, TypeInv
<1>2. Ids \subseteq Nat
  BY <1>1, InstanceTyped
<1>3. PICK c : c = [calls[e] EXCEPT !.pc = pc, !.todo = todo]
  OBVIOUS
<1>4. c \in Call /\ c.todo = todo /\ c.pc = pc /\ c.pattern = calls[e].pattern
  BY <1>1, <1>2, <1>3 DEF Call
<1>5. calls' = [calls EXCEPT ![e] = c]
  BY <1>3 DEF Goes
<1>6. /\ calls' \in Seq(Call) /\ Len(calls') = Len(calls) /\ calls'[e] = c
      /\ \A d \in DOMAIN calls' : d \in DOMAIN calls /\ (d # e => calls'[d] = calls[d])
  BY <1>1, <1>4, <1>5
<1> QED BY <1>4, <1>6 DEF IInv, Holds

LEMMA ProcessEventKeeps ==
    ASSUME IInv, NEW t \in Topic, NEW g \in Group \cup {NoGroup}, ProcessEvent(t, g)
    PROVE  IInv'
<1>1. TypeInv /\ events \in Seq(Event) /\ calls \in Seq(Call) /\ Len(calls) = Len(events)
  BY DEF IInv, TypeInv
<1>2. PICK x : x = [topic |-> t, group |-> g, at |-> clock]
  OBVIOUS
<1>3. x \in Event
  BY <1>1, <1>2 DEF TypeInv, Event
<1>4. /\ events' = Append(events, x) /\ events' \in Seq(Event)
      /\ Len(events') = Len(events) + 1 /\ Later
  BY <1>1, <1>2, <1>3 DEF ProcessEvent, Later
<1>5. PICK c : c = [pc |-> "visit", pattern |-> <<>>, todo |-> {}, seen |-> {}]
  OBVIOUS
<1>6. c \in Call /\ c.todo = {} /\ c.pc = "visit"
  BY <1>5 DEF Call
<1>7. calls' = Append(calls, c)
  BY <1>5 DEF ProcessEvent
<1>8. /\ calls' \in Seq(Call) /\ Len(calls') = Len(calls) + 1
      /\ \A d \in DOMAIN calls' : \/ d \in DOMAIN calls /\ calls'[d] = calls[d]
                                  \/ calls'[d] = c
  BY <1>1, <1>6, <1>7
<1>9. \A d \in DOMAIN calls' : /\ calls'[d].todo \subseteq Ids
                               /\ calls'[d].pc = "loop" => calls'[d].pattern # <<>>
  BY <1>6, <1>8 DEF IInv, Holds
<1>10. UNCHANGED <<patterns, started, endings, clock>>
  BY DEF ProcessEvent
<1>11. patterns' \in Seq(Pattern) /\ clock' \in Nat
  BY <1>1, <1>10 DEF TypeInv
<1> QED BY <1>1, <1>4, <1>8, <1>9, <1>10, <1>11, Settled, Unchanged

LEMMA VisitKeeps ==
    ASSUME IInv, NEW e \in DOMAIN calls, Visit(e)
    PROVE  IInv'
<1>1. /\ TypeInv /\ calls \in Seq(Call) /\ Len(calls) = Len(events) /\ calls[e] \in Call
      /\ patterns \in Seq(Pattern) /\ Ids \subseteq Nat
  BY EventTyped, InstanceTyped DEF IInv, TypeInv
<1>2. UNCHANGED <<patterns, events, started, endings, clock>> /\ Later
  BY DEF Visit, Later
<1>3. /\ calls' \in Seq(Call) /\ Len(calls') = Len(calls)
      /\ \A d \in DOMAIN calls' : /\ calls'[d].todo \subseteq Ids
                                  /\ calls'[d].pc = "loop" => calls'[d].pattern # <<>>
  <2>1. CASE Goes(e, "over", {})
    BY <2>1, Going
  <2>2. ASSUME NEW k \in DOMAIN patterns, NEW p, p = patterns[k],
               calls' = [calls EXCEPT
                   ![e] = [pc |-> "loop", pattern |-> <<p>>, seen |-> @.seen \cup {p},
                           todo |-> Found(p, Key(e, p))]]
        PROVE  /\ calls' \in Seq(Call) /\ Len(calls') = Len(calls)
               /\ \A d \in DOMAIN calls' : /\ calls'[d].todo \subseteq Ids
                                           /\ calls'[d].pc = "loop" => calls'[d].pattern # <<>>
    <3>1. PICK c : c = [pc |-> "loop", pattern |-> <<p>>, seen |-> calls[e].seen \cup {p},
                        todo |-> Found(p, Key(e, p))]
      OBVIOUS
    <3>2. p \in Pattern /\ <<p>> \in Seq(Pattern) /\ <<p>> # <<>>
      BY <1>1, <2>2
    <3>3. Found(p, Key(e, p)) \subseteq Ids
      BY DEF Found
    <3>4. c \in Call /\ c.todo \subseteq Ids /\ c.pattern # <<>>
      BY <1>1, <3>1, <3>2, <3>3 DEF Call
    <3>5. calls' = [calls EXCEPT ![e] = c]
      BY <2>2, <3>1
    <3>6. /\ calls' \in Seq(Call) /\ Len(calls') = Len(calls) /\ calls'[e] = c
          /\ \A d \in DOMAIN calls' : d \in DOMAIN calls /\ (d # e => calls'[d] = calls[d])
      BY <1>1, <3>4, <3>5
    <3> QED BY <3>4, <3>6 DEF IInv, Holds
  <2> QED BY <2>1, <2>2 DEF Visit, First
<1>4. patterns' \in Seq(Pattern) /\ clock' \in Nat /\ events' \in Seq(Event)
  BY <1>1, <1>2 DEF TypeInv
<1> QED BY <1>1, <1>2, <1>3, <1>4, Settled, Unchanged

\* What a look at an instance may do to the instances and endings.
Sound ==
    /\ started' \in Seq(Instance) /\ Ids' = Ids /\ \A i \in Ids : Stays(i)
    /\ \/ endings' = endings
       \/ \E x \in Ending : endings' = Append(endings, x) /\ Fresh(x)

LEMMA LookParts ==
    ASSUME IInv, UNCHANGED events, NEW e \in DOMAIN calls, NEW i \in Ids,
           LookSequence(e, i) \/ LookAbsence(e, i)
    PROVE  Sound
<1>1. /\ TypeInv /\ started \in Seq(Instance) /\ started[i] \in Instance
      /\ started[i].matched \in Seq(Nat) /\ started[i].expires \in Nat
      /\ started[i].matched # <<>>
      /\ e \in DOMAIN events /\ e \in Nat \ {0} /\ events[e].at \in Nat
  <2>1. TypeInv /\ started \in Seq(Instance) /\ events \in Seq(Event)
    BY DEF IInv, TypeInv
  <2>2. e \in DOMAIN events /\ e \in Nat \ {0}
    BY <2>1, EventTyped
  <2>3. events[e] \in Event
    BY <2>1, <2>2
  <2> QED BY <2>1, <2>2, <2>3, InstanceTyped DEF Event, IInv, Timed
<1> DEFINE type == PatternOf[started[i].pattern].type
<1>2. ASSUME Keep
      PROVE  Sound
  BY <1>2, Unchanged DEF Keep, Sound
<1>3. ASSUME started[i].state = "open", NEW st \in State \ {"open"},
             End(i, st, started[i].matched, e),
             type = "sequence" /\ st = "completed" => InWindow(e, i),
             type = "absence" => (st = "cancelled" <=> InWindow(e, i))
      PROVE  Sound
  BY <1>1, <1>3, EndStep DEF Sound
<1>4. Late(i, e) <=> ~InWindow(e, i)
  BY <1>1 DEF Late, InWindow
<1>5. ASSUME started[i].state = "open", ~Late(i, e), type = "sequence", Advance(i, e)
      PROVE  Sound
  <2>1. PICK next : next = Append(started[i].matched, e)
    OBVIOUS
  <2>2. next \in Seq(Nat) /\ next # <<>> /\ next[1] = started[i].matched[1]
    BY <1>1, <2>1
  <2>3. CASE End(i, "completed", next, e)
    BY <1>1, <1>4, <1>5, <2>2, <2>3, EndStep DEF Sound, State
  <2>4. CASE started' = [started EXCEPT ![i].matched = next] /\ UNCHANGED endings
    <3>1. PICK s : s = [started[i] EXCEPT !.matched = next]
      OBVIOUS
    <3>2. /\ s \in Instance /\ s.matched = next /\ s.pattern = started[i].pattern
          /\ s.expires = started[i].expires /\ s.state = started[i].state
          /\ s.active = started[i].active
      BY <1>1, <2>2, <3>1 DEF Instance
    <3>3. started' = [started EXCEPT ![i] = s]
      BY <2>4, <3>1
    <3>4. /\ started' \in Seq(Instance) /\ Ids' = Ids /\ started'[i] = s
          /\ \A j \in Ids : j # i => started'[j] = started[j]
      BY <1>1, <3>2, <3>3 DEF Ids
    <3>5. ASSUME NEW j \in Ids
          PROVE  Stays(j)
      <4>1. CASE j = i
        BY <2>2, <3>2, <3>4, <4>1 DEF Stays
      <4>2. CASE j # i
        BY <3>4, <4>2 DEF Stays, IInv, Timed
      <4> QED BY <4>1, <4>2
    <3> QED BY <2>4, <3>4, <3>5 DEF Sound
  <2>5. CASE End(i, "expired", started[i].matched, e)
    BY <1>3, <1>5, <2>5 DEF State
  <2> QED BY <1>2, <1>5, <2>1, <2>3, <2>4, <2>5 DEF Advance
<1>6. CASE LookSequence(e, i)
  <2>1. CASE started[i].state = "open" /\ End(i, "expired", started[i].matched, e)
    BY <1>3, <1>6, <2>1 DEF LookSequence, State
  <2> QED BY <1>2, <1>5, <1>6, <2>1 DEF LookSequence
<1>7. CASE LookAbsence(e, i)
  <2>1. CASE /\ started[i].state = "open" /\ Late(i, e)
             /\ End(i, "completed", started[i].matched, e)
    BY <1>3, <1>4, <1>7, <2>1 DEF LookAbsence, State
  <2>2. CASE /\ started[i].state = "open" /\ ~Late(i, e)
             /\ End(i, "cancelled", started[i].matched, e)
    BY <1>3, <1>4, <1>7, <2>2 DEF LookAbsence, State
  <2> QED BY <1>2, <1>7, <2>1, <2>2 DEF LookAbsence
<1> QED BY <1>6, <1>7

LEMMA LookKeeps ==
    ASSUME IInv, NEW e \in DOMAIN calls, Look(e)
    PROVE  IInv'
<1>1. UNCHANGED <<patterns, events, clock>> /\ Later
  BY DEF Look, Later
<1>2. PICK i \in First(calls[e].todo) :
         (LookSequence(e, i) \/ LookAbsence(e, i)) /\ Goes(e, "loop", calls[e].todo \ {i})
  BY DEF Look
<1>3. calls[e].todo \subseteq Ids /\ i \in Ids
  BY DEF IInv, Holds, First
<1>4. Sound
  BY <1>1, <1>2, <1>3, LookParts
<1>5. /\ calls' \in Seq(Call) /\ Len(calls') = Len(calls)
      /\ \A d \in DOMAIN calls' : /\ calls'[d].todo \subseteq Ids
                                  /\ calls'[d].pc = "loop" => calls'[d].pattern # <<>>
  BY <1>2, <1>3, Going DEF Look
<1>6. /\ patterns' \in Seq(Pattern) /\ clock' \in Nat /\ events' \in Seq(Event)
      /\ Len(calls) = Len(events')
  BY <1>1 DEF IInv, TypeInv
<1> QED BY <1>1, <1>4, <1>5, <1>6, Settled DEF Sound

LEMMA StartKeeps ==
    ASSUME PatternsTyped, IInv, NEW e \in DOMAIN calls, Start(e)
    PROVE  IInv'
<1>1. UNCHANGED <<patterns, events, clock>> /\ Later
  BY DEF Start, Later
<1>2. PICK p : /\ p = Head(calls[e].pattern)
               /\ StartSequence(e, p) \/ StartAbsence(e, p)
  BY DEF Start
<1>3. p \in Pattern
  <2>1. calls[e].pattern \in Seq(Pattern) /\ calls[e].pattern # <<>>
    BY EventTyped DEF IInv, Holds, Start, Call
  <2> QED BY <1>2, <2>1
<1>4. /\ started' \in Seq(Instance) /\ \A i \in Ids : Stays(i)
      /\ \A i \in Ids' \ Ids : Timed(i)'
      /\ \/ endings' = endings
         \/ \E x \in Ending : endings' = Append(endings, x) /\ Fresh(x)
  <2>1. CASE started' = started /\ UNCHANGED endings
    BY <2>1, Unchanged
  <2>2. ASSUME started' = Append(started, NewInstance(e, p, "open")), UNCHANGED endings
        PROVE  <1>4
    BY <1>1, <1>3, <2>2, NewStep
  <2>3. ASSUME started' = Append(started, NewInstance(e, p, "completed")),
               PatternOf[p].type = "sequence",
               endings' = Append(endings, [instance |-> Len(started) + 1,
                                           state |-> "completed", by |-> e])
        PROVE  <1>4
    BY <1>1, <1>3, <2>3, NewStep
  <2> QED BY <1>2, <2>1, <2>2, <2>3 DEF StartSequence, StartAbsence, Keep
<1>5. /\ calls' \in Seq(Call) /\ Len(calls') = Len(calls)
      /\ \A d \in DOMAIN calls' : /\ calls'[d].todo \subseteq Ids
                                  /\ calls'[d].pc = "loop" => calls'[d].pattern # <<>>
  BY Going DEF Start
<1>6. /\ patterns' \in Seq(Pattern) /\ clock' \in Nat /\ events' \in Seq(Event)
      /\ Len(calls) = Len(events')
  BY <1>1 DEF IInv, TypeInv
<1> QED BY <1>1, <1>4, <1>5, <1>6, Settled

\* What a step outside the calls needs.
LEMMA OutsideKeeps ==
    ASSUME IInv, Sound, UNCHANGED events, patterns' \in Seq(Pattern), clock' \in Nat,
           calls' \in Seq(Call), Len(calls') = Len(calls),
           \A d \in DOMAIN calls : /\ calls'[d].todo = calls[d].todo
                                   /\ calls'[d].pc = calls[d].pc
                                   /\ calls'[d].pattern = calls[d].pattern
    PROVE  IInv'
<1>1. calls \in Seq(Call) /\ events \in Seq(Event) /\ Len(calls) = Len(events)
  BY DEF IInv, TypeInv
<1>2. DOMAIN calls' = DOMAIN calls
  BY <1>1
<1>3. \A d \in DOMAIN calls' : /\ calls'[d].todo \subseteq Ids
                               /\ calls'[d].pc = "loop" => calls'[d].pattern # <<>>
  BY <1>2 DEF IInv, Holds
<1> QED BY <1>1, <1>3, Settled DEF Sound, Later

LEMMA HandleTimeoutKeeps ==
    ASSUME IInv, NEW i \in Ids, HandleTimeout(i)
    PROVE  IInv'
<1>1. UNCHANGED <<patterns, events, calls, clock>>
  BY DEF HandleTimeout
<1>2. started[i].state = "open" /\ started[i].matched \in Seq(Nat) /\ started[i].matched # <<>>
  BY InstanceTyped DEF IInv, Timed, HandleTimeout
<1>3. PICK st \in {"completed", "expired"} :
         /\ End(i, st, started[i].matched, 0)
         /\ st = IF PatternOf[started[i].pattern].type = "absence" THEN "completed"
                 ELSE "expired"
  BY DEF HandleTimeout
<1>4. ~InWindow(0, i)
  BY DEF InWindow
<1>5. PatternOf[started[i].pattern].type = "sequence" => st = "expired"
  BY <1>3
<1>6. Sound
  BY <1>1, <1>2, <1>3, <1>4, <1>5, EndStep DEF Sound, State
<1>7. patterns' \in Seq(Pattern) /\ clock' \in Nat /\ calls' \in Seq(Call)
  BY <1>1 DEF IInv, TypeInv
<1> QED BY <1>1, <1>6, <1>7, OutsideKeeps

\* Changes of the patterns only let instances go.
LEMMA LetGo ==
    ASSUME IInv, UNCHANGED endings,
           started' \in Seq(Instance), Ids' = Ids,
           \A i \in Ids : /\ started'[i].pattern = started[i].pattern
                          /\ started'[i].expires = started[i].expires
                          /\ started'[i].state = started[i].state
                          /\ started'[i].matched = started[i].matched
                          /\ started'[i].active => started[i].active
    PROVE  Sound
BY Calm DEF Sound

LEMMA Unlisted ==
    ASSUME TypeInv, NEW i \in Ids
    PROVE  LET s == [started[i] EXCEPT !.listed = FALSE]
               t == [started[i] EXCEPT !.active = FALSE]
           IN  /\ s \in Instance /\ s.pattern = started[i].pattern
               /\ s.expires = started[i].expires /\ s.state = started[i].state
               /\ s.matched = started[i].matched /\ s.active = started[i].active
               /\ t \in Instance /\ t.pattern = started[i].pattern
               /\ t.expires = started[i].expires /\ t.state = started[i].state
               /\ t.matched = started[i].matched /\ t.active = FALSE
BY InstanceTyped DEF Instance

LEMMA MapIsSeq ==
    ASSUME NEW S, NEW T, NEW s \in Seq(S), NEW t, DOMAIN t = DOMAIN s,
           t = [i \in DOMAIN t |-> t[i]],
           \A i \in DOMAIN s : t[i] \in T
    PROVE  t \in Seq(T) /\ Len(t) = Len(s)
<1>1. Len(s) \in Nat /\ DOMAIN s = 1 .. Len(s)
  OBVIOUS
<1>2. t \in [1 .. Len(s) -> T]
  BY <1>1
<1> QED BY <1>1, <1>2

\* What a change of the patterns leaves of the calls.
Forgets ==
    /\ calls' \in Seq(Call) /\ Len(calls') = Len(calls)
    /\ \A d \in DOMAIN calls : /\ calls'[d].todo = calls[d].todo
                               /\ calls'[d].pc = calls[d].pc
                               /\ calls'[d].pattern = calls[d].pattern

LEMMA SeenShrinks ==
    ASSUME IInv, NEW seen,
           calls' = [e \in DOMAIN calls |-> [calls[e] EXCEPT !.seen = seen[e]]],
           \A e \in DOMAIN calls : seen[e] \subseteq calls[e].seen
    PROVE  Forgets
<1>1. calls \in Seq(Call) /\ TypeInv
  BY DEF IInv, TypeInv
<1>2. ASSUME NEW e \in DOMAIN calls
      PROVE  /\ calls'[e] \in Call /\ calls'[e].todo = calls[e].todo
             /\ calls'[e].pc = calls[e].pc /\ calls'[e].pattern = calls[e].pattern
  BY <1>1, EventTyped DEF Call
<1>3. DOMAIN calls' = DOMAIN calls /\ calls' = [i \in DOMAIN calls' |-> calls'[i]]
  OBVIOUS
<1>4. calls' \in Seq(Call) /\ Len(calls') = Len(calls)
  BY <1>1, <1>2, <1>3, MapIsSeq
<1> QED BY <1>2, <1>4 DEF Forgets

LEMMA ChangeKeeps ==
    ASSUME PatternsTyped, IInv, Change
    PROVE  IInv'
<1>1. UNCHANGED <<events, endings, clock>>
  BY DEF Change
<1>2. TypeInv /\ patterns \in Seq(Pattern) /\ started \in Seq(Instance) /\ clock' \in Nat
  BY <1>1 DEF IInv, TypeInv
<1> DEFINE Instances == started' \in Seq(Instance) /\ Ids' = Ids /\
                        \A i \in Ids : /\ started'[i].pattern = started[i].pattern
                                       /\ started'[i].expires = started[i].expires
                                       /\ started'[i].state = started[i].state
                                       /\ started'[i].matched = started[i].matched
                                       /\ started'[i].active => started[i].active
<1>3. ASSUME started' = [i \in Ids |-> started'[i]], \A i \in Ids : started'[i] \in
                {started[i], [started[i] EXCEPT !.listed = FALSE],
                 [started[i] EXCEPT !.active = FALSE]}
      PROVE  Instances
  <2>1. ASSUME NEW i \in Ids
        PROVE  /\ started'[i] \in Instance /\ started'[i].pattern = started[i].pattern
               /\ started'[i].expires = started[i].expires
               /\ started'[i].state = started[i].state
               /\ started'[i].matched = started[i].matched
               /\ started'[i].active => started[i].active
    BY <1>2, <1>3, Unlisted, InstanceTyped
  <2>2. DOMAIN started' = DOMAIN started
    BY <1>3 DEF Ids
  <2>3. started' = [i \in DOMAIN started' |-> started'[i]]
    BY <1>3, <2>2 DEF Ids
  <2>4. started' \in Seq(Instance)
    BY <1>2, <2>1, <2>2, <2>3, MapIsSeq DEF Ids
  <2> QED BY <2>1, <2>2, <2>4 DEF Ids
<1>4. ASSUME NEW p \in Changing, AddPattern(p)
      PROVE  patterns' \in Seq(Pattern) /\ Forgets /\ Instances
  <2>1. patterns' \in Seq(Pattern)
    BY <1>2, <1>4 DEF AddPattern, PatternsTyped
  <2>2. Forgets
    BY <1>4 DEF AddPattern, Forgets, IInv, TypeInv
  <2>3. Instances
    BY <1>3, <1>4 DEF AddPattern
  <2> QED BY <2>1, <2>2, <2>3
<1>5. ASSUME NEW p \in Changing, RemovePattern(p)
      PROVE  patterns' \in Seq(Pattern) /\ Forgets /\ Instances
  <2>1. patterns' \in Seq(Pattern)
    <3>1. PICK k \in DOMAIN patterns : patterns' = RemoveAt(patterns, k)
      BY <1>5 DEF RemovePattern
    <3> QED BY <1>2, <3>1 DEF RemoveAt
  <2>2. Forgets
    <3>1. PICK seen : seen = [e \in DOMAIN calls |-> calls[e].seen \ {p}]
      OBVIOUS
    <3>2. calls' = [e \in DOMAIN calls |-> [calls[e] EXCEPT !.seen = seen[e]]]
      BY <1>5, <3>1 DEF RemovePattern
    <3>3. \A e \in DOMAIN calls : seen[e] \subseteq calls[e].seen
      BY <3>1
    <3> QED BY <3>2, <3>3, SeenShrinks
  <2>3. Instances
    BY <1>3, <1>5 DEF RemovePattern
  <2> QED BY <2>1, <2>2, <2>3
<1>6. ASSUME Clear
      PROVE  patterns' \in Seq(Pattern) /\ Forgets /\ Instances
  <2>1. Forgets
    BY <1>6 DEF Clear, Forgets, IInv, TypeInv
  <2> QED BY <1>2, <1>3, <1>6, <2>1 DEF Clear
<1>7. ASSUME Reset
      PROVE  patterns' \in Seq(Pattern) /\ Forgets /\ Instances
  <2>1. Forgets
    <3>1. PICK seen : seen = [e \in DOMAIN calls |-> {}]
      OBVIOUS
    <3>2. calls' = [e \in DOMAIN calls |-> [calls[e] EXCEPT !.seen = seen[e]]]
      BY <1>7, <3>1 DEF Reset
    <3>3. \A e \in DOMAIN calls : seen[e] \subseteq calls[e].seen
      BY <3>1
    <3> QED BY <3>2, <3>3, SeenShrinks
  <2> QED BY <1>2, <1>3, <1>7, <2>1 DEF Reset
<1>8. patterns' \in Seq(Pattern) /\ Forgets /\ Instances
  BY <1>4, <1>5, <1>6, <1>7 DEF Change
<1>9. Sound
  BY <1>1, <1>8, LetGo
<1> QED BY <1>1, <1>2, <1>8, <1>9, OutsideKeeps DEF Forgets

LEMMA TickKeeps ==
    ASSUME IInv, Tick
    PROVE  IInv'
<1>1. UNCHANGED <<patterns, events, calls, started, endings>>
  BY DEF Tick
<1>2. patterns' \in Seq(Pattern) /\ clock' \in Nat /\ calls' \in Seq(Call)
  BY DEF IInv, TypeInv, Tick
<1>3. Sound
  BY <1>1, Unchanged DEF Sound
<1> QED BY <1>1, <1>2, <1>3, OutsideKeeps

LEMMA InitSound ==
    ASSUME PatternsTyped, Init
    PROVE  IInv
<1>1. /\ events = <<>> /\ calls = <<>> /\ started = <<>> /\ endings = <<>> /\ clock = 0
      /\ patterns \in Seq(Pattern)
  BY DEF Init, PatternsTyped
<1>2. Ids = {} /\ DOMAIN calls = {} /\ DOMAIN endings = {}
  BY <1>1 DEF Ids
<1>3. TypeInv
  BY <1>1 DEF TypeInv
<1> QED BY <1>2, <1>3 DEF IInv

LEMMA NextSound ==
    ASSUME PatternsTyped, IInv, [Next]_vars
    PROVE  IInv'
<1>1. ASSUME UNCHANGED vars
      PROVE  IInv'
  <2>1. UNCHANGED <<patterns, events, calls, started, endings, clock>>
    BY <1>1 DEF vars
  <2>2. patterns' \in Seq(Pattern) /\ clock' \in Nat /\ calls' \in Seq(Call)
    BY <2>1 DEF IInv, TypeInv
  <2>3. Sound
    BY <2>1, Unchanged DEF Sound
  <2> QED BY <2>1, <2>2, <2>3, OutsideKeeps
<1> QED BY <1>1, ProcessEventKeeps, VisitKeeps, LookKeeps, StartKeeps, HandleTimeoutKeeps,
           ChangeKeeps, TickKeeps DEF Next

-----------------------------------------------------------------------------
(* The theorems. *)

LEMMA IInvEnds ==
    ASSUME PatternsTyped, IInv
    PROVE  MatchersEnd
<1>1. TypeInv /\ events \in Seq(Event)
  BY DEF IInv, TypeInv
<1>2. ASSUME NEW n \in DOMAIN endings, NEW i, i = endings[n].instance,
             NEW e, e = endings[n].by
      PROVE  InWindow(e, i) <=>
                e # 0 /\ events[e].at - events[started[i].matched[1]].at
                            <= PatternOf[started[i].pattern].within
  <2>1. /\ i \in Ids /\ Timed(i) /\ e \in {0} \cup DOMAIN events
        /\ started[i].pattern \in Pattern
    BY <1>1, <1>2, InstanceTyped DEF IInv, Ended
  <2>2. \A d \in DOMAIN events : events[d].at \in Nat
    <3>1. \A d \in DOMAIN events : events[d] \in Event
      BY <1>1
    <3> QED BY <3>1 DEF Event
  <2>3. PatternOf[started[i].pattern].within \in Nat
    BY <2>1 DEF PatternsTyped
  <2>4. /\ started[i].matched[1] \in DOMAIN events
        /\ started[i].expires = events[started[i].matched[1]].at
                                 + PatternOf[started[i].pattern].within
    BY <2>1 DEF Timed
  <2> QED BY <2>1, <2>2, <2>3, <2>4 DEF InWindow
<1>3. EndsOnce
  BY DEF EndsOnce, IInv, Ended
<1>4. EndsInTime
  BY <1>2 DEF EndsInTime, IInv, Ended
<1> QED BY <1>3, <1>4 DEF MatchersEnd

\* The inductive invariant of the matchers holds: an instance waits while it is in the
\* Map, expires a window after its first event, and an ending keeps its state and cause.
THEOREM MatchersInvariant ==
    ASSUME PatternsTyped
    PROVE  Spec => []IInv
BY InitSound, NextSound, PTL DEF Spec

\* An instance of SequenceMatcher or AbsenceMatcher ends once, whatever calls, callbacks,
\* handleTimeout and changes of the patterns come between: completed or cancelled by an
\* event of its window, also when that event's call was held up, or timed out after it.
THEOREM MatchersEndHolds ==
    ASSUME PatternsTyped
    PROVE  Spec => []MatchersEnd
<1>1. IInv => MatchersEnd
  BY IInvEnds
<1> QED BY <1>1, MatchersInvariant, PTL
=============================================================================
