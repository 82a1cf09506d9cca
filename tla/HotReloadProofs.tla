-------------------------- MODULE HotReloadProofs --------------------------
(***************************************************************************)
(* The safety of the hot reload, for any rules, groups and sources: what   *)
(* the watcher remembers is what is registered, registered rules are       *)
(* valid and their groups exist, and rules no source ever listed are left  *)
(* alone.                                                                  *)
(***************************************************************************)
EXTENDS HotReload, TLAPS

-----------------------------------------------------------------------------
(* The inductive invariant. *)

\* A list that is about to be applied has passed the validation, which looked
\* at the differences only; neither it nor the hashes change until then.
AppliedIsAccepted == phase = "applying" => Accepted(loaded)

\* Whatever is listed, loaded or remembered is known.
Mentioned ==
    \A i \in Ids :
        /\ \A s \in 1 .. NSources : sources[s][i] # NoRule => i \in known
        /\ loaded[i] # NoRule => i \in known
        /\ hashes[i] # NoRule => i \in known

Inv ==
    /\ TypeOK
    /\ RememberedIsRegistered
    /\ RegisteredSound
    /\ AppliedIsAccepted
    /\ Mentioned

-----------------------------------------------------------------------------
(* Facts on the data. *)

\* The hash of a rule is a hash and never what stands for no rule.
LEMMA HashOfRule ==
    \A d \in Rule \cup {NoRule} :
        /\ HashOf(d) \in Hashes \cup {NoRule}
        /\ HashOf(d) = NoRule <=> d = NoRule
  BY HotReloadAssumption DEF HashOf, Hashes, Rule

\* A list into which a source is merged is a list still, and mentions no rule
\* that neither of the two mentions.
LEMMA MergedList ==
    ASSUME NEW list \in [Ids -> Rule \cup {NoRule}],
           NEW source \in [Ids -> Rule \cup {NoRule}]
    PROVE  /\ Merged(list, source) \in [Ids -> Rule \cup {NoRule}]
           /\ \A i \in Ids : Merged(list, source)[i] # NoRule
                 => list[i] # NoRule \/ source[i] # NoRule
  BY DEF Merged

\* The end of a check keeps the types of the watcher's own state.
LEMMA CheckEndsTyped ==
    ASSUME CheckEnds
    PROVE  /\ phase' \in {"waiting", "stopped"}
           /\ position' \in 1 .. NSources
           /\ loaded' \in [Ids -> Rule \cup {NoRule}]
           /\ \A i \in Ids : loaded'[i] = NoRule
  BY HotReloadAssumption DEF CheckEnds, Nothing

\* A pass over the differences, whether it comes to its end or not, registers
\* only rules that are loaded, were accepted and whose group exists.
LEMMA AppliedRules ==
    ASSUME TypeOK, RegisteredSound, Accepted(loaded), ApplySucceeds \/ ApplyFails
    PROVE  /\ rules' \in [Ids -> Rule \cup {NoRule}]
           /\ \A i \in Ids : rules'[i] # NoRule => Valid(rules'[i]) /\ Registrable(rules'[i])
           /\ \A i \in Ids :
                loaded[i] = NoRule /\ hashes[i] = NoRule => rules'[i] = rules[i]
<1> DEFINE new == Added(loaded) \cup Modified(loaded)
<1>1. PICK done \in SUBSET (new \ Refused), gone \in SUBSET Ids :
          /\ rules' = Replaced(done, gone)
          /\ gone \subseteq Removed(loaded) \cup new
  <2>1. CASE ApplySucceeds
    BY <2>1 DEF ApplySucceeds, Refused, Removed
  <2>2. CASE ApplyFails
    BY <2>2 DEF ApplyFails, Refused, Removed, Modified
  <2> QED BY <2>1, <2>2
<1>2. \A i \in done : /\ loaded[i] \in Rule
                      /\ Valid(loaded[i])
                      /\ Registrable(loaded[i])
  BY <1>1 DEF Accepted, Refused, Added, Modified, TypeOK
<1>3. \A i \in Ids : \/ i \in done /\ rules'[i] = loaded[i]
                     \/ i \notin done /\ i \in gone /\ rules'[i] = NoRule
                     \/ i \notin done /\ i \notin gone /\ rules'[i] = rules[i]
  BY <1>1 DEF Replaced
<1>4. rules' \in [Ids -> Rule \cup {NoRule}]
  <2>1. \A i \in Ids : rules'[i] \in Rule \cup {NoRule}
    BY <1>2, <1>3 DEF TypeOK
  <2> QED BY <1>1, <2>1 DEF Replaced
<1>5. \A i \in Ids : rules'[i] # NoRule => Valid(rules'[i]) /\ Registrable(rules'[i])
  BY <1>2, <1>3 DEF RegisteredSound
<1>6. \A i \in Ids : loaded[i] = NoRule /\ hashes[i] = NoRule => i \notin done \cup gone
  BY <1>1, HashOfRule DEF Added, Modified, Removed, TypeOK
<1> QED BY <1>3, <1>4, <1>5, <1>6

-----------------------------------------------------------------------------
(* The invariant is kept by each action. *)

LEMMA InitInv == Init => Inv
<1> SUFFICES ASSUME Init PROVE Inv
  OBVIOUS
<1>1. TypeOK
  <2>1. rules \in [Ids -> Rule \cup {NoRule}]
    BY HotReloadAssumption DEF Init
  <2>2. hashes \in [Ids -> Hashes \cup {NoRule}]
    BY <2>1, HashOfRule DEF Init
  <2> QED BY <2>1, <2>2, HotReloadAssumption DEF Init, TypeOK, Nothing
<1>2. RememberedIsRegistered
  BY DEF Init, RememberedIsRegistered
<1>3. RegisteredSound
  BY DEF Init, RegisteredSound
<1>4. AppliedIsAccepted
  BY DEF Init, AppliedIsAccepted
<1>5. Mentioned
  <2>1. \A i \in Ids : hashes[i] # NoRule => i \in known
    BY <1>1, HashOfRule DEF Init, TypeOK
  <2> QED BY <2>1 DEF Init, Mentioned, Nothing
<1> QED BY <1>1, <1>2, <1>3, <1>4, <1>5 DEF Inv

\* A change of the sources only adds to what is known.
LEMMA EditSourceInv ==
    ASSUME Inv, NEW s \in 1 .. NSources, NEW i \in Ids, NEW d \in Inputs \cup {NoRule},
           EditSource(s, i, d)
    PROVE  Inv'
<1> USE DEF Inv, EditSource, Change, watcherVars
<1>1. TypeOK'
  <2>1. d \in Rule \cup {NoRule}
    BY HotReloadAssumption
  <2>2. sources' \in [1 .. NSources -> [Ids -> Rule \cup {NoRule}]]
    BY <2>1 DEF TypeOK
  <2> QED BY <2>2, HotReloadAssumption DEF TypeOK
<1>2. RememberedIsRegistered' /\ RegisteredSound' /\ AppliedIsAccepted'
  BY DEF RememberedIsRegistered, RegisteredSound, Registrable, AppliedIsAccepted,
         Accepted, Added, Modified
<1>3. Mentioned'
  BY DEF Mentioned, TypeOK
<1> QED BY <1>1, <1>2, <1>3

\* A caller changes one rule, which is out of step from then on.
LEMMA CallerInv ==
    ASSUME Inv, NEW i \in Ids,
           UnregisterRule(i) \/ \E d \in Inputs : RegisterRule(i, d)
    PROVE  Inv'
<1> USE DEF Inv, RegisterRule, UnregisterRule, Change, watcherVars
<1>1. TypeOK'
  <2>1. rules' \in [Ids -> Rule \cup {NoRule}]
    BY HotReloadAssumption DEF TypeOK
  <2> QED BY <2>1, HotReloadAssumption DEF TypeOK
<1>2. RememberedIsRegistered'
  BY DEF RememberedIsRegistered, TypeOK
<1>3. RegisteredSound'
  BY DEF RegisteredSound, Registrable, Valid, TypeOK
<1>4. AppliedIsAccepted' /\ Mentioned'
  BY DEF AppliedIsAccepted, Accepted, Added, Modified, Mentioned
<1> QED BY <1>1, <1>2, <1>3, <1>4

LEMMA CreateGroupInv ==
    ASSUME Inv, NEW g \in Groups, CreateGroup(g)
    PROVE  Inv'
<1> USE DEF Inv, CreateGroup, Change, watcherVars
<1>1. TypeOK'
  BY HotReloadAssumption DEF TypeOK
<1>2. RegisteredSound'
  BY DEF RegisteredSound, Registrable
<1>3. RememberedIsRegistered' /\ AppliedIsAccepted' /\ Mentioned'
  BY DEF RememberedIsRegistered, AppliedIsAccepted, Accepted, Added, Modified, Mentioned
<1> QED BY <1>1, <1>2, <1>3

\* The members of a deleted group have none afterwards, so that the groups of
\* the other rules still exist.
LEMMA DeleteGroupInv ==
    ASSUME Inv, NEW g \in Groups, DeleteGroup(g)
    PROVE  Inv'
<1> USE DEF Inv, DeleteGroup, Change, watcherVars
<1>1. \A i \in Ids :
         \/ /\ i \in Members(g)
            /\ rules[i] \in Rule
            /\ rules'[i] = [rules[i] EXCEPT !.group = NoGroup]
         \/ /\ i \notin Members(g)
            /\ rules'[i] = rules[i]
  BY DEF Members, TypeOK
<1>2. \A r \in Rule : /\ [r EXCEPT !.group = NoGroup] \in Rule
                      /\ [r EXCEPT !.group = NoGroup].group = NoGroup
                      /\ [r EXCEPT !.group = NoGroup].body = r.body
  BY DEF Rule
<1>3. TypeOK'
  <2>1. rules' \in [Ids -> Rule \cup {NoRule}]
    <3>1. \A i \in Ids : rules'[i] \in Rule \cup {NoRule}
      BY <1>1, <1>2 DEF TypeOK
    <3> QED BY <3>1
  <2> QED BY <2>1, HotReloadAssumption DEF TypeOK, Members
<1>4. RegisteredSound'
  <2>1. ASSUME NEW i \in Ids, rules'[i] # NoRule
        PROVE  Valid(rules'[i]) /\ rules'[i].group \in groups' \cup {NoGroup}
    <3>1. CASE i \in Members(g)
      <4>1. rules[i] # NoRule /\ rules'[i].body = rules[i].body /\ rules'[i].group = NoGroup
        BY <1>1, <1>2, <3>1 DEF Members
      <4> QED BY <4>1 DEF RegisteredSound, Valid
    <3>2. CASE i \notin Members(g)
      <4>1. rules'[i] = rules[i] /\ rules[i] # NoRule /\ rules[i].group # g
        BY <1>1, <2>1, <3>2 DEF Members
      <4> QED BY <4>1 DEF RegisteredSound, Registrable
    <3> QED BY <3>1, <3>2
  <2> QED BY <2>1 DEF RegisteredSound, Valid, Registrable
<1>5. RememberedIsRegistered'
  BY <1>1 DEF RememberedIsRegistered
<1>6. AppliedIsAccepted' /\ Mentioned'
  BY DEF AppliedIsAccepted, Accepted, Added, Modified, Mentioned
<1> QED BY <1>3, <1>4, <1>5, <1>6

LEMMA StopInv ==
    ASSUME Inv, Stop
    PROVE  Inv'
<1> USE DEF Inv, Stop, Change
<1>1. TypeOK'
  <2>1. phase' \in {"waiting", "loading", "applying", "stopped"}
    BY DEF TypeOK
  <2>2. changes' \in 0 .. MaxChanges
    BY HotReloadAssumption DEF TypeOK
  <2> QED BY <2>1, <2>2 DEF TypeOK
<1>2. RememberedIsRegistered' /\ RegisteredSound' /\ AppliedIsAccepted' /\ Mentioned'
  BY DEF RememberedIsRegistered, RegisteredSound, Registrable, AppliedIsAccepted,
         Accepted, Added, Modified, Mentioned
<1> QED BY <1>1, <1>2

LEMMA LoadFailsInv ==
    ASSUME Inv, LoadFails
    PROVE  Inv'
<1> USE DEF Inv, LoadFails, Change
<1>1. TypeOK'
  BY CheckEndsTyped, HotReloadAssumption DEF TypeOK
<1>2. RememberedIsRegistered' /\ RegisteredSound'
  BY DEF RememberedIsRegistered, RegisteredSound, Registrable
<1>3. AppliedIsAccepted' /\ Mentioned'
  BY CheckEndsTyped DEF AppliedIsAccepted, Mentioned
<1> QED BY <1>1, <1>2, <1>3

LEMMA CheckBeginsInv ==
    ASSUME Inv, CheckBegins
    PROVE  Inv'
  BY DEF Inv, CheckBegins, TypeOK, RememberedIsRegistered, RegisteredSound, Registrable,
         AppliedIsAccepted, Mentioned

\* What is loaded was listed, and it is applied only when it is accepted.
LEMMA SourceLoadedInv ==
    ASSUME Inv, SourceLoaded
    PROVE  Inv'
<1> USE DEF Inv
<1> DEFINE list == Merged(loaded, sources[position])
<1>1. /\ list \in [Ids -> Rule \cup {NoRule}]
      /\ \A i \in Ids : list[i] # NoRule => i \in known
  <2>1. loaded \in [Ids -> Rule \cup {NoRule}] /\ sources[position] \in [Ids -> Rule \cup {NoRule}]
    BY DEF TypeOK
  <2>2. \A i \in Ids : loaded[i] # NoRule \/ sources[position][i] # NoRule => i \in known
    BY DEF Mentioned, TypeOK
  <2> QED BY <2>1, <2>2, MergedList
<1>2. /\ UNCHANGED <<running, rules, groups, sources, hashes, changes, outOfStep, known>>
      /\ \/ MoreSources /\ position' = position + 1 /\ loaded' = list /\ phase' = phase
         \/ Accepted(list) /\ phase' = "applying" /\ position' = 1 /\ loaded' = list
         \/ CheckEnds
  BY DEF SourceLoaded
<1> HIDE DEF list
<1>3. TypeOK'
  <2>1. position' \in 1 .. NSources
    BY <1>2, CheckEndsTyped, HotReloadAssumption DEF TypeOK, MoreSources
  <2>2. loaded' \in [Ids -> Rule \cup {NoRule}]
    BY <1>1, <1>2, CheckEndsTyped
  <2>3. phase' \in {"waiting", "loading", "applying", "stopped"}
    BY <1>2, CheckEndsTyped DEF TypeOK
  <2> QED BY <1>2, <2>1, <2>2, <2>3 DEF TypeOK
<1>4. RememberedIsRegistered' /\ RegisteredSound'
  BY <1>2 DEF RememberedIsRegistered, RegisteredSound, Registrable
<1>5. AppliedIsAccepted'
  <2>1. phase = "loading"
    BY DEF SourceLoaded
  <2> QED BY <1>2, <2>1, CheckEndsTyped DEF AppliedIsAccepted, Accepted, Added, Modified
<1>6. Mentioned'
  BY <1>1, <1>2, CheckEndsTyped DEF Mentioned
<1> QED BY <1>3, <1>4, <1>5, <1>6

\* After a pass that came to its end, what is remembered of a rule is what is
\* registered of it: it is the one loaded, or was in step before and had no
\* difference.  A pass that failed marks what it changed.
LEMMA AppliedInStep ==
    ASSUME TypeOK, RememberedIsRegistered, ApplySucceeds \/ ApplyFails
    PROVE  /\ RememberedIsRegistered'
           /\ hashes' \in [Ids -> Hashes \cup {NoRule}]
           /\ outOfStep' \subseteq Ids
<1> DEFINE new == Added(loaded) \cup Modified(loaded)
<1>1. CASE ApplySucceeds
  <2>1. hashes' = [i \in Ids |-> HashOf(loaded[i])]
    BY <1>1 DEF ApplySucceeds, Remembered
  <2>2. hashes' \in [Ids -> Hashes \cup {NoRule}] /\ outOfStep' \subseteq Ids
    BY <1>1, <2>1, HashOfRule DEF ApplySucceeds, TypeOK
  <2>3. ASSUME NEW i \in Ids, i \notin outOfStep'
        PROVE  hashes'[i] = HashOf(rules'[i])
    <3>1. rules'[i] = IF i \in new THEN loaded[i]
                      ELSE IF i \in Removed(loaded) THEN NoRule ELSE rules[i]
      BY <1>1 DEF ApplySucceeds, Replaced
    <3>2. CASE i \in new
      BY <2>1, <3>1, <3>2
    <3>3. CASE i \notin new /\ i \in Removed(loaded)
      BY <2>1, <3>1, <3>3 DEF Removed
    <3>4. CASE i \notin new /\ i \notin Removed(loaded)
      <4>1. i \notin outOfStep
        BY <1>1, <2>3, <3>4 DEF ApplySucceeds
      <4>2. hashes[i] = HashOf(rules[i]) /\ rules'[i] = rules[i]
        BY <3>1, <3>4, <4>1 DEF RememberedIsRegistered
      <4>3. hashes[i] = HashOf(loaded[i])
        BY <3>4, HashOfRule DEF Added, Modified, Removed, TypeOK, HashOf
      <4> QED BY <2>1, <4>2, <4>3
    <3> QED BY <3>2, <3>3, <3>4
  <2> QED BY <2>2, <2>3 DEF RememberedIsRegistered
<1>2. CASE ApplyFails
  <2>1. PICK done \in SUBSET Ids, gone \in SUBSET Ids :
          /\ rules' = Replaced(done, gone)
          /\ outOfStep' = outOfStep \cup done \cup gone
          /\ hashes' = hashes
    BY <1>2 DEF ApplyFails, Added, Modified, Removed
  <2>2. ASSUME NEW i \in Ids, i \notin outOfStep'
        PROVE  hashes'[i] = HashOf(rules'[i])
    <3>1. rules'[i] = rules[i] /\ i \notin outOfStep
      BY <2>1, <2>2 DEF Replaced
    <3> QED BY <2>1, <3>1 DEF RememberedIsRegistered
  <2> QED BY <2>1, <2>2 DEF RememberedIsRegistered, TypeOK
<1> QED BY <1>1, <1>2

LEMMA ApplyInv ==
    ASSUME Inv, Apply
    PROVE  Inv'
<1> USE DEF Inv
<1>1. CheckEnds /\ UNCHANGED <<running, groups, sources, changes, known>> /\ Accepted(loaded)
  BY DEF Apply, AppliedIsAccepted
<1>2. AppliedIsAccepted'
  BY <1>1, CheckEndsTyped DEF AppliedIsAccepted
<1>3. CASE running
  <2>1. ApplySucceeds \/ ApplyFails
    BY <1>3 DEF Apply
  <2>2. TypeOK'
    BY <1>1, <2>1, AppliedRules, AppliedInStep, CheckEndsTyped DEF TypeOK
  <2>3. RegisteredSound'
    <3>1. \A i \in Ids : rules'[i] # NoRule => Valid(rules'[i]) /\ Registrable(rules'[i])
      BY <1>1, <2>1, AppliedRules
    <3> QED BY <1>1, <3>1 DEF RegisteredSound, Registrable
  <2>4. RememberedIsRegistered'
    BY <2>1, AppliedInStep
  <2>5. Mentioned'
    <3>1. \A i \in Ids : hashes'[i] # NoRule => loaded[i] # NoRule \/ hashes[i] # NoRule
      BY <2>1, HashOfRule DEF ApplySucceeds, ApplyFails, Remembered, TypeOK
    <3> QED BY <1>1, <3>1, CheckEndsTyped DEF Mentioned
  <2> QED BY <1>2, <2>2, <2>3, <2>4, <2>5
<1>4. CASE ~ running
  <2>1. UNCHANGED <<rules, hashes, outOfStep>>
    BY <1>4 DEF Apply
  <2>2. TypeOK'
    BY <1>1, <2>1, CheckEndsTyped DEF TypeOK
  <2>3. RememberedIsRegistered' /\ RegisteredSound' /\ Mentioned'
    BY <1>1, <2>1, CheckEndsTyped DEF RememberedIsRegistered, RegisteredSound, Registrable,
                                      Mentioned
  <2> QED BY <1>2, <2>2, <2>3
<1> QED BY <1>3, <1>4

LEMMA NextInv == Inv /\ [Next]_vars => Inv'
<1> SUFFICES ASSUME Inv, [Next]_vars PROVE Inv'
  OBVIOUS
<1>1. CASE UNCHANGED vars
  BY <1>1 DEF Inv, vars, watcherVars, TypeOK, RememberedIsRegistered, RegisteredSound,
              Registrable, AppliedIsAccepted, Accepted, Added, Modified, Mentioned
<1>2. CASE Outside
  <2>1. ASSUME NEW s \in 1 .. NSources, NEW i \in Ids, NEW d \in Inputs \cup {NoRule},
               EditSource(s, i, d)
        PROVE  Inv'
    BY <2>1, EditSourceInv
  <2>2. ASSUME NEW i \in Ids, NEW d \in Inputs, RegisterRule(i, d)
        PROVE  Inv'
    BY <2>2, CallerInv
  <2>3. ASSUME NEW i \in Ids, UnregisterRule(i)
        PROVE  Inv'
    BY <2>3, CallerInv
  <2>4. ASSUME NEW g \in Groups, CreateGroup(g) \/ DeleteGroup(g)
        PROVE  Inv'
    BY <2>4, CreateGroupInv, DeleteGroupInv
  <2>5. CASE LoadFails
    BY <2>5, LoadFailsInv
  <2>6. CASE Stop
    BY <2>6, StopInv
  <2> QED BY <1>2, <2>1, <2>2, <2>3, <2>4, <2>5, <2>6 DEF Outside
<1>3. CASE Watcher
  BY <1>3, CheckBeginsInv, SourceLoadedInv, ApplyInv DEF Watcher
<1> QED BY <1>1, <1>2, <1>3 DEF Next

-----------------------------------------------------------------------------
(* The theorems. *)

\* The inductive invariant holds in every behaviour of the reload and the
\* callers beside it.
THEOREM Invariance == Spec => []Inv
<1>1. Init => Inv
  BY InitInv
<1>2. Inv /\ [Next]_vars => Inv'
  BY NextInv
<1> QED BY <1>1, <1>2, PTL DEF Spec

\* The hashes of the watcher agree with the registered rules, but for those
\* that callers or a failed reload changed: computing the difference to the
\* hashes is computing it to the rules.
THEOREM RememberedCorrect == Spec => []RememberedIsRegistered
<1>1. Inv => RememberedIsRegistered
  BY DEF Inv
<1> QED BY <1>1, Invariance, PTL

\* No interleaving of reloads, callers and deleted groups leaves an invalid
\* rule registered, or one whose group does not exist.
THEOREM RegisteredAreSound == Spec => []RegisteredSound
<1>1. Inv => RegisteredSound
  BY DEF Inv
<1> QED BY <1>1, Invariance, PTL

\* A reload leaves alone the rules that no source has listed and that were
\* not there when the watcher started.
THEOREM ForeignRulesKept == Spec => ForeignKept
<1> DEFINE Keeps == phase = "applying" /\ Apply => \A i \in Ids \ known : rules'[i] = rules[i]
<1>1. Inv /\ [Next]_vars => [Keeps]_vars
  <2> SUFFICES ASSUME Inv, phase = "applying", Apply, NEW i \in Ids \ known
               PROVE  rules'[i] = rules[i]
    OBVIOUS
  <2>1. CASE running
    <3>1. (ApplySucceeds \/ ApplyFails) /\ Accepted(loaded)
      BY <2>1 DEF Apply, Inv, AppliedIsAccepted
    <3>2. loaded[i] = NoRule /\ hashes[i] = NoRule
      BY DEF Inv, Mentioned
    <3> QED BY <3>1, <3>2, AppliedRules DEF Inv
  <2>2. CASE ~ running
    BY <2>2 DEF Apply
  <2> QED BY <2>1, <2>2
<1> QED BY <1>1, Invariance, PTL DEF Spec, ForeignKept

\* After stop() no rule changes, although a check that was waiting for the queue
\* at that moment goes on to the end: the first operation of applyChanges throws.
THEOREM StoppedRulesUnchanged == Spec => StoppedUnchanged
<1>1. [Next]_vars => [~ running => rules' = rules]_vars
  <2> SUFFICES ASSUME ~ running, Next PROVE rules' = rules
    OBVIOUS
  <2>1. Outside => rules' = rules
    BY DEF Outside, EditSource, RegisterRule, UnregisterRule, CreateGroup, DeleteGroup,
           LoadFails, Stop
  <2>2. Watcher => rules' = rules
    BY DEF Watcher, CheckBegins, SourceLoaded, Apply
  <2> QED BY <2>1, <2>2 DEF Next
<1> QED BY <1>1, PTL DEF Spec, StoppedUnchanged
=============================================================================
