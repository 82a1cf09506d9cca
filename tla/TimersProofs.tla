---------------------------- MODULE TimersProofs ----------------------------
(***************************************************************************)
(* Proofs about Timers: entered timers stay armed, storage follows memory, *)
(* limits hold across restarts and a one-shot timer fires once, for any    *)
(* names, uses of timers, and number of calls, shots and crashes.          *)
(***************************************************************************)
EXTENDS Timers, TLAPS

-----------------------------------------------------------------------------
(* What calls are about. *)

Set(t) == t \in Calls /\ calls[t].op = "set"
Over(t) == calls[t].pc \in {"done", "failed"}
Entered(t, n) == Set(t) /\ calls[t].name = n /\ (calls[t].pc = "scheduling" \/ Over(t))
Noted(t, n) == Set(t) /\ calls[t].name = n /\ Over(t)

\* A call that has not begun says nothing; one that is under way has a name,
\* and holds a shot while that is being revoked.
CallsSound ==
    \A c \in Calls :
        /\ calls[c].pc = "idle" => calls[c] = NoCall
        /\ calls[c].pc # "idle" => calls[c].op # "none" /\ calls[c].name \in Names
        /\ calls[c].pc \in {"resuming", "scheduling"} => calls[c].op = "set"
        /\ calls[c].shot # None => calls[c].pc = "revoking"

\* Shots, timers, metadata and expiries are of calls of setTimer that have got
\* so far as to leave them.
ShotsSound == \A s \in Shots : shots[s] # Idle => shots[s].name \in Names /\ Set(shots[s].timer)
TimersSound == \A n \in Names : timers[n] # None => Entered(timers[n], n)
MetaSound(n, m) == m # NoMeta => Noted(m.timer, n) /\ m.shot \in Shots
MetasSound ==
    \A n \in Names : \A m \in {metadata[n], saved[n], restoring[n]} : MetaSound(n, m)
Limited(t, meta) ==
    LET last == LimitReached(meta.count, LimitOf(meta.timer))
    IN  \/ KindOf(t) = "repeat" /\ last
        \/ KindOf(t) = "cron" /\ ~last
HandlersSound ==
    \A h \in handlers :
        /\ Entered(h.timer, h.name)
        /\ useDurable => h.meta # NoMeta /\ MetaSound(h.name, h.meta)
        /\ useDurable /\ h.phase = "counted" => Limited(h.timer, h.meta)
        /\ ~useDurable => Set(h.closure.timer)
FiredSound == \A t \in fired : Set(t) /\ (calls[t].pc = "scheduling" \/ Over(t))

References ==
    CallsSound /\ ShotsSound /\ TimersSound /\ MetasSound /\ HandlersSound /\ FiredSound

-----------------------------------------------------------------------------
(* The two modes, and the life of the durable one. *)

Quiet(c) == calls[c].pc \in {"idle", "done", "failed", "dead"}

FallbackMode ==
    /\ hasCallback
    /\ status \in {"up", "stopped"}
    /\ \A n \in Names : metadata[n] = NoMeta /\ saved[n] = NoMeta /\ restoring[n] = NoMeta
    /\ mailbox = <<>>
    /\ \A c \in Calls : calls[c].pc \in {"idle", "resuming", "done"}

DurableMode ==
    /\ status # "stopped"
    /\ \A n \in Names : handles[n] = None
    /\ \A g, h \in handlers : g = h
    /\ hasCallback => status = "up"
    /\ ~hasCallback =>
         /\ \A h \in handlers : h.phase = "counted" /\ restoring[h.name] = NoMeta
         /\ fired = {}
         /\ \A c \in Calls : Quiet(c)
    /\ status # "restoring" => \A n \in Names : restoring[n] = NoMeta
    /\ status = "down" => handlers = {} /\ \A n \in Names : metadata[n] = NoMeta
    /\ \A n \in Names : restoring[n] # NoMeta =>
         metadata[n] = NoMeta /\ saved[n] \in {NoMeta, restoring[n]}

Modes == IF useDurable THEN DurableMode ELSE FallbackMode

-----------------------------------------------------------------------------
(* Fallback mode: a closure of a cron timer arms nothing again for a timer  *)
(* of another kind, so that one needs a shot or an expiry that is its own.  *)

Serves(closureOf, t) == KindOf(closureOf) = "cron" => KindOf(t) = "cron"

Rearming(h) == Serves(h.closure.timer, h.timer)

EnteredIsServed ==
    ~useDurable => \A n \in Names : timers[n] # None =>
        \/ \E h \in handlers : h.name = n /\ Rearming(h)
        \/ \E s \in Shots : shots[s] # Idle /\ shots[s].name = n
                              /\ Serves(shots[s].timer, timers[n])

\* A handle clears no shot of another name.
HandlesNamed ==
    \A n \in Names, s \in Shots :
        handles[n] = s /\ shots[s] # Idle => shots[s].name = n

-----------------------------------------------------------------------------
(* Durable mode. *)

\* What of a name may be cancelled or read again.
MetaRefers(n, s) == s \in {metadata[n].shot, saved[n].shot, restoring[n].shot}
CallRefers(n, s) == \E c \in Calls : calls[c].name = n /\ calls[c].shot = s
HandlerRefers(n, s) == \E h \in handlers : h.name = n /\ h.meta.shot = s
Refers(n, s) == MetaRefers(n, s) \/ CallRefers(n, s) \/ HandlerRefers(n, s)

NoClash == \A n, m \in Names, s \in Shots : Refers(n, s) /\ Refers(m, s) => n = m

InMailbox(n) == \E i \in 1 .. Len(mailbox) : mailbox[i] = n

Backed(n) == shots[metadata[n].shot].name = n \/ InMailbox(n)

\* The metadata of an expiry, with its count once that is written.
Current(h) == IF h.phase = "counted" THEN CountedMeta(h.meta) ELSE h.meta

\* An expiry has read the metadata as it is, or what is there is backed.
MetadataBacked ==
    useDurable => \A n \in Names : metadata[n] # NoMeta =>
        \/ Backed(n)
        \/ timers[n] # metadata[n].timer /\ ~Handling(n)
        \/ \E h \in handlers : h.name = n /\ Current(h) = metadata[n]

ReadIsCurrent ==
    useDurable => \A h \in handlers :
        metadata[h.name].timer = h.meta.timer => metadata[h.name] = Current(h)

\* The entry of a repeating timer stays until it is cancelled.
RepeatArmed ==
    useDurable => \A n \in Names :
        /\ metadata[n] # NoMeta
        /\ KindOf(metadata[n].timer) = "repeat"
        /\ \/ timers[n] = metadata[n].timer
           \/ \E h \in handlers : h.name = n /\ h.timer = metadata[n].timer
        => /\ shots[metadata[n].shot].name = n
           /\ shots[metadata[n].shot].timer = metadata[n].timer

\* Once a save has been carried out storage has what is in memory, but for the
\* count of an expiry that awaits the service, or what is not to be restored.
Awaited(n) ==
    \E h \in handlers :
        /\ h.name = n /\ h.phase = "counted"
        /\ saved[n] = h.meta /\ metadata[n] = CountedMeta(h.meta)

StorageFollows ==
    useDurable /\ ~unsaved => \A n \in Names :
        /\ status = "up" /\ metadata[n] # NoMeta => saved[n] = metadata[n] \/ Awaited(n)
        /\ /\ status \in {"up", "restoring"}
           /\ metadata[n] = NoMeta /\ restoring[n] = NoMeta /\ saved[n] # NoMeta
           => shots[saved[n].shot] = Idle

\* Metadata at its limit belongs to an expiry that awaits the service, or to one
\* that a crash has cut off; what is stored may also have lost its entry.
WithinLimit(m) ==
    m # NoMeta /\ LimitOf(m.timer) # Unlimited => m.count < LimitOf(m.timer)

EndingOf(n, m) == \E h \in Ending : h.name = n /\ m = CountedMeta(h.meta)

LimitsKept ==
    \A n \in Names :
        /\ WithinLimit(metadata[n]) \/ metadata[n].timer \in cutOff \/ EndingOf(n, metadata[n])
        /\ \/ WithinLimit(saved[n]) \/ saved[n].timer \in cutOff \/ EndingOf(n, saved[n])
           \/ shots[saved[n].shot] = Idle
        /\ \/ WithinLimit(restoring[n]) \/ restoring[n].timer \in cutOff
           \/ shots[restoring[n].shot] = Idle

\* A one-shot timer that has fired is entered only while its expiry is awaited.
FiredIsLeaving ==
    useDurable => \A t \in fired, n \in Names :
        KindOf(t) = "once" /\ timers[n] = t => \E h \in handlers : h.timer = t

IInv ==
    /\ TypeOK
    /\ References
    /\ Modes
    /\ EnteredIsServed
    /\ HandlesNamed
    /\ NoClash
    /\ MetadataBacked
    /\ ReadIsCurrent
    /\ RepeatArmed
    /\ StorageFollows
    /\ LimitsKept
    /\ FiredIsLeaving

-----------------------------------------------------------------------------
(* The actions, by what they do. *)

Call == [op : {"none", "set", "cancel"}, name : Names \cup {None},
         kind : Kinds \cup {"none"}, limit : Nat,
         pc : {"idle", "revoking", "forgetting", "resuming", "scheduling", "done", "failed",
               "dead"},
         shot : Shots \cup {None}]
Shot == [name : Names \cup {None}, timer : Calls \cup {None}, count : Nat]
Handler == [name : Names, timer : Calls, meta : MetaSet, closure : Shot,
            key : Shots \cup {None}, phase : {"called", "counted"}]

\* A call of setTimer or cancelTimer that finds a timer of its name.
Cancels(c, call) ==
    /\ status = "up" /\ hasCallback
    /\ calls[c] = NoCall
    /\ call \in Call /\ call.op \in {"set", "cancel"} /\ call.name \in Names
    /\ call.shot = None
    /\ timers[call.name] # None
    /\ CancelTimer(c, call)
    /\ UNCHANGED <<lifeVars, metadata, saved, unsaved, mailbox, handlers, crashes, fired, cutOff>>

\* A call of setTimer that enters its timer, at once or when it resumes.
Enters(c, call) ==
    /\ \/ calls[c] = NoCall /\ status = "up" /\ hasCallback
       \/ calls[c] = call /\ call.pc = "resuming"
    /\ call \in Call /\ call.op = "set" /\ call.name \in Names
    /\ call.shot = None
    /\ EnterTimer(c, call)
    /\ UNCHANGED <<lifeVars, metadata, saved, unsaved, mailbox, handlers, historyVars>>

LEMMA CallBegins ==
    ASSUME TypeOK, NEW c \in Calls, NEW config \in Configs, SetTimer(c, config)
    PROVE  \E call : Cancels(c, call) \/ Enters(c, call)
<1> DEFINE call == [NoCall EXCEPT !.op = "set", !.name = config.name,
                                !.kind = config.kind, !.limit = config.limit]
<1>1. config \in [name : Names, kind : Kinds, limit : Nat]
  BY TimersAssumption DEF TimersAssumption
<1>2. /\ call \in Call /\ call.op = "set" /\ call.name = config.name
      /\ call.name \in Names /\ call.shot = None
  BY <1>1 DEF Call, NoCall
<1>3. /\ NextCall(c)
      /\ IF timers[config.name] # None
           THEN CancelTimer(c, call)
           ELSE EnterTimer(c, call) /\ UNCHANGED withdrawn
      /\ UNCHANGED <<lifeVars, metadata, saved, unsaved, mailbox, handlers, crashes, fired, cutOff>>
  BY DEF SetTimer
<1> HIDE DEF call
<1>4. CASE timers[config.name] # None
  <2>1. Cancels(c, call)
    BY <1>2, <1>3, <1>4 DEF Cancels, NextCall
  <2> QED BY <2>1
<1>5. CASE timers[config.name] = None
  <2>1. Enters(c, call)
    BY <1>2, <1>3, <1>5 DEF Enters, NextCall, historyVars
  <2> QED BY <2>1
<1> QED BY <1>4, <1>5

LEMMA CancelBegins ==
    ASSUME NEW c \in Calls, NEW n \in Names, CancelCalled(c, n)
    PROVE  \E call : Cancels(c, call)
<1> DEFINE call == [NoCall EXCEPT !.op = "cancel", !.name = n]
<1>1. /\ call \in Call /\ call.op = "cancel" /\ call.name = n /\ call.shot = None
  BY DEF Call, NoCall
<1>2. /\ NextCall(c)
      /\ timers[n] # None
      /\ CancelTimer(c, call)
      /\ UNCHANGED <<lifeVars, metadata, saved, unsaved, mailbox, handlers, crashes, fired, cutOff>>
  BY DEF CancelCalled
<1> HIDE DEF call
<1>3. Cancels(c, call)
  BY <1>1, <1>2 DEF Cancels, NextCall
<1> QED BY <1>3

LEMMA CallResumes ==
    ASSUME TypeOK, CallsSound, NEW c \in Calls, SetTimerResumes(c)
    PROVE  Enters(c, calls[c])
<1>1. calls[c] \in Call /\ calls[c].pc = "resuming"
  BY DEF TypeOK, Call, SetTimerResumes
<1>2. calls[c].op = "set" /\ calls[c].name \in Names /\ calls[c].shot = None
  BY <1>1 DEF CallsSound
<1> QED BY <1>1, <1>2 DEF SetTimerResumes, Enters

\* The expiry of a timer in fallback mode is over.
Ends(h) ==
    /\ ~useDurable
    /\ h \in handlers /\ h \in Handler /\ Entered(h.timer, h.name)
    /\ handlers' = handlers \ {h}
    /\ UNCHANGED <<lifeVars, metadata, saved, unsaved, mailbox, calls, historyVars>>
    /\ \/ Forget(h.name)
       \/ \E by \in Calls, count \in Nat :
            Set(by) /\ Serves(by, h.timer) /\ Rearm(h.name, h.timer, by, count)
       \/ ~Rearming(h) /\ UNCHANGED <<timers, handles, shots>>

\* The timer and the metadata of the one expiry that is under way, or that
\* begins and finds no callback registered.
Expiring(n, t, meta) ==
    /\ useDurable
    /\ n \in Names /\ Entered(t, n)
    /\ meta \in MetaSet /\ meta # NoMeta /\ MetaSound(n, meta)
    /\ \A h \in handlers : /\ h.name = n /\ h.timer = t /\ Current(h) = meta
                           /\ h.meta.timer = meta.timer /\ h.meta.shot = meta.shot
    /\ metadata[n].timer = meta.timer => metadata[n] = meta
    /\ \/ handlers # {} /\ mailbox' = mailbox
       \/ /\ handlers = {} /\ timers[n] = t /\ metadata[n] = meta
          /\ mailbox # <<>> /\ n = Head(mailbox) /\ mailbox' = Tail(mailbox)
    /\ UNCHANGED <<lifeVars, handles, calls, historyVars>>

\* It is over: the name is dropped, or the timer kept with new metadata.
Drops(n, meta) ==
    /\ Drop(n)
    /\ \/ shots' = shots /\ Ending = {}
       \/ shots' = Cleared(meta.shot)

Keeps(n, t, meta) ==
    \E new \in MetaSet :
        /\ Ending = {}
        /\ new.timer = meta.timer /\ WithinLimit(new)
        /\ timers' = [timers EXCEPT ![n] = t]
        /\ metadata' = Updated(n, meta, new)
        /\ Persist
        /\ \/ KindOf(t) = "repeat" /\ new.shot = meta.shot /\ shots' = shots
           \/ /\ KindOf(t) = "cron" /\ new.shot \in Shots /\ Fresh(new.shot)
              /\ shots' = Armed(new.shot, n, t, 0)

Follows(n, t, meta) ==
    /\ Expiring(n, t, meta)
    /\ handlers' = {}
    /\ Drops(n, meta) \/ Keeps(n, t, meta)

\* Its count is written, and the service asked.
Counts(n, t, meta) ==
    /\ Expiring(n, t, meta)
    /\ Ending = {} /\ \A h \in handlers : h.phase = "called"
    /\ Limited(t, meta)
    /\ metadata' = Updated(n, meta, CountedMeta(meta))
    /\ \E g \in Handler :
         /\ handlers' = {g}
         /\ g.name = n /\ g.timer = t /\ g.meta = meta /\ g.phase = "counted"
    /\ UNCHANGED <<timers, saved, unsaved, shots>>

LEMMA NoMetaType == NoMeta \in MetaSet /\ Idle \in Shot
BY DEF NoMeta, MetaSet, Idle, Shot

LEMMA CountedWithin ==
    ASSUME NEW count \in Nat, NEW limit \in Nat, ~LimitReached(count, limit)
    PROVE  /\ Counted(count, limit) \in Nat
           /\ limit # Unlimited => Counted(count, limit) < limit
BY DEF LimitReached, Counted, Unlimited

LEMMA CountedFields ==
    ASSUME TypeOK, NEW meta \in MetaSet, meta.timer \in Calls
    PROVE  /\ CountedMeta(meta) \in MetaSet
           /\ CountedMeta(meta).timer = meta.timer /\ CountedMeta(meta).shot = meta.shot
           /\ ~LimitReached(meta.count, LimitOf(meta.timer)) => WithinLimit(CountedMeta(meta))
<1> DEFINE limit == LimitOf(meta.timer)
           count == Counted(meta.count, limit)
<1>1. limit \in Nat /\ meta.count \in Nat
  BY DEF TypeOK, LimitOf, MetaSet
<1>2. count \in Nat
  BY <1>1 DEF Counted
<1>3. ~LimitReached(meta.count, limit) => (limit # Unlimited => count < limit)
  BY <1>1, CountedWithin
<1> HIDE DEF count
<1>4. CountedMeta(meta) = [meta EXCEPT !.count = count]
  BY DEF CountedMeta, count
<1>5. /\ CountedMeta(meta) \in MetaSet /\ CountedMeta(meta).timer = meta.timer
      /\ CountedMeta(meta).shot = meta.shot /\ CountedMeta(meta).count = count
  BY <1>2, <1>4 DEF MetaSet
<1>6. ~LimitReached(meta.count, limit) => WithinLimit(CountedMeta(meta))
  BY <1>3, <1>5 DEF WithinLimit
<1> QED BY <1>5, <1>6

\* The follow-up of an expiry h that is not awaiting the service.
LEMMA FollowUpEffect ==
    ASSUME TypeOK, NEW h \in Handler, FollowUp(h), Expiring(h.name, h.timer, h.meta),
           h.phase = "called", handlers \subseteq {h}
    PROVE  Follows(h.name, h.timer, h.meta) \/ Counts(h.name, h.timer, h.meta)
<1> DEFINE n == h.name
           t == h.timer
           meta == h.meta
           last == LimitReached(meta.count, LimitOf(meta.timer))
<1>1. /\ meta \in MetaSet /\ meta.timer \in Calls /\ Ending = {}
      /\ \A g \in handlers : g.phase = "called"
  BY DEF Expiring, MetaSound, Noted, Set, Ending
<1>2. CASE Drop(n) /\ handlers' = handlers \ {h} /\ UNCHANGED shots
  BY <1>1, <1>2 DEF Follows, Drops
<1>3. CASE /\ KindOf(t) = "repeat" /\ ~last
           /\ metadata' = Updated(n, meta, CountedMeta(meta))
           /\ timers' = [timers EXCEPT ![n] = t]
           /\ Persist
           /\ handlers' = handlers \ {h}
           /\ UNCHANGED shots
  <2>1. Keeps(n, t, meta)
    BY <1>1, <1>3, CountedFields DEF Keeps
  <2> QED BY <1>3, <2>1 DEF Follows
<1>4. CASE /\ \/ KindOf(t) = "repeat" /\ last
              \/ KindOf(t) = "cron" /\ ~last
           /\ metadata' = Updated(n, meta, CountedMeta(meta))
           /\ handlers' = (handlers \ {h}) \cup {[h EXCEPT !.phase = "counted"]}
           /\ UNCHANGED <<timers, saved, unsaved, shots>>
  <2> DEFINE g == [h EXCEPT !.phase = "counted"]
  <2>1. /\ g \in Handler /\ g.name = n /\ g.timer = t /\ g.meta = meta
        /\ g.phase = "counted"
    BY DEF Handler
  <2> HIDE DEF g
  <2>2. handlers' = {g}
    BY <1>4 DEF g
  <2>3. Limited(t, meta)
    BY <1>4 DEF Limited
  <2> QED BY <1>1, <1>4, <2>1, <2>2, <2>3 DEF Counts
<1>5. /\ UNCHANGED shots
      /\ \/ /\ KindOf(t) = "once" \/ (KindOf(t) = "cron" /\ last)
            /\ Drop(n)
            /\ handlers' = handlers \ {h}
         \/ /\ KindOf(t) = "repeat" /\ ~last
            /\ metadata' = Updated(n, meta, CountedMeta(meta))
            /\ timers' = [timers EXCEPT ![n] = t]
            /\ Persist
            /\ handlers' = handlers \ {h}
         \/ /\ \/ KindOf(t) = "repeat" /\ last
               \/ KindOf(t) = "cron" /\ ~last
            /\ metadata' = Updated(n, meta, CountedMeta(meta))
            /\ handlers' = (handlers \ {h}) \cup {[h EXCEPT !.phase = "counted"]}
            /\ UNCHANGED <<timers, saved, unsaved>>
  BY DEF FollowUp
<1> QED BY <1>2, <1>3, <1>4, <1>5

\* The follow-up of an expiry h once the service has answered.
LEMMA FollowedUpEffect ==
    ASSUME TypeOK, NEW h \in handlers, FollowedUp(h), h.phase = "counted",
           \A g \in handlers : g = h,
           Limited(h.timer, h.meta), h.meta.timer \in Calls,
           Expiring(h.name, h.timer, CountedMeta(h.meta))
    PROVE  Follows(h.name, h.timer, CountedMeta(h.meta))
<1> DEFINE n == h.name
           t == h.timer
           meta == CountedMeta(h.meta)
<1>1. h.meta \in MetaSet /\ handlers' = {}
  BY DEF TypeOK, FollowedUp
<1>2. /\ meta \in MetaSet /\ meta.timer = h.meta.timer /\ meta.shot = h.meta.shot
      /\ ~LimitReached(h.meta.count, LimitOf(h.meta.timer)) => WithinLimit(meta)
  BY <1>1, CountedFields
<1> HIDE DEF meta
<1>3. CASE KindOf(t) = "repeat" /\ Drop(n) /\ shots' = Cleared(h.meta.shot)
  BY <1>1, <1>2, <1>3 DEF Follows, Drops, meta
<1>4. CASE /\ KindOf(t) = "cron" /\ Reschedule(h) /\ Persist
           /\ timers' = [timers EXCEPT ![n] = t]
  <2>1. PICK s \in Shots :
          /\ Fresh(s)
          /\ shots' = Armed(s, n, t, 0)
          /\ metadata' = Updated(n, h.meta, [meta EXCEPT !.shot = s])
    BY <1>4 DEF Reschedule, meta
  <2> DEFINE new == [meta EXCEPT !.shot = s]
  <2>2. /\ new \in MetaSet /\ new.timer = meta.timer /\ new.shot = s
        /\ new.count = meta.count /\ new # NoMeta /\ meta # NoMeta
    BY <1>2 DEF MetaSet, NoMeta, None, Calls, Shots
  <2> HIDE DEF new
  <2>3. WithinLimit(new) /\ Ending = {}
    <3>1. ~LimitReached(h.meta.count, LimitOf(h.meta.timer))
      BY <1>4 DEF Limited
    <3> QED BY <1>2, <1>4, <2>2, <3>1 DEF WithinLimit, Ending
  <2>4. metadata' = Updated(n, meta, new)
    BY <1>2, <2>1 DEF Updated, new
  <2>5. Keeps(n, t, meta)
    BY <1>4, <2>1, <2>2, <2>3, <2>4 DEF Keeps
  <2> QED BY <1>1, <2>5 DEF Follows, meta
<1> QED BY <1>3, <1>4 DEF FollowedUp

LEMMA HandlerEnds ==
    ASSUME TypeOK, References, NEW h \in handlers, HandlerReturns(h)
    PROVE  Ends(h)
<1> DEFINE by == h.closure.timer
           count == h.closure.count
           limit == LimitOf(by)
<1>1. /\ ~useDurable /\ h \in Handler /\ Entered(h.timer, h.name)
      /\ handlers' = handlers \ {h}
      /\ UNCHANGED <<lifeVars, metadata, saved, unsaved, mailbox, calls, historyVars>>
      /\ by \in Calls /\ Set(by) /\ Set(h.timer) /\ h.timer \in Calls
  BY DEF HandlerReturns, TypeOK, Handler, Shot, References, HandlersSound, Entered, Set
<1>2. limit \in Nat /\ count \in Nat
  BY <1>1 DEF TypeOK, LimitOf, Handler, Shot
<1>3. CASE PlainReturns(h)
  <2>1. CASE KindOf(h.timer) = "repeat"
    <3>1. Rearm(h.name, h.timer, h.timer, 0) /\ Serves(h.timer, h.timer)
      BY <1>3, <2>1 DEF PlainReturns, Serves
    <3> QED BY <1>1, <3>1 DEF Ends
  <2>2. CASE KindOf(h.timer) # "repeat"
    BY <1>1, <1>3, <2>2 DEF PlainReturns, Ends
  <2> QED BY <2>1, <2>2
<1>4. CASE CronReturns(h)
  <2>1. CASE Forget(h.name)
    BY <1>1, <2>1 DEF Ends
  <2>2. CASE /\ ~LimitReached(count, limit)
             /\ KindOf(h.timer) = "cron"
             /\ Rearm(h.name, h.timer, by, Counted(count, limit))
    <3>1. Serves(by, h.timer) /\ Counted(count, limit) \in Nat
      BY <1>2, <2>2, CountedWithin DEF Serves
    <3> QED BY <1>1, <2>2, <3>1 DEF Ends
  <2>3. CASE KindOf(h.timer) # "cron" /\ UNCHANGED <<timers, handles, shots>>
    <3>1. ~Rearming(h)
      BY <1>4, <2>3 DEF CronReturns, Rearming, Serves
    <3> QED BY <1>1, <2>3, <3>1 DEF Ends
  <2> QED BY <1>4, <2>1, <2>2, <2>3 DEF CronReturns
<1> QED BY <1>3, <1>4 DEF HandlerReturns

\* The receiver finds no timer of the name, or begins an expiry.
Skips ==
    /\ useDurable
    /\ handlers = {} /\ mailbox # <<>>
    /\ LET n == Head(mailbox) IN n \in Names /\ (timers[n] = None \/ metadata[n] = NoMeta)
    /\ mailbox' = Tail(mailbox)
    /\ UNCHANGED <<lifeVars, timers, handles, metadata, saved, unsaved, shots, handlers, calls,
                   historyVars>>

Handled(n, t, meta) ==
    [name |-> n, timer |-> t, meta |-> meta, closure |-> Idle, key |-> None,
     phase |-> "called"]

Begins(n) ==
    /\ useDurable /\ hasCallback
    /\ n \in Names /\ timers[n] # None /\ metadata[n] # NoMeta
    /\ handlers = {}
    /\ mailbox # <<>> /\ n = Head(mailbox) /\ mailbox' = Tail(mailbox)
    /\ handlers' = {Handled(n, timers[n], metadata[n])}
    /\ fired' = fired \cup {timers[n]}
    /\ UNCHANGED <<lifeVars, timers, handles, metadata, saved, unsaved, shots, calls, crashes,
                   withdrawn, cutOff>>

LEMMA Receives ==
    ASSUME TypeOK, References, Modes, Receive
    PROVE  Skips \/ \E n : Begins(n) \/ \E t, meta : Follows(n, t, meta) \/ Counts(n, t, meta)
<1> DEFINE n == Head(mailbox)
           unknown == timers[n] = None \/ metadata[n] = NoMeta
<1>1. /\ useDurable /\ handlers = {} /\ mailbox # <<>> /\ mailbox' = Tail(mailbox)
      /\ UNCHANGED <<lifeVars, handles, calls, crashes, withdrawn, cutOff>>
  BY DEF Receive, ReceiverFree, Modes, FallbackMode
<1>2. n \in Names
  BY <1>1 DEF TypeOK
<1>3. CASE unknown /\ UNCHANGED <<timers, metadata, saved, unsaved, shots, handlers, fired>>
  BY <1>1, <1>2, <1>3 DEF Skips, historyVars
<1>4. CASE /\ ~unknown
           /\ hasCallback
           /\ handlers' = handlers \cup {Handled(n, timers[n], metadata[n])}
           /\ fired' = fired \cup {timers[n]}
           /\ UNCHANGED <<timers, metadata, saved, unsaved, shots>>
  <2>1. handlers' = {Handled(n, timers[n], metadata[n])}
    BY <1>1, <1>4
  <2> QED BY <1>1, <1>2, <1>4, <2>1 DEF Begins
<1>5. CASE /\ ~unknown
           /\ ~hasCallback
           /\ FollowUp(Handled(n, timers[n], metadata[n]))
           /\ UNCHANGED fired
  <2>1. Entered(timers[n], n)
    BY <1>2, <1>5 DEF References, TimersSound
  <2>2. metadata[n] \in MetaSet /\ metadata[n] # NoMeta /\ MetaSound(n, metadata[n])
    BY <1>2, <1>5 DEF TypeOK, References, MetasSound
  <2> HIDE DEF n
  <2>3. Expiring(n, timers[n], metadata[n])
    BY <1>1, <1>2, <1>5, <2>1, <2>2 DEF Expiring, historyVars, n
  <2> DEFINE h == Handled(n, timers[n], metadata[n])
  <2>4. /\ h \in Handler /\ h.name = n /\ h.timer = timers[n] /\ h.meta = metadata[n]
        /\ h.phase = "called"
    BY <1>2, <2>1, <2>2, NoMetaType DEF Handled, Handler, Entered, Set
  <2> HIDE DEF h
  <2>5. Follows(n, timers[n], metadata[n]) \/ Counts(n, timers[n], metadata[n])
    BY <1>1, <1>5, <2>3, <2>4, FollowUpEffect DEF h
  <2> QED BY <2>5
<1> QED BY <1>3, <1>4, <1>5 DEF Receive, Handled

LEMMA ReceiverFollows ==
    ASSUME TypeOK, References, Modes, ReadIsCurrent, NEW h \in handlers, ReceiverReturns(h)
    PROVE  \E n, t, meta : Follows(n, t, meta) \/ Counts(n, t, meta)
<1>1. /\ useDurable
      /\ \/ h.phase = "called" /\ FollowUp(h)
         \/ h.phase = "counted" /\ FollowedUp(h)
      /\ UNCHANGED <<lifeVars, handles, mailbox, calls, historyVars>>
  BY DEF ReceiverReturns
<1>2. \A g \in handlers : g = h
  BY <1>1 DEF Modes, DurableMode
<1>3. h \in Handler /\ h.name \in Names /\ h.meta \in MetaSet
  BY DEF TypeOK, Handler, Shot
<1>4. /\ Entered(h.timer, h.name) /\ h.meta # NoMeta /\ MetaSound(h.name, h.meta)
      /\ h.phase = "counted" => Limited(h.timer, h.meta)
  BY <1>1 DEF References, HandlersSound
<1>5. h.meta.timer \in Calls
  BY <1>4 DEF MetaSound, Noted, Set
<1>6. metadata[h.name].timer = h.meta.timer => metadata[h.name] = Current(h)
  BY <1>1 DEF ReadIsCurrent
<1> DEFINE meta == Current(h)
<1>7. /\ meta \in MetaSet /\ meta # NoMeta /\ MetaSound(h.name, meta)
      /\ meta.timer = h.meta.timer /\ meta.shot = h.meta.shot
  BY <1>3, <1>4, <1>5, CountedFields DEF Current, MetaSound, NoMeta, None, Calls
<1> HIDE DEF meta
<1>8. Expiring(h.name, h.timer, meta)
  BY <1>1, <1>2, <1>3, <1>4, <1>6, <1>7 DEF Expiring, meta
<1>9. CASE h.phase = "called" /\ FollowUp(h)
  BY <1>2, <1>3, <1>8, <1>9, FollowUpEffect DEF Current, meta
<1>10. CASE h.phase = "counted" /\ FollowedUp(h)
  BY <1>2, <1>4, <1>5, <1>8, <1>10, FollowedUpEffect DEF Current, meta
<1> QED BY <1>1, <1>9, <1>10

\* Steps of callers and of calls, of the two modes, and of a restart.
Step ==
    \/ \E c \in Calls :
         \/ \E call : Cancels(c, call) \/ Enters(c, call)
         \/ Revoked(c) \/ Forgotten(c) \/ Scheduled(c)
    \/ \E s \in Shots : HandleFires(s) \/ EntryDue(s)
    \/ \E h : Ends(h)
    \/ Skips
    \/ \E n : Begins(n) \/ \E t, meta : Follows(n, t, meta) \/ Counts(n, t, meta)
    \/ Stop \/ Crash \/ Restart \/ Restored \/ OnExpire
    \/ \E n \in Names : RestoreEntry(n)
    \/ UNCHANGED vars

LEMMA NextSteps ==
    ASSUME TypeOK, References, Modes, ReadIsCurrent, [Next]_vars
    PROVE  Step
<1>1. CASE Callers
  BY <1>1, CallBegins, CancelBegins DEF Callers, Step
<1>2. ASSUME NEW c \in Calls, Proceeds(c) PROVE Step
  BY <1>2, CallResumes DEF Proceeds, Step, References
<1>3. ASSUME NEW h \in handlers, Returns(h) PROVE Step
  BY <1>3, HandlerEnds, ReceiverFollows DEF Returns, Step
<1>4. CASE Receive
  BY <1>4, Receives DEF Step
<1>5. CASE Starting
  BY <1>5 DEF Starting, Step
<1>6. CASE \E s \in Shots : Due(s)
  BY <1>6 DEF Due, Step
<1>7. CASE Idling \/ UNCHANGED vars
  BY <1>7 DEF Idling, Step
<1> QED BY <1>1, <1>2, <1>3, <1>4, <1>5, <1>6, <1>7 DEF Next

-----------------------------------------------------------------------------
(* How calls go on. *)

\* The steps of one call.
CallStep(c) ==
    \/ \E call : Cancels(c, call) \/ Enters(c, call)
    \/ Revoked(c) \/ Forgotten(c) \/ Scheduled(c)

PCs == {"revoking", "forgetting", "resuming", "scheduling", "done", "failed"}

\* A call goes on to new: it keeps what it is about, and what a call that has
\* entered its timer, or ended, has come to.
GoesOn(c, new) ==
    /\ calls' = [calls EXCEPT ![c] = new]
    /\ new \in Call /\ new.op # "none" /\ new.name \in Names
    /\ new.pc \in PCs
    /\ new.pc \in {"resuming", "scheduling"} => new.op = "set"
    /\ new.shot # None => new.pc = "revoking"
    /\ calls[c].pc \notin {"done", "failed", "dead"}
    /\ calls[c].pc = "scheduling" => new.pc \in {"done", "failed"}
    /\ calls[c].pc # "idle" =>
         /\ new.op = calls[c].op /\ new.name = calls[c].name
         /\ new.kind = calls[c].kind /\ new.limit = calls[c].limit

LEMMA AfterCancelPC ==
    ASSUME NEW op PROVE AfterCancel(op) \in PCs /\ (AfterCancel(op) = "resuming" => op = "set")
                        /\ AfterCancel(op) \in {"resuming", "done"}
BY DEF AfterCancel, PCs

LEMMA CallGoesOn ==
    ASSUME TypeOK, References, NEW c \in Calls, CallStep(c)
    PROVE  \E new : GoesOn(c, new)
<1> USE AfterCancelPC
<1>1. calls[c] \in Call /\ CallsSound
  BY DEF TypeOK, Call, References
<1>2. ASSUME NEW call, Cancels(c, call)
      PROVE  \E new : GoesOn(c, new)
  <2>1. /\ call \in Call /\ call.op # "none" /\ call.name \in Names /\ call.shot = None
        /\ calls[c].pc = "idle" /\ "revoking" \in PCs
    BY <1>2 DEF Cancels, NoCall, PCs
  <2>2. CASE calls' = [calls EXCEPT ![c] =
                         [call EXCEPT !.pc = "revoking", !.shot = metadata[call.name].shot]]
    <3> DEFINE new == [call EXCEPT !.pc = "revoking", !.shot = metadata[call.name].shot]
    <3>1. metadata[call.name].shot \in Shots \cup {None}
      BY <2>1 DEF TypeOK, MetaSet
    <3>2. /\ new \in Call /\ new.op = call.op /\ new.name = call.name /\ new.pc = "revoking"
      BY <2>1, <3>1 DEF Call, PCs
    <3> HIDE DEF new
    <3>3. GoesOn(c, new)
      BY <2>1, <2>2, <3>2 DEF GoesOn, PCs, new
    <3> QED BY <3>3
  <2>3. CASE calls' = [calls EXCEPT ![c] = [call EXCEPT !.pc = AfterCancel(call.op)]]
    <3> DEFINE new == [call EXCEPT !.pc = AfterCancel(call.op)]
    <3>1. /\ new \in Call /\ new.op = call.op /\ new.name = call.name
          /\ new.pc = AfterCancel(call.op) /\ new.shot = None
      BY <2>1 DEF Call, PCs
    <3> HIDE DEF new
    <3>2. GoesOn(c, new)
      BY <2>1, <2>3, <3>1 DEF GoesOn, new
    <3> QED BY <3>2
  <2> QED BY <1>2, <2>2, <2>3 DEF Cancels, CancelTimer
<1>3. ASSUME NEW call, Enters(c, call)
      PROVE  \E new : GoesOn(c, new)
  <2>1. /\ call \in Call /\ call.op = "set" /\ call.name \in Names /\ call.shot = None
        /\ calls[c].pc = "idle" \/ (calls[c] = call /\ calls[c].pc = "resuming")
    BY <1>3 DEF Enters, NoCall
  <2>2. ASSUME NEW p \in {"scheduling", "done"},
               calls' = [calls EXCEPT ![c] = [call EXCEPT !.pc = p]]
        PROVE  \E new : GoesOn(c, new)
    <3> DEFINE new == [call EXCEPT !.pc = p]
    <3>1. p \in PCs
      BY DEF PCs
    <3>2. /\ new \in Call /\ new.op = call.op /\ new.name = call.name
          /\ new.kind = call.kind /\ new.limit = call.limit
          /\ new.pc = p /\ new.shot = None
      BY <2>1, <3>1 DEF Call, PCs
    <3> HIDE DEF new
    <3>3. GoesOn(c, new)
      BY <2>1, <2>2, <3>1, <3>2 DEF GoesOn, new
    <3> QED BY <3>3
  <2> QED BY <1>3, <2>2 DEF Enters, EnterTimer
<1>4. CASE Revoked(c)
  <2>0. PICK p \in {"forgetting", "failed"} :
          calls' = [calls EXCEPT ![c].pc = p, ![c].shot = None]
    BY <1>4 DEF Revoked
  <2> DEFINE new == [calls[c] EXCEPT !.pc = p, !.shot = None]
  <2>1. p \in PCs /\ calls[c].pc = "revoking"
    BY <1>4 DEF PCs, Revoked
  <2>2. /\ new \in Call /\ new.op = calls[c].op /\ new.name = calls[c].name
        /\ new.kind = calls[c].kind /\ new.limit = calls[c].limit
        /\ new.pc = p /\ new.shot = None
    BY <1>1, <2>1 DEF Call, PCs
  <2>3. calls' = [calls EXCEPT ![c] = new]
    BY <1>1, <2>0
  <2> HIDE DEF new
  <2>4. calls[c].op # "none" /\ calls[c].name \in Names
    BY <1>1, <2>1 DEF CallsSound
  <2>5. GoesOn(c, new)
    BY <2>1, <2>2, <2>3, <2>4 DEF GoesOn
  <2> QED BY <2>5
<1>5. ASSUME NEW p \in PCs, p \in {"resuming", "done", "failed"},
             p = "resuming" => calls[c].op = "set",
             calls[c].pc \in {"forgetting", "scheduling"},
             calls[c].pc = "scheduling" => p \in {"done", "failed"},
             calls' = [calls EXCEPT ![c].pc = p]
      PROVE  \E new : GoesOn(c, new)
  <2> DEFINE new == [calls[c] EXCEPT !.pc = p]
  <2>1. /\ new \in Call /\ new.op = calls[c].op /\ new.name = calls[c].name
        /\ new.kind = calls[c].kind /\ new.limit = calls[c].limit
        /\ new.pc = p /\ new.shot = calls[c].shot
    BY <1>1 DEF Call, PCs
  <2>2. calls' = [calls EXCEPT ![c] = new]
    BY <1>1, <1>5
  <2> HIDE DEF new
  <2>3. calls[c].op # "none" /\ calls[c].name \in Names /\ calls[c].shot = None
    BY <1>1, <1>5 DEF CallsSound
  <2>4. GoesOn(c, new)
    BY <1>5, <2>1, <2>2, <2>3 DEF GoesOn
  <2> QED BY <2>4
<1>6. CASE Forgotten(c)
  <2> DEFINE p == AfterCancel(calls[c].op)
  <2>1. p \in PCs /\ p \in {"resuming", "done"} /\ (p = "resuming" => calls[c].op = "set")
    OBVIOUS
  <2>2. calls[c].pc = "forgetting" /\ calls' = [calls EXCEPT ![c].pc = p]
    BY <1>6 DEF Forgotten
  <2> HIDE DEF p
  <2> QED BY <1>5, <2>1, <2>2
<1>7. CASE Scheduled(c)
  <2>1. PICK p \in {"done", "failed"} :
          p \in PCs /\ calls[c].pc = "scheduling" /\ calls' = [calls EXCEPT ![c].pc = p]
    BY <1>7 DEF Scheduled, PCs
  <2> QED BY <1>5, <2>1
<1> QED BY <1>2, <1>3, <1>4, <1>6, <1>7 DEF CallStep

LEMMA CrashEndsCalls ==
    ASSUME TypeOK, References, Crash
    PROVE  \A c \in Calls :
               /\ calls'[c] \in Call
               /\ \/ calls[c].pc \in {"idle", "done", "failed"} /\ calls'[c] = calls[c]
                  \/ calls[c].pc \notin {"idle", "done", "failed"}
                     /\ calls'[c].pc = "dead" /\ calls'[c].shot = None
               /\ calls'[c].op = calls[c].op /\ calls'[c].name = calls[c].name
               /\ calls'[c].kind = calls[c].kind /\ calls'[c].limit = calls[c].limit
<1> SUFFICES ASSUME NEW c \in Calls
    PROVE  /\ calls'[c] \in Call
           /\ \/ calls[c].pc \in {"idle", "done", "failed"} /\ calls'[c] = calls[c]
              \/ calls[c].pc \notin {"idle", "done", "failed"}
                 /\ calls'[c].pc = "dead" /\ calls'[c].shot = None
           /\ calls'[c].op = calls[c].op /\ calls'[c].name = calls[c].name
           /\ calls'[c].kind = calls[c].kind /\ calls'[c].limit = calls[c].limit
  OBVIOUS
<1> DEFINE dead == [calls[c] EXCEPT !.pc = "dead", !.shot = None]
<1>1. calls[c] \in Call
  BY DEF TypeOK, Call
<1>2. /\ dead \in Call /\ dead.pc = "dead" /\ dead.shot = None
      /\ dead.op = calls[c].op /\ dead.name = calls[c].name
      /\ dead.kind = calls[c].kind /\ dead.limit = calls[c].limit
  BY <1>1 DEF Call
<1>3. calls'[c] = IF calls[c].pc \in {"idle", "done", "failed"} THEN calls[c] ELSE dead
  BY DEF Crash
<1> HIDE DEF dead
<1> QED BY <1>1, <1>2, <1>3

\* What an expiry that goes on leaves alone.
LEMMA ExpiryKeeps ==
    ASSUME NEW n, NEW t, NEW meta, Follows(n, t, meta) \/ Counts(n, t, meta)
    PROVE  /\ UNCHANGED <<useDurable, status, hasCallback, restoring, handles, calls, crashes,
                          fired, withdrawn, cutOff>>
           /\ useDurable
BY DEF Follows, Counts, Expiring, lifeVars, historyVars

LEMMA ModeStays == Step => useDurable' = useDurable
BY ZenonT(40), ExpiryKeeps
   DEF Step, Cancels, Enters, Revoked, Forgotten, Scheduled, HandleFires, EntryDue, Ends,
       Skips, Begins, Stop, Crash, Restart, Restored, OnExpire, RestoreEntry, vars, lifeVars

\* The other steps leave calls alone.
LEMMA CallsStay ==
    ASSUME Step PROVE (\E c \in Calls : CallStep(c)) \/ Crash \/ calls' = calls
BY DEF Step, CallStep, HandleFires, EntryDue, Ends, Skips, Begins, Follows, Counts, Expiring,
       Stop, Restart, Restored, OnExpire, RestoreEntry, vars

\* What a call is about stays, and so does that it has entered its timer, but
\* for a crash.
Lasting ==
    /\ calls' \in [Calls -> Call]
    /\ CallsSound'
    /\ \A t : Set(t) => Set(t)' /\ KindOf(t)' = KindOf(t) /\ LimitOf(t)' = LimitOf(t)
    /\ \A t, n : Noted(t, n) => Noted(t, n)'
    /\ Crash \/ \A t, n : Entered(t, n) => Entered(t, n)'

LEMMA CallsLast == ASSUME TypeOK, References, Step PROVE Lasting
<1> USE DEF Set, Noted, Entered, Over, KindOf, LimitOf
<1>1. calls \in [Calls -> Call] /\ CallsSound
  BY DEF TypeOK, Call, References
<1>2. \A t : Set(t) => calls[t].pc # "idle"
  BY <1>1 DEF CallsSound, NoCall
<1>3. CASE calls' = calls
  BY <1>1, <1>3 DEF Lasting, CallsSound
<1>4. ASSUME NEW c \in Calls, CallStep(c) PROVE Lasting
  <2>1. PICK new : GoesOn(c, new)
    BY <1>4, CallGoesOn
  <2>2. /\ calls' \in [Calls -> Call] /\ calls'[c] = new
        /\ \A b \in Calls \ {c} : calls'[b] = calls[b]
    BY <1>1, <2>1 DEF GoesOn
  <2>3. CallsSound'
    BY <1>1, <2>1, <2>2 DEF GoesOn, CallsSound, PCs
  <2>4. \A t : Set(t) => Set(t)' /\ KindOf(t)' = KindOf(t) /\ LimitOf(t)' = LimitOf(t)
    BY <1>2, <2>1, <2>2 DEF GoesOn
  <2>5. \A t, n : Noted(t, n) => Noted(t, n)'
    BY <2>1, <2>2 DEF GoesOn
  <2>6. \A t, n : Entered(t, n) => Entered(t, n)'
    BY <2>1, <2>2 DEF GoesOn
  <2> QED BY <2>2, <2>3, <2>4, <2>5, <2>6 DEF Lasting
<1>5. CASE Crash
  <2>1. calls' \in [Calls -> Call]
    BY <1>5, CrashEndsCalls DEF Crash
  <2>2. CallsSound'
    BY <1>1, <1>5, CrashEndsCalls DEF CallsSound
  <2>3. \A t : Set(t) => Set(t)' /\ KindOf(t)' = KindOf(t) /\ LimitOf(t)' = LimitOf(t)
    BY <1>5, CrashEndsCalls
  <2>4. \A t, n : Noted(t, n) => Noted(t, n)'
    BY <1>5, CrashEndsCalls
  <2> QED BY SMTT(40), <1>5, <2>1, <2>2, <2>3, <2>4 DEF Lasting
<1> QED BY <1>3, <1>4, <1>5, CallsStay

-----------------------------------------------------------------------------
(* Types. *)

LEMMA ArmedType ==
    ASSUME shots \in [Shots -> Shot],
           NEW s \in Shots, NEW n \in Names, NEW t \in Calls, NEW count \in Nat
    PROVE  Armed(s, n, t, count) \in [Shots -> Shot]
BY DEF Armed, Shot

LEMMA ClearedType ==
    ASSUME shots \in [Shots -> Shot], NEW s
    PROVE  Cleared(s) \in [Shots -> Shot]
BY DEF Cleared, Shot, Idle

\* The types of what belongs to names, of shots, and of the rest.
NameTypes ==
    /\ timers \in [Names -> Calls \cup {None}]
    /\ handles \in [Names -> Shots \cup {None}]
    /\ metadata \in [Names -> MetaSet]
    /\ saved \in [Names -> MetaSet]
    /\ unsaved \in BOOLEAN

RestTypes ==
    /\ useDurable \in BOOLEAN
    /\ status \in {"up", "stopped", "down", "restoring"}
    /\ hasCallback \in BOOLEAN
    /\ restoring \in [Names -> MetaSet]
    /\ mailbox \in Seq(Names)
    /\ handlers \subseteq Handler
    /\ crashes \in 0 .. MaxCrashes
    /\ fired \subseteq Calls
    /\ withdrawn \subseteq Calls
    /\ cutOff \subseteq Calls

ShotTypes == shots \in [Shots -> Shot]

LEMMA TypesOf ==
    TypeOK <=> NameTypes /\ RestTypes /\ ShotTypes /\ calls \in [Calls -> Call]
BY DEF TypeOK, NameTypes, RestTypes, ShotTypes, Call, Shot, Handler

LEMMA RestTypesStep == ASSUME TypeOK, References, Step PROVE RestTypes'
<1>1. RestTypes /\ NameTypes /\ ShotTypes
  BY TypesOf
<1>2. ASSUME UNCHANGED <<lifeVars, mailbox, handlers, crashes, fired, cutOff>>,
             withdrawn' = withdrawn \/ \E n \in Names : withdrawn' = withdrawn \cup {timers[n]}
                                                         /\ timers[n] # None
      PROVE  RestTypes'
  BY <1>1, <1>2 DEF RestTypes, NameTypes, lifeVars
<1>3. ASSUME NEW c \in Calls, CallStep(c) PROVE RestTypes'
  BY <1>2, <1>3 DEF CallStep, Cancels, CancelTimer, Enters, Revoked, Forgotten, Scheduled,
                    historyVars
<1>4. ASSUME NEW s \in Shots, HandleFires(s) PROVE RestTypes'
  <2>1. /\ UNCHANGED <<lifeVars, mailbox, crashes, withdrawn, cutOff>>
        /\ shots[s].name \in Names /\ shots[s] \in Shot
    BY <1>1, <1>4 DEF HandleFires, References, ShotsSound, ShotTypes
  <2>2. CASE UNCHANGED <<handlers, fired>>
    BY <1>1, <2>1, <2>2 DEF RestTypes, lifeVars
  <2> DEFINE h == [name |-> shots[s].name, timer |-> timers[shots[s].name], meta |-> NoMeta,
                   closure |-> shots[s], key |-> s, phase |-> "called"]
  <2>3. CASE /\ timers[shots[s].name] # None
             /\ handlers' = handlers \cup {h}
             /\ fired' = fired \cup {timers[shots[s].name]}
    <3>1. h \in Handler /\ timers[shots[s].name] \in Calls
      BY <1>1, <2>1, <2>3, NoMetaType DEF NameTypes, Handler
    <3> HIDE DEF h
    <3> QED BY <1>1, <2>1, <2>3, <3>1 DEF RestTypes, lifeVars
  <2> QED BY <1>4, <2>2, <2>3 DEF HandleFires
<1>5. ASSUME NEW s \in Shots, EntryDue(s) PROVE RestTypes'
  <2>1. shots[s].name \in Names
    BY <1>5 DEF EntryDue, References, ShotsSound
  <2> QED BY <1>1, <1>5, <2>1 DEF EntryDue, RestTypes, lifeVars, historyVars
<1>6. ASSUME NEW h, Ends(h) PROVE RestTypes'
  BY <1>1, <1>6 DEF Ends, RestTypes, lifeVars, historyVars
<1>7. ASSUME NEW n, Begins(n) PROVE RestTypes'
  <2>1. Handled(n, timers[n], metadata[n]) \in Handler /\ timers[n] \in Calls
    BY <1>1, <1>7, NoMetaType DEF Begins, Handled, Handler, NameTypes
  <2> QED BY <1>1, <1>7, <2>1 DEF Begins, RestTypes, lifeVars
<1>8. CASE Skips
  BY <1>1, <1>8 DEF Skips, RestTypes, lifeVars, historyVars
<1>9. ASSUME NEW n, NEW t, NEW meta, Follows(n, t, meta) \/ Counts(n, t, meta) PROVE RestTypes'
  <2>1. /\ UNCHANGED <<lifeVars, historyVars>> /\ handlers' \subseteq Handler
        /\ mailbox' = mailbox \/ (mailbox # <<>> /\ mailbox' = Tail(mailbox))
    BY <1>9 DEF Follows, Counts, Expiring
  <2>2. mailbox' \in Seq(Names)
    BY <1>1, <2>1 DEF RestTypes
  <2> QED BY <1>1, <2>1, <2>2 DEF RestTypes, lifeVars, historyVars
<1>10. CASE Stop
  BY <1>1, <1>10 DEF Stop, RestTypes, historyVars
<1>11. CASE Crash
  <2>1. crashes' \in 0 .. MaxCrashes
    <3>1. crashes \in 0 .. MaxCrashes /\ MaxCrashes \in Nat
      BY <1>1, TimersAssumption DEF RestTypes, TimersAssumption
    <3>2. crashes < MaxCrashes /\ crashes' = crashes + 1
      BY <1>11 DEF Crash
    <3> QED BY <3>1, <3>2
  <2>2. restoring' \in [Names -> MetaSet]
    BY <1>11, NoMetaType DEF Crash
  <2>3. /\ status' = "down" /\ hasCallback' = FALSE /\ mailbox' = <<>> /\ handlers' = {}
        /\ fired' = {} /\ UNCHANGED <<useDurable, withdrawn>>
        /\ cutOff' = cutOff \cup {h.meta.timer : h \in Ending}
    BY <1>11 DEF Crash
  <2>8. cutOff' \subseteq Calls
    <3>1. \A h \in Ending : h.meta.timer \in Calls
      BY <1>11 DEF Ending, Crash, References, HandlersSound, MetaSound, Noted, Set
    <3> QED BY <1>1, <2>3, <3>1 DEF RestTypes
  <2>4. mailbox' \in Seq(Names)
    BY <2>3
  <2>5. handlers' \subseteq Handler /\ fired' \subseteq Calls
    BY <2>3
  <2>6. useDurable' \in BOOLEAN /\ withdrawn' \subseteq Calls
    BY <1>1, <2>3 DEF RestTypes
  <2>7. status' \in {"up", "stopped", "down", "restoring"} /\ hasCallback' \in BOOLEAN
    BY <2>3
  <2> QED BY <2>1, <2>2, <2>4, <2>5, <2>6, <2>7, <2>8 DEF RestTypes
<1>12. CASE Restart \/ Restored \/ OnExpire
  BY <1>1, <1>12 DEF Restart, Restored, OnExpire, RestTypes, NameTypes, historyVars
<1>13. ASSUME NEW n \in Names, RestoreEntry(n) PROVE RestTypes'
  BY <1>1, <1>13, NoMetaType DEF RestoreEntry, RestTypes, historyVars
<1>14. CASE UNCHANGED vars
  BY <1>1, <1>14 DEF vars, RestTypes, lifeVars, historyVars
<1> QED
  BY <1>3, <1>4, <1>5, <1>6, <1>7, <1>8, <1>9, <1>10, <1>11, <1>12, <1>13, <1>14
  DEF Step, CallStep

LEMMA NameTypesStep == ASSUME TypeOK, References, Step PROVE NameTypes'
<1> USE NoMetaType
<1>1. RestTypes /\ NameTypes
  BY TypesOf
<1>2. ASSUME NEW c \in Calls, NEW call, Cancels(c, call) PROVE NameTypes'
  BY <1>1, <1>2 DEF Cancels, CancelTimer, NameTypes
<1>3. ASSUME NEW c \in Calls, NEW call, Enters(c, call) PROVE NameTypes'
  BY <1>1, <1>3 DEF Enters, EnterTimer, NameTypes
<1>4. ASSUME NEW c \in Calls, Revoked(c) \/ Forgotten(c) PROVE NameTypes'
  BY <1>1, <1>4 DEF Revoked, Forgotten, Saves, SaveRejected, NameTypes
<1>5. ASSUME NEW c \in Calls, Scheduled(c) PROVE NameTypes'
  <2>1. PICK s \in Shots :
          metadata' = [metadata EXCEPT ![calls[c].name] = [timer |-> c, shot |-> s, count |-> 0]]
    BY <1>5 DEF Scheduled
  <2>2. [timer |-> c, shot |-> s, count |-> 0] \in MetaSet
    BY DEF MetaSet
  <2>3. metadata' \in [Names -> MetaSet]
    BY <1>1, <2>1, <2>2 DEF NameTypes
  <2> QED BY <1>1, <1>5, <2>3 DEF Scheduled, Saves, SaveRejected, NameTypes
<1>6. ASSUME NEW h, Ends(h) PROVE NameTypes'
  <2>1. h.timer \in Calls /\ UNCHANGED <<metadata, saved, unsaved>>
    BY <1>6 DEF Ends, Handler
  <2>2. timers' \in [Names -> Calls \cup {None}] /\ handles' \in [Names -> Shots \cup {None}]
    BY <1>1, <1>6, <2>1 DEF Ends, Forget, Rearm, NameTypes
  <2> QED BY <1>1, <2>1, <2>2 DEF NameTypes
<1>7. ASSUME NEW n, NEW t, NEW meta, Follows(n, t, meta) \/ Counts(n, t, meta) PROVE NameTypes'
  <2>1. t \in Calls /\ n \in Names /\ handles' = handles
    BY <1>7 DEF Follows, Counts, Expiring, Entered, Set
  <2>2. CASE Drops(n, meta)
    BY <1>1, <2>1, <2>2 DEF Drops, Drop, Persist, Saves, SaveRejected, NameTypes
  <2>3. CASE Keeps(n, t, meta)
    <3>1. PICK new \in MetaSet :
            /\ timers' = [timers EXCEPT ![n] = t]
            /\ metadata' = Updated(n, meta, new) /\ Persist
      BY <2>3 DEF Keeps
    <3>2. metadata' \in [Names -> MetaSet]
      BY <1>1, <2>1, <3>1 DEF Updated, NameTypes
    <3> QED BY <1>1, <2>1, <3>1, <3>2 DEF Persist, Saves, SaveRejected, NameTypes
  <2>4. CASE Counts(n, t, meta)
    <3>1. CountedMeta(meta) \in MetaSet
      BY <2>4, CountedFields DEF Counts, Expiring, MetaSound, Noted, Set
    <3>2. metadata' \in [Names -> MetaSet] /\ UNCHANGED <<timers, saved, unsaved>>
      BY <1>1, <2>4, <3>1 DEF Counts, Updated, NameTypes
    <3> QED BY <1>1, <2>1, <3>2 DEF NameTypes
  <2> QED BY <1>7, <2>2, <2>3, <2>4 DEF Follows
<1>8. ASSUME NEW n \in Names, RestoreEntry(n) PROVE NameTypes'
  <2>1. UNCHANGED <<handles, saved, unsaved>>
    BY <1>8 DEF RestoreEntry
  <2>2. restoring[n].timer \in Calls /\ restoring[n] \in MetaSet
    BY <1>1, <1>8 DEF RestoreEntry, References, MetasSound, MetaSound, Noted, Set, RestTypes
  <2>3. CASE UNCHANGED <<timers, metadata>>
    BY <1>1, <2>1, <2>3 DEF NameTypes
  <2>4. ASSUME NEW s \in Shots,
               timers' = [timers EXCEPT ![n] = restoring[n].timer],
               metadata' = [metadata EXCEPT ![n] = [restoring[n] EXCEPT !.shot = s]]
        PROVE  NameTypes'
    <3>1. [restoring[n] EXCEPT !.shot = s] \in MetaSet
      BY <2>2 DEF MetaSet
    <3>2. metadata' \in [Names -> MetaSet] /\ timers' \in [Names -> Calls \cup {None}]
      BY <1>1, <2>2, <2>4, <3>1 DEF NameTypes
    <3> QED BY <1>1, <2>1, <3>2 DEF NameTypes
  <2> QED BY <1>8, <2>3, <2>4 DEF RestoreEntry
<1>9. ASSUME UNCHANGED <<timers, handles, metadata, saved, unsaved>> PROVE NameTypes'
  BY <1>1, <1>9 DEF NameTypes
<1>10. CASE Stop \/ Crash \/ Restored
  <2>1. CASE Stop
    BY <1>1, <2>1 DEF Stop, NameTypes
  <2>2. CASE Crash
    BY <1>1, <2>2 DEF Crash, NameTypes
  <2>3. CASE Restored
    BY <1>1, <2>3 DEF Restored, NameTypes
  <2> QED BY <1>10, <2>1, <2>2, <2>3
<1> QED
  BY <1>2, <1>3, <1>4, <1>5, <1>6, <1>7, <1>8, <1>9, <1>10
  DEF Step, HandleFires, EntryDue, Skips, Begins, Restart, OnExpire, vars

LEMMA ShotTypesStep == ASSUME TypeOK, References, Step PROVE ShotTypes'
<1>1. RestTypes /\ NameTypes /\ ShotTypes
  BY TypesOf
<1> USE DEF ShotTypes
<1>2. ASSUME NEW c \in Calls, CallStep(c) PROVE ShotTypes'
  <2>1. ASSUME NEW n \in Names, NEW s \in Shots, shots' = Armed(s, n, c, 0) PROVE ShotTypes'
    BY <1>1, <2>1, ArmedType
  <2>2. ASSUME NEW s, shots' = Cleared(s) PROVE ShotTypes'
    BY <1>1, <2>2, ClearedType
  <2>3. Scheduled(c) => calls[c].name \in Names
    BY DEF Scheduled, References, CallsSound
  <2> QED BY <1>1, <1>2, <2>1, <2>2, <2>3
      DEF CallStep, Cancels, CancelTimer, Enters, EnterTimer, Revoked, Forgotten, Scheduled
<1>3. ASSUME NEW s \in Shots, HandleFires(s) \/ EntryDue(s) PROVE ShotTypes'
  BY <1>1, <1>3, ClearedType DEF HandleFires, EntryDue
<1>4. ASSUME NEW h, Ends(h) PROVE ShotTypes'
  <2>1. h.name \in Names
    BY <1>4 DEF Ends, Handler
  <2> QED BY <1>1, <1>4, <2>1, ArmedType DEF Ends, Forget, Rearm
<1>5. ASSUME NEW n, NEW t, NEW meta, Follows(n, t, meta) \/ Counts(n, t, meta) PROVE ShotTypes'
  <2>1. t \in Calls /\ n \in Names
    BY <1>5 DEF Follows, Counts, Expiring, Entered, Set
  <2> QED BY <1>1, <1>5, <2>1, ClearedType, ArmedType DEF Follows, Counts, Drops, Keeps
<1>6. CASE Stop \/ Crash
  BY <1>1, <1>6, NoMetaType DEF Stop, Crash
<1>7. ASSUME NEW n \in Names, RestoreEntry(n) PROVE ShotTypes'
  <2>1. restoring[n].timer \in Calls
    BY <1>1, <1>7 DEF RestoreEntry, References, MetasSound, MetaSound, Noted, Set
  <2>2. \A s \in Shots : Armed(s, n, restoring[n].timer, 0) \in [Shots -> Shot]
    BY <1>1, <2>1, ArmedType
  <2> QED BY <1>1, <1>7, <2>2, NoMetaType DEF RestoreEntry
<1> QED
  BY SMTT(40), <1>1, <1>2, <1>3, <1>4, <1>5, <1>6, <1>7
  DEF Step, CallStep, Skips, Begins, Restart, Restored, OnExpire, vars

LEMMA TypeStep == ASSUME TypeOK, References, Step PROVE TypeOK'
<1>1. NameTypes' /\ RestTypes' /\ ShotTypes' /\ calls' \in [Calls -> Call]
  BY RestTypesStep, NameTypesStep, ShotTypesStep, CallsLast DEF Lasting
<1>2. TypeOK' <=> NameTypes' /\ RestTypes' /\ ShotTypes' /\ calls' \in [Calls -> Call]
  BY DEF TypeOK, NameTypes, RestTypes, ShotTypes, Call, Shot, Handler
<1> QED BY <1>1, <1>2

-----------------------------------------------------------------------------
(* What is referred to. *)

LEMMA ArmedFields ==
    ASSUME TypeOK, NEW s \in Shots, NEW n, NEW t, NEW count
    PROVE  /\ Armed(s, n, t, count)[s].name = n
           /\ Armed(s, n, t, count)[s].timer = t
           /\ \A r \in Shots \ {s} : Armed(s, n, t, count)[r] = shots[r]
BY DEF Armed, TypeOK

LEMMA ClearedFields ==
    ASSUME TypeOK, NEW s
    PROVE  \A r \in Shots : /\ Cleared(s)[r] = Idle \/ Cleared(s)[r] = shots[r]
                            /\ r # s => Cleared(s)[r] = shots[r]
                            /\ r = s /\ s # None => Cleared(s)[r] = Idle
BY DEF Cleared, TypeOK

\* A call of setTimer has entered its timer.
LEMMA EntersCall ==
    ASSUME TypeOK, NEW c \in Calls, NEW call, Enters(c, call)
    PROVE  Entered(c, call.name)' /\ Set(c)'
<1> USE DEF Entered, Over, Set
<1>1. ASSUME NEW p \in {"scheduling", "done"}, calls' = [calls EXCEPT ![c] = [call EXCEPT !.pc = p]]
      PROVE  Entered(c, call.name)' /\ Set(c)'
  <2>1. call \in Call /\ call.op = "set"
    BY DEF Enters
  <2> DEFINE new == [call EXCEPT !.pc = p]
  <2>2. new.op = "set" /\ new.name = call.name /\ new.pc = p
    BY <2>1 DEF Call
  <2>3. calls'[c] = new
    BY <1>1 DEF TypeOK
  <2> HIDE DEF new
  <2> QED BY <2>2, <2>3
<1> QED BY <1>1 DEF Enters, EnterTimer

LEMMA ScheduledCall ==
    ASSUME TypeOK, References, NEW c \in Calls, Scheduled(c)
    PROVE  /\ calls[c].name \in Names /\ Entered(c, calls[c].name) /\ Set(c)
           /\ calls'[c].name = calls[c].name /\ Over(c)' /\ Set(c)'
<1>1. calls[c].op = "set" /\ calls[c].name \in Names
  BY DEF Scheduled, References, CallsSound
<1>2. calls[c] \in Call
  BY DEF TypeOK, Call
<1>3. PICK p \in {"done", "failed"} : calls'[c] = [calls[c] EXCEPT !.pc = p]
  BY DEF Scheduled, TypeOK
<1>4. calls'[c].op = "set" /\ calls'[c].name = calls[c].name /\ calls'[c].pc = p
  BY <1>1, <1>2, <1>3 DEF Call
<1> QED BY <1>1, <1>4 DEF Scheduled, Entered, Over, Set

\* A step arms a fresh shot for a name and a call of setTimer, or only clears.
ArmsOne ==
    \E s \in Shots, n \in Names, t \in Calls :
        /\ calls'[t].op = "set" /\ Fresh(s)
        /\ shots'[s].name = n /\ shots'[s].timer = t
        /\ \A r \in Shots \ {s} : shots'[r] \in {shots[r], Idle}

ClearsOnly == \A r \in Shots : shots'[r] \in {shots[r], Idle}

LEMMA ShotsChange == ASSUME TypeOK, References, Step PROVE ArmsOne \/ ClearsOnly
<1>1. ASSUME shots' = shots PROVE ClearsOnly
  BY <1>1 DEF ClearsOnly
<1>2. ASSUME NEW s, shots' = Cleared(s) PROVE ClearsOnly
  BY <1>2, ClearedFields DEF ClearsOnly
<1>3. ASSUME NEW s \in Shots, NEW n \in Names, NEW t, NEW count, Set(t)', Fresh(s),
             shots' = Armed(s, n, t, count)
      PROVE  ArmsOne
  BY <1>3, ArmedFields DEF ArmsOne, Set
<1>4. Lasting
  BY CallsLast
<1>5. ASSUME NEW c \in Calls, CallStep(c) PROVE ArmsOne \/ ClearsOnly
  <2>1. ASSUME NEW call, Cancels(c, call) PROVE ClearsOnly
    BY <1>1, <1>2, <2>1 DEF Cancels, CancelTimer
  <2>2. ASSUME NEW call, Enters(c, call) PROVE ArmsOne \/ ClearsOnly
    <3>1. call.name \in Names /\ Set(c)'
      BY <2>2, EntersCall DEF Enters
    <3> QED BY <1>1, <1>3, <2>2, <3>1 DEF Enters, EnterTimer
  <2>3. CASE Revoked(c)
    BY <1>2, <2>3 DEF Revoked
  <2>4. CASE Forgotten(c)
    BY <1>1, <2>4 DEF Forgotten
  <2>5. CASE Scheduled(c)
    BY <1>3, <2>5, ScheduledCall DEF Scheduled
  <2> QED BY <1>5, <2>1, <2>2, <2>3, <2>4, <2>5 DEF CallStep
<1>6. ASSUME NEW s \in Shots, HandleFires(s) \/ EntryDue(s) PROVE ClearsOnly
  BY <1>1, <1>2, <1>6 DEF HandleFires, EntryDue
<1>7. ASSUME NEW h, Ends(h) PROVE ArmsOne \/ ClearsOnly
  <2>1. h.name \in Names
    BY <1>7 DEF Ends, Handler
  <2>2. CASE UNCHANGED shots
    BY <1>1, <2>2
  <2>3. ASSUME NEW by \in Calls, NEW count \in Nat, Set(by), Rearm(h.name, h.timer, by, count)
        PROVE  ArmsOne
    BY <1>3, <1>4, <2>1, <2>3 DEF Rearm, Lasting
  <2> QED BY <1>7, <2>2, <2>3 DEF Ends, Forget
<1>8. ASSUME NEW n, NEW t, NEW meta, Follows(n, t, meta) PROVE ArmsOne \/ ClearsOnly
  <2>1. n \in Names /\ Set(t)'
    BY <1>4, <1>8 DEF Follows, Expiring, Entered, Lasting
  <2> QED BY <1>1, <1>2, <1>3, <1>8, <2>1 DEF Follows, Drops, Keeps
<1>9. CASE Stop \/ Crash
  BY <1>9 DEF Stop, Crash, ClearsOnly
<1>10. ASSUME NEW n \in Names, RestoreEntry(n) PROVE ArmsOne \/ ClearsOnly
  <2> PICK t : t = restoring[n].timer
    OBVIOUS
  <2>1. Set(t)' /\ restoring[n].shot \in Shots
    BY <1>4, <1>10 DEF RestoreEntry, References, MetasSound, MetaSound, Noted, Lasting
  <2>2. CASE UNCHANGED shots
    BY <1>1, <2>2
  <2>3. ASSUME NEW s \in Shots, Fresh(s),
               shots' = [Armed(s, n, t, 0) EXCEPT ![restoring[n].shot] = Idle]
        PROVE  ArmsOne
    <3>1. s # restoring[n].shot
      BY <2>3 DEF Fresh, Referred
    <3>2. shots'[s] = Armed(s, n, t, 0)[s]
      BY <2>3, <3>1 DEF Armed, TypeOK
    <3>3. \A r \in Shots \ {s} : shots'[r] \in {shots[r], Idle}
      BY <2>3 DEF Armed, TypeOK
    <3> QED BY <2>1, <2>3, <3>2, <3>3, ArmedFields DEF ArmsOne, Set
  <2> QED BY <1>10, <2>2, <2>3 DEF RestoreEntry
<1> QED
  BY <1>1, <1>5, <1>6, <1>7, <1>8, <1>9, <1>10
  DEF Step, CallStep, Skips, Begins, Counts, Restart, Restored, OnExpire, vars

LEMMA ShotsSoundStep == ASSUME TypeOK, References, Step PROVE ShotsSound'
<1>1. Lasting /\ ShotsSound
  BY CallsLast DEF References
<1>2. ASSUME NEW r \in Shots, shots'[r] \in {shots[r], Idle}, shots'[r] # Idle
      PROVE  /\ shots'[r].name \in Names
             /\ shots'[r].timer \in Calls /\ calls'[shots'[r].timer].op = "set"
  <2>1. shots'[r] = shots[r] /\ shots[r].name \in Names /\ Set(shots[r].timer)
    BY <1>1, <1>2 DEF ShotsSound
  <2> PICK t : t = shots[r].timer
    OBVIOUS
  <2>2. Set(t)'
    BY <1>1, <2>1 DEF Lasting
  <2> QED BY <2>1, <2>2 DEF Set
<1>3. CASE ClearsOnly
  BY <1>2, <1>3 DEF ClearsOnly, ShotsSound, Set
<1>4. CASE ArmsOne
  <2>1. PICK s \in Shots, n \in Names, t \in Calls :
          /\ calls'[t].op = "set"
          /\ shots'[s].name = n /\ shots'[s].timer = t
          /\ \A r \in Shots \ {s} : shots'[r] \in {shots[r], Idle}
    BY <1>4 DEF ArmsOne
  <2> QED BY <1>2, <2>1 DEF ShotsSound, Set
<1> QED BY <1>3, <1>4, ShotsChange

\* Idle shots that something refers to stay so.
LEMMA IdleStays ==
    ASSUME TypeOK, References, Step, NEW r \in Shots, shots[r] = Idle, Referred(r)
    PROVE  shots'[r] = Idle
BY ShotsChange DEF ArmsOne, ClearsOnly, Fresh

LEMMA TimersSoundStep == ASSUME TypeOK, References, Step PROVE TimersSound'
<1>1. Lasting /\ TimersSound
  BY CallsLast DEF References
<1>2. CASE Crash
  BY <1>2 DEF Crash, TimersSound
<1>3. ASSUME NEW t, NEW n, Entered(t, n), ~Crash PROVE Entered(t, n)'
  BY <1>1, <1>3 DEF Lasting
<1>4. ASSUME ~Crash,
             \A n \in Names : \/ timers'[n] = None
                              \/ timers'[n] = timers[n]
                              \/ Entered(timers'[n], n)
      PROVE  TimersSound'
  BY <1>1, <1>3, <1>4 DEF TimersSound, Entered, Set
<1>5. ASSUME ~Crash, timers' = timers PROVE TimersSound'
  BY <1>4, <1>5
<1>6. ASSUME ~Crash, NEW n \in Names, timers' = [timers EXCEPT ![n] = None] PROVE TimersSound'
  BY <1>4, <1>6 DEF TypeOK
<1>7. ASSUME ~Crash, NEW n \in Names, NEW t, Entered(t, n), timers' = [timers EXCEPT ![n] = t]
      PROVE  TimersSound'
  BY <1>4, <1>7 DEF TypeOK
<1>8. ASSUME ~Crash, NEW c \in Calls, CallStep(c) PROVE TimersSound'
  <2>1. ASSUME NEW call, Cancels(c, call) PROVE TimersSound'
    BY <1>5, <1>6, <1>8, <2>1 DEF Cancels, CancelTimer
  <2>2. ASSUME NEW call, Enters(c, call) PROVE TimersSound'
    <3>1. /\ call.name \in Names /\ Entered(c, call.name)'
          /\ timers' = [timers EXCEPT ![call.name] = c]
      BY <2>2, EntersCall DEF Enters, EnterTimer
    <3>2. timers'[call.name] = c /\ \A n \in Names \ {call.name} : timers'[n] = timers[n]
      BY <3>1 DEF TypeOK
    <3> QED BY <1>1, <1>3, <1>8, <3>1, <3>2 DEF TimersSound, Entered, Set
  <2>3. CASE Forgotten(c)
    <3>1. calls[c].name \in Names
      BY <2>3 DEF Forgotten, References, CallsSound
    <3> QED BY <1>6, <1>8, <2>3, <3>1 DEF Forgotten
  <2>4. CASE Revoked(c) \/ Scheduled(c)
    BY <1>5, <1>8, <2>4 DEF Revoked, Scheduled
  <2> QED BY <1>8, <2>1, <2>2, <2>3, <2>4 DEF CallStep
<1>9. ASSUME ~Crash, NEW h, Ends(h) PROVE TimersSound'
  <2>1. h.name \in Names /\ Entered(h.timer, h.name)
    BY <1>9 DEF Ends, Handler
  <2> QED BY <1>5, <1>6, <1>7, <1>9, <2>1 DEF Ends, Forget, Rearm
<1>10. ASSUME ~Crash, NEW n, NEW t, NEW meta, Follows(n, t, meta) PROVE TimersSound'
  BY <1>6, <1>7, <1>10 DEF Drops, Drop, Keeps, Follows, Expiring
<1>11. ASSUME NEW n \in Names, RestoreEntry(n) PROVE TimersSound'
  <2>1. Entered(restoring[n].timer, n)
    BY <1>11 DEF RestoreEntry, References, MetasSound, MetaSound, Noted, Entered
  <2>2. CASE Crash
    BY <1>2, <2>2
  <2> QED BY <1>5, <1>7, <1>11, <2>1, <2>2 DEF RestoreEntry
<1>12. CASE Stop
  BY <1>12 DEF Stop, TimersSound
<1> QED
  BY <1>2, <1>5, <1>8, <1>9, <1>10, <1>11, <1>12
  DEF Step, CallStep, HandleFires, EntryDue, Skips, Begins, Counts, Restart, Restored,
      OnExpire, vars

LEMMA MetasSoundStep == ASSUME TypeOK, References, Step PROVE MetasSound'
<1> DEFINE Kept(n, m) == m = NoMeta \/ m \in {metadata[n], saved[n], restoring[n]}
           New(n, m) == /\ m.timer \in Calls /\ m.shot \in Shots
                        /\ calls'[m.timer].op = "set" /\ calls'[m.timer].name = n
                        /\ calls'[m.timer].pc \in {"done", "failed"}
<1>1. Lasting /\ MetasSound
  BY CallsLast DEF References
<1>2. ASSUME NEW n \in Names, NEW m, m # NoMeta, Kept(n, m) PROVE New(n, m)
  <2>1. Noted(m.timer, n) /\ m.shot \in Shots
    BY <1>1, <1>2 DEF MetasSound, MetaSound
  <2> PICK t : t = m.timer
    OBVIOUS
  <2>2. Noted(t, n)'
    BY <1>1, <2>1 DEF Lasting
  <2> QED BY <2>1, <2>2 DEF Noted, Over, Set
<1>3. ASSUME \A n \in Names : \A m \in {metadata'[n], saved'[n], restoring'[n]} :
               Kept(n, m) \/ New(n, m)
      PROVE  MetasSound'
  <2>1. \A n \in Names : \A m \in {metadata'[n], saved'[n], restoring'[n]} :
          m # NoMeta => New(n, m)
    BY <1>2, <1>3
  <2> QED BY <2>1 DEF MetasSound, MetaSound, Noted, Over, Set
<1>12. ASSUME Persist PROVE \A n \in Names : saved'[n] \in {saved[n], metadata'[n]}
  BY <1>12 DEF Persist, Saves, SaveRejected
<1>4. ASSUME UNCHANGED <<metadata, saved, restoring>> PROVE MetasSound'
  BY <1>3, <1>4
<1>5. ASSUME NEW c \in Calls, Revoked(c) PROVE MetasSound'
  <2>1. \A n \in Names : metadata'[n] \in {metadata[n], NoMeta}
    BY <1>5 DEF Revoked, TypeOK
  <2> QED BY <1>3, <1>5, <1>12, <2>1 DEF Revoked, Persist, lifeVars
<1>6. ASSUME NEW c \in Calls, Scheduled(c) PROVE MetasSound'
  <2>1. PICK s \in Shots :
          metadata' = [metadata EXCEPT ![calls[c].name] = [timer |-> c, shot |-> s, count |-> 0]]
    BY <1>6 DEF Scheduled
  <2> PICK n \in Names : n = calls[c].name
    BY <1>6, ScheduledCall
  <2> DEFINE m == [timer |-> c, shot |-> s, count |-> 0]
  <2>2. New(n, m)
    BY <1>6, ScheduledCall DEF Over, Set
  <2> HIDE DEF m
  <2>3. metadata'[n] = m /\ \A k \in Names \ {n} : metadata'[k] = metadata[k]
    BY <2>1 DEF TypeOK, m
  <2> HIDE DEF New
  <2>4. restoring' = restoring /\ \A k \in Names : saved'[k] \in {saved[k], metadata'[k]}
    BY <1>6, <1>12 DEF Scheduled, Persist, lifeVars
  <2> QED BY <1>3, <2>2, <2>3, <2>4
<1>7. ASSUME NEW n, NEW t, NEW meta, Follows(n, t, meta) \/ Counts(n, t, meta) PROVE MetasSound'
  <2>1. /\ n \in Names /\ meta # NoMeta /\ MetaSound(n, meta)
        /\ restoring' = restoring
    BY <1>7 DEF Follows, Counts, Expiring, lifeVars
  <2>2. CASE Drops(n, meta)
    <3>1. \A k \in Names : /\ metadata'[k] \in {metadata[k], NoMeta}
                           /\ saved'[k] \in {saved[k], metadata'[k]}
      BY <1>12, <2>2 DEF Drops, Drop, TypeOK
    <3> QED BY <1>3, <2>1, <3>1
  <2>3. ASSUME NEW new \in MetaSet, new.timer = meta.timer, new.shot \in Shots,
               metadata' = Updated(n, meta, new),
               \A k \in Names : saved'[k] \in {saved[k], metadata'[k]}
        PROVE  MetasSound'
    <3> PICK u : u = meta.timer
      OBVIOUS
    <3>2. Noted(u, n)'
      BY <1>1, <2>1 DEF Lasting, MetaSound
    <3>3. New(n, new)
      BY <2>3, <3>2 DEF Noted, Over, Set
    <3>4. /\ metadata'[n] \in {metadata[n], new}
          /\ \A k \in Names \ {n} : metadata'[k] = metadata[k]
      BY <2>1, <2>3 DEF Updated, TypeOK
    <3> HIDE DEF New
    <3> QED BY <1>3, <2>1, <2>3, <3>3, <3>4
  <2>4. CASE Keeps(n, t, meta)
    <3>1. PICK new \in MetaSet :
            /\ new.timer = meta.timer /\ new.shot \in Shots
            /\ metadata' = Updated(n, meta, new) /\ Persist
      BY <2>1, <2>4 DEF Keeps, MetaSound
    <3> QED BY <1>12, <2>3, <3>1
  <2>5. CASE Counts(n, t, meta)
    <3>1. /\ CountedMeta(meta) \in MetaSet /\ CountedMeta(meta).timer = meta.timer
          /\ CountedMeta(meta).shot \in Shots
      BY <2>1, <2>5, CountedFields DEF Counts, Expiring, MetaSound, Noted, Set
    <3>2. metadata' = Updated(n, meta, CountedMeta(meta)) /\ saved' = saved
      BY <2>5 DEF Counts
    <3> QED BY <2>3, <3>1, <3>2
  <2> QED BY <1>7, <2>2, <2>4, <2>5 DEF Follows
<1>8. CASE Crash
  <2>1. \A n \in Names : metadata'[n] = NoMeta /\ saved'[n] = saved[n] /\ restoring'[n] = NoMeta
    BY <1>8 DEF Crash
  <2> QED BY <1>3, <2>1
<1>9. CASE Restart
  BY <1>3, <1>9 DEF Restart
<1>10. CASE Restored
  BY <1>3, <1>10 DEF Restored
<1>11. ASSUME NEW n \in Names, RestoreEntry(n) PROVE MetasSound'
  <2>1. /\ restoring'[n] = NoMeta
        /\ \A k \in Names \ {n} : restoring'[k] = restoring[k]
        /\ saved' = saved
    BY <1>11 DEF RestoreEntry, TypeOK
  <2>2. CASE UNCHANGED metadata
    <3>1. \A k \in Names : /\ metadata'[k] = metadata[k]
                           /\ restoring'[k] = NoMeta \/ restoring'[k] = restoring[k]
      BY <2>1, <2>2
    <3> QED BY <1>3, <2>1, <3>1
  <2>3. ASSUME NEW s \in Shots,
               metadata' = [metadata EXCEPT ![n] = [restoring[n] EXCEPT !.shot = s]]
        PROVE  MetasSound'
    <3> DEFINE new == [restoring[n] EXCEPT !.shot = s]
    <3>1. restoring[n] # NoMeta /\ restoring[n] \in MetaSet
      BY <1>11 DEF RestoreEntry, TypeOK
    <3>2. new.timer = restoring[n].timer /\ new.shot = s
      BY <3>1 DEF MetaSet
    <3>3. New(n, restoring[n])
      BY <1>2, <3>1
    <3>4. New(n, new)
      BY <3>2, <3>3
    <3> HIDE DEF new
    <3>5. metadata'[n] = new /\ \A k \in Names \ {n} : metadata'[k] = metadata[k]
      BY <2>3 DEF TypeOK, new
    <3> HIDE DEF New
    <3> QED BY <1>3, <2>1, <3>4, <3>5
  <2> QED BY <1>11, <2>2, <2>3 DEF RestoreEntry
<1> QED
  BY <1>4, <1>5, <1>6, <1>7, <1>8, <1>9, <1>10, <1>11
  DEF Step, Cancels, Enters, Forgotten, HandleFires, EntryDue, Ends, Skips, Begins, Stop,
      OnExpire, vars, lifeVars

LEMMA HandlersSoundStep == ASSUME TypeOK, References, Step PROVE HandlersSound'
<1>1. Lasting /\ HandlersSound /\ TimersSound /\ MetasSound /\ ShotsSound
  BY CallsLast DEF References
<1>2. CASE Crash
  BY <1>2 DEF Crash, HandlersSound
<1> DEFINE Sound(h) == /\ Entered(h.timer, h.name)
                       /\ useDurable => h.meta # NoMeta /\ MetaSound(h.name, h.meta)
                       /\ useDurable /\ h.phase = "counted" => Limited(h.timer, h.meta)
                       /\ ~useDurable => Set(h.closure.timer)
<1>4. useDurable' = useDurable
  BY ModeStays
<1>3. ASSUME ~Crash, NEW h, Sound(h) PROVE Sound(h)'
  <2>1. Entered(h.timer, h.name)' /\ Set(h.timer)
    BY <1>1, <1>3 DEF Lasting, Entered
  <2>2. useDurable => h.meta # NoMeta /\ MetaSound(h.name, h.meta)'
    BY <1>1, <1>3 DEF Lasting, MetaSound
  <2>3. ~useDurable => Set(h.closure.timer)'
    BY <1>1, <1>3 DEF Lasting
  <2>4. useDurable => Set(h.meta.timer)
    BY <1>3 DEF MetaSound, Noted
  <2>5. KindOf(h.timer)' = KindOf(h.timer)
    BY <1>1, <2>1 DEF Lasting
  <2>6. useDurable => LimitOf(h.meta.timer)' = LimitOf(h.meta.timer)
    BY <1>1, <2>4 DEF Lasting
  <2>7. useDurable /\ h.phase = "counted" => Limited(h.timer, h.meta)'
    BY <1>3, <2>5, <2>6 DEF Limited
  <2> QED BY <1>4, <2>1, <2>2, <2>3, <2>7
<1>5. ASSUME ~Crash, \A h \in handlers' : h \in handlers \/ Sound(h) PROVE HandlersSound'
  <2>1. \A h \in handlers' : Sound(h)
    BY <1>1, <1>5 DEF HandlersSound
  <2>2. \A h \in handlers' : Sound(h)'
    BY <1>3, <1>5, <2>1
  <2> QED BY <2>2 DEF HandlersSound
<1>6. ASSUME ~Crash, NEW s \in Shots, HandleFires(s) PROVE HandlersSound'
  <2> PICK n \in Names : n = shots[s].name
    BY <1>1, <1>6 DEF HandleFires, ShotsSound
  <2> DEFINE h == [name |-> n, timer |-> timers[n], meta |-> NoMeta,
                   closure |-> shots[s], key |-> s, phase |-> "called"]
  <2> PICK g : g = h
    OBVIOUS
  <2>1. ~useDurable /\ (handlers' = handlers \/ (timers[n] # None /\ handlers' = handlers \cup {g}))
    BY <1>6 DEF HandleFires
  <2>2. timers[n] # None => Entered(g.timer, g.name)
    BY <1>1 DEF TimersSound
  <2>3. Set(g.closure.timer)
    BY <1>1, <1>6 DEF HandleFires, ShotsSound
  <2> HIDE DEF h
  <2> QED BY <1>5, <1>6, <2>1, <2>2, <2>3
<1>7. ASSUME ~Crash, NEW n, Begins(n) PROVE HandlersSound'
  <2> PICK g : g = Handled(n, timers[n], metadata[n])
    OBVIOUS
  <2>1. /\ g.name = n /\ g.timer = timers[n] /\ g.meta = metadata[n] /\ g.phase = "called"
        /\ useDurable /\ n \in Names /\ timers[n] # None /\ metadata[n] # NoMeta
        /\ handlers' = {g}
    BY <1>7 DEF Begins, Handled
  <2>2. Entered(g.timer, g.name) /\ g.meta # NoMeta /\ MetaSound(g.name, g.meta)
    BY <1>1, <2>1 DEF TimersSound, MetasSound
  <2> QED BY <1>5, <1>7, <2>1, <2>2
<1>8. ASSUME ~Crash, NEW n, NEW t, NEW meta, Counts(n, t, meta) PROVE HandlersSound'
  <2>1. PICK g \in Handler :
          /\ handlers' = {g}
          /\ g.name = n /\ g.timer = t /\ g.meta = meta /\ g.phase = "counted"
    BY <1>8 DEF Counts
  <2>2. /\ useDurable /\ Entered(t, n) /\ meta # NoMeta /\ MetaSound(n, meta)
        /\ Limited(t, meta)
    BY <1>8 DEF Counts, Expiring
  <2> QED BY <1>5, <1>8, <2>1, <2>2
<1>9. ASSUME ~Crash, handlers' \subseteq handlers PROVE HandlersSound'
  BY <1>5, <1>9
<1> QED
  BY <1>2, <1>6, <1>7, <1>8, <1>9
  DEF Step, Cancels, Enters, Revoked, Forgotten, Scheduled, EntryDue, Ends, Skips, Follows,
      Stop, Restart, Restored, OnExpire, RestoreEntry, vars

\* Fired timers are those of expiries that began.
LEMMA FiredChange ==
    ASSUME TypeOK, References, Step
    PROVE  \/ fired' = {}
           \/ \E n \in Names : timers[n] # None /\ fired' = fired \cup {timers[n]} /\ ~Crash
           \/ fired' = fired /\ ~Crash
<1>1. CASE Crash
  BY <1>1 DEF Crash
<1>2. ASSUME NEW s \in Shots, HandleFires(s) PROVE shots[s].name \in Names
  BY <1>2 DEF HandleFires, References, ShotsSound
<1> QED
  BY <1>1, <1>2, ExpiryKeeps
  DEF Step, Cancels, Enters, Revoked, Forgotten, Scheduled, HandleFires, EntryDue, Ends,
      Skips, Begins, Stop, Restart, Restored, OnExpire, RestoreEntry, vars,
      historyVars

LEMMA FiredSoundStep == ASSUME TypeOK, References, Step PROVE FiredSound'
<1>1. Lasting /\ FiredSound /\ TimersSound
  BY CallsLast DEF References
<1>2. ASSUME ~Crash, NEW t \in Calls, calls[t].op = "set",
             calls[t].pc \in {"scheduling", "done", "failed"}
      PROVE  calls'[t].op = "set" /\ calls'[t].pc \in {"scheduling", "done", "failed"}
  <2> PICK n : n = calls[t].name
    OBVIOUS
  <2>1. Entered(t, n)
    BY <1>2 DEF Entered, Over, Set
  <2>2. Entered(t, n)'
    BY <1>1, <1>2, <2>1 DEF Lasting
  <2> QED BY <2>2 DEF Entered, Over, Set
<1>3. \A n \in Names : timers[n] # None =>
        /\ timers[n] \in Calls /\ calls[timers[n]].op = "set"
        /\ calls[timers[n]].pc \in {"scheduling", "done", "failed"}
  BY <1>1 DEF TimersSound, Entered, Over, Set
<1> QED BY <1>1, <1>2, <1>3, FiredChange DEF FiredSound, Over, Set

LEMMA ReferencesStep == ASSUME TypeOK, References, Step PROVE References'
BY SMTT(40), CallsLast, ShotsSoundStep, TimersSoundStep, MetasSoundStep, HandlersSoundStep,
   FiredSoundStep
DEF References, Lasting

-----------------------------------------------------------------------------
(* Fallback mode. *)

FallbackStep ==
    \/ \E c \in Calls : \E call : Cancels(c, call) \/ Enters(c, call)
    \/ \E s \in Shots : HandleFires(s)
    \/ \E h : Ends(h)
    \/ Stop
    \/ UNCHANGED vars

LEMMA FallbackSteps ==
    ASSUME TypeOK, Modes, ~useDurable, Step
    PROVE  FallbackStep
<1>1. FallbackMode
  BY DEF Modes
<1>2. ASSUME NEW c \in Calls PROVE ~Revoked(c) /\ ~Forgotten(c) /\ ~Scheduled(c)
  BY <1>1 DEF FallbackMode, Revoked, Forgotten, Scheduled
<1>3. ~Restart /\ ~Restored /\ ~OnExpire /\ \A n \in Names : ~RestoreEntry(n)
  BY <1>1 DEF FallbackMode, Restart, Restored, OnExpire, RestoreEntry
<1>4. ~Skips /\ ~Crash /\ (\A s \in Shots : ~EntryDue(s)) /\ \A n : ~Begins(n)
  BY DEF Skips, Crash, EntryDue, Begins
<1>5. \A n, t, meta : ~Follows(n, t, meta) /\ ~Counts(n, t, meta)
  BY ExpiryKeeps
<1> QED BY <1>2, <1>3, <1>4, <1>5 DEF Step, FallbackStep

LEMMA FallbackModeStep ==
    ASSUME TypeOK, References, Modes, ~useDurable, Step
    PROVE  FallbackMode'
<1>1. FallbackMode /\ FallbackStep
  BY FallbackSteps DEF Modes
<1>2. /\ UNCHANGED <<hasCallback, metadata, saved, restoring, mailbox>>
      /\ status' \in {status, "stopped"}
  BY <1>1 DEF FallbackStep, Cancels, Enters, HandleFires, Ends, Stop, vars, lifeVars, historyVars
<1>3. \A c \in Calls : calls'[c].pc \in {"idle", "resuming", "done"}
  <2>1. ASSUME NEW c \in Calls, NEW call, NEW p \in {"resuming", "done"}, call \in Call,
               calls' = [calls EXCEPT ![c] = [call EXCEPT !.pc = p]]
        PROVE  \A b \in Calls : calls'[b].pc \in {"idle", "resuming", "done"}
    <3>1. calls'[c] = [call EXCEPT !.pc = p] /\ \A b \in Calls \ {c} : calls'[b] = calls[b]
      BY <2>1 DEF TypeOK
    <3>2. calls'[c].pc = p
      BY <2>1, <3>1 DEF Call
    <3> QED BY <1>1, <3>1, <3>2 DEF FallbackMode
  <2>2. ASSUME NEW c \in Calls, NEW call, Cancels(c, call)
        PROVE  \A b \in Calls : calls'[b].pc \in {"idle", "resuming", "done"}
    BY <2>1, <2>2, AfterCancelPC DEF Cancels, CancelTimer
  <2>3. ASSUME NEW c \in Calls, NEW call, Enters(c, call)
        PROVE  \A b \in Calls : calls'[b].pc \in {"idle", "resuming", "done"}
    BY <2>1, <2>3 DEF Enters, EnterTimer
  <2>4. ASSUME calls' = calls
        PROVE  \A b \in Calls : calls'[b].pc \in {"idle", "resuming", "done"}
    BY <1>1, <2>4 DEF FallbackMode
  <2> QED BY <1>1, <2>2, <2>3, <2>4 DEF FallbackStep, HandleFires, Ends, Stop, vars
<1> QED BY <1>1, <1>2, <1>3 DEF FallbackMode

\* A shot is armed for the name it is the handle of.
LEMMA HandlesArmed ==
    ASSUME TypeOK, HandlesNamed, NEW s \in Shots, NEW n \in Names, NEW t, NEW count, Fresh(s),
           shots' = Armed(s, n, t, count), handles' = [handles EXCEPT ![n] = s]
    PROVE  HandlesNamed'
<1>1. /\ shots'[s].name = n /\ \A r \in Shots \ {s} : shots'[r] = shots[r]
      /\ handles'[n] = s /\ \A m \in Names \ {n} : handles'[m] = handles[m]
  BY ArmedFields DEF TypeOK
<1>2. \A m \in Names : handles[m] # s
  BY DEF Fresh, Referred
<1> QED BY <1>1, <1>2 DEF HandlesNamed

LEMMA HandlesNamedStep ==
    ASSUME TypeOK, References, Modes, HandlesNamed, Step
    PROVE  HandlesNamed'
<1>1. ASSUME NEW n \in Names, handles' \in {handles, [handles EXCEPT ![n] = None]}, ClearsOnly
      PROVE  HandlesNamed'
  <2>1. \A m \in Names, s \in Shots : handles'[m] = s => handles[m] = s
    BY <1>1 DEF TypeOK, None, Shots
  <2> QED BY <1>1, <2>1 DEF HandlesNamed, ClearsOnly
<1>2. CASE useDurable
  <2>1. handles' = handles /\ \A n \in Names : handles[n] = None
    BY ZenonT(40), <1>2, ExpiryKeeps
       DEF Step, Cancels, CancelTimer, Enters, EnterTimer, Revoked, Forgotten, Scheduled,
                HandleFires, EntryDue, Ends, Skips, Begins, Stop,
                Crash, Restart, Restored, OnExpire, RestoreEntry, vars, Modes, DurableMode
  <2> QED BY <2>1 DEF HandlesNamed, None, Shots
<1>3. CASE ~useDurable
  <2>1. FallbackStep
    BY <1>3, FallbackSteps
  <2>2. ASSUME NEW c \in Calls, NEW call, Cancels(c, call) PROVE HandlesNamed'
    <3>1. \A s : shots' = Cleared(s) => ClearsOnly
      BY ClearedFields DEF ClearsOnly
    <3> QED BY <1>1, <1>3, <2>2, <3>1 DEF Cancels, CancelTimer
  <2>3. ASSUME NEW c \in Calls, NEW call, Enters(c, call) PROVE HandlesNamed'
    BY <1>3, <2>3, HandlesArmed DEF Enters, EnterTimer
  <2>4. ASSUME NEW s \in Shots, HandleFires(s) PROVE HandlesNamed'
    <3>1. \A m \in Names, r \in Shots : handles'[m] = handles[m] /\ shots'[r] \in {shots[r], Idle}
      BY <2>4, ClearedFields DEF HandleFires
    <3> QED BY <3>1 DEF HandlesNamed
  <2>5. ASSUME NEW h, Ends(h) PROVE HandlesNamed'
    <3>1. h.name \in Names
      BY <2>5 DEF Ends, Handler
    <3>2. shots' = shots => ClearsOnly
      BY DEF ClearsOnly
    <3> QED BY <1>1, <2>5, <3>1, <3>2, HandlesArmed DEF Ends, Forget, Rearm
  <2>6. CASE Stop
    <3>1. \A n \in Names : handles'[n] = None
      BY <2>6 DEF Stop
    <3> QED BY <3>1 DEF HandlesNamed, None, Shots
  <2>7. CASE UNCHANGED vars
    BY <2>7 DEF vars, HandlesNamed
  <2> QED BY <2>1, <2>2, <2>3, <2>4, <2>5, <2>6, <2>7 DEF FallbackStep
<1> QED BY <1>2, <1>3

\* An expiry in flight, or a shot, that serves the timer of a name.
Served(n) ==
    \/ \E h \in handlers : h.name = n /\ Rearming(h)
    \/ \E s \in Shots : shots[s] # Idle /\ shots[s].name = n /\ Serves(shots[s].timer, timers[n])

\* Kinds do not change.
LEMMA ServesLast ==
    ASSUME TypeOK, References, Step, NEW by, NEW t, Set(by), Set(t)
    PROVE  (Serves(by, t) <=> Serves(by, t)') /\ Set(by)' /\ Set(t)'
BY CallsLast DEF Lasting, Serves

LEMMA HandlerServes ==
    ASSUME TypeOK, References, Step, ~useDurable, NEW h \in handlers, h \in handlers',
           Rearming(h)
    PROVE  \E g \in handlers' : g.name = h.name /\ Rearming(g)'
<1>1. Set(h.closure.timer) /\ Set(h.timer)
  BY DEF References, HandlersSound, Entered
<1> QED BY <1>1, ServesLast DEF Rearming

LEMMA ShotServes ==
    ASSUME TypeOK, References, Step, NEW s \in Shots, NEW n \in Names, timers[n] # None,
           shots[s] # Idle, shots[s].name = n, Serves(shots[s].timer, timers[n]),
           shots'[s] = shots[s], timers'[n] = timers[n]
    PROVE  Served(n)'
<1> PICK by, t : by = shots[s].timer /\ t = timers[n]
  OBVIOUS
<1>1. Set(by) /\ Set(t)
  BY DEF References, ShotsSound, TimersSound, Entered
<1>2. Serves(by, t)'
  BY <1>1, ServesLast
<1> QED BY <1>2 DEF Served, Serves, KindOf

LEMMA ServedStays ==
    ASSUME TypeOK, References, Step, ~useDurable, NEW n \in Names, timers[n] # None,
           Served(n), timers'[n] = timers[n],
           \A h \in handlers : h.name = n /\ Rearming(h) => h \in handlers',
           \A s \in Shots : shots[s] # Idle /\ shots[s].name = n => shots'[s] = shots[s]
    PROVE  Served(n)'
<1>1. CASE \E h \in handlers : h.name = n /\ Rearming(h)
  BY <1>1, HandlerServes DEF Served
<1>2. CASE \E s \in Shots :
             shots[s] # Idle /\ shots[s].name = n /\ Serves(shots[s].timer, timers[n])
  BY <1>2, ShotServes
<1> QED BY <1>1, <1>2 DEF Served

\* The timer of a name is entered, with a shot that serves it.
LEMMA ServedAnew ==
    ASSUME TypeOK, References, Step, NEW n \in Names, NEW t, NEW by, NEW s \in Shots,
           NEW count, Set(by)', KindOf(by)' = "cron" => KindOf(t)' = "cron",
           shots' = Armed(s, n, by, count), timers' = [timers EXCEPT ![n] = t]
    PROVE  Served(n)'
<1>1. shots'[s].name = n /\ shots'[s].timer = by /\ timers'[n] = t
  BY ArmedFields DEF TypeOK
<1>2. shots'[s] # Idle
  BY <1>1 DEF Idle, Set, None, Calls
<1> QED BY <1>1, <1>2 DEF Served, Serves, KindOf

LEMMA ServedStep ==
    ASSUME TypeOK, References, Modes, HandlesNamed, EnteredIsServed, ~useDurable, Step
    PROVE  EnteredIsServed'
<1>1. FallbackStep /\ useDurable' = useDurable
  BY FallbackSteps, ModeStays
<1>2. \A n \in Names : timers[n] # None => Served(n)
  BY DEF EnteredIsServed, Served
<1>3. SUFFICES ASSUME NEW n \in Names, timers'[n] # None PROVE Served(n)'
  BY DEF EnteredIsServed, Served
<1>4. ASSUME NEW s \in Shots, Fresh(s) PROVE shots[s] = Idle
  BY <1>4 DEF Fresh, Referred
<1>5. ASSUME NEW c \in Calls, NEW call, Cancels(c, call) PROVE Served(n)'
  <2>1. /\ call.name \in Names
        /\ shots' = Cleared(handles[call.name])
        /\ timers' = [timers EXCEPT ![call.name] = None]
        /\ handlers' = handlers
    BY <1>5 DEF Cancels, CancelTimer
  <2>2. n # call.name /\ timers'[n] = timers[n]
    BY <1>3, <2>1 DEF TypeOK
  <2>3. \A s \in Shots : shots[s] # Idle /\ shots[s].name = n => shots'[s] = shots[s]
    BY <2>1, <2>2, ClearedFields DEF HandlesNamed
  <2> QED BY <1>2, <1>3, <2>1, <2>2, <2>3, ServedStays
<1>6. ASSUME NEW c \in Calls, NEW call, Enters(c, call) PROVE Served(n)'
  <2>1. PICK s \in Shots :
          /\ Fresh(s)
          /\ shots' = Armed(s, call.name, c, 0)
          /\ timers' = [timers EXCEPT ![call.name] = c]
    BY <1>6 DEF Enters, EnterTimer
  <2>2. call.name \in Names /\ handlers' = handlers
    BY <1>6 DEF Enters
  <2>3. CASE n = call.name
    BY <1>6, <2>1, <2>3, EntersCall, ServedAnew
  <2>4. CASE n # call.name
    <3>1. timers'[n] = timers[n]
      BY <2>1, <2>4 DEF TypeOK
    <3>2. \A r \in Shots : shots[r] # Idle => shots'[r] = shots[r]
      BY <1>4, <2>1, ArmedFields
    <3> QED BY <1>2, <1>3, <2>2, <3>1, <3>2, ServedStays
  <2> QED BY <2>3, <2>4
<1>7. ASSUME NEW s \in Shots, HandleFires(s) PROVE Served(n)'
  <2>1. /\ timers' = timers /\ shots' = Cleared(s) /\ handlers \subseteq handlers'
        /\ shots[s] # Idle
    BY <1>7 DEF HandleFires
  <2>2. \A r \in Shots \ {s} : shots'[r] = shots[r]
    BY <2>1, ClearedFields
  <2>3. CASE \E h \in handlers : h.name = n /\ Rearming(h)
    BY <2>1, <2>3, HandlerServes DEF Served
  <2>4. ASSUME NEW r \in Shots, r # s, shots[r] # Idle, shots[r].name = n,
               Serves(shots[r].timer, timers[n])
        PROVE  Served(n)'
    BY <1>3, <2>1, <2>2, <2>4, ShotServes
  <2>5. CASE shots[s].name = n /\ Serves(shots[s].timer, timers[n])
    <3> PICK g : g = [name |-> n, timer |-> timers[n], meta |-> NoMeta,
                      closure |-> shots[s], key |-> s, phase |-> "called"]
      OBVIOUS
    <3>1. g \in handlers' /\ g.name = n /\ Serves(g.closure.timer, g.timer)
      BY <1>3, <1>7, <2>1, <2>5 DEF HandleFires
    <3>2. Set(g.closure.timer) /\ Set(g.timer)
      BY <1>3, <2>1 DEF References, ShotsSound, TimersSound, Entered
    <3>3. Rearming(g)'
      BY <3>1, <3>2, ServesLast DEF Rearming
    <3> QED BY <3>1, <3>3 DEF Served
  <2> QED BY <1>2, <1>3, <2>1, <2>3, <2>4, <2>5 DEF Served
<1>8. ASSUME NEW h, Ends(h) PROVE Served(n)'
  <2>1. h.name \in Names /\ handlers' = handlers \ {h} /\ Set(h.timer)
    BY <1>8 DEF Ends, Handler, Entered
  <2>2. CASE Forget(h.name)
    <3>1. n # h.name /\ timers'[n] = timers[n] /\ shots' = shots
      BY <1>3, <2>1, <2>2 DEF Forget, TypeOK
    <3> QED BY <1>2, <1>3, <2>1, <3>1, ServedStays
  <2>3. ASSUME NEW by \in Calls, NEW count \in Nat, Set(by), Serves(by, h.timer),
               Rearm(h.name, h.timer, by, count)
        PROVE  Served(n)'
    <3>1. PICK s \in Shots :
            /\ Fresh(s)
            /\ shots' = Armed(s, h.name, by, count)
            /\ timers' = [timers EXCEPT ![h.name] = h.timer]
      BY <2>3 DEF Rearm
    <3>2. CASE n = h.name
      <4>1. Set(by)' /\ Serves(by, h.timer)'
        BY <2>1, <2>3, ServesLast
      <4> QED BY <2>1, <3>1, <3>2, <4>1, ServedAnew DEF Serves
    <3>3. CASE n # h.name
      <4>1. timers'[n] = timers[n]
        BY <3>1, <3>3 DEF TypeOK
      <4>2. \A r \in Shots : shots[r] # Idle => shots'[r] = shots[r]
        BY <1>4, <3>1, ArmedFields
      <4> QED BY <1>2, <1>3, <2>1, <3>3, <4>1, <4>2, ServedStays
    <3> QED BY <3>2, <3>3
  <2>4. CASE ~Rearming(h) /\ UNCHANGED <<timers, handles, shots>>
    BY <1>2, <1>3, <2>1, <2>4, ServedStays
  <2> QED BY <1>8, <2>2, <2>3, <2>4 DEF Ends
<1>9. CASE Stop
  BY <1>3, <1>9 DEF Stop
<1>10. CASE UNCHANGED vars
  BY <1>2, <1>3, <1>10, ServedStays DEF vars
<1> QED BY <1>1, <1>5, <1>6, <1>7, <1>8, <1>9, <1>10 DEF FallbackStep

-----------------------------------------------------------------------------
(* Durable mode: its life, and the shots of names. *)

DurableStep ==
    \/ \E c \in Calls : CallStep(c)
    \/ \E s \in Shots : EntryDue(s)
    \/ Skips
    \/ \E n : Begins(n) \/ \E t, meta : Follows(n, t, meta) \/ Counts(n, t, meta)
    \/ Crash \/ Restart \/ Restored \/ OnExpire
    \/ \E n \in Names : RestoreEntry(n)
    \/ UNCHANGED vars

LEMMA DurableSteps == ASSUME useDurable, Step PROVE DurableStep
<1>1. ~Stop /\ (\A s \in Shots : ~HandleFires(s)) /\ \A h : ~Ends(h)
  BY SMTT(40) DEF Stop, HandleFires, Ends
<1> QED BY <1>1 DEF Step, DurableStep, CallStep

\* Calls proceed only while the manager is up.
LEMMA CallsWhenUp ==
    ASSUME useDurable, Modes, NEW c \in Calls, CallStep(c)
    PROVE  /\ status = "up" /\ hasCallback
           /\ \A n \in Names : restoring[n] = NoMeta
           /\ UNCHANGED <<lifeVars, handles, mailbox, handlers, crashes, fired>>
<1>1. status = "up" /\ hasCallback
  BY DEF CallStep, Cancels, Enters, Revoked, Forgotten, Scheduled, Modes, DurableMode, Quiet
<1> QED BY <1>1 DEF CallStep, Cancels, CancelTimer, Enters, EnterTimer, Revoked, Forgotten,
            Scheduled, Modes, DurableMode, historyVars

\* Kinds and limits do not change, so that neither does what an expiry writes.
LEMMA CountedStays ==
    ASSUME TypeOK, References, Step, NEW m, Set(m.timer)
    PROVE  CountedMeta(m)' = CountedMeta(m)
<1> PICK t : t = m.timer
  OBVIOUS
<1>1. LimitOf(t)' = LimitOf(t)
  BY CallsLast DEF Lasting
<1> QED BY <1>1 DEF CountedMeta, LimitOf

LEMMA CurrentStays ==
    ASSUME useDurable, TypeOK, References, Step, NEW h \in handlers
    PROVE  /\ Set(h.timer) /\ Set(h.meta.timer) /\ h.name \in Names /\ h.meta \in MetaSet
           /\ h.meta # NoMeta
           /\ CountedMeta(h.meta)' = CountedMeta(h.meta) /\ Current(h)' = Current(h)
           /\ Current(h).timer = h.meta.timer /\ Current(h).shot = h.meta.shot
           /\ h \in Ending /\ h \in handlers' => h \in Ending'
<1>1. Set(h.timer) /\ Set(h.meta.timer) /\ h.name \in Names /\ h.meta \in MetaSet /\ h.meta # NoMeta
  BY DEF References, HandlersSound, Entered, MetaSound, Noted, TypeOK
<1>2. CountedMeta(h.meta)' = CountedMeta(h.meta)
  BY <1>1, CountedStays
<1>3. Current(h)' = Current(h)
  BY <1>2 DEF Current
<1>4. Current(h).timer = h.meta.timer /\ Current(h).shot = h.meta.shot
  BY <1>1, CountedFields DEF Current, Set
<1>5. KindOf(h.timer)' = KindOf(h.timer)
  BY <1>1, CallsLast DEF Lasting
<1>6. h \in Ending /\ h \in handlers' => h \in Ending'
  BY <1>5 DEF Ending
<1> QED BY <1>1, <1>2, <1>3, <1>4, <1>6

LEMMA ExpiringMeta ==
    ASSUME TypeOK, NEW n, NEW t, NEW meta, Expiring(n, t, meta)
    PROVE  /\ n \in Names /\ meta \in MetaSet /\ meta # NoMeta /\ meta.timer \in Calls
           /\ Set(meta.timer) /\ Set(t) /\ CountedMeta(meta) \in MetaSet
           /\ CountedMeta(meta).timer = meta.timer /\ CountedMeta(meta).shot = meta.shot
           /\ CountedMeta(meta) # NoMeta
<1>1. /\ n \in Names /\ meta \in MetaSet /\ meta # NoMeta /\ meta.timer \in Calls
      /\ Set(meta.timer) /\ Set(t)
  BY DEF Expiring, MetaSound, Noted, Entered, Set
<1>2. /\ CountedMeta(meta) \in MetaSet
      /\ CountedMeta(meta).timer = meta.timer /\ CountedMeta(meta).shot = meta.shot
  BY <1>1, CountedFields
<1>3. CountedMeta(meta) # NoMeta
  BY <1>1, <1>2 DEF NoMeta, None, Calls
<1> QED BY <1>1, <1>2, <1>3

\* The expiry that goes on is of a name that is not, or no longer, restored.
LEMMA ExpiringFacts ==
    ASSUME TypeOK, Modes, NEW n, NEW t, NEW meta, Expiring(n, t, meta)
    PROVE  useDurable /\ n \in Names /\ status # "down" /\ restoring[n] = NoMeta
<1>1. useDurable /\ n \in Names /\ DurableMode
  BY DEF Expiring, Modes
<1>2. status # "down"
  BY <1>1 DEF Expiring, DurableMode
<1>3. CASE handlers # {}
  <2>1. PICK h \in handlers : h.name = n
    BY <1>3 DEF Expiring
  <2>2. restoring[n] = NoMeta
    BY <1>1, <2>1 DEF DurableMode
  <2> QED BY <1>1, <1>2, <2>2
<1>4. CASE handlers = {}
  BY <1>1, <1>2, <1>4 DEF Expiring, DurableMode
<1> QED BY <1>3, <1>4

\* Only the metadata of its name changes.
LEMMA FollowsFacts ==
    ASSUME TypeOK, References, Modes, NEW n, NEW t, NEW meta,
           Follows(n, t, meta) \/ Counts(n, t, meta)
    PROVE  /\ \A k \in Names \ {n} : metadata'[k] = metadata[k]
           /\ \A k \in Names : saved'[k] \in {saved[k], metadata'[k]}
           /\ \A k \in Names : restoring[k] # NoMeta =>
                metadata'[k] = NoMeta /\ saved'[k] \in {NoMeta, restoring[k]}
<1>1. Expiring(n, t, meta)
  BY DEF Follows, Counts
<1>2. n \in Names /\ restoring[n] = NoMeta /\ DurableMode
  BY <1>1, ExpiringFacts DEF Modes
<1>3. metadata \in [Names -> MetaSet]
  BY DEF TypeOK
<1>4. /\ \A k \in Names \ {n} : metadata'[k] = metadata[k]
      /\ \A k \in Names : saved'[k] \in {saved[k], metadata'[k]}
  <2>1. CASE Drops(n, meta)
    BY <1>3, <2>1 DEF Drops, Drop, Persist, Saves, SaveRejected
  <2>2. CASE Keeps(n, t, meta)
    BY <1>3, <2>2 DEF Keeps, Updated, Persist, Saves, SaveRejected
  <2>3. CASE Counts(n, t, meta)
    BY <1>3, <2>3 DEF Counts, Updated
  <2> QED BY <2>1, <2>2, <2>3 DEF Follows
<1>5. \A k \in Names : restoring[k] # NoMeta =>
        k # n /\ metadata[k] = NoMeta /\ saved[k] \in {NoMeta, restoring[k]}
  BY <1>2 DEF DurableMode
<1> QED BY <1>4, <1>5

LEMMA DurableModeStep ==
    ASSUME useDurable, TypeOK, References, Modes, Step
    PROVE  DurableMode'
<1>1. DurableMode /\ DurableStep
  BY DurableSteps DEF Modes
<1>2. ASSUME NEW c \in Calls, CallStep(c) PROVE DurableMode'
  <2>1. /\ status' = "up" /\ hasCallback' = TRUE /\ handles' = handles /\ handlers' = handlers
        /\ \A n \in Names : restoring'[n] = NoMeta
    BY <1>2, CallsWhenUp DEF lifeVars
  <2> QED BY <1>1, <2>1 DEF DurableMode
<1>3. CASE Crash
  <2>1. \A c \in Calls : Quiet(c)'
    BY <1>3, CrashEndsCalls DEF Quiet
  <2>2. /\ status' = "down" /\ hasCallback' = FALSE /\ handlers' = {} /\ fired' = {}
        /\ handles' = handles
        /\ \A n \in Names : restoring'[n] = NoMeta /\ metadata'[n] = NoMeta
    BY <1>3 DEF Crash
  <2> QED BY <1>1, <2>1, <2>2 DEF DurableMode
<1>4. ASSUME NEW n, NEW t, NEW meta, Follows(n, t, meta) \/ Counts(n, t, meta) PROVE DurableMode'
  <2>1. /\ UNCHANGED <<status, hasCallback, restoring, handles, calls, fired>>
        /\ status # "down" /\ restoring[n] = NoMeta
        /\ \A k \in Names : restoring[k] # NoMeta =>
             metadata'[k] = NoMeta /\ saved'[k] \in {NoMeta, restoring[k]}
    BY <1>4, ExpiryKeeps, ExpiringFacts, FollowsFacts DEF Follows, Counts
  <2>2. /\ \A g, h \in handlers' : g = h
        /\ \A h \in handlers' : h.phase = "counted" /\ h.name = n
    BY <1>4 DEF Follows, Counts
  <2> QED BY <1>1, <2>1, <2>2 DEF DurableMode, Quiet
<1>5. ASSUME NEW n, Begins(n) PROVE DurableMode'
  BY <1>1, <1>5 DEF DurableMode, Begins, lifeVars
<1>6. ASSUME NEW s \in Shots, EntryDue(s) PROVE DurableMode'
  BY <1>1, <1>6 DEF DurableMode, Quiet, EntryDue, lifeVars, historyVars
<1>7. CASE Skips \/ UNCHANGED vars
  <2>1. UNCHANGED <<lifeVars, handles, metadata, saved, handlers, calls, fired>>
    BY <1>7 DEF Skips, historyVars, vars
  <2> QED BY <1>1, <2>1 DEF DurableMode, Quiet, lifeVars
<1>8. CASE Restart
  <2>1. /\ status' = "restoring" /\ restoring' = saved
        /\ UNCHANGED <<hasCallback, handles, metadata, saved, handlers, calls, fired>>
        /\ \A n \in Names : metadata[n] = NoMeta
        /\ ~hasCallback
    BY <1>1, <1>8 DEF Restart, historyVars, DurableMode
  <2> QED BY <1>1, <1>8, <2>1 DEF DurableMode, Quiet, Restart
<1>9. CASE Restored
  <2>1. /\ status' = "up" /\ \A n \in Names : restoring'[n] = NoMeta
        /\ UNCHANGED <<hasCallback, handles, handlers, calls, fired>>
    BY <1>9 DEF Restored, historyVars
  <2>2. /\ metadata' = metadata
        /\ \A h \in handlers : h.name \in Names
    BY <1>9 DEF Restored, TypeOK
  <2>3. ~hasCallback' =>
          /\ \A h \in handlers' : h.phase = "counted" /\ restoring'[h.name] = NoMeta
          /\ fired' = {}
          /\ \A c \in Calls : Quiet(c)'
    BY <1>1, <2>1, <2>2 DEF DurableMode, Quiet
  <2> QED BY <1>1, <2>1, <2>3 DEF DurableMode
<1>10. CASE OnExpire
  <2>1. /\ status' = "up" /\ hasCallback' = TRUE
        /\ UNCHANGED <<restoring, handles, metadata, saved, handlers, calls, fired>>
        /\ status = "up"
    BY <1>10 DEF OnExpire, historyVars
  <2> QED BY <1>1, <2>1 DEF DurableMode
<1>11. ASSUME NEW n \in Names, RestoreEntry(n) PROVE DurableMode'
  <2>1. /\ UNCHANGED <<status, hasCallback, handles, saved, handlers, calls, fired>>
        /\ restoring'[n] = NoMeta
        /\ \A k \in Names \ {n} : restoring'[k] = restoring[k] /\ metadata'[k] = metadata[k]
        /\ status # "down"
    BY <1>1, <1>11 DEF RestoreEntry, TypeOK, historyVars, DurableMode
  <2>2. \A h \in handlers : h.name \in Names
    BY DEF TypeOK
  <2>3. ~hasCallback' =>
          /\ \A h \in handlers' : h.phase = "counted" /\ restoring'[h.name] = NoMeta
          /\ fired' = {}
          /\ \A c \in Calls : Quiet(c)'
    BY <1>1, <2>1, <2>2 DEF DurableMode, Quiet
  <2>4. \A k \in Names : restoring'[k] # NoMeta =>
          metadata'[k] = NoMeta /\ saved'[k] \in {NoMeta, restoring'[k]}
    BY <1>1, <2>1 DEF DurableMode
  <2>5. status' # "restoring" => \A k \in Names : restoring'[k] = NoMeta
    BY <1>1, <2>1 DEF DurableMode
  <2> QED BY <1>1, <2>1, <2>3, <2>4, <2>5 DEF DurableMode
<1> QED BY <1>1, <1>2, <1>3, <1>4, <1>5, <1>6, <1>7, <1>8, <1>9, <1>10, <1>11
    DEF DurableStep

LEMMA ModesStep == ASSUME TypeOK, References, Modes, Step PROVE Modes'
BY ModeStays, FallbackModeStep, DurableModeStep DEF Modes

LEMMA FreshIsUnreferred ==
    ASSUME NEW s, Fresh(s), NEW n \in Names PROVE ~Refers(n, s) /\ shots[s] = Idle
BY DEF Fresh, Referred, Refers, MetaRefers, CallRefers, HandlerRefers

\* What refers to a shot has referred to it, or takes a fresh one.
Takes(n, s) == Fresh(s) /\ shots'[s].name = n

LEMMA CallRefersStep ==
    ASSUME TypeOK, References, Step, NEW n \in Names, NEW s \in Shots, CallRefers(n, s)'
    PROVE  CallRefers(n, s) \/ MetaRefers(n, s)
<1>1. PICK b \in Calls : calls'[b].name = n /\ calls'[b].shot = s
  BY DEF CallRefers
<1>2. calls \in [Calls -> Call] /\ s # None
  BY DEF TypeOK, Call, Shots, None
<1>3. CASE Crash \/ calls' = calls
  BY <1>1, <1>2, <1>3, CrashEndsCalls DEF CallRefers
<1>4. ASSUME NEW c \in Calls, CallStep(c) PROVE CallRefers(n, s) \/ MetaRefers(n, s)
  <2>1. CASE b # c
    <3>1. calls'[b] = calls[b]
      BY <1>2, <1>4, <2>1, CallGoesOn DEF GoesOn
    <3> QED BY <1>1, <3>1 DEF CallRefers
  <2>2. ASSUME NEW call, b = c, Cancels(c, call) PROVE MetaRefers(n, s)
    <3>1. call \in Call /\ call.shot = None
      BY <2>2 DEF Cancels
    <3>2. \/ calls'[c] = [call EXCEPT !.pc = "revoking", !.shot = metadata[call.name].shot]
          \/ calls'[c] = [call EXCEPT !.pc = AfterCancel(call.op)]
      BY <1>2, <2>2 DEF Cancels, CancelTimer
    <3>3. calls'[c].name = call.name /\ calls'[c].shot \in {None, metadata[call.name].shot}
      BY <3>1, <3>2 DEF Call
    <3> QED BY <1>1, <1>2, <2>2, <3>3 DEF MetaRefers
  <2>3. ASSUME NEW call, b = c, Enters(c, call) PROVE FALSE
    <3>1. call \in Call /\ call.shot = None
      BY <2>3 DEF Enters
    <3>2. \E p : calls'[c] = [call EXCEPT !.pc = p]
      BY <1>2, <2>3 DEF Enters, EnterTimer
    <3>3. calls'[c].shot = None
      BY <3>1, <3>2 DEF Call
    <3> QED BY <1>1, <1>2, <2>3, <3>3
  <2>4. CASE Revoked(c) /\ b = c
    <3>1. calls'[c].shot = None
      BY <1>2, <2>4 DEF Revoked, Call
    <3> QED BY <1>1, <1>2, <2>4, <3>1
  <2>5. CASE (Forgotten(c) \/ Scheduled(c)) /\ b = c
    <3>1. calls'[c].name = calls[c].name /\ calls'[c].shot = calls[c].shot
      BY <1>2, <2>5 DEF Forgotten, Scheduled, Call
    <3> QED BY <1>1, <2>5, <3>1 DEF CallRefers
  <2> QED BY <1>4, <2>1, <2>2, <2>3, <2>4, <2>5 DEF CallStep
<1> QED BY <1>3, <1>4, CallsStay

LEMMA HandlerRefersStep ==
    ASSUME TypeOK, References, Step, NEW n \in Names, NEW s \in Shots, HandlerRefers(n, s)'
    PROVE  HandlerRefers(n, s) \/ MetaRefers(n, s)
<1>1. PICK h \in handlers' : h.name = n /\ h.meta.shot = s
  BY DEF HandlerRefers
<1>2. CASE h \in handlers
  BY <1>1, <1>2 DEF HandlerRefers
<1>3. CASE h \notin handlers
  <2>1. CASE \E r \in Shots : HandleFires(r)
    <3>1. h.meta = NoMeta
      BY <1>3, <2>1 DEF HandleFires
    <3> QED BY <1>1, <3>1 DEF NoMeta, None, Shots
  <2>2. ASSUME NEW k, Begins(k) PROVE MetaRefers(n, s)
    <3>1. h.name = k /\ h.meta = metadata[k]
      BY SMTT(40), <2>2 DEF Begins, Handled
    <3> QED BY <1>1, <3>1 DEF MetaRefers
  <2>4. ASSUME NEW k, NEW t, NEW meta, Counts(k, t, meta)
        PROVE  HandlerRefers(n, s) \/ MetaRefers(n, s)
    <3>1. h.name = k /\ h.meta = meta
      BY <2>4 DEF Counts
    <3>2. CASE handlers # {}
      <4>1. PICK g \in handlers : g.name = k /\ g.meta.shot = meta.shot
        BY <2>4, <3>2 DEF Counts, Expiring
      <4> QED BY <1>1, <3>1, <4>1 DEF HandlerRefers
    <3>3. CASE handlers = {}
      BY <1>1, <2>4, <3>1, <3>3 DEF Counts, Expiring, MetaRefers
    <3> QED BY <3>2, <3>3
  <2>3. \/ \E r \in Shots : HandleFires(r)
        \/ \E k : Begins(k) \/ \E t, meta : Counts(k, t, meta)
    BY <1>3 DEF Step, Cancels, Enters, Revoked, Forgotten, Scheduled,
                EntryDue, Ends, Skips, Follows, Stop, Crash, Restart,
                Restored, OnExpire, RestoreEntry, vars
  <2> QED BY <2>1, <2>2, <2>3, <2>4
<1> QED BY <1>2, <1>3

LEMMA MetaRefersStep ==
    ASSUME TypeOK, References, Step, NEW n \in Names, NEW s \in Shots, MetaRefers(n, s)'
    PROVE  Refers(n, s) \/ Takes(n, s)
<1>1. /\ metadata \in [Names -> MetaSet] /\ saved \in [Names -> MetaSet]
      /\ restoring \in [Names -> MetaSet]
      /\ s # NoMeta.shot
  BY DEF TypeOK, Shots, NoMeta, None
<1>2. s \in {metadata'[n].shot, saved'[n].shot, restoring'[n].shot}
  BY DEF MetaRefers
<1>3. SUFFICES ASSUME ~Takes(n, s)
      PROVE s \in {metadata[n].shot, saved[n].shot, restoring[n].shot}
  BY DEF Refers, MetaRefers
<1>11. Persist => \A k \in Names : saved'[k] \in {saved[k], metadata'[k]}
  BY DEF Persist, Saves, SaveRejected
<1>4. CASE UNCHANGED <<metadata, saved, restoring>>
  BY <1>2, <1>4
<1>5. ASSUME NEW c \in Calls, CallStep(c)
      PROVE  s \in {metadata[n].shot, saved[n].shot, restoring[n].shot}
  <2>1. CASE Revoked(c)
    BY <1>1, <1>2, <1>11, <2>1 DEF Revoked, Persist, lifeVars
  <2>2. CASE Scheduled(c)
    <3> DEFINE k == calls[c].name
    <3>1. PICK r \in Shots :
            /\ Fresh(r)
            /\ shots' = Armed(r, k, c, 0)
            /\ metadata' = [metadata EXCEPT ![k] = [timer |-> c, shot |-> r, count |-> 0]]
      BY <2>2 DEF Scheduled
    <3>2. /\ restoring' = restoring /\ k \in Names
          /\ \A m \in Names : saved'[m] \in {saved[m], metadata'[m]}
      BY <1>11, <2>2, ScheduledCall DEF Scheduled, Persist, lifeVars
    <3>3. shots'[r].name = k
      BY <3>1, ArmedFields
    <3> HIDE DEF k
    <3>4. CASE n = k
      BY <1>1, <1>2, <1>3, <3>1, <3>2, <3>3, <3>4 DEF Takes
    <3>5. CASE n # k
      BY <1>1, <1>2, <3>1, <3>2, <3>5
    <3> QED BY <3>4, <3>5
  <2>3. CASE UNCHANGED <<metadata, saved, restoring>>
    BY <1>4, <2>3
  <2> QED BY <1>5, <2>1, <2>2, <2>3
          DEF CallStep, Cancels, Enters, Forgotten, lifeVars
<1>6. ASSUME NEW k, NEW t, NEW meta, Follows(k, t, meta) \/ Counts(k, t, meta)
      PROVE  s \in {metadata[n].shot, saved[n].shot, restoring[n].shot}
  <2>1. k \in Names /\ restoring' = restoring /\ (metadata[k].timer = meta.timer => metadata[k] = meta)
    BY <1>6 DEF Follows, Counts, Expiring, lifeVars
  <2>2. CASE Drops(k, meta)
    BY <1>1, <1>2, <1>11, <2>1, <2>2 DEF Drops, Drop
  <2>3. CASE Keeps(k, t, meta)
    <3>1. PICK new \in MetaSet :
            /\ metadata' = Updated(k, meta, new)
            /\ \A m \in Names : saved'[m] \in {saved[m], metadata'[m]}
            /\ \/ new.shot = meta.shot
               \/ new.shot \in Shots /\ Fresh(new.shot) /\ shots' = Armed(new.shot, k, t, 0)
      BY <1>11, <2>3 DEF Keeps
    <3>2. new.shot \in Shots /\ shots' = Armed(new.shot, k, t, 0) => shots'[new.shot].name = k
      BY ArmedFields DEF TypeOK
    <3>3. CASE metadata' = metadata
      BY <1>2, <2>1, <3>1, <3>3
    <3>4. CASE metadata[k] = meta /\ metadata' = [metadata EXCEPT ![k] = new]
      BY <1>1, <1>2, <1>3, <2>1, <3>1, <3>2, <3>4 DEF Takes
    <3> QED BY <2>1, <3>1, <3>3, <3>4 DEF Updated
  <2>4. CASE Counts(k, t, meta)
    <3>1. CountedMeta(meta).shot = meta.shot /\ meta # NoMeta
      BY <2>4, ExpiringMeta DEF Counts
    <3>2. CASE metadata' = metadata
      BY <1>2, <2>1, <2>4, <3>2 DEF Counts
    <3>3. CASE metadata[k] = meta /\ metadata' = [metadata EXCEPT ![k] = CountedMeta(meta)]
      BY <1>1, <1>2, <2>1, <2>4, <3>1, <3>3 DEF Counts
    <3> QED BY <2>1, <2>4, <3>2, <3>3 DEF Counts, Updated
  <2> QED BY <1>6, <2>2, <2>3, <2>4 DEF Follows
<1>7. CASE Crash
  BY <1>1, <1>2, <1>7 DEF Crash
<1>8. CASE Restart
  BY <1>2, <1>8 DEF Restart
<1>9. CASE Restored
  BY <1>2, <1>9 DEF Restored
<1>10. ASSUME NEW k \in Names, RestoreEntry(k)
       PROVE  s \in {metadata[n].shot, saved[n].shot, restoring[n].shot}
  <2>1. saved' = saved /\ restoring' = [restoring EXCEPT ![k] = NoMeta]
    BY <1>10 DEF RestoreEntry
  <2>2. CASE metadata' = metadata
    BY <1>1, <1>2, <2>1, <2>2
  <2>3. ASSUME NEW r \in Shots, Fresh(r),
               shots' = [Armed(r, k, restoring[k].timer, 0) EXCEPT ![restoring[k].shot] = Idle],
               metadata' = [metadata EXCEPT ![k] = [restoring[k] EXCEPT !.shot = r]]
        PROVE  s \in {metadata[n].shot, saved[n].shot, restoring[n].shot}
    <3>1. r # restoring[k].shot
      BY <2>3 DEF Fresh, Referred
    <3>2. shots'[r].name = k
      BY <2>3, <3>1 DEF Armed, TypeOK
    <3>3. metadata'[k].shot = r
      BY <1>1, <2>3 DEF MetaSet
    <3>4. CASE n = k
      BY <1>1, <1>2, <1>3, <2>1, <2>3, <3>2, <3>3, <3>4 DEF Takes
    <3>5. CASE n # k
      BY <1>1, <1>2, <2>1, <2>3, <3>5
    <3> QED BY <3>4, <3>5
  <2> QED BY <1>10, <2>2, <2>3 DEF RestoreEntry
<1> QED BY <1>4, <1>5, <1>6, <1>7, <1>8, <1>9, <1>10
        DEF Step, CallStep, HandleFires, EntryDue, Ends, Skips, Begins, Stop, OnExpire,
            lifeVars, vars

LEMMA NoClashStep == ASSUME TypeOK, References, NoClash, Step PROVE NoClash'
<1>1. \A n \in Names, s \in Shots : Refers(n, s)' => Refers(n, s) \/ Takes(n, s)
  BY CallRefersStep, HandlerRefersStep, MetaRefersStep DEF Refers
<1>2. \A n \in Names, s \in Shots : Takes(n, s) => ~\E m \in Names : Refers(m, s)
  BY FreshIsUnreferred DEF Takes
<1>3. \A n, m \in Names, s \in Shots : Takes(n, s) /\ Takes(m, s) => n = m
  BY DEF Takes
<1> SUFFICES ASSUME NEW n \in Names, NEW m \in Names, NEW s \in Shots,
                    Refers(n, s)', Refers(m, s)'
             PROVE  n = m
  BY DEF NoClash
<1> QED BY <1>1, <1>2, <1>3 DEF NoClash

-----------------------------------------------------------------------------
(* Durable mode: steps, name by name. *)

OnlyOf(n) == \A k \in Names \ {n} : timers'[k] = timers[k] /\ metadata'[k] = metadata[k]

\* All metadata is saved, or that is rejected.
Stores ==
    \/ (\A k \in Names : saved'[k] = metadata'[k]) /\ ~unsaved'
    \/ (\A k \in Names : saved'[k] = saved[k]) /\ unsaved'

LEMMA PersistStores == ASSUME Persist PROVE Stores
BY DEF Persist, Saves, SaveRejected, Stores

\* A call enters or removes its timer, revokes the entry of its name, or gets
\* one for its timer.
MovesTimer(c, n) ==
    /\ OnlyOf(n) /\ metadata'[n] = metadata[n] /\ UNCHANGED <<saved, unsaved, shots>>
    /\ \/ timers'[n] \in {timers[n], None}
       \/ timers'[n] = c /\ calls[c].pc \in {"idle", "resuming"}

Revokes(c, n) ==
    /\ OnlyOf(n) /\ timers'[n] = timers[n] /\ metadata'[n] = NoMeta /\ Stores
    /\ calls[c].name = n /\ shots' = Cleared(calls[c].shot)

Schedules(c, n, s) ==
    /\ OnlyOf(n) /\ timers'[n] = timers[n] /\ Stores
    /\ metadata'[n] = [timer |-> c, shot |-> s, count |-> 0]
    /\ calls[c].pc = "scheduling"
    /\ Fresh(s) /\ shots' = Armed(s, n, c, 0)

LEMMA DurableCalls ==
    ASSUME useDurable, TypeOK, References, NEW c \in Calls, CallStep(c)
    PROVE  \E n \in Names : \/ MovesTimer(c, n) \/ Revokes(c, n)
                            \/ \E s \in Shots : Schedules(c, n, s)
<1>1. timers \in [Names -> Calls \cup {None}] /\ metadata \in [Names -> MetaSet]
  BY DEF TypeOK
<1>2. ASSUME NEW call, Cancels(c, call) PROVE MovesTimer(c, call.name) /\ call.name \in Names
  <2>1. /\ call.name \in Names /\ UNCHANGED <<metadata, saved, unsaved, shots>>
        /\ timers' = timers \/ timers' = [timers EXCEPT ![call.name] = None]
    BY <1>2 DEF Cancels, CancelTimer
  <2> QED BY <1>1, <2>1 DEF MovesTimer, OnlyOf
<1>3. ASSUME NEW call, Enters(c, call) PROVE MovesTimer(c, call.name) /\ call.name \in Names
  <2>1. /\ call.name \in Names /\ UNCHANGED <<metadata, saved, unsaved, shots>>
        /\ timers' = [timers EXCEPT ![call.name] = c]
        /\ calls[c].pc \in {"idle", "resuming"}
    BY <1>3 DEF Enters, EnterTimer, NoCall
  <2> QED BY <1>1, <2>1 DEF MovesTimer, OnlyOf
<1>4. CASE Forgotten(c)
  <2>1. /\ calls[c].name \in Names /\ UNCHANGED <<metadata, saved, unsaved, shots>>
        /\ timers' = [timers EXCEPT ![calls[c].name] = None]
    BY <1>4 DEF Forgotten, References, CallsSound
  <2>2. MovesTimer(c, calls[c].name)
    BY <1>1, <2>1 DEF MovesTimer, OnlyOf
  <2> QED BY <2>1, <2>2
<1>5. CASE Revoked(c)
  <2>1. /\ calls[c].name \in Names /\ timers' = timers /\ Stores
        /\ metadata' = [metadata EXCEPT ![calls[c].name] = NoMeta]
        /\ shots' = Cleared(calls[c].shot)
    BY <1>5, PersistStores DEF Revoked, Persist, References, CallsSound
  <2>2. Revokes(c, calls[c].name)
    BY <1>1, <2>1 DEF Revokes, OnlyOf
  <2> QED BY <2>1, <2>2
<1>6. CASE Scheduled(c)
  <2> PICK n \in Names : n = calls[c].name
    BY <1>6, ScheduledCall
  <2>1. PICK s \in Shots :
          /\ Fresh(s)
          /\ shots' = Armed(s, n, c, 0)
          /\ metadata' = [metadata EXCEPT ![n] = [timer |-> c, shot |-> s, count |-> 0]]
    BY <1>6 DEF Scheduled
  <2>2. timers' = timers /\ Stores /\ calls[c].pc = "scheduling"
    BY <1>6, PersistStores DEF Scheduled, Persist
  <2>3. Schedules(c, n, s)
    BY <1>1, <2>1, <2>2 DEF Schedules, OnlyOf
  <2> QED BY <2>3
<1> QED BY <1>2, <1>3, <1>4, <1>5, <1>6 DEF CallStep

\* The follow-up of an expiry lets its name go, updates the metadata it has
\* read, or leaves other metadata alone.
LetsGo(n, meta) ==
    /\ OnlyOf(n) /\ timers'[n] = None /\ metadata'[n] = NoMeta /\ Stores
    /\ \/ shots' = shots /\ Ending = {}
       \/ shots' = Cleared(meta.shot)

Repeats(n, t, meta, new) == KindOf(t) = "repeat" /\ new.shot = meta.shot /\ shots' = shots
Rearms(n, t, new) ==
    KindOf(t) = "cron" /\ new.shot \in Shots /\ Fresh(new.shot) /\ shots' = Armed(new.shot, n, t, 0)

Updates(n, t, meta, new) ==
    /\ OnlyOf(n) /\ timers'[n] = t /\ Stores
    /\ new.timer = meta.timer /\ WithinLimit(new) /\ Ending = {}
    /\ \/ metadata[n] = meta /\ metadata'[n] = new
       \/ metadata[n].timer # meta.timer /\ metadata'[n] = metadata[n]
    /\ Repeats(n, t, meta, new) \/ Rearms(n, t, new)

LEMMA DurableFollows ==
    ASSUME TypeOK, NEW n, NEW t, NEW meta, Follows(n, t, meta)
    PROVE  LetsGo(n, meta) \/ \E new \in MetaSet : Updates(n, t, meta, new)
<1>1. /\ timers \in [Names -> Calls \cup {None}] /\ metadata \in [Names -> MetaSet]
      /\ n \in Names /\ (metadata[n].timer = meta.timer => metadata[n] = meta)
  BY DEF TypeOK, Follows, Expiring
<1>2. CASE Drops(n, meta)
  BY <1>1, <1>2, PersistStores DEF Drops, Drop, LetsGo, OnlyOf
<1>3. CASE Keeps(n, t, meta)
  <2>1. PICK new \in MetaSet :
          /\ new.timer = meta.timer /\ WithinLimit(new) /\ Ending = {}
          /\ timers' = [timers EXCEPT ![n] = t]
          /\ metadata' = Updated(n, meta, new)
          /\ Stores
          /\ Repeats(n, t, meta, new) \/ Rearms(n, t, new)
    BY <1>3, PersistStores DEF Keeps, Repeats, Rearms
  <2>2. OnlyOf(n) /\ timers'[n] = t /\ Stores
    BY <1>1, <2>1 DEF Updated, OnlyOf
  <2>3. \/ metadata[n] = meta /\ metadata'[n] = new
        \/ metadata[n].timer # meta.timer /\ metadata'[n] = metadata[n]
    BY <1>1, <2>1 DEF Updated
  <2>4. Updates(n, t, meta, new)
    BY <2>1, <2>2, <2>3 DEF Updates
  <2> QED BY <2>4
<1> QED BY <1>2, <1>3 DEF Follows

\* What an expiry that awaits the service has written.
LEMMA DurableCounts ==
    ASSUME TypeOK, NEW n, NEW t, NEW meta, Counts(n, t, meta)
    PROVE  /\ n \in Names /\ OnlyOf(n) /\ timers' = timers /\ shots' = shots
           /\ \/ metadata[n] = meta /\ metadata'[n] = CountedMeta(meta)
              \/ metadata[n].timer # meta.timer /\ metadata'[n] = metadata[n]
           /\ handlers = {} => metadata[n] = meta
BY DEF TypeOK, Counts, Expiring, OnlyOf, Updated

\* An entry of storage is discarded, or scheduled again.
Discards(n) ==
    /\ OnlyOf(n) /\ timers'[n] = timers[n] /\ metadata'[n] = metadata[n] /\ shots' = shots
    /\ shots[restoring[n].shot] = Idle

Reschedules(n, s) ==
    /\ OnlyOf(n) /\ timers'[n] = restoring[n].timer
    /\ metadata'[n] = [restoring[n] EXCEPT !.shot = s]
    /\ metadata'[n].timer = restoring[n].timer /\ metadata'[n].shot = s
    /\ shots[restoring[n].shot] # Idle
    /\ Fresh(s) /\ shots'[s].name = n /\ shots'[s].timer = restoring[n].timer
    /\ \A r \in Shots \ {s} : shots'[r] = IF r = restoring[n].shot THEN Idle ELSE shots[r]

LEMMA DurableRestores ==
    ASSUME TypeOK, Modes, References, NEW n \in Names, RestoreEntry(n)
    PROVE  /\ useDurable /\ status = "restoring" /\ ~hasCallback
           /\ fired = {} /\ metadata[n] = NoMeta
           /\ \A h \in handlers : h.name # n /\ h.phase = "counted"
           /\ restoring[n] # NoMeta /\ restoring'[n] = NoMeta
           /\ \A k \in Names \ {n} : restoring'[k] = restoring[k]
           /\ UNCHANGED <<useDurable, status, hasCallback, saved, unsaved, mailbox, handlers,
                           calls, fired, cutOff>>
           /\ Discards(n) \/ \E s \in Shots : Reschedules(n, s)
<1>1. /\ restoring[n] # NoMeta /\ restoring' = [restoring EXCEPT ![n] = NoMeta]
      /\ UNCHANGED <<useDurable, status, hasCallback, saved, unsaved, mailbox, handlers,
                      calls, fired, cutOff>>
  BY DEF RestoreEntry, historyVars
<1>2. /\ timers \in [Names -> Calls \cup {None}] /\ metadata \in [Names -> MetaSet]
      /\ restoring \in [Names -> MetaSet]
  BY DEF TypeOK
<1>3. useDurable /\ status = "restoring" /\ metadata[n] = NoMeta
      /\ ~hasCallback /\ fired = {}
      /\ \A h \in handlers : h.name # n /\ h.phase = "counted"
  BY <1>1 DEF Modes, FallbackMode, DurableMode
<1>4. restoring'[n] = NoMeta /\ \A k \in Names \ {n} : restoring'[k] = restoring[k]
  BY <1>1, <1>2
<1>5. ASSUME shots[restoring[n].shot] = Idle, UNCHANGED <<timers, metadata, shots>>
      PROVE  Discards(n)
  <2>1. OnlyOf(n)
    BY <1>5 DEF OnlyOf
  <2> QED BY <1>5, <2>1 DEF Discards
<1>6. ASSUME NEW s \in Shots, Fresh(s), shots[restoring[n].shot] # Idle,
             shots' = [Armed(s, n, restoring[n].timer, 0) EXCEPT ![restoring[n].shot] = Idle],
             timers' = [timers EXCEPT ![n] = restoring[n].timer],
             metadata' = [metadata EXCEPT ![n] = [restoring[n] EXCEPT !.shot = s]]
      PROVE  Reschedules(n, s)
  <2>1. restoring[n].shot \in Shots /\ restoring[n].shot # s
    BY <1>1, <1>6 DEF References, MetasSound, MetaSound, Fresh, Referred
  <2>2. /\ shots'[s].name = n /\ shots'[s].timer = restoring[n].timer
        /\ \A r \in Shots \ {s} : shots'[r] = IF r = restoring[n].shot THEN Idle ELSE shots[r]
    BY <1>6, <2>1 DEF Armed, TypeOK
  <2>3. metadata'[n] = [restoring[n] EXCEPT !.shot = s]
    BY <1>2, <1>6
  <2>4. metadata'[n].timer = restoring[n].timer /\ metadata'[n].shot = s
    BY <1>2, <2>3 DEF MetaSet
  <2>5. OnlyOf(n) /\ timers'[n] = restoring[n].timer
    BY <1>2, <1>6 DEF OnlyOf
  <2> QED BY <1>6, <2>2, <2>3, <2>4, <2>5 DEF Reschedules
<1> QED BY <1>1, <1>3, <1>4, <1>5, <1>6 DEF RestoreEntry

-----------------------------------------------------------------------------
(* Durable mode: limits, what was read, and one-shot timers that fired. *)

\* Metadata that a step leaves or writes keeps its limit; an expiry that awaits the
\* service goes on, is over, or is cut off.
LEMMA LimitsStep ==
    ASSUME TypeOK, References, Modes, LimitsKept, Step PROVE LimitsKept'
<1> DEFINE Fine(m) == \/ m # NoMeta /\ calls'[m.timer].limit # Unlimited
                           => m.count < calls'[m.timer].limit
                      \/ m.timer \in cutOff'
           Awaits(n, m) == \E h \in handlers' :
                             /\ h.phase = "counted" /\ KindOf(h.timer)' = "repeat"
                             /\ h.name = n /\ m = CountedMeta(h.meta)'
           Gone(m) == shots'[m.shot] = Idle
           Kept(n) == /\ Fine(metadata'[n]) \/ Awaits(n, metadata'[n])
                      /\ Fine(saved'[n]) \/ Awaits(n, saved'[n]) \/ Gone(saved'[n])
                      /\ Fine(restoring'[n]) \/ Gone(restoring'[n])
<1>1. cutOff \subseteq cutOff'
  BY ExpiryKeeps
     DEF Step, Cancels, Enters, Revoked, Forgotten, Scheduled, HandleFires, EntryDue, Ends,
         Skips, Begins, Stop, Crash, Restart, Restored, OnExpire,
         RestoreEntry, vars, historyVars
<1>2. ASSUME NEW n, NEW m, MetaSound(n, m), WithinLimit(m) \/ m.timer \in cutOff PROVE Fine(m)
  <2>1. CASE m # NoMeta
    <3> PICK t : t = m.timer
      OBVIOUS
    <3>1. LimitOf(t)' = LimitOf(t)
      BY <1>2, <2>1, CallsLast DEF Lasting, MetaSound, Noted
    <3> QED BY <1>1, <1>2, <3>1 DEF WithinLimit, LimitOf
  <2> QED BY <2>1
<1>3. ASSUME NEW n, NEW m, m # NoMeta, MetaSound(n, m), shots[m.shot] = Idle, Referred(m.shot)
      PROVE  Gone(m)
  BY <1>3, IdleStays DEF MetaSound
<1>4. \A n \in Names : \A m \in {metadata[n], saved[n], restoring[n]} :
        MetaSound(n, m) /\ Referred(m.shot)
  BY DEF References, MetasSound, Referred
<1>5. Fine(NoMeta)
  OBVIOUS
<1>6. \A n \in Names : /\ Fine(metadata[n]) \/ EndingOf(n, metadata[n])
                       /\ Fine(saved[n]) \/ EndingOf(n, saved[n]) \/ Gone(saved[n])
                       /\ Fine(restoring[n]) \/ Gone(restoring[n])
  BY <1>2, <1>3, <1>4, <1>5 DEF LimitsKept
<1>7. SUFFICES ASSUME NEW n \in Names PROVE Kept(n)
  <2>1. (\A n \in Names : Kept(n)) => LimitsKept'
    BY DEF LimitsKept, WithinLimit, EndingOf, Ending, LimitOf
  <2> QED BY <2>1
<1> HIDE DEF Fine, Gone
<1>8. CASE ~useDurable
  <2>1. metadata'[n] = NoMeta /\ saved'[n] = NoMeta /\ restoring'[n] = NoMeta
    BY <1>8, ModesStep, ModeStays DEF Modes, FallbackMode
  <2> QED BY <1>5, <2>1
<1>9. ASSUME useDurable, Ending \subseteq handlers',
             metadata'[n] = metadata[n] \/ Fine(metadata'[n]) \/ Awaits(n, metadata'[n]),
             saved'[n] \in {saved[n], metadata'[n]},
             restoring'[n] = restoring[n] \/ Fine(restoring'[n]) \/ Gone(restoring'[n])
      PROVE  Kept(n)
  <2>1. ASSUME NEW m, EndingOf(n, m) PROVE Awaits(n, m)
    <3>1. PICK h \in Ending : h.name = n /\ m = CountedMeta(h.meta)
      BY <2>1 DEF EndingOf
    <3>2. h \in handlers /\ h \in handlers' /\ h \in Ending'
      BY <1>9, CurrentStays DEF Ending
    <3>3. CountedMeta(h.meta)' = CountedMeta(h.meta)
      BY <1>9, <3>2, CurrentStays
    <3> QED BY <3>1, <3>2, <3>3 DEF Ending
  <2> HIDE DEF Awaits
  <2> QED BY <1>6, <1>9, <2>1
<1> HIDE DEF Kept
<1>10. ASSUME UNCHANGED <<metadata, saved, restoring>>, useDurable, Ending \subseteq handlers'
       PROVE  Kept(n)
  BY <1>9, <1>10
<1>11. Ending \subseteq handlers
  BY DEF Ending
<1>12. ASSUME useDurable, NEW c \in Calls, CallStep(c) PROVE Kept(n)
  <2>1. restoring' = restoring /\ Ending \subseteq handlers'
    BY <1>11, <1>12, CallsWhenUp DEF lifeVars
  <2>2. PICK k \in Names : \/ MovesTimer(c, k) \/ Revokes(c, k)
                           \/ \E s \in Shots : Schedules(c, k, s)
    BY <1>12, DurableCalls
  <2>3. saved'[n] \in {saved[n], metadata'[n]}
    BY <2>2 DEF MovesTimer, Revokes, Schedules, Stores
  <2>4. metadata'[n] = metadata[n] \/ Fine(metadata'[n])
    <3>1. ASSUME NEW s \in Shots, Schedules(c, k, s) PROVE Fine(metadata'[k])
      <4>1. calls'[c].limit \in Nat
        BY CallsLast DEF Lasting, Call
      <4>2. metadata'[k].timer = c /\ metadata'[k].count = 0
        BY <3>1 DEF Schedules
      <4> QED BY <4>1, <4>2 DEF Fine, Unlimited
    <3>2. CASE n = k
      BY <1>5, <2>2, <3>1, <3>2 DEF MovesTimer, Revokes
    <3>3. CASE n # k
      BY <2>2, <3>3 DEF MovesTimer, Revokes, Schedules, OnlyOf
    <3> QED BY <3>2, <3>3
  <2> QED BY <1>9, <1>12, <2>1, <2>3, <2>4
<1>13. ASSUME NEW k, NEW t, NEW meta, Follows(k, t, meta) PROVE Kept(n)
  <2>1. /\ useDurable /\ k \in Names /\ restoring' = restoring /\ calls' = calls
        /\ \A h \in handlers : h.name = k /\ Current(h) = meta
    BY <1>13 DEF Follows, Expiring, lifeVars
  <2>2. CASE LetsGo(k, meta)
    <3>1. /\ metadata'[n] = metadata[n] \/ Fine(metadata'[n])
          /\ saved'[n] \in {saved[n], metadata'[n]}
      BY <1>5, <2>2 DEF LetsGo, OnlyOf, Stores
    <3>2. CASE Ending = {}
      BY <1>9, <2>1, <3>1, <3>2
    <3>3. CASE n # k
      <4>1. metadata'[n] = metadata[n] /\ \A m : ~EndingOf(n, m)
        BY <2>1, <2>2, <3>3 DEF LetsGo, OnlyOf, EndingOf, Ending
      <4> QED BY <1>6, <2>1, <3>1, <4>1 DEF Kept
    <3>4. CASE n = k /\ Ending # {}
      <4>1. metadata'[n] = NoMeta /\ shots' = Cleared(meta.shot)
        BY <2>2, <3>4 DEF LetsGo
      <4>2. ASSUME EndingOf(n, saved[n]), saved[n] # NoMeta PROVE Gone(saved[n])
        <5>1. PICK h \in handlers : h.phase = "counted" /\ saved[n] = CountedMeta(h.meta)
          BY <4>2 DEF EndingOf, Ending
        <5>2. saved[n] = meta
          BY <2>1, <5>1 DEF Current
        <5>3. saved[n].shot \in Shots /\ saved[n].shot # None
          BY <1>4, <4>2 DEF MetaSound, Shots, None
        <5> QED BY <4>1, <5>2, <5>3, ClearedFields DEF Gone
      <4> QED BY <1>5, <1>6, <2>1, <3>1, <4>1, <4>2 DEF Kept
    <3> QED BY <3>2, <3>3, <3>4
  <2>3. ASSUME NEW new \in MetaSet, Updates(k, t, meta, new) PROVE Kept(n)
    <3>1. Fine(new)
      BY <2>1, <2>3 DEF Updates, WithinLimit, Fine, LimitOf
    <3>2. metadata'[n] = metadata[n] \/ Fine(metadata'[n])
      BY <2>3, <3>1 DEF Updates, OnlyOf
    <3>3. Ending = {} /\ saved'[n] \in {saved[n], metadata'[n]}
      BY <2>3 DEF Updates, Stores
    <3> QED BY <1>9, <2>1, <3>2, <3>3
  <2> QED BY <1>13, <2>2, <2>3, DurableFollows
<1>14. ASSUME NEW k, NEW t, NEW meta, Counts(k, t, meta) PROVE Kept(n)
  <2>1. /\ useDurable /\ restoring' = restoring /\ saved' = saved /\ calls' = calls
        /\ Ending = {}
    BY <1>14 DEF Counts, Expiring, lifeVars
  <2>2. k \in Names /\ meta \in MetaSet /\ meta.timer \in Calls /\ Set(meta.timer)
    BY <1>14, ExpiringMeta DEF Counts
  <2>3. ASSUME n = k, metadata'[n] = CountedMeta(meta)
        PROVE  Fine(metadata'[n]) \/ Awaits(n, metadata'[n])
    <3>1. CASE ~LimitReached(meta.count, LimitOf(meta.timer))
      <4>1. WithinLimit(CountedMeta(meta))
        BY <2>2, <3>1, CountedFields
      <4> QED BY <2>1, <2>3, <4>1 DEF WithinLimit, Fine, LimitOf
    <3>2. CASE KindOf(t) = "repeat"
      <4>1. CountedMeta(meta)' = CountedMeta(meta) /\ KindOf(t)' = "repeat"
        BY <2>1, <2>2, <3>2, CountedStays DEF KindOf
      <4>2. PICK g \in Handler : /\ handlers' = {g}
                                 /\ g.name = k /\ g.timer = t /\ g.meta = meta
                                 /\ g.phase = "counted"
        BY <1>14 DEF Counts
      <4> QED BY <2>3, <4>1, <4>2
    <3> QED BY <1>14, <3>1, <3>2 DEF Counts, Limited
  <2>4. metadata'[n] = metadata[n] \/ Fine(metadata'[n]) \/ Awaits(n, metadata'[n])
    BY <1>14, <2>3, DurableCounts DEF OnlyOf
  <2> HIDE DEF Awaits
  <2> QED BY <1>9, <2>1, <2>4
<1>15. CASE Crash
  <2>1. metadata'[n] = NoMeta /\ saved'[n] = saved[n] /\ restoring'[n] = NoMeta
    BY <1>15 DEF Crash
  <2>2. ASSUME EndingOf(n, saved[n]) PROVE Fine(saved[n])
    <3>1. PICK h \in Ending : saved[n] = CountedMeta(h.meta)
      BY <2>2 DEF EndingOf
    <3>2. useDurable /\ h \in handlers /\ cutOff' = cutOff \cup {g.meta.timer : g \in Ending}
      BY <1>15 DEF Crash, Ending
    <3>3. saved[n].timer = h.meta.timer
      BY <3>1, <3>2, CurrentStays DEF Current, Ending
    <3> QED BY <3>2, <3>3 DEF Fine
  <2> QED BY <1>5, <1>6, <2>1, <2>2 DEF Kept
<1>16. CASE Restart
  <2>1. /\ metadata'[n] = metadata[n] /\ saved'[n] = saved[n] /\ restoring'[n] = saved[n]
        /\ useDurable /\ handlers = {}
    BY <1>16 DEF Restart, Modes, FallbackMode, DurableMode
  <2>2. ~EndingOf(n, saved[n]) /\ Ending = {}
    BY <2>1 DEF EndingOf, Ending
  <2> QED BY <1>6, <1>9, <2>1, <2>2
<1>17. CASE Restored /\ useDurable
  <2>1. /\ metadata'[n] = metadata[n] /\ restoring'[n] = restoring[n] /\ handlers' = handlers
        /\ saved'[n] \in {saved[n], metadata'[n]}
    BY <1>17 DEF Restored
  <2> QED BY <1>9, <1>11, <1>17, <2>1
<1>18. ASSUME NEW k \in Names, RestoreEntry(k) PROVE Kept(n)
  <2>1. /\ useDurable /\ saved' = saved /\ handlers' = handlers
        /\ restoring'[k] = NoMeta
        /\ \A j \in Names \ {k} : restoring'[j] = restoring[j]
        /\ Discards(k) \/ \E s \in Shots : Reschedules(k, s)
    BY <1>18, DurableRestores
  <2>2. ASSUME NEW s \in Shots, Reschedules(k, s) PROVE Fine(metadata'[k])
    <3>1. restoring[k] \in MetaSet /\ restoring[k] # NoMeta
      BY <1>18 DEF TypeOK, RestoreEntry
    <3>2. metadata'[k].timer = restoring[k].timer /\ metadata'[k].count = restoring[k].count
      BY <2>2, <3>1 DEF Reschedules, MetaSet
    <3>3. WithinLimit(restoring[k]) \/ restoring[k].timer \in cutOff
      BY <2>2 DEF LimitsKept, Reschedules
    <3>4. Fine(restoring[k])
      BY <1>2, <1>4, <3>3
    <3> QED BY <3>1, <3>2, <3>4 DEF Fine
  <2>3. metadata'[n] = metadata[n] \/ Fine(metadata'[n])
    BY <2>1, <2>2 DEF Discards, Reschedules, OnlyOf
  <2>4. restoring'[n] = restoring[n] \/ Fine(restoring'[n])
    BY <1>5, <2>1
  <2> QED BY <1>9, <1>11, <2>1, <2>3, <2>4
<1>19. ASSUME NEW k, Begins(k) PROVE Kept(n)
  <2>1. Ending = {} /\ useDurable /\ UNCHANGED <<metadata, saved, restoring>>
    BY <1>19 DEF Begins, Ending, lifeVars
  <2> QED BY <1>10, <2>1
<1>20. CASE useDurable
  BY <1>10, <1>11, <1>12, <1>13, <1>14, <1>15, <1>16, <1>17, <1>18, <1>19, <1>20, DurableSteps
  DEF DurableStep, EntryDue, Skips, OnExpire, lifeVars, vars
<1> QED BY <1>8, <1>20

LEMMA ReadIsCurrentStep ==
    ASSUME useDurable, TypeOK, References, Modes, ReadIsCurrent, Step PROVE ReadIsCurrent'
<1> DEFINE Reads(h) ==
             metadata'[h.name].timer = h.meta.timer => metadata'[h.name] = Current(h)'
<1> SUFFICES ASSUME NEW h \in handlers' PROVE Reads(h)
  BY DEF ReadIsCurrent
<1>1. \A g \in handlers : /\ g.name \in Names /\ g.meta.timer \in Calls
                          /\ calls[g.meta.timer].pc \in {"done", "failed"}
                          /\ metadata[g.name].timer = g.meta.timer => metadata[g.name] = Current(g)
                          /\ Current(g)' = Current(g)
  BY CurrentStays DEF ReadIsCurrent, References, HandlersSound, MetaSound, Noted, Over, Set
<1>2. NoMeta.timer \notin Calls
  BY DEF NoMeta, None, Calls
<1>3. CASE handlers' = handlers /\ metadata' = metadata
  BY <1>1, <1>3
<1>4. CASE handlers' = {}
  BY <1>4
<1>5. ASSUME NEW c \in Calls, CallStep(c) PROVE Reads(h)
  <2>1. h \in handlers
    BY <1>5, CallsWhenUp
  <2>2. PICK n \in Names : \/ MovesTimer(c, n) \/ Revokes(c, n)
                           \/ \E s \in Shots : Schedules(c, n, s)
    BY <1>5, DurableCalls
  <2>3. CASE h.name # n
    <3>1. metadata'[h.name] = metadata[h.name]
      BY <1>1, <2>1, <2>2, <2>3 DEF MovesTimer, Revokes, Schedules, OnlyOf
    <3> QED BY <1>1, <2>1, <3>1
  <2>4. CASE h.name = n
    <3>1. \/ metadata'[n] = metadata[n] \/ metadata'[n] = NoMeta
          \/ metadata'[n].timer = c /\ calls[c].pc = "scheduling"
      <4>1. \A s : Schedules(c, n, s) => metadata'[n].timer = c /\ calls[c].pc = "scheduling"
        BY DEF Schedules
      <4>2. MovesTimer(c, n) => metadata'[n] = metadata[n]
        BY DEF MovesTimer
      <4>3. Revokes(c, n) => metadata'[n] = NoMeta
        BY DEF Revokes
      <4> QED BY <2>2, <4>1, <4>2, <4>3
    <3> QED BY <1>1, <1>2, <2>1, <2>4, <3>1
  <2> QED BY <2>3, <2>4
<1>6. ASSUME NEW n, Begins(n) PROVE Reads(h)
  <2>1. h.name = n /\ h.meta = metadata[n] /\ h.phase = "called" /\ metadata' = metadata
    BY <1>6 DEF Begins, Handled
  <2> QED BY <2>1 DEF Current
<1>7. ASSUME NEW n \in Names, RestoreEntry(n) PROVE Reads(h)
  <2>1. h \in handlers /\ h.name # n
    BY <1>7, DurableRestores
  <2>2. metadata'[h.name] = metadata[h.name]
    BY <1>1, <1>7, <2>1, DurableRestores DEF Discards, Reschedules, OnlyOf
  <2> QED BY <1>1, <2>1, <2>2
<1>8. ASSUME NEW n, NEW t, NEW meta, Counts(n, t, meta) PROVE Reads(h)
  <2>1. h.name = n /\ h.meta = meta /\ h.phase = "counted" /\ Set(meta.timer)
    BY <1>8, ExpiringMeta DEF Counts
  <2>2. CountedMeta(meta)' = CountedMeta(meta)
    BY <2>1, CountedStays
  <2>3. Current(h)' = CountedMeta(meta)
    BY <2>1, <2>2 DEF Current
  <2> QED BY <1>8, <2>1, <2>3, DurableCounts
<1> QED
  BY <1>3, <1>4, <1>5, <1>6, <1>7, <1>8, DurableSteps
  DEF DurableStep, EntryDue, Skips, Follows, Crash, Restart, Restored, OnExpire, vars

LEMMA FiredStep ==
    ASSUME useDurable, TypeOK, References, Modes, FiredIsLeaving, Step PROVE FiredIsLeaving'
<1> DEFINE Leaves(t, n) == KindOf(t) = "once" /\ timers'[n] = t => \E h \in handlers' : h.timer = t
<1>1. ASSUME NEW t \in Calls, Set(t), NEW n \in Names, Leaves(t, n)
      PROVE  KindOf(t)' = "once" /\ timers'[n] = t => \E h \in handlers' : h.timer = t
  BY <1>1, CallsLast DEF Lasting
<1>2. \A t \in fired : /\ t \in Calls /\ Set(t) /\ t # None
                       /\ calls[t].pc \in {"scheduling", "done", "failed"}
  BY DEF References, FiredSound, Over, TypeOK, Calls, None
<1>3. \A n \in Names : timers[n] # None => Entered(timers[n], n)
  BY DEF References, TimersSound
<1>4. \A t \in fired' : t \in Calls /\ Set(t)
  BY <1>2, <1>3, FiredChange DEF Entered, Set
<1>5. \A t \in fired, n \in Names :
        KindOf(t) = "once" /\ timers[n] = t => \E h \in handlers : h.timer = t
  BY DEF FiredIsLeaving
<1>6. SUFFICES ASSUME NEW t \in fired', NEW n \in Names PROVE Leaves(t, n)
  BY <1>1, <1>4, ModeStays DEF FiredIsLeaving
<1>7. CASE UNCHANGED <<timers, fired, handlers>>
  BY <1>5, <1>7
<1>8. ASSUME NEW c \in Calls, CallStep(c) PROVE Leaves(t, n)
  <2>1. fired' = fired /\ handlers' = handlers
    BY <1>8, CallsWhenUp
  <2>2. timers'[n] = timers[n] \/ timers'[n] = None
        \/ (timers'[n] = c /\ calls[c].pc \in {"idle", "resuming"})
    BY <1>8, DurableCalls DEF MovesTimer, Revokes, Schedules, OnlyOf
  <2> QED BY <1>2, <1>5, <2>1, <2>2
<1>9. ASSUME NEW k, Begins(k) PROVE Leaves(t, n)
  <2>1. /\ handlers = {} /\ fired' = fired \cup {timers[k]} /\ timers' = timers
        /\ \E h \in handlers' : h.timer = timers[k]
    BY <1>9 DEF Begins, Handled
  <2> QED BY <1>5, <2>1
<1>10. ASSUME NEW k, NEW u, NEW meta, Follows(k, u, meta) PROVE Leaves(t, n)
  <2>1. /\ fired' = fired /\ k \in Names /\ Entered(u, k)
        /\ \A h \in handlers : h.timer = u
    BY <1>10 DEF Follows, Expiring, historyVars
  <2>2. KindOf(t) = "once" /\ timers[n] = t => t = u
    BY <1>5, <2>1
  <2>3. CASE n # k
    <3>1. timers'[n] = timers[n]
      BY <1>10, <2>3, DurableFollows DEF LetsGo, Updates, OnlyOf
    <3>2. timers[n] # u
      BY <1>3, <2>1, <2>3 DEF Entered, Set, Calls, None
    <3> QED BY <2>2, <3>1, <3>2
  <2>4. CASE n = k
    <3>1. timers'[n] = None \/ (timers'[n] = u /\ KindOf(u) # "once")
      BY <1>10, <2>4, DurableFollows DEF LetsGo, Updates, Repeats, Rearms
    <3> QED BY <1>2, <2>1, <3>1
  <2> QED BY <2>3, <2>4
<1>13. ASSUME NEW k, NEW u, NEW meta, Counts(k, u, meta) PROVE Leaves(t, n)
  <2>1. /\ fired' = fired /\ timers' = timers /\ KindOf(u) # "once"
        /\ \A h \in handlers : h.timer = u
    BY <1>13 DEF Counts, Expiring, Limited, historyVars
  <2> QED BY <1>5, <2>1
<1>11. CASE fired' = {}
  BY <1>11
<1>12. ASSUME NEW k \in Names, RestoreEntry(k) PROVE fired' = {}
  BY <1>12, DurableRestores
<1> QED
  BY <1>7, <1>8, <1>9, <1>10, <1>11, <1>12, <1>13, DurableSteps
  DEF DurableStep, EntryDue, Skips, Crash, Restart, Restored, OnExpire, historyVars, vars

-----------------------------------------------------------------------------
(* Durable mode: what backs metadata. *)

\* Nothing is armed in place of what metadata refers to; only its own name
\* cancels it, and then the metadata is no longer as it was.
LEMMA MetaShotStays ==
    ASSUME useDurable, TypeOK, References, Modes, NoClash, Step,
           NEW n \in Names, metadata[n] # NoMeta, metadata'[n] = metadata[n]
    PROVE  /\ metadata[n].shot \in Shots
           /\ shots'[metadata[n].shot] = shots[metadata[n].shot] \/ EntryDue(metadata[n].shot)
<1> PICK s : s = metadata[n].shot
  OBVIOUS
<1>1. s \in Shots
  BY DEF References, MetasSound, MetaSound
<1>2. ~Fresh(s)
  BY DEF Fresh, Referred
<1>3. \A k \in Names : Refers(k, s) => k = n
  BY <1>1 DEF NoClash, Refers, MetaRefers
<1>4. SUFFICES shots'[s] = shots[s] \/ EntryDue(s)
  BY <1>1
<1>5. ASSUME NEW r \in Shots, NEW k, NEW t, Fresh(r), shots' = Armed(r, k, t, 0)
      PROVE  shots'[s] = shots[s]
  BY <1>1, <1>2, <1>5, ArmedFields
<1>6. ASSUME NEW r, r # s, shots' = Cleared(r) PROVE shots'[s] = shots[s]
  BY <1>1, <1>6, ClearedFields
<1>7. ASSUME NEW c \in Calls, CallStep(c) PROVE shots'[s] = shots[s]
  <2>1. PICK k \in Names : \/ MovesTimer(c, k) \/ Revokes(c, k)
                           \/ \E r \in Shots : Schedules(c, k, r)
    BY <1>7, DurableCalls
  <2>2. CASE Revokes(c, k)
    <3>1. calls[c].name = k /\ shots' = Cleared(calls[c].shot) /\ metadata'[k] = NoMeta
      BY <2>2 DEF Revokes
    <3>2. calls[c].shot # s
      BY <1>3, <3>1 DEF Refers, CallRefers
    <3> QED BY <1>6, <3>1, <3>2
  <2>3. MovesTimer(c, k) => shots' = shots
    BY DEF MovesTimer
  <2>4. ASSUME NEW r \in Shots, Schedules(c, k, r) PROVE shots'[s] = shots[s]
    BY <1>5, <2>4 DEF Schedules
  <2> QED BY <2>1, <2>2, <2>3, <2>4
<1>8. ASSUME NEW k, NEW t, NEW meta, Follows(k, t, meta) PROVE shots'[s] = shots[s]
  <2>1. CASE LetsGo(k, meta)
    <3>1. metadata'[k] = NoMeta /\ k \in Names
      BY <1>8, <2>1 DEF Follows, Expiring, LetsGo
    <3>2. HandlerRefers(k, meta.shot) \/ MetaRefers(k, meta.shot)
      BY <1>8 DEF Follows, Expiring, HandlerRefers, MetaRefers
    <3>3. meta.shot # s
      BY <1>3, <3>1, <3>2 DEF Refers
    <3> QED BY <1>6, <2>1, <3>3 DEF LetsGo
  <2>2. ASSUME NEW new \in MetaSet, Updates(k, t, meta, new) PROVE shots'[s] = shots[s]
    <3>1. Repeats(k, t, meta, new) => shots' = shots
      BY DEF Repeats
    <3>2. Rearms(k, t, new) => shots'[s] = shots[s]
      BY <1>5 DEF Rearms
    <3> QED BY <2>2, <3>1, <3>2 DEF Updates
  <2> QED BY <1>8, <2>1, <2>2, DurableFollows
<1>9. ASSUME NEW k \in Names, RestoreEntry(k) PROVE shots'[s] = shots[s]
  <2>1. metadata[k] = NoMeta /\ (Discards(k) \/ \E r \in Shots : Reschedules(k, r))
    BY <1>9, DurableRestores
  <2>2. restoring[k].shot # s
    BY <1>3, <2>1 DEF Refers, MetaRefers
  <2>3. Discards(k) => shots' = shots
    BY DEF Discards
  <2>4. ASSUME NEW r \in Shots, Reschedules(k, r) PROVE shots'[s] = shots[s]
    BY <1>1, <1>2, <2>2, <2>4 DEF Reschedules
  <2> QED BY <2>1, <2>3, <2>4
<1>10. ASSUME NEW r \in Shots, EntryDue(r) PROVE shots'[s] = shots[s] \/ r = s
  <2>1. shots' = shots \/ shots' = Cleared(r)
    BY <1>10 DEF EntryDue
  <2> QED BY <1>6, <2>1
<1>11. CASE Crash
  BY <1>11 DEF Crash
<1>12. shots' = shots => shots'[s] = shots[s]
  OBVIOUS
<1> QED
  BY <1>7, <1>8, <1>9, <1>10, <1>11, <1>12, DurableSteps
  DEF DurableStep, Skips, Begins, Counts, Restart, Restored, OnExpire, vars

\* The receiver takes the message of a name.
TakesMessage(n) ==
    handlers = {} /\ mailbox # <<>> /\ n = Head(mailbox) /\ mailbox' = Tail(mailbox)

LEMMA MailboxStays ==
    ASSUME useDurable, TypeOK, References, Modes, Step, NEW n \in Names, InMailbox(n)
    PROVE  InMailbox(n)' \/ TakesMessage(n) \/ Crash
<1>1. PICK i \in 1 .. Len(mailbox) : mailbox[i] = n
  BY DEF InMailbox
<1>2. mailbox \in Seq(Names) /\ i \in Nat /\ 1 <= i /\ i <= Len(mailbox) /\ Len(mailbox) \in Nat
  BY DEF TypeOK
<1>3. ASSUME mailbox' = mailbox PROVE InMailbox(n)'
  BY <1>3 DEF InMailbox
<1>4. ASSUME NEW x \in Names, mailbox' = Append(mailbox, x) PROVE InMailbox(n)'
  <2>1. i \in 1 .. Len(mailbox') /\ mailbox'[i] = n
    BY <1>1, <1>2, <1>4
  <2> QED BY <2>1 DEF InMailbox
<1>5. ASSUME mailbox # <<>>, mailbox' = Tail(mailbox), n # Head(mailbox) PROVE InMailbox(n)'
  <2>1. i # 1
    BY <1>1, <1>2, <1>5
  <2>2. i - 1 \in 1 .. Len(mailbox') /\ mailbox'[i - 1] = n
    BY <1>1, <1>2, <1>5, <2>1
  <2> QED BY <2>2 DEF InMailbox
<1>6. ASSUME NEW s \in Shots, EntryDue(s) PROVE InMailbox(n)'
  <2>1. shots[s].name \in Names /\ mailbox' = Append(mailbox, shots[s].name)
    BY <1>6 DEF EntryDue, References, ShotsSound
  <2> QED BY <1>4, <2>1
<1>7. ASSUME NEW k, NEW t, NEW meta, Follows(k, t, meta) \/ Counts(k, t, meta)
      PROVE  InMailbox(n)' \/ TakesMessage(n)
  BY <1>3, <1>5, <1>7 DEF Follows, Counts, Expiring, TakesMessage
<1>8. ASSUME Skips \/ \E k : Begins(k) PROVE InMailbox(n)' \/ TakesMessage(n)
  BY <1>5, <1>8 DEF Skips, Begins, TakesMessage
<1>9. ASSUME NEW c \in Calls, CallStep(c) PROVE InMailbox(n)'
  BY <1>3, <1>9, CallsWhenUp
<1> QED
  BY <1>3, <1>6, <1>7, <1>8, <1>9, DurableSteps
  DEF DurableStep, Restart, Restored, OnExpire, RestoreEntry, vars

LEMMA BackedStays ==
    ASSUME useDurable, TypeOK, References, Modes, NoClash, Step, NEW n \in Names,
           metadata[n] # NoMeta, metadata'[n] = metadata[n], Backed(n)
    PROVE  Backed(n)' \/ TakesMessage(n)
<1> PICK s : s = metadata[n].shot
  OBVIOUS
<1>1. s \in Shots /\ (shots'[s] = shots[s] \/ EntryDue(s))
  BY MetaShotStays
<1>2. ~Crash
  BY DEF Crash
<1>3. CASE InMailbox(n)
  BY <1>2, <1>3, MailboxStays DEF Backed
<1>4. CASE shots[s].name = n /\ shots'[s] = shots[s]
  BY <1>4 DEF Backed
<1>5. CASE shots[s].name = n /\ EntryDue(s)
  <2>1. mailbox' = Append(mailbox, n) /\ mailbox \in Seq(Names)
    BY <1>5 DEF EntryDue, TypeOK
  <2>2. Len(mailbox) + 1 \in 1 .. Len(mailbox') /\ mailbox'[Len(mailbox) + 1] = n
    BY <2>1
  <2> QED BY <2>2 DEF Backed, InMailbox
<1> QED BY <1>1, <1>3, <1>4, <1>5 DEF Backed

\* What MetadataBacked says of a name.
BackedOrBusy(n) ==
    \/ Backed(n)
    \/ timers[n] # metadata[n].timer /\ ~Handling(n)
    \/ \E h \in handlers : h.name = n /\ Current(h) = metadata[n]

\* A step that leaves the metadata of a name, its expiries and the mailbox, and
\* enters no timer that the metadata is of.
LEMMA BackedOrBusyStays ==
    ASSUME useDurable, TypeOK, References, Modes, NoClash, Step, NEW n \in Names,
           metadata[n] # NoMeta, metadata'[n] = metadata[n], BackedOrBusy(n),
           handlers' = handlers, ~TakesMessage(n),
           timers'[n] = timers[n] \/ timers'[n] # metadata[n].timer
    PROVE  BackedOrBusy(n)'
<1>1. CASE Backed(n)
  BY <1>1, BackedStays DEF BackedOrBusy
<1>2. CASE timers[n] # metadata[n].timer /\ ~Handling(n)
  BY <1>2 DEF BackedOrBusy, Handling
<1>3. CASE \E h \in handlers : h.name = n /\ Current(h) = metadata[n]
  BY <1>3, CurrentStays DEF BackedOrBusy
<1> QED BY <1>1, <1>2, <1>3 DEF BackedOrBusy

LEMMA TakenShortens == ASSUME TypeOK, mailbox # <<>> PROVE Tail(mailbox) # mailbox
<1>1. ASSUME NEW q \in Seq(Names), q # <<>> PROVE Len(Tail(q)) # Len(q)
  <2>1. PICK m \in Nat : m = Len(q) /\ m # 0
    BY <1>1
  <2>2. Len(Tail(q)) = m - 1
    BY <1>1, <2>1
  <2> QED BY <2>1, <2>2
<1>2. mailbox \in Seq(Names)
  BY DEF TypeOK
<1>3. Len(Tail(mailbox)) # Len(mailbox)
  BY <1>1, <1>2
<1> QED BY <1>3, Zenon

LEMMA BackedFollows ==
    ASSUME useDurable, TypeOK, References, Modes, NoClash, MetadataBacked, RepeatArmed, Step,
           NEW k, NEW t, NEW meta, Follows(k, t, meta),
           NEW n \in Names, metadata'[n] # NoMeta
    PROVE  BackedOrBusy(n)'
<1>1. /\ k \in Names /\ handlers' = {}
      /\ \A h \in handlers : h.name = k /\ h.timer = t /\ Current(h) = meta
      /\ handlers = {} => k = Head(mailbox) /\ timers[k] = t /\ metadata[k] = meta
  BY DEF Follows, Expiring
<1>2. metadata[n] # NoMeta => BackedOrBusy(n)
  BY DEF MetadataBacked, BackedOrBusy
<1>3. ~Handling(n)'
  BY <1>1 DEF Handling
<1>4. CASE n # k
  <2>1. metadata'[n] = metadata[n] /\ timers'[n] = timers[n]
    BY <1>4, DurableFollows DEF LetsGo, Updates, OnlyOf
  <2>2. CASE Backed(n)
    BY <1>1, <1>4, <2>1, <2>2, BackedStays DEF TakesMessage, BackedOrBusy
  <2>3. CASE ~Backed(n)
    BY <1>1, <1>2, <1>3, <1>4, <2>1, <2>3 DEF BackedOrBusy
  <2> QED BY <2>2, <2>3
<1>5. CASE n = k /\ metadata[n].timer # meta.timer /\ metadata'[n] = metadata[n]
  <2>1. handlers # {} /\ Handling(n)
    BY <1>1, <1>5 DEF Handling
  <2>2. Backed(n)
    BY <1>1, <1>2, <1>5, <2>1 DEF BackedOrBusy
  <2> QED BY <1>5, <2>1, <2>2, BackedStays DEF TakesMessage, BackedOrBusy
<1>6. ASSUME NEW new, n = k, metadata[n] = meta, metadata'[n] = new, Rearms(n, t, new)
      PROVE  BackedOrBusy(n)'
  <2>1. shots'[new.shot].name = n
    BY <1>6, ArmedFields DEF Rearms
  <2> QED BY <1>6, <2>1 DEF BackedOrBusy, Backed
<1>7. ASSUME NEW new, n = k, metadata[n] = meta, metadata'[n] = new, new.timer = meta.timer,
             timers'[n] = t, Repeats(n, t, meta, new)
      PROVE  BackedOrBusy(n)'
  <2>1. CASE t = meta.timer
    <3>1. KindOf(metadata[n].timer) = "repeat" /\ meta # NoMeta
      BY <1>7, <2>1 DEF Repeats, Follows, Expiring
    <3>2. timers[n] = metadata[n].timer \/ \E h \in handlers : h.name = n /\ h.timer = metadata[n].timer
      BY <1>1, <1>7, <2>1
    <3>3. shots[meta.shot].name = n
      BY <1>7, <3>1, <3>2 DEF RepeatArmed
    <3> QED BY <1>7, <3>3 DEF Repeats, BackedOrBusy, Backed
  <2>2. CASE t # meta.timer
    BY <1>3, <1>7, <2>2 DEF BackedOrBusy
  <2> QED BY <2>1, <2>2
<1>8. CASE n = k /\ LetsGo(k, meta)
  BY <1>8 DEF LetsGo
<1>9. ASSUME n = k, NEW new \in MetaSet, Updates(k, t, meta, new) PROVE BackedOrBusy(n)'
  BY <1>5, <1>6, <1>7, <1>9 DEF Updates
<1> QED BY <1>4, <1>8, <1>9, DurableFollows

LEMMA BackedCounts ==
    ASSUME useDurable, TypeOK, References, Modes, NoClash, MetadataBacked, Step,
           NEW k, NEW t, NEW meta, Counts(k, t, meta),
           NEW n \in Names, metadata'[n] # NoMeta
    PROVE  BackedOrBusy(n)'
<1>1. /\ k \in Names
      /\ \A h \in handlers : h.name = k /\ Current(h) = meta /\ Current(h).timer = meta.timer
      /\ handlers = {} => k = Head(mailbox) /\ metadata[k] = meta
  BY DEF Counts, Expiring
<1>2. PICK g \in Handler :
        /\ handlers' = {g}
        /\ g.name = k /\ g.timer = t /\ g.meta = meta /\ g.phase = "counted"
  BY DEF Counts
<1>3. metadata[n] # NoMeta => BackedOrBusy(n)
  BY DEF MetadataBacked, BackedOrBusy
<1>4. CASE n # k
  <2>1. metadata'[n] = metadata[n] /\ timers'[n] = timers[n] /\ ~Handling(n)'
    BY <1>2, <1>4, DurableCounts DEF OnlyOf, Handling
  <2>2. CASE Backed(n)
    BY <1>1, <1>4, <2>1, <2>2, BackedStays DEF TakesMessage, BackedOrBusy
  <2>3. CASE ~Backed(n)
    BY <1>1, <1>3, <1>4, <2>1, <2>3 DEF BackedOrBusy
  <2> QED BY <2>2, <2>3
<1>5. CASE n = k /\ metadata'[n] = CountedMeta(meta)
  <2>1. CountedMeta(meta)' = CountedMeta(meta)
    BY ExpiringMeta, CountedStays DEF Counts
  <2>2. Current(g)' = metadata'[n]
    BY <1>2, <1>5, <2>1 DEF Current
  <2> QED BY <1>2, <1>5, <2>2 DEF BackedOrBusy
<1>6. CASE n = k /\ metadata[n].timer # meta.timer /\ metadata'[n] = metadata[n]
  <2>1. handlers # {} /\ Handling(n)
    BY <1>1, <1>6 DEF Handling
  <2>2. Backed(n)
    BY <1>1, <1>3, <1>6, <2>1 DEF BackedOrBusy
  <2> QED BY <1>6, <2>1, <2>2, BackedStays DEF TakesMessage, BackedOrBusy
<1> QED BY <1>4, <1>5, <1>6, DurableCounts

LEMMA MetadataBackedStep ==
    ASSUME useDurable, TypeOK, References, Modes, NoClash, MetadataBacked, RepeatArmed, Step
    PROVE  MetadataBacked'
<1> SUFFICES ASSUME NEW n \in Names, metadata'[n] # NoMeta PROVE BackedOrBusy(n)'
  BY DEF MetadataBacked, BackedOrBusy
<1>1. metadata[n] # NoMeta => BackedOrBusy(n)
  BY DEF MetadataBacked, BackedOrBusy
<1>2. metadata[n] # NoMeta =>
        /\ metadata[n].timer \in Calls /\ metadata[n].timer # None
        /\ calls[metadata[n].timer].pc \in {"done", "failed"}
  BY DEF References, MetasSound, MetaSound, Noted, Over, Set, Calls, None
<1>3. ASSUME handlers' = handlers, metadata'[n] = metadata[n], ~TakesMessage(n),
             timers'[n] = timers[n] \/ timers'[n] # metadata[n].timer
      PROVE  BackedOrBusy(n)'
  BY <1>1, <1>3, BackedOrBusyStays
<1>4. mailbox' = mailbox => ~TakesMessage(n)
  BY TakenShortens DEF TakesMessage
<1>5. ASSUME NEW c \in Calls, CallStep(c) PROVE BackedOrBusy(n)'
  <2>1. handlers' = handlers /\ ~TakesMessage(n)
    BY <1>4, <1>5, CallsWhenUp
  <2>2. PICK k \in Names : \/ MovesTimer(c, k) \/ Revokes(c, k)
                           \/ \E s \in Shots : Schedules(c, k, s)
    BY <1>5, DurableCalls
  <2>3. CASE n # k
    <3>1. metadata'[n] = metadata[n] /\ timers'[n] = timers[n]
      BY <2>2, <2>3 DEF MovesTimer, Revokes, Schedules, OnlyOf
    <3> QED BY <1>3, <2>1, <3>1
  <2>4. CASE n = k /\ MovesTimer(c, k)
    <3>1. /\ metadata'[n] = metadata[n]
          /\ timers'[n] \in {timers[n], None} \/ calls[timers'[n]].pc \in {"idle", "resuming"}
      BY <2>4 DEF MovesTimer
    <3> QED BY <1>2, <1>3, <2>1, <3>1
  <2>5. CASE n = k /\ Revokes(c, k)
    BY <2>5 DEF Revokes
  <2>6. ASSUME n = k, NEW s \in Shots, Schedules(c, k, s) PROVE BackedOrBusy(n)'
    <3>1. metadata'[n].shot = s
      BY <2>6 DEF Schedules
    <3>2. shots'[s].name = n
      BY <2>6, ArmedFields DEF Schedules
    <3> QED BY <3>1, <3>2 DEF BackedOrBusy, Backed
  <2> QED BY <2>2, <2>3, <2>4, <2>5, <2>6
<1>6. ASSUME NEW s \in Shots, EntryDue(s) PROVE BackedOrBusy(n)'
  <2>1. shots[s].name \in Names /\ mailbox' = Append(mailbox, shots[s].name)
        /\ mailbox \in Seq(Names)
    BY <1>6 DEF EntryDue, References, ShotsSound, TypeOK
  <2>2. Len(mailbox') = Len(mailbox) + 1 /\ Len(mailbox) \in Nat
    BY <2>1
  <2>3. mailbox # <<>> => Len(Tail(mailbox)) = Len(mailbox) - 1
    BY <2>1
  <2>4. ~TakesMessage(n)
    BY <2>2, <2>3 DEF TakesMessage
  <2> QED BY <1>3, <1>6, <2>4 DEF EntryDue
<1>7. CASE Skips
  <2>1. /\ UNCHANGED <<timers, metadata, handlers>> /\ handlers = {}
        /\ TakesMessage(n) => timers[n] = None \/ metadata[n] = NoMeta
    BY <1>7 DEF Skips, TakesMessage
  <2>2. CASE TakesMessage(n)
    BY <1>2, <2>1, <2>2 DEF BackedOrBusy, Handling
  <2> QED BY <1>3, <2>1, <2>2
<1>8. ASSUME NEW k, Begins(k) PROVE BackedOrBusy(n)'
  <2> PICK h : h = Handled(k, timers[k], metadata[k])
    OBVIOUS
  <2>1. /\ UNCHANGED <<timers, metadata>> /\ handlers = {} /\ handlers' = {h}
        /\ h.name = k /\ Current(h)' = metadata'[k]
        /\ TakesMessage(n) => n = k
    BY <1>8 DEF Begins, Handled, Current, TakesMessage
  <2>2. CASE n = k
    BY <2>1, <2>2 DEF BackedOrBusy
  <2>3. CASE n # k
    BY <1>1, <2>1, <2>3, BackedStays DEF BackedOrBusy, Handling
  <2> QED BY <2>2, <2>3
<1>9. ASSUME NEW k \in Names, RestoreEntry(k) PROVE BackedOrBusy(n)'
  <2>1. /\ handlers' = handlers /\ ~TakesMessage(n) /\ metadata[k] = NoMeta
        /\ Discards(k) \/ \E s \in Shots : Reschedules(k, s)
    BY <1>4, <1>9, DurableRestores
  <2>2. CASE n # k
    <3>1. metadata'[n] = metadata[n] /\ timers'[n] = timers[n]
      BY <2>1, <2>2 DEF Discards, Reschedules, OnlyOf
    <3> QED BY <1>3, <2>1, <3>1
  <2>3. CASE n = k
    BY <2>1, <2>3 DEF Discards, Reschedules, BackedOrBusy, Backed
  <2> QED BY <2>2, <2>3
<1>10. CASE Crash
  BY <1>10 DEF Crash
<1>11. CASE UNCHANGED <<timers, metadata, mailbox, handlers>>
  BY <1>3, <1>4, <1>11
<1> QED
  BY <1>5, <1>6, <1>7, <1>8, <1>9, <1>10, <1>11, BackedFollows, BackedCounts, DurableSteps
  DEF DurableStep, Restart, Restored, OnExpire, vars

\* What RepeatArmed says of a name.
InUse(n, t) == timers[n] = t \/ \E h \in handlers : h.name = n /\ h.timer = t
Held(n) ==
    /\ shots[metadata[n].shot].name = n
    /\ shots[metadata[n].shot].timer = metadata[n].timer

LEMMA RepeatStays ==
    ASSUME useDurable, TypeOK, References, Modes, NoClash, RepeatArmed, Step,
           NEW n \in Names, metadata'[n] # NoMeta, metadata'[n] = metadata[n],
           NEW t, t = metadata[n].timer, KindOf(t) = "repeat", InUse(n, t)
    PROVE  Held(n)'
<1> PICK s : s = metadata[n].shot
  OBVIOUS
<1>1. shots[s].name = n /\ shots[s].timer = t
  BY DEF RepeatArmed, InUse
<1>2. s \in Shots /\ (shots'[s] = shots[s] \/ EntryDue(s))
  BY MetaShotStays
<1>3. EntryDue(s) => shots' = shots
  BY <1>1 DEF EntryDue
<1> QED BY <1>1, <1>2, <1>3 DEF Held

LEMMA RepeatArmedStep ==
    ASSUME useDurable, TypeOK, References, Modes, NoClash, RepeatArmed, Step
    PROVE  RepeatArmed'
<1> SUFFICES ASSUME NEW n \in Names, metadata'[n] # NoMeta,
                    NEW t, t = metadata'[n].timer, KindOf(t)' = "repeat", InUse(n, t)'
             PROVE  Held(n)'
  BY DEF RepeatArmed, InUse, Held, KindOf
<1>1. t \in Calls /\ Set(t)'
  BY ReferencesStep DEF References, MetasSound, MetaSound, Noted, Set
<1>2. metadata[n] # NoMeta => Noted(metadata[n].timer, n)
  BY DEF References, MetasSound, MetaSound
<1>3. metadata'[n] = metadata[n] => KindOf(t) = "repeat" /\ calls[t].pc \in {"done", "failed"} /\ t # None
  <2>1. metadata'[n] = metadata[n] => Noted(t, n)
    BY <1>2
  <2>2. Noted(t, n) => KindOf(t) = KindOf(t)'
    BY CallsLast DEF Lasting, Noted
  <2> QED BY <1>1, <2>1, <2>2 DEF Noted, Over, Calls, None
<1>4. ASSUME metadata'[n] = metadata[n], InUse(n, t) PROVE Held(n)'
  BY <1>3, <1>4, RepeatStays
<1>5. ASSUME metadata'[n] = metadata[n], handlers' = handlers, timers'[n] = timers[n]
      PROVE  Held(n)'
  BY <1>4, <1>5 DEF InUse
<1>6. ASSUME NEW c \in Calls, CallStep(c) PROVE Held(n)'
  <2>1. handlers' = handlers
    BY <1>6, CallsWhenUp
  <2>2. PICK k \in Names : \/ MovesTimer(c, k) \/ Revokes(c, k)
                           \/ \E s \in Shots : Schedules(c, k, s)
    BY <1>6, DurableCalls
  <2>3. CASE n # k
    <3>1. metadata'[n] = metadata[n] /\ timers'[n] = timers[n]
      BY <2>2, <2>3 DEF MovesTimer, Revokes, Schedules, OnlyOf
    <3> QED BY <1>5, <2>1, <3>1
  <2>4. CASE n = k /\ MovesTimer(c, k)
    <3>1. /\ metadata'[n] = metadata[n]
          /\ timers'[n] \in {timers[n], None} \/ calls[timers'[n]].pc \in {"idle", "resuming"}
      BY <2>4 DEF MovesTimer
    <3>2. timers'[n] = timers[n] \/ timers'[n] # t
      BY <1>3, <3>1
    <3> QED BY <1>4, <2>1, <3>1, <3>2 DEF InUse
  <2>5. CASE n = k /\ Revokes(c, k)
    BY <2>5 DEF Revokes
  <2>6. ASSUME n = k, NEW s \in Shots, Schedules(c, k, s)
        PROVE  Held(n)'
    <3>1. metadata'[n].shot = s /\ t = c
      BY <2>6 DEF Schedules
    <3>2. shots'[s].name = n /\ shots'[s].timer = c
      BY <2>6, ArmedFields DEF Schedules
    <3> QED BY <3>1, <3>2 DEF Held
  <2> QED BY <2>2, <2>3, <2>4, <2>5, <2>6
<1>7. ASSUME NEW k, Begins(k) PROVE Held(n)'
  <2> PICK h : h = Handled(k, timers[k], metadata[k])
    OBVIOUS
  <2>1. /\ UNCHANGED <<timers, metadata>> /\ handlers' = {h} /\ h.name = k /\ h.timer = timers[k]
    BY <1>7 DEF Begins, Handled
  <2>2. InUse(n, t)
    BY <2>1 DEF InUse
  <2> QED BY <1>4, <2>1, <2>2
<1>8. ASSUME NEW k, NEW u, NEW meta, Follows(k, u, meta) PROVE Held(n)'
  <2>1. /\ k \in Names /\ handlers' = {} /\ calls' = calls /\ meta # NoMeta
        /\ \A h \in handlers : h.name = k /\ h.timer = u
        /\ handlers = {} => timers[k] = u /\ metadata[k] = meta
    BY <1>8 DEF Follows, Expiring, lifeVars
  <2>2. timers'[n] = t
    BY <2>1 DEF InUse
  <2>3. CASE n # k
    <3>1. metadata'[n] = metadata[n] /\ timers'[n] = timers[n]
      BY <1>8, <2>3, DurableFollows DEF LetsGo, Updates, OnlyOf
    <3> QED BY <1>4, <2>2, <3>1 DEF InUse
  <2>4. CASE n = k /\ LetsGo(k, meta)
    BY <2>4 DEF LetsGo
  <2>5. ASSUME n = k, NEW new \in MetaSet, Updates(k, u, meta, new)
        PROVE  Held(n)'
    <3>1. u = t /\ InUse(n, t)
      BY <2>1, <2>2, <2>5 DEF Updates, InUse
    <3>2. ~Rearms(k, u, new)
      BY <2>1, <3>1 DEF Rearms, KindOf
    <3>3. CASE metadata'[n] = metadata[n]
      BY <1>4, <3>1, <3>3
    <3>4. CASE metadata[n] = meta /\ metadata'[n] = new
      <4>1. meta.timer = t /\ new.shot = meta.shot /\ shots' = shots /\ KindOf(t) = "repeat"
        BY <2>5, <3>1, <3>2, <3>4 DEF Updates, Repeats
      <4>2. shots[meta.shot].name = n /\ shots[meta.shot].timer = t
        BY <2>1, <3>1, <3>4, <4>1 DEF RepeatArmed, InUse
      <4> QED BY <3>4, <4>1, <4>2 DEF Held
    <3> QED BY <2>5, <3>3, <3>4 DEF Updates
  <2> QED BY <1>8, <2>3, <2>4, <2>5, DurableFollows
<1>12. ASSUME NEW k, NEW u, NEW meta, Counts(k, u, meta) PROVE Held(n)'
  <2>1. /\ \A h \in handlers : h.name = k /\ h.timer = u
        /\ handlers = {} => timers[k] = u
        /\ \A h \in handlers' : h.name = k /\ h.timer = u
        /\ timers' = timers /\ shots' = shots /\ calls' = calls
    BY <1>12 DEF Counts, Expiring
  <2>2. InUse(n, t)
    BY <2>1 DEF InUse
  <2>3. CASE n = k /\ metadata[n] = meta /\ metadata'[n] = CountedMeta(meta)
    <3>1. meta # NoMeta /\ t = meta.timer /\ metadata'[n].shot = meta.shot
      BY <1>12, <2>3, ExpiringMeta DEF Counts
    <3>2. shots[meta.shot].name = n /\ shots[meta.shot].timer = t
      BY <2>1, <2>2, <2>3, <3>1 DEF RepeatArmed, InUse, KindOf
    <3> QED BY <2>1, <3>1, <3>2 DEF Held
  <2>4. CASE metadata'[n] = metadata[n]
    BY <1>4, <2>2, <2>4
  <2> QED BY <1>12, <2>3, <2>4, DurableCounts DEF OnlyOf
<1>9. ASSUME NEW k \in Names, RestoreEntry(k) PROVE Held(n)'
  <2>1. /\ handlers' = handlers /\ metadata[k] = NoMeta
        /\ Discards(k) \/ \E s \in Shots : Reschedules(k, s)
    BY <1>9, DurableRestores
  <2>2. CASE n # k
    <3>1. metadata'[n] = metadata[n] /\ timers'[n] = timers[n]
      BY <2>1, <2>2 DEF Discards, Reschedules, OnlyOf
    <3> QED BY <1>5, <2>1, <3>1
  <2>3. CASE n = k
    BY <2>1, <2>3 DEF Discards, Reschedules, Held
  <2> QED BY <2>2, <2>3
<1>10. CASE Crash
  BY <1>10 DEF Crash
<1>11. CASE UNCHANGED <<timers, metadata, handlers>>
  BY <1>5, <1>11
<1> QED
  BY <1>6, <1>7, <1>8, <1>9, <1>10, <1>11, <1>12, DurableSteps
  DEF DurableStep, EntryDue, Skips, Restart, Restored, OnExpire, vars

-----------------------------------------------------------------------------
(* Durable mode: storage. *)

LEMMA StorageStep ==
    ASSUME useDurable, TypeOK, References, Modes, StorageFollows, Step
    PROVE  StorageFollows'
<1> DEFINE Waits(n) == \E h \in handlers' :
             /\ h.name = n /\ h.phase = "counted"
             /\ saved'[n] = h.meta /\ metadata'[n] = CountedMeta(h.meta)'
           Safe(n) == ~unsaved' =>
             /\ status' = "up" /\ metadata'[n] # NoMeta => saved'[n] = metadata'[n] \/ Waits(n)
             /\ /\ status' \in {"up", "restoring"}
                /\ metadata'[n] = NoMeta /\ restoring'[n] = NoMeta /\ saved'[n] # NoMeta
                => shots'[saved'[n].shot] = Idle
<1> SUFFICES ASSUME NEW n \in Names PROVE Safe(n)
  BY DEF StorageFollows, Awaited
<1>1. ~unsaved =>
      /\ status = "up" /\ metadata[n] # NoMeta => saved[n] = metadata[n] \/ Awaited(n)
      /\ /\ status \in {"up", "restoring"}
         /\ metadata[n] = NoMeta /\ restoring[n] = NoMeta /\ saved[n] # NoMeta
         => shots[saved[n].shot] = Idle
  BY DEF StorageFollows
<1>2. saved[n] # NoMeta /\ shots[saved[n].shot] = Idle => shots'[saved[n].shot] = Idle
  <2>1. saved[n] # NoMeta => saved[n].shot \in Shots
    BY DEF References, MetasSound, MetaSound
  <2>2. saved[n] # NoMeta => Referred(saved[n].shot)
    BY DEF Referred
  <2> QED BY <2>1, <2>2, IdleStays
<1>3. Stores => Safe(n)
  BY DEF Stores
<1>4. ASSUME metadata'[n] = metadata[n], saved'[n] = saved[n], restoring'[n] = restoring[n],
             status' = status, unsaved' = unsaved,
             \A h \in handlers : h.phase = "counted" => h \in handlers'
      PROVE  Safe(n)
  <2>1. Awaited(n) => Waits(n)
    BY <1>4, CurrentStays DEF Awaited
  <2> HIDE DEF Waits
  <2> QED BY <1>1, <1>2, <1>4, <2>1
<1> HIDE DEF Waits
<1>5. ASSUME NEW c \in Calls, CallStep(c) PROVE Safe(n)
  <2>1. status' = status /\ restoring' = restoring /\ handlers' = handlers
    BY <1>5, CallsWhenUp DEF lifeVars
  <2>2. PICK k \in Names : \/ MovesTimer(c, k) \/ Revokes(c, k)
                           \/ \E s \in Shots : Schedules(c, k, s)
    BY <1>5, DurableCalls
  <2>3. CASE MovesTimer(c, k)
    BY <1>4, <2>1, <2>3 DEF MovesTimer, OnlyOf
  <2> QED BY <1>3, <2>2, <2>3 DEF Revokes, Schedules
<1>6. ASSUME NEW k, NEW t, NEW meta, Follows(k, t, meta) PROVE Safe(n)
  BY <1>3, <1>6, DurableFollows DEF LetsGo, Updates
<1>13. ASSUME NEW k, NEW t, NEW meta, Counts(k, t, meta) PROVE Safe(n)
  <2>1. /\ \A h \in handlers : h.phase # "counted"
        /\ UNCHANGED <<status, restoring, saved, unsaved, shots>>
    BY <1>13 DEF Counts, Expiring, lifeVars
  <2>2. CASE metadata'[n] = metadata[n]
    BY <1>4, <2>1, <2>2
  <2>3. CASE n = k /\ metadata[n] = meta /\ metadata'[n] = CountedMeta(meta)
    <3>1. meta # NoMeta /\ CountedMeta(meta) # NoMeta /\ CountedMeta(meta)' = CountedMeta(meta)
      BY <1>13, ExpiringMeta, CountedStays DEF Counts
    <3>2. ~Awaited(n)
      BY <2>1 DEF Awaited
    <3>3. PICK g \in Handler : /\ handlers' = {g}
                               /\ g.name = k /\ g.meta = meta /\ g.phase = "counted"
      BY <1>13 DEF Counts
    <3>4. saved[n] = meta => Waits(n)
      BY <2>1, <2>3, <3>1, <3>3 DEF Waits
    <3> QED BY <1>1, <2>1, <2>3, <3>1, <3>2, <3>4
  <2> QED BY <1>13, <2>2, <2>3, DurableCounts DEF OnlyOf
<1>7. CASE Restart
  <2>1. status' = "restoring" /\ UNCHANGED <<metadata, saved, shots>> /\ restoring' = saved
    BY <1>7 DEF Restart
  <2> QED BY <2>1
<1>8. CASE Restored
  <2>1. /\ status = "restoring" /\ restoring[n] = NoMeta
        /\ UNCHANGED <<metadata, restoring, shots>>
        /\ \/ saved' = metadata
           \/ saved' = saved /\ unsaved' = unsaved /\ metadata[n] = NoMeta
    BY <1>8 DEF Restored
  <2> QED BY <1>1, <2>1
<1>9. ASSUME NEW k \in Names, RestoreEntry(k) PROVE Safe(n)
  <2>1. /\ status' = status /\ status = "restoring" /\ saved' = saved /\ unsaved' = unsaved
        /\ handlers' = handlers /\ restoring[k] # NoMeta /\ metadata[k] = NoMeta
        /\ \A m \in Names \ {k} : restoring'[m] = restoring[m]
        /\ Discards(k) \/ \E s \in Shots : Reschedules(k, s)
    BY <1>9, DurableRestores
  <2>2. CASE n # k
    BY <1>4, <2>1, <2>2 DEF Discards, Reschedules, OnlyOf
  <2>3. CASE n = k /\ Discards(k)
    <3>1. saved[n] \in {NoMeta, restoring[n]}
      BY <2>1, <2>3 DEF Modes, DurableMode
    <3> QED BY <1>2, <2>1, <2>3, <3>1 DEF Discards
  <2>4. ASSUME n = k, NEW s \in Shots, Reschedules(k, s) PROVE Safe(n)
    <3>1. metadata'[n] # NoMeta
      BY <2>4 DEF Reschedules, NoMeta, None, Shots
    <3> QED BY <2>1, <3>1
  <2> QED BY <2>1, <2>2, <2>3, <2>4
<1>10. CASE Crash
  <2>1. status' = "down"
    BY <1>10 DEF Crash
  <2> QED BY <2>1
<1>11. CASE UNCHANGED <<metadata, saved, unsaved, restoring, status, handlers>>
  BY <1>4, <1>11
<1>14. ASSUME NEW k, Begins(k) PROVE Safe(n)
  BY <1>4, <1>14 DEF Begins, lifeVars
<1> QED
  BY <1>5, <1>6, <1>7, <1>8, <1>9, <1>10, <1>11, <1>13, <1>14, DurableSteps
  DEF DurableStep, EntryDue, Skips, OnExpire, vars, lifeVars

-----------------------------------------------------------------------------
(* The inductive invariant. *)

LEMMA IInvInit == Init => IInv
<1> SUFFICES ASSUME Init PROVE IInv
  OBVIOUS
<1> USE DEF Init
<1>1. TypeOK
  <2>1. NoCall \in Call /\ calls \in [Calls -> Call]
    BY DEF NoCall, Call
  <2>2. RestTypes
    BY NoMetaType, TimersAssumption DEF RestTypes, TimersAssumption
  <2>3. NameTypes /\ ShotTypes
    BY NoMetaType DEF NameTypes, ShotTypes
  <2> QED BY <2>1, <2>2, <2>3, TypesOf
<1>2. References
  BY DEF References, CallsSound, NoCall, ShotsSound, TimersSound, MetasSound, MetaSound,
         HandlersSound, FiredSound
<1>3. Modes
  BY DEF Modes, DurableMode, FallbackMode, NoCall, Quiet
<1>4. EnteredIsServed /\ HandlesNamed
  BY DEF EnteredIsServed, HandlesNamed
<1>5. NoClash
  <2>1. \A n \in Names, s \in Shots : ~Refers(n, s)
    BY DEF Refers, MetaRefers, CallRefers, HandlerRefers, NoMeta, NoCall, Shots, None
  <2> QED BY <2>1 DEF NoClash
<1>6. MetadataBacked /\ ReadIsCurrent /\ RepeatArmed /\ StorageFollows
  BY DEF MetadataBacked, ReadIsCurrent, RepeatArmed, StorageFollows
<1>7. LimitsKept /\ FiredIsLeaving
  BY DEF LimitsKept, WithinLimit, FiredIsLeaving
<1> QED BY <1>1, <1>2, <1>3, <1>4, <1>5, <1>6, <1>7 DEF IInv

LEMMA IInvNext == IInv /\ [Next]_vars => IInv'
<1> SUFFICES ASSUME IInv, [Next]_vars PROVE IInv'
  OBVIOUS
<1> USE DEF IInv
<1>1. Step /\ useDurable' = useDurable
  BY NextSteps, ModeStays
<1>2. TypeOK' /\ References' /\ Modes'
  BY <1>1, TypeStep, ReferencesStep, ModesStep
<1>3. HandlesNamed' /\ NoClash' /\ LimitsKept'
  BY <1>1, HandlesNamedStep, NoClashStep, LimitsStep
<1>4. CASE ~useDurable
  <2>1. EnteredIsServed'
    BY <1>1, <1>4, ServedStep
  <2>2. MetadataBacked' /\ ReadIsCurrent' /\ RepeatArmed' /\ StorageFollows' /\ FiredIsLeaving'
    BY <1>1, <1>4 DEF MetadataBacked, ReadIsCurrent, RepeatArmed, StorageFollows, FiredIsLeaving
  <2> QED BY <1>2, <1>3, <2>1, <2>2
<1>5. CASE useDurable
  <2>1. EnteredIsServed'
    BY <1>1, <1>5 DEF EnteredIsServed
  <2>2. MetadataBacked' /\ ReadIsCurrent' /\ RepeatArmed'
    BY <1>1, <1>5, MetadataBackedStep, ReadIsCurrentStep, RepeatArmedStep
  <2>3. StorageFollows' /\ FiredIsLeaving'
    BY <1>1, <1>5, StorageStep, FiredStep
  <2> QED BY <1>2, <1>3, <2>1, <2>2, <2>3
<1> QED BY <1>4, <1>5

\* References, modes, backing, storage and limits stay as the conjuncts of IInv
\* say, in every state of timer-manager.ts in either mode.
THEOREM IInvHolds == Spec => []IInv
BY IInvInit, IInvNext, PTL DEF Spec

-----------------------------------------------------------------------------
(* Results. *)

\* Every variable of the manager has its type, whatever the interleaving.
THEOREM TimersTypeCorrect == Spec => []TypeOK
<1>1. IInv => TypeOK
  BY DEF IInv
<1> QED BY <1>1, IInvHolds, PTL

\* Fallback mode (setTimer, handleTimerExpired, handleCronTimerExpired): for a timer that is
\* entered a handle of its name is armed or an expiry is in flight.
THEOREM EnteredTimersAreArmed == Spec => []EnteredIsArmed
<1>1. IInv => EnteredIsArmed
  BY DEF IInv, EnteredIsServed, EnteredIsArmed, Handling
<1> QED BY <1>1, IInvHolds, PTL

\* Durable mode (handleDurableTimerExpired): the metadata of a timer that is
\* entered with it has an entry of the service, a message on its way, or an
\* expiry in flight.
THEOREM ActiveTimersAreBacked == Spec => []ActiveIsBacked
<1>1. IInv => ActiveIsBacked
  BY DEF IInv, MetadataBacked, Backed, InMailbox, ActiveIsBacked, Handling
<1> QED BY <1>1, IInvHolds, PTL

\* Storage (persistTimerMetadata): once the start is over and the last save has been
\* carried out, whichever were rejected before, storage has the metadata in memory,
\* apart from the count of an expiry that awaits the service, or what is stored has
\* lost its entry and a restart discards it.
THEOREM CrashesAreSafe == Spec => []CrashSafe
<1>1. IInv => CrashSafe
  <2> SUFFICES ASSUME IInv, useDurable, status = "up", ~unsaved, NEW n \in Names
               PROVE  IF metadata[n] = NoMeta
                        THEN saved[n] # NoMeta => shots[saved[n].shot] = Idle
                        ELSE \/ saved[n] = metadata[n]
                             \/ \E h \in handlers :
                                  /\ h.name = n /\ h.phase = "counted"
                                  /\ saved[n] = h.meta /\ metadata[n] = CountedMeta(h.meta)
    BY DEF CrashSafe
  <2>1. restoring[n] = NoMeta
    BY DEF IInv, Modes, DurableMode
  <2> QED BY <2>1 DEF IInv, StorageFollows, Awaited
<1> QED BY <1>1, IInvHolds, PTL

\* maxCount (handleDurableTimerExpired): metadata at its limit is in memory only while
\* its expiry awaits the service, and in storage only as long or without its entry,
\* although other saves are carried out or rejected meanwhile; but for timers whose
\* last expiry a crash has cut off.
THEOREM LimitsAreKept == Spec => []LimitKept
<1>1. IInv => LimitKept
  <2> SUFFICES ASSUME IInv, NEW n \in Names, NEW m \in {metadata[n], saved[n]}, AtLimit(m)
               PROVE  \/ \E h \in Ending : h.name = n /\ m = CountedMeta(h.meta)
                      \/ m.timer \in cutOff
                      \/ m # metadata[n] /\ shots[m.shot] = Idle
    BY DEF LimitKept
  <2>1. m \in MetaSet /\ m # NoMeta /\ MetaSound(n, m)
    BY DEF IInv, TypeOK, References, MetasSound, AtLimit
  <2>2. m.count \in Nat /\ LimitOf(m.timer) \in Nat
    BY <2>1 DEF IInv, TypeOK, MetaSet, MetaSound, Noted, Set, LimitOf
  <2>3. ~WithinLimit(m)
    BY <2>2 DEF AtLimit, WithinLimit
  <2> QED BY <2>3 DEF IInv, LimitsKept, EndingOf
<1> QED BY <1>1, IInvHolds, PTL

\* A one-shot timer in durable mode: no expiry of it begins when one has begun
\* since the start, although entries of replaced timers are still due.
THEOREM OneShotsFireOnce == Spec => FiresOnce
<1>1. ASSUME IInv, [Next]_vars
      PROVE  [\A h \in handlers' \ handlers :
                useDurable /\ KindOf(h.timer) = "once" => h.timer \notin fired]_vars
  <2> SUFFICES ASSUME NEW h \in handlers' \ handlers, useDurable, KindOf(h.timer) = "once",
                      h.timer \in fired
               PROVE  FALSE
    OBVIOUS
  <2>1. DurableStep /\ TypeOK /\ References /\ Modes /\ FiredIsLeaving
    BY SMTT(40), <1>1, NextSteps, DurableSteps DEF IInv
  <2>2. PICK n : Begins(n)
    <3>1. \A c \in Calls : CallStep(c) => handlers' = handlers
      BY <2>1, CallsWhenUp
    <3>2. \A n, t, meta : ~Counts(n, t, meta)
      BY DEF Counts, Limited
    <3> QED BY <2>1, <3>1, <3>2 DEF DurableStep, EntryDue, Skips, Follows, Crash, Restart, Restored,
                              OnExpire, RestoreEntry, vars
  <2>3. handlers = {} /\ n \in Names /\ h.timer = timers[n]
    BY <2>2 DEF Begins, Handled
  <2> QED BY <2>1, <2>3 DEF FiredIsLeaving
<1> QED BY <1>1, IInvHolds, PTL DEF Spec, FiresOnce
=============================================================================
