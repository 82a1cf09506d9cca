------------------------------- MODULE Timers -------------------------------
(***************************************************************************)
(* TimerManager (src/core/timer-manager.ts): named timers that fire once,  *)
(* repeat, or follow a cron expression, in its two modes.                  *)
(*                                                                         *)
(* Fallback mode arms a setTimeout handle per timer.  Durable mode asks    *)
(* the external TimerService for an entry that survives a restart, keeps   *)
(* the timer's metadata in storage, and handles expiries one at a time in  *)
(* a GenServer.  A "shot" is a handle or an entry; when it is due is left  *)
(* open.  The manager runs on one thread; steps of different asynchronous  *)
(* calls interleave at their awaits.                                       *)
(*                                                                         *)
(* A timer is named by the number of the setTimer call that made it.       *)
(***************************************************************************)
EXTENDS Naturals, Sequences

CONSTANTS
    Names,          \* timer names
    Configs,        \* timers in use: [name, kind, limit], where limit is
                    \*  maxCount, or Unlimited when that is omitted
    MaxCalls,       \* bound: calls of setTimer and cancelTimer
    MaxShots,       \* bound: shots that are referred to at once
    MaxCrashes      \* bound: restarts of the process

Unlimited == 0
None == 0
Kinds == {"once", "repeat", "cron"}
Calls == 1 .. MaxCalls
Shots == 1 .. MaxShots

ASSUME TimersAssumption ==
    /\ Configs \subseteq [name : Names, kind : Kinds, limit : Nat]
    /\ \A f \in Configs : f.kind = "once" => f.limit = Unlimited
    /\ MaxCalls \in Nat
    /\ MaxShots \in Nat
    /\ MaxCrashes \in Nat

VARIABLES
    useDurable,     \* this.useDurable
    status,         \* of the manager
    hasCallback,    \* the engine has called onExpire
    timers,         \* [name -> timer or None]             this.timers
    handles,        \* [name -> shot or None]              this.handles
    metadata,       \* [name -> metadata or NoMeta]        this.metadata
    saved,          \* the same, in storage
    unsaved,        \* the last save has been rejected
    restoring,      \* loaded metadata restoreTimerMetadata has still to go through
    shots,          \* [shot -> what it will do, or Idle]
    mailbox,        \* names cast to the receiver, in order
    handlers,       \* expiries whose callback or follow-up is awaited
    calls,          \* [call -> its operation and progress]
    crashes,        \* number of restarts
    fired,          \* history: timers fired since the start
    withdrawn,      \* history: timers cancelled or replaced
    cutOff          \* history: timers whose last expiry a crash has cut off

historyVars == <<crashes, fired, withdrawn, cutOff>>
lifeVars == <<useDurable, status, hasCallback, restoring>>
vars == <<lifeVars, timers, handles, metadata, saved, unsaved, shots, mailbox,
          handlers, calls, historyVars>>

NoMeta == [timer |-> None, shot |-> None, count |-> 0]
Idle == [name |-> None, timer |-> None, count |-> 0]
NoCall == [op |-> "none", name |-> None, kind |-> "none", limit |-> 0,
           pc |-> "idle", shot |-> None]

KindOf(t) == calls[t].kind
LimitOf(t) == calls[t].limit

MetaSet == [timer : Calls \cup {None}, shot : Shots \cup {None}, count : Nat]

TypeOK ==
    /\ useDurable \in BOOLEAN
    /\ status \in {"up", "stopped", "down", "restoring"}
    /\ hasCallback \in BOOLEAN
    /\ timers \in [Names -> Calls \cup {None}]
    /\ handles \in [Names -> Shots \cup {None}]
    /\ metadata \in [Names -> MetaSet]
    /\ saved \in [Names -> MetaSet]
    /\ unsaved \in BOOLEAN
    /\ restoring \in [Names -> MetaSet]
    /\ shots \in [Shots -> [name : Names \cup {None},
                            timer : Calls \cup {None}, count : Nat]]
    /\ mailbox \in Seq(Names)
    /\ handlers \subseteq [name : Names, timer : Calls, meta : MetaSet,
                           closure : [name : Names \cup {None},
                                      timer : Calls \cup {None}, count : Nat],
                           key : Shots \cup {None}, phase : {"called", "counted"}]
    /\ calls \in [Calls -> [op : {"none", "set", "cancel"},
                            name : Names \cup {None}, kind : Kinds \cup {"none"},
                            limit : Nat,
                            pc : {"idle", "revoking", "forgetting", "resuming",
                                  "scheduling", "done", "failed", "dead"},
                            shot : Shots \cup {None}]]
    /\ crashes \in 0 .. MaxCrashes
    /\ fired \subseteq Calls
    /\ withdrawn \subseteq Calls
    /\ cutOff \subseteq Calls

Init ==
    /\ useDurable \in BOOLEAN
    /\ status = "up"
    /\ hasCallback = TRUE
    /\ timers = [n \in Names |-> None]
    /\ handles = [n \in Names |-> None]
    /\ metadata = [n \in Names |-> NoMeta]
    /\ saved = [n \in Names |-> NoMeta]
    /\ unsaved = FALSE
    /\ restoring = [n \in Names |-> NoMeta]
    /\ shots = [s \in Shots |-> Idle]
    /\ mailbox = <<>>
    /\ handlers = {}
    /\ calls = [c \in Calls |-> NoCall]
    /\ crashes = 0
    /\ fired = {}
    /\ withdrawn = {}
    /\ cutOff = {}

-----------------------------------------------------------------------------
(* Shots: setTimeout, and the entries of TimerService. *)

Referred(s) ==
    \/ shots[s] # Idle
    \/ \E n \in Names : s \in {handles[n], metadata[n].shot, saved[n].shot, restoring[n].shot}
    \/ \E c \in Calls : calls[c].shot = s
    \/ \E h \in handlers : h.key = s \/ h.meta.shot = s

\* Identifiers are fresh: the first one that nothing refers to.
Fresh(s) == ~Referred(s) /\ \A r \in 1 .. (s - 1) : Referred(r)

Armed(s, n, t, count) ==
    [shots EXCEPT ![s] = [name |-> n, timer |-> t, count |-> count]]

Cleared(s) == IF s = None THEN shots ELSE [shots EXCEPT ![s] = Idle]

-----------------------------------------------------------------------------
(* persistTimerMetadata: all metadata is stored, or the adapter rejects and *)
(* storage stays as it is.                                                  *)

Saves == saved' = metadata' /\ unsaved' = FALSE
SaveRejected == UNCHANGED saved /\ unsaved' = TRUE
Persist == Saves \/ SaveRejected

-----------------------------------------------------------------------------
(* cancelTimer, by itself and inside setTimer.  When it is over the call   *)
(* proceeds: setTimer resumes a turn of the event loop later.              *)

AfterCancel(c) == IF c = "set" THEN "resuming" ELSE "done"

\* Mutant: the handle is cleared, the timer stays entered.
CancelTimerKeeps(c, call) ==
    /\ withdrawn' = withdrawn \cup {timers[call.name]}
    /\ shots' = Cleared(handles[call.name])
    /\ handles' = [handles EXCEPT ![call.name] = None]
    /\ calls' = [calls EXCEPT ![c] = [call EXCEPT !.pc = AfterCancel(call.op)]]
    /\ UNCHANGED timers

CancelTimer(c, call) ==
    LET n == call.name IN
    /\ withdrawn' = withdrawn \cup {timers[n]}
    /\ \/ /\ useDurable
          /\ metadata[n] # NoMeta
          /\ calls' = [calls EXCEPT ![c] =
                         [call EXCEPT !.pc = "revoking", !.shot = metadata[n].shot]]
          /\ UNCHANGED <<timers, handles, shots>>
       \/ /\ useDurable
          /\ metadata[n] = NoMeta
          /\ timers' = [timers EXCEPT ![n] = None]
          /\ calls' = [calls EXCEPT ![c] = [call EXCEPT !.pc = AfterCancel(call.op)]]
          /\ UNCHANGED <<handles, shots>>
       \/ /\ ~useDurable
          /\ shots' = Cleared(handles[n])
          /\ handles' = [handles EXCEPT ![n] = None]
          /\ timers' = [timers EXCEPT ![n] = None]
          /\ calls' = [calls EXCEPT ![c] = [call EXCEPT !.pc = AfterCancel(call.op)]]

\* TimerService.cancel returns; the name's metadata is deleted, whichever
\* timer it is of by now, and the rest saved.  When that is rejected so is the
\* call, and the timer stays entered.
Revoked(c) ==
    /\ calls[c].pc = "revoking"
    /\ metadata' = [metadata EXCEPT ![calls[c].name] = NoMeta]
    /\ shots' = Cleared(calls[c].shot)
    /\ \/ Saves /\ calls' = [calls EXCEPT ![c].pc = "forgetting", ![c].shot = None]
       \/ SaveRejected /\ calls' = [calls EXCEPT ![c].pc = "failed", ![c].shot = None]
    /\ UNCHANGED <<lifeVars, timers, handles, mailbox, handlers, historyVars>>

\* Mutant: nothing more is done when the timer is gone meanwhile.
ForgottenTwice(c) ==
    /\ calls[c].pc = "forgetting"
    /\ timers[calls[c].name] # None
    /\ timers' = [timers EXCEPT ![calls[c].name] = None]
    /\ calls' = [calls EXCEPT ![c].pc = AfterCancel(calls[c].op)]
    /\ UNCHANGED <<lifeVars, handles, metadata, saved, unsaved, shots, mailbox,
                   handlers, historyVars>>

\* The save has returned.
Forgotten(c) ==
    /\ calls[c].pc = "forgetting"
    /\ timers' = [timers EXCEPT ![calls[c].name] = None]
    /\ calls' = [calls EXCEPT ![c].pc = AfterCancel(calls[c].op)]
    /\ UNCHANGED <<lifeVars, handles, metadata, saved, unsaved, shots, mailbox,
                   handlers, historyVars>>

-----------------------------------------------------------------------------
(* setTimer. *)

\* The timer is entered; in fallback mode its handle is armed at once.
EnterTimer(c, call) ==
    LET n == call.name IN
    /\ timers' = [timers EXCEPT ![n] = c]
    /\ \/ /\ useDurable
          /\ calls' = [calls EXCEPT ![c] = [call EXCEPT !.pc = "scheduling"]]
          /\ UNCHANGED <<handles, shots>>
       \/ /\ ~useDurable
          /\ \E s \in Shots :
               /\ Fresh(s)
               /\ shots' = Armed(s, n, c, 0)
               /\ handles' = [handles EXCEPT ![n] = s]
          /\ calls' = [calls EXCEPT ![c] = [call EXCEPT !.pc = "done"]]

\* Mutant: the metadata is not saved.
ScheduledUnsaved(c) ==
    /\ calls[c].pc = "scheduling"
    /\ LET n == calls[c].name IN
         \E s \in Shots :
           /\ Fresh(s)
           /\ shots' = Armed(s, n, c, 0)
           /\ metadata' = [metadata EXCEPT ![n] = [timer |-> c, shot |-> s, count |-> 0]]
    /\ calls' = [calls EXCEPT ![c].pc = "done"]
    /\ UNCHANGED <<lifeVars, timers, handles, saved, unsaved, mailbox, handlers,
                   historyVars>>

\* TimerService.schedule returns; the metadata is entered and saved.  When
\* that is rejected so is the call; timer, metadata and entry stay.
Scheduled(c) ==
    /\ calls[c].pc = "scheduling"
    /\ LET n == calls[c].name IN
         \E s \in Shots :
           /\ Fresh(s)
           /\ shots' = Armed(s, n, c, 0)
           /\ metadata' = [metadata EXCEPT ![n] = [timer |-> c, shot |-> s, count |-> 0]]
    /\ \/ Saves /\ calls' = [calls EXCEPT ![c].pc = "done"]
       \/ SaveRejected /\ calls' = [calls EXCEPT ![c].pc = "failed"]
    /\ UNCHANGED <<lifeVars, timers, handles, mailbox, handlers, historyVars>>

NextCall(c) ==
    /\ status = "up"
    /\ hasCallback
    /\ calls[c] = NoCall
    /\ \A b \in 1 .. (c - 1) : calls[b] # NoCall

SetTimer(c, config) ==
    /\ NextCall(c)
    /\ LET call == [NoCall EXCEPT !.op = "set", !.name = config.name,
                                !.kind = config.kind, !.limit = config.limit] IN
         IF timers[config.name] # None
           THEN CancelTimer(c, call)
           ELSE EnterTimer(c, call) /\ UNCHANGED withdrawn
    /\ UNCHANGED <<lifeVars, metadata, saved, unsaved, mailbox, handlers, crashes,
                   fired, cutOff>>

\* The await of cancelTimer is over.
SetTimerResumes(c) ==
    /\ calls[c].pc = "resuming"
    /\ EnterTimer(c, calls[c])
    /\ UNCHANGED <<lifeVars, metadata, saved, unsaved, mailbox, handlers, historyVars>>

\* Without a timer of that name cancelTimer returns false.
CancelCalled(c, n) ==
    /\ NextCall(c)
    /\ timers[n] # None
    /\ CancelTimer(c, [NoCall EXCEPT !.op = "cancel", !.name = n])
    /\ UNCHANGED <<lifeVars, metadata, saved, unsaved, mailbox, handlers, crashes,
                   fired, cutOff>>

-----------------------------------------------------------------------------
(* Expiry in fallback mode. *)

\* setTimeout fires.  The closure holds the name and, for a cron timer, the
\* limit and the count; the timer is looked up.  It is read here and used
\* after the callback.
HandleFires(s) ==
    /\ ~useDurable
    /\ shots[s] # Idle
    /\ LET n == shots[s].name IN
         IF timers[n] = None
           THEN UNCHANGED <<handlers, fired>>
           ELSE /\ handlers' = handlers \cup
                     {[name |-> n, timer |-> timers[n], meta |-> NoMeta,
                       closure |-> shots[s], key |-> s, phase |-> "called"]}
                /\ fired' = fired \cup {timers[n]}
    /\ shots' = Cleared(s)
    /\ UNCHANGED <<lifeVars, timers, handles, metadata, saved, unsaved, mailbox, calls,
                   crashes, withdrawn, cutOff>>

Forget(n) ==
    /\ timers' = [timers EXCEPT ![n] = None]
    /\ handles' = [handles EXCEPT ![n] = None]
    /\ UNCHANGED shots

\* Mutant: the timer is entered again, its handle is not.
RearmNothing(n, t, closureOf, count) ==
    /\ timers' = [timers EXCEPT ![n] = t]
    /\ UNCHANGED <<handles, shots>>

Rearm(n, t, closureOf, count) ==
    \E s \in Shots :
      /\ Fresh(s)
      /\ shots' = Armed(s, n, closureOf, count)
      /\ timers' = [timers EXCEPT ![n] = t]
      /\ handles' = [handles EXCEPT ![n] = s]

\* Counts matter only up to a limit.
Counted(count, limit) == IF limit = Unlimited THEN 0 ELSE count + 1
\* Mutant: off by one.
LimitPassed(count, limit) == limit # Unlimited /\ count + 1 > limit
LimitReached(count, limit) == limit # Unlimited /\ count + 1 >= limit

\* handleTimerExpired after the callback: repetitions are not counted.
PlainReturns(h) ==
    /\ KindOf(h.closure.timer) # "cron"
    /\ IF KindOf(h.timer) = "repeat"
         THEN Rearm(h.name, h.timer, h.timer, 0)
         ELSE Forget(h.name)

\* handleCronTimerExpired after the callback.  For a timer without a cron
\* expression the delay cannot be computed, which throws.
CronReturns(h) ==
    LET count == h.closure.count
        limit == LimitOf(h.closure.timer)
    IN
    /\ KindOf(h.closure.timer) = "cron"
    /\ \/ /\ LimitReached(count, limit)
          /\ Forget(h.name)
       \/ /\ ~LimitReached(count, limit)
          /\ KindOf(h.timer) = "cron"
          /\ Rearm(h.name, h.timer, h.closure.timer, Counted(count, limit))
       \/ /\ ~LimitReached(count, limit)
          /\ KindOf(h.timer) # "cron"
          /\ UNCHANGED <<timers, handles, shots>>

HandlerReturns(h) ==
    /\ ~useDurable
    /\ PlainReturns(h) \/ CronReturns(h)
    /\ handlers' = handlers \ {h}
    /\ UNCHANGED <<lifeVars, metadata, saved, unsaved, mailbox, calls, historyVars>>

-----------------------------------------------------------------------------
(* Expiry in durable mode. *)

\* TimerService casts the name to the receiver; only a repeating entry stays.
EntryDue(s) ==
    /\ useDurable
    /\ status # "down"
    /\ shots[s] # Idle
    /\ \A n \in Names : restoring[n].shot # s
    /\ \A i \in 1 .. Len(mailbox) : mailbox[i] # shots[s].name
    /\ mailbox' = Append(mailbox, shots[s].name)
    /\ shots' = IF KindOf(shots[s].timer) = "repeat" THEN shots ELSE Cleared(s)
    /\ UNCHANGED <<lifeVars, timers, handles, metadata, saved, unsaved, handlers,
                   calls, historyVars>>

Drop(n) ==
    /\ timers' = [timers EXCEPT ![n] = None]
    /\ metadata' = [metadata EXCEPT ![n] = NoMeta]
    /\ Persist

\* The metadata read before the callback is written to; when it has been
\* replaced or deleted meanwhile, what is written is lost.
Updated(n, old, new) ==
    IF metadata[n].timer = old.timer THEN [metadata EXCEPT ![n] = new] ELSE metadata

CountedMeta(meta) == [meta EXCEPT !.count = Counted(meta.count, LimitOf(meta.timer))]

\* handleDurableTimerExpired once the callback has returned, for the timer and
\* the metadata it read before.  A timer that has reached its limit or fires
\* once is dropped, a repeating one entered again; but the count is written
\* before the service is asked to cancel a repeating timer at its limit, or for
\* the next entry of a cron timer.  A rejected save ends the expiry alike: the
\* receiver goes on with its next message.
FollowUp(h) ==
    LET n == h.name
        last == LimitReached(h.meta.count, LimitOf(h.meta.timer))
    IN
    /\ UNCHANGED shots
    /\ \/ /\ KindOf(h.timer) = "once" \/ (KindOf(h.timer) = "cron" /\ last)
          /\ Drop(n)
          /\ handlers' = handlers \ {h}
       \/ /\ KindOf(h.timer) = "repeat" /\ ~last
          /\ metadata' = Updated(n, h.meta, CountedMeta(h.meta))
          /\ timers' = [timers EXCEPT ![n] = h.timer]
          /\ Persist
          /\ handlers' = handlers \ {h}
       \/ /\ \/ KindOf(h.timer) = "repeat" /\ last
             \/ KindOf(h.timer) = "cron" /\ ~last
          /\ metadata' = Updated(n, h.meta, CountedMeta(h.meta))
          /\ handlers' = (handlers \ {h}) \cup {[h EXCEPT !.phase = "counted"]}
          /\ UNCHANGED <<timers, saved, unsaved>>

\* Mutant: the metadata keeps the entry that has fired.
RescheduleUnnoted(h) ==
    \E s \in Shots :
      /\ Fresh(s)
      /\ shots' = Armed(s, h.name, h.timer, 0)
      /\ metadata' = Updated(h.name, h.meta, CountedMeta(h.meta))

Reschedule(h) ==
    \E s \in Shots :
      /\ Fresh(s)
      /\ shots' = Armed(s, h.name, h.timer, 0)
      /\ metadata' = Updated(h.name, h.meta, [CountedMeta(h.meta) EXCEPT !.shot = s])

\* The service has answered: the entry is cancelled, or the next one made.
FollowedUp(h) ==
    /\ \/ /\ KindOf(h.timer) = "repeat"
          /\ Drop(h.name)
          /\ shots' = Cleared(h.meta.shot)
       \/ /\ KindOf(h.timer) = "cron"
          /\ Reschedule(h)
          /\ timers' = [timers EXCEPT ![h.name] = h.timer]
          /\ Persist
    /\ handlers' = handlers \ {h}

\* Mutant: the receiver does not await the callback.
ReceiverNeverBusy == TRUE

ReceiverFree == handlers = {}

\* The receiver takes the next message.
Receive ==
    /\ mailbox # <<>>
    /\ ReceiverFree
    /\ LET n == Head(mailbox)
           unknown == timers[n] = None \/ metadata[n] = NoMeta
           expiry == [name |-> n, timer |-> timers[n], meta |-> metadata[n],
                      closure |-> Idle, key |-> None, phase |-> "called"]
       IN
         \/ /\ unknown
            /\ UNCHANGED <<timers, metadata, saved, unsaved, shots, handlers, fired>>
         \/ /\ ~unknown
            /\ hasCallback
            /\ handlers' = handlers \cup {expiry}
            /\ fired' = fired \cup {timers[n]}
            /\ UNCHANGED <<timers, metadata, saved, unsaved, shots>>
         \/ /\ ~unknown
            /\ ~hasCallback
            /\ FollowUp(expiry)
            /\ UNCHANGED fired
    /\ mailbox' = Tail(mailbox)
    /\ UNCHANGED <<lifeVars, handles, calls, crashes, withdrawn, cutOff>>

ReceiverReturns(h) ==
    /\ useDurable
    /\ \/ h.phase = "called" /\ FollowUp(h)
       \/ h.phase = "counted" /\ FollowedUp(h)
    /\ UNCHANGED <<lifeVars, handles, mailbox, calls, historyVars>>

-----------------------------------------------------------------------------
(* Shutdown, crash and restart. *)

\* Fallback: handles are cleared; callbacks in flight go on.
Stop ==
    /\ ~useDurable
    /\ status = "up"
    /\ status' = "stopped"
    /\ shots' = [s \in Shots |->
                   IF \E n \in Names : handles[n] = s THEN Idle ELSE shots[s]]
    /\ handles' = [n \in Names |-> None]
    /\ timers' = [n \in Names |-> None]
    /\ UNCHANGED <<useDurable, hasCallback, restoring, metadata, saved, unsaved, mailbox,
                   handlers, calls, historyVars>>

\* Repeating timers that have reached their limit, while TimerService is asked
\* to cancel their entries.
Ending == {h \in handlers : h.phase = "counted" /\ KindOf(h.timer) = "repeat"}

\* Cancellations TimerService has been asked for and may have carried out.
Requested ==
    {calls[c].shot : c \in {d \in Calls : calls[d].pc = "revoking"}}
    \cup {h.meta.shot : h \in Ending}

\* Durable: a crash or stop(); storage and the service's entries survive.
Crash ==
    /\ useDurable
    /\ status # "down"
    /\ crashes < MaxCrashes
    /\ crashes' = crashes + 1
    /\ status' = "down"
    /\ hasCallback' = FALSE
    /\ restoring' = [n \in Names |-> NoMeta]
    /\ \E gone \in SUBSET Requested :
         shots' = [s \in Shots |->
                     IF s \in gone \/ \A n \in Names : saved[n].shot # s THEN Idle ELSE shots[s]]
    /\ timers' = [n \in Names |-> None]
    /\ metadata' = [n \in Names |-> NoMeta]
    /\ unsaved' = FALSE
    /\ mailbox' = <<>>
    /\ handlers' = {}
    /\ cutOff' = cutOff \cup {h.meta.timer : h \in Ending}
    /\ calls' = [c \in Calls |->
                   IF calls[c].pc \in {"idle", "done", "failed"} THEN calls[c]
                   ELSE [calls[c] EXCEPT !.pc = "dead", !.shot = None]]
    /\ fired' = {}
    /\ UNCHANGED <<useDurable, handles, saved, withdrawn>>

Restart ==
    /\ status = "down"
    /\ status' = "restoring"
    /\ restoring' = saved
    /\ UNCHANGED <<useDurable, hasCallback, timers, handles, metadata, saved, unsaved, shots,
                   mailbox, handlers, calls, historyVars>>

\* An entry the service no longer has is skipped; the others are cancelled
\* and scheduled again for the new receiver.
RestoreEntry(n) ==
    LET entry == restoring[n] IN
    /\ entry # NoMeta
    /\ restoring' = [restoring EXCEPT ![n] = NoMeta]
    /\ IF shots[entry.shot] = Idle
         THEN UNCHANGED <<timers, metadata, shots>>
         ELSE \E s \in Shots :
                /\ Fresh(s)
                /\ shots' = [Armed(s, n, entry.timer, 0) EXCEPT ![entry.shot] = Idle]
                /\ timers' = [timers EXCEPT ![n] = entry.timer]
                /\ metadata' = [metadata EXCEPT ![n] = [entry EXCEPT !.shot = s]]
    /\ UNCHANGED <<useDurable, status, hasCallback, handles, saved, unsaved, mailbox, handlers,
                   calls, historyVars>>

\* What has been restored is saved, or there is nothing to save.  When the save
\* is rejected so is the start, which is as good as a crash.
Restored ==
    /\ status = "restoring"
    /\ restoring = [n \in Names |-> NoMeta]
    /\ status' = "up"
    /\ IF \E n \in Names : metadata[n] # NoMeta
         THEN saved' = metadata /\ unsaved' = FALSE
         ELSE UNCHANGED <<saved, unsaved>>
    /\ UNCHANGED <<useDurable, hasCallback, restoring, timers, handles, metadata, shots,
                   mailbox, handlers, calls, historyVars>>

\* The engine is constructed and registers its callback.
OnExpire ==
    /\ status = "up"
    /\ ~hasCallback
    /\ hasCallback' = TRUE
    /\ UNCHANGED <<useDurable, status, restoring, timers, handles, metadata, saved, unsaved, shots,
                   mailbox, handlers, calls, historyVars>>

-----------------------------------------------------------------------------
Callers ==
    \/ \E c \in Calls, config \in Configs : SetTimer(c, config)
    \/ \E c \in Calls, n \in Names : CancelCalled(c, n)
    \/ Stop
    \/ Crash

Proceeds(c) == Revoked(c) \/ Forgotten(c) \/ Scheduled(c) \/ SetTimerResumes(c)
Due(s) == HandleFires(s) \/ EntryDue(s)
Returns(h) == HandlerReturns(h) \/ ReceiverReturns(h)
Starting == Restart \/ (\E n \in Names : RestoreEntry(n)) \/ Restored \/ OnExpire

\* Nothing is armed or in flight: the manager may rest.
Idling ==
    /\ shots = [s \in Shots |-> Idle]
    /\ mailbox = <<>>
    /\ handlers = {}
    /\ \A c \in Calls : calls[c].pc \in {"idle", "done", "failed", "dead"}
    /\ status \in {"up", "stopped"}
    /\ UNCHANGED vars

Next ==
    \/ Callers
    \/ \E c \in Calls : Proceeds(c)
    \/ \E s \in Shots : Due(s)
    \/ \E h \in handlers : Returns(h)
    \/ Receive
    \/ Starting
    \/ Idling

Spec == Init /\ [][Next]_vars

\* Time passes for every name, storage and services answer, callbacks return,
\* and a process that is down is started again.  Nobody has to call or crash.
FairSpec ==
    /\ Spec
    /\ WF_vars(\E c \in Calls : Proceeds(c))
    /\ \A n \in Names : WF_vars(\E s \in Shots : shots[s].name = n /\ Due(s))
    /\ \A n \in Names : WF_vars(\E h \in handlers : h.name = n /\ Returns(h))
    /\ WF_vars(Receive)
    /\ WF_vars(Starting)

-----------------------------------------------------------------------------
(* Safety. *)

Handling(n) == \E h \in handlers : h.name = n

\* Fallback: a timer that is entered will fire.  A handle of its name is
\* armed or an expiry is in flight, however calls and callbacks interleave.
EnteredIsArmed ==
    ~useDurable => \A n \in Names :
        timers[n] # None => Handling(n) \/ \E s \in Shots : shots[s].name = n

\* Durable: a timer whose metadata is entered with it is never left without
\* an entry of the service, a message on its way or an expiry in flight.
ActiveIsBacked ==
    useDurable => \A n \in Names :
        metadata[n] # NoMeta /\ timers[n] = metadata[n].timer =>
            \/ shots[metadata[n].shot].name = n
            \/ \E i \in 1 .. Len(mailbox) : mailbox[i] = n
            \/ Handling(n)

\* Durable: once the start is over and the last save has been carried out,
\* storage has what a restart needs, although earlier saves were rejected.  The
\* stored metadata is that in memory, apart from the count of an expiry that
\* awaits the service; or the entry is gone and the metadata discarded.  A crash
\* before the restored metadata is saved is not covered: see SurvivesRestart.
CrashSafe ==
    useDurable /\ status = "up" /\ ~unsaved => \A n \in Names :
        IF metadata[n] = NoMeta
          THEN saved[n] # NoMeta => shots[saved[n].shot] = Idle
          ELSE \/ saved[n] = metadata[n]
               \/ \E h \in handlers :
                    /\ h.name = n /\ h.phase = "counted"
                    /\ saved[n] = h.meta /\ metadata[n] = CountedMeta(h.meta)

\* Metadata of a timer that has reached its maxCount is in memory only while
\* its expiry awaits the service, and in storage only as long, unless its entry
\* is gone; so no restart fires it again, whatever saves are rejected or carried
\* out for other timers meanwhile.  A crash during that await is the exception.
AtLimit(m) == m # NoMeta /\ LimitOf(m.timer) # Unlimited /\ m.count >= LimitOf(m.timer)

LimitKept ==
    \A n \in Names : \A m \in {metadata[n], saved[n]} :
        AtLimit(m) =>
            \/ \E h \in Ending : h.name = n /\ m = CountedMeta(h.meta)
            \/ m.timer \in cutOff
            \/ m # metadata[n] /\ shots[m.shot] = Idle

\* Durable: a one-shot timer fires at most once between two restarts, also
\* when entries of replaced timers are still due under its name.
FiresOnce ==
    [][\A h \in handlers' \ handlers :
         useDurable /\ KindOf(h.timer) = "once" => h.timer \notin fired]_vars

-----------------------------------------------------------------------------
(* Liveness. *)

Active(n) ==
    /\ status = "up"
    /\ timers[n] # None
    /\ useDurable => metadata[n].timer = timers[n]

\* No timer stays active for ever without firing, being cancelled or being
\* replaced.
EventuallyFires == \A n \in Names : []<>(Handling(n) \/ ~Active(n))

\* Every call returns, and every restart leads to an engine that takes calls.
InFlight(c) == calls[c].pc \in {"revoking", "forgetting", "resuming", "scheduling"}
CallsReturn == []<>(\A c \in Calls : ~InFlight(c))
RestartCompletes == status = "down" ~> status = "up" /\ hasCallback
ManagerAnswers == CallsReturn /\ RestartCompletes

-----------------------------------------------------------------------------
(* What the documentation says and the code does not do. *)

\* "Creates a new timer. If a timer with the same name already exists, it is
\* cancelled first." (setTimer in 04-timer-manager.md): a timer whose setTimer
\* has returned is there until it fires or somebody cancels or replaces it.
SetTimerKept ==
    \A c \in Calls :
        /\ calls[c].op = "set"
        /\ calls[c].pc = "done"
        /\ c \notin fired \cup withdrawn
        /\ status = "up"
        /\ crashes = 0
        => timers[calls[c].name] = c

\* "Timers survive process restarts" (Durable Mode in 04-timer-manager.md): with
\* nothing under way and no save rejected, the entry that will fire a timer is
\* the one that a restart finds in storage, at whatever moment the process dies.
SurvivesRestart ==
    /\ useDurable
    /\ handlers = {}
    /\ ~unsaved
    /\ \A c \in Calls : ~InFlight(c)
    => \A n \in Names :
        metadata[n] # NoMeta /\ shots[metadata[n].shot].name = n
            => saved[n].shot = metadata[n].shot
=============================================================================
