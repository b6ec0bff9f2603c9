------------------------------ MODULE Windows ------------------------------
(* A subscription of the Windows backend (windows/WindowsBackend.cc): the   *)
(* directory read it keeps outstanding, the thread that runs its callbacks  *)
(* in SleepEx, and the threads that start and stop it through Backend.      *)
(*                                                                          *)
(* The kernel queues a callback (an APC) on the backend's thread; SleepEx   *)
(* runs the queued ones in order and returns when there are none left.  A   *)
(* queued callback and a read in flight hold the bare address of their      *)
(* Subscription: what keeps the object alive is watcher->state, the `state` *)
(* of a waiting caller and, while a callback runs, its keepAlive.           *)
(* Backend::watch, unwatch, invalidate and unref are Backend.cc's, as far   *)
(* as one backend needs them; Backends models their registry.               *)
EXTENDS Naturals, Sequences, FiniteSets

CONSTANTS Watcher,            \* storage
          Thread,             \* the callers: promise workers, cleanup hooks
          Unreserved,         \* callers without a reservation: cleanup hooks
          MaxSubs, MaxFaults, \* bounds
          RebuildsEarly,      \* a lost subscription is rebuilt before it stopped
          FaultsWhilePending, \* a read fails while its watcher is pending again
          NoWatcher, NoSub

ASSUME BoundsAssumption == MaxSubs \in Nat /\ MaxFaults \in Nat
ASSUME UnreservedAssumption == Unreserved \subseteq Thread
ASSUME NoneAssumption == NoWatcher \notin Watcher /\ NoSub \notin 1..MaxSubs
ASSUME SwitchAssumption == RebuildsEarly \in BOOLEAN /\ FaultsWhilePending \in BOOLEAN

Sub == 1..MaxSubs             \* Subscription objects, in order of creation

VARIABLES
  subscriptions, pending, invalid, \* Backend's three sets of watchers
  needsResubscribe, cancelled,     \* watchers with the flag set
  state,        \* watcher->state
  sub,          \* the members of each Subscription
  io,           \* its ReadDirectoryChangesW: none, inFlight or cancelled
  apcs,         \* the callbacks queued on the backend's thread
  loop,         \* where the backend's thread is
  current,      \* the Subscription whose callback it runs (keepAlive)
  detaching,    \* the `state` of its own Backend::unwatch
  loopRunning,  \* WindowsBackend::mRunning
  where, on, mine, wasInvalid,     \* callers: place, watcher, `state`
  created, faults

backendVars == <<subscriptions, pending, invalid, needsResubscribe, cancelled, state>>
subVars     == <<sub, io, apcs>>
loopVars    == <<loop, current, detaching, loopRunning>>
callerVars  == <<where, on, mine, wasInvalid>>
boundVars   == <<created, faults>>
windowsVars == <<backendVars, subVars, loopVars, callerVars, boundVars>>

SubRecord == [owner : Watcher \cup {NoWatcher}, running : BOOLEAN, pollPending : BOOLEAN,
              stopRequested : BOOLEAN, stopped : BOOLEAN, overflowed : BOOLEAN,
              told : BOOLEAN, small : BOOLEAN,
              start : {"waiting", "started", "failed"}]

(* asleep      in SleepEx                                                   *)
(* batch       SleepEx has run a callback and looks for the next one        *)
(* reading     run: the read is issued, readTree goes over the directory    *)
(* overflow    failOverflow, before it takes mMutex                         *)
(* invalidated failOverflow, before requestStop                             *)
(* error       handleWatcherError: Backend::unwatch with force              *)
(* detach unref      the rest of that unwatch                               *)
Loop == {"asleep", "batch", "reading", "overflow", "invalidated", "error",
         "detach", "unref", "ended"}

(* watch starting stopping watchUnref      Backend::watch                   *)
(* unwatch detach unref                    Backend::unwatch                 *)
(* release                                 Backend::releaseShared           *)
Where == {"out", "watch", "starting", "stopping", "watchUnref", "unwatch", "detach",
          "unref", "release"}

Apc == [kind : {"run", "stop", "done"}, sub : Sub] \cup {[kind |-> "noop", sub |-> NoSub]}

WindowsTypeOK ==
  /\ subscriptions \in SUBSET Watcher /\ pending \in SUBSET Watcher
  /\ invalid \in SUBSET Watcher /\ needsResubscribe \in SUBSET Watcher
  /\ cancelled \in SUBSET Watcher
  /\ state \in [Watcher -> Sub \cup {NoSub}]
  /\ sub \in [Sub -> SubRecord]
  /\ io \in [Sub -> {"none", "inFlight", "cancelled"}]
  /\ apcs \in Seq(Apc)
  /\ loop \in Loop /\ loopRunning \in BOOLEAN
  /\ current \in Sub \cup {NoSub} /\ detaching \in Sub \cup {NoSub}
  /\ where \in [Thread -> Where] /\ on \in [Thread -> Watcher]
  /\ mine \in [Thread -> Sub \cup {NoSub}] /\ wasInvalid \in [Thread -> BOOLEAN]
  /\ created \in 0..MaxSubs /\ faults \in 0..MaxFaults

NewSub(w) ==
  [owner |-> w, running |-> TRUE, pollPending |-> FALSE, stopRequested |-> FALSE,
   stopped |-> FALSE, overflowed |-> FALSE, told |-> FALSE, small |-> FALSE,
   start |-> "waiting"]

WindowsInit ==
  /\ subscriptions = {} /\ pending = {} /\ invalid = {}
  /\ needsResubscribe = {} /\ cancelled = {}
  /\ state = [w \in Watcher |-> NoSub]
  /\ sub = [s \in Sub |-> NewSub(NoWatcher)]
  /\ io = [s \in Sub |-> "none"]
  /\ apcs = <<>>
  /\ loop = "asleep" /\ loopRunning = TRUE
  /\ current = NoSub /\ detaching = NoSub
  /\ where = [t \in Thread |-> "out"] /\ on \in [Thread -> Watcher]
  /\ mine = [t \in Thread |-> NoSub] /\ wasInvalid = [t \in Thread |-> FALSE]
  /\ created = 0 /\ faults = 0

----------------------------------------------------------------------------
(* The object is alive as long as one of its shared_ptrs is. *)
Alive(s) ==
  \/ \E w \in Watcher : state[w] = s
  \/ \E t \in Thread : mine[t] = s
  \/ s \in {current, detaching}

Queued(s) == \E i \in DOMAIN apcs : apcs[i].sub = s

Call(kind, s) == [kind |-> kind, sub |-> s]

Goto(t, place) == where' = [where EXCEPT ![t] = place]

Fault == faults < MaxFaults /\ faults' = faults + 1

(* mutant: finishStop notifies the waiters only *)
StoppedSilently(s) == [s EXCEPT !.stopped = TRUE]

(* Subscription::finishStop; the notify tells the error of an overflow. *)
FinishedStop(s) == [s EXCEPT !.stopped = TRUE, !.told = @ \/ s.overflowed]

(* mutant: the stop ends although the read is still in flight *)
StoppedAtOnce(s) == FinishedStop([s EXCEPT !.running = FALSE])

(* Subscription::beginStop, on the backend's thread: CancelIoEx leaves the  *)
(* end of the stop to the completion of the read.                           *)
BegunStop(s) ==
  IF s.pollPending THEN [s EXCEPT !.running = FALSE]
                   ELSE FinishedStop([s EXCEPT !.running = FALSE])

(* mutant: the read is left in flight *)
IoLeft(s) == io

CancelIo(s) == IF sub[s].pollPending /\ io[s] = "inFlight"
               THEN [io EXCEPT ![s] = "cancelled"] ELSE io

(* Subscription::requestStop of a caller: the first request queues the stop. *)
StopQueued(s) ==
  IF s = NoSub \/ sub[s].stopRequested THEN apcs ELSE Append(apcs, Call("stop", s))

StopRequested(s) ==
  IF s = NoSub THEN sub ELSE [sub EXCEPT ![s].stopRequested = TRUE]

(* Subscription::requestStop on the backend's thread begins the stop. *)
StoppedHere(s) ==
  IF s.stopRequested THEN s ELSE BegunStop([s EXCEPT !.stopRequested = TRUE])

----------------------------------------------------------------------------
(* Backend::unref and WindowsBackend::stop: the empty callback wakes the    *)
(* thread, which sees mRunning.                                             *)
Reservations == {t \in Thread \ Unreserved : where[t] # "out"}

Unref(others) ==
  IF subscriptions = {} /\ pending = {} /\ others = {}
  THEN /\ loopRunning' = FALSE
       /\ apcs' = Append(apcs, [kind |-> "noop", sub |-> NoSub])
  ELSE UNCHANGED <<loopRunning, apcs>>

(* The caller has found the backend in the registry and reserved it;        *)
(* Watcher::watch has registered the callback and reset mCancelled.         *)
CallWatch(t, w) ==
  /\ where[t] = "out" /\ t \notin Unreserved /\ loopRunning
  /\ created + Cardinality({u \in Thread : where[u] = "watch"}) < MaxSubs
  /\ Goto(t, "watch")
  /\ on' = [on EXCEPT ![t] = w]
  /\ cancelled' = cancelled \ {w}
  /\ UNCHANGED <<subscriptions, pending, invalid, needsResubscribe, state, subVars,
                 loopVars, mine, wasInvalid, boundVars>>

Cancel(w) ==
  /\ w \notin cancelled /\ Fault
  /\ cancelled' = cancelled \cup {w}
  /\ UNCHANGED <<subscriptions, pending, invalid, needsResubscribe, state, subVars,
                 loopVars, callerVars, created>>

(* Backend::watch, the watcher cancelled or already subscribed *)
NothingToWatch(t) == LET w == on[t] IN
  /\ where[t] = "watch" /\ w \notin pending
  /\ \/ w \in cancelled
     \/ w \in subscriptions /\ w \notin invalid \cup needsResubscribe
  /\ Goto(t, "release")
  /\ UNCHANGED <<backendVars, subVars, loopVars, on, mine, wasInvalid, boundVars>>

(* The interleavings the constants leave out *)
StillStopping(w) == state[w] # NoSub /\ ~sub[state[w]].stopped

HandlesFault(w) ==
  loop \in {"overflow", "invalidated", "error", "detach"} /\ sub[current].owner = w

MayRebuild(w) ==
  /\ w \in subscriptions /\ StillStopping(w) => RebuildsEarly
  /\ HandlesFault(w) => FaultsWhilePending

MustSubscribe(t) ==
  /\ where[t] = "watch" /\ on[t] \notin pending \cup cancelled
  /\ on[t] \notin subscriptions \/ on[t] \in invalid \cup needsResubscribe
  /\ MayRebuild(on[t])
  /\ needsResubscribe' = needsResubscribe \ {on[t]}

(* Backend::watch and WindowsBackend::subscribe, in one hold of mMutex *)
Subscribe(t) == LET w == on[t]
                    s == created + 1 IN
  /\ MustSubscribe(t)
  /\ s \in Sub /\ created' = s
  /\ invalid' = invalid \ {w}
  /\ pending' = pending \cup {w}
  /\ state' = [state EXCEPT ![w] = s]
  /\ sub' = [sub EXCEPT ![s] = NewSub(w)]
  /\ apcs' = Append(apcs, Call("run", s))
  /\ mine' = [mine EXCEPT ![t] = s]
  /\ wasInvalid' = [wasInvalid EXCEPT ![t] = w \in subscriptions]
  /\ Goto(t, "starting")
  /\ UNCHANGED <<subscriptions, cancelled, io, loopVars, on, faults>>

(* ... which throws: the constructor, or QueueUserAPC *)
SubscribeFails(t) == LET w == on[t] IN
  /\ MustSubscribe(t) /\ Fault
  /\ invalid' = IF w \in subscriptions THEN invalid \cup {w} ELSE invalid
  /\ state' \in {state, [state EXCEPT ![w] = NoSub]}
  /\ Goto(t, IF w \in subscriptions THEN "release" ELSE "watchUnref")
  /\ UNCHANGED <<subscriptions, pending, cancelled, subVars, loopVars, on, mine,
                 wasInvalid, created>>

(* finishSubscribe returns, Backend::watch inserts the watcher. *)
Started(t) ==
  /\ where[t] = "starting" /\ sub[mine[t]].start = "started"
  /\ pending' = pending \ {on[t]}
  /\ subscriptions' = subscriptions \cup {on[t]}
  /\ mine' = [mine EXCEPT ![t] = NoSub]
  /\ Goto(t, "release")
  /\ UNCHANGED <<invalid, needsResubscribe, cancelled, state, subVars, loopVars, on,
                 wasInvalid, boundVars>>

(* finishSubscribe with mStartError: requestStop, then waitForStop *)
StartFailed(t) ==
  /\ where[t] = "starting" /\ sub[mine[t]].start = "failed"
  /\ apcs' = StopQueued(mine[t])
  /\ sub' = StopRequested(mine[t])
  /\ Goto(t, "stopping")
  /\ UNCHANGED <<backendVars, io, loopVars, on, mine, wasInvalid, boundVars>>

(* mutant: whatever state the watcher has is cleared *)
AnyCleared(t) == [state EXCEPT ![on[t]] = NoSub]

(* if (watcher->state == state) watcher->state = nullptr *)
Cleared(t) == IF state[on[t]] = mine[t] THEN [state EXCEPT ![on[t]] = NoSub] ELSE state

(* waitForStop *)
HasStopped(s) == s # NoSub => sub[s].stopped

StartGivenUp(t) ==
  /\ where[t] = "stopping" /\ HasStopped(mine[t])
  /\ state' = Cleared(t)
  /\ pending' = pending \ {on[t]}
  /\ invalid' = IF wasInvalid[t] THEN invalid \cup {on[t]} ELSE invalid
  /\ mine' = [mine EXCEPT ![t] = NoSub]
  /\ Goto(t, IF wasInvalid[t] THEN "release" ELSE "watchUnref")
  /\ UNCHANGED <<subscriptions, needsResubscribe, cancelled, subVars, loopVars, on,
                 wasInvalid, boundVars>>

----------------------------------------------------------------------------
(* Backend::unwatch of a call (binding.cc) or of a cleanup hook *)
CallUnwatch(t, w) ==
  /\ where[t] = "out" /\ loopRunning
  /\ Goto(t, "unwatch")
  /\ on' = [on EXCEPT ![t] = w]
  /\ UNCHANGED <<backendVars, subVars, loopVars, mine, wasInvalid, boundVars>>

Released(t) == Goto(t, IF t \in Unreserved THEN "out" ELSE "release")

(* The watcher has callbacks again, or no subscription. *)
NothingToUnwatch(t) == LET w == on[t] IN
  /\ where[t] = "unwatch" /\ w \notin pending
  /\ \/ UNCHANGED invalid
     \/ w \notin subscriptions /\ invalid' = invalid \ {w}
  /\ Released(t)
  /\ UNCHANGED <<subscriptions, pending, needsResubscribe, cancelled, state, subVars,
                 loopVars, on, mine, wasInvalid, boundVars>>

(* Backend::unwatch and WindowsBackend::unsubscribe, in one hold of mMutex *)
Unwatch(t) == LET w == on[t] IN
  /\ where[t] = "unwatch" /\ w \in subscriptions \ pending
  /\ subscriptions' = subscriptions \ {w}
  /\ invalid' = invalid \ {w}
  /\ mine' = [mine EXCEPT ![t] = state[w]]
  /\ apcs' = StopQueued(state[w])
  /\ sub' = StopRequested(state[w])
  /\ Goto(t, "detach")
  /\ UNCHANGED <<pending, needsResubscribe, cancelled, state, io, loopVars, on,
                 wasInvalid, boundVars>>

(* QueueUserAPC fails: mStopRequested is taken back, the watcher reinserted. *)
UnwatchFails(t) == LET w == on[t] IN
  /\ where[t] = "unwatch" /\ w \in subscriptions \ pending
  /\ state[w] # NoSub /\ ~sub[state[w]].stopRequested /\ Fault
  /\ Released(t)
  /\ UNCHANGED <<backendVars, subVars, loopVars, on, mine, wasInvalid, created>>

(* finishUnsubscribe and removeBackend *)
FinishUnsubscribe(t) ==
  /\ where[t] = "detach" /\ HasStopped(mine[t])
  /\ state' = Cleared(t)
  /\ mine' = [mine EXCEPT ![t] = NoSub]
  /\ Goto(t, "unref")
  /\ UNCHANGED <<subscriptions, pending, invalid, needsResubscribe, cancelled, subVars,
                 loopVars, on, wasInvalid, boundVars>>

UnrefCall(t) ==
  /\ where[t] \in {"unref", "watchUnref"}
  /\ Unref(Reservations)
  /\ Released(t)
  /\ UNCHANGED <<backendVars, sub, io, loop, current, detaching, on, mine, wasInvalid, boundVars>>

(* releaseShared; the unref of the last reservation *)
ReleaseShared(t) ==
  /\ where[t] = "release"
  /\ Unref(Reservations \ {t})
  /\ Goto(t, "out")
  /\ UNCHANGED <<backendVars, sub, io, loop, current, detaching, on, mine, wasInvalid, boundVars>>

CallerStep(t) ==
  \/ NothingToWatch(t) \/ Subscribe(t) \/ SubscribeFails(t)
  \/ Started(t) \/ StartFailed(t) \/ StartGivenUp(t)
  \/ NothingToUnwatch(t) \/ Unwatch(t) \/ UnwatchFails(t) \/ FinishUnsubscribe(t)
  \/ UnrefCall(t) \/ ReleaseShared(t)

----------------------------------------------------------------------------
(* The kernel ends a read: something has changed, it failed, or CancelIoEx. *)
(* How it ended is chosen when its callback looks.                          *)
Complete(s) ==
  /\ io[s] # "none" /\ loop # "ended"
  /\ io' = [io EXCEPT ![s] = "none"]
  /\ apcs' = Append(apcs, Call("done", s))
  /\ UNCHANGED <<backendVars, sub, loopVars, callerVars, boundVars>>

(* SleepEx takes the first callback. *)
Take(kind) ==
  /\ loop \in {"asleep", "batch"} /\ apcs # <<>> /\ Head(apcs).kind = kind
  /\ apcs' = Tail(apcs)

First == Head(apcs).sub

Return == loop' = "batch" /\ current' = NoSub

Sleep ==
  /\ loop = "batch" /\ apcs = <<>>
  /\ loop' = IF loopRunning THEN "asleep" ELSE "ended"
  /\ UNCHANGED <<backendVars, subVars, current, detaching, loopRunning, callerVars, boundVars>>

RunNoop ==
  /\ Take("noop") /\ Return
  /\ UNCHANGED <<backendVars, sub, io, detaching, loopRunning, callerVars, boundVars>>

RunStop ==
  /\ Take("stop")
  /\ sub' = [sub EXCEPT ![First] = BegunStop(@)]
  /\ io' = CancelIo(First)
  /\ Return
  /\ UNCHANGED <<backendVars, detaching, loopRunning, callerVars, boundVars>>

(* Subscription::run: poll, which may throw *)
RunStart == LET s == First IN
  /\ Take("run")
  /\ \/ /\ io' = [io EXCEPT ![s] = IF sub[s].running THEN "inFlight" ELSE @]
        /\ sub' = [sub EXCEPT ![s].pollPending = @ \/ sub[s].running]
        /\ loop' = "reading" /\ current' = s
        /\ UNCHANGED faults
     \/ /\ sub[s].running /\ Fault
        /\ sub' = [sub EXCEPT ![s] = [StoppedHere(@) EXCEPT !.start = "failed"]]
        /\ UNCHANGED io
        /\ Return
  /\ UNCHANGED <<backendVars, detaching, loopRunning, callerVars, created>>

(* readTree has returned; a cancelled subscription stops here. *)
ReadTree == LET s == current
                w == sub[s].owner
                stops == w \in cancelled \/ sub[s].stopRequested IN
  /\ loop = "reading"
  /\ needsResubscribe' = IF stops THEN needsResubscribe \cup {w} ELSE needsResubscribe
  /\ sub' = [sub EXCEPT ![s] =
               [(IF stops THEN StoppedHere(@) ELSE @) EXCEPT !.start = "started"]]
  /\ io' = IF stops /\ ~sub[s].stopRequested THEN CancelIo(s) ELSE io
  /\ Return
  /\ UNCHANGED <<subscriptions, pending, invalid, cancelled, state, apcs, detaching,
                 loopRunning, callerVars, boundVars>>

(* ... or has thrown *)
ReadTreeFails == LET s == current IN
  /\ loop = "reading" /\ Fault
  /\ sub' = [sub EXCEPT ![s] = [StoppedHere(@) EXCEPT !.start = "failed"]]
  /\ io' = IF sub[s].stopRequested THEN io ELSE CancelIo(s)
  /\ Return
  /\ UNCHANGED <<backendVars, apcs, detaching, loopRunning, callerVars, created>>

----------------------------------------------------------------------------
(* The completion routine of a read: it clears mPollPending, then           *)
(* processEvents.                                                           *)
Completing(s) == Take("done") /\ s = First

(* beginStop was called before: this is the last callback *)
CompleteStop(s) ==
  /\ Completing(s) /\ ~sub[s].running
  /\ sub' = [sub EXCEPT ![s] = FinishedStop([@ EXCEPT !.pollPending = FALSE])]
  /\ Return
  /\ UNCHANGED <<backendVars, io, detaching, loopRunning, callerVars, boundVars>>

(* The next read is issued, then the records are read and told. *)
CompleteEvents(s) ==
  /\ Completing(s) /\ sub[s].running
  /\ io' = [io EXCEPT ![s] = "inFlight"]
  /\ Return
  /\ UNCHANGED <<backendVars, sub, detaching, loopRunning, callerVars, boundVars>>

FaultOf(s) ==
  /\ Completing(s) /\ sub[s].running /\ Fault
  /\ sub[s].owner \in pending => FaultsWhilePending

(* ERROR_INVALID_PARAMETER: once more, with the buffers of the network size *)
CompleteParameter(s) ==
  /\ FaultOf(s) /\ ~sub[s].small
  /\ sub' = [sub EXCEPT ![s].small = TRUE]
  /\ io' = [io EXCEPT ![s] = "inFlight"]
  /\ Return
  /\ UNCHANGED <<backendVars, detaching, loopRunning, callerVars, created>>

(* ERROR_NOTIFY_ENUM_DIR, no bytes or too many: no read is issued.          *)
(* A record that does not fit: the next read is in flight already.          *)
CompleteOverflow(s) ==
  /\ FaultOf(s)
  /\ \E next \in BOOLEAN :
       /\ sub' = [sub EXCEPT ![s].pollPending = next, ![s].overflowed = TRUE]
       /\ io' = IF next THEN [io EXCEPT ![s] = "inFlight"] ELSE io
  /\ loop' = "overflow" /\ current' = s
  /\ UNCHANGED <<backendVars, detaching, loopRunning, callerVars, created>>

(* A WatcherError: the directory is gone, an unknown error, or poll failed *)
CompleteError(s) ==
  /\ FaultOf(s)
  /\ sub' = [sub EXCEPT ![s].pollPending = FALSE]
  /\ loop' = "error" /\ current' = s
  /\ UNCHANGED <<backendVars, io, detaching, loopRunning, callerVars, created>>

(* failOverflow: invalidateCurrent, requestStop *)
InvalidateCurrent == LET w == sub[current].owner IN
  /\ loop = "overflow"
  /\ invalid' = IF w \in subscriptions THEN invalid \cup {w} ELSE invalid
  /\ loop' = "invalidated"
  /\ UNCHANGED <<subscriptions, pending, needsResubscribe, cancelled, state, subVars,
                 current, detaching, loopRunning, callerVars, boundVars>>

StopOverflowed == LET s == current IN
  /\ loop = "invalidated"
  /\ sub' = [sub EXCEPT ![s] = StoppedHere(@)]
  /\ io' = IF sub[s].stopRequested THEN io ELSE CancelIo(s)
  /\ Return
  /\ UNCHANGED <<backendVars, apcs, detaching, loopRunning, callerVars, boundVars>>

(* handleWatcherError: unwatch waits until the watcher is not pending; what *)
(* it stops then is the watcher's state, whichever Subscription that is.    *)
UnwatchFailed == LET w == sub[current].owner
                     s == state[w] IN
  /\ loop = "error" /\ w \in subscriptions \ pending
  /\ subscriptions' = subscriptions \ {w}
  /\ invalid' = invalid \ {w}
  /\ sub' = IF s = NoSub THEN sub ELSE [sub EXCEPT ![s] = StoppedHere(@)]
  /\ io' = IF s = NoSub \/ sub[s].stopRequested THEN io ELSE CancelIo(s)
  /\ loop' = "detach" /\ detaching' = s
  /\ UNCHANGED <<pending, needsResubscribe, cancelled, state, apcs, current,
                 loopRunning, callerVars, boundVars>>

(* Somebody else has unsubscribed it. *)
NothingFailed == LET w == sub[current].owner IN
  /\ loop = "error" /\ w \notin subscriptions \cup pending
  /\ invalid' = invalid \ {w}
  /\ Return
  /\ UNCHANGED <<subscriptions, pending, needsResubscribe, cancelled, state, subVars,
                 detaching, loopRunning, callerVars, boundVars>>

(* finishUnsubscribe: waitForStop on the thread that would have to stop it *)
DetachFailed == LET w == sub[current].owner IN
  /\ loop = "detach" /\ HasStopped(detaching)
  /\ state' = IF state[w] = detaching THEN [state EXCEPT ![w] = NoSub] ELSE state
  /\ loop' = "unref" /\ detaching' = NoSub
  /\ UNCHANGED <<subscriptions, pending, invalid, needsResubscribe, cancelled, subVars,
                 current, loopRunning, callerVars, boundVars>>

UnrefFailed ==
  /\ loop = "unref"
  /\ Unref(Reservations)
  /\ Return
  /\ UNCHANGED <<backendVars, sub, io, detaching, callerVars, boundVars>>

LoopStep ==
  \/ Sleep \/ RunNoop \/ RunStop \/ RunStart \/ ReadTree \/ ReadTreeFails
  \/ \E s \in Sub : \/ CompleteStop(s) \/ CompleteEvents(s) \/ CompleteParameter(s)
                    \/ CompleteOverflow(s) \/ CompleteError(s)
  \/ InvalidateCurrent \/ StopOverflowed
  \/ UnwatchFailed \/ NothingFailed \/ DetachFailed \/ UnrefFailed

WindowsNext ==
  \/ \E t \in Thread, w \in Watcher : CallWatch(t, w) \/ CallUnwatch(t, w)
  \/ \E w \in Watcher : Cancel(w)
  \/ \E t \in Thread : CallerStep(t)
  \/ \E s \in Sub : Complete(s)
  \/ LoopStep

(* The threads are scheduled and a cancelled read ends; nobody has to call, *)
(* nothing has to change and nothing has to fail.                           *)
WindowsSpec ==
  /\ WindowsInit /\ [][WindowsNext]_windowsVars
  /\ \A t \in Thread : WF_windowsVars(CallerStep(t))
  /\ WF_windowsVars(LoopStep)
  /\ \A s \in Sub : WF_windowsVars(io[s] = "cancelled" /\ Complete(s))

----------------------------------------------------------------------------
(* A callback finds its Subscription: one that has stopped, or that nothing *)
(* keeps alive, has no read in flight and no callback queued                *)
(* (WindowsBackend.cc:248: only beginStop makes the completion the last).   *)
StoppedIsIdle ==
  \A s \in Sub : sub[s].stopped \/ ~Alive(s) => io[s] = "none" /\ ~Queued(s)

(* A subscribed watcher is watched: unless a subscribe rebuilds it, or will,*)
(* its state is a Subscription of its own that nobody has stopped, with a   *)
(* read in flight or its end about to be handled (Backend.cc:160-163).      *)
SubscribedIsWatched ==
  \A w \in subscriptions \ (pending \cup invalid \cup needsResubscribe) :
    \E s \in Sub :
      /\ state[w] = s /\ sub[s].owner = w
      /\ sub[s].running /\ ~sub[s].stopRequested
      /\ io[s] # "none" \/ Queued(s) \/ current = s

(* Every call returns: waitForStart and waitForStop outside mMutex let the  *)
(* callbacks they wait for run (WindowsBackend.cc:618, 640).                *)
CallsReturn == \A t \in Thread : where[t] # "out" ~> where[t] = "out"

(* The error of an overflow is told once the Subscription has stopped, even *)
(* if an unsubscribe or the end of the thread gets in between.              *)
OverflowIsTold == \A s \in Sub : sub[s].overflowed ~> sub[s].told

============================================================================
