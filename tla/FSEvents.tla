------------------------------ MODULE FSEvents ------------------------------
(* The streams of the macOS backend (macos/FSEventsBackend.cc): a stream is *)
(* created and its tree scanned under mMutex while its callbacks already    *)
(* arrive on the backend's serial dispatch queue, and it is stopped from a  *)
(* caller, from a callback or after an error.                               *)
(*                                                                          *)
(* A block of the queue is a callback of a stream, an empty block somebody  *)
(* waits for, or the block that ends the initialization.  What a batch of   *)
(* events does to the index is FSEventsIndex's; here events are numbers,    *)
(* and a negative one tells that the root is gone (processEvents with       *)
(* RootChanged, or deletedRoot).  Backend::watch, unwatch and handleError   *)
(* are Backend.cc's, as far as one backend needs them.                      *)
EXTENDS Integers, FiniteSets, SequencesExt

CONSTANTS Watcher, Thread,
          MaxSubs, MaxChanges, MaxFaults, \* bounds
          StartsInRetire, \* a watcher is started again while its stream retires
          ErrorsInStart,  \* a callback throws while a start holds mMutex
          NoWatcher, NoThread, NoSub, NoBlock

ASSUME BoundsAssumption == MaxSubs \in Nat /\ MaxChanges \in Nat /\ MaxFaults \in Nat
ASSUME SwitchAssumption == StartsInRetire \in BOOLEAN /\ ErrorsInStart \in BOOLEAN
ASSUME NoneAssumption ==
  NoWatcher \notin Watcher /\ NoSub \notin 1..MaxSubs /\ NoThread \notin Thread

Sub == 1..MaxSubs          \* State objects and their streams, in order of creation

BlockRecord == [kind : {"callback", "flush", "handoff", "barrier"}, sub : Sub,
                events : Seq(Int)]

ASSUME NoBlockAssumption == NoBlock \notin BlockRecord

VARIABLES
  subscriptions, pending, invalid, \* Backend's sets of watchers
  needsResubscribe, cancelled,     \* watchers with the flag set
  state,                           \* watcher->state
  mutex,                           \* who holds mMutex over more than one step
  sub,                             \* the members of each State
  unseen, buffer, processed,       \* events: in the kernel, pendingEvents, processed
  happened,                        \* all events since the stream was started
  queue, block, at,                \* mQueue, the block it runs, where that is
  where, on, mine, wasInvalid,     \* callers: place, watcher, `state`
  failed,                          \* handleBackendError has retired the backend
  lastSub, changes, faults         \* how often: streams created, ...

backendVars == <<subscriptions, pending, invalid, needsResubscribe, cancelled, state, failed>>
eventVars   == <<unseen, buffer, processed, happened>>
queueVars   == <<queue, block, at>>
callerVars  == <<where, on, mine, wasInvalid>>
boundVars   == <<lastSub, changes, faults>>
fseventsVars == <<backendVars, mutex, sub, eventVars, queueVars, callerVars, boundVars>>

(* live: state->stream; stop: what stopStreamAfterCallback has still to do   *)
NewSub(w) == [owner |-> w, live |-> FALSE, running |-> FALSE, initializing |-> TRUE,
              stops |-> 0, stop |-> "none", cleaned |-> FALSE]

StreamRecord == [owner : Watcher \cup {NoWatcher}, live : BOOLEAN, running : BOOLEAN,
                 initializing : BOOLEAN, stops : Nat,
                 stop : {"none", "asked", "barrier", "done"}, cleaned : BOOLEAN]

(* watch scan flush flushed handoff finish   Backend::watch, startStream    *)
(* unwatch detach                            Backend::unwatch               *)
Place == {"out", "watch", "scan", "flush", "flushed", "handoff", "finish", "unwatch",
          "detach"}

FSEventsTypeOK ==
  /\ subscriptions \subseteq Watcher /\ pending \subseteq Watcher
  /\ invalid \subseteq Watcher /\ needsResubscribe \subseteq Watcher
  /\ cancelled \subseteq Watcher
  /\ state \in [Watcher -> Sub \cup {NoSub}] /\ failed \in BOOLEAN
  /\ mutex \in Thread \cup {NoThread}
  /\ sub \in [Sub -> StreamRecord]
  /\ unseen \in [Sub -> Seq(Int)] /\ buffer \in [Sub -> Seq(Int)]
  /\ processed \in [Sub -> Seq(Int)] /\ happened \in [Sub -> Seq(Int)]
  /\ queue \in Seq(BlockRecord)
  /\ \/ block = NoBlock /\ at = "idle"
     \/ block \in BlockRecord /\ at \in {"process", "retire", "error"}
  /\ where \in [Thread -> Place] /\ on \in [Thread -> Watcher]
  /\ mine \in [Thread -> Sub \cup {NoSub}] /\ wasInvalid \in [Thread -> BOOLEAN]
  /\ lastSub \in 0..MaxSubs /\ changes \in 0..MaxChanges /\ faults \in 0..MaxFaults

Nothing == [s \in Sub |-> <<>>]

FSEventsInit ==
  /\ subscriptions = {} /\ pending = {} /\ invalid = {}
  /\ needsResubscribe = {} /\ cancelled = {}
  /\ state = [w \in Watcher |-> NoSub] /\ failed = FALSE
  /\ mutex = NoThread
  /\ sub = [s \in Sub |-> NewSub(NoWatcher)]
  /\ unseen = Nothing /\ buffer = Nothing /\ processed = Nothing /\ happened = Nothing
  /\ queue = <<>> /\ block = NoBlock /\ at = "idle"
  /\ where = [t \in Thread |-> "out"] /\ on \in [Thread -> Watcher]
  /\ mine = [t \in Thread |-> NoSub] /\ wasInvalid = [t \in Thread |-> FALSE]
  /\ lastSub = 0 /\ changes = 0 /\ faults = 0

Goto(t, place) == where' = [where EXCEPT ![t] = place]

Fault == faults < MaxFaults /\ faults' = faults + 1

Free == mutex = NoThread

Block(kind, s, events) == [kind |-> kind, sub |-> s, events |-> events]

IsCallback(b, s) == b.kind = "callback" /\ b.sub = s

(* What waits in the kernel, as a callback in front of the caller's block *)
Flushed(s, b) ==
  (IF unseen[s] = <<>> THEN queue ELSE Append(queue, Block("callback", s, unseen[s])))
    \o <<b>>

(* mutant: the stream is loaded and not taken *)
TakenStill(s) == [s EXCEPT !.stops = @ + 1, !.stop = "asked"]

(* mutant: the stream is taken, and nobody stops it *)
TakenOnly(s) == [s EXCEPT !.live = FALSE]

(* state->stream.exchange(nullptr): whoever gets it calls                   *)
(* stopStreamAfterCallback.                                                 *)
Taken(s) == IF s.live
            THEN [s EXCEPT !.live = FALSE, !.stops = @ + 1, !.stop = "asked"] ELSE s

Stopped(s) == IF s = NoSub THEN sub ELSE [sub EXCEPT ![s] = Taken(@)]

----------------------------------------------------------------------------
(* Watcher::watch has registered the callback and reset mCancelled; the     *)
(* registry had the backend.                                                *)
CallWatch(t, w) ==
  /\ where[t] = "out" /\ ~failed
  /\ lastSub + Cardinality({u \in Thread : where[u] = "watch"}) < MaxSubs
  /\ Goto(t, "watch")
  /\ on' = [on EXCEPT ![t] = w]
  /\ cancelled' = cancelled \ {w}
  /\ UNCHANGED <<subscriptions, pending, invalid, needsResubscribe, state, failed, mutex,
                 sub, eventVars, queueVars, mine, wasInvalid, boundVars>>

Cancel(w) ==
  /\ w \notin cancelled /\ Fault
  /\ cancelled' = cancelled \cup {w}
  /\ UNCHANGED <<subscriptions, pending, invalid, needsResubscribe, state, failed, mutex,
                 sub, eventVars, queueVars, callerVars, lastSub, changes>>

NothingToWatch(t) == LET w == on[t] IN
  /\ where[t] = "watch" /\ Free /\ w \notin pending
  /\ \/ w \in cancelled
     \/ w \in subscriptions /\ w \notin invalid \cup needsResubscribe
  /\ Goto(t, "out")
  /\ UNCHANGED <<backendVars, mutex, sub, eventVars, queueVars, on, mine, wasInvalid,
                 boundVars>>

Retiring(s) == at = "retire" /\ block.sub = s

MustSubscribe(t) ==
  /\ where[t] = "watch" /\ Free /\ on[t] \notin pending \cup cancelled
  /\ on[t] \notin subscriptions \/ on[t] \in invalid \cup needsResubscribe
  /\ at = "error" => ErrorsInStart
  /\ Retiring(state[on[t]]) => StartsInRetire
  /\ needsResubscribe' = needsResubscribe \ {on[t]}

(* Backend::watch, subscribe, startStream until the stream has started.     *)
(* mMutex stays locked.                                                     *)
StartStream(t) == LET w == on[t]
                      s == lastSub + 1 IN
  /\ MustSubscribe(t)
  /\ s \in Sub /\ lastSub' = s
  /\ invalid' = invalid \ {w}
  /\ pending' = pending \cup {w}
  /\ state' = [state EXCEPT ![w] = s]
  /\ sub' = [sub EXCEPT ![s] = [NewSub(w) EXCEPT !.live = TRUE, !.running = TRUE]]
  /\ mine' = [mine EXCEPT ![t] = s]
  /\ wasInvalid' = [wasInvalid EXCEPT ![t] = w \in subscriptions]
  /\ mutex' = t
  /\ Goto(t, "scan")
  /\ UNCHANGED <<subscriptions, cancelled, failed, eventVars, queueVars, on, changes,
                 faults>>

(* checkWatcher, FSEventStreamCreate or FSEventStreamStart fails. *)
StartFails(t) == LET w == on[t] IN
  /\ MustSubscribe(t) /\ Fault
  /\ invalid' = IF w \in subscriptions THEN invalid \cup {w} ELSE invalid
  /\ state' = [state EXCEPT ![w] = NoSub]
  /\ Goto(t, "out")
  /\ UNCHANGED <<subscriptions, pending, cancelled, failed, mutex, sub, eventVars,
                 queueVars, on, mine, wasInvalid, lastSub, changes>>

(* The scan throws: the stream is stopped, the subscription given up. *)
ScanFails(t) == LET w == on[t] IN
  /\ where[t] = "scan" /\ Fault
  /\ sub' = Stopped(mine[t])
  /\ state' = [state EXCEPT ![w] = NoSub]
  /\ pending' = pending \ {w}
  /\ invalid' = IF wasInvalid[t] THEN invalid \cup {w} ELSE invalid
  /\ mine' = [mine EXCEPT ![t] = NoSub]
  /\ mutex' = NoThread
  /\ Goto(t, "out")
  /\ UNCHANGED <<subscriptions, needsResubscribe, cancelled, failed, eventVars,
                 queueVars, on, wasInvalid, lastSub, changes>>

ScanCancelled(t) == LET w == on[t] IN
  /\ where[t] = "scan" /\ w \in cancelled
  /\ needsResubscribe' = needsResubscribe \cup {w}
  /\ sub' = Stopped(mine[t])
  /\ mutex' = NoThread
  /\ Goto(t, "finish")
  /\ UNCHANGED <<subscriptions, pending, invalid, cancelled, state, failed, eventVars,
                 queueVars, on, mine, wasInvalid, boundVars>>

(* The index is in place: flushStreamCallbacks *)
Scan(t) == LET s == mine[t] IN
  /\ where[t] = "scan" /\ on[t] \notin cancelled
  /\ queue' = Flushed(s, Block("flush", s, <<>>))
  /\ unseen' = [unseen EXCEPT ![s] = <<>>]
  /\ Goto(t, "flush")
  /\ UNCHANGED <<backendVars, mutex, sub, buffer, processed, happened, block, at, on, mine,
                 wasInvalid, boundVars>>

(* Backend::watch inserts the watcher; finishSubscribe does nothing. *)
Finish(t) ==
  /\ where[t] = "finish" /\ Free
  /\ pending' = pending \ {on[t]}
  /\ subscriptions' = subscriptions \cup {on[t]}
  /\ mine' = [mine EXCEPT ![t] = NoSub]
  /\ Goto(t, "out")
  /\ UNCHANGED <<invalid, needsResubscribe, cancelled, state, failed, mutex, sub,
                 eventVars, queueVars, on, wasInvalid, boundVars>>

----------------------------------------------------------------------------
CallUnwatch(t, w) ==
  /\ where[t] = "out"
  /\ Goto(t, "unwatch")
  /\ on' = [on EXCEPT ![t] = w]
  /\ UNCHANGED <<backendVars, mutex, sub, eventVars, queueVars, mine, wasInvalid,
                 boundVars>>

(* The watcher has callbacks again, or no subscription. *)
NothingToUnwatch(t) == LET w == on[t] IN
  /\ where[t] = "unwatch" /\ Free /\ w \notin pending
  /\ \/ UNCHANGED invalid
     \/ w \notin subscriptions /\ invalid' = invalid \ {w}
  /\ Goto(t, "out")
  /\ UNCHANGED <<subscriptions, pending, needsResubscribe, cancelled, state, failed,
                 mutex, sub, eventVars, queueVars, on, mine, wasInvalid, boundVars>>

(* Backend::unwatch and FSEventsBackend::unsubscribe *)
Unwatch(t) == LET w == on[t] IN
  /\ where[t] = "unwatch" /\ Free /\ w \in subscriptions \ pending
  /\ subscriptions' = subscriptions \ {w}
  /\ invalid' = invalid \ {w}
  /\ sub' = Stopped(state[w])
  /\ mine' = [mine EXCEPT ![t] = state[w]]
  /\ Goto(t, "detach")
  /\ UNCHANGED <<pending, needsResubscribe, cancelled, state, failed, mutex, eventVars,
                 queueVars, on, wasInvalid, boundVars>>

(* finishUnsubscribe: cleanupComplete.wait(), then the state if it is still *)
(* this one                                                                 *)
FinishUnsubscribe(t) == LET w == on[t] IN
  /\ where[t] = "detach" /\ Free
  /\ mine[t] # NoSub => sub[mine[t]].cleaned
  /\ state' = IF state[w] = mine[t] THEN [state EXCEPT ![w] = NoSub] ELSE state
  /\ mine' = [mine EXCEPT ![t] = NoSub]
  /\ Goto(t, "out")
  /\ UNCHANGED <<subscriptions, pending, invalid, needsResubscribe, cancelled, failed,
                 mutex, sub, eventVars, queueVars, on, wasInvalid, boundVars>>

CallerStep(t) ==
  \/ NothingToWatch(t) \/ StartStream(t) \/ StartFails(t) \/ ScanFails(t)
  \/ ScanCancelled(t) \/ Scan(t) \/ Finish(t)
  \/ NothingToUnwatch(t) \/ Unwatch(t) \/ FinishUnsubscribe(t)

----------------------------------------------------------------------------
(* The file system and the FSEvents service *)
Change(w, root) == LET n == IF root THEN -(changes + 1) ELSE changes + 1
                       running == {s \in Sub : sub[s].owner = w /\ sub[s].running} IN
  /\ changes < MaxChanges /\ changes' = changes + 1
  /\ running # {}
  /\ unseen' = [s \in Sub |-> IF s \in running THEN Append(unseen[s], n) ELSE unseen[s]]
  /\ happened' = [s \in Sub |-> IF s \in running THEN Append(happened[s], n)
                                ELSE happened[s]]
  /\ UNCHANGED <<backendVars, mutex, sub, buffer, processed, queueVars, callerVars, lastSub,
                 faults>>

Deliver(s) ==
  /\ unseen[s] # <<>>
  /\ queue' = Append(queue, Block("callback", s, unseen[s]))
  /\ unseen' = [unseen EXCEPT ![s] = <<>>]
  /\ UNCHANGED <<backendVars, mutex, sub, buffer, processed, happened, block, at,
                 callerVars, boundVars>>

(* mutant: the stream is released without the empty block *)
StopStreamNow(s) ==
  /\ sub[s].stop = "asked"
  /\ sub' = [sub EXCEPT ![s].stop = "done", ![s].running = FALSE, ![s].cleaned = TRUE]
  /\ unseen' = [unseen EXCEPT ![s] = <<>>]
  /\ UNCHANGED <<backendVars, mutex, buffer, processed, happened, queueVars, callerVars,
                 boundVars>>

(* stopStreamAfterCallback on the global queue: FSEventStreamStop and       *)
(* Invalidate, then an empty block behind the callbacks already queued.     *)
StopStream(s) ==
  /\ sub[s].stop = "asked"
  /\ sub' = [sub EXCEPT ![s].stop = "barrier", ![s].running = FALSE]
  /\ unseen' = [unseen EXCEPT ![s] = <<>>]
  /\ queue' = Append(queue, Block("barrier", s, <<>>))
  /\ UNCHANGED <<backendVars, mutex, buffer, processed, happened, block, at, callerVars,
                 boundVars>>

----------------------------------------------------------------------------
(* mQueue: the first block runs when the one before has ended. *)
First == Head(queue)

Begins(kind) ==
  /\ block = NoBlock /\ queue # <<>> /\ First.kind = kind
  /\ queue' = Tail(queue)

AtOnce == UNCHANGED <<block, at>>

EndBlock == block' = NoBlock /\ at' = "idle"

(* FSEventsCallback: a stopped stream's events are dropped, early ones kept *)
CallbackLeaves == LET s == First.sub IN
  /\ Begins("callback") /\ AtOnce
  /\ ~sub[s].live \/ sub[s].initializing
  /\ buffer' = IF sub[s].live THEN [buffer EXCEPT ![s] = @ \o First.events] ELSE buffer
  /\ UNCHANGED <<backendVars, mutex, sub, unseen, processed, happened, callerVars,
                 boundVars>>

CallbackEnters ==
  /\ Begins("callback") /\ sub[First.sub].live /\ ~sub[First.sub].initializing
  /\ block' = First /\ at' = "process"
  /\ UNCHANGED <<backendVars, mutex, sub, eventVars, callerVars, boundVars>>

RootGone(events) == \E i \in DOMAIN events : events[i] < 0

(* processEvents.  With the root gone the stream is taken. *)
Process == LET s == block.sub
               retires == RootGone(block.events) /\ sub[s].live IN
  /\ at = "process"
  /\ processed' = [processed EXCEPT ![s] = @ \o block.events]
  /\ IF retires THEN /\ sub' = [sub EXCEPT ![s].live = FALSE]
                     /\ at' = "retire"
                     /\ UNCHANGED block
                ELSE EndBlock /\ UNCHANGED sub
  /\ UNCHANGED <<backendVars, mutex, unseen, buffer, happened, queue, callerVars,
                 boundVars>>

(* What follows the exchange: mNeedsResubscribe, stopStreamAfterCallback *)
Retire == LET s == block.sub IN
  /\ at = "retire"
  /\ needsResubscribe' = needsResubscribe \cup {sub[s].owner}
  /\ sub' = [sub EXCEPT ![s].stops = @ + 1, ![s].stop = "asked"]
  /\ EndBlock
  /\ UNCHANGED <<subscriptions, pending, invalid, cancelled, state, failed, mutex,
                 eventVars, queue, callerVars, boundVars>>

(* ... or it throws *)
ProcessThrows ==
  /\ at = "process" /\ Fault
  /\ ~Free => ErrorsInStart
  /\ processed' = [processed EXCEPT ![block.sub] = @ \o block.events]
  /\ at' = "error"
  /\ UNCHANGED <<backendVars, mutex, sub, unseen, buffer, happened, queue, block,
                 callerVars, lastSub, changes>>

(* handleBackendError: handleError stops every stream under mMutex. *)
HandleError ==
  /\ at = "error" /\ Free
  /\ failed' = TRUE
  /\ sub' = [s \in Sub |-> IF \E w \in subscriptions : state[w] = s THEN Taken(sub[s])
                           ELSE sub[s]]
  /\ EndBlock
  /\ UNCHANGED <<subscriptions, pending, invalid, needsResubscribe, cancelled, state,
                 mutex, eventVars, queue, callerVars, boundVars>>

(* The caller of a start goes on when its block has run. *)
FlushEnds(t) ==
  /\ Begins("flush") /\ AtOnce
  /\ where[t] = "flush" /\ mine[t] = First.sub
  /\ Goto(t, "flushed")
  /\ UNCHANGED <<backendVars, mutex, sub, eventVars, on, mine, wasInvalid, boundVars>>

HandOff(t) ==
  /\ where[t] = "flushed"
  /\ queue' = Append(queue, Block("handoff", mine[t], <<>>))
  /\ Goto(t, "handoff")
  /\ UNCHANGED <<backendVars, mutex, sub, eventVars, block, at, on, mine, wasInvalid,
                 boundVars>>

(* mutant: the events collected meanwhile are forgotten *)
BufferDropped(s) == processed

(* processEvents of the swapped pendingEvents *)
BufferHandled(s) == [processed EXCEPT ![s] = @ \o buffer[s]]

(* The last block of startStream; Backend::watch unlocks mMutex.  An        *)
(* exception here would reach handleError with mMutex held.                 *)
HandedOff(t) == LET s == First.sub
                    begun == [sub[s] EXCEPT !.initializing = FALSE] IN
  /\ Begins("handoff") /\ AtOnce
  /\ where[t] = "handoff" /\ mine[t] = s
  /\ IF sub[s].live
     THEN /\ processed' = BufferHandled(s)
          /\ buffer' = [buffer EXCEPT ![s] = <<>>]
          /\ IF RootGone(buffer[s])
             THEN /\ sub' = [sub EXCEPT ![s] = Taken(begun)]
                  /\ needsResubscribe' = needsResubscribe \cup {on[t]}
             ELSE /\ sub' = [sub EXCEPT ![s] = begun]
                  /\ UNCHANGED needsResubscribe
     ELSE UNCHANGED <<processed, buffer, sub, needsResubscribe>>
  /\ mutex' = NoThread
  /\ Goto(t, "finish")
  /\ UNCHANGED <<subscriptions, pending, invalid, cancelled, state, failed, unseen,
                 happened, on, mine, wasInvalid, boundVars>>

(* The empty block of stopStreamAfterCallback, which releases the stream *)
BarrierEnds == LET s == First.sub IN
  /\ Begins("barrier") /\ AtOnce
  /\ sub' = [sub EXCEPT ![s].stop = "done", ![s].cleaned = TRUE]
  /\ UNCHANGED <<backendVars, mutex, eventVars, callerVars, boundVars>>

QueueStep ==
  \/ CallbackLeaves \/ CallbackEnters \/ Process \/ Retire
  \/ ProcessThrows \/ HandleError \/ BarrierEnds
  \/ \E t \in Thread : FlushEnds(t) \/ HandedOff(t)

FSEventsNext ==
  \/ \E t \in Thread, w \in Watcher : CallWatch(t, w) \/ CallUnwatch(t, w)
  \/ \E w \in Watcher : Cancel(w)
  \/ \E w \in Watcher, root \in BOOLEAN : Change(w, root)
  \/ \E s \in Sub : Deliver(s) \/ StopStream(s)
  \/ \E t \in Thread : CallerStep(t) \/ HandOff(t)
  \/ QueueStep

(* The threads and both queues are scheduled; nobody has to call, nothing   *)
(* has to change or to fail.                                                *)
FSEventsSpec ==
  /\ FSEventsInit /\ [][FSEventsNext]_fseventsVars
  /\ \A t \in Thread : WF_fseventsVars(CallerStep(t)) /\ WF_fseventsVars(HandOff(t))
  /\ \A s \in Sub : WF_fseventsVars(StopStream(s))
  /\ WF_fseventsVars(QueueStep)

----------------------------------------------------------------------------
(* Once cleanupComplete is signalled, which releases the stream and lets    *)
(* finishUnsubscribe return, no callback of the stream runs or will run     *)
(* (FSEventsBackend.cc:88: stop and invalidate do not wait for one).        *)
CleanedIsQuiet ==
  \A s \in Sub : sub[s].cleaned =>
    /\ ~\E i \in DOMAIN queue : IsCallback(queue[i], s)
    /\ block # NoBlock => block.sub # s
    /\ unseen[s] = <<>>

(* A stream is stopped exactly once, whoever takes it, and none is left     *)
(* behind: as long as nobody has stopped it, it is the one its watcher's    *)
(* next unsubscribe finds (FSEventsBackend.cc:470, 655, 819, 914, 928).     *)
StoppedOnce ==
  \A s \in 1..lastSub :
    IF sub[s].live THEN sub[s].stops = 0 /\ state[sub[s].owner] = s
                   ELSE sub[s].stops = (IF Retiring(s) THEN 0 ELSE 1)

EventsOf(s, blocks) ==
  FlattenSeq([i \in DOMAIN blocks |->
               IF IsCallback(blocks[i], s) THEN blocks[i].events ELSE <<>>])

Running == IF at = "process" THEN <<block>> ELSE <<>>

(* No event of a live stream is lost, doubled or reordered between the      *)
(* scan, which they overtake, and the queue (FSEventsBackend.cc:838-862).   *)
EventsInOrder ==
  \A s \in 1..lastSub : sub[s].live =>
    happened[s] = processed[s] \o buffer[s] \o EventsOf(s, Running \o queue) \o unseen[s]

(* Every call returns: the queue runs while a start waits for it under      *)
(* mMutex, and each stream is cleaned (FSEventsBackend.cc:841, 942).        *)
CallsReturn == \A t \in Thread : where[t] # "out" ~> where[t] = "out"

============================================================================
