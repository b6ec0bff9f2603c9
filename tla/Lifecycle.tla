----------------------------- MODULE Lifecycle -----------------------------
(* The whole life of subscriptions (src/src/binding.cc and                  *)
(* src/src/PromiseRunner.hh): JavaScript threads that make native calls,    *)
(* asynchronous workers that carry them out, environments that exit, and    *)
(* the backends' threads.  It composes SharedWatchers and Backends: every   *)
(* action below is an action of one of them, or of both at once, plus the   *)
(* runner's own state, so a step is one critical section here too.          *)
(*                                                                          *)
(* A call is a native subscribe or unsubscribe with fixed arguments, made   *)
(* at most once; the thread that works for it is the call itself: first on  *)
(* its environment's JavaScript thread, then in the thread pool, last on    *)
(* the JavaScript thread again, where its promise is settled.               *)
EXTENDS SharedWatchers, Backends

CONSTANTS Call,    \* native calls
          NoCall,
          Plan,    \* their arguments, and the call each one waits for
          Mortal,  \* environments that may end while others go on
          Faults   \* what may go wrong: "callback", "start", "scan", "poll"
                   \* and the loss of native watches, "loss"

ASSUME CallAssumption ==
  /\ NoCall \notin Call
  /\ Plan \in [Call -> [op : {"subscribe", "unsubscribe"}, key : Key,
                        cb : Callback, backend : Name,
                        after : Call \cup {NoCall}]]
  /\ Mortal \subseteq Env
ASSUME CompositionAssumption == /\ Subject = Watcher /\ NoSubject = NoWatcher
                                /\ Thread = Call \cup Env /\ Call \cap Env = {}

VARIABLES
  task,        \* how far each call is
  fate,        \* whether it succeeded
  watcherOf,   \* the runner's reference to its watcher
  added,       \* SubscribeRunner::addedCallback
  mustUnwatch, \* UnsubscribeRunner::shouldUnwatch
  stopped,     \* its scan met a cancelled watcher and stopped early
  turn,        \* the call each JavaScript thread is inside of
  ending,      \* environments that run no more JavaScript
  backendsOf,  \* mBackends of each watcher
  toUnwatch    \* what a cleanup hook has still to unwatch

runnerVars == <<task, fate, watcherOf, added, mustUnwatch, stopped>>
envVars    == <<turn, ending, toUnwatch>>
vars == <<watcherVars, backendVars, runnerVars, envVars, backendsOf>>

(* new            not made yet                                              *)
(* native         inside the native function                                *)
(* queued         waiting for a worker                                      *)
(* checking       has seen the watcher not cancelled                        *)
(* subscribing    in Backend::watch                                         *)
(* rechecking     about to look whether the callback is still wanted        *)
(* unsubscribing  in Backend::unwatch                                       *)
(* releasing      giving back the backend's reservation, then waiting for   *)
(*                the JavaScript thread                                     *)
(* settled        the promise is resolved or rejected                       *)
Task == {"new", "native", "queued", "checking", "subscribing", "rechecking", "unsubscribing",
         "releasing", "settled"}

LifecycleTypeOK ==
  /\ task \in [Call -> Task]
  /\ fate \in [Call -> {"good", "failed"}]
  /\ watcherOf \in [Call -> Watcher \cup {NoWatcher}]
  /\ added \in [Call -> BOOLEAN] /\ mustUnwatch \in [Call -> BOOLEAN]
  /\ stopped \in [Call -> BOOLEAN]
  /\ turn \in [Env -> Call \cup {NoCall}]
  /\ ending \subseteq Env
  /\ backendsOf \in [Watcher -> SUBSET Backend]
  /\ toUnwatch \in [Env -> SUBSET (Watcher \X Backend)]
  /\ \A t \in Call : /\ task[t] \in {"new", "settled"} => where[t] = "out"
                     /\ task[t] \in {"new", "native", "settled"} \/ watcherOf[t] \in Watcher
                     /\ reserving[t] => task[t] \notin {"new", "settled"}

Init == /\ WatcherInit /\ BackendInit
        /\ task = [t \in Call |-> "new"]
        /\ fate = [t \in Call |-> "good"]
        /\ watcherOf = [t \in Call |-> NoWatcher]
        /\ added = [t \in Call |-> FALSE]
        /\ mustUnwatch = [t \in Call |-> FALSE]
        /\ stopped = [t \in Call |-> FALSE]
        /\ turn = [e \in Env |-> NoCall]
        /\ ending = {}
        /\ backendsOf = [w \in Watcher |-> {}]
        /\ toUnwatch = [e \in Env |-> {}]

EnvOfCall(t) == EnvOf[Plan[t].cb]

(* mutant: unwatch does not ask whether somebody wants the watcher again *)
NotAsked(w) == FALSE

HasCallbacks(w) == callbacks[w] # {}

HasCallbacksForEnv(w, e) == \E c \in callbacks[w] : EnvOf[c] = e

(* The JavaScript thread of e is between two callbacks from the event loop. *)
Free(e) == stage[e] = "idle" /\ turn[e] = NoCall

Become(t, what) == task' = [task EXCEPT ![t] = what]
Resolved(t) == task[t] = "settled" /\ fate[t] = "good"

----------------------------------------------------------------------------
(* queueSubscriptionWork: the backend is selected, then the runner is       *)
(* constructed, on the JavaScript thread and without giving it up.          *)
CallNative(t) ==
  /\ task[t] = "new" /\ Free(EnvOfCall(t)) /\ EnvOfCall(t) \notin ending
  /\ Plan[t].after # NoCall => Resolved(Plan[t].after)
  /\ GetBackend(t, Plan[t].backend)
  /\ turn' = [turn EXCEPT ![EnvOfCall(t)] = t]
  /\ Become(t, "native")
  /\ UNCHANGED <<watcherVars, fate, watcherOf, added, mustUnwatch, stopped, ending,
                 toUnwatch, backendsOf>>

SelectBackend(t) ==
  /\ task[t] = "native"
  /\ \/ FindBackend(t) /\ UNCHANGED backendsOf
     \/ FindDefault(t) /\ UNCHANGED backendsOf
     \/ StartBackend(t) /\ UNCHANGED backendsOf
     \/ EmplaceBackend(t) /\ UNCHANGED backendsOf
     \/ \E b \in Backend :
          /\ \A e \in Env : \A p \in toUnwatch[e] : p[2] # b
          /\ CreateBackend(t, b)
          /\ backendsOf' = [w \in Watcher |-> backendsOf[w] \ {b}]
  /\ UNCHANGED <<watcherVars, runnerVars, envVars>>

SelectFails(t) ==
  /\ task[t] = "native" /\ "start" \in Faults
  /\ StartFails(t)
  /\ Become(t, "settled")
  /\ fate' = [fate EXCEPT ![t] = "failed"]
  /\ turn' = [turn EXCEPT ![EnvOfCall(t)] = NoCall]
  /\ UNCHANGED <<watcherVars, watcherOf, added, mustUnwatch, stopped, ending,
                 toUnwatch, backendsOf>>

(* No runner, backend or cleanup hook points to this storage. *)
Expired(w) == /\ \A t \in Call : watcherOf[t] # w
              /\ \A e \in Env : subject[e] # w
              /\ \A e \in Env : \A p \in toUnwatch[e] :
                   w \notin {p[1]} \cup subscriptions[p[2]] \cup pending[p[2]]

ConstructRunner(t) ==
  LET e == EnvOfCall(t)
      r == [op |-> Plan[t].op, key |-> Plan[t].key, cb |-> Plan[t].cb]
  IN /\ task[t] = "native" /\ where[t] = "held" /\ watcherOf[t] = NoWatcher
     /\ \E w \in Watcher :
          /\ GetShared(e, r, w)
          /\ watcherOf' = [watcherOf EXCEPT ![t] = w]
          /\ IF w \in registry
               THEN UNCHANGED <<backendVars, backendsOf>>
               ELSE /\ Expired(w)
                    /\ NewSubject(w)
                    /\ backendsOf' = [backendsOf EXCEPT ![w] = {}]
     /\ UNCHANGED <<task, fate, added, mustUnwatch, stopped, envVars>>

RegisterCallback(t) ==
  LET e == EnvOfCall(t)
  IN /\ turn[e] = t /\ Watch(e)
     /\ added' = [added EXCEPT ![t] = Plan[t].cb \notin callbacks[at[e]]]
     /\ UNCHANGED <<backendVars, task, fate, watcherOf, mustUnwatch, stopped,
                    envVars, backendsOf>>

RegisterFails(t) ==
  /\ turn[EnvOfCall(t)] = t /\ "callback" \in Faults
  /\ WatchFails(EnvOfCall(t))
  /\ fate' = [fate EXCEPT ![t] = "failed"]
  /\ UNCHANGED <<backendVars, task, watcherOf, added, mustUnwatch, stopped, envVars,
                 backendsOf>>

RemoveCallback(t) ==
  LET e == EnvOfCall(t)
  IN /\ turn[e] = t /\ Unwatch(e)
     /\ mustUnwatch' = [mustUnwatch EXCEPT ![t] = Emptied(at[e], Plan[t].cb)]
     /\ UNCHANGED <<backendVars, task, fate, watcherOf, added, stopped, envVars,
                    backendsOf>>

(* The constructor returns: the work is queued and the JavaScript thread    *)
(* goes on; when it throws, the same thread releases the backend first.     *)
ReleaseWatcher(t) ==
  LET e == EnvOfCall(t)
  IN /\ turn[e] = t
     /\ UnwatchUnref(e) \/ ReleaseShared(e) \/ Unref(e)
     /\ CASE stage'[e] # "idle" -> UNCHANGED <<task, turn>>
          [] stage'[e] = "idle" /\ fate[t] = "good" ->
               /\ Become(t, "queued")
               /\ turn' = [turn EXCEPT ![e] = NoCall]
          [] stage'[e] = "idle" /\ fate[t] = "failed" ->
               Become(t, "releasing") /\ UNCHANGED turn
     /\ UNCHANGED <<backendVars, fate, watcherOf, added, mustUnwatch, stopped, ending,
                    toUnwatch, backendsOf>>

----------------------------------------------------------------------------
(* PromiseRunner::onExecute, on a thread of the pool. *)
UnchangedByPool == <<watcherVars, added, mustUnwatch, watcherOf, envVars>>

(* SubscribeRunner::execute asks two questions of its watcher first. *)
BeginSubscribe(t) ==
  /\ task[t] = "queued" /\ Plan[t].op = "subscribe"
  /\ Become(t, IF cancelled[watcherOf[t]] THEN "rechecking" ELSE "checking")
  /\ UNCHANGED <<UnchangedByPool, backendVars, fate, stopped, backendsOf>>

CheckCallbacks(t) ==
  /\ task[t] = "checking"
  /\ IF HasCallbacksForEnv(watcherOf[t], EnvOfCall(t))
       THEN CallWatch(t, watcherOf[t]) /\ Become(t, "subscribing")
       ELSE Become(t, "rechecking") /\ UNCHANGED backendVars
  /\ UNCHANGED <<UnchangedByPool, fate, stopped, backendsOf>>

BackendWatch(t) ==
  LET w == watcherOf[t]
  IN /\ task[t] = "subscribing"
     /\ \/ WatchWaits(t)
        \/ WatchCancelled(t, cancelled[w])
        \/ WatchSubscribed(t, cancelled[w])
        \/ WatchScans(t, cancelled[w])
        \/ WatchUnref(t)
        \/ FinishWatch(t)
     /\ UNCHANGED <<UnchangedByPool, task, fate, stopped, backendsOf>>

(* addCreatedTree returns as if it were done when it meets a cancelled      *)
(* watcher; subscribe asks once more after it.                              *)
ScanStops(t) ==
  /\ task[t] = "subscribing" /\ where[t] = "scan" /\ Watching(on[t])
  /\ cancelled[watcherOf[t]] /\ ~stopped[t]
  /\ stopped' = [stopped EXCEPT ![t] = TRUE]
  /\ UNCHANGED <<UnchangedByPool, backendVars, task, fate, backendsOf>>

ScanEnds(t) ==
  /\ task[t] = "subscribing"
  /\ \/ ~stopped[t] /\ ~cancelled[watcherOf[t]] /\ ScanCompletes(t)
     \/ /\ stopped[t] \/ Watching(on[t])
        /\ cancelled[watcherOf[t]] /\ ScanCancelled(t)
     \/ stopped[t] /\ ~cancelled[watcherOf[t]] /\ ScanTruncated(t)
     \/ /\ ~stopped[t]
        /\ "scan" \in Faults \/ ~Watching(on[t])
        /\ ScanFails(t)
  /\ stopped' = [stopped EXCEPT ![t] = FALSE]
  /\ UNCHANGED <<UnchangedByPool, task, fate, backendsOf>>

(* backend->watch returned, and addBackend remembers the backend, or threw. *)
SubscribeDone(t) ==
  /\ task[t] = "subscribing" /\ where[t] = "held"
  /\ IF threw[t]
       THEN /\ fate' = [fate EXCEPT ![t] = "failed"]
            /\ Become(t, "releasing")
            /\ UNCHANGED backendsOf
       ELSE /\ backendsOf' = [backendsOf EXCEPT ![watcherOf[t]] = @ \cup {on[t]}]
            /\ Become(t, "rechecking")
            /\ UNCHANGED fate
  /\ UNCHANGED <<UnchangedByPool, backendVars, stopped>>

(* mutant: nobody looks again *)
NoRecheck(t) ==
  /\ task[t] = "rechecking"
  /\ Become(t, "releasing")
  /\ UNCHANGED <<UnchangedByPool, backendVars, fate, stopped, backendsOf>>

(* The callback may have been removed while its subscription was made. *)
Recheck(t) ==
  /\ task[t] = "rechecking"
  /\ IF HasCallbacksForEnv(watcherOf[t], EnvOfCall(t))
       THEN Become(t, "releasing") /\ UNCHANGED backendVars
       ELSE CallUnwatch(t, watcherOf[t]) /\ Become(t, "unsubscribing")
  /\ UNCHANGED <<UnchangedByPool, fate, stopped, backendsOf>>

(* UnsubscribeRunner::execute *)
BeginUnsubscribe(t) ==
  /\ task[t] = "queued" /\ Plan[t].op = "unsubscribe"
  /\ IF mustUnwatch[t]
       THEN CallUnwatch(t, watcherOf[t]) /\ Become(t, "unsubscribing")
       ELSE Become(t, "releasing") /\ UNCHANGED backendVars
  /\ UNCHANGED <<UnchangedByPool, fate, stopped, backendsOf>>

(* Backend::unwatch by call or cleanup hook t.  unsubscribe throws only if  *)
(* the kernel refuses to remove a watch; that is left out here.             *)
BackendUnwatch(t) ==
  /\ \/ /\ \/ UnwatchWaits(t)
           \/ UnwatchKeeps(t, HasCallbacks(subject[t]))
           \/ UnwatchRemoves(t, HasCallbacks(subject[t]))
           \/ UnwatchUnrefs(t)
        /\ UNCHANGED backendsOf
     \/ /\ DetachWatcher(t)
        /\ backendsOf' = [backendsOf EXCEPT ![subject[t]] = @ \ {on[t]}]
  /\ UNCHANGED <<UnchangedByPool, task, fate, stopped>>

UnsubscribeDone(t) ==
  /\ task[t] = "unsubscribing" /\ where[t] = "held"
  /\ Become(t, "releasing")
  /\ UNCHANGED <<UnchangedByPool, backendVars, fate, stopped, backendsOf>>

(* releaseBackend, or backend->releaseShared after a failed constructor. *)
Release(t) ==
  /\ task[t] = "releasing"
  /\ ReleaseBackend(t) \/ LastUnref(t)
  /\ UNCHANGED <<UnchangedByPool, task, fate, stopped, backendsOf>>

WorkComplete(t) == task[t] = "releasing" /\ where[t] = "out"

(* PromiseRunner::onWorkComplete, back on the JavaScript thread: the        *)
(* promise is settled and the runner deleted.  It runs while an ending      *)
(* environment waits for its work, too.  A failed constructor ends here     *)
(* with an exception, inside the native call.                               *)
Settle(t) ==
  LET e == EnvOfCall(t) w == watcherOf[t] c == Plan[t].cb
  IN /\ WorkComplete(t)
     /\ stage[e] = "idle" /\ turn[e] \in {NoCall, t}
     /\ IF fate[t] = "failed" /\ added[t] /\ c \in callbacks[w]
          THEN CleanupAfterFailure(e, w, c)
          ELSE UNCHANGED watcherVars
     /\ Become(t, "settled")
     /\ watcherOf' = [watcherOf EXCEPT ![t] = NoWatcher]
     /\ turn' = [turn EXCEPT ![e] = NoCall]
     /\ UNCHANGED <<backendVars, fate, added, mustUnwatch, stopped, ending, toUnwatch,
                    backendsOf>>

----------------------------------------------------------------------------
(* The JavaScript thread of e outside of a native call. *)
DeliverError(e) ==
  /\ Free(e) /\ e \notin ending
  /\ \E w \in Watcher, c \in Callback : FinishErrorCallback(e, w, c)
  /\ UNCHANGED <<backendVars, runnerVars, envVars, backendsOf>>

UnrefEmptied(e) ==
  /\ turn[e] = NoCall /\ Unref(e)
  /\ UNCHANGED <<backendVars, runnerVars, envVars, backendsOf>>

(* An environment ends by process.exit, which emits the exit event ...      *)
Exit(e) ==
  /\ e \in Mortal /\ Free(e) /\ e \notin ending
  /\ CancelEnvironment(e)
  /\ ending' = ending \cup {e}
  /\ UNCHANGED <<backendVars, runnerVars, turn, toUnwatch, backendsOf>>

CancelEach(e) ==
  /\ CancelDone(e) \/ \E w \in Watcher : CancelWatcher(e, w)
  /\ UNCHANGED <<backendVars, runnerVars, envVars, backendsOf>>

(* ... or by worker.terminate(), which does not. *)
Terminate(e) ==
  /\ e \in Mortal /\ Free(e) /\ e \notin ending
  /\ ending' = ending \cup {e}
  /\ UNCHANGED <<watcherVars, backendVars, runnerVars, turn, toUnwatch, backendsOf>>

(* Node completes the asynchronous work of an environment before it runs    *)
(* its cleanup hooks.                                                       *)
Cleanup(e) ==
  /\ e \in ending /\ Free(e)
  /\ \A t \in Call : EnvOfCall(t) = e => task[t] \in {"new", "settled"}
  /\ CleanupEnvironment(e)
  /\ UNCHANGED <<backendVars, runnerVars, envVars, backendsOf>>

(* weak_ptr::lock succeeds as long as somebody points to the backend. *)
Alive(b) == ~Unreferenced(b) \/ \E e \in Env : \E p \in toUnwatch[e] : p[2] = b

CleanupVisit(e) ==
  /\ \E w \in Watcher :
       /\ CleanupWatcher(e, w)
       /\ toUnwatch' = [toUnwatch EXCEPT ![e] =
                          IF HasOnlyOf(e, w)
                            THEN @ \cup ({w} \X {b \in backendsOf[w] : Alive(b)})
                            ELSE @]
  /\ UNCHANGED <<backendVars, runnerVars, turn, ending, backendsOf>>

(* Every emptied watcher is unref'ed and then unwatched on its backends,    *)
(* one watcher after the other.                                             *)
CleanupUnrefNext(e) ==
  /\ where[e] = "out" /\ \A p \in toUnwatch[e] : p[1] \in toUnref[e]
  /\ \E w \in Watcher : CleanupUnref(e, w)
  /\ UNCHANGED <<backendVars, runnerVars, envVars, backendsOf>>

CleanupUnwatch(e) ==
  /\ stage[e] = "cleanup" /\ todo[e] = {}
  /\ \E p \in toUnwatch[e] :
       /\ p[1] \notin toUnref[e]
       /\ CallUnwatchOn(e, p[2], p[1])
       /\ toUnwatch' = [toUnwatch EXCEPT ![e] = @ \ {p}]
  /\ UNCHANGED <<watcherVars, runnerVars, turn, ending, backendsOf>>

----------------------------------------------------------------------------
(* A backend's own thread. *)
LoseWatches(b) ==
  /\ "loss" \in Faults
  /\ \E S \in SUBSET Watcher : Invalidate(b, S)
  /\ UNCHANGED <<watcherVars, runnerVars, envVars, backendsOf>>

PollFails(b) ==
  /\ "poll" \in Faults /\ BackendFails(b)
  /\ UNCHANGED <<watcherVars, runnerVars, envVars, backendsOf>>

(* mutant: the callbacks are closed and not called *)
CloseCallbacks(b) ==
  /\ HandleError(b)
  /\ closing' = [w \in Watcher |-> IF w \in subscriptions[b] \cup pending[b]
                                    THEN callbacks[w] ELSE closing[w]]
  /\ UNCHANGED <<registry, keyOf, callbacks, cancelled, reserved, errorCalls,
                 threadVars, exitVars, runnerVars, envVars, backendsOf>>

TellError(b) ==
  /\ HandleError(b)
  /\ NotifyError(subscriptions[b] \cup pending[b])
  /\ UNCHANGED <<runnerVars, envVars, backendsOf>>

(* mutant: the backend leaves the registry before it has told its watchers *)
RetireFirst(b) ==
  /\ phase[b] \in {"failing", "failed"}
  /\ phase' = [phase EXCEPT ![b] = "retired"]
  /\ shared' = [n \in Name |-> IF shared[n] = b THEN NoBackend ELSE shared[n]]
  /\ UNCHANGED <<reservations, subscriptionVars, where, localVars, watcherVars,
                 runnerVars, envVars, backendsOf>>

Retire(b) ==
  /\ RemoveShared(b)
  /\ UNCHANGED <<watcherVars, runnerVars, envVars, backendsOf>>

(* The debounce thread. *)
DeliverEvents(w) ==
  /\ TriggerCallbacks(w)
  /\ UNCHANGED <<backendVars, runnerVars, envVars, backendsOf>>

----------------------------------------------------------------------------
(* What a call does once it was made. *)
CallStep(t) ==
  \/ SelectBackend(t)
  \/ SelectFails(t)
  \/ ConstructRunner(t)
  \/ RegisterCallback(t)
  \/ RegisterFails(t)
  \/ RemoveCallback(t)
  \/ ReleaseWatcher(t)
  \/ BeginSubscribe(t)
  \/ CheckCallbacks(t)
  \/ BackendWatch(t)
  \/ ScanStops(t)
  \/ ScanEnds(t)
  \/ SubscribeDone(t)
  \/ Recheck(t)
  \/ BeginUnsubscribe(t)
  \/ BackendUnwatch(t)
  \/ UnsubscribeDone(t)
  \/ Release(t)
  \/ Settle(t)

(* What the event loop and the end of an environment go through with. *)
EnvStep(e) ==
  \/ DeliverError(e)
  \/ UnrefEmptied(e)
  \/ CancelEach(e)
  \/ Cleanup(e)
  \/ CleanupVisit(e)
  \/ CleanupUnrefNext(e)
  \/ CleanupUnwatch(e)
  \/ BackendUnwatch(e)

ErrorStep(b) == TellError(b) \/ Retire(b)

Next ==
  \/ \E t \in Call : CallNative(t) \/ CallStep(t)
  \/ \E e \in Env : EnvStep(e) \/ Exit(e) \/ Terminate(e)
  \/ \E b \in Backend : ErrorStep(b) \/ LoseWatches(b) \/ PollFails(b)
  \/ \E w \in Watcher : DeliverEvents(w)

Spec == Init /\ [][Next]_vars

(* Threads keep running: those of the pool, JavaScript threads (callbacks   *)
(* return to the event loop) and a backend's.  Nobody has to make a call,   *)
(* to exit or to fail.                                                      *)
Fairness == /\ \A t \in Call : WF_vars(CallStep(t))
            /\ \A e \in Env : WF_vars(EnvStep(e))
            /\ \A b \in Backend : WF_vars(ErrorStep(b))

FairSpec == Spec /\ Fairness

----------------------------------------------------------------------------
(* The promise of subscribe call t was resolved, nobody has asked to undo   *)
(* it, and its environment goes on.                                         *)
Counted(t) ==
  /\ Plan[t].op = "subscribe" /\ Resolved(t) /\ EnvOfCall(t) \notin ending
  /\ \A u \in Call : /\ Plan[u].op = "unsubscribe"
                     /\ Plan[u].key = Plan[t].key /\ Plan[u].cb = Plan[t].cb
                     => task[u] = "new"

Served(w, b) == w \in subscriptions[b] /\ phase[b] = "running"

(* A subscription whose promise was resolved is there: its callback is      *)
(* registered with the watcher and a running backend has the watcher among  *)
(* its subscriptions, whatever other calls and environments did before and  *)
(* since (their unsubscribe, their failure, their cleanup hook).            *)
ResolvedIsSubscribed ==
  \A t \in Call : Counted(t) =>
    \E w \in registry : /\ keyOf[w] = Plan[t].key /\ Plan[t].cb \in callbacks[w]
                       /\ \E b \in Backend : Served(w, b)

(* Where the watches of such a subscription are not in place, the backend   *)
(* knows: the next subscribe with the same options rebuilds them.           *)
LostIsRebuilt ==
  \A t \in Call, w \in registry :
    Counted(t) /\ keyOf[w] = Plan[t].key /\ Plan[t].cb \in callbacks[w] \ closing[w] =>
      \E b \in Backend : /\ Served(w, b) \/ phase[b] = "failing"
                         /\ \/ w \in installed[b]
                            \/ MustRebuild(b, w)

(* Nobody is at work: what is left now stays until somebody calls.          *)
Quiet == /\ \A t \in Call : task[t] \in {"new", "settled"}
         /\ \A t \in Thread : where[t] = "out"
         /\ \A e \in Env : \/ Free(e) /\ e \notin ending
                           \/ /\ stage[e] = "cleanup" /\ todo[e] = {}
                              /\ toUnref[e] = {} /\ toUnwatch[e] = {}

(* No subscription outlives its last callback: when all is quiet a running  *)
(* backend watches nothing that nobody listens to.                          *)
SubscriptionIsWanted ==
  Quiet => \A b \in Backend, w \in Watcher : Served(w, b) => callbacks[w] # {}

(* Every call comes to an end: the waits on pending subscriptions, on the   *)
(* backend's mutex during scans and for the JavaScript thread all pass.     *)
CallsSettle == \A t \in Call : task[t] = "native" ~> task[t] = "settled"

(* An environment that ends gets through its cleanup hook, which waits for  *)
(* calls of other environments.                                             *)
EnvironmentsLeave ==
  \A e \in Env : e \in ending ~>
    /\ stage[e] = "cleanup" /\ where[e] = "out"
    /\ todo[e] = {} /\ toUnref[e] = {} /\ toUnwatch[e] = {}
=============================================================================
