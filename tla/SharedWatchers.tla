--------------------------- MODULE SharedWatchers ---------------------------
(* The registry of shared watchers (src/src/Watcher.cc) and the JavaScript  *)
(* threads that use it: the constructors of SubscribeRunner and             *)
(* UnsubscribeRunner (src/src/binding.cc), the delivery of a watcher error, *)
(* the process exit listener and the environment cleanup hook.              *)
(*                                                                          *)
(* The registry has a mutex and so has every watcher; one action is one     *)
(* critical section or one atomic read-modify-write, so every interleaving  *)
(* the locks allow is a behaviour.  A JavaScript thread runs one call at a  *)
(* time; stage says where in that call it is.                               *)
EXTENDS Naturals, FiniteSets

CONSTANTS Watcher,    \* storage for watcher objects
          Key,        \* what makes two watchers equal: directory and ignores
          Env,        \* Node environments: the main thread and Workers
          Callback,   \* native callbacks
          EnvOf,      \* the environment each callback belongs to
          NoWatcher, NoKey

ASSUME EnvAssumption == IsFiniteSet(Env)
ASSUME CallbackAssumption == EnvOf \in [Callback -> Env]
ASSUME NoWatcherAssumption == NoWatcher \notin Watcher
ASSUME NoKeyAssumption == NoKey \notin Key

VARIABLES
  registry,      \* getSharedWatchers(): the watchers found by key
  keyOf,         \* [Watcher -> Key]: mDir, mIgnorePaths and mIgnoreGlobs
  callbacks,     \* mCallbacks
  closing,       \* the callbacks whose closing flag is set
  cancelled,     \* mCancelled
  reserved,      \* mSharedReservations
  errorCalls,    \* error calls queued on thread-safe functions, not yet run
  stage,         \* where each environment's JavaScript thread is
  at,            \* the watcher it works on there
  request,       \* the arguments of its current native call
  shouldUnwatch, \* UnsubscribeRunner::shouldUnwatch of that call
  exited,        \* environments whose process exit event was emitted
  todo,          \* watchers an exit listener or cleanup hook has still to visit
  toUnref        \* watchers a cleanup hook emptied and has still to unref

objectVars == <<keyOf, callbacks, closing, cancelled>>
threadVars == <<stage, at, request, shouldUnwatch>>
exitVars   == <<exited, todo, toUnref>>
watcherVars == <<registry, objectVars, reserved, errorCalls, threadVars, exitVars>>

Request(e) == [op : {"subscribe", "unsubscribe"}, key : Key,
               cb : {c \in Callback : EnvOf[c] = e}]

NoRequest == [op |-> "none"]

(* reserved  inside a Runner's constructor, holding a reservation           *)
(* emptied   Watcher::unwatch removed the last callback, unref is next      *)
(* release   about to give the reservation back                             *)
(* unref     about to call Watcher::unref with no reservation               *)
Holding == {"reserved", "emptied", "release"}
Stage == Holding \cup {"idle", "unref", "cancel", "cleanup"}

WatcherTypeOK ==
  /\ registry \subseteq Watcher
  /\ keyOf \in [Watcher -> Key \cup {NoKey}]
  /\ callbacks \in [Watcher -> SUBSET Callback]
  /\ closing \in [Watcher -> SUBSET Callback]
  /\ cancelled \in [Watcher -> BOOLEAN]
  /\ reserved \in [Watcher -> Nat]
  /\ errorCalls \subseteq Watcher \X Callback
  /\ stage \in [Env -> Stage]
  /\ at \in [Env -> Watcher \cup {NoWatcher}]
  /\ \A e \in Env : request[e] \in Request(e) \cup {NoRequest}
  /\ DOMAIN request = Env
  /\ shouldUnwatch \in [Env -> BOOLEAN]
  /\ exited \subseteq Env
  /\ todo \in [Env -> SUBSET Watcher]
  /\ toUnref \in [Env -> SUBSET Watcher]

WatcherInit ==
  /\ registry = {}
  /\ keyOf = [w \in Watcher |-> NoKey]
  /\ callbacks = [w \in Watcher |-> {}]
  /\ closing = [w \in Watcher |-> {}]
  /\ cancelled = [w \in Watcher |-> FALSE]
  /\ reserved = [w \in Watcher |-> 0]
  /\ errorCalls = {}
  /\ stage = [e \in Env |-> "idle"]
  /\ at = [e \in Env |-> NoWatcher]
  /\ request = [e \in Env |-> NoRequest]
  /\ shouldUnwatch = [e \in Env |-> FALSE]
  /\ exited = {}
  /\ todo = [e \in Env |-> {}]
  /\ toUnref = [e \in Env |-> {}]

----------------------------------------------------------------------------
(* Storage that no shared_ptr keeps alive can hold a new watcher. *)
Referenced == registry \cup {at[e] : e \in Env} \cup UNION {todo[e] : e \in Env}
           \cup UNION {toUnref[e] : e \in Env} \cup {p[1] : p \in errorCalls}

GetSharedFound(e, r, w) ==
  /\ w \in registry /\ keyOf[w] = r.key
  /\ UNCHANGED <<registry, keyOf, cancelled>>

GetSharedNew(e, r, w) ==
  /\ \A v \in registry : keyOf[v] # r.key
  /\ w \in Watcher \ Referenced
  /\ registry' = registry \cup {w}
  /\ keyOf' = [keyOf EXCEPT ![w] = r.key]
  /\ cancelled' = [cancelled EXCEPT ![w] = FALSE]

Reserve(w) == reserved' = [reserved EXCEPT ![w] = @ + 1]

(* Watcher::getShared, called first by both Runner constructors: the        *)
(* watcher with this key, created if need be, with one more reservation.    *)
GetShared(e, r, w) ==
  /\ stage[e] = "idle"
  /\ GetSharedFound(e, r, w) \/ GetSharedNew(e, r, w)
  /\ Reserve(w)
  /\ stage' = [stage EXCEPT ![e] = "reserved"]
  /\ at' = [at EXCEPT ![e] = w]
  /\ request' = [request EXCEPT ![e] = r]
  /\ shouldUnwatch' = [shouldUnwatch EXCEPT ![e] = FALSE]
  /\ UNCHANGED <<callbacks, closing, errorCalls, exitVars>>

(* Watcher::watch.  A callback that is registered already is left alone.    *)
Watch(e) ==
  /\ stage[e] = "reserved" /\ request[e].op = "subscribe"
  /\ callbacks' = [callbacks EXCEPT ![at[e]] = @ \cup {request[e].cb}]
  /\ cancelled' = [cancelled EXCEPT ![at[e]] = FALSE]
  /\ stage' = [stage EXCEPT ![e] = "release"]
  /\ UNCHANGED <<registry, keyOf, closing, reserved, errorCalls, at, request,
                 shouldUnwatch, exitVars>>

(* Watcher::watch when the thread-safe function cannot be created: it       *)
(* throws after it has reset mCancelled.                                    *)
WatchFails(e) ==
  /\ stage[e] = "reserved" /\ request[e].op = "subscribe"
  /\ request[e].cb \notin callbacks[at[e]]
  /\ cancelled' = [cancelled EXCEPT ![at[e]] = FALSE]
  /\ stage' = [stage EXCEPT ![e] = "release"]
  /\ UNCHANGED <<registry, keyOf, callbacks, closing, reserved, errorCalls, at,
                 request, shouldUnwatch, exitVars>>

(* mutant: becameEmpty does not ask whether the callback was found *)
LeftEmpty(w, c) == callbacks[w] \ {c} = {}

(* Erasing callback c of watcher w under mMutex; the watcher is cancelled   *)
(* when that was its last callback.                                         *)
Emptied(w, c) == c \in callbacks[w] /\ callbacks[w] \ {c} = {}

EraseCallback(w, c) ==
  /\ callbacks' = [callbacks EXCEPT ![w] = @ \ {c}]
  /\ closing' = [closing EXCEPT ![w] = @ \ {c}]
  /\ cancelled' = [cancelled EXCEPT ![w] = @ \/ Emptied(w, c)]

(* Watcher::unwatch from UnsubscribeRunner's constructor. *)
Unwatch(e) ==
  /\ stage[e] = "reserved" /\ request[e].op = "unsubscribe"
  /\ EraseCallback(at[e], request[e].cb)
  /\ shouldUnwatch' = [shouldUnwatch EXCEPT ![e] = Emptied(at[e], request[e].cb)]
  /\ stage' = [stage EXCEPT ![e] =
                 IF Emptied(at[e], request[e].cb) THEN "emptied" ELSE "release"]
  /\ UNCHANGED <<registry, keyOf, reserved, errorCalls, at, request, exitVars>>

(* mutant: unref does not look at the reservations *)
RemoveIfEmpty(w) ==
  registry' = IF callbacks[w] = {} THEN registry \ {w} ELSE registry

(* Watcher::unref, under the registry's and the watcher's mutex. *)
RemoveIfUnused(w) ==
  registry' = IF callbacks[w] = {} /\ reserved[w] = 0 THEN registry \ {w}
                                                      ELSE registry

(* The unref() at the end of Watcher::unwatch, with the reservation held. *)
UnwatchUnref(e) ==
  /\ stage[e] = "emptied"
  /\ RemoveIfUnused(at[e])
  /\ stage' = [stage EXCEPT ![e] = "release"]
  /\ UNCHANGED <<objectVars, reserved, errorCalls, at, request, shouldUnwatch,
                 exitVars>>

(* The native call, if any, is over and its thread is free. *)
Return(e) == /\ stage' = [stage EXCEPT ![e] = "idle"]
             /\ at' = [at EXCEPT ![e] = NoWatcher]
             /\ request' = [request EXCEPT ![e] = NoRequest]
             /\ shouldUnwatch' = [shouldUnwatch EXCEPT ![e] = FALSE]

(* Watcher::releaseShared: fetch_sub, and unref for the last reservation. *)
ReleaseShared(e) ==
  /\ stage[e] = "release"
  /\ reserved' = [reserved EXCEPT ![at[e]] = @ - 1]
  /\ IF reserved[at[e]] = 1
       THEN /\ stage' = [stage EXCEPT ![e] = "unref"]
            /\ UNCHANGED <<at, request, shouldUnwatch>>
       ELSE Return(e)
  /\ UNCHANGED <<registry, objectVars, errorCalls, exitVars>>

Unref(e) ==
  /\ stage[e] = "unref"
  /\ RemoveIfUnused(at[e])
  /\ Return(e)
  /\ UNCHANGED <<objectVars, reserved, errorCalls, exitVars>>

----------------------------------------------------------------------------
(* ~SubscribeRunner after the backend refused the subscription: the         *)
(* callback it added is removed again (nothing happens if it has gone).     *)
CleanupAfterFailure(e, w, c) ==
  /\ stage[e] = "idle" /\ EnvOf[c] = e /\ c \in callbacks[w]
  /\ EraseCallback(w, c)
  /\ IF Emptied(w, c)
       THEN /\ stage' = [stage EXCEPT ![e] = "unref"]
            /\ at' = [at EXCEPT ![e] = w]
       ELSE UNCHANGED <<stage, at>>
  /\ UNCHANGED <<registry, keyOf, reserved, errorCalls, request, shouldUnwatch,
                 exitVars>>

(* mutant: the loop over the callbacks ends at one that is closing *)
ErrorCallsUntilClosing(S) ==
  {p \in S \X Callback : /\ p[2] \in callbacks[p[1]] /\ closing[p[1]] = {}
                        /\ stage[EnvOf[p[2]]] # "cleanup"}

ErrorCallsTo(S) ==
  {p \in S \X Callback : /\ p[2] \in callbacks[p[1]] \ closing[p[1]]
                        /\ stage[EnvOf[p[2]]] # "cleanup"}

(* Watcher::notifyError, called on a backend's thread for the watchers S:   *)
(* every callback is marked closing and its error call queued.  The         *)
(* thread-safe functions of an environment that is being torn down refuse   *)
(* the call.  (The watchers of S are told one after the other; no step of   *)
(* another thread looks at the callbacks of two watchers at once.)          *)
NotifyError(S) ==
  /\ closing' = [w \in Watcher |-> IF w \in S THEN callbacks[w] ELSE closing[w]]
  /\ errorCalls' = errorCalls \cup ErrorCallsTo(S)
  /\ UNCHANGED <<registry, keyOf, callbacks, cancelled, reserved, threadVars,
                 exitVars>>

(* Watcher::triggerCallbacks, on the debounce thread: a batch of events for *)
(* every callback.  One whose thread-safe function is being torn down gets  *)
(* none, neither now nor later.                                             *)
TriggerCallbacks(w) ==
  /\ closing' = [closing EXCEPT ![w] =
                   @ \cup {c \in callbacks[w] : stage[EnvOf[c]] = "cleanup"}]
  /\ UNCHANGED <<registry, keyOf, callbacks, cancelled, reserved, errorCalls,
                 threadVars, exitVars>>

(* callJSFunction with an error, then Watcher::finishErrorCallback.  Only   *)
(* the registration whose id the call carries is erased: one that replaced  *)
(* it under the same callback is not closing.                               *)
FinishErrorCallback(e, w, c) ==
  /\ stage[e] = "idle" /\ EnvOf[c] = e /\ <<w, c>> \in errorCalls
  /\ errorCalls' = errorCalls \ {<<w, c>>}
  /\ LET left == callbacks[w] \ (closing[w] \cap {c})
     IN /\ callbacks' = [callbacks EXCEPT ![w] = left]
        /\ closing' = [closing EXCEPT ![w] = @ \ {c}]
        /\ cancelled' = [cancelled EXCEPT ![w] = @ \/ left = {}]
        /\ IF left = {}
             THEN /\ stage' = [stage EXCEPT ![e] = "unref"]
                  /\ at' = [at EXCEPT ![e] = w]
             ELSE UNCHANGED <<stage, at>>
  /\ UNCHANGED <<registry, keyOf, reserved, request, shouldUnwatch, exitVars>>

----------------------------------------------------------------------------
OfEnv(e, w) == {c \in callbacks[w] : EnvOf[c] = e}

(* mutant: callbacks of other environments do not count *)
HasAnyOf(e, w) == OfEnv(e, w) # {}

(* mutant: becameEmpty is computed before the callbacks are erased *)
EmptyAlready(e, w) == OfEnv(e, w) # {} /\ callbacks[w] = {}

(* All callbacks of w are e's, and there are some. *)
HasOnlyOf(e, w) == OfEnv(e, w) # {} /\ callbacks[w] = OfEnv(e, w)

(* Watcher::cancelEnvironment, the listener of the process exit event: it   *)
(* copies the registry, then locks one watcher after the other.             *)
CancelEnvironment(e) ==
  /\ stage[e] = "idle" /\ e \notin exited
  /\ exited' = exited \cup {e}
  /\ todo' = [todo EXCEPT ![e] = registry]
  /\ stage' = [stage EXCEPT ![e] = "cancel"]
  /\ UNCHANGED <<registry, objectVars, reserved, errorCalls, at, request,
                 shouldUnwatch, toUnref>>

CancelWatcher(e, w) ==
  /\ stage[e] = "cancel" /\ w \in todo[e]
  /\ todo' = [todo EXCEPT ![e] = @ \ {w}]
  /\ cancelled' = [cancelled EXCEPT ![w] = @ \/ HasOnlyOf(e, w)]
  /\ UNCHANGED <<registry, keyOf, callbacks, closing, reserved, errorCalls,
                 threadVars, exited, toUnref>>

CancelDone(e) ==
  /\ stage[e] = "cancel" /\ todo[e] = {}
  /\ stage' = [stage EXCEPT ![e] = "idle"]
  /\ UNCHANGED <<registry, objectVars, reserved, errorCalls, at, request,
                 shouldUnwatch, exitVars>>

(* Watcher::cleanupEnvironment, the environment's cleanup hook, after which *)
(* its thread runs no more JavaScript: queued calls are deleted unrun.      *)
CleanupEnvironment(e) ==
  /\ stage[e] = "idle"
  /\ todo' = [todo EXCEPT ![e] = registry]
  /\ stage' = [stage EXCEPT ![e] = "cleanup"]
  /\ errorCalls' = {p \in errorCalls : EnvOf[p[2]] # e}
  /\ exited' = exited \cup {e}
  /\ UNCHANGED <<registry, objectVars, reserved, at, request, shouldUnwatch,
                 toUnref>>

CleanupWatcher(e, w) ==
  /\ stage[e] = "cleanup" /\ w \in todo[e]
  /\ todo' = [todo EXCEPT ![e] = @ \ {w}]
  /\ callbacks' = [callbacks EXCEPT ![w] = @ \ OfEnv(e, w)]
  /\ closing' = [closing EXCEPT ![w] = @ \ OfEnv(e, w)]
  /\ cancelled' = [cancelled EXCEPT ![w] = @ \/ HasOnlyOf(e, w)]
  /\ toUnref' = [toUnref EXCEPT ![e] =
                   IF HasOnlyOf(e, w) THEN @ \cup {w} ELSE @]
  /\ UNCHANGED <<registry, keyOf, reserved, errorCalls, threadVars, exited>>

CleanupUnref(e, w) ==
  /\ stage[e] = "cleanup" /\ todo[e] = {} /\ w \in toUnref[e]
  /\ toUnref' = [toUnref EXCEPT ![e] = @ \ {w}]
  /\ RemoveIfUnused(w)
  /\ UNCHANGED <<objectVars, reserved, errorCalls, threadVars, exited, todo>>

----------------------------------------------------------------------------
WatcherNext ==
  \/ \E e \in Env :
       \/ \E r \in Request(e), w \in Watcher : GetShared(e, r, w)
       \/ Watch(e)
       \/ WatchFails(e)
       \/ Unwatch(e)
       \/ UnwatchUnref(e)
       \/ ReleaseShared(e)
       \/ Unref(e)
       \/ CancelEnvironment(e)
       \/ CancelDone(e)
       \/ CleanupEnvironment(e)
       \/ \E w \in Watcher :
            \/ CancelWatcher(e, w)
            \/ CleanupWatcher(e, w)
            \/ CleanupUnref(e, w)
            \/ \E c \in Callback : \/ CleanupAfterFailure(e, w, c)
                                   \/ FinishErrorCallback(e, w, c)
  \/ \E S \in SUBSET Watcher : NotifyError(S)
  \/ \E w \in Watcher : TriggerCallbacks(w)

WatcherSpec == WatcherInit /\ [][WatcherNext]_watcherVars

----------------------------------------------------------------------------
(* Two equal watchers are never registered at once, so every subscription   *)
(* with the same directory and options meets the same watcher: an           *)
(* unsubscribe finds the callback its subscribe added.                      *)
OnePerKey == \A v, w \in registry : keyOf[v] = keyOf[w] => v = w

(* A watcher somebody uses stays findable: unref must not unregister it     *)
(* while a callback is registered or a constructor is about to add or       *)
(* remove one, whatever thread drops the last reference meanwhile.          *)
UsedIsRegistered ==
  \A w \in Watcher : callbacks[w] # {} \/ reserved[w] > 0 => w \in registry

(* A watcher nobody uses is never forgotten in the registry: a thread is on *)
(* its way to unref it.  (releaseShared and unref are not one step, and the *)
(* callbacks, the reservations and the cleanup hook race to be last.)       *)
UnusedIsReclaimed ==
  \A w \in registry :
    \/ callbacks[w] # {}
    \/ reserved[w] > 0
    \/ \E e \in Env : \/ stage[e] = "unref" /\ at[e] = w
                      \/ w \in toUnref[e]

(* No environment can cancel the watcher of another one that still runs:    *)
(* a cancelled watcher has only callbacks of environments that exited.      *)
CancelledIsUnwanted ==
  \A w \in Watcher : cancelled[w] =>
    \A c \in callbacks[w] : EnvOf[c] \in exited

(* A callback that will get no more events is told so: its error call is    *)
(* queued, unless its environment is being torn down.                       *)
ClosingIsTold ==
  \A w \in Watcher : \A c \in closing[w] :
    <<w, c>> \in errorCalls \/ stage[EnvOf[c]] = "cleanup"

(* An error call counts once: the callback it closes is registered until    *)
(* then, and the watcher it will unref is the registered one.               *)
ClosingIsRegistered == \A w \in Watcher : closing[w] \subseteq callbacks[w]

(* The pairs that receive events, and the table of callbacks they form: the *)
(* registry implements it.                                                  *)
Table == UNION {{keyOf[w]} \X callbacks[w] : w \in registry}

SubscriptionTable == INSTANCE SubscriptionTable WITH table <- Table

ImplementsTable == SubscriptionTable!TableSpec
=============================================================================
