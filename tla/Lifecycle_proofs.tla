-------------------------- MODULE Lifecycle_proofs --------------------------
(* The composition of SharedWatchers and Backends by the native calls is    *)
(* faithful to both: what is proved of each part holds of the whole, for    *)
(* any calls, environments, watchers and backends and any faults.  From     *)
(* there the two promises of the whole: a subscription whose promise was    *)
(* resolved stays (SubscriptionsAreKept), and none stays that nobody        *)
(* listens to (SubscriptionsAreWanted).                                     *)
EXTENDS Lifecycle, SharedWatchers_proofs, Backends_proofs

(* A native call keeps its environment's JavaScript thread until it has     *)
(* queued its work, or has failed and thrown: only its runner's constructor *)
(* works on a watcher meanwhile.                                            *)
TurnsOK ==
  /\ \A e \in Env : turn[e] # NoCall => EnvOfCall(turn[e]) = e
  /\ \A t \in Call : task[t] = "native" => turn[EnvOfCall(t)] = t
  /\ \A e \in Env : turn[e] # NoCall /\ stage[e] # "idle" => watcherOf[turn[e]] \in Watcher

(* The invariants of the two parts, the types of the runners and whose turn *)
(* it is.                                                                   *)
LifecycleInv == WatcherInv /\ BackendInv /\ LifecycleTypeOK /\ TurnsOK

(* A call runs on a JavaScript thread and on a thread of the pool, both of  *)
(* which the parts know.                                                    *)
LEMMA CallTypes ==
  ASSUME NEW t \in Call
  PROVE  /\ t \in Thread /\ EnvOfCall(t) \in Env
         /\ Plan[t].key \in Key /\ Plan[t].cb \in Callback /\ Plan[t].backend \in Name
         /\ Plan[t].op \in {"subscribe", "unsubscribe"}
  BY CallAssumption, CompositionAssumption, CallbackAssumption DEF EnvOfCall

(* The state of the runners has its types, and so has what Watcher.cc and   *)
(* Backend.cc keep for them.                                                *)
LEMMA StateTypes ==
  ASSUME LifecycleInv
  PROVE  /\ WatcherTypeOK /\ BackendTypeOK /\ PlacesOK /\ LifecycleTypeOK /\ TurnsOK
  BY DEF LifecycleInv, WatcherInv, BackendInv

(* Before the first native call no runner and no backend exists.            *)
LEMMA LifecycleInitInv == Init => LifecycleInv
<1> SUFFICES ASSUME Init PROVE LifecycleInv
  OBVIOUS
<1>1. WatcherInv /\ BackendInv
  BY InitInv, BackendInitInv DEF Init
<1>2. LifecycleTypeOK
  BY CompositionAssumption DEF Init, BackendInit, LifecycleTypeOK, Task
<1>3. TurnsOK
  BY DEF Init, TurnsOK
<1> QED
  BY <1>1, <1>2, <1>3 DEF LifecycleInv

(* Every step is a step of the registry of watchers, or leaves it alone.    *)
LEMMA WatcherSteps ==
  ASSUME LifecycleInv, [Next]_vars
  PROVE  [WatcherNext]_watcherVars
<1>0. WatcherTypeOK /\ BackendTypeOK /\ LifecycleTypeOK
  BY StateTypes
<1>1. ASSUME NEW t \in Call, CallNative(t) \/ SelectBackend(t) \/ SelectFails(t)
      PROVE  [WatcherNext]_watcherVars
  BY <1>1 DEF CallNative, SelectBackend, SelectFails
<1>2. ASSUME NEW t \in Call, ConstructRunner(t)
      PROVE  [WatcherNext]_watcherVars
  <2> DEFINE r == [op |-> Plan[t].op, key |-> Plan[t].key, cb |-> Plan[t].cb]
  <2>1. PICK w \in Watcher : GetShared(EnvOfCall(t), r, w)
    BY <1>2 DEF ConstructRunner
  <2>2. r \in Request(EnvOfCall(t)) /\ EnvOfCall(t) \in Env
    BY CallTypes DEF Request, EnvOfCall
  <2> QED
    BY <2>1, <2>2 DEF WatcherNext
<1>3. ASSUME NEW t \in Call, \/ RegisterCallback(t) \/ RegisterFails(t)
                             \/ RemoveCallback(t) \/ ReleaseWatcher(t)
      PROVE  [WatcherNext]_watcherVars
  BY <1>3, CallTypes DEF RegisterCallback, RegisterFails, RemoveCallback, ReleaseWatcher,
    WatcherNext
<1>4. ASSUME NEW t \in Call, \/ BeginSubscribe(t) \/ CheckCallbacks(t) \/ BackendWatch(t)
                             \/ ScanStops(t) \/ ScanEnds(t) \/ SubscribeDone(t)
      PROVE  [WatcherNext]_watcherVars
  BY <1>4 DEF BeginSubscribe, CheckCallbacks, BackendWatch, ScanStops, ScanEnds, SubscribeDone,
    UnchangedByPool
<1>5. ASSUME NEW t, \/ Recheck(t) \/ BeginUnsubscribe(t) \/ BackendUnwatch(t)
                    \/ UnsubscribeDone(t) \/ Release(t)
      PROVE  [WatcherNext]_watcherVars
  BY <1>5 DEF Recheck, BeginUnsubscribe, BackendUnwatch, UnsubscribeDone, Release,
    UnchangedByPool
<1>6. ASSUME NEW t \in Call, Settle(t)
      PROVE  [WatcherNext]_watcherVars
  <2>1. watcherOf[t] \in Watcher
    BY <1>0, <1>6 DEF Settle, WorkComplete, LifecycleTypeOK
  <2>2. \/ CleanupAfterFailure(EnvOfCall(t), watcherOf[t], Plan[t].cb)
        \/ UNCHANGED watcherVars
    BY <1>6 DEF Settle
  <2> QED
    BY <2>1, <2>2, CallTypes DEF WatcherNext
<1>7. ASSUME NEW e \in Env, \/ DeliverError(e) \/ UnrefEmptied(e) \/ CancelEach(e)
                            \/ Cleanup(e) \/ CleanupVisit(e) \/ CleanupUnrefNext(e) \/ Exit(e)
      PROVE  [WatcherNext]_watcherVars
  BY <1>7 DEF DeliverError, UnrefEmptied, CancelEach, Cleanup, CleanupVisit, CleanupUnrefNext,
    Exit, WatcherNext
<1>8. ASSUME NEW e \in Env, CleanupUnwatch(e) \/ Terminate(e)
      PROVE  [WatcherNext]_watcherVars
  BY <1>8 DEF CleanupUnwatch, Terminate
<1>9. ASSUME NEW b \in Backend, TellError(b)
      PROVE  [WatcherNext]_watcherVars
  <2>1. subscriptions[b] \cup pending[b] \in SUBSET Watcher
    BY <1>0, CompositionAssumption DEF BackendTypeOK
  <2> QED
    BY <1>9, <2>1 DEF TellError, WatcherNext
<1>10. ASSUME NEW b \in Backend, Retire(b) \/ LoseWatches(b) \/ PollFails(b)
       PROVE  [WatcherNext]_watcherVars
  BY <1>10 DEF Retire, LoseWatches, PollFails
<1>11. ASSUME NEW w \in Watcher, DeliverEvents(w)
       PROVE  [WatcherNext]_watcherVars
  BY <1>11 DEF DeliverEvents, WatcherNext
<1>12. CASE UNCHANGED vars
  BY <1>12 DEF vars
<1> QED
  BY <1>1, <1>2, <1>3, <1>4, <1>5, <1>6, <1>7, <1>8, <1>9, <1>10, <1>11, <1>12
  DEF Next, CallStep, EnvStep, ErrorStep

(* A call's thread takes steps of the backends' functions, or it leaves     *)
(* the threads there where they are.                                        *)
LEMMA CallSteps ==
  ASSUME LifecycleInv, NEW t \in Call, CallNative(t) \/ CallStep(t)
  PROVE  \/ CallerStep(t)
         \/ UNCHANGED backendVars
         \/ \E w \in Watcher : NewSubject(w) /\ ConstructRunner(t)
<1>0. WatcherTypeOK /\ LifecycleTypeOK
  BY StateTypes
<1>1. CASE CallNative(t) \/ SelectBackend(t) \/ SelectFails(t)
  BY <1>1, CallTypes DEF CallNative, SelectBackend, SelectFails, CallerStep
<1>2. CASE ConstructRunner(t)
  BY <1>2 DEF ConstructRunner
<1>3. CASE \/ RegisterCallback(t) \/ RegisterFails(t) \/ RemoveCallback(t) \/ ReleaseWatcher(t)
           \/ BeginSubscribe(t) \/ ScanStops(t) \/ SubscribeDone(t) \/ UnsubscribeDone(t)
           \/ Settle(t)
  BY <1>3 DEF RegisterCallback, RegisterFails, RemoveCallback, ReleaseWatcher, BeginSubscribe,
    ScanStops, SubscribeDone, UnsubscribeDone, Settle
<1>4. CASE CheckCallbacks(t) \/ Recheck(t) \/ BeginUnsubscribe(t)
  <2>1. watcherOf[t] \in Subject
    BY <1>0, <1>4, CompositionAssumption DEF CheckCallbacks, Recheck, BeginUnsubscribe,
      LifecycleTypeOK
  <2> QED
    BY <1>4, <2>1 DEF CheckCallbacks, Recheck, BeginUnsubscribe, CallerStep
<1>5. CASE BackendWatch(t)
  <2>1. cancelled[watcherOf[t]] \in BOOLEAN
    BY <1>0, <1>5 DEF BackendWatch, LifecycleTypeOK, WatcherTypeOK
  <2> QED
    BY <1>5, <2>1, Zenon DEF BackendWatch, CallerStep
<1>6. CASE ScanEnds(t) \/ Release(t)
  BY <1>6 DEF ScanEnds, Release, CallerStep
<1>7. CASE BackendUnwatch(t)
  <2>1. HasCallbacks(subject[t]) \in BOOLEAN
    BY DEF HasCallbacks
  <2> QED
    BY <1>7, <2>1, Zenon DEF BackendUnwatch, CallerStep
<1> QED
  BY <1>1, <1>2, <1>3, <1>4, <1>5, <1>6, <1>7 DEF CallStep

(* So does the JavaScript thread of an environment, whose cleanup hook      *)
(* calls Backend::unwatch without a reservation.                            *)
LEMMA EnvSteps ==
  ASSUME LifecycleInv, NEW e \in Env, EnvStep(e) \/ Exit(e) \/ Terminate(e)
  PROVE  CallerStep(e) \/ UNCHANGED backendVars
<1>0. LifecycleTypeOK
  BY StateTypes
<1>1. CASE \/ DeliverError(e) \/ UnrefEmptied(e) \/ CancelEach(e) \/ Cleanup(e)
           \/ CleanupVisit(e) \/ CleanupUnrefNext(e) \/ Exit(e) \/ Terminate(e)
  BY <1>1 DEF DeliverError, UnrefEmptied, CancelEach, Cleanup, CleanupVisit, CleanupUnrefNext,
    Exit, Terminate
<1>2. CASE CleanupUnwatch(e)
  <2>1. PICK p \in toUnwatch[e] : CallUnwatchOn(e, p[2], p[1])
    BY <1>2 DEF CleanupUnwatch
  <2>2. p[1] \in Subject /\ p[2] \in Backend
    BY <1>0, CompositionAssumption DEF LifecycleTypeOK
  <2> QED
    BY <2>1, <2>2 DEF CallerStep
<1>3. CASE BackendUnwatch(e)
  <2>1. HasCallbacks(subject[e]) \in BOOLEAN
    BY DEF HasCallbacks
  <2> QED
    BY <1>3, <2>1, Zenon DEF BackendUnwatch, CallerStep
<1> QED
  BY <1>1, <1>2, <1>3 DEF EnvStep

(* Every step is a step of the backends, or leaves them alone.              *)
LEMMA BackendSteps ==
  ASSUME LifecycleInv, [Next]_vars
  PROVE  [BackendNext]_backendVars
<1>1. ASSUME NEW t \in Call, CallNative(t) \/ CallStep(t)
      PROVE  [BackendNext]_backendVars
  BY <1>1, CallSteps, CallTypes, CompositionAssumption DEF BackendNext
<1>2. ASSUME NEW e \in Env, EnvStep(e) \/ Exit(e) \/ Terminate(e)
      PROVE  [BackendNext]_backendVars
  BY <1>2, EnvSteps, CompositionAssumption DEF BackendNext
<1>3. ASSUME NEW b \in Backend, TellError(b) \/ Retire(b) \/ LoseWatches(b) \/ PollFails(b)
      PROVE  [BackendNext]_backendVars
  BY <1>3, CompositionAssumption DEF TellError, Retire, LoseWatches, PollFails, BackendNext,
    BackendStep
<1>4. ASSUME NEW w \in Watcher, DeliverEvents(w)
      PROVE  [BackendNext]_backendVars
  BY <1>4 DEF DeliverEvents
<1>5. CASE UNCHANGED vars
  BY <1>5 DEF vars
<1> QED
  BY <1>1, <1>2, <1>3, <1>4, <1>5 DEF Next, ErrorStep

----------------------------------------------------------------------------
(* A thread in the backends' functions leaves the others where they are: it *)
(* may wake the ones that wait for a pending subscription.                  *)
Woken(u) == \/ where[u] = "watchBlocked" /\ where'[u] = "watch"
            \/ where[u] = "unwatchBlocked" /\ where'[u] = "unwatch"

(* The locals of a thread in the backends' functions; its place may change  *)
(* by a notify_all only.                                                    *)
SameThread(u) ==
  /\ on'[u] = on[u] /\ subject'[u] = subject[u] /\ name'[u] = name[u]
  /\ reserving'[u] = reserving[u] /\ threw'[u] = threw[u]
  /\ where'[u] = where[u] \/ Woken(u)

(* A step of one thread in Backend.cc changes no other thread's locals and  *)
(* wakes at most those that wait on mPendingCondition.                      *)
LEMMA OtherThreads ==
  ASSUME BackendTypeOK, NEW t \in Thread, CallerStep(t), NEW u \in Thread \ {t}
  PROVE  SameThread(u)
<1> USE DEF BackendTypeOK, Goto, SameThread, Woken, registryVars, subscriptionVars, localVars
<1>1. CASE \/ \E n \in Name : GetBackend(t, n)
           \/ FindBackend(t) \/ FindDefault(t)
           \/ \E b \in Backend : CreateBackend(t, b)
           \/ StartBackend(t) \/ StartFails(t) \/ EmplaceBackend(t)
           \/ ReleaseBackend(t) \/ LastUnref(t)
  BY <1>1 DEF GetBackend, FindBackend, FindDefault, CreateBackend, StartBackend, StartFails,
    EmplaceBackend, ReleaseBackend, LastUnref
<1>2. CASE \E s \in Subject : \/ CallWatch(t, s) \/ CallUnwatch(t, s)
                              \/ \E b \in Backend : CallUnwatchOn(t, b, s)
  BY <1>2 DEF CallWatch, CallUnwatch, CallUnwatchOn
<1>3. CASE \/ WatchWaits(t) \/ UnwatchWaits(t) \/ DetachWatcher(t)
           \/ ScanCompletes(t) \/ ScanCancelled(t) \/ ScanTruncated(t) \/ WatchUnref(t)
  BY <1>3 DEF WatchWaits, UnwatchWaits, DetachWatcher, ScanCompletes, ScanCancelled,
    ScanTruncated, WatchUnref
<1>4. CASE \E isCancelled \in BOOLEAN : \/ WatchCancelled(t, isCancelled)
                                        \/ WatchSubscribed(t, isCancelled)
                                        \/ WatchScans(t, isCancelled)
  BY <1>4 DEF WatchCancelled, WatchSubscribed, WatchScans
<1>5. CASE ScanFails(t) \/ FinishFails(t) \/ FinishWatch(t)
  BY <1>5 DEF ScanFails, FinishFails, AbandonWatch, FinishWatch, WakeAndGoto
<1>6. CASE \/ \E isWanted \in BOOLEAN : \/ UnwatchKeeps(t, isWanted)
                                        \/ UnwatchRemoves(t, isWanted)
                                        \/ UnwatchThrows(t, isWanted)
           \/ UnwatchUnrefs(t)
  BY <1>6 DEF UnwatchKeeps, UnwatchRemoves, UnwatchThrows, UnwatchUnrefs, Back
<1> QED
  BY <1>1, <1>2, <1>3, <1>4, <1>5, <1>6 DEF CallerStep

----------------------------------------------------------------------------
(* LifecycleTypeOK in two parts: the ranges of the runners' variables ...   *)
RangesOK ==
  /\ task \in [Call -> Task]
  /\ fate \in [Call -> {"good", "failed"}]
  /\ watcherOf \in [Call -> Watcher \cup {NoWatcher}]
  /\ added \in [Call -> BOOLEAN] /\ mustUnwatch \in [Call -> BOOLEAN]
  /\ stopped \in [Call -> BOOLEAN]
  /\ turn \in [Env -> Call \cup {NoCall}]
  /\ ending \subseteq Env
  /\ backendsOf \in [Watcher -> SUBSET Backend]
  /\ toUnwatch \in [Env -> SUBSET (Watcher \X Backend)]

(* ... and where the runner of a call is meanwhile.                         *)
CallOK(t) ==
  /\ task[t] \in {"new", "settled"} => where[t] = "out"
  /\ task[t] \in {"new", "native", "settled"} \/ watcherOf[t] \in Watcher

(* The native functions and the work of a runner in the pool keep the       *)
(* ranges: a runner holds a watcher, its watcher remembers backends.        *)
LEMMA CallRanges ==
  ASSUME LifecycleInv, NEW t \in Call, CallNative(t) \/ CallStep(t)
  PROVE  RangesOK'
<1>0. /\ RangesOK /\ WatcherTypeOK /\ BackendTypeOK /\ PlacesOK /\ TurnsOK
      /\ EnvOfCall(t) \in Env /\ t \in Thread /\ LifecycleTypeOK
  BY StateTypes, CallTypes DEF LifecycleTypeOK, RangesOK
<1> USE DEF RangesOK, Task, Become, runnerVars, envVars
<1>1. CASE CallNative(t) \/ SelectFails(t)
  BY <1>0, <1>1 DEF CallNative, SelectFails
<1>2. CASE SelectBackend(t)
  BY <1>0, <1>2 DEF SelectBackend
<1>3. CASE ConstructRunner(t)
  BY <1>0, <1>3 DEF ConstructRunner
<1>4. CASE RegisterCallback(t)
  <2>1. added' \in [Call -> BOOLEAN]
    BY <1>0, <1>4, Zenon DEF RegisterCallback
  <2> QED
    BY <1>0, <1>4, <2>1 DEF RegisterCallback
<1>5. CASE RemoveCallback(t)
  <2>1. mustUnwatch' \in [Call -> BOOLEAN]
    <3>1. Emptied(at[EnvOfCall(t)], Plan[t].cb) \in BOOLEAN
      BY DEF Emptied
    <3> QED
      BY <1>0, <1>5, <3>1, Zenon DEF RemoveCallback
  <2> QED
    BY <1>0, <1>5, <2>1 DEF RemoveCallback
<1>6. CASE RegisterFails(t)
  BY <1>0, <1>6 DEF RegisterFails
<1>7. CASE ReleaseWatcher(t)
  BY <1>0, <1>7 DEF ReleaseWatcher
<1> USE DEF UnchangedByPool
<1>8. CASE BeginSubscribe(t) \/ CheckCallbacks(t) \/ Recheck(t) \/ BeginUnsubscribe(t)
  BY <1>0, <1>8 DEF BeginSubscribe, CheckCallbacks, Recheck, BeginUnsubscribe
<1>9. CASE BackendWatch(t) \/ UnsubscribeDone(t) \/ Release(t)
  BY <1>0, <1>9 DEF BackendWatch, UnsubscribeDone, Release
<1>10. CASE ScanStops(t) \/ ScanEnds(t)
  <2>1. stopped' \in [Call -> BOOLEAN]
    BY <1>0, <1>10, Zenon DEF ScanStops, ScanEnds
  <2> QED
    BY <1>0, <1>10, <2>1 DEF ScanStops, ScanEnds
<1>11. CASE SubscribeDone(t)
  <2>1. on[t] \in Backend
    BY <1>0, <1>11 DEF SubscribeDone, PlacesOK, BackendTypeOK
  <2> QED
    BY <1>0, <1>11, <2>1 DEF SubscribeDone
<1>12. CASE BackendUnwatch(t)
  BY <1>0, <1>12 DEF BackendUnwatch
<1>13. CASE Settle(t)
  BY <1>0, <1>13 DEF Settle
<1> QED
  BY <1>1, <1>2, <1>3, <1>4, <1>5, <1>6, <1>7, <1>8, <1>9, <1>10, <1>11, <1>12, <1>13
  DEF CallStep

(* So does the end of an environment: a cleanup hook has to unwatch         *)
(* watchers on backends.                                                    *)
LEMMA EnvRanges ==
  ASSUME LifecycleInv, NEW e \in Env, EnvStep(e) \/ Exit(e) \/ Terminate(e)
  PROVE  RangesOK'
<1>0. RangesOK
  BY StateTypes DEF LifecycleTypeOK, RangesOK
<1> USE DEF RangesOK, runnerVars, envVars, UnchangedByPool
<1>1. CASE \/ DeliverError(e) \/ UnrefEmptied(e) \/ CancelEach(e) \/ Cleanup(e)
           \/ CleanupUnrefNext(e) \/ Exit(e) \/ Terminate(e)
  BY <1>0, <1>1 DEF DeliverError, UnrefEmptied, CancelEach, Cleanup, CleanupUnrefNext, Exit,
    Terminate
<1>2. CASE CleanupVisit(e)
  <2>1. PICK w \in Watcher :
          toUnwatch' = [toUnwatch EXCEPT ![e] =
                          IF HasOnlyOf(e, w)
                            THEN @ \cup ({w} \X {b \in backendsOf[w] : Alive(b)})
                            ELSE @]
    BY <1>2 DEF CleanupVisit
  <2>2. {w} \X {b \in backendsOf[w] : Alive(b)} \subseteq Watcher \X Backend
    BY <1>0
  <2>3. toUnwatch' \in [Env -> SUBSET (Watcher \X Backend)]
    BY <1>0, <2>1, <2>2
  <2> QED
    BY <1>0, <1>2, <2>3 DEF CleanupVisit
<1>3. CASE CleanupUnwatch(e)
  BY <1>0, <1>3 DEF CleanupUnwatch
<1>4. CASE BackendUnwatch(e)
  BY <1>0, <1>4 DEF BackendUnwatch
<1> QED
  BY <1>1, <1>2, <1>3, <1>4 DEF EnvStep

(* The runner of a call goes on by itself only, keeps its watcher until its *)
(* promise is settled, and has then left the backend's functions.           *)
LEMMA CallMoves ==
  ASSUME LifecycleInv, NEW t \in Call, CallNative(t) \/ CallStep(t)
  PROVE  /\ \A u \in Call \ {t} : task'[u] = task[u] /\ watcherOf'[u] = watcherOf[u]
         /\ CallOK(t)'
<1>0. /\ RangesOK /\ CallOK(t) /\ TurnsOK /\ LifecycleTypeOK /\ WatcherTypeOK
      /\ BackendTypeOK /\ t \in Thread
  BY StateTypes, CallTypes DEF LifecycleTypeOK, RangesOK, CallOK
<1> USE DEF RangesOK, CallOK, Become, runnerVars, envVars
<1>1. CASE CallNative(t) \/ SelectFails(t)
  BY <1>0, <1>1 DEF CallNative, SelectFails, StartFails, Goto, BackendTypeOK
<1>2. CASE SelectBackend(t) \/ ConstructRunner(t)
  BY <1>0, <1>2 DEF SelectBackend, ConstructRunner
<1>3. CASE RegisterCallback(t) \/ RegisterFails(t) \/ RemoveCallback(t)
  <2>1. stage[EnvOfCall(t)] # "idle" /\ turn[EnvOfCall(t)] = t
    BY <1>3 DEF RegisterCallback, RegisterFails, RemoveCallback, Watch, WatchFails, Unwatch
  <2>2. UNCHANGED <<task, watcherOf, where>>
    BY <1>3 DEF RegisterCallback, RegisterFails, RemoveCallback, backendVars
  <2> QED
    BY <1>0, <2>2
<1>4. CASE ReleaseWatcher(t)
  <2>1. watcherOf[t] \in Watcher
    BY <1>0, <1>4, CallTypes, CallAssumption DEF ReleaseWatcher, TurnsOK, UnwatchUnref,
      ReleaseShared, Unref
  <2>2. /\ \A u \in Call \ {t} : task'[u] = task[u]
        /\ task'[t] \in {task[t], "queued", "releasing"}
        /\ UNCHANGED <<watcherOf, where>>
    BY <1>0, <1>4 DEF ReleaseWatcher, backendVars
  <2> QED
    BY <1>0, <2>1, <2>2
<1> USE DEF UnchangedByPool
<1>5. CASE BeginSubscribe(t) \/ CheckCallbacks(t) \/ Recheck(t) \/ BeginUnsubscribe(t)
  BY <1>0, <1>5 DEF BeginSubscribe, CheckCallbacks, Recheck, BeginUnsubscribe
<1>6. CASE \/ BackendWatch(t) \/ UnsubscribeDone(t) \/ Release(t) \/ ScanStops(t)
           \/ ScanEnds(t) \/ SubscribeDone(t)
  BY <1>0, <1>6 DEF BackendWatch, UnsubscribeDone, Release, ScanStops, ScanEnds, SubscribeDone
<1>7. CASE BackendUnwatch(t)
  <2>1. where[t] # "out"
    BY <1>7 DEF BackendUnwatch, UnwatchWaits, UnwatchKeeps, UnwatchRemoves, UnwatchUnrefs,
      DetachWatcher, Locked
  <2> QED
    BY <1>0, <1>7, <2>1 DEF BackendUnwatch
<1>8. CASE Settle(t)
  BY <1>0, <1>8 DEF Settle, WorkComplete, backendVars
<1> QED
  BY <1>1, <1>2, <1>3, <1>4, <1>5, <1>6, <1>7, <1>8 DEF CallStep

(* Every step of a call, an environment or a backend's thread keeps the     *)
(* types, and leaves the runners of other calls where they are.             *)
LEMMA TypesStep == LifecycleInv /\ [Next]_vars => LifecycleTypeOK'
<1> SUFFICES ASSUME LifecycleInv, [Next]_vars PROVE LifecycleTypeOK'
  OBVIOUS
<1>0. /\ RangesOK /\ BackendTypeOK /\ \A t \in Call : CallOK(t)
      /\ Call \subseteq Thread /\ Env \subseteq Thread /\ Call \cap Env = {}
  BY StateTypes, CompositionAssumption DEF LifecycleTypeOK, RangesOK, CallOK
<1>1. PlacesOK'
  BY BackendSteps, BackendInvStep DEF LifecycleInv, BackendInv
<1>2. ASSUME NEW t \in Call, CallNative(t) \/ CallStep(t)
      PROVE  RangesOK' /\ \A u \in Call : CallOK(u)'
  <2>1. \A u \in Call \ {t} : where[u] = "out" => where'[u] = "out"
    BY <1>0, <1>2, CallSteps, OtherThreads DEF SameThread, Woken, NewSubject, backendVars
  <2> QED
    BY <1>0, <1>2, <2>1, CallRanges, CallMoves DEF CallOK
<1>3. ASSUME NEW e \in Env, EnvStep(e) \/ Exit(e) \/ Terminate(e)
      PROVE  RangesOK' /\ \A u \in Call : CallOK(u)'
  <2>1. \A u \in Call : where[u] = "out" => where'[u] = "out"
    BY <1>0, <1>3, EnvSteps, OtherThreads DEF SameThread, Woken, backendVars
  <2>2. UNCHANGED <<task, watcherOf>>
    BY <1>3 DEF EnvStep, Exit, Terminate, DeliverError, UnrefEmptied, CancelEach, Cleanup,
      CleanupVisit, CleanupUnrefNext, CleanupUnwatch, BackendUnwatch, UnchangedByPool,
      runnerVars
  <2> QED
    BY <1>0, <1>3, <2>1, <2>2, EnvRanges DEF CallOK
<1>4. ASSUME NEW b \in Backend, TellError(b) \/ Retire(b) \/ LoseWatches(b) \/ PollFails(b)
      PROVE  RangesOK' /\ \A u \in Call : CallOK(u)'
  <2>1. UNCHANGED <<runnerVars, envVars, backendsOf, where>>
    BY <1>4 DEF TellError, HandleError, Retire, RemoveShared, LoseWatches, Invalidate,
      PollFails, BackendFails
  <2> QED
    BY <1>0, <2>1 DEF RangesOK, CallOK, runnerVars, envVars
<1>5. ASSUME UNCHANGED vars \/ \E w \in Watcher : DeliverEvents(w)
      PROVE  RangesOK' /\ \A u \in Call : CallOK(u)'
  <2>1. UNCHANGED <<runnerVars, envVars, backendsOf, where>>
    BY <1>5 DEF vars, DeliverEvents, backendVars
  <2> QED
    BY <1>0, <2>1 DEF RangesOK, CallOK, runnerVars, envVars
<1>6. RangesOK' /\ \A u \in Call : CallOK(u)'
  BY <1>2, <1>3, <1>4, <1>5 DEF Next, ErrorStep
<1> QED
  BY <1>0, <1>1, <1>6 DEF PlacesOK, Inside, Unwatching, LifecycleTypeOK, RangesOK, CallOK

(* A JavaScript thread gets on with its native call before it takes the     *)
(* next callback from the event loop.                                       *)
LEMMA TurnsStep == LifecycleInv /\ [Next]_vars => TurnsOK'
<1> SUFFICES ASSUME LifecycleInv, [Next]_vars PROVE TurnsOK'
  OBVIOUS
<1>0. /\ RangesOK /\ TurnsOK /\ WatcherTypeOK /\ LifecycleTypeOK
      /\ \A t \in Call : EnvOfCall(t) \in Env
  BY StateTypes, CallTypes DEF LifecycleTypeOK, RangesOK
<1> USE CallAssumption DEF RangesOK, TurnsOK, WatcherTypeOK, Become, Free, runnerVars, envVars,
      watcherVars, threadVars, exitVars
<1>1. ASSUME NEW t \in Call, CallNative(t) PROVE TurnsOK'
  BY <1>0, <1>1 DEF CallNative
<1>2. ASSUME NEW t \in Call, SelectBackend(t) \/ SelectFails(t) PROVE TurnsOK'
  <2>1. UNCHANGED <<watcherOf, stage>> /\ turn[EnvOfCall(t)] = t
    BY <1>0, <1>2 DEF SelectBackend, SelectFails
  <2>2. \/ UNCHANGED <<task, turn>>
        \/ /\ task' = [task EXCEPT ![t] = "settled"]
           /\ turn' = [turn EXCEPT ![EnvOfCall(t)] = NoCall]
    BY <1>2 DEF SelectBackend, SelectFails
  <2> QED
    BY <1>0, <2>1, <2>2
<1>3. ASSUME NEW t \in Call, ConstructRunner(t) PROVE TurnsOK'
  BY <1>0, <1>3 DEF ConstructRunner, GetShared
<1>4. ASSUME NEW t \in Call, RegisterCallback(t) \/ RegisterFails(t) \/ RemoveCallback(t)
      PROVE  TurnsOK'
  BY <1>0, <1>4 DEF RegisterCallback, RegisterFails, RemoveCallback, Watch, WatchFails, Unwatch
<1>5. ASSUME NEW t \in Call, ReleaseWatcher(t) PROVE TurnsOK'
  <2> DEFINE e == EnvOfCall(t)
  <2>1. /\ turn[e] = t /\ stage[e] # "idle" /\ watcherOf' = watcherOf
        /\ \A x \in Env \ {e} : stage'[x] = stage[x]
    BY <1>0, <1>5 DEF ReleaseWatcher, UnwatchUnref, ReleaseShared, Unref, Return
  <2>2. \/ UNCHANGED <<task, turn>>
        \/ task' = [task EXCEPT ![t] = "queued"] /\ turn' = [turn EXCEPT ![e] = NoCall]
        \/ task' = [task EXCEPT ![t] = "releasing"] /\ turn' = turn
    BY <1>0, <1>5 DEF ReleaseWatcher
  <2> QED
    BY <1>0, <2>1, <2>2
<1>6. ASSUME NEW t \in Call, \/ BeginSubscribe(t) \/ CheckCallbacks(t) \/ BackendWatch(t)
                             \/ ScanStops(t) \/ ScanEnds(t) \/ SubscribeDone(t) \/ Recheck(t)
                             \/ BeginUnsubscribe(t) \/ UnsubscribeDone(t) \/ Release(t)
      PROVE  TurnsOK'
  BY <1>0, <1>6 DEF BeginSubscribe, CheckCallbacks, BackendWatch, ScanStops, ScanEnds,
    SubscribeDone, Recheck, BeginUnsubscribe, UnsubscribeDone, Release, UnchangedByPool
<1>7. ASSUME NEW t, BackendUnwatch(t) PROVE TurnsOK'
  BY <1>0, <1>7 DEF BackendUnwatch, UnchangedByPool
<1>8. ASSUME NEW t \in Call, Settle(t) PROVE TurnsOK'
  BY <1>0, <1>8 DEF Settle, WorkComplete, CleanupAfterFailure
<1>9. ASSUME NEW e \in Env, DeliverError(e) \/ UnrefEmptied(e) PROVE TurnsOK'
  <2>1. /\ turn[e] = NoCall /\ UNCHANGED <<task, turn, watcherOf>>
    BY <1>9 DEF DeliverError, UnrefEmptied
  <2>2. ASSUME NEW w, NEW c, FinishErrorCallback(e, w, c)
        PROVE  \A x \in Env \ {e} : stage'[x] = stage[x]
    BY <1>0, <2>2 DEF FinishErrorCallback
  <2>3. ASSUME Unref(e)
        PROVE  \A x \in Env \ {e} : stage'[x] = stage[x]
    BY <1>0, <2>3 DEF Unref, Return
  <2> QED
    BY <1>0, <1>9, <2>1, <2>2, <2>3 DEF DeliverError, UnrefEmptied
<1>10. ASSUME NEW e \in Env, Exit(e) \/ Cleanup(e) \/ CancelEach(e) PROVE TurnsOK'
  BY <1>0, <1>10 DEF Exit, Cleanup, CancelEach, CancelEnvironment, CleanupEnvironment,
    CancelDone, CancelWatcher
<1>11. ASSUME NEW e \in Env, \/ Terminate(e) \/ CleanupVisit(e) \/ CleanupUnrefNext(e)
                             \/ CleanupUnwatch(e)
       PROVE  TurnsOK'
  BY <1>0, <1>11 DEF Terminate, CleanupVisit, CleanupUnrefNext, CleanupUnwatch, CleanupWatcher,
    CleanupUnref
<1>12. ASSUME NEW b \in Backend, TellError(b) \/ Retire(b) \/ LoseWatches(b) \/ PollFails(b)
       PROVE  TurnsOK'
  BY <1>0, <1>12 DEF TellError, NotifyError, Retire, LoseWatches, PollFails
<1>13. ASSUME UNCHANGED vars \/ \E w \in Watcher : DeliverEvents(w) PROVE TurnsOK'
  BY <1>0, <1>13 DEF vars, DeliverEvents, TriggerCallbacks
<1> QED
  BY <1>1, <1>2, <1>3, <1>4, <1>5, <1>6, <1>7, <1>8, <1>9, <1>10, <1>11, <1>12, <1>13
  DEF Next, CallStep, EnvStep, ErrorStep

----------------------------------------------------------------------------
(* The invariants of the parts and what the runner adds hold together.      *)
LEMMA LifecycleInvStep == LifecycleInv /\ [Next]_vars => LifecycleInv'
  BY WatcherSteps, InvStep, BackendSteps, BackendInvStep, TypesStep, TurnsStep DEF LifecycleInv

(* It is an invariant of the native calls, whatever environments exit and   *)
(* whatever fails.                                                          *)
THEOREM LifecycleInvariant == Spec => []LifecycleInv
  BY LifecycleInitInv, LifecycleInvStep, PTL DEF Spec

(* Type correctness of native calls and their runners (SubscribeRunner,     *)
(* UnsubscribeRunner): a runner has its watcher from its constructor until  *)
(* its promise is settled, and nothing runs for a call afterwards.          *)
THEOREM LifecycleTypeCorrect == Spec => []LifecycleTypeOK
<1>1. LifecycleInv => LifecycleTypeOK
  BY DEF LifecycleInv
<1> QED
  BY LifecycleInvariant, <1>1, PTL

(* The composition adds no step to its parts: each step of a native call, a *)
(* worker, a cleanup hook or a backend's thread is one critical section of  *)
(* Watcher.cc and one of Backend.cc, or leaves that part alone.             *)
THEOREM Composition == Spec => WatcherSpec /\ BackendSpec
<1>1. Init => WatcherInit /\ BackendInit
  BY DEF Init
<1>2. LifecycleInv /\ [Next]_vars => [WatcherNext]_watcherVars
  BY WatcherSteps
<1>3. LifecycleInv /\ [Next]_vars => [BackendNext]_backendVars
  BY BackendSteps
<1> QED
  BY LifecycleInvariant, <1>1, <1>2, <1>3, PTL DEF Spec, WatcherSpec, BackendSpec

(* What is proved of the parts is true of whole lives of subscriptions,     *)
(* whatever calls are planned and whatever goes wrong: no callback of a     *)
(* running environment is cancelled, and no backend in use is stopped.      *)
THEOREM PartsStaySafe ==
  Spec => []( /\ OnePerKey /\ UsedIsRegistered /\ UnusedIsReclaimed
              /\ CancelledIsUnwanted /\ ClosingIsTold
              /\ InUseIsKept /\ UnusedIsStopped /\ PendingIsExclusive /\ NoLostWakeup)
  BY Composition, RegistrySafety, RegistryReclaims, CancellationIsSafe, ClosingIsSound,
     UsedStaysRegistered, UnusedGetsStopped, OneThreadSubscribes, WaitersAreWoken, PTL

----------------------------------------------------------------------------
(* Where the thread of a call is, and what its runner has, at each task.    *)
PlaceOK(t) ==
  /\ task[t] = "native" => where[t] \in {"find", "start", "emplace", "held"}
  /\ task[t] \in {"queued", "checking", "rechecking"} => where[t] = "held"
  /\ task[t] = "subscribing" => where[t] \in Inside
  /\ task[t] = "unsubscribing" => where[t] \in Unwatching \cup {"held"} /\ reserving[t]
  /\ task[t] = "releasing" => where[t] \in {"held", "lastUnref", "out"}
  /\ task[t] \in {"subscribing", "unsubscribing"} => subject[t] = watcherOf[t]
  /\ where[t] = "watchUnref" => threw[t]
  /\ task[t] \in {"checking", "subscribing", "rechecking"} => Plan[t].op = "subscribe"

(* A runner's watcher has the key the call asked for: its storage is not    *)
(* used for another one meanwhile.                                          *)
RunnerOK(t) ==
  /\ task[t] \in {"new", "settled"} => watcherOf[t] = NoWatcher
  /\ watcherOf[t] \in Watcher => keyOf[watcherOf[t]] = Plan[t].key
  /\ mustUnwatch[t] => Plan[t].op = "unsubscribe"
  /\ added[t] => Plan[t].op = "subscribe"

(* What the constructor of a runner passes on of the call's arguments.      *)
RequestOf(t) == [op |-> Plan[t].op, key |-> Plan[t].key, cb |-> Plan[t].cb]

(* Inside a native call the JavaScript thread is in the constructor of its  *)
(* runner, with the call's arguments, or selects the backend before it, or  *)
(* releases it after it failed.                                             *)
NativeOK(e) ==
  turn[e] # NoCall =>
    /\ task[turn[e]] \in {"native", "releasing"}
    /\ stage[e] \in Holding \cup {"idle", "unref"}
    /\ stage[e] # "idle" <=> task[turn[e]] = "native" /\ watcherOf[turn[e]] # NoWatcher
    /\ stage[e] # "idle" => where[turn[e]] = "held"
    /\ stage[e] \in Holding =>
         at[e] = watcherOf[turn[e]] /\ request[e] = RequestOf(turn[e])

(* Only an environment that ends exits or runs its cleanup hook. *)
EndsOK ==
  /\ exited \subseteq ending
  /\ \A e \in Env : stage[e] \in {"cancel", "cleanup"} => e \in ending

(* The inductive invariant about runners: where each of them is, and what   *)
(* the native call on each JavaScript thread is at.                         *)
RunnersInv ==
  /\ LifecycleInv
  /\ \A t \in Call : PlaceOK(t) /\ RunnerOK(t)
  /\ \A e \in Env : NativeOK(e)
  /\ EndsOK

(* A step of one call leaves the runners of the others alone.               *)
SameRunner(u) ==
  /\ task'[u] = task[u] /\ fate'[u] = fate[u] /\ watcherOf'[u] = watcherOf[u]
  /\ added'[u] = added[u] /\ mustUnwatch'[u] = mustUnwatch[u]

(* The fields of a runner are written by its own call only, on whatever     *)
(* thread it runs.                                                          *)
LEMMA OtherRunners ==
  ASSUME LifecycleInv, NEW t \in Call, CallNative(t) \/ CallStep(t), NEW u \in Call \ {t}
  PROVE  SameRunner(u) /\ SameThread(u)
<1>0. /\ RangesOK /\ LifecycleTypeOK /\ BackendTypeOK /\ t \in Thread /\ u \in Thread
  BY StateTypes, CallTypes DEF LifecycleTypeOK, RangesOK
<1>1. SameRunner(u)
  <2> USE DEF RangesOK, Become, runnerVars, envVars, UnchangedByPool, SameRunner
  <2>1. CASE CallNative(t) \/ SelectBackend(t) \/ SelectFails(t) \/ ConstructRunner(t)
    BY <1>0, <2>1 DEF CallNative, SelectBackend, SelectFails, ConstructRunner
  <2>2. CASE \/ RegisterCallback(t) \/ RegisterFails(t) \/ RemoveCallback(t)
             \/ ReleaseWatcher(t)
    BY <1>0, <2>2 DEF RegisterCallback, RegisterFails, RemoveCallback, ReleaseWatcher
  <2>3. CASE \/ BeginSubscribe(t) \/ CheckCallbacks(t) \/ BackendWatch(t) \/ ScanStops(t)
             \/ ScanEnds(t) \/ SubscribeDone(t) \/ Recheck(t) \/ BeginUnsubscribe(t)
    BY <1>0, <2>3 DEF BeginSubscribe, CheckCallbacks, BackendWatch, ScanStops, ScanEnds,
      SubscribeDone, Recheck, BeginUnsubscribe
  <2>4. CASE BackendUnwatch(t) \/ UnsubscribeDone(t) \/ Release(t) \/ Settle(t)
    BY <1>0, <2>4 DEF BackendUnwatch, UnsubscribeDone, Release, Settle
  <2> QED
    BY <2>1, <2>2, <2>3, <2>4 DEF CallStep
<1> QED
  BY <1>0, <1>1, CallSteps, OtherThreads DEF SameThread, NewSubject, backendVars, localVars

(* The watcher of a runner keeps its key: new watchers take storage that no *)
(* runner points to.                                                        *)
LEMMA KeysKept ==
  ASSUME [Next]_vars
  PROVE  UNCHANGED keyOf \/ \E t \in Call : ConstructRunner(t)
<1> USE DEF watcherVars, objectVars, UnchangedByPool
<1>1. ASSUME NEW t \in Call, CallNative(t) \/ CallStep(t), ~ConstructRunner(t)
      PROVE  UNCHANGED keyOf
  <2>1. CASE CallNative(t) \/ SelectBackend(t) \/ SelectFails(t)
    BY <2>1 DEF CallNative, SelectBackend, SelectFails
  <2>2. CASE RegisterCallback(t) \/ RegisterFails(t) \/ RemoveCallback(t) \/ ReleaseWatcher(t)
    BY <2>2 DEF RegisterCallback, RegisterFails, RemoveCallback, ReleaseWatcher, Watch,
      WatchFails, Unwatch, EraseCallback, UnwatchUnref, ReleaseShared, Unref
  <2>3. CASE \/ BeginSubscribe(t) \/ CheckCallbacks(t) \/ BackendWatch(t) \/ ScanStops(t)
             \/ ScanEnds(t) \/ SubscribeDone(t) \/ Recheck(t) \/ BeginUnsubscribe(t)
             \/ BackendUnwatch(t) \/ UnsubscribeDone(t) \/ Release(t)
    BY <2>3 DEF BeginSubscribe, CheckCallbacks, BackendWatch, ScanStops, ScanEnds,
      SubscribeDone, Recheck, BeginUnsubscribe, BackendUnwatch, UnsubscribeDone, Release
  <2>4. CASE Settle(t)
    BY <2>4 DEF Settle, CleanupAfterFailure, EraseCallback
  <2> QED
    BY <1>1, <2>1, <2>2, <2>3, <2>4 DEF CallStep
<1>2. ASSUME NEW e \in Env, EnvStep(e) \/ Exit(e) \/ Terminate(e) PROVE UNCHANGED keyOf
  BY <1>2 DEF EnvStep, Exit, Terminate, DeliverError, UnrefEmptied, CancelEach, Cleanup,
    CleanupVisit, CleanupUnrefNext, CleanupUnwatch, BackendUnwatch, CancelEnvironment,
    CleanupEnvironment, CancelWatcher, CancelDone, CleanupWatcher, CleanupUnref, Unref,
    FinishErrorCallback
<1>3. ASSUME NEW b \in Backend, ErrorStep(b) \/ LoseWatches(b) \/ PollFails(b)
      PROVE  UNCHANGED keyOf
  BY <1>3 DEF ErrorStep, TellError, Retire, LoseWatches, PollFails, NotifyError
<1>4. ASSUME NEW w \in Watcher, DeliverEvents(w) PROVE UNCHANGED keyOf
  BY <1>4 DEF DeliverEvents, TriggerCallbacks
<1> QED
  BY <1>1, <1>2, <1>3, <1>4 DEF Next, vars

(* The watcher a runner points to is the one with the call's options: mKey  *)
(* is never changed, and its storage is not used again while the runner     *)
(* holds its shared_ptr.                                                    *)
LEMMA KeyStays ==
  ASSUME WatcherTypeOK, [Next]_vars, NEW u \in Call, watcherOf[u] \in Watcher
  PROVE  keyOf'[watcherOf[u]] = keyOf[watcherOf[u]]
<1>1. ASSUME NEW t \in Call, ConstructRunner(t)
      PROVE  keyOf'[watcherOf[u]] = keyOf[watcherOf[u]]
  <2> DEFINE r == [op |-> Plan[t].op, key |-> Plan[t].key, cb |-> Plan[t].cb]
  <2>1. PICK w \in Watcher : GetShared(EnvOfCall(t), r, w) /\ (w \in registry \/ Expired(w))
    BY <1>1 DEF ConstructRunner
  <2>2. CASE GetSharedFound(EnvOfCall(t), r, w)
    BY <2>2 DEF GetSharedFound
  <2>3. CASE GetSharedNew(EnvOfCall(t), r, w)
    BY <2>1, <2>3 DEF GetSharedNew, Referenced, Expired, WatcherTypeOK
  <2> QED
    BY <2>1, <2>2, <2>3 DEF GetShared
<1> QED
  BY <1>1, KeysKept

(* What a runner does itself.                                               *)
LEMMA OwnRunner ==
  ASSUME RunnersInv, [Next]_vars, NEW t \in Call, CallNative(t) \/ CallStep(t)
  PROVE  PlaceOK(t)' /\ RunnerOK(t)'
<1>0. /\ RangesOK /\ BackendTypeOK /\ WatcherTypeOK /\ PlacesOK /\ t \in Thread
      /\ PlaceOK(t) /\ RunnerOK(t) /\ TurnsOK
      /\ watcherOf[t] \in Watcher => keyOf'[watcherOf[t]] = keyOf[watcherOf[t]]
  BY StateTypes, CallTypes, KeyStays DEF RunnersInv, LifecycleTypeOK, RangesOK
<1> USE DEF RangesOK, BackendTypeOK, PlaceOK, RunnerOK, Become, Goto, runnerVars, envVars,
      UnchangedByPool
<1>1. CASE CallNative(t)
  BY <1>0, <1>1 DEF CallNative, GetBackend
<1>2. CASE SelectBackend(t)
  BY <1>0, <1>2 DEF SelectBackend, FindBackend, FindDefault, StartBackend, EmplaceBackend,
    CreateBackend
<1>3. CASE SelectFails(t)
  <2>1. NativeOK(EnvOfCall(t)) /\ turn[EnvOfCall(t)] = t /\ t # NoCall
    BY <1>0, <1>3, CallTypes, CallAssumption DEF RunnersInv, SelectFails, TurnsOK
  <2>2. watcherOf[t] = NoWatcher
    BY <1>3, <2>1 DEF NativeOK, SelectFails, StartFails
  <2> QED
    BY <1>0, <1>3, <2>2 DEF SelectFails, StartFails
<1>4. CASE ConstructRunner(t)
  <2>1. PICK w \in Watcher :
          /\ GetShared(EnvOfCall(t), RequestOf(t), w)
          /\ watcherOf' = [watcherOf EXCEPT ![t] = w]
    BY <1>4 DEF ConstructRunner, RequestOf
  <2>2. keyOf'[w] = Plan[t].key
    BY <1>0, <2>1 DEF GetShared, GetSharedFound, GetSharedNew, RequestOf, WatcherTypeOK
  <2>3. UNCHANGED <<where, threw, task, added, mustUnwatch>>
    BY <1>4 DEF ConstructRunner, backendVars, NewSubject, localVars
  <2>4. task[t] = "native" /\ where[t] = "held"
    BY <1>4 DEF ConstructRunner
  <2> QED
    BY <1>0, <2>1, <2>2, <2>3, <2>4
<1>5. CASE RegisterCallback(t) \/ RegisterFails(t) \/ RemoveCallback(t)
  <2>1. UNCHANGED <<where, subject, reserving, threw, task, watcherOf>>
    BY <1>5 DEF RegisterCallback, RegisterFails, RemoveCallback, backendVars, localVars
  <2>2. PlaceOK(t)'
    BY <1>0, <2>1
  <2>3. /\ UNCHANGED added \/ Plan[t].op = "subscribe"
        /\ UNCHANGED mustUnwatch \/ Plan[t].op = "unsubscribe"
    <3>1. turn[EnvOfCall(t)] = t /\ stage[EnvOfCall(t)] = "reserved"
          /\ NativeOK(EnvOfCall(t)) /\ t # NoCall
      BY <1>0, <1>5, CallTypes, CallAssumption DEF RunnersInv, RegisterCallback, RegisterFails,
         RemoveCallback, Watch, WatchFails, Unwatch
    <3>2. request[EnvOfCall(t)].op = Plan[t].op
      BY <3>1 DEF NativeOK, Holding, RequestOf
    <3> QED
      BY <1>5, <3>2 DEF RegisterCallback, RegisterFails, RemoveCallback, Watch, Unwatch
  <2> QED
    BY <1>0, <2>1, <2>2, <2>3
<1>6. CASE ReleaseWatcher(t)
  <2>1. UNCHANGED <<where, subject, reserving, threw, watcherOf, added, mustUnwatch>>
    BY <1>6 DEF ReleaseWatcher, backendVars, localVars
  <2>2. stage[EnvOfCall(t)] # "idle" /\ turn[EnvOfCall(t)] = t /\ NativeOK(EnvOfCall(t))
        /\ t # NoCall
    BY <1>6, CallTypes, CallAssumption DEF RunnersInv, ReleaseWatcher, UnwatchUnref,
      ReleaseShared, Unref
  <2>3. task[t] = "native" /\ where[t] = "held"
    BY <2>2 DEF NativeOK
  <2>4. /\ fate[t] \in {"good", "failed"}
        /\ \/ task' = task
           \/ task' = [task EXCEPT ![t] = "queued"]
           \/ task' = [task EXCEPT ![t] = "releasing"]
    BY <1>0, <1>6 DEF ReleaseWatcher
  <2>5. task'[t] \in {"native", "queued", "releasing"}
    BY <1>0, <2>3, <2>4
  <2> QED
    BY <1>0, <2>1, <2>3, <2>5
<1>7. CASE BeginSubscribe(t) \/ ScanStops(t) \/ SubscribeDone(t) \/ UnsubscribeDone(t)
  <2>1. UNCHANGED <<where, subject, reserving, threw, watcherOf, added, mustUnwatch>>
    BY <1>7 DEF BeginSubscribe, ScanStops, SubscribeDone, UnsubscribeDone, backendVars, localVars
  <2>2. \/ task' = task
        \/ /\ task'[t] \in {"checking", "rechecking", "releasing"} /\ where[t] = "held"
           /\ task'[t] = "releasing" \/ Plan[t].op = "subscribe"
    BY <1>0, <1>7 DEF BeginSubscribe, ScanStops, SubscribeDone, UnsubscribeDone
  <2> QED
    BY <1>0, <2>1, <2>2
<1>8. CASE CheckCallbacks(t)
  BY <1>0, <1>8 DEF CheckCallbacks, CallWatch, backendVars, localVars, Inside
<1>9. CASE Recheck(t) \/ BeginUnsubscribe(t)
  BY <1>0, <1>9 DEF Recheck, BeginUnsubscribe, CallUnwatch, backendVars, localVars, PlacesOK,
    Inside, Unwatching
<1>10. CASE BackendWatch(t)
  <2>1. /\ UNCHANGED <<subject, reserving, task, watcherOf, added, mustUnwatch>>
        /\ where'[t] \in Inside
        /\ where'[t] = "watchUnref" => threw'[t]
    BY <1>0, <1>10 DEF BackendWatch, WatchWaits, WatchCancelled, WatchSubscribed, WatchScans,
      WatchUnref, FinishWatch, WakeAndGoto, localVars, Inside
  <2>2. task[t] = "subscribing"
    BY <1>10 DEF BackendWatch
  <2> QED
    BY <1>0, <2>1, <2>2
<1>11. CASE ScanEnds(t)
  <2>1. /\ UNCHANGED <<subject, reserving, task, watcherOf, added, mustUnwatch>>
        /\ where'[t] \in Inside
        /\ where'[t] = "watchUnref" => threw'[t]
    BY <1>0, <1>11 DEF ScanEnds, ScanCompletes, ScanCancelled, ScanTruncated, ScanFails,
      AbandonWatch, WakeAndGoto, localVars, Inside
  <2>2. task[t] = "subscribing"
    BY <1>11 DEF ScanEnds
  <2> QED
    BY <1>0, <2>1, <2>2
<1>12. CASE BackendUnwatch(t)
  <2>1. where[t] \in Unwatching
    BY <1>12 DEF BackendUnwatch, UnwatchWaits, UnwatchKeeps, UnwatchRemoves, UnwatchUnrefs,
      DetachWatcher, Locked, Unwatching
  <2>2. task[t] = "unsubscribing" /\ reserving[t]
    BY <1>0, <2>1, CallTypes, StateTypes DEF Task, Unwatching, Inside, RunnersInv,
      LifecycleTypeOK
  <2>3. /\ UNCHANGED <<subject, reserving, task, watcherOf, added, mustUnwatch>>
        /\ where'[t] \in Unwatching \cup {"held"} /\ where'[t] # "watchUnref"
    BY <1>0, <1>12, <2>2 DEF BackendUnwatch, UnwatchWaits, UnwatchKeeps, UnwatchRemoves,
      UnwatchUnrefs, DetachWatcher, Back, localVars, Unwatching
  <2> QED
    BY <1>0, <2>2, <2>3
<1>13. CASE Release(t)
  BY <1>0, <1>13 DEF Release, ReleaseBackend, LastUnref
<1>14. CASE Settle(t)
  BY <1>0, <1>14, NoWatcherAssumption DEF Settle, WorkComplete, backendVars, localVars
<1> QED
  BY <1>1, <1>2, <1>3, <1>4, <1>5, <1>6, <1>7, <1>8, <1>9, <1>10, <1>11, <1>12, <1>13, <1>14
  DEF CallStep

(* What one thread does with a registry outside of native calls leaves the  *)
(* places of the others alone.                                              *)
LEMMA OtherStages ==
  ASSUME WatcherTypeOK, NEW x \in Env, DeliverError(x) \/ UnrefEmptied(x), NEW e \in Env, e # x
  PROVE  UNCHANGED <<stage[e], at[e], request[e]>>
<1>0. stage \in [Env -> Stage] /\ DOMAIN at = Env /\ DOMAIN request = Env
  BY DEF WatcherTypeOK
<1>1. ASSUME NEW w, NEW c, FinishErrorCallback(x, w, c)
      PROVE  UNCHANGED <<stage[e], at[e], request[e]>>
  <2>1. request' = request
    BY <1>1 DEF FinishErrorCallback
  <2>2. \/ UNCHANGED <<stage, at>>
        \/ stage' = [stage EXCEPT ![x] = "unref"] /\ at' = [at EXCEPT ![x] = w]
    BY <1>1 DEF FinishErrorCallback
  <2> QED
    BY <1>0, <2>1, <2>2
<1>2. CASE UnrefEmptied(x)
  BY <1>0, <1>2 DEF UnrefEmptied, Unref, Return
<1> QED
  BY <1>1, <1>2 DEF DeliverError

(* Nobody else steps in while a JavaScript thread is inside a native call.  *)
LEMMA NativeStep == RunnersInv /\ [Next]_vars => \A e \in Env : NativeOK(e)'
<1> SUFFICES ASSUME RunnersInv, [Next]_vars, NEW e \in Env, turn'[e] # NoCall
             PROVE  NativeOK(e)'
  BY DEF NativeOK
<1>0. /\ RangesOK /\ BackendTypeOK /\ WatcherTypeOK /\ PlacesOK /\ ThreadOK
      /\ TurnsOK /\ NativeOK(e)
      /\ \A t \in Call : PlaceOK(t) /\ EnvOfCall(t) \in Env /\ t \in Thread
      /\ LifecycleInv
  BY StateTypes, CallTypes DEF RunnersInv, LifecycleTypeOK, RangesOK, LifecycleInv, WatcherInv
<1> DEFINE u == turn[e]
<1>1. u # NoCall => u \in Call /\ EnvOfCall(u) = e
  BY <1>0 DEF RangesOK, TurnsOK
<1>2. ASSUME UNCHANGED <<turn[e], stage[e], at[e], request[e]>>, u \in Call,
             task'[u] = task[u], watcherOf'[u] = watcherOf[u], where'[u] = where[u] \/ Woken(u)
      PROVE  NativeOK(e)'
  BY <1>0, <1>2 DEF NativeOK, PlaceOK, Woken
<1>3. ASSUME NEW t \in Call, CallNative(t) \/ CallStep(t) PROVE NativeOK(e)'
  <2>0. t \in Call /\ t # NoCall
    BY CallAssumption
  <2>1. ASSUME UNCHANGED <<turn[e], stage[e], at[e], request[e]>>, u # t
        PROVE  NativeOK(e)'
    <3>1. SameRunner(u) /\ SameThread(u) /\ u \in Call
      BY <1>0, <1>1, <1>3, <2>1, OtherRunners
    <3> QED
      BY <1>2, <2>1, <3>1 DEF SameRunner, SameThread
  <2> USE DEF Become, RangesOK
  <2>2. CASE CallNative(t)
    <3>1. CASE e = EnvOfCall(t)
      <4>1. watcherOf'[t] = NoWatcher /\ stage'[e] = "idle"
        BY <2>2, <3>1 DEF CallNative, Free, RunnersInv, RunnerOK, watcherVars, threadVars
      <4>2. turn'[e] = t /\ task'[t] = "native"
        BY <1>0, <2>2, <3>1 DEF CallNative
      <4> QED
        BY <4>1, <4>2 DEF NativeOK, Holding
    <3>2. CASE e # EnvOfCall(t)
      BY <1>0, <1>1, <2>1, <2>2, <3>2 DEF CallNative, watcherVars, threadVars
    <3> QED
      BY <3>1, <3>2
  <2>3. CASE SelectBackend(t)
    <3>1. u = t => stage[e] = "idle"
      BY <1>0, <2>0, <2>3 DEF SelectBackend, NativeOK, FindBackend, FindDefault, StartBackend,
         EmplaceBackend, CreateBackend
    <3>2. UNCHANGED <<turn, stage, at, request, task, watcherOf>>
      BY <2>3 DEF SelectBackend, watcherVars, threadVars, runnerVars, envVars
    <3> QED
      BY <1>0, <2>1, <3>1, <3>2 DEF NativeOK
  <2>4. CASE SelectFails(t)
    <3>1. turn[EnvOfCall(t)] = t
      BY <1>0, <2>4 DEF SelectFails, TurnsOK
    <3>2. e # EnvOfCall(t)
      BY <1>0, <2>4 DEF SelectFails
    <3> QED
      BY <1>0, <1>1, <2>1, <2>4, <3>1, <3>2 DEF SelectFails, watcherVars, threadVars
  <2>5. CASE ConstructRunner(t)
    <3>1. turn[EnvOfCall(t)] = t /\ task[t] = "native" /\ where[t] = "held"
      BY <1>0, <2>5 DEF ConstructRunner, TurnsOK
    <3>2. PICK w \in Watcher : /\ GetShared(EnvOfCall(t), RequestOf(t), w)
                               /\ watcherOf' = [watcherOf EXCEPT ![t] = w]
      BY <2>5 DEF ConstructRunner, RequestOf
    <3>3. UNCHANGED <<where, task, turn>>
      BY <2>5 DEF ConstructRunner, backendVars, NewSubject, envVars
    <3>4. CASE e = EnvOfCall(t)
      BY <1>0, <3>1, <3>2, <3>3, <3>4, NoWatcherAssumption DEF GetShared, NativeOK, Holding,
         WatcherTypeOK, RequestOf
    <3>5. CASE e # EnvOfCall(t)
      BY <1>0, <1>1, <2>1, <3>2, <3>3, <3>5 DEF GetShared, WatcherTypeOK
    <3> QED
      BY <3>4, <3>5
  <2>6. CASE RegisterCallback(t) \/ RegisterFails(t) \/ RemoveCallback(t)
    <3>1. /\ turn[EnvOfCall(t)] = t /\ UNCHANGED <<where, task, watcherOf, turn, at, request>>
          /\ \A x \in Env \ {EnvOfCall(t)} : stage'[x] = stage[x]
          /\ stage[EnvOfCall(t)] \in Holding /\ stage'[EnvOfCall(t)] \in Holding
      BY <1>0, <2>6 DEF RegisterCallback, RegisterFails, RemoveCallback, backendVars, envVars,
        Watch, WatchFails, Unwatch, WatcherTypeOK, Holding
    <3> QED
      BY <1>0, <1>1, <2>1, <3>1 DEF NativeOK, Holding
  <2>7. CASE ReleaseWatcher(t)
    <3> DEFINE x == EnvOfCall(t)
    <3>1. /\ turn[x] = t /\ stage[x] # "idle" /\ UNCHANGED <<where, watcherOf>>
          /\ \A y \in Env \ {x} : UNCHANGED <<stage[y], at[y], request[y]>>
          /\ stage'[x] = "idle" \/ /\ stage'[x] \in {"release", "unref"}
                                   /\ UNCHANGED <<at, request>>
          /\ stage'[x] = "release" => stage[x] \in Holding
      BY <1>0, <2>7 DEF ReleaseWatcher, backendVars, UnwatchUnref, ReleaseShared, Unref, Return,
        WatcherTypeOK, Holding
    <3>2. \/ stage'[x] # "idle" /\ UNCHANGED <<task, turn>>
          \/ /\ stage'[x] = "idle" /\ turn' = [turn EXCEPT ![x] = NoCall]
             /\ task' = [task EXCEPT ![t] = "queued"]
          \/ stage'[x] = "idle" /\ turn' = turn /\ task' = [task EXCEPT ![t] = "releasing"]
      BY <1>0, <2>7 DEF ReleaseWatcher
    <3>3. CASE e = x
      BY <1>0, <3>1, <3>2, <3>3 DEF NativeOK, Holding
    <3>4. CASE e # x
      BY <1>0, <1>1, <2>1, <3>1, <3>2, <3>4
    <3> QED
      BY <3>3, <3>4
  <2>8. CASE \/ BeginSubscribe(t) \/ CheckCallbacks(t) \/ BackendWatch(t) \/ ScanStops(t)
             \/ ScanEnds(t) \/ SubscribeDone(t) \/ Recheck(t) \/ BeginUnsubscribe(t)
             \/ BackendUnwatch(t) \/ UnsubscribeDone(t) \/ Release(t)
    <3>1. UNCHANGED <<turn, stage, at, request, watcherOf>>
      BY <2>8 DEF BeginSubscribe, CheckCallbacks, BackendWatch, ScanStops, ScanEnds,
        SubscribeDone, Recheck, BeginUnsubscribe, BackendUnwatch, UnsubscribeDone, Release,
        UnchangedByPool, watcherVars, threadVars, envVars
    <3>2. CASE u = t
      <4>1. task[t] \in {"native", "releasing"}
        BY <1>0, <2>0, <3>2 DEF NativeOK
      <4>2. ~BackendUnwatch(t)
        BY <1>0, <4>1 DEF PlaceOK, BackendUnwatch, UnwatchWaits, UnwatchKeeps, UnwatchRemoves,
          UnwatchUnrefs, DetachWatcher, Locked
      <4>3. UNCHANGED task /\ task[t] = "releasing"
        BY <2>8, <4>1, <4>2 DEF BeginSubscribe, CheckCallbacks, BackendWatch, ScanStops, ScanEnds,
        SubscribeDone, Recheck, BeginUnsubscribe, UnsubscribeDone, Release
      <4> QED
        BY <1>0, <3>1, <3>2, <4>3 DEF NativeOK
    <3> QED
      BY <2>1, <3>1, <3>2
  <2>9. CASE Settle(t)
    <3>1. /\ turn' = [turn EXCEPT ![EnvOfCall(t)] = NoCall]
          /\ \A x \in Env \ {EnvOfCall(t)} : UNCHANGED <<stage[x], at[x], request[x]>>
      BY <1>0, <2>9 DEF Settle, CleanupAfterFailure, watcherVars, threadVars, WatcherTypeOK
    <3>2. e # EnvOfCall(t)
      BY <1>0, <3>1
    <3> QED
      BY <1>0, <1>1, <2>1, <3>1, <3>2
  <2> QED
    BY <1>3, <2>2, <2>3, <2>4, <2>5, <2>6, <2>7, <2>8, <2>9 DEF CallStep
<1>4. ASSUME NEW x \in Env, EnvStep(x) \/ Exit(x) \/ Terminate(x) PROVE NativeOK(e)'
  <2>1. UNCHANGED <<turn, task, watcherOf>> /\ u \in Call
    BY <1>0, <1>1, <1>4 DEF EnvStep, Exit, Terminate, DeliverError, UnrefEmptied, CancelEach,
      Cleanup, CleanupVisit, CleanupUnrefNext, CleanupUnwatch, BackendUnwatch, UnchangedByPool,
      runnerVars, envVars
  <2>2. where'[u] = where[u] \/ Woken(u)
    <3>1. x \in Thread /\ u \in Thread \ {x}
      BY <1>0, <2>1, CompositionAssumption
    <3> QED
      BY <1>0, <1>4, <3>1, EnvSteps, OtherThreads DEF SameThread, backendVars
  <2>3. UNCHANGED <<stage[e], at[e], request[e]>>
    <3> USE DEF WatcherTypeOK, watcherVars, threadVars
    <3>1. CASE DeliverError(x) \/ UnrefEmptied(x)
      <4>1. turn[x] = NoCall /\ e # x
        BY <2>1, <3>1 DEF DeliverError, Free, UnrefEmptied
      <4> QED
        BY <1>0, <3>1, <4>1, OtherStages
    <3>2. CASE Exit(x) \/ Cleanup(x)
      BY <1>0, <2>1, <3>2 DEF Exit, Cleanup, Free, CancelEnvironment, CleanupEnvironment
    <3>3. CASE CancelEach(x)
      BY <1>0, <2>1, <3>3 DEF CancelEach, CancelDone, CancelWatcher, NativeOK, Holding
    <3>4. CASE \/ Terminate(x) \/ CleanupVisit(x) \/ CleanupUnrefNext(x) \/ CleanupUnwatch(x)
               \/ BackendUnwatch(x)
      BY <3>4 DEF Terminate, CleanupVisit, CleanupUnrefNext, CleanupUnwatch, BackendUnwatch,
        CleanupWatcher, CleanupUnref, UnchangedByPool
    <3> QED
      BY <1>4, <3>1, <3>2, <3>3, <3>4 DEF EnvStep
  <2> QED
    BY <1>2, <2>1, <2>2, <2>3
<1>5. ASSUME UNCHANGED <<turn, stage, at, request, where, task, watcherOf>> PROVE NativeOK(e)'
  BY <1>0, <1>5 DEF NativeOK
<1>6. ASSUME NEW b \in Backend, ErrorStep(b) \/ LoseWatches(b) \/ PollFails(b)
      PROVE  NativeOK(e)'
  BY <1>5, <1>6 DEF ErrorStep, TellError, HandleError, Retire, RemoveShared, LoseWatches,
    Invalidate, PollFails, BackendFails, NotifyError, watcherVars, threadVars, runnerVars,
    envVars
<1>7. ASSUME UNCHANGED vars \/ \E w \in Watcher : DeliverEvents(w) PROVE NativeOK(e)'
  BY <1>5, <1>7 DEF vars, DeliverEvents, TriggerCallbacks, backendVars, watcherVars, threadVars,
    runnerVars, envVars
<1> QED
  BY <1>3, <1>4, <1>6, <1>7 DEF Next

(* An environment exits, or runs its cleanup hook, only after it was told   *)
(* to end.                                                                  *)
LEMMA EndsStep == RunnersInv /\ [Next]_vars => EndsOK'
<1> SUFFICES ASSUME RunnersInv, [Next]_vars PROVE EndsOK'
  OBVIOUS
<1>0. RangesOK /\ WatcherTypeOK /\ EndsOK /\ \A t \in Call : EnvOfCall(t) \in Env
  BY StateTypes, CallTypes DEF RunnersInv, LifecycleTypeOK, RangesOK
<1> USE DEF RangesOK, WatcherTypeOK, EndsOK, watcherVars, threadVars, exitVars, envVars,
      UnchangedByPool
<1>1. ASSUME NEW t \in Call, CallNative(t) \/ CallStep(t) PROVE EndsOK'
  <2>1. CASE CallNative(t) \/ SelectBackend(t) \/ SelectFails(t)
    BY <1>0, <2>1 DEF CallNative, SelectBackend, SelectFails
  <2>2. CASE \/ ConstructRunner(t) \/ RegisterCallback(t) \/ RegisterFails(t)
             \/ RemoveCallback(t)
    BY <1>0, <2>2 DEF ConstructRunner, RegisterCallback, RegisterFails, RemoveCallback,
      GetShared, Watch, WatchFails, Unwatch
  <2>3. CASE ReleaseWatcher(t)
    BY <1>0, <2>3 DEF ReleaseWatcher, UnwatchUnref, ReleaseShared, Unref, Return
  <2>4. CASE \/ BeginSubscribe(t) \/ CheckCallbacks(t) \/ BackendWatch(t) \/ ScanStops(t)
             \/ ScanEnds(t) \/ SubscribeDone(t) \/ Recheck(t) \/ BeginUnsubscribe(t)
             \/ BackendUnwatch(t) \/ UnsubscribeDone(t) \/ Release(t)
    BY <1>0, <2>4 DEF BeginSubscribe, CheckCallbacks, BackendWatch, ScanStops, ScanEnds,
      SubscribeDone, Recheck, BeginUnsubscribe, BackendUnwatch, UnsubscribeDone, Release
  <2>5. CASE Settle(t)
    BY <1>0, <2>5 DEF Settle, CleanupAfterFailure
  <2> QED
    BY <1>1, <2>1, <2>2, <2>3, <2>4, <2>5 DEF CallStep
<1>2. ASSUME NEW x \in Env, EnvStep(x) \/ Exit(x) \/ Terminate(x) PROVE EndsOK'
  <2>1. CASE DeliverError(x)
    BY <1>0, <2>1 DEF DeliverError, FinishErrorCallback
  <2>2. CASE UnrefEmptied(x)
    BY <1>0, <2>2 DEF UnrefEmptied, Unref, Return
  <2>3. CASE CancelEach(x)
    BY <1>0, <2>3 DEF CancelEach, CancelDone, CancelWatcher
  <2>4. CASE Exit(x) \/ Cleanup(x) \/ Terminate(x)
    BY <1>0, <2>4 DEF Exit, Cleanup, Terminate, CancelEnvironment, CleanupEnvironment
  <2>5. CASE CleanupVisit(x) \/ CleanupUnrefNext(x) \/ CleanupUnwatch(x) \/ BackendUnwatch(x)
    BY <1>0, <2>5 DEF CleanupVisit, CleanupUnrefNext, CleanupUnwatch, BackendUnwatch,
      CleanupWatcher, CleanupUnref
  <2> QED
    BY <1>2, <2>1, <2>2, <2>3, <2>4, <2>5 DEF EnvStep
<1>3. ASSUME NEW b \in Backend, ErrorStep(b) \/ LoseWatches(b) \/ PollFails(b) PROVE EndsOK'
  BY <1>0, <1>3 DEF ErrorStep, TellError, Retire, LoseWatches, PollFails, NotifyError
<1>4. ASSUME UNCHANGED vars \/ \E w \in Watcher : DeliverEvents(w) PROVE EndsOK'
  BY <1>0, <1>4 DEF vars, DeliverEvents, TriggerCallbacks
<1> QED
  BY <1>1, <1>2, <1>3, <1>4 DEF Next

(* Steps of other calls, of environments and of backends leave a runner and *)
(* its thread alone.                                                        *)
LEMMA NotMine ==
  ASSUME LifecycleInv, [Next]_vars, NEW u \in Call, ~(CallNative(u) \/ CallStep(u))
  PROVE  SameRunner(u) /\ SameThread(u)
<1>0. BackendTypeOK /\ u \in Thread
  BY StateTypes, CallTypes
<1>1. ASSUME NEW t \in Call, CallNative(t) \/ CallStep(t) PROVE SameRunner(u) /\ SameThread(u)
  BY <1>1, OtherRunners
<1>2. ASSUME NEW e \in Env, EnvStep(e) \/ Exit(e) \/ Terminate(e)
      PROVE  SameRunner(u) /\ SameThread(u)
  <2>1. SameRunner(u)
    BY <1>2 DEF EnvStep, Exit, Terminate, DeliverError, UnrefEmptied, CancelEach, Cleanup,
      CleanupVisit, CleanupUnrefNext, CleanupUnwatch, BackendUnwatch, UnchangedByPool,
      runnerVars, envVars, SameRunner
  <2>2. SameThread(u)
    BY <1>0, <1>2, CompositionAssumption, EnvSteps, OtherThreads DEF SameThread, backendVars,
      localVars
  <2> QED
    BY <2>1, <2>2
<1>3. ASSUME UNCHANGED <<runnerVars, where, localVars>> PROVE SameRunner(u) /\ SameThread(u)
  BY <1>3 DEF SameRunner, SameThread, runnerVars, localVars
<1>4. ASSUME NEW b \in Backend, ErrorStep(b) \/ LoseWatches(b) \/ PollFails(b)
      PROVE  SameRunner(u) /\ SameThread(u)
  BY <1>3, <1>4 DEF ErrorStep, TellError, HandleError, Retire, RemoveShared, LoseWatches,
    Invalidate, PollFails, BackendFails
<1>5. ASSUME UNCHANGED vars \/ \E w \in Watcher : DeliverEvents(w)
      PROVE  SameRunner(u) /\ SameThread(u)
  BY <1>3, <1>5 DEF vars, DeliverEvents, backendVars
<1> QED
  BY <1>1, <1>2, <1>4, <1>5 DEF Next

(* Every step keeps the invariant about runners: the acting call's own      *)
(* runner by OwnRunner, all the others by NotMine.                          *)
LEMMA RunnersInvStep == RunnersInv /\ [Next]_vars => RunnersInv'
<1> SUFFICES ASSUME RunnersInv, [Next]_vars PROVE RunnersInv'
  OBVIOUS
<1>0. /\ LifecycleInv /\ RangesOK /\ BackendTypeOK /\ WatcherTypeOK
      /\ \A u \in Call : u \in Thread /\ PlaceOK(u) /\ RunnerOK(u)
  BY StateTypes, CallTypes DEF RunnersInv, LifecycleTypeOK, RangesOK
<1>1. ASSUME NEW u \in Call, ~(CallNative(u) \/ CallStep(u)) PROVE PlaceOK(u)' /\ RunnerOK(u)'
  <2>1. watcherOf[u] \in Watcher => keyOf'[watcherOf[u]] = keyOf[watcherOf[u]]
    BY <1>0, KeyStays
  <2>2. SameRunner(u) /\ SameThread(u)
    BY <1>0, <1>1, NotMine
  <2>3. PlaceOK(u)'
    BY <1>0, <2>2 DEF PlaceOK, SameRunner, SameThread, Woken, Inside, Unwatching
  <2>4. RunnerOK(u)'
    BY <1>0, <2>1, <2>2 DEF RunnerOK, SameRunner
  <2> QED
    BY <2>3, <2>4
<1>2. \A u \in Call : PlaceOK(u)' /\ RunnerOK(u)'
  BY <1>1, OwnRunner
<1> QED
  BY <1>0, <1>2, LifecycleInvStep, NativeStep, EndsStep DEF RunnersInv

(* Before the first call there is no runner.                                *)
LEMMA RunnersInit == Init => RunnersInv
<1> SUFFICES ASSUME Init PROVE RunnersInv
  OBVIOUS
<1>1. LifecycleInv
  BY LifecycleInitInv
<1>2. \A t \in Call : PlaceOK(t) /\ RunnerOK(t)
  BY NoWatcherAssumption, CallTypes DEF Init, BackendInit, PlaceOK, RunnerOK
<1>3. (\A e \in Env : NativeOK(e)) /\ EndsOK
  BY DEF Init, WatcherInit, NativeOK, EndsOK
<1> QED
  BY <1>1, <1>2, <1>3 DEF RunnersInv

(* While no poll() fails every backend somebody uses runs, and no error is  *)
(* told.                                                                    *)
BackendsRun ==
  /\ \A b \in Backend : /\ phase[b] \notin {"failing", "failed"}
                        /\ Registered(b) => phase[b] = "running"
  /\ \A t \in Thread : where[t] = "emplace" \/ reserving[t] => phase[on[t]] = "running"

(* No backend has failed, and so no error waits for a JavaScript thread.    *)
Healthy == errorCalls = {} /\ BackendsRun

(* Backend::unref stops and unregisters only a backend that is not          *)
(* reserved, and none that another thread is about to register.             *)
LEMMA UnrefSparesUsed ==
  ASSUME BackendInv, BackendsRun, NEW t \in Thread, on[t] \in Backend,
         where[t] \in {"lastUnref", "watchUnref", "unwatchUnref"}, StopIfUnused(on[t])
  PROVE  /\ \A b \in Backend : /\ phase'[b] \in {phase[b], "stopped"}
                               /\ Registered(b)' => Registered(b) /\ phase'[b] = phase[b]
         /\ \A u \in Thread : where[u] = "emplace" \/ reserving[u] => phase'[on[u]] = phase[on[u]]
<1>0. BackendTypeOK /\ PlacesOK /\ CreatorsAreAlone
  BY DEF BackendInv
<1> USE DEF BackendTypeOK, StopIfUnused, Stop
<1>1. ASSUME NEW b \in Backend
      PROVE  /\ phase'[b] \in {phase[b], "stopped"}
             /\ Registered(b)' => Registered(b) /\ phase'[b] = phase[b]
  BY <1>0, NoBackendAssumption DEF Registered
<1>2. ASSUME NEW u \in Thread, reserving[u] PROVE phase'[on[u]] = phase[on[u]]
  BY <1>0, <1>2, BackendIsHeld
<1>3. ASSUME NEW u \in Thread, where[u] = "emplace" PROVE phase'[on[u]] = phase[on[u]]
  <2>1. on[u] # on[t] /\ on[u] \in Backend
    BY <1>0, <1>3 DEF CreatorsAreAlone, Creating, PlacesOK
  <2> QED
    BY <1>0, <2>1
<1> QED
  BY <1>1, <1>2, <1>3

(* No function of Backend.cc ends the thread of a backend somebody has got  *)
(* from getShared: the losing creator stops its own, unref an unused one.   *)
LEMMA BackendsRunStep ==
  ASSUME BackendInv, BackendsRun, NEW t \in Thread, CallerStep(t)
  PROVE  BackendsRun'
<1>0. BackendTypeOK /\ PlacesOK /\ CreatorsAreAlone
  BY DEF BackendInv
<1> USE DEF BackendTypeOK, BackendsRun, Goto, registryVars, subscriptionVars, localVars
<1>1. CASE \/ \E n \in Name : GetBackend(t, n)
           \/ FindDefault(t) \/ ReleaseBackend(t)
  BY <1>0, <1>1 DEF GetBackend, FindDefault, ReleaseBackend, Registered
<1>2. CASE FindBackend(t)
  BY <1>0, <1>2 DEF FindBackend, Registered
<1>3. ASSUME NEW b \in Backend, CreateBackend(t, b) PROVE BackendsRun'
  BY <1>0, <1>3 DEF CreateBackend, Unreferenced, PlacesOK, Inside, Unwatching, Registered
<1>4. CASE StartBackend(t)
  BY <1>0, <1>4, NoBackendAssumption DEF StartBackend, PlacesOK, Registered
<1>5. CASE StartFails(t)
  <2>1. on[t] \in Backend /\ ~reserving[t] /\ ~Registered(on[t])
        /\ \A u \in Thread \ {t} : on[u] = on[t] => where[u] # "emplace" /\ ~reserving[u]
    BY <1>0, <1>5 DEF StartFails, PlacesOK, CreatorsAreAlone, Creating, Inside, Unwatching
  <2> QED
    BY <1>0, <1>5, <2>1 DEF StartFails, Registered
<1>6. CASE EmplaceBackend(t)
  <2>1. on[t] \in Backend /\ ~reserving[t] /\ ~Registered(on[t])
        /\ \A u \in Thread \ {t} : on[u] = on[t] => where[u] # "emplace" /\ ~reserving[u]
    BY <1>0, <1>6 DEF EmplaceBackend, PlacesOK, CreatorsAreAlone, Creating, Inside, Unwatching
  <2>2. CASE shared[name[t]] = NoBackend
    <3>1. /\ UNCHANGED phase /\ on' = on /\ reserving' = [reserving EXCEPT ![t] = TRUE]
          /\ where' = [where EXCEPT ![t] = "held"]
          /\ shared' = [shared EXCEPT ![name[t]] = on[t]]
      BY <1>0, <1>6, <2>2 DEF EmplaceBackend
    <3> QED
      BY <1>0, <1>6, <2>1, <3>1 DEF Registered, EmplaceBackend
  <2>3. CASE shared[name[t]] # NoBackend
    <3> DEFINE other == shared[name[t]]
    <3>1. /\ Stop(on[t]) /\ on' = [on EXCEPT ![t] = other]
          /\ reserving' = [reserving EXCEPT ![t] = TRUE]
          /\ where' = [where EXCEPT ![t] = "held"]
          /\ shared' = shared
      BY <1>0, <1>6, <2>3 DEF EmplaceBackend
    <3>2. other \in Backend /\ Registered(other) /\ other # on[t]
      BY <1>0, <2>1, <2>3 DEF Registered
    <3>3. \A b \in Backend : /\ phase'[b] \in {phase[b], "stopped"}
                             /\ b # on[t] => phase'[b] = phase[b]
      BY <1>0, <2>1, <3>1 DEF Stop
    <3>4. \A b \in Backend : Registered(b)' <=> Registered(b)
      BY <3>1 DEF Registered
    <3>5. ASSUME NEW u \in Thread, where'[u] = "emplace" \/ reserving'[u]
          PROVE  phase'[on'[u]] = "running"
      <4>1. CASE u = t
        BY <1>0, <3>1, <3>2, <3>3, <4>1
      <4>2. CASE u # t
        <5>1. on'[u] = on[u] /\ (where[u] = "emplace" \/ reserving[u]) /\ on[u] # on[t]
          BY <1>0, <2>1, <3>1, <3>5, <4>2
        <5>2. on[u] \in Backend
          BY <1>0, <5>1 DEF PlacesOK, Inside, Unwatching
        <5> QED
          BY <3>3, <5>1, <5>2
      <4> QED
        BY <4>1, <4>2
    <3> QED
      BY <2>1, <3>3, <3>4, <3>5
  <2> QED
    BY <2>2, <2>3
<1>7. CASE LastUnref(t)
  <2>1. on[t] \in Backend
    BY <1>0, <1>7 DEF LastUnref, PlacesOK
  <2>2. ~reserving[t]
    BY <1>0, <1>7 DEF LastUnref, PlacesOK, Inside, Unwatching
  <2> QED
    BY <1>0, <1>7, <2>1, <2>2, UnrefSparesUsed DEF LastUnref
<1>8. CASE WatchUnref(t)
  <2>1. on[t] \in Backend
    BY <1>0, <1>8 DEF WatchUnref, PlacesOK
  <2> QED
    BY <1>0, <1>8, <2>1, UnrefSparesUsed DEF WatchUnref
<1>9. CASE UnwatchUnrefs(t)
  <2>1. on[t] \in Backend
    BY <1>0, <1>9 DEF UnwatchUnrefs, PlacesOK
  <2>2. /\ reserving' = reserving /\ \A u \in Thread \ {t} : where'[u] = where[u] /\ on'[u] = on[u]
        /\ where'[t] # "emplace" /\ (reserving[t] => on'[t] = on[t])
    BY <1>0, <1>9 DEF UnwatchUnrefs, Back
  <2> QED
    BY <1>0, <1>9, <2>1, <2>2, UnrefSparesUsed DEF UnwatchUnrefs
<1>10. ASSUME UNCHANGED <<phase, shared, reserving>>,
              \A u \in Thread : /\ where'[u] = "emplace" => where[u] = "emplace"
                                /\ where[u] = "emplace" \/ reserving[u] => on'[u] = on[u]
       PROVE  BackendsRun'
  BY <1>10 DEF Registered
<1>11. CASE \E s \in Subject : \/ CallWatch(t, s) \/ CallUnwatch(t, s)
                               \/ \E b \in Backend : CallUnwatchOn(t, b, s)
  BY <1>0, <1>10, <1>11 DEF CallWatch, CallUnwatch, CallUnwatchOn, PlacesOK, Inside, Unwatching
<1>12. CASE \/ WatchWaits(t) \/ UnwatchWaits(t) \/ DetachWatcher(t)
            \/ ScanCompletes(t) \/ ScanCancelled(t) \/ ScanTruncated(t)
  BY <1>0, <1>10, <1>12 DEF WatchWaits, UnwatchWaits, DetachWatcher, ScanCompletes, ScanCancelled,
    ScanTruncated
<1>13. CASE \E isCancelled \in BOOLEAN : \/ WatchCancelled(t, isCancelled)
                                         \/ WatchSubscribed(t, isCancelled)
                                         \/ WatchScans(t, isCancelled)
  BY <1>0, <1>10, <1>13 DEF WatchCancelled, WatchSubscribed, WatchScans
<1>14. CASE ScanFails(t) \/ FinishFails(t) \/ FinishWatch(t)
  BY <1>0, <1>10, <1>14 DEF ScanFails, FinishFails, AbandonWatch, FinishWatch, WakeAndGoto
<1>15. CASE \E isWanted \in BOOLEAN : \/ UnwatchKeeps(t, isWanted)
                                      \/ UnwatchRemoves(t, isWanted)
                                      \/ UnwatchThrows(t, isWanted)
  BY <1>0, <1>10, <1>15 DEF UnwatchKeeps, UnwatchRemoves, UnwatchThrows, Back, Locked
<1> QED
  BY <1>1, <1>2, <1>3, <1>4, <1>5, <1>6, <1>7, <1>8, <1>9, <1>11, <1>12, <1>13, <1>14, <1>15
  DEF CallerStep

(* Without a failing poll() backends stay healthy: handleError, the only    *)
(* source of error calls, is never reached.                                 *)
LEMMA HealthyStep ==
  ASSUME "poll" \notin Faults, LifecycleInv, Healthy, [Next]_vars
  PROVE  Healthy'
<1>0. WatcherTypeOK /\ BackendTypeOK /\ BackendInv /\ errorCalls = {} /\ BackendsRun
  BY StateTypes DEF Healthy, LifecycleInv
<1>1. BackendsRun'
  <2>1. ASSUME NEW s \in Watcher, NewSubject(s) PROVE BackendsRun'
    BY <1>0, <2>1 DEF BackendsRun, NewSubject, registryVars, localVars, Registered
  <2>2. CASE UNCHANGED backendVars
    BY <1>0, <2>2 DEF BackendsRun, backendVars, registryVars, localVars, Registered
  <2>3. ASSUME NEW t \in Call, CallNative(t) \/ CallStep(t) PROVE BackendsRun'
    BY <1>0, <2>1, <2>2, <2>3, CallSteps, CallTypes, BackendsRunStep
  <2>4. ASSUME NEW e \in Env, EnvStep(e) \/ Exit(e) \/ Terminate(e) PROVE BackendsRun'
    BY <1>0, <2>2, <2>4, EnvSteps, CompositionAssumption, BackendsRunStep
  <2>5. ASSUME NEW b \in Backend, ErrorStep(b) \/ LoseWatches(b) \/ PollFails(b)
        PROVE  BackendsRun'
    BY <1>0, <2>5 DEF ErrorStep, TellError, HandleError, Retire, RemoveShared, LoseWatches,
      Invalidate, PollFails, BackendsRun, registryVars, localVars, Registered
  <2>6. CASE UNCHANGED vars \/ \E w \in Watcher : DeliverEvents(w)
    BY <2>2, <2>6 DEF vars, DeliverEvents
  <2> QED
    BY <2>3, <2>4, <2>5, <2>6 DEF Next
<1>2. errorCalls' = {}
  <2> USE DEF watcherVars, UnchangedByPool
  <2>1. ASSUME NEW t \in Call, CallNative(t) \/ CallStep(t) PROVE errorCalls' = {}
    <3>1. CASE CallNative(t) \/ SelectBackend(t) \/ SelectFails(t)
      BY <1>0, <3>1 DEF CallNative, SelectBackend, SelectFails
    <3>2. CASE \/ ConstructRunner(t) \/ RegisterCallback(t) \/ RegisterFails(t)
               \/ RemoveCallback(t) \/ ReleaseWatcher(t)
      BY <1>0, <3>2 DEF ConstructRunner, GetShared, RegisterCallback, RegisterFails,
        RemoveCallback, ReleaseWatcher, Watch, WatchFails, Unwatch, UnwatchUnref,
        ReleaseShared, Unref
    <3>3. CASE \/ BeginSubscribe(t) \/ CheckCallbacks(t) \/ BackendWatch(t) \/ ScanStops(t)
               \/ ScanEnds(t) \/ SubscribeDone(t) \/ Recheck(t) \/ BeginUnsubscribe(t)
               \/ BackendUnwatch(t) \/ UnsubscribeDone(t) \/ Release(t)
      BY <1>0, <3>3 DEF BeginSubscribe, CheckCallbacks, BackendWatch, ScanStops, ScanEnds,
        SubscribeDone, Recheck, BeginUnsubscribe, BackendUnwatch, UnsubscribeDone, Release
    <3>4. CASE Settle(t)
      BY <1>0, <3>4 DEF Settle, CleanupAfterFailure
    <3> QED
      BY <2>1, <3>1, <3>2, <3>3, <3>4 DEF CallStep
  <2>2. ASSUME NEW e \in Env, EnvStep(e) \/ Exit(e) \/ Terminate(e) PROVE errorCalls' = {}
    BY <1>0, <2>2 DEF EnvStep, Exit, Terminate, DeliverError, UnrefEmptied, CancelEach, Cleanup,
      CleanupVisit, CleanupUnrefNext, CleanupUnwatch, BackendUnwatch, CancelEnvironment,
      CleanupEnvironment, CancelWatcher, CancelDone, CleanupWatcher, CleanupUnref, Unref,
      FinishErrorCallback
  <2>3. ASSUME NEW b \in Backend, ErrorStep(b) \/ LoseWatches(b) \/ PollFails(b)
        PROVE  errorCalls' = {}
    BY <1>0, <2>3 DEF ErrorStep, TellError, HandleError, Retire, LoseWatches, PollFails,
      BackendsRun
  <2>4. CASE UNCHANGED vars \/ \E w \in Watcher : DeliverEvents(w)
    BY <1>0, <2>4 DEF vars, DeliverEvents, TriggerCallbacks
  <2> QED
    BY <2>1, <2>2, <2>3, <2>4 DEF Next
<1> QED
  BY <1>1, <1>2 DEF Healthy

(* Before the first call no backend is registered and no error was told.    *)
LEMMA HealthyInit == Init => Healthy
  BY NoBackendAssumption DEF Init, WatcherInit, BackendInit, Healthy, BackendsRun, Registered

(* A subscription stays as long as somebody listens.                        *)
LEMMA ServedStays ==
  ASSUME "poll" \notin Faults, LifecycleInv, [Next]_vars,
         NEW w \in Watcher, NEW b \in Backend, Served(w, b), callbacks[w] # {}
  PROVE  Served(w, b)'
<1>0. /\ BackendTypeOK /\ BackendInv /\ PlacesOK /\ CreatorsAreAlone
      /\ w \in subscriptions[b] /\ phase[b] = "running"
  BY StateTypes DEF Served, LifecycleInv, BackendInv
<1> USE DEF BackendTypeOK, Served, registryVars, subscriptionVars
<1>1. CASE UNCHANGED <<phase, subscriptions>>
  BY <1>0, <1>1
<1>2. ASSUME NEW t, UNCHANGED subscriptions, StopIfUnused(on[t])
      PROVE  Served(w, b)'
  BY <1>0, <1>2 DEF StopIfUnused, Stop
<1>3. ASSUME NEW t \in Thread, BackendUnwatch(t) PROVE Served(w, b)'
  <2>1. CASE UnwatchWaits(t) \/ DetachWatcher(t) \/ UnwatchKeeps(t, HasCallbacks(subject[t]))
    BY <1>1, <2>1 DEF UnwatchWaits, DetachWatcher, UnwatchKeeps
  <2>2. CASE UnwatchRemoves(t, HasCallbacks(subject[t]))
    BY <1>0, <2>2 DEF UnwatchRemoves, HasCallbacks
  <2>3. CASE UnwatchUnrefs(t)
    BY <1>2, <2>3 DEF UnwatchUnrefs
  <2> QED
    BY <1>3, <2>1, <2>2, <2>3 DEF BackendUnwatch
<1>4. ASSUME NEW t \in Call, CallNative(t) \/ CallStep(t) PROVE Served(w, b)'
  <2>0. t \in Thread
    BY CallTypes
  <2>1. CASE CallNative(t) \/ ConstructRunner(t)
    BY <1>1, <2>1 DEF CallNative, GetBackend, ConstructRunner, NewSubject, backendVars
  <2>2. CASE SelectBackend(t)
    <3>1. CASE FindBackend(t) \/ FindDefault(t)
      BY <1>1, <3>1 DEF FindBackend, FindDefault
    <3>2. ASSUME NEW c \in Backend, CreateBackend(t, c) PROVE Served(w, b)'
      BY <1>0, <3>2 DEF CreateBackend, Unreferenced
    <3>3. CASE StartBackend(t)
      BY <1>0, <2>0, <3>3 DEF StartBackend
    <3>4. CASE EmplaceBackend(t)
      <4>1. on[t] # b
        BY <1>0, <2>0, <3>4 DEF EmplaceBackend, CreatorsAreAlone, Creating
      <4> QED
        BY <1>0, <3>4, <4>1 DEF EmplaceBackend, Stop
    <3> QED
      BY <2>2, <3>1, <3>2, <3>3, <3>4 DEF SelectBackend
  <2>3. CASE SelectFails(t)
    BY <1>0, <2>0, <2>3 DEF SelectFails, StartFails, CreatorsAreAlone, Creating
  <2>4. CASE \/ RegisterCallback(t) \/ RegisterFails(t) \/ RemoveCallback(t)
             \/ ReleaseWatcher(t) \/ BeginSubscribe(t) \/ ScanStops(t) \/ SubscribeDone(t)
             \/ UnsubscribeDone(t) \/ Settle(t)
    BY <1>1, <2>4 DEF RegisterCallback, RegisterFails, RemoveCallback, ReleaseWatcher,
      BeginSubscribe, ScanStops, SubscribeDone, UnsubscribeDone, Settle, backendVars
  <2>5. CASE CheckCallbacks(t) \/ Recheck(t) \/ BeginUnsubscribe(t)
    BY <1>1, <2>5 DEF CheckCallbacks, Recheck, BeginUnsubscribe, CallWatch, CallUnwatch,
      backendVars
  <2>6. CASE BackendWatch(t)
    <3>1. CASE WatchUnref(t)
      BY <1>2, <3>1 DEF WatchUnref
    <3>2. CASE FinishWatch(t)
      BY <1>0, <3>2 DEF FinishWatch
    <3> QED
      BY <1>1, <2>6, <3>1, <3>2 DEF BackendWatch, WatchWaits, WatchCancelled, WatchSubscribed,
        WatchScans
  <2>7. CASE ScanEnds(t)
    BY <1>1, <2>7 DEF ScanEnds, ScanCompletes, ScanCancelled, ScanTruncated, ScanFails,
      AbandonWatch
  <2>8. CASE Release(t)
    <3>1. CASE ReleaseBackend(t)
      BY <1>1, <3>1 DEF ReleaseBackend
    <3>2. CASE LastUnref(t)
      BY <1>2, <3>2 DEF LastUnref
    <3> QED
      BY <2>8, <3>1, <3>2 DEF Release
  <2> QED
    BY <1>3, <1>4, <2>0, <2>1, <2>2, <2>3, <2>4, <2>5, <2>6, <2>7, <2>8 DEF CallStep
<1>5. ASSUME NEW e \in Env, EnvStep(e) \/ Exit(e) \/ Terminate(e) PROVE Served(w, b)'
  <2>1. CASE BackendUnwatch(e)
    BY <1>3, <2>1, CompositionAssumption
  <2> QED
    BY <1>1, <1>5, <2>1 DEF EnvStep, Exit, Terminate, DeliverError, UnrefEmptied, CancelEach,
      Cleanup, CleanupVisit, CleanupUnrefNext, CleanupUnwatch, CallUnwatchOn, backendVars
<1>6. ASSUME NEW c \in Backend, ErrorStep(c) \/ LoseWatches(c) \/ PollFails(c)
      PROVE  Served(w, b)'
  BY <1>0, <1>6 DEF ErrorStep, TellError, HandleError, Retire, RemoveShared, LoseWatches,
    Invalidate, PollFails
<1>7. CASE UNCHANGED vars \/ \E v \in Watcher : DeliverEvents(v)
  BY <1>1, <1>7 DEF vars, DeliverEvents, backendVars
<1> QED
  BY <1>4, <1>5, <1>6, <1>7 DEF Next

(* Subscribe call t has added its callback, or found it; nobody has asked   *)
(* to undo that and its environment goes on.                                *)
Undone(t) ==
  /\ Plan[t].op = "subscribe" /\ fate[t] = "good" /\ EnvOfCall(t) \notin ending
  /\ \A u \in Call : /\ Plan[u].op = "unsubscribe"
                     /\ Plan[u].key = Plan[t].key /\ Plan[u].cb = Plan[t].cb
                     => task[u] = "new"

(* The constructor of t's runner has been past Watcher::watch or unwatch    *)
(* (or the call ended before it came there).                                *)
AddedIt(t) ==
  task[t] # "new" /\ (task[t] = "native" => stage[EnvOfCall(t)] \notin {"idle", "reserved"})

(* Watcher w has the callback of t; it is the one t's runner works on, and  *)
(* from the end of Backend::watch a running backend serves it.              *)
SubscribedTo(t, w) ==
  /\ keyOf[w] = Plan[t].key /\ Plan[t].cb \in callbacks[w]
  /\ task[t] # "settled" => watcherOf[t] = w
  /\ task[t] # "unsubscribing"
  /\ task[t] \in {"rechecking", "releasing", "settled"} => \E b \in Backend : Served(w, b)
  /\ task[t] = "subscribing" /\ where[t] = "held" /\ ~threw[t] => Served(w, on[t])

(* Every such call has its watcher.                                         *)
SubscribedOK ==
  \A t \in Call : Undone(t) /\ AddedIt(t) => \E w \in registry : SubscribedTo(t, w)

(* No other call adds the same callback to the same watcher.                *)
OwnCallbacks ==
  \A t, u \in Call :
    /\ Plan[t].op = "subscribe" /\ Plan[u].op = "subscribe"
    /\ Plan[t].key = Plan[u].key /\ Plan[t].cb = Plan[u].cb
    => t = u

(* Without failing scans a call fails only before it has added its callback.*)
FailOK == \A t \in Call :
            /\ threw[t] => task[t] = "settled"
            /\ fate[t] = "failed" => ~added[t]
            /\ added[t] \/ fate[t] = "failed" => AddedIt(t)

(* While a native call holds its JavaScript thread, nothing but this call   *)
(* moves that thread through Watcher.cc.                                    *)
LEMMA StageKept ==
  ASSUME RunnersInv, [Next]_vars, NEW t \in Call, turn[EnvOfCall(t)] = t,
         ~(CallNative(t) \/ CallStep(t))
  PROVE  stage'[EnvOfCall(t)] = stage[EnvOfCall(t)]
<1> DEFINE e == EnvOfCall(t)
<1>0. /\ RangesOK /\ WatcherTypeOK /\ TurnsOK /\ NativeOK(e)
      /\ \A u \in Call : EnvOfCall(u) \in Env /\ u # NoCall
  BY StateTypes, CallTypes, CallAssumption DEF RunnersInv, LifecycleTypeOK, RangesOK
<1> USE DEF WatcherTypeOK, watcherVars, threadVars, UnchangedByPool
<1>1. ASSUME NEW u \in Call, CallNative(u) \/ CallStep(u) PROVE stage'[e] = stage[e]
  <2>0. u # t
    BY <1>1
  <2>1. CASE CallNative(u) \/ SelectBackend(u) \/ SelectFails(u)
    BY <2>1 DEF CallNative, SelectBackend, SelectFails
  <2>2. CASE ConstructRunner(u)
    <3>1. EnvOfCall(u) # e
      BY <1>0, <2>0, <2>2 DEF ConstructRunner, TurnsOK
    <3> QED
      BY <1>0, <2>2, <3>1 DEF ConstructRunner, GetShared
  <2>3. CASE RegisterCallback(u) \/ RegisterFails(u) \/ RemoveCallback(u) \/ ReleaseWatcher(u)
    <3>1. EnvOfCall(u) # e
      BY <2>0, <2>3 DEF RegisterCallback, RegisterFails, RemoveCallback, ReleaseWatcher
    <3> QED
      BY <1>0, <2>3, <3>1 DEF RegisterCallback, RegisterFails, RemoveCallback, ReleaseWatcher,
        Watch, WatchFails, Unwatch, UnwatchUnref, ReleaseShared, Unref, Return
  <2>4. CASE \/ BeginSubscribe(u) \/ CheckCallbacks(u) \/ BackendWatch(u) \/ ScanStops(u)
             \/ ScanEnds(u) \/ SubscribeDone(u) \/ Recheck(u) \/ BeginUnsubscribe(u)
             \/ BackendUnwatch(u) \/ UnsubscribeDone(u) \/ Release(u)
    BY <2>4 DEF BeginSubscribe, CheckCallbacks, BackendWatch, ScanStops, ScanEnds,
      SubscribeDone, Recheck, BeginUnsubscribe, BackendUnwatch, UnsubscribeDone, Release
  <2>5. CASE Settle(u)
    <3>1. EnvOfCall(u) # e
      BY <1>0, <2>0, <2>5 DEF Settle
    <3> QED
      BY <1>0, <2>5, <3>1 DEF Settle, CleanupAfterFailure
  <2> QED
    BY <1>1, <2>1, <2>2, <2>3, <2>4, <2>5 DEF CallStep
<1>2. ASSUME NEW x \in Env, EnvStep(x) \/ Exit(x) \/ Terminate(x) PROVE stage'[e] = stage[e]
  <2>1. CASE DeliverError(x) \/ UnrefEmptied(x)
    <3>1. x # e
      BY <1>0, <2>1 DEF DeliverError, Free, UnrefEmptied
    <3> QED
      BY <1>0, <2>1, <3>1, OtherStages
  <2>2. CASE Exit(x) \/ Cleanup(x)
    BY <1>0, <2>2 DEF Exit, Cleanup, Free, CancelEnvironment, CleanupEnvironment
  <2>3. CASE CancelEach(x)
    BY <1>0, <2>3 DEF CancelEach, CancelDone, CancelWatcher, NativeOK, Holding
  <2>4. CASE \/ Terminate(x) \/ CleanupVisit(x) \/ CleanupUnrefNext(x) \/ CleanupUnwatch(x)
             \/ BackendUnwatch(x)
    BY <2>4 DEF Terminate, CleanupVisit, CleanupUnrefNext, CleanupUnwatch, BackendUnwatch,
      CleanupWatcher, CleanupUnref
  <2> QED
    BY <1>2, <2>1, <2>2, <2>3, <2>4 DEF EnvStep
<1>3. ASSUME NEW b \in Backend, ErrorStep(b) \/ LoseWatches(b) \/ PollFails(b)
      PROVE  stage'[e] = stage[e]
  BY <1>3 DEF ErrorStep, TellError, Retire, LoseWatches, PollFails, NotifyError
<1>4. ASSUME UNCHANGED vars \/ \E w \in Watcher : DeliverEvents(w) PROVE stage'[e] = stage[e]
  BY <1>4 DEF vars, DeliverEvents, TriggerCallbacks
<1> QED
  BY <1>1, <1>2, <1>3, <1>4 DEF Next

(* An added callback was added by this step or before.                      *)
LEMMA AddedWas ==
  ASSUME RunnersInv, [Next]_vars, NEW t \in Call, AddedIt(t)'
  PROVE  \/ AddedIt(t)
         \/ RegisterCallback(t) \/ RegisterFails(t) \/ RemoveCallback(t) \/ SelectFails(t)
<1>0. /\ RangesOK /\ WatcherTypeOK /\ TurnsOK /\ NativeOK(EnvOfCall(t))
      /\ EnvOfCall(t) \in Env /\ t # NoCall /\ LifecycleInv
  BY StateTypes, CallTypes, CallAssumption DEF RunnersInv, LifecycleTypeOK, RangesOK
<1> USE DEF AddedIt, RangesOK
<1>1. CASE ~(CallNative(t) \/ CallStep(t))
  <2>1. task'[t] = task[t]
    BY <1>0, <1>1, NotMine DEF SameRunner
  <2>2. task[t] = "native" => stage'[EnvOfCall(t)] = stage[EnvOfCall(t)]
    BY <1>0, <1>1, StageKept DEF TurnsOK
  <2> QED
    BY <2>1, <2>2
<1>2. CASE CallNative(t)
  BY <1>0, <1>2 DEF CallNative, Free, Become, watcherVars, threadVars
<1>3. CASE SelectBackend(t)
  BY <1>3 DEF SelectBackend, watcherVars, threadVars, runnerVars
<1>4. CASE ConstructRunner(t)
  BY <1>0, <1>4 DEF ConstructRunner, GetShared, WatcherTypeOK
<1>5. CASE ReleaseWatcher(t)
  <2>1. turn[EnvOfCall(t)] = t /\ stage[EnvOfCall(t)] \in {"emptied", "release", "unref"}
    BY <1>5 DEF ReleaseWatcher, UnwatchUnref, ReleaseShared, Unref
  <2>2. task[t] # "new"
    BY <1>0, <2>1 DEF NativeOK
  <2> QED
    BY <2>1, <2>2
<1>6. CASE \/ BeginSubscribe(t) \/ CheckCallbacks(t) \/ BackendWatch(t) \/ ScanStops(t)
           \/ ScanEnds(t) \/ SubscribeDone(t) \/ Recheck(t) \/ BeginUnsubscribe(t)
           \/ UnsubscribeDone(t) \/ Release(t) \/ Settle(t)
  BY <1>6 DEF BeginSubscribe, CheckCallbacks, BackendWatch, ScanStops, ScanEnds,
    SubscribeDone, Recheck, BeginUnsubscribe, UnsubscribeDone, Release, Settle, WorkComplete
<1>7. CASE BackendUnwatch(t)
  BY <1>7 DEF BackendUnwatch, UnchangedByPool, watcherVars, threadVars
<1> QED
  BY <1>1, <1>2, <1>3, <1>4, <1>5, <1>6, <1>7 DEF CallStep

(* What a subscribe call was not undone by now, was not undone before.      *)
LEMMA UndoneWas ==
  ASSUME RunnersInv, [Next]_vars, NEW t \in Call, Undone(t)'
  PROVE  Undone(t)
<1>0. /\ RangesOK /\ \A u \in Call : EnvOfCall(u) \in Env
      /\ LifecycleInv
  BY StateTypes, CallTypes DEF RunnersInv, LifecycleTypeOK, RangesOK
<1> USE DEF RangesOK
<1>1. ASSUME NEW u \in Call, task'[u] = "new" PROVE task[u] = "new"
  <2>1. CASE CallNative(u) \/ CallStep(u)
    <3>1. task[u] = task'[u] \/ task'[u] # "new"
      <4>1. CASE ReleaseWatcher(u)
        <5>1. \/ task' = task
              \/ task' = [task EXCEPT ![u] = "queued"]
              \/ task' = [task EXCEPT ![u] = "releasing"]
          BY <1>0, <4>1 DEF ReleaseWatcher, Become
        <5> QED
          BY <1>0, <5>1
      <4>2. CASE ~ReleaseWatcher(u)
        BY <1>0, <2>1, <4>2 DEF CallStep, CallNative, SelectBackend, SelectFails, ConstructRunner,
          RegisterCallback, RegisterFails, RemoveCallback, BeginSubscribe, CheckCallbacks,
          BackendWatch, ScanStops, ScanEnds, SubscribeDone, Recheck, BeginUnsubscribe,
          BackendUnwatch, UnsubscribeDone, Release, Settle, Become, runnerVars
      <4> QED
        BY <4>1, <4>2
    <3> QED
      BY <1>1, <3>1
  <2>2. CASE ~(CallNative(u) \/ CallStep(u))
    BY <1>0, <1>1, <2>2, NotMine DEF SameRunner
  <2> QED
    BY <2>1, <2>2
<1>2. fate'[t] = "good" => fate[t] = "good"
  <2>1. CASE CallNative(t) \/ CallStep(t)
    BY <1>0, <2>1 DEF CallStep, CallNative, SelectBackend, SelectFails, ConstructRunner,
      RegisterCallback, RegisterFails, RemoveCallback, ReleaseWatcher, BeginSubscribe,
      CheckCallbacks, BackendWatch, ScanStops, ScanEnds, SubscribeDone, Recheck,
      BeginUnsubscribe, BackendUnwatch, UnsubscribeDone, Release, Settle, runnerVars
  <2>2. CASE ~(CallNative(t) \/ CallStep(t))
    BY <1>0, <2>2, NotMine DEF SameRunner
  <2> QED
    BY <2>1, <2>2
<1>3. ending \subseteq ending'
  <2> USE DEF envVars, UnchangedByPool
  <2>1. ASSUME NEW u \in Call, CallNative(u) \/ CallStep(u) PROVE ending' = ending
    BY <2>1 DEF CallStep, CallNative, SelectBackend, SelectFails, ConstructRunner,
      RegisterCallback, RegisterFails, RemoveCallback, ReleaseWatcher, BeginSubscribe,
      CheckCallbacks, BackendWatch, ScanStops, ScanEnds, SubscribeDone, Recheck,
      BeginUnsubscribe, BackendUnwatch, UnsubscribeDone, Release, Settle
  <2>2. ASSUME NEW e \in Env, EnvStep(e) \/ Exit(e) \/ Terminate(e)
        PROVE  ending \subseteq ending'
    BY <2>2 DEF EnvStep, Exit, Terminate, DeliverError, UnrefEmptied, CancelEach, Cleanup,
      CleanupVisit, CleanupUnrefNext, CleanupUnwatch, BackendUnwatch
  <2>3. ASSUME NEW b \in Backend, ErrorStep(b) \/ LoseWatches(b) \/ PollFails(b)
        PROVE  ending' = ending
    BY <2>3 DEF ErrorStep, TellError, Retire, LoseWatches, PollFails
  <2>4. ASSUME UNCHANGED vars \/ \E w \in Watcher : DeliverEvents(w) PROVE ending' = ending
    BY <2>4 DEF vars, DeliverEvents
  <2> QED
    BY <2>1, <2>2, <2>3, <2>4 DEF Next
<1> QED
  BY <1>1, <1>2, <1>3 DEF Undone, EnvOfCall

(* The callback of such a call is not removed.                              *)
LEMMA CallbackStays ==
  ASSUME RunnersInv, errorCalls = {}, FailOK \/ OwnCallbacks, [Next]_vars,
         NEW t \in Call, Undone(t), NEW w \in Watcher, keyOf[w] = Plan[t].key,
         Plan[t].cb \in callbacks[w]
  PROVE  Plan[t].cb \in callbacks'[w]
<1> DEFINE c == Plan[t].cb
           Stays == Plan[t].cb \in callbacks'[w]
<1>0. /\ RangesOK /\ WatcherTypeOK /\ LifecycleInv /\ EndsOK /\ TurnsOK
      /\ EnvOfCall(t) \notin ending
      /\ \A u \in Call : /\ EnvOfCall(u) \in Env /\ u # NoCall /\ NativeOK(EnvOfCall(u))
                          /\ RunnerOK(u) /\ Plan[u].op \in {"subscribe", "unsubscribe"}
  BY StateTypes, CallTypes, CallAssumption DEF RunnersInv, LifecycleTypeOK, RangesOK, Undone
<1> USE DEF WatcherTypeOK, watcherVars, objectVars, UnchangedByPool
<1>1. ASSUME NEW u \in Call, CallNative(u) \/ CallStep(u) PROVE Stays
  <2>1. CASE CallNative(u) \/ SelectBackend(u) \/ SelectFails(u)
    BY <2>1 DEF CallNative, SelectBackend, SelectFails
  <2>2. CASE ConstructRunner(u) \/ RegisterFails(u) \/ ReleaseWatcher(u)
    BY <2>2 DEF ConstructRunner, GetShared, RegisterFails, WatchFails, ReleaseWatcher,
      UnwatchUnref, ReleaseShared, Unref
  <2>3. CASE RegisterCallback(u)
    BY <1>0, <2>3 DEF RegisterCallback, Watch
  <2>4. CASE RemoveCallback(u)
    <3> DEFINE e == EnvOfCall(u)
    <3>1. /\ turn[e] = u /\ stage[e] = "reserved" /\ request[e].op = "unsubscribe"
          /\ callbacks' = [callbacks EXCEPT ![at[e]] = @ \ {request[e].cb}]
      BY <2>4 DEF RemoveCallback, Unwatch, EraseCallback
    <3>2. /\ task[u] = "native" /\ at[e] = watcherOf[u] /\ request[e] = RequestOf(u)
      BY <1>0, <3>1 DEF NativeOK, Holding
    <3>3. /\ Plan[u].op = "unsubscribe" /\ request[e].cb = Plan[u].cb
          /\ ~(Plan[u].key = Plan[t].key /\ Plan[u].cb = Plan[t].cb)
      BY <3>1, <3>2 DEF RequestOf, Undone
    <3>4. ~(at[e] = w /\ request[e].cb = c)
      BY <1>0, <3>2, <3>3 DEF RunnerOK
    <3> QED
      BY <1>0, <3>1, <3>4
  <2>5. CASE \/ BeginSubscribe(u) \/ CheckCallbacks(u) \/ BackendWatch(u) \/ ScanStops(u)
             \/ ScanEnds(u) \/ SubscribeDone(u) \/ Recheck(u) \/ BeginUnsubscribe(u)
             \/ BackendUnwatch(u) \/ UnsubscribeDone(u) \/ Release(u)
    BY <2>5 DEF BeginSubscribe, CheckCallbacks, BackendWatch, ScanStops, ScanEnds,
      SubscribeDone, Recheck, BeginUnsubscribe, BackendUnwatch, UnsubscribeDone, Release
  <2>6. CASE Settle(u)
    <3>1. CASE UNCHANGED watcherVars
      BY <3>1
    <3>2. CASE /\ fate[u] = "failed" /\ added[u]
               /\ CleanupAfterFailure(EnvOfCall(u), watcherOf[u], Plan[u].cb)
      <4>1. ~FailOK /\ Plan[u].op = "subscribe" /\ u # t
        BY <1>0, <3>2 DEF FailOK, RunnerOK, Undone
      <4>2. ~(Plan[u].key = Plan[t].key /\ Plan[u].cb = Plan[t].cb)
        BY <4>1 DEF OwnCallbacks, Undone
      <4>3. ~(watcherOf[u] = w /\ Plan[u].cb = c)
        BY <1>0, <4>2 DEF RunnerOK
      <4> QED
        BY <1>0, <3>2, <4>3 DEF CleanupAfterFailure, EraseCallback
    <3> QED
      BY <2>6, <3>1, <3>2 DEF Settle
  <2> QED
    BY <1>1, <2>1, <2>2, <2>3, <2>4, <2>5, <2>6 DEF CallStep
<1>2. ASSUME NEW e \in Env, EnvStep(e) \/ Exit(e) \/ Terminate(e) PROVE Stays
  <2>1. CASE CleanupVisit(e)
    <3>1. PICK v \in Watcher : CleanupWatcher(e, v)
      BY <2>1 DEF CleanupVisit
    <3>2. EnvOf[c] # e
      BY <1>0, <3>1 DEF CleanupWatcher, EndsOK, EnvOfCall
    <3> QED
      BY <1>0, <3>1, <3>2 DEF CleanupWatcher, OfEnv
  <2> QED
    BY <1>0, <1>2, <2>1 DEF EnvStep, Exit, Terminate, DeliverError, UnrefEmptied, CancelEach,
      Cleanup, CleanupUnrefNext, CleanupUnwatch, BackendUnwatch, CancelEnvironment,
      CleanupEnvironment, CancelWatcher, CancelDone, CleanupUnref, Unref, FinishErrorCallback
<1>3. ASSUME NEW b \in Backend, ErrorStep(b) \/ LoseWatches(b) \/ PollFails(b) PROVE Stays
  BY <1>3 DEF ErrorStep, TellError, Retire, LoseWatches, PollFails, NotifyError
<1>4. ASSUME UNCHANGED vars \/ \E v \in Watcher : DeliverEvents(v) PROVE Stays
  BY <1>4 DEF vars, DeliverEvents, TriggerCallbacks
<1> QED
  BY <1>1, <1>2, <1>3, <1>4 DEF Next

(* What a runner's constructor did stays done until the call settles.       *)
LEMMA AddedStays ==
  ASSUME RunnersInv, [Next]_vars, NEW t \in Call, AddedIt(t)
  PROVE  AddedIt(t)'
<1>0. /\ RangesOK /\ WatcherTypeOK /\ TurnsOK /\ NativeOK(EnvOfCall(t)) /\ RunnerOK(t)
      /\ EnvOfCall(t) \in Env /\ t # NoCall /\ LifecycleInv /\ PlaceOK(t) /\ t \in Thread
  BY StateTypes, CallTypes, CallAssumption DEF RunnersInv, LifecycleTypeOK, RangesOK
<1> USE DEF AddedIt, RangesOK
<1>1. CASE ~(CallNative(t) \/ CallStep(t))
  <2>1. task'[t] = task[t]
    BY <1>0, <1>1, NotMine DEF SameRunner
  <2>2. task[t] = "native" => stage'[EnvOfCall(t)] = stage[EnvOfCall(t)]
    BY <1>0, <1>1, StageKept DEF TurnsOK
  <2> QED
    BY <2>1, <2>2
<1>2. CASE CallNative(t)
  BY <1>2 DEF CallNative
<1>3. CASE SelectBackend(t)
  BY <1>3 DEF SelectBackend, watcherVars, threadVars, runnerVars
<1>4. CASE ConstructRunner(t)
  BY <1>0, <1>4 DEF ConstructRunner, GetShared, TurnsOK
<1>5. CASE SelectFails(t)
  BY <1>0, <1>5 DEF SelectFails, Become
<1>6. CASE RegisterCallback(t) \/ RegisterFails(t) \/ RemoveCallback(t)
  BY <1>0, <1>6 DEF RegisterCallback, RegisterFails, RemoveCallback, Watch, WatchFails, Unwatch,
    WatcherTypeOK
<1>7. CASE ReleaseWatcher(t)
  <2>1. /\ stage'[EnvOfCall(t)] \in {"idle", "release", "unref"}
        /\ turn[EnvOfCall(t)] = t /\ stage[EnvOfCall(t)] # "idle"
    BY <1>0, <1>7 DEF ReleaseWatcher, UnwatchUnref, ReleaseShared, Unref, Return, WatcherTypeOK
  <2>2. task[t] = "native"
    BY <1>0, <2>1 DEF NativeOK
  <2>3. /\ fate[t] \in {"good", "failed"}
        /\ \/ task' = task /\ stage'[EnvOfCall(t)] # "idle"
           \/ task' = [task EXCEPT ![t] = "queued"]
           \/ task' = [task EXCEPT ![t] = "releasing"]
    BY <1>0, <1>7 DEF ReleaseWatcher, Become
  <2> QED
    BY <1>0, <2>1, <2>2, <2>3
<1>8. CASE \/ BeginSubscribe(t) \/ CheckCallbacks(t) \/ BackendWatch(t) \/ ScanStops(t)
           \/ ScanEnds(t) \/ SubscribeDone(t) \/ Recheck(t) \/ BeginUnsubscribe(t)
           \/ UnsubscribeDone(t) \/ Release(t) \/ Settle(t)
  BY <1>0, <1>8 DEF BeginSubscribe, CheckCallbacks, BackendWatch, ScanStops, ScanEnds,
    SubscribeDone, Recheck, BeginUnsubscribe, UnsubscribeDone, Release, Settle, WorkComplete,
    Become
<1>9. CASE BackendUnwatch(t)
  BY <1>9 DEF BackendUnwatch, UnchangedByPool, watcherVars, threadVars
<1> QED
  BY <1>1, <1>2, <1>3, <1>4, <1>5, <1>6, <1>7, <1>8, <1>9 DEF CallStep

(* Where scans do not fail only SelectFails and RegisterFails make a call   *)
(* fail, and both come before a callback is added: the destructor of a      *)
(* SubscribeRunner has nothing to clean up.                                 *)
LEMMA FailStep ==
  ASSUME "scan" \notin Faults, RunnersInv, Healthy, FailOK, [Next]_vars
  PROVE  FailOK'
<1> SUFFICES ASSUME NEW t \in Call
             PROVE  /\ threw'[t] => task'[t] = "settled"
                    /\ fate'[t] = "failed" => ~added'[t]
                    /\ added'[t] \/ fate'[t] = "failed" => AddedIt(t)'
  BY DEF FailOK
<1>0. /\ RangesOK /\ WatcherTypeOK /\ BackendTypeOK /\ TurnsOK /\ NativeOK(EnvOfCall(t))
      /\ EnvOfCall(t) \in Env /\ t # NoCall /\ LifecycleInv /\ PlaceOK(t) /\ t \in Thread
      /\ PlacesOK /\ LifecycleTypeOK
      /\ threw[t] => task[t] = "settled"
      /\ fate[t] = "failed" => ~added[t]
      /\ added[t] \/ fate[t] = "failed" => AddedIt(t)
  BY StateTypes, CallTypes, CallAssumption DEF RunnersInv, LifecycleTypeOK, RangesOK, FailOK
<1>1. AddedIt(t) => AddedIt(t)'
  BY AddedStays
<1> USE DEF RangesOK, runnerVars, backendVars, localVars, UnchangedByPool, Become
<1>2. CASE ~(CallNative(t) \/ CallStep(t))
  BY <1>0, <1>1, <1>2, NotMine DEF SameRunner, SameThread
<1>3. ASSUME threw'[t] => threw[t], task[t] # "settled",
             fate'[t] = fate[t], added'[t] = added[t]
      PROVE  /\ threw'[t] => task'[t] = "settled"
             /\ fate'[t] = "failed" => ~added'[t]
             /\ added'[t] \/ fate'[t] = "failed" => AddedIt(t)'
  BY <1>0, <1>1, <1>3
<1>4. CASE CallNative(t)
  BY <1>0, <1>3, <1>4 DEF CallNative, GetBackend, BackendTypeOK
<1>5. CASE SelectBackend(t)
  BY <1>0, <1>3, <1>5 DEF SelectBackend, FindBackend, FindDefault, StartBackend, EmplaceBackend,
    CreateBackend
<1>6. CASE SelectFails(t)
  <2>1. ~AddedIt(t)
    BY <1>0, <1>6 DEF SelectFails, StartFails, TurnsOK, NativeOK, AddedIt
  <2>2. ~added[t] /\ added' = added /\ task'[t] = "settled"
    BY <1>0, <1>6, <2>1 DEF SelectFails
  <2> QED
    BY <2>2 DEF AddedIt
<1>7. CASE ConstructRunner(t)
  BY <1>0, <1>3, <1>7 DEF ConstructRunner, NewSubject
<1>8. CASE RegisterCallback(t) \/ RegisterFails(t)
  <2>1. /\ turn[EnvOfCall(t)] = t /\ stage[EnvOfCall(t)] = "reserved"
        /\ stage'[EnvOfCall(t)] = "release" /\ task' = task
        /\ threw' = threw
    BY <1>0, <1>8 DEF RegisterCallback, RegisterFails, Watch, WatchFails, WatcherTypeOK
  <2>2. task[t] = "native"
    BY <1>0, <2>1 DEF NativeOK
  <2>3. ~AddedIt(t) /\ AddedIt(t)'
    BY <2>1, <2>2 DEF AddedIt
  <2>4. ~threw[t] /\ ~added[t] /\ fate[t] = "good"
    BY <1>0, <2>2, <2>3
  <2>5. fate'[t] = "good" \/ added' = added
    BY <1>8, <2>4 DEF RegisterCallback, RegisterFails
  <2> QED
    BY <2>1, <2>3, <2>4, <2>5
<1>9. CASE RemoveCallback(t) \/ ReleaseWatcher(t)
  <2>1. turn[EnvOfCall(t)] = t /\ stage[EnvOfCall(t)] # "idle"
    BY <1>9 DEF RemoveCallback, ReleaseWatcher, Unwatch, UnwatchUnref, ReleaseShared, Unref
  <2>2. task[t] = "native"
    BY <1>0, <2>1 DEF NativeOK
  <2> QED
    BY <1>3, <1>9, <2>2 DEF RemoveCallback, ReleaseWatcher
<1>10. CASE BeginSubscribe(t) \/ ScanStops(t) \/ UnsubscribeDone(t)
  BY <1>0, <1>3, <1>10 DEF BeginSubscribe, ScanStops, UnsubscribeDone
<1>11. CASE CheckCallbacks(t) \/ Recheck(t) \/ BeginUnsubscribe(t)
  BY <1>0, <1>3, <1>11 DEF CheckCallbacks, Recheck, BeginUnsubscribe, CallWatch, CallUnwatch,
    BackendTypeOK
<1>12. CASE BackendWatch(t)
  BY <1>0, <1>3, <1>12 DEF BackendWatch, WatchWaits, WatchCancelled, WatchSubscribed, WatchScans,
    WatchUnref, FinishWatch
<1>13. CASE ScanEnds(t)
  <2>1. ~ScanFails(t) \/ Watching(on[t])
    BY <1>0, StateTypes DEF ScanFails, PlacesOK, Inside, Healthy, BackendsRun, Watching
  <2>2. UNCHANGED <<threw, task, fate, added>>
    BY <1>13, <2>1 DEF ScanEnds, ScanCompletes, ScanCancelled, ScanTruncated
  <2>3. task[t] # "settled"
    BY <1>13 DEF ScanEnds
  <2> QED
    BY <1>3, <2>2, <2>3
<1>14. CASE SubscribeDone(t)
  <2>1. task[t] # "settled" /\ UNCHANGED <<threw, fate, added>>
    BY <1>0, <1>14 DEF SubscribeDone
  <2> QED
    BY <1>3, <2>1
<1>15. CASE BackendUnwatch(t)
  <2>1. where[t] # "out" /\ UNCHANGED <<threw, fate, added>>
    BY <1>15 DEF BackendUnwatch, UnwatchWaits, UnwatchKeeps, UnwatchRemoves, UnwatchUnrefs,
      DetachWatcher, Locked
  <2>2. task[t] # "settled"
    BY <1>0, <2>1 DEF LifecycleTypeOK
  <2> QED
    BY <1>3, <2>1, <2>2
<1>16. CASE Release(t)
  BY <1>0, <1>3, <1>16 DEF Release, ReleaseBackend, LastUnref, BackendTypeOK
<1>17. CASE Settle(t)
  BY <1>0, <1>3, <1>17 DEF Settle, WorkComplete
<1> QED
  BY <1>2, <1>4, <1>5, <1>6, <1>7, <1>8, <1>9, <1>10, <1>11, <1>12, <1>13, <1>14, <1>15, <1>16,
     <1>17 DEF CallStep

(* The inductive invariant behind SubscriptionsAreKept.                     *)
ResolvedInv ==
  RunnersInv /\ Healthy /\ SubscribedOK /\ ("scan" \notin Faults => FailOK)

(* A registered watcher keeps its key: getShared creates a watcher in       *)
(* storage the registry does not hold.                                      *)
LEMMA RegisteredKeyStays ==
  ASSUME WatcherTypeOK, [Next]_vars, NEW w \in registry
  PROVE  keyOf'[w] = keyOf[w]
<1>1. ASSUME NEW t \in Call, ConstructRunner(t) PROVE keyOf'[w] = keyOf[w]
  BY <1>1 DEF ConstructRunner, GetShared, GetSharedFound, GetSharedNew, Referenced, WatcherTypeOK
<1> QED
  BY <1>1, KeysKept

(* The runner of the call goes on: its step keeps what its subscription     *)
(* needs, since nobody has cancelled the watcher.                           *)
LEMMA SubscribedOwn ==
  ASSUME RunnersInv, Healthy, [Next]_vars, NEW t \in Call, CallNative(t) \/ CallStep(t),
         Undone(t), Undone(t)', AddedIt(t), NEW w \in registry, SubscribedTo(t, w),
         keyOf'[w] = keyOf[w], Plan[t].cb \in callbacks'[w],
         \A b \in Backend : Served(w, b) => Served(w, b)'
  PROVE  SubscribedTo(t, w)'
<1>0. /\ RangesOK /\ WatcherTypeOK /\ BackendTypeOK /\ PlacesOK /\ PlaceOK(t) /\ LifecycleTypeOK
      /\ NativeOK(EnvOfCall(t)) /\ EnvOfCall(t) \in Env /\ t # NoCall /\ t \in Thread
      /\ w \in Watcher /\ Plan[t].op = "subscribe" /\ TurnsOK
      /\ where[t] \in Inside => on[t] \in Backend /\ reserving[t] /\ phase[on[t]] = "running"
  BY StateTypes, CallTypes, CallAssumption, BackendIsHeld DEF RunnersInv, LifecycleTypeOK,
    RangesOK, WatcherTypeOK, Undone, PlacesOK, Healthy, BackendsRun, LifecycleInv
<1>1. ~cancelled[w] /\ HasCallbacksForEnv(w, EnvOfCall(t))
  BY <1>0 DEF SubscribedTo, Undone, RunnersInv, EndsOK, LifecycleInv, WatcherInv,
    CancelledIsUnwanted, HasCallbacksForEnv, EnvOfCall
<1> USE DEF SubscribedTo, RangesOK, Become, runnerVars, UnchangedByPool
<1>2. ASSUME UNCHANGED <<task[t], watcherOf[t]>>, task[t] # "subscribing" PROVE SubscribedTo(t, w)'
  BY <1>2
<1>3. CASE CallNative(t)
  BY <1>3 DEF CallNative, AddedIt
<1>4. CASE SelectFails(t)
  BY <1>0, <1>4 DEF SelectFails, Undone
<1>5. CASE ConstructRunner(t)
  BY <1>0, <1>5 DEF ConstructRunner, GetShared, TurnsOK, AddedIt
<1>6. CASE \/ SelectBackend(t) \/ RegisterCallback(t) \/ RegisterFails(t) \/ RemoveCallback(t)
  <2>1. task[t] = "native" /\ UNCHANGED <<task, watcherOf>>
    BY <1>0, <1>6 DEF SelectBackend, RegisterCallback, RegisterFails, RemoveCallback, NativeOK,
      Watch, WatchFails, Unwatch
  <2> QED
    BY <1>2, <2>1
<1>7. CASE ReleaseWatcher(t)
  <2>1. turn[EnvOfCall(t)] = t /\ stage[EnvOfCall(t)] # "idle" /\ watcherOf' = watcherOf
    BY <1>7 DEF ReleaseWatcher, UnwatchUnref, ReleaseShared, Unref
  <2>2. task[t] = "native"
    BY <1>0, <2>1 DEF NativeOK
  <2>3. task' = task \/ task' = [task EXCEPT ![t] = "queued"]
    <3>1. fate[t] = "good" /\ fate[t] # "failed"
      BY DEF Undone
    <3> QED
      BY <1>7, <3>1 DEF ReleaseWatcher
  <2>4. task'[t] \in {"native", "queued"}
    BY <1>0, <2>2, <2>3
  <2> QED
    BY <2>1, <2>2, <2>4
<1>8. CASE BeginSubscribe(t)
  <2>1. watcherOf[t] = w /\ task'[t] = "checking" /\ watcherOf' = watcherOf
    BY <1>0, <1>1, <1>8 DEF BeginSubscribe
  <2> QED
    BY <2>1
<1>9. CASE CheckCallbacks(t)
  <2>1. watcherOf[t] = w /\ task'[t] = "subscribing" /\ watcherOf' = watcherOf
        /\ where'[t] = "watch"
    BY <1>0, <1>1, <1>9 DEF CheckCallbacks, CallWatch, Goto, BackendTypeOK
  <2> QED
    BY <2>1
<1>10. CASE BackendWatch(t)
  <2>1. /\ task[t] = "subscribing" /\ watcherOf[t] = w /\ UNCHANGED <<task, watcherOf, on, threw>>
        /\ subject[t] = w /\ where[t] \in Inside
    BY <1>0, <1>10 DEF BackendWatch, PlaceOK, WatchWaits, WatchCancelled, WatchSubscribed,
      WatchScans, WatchUnref, FinishWatch, localVars
  <2>2. ASSUME where'[t] = "held", ~threw[t] PROVE Served(w, on[t])'
    <3>1. CASE WatchSubscribed(t, cancelled[w])
      BY <1>0, <2>1, <3>1 DEF WatchSubscribed, Served
    <3>2. CASE FinishWatch(t)
      BY <1>0, <2>1, <3>2 DEF FinishWatch, Served, registryVars, BackendTypeOK
    <3>3. ~WatchCancelled(t, cancelled[w]) /\ ~WatchUnref(t)
      BY <1>0, <1>1, <2>2 DEF WatchCancelled, WatchUnref, PlaceOK
    <3>4. ~WatchWaits(t) /\ ~WatchScans(t, cancelled[w])
      BY <1>0, <2>2 DEF WatchWaits, WatchScans, Goto, BackendTypeOK
    <3> QED
      BY <1>10, <2>1, <3>1, <3>2, <3>3, <3>4 DEF BackendWatch
  <2> QED
    BY <2>1, <2>2
<1>11. CASE ScanStops(t)
  BY <1>0, <1>11 DEF ScanStops, backendVars, localVars
<1>12. CASE ScanEnds(t)
  <2>1. /\ task[t] = "subscribing" /\ watcherOf[t] = w /\ UNCHANGED <<task, watcherOf>>
    BY <1>12 DEF ScanEnds
  <2>2. where'[t] = "held" => threw'[t]
    BY <1>0, <1>12 DEF ScanEnds, ScanCompletes, ScanCancelled, ScanTruncated, ScanFails,
      AbandonWatch, WakeAndGoto, Goto, BackendTypeOK
  <2> QED
    BY <2>1, <2>2
<1>13. CASE SubscribeDone(t)
  <2>1. ~threw[t]
    BY <1>0, <1>13 DEF SubscribeDone, Undone
  <2>2. Served(w, on[t]) /\ on[t] \in Backend
    BY <1>0, <1>13, <2>1 DEF SubscribeDone, Inside
  <2>3. task'[t] = "rechecking" /\ watcherOf' = watcherOf
    BY <1>0, <1>13, <2>1 DEF SubscribeDone
  <2> QED
    BY <1>13, <2>2, <2>3 DEF SubscribeDone
<1>14. CASE Recheck(t)
  <2>1. /\ watcherOf[t] = w /\ watcherOf' = watcherOf
        /\ task[t] = "rechecking" /\ task'[t] = "releasing"
    BY <1>0, <1>1, <1>14 DEF Recheck
  <2> QED
    BY <2>1
<1>15. CASE BeginUnsubscribe(t) \/ UnsubscribeDone(t)
  BY <1>0, <1>15 DEF BeginUnsubscribe, UnsubscribeDone
<1>16. CASE BackendUnwatch(t)
  <2>1. where[t] \in Unwatching /\ UNCHANGED <<task, watcherOf>>
    BY <1>16 DEF BackendUnwatch, UnwatchWaits, UnwatchKeeps, UnwatchRemoves, UnwatchUnrefs,
      DetachWatcher, Locked, Unwatching
  <2>2. task[t] # "subscribing"
    BY <1>0, <2>1 DEF PlaceOK, Inside, Unwatching
  <2> QED
    BY <1>2, <2>1, <2>2
<1>17. CASE Release(t)
  BY <1>2, <1>17 DEF Release
<1>18. CASE Settle(t)
  <2>1. task[t] = "releasing" /\ task'[t] = "settled"
    BY <1>0, <1>18 DEF Settle, WorkComplete
  <2> QED
    BY <2>1
<1> QED
  BY <1>3, <1>4, <1>5, <1>6, <1>7, <1>8, <1>9, <1>10, <1>11, <1>12, <1>13, <1>14, <1>15, <1>16,
     <1>17, <1>18 DEF CallStep

(* Every step keeps the callbacks of the calls nobody undid, and their      *)
(* subscriptions: by CallbackStays and ServedStays for what others do, by   *)
(* SubscribedOwn for the call's own way through SubscribeRunner.            *)
LEMMA SubscribedStep ==
  ASSUME "poll" \notin Faults, "scan" \notin Faults \/ OwnCallbacks, ResolvedInv, [Next]_vars
  PROVE  SubscribedOK'
<1> SUFFICES ASSUME NEW t \in Call, Undone(t)', AddedIt(t)'
             PROVE  \E w \in registry' : SubscribedTo(t, w)'
  BY DEF SubscribedOK
<1>0. /\ RunnersInv /\ Healthy /\ SubscribedOK
      /\ FailOK \/ OwnCallbacks
      /\ RunnersInv' /\ Undone(t) /\ WatcherTypeOK /\ LifecycleInv
      /\ NativeOK(EnvOfCall(t)) /\ NativeOK(EnvOfCall(t))' /\ EnvOfCall(t) \in Env /\ t # NoCall
      /\ BackendTypeOK /\ RangesOK
  BY StateTypes, UndoneWas, RunnersInvStep, CallTypes, CallAssumption DEF ResolvedInv, RunnersInv,
    LifecycleTypeOK, RangesOK
<1>1. ASSUME NEW w \in Watcher, callbacks'[w] # {} PROVE w \in registry'
  BY <1>0, <1>1 DEF RunnersInv, LifecycleInv, WatcherInv, UsedIsRegistered
<1>2. CASE RegisterCallback(t)
  <2> DEFINE e == EnvOfCall(t)
  <2>1. /\ turn[e] = t /\ stage[e] = "reserved" /\ UNCHANGED <<task, watcherOf, keyOf>>
        /\ callbacks' = [callbacks EXCEPT ![at[e]] = @ \cup {request[e].cb}]
    BY <1>2 DEF RegisterCallback, Watch
  <2>2. /\ task[t] = "native" /\ at[e] = watcherOf[t] /\ request[e] = RequestOf(t)
        /\ watcherOf[t] \in Watcher
    BY <1>0, <2>1 DEF NativeOK, Holding, RunnersInv, LifecycleInv, TurnsOK
  <2>3. keyOf[watcherOf[t]] = Plan[t].key /\ Plan[t].cb \in callbacks'[watcherOf[t]]
    BY <1>0, <2>1, <2>2 DEF RunnersInv, RunnerOK, RequestOf, WatcherTypeOK
  <2>4. SubscribedTo(t, watcherOf[t])'
    BY <2>1, <2>2, <2>3 DEF SubscribedTo
  <2> QED
    BY <1>1, <2>1, <2>2, <2>3, <2>4
<1>3. CASE ~RegisterCallback(t)
  <2>1. AddedIt(t)
    <3>1. fate'[t] = "good" /\ Plan[t].op = "subscribe"
      BY DEF Undone
    <3>2. ~SelectFails(t) /\ ~RegisterFails(t)
      BY <1>0, <3>1 DEF SelectFails, RegisterFails, RangesOK
    <3>3. ~RemoveCallback(t)
      BY <1>0, <3>1 DEF RemoveCallback, Unwatch, NativeOK, Holding, RequestOf
    <3> QED
      BY <1>0, <1>3, <3>2, <3>3, AddedWas
  <2>2. PICK w \in registry : SubscribedTo(t, w)
    BY <1>0, <2>1 DEF SubscribedOK
  <2>3. /\ w \in Watcher /\ keyOf[w] = Plan[t].key /\ Plan[t].cb \in callbacks[w]
        /\ keyOf'[w] = keyOf[w]
    BY <1>0, <2>2, RegisteredKeyStays DEF SubscribedTo, WatcherTypeOK
  <2>4. Plan[t].cb \in callbacks'[w]
    BY <1>0, <2>3, CallbackStays DEF Healthy
  <2>5. \A b \in Backend : Served(w, b) => Served(w, b)'
    BY <1>0, <2>3, ServedStays
  <2>6. CASE CallNative(t) \/ CallStep(t)
    BY <1>0, <1>1, <2>1, <2>2, <2>3, <2>4, <2>5, <2>6, SubscribedOwn
  <2>7. CASE ~(CallNative(t) \/ CallStep(t))
    <3>1. SameRunner(t) /\ SameThread(t)
      BY <1>0, <2>7, NotMine
    <3>2. where[t] = "held" => on[t] \in Backend
      BY <1>0, StateTypes, CallTypes DEF PlacesOK, BackendTypeOK
    <3>3. SubscribedTo(t, w)'
      BY <2>2, <2>3, <2>4, <2>5, <3>1, <3>2 DEF SubscribedTo, SameRunner, SameThread, Woken
    <3> QED
      BY <1>1, <2>3, <2>4, <3>3
  <2> QED
    BY <2>6, <2>7
<1> QED
  BY <1>2, <1>3

(* A subscription whose promise was resolved is there until its own         *)
(* environment unsubscribes it or ends, whatever other calls and            *)
(* environments do: Watcher.cc keeps its callback and Backend.cc its        *)
(* subscription.  Backends must not fail in poll(), and either scans do not *)
(* fail, or no two subscribe calls have the same function and options       *)
(* (wrapper.js makes a new native callback for every subscribe): a failed   *)
(* runner removes the callback it added, which a second call may have found *)
(* there and counted on.                                                    *)
THEOREM SubscriptionsAreKept ==
  ASSUME "poll" \notin Faults, "scan" \notin Faults \/ OwnCallbacks
  PROVE  Spec => []ResolvedIsSubscribed
<1>1. Init => ResolvedInv
  <2> SUFFICES ASSUME Init PROVE ResolvedInv
    OBVIOUS
  <2>1. SubscribedOK /\ FailOK
    BY CompositionAssumption DEF Init, BackendInit, SubscribedOK, AddedIt, FailOK
  <2> QED
    BY <2>1, RunnersInit, HealthyInit DEF ResolvedInv
<1>2. ResolvedInv /\ [Next]_vars => ResolvedInv'
  <2> SUFFICES ASSUME ResolvedInv, [Next]_vars PROVE ResolvedInv'
    OBVIOUS
  <2>1. RunnersInv' /\ Healthy'
    BY RunnersInvStep, HealthyStep DEF ResolvedInv, RunnersInv
  <2> QED
    BY <2>1, SubscribedStep, FailStep DEF ResolvedInv
<1>3. ResolvedInv => ResolvedIsSubscribed
  BY DEF ResolvedInv, SubscribedOK, SubscribedTo, ResolvedIsSubscribed, Counted, Resolved, Undone,
    AddedIt
<1> QED
  BY <1>1, <1>2, <1>3, PTL DEF Spec

(* The registry of backends changes when a creator registers its backend,   *)
(* and when one that nobody uses is removed.                                *)
LEMMA SharedMoves ==
  ASSUME LifecycleInv, Healthy, [Next]_vars, NEW n \in Name
  PROVE  \/ shared'[n] = shared[n]
         \/ /\ shared[n] \in Backend /\ shared'[n] = NoBackend
            /\ subscriptions[shared[n]] = {} /\ reservations[shared[n]] = 0
         \/ \E t \in Call : /\ SelectBackend(t) /\ EmplaceBackend(t)
                            /\ n = name[t] /\ shared[n] = NoBackend
<1> DEFINE Moves == \/ shared'[n] = shared[n]
                    \/ /\ shared[n] \in Backend /\ shared'[n] = NoBackend
                       /\ subscriptions[shared[n]] = {} /\ reservations[shared[n]] = 0
                    \/ \E t \in Call : /\ SelectBackend(t) /\ EmplaceBackend(t)
                                       /\ n = name[t] /\ shared[n] = NoBackend
<1> SUFFICES Moves
  OBVIOUS
<1>0. BackendTypeOK /\ PlacesOK
  BY StateTypes
<1> USE DEF BackendTypeOK, registryVars
<1>1. CASE UNCHANGED shared
  BY <1>1
<1>2. ASSUME NEW t \in Thread, where[t] \notin {"out", "find"}, StopIfUnused(on[t]) PROVE Moves
  <2>1. on[t] \in Backend
    BY <1>0, <1>2 DEF PlacesOK
  <2> QED
    BY <1>0, <1>2, <2>1 DEF StopIfUnused
<1>3. ASSUME NEW t \in Thread, BackendUnwatch(t) PROVE Moves
  BY <1>1, <1>2, <1>3 DEF BackendUnwatch, UnwatchWaits, DetachWatcher, UnwatchKeeps, UnwatchRemoves,
    UnwatchUnrefs
<1>4. ASSUME NEW t \in Call, CallNative(t) \/ CallStep(t) PROVE Moves
  <2>0. t \in Thread
    BY CallTypes
  <2>1. CASE CallNative(t) \/ ConstructRunner(t)
    BY <1>1, <2>1 DEF CallNative, GetBackend, ConstructRunner, NewSubject, backendVars
  <2>2. CASE SelectBackend(t) /\ ~EmplaceBackend(t)
    BY <1>1, <2>2 DEF SelectBackend, FindBackend, FindDefault, CreateBackend, StartBackend
  <2>3. CASE SelectBackend(t) /\ EmplaceBackend(t)
    BY <1>0, <2>0, <2>3 DEF EmplaceBackend
  <2>4. CASE SelectFails(t)
    BY <1>1, <2>4 DEF SelectFails, StartFails
  <2>5. CASE \/ RegisterCallback(t) \/ RegisterFails(t) \/ RemoveCallback(t)
             \/ ReleaseWatcher(t) \/ BeginSubscribe(t) \/ ScanStops(t) \/ SubscribeDone(t)
             \/ UnsubscribeDone(t) \/ Settle(t)
    BY <1>1, <2>5 DEF RegisterCallback, RegisterFails, RemoveCallback, ReleaseWatcher,
      BeginSubscribe, ScanStops, SubscribeDone, UnsubscribeDone, Settle, backendVars
  <2>6. CASE CheckCallbacks(t) \/ Recheck(t) \/ BeginUnsubscribe(t)
    BY <1>1, <2>6 DEF CheckCallbacks, Recheck, BeginUnsubscribe, CallWatch, CallUnwatch,
      backendVars
  <2>7. CASE BackendWatch(t)
    <3>1. CASE WatchUnref(t)
      BY <1>2, <2>0, <3>1 DEF WatchUnref
    <3> QED
      BY <1>1, <2>7, <3>1 DEF BackendWatch, WatchWaits, WatchCancelled, WatchSubscribed,
        WatchScans, FinishWatch
  <2>8. CASE ScanEnds(t)
    BY <1>1, <2>8 DEF ScanEnds, ScanCompletes, ScanCancelled, ScanTruncated, ScanFails,
      AbandonWatch
  <2>9. CASE Release(t)
    BY <1>1, <1>2, <2>0, <2>9 DEF Release, ReleaseBackend, LastUnref
  <2> QED
    BY <1>3, <1>4, <2>0, <2>1, <2>2, <2>3, <2>4, <2>5, <2>6, <2>7, <2>8, <2>9 DEF CallStep
<1>5. ASSUME NEW e \in Env, EnvStep(e) \/ Exit(e) \/ Terminate(e) PROVE Moves
  <2>1. CASE BackendUnwatch(e)
    BY <1>3, <2>1, CompositionAssumption
  <2> QED
    BY <1>1, <1>5, <2>1 DEF EnvStep, Exit, Terminate, DeliverError, UnrefEmptied, CancelEach,
      Cleanup, CleanupVisit, CleanupUnrefNext, CleanupUnwatch, CallUnwatchOn, backendVars
<1>6. ASSUME NEW b \in Backend, ErrorStep(b) \/ LoseWatches(b) \/ PollFails(b) PROVE Moves
  BY <1>1, <1>6 DEF ErrorStep, TellError, HandleError, Retire, RemoveShared, LoseWatches,
    Invalidate, PollFails, BackendFails, Healthy, BackendsRun
<1>7. CASE UNCHANGED vars \/ \E v \in Watcher : DeliverEvents(v)
  BY <1>1, <1>7 DEF vars, DeliverEvents, backendVars
<1> QED
  BY <1>4, <1>5, <1>6, <1>7 DEF Next

----------------------------------------------------------------------------
(* No environment ends: their threads stay in JavaScript and have nothing   *)
(* to unwatch.                                                              *)
NobodyEnds == ending = {} /\ \A e \in Env : toUnwatch[e] = {} /\ where[e] = "out"

(* Without an environment that exits or is terminated no cleanup hook runs. *)
LEMMA NobodyEndsStep ==
  ASSUME Mortal = {}, RunnersInv, NobodyEnds, [Next]_vars
  PROVE  NobodyEnds'
<1>0. /\ LifecycleInv /\ BackendTypeOK /\ EndsOK /\ RangesOK
      /\ Env \subseteq Thread /\ Call \subseteq Thread /\ Call \cap Env = {}
  BY StateTypes, CompositionAssumption DEF RunnersInv, LifecycleTypeOK, RangesOK
<1>1. \A e \in Env : stage[e] \notin {"cancel", "cleanup"}
  BY <1>0 DEF EndsOK, NobodyEnds
<1> USE DEF NobodyEnds, UnchangedByPool, envVars
<1>2. ASSUME NEW t \in Call, CallNative(t) \/ CallStep(t) PROVE NobodyEnds'
  <2>1. UNCHANGED <<ending, toUnwatch>>
    BY <1>2 DEF CallNative, CallStep, SelectBackend, SelectFails, ConstructRunner,
      RegisterCallback, RegisterFails, RemoveCallback, ReleaseWatcher, BeginSubscribe,
      CheckCallbacks, BackendWatch, ScanStops, ScanEnds, SubscribeDone, Recheck,
      BeginUnsubscribe, BackendUnwatch, UnsubscribeDone, Release, Settle
  <2>2. ASSUME NEW e \in Env PROVE where'[e] = "out"
    BY <1>0, <1>2, CallSteps, OtherThreads DEF SameThread, Woken, NewSubject, backendVars
  <2> QED
    BY <2>1, <2>2
<1>3. ASSUME NEW e \in Env, EnvStep(e) \/ Exit(e) \/ Terminate(e) PROVE NobodyEnds'
  <2>1. DeliverError(e) \/ UnrefEmptied(e)
    BY <1>1, <1>3 DEF EnvStep, Exit, Terminate, CancelEach, Cleanup, CleanupVisit,
      CleanupUnrefNext, CleanupUnwatch, CancelDone, CancelWatcher, CleanupWatcher, CleanupUnref,
      BackendUnwatch, UnwatchWaits, UnwatchKeeps, UnwatchRemoves, UnwatchUnrefs, DetachWatcher,
      Locked
  <2> QED
    BY <2>1 DEF DeliverError, UnrefEmptied, backendVars
<1>4. CASE UNCHANGED <<ending, toUnwatch, where>>
  BY <1>4
<1>5. ASSUME NEW b \in Backend, ErrorStep(b) \/ LoseWatches(b) \/ PollFails(b) PROVE NobodyEnds'
  BY <1>4, <1>5 DEF ErrorStep, TellError, HandleError, Retire, RemoveShared, LoseWatches,
    Invalidate, PollFails, BackendFails
<1>6. CASE UNCHANGED vars \/ \E v \in Watcher : DeliverEvents(v)
  BY <1>4, <1>6 DEF vars, DeliverEvents, backendVars
<1> QED
  BY <1>2, <1>3, <1>5, <1>6 DEF Next

----------------------------------------------------------------------------
(* The backend a call gets: the one it asks for, or the default one for an  *)
(* unknown name.                                                            *)
Asked(t) == IF Plan[t].backend \in Known THEN Plan[t].backend ELSE Default

(* In getShared a call looks up the name it was given, or the default one   *)
(* after it saw that the name is unknown; it creates a backend for a known  *)
(* name only.                                                               *)
NameOK(t) ==
  where[t] \in {"find", "start", "emplace"} =>
    /\ name[t] = Plan[t].backend \/ (Plan[t].backend \notin Known /\ name[t] = Default)
    /\ where[t] # "find" => name[t] \in Known

(* No backend is registered under an unknown name.                          *)
NamesOK == /\ \A n \in Name \ Known : shared[n] = NoBackend
           /\ \A t \in Call : NameOK(t)

(* A reserved backend is the one registered under the name asked for.       *)
ReservedByName == \A t \in Call : reserving[t] => shared[Asked(t)] = on[t]

(* What a call reserves it found or registered.                             *)
LEMMA ReservedWas ==
  ASSUME BackendTypeOK, PlacesOK, NEW t \in Thread, CallerStep(t), reserving'[t]
  PROVE  \/ reserving[t] /\ on'[t] = on[t]
         \/ FindBackend(t) \/ EmplaceBackend(t)
<1> USE DEF BackendTypeOK, Goto, registryVars, subscriptionVars, localVars
<1>1. CASE \/ \E n \in Name : GetBackend(t, n)
           \/ FindDefault(t) \/ StartBackend(t)
           \/ ReleaseBackend(t)
  BY <1>1 DEF GetBackend, FindDefault, StartBackend, ReleaseBackend, PlacesOK, Inside, Unwatching
<1>2. CASE \/ \E b \in Backend : CreateBackend(t, b)
           \/ StartFails(t) \/ LastUnref(t)
  BY <1>2 DEF CreateBackend, StartFails, LastUnref, PlacesOK, Inside, Unwatching
<1>3. CASE \E s \in Subject : \/ CallWatch(t, s) \/ CallUnwatch(t, s)
                              \/ \E b \in Backend : CallUnwatchOn(t, b, s)
  BY <1>3 DEF CallWatch, CallUnwatch, CallUnwatchOn, PlacesOK, Inside, Unwatching
<1>4. CASE \/ WatchWaits(t) \/ UnwatchWaits(t) \/ DetachWatcher(t)
           \/ ScanCompletes(t) \/ ScanCancelled(t) \/ ScanTruncated(t) \/ WatchUnref(t)
  BY <1>4 DEF WatchWaits, UnwatchWaits, DetachWatcher, ScanCompletes, ScanCancelled,
    ScanTruncated, WatchUnref
<1>5. CASE \E isCancelled \in BOOLEAN : \/ WatchCancelled(t, isCancelled)
                                        \/ WatchSubscribed(t, isCancelled)
                                        \/ WatchScans(t, isCancelled)
  BY <1>5 DEF WatchCancelled, WatchSubscribed, WatchScans
<1>6. CASE ScanFails(t) \/ FinishFails(t) \/ FinishWatch(t)
  BY <1>6 DEF ScanFails, FinishFails, AbandonWatch, FinishWatch
<1>7. CASE \/ \E isWanted \in BOOLEAN : \/ UnwatchKeeps(t, isWanted)
                                        \/ UnwatchRemoves(t, isWanted)
                                        \/ UnwatchThrows(t, isWanted)
           \/ UnwatchUnrefs(t)
  BY <1>7 DEF UnwatchKeeps, UnwatchRemoves, UnwatchThrows, UnwatchUnrefs, Back
<1> QED
  BY <1>1, <1>2, <1>3, <1>4, <1>5, <1>6, <1>7 DEF CallerStep

(* What a call asks for is a known name.                                    *)
LEMMA AskedNames ==
  \A t \in Call : Asked(t) \in Known /\ Asked(t) \in Name /\ Plan[t].backend \in Name
  BY KnownAssumption, CallAssumption DEF Asked

(* getShared looks for the name it was given, or for the default one after  *)
(* it has seen that the name is unknown.                                    *)
LEMMA NamesStep ==
  ASSUME RunnersInv, Healthy, NamesOK, [Next]_vars
  PROVE  NamesOK'
<1>0. /\ LifecycleInv /\ BackendTypeOK /\ RangesOK /\ PlacesOK
      /\ \A t \in Call : t \in Thread /\ PlaceOK(t) /\ NativeOK(EnvOfCall(t)) /\ t # NoCall
  BY StateTypes, CallTypes, CallAssumption DEF RunnersInv, LifecycleTypeOK, RangesOK
<1>1. ASSUME NEW n \in Name \ Known PROVE shared'[n] = NoBackend
  <2>1. shared[n] = NoBackend /\ \A t \in Call : NameOK(t)
    BY DEF NamesOK
  <2>2. ASSUME NEW t \in Call, EmplaceBackend(t) PROVE name[t] # n
    BY <2>1, <2>2 DEF EmplaceBackend, NameOK
  <2> QED
    BY <1>0, <2>1, <2>2, SharedMoves, NoBackendAssumption
<1>2. ASSUME NEW t \in Call PROVE NameOK(t)'
  <2>0. /\ t \in Thread /\ PlaceOK(t) /\ NativeOK(EnvOfCall(t)) /\ t # NoCall /\ NameOK(t)
        /\ \A n \in Name \ Known : shared[n] = NoBackend
    BY <1>0 DEF NamesOK
  <2> USE DEF BackendTypeOK, Goto, UnchangedByPool
  <2>1. CASE ~(CallNative(t) \/ CallStep(t))
    <3>1. SameThread(t)
      BY <1>0, <2>1, NotMine
    <3> QED
      BY <2>0, <3>1 DEF NameOK, SameThread, Woken
  <2>2. CASE CallNative(t)
    BY <1>0, <2>0, <2>2, AskedNames DEF CallNative, GetBackend, NameOK
  <2>3. CASE SelectBackend(t)
    <3>1. CASE FindBackend(t) \/ EmplaceBackend(t)
      BY <1>0, <2>0, <3>1 DEF FindBackend, EmplaceBackend, NameOK
    <3>2. CASE FindDefault(t)
      BY <1>0, <2>0, <3>2, KnownAssumption DEF FindDefault, NameOK
    <3>3. ASSUME NEW b \in Backend, CreateBackend(t, b) PROVE NameOK(t)'
      BY <1>0, <2>0, <3>3 DEF CreateBackend, NameOK
    <3>4. CASE StartBackend(t)
      BY <1>0, <2>0, <3>4 DEF StartBackend, NameOK, localVars
    <3> QED
      BY <2>3, <3>1, <3>2, <3>3, <3>4 DEF SelectBackend
  <2>4. ASSUME where'[t] \notin {"find", "start", "emplace"} PROVE NameOK(t)'
    BY <2>4 DEF NameOK
  <2>5. ASSUME UNCHANGED <<where, name>> PROVE NameOK(t)'
    BY <2>0, <2>5 DEF NameOK
  <2>6. CASE SelectFails(t)
    BY <1>0, <2>0, <2>4, <2>6 DEF SelectFails, StartFails
  <2>7. CASE \/ ConstructRunner(t) \/ RegisterCallback(t) \/ RegisterFails(t)
             \/ RemoveCallback(t) \/ ReleaseWatcher(t) \/ BeginSubscribe(t) \/ ScanStops(t)
             \/ SubscribeDone(t) \/ UnsubscribeDone(t) \/ Settle(t)
    BY <2>5, <2>7 DEF ConstructRunner, NewSubject, RegisterCallback, RegisterFails, RemoveCallback,
      ReleaseWatcher, BeginSubscribe, ScanStops, SubscribeDone, UnsubscribeDone, Settle,
      backendVars, localVars
  <2>8. CASE CheckCallbacks(t) \/ Recheck(t) \/ BeginUnsubscribe(t)
    BY <1>0, <2>0, <2>4, <2>5, <2>8 DEF CheckCallbacks, Recheck, BeginUnsubscribe, CallWatch,
      CallUnwatch, backendVars, localVars
  <2>9. CASE BackendWatch(t) \/ ScanEnds(t)
    BY <1>0, <2>0, <2>4, <2>9 DEF BackendWatch, WatchWaits, WatchCancelled, WatchSubscribed,
      WatchScans, WatchUnref, FinishWatch, ScanEnds, ScanCompletes, ScanCancelled, ScanTruncated,
      ScanFails, AbandonWatch, WakeAndGoto
  <2>10. CASE BackendUnwatch(t) \/ Release(t)
    BY <1>0, <2>0, <2>4, <2>10 DEF BackendUnwatch, UnwatchWaits, UnwatchKeeps, UnwatchRemoves,
      UnwatchUnrefs, DetachWatcher, Back, Release, ReleaseBackend, LastUnref
  <2> QED
    BY <2>1, <2>2, <2>3, <2>6, <2>7, <2>8, <2>9, <2>10 DEF CallStep
<1> QED
  BY <1>1, <1>2 DEF NamesOK

(* Its reservation keeps a backend registered under that name.              *)
LEMMA ReservedByNameStep ==
  ASSUME RunnersInv, Healthy, NamesOK, ReservedByName, [Next]_vars
  PROVE  ReservedByName'
<1> SUFFICES ASSUME NEW t \in Call, reserving'[t] PROVE shared'[Asked(t)] = on'[t]
  BY DEF ReservedByName
<1>0. /\ LifecycleInv /\ BackendInv /\ BackendTypeOK /\ PlacesOK /\ t \in Thread
      /\ Asked(t) \in Known /\ Asked(t) \in Name /\ NameOK(t)
      /\ \A n \in Name \ Known : shared[n] = NoBackend
  BY StateTypes, CallTypes, AskedNames DEF RunnersInv, LifecycleInv, NamesOK
<1>1. CASE reserving[t] /\ on'[t] = on[t]
  <2>1. shared[Asked(t)] = on[t] /\ on[t] \in Backend /\ reservations[on[t]] > 0
    BY <1>0, <1>1, BackendIsHeld DEF ReservedByName
  <2> QED
    BY <1>0, <1>1, <2>1, SharedMoves, NoBackendAssumption
<1>2. CASE FindBackend(t)
  BY <1>0, <1>2 DEF FindBackend, NameOK, Asked, BackendTypeOK
<1>3. CASE EmplaceBackend(t)
  BY <1>0, <1>3 DEF EmplaceBackend, NameOK, Asked, BackendTypeOK
<1>4. CASE UNCHANGED backendVars \/ \E s \in Watcher : NewSubject(s)
  BY <1>1, <1>4 DEF backendVars, localVars, NewSubject
<1>5. CASE CallNative(t) \/ CallStep(t)
  BY <1>0, <1>1, <1>2, <1>3, <1>4, <1>5, CallSteps, ReservedWas
<1>6. CASE ~(CallNative(t) \/ CallStep(t))
  BY <1>0, <1>1, <1>6, NotMine DEF SameThread
<1> QED
  BY <1>5, <1>6

(* The calls on a watcher get the one backend that serves it. *)
OneBackendOK ==
  \A w \in Watcher, b \in Backend : Served(w, b) =>
    \A t \in Call : Plan[t].key = keyOf[w] => shared[Asked(t)] = b

(* A watcher is served by a backend from the end of a watch on.             *)
LEMMA ServedWas ==
  ASSUME RunnersInv, NobodyEnds, [Next]_vars, NEW w \in Watcher, NEW b \in Backend, Served(w, b)'
  PROVE  \/ Served(w, b)
         \/ \E t \in Call : /\ CallStep(t) /\ FinishWatch(t)
                            /\ on[t] = b /\ watcherOf[t] = w /\ reserving[t]
                            /\ task[t] = "subscribing" /\ task'[t] = "subscribing"
                            /\ UNCHANGED <<watcherOf, keyOf, shared>>
<1> DEFINE Was == \/ Served(w, b)
                  \/ \E t \in Call : /\ CallStep(t) /\ FinishWatch(t)
                                     /\ on[t] = b /\ watcherOf[t] = w /\ reserving[t]
                                     /\ task[t] = "subscribing" /\ task'[t] = "subscribing"
                                     /\ UNCHANGED <<watcherOf, keyOf, shared>>
<1> SUFFICES Was
  OBVIOUS
<1>0. /\ LifecycleInv /\ BackendTypeOK /\ BackendInv /\ PlacesOK /\ CreatorsAreAlone
      /\ w \in subscriptions'[b] /\ phase'[b] = "running"
  BY StateTypes DEF Served, RunnersInv, LifecycleInv, BackendInv
<1> USE DEF BackendTypeOK, Served, registryVars, subscriptionVars
<1>1. CASE UNCHANGED <<phase, subscriptions>>
  BY <1>0, <1>1
<1>2. ASSUME NEW t, UNCHANGED subscriptions, StopIfUnused(on[t])
      PROVE  Was
  BY <1>0, <1>2 DEF StopIfUnused, Stop
<1>3. ASSUME NEW t \in Thread, BackendUnwatch(t) PROVE Was
  <2>1. CASE UnwatchWaits(t) \/ DetachWatcher(t) \/ UnwatchKeeps(t, HasCallbacks(subject[t]))
    BY <1>1, <2>1 DEF UnwatchWaits, DetachWatcher, UnwatchKeeps
  <2>2. CASE UnwatchRemoves(t, HasCallbacks(subject[t]))
    BY <1>0, <2>2 DEF UnwatchRemoves
  <2>3. CASE UnwatchUnrefs(t)
    BY <1>2, <2>3 DEF UnwatchUnrefs
  <2> QED
    BY <1>3, <2>1, <2>2, <2>3 DEF BackendUnwatch
<1>4. ASSUME NEW t \in Call, CallNative(t) \/ CallStep(t) PROVE Was
  <2>0. t \in Thread
    BY CallTypes
  <2>1. CASE CallNative(t) \/ ConstructRunner(t)
    BY <1>1, <2>1 DEF CallNative, GetBackend, ConstructRunner, NewSubject, backendVars
  <2>2. CASE SelectBackend(t)
    <3>1. CASE FindBackend(t) \/ FindDefault(t)
      BY <1>1, <3>1 DEF FindBackend, FindDefault
    <3>2. ASSUME NEW c \in Backend, CreateBackend(t, c) PROVE Was
      BY <1>0, <3>2 DEF CreateBackend
    <3>3. CASE StartBackend(t)
      BY <1>0, <2>0, <3>3 DEF StartBackend, CreatorsAreAlone, Creating
    <3>4. CASE EmplaceBackend(t)
      BY <1>0, <3>4 DEF EmplaceBackend, Stop
    <3> QED
      BY <2>2, <3>1, <3>2, <3>3, <3>4 DEF SelectBackend
  <2>3. CASE SelectFails(t)
    BY <1>0, <2>0, <2>3 DEF SelectFails, StartFails
  <2>4. CASE \/ RegisterCallback(t) \/ RegisterFails(t) \/ RemoveCallback(t)
             \/ ReleaseWatcher(t) \/ BeginSubscribe(t) \/ ScanStops(t) \/ SubscribeDone(t)
             \/ UnsubscribeDone(t) \/ Settle(t)
    BY <1>1, <2>4 DEF RegisterCallback, RegisterFails, RemoveCallback, ReleaseWatcher,
      BeginSubscribe, ScanStops, SubscribeDone, UnsubscribeDone, Settle, backendVars
  <2>5. CASE CheckCallbacks(t) \/ Recheck(t) \/ BeginUnsubscribe(t)
    BY <1>1, <2>5 DEF CheckCallbacks, Recheck, BeginUnsubscribe, CallWatch, CallUnwatch,
      backendVars
  <2>6. CASE BackendWatch(t)
    <3>1. CASE WatchUnref(t)
      BY <1>2, <3>1 DEF WatchUnref
    <3>2. CASE FinishWatch(t)
      <4>1. /\ CallStep(t) /\ task[t] = "subscribing"
            /\ UNCHANGED <<task, watcherOf, keyOf, shared>>
            /\ where[t] = "finish" /\ phase' = phase
        BY <2>6, <3>2 DEF CallStep, BackendWatch, UnchangedByPool, watcherVars, objectVars,
          FinishWatch, Locked
      <4>2. subject[t] = watcherOf[t] /\ reserving[t]
        BY <1>0, <2>0, <4>1 DEF RunnersInv, PlaceOK, PlacesOK, Inside
      <4>3. w \in subscriptions[b] \/ (on[t] = b /\ subject[t] = w)
        BY <1>0, <3>2 DEF FinishWatch
      <4> QED
        BY <1>0, <3>2, <4>1, <4>2, <4>3
    <3> QED
      BY <1>1, <2>6, <3>1, <3>2 DEF BackendWatch, WatchWaits, WatchCancelled, WatchSubscribed,
        WatchScans
  <2>7. CASE ScanEnds(t)
    BY <1>1, <2>7 DEF ScanEnds, ScanCompletes, ScanCancelled, ScanTruncated, ScanFails,
      AbandonWatch
  <2>8. CASE Release(t)
    <3>1. CASE ReleaseBackend(t)
      BY <1>1, <3>1 DEF ReleaseBackend
    <3>2. CASE LastUnref(t)
      BY <1>2, <3>2 DEF LastUnref
    <3> QED
      BY <2>8, <3>1, <3>2 DEF Release
  <2> QED
    BY <1>3, <1>4, <2>0, <2>1, <2>2, <2>3, <2>4, <2>5, <2>6, <2>7, <2>8 DEF CallStep
<1>5. ASSUME NEW e \in Env, EnvStep(e) \/ Exit(e) \/ Terminate(e) PROVE Was
  <2>1. CASE BackendUnwatch(e)
    BY <1>3, <2>1, CompositionAssumption
  <2> QED
    BY <1>1, <1>5, <2>1 DEF EnvStep, Exit, Terminate, DeliverError, UnrefEmptied, CancelEach,
      Cleanup, CleanupVisit, CleanupUnrefNext, CleanupUnwatch, CallUnwatchOn, backendVars
<1>6. ASSUME NEW c \in Backend, ErrorStep(c) \/ LoseWatches(c) \/ PollFails(c)
      PROVE  Was
  BY <1>0, <1>6 DEF ErrorStep, TellError, HandleError, Retire, RemoveShared, LoseWatches,
    Invalidate, PollFails, BackendFails
<1>7. CASE UNCHANGED vars \/ \E v \in Watcher : DeliverEvents(v)
  BY <1>1, <1>7 DEF vars, DeliverEvents, backendVars
<1> QED
  BY <1>4, <1>5, <1>6, <1>7 DEF Next

(* The watcher a running backend serves keeps its storage. *)
LEMMA ServedKeyStays ==
  ASSUME RunnersInv, [Next]_vars, NEW w \in Watcher, NEW b \in Backend, Served(w, b)
  PROVE  keyOf'[w] = keyOf[w]
<1>1. ASSUME NEW t \in Call, ConstructRunner(t)
      PROVE  keyOf'[w] = keyOf[w]
  <2>1. PICK v \in Watcher : /\ GetShared(EnvOfCall(t), RequestOf(t), v)
                             /\ v \in registry \/ NewSubject(v)
    BY <1>1 DEF ConstructRunner, RequestOf
  <2>2. CASE GetSharedFound(EnvOfCall(t), RequestOf(t), v)
    BY <2>2 DEF GetSharedFound
  <2>3. CASE GetSharedNew(EnvOfCall(t), RequestOf(t), v)
    <3>1. NewSubject(v) /\ v # w
      BY <2>1, <2>3 DEF GetSharedNew, Referenced, NewSubject, Unreferenced, Served
    <3> QED
      BY <2>3, <3>1, StateTypes DEF GetSharedNew, RunnersInv, WatcherTypeOK
  <2> QED
    BY <2>1, <2>2, <2>3 DEF GetShared
<1> QED
  BY <1>1, KeysKept

(* The backend of a watcher stays registered under the name that the calls  *)
(* on this watcher ask for, as its subscription keeps unref from removing   *)
(* it.                                                                      *)
LEMMA OneBackendStep ==
  ASSUME RunnersInv, Healthy, NobodyEnds, ReservedByName, OneBackendOK, [Next]_vars,
         \A t, u \in Call : Plan[t].key = Plan[u].key => Asked(t) = Asked(u)
  PROVE  OneBackendOK'
<1> SUFFICES ASSUME NEW w \in Watcher, NEW b \in Backend, Served(w, b)',
                    NEW t \in Call, Plan[t].key = keyOf'[w]
             PROVE  shared'[Asked(t)] = b
  BY DEF OneBackendOK
<1>0. LifecycleInv
  BY DEF RunnersInv
<1>1. CASE Served(w, b)
  <2>1. keyOf'[w] = keyOf[w]
    BY <1>1, ServedKeyStays
  <2>2. shared[Asked(t)] = b
    BY <1>1, <2>1 DEF OneBackendOK
  <2>3. subscriptions[b] # {}
    BY <1>1 DEF Served
  <2> QED
    BY <1>0, <2>2, <2>3, AskedNames, SharedMoves, NoBackendAssumption
<1>2. ASSUME NEW u \in Call, on[u] = b, watcherOf[u] = w, reserving[u],
             UNCHANGED <<keyOf, shared>>
      PROVE  shared'[Asked(t)] = b
  BY <1>2 DEF ReservedByName, RunnersInv, RunnerOK
<1> QED
  BY <1>1, <1>2, ServedWas

(* Only the last unsubscribe of a watcher unwatches; it removed a callback. *)
MustOK == \A t \in Call :
            /\ mustUnwatch[t] => AddedIt(t)
            /\ fate[t] = "failed" /\ Plan[t].op = "unsubscribe" => task[t] = "settled"

(* shouldUnwatch is set after Watcher::unwatch has erased a callback; an    *)
(* unsubscribe call fails only where its backend does not start.            *)
LEMMA MustStep ==
  ASSUME RunnersInv, MustOK, [Next]_vars
  PROVE  MustOK'
<1> SUFFICES ASSUME NEW t \in Call
             PROVE  /\ mustUnwatch'[t] => AddedIt(t)'
                    /\ fate'[t] = "failed" /\ Plan[t].op = "unsubscribe" => task'[t] = "settled"
  BY DEF MustOK
<1>0. /\ RangesOK /\ WatcherTypeOK /\ TurnsOK /\ NativeOK(EnvOfCall(t)) /\ LifecycleTypeOK
      /\ EnvOfCall(t) \in Env /\ t # NoCall /\ LifecycleInv /\ PlaceOK(t) /\ t \in Thread
      /\ mustUnwatch[t] => AddedIt(t)
      /\ fate[t] = "failed" /\ Plan[t].op = "unsubscribe" => task[t] = "settled"
  BY StateTypes, CallTypes, CallAssumption DEF RunnersInv, LifecycleTypeOK, RangesOK, MustOK
<1>1. AddedIt(t) => AddedIt(t)'
  BY AddedStays
<1> USE DEF RangesOK, runnerVars, UnchangedByPool, Become
<1>2. CASE ~(CallNative(t) \/ CallStep(t))
  BY <1>0, <1>1, <1>2, NotMine DEF SameRunner
<1>3. ASSUME UNCHANGED <<mustUnwatch[t], fate[t]>>, task[t] # "settled"
      PROVE  /\ mustUnwatch'[t] => AddedIt(t)'
             /\ fate'[t] = "failed" /\ Plan[t].op = "unsubscribe" => task'[t] = "settled"
  BY <1>0, <1>1, <1>3
<1>4. CASE CallNative(t) \/ SelectBackend(t) \/ ConstructRunner(t)
  BY <1>3, <1>4 DEF CallNative, SelectBackend, ConstructRunner
<1>5. CASE SelectFails(t)
  BY <1>0, <1>1, <1>5 DEF SelectFails
<1>6. CASE RegisterCallback(t) \/ RegisterFails(t) \/ RemoveCallback(t)
  <2>1. /\ turn[EnvOfCall(t)] = t /\ stage[EnvOfCall(t)] = "reserved"
        /\ stage'[EnvOfCall(t)] \in {"release", "emptied"} /\ task' = task
    BY <1>0, <1>6 DEF RegisterCallback, RegisterFails, RemoveCallback, Watch, WatchFails, Unwatch,
       WatcherTypeOK
  <2>2. task[t] = "native" /\ request[EnvOfCall(t)].op = Plan[t].op
    BY <1>0, <2>1 DEF NativeOK, Holding, RequestOf
  <2>3. AddedIt(t)'
    BY <2>1, <2>2 DEF AddedIt
  <2>4. fate' = fate \/ Plan[t].op = "subscribe"
    BY <1>6, <2>2 DEF RegisterCallback, RegisterFails, RemoveCallback, WatchFails
  <2> QED
    BY <1>0, <2>2, <2>3, <2>4
<1>7. CASE ReleaseWatcher(t)
  <2>1. turn[EnvOfCall(t)] = t /\ stage[EnvOfCall(t)] # "idle"
    BY <1>7 DEF ReleaseWatcher, UnwatchUnref, ReleaseShared, Unref
  <2>2. task[t] = "native"
    BY <1>0, <2>1 DEF NativeOK
  <2> QED
    BY <1>3, <1>7, <2>2 DEF ReleaseWatcher
<1>8. CASE \/ BeginSubscribe(t) \/ CheckCallbacks(t) \/ BackendWatch(t) \/ ScanStops(t)
           \/ ScanEnds(t) \/ Recheck(t) \/ BeginUnsubscribe(t) \/ UnsubscribeDone(t) \/ Release(t)
  BY <1>3, <1>8 DEF BeginSubscribe, CheckCallbacks, BackendWatch, ScanStops, ScanEnds, Recheck,
    BeginUnsubscribe, UnsubscribeDone, Release
<1>9. CASE SubscribeDone(t)
  <2>1. Plan[t].op = "subscribe" /\ mustUnwatch' = mustUnwatch
    BY <1>0, <1>9 DEF SubscribeDone, PlaceOK
  <2> QED
    BY <1>0, <1>1, <2>1
<1>10. CASE BackendUnwatch(t)
  BY <1>0, <1>1, <1>10 DEF BackendUnwatch
<1>11. CASE Settle(t)
  BY <1>0, <1>1, <1>11 DEF Settle
<1> QED
  BY <1>2, <1>4, <1>5, <1>6, <1>7, <1>8, <1>9, <1>10, <1>11 DEF CallStep

----------------------------------------------------------------------------
(* Call t will unwatch its watcher, if nobody wants it then.                *)
Due(t) ==
  \/ task[t] \in {"native", "queued"} /\ mustUnwatch[t]
  \/ task[t] \in {"subscribing", "rechecking"}
  \/ task[t] = "unsubscribing" /\ where[t] \in {"unwatch", "unwatchBlocked"}

(* A subscription without callbacks is some call's to remove.               *)
WantedOK ==
  \A w \in Watcher, b \in Backend :
    Served(w, b) /\ callbacks[w] = {} => \E t \in Call : watcherOf[t] = w /\ Due(t)

(* The last callback of a watcher is removed by an unsubscribe call.        *)
LEMMA EmptiedBy ==
  ASSUME RunnersInv, Healthy, FailOK, NobodyEnds, [Next]_vars,
         NEW w \in Watcher, callbacks[w] # {}, callbacks'[w] = {}
  PROVE  \E t \in Call : watcherOf'[t] = w /\ Due(t)'
<1> DEFINE By == \E t \in Call : watcherOf'[t] = w /\ Due(t)'
<1>0. /\ RangesOK /\ WatcherTypeOK /\ EndsOK /\ errorCalls = {} /\ ending = {}
      /\ \A u \in Call : /\ EnvOfCall(u) \in Env /\ u # NoCall /\ NativeOK(EnvOfCall(u))
  BY StateTypes, CallTypes, CallAssumption DEF RunnersInv, LifecycleTypeOK, RangesOK, Healthy,
    NobodyEnds
<1> USE DEF WatcherTypeOK, watcherVars, objectVars, UnchangedByPool
<1>1. ASSUME NEW u \in Call, CallNative(u) \/ CallStep(u) PROVE By
  <2>1. CASE CallNative(u) \/ SelectBackend(u) \/ SelectFails(u)
    BY <2>1 DEF CallNative, SelectBackend, SelectFails
  <2>2. CASE ConstructRunner(u) \/ RegisterFails(u) \/ ReleaseWatcher(u)
    BY <2>2 DEF ConstructRunner, GetShared, RegisterFails, WatchFails, ReleaseWatcher,
      UnwatchUnref, ReleaseShared, Unref
  <2>3. CASE RegisterCallback(u)
    BY <1>0, <2>3 DEF RegisterCallback, Watch
  <2>4. CASE RemoveCallback(u)
    <3> DEFINE e == EnvOfCall(u)
    <3>1. /\ turn[e] = u /\ stage[e] = "reserved" /\ UNCHANGED <<task, watcherOf>>
          /\ callbacks' = [callbacks EXCEPT ![at[e]] = @ \ {request[e].cb}]
          /\ mustUnwatch' = [mustUnwatch EXCEPT ![u] = Emptied(at[e], Plan[u].cb)]
      BY <2>4 DEF RemoveCallback, Unwatch, EraseCallback
    <3>2. /\ task[u] = "native" /\ at[e] = watcherOf[u] /\ request[e] = RequestOf(u)
      BY <1>0, <3>1 DEF NativeOK, Holding
    <3>3. at[e] = w /\ Emptied(w, Plan[u].cb)
      BY <1>0, <3>1, <3>2 DEF Emptied, RequestOf
    <3>4. mustUnwatch'[u]
      BY <1>0, <3>1, <3>3 DEF RangesOK
    <3> QED
      BY <3>1, <3>2, <3>3, <3>4 DEF Due
  <2>5. CASE \/ BeginSubscribe(u) \/ CheckCallbacks(u) \/ BackendWatch(u) \/ ScanStops(u)
             \/ ScanEnds(u) \/ SubscribeDone(u) \/ Recheck(u) \/ BeginUnsubscribe(u)
             \/ BackendUnwatch(u) \/ UnsubscribeDone(u) \/ Release(u)
    BY <2>5 DEF BeginSubscribe, CheckCallbacks, BackendWatch, ScanStops, ScanEnds,
      SubscribeDone, Recheck, BeginUnsubscribe, BackendUnwatch, UnsubscribeDone, Release
  <2>6. CASE Settle(u)
    <3>1. UNCHANGED watcherVars
      BY <2>6 DEF Settle, FailOK
    <3> QED
      BY <3>1
  <2> QED
    BY <1>1, <2>1, <2>2, <2>3, <2>4, <2>5, <2>6 DEF CallStep
<1>2. ASSUME NEW e \in Env, EnvStep(e) \/ Exit(e) \/ Terminate(e) PROVE By
  <2>1. ~CleanupVisit(e)
    BY <1>0 DEF CleanupVisit, CleanupWatcher, EndsOK
  <2>2. callbacks' = callbacks
    BY <1>0, <1>2, <2>1 DEF EnvStep, Exit, Terminate, DeliverError, UnrefEmptied, CancelEach,
      Cleanup, CleanupUnrefNext, CleanupUnwatch, BackendUnwatch, CancelEnvironment,
      CleanupEnvironment, CancelWatcher, CancelDone, CleanupUnref, Unref, FinishErrorCallback
  <2> QED
    BY <2>2
<1>3. ASSUME NEW b \in Backend, ErrorStep(b) \/ LoseWatches(b) \/ PollFails(b) PROVE By
  BY <1>3 DEF ErrorStep, TellError, Retire, LoseWatches, PollFails, NotifyError
<1>4. ASSUME UNCHANGED vars \/ \E v \in Watcher : DeliverEvents(v) PROVE By
  BY <1>4 DEF vars, DeliverEvents, TriggerCallbacks
<1> QED
  BY <1>1, <1>2, <1>3, <1>4 DEF Next

(* The inductive invariant behind SubscriptionsAreWanted.                   *)
WantedInv ==
  /\ RunnersInv /\ Healthy /\ FailOK /\ NobodyEnds
  /\ NamesOK /\ ReservedByName /\ OneBackendOK
  /\ MustOK /\ WantedOK

(* Such a call goes on to unwatch, and unwatch finds the subscription.      *)
LEMMA DueStays ==
  ASSUME WantedInv, [Next]_vars, NEW u \in Call, Due(u), NEW b \in Backend,
         NEW w \in Watcher, watcherOf[u] = w, callbacks[w] = {}, Served(w, b), Served(w, b)'
  PROVE  watcherOf'[u] = w /\ Due(u)'
<1> DEFINE e == EnvOfCall(u)
<1>0. /\ RangesOK /\ WatcherTypeOK /\ BackendTypeOK /\ PlacesOK /\ TurnsOK /\ NativeOK(e)
      /\ PlaceOK(u) /\ RunnerOK(u) /\ e \in Env /\ u # NoCall /\ u \in Thread /\ LifecycleInv
      /\ (threw[u] => task[u] = "settled") /\ (mustUnwatch[u] => AddedIt(u))
      /\ fate[u] = "failed" /\ Plan[u].op = "unsubscribe" => task[u] = "settled"
      /\ NoWatcher \notin Watcher
  BY StateTypes, CallTypes, CallAssumption, NoWatcherAssumption DEF WantedInv, RunnersInv,
     LifecycleTypeOK, RangesOK, FailOK, MustOK
<1>1. task[u] \notin {"new", "settled", "checking", "releasing"}
  BY DEF Due
<1> USE DEF RangesOK, BackendTypeOK, Become, Goto, runnerVars, UnchangedByPool
<1>2. CASE ~(CallNative(u) \/ CallStep(u))
  <2>1. SameRunner(u) /\ SameThread(u)
    BY <1>0, <1>2, NotMine
  <2> QED
    BY <1>0, <2>1 DEF Due, SameRunner, SameThread, Woken
<1>3. CASE CallNative(u) \/ Release(u) \/ Settle(u) \/ CheckCallbacks(u)
  BY <1>1, <1>3 DEF CallNative, Release, Settle, WorkComplete, CheckCallbacks
<1>4. task[u] = "native" =>
        stage[e] \notin {"idle", "reserved"} /\ turn[e] = u /\ where[u] = "held"
  BY <1>0 DEF Due, AddedIt, TurnsOK, NativeOK
<1>5. CASE SelectBackend(u) \/ SelectFails(u)
  BY <1>4, <1>5 DEF SelectBackend, SelectFails, FindBackend, FindDefault, CreateBackend,
    StartBackend, EmplaceBackend, StartFails
<1>6. CASE ConstructRunner(u)
  BY <1>0, <1>6 DEF ConstructRunner
<1>7. CASE RegisterCallback(u) \/ RegisterFails(u) \/ RemoveCallback(u)
  <2>1. turn[e] = u /\ stage[e] = "reserved"
    BY <1>7 DEF RegisterCallback, RegisterFails, RemoveCallback, Watch, WatchFails, Unwatch
  <2>2. task[u] = "native"
    BY <1>0, <2>1 DEF NativeOK
  <2> QED
    BY <1>4, <2>1, <2>2
<1>8. CASE ReleaseWatcher(u)
  <2>1. turn[e] = u /\ stage[e] # "idle" /\ UNCHANGED <<watcherOf, mustUnwatch>>
    BY <1>8 DEF ReleaseWatcher, UnwatchUnref, ReleaseShared, Unref
  <2>2. task[u] = "native" /\ mustUnwatch[u]
    BY <1>0, <2>1 DEF NativeOK, Due
  <2>3. fate[u] = "good" /\ fate[u] # "failed"
    BY <1>0, <2>2 DEF RunnerOK
  <2>4. task' = task \/ task' = [task EXCEPT ![u] = "queued"]
    BY <1>8, <2>3 DEF ReleaseWatcher
  <2>5. task'[u] \in {"native", "queued"}
    BY <1>0, <2>2, <2>4
  <2> QED
    BY <2>1, <2>2, <2>5 DEF Due
<1>9. CASE BeginSubscribe(u)
  BY <1>0, <1>9 DEF BeginSubscribe, Due, RunnerOK
<1>10. CASE BackendWatch(u) \/ ScanStops(u) \/ ScanEnds(u)
  BY <1>10 DEF BackendWatch, ScanStops, ScanEnds, Due
<1>11. CASE SubscribeDone(u)
  <2>1. task'[u] = "rechecking" /\ watcherOf' = watcherOf
    BY <1>0, <1>11 DEF SubscribeDone
  <2> QED
    BY <2>1 DEF Due
<1>12. CASE Recheck(u) \/ BeginUnsubscribe(u)
  <2>1. ~HasCallbacksForEnv(watcherOf[u], EnvOfCall(u))
    BY DEF HasCallbacksForEnv
  <2>2. task'[u] = "unsubscribing" /\ where'[u] = "unwatch" /\ watcherOf' = watcherOf
    BY <1>0, <1>12, <2>1 DEF Recheck, BeginUnsubscribe, CallUnwatch, Due
  <2> QED
    BY <2>2 DEF Due
<1>13. CASE BackendUnwatch(u)
  <2>1. where[u] \in Unwatching /\ UNCHANGED <<task, watcherOf>>
    BY <1>13 DEF BackendUnwatch, UnwatchWaits, UnwatchKeeps, UnwatchRemoves, UnwatchUnrefs,
      DetachWatcher, Locked, Unwatching
  <2>2. /\ task[u] = "unsubscribing" /\ where[u] \in {"unwatch", "unwatchBlocked"}
        /\ subject[u] = watcherOf[u] /\ reserving[u]
    BY <1>0, <2>1 DEF PlaceOK, Due, Inside, Unwatching
  <2>3. on[u] = b /\ subject[u] = w
    BY <1>0, <2>2 DEF WantedInv, ReservedByName, OneBackendOK, RunnerOK
  <2>4. ~HasCallbacks(subject[u]) /\ subject[u] \in subscriptions[on[u]]
    BY <2>2, <2>3 DEF HasCallbacks, Served
  <2>5. UnwatchWaits(u) \/ UnwatchRemoves(u, HasCallbacks(subject[u]))
    <3>1. ~UnwatchUnrefs(u) /\ ~DetachWatcher(u)
      BY <2>2 DEF UnwatchUnrefs, DetachWatcher, Locked
    <3>2. ~UnwatchKeeps(u, HasCallbacks(subject[u]))
      BY <2>4 DEF UnwatchKeeps
    <3> QED
      BY <1>13, <3>1, <3>2 DEF BackendUnwatch
  <2>6. ~UnwatchRemoves(u, HasCallbacks(subject[u]))
    BY <1>0, <2>2, <2>3 DEF UnwatchRemoves, Served
  <2>7. where'[u] = "unwatchBlocked"
    BY <1>0, <2>5, <2>6 DEF UnwatchWaits
  <2> QED
    BY <2>1, <2>2, <2>7 DEF Due
<1>14. CASE UnsubscribeDone(u)
  BY <1>14 DEF UnsubscribeDone, Due
<1> QED
  BY <1>2, <1>3, <1>5, <1>6, <1>7, <1>8, <1>9, <1>10, <1>11, <1>12, <1>13, <1>14 DEF CallStep

(* A subscription that loses its last callback, or that is completed for a  *)
(* watcher without any, has a call whose work is to remove it.              *)
LEMMA WantedStep ==
  ASSUME WantedInv, [Next]_vars
  PROVE  WantedOK'
<1> SUFFICES ASSUME NEW w \in Watcher, NEW b \in Backend, Served(w, b)', callbacks'[w] = {}
             PROVE  \E t \in Call : watcherOf'[t] = w /\ Due(t)'
  BY DEF WantedOK
<1>0. RunnersInv /\ Healthy /\ FailOK /\ NobodyEnds /\ WantedOK
  BY DEF WantedInv
<1>1. CASE callbacks[w] # {}
  BY <1>0, <1>1, EmptiedBy
<1>2. ASSUME NEW t \in Call, watcherOf[t] = w, task'[t] = "subscribing", UNCHANGED watcherOf
      PROVE  \E u \in Call : watcherOf'[u] = w /\ Due(u)'
  BY <1>2 DEF Due
<1>3. CASE ~Served(w, b)
  BY <1>0, <1>2, <1>3, ServedWas
<1>4. CASE callbacks[w] = {} /\ Served(w, b)
  <2>1. PICK u \in Call : watcherOf[u] = w /\ Due(u)
    BY <1>0, <1>4 DEF WantedOK
  <2> QED
    BY <1>4, <2>1, DueStays
<1> QED
  BY <1>1, <1>3, <1>4

(* When all calls have settled a running backend watches nothing that       *)
(* nobody listens to: whichever call is last to use a watcher, the          *)
(* unsubscribe that emptied it (shouldUnwatch) or the subscribe that was    *)
(* overtaken by it (the second hasCallbacksForEnv of                        *)
(* SubscribeRunner::execute), unwatches it.  This is so while no            *)
(* environment ends, no scan and no poll() fails, and the calls with the    *)
(* same directory and options ask for the same backend: for each of these   *)
(* conditions the runs or the README show what happens without it.          *)
THEOREM SubscriptionsAreWanted ==
  ASSUME Mortal = {}, "scan" \notin Faults, "poll" \notin Faults,
         \A t, u \in Call : Plan[t].key = Plan[u].key => Asked(t) = Asked(u)
  PROVE  Spec => []SubscriptionIsWanted
<1>1. Init => WantedInv
  <2> SUFFICES ASSUME Init PROVE WantedInv
    OBVIOUS
  <2>1. FailOK /\ MustOK /\ NamesOK /\ NobodyEnds
    BY CompositionAssumption DEF Init, BackendInit, FailOK, MustOK, NamesOK, NameOK, NobodyEnds
  <2>2. ReservedByName /\ OneBackendOK /\ WantedOK
    BY CompositionAssumption DEF Init, BackendInit, ReservedByName, OneBackendOK, WantedOK, Served
  <2> QED
    BY <2>1, <2>2, RunnersInit, HealthyInit DEF WantedInv
<1>2. WantedInv /\ [Next]_vars => WantedInv'
  <2> SUFFICES ASSUME WantedInv, [Next]_vars PROVE WantedInv'
    OBVIOUS
  <2>0. /\ RunnersInv /\ Healthy /\ FailOK /\ NobodyEnds /\ NamesOK /\ ReservedByName
        /\ OneBackendOK /\ MustOK /\ LifecycleInv
    BY DEF WantedInv, RunnersInv
  <2>1. RunnersInv' /\ Healthy' /\ FailOK' /\ NobodyEnds'
    BY <2>0, RunnersInvStep, HealthyStep, FailStep, NobodyEndsStep
  <2>2. NamesOK' /\ ReservedByName' /\ OneBackendOK'
    BY <2>0, NamesStep, ReservedByNameStep, OneBackendStep
  <2>3. MustOK' /\ WantedOK'
    BY <2>0, MustStep, WantedStep
  <2> QED
    BY <2>1, <2>2, <2>3 DEF WantedInv
<1>3. WantedInv => SubscriptionIsWanted
  BY DEF WantedInv, WantedOK, Due, SubscriptionIsWanted, Quiet
<1> QED
  BY <1>1, <1>2, <1>3, PTL DEF Spec
=============================================================================
