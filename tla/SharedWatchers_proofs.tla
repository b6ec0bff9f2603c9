------------------------ MODULE SharedWatchers_proofs ------------------------
(* Theorems about SharedWatchers, for any sets of watchers, keys, callbacks *)
(* and any finite set of environments.                                      *)
EXTENDS SharedWatchers, FiniteSetTheorems, TLAPS

(* The environments whose thread holds a reservation on w. *)
Holders(w) == {e \in Env : stage[e] \in Holding /\ at[e] = w}

(* mSharedReservations counts them. *)
ReservedIsHeld == \A w \in Watcher : reserved[w] = Cardinality(Holders(w))

(* A thread inside a native call works on the watcher of the key it asked   *)
(* for; one that is outside has no watcher.                                 *)
ThreadOK ==
  \A e \in Env :
    /\ stage[e] \in Holding \cup {"unref"} => at[e] \in Watcher
    /\ stage[e] \in Holding => /\ request[e] \in Request(e)
                               /\ keyOf[at[e]] = request[e].key
    /\ stage[e] \notin Holding \cup {"unref"} => at[e] = NoWatcher
    /\ stage[e] = "cancel" => e \in exited

RegisteredHasKey == \A w \in registry : keyOf[w] \in Key

WatcherInv ==
  /\ WatcherTypeOK
  /\ ReservedIsHeld
  /\ ThreadOK
  /\ RegisteredHasKey
  /\ UsedIsRegistered
  /\ OnePerKey
  /\ UnusedIsReclaimed
  /\ CancelledIsUnwanted
  /\ ClosingIsTold
  /\ ClosingIsRegistered

----------------------------------------------------------------------------
LEMMA InitInv == WatcherInit => WatcherInv
<1> SUFFICES ASSUME WatcherInit PROVE WatcherInv
  OBVIOUS
<1> USE DEF WatcherInit
<1>1. WatcherTypeOK
  BY DEF WatcherTypeOK, Stage
<1>2. ReservedIsHeld
  <2> SUFFICES ASSUME NEW w \in Watcher PROVE Cardinality(Holders(w)) = 0
    BY DEF ReservedIsHeld
  <2>1. Holders(w) = {}
    BY DEF Holders, Holding
  <2> QED
    BY <2>1, FS_EmptySet
<1>3. ThreadOK
  BY DEF ThreadOK, Holding
<1>4. RegisteredHasKey /\ UsedIsRegistered /\ OnePerKey /\ UnusedIsReclaimed
  BY DEF RegisteredHasKey, UsedIsRegistered, OnePerKey, UnusedIsReclaimed
<1>5. CancelledIsUnwanted /\ ClosingIsTold /\ ClosingIsRegistered
  BY DEF CancelledIsUnwanted, ClosingIsTold, ClosingIsRegistered
<1> QED
  BY <1>1, <1>2, <1>3, <1>4, <1>5 DEF WatcherInv

LEMMA HoldersFinite == ASSUME NEW w PROVE IsFiniteSet(Holders(w))
  BY EnvAssumption, FS_Subset DEF Holders

(* A thread that holds a reservation is counted. *)
LEMMA HeldIsReserved ==
  ASSUME WatcherInv, NEW e \in Env, stage[e] \in Holding
  PROVE  /\ at[e] \in Watcher
         /\ reserved[at[e]] > 0
         /\ at[e] \in registry
<1>1. at[e] \in Watcher
  BY DEF WatcherInv, ThreadOK
<1>2. e \in Holders(at[e])
  BY DEF Holders
<1>3. Cardinality(Holders(at[e])) # 0
  BY <1>2, HoldersFinite, FS_EmptySet
<1>4. reserved[at[e]] > 0
  BY <1>1, <1>3 DEF WatcherInv, ReservedIsHeld, WatcherTypeOK
<1> QED
  BY <1>1, <1>4 DEF WatcherInv, UsedIsRegistered

----------------------------------------------------------------------------
(* A return leaves the locals of every thread typed. *)
LEMMA ReturnTyped ==
  ASSUME WatcherTypeOK, NEW e \in Env, Return(e)
  PROVE  /\ stage' \in [Env -> Stage]
         /\ at' \in [Env -> Watcher \cup {NoWatcher}]
         /\ \A x \in Env : request'[x] \in Request(x) \cup {NoRequest}
         /\ DOMAIN request' = Env
         /\ shouldUnwatch' \in [Env -> BOOLEAN]
<1>1. stage' \in [Env -> Stage]
  BY DEF WatcherTypeOK, Return, Stage
<1>2. at' \in [Env -> Watcher \cup {NoWatcher}]
  BY DEF WatcherTypeOK, Return
<1>3. /\ \A x \in Env : request'[x] \in Request(x) \cup {NoRequest}
      /\ DOMAIN request' = Env
  BY DEF WatcherTypeOK, Return
<1>4. shouldUnwatch' \in [Env -> BOOLEAN]
  BY Zenon DEF WatcherTypeOK, Return
<1> QED
  BY <1>1, <1>2, <1>3, <1>4

----------------------------------------------------------------------------
LEMMA TypeStep == WatcherInv /\ [WatcherNext]_watcherVars => WatcherTypeOK'
<1> SUFFICES ASSUME WatcherInv, [WatcherNext]_watcherVars PROVE WatcherTypeOK'
  OBVIOUS
<1> USE CallbackAssumption DEF WatcherTypeOK, Stage, Holding, objectVars,
      threadVars, exitVars
<1>0. WatcherTypeOK
  BY DEF WatcherInv
<1>1. ASSUME NEW e \in Env, NEW r \in Request(e), NEW w \in Watcher,
             GetShared(e, r, w)
      PROVE  WatcherTypeOK'
  <2>1. /\ registry' \subseteq Watcher
        /\ keyOf' \in [Watcher -> Key \cup {NoKey}]
        /\ cancelled' \in [Watcher -> BOOLEAN]
    <3>1. CASE GetSharedFound(e, r, w)
      BY <1>0, <3>1 DEF GetSharedFound
    <3>2. CASE GetSharedNew(e, r, w)
      BY <1>0, <3>2 DEF GetSharedNew, Request
    <3> QED
      BY <1>1, <3>1, <3>2 DEF GetShared, Reserve
  <2>2. /\ \A x \in Env : request'[x] \in Request(x) \cup {NoRequest}
        /\ DOMAIN request' = Env
    BY <1>0, <1>1 DEF GetShared, Reserve
  <2>3. reserved' \in [Watcher -> Nat]
    BY <1>0, <1>1 DEF GetShared, Reserve
  <2>4. stage' \in [Env -> Stage] /\ at' \in [Env -> Watcher \cup {NoWatcher}]
    BY <1>0, <1>1 DEF GetShared, Reserve
  <2> QED
    BY <1>0, <1>1, <2>1, <2>2, <2>3, <2>4 DEF GetShared, Reserve
<1>2. ASSUME NEW e \in Env, Watch(e) PROVE WatcherTypeOK'
  <2>1. stage[e] \in Holding
    BY <1>2 DEF Watch
  <2>2. at[e] \in Watcher /\ request[e].cb \in Callback
    BY <2>1, HeldIsReserved DEF WatcherInv, ThreadOK, Request
  <2> QED
    BY <1>0, <1>2, <2>2 DEF Watch
<1>3. ASSUME NEW e \in Env, WatchFails(e) PROVE WatcherTypeOK'
  BY <1>0, <1>3 DEF WatchFails
<1>4. ASSUME NEW e \in Env, Unwatch(e) PROVE WatcherTypeOK'
  BY <1>0, <1>4 DEF Unwatch, EraseCallback, Emptied
<1>5. ASSUME NEW e \in Env, UnwatchUnref(e) PROVE WatcherTypeOK'
  BY <1>0, <1>5 DEF UnwatchUnref, RemoveIfUnused
<1>6. ASSUME NEW e \in Env, ReleaseShared(e) PROVE WatcherTypeOK'
  <2>1. stage[e] \in Holding
    BY <1>6 DEF ReleaseShared
  <2>2. at[e] \in Watcher /\ reserved[at[e]] > 0
    BY <2>1, HeldIsReserved
  <2>3. reserved' \in [Watcher -> Nat]
    BY <1>0, <1>6, <2>2 DEF ReleaseShared
  <2>4. /\ stage' \in [Env -> Stage]
        /\ at' \in [Env -> Watcher \cup {NoWatcher}]
        /\ \A x \in Env : request'[x] \in Request(x) \cup {NoRequest}
        /\ DOMAIN request' = Env
        /\ shouldUnwatch' \in [Env -> BOOLEAN]
    <3>1. CASE reserved[at[e]] = 1
      BY <1>0, <1>6, <3>1 DEF ReleaseShared
    <3>2. CASE reserved[at[e]] # 1
      <4>1. Return(e)
        BY <1>6, <3>2 DEF ReleaseShared
      <4> QED
        BY ONLY <1>0, <4>1, ReturnTyped
    <3> QED
      BY <3>1, <3>2
  <2>5. UNCHANGED <<registry, keyOf, callbacks, closing, cancelled, errorCalls,
                    exited, todo, toUnref>>
    BY <1>6 DEF ReleaseShared
  <2> QED
    BY ONLY <1>0, <2>3, <2>4, <2>5 DEF WatcherTypeOK
<1>7. ASSUME NEW e \in Env, Unref(e) PROVE WatcherTypeOK'
  BY <1>0, <1>7 DEF Unref, RemoveIfUnused, Return
<1>8. ASSUME NEW e \in Env, CancelEnvironment(e) PROVE WatcherTypeOK'
  BY <1>0, <1>8 DEF CancelEnvironment
<1>9. ASSUME NEW e \in Env, CancelDone(e) PROVE WatcherTypeOK'
  BY <1>0, <1>9 DEF CancelDone
<1>10. ASSUME NEW e \in Env, CleanupEnvironment(e) PROVE WatcherTypeOK'
  BY <1>0, <1>10 DEF CleanupEnvironment
<1>11. ASSUME NEW e \in Env, NEW w \in Watcher, CancelWatcher(e, w)
       PROVE  WatcherTypeOK'
  BY <1>0, <1>11 DEF CancelWatcher, HasOnlyOf, OfEnv
<1>12. ASSUME NEW e \in Env, NEW w \in Watcher, CleanupWatcher(e, w)
       PROVE  WatcherTypeOK'
  BY <1>0, <1>12 DEF CleanupWatcher, HasOnlyOf, OfEnv
<1>13. ASSUME NEW e \in Env, NEW w \in Watcher, CleanupUnref(e, w)
       PROVE  WatcherTypeOK'
  BY <1>0, <1>13 DEF CleanupUnref, RemoveIfUnused
<1>14. ASSUME NEW e \in Env, NEW w \in Watcher, NEW c \in Callback,
              CleanupAfterFailure(e, w, c)
       PROVE  WatcherTypeOK'
  <2>1. /\ callbacks' \in [Watcher -> SUBSET Callback]
        /\ closing' \in [Watcher -> SUBSET Callback]
    BY <1>0, <1>14 DEF CleanupAfterFailure, EraseCallback
  <2>2. cancelled' \in [Watcher -> BOOLEAN]
    BY <1>0, <1>14 DEF CleanupAfterFailure, EraseCallback, Emptied
  <2>3. stage' \in [Env -> Stage] /\ at' \in [Env -> Watcher \cup {NoWatcher}]
    BY <1>0, <1>14 DEF CleanupAfterFailure
  <2>4. UNCHANGED <<registry, keyOf, reserved, errorCalls, request, shouldUnwatch,
                    exited, todo, toUnref>>
    BY <1>14 DEF CleanupAfterFailure
  <2> QED
    BY ONLY <1>0, <2>1, <2>2, <2>3, <2>4 DEF WatcherTypeOK
<1>15. ASSUME NEW e \in Env, NEW w \in Watcher, NEW c \in Callback,
              FinishErrorCallback(e, w, c)
       PROVE  WatcherTypeOK'
  <2> DEFINE left == callbacks[w] \ (closing[w] \cap {c})
  <2>1. /\ callbacks' = [callbacks EXCEPT ![w] = left]
        /\ closing' = [closing EXCEPT ![w] = @ \ {c}]
        /\ errorCalls' = errorCalls \ {<<w, c>>}
        /\ UNCHANGED <<registry, keyOf, reserved, request, shouldUnwatch,
                       exited, todo, toUnref>>
    BY <1>15 DEF FinishErrorCallback
  <2>2. cancelled' \in [Watcher -> BOOLEAN]
    BY <1>0, <1>15 DEF FinishErrorCallback
  <2>3. stage' \in [Env -> Stage] /\ at' \in [Env -> Watcher \cup {NoWatcher}]
    <3>1. \/ stage' = [stage EXCEPT ![e] = "unref"] /\ at' = [at EXCEPT ![e] = w]
          \/ stage' = stage /\ at' = at
      BY <1>15 DEF FinishErrorCallback
    <3> QED
      BY ONLY <1>0, <3>1 DEF WatcherTypeOK, Stage
  <2>4. callbacks' \in [Watcher -> SUBSET Callback]
    BY ONLY <1>0, <2>1 DEF WatcherTypeOK
  <2>5. closing' \in [Watcher -> SUBSET Callback]
    BY ONLY <1>0, <2>1 DEF WatcherTypeOK
  <2> QED
    BY ONLY <1>0, <2>1, <2>2, <2>3, <2>4, <2>5 DEF WatcherTypeOK
<1>16. ASSUME NEW S \in SUBSET Watcher, NotifyError(S) PROVE WatcherTypeOK'
  BY <1>0, <1>16 DEF NotifyError, ErrorCallsTo
<1>16b. ASSUME NEW w \in Watcher, TriggerCallbacks(w) PROVE WatcherTypeOK'
  BY <1>0, <1>16b DEF TriggerCallbacks
<1>17. CASE UNCHANGED watcherVars
  BY <1>0, <1>17 DEF watcherVars
<1> QED
  BY <1>16b, <1>1, <1>2, <1>3, <1>4, <1>5, <1>6, <1>7, <1>8, <1>9, <1>10, <1>11,
     <1>12, <1>13, <1>14, <1>15, <1>16, <1>17 DEF WatcherNext

----------------------------------------------------------------------------
(* A step that keeps every thread's reservation keeps the counts. *)
LEMMA SameHolders ==
  ASSUME ReservedIsHeld, reserved' = reserved,
         \A e \in Env : \/ stage'[e] = stage[e] /\ at'[e] = at[e]
                        \/ stage[e] \notin Holding /\ stage'[e] \notin Holding
                        \/ /\ stage[e] \in Holding /\ stage'[e] \in Holding
                           /\ at'[e] = at[e]
  PROVE  ReservedIsHeld'
<1> SUFFICES ASSUME NEW w \in Watcher PROVE Holders(w)' = Holders(w)
  BY DEF ReservedIsHeld
<1> QED
  BY DEF Holders

LEMMA ReservedStep == WatcherInv /\ [WatcherNext]_watcherVars => ReservedIsHeld'
<1> SUFFICES ASSUME WatcherInv, [WatcherNext]_watcherVars PROVE ReservedIsHeld'
  OBVIOUS
<1>0. WatcherTypeOK /\ ReservedIsHeld /\ ThreadOK
  BY DEF WatcherInv
<1>1. ASSUME NEW e \in Env, NEW r \in Request(e), NEW w \in Watcher,
             GetShared(e, r, w)
      PROVE  ReservedIsHeld'
  <2> SUFFICES ASSUME NEW v \in Watcher
               PROVE  reserved'[v] = Cardinality(Holders(v)')
    BY DEF ReservedIsHeld, Holders
  <2>1. stage' = [stage EXCEPT ![e] = "reserved"] /\ at' = [at EXCEPT ![e] = w]
        /\ reserved' = [reserved EXCEPT ![w] = @ + 1] /\ stage[e] = "idle"
    BY <1>1 DEF GetShared, Reserve
  <2>2. CASE v = w
    <3>1. Holders(v)' = Holders(v) \cup {e} /\ e \notin Holders(v)
      BY <1>0, <2>1, <2>2 DEF Holders, Holding, WatcherTypeOK
    <3>2. Cardinality(Holders(v) \cup {e}) = Cardinality(Holders(v)) + 1
      BY <3>1, HoldersFinite, FS_AddElement
    <3> QED
      BY <1>0, <2>1, <2>2, <3>1, <3>2 DEF WatcherTypeOK, ReservedIsHeld
  <2>3. CASE v # w
    <3>1. Holders(v)' = Holders(v)
      BY <1>0, <2>1, <2>3 DEF Holders, Holding, WatcherTypeOK
    <3> QED
      BY <1>0, <2>1, <2>3, <3>1 DEF WatcherTypeOK, ReservedIsHeld
  <2> QED
    BY <2>2, <2>3
<1>2. ASSUME NEW e \in Env, ReleaseShared(e) PROVE ReservedIsHeld'
  <2> DEFINE w == at[e]
  <2> SUFFICES ASSUME NEW v \in Watcher
               PROVE  reserved'[v] = Cardinality(Holders(v)')
    BY DEF ReservedIsHeld, Holders
  <2>1. /\ stage[e] = "release" /\ reserved' = [reserved EXCEPT ![w] = @ - 1]
        /\ w \in Watcher
    BY <1>0, <1>2 DEF ReleaseShared, ThreadOK, Holding
  <2>2. /\ stage'[e] \notin Holding
        /\ \A x \in Env \ {e} : stage'[x] = stage[x] /\ at'[x] = at[x]
    BY <1>0, <1>2 DEF ReleaseShared, Return, Holding, WatcherTypeOK
  <2>3. CASE v = w
    <3>1. Holders(v)' = Holders(v) \ {e} /\ e \in Holders(v)
      BY <2>1, <2>2, <2>3 DEF Holders, Holding
    <3>2. Cardinality(Holders(v) \ {e}) = Cardinality(Holders(v)) - 1
      BY <3>1, HoldersFinite, FS_RemoveElement
    <3> QED
      BY <1>0, <2>1, <2>3, <3>1, <3>2 DEF WatcherTypeOK, ReservedIsHeld
  <2>4. CASE v # w
    <3>1. Holders(v)' = Holders(v)
      BY <2>1, <2>2, <2>4 DEF Holders
    <3> QED
      BY <1>0, <2>1, <2>4, <3>1 DEF WatcherTypeOK, ReservedIsHeld
  <2> QED
    BY <2>3, <2>4
<1>3. ASSUME NEW e \in Env,
             Watch(e) \/ WatchFails(e) \/ Unwatch(e) \/ UnwatchUnref(e)
      PROVE  ReservedIsHeld'
  BY <1>0, <1>3, SameHolders
  DEF Watch, WatchFails, Unwatch, UnwatchUnref, Holding, WatcherTypeOK
<1>4. ASSUME NEW e \in Env,
             \/ Unref(e) \/ CancelEnvironment(e) \/ CancelDone(e)
             \/ CleanupEnvironment(e)
      PROVE  ReservedIsHeld'
  BY <1>0, <1>4, SameHolders
  DEF Unref, Return, CancelEnvironment, CancelDone, CleanupEnvironment, Holding,
      WatcherTypeOK
<1>5. ASSUME NEW e \in Env, NEW w \in Watcher,
             CancelWatcher(e, w) \/ CleanupWatcher(e, w) \/ CleanupUnref(e, w)
      PROVE  ReservedIsHeld'
  BY <1>0, <1>5, SameHolders
  DEF CancelWatcher, CleanupWatcher, CleanupUnref, threadVars
<1>6. ASSUME NEW e \in Env, NEW w \in Watcher, NEW c \in Callback,
             CleanupAfterFailure(e, w, c)
      PROVE  ReservedIsHeld'
  BY <1>0, <1>6, SameHolders DEF CleanupAfterFailure, Holding, WatcherTypeOK
<1>7. ASSUME NEW e \in Env, NEW w \in Watcher, NEW c \in Callback,
             FinishErrorCallback(e, w, c)
      PROVE  ReservedIsHeld'
  BY <1>0, <1>7, SameHolders DEF FinishErrorCallback, Holding, WatcherTypeOK
<1>8. ASSUME NEW S \in SUBSET Watcher, NotifyError(S) PROVE ReservedIsHeld'
  BY <1>0, <1>8, SameHolders DEF NotifyError, ErrorCallsTo, threadVars
<1>8b. ASSUME NEW w \in Watcher, TriggerCallbacks(w) PROVE ReservedIsHeld'
  BY <1>0, <1>8b, SameHolders DEF TriggerCallbacks, threadVars
<1>9. CASE UNCHANGED watcherVars
  BY <1>0, <1>9, SameHolders DEF watcherVars, threadVars
<1> QED
  BY <1>8b, <1>1, <1>2, <1>3, <1>4, <1>5, <1>6, <1>7, <1>8, <1>9 DEF WatcherNext
----------------------------------------------------------------------------
LEMMA ThreadStep == WatcherInv /\ [WatcherNext]_watcherVars => ThreadOK'
<1> SUFFICES ASSUME WatcherInv, [WatcherNext]_watcherVars PROVE ThreadOK'
  OBVIOUS
<1>0. WatcherTypeOK /\ ThreadOK
  BY DEF WatcherInv
<1> USE DEF Holding, WatcherTypeOK
<1>1. ASSUME NEW e \in Env, NEW r \in Request(e), NEW w \in Watcher,
             GetShared(e, r, w)
      PROVE  ThreadOK'
  <2>1. keyOf'[w] = r.key
    BY <1>0, <1>1 DEF GetShared, Reserve, GetSharedFound, GetSharedNew
  <2>2. \A x \in Env : at[x] \in Watcher => keyOf'[at[x]] = keyOf[at[x]]
    BY <1>0, <1>1 DEF GetShared, Reserve, GetSharedFound, GetSharedNew, Referenced
  <2>3. /\ stage' = [stage EXCEPT ![e] = "reserved"]
        /\ at' = [at EXCEPT ![e] = w]
        /\ request' = [request EXCEPT ![e] = r]
        /\ exited' = exited
    BY <1>1 DEF GetShared, Reserve, exitVars
  <2> SUFFICES ASSUME NEW x \in Env
               PROVE  /\ stage'[x] \in Holding \cup {"unref"} => at'[x] \in Watcher
                      /\ stage'[x] \in Holding => /\ request'[x] \in Request(x)
                                                  /\ keyOf'[at'[x]] = request'[x].key
                      /\ stage'[x] \notin Holding \cup {"unref"} => at'[x] = NoWatcher
                      /\ stage'[x] = "cancel" => x \in exited'
    BY DEF ThreadOK, Request
  <2>4. CASE x = e
    BY <1>0, <2>1, <2>3, <2>4
  <2>5. CASE x # e
    <3>1. /\ stage'[x] = stage[x] /\ at'[x] = at[x]
          /\ request'[x] = request[x] /\ exited' = exited
      BY <1>0, <2>3, <2>5
    <3> QED
      BY <1>0, <2>2, <3>1 DEF ThreadOK
  <2> QED
    BY <2>4, <2>5
<1>2. ASSUME NEW e \in Env,
             Watch(e) \/ WatchFails(e) \/ Unwatch(e) \/ UnwatchUnref(e)
      PROVE  ThreadOK'
  <2>1. /\ stage'[e] \in Holding /\ stage[e] \in Holding
        /\ \A x \in Env \ {e} : stage'[x] = stage[x]
        /\ at' = at /\ request' = request /\ keyOf' = keyOf /\ exited' = exited
    BY <1>0, <1>2 DEF Watch, WatchFails, Unwatch, UnwatchUnref, EraseCallback,
                      objectVars, exitVars
  <2> QED
    BY <1>0, <2>1 DEF ThreadOK, Request
<1>3. ASSUME NEW e \in Env, ReleaseShared(e) PROVE ThreadOK'
  <2>1. keyOf' = keyOf /\ exited' = exited
    BY <1>3 DEF ReleaseShared, objectVars, exitVars
  <2>2. CASE reserved[at[e]] = 1
    BY <1>0, <1>3, <2>1, <2>2 DEF ReleaseShared, ThreadOK, Request
  <2>3. CASE reserved[at[e]] # 1
    BY <1>0, <1>3, <2>1, <2>3 DEF ReleaseShared, Return, ThreadOK, Request
  <2> QED
    BY <2>2, <2>3
<1>4. ASSUME NEW e \in Env, Unref(e) PROVE ThreadOK'
  BY <1>0, <1>4 DEF Unref, Return, ThreadOK, Request, objectVars, exitVars
<1>5. ASSUME NEW e \in Env,
             CancelEnvironment(e) \/ CancelDone(e) \/ CleanupEnvironment(e)
      PROVE  ThreadOK'
  BY <1>0, <1>5
  DEF CancelEnvironment, CancelDone, CleanupEnvironment, ThreadOK, Request,
      objectVars, exitVars
<1>6. ASSUME NEW e \in Env, NEW w \in Watcher,
             CancelWatcher(e, w) \/ CleanupWatcher(e, w) \/ CleanupUnref(e, w)
      PROVE  ThreadOK'
  BY <1>0, <1>6
  DEF CancelWatcher, CleanupWatcher, CleanupUnref, ThreadOK, Request, objectVars,
      threadVars, exitVars
<1>7. ASSUME NEW e \in Env, NEW w \in Watcher, NEW c \in Callback,
             CleanupAfterFailure(e, w, c) \/ FinishErrorCallback(e, w, c)
      PROVE  ThreadOK'
  <2>1. /\ stage[e] = "idle" /\ keyOf' = keyOf /\ request' = request
        /\ exited' = exited
        /\ \/ UNCHANGED <<stage, at>>
           \/ /\ stage' = [stage EXCEPT ![e] = "unref"]
              /\ at' = [at EXCEPT ![e] = w]
    BY <1>7 DEF CleanupAfterFailure, FinishErrorCallback, EraseCallback, exitVars
  <2> QED
    BY <1>0, <2>1 DEF ThreadOK, Request
<1>8. ASSUME NEW S \in SUBSET Watcher, NotifyError(S) PROVE ThreadOK'
  BY <1>0, <1>8 DEF NotifyError, ErrorCallsTo, ThreadOK, Request, threadVars, exitVars
<1>8b. ASSUME NEW w \in Watcher, TriggerCallbacks(w) PROVE ThreadOK'
  BY <1>0, <1>8b DEF TriggerCallbacks, ThreadOK, Request, threadVars, exitVars
<1>9. CASE UNCHANGED watcherVars
  BY <1>0, <1>9 DEF watcherVars, ThreadOK, Request, objectVars, threadVars, exitVars
<1> QED
  BY <1>8b, <1>1, <1>2, <1>3, <1>4, <1>5, <1>6, <1>7, <1>8, <1>9 DEF WatcherNext
----------------------------------------------------------------------------
(* Only getShared registers a watcher, and only one whose key is new. *)
LEMMA RegistryGrows ==
  ASSUME WatcherInv, [WatcherNext]_watcherVars
  PROVE  \/ registry' \subseteq registry /\ keyOf' = keyOf
         \/ \E e \in Env : \E r \in Request(e), w \in Watcher :
              GetShared(e, r, w) /\ GetSharedNew(e, r, w)
<1> DEFINE Shrinks == registry' \subseteq registry /\ keyOf' = keyOf
<1> USE DEF objectVars
<1>1. ASSUME NEW e \in Env, NEW r \in Request(e), NEW w \in Watcher,
             GetShared(e, r, w)
      PROVE  Shrinks \/ GetSharedNew(e, r, w)
  BY <1>1 DEF GetShared, Reserve, GetSharedFound
<1>2. ASSUME NEW e \in Env, Watch(e) \/ WatchFails(e) \/ Unwatch(e)
      PROVE  Shrinks
  BY <1>2 DEF Watch, WatchFails, Unwatch
<1>3. ASSUME NEW e \in Env, UnwatchUnref(e) \/ ReleaseShared(e) \/ Unref(e)
      PROVE  Shrinks
  BY <1>3 DEF UnwatchUnref, ReleaseShared, Unref, RemoveIfUnused
<1>4. ASSUME NEW e \in Env,
             CancelEnvironment(e) \/ CancelDone(e) \/ CleanupEnvironment(e)
      PROVE  Shrinks
  BY <1>4 DEF CancelEnvironment, CancelDone, CleanupEnvironment
<1>5. ASSUME NEW e \in Env, NEW w \in Watcher,
             CancelWatcher(e, w) \/ CleanupWatcher(e, w) \/ CleanupUnref(e, w)
      PROVE  Shrinks
  BY <1>5 DEF CancelWatcher, CleanupWatcher, CleanupUnref, RemoveIfUnused
<1>6. ASSUME NEW e \in Env, NEW w \in Watcher, NEW c \in Callback,
             CleanupAfterFailure(e, w, c) \/ FinishErrorCallback(e, w, c)
      PROVE  Shrinks
  BY <1>6 DEF CleanupAfterFailure, FinishErrorCallback
<1>7. ASSUME NEW S \in SUBSET Watcher, NotifyError(S) PROVE Shrinks
  BY <1>7 DEF NotifyError, ErrorCallsTo
<1>7b. ASSUME NEW w \in Watcher, TriggerCallbacks(w) PROVE Shrinks
  BY <1>7b DEF TriggerCallbacks
<1>8. CASE UNCHANGED watcherVars
  BY <1>8 DEF watcherVars
<1> QED
  BY <1>7b, <1>1, <1>2, <1>3, <1>4, <1>5, <1>6, <1>7, <1>8, Zenon DEF WatcherNext

LEMMA OnePerKeyStep ==
  WatcherInv /\ [WatcherNext]_watcherVars => OnePerKey' /\ RegisteredHasKey'
<1> SUFFICES ASSUME WatcherInv, [WatcherNext]_watcherVars
             PROVE  OnePerKey' /\ RegisteredHasKey'
  OBVIOUS
<1>0. WatcherTypeOK /\ OnePerKey /\ RegisteredHasKey
  BY DEF WatcherInv
<1>1. CASE registry' \subseteq registry /\ keyOf' = keyOf
  BY <1>0, <1>1 DEF OnePerKey, RegisteredHasKey
<1>2. ASSUME NEW e \in Env, NEW r \in Request(e), NEW w \in Watcher,
             GetSharedNew(e, r, w)
      PROVE  OnePerKey' /\ RegisteredHasKey'
  <2>1. w \notin registry /\ r.key \in Key
    BY <1>2 DEF GetSharedNew, Referenced, Request
  <2>2. /\ registry' = registry \cup {w} /\ keyOf'[w] = r.key
        /\ \A v \in registry : keyOf'[v] = keyOf[v] /\ keyOf[v] # r.key
    BY <1>0, <1>2, <2>1 DEF GetSharedNew, WatcherTypeOK
  <2> QED
    BY <1>0, <2>1, <2>2 DEF OnePerKey, RegisteredHasKey
<1> QED
  BY <1>1, <1>2, RegistryGrows

(* The watcher that leaves the registry is one unref found unused. *)
LEMMA UsedStep == WatcherInv /\ [WatcherNext]_watcherVars => UsedIsRegistered'
<1> SUFFICES ASSUME WatcherInv, [WatcherNext]_watcherVars PROVE UsedIsRegistered'
  OBVIOUS
<1>0. WatcherTypeOK /\ UsedIsRegistered
  BY DEF WatcherInv
<1> USE DEF UsedIsRegistered, WatcherTypeOK, objectVars
<1>1. ASSUME NEW e \in Env, NEW r \in Request(e), NEW w \in Watcher,
             GetShared(e, r, w)
      PROVE  UsedIsRegistered'
  <2>1. registry \subseteq registry' /\ w \in registry'
    BY <1>1 DEF GetShared, Reserve, GetSharedFound, GetSharedNew
  <2> QED
    BY <1>0, <1>1, <2>1 DEF GetShared, Reserve
<1>2. ASSUME NEW e \in Env, Watch(e) \/ WatchFails(e) \/ Unwatch(e)
      PROVE  UsedIsRegistered'
  <2>1. at[e] \in registry
    BY <1>2, HeldIsReserved DEF Watch, WatchFails, Unwatch, Holding
  <2> QED
    BY <1>0, <1>2, <2>1 DEF Watch, WatchFails, Unwatch, EraseCallback
<1>3. ASSUME NEW e \in Env, ReleaseShared(e) PROVE UsedIsRegistered'
  <2>1. at[e] \in registry
    BY <1>3, HeldIsReserved DEF ReleaseShared, Holding
  <2> QED
    BY <1>0, <1>3, <2>1 DEF ReleaseShared
<1>4. ASSUME NEW e \in Env, UnwatchUnref(e) \/ Unref(e) PROVE UsedIsRegistered'
  BY <1>0, <1>4 DEF UnwatchUnref, Unref, RemoveIfUnused
<1>5. ASSUME NEW e \in Env,
             CancelEnvironment(e) \/ CancelDone(e) \/ CleanupEnvironment(e)
      PROVE  UsedIsRegistered'
  BY <1>0, <1>5 DEF CancelEnvironment, CancelDone, CleanupEnvironment
<1>6. ASSUME NEW e \in Env, NEW w \in Watcher,
             CancelWatcher(e, w) \/ CleanupWatcher(e, w) \/ CleanupUnref(e, w)
      PROVE  UsedIsRegistered'
  BY <1>0, <1>6 DEF CancelWatcher, CleanupWatcher, CleanupUnref, RemoveIfUnused
<1>7. ASSUME NEW e \in Env, NEW w \in Watcher, NEW c \in Callback,
             CleanupAfterFailure(e, w, c) \/ FinishErrorCallback(e, w, c)
      PROVE  UsedIsRegistered'
  BY <1>0, <1>7 DEF CleanupAfterFailure, FinishErrorCallback, EraseCallback
<1>8. ASSUME NEW S \in SUBSET Watcher, NotifyError(S) PROVE UsedIsRegistered'
  BY <1>0, <1>8 DEF NotifyError, ErrorCallsTo
<1>8b. ASSUME NEW w \in Watcher, TriggerCallbacks(w) PROVE UsedIsRegistered'
  BY <1>0, <1>8b DEF TriggerCallbacks
<1>9. CASE UNCHANGED watcherVars
  BY <1>0, <1>9 DEF watcherVars
<1> QED
  BY <1>8b, <1>1, <1>2, <1>3, <1>4, <1>5, <1>6, <1>7, <1>8, <1>9 DEF WatcherNext

(* Whoever removes the last use goes on to unref, and who unrefs looks at   *)
(* the callbacks and the reservations in one critical section.              *)
LEMMA ReclaimStep == WatcherInv /\ [WatcherNext]_watcherVars => UnusedIsReclaimed'
<1> SUFFICES ASSUME WatcherInv, [WatcherNext]_watcherVars PROVE UnusedIsReclaimed'
  OBVIOUS
<1>0. WatcherTypeOK /\ UnusedIsReclaimed /\ ThreadOK
  BY DEF WatcherInv
<1> USE DEF UnusedIsReclaimed, WatcherTypeOK, objectVars
<1>1. ASSUME NEW e \in Env, NEW r \in Request(e), NEW w \in Watcher,
             GetShared(e, r, w)
      PROVE  UnusedIsReclaimed'
  <2>1. /\ registry' \subseteq registry \cup {w} /\ reserved'[w] > 0
        /\ \A v \in Watcher \ {w} : reserved'[v] = reserved[v]
    BY <1>0, <1>1 DEF GetShared, Reserve, GetSharedFound, GetSharedNew
  <2>2. stage[e] = "idle" /\ \A x \in Env \ {e} : stage'[x] = stage[x] /\ at'[x] = at[x]
    BY <1>0, <1>1 DEF GetShared, Reserve
  <2> QED
    BY <1>0, <1>1, <2>1, <2>2 DEF GetShared, Reserve, exitVars
<1>2. ASSUME NEW e \in Env, Watch(e) \/ WatchFails(e) \/ Unwatch(e)
      PROVE  UnusedIsReclaimed'
  <2>1. reserved[at[e]] > 0 /\ at[e] \in Watcher
    BY <1>2, HeldIsReserved DEF Watch, WatchFails, Unwatch, Holding
  <2>2. /\ registry' = registry /\ reserved' = reserved /\ toUnref' = toUnref
        /\ at' = at /\ stage[e] # "unref"
        /\ \A x \in Env \ {e} : stage'[x] = stage[x]
        /\ \A v \in Watcher \ {at[e]} : callbacks'[v] = callbacks[v]
    BY <1>0, <1>2 DEF Watch, WatchFails, Unwatch, EraseCallback, exitVars
  <2> QED
    BY <1>0, <2>1, <2>2
<1>3. ASSUME NEW e \in Env, ReleaseShared(e) PROVE UnusedIsReclaimed'
  <2>1. reserved[at[e]] > 0 /\ at[e] \in Watcher
    BY <1>3, HeldIsReserved DEF ReleaseShared, Holding
  <2>2. /\ registry' = registry /\ callbacks' = callbacks /\ toUnref' = toUnref
        /\ stage[e] # "unref"
        /\ reserved' = [reserved EXCEPT ![at[e]] = @ - 1]
    BY <1>3 DEF ReleaseShared, exitVars
  <2>3. CASE reserved[at[e]] = 1
    BY <1>0, <1>3, <2>1, <2>2, <2>3 DEF ReleaseShared
  <2>4. CASE reserved[at[e]] # 1
    <3>1. reserved'[at[e]] > 0
      BY <1>0, <2>1, <2>2, <2>4
    <3>2. \A x \in Env \ {e} : stage'[x] = stage[x] /\ at'[x] = at[x]
      BY <1>0, <1>3, <2>4 DEF ReleaseShared, Return
    <3> QED
      BY <1>0, <2>1, <2>2, <3>1, <3>2
  <2> QED
    BY <2>3, <2>4
<1>4. ASSUME NEW e \in Env, UnwatchUnref(e) PROVE UnusedIsReclaimed'
  BY <1>0, <1>4 DEF UnwatchUnref, RemoveIfUnused, exitVars
<1>5. ASSUME NEW e \in Env, Unref(e) PROVE UnusedIsReclaimed'
  <2>1. /\ callbacks' = callbacks /\ reserved' = reserved /\ toUnref' = toUnref
        /\ RemoveIfUnused(at[e])
        /\ \A x \in Env \ {e} : stage'[x] = stage[x] /\ at'[x] = at[x]
    BY <1>0, <1>5 DEF Unref, Return, exitVars
  <2> QED
    BY <1>0, <2>1 DEF RemoveIfUnused
<1>6. ASSUME NEW e \in Env,
             CancelEnvironment(e) \/ CancelDone(e) \/ CleanupEnvironment(e)
      PROVE  UnusedIsReclaimed'
  BY <1>0, <1>6 DEF CancelEnvironment, CancelDone, CleanupEnvironment, exitVars
<1>7. ASSUME NEW e \in Env, NEW w \in Watcher, CancelWatcher(e, w)
      PROVE  UnusedIsReclaimed'
  BY <1>0, <1>7 DEF CancelWatcher, threadVars
<1>8. ASSUME NEW e \in Env, NEW w \in Watcher, CleanupWatcher(e, w)
      PROVE  UnusedIsReclaimed'
  BY <1>0, <1>8 DEF CleanupWatcher, HasOnlyOf, OfEnv, threadVars
<1>9. ASSUME NEW e \in Env, NEW w \in Watcher, CleanupUnref(e, w)
      PROVE  UnusedIsReclaimed'
  BY <1>0, <1>9 DEF CleanupUnref, RemoveIfUnused, threadVars
<1>10. ASSUME NEW e \in Env, NEW w \in Watcher, NEW c \in Callback,
              CleanupAfterFailure(e, w, c)
       PROVE  UnusedIsReclaimed'
  BY <1>0, <1>10 DEF CleanupAfterFailure, EraseCallback, Emptied, exitVars
<1>11. ASSUME NEW e \in Env, NEW w \in Watcher, NEW c \in Callback,
              FinishErrorCallback(e, w, c)
       PROVE  UnusedIsReclaimed'
  BY <1>0, <1>11 DEF FinishErrorCallback, exitVars
<1>12. ASSUME NEW S \in SUBSET Watcher, NotifyError(S) PROVE UnusedIsReclaimed'
  BY <1>0, <1>12 DEF NotifyError, ErrorCallsTo, threadVars, exitVars
<1>12b. ASSUME NEW w \in Watcher, TriggerCallbacks(w) PROVE UnusedIsReclaimed'
  BY <1>0, <1>12b DEF TriggerCallbacks, threadVars, exitVars
<1>13. CASE UNCHANGED watcherVars
  BY <1>0, <1>13 DEF watcherVars, threadVars, exitVars
<1> QED
  BY <1>12b, <1>1, <1>2, <1>3, <1>4, <1>5, <1>6, <1>7, <1>8, <1>9, <1>10, <1>11, <1>12,
     <1>13 DEF WatcherNext
----------------------------------------------------------------------------
(* A watcher is cancelled when it has lost its last callback or when the    *)
(* only environment that uses it exits; a later watch takes it back.        *)
LEMMA CancelledStep ==
  WatcherInv /\ [WatcherNext]_watcherVars => CancelledIsUnwanted'
<1> SUFFICES ASSUME WatcherInv, [WatcherNext]_watcherVars
             PROVE  CancelledIsUnwanted'
  OBVIOUS
<1>0. WatcherTypeOK /\ CancelledIsUnwanted /\ ThreadOK
  BY DEF WatcherInv
<1> USE DEF CancelledIsUnwanted, WatcherTypeOK, objectVars, exitVars
<1>1. ASSUME NEW e \in Env, NEW r \in Request(e), NEW w \in Watcher,
             GetShared(e, r, w)
      PROVE  CancelledIsUnwanted'
  BY <1>0, <1>1 DEF GetShared, Reserve, GetSharedFound, GetSharedNew
<1>2. ASSUME NEW e \in Env, Watch(e) \/ WatchFails(e)
      PROVE  CancelledIsUnwanted'
  BY <1>0, <1>2 DEF Watch, WatchFails
<1>3. ASSUME NEW e \in Env, Unwatch(e) PROVE CancelledIsUnwanted'
  BY <1>0, <1>3 DEF Unwatch, EraseCallback, Emptied
<1>4. ASSUME NEW e \in Env, UnwatchUnref(e) \/ ReleaseShared(e) \/ Unref(e)
      PROVE  CancelledIsUnwanted'
  BY <1>0, <1>4 DEF UnwatchUnref, ReleaseShared, Unref
<1>5. ASSUME NEW e \in Env,
             CancelEnvironment(e) \/ CancelDone(e) \/ CleanupEnvironment(e)
      PROVE  CancelledIsUnwanted'
  BY <1>0, <1>5 DEF CancelEnvironment, CancelDone, CleanupEnvironment
<1>6. ASSUME NEW e \in Env, NEW w \in Watcher, CancelWatcher(e, w)
      PROVE  CancelledIsUnwanted'
  <2>1. e \in exited
    BY <1>0, <1>6 DEF CancelWatcher, HasOnlyOf, OfEnv, ThreadOK
  <2> QED
    BY <1>0, <1>6, <2>1 DEF CancelWatcher, HasOnlyOf, OfEnv
<1>7. ASSUME NEW e \in Env, NEW w \in Watcher, CleanupWatcher(e, w)
      PROVE  CancelledIsUnwanted'
  BY <1>0, <1>7 DEF CleanupWatcher, HasOnlyOf, OfEnv
<1>8. ASSUME NEW e \in Env, NEW w \in Watcher, CleanupUnref(e, w)
      PROVE  CancelledIsUnwanted'
  BY <1>0, <1>8 DEF CleanupUnref
<1>9. ASSUME NEW e \in Env, NEW w \in Watcher, NEW c \in Callback,
             CleanupAfterFailure(e, w, c) \/ FinishErrorCallback(e, w, c)
      PROVE  CancelledIsUnwanted'
  BY <1>0, <1>9
  DEF CleanupAfterFailure, FinishErrorCallback, EraseCallback, Emptied
<1>10. ASSUME NEW S \in SUBSET Watcher, NotifyError(S) PROVE CancelledIsUnwanted'
  BY <1>0, <1>10 DEF NotifyError, ErrorCallsTo
<1>10b. ASSUME NEW w \in Watcher, TriggerCallbacks(w) PROVE CancelledIsUnwanted'
  BY <1>0, <1>10b DEF TriggerCallbacks
<1>11. CASE UNCHANGED watcherVars
  BY <1>0, <1>11 DEF watcherVars
<1> QED
  BY <1>10b, <1>1, <1>2, <1>3, <1>4, <1>5, <1>6, <1>7, <1>8, <1>9, <1>10, <1>11
  DEF WatcherNext

(* The closing flag goes up with the error call and down with the callback. *)
LEMMA ClosingStep ==
  WatcherInv /\ [WatcherNext]_watcherVars => ClosingIsTold' /\ ClosingIsRegistered'
<1> SUFFICES ASSUME WatcherInv, [WatcherNext]_watcherVars
             PROVE  ClosingIsTold' /\ ClosingIsRegistered'
  OBVIOUS
<1>0. WatcherTypeOK /\ ClosingIsTold /\ ClosingIsRegistered
  BY DEF WatcherInv
<1> USE CallbackAssumption
    DEF ClosingIsTold, ClosingIsRegistered, WatcherTypeOK, objectVars, threadVars
<1>1. ASSUME NEW e \in Env, NEW r \in Request(e), NEW w \in Watcher,
             GetShared(e, r, w)
      PROVE  ClosingIsTold' /\ ClosingIsRegistered'
  BY <1>0, <1>1 DEF GetShared, Reserve
<1>2. ASSUME NEW e \in Env, Watch(e) \/ WatchFails(e) \/ UnwatchUnref(e)
      PROVE  ClosingIsTold' /\ ClosingIsRegistered'
  BY <1>0, <1>2 DEF Watch, WatchFails, UnwatchUnref
<1>3. ASSUME NEW e \in Env, Unwatch(e)
      PROVE  ClosingIsTold' /\ ClosingIsRegistered'
  BY <1>0, <1>3 DEF Unwatch, EraseCallback
<1>4. ASSUME NEW e \in Env, ReleaseShared(e) \/ Unref(e)
      PROVE  ClosingIsTold' /\ ClosingIsRegistered'
  <2>1. /\ closing' = closing /\ callbacks' = callbacks /\ errorCalls' = errorCalls
        /\ stage[e] # "cleanup" /\ \A x \in Env \ {e} : stage'[x] = stage[x]
    BY <1>0, <1>4 DEF ReleaseShared, Unref, Return
  <2> QED
    BY <1>0, <2>1
<1>5. ASSUME NEW e \in Env, CancelEnvironment(e) \/ CancelDone(e)
      PROVE  ClosingIsTold' /\ ClosingIsRegistered'
  BY <1>0, <1>5 DEF CancelEnvironment, CancelDone
<1>6. ASSUME NEW e \in Env, CleanupEnvironment(e)
      PROVE  ClosingIsTold' /\ ClosingIsRegistered'
  BY <1>0, <1>6 DEF CleanupEnvironment
<1>7. ASSUME NEW e \in Env, NEW w \in Watcher,
             CancelWatcher(e, w) \/ CleanupUnref(e, w)
      PROVE  ClosingIsTold' /\ ClosingIsRegistered'
  BY <1>0, <1>7 DEF CancelWatcher, CleanupUnref
<1>8. ASSUME NEW e \in Env, NEW w \in Watcher, CleanupWatcher(e, w)
      PROVE  ClosingIsTold' /\ ClosingIsRegistered'
  BY <1>0, <1>8 DEF CleanupWatcher, OfEnv
<1>9. ASSUME NEW e \in Env, NEW w \in Watcher, NEW c \in Callback,
             CleanupAfterFailure(e, w, c)
      PROVE  ClosingIsTold' /\ ClosingIsRegistered'
  BY <1>0, <1>9 DEF CleanupAfterFailure, EraseCallback
<1>10. ASSUME NEW e \in Env, NEW w \in Watcher, NEW c \in Callback,
              FinishErrorCallback(e, w, c)
       PROVE  ClosingIsTold' /\ ClosingIsRegistered'
  BY <1>0, <1>10 DEF FinishErrorCallback
<1>11. ASSUME NEW S \in SUBSET Watcher, NotifyError(S)
       PROVE  ClosingIsTold' /\ ClosingIsRegistered'
  BY <1>0, <1>11 DEF NotifyError, ErrorCallsTo
<1>11b. ASSUME NEW w \in Watcher, TriggerCallbacks(w)
       PROVE  ClosingIsTold' /\ ClosingIsRegistered'
  BY <1>0, <1>11b DEF TriggerCallbacks
<1>12. CASE UNCHANGED watcherVars
  BY <1>0, <1>12 DEF watcherVars
<1> QED
  BY <1>11b, <1>1, <1>2, <1>3, <1>4, <1>5, <1>6, <1>7, <1>8, <1>9, <1>10, <1>11, <1>12
  DEF WatcherNext

----------------------------------------------------------------------------
LEMMA InvStep == WatcherInv /\ [WatcherNext]_watcherVars => WatcherInv'
  BY TypeStep, ReservedStep, ThreadStep, OnePerKeyStep, UsedStep, ReclaimStep,
     CancelledStep, ClosingStep DEF WatcherInv

(* WatcherInv holds in every state the registry's code can reach. *)
THEOREM Invariance == WatcherSpec => []WatcherInv
<1>1. WatcherInit => WatcherInv
  BY InitInv
<1>2. WatcherInv /\ [WatcherNext]_watcherVars => WatcherInv'
  BY InvStep
<1> QED
  BY <1>1, <1>2, PTL DEF WatcherSpec

(* Type correctness, for any instance: in particular reservations never go  *)
(* below zero, so Watcher::releaseShared never wraps its counter.           *)
THEOREM TypeCorrectness == WatcherSpec => []WatcherTypeOK
<1>1. WatcherInv => WatcherTypeOK
  BY DEF WatcherInv
<1> QED
  BY <1>1, Invariance, PTL

(* Watcher::getShared, unref and releaseShared keep one findable watcher    *)
(* per key for as long as it has a callback or a reservation.               *)
THEOREM RegistrySafety == WatcherSpec => [](OnePerKey /\ UsedIsRegistered)
<1>1. WatcherInv => OnePerKey /\ UsedIsRegistered
  BY DEF WatcherInv
<1> QED
  BY <1>1, Invariance, PTL

(* The same functions never leave an unused watcher behind: whoever ends    *)
(* its last use is on the way to unref.                                     *)
THEOREM RegistryReclaims == WatcherSpec => []UnusedIsReclaimed
<1>1. WatcherInv => UnusedIsReclaimed
  BY DEF WatcherInv
<1> QED
  BY <1>1, Invariance, PTL

(* mCancelled never stops the watcher of an environment that still runs,    *)
(* however unwatch, the exit listener and the cleanup hook of the others    *)
(* interleave with its watch.                                               *)
THEOREM CancellationIsSafe == WatcherSpec => []CancelledIsUnwanted
<1>1. WatcherInv => CancelledIsUnwanted
  BY DEF WatcherInv
<1> QED
  BY <1>1, Invariance, PTL

(* A callback marked closing by notifyError is registered and has its error *)
(* call queued until finishErrorCallback or the cleanup hook erases it.     *)
THEOREM ClosingIsSound == WatcherSpec => [](ClosingIsTold /\ ClosingIsRegistered)
<1>1. WatcherInv => ClosingIsTold /\ ClosingIsRegistered
  BY DEF WatcherInv
<1> QED
  BY <1>1, Invariance, PTL

----------------------------------------------------------------------------
(* What the steps do to the table of subscriptions. *)
LEMMA TableSame ==
  ASSUME WatcherInv, WatcherInv', callbacks' = callbacks,
         \A w \in registry : keyOf'[w] = keyOf[w]
  PROVE  Table' = Table
<1> USE DEF WatcherInv, WatcherTypeOK, UsedIsRegistered
<1>1. \A w \in Watcher : callbacks[w] # {} => w \in registry /\ w \in registry'
  OBVIOUS
<1>2. \A p : p \in Table <=> \E w \in registry : p \in {keyOf[w]} \X callbacks[w]
  BY DEF Table
<1>3. \A p : p \in Table' <=> \E w \in registry' : p \in {keyOf'[w]} \X callbacks'[w]
  BY DEF Table
<1>4. \A p : p \in Table => p \in Table'
  BY <1>1, <1>2, <1>3
<1>5. \A p : p \in Table' => p \in Table
  BY <1>1, <1>2, <1>3
<1> QED
  BY <1>4, <1>5

LEMMA TableErase ==
  ASSUME WatcherInv, NEW w \in Watcher, NEW S,
         callbacks' = [callbacks EXCEPT ![w] = @ \ S],
         registry' = registry, keyOf' = keyOf
  PROVE  \/ callbacks[w] \cap S # {} /\ w \in registry
              /\ Table' = Table \ ({keyOf[w]} \X S)
         \/ callbacks[w] \cap S = {} /\ Table' = Table
<1> USE DEF WatcherInv, WatcherTypeOK, UsedIsRegistered, OnePerKey
<1>1. \A p : p \in Table <=> \E v \in registry : p \in {keyOf[v]} \X callbacks[v]
  BY DEF Table
<1>2. \A p : p \in Table' <=> \E v \in registry : p \in {keyOf[v]} \X callbacks'[v]
  BY DEF Table
<1>3. CASE callbacks[w] \cap S = {}
  <2>1. callbacks' = callbacks
    BY <1>3
  <2> QED
    BY <1>3, <2>1 DEF Table
<1>4. CASE callbacks[w] \cap S # {}
  <2>1. w \in registry
    BY <1>4
  <2>2. \A p : p \in Table' => p \in Table \ ({keyOf[w]} \X S)
    BY <1>1, <1>2, <2>1
  <2>3. \A p : p \in Table \ ({keyOf[w]} \X S) => p \in Table'
    BY <1>1, <1>2, <2>1
  <2> QED
    BY <1>4, <2>1, <2>2, <2>3
<1> QED
  BY <1>3, <1>4

LEMMA TableAdd ==
  ASSUME WatcherInv, NEW w \in registry, NEW c,
         callbacks' = [callbacks EXCEPT ![w] = @ \cup {c}],
         registry' = registry, keyOf' = keyOf
  PROVE  Table' = Table \cup {<<keyOf[w], c>>}
<1> USE DEF WatcherInv, WatcherTypeOK
<1>1. \A p : p \in Table <=> \E v \in registry : p \in {keyOf[v]} \X callbacks[v]
  BY DEF Table
<1>2. \A p : p \in Table' <=> \E v \in registry : p \in {keyOf[v]} \X callbacks'[v]
  BY DEF Table
<1>3. \A p : p \in Table' => p \in Table \cup {<<keyOf[w], c>>}
  BY <1>1, <1>2
<1>4. \A p : p \in Table \cup {<<keyOf[w], c>>} => p \in Table'
  BY <1>1, <1>2
<1> QED
  BY <1>3, <1>4
----------------------------------------------------------------------------
(* Every step is a step of the table, or leaves the table alone.            *)
LEMMA RefinementStep ==
  ASSUME WatcherInv, WatcherInv', [WatcherNext]_watcherVars
  PROVE  [SubscriptionTable!TableNext]_(SubscriptionTable!tableVars)
<1> DEFINE Goal == [SubscriptionTable!TableNext]_(SubscriptionTable!tableVars)
<1> USE DEF objectVars, exitVars, threadVars
<1>0. WatcherTypeOK /\ ThreadOK /\ UsedIsRegistered
  BY DEF WatcherInv
<1>a. ASSUME Table' = Table, UNCHANGED <<request, shouldUnwatch>> PROVE Goal
  BY <1>a DEF SubscriptionTable!tableVars
<1>b. ASSUME NEW e \in Env, Table' = Table, Return(e) PROVE Goal
  BY <1>b DEF Return, SubscriptionTable!TableNext, SubscriptionTable!Return,
              SubscriptionTable!NoRequest, NoRequest
<1>c. ASSUME NEW e \in Env, NEW p \in Table, EnvOf[p[2]] = e,
             Table' = Table \ {p}, UNCHANGED <<request, shouldUnwatch>>
      PROVE  Goal
  BY <1>c DEF SubscriptionTable!TableNext, SubscriptionTable!Drop
<1>1. ASSUME NEW e \in Env, NEW r \in Request(e), NEW w \in Watcher,
             GetShared(e, r, w)
      PROVE  Goal
  <2>1. \A v \in registry : keyOf'[v] = keyOf[v]
    BY <1>0, <1>1 DEF GetShared, Reserve, GetSharedFound, GetSharedNew, Referenced, WatcherTypeOK
  <2>2. Table' = Table
    BY <1>1, <2>1, TableSame DEF GetShared, Reserve
  <2>3. SubscriptionTable!MakeCall(e)
    BY <1>1, <2>2
    DEF GetShared, Reserve, SubscriptionTable!MakeCall, SubscriptionTable!Request, Request
  <2> QED
    BY <2>3 DEF SubscriptionTable!TableNext
<1>2. ASSUME NEW e \in Env, Watch(e) PROVE Goal
  <2>1. /\ at[e] \in registry /\ keyOf[at[e]] = request[e].key
    BY <1>0, <1>2, HeldIsReserved DEF Watch, Holding, ThreadOK
  <2>2. Table' = Table \cup {<<request[e].key, request[e].cb>>}
    <3>1. /\ registry' = registry /\ keyOf' = keyOf
          /\ callbacks' = [callbacks EXCEPT ![at[e]] = @ \cup {request[e].cb}]
      BY <1>2 DEF Watch
    <3> QED
      BY ONLY WatcherInv, <2>1, <3>1, TableAdd
  <2>3. request[e].op = "subscribe" /\ UNCHANGED <<request, shouldUnwatch>>
    BY <1>2 DEF Watch
  <2>4. SubscriptionTable!Subscribe(e)
    BY ONLY <2>2, <2>3 DEF SubscriptionTable!Subscribe, SubscriptionTable!PairOf
  <2> QED
    BY <2>4 DEF SubscriptionTable!TableNext
<1>3. ASSUME NEW e \in Env, WatchFails(e) PROVE Goal
  BY <1>3, <1>a, TableSame DEF WatchFails
<1>4. ASSUME NEW e \in Env, Unwatch(e) PROVE Goal
  <2> DEFINE w == at[e]
             c == request[e].cb
  <2>1. /\ w \in registry /\ w \in Watcher /\ keyOf[w] = request[e].key
    BY <1>0, <1>4, HeldIsReserved DEF Unwatch, Holding, ThreadOK
  <2>2. /\ callbacks' = [callbacks EXCEPT ![w] = @ \ {c}]
        /\ registry' = registry /\ keyOf' = keyOf
    BY <1>4 DEF Unwatch, EraseCallback
  <2>3. Table' = Table \ {<<keyOf[w], c>>}
    <3>1. c \notin callbacks[w] => <<keyOf[w], c>> \notin Table
      BY <2>1 DEF Table, WatcherInv, OnePerKey
    <3>2. {keyOf[w]} \X {c} = {<<keyOf[w], c>>}
      OBVIOUS
    <3> HIDE DEF w, c
    <3> QED
      BY <2>1, <2>2, <3>1, <3>2, TableErase
  <2>4. <<keyOf[w], c>> \in Table <=> c \in callbacks[w]
    BY <2>1 DEF Table, WatcherInv, OnePerKey
  <2>5. (\A p \in Table' : p[1] # keyOf[w]) <=> callbacks[w] \ {c} = {}
    <3>1. \A p : p \in Table' <=>
                   \E v \in registry : p \in {keyOf[v]} \X callbacks'[v]
      BY <2>2 DEF Table
    <3>2. callbacks'[w] = callbacks[w] \ {c}
      BY <1>0, <2>1, <2>2 DEF WatcherTypeOK
    <3>3. \A v \in registry : keyOf[v] = keyOf[w] => v = w
      BY <2>1 DEF WatcherInv, OnePerKey
    <3>4. ASSUME NEW d \in callbacks'[w] PROVE <<keyOf[w], d>> \in Table'
      BY <2>1, <3>1
    <3>5. ASSUME callbacks'[w] = {}, NEW p \in Table' PROVE p[1] # keyOf[w]
      BY <3>1, <3>3, <3>5
    <3> QED
      BY <3>2, <3>4, <3>5
  <2>6. Emptied(w, c) <=> /\ <<keyOf[w], c>> \in Table
                          /\ \A p \in Table' : p[1] # keyOf[w]
    BY <2>4, <2>5 DEF Emptied
  <2> DEFINE last == /\ <<keyOf[w], c>> \in Table
                     /\ \A p \in Table' : p[1] # keyOf[w]
  <2>7. Emptied(w, c) = last
    <3>1. CASE Emptied(w, c)
      BY <2>6, <3>1, Zenon DEF Emptied
    <3>2. CASE ~Emptied(w, c)
      BY <2>6, <3>2, Zenon DEF Emptied
    <3> QED
      BY <3>1, <3>2
  <2>8. shouldUnwatch' = [shouldUnwatch EXCEPT ![e] = last]
    BY <1>4, <2>7, Zenon DEF Unwatch
  <2>9. SubscriptionTable!Unsubscribe(e)
    BY <1>4, <2>1, <2>3, <2>8, Zenon
    DEF Unwatch, SubscriptionTable!Unsubscribe, SubscriptionTable!PairOf
  <2> QED
    BY <2>9 DEF SubscriptionTable!TableNext
<1>5. ASSUME NEW e \in Env, UnwatchUnref(e) PROVE Goal
  BY <1>5, <1>a, TableSame DEF UnwatchUnref
<1>6. ASSUME NEW e \in Env, ReleaseShared(e) PROVE Goal
  <2>1. Table' = Table
    BY <1>6, TableSame DEF ReleaseShared
  <2> QED
    BY <1>6, <1>a, <1>b, <2>1 DEF ReleaseShared
<1>7. ASSUME NEW e \in Env, Unref(e) PROVE Goal
  BY <1>7, <1>b, TableSame DEF Unref
<1>8. ASSUME NEW e \in Env,
             CancelEnvironment(e) \/ CancelDone(e) \/ CleanupEnvironment(e)
      PROVE  Goal
  BY <1>8, <1>a, TableSame DEF CancelEnvironment, CancelDone, CleanupEnvironment
<1>9. ASSUME NEW e \in Env, NEW w \in Watcher,
             CancelWatcher(e, w) \/ CleanupUnref(e, w)
      PROVE  Goal
  BY <1>9, <1>a, TableSame DEF CancelWatcher, CleanupUnref
<1>10. ASSUME NEW e \in Env, NEW w \in Watcher, CleanupWatcher(e, w) PROVE Goal
  <2>1. /\ callbacks' = [callbacks EXCEPT ![w] = @ \ OfEnv(e, w)]
        /\ UNCHANGED <<registry, keyOf, request, shouldUnwatch>>
    BY <1>10 DEF CleanupWatcher
  <2>2. CASE Table' = Table
    BY <1>a, <2>1, <2>2
  <2>3. CASE w \in registry /\ Table' = Table \ ({keyOf[w]} \X OfEnv(e, w))
    <3>1. keyOf[w] \in Key
      BY <2>3 DEF WatcherInv, RegisteredHasKey
    <3>2. \A p \in Table : p \in {keyOf[w]} \X OfEnv(e, w)
                             <=> p[1] = keyOf[w] /\ EnvOf[p[2]] = e
      BY <2>3 DEF Table, OfEnv, WatcherInv, OnePerKey
    <3>3. Table' = {p \in Table : ~(p[1] = keyOf[w] /\ EnvOf[p[2]] = e)}
      BY <2>3, <3>2
    <3>4. SubscriptionTable!Leave(e)
      BY <2>1, <3>1, <3>3 DEF SubscriptionTable!Leave
    <3> QED
      BY <3>4 DEF SubscriptionTable!TableNext
  <2> QED
    BY <2>1, <2>2, <2>3, TableErase
<1>11. ASSUME NEW e \in Env, NEW w \in Watcher, NEW c \in Callback, EnvOf[c] = e,
              NEW S \in SUBSET {c},
              callbacks' = [callbacks EXCEPT ![w] = @ \ S],
              UNCHANGED <<registry, keyOf, request, shouldUnwatch>>
       PROVE  Goal
  <2>1. CASE Table' = Table
    BY <1>11, <1>a, <2>1
  <2>2. CASE /\ callbacks[w] \cap S # {} /\ w \in registry
             /\ Table' = Table \ ({keyOf[w]} \X S)
    <3>1. S = {c} /\ <<keyOf[w], c>> \in Table
      BY <2>2 DEF Table
    <3>2. Table' = Table \ {<<keyOf[w], c>>}
      BY <2>2, <3>1
    <3> QED
      BY <1>11, <1>c, <3>1, <3>2
  <2> QED
    BY <1>11, <2>1, <2>2, TableErase
<1>12. ASSUME NEW e \in Env, NEW w \in Watcher, NEW c \in Callback,
              CleanupAfterFailure(e, w, c)
       PROVE  Goal
  BY <1>11, <1>12 DEF CleanupAfterFailure, EraseCallback
<1>13. ASSUME NEW e \in Env, NEW w \in Watcher, NEW c \in Callback,
              FinishErrorCallback(e, w, c)
       PROVE  Goal
  <2>1. closing[w] \cap {c} \in SUBSET {c}
    OBVIOUS
  <2>2. /\ EnvOf[c] = e /\ UNCHANGED <<registry, keyOf, request, shouldUnwatch>>
        /\ callbacks' = [callbacks EXCEPT ![w] = @ \ (closing[w] \cap {c})]
    BY <1>13 DEF FinishErrorCallback
  <2> QED
    BY <1>11, <2>1, <2>2
<1>14. ASSUME NEW S \in SUBSET Watcher, NotifyError(S) PROVE Goal
  BY <1>14, <1>a, TableSame DEF NotifyError, ErrorCallsTo
<1>14b. ASSUME NEW w \in Watcher, TriggerCallbacks(w) PROVE Goal
  BY <1>14b, <1>a, TableSame DEF TriggerCallbacks
<1>15. CASE UNCHANGED watcherVars
  BY <1>15, <1>a, TableSame DEF watcherVars
<1> QED
  BY <1>14b, <1>1, <1>2, <1>3, <1>4, <1>5, <1>6, <1>7, <1>8, <1>9, <1>10, <1>12, <1>13,
     <1>14, <1>15 DEF WatcherNext

(* The registry with its reservations and its racing unrefs behaves like a  *)
(* table of (key, callback) pairs: subscribe adds its own pair, unsubscribe *)
(* removes its own and is told exactly when it was the last of its key.     *)
THEOREM Refinement == WatcherSpec => ImplementsTable
<1>1. WatcherInit => SubscriptionTable!TableInit
  BY DEF WatcherInit, Table, SubscriptionTable!TableInit, NoRequest,
     SubscriptionTable!NoRequest
<1>2. WatcherInv /\ WatcherInv' /\ [WatcherNext]_watcherVars
        => [SubscriptionTable!TableNext]_(SubscriptionTable!tableVars)
  BY RefinementStep
<1> QED
  BY <1>1, <1>2, Invariance, PTL
  DEF WatcherSpec, ImplementsTable, SubscriptionTable!TableSpec
=============================================================================
