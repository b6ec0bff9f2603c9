---------------------------- MODULE Backends_proofs ----------------------------
(* Theorems about Backends, for any sets of backends, names and subjects    *)
(* and any finite set of threads.                                           *)
EXTENDS Backends, FiniteSetTheorems, TLAPS

(* A call holds its reservation from getShared to releaseShared, and works  *)
(* on the backend it has reserved; who has no reservation can only unwatch. *)
Inside == {"held", "watch", "watchBlocked", "scan", "finish", "watchUnref"}
Unwatching == {"unwatch", "unwatchBlocked", "detach", "unwatchUnref"}
Subscribing == {"scan", "finish"}
Creating == {"start", "emplace"}

PlacesOK ==
  \A t \in Thread :
    /\ on[t] = NoBackend <=> where[t] \in {"out", "find"}
    /\ where[t] \in Inside => reserving[t]
    /\ where[t] \notin Inside \cup Unwatching => ~reserving[t]
    /\ where[t] \in (Inside \cup Unwatching) \ {"held"} => subject[t] \in Subject

(* mSharedReservations counts the threads that hold one. *)
BackendHolders(b) == {t \in Thread : reserving[t] /\ on[t] = b}
ReservationsAreHeld == \A b \in Backend : reservations[b] = Cardinality(BackendHolders(b))

(* The threads that subscribe and the pending subscriptions are the same. *)
SubscribingIsPending ==
  \A t \in Thread : where[t] \in Subscribing => subject[t] \in pending[on[t]]
PendingHasThread ==
  \A b \in Backend, s \in Subject : s \in pending[b] =>
    \E t \in Thread : where[t] \in Subscribing /\ on[t] = b /\ subject[t] = s
OneSubscribes ==
  \A t, u \in Thread :
    /\ where[t] \in Subscribing /\ where[u] \in Subscribing
    /\ on[t] = on[u] /\ subject[t] = subject[u]
    => t = u

(* What is rebuilt stays subscribed meanwhile. *)
RebuiltIsSubscribed ==
  \A t \in Thread :
    where[t] \in Subscribing /\ ~wasNew[t] => subject[t] \in subscriptions[on[t]]

(* Nobody but its creator uses a backend that is not registered yet; others *)
(* may ask it to unwatch what it does not watch.                            *)
CreatorsAreAlone ==
  \A t \in Thread : where[t] \in Creating =>
    /\ ~Registered(on[t])
    /\ subscriptions[on[t]] = {}
    /\ where[t] = "start" => phase[on[t]] = "starting"
    /\ where[t] = "emplace" => phase[on[t]] \notin {"free", "starting", "stopped"}
    /\ \A u \in Thread \ {t} : on[u] = on[t] =>
         where[t] = "emplace" /\ where[u] = "unwatch" /\ ~reserving[u]

(* What is registered was started, and not stopped. *)
RegisteredIsStarted ==
  \A b \in Backend : Registered(b) => phase[b] \notin {"free", "starting", "stopped"}

StoppedIsUnused == \A b \in Backend : phase[b] = "stopped" => ~BackendInUse(b)

(* A thread that ended before its backend was registered subscribes nothing. *)
EndedScansNothing ==
  \A b \in Backend : phase[b] = "retired" /\ Registered(b) =>
    \A t \in Thread : on[t] = b => where[t] # "finish"

BackendInv ==
  /\ BackendTypeOK
  /\ PlacesOK
  /\ ReservationsAreHeld
  /\ SubscribingIsPending /\ PendingHasThread /\ OneSubscribes
  /\ NoLostWakeup
  /\ RebuiltIsSubscribed /\ InvalidIsSubscribed
  /\ CreatorsAreAlone
  /\ RegisteredIsStarted /\ StoppedIsUnused /\ RunningIsKnown
  /\ EndedIsReplaceable /\ EndedScansNothing
  /\ UnusedIsStopped

----------------------------------------------------------------------------
(* Before the first call nothing is registered, reserved or subscribed.     *)
LEMMA BackendInitInv == BackendInit => BackendInv
<1> SUFFICES ASSUME BackendInit PROVE BackendInv
  OBVIOUS
<1> USE DEF BackendInit
<1>1. BackendTypeOK
  BY KnownAssumption DEF BackendTypeOK, Phase, Where
<1>2. PlacesOK
  BY DEF PlacesOK, Inside, Unwatching
<1>3. ReservationsAreHeld
  <2> SUFFICES ASSUME NEW b \in Backend PROVE Cardinality(BackendHolders(b)) = 0
    BY DEF ReservationsAreHeld
  <2>1. BackendHolders(b) = {}
    BY DEF BackendHolders
  <2> QED
    BY <2>1, FS_EmptySet
<1>4. SubscribingIsPending /\ PendingHasThread /\ OneSubscribes /\ NoLostWakeup
  BY DEF SubscribingIsPending, PendingHasThread, OneSubscribes, NoLostWakeup, Subscribing
<1>5. RebuiltIsSubscribed /\ InvalidIsSubscribed /\ CreatorsAreAlone
  BY DEF RebuiltIsSubscribed, InvalidIsSubscribed, CreatorsAreAlone, Subscribing, Creating
<1>6. ~\E b \in Backend : Registered(b)
  BY NoBackendAssumption DEF Registered
<1>7. RegisteredIsStarted /\ EndedIsReplaceable /\ EndedScansNothing /\ UnusedIsStopped
  BY <1>6 DEF RegisteredIsStarted, EndedIsReplaceable, EndedScansNothing, UnusedIsStopped
<1>8. StoppedIsUnused /\ RunningIsKnown
  BY DEF StoppedIsUnused, RunningIsKnown
<1> QED
  BY <1>1, <1>2, <1>3, <1>4, <1>5, <1>7, <1>8 DEF BackendInv

----------------------------------------------------------------------------
(* Finitely many threads hold reservations.                                 *)
LEMMA BackendHoldersFinite == ASSUME NEW b PROVE IsFiniteSet(BackendHolders(b))
  BY ThreadAssumption, FS_Subset DEF BackendHolders

(* Who holds a reservation is counted. *)
LEMMA BackendIsHeld ==
  ASSUME BackendInv, NEW t \in Thread, reserving[t]
  PROVE  on[t] \in Backend /\ reservations[on[t]] > 0
<1>1. on[t] \in Backend
  BY DEF BackendInv, BackendTypeOK, PlacesOK, Inside, Unwatching
<1>2. t \in BackendHolders(on[t])
  BY DEF BackendHolders
<1>3. Cardinality(BackendHolders(on[t])) # 0
  BY <1>2, BackendHoldersFinite, FS_EmptySet
<1> QED
  BY <1>1, <1>3 DEF BackendInv, ReservationsAreHeld, BackendTypeOK

(* Every step keeps the types: releaseShared takes back only what getShared *)
(* has counted.                                                             *)
LEMMA BackendTypeStep == BackendInv /\ [BackendNext]_backendVars => BackendTypeOK'
<1> SUFFICES ASSUME BackendInv, [BackendNext]_backendVars PROVE BackendTypeOK'
  OBVIOUS
<1> USE DEF BackendTypeOK, Where, Phase, Goto, registryVars, subscriptionVars, localVars
<1>0. BackendTypeOK /\ PlacesOK
  BY DEF BackendInv
<1>1. ASSUME NEW t \in Thread, NEW n \in Name, GetBackend(t, n) PROVE BackendTypeOK'
  BY <1>0, <1>1 DEF GetBackend
<1>2. ASSUME NEW t \in Thread, FindBackend(t) PROVE BackendTypeOK'
  BY <1>0, <1>2, KnownAssumption DEF FindBackend, Reserved
<1>3. ASSUME NEW t \in Thread, FindDefault(t) PROVE BackendTypeOK'
  BY <1>0, <1>3, KnownAssumption DEF FindDefault
<1>4. ASSUME NEW t \in Thread, NEW b \in Backend, CreateBackend(t, b) PROVE BackendTypeOK'
  BY <1>0, <1>4 DEF CreateBackend
<1>5. ASSUME NEW t \in Thread, StartBackend(t) PROVE BackendTypeOK'
  BY <1>0, <1>5 DEF StartBackend
<1>6. ASSUME NEW t \in Thread, StartFails(t) PROVE BackendTypeOK'
  BY <1>0, <1>6, KnownAssumption DEF StartFails
<1>7. ASSUME NEW t \in Thread, EmplaceBackend(t) PROVE BackendTypeOK'
  BY <1>0, <1>7, KnownAssumption DEF EmplaceBackend, Reserved, Stop, PlacesOK
<1>8. ASSUME NEW t \in Thread, ReleaseBackend(t) PROVE BackendTypeOK'
  <2>1. on[t] \in Backend /\ reservations[on[t]] > 0
    BY <1>0, <1>8, BackendIsHeld DEF ReleaseBackend, PlacesOK, Inside
  <2>2. reservations' \in [Backend -> Nat]
    BY <1>0, <1>8, <2>1 DEF ReleaseBackend
  <2>3. where' \in [Thread -> Where] /\ on' \in [Thread -> Backend \cup {NoBackend}]
    BY <1>0, <1>8 DEF ReleaseBackend
  <2> QED
    BY <1>0, <1>8, <2>2, <2>3 DEF ReleaseBackend
<1>9. ASSUME NEW t \in Thread, LastUnref(t) PROVE BackendTypeOK'
  BY <1>0, <1>9 DEF LastUnref, StopIfUnused, Stop
<1>10. ASSUME NEW t \in Thread, NEW s \in Subject, CallWatch(t, s) \/ CallUnwatch(t, s)
       PROVE  BackendTypeOK'
  <2>1. CASE CallWatch(t, s)
    BY <1>0, <2>1 DEF CallWatch
  <2>2. CASE CallUnwatch(t, s)
    BY <1>0, <2>2 DEF CallUnwatch
  <2> QED
    BY <1>10, <2>1, <2>2
<1>10b. ASSUME NEW t \in Thread, NEW s \in Subject, NEW b \in Backend, CallUnwatchOn(t, b, s)
        PROVE  BackendTypeOK'
  BY <1>0, <1>10b DEF CallUnwatchOn
<1>11. ASSUME NEW t \in Thread, WatchWaits(t) \/ UnwatchWaits(t) \/ DetachWatcher(t)
       PROVE  BackendTypeOK'
  BY <1>0, <1>11 DEF WatchWaits, UnwatchWaits, DetachWatcher
<1>12. ASSUME NEW t \in Thread, NEW isCancelled \in BOOLEAN,
              WatchCancelled(t, isCancelled) \/ WatchSubscribed(t, isCancelled)
       PROVE  BackendTypeOK'
  BY <1>0, <1>12 DEF WatchCancelled, WatchSubscribed
<1>13. ASSUME NEW t \in Thread, NEW isCancelled \in BOOLEAN, WatchScans(t, isCancelled)
       PROVE  BackendTypeOK'
  BY <1>0, <1>13 DEF WatchScans, Locked, PlacesOK, Inside, Unwatching
<1>14. ASSUME NEW t \in Thread, ScanCompletes(t) \/ ScanCancelled(t) \/ ScanTruncated(t)
       PROVE  BackendTypeOK'
  <2>1. on[t] \in Backend /\ subject[t] \in Subject
    BY <1>0, <1>14 DEF ScanCompletes, ScanCancelled, ScanTruncated, PlacesOK, Inside,
      Unwatching
  <2>2. /\ installed' \in [Backend -> SUBSET Subject]
        /\ mutex' \in [Backend -> Thread \cup {NoThread}]
        /\ where' \in [Thread -> Where]
    BY <1>0, <1>14, <2>1 DEF ScanCompletes, ScanCancelled, ScanTruncated
  <2>3. needsResubscribe' \in [Subject -> BOOLEAN]
    BY <1>0, <1>14, Zenon DEF ScanCompletes, ScanCancelled, ScanTruncated
  <2>4. UNCHANGED <<registryVars, subscriptions, pending, invalid, localVars>>
    BY <1>14 DEF ScanCompletes, ScanCancelled, ScanTruncated
  <2> QED
    BY <1>0, <2>2, <2>3, <2>4
<1>15. ASSUME NEW t \in Thread, ScanFails(t) \/ FinishFails(t) PROVE BackendTypeOK'
  <2>1. on[t] \in Backend /\ subject[t] \in Subject
    BY <1>0, <1>15 DEF ScanFails, FinishFails, Locked, PlacesOK, Inside, Unwatching
  <2>2. AbandonWatch(t)
    BY <1>15 DEF ScanFails, FinishFails
  <2>3. /\ installed' \in [Backend -> SUBSET Subject]
        /\ pending' \in [Backend -> SUBSET Subject]
        /\ invalid' \in [Backend -> SUBSET Subject]
        /\ mutex' \in [Backend -> Thread \cup {NoThread}]
    BY <1>0, <2>1, <2>2 DEF AbandonWatch
  <2>4. where' \in [Thread -> Where]
    BY <1>0, <2>2 DEF AbandonWatch, WakeAndGoto
  <2>5. threw' \in [Thread -> BOOLEAN] /\ wasNew' \in [Thread -> BOOLEAN]
    BY <1>0, <2>2, Zenon DEF AbandonWatch
  <2>6. UNCHANGED <<registryVars, subscriptions, needsResubscribe, on, name, subject,
                   reserving>>
    BY <2>2 DEF AbandonWatch
  <2> QED
    BY <1>0, <2>3, <2>4, <2>5, <2>6
<1>16. ASSUME NEW t \in Thread, FinishWatch(t) PROVE BackendTypeOK'
  BY <1>0, <1>16 DEF FinishWatch, WakeAndGoto, Locked, PlacesOK, Inside, Unwatching
<1>17. ASSUME NEW t \in Thread, WatchUnref(t) PROVE BackendTypeOK'
  BY <1>0, <1>17 DEF WatchUnref, StopIfUnused, Stop
<1>18. ASSUME NEW t \in Thread, NEW isWanted \in BOOLEAN, UnwatchKeeps(t, isWanted)
       PROVE  BackendTypeOK'
  BY <1>0, <1>18 DEF UnwatchKeeps, Back
<1>19. ASSUME NEW t \in Thread, NEW isWanted \in BOOLEAN, UnwatchRemoves(t, isWanted)
       PROVE  BackendTypeOK'
  BY <1>0, <1>19 DEF UnwatchRemoves
<1>20. ASSUME NEW t \in Thread, NEW isWanted \in BOOLEAN, UnwatchThrows(t, isWanted)
       PROVE  BackendTypeOK'
  <2>1. /\ where' \in [Thread -> Where]
        /\ on' \in [Thread -> Backend \cup {NoBackend}]
        /\ subject' \in [Thread -> Subject \cup {NoSubject}]
    BY <1>0, <1>20 DEF UnwatchThrows, Back
  <2>2. installed' \in [Backend -> SUBSET Subject]
    BY <1>0, <1>20 DEF UnwatchThrows
  <2>3. threw' \in [Thread -> BOOLEAN]
    BY <1>0, <1>20, Zenon DEF UnwatchThrows
  <2> QED
    BY <1>0, <1>20, <2>1, <2>2, <2>3 DEF UnwatchThrows
<1>21. ASSUME NEW t \in Thread, UnwatchUnrefs(t) PROVE BackendTypeOK'
  <2>1. /\ phase' \in [Backend -> Phase]
        /\ shared' \in [Name -> Backend \cup {NoBackend}]
    BY <1>0, <1>21 DEF UnwatchUnrefs, StopIfUnused, Stop
  <2>2. /\ where' \in [Thread -> Where]
        /\ on' \in [Thread -> Backend \cup {NoBackend}]
        /\ subject' \in [Thread -> Subject \cup {NoSubject}]
    BY <1>0, <1>21 DEF UnwatchUnrefs, Back
  <2> QED
    BY <1>0, <1>21, <2>1, <2>2 DEF UnwatchUnrefs
<1>22. ASSUME NEW b \in Backend, NEW S \in SUBSET Subject, Invalidate(b, S)
       PROVE  BackendTypeOK'
  BY <1>0, <1>22 DEF Invalidate, Invalidated
<1>23. ASSUME NEW b \in Backend, BackendFails(b) \/ HandleError(b) \/ RemoveShared(b)
       PROVE  BackendTypeOK'
  BY <1>0, <1>23 DEF BackendFails, HandleError, RemoveShared
<1>24. ASSUME NEW s \in Subject, NewSubject(s) PROVE BackendTypeOK'
  BY <1>0, <1>24 DEF NewSubject
<1>25. CASE UNCHANGED backendVars
  BY <1>0, <1>25 DEF backendVars
<1> QED
  BY <1>1, <1>2, <1>3, <1>4, <1>5, <1>6, <1>7, <1>8, <1>9, <1>10, <1>10b, <1>11, <1>12, <1>13,
     <1>14, <1>15, <1>16, <1>17, <1>18, <1>19, <1>20, <1>21, <1>22, <1>23, <1>24, <1>25
  DEF BackendNext, CallerStep, BackendStep
----------------------------------------------------------------------------
(* A call works on the backend it has reserved from getShared to            *)
(* releaseShared.                                                           *)
LEMMA PlacesStep == BackendInv /\ [BackendNext]_backendVars => PlacesOK'
<1> SUFFICES ASSUME BackendInv, [BackendNext]_backendVars PROVE PlacesOK'
  OBVIOUS
<1> USE DEF PlacesOK, BackendTypeOK, Inside, Unwatching, registryVars, subscriptionVars,
  localVars
<1>0. BackendTypeOK /\ PlacesOK
  BY DEF BackendInv
<1>1. ASSUME NEW t \in Thread, NEW n \in Name, GetBackend(t, n) PROVE PlacesOK'
  BY <1>0, <1>1 DEF GetBackend, Goto
<1>2. ASSUME NEW t \in Thread, FindDefault(t) PROVE PlacesOK'
  BY <1>0, <1>2 DEF FindDefault
<1>3. ASSUME NEW t \in Thread, FindBackend(t) PROVE PlacesOK'
  BY <1>0, <1>3 DEF FindBackend, Reserved, Goto
<1>4. ASSUME NEW t \in Thread, NEW b \in Backend, CreateBackend(t, b) PROVE PlacesOK'
  BY <1>0, <1>4 DEF CreateBackend, Unreferenced, Goto
<1>5. ASSUME NEW t \in Thread, StartBackend(t) PROVE PlacesOK'
  BY <1>0, <1>5 DEF StartBackend, Goto
<1>6. ASSUME NEW t \in Thread, StartFails(t) PROVE PlacesOK'
  BY <1>0, <1>6 DEF StartFails, Goto
<1>7. ASSUME NEW t \in Thread, EmplaceBackend(t) PROVE PlacesOK'
  BY <1>0, <1>7 DEF EmplaceBackend, Reserved, Stop, Goto
<1>8. ASSUME NEW t \in Thread, ReleaseBackend(t) PROVE PlacesOK'
  BY <1>0, <1>8 DEF ReleaseBackend, Goto
<1>9. ASSUME NEW t \in Thread, LastUnref(t) PROVE PlacesOK'
  BY <1>0, <1>9 DEF LastUnref, StopIfUnused, Stop, Goto
<1>10. ASSUME NEW t \in Thread, NEW s \in Subject, CallWatch(t, s) \/ CallUnwatch(t, s)
       PROVE  PlacesOK'
  BY <1>0, <1>10 DEF CallWatch, CallUnwatch, Goto
<1>11. ASSUME NEW t \in Thread, NEW s \in Subject, NEW b \in Backend, CallUnwatchOn(t, b, s)
       PROVE  PlacesOK'
  BY <1>0, <1>11, NoBackendAssumption DEF CallUnwatchOn, Goto
<1>12. ASSUME NEW t \in Thread, WatchWaits(t) \/ UnwatchWaits(t) \/ DetachWatcher(t)
       PROVE  PlacesOK'
  BY <1>0, <1>12 DEF WatchWaits, UnwatchWaits, DetachWatcher, Locked, IsPending, Goto
<1>13. ASSUME NEW t \in Thread, NEW isCancelled \in BOOLEAN,
              WatchCancelled(t, isCancelled) \/ WatchSubscribed(t, isCancelled)
       PROVE  PlacesOK'
  BY <1>0, <1>13 DEF WatchCancelled, WatchSubscribed, Locked, Goto
<1>14. ASSUME NEW t \in Thread, NEW isCancelled \in BOOLEAN, WatchScans(t, isCancelled)
       PROVE  PlacesOK'
  BY <1>0, <1>14 DEF WatchScans, Locked, IsPending, Goto
<1>15. ASSUME NEW t \in Thread, ScanCompletes(t) \/ ScanCancelled(t) \/ ScanTruncated(t)
       PROVE  PlacesOK'
  BY <1>0, <1>15 DEF ScanCompletes, ScanCancelled, ScanTruncated, Watching, Goto
<1>16. ASSUME NEW t \in Thread, ScanFails(t) \/ FinishFails(t) PROVE PlacesOK'
  BY <1>0, <1>16 DEF ScanFails, FinishFails, AbandonWatch, WakeAndGoto, Locked
<1>17. ASSUME NEW t \in Thread, FinishWatch(t) PROVE PlacesOK'
  BY <1>0, <1>17 DEF FinishWatch, WakeAndGoto, Locked
<1>18. ASSUME NEW t \in Thread, WatchUnref(t) PROVE PlacesOK'
  BY <1>0, <1>18 DEF WatchUnref, StopIfUnused, Stop, Goto
<1>19. ASSUME NEW t \in Thread, NEW isWanted \in BOOLEAN, UnwatchKeeps(t, isWanted)
       PROVE  PlacesOK'
  BY <1>0, <1>19 DEF UnwatchKeeps, Back, Locked, Goto
<1>20. ASSUME NEW t \in Thread, NEW isWanted \in BOOLEAN, UnwatchRemoves(t, isWanted)
       PROVE  PlacesOK'
  BY <1>0, <1>20 DEF UnwatchRemoves, Locked, IsPending, Goto
<1>21. ASSUME NEW t \in Thread, NEW isWanted \in BOOLEAN, UnwatchThrows(t, isWanted)
       PROVE  PlacesOK'
  BY <1>0, <1>21 DEF UnwatchThrows, Back, Locked, IsPending, Goto
<1>22. ASSUME NEW t \in Thread, UnwatchUnrefs(t) PROVE PlacesOK'
  BY <1>0, <1>22 DEF UnwatchUnrefs, StopIfUnused, Stop, Back, Goto
<1>23. ASSUME NEW b \in Backend, NEW S \in SUBSET Subject, Invalidate(b, S) PROVE PlacesOK'
  BY <1>0, <1>23 DEF Invalidate, Invalidated
<1>24. ASSUME NEW b \in Backend, BackendFails(b) \/ HandleError(b) PROVE PlacesOK'
  BY <1>0, <1>24 DEF BackendFails, HandleError
<1>25. ASSUME NEW b \in Backend, RemoveShared(b) PROVE PlacesOK'
  BY <1>0, <1>25 DEF RemoveShared
<1>26. ASSUME NEW s \in Subject, NewSubject(s) PROVE PlacesOK'
  BY <1>0, <1>26 DEF NewSubject
<1>27. CASE UNCHANGED backendVars
  BY <1>0, <1>27 DEF backendVars
<1> QED
  BY <1>1, <1>2, <1>3, <1>4, <1>5, <1>6, <1>7, <1>8, <1>9, <1>10, <1>11, <1>12, <1>13,
    <1>14, <1>15, <1>16, <1>17, <1>18, <1>19, <1>20, <1>21, <1>22, <1>23, <1>24, <1>25,
    <1>26, <1>27
  DEF BackendNext, CallerStep, BackendStep

----------------------------------------------------------------------------
(* As long as nobody takes or gives back a reservation the count is right. *)
LEMMA SameBackendHolders ==
  ASSUME ReservationsAreHeld, reservations' = reservations,
         \A u \in Thread, b \in Backend :
           reserving'[u] /\ on'[u] = b <=> reserving[u] /\ on[u] = b
  PROVE  ReservationsAreHeld'
<1> SUFFICES ASSUME NEW b \in Backend PROVE reservations'[b] = Cardinality(BackendHolders(b)')
  BY DEF ReservationsAreHeld
<1>1. BackendHolders(b)' = BackendHolders(b)
  BY DEF BackendHolders
<1> QED
  BY <1>1 DEF ReservationsAreHeld

(* getShared counts the thread that did not hold a reservation. *)
LEMMA OneMore ==
  ASSUME BackendTypeOK, ReservationsAreHeld, NEW t \in Thread, NEW b \in Backend,
         ~reserving[t], reservations' = Reserved(b),
         reserving' = [reserving EXCEPT ![t] = TRUE], on' = [on EXCEPT ![t] = b]
  PROVE  ReservationsAreHeld'
<1> SUFFICES ASSUME NEW c \in Backend PROVE reservations'[c] = Cardinality(BackendHolders(c)')
  BY DEF ReservationsAreHeld
<1>0. reservations[c] = Cardinality(BackendHolders(c)) /\ reservations[c] \in Nat
  BY DEF ReservationsAreHeld, BackendTypeOK
<1>1. CASE c = b
  <2>1. BackendHolders(c)' = BackendHolders(c) \cup {t} /\ t \notin BackendHolders(c)
    BY <1>1 DEF BackendHolders, BackendTypeOK
  <2>2. Cardinality(BackendHolders(c)') = Cardinality(BackendHolders(c)) + 1
    BY <2>1, BackendHoldersFinite, FS_AddElement
  <2> QED
    BY <1>0, <1>1, <2>2 DEF Reserved, BackendTypeOK
<1>2. CASE c # b
  <2>1. BackendHolders(c)' = BackendHolders(c)
    BY <1>2 DEF BackendHolders, BackendTypeOK
  <2> QED
    BY <1>0, <1>2, <2>1 DEF Reserved, BackendTypeOK
<1> QED
  BY <1>1, <1>2

(* releaseShared uncounts the thread that held one. *)
LEMMA OneLess ==
  ASSUME BackendTypeOK, ReservationsAreHeld, NEW t \in Thread,
         reserving[t], reservations' = [reservations EXCEPT ![on[t]] = @ - 1],
         reserving' = [reserving EXCEPT ![t] = FALSE],
         \A u \in Thread \ {t} : on'[u] = on[u]
  PROVE  ReservationsAreHeld'
<1> SUFFICES ASSUME NEW c \in Backend PROVE reservations'[c] = Cardinality(BackendHolders(c)')
  BY DEF ReservationsAreHeld
<1>0. reservations[c] = Cardinality(BackendHolders(c)) /\ reservations[c] \in Nat
  BY DEF ReservationsAreHeld, BackendTypeOK
<1>1. CASE c = on[t]
  <2>1. BackendHolders(c)' = BackendHolders(c) \ {t} /\ t \in BackendHolders(c)
    BY <1>1 DEF BackendHolders, BackendTypeOK
  <2>2. Cardinality(BackendHolders(c)') = Cardinality(BackendHolders(c)) - 1
    BY <2>1, BackendHoldersFinite, FS_RemoveElement
  <2> QED
    BY <1>0, <1>1, <2>2 DEF BackendTypeOK
<1>2. CASE c # on[t]
  <2>1. BackendHolders(c)' = BackendHolders(c)
    BY <1>2 DEF BackendHolders, BackendTypeOK
  <2> QED
    BY <1>0, <1>2, <2>1 DEF BackendTypeOK
<1> QED
  BY <1>1, <1>2

(* mSharedReservations counts the calls between getShared and               *)
(* releaseShared.                                                           *)
LEMMA CountStep == BackendInv /\ [BackendNext]_backendVars => ReservationsAreHeld'
<1> SUFFICES ASSUME BackendInv, [BackendNext]_backendVars PROVE ReservationsAreHeld'
  OBVIOUS
<1> USE DEF registryVars, subscriptionVars, localVars
<1>0. BackendTypeOK /\ PlacesOK /\ ReservationsAreHeld
  BY DEF BackendInv
<1>1. ASSUME NEW t \in Thread, NEW n \in Name, GetBackend(t, n) PROVE ReservationsAreHeld'
  BY <1>0, <1>1, SameBackendHolders DEF GetBackend, Goto, BackendTypeOK
<1>2. ASSUME NEW t \in Thread, FindDefault(t) PROVE ReservationsAreHeld'
  BY <1>0, <1>2, SameBackendHolders DEF FindDefault, BackendTypeOK
<1>3. ASSUME NEW t \in Thread, FindBackend(t) PROVE ReservationsAreHeld'
  <2>1. ~reserving[t] /\ shared[name[t]] \in Backend
    BY <1>0, <1>3 DEF FindBackend, PlacesOK, Inside, Unwatching, BackendTypeOK
  <2> QED
    BY <1>0, <1>3, <2>1, OneMore DEF FindBackend
<1>4. ASSUME NEW t \in Thread, NEW b \in Backend, CreateBackend(t, b)
      PROVE  ReservationsAreHeld'
  BY <1>0, <1>4, SameBackendHolders DEF CreateBackend, Unreferenced, Goto, PlacesOK, Inside,
    Unwatching, BackendTypeOK
<1>5. ASSUME NEW t \in Thread, StartBackend(t) PROVE ReservationsAreHeld'
  BY <1>0, <1>5, SameBackendHolders DEF StartBackend, Goto, BackendTypeOK
<1>6. ASSUME NEW t \in Thread, StartFails(t) PROVE ReservationsAreHeld'
  BY <1>0, <1>6, SameBackendHolders DEF StartFails, Goto, PlacesOK, Inside, Unwatching,
    BackendTypeOK
<1>7. ASSUME NEW t \in Thread, EmplaceBackend(t) PROVE ReservationsAreHeld'
  <2> DEFINE selected == IF shared[name[t]] = NoBackend THEN on[t] ELSE shared[name[t]]
  <2>1. ~reserving[t] /\ selected \in Backend
    BY <1>0, <1>7 DEF EmplaceBackend, PlacesOK, Inside, Unwatching, BackendTypeOK
  <2>2. /\ reservations' = Reserved(selected)
        /\ on' = [on EXCEPT ![t] = selected]
        /\ reserving' = [reserving EXCEPT ![t] = TRUE]
    BY <1>7 DEF EmplaceBackend
  <2> QED
    BY <1>0, <2>1, <2>2, OneMore
<1>8. ASSUME NEW t \in Thread, ReleaseBackend(t) PROVE ReservationsAreHeld'
  <2>1. reserving[t]
    BY <1>0, <1>8 DEF ReleaseBackend, PlacesOK, Inside, Unwatching, BackendTypeOK
  <2>2. /\ reservations' = [reservations EXCEPT ![on[t]] = @ - 1]
        /\ reserving' = [reserving EXCEPT ![t] = FALSE]
        /\ \A u \in Thread \ {t} : on'[u] = on[u]
    BY <1>0, <1>8 DEF ReleaseBackend, BackendTypeOK
  <2> QED
    BY <1>0, <2>1, <2>2, OneLess
<1>9. ASSUME NEW t \in Thread, LastUnref(t) PROVE ReservationsAreHeld'
  BY <1>0, <1>9, SameBackendHolders DEF LastUnref, StopIfUnused, Stop, Goto, PlacesOK, Inside,
    Unwatching, BackendTypeOK
<1>10. ASSUME NEW t \in Thread, NEW s \in Subject, CallWatch(t, s) \/ CallUnwatch(t, s)
       PROVE  ReservationsAreHeld'
  BY <1>0, <1>10, SameBackendHolders DEF CallWatch, CallUnwatch, Goto, BackendTypeOK
<1>11. ASSUME NEW t \in Thread, NEW s \in Subject, NEW b \in Backend, CallUnwatchOn(t, b, s)
       PROVE  ReservationsAreHeld'
  BY <1>0, <1>11, SameBackendHolders DEF CallUnwatchOn, Goto, PlacesOK, Inside, Unwatching,
    BackendTypeOK
<1>12. ASSUME NEW t \in Thread, WatchWaits(t) \/ UnwatchWaits(t) \/ DetachWatcher(t)
       PROVE  ReservationsAreHeld'
  BY <1>0, <1>12, SameBackendHolders DEF WatchWaits, UnwatchWaits, DetachWatcher, Locked,
    IsPending, Goto, BackendTypeOK
<1>13. ASSUME NEW t \in Thread, NEW isCancelled \in BOOLEAN,
              WatchCancelled(t, isCancelled) \/ WatchSubscribed(t, isCancelled)
       PROVE  ReservationsAreHeld'
  BY <1>0, <1>13, SameBackendHolders DEF WatchCancelled, WatchSubscribed, Locked, Goto,
    BackendTypeOK
<1>14. ASSUME NEW t \in Thread, NEW isCancelled \in BOOLEAN, WatchScans(t, isCancelled)
       PROVE  ReservationsAreHeld'
  BY <1>0, <1>14, SameBackendHolders DEF WatchScans, Locked, IsPending, Goto, BackendTypeOK
<1>15. ASSUME NEW t \in Thread, ScanCompletes(t) \/ ScanCancelled(t) \/ ScanTruncated(t)
       PROVE  ReservationsAreHeld'
  BY <1>0, <1>15, SameBackendHolders DEF ScanCompletes, ScanCancelled, ScanTruncated, Watching,
    Goto, BackendTypeOK
<1>16. ASSUME NEW t \in Thread, ScanFails(t) \/ FinishFails(t) PROVE ReservationsAreHeld'
  BY <1>0, <1>16, SameBackendHolders
  DEF ScanFails, FinishFails, AbandonWatch, WakeAndGoto, Locked, BackendTypeOK
<1>17. ASSUME NEW t \in Thread, FinishWatch(t) PROVE ReservationsAreHeld'
  BY <1>0, <1>17, SameBackendHolders DEF FinishWatch, WakeAndGoto, Locked, BackendTypeOK
<1>18. ASSUME NEW t \in Thread, WatchUnref(t) PROVE ReservationsAreHeld'
  BY <1>0, <1>18, SameBackendHolders DEF WatchUnref, StopIfUnused, Stop, Goto, BackendTypeOK
<1>19. ASSUME NEW t \in Thread, NEW isWanted \in BOOLEAN, UnwatchKeeps(t, isWanted)
       PROVE  ReservationsAreHeld'
  BY <1>0, <1>19, SameBackendHolders DEF UnwatchKeeps, Back, Locked, Goto, BackendTypeOK
<1>20. ASSUME NEW t \in Thread, NEW isWanted \in BOOLEAN, UnwatchRemoves(t, isWanted)
       PROVE  ReservationsAreHeld'
  BY <1>0, <1>20, SameBackendHolders DEF UnwatchRemoves, Locked, IsPending, Goto, BackendTypeOK
<1>21. ASSUME NEW t \in Thread, NEW isWanted \in BOOLEAN, UnwatchThrows(t, isWanted)
       PROVE  ReservationsAreHeld'
  BY <1>0, <1>21, SameBackendHolders DEF UnwatchThrows, Back, Locked, IsPending, Goto,
    BackendTypeOK
<1>22. ASSUME NEW t \in Thread, UnwatchUnrefs(t) PROVE ReservationsAreHeld'
  BY <1>0, <1>22, SameBackendHolders DEF UnwatchUnrefs, StopIfUnused, Stop, Back, Goto,
    BackendTypeOK
<1>23. ASSUME NEW b \in Backend, NEW S \in SUBSET Subject, Invalidate(b, S)
       PROVE  ReservationsAreHeld'
  BY <1>0, <1>23, SameBackendHolders DEF Invalidate, Invalidated, BackendTypeOK
<1>24. ASSUME NEW b \in Backend, BackendFails(b) \/ HandleError(b)
       PROVE  ReservationsAreHeld'
  BY <1>0, <1>24, SameBackendHolders DEF BackendFails, HandleError, BackendTypeOK
<1>25. ASSUME NEW b \in Backend, RemoveShared(b) PROVE ReservationsAreHeld'
  BY <1>0, <1>25, SameBackendHolders DEF RemoveShared, BackendTypeOK
<1>26. ASSUME NEW s \in Subject, NewSubject(s) PROVE ReservationsAreHeld'
  BY <1>0, <1>26, SameBackendHolders DEF NewSubject, BackendTypeOK
<1>27. CASE UNCHANGED backendVars
  BY <1>0, <1>27, SameBackendHolders DEF backendVars, BackendTypeOK
<1> QED
  BY <1>1, <1>2, <1>3, <1>4, <1>5, <1>6, <1>7, <1>8, <1>9, <1>10, <1>11, <1>12, <1>13,
    <1>14, <1>15, <1>16, <1>17, <1>18, <1>19, <1>20, <1>21, <1>22, <1>23, <1>24, <1>25,
    <1>26, <1>27
  DEF BackendNext, CallerStep, BackendStep

----------------------------------------------------------------------------
(* Backend::watch waits while its watcher is pending, so no second thread   *)
(* subscribes it.                                                           *)
LEMMA SubscribingStep == BackendInv /\ [BackendNext]_backendVars =>
  (SubscribingIsPending /\ OneSubscribes)'
<1> SUFFICES ASSUME BackendInv, [BackendNext]_backendVars
             PROVE  (SubscribingIsPending /\ OneSubscribes)'
  OBVIOUS
<1> USE DEF SubscribingIsPending, OneSubscribes, Subscribing, registryVars,
  subscriptionVars, localVars
<1>0. BackendTypeOK /\ PlacesOK /\ SubscribingIsPending /\ OneSubscribes
  BY DEF BackendInv
<1>1. ASSUME NEW t \in Thread, NEW n \in Name, GetBackend(t, n)
      PROVE  (SubscribingIsPending /\ OneSubscribes)'
  BY <1>0, <1>1 DEF GetBackend, Goto, BackendTypeOK
<1>2. ASSUME NEW t \in Thread, FindDefault(t) PROVE (SubscribingIsPending /\ OneSubscribes)'
  BY <1>0, <1>2 DEF FindDefault, BackendTypeOK
<1>3. ASSUME NEW t \in Thread, FindBackend(t) PROVE (SubscribingIsPending /\ OneSubscribes)'
  BY <1>0, <1>3 DEF FindBackend, Reserved, Goto, BackendTypeOK
<1>4. ASSUME NEW t \in Thread, NEW b \in Backend, CreateBackend(t, b)
      PROVE  (SubscribingIsPending /\ OneSubscribes)'
  BY <1>0, <1>4 DEF CreateBackend, Unreferenced, Goto, BackendTypeOK
<1>5. ASSUME NEW t \in Thread, StartBackend(t)
      PROVE  (SubscribingIsPending /\ OneSubscribes)'
  BY <1>0, <1>5 DEF StartBackend, Goto, BackendTypeOK
<1>6. ASSUME NEW t \in Thread, StartFails(t) PROVE (SubscribingIsPending /\ OneSubscribes)'
  BY <1>0, <1>6 DEF StartFails, Goto, BackendTypeOK
<1>7. ASSUME NEW t \in Thread, EmplaceBackend(t)
      PROVE  (SubscribingIsPending /\ OneSubscribes)'
  BY <1>0, <1>7 DEF EmplaceBackend, Reserved, Stop, Goto, BackendTypeOK
<1>8. ASSUME NEW t \in Thread, ReleaseBackend(t)
      PROVE  (SubscribingIsPending /\ OneSubscribes)'
  BY <1>0, <1>8 DEF ReleaseBackend, Goto, BackendTypeOK
<1>9. ASSUME NEW t \in Thread, LastUnref(t) PROVE (SubscribingIsPending /\ OneSubscribes)'
  BY <1>0, <1>9 DEF LastUnref, StopIfUnused, Stop, Goto, BackendTypeOK
<1>10. ASSUME NEW t \in Thread, NEW s \in Subject, CallWatch(t, s) \/ CallUnwatch(t, s)
       PROVE  (SubscribingIsPending /\ OneSubscribes)'
  <2>1. /\ on' = on /\ pending' = pending
        /\ \A u \in Thread : where'[u] \in Subscribing =>
             where[u] \in Subscribing /\ subject'[u] = subject[u]
    BY <1>0, <1>10 DEF CallWatch, CallUnwatch, Goto, BackendTypeOK
  <2> QED
    BY <1>0, <2>1
<1>11. ASSUME NEW t \in Thread, NEW s \in Subject, NEW b \in Backend, CallUnwatchOn(t, b, s)
       PROVE  (SubscribingIsPending /\ OneSubscribes)'
  BY <1>0, <1>11 DEF CallUnwatchOn, Goto, BackendTypeOK
<1>12. ASSUME NEW t \in Thread, WatchWaits(t) \/ UnwatchWaits(t) \/ DetachWatcher(t)
       PROVE  (SubscribingIsPending /\ OneSubscribes)'
  BY <1>0, <1>12 DEF WatchWaits, UnwatchWaits, DetachWatcher, Locked, IsPending, Goto,
    BackendTypeOK
<1>13. ASSUME NEW t \in Thread, NEW isCancelled \in BOOLEAN,
              WatchCancelled(t, isCancelled) \/ WatchSubscribed(t, isCancelled)
       PROVE  (SubscribingIsPending /\ OneSubscribes)'
  BY <1>0, <1>13 DEF WatchCancelled, WatchSubscribed, Locked, Goto, BackendTypeOK
<1>14. ASSUME NEW t \in Thread, NEW isCancelled \in BOOLEAN, WatchScans(t, isCancelled)
       PROVE  (SubscribingIsPending /\ OneSubscribes)'
  BY <1>0, <1>14 DEF WatchScans, Locked, IsPending, Goto, PlacesOK, Inside, Unwatching,
    BackendTypeOK
<1>15. ASSUME NEW t \in Thread, ScanCompletes(t) \/ ScanCancelled(t) \/ ScanTruncated(t)
       PROVE  (SubscribingIsPending /\ OneSubscribes)'
  BY <1>0, <1>15 DEF ScanCompletes, ScanCancelled, ScanTruncated, Watching, Goto,
    BackendTypeOK
<1>16. ASSUME NEW t \in Thread, ScanFails(t) \/ FinishFails(t)
       PROVE  (SubscribingIsPending /\ OneSubscribes)'
  <2>0. AbandonWatch(t) /\ where[t] \in Subscribing
    BY <1>16 DEF ScanFails, FinishFails, Locked
  <2>1. /\ ~(where'[t] \in Subscribing) /\ on' = on /\ subject' = subject
        /\ \A u \in Thread : where'[u] \in Subscribing => where[u] \in Subscribing
    BY <1>0, <2>0 DEF AbandonWatch, WakeAndGoto, BackendTypeOK
  <2>2. \A u \in Thread : where[u] \in Subscribing => on[u] \in Backend
    BY <1>0 DEF PlacesOK, BackendTypeOK
  <2>3. pending' = [pending EXCEPT ![on[t]] = @ \ {subject[t]}]
    BY <2>0 DEF AbandonWatch
  <2> QED
    BY <1>0, <2>0, <2>1, <2>2, <2>3 DEF BackendTypeOK
<1>17. ASSUME NEW t \in Thread, FinishWatch(t)
       PROVE  (SubscribingIsPending /\ OneSubscribes)'
  BY <1>0, <1>17 DEF FinishWatch, WakeAndGoto, Locked, BackendTypeOK
<1>18. ASSUME NEW t \in Thread, WatchUnref(t) PROVE (SubscribingIsPending /\ OneSubscribes)'
  BY <1>0, <1>18 DEF WatchUnref, StopIfUnused, Stop, Goto, BackendTypeOK
<1>19. ASSUME NEW t \in Thread, NEW isWanted \in BOOLEAN, UnwatchKeeps(t, isWanted)
       PROVE  (SubscribingIsPending /\ OneSubscribes)'
  BY <1>0, <1>19 DEF UnwatchKeeps, Back, Locked, Goto, BackendTypeOK
<1>20. ASSUME NEW t \in Thread, NEW isWanted \in BOOLEAN, UnwatchRemoves(t, isWanted)
       PROVE  (SubscribingIsPending /\ OneSubscribes)'
  BY <1>0, <1>20 DEF UnwatchRemoves, Locked, IsPending, Goto, BackendTypeOK
<1>21. ASSUME NEW t \in Thread, NEW isWanted \in BOOLEAN, UnwatchThrows(t, isWanted)
       PROVE  (SubscribingIsPending /\ OneSubscribes)'
  <2>1. /\ pending' = pending /\ ~(where'[t] \in Subscribing)
        /\ \A u \in Thread \ {t} :
             where'[u] = where[u] /\ on'[u] = on[u] /\ subject'[u] = subject[u]
    BY <1>0, <1>21 DEF UnwatchThrows, Back, Goto, BackendTypeOK
  <2> QED
    BY <1>0, <2>1
<1>22. ASSUME NEW t \in Thread, UnwatchUnrefs(t)
       PROVE  (SubscribingIsPending /\ OneSubscribes)'
  BY <1>0, <1>22 DEF UnwatchUnrefs, StopIfUnused, Stop, Back, Goto, BackendTypeOK
<1>23. ASSUME NEW b \in Backend, NEW S \in SUBSET Subject, Invalidate(b, S)
       PROVE  (SubscribingIsPending /\ OneSubscribes)'
  BY <1>0, <1>23 DEF Invalidate, Invalidated, BackendTypeOK
<1>24. ASSUME NEW b \in Backend, BackendFails(b) \/ HandleError(b)
       PROVE  (SubscribingIsPending /\ OneSubscribes)'
  BY <1>0, <1>24 DEF BackendFails, HandleError, BackendTypeOK
<1>25. ASSUME NEW b \in Backend, RemoveShared(b)
       PROVE  (SubscribingIsPending /\ OneSubscribes)'
  BY <1>0, <1>25 DEF RemoveShared, BackendTypeOK
<1>26. ASSUME NEW s \in Subject, NewSubject(s)
       PROVE  (SubscribingIsPending /\ OneSubscribes)'
  BY <1>0, <1>26 DEF NewSubject, BackendTypeOK
<1>27. CASE UNCHANGED backendVars
  BY <1>0, <1>27 DEF backendVars, BackendTypeOK
<1> QED
  BY <1>1, <1>2, <1>3, <1>4, <1>5, <1>6, <1>7, <1>8, <1>9, <1>10, <1>11, <1>12, <1>13,
    <1>14, <1>15, <1>16, <1>17, <1>18, <1>19, <1>20, <1>21, <1>22, <1>23, <1>24, <1>25,
    <1>26, <1>27
  DEF BackendNext, CallerStep, BackendStep

(* A pending subscription keeps its thread while that does not get on. *)
LEMMA PendingKept ==
  ASSUME PendingHasThread, pending' = pending,
         \A u \in Thread : where[u] \in Subscribing =>
           where'[u] \in Subscribing /\ on'[u] = on[u] /\ subject'[u] = subject[u]
  PROVE  PendingHasThread'
  BY DEF PendingHasThread

(* Every way out of Backend::watch takes its watcher out of                 *)
(* mPendingSubscriptions.                                                   *)
LEMMA PendingStep == BackendInv /\ [BackendNext]_backendVars => PendingHasThread'
<1> SUFFICES ASSUME BackendInv, [BackendNext]_backendVars PROVE PendingHasThread'
  OBVIOUS
<1> USE DEF registryVars, subscriptionVars, localVars
<1>0. BackendTypeOK /\ PlacesOK /\ PendingHasThread
  BY DEF BackendInv
<1>1. ASSUME NEW t \in Thread, NEW n \in Name, GetBackend(t, n) PROVE PendingHasThread'
  BY <1>0, <1>1, PendingKept, NoBackendAssumption DEF GetBackend, Goto, PlacesOK, Inside,
    Unwatching, BackendTypeOK, Subscribing
<1>2. ASSUME NEW t \in Thread, FindDefault(t) PROVE PendingHasThread'
  BY <1>0, <1>2, PendingKept DEF FindDefault, BackendTypeOK
<1>3. ASSUME NEW t \in Thread, FindBackend(t) PROVE PendingHasThread'
  BY <1>0, <1>3, PendingKept, NoBackendAssumption DEF FindBackend, Reserved, Goto, PlacesOK,
    Inside, Unwatching, BackendTypeOK, Subscribing
<1>4. ASSUME NEW t \in Thread, NEW b \in Backend, CreateBackend(t, b)
      PROVE  PendingHasThread'
  BY <1>0, <1>4, PendingKept, NoBackendAssumption DEF CreateBackend, Unreferenced, Goto,
    PlacesOK, Inside, Unwatching, BackendTypeOK, Subscribing
<1>5. ASSUME NEW t \in Thread, StartBackend(t) PROVE PendingHasThread'
  BY <1>0, <1>5, PendingKept, NoBackendAssumption DEF StartBackend, Goto, PlacesOK, Inside,
    Unwatching, BackendTypeOK, Subscribing
<1>6. ASSUME NEW t \in Thread, StartFails(t) PROVE PendingHasThread'
  BY <1>0, <1>6, PendingKept, NoBackendAssumption DEF StartFails, Goto, PlacesOK, Inside,
    Unwatching, BackendTypeOK, Subscribing
<1>7. ASSUME NEW t \in Thread, EmplaceBackend(t) PROVE PendingHasThread'
  BY <1>0, <1>7, PendingKept, NoBackendAssumption DEF EmplaceBackend, Reserved, Stop, Goto,
    PlacesOK, Inside, Unwatching, BackendTypeOK, Subscribing
<1>8. ASSUME NEW t \in Thread, ReleaseBackend(t) PROVE PendingHasThread'
  BY <1>0, <1>8, PendingKept, NoBackendAssumption DEF ReleaseBackend, Goto, PlacesOK,
    Inside, Unwatching, BackendTypeOK, Subscribing
<1>9. ASSUME NEW t \in Thread, LastUnref(t) PROVE PendingHasThread'
  BY <1>0, <1>9, PendingKept, NoBackendAssumption DEF LastUnref, StopIfUnused, Stop, Goto,
    PlacesOK, Inside, Unwatching, BackendTypeOK, Subscribing
<1>10. ASSUME NEW t \in Thread, NEW s \in Subject, CallWatch(t, s) \/ CallUnwatch(t, s)
       PROVE  PendingHasThread'
  BY <1>0, <1>10, PendingKept, NoBackendAssumption DEF CallWatch, CallUnwatch, Goto,
    PlacesOK, Inside, Unwatching, BackendTypeOK, Subscribing
<1>11. ASSUME NEW t \in Thread, NEW s \in Subject, NEW b \in Backend, CallUnwatchOn(t, b, s)
       PROVE  PendingHasThread'
  BY <1>0, <1>11, PendingKept, NoBackendAssumption DEF CallUnwatchOn, Goto, PlacesOK,
    Inside, Unwatching, BackendTypeOK, Subscribing
<1>12. ASSUME NEW t \in Thread, WatchWaits(t) \/ UnwatchWaits(t) \/ DetachWatcher(t)
       PROVE  PendingHasThread'
  BY <1>0, <1>12, PendingKept, NoBackendAssumption DEF WatchWaits, UnwatchWaits,
    DetachWatcher, Locked, IsPending, Goto, PlacesOK, Inside, Unwatching, BackendTypeOK,
    Subscribing
<1>13. ASSUME NEW t \in Thread, NEW isCancelled \in BOOLEAN,
              WatchCancelled(t, isCancelled) \/ WatchSubscribed(t, isCancelled)
       PROVE  PendingHasThread'
  BY <1>0, <1>13, PendingKept, NoBackendAssumption DEF WatchCancelled, WatchSubscribed,
    Locked, Goto, PlacesOK, Inside, Unwatching, BackendTypeOK, Subscribing
<1>14. ASSUME NEW t \in Thread, NEW isCancelled \in BOOLEAN, WatchScans(t, isCancelled)
       PROVE  PendingHasThread'
  <2> SUFFICES ASSUME NEW b \in Backend, NEW s \in Subject, s \in pending'[b]
               PROVE  \E u \in Thread :
                        where'[u] \in Subscribing /\ on'[u] = b /\ subject'[u] = s
    BY DEF PendingHasThread
  <2>1. CASE s \in pending[b]
    <3>1. PICK u \in Thread : where[u] \in Subscribing /\ on[u] = b /\ subject[u] = s
      BY <1>0, <2>1 DEF PendingHasThread
    <3>2. where'[u] \in Subscribing /\ on'[u] = b /\ subject'[u] = s
      BY <1>0, <1>14, <3>1 DEF WatchScans, Locked, Goto, Subscribing, BackendTypeOK
    <3> QED
      BY <3>2
  <2>2. CASE s \notin pending[b]
    <3>1. where'[t] \in Subscribing /\ on'[t] = b /\ subject'[t] = s
      BY <1>0, <1>14, <2>2 DEF WatchScans, Locked, Goto, Subscribing, BackendTypeOK
    <3> QED
      BY <3>1
  <2> QED
    BY <2>1, <2>2
<1>15. ASSUME NEW t \in Thread, ScanCompletes(t) \/ ScanCancelled(t) \/ ScanTruncated(t)
       PROVE  PendingHasThread'
  BY <1>0, <1>15, PendingKept, NoBackendAssumption DEF ScanCompletes, ScanCancelled,
    ScanTruncated, Watching, Goto, PlacesOK, Inside, Unwatching, BackendTypeOK, Subscribing
<1>16. ASSUME NEW t \in Thread, ScanFails(t) \/ FinishFails(t) PROVE PendingHasThread'
  <2> SUFFICES ASSUME NEW b \in Backend, NEW s \in Subject, s \in pending'[b]
               PROVE  \E u \in Thread :
                        where'[u] \in Subscribing /\ on'[u] = b /\ subject'[u] = s
    BY DEF PendingHasThread
  <2>1. s \in pending[b] /\ ~(on[t] = b /\ subject[t] = s)
    BY <1>0, <1>16 DEF ScanFails, FinishFails, Locked, AbandonWatch, BackendTypeOK
  <2>2. PICK u \in Thread : where[u] \in Subscribing /\ on[u] = b /\ subject[u] = s
    BY <1>0, <2>1 DEF PendingHasThread
  <2>3. where'[u] \in Subscribing /\ on'[u] = b /\ subject'[u] = s
    BY <1>0, <1>16, <2>1, <2>2 DEF ScanFails, FinishFails, Locked, AbandonWatch,
      WakeAndGoto, Subscribing, BackendTypeOK
  <2> QED
    BY <2>3
<1>17. ASSUME NEW t \in Thread, FinishWatch(t) PROVE PendingHasThread'
  <2> SUFFICES ASSUME NEW b \in Backend, NEW s \in Subject, s \in pending'[b]
               PROVE  \E u \in Thread :
                        where'[u] \in Subscribing /\ on'[u] = b /\ subject'[u] = s
    BY DEF PendingHasThread
  <2>1. s \in pending[b] /\ ~(on[t] = b /\ subject[t] = s)
    BY <1>0, <1>17 DEF FinishWatch, Locked, BackendTypeOK
  <2>2. PICK u \in Thread : where[u] \in Subscribing /\ on[u] = b /\ subject[u] = s
    BY <1>0, <2>1 DEF PendingHasThread
  <2>3. where'[u] \in Subscribing /\ on'[u] = b /\ subject'[u] = s
    BY <1>0, <1>17, <2>1, <2>2 DEF FinishWatch, Locked, WakeAndGoto, Subscribing,
      BackendTypeOK
  <2> QED
    BY <2>3
<1>18. ASSUME NEW t \in Thread, WatchUnref(t) PROVE PendingHasThread'
  BY <1>0, <1>18, PendingKept, NoBackendAssumption DEF WatchUnref, StopIfUnused, Stop, Goto,
    PlacesOK, Inside, Unwatching, BackendTypeOK, Subscribing
<1>19. ASSUME NEW t \in Thread, NEW isWanted \in BOOLEAN, UnwatchKeeps(t, isWanted)
       PROVE  PendingHasThread'
  BY <1>0, <1>19, PendingKept, NoBackendAssumption DEF UnwatchKeeps, Back, Locked, Goto,
    PlacesOK, Inside, Unwatching, BackendTypeOK, Subscribing
<1>20. ASSUME NEW t \in Thread, NEW isWanted \in BOOLEAN, UnwatchRemoves(t, isWanted)
       PROVE  PendingHasThread'
  BY <1>0, <1>20, PendingKept, NoBackendAssumption DEF UnwatchRemoves, Locked, IsPending,
    Goto, PlacesOK, Inside, Unwatching, BackendTypeOK, Subscribing
<1>21. ASSUME NEW t \in Thread, NEW isWanted \in BOOLEAN, UnwatchThrows(t, isWanted)
       PROVE  PendingHasThread'
  BY <1>0, <1>21, PendingKept, NoBackendAssumption DEF UnwatchThrows, Back, Locked,
    IsPending, Goto, PlacesOK, Inside, Unwatching, BackendTypeOK, Subscribing
<1>22. ASSUME NEW t \in Thread, UnwatchUnrefs(t) PROVE PendingHasThread'
  BY <1>0, <1>22, PendingKept, NoBackendAssumption DEF UnwatchUnrefs, StopIfUnused, Stop,
    Back, Goto, PlacesOK, Inside, Unwatching, BackendTypeOK, Subscribing
<1>23. ASSUME NEW b \in Backend, NEW S \in SUBSET Subject, Invalidate(b, S)
       PROVE  PendingHasThread'
  BY <1>0, <1>23, PendingKept DEF Invalidate, Invalidated, BackendTypeOK
<1>24. ASSUME NEW b \in Backend, BackendFails(b) \/ HandleError(b) PROVE PendingHasThread'
  BY <1>0, <1>24, PendingKept DEF BackendFails, HandleError, BackendTypeOK
<1>25. ASSUME NEW b \in Backend, RemoveShared(b) PROVE PendingHasThread'
  BY <1>0, <1>25, PendingKept DEF RemoveShared, BackendTypeOK
<1>26. ASSUME NEW s \in Subject, NewSubject(s) PROVE PendingHasThread'
  BY <1>0, <1>26, PendingKept DEF NewSubject, BackendTypeOK
<1>27. CASE UNCHANGED backendVars
  BY <1>0, <1>27, PendingKept DEF backendVars, BackendTypeOK
<1> QED
  BY <1>1, <1>2, <1>3, <1>4, <1>5, <1>6, <1>7, <1>8, <1>9, <1>10, <1>11, <1>12, <1>13,
    <1>14, <1>15, <1>16, <1>17, <1>18, <1>19, <1>20, <1>21, <1>22, <1>23, <1>24, <1>25,
    <1>26, <1>27
  DEF BackendNext, CallerStep, BackendStep

(* Every erasure from mPendingSubscriptions comes with notify_all on        *)
(* mPendingCondition.                                                       *)
LEMMA WakeupStep == BackendInv /\ [BackendNext]_backendVars => NoLostWakeup'
<1> SUFFICES ASSUME BackendInv, [BackendNext]_backendVars PROVE NoLostWakeup'
  OBVIOUS
<1> USE DEF NoLostWakeup, registryVars, subscriptionVars, localVars
<1>0. BackendTypeOK /\ PlacesOK /\ NoLostWakeup
  BY DEF BackendInv
<1>1. ASSUME NEW t \in Thread, NEW n \in Name, GetBackend(t, n) PROVE NoLostWakeup'
  BY <1>0, <1>1 DEF GetBackend, Goto, BackendTypeOK
<1>2. ASSUME NEW t \in Thread, FindDefault(t) PROVE NoLostWakeup'
  BY <1>0, <1>2 DEF FindDefault, BackendTypeOK
<1>3. ASSUME NEW t \in Thread, FindBackend(t) PROVE NoLostWakeup'
  BY <1>0, <1>3 DEF FindBackend, Reserved, Goto, BackendTypeOK
<1>4. ASSUME NEW t \in Thread, NEW b \in Backend, CreateBackend(t, b) PROVE NoLostWakeup'
  BY <1>0, <1>4 DEF CreateBackend, Unreferenced, Goto, BackendTypeOK
<1>5. ASSUME NEW t \in Thread, StartBackend(t) PROVE NoLostWakeup'
  BY <1>0, <1>5 DEF StartBackend, Goto, BackendTypeOK
<1>6. ASSUME NEW t \in Thread, StartFails(t) PROVE NoLostWakeup'
  BY <1>0, <1>6 DEF StartFails, Goto, BackendTypeOK
<1>7. ASSUME NEW t \in Thread, EmplaceBackend(t) PROVE NoLostWakeup'
  BY <1>0, <1>7 DEF EmplaceBackend, Reserved, Stop, Goto, BackendTypeOK
<1>8. ASSUME NEW t \in Thread, ReleaseBackend(t) PROVE NoLostWakeup'
  BY <1>0, <1>8 DEF ReleaseBackend, Goto, BackendTypeOK
<1>9. ASSUME NEW t \in Thread, LastUnref(t) PROVE NoLostWakeup'
  BY <1>0, <1>9 DEF LastUnref, StopIfUnused, Stop, Goto, BackendTypeOK
<1>10. ASSUME NEW t \in Thread, NEW s \in Subject, CallWatch(t, s) \/ CallUnwatch(t, s)
       PROVE  NoLostWakeup'
  BY <1>0, <1>10 DEF CallWatch, CallUnwatch, Goto, BackendTypeOK
<1>11. ASSUME NEW t \in Thread, NEW s \in Subject, NEW b \in Backend, CallUnwatchOn(t, b, s)
       PROVE  NoLostWakeup'
  BY <1>0, <1>11 DEF CallUnwatchOn, Goto, BackendTypeOK
<1>12. ASSUME NEW t \in Thread, WatchWaits(t) \/ UnwatchWaits(t) \/ DetachWatcher(t)
       PROVE  NoLostWakeup'
  BY <1>0, <1>12 DEF WatchWaits, UnwatchWaits, DetachWatcher, Locked, IsPending, Goto,
    BackendTypeOK
<1>13. ASSUME NEW t \in Thread, NEW isCancelled \in BOOLEAN,
              WatchCancelled(t, isCancelled) \/ WatchSubscribed(t, isCancelled)
       PROVE  NoLostWakeup'
  BY <1>0, <1>13 DEF WatchCancelled, WatchSubscribed, Locked, Goto, BackendTypeOK
<1>14. ASSUME NEW t \in Thread, NEW isCancelled \in BOOLEAN, WatchScans(t, isCancelled)
       PROVE  NoLostWakeup'
  BY <1>0, <1>14 DEF WatchScans, Locked, IsPending, Goto, BackendTypeOK
<1>15. ASSUME NEW t \in Thread, ScanCompletes(t) \/ ScanCancelled(t) \/ ScanTruncated(t)
       PROVE  NoLostWakeup'
  BY <1>0, <1>15 DEF ScanCompletes, ScanCancelled, ScanTruncated, Watching, Goto,
    BackendTypeOK
<1>16. ASSUME NEW t \in Thread, ScanFails(t) \/ FinishFails(t) PROVE NoLostWakeup'
  BY <1>0, <1>16 DEF ScanFails, FinishFails, AbandonWatch, WakeAndGoto, Locked, PlacesOK,
    Inside, Unwatching, BackendTypeOK
<1>17. ASSUME NEW t \in Thread, FinishWatch(t) PROVE NoLostWakeup'
  BY <1>0, <1>17 DEF FinishWatch, WakeAndGoto, Locked, BackendTypeOK
<1>18. ASSUME NEW t \in Thread, WatchUnref(t) PROVE NoLostWakeup'
  BY <1>0, <1>18 DEF WatchUnref, StopIfUnused, Stop, Goto, BackendTypeOK
<1>19. ASSUME NEW t \in Thread, NEW isWanted \in BOOLEAN, UnwatchKeeps(t, isWanted)
       PROVE  NoLostWakeup'
  BY <1>0, <1>19 DEF UnwatchKeeps, Back, Locked, Goto, BackendTypeOK
<1>20. ASSUME NEW t \in Thread, NEW isWanted \in BOOLEAN, UnwatchRemoves(t, isWanted)
       PROVE  NoLostWakeup'
  BY <1>0, <1>20 DEF UnwatchRemoves, Locked, IsPending, Goto, BackendTypeOK
<1>21. ASSUME NEW t \in Thread, NEW isWanted \in BOOLEAN, UnwatchThrows(t, isWanted)
       PROVE  NoLostWakeup'
  BY <1>0, <1>21 DEF UnwatchThrows, Back, Locked, IsPending, Goto, BackendTypeOK
<1>22. ASSUME NEW t \in Thread, UnwatchUnrefs(t) PROVE NoLostWakeup'
  BY <1>0, <1>22 DEF UnwatchUnrefs, StopIfUnused, Stop, Back, Goto, BackendTypeOK
<1>23. ASSUME NEW b \in Backend, NEW S \in SUBSET Subject, Invalidate(b, S)
       PROVE  NoLostWakeup'
  BY <1>0, <1>23 DEF Invalidate, Invalidated, BackendTypeOK
<1>24. ASSUME NEW b \in Backend, BackendFails(b) \/ HandleError(b) PROVE NoLostWakeup'
  BY <1>0, <1>24 DEF BackendFails, HandleError, BackendTypeOK
<1>25. ASSUME NEW b \in Backend, RemoveShared(b) PROVE NoLostWakeup'
  BY <1>0, <1>25 DEF RemoveShared, BackendTypeOK
<1>26. ASSUME NEW s \in Subject, NewSubject(s) PROVE NoLostWakeup'
  BY <1>0, <1>26 DEF NewSubject, BackendTypeOK
<1>27. CASE UNCHANGED backendVars
  BY <1>0, <1>27 DEF backendVars, BackendTypeOK
<1> QED
  BY <1>1, <1>2, <1>3, <1>4, <1>5, <1>6, <1>7, <1>8, <1>9, <1>10, <1>11, <1>12, <1>13,
    <1>14, <1>15, <1>16, <1>17, <1>18, <1>19, <1>20, <1>21, <1>22, <1>23, <1>24, <1>25,
    <1>26, <1>27
  DEF BackendNext, CallerStep, BackendStep

----------------------------------------------------------------------------
(* While an invalid subscription is rebuilt Backend::unwatch waits, so that *)
(* it stays subscribed.                                                     *)
LEMMA RebuiltStep == BackendInv /\ [BackendNext]_backendVars => RebuiltIsSubscribed'
<1> SUFFICES ASSUME BackendInv, [BackendNext]_backendVars PROVE RebuiltIsSubscribed'
  OBVIOUS
<1> USE DEF RebuiltIsSubscribed, Subscribing, registryVars, subscriptionVars, localVars
<1>0. BackendTypeOK /\ PlacesOK /\ SubscribingIsPending /\ RebuiltIsSubscribed
  BY DEF BackendInv
<1>1. ASSUME NEW t \in Thread, NEW n \in Name, GetBackend(t, n) PROVE RebuiltIsSubscribed'
  BY <1>0, <1>1 DEF GetBackend, Goto, BackendTypeOK
<1>2. ASSUME NEW t \in Thread, FindDefault(t) PROVE RebuiltIsSubscribed'
  BY <1>0, <1>2 DEF FindDefault, BackendTypeOK
<1>3. ASSUME NEW t \in Thread, FindBackend(t) PROVE RebuiltIsSubscribed'
  BY <1>0, <1>3 DEF FindBackend, Reserved, Goto, BackendTypeOK
<1>4. ASSUME NEW t \in Thread, NEW b \in Backend, CreateBackend(t, b)
      PROVE  RebuiltIsSubscribed'
  BY <1>0, <1>4 DEF CreateBackend, Unreferenced, Goto, BackendTypeOK
<1>5. ASSUME NEW t \in Thread, StartBackend(t) PROVE RebuiltIsSubscribed'
  BY <1>0, <1>5 DEF StartBackend, Goto, BackendTypeOK
<1>6. ASSUME NEW t \in Thread, StartFails(t) PROVE RebuiltIsSubscribed'
  BY <1>0, <1>6 DEF StartFails, Goto, BackendTypeOK
<1>7. ASSUME NEW t \in Thread, EmplaceBackend(t) PROVE RebuiltIsSubscribed'
  BY <1>0, <1>7 DEF EmplaceBackend, Reserved, Stop, Goto, BackendTypeOK
<1>8. ASSUME NEW t \in Thread, ReleaseBackend(t) PROVE RebuiltIsSubscribed'
  BY <1>0, <1>8 DEF ReleaseBackend, Goto, BackendTypeOK
<1>9. ASSUME NEW t \in Thread, LastUnref(t) PROVE RebuiltIsSubscribed'
  BY <1>0, <1>9 DEF LastUnref, StopIfUnused, Stop, Goto, BackendTypeOK
<1>10. ASSUME NEW t \in Thread, NEW s \in Subject, CallWatch(t, s) \/ CallUnwatch(t, s)
       PROVE  RebuiltIsSubscribed'
  BY <1>0, <1>10 DEF CallWatch, CallUnwatch, Goto, BackendTypeOK
<1>11. ASSUME NEW t \in Thread, NEW s \in Subject, NEW b \in Backend, CallUnwatchOn(t, b, s)
       PROVE  RebuiltIsSubscribed'
  BY <1>0, <1>11 DEF CallUnwatchOn, Goto, BackendTypeOK
<1>12. ASSUME NEW t \in Thread, WatchWaits(t) \/ UnwatchWaits(t) \/ DetachWatcher(t)
       PROVE  RebuiltIsSubscribed'
  BY <1>0, <1>12 DEF WatchWaits, UnwatchWaits, DetachWatcher, Locked, IsPending, Goto,
    BackendTypeOK
<1>13. ASSUME NEW t \in Thread, NEW isCancelled \in BOOLEAN,
              WatchCancelled(t, isCancelled) \/ WatchSubscribed(t, isCancelled)
       PROVE  RebuiltIsSubscribed'
  BY <1>0, <1>13 DEF WatchCancelled, WatchSubscribed, Locked, Goto, BackendTypeOK
<1>14. ASSUME NEW t \in Thread, NEW isCancelled \in BOOLEAN, WatchScans(t, isCancelled)
       PROVE  RebuiltIsSubscribed'
  BY <1>0, <1>14 DEF WatchScans, Locked, IsPending, Goto, BackendTypeOK
<1>15. ASSUME NEW t \in Thread, ScanCompletes(t) \/ ScanCancelled(t) \/ ScanTruncated(t)
       PROVE  RebuiltIsSubscribed'
  BY <1>0, <1>15 DEF ScanCompletes, ScanCancelled, ScanTruncated, Watching, Goto,
    BackendTypeOK
<1>16. ASSUME NEW t \in Thread, ScanFails(t) \/ FinishFails(t) PROVE RebuiltIsSubscribed'
  BY <1>0, <1>16 DEF ScanFails, FinishFails, AbandonWatch, WakeAndGoto, Locked,
    BackendTypeOK
<1>17. ASSUME NEW t \in Thread, FinishWatch(t) PROVE RebuiltIsSubscribed'
  BY <1>0, <1>17 DEF FinishWatch, WakeAndGoto, Locked, BackendTypeOK
<1>18. ASSUME NEW t \in Thread, WatchUnref(t) PROVE RebuiltIsSubscribed'
  BY <1>0, <1>18 DEF WatchUnref, StopIfUnused, Stop, Goto, BackendTypeOK
<1>19. ASSUME NEW t \in Thread, NEW isWanted \in BOOLEAN, UnwatchKeeps(t, isWanted)
       PROVE  RebuiltIsSubscribed'
  BY <1>0, <1>19 DEF UnwatchKeeps, Back, Locked, Goto, BackendTypeOK
<1>20. ASSUME NEW t \in Thread, NEW isWanted \in BOOLEAN, UnwatchRemoves(t, isWanted)
       PROVE  RebuiltIsSubscribed'
  <2>1. where' = [where EXCEPT ![t] = "detach"] /\ UNCHANGED localVars
    BY <1>20 DEF UnwatchRemoves, Goto
  <2>2. \A u \in Thread :
          where[u] \in Subscribing => ~(on[u] = on[t] /\ subject[u] = subject[t])
    BY <1>0, <1>20 DEF UnwatchRemoves, IsPending, SubscribingIsPending
  <2>3. subscriptions' = [subscriptions EXCEPT ![on[t]] = @ \ {subject[t]}]
    BY <1>20 DEF UnwatchRemoves
  <2> QED
    BY <1>0, <2>1, <2>2, <2>3 DEF PlacesOK, BackendTypeOK
<1>21. ASSUME NEW t \in Thread, NEW isWanted \in BOOLEAN, UnwatchThrows(t, isWanted)
       PROVE  RebuiltIsSubscribed'
  BY <1>0, <1>21 DEF UnwatchThrows, Back, Locked, IsPending, Goto, BackendTypeOK
<1>22. ASSUME NEW t \in Thread, UnwatchUnrefs(t) PROVE RebuiltIsSubscribed'
  BY <1>0, <1>22 DEF UnwatchUnrefs, StopIfUnused, Stop, Back, Goto, BackendTypeOK
<1>23. ASSUME NEW b \in Backend, NEW S \in SUBSET Subject, Invalidate(b, S)
       PROVE  RebuiltIsSubscribed'
  BY <1>0, <1>23 DEF Invalidate, Invalidated, BackendTypeOK
<1>24. ASSUME NEW b \in Backend, BackendFails(b) \/ HandleError(b)
       PROVE  RebuiltIsSubscribed'
  BY <1>0, <1>24 DEF BackendFails, HandleError, BackendTypeOK
<1>25. ASSUME NEW b \in Backend, RemoveShared(b) PROVE RebuiltIsSubscribed'
  BY <1>0, <1>25 DEF RemoveShared, BackendTypeOK
<1>26. ASSUME NEW s \in Subject, NewSubject(s) PROVE RebuiltIsSubscribed'
  BY <1>0, <1>26 DEF NewSubject, BackendTypeOK
<1>27. CASE UNCHANGED backendVars
  BY <1>0, <1>27 DEF backendVars, BackendTypeOK
<1> QED
  BY <1>1, <1>2, <1>3, <1>4, <1>5, <1>6, <1>7, <1>8, <1>9, <1>10, <1>11, <1>12, <1>13,
    <1>14, <1>15, <1>16, <1>17, <1>18, <1>19, <1>20, <1>21, <1>22, <1>23, <1>24, <1>25,
    <1>26, <1>27
  DEF BackendNext, CallerStep, BackendStep

(* Only a subscribed watcher is invalidated, and Backend::watch gives back  *)
(* the invalidation of a rebuilt one only.                                  *)
LEMMA InvalidStep == BackendInv /\ [BackendNext]_backendVars => InvalidIsSubscribed'
<1> SUFFICES ASSUME BackendInv, [BackendNext]_backendVars PROVE InvalidIsSubscribed'
  OBVIOUS
<1> USE DEF InvalidIsSubscribed, registryVars, subscriptionVars, localVars
<1>0. BackendTypeOK /\ PlacesOK /\ RebuiltIsSubscribed /\ InvalidIsSubscribed
  BY DEF BackendInv
<1>1. ASSUME NEW t \in Thread, NEW n \in Name, GetBackend(t, n) PROVE InvalidIsSubscribed'
  BY <1>0, <1>1 DEF GetBackend, Goto, BackendTypeOK
<1>2. ASSUME NEW t \in Thread, FindDefault(t) PROVE InvalidIsSubscribed'
  BY <1>0, <1>2 DEF FindDefault, BackendTypeOK
<1>3. ASSUME NEW t \in Thread, FindBackend(t) PROVE InvalidIsSubscribed'
  BY <1>0, <1>3 DEF FindBackend, Reserved, Goto, BackendTypeOK
<1>4. ASSUME NEW t \in Thread, NEW b \in Backend, CreateBackend(t, b)
      PROVE  InvalidIsSubscribed'
  BY <1>0, <1>4 DEF CreateBackend, Unreferenced, Goto, BackendTypeOK
<1>5. ASSUME NEW t \in Thread, StartBackend(t) PROVE InvalidIsSubscribed'
  BY <1>0, <1>5 DEF StartBackend, Goto, BackendTypeOK
<1>6. ASSUME NEW t \in Thread, StartFails(t) PROVE InvalidIsSubscribed'
  BY <1>0, <1>6 DEF StartFails, Goto, BackendTypeOK
<1>7. ASSUME NEW t \in Thread, EmplaceBackend(t) PROVE InvalidIsSubscribed'
  BY <1>0, <1>7 DEF EmplaceBackend, Reserved, Stop, Goto, BackendTypeOK
<1>8. ASSUME NEW t \in Thread, ReleaseBackend(t) PROVE InvalidIsSubscribed'
  BY <1>0, <1>8 DEF ReleaseBackend, Goto, BackendTypeOK
<1>9. ASSUME NEW t \in Thread, LastUnref(t) PROVE InvalidIsSubscribed'
  BY <1>0, <1>9 DEF LastUnref, StopIfUnused, Stop, Goto, BackendTypeOK
<1>10. ASSUME NEW t \in Thread, NEW s \in Subject, CallWatch(t, s) \/ CallUnwatch(t, s)
       PROVE  InvalidIsSubscribed'
  BY <1>0, <1>10 DEF CallWatch, CallUnwatch, Goto, BackendTypeOK
<1>11. ASSUME NEW t \in Thread, NEW s \in Subject, NEW b \in Backend, CallUnwatchOn(t, b, s)
       PROVE  InvalidIsSubscribed'
  BY <1>0, <1>11 DEF CallUnwatchOn, Goto, BackendTypeOK
<1>12. ASSUME NEW t \in Thread, WatchWaits(t) \/ UnwatchWaits(t) \/ DetachWatcher(t)
       PROVE  InvalidIsSubscribed'
  BY <1>0, <1>12 DEF WatchWaits, UnwatchWaits, DetachWatcher, Locked, IsPending, Goto,
    BackendTypeOK
<1>13. ASSUME NEW t \in Thread, NEW isCancelled \in BOOLEAN,
              WatchCancelled(t, isCancelled) \/ WatchSubscribed(t, isCancelled)
       PROVE  InvalidIsSubscribed'
  BY <1>0, <1>13 DEF WatchCancelled, WatchSubscribed, Locked, Goto, BackendTypeOK
<1>14. ASSUME NEW t \in Thread, NEW isCancelled \in BOOLEAN, WatchScans(t, isCancelled)
       PROVE  InvalidIsSubscribed'
  BY <1>0, <1>14 DEF WatchScans, Locked, IsPending, Goto, BackendTypeOK
<1>15. ASSUME NEW t \in Thread, ScanCompletes(t) \/ ScanCancelled(t) \/ ScanTruncated(t)
       PROVE  InvalidIsSubscribed'
  BY <1>0, <1>15 DEF ScanCompletes, ScanCancelled, ScanTruncated, Watching, Goto,
    BackendTypeOK
<1>16. ASSUME NEW t \in Thread, ScanFails(t) \/ FinishFails(t) PROVE InvalidIsSubscribed'
  BY <1>0, <1>16, NoBackendAssumption DEF ScanFails, FinishFails, AbandonWatch, WakeAndGoto,
    Locked, PlacesOK, Inside, Unwatching, BackendTypeOK, RebuiltIsSubscribed, Subscribing
<1>17. ASSUME NEW t \in Thread, FinishWatch(t) PROVE InvalidIsSubscribed'
  BY <1>0, <1>17 DEF FinishWatch, WakeAndGoto, Locked, BackendTypeOK
<1>18. ASSUME NEW t \in Thread, WatchUnref(t) PROVE InvalidIsSubscribed'
  BY <1>0, <1>18 DEF WatchUnref, StopIfUnused, Stop, Goto, BackendTypeOK
<1>19. ASSUME NEW t \in Thread, NEW isWanted \in BOOLEAN, UnwatchKeeps(t, isWanted)
       PROVE  InvalidIsSubscribed'
  BY <1>0, <1>19 DEF UnwatchKeeps, Back, Locked, Goto, BackendTypeOK
<1>20. ASSUME NEW t \in Thread, NEW isWanted \in BOOLEAN, UnwatchRemoves(t, isWanted)
       PROVE  InvalidIsSubscribed'
  BY <1>0, <1>20 DEF UnwatchRemoves, Locked, IsPending, Goto, BackendTypeOK
<1>21. ASSUME NEW t \in Thread, NEW isWanted \in BOOLEAN, UnwatchThrows(t, isWanted)
       PROVE  InvalidIsSubscribed'
  BY <1>0, <1>21 DEF UnwatchThrows, Back, Locked, IsPending, Goto, BackendTypeOK
<1>22. ASSUME NEW t \in Thread, UnwatchUnrefs(t) PROVE InvalidIsSubscribed'
  BY <1>0, <1>22 DEF UnwatchUnrefs, StopIfUnused, Stop, Back, Goto, BackendTypeOK
<1>23. ASSUME NEW b \in Backend, NEW S \in SUBSET Subject, Invalidate(b, S)
       PROVE  InvalidIsSubscribed'
  BY <1>0, <1>23 DEF Invalidate, Invalidated, BackendTypeOK
<1>24. ASSUME NEW b \in Backend, BackendFails(b) \/ HandleError(b)
       PROVE  InvalidIsSubscribed'
  BY <1>0, <1>24 DEF BackendFails, HandleError, BackendTypeOK
<1>25. ASSUME NEW b \in Backend, RemoveShared(b) PROVE InvalidIsSubscribed'
  BY <1>0, <1>25 DEF RemoveShared, BackendTypeOK
<1>26. ASSUME NEW s \in Subject, NewSubject(s) PROVE InvalidIsSubscribed'
  BY <1>0, <1>26 DEF NewSubject, BackendTypeOK
<1>27. CASE UNCHANGED backendVars
  BY <1>0, <1>27 DEF backendVars, BackendTypeOK
<1> QED
  BY <1>1, <1>2, <1>3, <1>4, <1>5, <1>6, <1>7, <1>8, <1>9, <1>10, <1>11, <1>12, <1>13,
    <1>14, <1>15, <1>16, <1>17, <1>18, <1>19, <1>20, <1>21, <1>22, <1>23, <1>24, <1>25,
    <1>26, <1>27
  DEF BackendNext, CallerStep, BackendStep

(* Nobody finds a backend in the registry before emplace has put it there.  *)
LEMMA CreatorsStep == BackendInv /\ [BackendNext]_backendVars => CreatorsAreAlone'
<1> SUFFICES ASSUME BackendInv, [BackendNext]_backendVars PROVE CreatorsAreAlone'
  OBVIOUS
<1> USE DEF CreatorsAreAlone, Creating, Registered, registryVars, subscriptionVars,
  localVars
<1>0. BackendTypeOK /\ PlacesOK /\ PendingHasThread /\ CreatorsAreAlone
  BY DEF BackendInv
<1>1. ASSUME NEW t \in Thread, NEW n \in Name, GetBackend(t, n) PROVE CreatorsAreAlone'
  BY <1>0, <1>1 DEF GetBackend, Goto, BackendTypeOK
<1>2. ASSUME NEW t \in Thread, FindDefault(t) PROVE CreatorsAreAlone'
  BY <1>0, <1>2 DEF FindDefault, BackendTypeOK
<1>3. ASSUME NEW t \in Thread, FindBackend(t) PROVE CreatorsAreAlone'
  BY <1>0, <1>3 DEF FindBackend, Reserved, Goto, BackendTypeOK
<1>4. ASSUME NEW t \in Thread, NEW b \in Backend, CreateBackend(t, b)
      PROVE  CreatorsAreAlone'
  BY <1>0, <1>4 DEF CreateBackend, Unreferenced, Goto, BackendTypeOK
<1>5. ASSUME NEW t \in Thread, StartBackend(t) PROVE CreatorsAreAlone'
  BY <1>0, <1>5 DEF StartBackend, Goto, PlacesOK, Inside, Unwatching, BackendTypeOK
<1>6. ASSUME NEW t \in Thread, StartFails(t) PROVE CreatorsAreAlone'
  BY <1>0, <1>6 DEF StartFails, Goto, PlacesOK, Inside, Unwatching, BackendTypeOK
<1>7. ASSUME NEW t \in Thread, EmplaceBackend(t) PROVE CreatorsAreAlone'
  BY <1>0, <1>7 DEF EmplaceBackend, Reserved, Stop, Goto, PlacesOK, Inside, Unwatching,
    BackendTypeOK
<1>8. ASSUME NEW t \in Thread, ReleaseBackend(t) PROVE CreatorsAreAlone'
  BY <1>0, <1>8 DEF ReleaseBackend, Goto, PlacesOK, Inside, Unwatching, BackendTypeOK
<1>9. ASSUME NEW t \in Thread, LastUnref(t) PROVE CreatorsAreAlone'
  BY <1>0, <1>9 DEF LastUnref, StopIfUnused, Stop, Goto, PlacesOK, Inside, Unwatching,
    BackendTypeOK
<1>10. ASSUME NEW t \in Thread, NEW s \in Subject, CallWatch(t, s) \/ CallUnwatch(t, s)
       PROVE  CreatorsAreAlone'
  BY <1>0, <1>10 DEF CallWatch, CallUnwatch, Goto, BackendTypeOK
<1>11. ASSUME NEW t \in Thread, NEW s \in Subject, NEW b \in Backend, CallUnwatchOn(t, b, s)
       PROVE  CreatorsAreAlone'
  BY <1>0, <1>11 DEF CallUnwatchOn, Goto, PlacesOK, Inside, Unwatching, BackendTypeOK
<1>12. ASSUME NEW t \in Thread, WatchWaits(t) \/ UnwatchWaits(t) \/ DetachWatcher(t)
       PROVE  CreatorsAreAlone'
  <2>1. on[t] \in Backend /\ where[t] \in {"watch", "unwatch", "detach"}
    BY <1>0, <1>12 DEF WatchWaits, UnwatchWaits, DetachWatcher, Locked, PlacesOK,
      BackendTypeOK
  <2>2. ASSUME NEW u \in Thread, where[u] \in Creating PROVE on[u] # on[t]
    <3>1. CASE where[t] = "unwatch"
      <4>1. subject[t] \in Subject /\ subject[t] \in pending[on[t]]
        BY <1>0, <1>12, <3>1 DEF WatchWaits, UnwatchWaits, DetachWatcher, Locked, IsPending,
          PlacesOK, Unwatching
      <4>2. PICK v \in Thread : where[v] \in Subscribing /\ on[v] = on[t]
        BY <1>0, <2>1, <4>1 DEF PendingHasThread
      <4> QED
        BY <1>0, <2>2, <4>2 DEF Subscribing
    <3>2. CASE where[t] # "unwatch"
      BY <1>0, <2>1, <2>2, <3>2
    <3> QED
      BY <3>1, <3>2
  <2>3. UNCHANGED <<shared, phase, subscriptions, on, reserving>>
    BY <1>12 DEF WatchWaits, UnwatchWaits, DetachWatcher
  <2>4. /\ \A u \in Thread \ {t} : where'[u] = where[u]
        /\ where'[t] \in {"watchBlocked", "unwatchBlocked", "unwatchUnref"}
    BY <1>0, <1>12 DEF WatchWaits, UnwatchWaits, DetachWatcher, Goto, BackendTypeOK
  <2> QED
    BY <1>0, <2>2, <2>3, <2>4
<1>13. ASSUME NEW t \in Thread, NEW isCancelled \in BOOLEAN,
              WatchCancelled(t, isCancelled) \/ WatchSubscribed(t, isCancelled)
       PROVE  CreatorsAreAlone'
  BY <1>0, <1>13 DEF WatchCancelled, WatchSubscribed, Locked, Goto, BackendTypeOK
<1>14. ASSUME NEW t \in Thread, NEW isCancelled \in BOOLEAN, WatchScans(t, isCancelled)
       PROVE  CreatorsAreAlone'
  BY <1>0, <1>14 DEF WatchScans, Locked, IsPending, Goto, BackendTypeOK
<1>15. ASSUME NEW t \in Thread, ScanCompletes(t) \/ ScanCancelled(t) \/ ScanTruncated(t)
       PROVE  CreatorsAreAlone'
  BY <1>0, <1>15 DEF ScanCompletes, ScanCancelled, ScanTruncated, Watching, Goto,
    BackendTypeOK
<1>16. ASSUME NEW t \in Thread, ScanFails(t) \/ FinishFails(t) PROVE CreatorsAreAlone'
  BY <1>0, <1>16 DEF ScanFails, FinishFails, AbandonWatch, WakeAndGoto, Locked,
    BackendTypeOK
<1>17. ASSUME NEW t \in Thread, FinishWatch(t) PROVE CreatorsAreAlone'
  BY <1>0, <1>17 DEF FinishWatch, WakeAndGoto, Locked, BackendTypeOK
<1>18. ASSUME NEW t \in Thread, WatchUnref(t) PROVE CreatorsAreAlone'
  BY <1>0, <1>18 DEF WatchUnref, StopIfUnused, Stop, Goto, PlacesOK, Inside, Unwatching,
    BackendTypeOK
<1>19. ASSUME NEW t \in Thread, NEW isWanted \in BOOLEAN, UnwatchKeeps(t, isWanted)
       PROVE  CreatorsAreAlone'
  BY <1>0, <1>19 DEF UnwatchKeeps, Back, Locked, Goto, PlacesOK, Inside, Unwatching,
    BackendTypeOK
<1>20. ASSUME NEW t \in Thread, NEW isWanted \in BOOLEAN, UnwatchRemoves(t, isWanted)
       PROVE  CreatorsAreAlone'
  BY <1>0, <1>20 DEF UnwatchRemoves, Locked, IsPending, Goto, BackendTypeOK
<1>21. ASSUME NEW t \in Thread, NEW isWanted \in BOOLEAN, UnwatchThrows(t, isWanted)
       PROVE  CreatorsAreAlone'
  BY <1>0, <1>21 DEF UnwatchThrows, Back, Locked, IsPending, Goto, PlacesOK, Inside,
    Unwatching, BackendTypeOK
<1>22. ASSUME NEW t \in Thread, UnwatchUnrefs(t) PROVE CreatorsAreAlone'
  BY <1>0, <1>22 DEF UnwatchUnrefs, StopIfUnused, Stop, Back, Goto, PlacesOK, Inside,
    Unwatching, BackendTypeOK
<1>23. ASSUME NEW b \in Backend, NEW S \in SUBSET Subject, Invalidate(b, S)
       PROVE  CreatorsAreAlone'
  BY <1>0, <1>23 DEF Invalidate, Invalidated, BackendTypeOK
<1>24. ASSUME NEW b \in Backend, BackendFails(b) \/ HandleError(b) PROVE CreatorsAreAlone'
  BY <1>0, <1>24 DEF BackendFails, HandleError, PlacesOK, Inside, Unwatching, BackendTypeOK
<1>25. ASSUME NEW b \in Backend, RemoveShared(b) PROVE CreatorsAreAlone'
  <2>1. \A n \in Name : shared'[n] = NoBackend \/ shared'[n] = shared[n]
    BY <1>0, <1>25 DEF RemoveShared, BackendTypeOK
  <2>2. phase' = [phase EXCEPT ![b] = "retired"] /\ phase[b] = "failed"
    BY <1>25 DEF RemoveShared
  <2>3. UNCHANGED <<subscriptions, where, on, reserving>>
    BY <1>25 DEF RemoveShared
  <2> QED
    BY <1>0, <2>1, <2>2, <2>3, NoBackendAssumption DEF PlacesOK, BackendTypeOK
<1>26. ASSUME NEW s \in Subject, NewSubject(s) PROVE CreatorsAreAlone'
  BY <1>0, <1>26 DEF NewSubject, BackendTypeOK
<1>27. CASE UNCHANGED backendVars
  BY <1>0, <1>27 DEF backendVars, BackendTypeOK
<1> QED
  BY <1>1, <1>2, <1>3, <1>4, <1>5, <1>6, <1>7, <1>8, <1>9, <1>10, <1>11, <1>12, <1>13,
    <1>14, <1>15, <1>16, <1>17, <1>18, <1>19, <1>20, <1>21, <1>22, <1>23, <1>24, <1>25,
    <1>26, <1>27
  DEF BackendNext, CallerStep, BackendStep

----------------------------------------------------------------------------
(* Nothing uses a backend before it is registered. *)
LEMMA CreatedIsUnused ==
  ASSUME BackendInv, NEW t \in Thread, where[t] \in Creating
  PROVE  on[t] \in Backend /\ ~Registered(on[t]) /\ ~BackendInUse(on[t])
<1>0. BackendTypeOK /\ PlacesOK /\ ReservationsAreHeld /\ PendingHasThread /\ CreatorsAreAlone
  BY DEF BackendInv
<1>1. on[t] \in Backend /\ ~Registered(on[t]) /\ subscriptions[on[t]] = {}
  BY <1>0 DEF CreatorsAreAlone, PlacesOK, Creating, BackendTypeOK
<1>2. pending[on[t]] = {}
  BY <1>0, <1>1 DEF PendingHasThread, CreatorsAreAlone, Creating, Subscribing, BackendTypeOK
<1>3. BackendHolders(on[t]) = {}
  BY <1>0 DEF BackendHolders, CreatorsAreAlone, PlacesOK, Creating, Inside, Unwatching
<1>4. reservations[on[t]] = 0
  BY <1>0, <1>1, <1>3, FS_EmptySet DEF ReservationsAreHeld
<1> QED
  BY <1>1, <1>2, <1>4 DEF BackendInUse

(* What getShared puts into the registry has been started, and whoever      *)
(* stops it takes it out first.                                             *)
LEMMA StartedStep == BackendInv /\ [BackendNext]_backendVars => RegisteredIsStarted'
<1> SUFFICES ASSUME BackendInv, [BackendNext]_backendVars PROVE RegisteredIsStarted'
  OBVIOUS
<1> USE DEF RegisteredIsStarted, Registered, registryVars, subscriptionVars, localVars
<1>0. BackendTypeOK /\ PlacesOK /\ CreatorsAreAlone /\ RegisteredIsStarted
  BY DEF BackendInv
<1>1. ASSUME NEW t \in Thread, NEW n \in Name, GetBackend(t, n) PROVE RegisteredIsStarted'
  BY <1>0, <1>1 DEF GetBackend, Goto, BackendTypeOK
<1>2. ASSUME NEW t \in Thread, FindDefault(t) PROVE RegisteredIsStarted'
  BY <1>0, <1>2 DEF FindDefault, BackendTypeOK
<1>3. ASSUME NEW t \in Thread, FindBackend(t) PROVE RegisteredIsStarted'
  BY <1>0, <1>3 DEF FindBackend, Reserved, Goto, BackendTypeOK
<1>4. ASSUME NEW t \in Thread, NEW b \in Backend, CreateBackend(t, b)
      PROVE  RegisteredIsStarted'
  BY <1>0, <1>4 DEF CreateBackend, Unreferenced, Goto, BackendTypeOK
<1>5. ASSUME NEW t \in Thread, StartBackend(t) PROVE RegisteredIsStarted'
  BY <1>0, <1>5 DEF StartBackend, Goto, BackendTypeOK
<1>6. ASSUME NEW t \in Thread, StartFails(t) PROVE RegisteredIsStarted'
  BY <1>0, <1>6 DEF StartFails, Goto, BackendTypeOK
<1>7. ASSUME NEW t \in Thread, EmplaceBackend(t) PROVE RegisteredIsStarted'
  BY <1>0, <1>7, NoBackendAssumption DEF EmplaceBackend, Reserved, Stop, Goto, PlacesOK,
    Inside, Unwatching, BackendTypeOK, CreatorsAreAlone, Creating
<1>8. ASSUME NEW t \in Thread, ReleaseBackend(t) PROVE RegisteredIsStarted'
  BY <1>0, <1>8 DEF ReleaseBackend, Goto, BackendTypeOK
<1>9. ASSUME NEW t \in Thread, LastUnref(t) PROVE RegisteredIsStarted'
  BY <1>0, <1>9, NoBackendAssumption DEF LastUnref, StopIfUnused, Stop, Goto, PlacesOK,
    Inside, Unwatching, BackendTypeOK
<1>10. ASSUME NEW t \in Thread, NEW s \in Subject, CallWatch(t, s) \/ CallUnwatch(t, s)
       PROVE  RegisteredIsStarted'
  BY <1>0, <1>10 DEF CallWatch, CallUnwatch, Goto, BackendTypeOK
<1>11. ASSUME NEW t \in Thread, NEW s \in Subject, NEW b \in Backend, CallUnwatchOn(t, b, s)
       PROVE  RegisteredIsStarted'
  BY <1>0, <1>11 DEF CallUnwatchOn, Goto, BackendTypeOK
<1>12. ASSUME NEW t \in Thread, WatchWaits(t) \/ UnwatchWaits(t) \/ DetachWatcher(t)
       PROVE  RegisteredIsStarted'
  BY <1>0, <1>12 DEF WatchWaits, UnwatchWaits, DetachWatcher, Locked, IsPending, Goto,
    BackendTypeOK
<1>13. ASSUME NEW t \in Thread, NEW isCancelled \in BOOLEAN,
              WatchCancelled(t, isCancelled) \/ WatchSubscribed(t, isCancelled)
       PROVE  RegisteredIsStarted'
  BY <1>0, <1>13 DEF WatchCancelled, WatchSubscribed, Locked, Goto, BackendTypeOK
<1>14. ASSUME NEW t \in Thread, NEW isCancelled \in BOOLEAN, WatchScans(t, isCancelled)
       PROVE  RegisteredIsStarted'
  BY <1>0, <1>14 DEF WatchScans, Locked, IsPending, Goto, BackendTypeOK
<1>15. ASSUME NEW t \in Thread, ScanCompletes(t) \/ ScanCancelled(t) \/ ScanTruncated(t)
       PROVE  RegisteredIsStarted'
  BY <1>0, <1>15 DEF ScanCompletes, ScanCancelled, ScanTruncated, Watching, Goto,
    BackendTypeOK
<1>16. ASSUME NEW t \in Thread, ScanFails(t) \/ FinishFails(t) PROVE RegisteredIsStarted'
  BY <1>0, <1>16 DEF ScanFails, FinishFails, AbandonWatch, WakeAndGoto, Locked,
    BackendTypeOK
<1>17. ASSUME NEW t \in Thread, FinishWatch(t) PROVE RegisteredIsStarted'
  BY <1>0, <1>17 DEF FinishWatch, WakeAndGoto, Locked, BackendTypeOK
<1>18. ASSUME NEW t \in Thread, WatchUnref(t) PROVE RegisteredIsStarted'
  BY <1>0, <1>18, NoBackendAssumption DEF WatchUnref, StopIfUnused, Stop, Goto, PlacesOK,
    Inside, Unwatching, BackendTypeOK
<1>19. ASSUME NEW t \in Thread, NEW isWanted \in BOOLEAN, UnwatchKeeps(t, isWanted)
       PROVE  RegisteredIsStarted'
  BY <1>0, <1>19 DEF UnwatchKeeps, Back, Locked, Goto, BackendTypeOK
<1>20. ASSUME NEW t \in Thread, NEW isWanted \in BOOLEAN, UnwatchRemoves(t, isWanted)
       PROVE  RegisteredIsStarted'
  BY <1>0, <1>20 DEF UnwatchRemoves, Locked, IsPending, Goto, BackendTypeOK
<1>21. ASSUME NEW t \in Thread, NEW isWanted \in BOOLEAN, UnwatchThrows(t, isWanted)
       PROVE  RegisteredIsStarted'
  BY <1>0, <1>21 DEF UnwatchThrows, Back, Locked, IsPending, Goto, BackendTypeOK
<1>22. ASSUME NEW t \in Thread, UnwatchUnrefs(t) PROVE RegisteredIsStarted'
  BY <1>0, <1>22, NoBackendAssumption DEF UnwatchUnrefs, StopIfUnused, Stop, Back, Goto,
    PlacesOK, Inside, Unwatching, BackendTypeOK
<1>23. ASSUME NEW b \in Backend, NEW S \in SUBSET Subject, Invalidate(b, S)
       PROVE  RegisteredIsStarted'
  BY <1>0, <1>23 DEF Invalidate, Invalidated, BackendTypeOK
<1>24. ASSUME NEW b \in Backend, BackendFails(b) \/ HandleError(b)
       PROVE  RegisteredIsStarted'
  BY <1>0, <1>24 DEF BackendFails, HandleError, BackendTypeOK
<1>25. ASSUME NEW b \in Backend, RemoveShared(b) PROVE RegisteredIsStarted'
  BY <1>0, <1>25, NoBackendAssumption DEF RemoveShared, PlacesOK, Inside, Unwatching,
    BackendTypeOK
<1>26. ASSUME NEW s \in Subject, NewSubject(s) PROVE RegisteredIsStarted'
  BY <1>0, <1>26 DEF NewSubject, BackendTypeOK
<1>27. CASE UNCHANGED backendVars
  BY <1>0, <1>27 DEF backendVars, BackendTypeOK
<1> QED
  BY <1>1, <1>2, <1>3, <1>4, <1>5, <1>6, <1>7, <1>8, <1>9, <1>10, <1>11, <1>12, <1>13,
    <1>14, <1>15, <1>16, <1>17, <1>18, <1>19, <1>20, <1>21, <1>22, <1>23, <1>24, <1>25,
    <1>26, <1>27
  DEF BackendNext, CallerStep, BackendStep

(* unref stops a backend when nothing is subscribed, pending or reserved,   *)
(* and after that nobody can reserve it.                                    *)
LEMMA StoppedStep == BackendInv /\ [BackendNext]_backendVars => StoppedIsUnused'
<1> SUFFICES ASSUME BackendInv, [BackendNext]_backendVars PROVE StoppedIsUnused'
  OBVIOUS
<1> USE DEF StoppedIsUnused, BackendInUse, RegisteredIsStarted, Registered, registryVars,
  subscriptionVars, localVars
<1>0. BackendTypeOK /\ PlacesOK /\ RegisteredIsStarted /\ StoppedIsUnused
  BY DEF BackendInv
<1>1. ASSUME NEW t \in Thread, NEW n \in Name, GetBackend(t, n) PROVE StoppedIsUnused'
  BY <1>0, <1>1 DEF GetBackend, Goto, BackendTypeOK
<1>2. ASSUME NEW t \in Thread, FindDefault(t) PROVE StoppedIsUnused'
  BY <1>0, <1>2 DEF FindDefault, BackendTypeOK
<1>3. ASSUME NEW t \in Thread, FindBackend(t) PROVE StoppedIsUnused'
  BY <1>0, <1>3 DEF FindBackend, Reserved, Goto, BackendTypeOK
<1>4. ASSUME NEW t \in Thread, NEW b \in Backend, CreateBackend(t, b) PROVE StoppedIsUnused'
  BY <1>0, <1>4 DEF CreateBackend, Unreferenced, Goto, BackendTypeOK
<1>5. ASSUME NEW t \in Thread, StartBackend(t) PROVE StoppedIsUnused'
  BY <1>0, <1>5 DEF StartBackend, Goto, BackendTypeOK
<1>6. ASSUME NEW t \in Thread, StartFails(t) PROVE StoppedIsUnused'
  BY <1>0, <1>6 DEF StartFails, Goto, BackendTypeOK
<1>7. ASSUME NEW t \in Thread, EmplaceBackend(t) PROVE StoppedIsUnused'
  <2>1. where[t] \in Creating /\ on[t] \in Backend
    BY <1>0, <1>7 DEF EmplaceBackend, Creating, PlacesOK, BackendTypeOK
  <2>2. subscriptions[on[t]] = {} /\ pending[on[t]] = {} /\ ~(reservations[on[t]] > 0)
    BY <2>1, CreatedIsUnused
  <2>3. UNCHANGED <<subscriptions, pending>>
    BY <1>7 DEF EmplaceBackend
  <2>4. CASE shared[name[t]] = NoBackend
    <3>1. phase' = phase /\ reservations' = Reserved(on[t])
      BY <1>7, <2>4 DEF EmplaceBackend
    <3>2. phase[on[t]] # "stopped"
      BY <1>7 DEF EmplaceBackend, BackendInv, CreatorsAreAlone, Creating
    <3> QED
      BY <1>0, <2>1, <2>3, <3>1, <3>2 DEF Reserved, BackendTypeOK
  <2>5. CASE shared[name[t]] # NoBackend
    <3>1. Stop(on[t]) /\ reservations' = Reserved(shared[name[t]])
      BY <1>7, <2>5 DEF EmplaceBackend
    <3>2. shared[name[t]] \in Backend /\ phase[shared[name[t]]] # "stopped"
      BY <1>0, <2>5 DEF BackendTypeOK
    <3>3. shared[name[t]] # on[t]
      BY <1>0, <2>1, CreatedIsUnused DEF BackendTypeOK
    <3> QED
      BY <1>0, <2>1, <2>2, <2>3, <3>1, <3>2, <3>3 DEF Stop, Reserved, BackendTypeOK
  <2> QED
    BY <2>4, <2>5
<1>8. ASSUME NEW t \in Thread, ReleaseBackend(t) PROVE StoppedIsUnused'
  BY <1>0, <1>8, BackendIsHeld DEF ReleaseBackend, Goto, BackendTypeOK
<1>9. ASSUME NEW t \in Thread, LastUnref(t) PROVE StoppedIsUnused'
  BY <1>0, <1>9 DEF LastUnref, StopIfUnused, Stop, Goto, BackendTypeOK
<1>10. ASSUME NEW t \in Thread, NEW s \in Subject, CallWatch(t, s) \/ CallUnwatch(t, s)
       PROVE  StoppedIsUnused'
  BY <1>0, <1>10 DEF CallWatch, CallUnwatch, Goto, BackendTypeOK
<1>11. ASSUME NEW t \in Thread, NEW s \in Subject, NEW b \in Backend, CallUnwatchOn(t, b, s)
       PROVE  StoppedIsUnused'
  BY <1>0, <1>11 DEF CallUnwatchOn, Goto, BackendTypeOK
<1>12. ASSUME NEW t \in Thread, WatchWaits(t) \/ UnwatchWaits(t) \/ DetachWatcher(t)
       PROVE  StoppedIsUnused'
  BY <1>0, <1>12 DEF WatchWaits, UnwatchWaits, DetachWatcher, Locked, IsPending, Goto,
    BackendTypeOK
<1>13. ASSUME NEW t \in Thread, NEW isCancelled \in BOOLEAN,
              WatchCancelled(t, isCancelled) \/ WatchSubscribed(t, isCancelled)
       PROVE  StoppedIsUnused'
  BY <1>0, <1>13 DEF WatchCancelled, WatchSubscribed, Locked, Goto, BackendTypeOK
<1>14. ASSUME NEW t \in Thread, NEW isCancelled \in BOOLEAN, WatchScans(t, isCancelled)
       PROVE  StoppedIsUnused'
  BY <1>0, <1>14, BackendIsHeld DEF WatchScans, Locked, IsPending, Goto, PlacesOK, Inside,
    Unwatching, BackendTypeOK
<1>15. ASSUME NEW t \in Thread, ScanCompletes(t) \/ ScanCancelled(t) \/ ScanTruncated(t)
       PROVE  StoppedIsUnused'
  BY <1>0, <1>15 DEF ScanCompletes, ScanCancelled, ScanTruncated, Watching, Goto,
    BackendTypeOK
<1>16. ASSUME NEW t \in Thread, ScanFails(t) \/ FinishFails(t) PROVE StoppedIsUnused'
  BY <1>0, <1>16 DEF ScanFails, FinishFails, AbandonWatch, WakeAndGoto, Locked,
    BackendTypeOK
<1>17. ASSUME NEW t \in Thread, FinishWatch(t) PROVE StoppedIsUnused'
  BY <1>0, <1>17, BackendIsHeld DEF FinishWatch, WakeAndGoto, Locked, PlacesOK, Inside,
    Unwatching, BackendTypeOK
<1>18. ASSUME NEW t \in Thread, WatchUnref(t) PROVE StoppedIsUnused'
  BY <1>0, <1>18 DEF WatchUnref, StopIfUnused, Stop, Goto, BackendTypeOK
<1>19. ASSUME NEW t \in Thread, NEW isWanted \in BOOLEAN, UnwatchKeeps(t, isWanted)
       PROVE  StoppedIsUnused'
  BY <1>0, <1>19 DEF UnwatchKeeps, Back, Locked, Goto, BackendTypeOK
<1>20. ASSUME NEW t \in Thread, NEW isWanted \in BOOLEAN, UnwatchRemoves(t, isWanted)
       PROVE  StoppedIsUnused'
  BY <1>0, <1>20 DEF UnwatchRemoves, Locked, IsPending, Goto, BackendTypeOK
<1>21. ASSUME NEW t \in Thread, NEW isWanted \in BOOLEAN, UnwatchThrows(t, isWanted)
       PROVE  StoppedIsUnused'
  BY <1>0, <1>21 DEF UnwatchThrows, Back, Locked, IsPending, Goto, BackendTypeOK
<1>22. ASSUME NEW t \in Thread, UnwatchUnrefs(t) PROVE StoppedIsUnused'
  BY <1>0, <1>22 DEF UnwatchUnrefs, StopIfUnused, Stop, Back, Goto, BackendTypeOK
<1>23. ASSUME NEW b \in Backend, NEW S \in SUBSET Subject, Invalidate(b, S)
       PROVE  StoppedIsUnused'
  BY <1>0, <1>23 DEF Invalidate, Invalidated, BackendTypeOK
<1>24. ASSUME NEW b \in Backend, BackendFails(b) \/ HandleError(b) PROVE StoppedIsUnused'
  BY <1>0, <1>24 DEF BackendFails, HandleError, BackendTypeOK
<1>25. ASSUME NEW b \in Backend, RemoveShared(b) PROVE StoppedIsUnused'
  BY <1>0, <1>25 DEF RemoveShared, BackendTypeOK
<1>26. ASSUME NEW s \in Subject, NewSubject(s) PROVE StoppedIsUnused'
  BY <1>0, <1>26 DEF NewSubject, BackendTypeOK
<1>27. CASE UNCHANGED backendVars
  BY <1>0, <1>27 DEF backendVars, BackendTypeOK
<1> QED
  BY <1>1, <1>2, <1>3, <1>4, <1>5, <1>6, <1>7, <1>8, <1>9, <1>10, <1>11, <1>12, <1>13,
    <1>14, <1>15, <1>16, <1>17, <1>18, <1>19, <1>20, <1>21, <1>22, <1>23, <1>24, <1>25,
    <1>26, <1>27
  DEF BackendNext, CallerStep, BackendStep

(* A running thread belongs to a registered backend or to one that is about *)
(* to be registered.                                                        *)
LEMMA KnownStep == BackendInv /\ [BackendNext]_backendVars => RunningIsKnown'
<1> SUFFICES ASSUME BackendInv, [BackendNext]_backendVars PROVE RunningIsKnown'
  OBVIOUS
<1> USE DEF RunningIsKnown, Registered, registryVars, subscriptionVars, localVars
<1>0. BackendTypeOK /\ PlacesOK /\ RunningIsKnown
  BY DEF BackendInv
<1>1. ASSUME NEW t \in Thread, NEW n \in Name, GetBackend(t, n) PROVE RunningIsKnown'
  BY <1>0, <1>1 DEF GetBackend, Goto, BackendTypeOK
<1>2. ASSUME NEW t \in Thread, FindDefault(t) PROVE RunningIsKnown'
  BY <1>0, <1>2 DEF FindDefault, BackendTypeOK
<1>3. ASSUME NEW t \in Thread, FindBackend(t) PROVE RunningIsKnown'
  BY <1>0, <1>3 DEF FindBackend, Reserved, Goto, BackendTypeOK
<1>4. ASSUME NEW t \in Thread, NEW b \in Backend, CreateBackend(t, b) PROVE RunningIsKnown'
  BY <1>0, <1>4 DEF CreateBackend, Unreferenced, Goto, BackendTypeOK
<1>5. ASSUME NEW t \in Thread, StartBackend(t) PROVE RunningIsKnown'
  BY <1>0, <1>5 DEF StartBackend, Goto, BackendTypeOK
<1>6. ASSUME NEW t \in Thread, StartFails(t) PROVE RunningIsKnown'
  BY <1>0, <1>6 DEF StartFails, Goto, BackendTypeOK
<1>7. ASSUME NEW t \in Thread, EmplaceBackend(t) PROVE RunningIsKnown'
  BY <1>0, <1>7, NoBackendAssumption DEF EmplaceBackend, Reserved, Stop, Goto, PlacesOK,
    Inside, Unwatching, BackendTypeOK
<1>8. ASSUME NEW t \in Thread, ReleaseBackend(t) PROVE RunningIsKnown'
  BY <1>0, <1>8 DEF ReleaseBackend, Goto, BackendTypeOK
<1>9. ASSUME NEW t \in Thread, LastUnref(t) PROVE RunningIsKnown'
  BY <1>0, <1>9 DEF LastUnref, StopIfUnused, Stop, Goto, BackendTypeOK
<1>10. ASSUME NEW t \in Thread, NEW s \in Subject, CallWatch(t, s) \/ CallUnwatch(t, s)
       PROVE  RunningIsKnown'
  BY <1>0, <1>10 DEF CallWatch, CallUnwatch, Goto, BackendTypeOK
<1>11. ASSUME NEW t \in Thread, NEW s \in Subject, NEW b \in Backend, CallUnwatchOn(t, b, s)
       PROVE  RunningIsKnown'
  BY <1>0, <1>11 DEF CallUnwatchOn, Goto, BackendTypeOK
<1>12. ASSUME NEW t \in Thread, WatchWaits(t) \/ UnwatchWaits(t) \/ DetachWatcher(t)
       PROVE  RunningIsKnown'
  BY <1>0, <1>12 DEF WatchWaits, UnwatchWaits, DetachWatcher, Locked, IsPending, Goto,
    BackendTypeOK
<1>13. ASSUME NEW t \in Thread, NEW isCancelled \in BOOLEAN,
              WatchCancelled(t, isCancelled) \/ WatchSubscribed(t, isCancelled)
       PROVE  RunningIsKnown'
  BY <1>0, <1>13 DEF WatchCancelled, WatchSubscribed, Locked, Goto, BackendTypeOK
<1>14. ASSUME NEW t \in Thread, NEW isCancelled \in BOOLEAN, WatchScans(t, isCancelled)
       PROVE  RunningIsKnown'
  BY <1>0, <1>14 DEF WatchScans, Locked, IsPending, Goto, BackendTypeOK
<1>15. ASSUME NEW t \in Thread, ScanCompletes(t) \/ ScanCancelled(t) \/ ScanTruncated(t)
       PROVE  RunningIsKnown'
  BY <1>0, <1>15 DEF ScanCompletes, ScanCancelled, ScanTruncated, Watching, Goto,
    BackendTypeOK
<1>16. ASSUME NEW t \in Thread, ScanFails(t) \/ FinishFails(t) PROVE RunningIsKnown'
  BY <1>0, <1>16 DEF ScanFails, FinishFails, AbandonWatch, WakeAndGoto, Locked,
    BackendTypeOK
<1>17. ASSUME NEW t \in Thread, FinishWatch(t) PROVE RunningIsKnown'
  BY <1>0, <1>17 DEF FinishWatch, WakeAndGoto, Locked, BackendTypeOK
<1>18. ASSUME NEW t \in Thread, WatchUnref(t) PROVE RunningIsKnown'
  BY <1>0, <1>18 DEF WatchUnref, StopIfUnused, Stop, Goto, BackendTypeOK
<1>19. ASSUME NEW t \in Thread, NEW isWanted \in BOOLEAN, UnwatchKeeps(t, isWanted)
       PROVE  RunningIsKnown'
  BY <1>0, <1>19 DEF UnwatchKeeps, Back, Locked, Goto, BackendTypeOK
<1>20. ASSUME NEW t \in Thread, NEW isWanted \in BOOLEAN, UnwatchRemoves(t, isWanted)
       PROVE  RunningIsKnown'
  BY <1>0, <1>20 DEF UnwatchRemoves, Locked, IsPending, Goto, BackendTypeOK
<1>21. ASSUME NEW t \in Thread, NEW isWanted \in BOOLEAN, UnwatchThrows(t, isWanted)
       PROVE  RunningIsKnown'
  BY <1>0, <1>21 DEF UnwatchThrows, Back, Locked, IsPending, Goto, BackendTypeOK
<1>22. ASSUME NEW t \in Thread, UnwatchUnrefs(t) PROVE RunningIsKnown'
  BY <1>0, <1>22 DEF UnwatchUnrefs, StopIfUnused, Stop, Back, Goto, PlacesOK, Inside,
    Unwatching, BackendTypeOK
<1>23. ASSUME NEW b \in Backend, NEW S \in SUBSET Subject, Invalidate(b, S)
       PROVE  RunningIsKnown'
  BY <1>0, <1>23 DEF Invalidate, Invalidated, BackendTypeOK
<1>24. ASSUME NEW b \in Backend, BackendFails(b) \/ HandleError(b) PROVE RunningIsKnown'
  BY <1>0, <1>24 DEF BackendFails, HandleError, BackendTypeOK
<1>25. ASSUME NEW b \in Backend, RemoveShared(b) PROVE RunningIsKnown'
  BY <1>0, <1>25 DEF RemoveShared, BackendTypeOK
<1>26. ASSUME NEW s \in Subject, NewSubject(s) PROVE RunningIsKnown'
  BY <1>0, <1>26 DEF NewSubject, BackendTypeOK
<1>27. CASE UNCHANGED backendVars
  BY <1>0, <1>27 DEF backendVars, BackendTypeOK
<1> QED
  BY <1>1, <1>2, <1>3, <1>4, <1>5, <1>6, <1>7, <1>8, <1>9, <1>10, <1>11, <1>12, <1>13,
    <1>14, <1>15, <1>16, <1>17, <1>18, <1>19, <1>20, <1>21, <1>22, <1>23, <1>24, <1>25,
    <1>26, <1>27
  DEF BackendNext, CallerStep, BackendStep

----------------------------------------------------------------------------
(* A backend whose thread has ended leaves the registry before its watchers *)
(* can be subscribed again.                                                 *)
LEMMA EndedStep == BackendInv /\ [BackendNext]_backendVars =>
  (EndedIsReplaceable /\ EndedScansNothing)'
<1> SUFFICES ASSUME BackendInv, [BackendNext]_backendVars
             PROVE  (EndedIsReplaceable /\ EndedScansNothing)'
  OBVIOUS
<1> USE DEF EndedIsReplaceable, EndedScansNothing, Registered, registryVars,
  subscriptionVars, localVars
<1>0. BackendTypeOK /\ PlacesOK /\ CreatorsAreAlone /\ EndedIsReplaceable /\ EndedScansNothing
  BY DEF BackendInv
<1>1. ASSUME NEW t \in Thread, NEW n \in Name, GetBackend(t, n)
      PROVE  (EndedIsReplaceable /\ EndedScansNothing)'
  BY <1>0, <1>1 DEF GetBackend, Goto, BackendTypeOK
<1>2. ASSUME NEW t \in Thread, FindDefault(t)
      PROVE  (EndedIsReplaceable /\ EndedScansNothing)'
  BY <1>0, <1>2 DEF FindDefault, BackendTypeOK
<1>3. ASSUME NEW t \in Thread, FindBackend(t)
      PROVE  (EndedIsReplaceable /\ EndedScansNothing)'
  BY <1>0, <1>3 DEF FindBackend, Reserved, Goto, BackendTypeOK
<1>4. ASSUME NEW t \in Thread, NEW b \in Backend, CreateBackend(t, b)
      PROVE  (EndedIsReplaceable /\ EndedScansNothing)'
  BY <1>0, <1>4 DEF CreateBackend, Unreferenced, Goto, BackendTypeOK
<1>5. ASSUME NEW t \in Thread, StartBackend(t)
      PROVE  (EndedIsReplaceable /\ EndedScansNothing)'
  BY <1>0, <1>5 DEF StartBackend, Goto, BackendTypeOK
<1>6. ASSUME NEW t \in Thread, StartFails(t)
      PROVE  (EndedIsReplaceable /\ EndedScansNothing)'
  <2>1. where[t] = "start" /\ \A n \in Name : shared[n] # on[t]
    BY <1>0, <1>6 DEF StartFails, CreatorsAreAlone, Creating
  <2>2. /\ UNCHANGED <<shared, subscriptions>>
        /\ phase' = [phase EXCEPT ![on[t]] = "retired"]
        /\ \A u \in Thread : where'[u] = "finish" => where[u] = "finish" /\ on'[u] = on[u]
    BY <1>0, <1>6, <2>1 DEF StartFails, Goto, BackendTypeOK
  <2> QED
    BY <1>0, <2>1, <2>2 DEF BackendTypeOK
<1>7. ASSUME NEW t \in Thread, EmplaceBackend(t)
      PROVE  (EndedIsReplaceable /\ EndedScansNothing)'
  BY <1>0, <1>7, NoBackendAssumption DEF EmplaceBackend, Reserved, Stop, Goto, PlacesOK,
    Inside, Unwatching, BackendTypeOK, CreatorsAreAlone, Creating
<1>8. ASSUME NEW t \in Thread, ReleaseBackend(t)
      PROVE  (EndedIsReplaceable /\ EndedScansNothing)'
  <2>1. /\ UNCHANGED <<shared, phase, subscriptions>>
        /\ \A u \in Thread : where'[u] = "finish" => where[u] = "finish" /\ on'[u] = on[u]
    BY <1>0, <1>8 DEF ReleaseBackend, Goto, BackendTypeOK
  <2> QED
    BY <1>0, <2>1
<1>9. ASSUME NEW t \in Thread, LastUnref(t) PROVE (EndedIsReplaceable /\ EndedScansNothing)'
  BY <1>0, <1>9, NoBackendAssumption DEF LastUnref, StopIfUnused, Stop, Goto, PlacesOK,
    Inside, Unwatching, BackendTypeOK
<1>10. ASSUME NEW t \in Thread, NEW s \in Subject, CallWatch(t, s) \/ CallUnwatch(t, s)
       PROVE  (EndedIsReplaceable /\ EndedScansNothing)'
  BY <1>0, <1>10 DEF CallWatch, CallUnwatch, Goto, BackendTypeOK
<1>11. ASSUME NEW t \in Thread, NEW s \in Subject, NEW b \in Backend, CallUnwatchOn(t, b, s)
       PROVE  (EndedIsReplaceable /\ EndedScansNothing)'
  BY <1>0, <1>11 DEF CallUnwatchOn, Goto, BackendTypeOK
<1>12. ASSUME NEW t \in Thread, WatchWaits(t) \/ UnwatchWaits(t) \/ DetachWatcher(t)
       PROVE  (EndedIsReplaceable /\ EndedScansNothing)'
  BY <1>0, <1>12 DEF WatchWaits, UnwatchWaits, DetachWatcher, Locked, IsPending, Goto,
    BackendTypeOK
<1>13. ASSUME NEW t \in Thread, NEW isCancelled \in BOOLEAN,
              WatchCancelled(t, isCancelled) \/ WatchSubscribed(t, isCancelled)
       PROVE  (EndedIsReplaceable /\ EndedScansNothing)'
  BY <1>0, <1>13 DEF WatchCancelled, WatchSubscribed, Locked, Goto, BackendTypeOK
<1>14. ASSUME NEW t \in Thread, NEW isCancelled \in BOOLEAN, WatchScans(t, isCancelled)
       PROVE  (EndedIsReplaceable /\ EndedScansNothing)'
  <2>1. /\ UNCHANGED <<shared, phase, subscriptions>>
        /\ \A u \in Thread : where'[u] = "finish" => where[u] = "finish" /\ on'[u] = on[u]
    BY <1>0, <1>14 DEF WatchScans, Goto, BackendTypeOK
  <2> QED
    BY <1>0, <2>1
<1>15. ASSUME NEW t \in Thread, ScanCompletes(t) \/ ScanCancelled(t) \/ ScanTruncated(t)
       PROVE  (EndedIsReplaceable /\ EndedScansNothing)'
  BY <1>0, <1>15 DEF ScanCompletes, ScanCancelled, ScanTruncated, Watching, Goto,
    BackendTypeOK
<1>16. ASSUME NEW t \in Thread, ScanFails(t) \/ FinishFails(t)
       PROVE  (EndedIsReplaceable /\ EndedScansNothing)'
  <2>1. /\ UNCHANGED <<shared, phase, subscriptions>>
        /\ \A u \in Thread : where'[u] = "finish" => where[u] = "finish" /\ on'[u] = on[u]
    BY <1>0, <1>16 DEF ScanFails, FinishFails, AbandonWatch, WakeAndGoto, BackendTypeOK
  <2> QED
    BY <1>0, <2>1
<1>17. ASSUME NEW t \in Thread, FinishWatch(t)
       PROVE  (EndedIsReplaceable /\ EndedScansNothing)'
  BY <1>0, <1>17 DEF FinishWatch, WakeAndGoto, Locked, BackendTypeOK
<1>18. ASSUME NEW t \in Thread, WatchUnref(t)
       PROVE  (EndedIsReplaceable /\ EndedScansNothing)'
  BY <1>0, <1>18, NoBackendAssumption DEF WatchUnref, StopIfUnused, Stop, Goto, PlacesOK,
    Inside, Unwatching, BackendTypeOK
<1>19. ASSUME NEW t \in Thread, NEW isWanted \in BOOLEAN, UnwatchKeeps(t, isWanted)
       PROVE  (EndedIsReplaceable /\ EndedScansNothing)'
  BY <1>0, <1>19 DEF UnwatchKeeps, Back, Locked, Goto, BackendTypeOK
<1>20. ASSUME NEW t \in Thread, NEW isWanted \in BOOLEAN, UnwatchRemoves(t, isWanted)
       PROVE  (EndedIsReplaceable /\ EndedScansNothing)'
  BY <1>0, <1>20 DEF UnwatchRemoves, Locked, IsPending, Goto, BackendTypeOK
<1>21. ASSUME NEW t \in Thread, NEW isWanted \in BOOLEAN, UnwatchThrows(t, isWanted)
       PROVE  (EndedIsReplaceable /\ EndedScansNothing)'
  BY <1>0, <1>21 DEF UnwatchThrows, Back, Locked, IsPending, Goto, BackendTypeOK
<1>22. ASSUME NEW t \in Thread, UnwatchUnrefs(t)
       PROVE  (EndedIsReplaceable /\ EndedScansNothing)'
  BY <1>0, <1>22, NoBackendAssumption DEF UnwatchUnrefs, StopIfUnused, Stop, Back, Goto,
    PlacesOK, Inside, Unwatching, BackendTypeOK
<1>23. ASSUME NEW b \in Backend, NEW S \in SUBSET Subject, Invalidate(b, S)
       PROVE  (EndedIsReplaceable /\ EndedScansNothing)'
  BY <1>0, <1>23 DEF Invalidate, Invalidated, BackendTypeOK
<1>24. ASSUME NEW b \in Backend, BackendFails(b) \/ HandleError(b)
       PROVE  (EndedIsReplaceable /\ EndedScansNothing)'
  BY <1>0, <1>24 DEF BackendFails, HandleError, BackendTypeOK
<1>25. ASSUME NEW b \in Backend, RemoveShared(b)
       PROVE  (EndedIsReplaceable /\ EndedScansNothing)'
  BY <1>0, <1>25, NoBackendAssumption DEF RemoveShared, PlacesOK, Inside, Unwatching,
    BackendTypeOK
<1>26. ASSUME NEW s \in Subject, NewSubject(s)
       PROVE  (EndedIsReplaceable /\ EndedScansNothing)'
  BY <1>0, <1>26 DEF NewSubject, BackendTypeOK
<1>27. CASE UNCHANGED backendVars
  BY <1>0, <1>27 DEF backendVars, BackendTypeOK
<1> QED
  BY <1>1, <1>2, <1>3, <1>4, <1>5, <1>6, <1>7, <1>8, <1>9, <1>10, <1>11, <1>12, <1>13,
    <1>14, <1>15, <1>16, <1>17, <1>18, <1>19, <1>20, <1>21, <1>22, <1>23, <1>24, <1>25,
    <1>26, <1>27
  DEF BackendNext, CallerStep, BackendStep

(* Who takes the last use from a backend is on its way to unref.            *)
LEMMA UnusedStep == BackendInv /\ [BackendNext]_backendVars => UnusedIsStopped'
<1> SUFFICES ASSUME BackendInv, [BackendNext]_backendVars PROVE UnusedIsStopped'
  OBVIOUS
<1> USE DEF UnusedIsStopped, BackendInUse, Registered, registryVars, subscriptionVars,
  localVars
<1>0. BackendTypeOK /\ PlacesOK /\ CreatorsAreAlone /\ UnusedIsStopped
  BY DEF BackendInv
<1>1. ASSUME NEW t \in Thread, NEW n \in Name, GetBackend(t, n) PROVE UnusedIsStopped'
  BY <1>0, <1>1 DEF GetBackend, Goto, BackendTypeOK
<1>2. ASSUME NEW t \in Thread, FindDefault(t) PROVE UnusedIsStopped'
  BY <1>0, <1>2 DEF FindDefault, BackendTypeOK
<1>3. ASSUME NEW t \in Thread, FindBackend(t) PROVE UnusedIsStopped'
  BY <1>0, <1>3 DEF FindBackend, Reserved, Goto, BackendTypeOK
<1>4. ASSUME NEW t \in Thread, NEW b \in Backend, CreateBackend(t, b) PROVE UnusedIsStopped'
  BY <1>0, <1>4 DEF CreateBackend, Unreferenced, Goto, BackendTypeOK
<1>5. ASSUME NEW t \in Thread, StartBackend(t) PROVE UnusedIsStopped'
  BY <1>0, <1>5, NoBackendAssumption DEF StartBackend, Goto, PlacesOK, Inside, Unwatching,
    BackendTypeOK, CreatorsAreAlone, Creating
<1>6. ASSUME NEW t \in Thread, StartFails(t) PROVE UnusedIsStopped'
  BY <1>0, <1>6, NoBackendAssumption DEF StartFails, Goto, PlacesOK, Inside, Unwatching,
    BackendTypeOK, CreatorsAreAlone, Creating
<1>7. ASSUME NEW t \in Thread, EmplaceBackend(t) PROVE UnusedIsStopped'
  BY <1>0, <1>7 DEF EmplaceBackend, Reserved, Stop, Goto, BackendTypeOK
<1>8. ASSUME NEW t \in Thread, ReleaseBackend(t) PROVE UnusedIsStopped'
  BY <1>0, <1>8, BackendIsHeld DEF ReleaseBackend, Goto, BackendTypeOK
<1>9. ASSUME NEW t \in Thread, LastUnref(t) PROVE UnusedIsStopped'
  BY <1>0, <1>9, NoBackendAssumption DEF LastUnref, StopIfUnused, Stop, Goto, PlacesOK,
    Inside, Unwatching, BackendTypeOK
<1>10. ASSUME NEW t \in Thread, NEW s \in Subject, CallWatch(t, s) \/ CallUnwatch(t, s)
       PROVE  UnusedIsStopped'
  BY <1>0, <1>10 DEF CallWatch, CallUnwatch, Goto, BackendTypeOK
<1>11. ASSUME NEW t \in Thread, NEW s \in Subject, NEW b \in Backend, CallUnwatchOn(t, b, s)
       PROVE  UnusedIsStopped'
  BY <1>0, <1>11 DEF CallUnwatchOn, Goto, BackendTypeOK
<1>12. ASSUME NEW t \in Thread, WatchWaits(t) \/ UnwatchWaits(t) \/ DetachWatcher(t)
       PROVE  UnusedIsStopped'
  BY <1>0, <1>12 DEF WatchWaits, UnwatchWaits, DetachWatcher, Locked, IsPending, Goto,
    BackendTypeOK
<1>13. ASSUME NEW t \in Thread, NEW isCancelled \in BOOLEAN,
              WatchCancelled(t, isCancelled) \/ WatchSubscribed(t, isCancelled)
       PROVE  UnusedIsStopped'
  BY <1>0, <1>13 DEF WatchCancelled, WatchSubscribed, Locked, Goto, BackendTypeOK
<1>14. ASSUME NEW t \in Thread, NEW isCancelled \in BOOLEAN, WatchScans(t, isCancelled)
       PROVE  UnusedIsStopped'
  BY <1>0, <1>14 DEF WatchScans, Locked, IsPending, Goto, BackendTypeOK
<1>15. ASSUME NEW t \in Thread, ScanCompletes(t) \/ ScanCancelled(t) \/ ScanTruncated(t)
       PROVE  UnusedIsStopped'
  BY <1>0, <1>15 DEF ScanCompletes, ScanCancelled, ScanTruncated, Watching, Goto,
    BackendTypeOK
<1>16. ASSUME NEW t \in Thread, ScanFails(t) \/ FinishFails(t) PROVE UnusedIsStopped'
  BY <1>0, <1>16, BackendIsHeld DEF ScanFails, FinishFails, AbandonWatch, WakeAndGoto,
    Locked, PlacesOK, Inside, Unwatching, BackendTypeOK
<1>17. ASSUME NEW t \in Thread, FinishWatch(t) PROVE UnusedIsStopped'
  <2>1. on[t] \in Backend /\ subject[t] \in subscriptions'[on[t]]
    BY <1>0, <1>17 DEF FinishWatch, Locked, PlacesOK, BackendTypeOK
  <2>2. /\ UNCHANGED <<shared, phase, reservations, on>>
        /\ \A b \in Backend \ {on[t]} :
             UNCHANGED <<subscriptions[b], pending[b]>>
    BY <1>0, <1>17, <2>1 DEF FinishWatch, BackendTypeOK
  <2>3. \A u \in Thread :
          where[u] \in {"lastUnref", "watchUnref", "detach", "unwatchUnref"} =>
          where'[u] = where[u]
    BY <1>0, <1>17 DEF FinishWatch, Locked, WakeAndGoto, BackendTypeOK
  <2> QED
    BY <1>0, <2>1, <2>2, <2>3
<1>18. ASSUME NEW t \in Thread, WatchUnref(t) PROVE UnusedIsStopped'
  BY <1>0, <1>18, NoBackendAssumption DEF WatchUnref, StopIfUnused, Stop, Goto, PlacesOK,
    Inside, Unwatching, BackendTypeOK
<1>19. ASSUME NEW t \in Thread, NEW isWanted \in BOOLEAN, UnwatchKeeps(t, isWanted)
       PROVE  UnusedIsStopped'
  BY <1>0, <1>19 DEF UnwatchKeeps, Back, Locked, Goto, BackendTypeOK
<1>20. ASSUME NEW t \in Thread, NEW isWanted \in BOOLEAN, UnwatchRemoves(t, isWanted)
       PROVE  UnusedIsStopped'
  BY <1>0, <1>20 DEF UnwatchRemoves, Locked, IsPending, Goto, BackendTypeOK
<1>21. ASSUME NEW t \in Thread, NEW isWanted \in BOOLEAN, UnwatchThrows(t, isWanted)
       PROVE  UnusedIsStopped'
  BY <1>0, <1>21 DEF UnwatchThrows, Back, Locked, IsPending, Goto, BackendTypeOK
<1>22. ASSUME NEW t \in Thread, UnwatchUnrefs(t) PROVE UnusedIsStopped'
  BY <1>0, <1>22, NoBackendAssumption DEF UnwatchUnrefs, StopIfUnused, Stop, Back, Goto,
    PlacesOK, Inside, Unwatching, BackendTypeOK
<1>23. ASSUME NEW b \in Backend, NEW S \in SUBSET Subject, Invalidate(b, S)
       PROVE  UnusedIsStopped'
  BY <1>0, <1>23 DEF Invalidate, Invalidated, BackendTypeOK
<1>24. ASSUME NEW b \in Backend, BackendFails(b) \/ HandleError(b) PROVE UnusedIsStopped'
  BY <1>0, <1>24 DEF BackendFails, HandleError, BackendTypeOK
<1>25. ASSUME NEW b \in Backend, RemoveShared(b) PROVE UnusedIsStopped'
  BY <1>0, <1>25, NoBackendAssumption DEF RemoveShared, PlacesOK, Inside, Unwatching,
    BackendTypeOK
<1>26. ASSUME NEW s \in Subject, NewSubject(s) PROVE UnusedIsStopped'
  BY <1>0, <1>26 DEF NewSubject, BackendTypeOK
<1>27. CASE UNCHANGED backendVars
  BY <1>0, <1>27 DEF backendVars, BackendTypeOK
<1> QED
  BY <1>1, <1>2, <1>3, <1>4, <1>5, <1>6, <1>7, <1>8, <1>9, <1>10, <1>11, <1>12, <1>13,
    <1>14, <1>15, <1>16, <1>17, <1>18, <1>19, <1>20, <1>21, <1>22, <1>23, <1>24, <1>25,
    <1>26, <1>27
  DEF BackendNext, CallerStep, BackendStep

----------------------------------------------------------------------------
(* Every step preserves the type invariant, the properties, and what        *)
(* strengthens them.                                                        *)
LEMMA BackendInvStep == BackendInv /\ [BackendNext]_backendVars => BackendInv'
  BY BackendTypeStep, PlacesStep, CountStep, SubscribingStep, PendingStep, WakeupStep,
     RebuiltStep, InvalidStep, CreatorsStep, StartedStep, StoppedStep, KnownStep, EndedStep,
     UnusedStep
  DEF BackendInv

(* The inductive invariant of the backends: who holds a reservation, who    *)
(* subscribes what, and who is about to register or unref a backend.        *)
THEOREM BackendInvariant == BackendSpec => []BackendInv
  BY BackendInitInv, BackendInvStep, PTL DEF BackendSpec

(* Type correctness of the registry, the subscriptions and the calls        *)
(* (Backend::getShared to releaseShared).                                   *)
THEOREM BackendTypeCorrect == BackendSpec => []BackendTypeOK
<1>1. BackendInv => BackendTypeOK
  BY DEF BackendInv
<1> QED
  BY BackendInvariant, <1>1, PTL

(* InUseIsKept: unref never stops, or unregisters, a backend that a call    *)
(* has reserved or that a watcher is subscribed to, whatever the order of   *)
(* releaseShared, watch and unwatch in other threads.                       *)
THEOREM UsedStaysRegistered == BackendSpec => []InUseIsKept
<1>1. BackendInv => InUseIsKept
  <2> SUFFICES ASSUME BackendInv, NEW b \in Backend, BackendInUse(b)
               PROVE  phase[b] # "stopped" /\ (phase[b] = "running" => Registered(b))
    BY DEF InUseIsKept
  <2>1. phase[b] # "stopped"
    BY DEF BackendInv, StoppedIsUnused
  <2>2. ASSUME phase[b] = "running", ~Registered(b) PROVE FALSE
    <3>1. PICK t \in Thread : where[t] = "emplace" /\ on[t] = b
      BY <2>2 DEF BackendInv, RunningIsKnown
    <3> QED
      BY <3>1, CreatedIsUnused DEF Creating
  <2> QED
    BY <2>1, <2>2
<1> QED
  BY BackendInvariant, <1>1, PTL

(* UnusedIsStopped and RunningIsKnown: what nobody uses does not stay in    *)
(* getSharedBackends(), and no backend thread runs outside it: every way    *)
(* to take the last use from a backend leads to unref.                      *)
THEOREM UnusedGetsStopped == BackendSpec => [](UnusedIsStopped /\ RunningIsKnown)
<1>1. BackendInv => UnusedIsStopped /\ RunningIsKnown
  BY DEF BackendInv
<1> QED
  BY BackendInvariant, <1>1, PTL

(* EndedIsReplaceable: after handleError has told the watchers and          *)
(* removeShared has dropped the backend, no subscription keeps the ended    *)
(* one in front of the next call of getShared.                              *)
THEOREM EndedHoldsNothing == BackendSpec => []EndedIsReplaceable
<1>1. BackendInv => EndedIsReplaceable
  BY DEF BackendInv
<1> QED
  BY BackendInvariant, <1>1, PTL

(* PendingIsExclusive: mPendingSubscriptions admits one subscribe() per     *)
(* watcher and backend, also over the gap in which finishSubscribe runs     *)
(* without mMutex.                                                          *)
THEOREM OneThreadSubscribes == BackendSpec => []PendingIsExclusive
<1>1. BackendInv => PendingIsExclusive
  <2> SUFFICES ASSUME BackendInv, NEW b \in Backend, NEW s \in Subject,
                      NEW subscribing,
                      subscribing = {t \in Thread : /\ on[t] = b /\ subject[t] = s
                                                    /\ where[t] \in {"scan", "finish"}}
               PROVE  /\ s \in pending[b] => \E t \in subscribing : subscribing = {t}
                      /\ s \notin pending[b] => subscribing = {}
    BY Zenon DEF PendingIsExclusive
  <2>1. ASSUME s \in pending[b] PROVE \E t \in subscribing : subscribing = {t}
    <3>1. PICK t \in Thread : where[t] \in Subscribing /\ on[t] = b /\ subject[t] = s
      BY <2>1 DEF BackendInv, PendingHasThread
    <3>2. t \in subscribing /\ \A u \in subscribing : u = t
      BY <3>1 DEF BackendInv, OneSubscribes, Subscribing
    <3> QED
      BY <3>2
  <2>2. ASSUME s \notin pending[b] PROVE subscribing = {}
    BY <2>2 DEF BackendInv, SubscribingIsPending, Subscribing
  <2> QED
    BY <2>1, <2>2
<1> QED
  BY BackendInvariant, <1>1, PTL

(* NoLostWakeup: no path out of Backend::watch leaves a thread asleep on    *)
(* mPendingCondition.                                                       *)
THEOREM WaitersAreWoken == BackendSpec => []NoLostWakeup
<1>1. BackendInv => NoLostWakeup
  BY DEF BackendInv
<1> QED
  BY BackendInvariant, <1>1, PTL

(* InvalidIsSubscribed: mInvalidSubscriptions is part of mSubscriptions, so *)
(* Backend::watch rebuilds and never inserts twice.                         *)
THEOREM InvalidGetsRebuilt == BackendSpec => []InvalidIsSubscribed
<1>1. BackendInv => InvalidIsSubscribed
  BY DEF BackendInv
<1> QED
  BY BackendInvariant, <1>1, PTL
============================================================================
