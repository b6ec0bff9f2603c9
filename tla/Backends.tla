------------------------------ MODULE Backends ------------------------------
(* The shared backends (src/src/Backend.cc): their registry, the startup of *)
(* a backend's thread, reservations, and the subscriptions of a backend     *)
(* with the states a subscription goes through while other threads look on. *)
(*                                                                          *)
(* A thread is whatever runs these functions: an asynchronous subscribe or  *)
(* unsubscribe call (which holds a reservation from getShared to            *)
(* releaseShared), an environment's cleanup hook or a backend's own thread. *)
(* What they read from a watcher (is it cancelled, has it callbacks) is a   *)
(* parameter here; Lifecycle gives it the watcher's value.  Subscribing is  *)
(* the Linux one (src/src/linux/InotifyBackend.cc), seen as a single fact:  *)
(* are the watches of the whole tree in place?                              *)
EXTENDS Naturals, FiniteSets

CONSTANTS Backend,      \* storage for backend objects
          Name,         \* the values of the backend option
          Known,        \* the names getBackend can create
          Default,      \* "default"
          Subject,      \* what is watched: watchers
          Thread,
          NoBackend, NoSubject, NoThread

ASSUME KnownAssumption == Known \subseteq Name /\ Default \in Known
ASSUME ThreadAssumption == IsFiniteSet(Thread)
ASSUME NoBackendAssumption == NoBackend \notin Backend
ASSUME NoSubjectAssumption == NoSubject \notin Subject
ASSUME NoThreadAssumption == NoThread \notin Thread

VARIABLES
  shared,           \* getSharedBackends(): by name, or NoBackend
  phase,            \* the life of each backend's thread
  reservations,     \* mSharedReservations
  subscriptions,    \* mSubscriptions
  pending,          \* mPendingSubscriptions
  invalid,          \* mInvalidSubscriptions
  mutex,            \* the thread that holds mMutex while it scans, if any
  installed,        \* subjects whose native watches cover the whole tree
  needsResubscribe, \* mNeedsResubscribe
  where,            \* where each thread is in these functions
  on,               \* the backend it works on
  name,             \* the name it looks up
  subject,          \* the watcher it subscribes or unsubscribes
  reserving,        \* it holds a reservation of on
  wasNew,           \* Backend::watch: not a rebuilt invalid subscription
  threw             \* its last function ended with an exception

registryVars     == <<shared, phase, reservations>>
subscriptionVars == <<subscriptions, pending, invalid, mutex, installed,
                      needsResubscribe>>
localVars        == <<on, name, subject, reserving, wasNew, threw>>
backendVars      == <<registryVars, subscriptionVars, where, localVars>>

(* free      the object does not exist                                      *)
(* starting  run() waits for its thread                                     *)
(* running   the thread polls                                               *)
(* failing   the thread has closed its descriptors, errors are not told yet *)
(* failed    every watcher was told, removeShared is next                   *)
(* retired   the thread has ended by itself                                 *)
(* stopped   stop() was called                                              *)
Phase == {"free", "starting", "running", "failing", "failed", "retired", "stopped"}

(* out         in no function, and with no reservation                      *)
(* find start emplace              Backend::getShared                       *)
(* held        between functions, with a reservation                        *)
(* watch watchBlocked scan finish watchUnref     Backend::watch             *)
(* unwatch unwatchBlocked detach unwatchUnref    Backend::unwatch           *)
(* lastUnref   Backend::releaseShared, which took the last reservation      *)
Where == {"out", "find", "start", "emplace", "held",
          "watch", "watchBlocked", "scan", "finish", "watchUnref",
          "unwatch", "unwatchBlocked", "detach", "unwatchUnref", "lastUnref"}

BackendTypeOK ==
  /\ shared \in [Name -> Backend \cup {NoBackend}]
  /\ phase \in [Backend -> Phase]
  /\ reservations \in [Backend -> Nat]
  /\ subscriptions \in [Backend -> SUBSET Subject]
  /\ pending \in [Backend -> SUBSET Subject]
  /\ invalid \in [Backend -> SUBSET Subject]
  /\ mutex \in [Backend -> Thread \cup {NoThread}]
  /\ installed \in [Backend -> SUBSET Subject]
  /\ needsResubscribe \in [Subject -> BOOLEAN]
  /\ where \in [Thread -> Where]
  /\ on \in [Thread -> Backend \cup {NoBackend}]
  /\ name \in [Thread -> Name]
  /\ subject \in [Thread -> Subject \cup {NoSubject}]
  /\ reserving \in [Thread -> BOOLEAN]
  /\ wasNew \in [Thread -> BOOLEAN]
  /\ threw \in [Thread -> BOOLEAN]

BackendInit ==
  /\ shared = [n \in Name |-> NoBackend]
  /\ phase = [b \in Backend |-> "free"]
  /\ reservations = [b \in Backend |-> 0]
  /\ subscriptions = [b \in Backend |-> {}]
  /\ pending = [b \in Backend |-> {}]
  /\ invalid = [b \in Backend |-> {}]
  /\ mutex = [b \in Backend |-> NoThread]
  /\ installed = [b \in Backend |-> {}]
  /\ needsResubscribe = [s \in Subject |-> FALSE]
  /\ where = [t \in Thread |-> "out"]
  /\ on = [t \in Thread |-> NoBackend]
  /\ name = [t \in Thread |-> Default]
  /\ subject = [t \in Thread |-> NoSubject]
  /\ reserving = [t \in Thread |-> FALSE]
  /\ wasNew = [t \in Thread |-> FALSE]
  /\ threw = [t \in Thread |-> FALSE]

Goto(t, place) == where' = [where EXCEPT ![t] = place]

Registered(b) == \E n \in Name : shared[n] = b

----------------------------------------------------------------------------
(* Backend::getShared *)
GetBackend(t, n) ==
  /\ where[t] = "out"
  /\ Goto(t, "find")
  /\ name' = [name EXCEPT ![t] = n]
  /\ threw' = [threw EXCEPT ![t] = FALSE]
  /\ UNCHANGED <<registryVars, subscriptionVars, on, subject, reserving, wasNew>>

Reserved(b) == [reservations EXCEPT ![b] = @ + 1]

FindBackend(t) ==
  /\ where[t] = "find" /\ shared[name[t]] # NoBackend
  /\ on' = [on EXCEPT ![t] = shared[name[t]]]
  /\ reserving' = [reserving EXCEPT ![t] = TRUE]
  /\ reservations' = Reserved(shared[name[t]])
  /\ name' = [name EXCEPT ![t] = Default]
  /\ Goto(t, "held")
  /\ UNCHANGED <<shared, phase, subscriptionVars, subject, wasNew, threw>>

(* An unknown name is never registered; the search starts over. *)
FindDefault(t) ==
  /\ where[t] = "find" /\ shared[name[t]] = NoBackend /\ name[t] \notin Known
  /\ name' = [name EXCEPT ![t] = Default]
  /\ UNCHANGED <<registryVars, subscriptionVars, where, on, subject, reserving,
                 wasNew, threw>>

(* Storage nobody points to any more can hold a new backend. *)
Unreferenced(b) == /\ ~Registered(b)
                   /\ \A t \in Thread : on[t] # b
                   /\ phase[b] \notin {"starting", "running", "failing", "failed"}

CreateBackend(t, b) ==
  /\ where[t] = "find" /\ shared[name[t]] = NoBackend /\ name[t] \in Known
  /\ Unreferenced(b)
  /\ phase' = [phase EXCEPT ![b] = "starting"]
  /\ on' = [on EXCEPT ![t] = b]
  /\ subscriptions' = [subscriptions EXCEPT ![b] = {}]
  /\ invalid' = [invalid EXCEPT ![b] = {}]
  /\ installed' = [installed EXCEPT ![b] = {}]
  /\ Goto(t, "start")
  /\ UNCHANGED <<shared, reservations, pending, mutex, needsResubscribe, name,
                 subject, reserving, wasNew, threw>>

(* Backend::run, which returns when the thread has called notifyStarted ... *)
StartBackend(t) ==
  /\ where[t] = "start"
  /\ phase' = [phase EXCEPT ![on[t]] = "running"]
  /\ Goto(t, "emplace")
  /\ UNCHANGED <<shared, reservations, subscriptionVars, localVars>>

(* ... and throws when start() failed before that. *)
StartFails(t) ==
  /\ where[t] = "start"
  /\ phase' = [phase EXCEPT ![on[t]] = "retired"]
  /\ on' = [on EXCEPT ![t] = NoBackend]
  /\ threw' = [threw EXCEPT ![t] = TRUE]
  /\ name' = [name EXCEPT ![t] = Default]
  /\ Goto(t, "out")
  /\ UNCHANGED <<shared, reservations, subscriptionVars, subject, reserving,
                 wasNew>>

(* stop() tells a running thread to end; on one that failed it is void. *)
Stop(b) == phase' = [phase EXCEPT ![b] = IF @ = "running" THEN "stopped" ELSE @]

(* emplace keeps a backend another thread registered meanwhile; the one     *)
(* just created is stopped then, and dropped.                               *)
EmplaceBackend(t) ==
  /\ where[t] = "emplace"
  /\ LET other    == shared[name[t]]
         selected == IF other = NoBackend THEN on[t] ELSE other
     IN /\ shared' = [shared EXCEPT ![name[t]] = selected]
        /\ reservations' = Reserved(selected)
        /\ IF other = NoBackend THEN UNCHANGED phase ELSE Stop(on[t])
        /\ on' = [on EXCEPT ![t] = selected]
  /\ reserving' = [reserving EXCEPT ![t] = TRUE]
  /\ name' = [name EXCEPT ![t] = Default]
  /\ Goto(t, "held")
  /\ UNCHANGED <<subscriptionVars, subject, wasNew, threw>>

(* mutant: unref does not look at the reservations *)
StopIfUnsubscribed(b) ==
  /\ mutex[b] = NoThread
  /\ IF subscriptions[b] = {} /\ pending[b] = {}
       THEN /\ Stop(b)
            /\ shared' = [n \in Name |->
                            IF shared[n] = b THEN NoBackend ELSE shared[n]]
       ELSE UNCHANGED <<phase, shared>>

(* mutant: a stopped backend stays in the registry *)
StopIfUnusedOnly(b) ==
  /\ mutex[b] = NoThread /\ UNCHANGED shared
  /\ IF subscriptions[b] = {} /\ pending[b] = {} /\ reservations[b] = 0
       THEN Stop(b)
       ELSE UNCHANGED phase

(* Backend::unref, under the registry's and the backend's mutex. *)
StopIfUnused(b) ==
  /\ mutex[b] = NoThread
  /\ IF subscriptions[b] = {} /\ pending[b] = {} /\ reservations[b] = 0
       THEN /\ Stop(b)
            /\ shared' = [n \in Name |->
                            IF shared[n] = b THEN NoBackend ELSE shared[n]]
       ELSE UNCHANGED <<phase, shared>>

(* Backend::releaseShared: fetch_sub, and unref for the last reservation. *)
ReleaseBackend(t) ==
  /\ where[t] = "held"
  /\ reservations' = [reservations EXCEPT ![on[t]] = @ - 1]
  /\ reserving' = [reserving EXCEPT ![t] = FALSE]
  /\ IF reservations[on[t]] = 1
       THEN Goto(t, "lastUnref") /\ UNCHANGED on
       ELSE Goto(t, "out") /\ on' = [on EXCEPT ![t] = NoBackend]
  /\ subject' = [subject EXCEPT ![t] = NoSubject]
  /\ threw' = [threw EXCEPT ![t] = FALSE]
  /\ UNCHANGED <<shared, phase, subscriptionVars, name, wasNew>>

LastUnref(t) ==
  /\ where[t] = "lastUnref"
  /\ StopIfUnused(on[t])
  /\ Goto(t, "out")
  /\ on' = [on EXCEPT ![t] = NoBackend]
  /\ UNCHANGED <<reservations, subscriptionVars, name, subject, reserving, wasNew,
                 threw>>

----------------------------------------------------------------------------
(* notify_all on mPendingCondition of t's backend, whose waiters compete    *)
(* for mMutex again; t itself goes on to place.                             *)
WakeAndGoto(t, place) ==
  where' = [u \in Thread |->
              CASE u = t -> place
                [] u # t /\ on[u] = on[t] /\ where[u] = "watchBlocked"   -> "watch"
                [] u # t /\ on[u] = on[t] /\ where[u] = "unwatchBlocked" -> "unwatch"
                [] OTHER -> where[u]]

Locked(t, place) == where[t] = place /\ mutex[on[t]] = NoThread

(* Backend::watch(s), called with a reservation. *)
CallWatch(t, s) ==
  /\ where[t] = "held"
  /\ Goto(t, "watch")
  /\ subject' = [subject EXCEPT ![t] = s]
  /\ threw' = [threw EXCEPT ![t] = FALSE]
  /\ UNCHANGED <<registryVars, subscriptionVars, on, name, reserving, wasNew>>

(* mutant: nobody waits for a pending subscription *)
NeverPending(t) == FALSE

IsPending(t) == subject[t] \in pending[on[t]]

WatchWaits(t) ==
  /\ Locked(t, "watch") /\ IsPending(t)
  /\ Goto(t, "watchBlocked")
  /\ UNCHANGED <<registryVars, subscriptionVars, localVars>>

WatchCancelled(t, isCancelled) ==
  /\ Locked(t, "watch") /\ ~IsPending(t) /\ isCancelled
  /\ Goto(t, "held")
  /\ UNCHANGED <<registryVars, subscriptionVars, localVars>>

(* The subscription must be rebuilt: it was invalidated, or a cancelled     *)
(* scan left it incomplete.                                                 *)
MustRebuild(b, s) == s \in invalid[b] \/ needsResubscribe[s]

WatchSubscribed(t, isCancelled) ==
  LET b == on[t] s == subject[t]
  IN /\ Locked(t, "watch") /\ ~IsPending(t) /\ ~isCancelled
     /\ s \in subscriptions[b] /\ ~MustRebuild(b, s)
     /\ Goto(t, "held")
     /\ UNCHANGED <<registryVars, subscriptionVars, localVars>>

(* subscribe() runs with mMutex held: no other thread gets at b meanwhile.  *)
WatchScans(t, isCancelled) ==
  LET b == on[t] s == subject[t]
  IN /\ Locked(t, "watch") /\ ~IsPending(t) /\ ~isCancelled
     /\ s \in subscriptions[b] => MustRebuild(b, s)
     /\ needsResubscribe' = [needsResubscribe EXCEPT ![s] = FALSE]
     /\ invalid' = [invalid EXCEPT ![b] = @ \ {s}]
     /\ pending' = [pending EXCEPT ![b] = @ \cup {s}]
     /\ mutex' = [mutex EXCEPT ![b] = t]
     /\ wasNew' = [wasNew EXCEPT ![t] = s \notin subscriptions[b]]
     /\ Goto(t, "scan")
     /\ UNCHANGED <<registryVars, subscriptions, installed, on, name, subject,
                    reserving, threw>>

(* With its descriptors closed the scan cannot watch another directory.     *)
(* (Closing them after the last directory of a complete scan is closing     *)
(* them after that scan: it only releases mMutex then.)                     *)
Watching(b) == phase[b] = "running"

(* InotifyBackend::subscribe watched and indexed the whole tree. *)
ScanCompletes(t) ==
  /\ where[t] = "scan" /\ Watching(on[t])
  /\ installed' = [installed EXCEPT ![on[t]] = @ \cup {subject[t]}]
  /\ mutex' = [mutex EXCEPT ![on[t]] = NoThread]
  /\ Goto(t, "finish")
  /\ UNCHANGED <<registryVars, subscriptions, pending, invalid, needsResubscribe,
                 localVars>>

(* It saw the watcher cancelled, undid its watches and returned normally.   *)
ScanCancelled(t) ==
  /\ where[t] = "scan" /\ phase[on[t]] \in {"running", "failing"}
  /\ needsResubscribe' = [needsResubscribe EXCEPT ![subject[t]] = TRUE]
  /\ installed' = [installed EXCEPT ![on[t]] = @ \ {subject[t]}]
  /\ mutex' = [mutex EXCEPT ![on[t]] = NoThread]
  /\ Goto(t, "finish")
  /\ UNCHANGED <<registryVars, subscriptions, pending, invalid, localVars>>

(* The walk of the tree stopped early because the watcher was cancelled,    *)
(* but the check after it found the watcher wanted again.                   *)
ScanTruncated(t) ==
  /\ where[t] = "scan" /\ phase[on[t]] \in {"running", "failing"}
  /\ installed' = [installed EXCEPT ![on[t]] = @ \ {subject[t]}]
  /\ mutex' = [mutex EXCEPT ![on[t]] = NoThread]
  /\ Goto(t, "finish")
  /\ UNCHANGED <<registryVars, subscriptions, pending, invalid, needsResubscribe,
                 localVars>>

(* Both catch blocks of Backend::watch: an invalid subscription is invalid  *)
(* again, a new one is forgotten and may have been the backend's last use.  *)
AbandonWatch(t) ==
  LET b == on[t] s == subject[t]
  IN /\ installed' = [installed EXCEPT ![b] = @ \ {s}]
     /\ pending' = [pending EXCEPT ![b] = @ \ {s}]
     /\ invalid' = IF wasNew[t] THEN invalid
                                ELSE [invalid EXCEPT ![b] = @ \cup {s}]
     /\ mutex' = [mutex EXCEPT ![b] = NoThread]
     /\ threw' = [threw EXCEPT ![t] = TRUE]
     /\ wasNew' = [wasNew EXCEPT ![t] = FALSE]
     /\ WakeAndGoto(t, IF wasNew[t] THEN "watchUnref" ELSE "held")
     /\ UNCHANGED <<registryVars, subscriptions, needsResubscribe, on, name, subject,
                    reserving>>

ScanFails(t) == where[t] = "scan" /\ AbandonWatch(t)

(* finishSubscribe, which runs without the lock, threw (not on Linux). *)
FinishFails(t) == Locked(t, "finish") /\ AbandonWatch(t)

WatchUnref(t) ==
  /\ where[t] = "watchUnref"
  /\ StopIfUnused(on[t])
  /\ Goto(t, "held")
  /\ UNCHANGED <<reservations, subscriptionVars, localVars>>

FinishWatch(t) ==
  LET b == on[t] s == subject[t]
  IN /\ Locked(t, "finish")
     /\ pending' = [pending EXCEPT ![b] = @ \ {s}]
     /\ subscriptions' = [subscriptions EXCEPT ![b] = @ \cup {s}]
     /\ wasNew' = [wasNew EXCEPT ![t] = FALSE]
     /\ WakeAndGoto(t, "held")
     /\ UNCHANGED <<registryVars, invalid, mutex, installed, needsResubscribe, on,
                    name, subject, reserving, threw>>

----------------------------------------------------------------------------
(* Backend::unwatch(s), called with a reservation ... *)
CallUnwatch(t, s) ==
  /\ where[t] = "held"
  /\ Goto(t, "unwatch")
  /\ subject' = [subject EXCEPT ![t] = s]
  /\ threw' = [threw EXCEPT ![t] = FALSE]
  /\ UNCHANGED <<registryVars, subscriptionVars, on, name, reserving, wasNew>>

(* ... or by a cleanup hook or the backend's own thread, without one. *)
CallUnwatchOn(t, b, s) ==
  /\ where[t] = "out" /\ phase[b] \notin {"free", "starting"}
  /\ Goto(t, "unwatch")
  /\ on' = [on EXCEPT ![t] = b]
  /\ subject' = [subject EXCEPT ![t] = s]
  /\ threw' = [threw EXCEPT ![t] = FALSE]
  /\ UNCHANGED <<registryVars, subscriptionVars, name, reserving, wasNew>>

(* Back to the caller; the locals of the functions go out of scope.         *)
Back(t) ==
  IF reserving[t]
    THEN Goto(t, "held") /\ UNCHANGED <<on, subject>>
    ELSE /\ Goto(t, "out")
         /\ on' = [on EXCEPT ![t] = NoBackend]
         /\ subject' = [subject EXCEPT ![t] = NoSubject]

UnwatchWaits(t) ==
  /\ Locked(t, "unwatch") /\ IsPending(t)
  /\ Goto(t, "unwatchBlocked")
  /\ UNCHANGED <<registryVars, subscriptionVars, localVars>>

(* Somebody wants the watcher again (and unwatch is not forced), or it is   *)
(* not subscribed here.                                                     *)
UnwatchKeeps(t, isWanted) ==
  /\ Locked(t, "unwatch") /\ ~IsPending(t)
  /\ isWanted \/ subject[t] \notin subscriptions[on[t]]
  /\ Back(t)
  /\ UNCHANGED <<registryVars, subscriptionVars, name, reserving, wasNew, threw>>

UnwatchRemoves(t, isWanted) ==
  LET b == on[t] s == subject[t]
  IN /\ Locked(t, "unwatch") /\ ~IsPending(t)
     /\ ~isWanted /\ s \in subscriptions[b]
     /\ subscriptions' = [subscriptions EXCEPT ![b] = @ \ {s}]
     /\ invalid' = [invalid EXCEPT ![b] = @ \ {s}]
     /\ installed' = [installed EXCEPT ![b] = @ \ {s}]
     /\ Goto(t, "detach")
     /\ UNCHANGED <<registryVars, pending, mutex, needsResubscribe, localVars>>

(* unsubscribe() threw half way through: the subscription is put back. *)
UnwatchThrows(t, isWanted) ==
  LET b == on[t] s == subject[t]
  IN /\ Locked(t, "unwatch") /\ ~IsPending(t)
     /\ ~isWanted /\ s \in subscriptions[b]
     /\ installed' = [installed EXCEPT ![b] = @ \ {s}]
     /\ threw' = [threw EXCEPT ![t] = TRUE]
     /\ Back(t)
     /\ UNCHANGED <<registryVars, subscriptions, pending, invalid, mutex,
                    needsResubscribe, name, reserving, wasNew>>

(* finishUnsubscribe without the lock, then Watcher::removeBackend with it. *)
DetachWatcher(t) ==
  /\ Locked(t, "detach")
  /\ Goto(t, "unwatchUnref")
  /\ UNCHANGED <<registryVars, subscriptionVars, localVars>>

UnwatchUnrefs(t) ==
  /\ where[t] = "unwatchUnref"
  /\ StopIfUnused(on[t])
  /\ Back(t)
  /\ UNCHANGED <<reservations, subscriptionVars, name, reserving, wasNew, threw>>

----------------------------------------------------------------------------

Invalidated(b, S) == S \cap subscriptions[b]

(* The backend's thread: InotifyBackend handles a queue overflow or the     *)
(* disappearance of roots by removing the watches it has and by             *)
(* Backend::invalidate, which knows complete subscriptions only.            *)
Invalidate(b, S) ==
  /\ phase[b] = "running" /\ mutex[b] = NoThread
  /\ S # {} /\ S \subseteq installed[b]
  /\ installed' = [installed EXCEPT ![b] = @ \ S]
  /\ invalid' = [invalid EXCEPT ![b] = @ \cup Invalidated(b, S)]
  /\ UNCHANGED <<registryVars, subscriptions, pending, mutex, needsResubscribe,
                 where, localVars>>

(* poll() failed: the loop ends, Backend::handleError tells the watchers    *)
(* and removeShared takes the backend out of the registry.                  *)
BackendFails(b) ==
  /\ phase[b] = "running"
  /\ phase' = [phase EXCEPT ![b] = "failing"]
  /\ UNCHANGED <<shared, reservations, subscriptionVars, where, localVars>>

HandleError(b) ==
  /\ phase[b] = "failing" /\ mutex[b] = NoThread
  /\ phase' = [phase EXCEPT ![b] = "failed"]
  /\ UNCHANGED <<shared, reservations, subscriptionVars, where, localVars>>

RemoveShared(b) ==
  /\ phase[b] = "failed"
  /\ phase' = [phase EXCEPT ![b] = "retired"]
  /\ shared' = [n \in Name |-> IF shared[n] = b THEN NoBackend ELSE shared[n]]
  /\ UNCHANGED <<reservations, subscriptionVars, where, localVars>>

(* A new watcher takes the storage of one that no backend knows any more.   *)
NewSubject(s) ==
  /\ \A b \in Backend : Unreferenced(b) \/ s \notin subscriptions[b] \cup pending[b]
  /\ needsResubscribe' = [needsResubscribe EXCEPT ![s] = FALSE]
  /\ UNCHANGED <<registryVars, subscriptions, pending, invalid, mutex, installed,
                 where, localVars>>

----------------------------------------------------------------------------
CallerStep(t) ==
  \/ \E n \in Name : GetBackend(t, n)
  \/ FindBackend(t)
  \/ FindDefault(t)
  \/ \E b \in Backend : CreateBackend(t, b)
  \/ StartBackend(t)
  \/ StartFails(t)
  \/ EmplaceBackend(t)
  \/ ReleaseBackend(t)
  \/ LastUnref(t)
  \/ \E s \in Subject : \/ CallWatch(t, s)
                        \/ CallUnwatch(t, s)
                        \/ \E b \in Backend : CallUnwatchOn(t, b, s)
  \/ WatchWaits(t)
  \/ UnwatchWaits(t)
  \/ \E isCancelled \in BOOLEAN : \/ WatchCancelled(t, isCancelled)
                                  \/ WatchSubscribed(t, isCancelled)
                                  \/ WatchScans(t, isCancelled)
  \/ ScanCompletes(t)
  \/ ScanCancelled(t)
  \/ ScanTruncated(t)
  \/ ScanFails(t)
  \/ FinishFails(t)
  \/ FinishWatch(t)
  \/ WatchUnref(t)
  \/ \E isWanted \in BOOLEAN : \/ UnwatchKeeps(t, isWanted)
                               \/ UnwatchRemoves(t, isWanted)
                               \/ UnwatchThrows(t, isWanted)
  \/ DetachWatcher(t)
  \/ UnwatchUnrefs(t)

BackendStep(b) == \/ \E S \in SUBSET Subject : Invalidate(b, S)
                  \/ BackendFails(b)
                  \/ HandleError(b)
                  \/ RemoveShared(b)

BackendNext == \/ \E t \in Thread : CallerStep(t)
               \/ \E b \in Backend : BackendStep(b)
               \/ \E s \in Subject : NewSubject(s)

BackendSpec == BackendInit /\ [][BackendNext]_backendVars

----------------------------------------------------------------------------
BackendInUse(b) == subscriptions[b] # {} \/ pending[b] # {} \/ reservations[b] > 0

(* A backend that is reserved, subscribed to or being subscribed to is not  *)
(* stopped, and while its thread runs getShared finds it: the last          *)
(* releaseShared, a failed watch and an unwatch may all be about to unref   *)
(* it when the next call reserves it.                                       *)
InUseIsKept ==
  \A b \in Backend :
    BackendInUse(b) => /\ phase[b] # "stopped"
                       /\ phase[b] = "running" => Registered(b)

(* A backend nobody uses does not stay in the registry: a thread is on its  *)
(* way to unref it, or its own thread to remove it.                         *)
UnusedIsStopped ==
  \A b \in Backend : Registered(b) =>
    \/ BackendInUse(b)
    \/ phase[b] = "failed"
    \/ \E t \in Thread : /\ on[t] = b
                         /\ where[t] \in {"lastUnref", "watchUnref",
                                          "detach", "unwatchUnref"}

(* No backend thread runs on unseen: outside the registry there is only the *)
(* one its creator is about to register, or to stop because it came second. *)
RunningIsKnown ==
  \A b \in Backend : phase[b] = "running" =>
    Registered(b) \/ \E t \in Thread : where[t] = "emplace" /\ on[t] = b

(* A backend whose thread has ended can be registered (it may end before    *)
(* its creator registers it), but no subscription keeps it there.           *)
EndedIsReplaceable ==
  \A b \in Backend : phase[b] = "retired" /\ Registered(b) => subscriptions[b] = {}

(* mPendingSubscriptions serialises the calls on one watcher: a pending     *)
(* subscription has exactly one thread between subscribe and the insertion. *)
PendingIsExclusive ==
  \A b \in Backend, s \in Subject :
    LET subscribing == {t \in Thread : /\ on[t] = b /\ subject[t] = s
                                       /\ where[t] \in {"scan", "finish"}}
    IN /\ s \in pending[b] => \E t \in subscribing : subscribing = {t}
       /\ s \notin pending[b] => subscribing = {}

(* Every thread asleep on mPendingCondition has a pending subscription to   *)
(* wait for: no path out of watch forgets to notify.                        *)
NoLostWakeup ==
  \A t \in Thread : where[t] \in {"watchBlocked", "unwatchBlocked"} =>
    subject[t] \in pending[on[t]]

(* What is invalid is subscribed, so that a later watch rebuilds it instead *)
(* of subscribing it twice.                                                 *)
InvalidIsSubscribed == \A b \in Backend : invalid[b] \subseteq subscriptions[b]
=============================================================================
