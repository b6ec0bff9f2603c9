------------------------------- MODULE Debounce -------------------------------
(* The thread that batches events (src/src/Debounce.cc, src/src/Signal.hh). *)
(* Backend threads record events with watchers and wake it; it waits for a  *)
(* pause, though not forever, and has each watcher hand its events to its   *)
(* callbacks.  The watchers own the Debounce object: it is created with the *)
(* first and destroyed with the last of them.                               *)
EXTENDS Naturals

CONSTANTS Watcher,
          Notifier,   \* backend threads
          NoWatcher,
          MinWait,    \* MIN_WAIT_TIME in ticks of the clock
          MaxWait     \* MAX_WAIT_TIME

ASSUME NoWatcherAssumption == NoWatcher \notin Watcher
ASSUME WaitAssumption == MinWait \in Nat \ {0} /\ MaxWait \in Nat /\ MinWait < MaxWait

VARIABLES
  thread,      \* where the thread is
  mRunning,
  mFlag,       \* of mWaitSignal
  stopping,    \* ~Debounce is about to set it
  mCallbacks,  \* the watchers with an entry in mCallbacks
  todo,        \* those the loop of notify() has still to call
  sinceLast,   \* now - mLastTime
  waited,      \* how long waitFor has waited
  alive,       \* watchers that exist: they share the Debounce object
  listened,    \* watchers that have callbacks
  events,      \* watchers with pending events or an error
  notifying,   \* the watcher each notifier is in Watcher::notify of
  step,        \* and where it is there
  owed         \* events a callback is owed, for the properties

threadVars   == <<thread, mRunning, mFlag, stopping, todo, sinceLast, waited>>
watcherVars  == <<mCallbacks, alive, listened, events>>
notifierVars == <<notifying, step>>
vars == <<threadVars, watcherVars, notifierVars, owed>>

(* none      no Debounce object                                             *)
(* loop      at the condition of loop()                                     *)
(* sleep     in Signal::wait                                                *)
(* decide    notifyIfReady                                                  *)
(* wait      wait(), before it resets the signal                            *)
(* timing    in waitFor                                                     *)
(* notify    about to lock mMutex                                           *)
(* calling   in the loop of notify, with mMutex                             *)
(* done      about to end, which ~Debounce joins                            *)
Thread == {"none", "loop", "sleep", "decide", "wait", "timing", "notify", "calling", "done"}

DebounceTypeOK ==
  /\ thread \in Thread
  /\ mRunning \in BOOLEAN /\ mFlag \in BOOLEAN /\ stopping \in BOOLEAN
  /\ mCallbacks \subseteq alive /\ alive \subseteq Watcher
  /\ todo \subseteq Watcher
  /\ sinceLast \in 0 .. MaxWait + 1
  /\ waited \in 0 .. MinWait
  /\ listened \subseteq alive /\ events \subseteq alive /\ owed \subseteq events
  /\ notifying \in [Notifier -> Watcher \cup {NoWatcher}]
  /\ step \in [Notifier -> {"out", "recorded", "triggering"}]
  /\ thread # "calling" => todo = {}

Init ==
  /\ thread = "none" /\ mRunning = FALSE /\ mFlag = FALSE /\ stopping = FALSE
  /\ todo = {} /\ sinceLast = MaxWait + 1 /\ waited = 0
  /\ mCallbacks = {} /\ alive = {} /\ listened = {} /\ events = {}
  /\ notifying = [n \in Notifier |-> NoWatcher]
  /\ step = [n \in Notifier |-> "out"]
  /\ owed = {}

(* mutant: add, remove and trigger do not lock mMutex *)
NeverLocked == FALSE

(* The thread holds mMutex from the first call to the reset of the signal.  *)
Locked == thread = "calling"

----------------------------------------------------------------------------
(* Watcher::Watcher calls Debounce::getShared, which makes a new object and *)
(* a thread if there is none.  (If there is one that is being destroyed it  *)
(* makes another, which shares nothing with it; one at a time is shown.)    *)
Construct(w) ==
  /\ w \notin alive
  /\ alive' = alive \cup {w}
  /\ \/ mRunning /\ UNCHANGED threadVars
     \/ /\ thread = "none"
        /\ thread' = "loop" /\ mRunning' = TRUE /\ mFlag' = FALSE
        /\ sinceLast' = MaxWait + 1
        /\ UNCHANGED <<stopping, todo, waited>>
  /\ UNCHANGED <<mCallbacks, listened, events, notifierVars, owed>>

(* Watcher::getShared adds a watcher it registers; one it only constructed  *)
(* to look for another is destroyed.                                        *)
Add(w) ==
  /\ w \in alive \ mCallbacks /\ ~Locked
  /\ mCallbacks' = mCallbacks \cup {w}
  /\ UNCHANGED <<threadVars, alive, listened, events, notifierVars, owed>>

(* Watcher::unref of an unused watcher. *)
RemoveWatcher(w) ==
  /\ w \in mCallbacks \ listened /\ ~Locked
  /\ mCallbacks' = mCallbacks \ {w}
  /\ UNCHANGED <<threadVars, alive, listened, events, notifierVars, owed>>

(* Watcher::watch and the last Watcher::unwatch, under the watcher's mutex. *)
Listen(w) ==
  /\ w \in mCallbacks \ listened
  /\ listened' = listened \cup {w}
  /\ UNCHANGED <<threadVars, mCallbacks, alive, events, notifierVars, owed>>

Leave(w) ==
  /\ w \in listened
  /\ listened' = listened \ {w}
  /\ owed' = owed \ {w}
  /\ UNCHANGED <<threadVars, mCallbacks, alive, events, notifierVars>>

(* Watcher::~Watcher, which calls remove again, once no notifier has a      *)
(* reference.  The last one destroys the Debounce object: it lets the       *)
(* thread end, ...                                                          *)
Destroy(w) ==
  /\ w \in alive \ mCallbacks /\ \A n \in Notifier : notifying[n] # w
  /\ ~Locked
  /\ alive' = alive \ {w}
  /\ events' = events \ {w}
  /\ IF alive = {w} THEN mRunning' = FALSE /\ stopping' = TRUE
                    ELSE UNCHANGED <<mRunning, stopping>>
  /\ UNCHANGED <<thread, mFlag, todo, sinceLast, waited, mCallbacks, listened,
                 notifierVars, owed>>

(* mutant: ~Debounce does not wake its thread *)
StopSilently ==
  /\ stopping /\ stopping' = FALSE
  /\ UNCHANGED <<thread, mRunning, mFlag, todo, sinceLast, waited, watcherVars,
                 notifierVars, owed>>

(* ... wakes it ...                                                         *)
StopThread ==
  /\ stopping /\ stopping' = FALSE
  /\ mFlag' = TRUE
  /\ UNCHANGED <<thread, mRunning, todo, sinceLast, waited, watcherVars, notifierVars, owed>>

(* ... and joins it.                                                        *)
Join ==
  /\ ~stopping
  /\ thread = "done" /\ thread' = "none"
  /\ mFlag' = FALSE
  /\ UNCHANGED <<mRunning, stopping, todo, sinceLast, waited, watcherVars, notifierVars, owed>>

----------------------------------------------------------------------------
(* A backend's thread records an event or an error with w ... *)
Record(n, w) ==
  /\ step[n] = "out" /\ w \in mCallbacks
  /\ events' = events \cup {w}
  /\ owed' = IF w \in listened THEN owed \cup {w} ELSE owed
  /\ notifying' = [notifying EXCEPT ![n] = w]
  /\ step' = [step EXCEPT ![n] = "recorded"]
  /\ UNCHANGED <<threadVars, mCallbacks, alive, listened>>

Leaves(n) == /\ step' = [step EXCEPT ![n] = "out"]
             /\ notifying' = [notifying EXCEPT ![n] = NoWatcher]

(* ... and calls Watcher::notify, which locks the watcher to look for       *)
(* callbacks and events, unlocks it ...                                     *)
Notify(n) ==
  /\ step[n] = "recorded"
  /\ IF notifying[n] \in listened \cap events
       THEN step' = [step EXCEPT ![n] = "triggering"] /\ UNCHANGED notifying
       ELSE Leaves(n)
  /\ UNCHANGED <<threadVars, watcherVars, owed>>

(* ... and calls Debounce::trigger. *)
Trigger(n) ==
  /\ step[n] = "triggering" /\ ~Locked
  /\ mFlag' = TRUE
  /\ Leaves(n)
  /\ UNCHANGED <<thread, mRunning, stopping, todo, sinceLast, waited, watcherVars, owed>>

----------------------------------------------------------------------------
UnchangedByThread == <<watcherVars, notifierVars, owed, mRunning, stopping>>

Loop ==
  /\ thread = "loop"
  /\ thread' = IF mRunning THEN "sleep" ELSE "done"
  /\ UNCHANGED <<UnchangedByThread, mFlag, todo, sinceLast, waited>>

WakeUp ==
  /\ thread = "sleep" /\ mFlag
  /\ thread' = IF mRunning THEN "decide" ELSE "done"
  /\ UNCHANGED <<UnchangedByThread, mFlag, todo, sinceLast, waited>>

(* mutant: a batch waits for a pause however long that takes *)
WaitsForPause == FALSE

WaitedTooLong == sinceLast > MaxWait

(* notifyIfReady reads mRunning once more, and the time. *)
Decide ==
  /\ thread = "decide"
  /\ \/ ~mRunning /\ thread' = "loop" /\ UNCHANGED sinceLast
     \/ mRunning /\ WaitedTooLong /\ thread' = "notify" /\ sinceLast' = 0
     \/ mRunning /\ ~WaitedTooLong /\ thread' = "wait" /\ UNCHANGED sinceLast
  /\ UNCHANGED <<UnchangedByThread, mFlag, todo, waited>>

StartWait ==
  /\ thread = "wait"
  /\ mFlag' = FALSE /\ waited' = 0
  /\ thread' = "timing"
  /\ UNCHANGED <<UnchangedByThread, todo, sinceLast>>

(* waitFor returns no_timeout when another trigger came. *)
EndWait ==
  /\ thread = "timing" /\ (mFlag \/ waited = MinWait)
  /\ thread' = IF ~mFlag /\ mRunning THEN "notify" ELSE "loop"
  /\ UNCHANGED <<UnchangedByThread, mFlag, todo, sinceLast, waited>>

(* Debounce::notify locks mMutex (in its loop todo is what is left) ... *)
StartNotify ==
  /\ thread = "notify"
  /\ thread' = "calling"
  /\ todo' = mCallbacks
  /\ sinceLast' = 0
  /\ UNCHANGED <<UnchangedByThread, mFlag, waited>>

(* ... calls Watcher::triggerCallbacks of every watcher, which drains the   *)
(* list of events if there is a callback to give them to, ...               *)
CallNext(w) ==
  /\ thread = "calling" /\ w \in todo
  /\ todo' = todo \ {w}
  /\ IF w \in listened
       THEN events' = events \ {w} /\ owed' = owed \ {w}
       ELSE UNCHANGED <<events, owed>>
  /\ UNCHANGED <<thread, mRunning, mFlag, stopping, sinceLast, waited, mCallbacks, alive,
                 listened, notifierVars>>

(* ... and resets the signal before it unlocks.                             *)
EndNotify ==
  /\ thread = "calling" /\ todo = {}
  /\ mFlag' = FALSE
  /\ thread' = "loop"
  /\ UNCHANGED <<UnchangedByThread, todo, sinceLast, waited>>

(* The clock, which counts as far as the code compares. *)
Tick ==
  /\ thread # "none"
  /\ sinceLast' = IF sinceLast > MaxWait THEN sinceLast ELSE sinceLast + 1
  /\ waited' = IF thread = "timing" /\ waited < MinWait THEN waited + 1 ELSE waited
  /\ UNCHANGED <<thread, mRunning, mFlag, stopping, todo, watcherVars, notifierVars, owed>>

ThreadStep == \/ Loop \/ WakeUp \/ Decide \/ StartWait \/ EndWait
              \/ StartNotify \/ (\E w \in Watcher : CallNext(w)) \/ EndNotify

NotifierStep(n) == Notify(n) \/ Trigger(n)

WatcherStep(w) == \/ Construct(w) \/ Add(w) \/ RemoveWatcher(w) \/ Destroy(w)
                  \/ Listen(w) \/ Leave(w)

Next == \/ \E w \in Watcher : WatcherStep(w)
        \/ \E n \in Notifier : NotifierStep(n) \/ \E w \in Watcher : Record(n, w)
        \/ ThreadStep
        \/ StopThread
        \/ Join
        \/ Tick

Spec == Init /\ [][Next]_vars

(* The thread and the clock go on, and so do a notifier that has recorded   *)
(* something and the destructor.  Events may come at any rate.              *)
Fairness == /\ WF_vars(ThreadStep)
            /\ WF_vars(Tick)
            /\ WF_vars(StopThread)
            /\ \A n \in Notifier : WF_vars(NotifierStep(n))

FairSpec == Spec /\ Fairness

----------------------------------------------------------------------------
(* mCallbacks does not change under the loop of notify, which calls foreign *)
(* code in between: what is left to call is there, and its watcher exists.  *)
CalledIsAlive == todo \subseteq mCallbacks \cap alive

(* No event is forgotten: while a callback is owed one, the notifier that   *)
(* recorded it is still to trigger, or the signal is set, or the thread is  *)
(* on its way to call the watcher.                                          *)
OwedIsSignalled ==
  \A w \in owed :
    \/ mFlag
    \/ thread \in {"decide", "wait", "timing", "notify"}
    \/ thread = "calling" /\ w \in todo
    \/ \E n \in Notifier : notifying[n] = w

(* What a callback is owed it gets, however fast further events come.       *)
OwedIsDelivered == \A w \in Watcher : w \in owed ~> w \notin owed

(* ~Debounce returns: its thread sees that it should end.                   *)
ThreadEnds == (thread # "none" /\ ~mRunning) ~> thread = "done"
=============================================================================
