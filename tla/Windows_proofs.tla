--------------------------- MODULE Windows_proofs ---------------------------
(* Proofs about Windows, for any watchers, callers, bounds and cleanup      *)
(* hooks: an object that is gone is idle, unless a lost subscription is     *)
(* rebuilt before it has stopped (KeptInv), and a subscribed watcher is     *)
(* watched, unless a read fails while its watcher is pending (WatchInv).    *)
EXTENDS Windows, SequenceTheorems, TLAPS

Kind == {"run", "stop", "done"}

Waits(kind, s) == \E i \in DOMAIN apcs : apcs[i] = Call(kind, s)

(* What refers to a Subscription refers to one there is, of the watcher that *)
(* refers to it.                                                             *)
Created == 1..created

SubsExist ==
  /\ \A w \in Watcher : state[w] # NoSub => state[w] \in Created /\ sub[state[w]].owner = w
  /\ \A t \in Thread : mine[t] # NoSub => mine[t] \in Created
  /\ current # NoSub => current \in Created
  /\ detaching # NoSub => detaching \in Created
  /\ \A s \in Sub : (\E kind \in Kind : Waits(kind, s)) => s \in Created
  /\ \A s \in Created : sub[s].owner \in Watcher
  /\ \A s \in Sub : s > created => io[s] = "none"

CallsAreOnce ==
  \A i, j \in DOMAIN apcs : apcs[i] = apcs[j] /\ apcs[i].kind # "noop" => i = j

LoopOK ==
  /\ loop \in {"asleep", "batch", "ended"} <=> current = NoSub
  /\ detaching # NoSub => loop = "detach"
  /\ current # NoSub => ~Waits("run", current)

(* mPollPending: a read is in flight, or its completion waits. *)
ReadOK(s) ==
  /\ io[s] # "none" => sub[s].pollPending /\ ~Waits("done", s)
  /\ Waits("done", s) => sub[s].pollPending
  /\ sub[s].pollPending => io[s] # "none" \/ Waits("done", s)

ReadsAreCounted == \A s \in Created : ReadOK(s)

(* A stop is requested, begins, and ends with the last completion. *)
StopOK(s) ==
  /\ sub[s].stopped => ~sub[s].running /\ ~sub[s].pollPending
  /\ ~sub[s].running => sub[s].stopRequested
  /\ Waits("stop", s) => sub[s].stopRequested /\ sub[s].running

StopsAreOrdered == \A s \in Created : StopOK(s)

(* Nobody stops a Subscription before its start has ended: its watcher is   *)
(* pending until then.                                                      *)
Reading(s) == loop = "reading" /\ current = s

Starts(s) == Waits("run", s) \/ Reading(s)

StartOK(s) ==
  /\ Starts(s) => /\ sub[s].start = "waiting" /\ ~sub[s].stopRequested
                  /\ sub[s].owner \in pending /\ state[sub[s].owner] = s
  /\ Waits("run", s) => ~sub[s].pollPending
  /\ Reading(s) => sub[s].pollPending

StartsAreOrdered == \A s \in Created : StartOK(s)

Starter == {"starting", "stopping"}

StartersAreAlone ==
  \A t \in Thread : where[t] \in Starter =>
    /\ mine[t] # NoSub /\ on[t] \in pending /\ state[on[t]] = mine[t]
    /\ \A u \in Thread \ {t} : mine[u] # mine[t]
    /\ detaching # mine[t]

BaseInv ==
  /\ WindowsTypeOK
  /\ SubsExist
  /\ CallsAreOnce
  /\ LoopOK
  /\ ReadsAreCounted
  /\ StopsAreOrdered
  /\ StartsAreOrdered
  /\ StartersAreAlone

----------------------------------------------------------------------------
(* The queue of the backend's thread                                        *)
LEMMA CallIs ==
  ASSUME NEW kind \in Kind, NEW s \in Sub
  PROVE  /\ Call(kind, s) \in Apc /\ Call(kind, s).kind = kind /\ Call(kind, s).sub = s
         /\ Call(kind, s).kind # "noop"
  BY DEF Call, Apc, Kind

LEMMA CallsDiffer ==
  ASSUME NEW k, NEW l, NEW r, NEW s, Call(k, r) = Call(l, s)
  PROVE  k = l /\ r = s
<1>1. Call(k, r).kind = k /\ Call(k, r).sub = r /\ Call(l, s).kind = l /\ Call(l, s).sub = s
  BY DEF Call
<1> QED
  BY <1>1

LEMMA QueueCall ==
  ASSUME apcs \in Seq(Apc), CallsAreOnce, NEW k \in Kind, NEW r \in Sub,
         apcs' = Append(apcs, Call(k, r)), ~Waits(k, r)
  PROVE  /\ apcs' \in Seq(Apc) /\ CallsAreOnce'
         /\ \A kind \in Kind, s \in Sub :
              Waits(kind, s)' <=> Waits(kind, s) \/ (kind = k /\ s = r)
<1> DEFINE c == Call(k, r)
<1>1. c \in Apc
  BY CallIs
<1>2. /\ apcs' \in Seq(Apc) /\ Len(apcs) \in Nat /\ DOMAIN apcs = 1..Len(apcs)
      /\ DOMAIN apcs' = 1..Len(apcs) + 1 /\ apcs'[Len(apcs) + 1] = c
      /\ \A i \in 1..Len(apcs) : apcs'[i] = apcs[i]
  <2> HIDE DEF c
  <2>1. apcs' = Append(apcs, c)
    BY DEF c
  <2> QED
    BY <1>1, <2>1
<1>3. \A i \in DOMAIN apcs : apcs[i] # c
  BY DEF Waits
<1> HIDE DEF c
<1>4. \A i \in DOMAIN apcs' : i \in DOMAIN apcs \/ i = Len(apcs) + 1
  BY <1>2
<1>5. CallsAreOnce'
  BY <1>2, <1>3, <1>4 DEF CallsAreOnce
<1>6. \A kind \in Kind, s \in Sub :
        Waits(kind, s)' <=> Waits(kind, s) \/ (kind = k /\ s = r)
  <2> TAKE kind \in Kind, s \in Sub
  <2>1. c = Call(kind, s) <=> kind = k /\ s = r
    BY CallsDiffer DEF c
  <2> QED
    BY <1>2, <1>4, <2>1 DEF Waits
<1> QED
  BY <1>2, <1>5, <1>6

LEMMA QueueNoop ==
  ASSUME apcs \in Seq(Apc), CallsAreOnce,
         apcs' = Append(apcs, [kind |-> "noop", sub |-> NoSub])
  PROVE  /\ apcs' \in Seq(Apc) /\ CallsAreOnce'
         /\ \A kind \in Kind, s \in Sub : Waits(kind, s)' <=> Waits(kind, s)
<1> DEFINE c == [kind |-> "noop", sub |-> NoSub]
<1>1. c \in Apc /\ c.kind = "noop" /\ \A kind \in Kind, s \in Sub : c # Call(kind, s)
  BY CallIs DEF Apc
<1>2. /\ apcs' \in Seq(Apc) /\ Len(apcs) \in Nat /\ DOMAIN apcs = 1..Len(apcs)
      /\ DOMAIN apcs' = 1..Len(apcs) + 1 /\ apcs'[Len(apcs) + 1] = c
      /\ \A i \in 1..Len(apcs) : apcs'[i] = apcs[i]
  <2> HIDE DEF c
  <2>1. apcs' = Append(apcs, c)
    BY DEF c
  <2> QED
    BY <1>1, <2>1
<1> HIDE DEF c
<1>4. \A i \in DOMAIN apcs' : i \in DOMAIN apcs \/ i = Len(apcs) + 1
  BY <1>2
<1>5. CallsAreOnce'
  BY <1>1, <1>2, <1>4 DEF CallsAreOnce
<1>6. \A kind \in Kind, s \in Sub : Waits(kind, s)' <=> Waits(kind, s)
  BY <1>1, <1>2, <1>4 DEF Waits
<1> QED
  BY <1>2, <1>5, <1>6

(* SleepEx takes the first callback.  That it was there but once is what    *)
(* makes it the last of its kind.                                           *)
LEMMA QueueTail ==
  ASSUME apcs \in Seq(Apc), CallsAreOnce, apcs # <<>>, apcs' = Tail(apcs)
  PROVE  /\ apcs' \in Seq(Apc) /\ CallsAreOnce' /\ Head(apcs) \in Apc
         /\ \A kind \in Kind, s \in Sub :
              Waits(kind, s)' <=> Waits(kind, s) /\ Head(apcs) # Call(kind, s)
         /\ \A kind \in Kind, s \in Sub : Head(apcs) = Call(kind, s) => Waits(kind, s)
<1>1. /\ apcs' \in Seq(Apc) /\ Len(apcs) \in Nat \ {0} /\ DOMAIN apcs = 1..Len(apcs)
      /\ DOMAIN apcs' = 1..Len(apcs) - 1 /\ Head(apcs) = apcs[1] /\ Head(apcs) \in Apc
      /\ \A i \in 1..Len(apcs) - 1 : apcs'[i] = apcs[i + 1]
  OBVIOUS
<1>2. \A i \in DOMAIN apcs' : i + 1 \in DOMAIN apcs /\ i + 1 # 1 /\ apcs'[i] = apcs[i + 1]
  BY <1>1
<1>3. \A i \in DOMAIN apcs : i = 1 \/ (i - 1 \in DOMAIN apcs' /\ apcs'[i - 1] = apcs[i])
  <2> TAKE i \in DOMAIN apcs
  <2>1. i # 1 => i - 1 \in 1..Len(apcs) - 1 /\ (i - 1) + 1 = i
    BY <1>1
  <2> QED
    BY <1>1, <2>1
<1>4. CallsAreOnce'
  <2> SUFFICES ASSUME NEW i \in DOMAIN apcs', NEW j \in DOMAIN apcs',
                      apcs'[i] = apcs'[j], apcs'[i].kind # "noop"
               PROVE  i = j
    BY DEF CallsAreOnce
  <2>1. i + 1 = j + 1
    BY <1>2 DEF CallsAreOnce
  <2> QED
    BY <1>1, <2>1
<1>5. 1 \in DOMAIN apcs
  BY <1>1
<1>6. ASSUME NEW kind \in Kind, NEW s \in Sub
      PROVE  Waits(kind, s)' <=> Waits(kind, s) /\ Head(apcs) # Call(kind, s)
  <2>1. ASSUME Waits(kind, s)' PROVE Waits(kind, s) /\ Head(apcs) # Call(kind, s)
    <3>1. PICK i \in DOMAIN apcs' : apcs'[i] = Call(kind, s)
      BY <2>1 DEF Waits
    <3>2. i + 1 \in DOMAIN apcs /\ i + 1 # 1 /\ apcs[i + 1] = Call(kind, s)
      BY <1>2, <3>1
    <3>3. Call(kind, s).kind # "noop"
      BY CallIs
    <3>4. apcs[1] # Call(kind, s)
      BY <1>5, <3>2, <3>3 DEF CallsAreOnce
    <3> QED
      BY <1>1, <3>2, <3>4 DEF Waits
  <2>2. ASSUME Waits(kind, s), Head(apcs) # Call(kind, s) PROVE Waits(kind, s)'
    <3>1. PICK i \in DOMAIN apcs : apcs[i] = Call(kind, s)
      BY <2>2 DEF Waits
    <3> QED
      BY <1>1, <1>3, <2>2, <3>1 DEF Waits
  <2> QED
    BY <2>1, <2>2
<1>7. \A kind \in Kind, s \in Sub : Head(apcs) = Call(kind, s) => Waits(kind, s)
  BY <1>1, <1>5 DEF Waits
<1> QED
  BY <1>1, <1>4, <1>6, <1>7

LEMMA Taken ==
  ASSUME BaseInv, NEW k \in Kind, Take(k)
  PROVE  /\ apcs' \in Seq(Apc) /\ CallsAreOnce'
         /\ First \in Created /\ First \in Sub /\ Waits(k, First)
         /\ loop \in {"asleep", "batch"}
         /\ \A kind \in Kind, s \in Sub :
              Waits(kind, s)' <=> Waits(kind, s) /\ ~(kind = k /\ s = First)
<1>1. /\ apcs \in Seq(Apc) /\ CallsAreOnce /\ apcs # <<>> /\ apcs' = Tail(apcs)
      /\ Head(apcs).kind = k /\ loop \in {"asleep", "batch"}
  BY DEF BaseInv, WindowsTypeOK, Take
<1>2. Head(apcs) \in Apc
  BY <1>1, QueueTail
<1>3. First \in Sub /\ Head(apcs) = Call(k, First)
  BY <1>1, <1>2 DEF Apc, Kind, First, Call
<1>4. \A kind \in Kind, s \in Sub : Head(apcs) = Call(kind, s) <=> kind = k /\ s = First
  BY <1>3, CallsDiffer
<1>5. /\ apcs' \in Seq(Apc) /\ CallsAreOnce' /\ Waits(k, First)
      /\ \A kind \in Kind, s \in Sub :
           Waits(kind, s)' <=> Waits(kind, s) /\ Head(apcs) # Call(kind, s)
  BY <1>1, <1>3, QueueTail
<1>6. First \in Created
  BY <1>3, <1>5 DEF BaseInv, SubsExist
<1> QED
  BY <1>1, <1>3, <1>4, <1>5, <1>6

LEMMA TakenNoop ==
  ASSUME BaseInv, Take("noop")
  PROVE  /\ apcs' \in Seq(Apc) /\ CallsAreOnce' /\ loop \in {"asleep", "batch"}
         /\ \A kind \in Kind, s \in Sub : Waits(kind, s)' <=> Waits(kind, s)
<1>1. /\ apcs \in Seq(Apc) /\ CallsAreOnce /\ apcs # <<>> /\ apcs' = Tail(apcs)
      /\ Head(apcs).kind = "noop" /\ loop \in {"asleep", "batch"}
  BY DEF BaseInv, WindowsTypeOK, Take
<1>2. \A kind \in Kind, s \in Sub : Head(apcs) # Call(kind, s)
  BY <1>1, CallIs
<1> QED
  BY <1>1, <1>2, QueueTail
----------------------------------------------------------------------------
(* What the functions of a Subscription do to its members                   *)
LEMMA NewSubIs ==
  ASSUME NEW w \in Watcher \cup {NoWatcher}
  PROVE  /\ NewSub(w) \in SubRecord /\ NewSub(w).owner = w /\ NewSub(w).running
         /\ ~NewSub(w).pollPending /\ ~NewSub(w).stopRequested /\ ~NewSub(w).stopped
         /\ NewSub(w).start = "waiting"
  BY DEF NewSub, SubRecord

(* beginStop ends the stop at once if no read is pending. *)
Begun(old, new) ==
  /\ new \in SubRecord /\ new.owner = old.owner /\ new.pollPending = old.pollPending
  /\ new.stopRequested = old.stopRequested /\ new.start = old.start
  /\ ~new.running /\ new.stopped = (old.stopped \/ ~old.pollPending)

LEMMA FinishedStopIs ==
  ASSUME NEW r \in SubRecord
  PROVE  /\ FinishedStop(r) \in SubRecord /\ FinishedStop(r).owner = r.owner
         /\ FinishedStop(r).pollPending = r.pollPending
         /\ FinishedStop(r).stopRequested = r.stopRequested
         /\ FinishedStop(r).start = r.start /\ FinishedStop(r).running = r.running
         /\ FinishedStop(r).stopped
<1>1. (r.told \/ r.overflowed) \in BOOLEAN
  BY DEF SubRecord
<1>2. FinishedStop(r) = [r EXCEPT !.stopped = TRUE, !.told = r.told \/ r.overflowed]
  BY DEF FinishedStop
<1> QED
  BY <1>1, <1>2 DEF SubRecord

LEMMA BegunStopIs ==
  ASSUME NEW r \in SubRecord
  PROVE  Begun(r, BegunStop(r))
<1> DEFINE x == [r EXCEPT !.running = FALSE]
<1>1. /\ x \in SubRecord /\ x.owner = r.owner /\ x.pollPending = r.pollPending
      /\ x.stopRequested = r.stopRequested /\ x.start = r.start /\ ~x.running
      /\ x.stopped = r.stopped
  BY DEF SubRecord
<1>2. BegunStop(r) = IF r.pollPending THEN x ELSE FinishedStop(x)
  BY DEF BegunStop
<1>3. r.pollPending \in BOOLEAN /\ r.stopped \in BOOLEAN
  BY DEF SubRecord
<1> HIDE DEF x
<1>4. CASE r.pollPending
  BY <1>1, <1>2, <1>3, <1>4 DEF Begun
<1>5. CASE ~r.pollPending
  <2>1. BegunStop(r) = FinishedStop(x)
    BY <1>2, <1>5
  <2>2. /\ FinishedStop(x) \in SubRecord /\ FinishedStop(x).owner = x.owner
        /\ FinishedStop(x).pollPending = x.pollPending
        /\ FinishedStop(x).stopRequested = x.stopRequested
        /\ FinishedStop(x).start = x.start /\ FinishedStop(x).running = x.running
        /\ FinishedStop(x).stopped
    BY <1>1, FinishedStopIs
  <2>3. FinishedStop(x).stopped = TRUE
    BY <1>1, <2>2 DEF SubRecord
  <2> QED
    BY <1>1, <1>3, <1>5, <2>1, <2>2, <2>3 DEF Begun
<1> QED
  BY <1>4, <1>5

(* requestStop on the backend's thread *)
Halted(old, new) ==
  /\ new \in SubRecord /\ new.owner = old.owner /\ new.pollPending = old.pollPending
  /\ new.stopRequested
  /\ old.stopRequested => new.running = old.running /\ new.stopped = old.stopped
  /\ ~old.stopRequested => ~new.running /\ new.stopped = (old.stopped \/ ~old.pollPending)

LEMMA StoppedHereIs ==
  ASSUME NEW r \in SubRecord
  PROVE  Halted(r, StoppedHere(r)) /\ StoppedHere(r).start = r.start
<1> DEFINE x == [r EXCEPT !.stopRequested = TRUE]
<1>1. /\ x \in SubRecord /\ x.owner = r.owner /\ x.pollPending = r.pollPending
      /\ x.stopRequested = TRUE /\ x.start = r.start /\ x.stopped = r.stopped
  BY DEF SubRecord
<1>2. StoppedHere(r) = IF r.stopRequested THEN r ELSE BegunStop(x)
  BY DEF StoppedHere
<1> HIDE DEF x
<1>3. Begun(x, BegunStop(x))
  BY <1>1, BegunStopIs
<1>4. CASE r.stopRequested
  BY <1>2, <1>4 DEF Halted
<1>5. CASE ~r.stopRequested
  BY <1>1, <1>2, <1>3, <1>5 DEF Halted, Begun
<1> QED
  BY <1>4, <1>5

(* A step changes one Subscription at most. *)
Alone(s) == \A r \in Sub \ {s} : sub'[r] = sub[r]

Becomes(s, new) == sub' = [sub EXCEPT ![s] = new]

LEMMA SubBecomes ==
  ASSUME sub \in [Sub -> SubRecord], NEW s \in Sub, NEW new \in SubRecord, Becomes(s, new)
  PROVE  sub' \in [Sub -> SubRecord] /\ sub'[s] = new /\ Alone(s)
  BY DEF Becomes, Alone

LEMMA CancelledIo ==
  ASSUME io \in [Sub -> {"none", "inFlight", "cancelled"}], NEW s \in Sub, NEW x,
         io' = IF x THEN io ELSE CancelIo(s)
  PROVE  /\ io' \in [Sub -> {"none", "inFlight", "cancelled"}]
         /\ \A r \in Sub : io'[r] = "none" <=> io[r] = "none"
<1>1. CASE io' = io
  BY <1>1
<1>2. CASE io' = [io EXCEPT ![s] = "cancelled"] /\ io[s] = "inFlight"
  BY <1>2
<1> QED
  BY <1>1, <1>2 DEF CancelIo
(* What a step does to the queue                                            *)
Still == \A kind \in Kind, s \in Sub : Waits(kind, s)' <=> Waits(kind, s)

Taking(k, r) ==
  \A kind \in Kind, s \in Sub : Waits(kind, s)' <=> Waits(kind, s) /\ ~(kind = k /\ s = r)

Adding(k, r) ==
  \A kind \in Kind, s \in Sub : Waits(kind, s)' <=> Waits(kind, s) \/ (kind = k /\ s = r)

IoStays == \A r \in Sub : io'[r] = "none" <=> io[r] = "none"

IoAlone(s) == \A r \in Sub \ {s} : io'[r] = io[r]

QueueOK == apcs' \in Seq(Apc) /\ CallsAreOnce'

IoOK == io' \in [Sub -> {"none", "inFlight", "cancelled"}]

SubOK == sub' \in [Sub -> SubRecord]

LEMMA Types ==
  ASSUME BaseInv
  PROVE  /\ created \in 0..MaxSubs /\ MaxSubs \in Nat /\ Created \subseteq Sub
         /\ sub \in [Sub -> SubRecord] /\ apcs \in Seq(Apc)
         /\ io \in [Sub -> {"none", "inFlight", "cancelled"}]
         /\ state \in [Watcher -> Sub \cup {NoSub}]
         /\ mine \in [Thread -> Sub \cup {NoSub}] /\ on \in [Thread -> Watcher]
         /\ where \in [Thread -> Where] /\ wasInvalid \in [Thread -> BOOLEAN]
         /\ NoSub \notin Sub /\ CallsAreOnce
         /\ loop \notin {"asleep", "batch", "ended"} =>
              current \in Created /\ current \in Sub /\ sub[current].owner \in Watcher
<1>1. /\ created \in 0..MaxSubs /\ MaxSubs \in Nat /\ Created \subseteq Sub
      /\ NoSub \notin Sub
  BY BoundsAssumption, NoneAssumption DEF BaseInv, WindowsTypeOK, Sub, Created
<1>2. loop \notin {"asleep", "batch", "ended"} =>
        current \in Created /\ sub[current].owner \in Watcher
  BY DEF BaseInv, LoopOK, SubsExist
<1> QED
  BY <1>1, <1>2 DEF BaseInv, WindowsTypeOK

(* Subscribe: a Subscription whose run waits                                *)
LEMMA SubscribeEffect ==
  ASSUME BaseInv, NEW t \in Thread, Subscribe(t)
  PROVE  /\ created' = created + 1 /\ created' \in Sub /\ created' \notin Created
         /\ on[t] \in Watcher /\ on[t] \notin pending
         /\ sub'[created'] = NewSub(on[t]) /\ Alone(created') /\ SubOK
         /\ QueueOK /\ Adding("run", created') /\ io' = io
         /\ \A kind \in Kind : ~Waits(kind, created')
<1>1. /\ created' = created + 1 /\ created' \in Sub /\ io' = io /\ on[t] \notin pending
      /\ sub' = [sub EXCEPT ![created'] = NewSub(on[t])]
      /\ apcs' = Append(apcs, Call("run", created'))
  BY DEF Subscribe, MustSubscribe
<1>2. on[t] \in Watcher /\ created' \notin Created
  BY <1>1, Types DEF Created
<1>3. \A kind \in Kind : ~Waits(kind, created')
  BY <1>1, <1>2 DEF BaseInv, SubsExist
<1>4. QueueOK /\ Adding("run", created')
  <2>1. "run" \in Kind
    BY DEF Kind
  <2>2. ASSUME NEW s \in Sub, s = created' PROVE QueueOK /\ Adding("run", s)
    BY <1>1, <1>3, <2>1, <2>2, Types, QueueCall DEF QueueOK, Adding
  <2> QED
    BY <1>1, <2>2
<1>5. NewSub(on[t]) \in SubRecord
  BY <1>2, NewSubIs
<1>6. sub'[created'] = NewSub(on[t]) /\ Alone(created') /\ SubOK
  BY <1>1, <1>5, Types DEF Alone, SubOK
<1> QED
  BY <1>1, <1>2, <1>3, <1>4, <1>6

(* requestStop of a caller                                                  *)
LEMMA RequestEffect ==
  ASSUME BaseInv, NEW s \in Created \cup {NoSub}, apcs' = StopQueued(s), sub' = StopRequested(s)
  PROVE  /\ QueueOK /\ SubOK
         /\ s = NoSub => sub' = sub /\ Still
         /\ s # NoSub =>
              /\ Alone(s) /\ sub'[s].stopRequested /\ sub'[s].owner = sub[s].owner
              /\ sub'[s].running = sub[s].running /\ sub'[s].stopped = sub[s].stopped
              /\ sub'[s].pollPending = sub[s].pollPending /\ sub'[s].start = sub[s].start
              /\ IF sub[s].stopRequested THEN Still ELSE Adding("stop", s)
<1>1. CASE s = NoSub
  BY <1>1, Types DEF StopQueued, StopRequested, Still, QueueOK, SubOK, CallsAreOnce, Waits
<1>2. CASE s # NoSub
  <2> DEFINE new == [sub[s] EXCEPT !.stopRequested = TRUE]
  <2>1. s \in Sub /\ s \in Created /\ sub[s] \in SubRecord
    BY <1>2, Types
  <2>2. Becomes(s, new)
    BY <1>2, <2>1, Types DEF StopRequested, Becomes
  <2>3. /\ new \in SubRecord /\ new.stopRequested /\ new.owner = sub[s].owner
        /\ new.running = sub[s].running /\ new.stopped = sub[s].stopped
        /\ new.pollPending = sub[s].pollPending /\ new.start = sub[s].start
    BY <2>1 DEF SubRecord
  <2> HIDE DEF new
  <2>4. sub'[s] = new /\ Alone(s) /\ SubOK
    BY <2>1, <2>2, <2>3, SubBecomes, Types DEF SubOK
  <2>5. CASE sub[s].stopRequested
    BY <1>2, <2>3, <2>4, <2>5, Types
      DEF StopQueued, QueueOK, Still, Waits, CallsAreOnce
  <2>6. CASE ~sub[s].stopRequested
    <3>1. apcs' = Append(apcs, Call("stop", s)) /\ "stop" \in Kind
      BY <1>2, <2>6 DEF StopQueued, Kind
    <3>2. ~Waits("stop", s)
      BY <2>1, <2>6 DEF BaseInv, StopsAreOrdered, StopOK
    <3>3. QueueOK /\ Adding("stop", s)
      BY <2>1, <3>1, <3>2, QueueCall, Types DEF QueueOK, Adding
    <3> QED
      BY <1>2, <2>3, <2>4, <2>6, <3>3
  <2> QED
    BY <2>5, <2>6
<1> QED
  BY <1>1, <1>2
----------------------------------------------------------------------------
(* What a step leaves of a Subscription: all of it, or what the invariant   *)
(* needs of one it touches.  The start of one whose run waits, or that is   *)
(* read, is nobody else's to touch.                                         *)
Same(r) ==
  /\ sub'[r] = sub[r] /\ (io'[r] = "none" <=> io[r] = "none")
  /\ \A kind \in Kind : Waits(kind, r)' <=> Waits(kind, r)

Lives(s) ==
  /\ sub'[s].owner = sub[s].owner
  /\ sub[s].stopRequested => sub'[s].stopRequested
  /\ sub[s].stopped => sub'[s].stopped
  /\ ReadOK(s)' /\ StopOK(s)' /\ ~Waits("run", s)'
  /\ Reading(s) /\ Reading(s)' => sub'[s] = sub[s]

Touches(s) ==
  /\ s \in Created /\ SubOK /\ IoOK /\ QueueOK /\ Lives(s)
  /\ \A r \in Sub \ {s} : Same(r)

LEMMA LivesFacts ==
  ASSUME BaseInv, NEW s \in Created
  PROVE  /\ s \in Sub /\ sub[s] \in SubRecord /\ sub[s].pollPending \in BOOLEAN
         /\ sub[s].stopped \in BOOLEAN /\ sub[s].running \in BOOLEAN
         /\ ReadOK(s) /\ StopOK(s) /\ StartOK(s) /\ sub[s].owner \in Watcher
         /\ "run" \in Kind /\ "stop" \in Kind /\ "done" \in Kind
<1>1. s \in Sub /\ sub[s] \in SubRecord
  BY Types
<1>2. ReadOK(s) /\ StopOK(s) /\ StartOK(s) /\ sub[s].owner \in Watcher
  BY DEF BaseInv, ReadsAreCounted, StopsAreOrdered, StartsAreOrdered, SubsExist
<1> QED
  BY <1>1, <1>2 DEF SubRecord, Kind

(* requestStop on the backend's thread *)
LEMMA HaltTouches ==
  ASSUME BaseInv, NEW s \in Created, NEW new, Halted(sub[s], new), Becomes(s, new),
         IoOK, IoStays, QueueOK, Still \/ Taking("run", s), ~Waits("run", s)', ~Reading(s)'
  PROVE  Touches(s) /\ sub'[s] = new
<1>1. /\ s \in Sub /\ sub[s] \in SubRecord /\ sub[s].pollPending \in BOOLEAN
      /\ sub[s].stopped \in BOOLEAN /\ ReadOK(s) /\ StopOK(s)
      /\ "stop" \in Kind /\ "done" \in Kind
  BY LivesFacts
<1>2. sub'[s] = new /\ Alone(s) /\ SubOK
  BY <1>1, SubBecomes, Types DEF Halted, SubOK
<1>3. /\ Waits("done", s)' <=> Waits("done", s)
      /\ Waits("stop", s)' <=> Waits("stop", s)
  BY <1>1 DEF Still, Taking
<1>4. io'[s] = "none" <=> io[s] = "none"
  BY <1>1 DEF IoStays
<1>5. ReadOK(s)'
  BY <1>1, <1>2, <1>3, <1>4 DEF ReadOK, Halted
<1>6. StopOK(s)'
  BY <1>1, <1>2, <1>3 DEF StopOK, Halted
<1>7. Lives(s)
  BY <1>1, <1>2, <1>5, <1>6 DEF Lives, Halted
<1>8. \A r \in Sub \ {s} : Same(r)
  BY <1>2 DEF Same, Alone, IoStays, Still, Taking
<1> QED
  BY <1>2, <1>7, <1>8 DEF Touches

(* ... of a caller *)
LEMMA RequestTouches ==
  ASSUME BaseInv, NEW s \in Created, apcs' = StopQueued(s), sub' = StopRequested(s), io' = io,
         ~Waits("run", s), ~Reading(s)
  PROVE  /\ Touches(s) /\ sub'[s].stopRequested /\ sub'[s].start = sub[s].start
         /\ sub'[s].stopped = sub[s].stopped
<1>1. /\ s \in Sub /\ sub[s] \in SubRecord /\ ReadOK(s) /\ StopOK(s)
      /\ "stop" \in Kind /\ "done" \in Kind /\ "run" \in Kind /\ s # NoSub
  BY LivesFacts, Types
<1>2. /\ QueueOK /\ SubOK /\ Alone(s) /\ sub'[s].stopRequested /\ sub'[s].owner = sub[s].owner
      /\ sub'[s].running = sub[s].running /\ sub'[s].stopped = sub[s].stopped
      /\ sub'[s].pollPending = sub[s].pollPending /\ sub'[s].start = sub[s].start
      /\ IF sub[s].stopRequested THEN Still ELSE Adding("stop", s)
  BY <1>1, RequestEffect
<1>3. /\ Waits("done", s)' <=> Waits("done", s)
      /\ Waits("run", s)' <=> Waits("run", s)
      /\ Waits("stop", s)' <=> Waits("stop", s) \/ ~sub[s].stopRequested
  BY <1>1, <1>2 DEF Still, Adding
<1>4. ReadOK(s)'
  BY <1>1, <1>2, <1>3 DEF ReadOK
<1>5. StopOK(s)'
  BY <1>1, <1>2, <1>3 DEF StopOK
<1>6. Lives(s)
  BY <1>2, <1>3, <1>4, <1>5 DEF Lives
<1>7. \A r \in Sub \ {s} : Same(r)
  BY <1>2 DEF Same, Alone, Still, Adding
<1>8. IoOK
  BY Types DEF IoOK
<1> QED
  BY <1>2, <1>6, <1>7, <1>8 DEF Touches

LEMMA RunStopTouches ==
  ASSUME BaseInv, RunStop, NEW s, s = First
  PROVE  /\ Touches(s) /\ Waits("stop", s) /\ sub'[s].start = sub[s].start
         /\ loop \in {"asleep", "batch"}
<1>1. /\ Take("stop") /\ sub' = [sub EXCEPT ![First] = BegunStop(@)]
      /\ io' = CancelIo(First) /\ "stop" \in Kind /\ loop' = "batch"
  BY DEF RunStop, Kind, Return
<1>2. /\ QueueOK /\ Taking("stop", s) /\ s \in Created /\ Waits("stop", s) /\ s \in Sub
      /\ loop \in {"asleep", "batch"}
  BY <1>1, Taken DEF QueueOK, Taking
<1>3. /\ sub[s] \in SubRecord /\ sub[s].pollPending \in BOOLEAN /\ sub[s].stopped \in BOOLEAN
      /\ ReadOK(s) /\ StopOK(s) /\ StartOK(s) /\ "done" \in Kind /\ "run" \in Kind
  BY <1>2, LivesFacts
<1>4. Becomes(s, BegunStop(sub[s]))
  BY <1>1, <1>2, Types DEF Becomes
<1>5. Begun(sub[s], BegunStop(sub[s]))
  BY <1>3, BegunStopIs
<1>6. sub'[s] = BegunStop(sub[s]) /\ Alone(s) /\ SubOK
  BY <1>2, <1>4, <1>5, SubBecomes, Types DEF Begun, SubOK
<1>7. io' = IF FALSE THEN io ELSE CancelIo(s)
  BY <1>1
<1>8. IoOK /\ IoStays
  BY <1>2, <1>7, CancelledIo, Types DEF IoOK, IoStays
<1>9. /\ ~Waits("stop", s)' /\ (Waits("done", s)' <=> Waits("done", s))
      /\ (Waits("run", s)' <=> Waits("run", s)) /\ (io'[s] = "none" <=> io[s] = "none")
  <2>1. io'[s] = "none" <=> io[s] = "none"
    BY <1>2, <1>8 DEF IoStays
  <2>2. ~Waits("stop", s)'
    BY <1>1, <1>2 DEF Taking
  <2>3. Waits("done", s)' <=> Waits("done", s)
    BY <1>2, <1>3 DEF Taking
  <2>4. Waits("run", s)' <=> Waits("run", s)
    BY <1>2, <1>3 DEF Taking
  <2> QED
    BY <2>1, <2>2, <2>3, <2>4
<1>10. ReadOK(s)'
  BY <1>3, <1>5, <1>6, <1>9 DEF ReadOK, Begun
<1>11. StopOK(s)'
  BY <1>2, <1>3, <1>5, <1>6, <1>9 DEF StopOK, Begun
<1>12. Lives(s)
  <2>1. ~Waits("run", s)
    BY <1>2, <1>3 DEF StopOK, StartOK, Starts
  <2> QED
    BY <1>1, <1>3, <1>5, <1>6, <1>9, <1>10, <1>11, <2>1 DEF Lives, Begun, Reading
<1>13. \A r \in Sub \ {s} : Same(r)
  BY <1>2, <1>6, <1>8 DEF Same, Alone, Taking, IoStays
<1> QED
  BY <1>2, <1>5, <1>6, <1>8, <1>12, <1>13 DEF Touches, Begun
(* run *)
LEMMA RunStartTouches ==
  ASSUME BaseInv, RunStart, NEW s, s = First
  PROVE  /\ Touches(s) /\ Waits("run", s) /\ loop \in {"asleep", "batch"}
         /\ \/ /\ loop' = "reading" /\ current' = s /\ sub'[s].start = sub[s].start
               /\ sub'[s].stopRequested = sub[s].stopRequested /\ sub'[s].pollPending
               /\ sub'[s].stopped = sub[s].stopped
            \/ loop' = "batch" /\ current' = NoSub /\ sub'[s].start = "failed"
<1>1. Take("run") /\ "run" \in Kind
  BY DEF RunStart, Kind
<1>2. /\ QueueOK /\ Taking("run", s) /\ s \in Created /\ Waits("run", s) /\ s \in Sub
      /\ loop \in {"asleep", "batch"}
  BY <1>1, Taken DEF QueueOK, Taking
<1>3. /\ sub[s] \in SubRecord /\ sub[s].pollPending \in BOOLEAN /\ sub[s].stopped \in BOOLEAN
      /\ ReadOK(s) /\ StopOK(s) /\ StartOK(s) /\ "done" \in Kind /\ "stop" \in Kind
      /\ sub[s].running \in BOOLEAN
  BY <1>2, LivesFacts
<1>4. sub[s].running /\ ~sub[s].pollPending /\ io[s] = "none" /\ ~Waits("done", s)
  BY <1>2, <1>3 DEF StartOK, StopOK, ReadOK, Starts
<1>5. ~Waits("run", s)'
  BY <1>1, <1>2 DEF Taking
<1>6. CASE /\ io' = [io EXCEPT ![First] = IF sub[First].running THEN "inFlight" ELSE @]
           /\ sub' = [sub EXCEPT ![First].pollPending = @ \/ sub[First].running]
           /\ loop' = "reading" /\ current' = First
  <2> DEFINE new == [sub[s] EXCEPT !.pollPending = TRUE]
  <2>1. /\ new \in SubRecord /\ new.pollPending /\ new.owner = sub[s].owner
        /\ new.stopRequested = sub[s].stopRequested /\ new.start = sub[s].start
        /\ new.running = sub[s].running /\ new.stopped = sub[s].stopped
    BY <1>3 DEF SubRecord
  <2>2. Becomes(s, new) /\ io' = [io EXCEPT ![s] = "inFlight"]
    <3>1. (sub[s].pollPending \/ sub[s].running) = TRUE
      BY <1>3, <1>4
    <3> QED
      BY <1>2, <1>4, <1>6, <3>1, Types DEF Becomes
  <2> HIDE DEF new
  <2>3. sub'[s] = new /\ Alone(s) /\ SubOK
    BY <1>2, <2>1, <2>2, SubBecomes, Types DEF SubOK
  <2>4. IoOK /\ IoAlone(s) /\ io'[s] = "inFlight"
    BY <1>2, <2>2, Types DEF IoOK, IoAlone
  <2>5. Waits("done", s)' <=> Waits("done", s)
    BY <1>2, <1>3 DEF Taking
  <2>6. Waits("stop", s)' <=> Waits("stop", s)
    BY <1>2, <1>3 DEF Taking
  <2>7. ReadOK(s)'
    BY <1>4, <2>1, <2>3, <2>4, <2>5 DEF ReadOK
  <2>8. StopOK(s)'
    BY <1>3, <1>4, <2>1, <2>3, <2>6 DEF StopOK
  <2>9. Lives(s)
    BY <1>2, <1>5, <2>1, <2>3, <2>7, <2>8 DEF Lives, Reading
  <2>10. \A r \in Sub \ {s} : Same(r)
    BY <1>2, <2>3, <2>4 DEF Same, Alone, Taking, IoAlone
  <2> QED
    BY <1>2, <1>6, <2>1, <2>3, <2>4, <2>9, <2>10 DEF Touches
<1>7. CASE /\ sub' = [sub EXCEPT ![First] = [StoppedHere(@) EXCEPT !.start = "failed"]]
           /\ io' = io /\ Return
  <2> DEFINE new == [StoppedHere(sub[s]) EXCEPT !.start = "failed"]
  <2>1. Halted(sub[s], StoppedHere(sub[s]))
    BY <1>3, StoppedHereIs
  <2>2. Halted(sub[s], new) /\ new.start = "failed"
    BY <2>1 DEF Halted, SubRecord
  <2>3. Becomes(s, new)
    BY <1>2, <1>7, Types DEF Becomes
  <2> HIDE DEF new
  <2>4. IoOK /\ IoStays /\ ~Reading(s)' /\ loop' = "batch" /\ current' = NoSub
    BY <1>7, Types DEF IoOK, IoStays, Reading, Return
  <2>5. Touches(s) /\ sub'[s] = new
    BY <1>2, <1>5, <2>2, <2>3, <2>4, HaltTouches
  <2> QED
    BY <1>2, <2>2, <2>4, <2>5
<1> QED
  BY <1>6, <1>7 DEF RunStart
(* readTree has returned or thrown. *)
LEMMA ReadTreeTouches ==
  ASSUME BaseInv, ReadTree, NEW s, s = current
  PROVE  /\ Touches(s) /\ Reading(s) /\ sub'[s].start = "started"
         /\ \/ sub'[s].stopRequested /\ sub[s].owner \in needsResubscribe'
            \/ /\ sub'[s].stopRequested = sub[s].stopRequested
               /\ sub'[s].stopped = sub[s].stopped
               /\ sub'[s].pollPending = sub[s].pollPending
<1> DEFINE stops == sub[s].owner \in cancelled \/ sub[s].stopRequested
           old == sub[s]
           halted == IF stops THEN StoppedHere(old) ELSE old
           new == [halted EXCEPT !.start = "started"]
<1>1. /\ loop = "reading" /\ loop' = "batch" /\ apcs' = apcs
      /\ needsResubscribe' = IF stops THEN needsResubscribe \cup {sub[s].owner}
                                      ELSE needsResubscribe
      /\ sub' = [sub EXCEPT ![s] = [(IF stops THEN StoppedHere(@) ELSE @)
                                      EXCEPT !.start = "started"]]
      /\ io' = IF stops /\ ~sub[s].stopRequested THEN CancelIo(s) ELSE io
  BY DEF ReadTree, Return
<1>2. s \in Created /\ s \in Sub /\ Reading(s)
  BY <1>1, Types DEF Reading
<1>3. /\ sub[s] \in SubRecord /\ StartOK(s) /\ ReadOK(s) /\ StopOK(s)
      /\ "done" \in Kind /\ "stop" \in Kind
  BY <1>2, LivesFacts
<1>4. ~Waits("run", s) /\ Still /\ QueueOK
  BY <1>1, <1>2, <1>3, Types DEF StartOK, Reading, Still, Waits, QueueOK, CallsAreOnce
<1>5. Becomes(s, new)
  BY <1>1, <1>2, Types DEF Becomes
<1>6. ~Reading(s)'
  BY <1>1 DEF Reading
<1>7. CASE stops
  <2>1. Halted(old, StoppedHere(old))
    BY <1>3, StoppedHereIs
  <2>2. Halted(sub[s], new) /\ new.start = "started"
    BY <1>7, <2>1 DEF Halted, SubRecord
  <2>3. io' = IF sub[s].stopRequested THEN io ELSE CancelIo(s)
    BY <1>1, <1>7
  <2> HIDE DEF new
  <2>4. IoOK /\ IoStays
    BY <1>2, <2>3, CancelledIo, Types DEF IoOK, IoStays
  <2>5. "run" \in Kind
    BY DEF Kind
  <2>6. ~Waits("run", s)'
    BY <1>2, <1>4, <2>5 DEF Still
  <2>7. Touches(s) /\ sub'[s] = new
    BY <1>2, <1>4, <1>5, <1>6, <2>2, <2>4, <2>6, HaltTouches
  <2>8. sub[s].owner \in needsResubscribe'
    BY <1>1, <1>7
  <2> QED
    BY <1>2, <2>2, <2>7, <2>8 DEF Halted
<1>8. CASE ~stops
  <2>1. /\ new \in SubRecord /\ new.start = "started" /\ new.owner = sub[s].owner
        /\ new.running = sub[s].running /\ new.stopped = sub[s].stopped
        /\ new.pollPending = sub[s].pollPending
        /\ new.stopRequested = sub[s].stopRequested
    BY <1>3, <1>8 DEF SubRecord
  <2>2. io' = io
    BY <1>1, <1>8
  <2> HIDE DEF new
  <2>3. sub'[s] = new /\ Alone(s) /\ SubOK
    BY <1>2, <1>5, <2>1, SubBecomes, Types DEF SubOK
  <2>4. Waits("done", s)' <=> Waits("done", s)
    BY <1>2, <1>3, <1>4 DEF Still
  <2>5. Waits("stop", s)' <=> Waits("stop", s)
    BY <1>2, <1>3, <1>4 DEF Still
  <2>6. ~Waits("run", s)'
    <3>1. "run" \in Kind
      BY DEF Kind
    <3> QED
      BY <1>2, <1>4, <3>1 DEF Still
  <2>7. ReadOK(s)'
    BY <1>3, <2>1, <2>2, <2>3, <2>4 DEF ReadOK
  <2>8. StopOK(s)'
    BY <1>3, <2>1, <2>3, <2>5 DEF StopOK
  <2>9. Lives(s)
    BY <1>6, <2>1, <2>3, <2>6, <2>7, <2>8 DEF Lives
  <2>10. \A r \in Sub \ {s} : Same(r)
    BY <1>4, <2>2, <2>3 DEF Same, Alone, Still
  <2>11. IoOK
    BY <2>2, Types DEF IoOK
  <2> QED
    BY <1>2, <1>4, <2>1, <2>3, <2>9, <2>10, <2>11 DEF Touches
<1> QED
  BY <1>7, <1>8

LEMMA ReadTreeFailsTouches ==
  ASSUME BaseInv, ReadTreeFails, NEW s, s = current
  PROVE  Touches(s) /\ Reading(s) /\ sub'[s].start = "failed"
<1> DEFINE new == [StoppedHere(sub[s]) EXCEPT !.start = "failed"]
<1>1. /\ loop = "reading" /\ loop' = "batch" /\ apcs' = apcs
      /\ sub' = [sub EXCEPT ![s] = [StoppedHere(@) EXCEPT !.start = "failed"]]
      /\ io' = IF sub[s].stopRequested THEN io ELSE CancelIo(s)
  BY DEF ReadTreeFails, Return
<1>2. s \in Created /\ s \in Sub /\ Reading(s)
  BY <1>1, Types DEF Reading
<1>3. sub[s] \in SubRecord /\ StartOK(s) /\ "run" \in Kind
  BY <1>2, LivesFacts
<1>4. ~Waits("run", s) /\ Still /\ QueueOK
  BY <1>1, <1>2, <1>3, Types DEF StartOK, Reading, Still, Waits, QueueOK, CallsAreOnce
<1>5. Becomes(s, new)
  BY <1>1, <1>2, Types DEF Becomes
<1>6. ~Reading(s)' /\ ~Waits("run", s)'
  BY <1>1, <1>2, <1>3, <1>4 DEF Reading, Still
<1>7. Halted(sub[s], StoppedHere(sub[s]))
  BY <1>3, StoppedHereIs
<1>8. Halted(sub[s], new) /\ new.start = "failed"
  BY <1>7 DEF Halted, SubRecord
<1>9. IoOK /\ IoStays
  BY <1>1, <1>2, CancelledIo, Types DEF IoOK, IoStays
<1> HIDE DEF new
<1> QED
  BY <1>2, <1>4, <1>5, <1>6, <1>8, <1>9, HaltTouches

(* failOverflow stops its own Subscription, handleWatcherError the state of *)
(* the watcher.                                                             *)
LEMMA StopOverflowedTouches ==
  ASSUME BaseInv, StopOverflowed, NEW s, s = current
  PROVE  Touches(s) /\ sub'[s].start = sub[s].start
<1>1. /\ loop = "invalidated" /\ loop' = "batch" /\ apcs' = apcs
      /\ sub' = [sub EXCEPT ![s] = StoppedHere(@)]
      /\ io' = IF sub[s].stopRequested THEN io ELSE CancelIo(s)
  BY DEF StopOverflowed, Return
<1>2. s \in Created /\ s \in Sub
  BY <1>1, Types
<1>3. sub[s] \in SubRecord /\ "run" \in Kind
  BY <1>2, LivesFacts
<1>4. ~Waits("run", s) /\ Still /\ QueueOK
  <2>1. ~Waits("run", s)
    <3>1. s # NoSub
      BY <1>2, Types
    <3>2. current # NoSub => ~Waits("run", current)
      BY DEF BaseInv, LoopOK
    <3> QED
      BY <3>1, <3>2
  <2> QED
    BY <1>1, <2>1, Types DEF Still, Waits, QueueOK, CallsAreOnce
<1>5. Becomes(s, StoppedHere(sub[s]))
  BY <1>1, <1>2, Types DEF Becomes
<1>6. ~Reading(s)' /\ ~Waits("run", s)'
  BY <1>1, <1>2, <1>3, <1>4 DEF Reading, Still
<1>7. Halted(sub[s], StoppedHere(sub[s])) /\ StoppedHere(sub[s]).start = sub[s].start
  BY <1>3, StoppedHereIs
<1>8. IoOK /\ IoStays
  BY <1>1, <1>2, CancelledIo, Types DEF IoOK, IoStays
<1> QED
  BY <1>2, <1>4, <1>5, <1>6, <1>7, <1>8, HaltTouches

LEMMA UnwatchFailedTouches ==
  ASSUME BaseInv, UnwatchFailed, NEW w, w = sub[current].owner, NEW s, s = state[w]
  PROVE  /\ w \in Watcher /\ w \in subscriptions \ pending /\ QueueOK
         /\ s = NoSub => sub' = sub /\ io' = io /\ Still
         /\ s # NoSub => /\ Touches(s) /\ sub'[s].start = sub[s].start
                         /\ sub'[s].stopRequested
<1>1. /\ loop = "error" /\ w \in subscriptions \ pending /\ loop' = "detach" /\ apcs' = apcs
      /\ sub' = IF state[w] = NoSub THEN sub ELSE [sub EXCEPT ![state[w]] = StoppedHere(@)]
      /\ io' = IF state[w] = NoSub \/ sub[state[w]].stopRequested THEN io
                                                                   ELSE CancelIo(state[w])
  BY DEF UnwatchFailed
<1>2. w \in Watcher /\ QueueOK /\ Still
  BY <1>1, Types DEF QueueOK, Still, Waits, CallsAreOnce
<1>3. CASE state[w] = NoSub
  BY <1>1, <1>2, <1>3
<1>4. ASSUME s # NoSub
      PROVE  Touches(s) /\ sub'[s].start = sub[s].start /\ sub'[s].stopRequested
  <2>1. s \in Created /\ sub[s].owner = w
    BY <1>2, <1>4 DEF BaseInv, SubsExist
  <2>2. s \in Sub /\ sub[s] \in SubRecord /\ "run" \in Kind /\ StartOK(s)
    BY <2>1, LivesFacts
  <2>3. ~Waits("run", s)
    BY <1>1, <2>1, <2>2 DEF StartOK, Starts
  <2>4. Becomes(s, StoppedHere(sub[s]))
    BY <1>1, <1>4, <2>2, Types DEF Becomes
  <2>5. ~Reading(s)' /\ ~Waits("run", s)'
    BY <1>1, <1>2, <2>2, <2>3 DEF Reading, Still
  <2>6. Halted(sub[s], StoppedHere(sub[s])) /\ StoppedHere(sub[s]).start = sub[s].start
    BY <2>2, StoppedHereIs
  <2>7. io' = IF sub[s].stopRequested THEN io ELSE CancelIo(s)
    BY <1>1, <1>4
  <2>8. IoOK /\ IoStays
    BY <2>2, <2>7, CancelledIo, Types DEF IoOK, IoStays
  <2>9. Touches(s) /\ sub'[s] = StoppedHere(sub[s])
    BY <1>2, <2>1, <2>4, <2>5, <2>6, <2>8, HaltTouches
  <2> QED
    BY <2>6, <2>9 DEF Halted
<1> QED
  BY <1>1, <1>2, <1>3, <1>4
(* The kernel ends a read. *)
LEMMA CompleteTouches ==
  ASSUME BaseInv, NEW s \in Sub, Complete(s)
  PROVE  Touches(s) /\ sub' = sub /\ ~Waits("run", s)
<1>1. /\ io[s] # "none" /\ io' = [io EXCEPT ![s] = "none"] /\ sub' = sub
      /\ apcs' = Append(apcs, Call("done", s))
  BY DEF Complete
<1>2. s \in Created
  <2>1. created \in Nat /\ s \in Nat
    BY Types DEF Sub
  <2>2. ~(s > created) /\ s >= 1
    BY <1>1 DEF BaseInv, SubsExist, Sub
  <2> QED
    BY <2>1, <2>2 DEF Created
<1>3. /\ ReadOK(s) /\ StopOK(s) /\ StartOK(s) /\ "done" \in Kind /\ "stop" \in Kind
      /\ "run" \in Kind /\ sub[s].pollPending \in BOOLEAN
  BY <1>2, LivesFacts
<1>4. sub[s].pollPending /\ ~Waits("done", s) /\ ~Waits("run", s)
  BY <1>1, <1>3 DEF ReadOK, StartOK
<1>5. QueueOK /\ Adding("done", s)
  BY <1>1, <1>3, <1>4, QueueCall, Types DEF QueueOK, Adding
<1>6. IoOK /\ IoAlone(s) /\ io'[s] = "none"
  BY <1>1, Types DEF IoOK, IoAlone
<1>7. Waits("done", s)'
  BY <1>3, <1>5 DEF Adding
<1>8. Waits("stop", s)' <=> Waits("stop", s)
  BY <1>3, <1>5 DEF Adding
<1>9. ~Waits("run", s)'
  BY <1>3, <1>4, <1>5 DEF Adding
<1>10. ReadOK(s)'
  BY <1>1, <1>4, <1>6, <1>7 DEF ReadOK
<1>11. StopOK(s)'
  BY <1>1, <1>3, <1>8 DEF StopOK
<1>12. Lives(s)
  BY <1>1, <1>9, <1>10, <1>11 DEF Lives
<1>13. \A r \in Sub \ {s} : Same(r)
  BY <1>1, <1>5, <1>6 DEF Same, Adding, IoAlone
<1>14. SubOK
  BY <1>1, Types DEF SubOK
<1> QED
  BY <1>1, <1>2, <1>4, <1>5, <1>6, <1>12, <1>13, <1>14 DEF Touches

(* Its completion routine: the read is counted no more, or once more. *)
Ended(old, new) ==
  /\ new \in SubRecord /\ new.owner = old.owner /\ new.start = old.start
  /\ new.running = old.running /\ new.stopRequested = old.stopRequested
  /\ new.stopped => old.stopped \/ (~old.running /\ ~new.pollPending)
  /\ old.stopped => new.stopped

LEMMA CompletionTouches ==
  ASSUME BaseInv, NEW s \in Sub, Completing(s), NEW new, Ended(sub[s], new), Becomes(s, new),
         IoOK, IoAlone(s), io'[s] # "none" <=> new.pollPending, loop' # "reading"
  PROVE  Touches(s) /\ sub'[s] = new /\ io[s] = "none" /\ ~Waits("run", s)
<1>1. Take("done") /\ s = First /\ "done" \in Kind
  BY DEF Completing, Kind
<1>2. QueueOK /\ Taking("done", s) /\ s \in Created /\ Waits("done", s)
  BY <1>1, Taken DEF QueueOK, Taking
<1>3. /\ ReadOK(s) /\ StopOK(s) /\ StartOK(s) /\ "stop" \in Kind
      /\ "run" \in Kind
  BY <1>2, LivesFacts
<1>4. io[s] = "none" /\ sub[s].pollPending /\ ~sub[s].stopped /\ ~Waits("run", s)
  BY <1>2, <1>3 DEF ReadOK, StopOK, StartOK
<1>5. sub'[s] = new /\ Alone(s) /\ SubOK
  BY SubBecomes, Types DEF Ended, SubOK
<1>6. ~Waits("done", s)'
  BY <1>1, <1>2 DEF Taking
<1>7. Waits("stop", s)' <=> Waits("stop", s)
  BY <1>2, <1>3 DEF Taking
<1>8. ~Waits("run", s)'
  BY <1>3, <1>2, <1>4 DEF Taking
<1>9. ReadOK(s)'
  BY <1>5, <1>6 DEF ReadOK
<1>10. StopOK(s)'
  BY <1>3, <1>4, <1>5, <1>7 DEF StopOK, Ended
<1>11. Lives(s)
  BY <1>4, <1>5, <1>8, <1>9, <1>10 DEF Lives, Ended, Reading
<1>12. \A r \in Sub \ {s} : Same(r)
  BY <1>2, <1>5 DEF Same, Alone, Taking, IoAlone
<1> QED
  BY <1>2, <1>4, <1>5, <1>11, <1>12 DEF Touches

LEMMA CompletingFacts ==
  ASSUME BaseInv, NEW s \in Sub, Completing(s)
  PROVE  /\ s \in Created /\ sub[s] \in SubRecord /\ io[s] = "none" /\ sub[s].pollPending = TRUE
         /\ sub[s].pollPending /\ ~sub[s].stopped /\ loop \in {"asleep", "batch"}
<1>1. Take("done") /\ s = First /\ "done" \in Kind
  BY DEF Completing, Kind
<1>2. s \in Created /\ Waits("done", s) /\ loop \in {"asleep", "batch"}
  BY <1>1, Taken
<1>3. /\ ReadOK(s) /\ StopOK(s) /\ sub[s] \in SubRecord /\ sub[s].pollPending \in BOOLEAN
  BY <1>2, LivesFacts
<1> QED
  BY <1>2, <1>3 DEF ReadOK, StopOK

LEMMA CompleteStopTouches ==
  ASSUME BaseInv, NEW s \in Sub, CompleteStop(s)
  PROVE  /\ Touches(s) /\ sub'[s].start = sub[s].start /\ ~sub[s].running
         /\ loop' = "batch" /\ current' = NoSub
<1> DEFINE x == [sub[s] EXCEPT !.pollPending = FALSE]
           new == FinishedStop(x)
<1>1. /\ Completing(s) /\ ~sub[s].running /\ io' = io /\ loop' = "batch" /\ current' = NoSub
      /\ sub' = [sub EXCEPT ![s] = FinishedStop([@ EXCEPT !.pollPending = FALSE])]
  BY DEF CompleteStop, Return
<1>2. sub[s] \in SubRecord /\ io[s] = "none" /\ s \in Created /\ ~sub[s].stopped
  BY <1>1, CompletingFacts
<1>3. /\ x \in SubRecord /\ x.owner = sub[s].owner /\ x.start = sub[s].start
      /\ x.running = sub[s].running /\ x.stopRequested = sub[s].stopRequested
      /\ ~x.pollPending
  BY <1>2 DEF SubRecord
<1>4. Becomes(s, new)
  BY <1>1, Types DEF Becomes
<1> HIDE DEF x
<1>5. /\ new \in SubRecord /\ new.owner = x.owner /\ new.pollPending = x.pollPending
      /\ new.stopRequested = x.stopRequested
      /\ new.start = x.start /\ new.running = x.running
  BY <1>3, FinishedStopIs
<1>6. Ended(sub[s], new) /\ ~new.pollPending /\ new.start = sub[s].start
  BY <1>1, <1>2, <1>3, <1>5 DEF Ended
<1> HIDE DEF new
<1>7. IoOK /\ IoAlone(s) /\ io'[s] = "none"
  BY <1>1, <1>2, Types DEF IoOK, IoAlone
<1>8. Touches(s) /\ sub'[s] = new
  BY <1>1, <1>4, <1>6, <1>7, CompletionTouches
<1> QED
  BY <1>1, <1>6, <1>8

LEMMA CompleteReadTouches ==
  ASSUME BaseInv, NEW s \in Sub, CompleteEvents(s) \/ CompleteParameter(s)
  PROVE  /\ Touches(s) /\ loop' = "batch" /\ current' = NoSub
         /\ sub'[s].start = sub[s].start /\ sub'[s].stopRequested = sub[s].stopRequested
         /\ sub'[s].pollPending /\ sub'[s].stopped = sub[s].stopped
<1>1. Completing(s) /\ loop' = "batch" /\ current' = NoSub /\ io' = [io EXCEPT ![s] = "inFlight"]
  BY DEF CompleteEvents, CompleteParameter, FaultOf, Return
<1>2. /\ sub[s] \in SubRecord /\ io[s] = "none" /\ s \in Created /\ ~sub[s].stopped
      /\ sub[s].pollPending
  BY <1>1, CompletingFacts
<1>3. PICK new \in SubRecord : /\ Becomes(s, new) /\ Ended(sub[s], new) /\ new.pollPending
                              /\ new.stopped = sub[s].stopped
  <2>1. CASE CompleteEvents(s)
    <3>1. sub' = [sub EXCEPT ![s] = sub[s]]
      BY <2>1, Types DEF CompleteEvents
    <3> QED
      BY <1>2, <3>1 DEF Becomes, Ended
  <2>2. CASE CompleteParameter(s)
    <3> DEFINE new == [sub[s] EXCEPT !.small = TRUE]
    <3>1. Becomes(s, new)
      BY <2>2, Types DEF CompleteParameter, Becomes
    <3>2. /\ new \in SubRecord /\ Ended(sub[s], new) /\ new.pollPending
          /\ new.stopped = sub[s].stopped
      BY <1>2 DEF SubRecord, Ended
    <3> QED
      BY <3>1, <3>2
  <2> QED
    BY <2>1, <2>2
<1>4. IoOK /\ IoAlone(s) /\ io'[s] = "inFlight"
  BY <1>1, Types DEF IoOK, IoAlone
<1>5. Touches(s) /\ sub'[s] = new
  BY <1>1, <1>3, <1>4, CompletionTouches
<1> QED
  BY <1>1, <1>3, <1>5 DEF Ended

LEMMA CompleteFaultTouches ==
  ASSUME BaseInv, NEW s \in Sub, CompleteOverflow(s) \/ CompleteError(s)
  PROVE  /\ Touches(s) /\ loop' \in {"overflow", "error"} /\ current' = s
         /\ sub'[s].start = sub[s].start /\ sub'[s].stopRequested = sub[s].stopRequested
         /\ sub'[s].stopped = sub[s].stopped /\ sub[s].running
         /\ sub[s].owner \in pending => FaultsWhilePending
<1>1. /\ Completing(s) /\ loop' \in {"overflow", "error"} /\ current' = s /\ sub[s].running
      /\ sub[s].owner \in pending => FaultsWhilePending
  BY DEF CompleteOverflow, CompleteError, FaultOf
<1>2. /\ sub[s] \in SubRecord /\ io[s] = "none" /\ s \in Created /\ ~sub[s].stopped
      /\ sub[s].pollPending
  BY <1>1, CompletingFacts
<1>3. PICK new \in SubRecord : /\ Becomes(s, new) /\ Ended(sub[s], new)
                              /\ new.stopped = sub[s].stopped
                              /\ IoOK /\ IoAlone(s) /\ (io'[s] # "none" <=> new.pollPending)
  <2>1. CASE CompleteOverflow(s)
    <3>1. PICK next \in BOOLEAN :
            /\ sub' = [sub EXCEPT ![s].pollPending = next, ![s].overflowed = TRUE]
            /\ io' = IF next THEN [io EXCEPT ![s] = "inFlight"] ELSE io
      BY <2>1 DEF CompleteOverflow
    <3> DEFINE new == [sub[s] EXCEPT !.pollPending = next, !.overflowed = TRUE]
    <3>2. Becomes(s, new)
      BY <3>1, Types DEF Becomes
    <3>3. /\ new \in SubRecord /\ Ended(sub[s], new) /\ new.stopped = sub[s].stopped
          /\ new.pollPending = next
      BY <1>2 DEF SubRecord, Ended
    <3> HIDE DEF new
    <3>4. IoOK /\ IoAlone(s) /\ (io'[s] # "none" <=> next)
      BY <1>2, <3>1, Types DEF IoOK, IoAlone
    <3> QED
      BY <3>2, <3>3, <3>4
  <2>2. CASE CompleteError(s)
    <3> DEFINE new == [sub[s] EXCEPT !.pollPending = FALSE]
    <3>1. Becomes(s, new) /\ io' = io
      BY <2>2, Types DEF CompleteError, Becomes
    <3>2. /\ new \in SubRecord /\ Ended(sub[s], new) /\ new.stopped = sub[s].stopped
          /\ ~new.pollPending
      BY <1>2 DEF SubRecord, Ended
    <3> HIDE DEF new
    <3> QED
      BY <1>2, <3>1, <3>2, Types DEF IoOK, IoAlone
  <2> QED
    BY <2>1, <2>2
<1>4. Touches(s) /\ sub'[s] = new
  BY <1>1, <1>3, CompletionTouches
<1> QED
  BY <1>1, <1>3, <1>4 DEF Ended
----------------------------------------------------------------------------
(* The steps that leave every Subscription, its read and its calls alone    *)
Quiet ==
  /\ sub' = sub /\ io' = io /\ created' = created /\ QueueOK /\ Still

LEMMA QuietQueue ==
  ASSUME BaseInv, NEW others, apcs' = apcs \/ Unref(others)
  PROVE  QueueOK /\ Still
<1>1. CASE apcs' = apcs
  BY <1>1, Types DEF QueueOK, Still, Waits, CallsAreOnce
<1>2. CASE apcs' = Append(apcs, [kind |-> "noop", sub |-> NoSub])
  BY <1>2, QueueNoop, Types DEF QueueOK, Still
<1> QED
  BY <1>1, <1>2 DEF Unref

QuietCall(t) ==
  \/ NothingToWatch(t) \/ SubscribeFails(t) \/ Started(t) \/ StartGivenUp(t)
  \/ NothingToUnwatch(t) \/ UnwatchFails(t) \/ FinishUnsubscribe(t)
  \/ UnrefCall(t) \/ ReleaseShared(t)

QuietLoop ==
  \/ Sleep \/ RunNoop \/ InvalidateCurrent \/ NothingFailed \/ DetachFailed \/ UnrefFailed

LEMMA QuietSteps ==
  ASSUME BaseInv,
         \/ \E t \in Thread, w \in Watcher : CallWatch(t, w) \/ CallUnwatch(t, w)
         \/ \E w \in Watcher : Cancel(w)
         \/ \E t \in Thread : QuietCall(t)
         \/ QuietLoop
  PROVE  Quiet
<1> USE DEF subVars, boundVars
<1>1. CASE \E t \in Thread, w \in Watcher : CallWatch(t, w) \/ CallUnwatch(t, w)
  <2>1. sub' = sub /\ io' = io /\ created' = created /\ apcs' = apcs
    BY <1>1 DEF CallWatch, CallUnwatch
  <2> QED
    BY <2>1, QuietQueue DEF Quiet
<1>2. CASE \E w \in Watcher : Cancel(w)
  <2>1. sub' = sub /\ io' = io /\ created' = created /\ apcs' = apcs
    BY <1>2 DEF Cancel
  <2> QED
    BY <2>1, QuietQueue DEF Quiet
<1>3. ASSUME NEW t \in Thread, QuietCall(t) PROVE Quiet
  <2>1. sub' = sub /\ io' = io /\ created' = created
    BY <1>3 DEF QuietCall, NothingToWatch, SubscribeFails, Started, StartGivenUp,
                NothingToUnwatch, UnwatchFails, FinishUnsubscribe, UnrefCall, ReleaseShared
  <2>2. CASE UnrefCall(t) \/ ReleaseShared(t)
    BY <2>1, <2>2, QuietQueue DEF Quiet, UnrefCall, ReleaseShared
  <2>3. CASE ~(UnrefCall(t) \/ ReleaseShared(t))
    <3>1. apcs' = apcs
      BY <1>3, <2>3 DEF QuietCall, NothingToWatch, SubscribeFails, Started, StartGivenUp,
                        NothingToUnwatch, UnwatchFails, FinishUnsubscribe
    <3> QED
      BY <2>1, <3>1, QuietQueue DEF Quiet
  <2> QED
    BY <2>2, <2>3
<1>4. CASE QuietLoop
  <2>1. sub' = sub /\ io' = io /\ created' = created
    BY <1>4 DEF QuietLoop, Sleep, RunNoop, InvalidateCurrent, NothingFailed, DetachFailed,
                UnrefFailed
  <2>2. CASE UnrefFailed
    BY <2>1, <2>2, QuietQueue DEF Quiet, UnrefFailed
  <2>3. CASE RunNoop
    BY <2>1, <2>3, TakenNoop DEF Quiet, RunNoop, QueueOK, Still
  <2>4. CASE ~(UnrefFailed \/ RunNoop)
    <3>1. apcs' = apcs
      BY <1>4, <2>4 DEF QuietLoop, Sleep, InvalidateCurrent, NothingFailed, DetachFailed
    <3> QED
      BY <2>1, <3>1, QuietQueue DEF Quiet
  <2> QED
    BY <2>2, <2>3, <2>4
<1> QED
  BY <1>1, <1>2, <1>3, <1>4

(* The callers who stop one: nobody starts it any more. *)
LEMMA StartFailedTouches ==
  ASSUME BaseInv, NEW t \in Thread, StartFailed(t), NEW s, s = mine[t]
  PROVE  /\ Touches(s) /\ sub'[s].stopRequested /\ sub'[s].start = sub[s].start
         /\ sub'[s].stopped = sub[s].stopped /\ sub[s].start = "failed"
<1>1. /\ where[t] = "starting" /\ sub[s].start = "failed"
      /\ apcs' = StopQueued(s) /\ sub' = StopRequested(s) /\ io' = io
  BY DEF StartFailed
<1>2. s # NoSub /\ s \in Created
  BY <1>1 DEF BaseInv, StartersAreAlone, Starter, SubsExist
<1>3. StartOK(s)
  BY <1>2, LivesFacts
<1>4. ~Waits("run", s) /\ ~Reading(s)
  BY <1>1, <1>3 DEF StartOK, Starts
<1> QED
  BY <1>1, <1>2, <1>4, RequestTouches

LEMMA UnwatchTouches ==
  ASSUME BaseInv, NEW t \in Thread, Unwatch(t), NEW s, s = state[on[t]]
  PROVE  /\ s = NoSub => sub' = sub /\ io' = io /\ QueueOK /\ Still
         /\ s # NoSub => /\ Touches(s) /\ sub'[s].stopRequested
                         /\ sub'[s].start = sub[s].start
                         /\ sub'[s].stopped = sub[s].stopped
<1>1. /\ on[t] \in subscriptions \ pending /\ on[t] \in Watcher
      /\ apcs' = StopQueued(s) /\ sub' = StopRequested(s) /\ io' = io
  BY Types DEF Unwatch
<1>2. CASE s = NoSub
  BY <1>1, <1>2, RequestEffect
<1>3. CASE s # NoSub
  <2>1. s \in Created /\ sub[s].owner = on[t]
    BY <1>1, <1>3 DEF BaseInv, SubsExist
  <2>2. StartOK(s)
    BY <2>1, LivesFacts
  <2>3. ~Waits("run", s) /\ ~Reading(s)
    BY <1>1, <2>1, <2>2 DEF StartOK, Starts
  <2> QED
    BY <1>1, <1>3, <2>1, <2>3, RequestTouches
<1> QED
  BY <1>2, <1>3
----------------------------------------------------------------------------
(* What any step does to the Subscriptions                                  *)
LEMMA StepIs ==
  ASSUME BaseInv, WindowsNext
  PROVE  \/ Quiet
         \/ created' = created /\ \E s \in Created : Touches(s)
         \/ \E t \in Thread : Subscribe(t)
<1> USE DEF boundVars
<1> DEFINE Goal == \/ Quiet
                   \/ created' = created /\ \E s \in Created : Touches(s)
                   \/ \E t \in Thread : Subscribe(t)
<1>0. \A s : Touches(s) => s \in Created
  BY DEF Touches
<1>1. CASE \/ \E t \in Thread, w \in Watcher : CallWatch(t, w) \/ CallUnwatch(t, w)
           \/ \E w \in Watcher : Cancel(w)
  BY <1>1, QuietSteps
<1>2. ASSUME NEW t \in Thread, CallerStep(t) PROVE Goal
  <2>1. CASE QuietCall(t)
    BY <2>1, QuietSteps
  <2>2. CASE StartFailed(t)
    BY <1>0, <2>2, StartFailedTouches DEF StartFailed
  <2>3. CASE Unwatch(t)
    <3>1. created' = created /\ io' = io
      BY <2>3 DEF Unwatch
    <3>2. PICK s : s = state[on[t]]
      OBVIOUS
    <3>3. /\ s = NoSub => sub' = sub /\ io' = io /\ QueueOK /\ Still
          /\ s # NoSub => Touches(s)
      BY <2>3, <3>2, UnwatchTouches
    <3> QED
      BY <1>0, <3>1, <3>3 DEF Quiet
  <2>4. CASE Subscribe(t)
    BY <2>4
  <2> QED
    BY <1>2, <2>1, <2>2, <2>3, <2>4 DEF CallerStep, QuietCall
<1>3. ASSUME NEW s \in Sub, Complete(s) PROVE Goal
  BY <1>0, <1>3, CompleteTouches DEF Complete
<1>4. CASE LoopStep
  <2>1. CASE QuietLoop
    BY <2>1, QuietSteps
  <2>2. CASE RunStop
    <3>1. PICK s : s = First
      OBVIOUS
    <3> QED
      BY <1>0, <2>2, <3>1, RunStopTouches DEF RunStop
  <2>3. CASE RunStart
    <3>1. PICK s : s = First
      OBVIOUS
    <3> QED
      BY <1>0, <2>3, <3>1, RunStartTouches DEF RunStart
  <2>4. CASE ReadTree
    <3>1. PICK s : s = current
      OBVIOUS
    <3> QED
      BY <1>0, <2>4, <3>1, ReadTreeTouches DEF ReadTree
  <2>5. CASE ReadTreeFails
    <3>1. PICK s : s = current
      OBVIOUS
    <3> QED
      BY <1>0, <2>5, <3>1, ReadTreeFailsTouches DEF ReadTreeFails
  <2>6. CASE StopOverflowed
    <3>1. PICK s : s = current
      OBVIOUS
    <3> QED
      BY <1>0, <2>6, <3>1, StopOverflowedTouches DEF StopOverflowed
  <2>7. CASE UnwatchFailed
    <3>1. PICK w : w = sub[current].owner
      OBVIOUS
    <3>2. PICK s : s = state[w]
      OBVIOUS
    <3>3. /\ QueueOK
          /\ s = NoSub => sub' = sub /\ io' = io /\ Still
          /\ s # NoSub => Touches(s)
      BY <2>7, <3>1, <3>2, UnwatchFailedTouches
    <3>4. created' = created
      BY <2>7 DEF UnwatchFailed
    <3> QED
      BY <1>0, <2>7, <3>1, <3>2, <3>3, <3>4, UnwatchFailedTouches DEF Quiet
  <2>8. ASSUME NEW s \in Sub,
               \/ CompleteStop(s) \/ CompleteEvents(s) \/ CompleteParameter(s)
               \/ CompleteOverflow(s) \/ CompleteError(s)
        PROVE  Goal
    <3>1. created' = created
      BY <2>8 DEF CompleteStop, CompleteEvents, CompleteParameter, CompleteOverflow,
                  CompleteError
    <3>2. Touches(s)
      BY <2>8, CompleteStopTouches, CompleteReadTouches, CompleteFaultTouches
    <3> QED
      BY <1>0, <3>1, <3>2
  <2> QED
    BY <1>4, <2>1, <2>2, <2>3, <2>4, <2>5, <2>6, <2>7, <2>8 DEF LoopStep, QuietLoop
<1> QED
  BY <1>1, <1>2, <1>3, <1>4 DEF WindowsNext

Fresh(s) ==
  /\ s = created' /\ s = created + 1 /\ s \in Sub /\ s \notin Created
  /\ (\A kind \in Kind : ~Waits(kind, s)) /\ Adding("run", s) /\ io' = io /\ Alone(s)

LEMMA StepEffect ==
  ASSUME BaseInv, WindowsNext
  PROVE  /\ SubOK /\ IoOK /\ QueueOK
         /\ \A s \in Created : s \in Created' /\ (Same(s) \/ Lives(s))
         /\ \A s \in Created' : s \in Created \/ Fresh(s)
         /\ \A s \in Sub : s \notin Created' => Same(s) /\ s \notin Created
         /\ created' \in 0..MaxSubs
<1> DEFINE Goal ==
             /\ SubOK /\ IoOK /\ QueueOK
             /\ \A s \in Created : s \in Created' /\ (Same(s) \/ Lives(s))
             /\ \A s \in Created' : s \in Created \/ Fresh(s)
             /\ \A s \in Sub : s \notin Created' => Same(s) /\ s \notin Created
             /\ created' \in 0..MaxSubs
<1>0. /\ created \in 0..MaxSubs /\ MaxSubs \in Nat /\ Created \subseteq Sub
      /\ sub \in [Sub -> SubRecord] /\ io \in [Sub -> {"none", "inFlight", "cancelled"}]
  BY Types
<1>1. CASE Quiet
  <2>1. created' = created /\ Created' = Created /\ SubOK /\ IoOK /\ QueueOK
    BY <1>0, <1>1 DEF Quiet, Created, SubOK, IoOK
  <2>2. \A s \in Sub : Same(s)
    BY <1>1 DEF Same, Quiet, Still
  <2> QED
    BY <1>0, <2>1, <2>2
<1>2. ASSUME created' = created, NEW s \in Created, Touches(s) PROVE Goal
  <2>1. Created' = Created /\ SubOK /\ IoOK /\ QueueOK
    BY <1>2 DEF Touches, Created
  <2>2. \A r \in Sub : Same(r) \/ (r \in Created /\ Lives(r))
    BY <1>2 DEF Touches
  <2>3. \A r \in Sub : r \notin Created => Same(r)
    BY <1>2 DEF Touches
  <2> QED
    BY <1>0, <1>2, <2>1, <2>2, <2>3
<1>3. ASSUME NEW t \in Thread, Subscribe(t) PROVE Goal
  <2>1. PICK n : n = created'
    OBVIOUS
  <2>2. /\ n = created + 1 /\ n \in Sub /\ n \notin Created
        /\ Alone(n) /\ SubOK /\ QueueOK /\ Adding("run", n) /\ io' = io
        /\ \A kind \in Kind : ~Waits(kind, n)
    BY <1>3, <2>1, SubscribeEffect
  <2>3. Fresh(n)
    BY <2>1, <2>2 DEF Fresh
  <2>4. Created' = Created \cup {n}
    BY <1>0, <2>1, <2>2 DEF Created, Sub
  <2>5. \A r \in Sub \ {n} : Same(r)
    BY <2>2 DEF Same, Alone, Adding
  <2>6. IoOK /\ created' \in 0..MaxSubs
    BY <1>0, <2>1, <2>2 DEF IoOK, Sub
  <2> QED
    BY <1>0, <2>2, <2>3, <2>4, <2>5, <2>6
<1> QED
  BY <1>1, <1>2, <1>3, StepIs
LEMMA ReadsStep ==
  ASSUME BaseInv, WindowsNext
  PROVE  ReadsAreCounted' /\ StopsAreOrdered'
<1> SUFFICES ASSUME NEW s \in Created' PROVE ReadOK(s)' /\ StopOK(s)'
  BY DEF ReadsAreCounted, StopsAreOrdered
<1>1. CASE s \in Created
  <2>1. ReadOK(s) /\ StopOK(s) /\ "done" \in Kind /\ "stop" \in Kind
    BY <1>1, LivesFacts
  <2>2. CASE Same(s)
    <3>1. /\ sub'[s] = sub[s] /\ (io'[s] = "none" <=> io[s] = "none")
          /\ (Waits("done", s)' <=> Waits("done", s))
          /\ (Waits("stop", s)' <=> Waits("stop", s))
      BY <2>1, <2>2 DEF Same
    <3> QED
      BY <2>1, <3>1 DEF ReadOK, StopOK
  <2>3. CASE Lives(s)
    BY <2>3 DEF Lives
  <2> QED
    BY <1>1, <2>2, <2>3, StepEffect
<1>2. CASE s \notin Created
  <2>1. Fresh(s)
    BY <1>2, StepEffect
  <2>2. PICK t \in Thread : Subscribe(t)
    <3>1. created' # created
      BY <2>1, Types DEF Fresh
    <3> QED
      BY <3>1, StepIs DEF Quiet
  <2>3. /\ s = created' /\ "done" \in Kind /\ "stop" \in Kind /\ s \in Sub
        /\ \A kind \in Kind : ~Waits(kind, s)
    BY <2>1 DEF Fresh, Kind
  <2>4. sub'[s] = NewSub(on[t]) /\ on[t] \in Watcher
    BY <2>2, <2>3, SubscribeEffect
  <2>5. /\ sub'[s].running /\ ~sub'[s].pollPending /\ ~sub'[s].stopped
    BY <2>4, NewSubIs
  <2>6. io'[s] = "none"
    <3>1. s > created
      BY <2>1, Types DEF Fresh
    <3> QED
      BY <2>1, <2>3, <3>1 DEF Fresh, BaseInv, SubsExist
  <2>7. ~Waits("done", s)'
    BY <2>1, <2>3 DEF Fresh, Adding
  <2>8. ~Waits("stop", s)'
    BY <2>1, <2>3 DEF Fresh, Adding
  <2>9. ReadOK(s)'
    BY <2>5, <2>6, <2>7 DEF ReadOK
  <2>10. StopOK(s)'
    BY <2>5, <2>8 DEF StopOK
  <2> QED
    BY <2>9, <2>10
<1> QED
  BY <1>1, <1>2

(* The other variables: every step keeps them in their sets. *)
RestOK ==
  /\ subscriptions \in SUBSET Watcher /\ pending \in SUBSET Watcher
  /\ invalid \in SUBSET Watcher /\ needsResubscribe \in SUBSET Watcher
  /\ cancelled \in SUBSET Watcher
  /\ state \in [Watcher -> Sub \cup {NoSub}]
  /\ loop \in Loop /\ loopRunning \in BOOLEAN
  /\ current \in Sub \cup {NoSub} /\ detaching \in Sub \cup {NoSub}
  /\ where \in [Thread -> Where] /\ on \in [Thread -> Watcher]
  /\ mine \in [Thread -> Sub \cup {NoSub}] /\ wasInvalid \in [Thread -> BOOLEAN]
  /\ faults \in 0..MaxFaults

LEMMA FaultOK ==
  ASSUME faults \in 0..MaxFaults, Fault
  PROVE  faults' \in 0..MaxFaults
  BY BoundsAssumption DEF Fault

LEMMA CallsRest ==
  ASSUME BaseInv, NEW t \in Thread, CallerStep(t)
  PROVE  RestOK'
<1> USE DEF backendVars, subVars, loopVars, callerVars, boundVars, Goto, Released, Where
<1>1. RestOK /\ on[t] \in Watcher /\ state[on[t]] \in Sub \cup {NoSub}
  BY DEF BaseInv, WindowsTypeOK, RestOK
<1>2. CASE NothingToWatch(t)
  BY <1>1, <1>2 DEF RestOK, NothingToWatch
<1>3. CASE Subscribe(t)
  BY <1>1, <1>3 DEF RestOK, Subscribe, MustSubscribe
<1>4. CASE SubscribeFails(t)
  <2>1. faults' \in 0..MaxFaults
    BY <1>1, <1>4, FaultOK DEF RestOK, SubscribeFails
  <2> QED
    BY <1>1, <1>4, <2>1 DEF RestOK, SubscribeFails, MustSubscribe
<1>5. CASE Started(t)
  BY <1>1, <1>5 DEF RestOK, Started
<1>6. CASE StartFailed(t)
  BY <1>1, <1>6 DEF RestOK, StartFailed
<1>7. CASE StartGivenUp(t)
  BY <1>1, <1>7 DEF RestOK, StartGivenUp, Cleared
<1>8. CASE NothingToUnwatch(t)
  BY <1>1, <1>8 DEF RestOK, NothingToUnwatch
<1>9. CASE Unwatch(t)
  BY <1>1, <1>9 DEF RestOK, Unwatch
<1>10. CASE UnwatchFails(t)
  <2>1. faults' \in 0..MaxFaults
    BY <1>1, <1>10, FaultOK DEF RestOK, UnwatchFails
  <2> QED
    BY <1>1, <1>10, <2>1 DEF RestOK, UnwatchFails
<1>11. CASE FinishUnsubscribe(t)
  BY <1>1, <1>11 DEF RestOK, FinishUnsubscribe, Cleared
<1>12. CASE UnrefCall(t)
  BY <1>1, <1>12 DEF RestOK, UnrefCall, Unref
<1>13. CASE ReleaseShared(t)
  BY <1>1, <1>13 DEF RestOK, ReleaseShared, Unref
<1> QED
  BY <1>2, <1>3, <1>4, <1>5, <1>6, <1>7, <1>8, <1>9, <1>10, <1>11, <1>12, <1>13
    DEF CallerStep

LEMMA LoopRest ==
  ASSUME BaseInv, LoopStep
  PROVE  RestOK'
<1> USE DEF backendVars, subVars, loopVars, callerVars, boundVars, Return, Loop
<1>1. RestOK
  BY DEF BaseInv, WindowsTypeOK, RestOK
<1>2. Fault => faults' \in 0..MaxFaults
  BY <1>1, FaultOK DEF RestOK
<1>3. loop \notin {"asleep", "batch", "ended"} =>
        current \in Sub /\ sub[current].owner \in Watcher
  BY Types
<1>4. CASE Sleep
  BY <1>1, <1>4 DEF RestOK, Sleep
<1>5. CASE RunNoop
  BY <1>1, <1>5 DEF RestOK, RunNoop
<1>6. CASE RunStop
  BY <1>1, <1>6 DEF RestOK, RunStop
<1>7. CASE RunStart
  <2>1. First \in Sub
    <3>1. Take("run") /\ "run" \in Kind
      BY <1>7 DEF RunStart, Kind
    <3> QED
      BY <3>1, Taken
  <2> QED
    BY <1>1, <1>2, <1>7, <2>1 DEF RestOK, RunStart
<1>8. CASE ReadTree
  BY <1>1, <1>3, <1>8 DEF RestOK, ReadTree
<1>9. CASE ReadTreeFails
  BY <1>1, <1>2, <1>9 DEF RestOK, ReadTreeFails
<1>10. ASSUME NEW s \in Sub, CompleteStop(s) \/ CompleteEvents(s) PROVE RestOK'
  BY <1>1, <1>10 DEF RestOK, CompleteStop, CompleteEvents
<1>11. ASSUME NEW s \in Sub, CompleteParameter(s) \/ CompleteOverflow(s) \/ CompleteError(s)
       PROVE  RestOK'
  BY <1>1, <1>2, <1>11
    DEF RestOK, CompleteParameter, CompleteOverflow, CompleteError, FaultOf
<1>12. CASE InvalidateCurrent
  BY <1>1, <1>3, <1>12 DEF RestOK, InvalidateCurrent
<1>13. CASE StopOverflowed
  BY <1>1, <1>13 DEF RestOK, StopOverflowed
<1>14. CASE UnwatchFailed
  BY <1>1, <1>3, <1>14 DEF RestOK, UnwatchFailed
<1>15. CASE NothingFailed
  BY <1>1, <1>3, <1>15 DEF RestOK, NothingFailed
<1>16. CASE DetachFailed
  BY <1>1, <1>3, <1>16 DEF RestOK, DetachFailed
<1>17. CASE UnrefFailed
  BY <1>1, <1>17 DEF RestOK, UnrefFailed, Unref
<1> QED
  BY <1>4, <1>5, <1>6, <1>7, <1>8, <1>9, <1>10, <1>11, <1>12, <1>13, <1>14, <1>15, <1>16,
     <1>17 DEF LoopStep

LEMMA TypeStep ==
  ASSUME BaseInv, WindowsNext
  PROVE  WindowsTypeOK'
<1>1. RestOK'
  <2> USE DEF backendVars, subVars, loopVars, callerVars, boundVars, Goto, Where
  <2>0. RestOK
    BY DEF BaseInv, WindowsTypeOK, RestOK
  <2>1. ASSUME NEW t \in Thread, NEW w \in Watcher, CallWatch(t, w) \/ CallUnwatch(t, w)
        PROVE  RestOK'
    BY <2>0, <2>1 DEF RestOK, CallWatch, CallUnwatch
  <2>2. ASSUME NEW w \in Watcher, Cancel(w) PROVE RestOK'
    <3>1. faults' \in 0..MaxFaults
      BY <2>0, <2>2, FaultOK DEF RestOK, Cancel
    <3> QED
      BY <2>0, <2>2, <3>1 DEF RestOK, Cancel
  <2>3. ASSUME NEW s \in Sub, Complete(s) PROVE RestOK'
    BY <2>0, <2>3 DEF RestOK, Complete
  <2> QED
    BY <2>1, <2>2, <2>3, CallsRest, LoopRest DEF WindowsNext
<1> QED
  BY <1>1, StepEffect DEF WindowsTypeOK, RestOK, SubOK, IoOK, QueueOK
----------------------------------------------------------------------------
(* Only the backend's thread moves it; what it works on was running or      *)
(* completing.                                                              *)
LEMMA LoopIsItsOwn ==
  ASSUME BaseInv, WindowsNext, ~LoopStep
  PROVE  loop' = loop /\ current' = current /\ detaching' = detaching
<1> USE DEF loopVars
<1>1. ASSUME NEW t \in Thread, CallerStep(t)
      PROVE  loop' = loop /\ current' = current /\ detaching' = detaching
  BY <1>1 DEF CallerStep, NothingToWatch, Subscribe, SubscribeFails, Started, StartFailed,
              StartGivenUp, NothingToUnwatch, Unwatch, UnwatchFails, FinishUnsubscribe,
              UnrefCall, ReleaseShared
<1> QED
  BY <1>1 DEF WindowsNext, CallWatch, CallUnwatch, Cancel, Complete

LEMMA LoopStepIs ==
  ASSUME BaseInv, LoopStep
  PROVE  /\ loop' \in {"asleep", "batch", "ended"} <=> current' = NoSub
         /\ detaching' # NoSub => loop' = "detach"
         /\ \/ current' \in {current, NoSub}
            \/ RunStart /\ current' = First
            \/ \E s \in Sub : (CompleteOverflow(s) \/ CompleteError(s)) /\ current' = s
         /\ loop' = "reading" => RunStart /\ current' = First
         /\ \/ detaching' \in {detaching, NoSub}
            \/ UnwatchFailed /\ detaching' = state[sub[current].owner]
<1> USE DEF Return, LoopOK
<1>0. LoopOK /\ NoSub \notin Sub
  BY Types DEF BaseInv
<1>1. CASE QuietLoop
  BY <1>0, <1>1 DEF QuietLoop, Sleep, RunNoop, InvalidateCurrent, NothingFailed,
                    DetachFailed, UnrefFailed, Unref, Take
<1>2. CASE RunStop
  BY <1>0, <1>2 DEF RunStop, Take
<1>3. CASE RunStart
  <2>1. First \in Sub
    <3>1. Take("run") /\ "run" \in Kind
      BY <1>3 DEF RunStart, Kind
    <3> QED
      BY <3>1, Taken
  <2> QED
    BY <1>0, <1>3, <2>1 DEF RunStart, Take
<1>4. CASE ReadTree \/ ReadTreeFails
  BY <1>0, <1>4 DEF ReadTree, ReadTreeFails
<1>5. ASSUME NEW s \in Sub, CompleteStop(s) \/ CompleteEvents(s) \/ CompleteParameter(s)
      PROVE  /\ loop' = "batch" /\ current' = NoSub /\ detaching' = NoSub
  BY <1>0, <1>5 DEF CompleteStop, CompleteEvents, CompleteParameter, FaultOf, Completing, Take
<1>6. ASSUME NEW s \in Sub, CompleteOverflow(s) \/ CompleteError(s)
      PROVE  /\ loop' \in {"overflow", "error"} /\ current' = s /\ detaching' = NoSub
             /\ s # NoSub
  BY <1>0, <1>6 DEF CompleteOverflow, CompleteError, FaultOf, Completing, Take
<1>7. CASE StopOverflowed
  BY <1>0, <1>7 DEF StopOverflowed
<1>8. CASE UnwatchFailed
  BY <1>0, <1>8 DEF UnwatchFailed
<1> QED
  BY <1>1, <1>2, <1>3, <1>4, <1>5, <1>6, <1>7, <1>8 DEF LoopStep, QuietLoop

LEMMA LoopStays ==
  ASSUME BaseInv, WindowsNext
  PROVE  LoopOK'
<1>1. CASE LoopStep
  <2>1. ASSUME NEW s \in Sub, s = current' PROVE ~Waits("run", s)'
    <3>1. CASE s = current
      <4>1. s # NoSub /\ "run" \in Kind
        BY Types DEF Kind
      <4>2. s \in Created /\ ~Waits("run", s)
        BY <3>1, <4>1 DEF BaseInv, LoopOK, SubsExist
      <4>3. Same(s) \/ Lives(s)
        BY <4>2, StepEffect
      <4> QED
        BY <4>1, <4>2, <4>3 DEF Same, Lives
    <3>2. CASE RunStart /\ current' = First
      BY <2>1, <3>2, RunStartTouches DEF Touches, Lives
    <3>3. CASE CompleteOverflow(s) \/ CompleteError(s)
      BY <3>3, CompleteFaultTouches DEF Touches, Lives
    <3> QED
      BY <1>1, <2>1, <3>1, <3>2, <3>3, LoopStepIs, Types
  <2>2. current' # NoSub => current' \in Sub
    BY TypeStep DEF WindowsTypeOK
  <2>3. PICK s : s = current'
    OBVIOUS
  <2>4. current' # NoSub => ~Waits("run", current)'
    BY <2>1, <2>2, <2>3 DEF Waits
  <2> QED
    BY <1>1, <2>4, LoopStepIs DEF LoopOK
<1>2. CASE ~LoopStep
  <2>1. /\ loop' = loop /\ current' = current /\ detaching' = detaching
    BY <1>2, LoopIsItsOwn
  <2>2. PICK s : s = current
    OBVIOUS
  <2>3. s # NoSub => ~Waits("run", s)'
    <3> SUFFICES ASSUME s # NoSub PROVE ~Waits("run", s)'
      OBVIOUS
    <3>1. s \in Created /\ ~Waits("run", s) /\ "run" \in Kind
      BY <2>2 DEF BaseInv, LoopOK, SubsExist, Kind
    <3>2. Same(s) \/ Lives(s)
      BY <3>1, StepEffect
    <3> QED
      BY <3>1, <3>2 DEF Same, Lives
  <2>4. current' # NoSub => ~Waits("run", current)'
    BY <2>1, <2>2, <2>3 DEF Waits
  <2> QED
    BY <2>1, <2>4 DEF LoopOK, BaseInv
<1> QED
  BY <1>1, <1>2

(* Who refers to which Subscription after a step *)
LEMMA StateIs ==
  ASSUME BaseInv, WindowsNext, NEW w \in Watcher
  PROVE  \/ state'[w] \in {state[w], NoSub}
         \/ \E t \in Thread : Subscribe(t) /\ on[t] = w /\ state'[w] = created'
<1> USE DEF backendVars
<1>0. state \in [Watcher -> Sub \cup {NoSub}] /\ on \in [Thread -> Watcher]
  BY Types
<1>1. ASSUME NEW t \in Thread, CallerStep(t)
      PROVE  \/ state'[w] \in {state[w], NoSub}
             \/ Subscribe(t) /\ on[t] = w /\ state'[w] = created'
  <2>1. CASE Subscribe(t)
    BY <1>0, <2>1 DEF Subscribe
  <2>2. CASE SubscribeFails(t)
    BY <1>0, <2>2 DEF SubscribeFails
  <2>3. CASE StartGivenUp(t) \/ FinishUnsubscribe(t)
    BY <1>0, <2>3 DEF StartGivenUp, FinishUnsubscribe, Cleared
  <2>4. CASE ~(Subscribe(t) \/ SubscribeFails(t) \/ StartGivenUp(t) \/ FinishUnsubscribe(t))
    BY <1>1, <2>4 DEF CallerStep, NothingToWatch, Started, StartFailed, NothingToUnwatch,
                      Unwatch, UnwatchFails, UnrefCall, ReleaseShared
  <2> QED
    BY <2>1, <2>2, <2>3, <2>4
<1>2. CASE LoopStep
  <2>1. CASE DetachFailed
    BY <1>0, <2>1 DEF DetachFailed
  <2>2. CASE ~DetachFailed
    <3>1. ASSUME NEW s \in Sub,
                 \/ CompleteStop(s) \/ CompleteEvents(s) \/ CompleteParameter(s)
                 \/ CompleteOverflow(s) \/ CompleteError(s)
          PROVE  state' = state
      BY <3>1 DEF CompleteStop, CompleteEvents, CompleteParameter, CompleteOverflow,
                  CompleteError
    <3> QED
      BY <1>2, <2>2, <3>1
        DEF LoopStep, Sleep, RunNoop, RunStop, RunStart, ReadTree, ReadTreeFails,
            InvalidateCurrent, StopOverflowed, UnwatchFailed, NothingFailed, UnrefFailed
  <2> QED
    BY <2>1, <2>2
<1> QED
  BY <1>1, <1>2 DEF WindowsNext, CallWatch, CallUnwatch, Cancel, Complete

LEMMA MineIs ==
  ASSUME BaseInv, WindowsNext, NEW t \in Thread
  PROVE  \/ mine'[t] \in {mine[t], NoSub}
         \/ Subscribe(t) /\ mine'[t] = created'
         \/ Unwatch(t) /\ mine'[t] = state[on[t]]
<1> USE DEF callerVars
<1>0. mine \in [Thread -> Sub \cup {NoSub}]
  BY Types
<1>1. ASSUME NEW u \in Thread, CallerStep(u)
      PROVE  \/ mine'[t] \in {mine[t], NoSub}
             \/ Subscribe(t) /\ mine'[t] = created'
             \/ Unwatch(t) /\ mine'[t] = state[on[t]]
  <2>1. CASE Subscribe(u)
    BY <1>0, <2>1 DEF Subscribe
  <2>2. CASE Unwatch(u)
    BY <1>0, <2>2 DEF Unwatch
  <2>3. CASE Started(u) \/ StartGivenUp(u) \/ FinishUnsubscribe(u)
    BY <1>0, <2>3 DEF Started, StartGivenUp, FinishUnsubscribe
  <2>4. CASE ~(\/ Subscribe(u) \/ Unwatch(u) \/ Started(u) \/ StartGivenUp(u)
               \/ FinishUnsubscribe(u))
    BY <1>1, <2>4 DEF CallerStep, NothingToWatch, SubscribeFails, StartFailed,
                      NothingToUnwatch, UnwatchFails, UnrefCall, ReleaseShared
  <2> QED
    BY <2>1, <2>2, <2>3, <2>4
<1>2. CASE LoopStep
  <2>1. ASSUME NEW s \in Sub,
               \/ CompleteStop(s) \/ CompleteEvents(s) \/ CompleteParameter(s)
               \/ CompleteOverflow(s) \/ CompleteError(s)
        PROVE  mine' = mine
    BY <2>1 DEF CompleteStop, CompleteEvents, CompleteParameter, CompleteOverflow,
                CompleteError
  <2> QED
    BY <1>2, <2>1
      DEF LoopStep, Sleep, RunNoop, RunStop, RunStart, ReadTree, ReadTreeFails,
          InvalidateCurrent, StopOverflowed, UnwatchFailed, NothingFailed, UnrefFailed,
          DetachFailed
<1> QED
  BY <1>1, <1>2 DEF WindowsNext, CallWatch, CallUnwatch, Cancel, Complete
LEMMA SubsStep ==
  ASSUME BaseInv, WindowsNext
  PROVE  SubsExist'
<1>0. /\ state \in [Watcher -> Sub \cup {NoSub}] /\ on \in [Thread -> Watcher]
      /\ NoSub \notin Sub /\ Created \subseteq Sub /\ created \in Nat
  <2>1. created \in 0..MaxSubs /\ MaxSubs \in Nat
    BY Types
  <2> QED
    BY <2>1, Types
<1>1. ASSUME NEW s \in Created PROVE s \in Created' /\ sub'[s].owner = sub[s].owner
  BY <1>1, StepEffect DEF Same, Lives
<1>2. ASSUME NEW t \in Thread, Subscribe(t), NEW n, n = created'
      PROVE  n \in Created' /\ sub'[n].owner = on[t]
  <2>1. n = created + 1 /\ sub'[n] = NewSub(on[t]) /\ on[t] \in Watcher
    BY <1>2, SubscribeEffect
  <2>2. n \in Created'
    BY <1>0, <1>2, <2>1 DEF Created
  <2> QED
    BY <2>1, <2>2, NewSubIs
<1>3. ASSUME NEW w \in Watcher, state'[w] # NoSub
      PROVE  state'[w] \in Created' /\ sub'[state'[w]].owner = w
  <2>1. CASE state'[w] = state[w]
    <3>1. state[w] \in Created /\ sub[state[w]].owner = w
      BY <1>3, <2>1 DEF BaseInv, SubsExist
    <3> QED
      BY <1>1, <2>1, <3>1
  <2>2. CASE \E t \in Thread : Subscribe(t) /\ on[t] = w /\ state'[w] = created'
    BY <1>2, <2>2
  <2> QED
    BY <1>3, <2>1, <2>2, StateIs
<1>4. ASSUME NEW t \in Thread, mine'[t] # NoSub PROVE mine'[t] \in Created'
  <2>1. CASE mine'[t] = mine[t]
    BY <1>1, <1>4, <2>1 DEF BaseInv, SubsExist
  <2>2. CASE Subscribe(t) /\ mine'[t] = created'
    BY <1>2, <2>2
  <2>3. CASE mine'[t] = state[on[t]]
    BY <1>0, <1>1, <1>4, <2>3 DEF BaseInv, SubsExist
  <2> QED
    BY <1>4, <2>1, <2>2, <2>3, MineIs
<1>5. current' # NoSub => current' \in Created'
  <2>1. CASE current' = current
    BY <1>1, <2>1 DEF BaseInv, SubsExist
  <2>2. CASE RunStart /\ current' = First
    <3>1. Take("run") /\ "run" \in Kind
      BY <2>2 DEF RunStart, Kind
    <3> QED
      BY <1>1, <2>2, <3>1, Taken
  <2>3. ASSUME NEW s \in Sub, CompleteOverflow(s) \/ CompleteError(s), current' = s
        PROVE  current' \in Created'
    <3>1. Completing(s)
      BY <2>3 DEF CompleteOverflow, CompleteError, FaultOf
    <3> QED
      BY <1>1, <2>3, <3>1, CompletingFacts
  <2>4. CASE LoopStep
    BY <2>1, <2>2, <2>3, <2>4, LoopStepIs
  <2>5. CASE ~LoopStep
    BY <2>1, <2>5, LoopIsItsOwn
  <2> QED
    BY <2>4, <2>5
<1>6. detaching' # NoSub => detaching' \in Created'
  <2>1. CASE detaching' = detaching
    BY <1>1, <2>1 DEF BaseInv, SubsExist
  <2>2. CASE UnwatchFailed /\ detaching' = state[sub[current].owner]
    <3>1. sub[current].owner \in Watcher
      BY <2>2, Types DEF UnwatchFailed
    <3> QED
      BY <1>1, <2>2, <3>1 DEF BaseInv, SubsExist
  <2>3. CASE LoopStep
    BY <2>1, <2>2, <2>3, LoopStepIs
  <2>4. CASE ~LoopStep
    BY <2>1, <2>4, LoopIsItsOwn
  <2> QED
    BY <2>3, <2>4
<1>7. ASSUME NEW s \in Sub, NEW kind \in Kind, Waits(kind, s)' PROVE s \in Created'
  <2> SUFFICES ASSUME s \notin Created' PROVE FALSE
    OBVIOUS
  <2>1. Same(s) /\ s \notin Created
    BY StepEffect
  <2>2. Waits(kind, s)
    BY <1>7, <2>1 DEF Same
  <2> QED
    BY <2>1, <2>2 DEF BaseInv, SubsExist
<1>8. ASSUME NEW s \in Created' PROVE sub'[s].owner \in Watcher
  <2>1. CASE s \in Created
    BY <1>1, <2>1 DEF BaseInv, SubsExist
  <2>2. CASE s \notin Created
    <3>1. Fresh(s)
      BY <2>2, StepEffect
    <3>2. created' # created /\ s = created'
      BY <1>0, <3>1 DEF Fresh
    <3>3. PICK t \in Thread : Subscribe(t)
      BY <3>2, StepIs DEF Quiet
    <3> QED
      BY <1>0, <1>2, <3>2, <3>3
  <2> QED
    BY <2>1, <2>2
<1>9. ASSUME NEW s \in Sub, s > created' PROVE io'[s] = "none"
  <2>1. created' \in Nat /\ s \in Nat
    <3>1. created' \in 0..MaxSubs /\ MaxSubs \in Nat
      BY StepEffect, Types
    <3> QED
      BY <3>1 DEF Sub
  <2>2. s \notin Created'
    BY <1>9, <2>1 DEF Created
  <2>3. Same(s) /\ s \notin Created
    BY <2>2, StepEffect
  <2>4. s > created
    BY <1>0, <2>1, <2>3 DEF Created, Sub
  <2> QED
    BY <2>3, <2>4 DEF Same, BaseInv, SubsExist
<1> QED
  BY <1>3, <1>4, <1>5, <1>6, <1>7, <1>8, <1>9 DEF SubsExist

(* While one starts, its watcher stays pending and keeps it. *)
LEMMA StartsKept ==
  ASSUME BaseInv, WindowsNext, NEW s \in Created, Starts(s), NEW w, w = sub[s].owner
  PROVE  w \in pending' /\ state'[w] = s
<1> USE DEF backendVars
<1>0. /\ state \in [Watcher -> Sub \cup {NoSub}] /\ s # NoSub
  BY Types
<1>1. /\ w \in Watcher /\ w \in pending /\ state[w] = s /\ sub[s].start = "waiting"
      /\ ~sub[s].stopRequested
  BY LivesFacts DEF StartOK
<1>2. ~sub[s].stopped
  BY <1>1, LivesFacts DEF StopOK
<1>3. ASSUME NEW t \in Thread, CallerStep(t) PROVE w \in pending' /\ state'[w] = s
  <2>1. CASE Subscribe(t) \/ SubscribeFails(t)
    <3>1. on[t] \notin pending
      BY <2>1 DEF Subscribe, SubscribeFails, MustSubscribe
    <3> QED
      BY <1>0, <1>1, <2>1, <3>1 DEF Subscribe, SubscribeFails
  <2>2. CASE Started(t)
    <3>1. state[on[t]] = mine[t] /\ sub[mine[t]].start = "started"
      BY <2>2 DEF Started, BaseInv, StartersAreAlone, Starter
    <3>2. on[t] # w
      BY <1>1, <3>1
    <3> QED
      BY <1>1, <2>2, <3>2 DEF Started
  <2>3. CASE StartGivenUp(t)
    <3>1. state[on[t]] = mine[t] /\ mine[t] # NoSub /\ HasStopped(mine[t])
      BY <2>3 DEF StartGivenUp, BaseInv, StartersAreAlone, Starter
    <3>2. on[t] # w
      BY <1>1, <1>2, <3>1 DEF HasStopped
    <3> QED
      BY <1>0, <1>1, <2>3, <3>2 DEF StartGivenUp, Cleared
  <2>4. CASE FinishUnsubscribe(t)
    <3>1. mine[t] # s
      BY <1>0, <1>2, <2>4 DEF FinishUnsubscribe, HasStopped
    <3> QED
      BY <1>0, <1>1, <2>4, <3>1 DEF FinishUnsubscribe, Cleared
  <2>5. CASE NothingToWatch(t) \/ StartFailed(t) \/ NothingToUnwatch(t) \/ Unwatch(t)
             \/ UnwatchFails(t) \/ UnrefCall(t) \/ ReleaseShared(t)
    BY <1>1, <2>5 DEF NothingToWatch, StartFailed, NothingToUnwatch,
                      Unwatch, UnwatchFails, UnrefCall, ReleaseShared
  <2> QED
    BY <1>3, <2>1, <2>2, <2>3, <2>4, <2>5 DEF CallerStep
<1>4. CASE LoopStep
  <2>1. CASE DetachFailed
    <3>1. detaching # s
      BY <1>0, <1>2, <2>1 DEF DetachFailed, HasStopped
    <3> QED
      BY <1>0, <1>1, <2>1, <3>1 DEF DetachFailed
  <2>2. ASSUME NEW r \in Sub,
               \/ CompleteStop(r) \/ CompleteEvents(r) \/ CompleteParameter(r)
               \/ CompleteOverflow(r) \/ CompleteError(r)
        PROVE  state' = state /\ pending' = pending
    BY <2>2 DEF CompleteStop, CompleteEvents, CompleteParameter, CompleteOverflow,
                CompleteError
  <2> QED
    BY <1>1, <1>4, <2>1, <2>2
      DEF LoopStep, Sleep, RunNoop, RunStop, RunStart, ReadTree, ReadTreeFails,
          InvalidateCurrent, StopOverflowed, UnwatchFailed, NothingFailed, UnrefFailed
<1> QED
  BY <1>1, <1>3, <1>4 DEF WindowsNext, CallWatch, CallUnwatch, Cancel, Complete

LEMMA StartsStep ==
  ASSUME BaseInv, WindowsNext
  PROVE  StartsAreOrdered'
<1> SUFFICES ASSUME NEW s \in Created' PROVE StartOK(s)'
  BY DEF StartsAreOrdered
<1>0. "run" \in Kind /\ s \in Sub /\ NoSub \notin Sub
  <2>1. created' \in 0..MaxSubs /\ MaxSubs \in Nat
    BY StepEffect, Types
  <2> QED
    BY <2>1, Types DEF Kind, Created, Sub
<1>1. CASE s \in Created /\ RunStart /\ First = s
  <2>1. /\ Touches(s) /\ Waits("run", s)
        /\ \/ /\ loop' = "reading" /\ current' = s /\ sub'[s].start = sub[s].start
              /\ sub'[s].stopRequested = sub[s].stopRequested /\ sub'[s].pollPending
           \/ loop' = "batch" /\ current' = NoSub /\ sub'[s].start = "failed"
    BY <1>1, RunStartTouches
  <2>2. StartOK(s) /\ ~Waits("run", s)' /\ sub'[s].owner = sub[s].owner
    BY <1>1, <2>1, LivesFacts DEF Touches, Lives
  <2>3. sub[s].owner \in pending' /\ state'[sub[s].owner] = s
    BY <1>1, <2>1, StartsKept DEF Starts
  <2> QED
    BY <2>1, <2>2, <2>3 DEF StartOK, Starts, Reading
<1>2. CASE s \in Created /\ ~(RunStart /\ First = s)
  <2>1. Reading(s)' => Reading(s)
    <3>1. CASE LoopStep
      BY <1>2, <3>1, LoopStepIs DEF Reading
    <3>2. CASE ~LoopStep
      BY <3>2, LoopIsItsOwn DEF Reading
    <3> QED
      BY <3>1, <3>2
  <2>2. Starts(s)' => Starts(s) /\ sub'[s] = sub[s]
    BY <1>0, <1>2, <2>1, StepEffect DEF Starts, Same, Lives
  <2>3. Starts(s)' => sub[s].owner \in pending' /\ state'[sub[s].owner] = s
    BY <1>2, <2>2, StartsKept
  <2>4. StartOK(s)
    BY <1>2, LivesFacts
  <2>5. Waits("run", s)' => Waits("run", s)
    BY <1>0, <1>2, StepEffect DEF Same, Lives
  <2> QED
    BY <2>1, <2>2, <2>3, <2>4, <2>5 DEF StartOK, Starts
<1>3. CASE s \notin Created
  <2>1. Fresh(s)
    BY <1>3, StepEffect
  <2>2. created' # created /\ s = created'
    BY <2>1, Types DEF Fresh
  <2>3. PICK t \in Thread : Subscribe(t)
    BY <2>2, StepIs DEF Quiet
  <2>4. sub'[s] = NewSub(on[t]) /\ on[t] \in Watcher
    BY <2>2, <2>3, SubscribeEffect
  <2>5. /\ sub'[s].owner = on[t] /\ sub'[s].start = "waiting" /\ ~sub'[s].stopRequested
        /\ ~sub'[s].pollPending
    BY <2>4, NewSubIs
  <2>6. on[t] \in pending' /\ state'[on[t]] = s /\ current' = current
    BY <2>2, <2>3, <2>4, Types DEF Subscribe, loopVars
  <2>7. ~Reading(s)'
    <3>1. current # s
      BY <1>0, <1>3 DEF BaseInv, SubsExist
    <3> QED
      BY <2>6, <3>1 DEF Reading
  <2> QED
    BY <2>5, <2>6, <2>7 DEF StartOK, Starts
<1> QED
  BY <1>1, <1>2, <1>3
(* A caller that starts one keeps its watcher for itself. *)
StarterOK(t) ==
  /\ mine[t] # NoSub /\ on[t] \in pending /\ state[on[t]] = mine[t]
  /\ \A u \in Thread \ {t} : mine[u] # mine[t]
  /\ detaching # mine[t]

(* The state of a watcher that is not pending is not what a caller starts. *)
LEMMA StarterIsPending ==
  ASSUME BaseInv, NEW t \in Thread, where[t] \in Starter, NEW w \in Watcher, w \notin pending
  PROVE  state[w] # mine[t] /\ on[t] # w
<1>1. StarterOK(t) /\ on[t] \in Watcher
  BY Types DEF BaseInv, StartersAreAlone, StarterOK
<1>2. sub[mine[t]].owner = on[t]
  BY <1>1 DEF StarterOK, BaseInv, SubsExist
<1> QED
  BY <1>1, <1>2 DEF StarterOK, BaseInv, SubsExist

LEMMA StarterStays ==
  ASSUME BaseInv, WindowsNext, NEW t \in Thread, where[t] \in Starter,
         ~Started(t), ~StartGivenUp(t)
  PROVE  /\ mine'[t] = mine[t] /\ on'[t] = on[t] /\ wasInvalid'[t] = wasInvalid[t]
         /\ where'[t] \in {where[t], "stopping"}
         /\ on[t] \in pending' /\ state'[on[t]] = mine[t]
         /\ where'[t] # where[t] => StartFailed(t)
<1> USE DEF backendVars, callerVars, Goto, Released
<1>0. /\ state \in [Watcher -> Sub \cup {NoSub}] /\ where \in [Thread -> Where]
      /\ mine \in [Thread -> Sub \cup {NoSub}] /\ on \in [Thread -> Watcher]
      /\ wasInvalid \in [Thread -> BOOLEAN]
  BY Types
<1>1. /\ mine[t] # NoSub /\ on[t] \in pending /\ state[on[t]] = mine[t]
      /\ \A u \in Thread \ {t} : mine[u] # mine[t]
      /\ detaching # mine[t] /\ on[t] \in Watcher /\ where[t] \in {"starting", "stopping"}
  BY Types DEF BaseInv, StartersAreAlone, Starter
<1> DEFINE Goal == /\ mine'[t] = mine[t] /\ on'[t] = on[t] /\ wasInvalid'[t] = wasInvalid[t]
                   /\ where'[t] \in {where[t], "stopping"}
                   /\ on[t] \in pending' /\ state'[on[t]] = mine[t]
                   /\ where'[t] # where[t] => StartFailed(t)
<1>2. ASSUME NEW u \in Thread, CallerStep(u) PROVE Goal
  <2>1. CASE u = t
    <3>1. StartFailed(t)
      BY <1>1, <1>2, <2>1
        DEF CallerStep, NothingToWatch, Subscribe, SubscribeFails, MustSubscribe,
            NothingToUnwatch, Unwatch, UnwatchFails, FinishUnsubscribe, UnrefCall,
            ReleaseShared
    <3> QED
      BY <1>0, <1>1, <3>1 DEF StartFailed
  <2>2. CASE u # t
    <3>1. CASE Subscribe(u) \/ SubscribeFails(u)
      <4>1. on[u] \notin pending
        BY <3>1 DEF Subscribe, SubscribeFails, MustSubscribe
      <4> QED
        BY <1>0, <1>1, <2>2, <3>1, <4>1 DEF Subscribe, SubscribeFails
    <3>2. CASE Started(u) \/ StartGivenUp(u)
      <4>1. state[on[u]] = mine[u] /\ mine[u] # mine[t]
        BY <1>1, <2>2, <3>2 DEF Started, StartGivenUp, BaseInv, StartersAreAlone, Starter
      <4>2. on[u] # on[t]
        BY <1>1, <4>1
      <4> QED
        BY <1>0, <1>1, <2>2, <3>2, <4>2 DEF Started, StartGivenUp, Cleared
    <3>3. CASE FinishUnsubscribe(u)
      <4>1. mine[u] # mine[t]
        BY <1>1, <2>2
      <4> QED
        BY <1>0, <1>1, <2>2, <3>3, <4>1 DEF FinishUnsubscribe, Cleared
    <3>4. CASE ~(\/ Subscribe(u) \/ SubscribeFails(u) \/ Started(u) \/ StartGivenUp(u)
                 \/ FinishUnsubscribe(u))
      BY <1>0, <1>1, <1>2, <2>2, <3>4
        DEF CallerStep, NothingToWatch, StartFailed, NothingToUnwatch, Unwatch,
            UnwatchFails, UnrefCall, ReleaseShared
    <3> QED
      BY <3>1, <3>2, <3>3, <3>4
  <2> QED
    BY <2>1, <2>2
<1>3. CASE LoopStep
  <2>1. ASSUME NEW r \in Sub,
               \/ CompleteStop(r) \/ CompleteEvents(r) \/ CompleteParameter(r)
               \/ CompleteOverflow(r) \/ CompleteError(r)
        PROVE  Goal
    BY <1>1, <2>1 DEF CompleteStop, CompleteEvents, CompleteParameter, CompleteOverflow,
                CompleteError
  <2>2. CASE DetachFailed
    BY <1>0, <1>1, <2>2 DEF DetachFailed
  <2>3. CASE Sleep \/ RunNoop \/ RunStop \/ RunStart \/ ReadTree \/ ReadTreeFails
    BY <1>1, <2>3 DEF Sleep, RunNoop, RunStop, RunStart, ReadTree, ReadTreeFails
  <2>4. CASE \/ InvalidateCurrent \/ StopOverflowed \/ UnwatchFailed \/ NothingFailed
             \/ UnrefFailed
    BY <1>1, <2>4 DEF InvalidateCurrent, StopOverflowed, UnwatchFailed, NothingFailed,
                      UnrefFailed
  <2> QED
    BY <1>3, <2>1, <2>2, <2>3, <2>4 DEF LoopStep
<1>4. ASSUME NEW u \in Thread, NEW w \in Watcher, CallWatch(u, w) \/ CallUnwatch(u, w)
      PROVE  Goal
  <2>1. u # t
    BY <1>1, <1>4 DEF CallWatch, CallUnwatch
  <2> QED
    BY <1>0, <1>1, <1>4, <2>1 DEF CallWatch, CallUnwatch
<1>5. ASSUME NEW w \in Watcher, Cancel(w) PROVE Goal
  BY <1>1, <1>5 DEF Cancel
<1>6. ASSUME NEW s \in Sub, Complete(s) PROVE Goal
  BY <1>1, <1>6 DEF Complete
<1> QED
  BY <1>2, <1>3, <1>4, <1>5, <1>6 DEF WindowsNext

(* Only Subscribe makes one. *)
LEMMA StarterIsMade ==
  ASSUME BaseInv, WindowsNext, NEW t \in Thread, where'[t] \in Starter, ~Subscribe(t)
  PROVE  where[t] \in Starter /\ ~Started(t) /\ ~StartGivenUp(t)
<1> USE DEF backendVars, callerVars, Goto, Released, Starter
<1>0. where \in [Thread -> Where]
  BY Types
<1>1. ASSUME NEW u \in Thread, CallerStep(u)
      PROVE  where[t] \in Starter /\ ~Started(t) /\ ~StartGivenUp(t)
  <2>1. ~Started(t) /\ ~StartGivenUp(t)
    BY <1>0 DEF Started, StartGivenUp
  <2>2. CASE u # t
    BY <1>0, <1>1, <2>1, <2>2
      DEF CallerStep, NothingToWatch, Subscribe, SubscribeFails, Started, StartGivenUp,
          StartFailed, NothingToUnwatch, Unwatch, UnwatchFails, FinishUnsubscribe,
          UnrefCall, ReleaseShared
  <2>3. CASE u = t
    BY <1>0, <1>1, <2>1, <2>3
      DEF CallerStep, NothingToWatch, SubscribeFails, Started, StartGivenUp,
          StartFailed, NothingToUnwatch, Unwatch, UnwatchFails, FinishUnsubscribe,
          UnrefCall, ReleaseShared
  <2> QED
    BY <2>2, <2>3
<1>2. CASE LoopStep
  <2>1. where' = where /\ pending' = pending
    <3>1. ASSUME NEW r \in Sub,
                 \/ CompleteStop(r) \/ CompleteEvents(r) \/ CompleteParameter(r)
                 \/ CompleteOverflow(r) \/ CompleteError(r)
          PROVE  where' = where /\ pending' = pending
      BY <3>1 DEF CompleteStop, CompleteEvents, CompleteParameter, CompleteOverflow,
                  CompleteError
    <3> QED
      BY <1>2, <3>1
        DEF LoopStep, Sleep, RunNoop, RunStop, RunStart, ReadTree, ReadTreeFails,
            InvalidateCurrent, StopOverflowed, UnwatchFailed, NothingFailed, UnrefFailed,
            DetachFailed
  <2>2. ~Started(t) /\ ~StartGivenUp(t)
    BY <1>0 DEF Started, StartGivenUp
  <2> QED
    BY <2>1, <2>2
<1>3. ~Started(t) /\ ~StartGivenUp(t)
  BY <1>0 DEF Started, StartGivenUp
<1>4. ASSUME NEW u \in Thread, NEW w \in Watcher, CallWatch(u, w) \/ CallUnwatch(u, w)
      PROVE  where[t] \in Starter
  BY <1>0, <1>4 DEF CallWatch, CallUnwatch
<1> QED
  BY <1>1, <1>2, <1>3, <1>4 DEF WindowsNext, Cancel, Complete

LEMMA StartersStep ==
  ASSUME BaseInv, WindowsNext
  PROVE  StartersAreAlone'
<1> SUFFICES ASSUME NEW t \in Thread, where'[t] \in Starter
             PROVE  /\ mine'[t] # NoSub /\ on'[t] \in pending' /\ state'[on'[t]] = mine'[t]
                    /\ \A u \in Thread \ {t} : mine'[u] # mine'[t]
                    /\ detaching' # mine'[t]
  BY DEF StartersAreAlone
<1>0. /\ NoSub \notin Sub /\ on \in [Thread -> Watcher]
      /\ state \in [Watcher -> Sub \cup {NoSub}] /\ mine \in [Thread -> Sub \cup {NoSub}]
  BY Types
<1>1. CASE Subscribe(t)
  <2>1. PICK n : n = created'
    OBVIOUS
  <2>2. n = created + 1 /\ n \in Sub /\ n \notin Created /\ on[t] \in Watcher
    BY <1>1, <2>1, SubscribeEffect
  <2>3. /\ mine' = [mine EXCEPT ![t] = n] /\ on' = on /\ pending' = pending \cup {on[t]}
        /\ state' = [state EXCEPT ![on[t]] = n] /\ detaching' = detaching
    BY <1>1, <2>1 DEF Subscribe, loopVars
  <2>4. \A u \in Thread : mine[u] # n
    BY <1>0, <2>2 DEF BaseInv, SubsExist
  <2>5. detaching # n
    BY <1>0, <2>2 DEF BaseInv, SubsExist
  <2> QED
    BY <1>0, <2>2, <2>3, <2>4, <2>5
<1>2. CASE ~Subscribe(t)
  <2>1. where[t] \in Starter /\ ~Started(t) /\ ~StartGivenUp(t)
    BY <1>2, StarterIsMade
  <2>2. /\ mine'[t] = mine[t] /\ on'[t] = on[t] /\ on[t] \in pending'
        /\ state'[on[t]] = mine[t]
    BY <2>1, StarterStays
  <2>3. StarterOK(t) /\ mine[t] \in Created
    BY <2>1 DEF BaseInv, StartersAreAlone, StarterOK, SubsExist
  <2>4. ASSUME NEW u \in Thread \ {t} PROVE mine'[u] # mine[t]
    <3>1. CASE mine'[u] \in {mine[u], NoSub}
      BY <2>3, <3>1 DEF StarterOK
    <3>2. CASE Subscribe(u) /\ mine'[u] = created'
      BY <2>3, <3>2, SubscribeEffect
    <3>3. CASE Unwatch(u) /\ mine'[u] = state[on[u]]
      <4>1. on[u] \notin pending /\ on[u] \in Watcher
        BY <1>0, <3>3 DEF Unwatch
      <4> QED
        BY <2>1, <3>3, <4>1, StarterIsPending
    <3> QED
      BY <3>1, <3>2, <3>3, MineIs
  <2>5. detaching' # mine[t]
    <3>1. CASE detaching' \in {detaching, NoSub}
      BY <2>3, <3>1 DEF StarterOK
    <3>2. CASE UnwatchFailed /\ detaching' = state[sub[current].owner]
      <4>1. sub[current].owner \notin pending /\ sub[current].owner \in Watcher
        BY <3>2, Types DEF UnwatchFailed
      <4> QED
        BY <2>1, <3>2, <4>1, StarterIsPending
    <3>3. CASE LoopStep
      BY <3>1, <3>2, <3>3, LoopStepIs
    <3>4. CASE ~LoopStep
      BY <3>1, <3>4, LoopIsItsOwn
    <3> QED
      BY <3>3, <3>4
  <2> QED
    BY <2>2, <2>3, <2>4, <2>5 DEF StarterOK
<1> QED
  BY <1>1, <1>2

----------------------------------------------------------------------------
LEMMA StutterBase ==
  ASSUME BaseInv, UNCHANGED windowsVars
  PROVE  BaseInv'
<1> USE DEF windowsVars, backendVars, subVars, loopVars, callerVars, boundVars
<1>1. \A kind, s : Waits(kind, s)' <=> Waits(kind, s)
  BY DEF Waits
<1>2. /\ WindowsTypeOK' /\ CallsAreOnce' /\ StartersAreAlone'
  BY DEF BaseInv, WindowsTypeOK, CallsAreOnce, StartersAreAlone
<1>3. Created' = Created
  BY DEF Created
<1>4. SubsExist'
  BY <1>1, <1>3 DEF BaseInv, SubsExist
<1>5. LoopOK'
  BY DEF BaseInv, LoopOK, Waits
<1>6. \A s \in Created : ReadOK(s)' /\ StopOK(s)' /\ StartOK(s)'
  BY <1>1 DEF BaseInv, ReadsAreCounted, StopsAreOrdered, StartsAreOrdered, ReadOK, StopOK,
              StartOK, Starts, Reading
<1>7. ReadsAreCounted' /\ StopsAreOrdered' /\ StartsAreOrdered'
  BY <1>3, <1>6 DEF ReadsAreCounted, StopsAreOrdered, StartsAreOrdered
<1> QED
  BY <1>2, <1>4, <1>5, <1>7 DEF BaseInv

LEMMA InitBase ==
  ASSUME WindowsInit
  PROVE  BaseInv
<1> USE DEF WindowsInit
<1>0. NoSub \notin Sub /\ MaxSubs \in Nat /\ MaxFaults \in Nat
  BY BoundsAssumption, NoneAssumption DEF Sub
<1>1. Created = {}
  BY DEF Created
<1>2. \A kind, s : ~Waits(kind, s)
  BY DEF Waits
<1>3. WindowsTypeOK
  <2>1. NewSub(NoWatcher) \in SubRecord
    BY NewSubIs
  <2>2. apcs \in Seq(Apc)
    OBVIOUS
  <2>3. sub \in [Sub -> SubRecord]
    BY <2>1
  <2> QED
    BY <1>0, <2>2, <2>3 DEF WindowsTypeOK, Loop, Where
<1>4. SubsExist
  BY <1>1, <1>2 DEF SubsExist
<1>5. CallsAreOnce /\ LoopOK /\ StartersAreAlone
  BY <1>2 DEF CallsAreOnce, LoopOK, StartersAreAlone, Starter
<1>6. ReadsAreCounted /\ StopsAreOrdered /\ StartsAreOrdered
  BY <1>1 DEF ReadsAreCounted, StopsAreOrdered, StartsAreOrdered
<1> QED
  BY <1>3, <1>4, <1>5, <1>6 DEF BaseInv

LEMMA BaseStep ==
  ASSUME BaseInv, [WindowsNext]_windowsVars
  PROVE  BaseInv'
<1>1. CASE WindowsNext
  BY <1>1, TypeStep, SubsStep, LoopStays, ReadsStep, StartsStep, StartersStep, StepEffect
    DEF BaseInv, QueueOK
<1> QED
  BY <1>1, StutterBase

(* The variables keep their types (the type invariant). *)
THEOREM WindowsTypeCorrect == WindowsSpec => []WindowsTypeOK
<1>1. BaseInv => WindowsTypeOK
  BY DEF BaseInv
<1> QED
  BY <1>1, InitBase, BaseStep, PTL DEF WindowsSpec
----------------------------------------------------------------------------
(* A Subscription that has not stopped is kept: by its watcher, or by who   *)
(* unsubscribes it.  One whose watcher gets another would only be kept by   *)
(* the callbacks, which do not keep it.                                     *)
KeptByWatcher(s) ==
  sub[s].owner \in subscriptions \cup pending /\ state[sub[s].owner] = s

KeptByCaller(s) == \E t \in Thread : where[t] = "detach" /\ mine[t] = s

Kept(s) == KeptByWatcher(s) \/ KeptByCaller(s) \/ detaching = s

RunningIsKept == \A s \in Created : ~sub[s].stopped => Kept(s)

KeptInv == BaseInv /\ RunningIsKept

LEMMA KeptByWatcherStays ==
  ASSUME ~RebuildsEarly, BaseInv, WindowsNext, NEW s \in Created, ~sub[s].stopped,
         KeptByWatcher(s), NEW w, w = sub[s].owner
  PROVE  \/ w \in subscriptions' \cup pending' /\ state'[w] = s
         \/ KeptByCaller(s)' \/ detaching' = s
<1> USE DEF backendVars
<1>0. /\ state \in [Watcher -> Sub \cup {NoSub}] /\ s # NoSub /\ w \in Watcher
      /\ where \in [Thread -> Where] /\ mine \in [Thread -> Sub \cup {NoSub}]
      /\ s \in Sub
  BY Types, LivesFacts
<1>1. w \in subscriptions \cup pending /\ state[w] = s
  BY DEF KeptByWatcher
<1> DEFINE Stays == w \in subscriptions' \cup pending' /\ state'[w] = s
<1>2. ASSUME NEW t \in Thread, CallerStep(t) PROVE Stays \/ KeptByCaller(s)'
  <2>1. CASE Subscribe(t) \/ SubscribeFails(t)
    <3>1. MustSubscribe(t)
      BY <2>1 DEF Subscribe, SubscribeFails
    <3>2. on[t] # w
      BY <1>0, <1>1, <3>1 DEF MustSubscribe, MayRebuild, StillStopping
    <3> QED
      BY <1>0, <1>1, <2>1, <3>2 DEF Subscribe, SubscribeFails
  <2>2. CASE Started(t)
    BY <1>1, <2>2 DEF Started
  <2>3. CASE StartGivenUp(t)
    <3>1. mine[t] # s
      BY <1>0, <2>3 DEF StartGivenUp, HasStopped
    <3>2. state[on[t]] = mine[t]
      BY <2>3 DEF StartGivenUp, BaseInv, StartersAreAlone, Starter
    <3>3. on[t] # w
      BY <1>1, <3>1, <3>2
    <3> QED
      BY <1>0, <1>1, <2>3, <3>3 DEF StartGivenUp, Cleared
  <2>4. CASE Unwatch(t)
    <3>1. CASE on[t] = w
      <4>1. mine'[t] = s /\ where'[t] = "detach"
        BY <1>0, <1>1, <2>4, <3>1 DEF Unwatch, Goto
      <4> QED
        BY <4>1 DEF KeptByCaller
    <3>2. CASE on[t] # w
      BY <1>1, <2>4, <3>2 DEF Unwatch
    <3> QED
      BY <3>1, <3>2
  <2>5. CASE FinishUnsubscribe(t)
    <3>1. mine[t] # s
      BY <1>0, <2>5 DEF FinishUnsubscribe, HasStopped
    <3> QED
      BY <1>0, <1>1, <2>5, <3>1 DEF FinishUnsubscribe, Cleared
  <2>6. CASE \/ NothingToWatch(t) \/ StartFailed(t) \/ NothingToUnwatch(t)
             \/ UnwatchFails(t) \/ UnrefCall(t) \/ ReleaseShared(t)
    BY <1>1, <2>6 DEF NothingToWatch, StartFailed, NothingToUnwatch, UnwatchFails,
                      UnrefCall, ReleaseShared
  <2> QED
    BY <1>2, <2>1, <2>2, <2>3, <2>4, <2>5, <2>6 DEF CallerStep
<1>3. CASE LoopStep
  <2>1. CASE UnwatchFailed
    BY <1>0, <1>1, <2>1 DEF UnwatchFailed
  <2>2. CASE DetachFailed
    <3>1. detaching # s
      BY <1>0, <2>2 DEF DetachFailed, HasStopped
    <3> QED
      BY <1>0, <1>1, <2>2, <3>1 DEF DetachFailed
  <2>3. ASSUME NEW r \in Sub,
               \/ CompleteStop(r) \/ CompleteEvents(r) \/ CompleteParameter(r)
               \/ CompleteOverflow(r) \/ CompleteError(r)
        PROVE  Stays
    BY <1>1, <2>3 DEF CompleteStop, CompleteEvents, CompleteParameter, CompleteOverflow,
                      CompleteError
  <2>4. CASE \/ Sleep \/ RunNoop \/ RunStop \/ RunStart \/ ReadTree \/ ReadTreeFails
             \/ InvalidateCurrent \/ StopOverflowed \/ NothingFailed \/ UnrefFailed
    BY <1>1, <2>4
      DEF Sleep, RunNoop, RunStop, RunStart, ReadTree, ReadTreeFails,
          InvalidateCurrent, StopOverflowed, NothingFailed, UnrefFailed
  <2> QED
    BY <1>3, <2>1, <2>2, <2>3, <2>4 DEF LoopStep
<1>4. CASE ~LoopStep /\ ~(\E t \in Thread : CallerStep(t))
  BY <1>1, <1>4 DEF WindowsNext, CallWatch, CallUnwatch, Cancel, Complete
<1> QED
  BY <1>2, <1>3, <1>4

(* Who unsubscribes it waits until it has stopped. *)
LEMMA KeptByCallerStays ==
  ASSUME BaseInv, WindowsNext, NEW s \in Created, ~sub[s].stopped, KeptByCaller(s)
  PROVE  KeptByCaller(s)'
<1> USE DEF callerVars, Goto, Released
<1>0. where \in [Thread -> Where] /\ mine \in [Thread -> Sub \cup {NoSub}] /\ s # NoSub
  BY Types
<1>1. PICK t \in Thread : where[t] = "detach" /\ mine[t] = s
  BY DEF KeptByCaller
<1> DEFINE Stays == where'[t] = "detach" /\ mine'[t] = s
<1>2. ASSUME NEW u \in Thread, CallerStep(u) PROVE Stays
  <2>1. u # t
    <3>1. ~FinishUnsubscribe(t)
      BY <1>0, <1>1 DEF FinishUnsubscribe, HasStopped
    <3> QED
      BY <1>1, <1>2, <3>1
        DEF CallerStep, NothingToWatch, Subscribe, SubscribeFails, MustSubscribe, Started,
            StartGivenUp, StartFailed, NothingToUnwatch, Unwatch, UnwatchFails,
            UnrefCall, ReleaseShared
  <2> QED
    BY <1>0, <1>1, <1>2, <2>1
      DEF CallerStep, NothingToWatch, Subscribe, SubscribeFails, Started, StartGivenUp,
          StartFailed, NothingToUnwatch, Unwatch, UnwatchFails, FinishUnsubscribe,
          UnrefCall, ReleaseShared
<1>3. ASSUME LoopStep PROVE Stays
  <2>1. ASSUME NEW r \in Sub,
               \/ CompleteStop(r) \/ CompleteEvents(r) \/ CompleteParameter(r)
               \/ CompleteOverflow(r) \/ CompleteError(r)
        PROVE  Stays
    BY <1>1, <2>1 DEF CompleteStop, CompleteEvents, CompleteParameter, CompleteOverflow,
                      CompleteError
  <2> QED
    BY <1>1, <1>3, <2>1
      DEF LoopStep, Sleep, RunNoop, RunStop, RunStart, ReadTree, ReadTreeFails,
          InvalidateCurrent, StopOverflowed, UnwatchFailed, NothingFailed, UnrefFailed,
          DetachFailed
<1>4. ASSUME NEW u \in Thread, NEW w \in Watcher, CallWatch(u, w) \/ CallUnwatch(u, w)
      PROVE  Stays
  BY <1>0, <1>1, <1>4 DEF CallWatch, CallUnwatch
<1>5. ASSUME (\E w \in Watcher : Cancel(w)) \/ (\E r \in Sub : Complete(r)) PROVE Stays
  BY <1>1, <1>5 DEF Cancel, Complete
<1>6. Stays
  BY <1>2, <1>3, <1>4, <1>5 DEF WindowsNext
<1> QED
  BY <1>6 DEF KeptByCaller

LEMMA DetachingStays ==
  ASSUME BaseInv, WindowsNext, NEW s \in Created, ~sub[s].stopped, detaching = s
  PROVE  detaching' = s
<1>1. s # NoSub /\ loop = "detach"
  BY Types DEF BaseInv, LoopOK
<1>2. CASE LoopStep
  <2>1. ~DetachFailed
    BY <1>1 DEF DetachFailed, HasStopped
  <2>2. ASSUME NEW r \in Sub,
               \/ CompleteStop(r) \/ CompleteEvents(r) \/ CompleteParameter(r)
               \/ CompleteOverflow(r) \/ CompleteError(r)
        PROVE  detaching' = s
    BY <2>2 DEF CompleteStop, CompleteEvents, CompleteParameter, CompleteOverflow,
                CompleteError
  <2> QED
    BY <1>1, <1>2, <2>1, <2>2
      DEF LoopStep, Sleep, RunNoop, RunStop, RunStart, ReadTree, ReadTreeFails,
          InvalidateCurrent, StopOverflowed, UnwatchFailed, NothingFailed, UnrefFailed
<1> QED
  BY <1>2, LoopIsItsOwn

LEMMA KeptStep ==
  ASSUME ~RebuildsEarly, KeptInv, [WindowsNext]_windowsVars
  PROVE  KeptInv'
<1>0. BaseInv /\ BaseInv'
  BY BaseStep DEF KeptInv
<1>1. CASE UNCHANGED windowsVars
  <2>1. /\ sub' = sub /\ state' = state /\ subscriptions' = subscriptions
        /\ pending' = pending /\ where' = where /\ mine' = mine /\ detaching' = detaching
        /\ created' = created
    BY <1>1 DEF windowsVars, backendVars, subVars, loopVars, callerVars, boundVars
  <2>2. RunningIsKept'
    BY <2>1 DEF KeptInv, RunningIsKept, Kept, KeptByWatcher, KeptByCaller, Created
  <2> QED
    BY <1>0, <2>2 DEF KeptInv
<1>2. CASE WindowsNext
  <2> SUFFICES ASSUME NEW s \in Created', ~sub'[s].stopped PROVE Kept(s)'
    BY <1>0 DEF KeptInv, RunningIsKept
  <2>1. CASE s \in Created
    <3>1. ~sub[s].stopped /\ sub'[s].owner = sub[s].owner
      BY <1>0, <1>2, <2>1, StepEffect DEF Same, Lives
    <3>2. Kept(s)
      BY <2>1, <3>1 DEF KeptInv, RunningIsKept
    <3>3. CASE KeptByWatcher(s)
      BY <1>0, <1>2, <2>1, <3>1, <3>3, KeptByWatcherStays DEF Kept, KeptByWatcher
    <3>4. CASE KeptByCaller(s)
      BY <1>0, <1>2, <2>1, <3>1, <3>4, KeptByCallerStays DEF Kept
    <3>5. CASE detaching = s
      BY <1>0, <1>2, <2>1, <3>1, <3>5, DetachingStays DEF Kept
    <3> QED
      BY <3>2, <3>3, <3>4, <3>5 DEF Kept
  <2>2. CASE s \notin Created
    <3>1. Fresh(s)
      BY <1>0, <1>2, <2>2, StepEffect
    <3>2. created' # created /\ s = created'
      BY <1>0, <3>1, Types DEF Fresh
    <3>3. PICK t \in Thread : Subscribe(t)
      BY <1>0, <1>2, <3>2, StepIs DEF Quiet
    <3>4. sub'[s] = NewSub(on[t]) /\ on[t] \in Watcher
      BY <1>0, <3>2, <3>3, SubscribeEffect
    <3>5. on[t] \in pending' /\ state'[on[t]] = s /\ sub'[s].owner = on[t]
      BY <1>0, <3>2, <3>3, <3>4, Types, NewSubIs DEF Subscribe
    <3> QED
      BY <3>5 DEF Kept, KeptByWatcher
  <2> QED
    BY <2>1, <2>2
<1> QED
  BY <1>1, <1>2

LEMMA KeptIsIdle ==
  ASSUME KeptInv
  PROVE  StoppedIsIdle
<1>0. BaseInv
  BY DEF KeptInv
<1> SUFFICES ASSUME NEW s \in Sub, sub[s].stopped \/ ~Alive(s)
             PROVE  io[s] = "none" /\ ~Queued(s)
  BY DEF StoppedIsIdle
<1>1. ASSUME \A kind \in Kind : ~Waits(kind, s) PROVE ~Queued(s)
  <2> SUFFICES ASSUME NEW i \in DOMAIN apcs, apcs[i].sub = s PROVE FALSE
    BY DEF Queued
  <2>1. apcs[i] \in Apc
    BY <1>0, Types
  <2>2. NoSub \notin Sub
    BY <1>0, Types
  <2>3. apcs[i] \in [kind : Kind, sub : Sub]
    BY <2>1, <2>2 DEF Apc, Kind
  <2>4. apcs[i].kind \in Kind /\ apcs[i] = Call(apcs[i].kind, s)
    BY <2>3 DEF Call
  <2> QED
    BY <1>1, <2>4 DEF Waits
<1>2. CASE s \notin Created
  <2>1. \A kind \in Kind : ~Waits(kind, s)
    BY <1>0, <1>2 DEF BaseInv, SubsExist
  <2>2. s > created
    BY <1>0, <1>2, Types DEF Created, Sub
  <2> QED
    BY <1>0, <1>1, <2>1, <2>2 DEF BaseInv, SubsExist
<1>3. CASE s \in Created
  <2>1. sub[s].stopped
    <3>1. Kept(s) => Alive(s)
      <4>1. sub[s].owner \in Watcher
        BY <1>0, <1>3, LivesFacts
      <4> QED
        BY <4>1 DEF Kept, KeptByWatcher, KeptByCaller, Alive
    <3> QED
      BY <1>3, <3>1 DEF KeptInv, RunningIsKept
  <2>2. ReadOK(s) /\ StopOK(s) /\ StartOK(s)
    BY <1>0, <1>3, LivesFacts
  <2>3. io[s] = "none" /\ ~Waits("done", s) /\ ~Waits("stop", s) /\ ~Waits("run", s)
    BY <2>1, <2>2 DEF ReadOK, StopOK, StartOK, Starts
  <2> QED
    BY <1>1, <2>3 DEF Kind
<1> QED
  BY <1>2, <1>3

(* A callback finds its Subscription: one that has stopped, or that nothing *)
(* keeps alive, has no read in flight and no callback queued, whatever      *)
(* fails while its watcher is pending.  It needs that no subscribe rebuilds *)
(* a lost subscription before that has stopped, as the code does not see to.*)
THEOREM GoneIsIdle == ASSUME ~RebuildsEarly PROVE WindowsSpec => []StoppedIsIdle
<1>1. WindowsInit => KeptInv
  <2> SUFFICES ASSUME WindowsInit PROVE KeptInv
    OBVIOUS
  <2>1. Created = {}
    BY DEF WindowsInit, Created
  <2> QED
    BY <2>1, InitBase DEF KeptInv, RunningIsKept
<1>2. KeptInv /\ [WindowsNext]_windowsVars => KeptInv'
  BY KeptStep
<1>3. KeptInv => StoppedIsIdle
  BY KeptIsIdle
<1> QED
  BY <1>1, <1>2, <1>3, PTL DEF WindowsSpec
----------------------------------------------------------------------------
(* A watcher that is subscribed and is not to be subscribed anew has a      *)
(* Subscription with a read, or with the end of one about to be handled.    *)
(* The fault that ends it says so to Backend before it stops it, the start  *)
(* that is cancelled by needsResubscribe; a caller that unsubscribes the    *)
(* watcher has stopped it.                                                  *)
Faulty == {"overflow", "invalidated", "error", "detach"}

FaultsAreTold ==
  LET w == sub[current].owner IN
  /\ loop \in Faulty => w \notin pending
  /\ loop = "invalidated" => w \notin subscriptions \ invalid
  /\ loop = "detach" => w \notin subscriptions

Watches(s) ==
  /\ ~sub[s].stopRequested
  /\ sub[s].pollPending \/ (current = s /\ loop \in {"overflow", "error"})

Watched(w) == \E s \in Sub : state[w] = s /\ Watches(s)

Resubscribed == pending \cup invalid \cup needsResubscribe

StatesWatch == \A w \in subscriptions \ Resubscribed : Watched(w)

StartIsTold(t) ==
  \A s \in Sub : where[t] = "starting" /\ mine[t] = s /\ sub[s].start = "started" =>
    on[t] \in needsResubscribe \/ (~sub[s].stopRequested /\ sub[s].pollPending)

LossIsRemembered ==
  \A t \in Thread : where[t] \in Starter /\ ~wasInvalid[t] => on[t] \notin subscriptions

DetachStops(t) ==
  \A s \in Sub : where[t] = "detach" /\ mine[t] = s => sub[s].stopRequested

WatchInv ==
  /\ BaseInv
  /\ FaultsAreTold
  /\ StatesWatch
  /\ \A t \in Thread : StartIsTold(t)
  /\ LossIsRemembered
  /\ \A t \in Thread : DetachStops(t)

LEMMA StartersDiffer ==
  ASSUME BaseInv, NEW t \in Thread, where[t] \in Starter, NEW u \in Thread \ {t},
         where[u] \in Starter
  PROVE  on[u] # on[t]
<1>1. /\ mine[u] # mine[t] /\ state[on[t]] = mine[t] /\ state[on[u]] = mine[u]
  BY DEF BaseInv, StartersAreAlone
<1> QED
  BY <1>1

LEMMA OwnersDiffer ==
  ASSUME BaseInv, NEW v \in Watcher, NEW w \in Watcher, v # w, state[w] # NoSub
  PROVE  state[v] # state[w]
  BY DEF BaseInv, SubsExist

(* Which steps leave a watcher pending, or make it so *)
LEMMA PendingIs ==
  ASSUME BaseInv, WindowsNext, NEW w \in pending'
  PROVE  w \in pending \/ \E t \in Thread : Subscribe(t) /\ on[t] = w
<1> USE DEF backendVars
<1>1. ASSUME NEW t \in Thread, CallerStep(t)
      PROVE  w \in pending \/ (Subscribe(t) /\ on[t] = w)
  BY <1>1 DEF CallerStep, NothingToWatch, Subscribe, SubscribeFails, Started, StartGivenUp,
              StartFailed, NothingToUnwatch, Unwatch, UnwatchFails, FinishUnsubscribe,
              UnrefCall, ReleaseShared
<1>2. ASSUME LoopStep PROVE w \in pending
  <2>1. ASSUME NEW r \in Sub,
               \/ CompleteStop(r) \/ CompleteEvents(r) \/ CompleteParameter(r)
               \/ CompleteOverflow(r) \/ CompleteError(r)
        PROVE  pending' = pending
    BY <2>1 DEF CompleteStop, CompleteEvents, CompleteParameter, CompleteOverflow,
                CompleteError
  <2> QED
    BY <1>2, <2>1
      DEF LoopStep, Sleep, RunNoop, RunStop, RunStart, ReadTree, ReadTreeFails,
          InvalidateCurrent, StopOverflowed, UnwatchFailed, NothingFailed, UnrefFailed,
          DetachFailed
<1> QED
  BY <1>1, <1>2 DEF WindowsNext, CallWatch, CallUnwatch, Cancel, Complete

LEMMA FaultsStep ==
  ASSUME ~FaultsWhilePending, WatchInv, WindowsNext
  PROVE  FaultsAreTold'
<1> USE DEF backendVars
<1>0. BaseInv /\ FaultsAreTold
  BY DEF WatchInv
<1>1. CASE LoopStep
  <2>1. ASSUME NEW s \in Sub, CompleteOverflow(s) \/ CompleteError(s) PROVE FaultsAreTold'
    <3>1. /\ loop' \in {"overflow", "error"} /\ current' = s /\ pending' = pending
          /\ sub[s].owner \notin pending /\ sub'[s].owner = sub[s].owner
      BY <1>0, <2>1, CompleteFaultTouches DEF CompleteOverflow, CompleteError, Touches, Lives
    <3> QED
      BY <3>1 DEF FaultsAreTold
  <2>2. CASE InvalidateCurrent
    BY <1>0, <2>2 DEF InvalidateCurrent, FaultsAreTold, Faulty, subVars
  <2>3. CASE UnwatchFailed
    <3>1. PICK c : c = current
      OBVIOUS
    <3>2. c \in Created
      BY <1>0, <2>3, <3>1, Types DEF UnwatchFailed
    <3>3. sub'[c].owner = sub[c].owner
      BY <1>0, <3>2, StepEffect DEF Same, Lives
    <3>4. /\ loop' = "detach" /\ current' = c /\ pending' = pending
          /\ sub[c].owner \notin pending /\ subscriptions' = subscriptions \ {sub[c].owner}
      BY <2>3, <3>1 DEF UnwatchFailed
    <3> QED
      BY <3>3, <3>4 DEF FaultsAreTold
  <2>4. CASE \/ Sleep \/ RunNoop \/ RunStop \/ RunStart \/ ReadTree \/ ReadTreeFails
             \/ StopOverflowed \/ NothingFailed \/ DetachFailed \/ UnrefFailed
    <3>1. loop' \notin Faulty
      BY <2>4 DEF Sleep, RunNoop, RunStop, RunStart, ReadTree, ReadTreeFails,
                  StopOverflowed, NothingFailed, DetachFailed, UnrefFailed, Return, Faulty
    <3> QED
      BY <3>1 DEF FaultsAreTold, Faulty
  <2>5. ASSUME NEW s \in Sub, CompleteStop(s) \/ CompleteEvents(s) \/ CompleteParameter(s)
        PROVE  FaultsAreTold'
    BY <2>5 DEF CompleteStop, CompleteEvents, CompleteParameter, Return, FaultsAreTold, Faulty
  <2> QED
    BY <1>1, <2>1, <2>2, <2>3, <2>4, <2>5 DEF LoopStep
<1>2. CASE ~LoopStep /\ loop \in Faulty
  <2>1. PICK c : c = current
    OBVIOUS
  <2>2. PICK w : w = sub[c].owner
    OBVIOUS
  <2>3. c \in Created /\ loop' = loop /\ current' = c /\ w \in Watcher
    BY <1>0, <1>2, <2>1, <2>2, LoopIsItsOwn, Types DEF Faulty
  <2>4. sub'[c].owner = w
    BY <1>0, <2>2, <2>3, StepEffect DEF Same, Lives
  <2>5. /\ w \notin pending
        /\ loop = "invalidated" => w \notin subscriptions \ invalid
        /\ loop = "detach" => w \notin subscriptions
    BY <1>0, <1>2, <2>1, <2>2 DEF FaultsAreTold
  <2>6. ASSUME NEW t \in Thread, Subscribe(t) \/ SubscribeFails(t) PROVE on[t] # w
    BY <1>2, <2>1, <2>2, <2>6
      DEF Subscribe, SubscribeFails, MustSubscribe, MayRebuild, HandlesFault, Faulty
  <2>7. w \notin pending'
    BY <1>0, <2>5, <2>6, PendingIs
  <2>8. /\ w \in subscriptions' => w \in subscriptions
        /\ w \in subscriptions' /\ w \in invalid => w \in invalid'
    <3>1. ASSUME NEW t \in Thread, CallerStep(t)
          PROVE  /\ w \in subscriptions' => w \in subscriptions
                 /\ w \in subscriptions' /\ w \in invalid => w \in invalid'
      <4>1. CASE Started(t)
        <5>1. on[t] # w
          BY <1>0, <2>5, <4>1 DEF Started, BaseInv, StartersAreAlone, Starter
        <5> QED
          BY <4>1, <5>1 DEF Started
      <4>2. CASE Subscribe(t) \/ SubscribeFails(t)
        BY <2>6, <4>2 DEF Subscribe, SubscribeFails
      <4>3. CASE ~Started(t) /\ ~Subscribe(t) /\ ~SubscribeFails(t)
        BY <3>1, <4>3 DEF CallerStep, NothingToWatch, StartGivenUp, StartFailed,
                          NothingToUnwatch, Unwatch, UnwatchFails, FinishUnsubscribe,
                          UnrefCall, ReleaseShared
      <4> QED
        BY <4>1, <4>2, <4>3
    <3> QED
      BY <1>2, <3>1 DEF WindowsNext, CallWatch, CallUnwatch, Cancel, Complete
  <2> QED
    BY <2>3, <2>4, <2>5, <2>7, <2>8 DEF FaultsAreTold
<1>3. CASE ~LoopStep /\ loop \notin Faulty
  BY <1>0, <1>3, LoopIsItsOwn DEF FaultsAreTold, Faulty
<1> QED
  BY <1>1, <1>2, <1>3

LEMMA LossStep ==
  ASSUME WatchInv, WindowsNext
  PROVE  LossIsRemembered'
<1> USE DEF backendVars
<1>0. BaseInv /\ LossIsRemembered
  BY DEF WatchInv
<1> SUFFICES ASSUME NEW t \in Thread, where'[t] \in Starter, ~wasInvalid'[t]
             PROVE  on'[t] \notin subscriptions'
  BY DEF LossIsRemembered
<1>1. CASE Subscribe(t)
  BY <1>0, <1>1, Types DEF Subscribe
<1>2. CASE ~Subscribe(t)
  <2>1. where[t] \in Starter /\ ~Started(t) /\ ~StartGivenUp(t)
    BY <1>0, <1>2, StarterIsMade
  <2>2. on'[t] = on[t] /\ ~wasInvalid[t]
    BY <1>0, <2>1, StarterStays
  <2>3. on[t] \notin subscriptions
    BY <1>0, <2>1, <2>2 DEF LossIsRemembered
  <2>4. ASSUME NEW u \in Thread, Started(u) PROVE on[t] \notin subscriptions'
    <3>1. u # t /\ where[u] \in Starter
      BY <2>1, <2>4 DEF Started, Starter
    <3>2. on[u] # on[t]
      BY <1>0, <2>1, <3>1, StartersDiffer
    <3> QED
      BY <2>3, <2>4, <3>2 DEF Started
  <2>5. ASSUME NEW u \in Thread, CallerStep(u) PROVE on[t] \notin subscriptions'
    BY <2>3, <2>4, <2>5
      DEF CallerStep, NothingToWatch, Subscribe, SubscribeFails, StartGivenUp,
          StartFailed, NothingToUnwatch, Unwatch, UnwatchFails, FinishUnsubscribe,
          UnrefCall, ReleaseShared
  <2>6. ASSUME LoopStep PROVE on[t] \notin subscriptions'
    <3>1. ASSUME NEW r \in Sub,
                 \/ CompleteStop(r) \/ CompleteEvents(r) \/ CompleteParameter(r)
                 \/ CompleteOverflow(r) \/ CompleteError(r)
          PROVE  subscriptions' = subscriptions
      BY <3>1 DEF CompleteStop, CompleteEvents, CompleteParameter, CompleteOverflow,
                  CompleteError
    <3> QED
      BY <2>3, <2>6, <3>1
        DEF LoopStep, Sleep, RunNoop, RunStop, RunStart, ReadTree, ReadTreeFails,
            InvalidateCurrent, StopOverflowed, UnwatchFailed, NothingFailed, UnrefFailed,
            DetachFailed
  <2>7. ASSUME ~LoopStep, ~(\E u \in Thread : CallerStep(u))
        PROVE  subscriptions' = subscriptions
    BY <2>7 DEF WindowsNext, CallWatch, CallUnwatch, Cancel, Complete
  <2> QED
    BY <2>2, <2>3, <2>5, <2>6, <2>7
<1> QED
  BY <1>1, <1>2
LEMMA DetachStep ==
  ASSUME WatchInv, WindowsNext, NEW t \in Thread
  PROVE  DetachStops(t)'
<1> USE DEF callerVars, Goto, Released
<1>0. /\ BaseInv /\ DetachStops(t) /\ where \in [Thread -> Where] /\ NoSub \notin Sub
      /\ mine \in [Thread -> Sub \cup {NoSub}]
  BY Types DEF WatchInv
<1> SUFFICES ASSUME NEW s \in Sub, where'[t] = "detach", mine'[t] = s
             PROVE  sub'[s].stopRequested
  BY DEF DetachStops
<1>1. CASE Unwatch(t)
  <2>1. s = state[on[t]]
    BY <1>0, <1>1 DEF Unwatch
  <2> QED
    BY <1>0, <1>1, <2>1, UnwatchTouches
<1>2. CASE ~Unwatch(t)
  <2>1. ASSUME NEW u \in Thread, CallerStep(u) PROVE where[t] = "detach" /\ mine[t] = s
    <3>1. u # t
      BY <1>0, <1>2, <2>1
        DEF CallerStep, NothingToWatch, Subscribe, SubscribeFails, Started, StartGivenUp,
            StartFailed, NothingToUnwatch, UnwatchFails, FinishUnsubscribe, UnrefCall,
            ReleaseShared
    <3> QED
      BY <1>0, <2>1, <3>1
        DEF CallerStep, NothingToWatch, Subscribe, SubscribeFails, Started, StartGivenUp,
            StartFailed, NothingToUnwatch, Unwatch, UnwatchFails, FinishUnsubscribe,
            UnrefCall, ReleaseShared
  <2>2. ASSUME LoopStep PROVE where[t] = "detach" /\ mine[t] = s
    <3>1. ASSUME NEW r \in Sub,
                 \/ CompleteStop(r) \/ CompleteEvents(r) \/ CompleteParameter(r)
                 \/ CompleteOverflow(r) \/ CompleteError(r)
          PROVE  where' = where /\ mine' = mine
      BY <3>1 DEF CompleteStop, CompleteEvents, CompleteParameter, CompleteOverflow,
                  CompleteError
    <3>2. where' = where /\ mine' = mine
      BY <2>2, <3>1
        DEF LoopStep, Sleep, RunNoop, RunStop, RunStart, ReadTree, ReadTreeFails,
            InvalidateCurrent, StopOverflowed, UnwatchFailed, NothingFailed, UnrefFailed,
            DetachFailed
    <3> QED
      BY <3>2
  <2>3. ASSUME NEW u \in Thread, NEW w \in Watcher, CallWatch(u, w) \/ CallUnwatch(u, w)
        PROVE  where[t] = "detach" /\ mine[t] = s
    BY <1>0, <2>3 DEF CallWatch, CallUnwatch
  <2>4. ASSUME (\E w \in Watcher : Cancel(w)) \/ (\E r \in Sub : Complete(r))
        PROVE  where[t] = "detach" /\ mine[t] = s
    <3>1. where' = where /\ mine' = mine
      BY <2>4 DEF Cancel, Complete
    <3> QED
      BY <3>1
  <2>5. where[t] = "detach" /\ mine[t] = s
    BY <2>1, <2>2, <2>3, <2>4 DEF WindowsNext
  <2>6. sub[s].stopRequested /\ s \in Created
    BY <1>0, <2>5 DEF DetachStops, BaseInv, SubsExist
  <2> QED
    BY <1>0, <2>6, StepEffect DEF Same, Lives
<1> QED
  BY <1>1, <1>2

(* A start that was cancelled leaves its watcher to be subscribed anew. *)
LEMMA NeedStays ==
  ASSUME BaseInv, WindowsNext, NEW w \in pending \cap needsResubscribe
  PROVE  w \in needsResubscribe'
<1> USE DEF backendVars
<1>1. ASSUME NEW t \in Thread, CallerStep(t) PROVE w \in needsResubscribe'
  BY <1>1 DEF CallerStep, NothingToWatch, Subscribe, SubscribeFails, MustSubscribe, Started,
              StartGivenUp, StartFailed, NothingToUnwatch, Unwatch, UnwatchFails,
              FinishUnsubscribe, UnrefCall, ReleaseShared
<1>2. ASSUME LoopStep PROVE w \in needsResubscribe'
  <2>1. ASSUME NEW r \in Sub,
               \/ CompleteStop(r) \/ CompleteEvents(r) \/ CompleteParameter(r)
               \/ CompleteOverflow(r) \/ CompleteError(r)
        PROVE  needsResubscribe' = needsResubscribe
    BY <2>1 DEF CompleteStop, CompleteEvents, CompleteParameter, CompleteOverflow,
                CompleteError
  <2> QED
    BY <1>2, <2>1
      DEF LoopStep, Sleep, RunNoop, RunStop, RunStart, ReadTree, ReadTreeFails,
          InvalidateCurrent, StopOverflowed, UnwatchFailed, NothingFailed, UnrefFailed,
          DetachFailed
<1>3. ASSUME ~LoopStep, ~(\E t \in Thread : CallerStep(t))
      PROVE  needsResubscribe' = needsResubscribe
  BY <1>3 DEF WindowsNext, CallWatch, CallUnwatch, Cancel, Complete
<1> QED
  BY <1>1, <1>2, <1>3

(* Which Subscription a step touches *)
LEMMA TouchedByCall ==
  ASSUME BaseInv, WindowsNext, ~LoopStep, NEW s \in Created
  PROVE  \/ sub'[s] = sub[s]
         \/ \E t \in Thread : StartFailed(t) /\ s = mine[t]
         \/ \E t \in Thread : Unwatch(t) /\ s = state[on[t]]
<1> USE DEF subVars, boundVars
<1>0. s \in Sub /\ s # NoSub /\ sub \in [Sub -> SubRecord]
  BY Types
<1>1. ASSUME NEW t \in Thread, StartFailed(t), s # mine[t] PROVE sub'[s] = sub[s]
  BY <1>0, <1>1 DEF StartFailed, StopRequested
<1>2. ASSUME NEW t \in Thread, Unwatch(t), s # state[on[t]] PROVE sub'[s] = sub[s]
  BY <1>0, <1>2 DEF Unwatch, StopRequested
<1>3. ASSUME NEW t \in Thread, Subscribe(t) PROVE sub'[s] = sub[s]
  BY <1>0, <1>3, SubscribeEffect DEF Alone
<1>4. ASSUME NEW t \in Thread, CallerStep(t), ~StartFailed(t), ~Unwatch(t), ~Subscribe(t)
      PROVE  sub' = sub
  BY <1>4 DEF CallerStep, NothingToWatch, SubscribeFails, Started, StartGivenUp,
              NothingToUnwatch, UnwatchFails, FinishUnsubscribe, UnrefCall, ReleaseShared
<1>5. ASSUME ~(\E t \in Thread : CallerStep(t)) PROVE sub' = sub
  BY <1>5 DEF WindowsNext, CallWatch, CallUnwatch, Cancel, Complete
<1> QED
  BY <1>1, <1>2, <1>3, <1>4, <1>5

LEMMA TouchedByLoop ==
  ASSUME BaseInv, LoopStep, NEW s \in Created
  PROVE  \/ sub'[s] = sub[s]
         \/ RunStop /\ s = First
         \/ RunStart /\ s = First
         \/ (ReadTree \/ ReadTreeFails \/ StopOverflowed) /\ s = current
         \/ UnwatchFailed /\ s = state[sub[current].owner]
         \/ CompleteStop(s) \/ CompleteEvents(s) \/ CompleteParameter(s)
         \/ CompleteOverflow(s) \/ CompleteError(s)
<1> USE DEF subVars
<1>0. s \in Sub /\ s # NoSub
  BY Types
<1>1. CASE RunStop
  <2>1. PICK r : r = First
    OBVIOUS
  <2> QED
    BY <1>0, <1>1, <2>1, RunStopTouches DEF Touches, Same
<1>2. CASE RunStart
  <2>1. PICK r : r = First
    OBVIOUS
  <2> QED
    BY <1>0, <1>2, <2>1, RunStartTouches DEF Touches, Same
<1>3. CASE ReadTree \/ ReadTreeFails \/ StopOverflowed
  <2>1. PICK r : r = current
    OBVIOUS
  <2> QED
    BY <1>0, <1>3, <2>1, ReadTreeTouches, ReadTreeFailsTouches, StopOverflowedTouches
      DEF Touches, Same
<1>4. CASE UnwatchFailed
  <2>1. PICK w : w = sub[current].owner
    OBVIOUS
  <2>2. PICK r : r = state[w]
    OBVIOUS
  <2> QED
    BY <1>0, <1>4, <2>1, <2>2, UnwatchFailedTouches DEF Touches, Same
<1>5. ASSUME NEW r \in Sub,
             \/ CompleteStop(r) \/ CompleteEvents(r) \/ CompleteParameter(r)
             \/ CompleteOverflow(r) \/ CompleteError(r),
             r # s
      PROVE  sub'[s] = sub[s]
  BY <1>0, <1>5, CompleteStopTouches, CompleteReadTouches, CompleteFaultTouches
    DEF Touches, Same
<1>6. CASE QuietLoop
  <2>1. sub' = sub
    BY <1>6 DEF QuietLoop, Sleep, RunNoop, InvalidateCurrent, NothingFailed, DetachFailed,
                UnrefFailed
  <2> QED
    BY <2>1
<1> QED
  BY <1>1, <1>2, <1>3, <1>4, <1>5, <1>6 DEF LoopStep, QuietLoop

LEMMA ToldStep ==
  ASSUME ~FaultsWhilePending, WatchInv, WindowsNext, NEW t \in Thread
  PROVE  StartIsTold(t)'
<1>0. BaseInv /\ StartIsTold(t) /\ FaultsAreTold /\ NoSub \notin Sub
  BY Types DEF WatchInv
<1> SUFFICES ASSUME NEW s \in Sub, where'[t] = "starting", mine'[t] = s,
                    sub'[s].start = "started"
             PROVE  \/ on'[t] \in needsResubscribe'
                    \/ ~sub'[s].stopRequested /\ sub'[s].pollPending
  BY DEF StartIsTold
<1>1. CASE Subscribe(t)
  <2>1. PICK n : n = created'
    OBVIOUS
  <2>2. n = s
    BY <1>0, <1>1, <2>1, Types DEF Subscribe
  <2>3. sub'[s] = NewSub(on[t]) /\ on[t] \in Watcher
    BY <1>0, <1>1, <2>1, <2>2, SubscribeEffect
  <2> QED
    BY <2>3, NewSubIs
<1>2. CASE ~Subscribe(t)
  <2>1. where[t] \in Starter /\ ~Started(t) /\ ~StartGivenUp(t)
    BY <1>0, <1>2, StarterIsMade DEF Starter
  <2>2. ~StartFailed(t)
    BY <1>0, Types DEF StartFailed, Goto
  <2>3. mine[t] = s /\ on'[t] = on[t] /\ where[t] = "starting"
    BY <1>0, <2>1, <2>2, StarterStays
  <2>4. /\ s \in Created /\ on[t] \in pending /\ state[on[t]] = s /\ on[t] \in Watcher
        /\ sub[s].owner = on[t] /\ detaching # s
        /\ \A u \in Thread \ {t} : mine[u] # s
    BY <1>0, <2>1, <2>3, Types DEF BaseInv, StartersAreAlone, SubsExist
  <2>5. on[t] \in needsResubscribe => on[t] \in needsResubscribe'
    BY <1>0, <2>4, NeedStays
  <2>6. sub[s].start = "started" =>
          on[t] \in needsResubscribe \/ (~sub[s].stopRequested /\ sub[s].pollPending)
    BY <1>0, <2>3 DEF StartIsTold
  <2>7. ReadOK(s) /\ StopOK(s) /\ StartOK(s) /\ sub[s].pollPending \in BOOLEAN
    BY <1>0, <2>4, LivesFacts
  <2>8. CASE sub'[s] = sub[s]
    BY <2>3, <2>5, <2>6, <2>8
  <2>9. CASE ~LoopStep
    <3>1. ASSUME NEW u \in Thread, StartFailed(u) PROVE s # mine[u]
      BY <2>2, <2>4, <3>1
    <3>2. ASSUME NEW u \in Thread, Unwatch(u) PROVE s # state[on[u]]
      <4>1. on[u] \in Watcher /\ on[u] \notin pending
        BY <1>0, <3>2, Types DEF Unwatch
      <4> QED
        BY <1>0, <2>1, <2>3, <4>1, StarterIsPending
    <3> QED
      BY <1>0, <2>4, <2>8, <2>9, <3>1, <3>2, TouchedByCall
  <2>10. CASE RunStop /\ s = First
    BY <1>0, <2>3, <2>5, <2>6, <2>7, <2>10, RunStopTouches DEF StopOK
  <2>11. CASE RunStart /\ s = First
    BY <1>0, <2>7, <2>11, RunStartTouches DEF StartOK, Starts
  <2>12. CASE ReadTree /\ s = current
    BY <1>0, <2>3, <2>4, <2>7, <2>12, ReadTreeTouches DEF StartOK, Starts
  <2>13. CASE ReadTreeFails /\ s = current
    BY <1>0, <2>13, ReadTreeFailsTouches
  <2>14. ~(StopOverflowed /\ s = current)
    BY <1>0, <2>4 DEF StopOverflowed, FaultsAreTold, Faulty
  <2>15. ~(UnwatchFailed /\ s = state[sub[current].owner])
    <3>1. UnwatchFailed => sub[current].owner \in Watcher /\ sub[current].owner \notin pending
      BY <1>0, Types DEF UnwatchFailed
    <3> QED
      BY <1>0, <2>1, <2>3, <3>1, StarterIsPending
  <2>16. CASE CompleteStop(s)
    BY <1>0, <2>3, <2>5, <2>6, <2>7, <2>16, CompleteStopTouches DEF StopOK
  <2>17. CASE CompleteEvents(s) \/ CompleteParameter(s)
    BY <1>0, <2>3, <2>5, <2>6, <2>17, CompleteReadTouches
  <2>18. CASE CompleteOverflow(s) \/ CompleteError(s)
    BY <1>0, <2>4, <2>18, CompleteFaultTouches
  <2> QED
    BY <1>0, <2>4, <2>8, <2>9, <2>10, <2>11, <2>12, <2>13, <2>14, <2>15, <2>16, <2>17, <2>18,
       TouchedByLoop
<1> QED
  BY <1>1, <1>2
(* A watcher that needs no other subscribe needed none before, unless its   *)
(* own has just ended.                                                      *)
LEMMA WasWatched ==
  ASSUME WatchInv, WindowsNext, NEW w \in Watcher, w \in subscriptions', w \notin Resubscribed',
         \A t \in Thread : Started(t) => on[t] # w
  PROVE  w \in subscriptions /\ w \notin Resubscribed
<1> USE DEF backendVars, Resubscribed
<1>0. BaseInv /\ LossIsRemembered
  BY DEF WatchInv
<1>1. ASSUME NEW t \in Thread, CallerStep(t)
      PROVE  w \in subscriptions /\ w \notin Resubscribed
  <2>1. CASE Subscribe(t)
    BY <2>1 DEF Subscribe, MustSubscribe
  <2>2. CASE SubscribeFails(t)
    BY <2>2 DEF SubscribeFails, MustSubscribe
  <2>3. CASE Started(t)
    BY <2>3 DEF Started
  <2>4. CASE StartGivenUp(t)
    <3>1. ~wasInvalid[t] => on[t] \notin subscriptions
      BY <1>0, <2>4 DEF LossIsRemembered, StartGivenUp, Starter
    <3> QED
      BY <2>4, <3>1 DEF StartGivenUp
  <2>5. CASE NothingToUnwatch(t) \/ Unwatch(t)
    BY <2>5 DEF NothingToUnwatch, Unwatch
  <2>6. CASE \/ NothingToWatch(t) \/ StartFailed(t) \/ UnwatchFails(t)
             \/ FinishUnsubscribe(t) \/ UnrefCall(t) \/ ReleaseShared(t)
    BY <2>6 DEF NothingToWatch, StartFailed, UnwatchFails, FinishUnsubscribe, UnrefCall,
                ReleaseShared
  <2> QED
    BY <1>1, <2>1, <2>2, <2>3, <2>4, <2>5, <2>6 DEF CallerStep
<1>2. ASSUME LoopStep PROVE w \in subscriptions /\ w \notin Resubscribed
  <2>1. ASSUME NEW r \in Sub,
               \/ CompleteStop(r) \/ CompleteEvents(r) \/ CompleteParameter(r)
               \/ CompleteOverflow(r) \/ CompleteError(r)
        PROVE  w \in subscriptions /\ w \notin Resubscribed
    BY <2>1 DEF CompleteStop, CompleteEvents, CompleteParameter, CompleteOverflow,
                CompleteError
  <2>2. CASE ReadTree
    BY <2>2 DEF ReadTree
  <2>3. CASE InvalidateCurrent \/ UnwatchFailed \/ NothingFailed
    BY <2>3 DEF InvalidateCurrent, UnwatchFailed, NothingFailed
  <2>4. CASE \/ Sleep \/ RunNoop \/ RunStop \/ RunStart \/ ReadTreeFails \/ StopOverflowed
             \/ UnrefFailed \/ DetachFailed
    BY <2>4 DEF Sleep, RunNoop, RunStop, RunStart, ReadTreeFails, StopOverflowed,
                UnrefFailed, DetachFailed
  <2> QED
    BY <1>2, <2>1, <2>2, <2>3, <2>4 DEF LoopStep
<1>3. ASSUME ~LoopStep, ~(\E t \in Thread : CallerStep(t))
      PROVE  w \in subscriptions /\ w \notin Resubscribed
  BY <1>3 DEF WindowsNext, CallWatch, CallUnwatch, Cancel, Complete
<1> QED
  BY <1>1, <1>2, <1>3

(* It keeps its Subscription ... *)
LEMMA WatchedKeepsState ==
  ASSUME WatchInv, WindowsNext, NEW w \in Watcher, w \in subscriptions', w \notin Resubscribed',
         w \in subscriptions, w \notin Resubscribed,
         NEW s \in Sub, state[w] = s, ~sub[s].stopRequested
  PROVE  state'[w] = s
<1> USE DEF backendVars, Resubscribed
<1>0. /\ BaseInv /\ FaultsAreTold /\ s # NoSub
      /\ state \in [Watcher -> Sub \cup {NoSub}] /\ on \in [Thread -> Watcher]
      /\ mine \in [Thread -> Sub \cup {NoSub}]
  BY Types DEF WatchInv
<1>1. ASSUME NEW t \in Thread, CallerStep(t) PROVE state'[w] = s
  <2>1. CASE Subscribe(t)
    BY <1>0, <2>1 DEF Subscribe
  <2>2. CASE SubscribeFails(t)
    BY <1>0, <2>2 DEF SubscribeFails
  <2>3. CASE StartGivenUp(t)
    <3>1. on[t] # w
      BY <1>0, <2>3 DEF StartGivenUp, BaseInv, StartersAreAlone, Starter
    <3> QED
      BY <1>0, <2>3, <3>1 DEF StartGivenUp, Cleared
  <2>4. CASE FinishUnsubscribe(t)
    <3>1. mine[t] # s
      BY <2>4 DEF FinishUnsubscribe, WatchInv, DetachStops
    <3> QED
      BY <1>0, <2>4, <3>1 DEF FinishUnsubscribe, Cleared
  <2>5. CASE \/ NothingToWatch(t) \/ StartFailed(t) \/ UnwatchFails(t) \/ Started(t)
             \/ NothingToUnwatch(t) \/ Unwatch(t) \/ UnrefCall(t) \/ ReleaseShared(t)
    BY <2>5 DEF NothingToWatch, StartFailed, UnwatchFails, Started, NothingToUnwatch,
                Unwatch, UnrefCall, ReleaseShared
  <2> QED
    BY <1>1, <2>1, <2>2, <2>3, <2>4, <2>5 DEF CallerStep
<1>2. ASSUME LoopStep PROVE state'[w] = s
  <2>1. ASSUME NEW r \in Sub,
               \/ CompleteStop(r) \/ CompleteEvents(r) \/ CompleteParameter(r)
               \/ CompleteOverflow(r) \/ CompleteError(r)
        PROVE  state' = state
    BY <2>1 DEF CompleteStop, CompleteEvents, CompleteParameter, CompleteOverflow,
                CompleteError
  <2>2. CASE DetachFailed
    <3>1. sub[current].owner # w
      BY <1>0, <2>2 DEF DetachFailed, FaultsAreTold
    <3> QED
      BY <1>0, <2>2, <3>1 DEF DetachFailed
  <2> QED
    BY <1>2, <2>1, <2>2
      DEF LoopStep, Sleep, RunNoop, RunStop, RunStart, ReadTree, ReadTreeFails,
          InvalidateCurrent, StopOverflowed, UnwatchFailed, NothingFailed, UnrefFailed
<1>3. ASSUME ~LoopStep, ~(\E t \in Thread : CallerStep(t)) PROVE state' = state
  BY <1>3 DEF WindowsNext, CallWatch, CallUnwatch, Cancel, Complete
<1> QED
  BY <1>1, <1>2, <1>3

(* ... and that goes on watching. *)
LEMMA WatchedWatches ==
  ASSUME WatchInv, WindowsNext, NEW w \in Watcher, w \in subscriptions', w \notin Resubscribed',
         w \in subscriptions, w \notin Resubscribed,
         NEW s \in Sub, state[w] = s, Watches(s)
  PROVE  Watches(s)'
<1>0. /\ BaseInv /\ FaultsAreTold /\ s # NoSub /\ ~sub[s].stopRequested
      /\ w \notin pending /\ w \notin pending'
  BY Types DEF WatchInv, Watches, Resubscribed
<1>1. s \in Created /\ sub[s].owner = w
  BY <1>0 DEF BaseInv, SubsExist
<1>2. StopOK(s) /\ StartOK(s)
  BY <1>0, <1>1, LivesFacts
<1>3. ~Starts(s) /\ ~Waits("stop", s) /\ sub[s].running
  BY <1>0, <1>1, <1>2 DEF StopOK, StartOK
<1>4. ASSUME NEW v \in Watcher, s = state[v] PROVE v = w
  BY <1>0, <1>4, OwnersDiffer
<1>5. CASE LoopStep
  <2>1. CASE CompleteOverflow(s) \/ CompleteError(s)
    BY <1>0, <2>1, CompleteFaultTouches DEF Watches
  <2>2. CASE CompleteEvents(s) \/ CompleteParameter(s)
    BY <1>0, <2>2, CompleteReadTouches DEF Watches
  <2>3. ~CompleteStop(s)
    BY <1>3 DEF CompleteStop
  <2>4. ~(RunStop /\ s = First)
    BY <1>0, <1>3, RunStopTouches
  <2>5. ~(RunStart /\ s = First)
    BY <1>0, <1>3, RunStartTouches DEF Starts
  <2>6. ~((ReadTree \/ ReadTreeFails) /\ s = current)
    BY <1>3 DEF Starts, Reading, ReadTree, ReadTreeFails
  <2>7. ~(StopOverflowed /\ s = current)
    BY <1>0, <1>1 DEF StopOverflowed, FaultsAreTold, Resubscribed
  <2>8. ~(UnwatchFailed /\ s = state[sub[current].owner])
    <3>1. UnwatchFailed => sub[current].owner \in Watcher
      BY <1>0, Types DEF UnwatchFailed
    <3> QED
      BY <1>4, <3>1 DEF UnwatchFailed
  <2>9. CASE sub'[s] = sub[s]
    <3>1. CASE sub[s].pollPending
      BY <1>0, <2>9, <3>1 DEF Watches
    <3>2. CASE ~sub[s].pollPending
      <4>1. current = s /\ loop \in {"overflow", "error"}
        BY <3>2 DEF Watches
      <4>2. ~InvalidateCurrent
        BY <1>1, <4>1 DEF InvalidateCurrent, Resubscribed
      <4>3. ~UnwatchFailed
        BY <1>1, <4>1 DEF UnwatchFailed
      <4>4. ~NothingFailed
        BY <1>1, <4>1 DEF NothingFailed
      <4>5. ASSUME NEW r \in Sub,
                   \/ CompleteStop(r) \/ CompleteEvents(r) \/ CompleteParameter(r)
                   \/ CompleteOverflow(r) \/ CompleteError(r)
            PROVE  FALSE
        BY <4>1, <4>5 DEF CompleteStop, CompleteEvents, CompleteParameter,
                          CompleteOverflow, CompleteError, FaultOf, Completing, Take
      <4> QED
        BY <1>5, <4>1, <4>2, <4>3, <4>4, <4>5
          DEF LoopStep, Sleep, RunNoop, RunStop, RunStart, ReadTree, ReadTreeFails, Take,
              StopOverflowed, UnrefFailed, DetachFailed
    <3> QED
      BY <3>1, <3>2
  <2> QED
    BY <1>0, <1>1, <1>5, <2>1, <2>2, <2>3, <2>4, <2>5, <2>6, <2>7, <2>8, <2>9, TouchedByLoop
<1>6. CASE ~LoopStep
  <2>1. loop' = loop /\ current' = current
    BY <1>0, <1>6, LoopIsItsOwn
  <2>2. ASSUME NEW t \in Thread, StartFailed(t) PROVE s # mine[t]
    <3>1. on[t] \in pending /\ state[on[t]] = mine[t] /\ on[t] \in Watcher
      BY <1>0, <2>2, Types DEF StartFailed, BaseInv, StartersAreAlone, Starter
    <3> QED
      BY <1>0, <1>4, <3>1
  <2>3. ASSUME NEW t \in Thread, Unwatch(t) PROVE s # state[on[t]]
    <3>1. on[t] \in Watcher
      BY <1>0, Types
    <3> QED
      BY <1>4, <2>3, <3>1 DEF Unwatch
  <2>4. sub'[s] = sub[s]
    BY <1>0, <1>1, <1>6, <2>2, <2>3, TouchedByCall
  <2> QED
    BY <2>1, <2>4 DEF Watches
<1> QED
  BY <1>5, <1>6

LEMMA StatesStep ==
  ASSUME WatchInv, WindowsNext
  PROVE  StatesWatch'
<1>0. BaseInv /\ BaseInv'
  BY BaseStep DEF WatchInv
<1> SUFFICES ASSUME NEW w, w \in subscriptions', w \notin Resubscribed'
             PROVE  Watched(w)'
  BY DEF StatesWatch
<1>1. w \in Watcher
  BY <1>0 DEF BaseInv, WindowsTypeOK
<1>2. CASE \A t \in Thread : Started(t) => on[t] # w
  <2>1. w \in subscriptions /\ w \notin Resubscribed
    BY <1>1, <1>2, WasWatched
  <2>2. PICK s \in Sub : state[w] = s /\ Watches(s)
    BY <2>1 DEF WatchInv, StatesWatch, Watched
  <2>3. state'[w] = s
    BY <1>1, <2>1, <2>2, WatchedKeepsState DEF Watches
  <2>4. Watches(s)'
    BY <1>1, <2>1, <2>2, WatchedWatches
  <2> QED
    BY <2>3, <2>4 DEF Watched
<1>3. ASSUME NEW t \in Thread, Started(t), on[t] = w PROVE Watched(w)'
  <2>1. PICK s : s = mine[t]
    OBVIOUS
  <2>2. /\ where[t] = "starting" /\ sub[s].start = "started" /\ s \in Created /\ s \in Sub
        /\ state[w] = s
    BY <1>0, <1>3, <2>1, Types DEF Started, BaseInv, StartersAreAlone, Starter, SubsExist
  <2>3. /\ state' = state /\ sub' = sub /\ needsResubscribe' = needsResubscribe
    BY <1>3 DEF Started, subVars
  <2>4. w \notin needsResubscribe
    BY <2>3 DEF Resubscribed
  <2>5. ~sub[s].stopRequested /\ sub[s].pollPending
    BY <1>3, <2>1, <2>2, <2>4 DEF WatchInv, StartIsTold
  <2>6. Watches(s)'
    BY <2>3, <2>5 DEF Watches
  <2> QED
    BY <2>2, <2>3, <2>6 DEF Watched
<1> QED
  BY <1>2, <1>3

LEMMA WatchStep ==
  ASSUME ~FaultsWhilePending, WatchInv, [WindowsNext]_windowsVars
  PROVE  WatchInv'
<1>0. BaseInv'
  BY BaseStep DEF WatchInv
<1>1. CASE UNCHANGED windowsVars
  <2> USE DEF windowsVars, backendVars, subVars, loopVars, callerVars, boundVars
  <2>1. FaultsAreTold' /\ LossIsRemembered'
    BY <1>1 DEF WatchInv, FaultsAreTold, LossIsRemembered
  <2>2. StatesWatch'
    <3>1. \A s : Watches(s)' <=> Watches(s)
      BY <1>1 DEF Watches
    <3>2. \A w : Watched(w)' <=> Watched(w)
      BY <1>1, <3>1 DEF Watched
    <3> QED
      BY <1>1, <3>2 DEF WatchInv, StatesWatch, Resubscribed
  <2>3. ASSUME NEW t \in Thread PROVE StartIsTold(t)' /\ DetachStops(t)'
    BY <1>1 DEF WatchInv, StartIsTold, DetachStops
  <2> QED
    BY <1>0, <2>1, <2>2, <2>3 DEF WatchInv
<1>2. CASE WindowsNext
  BY <1>0, <1>2, FaultsStep, StatesStep, ToldStep, LossStep, DetachStep DEF WatchInv
<1> QED
  BY <1>1, <1>2

(* A subscribed watcher is watched: unless a subscribe rebuilds it, or will,*)
(* its state is a Subscription of its own that nobody has stopped, with a   *)
(* read in flight or its end about to be handled, however early a lost      *)
(* subscription is rebuilt.  It needs that no read fails while its watcher  *)
(* is pending: Backend does not remember such a loss.                       *)
THEOREM WatchersAreWatched ==
  ASSUME ~FaultsWhilePending PROVE WindowsSpec => []SubscribedIsWatched
<1>1. WindowsInit => WatchInv
  <2> SUFFICES ASSUME WindowsInit PROVE WatchInv
    OBVIOUS
  <2>1. FaultsAreTold /\ StatesWatch /\ LossIsRemembered
    BY DEF WindowsInit, FaultsAreTold, Faulty, StatesWatch, LossIsRemembered, Starter
  <2>2. ASSUME NEW t \in Thread PROVE StartIsTold(t) /\ DetachStops(t)
    BY DEF WindowsInit, StartIsTold, DetachStops
  <2> QED
    BY <2>1, <2>2, InitBase DEF WatchInv
<1>2. WatchInv /\ [WindowsNext]_windowsVars => WatchInv'
  BY WatchStep
<1>3. WatchInv => SubscribedIsWatched
  <2> SUFFICES ASSUME WatchInv,
                      NEW w \in subscriptions \ (pending \cup invalid \cup needsResubscribe)
               PROVE  \E s \in Sub :
                        /\ state[w] = s /\ sub[s].owner = w
                        /\ sub[s].running /\ ~sub[s].stopRequested
                        /\ io[s] # "none" \/ Queued(s) \/ current = s
    BY DEF SubscribedIsWatched
  <2>1. BaseInv /\ w \in Watcher
    BY DEF WatchInv, BaseInv, WindowsTypeOK
  <2>2. PICK s \in Sub : state[w] = s /\ Watches(s)
    BY DEF WatchInv, StatesWatch, Watched, Resubscribed
  <2>3. s \in Created /\ sub[s].owner = w
    BY <2>1, <2>2, Types DEF BaseInv, SubsExist
  <2>4. ReadOK(s) /\ StopOK(s) /\ "done" \in Kind
    BY <2>1, <2>3, LivesFacts
  <2>5. Waits("done", s) => Queued(s)
    BY <2>4, CallIs DEF Waits, Queued
  <2> QED
    BY <2>2, <2>3, <2>4, <2>5 DEF Watches, ReadOK, StopOK
<1> QED
  BY <1>1, <1>2, <1>3, PTL DEF WindowsSpec
=============================================================================
