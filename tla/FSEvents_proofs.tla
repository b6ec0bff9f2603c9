--------------------------- MODULE FSEvents_proofs ---------------------------
(* Proofs about the macOS backend.  About FSEvents, for any watchers,       *)
(* callers and bounds: the released stream is quiet (QuietInv), a stream is *)
(* stopped once unless a start comes while one retires (OnceInv), and       *)
(* events keep their order (OrderInv).  About IdentityIndex and             *)
(* FSEventsIndex: the two maps of an index agree.                           *)
EXTENDS FSEvents, FSEventsIndex, SequenceTheorems, WellFoundedInduction, TLAPS

(* Where a caller holds mMutex, for the stream it starts *)
Locked == {"scan", "flush", "flushed", "handoff"}

LockIsHeld ==
  \A t \in Thread : /\ where[t] \in Locked <=> mutex = t
                    /\ where[t] \in Locked => mine[t] \in 1..lastSub

(* The blocks are of streams there are, and what a callback does to a       *)
(* stream's index it does after the stream's start has ended.               *)
BlocksAreOfStreams ==
  /\ \A i \in DOMAIN queue : queue[i].sub \in 1..lastSub
  /\ at # "idle" => /\ block.kind = "callback" /\ block.sub \in 1..lastSub
                    /\ ~sub[block.sub].initializing

UncreatedIsNew ==
  \A s \in Sub : s > lastSub =>
    /\ sub[s] = NewSub(NoWatcher)
    /\ unseen[s] = <<>> /\ buffer[s] = <<>> /\ processed[s] = <<>> /\ happened[s] = <<>>

CreatedHaveOwners == \A s \in 1..lastSub : sub[s].owner \in Watcher

(* FSEventStreamStop leaves nothing in the kernel ... *)
StoppedIsSilent == \A s \in Sub : ~sub[s].running => unseen[s] = <<>>

CleanedHasStopped == \A s \in Sub : sub[s].cleaned => ~sub[s].running

(* ... so that no callback of the stream is queued behind the empty block.  *)
BarrierIsLast ==
  \A i \in DOMAIN queue : queue[i].kind = "barrier" =>
    /\ ~sub[queue[i].sub].running
    /\ \A j \in DOMAIN queue : i < j => ~IsCallback(queue[j], queue[i].sub)

QuietInv ==
  /\ FSEventsTypeOK
  /\ LockIsHeld
  /\ BlocksAreOfStreams
  /\ UncreatedIsNew
  /\ CreatedHaveOwners
  /\ StoppedIsSilent
  /\ CleanedHasStopped
  /\ BarrierIsLast
  /\ CleanedIsQuiet

----------------------------------------------------------------------------
LEMMA NewStream ==
  ASSUME NEW w \in Watcher \cup {NoWatcher}
  PROVE  NewSub(w) \in StreamRecord
  BY DEF NewSub, StreamRecord

(* Who takes a stream has to stop it, once. *)
LEMMA TakenStream ==
  ASSUME NEW r \in StreamRecord
  PROVE  /\ Taken(r) \in StreamRecord
         /\ Taken(r).owner = r.owner /\ Taken(r).running = r.running
         /\ Taken(r).initializing = r.initializing /\ Taken(r).cleaned = r.cleaned
         /\ ~Taken(r).live
         /\ r.live => Taken(r).stops = r.stops + 1 /\ Taken(r).stop = "asked"
         /\ ~r.live => Taken(r) = r
<1>1. CASE r.live
  <2>1. Taken(r) = [r EXCEPT !.live = FALSE, !.stops = @ + 1, !.stop = "asked"]
    BY <1>1 DEF Taken
  <2>2. /\ r.stops \in Nat /\ r.stops + 1 \in Nat
        /\ DOMAIN r = {"owner", "live", "running", "initializing", "stops", "stop",
                       "cleaned"}
    BY DEF StreamRecord
  <2>3. Taken(r) \in StreamRecord
    BY <2>1, <2>2 DEF StreamRecord
  <2> QED
    BY <1>1, <2>1, <2>2, <2>3
<1>2. CASE ~r.live
  BY <1>2 DEF Taken, StreamRecord
<1> QED
  BY <1>1, <1>2

LEMMA StoppedStreams ==
  ASSUME sub \in [Sub -> StreamRecord], NEW s \in Sub \cup {NoSub}
  PROVE  /\ Stopped(s) \in [Sub -> StreamRecord]
         /\ \A r \in Sub : Stopped(s)[r] = IF r = s THEN Taken(sub[r]) ELSE sub[r]
<1>1. CASE s = NoSub
  BY <1>1, NoneAssumption DEF Stopped, Sub
<1>2. CASE s # NoSub
  <2>1. Taken(sub[s]) \in StreamRecord
    BY <1>2, TakenStream
  <2> QED
    BY <1>2, <2>1 DEF Stopped
<1> QED
  BY <1>1, <1>2

(* What a step does to the streams there are: their members change one way. *)
OneWay(old, new) ==
  /\ new \in StreamRecord
  /\ new.owner = old.owner
  /\ new.live => old.live
  /\ new.running => old.running
  /\ new.initializing => old.initializing
  /\ old.cleaned => new.cleaned

StreamsMove ==
  /\ lastSub' \in 0..MaxSubs /\ lastSub <= lastSub'
  /\ sub' \in [Sub -> StreamRecord]
  /\ \A s \in 1..lastSub : OneWay(sub[s], sub'[s])
  /\ \A s \in Sub : s > lastSub' => sub'[s] = sub[s]

LEMMA TakenIsOneWay ==
  ASSUME NEW r \in StreamRecord
  PROVE  OneWay(r, Taken(r)) /\ OneWay(r, r)
  BY TakenStream DEF OneWay

(* A step that changes one stream there is, one way *)
LEMMA OneMoves ==
  ASSUME QuietInv, NEW s \in 1..lastSub, NEW r, OneWay(sub[s], r),
         sub' = [sub EXCEPT ![s] = r], lastSub' = lastSub
  PROVE  StreamsMove /\ sub'[s] = r /\ \A q \in Sub \ {s} : sub'[q] = sub[q]
<1>1. /\ sub \in [Sub -> StreamRecord] /\ lastSub \in 0..MaxSubs
      /\ MaxSubs \in Nat /\ s \in Sub /\ 1..lastSub \subseteq Sub
  BY BoundsAssumption DEF QuietInv, FSEventsTypeOK, Sub
<1>2. r \in StreamRecord
  BY DEF OneWay
<1>3. /\ sub' \in [Sub -> StreamRecord]
      /\ sub'[s] = r /\ \A q \in Sub \ {s} : sub'[q] = sub[q]
  BY <1>1, <1>2
<1>4. \A q \in 1..lastSub : OneWay(sub[q], sub'[q])
  BY <1>1, <1>3, TakenIsOneWay
<1> QED
  BY <1>1, <1>3, <1>4 DEF StreamsMove

LEMMA NoneMoves ==
  ASSUME QuietInv, sub' = sub, lastSub' = lastSub
  PROVE  StreamsMove
<1>1. /\ sub \in [Sub -> StreamRecord] /\ lastSub \in 0..MaxSubs
      /\ MaxSubs \in Nat /\ 1..lastSub \subseteq Sub
  BY BoundsAssumption DEF QuietInv, FSEventsTypeOK, Sub
<1> QED
  BY <1>1, TakenIsOneWay DEF StreamsMove

LEMMA StoppedMoves ==
  ASSUME QuietInv, NEW s \in Sub \cup {NoSub}, sub' = Stopped(s), lastSub' = lastSub
  PROVE  StreamsMove
<1>1. /\ sub \in [Sub -> StreamRecord] /\ lastSub \in 0..MaxSubs
      /\ MaxSubs \in Nat /\ 1..lastSub \subseteq Sub
  BY BoundsAssumption DEF QuietInv, FSEventsTypeOK, Sub
<1>2. /\ sub' \in [Sub -> StreamRecord]
      /\ \A r \in Sub : sub'[r] = IF r = s THEN Taken(sub[r]) ELSE sub[r]
  BY <1>1, StoppedStreams
<1>3. \A r \in 1..lastSub : OneWay(sub[r], sub'[r])
  BY <1>1, <1>2, TakenIsOneWay
<1>4. ASSUME NEW r \in Sub, r > lastSub PROVE sub'[r] = sub[r]
  <2>1. ~sub[r].live /\ sub[r] \in StreamRecord
    BY <1>1, <1>4 DEF QuietInv, UncreatedIsNew, NewSub
  <2> QED
    BY <1>2, <2>1, TakenStream
<1> QED
  BY <1>1, <1>2, <1>3, <1>4 DEF StreamsMove

LEMMA OneWayTwice ==
  ASSUME NEW r, NEW q, NEW p, OneWay(r, q), OneWay(q, p)
  PROVE  OneWay(r, p)
  BY DEF OneWay

LEMMA StreamsStep == QuietInv /\ [FSEventsNext]_fseventsVars => StreamsMove
<1> SUFFICES ASSUME QuietInv, [FSEventsNext]_fseventsVars PROVE StreamsMove
  OBVIOUS
<1> USE DEF backendVars, eventVars, queueVars, callerVars, boundVars
<1>0. /\ sub \in [Sub -> StreamRecord] /\ lastSub \in 0..MaxSubs /\ MaxSubs \in Nat
      /\ 1..lastSub \subseteq Sub
      /\ state \in [Watcher -> Sub \cup {NoSub}] /\ mine \in [Thread -> Sub \cup {NoSub}]
      /\ on \in [Thread -> Watcher] /\ queue \in Seq(BlockRecord)
  BY BoundsAssumption DEF QuietInv, FSEventsTypeOK, Sub
<1>1. ASSUME NEW t \in Thread, NEW w \in Watcher, CallWatch(t, w) \/ CallUnwatch(t, w)
      PROVE  StreamsMove
  BY <1>1, NoneMoves DEF CallWatch, CallUnwatch
<1>2. ASSUME NEW w \in Watcher, Cancel(w) PROVE StreamsMove
  BY <1>2, NoneMoves DEF Cancel
<1>3. ASSUME NEW w \in Watcher, NEW root \in BOOLEAN, Change(w, root) PROVE StreamsMove
  BY <1>3, NoneMoves DEF Change
<1>4. ASSUME NEW s \in Sub, Deliver(s) PROVE StreamsMove
  BY <1>4, NoneMoves DEF Deliver
<1>5. ASSUME NEW s \in Sub, StopStream(s) PROVE StreamsMove
  <2>1. s \in 1..lastSub
    <3>1. s > lastSub => sub[s].stop = "none"
      BY DEF QuietInv, UncreatedIsNew, NewSub
    <3> QED
      BY <1>0, <1>5, <3>1 DEF StopStream, Sub
  <2> DEFINE new == [sub[s] EXCEPT !.stop = "barrier", !.running = FALSE]
  <2>2. sub' = [sub EXCEPT ![s] = new] /\ lastSub' = lastSub
    BY <1>0, <1>5 DEF StopStream
  <2>3. OneWay(sub[s], new)
    <3>1. sub[s] \in StreamRecord
      BY <1>0
    <3> QED
      BY <3>1 DEF OneWay, StreamRecord
  <2> HIDE DEF new
  <2> QED
    BY <2>1, <2>2, <2>3, OneMoves
<1>6. ASSUME NEW t \in Thread,
             \/ NothingToWatch(t) \/ StartFails(t) \/ Scan(t) \/ Finish(t)
             \/ NothingToUnwatch(t) \/ FinishUnsubscribe(t) \/ HandOff(t)
      PROVE  StreamsMove
  BY <1>6, NoneMoves DEF NothingToWatch, StartFails, Scan, Finish, NothingToUnwatch,
    FinishUnsubscribe, HandOff
<1>7. ASSUME NEW t \in Thread, StartStream(t) PROVE StreamsMove
  <2> DEFINE new == [NewSub(on[t]) EXCEPT !.live = TRUE, !.running = TRUE]
  <2>1. /\ lastSub' = lastSub + 1 /\ lastSub' \in Sub
        /\ sub' = [sub EXCEPT ![lastSub'] = new]
    BY <1>7 DEF StartStream
  <2>2. new \in StreamRecord
    BY <1>0 DEF NewSub, StreamRecord
  <2> HIDE DEF new
  <2>3. /\ sub' \in [Sub -> StreamRecord]
        /\ \A s \in Sub \ {lastSub'} : sub'[s] = sub[s]
    BY <1>0, <2>1, <2>2
  <2>4. \A s \in 1..lastSub : OneWay(sub[s], sub'[s])
    BY <1>0, <2>1, <2>3, TakenIsOneWay
  <2> QED
    BY <1>0, <2>1, <2>3, <2>4 DEF StreamsMove, Sub
<1>8. ASSUME NEW t \in Thread, ScanFails(t) \/ ScanCancelled(t) PROVE StreamsMove
  <2>1. sub' = Stopped(mine[t]) /\ lastSub' = lastSub /\ mine[t] \in Sub \cup {NoSub}
    BY <1>0, <1>8 DEF ScanFails, ScanCancelled
  <2> QED
    BY <2>1, StoppedMoves
<1>9. ASSUME NEW t \in Thread, Unwatch(t) PROVE StreamsMove
  <2>1. /\ sub' = Stopped(state[on[t]]) /\ lastSub' = lastSub
        /\ state[on[t]] \in Sub \cup {NoSub}
    BY <1>0, <1>9 DEF Unwatch
  <2> QED
    BY <2>1, StoppedMoves
<1>10. CASE CallbackLeaves \/ CallbackEnters \/ ProcessThrows
  BY <1>10, NoneMoves DEF CallbackLeaves, CallbackEnters, ProcessThrows
<1>11. CASE Process \/ Retire
  <2>1. block.sub \in 1..lastSub /\ block.sub \in Sub
    BY <1>0, <1>11 DEF Process, Retire, QuietInv, BlocksAreOfStreams
  <2> DEFINE taken == [sub[block.sub] EXCEPT !.live = FALSE]
             asked == [sub[block.sub] EXCEPT !.stops = @ + 1, !.stop = "asked"]
  <2>2. /\ lastSub' = lastSub
        /\ \/ sub' = sub
           \/ sub' = [sub EXCEPT ![block.sub] = taken]
           \/ sub' = [sub EXCEPT ![block.sub] = asked]
    BY <1>0, <1>11, <2>1 DEF Process, Retire
  <2>3. sub[block.sub] \in StreamRecord /\ sub[block.sub].stops + 1 \in Nat
    BY <1>0, <2>1 DEF StreamRecord
  <2>4. OneWay(sub[block.sub], taken)
    BY <2>3 DEF OneWay, StreamRecord
  <2>5. OneWay(sub[block.sub], asked)
    BY <2>3 DEF OneWay, StreamRecord
  <2> HIDE DEF taken, asked
  <2> QED
    BY <2>1, <2>2, <2>4, <2>5, NoneMoves, OneMoves
<1>12. CASE HandleError
  <2>1. /\ lastSub' = lastSub /\ sub' \in [Sub -> StreamRecord]
        /\ \A s \in Sub : sub'[s] = sub[s] \/ sub'[s] = Taken(sub[s])
    BY <1>0, <1>12, TakenStream DEF HandleError
  <2>2. \A s \in 1..lastSub : OneWay(sub[s], sub'[s])
    BY <1>0, <2>1, TakenIsOneWay
  <2>3. ASSUME NEW s \in Sub, s > lastSub PROVE sub'[s] = sub[s]
    <3>1. ~sub[s].live /\ sub[s] \in StreamRecord
      BY <1>0, <2>3 DEF QuietInv, UncreatedIsNew, NewSub
    <3> QED
      BY <2>1, <3>1, TakenStream
  <2> QED
    BY <1>0, <2>1, <2>2, <2>3 DEF StreamsMove
<1>13. CASE BarrierEnds
  <2>1. /\ queue # <<>> /\ First = queue[1] /\ 1 \in DOMAIN queue
        /\ lastSub' = lastSub
        /\ sub' = [sub EXCEPT ![First.sub].stop = "done", ![First.sub].cleaned = TRUE]
    BY <1>0, <1>13 DEF BarrierEnds, Begins, First
  <2>2. First.sub \in 1..lastSub /\ First.sub \in Sub
    BY <1>0, <2>1 DEF QuietInv, BlocksAreOfStreams
  <2> DEFINE done == [sub[First.sub] EXCEPT !.stop = "done", !.cleaned = TRUE]
  <2>3. sub' = [sub EXCEPT ![First.sub] = done]
    BY <1>0, <2>1, <2>2
  <2>4. OneWay(sub[First.sub], done)
    <3>1. sub[First.sub] \in StreamRecord
      BY <1>0, <2>2
    <3> QED
      BY <3>1 DEF OneWay, StreamRecord
  <2> HIDE DEF done
  <2> QED
    BY <2>1, <2>2, <2>3, <2>4, OneMoves
<1>14. ASSUME NEW t \in Thread, FlushEnds(t) PROVE StreamsMove
  BY <1>14, NoneMoves DEF FlushEnds
<1>15. ASSUME NEW t \in Thread, HandedOff(t) PROVE StreamsMove
  <2> DEFINE begun == [sub[First.sub] EXCEPT !.initializing = FALSE]
  <2>1. /\ queue # <<>> /\ First = queue[1] /\ 1 \in DOMAIN queue
        /\ lastSub' = lastSub
    BY <1>0, <1>15 DEF HandedOff, Begins, First
  <2>2. First.sub \in 1..lastSub /\ First.sub \in Sub
    BY <1>0, <2>1 DEF QuietInv, BlocksAreOfStreams
  <2>3. \/ sub' = sub
        \/ sub' = [sub EXCEPT ![First.sub] = begun]
        \/ sub' = [sub EXCEPT ![First.sub] = Taken(begun)]
    BY <1>15 DEF HandedOff
  <2>4. OneWay(sub[First.sub], begun)
    <3>1. sub[First.sub] \in StreamRecord
      BY <1>0, <2>2
    <3> QED
      BY <3>1 DEF OneWay, StreamRecord
  <2>5. begun \in StreamRecord
    BY <2>4 DEF OneWay
  <2> HIDE DEF begun
  <2>6. OneWay(sub[First.sub], Taken(begun))
    BY <2>4, <2>5, TakenIsOneWay, OneWayTwice
  <2> QED
    BY <2>1, <2>2, <2>3, <2>4, <2>6, NoneMoves, OneMoves
<1>16. CASE UNCHANGED fseventsVars
  BY <1>16, NoneMoves DEF fseventsVars
<1>17. ASSUME NEW t \in Thread, CallerStep(t) \/ HandOff(t) PROVE StreamsMove
  BY <1>6, <1>7, <1>8, <1>9, <1>17 DEF CallerStep
<1>18. CASE QueueStep
  BY <1>10, <1>11, <1>12, <1>13, <1>14, <1>15, <1>18 DEF QueueStep
<1> QED
  BY <1>1, <1>2, <1>3, <1>4, <1>5, <1>16, <1>17, <1>18 DEF FSEventsNext

----------------------------------------------------------------------------
(* What a step does to mQueue: the first block leaves it, or blocks come    *)
(* behind it.  A callback has something to deliver; the empty block of a    *)
(* stream that is stopped comes alone.                                      *)
MayCome(b) ==
  /\ b \in BlockRecord /\ b.sub \in 1..lastSub
  /\ b.kind = "callback" => unseen[b.sub] # <<>>
  /\ b.kind = "barrier" => ~sub'[b.sub].running

BlocksMove ==
  \/ queue # <<>> /\ queue' = Tail(queue)
  \/ queue' = queue
  \/ \E b : MayCome(b) /\ queue' = Append(queue, b)
  \/ \E b, c : /\ MayCome(b) /\ MayCome(c) /\ c.kind # "barrier" /\ b.kind # "barrier"
               /\ queue' = Append(Append(queue, c), b)

LEMMA BlockIs ==
  ASSUME NEW kind \in {"callback", "flush", "handoff", "barrier"}, NEW s \in Sub,
         NEW events \in Seq(Int)
  PROVE  /\ Block(kind, s, events) \in BlockRecord
         /\ Block(kind, s, events).kind = kind /\ Block(kind, s, events).sub = s
         /\ Block(kind, s, events).events = events
  BY DEF Block, BlockRecord

LEMMA EmptyBlockIs ==
  ASSUME NEW kind \in {"callback", "flush", "handoff", "barrier"}, NEW s \in Sub
  PROVE  /\ Block(kind, s, <<>>) \in BlockRecord
         /\ Block(kind, s, <<>>).kind = kind /\ Block(kind, s, <<>>).sub = s
<1>1. <<>> \in Seq(Int)
  OBVIOUS
<1> QED
  BY <1>1 DEF Block, BlockRecord

LEMMA BlocksStep == QuietInv /\ [FSEventsNext]_fseventsVars => BlocksMove
<1> SUFFICES ASSUME QuietInv, [FSEventsNext]_fseventsVars PROVE BlocksMove
  OBVIOUS
<1> USE DEF backendVars, eventVars, queueVars, callerVars, boundVars
<1>0. /\ sub \in [Sub -> StreamRecord] /\ lastSub \in 0..MaxSubs /\ MaxSubs \in Nat
      /\ 1..lastSub \subseteq Sub /\ queue \in Seq(BlockRecord)
      /\ unseen \in [Sub -> Seq(Int)]
  BY BoundsAssumption DEF QuietInv, FSEventsTypeOK, Sub
<1>1. ASSUME NEW s \in Sub
      PROVE  s \in 1..lastSub \/ (unseen[s] = <<>> /\ sub[s].stop = "none")
  <2>1. s > lastSub => unseen[s] = <<>> /\ sub[s].stop = "none"
    BY DEF QuietInv, UncreatedIsNew, NewSub
  <2> QED
    BY <1>0, <2>1 DEF Sub
<1>2. ASSUME NEW s \in Sub, Deliver(s) PROVE BlocksMove
  <2> DEFINE b == Block("callback", s, unseen[s])
  <2>1. s \in 1..lastSub /\ unseen[s] # <<>> /\ queue' = Append(queue, b)
    BY <1>1, <1>2 DEF Deliver
  <2>2. unseen[s] \in Seq(Int)
    BY <1>0
  <2>3. MayCome(b)
    BY <2>1, <2>2, BlockIs DEF MayCome
  <2> QED
    BY <2>1, <2>3 DEF BlocksMove
<1>3. ASSUME NEW s \in Sub, StopStream(s) PROVE BlocksMove
  <2> DEFINE b == Block("barrier", s, <<>>)
  <2>1. s \in 1..lastSub /\ queue' = Append(queue, b)
    BY <1>1, <1>3 DEF StopStream
  <2>2. ~sub'[s].running
    BY <1>0, <1>3 DEF StopStream, StreamRecord
  <2>3. MayCome(b)
    BY <2>1, <2>2, EmptyBlockIs DEF MayCome
  <2> QED
    BY <2>1, <2>3 DEF BlocksMove
<1>4. ASSUME NEW t \in Thread, Scan(t) PROVE BlocksMove
  <2> DEFINE s == mine[t]
             c == Block("callback", s, unseen[s])
             b == Block("flush", s, <<>>)
  <2>1. s \in 1..lastSub /\ s \in Sub
    BY <1>0, <1>4 DEF Scan, QuietInv, LockIsHeld, Locked
  <2>2. queue' = (IF unseen[s] = <<>> THEN queue ELSE Append(queue, c)) \o <<b>>
    BY <1>4 DEF Scan, Flushed
  <2>3. unseen[s] \in Seq(Int)
    BY <1>0, <2>1
  <2>4. b \in BlockRecord /\ b.kind = "flush" /\ b.sub = s
    BY <2>1, EmptyBlockIs
  <2>5. c \in BlockRecord /\ c.kind = "callback" /\ c.sub = s
    BY <2>1, <2>3, BlockIs
  <2>6. MayCome(b) /\ (unseen[s] # <<>> => MayCome(c))
    BY <2>1, <2>4, <2>5 DEF MayCome
  <2> HIDE DEF b, c, s
  <2>7. \/ unseen[s] = <<>> /\ queue' = Append(queue, b)
        \/ unseen[s] # <<>> /\ queue' = Append(Append(queue, c), b)
    <3>1. CASE unseen[s] = <<>>
      BY <1>0, <2>2, <2>4, <3>1, AppendIsConcat
    <3>2. CASE unseen[s] # <<>>
      BY <1>0, <2>2, <2>4, <2>5, <3>2, AppendIsConcat
    <3> QED
      BY <3>1, <3>2
  <2> QED
    BY <2>4, <2>5, <2>6, <2>7 DEF BlocksMove
<1>5. ASSUME NEW t \in Thread, HandOff(t) PROVE BlocksMove
  <2> DEFINE b == Block("handoff", mine[t], <<>>)
  <2>1. mine[t] \in 1..lastSub /\ mine[t] \in Sub
    BY <1>0, <1>5 DEF HandOff, QuietInv, LockIsHeld, Locked
  <2>2. queue' = Append(queue, b)
    BY <1>5 DEF HandOff
  <2>3. MayCome(b)
    BY <2>1, EmptyBlockIs DEF MayCome
  <2> QED
    BY <2>2, <2>3 DEF BlocksMove
<1>6. ASSUME NEW t \in Thread, CallerStep(t) PROVE BlocksMove
  <2>1. Scan(t) \/ queue' = queue
    BY <1>6 DEF CallerStep, NothingToWatch, StartStream, StartFails, ScanFails,
      ScanCancelled, Finish, NothingToUnwatch, Unwatch, FinishUnsubscribe
  <2> QED
    BY <1>4, <2>1 DEF BlocksMove
<1>7. CASE QueueStep
  <2>1. queue' = queue \/ (queue # <<>> /\ queue' = Tail(queue))
    BY <1>7 DEF QueueStep, CallbackLeaves, CallbackEnters, Process, Retire, ProcessThrows,
      HandleError, BarrierEnds, FlushEnds, HandedOff, Begins
  <2> QED
    BY <2>1 DEF BlocksMove
<1>8. ASSUME NEW t \in Thread, NEW w \in Watcher, CallWatch(t, w) \/ CallUnwatch(t, w)
      PROVE  BlocksMove
  BY <1>8 DEF CallWatch, CallUnwatch, BlocksMove
<1>9. ASSUME NEW w \in Watcher, Cancel(w) PROVE BlocksMove
  BY <1>9 DEF Cancel, BlocksMove
<1>10. ASSUME NEW w \in Watcher, NEW root \in BOOLEAN, Change(w, root) PROVE BlocksMove
  BY <1>10 DEF Change, BlocksMove
<1>11. CASE UNCHANGED fseventsVars
  BY <1>11 DEF fseventsVars, BlocksMove
<1> QED
  BY <1>2, <1>3, <1>5, <1>6, <1>7, <1>8, <1>9, <1>10, <1>11 DEF FSEventsNext

LEMMA BlocksType ==
  ASSUME queue \in Seq(BlockRecord), BlocksMove
  PROVE  queue' \in Seq(BlockRecord)
<1>1. CASE queue # <<>> /\ queue' = Tail(queue)
  BY <1>1
<1>2. CASE queue' = queue
  BY <1>2
<1>3. ASSUME NEW b, MayCome(b), queue' = Append(queue, b) PROVE queue' \in Seq(BlockRecord)
  BY <1>3 DEF MayCome
<1>4. ASSUME NEW b, NEW c, MayCome(b), MayCome(c), queue' = Append(Append(queue, c), b)
      PROVE  queue' \in Seq(BlockRecord)
  BY <1>4 DEF MayCome
<1> QED
  BY <1>1, <1>2, <1>3, <1>4 DEF BlocksMove

LEMMA BlocksComeFrom ==
  ASSUME queue \in Seq(BlockRecord), BlocksMove, NEW i \in DOMAIN queue'
  PROVE  (\E j \in DOMAIN queue : queue'[i] = queue[j]) \/ MayCome(queue'[i])
<1>1. CASE queue # <<>> /\ queue' = Tail(queue)
  <2>1. i + 1 \in DOMAIN queue /\ queue'[i] = queue[i + 1]
    BY <1>1
  <2> QED
    BY <2>1
<1>2. CASE queue' = queue
  BY <1>2
<1>3. ASSUME NEW b, MayCome(b), queue' = Append(queue, b)
      PROVE  (\E j \in DOMAIN queue : queue'[i] = queue[j]) \/ MayCome(queue'[i])
  <2>1. (i \in DOMAIN queue /\ queue'[i] = queue[i]) \/ queue'[i] = b
    BY <1>3 DEF MayCome
  <2> QED
    BY <1>3, <2>1
<1>4. ASSUME NEW b, NEW c, MayCome(b), MayCome(c), queue' = Append(Append(queue, c), b)
      PROVE  (\E j \in DOMAIN queue : queue'[i] = queue[j]) \/ MayCome(queue'[i])
  <2> DEFINE q == Append(queue, c)
  <2>1. q \in Seq(BlockRecord)
    BY <1>4 DEF MayCome
  <2>2. \A j \in DOMAIN q : (j \in DOMAIN queue /\ q[j] = queue[j]) \/ q[j] = c
    <3>1. /\ DOMAIN queue = 1..Len(queue) /\ Len(queue) \in Nat
          /\ DOMAIN q = 1..Len(queue) + 1 /\ q[Len(queue) + 1] = c
          /\ \A j \in 1..Len(queue) : q[j] = queue[j]
      BY <1>4 DEF MayCome
    <3> HIDE DEF q
    <3> QED
      BY <3>1
  <2> HIDE DEF q
  <2>3. (i \in DOMAIN q /\ queue'[i] = q[i]) \/ queue'[i] = b
    BY <1>4, <2>1 DEF MayCome, q
  <2> QED
    BY <1>4, <2>2, <2>3
<1> QED
  BY <1>1, <1>2, <1>3, <1>4 DEF BlocksMove

----------------------------------------------------------------------------
LEMMA TypesStep == QuietInv /\ [FSEventsNext]_fseventsVars => FSEventsTypeOK'
<1> SUFFICES ASSUME QuietInv, [FSEventsNext]_fseventsVars PROVE FSEventsTypeOK'
  OBVIOUS
<1> USE DEF backendVars, eventVars, queueVars, callerVars, boundVars, Goto, Place
<1>0. <<>> \in Seq(Int)
  OBVIOUS
<1>1. FSEventsTypeOK
  BY DEF QuietInv
<1>2. /\ sub' \in [Sub -> StreamRecord] /\ lastSub' \in 0..MaxSubs
      /\ queue' \in Seq(BlockRecord)
  BY <1>1, StreamsStep, BlocksStep, BlocksType DEF StreamsMove, FSEventsTypeOK
<1>3. MaxSubs \in Nat /\ MaxChanges \in Nat /\ MaxFaults \in Nat /\ 1..lastSub \subseteq Sub
  BY <1>1, BoundsAssumption DEF FSEventsTypeOK, Sub
<1>4. queue # <<>> =>
        First \in BlockRecord /\ First.sub \in Sub /\ First.events \in Seq(Int)
  <2> SUFFICES ASSUME queue # <<>>
               PROVE  First \in BlockRecord /\ First.sub \in Sub /\ First.events \in Seq(Int)
    OBVIOUS
  <2>1. First \in BlockRecord
    BY <1>1 DEF First, FSEventsTypeOK
  <2> QED
    BY <2>1 DEF BlockRecord
<1>5. \A s \in Sub : sub[s].owner \in Watcher \cup {NoWatcher}
  BY <1>1 DEF FSEventsTypeOK, StreamRecord
<1>6. at # "idle" => /\ block \in BlockRecord /\ block.sub \in Sub
                    /\ block.events \in Seq(Int) /\ sub[block.sub].owner \in Watcher
  BY <1>1, <1>3 DEF QuietInv, BlocksAreOfStreams, CreatedHaveOwners, FSEventsTypeOK,
    BlockRecord
<1>7. ASSUME NEW t \in Thread, NEW w \in Watcher, CallWatch(t, w) \/ CallUnwatch(t, w)
      PROVE  FSEventsTypeOK'
  BY <1>1, <1>2, <1>7 DEF FSEventsTypeOK, CallWatch, CallUnwatch
<1>8. ASSUME NEW w \in Watcher, Cancel(w) PROVE FSEventsTypeOK'
  BY <1>1, <1>2, <1>3, <1>8 DEF FSEventsTypeOK, Cancel, Fault
<1>9. ASSUME NEW w \in Watcher, NEW root \in BOOLEAN, Change(w, root) PROVE FSEventsTypeOK'
  <2> DEFINE n == IF root THEN -(changes + 1) ELSE changes + 1
             running == {s \in Sub : sub[s].owner = w /\ sub[s].running}
  <2>1. n \in Int
    BY <1>1 DEF FSEventsTypeOK
  <2>2. /\ changes' \in 0..MaxChanges
        /\ unseen' = [s \in Sub |-> IF s \in running THEN Append(unseen[s], n)
                                    ELSE unseen[s]]
        /\ happened' = [s \in Sub |-> IF s \in running THEN Append(happened[s], n)
                                      ELSE happened[s]]
    BY <1>1, <1>3, <1>9 DEF FSEventsTypeOK, Change
  <2> HIDE DEF n, running
  <2>3. /\ \A s \in Sub : Append(unseen[s], n) \in Seq(Int) /\ unseen[s] \in Seq(Int)
        /\ \A s \in Sub : Append(happened[s], n) \in Seq(Int) /\ happened[s] \in Seq(Int)
    BY <1>1, <2>1 DEF FSEventsTypeOK
  <2>4. unseen' \in [Sub -> Seq(Int)] /\ happened' \in [Sub -> Seq(Int)]
    BY <2>2, <2>3
  <2> QED
    BY <1>1, <1>2, <1>9, <2>2, <2>4 DEF FSEventsTypeOK, Change
<1>10. ASSUME NEW s \in Sub, Deliver(s) \/ StopStream(s) PROVE FSEventsTypeOK'
  <2>1. unseen' \in [Sub -> Seq(Int)]
    BY <1>0, <1>1, <1>10 DEF FSEventsTypeOK, Deliver, StopStream
  <2> QED
    BY <1>1, <1>2, <1>10, <2>1 DEF FSEventsTypeOK, Deliver, StopStream
<1>11. ASSUME NEW t \in Thread, NothingToWatch(t) \/ NothingToUnwatch(t) \/ Finish(t)
                                \/ ScanCancelled(t) \/ Unwatch(t) \/ HandOff(t)
       PROVE  FSEventsTypeOK'
  <2>1. on[t] \in Watcher
    BY <1>1 DEF FSEventsTypeOK
  <2>2. CASE NothingToWatch(t) \/ NothingToUnwatch(t) \/ Finish(t)
    BY <1>1, <1>2, <2>1, <2>2 DEF FSEventsTypeOK, NothingToWatch, NothingToUnwatch, Finish
  <2>3. CASE ScanCancelled(t)
    BY <1>1, <1>2, <2>1, <2>3 DEF FSEventsTypeOK, ScanCancelled
  <2>4. CASE Unwatch(t)
    BY <1>1, <1>2, <2>1, <2>4 DEF FSEventsTypeOK, Unwatch
  <2>5. CASE HandOff(t)
    BY <1>1, <1>2, <2>1, <2>5 DEF FSEventsTypeOK, HandOff
  <2> QED
    BY <1>11, <2>2, <2>3, <2>4, <2>5
<1>12. ASSUME NEW t \in Thread, StartStream(t) PROVE FSEventsTypeOK'
  <2>1. on[t] \in Watcher /\ lastSub' \in Sub
    BY <1>1, <1>12 DEF FSEventsTypeOK, StartStream
  <2>2. /\ invalid' \subseteq Watcher /\ pending' \subseteq Watcher
        /\ needsResubscribe' \subseteq Watcher
        /\ state' \in [Watcher -> Sub \cup {NoSub}]
        /\ mutex' \in Thread \cup {NoThread} /\ where' \in [Thread -> Place]
    BY <1>1, <1>12, <2>1 DEF FSEventsTypeOK, StartStream, MustSubscribe
  <2>3. mine' \in [Thread -> Sub \cup {NoSub}] /\ wasInvalid' \in [Thread -> BOOLEAN]
    <3>1. mine' = [mine EXCEPT ![t] = lastSub'] /\ mine \in [Thread -> Sub \cup {NoSub}]
      BY <1>1, <1>12 DEF FSEventsTypeOK, StartStream
    <3>2. mine' \in [Thread -> Sub \cup {NoSub}]
      BY <2>1, <3>1
    <3> DEFINE isInvalid == on[t] \in subscriptions
    <3>3. /\ wasInvalid' = [wasInvalid EXCEPT ![t] = isInvalid]
          /\ wasInvalid \in [Thread -> BOOLEAN] /\ isInvalid \in BOOLEAN
      BY <1>1, <1>12 DEF FSEventsTypeOK, StartStream
    <3> HIDE DEF isInvalid
    <3>4. wasInvalid' \in [Thread -> BOOLEAN]
      BY <3>3
    <3> QED
      BY <3>2, <3>4
  <2> QED
    BY <1>1, <1>2, <1>12, <2>2, <2>3 DEF FSEventsTypeOK, StartStream
<1>13. ASSUME NEW t \in Thread, StartFails(t) \/ ScanFails(t) PROVE FSEventsTypeOK'
  <2>1. on[t] \in Watcher
    BY <1>1 DEF FSEventsTypeOK
  <2>2. CASE StartFails(t)
    BY <1>1, <1>2, <1>3, <2>1, <2>2 DEF FSEventsTypeOK, StartFails, MustSubscribe, Fault
  <2>3. CASE ScanFails(t)
    BY <1>1, <1>2, <1>3, <2>1, <2>3 DEF FSEventsTypeOK, ScanFails, Fault
  <2> QED
    BY <1>13, <2>2, <2>3
<1>14. ASSUME NEW t \in Thread, Scan(t) PROVE FSEventsTypeOK'
  <2>1. unseen' \in [Sub -> Seq(Int)]
    BY <1>0, <1>1, <1>14 DEF FSEventsTypeOK, Scan
  <2> QED
    BY <1>1, <1>2, <1>14, <2>1 DEF FSEventsTypeOK, Scan
<1>15. ASSUME NEW t \in Thread, FinishUnsubscribe(t) PROVE FSEventsTypeOK'
  BY <1>1, <1>2, <1>15 DEF FSEventsTypeOK, FinishUnsubscribe
<1>16. CASE CallbackLeaves
  <2>1. buffer' \in [Sub -> Seq(Int)]
    <3>1. First.sub \in Sub /\ First.events \in Seq(Int)
      BY <1>4, <1>16 DEF CallbackLeaves, Begins
    <3>2. buffer[First.sub] \o First.events \in Seq(Int)
      BY <1>1, <3>1 DEF FSEventsTypeOK
    <3> QED
      BY <1>1, <1>16, <3>1, <3>2 DEF FSEventsTypeOK, CallbackLeaves
  <2> QED
    BY <1>1, <1>2, <1>16, <2>1 DEF FSEventsTypeOK, CallbackLeaves, AtOnce
<1>17. CASE CallbackEnters
  BY <1>1, <1>2, <1>4, <1>17 DEF FSEventsTypeOK, CallbackEnters, Begins
<1>18. CASE Process \/ ProcessThrows
  <2>1. processed' \in [Sub -> Seq(Int)]
    <3>1. block.sub \in Sub /\ block.events \in Seq(Int)
      BY <1>6, <1>18 DEF Process, ProcessThrows
    <3>2. processed[block.sub] \o block.events \in Seq(Int)
      BY <1>1, <3>1 DEF FSEventsTypeOK
    <3> QED
      BY <1>1, <1>18, <3>1, <3>2 DEF FSEventsTypeOK, Process, ProcessThrows
  <2>2. block \in BlockRecord
    BY <1>6, <1>18 DEF Process, ProcessThrows
  <2>3. CASE Process
    BY <1>1, <1>2, <2>1, <2>2, <2>3 DEF FSEventsTypeOK, Process, EndBlock
  <2>4. CASE ProcessThrows
    BY <1>1, <1>2, <1>3, <2>1, <2>2, <2>4 DEF FSEventsTypeOK, ProcessThrows, Fault
  <2> QED
    BY <1>18, <2>3, <2>4
<1>19. CASE Retire \/ HandleError
  <2>1. CASE Retire
    BY <1>1, <1>2, <1>6, <2>1 DEF FSEventsTypeOK, Retire, EndBlock
  <2>2. CASE HandleError
    BY <1>1, <1>2, <2>2 DEF FSEventsTypeOK, HandleError, EndBlock
  <2> QED
    BY <1>19, <2>1, <2>2
<1>20. CASE BarrierEnds
  BY <1>1, <1>2, <1>20 DEF FSEventsTypeOK, BarrierEnds, AtOnce
<1>21. ASSUME NEW t \in Thread, FlushEnds(t) PROVE FSEventsTypeOK'
  BY <1>1, <1>2, <1>21 DEF FSEventsTypeOK, FlushEnds, AtOnce
<1>22. ASSUME NEW t \in Thread, HandedOff(t) PROVE FSEventsTypeOK'
  <2>1. First.sub \in Sub /\ on[t] \in Watcher
    BY <1>1, <1>4, <1>22 DEF FSEventsTypeOK, HandedOff, Begins
  <2>2. /\ processed[First.sub] \in Seq(Int) /\ buffer[First.sub] \in Seq(Int)
        /\ processed[First.sub] \o buffer[First.sub] \in Seq(Int)
    BY <1>1, <2>1 DEF FSEventsTypeOK
  <2>3. processed' \in [Sub -> Seq(Int)] /\ buffer' \in [Sub -> Seq(Int)]
    <3>1. processed \in [Sub -> Seq(Int)] /\ buffer \in [Sub -> Seq(Int)]
      BY <1>1 DEF FSEventsTypeOK
    <3>2. \/ processed' = processed /\ buffer' = buffer
          \/ /\ processed' = [processed EXCEPT ![First.sub] = @ \o buffer[First.sub]]
             /\ buffer' = [buffer EXCEPT ![First.sub] = <<>>]
      BY <1>22 DEF HandedOff, BufferHandled
    <3> QED
      BY <1>0, <2>1, <2>2, <3>1, <3>2
  <2>4. needsResubscribe' \subseteq Watcher
    BY <1>1, <1>22, <2>1 DEF FSEventsTypeOK, HandedOff
  <2>5. UNCHANGED <<subscriptions, pending, invalid, cancelled, state, failed, unseen,
                    happened, on, mine, wasInvalid, block, at, changes, faults>>
        /\ mutex' = NoThread /\ where' = [where EXCEPT ![t] = "finish"]
    BY <1>22 DEF HandedOff, AtOnce
  <2> QED
    BY <1>1, <1>2, <2>3, <2>4, <2>5 DEF FSEventsTypeOK
<1>23. CASE UNCHANGED fseventsVars
  BY <1>1, <1>2, <1>23 DEF FSEventsTypeOK, fseventsVars
<1>24. ASSUME NEW t \in Thread, CallerStep(t) \/ HandOff(t) PROVE FSEventsTypeOK'
  BY <1>11, <1>12, <1>13, <1>14, <1>15, <1>24 DEF CallerStep
<1>25. CASE QueueStep
  BY <1>16, <1>17, <1>18, <1>19, <1>20, <1>21, <1>22, <1>25 DEF QueueStep
<1> QED
  BY <1>7, <1>8, <1>9, <1>10, <1>23, <1>24, <1>25 DEF FSEventsNext

----------------------------------------------------------------------------
(* Only stopStreamAfterCallback stops a stream, only its empty block        *)
(* signals cleanupComplete, and only its start ends its initialization.     *)
LifeMoves ==
  \A s \in Sub :
    /\ sub'[s].running = sub[s].running \/ StopStream(s) \/ s = lastSub + 1
    /\ sub'[s].cleaned = sub[s].cleaned \/ (BarrierEnds /\ s = First.sub)
    /\ \/ sub'[s].initializing = sub[s].initializing
       \/ s = lastSub + 1
       \/ \E t \in Thread : HandedOff(t) /\ s = First.sub

LEMMA StoppedLife ==
  ASSUME QuietInv, NEW s \in Sub \cup {NoSub}, sub' = Stopped(s)
  PROVE  LifeMoves
<1>1. sub \in [Sub -> StreamRecord]
  BY DEF QuietInv, FSEventsTypeOK
<1>2. \A r \in Sub : sub'[r] = IF r = s THEN Taken(sub[r]) ELSE sub[r]
  BY <1>1, StoppedStreams
<1> QED
  BY <1>1, <1>2, TakenStream DEF LifeMoves

LEMMA LifeStep == QuietInv /\ [FSEventsNext]_fseventsVars => LifeMoves
<1> SUFFICES ASSUME QuietInv, [FSEventsNext]_fseventsVars PROVE LifeMoves
  OBVIOUS
<1> USE DEF backendVars, eventVars, queueVars, callerVars, boundVars
<1>0. /\ sub \in [Sub -> StreamRecord] /\ lastSub \in 0..MaxSubs /\ MaxSubs \in Nat
      /\ 1..lastSub \subseteq Sub
      /\ state \in [Watcher -> Sub \cup {NoSub}] /\ mine \in [Thread -> Sub \cup {NoSub}]
      /\ on \in [Thread -> Watcher] /\ queue \in Seq(BlockRecord)
  BY BoundsAssumption DEF QuietInv, FSEventsTypeOK, Sub
<1>1. CASE sub' = sub
  BY <1>1 DEF LifeMoves
<1>2. ASSUME NEW t \in Thread, NEW w \in Watcher, CallWatch(t, w) \/ CallUnwatch(t, w)
      PROVE  LifeMoves
  BY <1>1, <1>2 DEF CallWatch, CallUnwatch
<1>3. ASSUME NEW w \in Watcher, Cancel(w) PROVE LifeMoves
  BY <1>1, <1>3 DEF Cancel
<1>4. ASSUME NEW w \in Watcher, NEW root \in BOOLEAN, Change(w, root) PROVE LifeMoves
  BY <1>1, <1>4 DEF Change
<1>5. ASSUME NEW s \in Sub, Deliver(s) PROVE LifeMoves
  BY <1>1, <1>5 DEF Deliver
<1>6. ASSUME NEW s \in Sub, StopStream(s) PROVE LifeMoves
  <2> DEFINE new == [sub[s] EXCEPT !.stop = "barrier", !.running = FALSE]
  <2>1. sub' = [sub EXCEPT ![s] = new] /\ sub[s] \in StreamRecord
    BY <1>0, <1>6 DEF StopStream
  <2>2. new.cleaned = sub[s].cleaned /\ new.initializing = sub[s].initializing
    BY <2>1 DEF StreamRecord
  <2> HIDE DEF new
  <2> QED
    BY <1>0, <1>6, <2>1, <2>2 DEF LifeMoves
<1>7. ASSUME NEW t \in Thread, CallerStep(t) \/ HandOff(t) PROVE LifeMoves
  <2>1. CASE StartStream(t)
    <3>1. \A s \in Sub \ {lastSub + 1} : sub'[s] = sub[s]
      BY <1>0, <2>1 DEF StartStream
    <3>2. sub'[lastSub + 1].cleaned = FALSE /\ sub[lastSub + 1].cleaned = FALSE
      <4>1. lastSub + 1 \in Sub /\ lastSub + 1 > lastSub
        BY <1>0, <2>1 DEF StartStream
      <4>2. sub[lastSub + 1].cleaned = FALSE
        BY <4>1 DEF QuietInv, UncreatedIsNew, NewSub
      <4>3. sub'[lastSub + 1] = [NewSub(on[t]) EXCEPT !.live = TRUE, !.running = TRUE]
        BY <1>0, <2>1, <4>1 DEF StartStream
      <4> QED
        BY <4>2, <4>3 DEF NewSub
    <3> QED
      BY <3>1, <3>2 DEF LifeMoves
  <2>2. CASE ScanFails(t) \/ ScanCancelled(t)
    <3>1. sub' = Stopped(mine[t]) /\ mine[t] \in Sub \cup {NoSub}
      BY <1>0, <2>2 DEF ScanFails, ScanCancelled
    <3> QED
      BY <3>1, StoppedLife
  <2>3. CASE Unwatch(t)
    <3>1. sub' = Stopped(state[on[t]]) /\ state[on[t]] \in Sub \cup {NoSub}
      BY <1>0, <2>3 DEF Unwatch
    <3> QED
      BY <3>1, StoppedLife
  <2>4. CASE \/ NothingToWatch(t) \/ StartFails(t) \/ Scan(t) \/ Finish(t)
             \/ NothingToUnwatch(t) \/ FinishUnsubscribe(t) \/ HandOff(t)
    BY <1>1, <2>4 DEF NothingToWatch, StartFails, Scan, Finish, NothingToUnwatch,
      FinishUnsubscribe, HandOff
  <2> QED
    BY <1>7, <2>1, <2>2, <2>3, <2>4 DEF CallerStep
<1>8. CASE QueueStep
  <2>1. CASE CallbackLeaves \/ CallbackEnters \/ ProcessThrows
             \/ \E t \in Thread : FlushEnds(t)
    BY <1>1, <2>1 DEF CallbackLeaves, CallbackEnters, ProcessThrows, FlushEnds
  <2>2. CASE Process \/ Retire
    <3> DEFINE taken == [sub[block.sub] EXCEPT !.live = FALSE]
               asked == [sub[block.sub] EXCEPT !.stops = @ + 1, !.stop = "asked"]
    <3>1. block.sub \in Sub
      BY <1>0, <2>2 DEF Process, Retire, QuietInv, BlocksAreOfStreams
    <3>2. \/ sub' = sub
          \/ sub' = [sub EXCEPT ![block.sub] = taken]
          \/ sub' = [sub EXCEPT ![block.sub] = asked]
      BY <1>0, <2>2, <3>1 DEF Process, Retire
    <3>3. sub[block.sub] \in StreamRecord
      BY <1>0, <3>1
    <3>4. /\ taken.running = sub[block.sub].running
          /\ taken.cleaned = sub[block.sub].cleaned
          /\ taken.initializing = sub[block.sub].initializing
      BY <3>3 DEF StreamRecord
    <3>5. /\ asked.running = sub[block.sub].running
          /\ asked.cleaned = sub[block.sub].cleaned
          /\ asked.initializing = sub[block.sub].initializing
      BY <3>3 DEF StreamRecord
    <3> HIDE DEF taken, asked
    <3> QED
      BY <1>0, <3>1, <3>2, <3>4, <3>5 DEF LifeMoves
  <2>3. CASE HandleError
    <3>1. \A s \in Sub : sub'[s] = sub[s] \/ sub'[s] = Taken(sub[s])
      BY <1>0, <2>3 DEF HandleError
    <3> QED
      BY <1>0, <3>1, TakenStream DEF LifeMoves
  <2>4. CASE BarrierEnds
    <3> DEFINE done == [sub[First.sub] EXCEPT !.stop = "done", !.cleaned = TRUE]
    <3>1. queue # <<>> /\ First = queue[1] /\ 1 \in DOMAIN queue
      BY <1>0, <2>4 DEF BarrierEnds, Begins, First
    <3>2. First.sub \in Sub
      BY <1>0, <3>1 DEF QuietInv, BlocksAreOfStreams
    <3>3. sub' = [sub EXCEPT ![First.sub] = done] /\ sub[First.sub] \in StreamRecord
      BY <1>0, <2>4, <3>2 DEF BarrierEnds
    <3>4. /\ done.running = sub[First.sub].running
          /\ done.initializing = sub[First.sub].initializing
      BY <3>3 DEF StreamRecord
    <3> HIDE DEF done
    <3> QED
      BY <1>0, <2>4, <3>2, <3>3, <3>4 DEF LifeMoves
  <2>5. ASSUME NEW t \in Thread, HandedOff(t) PROVE LifeMoves
    <3> DEFINE begun == [sub[First.sub] EXCEPT !.initializing = FALSE]
    <3>1. queue # <<>> /\ First = queue[1] /\ 1 \in DOMAIN queue
      BY <1>0, <2>5 DEF HandedOff, Begins, First
    <3>2. First.sub \in Sub
      BY <1>0, <3>1 DEF QuietInv, BlocksAreOfStreams
    <3>3. \/ sub' = sub
          \/ sub' = [sub EXCEPT ![First.sub] = begun]
          \/ sub' = [sub EXCEPT ![First.sub] = Taken(begun)]
      BY <2>5 DEF HandedOff
    <3>4. sub[First.sub] \in StreamRecord
      BY <1>0, <3>2
    <3>5. /\ begun \in StreamRecord
          /\ begun.running = sub[First.sub].running
          /\ begun.cleaned = sub[First.sub].cleaned
      BY <3>4 DEF StreamRecord
    <3> HIDE DEF begun
    <3>6. /\ Taken(begun).running = sub[First.sub].running
          /\ Taken(begun).cleaned = sub[First.sub].cleaned
      BY <3>5, TakenStream
    <3>7. \A s \in Sub : /\ sub'[s].running = sub[s].running
                         /\ sub'[s].cleaned = sub[s].cleaned
                         /\ sub'[s] = sub[s] \/ s = First.sub
      BY <1>0, <3>2, <3>3, <3>5, <3>6
    <3> QED
      BY <2>5, <3>7 DEF LifeMoves
  <2> QED
    BY <1>8, <2>1, <2>2, <2>3, <2>4, <2>5 DEF QueueStep
<1>9. CASE UNCHANGED fseventsVars
  BY <1>1, <1>9 DEF fseventsVars
<1> QED
  BY <1>2, <1>3, <1>4, <1>5, <1>6, <1>7, <1>8, <1>9 DEF FSEventsNext

----------------------------------------------------------------------------
LEMMA LockStep == QuietInv /\ [FSEventsNext]_fseventsVars => LockIsHeld'
<1> SUFFICES ASSUME QuietInv, [FSEventsNext]_fseventsVars PROVE LockIsHeld'
  OBVIOUS
<1> USE DEF backendVars, eventVars, queueVars, callerVars, boundVars, Goto, Locked
<1>0. /\ LockIsHeld /\ NoThread \notin Thread
      /\ where \in [Thread -> Place] /\ mine \in [Thread -> Sub \cup {NoSub}]
      /\ lastSub \in Nat /\ lastSub' \in Nat /\ lastSub <= lastSub'
  BY StreamsStep, NoneAssumption, BoundsAssumption
    DEF QuietInv, FSEventsTypeOK, StreamsMove
<1>1. CASE UNCHANGED <<where, mutex, mine>>
  BY <1>0, <1>1 DEF LockIsHeld
<1>2. ASSUME NEW t \in Thread, NEW w \in Watcher, CallWatch(t, w) \/ CallUnwatch(t, w)
      PROVE  LockIsHeld'
  BY <1>0, <1>2 DEF CallWatch, CallUnwatch, LockIsHeld
<1>3. ASSUME NEW w \in Watcher, Cancel(w) PROVE LockIsHeld'
  BY <1>1, <1>3 DEF Cancel
<1>4. ASSUME NEW w \in Watcher, NEW root \in BOOLEAN, Change(w, root) PROVE LockIsHeld'
  BY <1>1, <1>4 DEF Change
<1>5. ASSUME NEW s \in Sub, Deliver(s) \/ StopStream(s) PROVE LockIsHeld'
  BY <1>1, <1>5 DEF Deliver, StopStream
<1>6. ASSUME NEW t \in Thread, CallerStep(t) \/ HandOff(t) PROVE LockIsHeld'
  <2>1. CASE StartStream(t)
    <3>1. /\ mutex = NoThread /\ mutex' = t /\ where' = [where EXCEPT ![t] = "scan"]
          /\ mine' = [mine EXCEPT ![t] = lastSub'] /\ lastSub' = lastSub + 1
      BY <2>1 DEF StartStream, MustSubscribe, Free
    <3> QED
      BY <1>0, <3>1 DEF LockIsHeld
  <2>2. CASE NothingToWatch(t) \/ StartFails(t) \/ NothingToUnwatch(t)
    BY <1>0, <2>2
      DEF NothingToWatch, StartFails, MustSubscribe, NothingToUnwatch, LockIsHeld
  <2>3. CASE ScanFails(t) \/ ScanCancelled(t)
    <3>1. /\ where[t] = "scan" /\ mutex' = NoThread
          /\ \E place \in {"out", "finish"} : where' = [where EXCEPT ![t] = place]
      BY <2>3 DEF ScanFails, ScanCancelled
    <3>2. \A u \in Thread \ {t} : where[u] \notin Locked
      BY <1>0, <3>1 DEF LockIsHeld
    <3>3. \A u \in Thread : where'[u] \notin Locked
      BY <1>0, <3>1, <3>2
    <3> QED
      BY <1>0, <3>1, <3>3 DEF LockIsHeld
  <2>4. CASE Scan(t) \/ HandOff(t)
    <3>1. /\ where[t] \in Locked /\ UNCHANGED <<mutex, mine, lastSub>>
          /\ \E place \in Locked : where' = [where EXCEPT ![t] = place]
      BY <2>4 DEF Scan, HandOff
    <3> QED
      BY <1>0, <3>1 DEF LockIsHeld
  <2>5. CASE Finish(t) \/ Unwatch(t) \/ FinishUnsubscribe(t)
    BY <1>0, <2>5 DEF Finish, Unwatch, FinishUnsubscribe, LockIsHeld
  <2> QED
    BY <1>6, <2>1, <2>2, <2>3, <2>4, <2>5 DEF CallerStep
<1>7. CASE QueueStep
  <2>1. CASE CallbackLeaves \/ CallbackEnters \/ Process \/ Retire \/ ProcessThrows
             \/ HandleError \/ BarrierEnds
    BY <1>1, <2>1 DEF CallbackLeaves, CallbackEnters, Process, Retire, ProcessThrows,
      HandleError, BarrierEnds
  <2>2. ASSUME NEW t \in Thread, FlushEnds(t) PROVE LockIsHeld'
    <3>1. /\ where[t] \in Locked /\ UNCHANGED <<mutex, mine, lastSub>>
          /\ where' = [where EXCEPT ![t] = "flushed"]
      BY <2>2 DEF FlushEnds
    <3> QED
      BY <1>0, <3>1 DEF LockIsHeld
  <2>3. ASSUME NEW t \in Thread, HandedOff(t) PROVE LockIsHeld'
    <3>1. /\ where[t] = "handoff" /\ mutex' = NoThread
          /\ where' = [where EXCEPT ![t] = "finish"]
      BY <2>3 DEF HandedOff
    <3>2. \A u \in Thread \ {t} : where[u] \notin Locked
      BY <1>0, <3>1 DEF LockIsHeld
    <3>3. \A u \in Thread : where'[u] \notin Locked
      BY <1>0, <3>1, <3>2
    <3> QED
      BY <1>0, <3>1, <3>3 DEF LockIsHeld
  <2> QED
    BY <1>7, <2>1, <2>2, <2>3 DEF QueueStep
<1>8. CASE UNCHANGED fseventsVars
  BY <1>1, <1>8 DEF fseventsVars
<1> QED
  BY <1>2, <1>3, <1>4, <1>5, <1>6, <1>7, <1>8 DEF FSEventsNext

(* The block that runs changes only when one begins or ends. *)
LEMMA RunningBlock ==
  ASSUME QuietInv, [FSEventsNext]_fseventsVars
  PROVE  \/ UNCHANGED <<block, at>>
         \/ CallbackEnters
         \/ at' = "idle" /\ block' = NoBlock
         \/ block' = block /\ at # "idle"
<1> USE DEF backendVars, eventVars, queueVars, callerVars, boundVars
<1>1. ASSUME NEW t \in Thread, CallerStep(t) \/ HandOff(t) PROVE UNCHANGED <<block, at>>
  BY <1>1 DEF CallerStep, NothingToWatch, StartStream, StartFails, ScanFails,
    ScanCancelled, Scan, Finish, NothingToUnwatch, Unwatch, FinishUnsubscribe, HandOff
<1>2. CASE QueueStep
  BY <1>2 DEF QueueStep, CallbackLeaves, Process, Retire, ProcessThrows,
    HandleError, BarrierEnds, FlushEnds, HandedOff, AtOnce, EndBlock
<1>3. ASSUME NEW t \in Thread, NEW w \in Watcher, CallWatch(t, w) \/ CallUnwatch(t, w)
      PROVE  UNCHANGED <<block, at>>
  BY <1>3 DEF CallWatch, CallUnwatch
<1>4. ASSUME NEW w \in Watcher, NEW root \in BOOLEAN, Cancel(w) \/ Change(w, root)
      PROVE  UNCHANGED <<block, at>>
  BY <1>4 DEF Cancel, Change
<1>5. ASSUME NEW s \in Sub, Deliver(s) \/ StopStream(s) PROVE UNCHANGED <<block, at>>
  BY <1>5 DEF Deliver, StopStream
<1>6. CASE UNCHANGED fseventsVars
  BY <1>6 DEF fseventsVars
<1> QED
  BY <1>1, <1>2, <1>3, <1>4, <1>5, <1>6 DEF FSEventsNext

LEMMA BlocksOfStreamsStep ==
  QuietInv /\ [FSEventsNext]_fseventsVars => BlocksAreOfStreams'
<1> SUFFICES ASSUME QuietInv, [FSEventsNext]_fseventsVars PROVE BlocksAreOfStreams'
  OBVIOUS
<1>1. /\ BlocksAreOfStreams /\ queue \in Seq(BlockRecord)
      /\ lastSub \in Nat /\ lastSub' \in Nat /\ lastSub <= lastSub'
      /\ \A s \in 1..lastSub : OneWay(sub[s], sub'[s])
      /\ at = "idle" <=> block = NoBlock
  BY StreamsStep, NoBlockAssumption, BoundsAssumption
    DEF QuietInv, FSEventsTypeOK, StreamsMove
<1>2. \A i \in DOMAIN queue : queue[i].sub \in 1..lastSub
  BY <1>1 DEF BlocksAreOfStreams
<1>3. ASSUME NEW i \in DOMAIN queue' PROVE queue'[i].sub \in 1..lastSub'
  <2>1. (\E j \in DOMAIN queue : queue'[i] = queue[j]) \/ MayCome(queue'[i])
    BY <1>1, BlocksStep, BlocksComeFrom
  <2> QED
    BY <1>1, <1>2, <2>1 DEF MayCome
<1>4. ASSUME at' # "idle"
      PROVE  /\ block'.kind = "callback" /\ block'.sub \in 1..lastSub'
             /\ ~sub'[block'.sub].initializing
  <2>1. CASE block' = block /\ at # "idle"
    BY <1>1, <2>1 DEF BlocksAreOfStreams, OneWay
  <2>2. CASE CallbackEnters
    <3>1. /\ 1 \in DOMAIN queue /\ block' = queue[1] /\ block'.kind = "callback"
          /\ ~sub[block'.sub].initializing
      BY <1>1, <2>2 DEF CallbackEnters, Begins, First
    <3> QED
      BY <1>1, <1>2, <3>1 DEF OneWay
  <2> QED
    BY <1>4, <2>1, <2>2, RunningBlock
<1> QED
  BY <1>3, <1>4 DEF BlocksAreOfStreams

LEMMA OwnersStep == QuietInv /\ [FSEventsNext]_fseventsVars => CreatedHaveOwners'
<1> SUFFICES ASSUME QuietInv, [FSEventsNext]_fseventsVars PROVE CreatedHaveOwners'
  OBVIOUS
<1>1. /\ CreatedHaveOwners /\ lastSub \in Nat /\ lastSub' \in Nat /\ lastSub <= lastSub'
      /\ \A s \in 1..lastSub : sub'[s].owner = sub[s].owner
      /\ sub \in [Sub -> StreamRecord] /\ on \in [Thread -> Watcher]
  <2>1. /\ CreatedHaveOwners /\ lastSub \in 0..MaxSubs /\ MaxSubs \in Nat
        /\ sub \in [Sub -> StreamRecord] /\ on \in [Thread -> Watcher]
    BY BoundsAssumption DEF QuietInv, FSEventsTypeOK
  <2>2. /\ lastSub' \in 0..MaxSubs /\ lastSub <= lastSub'
        /\ \A s \in 1..lastSub : sub'[s].owner = sub[s].owner
    BY StreamsStep DEF StreamsMove, OneWay
  <2> QED
    BY <2>1, <2>2
<1>2. CASE lastSub' = lastSub
  BY <1>1, <1>2 DEF CreatedHaveOwners
<1>3. ASSUME NEW t \in Thread, StartStream(t) PROVE CreatedHaveOwners'
  <2>1. /\ lastSub' = lastSub + 1 /\ lastSub' \in Sub
        /\ sub'[lastSub'] = [NewSub(on[t]) EXCEPT !.live = TRUE, !.running = TRUE]
    BY <1>1, <1>3 DEF StartStream
  <2>2. sub'[lastSub'].owner \in Watcher
    BY <1>1, <2>1 DEF NewSub
  <2>3. \A s \in 1..lastSub' : s \in 1..lastSub \/ s = lastSub'
    BY <1>1, <2>1
  <2> QED
    BY <1>1, <2>2, <2>3 DEF CreatedHaveOwners
<1>4. lastSub' = lastSub \/ \E t \in Thread : StartStream(t)
  BY DEF FSEventsNext, CallerStep, QueueStep, CallWatch, CallUnwatch, Cancel, Change,
    Deliver, StopStream, NothingToWatch, StartFails, ScanFails, ScanCancelled, Scan,
    Finish, NothingToUnwatch, Unwatch, FinishUnsubscribe, HandOff, CallbackLeaves,
    CallbackEnters, Process, Retire, ProcessThrows, HandleError, BarrierEnds, FlushEnds,
    HandedOff, fseventsVars, boundVars
<1> QED
  BY <1>2, <1>3, <1>4

(* The events of a stream that is not created yet stay none. *)
LEMMA UncreatedStep == QuietInv /\ [FSEventsNext]_fseventsVars => UncreatedIsNew'
<1> SUFFICES ASSUME QuietInv, [FSEventsNext]_fseventsVars, NEW s \in Sub, s > lastSub'
             PROVE  /\ sub'[s] = NewSub(NoWatcher)
                    /\ unseen'[s] = <<>> /\ buffer'[s] = <<>>
                    /\ processed'[s] = <<>> /\ happened'[s] = <<>>
  BY DEF UncreatedIsNew
<1> USE DEF backendVars, eventVars, queueVars, callerVars, boundVars
<1>1. /\ lastSub \in Nat /\ s > lastSub /\ s \notin 1..lastSub /\ sub'[s] = sub[s]
      /\ queue \in Seq(BlockRecord)
      /\ unseen \in [Sub -> Seq(Int)] /\ buffer \in [Sub -> Seq(Int)]
      /\ processed \in [Sub -> Seq(Int)] /\ happened \in [Sub -> Seq(Int)]
  <2>1. /\ lastSub \in 0..MaxSubs /\ lastSub' \in 0..MaxSubs /\ MaxSubs \in Nat
        /\ lastSub <= lastSub' /\ s \in 1..MaxSubs /\ sub'[s] = sub[s]
    BY StreamsStep, BoundsAssumption DEF QuietInv, FSEventsTypeOK, StreamsMove, Sub
  <2>2. lastSub \in Nat /\ s > lastSub /\ s \notin 1..lastSub
    BY <2>1
  <2> QED
    BY <2>1, <2>2 DEF QuietInv, FSEventsTypeOK
<1>2. /\ sub[s] = NewSub(NoWatcher) /\ ~sub[s].running
      /\ unseen[s] = <<>> /\ buffer[s] = <<>> /\ processed[s] = <<>> /\ happened[s] = <<>>
  <2>1. UncreatedIsNew /\ s > lastSub
    BY <1>1 DEF QuietInv
  <2>2. ~NewSub(NoWatcher).running
    BY DEF NewSub
  <2> QED
    BY <2>1, <2>2 DEF UncreatedIsNew
<1>3. sub'[s] = NewSub(NoWatcher)
  BY <1>1, <1>2
<1>4. queue # <<>> => First.sub # s
  BY <1>1 DEF QuietInv, BlocksAreOfStreams, First
<1>5. at # "idle" => block.sub # s
  BY <1>1 DEF QuietInv, BlocksAreOfStreams
<1>6. CASE UNCHANGED eventVars
  BY <1>2, <1>3, <1>6
<1>7. ASSUME NEW w \in Watcher, NEW root \in BOOLEAN, Change(w, root)
      PROVE  unseen'[s] = <<>> /\ happened'[s] = <<>> /\ UNCHANGED <<buffer, processed>>
  BY <1>2, <1>7 DEF Change
<1>8. ASSUME NEW r \in Sub, Deliver(r) \/ StopStream(r)
      PROVE  unseen'[s] = <<>> /\ UNCHANGED <<buffer, processed, happened>>
  BY <1>1, <1>2, <1>8 DEF Deliver, StopStream
<1>9. ASSUME NEW t \in Thread, CallerStep(t) \/ HandOff(t)
      PROVE  unseen'[s] = <<>> /\ UNCHANGED <<buffer, processed, happened>>
  <2>1. CASE Scan(t)
    BY <1>1, <1>2, <2>1 DEF Scan
  <2>2. CASE ~Scan(t)
    BY <1>2, <1>9, <2>2 DEF CallerStep, NothingToWatch, StartStream, StartFails, ScanFails,
      ScanCancelled, Finish, NothingToUnwatch, Unwatch, FinishUnsubscribe, HandOff
  <2> QED
    BY <2>1, <2>2
<1>10. CASE QueueStep
  <2>1. CASE CallbackLeaves
    BY <1>1, <1>2, <1>3, <1>4, <2>1 DEF CallbackLeaves, Begins
  <2>2. CASE Process \/ ProcessThrows
    BY <1>1, <1>2, <1>3, <1>5, <2>2 DEF Process, ProcessThrows
  <2>3. ASSUME NEW t \in Thread, HandedOff(t)
        PROVE  processed'[s] = <<>> /\ buffer'[s] = <<>> /\ UNCHANGED <<unseen, happened>>
    <3>1. First.sub # s
      BY <1>4, <2>3 DEF HandedOff, Begins
    <3> QED
      BY <1>1, <1>2, <2>3, <3>1 DEF HandedOff, BufferHandled
  <2>4. CASE CallbackEnters \/ Retire \/ HandleError \/ BarrierEnds
             \/ \E t \in Thread : FlushEnds(t)
    BY <1>6, <2>4 DEF CallbackEnters, Retire, HandleError, BarrierEnds, FlushEnds
  <2> QED
    BY <1>2, <1>3, <1>10, <2>1, <2>2, <2>3, <2>4 DEF QueueStep
<1>11. ASSUME NEW t \in Thread, NEW w \in Watcher, CallWatch(t, w) \/ CallUnwatch(t, w)
       PROVE  UNCHANGED eventVars
  BY <1>11 DEF CallWatch, CallUnwatch
<1>12. ASSUME NEW w \in Watcher, Cancel(w) PROVE UNCHANGED eventVars
  BY <1>12 DEF Cancel
<1>13. CASE UNCHANGED fseventsVars
  BY <1>6, <1>13 DEF fseventsVars
<1> QED
  BY <1>2, <1>3, <1>6, <1>7, <1>8, <1>9, <1>10, <1>11, <1>12, <1>13 DEF FSEventsNext

(* What has been stopped is not told of changes. *)
LEMMA SilentStep == QuietInv /\ [FSEventsNext]_fseventsVars => StoppedIsSilent'
<1> SUFFICES ASSUME QuietInv, [FSEventsNext]_fseventsVars, NEW s \in Sub, ~sub'[s].running
             PROVE  unseen'[s] = <<>>
  BY DEF StoppedIsSilent
<1> USE DEF backendVars, eventVars, queueVars, callerVars, boundVars
<1>1. unseen \in [Sub -> Seq(Int)] /\ sub \in [Sub -> StreamRecord] /\ lastSub \in Nat
  BY BoundsAssumption DEF QuietInv, FSEventsTypeOK
<1>2. StopStream(s) => unseen'[s] = <<>>
  BY <1>1 DEF StopStream
<1>3. CASE ~StopStream(s)
  <2>1. unseen[s] = <<>>
    <3>1. CASE s = lastSub + 1
      BY <1>1, <3>1 DEF QuietInv, UncreatedIsNew
    <3>2. CASE s # lastSub + 1
      <4>1. ~sub[s].running
        BY <1>3, <3>2, LifeStep DEF LifeMoves
      <4> QED
        BY <4>1 DEF QuietInv, StoppedIsSilent
    <3> QED
      BY <3>1, <3>2
  <2>2. ASSUME NEW w \in Watcher, NEW root \in BOOLEAN, Change(w, root)
        PROVE  unseen'[s] = <<>>
    BY <2>1, <2>2 DEF Change
  <2>3. ASSUME NEW r \in Sub, Deliver(r) \/ StopStream(r) PROVE unseen'[s] = <<>>
    BY <1>1, <2>1, <2>3 DEF Deliver, StopStream
  <2>4. ASSUME NEW t \in Thread, CallerStep(t) \/ HandOff(t) PROVE unseen'[s] = <<>>
    <3>1. CASE Scan(t)
      BY <1>1, <2>1, <3>1 DEF Scan
    <3>2. CASE ~Scan(t)
      BY <2>1, <2>4, <3>2 DEF CallerStep, NothingToWatch, StartStream, StartFails,
        ScanFails, ScanCancelled, Finish, NothingToUnwatch, Unwatch, FinishUnsubscribe,
        HandOff
    <3> QED
      BY <3>1, <3>2
  <2>5. CASE QueueStep
    BY <2>1, <2>5 DEF QueueStep, CallbackLeaves, CallbackEnters, Process, Retire,
      ProcessThrows, HandleError, BarrierEnds, FlushEnds, HandedOff
  <2>6. ASSUME NEW t \in Thread, NEW w \in Watcher, CallWatch(t, w) \/ CallUnwatch(t, w)
        PROVE  unseen'[s] = <<>>
    BY <2>1, <2>6 DEF CallWatch, CallUnwatch
  <2>7. ASSUME NEW w \in Watcher, Cancel(w) PROVE unseen'[s] = <<>>
    BY <2>1, <2>7 DEF Cancel
  <2>8. CASE UNCHANGED fseventsVars
    BY <2>1, <2>8 DEF fseventsVars
  <2> QED
    BY <2>2, <2>3, <2>4, <2>5, <2>6, <2>7, <2>8 DEF FSEventsNext
<1> QED
  BY <1>2, <1>3

LEMMA CleanedStep == QuietInv /\ [FSEventsNext]_fseventsVars => CleanedHasStopped'
<1> SUFFICES ASSUME QuietInv, [FSEventsNext]_fseventsVars, NEW s \in Sub, sub'[s].cleaned
             PROVE  ~sub'[s].running
  BY DEF CleanedHasStopped
<1>1. /\ lastSub \in 0..MaxSubs /\ MaxSubs \in Nat /\ queue \in Seq(BlockRecord)
      /\ \A r \in 1..lastSub : OneWay(sub[r], sub'[r])
  BY StreamsStep, BoundsAssumption DEF StreamsMove, QuietInv, FSEventsTypeOK
<1>2. sub[s].cleaned \/ (BarrierEnds /\ s = First.sub)
  BY LifeStep DEF LifeMoves
<1>3. s \in 1..lastSub /\ ~sub[s].running
  <2>1. CASE sub[s].cleaned
    <3>1. ~(s > lastSub)
      BY <2>1 DEF QuietInv, UncreatedIsNew, NewSub
    <3> QED
      BY <1>1, <2>1, <3>1 DEF QuietInv, CleanedHasStopped, Sub
  <2>2. CASE BarrierEnds /\ s = First.sub
    <3>1. 1 \in DOMAIN queue /\ queue[1].kind = "barrier" /\ queue[1].sub = s
      BY <1>1, <2>2 DEF BarrierEnds, Begins, First
    <3> QED
      BY <3>1 DEF QuietInv, BlocksAreOfStreams, BarrierIsLast
  <2> QED
    BY <1>2, <2>1, <2>2
<1> QED
  BY <1>1, <1>3 DEF OneWay

(* Nothing is queued for what has stopped. *)
LEMMA NoneMayCome ==
  ASSUME QuietInv, NEW s \in Sub, ~sub[s].running, NEW b, MayCome(b)
  PROVE  ~IsCallback(b, s)
  BY DEF QuietInv, StoppedIsSilent, MayCome, IsCallback

LEMMA BarrierStep == QuietInv /\ [FSEventsNext]_fseventsVars => BarrierIsLast'
<1> SUFFICES ASSUME QuietInv, [FSEventsNext]_fseventsVars,
                    NEW i \in DOMAIN queue', queue'[i].kind = "barrier"
             PROVE  /\ ~sub'[queue'[i].sub].running
                    /\ \A j \in DOMAIN queue' : i < j => ~IsCallback(queue'[j], queue'[i].sub)
  BY DEF BarrierIsLast
<1>1. /\ queue \in Seq(BlockRecord) /\ BarrierIsLast /\ 1..lastSub \subseteq Sub
      /\ \A s \in 1..lastSub : sub'[s].running => sub[s].running
      /\ \A k \in DOMAIN queue : queue[k].sub \in 1..lastSub
  <2>1. /\ queue \in Seq(BlockRecord) /\ BarrierIsLast
        /\ lastSub \in 0..MaxSubs /\ MaxSubs \in Nat
        /\ \A k \in DOMAIN queue : queue[k].sub \in 1..lastSub
    BY BoundsAssumption DEF QuietInv, FSEventsTypeOK, BlocksAreOfStreams
  <2>2. \A s \in 1..lastSub : sub'[s].running => sub[s].running
    BY StreamsStep DEF StreamsMove, OneWay
  <2> QED
    BY <2>1, <2>2 DEF Sub
<1>2. ASSUME NEW k \in DOMAIN queue, queue[k].kind = "barrier"
      PROVE  /\ queue[k].sub \in Sub
             /\ ~sub[queue[k].sub].running /\ ~sub'[queue[k].sub].running
             /\ \A j \in DOMAIN queue : k < j => ~IsCallback(queue[j], queue[k].sub)
             /\ \A b : MayCome(b) => ~IsCallback(b, queue[k].sub)
  BY <1>1, <1>2, NoneMayCome DEF BarrierIsLast
<1>3. CASE queue # <<>> /\ queue' = Tail(queue)
  <2>1. i + 1 \in DOMAIN queue /\ queue'[i] = queue[i + 1]
    BY <1>1, <1>3
  <2>2. \A j \in DOMAIN queue' : j + 1 \in DOMAIN queue /\ queue'[j] = queue[j + 1]
    BY <1>1, <1>3
  <2>3. i \in Nat /\ \A j \in DOMAIN queue' : j \in Nat
    BY <1>1, <1>3
  <2> QED
    BY <1>2, <2>1, <2>2, <2>3
<1>4. CASE queue' = queue
  BY <1>2, <1>4
<1>5. ASSUME NEW b, MayCome(b), queue' = Append(queue, b)
      PROVE  /\ ~sub'[queue'[i].sub].running
             /\ \A j \in DOMAIN queue' : i < j => ~IsCallback(queue'[j], queue'[i].sub)
  <2>1. /\ DOMAIN queue = 1..Len(queue) /\ Len(queue) \in Nat
        /\ DOMAIN queue' = 1..Len(queue) + 1
        /\ queue'[Len(queue) + 1] = b
        /\ \A j \in 1..Len(queue) : queue'[j] = queue[j]
    BY <1>1, <1>5 DEF MayCome
  <2>2. CASE i = Len(queue) + 1
    BY <1>5, <2>1, <2>2 DEF MayCome
  <2>3. CASE i \in DOMAIN queue
    BY <1>2, <1>5, <2>1, <2>3
  <2> QED
    BY <2>1, <2>2, <2>3
<1>6. ASSUME NEW b, NEW c, MayCome(b), MayCome(c), c.kind # "barrier", b.kind # "barrier",
             queue' = Append(Append(queue, c), b)
      PROVE  /\ ~sub'[queue'[i].sub].running
             /\ \A j \in DOMAIN queue' : i < j => ~IsCallback(queue'[j], queue'[i].sub)
  <2> DEFINE q == Append(queue, c)
             n == Len(queue)
  <2>1. /\ q \in Seq(BlockRecord) /\ Len(q) = n + 1 /\ n \in Nat
        /\ q[n + 1] = c /\ \A j \in 1..n : q[j] = queue[j]
        /\ DOMAIN queue = 1..n
    BY <1>1, <1>6 DEF MayCome
  <2> HIDE DEF q, n
  <2>2. /\ DOMAIN queue' = 1..n + 2 /\ queue'[n + 2] = b
        /\ \A j \in 1..n + 1 : queue'[j] = q[j]
    BY <1>6, <2>1 DEF MayCome, q
  <2>3. /\ queue'[n + 2] = b /\ queue'[n + 1] = c
        /\ \A j \in 1..n : queue'[j] = queue[j]
    BY <2>1, <2>2
  <2>4. i \in 1..n
    BY <1>6, <2>1, <2>2, <2>3
  <2> QED
    BY <1>2, <1>6, <2>1, <2>2, <2>3, <2>4
<1> QED
  BY <1>3, <1>4, <1>5, <1>6, BlocksStep DEF BlocksMove

LEMMA QuietStep == QuietInv /\ [FSEventsNext]_fseventsVars => CleanedIsQuiet'
<1> SUFFICES ASSUME QuietInv, [FSEventsNext]_fseventsVars, NEW s \in Sub, sub'[s].cleaned
             PROVE  /\ ~\E i \in DOMAIN queue' : IsCallback(queue'[i], s)
                    /\ block' # NoBlock => block'.sub # s
                    /\ unseen'[s] = <<>>
  BY DEF CleanedIsQuiet
<1>1. queue \in Seq(BlockRecord) /\ BlocksMove
  BY BlocksStep DEF QuietInv, FSEventsTypeOK
<1>2. unseen'[s] = <<>>
  BY CleanedStep, SilentStep DEF CleanedHasStopped, StoppedIsSilent
<1>3. sub[s].cleaned \/ (BarrierEnds /\ s = First.sub)
  BY LifeStep DEF LifeMoves
<1>4. CASE sub[s].cleaned
  <2>1. /\ \A i \in DOMAIN queue : ~IsCallback(queue[i], s)
        /\ block # NoBlock => block.sub # s
        /\ ~sub[s].running
    BY <1>4 DEF QuietInv, CleanedIsQuiet, CleanedHasStopped
  <2>2. \A i \in DOMAIN queue' : ~IsCallback(queue'[i], s)
    BY <1>1, <2>1, NoneMayCome, BlocksComeFrom
  <2>3. CallbackEnters => block'.sub # s
    <3>1. CallbackEnters =>
            1 \in DOMAIN queue /\ block' = queue[1] /\ block'.kind = "callback"
      BY <1>1 DEF CallbackEnters, Begins, First
    <3> QED
      BY <2>1, <3>1 DEF IsCallback
  <2>4. block' # NoBlock => block'.sub # s
    BY <2>1, <2>3, RunningBlock
  <2> QED
    BY <1>2, <2>2, <2>4
<1>5. CASE BarrierEnds /\ s = First.sub
  <2>1. /\ 1 \in DOMAIN queue /\ queue[1].kind = "barrier" /\ queue[1].sub = s
        /\ queue # <<>> /\ queue' = Tail(queue) /\ block' = NoBlock
    BY <1>1, <1>5 DEF BarrierEnds, Begins, First, AtOnce
  <2>2. \A j \in DOMAIN queue : 1 < j => ~IsCallback(queue[j], s)
    BY <2>1 DEF QuietInv, BarrierIsLast
  <2>3. \A i \in DOMAIN queue' : /\ i + 1 \in DOMAIN queue /\ 1 < i + 1
                                 /\ queue'[i] = queue[i + 1]
    BY <1>1, <2>1
  <2> QED
    BY <1>2, <2>1, <2>2, <2>3
<1> QED
  BY <1>3, <1>4, <1>5

LEMMA QuietInvStep == QuietInv /\ [FSEventsNext]_fseventsVars => QuietInv'
  BY TypesStep, LockStep, BlocksOfStreamsStep, UncreatedStep, OwnersStep, SilentStep,
     CleanedStep, BarrierStep, QuietStep DEF QuietInv

LEMMA InitQuietInv == FSEventsInit => QuietInv
<1> SUFFICES ASSUME FSEventsInit PROVE QuietInv
  OBVIOUS
<1> USE DEF FSEventsInit, Nothing
<1>1. FSEventsTypeOK
  <2>1. sub \in [Sub -> StreamRecord]
    BY NewStream
  <2>2. <<>> \in Seq(Int) /\ <<>> \in Seq(BlockRecord)
    OBVIOUS
  <2>3. /\ unseen \in [Sub -> Seq(Int)] /\ buffer \in [Sub -> Seq(Int)]
        /\ processed \in [Sub -> Seq(Int)] /\ happened \in [Sub -> Seq(Int)]
    BY <2>2
  <2>4. /\ where \in [Thread -> Place] /\ on \in [Thread -> Watcher]
        /\ mine \in [Thread -> Sub \cup {NoSub}] /\ wasInvalid \in [Thread -> BOOLEAN]
        /\ state \in [Watcher -> Sub \cup {NoSub}] /\ failed \in BOOLEAN
    BY DEF Place
  <2>5. lastSub \in 0..MaxSubs /\ changes \in 0..MaxChanges /\ faults \in 0..MaxFaults
    BY BoundsAssumption
  <2>6. /\ subscriptions \subseteq Watcher /\ pending \subseteq Watcher
        /\ invalid \subseteq Watcher /\ needsResubscribe \subseteq Watcher
        /\ cancelled \subseteq Watcher /\ mutex \in Thread \cup {NoThread}
        /\ queue \in Seq(BlockRecord) /\ block = NoBlock /\ at = "idle"
    BY <2>2
  <2> QED
    BY <2>1, <2>3, <2>4, <2>5, <2>6 DEF FSEventsTypeOK
<1>2. LockIsHeld
  BY NoneAssumption DEF LockIsHeld, Locked
<1>3. BlocksAreOfStreams /\ BarrierIsLast
  BY DEF BlocksAreOfStreams, BarrierIsLast
<1>4. UncreatedIsNew /\ CreatedHaveOwners /\ StoppedIsSilent
  BY DEF UncreatedIsNew, CreatedHaveOwners, StoppedIsSilent
<1>5. CleanedHasStopped /\ CleanedIsQuiet
  BY DEF CleanedHasStopped, CleanedIsQuiet, NewSub
<1> QED
  BY <1>1, <1>2, <1>3, <1>4, <1>5 DEF QuietInv

(* Whatever callers, callbacks and errors do, the backend is well-typed.    *)
THEOREM FSEventsTypeCorrect == FSEventsSpec => []FSEventsTypeOK
<1>1. QuietInv => FSEventsTypeOK
  BY DEF QuietInv
<1> QED
  BY <1>1, InitQuietInv, QuietInvStep, PTL DEF FSEventsSpec

(* The empty block of stopStreamAfterCallback is behind every callback of   *)
(* the stream, so a caller that waits for it and releases the State leaves  *)
(* nothing that would use it.                                               *)
THEOREM CleanupIsLast == FSEventsSpec => []CleanedIsQuiet
<1>1. QuietInv => CleanedIsQuiet
  BY DEF QuietInv
<1> QED
  BY <1>1, InitQuietInv, QuietInvStep, PTL DEF FSEventsSpec

----------------------------------------------------------------------------
(* Who takes a stream stops it, if the watcher's next start cannot come     *)
(* between the two: while it could, it would replace the state that the     *)
(* callback is about to give up, and be given up in its place.              *)
Starting == Locked \cup {"finish"}

(* One caller starts the stream of a watcher, and nobody takes the stream   *)
(* until it has been handed over.                                           *)
StartersAreAlone ==
  \A t \in Thread :
    /\ where[t] \in Locked => /\ sub[mine[t]].live /\ sub[mine[t]].initializing
                              /\ sub[mine[t]].owner = on[t]
    /\ where[t] \in Starting =>
         /\ on[t] \in pending
         /\ \A u \in Thread : where[u] \in Starting /\ on[u] = on[t] => u = t

(* The watchers whose stream a call of watch leaves as it is *)
Watched == (pending \cup subscriptions) \ (invalid \cup needsResubscribe)

LiveIsKept(s) ==
  sub[s].live => /\ sub[s].stops = 0 /\ sub[s].stop = "none" /\ sub[s].running
                 /\ state[sub[s].owner] = s /\ sub[s].owner \in Watched

RetiringIsKept(s) ==
  Retiring(s) => /\ ~sub[s].live /\ sub[s].stops = 0 /\ sub[s].stop = "none"
                 /\ state[sub[s].owner] = s

DeadIsStopped(s) ==
  ~sub[s].live /\ ~Retiring(s) => sub[s].stops = 1 /\ sub[s].stop # "none"

Kept(s) == /\ LiveIsKept(s) /\ RetiringIsKept(s) /\ DeadIsStopped(s)
           /\ sub[s].cleaned => sub[s].stop = "done"

StreamsAreKept == \A s \in 1..lastSub : Kept(s)

OnceInv == QuietInv /\ StartersAreAlone /\ StreamsAreKept

----------------------------------------------------------------------------
(* What each action does to the stream it is about; it leaves the others.   *)
Alone(s) == \A r \in Sub \ {s} : sub'[r] = sub[r]

LEMMA StreamTypes ==
  ASSUME QuietInv
  PROVE  /\ lastSub \in 0..MaxSubs /\ MaxSubs \in Nat /\ 1..lastSub \subseteq Sub
         /\ sub \in [Sub -> StreamRecord] /\ queue \in Seq(BlockRecord)
         /\ state \in [Watcher -> Sub \cup {NoSub}]
         /\ mine \in [Thread -> Sub \cup {NoSub}] /\ on \in [Thread -> Watcher]
         /\ where \in [Thread -> Place]
         /\ at = "idle" <=> block = NoBlock
         /\ at # "idle" => block.sub \in 1..lastSub /\ block.sub \in Sub
         /\ queue # <<>> => First.sub \in 1..lastSub /\ First.sub \in Sub
<1>1. /\ lastSub \in 0..MaxSubs /\ MaxSubs \in Nat /\ 1..lastSub \subseteq Sub
      /\ queue \in Seq(BlockRecord)
  BY BoundsAssumption DEF QuietInv, FSEventsTypeOK, Sub
<1>2. at = "idle" <=> block = NoBlock
  BY NoBlockAssumption DEF QuietInv, FSEventsTypeOK
<1>3. queue # <<>> => First = queue[1] /\ 1 \in DOMAIN queue
  BY <1>1 DEF First
<1>4. /\ at # "idle" => block.sub \in 1..lastSub
      /\ queue # <<>> => First.sub \in 1..lastSub
  BY <1>3 DEF QuietInv, BlocksAreOfStreams
<1> QED
  BY <1>1, <1>2, <1>4 DEF QuietInv, FSEventsTypeOK

LEMMA StartEffect ==
  ASSUME QuietInv, NEW t \in Thread, StartStream(t)
  PROVE  /\ lastSub' = lastSub + 1 /\ lastSub' \in Sub /\ Alone(lastSub')
         /\ sub'[lastSub'].live /\ sub'[lastSub'].running
         /\ sub'[lastSub'].initializing /\ sub'[lastSub'].owner = on[t]
         /\ sub'[lastSub'].stops = 0 /\ sub'[lastSub'].stop = "none"
         /\ ~sub'[lastSub'].cleaned
<1>1. /\ lastSub' = lastSub + 1 /\ lastSub' \in Sub
      /\ sub' = [sub EXCEPT ![lastSub'] = [NewSub(on[t]) EXCEPT !.live = TRUE,
                                                               !.running = TRUE]]
  BY DEF StartStream
<1>2. sub'[lastSub'] = [NewSub(on[t]) EXCEPT !.live = TRUE, !.running = TRUE]
  BY <1>1, StreamTypes
<1> QED
  BY <1>1, <1>2, StreamTypes DEF NewSub, Alone

LEMMA StopStreamEffect ==
  ASSUME QuietInv, NEW s \in Sub, StopStream(s)
  PROVE  /\ lastSub' = lastSub /\ s \in 1..lastSub /\ Alone(s)
         /\ sub[s].stop = "asked" /\ sub'[s].stop = "barrier"
         /\ sub'[s].live = sub[s].live /\ sub'[s].owner = sub[s].owner
         /\ sub'[s].initializing = sub[s].initializing /\ sub'[s].stops = sub[s].stops
         /\ sub'[s].cleaned = sub[s].cleaned
<1> DEFINE new == [sub[s] EXCEPT !.stop = "barrier", !.running = FALSE]
<1>1. sub' = [sub EXCEPT ![s] = new] /\ sub[s].stop = "asked" /\ lastSub' = lastSub
  BY StreamTypes DEF StopStream, boundVars
<1>2. sub[s] \in StreamRecord
  BY StreamTypes
<1>3. /\ new.stop = "barrier" /\ new.live = sub[s].live /\ new.owner = sub[s].owner
      /\ new.initializing = sub[s].initializing /\ new.stops = sub[s].stops
      /\ new.cleaned = sub[s].cleaned
  BY <1>2 DEF StreamRecord
<1>4. ~(s > lastSub)
  BY <1>1 DEF QuietInv, UncreatedIsNew, NewSub
<1>5. s \in 1..lastSub
  BY <1>4, StreamTypes DEF Sub
<1> HIDE DEF new
<1>6. sub'[s] = new /\ Alone(s)
  BY <1>1, StreamTypes DEF Alone
<1> QED
  BY <1>1, <1>3, <1>5, <1>6

LEMMA ProcessEffect ==
  ASSUME QuietInv, Process
  PROVE  /\ lastSub' = lastSub /\ at = "process" /\ block.sub \in 1..lastSub
         /\ Alone(block.sub)
         /\ \/ sub' = sub /\ at' = "idle"
            \/ /\ at' = "retire" /\ block' = block /\ sub[block.sub].live
               /\ ~sub'[block.sub].live
               /\ sub'[block.sub].owner = sub[block.sub].owner
               /\ sub'[block.sub].stops = sub[block.sub].stops
               /\ sub'[block.sub].stop = sub[block.sub].stop
               /\ sub'[block.sub].cleaned = sub[block.sub].cleaned
<1> DEFINE new == [sub[block.sub] EXCEPT !.live = FALSE]
<1>1. /\ at = "process" /\ lastSub' = lastSub
      /\ \/ sub' = sub /\ at' = "idle"
         \/ /\ sub' = [sub EXCEPT ![block.sub].live = FALSE]
            /\ at' = "retire" /\ block' = block /\ sub[block.sub].live
  BY DEF Process, EndBlock, boundVars, callerVars
<1>2. block.sub \in 1..lastSub /\ block.sub \in Sub /\ sub[block.sub] \in StreamRecord
  BY <1>1, StreamTypes
<1>3. /\ new.live = FALSE /\ new.owner = sub[block.sub].owner
      /\ new.stops = sub[block.sub].stops /\ new.stop = sub[block.sub].stop
      /\ new.cleaned = sub[block.sub].cleaned
  BY <1>2 DEF StreamRecord
<1>4. sub' = sub \/ sub' = [sub EXCEPT ![block.sub] = new]
  BY <1>1, <1>2, StreamTypes
<1>5. CASE sub' = sub /\ at' = "idle"
  BY <1>1, <1>2, <1>5 DEF Alone
<1>6. CASE ~(sub' = sub /\ at' = "idle")
  <2>1. sub' = [sub EXCEPT ![block.sub] = new] /\ at' = "retire"
        /\ block' = block /\ sub[block.sub].live
    BY <1>1, <1>2, <1>6, StreamTypes
  <2> HIDE DEF new
  <2>2. sub'[block.sub] = new /\ Alone(block.sub)
    BY <1>2, <2>1, StreamTypes DEF Alone
  <2> QED
    BY <1>1, <1>2, <1>3, <2>1, <2>2
<1> QED
  BY <1>5, <1>6

LEMMA RetireEffect ==
  ASSUME QuietInv, Retire
  PROVE  /\ lastSub' = lastSub /\ at = "retire" /\ at' = "idle"
         /\ block.sub \in 1..lastSub /\ Alone(block.sub)
         /\ sub'[block.sub].live = sub[block.sub].live
         /\ sub'[block.sub].owner = sub[block.sub].owner
         /\ sub'[block.sub].stops = sub[block.sub].stops + 1
         /\ sub'[block.sub].stop = "asked"
         /\ sub'[block.sub].initializing = sub[block.sub].initializing
         /\ sub'[block.sub].cleaned = sub[block.sub].cleaned
<1> DEFINE new == [sub[block.sub] EXCEPT !.stops = @ + 1, !.stop = "asked"]
<1>1. /\ at = "retire" /\ at' = "idle" /\ lastSub' = lastSub
      /\ sub' = [sub EXCEPT ![block.sub].stops = @ + 1, ![block.sub].stop = "asked"]
  BY DEF Retire, EndBlock, boundVars, callerVars
<1>2. block.sub \in 1..lastSub /\ block.sub \in Sub /\ sub[block.sub] \in StreamRecord
  BY <1>1, StreamTypes
<1>3. sub' = [sub EXCEPT ![block.sub] = new]
  BY <1>1, <1>2, StreamTypes
<1>4. /\ new.live = sub[block.sub].live /\ new.owner = sub[block.sub].owner
      /\ new.stops = sub[block.sub].stops + 1 /\ new.stop = "asked"
      /\ new.initializing = sub[block.sub].initializing
      /\ new.cleaned = sub[block.sub].cleaned
  BY <1>2 DEF StreamRecord
<1> HIDE DEF new
<1>5. sub'[block.sub] = new /\ Alone(block.sub)
  BY <1>2, <1>3, StreamTypes DEF Alone
<1> QED
  BY <1>1, <1>2, <1>4, <1>5

LEMMA BarrierEffect ==
  ASSUME QuietInv, BarrierEnds
  PROVE  /\ lastSub' = lastSub /\ at = "idle" /\ UNCHANGED <<block, at>>
         /\ First.sub \in 1..lastSub /\ Alone(First.sub) /\ ~sub[First.sub].running
         /\ sub'[First.sub].live = sub[First.sub].live
         /\ sub'[First.sub].owner = sub[First.sub].owner
         /\ sub'[First.sub].stops = sub[First.sub].stops
         /\ sub'[First.sub].stop = "done"
         /\ sub'[First.sub].initializing = sub[First.sub].initializing
<1> DEFINE new == [sub[First.sub] EXCEPT !.stop = "done", !.cleaned = TRUE]
<1>1. /\ block = NoBlock /\ UNCHANGED <<block, at, lastSub>> /\ queue # <<>>
      /\ First.kind = "barrier"
      /\ sub' = [sub EXCEPT ![First.sub].stop = "done", ![First.sub].cleaned = TRUE]
  BY DEF BarrierEnds, Begins, AtOnce, boundVars
<1>2. First.sub \in 1..lastSub /\ First.sub \in Sub /\ sub[First.sub] \in StreamRecord
  BY <1>1, StreamTypes
<1>3. sub' = [sub EXCEPT ![First.sub] = new]
  BY <1>1, <1>2, StreamTypes
<1>4. /\ new.live = sub[First.sub].live /\ new.owner = sub[First.sub].owner
      /\ new.stops = sub[First.sub].stops /\ new.stop = "done"
      /\ new.initializing = sub[First.sub].initializing
  BY <1>2 DEF StreamRecord
<1>5. ~sub[First.sub].running
  <2>1. 1 \in DOMAIN queue /\ queue[1] = First
    BY <1>1, StreamTypes DEF First
  <2> QED
    BY <1>1, <2>1 DEF QuietInv, BarrierIsLast
<1> HIDE DEF new
<1>6. sub'[First.sub] = new /\ Alone(First.sub)
  BY <1>2, <1>3, StreamTypes DEF Alone
<1> QED
  BY <1>1, <1>2, <1>4, <1>5, <1>6, StreamTypes

LEMMA HandedOffEffect ==
  ASSUME QuietInv, NEW t \in Thread, HandedOff(t)
  PROVE  /\ lastSub' = lastSub /\ at = "idle" /\ UNCHANGED <<block, at>>
         /\ mine[t] = First.sub /\ mine[t] \in 1..lastSub /\ Alone(mine[t])
         /\ sub[mine[t]].live =>
              /\ sub'[mine[t]].owner = sub[mine[t]].owner
              /\ sub'[mine[t]].cleaned = sub[mine[t]].cleaned
              /\ ~sub'[mine[t]].initializing
              /\ \/ /\ sub'[mine[t]].live /\ sub'[mine[t]].stops = sub[mine[t]].stops
                    /\ sub'[mine[t]].stop = sub[mine[t]].stop
                    /\ sub'[mine[t]].running = sub[mine[t]].running
                    /\ needsResubscribe' = needsResubscribe
                 \/ /\ ~sub'[mine[t]].live
                    /\ sub'[mine[t]].stops = sub[mine[t]].stops + 1
                    /\ sub'[mine[t]].stop = "asked"
                    /\ needsResubscribe' = needsResubscribe \cup {on[t]}
<1> DEFINE s == mine[t]
           begun == [sub[s] EXCEPT !.initializing = FALSE]
<1>1. /\ block = NoBlock /\ UNCHANGED <<block, at, lastSub>> /\ queue # <<>>
      /\ mine[t] = First.sub
      /\ sub[s].live =>
           \/ sub' = [sub EXCEPT ![s] = begun] /\ needsResubscribe' = needsResubscribe
           \/ sub' = [sub EXCEPT ![s] = Taken(begun)]
              /\ needsResubscribe' = needsResubscribe \cup {on[t]}
      /\ ~sub[s].live => sub' = sub
  <2>1. /\ block = NoBlock /\ UNCHANGED <<block, at, lastSub>> /\ queue # <<>>
        /\ mine[t] = First.sub
    BY DEF HandedOff, Begins, AtOnce, boundVars
  <2>2. sub[First.sub].live =>
          \/ /\ sub' = [sub EXCEPT ![First.sub] =
                         [sub[First.sub] EXCEPT !.initializing = FALSE]]
             /\ needsResubscribe' = needsResubscribe
          \/ /\ sub' = [sub EXCEPT ![First.sub] =
                         Taken([sub[First.sub] EXCEPT !.initializing = FALSE])]
             /\ needsResubscribe' = needsResubscribe \cup {on[t]}
    BY DEF HandedOff
  <2>3. ~sub[First.sub].live => sub' = sub
    BY DEF HandedOff
  <2> QED
    BY <2>1, <2>2, <2>3
<1>2. s \in 1..lastSub /\ s \in Sub /\ sub[s] \in StreamRecord
  BY <1>1, StreamTypes
<1>3. /\ begun \in StreamRecord /\ begun.owner = sub[s].owner
      /\ begun.cleaned = sub[s].cleaned /\ begun.initializing = FALSE
      /\ begun.live = sub[s].live /\ begun.stops = sub[s].stops
      /\ begun.stop = sub[s].stop /\ begun.running = sub[s].running
  BY <1>2 DEF StreamRecord
<1> HIDE DEF begun
<1>4. CASE sub[s].live
  <2>1. /\ Alone(s)
        /\ \/ sub'[s] = begun /\ needsResubscribe' = needsResubscribe
           \/ sub'[s] = Taken(begun) /\ needsResubscribe' = needsResubscribe \cup {on[t]}
    BY <1>1, <1>2, <1>4, StreamTypes DEF Alone
  <2>2. /\ Taken(begun).owner = sub[s].owner /\ Taken(begun).cleaned = sub[s].cleaned
        /\ ~Taken(begun).initializing /\ ~Taken(begun).live
        /\ Taken(begun).stops = sub[s].stops + 1 /\ Taken(begun).stop = "asked"
    <3>1. begun \in StreamRecord /\ begun.live
      BY <1>3, <1>4
    <3>2. /\ Taken(begun).owner = begun.owner /\ Taken(begun).cleaned = begun.cleaned
          /\ Taken(begun).initializing = begun.initializing /\ ~Taken(begun).live
          /\ Taken(begun).stops = begun.stops + 1 /\ Taken(begun).stop = "asked"
      BY <3>1, TakenStream
    <3> QED
      BY <1>3, <3>2
  <2> QED
    BY <1>1, <1>2, <1>3, <1>4, <2>1, <2>2, StreamTypes
<1>5. CASE ~sub[s].live
  BY <1>1, <1>2, <1>5, StreamTypes DEF Alone
<1> QED
  BY <1>4, <1>5

----------------------------------------------------------------------------
LEMMA KeptStays ==
  ASSUME NEW s, Kept(s), sub'[s] = sub[s],
         (at' = "retire" /\ block'.sub = s) <=> Retiring(s),
         sub[s].live \/ Retiring(s) => state'[sub[s].owner] = s,
         sub[s].live => sub[s].owner \in Watched'
  PROVE  Kept(s)'
  BY DEF Kept, LiveIsKept, RetiringIsKept, DeadIsStopped, Retiring

LEMMA KeptTaken ==
  ASSUME QuietInv, NEW s \in 1..lastSub, Kept(s), sub'[s] = Taken(sub[s]),
         (at' = "retire" /\ block'.sub = s) <=> Retiring(s),
         Retiring(s) => state'[sub[s].owner] = s
  PROVE  Kept(s)'
<1>1. sub[s] \in StreamRecord
  BY StreamTypes
<1>2. CASE sub[s].live
  <2>1. /\ ~Taken(sub[s]).live /\ Taken(sub[s]).stops = sub[s].stops + 1
        /\ Taken(sub[s]).stop = "asked" /\ Taken(sub[s]).cleaned = sub[s].cleaned
    BY <1>1, <1>2, TakenStream
  <2>2. ~Retiring(s) /\ sub[s].stops = 0 /\ ~sub[s].cleaned
    BY <1>2 DEF Kept, LiveIsKept, RetiringIsKept
  <2>3. /\ ~sub'[s].live /\ sub'[s].stops = 1 /\ sub'[s].stop = "asked"
        /\ ~sub'[s].cleaned
    BY <2>1, <2>2
  <2> QED
    BY <2>2, <2>3 DEF Kept, LiveIsKept, RetiringIsKept, DeadIsStopped, Retiring
<1>3. CASE ~sub[s].live
  BY <1>1, <1>3, TakenStream, KeptStays
<1> QED
  BY <1>2, <1>3

(* The actions that leave the streams and their states alone                *)
LEMMA KeptByOthers ==
  ASSUME OnceInv, UNCHANGED <<sub, state, lastSub>>,
         \A s \in 1..lastSub : (at' = "retire" /\ block'.sub = s) <=> Retiring(s),
         Watched \subseteq Watched'
  PROVE  StreamsAreKept'
  BY KeptStays DEF OnceInv, StreamsAreKept, Kept, LiveIsKept, RetiringIsKept

LEMMA KeptByStart ==
  ASSUME OnceInv, ~StartsInRetire, NEW t \in Thread, StartStream(t)
  PROVE  StreamsAreKept'
<1>1. /\ UNCHANGED <<at, block, subscriptions>>
      /\ state' = [state EXCEPT ![on[t]] = lastSub']
      /\ on[t] \notin pending /\ pending' = pending \cup {on[t]}
      /\ on[t] \notin subscriptions \/ on[t] \in invalid \cup needsResubscribe
      /\ invalid' = invalid \ {on[t]} /\ needsResubscribe' = needsResubscribe \ {on[t]}
      /\ ~Retiring(state[on[t]])
  BY DEF StartStream, MustSubscribe, queueVars
<1>2. on[t] \notin Watched /\ Watched \subseteq Watched' /\ on[t] \in Watched'
  BY <1>1 DEF Watched
<1>3. ASSUME NEW s \in 1..lastSub PROVE Kept(s)'
  <2>1. Kept(s) /\ sub[s].owner \in Watcher /\ s \in Sub /\ s # lastSub + 1
    BY StreamTypes DEF OnceInv, StreamsAreKept, QuietInv, CreatedHaveOwners
  <2>2. sub'[s] = sub[s]
    BY <2>1, StartEffect DEF OnceInv, Alone
  <2>3. sub[s].live \/ Retiring(s) => sub[s].owner # on[t] /\ state[sub[s].owner] = s
    BY <1>1, <1>2, <2>1 DEF Kept, LiveIsKept, RetiringIsKept
  <2>4. sub[s].live \/ Retiring(s) => state'[sub[s].owner] = s
    BY <1>1, <2>1, <2>3, StreamTypes DEF OnceInv
  <2>5. sub[s].live => sub[s].owner \in Watched'
    BY <1>2, <2>1 DEF Kept, LiveIsKept
  <2> QED
    BY <1>1, <2>1, <2>2, <2>4, <2>5, KeptStays DEF Retiring
<1>4. ASSUME NEW s, s = lastSub' PROVE Kept(s)'
  <2>1. ~(at' = "retire" /\ block'.sub = s)
    BY <1>1, <1>4, StreamTypes, StartEffect DEF OnceInv
  <2>2. state'[on[t]] = s /\ on[t] \in Watched'
    BY <1>1, <1>2, <1>4, StreamTypes DEF OnceInv
  <2>3. /\ sub'[s].live /\ sub'[s].running /\ sub'[s].owner = on[t]
        /\ sub'[s].stops = 0 /\ sub'[s].stop = "none" /\ ~sub'[s].cleaned
    BY <1>4, StartEffect DEF OnceInv
  <2> QED
    BY <2>1, <2>2, <2>3 DEF Kept, LiveIsKept, RetiringIsKept, DeadIsStopped, Retiring
<1>5. ASSUME NEW s \in (1..lastSub)' PROVE s \in 1..lastSub \/ s = lastSub'
  BY StartEffect, StreamTypes DEF OnceInv
<1> QED
  BY <1>3, <1>4, <1>5 DEF StreamsAreKept

(* A start that fails, or that is given up, clears the watcher's state.     *)
LEMMA KeptByStartFails ==
  ASSUME OnceInv, ~StartsInRetire, NEW t \in Thread, StartFails(t)
  PROVE  StreamsAreKept'
<1>1. /\ UNCHANGED <<at, block, subscriptions, pending, sub, lastSub>>
      /\ state' = [state EXCEPT ![on[t]] = NoSub]
      /\ on[t] \notin pending
      /\ on[t] \notin subscriptions \/ on[t] \in invalid \cup needsResubscribe
      /\ invalid' \subseteq invalid \cup {on[t]}
      /\ needsResubscribe' = needsResubscribe \ {on[t]}
      /\ ~Retiring(state[on[t]])
  BY DEF StartFails, MustSubscribe, queueVars
<1>2. on[t] \notin Watched /\ \A w \in Watched : w \in Watched'
  BY <1>1 DEF Watched
<1>3. ASSUME NEW s \in 1..lastSub PROVE Kept(s)'
  <2>1. Kept(s) /\ sub[s].owner \in Watcher
    BY DEF OnceInv, StreamsAreKept, QuietInv, CreatedHaveOwners
  <2>2. sub[s].live \/ Retiring(s) => sub[s].owner # on[t] /\ state[sub[s].owner] = s
    BY <1>1, <1>2, <2>1 DEF Kept, LiveIsKept, RetiringIsKept
  <2>3. sub[s].live \/ Retiring(s) => state'[sub[s].owner] = s
    BY <1>1, <2>1, <2>2, StreamTypes DEF OnceInv
  <2>4. sub[s].live => sub[s].owner \in Watched'
    BY <1>2, <2>1 DEF Kept, LiveIsKept
  <2> QED
    BY <1>1, <2>1, <2>3, <2>4, KeptStays DEF Retiring
<1> QED
  BY <1>1, <1>3 DEF StreamsAreKept

LEMMA KeptByScanFails ==
  ASSUME OnceInv, NEW t \in Thread, ScanFails(t) \/ ScanCancelled(t)
  PROVE  StreamsAreKept'
<1>1. /\ UNCHANGED <<at, block, subscriptions, lastSub>> /\ where[t] = "scan"
      /\ sub' = Stopped(mine[t])
      /\ state' = [state EXCEPT ![on[t]] = NoSub] \/ state' = state
      /\ \A w \in Watched \ {on[t]} : w \in Watched'
  BY DEF ScanFails, ScanCancelled, queueVars, boundVars, Watched
<1>2. /\ mine[t] \in 1..lastSub /\ sub[mine[t]].live /\ sub[mine[t]].owner = on[t]
      /\ state[on[t]] = mine[t]
  BY <1>1 DEF OnceInv, QuietInv, LockIsHeld, Locked, StartersAreAlone, StreamsAreKept,
    Kept, LiveIsKept
<1>3. \A s \in Sub : sub'[s] = IF s = mine[t] THEN Taken(sub[s]) ELSE sub[s]
  BY <1>1, StoppedStreams, StreamTypes DEF OnceInv
<1>4. ASSUME NEW s \in 1..lastSub PROVE Kept(s)'
  <2>1. Kept(s) /\ sub[s].owner \in Watcher /\ s \in Sub
    BY StreamTypes DEF OnceInv, StreamsAreKept, QuietInv, CreatedHaveOwners
  <2>2. CASE s = mine[t]
    <3>1. ~Retiring(s)
      BY <1>2, <2>1, <2>2 DEF Kept, RetiringIsKept
    <3> QED
      BY <1>1, <1>3, <2>1, <2>2, <3>1, KeptTaken DEF OnceInv, Retiring
  <2>3. CASE s # mine[t]
    <3>1. sub[s].live \/ Retiring(s) => sub[s].owner # on[t] /\ state[sub[s].owner] = s
      BY <1>2, <2>1, <2>3 DEF Kept, LiveIsKept, RetiringIsKept
    <3>2. sub[s].live \/ Retiring(s) => state'[sub[s].owner] = s
      BY <1>1, <2>1, <3>1, StreamTypes DEF OnceInv
    <3>3. sub[s].live => sub[s].owner \in Watched'
      BY <1>1, <2>1, <3>1 DEF Kept, LiveIsKept
    <3> QED
      BY <1>1, <1>3, <2>1, <2>3, <3>2, <3>3, KeptStays DEF Retiring
  <2> QED
    BY <2>2, <2>3
<1> QED
  BY <1>1, <1>4 DEF StreamsAreKept

LEMMA KeptByUnwatch ==
  ASSUME OnceInv, NEW t \in Thread, Unwatch(t)
  PROVE  StreamsAreKept'
<1>1. /\ UNCHANGED <<at, block, state, lastSub>> /\ sub' = Stopped(state[on[t]])
      /\ \A w \in Watched \ {on[t]} : w \in Watched'
  BY DEF Unwatch, queueVars, boundVars, Watched
<1>2. \A s \in Sub : sub'[s] = IF s = state[on[t]] THEN Taken(sub[s]) ELSE sub[s]
  BY <1>1, StoppedStreams, StreamTypes DEF OnceInv
<1>3. ASSUME NEW s \in 1..lastSub PROVE Kept(s)'
  <2>1. Kept(s) /\ s \in Sub
    BY StreamTypes DEF OnceInv, StreamsAreKept
  <2>2. CASE s = state[on[t]]
    BY <1>1, <1>2, <2>1, <2>2, KeptTaken DEF OnceInv, Retiring, Kept, RetiringIsKept
  <2>3. CASE s # state[on[t]]
    <3>1. sub[s].live \/ Retiring(s) => state[sub[s].owner] = s
      BY <2>1 DEF Kept, LiveIsKept, RetiringIsKept
    <3>2. sub[s].live => sub[s].owner \in Watched'
      BY <1>1, <2>1, <2>3 DEF Kept, LiveIsKept
    <3> QED
      BY <1>1, <1>2, <2>1, <2>3, <3>1, <3>2, KeptStays DEF Retiring
  <2> QED
    BY <2>2, <2>3
<1> QED
  BY <1>1, <1>3 DEF StreamsAreKept

(* finishUnsubscribe gives up a state only when its stream is cleaned.      *)
LEMMA KeptByFinishUnsubscribe ==
  ASSUME OnceInv, NEW t \in Thread, FinishUnsubscribe(t)
  PROVE  StreamsAreKept'
<1>1. /\ UNCHANGED <<at, block, sub, lastSub, subscriptions, pending, invalid,
                     needsResubscribe>>
      /\ mine[t] # NoSub => sub[mine[t]].cleaned
      /\ state' = IF state[on[t]] = mine[t] THEN [state EXCEPT ![on[t]] = NoSub] ELSE state
  BY DEF FinishUnsubscribe, queueVars, boundVars
<1>2. ASSUME NEW s \in 1..lastSub PROVE Kept(s)'
  <2>1. Kept(s) /\ sub[s].owner \in Watcher /\ s \in Sub /\ s # NoSub
    BY StreamTypes, NoneAssumption
      DEF OnceInv, StreamsAreKept, QuietInv, CreatedHaveOwners, Sub
  <2>2. sub[s].live \/ Retiring(s) => state[sub[s].owner] = s /\ s # mine[t]
    BY <1>1, <2>1 DEF Kept, LiveIsKept, RetiringIsKept
  <2>3. sub[s].live \/ Retiring(s) => state'[sub[s].owner] = s
    BY <1>1, <2>1, <2>2, StreamTypes DEF OnceInv
  <2>4. sub[s].live => sub[s].owner \in Watched'
    BY <1>1, <2>1 DEF Kept, LiveIsKept, Watched
  <2> QED
    BY <1>1, <2>1, <2>3, <2>4, KeptStays DEF Retiring
<1> QED
  BY <1>1, <1>2 DEF StreamsAreKept

LEMMA KeptByStop ==
  ASSUME OnceInv, NEW r \in Sub, StopStream(r)
  PROVE  StreamsAreKept'
<1>1. UNCHANGED <<at, block, state, lastSub, Watched>>
  BY DEF StopStream, backendVars, boundVars, Watched
<1>2. ASSUME NEW s \in 1..lastSub PROVE Kept(s)'
  <2>1. Kept(s) /\ s \in Sub
    BY StreamTypes DEF OnceInv, StreamsAreKept
  <2>2. CASE s = r
    <3>1. ~sub[s].live /\ ~Retiring(s) /\ sub[s].stops = 1 /\ ~sub[s].cleaned
      BY <2>1, <2>2, StopStreamEffect
        DEF OnceInv, Kept, LiveIsKept, RetiringIsKept, DeadIsStopped
    <3>2. ~sub'[s].live /\ sub'[s].stops = 1 /\ sub'[s].stop = "barrier" /\ ~sub'[s].cleaned
      BY <2>2, <3>1, StopStreamEffect DEF OnceInv
    <3> QED
      BY <1>1, <3>1, <3>2
        DEF Kept, LiveIsKept, RetiringIsKept, DeadIsStopped, Retiring
  <2>3. CASE s # r
    <3>1. sub'[s] = sub[s]
      BY <2>1, <2>3, StopStreamEffect DEF OnceInv, Alone
    <3> QED
      BY <1>1, <2>1, <3>1, KeptStays DEF Retiring, Kept, LiveIsKept, RetiringIsKept
  <2> QED
    BY <2>2, <2>3
<1> QED
  BY <1>1, <1>2 DEF StreamsAreKept

LEMMA KeptByProcess ==
  ASSUME OnceInv, Process
  PROVE  StreamsAreKept'
<1>1. UNCHANGED <<state, lastSub, Watched>> /\ at = "process"
  BY DEF Process, backendVars, boundVars, Watched
<1>2. CASE sub' = sub /\ at' = "idle"
  <2>1. \A s \in 1..lastSub : (at' = "retire" /\ block'.sub = s) <=> Retiring(s)
    BY <1>1, <1>2 DEF Retiring
  <2> QED
    BY <1>1, <1>2, <2>1, KeptByOthers
<1>3. CASE at' # "idle"
  <2>1. /\ at' = "retire" /\ block' = block /\ Alone(block.sub) /\ sub[block.sub].live
        /\ ~sub'[block.sub].live
        /\ sub'[block.sub].owner = sub[block.sub].owner
        /\ sub'[block.sub].stops = sub[block.sub].stops
        /\ sub'[block.sub].stop = sub[block.sub].stop
        /\ sub'[block.sub].cleaned = sub[block.sub].cleaned
    BY <1>3, ProcessEffect DEF OnceInv
  <2>2. ASSUME NEW s \in 1..lastSub PROVE Kept(s)'
    <3>1. Kept(s) /\ s \in Sub
      BY StreamTypes DEF OnceInv, StreamsAreKept
    <3>2. CASE s = block.sub
      <4>1. /\ sub[s].stops = 0 /\ sub[s].stop = "none" /\ state[sub[s].owner] = s
            /\ ~sub[s].cleaned
        BY <2>1, <3>1, <3>2 DEF Kept, LiveIsKept
      <4> QED
        BY <1>1, <2>1, <3>2, <4>1
          DEF Kept, LiveIsKept, RetiringIsKept, DeadIsStopped, Retiring
    <3>3. CASE s # block.sub
      BY <1>1, <2>1, <3>1, <3>3, KeptStays DEF Retiring, Kept, LiveIsKept, Alone
    <3> QED
      BY <3>2, <3>3
  <2> QED
    BY <1>1, <2>2 DEF StreamsAreKept
<1> QED
  BY <1>2, <1>3, ProcessEffect DEF OnceInv

(* The callback stops the stream it has taken: the state is still its own.  *)
LEMMA KeptByRetire ==
  ASSUME OnceInv, Retire
  PROVE  StreamsAreKept'
<1>1. /\ UNCHANGED <<state, lastSub>> /\ at = "retire" /\ at' = "idle"
      /\ \A w \in Watched \ {sub[block.sub].owner} : w \in Watched'
  BY DEF Retire, boundVars, EndBlock, Watched
<1>2. /\ Retiring(block.sub) /\ block.sub \in 1..lastSub
      /\ state[sub[block.sub].owner] = block.sub
  BY <1>1, StreamTypes DEF Retiring, OnceInv, StreamsAreKept, Kept, RetiringIsKept
<1>3. ASSUME NEW s \in 1..lastSub PROVE Kept(s)'
  <2>1. Kept(s) /\ s \in Sub
    BY StreamTypes DEF OnceInv, StreamsAreKept
  <2>2. CASE s = block.sub
    <3>1. ~sub[s].live /\ sub[s].stops = 0 /\ ~sub[s].cleaned
      BY <1>2, <2>1, <2>2 DEF Kept, RetiringIsKept
    <3>2. ~sub'[s].live /\ sub'[s].stops = 1 /\ sub'[s].stop = "asked" /\ ~sub'[s].cleaned
      BY <2>2, <3>1, RetireEffect DEF OnceInv
    <3> QED
      BY <1>1, <3>2 DEF Kept, LiveIsKept, RetiringIsKept, DeadIsStopped, Retiring
  <2>3. CASE s # block.sub
    <3>1. sub'[s] = sub[s] /\ ~Retiring(s)
      BY <2>1, <2>3, RetireEffect DEF OnceInv, Alone, Retiring
    <3>2. sub[s].live => state[sub[s].owner] = s /\ sub[s].owner \in Watched'
      BY <1>1, <1>2, <2>1, <2>3 DEF Kept, LiveIsKept
    <3> QED
      BY <1>1, <2>1, <3>1, <3>2, KeptStays
  <2> QED
    BY <2>2, <2>3
<1> QED
  BY <1>1, <1>3 DEF StreamsAreKept

LEMMA KeptByHandleError ==
  ASSUME OnceInv, HandleError
  PROVE  StreamsAreKept'
<1>1. /\ UNCHANGED <<state, lastSub, Watched>> /\ at = "error" /\ at' = "idle"
      /\ \A s \in Sub : sub'[s] = Taken(sub[s]) \/ sub'[s] = sub[s]
  BY DEF HandleError, boundVars, EndBlock, Watched
<1>2. ASSUME NEW s \in 1..lastSub PROVE Kept(s)'
  <2>1. Kept(s) /\ s \in Sub
    BY StreamTypes DEF OnceInv, StreamsAreKept
  <2>2. ~Retiring(s) /\ ~(at' = "retire" /\ block'.sub = s)
    BY <1>1 DEF Retiring
  <2>3. CASE sub'[s] = Taken(sub[s])
    BY <2>1, <2>2, <2>3, KeptTaken DEF OnceInv
  <2>4. CASE sub'[s] = sub[s]
    BY <1>1, <2>1, <2>2, <2>4, KeptStays DEF Kept, LiveIsKept
  <2> QED
    BY <1>1, <2>1, <2>3, <2>4
<1> QED
  BY <1>1, <1>2 DEF StreamsAreKept

LEMMA KeptByHandedOff ==
  ASSUME OnceInv, NEW t \in Thread, HandedOff(t)
  PROVE  StreamsAreKept'
<1>1. /\ UNCHANGED <<at, block, state, lastSub, subscriptions, pending, invalid>>
      /\ where[t] = "handoff" /\ at = "idle" /\ mine[t] \in 1..lastSub /\ Alone(mine[t])
  BY HandedOffEffect DEF HandedOff, boundVars, OnceInv
<1>2. /\ sub[mine[t]].live /\ sub[mine[t]].owner = on[t] /\ state[on[t]] = mine[t]
  BY <1>1 DEF OnceInv, Locked, StartersAreAlone, StreamsAreKept, Kept, LiveIsKept
<1>3. /\ sub'[mine[t]].owner = on[t] /\ sub'[mine[t]].cleaned = sub[mine[t]].cleaned
      /\ \/ /\ sub'[mine[t]].live /\ sub'[mine[t]].stops = sub[mine[t]].stops
            /\ sub'[mine[t]].stop = sub[mine[t]].stop
            /\ sub'[mine[t]].running = sub[mine[t]].running
            /\ needsResubscribe' = needsResubscribe
         \/ /\ ~sub'[mine[t]].live /\ sub'[mine[t]].stops = sub[mine[t]].stops + 1
            /\ sub'[mine[t]].stop = "asked"
            /\ needsResubscribe' = needsResubscribe \cup {on[t]}
  BY <1>2, HandedOffEffect DEF OnceInv
<1>4. \A w \in Watched \ {on[t]} : w \in Watched'
  BY <1>1, <1>3 DEF Watched
<1>5. needsResubscribe' = needsResubscribe => Watched' = Watched
  BY <1>1 DEF Watched
<1>6. ASSUME NEW s \in 1..lastSub PROVE Kept(s)'
  <2>1. Kept(s) /\ s \in Sub /\ ~Retiring(s) /\ ~(at' = "retire" /\ block'.sub = s)
    BY <1>1, StreamTypes DEF OnceInv, StreamsAreKept, Retiring
  <2>2. CASE s = mine[t]
    <3>1. /\ sub[s].stops = 0 /\ sub[s].stop = "none" /\ sub[s].running /\ ~sub[s].cleaned
          /\ on[t] \in Watched
      BY <1>2, <2>1, <2>2 DEF Kept, LiveIsKept
    <3>2. /\ sub'[s].owner = on[t] /\ ~sub'[s].cleaned /\ state'[on[t]] = s
          /\ \/ /\ sub'[s].live /\ sub'[s].stops = 0 /\ sub'[s].stop = "none"
                /\ sub'[s].running /\ on[t] \in Watched'
             \/ ~sub'[s].live /\ sub'[s].stops = 1 /\ sub'[s].stop = "asked"
      <4>1. sub'[s].owner = on[t] /\ ~sub'[s].cleaned /\ state'[on[t]] = s
        BY <1>1, <1>2, <1>3, <2>2, <3>1
      <4>2. CASE sub'[s].live
        BY <1>3, <1>5, <2>2, <3>1, <4>1, <4>2
      <4>3. CASE ~sub'[s].live
        <5>1. sub'[mine[t]].stops = sub[mine[t]].stops + 1 /\ sub'[mine[t]].stop = "asked"
          BY <1>3, <2>2, <4>3
        <5>2. sub'[s].stops = 1 /\ sub'[s].stop = "asked"
          BY <2>2, <3>1, <5>1
        <5> QED
          BY <4>1, <4>3, <5>2
      <4> QED
        BY <4>2, <4>3
    <3> QED
      BY <2>1, <3>2 DEF Kept, LiveIsKept, RetiringIsKept, DeadIsStopped, Retiring
  <2>3. CASE s # mine[t]
    <3>1. sub[s].live => state'[sub[s].owner] = s /\ sub[s].owner \in Watched'
      BY <1>1, <1>2, <1>4, <2>1, <2>3 DEF Kept, LiveIsKept
    <3>2. sub'[s] = sub[s]
      BY <1>1, <2>1, <2>3 DEF Alone
    <3> QED
      BY <2>1, <3>1, <3>2, KeptStays
  <2> QED
    BY <2>2, <2>3
<1> QED
  BY <1>1, <1>6 DEF StreamsAreKept

LEMMA KeptByBarrier ==
  ASSUME OnceInv, BarrierEnds
  PROVE  StreamsAreKept'
<1>1. UNCHANGED <<at, block, state, lastSub, Watched>> /\ at = "idle"
  BY BarrierEffect DEF BarrierEnds, backendVars, boundVars, Watched, OnceInv
<1>2. ASSUME NEW s \in 1..lastSub PROVE Kept(s)'
  <2>1. Kept(s) /\ s \in Sub /\ ~Retiring(s) /\ ~(at' = "retire" /\ block'.sub = s)
    BY <1>1, StreamTypes DEF OnceInv, StreamsAreKept, Retiring
  <2>2. CASE s = First.sub
    <3>1. ~sub[s].live /\ sub[s].stops = 1
      BY <2>1, <2>2, BarrierEffect DEF OnceInv, Kept, LiveIsKept, DeadIsStopped
    <3>2. ~sub'[s].live /\ sub'[s].stops = 1 /\ sub'[s].stop = "done"
      BY <2>2, <3>1, BarrierEffect DEF OnceInv
    <3> QED
      BY <2>1, <3>2 DEF Kept, LiveIsKept, RetiringIsKept, DeadIsStopped, Retiring
  <2>3. CASE s # First.sub
    <3>1. sub'[s] = sub[s]
      BY <2>1, <2>3, BarrierEffect DEF OnceInv, Alone
    <3> QED
      BY <1>1, <2>1, <3>1, KeptStays DEF Kept, LiveIsKept
  <2> QED
    BY <2>2, <2>3
<1> QED
  BY <1>1, <1>2 DEF StreamsAreKept

LEMMA KeptStep ==
  ASSUME OnceInv, ~StartsInRetire, [FSEventsNext]_fseventsVars
  PROVE  StreamsAreKept'
<1> USE DEF backendVars, eventVars, queueVars, callerVars, boundVars
<1>1. ASSUME UNCHANGED <<sub, state, lastSub, block, at>>, Watched \subseteq Watched'
      PROVE  StreamsAreKept'
  BY <1>1, KeptByOthers DEF Retiring
<1>2. ASSUME NEW t \in Thread, NEW w \in Watcher, CallWatch(t, w) \/ CallUnwatch(t, w)
      PROVE  StreamsAreKept'
  BY <1>1, <1>2 DEF CallWatch, CallUnwatch, Watched
<1>3. ASSUME NEW w \in Watcher, NEW root \in BOOLEAN, Cancel(w) \/ Change(w, root)
      PROVE  StreamsAreKept'
  BY <1>1, <1>3 DEF Cancel, Change, Watched
<1>4. ASSUME NEW s \in Sub, Deliver(s) \/ StopStream(s) PROVE StreamsAreKept'
  <2>1. CASE Deliver(s)
    BY <1>1, <2>1 DEF Deliver, Watched
  <2> QED
    BY <1>4, <2>1, KeptByStop
<1>5. ASSUME NEW t \in Thread, CallerStep(t) \/ HandOff(t) PROVE StreamsAreKept'
  <2>1. CASE NothingToWatch(t) \/ Scan(t) \/ Finish(t) \/ NothingToUnwatch(t) \/ HandOff(t)
    <3>1. UNCHANGED <<sub, state, lastSub, block, at>>
      BY <2>1 DEF NothingToWatch, Scan, Finish, NothingToUnwatch, HandOff
    <3>2. Watched \subseteq Watched'
      BY <2>1 DEF NothingToWatch, Scan, Finish, NothingToUnwatch, HandOff, Watched
    <3> QED
      BY <1>1, <3>1, <3>2
  <2> QED
    BY <1>5, <2>1, KeptByStart, KeptByStartFails, KeptByScanFails, KeptByUnwatch,
       KeptByFinishUnsubscribe DEF CallerStep
<1>6. CASE QueueStep
  <2>1. CASE CallbackLeaves \/ \E t \in Thread : FlushEnds(t)
    BY <1>1, <2>1 DEF CallbackLeaves, FlushEnds, AtOnce, Watched
  <2>2. CASE CallbackEnters \/ ProcessThrows
    <3>1. /\ UNCHANGED <<sub, state, lastSub, Watched>> /\ at' # "retire"
          /\ block = NoBlock \/ at = "process"
      BY <2>2 DEF CallbackEnters, ProcessThrows, Begins, Watched
    <3>2. at # "retire"
      BY <3>1, StreamTypes DEF OnceInv
    <3> QED
      BY <3>1, <3>2, KeptByOthers DEF Retiring
  <2> QED
    BY <1>6, <2>1, <2>2, KeptByProcess, KeptByRetire, KeptByHandleError, KeptByHandedOff,
       KeptByBarrier DEF QueueStep
<1>7. CASE UNCHANGED fseventsVars
  BY <1>1, <1>7 DEF fseventsVars, Watched
<1> QED
  BY <1>2, <1>3, <1>4, <1>5, <1>6, <1>7 DEF FSEventsNext

----------------------------------------------------------------------------
(* Nobody takes a stream whose start has yet to hand it over: who would     *)
(* needs mMutex, and processEvents has not begun for it.                    *)
LEMMA StarterKeepsStream ==
  ASSUME OnceInv, [FSEventsNext]_fseventsVars, NEW t \in Thread,
         where[t] \in Locked, where'[t] \in Locked
  PROVE  sub'[mine[t]].live /\ sub'[mine[t]].initializing /\ sub'[mine[t]].owner = on[t]
<1> USE DEF backendVars, eventVars, queueVars, callerVars, boundVars
<1>1. /\ mutex = t /\ mutex # NoThread /\ mine[t] \in 1..lastSub /\ mine[t] \in Sub
      /\ \A u \in Thread : where[u] \in Locked => u = t
      /\ sub[mine[t]].live /\ sub[mine[t]].initializing /\ sub[mine[t]].owner = on[t]
      /\ at # "idle" => mine[t] # block.sub
      /\ where \in [Thread -> Place]
  BY StreamTypes, NoneAssumption
    DEF OnceInv, QuietInv, LockIsHeld, StartersAreAlone, BlocksAreOfStreams
<1>2. CASE sub' = sub
  BY <1>1, <1>2
<1>3. ASSUME NEW u \in Thread, CallerStep(u) PROVE sub' = sub
  <2>1. ~ScanFails(u) /\ ~ScanCancelled(u)
    BY <1>1 DEF ScanFails, ScanCancelled, Goto, Locked
  <2> QED
    BY <1>1, <1>3, <2>1 DEF CallerStep, NothingToWatch, StartStream, StartFails,
      MustSubscribe, Scan, Finish, NothingToUnwatch, Unwatch, FinishUnsubscribe, Free
<1>4. ASSUME NEW s \in Sub, StopStream(s)
      PROVE  sub'[mine[t]].live /\ sub'[mine[t]].initializing /\ sub'[mine[t]].owner = on[t]
  BY <1>1, <1>4, StopStreamEffect DEF OnceInv, Alone
<1>5. CASE QueueStep
  <2>1. ASSUME NEW u \in Thread PROVE ~HandedOff(u)
    BY <1>1 DEF HandedOff, Goto, Locked
  <2>2. CASE Process \/ Retire
    BY <1>1, <2>2, ProcessEffect, RetireEffect DEF OnceInv, Alone
  <2>3. CASE BarrierEnds
    BY <1>1, <2>3, BarrierEffect DEF OnceInv, Alone
  <2>4. ~HandleError
    BY <1>1 DEF HandleError, Free
  <2>5. CASE CallbackLeaves \/ CallbackEnters \/ ProcessThrows
             \/ \E u \in Thread : FlushEnds(u)
    BY <1>2, <2>5 DEF CallbackLeaves, CallbackEnters, ProcessThrows, FlushEnds
  <2> QED
    BY <1>5, <2>1, <2>2, <2>3, <2>4, <2>5 DEF QueueStep
<1>6. ASSUME NEW u \in Thread, NEW w \in Watcher, CallWatch(u, w) \/ CallUnwatch(u, w)
      PROVE  sub' = sub
  BY <1>6 DEF CallWatch, CallUnwatch
<1>7. ASSUME NEW w \in Watcher, NEW root \in BOOLEAN, Cancel(w) \/ Change(w, root)
      PROVE  sub' = sub
  BY <1>7 DEF Cancel, Change
<1>8. ASSUME NEW s \in Sub, Deliver(s) PROVE sub' = sub
  BY <1>8 DEF Deliver
<1>9. ASSUME NEW u \in Thread, HandOff(u) PROVE sub' = sub
  BY <1>9 DEF HandOff
<1>10. CASE UNCHANGED fseventsVars
  BY <1>2, <1>10 DEF fseventsVars
<1> QED
  BY <1>2, <1>3, <1>4, <1>5, <1>6, <1>7, <1>8, <1>9, <1>10 DEF FSEventsNext

(* What changes for the callers that start a stream: one of them, t, at     *)
(* most leaves, and takes its watcher alone out of mPendingSubscriptions.   *)
LEMMA StartersStay ==
  ASSUME OnceInv, [FSEventsNext]_fseventsVars,
         \A u \in Thread : where'[u] \in Starting =>
           /\ where[u] \in Starting /\ on'[u] = on[u] /\ on[u] \in pending'
           /\ where'[u] \in Locked => where[u] \in Locked /\ mine'[u] = mine[u]
  PROVE  StartersAreAlone'
  BY StarterKeepsStream DEF OnceInv, StartersAreAlone, Starting

LEMMA StartersStep ==
  ASSUME OnceInv, [FSEventsNext]_fseventsVars
  PROVE  StartersAreAlone'
<1> USE DEF backendVars, eventVars, queueVars, callerVars, boundVars, Goto
<1>0. /\ where \in [Thread -> Place] /\ on \in [Thread -> Watcher]
      /\ mine \in [Thread -> Sub \cup {NoSub}]
      /\ \A t \in Thread : where[t] \in Starting =>
           /\ on[t] \in pending
           /\ \A u \in Thread : where[u] \in Starting /\ on[u] = on[t] => u = t
  BY StreamTypes DEF OnceInv, StartersAreAlone
<1>1. CASE UNCHANGED <<where, on, mine, pending>>
  BY <1>0, <1>1, StartersStay DEF Starting
<1>2. ASSUME NEW t \in Thread, NEW w \in Watcher, CallWatch(t, w) \/ CallUnwatch(t, w)
      PROVE  StartersAreAlone'
  <2>1. /\ UNCHANGED <<mine, pending>> /\ on' = [on EXCEPT ![t] = w]
        /\ \E place \in {"watch", "unwatch"} : where' = [where EXCEPT ![t] = place]
    BY <1>2 DEF CallWatch, CallUnwatch
  <2> QED
    BY <1>0, <2>1, StartersStay DEF Starting, Locked
<1>3. ASSUME NEW w \in Watcher, NEW root \in BOOLEAN, Cancel(w) \/ Change(w, root)
      PROVE  StartersAreAlone'
  BY <1>1, <1>3 DEF Cancel, Change
<1>4. ASSUME NEW s \in Sub, Deliver(s) \/ StopStream(s) PROVE StartersAreAlone'
  BY <1>1, <1>4 DEF Deliver, StopStream
<1>5. ASSUME NEW t \in Thread, CallerStep(t) \/ HandOff(t) PROVE StartersAreAlone'
  <2>1. CASE StartStream(t)
    <3>1. /\ where' = [where EXCEPT ![t] = "scan"] /\ on' = on
          /\ mine' = [mine EXCEPT ![t] = lastSub']
          /\ on[t] \notin pending /\ pending' = pending \cup {on[t]}
          /\ mutex = NoThread
      BY <2>1 DEF StartStream, MustSubscribe, Free
    <3>2. \A u \in Thread : where[u] \notin Locked
      BY <3>1, NoneAssumption DEF OnceInv, QuietInv, LockIsHeld
    <3>3. /\ sub'[lastSub'].live /\ sub'[lastSub'].initializing
          /\ sub'[lastSub'].owner = on[t]
      BY <2>1, StartEffect DEF OnceInv
    <3>4. \A u \in Thread \ {t} : /\ where'[u] = where[u] /\ where[u] \notin Locked
                                  /\ where[u] \in Starting => on[u] # on[t]
      BY <1>0, <3>1, <3>2
    <3>5. where'[t] \in Starting /\ mine'[t] = lastSub'
      BY <1>0, <3>1 DEF Starting, Locked
    <3> QED
      BY <1>0, <3>1, <3>3, <3>4, <3>5 DEF StartersAreAlone
  <2>2. CASE NothingToWatch(t) \/ StartFails(t) \/ NothingToUnwatch(t) \/ Unwatch(t)
             \/ FinishUnsubscribe(t)
    <3>1. /\ UNCHANGED <<on, pending>>
          /\ \A u \in Thread \ {t} : mine'[u] = mine[u]
          /\ \E place \in {"out", "detach"} : where' = [where EXCEPT ![t] = place]
      BY <1>0, <2>2 DEF NothingToWatch, StartFails, NothingToUnwatch, Unwatch,
        FinishUnsubscribe
    <3> QED
      BY <1>0, <3>1, StartersStay DEF Starting, Locked
  <2>3. CASE ScanFails(t) \/ Finish(t)
    <3>1. /\ where[t] \in Starting /\ on' = on /\ pending' = pending \ {on[t]}
          /\ where' = [where EXCEPT ![t] = "out"]
          /\ \A u \in Thread \ {t} : mine'[u] = mine[u]
      BY <1>0, <2>3 DEF ScanFails, Finish, Starting, Locked
    <3>2. \A u \in Thread \ {t} : where[u] \in Starting => on[u] # on[t]
      BY <1>0, <3>1
    <3> QED
      BY <1>0, <3>1, <3>2, StartersStay DEF Starting, Locked
  <2>4. CASE ScanCancelled(t) \/ Scan(t) \/ HandOff(t)
    <3>1. /\ UNCHANGED <<on, pending, mine>> /\ where[t] \in Locked
          /\ \E place \in Starting : where' = [where EXCEPT ![t] = place]
      BY <2>4 DEF ScanCancelled, Scan, HandOff, Starting, Locked
    <3> QED
      BY <1>0, <3>1, StartersStay DEF Starting
  <2> QED
    BY <1>5, <2>1, <2>2, <2>3, <2>4 DEF CallerStep
<1>6. CASE QueueStep
  <2>1. ASSUME NEW t \in Thread, FlushEnds(t) \/ HandedOff(t) PROVE StartersAreAlone'
    <3>1. /\ UNCHANGED <<on, pending, mine>> /\ where[t] \in Locked
          /\ \E place \in Starting : where' = [where EXCEPT ![t] = place]
      BY <2>1 DEF FlushEnds, HandedOff, Starting, Locked
    <3> QED
      BY <1>0, <3>1, StartersStay DEF Starting
  <2>2. CASE CallbackLeaves \/ CallbackEnters \/ Process \/ Retire \/ ProcessThrows
             \/ HandleError \/ BarrierEnds
    BY <1>1, <2>2 DEF CallbackLeaves, CallbackEnters, Process, Retire, ProcessThrows,
      HandleError, BarrierEnds
  <2> QED
    BY <1>6, <2>1, <2>2 DEF QueueStep
<1>7. CASE UNCHANGED fseventsVars
  BY <1>1, <1>7 DEF fseventsVars
<1> QED
  BY <1>2, <1>3, <1>4, <1>5, <1>6, <1>7 DEF FSEventsNext

LEMMA OnceInvStep ==
  ASSUME OnceInv, ~StartsInRetire, [FSEventsNext]_fseventsVars
  PROVE  OnceInv'
<1>1. QuietInv'
  BY QuietInvStep DEF OnceInv
<1>2. StartersAreAlone'
  BY StartersStep
<1>3. StreamsAreKept'
  BY KeptStep
<1> QED
  BY <1>1, <1>2, <1>3 DEF OnceInv

LEMMA InitOnceInv == FSEventsInit => OnceInv
<1> SUFFICES ASSUME FSEventsInit PROVE OnceInv
  OBVIOUS
<1>1. StartersAreAlone
  BY DEF FSEventsInit, StartersAreAlone, Starting, Locked
<1>2. StreamsAreKept
  BY DEF FSEventsInit, StreamsAreKept
<1> QED
  BY <1>1, <1>2, InitQuietInv DEF OnceInv

(* A caller, a callback and an error that take a stream take it with an     *)
(* exchange, so one of them stops it; and until one does, the watcher's     *)
(* state leads the next unsubscribe to it.  That no start comes between the *)
(* exchange of a callback and the lines that follow it is what the theorem  *)
(* assumes.                                                                 *)
THEOREM StreamsAreStoppedOnce ==
  ASSUME ~StartsInRetire
  PROVE  FSEventsSpec => []StoppedOnce
<1>1. OnceInv => StoppedOnce
  BY DEF OnceInv, StreamsAreKept, Kept, LiveIsKept, RetiringIsKept, DeadIsStopped,
    StoppedOnce
<1>2. OnceInv /\ [FSEventsNext]_fseventsVars => OnceInv'
  BY OnceInvStep
<1> QED
  BY <1>1, <1>2, InitOnceInv, PTL DEF FSEventsSpec

----------------------------------------------------------------------------
(* Induction over the natural numbers, for what FlattenSeq computes         *)
LEMMA LeastNat ==
  ASSUME NEW T, T \subseteq Nat, T # {}
  PROVE  \E n \in T : \A m \in T : n <= m
<1> DEFINE R == {p \in Nat \X Nat : p[1] < p[2]}
<1>1. IsWellFoundedOn(R, Nat)
  BY NatLessThanWellFounded DEF OpToRel
<1>2. \E n \in T : \A m \in T : ~ (<<m, n>> \in R)
  <2> HIDE DEF R
  <2> QED
    BY <1>1, WFMin
<1>3. PICK n \in T : \A m \in T : ~ (<<m, n>> \in R)
  BY <1>2
<1>4. ASSUME NEW m \in T PROVE n <= m
  <2>1. m \in Nat /\ n \in Nat /\ ~(<<m, n>> \in R)
    BY <1>3
  <2>2. ~(m < n)
    BY <2>1
  <2> QED
    BY <2>1, <2>2
<1> QED
  BY <1>4

LEMMA SetInduction ==
  ASSUME NEW S, 0 \in S, \A n \in Nat : n \in S => n + 1 \in S
  PROVE  \A n \in Nat : n \in S
<1> SUFFICES ASSUME Nat \ S # {} PROVE FALSE
  OBVIOUS
<1>1. PICK n \in Nat \ S : \A m \in Nat \ S : n <= m
  BY LeastNat
<1>2. n # 0 /\ n - 1 \in Nat /\ n - 1 \notin Nat \ S
  BY <1>1
<1> QED
  BY <1>2

(* What FlattenSeq computes: g[i] joins the first i sequences of q.         *)
Joins(g, n, q) ==
  /\ n >= 1 => g[1] = q[1]
  /\ \A i \in 1..n : i < n => g[i + 1] = g[i] \o q[i + 1]

LEMMA JoinedIs ==
  ASSUME NEW n \in Nat, NEW q, NEW g,
         g = [i \in 1..n |-> IF i = 1 THEN q[i] ELSE g[i - 1] \o q[i]]
  PROVE  Joins(g, n, q)
<1>1. \A i \in 1..n : g[i] = IF i = 1 THEN q[i] ELSE g[i - 1] \o q[i]
  OBVIOUS
<1>2. ASSUME NEW i \in 1..n, i < n PROVE g[i + 1] = g[i] \o q[i + 1]
  <2>1. i + 1 \in 1..n /\ i + 1 # 1 /\ (i + 1) - 1 = i
    BY <1>2
  <2> QED
    BY <1>1, <2>1
<1>3. n >= 1 => g[1] = q[1]
  BY <1>1
<1> QED
  BY <1>2, <1>3 DEF Joins

LEMMA JoinedExists ==
  ASSUME NEW q, NEW k \in Nat
  PROVE  \E g : g = [i \in 1..k |-> IF i = 1 THEN q[i] ELSE g[i - 1] \o q[i]]
<1> DEFINE Exists(n) ==
             \E g : g = [i \in 1..n |-> IF i = 1 THEN q[i] ELSE g[i - 1] \o q[i]]
           S == {n \in Nat : Exists(n)}
<1>1. 0 \in S
  <2> DEFINE g == [i \in 1..0 |-> <<>>]
  <2>1. g = [i \in 1..0 |-> IF i = 1 THEN q[i] ELSE g[i - 1] \o q[i]]
    OBVIOUS
  <2> HIDE DEF g
  <2> QED
    BY <2>1
<1>2. ASSUME NEW n \in Nat, n \in S PROVE n + 1 \in S
  <2>1. PICK g : g = [i \in 1..n |-> IF i = 1 THEN q[i] ELSE g[i - 1] \o q[i]]
    BY <1>2
  <2> DEFINE h == [i \in 1..n + 1 |-> IF i = 1 THEN q[i] ELSE g[i - 1] \o q[i]]
  <2>2. \A i \in 1..n : g[i] = IF i = 1 THEN q[i] ELSE g[i - 1] \o q[i]
    BY <2>1
  <2>3. \A i \in 1..n : h[i] = g[i]
    BY <2>2
  <2>4. \A i \in 1..n + 1 : i # 1 => i - 1 \in 1..n
    OBVIOUS
  <2>5. \A i \in 1..n + 1 : h[i] = IF i = 1 THEN q[i] ELSE g[i - 1] \o q[i]
    OBVIOUS
  <2>6. h = [i \in 1..n + 1 |-> h[i]]
    OBVIOUS
  <2> HIDE DEF h
  <2>7. \A i \in 1..n + 1 : h[i] = IF i = 1 THEN q[i] ELSE h[i - 1] \o q[i]
    BY <2>3, <2>4, <2>5
  <2>8. h = [i \in 1..n + 1 |-> IF i = 1 THEN q[i] ELSE h[i - 1] \o q[i]]
    BY <2>6, <2>7
  <2>9. Exists(n + 1)
    BY <2>8
  <2> HIDE DEF Exists
  <2> QED
    BY <2>9
<1> HIDE DEF S
<1>3. k \in S
  BY <1>1, <1>2, SetInduction
<1> QED
  BY <1>3 DEF S

LEMMA JoinedType ==
  ASSUME NEW q \in Seq(Seq(Int)), NEW g, Joins(g, Len(q), q), NEW i \in 1..Len(q)
  PROVE  g[i] \in Seq(Int)
<1> DEFINE S == {n \in Nat : n + 1 \in 1..Len(q) => g[n + 1] \in Seq(Int)}
<1>0. Len(q) \in Nat /\ \A j \in 1..Len(q) : q[j] \in Seq(Int)
  OBVIOUS
<1>1. 0 \in S
  BY <1>0 DEF Joins
<1>2. ASSUME NEW n \in Nat, n \in S PROVE n + 1 \in S
  <2>1. CASE (n + 1) + 1 \in 1..Len(q)
    <3>1. n + 1 \in 1..Len(q) /\ n + 1 < Len(q)
      BY <1>0, <2>1
    <3>2. g[n + 1] \in Seq(Int) /\ q[(n + 1) + 1] \in Seq(Int)
      BY <1>0, <1>2, <2>1, <3>1
    <3>3. g[(n + 1) + 1] = g[n + 1] \o q[(n + 1) + 1]
      BY <3>1 DEF Joins
    <3>4. g[(n + 1) + 1] \in Seq(Int)
      BY <3>2, <3>3
    <3> QED
      BY <3>4
  <2> QED
    BY <2>1
<1> HIDE DEF S
<1>3. i - 1 \in Nat /\ (i - 1) + 1 = i
  BY <1>0
<1>4. i - 1 \in S
  BY <1>1, <1>2, <1>3, SetInduction
<1> QED
  BY <1>3, <1>4 DEF S

(* Joining looks at the sequences in front only.                            *)
LEMMA JoinedAgree ==
  ASSUME NEW n \in Nat, NEW q, NEW r, NEW g, NEW h, Joins(g, n, q), Joins(h, n + 1, r),
         \A j \in 1..n : q[j] = r[j], n # 0
  PROVE  g[n] = h[n]
<1> DEFINE S == {j \in Nat : j + 1 \in 1..n => g[j + 1] = h[j + 1]}
<1>1. 0 \in S
  BY DEF Joins
<1>2. ASSUME NEW j \in Nat, j \in S PROVE j + 1 \in S
  <2>1. CASE (j + 1) + 1 \in 1..n
    <3>1. /\ j + 1 \in 1..n /\ j + 1 \in 1..n + 1 /\ j + 1 < n /\ j + 1 < n + 1
      BY <2>1
    <3>2. g[j + 1] = h[j + 1]
      BY <1>2, <3>1
    <3>3. g[(j + 1) + 1] = g[j + 1] \o q[(j + 1) + 1]
      BY <3>1 DEF Joins
    <3>4. h[(j + 1) + 1] = h[j + 1] \o r[(j + 1) + 1]
      BY <3>1 DEF Joins
    <3>5. q[(j + 1) + 1] = r[(j + 1) + 1]
      BY <2>1
    <3>6. g[(j + 1) + 1] = h[(j + 1) + 1]
      BY <3>2, <3>3, <3>4, <3>5
    <3> QED
      BY <3>6
  <2> QED
    BY <2>1
<1> HIDE DEF S
<1>3. n - 1 \in Nat /\ (n - 1) + 1 = n
  OBVIOUS
<1>4. n - 1 \in S
  BY <1>1, <1>2, <1>3, SetInduction
<1> QED
  BY <1>3, <1>4 DEF S

LEMMA FlatIs ==
  ASSUME NEW q, Len(q) \in Nat, Len(q) # 0
  PROVE  \E g : Joins(g, Len(q), q) /\ FlattenSeq(q) = g[Len(q)]
<1> DEFINE P(f) == f = [i \in 1..Len(q) |-> IF i = 1 THEN q[i] ELSE f[i - 1] \o q[i]]
           c == CHOOSE f : P(f)
<1>1. FlattenSeq(q) = c[Len(q)]
  BY DEF FlattenSeq
<1>2. \E f : P(f)
  BY JoinedExists
<1>3. P(c)
  <2> HIDE DEF P
  <2> QED
    BY <1>2
<1> HIDE DEF c
<1>4. Joins(c, Len(q), q)
  BY <1>3, JoinedIs
<1> QED
  BY <1>1, <1>4

----------------------------------------------------------------------------
(* FlattenSeq over the two ends of a sequence of sequences                  *)
LEMMA Regroup ==
  \A x, y, z \in Seq(Int) : (x \o y) \o z = x \o (y \o z) /\ x \o y \in Seq(Int)
  BY ConcatAssociative, ConcatProperties

LEMMA FlatEmpty == FlattenSeq(<<>>) = <<>>
  BY DEF FlattenSeq

LEMMA FlatType ==
  ASSUME NEW q \in Seq(Seq(Int))
  PROVE  FlattenSeq(q) \in Seq(Int)
<1>1. CASE q = <<>>
  <2>1. <<>> \in Seq(Int)
    OBVIOUS
  <2> QED
    BY <1>1, <2>1, FlatEmpty
<1>2. CASE q # <<>>
  <2>1. Len(q) \in Nat /\ Len(q) # 0 /\ Len(q) \in 1..Len(q)
    BY <1>2
  <2> QED
    BY <2>1, FlatIs, JoinedType
<1> QED
  BY <1>1, <1>2

LEMMA FlatAppend ==
  ASSUME NEW q \in Seq(Seq(Int)), NEW x \in Seq(Int)
  PROVE  FlattenSeq(Append(q, x)) = FlattenSeq(q) \o x
<1> DEFINE r == Append(q, x)
           n == Len(q)
<1>1. /\ r \in Seq(Seq(Int)) /\ n \in Nat /\ Len(r) = n + 1 /\ r[n + 1] = x
      /\ \A j \in 1..n : r[j] = q[j]
  OBVIOUS
<1>2. n = 0 => q = <<>>
  OBVIOUS
<1> HIDE DEF r, n
<1>3. PICK h : Joins(h, n + 1, r) /\ FlattenSeq(r) = h[n + 1]
  <2>1. Len(r) \in Nat /\ Len(r) # 0
    BY <1>1
  <2>2. \E h : Joins(h, Len(r), r) /\ FlattenSeq(r) = h[Len(r)]
    BY <2>1, FlatIs
  <2> QED
    BY <1>1, <2>2
<1>4. CASE n = 0
  <2>1. FlattenSeq(r) = x
    BY <1>1, <1>3, <1>4 DEF Joins
  <2>2. FlattenSeq(q) = <<>> /\ <<>> \o x = x
    BY <1>2, <1>4, FlatEmpty
  <2> QED
    BY <2>1, <2>2 DEF r
<1>5. CASE n # 0
  <2>1. PICK g : Joins(g, n, q) /\ FlattenSeq(q) = g[n]
    BY <1>1, <1>5, FlatIs DEF n
  <2>2. n \in 1..n /\ n \in 1..n + 1 /\ n < n + 1 /\ n <= n /\ n <= n + 1 /\ n + 1 \in Nat
    BY <1>1, <1>5
  <2>3. \A j \in 1..n : q[j] = r[j]
    BY <1>1
  <2>4. g[n] = h[n]
    BY <1>1, <1>3, <1>5, <2>1, <2>3, JoinedAgree
  <2>5. h[n + 1] = h[n] \o r[n + 1]
    BY <1>3, <2>2 DEF Joins
  <2> QED
    BY <1>1, <1>3, <2>1, <2>4, <2>5 DEF r
<1> QED
  BY <1>4, <1>5

LEMMA FlatCons ==
  ASSUME NEW q \in Seq(Seq(Int)), NEW x \in Seq(Int)
  PROVE  FlattenSeq(<<x>> \o q) = x \o FlattenSeq(q)
<1> DEFINE r == <<x>> \o q
           n == Len(q)
<1>1. /\ n \in Nat /\ Len(r) = n + 1 /\ r[1] = x
      /\ \A j \in 1..n : r[j + 1] = q[j] /\ q[j] \in Seq(Int)
  OBVIOUS
<1>2. n = 0 => q = <<>>
  OBVIOUS
<1> HIDE DEF r, n
<1>3. PICK h : Joins(h, n + 1, r) /\ FlattenSeq(r) = h[n + 1]
  BY <1>1, FlatIs
<1>4. h[1] = x
  BY <1>1, <1>3 DEF Joins
<1>5. CASE n = 0
  <2>1. FlattenSeq(q) = <<>> /\ x \o <<>> = x
    BY <1>2, <1>5, FlatEmpty
  <2> QED
    BY <1>3, <1>4, <1>5, <2>1 DEF r
<1>6. CASE n # 0
  <2>1. PICK g : Joins(g, n, q) /\ FlattenSeq(q) = g[n]
    BY <1>1, <1>6, FlatIs DEF n
  <2>2. \A i \in 1..n : g[i] \in Seq(Int)
    BY <2>1, JoinedType DEF n
  <2> DEFINE S == {i \in Nat : i + 1 \in 1..n => h[(i + 1) + 1] = x \o g[i + 1]}
  <2>3. 0 \in S
    <3>1. 1 \in 1..n /\ 1 \in 1..n + 1 /\ 1 < n + 1
      BY <1>1, <1>6
    <3>2. h[1 + 1] = h[1] \o r[1 + 1]
      BY <1>3, <3>1 DEF Joins
    <3>3. g[1] = q[1]
      BY <1>1, <1>6, <2>1 DEF Joins
    <3>4. r[1 + 1] = q[1]
      BY <1>1, <3>1
    <3>5. h[1 + 1] = x \o g[1]
      BY <1>4, <3>2, <3>3, <3>4
    <3>6. h[(0 + 1) + 1] = x \o g[0 + 1]
      BY <3>5
    <3> QED
      BY <3>6
  <2>4. ASSUME NEW i \in Nat, i \in S PROVE i + 1 \in S
    <3>1. CASE (i + 1) + 1 \in 1..n
      <4> DEFINE j == i + 1
      <4>1. /\ j \in 1..n /\ j < n /\ j + 1 \in 1..n /\ j + 1 \in 1..n + 1 /\ j + 1 < n + 1
        BY <1>1, <3>1
      <4>2. h[j + 1] = x \o g[j]
        BY <2>4, <4>1
      <4> HIDE DEF j
      <4>3. h[(j + 1) + 1] = h[j + 1] \o r[(j + 1) + 1]
        BY <1>3, <4>1 DEF Joins
      <4>4. g[j + 1] = g[j] \o q[j + 1]
        BY <2>1, <4>1 DEF Joins
      <4>5. r[(j + 1) + 1] = q[j + 1] /\ q[j + 1] \in Seq(Int) /\ g[j] \in Seq(Int)
        <5>1. r[(j + 1) + 1] = q[j + 1] /\ q[j + 1] \in Seq(Int)
          BY <1>1, <4>1
        <5>2. g[j] \in Seq(Int)
          BY <2>2, <4>1
        <5> QED
          BY <5>1, <5>2
      <4>6. (x \o g[j]) \o q[j + 1] = x \o (g[j] \o q[j + 1])
        BY <4>5, Regroup
      <4>7. h[(j + 1) + 1] = x \o g[j + 1]
        BY <4>2, <4>3, <4>4, <4>5, <4>6
      <4> QED
        BY <4>7 DEF j
    <3> QED
      BY <3>1
  <2> HIDE DEF S
  <2>5. n - 1 \in Nat /\ (n - 1) + 1 = n /\ n \in 1..n
    BY <1>1, <1>6
  <2>6. n - 1 \in S
    BY <2>3, <2>4, <2>5, SetInduction
  <2>7. h[n + 1] = x \o g[n]
    BY <2>5, <2>6 DEF S
  <2> QED
    BY <1>3, <2>1, <2>7 DEF r
<1> QED
  BY <1>5, <1>6

----------------------------------------------------------------------------
(* The events of a stream that wait in mQueue                               *)
Told(s, b) == IF IsCallback(b, s) THEN b.events ELSE <<>>

LEMMA ToldType ==
  ASSUME NEW s, NEW b \in BlockRecord
  PROVE  Told(s, b) \in Seq(Int)
<1>1. <<>> \in Seq(Int)
  OBVIOUS
<1> QED
  BY <1>1 DEF Told, BlockRecord

LEMMA EventsAre ==
  ASSUME NEW s, NEW q \in Seq(BlockRecord)
  PROVE  /\ EventsOf(s, q) = FlattenSeq([i \in DOMAIN q |-> Told(s, q[i])])
         /\ [i \in DOMAIN q |-> Told(s, q[i])] \in Seq(Seq(Int))
         /\ EventsOf(s, q) \in Seq(Int)
<1> DEFINE m == [i \in DOMAIN q |-> Told(s, q[i])]
<1>2. \A i \in 1..Len(q) : Told(s, q[i]) \in Seq(Int)
  <2>1. \A i \in 1..Len(q) : q[i] \in BlockRecord
    OBVIOUS
  <2> QED
    BY <2>1, ToldType
<1>3. m \in Seq(Seq(Int))
  <2>1. m = [i \in 1..Len(q) |-> Told(s, q[i])] /\ Len(q) \in Nat
    OBVIOUS
  <2>2. m \in [1..Len(q) -> Seq(Int)]
    BY <1>2, <2>1
  <2> HIDE DEF m
  <2> QED
    BY <2>1, <2>2
<1>4. EventsOf(s, q) = FlattenSeq(m)
  BY DEF EventsOf, Told
<1> HIDE DEF m
<1>5. EventsOf(s, q) \in Seq(Int)
  BY <1>3, <1>4, FlatType
<1> QED
  BY <1>3, <1>4, <1>5 DEF m

LEMMA EventsEmpty == \A s : EventsOf(s, <<>>) = <<>>
<1> TAKE s
<1>1. [i \in DOMAIN <<>> |-> IF IsCallback(<<>>[i], s) THEN <<>>[i].events ELSE <<>>] = <<>>
  OBVIOUS
<1> QED
  BY <1>1, FlatEmpty DEF EventsOf

LEMMA EventsAppend ==
  ASSUME NEW s, NEW q \in Seq(BlockRecord), NEW b \in BlockRecord
  PROVE  EventsOf(s, Append(q, b)) = EventsOf(s, q) \o Told(s, b)
<1> DEFINE m == [i \in DOMAIN q |-> Told(s, q[i])]
           r == Append(q, b)
           n == [i \in DOMAIN r |-> Told(s, r[i])]
<1>1. /\ r \in Seq(BlockRecord) /\ Len(q) \in Nat /\ DOMAIN q = 1..Len(q)
      /\ DOMAIN r = 1..Len(q) + 1 /\ r[Len(q) + 1] = b
      /\ \A i \in 1..Len(q) : r[i] = q[i]
  OBVIOUS
<1> HIDE DEF r
<1>2. m \in Seq(Seq(Int)) /\ EventsOf(s, q) = FlattenSeq(m)
  BY EventsAre
<1>3. n \in Seq(Seq(Int)) /\ EventsOf(s, r) = FlattenSeq(n)
  BY <1>1, EventsAre
<1>4. DOMAIN m = 1..Len(q) /\ DOMAIN n = 1..Len(q) + 1
  BY <1>1
<1>5. /\ \A i \in 1..Len(q) : m[i] = Told(s, q[i]) /\ n[i] = Told(s, q[i])
      /\ n[Len(q) + 1] = Told(s, b)
  BY <1>1
<1> HIDE DEF m, n
<1>6. n = Append(m, Told(s, b))
  <2>1. Len(m) = Len(q) /\ Len(n) = Len(q) + 1
    BY <1>1, <1>2, <1>3, <1>4
  <2> DEFINE a == Append(m, Told(s, b))
  <2>2. /\ a \in Seq(Seq(Int)) /\ Len(a) = Len(q) + 1 /\ a[Len(q) + 1] = Told(s, b)
        /\ \A i \in 1..Len(q) : a[i] = m[i]
    BY <1>1, <1>2, <2>1, ToldType
  <2> HIDE DEF a
  <2>3. \A i \in 1..Len(q) + 1 : i = Len(q) + 1 \/ i \in 1..Len(q)
    BY <1>1
  <2>4. \A i \in 1..Len(q) : a[i] = n[i]
    BY <1>5, <2>2
  <2>5. \A i \in 1..Len(q) + 1 : a[i] = n[i]
    BY <1>5, <2>2, <2>3, <2>4
  <2>6. a = n
    <3>1. /\ a \in Seq(Seq(Int)) /\ n \in Seq(Seq(Int)) /\ Len(a) = Len(n)
          /\ \A i \in 1..Len(a) : a[i] = n[i]
      BY <1>3, <2>1, <2>2, <2>5
    <3> QED
      BY <3>1, SeqEqual
  <2> QED
    BY <2>6 DEF a
<1>7. FlattenSeq(n) = FlattenSeq(m) \o Told(s, b)
  BY <1>2, <1>6, FlatAppend, ToldType
<1> QED
  BY <1>2, <1>3, <1>7 DEF r

LEMMA EventsCons ==
  ASSUME NEW s, NEW q \in Seq(BlockRecord), NEW b \in BlockRecord
  PROVE  EventsOf(s, <<b>> \o q) = Told(s, b) \o EventsOf(s, q)
<1> DEFINE m == [i \in DOMAIN q |-> Told(s, q[i])]
           r == <<b>> \o q
           n == [i \in DOMAIN r |-> Told(s, r[i])]
<1>1. /\ r \in Seq(BlockRecord) /\ Len(q) \in Nat /\ DOMAIN q = 1..Len(q)
      /\ DOMAIN r = 1..Len(q) + 1 /\ r[1] = b
      /\ \A i \in 1..Len(q) : r[i + 1] = q[i]
  OBVIOUS
<1> HIDE DEF r
<1>2. m \in Seq(Seq(Int)) /\ EventsOf(s, q) = FlattenSeq(m)
  BY EventsAre
<1>3. n \in Seq(Seq(Int)) /\ EventsOf(s, r) = FlattenSeq(n)
  BY <1>1, EventsAre
<1>4. DOMAIN m = 1..Len(q) /\ DOMAIN n = 1..Len(q) + 1
  BY <1>1
<1>5. /\ \A i \in 1..Len(q) : m[i] = Told(s, q[i]) /\ n[i + 1] = Told(s, q[i])
      /\ n[1] = Told(s, b)
  BY <1>1
<1> HIDE DEF m, n
<1>6. n = <<Told(s, b)>> \o m
  <2>1. Len(m) = Len(q) /\ Len(n) = Len(q) + 1
    BY <1>1, <1>2, <1>3, <1>4
  <2> DEFINE a == <<Told(s, b)>> \o m
  <2>2. /\ a \in Seq(Seq(Int)) /\ Len(a) = Len(q) + 1 /\ a[1] = Told(s, b)
        /\ \A i \in 1..Len(q) : a[i + 1] = m[i]
    BY <1>1, <1>2, <2>1, ToldType
  <2> HIDE DEF a
  <2>3. \A i \in 1..Len(q) + 1 : i = 1 \/ (i - 1 \in 1..Len(q) /\ (i - 1) + 1 = i)
    BY <1>1
  <2>4. \A i \in 1..Len(q) + 1 : a[i] = n[i]
    BY <1>5, <2>2, <2>3
  <2>5. a = n
    BY <1>3, <2>1, <2>2, <2>4
  <2> QED
    BY <2>5 DEF a
<1>7. FlattenSeq(n) = Told(s, b) \o FlattenSeq(m)
  BY <1>2, <1>6, FlatCons, ToldType
<1> QED
  BY <1>2, <1>3, <1>7 DEF r

LEMMA NoEvents ==
  ASSUME NEW s, NEW q \in Seq(BlockRecord), \A i \in DOMAIN q : ~IsCallback(q[i], s)
  PROVE  EventsOf(s, q) = <<>>
<1> DEFINE Silent(n) == \A r \in Seq(BlockRecord) :
             Len(r) = n /\ (\A i \in DOMAIN r : ~IsCallback(r[i], s))
               => EventsOf(s, r) = <<>>
           S == {n \in Nat : Silent(n)}
<1>1. 0 \in S
  <2>1. \A r \in Seq(BlockRecord) : Len(r) = 0 => r = <<>>
    OBVIOUS
  <2> QED
    BY <2>1, EventsEmpty
<1>2. ASSUME NEW n \in Nat, n \in S PROVE n + 1 \in S
  <2>1. ASSUME NEW r \in Seq(BlockRecord), Len(r) = n + 1,
               \A i \in DOMAIN r : ~IsCallback(r[i], s)
        PROVE  EventsOf(s, r) = <<>>
    <3>1. r # <<>>
      BY <2>1
    <3>2. PICK f \in Seq(BlockRecord), b \in BlockRecord : r = Append(f, b)
      BY <3>1, SequenceEmptyOrAppend
    <3>3. /\ Len(f) = n /\ ~IsCallback(b, s)
          /\ \A i \in DOMAIN f : ~IsCallback(f[i], s)
      <4>1. /\ Len(r) = Len(f) + 1 /\ Len(f) \in Nat /\ r[Len(f) + 1] = b
            /\ DOMAIN f = 1..Len(f) /\ DOMAIN r = 1..Len(f) + 1
            /\ \A i \in 1..Len(f) : r[i] = f[i]
        BY <3>2
      <4>2. Len(f) + 1 \in DOMAIN r /\ \A i \in DOMAIN f : i \in DOMAIN r
        BY <4>1
      <4>3. ~IsCallback(r[Len(f) + 1], s) /\ \A i \in DOMAIN f : ~IsCallback(r[i], s)
        BY <2>1, <4>2
      <4>4. Len(f) = n
        <5> DEFINE k == Len(f)
        <5>1. k \in Nat /\ k + 1 = n + 1
          BY <2>1, <4>1
        <5> HIDE DEF k
        <5>2. k = n
          BY <5>1
        <5> QED
          BY <5>2 DEF k
      <4>5. ~IsCallback(b, s)
        BY <4>1, <4>3
      <4>6. \A i \in DOMAIN f : ~IsCallback(f[i], s)
        BY <4>1, <4>3
      <4> QED
        BY <4>4, <4>5, <4>6
    <3>4. EventsOf(s, f) = <<>>
      BY <1>2, <3>3
    <3>5. Told(s, b) = <<>>
      BY <3>3 DEF Told
    <3> QED
      BY <3>2, <3>4, <3>5, EventsAppend
  <2>2. Silent(n + 1)
    BY <2>1
  <2> HIDE DEF Silent
  <2> QED
    BY <2>2
<1> HIDE DEF S
<1>3. Len(q) \in Nat /\ Len(q) \in S
  BY <1>1, <1>2, SetInduction
<1> QED
  BY <1>3 DEF S

----------------------------------------------------------------------------
(* Who takes a stream stops it later, and processEvents begins when the     *)
(* events that came before the index was there have been handed over.       *)
LiveRuns ==
  \A s \in 1..lastSub : /\ sub[s].live => sub[s].running /\ sub[s].stop = "none"
                        /\ Retiring(s) => ~sub[s].live

HandedOverIsEmpty ==
  \A s \in 1..lastSub : sub[s].live /\ ~sub[s].initializing => buffer[s] = <<>>

(* Way and Cat keep the provers from looking into the sequences.            *)
Cat(x, y) == x \o y

Way(h, b, e, u) == h \o b \o e \o u

InOrder(s) ==
  happened[s] = Way(processed[s], buffer[s], EventsOf(s, Running \o queue), unseen[s])

OrderInv == QuietInv /\ LiveRuns /\ HandedOverIsEmpty /\ EventsInOrder

(* From one place to the next: changes appear, are delivered, wait for the  *)
(* index, are processed, or are processed when the index is there.          *)
LEMMA CatIs ==
  /\ \A x, y \in Seq(Int) : Cat(x, y) \in Seq(Int)
  /\ \A x, y, z \in Seq(Int) : Cat(Cat(x, y), z) = Cat(x, Cat(y, z))
  /\ \A x \in Seq(Int) : Cat(x, <<>>) = x /\ Cat(<<>>, x) = x
<1>1. \A x, y, z \in Seq(Int) : Cat(Cat(x, y), z) = Cat(x, Cat(y, z))
  BY ConcatAssociative DEF Cat
<1> QED
  BY <1>1 DEF Cat

LEMMA WayAppears ==
  ASSUME NEW h \in Seq(Int), NEW b \in Seq(Int), NEW e \in Seq(Int), NEW u \in Seq(Int),
         NEW x \in Seq(Int)
  PROVE  Cat(Way(h, b, e, u), x) = Way(h, b, e, Cat(u, x))
<1>1. Cat(h, b) \in Seq(Int) /\ Cat(Cat(h, b), e) \in Seq(Int)
  BY CatIs
<1>2. Cat(Cat(Cat(Cat(h, b), e), u), x) = Cat(Cat(Cat(h, b), e), Cat(u, x))
  BY <1>1, CatIs
<1> QED
  BY <1>2 DEF Cat, Way

LEMMA WayDelivered ==
  ASSUME NEW h \in Seq(Int), NEW b \in Seq(Int), NEW e \in Seq(Int), NEW u \in Seq(Int)
  PROVE  Way(h, b, e, u) = Way(h, b, Cat(e, u), <<>>)
<1>1. /\ Cat(h, b) \in Seq(Int) /\ Cat(e, u) \in Seq(Int)
      /\ Cat(Cat(h, b), Cat(e, u)) \in Seq(Int)
  BY CatIs
<1>2. Cat(Cat(Cat(h, b), e), u) = Cat(Cat(Cat(h, b), Cat(e, u)), <<>>)
  BY <1>1, CatIs
<1> QED
  BY <1>2 DEF Cat, Way

LEMMA WayBuffered ==
  ASSUME NEW h \in Seq(Int), NEW b \in Seq(Int), NEW e \in Seq(Int), NEW u \in Seq(Int),
         NEW x \in Seq(Int)
  PROVE  Way(h, b, Cat(x, e), u) = Way(h, Cat(b, x), e, u)
<1>1. Cat(Cat(h, b), Cat(x, e)) = Cat(Cat(Cat(h, b), x), e)
  BY CatIs
<1>2. Cat(Cat(h, b), x) = Cat(h, Cat(b, x))
  BY CatIs
<1> QED
  BY <1>1, <1>2 DEF Cat, Way

LEMMA WayProcessed ==
  ASSUME NEW h \in Seq(Int), NEW e \in Seq(Int), NEW u \in Seq(Int), NEW x \in Seq(Int)
  PROVE  Way(h, <<>>, Cat(x, e), u) = Way(Cat(h, x), <<>>, e, u)
<1>1. Cat(h, <<>>) = h /\ Cat(Cat(h, x), <<>>) = Cat(h, x)
  BY CatIs
<1>2. Cat(h, Cat(x, e)) = Cat(Cat(h, x), e)
  BY CatIs
<1> QED
  BY <1>1, <1>2 DEF Cat, Way

LEMMA WayHandedOver ==
  ASSUME NEW h \in Seq(Int), NEW b \in Seq(Int), NEW e \in Seq(Int), NEW u \in Seq(Int)
  PROVE  Way(h, b, e, u) = Way(Cat(h, b), <<>>, e, u)
<1>1. Cat(h, b) = Cat(Cat(h, b), <<>>)
  BY CatIs
<1> QED
  BY <1>1 DEF Cat, Way

LEMMA OrderTypes ==
  ASSUME QuietInv
  PROVE  /\ \A s \in Sub : /\ unseen[s] \in Seq(Int) /\ buffer[s] \in Seq(Int)
                           /\ processed[s] \in Seq(Int) /\ happened[s] \in Seq(Int)
         /\ unseen \in [Sub -> Seq(Int)] /\ buffer \in [Sub -> Seq(Int)]
         /\ processed \in [Sub -> Seq(Int)] /\ happened \in [Sub -> Seq(Int)]
         /\ queue \in Seq(BlockRecord)
         /\ at # "idle" => block \in BlockRecord
         /\ queue # <<>> => First \in BlockRecord /\ Tail(queue) \in Seq(BlockRecord)
                            /\ queue = <<First>> \o Tail(queue)
<1>1. /\ queue \in Seq(BlockRecord)
      /\ unseen \in [Sub -> Seq(Int)] /\ buffer \in [Sub -> Seq(Int)]
      /\ processed \in [Sub -> Seq(Int)] /\ happened \in [Sub -> Seq(Int)]
      /\ at # "idle" => block \in BlockRecord
  BY DEF QuietInv, FSEventsTypeOK
<1>2. queue # <<>> => First \in BlockRecord /\ Tail(queue) \in Seq(BlockRecord)
                      /\ queue = <<First>> \o Tail(queue)
  BY <1>1 DEF First
<1> QED
  BY <1>1, <1>2

LEMMA AheadIs ==
  ASSUME QuietInv, NEW s
  PROVE  /\ EventsOf(s, Running \o queue) =
              (IF at = "process" THEN Told(s, block) ELSE <<>>) \o EventsOf(s, queue)
         /\ EventsOf(s, queue) \in Seq(Int)
<1>1. queue \in Seq(BlockRecord) /\ EventsOf(s, queue) \in Seq(Int)
  BY EventsAre, OrderTypes
<1>2. CASE at = "process"
  BY <1>1, <1>2, EventsCons, OrderTypes DEF Running
<1>3. CASE at # "process"
  BY <1>1, <1>3 DEF Running
<1> QED
  BY <1>1, <1>2, <1>3

LEMMA AheadType ==
  ASSUME QuietInv, NEW s
  PROVE  EventsOf(s, Running \o queue) \in Seq(Int)
<1>1. queue \in Seq(BlockRecord) /\ Running \in Seq(BlockRecord)
  BY OrderTypes DEF Running
<1>2. Running \o queue \in Seq(BlockRecord)
  BY <1>1
<1> QED
  BY <1>2, EventsAre

----------------------------------------------------------------------------
LEMMA LiveStep == OrderInv /\ [FSEventsNext]_fseventsVars => LiveRuns'
<1> SUFFICES ASSUME OrderInv, [FSEventsNext]_fseventsVars PROVE LiveRuns'
  OBVIOUS
<1> USE DEF backendVars, eventVars, queueVars, callerVars, boundVars
<1>0. QuietInv /\ LiveRuns
  BY DEF OrderInv
<1> DEFINE Runs(s) == /\ sub'[s].live => sub'[s].running /\ sub'[s].stop = "none"
                      /\ (at' = "retire" /\ block'.sub = s) => ~sub'[s].live
<1>1. ASSUME lastSub' = lastSub, \A s \in 1..lastSub : Runs(s) PROVE LiveRuns'
  BY <1>1 DEF LiveRuns, Retiring
<1>2. CASE UNCHANGED <<sub, lastSub>> /\ (at' = "retire" => UNCHANGED <<at, block>>)
  BY <1>0, <1>2 DEF LiveRuns, Retiring
<1>3. ASSUME NEW r \in Sub \cup {NoSub}, sub' = Stopped(r), UNCHANGED <<at, block, lastSub>>
      PROVE  LiveRuns'
  <2>1. \A s \in Sub : /\ sub[s] \in StreamRecord
                       /\ sub'[s] = Taken(sub[s]) \/ sub'[s] = sub[s]
    BY <1>0, <1>3, StoppedStreams, StreamTypes
  <2>2. \A s \in Sub : sub'[s].live => sub'[s] = sub[s]
    BY <2>1, TakenStream
  <2>3. \A s \in 1..lastSub : Runs(s)
    BY <1>0, <1>3, <2>2, StreamTypes DEF LiveRuns, Retiring
  <2> QED
    BY <1>1, <1>3, <2>3
<1>4. ASSUME NEW t \in Thread, CallerStep(t) \/ HandOff(t) PROVE LiveRuns'
  <2>1. CASE StartStream(t)
    <3>1. UNCHANGED <<at, block>> /\ lastSub' = lastSub + 1
      BY <2>1 DEF StartStream
    <3>2. ASSUME NEW s \in 1..lastSub PROVE Runs(s)
      <4>1. sub'[s] = sub[s]
        BY <1>0, <2>1, StartEffect, StreamTypes DEF Alone
      <4> QED
        BY <1>0, <3>1, <4>1 DEF LiveRuns, Retiring
    <3>3. Runs(lastSub')
      <4>1. ~(at = "retire" /\ block.sub = lastSub')
        BY <1>0, <3>1, StreamTypes
      <4> QED
        BY <1>0, <2>1, <3>1, <4>1, StartEffect
    <3>4. \A s \in (1..lastSub)' : Runs(s)
      <4>1. \A s \in (1..lastSub)' : s \in 1..lastSub \/ s = lastSub'
        BY <1>0, <3>1, StreamTypes
      <4> QED
        BY <3>2, <3>3, <4>1
    <3> QED
      BY <3>4 DEF LiveRuns, Retiring
  <2>2. CASE ScanFails(t) \/ ScanCancelled(t)
    BY <1>0, <1>3, <2>2, StreamTypes DEF ScanFails, ScanCancelled
  <2>3. CASE Unwatch(t)
    BY <1>0, <1>3, <2>3, StreamTypes DEF Unwatch
  <2> QED
    BY <1>2, <1>4, <2>1, <2>2, <2>3 DEF CallerStep, NothingToWatch, StartFails, Scan,
      Finish, NothingToUnwatch, FinishUnsubscribe, HandOff
<1>5. ASSUME NEW r \in Sub, StopStream(r) PROVE LiveRuns'
  <2>1. UNCHANGED <<at, block, lastSub>>
    BY <1>5 DEF StopStream
  <2>2. ASSUME NEW s \in 1..lastSub PROVE Runs(s)
    <3>1. CASE s = r
      BY <1>0, <1>5, <3>1, StopStreamEffect DEF LiveRuns
    <3>2. CASE s # r
      <4>1. sub'[s] = sub[s]
        BY <1>0, <1>5, <3>2, StopStreamEffect, StreamTypes DEF Alone
      <4> QED
        BY <1>0, <2>1, <4>1 DEF LiveRuns, Retiring
    <3> QED
      BY <3>1, <3>2
  <2> QED
    BY <1>1, <2>1, <2>2
<1>6. CASE QueueStep
  <2>1. CASE Process
    <3>1. CASE sub' = sub /\ at' = "idle"
      BY <1>0, <1>2, <2>1, <3>1, ProcessEffect
    <3>2. CASE at' # "idle"
      <4>1. ASSUME NEW s \in 1..lastSub PROVE Runs(s)
        <5>1. CASE s = block.sub
          BY <1>0, <2>1, <3>2, <5>1, ProcessEffect
        <5>2. CASE s # block.sub
          <6>1. sub'[s] = sub[s] /\ block' = block
            BY <1>0, <2>1, <3>2, <5>2, ProcessEffect, StreamTypes DEF Alone
          <6> QED
            BY <1>0, <5>2, <6>1 DEF LiveRuns
        <5> QED
          BY <5>1, <5>2
      <4> QED
        BY <1>0, <1>1, <2>1, <4>1, ProcessEffect
    <3> QED
      BY <1>0, <2>1, <3>1, <3>2, ProcessEffect
  <2>2. CASE Retire
    <3>1. ~sub[block.sub].live /\ ~sub'[block.sub].live
      BY <1>0, <2>2, RetireEffect DEF LiveRuns, Retiring
    <3>2. ASSUME NEW s \in 1..lastSub PROVE Runs(s)
      <4>1. s # block.sub => sub'[s] = sub[s]
        BY <1>0, <2>2, RetireEffect, StreamTypes DEF Alone
      <4>2. at' = "idle"
        BY <1>0, <2>2, RetireEffect
      <4> QED
        BY <1>0, <3>1, <4>1, <4>2 DEF LiveRuns
    <3> QED
      BY <1>0, <1>1, <2>2, <3>2, RetireEffect
  <2>3. CASE HandleError
    <3>1. /\ lastSub' = lastSub /\ at' = "idle"
          /\ \A s \in Sub : sub'[s] = Taken(sub[s]) \/ sub'[s] = sub[s]
      BY <2>3 DEF HandleError, EndBlock
    <3>2. \A s \in 1..lastSub : sub'[s].live => sub'[s] = sub[s]
      BY <1>0, <3>1, TakenStream, StreamTypes
    <3>3. \A s \in 1..lastSub : Runs(s)
      BY <1>0, <3>1, <3>2 DEF LiveRuns
    <3> QED
      BY <1>1, <3>1, <3>3
  <2>4. CASE BarrierEnds
    <3>1. ASSUME NEW s \in 1..lastSub PROVE Runs(s)
      <4>1. CASE s = First.sub
        BY <1>0, <2>4, <4>1, BarrierEffect DEF LiveRuns
      <4>2. CASE s # First.sub
        <5>1. sub'[s] = sub[s] /\ UNCHANGED <<block, at>>
          BY <1>0, <2>4, <4>2, BarrierEffect, StreamTypes DEF Alone
        <5> QED
          BY <1>0, <5>1 DEF LiveRuns, Retiring
      <4> QED
        BY <4>1, <4>2
    <3> QED
      BY <1>0, <1>1, <2>4, <3>1, BarrierEffect
  <2>5. ASSUME NEW t \in Thread, HandedOff(t) PROVE LiveRuns'
    <3>1. ASSUME NEW s \in 1..lastSub PROVE Runs(s)
      <4>0. UNCHANGED <<block, at>> /\ at = "idle"
        BY <1>0, <2>5, HandedOffEffect
      <4>1. CASE s # mine[t]
        <5>1. sub'[s] = sub[s]
          BY <1>0, <2>5, <4>1, HandedOffEffect, StreamTypes DEF Alone
        <5> QED
          BY <1>0, <4>0, <5>1 DEF LiveRuns
      <4>2. CASE s = mine[t] /\ sub[s].live
        BY <1>0, <2>5, <4>0, <4>2, HandedOffEffect DEF LiveRuns
      <4>3. CASE s = mine[t] /\ ~sub[s].live
        <5>1. sub' = sub
          BY <1>0, <2>5, <4>3, HandedOffEffect DEF HandedOff
        <5> QED
          BY <4>0, <4>3, <5>1
      <4> QED
        BY <4>1, <4>2, <4>3
    <3> QED
      BY <1>0, <1>1, <2>5, <3>1, HandedOffEffect
  <2>6. CASE CallbackLeaves \/ CallbackEnters \/ ProcessThrows
             \/ \E t \in Thread : FlushEnds(t)
    BY <1>2, <2>6 DEF CallbackLeaves, CallbackEnters, ProcessThrows, FlushEnds, AtOnce
  <2> QED
    BY <1>6, <2>1, <2>2, <2>3, <2>4, <2>5, <2>6 DEF QueueStep
<1>7. ASSUME NEW t \in Thread, NEW w \in Watcher, CallWatch(t, w) \/ CallUnwatch(t, w)
      PROVE  LiveRuns'
  BY <1>2, <1>7 DEF CallWatch, CallUnwatch
<1>8. ASSUME NEW w \in Watcher, NEW root \in BOOLEAN, Cancel(w) \/ Change(w, root)
      PROVE  LiveRuns'
  BY <1>2, <1>8 DEF Cancel, Change
<1>9. ASSUME NEW r \in Sub, Deliver(r) PROVE LiveRuns'
  BY <1>2, <1>9 DEF Deliver
<1>10. CASE UNCHANGED fseventsVars
  BY <1>2, <1>10 DEF fseventsVars
<1> QED
  BY <1>4, <1>5, <1>6, <1>7, <1>8, <1>9, <1>10 DEF FSEventsNext

(* A stream that is live after a step was live, or has been started by it.  *)
LEMMA LiveWasLive ==
  ASSUME QuietInv, [FSEventsNext]_fseventsVars, NEW s \in (1..lastSub)', sub'[s].live
  PROVE  \/ s \in 1..lastSub /\ s \in Sub /\ sub[s].live
         \/ s = lastSub' /\ s \in Sub /\ s = lastSub + 1 /\ sub'[s].initializing
            /\ \E t \in Thread : StartStream(t)
<1>1. CASE s \in 1..lastSub
  BY <1>1, StreamsStep, StreamTypes DEF StreamsMove, OneWay
<1>2. CASE s \notin 1..lastSub
  <2>1. lastSub' # lastSub
    BY <1>2
  <2>2. PICK t \in Thread : StartStream(t)
    <3> USE DEF backendVars, eventVars, queueVars, callerVars, boundVars
    <3>1. CASE QueueStep
      BY <2>1, <3>1 DEF QueueStep, CallbackLeaves, CallbackEnters, Process, Retire,
        ProcessThrows, HandleError, BarrierEnds, FlushEnds, HandedOff
    <3>2. ASSUME NEW t \in Thread, CallerStep(t) \/ HandOff(t) PROVE StartStream(t)
      BY <2>1, <3>2 DEF CallerStep, NothingToWatch, StartFails, ScanFails, ScanCancelled,
        Scan, Finish, NothingToUnwatch, Unwatch, FinishUnsubscribe, HandOff
    <3>3. ASSUME NEW r \in Sub PROVE ~Deliver(r) /\ ~StopStream(r)
      BY <2>1 DEF Deliver, StopStream
    <3>4. ASSUME NEW w \in Watcher PROVE ~Cancel(w)
      BY <2>1 DEF Cancel
    <3>5. ASSUME NEW w \in Watcher, NEW root \in BOOLEAN PROVE ~Change(w, root)
      BY <2>1 DEF Change
    <3>6. ASSUME NEW t \in Thread, NEW w \in Watcher
          PROVE  ~CallWatch(t, w) /\ ~CallUnwatch(t, w)
      BY <2>1 DEF CallWatch, CallUnwatch
    <3>7. ~UNCHANGED fseventsVars
      BY <2>1 DEF fseventsVars
    <3> QED
      BY <3>1, <3>2, <3>3, <3>4, <3>5, <3>6, <3>7 DEF FSEventsNext
  <2> QED
    BY <1>2, <2>2, StartEffect, StreamTypes
<1> QED
  BY <1>1, <1>2

LEMMA HandedOverStep == OrderInv /\ [FSEventsNext]_fseventsVars => HandedOverIsEmpty'
<1> SUFFICES ASSUME OrderInv, [FSEventsNext]_fseventsVars, NEW s \in (1..lastSub)',
                    sub'[s].live, ~sub'[s].initializing
             PROVE  buffer'[s] = <<>>
  BY DEF HandedOverIsEmpty
<1> USE DEF backendVars, eventVars, queueVars, callerVars, boundVars
<1>1. /\ QuietInv /\ s \in 1..lastSub /\ s \in Sub /\ sub[s].live /\ s # lastSub + 1
      /\ buffer \in [Sub -> Seq(Int)]
  BY LiveWasLive, StreamTypes, OrderTypes DEF OrderInv
<1>2. ASSUME NEW t \in Thread, HandedOff(t) PROVE buffer'[s] = <<>>
  <2>1. CASE s = First.sub
    BY <1>1, <1>2, <2>1 DEF HandedOff
  <2>2. CASE s # First.sub
    <3>1. ~sub[s].initializing
      <4>1. sub'[s] = sub[s]
        BY <1>1, <1>2, <2>2, HandedOffEffect DEF Alone
      <4> QED
        BY <4>1
    <3>2. buffer'[s] = buffer[s]
      BY <1>1, <1>2, <2>2 DEF HandedOff
    <3> QED
      BY <1>1, <3>1, <3>2 DEF OrderInv, HandedOverIsEmpty
  <2> QED
    BY <2>1, <2>2
<1>3. CASE \A t \in Thread : ~HandedOff(t)
  <2>1. ~sub[s].initializing /\ buffer[s] = <<>>
    BY <1>1, <1>3, LifeStep DEF LifeMoves, OrderInv, HandedOverIsEmpty
  <2>2. CASE CallbackLeaves
    BY <1>1, <2>1, <2>2 DEF CallbackLeaves
  <2>3. CASE ~CallbackLeaves
    <3>1. CASE QueueStep
      BY <1>3, <2>3, <3>1, <2>1 DEF QueueStep, CallbackEnters, Process, Retire,
        ProcessThrows, HandleError, BarrierEnds, FlushEnds
    <3>2. ASSUME NEW t \in Thread, CallerStep(t) \/ HandOff(t) PROVE buffer' = buffer
      BY <3>2 DEF CallerStep, NothingToWatch, StartStream, StartFails, ScanFails,
        ScanCancelled, Scan, Finish, NothingToUnwatch, Unwatch, FinishUnsubscribe, HandOff
    <3>3. ASSUME NEW r \in Sub, Deliver(r) \/ StopStream(r) PROVE buffer' = buffer
      BY <3>3 DEF Deliver, StopStream
    <3>4. ASSUME NEW w \in Watcher, NEW root \in BOOLEAN, Cancel(w) \/ Change(w, root)
          PROVE  buffer' = buffer
      BY <3>4 DEF Cancel, Change
    <3>5. ASSUME NEW t \in Thread, NEW w \in Watcher, CallWatch(t, w) \/ CallUnwatch(t, w)
          PROVE  buffer' = buffer
      BY <3>5 DEF CallWatch, CallUnwatch
    <3>6. CASE UNCHANGED fseventsVars
      BY <2>1, <3>6 DEF fseventsVars
    <3> QED
      BY <2>1, <3>1, <3>2, <3>3, <3>4, <3>5, <3>6 DEF FSEventsNext
  <2> QED
    BY <2>2, <2>3
<1> QED
  BY <1>2, <1>3

----------------------------------------------------------------------------
(* The stream a step leaves alone, and the events it moves on               *)
LEMMA OrderStays ==
  ASSUME NEW s, InOrder(s), happened'[s] = happened[s], processed'[s] = processed[s],
         buffer'[s] = buffer[s], unseen'[s] = unseen[s],
         EventsOf(s, Running \o queue)' = EventsOf(s, Running \o queue)
  PROVE  InOrder(s)'
  BY DEF InOrder

LEMMA OrderAfterStart ==
  ASSUME OrderInv, [FSEventsNext]_fseventsVars, NEW t \in Thread, StartStream(t),
         NEW s \in Sub, s = lastSub + 1
  PROVE  InOrder(s)'
<1>1. QuietInv /\ s > lastSub
  BY StreamTypes DEF OrderInv
<1>2. /\ unseen[s] = <<>> /\ buffer[s] = <<>> /\ processed[s] = <<>> /\ happened[s] = <<>>
  BY <1>1 DEF QuietInv, UncreatedIsNew
<1>3. EventsOf(s, queue) = <<>>
  <2>1. queue \in Seq(BlockRecord) /\ \A i \in DOMAIN queue : queue[i].sub # s
    BY <1>1, StreamTypes DEF QuietInv, BlocksAreOfStreams
  <2> QED
    BY <2>1, NoEvents DEF IsCallback
<1>4. EventsOf(s, Running \o queue) = <<>>
  <2>1. at = "process" => Told(s, block) = <<>>
    BY <1>1, StreamTypes DEF Told, IsCallback
  <2>2. EventsOf(s, Running \o queue) = <<>> \o EventsOf(s, queue)
    BY <1>1, <2>1, AheadIs
  <2> QED
    BY <1>3, <2>2
<1>5. InOrder(s)
  BY <1>2, <1>4 DEF InOrder, Way
<1>6. UNCHANGED <<happened, processed, buffer, unseen, queue, at, block>>
  BY DEF StartStream, eventVars, queueVars
<1> QED
  BY <1>5, <1>6 DEF InOrder, Running

LEMMA OrderAfterChange ==
  ASSUME OrderInv, NEW w \in Watcher, NEW root \in BOOLEAN, Change(w, root),
         NEW s \in 1..lastSub, sub[s].live
  PROVE  InOrder(s)'
<1>1. /\ QuietInv /\ s \in Sub /\ InOrder(s)
      /\ UNCHANGED <<processed, buffer, queue, at, block>>
  BY StreamTypes DEF OrderInv, EventsInOrder, InOrder, Way, Change, queueVars
<1>2. PICK n \in Int : \/ unseen'[s] = unseen[s] /\ happened'[s] = happened[s]
                       \/ /\ unseen'[s] = Append(unseen[s], n)
                          /\ happened'[s] = Append(happened[s], n)
  <2>1. changes \in Int
    BY <1>1 DEF QuietInv, FSEventsTypeOK
  <2> QED
    BY <1>1, <2>1 DEF Change
<1>3. EventsOf(s, Running \o queue)' = EventsOf(s, Running \o queue)
  BY <1>1 DEF Running
<1>4. CASE unseen'[s] = unseen[s] /\ happened'[s] = happened[s]
  BY <1>1, <1>3, <1>4, OrderStays
<1>5. CASE unseen'[s] = Append(unseen[s], n) /\ happened'[s] = Append(happened[s], n)
  <2>1. /\ unseen[s] \in Seq(Int) /\ processed[s] \in Seq(Int) /\ buffer[s] \in Seq(Int)
        /\ happened[s] \in Seq(Int)
    BY <1>1, OrderTypes
  <2>2. EventsOf(s, Running \o queue) \in Seq(Int)
    BY <1>1, AheadType
  <2>3. <<n>> \in Seq(Int) /\ \A q \in Seq(Int) : Append(q, n) = Cat(q, <<n>>)
    BY AppendIsConcat DEF Cat
  <2>4. happened'[s] = Cat(happened[s], <<n>>) /\ unseen'[s] = Cat(unseen[s], <<n>>)
    BY <1>5, <2>1, <2>3
  <2>5. Cat(Way(processed[s], buffer[s], EventsOf(s, Running \o queue), unseen[s]), <<n>>)
          = Way(processed[s], buffer[s], EventsOf(s, Running \o queue), Cat(unseen[s], <<n>>))
    <3> DEFINE x == <<n>>
               e == EventsOf(s, Running \o queue)
    <3>1. x \in Seq(Int) /\ e \in Seq(Int)
      BY <2>2, <2>3
    <3> HIDE DEF x, e
    <3>2. Cat(Way(processed[s], buffer[s], e, unseen[s]), x)
            = Way(processed[s], buffer[s], e, Cat(unseen[s], x))
      BY <2>1, <3>1, WayAppears
    <3> QED
      BY <3>2 DEF x, e
  <2> QED
    BY <1>1, <1>3, <2>4, <2>5 DEF InOrder
<1> QED
  BY <1>2, <1>4, <1>5

----------------------------------------------------------------------------
(* What happens to the blocks ahead: one comes behind them, or the first is *)
(* done with.                                                               *)
LEMMA AppendBehind ==
  ASSUME NEW q \in Seq(BlockRecord), NEW r \in Seq(BlockRecord), NEW b \in BlockRecord
  PROVE  q \o Append(r, b) = Append(q \o r, b)
<1>1. /\ q \o r \in Seq(BlockRecord) /\ <<b>> \in Seq(BlockRecord)
      /\ Append(r, b) = r \o <<b>>
  BY AppendIsConcat
<1>2. Append(q \o r, b) = (q \o r) \o <<b>>
  BY <1>1, AppendIsConcat
<1>3. (q \o r) \o <<b>> = q \o (r \o <<b>>)
  <2> DEFINE x == <<b>>
  <2> HIDE DEF x
  <2>1. x \in Seq(BlockRecord)
    BY <1>1 DEF x
  <2>2. (q \o r) \o x = q \o (r \o x)
    BY <2>1, ConcatAssociative
  <2> QED
    BY <2>2 DEF x
<1> QED
  BY <1>1, <1>2, <1>3

LEMMA AheadAppend ==
  ASSUME QuietInv, NEW s, NEW b \in BlockRecord, UNCHANGED <<block, at>>,
         queue' = Append(queue, b)
  PROVE  EventsOf(s, Running \o queue)' = Cat(EventsOf(s, Running \o queue), Told(s, b))
<1>1. queue \in Seq(BlockRecord) /\ Running \in Seq(BlockRecord) /\ Running' = Running
  BY OrderTypes DEF Running
<1>2. Running \o queue \in Seq(BlockRecord)
  BY <1>1
<1>3. Running \o Append(queue, b) = Append(Running \o queue, b)
  BY <1>1 DEF Running
<1>4. EventsOf(s, Append(Running \o queue, b)) = EventsOf(s, Running \o queue) \o Told(s, b)
  BY <1>2, EventsAppend
<1> QED
  BY <1>1, <1>3, <1>4 DEF Cat

LEMMA AheadAppendTwo ==
  ASSUME QuietInv, NEW s, NEW b \in BlockRecord, NEW c \in BlockRecord,
         UNCHANGED <<block, at>>, queue' = Append(Append(queue, c), b), Told(s, b) = <<>>
  PROVE  EventsOf(s, Running \o queue)' = Cat(EventsOf(s, Running \o queue), Told(s, c))
<1>1. queue \in Seq(BlockRecord) /\ Running \in Seq(BlockRecord) /\ Running' = Running
  BY OrderTypes DEF Running
<1> DEFINE q == Running \o queue
           r == Append(q, c)
<1>2. q \in Seq(BlockRecord) /\ r \in Seq(BlockRecord)
  BY <1>1
<1>3. Running \o Append(Append(queue, c), b) = Append(r, b)
  <2> DEFINE p == Append(queue, c)
  <2>1. p \in Seq(BlockRecord) /\ Running \o p = r
    BY <1>1 DEF Running
  <2> HIDE DEF p, r
  <2>2. Running \o Append(p, b) = Append(Running \o p, b)
    BY <1>1, <2>1, AppendBehind
  <2> QED
    BY <2>1, <2>2 DEF p
<1>4. EventsOf(s, r) = EventsOf(s, q) \o Told(s, c)
  <2> HIDE DEF q
  <2> QED
    BY <1>2, EventsAppend
<1>5. EventsOf(s, Append(r, b)) = EventsOf(s, r) \o <<>>
  <2> HIDE DEF r
  <2> QED
    BY <1>2, EventsAppend
<1>6. EventsOf(s, r) \in Seq(Int)
  <2> HIDE DEF r
  <2> QED
    BY <1>2, EventsAre
<1>7. EventsOf(s, r) \o <<>> = EventsOf(s, r)
  <2> HIDE DEF r
  <2> QED
    BY <1>6
<1> HIDE DEF r
<1> QED
  BY <1>1, <1>3, <1>4, <1>5, <1>7 DEF Cat

LEMMA AheadTail ==
  ASSUME QuietInv, NEW s, queue # <<>>, queue' = Tail(queue), at = "idle", at' = "idle"
  PROVE  /\ EventsOf(s, Running \o queue) =
              Cat(Told(s, First), EventsOf(s, Running \o queue)')
         /\ EventsOf(s, Running \o queue)' \in Seq(Int) /\ Told(s, First) \in Seq(Int)
<1>1. /\ First \in BlockRecord /\ Tail(queue) \in Seq(BlockRecord)
      /\ queue = <<First>> \o Tail(queue)
  BY OrderTypes
<1>2. Running \o queue = queue /\ (Running \o queue)' = Tail(queue)
  BY <1>1, OrderTypes DEF Running
<1>3. EventsOf(s, <<First>> \o Tail(queue)) = Told(s, First) \o EventsOf(s, Tail(queue))
  BY <1>1, EventsCons
<1>4. EventsOf(s, Tail(queue)) \in Seq(Int) /\ Told(s, First) \in Seq(Int)
  BY <1>1, EventsAre, ToldType
<1>5. EventsOf(s, queue) = Told(s, First) \o EventsOf(s, Tail(queue))
  BY <1>1, <1>3
<1> QED
  BY <1>2, <1>4, <1>5 DEF Cat

LEMMA AheadProcessed ==
  ASSUME QuietInv, NEW s, queue' = queue, at = "process", at' # "process"
  PROVE  /\ EventsOf(s, Running \o queue) =
              Cat(Told(s, block), EventsOf(s, Running \o queue)')
         /\ EventsOf(s, Running \o queue)' \in Seq(Int) /\ Told(s, block) \in Seq(Int)
<1>1. queue \in Seq(BlockRecord) /\ block \in BlockRecord
  BY OrderTypes
<1>2. Running \o queue = <<block>> \o queue /\ (Running \o queue)' = queue
  BY <1>1 DEF Running
<1>3. EventsOf(s, <<block>> \o queue) = Told(s, block) \o EventsOf(s, queue)
  BY <1>1, EventsCons
<1>4. EventsOf(s, queue) \in Seq(Int) /\ Told(s, block) \in Seq(Int)
  BY <1>1, EventsAre, ToldType
<1> QED
  BY <1>2, <1>3, <1>4 DEF Cat

----------------------------------------------------------------------------
(* A callback is queued with what waits in the kernel, if it is of s.       *)
LEMMA OrderAfterQueued ==
  ASSUME OrderInv, NEW s \in 1..lastSub, sub[s].live, NEW e \in Seq(Int),
         happened'[s] = happened[s], processed'[s] = processed[s], buffer'[s] = buffer[s],
         EventsOf(s, Running \o queue)' = Cat(EventsOf(s, Running \o queue), e),
         \/ e = unseen[s] /\ unseen'[s] = <<>>
         \/ e = <<>> /\ unseen'[s] = unseen[s]
  PROVE  InOrder(s)'
<1> DEFINE a == EventsOf(s, Running \o queue)
<1>1. /\ QuietInv /\ s \in Sub
      /\ happened[s] = Way(processed[s], buffer[s], a, unseen[s])
  BY StreamTypes DEF OrderInv, EventsInOrder, Way
<1>2. /\ unseen[s] \in Seq(Int) /\ processed[s] \in Seq(Int) /\ buffer[s] \in Seq(Int)
      /\ a \in Seq(Int)
  BY <1>1, OrderTypes, AheadType
<1>3. EventsOf(s, Running \o queue)' = Cat(a, e)
  OBVIOUS
<1> HIDE DEF a
<1>4. Cat(a, <<>>) = a
  BY <1>2, CatIs
<1>5. Way(processed[s], buffer[s], a, unseen[s])
        = Way(processed[s], buffer[s], Cat(a, unseen[s]), <<>>)
  BY <1>2, WayDelivered
<1> QED
  BY <1>1, <1>3, <1>4, <1>5 DEF InOrder

LEMMA OrderAfterDeliver ==
  ASSUME OrderInv, NEW r \in Sub, Deliver(r), NEW s \in 1..lastSub, sub[s].live
  PROVE  InOrder(s)'
<1>1. /\ QuietInv /\ s \in Sub /\ unseen \in [Sub -> Seq(Int)] /\ unseen[s] \in Seq(Int)
  BY StreamTypes, OrderTypes DEF OrderInv
<1>2. /\ UNCHANGED <<happened, processed, buffer, block, at>>
      /\ queue' = Append(queue, Block("callback", r, unseen[r]))
      /\ unseen' = [unseen EXCEPT ![r] = <<>>]
  BY DEF Deliver
<1> DEFINE b == Block("callback", r, unseen[r])
<1>3. b \in BlockRecord /\ Told(s, b) = IF r = s THEN unseen[s] ELSE <<>>
  BY <1>1, BlockIs DEF Told, IsCallback
<1>4. queue' = Append(queue, b)
  BY <1>2
<1> HIDE DEF b
<1>5. EventsOf(s, Running \o queue)' = Cat(EventsOf(s, Running \o queue), Told(s, b))
  BY <1>1, <1>2, <1>3, <1>4, AheadAppend
<1>6. Told(s, b) \in Seq(Int)
  BY <1>3, ToldType
<1> QED
  BY <1>1, <1>2, <1>3, <1>5, <1>6, OrderAfterQueued

(* flushStreamCallbacks: the callback comes in front of the caller's block. *)
LEMMA OrderAfterScan ==
  ASSUME OrderInv, NEW t \in Thread, Scan(t), NEW s \in 1..lastSub, sub[s].live
  PROVE  InOrder(s)'
<1> DEFINE r == mine[t]
           b == Block("flush", r, <<>>)
           c == Block("callback", r, unseen[r])
<1>1. /\ QuietInv /\ s \in Sub /\ unseen \in [Sub -> Seq(Int)] /\ unseen[s] \in Seq(Int)
      /\ queue \in Seq(BlockRecord)
  BY StreamTypes, OrderTypes DEF OrderInv
<1>2. r \in Sub
  BY <1>1, StreamTypes DEF Scan, QuietInv, LockIsHeld, Locked
<1>3. /\ UNCHANGED <<happened, processed, buffer, block, at>>
      /\ queue' = (IF unseen[r] = <<>> THEN queue ELSE Append(queue, c)) \o <<b>>
      /\ unseen' = [unseen EXCEPT ![r] = <<>>]
  BY DEF Scan, Flushed
<1>4. b \in BlockRecord /\ Told(s, b) = <<>>
  BY <1>2, EmptyBlockIs DEF Told, IsCallback
<1>5. c \in BlockRecord /\ Told(s, c) = IF r = s THEN unseen[s] ELSE <<>>
  <2>1. unseen[r] \in Seq(Int)
    BY <1>1, <1>2
  <2>2. /\ c \in BlockRecord /\ c.kind = "callback" /\ c.sub = r /\ c.events = unseen[r]
    BY <1>2, <2>1, BlockIs
  <2> HIDE DEF c
  <2> QED
    BY <2>2 DEF Told, IsCallback
<1>6. unseen'[s] = IF r = s THEN <<>> ELSE unseen[s]
  BY <1>1, <1>2, <1>3
<1>7. <<>> \in Seq(Int)
  OBVIOUS
<1> HIDE DEF b, c
<1>8. CASE unseen[r] = <<>>
  <2>1. queue' = Append(queue, b)
    BY <1>1, <1>3, <1>4, <1>8, AppendIsConcat
  <2>2. EventsOf(s, Running \o queue)' = Cat(EventsOf(s, Running \o queue), <<>>)
    BY <1>1, <1>3, <1>4, <2>1, AheadAppend
  <2>3. unseen'[s] = unseen[s]
    BY <1>6, <1>8
  <2> QED
    BY <1>3, <1>7, <2>2, <2>3, OrderAfterQueued
<1>9. CASE unseen[r] # <<>>
  <2>1. queue' = Append(Append(queue, c), b)
    <3> DEFINE q == Append(queue, c)
    <3>1. q \in Seq(BlockRecord) /\ queue' = q \o <<b>>
      BY <1>1, <1>3, <1>5, <1>9
    <3> HIDE DEF q
    <3>2. queue' = Append(q, b)
      BY <1>4, <3>1, AppendIsConcat
    <3> QED
      BY <3>2 DEF q
  <2>2. EventsOf(s, Running \o queue)' = Cat(EventsOf(s, Running \o queue), Told(s, c))
    BY <1>1, <1>3, <1>4, <1>5, <2>1, AheadAppendTwo
  <2>3. Told(s, c) \in Seq(Int)
    BY <1>5, ToldType
  <2> QED
    BY <1>3, <1>5, <1>6, <2>2, <2>3, OrderAfterQueued
<1> QED
  BY <1>8, <1>9

(* The other blocks tell a stream nothing, and one that stops is not live.  *)
LEMMA OrderAfterBlock ==
  ASSUME OrderInv, NEW b \in BlockRecord, b.kind # "callback", NEW s \in 1..lastSub,
         sub[s].live, queue' = Append(queue, b),
         UNCHANGED <<happened, processed, buffer, block, at>>, unseen'[s] = unseen[s]
  PROVE  InOrder(s)'
<1>1. QuietInv /\ Told(s, b) = <<>> /\ <<>> \in Seq(Int)
  BY DEF OrderInv, Told, IsCallback
<1>2. EventsOf(s, Running \o queue)' = Cat(EventsOf(s, Running \o queue), <<>>)
  BY <1>1, AheadAppend
<1> QED
  BY <1>1, <1>2, OrderAfterQueued

(* The first block is done with and told s nothing.                         *)
LEMMA OrderAfterOther ==
  ASSUME OrderInv, NEW s \in 1..lastSub, sub[s].live, queue # <<>>, queue' = Tail(queue),
         at = "idle", at' = "idle", Told(s, First) = <<>>,
         UNCHANGED <<happened, unseen>>,
         \/ processed'[s] = processed[s] /\ buffer'[s] = buffer[s]
         \/ processed'[s] = Cat(processed[s], buffer[s]) /\ buffer'[s] = <<>>
  PROVE  InOrder(s)'
<1> DEFINE a == EventsOf(s, Running \o queue)
           c == EventsOf(s, Running \o queue)'
<1>1. /\ QuietInv /\ s \in Sub
      /\ happened[s] = Way(processed[s], buffer[s], a, unseen[s])
  BY StreamTypes DEF OrderInv, EventsInOrder, Way
<1>2. a = Cat(<<>>, c) /\ c \in Seq(Int)
  BY <1>1, AheadTail
<1>3. /\ unseen[s] \in Seq(Int) /\ processed[s] \in Seq(Int) /\ buffer[s] \in Seq(Int)
  BY <1>1, OrderTypes
<1>4. EventsOf(s, Running \o queue)' = c
  OBVIOUS
<1> HIDE DEF a, c
<1>5. a = c
  BY <1>2, CatIs
<1>6. Way(processed[s], buffer[s], c, unseen[s])
        = Way(Cat(processed[s], buffer[s]), <<>>, c, unseen[s])
  BY <1>2, <1>3, WayHandedOver
<1> QED
  BY <1>1, <1>4, <1>5, <1>6 DEF InOrder

LEMMA OrderAfterCallback ==
  ASSUME OrderInv, CallbackLeaves, NEW s \in 1..lastSub, sub[s].live
  PROVE  InOrder(s)'
<1>1. /\ QuietInv /\ s \in Sub /\ queue # <<>> /\ queue' = Tail(queue) /\ at = "idle"
      /\ at' = "idle" /\ UNCHANGED <<happened, unseen, processed>>
      /\ First.kind = "callback" /\ buffer \in [Sub -> Seq(Int)]
      /\ buffer' = IF sub[First.sub].live
                   THEN [buffer EXCEPT ![First.sub] = @ \o First.events] ELSE buffer
  BY StreamTypes, OrderTypes DEF OrderInv, CallbackLeaves, Begins, AtOnce
<1>2. CASE First.sub # s
  <2>1. Told(s, First) = <<>> /\ buffer'[s] = buffer[s]
    BY <1>1, <1>2 DEF Told, IsCallback
  <2> QED
    BY <1>1, <2>1, OrderAfterOther
<1>3. CASE First.sub = s
  <2> DEFINE a == EventsOf(s, Running \o queue)
             c == EventsOf(s, Running \o queue)'
             x == First.events
  <2>1. Told(s, First) = x /\ buffer'[s] = Cat(buffer[s], x)
    BY <1>1, <1>3 DEF Told, IsCallback, Cat
  <2>2. happened[s] = Way(processed[s], buffer[s], a, unseen[s])
    BY DEF OrderInv, EventsInOrder, Way
  <2>3. a = Cat(x, c) /\ c \in Seq(Int) /\ x \in Seq(Int)
    BY <1>1, <2>1, AheadTail
  <2>4. unseen[s] \in Seq(Int) /\ processed[s] \in Seq(Int) /\ buffer[s] \in Seq(Int)
    BY <1>1, OrderTypes
  <2>5. EventsOf(s, Running \o queue)' = c
    OBVIOUS
  <2> HIDE DEF a, c, x
  <2>6. Way(processed[s], buffer[s], Cat(x, c), unseen[s])
          = Way(processed[s], Cat(buffer[s], x), c, unseen[s])
    BY <2>3, <2>4, WayBuffered
  <2> QED
    BY <1>1, <2>1, <2>2, <2>3, <2>5, <2>6 DEF InOrder
<1> QED
  BY <1>2, <1>3

LEMMA OrderAfterProcess ==
  ASSUME OrderInv, Process \/ ProcessThrows, NEW s \in 1..lastSub, sub[s].live
  PROVE  InOrder(s)'
<1>1. /\ QuietInv /\ s \in Sub /\ at = "process" /\ at' # "process" /\ queue' = queue
      /\ UNCHANGED <<happened, unseen, buffer>> /\ processed \in [Sub -> Seq(Int)]
      /\ processed' = [processed EXCEPT ![block.sub] = @ \o block.events]
      /\ block.kind = "callback" /\ ~sub[block.sub].initializing
  BY StreamTypes, OrderTypes
    DEF OrderInv, Process, ProcessThrows, EndBlock, QuietInv, BlocksAreOfStreams
<1> DEFINE a == EventsOf(s, Running \o queue)
           c == EventsOf(s, Running \o queue)'
           x == Told(s, block)
<1>2. happened[s] = Way(processed[s], buffer[s], a, unseen[s])
  BY DEF OrderInv, EventsInOrder, Way
<1>3. a = Cat(x, c) /\ c \in Seq(Int) /\ x \in Seq(Int)
  BY <1>1, AheadProcessed
<1>4. unseen[s] \in Seq(Int) /\ processed[s] \in Seq(Int) /\ buffer[s] \in Seq(Int)
  BY <1>1, OrderTypes
<1>5. EventsOf(s, Running \o queue)' = c
  OBVIOUS
<1>6. CASE block.sub # s
  <2>1. x = <<>> /\ processed'[s] = processed[s]
    BY <1>1, <1>6 DEF Told, IsCallback
  <2> HIDE DEF a, c, x
  <2>2. a = c
    BY <1>3, <2>1, CatIs
  <2> QED
    BY <1>1, <1>2, <1>5, <2>1, <2>2 DEF InOrder
<1>7. CASE block.sub = s
  <2>1. buffer[s] = <<>>
    BY <1>1, <1>7 DEF OrderInv, HandedOverIsEmpty
  <2>2. processed'[s] = Cat(processed[s], x)
    BY <1>1, <1>7 DEF Told, IsCallback, Cat
  <2> HIDE DEF a, c, x
  <2>3. Way(processed[s], <<>>, Cat(x, c), unseen[s])
          = Way(Cat(processed[s], x), <<>>, c, unseen[s])
    BY <1>3, <1>4, WayProcessed
  <2> QED
    BY <1>1, <1>2, <1>3, <1>5, <2>1, <2>2, <2>3 DEF InOrder
<1> QED
  BY <1>6, <1>7

(* ... the events that came before the index was there, all at once         *)
LEMMA OrderAfterHandedOff ==
  ASSUME OrderInv, NEW t \in Thread, HandedOff(t), NEW s \in 1..lastSub, sub[s].live
  PROVE  InOrder(s)'
<1>1. /\ QuietInv /\ s \in Sub /\ queue # <<>> /\ queue' = Tail(queue) /\ at = "idle"
      /\ at' = "idle" /\ UNCHANGED <<happened, unseen>> /\ First.kind = "handoff"
      /\ processed \in [Sub -> Seq(Int)] /\ buffer \in [Sub -> Seq(Int)]
      /\ \/ UNCHANGED <<processed, buffer>> /\ ~sub[First.sub].live
         \/ /\ processed' = [processed EXCEPT ![First.sub] = @ \o buffer[First.sub]]
            /\ buffer' = [buffer EXCEPT ![First.sub] = <<>>]
  BY StreamTypes, OrderTypes DEF OrderInv, HandedOff, Begins, AtOnce, BufferHandled
<1>2. Told(s, First) = <<>>
  BY <1>1 DEF Told, IsCallback
<1>3. \/ processed'[s] = processed[s] /\ buffer'[s] = buffer[s]
      \/ processed'[s] = Cat(processed[s], buffer[s]) /\ buffer'[s] = <<>>
  BY <1>1 DEF Cat
<1> QED
  BY <1>1, <1>2, <1>3, OrderAfterOther

LEMMA OrderAfterEmptyBlock ==
  ASSUME OrderInv, BarrierEnds \/ \E t \in Thread : FlushEnds(t),
         NEW s \in 1..lastSub, sub[s].live
  PROVE  InOrder(s)'
<1>1. /\ QuietInv /\ queue # <<>> /\ queue' = Tail(queue) /\ at = "idle"
      /\ at' = "idle" /\ UNCHANGED <<happened, unseen, processed, buffer>>
      /\ First.kind # "callback"
  BY StreamTypes DEF OrderInv, BarrierEnds, FlushEnds, Begins, AtOnce, eventVars
<1>2. Told(s, First) = <<>>
  BY <1>1 DEF Told, IsCallback
<1> QED
  BY <1>1, <1>2, OrderAfterOther

(* A callback that enters processEvents is still ahead of what is queued.   *)
LEMMA OrderAfterEntering ==
  ASSUME OrderInv, CallbackEnters, NEW s \in 1..lastSub, sub[s].live
  PROVE  InOrder(s)'
<1>1. /\ QuietInv /\ queue # <<>> /\ queue' = Tail(queue) /\ at = "idle"
      /\ at' = "process" /\ block' = First
      /\ UNCHANGED <<happened, unseen, processed, buffer>>
  BY StreamTypes DEF OrderInv, CallbackEnters, Begins, eventVars
<1>2. /\ First \in BlockRecord /\ queue = <<First>> \o Tail(queue)
      /\ queue \in Seq(BlockRecord)
  BY <1>1, OrderTypes
<1>3. (Running \o queue)' = queue /\ Running \o queue = queue
  BY <1>1, <1>2 DEF Running
<1>4. EventsOf(s, Running \o queue)' = EventsOf(s, Running \o queue)
  BY <1>3
<1>5. InOrder(s)
  BY DEF OrderInv, EventsInOrder, InOrder, Way
<1> QED
  BY <1>1, <1>4, <1>5, OrderStays

LEMMA OrderAfterStop ==
  ASSUME OrderInv, NEW r \in Sub, StopStream(r), NEW s \in 1..lastSub, sub[s].live
  PROVE  InOrder(s)'
<1>1. /\ QuietInv /\ s \in Sub /\ unseen \in [Sub -> Seq(Int)]
      /\ UNCHANGED <<happened, processed, buffer, block, at>>
      /\ unseen' = [unseen EXCEPT ![r] = <<>>]
      /\ queue' = Append(queue, Block("barrier", r, <<>>)) /\ sub[r].stop = "asked"
  BY StreamTypes, OrderTypes DEF OrderInv, StopStream
<1>2. r # s
  BY <1>1 DEF OrderInv, LiveRuns
<1>3. unseen'[s] = unseen[s]
  BY <1>1, <1>2
<1> DEFINE b == Block("barrier", r, <<>>)
<1>4. b \in BlockRecord /\ b.kind # "callback"
  BY EmptyBlockIs
<1>5. queue' = Append(queue, b)
  BY <1>1
<1> HIDE DEF b
<1> QED
  BY <1>1, <1>3, <1>4, <1>5, OrderAfterBlock

LEMMA OrderAfterHandOff ==
  ASSUME OrderInv, NEW t \in Thread, HandOff(t), NEW s \in 1..lastSub, sub[s].live
  PROVE  InOrder(s)'
<1>1. /\ QuietInv /\ UNCHANGED <<happened, processed, buffer, block, at, unseen>>
      /\ queue' = Append(queue, Block("handoff", mine[t], <<>>)) /\ where[t] = "flushed"
  BY DEF OrderInv, HandOff, eventVars
<1>2. mine[t] \in Sub
  BY <1>1, StreamTypes DEF QuietInv, LockIsHeld, Locked
<1> DEFINE b == Block("handoff", mine[t], <<>>)
<1>4. b \in BlockRecord /\ b.kind # "callback"
  BY <1>2, EmptyBlockIs
<1>5. queue' = Append(queue, b)
  BY <1>1
<1> HIDE DEF b
<1> QED
  BY <1>1, <1>4, <1>5, OrderAfterBlock

LEMMA OrderStep == OrderInv /\ [FSEventsNext]_fseventsVars => EventsInOrder'
<1> SUFFICES ASSUME OrderInv, [FSEventsNext]_fseventsVars,
                    NEW s \in (1..lastSub)', sub'[s].live
             PROVE  InOrder(s)'
  BY DEF EventsInOrder, InOrder, Way
<1> USE DEF backendVars, eventVars, queueVars, callerVars, boundVars
<1>1. QuietInv
  BY DEF OrderInv
<1>2. CASE s \in Sub /\ s = lastSub + 1 /\ \E t \in Thread : StartStream(t)
  BY <1>2, OrderAfterStart
<1>3. CASE s \in 1..lastSub /\ sub[s].live
  <2>1. s \in Sub /\ InOrder(s)
    BY <1>1, <1>3, StreamTypes DEF OrderInv, EventsInOrder, InOrder, Way
  <2>2. ASSUME UNCHANGED <<unseen, buffer, processed, happened, queue>>,
               (Running = Running')
        PROVE  InOrder(s)'
    BY <2>1, <2>2, OrderStays
  <2>3. CASE UNCHANGED <<eventVars, queueVars>>
    BY <2>2, <2>3 DEF Running
  <2>4. CASE CallbackLeaves \/ CallbackEnters \/ Process \/ ProcessThrows
    BY <1>3, <2>4, OrderAfterCallback, OrderAfterEntering, OrderAfterProcess
  <2>5. CASE BarrierEnds \/ \E t \in Thread : FlushEnds(t) \/ HandedOff(t)
    BY <1>3, <2>5, OrderAfterEmptyBlock, OrderAfterHandedOff
  <2>6. CASE Retire \/ HandleError
    BY <2>2, <2>6 DEF Retire, HandleError, EndBlock, Running
  <2>7. CASE QueueStep
    BY <2>4, <2>5, <2>6, <2>7 DEF QueueStep
  <2>8. ASSUME NEW t \in Thread, CallerStep(t) PROVE InOrder(s)'
    <3>1. CASE Scan(t)
      BY <1>3, <3>1, OrderAfterScan
    <3>2. CASE ~Scan(t)
      BY <2>3, <2>8, <3>2 DEF CallerStep, NothingToWatch, StartStream, StartFails,
        ScanFails, ScanCancelled, Finish, NothingToUnwatch, Unwatch, FinishUnsubscribe
    <3> QED
      BY <3>1, <3>2
  <2>9. ASSUME NEW t \in Thread, HandOff(t) PROVE InOrder(s)'
    BY <1>3, <2>9, OrderAfterHandOff
  <2>10. ASSUME NEW r \in Sub, Deliver(r) PROVE InOrder(s)'
    BY <1>3, <2>10, OrderAfterDeliver
  <2>11. ASSUME NEW r \in Sub, StopStream(r) PROVE InOrder(s)'
    BY <1>3, <2>11, OrderAfterStop
  <2>12. ASSUME NEW w \in Watcher, NEW root \in BOOLEAN, Change(w, root)
         PROVE  InOrder(s)'
    BY <1>3, <2>12, OrderAfterChange
  <2>13. ASSUME NEW w \in Watcher, Cancel(w) PROVE InOrder(s)'
    BY <2>3, <2>13 DEF Cancel
  <2>14. ASSUME NEW t \in Thread, NEW w \in Watcher, CallWatch(t, w) \/ CallUnwatch(t, w)
         PROVE  InOrder(s)'
    BY <2>3, <2>14 DEF CallWatch, CallUnwatch
  <2>15. CASE UNCHANGED fseventsVars
    BY <2>3, <2>15 DEF fseventsVars
  <2> QED
    BY <2>7, <2>8, <2>9, <2>10, <2>11, <2>12, <2>13, <2>14, <2>15 DEF FSEventsNext
<1> QED
  BY <1>1, <1>2, <1>3, LiveWasLive

LEMMA OrderInvStep == OrderInv /\ [FSEventsNext]_fseventsVars => OrderInv'
  BY QuietInvStep, LiveStep, HandedOverStep, OrderStep DEF OrderInv

LEMMA InitOrderInv == FSEventsInit => OrderInv
<1> SUFFICES ASSUME FSEventsInit PROVE OrderInv
  OBVIOUS
<1>1. 1..lastSub = {}
  BY DEF FSEventsInit
<1>2. LiveRuns /\ HandedOverIsEmpty /\ EventsInOrder
  BY <1>1 DEF LiveRuns, HandedOverIsEmpty, EventsInOrder
<1> QED
  BY <1>2, InitQuietInv DEF OrderInv

(* As long as a stream is live, the backend has processed the events since  *)
(* its start that are not still on their way, each once and in the order in *)
(* which they happened, also those that overtook the scan of its tree and   *)
(* were kept in pendingEvents until the index was there.                    *)
THEOREM EventsKeepOrder == FSEventsSpec => []EventsInOrder
<1>1. OrderInv => EventsInOrder
  BY DEF OrderInv
<1> QED
  BY <1>1, InitOrderInv, OrderInvStep, PTL DEF FSEventsSpec

----------------------------------------------------------------------------
(* FSEventsIndex.  The two maps of an index agree, whatever is on the disk, *)
(* whatever happens to it and in whatever order the backend looks.          *)

(* IdentityIndex.cc: an index without entries agrees. *)
LEMMA EmptyAgrees == Agree(EmptyIndex)
BY DEF Agree, EmptyIndex, NoEntries, Indexed

(* removeExact takes paths from both maps, and an identity without a path   *)
(* from the second.                                                         *)
LEMMA RemoveExactAgrees ==
  ASSUME NEW i, Agree(i), NEW paths
  PROVE  /\ Agree(RemoveExact(i, paths))
         /\ Indexed(RemoveExact(i, paths)) = Indexed(i) \ paths
<1> DEFINE known == paths \cap Indexed(i)
           left(id) == i.byIdentity[id] \ {p \in known : i.byPath[p].identity = id}
           ids == {id \in DOMAIN i.byIdentity : left(id) # {}}
           one == [p \in Indexed(i) \ known |-> i.byPath[p]]
           other == [id \in ids |-> left(id)]
<1>1. RemoveExact(i, paths) = [byPath |-> one, byIdentity |-> other]
  BY DEF RemoveExact
<1>2. \A id \in DOMAIN i.byIdentity :
        left(id) = {p \in Indexed(i) \ known : i.byPath[p].identity = id}
  BY DEF Agree
<1>3. \A p \in Indexed(i) : i.byPath[p].identity \in DOMAIN i.byIdentity
  BY DEF Agree
<1>4. ids = {i.byPath[p].identity : p \in Indexed(i) \ known}
  BY <1>2, <1>3
<1>5. DOMAIN one = Indexed(i) \ known /\ \A p \in DOMAIN one : one[p] = i.byPath[p]
  OBVIOUS
<1>6. DOMAIN other = {one[p].identity : p \in DOMAIN one}
  BY <1>4, <1>5
<1>7. \A id \in DOMAIN other : other[id] = {p \in DOMAIN one : one[p].identity = id}
  BY <1>2, <1>5
<1>8. DOMAIN one = Indexed(i) \ paths
  BY <1>5
<1> HIDE DEF one, other
<1> QED
  BY <1>1, <1>6, <1>7, <1>8 DEF Agree, Indexed

(* add: a path that is not known is put into both maps. *)
LEMMA PutAgrees ==
  ASSUME NEW i, Agree(i), NEW path, path \notin Indexed(i), NEW entry
  PROVE  Agree(Put(i, path, entry))
<1> DEFINE one == [p \in Indexed(i) \cup {path} |-> IF p = path THEN entry ELSE i.byPath[p]]
           other == [id \in DOMAIN i.byIdentity \cup {entry.identity} |->
                       IF id = entry.identity THEN PathsOf(i, id) \cup {path}
                                              ELSE i.byIdentity[id]]
<1>1. Put(i, path, entry) = [byPath |-> one, byIdentity |-> other]
  BY DEF Put
<1>2. /\ DOMAIN one = Indexed(i) \cup {path} /\ one[path] = entry
      /\ \A p \in Indexed(i) : one[p] = i.byPath[p]
  OBVIOUS
<1>3. \A id : PathsOf(i, id) = {p \in Indexed(i) : i.byPath[p].identity = id}
  <2> TAKE id
  <2>1. CASE id \in DOMAIN i.byIdentity
    BY <2>1 DEF PathsOf, Agree
  <2>2. CASE id \notin DOMAIN i.byIdentity
    <3>1. PathsOf(i, id) = {}
      BY <2>2 DEF PathsOf
    <3>2. \A p \in Indexed(i) : i.byPath[p].identity # id
      BY <2>2 DEF Agree
    <3> QED
      BY <3>1, <3>2
  <2> QED
    BY <2>1, <2>2
<1>4. DOMAIN other = {one[p].identity : p \in DOMAIN one}
  <2>1. DOMAIN i.byIdentity = {i.byPath[p].identity : p \in Indexed(i)}
    BY DEF Agree
  <2>2. DOMAIN other = DOMAIN i.byIdentity \cup {entry.identity}
    OBVIOUS
  <2> HIDE DEF one, other
  <2> QED
    BY <1>2, <2>1, <2>2
<1>5. \A id \in DOMAIN other : other[id] = {p \in DOMAIN one : one[p].identity = id}
  <2> TAKE id \in DOMAIN other
  <2>1. CASE id = entry.identity
    <3>1. other[id] = PathsOf(i, id) \cup {path}
      BY <2>1
    <3> QED
      BY <3>1, <2>1, <1>2, <1>3
  <2>2. CASE id # entry.identity
    <3>1. other[id] = {p \in Indexed(i) : i.byPath[p].identity = id}
      BY <2>2 DEF Agree
    <3> QED
      BY <3>1, <2>2, <1>2
  <2> QED
    BY <2>1, <2>2
<1> HIDE DEF one, other
<1> QED
  BY <1>1, <1>4, <1>5 DEF Agree, Indexed

(* add takes a path that is known out first: it may have another identity. *)
LEMMA AddEntryAgrees ==
  ASSUME NEW i, Agree(i), NEW path, NEW entry
  PROVE  Agree(AddEntry(i, path, entry))
<1>1. /\ Agree(RemoveExact(i, {path}))
      /\ path \notin Indexed(RemoveExact(i, {path}))
  BY RemoveExactAgrees
<1> QED
  BY <1>1, PutAgrees DEF AddEntry

LEMMA RemoveTreeAgrees ==
  ASSUME NEW i, Agree(i), NEW path
  PROVE  Agree(RemoveTree(i, path))
BY RemoveExactAgrees DEF RemoveTree

LEMMA RenameFileAgrees ==
  ASSUME NEW i, Agree(i), NEW oldPath, NEW newPath
  PROVE  Agree(RenameFile(i, oldPath, newPath))
<1>1. Agree(RemoveExact(i, {oldPath}))
  BY RemoveExactAgrees
<1> QED
  BY <1>1, AddEntryAgrees DEF RenameFile

----------------------------------------------------------------------------
(* FSEventsBackend.cc *)
LEMMA RemovedPathAgrees ==
  ASSUME NEW path, Agree(index)
  PROVE  Agree(RemovedPath(AsIs, path).index)
<1>1. AsIs.index = index
  BY DEF AsIs
<1>2. CASE path \notin DOMAIN AsIs.index.byPath
  BY <1>1, <1>2 DEF RemovedPath
<1>3. CASE path \in DOMAIN AsIs.index.byPath
  <2>1. RemovedPath(AsIs, path).index = RemoveTree(index, path)
    BY <1>1, <1>3 DEF RemovedPath
  <2> QED
    BY <2>1, RemoveTreeAgrees
<1> QED
  BY <1>2, <1>3

LEMMA RecordedPathAgrees ==
  ASSUME NEW path, NEW entry, Agree(index)
  PROVE  Agree(RecordedPath(AsIs, path, entry).index)
<1> DEFINE isKnown  == path \in Indexed(AsIs.index)
           previous == AsIs.index.byPath[path]
           same     == isKnown /\ SameEntry(previous, entry)
           ofType   == isKnown /\ previous.isDirectory = entry.isDirectory
           other    == [AsIs EXCEPT !.tree = TreeRemoved(@, path)]
           rest     == IF isKnown /\ ~ofType THEN RemovedPath(AsIs, path)
                       ELSE IF same THEN AsIs ELSE other
<1>1. AsIs.index = index /\ other.index = index
  BY DEF AsIs
<1>2. Agree(rest.index)
  <2>1. CASE isKnown /\ ~ofType
    BY <2>1, RemovedPathAgrees
  <2>2. CASE ~(isKnown /\ ~ofType)
    BY <2>2, <1>1
  <2> QED
    BY <2>1, <2>2
<1>3. RecordedPath(AsIs, path, entry).index = AddEntry(rest.index, path, entry)
  BY DEF RecordedPath
<1> HIDE DEF rest
<1> QED
  BY <1>2, <1>3, AddEntryAgrees

LEMMA AddCreatedAgrees ==
  ASSUME NEW path, IndexesAgree, AddCreatedPath(path)
  PROVE  IndexesAgree'
<1>1. CASE path \notin DOMAIN disk
  BY <1>1 DEF AddCreatedPath, IndexesAgree, stateVars, scanVars
<1>2. CASE path \in DOMAIN disk /\ IsDir(path)
  <2>1. index' = index /\ scanned' = EmptyIndex
    BY <1>2 DEF AddCreatedPath, BeginScan, stateVars
  <2> QED
    BY <2>1, EmptyAgrees DEF IndexesAgree
<1>3. CASE path \in DOMAIN disk /\ ~IsDir(path)
  <2>1. index' = RecordedPath(AsIs, path, Stat(path)).index /\ scanned' = scanned
    BY <1>3 DEF AddCreatedPath, Becomes, scanVars
  <2> QED
    BY <2>1, RecordedPathAgrees DEF IndexesAgree
<1> QED
  BY <1>1, <1>2, <1>3

(* scanIdentityIndex, with the handling of each entry. *)
LEMMA ScanningAgrees ==
  ASSUME IndexesAgree, Scanning
  PROVE  IndexesAgree'
<1>1. ASSUME NEW path \in Path \cup {Root}, Return(path) PROVE IndexesAgree'
  <2>1. CASE job.for = "create"
    <3>1. index' = RecordedPath(AsIs, path, found[path]).index /\ scanned' = scanned
      BY <1>1, <2>1 DEF Return, Becomes
    <3> QED
      BY <3>1, RecordedPathAgrees DEF IndexesAgree
  <2>2. CASE job.for # "create"
    <3>1. index' = index /\ scanned' = AddEntry(scanned, path, found[path])
      BY <1>1, <2>2 DEF Return, stateVars
    <3> QED
      BY <3>1, AddEntryAgrees DEF IndexesAgree
  <2> QED
    BY <2>1, <2>2
<1>2. ASSUME NEW path \in Path \cup {Root}, Open(path) \/ OpenFails(path) PROVE IndexesAgree'
  BY <1>2 DEF Open, OpenFails, IndexesAgree, stateVars, scanVars
<1>3. CASE SubscribeScanned
  BY <1>3, EmptyAgrees DEF SubscribeScanned, NoScan, IndexesAgree
<1>4. CASE CreatedScanned
  BY <1>4, EmptyAgrees DEF CreatedScanned, NoScan, IndexesAgree, stateVars
<1>5. CASE Reconcile
  <2>1. index' = scanned /\ scanned' = EmptyIndex
    BY <1>5 DEF Reconcile, Becomes, NoScan
  <2> QED
    BY <2>1, EmptyAgrees DEF IndexesAgree
<1> QED
  BY <1>1, <1>2, <1>3, <1>4, <1>5 DEF Scanning

(* processEvents with correlateRenames. *)
LEMMA HandlingAgrees ==
  ASSUME IndexesAgree, Handling
  PROVE  IndexesAgree'
<1>1. CASE TakeBatch
  BY <1>1, EmptyAgrees DEF TakeBatch, BeginScan, IndexesAgree, stateVars, scanVars
<1>2. CASE FindCandidates \/ Correlated \/ BatchEnds
  BY <1>2 DEF FindCandidates, Correlated, BatchEnds, IndexesAgree, stateVars, scanVars
<1>3. ASSUME NEW id, Correlate(id) PROVE IndexesAgree'
  <2>1. scanned' = scanned
    BY <1>3 DEF Correlate, scanVars
  <2>2. PICK old \in DOMAIN removed, new \in DOMAIN created :
          index' = AddEntry(RenameFile(index, old, new), new, created[new])
    BY <1>3 DEF Correlate, Becomes
  <2>3. Agree(RenameFile(index, old, new))
    BY RenameFileAgrees DEF IndexesAgree
  <2> QED
    BY <2>1, <2>2, <2>3, AddEntryAgrees DEF IndexesAgree
<1>4. ASSUME NEW id, DoNotCorrelate(id) PROVE IndexesAgree'
  BY <1>4 DEF DoNotCorrelate, IndexesAgree, stateVars, scanVars
<1>5. CASE HandleNone
  BY <1>5 DEF HandleNone, IndexesAgree, stateVars, scanVars
<1>6. CASE HandleRemoved
  <2>1. index' = RemovedPath(AsIs, Head(batch).path).index /\ scanned' = scanned
    BY <1>6 DEF HandleRemoved, Becomes, scanVars
  <2> QED
    BY <2>1, RemovedPathAgrees DEF IndexesAgree
<1>7. CASE HandleCreated
  BY <1>7, AddCreatedAgrees DEF HandleCreated
<1>8. CASE HandleModified \/ HandleNew
  <2> DEFINE path == Head(batch).path
  <2>1. index' = AddEntry(index, path, Stat(path)) /\ scanned' = scanned
    BY <1>8 DEF HandleModified, HandleNew, Becomes, scanVars
  <2> QED
    BY <2>1, AddEntryAgrees DEF IndexesAgree
<1> QED
  BY <1>1, <1>2, <1>3, <1>4, <1>5, <1>6, <1>7, <1>8 DEF Handling

(* What the disk and the client do leaves the indexes alone. *)
LEMMA OthersAgree ==
  ASSUME IndexesAgree, FileSystem \/ Drain \/ UNCHANGED indexVars
  PROVE  IndexesAgree'
<1>1. index' = index /\ scanned' = scanned
  BY DEF FileSystem, Drain, MakeEntry, WriteFile, ChangeMode, DeleteEntry, LinkFile, MoveEntry,
         DropEvents, DiskChange, indexVars, stateVars, scanVars
<1> QED
  BY <1>1 DEF IndexesAgree

(* The two maps of State::identities agree in every state: the number of    *)
(* paths an identity has, which decides whether a rename is told, is that   *)
(* of the paths the index knows.                                            *)
THEOREM IndexesAlwaysAgree == IndexSpec => []IndexesAgree
<1>1. IndexInit => IndexesAgree
  BY EmptyAgrees DEF IndexInit, IndexesAgree
<1>2. IndexesAgree /\ [IndexNext]_indexVars => IndexesAgree'
  BY ScanningAgrees, HandlingAgrees, OthersAgree DEF IndexNext
<1> QED
  BY <1>1, <1>2, PTL DEF IndexSpec
=============================================================================
