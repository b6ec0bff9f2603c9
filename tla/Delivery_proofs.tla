---------------------------- MODULE Delivery_proofs ----------------------------
(* Proofs about what reaches a callback and when.  About EventList: a batch *)
(* has the net effect of what happened, and its ids are of moves, for any   *)
(* paths, kinds, rename ids and errors.  About Debounce: no event is        *)
(* forgotten and no watcher is called that is gone, for any watchers,       *)
(* backend threads and waiting times.                                       *)
EXTENDS EventList, Debounce, FiniteSetTheorems, TLAPS

(* EventList                                                                *)
(* What the flags of an event mean, and what it means to have none. *)
EventsFollow ==
  /\ \A k \in DOMAIN mEvents : /\ mEvents[k].isCreated <=> k \notin before
                               /\ mEvents[k].isDeleted <=> k \notin tree
  /\ \A k \in Entry \ DOMAIN mEvents : k \in tree <=> k \in before

ListInv == EventsTypeOK /\ EventsFollow

----------------------------------------------------------------------------
LEMMA NewEventType ==
  [isCreated |-> FALSE, isDeleted |-> FALSE, renameId |-> NoId] \in Event
  BY DEF Event

LEMMA EventOfType ==
  ASSUME NEW pendingOf, pendingOf \in [DOMAIN pendingOf -> Event], NEW k
  PROVE  EventOf(pendingOf, k) \in Event
  BY NewEventType DEF EventOf

(* What Appeared does to the flags of an event. *)
LEMMA AppearedFlags ==
  ASSUME NEW event \in Event, NEW id \in RenameId \cup {NoId}
  PROVE  /\ Appeared(event, id) \in Event
         /\ ~Appeared(event, id).isDeleted
         /\ Appeared(event, id).isCreated <=> event.isCreated \/ ~event.isDeleted
<1>1. CASE event.isDeleted
  BY <1>1 DEF Appeared, Event
<1>2. CASE ~event.isDeleted
  BY <1>2 DEF Appeared, Event
<1> QED
  BY <1>1, <1>2

(* The event of any entry, present or fresh, says whether it was there      *)
(* before and, if it is present, whether it is there now.                   *)
LEMMA FlagsOf ==
  ASSUME EventsFollow, NEW k \in Entry
  PROVE  /\ EventOf(mEvents, k).isCreated => k \notin before
         /\ EventOf(mEvents, k).isDeleted => k \notin tree
         /\ k \in DOMAIN mEvents =>
              /\ EventOf(mEvents, k).isCreated <=> k \notin before
              /\ EventOf(mEvents, k).isDeleted <=> k \notin tree
         /\ k \notin DOMAIN mEvents =>
              /\ ~EventOf(mEvents, k).isCreated /\ ~EventOf(mEvents, k).isDeleted
              /\ k \in tree <=> k \in before
  BY DEF EventOf, EventsFollow

(* One entry gets a new event, which says what is true of it afterwards.    *)
LEMMA WithFollows ==
  ASSUME ListInv, NEW k \in Entry, NEW event \in Event,
         mEvents' = With(mEvents, k, event),
         before' = before,
         \A l \in Entry \ {k} : l \in tree' <=> l \in tree,
         event.isCreated <=> k \notin before,
         event.isDeleted <=> k \notin tree'
  PROVE  /\ DOMAIN mEvents' \subseteq Entry /\ mEvents' \in [DOMAIN mEvents' -> Event]
         /\ EventsFollow'
<1>1. DOMAIN mEvents \subseteq Entry /\ mEvents \in [DOMAIN mEvents -> Event]
  BY DEF ListInv, EventsTypeOK
<1>2. /\ DOMAIN mEvents' = DOMAIN mEvents \cup {k}
      /\ mEvents' \in [DOMAIN mEvents' -> Event]
      /\ mEvents'[k] = event
      /\ \A l \in DOMAIN mEvents \ {k} : mEvents'[l] = mEvents[l]
  BY <1>1 DEF With
<1> QED
  BY <1>1, <1>2 DEF ListInv, EventsFollow

----------------------------------------------------------------------------
LEMMA CreateFollows ==
  ASSUME ListInv, NEW k \in Entry, Create(k)
  PROVE  ListInv'
<1> DEFINE event == Appeared(EventOf(mEvents, k), EventOf(mEvents, k).renameId)
<1>1. k \notin tree
  BY DEF Create
<1>2. EventOf(mEvents, k) \in Event
  BY EventOfType DEF ListInv, EventsTypeOK
<1>3. EventOf(mEvents, k).renameId \in RenameId \cup {NoId}
  BY <1>2 DEF Event
<1>4. event \in Event /\ ~event.isDeleted /\ (event.isCreated <=> k \notin before)
  BY <1>1, <1>2, <1>3, AppearedFlags, FlagsOf DEF ListInv
<1>5. mEvents' = With(mEvents, k, event) /\ tree' = tree \cup {k} /\ before' = before
  BY DEF Create, Created
<1> HIDE DEF event
<1>6. /\ DOMAIN mEvents' \subseteq Entry /\ mEvents' \in [DOMAIN mEvents' -> Event]
      /\ EventsFollow'
  BY <1>4, <1>5, WithFollows
<1> QED
  BY <1>5, <1>6 DEF ListInv, EventsTypeOK, Create

LEMMA UpdateFollows ==
  ASSUME ListInv, NEW k \in Entry, Update(k)
  PROVE  ListInv'
<1> DEFINE event == EventOf(mEvents, k)
<1>1. event \in Event
  BY EventOfType DEF ListInv, EventsTypeOK
<1>2. k \in tree /\ mEvents' = With(mEvents, k, event) /\ tree' = tree /\ before' = before
  BY DEF Update, Updated
<1>3. (event.isCreated <=> k \notin before) /\ (event.isDeleted <=> k \notin tree)
  BY <1>2, FlagsOf DEF ListInv
<1> HIDE DEF event
<1>4. /\ DOMAIN mEvents' \subseteq Entry /\ mEvents' \in [DOMAIN mEvents' -> Event]
      /\ EventsFollow'
  BY <1>1, <1>2, <1>3, WithFollows
<1> QED
  BY <1>2, <1>4 DEF ListInv, EventsTypeOK, Update

LEMMA RemoveFollows ==
  ASSUME ListInv, NEW k \in Entry, Remove(k)
  PROVE  ListInv'
<1> DEFINE event == [EventOf(mEvents, k) EXCEPT !.isDeleted = TRUE, !.renameId = NoId]
<1>1. EventOf(mEvents, k) \in Event
  BY EventOfType DEF ListInv, EventsTypeOK
<1>2. /\ event \in Event /\ event.isDeleted
      /\ event.isCreated <=> EventOf(mEvents, k).isCreated
  BY <1>1 DEF Event
<1>3. /\ k \in tree /\ mEvents' = With(mEvents, k, event)
      /\ tree' = tree \ {k} /\ before' = before
  BY DEF Remove, Removed
<1>4. event.isCreated <=> k \notin before
  BY <1>2, <1>3, FlagsOf DEF ListInv
<1> HIDE DEF event
<1>5. /\ DOMAIN mEvents' \subseteq Entry /\ mEvents' \in [DOMAIN mEvents' -> Event]
      /\ EventsFollow'
  BY <1>2, <1>3, <1>4, WithFollows
<1> QED
  BY <1>3, <1>5 DEF ListInv, EventsTypeOK, Remove

----------------------------------------------------------------------------
(* A rename: k loses its event or gets one that says it is gone, l gets one *)
(* that says it is there.                                                   *)
LEMMA RenameFollows ==
  ASSUME ListInv, NEW k \in Entry, NEW l \in Entry, NEW id \in RenameId,
         Rename(k, l, id)
  PROVE  ListInv'
<1>1. /\ k \in tree /\ l \notin tree /\ k # l
      /\ mEvents' = Renamed(mEvents, k, l, id)
      /\ tree' = (tree \ {k}) \cup {l} /\ before' = before
  BY DEF Rename
<1>2. /\ DOMAIN mEvents \subseteq Entry /\ mEvents \in [DOMAIN mEvents -> Event]
  BY DEF ListInv, EventsTypeOK
<1>3. EventOf(mEvents, k) \in Event /\ EventOf(mEvents, l) \in Event
  BY <1>2, EventOfType
<1>4. CASE EventOf(mEvents, k).isCreated
  <2> DEFINE rest  == Without(mEvents, k)
             event == Appeared(EventOf(rest, l), mEvents[k].renameId)
  <2>1. mEvents' = With(rest, l, event)
    BY <1>1, <1>4 DEF Renamed, RenamedCreated
  <2>2. k \in DOMAIN mEvents /\ k \notin before
    BY <1>4, FlagsOf DEF ListInv, EventOf
  <2>3. EventOf(rest, l) = EventOf(mEvents, l)
    BY <1>1, <1>2 DEF EventOf, Without
  <2>4. mEvents[k].renameId \in RenameId \cup {NoId}
    BY <1>2, <2>2 DEF Event
  <2>5. event \in Event /\ ~event.isDeleted /\ (event.isCreated <=> l \notin before)
    BY <1>1, <1>3, <2>3, <2>4, AppearedFlags, FlagsOf DEF ListInv
  <2>6. /\ DOMAIN rest = DOMAIN mEvents \ {k} /\ DOMAIN rest \subseteq Entry
        /\ rest \in [DOMAIN rest -> Event]
        /\ \A m \in DOMAIN rest : rest[m] = mEvents[m]
    BY <1>2 DEF Without
  <2> HIDE DEF rest, event
  <2>7. /\ DOMAIN mEvents' = DOMAIN rest \cup {l} /\ DOMAIN mEvents' \subseteq Entry
        /\ mEvents' \in [DOMAIN mEvents' -> Event]
        /\ mEvents'[l] = event
        /\ \A m \in DOMAIN rest \ {l} : mEvents'[m] = rest[m]
    BY <2>1, <2>5, <2>6 DEF With
  <2>8. EventsFollow'
    BY <1>1, <2>2, <2>5, <2>6, <2>7 DEF EventsFollow, ListInv
  <2> QED
    BY <1>1, <2>7, <2>8 DEF ListInv, EventsTypeOK, Rename
<1>5. CASE ~EventOf(mEvents, k).isCreated
  <2> DEFINE idOfOld == IF EventOf(mEvents, l).isDeleted THEN NoId ELSE id
             gone    == [EventOf(mEvents, k) EXCEPT !.isDeleted = TRUE,
                                                    !.renameId = idOfOld]
             removed == With(mEvents, k, gone)
             event   == Appeared(EventOf(removed, l), id)
  <2>1. mEvents' = With(removed, l, event)
    BY <1>1, <1>5 DEF Renamed, RenamedOld
  <2>2. gone \in Event /\ gone.isDeleted /\ ~gone.isCreated
    BY <1>3, <1>5 DEF Event
  <2>3. k \in before
    BY <1>1, <1>5, FlagsOf DEF ListInv
  <2> HIDE DEF gone
  <2>4. /\ DOMAIN removed = DOMAIN mEvents \cup {k} /\ DOMAIN removed \subseteq Entry
        /\ removed \in [DOMAIN removed -> Event] /\ removed[k] = gone
        /\ \A m \in DOMAIN mEvents \ {k} : removed[m] = mEvents[m]
    BY <1>2, <2>2 DEF With
  <2>5. EventOf(removed, l) = EventOf(mEvents, l)
    BY <1>1, <2>4 DEF EventOf
  <2>6. event \in Event /\ ~event.isDeleted /\ (event.isCreated <=> l \notin before)
    BY <1>1, <1>3, <2>5, AppearedFlags, FlagsOf DEF ListInv
  <2> HIDE DEF removed, event
  <2>7. /\ DOMAIN mEvents' = DOMAIN removed \cup {l} /\ DOMAIN mEvents' \subseteq Entry
        /\ mEvents' \in [DOMAIN mEvents' -> Event]
        /\ mEvents'[l] = event
        /\ \A m \in DOMAIN removed \ {l} : mEvents'[m] = removed[m]
    BY <2>1, <2>4, <2>6 DEF With
  <2>8. EventsFollow'
    BY <1>1, <2>2, <2>3, <2>4, <2>6, <2>7 DEF EventsFollow, ListInv
  <2> QED
    BY <1>1, <2>7, <2>8 DEF ListInv, EventsTypeOK, Rename
<1> QED
  BY <1>4, <1>5

----------------------------------------------------------------------------
LEMMA ListInvStep == ListInv /\ [ListNext]_listVars => ListInv'
<1> SUFFICES ASSUME ListInv, [ListNext]_listVars PROVE ListInv'
  OBVIOUS
<1>1. ASSUME NEW k \in Entry, Create(k) \/ Update(k) \/ Remove(k) PROVE ListInv'
  BY <1>1, CreateFollows, UpdateFollows, RemoveFollows
<1>2. ASSUME NEW k \in Entry, NEW l \in Entry, NEW id \in RenameId, Rename(k, l, id)
      PROVE  ListInv'
  BY <1>2, RenameFollows
<1>3. ASSUME NEW err \in Error, Fail(err) PROVE ListInv'
  BY <1>3 DEF ListInv, EventsTypeOK, EventsFollow, Fail
<1>4. ASSUME Drain PROVE ListInv'
  <2>1. DOMAIN mEvents' = {} /\ mEvents' \in [DOMAIN mEvents' -> Event]
    BY <1>4 DEF Drain
  <2> QED
    BY <1>4, <2>1 DEF ListInv, EventsTypeOK, EventsFollow, Drain
<1>5. CASE UNCHANGED listVars
  BY <1>5 DEF ListInv, EventsTypeOK, EventsFollow, listVars
<1> QED
  BY <1>1, <1>2, <1>3, <1>4, <1>5 DEF ListNext

LEMMA InitListInv == ListInit => ListInv
<1> SUFFICES ASSUME ListInit PROVE ListInv
  OBVIOUS
<1>1. DOMAIN mEvents = {} /\ mEvents \in [DOMAIN mEvents -> Event]
  BY DEF ListInit
<1> QED
  BY <1>1 DEF ListInit, ListInv, EventsTypeOK, EventsFollow

(* The list is well-typed, and the flags of a pending event always compare  *)
(* the index with what it was at the last drain.                            *)
THEOREM ListTypeCorrectness == ListSpec => [](EventsTypeOK /\ EventsFollow)
<1>1. ListInv => EventsTypeOK /\ EventsFollow
  BY DEF ListInv
<1> QED
  BY <1>1, InitListInv, ListInvStep, PTL DEF ListSpec

----------------------------------------------------------------------------
(* The events of a batch for k, by the event of k. *)
LEMMA TypesInBatch ==
  ASSUME NEW k, NEW type
  PROVE  type \in {event.type : event \in {e \in Batch(mEvents) : e.entry = k}}
           <=> k \in Reported(mEvents) /\ type = TypeOf(mEvents[k])
<1> DEFINE EventFor(l) == [entry |-> l, type |-> TypeOf(mEvents[l]),
                           renameId |-> IF KeepsId(mEvents, mEvents[l].renameId)
                                          THEN mEvents[l].renameId ELSE NoId]
<1>1. \A l : EventFor(l).entry = l /\ EventFor(l).type = TypeOf(mEvents[l])
  OBVIOUS
<1>2. Batch(mEvents) = {EventFor(l) : l \in Reported(mEvents)}
  BY DEF Batch
<1> HIDE DEF EventFor
<1> QED
  BY <1>1, <1>2

LEMMA InvGivesNetEffect == ListInv => NetEffect
<1> SUFFICES ASSUME ListInv PROVE NetEffect
  OBVIOUS
<1> DEFINE Types(k) == {event.type : event \in {e \in Batch(mEvents) : e.entry = k}}
<1>1. ASSUME NEW k \in Entry
      PROVE  /\ "create" \in Types(k) <=> k \in tree \ before
             /\ "delete" \in Types(k) <=> k \in before \ tree
             /\ "update" \in Types(k) => k \in before \cap tree
  <2>1. ASSUME NEW type
        PROVE  type \in Types(k)
                 <=> k \in Reported(mEvents) /\ type = TypeOf(mEvents[k])
    BY <2>1, TypesInBatch
  <2> HIDE DEF Types
  <2>2. CASE k \in DOMAIN mEvents
    <3>1. /\ mEvents[k].isCreated <=> k \notin before
          /\ mEvents[k].isDeleted <=> k \notin tree
      BY <2>2 DEF ListInv, EventsFollow
    <3>2. k \in Reported(mEvents) <=> k \in tree \/ k \in before
      BY <2>2, <3>1 DEF Reported
    <3>3. /\ TypeOf(mEvents[k]) = "create" <=> k \notin before
          /\ TypeOf(mEvents[k]) = "delete" <=> k \in before /\ k \notin tree
          /\ TypeOf(mEvents[k]) = "update" <=> k \in before /\ k \in tree
      BY <3>1 DEF TypeOf
    <3> QED
      BY <2>1, <3>2, <3>3
  <2>3. CASE k \notin DOMAIN mEvents
    <3>1. k \notin Reported(mEvents) /\ (k \in tree <=> k \in before)
      BY <1>1, <2>3 DEF Reported, ListInv, EventsFollow
    <3> QED
      BY <2>1, <3>1
  <2> QED
    BY <2>2, <2>3
<1> QED
  BY <1>1 DEF NetEffect

(* Whatever happens between two drains, EventList::drain reports its net    *)
(* effect on the index.                                                     *)
THEOREM BatchesAreNet == ListSpec => []NetEffect
  BY InitListInv, ListInvStep, InvGivesNetEffect, PTL DEF ListSpec

----------------------------------------------------------------------------
(* Where two pending events have one id: they are not of one kind, and what *)
(* was created with it came from where it was deleted.  An id is given to a *)
(* pair and follows the created entry when it is renamed again; whatever    *)
(* breaks the pair resets it.                                               *)
IdsFollow ==
  \A k, l \in DOMAIN mEvents :
    mEvents[k].renameId # NoId /\ mEvents[k].renameId = mEvents[l].renameId =>
      /\ mEvents[k].isCreated = mEvents[l].isCreated => k = l
      /\ mEvents[k].isDeleted /\ mEvents[l].isCreated => k \in cameFrom[l]

PairInv == ListInv /\ IdsFollow

(* An entry whose new event has no id is in no pair, wherever it came from. *)
LEMMA WithoutIdFollows ==
  ASSUME PairInv, NEW k \in Entry, NEW event \in Event, event.renameId = NoId,
         mEvents' = With(mEvents, k, event),
         \A l \in Entry \ {k} : cameFrom'[l] = cameFrom[l]
  PROVE  IdsFollow'
<1>1. DOMAIN mEvents \subseteq Entry
  BY DEF PairInv, ListInv, EventsTypeOK
<1>2. /\ DOMAIN mEvents' = DOMAIN mEvents \cup {k}
      /\ mEvents'[k].renameId = NoId
      /\ \A l \in DOMAIN mEvents \ {k} : mEvents'[l] = mEvents[l]
  BY DEF With
<1> QED
  BY <1>1, <1>2 DEF PairInv, IdsFollow

(* An entry that is not in the index has no event, or one that says it is   *)
(* gone.                                                                    *)
LEMMA AbsentEvent ==
  ASSUME ListInv, NEW k \in Entry, k \notin tree
  PROVE  \/ EventOf(mEvents, k).isDeleted
         \/ k \notin DOMAIN mEvents /\ EventOf(mEvents, k).renameId = NoId
  BY DEF ListInv, EventsFollow, EventOf

LEMMA CreateIds ==
  ASSUME PairInv, NEW k \in Entry, Create(k)
  PROVE  IdsFollow'
<1> DEFINE event == Appeared(EventOf(mEvents, k), EventOf(mEvents, k).renameId)
<1>1. k \notin tree /\ mEvents' = With(mEvents, k, event) /\ cameFrom' = cameFrom
  BY DEF Create, Created
<1>2. EventOf(mEvents, k) \in Event
  BY EventOfType DEF PairInv, ListInv, EventsTypeOK
<1>3. EventOf(mEvents, k).renameId \in RenameId \cup {NoId}
  BY <1>2 DEF Event
<1>4. event \in Event
  BY <1>2, <1>3, AppearedFlags
<1>5. event.renameId = NoId
  <2>1. CASE EventOf(mEvents, k).isDeleted
    BY <2>1, <1>2 DEF Appeared, Event
  <2>2. CASE ~EventOf(mEvents, k).isDeleted
    <3>1. EventOf(mEvents, k).renameId = NoId
      BY <2>2, <1>1, AbsentEvent DEF PairInv
    <3> QED
      BY <3>1, <2>2, <1>2 DEF Appeared, Event
  <2> QED
    BY <2>1, <2>2
<1> HIDE DEF event
<1> QED
  BY <1>1, <1>4, <1>5, WithoutIdFollows

LEMMA UpdateIds ==
  ASSUME PairInv, NEW k \in Entry, Update(k)
  PROVE  IdsFollow'
<1>1. mEvents' = With(mEvents, k, EventOf(mEvents, k)) /\ cameFrom' = cameFrom
  BY DEF Update, Updated
<1>2. CASE k \in DOMAIN mEvents
  <2>1. DOMAIN mEvents' = DOMAIN mEvents /\ \A l \in DOMAIN mEvents : mEvents'[l] = mEvents[l]
    BY <1>1, <1>2 DEF With, EventOf
  <2> QED
    BY <2>1, <1>1 DEF PairInv, IdsFollow
<1>3. CASE k \notin DOMAIN mEvents
  <2>1. EventOf(mEvents, k) \in Event /\ EventOf(mEvents, k).renameId = NoId
    BY <1>3, NewEventType DEF EventOf
  <2> QED
    BY <2>1, <1>1, WithoutIdFollows
<1> QED
  BY <1>2, <1>3

LEMMA RemoveIds ==
  ASSUME PairInv, NEW k \in Entry, Remove(k)
  PROVE  IdsFollow'
<1> DEFINE event == [EventOf(mEvents, k) EXCEPT !.isDeleted = TRUE, !.renameId = NoId]
<1>1. EventOf(mEvents, k) \in Event
  BY EventOfType DEF PairInv, ListInv, EventsTypeOK
<1>2. event \in Event /\ event.renameId = NoId
  BY <1>1 DEF Event
<1>3. mEvents' = With(mEvents, k, event)
  BY DEF Remove, Removed
<1>4. \A l \in Entry \ {k} : cameFrom'[l] = cameFrom[l]
  BY DEF Remove, PairInv, ListInv, EventsTypeOK
<1> HIDE DEF event
<1> QED
  BY <1>2, <1>3, <1>4, WithoutIdFollows

----------------------------------------------------------------------------
(* What was created in the batch goes on with its id, unless it ends on an  *)
(* entry that the batch deleted; what was there before gets a new pair.     *)
LEMMA RenameIds ==
  ASSUME PairInv, NEW k \in Entry, NEW l \in Entry, NEW id \in RenameId,
         Rename(k, l, id)
  PROVE  IdsFollow'
<1>1. /\ k \in tree /\ l \notin tree /\ k # l /\ id # NoId
      /\ mEvents' = Renamed(mEvents, k, l, id)
      /\ \A m \in DOMAIN mEvents : mEvents[m].renameId # id
  BY NoIdAssumption DEF Rename
<1>2. /\ DOMAIN mEvents \subseteq Entry
      /\ mEvents \in [DOMAIN mEvents -> Event]
      /\ cameFrom \in [Entry -> SUBSET Entry]
  BY DEF PairInv, ListInv, EventsTypeOK
<1>3. /\ cameFrom'[l] = cameFrom[k] \cup {k}
      /\ \A m \in Entry \ {k, l} : cameFrom'[m] = cameFrom[m]
  BY <1>1, <1>2 DEF Rename
<1>4. EventOf(mEvents, k) \in Event /\ EventOf(mEvents, l) \in Event
  BY <1>2, EventOfType
<1>5. ~EventOf(mEvents, k).isDeleted
  BY <1>1, FlagsOf DEF PairInv, ListInv
<1>6. CASE EventOf(mEvents, k).isCreated
  <2> DEFINE rest  == Without(mEvents, k)
             event == Appeared(EventOf(rest, l), mEvents[k].renameId)
  <2>1. mEvents' = With(rest, l, event)
    BY <1>1, <1>6 DEF Renamed, RenamedCreated
  <2>2. k \in DOMAIN mEvents /\ EventOf(mEvents, k) = mEvents[k]
    BY <1>6 DEF EventOf
  <2>3. EventOf(rest, l) = EventOf(mEvents, l)
    BY <1>1, <1>2 DEF EventOf, Without
  <2>4. event.renameId = NoId \/ (event.renameId = mEvents[k].renameId /\ event.isCreated)
    BY <1>4, <2>3 DEF Appeared, Event
  <2>5. mEvents[k].isCreated /\ ~mEvents[k].isDeleted
    BY <1>5, <1>6, <2>2
  <2>6. event.isDeleted => FALSE
    BY <1>4, <2>3 DEF Appeared, Event
  <2> HIDE DEF event
  <2>7. /\ DOMAIN mEvents' = (DOMAIN mEvents \ {k}) \cup {l}
        /\ mEvents'[l] = event
        /\ \A m \in DOMAIN mEvents \ {k, l} : mEvents'[m] = mEvents[m]
    BY <1>1, <2>1 DEF With, Without
  <2> SUFFICES ASSUME NEW m \in DOMAIN mEvents', NEW n \in DOMAIN mEvents',
                      mEvents'[m].renameId # NoId,
                      mEvents'[m].renameId = mEvents'[n].renameId
               PROVE  /\ mEvents'[m].isCreated = mEvents'[n].isCreated => m = n
                      /\ mEvents'[m].isDeleted /\ mEvents'[n].isCreated
                           => m \in cameFrom'[n]
    BY DEF IdsFollow
  <2>8. CASE m # l /\ n # l
    BY <2>7, <2>8, <1>2, <1>3 DEF PairInv, IdsFollow
  <2>9. CASE m = l /\ n = l
    BY <2>6, <2>7, <2>9
  <2>10. CASE m = l /\ n # l
    <3>1. /\ n \in DOMAIN mEvents \ {k, l} /\ mEvents'[n] = mEvents[n]
          /\ event.isCreated
          /\ mEvents[n].renameId = mEvents[k].renameId /\ mEvents[n].renameId # NoId
      BY <2>4, <2>7, <2>10
    <3>2. mEvents[n].isCreated # mEvents[k].isCreated
      BY <2>2, <3>1 DEF PairInv, IdsFollow
    <3>3. mEvents[n].isCreated \in BOOLEAN
      BY <1>2, <3>1 DEF Event
    <3> QED
      BY <2>5, <2>6, <2>7, <2>10, <3>1, <3>2, <3>3, <1>2, <2>2 DEF Event
  <2>11. CASE m # l /\ n = l
    <3>1. /\ m \in DOMAIN mEvents \ {k, l} /\ mEvents'[m] = mEvents[m]
          /\ event.isCreated
          /\ mEvents[m].renameId = mEvents[k].renameId /\ mEvents[m].renameId # NoId
      BY <2>4, <2>7, <2>11
    <3>2. /\ mEvents[m].isCreated # mEvents[k].isCreated
          /\ mEvents[m].isDeleted => m \in cameFrom[k]
      BY <2>2, <2>5, <3>1 DEF PairInv, IdsFollow
    <3> QED
      BY <2>5, <2>7, <2>11, <3>1, <3>2, <1>2, <1>3, <2>2 DEF Event
  <2> QED
    BY <2>8, <2>9, <2>10, <2>11
<1>7. CASE ~EventOf(mEvents, k).isCreated
  <2> DEFINE idOfOld == IF EventOf(mEvents, l).isDeleted THEN NoId ELSE id
             gone    == [EventOf(mEvents, k) EXCEPT !.isDeleted = TRUE,
                                                    !.renameId = idOfOld]
             removed == With(mEvents, k, gone)
             event   == Appeared(EventOf(removed, l), id)
  <2>1. mEvents' = With(removed, l, event)
    BY <1>1, <1>7 DEF Renamed, RenamedOld
  <2>2. EventOf(removed, l) = EventOf(mEvents, l)
    BY <1>1 DEF EventOf, With
  <2>3. gone.isDeleted /\ ~gone.isCreated /\ gone.renameId = idOfOld
    BY <1>4, <1>7 DEF Event
  <2>4. event.renameId = idOfOld /\ ~event.isDeleted
        /\ (idOfOld = id => event.isCreated)
    BY <1>1, <1>4, <2>2 DEF Appeared, Event
  <2> HIDE DEF gone, event
  <2>5. /\ DOMAIN mEvents' = DOMAIN mEvents \cup {k, l}
        /\ mEvents'[k] = gone /\ mEvents'[l] = event
        /\ \A m \in DOMAIN mEvents \ {k, l} : mEvents'[m] = mEvents[m]
    BY <1>1, <2>1 DEF With
  <2>6. idOfOld = NoId \/ idOfOld = id
    OBVIOUS
  <2> HIDE DEF idOfOld
  <2> SUFFICES ASSUME NEW m \in DOMAIN mEvents', NEW n \in DOMAIN mEvents',
                      mEvents'[m].renameId # NoId,
                      mEvents'[m].renameId = mEvents'[n].renameId
               PROVE  /\ mEvents'[m].isCreated = mEvents'[n].isCreated => m = n
                      /\ mEvents'[m].isDeleted /\ mEvents'[n].isCreated
                           => m \in cameFrom'[n]
    BY DEF IdsFollow
  <2>7. CASE m \notin {k, l} /\ n \notin {k, l}
    BY <2>5, <2>7, <1>2, <1>3 DEF PairInv, IdsFollow
  <2>8. CASE m \in {k, l} /\ n \in {k, l}
    <3>1. idOfOld = id
      BY <2>3, <2>4, <2>5, <2>6, <2>8
    <3> QED
      BY <2>3, <2>4, <2>5, <2>8, <3>1, <1>3
  <2>9. CASE (m \in {k, l} /\ n \notin {k, l}) \/ (m \notin {k, l} /\ n \in {k, l})
    BY <1>1, <2>3, <2>4, <2>5, <2>6, <2>9
  <2> QED
    BY <2>7, <2>8, <2>9
<1> QED
  BY <1>6, <1>7

LEMMA PairInvStep == PairInv /\ [ListNext]_listVars => PairInv'
<1> SUFFICES ASSUME PairInv, [ListNext]_listVars PROVE PairInv'
  OBVIOUS
<1>1. ListInv'
  BY ListInvStep DEF PairInv
<1>2. ASSUME NEW k \in Entry, Create(k) \/ Update(k) \/ Remove(k) PROVE IdsFollow'
  BY <1>2, CreateIds, UpdateIds, RemoveIds
<1>3. ASSUME NEW k \in Entry, NEW l \in Entry, NEW id \in RenameId, Rename(k, l, id)
      PROVE  IdsFollow'
  BY <1>3, RenameIds
<1>4. ASSUME NEW err \in Error, Fail(err) PROVE IdsFollow'
  BY <1>4 DEF PairInv, IdsFollow, Fail
<1>5. ASSUME Drain PROVE IdsFollow'
  <2>1. DOMAIN mEvents' = {}
    BY <1>5 DEF Drain
  <2> QED
    BY <2>1 DEF IdsFollow
<1>6. CASE UNCHANGED listVars
  BY <1>1, <1>6 DEF PairInv, IdsFollow, listVars
<1> QED
  BY <1>1, <1>2, <1>3, <1>4, <1>5, <1>6 DEF PairInv, ListNext

LEMMA InitPairInv == ListInit => PairInv
<1> SUFFICES ASSUME ListInit PROVE PairInv
  OBVIOUS
<1>1. DOMAIN mEvents = {}
  BY DEF ListInit
<1> QED
  BY <1>1, InitListInv DEF PairInv, IdsFollow

----------------------------------------------------------------------------
(* The events of a batch that have an id, by the entries they are about. *)
LEMMA IdsInBatch ==
  ASSUME NEW id, id # NoId
  PROVE  {<<e.entry, e.type>> : e \in {f \in Batch(mEvents) : f.renameId = id}}
           = {<<k, TypeOf(mEvents[k])>> :
                k \in {m \in Reported(mEvents) : mEvents[m].renameId = id
                                                 /\ KeepsId(mEvents, id)}}
<1> DEFINE EventFor(l) == [entry |-> l, type |-> TypeOf(mEvents[l]),
                           renameId |-> IF KeepsId(mEvents, mEvents[l].renameId)
                                          THEN mEvents[l].renameId ELSE NoId]
<1>1. \A l : /\ EventFor(l).entry = l /\ EventFor(l).type = TypeOf(mEvents[l])
             /\ EventFor(l).renameId = id
                  <=> mEvents[l].renameId = id /\ KeepsId(mEvents, id)
  OBVIOUS
<1>2. Batch(mEvents) = {EventFor(l) : l \in Reported(mEvents)}
  BY DEF Batch
<1> HIDE DEF EventFor
<1> QED
  BY <1>1, <1>2

(* Of one type, at most one reported event has an id, so the one that is    *)
(* counted is it.                                                           *)
LEMMA TheOneWithId ==
  ASSUME NEW id, NEW type, Cardinality(HaveId(mEvents, id, type)) = 1
  PROVE  \E k : k \in HaveId(mEvents, id, type)
  BY FS_EmptySet

LEMMA InvGivesPairs == PairInv => PairsAreMoves
<1> SUFFICES ASSUME PairInv, NEW event \in Batch(mEvents), event.renameId # NoId
             PROVE  \E l \in tree : \E k \in cameFrom[l] :
                      {<<e.entry, e.type>> : e \in {f \in Batch(mEvents) :
                                                      f.renameId = event.renameId}}
                        = {<<k, "delete">>, <<l, "create">>}
  BY DEF PairsAreMoves
<1> DEFINE id == event.renameId
<1>1. KeepsId(mEvents, id)
  BY DEF Batch
<1> HIDE DEF id
<1>2. PICK l : l \in HaveId(mEvents, id, "create")
  BY <1>1, TheOneWithId DEF KeepsId
<1>3. PICK k : k \in HaveId(mEvents, id, "delete")
  BY <1>1, TheOneWithId DEF KeepsId
<1>4. id # NoId
  BY DEF id
<1>5. /\ k \in DOMAIN mEvents /\ l \in DOMAIN mEvents
      /\ k \in Reported(mEvents) /\ l \in Reported(mEvents)
      /\ mEvents[k].renameId = id /\ mEvents[l].renameId = id
      /\ TypeOf(mEvents[k]) = "delete" /\ TypeOf(mEvents[l]) = "create"
  BY <1>2, <1>3 DEF HaveId, Reported
<1>6. /\ mEvents[l].isCreated /\ ~mEvents[l].isDeleted
      /\ ~mEvents[k].isCreated /\ mEvents[k].isDeleted
  BY <1>5 DEF TypeOf, Reported
<1>7. l \in tree /\ k \in cameFrom[l]
  <2>1. k \in cameFrom[l]
    BY <1>4, <1>5, <1>6 DEF PairInv, IdsFollow
  <2>2. l \in Entry /\ (mEvents[l].isDeleted <=> l \notin tree)
    BY <1>5 DEF PairInv, ListInv, EventsTypeOK, EventsFollow
  <2> QED
    BY <1>6, <2>1, <2>2
<1>8. \A m \in Reported(mEvents) : mEvents[m].renameId = id => m = k \/ m = l
  <2> SUFFICES ASSUME NEW m \in Reported(mEvents), mEvents[m].renameId = id
               PROVE  m = k \/ m = l
    OBVIOUS
  <2>1. m \in DOMAIN mEvents /\ mEvents[m].isCreated \in BOOLEAN
        /\ mEvents[k].isCreated \in BOOLEAN /\ mEvents[l].isCreated \in BOOLEAN
    BY <1>5 DEF Reported, PairInv, ListInv, EventsTypeOK, Event
  <2>2. mEvents[m].isCreated = mEvents[k].isCreated => m = k
    BY <1>4, <1>5, <2>1 DEF PairInv, IdsFollow
  <2>3. mEvents[m].isCreated = mEvents[l].isCreated => m = l
    BY <1>4, <1>5, <2>1 DEF PairInv, IdsFollow
  <2> QED
    BY <1>6, <2>1, <2>2, <2>3
<1>9. {m \in Reported(mEvents) : mEvents[m].renameId = id /\ KeepsId(mEvents, id)}
        = {k, l}
  BY <1>1, <1>5, <1>8
<1>10. {<<e.entry, e.type>> : e \in {f \in Batch(mEvents) : f.renameId = id}}
         = {<<k, "delete">>, <<l, "create">>}
  BY <1>4, <1>5, <1>9, IdsInBatch
<1> QED
  BY <1>7, <1>10 DEF id

(* Where EventList::drain leaves an id, it correlates exactly the deletion  *)
(* and the creation of one move, or of several in a row.                    *)
THEOREM IdsArePairs == ListSpec => []PairsAreMoves
  BY InitPairInv, PairInvStep, InvGivesPairs, PTL DEF ListSpec
----------------------------------------------------------------------------
(* Debounce                                                                 *)
(* What else holds: a notifier is somewhere exactly if it has a watcher,    *)
(* only those are owed something that have callbacks, and the thread is to  *)
(* run as long as a watcher exists.                                         *)
NotifierOK == \A n \in Notifier : /\ step[n] # "out" <=> notifying[n] # NoWatcher
                                  /\ notifying[n] # NoWatcher => notifying[n] \in alive

ListenedIsCalled == owed \subseteq listened /\ listened \subseteq mCallbacks

RunsForSomebody == /\ mRunning <=> alive # {}
                   /\ thread \in {"none", "done"} => ~mRunning

(* mFlag does not count while the thread calls: it is about to be reset.    *)
CallsWhatIsOwed ==
  thread = "calling" =>
    \A w \in owed : w \in todo \/ \E n \in Notifier : notifying[n] = w

DebounceInv == /\ DebounceTypeOK
               /\ NotifierOK
               /\ ListenedIsCalled
               /\ RunsForSomebody
               /\ CalledIsAlive
               /\ OwedIsSignalled
               /\ CallsWhatIsOwed

LEMMA NoWaiting == 0 \in 0 .. MinWait
  BY WaitAssumption

LEMMA InitDebounce == Init => DebounceInv
<1> SUFFICES ASSUME Init PROVE DebounceInv
  OBVIOUS
<1>1. sinceLast \in 0 .. MaxWait + 1 /\ waited \in 0 .. MinWait
  BY WaitAssumption DEF Init
<1>2. DebounceTypeOK
  BY <1>1 DEF Init, DebounceTypeOK, Thread
<1>3. NotifierOK /\ ListenedIsCalled /\ RunsForSomebody
  BY DEF Init, NotifierOK, ListenedIsCalled, RunsForSomebody
<1>4. CalledIsAlive /\ OwedIsSignalled /\ CallsWhatIsOwed
  BY DEF Init, CalledIsAlive, OwedIsSignalled, CallsWhatIsOwed
<1> QED
  BY <1>2, <1>3, <1>4 DEF DebounceInv

----------------------------------------------------------------------------
(* Steps of the threads that create, use and destroy watchers.              *)
LEMMA WatcherStepInv ==
  ASSUME DebounceInv, NEW w \in Watcher, WatcherStep(w)
  PROVE  DebounceInv'
<1> USE NoWatcherAssumption, WaitAssumption
<1> USE DEF DebounceInv, DebounceTypeOK, Thread, NotifierOK, ListenedIsCalled,
            RunsForSomebody, CalledIsAlive, OwedIsSignalled, CallsWhatIsOwed,
            threadVars, watcherVars, notifierVars, Locked
<1>1. CASE Construct(w)
  <2>1. /\ alive' = alive \cup {w}
        /\ UNCHANGED <<mCallbacks, listened, events, notifierVars, owed>>
    BY <1>1 DEF Construct
  <2>2. CASE mRunning /\ UNCHANGED threadVars
    BY <2>1, <2>2
  <2>3. CASE /\ thread = "none"
             /\ thread' = "loop" /\ mRunning' = TRUE /\ mFlag' = FALSE
             /\ sinceLast' = MaxWait + 1
             /\ UNCHANGED <<stopping, todo, waited>>
    <3>1. alive = {} /\ owed = {}
      BY <2>3
    <3>2. sinceLast' \in 0 .. MaxWait + 1
      BY <2>3
    <3> QED
      BY <2>1, <2>3, <3>1, <3>2
  <2> QED
    BY <1>1, <2>2, <2>3 DEF Construct
<1>2. CASE Add(w)
  BY <1>2 DEF Add
<1>3. CASE RemoveWatcher(w)
  BY <1>3 DEF RemoveWatcher
<1>4. CASE Destroy(w)
  <2>1. w \notin mCallbacks /\ w \notin listened /\ w \notin owed /\ w \in alive
    BY <1>4 DEF Destroy
  <2>2. CASE alive = {w}
    <3>1. alive' = {} /\ owed = {} /\ mRunning' = FALSE /\ mFlag' = mFlag
      BY <1>4, <2>1, <2>2 DEF Destroy
    <3> QED
      BY <1>4, <2>1, <3>1 DEF Destroy
  <2>3. CASE alive # {w}
    <3>1. alive' # {} /\ mRunning' = mRunning /\ mFlag' = mFlag
      BY <1>4, <2>1, <2>3 DEF Destroy
    <3> QED
      BY <1>4, <2>1, <3>1 DEF Destroy
  <2> QED
    BY <2>2, <2>3
<1>5. CASE Listen(w)
  BY <1>5 DEF Listen
<1>6. CASE Leave(w)
  BY <1>6 DEF Leave
<1> QED
  BY <1>1, <1>2, <1>3, <1>4, <1>5, <1>6 DEF WatcherStep

(* Steps of the backends' threads.                                          *)
LEMMA NotifierStepInv ==
  ASSUME DebounceInv, NEW n \in Notifier,
         NotifierStep(n) \/ \E w \in Watcher : Record(n, w)
  PROVE  DebounceInv'
<1> USE NoWatcherAssumption, WaitAssumption
<1> USE DEF DebounceInv, DebounceTypeOK, Thread, NotifierOK, ListenedIsCalled,
            RunsForSomebody, CalledIsAlive, OwedIsSignalled, CallsWhatIsOwed,
            threadVars, watcherVars, notifierVars, Locked
<1>1. ASSUME NEW w \in Watcher, Record(n, w) PROVE DebounceInv'
  BY <1>1 DEF Record
<1>2. CASE Notify(n)
  BY <1>2 DEF Notify, Leaves
<1>3. CASE Trigger(n)
  BY <1>3 DEF Trigger, Leaves
<1> QED
  BY <1>1, <1>2, <1>3 DEF NotifierStep

(* Steps of the debounce thread, of what ends it, and of the clock.         *)
LEMMA ThreadStepInv ==
  ASSUME DebounceInv, ThreadStep \/ StopThread \/ Join \/ Tick
  PROVE  DebounceInv'
<1> USE NoWatcherAssumption, WaitAssumption
<1> USE DEF DebounceInv, DebounceTypeOK, Thread, NotifierOK, ListenedIsCalled,
            RunsForSomebody, CalledIsAlive, OwedIsSignalled, CallsWhatIsOwed,
            UnchangedByThread,
            threadVars, watcherVars, notifierVars
<1>1. CASE Loop
  BY <1>1 DEF Loop
<1>2. CASE WakeUp
  BY <1>2 DEF WakeUp
<1>3. CASE Decide
  BY <1>3 DEF Decide, WaitedTooLong
<1>4. CASE StartWait
  <2>0. waited' = 0 /\ mFlag' = FALSE
    BY <1>4 DEF StartWait
  <2>1. waited' \in 0 .. MinWait /\ mFlag' \in BOOLEAN
    BY <2>0, NoWaiting
  <2>2. thread' = "timing" /\ UNCHANGED <<UnchangedByThread, todo, sinceLast>>
    BY <1>4 DEF StartWait
  <2>3. DebounceTypeOK'
    BY <1>4, <2>1, <2>2 DEF StartWait
  <2>4. (NotifierOK /\ ListenedIsCalled /\ RunsForSomebody /\ CalledIsAlive)'
    BY <2>2
  <2>5. OwedIsSignalled' /\ CallsWhatIsOwed'
    BY <2>2
  <2> QED
    BY <2>3, <2>4, <2>5
<1>5. CASE EndWait
  BY <1>5 DEF EndWait
<1>6. CASE StartNotify
  BY <1>6 DEF StartNotify
<1>7. ASSUME NEW w \in Watcher, CallNext(w) PROVE DebounceInv'
  BY <1>7 DEF CallNext
<1>8. CASE EndNotify
  BY <1>8 DEF EndNotify
<1>9. CASE Join
  BY <1>9 DEF Join
<1>10. CASE Tick
  BY <1>10 DEF Tick
<1>11. CASE StopThread
  BY <1>11 DEF StopThread
<1> QED
  BY <1>1, <1>2, <1>3, <1>4, <1>5, <1>6, <1>7, <1>8, <1>9, <1>10, <1>11 DEF ThreadStep

LEMMA DebounceStep == DebounceInv /\ [Next]_vars => DebounceInv'
<1> SUFFICES ASSUME DebounceInv, [Next]_vars PROVE DebounceInv'
  OBVIOUS
<1>1. CASE UNCHANGED vars
  BY <1>1 DEF vars, threadVars, watcherVars, notifierVars, DebounceInv, DebounceTypeOK,
              Thread, NotifierOK, ListenedIsCalled, RunsForSomebody, CalledIsAlive,
              OwedIsSignalled, CallsWhatIsOwed
<1> QED
  BY <1>1, WatcherStepInv, NotifierStepInv, ThreadStepInv DEF Next

----------------------------------------------------------------------------
(* The variables of Debounce are well-typed; in particular the set of       *)
(* watchers to call is empty whenever mMutex is not held.                   *)
THEOREM DebounceTypeCorrectness == Spec => []DebounceTypeOK
<1>1. DebounceInv => DebounceTypeOK
  BY DEF DebounceInv
<1> QED
  BY <1>1, InitDebounce, DebounceStep, PTL DEF Spec

(* Debounce::notify calls only watchers that exist and are in mCallbacks.   *)
THEOREM CallsAreSafe == Spec => []CalledIsAlive
<1>1. DebounceInv => CalledIsAlive
  BY DEF DebounceInv
<1> QED
  BY <1>1, InitDebounce, DebounceStep, PTL DEF Spec

(* Signal and Debounce lose no wakeup: an event a callback is owed always   *)
(* has somebody on the way to deliver it.                                   *)
THEOREM NoEventIsForgotten == Spec => []OwedIsSignalled
<1>1. DebounceInv => OwedIsSignalled
  BY DEF DebounceInv
<1> QED
  BY <1>1, InitDebounce, DebounceStep, PTL DEF Spec
================================================================================
