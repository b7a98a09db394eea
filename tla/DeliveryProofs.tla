--------------------------- MODULE DeliveryProofs ---------------------------
(***************************************************************************)
(* Proofs about Delivery.                                                  *)
(***************************************************************************)
EXTENDS Delivery, TLAPS

\* A queue or a room grows by the appended element.
LEMMA AppendRange ==
    ASSUME NEW S, NEW q \in Seq(S), NEW x \in S
    PROVE  /\ Append(q, x) \in Seq(S)
           /\ Range(Append(q, x)) = Range(q) \cup {x}
           /\ Len(Append(q, x)) = Len(q) + 1
           /\ \A i \in 1 .. Len(q) : Append(q, x)[i] = q[i]
           /\ Append(q, x)[Len(q) + 1] = x
<1>1. DOMAIN q = 1 .. Len(q) /\ DOMAIN Append(q, x) = 1 .. Len(q) + 1
  OBVIOUS
<1> QED
  BY <1>1 DEF Range

\* The head of a queue and the rest of it are its elements.
LEMMA TailRange ==
    ASSUME NEW S, NEW q \in Seq(S), q # <<>>
    PROVE  /\ Tail(q) \in Seq(S)
           /\ Head(q) \in S
           /\ Range(q) = Range(Tail(q)) \cup {Head(q)}
<1>1. /\ Len(q) \in Nat \ {0}
      /\ DOMAIN q = 1 .. Len(q) /\ DOMAIN Tail(q) = 1 .. Len(q) - 1
      /\ Tail(q) \in Seq(S) /\ Head(q) = q[1] /\ q[1] \in S
      /\ \A i \in 1 .. Len(q) - 1 : Tail(q)[i] = q[i + 1]
  OBVIOUS
<1>2. ASSUME NEW x \in Range(q), x # Head(q)
      PROVE  x \in Range(Tail(q))
  <2>1. PICK i \in 1 .. Len(q) : x = q[i]
    BY <1>1 DEF Range
  <2>2. i - 1 \in 1 .. Len(q) - 1 /\ Tail(q)[i - 1] = x
    BY <1>1, <1>2, <2>1
  <2> QED
    BY <1>1, <2>2 DEF Range
<1>3. ASSUME NEW x \in Range(Tail(q))
      PROVE  x \in Range(q)
  BY <1>1 DEF Range
<1>4. Head(q) \in Range(q)
  BY <1>1 DEF Range
<1> QED
  BY <1>1, <1>2, <1>3, <1>4

\* The elements of a sequence over S are in S.
LEMMA SeqRange ==
    ASSUME NEW S, NEW q \in Seq(S)
    PROVE  Range(q) \subseteq S
BY DEF Range

\* An empty queue or room has no elements.
LEMMA EmptyRange == Range(<<>>) = {}
BY DEF Range
-----------------------------------------------------------------------------
\* Type correctness.

\* The initial state is well typed.
LEMMA InitType == Init => TypeOK
BY ConstantsAssumption DEF Init, MemoryInit, TypeOK, Idle, Steps

\* QueueRemoteEvent keeps the queues well typed.
LEMMA QueueType ==
    ASSUME TypeOK, NEW l \in Logins, NEW m \in Messages, QueueRemoteEvent(l, m, m)
    PROVE  portal' \in [Logins -> Seq([id : Messages, msg : Messages])]
<1>1. EventOf(m, m) \in [id : Messages, msg : Messages]
  BY DEF EventOf
<1>2. portal[l] \in Seq([id : Messages, msg : Messages])
  BY DEF TypeOK
<1>3. Append(portal[l], EventOf(m, m)) \in Seq([id : Messages, msg : Messages])
  BY <1>1, <1>2, AppendRange
<1> QED
  BY <1>3 DEF QueueRemoteEvent, TypeOK

\* The session steps keep the types.
LEMMA SessionType ==
    ASSUME TypeOK, NEW l \in Logins, Session(l)
    PROVE  TypeOK'
<1> USE DEF TypeOK, Session, pollVars, portalVars
<1>1. CASE ForgetSession(l)
  BY <1>1 DEF ForgetSession
<1>2. ASSUME NEW s \in Sessions, OpenSession(l, s)
      PROVE  TypeOK'
  BY <1>2 DEF OpenSession
<1>3. ASSUME NEW s \in Sessions, RememberSession(l, s)
      PROVE  TypeOK'
  BY <1>3 DEF RememberSession
<1>4. CASE SaveSession(l)
  BY <1>4 DEF SaveSession
<1> QED
  BY <1>1, <1>2, <1>3, <1>4 DEF Session

\* The steps of WordPress keep the types.
LEMMA WordPressType ==
    ASSUME TypeOK, NEW m \in Messages, WordPress(m)
    PROVE  TypeOK'
BY DEF WordPress, Enqueue, WPAck, LoseAck, TypeOK, wpVars, loginVars, pollVars, portalVars

\* The steps of the poller keep the types.
LEMMA PollerType ==
    ASSUME TypeOK, NEW p \in Pollers, Poller(p)
    PROVE  TypeOK'
<1>1. CASE PollFetch(p)
  BY <1>1 DEF PollFetch, Pending, TypeOK, wpVars, loginVars, portalVars
<1>2. CASE PollAck(p)
  BY <1>2 DEF PollAck, AckBy, TypeOK, wpVars, loginVars, portalVars
<1>3. ASSUME NEW m \in Messages, PollQueue(p, m)
      PROVE  TypeOK'
  <2>1. portal' \in [Logins -> Seq([id : Messages, msg : Messages])]
    BY <1>3, QueueType, ConstantsAssumption DEF PollQueue, PollEventID
  <2> QED
    BY <1>3, <2>1 DEF PollQueue, QueueRemoteEvent, TypeOK, wpVars, loginVars
<1> QED
  BY <1>1, <1>2, <1>3 DEF Poller

\* The portal loop keeps the types.
LEMMA HandleRemoteEventType ==
    ASSUME TypeOK, NEW l \in Logins, HandleRemoteEvent(l)
    PROVE  TypeOK'
<1> DEFINE e == Head(portal[l])
<1>1. /\ Tail(portal[l]) \in Seq([id : Messages, msg : Messages])
      /\ e \in [id : Messages, msg : Messages]
  BY TailRange DEF HandleRemoteEvent, TypeOK
<1>2. Append(room[l], e.msg) \in Seq(Messages)
  BY <1>1, AppendRange DEF TypeOK
<1>3. portal' \in [Logins -> Seq([id : Messages, msg : Messages])]
  BY <1>1 DEF HandleRemoteEvent, TypeOK
<1>4. db' \in [Logins -> SUBSET Messages] /\ room' \in [Logins -> Seq(Messages)]
  <2>1. CASE e.id \in db[l]
    BY <2>1 DEF HandleRemoteEvent, TypeOK
  <2>2. CASE e.id \notin db[l]
    <3>1. /\ db' = [db EXCEPT ![l] = @ \cup {e.id}]
          /\ room' = [room EXCEPT ![l] = Append(@, e.msg)]
      BY <2>2 DEF HandleRemoteEvent
    <3>2. e.id \in Messages
      BY <1>1
    <3> HIDE DEF e
    <3> QED
      BY <1>2, <3>1, <3>2 DEF TypeOK
  <2> QED
    BY <2>1, <2>2
<1> QED
  BY <1>3, <1>4 DEF HandleRemoteEvent, TypeOK, wpVars, loginVars, pollVars

\* The steps of a webhook request keep the types.
LEMMA WebhookType ==
    ASSUME TypeOK, HooksOwned, NEW h \in Hooks, Webhook(h)
    PROVE  TypeOK'
<1> USE DEF HookStep, Steps, TypeOK, wpVars, loginVars, pollVars, portalVars
<1>1. ASSUME NEW m \in Messages, WebhookPush(h, m)
      PROVE  TypeOK'
  BY <1>1 DEF WebhookPush
<1>2. ASSUME NEW l \in Logins, WebhookRoute(h, l)
      PROVE  TypeOK'
  BY <1>2 DEF WebhookRoute
<1>3. CASE WebhookRefuse(h)
  BY <1>3 DEF WebhookRefuse, Idle
<1>4. CASE WebhookQueue(h)
  <2>1. hook[h].msg \in Messages /\ hook[h].login \in Logins
    BY <1>4, ConstantsAssumption DEF WebhookQueue, HooksOwned
  <2>2. portal' \in [Logins -> Seq([id : Messages, msg : Messages])]
    BY <1>4, <2>1, QueueType DEF WebhookQueue, HookEventID
  <2> QED
    BY <1>4, <2>1, <2>2 DEF WebhookQueue, QueueRemoteEvent
<1>5. CASE WebhookAck(h)
  <2>1. AckBy(hook[h].login, {hook[h].msg}) \subseteq Messages
    BY <1>5 DEF WebhookAck, HooksOwned, AckBy
  <2> QED
    BY <1>5, <2>1 DEF WebhookAck, Idle
<1> QED
  BY <1>1, <1>2, <1>3, <1>4, <1>5 DEF Webhook

\* A crash keeps the types.
LEMMA CrashType ==
    ASSUME TypeOK, Crash
    PROVE  TypeOK'
BY ConstantsAssumption DEF Crash, ReloadSessions, TypeOK, Idle, Steps

-----------------------------------------------------------------------------
\* The inductive invariant, one lemma per actor.

\* The inductive invariant holds initially.
LEMMA InitInv == Init => IInv
<1> SUFFICES ASSUME Init PROVE IInv
  OBVIOUS
<1>1. TypeOK
  BY InitType
<1>2. SessionsOwned /\ PollerOwned
  BY DEF Init, MemoryInit, SessionsOwned, PollerOwned
<1>3. HooksOwned
  BY DEF Init, HooksOwned, Idle
<1>4. PortalsOwned /\ RoomsRecorded /\ ShownAtMostOnce
  BY EmptyRange DEF Init, PortalsOwned, RoomsRecorded, ShownAtMostOnce
<1>5. AckedNotLost
  BY DEF Init, AckedNotLost
<1> QED
  BY <1>1, <1>2, <1>3, <1>4, <1>5 DEF IInv

\* Opening, remembering, forgetting and saving sessions keep the invariant: the poller,
\* the hooks and the portals do not mention the remembered session.
LEMMA SessionInv ==
    ASSUME IInv, NEW l \in Logins, Session(l)
    PROVE  IInv'
<1> USE DEF wpVars, loginVars, pollVars, portalVars
<1>1. TypeOK'
  BY SessionType DEF IInv
<1>2. UNCHANGED <<wp, acks, todo, ackIDs, hook, portal, db, room>>
  BY DEF Session
<1>3. SessionsOwned'
  <2>1. CASE ForgetSession(l)
    BY <2>1 DEF ForgetSession, IInv, TypeOK, SessionsOwned
  <2>2. ASSUME NEW s \in Sessions, OpenSession(l, s)
        PROVE  SessionsOwned'
    BY <2>2 DEF OpenSession, IInv, TypeOK, SessionsOwned
  <2>3. ASSUME NEW s \in Sessions, RememberSession(l, s)
        PROVE  SessionsOwned'
    BY <2>3 DEF RememberSession, IInv, TypeOK, SessionsOwned
  <2>4. CASE SaveSession(l)
    BY <2>4 DEF SaveSession, IInv, TypeOK, SessionsOwned
  <2> QED
    BY <2>1, <2>2, <2>3, <2>4 DEF Session
<1>4. PollerOwned' /\ HooksOwned' /\ AckedNotLost' = AckedNotLost
  BY <1>2 DEF IInv, PollerOwned, HooksOwned, AckedNotLost, Queued, Shown
<1>5. PortalsOwned' /\ RoomsRecorded' /\ ShownAtMostOnce'
  BY <1>2 DEF IInv, PortalsOwned, RoomsRecorded, ShownAtMostOnce
<1> QED
  BY <1>1, <1>3, <1>4, <1>5 DEF IInv

\* Queueing, acknowledging and losing acknowledgements keep the invariant.
LEMMA WordPressInv ==
    ASSUME IInv, NEW m \in Messages, WordPress(m)
    PROVE  IInv'
<1> USE DEF wpVars, loginVars, pollVars, portalVars
<1>1. TypeOK'
  BY WordPressType DEF IInv
<1>2. /\ UNCHANGED <<opened, session, saved, todo, ackIDs, hook, portal, db, room>>
      /\ \A k \in Messages : wp[k] # "unborn" => wp'[k] # "unborn"
      /\ \A k \in Messages : k \in acks' \/ wp'[k] = "acked" => k \in acks \/ wp[k] = "acked"
  BY DEF IInv, TypeOK, WordPress, Enqueue, WPAck, LoseAck
<1>3. SessionsOwned' /\ RoomsRecorded' /\ ShownAtMostOnce'
  BY <1>2 DEF IInv, SessionsOwned, RoomsRecorded, ShownAtMostOnce
<1>4. PollerOwned'
  <2>1. ASSUME NEW p \in Pollers, NEW k \in todo[p] \cup ackIDs[p]
        PROVE  OwnerOf[k] = LoginOf[p] /\ wp'[k] # "unborn"
    <3>1. k \in Messages
      BY DEF IInv, TypeOK
    <3> QED
      BY <1>2, <3>1 DEF IInv, PollerOwned
  <2>2. \A p \in Pollers : \A k \in ackIDs[p] : Queued(k)' \/ Shown(k)'
    BY <1>2 DEF IInv, PollerOwned, Queued, Shown
  <2> QED
    BY <1>2, <2>1, <2>2 DEF PollerOwned
<1>5. HooksOwned'
  BY <1>2 DEF IInv, TypeOK, HooksOwned, Queued, Shown
<1>6. PortalsOwned'
  <2>1. ASSUME NEW l \in Logins, NEW e \in Range(portal[l])
        PROVE  e.id = e.msg /\ OwnerOf[e.msg] = l /\ wp'[e.msg] # "unborn"
    <3>1. portal[l] \in Seq([id : Messages, msg : Messages])
      BY DEF IInv, TypeOK
    <3>2. e.msg \in Messages
      BY <3>1, SeqRange
    <3> QED
      BY <1>2, <3>2 DEF IInv, PortalsOwned
  <2> QED
    BY <1>2, <2>1 DEF PortalsOwned
<1>7. MaxCrashes = 0 => AckedNotLost'
  BY <1>2 DEF IInv, AckedNotLost, Queued, Shown
<1> QED
  BY <1>1, <1>3, <1>4, <1>5, <1>6, <1>7 DEF IInv

\* Queueing a message at its owner's portal.
LEMMA QueueInv ==
    ASSUME IInv, NEW m \in Messages, wp[m] # "unborn",
           QueueRemoteEvent(OwnerOf[m], m, m), UNCHANGED wp
    PROVE  /\ PortalsOwned' /\ RoomsRecorded' /\ ShownAtMostOnce'
           /\ \A k \in Messages : Queued(k)' <=> Queued(k) \/ k = m
           /\ \A k \in Messages : Shown(k)' <=> Shown(k)
<1> DEFINE l == OwnerOf[m]
           q == portal[l]
<1>1. l \in Logins
  BY ConstantsAssumption
<1>2. EventOf(m, m) \in [id : Messages, msg : Messages]
  BY DEF EventOf
<1>3. /\ portal' = [portal EXCEPT ![l] = Append(q, EventOf(m, m))]
      /\ UNCHANGED <<db, room>>
  BY DEF QueueRemoteEvent
<1>4. Range(portal'[l]) = Range(q) \cup {EventOf(m, m)}
  <2>1. q \in Seq([id : Messages, msg : Messages])
    BY <1>1 DEF IInv, TypeOK
  <2>2. portal'[l] = Append(q, EventOf(m, m))
    BY <1>1, <1>3 DEF IInv, TypeOK
  <2>3. Range(Append(q, EventOf(m, m))) = Range(q) \cup {EventOf(m, m)}
    <3> DEFINE E == [id : Messages, msg : Messages]
    <3>1. q \in Seq(E) /\ EventOf(m, m) \in E
      BY <1>2, <2>1
    <3> HIDE DEF E, q
    <3> QED
      BY <3>1, AppendRange
  <2> QED
    BY <2>2, <2>3
<1>5. \A k \in Logins \ {l} : portal'[k] = portal[k]
  BY <1>3 DEF IInv, TypeOK
<1>6. PortalsOwned'
  BY <1>1, <1>4, <1>5 DEF IInv, PortalsOwned, EventOf
<1>7. RoomsRecorded' /\ ShownAtMostOnce' /\ \A k \in Messages : Shown(k)' <=> Shown(k)
  BY <1>3 DEF IInv, RoomsRecorded, ShownAtMostOnce, Shown
<1>8. ASSUME NEW k \in Messages
      PROVE  Queued(k)' <=> Queued(k) \/ k = m
  <2>1. CASE OwnerOf[k] = l
    <3>1. EventOf(m, m).msg = m
      BY DEF EventOf
    <3>2. Queued(k)' <=> \E e \in Range(portal'[l]) : e.msg = k
      BY <2>1 DEF Queued
    <3>3. Queued(k) <=> \E e \in Range(q) : e.msg = k
      BY <2>1 DEF Queued
    <3> HIDE DEF l, q
    <3> QED
      BY <1>4, <3>1, <3>2, <3>3
  <2>2. CASE OwnerOf[k] # l
    <3>1. OwnerOf[k] \in Logins \ {l}
      BY <2>2, ConstantsAssumption
    <3> QED
      BY <1>5, <2>2, <3>1 DEF Queued
  <2> QED
    BY <2>1, <2>2
<1> QED
  BY <1>6, <1>7, <1>8

\* Fetching, queueing and acknowledging a batch keep the invariant: Pending
\* holds messages of the login alone (poller.go:41-75, client.go:761-830).
LEMMA PollerInv ==
    ASSUME IInv, NEW p \in Pollers, Poller(p)
    PROVE  IInv'
<1> USE DEF wpVars, loginVars, pollVars, portalVars
<1>1. TypeOK'
  BY PollerType DEF IInv
<1>2. CASE PollFetch(p)
  <2>1. /\ UNCHANGED <<wp, opened, acks, session, saved, ackIDs, hook, portal, db, room>>
        /\ \A k \in Pollers : todo'[k] \subseteq
              todo[k] \cup {m \in Messages : OwnerOf[m] = LoginOf[k] /\ wp[m] = "pending"}
    BY <1>2 DEF PollFetch, Pending, IInv, TypeOK
  <2>2. PollerOwned'
    BY <2>1 DEF IInv, PollerOwned, Queued, Shown
  <2>3. SessionsOwned' /\ HooksOwned' /\ PortalsOwned' /\ RoomsRecorded'
    BY <2>1 DEF IInv, SessionsOwned, HooksOwned, PortalsOwned, RoomsRecorded, Queued, Shown
  <2>4. ShownAtMostOnce' /\ (MaxCrashes = 0 => AckedNotLost')
    BY <2>1 DEF IInv, ShownAtMostOnce, AckedNotLost, Queued, Shown
  <2> QED
    BY <1>1, <2>2, <2>3, <2>4 DEF IInv
<1>3. CASE PollAck(p)
  <2>1. /\ UNCHANGED <<wp, opened, session, saved, todo, hook, portal, db, room>>
        /\ acks' \subseteq acks \cup ackIDs[p]
        /\ \A k \in Pollers : ackIDs'[k] \subseteq ackIDs[k]
    BY <1>3 DEF PollAck, AckBy, IInv, TypeOK
  <2>2. PollerOwned'
    BY <2>1 DEF IInv, PollerOwned, Queued, Shown
  <2>3. SessionsOwned' /\ HooksOwned' /\ PortalsOwned' /\ RoomsRecorded'
    BY <2>1 DEF IInv, SessionsOwned, HooksOwned, PortalsOwned, RoomsRecorded, Queued, Shown
  <2>4. ShownAtMostOnce'
    BY <2>1 DEF IInv, ShownAtMostOnce
  <2>5. MaxCrashes = 0 => AckedNotLost'
    BY <2>1 DEF IInv, PollerOwned, AckedNotLost, Queued, Shown
  <2> QED
    BY <1>1, <2>2, <2>3, <2>4, <2>5 DEF IInv
<1>4. ASSUME NEW m \in Messages, PollQueue(p, m)
      PROVE  IInv'
  <2>1. /\ UNCHANGED <<wp, opened, acks, session, saved, hook>>
        /\ \A k \in Pollers : todo'[k] \subseteq todo[k]
        /\ \A k \in Pollers : ackIDs'[k] \subseteq ackIDs[k] \cup {m}
        /\ \A k \in Pollers \ {p} : ackIDs'[k] = ackIDs[k]
    BY <1>4 DEF PollQueue, IInv, TypeOK
  <2>2. OwnerOf[m] = LoginOf[p] /\ wp[m] # "unborn"
    BY <1>4 DEF PollQueue, IInv, PollerOwned
  <2>3. /\ PortalsOwned' /\ RoomsRecorded' /\ ShownAtMostOnce'
        /\ \A k \in Messages : Queued(k)' <=> Queued(k) \/ k = m
        /\ \A k \in Messages : Shown(k)' <=> Shown(k)
    BY <1>4, <2>1, <2>2, QueueInv DEF PollQueue, PollEventID
  <2>4. PollerOwned'
    <3>1. ASSUME NEW k \in Pollers, NEW n \in todo'[k] \cup ackIDs'[k]
          PROVE  OwnerOf[n] = LoginOf[k] /\ wp[n] # "unborn"
      BY <2>1, <2>2 DEF IInv, PollerOwned
    <3>2. ASSUME NEW k \in Pollers, NEW n \in ackIDs'[k]
          PROVE  Queued(n)' \/ Shown(n)'
      <4>1. n \in Messages /\ n \in ackIDs[k] \cup {m}
        BY <1>1, <2>1 DEF TypeOK
      <4> QED
        BY <2>3, <4>1 DEF IInv, PollerOwned
    <3> QED
      BY <2>1, <3>1, <3>2 DEF PollerOwned
  <2>5. SessionsOwned'
    BY <2>1 DEF IInv, SessionsOwned
  <2>6. HooksOwned'
    BY <2>1, <2>3 DEF IInv, HooksOwned
  <2>7. MaxCrashes = 0 => AckedNotLost'
    BY <2>1, <2>3 DEF IInv, AckedNotLost
  <2> QED
    BY <1>1, <2>3, <2>4, <2>5, <2>6, <2>7 DEF IInv
<1> QED
  BY <1>2, <1>3, <1>4 DEF Poller

\* The portal loop shows a new message and drops a known one.  Either way the
\* message at the head is on screen afterwards, and no other is affected.
LEMMA HandleRemoteEventMoves ==
    ASSUME IInv, NEW l \in Logins, HandleRemoteEvent(l)
    PROVE  LET n == Head(portal[l]).msg
           IN  /\ n \in Messages /\ OwnerOf[n] = l
               /\ Queued(n)
               /\ portal' = [portal EXCEPT ![l] = Tail(@)]
               /\ Range(portal[l]) = Range(Tail(portal[l])) \cup {Head(portal[l])}
               /\ IF Shown(n) THEN UNCHANGED <<db, room>>
                              ELSE /\ db' = [db EXCEPT ![l] = @ \cup {n}]
                                   /\ room' = [room EXCEPT ![l] = Append(@, n)]
<1> DEFINE E == [id : Messages, msg : Messages]
           q == portal[l]
           n == Head(q).msg
<1>1. q \in Seq(E) /\ q # <<>>
  BY DEF IInv, TypeOK, HandleRemoteEvent
<1>2. Head(q) \in E /\ Range(q) = Range(Tail(q)) \cup {Head(q)}
  <2> HIDE DEF E, q
  <2> QED
    BY <1>1, TailRange
<1>3. Head(q).id = n /\ OwnerOf[n] = l /\ n \in Messages
  BY <1>2 DEF IInv, PortalsOwned
<1>4. Queued(n)
  BY <1>2, <1>3 DEF Queued
<1>5. Shown(n) <=> Head(q).id \in db[l]
  BY <1>3 DEF IInv, RoomsRecorded, Shown
<1> QED
  BY <1>2, <1>3, <1>4, <1>5 DEF HandleRemoteEvent

\* The portal loop loses no message: the head of the queue goes to the room,
\* the rest of the queue and of the room stays.
LEMMA HandleRemoteEventKeeps ==
    ASSUME IInv, NEW l \in Logins, HandleRemoteEvent(l)
    PROVE  \A k \in Messages : Queued(k) \/ Shown(k) => Queued(k)' \/ Shown(k)'
<1> DEFINE q == portal[l]
           n == Head(q).msg
<1> SUFFICES ASSUME NEW k \in Messages, Queued(k) \/ Shown(k)
             PROVE  Queued(k)' \/ Shown(k)'
  OBVIOUS
<1>1. /\ n \in Messages /\ OwnerOf[n] = l
      /\ portal' = [portal EXCEPT ![l] = Tail(q)]
      /\ Range(q) = Range(Tail(q)) \cup {Head(q)}
      /\ IF Shown(n) THEN UNCHANGED <<db, room>>
                     ELSE /\ db' = [db EXCEPT ![l] = @ \cup {n}]
                          /\ room' = [room EXCEPT ![l] = Append(@, n)]
  BY HandleRemoteEventMoves
<1>2. /\ portal'[l] = Tail(q) /\ \A j \in Logins \ {l} : portal'[j] = portal[j]
      /\ \A j \in Logins \ {l} : room'[j] = room[j]
  BY <1>1 DEF IInv, TypeOK
<1>3. Range(room'[l]) = Range(room[l]) \cup {n}
  <2>1. room[l] \in Seq(Messages)
    BY DEF IInv, TypeOK
  <2>2. CASE Shown(n)
    BY <1>1, <2>2 DEF Shown
  <2>3. CASE ~Shown(n)
    <3>1. room'[l] = Append(room[l], n)
      BY <1>1, <2>3 DEF IInv, TypeOK
    <3> QED
      BY <1>1, <2>1, <3>1, AppendRange
  <2> QED
    BY <2>2, <2>3
<1>4. OwnerOf[k] \in Logins
  BY ConstantsAssumption
<1>5. CASE OwnerOf[k] # l
  BY <1>2, <1>4, <1>5 DEF Queued, Shown
<1>6. CASE OwnerOf[k] = l /\ (k = n \/ Shown(k))
  BY <1>3, <1>6 DEF Shown
<1>7. CASE OwnerOf[k] = l /\ k # n /\ Queued(k)
  <2>1. PICK e \in Range(q) : e.msg = k
    BY <1>7 DEF Queued
  <2>2. e \in Range(Tail(q))
    BY <1>1, <1>7, <2>1
  <2> QED
    BY <1>2, <1>7, <2>1, <2>2 DEF Queued
<1> QED
  BY <1>5, <1>6, <1>7

\* Showing or dropping the head of a queue keeps the invariant: the id in the
\* database is the message on screen.
LEMMA HandleRemoteEventInv ==
    ASSUME IInv, NEW l \in Logins, HandleRemoteEvent(l)
    PROVE  IInv'
<1> DEFINE q == portal[l]
           n == Head(q).msg
<1> USE DEF wpVars, loginVars, pollVars
<1>1. TypeOK'
  BY HandleRemoteEventType DEF IInv
<1>2. /\ n \in Messages /\ OwnerOf[n] = l
      /\ portal' = [portal EXCEPT ![l] = Tail(q)]
      /\ Range(q) = Range(Tail(q)) \cup {Head(q)}
      /\ IF Shown(n) THEN UNCHANGED <<db, room>>
                     ELSE /\ db' = [db EXCEPT ![l] = @ \cup {n}]
                          /\ room' = [room EXCEPT ![l] = Append(@, n)]
  BY HandleRemoteEventMoves
<1>3. UNCHANGED <<wp, opened, acks, session, saved, todo, ackIDs, hook>>
  BY DEF HandleRemoteEvent
<1>4. /\ portal'[l] = Tail(q) /\ \A k \in Logins \ {l} : portal'[k] = portal[k]
      /\ \A k \in Logins \ {l} : db'[k] = db[k] /\ room'[k] = room[k]
  BY <1>2 DEF IInv, TypeOK
<1>5. /\ Range(room'[l]) = Range(room[l]) \cup {n}
      /\ db'[l] = db[l] \cup {n}
      /\ \A i, j \in 1 .. Len(room'[l]) : room'[l][i] = room'[l][j] => i = j
  <2>1. room[l] \in Seq(Messages) /\ db[l] = Range(room[l])
    BY DEF IInv, TypeOK, RoomsRecorded
  <2>2. \A i, j \in 1 .. Len(room[l]) : room[l][i] = room[l][j] => i = j
    BY DEF IInv, ShownAtMostOnce
  <2>3. CASE Shown(n)
    BY <1>2, <2>1, <2>2, <2>3 DEF Shown
  <2>4. CASE ~Shown(n)
    <3>1. room'[l] = Append(room[l], n) /\ db'[l] = db[l] \cup {n}
      BY <1>2, <2>4 DEF IInv, TypeOK
    <3>2. /\ Range(Append(room[l], n)) = Range(room[l]) \cup {n}
          /\ Len(Append(room[l], n)) = Len(room[l]) + 1
          /\ \A i \in 1 .. Len(room[l]) : Append(room[l], n)[i] = room[l][i]
          /\ Append(room[l], n)[Len(room[l]) + 1] = n
      BY <1>2, <2>1, AppendRange
    <3>3. \A i \in 1 .. Len(room[l]) : room[l][i] # n
      BY <1>2, <2>1, <2>4 DEF Shown, Range
    <3>4. Len(room[l]) \in Nat
      BY <2>1
    <3>5. ASSUME NEW i \in 1 .. Len(room[l]) + 1, NEW j \in 1 .. Len(room[l]) + 1,
                 Append(room[l], n)[i] = Append(room[l], n)[j]
          PROVE  i = j
      BY <2>2, <3>2, <3>3, <3>4, <3>5
    <3> QED
      BY <3>1, <3>2, <3>5
  <2> QED
    BY <2>3, <2>4
<1>6. \A k \in Messages : Queued(k) \/ Shown(k) => Queued(k)' \/ Shown(k)'
  BY HandleRemoteEventKeeps
<1>7. SessionsOwned'
  BY <1>3 DEF IInv, SessionsOwned
<1>8. PollerOwned'
  BY <1>1, <1>3, <1>6 DEF IInv, PollerOwned, TypeOK
<1>9. HooksOwned'
  BY <1>3, <1>6 DEF IInv, HooksOwned
<1>10. PortalsOwned'
  BY <1>2, <1>3, <1>4 DEF IInv, PortalsOwned
<1>11. RoomsRecorded'
  BY <1>2, <1>4, <1>5 DEF IInv, RoomsRecorded
<1>12. ShownAtMostOnce'
  BY <1>4, <1>5 DEF IInv, ShownAtMostOnce
<1>13. MaxCrashes = 0 => AckedNotLost'
  BY <1>3, <1>6 DEF IInv, AckedNotLost
<1> QED
  BY <1>1, <1>7, <1>8, <1>9, <1>10, <1>11, <1>12, <1>13 DEF IInv

\* The steps of a webhook keep the invariant: by ScopesAssumption only the
\* owner is Routable (server.go:199-227, client.go:832-837).
LEMMA WebhookInv ==
    ASSUME IInv, NEW h \in Hooks, Webhook(h)
    PROVE  IInv'
<1> USE DEF wpVars, loginVars, pollVars, portalVars
<1>1. TypeOK'
  BY WebhookType DEF IInv
<1>2. ASSUME NEW st \in Steps, NEW m \in Messages, NEW l \in Logins \cup {NoLogin},
             HookStep(h, st, m, l)
      PROVE  /\ hook'[h] = [step |-> st, msg |-> m, login |-> l]
             /\ \A g \in Hooks \ {h} : hook'[g] = hook[g]
  BY <1>2 DEF HookStep, IInv, TypeOK
<1>3. ASSUME hook' = [hook EXCEPT ![h] = Idle]
      PROVE  \A g \in Hooks : hook'[g].step # "idle" => hook'[g] = hook[g]
  BY <1>3 DEF Idle, IInv, TypeOK
\* The steps that touch neither the portals nor the acknowledgements.
<1>4. ASSUME UNCHANGED <<wp, opened, acks, session, saved, todo, ackIDs, portal, db, room>>,
             HooksOwned'
      PROVE  IInv'
  <2>1. SessionsOwned' /\ PollerOwned' /\ PortalsOwned' /\ RoomsRecorded'
    BY <1>4 DEF IInv, SessionsOwned, PollerOwned, PortalsOwned, RoomsRecorded, Queued, Shown
  <2>2. ShownAtMostOnce' /\ (MaxCrashes = 0 => AckedNotLost')
    BY <1>4 DEF IInv, ShownAtMostOnce, AckedNotLost, Queued, Shown
  <2> QED
    BY <1>1, <1>4, <2>1, <2>2 DEF IInv
<1>5. ASSUME NEW m \in Messages, WebhookPush(h, m)
      PROVE  IInv'
  <2>1. /\ hook'[h] = [step |-> "pushed", msg |-> m, login |-> NoLogin]
        /\ \A g \in Hooks \ {h} : hook'[g] = hook[g]
    BY <1>2, <1>5 DEF WebhookPush, Steps
  <2>2. HooksOwned'
    BY <1>5, <2>1 DEF WebhookPush, IInv, HooksOwned, Queued, Shown
  <2> QED
    BY <1>4, <1>5, <2>2 DEF WebhookPush
<1>6. ASSUME NEW l \in Logins, WebhookRoute(h, l)
      PROVE  IInv'
  <2> DEFINE m == hook[h].msg
  <2>1. m \in Messages /\ wp[m] # "unborn"
    BY <1>6 DEF WebhookRoute, IInv, HooksOwned
  <2>2. SessionOf[m] \in SessionsOf[l] /\ Admits(l, m)
    BY <1>6, <2>1, ConstantsAssumption
    DEF WebhookRoute, Routable, HasSessionID, IInv, SessionsOwned
  <2>3. l = OwnerOf[m]
    BY <2>1, <2>2, ScopesAssumption
  <2>4. /\ hook'[h] = [step |-> "routed", msg |-> m, login |-> l]
        /\ \A g \in Hooks \ {h} : hook'[g] = hook[g]
    BY <1>2, <1>6, <2>1 DEF WebhookRoute, Steps
  <2>5. HooksOwned'
    BY <1>6, <2>1, <2>3, <2>4 DEF WebhookRoute, IInv, HooksOwned, Queued, Shown
  <2> QED
    BY <1>4, <1>6, <2>5 DEF WebhookRoute
<1>7. CASE WebhookRefuse(h)
  <2>1. HooksOwned'
    BY <1>3, <1>7 DEF WebhookRefuse, IInv, HooksOwned, Queued, Shown
  <2> QED
    BY <1>4, <1>7, <2>1 DEF WebhookRefuse
<1>8. CASE WebhookQueue(h)
  <2> DEFINE m == hook[h].msg
  <2>1. m \in Messages /\ wp[m] # "unborn" /\ hook[h].login = OwnerOf[m] /\ OwnerOf[m] \in Logins
    BY <1>8, ConstantsAssumption DEF WebhookQueue, IInv, HooksOwned
  <2>2. UNCHANGED <<wp, opened, acks, session, saved, todo, ackIDs>>
    BY <1>8 DEF WebhookQueue
  <2>3. /\ PortalsOwned' /\ RoomsRecorded' /\ ShownAtMostOnce'
        /\ \A k \in Messages : Queued(k)' <=> Queued(k) \/ k = m
        /\ \A k \in Messages : Shown(k)' <=> Shown(k)
    BY <1>8, <2>1, <2>2, QueueInv DEF WebhookQueue, HookEventID
  <2>4. /\ hook'[h] = [step |-> "queued", msg |-> m, login |-> OwnerOf[m]]
        /\ \A g \in Hooks \ {h} : hook'[g] = hook[g]
    BY <1>2, <1>8, <2>1 DEF WebhookQueue, Steps
  <2>5. HooksOwned'
    BY <2>1, <2>2, <2>3, <2>4 DEF IInv, HooksOwned
  <2>6. PollerOwned'
    BY <2>2, <2>3 DEF IInv, TypeOK, PollerOwned
  <2>7. SessionsOwned' /\ (MaxCrashes = 0 => AckedNotLost')
    BY <2>2, <2>3 DEF IInv, SessionsOwned, AckedNotLost
  <2> QED
    BY <1>1, <2>3, <2>5, <2>6, <2>7 DEF IInv
<1>9. CASE WebhookAck(h)
  <2> DEFINE m == hook[h].msg
  <2>1. m \in Messages /\ (Queued(m) \/ Shown(m))
    BY <1>9 DEF WebhookAck, IInv, HooksOwned
  <2>2. /\ UNCHANGED <<wp, opened, session, saved, todo, ackIDs, portal, db, room>>
        /\ acks' \subseteq acks \cup {m}
    BY <1>9 DEF WebhookAck, AckBy
  <2>3. HooksOwned'
    BY <1>3, <1>9, <2>2 DEF WebhookAck, IInv, HooksOwned, Queued, Shown
  <2>4. SessionsOwned' /\ PollerOwned' /\ PortalsOwned' /\ RoomsRecorded'
    BY <2>2 DEF IInv, SessionsOwned, PollerOwned, PortalsOwned, RoomsRecorded, Queued, Shown
  <2>5. ShownAtMostOnce' /\ (MaxCrashes = 0 => AckedNotLost')
    BY <2>1, <2>2 DEF IInv, ShownAtMostOnce, AckedNotLost, Queued, Shown
  <2> QED
    BY <1>1, <2>3, <2>4, <2>5 DEF IInv
<1> QED
  BY <1>5, <1>6, <1>7, <1>8, <1>9 DEF Webhook

\* A crash keeps the invariant: what it empties is only ever constrained from
\* above, and AckedNotLost is not claimed when crashes are possible.
LEMMA CrashInv ==
    ASSUME IInv, Crash
    PROVE  IInv'
<1> USE DEF wpVars
<1>1. TypeOK'
  BY CrashType DEF IInv
<1>2. SessionsOwned'
  BY DEF Crash, ReloadSessions, IInv, SessionsOwned
<1>3. PollerOwned' /\ HooksOwned'
  BY DEF Crash, PollerOwned, HooksOwned, Idle
<1>4. PortalsOwned'
  BY EmptyRange DEF Crash, PortalsOwned
<1>5. RoomsRecorded' /\ ShownAtMostOnce'
  BY DEF Crash, IInv, RoomsRecorded, ShownAtMostOnce
<1>6. MaxCrashes # 0
  BY ConstantsAssumption DEF Crash, IInv, TypeOK
<1> QED
  BY <1>1, <1>2, <1>3, <1>4, <1>5, <1>6 DEF IInv

\* Stuttering keeps the invariant.
LEMMA StutterInv ==
    ASSUME IInv, UNCHANGED vars
    PROVE  IInv'
<1> USE DEF vars
<1>1. TypeOK' /\ SessionsOwned' /\ PollerOwned'
  BY DEF IInv, TypeOK, SessionsOwned, PollerOwned, Queued, Shown
<1>2. HooksOwned' /\ PortalsOwned' /\ RoomsRecorded'
  BY DEF IInv, HooksOwned, PortalsOwned, RoomsRecorded, Queued, Shown
<1>3. ShownAtMostOnce' /\ (MaxCrashes = 0 => AckedNotLost')
  BY DEF IInv, ShownAtMostOnce, AckedNotLost, Queued, Shown
<1> QED
  BY <1>1, <1>2, <1>3 DEF IInv

\* The inductive invariant holds for every number of logins, sessions,
\* messages and webhook requests, every buffer size and any crashes.
THEOREM InductiveInvariant == Spec => []IInv
<1>1. IInv /\ [Next]_vars => IInv'
  BY SessionInv, PollerInv, HandleRemoteEventInv, WordPressInv, WebhookInv, CrashInv, StutterInv
  DEF Next
<1> QED
  BY InitInv, <1>1, PTL DEF Spec

\* Every reachable state of the delivery model is well typed.
THEOREM TypeCorrect == Spec => []TypeOK
<1>1. IInv => TypeOK
  BY DEF IInv
<1> QED
  BY InductiveInvariant, <1>1, PTL

\* No room shows a message twice, however often the poller, webhook requests
\* and restarts bring it (pkg/connector/poller.go:60, server.go:247).
THEOREM NoDuplicate == Spec => []ShownAtMostOnce
<1>1. IInv => ShownAtMostOnce
  BY DEF IInv
<1> QED
  BY InductiveInvariant, <1>1, PTL

\* A response is shown to, and queued for, its owner alone (README.md:99).
THEOREM NoMisrouting == Spec => []RoutedToOwner
<1>1. IInv => RoutedToOwner
  BY DEF IInv, PortalsOwned, RoomsRecorded, RoutedToOwner
<1> QED
  BY InductiveInvariant, <1>1, PTL

\* While the bridge does not crash, WordPress is never told to drop a message
\* that the bridge neither holds nor has shown (pkg/connector/poller.go:70-74,
\* client.go:832-837).
THEOREM NoLossWithoutCrash ==
    ASSUME MaxCrashes = 0
    PROVE  Spec => []AckedNotLost
<1>1. IInv => AckedNotLost
  BY DEF IInv
<1> QED
  BY InductiveInvariant, <1>1, PTL

-----------------------------------------------------------------------------
\* No step but a crash loses a message.

\* A step that keeps what the bridge has, and tells WordPress to drop only
\* what the bridge has, loses nothing.
LEMMA NothingLost ==
    ASSUME \A k \in Messages : Queued(k) \/ Shown(k) => Queued(k)' \/ Shown(k)',
           \A k \in Messages : k \in acks' \/ wp'[k] = "acked" =>
               k \in acks \/ wp[k] = "acked" \/ Queued(k) \/ Shown(k)
    PROVE  Lost' \subseteq Lost
BY DEF Lost

\* What a session step, a fetch or the first steps of a webhook do.
LEMMA QuietLoses ==
    ASSUME UNCHANGED <<wp, acks, portal, room>>
    PROVE  Lost' \subseteq Lost
BY NothingLost DEF Queued, Shown

\* WordPress drops a message only when its acknowledgement was under way.
LEMMA WordPressLoses ==
    ASSUME IInv, NEW m \in Messages, WordPress(m)
    PROVE  Lost' \subseteq Lost
<1>1. UNCHANGED <<portal, room>>
  BY DEF WordPress, Enqueue, WPAck, LoseAck, portalVars
<1>2. \A k \in Messages : k \in acks' \/ wp'[k] = "acked" => k \in acks \/ wp[k] = "acked"
  BY DEF IInv, TypeOK, WordPress, Enqueue, WPAck, LoseAck, wpVars
<1> QED
  BY <1>1, <1>2, NothingLost DEF Queued, Shown

\* A poll loop acknowledges what it has queued (poller.go:66-74).
LEMMA PollerLoses ==
    ASSUME IInv, NEW p \in Pollers, Poller(p)
    PROVE  Lost' \subseteq Lost
<1>1. CASE PollFetch(p)
  BY <1>1, QuietLoses DEF PollFetch, wpVars, portalVars
<1>2. CASE PollAck(p)
  <2>1. acks' \subseteq acks \cup ackIDs[p] /\ UNCHANGED <<wp, portal, room>>
    BY <1>2 DEF PollAck, AckBy, wpVars, portalVars
  <2>2. \A k \in ackIDs[p] : Queued(k) \/ Shown(k)
    BY DEF IInv, PollerOwned
  <2> QED
    BY <2>1, <2>2, NothingLost DEF Queued, Shown
<1>3. ASSUME NEW m \in Messages, PollQueue(p, m)
      PROVE  Lost' \subseteq Lost
  <2>1. OwnerOf[m] = LoginOf[p] /\ wp[m] # "unborn" /\ UNCHANGED <<wp, acks>>
    BY <1>3 DEF PollQueue, IInv, PollerOwned, wpVars
  <2>2. /\ \A k \in Messages : Queued(k)' <=> Queued(k) \/ k = m
        /\ \A k \in Messages : Shown(k)' <=> Shown(k)
    BY <1>3, <2>1, QueueInv DEF PollQueue, PollEventID
  <2> QED
    BY <2>1, <2>2, NothingLost
<1> QED
  BY <1>1, <1>2, <1>3 DEF Poller

\* So does the webhook (client.go:832-837).
LEMMA WebhookLoses ==
    ASSUME IInv, NEW h \in Hooks, Webhook(h)
    PROVE  Lost' \subseteq Lost
<1> DEFINE m == hook[h].msg
<1>1. CASE WebhookQueue(h)
  <2>1. m \in Messages /\ wp[m] # "unborn" /\ hook[h].login = OwnerOf[m]
    BY <1>1 DEF WebhookQueue, IInv, HooksOwned
  <2>2. UNCHANGED <<wp, acks>>
    BY <1>1 DEF WebhookQueue, wpVars
  <2>3. /\ \A k \in Messages : Queued(k)' <=> Queued(k) \/ k = m
        /\ \A k \in Messages : Shown(k)' <=> Shown(k)
    BY <1>1, <2>1, <2>2, QueueInv DEF WebhookQueue, HookEventID
  <2> QED
    BY <2>2, <2>3, NothingLost
<1>2. CASE WebhookAck(h)
  <2>1. Queued(m) \/ Shown(m)
    BY <1>2 DEF WebhookAck, IInv, HooksOwned
  <2>2. acks' \subseteq acks \cup {m} /\ UNCHANGED <<wp, portal, room>>
    BY <1>2 DEF WebhookAck, AckBy, wpVars, portalVars
  <2> QED
    BY <2>1, <2>2, NothingLost DEF Queued, Shown
<1>3. CASE \/ \E k \in Messages : WebhookPush(h, k)
           \/ \E l \in Logins : WebhookRoute(h, l)
           \/ WebhookRefuse(h)
  BY <1>3, QuietLoses
  DEF WebhookPush, WebhookRoute, WebhookRefuse, wpVars, portalVars
<1> QED
  BY <1>1, <1>2, <1>3 DEF Webhook

\* However many crashes there have been, no other step makes WordPress drop a
\* message the bridge neither holds nor has shown: lost messages are those a
\* crash took (pkg/connector/poller.go:66-74, client.go:832-837).
THEOREM CrashesAloneLose == Spec => OnlyCrashesLose
<1>1. IInv /\ [Next]_vars => [crashes' = crashes => Lost' \subseteq Lost]_vars
  <2> SUFFICES ASSUME IInv, Next, crashes' = crashes
               PROVE  Lost' \subseteq Lost
    OBVIOUS
  <2>1. ASSUME NEW l \in Logins, Session(l)
        PROVE  Lost' \subseteq Lost
    BY <2>1, QuietLoses DEF Session, portalVars
  <2>2. ASSUME NEW l \in Logins, HandleRemoteEvent(l)
        PROVE  Lost' \subseteq Lost
    <3>1. UNCHANGED <<wp, acks>>
      BY <2>2 DEF HandleRemoteEvent, wpVars
    <3> QED
      BY <2>2, <3>1, HandleRemoteEventKeeps, NothingLost
  <2>3. ~Crash
    BY DEF Crash, IInv, TypeOK
  <2> QED
    BY <2>1, <2>2, <2>3, PollerLoses, WordPressLoses, WebhookLoses DEF Next
<1> QED
  BY InductiveInvariant, <1>1, PTL DEF Spec, OnlyCrashesLose

-----------------------------------------------------------------------------
\* Refinement: every step of Delivery is a step of Inbox or a stutter.

\* Every message has a login whose room may show it.
LEMMA Covered ==
    ASSUME NEW m \in Messages, Queued(m) \/ Shown(m)
    PROVE  m \in Held \cup UNION {Range(room[l]) : l \in Logins}
<1>1. OwnerOf[m] \in Logins
  BY ConstantsAssumption
<1> QED
  BY <1>1 DEF Held, Shown

\* The initial state is an initial state of Inbox.
LEMMA InitRefines == Init => Promise!InboxInit
<1> SUFFICES ASSUME Init PROVE Promise!InboxInit
  OBVIOUS
<1>1. Offered = {} /\ Settled = {}
  BY DEF Init, Offered, Settled
<1>2. Held = {}
  BY ConstantsAssumption, EmptyRange DEF Init, Held, Queued
<1> QED
  BY <1>1, <1>2 DEF Init, Promise!InboxInit

\* A step that leaves the mapped state alone is a stutter of Inbox.
LEMMA QuietRefines ==
    ASSUME UNCHANGED <<wp, acks, portal, room>>
    PROVE  UNCHANGED Promise!inboxVars
BY DEF Promise!inboxVars, Offered, Held, Settled, Queued, Shown

\* Queueing a message that is not on screen is Accept, any other a stutter.
LEMMA QueueRefines ==
    ASSUME IInv, NEW m \in Messages, wp[m] # "unborn",
           QueueRemoteEvent(OwnerOf[m], m, m), UNCHANGED <<wp, acks>>
    PROVE  [Promise!InboxNext]_(Promise!inboxVars)
<1>1. /\ \A k \in Messages : Queued(k)' <=> Queued(k) \/ k = m
      /\ \A k \in Messages : Shown(k)' <=> Shown(k)
      /\ UNCHANGED room
  BY QueueInv DEF QueueRemoteEvent
<1>2. UNCHANGED <<Offered, Settled>>
  BY DEF Offered, Settled
<1>3. CASE Shown(m)
  <2>1. Held' = Held
    BY <1>1, <1>3 DEF Held
  <2> QED
    BY <1>1, <1>2, <2>1 DEF Promise!inboxVars
<1>4. CASE ~Shown(m)
  <2>1. Held' = Held \cup {m}
    BY <1>1, <1>4 DEF Held
  <2>2. m \in Offered
    BY DEF Offered
  <2>3. m \notin Range(room[OwnerOf[m]]) /\ UNCHANGED <<Offered, room, Settled>>
    BY <1>1, <1>2, <1>4 DEF Shown
  <2>4. Promise!Accept(m)
    BY <2>1, <2>2, <2>3 DEF Promise!Accept, Promise!Range, Range
  <2> QED
    BY <2>4 DEF Promise!InboxNext
<1> QED
  BY <1>3, <1>4

\* Sending acknowledgements for queued or shown messages is Settle.
LEMMA AckRefines ==
    ASSUME IInv, NEW S \in SUBSET Messages, \A m \in S : Queued(m) \/ Shown(m),
           acks' = acks \cup S, UNCHANGED <<wp, portal, room>>
    PROVE  [Promise!InboxNext]_(Promise!inboxVars)
<1>1. UNCHANGED <<Offered, Held>>
  BY DEF Offered, Held, Queued, Shown
<1>2. Settled' = Settled \cup S
  BY DEF Settled
<1>3. S \subseteq Held \cup UNION {Range(room[l]) : l \in Logins}
  <2> SUFFICES ASSUME NEW m \in S
               PROVE  m \in Held \cup UNION {Range(room[l]) : l \in Logins}
    OBVIOUS
  <2>1. m \in Messages /\ (Queued(m) \/ Shown(m))
    OBVIOUS
  <2> QED
    BY <2>1, Covered
<1>4. Promise!Settle(S)
  BY <1>1, <1>2, <1>3 DEF Promise!Settle, Promise!Range, Range
<1> QED
  BY <1>4 DEF Promise!InboxNext

\* Queueing at WordPress is Offer, a lost acknowledgement Retract.
LEMMA WordPressRefines ==
    ASSUME IInv, NEW m \in Messages, WordPress(m)
    PROVE  [Promise!InboxNext]_(Promise!inboxVars)
<1> USE DEF portalVars
<1>1. UNCHANGED <<portal, room>> /\ Held' = Held
  BY DEF WordPress, Enqueue, WPAck, LoseAck, Held, Queued, Shown
<1>2. CASE Enqueue(m)
  <2>1. Offered' = Offered \cup {m} /\ m \notin Offered /\ Settled' = Settled
    BY <1>2 DEF Enqueue, Offered, Settled, IInv, TypeOK
  <2>2. Promise!Offer(m)
    BY <1>1, <2>1 DEF Promise!Offer
  <2> QED
    BY <2>2 DEF Promise!InboxNext
<1>3. CASE WPAck(m)
  <2>1. Offered' = Offered \cup {m} /\ Settled' = Settled
    BY <1>3 DEF WPAck, Offered, Settled, IInv, TypeOK
  <2>2. CASE wp[m] = "unborn"
    <3>1. Promise!Offer(m)
      BY <1>1, <2>1, <2>2 DEF Promise!Offer, Offered
    <3> QED
      BY <3>1 DEF Promise!InboxNext
  <2>3. CASE wp[m] # "unborn"
    <3>1. Offered' = Offered
      BY <2>1, <2>3 DEF Offered
    <3> QED
      BY <1>1, <2>1, <3>1 DEF Promise!inboxVars
  <2> QED
    BY <2>2, <2>3
<1>4. CASE LoseAck(m)
  <2>1. Offered' = Offered
    BY <1>4 DEF LoseAck, Offered, wpVars
  <2>2. CASE wp[m] = "acked"
    <3>1. Settled' = Settled
      BY <1>4, <2>2 DEF LoseAck, Settled, wpVars
    <3> QED
      BY <1>1, <2>1, <3>1 DEF Promise!inboxVars
  <2>3. CASE wp[m] # "acked"
    <3>1. Settled' = Settled \ {m}
      BY <1>4, <2>3 DEF LoseAck, Settled, wpVars
    <3>2. Promise!Retract({m})
      BY <1>1, <2>1, <3>1 DEF Promise!Retract
    <3> QED
      BY <3>2 DEF Promise!InboxNext
  <2> QED
    BY <2>2, <2>3
<1> QED
  BY <1>2, <1>3, <1>4 DEF WordPress

\* Showing the head of a queue is Show; dropping a known message is a stutter.
LEMMA HandleRemoteEventRefines ==
    ASSUME IInv, NEW l \in Logins, HandleRemoteEvent(l)
    PROVE  [Promise!InboxNext]_(Promise!inboxVars)
<1> DEFINE q == portal[l]
           n == Head(q).msg
<1>1. /\ n \in Messages /\ OwnerOf[n] = l /\ Queued(n)
      /\ portal' = [portal EXCEPT ![l] = Tail(q)]
      /\ Range(q) = Range(Tail(q)) \cup {Head(q)}
      /\ IF Shown(n) THEN UNCHANGED <<db, room>>
                     ELSE /\ db' = [db EXCEPT ![l] = @ \cup {n}]
                          /\ room' = [room EXCEPT ![l] = Append(@, n)]
  BY HandleRemoteEventMoves
<1>2. UNCHANGED <<Offered, Settled>>
  BY DEF HandleRemoteEvent, Offered, Settled, wpVars
<1>3. portal'[l] = Tail(q) /\ \A k \in Logins \ {l} : portal'[k] = portal[k]
  BY <1>1 DEF IInv, TypeOK
<1>4. ASSUME NEW k \in Messages, k # n
      PROVE  Queued(k)' <=> Queued(k)
  <2>1. OwnerOf[k] \in Logins
    BY ConstantsAssumption
  <2>2. CASE OwnerOf[k] # l
    BY <1>3, <2>1, <2>2 DEF Queued
  <2>3. CASE OwnerOf[k] = l
    <3>1. Queued(k)' <=> \E e \in Range(Tail(q)) : e.msg = k
      BY <1>3, <2>3 DEF Queued
    <3>2. Queued(k) <=> \E e \in Range(q) : e.msg = k
      BY <2>3 DEF Queued
    <3> QED
      BY <1>1, <1>4, <3>1, <3>2
  <2> QED
    BY <2>2, <2>3
<1>5. CASE Shown(n)
  <2>1. UNCHANGED room
    BY <1>1, <1>5
  <2>2. \A k \in Messages : Shown(k)' <=> Shown(k)
    BY <2>1 DEF Shown
  <2>3. Held' = Held
    BY <1>4, <1>5, <2>2 DEF Held
  <2> QED
    BY <1>2, <2>1, <2>3 DEF Promise!inboxVars
<1>6. CASE ~Shown(n)
  <2>1. room' = [room EXCEPT ![l] = Append(@, n)]
    BY <1>1, <1>6
  <2>2. ASSUME NEW k \in Messages
        PROVE  Shown(k)' <=> Shown(k) \/ k = n
    <3>1. Range(Append(room[l], n)) = Range(room[l]) \cup {n}
      <4>1. room[l] \in Seq(Messages)
        BY DEF IInv, TypeOK
      <4> QED
        BY <1>1, <4>1, AppendRange
    <3>2. room'[l] = Append(room[l], n) /\ \A j \in Logins \ {l} : room'[j] = room[j]
      BY <2>1 DEF IInv, TypeOK
    <3>3. OwnerOf[k] \in Logins
      BY ConstantsAssumption
    <3> QED
      BY <1>1, <3>1, <3>2, <3>3 DEF Shown
  <2>3. Held' = Held \ {n}
    BY <1>4, <2>2 DEF Held
  <2>4. n \in Held /\ n \notin Range(room[OwnerOf[n]])
    BY <1>1, <1>6 DEF Held, Shown
  <2>5. room' = [room EXCEPT ![OwnerOf[n]] = Append(@, n)]
    BY <1>1, <2>1
  <2>6. Promise!Show(n)
    <3> HIDE DEF n
    <3> QED
      BY <1>2, <2>3, <2>4, <2>5 DEF Promise!Show, Promise!Range, Range
  <2> QED
    BY <1>1, <2>6 DEF Promise!InboxNext
<1> QED
  BY <1>5, <1>6

\* Session steps are stutters of Inbox.
LEMMA SessionRefines ==
    ASSUME NEW l \in Logins, Session(l)
    PROVE  UNCHANGED Promise!inboxVars
BY QuietRefines DEF Session, portalVars

\* The poller takes hold of messages (Accept) and settles them (Settle).
LEMMA PollerRefines ==
    ASSUME IInv, NEW p \in Pollers, Poller(p)
    PROVE  [Promise!InboxNext]_(Promise!inboxVars)
<1>1. CASE PollFetch(p)
  BY <1>1, QuietRefines DEF PollFetch, wpVars, portalVars
<1>2. CASE PollAck(p)
  <2>1. /\ AckBy(LoginOf[p], ackIDs[p]) \in SUBSET Messages
        /\ \A m \in AckBy(LoginOf[p], ackIDs[p]) : Queued(m) \/ Shown(m)
    BY DEF AckBy, IInv, TypeOK, PollerOwned
  <2> QED
    BY <1>2, <2>1, AckRefines DEF PollAck, wpVars, portalVars
<1>3. ASSUME NEW m \in Messages, PollQueue(p, m)
      PROVE  [Promise!InboxNext]_(Promise!inboxVars)
  <2>1. OwnerOf[m] = LoginOf[p] /\ wp[m] # "unborn"
    BY <1>3 DEF PollQueue, IInv, PollerOwned
  <2> QED
    BY <1>3, <2>1, QueueRefines DEF PollQueue, PollEventID, wpVars
<1> QED
  BY <1>1, <1>2, <1>3 DEF Poller

\* So does the webhook.
LEMMA WebhookRefines ==
    ASSUME IInv, NEW h \in Hooks, Webhook(h)
    PROVE  [Promise!InboxNext]_(Promise!inboxVars)
<1> DEFINE m == hook[h].msg
<1>1. ASSUME hook[h].step # "idle"
      PROVE  m \in Messages /\ wp[m] # "unborn"
  BY <1>1 DEF IInv, HooksOwned
<1>2. CASE WebhookQueue(h)
  <2>1. m \in Messages /\ wp[m] # "unborn" /\ hook[h].login = OwnerOf[m]
    BY <1>2 DEF WebhookQueue, IInv, HooksOwned
  <2> QED
    BY <1>2, <2>1, QueueRefines DEF WebhookQueue, HookEventID, wpVars
<1>3. CASE WebhookAck(h)
  <2> DEFINE S == AckBy(hook[h].login, {m})
  <2>1. S \in SUBSET Messages /\ \A k \in S : Queued(k) \/ Shown(k)
    BY <1>3 DEF WebhookAck, AckBy, IInv, HooksOwned
  <2> QED
    BY <1>3, <2>1, AckRefines DEF WebhookAck, wpVars, portalVars
<1>4. CASE \/ \E k \in Messages : WebhookPush(h, k)
           \/ \E l \in Logins : WebhookRoute(h, l)
           \/ WebhookRefuse(h)
  BY <1>4, QuietRefines
  DEF WebhookPush, WebhookRoute, WebhookRefuse, wpVars, portalVars
<1> QED
  BY <1>2, <1>3, <1>4 DEF Webhook

\* A crash is Forget.
LEMMA CrashRefines ==
    ASSUME IInv, Crash
    PROVE  Promise!InboxNext
<1>1. MaxCrashes > 0
  BY ConstantsAssumption DEF Crash, IInv, TypeOK
<1>2. Held' = {}
  BY ConstantsAssumption, EmptyRange DEF Crash, Held, Queued
<1>3. UNCHANGED <<Offered, room, Settled>>
  BY DEF Crash, Offered, Settled
<1>4. Promise!Forget
  BY <1>1, <1>2, <1>3 DEF Promise!Forget
<1> QED
  BY <1>4 DEF Promise!InboxNext

\* The two delivery paths, their queues and their acknowledgements implement
\* the Inbox promise: each message shown once, to its owner, and settled only
\* while it is held or shown.
THEOREM Refinement == Spec => ImplementsInbox
<1>1. IInv /\ [Next]_vars => [Promise!InboxNext]_(Promise!inboxVars)
  <2> SUFFICES ASSUME IInv, [Next]_vars
               PROVE  [Promise!InboxNext]_(Promise!inboxVars)
    OBVIOUS
  <2>1. CASE UNCHANGED vars
    BY <2>1, QuietRefines DEF vars
  <2>2. CASE Next
    BY <2>2, SessionRefines, PollerRefines, HandleRemoteEventRefines, WordPressRefines,
       WebhookRefines, CrashRefines DEF Next
  <2> QED
    BY <2>1, <2>2
<1> QED
  BY InitRefines, InductiveInvariant, <1>1, PTL DEF Spec, ImplementsInbox, Promise!InboxSpec
=============================================================================
