------------------------------ MODULE Delivery ------------------------------
(***************************************************************************)
(* Outbound delivery in connector mode: how a message an agent produced in *)
(* WordPress reaches the Matrix room of the login it is for.  There are    *)
(* two paths.  The poller of a login (pkg/connector/poller.go) fetches a   *)
(* batch, queues every message of it on the portal's event queue and then  *)
(* acknowledges the batch.  The webhook (pkg/connector/server.go) takes    *)
(* one message per request, finds the login that knows its session, queues *)
(* it and acknowledges it.  Both paths filter or route by the session id a *)
(* login remembers (pkg/connector/connector.go), which /new, the idle TTL  *)
(* and a crash change under them.                                          *)
(*                                                                         *)
(* WordPress and the portal event loop of the bridge framework are not in  *)
(* the repository: they are modelled from how the code uses them.          *)
(***************************************************************************)
EXTENDS Naturals, Sequences, Functions, FiniteSets

CONSTANTS Logins,        \* bridge logins (one agent token, one portal each)
          Sessions,      \* session ids WordPress may hand out
          Messages,      \* outbound messages, named by their queue id
          Pollers,       \* poll loops, of current and of replaced clients
          Hooks,         \* webhook requests that may be in progress at once
          NoSession, NoMessage, NoLogin,
          LoginOf,       \* the login a poll loop is for
          OwnerOf,       \* the login whose token a message is queued under
          SessionOf,     \* the session a message belongs to
          SessionsOf,    \* the session ids WordPress may hand out to a login
          LoginScope,    \* a login's site and agent slug, Wild when empty
          MessageScope,  \* a webhook payload's site and agent slug
          Wild,
          EventBuffer,   \* capacity of a portal's event queue
          MaxCrashes     \* bound on crashes of the bridge process

\* A site or agent slug that either side leaves empty matches anything.
Admits(l, m) ==
    \A f \in {"site", "agent"} :
        \/ LoginScope[l][f] = MessageScope[m][f]
        \/ Wild \in {LoginScope[l][f], MessageScope[m][f]}

ASSUME ConstantsAssumption ==
    /\ LoginOf \in [Pollers -> Logins]
    /\ OwnerOf \in [Messages -> Logins]
    /\ SessionOf \in [Messages -> Sessions]
    /\ SessionsOf \in [Logins -> SUBSET Sessions]
    /\ \A m \in Messages : SessionOf[m] \in SessionsOf[OwnerOf[m]]
    /\ NoSession \notin Sessions
    /\ NoMessage \notin Messages
    /\ NoLogin \notin Logins
    /\ EventBuffer \in Nat \ {0}
    /\ MaxCrashes \in Nat

\* Session ids may coincide only between agents whose scopes differ: two agents
\* of a site, say, if neither the login nor the message leaves the slug empty.
ASSUME ScopesAssumption ==
    \A m \in Messages : \A l \in Logins :
        SessionOf[m] \in SessionsOf[l] /\ Admits(l, m) => l = OwnerOf[m]

VARIABLES
    wp,       \* WordPress: state of each message of the pending queue
    opened,   \* WordPress: sessions created so far, per login
    acks,     \* acknowledgements on their way to WordPress
    session,  \* UserLoginMeta.SessionIDs of the login's portal, in memory
    saved,    \* the same in the bridge database
    todo,     \* each poll loop: messages of the fetched batch not queued yet
    ackIDs,   \* each poll loop: messages of the batch already queued
    hook,     \* webhook requests being handled
    portal,   \* event queue of the login's portal
    db,       \* message ids in the bridge database, per login
    room,     \* what the Matrix room shows
    crashes

\* opened, session and saved go through the steps of SessionMemory.
INSTANCE SessionMemory

wpVars     == <<wp, opened>>
loginVars  == <<session, saved>>
pollVars   == <<todo, ackIDs>>
portalVars == <<portal, db, room>>
vars == <<wp, opened, acks, session, saved, todo, ackIDs, hook, portal, db, room, crashes>>

Idle == [step |-> "idle", msg |-> NoMessage, login |-> NoLogin]

Init ==
    /\ wp = [m \in Messages |-> "unborn"]
    /\ MemoryInit
    /\ acks = {}
    /\ todo = [p \in Pollers |-> {}]
    /\ ackIDs = [p \in Pollers |-> {}]
    /\ hook = [h \in Hooks |-> Idle]
    /\ portal = [l \in Logins |-> <<>>]
    /\ db = [l \in Logins |-> {}]
    /\ room = [l \in Logins |-> <<>>]
    /\ crashes = 0

-----------------------------------------------------------------------------
\* Sessions.

HasSessionID(l, s) == session[l] = s

-----------------------------------------------------------------------------
\* WordPress.

Enqueue(m) ==
    /\ wp[m] = "unborn"
    /\ SessionOf[m] \in opened[OwnerOf[m]]
    /\ wp' = [wp EXCEPT ![m] = "pending"]
    /\ UNCHANGED <<opened, acks, loginVars, pollVars, hook, portalVars, crashes>>

\* The token scopes what an acknowledgement may remove.
AckBy(l, S) == {m \in S : OwnerOf[m] = l}

WPAck(m) ==
    /\ m \in acks
    /\ acks' = acks \ {m}
    /\ wp' = [wp EXCEPT ![m] = "acked"]
    /\ UNCHANGED <<opened, loginVars, pollVars, hook, portalVars, crashes>>

LoseAck(m) ==
    /\ m \in acks
    /\ acks' = acks \ {m}
    /\ UNCHANGED <<wpVars, loginVars, pollVars, hook, portalVars, crashes>>

-----------------------------------------------------------------------------
\* The portal event queue and loop of the bridge framework.

EventOf(id, m) == [id |-> id, msg |-> m]
PollEventID(m) == m
\* Mutant of HookEventID: the webhook names the event in its own way.
HookEventIDOfHook(m) == <<"hook", m>>
HookEventID(m) == m

\* QueueRemoteEvent blocks while the queue is full.  The code does not look at
\* its result, so that it takes what it is given in the end is assumed here, and
\* with it AckedNotLost and OnlyCrashesLose.
QueueRemoteEvent(l, id, m) ==
    /\ Len(portal[l]) < EventBuffer
    /\ portal' = [portal EXCEPT ![l] = Append(@, EventOf(id, m))]
    /\ UNCHANGED <<db, room>>

\* The loop drops a message whose id is in the database already.  That it saves
\* and sends every other one is assumed in the same way.
HandleRemoteEvent(l) ==
    /\ portal[l] # <<>>
    /\ portal' = [portal EXCEPT ![l] = Tail(@)]
    /\ IF Head(portal[l]).id \in db[l]
       THEN UNCHANGED <<db, room>>
       ELSE /\ db' = [db EXCEPT ![l] = @ \cup {Head(portal[l]).id}]
            /\ room' = [room EXCEPT ![l] = Append(@, Head(portal[l]).msg)]
    /\ UNCHANGED <<wpVars, acks, loginVars, pollVars, hook, crashes>>

-----------------------------------------------------------------------------
\* The poller: pollOnce is fetch, queue each message, acknowledge the batch.
\* A login has one poll loop, and for a while those of the clients it has
\* replaced; all use the session ids of the login.

\* Mutants of Pending: the filter is read from the saved metadata; messages
\* the bridge has shown already are left out.
PendingOfSaved(l) ==
    {m \in Messages :
        /\ wp[m] = "pending"
        /\ OwnerOf[m] = l
        /\ saved[l] # NoSession => saved[l] = SessionOf[m]}

PendingUnseen(l) ==
    {m \in Messages :
        /\ wp[m] = "pending"
        /\ OwnerOf[m] = l
        /\ m \notin db[l]
        /\ session[l] # NoSession => HasSessionID(l, SessionOf[m])}

\* The filter is sent only when some session id is known.
Pending(l) ==
    {m \in Messages :
        /\ wp[m] = "pending"
        /\ OwnerOf[m] = l
        /\ session[l] # NoSession => HasSessionID(l, SessionOf[m])}

\* Mutant of PollFetch: the batch is acknowledged before it is queued.
PollFetchAcking(p) ==
    /\ todo[p] = {}
    /\ ackIDs[p] = {}
    /\ Pending(LoginOf[p]) # {}
    /\ todo' = [todo EXCEPT ![p] = Pending(LoginOf[p])]
    /\ acks' = acks \cup Pending(LoginOf[p])
    /\ UNCHANGED <<wpVars, loginVars, ackIDs, hook, portalVars, crashes>>

PollFetch(p) ==
    /\ todo[p] = {}
    /\ ackIDs[p] = {}
    /\ Pending(LoginOf[p]) # {}
    /\ todo' = [todo EXCEPT ![p] = Pending(LoginOf[p])]
    /\ UNCHANGED <<wpVars, acks, loginVars, ackIDs, hook, portalVars, crashes>>

PollQueue(p, m) ==
    /\ m \in todo[p]
    /\ QueueRemoteEvent(LoginOf[p], PollEventID(m), m)
    /\ todo' = [todo EXCEPT ![p] = @ \ {m}]
    /\ ackIDs' = [ackIDs EXCEPT ![p] = @ \cup {m}]
    /\ UNCHANGED <<wpVars, acks, loginVars, hook, crashes>>

PollAck(p) ==
    /\ todo[p] = {}
    /\ ackIDs[p] # {}
    /\ acks' = acks \cup AckBy(LoginOf[p], ackIDs[p])
    /\ ackIDs' = [ackIDs EXCEPT ![p] = {}]
    /\ UNCHANGED <<wpVars, loginVars, todo, hook, portalVars, crashes>>

-----------------------------------------------------------------------------
\* The webhook: handleWebhook, HandleIncomingPendingMessage and
\* deliverPendingMessage.  WordPress may push a pending message at any time,
\* again after a refusal or a lost acknowledgement too.

HookStep(h, step, m, l) ==
    hook' = [hook EXCEPT ![h] = [step |-> step, msg |-> m, login |-> l]]

WebhookPush(h, m) ==
    /\ hook[h].step = "idle"
    /\ wp[m] = "pending"
    /\ HookStep(h, "pushed", m, NoLogin)
    /\ UNCHANGED <<wpVars, acks, loginVars, pollVars, portalVars, crashes>>

\* Mutant of Routable: the session id alone decides.
RoutableBySession(l, m) == HasSessionID(l, SessionOf[m])

Routable(l, m) == Admits(l, m) /\ HasSessionID(l, SessionOf[m])

\* The first login that matches, in the order of a Go map.
WebhookRoute(h, l) ==
    /\ hook[h].step = "pushed"
    /\ Routable(l, hook[h].msg)
    /\ HookStep(h, "routed", hook[h].msg, l)
    /\ UNCHANGED <<wpVars, acks, loginVars, pollVars, portalVars, crashes>>

\* 502: no login found for the session.  The message stays pending.
WebhookRefuse(h) ==
    /\ hook[h].step = "pushed"
    /\ \A l \in Logins : ~Routable(l, hook[h].msg)
    /\ hook' = [hook EXCEPT ![h] = Idle]
    /\ UNCHANGED <<wpVars, acks, loginVars, pollVars, portalVars, crashes>>

WebhookQueue(h) ==
    /\ hook[h].step = "routed"
    /\ QueueRemoteEvent(hook[h].login, HookEventID(hook[h].msg), hook[h].msg)
    /\ HookStep(h, "queued", hook[h].msg, hook[h].login)
    /\ UNCHANGED <<wpVars, acks, loginVars, pollVars, crashes>>

WebhookAck(h) ==
    /\ hook[h].step = "queued"
    /\ acks' = acks \cup AckBy(hook[h].login, {hook[h].msg})
    /\ hook' = [hook EXCEPT ![h] = Idle]
    /\ UNCHANGED <<wpVars, loginVars, pollVars, portalVars, crashes>>

-----------------------------------------------------------------------------
\* Mutant of Crash: the ids to acknowledge survive, the queue does not.
CrashKeepingAckIDs ==
    /\ crashes < MaxCrashes
    /\ crashes' = crashes + 1
    /\ ReloadSessions
    /\ todo' = [p \in Pollers |-> {}]
    /\ hook' = [h \in Hooks |-> Idle]
    /\ portal' = [l \in Logins |-> <<>>]
    /\ UNCHANGED <<wp, acks, ackIDs, db, room>>

\* A crash of the bridge process: what lives in memory is lost, the login's
\* metadata is loaded again as it was last saved (LoadUserLogin).
Crash ==
    /\ crashes < MaxCrashes
    /\ crashes' = crashes + 1
    /\ ReloadSessions
    /\ todo' = [p \in Pollers |-> {}]
    /\ ackIDs' = [p \in Pollers |-> {}]
    /\ hook' = [h \in Hooks |-> Idle]
    /\ portal' = [l \in Logins |-> <<>>]
    /\ UNCHANGED <<wp, acks, db, room>>

-----------------------------------------------------------------------------
\* The part the handlers of Matrix messages have in it.
Session(l) ==
    /\ \/ \E s \in Sessions : OpenSession(l, s) \/ RememberSession(l, s)
       \/ ForgetSession(l) \/ SaveSession(l)
    /\ UNCHANGED <<wp, acks, pollVars, hook, portalVars, crashes>>

WordPress(m) == Enqueue(m) \/ WPAck(m) \/ LoseAck(m)

Poller(p) == PollFetch(p) \/ PollAck(p) \/ \E m \in Messages : PollQueue(p, m)

Webhook(h) ==
    \/ \E m \in Messages : WebhookPush(h, m)
    \/ \E l \in Logins : WebhookRoute(h, l)
    \/ WebhookRefuse(h) \/ WebhookQueue(h) \/ WebhookAck(h)

Next ==
    \/ \E l \in Logins : Session(l) \/ HandleRemoteEvent(l)
    \/ \E p \in Pollers : Poller(p)
    \/ \E m \in Messages : WordPress(m)
    \/ \E h \in Hooks : Webhook(h)
    \/ Crash

Spec == Init /\ [][Next]_vars

\* What a loop has fetched it queues and acknowledges; a login has a loop whose
\* ticker keeps firing, though a replaced one may have stopped; the portal loop
\* keeps taking events, a webhook handler runs to its end, and acknowledgements
\* get through when they are sent again and again.  Nothing obliges WordPress
\* to push.
Fairness ==
    /\ \A p \in Pollers : WF_vars(PollAck(p) \/ \E m \in Messages : PollQueue(p, m))
    /\ \A l \in Logins : /\ WF_vars(\E p \in Pollers : LoginOf[p] = l /\ PollFetch(p))
                         /\ WF_vars(HandleRemoteEvent(l))
    /\ \A h \in Hooks : WF_vars(WebhookRefuse(h) \/ WebhookQueue(h) \/ WebhookAck(h)
                                \/ \E l \in Logins : WebhookRoute(h, l))
    /\ \A m \in Messages : SF_vars(WPAck(m))

FairSpec == Spec /\ Fairness

-----------------------------------------------------------------------------
Steps == {"idle", "pushed", "routed", "queued"}

\* Every variable has its type.
TypeOK ==
    /\ wp \in [Messages -> {"unborn", "pending", "acked"}]
    /\ opened \in [Logins -> SUBSET Sessions]
    /\ acks \in SUBSET Messages
    /\ session \in [Logins -> Sessions \cup {NoSession}]
    /\ saved \in [Logins -> Sessions \cup {NoSession}]
    /\ todo \in [Pollers -> SUBSET Messages]
    /\ ackIDs \in [Pollers -> SUBSET Messages]
    /\ hook \in [Hooks -> [step : Steps, msg : Messages \cup {NoMessage},
                           login : Logins \cup {NoLogin}]]
    /\ portal \in [Logins -> Seq([id : Messages, msg : Messages])]
    /\ db \in [Logins -> SUBSET Messages]
    /\ room \in [Logins -> Seq(Messages)]
    /\ crashes \in 0 .. MaxCrashes

\* A room never shows the same message twice, whichever of the poller, the
\* webhook and their repetitions brought it (the queue id is the event id on
\* both paths: poller.go:60, server.go:247).
ShownAtMostOnce ==
    \A l \in Logins : \A i, j \in 1 .. Len(room[l]) :
        room[l][i] = room[l][j] => i = j

\* Users of one agent never receive each other's responses (README.md:99): a
\* room shows, and a portal queues, only messages of its own login.
RoutedToOwner ==
    \A l \in Logins :
        /\ \A m \in Range(room[l]) : OwnerOf[m] = l
        /\ \A e \in Range(portal[l]) : OwnerOf[e.msg] = l

Queued(m) == \E e \in Range(portal[OwnerOf[m]]) : e.msg = m
Shown(m)  == m \in Range(room[OwnerOf[m]])

\* WordPress is told to drop a message only when the bridge holds it in the
\* portal queue or has shown it.  Holds for a bridge that does not crash; with
\* crashes it is what the comment of AckPendingMessages promises and fails.
AckedNotLost ==
    \A m \in Messages :
        m \in acks \/ wp[m] = "acked" => Queued(m) \/ Shown(m)

\* Messages WordPress was told to drop that the bridge does not have.
Lost == {m \in Messages : (m \in acks \/ wp[m] = "acked") /\ ~Queued(m) /\ ~Shown(m)}

\* No step but a crash loses a message, before and after earlier crashes: not
\* an acknowledgement that is late or repeated, nor an event that is dropped
\* as known (poller.go:66-74, client.go:832-837).
OnlyCrashesLose == [][crashes' = crashes => Lost' \subseteq Lost]_vars

\* A login remembers only session ids WordPress may have handed to it.
SessionsOwned ==
    \A l \in Logins :
        /\ opened[l] \subseteq SessionsOf[l]
        /\ {session[l], saved[l]} \subseteq opened[l] \cup {NoSession}

\* What the poller and the webhook carry was queued by WordPress and is with
\* its owner; what they are about to acknowledge is queued or shown.
PollerOwned ==
    \A p \in Pollers :
        /\ \A m \in todo[p] \cup ackIDs[p] : OwnerOf[m] = LoginOf[p] /\ wp[m] # "unborn"
        /\ \A m \in ackIDs[p] : Queued(m) \/ Shown(m)

HooksOwned ==
    \A h \in Hooks : hook[h].step # "idle" =>
        /\ hook[h].msg \in Messages
        /\ wp[hook[h].msg] # "unborn"
        /\ hook[h].step \in {"routed", "queued"} => hook[h].login = OwnerOf[hook[h].msg]
        /\ hook[h].step = "queued" => Queued(hook[h].msg) \/ Shown(hook[h].msg)

PortalsOwned ==
    \A l \in Logins : \A e \in Range(portal[l]) :
        e.id = e.msg /\ OwnerOf[e.msg] = l /\ wp[e.msg] # "unborn"

\* The database knows exactly the messages the room shows.
RoomsRecorded ==
    \A l \in Logins :
        /\ db[l] = Range(room[l])
        /\ \A m \in Range(room[l]) : OwnerOf[m] = l

\* The inductive invariant behind the safety properties above: every message
\* in the bridge, wherever it is, is with its owner and goes by one event id,
\* and every acknowledgement is covered by a queued or a shown message.
IInv ==
    /\ TypeOK
    /\ SessionsOwned
    /\ PollerOwned
    /\ HooksOwned
    /\ PortalsOwned
    /\ RoomsRecorded
    /\ ShownAtMostOnce
    /\ MaxCrashes = 0 => AckedNotLost

\* A message is offered once WordPress has queued it, held while it waits in
\* its owner's portal queue, settled once its acknowledgement is sent.
Offered == {m \in Messages : wp[m] # "unborn"}
Held    == {m \in Messages : Queued(m) /\ ~Shown(m)}
Settled == acks \cup {m \in Messages : wp[m] = "acked"}

Promise == INSTANCE Inbox WITH
    Forgetful <- MaxCrashes > 0,
    offered <- Offered, held <- Held, settled <- Settled

\* The poller, the webhook and the portal queues together implement Inbox.
ImplementsInbox == Promise!InboxSpec

\* A message pending in the session its login is using is shown, as long as
\* the login keeps the session: lost acknowledgements, refused webhooks and
\* a webhook that races the poller do not stop it.
PendingIsShown ==
    \A m \in Messages :
        (wp[m] = "pending" /\ session[OwnerOf[m]] = SessionOf[m])
            ~> (Shown(m) \/ session[OwnerOf[m]] # SessionOf[m])

\* WordPress is eventually rid of a message the bridge has shown: the
\* acknowledgement is repeated with every poll until it arrives.
ShownIsAcked ==
    \A m \in Messages :
        (Shown(m) /\ session[OwnerOf[m]] = SessionOf[m])
            ~> (wp[m] = "acked" \/ session[OwnerOf[m]] # SessionOf[m])
=============================================================================
