# A TLA+ model of mautrix-data-machine

mautrix-data-machine connects Matrix (Beeper) rooms with Data Machine agents on
a WordPress site. The binary runs in one of two modes. In *connector mode* it
is a bridge on the mautrix `bridgev2` framework: a user signs in once, every
login has a portal room, messages go to WordPress and answers come back either
in the HTTP response or through a queue WordPress keeps. In *bot mode* it is a
plain Matrix bot that every user authorizes for themselves. This directory
models the parts of both that are hard to test, model-checks them with TLC and
proves the main results about message delivery, chat sessions, signing in and
authorization with TLAPS.

Paths below are relative to the repository root.

## 1. The system

| Component | State | Operations | Works with |
|---|---|---|---|
| Outbound delivery: `pkg/connector/poller.go`, `server.go`, `client.go` | batch being queued, ids to acknowledge, webhook requests in progress | `pollOnce`, `handleWebhook`, `HandleIncomingPendingMessage`, `QueueRemoteText`, `deliverPendingMessage`, `AckPendingMessages` | the portal event queue of the framework, WordPress' pending queue, the session maps |
| Inbound chat: `HandleMatrixMessage` in `pkg/connector/client.go` | one handler per Matrix event | login check, `/new`, idle rotation, `SendMessage`, `ContinueChat` loop, typing | session maps, their save in the bridge database, WordPress |
| Session bookkeeping: `UserLoginMeta` in `connector.go`, `SessionStore` in `pkg/wordpress/session.go` | session id and last message time per portal | remember, touch, expire, clear, look up | every component above and below |
| Bot handlers: `pkg/bot/handlers.go` | one handler per Matrix event | text, image, `/new`, `/logout`, `runChatTurn` | token store, session store, WordPress |
| Bot authorization: `pkg/bot/pkce.go`, `userauth.go` | pending logins by state, token per user (SQLite) | `StartAuthFlow`, `handleCallback`, `GetToken`, `SaveToken`, `DeleteToken` | HTTP requests of browsers, run beside the handlers |
| Connector login: `pkg/connector/login.go`, `server.go` | login process, pending logins, one result channel per state | `Start`, `SubmitUserInput`, `Wait`, `Cancel`, `handleCallback` | framework, WordPress, browsers |
| Lifecycle: `LoadUserLogin`, `Connect`, `Disconnect`, `startPolling`, `LogoutRemote` | login row, client object with its token, poll loop, `pollCancel`, `stopOnce` | load, validate, register, start and stop the poll loop, sign out | framework, which holds the rows and the clients |
| Bridge context: `deriveBridgeContext` in `pkg/bot/handlers.go`, `deriveBridgeContextFromPortal` in `pkg/connector/client.go` | the bot's room-kind cache | look up, ask the homeserver, remember | bot handlers, homeserver |
| Callback and webhook URLs: `pkg/connector/helpers.go`, `server.go`, `login.go` | none | three derivations of `callback_url`, the server's routes | connector login, outbound delivery, WordPress |
| WordPress clients: `pkg/wordpress/client.go`, `pkg/connector/client.go` | none | one HTTP call each | WordPress |
| Media helpers, profile information, `main.go` | none | pure derivations, start-up | |

What is hard about it:

* **Two delivery paths.** A message may come by webhook, by poll, and again by
  both after a lost acknowledgement. Only the event id (the WordPress queue id,
  on both paths) keeps it from being shown twice.
* **Acknowledging what is only in memory.** A batch is acknowledged when it has
  been handed to the in-memory queue of a portal.
* **Filters that move.** Polls are filtered, and webhooks routed, by the session
  ids a login remembers *now*; `/new`, the idle TTL, timeouts and restarts
  change them under messages that are still pending.
* **State read early and used late.** A chat turn lasts up to minutes: the
  session slot, the login's site and the bot user's token may have changed when
  its response arrives.
* **Partial failure.** Saves, deletions and acknowledgements that fail are only
  logged; the user is told they succeeded.
* **Concurrent sign-ins.** Callback requests of several users run beside message
  handlers, and beside login processes that may not wait yet or no longer.
* **Goroutines with a life of their own.** `Connect` and the poll loop of a login
  are stopped through a cancel function the loop itself stores; a `Disconnect`
  that comes earlier stops nothing, and a second one does nothing at all.

The complete list is under `hazards` in `PROJECT.json`, each at its line, with
the properties that watch it or the reason why none does yet.

## 2. Modules

| Module | Models |
|---|---|
| `Inbox` | abstract promise of outbound delivery: a message is offered, held, shown once in its owner's room, and settled only while held or shown |
| `Delivery` | poller, webhook, portal queues, acknowledgements, sessions and crashes; implements `Inbox` |
| `SessionMemory` | the session ids a login knows, and all that can happen to them |
| `DeliveryProofs` | theorems about `Delivery` |
| `SessionSlot` | what a portal's entry in the session maps goes through; shared by the two chat modules |
| `ConnectorChat` | `HandleMatrixMessage`; implements `SessionMemory` |
| `ConnectorChatProofs` | theorems about `ConnectorChat` |
| `Account` | abstract promise of signing in: a token enters service once, for the login of the user it was issued to, and is polled with only in service |
| `ConnectorLogin` | login processes, pending logins and the callback handler of the connector |
| `Lifecycle` | extends `ConnectorLogin` with login rows, clients, `Connect`, poll loops, `Disconnect`, `LogoutRemote`; implements `Account` |
| `LifecycleProofs` | theorems about `ConnectorLogin` and `Lifecycle` |
| `BotAuth` | token store, pending logins and callback requests of the bot |
| `BotChat` | extends `BotAuth` with the bot's message handlers |
| `BotAuthProofs` | theorems about `BotAuth` and the tokens of `BotChat` |
| `BotChatProofs` | theorems about the handlers of `BotChat` |
| `BotRoom` | extends `BotChat` with the bridge context: who is in the room, asked once |
| `BotRoomProofs` | theorems about `BotRoom`, and that it implements `BotChat` |
| `CallbackURL` | what is computed from `callback_url`, and what the server then does with requests |
| `CallbackURLProofs` | when the computations agree |
| `MCDelivery`, `MCConnectorChat`, `MCLifecycle`, `MCBotChat`, `MCBotRoom`, `MCCallbackURL` | instances for TLC |

`Delivery` keeps of chat and of signing in what its properties need: session
ids that come and go, a webhook that finds its login. The former are the steps of
`SessionMemory`, which `ConnectorChat` implements, so that nothing a handler does
to the session ids is missing in `Delivery`; `Lifecycle` has the details of the
latter.

### Delivery

| Model | Code |
|---|---|
| `wp`, `acks` | WordPress' pending queue; acknowledgements under way (external) |
| `session`, `saved` | `UserLoginMeta.SessionIDs` of the login's portal, and as last saved |
| `todo`, `ackIDs` | per poll loop, the rest of the batch `pollOnce` iterates, and its `ackIDs`; `LoginOf` is the login a loop polls for |
| `hook` | `handleWebhook` requests: pushed, routed to a login, queued |
| `portal`, `db`, `room` | event queue of the portal, its message table, what the room shows (framework, external) |
| `PollFetch`, `PollQueue`, `PollAck` | the three stages of `pollOnce`; queueing blocks while the queue is full |
| `WebhookPush` ... `WebhookAck` | `handleWebhook`, `HandleIncomingPendingMessage`, `deliverPendingMessage`; `WebhookRefuse` is the 502 |
| `Session`: `OpenSession`, `RememberSession`, `ForgetSession`, `SaveSession` of `SessionMemory` | what chat turns, `/new` and rotation do to the session ids; a save is a step of its own and saves what is remembered by then |
| `Crash` | everything in memory is lost, metadata is loaded as last saved (`ReloadSessions`) |

A message is a model value that stands for its queue id. A site or agent slug is
a value or `Wild` for the empty string, which matches anything on either side.
Session ids of two agents may coincide (they are chosen by different agents'
stores); the assumption `ScopesAssumption` says that then their site or agent
slug tells them apart. This leaves out ids that coincide while a slug is empty:
then the code takes the first login in the order of a Go map. The code looks
neither at the result of `QueueRemoteEvent` (poller.go:66, server.go:253) nor at what
becomes of the event; the model assumes that the framework takes every event in
the end, saves it and sends it, so `AckedNotLost`, `OnlyCrashesLose` and
`NoLossWithoutCrash` are about what the bridge does. An acknowledgement removes a
message only under the token it is queued for (`AckBy`), and may be lost at any
time. A login may have
several poll loops (`Pollers`, `LoginOf`): one that signed in again, or was
reconnected, can have an earlier client's beside its own (see `Lifecycle`).
`Lost`, on which `OnlyCrashesLose` is stated, is the set of messages that
WordPress was told to drop and the bridge neither holds nor has shown.

### ConnectorChat

A turn is one Matrix event. Its `pc` follows the handler: `begun` (typing is
on), `resetting`, `sending`, `saving`, `continuing`, `concluding`, `done`. The
framework normally handles a room's events one after the other; a handler that
runs long is left to finish in the background, and asynchronous handling can be
configured, so `Overlap` is a parameter. WordPress handles a request on its own
time (`WordPressAnswers`), whether or not the bridge still waits: that is how a
timeout leaves a session behind. A save may fail (`SaveFails`), which the
handler only logs; `unsaved` says that the last one did. `retired` is a history
variable: the sessions that a confirmed `/new`, a rotation, or a restart that
found an older one gave up, and that were not taken up again since, by the
answer to an overlapping turn or by a restart after a failed save. So
`RetiredNeverSent` says that what is sent to is what the slot was last given,
and `GivenUpStays` when a session can come back. Time is abstracted to the age
of the slot (`recent` or `stale` against the TTL); `Config.UnmarshalYAML` is the
operator `SessionIdleTTL`.

`typing` is the set of ghosts the homeserver shows as typing. A ghost's name is
made of the agent's slug and the site's host (`Ghost`): `Connect` may change the
slug (`ConnectRenames`), a logout empties the site (`LogoutRemote`), so that a
handler may clear another ghost than it set. With `TypingFails` a call may fail
(`SetAgentTypingFails`: the ghost is not found, or marking it fails; either is only
logged). The history
variable `stranded` collects the ghosts left typing by a failed clear, a change
of the name, or a crash, until they are cleared after all or the notification
times out (`TypingExpires`). What a handler queues for the portal, the confirmation
of `/new` and the answer (client.go:409, client.go:492), is left out: it changes
nothing here, and that queueing may block is in `Delivery`.

### ConnectorLogin and Lifecycle

| Model | Code |
|---|---|
| `step`, `user`, `pkce`, `token` | a `DataMachineLogin`: where it is, its user, its state, the token it got |
| `logins`, `resultCh` | `CallbackServer.logins` and the channel of each `PKCELoginState`, which has room for one |
| `CreateLogin` ... `SubmitUserInput`, `Cancel` | the process up to the link it shows; `Cancel` leaves the login registered |
| `HandleCallback` | `handleCallback`: pops the login of the state and sends without blocking, whatever the process does |
| `Wait`, `WaitReceives`, `WaitCancelled` ... `VerifyAgentAccess` | `Wait`: channel against context, then the two calls, each of which may fail |
| `NewLogin`, `NewLoginFails` | the end of `Wait`: row, client and `go Connect` |
| `login` | the login rows and the `Client` of each (framework, external) |
| `of`, `cred`, `conn`, `loop` | each `DataMachineClient`: its login, `agentToken`, where `Connect` and the poll loop are |
| `pollCancel`, `stopOnce`, `cancelled` | the fields of that name and the loop's context |
| `under` | the token a poll under way was sent with |
| `BadCredentials` ... `Connected` | `Connect` call by call |
| `StartPolling`, `PollFetch`, `PollAck`, `LoopStops` | `startPolling`; what `pollOnce` does in between is in `Delivery` |
| `Disconnect`, `LogoutRemote`, `Stop`, `LoadLogin`, `Crash` | end, reconnect and restart |

A token is a value WordPress issues once (`grantee`, `shownBy` are history: the
process whose link was followed). The login id is made of site and agent, so
two users of one agent end with the same one; that the framework refuses to give
one user another's row is taken as given. When a login replaces its client,
whether the framework disconnects the old one is left open, as is the moment at
which it loads rows after a restart: rows are loaded one by one, in any order,
and not necessarily. A client is created for a row when the user signs in and,
once per process, when the framework loads the row: one that is created anew
without a restart is not modelled.

### BotAuth and BotChat

`BotAuth` has the store (`tokens`), the pending logins (`logins`), and the
callback requests step by step: the login is taken (`CallbackArrives`), the code
exchanged, access verified, the token saved; each step can fail, and between the
steps anything else may happen. `linked` and `grantee` are history variables:
the user a link was sent to, and the user whose link led to a token. `BotChat`
adds a `pc` per message: resolution of the sender's token (or a login link, or
the shared token), `/logout`, `/new`, the image pipeline, and the turn proper, of
which reading the session id (`ReadSession`), the typing call (`StartTyping`) and the
request (`SendMessage`) are steps of their own, with other handlers in between.
`valid` is the set of tokens WordPress accepts; a request may also be refused
with a valid token, because `isAuthError` searches the whole error text. The
session store is not persisted, the token store is. `retired` and `refused` are
history variables: the sessions given up and not taken up again by the answer to
an overlapping turn, and the tokens a turn was refused with, but for one that
stayed in the store because deleting it failed. `stranded` is one, too: the rooms
where the bot is left typing by a call that failed (`UserTypingFails`, whose error
the code discards) or by a crash, until the notification times out
(`TypingExpires`). Remembering the session of an answer and touching the slot
(handlers.go:323-324) are one step.

### BotRoom

`BotRoom` inserts `deriveBridgeContext` between a turn's typing call and its
request: a cached kind (`RoomKindCached`), or a request to the homeserver
(`JoinedMembers`, which answers with the members of that moment or fails, and then
means "dm") followed by `StoreRoomKind`. Members join and leave at any time. `peak` and `raced` are history variables: the most members a
room has had, and whether two handlers asked about it at the same time. The
composition runs all of `BotChat`; a step of `BotRoom` is a step of `BotChat` or
leaves its variables alone.

### CallbackURL

A path is a sequence of segments and whether a slash follows. `CallbackPath` and
`WebhookPath` are what the server listens on, `webhookURLFromCallback` what
WordPress is given, `resolveCallbackURL` the redirect URI; `Route` is
`http.ServeMux`. `Push` and `Redirect` are requests sent to those URLs.

## 3. What the runs check

Properties that hold:

| Run | Instance | Shows |
|---|---|---|
| `delivery_duo` | 2 logins of one site whose sessions have one id, 2 messages, 2 poll loops of one login, 1 webhook request, queue of 2, 1 crash | no misrouting, no duplicate, no loss but by the crash, and the inductive invariant of the proofs |
| `delivery_live` | 1 login, 2 messages in 2 sessions, 1 webhook request, queue of 1, no crash, fairness | `Delivery` implements `Inbox`; nothing is acknowledged that is not held or shown; a message of the current session is shown; WordPress gets rid of what is shown |
| `chat_faults` | text, `/new`, text in any order, one after the other, with rotation, timeouts, saves that fail, logout, 1 crash | one active session besides those of turns the user saw fail; a session given up is not sent to, and comes back only by a restart after a failed save; the saved slot is the current one up to a failed save or an unsaved rotation, which is repeated after a restart; the inductive invariant of the proofs |
| `chat_overlap` | a text and a `/new` overlapping, saves and typing calls that fail, logout, a new agent slug, 1 crash, `session_idle_ttl: 0`, fairness | every turn ends; afterwards only ghosts are typing whose clearing failed, or which a logout, the new slug or the crash left behind; `ConnectorChat` implements `SessionMemory` |
| `bot_serial` | text, image, `/new` and `/logout` of one user in any order; 1 link, 2 tokens, store failures, typing calls that fail, timeouts, 1 crash | the bot is left typing on no exit, but where the call failed or the crash came first; a link is good for one exchange; no message is sent in a session that was given up (with the inductive invariant of the proofs) |
| `bot_two` | two users of a room, 4 overlapping turns (three of one user, one a `/new`), 2 links, 2 tokens, 2 concurrent callbacks, revocations, store failures | tokens end with the user the link was sent to and are used for nobody else, and a refused token that could be deleted is not used again (with the inductive invariants of the proofs) |
| `bot_rooms` | no callback server, shared token; an overlapping text and image in a room of up to 3 members, 1 crash, fairness | a room is called a group only if it has been one; until a restart one kind is reported, unless two handlers asked at once; every handler ends |
| `login_users` | 2 users, 2 login processes, 2 links, 2 tokens, 3 clients, one login id; reconnects, logouts and crashes at any point | `Lifecycle` implements `Account`; no token has two pollers; an acknowledgement goes out under the token of its poll or not at all; no answer is lost to a login that waits; the inductive invariant of the proofs |
| `login_live` | the same with one user and 2 clients, the site asked for, fairness | an answered login ends, a validated login gets its poll loop whatever else fails, a cancelled loop stops |

Properties the documentation, comments or messages of the repository state and
the code does not keep (each is a finding in `PROJECT.json`, with the quote):

| Run | What happens |
|---|---|
| `delivery_crashloss` | acknowledged while only in memory, then a crash: the message is lost |
| `bot_logoutrace` | a callback under way at `/logout` signs the user in again |
| `url_anypath` | for a `callback_url` that does not end in `/callback`, WordPress is given a webhook URL the bridge answers with 404, or takes for a login |

Other deviations the models contain and no run is spent on: a response that is
pending in a session its login has left is filtered out of every later poll
(`PendingIsShown` has the current session as its premise, client.go:771); with
`Overlap`, an answer that arrives after `/new` restores the old session
(`GivenUpStays` fails, client.go:442); a bot turn that is refused with an
old token deletes the newer one its user has got meanwhile (handlers.go:313);
a `Disconnect` before the poll loop has stored its cancel function stops
nothing, and `stopOnce` keeps later ones from doing so (a loop that is not
`cancelled` is not promised to end, poller.go:16); a room counts as "dm" for "exactly 2 joined
members" (handlers.go:419) and in the code for fewer, too (handlers.go:460);
`callback_url` with the path `/webhook` registers one pattern twice and the
server panics (`Start`, server.go:77); a `/new` whose save fails is
confirmed, and a restart restores the session (the second case of
`GivenUpStays`, client.go:392); a first turn that times out leaves a
session at WordPress the room does not know, which is why `OneActiveSession` sets
the sessions of failed turns aside (client.go:435); `session_idle_ttl: 0` means 24
hours and not "disabled" (`SessionIdleTTL`, config.go:60); after a logout
or a new agent slug in the middle of a turn, a crash, or a failed call, the
agent's ghost is left typing for up to 120 seconds, and the bot after a crash or
a failed call (`stranded`, the exceptions of `TypingStops`, client.go:474,
handlers.go:162); with `Overlap`, a bot handler sends its message in a session that
a `/new` or `/logout` gave up after the id was read, because two calls to the
homeserver lie in between (handlers.go:299-306; `RetiredNeverSent` fails with
overlapping handlers and is claimed of serial ones); with `StoreFails`, a `/logout` whose
deletion fails is confirmed (`LogoutSticks` fails, handlers.go:93).

### Bounds

Every bound is a constant: `EventBuffer`, `MaxCrashes`, `MaxContinueTurns`,
`MaxMembers` and the sizes of the sets. Two messages and two logins are the least with which a
message can go to the wrong place, overtake another, or fill a queue; a queue of
1 makes the poller block between two messages of a batch. Two poll loops are
the least that can fetch the same message; they are symmetric in `delivery_duo`,
which has no liveness property. One webhook request
races the poller, and is repeated as often as WordPress likes; two at the same
time are covered by the proofs, which hold for any set of requests. One crash can
fall between any two steps. `MaxContinueTurns` is 1 or 2 instead of 20: the loop
has one branch per iteration and the counter is compared with the bound only
(`bot_two`, about tokens, goes without it). Calls that set or clear a typing
indicator fail in the two runs that check `TypingStops`, and the indicator does
not run out in `bot_rooms` (`TypingTimesOut`); nothing else depends on it. Three turns let a session be opened,
given up, and used again, and let a user sign in, be refused, and write once
more. Sessions are as many as turns that can open one. Two processes, links and
tokens let one user sign in beside another or again; three clients are those of
both and one that is loaded after a reconnect. Users, processes, links, tokens
and clients are symmetric in `login_users`, which has no liveness property. Three
members are the least that make a group. Paths of up to two segments reach every
case of the URL computations, which look at the last segment and the slash only.
`Lifecycle` has no bound on crashes: clients are used up instead. Deadlock is not checked:
when all turns are done, all messages settled and all links used, the models
stop, because they have finitely many of each.

### Fairness

`Delivery`: the ticker of each poll loop fires for ever and the portal loop keeps taking
events (weak fairness of `Poller` and `HandleRemoteEvent`); a webhook request
that has arrived runs to its end; acknowledgements that are sent again and
again get through (strong fairness of `WPAck`). WordPress is never obliged to
push. `ConnectorChat` and `BotChat`: a handler that has started keeps running,
because every HTTP call has a client timeout (`httpClientWithTimeout`,
`download_timeout`, `upload_timeout`) and the continue loop is counted; in
`BotRoom` the request for the members, with the timeout of the Matrix client,
is one of its steps. `Lifecycle`: once a result is in the channel the process goes
on (`SignIn`), `Connect` and the poll loop are goroutines that run and whose
calls have timeouts, and the ticker ticks. Nothing is assumed about users,
browsers, reconnects or WordPress' answers.

## 4. What is proved

`DeliveryProofs` proves, for all values of the constants that satisfy
`ConstantsAssumption` and `ScopesAssumption`:

| Theorem | States |
|---|---|
| `InductiveInvariant` | `Spec => []IInv` |
| `TypeCorrect` | `Spec => []TypeOK` |
| `NoDuplicate` | `Spec => []ShownAtMostOnce`, crashes included |
| `NoMisrouting` | `Spec => []RoutedToOwner` |
| `NoLossWithoutCrash` | `MaxCrashes = 0` implies `Spec => []AckedNotLost` |
| `CrashesAloneLose` | `Spec => OnlyCrashesLose`: with any number of crashes, no other step loses a message |
| `Refinement` | `Spec => ImplementsInbox` |

The argument. None of the safety properties is inductive alone. "A room shows no
message twice" needs that the database knows exactly the ids of what is shown
(`RoomsRecorded`) and that every event in a queue goes by its message's own id
(`PortalsOwned`). Routing to the owner needs that whatever a poller or a webhook
carries is with its owner already (`PollerOwned`, `HooksOwned`), which for the
webhook rests on the sessions a login can know (`SessionsOwned`) and on
`ScopesAssumption`. "Acknowledged is not lost" needs that every id waiting to be
acknowledged is queued or shown (`PollerOwned`, `HooksOwned`) and that the portal
loop moves a message from the queue to the room in one step; without the bound
on crashes the same facts give `CrashesAloneLose`, step by step. None of this
depends on how many loops poll for a login: what two of them fetch goes in both
by the same id. `IInv` is the
conjunction; it was checked by TLC (`delivery_duo`) before it was proved, one
lemma per group of actions. The refinement maps `held` to "queued and not yet
shown" and `settled` to acknowledgements sent or handled; each action is mapped
to a step of `Inbox` or a stutter, and acknowledging is a legal `Settle` only
because of `IInv`.

`BotAuthProofs` proves about the bot, for all users, links, tokens, callback
requests and turns that satisfy `AuthAssumption` and `BotAssumption`:

| Theorem | States |
|---|---|
| `LinkUsedOnce` | `Spec => []StateUsedOnce` |
| `StoredTokenIsOwn` | `Spec => []TokenOfUser` |
| `SentWithOwnToken` | `Spec => []ClientOfSender` |
| `AuthOwned` | `Spec => []AuthInv` |

The argument. A link is in exactly one place: not sent, pending, carried by one
request, or spent (`LinksFresh`, `PoppedOnce`), so its code is exchanged once. A
pending login and a request carry the user the link was sent to
(`CallbacksOwned`), a granted token that user (`GrantsOwned`), and the store gets
it from the request. `AuthInv` is the conjunction, checked by TLC
(`bot_two`) before it was proved: one lemma per action
of `BotAuth`, one that the other handlers of `BotChat` leave its variables alone.
That a turn holds its sender's token (`ChatInv`) follows from `TokenOfUser` at the
moment of resolution, and because a grant never changes hands (`GrantsStay`).

`BotChatProofs` extends it and proves about the handlers:

| Theorem | States |
|---|---|
| `TypeCorrect` | `Spec => []TypeOK` |
| `TypingEnds` | `Spec => []TypingStops`: a room is typing after its handlers have ended only if it is `stranded`; overlapping handlers, failing calls and crashes included |
| `TypingEndsUndisturbed` | `~TypingFails` and `MaxCrashes = 0` imply that no room is typing after its handlers have ended |
| `TurnsOnlyAdvance` | `Spec => TurnsAdvance`: a handler takes at most `MaxContinueTurns + 9` steps |
| `ReadsInUse` | a handler reads a session id that is not `retired`, overlapping handlers included |
| `NeverSentAgain` | `~Overlap` implies `Spec => RetiredNeverSent` |
| `SessionsInvariant` | `~Overlap` implies `Spec => []SessionsInv` |
| `StaysGivenUp` | `~Overlap` implies that `retired` only grows |
| `TokensInvariant` | `Spec => []TokensInv`, store failures included |
| `RefusedStaysOut` | `Spec => RefusedNotResolved`, store failures included |

The argument. A room is typing only while a turn of it is past its checks, or if
it is `stranded`: every exit from there clears it or strands it by a call that
fails, and a crash strands all that are typing (`TypingInv`). Where neither
happens `stranded` stays empty (`TypingEndsUndisturbed`). Every step of a handler leads to a
later place of `Place` or counts a call to continue, so that `Rank` decreases.

For sessions, a slot holds a session of that room that was not given up, and a
turn was sent with one of its room (`RoomsInv`): a rotation retires everything
the room has and the id is read after it (`ReadsInUse`). That much survives
overlapping handlers, because an answer takes the session it names out of
`retired`; that the id is still in use when the message is sent does not. With
`~Overlap` nothing is retired while a turn has its id or waits (`SessionsInv`): a
message is sent in a session that is in use (`NeverSentAgain`), and a session that
was given up stays so (`StaysGivenUp`), so that it is never sent to again.

For tokens, one that a request has just been granted is nowhere else yet, so a
refused token cannot be stored again by a late callback; and because the
sender is the only user a token can be stored for (`ClientOfSender`,
`TokenOfUser`), deleting the sender's token removes it for good. Where the
deletion fails the token stays in the store and does not count as `refused`.

`BotRoomProofs` proves about the composition, for all rooms, turns and members
that satisfy `RoomAssumption` beside the assumptions of the bot:

| Theorem | States |
|---|---|
| `RoomInvariant` | `RoomSpec => []RoomInv` |
| `GroupsAreReal` | `RoomSpec => []GroupWasGroup` |
| `OneKind` | `RoomSpec => []OneKindPerRoom` |
| `ImplementsBotChat` | `RoomSpec => Spec`: what is proved of `BotChat` holds of the composition |

The argument. A kind reaches WordPress by the answer of a request or by the
cache, so each of the two must be known to say "group" only of a room that was
one (`GroupsKnown`). For `OneKindPerRoom` the cache must agree with every turn
already derived, and must be empty while a turn asks, which is then the only one
(`CacheDecides`); both hold until two handlers ask at once or the cache is lost.

`ConnectorChatProofs` proves, for all turns, sessions, TTLs and crashes that
satisfy `ChatAssumption`:

| Theorem | States |
|---|---|
| `TypeCorrect` | `Spec => []TypeOK` |
| `TypingEnds` | `Spec => []TypingStops`: once no handler runs, every ghost that is typing is `stranded` |
| `TypingEndsUndisturbed` | `~TypingFails`, `~Logouts`, `~Renames` and `MaxCrashes = 0` imply that no ghost is typing once no handler runs |
| `TurnsOnlyAdvance` | `Spec => TurnsAdvance`: a handler takes at most `MaxContinueTurns + 5` steps |
| `NeverSentAgain` | `Spec => RetiredNeverSent` |
| `SavedCurrent` | `Spec => []SavedIsCurrent` |
| `RefinesMemory` | `Spec => ImplementsMemory` |
| `SerialInvariant` | `~Overlap` implies `Spec => []SerialInv` |
| `OneSession` | `~Overlap` implies `Spec => []OneActiveSession` |
| `StaysGivenUp` | `~Overlap` implies `Spec => GivenUpStays` |
| `SavesSucceed` | `~SaveFails` implies `Spec => [](unsaved = FALSE)` |

Those without a condition hold however handlers overlap, time out, fail to save,
or crash. `~Overlap` is how the framework handles a room by default, and needed
where it is assumed: TLC finds a violation of `OneActiveSession` and of `GivenUpStays`
when it is dropped. `SavesSucceed` says that where saves do not fail, the
exceptions of `SavedCurrent` and `StaysGivenUp` for a failed save are empty.

The argument for `TypingEnds` is that while handlers run the current ghost may be
typing, and every other one that is has been stranded (`TypingInv`): each exit
clears the current one or strands it, and a change of the name strands all.

The argument for `NeverSentAgain` is `RetiredIsStale` alone: a given-up session in
the slot is found stale, and rotated before the id is read, and one in the
database is stale too, or there because a save failed, in which case a restart
takes it up and gives up the others. This is what makes a rotation safe although
it is not saved. It is also what `SavedCurrent` needs: a handler that changes the
slot saves it before it goes on, but for a rotation, and what is rotated in
memory is stale in the database.

The argument for the theorems with `~Overlap` is one invariant, `SerialInv`,
checked by TLC in `chat_faults` first. Four copies of a session id are about in
a turn: the slot, the slot as saved, the id the turn was sent with and the id of
the answer. `SlotsKnown` says which of them agree at each step of the handler,
unless the last save failed. `AnswersCurrent` says that neither the session a
turn waits under nor that of its answer is given up meanwhile, so that nothing
comes back by an answer. `LiveIsCurrent` says where the one live session is,
which at a reset is the saved slot (if the last save did not fail) and during a
request the id in flight; a crash loses the latter, and the turn becomes one the
user saw fail. Since only one turn is active (`TurnsKnown`), a single lemma
(`ActiveStep`) reduces each action to what it does to its own turn; late answers
to turns that have ended are the case left over (`AnswerSerial`).

`TurnsOnlyAdvance` is the part of `TurnEnds` that is not about fairness: `Rank`, the
places a turn has before it plus the calls it may still make, is a natural number
that every step of its handler decreases and no other step increases.

`RefinesMemory` needs none of this: that an answer names a session WordPress has
opened (`KnownIds`) is enough to map each action to one step of `SessionMemory` or
a stutter. It also covers what the two turns of `chat_overlap` do not reach, an
answer that opens a session while a later text is served in another one.

`LifecycleProofs` proves, for all users, processes, links, tokens, clients and
logins that satisfy `LoginAssumption` and `LifecycleAssumption`:

| Theorem | States |
|---|---|
| `LifecycleInvariant` | `Spec => []LifecycleInv` |
| `OnePoller` | `Spec => []OnePollerPerToken` |
| `AckTokenStable` | `Spec => []AckUnderFetchToken` |
| `AnswerKept` | `Spec => []AnswerNotLost` |
| `RefinesAccount` | `Spec => ImplementsAccount` |

The argument. A token goes from one link (`LinksOwned`) through one process
(`TokensOwned`) into one row and one client (`LoginsOwned`, `ClientsOwned`). Nothing
stops an old poll loop for sure, so that no two clients poll with one token
rests on the tokens alone: a new login brings a new one, a client loaded after a
restart takes the row's, which nobody holds then, and a logout empties the
client's. `AnswerNotLost` is part of the invariant because the channel must be
empty while the login is registered, so that the send which never blocks never
drops. Each action maps to one step of `Account` or a stutter: the
exchange to `Issue`, `NewLogin` to `SignIn`, `LoadLogin` to `Resume`, a poll to `Poll`
and `PollEnds`.

`CallbackURLProofs` proves `CallbackPathsAgree`: for every set of paths that end in
`/callback` without a slash, below any prefix, `PushesArrive` and `LoginsReturn`
are invariants. `url_anypath` shows what becomes of the other paths.

Every invariant and every safety property of the passing runs is a theorem.
Only model-checked are the liveness properties (`PendingIsShown`, `ShownIsAcked`,
`TurnEnds`, `AnsweredLoginEnds`, `ValidatedPolls`, `CancelledLoopEnds`), because fairness
and `ENABLED` are out of the prover's reach, and the violations. Of `TurnEnds`,
`TurnsOnlyAdvance` proves what is needed beside fairness and the fact that a
handler that has not ended can take a step.

## 5. What is not modelled

* `main.go` and the mode selection: sequential start-up with no state. Profile and
  room information (`GetChatInfo`, `GetUserInfo`, capabilities): values built for
  the framework from metadata, without state or effect.
* The connector's `deriveBridgeContextFromPortal`: a function of the portal row,
  without a cache. The identity, pending and ack calls of `pkg/wordpress/client.go`,
  which the bot never makes.
* The framework and WordPress are external. The portal loop is assumed to drop a
  message whose id it has, and to process a queue in order; rows to belong to one
  user; WordPress to answer in the session it is given, to scope acknowledgements
  by token, and to queue messages for sessions it has opened. `LogoutRemote` and
  the deletion of the row that follows are one step: a webhook in between, which
  would find a login whose site is empty, is not modelled.
* Go data races: the session maps of the connector, `pollCancel` and `agentToken`
  are shared without a lock. A runtime abort is covered by `Crash`, a stale read
  of `pollCancel` by a `Disconnect` that finds none; torn values are not modelled.
* Contents: texts, HTML, JSON, file names and mime types decide nothing the
  properties are about, beyond accepted or refused. Of URLs only the path is
  modelled.

## 6. Plan

1. `Delivery`, `Inbox`, `DeliveryProofs` (done).
2. `SessionSlot`, `ConnectorChat`, `BotAuth`, `BotChat`, `BotAuthProofs` (done).
3. `ConnectorLogin`, `Lifecycle`, `Account`, `LifecycleProofs` (done).
4. `BotRoom`, `CallbackURL` and their proofs (done).
5. `ConnectorChatProofs`, `BotChatProofs` (done).
6. `SessionMemory`, which `ConnectorChat` implements and `Delivery` is built on
   (done).
7. Theorems for overlapping handlers, failed saves and several poll loops of a
   login; that handlers only advance (done).
8. `Delivery` on top of `Lifecycle`: polls under a token that may be replaced. So
   far `Delivery` lets a login have several loops, and `AckUnderFetchToken` of
   `Lifecycle` says that none acknowledges under another token than it fetched
   with.

## 7. Running

    tlc -workers 2 -config MCDelivery_duo.cfg MCDelivery.tla
    tlapm DeliveryProofs.tla

The modules with proofs are those whose names end in `Proofs`.

Each run of `PROJECT.json` names its module and configuration. Operators whose
comment begins with "Mutant of" are plausible mistakes; replacing the operator
they belong to by one of them makes the property listed under `mutants` fail.
