------------------------------- MODULE BotChat -------------------------------
(***************************************************************************)
(* The bot of bot mode (pkg/bot): message handlers beside the callback     *)
(* server of BotAuth.  A turn is one Matrix message; its handler resolves  *)
(* the sender's token or sends a login link, obeys /new and /logout, runs  *)
(* an image through checks, download and upload, and holds the AI turn     *)
(* under the room's session.  The syncer runs handlers one after the       *)
(* other; a message that was decrypted late is handled beside them:        *)
(* Overlap.                                                                *)
(***************************************************************************)
EXTENDS BotAuth

CONSTANTS Turns,
          Sender,            \* the user who sent a message
          Room,              \* the room it was sent to
          Kind,              \* "text", "image", "new" or "logout"
          Sessions, NoSession,
          MaxContinueTurns,  \* 20 in the code
          CallbackServer,    \* callback_url is set
          MediaEnabled,
          Overlap,
          TypingFails,       \* a call that sets or clears a typing indicator may fail
          TypingTimesOut,    \* a typing notification may run out
          MaxCrashes

ASSUME BotAssumption ==
    /\ Sender \in [Turns -> Users]
    /\ Kind \in [Turns -> {"text", "image", "new", "logout"}]
    /\ {CallbackServer, MediaEnabled, Overlap, StoreFails} \subseteq BOOLEAN
    /\ {TypingFails, TypingTimesOut} \subseteq BOOLEAN
    /\ NoSession \notin Sessions
    /\ MaxContinueTurns \in Nat
    /\ MaxCrashes \in Nat

INSTANCE SessionSlot

Rooms == {Room[t] : t \in Turns}

VARIABLES
    pc, client, sid, reply, turn, outcome,   \* the handler of each turn
    store,      \* SessionStore: each room's slot, in memory only
    typing,     \* rooms the bot is shown as typing in
    stranded,   \* those of them that a failed call or a crash left behind (history)
    opened,     \* sessions WordPress has created
    retired,    \* sessions of a room given up by a /new, /logout or rotation, and
                \* not taken up again by the answer to an overlapping turn
    roomOf,     \* the room a session was created for
    refused,    \* tokens a turn was refused with, but for one that stayed in the
                \* store when deleting it failed
    loggedOut,  \* users told they are disconnected, who did nothing to sign in since
    crashes

turnVars == <<pc, client, sid, reply, turn, outcome>>
typingVars == <<typing, stranded>>
wpVars   == <<opened, retired, roomOf, refused>>
vars == <<authVars, turnVars, store, typingVars, wpVars, loggedOut, crashes>>

NoReply == [session |-> NoSession, completed |-> FALSE, text |-> FALSE]

Init ==
    /\ AuthInit
    /\ pc = [t \in Turns |-> "idle"]
    /\ client = [t \in Turns |-> NoToken]
    /\ sid = [t \in Turns |-> NoSession]
    /\ reply = [t \in Turns |-> NoReply]
    /\ turn = [t \in Turns |-> 0]
    /\ outcome = [t \in Turns |-> "none"]
    /\ store = [r \in Rooms |-> EmptySlot]
    /\ typing = {}
    /\ stranded = {}
    /\ opened = {}
    /\ retired = {}
    /\ roomOf \in [Sessions -> Rooms]
    /\ refused = {}
    /\ loggedOut = {}
    /\ crashes = 0

Active(t) == pc[t] \notin {"idle", "done"}

Goto(t, step) == pc' = [pc EXCEPT ![t] = step]

Done(t, how) == Goto(t, "done") /\ outcome' = [outcome EXCEPT ![t] = how]

\* The code does not look at the result of the call: what was to be cleared
\* stays as it is.
UserTypingFails(r, on) ==
    /\ TypingFails
    /\ stranded' = IF on THEN stranded ELSE stranded \cup (typing \cap {r})
    /\ UNCHANGED typing

UserTyping(r, on) ==
    \/ /\ typing' = IF on THEN typing \cup {r} ELSE typing \ {r}
       /\ stranded' = stranded \ {r}
    \/ UserTypingFails(r, on)

ClearRoom(r) ==
    /\ store' = [store EXCEPT ![r] = ClearSession(@)]
    /\ retired' = retired \cup {s \in opened : roomOf[s] = r}

-----------------------------------------------------------------------------
\* handleTextMessage and the head of handleImageMessage.

Begin(t) ==
    /\ pc[t] = "idle"
    /\ Overlap \/ \A u \in Turns : ~Active(u)
    /\ IF Kind[t] = "image" /\ ~MediaEnabled
       THEN Done(t, "dropped")
       ELSE Goto(t, "begun") /\ UNCHANGED outcome
    /\ UNCHANGED <<authVars, client, sid, reply, turn, store, typingVars, wpVars, loggedOut,
                   crashes>>

\* /logout needs no token.  It confirms even if the token was not deleted.
Logout(t) ==
    /\ pc[t] = "begun"
    /\ Kind[t] = "logout"
    /\ DeleteToken(Sender[t])
    /\ ClearRoom(Room[t])
    /\ loggedOut' = loggedOut \cup {Sender[t]}
    /\ Done(t, "disconnected")
    /\ UNCHANGED <<logins, callback, linked, exchanges, grantee, valid, client, sid, reply,
                   turn, typingVars, opened, roomOf, refused, crashes>>

\* Mutant of ResolveUserClient: a token is kept for the room, not the sender.
ResolveAnyClient(t) ==
    /\ pc[t] = "begun"
    /\ Kind[t] # "logout"
    /\ \E u \in Users :
          /\ tokens[u] # NoToken
          /\ client' = [client EXCEPT ![t] = tokens[u]]
          /\ Goto(t, "resolved")
    /\ UNCHANGED <<authVars, sid, reply, turn, outcome, store, typingVars, wpVars, loggedOut,
                   crashes>>

\* The sender's own token, or the token everybody shares where nobody can
\* sign in.
ResolveUserClient(t) ==
    LET token == IF tokens[Sender[t]] = NoToken /\ ~CallbackServer
                 THEN GlobalToken ELSE tokens[Sender[t]]
    IN  /\ pc[t] = "begun"
        /\ Kind[t] # "logout"
        /\ token # NoToken
        /\ client' = [client EXCEPT ![t] = token]
        /\ Goto(t, "resolved")
        /\ UNCHANGED <<authVars, sid, reply, turn, outcome, store, typingVars, wpVars, loggedOut,
                       crashes>>

ResolveWithLink(t) ==
    /\ pc[t] = "begun"
    /\ Kind[t] # "logout"
    /\ tokens[Sender[t]] = NoToken
    /\ CallbackServer
    /\ StartAuthFlow(Sender[t])
    /\ loggedOut' = loggedOut \ {Sender[t]}
    /\ Done(t, "link sent")
    /\ UNCHANGED <<tokens, callback, exchanges, grantee, valid, client, sid, reply, turn,
                   store, typingVars, wpVars, crashes>>

\* The store cannot be read, no randomness, or nothing is configured.
ResolveFails(t) ==
    /\ pc[t] = "begun"
    /\ Kind[t] # "logout"
    /\ \/ StoreFails
       \/ tokens[Sender[t]] = NoToken /\ (CallbackServer \/ GlobalToken = NoToken)
    /\ Done(t, "not resolved")
    /\ UNCHANGED <<authVars, client, sid, reply, turn, store, typingVars, wpVars, loggedOut,
                   crashes>>

Reset(t) ==
    /\ pc[t] = "resolved"
    /\ Kind[t] = "new"
    /\ ClearRoom(Room[t])
    /\ Done(t, "reset")
    /\ UNCHANGED <<authVars, client, sid, reply, turn, typingVars, opened, roomOf, refused,
                   loggedOut, crashes>>

-----------------------------------------------------------------------------
\* The image path.

ImageBegins(t) ==
    /\ pc[t] = "resolved"
    /\ Kind[t] = "image"
    /\ UserTyping(Room[t], TRUE)
    /\ Goto(t, "fetching")
    /\ UNCHANGED <<authVars, client, sid, reply, turn, outcome, store, wpVars, loggedOut,
                   crashes>>

\* Too large as announced or as downloaded, not downloadable, wrong type.
ImageRefused(t) ==
    /\ pc[t] = "fetching"
    /\ UserTyping(Room[t], FALSE)
    /\ Done(t, "image refused")
    /\ UNCHANGED <<authVars, client, sid, reply, turn, store, wpVars, loggedOut, crashes>>

ImageFetched(t) ==
    /\ pc[t] = "fetching"
    /\ Goto(t, "uploading")
    /\ UNCHANGED <<authVars, client, sid, reply, turn, outcome, store, typingVars, wpVars,
                   loggedOut, crashes>>

ImageUploaded(t) ==
    /\ pc[t] = "uploading"
    /\ client[t] \in valid
    /\ Goto(t, "ready")
    /\ UNCHANGED <<authVars, client, sid, reply, turn, outcome, store, typingVars, wpVars,
                   loggedOut, crashes>>

-----------------------------------------------------------------------------
\* runChatTurn.

Ready(t) == pc[t] = "ready" \/ (pc[t] = "resolved" /\ Kind[t] = "text")

\* Mutant of ReadSession: the session id is read before the rotation.
ReadSessionOfOldSession(t) ==
    LET r == Room[t]
    IN  /\ Ready(t)
        /\ IF IsSessionExpired(store[r]) THEN ClearRoom(r) ELSE UNCHANGED <<store, retired>>
        /\ sid' = [sid EXCEPT ![t] = store[r].id]
        /\ Goto(t, "read")
        /\ UNCHANGED <<authVars, client, reply, turn, outcome, typingVars, opened, roomOf,
                       refused, loggedOut, crashes>>

\* Rotation, and the session id the message will be sent with.
ReadSession(t) ==
    LET r == Room[t]
    IN  /\ Ready(t)
        /\ IF IsSessionExpired(store[r]) THEN ClearRoom(r) ELSE UNCHANGED <<store, retired>>
        /\ sid' = [sid EXCEPT ![t] = store'[r].id]
        /\ Goto(t, "read")
        /\ UNCHANGED <<authVars, client, reply, turn, outcome, typingVars, opened, roomOf,
                       refused, loggedOut, crashes>>

StartTyping(t) ==
    /\ pc[t] = "read"
    /\ UserTyping(Room[t], TRUE)
    /\ Goto(t, "deriving")
    /\ UNCHANGED <<authVars, client, sid, reply, turn, outcome, store, wpVars, loggedOut,
                   crashes>>

\* The bridge context is derived (BotRoom) and the message sent with the id that
\* was read, though an overlapping handler may have given it up by now.
SendMessage(t) ==
    /\ pc[t] = "deriving"
    /\ Goto(t, "sending")
    /\ UNCHANGED <<authVars, client, sid, reply, turn, outcome, store, typingVars, wpVars,
                   loggedOut, crashes>>

\* WordPress answers in the session it was given, in one it creates, or names
\* none.
AnswerSessions(t) ==
    {NoSession} \cup (IF sid[t] # NoSession THEN {sid[t]}
                      ELSE {s \in Sessions \ opened : roomOf[s] = Room[t]})

\* The answer is remembered and the slot touched in one step.  What an answer
\* that is not received leaves behind is in RequestFails.
SendReturns(t) ==
    /\ pc[t] = "sending"
    /\ client[t] \in valid
    /\ \E s \in AnswerSessions(t), completed, text \in BOOLEAN :
          /\ reply' = [reply EXCEPT ![t] = [session |-> s, completed |-> completed,
                                            text |-> text]]
          /\ opened' = opened \cup ({s} \ {NoSession})
          /\ IF s = NoSession THEN UNCHANGED store
             ELSE store' = [store EXCEPT ![Room[t]] = TouchPortal(RememberSessionID(@, s))]
          /\ retired' = retired \ {s}
    /\ Goto(t, "continuing")
    /\ UNCHANGED <<authVars, client, sid, turn, outcome, typingVars, roomOf, refused, loggedOut,
                   crashes>>

\* Mutant of RequestRefused: the typing indicator is left to time out.
RequestRefusedTyping(t) ==
    /\ pc[t] \in {"uploading", "sending"}
    /\ DeleteToken(Sender[t])
    /\ refused' = refused \cup ({client[t]} \ {tokens'[Sender[t]]})
    /\ Done(t, "expired")
    /\ UNCHANGED <<logins, callback, linked, exchanges, grantee, valid, client, sid, reply,
                   turn, store, typingVars, opened, retired, roomOf, loggedOut, crashes>>

\* Mutant of RequestRefused: the refused token is kept.
RequestRefusedKeeping(t) ==
    /\ pc[t] \in {"uploading", "sending"}
    /\ refused' = refused \cup {client[t]}
    /\ UserTyping(Room[t], FALSE)
    /\ Done(t, "expired")
    /\ UNCHANGED <<authVars, client, sid, reply, turn, store, opened, retired, roomOf,
                   loggedOut, crashes>>

\* The upload or the message fails with 401 or 403, or with an error whose text
\* contains one: the sender's stored token goes, whichever it is by now.  That
\* it could not be deleted is not noticed.
RequestRefused(t) ==
    /\ pc[t] \in {"uploading", "sending"}
    /\ DeleteToken(Sender[t])
    /\ refused' = refused \cup ({client[t]} \ {tokens'[Sender[t]]})
    /\ UserTyping(Room[t], FALSE)
    /\ Done(t, "expired")
    /\ UNCHANGED <<logins, callback, linked, exchanges, grantee, valid, client, sid, reply,
                   turn, store, opened, retired, roomOf, loggedOut, crashes>>

\* Any other error; of a request that timed out WordPress may have opened the
\* session, which the bot never hears of.
RequestFails(t) ==
    /\ pc[t] \in {"uploading", "sending"}
    /\ \E s \in IF pc[t] = "sending" /\ client[t] \in valid THEN AnswerSessions(t)
             ELSE {NoSession} :
          opened' = opened \cup ({s} \ {NoSession})
    /\ UserTyping(Room[t], FALSE)
    /\ Done(t, "failed")
    /\ UNCHANGED <<authVars, client, sid, reply, turn, store, retired, roomOf, refused,
                   loggedOut, crashes>>

\* Mutant of MustContinue: one call too many.
MustContinueOnceMore(t) ==
    ~reply[t].completed /\ reply[t].session # NoSession /\ turn[t] <= MaxContinueTurns

MustContinue(t) ==
    ~reply[t].completed /\ reply[t].session # NoSession /\ turn[t] < MaxContinueTurns

\* The session stays, and a later text, if there is one, replaces the earlier.
Continued(r, completed, text) ==
    [session |-> r.session, completed |-> completed, text |-> r.text \/ text]

\* Mutant of ContinueChat: an answer with text starts the count anew.
ContinueChatRestarting(t) ==
    /\ pc[t] = "continuing"
    /\ MustContinue(t)
    /\ \E completed, text \in BOOLEAN :
          /\ reply' = [reply EXCEPT ![t] = Continued(@, completed, text)]
          /\ turn' = [turn EXCEPT ![t] = IF text THEN 0 ELSE @ + 1]
    /\ UNCHANGED <<authVars, pc, client, sid, outcome, store, typingVars, wpVars, loggedOut,
                   crashes>>

ContinueChat(t) ==
    /\ pc[t] = "continuing"
    /\ MustContinue(t)
    /\ turn' = [turn EXCEPT ![t] = @ + 1]
    /\ \E completed, text \in BOOLEAN : reply' = [reply EXCEPT ![t] = Continued(@, completed, text)]
    /\ UNCHANGED <<authVars, pc, client, sid, outcome, store, typingVars, wpVars, loggedOut,
                   crashes>>

\* The loop is over, or one of its calls failed (a refused token included:
\* only the first request of a turn looks at the kind of error).
Conclude(t) ==
    /\ pc[t] = "continuing"
    /\ UserTyping(Room[t], FALSE)
    /\ Done(t, IF reply[t].text THEN "answered" ELSE "silent")
    /\ UNCHANGED <<authVars, client, sid, reply, turn, store, wpVars, loggedOut, crashes>>

-----------------------------------------------------------------------------
TimePasses ==
    /\ \E r \in Rooms : store[r] # Aged(store[r])
    /\ store' = [r \in Rooms |-> Aged(store[r])]
    /\ UNCHANGED <<authVars, turnVars, typingVars, wpVars, loggedOut, crashes>>

\* The homeserver drops a typing notification after 120 seconds.
TypingExpires ==
    /\ TypingTimesOut
    /\ \E r \in typing : typing' = typing \ {r} /\ stranded' = stranded \ {r}
    /\ UNCHANGED <<authVars, turnVars, store, wpVars, loggedOut, crashes>>

\* The session store is not persisted: a restart begins without sessions.
\* Nobody clears what is shown as typing.
Crash ==
    /\ crashes < MaxCrashes
    /\ crashes' = crashes + 1
    /\ AuthCrash
    /\ pc' = [t \in Turns |-> IF Active(t) THEN "done" ELSE pc[t]]
    /\ outcome' = [t \in Turns |-> IF Active(t) THEN "crashed" ELSE outcome[t]]
    /\ store' = [r \in Rooms |-> EmptySlot]
    /\ stranded' = stranded \cup typing
    /\ UNCHANGED <<client, sid, reply, turn, typing, wpVars, loggedOut>>

Handler(t) ==
    \/ Logout(t) \/ ResolveUserClient(t) \/ ResolveWithLink(t) \/ ResolveFails(t) \/ Reset(t)
    \/ ImageBegins(t) \/ ImageRefused(t) \/ ImageFetched(t) \/ ImageUploaded(t)
    \/ ReadSession(t) \/ StartTyping(t) \/ SendMessage(t) \/ SendReturns(t)
    \/ RequestRefused(t) \/ RequestFails(t)
    \/ ContinueChat(t) \/ Conclude(t)

\* Following a link signs in again, as sending a message does.
Authorize ==
    /\ Authorization
    /\ loggedOut' = loggedOut \ {logins[s] : s \in {x \in States : logins'[x] # logins[x]}}
    /\ UNCHANGED <<turnVars, store, typingVars, wpVars, crashes>>

Next ==
    \/ \E t \in Turns : Begin(t) \/ Handler(t)
    \/ Authorize \/ TimePasses \/ TypingExpires \/ Crash

Spec == Init /\ [][Next]_vars

\* Every call of a handler returns within its timeout.
FairSpec == Spec /\ \A t \in Turns : WF_vars(Handler(t))

-----------------------------------------------------------------------------
ChatTypeOK ==
    /\ pc \in [Turns -> {"idle", "begun", "resolved", "fetching", "uploading", "ready",
                         "read", "deriving", "sending", "continuing", "done"}]
    /\ client \in [Turns -> Tokens \cup {NoToken}]
    /\ sid \in [Turns -> Sessions \cup {NoSession}]
    /\ reply \in [Turns -> [session : Sessions \cup {NoSession}, completed : BOOLEAN,
                            text : BOOLEAN]]
    /\ turn \in [Turns -> 0 .. MaxContinueTurns]
    /\ store \in [Rooms -> [id : Sessions \cup {NoSession}, at : Ages]]
    /\ typing \subseteq Rooms /\ stranded \subseteq Rooms
    /\ opened \subseteq Sessions /\ retired \subseteq Sessions
    /\ refused \subseteq Tokens /\ loggedOut \subseteq Users
    /\ crashes \in 0 .. MaxCrashes

TypeOK == AuthTypeOK /\ ChatTypeOK

\* A message is sent with its sender's own token, or with the shared one
\* where there is no callback server.
ClientOfSender ==
    \A t \in Turns : client[t] # NoToken =>
        \/ grantee[client[t]] = Sender[t]
        \/ ~CallbackServer /\ client[t] = GlobalToken

\* Whatever way the handlers of a room end, on text or on images, the bot is
\* shown as typing there afterwards only if the call to clear it failed or the
\* bot crashed (handlers.go:161-162, handlers.go:302-346).
TypingStops ==
    \A r \in Rooms :
        (\A t \in Turns : Room[t] = r => ~Active(t)) /\ r \in typing => r \in stranded

\* After /new, /logout or a rotation no message is sent in one of the room's
\* earlier sessions (handlers.go:291-306).  Of handlers that run one after the
\* other: one that overlaps may give up an id that was read and not yet sent.
RetiredNeverSent ==
    [][\A t \in Turns :
         pc[t] # "sending" /\ pc'[t] = "sending" => sid'[t] \notin retired']_vars

\* A token WordPress refused is not resolved for a later message, unless it
\* could not be deleted: the user gets a login link instead (handlers.go:312-315).
RefusedNotResolved ==
    [][\A t \in Turns :
         pc[t] = "begun" /\ pc'[t] = "resolved" =>
            client'[t] \notin refused \/ client'[t] = GlobalToken]_vars

\* Every handler ends.
TurnEnds == \A t \in Turns : (pc[t] = "begun") ~> (pc[t] = "done")

\* "You've been disconnected. Send any message to sign in again."
\* (handlers.go:97): until the user does, or follows a link, there is no token.
LogoutSticks == \A u \in loggedOut : tokens[u] = NoToken

-----------------------------------------------------------------------------
\* A session is used in the room it was created for, and not once retired.
OfRoom(s, r) == s = NoSession \/ (s \in opened /\ roomOf[s] = r)
InUse(s, r) == OfRoom(s, r) /\ s \notin retired

\* However turns overlap, a room's slot holds a session of that room that was
\* not given up, and a turn is sent with a session of its room
\* (handlers.go:291-326).
RoomsInv ==
    /\ retired \subseteq opened
    /\ roomOf \in [Sessions -> Rooms]
    /\ \A r \in Rooms : InUse(store[r].id, r)
    /\ \A t \in Turns : OfRoom(sid[t], Room[t])

\* Where handlers run one after the other, no session is given up while a turn
\* has its id or waits for its answer, so that none is sent to or taken up again.
SessionsInv ==
    /\ RoomsInv
    /\ \A t, u \in Turns : Active(t) /\ Active(u) => t = u
    /\ \A t \in Turns : pc[t] \in {"read", "deriving", "sending"} => sid[t] \notin retired

TokensOut == {tokens[u] : u \in Users} \cup {client[t] : t \in Turns} \cup refused

\* The invariant behind RefusedNotResolved (handlers.go:312-315,
\* pkce.go:178-190), whether or not the store fails: a token is with the one
\* request it was granted to, then in the store and with turns, and once refused
\* only with turns; none comes twice.
TokensInv ==
    /\ \A k \in refused \ {GlobalToken} : \A u \in Users : tokens[u] # k
    /\ \A c \in Callbacks : callback[c].token # NoToken =>
          /\ callback[c].token \notin TokensOut \cup {GlobalToken}
          /\ grantee[callback[c].token] # NoUser
          /\ \A d \in Callbacks : callback[d].token = callback[c].token => d = c
    /\ \A k \in TokensOut \ {NoToken, GlobalToken} : grantee[k] # NoUser
=============================================================================
