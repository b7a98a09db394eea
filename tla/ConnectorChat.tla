---------------------------- MODULE ConnectorChat ----------------------------
(***************************************************************************)
(* Inbound chat in connector mode: what HandleMatrixMessage                *)
(* (pkg/connector/client.go) does with the messages a user writes in a     *)
(* portal room.  A turn is one Matrix event; its handler checks the login, *)
(* turns the typing indicator on, resets the session (/new) or rotates it  *)
(* when it was idle too long, sends the text to WordPress under the        *)
(* session id it knows, remembers and saves the id of the response, and    *)
(* asks WordPress to continue until the agent has completed.               *)
(*                                                                         *)
(* The portal loop of the framework runs handlers one at a time, unless    *)
(* asynchronous events are configured or a handler runs for minutes and is *)
(* left to finish in the background: Overlap.                              *)
(***************************************************************************)
EXTENDS Naturals, FiniteSets

CONSTANTS Turns,             \* events of the room
          Kind,              \* "text" or "new" (the /new command)
          Sessions,          \* session ids WordPress can create
          NoSession,
          MaxContinueTurns,  \* 20 in the code
          ConfiguredTTL,     \* session_idle_ttl: "zero", "positive", "negative"
          Overlap,           \* handlers of the room may run at the same time
          SaveFails,         \* saving the login's metadata may fail
          Timeouts,          \* a response may miss RequestTimeout
          Logouts,           \* the user may log out
          Renames,           \* Connect may learn another slug for the agent
          TypingFails,       \* a call that sets or clears a typing indicator may fail
          MaxCrashes         \* bound on crashes of the bridge process

ASSUME ChatAssumption ==
    /\ Kind \in [Turns -> {"text", "new"}]
    /\ NoSession \notin Sessions
    /\ MaxContinueTurns \in Nat
    /\ MaxCrashes \in Nat
    /\ ConfiguredTTL \in {"zero", "positive", "negative"}
    /\ {Overlap, SaveFails, Timeouts, Logouts, Renames, TypingFails} \subseteq BOOLEAN

INSTANCE SessionSlot

VARIABLES
    pc,        \* where the handler of each turn is
    sid,       \* the session id the turn was sent with
    request,   \* the turn's /bridge/send request at WordPress
    reply,     \* sendResp: session, completed, and whether there is a text
    turn,      \* /chat/continue calls made
    before,    \* /new: the sessions the room had when the slot was cleared
    outcome,   \* what the user saw of the turn
    meta,      \* the portal's slot in UserLoginMeta
    saved,     \* the same in the bridge database
    unsaved,   \* the last save failed; memory and database may differ
    loggedIn,  \* the client has a token and a site
    agentSlug, \* the name it knows the agent by
    typing,    \* ghosts shown as typing
    stranded,  \* those of them that a failed call, a change of the ghost's name or
               \* a crash left behind (history)
    opened,    \* sessions WordPress has created for the room
    retired,   \* sessions given up (by a rotation, by a confirmed reset, by a
               \* restart that found an older one) and not taken up again
    crashes

turnVars == <<pc, sid, request, reply, turn, before, outcome>>
metaVars == <<meta, saved, unsaved>>
loginVars == <<loggedIn, agentSlug>>
typingVars == <<typing, stranded>>
wpVars   == <<opened, retired>>
vars == <<pc, sid, request, reply, turn, before, outcome, meta, saved, unsaved,
          loggedIn, agentSlug, typing, stranded, opened, retired, crashes>>

NoReply == [session |-> NoSession, completed |-> FALSE, text |-> FALSE]

Init ==
    /\ pc = [t \in Turns |-> "idle"]
    /\ sid = [t \in Turns |-> NoSession]
    /\ request = [t \in Turns |-> "none"]
    /\ reply = [t \in Turns |-> NoReply]
    /\ turn = [t \in Turns |-> 0]
    /\ before = [t \in Turns |-> {}]
    /\ outcome = [t \in Turns |-> "none"]
    /\ meta = EmptySlot
    /\ saved = EmptySlot
    /\ unsaved = FALSE
    /\ loggedIn = TRUE
    /\ agentSlug = "old"
    /\ typing = {}
    /\ stranded = {}
    /\ opened = {}
    /\ retired = {}
    /\ crashes = 0

Active(t) == pc[t] \notin {"idle", "done"}

\* The ghost is named by agent slug and site host; Connect may change the one,
\* and LogoutRemote empties the other.
Ghost == <<agentSlug, loggedIn>>

\* The ghost is not found, or marking it fails: either is only logged, and a
\* ghost that was to be cleared stays as it is.
SetAgentTypingFails(on) ==
    /\ TypingFails
    /\ stranded' = IF on THEN stranded ELSE stranded \cup (typing \cap {Ghost})
    /\ UNCHANGED typing

SetAgentTyping(on) ==
    \/ /\ typing' = IF on THEN typing \cup {Ghost} ELSE typing \ {Ghost}
       /\ stranded' = stranded \ {Ghost}
    \/ SetAgentTypingFails(on)

Done(t, how) ==
    /\ pc' = [pc EXCEPT ![t] = "done"]
    /\ outcome' = [outcome EXCEPT ![t] = how]

\* Config.UnmarshalYAML replaces zero by the default of 24 hours.
SessionIdleTTL == IF ConfiguredTTL = "zero" THEN "positive" ELSE ConfiguredTTL

SaveMeta ==
    \/ saved' = meta /\ unsaved' = FALSE
    \/ SaveFails /\ unsaved' = TRUE /\ UNCHANGED saved

-----------------------------------------------------------------------------
Begin(t) ==
    /\ pc[t] = "idle"
    /\ Overlap \/ \A u \in Turns : ~Active(u)
    /\ IF loggedIn
       THEN /\ SetAgentTyping(TRUE)
            /\ pc' = [pc EXCEPT ![t] = "begun"]
            /\ UNCHANGED outcome
       ELSE /\ Done(t, "rejected")
            /\ UNCHANGED typingVars
    /\ UNCHANGED <<sid, request, reply, turn, before, metaVars, loginVars, wpVars, crashes>>

\* /new clears the slot at once.
Reset(t) ==
    /\ pc[t] = "begun"
    /\ Kind[t] = "new"
    /\ before' = [before EXCEPT ![t] = opened]
    /\ meta' = ClearSession(meta)
    /\ pc' = [pc EXCEPT ![t] = "resetting"]
    /\ UNCHANGED <<sid, request, reply, turn, outcome, saved, unsaved, loginVars, typingVars,
                   wpVars, crashes>>

\* Mutant of ConfirmReset: the cleared slot is not saved.
ConfirmResetUnsaved(t) ==
    /\ pc[t] = "resetting"
    /\ SetAgentTyping(FALSE)
    /\ Done(t, "reset")
    /\ retired' = retired \cup (before[t] \ {meta.id})
    /\ UNCHANGED <<sid, request, reply, turn, before, metaVars, loginVars, opened, crashes>>

\* Saving and confirming.  A failed save is logged and the reset confirmed.  An
\* overlapping turn may have put a session back by then.  The confirmation goes
\* to the portal's event queue (see Delivery) and into no state here.
ConfirmReset(t) ==
    /\ pc[t] = "resetting"
    /\ SaveMeta
    /\ SetAgentTyping(FALSE)
    /\ Done(t, "reset")
    /\ retired' = retired \cup (before[t] \ {meta.id})
    /\ UNCHANGED <<sid, request, reply, turn, before, meta, loginVars, opened, crashes>>

\* Rotation clears the slot in memory only.
Rotates == SessionIdleTTL = "positive" /\ IsSessionExpired(meta)

\* Mutant of SendMessage: the session id is read before the rotation.
SendMessageOfOldSession(t) ==
    /\ pc[t] = "begun"
    /\ Kind[t] = "text"
    /\ meta' = IF Rotates THEN ClearSession(meta) ELSE meta
    /\ retired' = IF Rotates THEN retired \cup ({meta.id} \ {NoSession}) ELSE retired
    /\ sid' = [sid EXCEPT ![t] = meta.id]
    /\ request' = [request EXCEPT ![t] = IF loggedIn THEN "sent" ELSE "refused"]
    /\ pc' = [pc EXCEPT ![t] = "sending"]
    /\ UNCHANGED <<reply, turn, before, outcome, saved, unsaved, loginVars, typingVars, opened,
                   crashes>>

\* After a logout the request has no site to go to.
SendMessage(t) ==
    /\ pc[t] = "begun"
    /\ Kind[t] = "text"
    /\ meta' = IF Rotates THEN ClearSession(meta) ELSE meta
    /\ retired' = IF Rotates THEN retired \cup ({meta.id} \ {NoSession}) ELSE retired
    /\ sid' = [sid EXCEPT ![t] = meta'.id]
    /\ request' = [request EXCEPT ![t] = IF loggedIn THEN "sent" ELSE "refused"]
    /\ pc' = [pc EXCEPT ![t] = "sending"]
    /\ UNCHANGED <<reply, turn, before, outcome, saved, unsaved, loginVars, typingVars, opened,
                   crashes>>

\* WordPress answers in the session it was given, or creates one; it may also
\* answer without naming a session.  It gets to a request even if the bridge
\* has stopped waiting for it.
AnswerSessions(t) ==
    {NoSession} \cup (IF sid[t] # NoSession THEN {sid[t]} ELSE Sessions \ opened)

WordPressAnswers(t) ==
    /\ request[t] = "sent"
    /\ request' = [request EXCEPT ![t] = "answered"]
    /\ \E s \in AnswerSessions(t), completed, text \in BOOLEAN :
          /\ reply' = [reply EXCEPT ![t] = [session |-> s, completed |-> completed,
                                            text |-> text]]
          /\ opened' = opened \cup ({s} \ {NoSession})
    /\ UNCHANGED <<pc, sid, turn, before, outcome, metaVars, loginVars, typingVars, retired,
                   crashes>>

\* Mutant of SendReturns: only the session of a completed answer is kept.
SendReturnsCompleted(t) ==
    /\ pc[t] = "sending"
    /\ request[t] = "answered"
    /\ IF reply[t].session = NoSession \/ ~reply[t].completed
       THEN /\ pc' = [pc EXCEPT ![t] = "continuing"]
            /\ UNCHANGED <<meta, retired>>
       ELSE /\ pc' = [pc EXCEPT ![t] = "saving"]
            /\ meta' = TouchPortal(RememberSessionID(meta, reply[t].session))
            /\ retired' = retired \ {reply[t].session}
    /\ UNCHANGED <<sid, request, reply, turn, before, outcome, saved, unsaved, loginVars,
                   typingVars, opened, crashes>>

\* The slot takes the session of the answer, though a reset or a rotation may
\* have given it up while the turn was under way.
SendReturns(t) ==
    /\ pc[t] = "sending"
    /\ request[t] = "answered"
    /\ IF reply[t].session = NoSession
       THEN /\ pc' = [pc EXCEPT ![t] = "continuing"]
            /\ UNCHANGED <<meta, retired>>
       ELSE /\ pc' = [pc EXCEPT ![t] = "saving"]
            /\ meta' = TouchPortal(RememberSessionID(meta, reply[t].session))
            /\ retired' = retired \ {reply[t].session}
    /\ UNCHANGED <<sid, request, reply, turn, before, outcome, saved, unsaved, loginVars,
                   typingVars, opened, crashes>>

\* Mutant of SendFails: the typing indicator is left to time out.
SendFailsTyping(t) ==
    /\ pc[t] = "sending"
    /\ \/ request[t] # "answered" /\ request' = [request EXCEPT ![t] = "refused"]
       \/ Timeouts /\ UNCHANGED request
    /\ Done(t, "failed")
    /\ UNCHANGED <<sid, reply, turn, before, metaVars, loginVars, typingVars, wpVars, crashes>>

\* WordPress refuses the request, it cannot be reached, or no answer comes in
\* time.  In the last case WordPress may have handled it, or may still do so.
SendFails(t) ==
    /\ pc[t] = "sending"
    /\ \/ /\ request[t] # "answered"
          /\ request' = [request EXCEPT ![t] = "refused"]
       \/ /\ Timeouts
          /\ UNCHANGED request
    /\ SetAgentTyping(FALSE)
    /\ Done(t, "failed")
    /\ UNCHANGED <<sid, reply, turn, before, metaVars, loginVars, wpVars, crashes>>

\* Mutant of SaveSession: what the turn was answered is saved, not what is in
\* memory by now.
SaveSessionOfReply(t) ==
    /\ pc[t] = "saving"
    /\ saved' = TouchPortal(RememberSessionID(saved, reply[t].session))
    /\ unsaved' = FALSE
    /\ pc' = [pc EXCEPT ![t] = "continuing"]
    /\ UNCHANGED <<sid, request, reply, turn, before, outcome, meta, loginVars, typingVars,
                   wpVars, crashes>>

SaveSession(t) ==
    /\ pc[t] = "saving"
    /\ SaveMeta
    /\ pc' = [pc EXCEPT ![t] = "continuing"]
    /\ UNCHANGED <<sid, request, reply, turn, before, outcome, meta, loginVars, typingVars,
                   wpVars, crashes>>

\* Mutant of MustContinue: one call too many.
MustContinueOnceMore(t) ==
    ~reply[t].completed /\ reply[t].session # NoSession /\ turn[t] <= MaxContinueTurns

MustContinue(t) ==
    /\ ~reply[t].completed
    /\ reply[t].session # NoSession
    /\ turn[t] < MaxContinueTurns

\* The session stays, and a later text, if there is one, replaces the earlier.
Continued(r, completed, text) ==
    [session |-> r.session, completed |-> completed, text |-> r.text \/ text]

\* Mutant of ContinueChat: an answer with text starts the count anew.
ContinueChatRestarting(t) ==
    /\ pc[t] = "continuing"
    /\ loggedIn
    /\ MustContinue(t)
    /\ \E completed, text \in BOOLEAN :
          /\ reply' = [reply EXCEPT ![t] = Continued(@, completed, text)]
          /\ turn' = [turn EXCEPT ![t] = IF text THEN 0 ELSE @ + 1]
    /\ UNCHANGED <<pc, sid, request, before, outcome, metaVars, loginVars, typingVars, wpVars,
                   crashes>>

ContinueChat(t) ==
    /\ pc[t] = "continuing"
    /\ loggedIn
    /\ MustContinue(t)
    /\ turn' = [turn EXCEPT ![t] = @ + 1]
    /\ \E completed, text \in BOOLEAN : reply' = [reply EXCEPT ![t] = Continued(@, completed, text)]
    /\ UNCHANGED <<pc, sid, request, before, outcome, metaVars, loginVars, typingVars, wpVars,
                   crashes>>

\* The loop is left; what text there is becomes the answer.
ContinueFails(t) ==
    /\ pc[t] = "continuing"
    /\ MustContinue(t)
    /\ pc' = [pc EXCEPT ![t] = "concluding"]
    /\ UNCHANGED <<sid, request, reply, turn, before, outcome, metaVars, loginVars, typingVars,
                   wpVars, crashes>>

\* The answer goes to the portal's event queue (see Delivery).
Conclude(t) ==
    /\ \/ pc[t] = "concluding"
       \/ pc[t] = "continuing" /\ ~MustContinue(t)
    /\ SetAgentTyping(FALSE)
    /\ Done(t, IF reply[t].text THEN "answered" ELSE "silent")
    /\ UNCHANGED <<sid, request, reply, turn, before, metaVars, loginVars, wpVars, crashes>>

-----------------------------------------------------------------------------
TimePasses ==
    /\ <<Aged(meta), Aged(saved)>> # <<meta, saved>>
    /\ meta' = Aged(meta)
    /\ saved' = Aged(saved)
    /\ UNCHANGED <<turnVars, unsaved, loginVars, typingVars, wpVars, crashes>>

LogoutRemote ==
    /\ Logouts
    /\ loggedIn
    /\ loggedIn' = FALSE
    /\ stranded' = stranded \cup typing
    /\ UNCHANGED <<turnVars, metaVars, agentSlug, typing, wpVars, crashes>>

\* Connect learns another slug for the agent; it does not wait for turns.
ConnectRenames ==
    /\ Renames
    /\ loggedIn
    /\ agentSlug = "old"
    /\ agentSlug' = "new"
    /\ stranded' = stranded \cup typing
    /\ UNCHANGED <<turnVars, metaVars, loggedIn, typing, wpVars, crashes>>

\* The homeserver drops a typing notification after 120 seconds.
TypingExpires ==
    /\ typing # {}
    /\ typing' = {}
    /\ stranded' = {}
    /\ UNCHANGED <<turnVars, metaVars, loginVars, wpVars, crashes>>

\* What was not saved is gone: a restart takes up the session and the slug it
\* finds in the database, and gives up other sessions without knowing.  Nobody
\* clears what is shown as typing.
Crash ==
    /\ crashes < MaxCrashes
    /\ crashes' = crashes + 1
    /\ pc' = [t \in Turns |-> IF Active(t) THEN "done" ELSE pc[t]]
    /\ outcome' = [t \in Turns |-> IF Active(t) THEN "crashed" ELSE outcome[t]]
    /\ meta' = saved
    /\ unsaved' = FALSE
    /\ retired' = IF unsaved THEN opened \ {saved.id} ELSE retired
    /\ agentSlug' \in {"old", agentSlug}
    /\ stranded' = stranded \cup typing
    /\ UNCHANGED <<sid, request, reply, turn, before, saved, loggedIn, typing, opened>>

Handler(t) ==
    \/ Reset(t) \/ ConfirmReset(t)
    \/ SendMessage(t) \/ SendReturns(t) \/ SendFails(t) \/ SaveSession(t)
    \/ ContinueChat(t) \/ ContinueFails(t) \/ Conclude(t)

Next ==
    \/ \E t \in Turns : Begin(t) \/ Handler(t) \/ WordPressAnswers(t)
    \/ TimePasses \/ LogoutRemote \/ ConnectRenames \/ TypingExpires \/ Crash

Spec == Init /\ [][Next]_vars

\* A started handler keeps running: each of its calls has a timeout, so it
\* returns with an answer or an error.
FairSpec == Spec /\ \A t \in Turns : WF_vars(Handler(t))

-----------------------------------------------------------------------------
Ghosts == {"old", "new"} \X BOOLEAN

Slots == [id : Sessions \cup {NoSession}, at : Ages]

TypeOK ==
    /\ pc \in [Turns -> {"idle", "begun", "resetting", "sending", "saving",
                         "continuing", "concluding", "done"}]
    /\ sid \in [Turns -> Sessions \cup {NoSession}]
    /\ request \in [Turns -> {"none", "sent", "answered", "refused"}]
    /\ reply \in [Turns -> [session : Sessions \cup {NoSession}, completed : BOOLEAN,
                            text : BOOLEAN]]
    /\ turn \in [Turns -> 0 .. MaxContinueTurns]
    /\ before \in [Turns -> SUBSET Sessions]
    /\ outcome \in [Turns -> {"none", "rejected", "reset", "failed", "answered",
                              "silent", "crashed"}]
    /\ meta \in Slots
    /\ saved \in Slots
    /\ unsaved \in BOOLEAN
    /\ loggedIn \in BOOLEAN
    /\ agentSlug \in {"old", "new"}
    /\ typing \subseteq Ghosts /\ stranded \subseteq Ghosts
    /\ opened \subseteq Sessions
    /\ retired \subseteq Sessions
    /\ crashes \in 0 .. MaxCrashes

\* A session given up by a confirmed /new, a rotation or a restart, and not taken
\* up again (GivenUpStays), is not sent to: the next message creates a fresh one
\* (connector.go:135-136, client.go:398).
RetiredNeverSent ==
    [][\A t \in Turns :
         pc[t] # "sending" /\ pc'[t] = "sending" => sid'[t] \notin retired']_vars

\* Of the sessions given up none is taken up again, unless the bridge restarts
\* after a save that failed, and then only the one it finds (client.go:392,
\* client.go:442).  It takes turns one after the other.
GivenUpStays ==
    [][\/ retired \subseteq retired'
       \/ unsaved /\ crashes' # crashes /\ retired \ {saved.id} \subseteq retired']_vars

\* Turns the user saw fail or the bridge did not live to finish.
Unfinished == {t \in Turns : outcome[t] \in {"failed", "crashed"}}

Lost == {reply[t].session : t \in Unfinished}

Live == opened \ (retired \cup Lost)

\* One room has one active session (README.md:68-72): of the sessions WordPress
\* keeps for it, all but one were given up, or belong to a turn the user saw
\* fail or the bridge did not live to finish.
OneActiveSession == Cardinality(Live) <= 1

\* Whatever way the turns end and however they overlap, once no handler runs
\* only those ghosts are shown as typing whose clearing failed, whose name was
\* changed by a logout or by Connect before they were cleared, or which a crash
\* left behind (client.go:434-437, client.go:472-474).
TypingStops == (\A t \in Turns : ~Active(t)) => typing \subseteq stranded

\* What is saved is what is in memory, unless the last save failed, and except
\* that a rotation is not saved.  A restart then finds the old session, but
\* finds it stale, and rotates again.
SavedIsCurrent ==
    ~unsaved /\ (\A t \in Turns : pc[t] \notin {"resetting", "saving"}) =>
        \/ saved.id = meta.id
        \/ meta.id = NoSession /\ saved.at = "stale"

\* The handlers, however they overlap, fail or crash, do with the session ids
\* only what Delivery expects of them: a login knows sessions of its own, and
\* saves what it knows (client.go:390-447, connector.go:95-129).
Memory == INSTANCE SessionMemory
    WITH Logins     <- {"portal"},
         SessionsOf <- [l \in {"portal"} |-> Sessions],
         opened     <- [l \in {"portal"} |-> opened],
         session    <- [l \in {"portal"} |-> meta.id],
         saved      <- [l \in {"portal"} |-> saved.id]

ImplementsMemory == Memory!MemorySpec

\* Every turn ends, whatever WordPress answers: the continue loop is bounded.
TurnEnds == \A t \in Turns : (pc[t] = "begun") ~> (pc[t] = "done")

-----------------------------------------------------------------------------
\* Where a turn's request and answer are, by the place of its handler.
TurnsKnown ==
    /\ \A t, u \in Turns : Active(t) /\ Active(u) => t = u
    /\ \A t \in Turns :
          /\ pc[t] \in {"idle", "begun", "resetting"} => request[t] = "none"
          /\ pc[t] # "done" => outcome[t] = "none"
          /\ pc[t] \in {"saving", "continuing", "concluding"} => request[t] = "answered"
          /\ request[t] # "answered" => reply[t] = NoReply
          /\ request[t] = "sent" =>
                pc[t] = "sending" \/ outcome[t] \in {"failed", "crashed"}

\* Every session id the bridge holds is one WordPress has created, and a turn
\* that was sent under one is answered in it.
IdsOpened ==
    /\ {meta.id, saved.id} \subseteq opened \cup {NoSession}
    /\ retired \subseteq opened
    /\ \A t \in Turns :
          /\ before[t] \subseteq opened
          /\ {sid[t], reply[t].session} \subseteq opened \cup {NoSession}
          /\ sid[t] # NoSession => reply[t].session \in {sid[t], NoSession}

\* The slot is saved, or a rotation emptied it.
InSync == saved = meta \/ (meta = EmptySlot /\ saved.at = "stale")

\* What the slot holds in the middle of a turn.
SlotsKnown ==
    /\ (\A t \in Turns : pc[t] \notin {"resetting", "saving"}) => unsaved \/ InSync
    /\ \A t \in Turns :
          /\ pc[t] = "resetting" => meta = EmptySlot
          /\ pc[t] = "sending" => sid[t] = meta.id /\ (unsaved \/ InSync)
          /\ pc[t] = "saving" => reply[t].session = meta.id

\* A session that was given up and can come back is found stale, and rotated,
\* or comes back because a save failed.  However turns overlap, memory never
\* finds a session stale that the database has as recent.
RetiredIsStale ==
    /\ meta.id \in retired => meta.at = "stale" /\ SessionIdleTTL = "positive"
    /\ saved.id \in retired => unsaved \/ (saved.at = "stale" /\ SessionIdleTTL = "positive")
    /\ meta.at = "stale" => saved.at # "recent"
    /\ \A slot \in {meta, saved} : slot.id # NoSession => slot.at # "never"

\* While a turn waits, neither its session nor that of its answer is given up.
AnswersCurrent ==
    \A t \in Turns :
        pc[t] = "sending" => sid[t] \notin retired /\ reply[t].session \notin retired

\* The one live session is the slot's, that of the answer under way, or the
\* one a reset is about to give up.
LiveIsCurrent ==
    /\ (\A t \in Turns : pc[t] \notin {"resetting", "sending"}) => Live \subseteq {meta.id}
    /\ \A t \in Turns :
          /\ pc[t] = "resetting" =>
                /\ Live \subseteq before[t]
                /\ unsaved \/ Live \subseteq {saved.id}
                /\ \E s \in Sessions \cup {NoSession} : Live \subseteq {s}
          /\ pc[t] = "sending" =>
                Live \subseteq {IF sid[t] # NoSession THEN sid[t] ELSE reply[t].session}

\* The inductive invariant of turns that are handled one after the other.
SerialInv ==
    /\ TypeOK
    /\ TurnsKnown /\ IdsOpened /\ SlotsKnown /\ RetiredIsStale /\ AnswersCurrent
    /\ LiveIsCurrent
=============================================================================
