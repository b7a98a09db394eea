---------------------------- MODULE BotChatProofs ----------------------------
(***************************************************************************)
(* Theorems about the handlers of the bot, for any users, rooms, turns,    *)
(* tokens, sessions and crashes: type correctness, when typing stops, what *)
(* sessions are read and, of handlers one after the other, sent to, and    *)
(* that a refused token is not resolved again.                             *)
(***************************************************************************)
EXTENDS BotAuthProofs

Steps == {"idle", "begun", "resolved", "fetching", "uploading", "ready", "read", "deriving",
          "sending", "continuing", "done"}

SessionOrNone == Sessions \cup {NoSession}

Replies == [session : SessionOrNone, completed : BOOLEAN, text : BOOLEAN]

Slots == [id : SessionOrNone, at : Ages]

\* A turn past its resolution holds a token.
ClientKnown ==
    \A t \in Turns : pc[t] \in Steps \ {"idle", "begun", "done"} => client[t] # NoToken

\* What the slot operations return is a slot.
LEMMA SlotOperations ==
  ASSUME NEW slot \in Slots, NEW s \in Sessions
  PROVE  /\ EmptySlot \in Slots /\ EmptySlot.id = NoSession
         /\ ClearSession(slot) = EmptySlot
         /\ TouchPortal(RememberSessionID(slot, s)) \in Slots
         /\ TouchPortal(RememberSessionID(slot, s)).id = s
         /\ Aged(slot) \in Slots /\ Aged(slot).id = slot.id
<1>1. EmptySlot \in Slots /\ EmptySlot.id = NoSession
  BY SMT DEF Slots, Ages, EmptySlot, SessionOrNone
<1> DEFINE named == RememberSessionID(slot, s)
<1>2. named \in Slots /\ named.id = s
  BY SMT DEF Slots, RememberSessionID, SessionOrNone
<1> HIDE DEF named
<1>3. TouchPortal(named) \in Slots /\ TouchPortal(named).id = s
  BY <1>2, SMT DEF Slots, Ages, TouchPortal
<1>4. Aged(slot) \in Slots /\ Aged(slot).id = slot.id
  BY SMT DEF Slots, Ages, Aged
<1> QED
  BY <1>1, <1>3, <1>4, Zenon DEF named, ClearSession

-----------------------------------------------------------------------------
LEMMA TypeInit == Init => TypeOK /\ ClientKnown
<1> SUFFICES ASSUME Init PROVE TypeOK /\ ClientKnown
  OBVIOUS
<1>1. AuthTypeOK
  BY AuthInitInv DEF Init, AuthInv
<1>2. ChatTypeOK
  BY BotAssumption, SMT DEF Init, ChatTypeOK, EmptySlot, Ages, NoReply
<1>3. ClientKnown
  BY SMT DEF Init, ClientKnown
<1> QED
  BY <1>1, <1>2, <1>3 DEF TypeOK

\* The room of a turn is one of the rooms.
LEMMA RoomOfTurn == \A t \in Turns : Room[t] \in Rooms
  BY Zenon DEF Rooms

LEMMA UserTypingType ==
  ASSUME ChatTypeOK, NEW r \in Rooms, NEW on \in BOOLEAN, UserTyping(r, on)
  PROVE  typing' \subseteq Rooms /\ stranded' \subseteq Rooms
  BY SMT DEF UserTyping, UserTypingFails, ChatTypeOK

\* Steps that go on with nothing but the place of the handler changed, or who is
\* shown as typing.
LEMMA GoesOnType ==
  ASSUME ChatTypeOK, ClientKnown, NEW t \in Turns,
         \/ Begin(t) \/ ImageBegins(t) \/ ImageFetched(t) \/ ImageUploaded(t)
         \/ StartTyping(t) \/ SendMessage(t)
  PROVE  (ChatTypeOK /\ ClientKnown)'
<1>1. CASE Begin(t)
  BY <1>1, SMT DEF Begin, Done, Goto, ChatTypeOK, ClientKnown, Steps, Ages, typingVars, wpVars
<1>2. CASE ImageBegins(t) \/ StartTyping(t)
  <2>1. /\ UserTyping(Room[t], TRUE) /\ pc[t] \in {"resolved", "read"}
        /\ \E to \in {"fetching", "deriving"} : pc' = [pc EXCEPT ![t] = to]
        /\ UNCHANGED <<client, sid, reply, turn, store, opened, retired, refused, loggedOut,
                       crashes>>
    BY <1>2, Zenon DEF ImageBegins, StartTyping, Goto, wpVars
  <2>2. typing' \subseteq Rooms /\ stranded' \subseteq Rooms
    BY <2>1, RoomOfTurn, UserTypingType, Zenon
  <2>3. pc' \in [Turns -> Steps] /\ ClientKnown'
    BY <2>1, SMT DEF ChatTypeOK, ClientKnown, Steps
  <2> QED
    BY <2>1, <2>2, <2>3, SMT DEF ChatTypeOK, Steps
<1>3. CASE ImageFetched(t) \/ ImageUploaded(t) \/ SendMessage(t)
  <2>1. /\ pc[t] \in {"fetching", "uploading", "deriving"}
        /\ \E to \in {"uploading", "ready", "sending"} : pc' = [pc EXCEPT ![t] = to]
        /\ UNCHANGED <<client, sid, reply, turn, store, typing, stranded, opened, retired,
                       refused, loggedOut, crashes>>
    BY <1>3, Zenon DEF ImageFetched, ImageUploaded, SendMessage, Goto, typingVars, wpVars
  <2>2. pc' \in [Turns -> Steps] /\ ClientKnown'
    BY <2>1, SMT DEF ChatTypeOK, ClientKnown, Steps
  <2> QED
    BY <2>1, <2>2, SMT DEF ChatTypeOK, Steps
<1> QED
  BY <1>1, <1>2, <1>3

\* A room that is cleared gets the empty slot.
LEMMA ClearRoomType ==
  ASSUME ChatTypeOK, NEW r \in Rooms, ClearRoom(r)
  PROVE  store' \in [Rooms -> Slots] /\ retired' \subseteq Sessions
<1>1. store \in [Rooms -> Slots] /\ EmptySlot \in Slots
  BY SMT DEF ChatTypeOK, Slots, SessionOrNone, EmptySlot, Ages
<1>2. store' = [store EXCEPT ![r] = EmptySlot]
  BY DEF ClearRoom, ClearSession
<1>3. retired' \subseteq Sessions
  BY SMT DEF ClearRoom, ChatTypeOK
<1> QED
  BY <1>1, <1>2, <1>3

LEMMA EndsType ==
  ASSUME ChatTypeOK, ClientKnown, NEW t \in Turns,
         \/ Logout(t) \/ ResolveWithLink(t) \/ ResolveFails(t) \/ Reset(t)
         \/ ImageRefused(t) \/ RequestRefused(t) \/ RequestFails(t) \/ Conclude(t)
  PROVE  (ChatTypeOK /\ ClientKnown)'
<1>1. /\ pc' = [pc EXCEPT ![t] = "done"]
      /\ UNCHANGED <<client, sid, reply, turn, crashes>>
  BY Zenon DEF Logout, ResolveWithLink, ResolveFails, Reset, ImageRefused, RequestRefused,
     RequestFails, Conclude, Done, Goto, wpVars
<1>2. pc' \in [Turns -> Steps] /\ ClientKnown'
  BY <1>1, SMT DEF ChatTypeOK, ClientKnown, Steps
<1>3. store' \in [Rooms -> Slots] /\ retired' \subseteq Sessions
  <2>1. ClearRoom(Room[t]) \/ UNCHANGED <<store, retired>>
    BY Zenon DEF Logout, ResolveWithLink, ResolveFails, Reset, ImageRefused, RequestRefused,
       RequestFails, Conclude, wpVars
  <2> QED
    BY <2>1, ClearRoomType, RoomOfTurn DEF ChatTypeOK, Slots, SessionOrNone
<1>4. typing' \subseteq Rooms /\ stranded' \subseteq Rooms
  <2>1. UserTyping(Room[t], FALSE) \/ UNCHANGED <<typing, stranded>>
    BY Zenon DEF Logout, ResolveWithLink, ResolveFails, Reset, ImageRefused, RequestRefused,
       RequestFails, Conclude, typingVars
  <2>2. CASE UserTyping(Room[t], FALSE)
    BY <2>2, RoomOfTurn, UserTypingType, Zenon
  <2>3. CASE UNCHANGED <<typing, stranded>>
    BY <2>3 DEF ChatTypeOK
  <2> QED
    BY <2>1, <2>2, <2>3
<1>5. refused' \subseteq Tokens
  <2>1. CASE RequestRefused(t)
    <3>1. refused' \subseteq refused \cup {client[t]} /\ pc[t] \in {"uploading", "sending"}
      BY <2>1, Zenon DEF RequestRefused
    <3> QED
      BY <3>1, SMT DEF ChatTypeOK, ClientKnown, Steps
  <2>2. CASE ~RequestRefused(t)
    <3>1. UNCHANGED refused
      BY <2>2, Zenon DEF Logout, ResolveWithLink, ResolveFails, Reset, ImageRefused,
         RequestFails, Conclude, wpVars
    <3> QED
      BY <3>1 DEF ChatTypeOK
  <2> QED
    BY <2>1, <2>2
<1>6. loggedOut' \subseteq Users
  <2>1. Sender[t] \in Users
    BY BotAssumption
  <2>2. \/ loggedOut' = loggedOut \cup {Sender[t]} \/ loggedOut' = loggedOut \ {Sender[t]}
        \/ UNCHANGED loggedOut
    BY Zenon DEF Logout, ResolveWithLink, ResolveFails, Reset, ImageRefused, RequestRefused,
       RequestFails, Conclude
  <2> QED
    BY <2>1, <2>2, SMT DEF ChatTypeOK
<1>7. opened' \subseteq Sessions
  <2>1. CASE RequestFails(t)
    <3>1. PICK s \in AnswerSessions(t) \cup {NoSession} : opened' = opened \cup ({s} \ {NoSession})
      BY <2>1, Zenon DEF RequestFails
    <3>2. s \in SessionOrNone
      BY SMT DEF AnswerSessions, ChatTypeOK, SessionOrNone
    <3> QED
      BY <3>1, <3>2, SMT DEF ChatTypeOK, SessionOrNone
  <2>2. CASE ~RequestFails(t)
    <3>1. UNCHANGED opened
      BY <2>2, Zenon DEF Logout, ResolveWithLink, ResolveFails, Reset, ImageRefused,
         RequestRefused, Conclude, wpVars
    <3> QED
      BY <3>1 DEF ChatTypeOK
  <2> QED
    BY <2>1, <2>2
<1> QED
  BY <1>1, <1>2, <1>3, <1>4, <1>5, <1>6, <1>7, SMT DEF ChatTypeOK, Steps, Slots, SessionOrNone

LEMMA ResolveType ==
  ASSUME TypeOK, ClientKnown, NEW t \in Turns, ResolveUserClient(t)
  PROVE  (ChatTypeOK /\ ClientKnown)'
<1> DEFINE token == IF tokens[Sender[t]] = NoToken /\ ~CallbackServer
                    THEN GlobalToken ELSE tokens[Sender[t]]
<1>1. /\ token # NoToken
      /\ client' = [client EXCEPT ![t] = token]
      /\ pc' = [pc EXCEPT ![t] = "resolved"]
      /\ UNCHANGED <<sid, reply, turn, store, typing, stranded, opened, retired, refused,
                     loggedOut, crashes>>
  BY Zenon DEF ResolveUserClient, Goto, typingVars, wpVars
<1>2. token \in Tokens \cup {NoToken}
  BY AuthAssumption, BotAssumption DEF TypeOK, AuthTypeOK
<1> HIDE DEF token
<1>3. client' \in [Turns -> Tokens \cup {NoToken}] /\ pc' \in [Turns -> Steps]
  BY <1>1, <1>2, SMT DEF TypeOK, ChatTypeOK, Steps
<1>4. ClientKnown'
  BY <1>1, SMT DEF TypeOK, ChatTypeOK, ClientKnown, Steps
<1> QED
  BY <1>1, <1>3, <1>4, SMT DEF TypeOK, ChatTypeOK, Steps

LEMMA ReadSessionType ==
  ASSUME ChatTypeOK, ClientKnown, NEW t \in Turns, ReadSession(t)
  PROVE  (ChatTypeOK /\ ClientKnown)'
<1>1. /\ Ready(t)
      /\ ClearRoom(Room[t]) \/ UNCHANGED <<store, retired>>
      /\ sid' = [sid EXCEPT ![t] = store'[Room[t]].id]
      /\ pc' = [pc EXCEPT ![t] = "read"]
      /\ UNCHANGED <<client, reply, turn, typing, stranded, opened, refused, loggedOut, crashes>>
  BY Zenon DEF ReadSession, Goto, typingVars
<1>2. store' \in [Rooms -> Slots] /\ retired' \subseteq Sessions
  BY <1>1, ClearRoomType, RoomOfTurn DEF ChatTypeOK, Slots, SessionOrNone
<1>3. store'[Room[t]].id \in SessionOrNone
  BY <1>2, RoomOfTurn DEF Slots
<1>4. sid' \in [Turns -> SessionOrNone]
  BY <1>1, <1>3, SMT DEF ChatTypeOK, SessionOrNone
<1>5. pc' \in [Turns -> Steps] /\ ClientKnown'
  BY <1>1, SMT DEF ChatTypeOK, ClientKnown, Steps, Ready
<1> QED
  BY <1>1, <1>2, <1>4, <1>5, SMT DEF ChatTypeOK, Steps, Slots, SessionOrNone

LEMMA SendReturnsType ==
  ASSUME ChatTypeOK, ClientKnown, NEW t \in Turns, SendReturns(t)
  PROVE  (ChatTypeOK /\ ClientKnown)'
<1>1. PICK s \in AnswerSessions(t), completed \in BOOLEAN, text \in BOOLEAN :
        /\ reply' = [reply EXCEPT ![t] = [session |-> s, completed |-> completed, text |-> text]]
        /\ opened' = opened \cup ({s} \ {NoSession})
        /\ IF s = NoSession THEN UNCHANGED store
           ELSE store' = [store EXCEPT ![Room[t]] = TouchPortal(RememberSessionID(@, s))]
        /\ retired' \subseteq retired
  BY Zenon DEF SendReturns
<1>2. /\ pc[t] = "sending" /\ pc' = [pc EXCEPT ![t] = "continuing"]
      /\ UNCHANGED <<client, sid, turn, typing, stranded, refused, loggedOut, crashes>>
  BY Zenon DEF SendReturns, Goto, typingVars
<1>3. s \in SessionOrNone
  BY SMT DEF AnswerSessions, ChatTypeOK, SessionOrNone
<1>4. [session |-> s, completed |-> completed, text |-> text] \in Replies
  BY <1>3 DEF Replies
<1>5. reply' \in [Turns -> Replies]
  <2>1. reply \in [Turns -> Replies]
    BY DEF ChatTypeOK, Replies, SessionOrNone
  <2> QED
    BY <1>1, <1>4, <2>1
<1>6. store' \in [Rooms -> Slots]
  <2>1. store \in [Rooms -> Slots]
    BY DEF ChatTypeOK, Slots, SessionOrNone
  <2>2. CASE s = NoSession
    BY <1>1, <2>1, <2>2
  <2>3. CASE s # NoSession
    <3>1. s \in Sessions /\ store[Room[t]] \in Slots
      BY <1>3, <2>1, <2>3, RoomOfTurn DEF SessionOrNone
    <3>2. TouchPortal(RememberSessionID(store[Room[t]], s)) \in Slots
      BY <3>1, SlotOperations
    <3> QED
      BY <1>1, <2>1, <2>3, <3>2
  <2> QED
    BY <2>2, <2>3
<1>7. pc' \in [Turns -> Steps] /\ ClientKnown'
  BY <1>2, SMT DEF ChatTypeOK, ClientKnown, Steps
<1>8. opened' \subseteq Sessions /\ retired' \subseteq Sessions
  BY <1>1, <1>3, SMT DEF ChatTypeOK, SessionOrNone
<1> QED
  BY <1>2, <1>5, <1>6, <1>7, <1>8, SMT DEF ChatTypeOK, Steps, Slots, Replies, SessionOrNone

LEMMA ContinueChatType ==
  ASSUME ChatTypeOK, ClientKnown, NEW t \in Turns, ContinueChat(t)
  PROVE  (ChatTypeOK /\ ClientKnown)'
<1>1. PICK completed \in BOOLEAN, text \in BOOLEAN :
        reply' = [reply EXCEPT ![t] = Continued(@, completed, text)]
  BY Zenon DEF ContinueChat
<1>2. /\ turn[t] < MaxContinueTurns /\ turn' = [turn EXCEPT ![t] = turn[t] + 1]
      /\ UNCHANGED <<pc, client, sid, store, typing, stranded, opened, retired, refused,
                     loggedOut, crashes>>
  BY Zenon DEF ContinueChat, MustContinue, typingVars, wpVars
<1>3. reply \in [Turns -> Replies]
  BY DEF ChatTypeOK, Replies, SessionOrNone
<1>4. reply' \in [Turns -> Replies]
  <2> DEFINE some == reply[t].text \/ text
  <2>1. some \in BOOLEAN
    OBVIOUS
  <2>2. reply' = [reply EXCEPT ![t] = [session |-> reply[t].session, completed |-> completed,
                                       text |-> some]]
    BY <1>1 DEF Continued
  <2> HIDE DEF some
  <2> QED
    BY <1>3, <2>1, <2>2, SMT DEF Replies
<1>5. turn' \in [Turns -> 0 .. MaxContinueTurns]
  BY <1>2, BotAssumption, SMT DEF ChatTypeOK
<1>6. ClientKnown'
  BY <1>2, Zenon DEF ClientKnown, Steps
<1> QED
  BY <1>2, <1>4, <1>5, <1>6, SMT DEF ChatTypeOK, Replies, SessionOrNone

LEMMA OthersType ==
  ASSUME ChatTypeOK, ClientKnown,
  Authorize \/ TimePasses \/ TypingExpires \/ Crash \/ UNCHANGED vars
  PROVE  (ChatTypeOK /\ ClientKnown)'
<1>1. CASE Authorize
  <2>1. /\ loggedOut' \subseteq loggedOut
        /\ UNCHANGED <<pc, client, sid, reply, turn, store, typing, stranded, opened, retired,
                       refused, crashes>>
    BY <1>1, SMT DEF Authorize, turnVars, typingVars, wpVars
  <2> QED
    BY <2>1, SMT DEF ChatTypeOK, ClientKnown, Steps
<1>2. CASE TimePasses
  <2>1. /\ store' = [r \in Rooms |-> Aged(store[r])]
        /\ UNCHANGED <<pc, client, sid, reply, turn, typing, stranded, opened, retired, refused,
                       loggedOut,
                       crashes>>
    BY <1>2, SMT DEF TimePasses, turnVars, typingVars, wpVars
  <2>2. store' \in [Rooms -> Slots]
    <3>1. \A r \in Rooms : Aged(store[r]) \in Slots
      BY SlotOperations, SMT DEF ChatTypeOK, Slots, Ages, SessionOrNone, Aged
    <3> QED
      BY <2>1, <3>1
  <2> QED
    BY <2>1, <2>2, SMT DEF ChatTypeOK, ClientKnown, Steps, Slots, SessionOrNone
<1>3. CASE Crash
  <2>1. /\ \A t \in Turns : pc'[t] \in {"idle", "done"}
        /\ pc' \in [Turns -> Steps]
    BY <1>3, SMT DEF Crash, Active, ChatTypeOK, Steps
  <2>2. /\ store' \in [Rooms -> Slots] /\ crashes' \in 0 .. MaxCrashes
        /\ typing' \subseteq Rooms /\ stranded' \subseteq Rooms
    BY <1>3, BotAssumption, SMT DEF Crash, ChatTypeOK, Slots, SessionOrNone, EmptySlot, Ages
  <2>3. UNCHANGED <<client, sid, reply, turn, opened, retired, refused, loggedOut>>
    BY <1>3, Zenon DEF Crash, wpVars
  <2> QED
    BY <2>1, <2>2, <2>3, SMT DEF ChatTypeOK, ClientKnown, Steps, Slots, SessionOrNone
<1>4. CASE TypingExpires
  <2>1. /\ typing' \subseteq typing /\ stranded' \subseteq stranded
        /\ UNCHANGED <<pc, client, sid, reply, turn, store, opened, retired, refused, loggedOut,
                       crashes>>
    BY <1>4, SMT DEF TypingExpires, turnVars, wpVars
  <2> QED
    BY <2>1, SMT DEF ChatTypeOK, ClientKnown, Steps
<1>5. CASE UNCHANGED vars
  BY <1>5, SMT DEF vars, typingVars, turnVars, wpVars, ChatTypeOK, ClientKnown, Steps
<1> QED
  BY <1>1, <1>2, <1>3, <1>4, <1>5

LEMMA TypeStep ==
  ASSUME AuthInv, TypeOK, ClientKnown, [Next]_vars
  PROVE  (TypeOK /\ ClientKnown)'
<1>1. AuthTypeOK'
  BY NextAuthInv DEF AuthInv
<1>2. ASSUME NEW t \in Turns, Begin(t) \/ Handler(t)
      PROVE  (ChatTypeOK /\ ClientKnown)'
  BY <1>2, GoesOnType, EndsType, ResolveType, ReadSessionType, SendReturnsType, ContinueChatType,
     Zenon DEF Handler, TypeOK
<1>3. (ChatTypeOK /\ ClientKnown)'
  BY <1>2, OthersType, Zenon DEF Next, TypeOK
<1> QED
  BY <1>1, <1>3, Zenon DEF TypeOK

LEMMA Types == Spec => [](AuthInv /\ ChatInv /\ TypeOK /\ ClientKnown)
<1>1. AuthInv /\ ChatInv /\ TypeOK /\ ClientKnown /\ [Next]_vars => (TypeOK /\ ClientKnown)'
  BY TypeStep
<1> QED
  BY <1>1, TypeInit, AuthInvariant, PTL DEF Spec

\* Every reachable state of BotChat is well typed, and its continue loop within
\* its bound (handlers.go:329).
THEOREM TypeCorrect == Spec => []TypeOK
<1>1. AuthInv /\ ChatInv /\ TypeOK /\ ClientKnown => TypeOK
  OBVIOUS
<1> QED
  BY <1>1, Types, PTL

-----------------------------------------------------------------------------
\* A room where nothing was left behind is shown as typing only while a turn of
\* it is past its tests.
TypingInv ==
    \A r \in typing \ stranded :
        \E t \in Turns : Room[t] = r /\ pc[t] \in {"fetching", "uploading", "ready", "read",
                                                  "deriving", "sending", "continuing"}

\* What a call does to the rooms that somebody still has to clear.
LEMMA UserTypingEffect ==
  ASSUME NEW r, NEW on \in BOOLEAN, UserTyping(r, on)
  PROVE  /\ on => typing' \ stranded' \subseteq (typing \ stranded) \cup {r}
         /\ ~on => typing' \ stranded' \subseteq (typing \ stranded) \ {r}
<1>1. CASE UserTypingFails(r, on)
  <2>1. /\ typing' = typing
        /\ stranded' = IF on THEN stranded ELSE stranded \cup (typing \cap {r})
    BY <1>1, Zenon DEF UserTypingFails
  <2> QED
    BY <2>1, SMT
<1>2. CASE ~UserTypingFails(r, on)
  <2>1. /\ typing' = IF on THEN typing \cup {r} ELSE typing \ {r}
        /\ stranded' = stranded \ {r}
    BY <1>2, Zenon DEF UserTyping
  <2> QED
    BY <2>1, SMT
<1> QED
  BY <1>1, <1>2

LEMMA TypingStep ==
  ASSUME TypeOK, TypingInv, [Next]_vars
  PROVE  TypingInv'
<1> DEFINE Busy == {"fetching", "uploading", "ready", "read", "deriving", "sending", "continuing"}
           Shown == typing \ stranded
<1>1. pc \in [Turns -> Steps]
  BY DEF TypeOK, ChatTypeOK, Steps
<1>2. ASSUME NEW t \in Turns, NEW to \in Steps, pc' = [pc EXCEPT ![t] = to],
             \/ Shown' = Shown /\ pc[t] \notin Busy
             \/ Shown' = Shown /\ to \in Busy
             \/ Shown' \subseteq Shown \cup {Room[t]} /\ to \in Busy
             \/ Shown' \subseteq Shown \ {Room[t]}
      PROVE  TypingInv'
  <2> HIDE DEF Shown
  <2>1. \A r \in Shown : \E u \in Turns : Room[u] = r /\ pc[u] \in Busy
    BY Zenon DEF TypingInv, Shown
  <2>2. \A r \in Shown' : \E u \in Turns : Room[u] = r /\ pc'[u] \in Busy
    BY <1>1, <1>2, <2>1, SMT
  <2> QED
    BY <2>2, Zenon DEF TypingInv, Shown
<1> HIDE DEF Busy
<1>3. ASSUME NEW t \in Turns, Begin(t) \/ Handler(t)
      PROVE  TypingInv'
  <2>1. CASE Begin(t)
    <3>1. /\ UNCHANGED <<typing, stranded>> /\ pc[t] = "idle"
          /\ \E to \in {"done", "begun"} : pc' = [pc EXCEPT ![t] = to]
      BY <2>1, Zenon DEF Begin, Done, Goto, typingVars
    <3>2. PICK to \in {"done", "begun"} : pc' = [pc EXCEPT ![t] = to]
      BY <3>1
    <3>3. to \in Steps /\ pc[t] \notin Busy
      BY <3>1, SMT DEF Steps, Busy
    <3> QED
      BY <1>2, <3>1, <3>2, <3>3, Zenon
  <2>2. CASE Logout(t) \/ ResolveUserClient(t) \/ ResolveWithLink(t) \/ ResolveFails(t) \/ Reset(t)
    <3>1. /\ UNCHANGED <<typing, stranded>> /\ pc[t] \in {"begun", "resolved"}
          /\ \E to \in {"done", "resolved"} : pc' = [pc EXCEPT ![t] = to]
      BY <2>2, Zenon DEF Logout, ResolveUserClient, ResolveWithLink, ResolveFails, Reset, Done,
         Goto, typingVars
    <3>2. PICK to \in {"done", "resolved"} : pc' = [pc EXCEPT ![t] = to]
      BY <3>1
    <3>3. to \in Steps /\ pc[t] \notin Busy
      BY <3>1, SMT DEF Steps, Busy
    <3> QED
      BY <1>2, <3>1, <3>2, <3>3, Zenon
  <2>3. CASE ImageFetched(t) \/ ImageUploaded(t) \/ ReadSession(t) \/ SendMessage(t) \/ SendReturns(t)
    <3>1. /\ UNCHANGED <<typing, stranded>>
          /\ \E to \in {"uploading", "ready", "read", "sending", "continuing"} :
                pc' = [pc EXCEPT ![t] = to]
      BY <2>3, Zenon DEF ImageFetched, ImageUploaded, ReadSession, SendMessage, SendReturns, Goto,
         typingVars
    <3>2. PICK to \in {"uploading", "ready", "read", "sending", "continuing"} :
            pc' = [pc EXCEPT ![t] = to]
      BY <3>1
    <3>3. to \in Steps /\ to \in Busy
      BY <3>1, SMT DEF Steps, Busy
    <3> QED
      BY <1>2, <3>1, <3>2, <3>3, Zenon
  <2>4. CASE ImageBegins(t) \/ StartTyping(t)
    <3>1. /\ UserTyping(Room[t], TRUE)
          /\ \E to \in {"fetching", "deriving"} : pc' = [pc EXCEPT ![t] = to]
      BY <2>4, Zenon DEF ImageBegins, StartTyping, Goto
    <3>2. PICK to \in {"fetching", "deriving"} : pc' = [pc EXCEPT ![t] = to]
      BY <3>1
    <3>3. to \in Steps /\ to \in Busy
      BY <3>1, SMT DEF Steps, Busy
    <3>4. Shown' \subseteq Shown \cup {Room[t]}
      BY <3>1, UserTypingEffect
    <3> QED
      BY <1>2, <3>2, <3>3, <3>4, Zenon
  <2>5. CASE ImageRefused(t) \/ RequestRefused(t) \/ RequestFails(t) \/ Conclude(t)
    <3>1. UserTyping(Room[t], FALSE) /\ pc' = [pc EXCEPT ![t] = "done"]
      BY <2>5, Zenon DEF ImageRefused, RequestRefused, RequestFails, Conclude, Done, Goto
    <3>2. "done" \in Steps
      BY DEF Steps
    <3>3. Shown' \subseteq Shown \ {Room[t]}
      BY <3>1, UserTypingEffect
    <3> QED
      BY <1>2, <3>1, <3>2, <3>3, Zenon
  <2>6. CASE ContinueChat(t)
    <3>1. UNCHANGED <<pc, typing, stranded>>
      BY <2>6, Zenon DEF ContinueChat, typingVars
    <3> QED
      BY <3>1, Zenon DEF TypingInv
  <2> QED
    BY <1>3, <2>1, <2>2, <2>3, <2>4, <2>5, <2>6 DEF Handler
<1>4. CASE Authorize \/ TimePasses \/ UNCHANGED vars
  <2>1. UNCHANGED <<pc, typing, stranded>>
    BY <1>4, Zenon DEF Authorize, TimePasses, vars, turnVars, typingVars
  <2> QED
    BY <2>1, Zenon DEF TypingInv
<1>5. CASE TypingExpires
  <2>1. Shown' \subseteq Shown /\ UNCHANGED pc
    BY <1>5, SMT DEF TypingExpires, turnVars
  <2> QED
    BY <2>1, Zenon DEF TypingInv
<1>6. CASE Crash
  <2>1. Shown' = {}
    BY <1>6, SMT DEF Crash
  <2> QED
    BY <2>1, Zenon DEF TypingInv
<1> QED
  BY <1>3, <1>4, <1>5, <1>6 DEF Next

\* Whichever exit the handlers of a room take, alone or overlapping, the bot is
\* shown as typing there afterwards only if the call to clear it failed or a
\* crash came before it (handlers.go:162-346).
THEOREM TypingEnds == Spec => []TypingStops
<1>1. Init => TypingInv
  BY SMT DEF Init, TypingInv
<1>2. TypingInv => TypingStops
  BY SMT DEF TypingInv, TypingStops, Active
<1>3. TypeOK /\ TypingInv /\ [Next]_vars => TypingInv'
  BY TypingStep
<1> QED
  BY <1>1, <1>2, <1>3, TypeCorrect, PTL DEF Spec

\* Nothing but a failed call or a crash leaves a room behind.
LEMMA StrandedStep ==
  ASSUME ~TypingFails, MaxCrashes = 0
  PROVE  TypeOK /\ stranded = {} /\ [Next]_vars => stranded' = {}
<1> SUFFICES ASSUME TypeOK, stranded = {}, [Next]_vars PROVE stranded' = {}
  OBVIOUS
<1>1. ASSUME NEW t \in Turns, Begin(t) \/ Handler(t)
      PROVE  stranded' = {}
  <2>1. \/ UserTyping(Room[t], TRUE) \/ UserTyping(Room[t], FALSE) \/ stranded' = stranded
    BY <1>1, Zenon DEF Begin, Handler, Logout, ResolveUserClient, ResolveWithLink, ResolveFails,
       Reset, ImageBegins, ImageRefused, ImageFetched, ImageUploaded, ReadSession, StartTyping,
       SendMessage, SendReturns, RequestRefused, RequestFails, ContinueChat, Conclude, typingVars
  <2>2. stranded' = stranded \ {Room[t]} \/ stranded' = stranded
    BY <2>1, Zenon DEF UserTyping, UserTypingFails
  <2> QED
    BY <2>2, Zenon
<1>2. CASE Authorize \/ TimePasses \/ UNCHANGED vars
  BY <1>2, Zenon DEF Authorize, TimePasses, typingVars, vars
<1>3. CASE TypingExpires
  <2>1. \E r : stranded' = stranded \ {r}
    BY <1>3, Zenon DEF TypingExpires
  <2> QED
    BY <2>1, Zenon
<1>4. ~Crash
  BY SMT DEF Crash, TypeOK, ChatTypeOK
<1> QED
  BY <1>1, <1>2, <1>3, <1>4, Zenon DEF Next

\* The exceptions of TypingStops have no other causes: where no call fails and
\* nothing crashes, the bot is shown as typing in no room whose handlers have
\* ended (handlers.go:162, handlers.go:308, handlers.go:346).
THEOREM TypingEndsUndisturbed ==
  ASSUME ~TypingFails, MaxCrashes = 0
  PROVE  Spec => [](\A r \in Rooms :
                      (\A t \in Turns : Room[t] = r => ~Active(t)) => r \notin typing)
<1> DEFINE Nobody == stranded = {}
           Quiet  == \A r \in Rooms :
                       (\A t \in Turns : Room[t] = r => ~Active(t)) => r \notin typing
<1>1. Init => Nobody
  BY Zenon DEF Init
<1>2. TypeOK /\ Nobody /\ [Next]_vars => Nobody'
  BY StrandedStep, Zenon
<1>3. TypingStops /\ Nobody => Quiet
  BY Zenon DEF TypingStops
<1> HIDE DEF Nobody, Quiet
<1>4. Spec => []Quiet
  BY <1>1, <1>2, <1>3, TypeCorrect, TypingEnds, PTL DEF Spec
<1> QED
  BY <1>4 DEF Quiet

-----------------------------------------------------------------------------
\* What a turn has before it: the places its handler still has to come through,
\* and the calls it may still make there.
Place == [idle |-> 10, begun |-> 9, resolved |-> 8, fetching |-> 7, uploading |-> 6, ready |-> 5,
          read |-> 4, deriving |-> 3, sending |-> 2, continuing |-> 1, done |-> 0]

Rank(t) == Place[pc[t]] + (MaxContinueTurns - turn[t])

\* No step takes a turn back, and each step of its handler takes it further.
TurnsAdvance ==
    [][\A t \in Turns : Rank(t)' <= Rank(t) /\ (Handler(t) => Rank(t)' < Rank(t))]_vars

LEMMA PlaceFacts ==
  /\ Place["idle"] = 10 /\ Place["begun"] = 9 /\ Place["resolved"] = 8
  /\ Place["fetching"] = 7 /\ Place["uploading"] = 6 /\ Place["ready"] = 5
  /\ Place["read"] = 4 /\ Place["deriving"] = 3
  /\ Place["sending"] = 2 /\ Place["continuing"] = 1 /\ Place["done"] = 0
  /\ Place' = Place
  BY SMT DEF Place

\* The rank of a turn is a natural number: it cannot decrease for ever.
LEMMA RankNat ==
  ASSUME TypeOK, NEW t \in Turns
  PROVE  /\ Rank(t) \in Nat
         /\ turn[t] \in 0 .. MaxContinueTurns /\ Place[pc[t]] \in 0 .. 10
<1>1. turn[t] \in 0 .. MaxContinueTurns /\ Place[pc[t]] \in 0 .. 10
  BY PlaceFacts, SMT DEF TypeOK, ChatTypeOK
<1> QED
  BY <1>1, BotAssumption, SMT DEF Rank

\* A turn that goes to a later place, with its count as it is.
LEMMA MovesOn ==
  ASSUME TypeOK, NEW t \in Turns, UNCHANGED turn,
         NEW to \in Steps \ {"idle"}, pc' = [pc EXCEPT ![t] = to], Place[to] < Place[pc[t]]
  PROVE  Rank(t)' < Rank(t) /\ \A u \in Turns : Rank(u)' <= Rank(u)
<1>1. pc'[t] = to /\ \A u \in Turns \ {t} : pc'[u] = pc[u]
  BY SMT DEF TypeOK, ChatTypeOK
<1>2. Place[to] \in 0 .. 10
  BY PlaceFacts, SMT DEF Steps
<1>3. Rank(t)' < Rank(t) /\ Rank(t)' <= Rank(t)
  BY <1>1, <1>2, RankNat, PlaceFacts, BotAssumption, SMT DEF Rank
<1>4. ASSUME NEW u \in Turns \ {t}
      PROVE  Rank(u)' <= Rank(u)
  <2>1. Rank(u)' = Rank(u)
    BY <1>1, PlaceFacts, Zenon DEF Rank
  <2> QED
    BY <2>1, RankNat, SMT
<1> QED
  BY <1>3, <1>4, Zenon

LEMMA HandlerAdvances ==
  ASSUME TypeOK, NEW t \in Turns, Handler(t)
  PROVE  Rank(t)' < Rank(t) /\ \A u \in Turns : Rank(u)' <= Rank(u)
<1>1. CASE ContinueChat(t)
  <2>1. turn' = [turn EXCEPT ![t] = @ + 1] /\ UNCHANGED pc
    BY <1>1, Zenon DEF ContinueChat
  <2>2. \A u \in Turns : /\ turn[u] \in 0 .. MaxContinueTurns /\ Place[pc[u]] \in 0 .. 10
                         /\ turn'[u] = IF u = t THEN turn[u] + 1 ELSE turn[u]
    BY <2>1, RankNat, SMT DEF TypeOK, ChatTypeOK
  <2> QED
    BY <2>1, <2>2, PlaceFacts, BotAssumption, SMT DEF Rank
<1>2. CASE ~ContinueChat(t)
  <2>1. UNCHANGED turn
    BY <1>2, Zenon DEF Handler, Logout, ResolveUserClient, ResolveWithLink, ResolveFails, Reset,
       ImageBegins, ImageRefused, ImageFetched, ImageUploaded, ReadSession, StartTyping,
       SendMessage, SendReturns,
       RequestRefused, RequestFails, Conclude
  <2>2. \/ /\ pc[t] = "begun"
           /\ \/ pc' = [pc EXCEPT ![t] = "resolved"] \/ pc' = [pc EXCEPT ![t] = "done"]
        \/ /\ pc[t] \in {"resolved", "ready"}
           /\ \/ pc' = [pc EXCEPT ![t] = "read"] \/ pc' = [pc EXCEPT ![t] = "done"]
        \/ /\ pc[t] = "read" /\ pc' = [pc EXCEPT ![t] = "deriving"]
        \/ /\ pc[t] = "deriving" /\ pc' = [pc EXCEPT ![t] = "sending"]
        \/ /\ pc[t] = "resolved" /\ pc' = [pc EXCEPT ![t] = "fetching"]
        \/ /\ pc[t] = "fetching"
           /\ \/ pc' = [pc EXCEPT ![t] = "uploading"] \/ pc' = [pc EXCEPT ![t] = "done"]
        \/ /\ pc[t] \in {"uploading", "sending", "continuing"}
           /\ pc' = [pc EXCEPT ![t] = "done"]
        \/ /\ pc[t] = "uploading" /\ pc' = [pc EXCEPT ![t] = "ready"]
        \/ /\ pc[t] = "sending" /\ pc' = [pc EXCEPT ![t] = "continuing"]
    <3>1. CASE Logout(t) \/ ResolveUserClient(t) \/ ResolveWithLink(t) \/ ResolveFails(t)
      BY <3>1, Zenon DEF Logout, ResolveUserClient, ResolveWithLink, ResolveFails, Done, Goto
    <3>2. CASE Reset(t) \/ ImageBegins(t) \/ ReadSession(t) \/ StartTyping(t) \/ SendMessage(t)
      BY <3>2, Zenon DEF Reset, ImageBegins, ReadSession, StartTyping, SendMessage, Ready, Done,
         Goto
    <3>3. CASE ImageRefused(t) \/ ImageFetched(t) \/ ImageUploaded(t)
      BY <3>3, Zenon DEF ImageRefused, ImageFetched, ImageUploaded, Done, Goto
    <3>4. CASE SendReturns(t) \/ RequestRefused(t) \/ RequestFails(t) \/ Conclude(t)
      BY <3>4, Zenon DEF SendReturns, RequestRefused, RequestFails, Conclude, Done, Goto
    <3> QED
      BY <1>2, <3>1, <3>2, <3>3, <3>4, Zenon DEF Handler
  <2>3. PICK to \in Steps \ {"idle"} :
          pc' = [pc EXCEPT ![t] = to] /\ Place[to] < Place[pc[t]]
    BY <2>2, PlaceFacts, SMT DEF Steps
  <2> QED
    BY <2>1, <2>3, MovesOn, Zenon
<1> QED
  BY <1>1, <1>2, Zenon

\* Whatever overlaps, fails or crashes, every step of a handler brings its turn
\* closer to the end and no other step takes one back: a handler takes at most
\* MaxContinueTurns + 9 steps (handlers.go:329).  With the fairness of FairSpec
\* this is TurnEnds, which TLC checks.
THEOREM TurnsOnlyAdvance == Spec => TurnsAdvance
<1> DEFINE A == \A t \in Turns : Rank(t)' <= Rank(t) /\ (Handler(t) => Rank(t)' < Rank(t))
<1>1. TypeOK /\ [Next]_vars => [A]_vars
  <2> SUFFICES ASSUME TypeOK, Next PROVE A
    BY DEF A
  <2>1. \A t \in Turns : Handler(t) => Rank(t)' < Rank(t)
    BY HandlerAdvances, Zenon
  <2>2. ASSUME NEW u \in Turns
        PROVE  Rank(u)' <= Rank(u)
    <3>1. CASE UNCHANGED <<pc, turn>>
      <4>1. Rank(u)' = Rank(u)
        BY <3>1, PlaceFacts, Zenon DEF Rank
      <4> QED
        BY <4>1, RankNat, SMT
    <3>2. ASSUME NEW t \in Turns, Begin(t)
          PROVE  Rank(u)' <= Rank(u)
      <4>1. PICK to \in {"begun", "done"} : pc' = [pc EXCEPT ![t] = to]
        BY <3>2, Zenon DEF Begin, Done, Goto
      <4>2. pc[t] = "idle" /\ UNCHANGED turn
        BY <3>2, Zenon DEF Begin
      <4>3. to \in Steps \ {"idle"} /\ Place[to] < Place[pc[t]]
        BY <4>1, <4>2, PlaceFacts, SMT DEF Steps
      <4> QED
        BY <4>1, <4>2, <4>3, MovesOn, Zenon
    <3>3. CASE Crash
      <4>1. UNCHANGED turn /\ (pc'[u] = pc[u] \/ pc'[u] = "done")
        BY <3>3, SMT DEF Crash
      <4> QED
        BY <4>1, RankNat, PlaceFacts, BotAssumption, SMT DEF Rank
    <3>4. CASE Authorize \/ TimePasses \/ TypingExpires
      BY <3>1, <3>4, Zenon DEF Authorize, TimePasses, TypingExpires, turnVars
    <3>5. ASSUME NEW t \in Turns, Handler(t)
          PROVE  Rank(u)' <= Rank(u)
      BY <3>5, HandlerAdvances, Zenon
    <3> QED
      BY <3>2, <3>3, <3>4, <3>5, Zenon DEF Next
  <2> QED
    BY <2>1, <2>2, Zenon
<1> HIDE DEF A
<1>2. Spec => [][A]_vars
  BY <1>1, TypeCorrect, PTL DEF Spec
<1> QED
  BY <1>2 DEF A, TurnsAdvance

-----------------------------------------------------------------------------
\* Sessions and rooms, however handlers overlap: RoomsInv.

LEMMA NoSessionRetired == TypeOK => NoSession \notin retired \cup opened
  BY BotAssumption, SMT DEF TypeOK, ChatTypeOK

\* A room that is cleared is left without a session, and the sessions of the
\* other rooms are left alone.
LEMMA ClearRoomSessions ==
  ASSUME TypeOK, RoomsInv, NEW r \in Rooms, UNCHANGED <<opened, roomOf>>,
         ClearRoom(r) \/ UNCHANGED <<store, retired>>
  PROVE  retired' \subseteq opened' /\ \A q \in Rooms : InUse(store[q].id, q)'
<1>1. /\ retired \subseteq opened /\ \A q \in Rooms : InUse(store[q].id, q)
      /\ NoSession \notin retired \cup opened
  BY NoSessionRetired DEF RoomsInv
<1>2. CASE UNCHANGED <<store, retired>>
  BY <1>1, <1>2, Zenon DEF InUse, OfRoom
<1>3. CASE ClearRoom(r)
  <2>1. /\ store' = [store EXCEPT ![r] = EmptySlot]
        /\ retired' = retired \cup {s \in opened : roomOf[s] = r}
    BY <1>3 DEF ClearRoom, ClearSession
  <2>2. retired' \subseteq opened'
    BY <1>1, <2>1, SMT
  <2>3. ASSUME NEW q \in Rooms
        PROVE  InUse(store[q].id, q)'
    <3>1. CASE q = r
      <4>1. store'[q].id = NoSession
        BY <2>1, <3>1, SMT DEF TypeOK, ChatTypeOK, EmptySlot
      <4>2. NoSession \notin retired'
        BY <1>1, <2>1, SMT
      <4> QED
        BY <4>1, <4>2, Zenon DEF InUse, OfRoom
    <3>2. CASE q # r
      <4>1. store'[q] = store[q] /\ InUse(store[q].id, q)
        BY <1>1, <2>1, <3>2, SMT DEF TypeOK, ChatTypeOK
      <4>2. OfRoom(store[q].id, q) /\ store[q].id \notin retired'
        BY <1>1, <2>1, <3>2, <4>1, SMT DEF InUse, OfRoom
      <4> QED
        BY <4>1, <4>2, Zenon DEF InUse, OfRoom
    <3> QED
      BY <3>1, <3>2
  <2> QED
    BY <2>2, <2>3
<1> QED
  BY <1>2, <1>3

\* Steps that read no session and are answered with none.
LEMMA PlainRooms ==
  ASSUME TypeOK, RoomsInv, NEW t \in Turns,
         Begin(t) \/ Handler(t), ~ReadSession(t), ~SendReturns(t)
  PROVE  RoomsInv' /\ UNCHANGED sid
<1>1. /\ UNCHANGED <<sid, roomOf>>
      /\ \/ UNCHANGED opened /\ (ClearRoom(Room[t]) \/ UNCHANGED <<store, retired>>)
         \/ UNCHANGED <<store, retired>> /\ opened \subseteq opened'
  <2>1. CASE RequestFails(t)
    <3>1. /\ UNCHANGED <<sid, roomOf, store, retired>>
          /\ \E s : opened' = opened \cup ({s} \ {NoSession})
      BY <2>1, Zenon DEF RequestFails
    <3> QED
      BY <3>1, Zenon
  <2>2. CASE ~RequestFails(t)
    BY <2>2, Zenon DEF Begin, Handler, Logout, ResolveUserClient, ResolveWithLink, ResolveFails,
       Reset, ImageBegins, ImageRefused, ImageFetched, ImageUploaded, StartTyping, SendMessage,
       RequestRefused, ContinueChat, Conclude, wpVars
  <2> QED
    BY <2>1, <2>2
<1>2. retired' \subseteq opened' /\ \A q \in Rooms : InUse(store[q].id, q)'
  <2>1. CASE UNCHANGED opened /\ (ClearRoom(Room[t]) \/ UNCHANGED <<store, retired>>)
    BY <1>1, <2>1, ClearRoomSessions, RoomOfTurn
  <2>2. CASE UNCHANGED <<store, retired>> /\ opened \subseteq opened'
    BY <1>1, <2>2, SMT DEF RoomsInv, InUse, OfRoom
  <2> QED
    BY <1>1, <2>1, <2>2
<1>3. roomOf' \in [Sessions -> Rooms] /\ \A u \in Turns : OfRoom(sid[u], Room[u])'
  <2>1. opened \subseteq opened'
    BY <1>1, Zenon
  <2> QED
    BY <1>1, <2>1, SMT DEF RoomsInv, OfRoom
<1> QED
  BY <1>1, <1>2, <1>3, Zenon DEF RoomsInv, Rooms

\* After the rotation the session is in use, and so is what is read.
LEMMA ReadSessionRooms ==
  ASSUME TypeOK, RoomsInv, NEW t \in Turns, ReadSession(t)
  PROVE  RoomsInv' /\ sid'[t] \notin retired'
<1>1. /\ UNCHANGED <<opened, roomOf>>
      /\ ClearRoom(Room[t]) \/ UNCHANGED <<store, retired>>
      /\ sid' = [sid EXCEPT ![t] = store'[Room[t]].id]
  BY Zenon DEF ReadSession
<1>2. retired' \subseteq opened' /\ \A q \in Rooms : InUse(store[q].id, q)'
  BY <1>1, ClearRoomSessions, RoomOfTurn
<1>3. sid'[t] = store'[Room[t]].id /\ \A u \in Turns \ {t} : sid'[u] = sid[u]
  <2>1. sid \in [Turns -> SessionOrNone]
    BY DEF TypeOK, ChatTypeOK, SessionOrNone
  <2> QED
    BY <1>1, <2>1, Zenon
<1>4. OfRoom(sid[t], Room[t])' /\ sid'[t] \notin retired'
  BY <1>2, <1>3, RoomOfTurn, Zenon DEF InUse, OfRoom
<1>5. ASSUME NEW u \in Turns \ {t}
      PROVE  OfRoom(sid[u], Room[u])'
  <2>1. OfRoom(sid[u], Room[u])
    BY Zenon DEF RoomsInv
  <2>2. sid'[u] = sid[u]
    BY <1>3, Zenon
  <2> QED
    BY <1>1, <2>1, <2>2, SMT DEF OfRoom
<1>6. roomOf' \in [Sessions -> Rooms] /\ \A u \in Turns : OfRoom(sid[u], Room[u])'
  BY <1>1, <1>4, <1>5, Zenon DEF RoomsInv
<1> QED
  BY <1>2, <1>4, <1>6, Zenon DEF RoomsInv, Rooms

\* The slot takes the session of the answer: the one of the request, or one of
\* the same room that was not there.
LEMMA SendReturnsRooms ==
  ASSUME TypeOK, RoomsInv, NEW t \in Turns, SendReturns(t)
  PROVE  /\ RoomsInv' /\ UNCHANGED sid
         /\ retired \subseteq retired' \cup {sid[t]}
<1>1. PICK s \in AnswerSessions(t) :
        /\ opened' = opened \cup ({s} \ {NoSession})
        /\ IF s = NoSession THEN UNCHANGED store
           ELSE store' = [store EXCEPT ![Room[t]] = TouchPortal(RememberSessionID(@, s))]
        /\ retired' = retired \ {s}
  BY Zenon DEF SendReturns
<1>2. UNCHANGED <<sid, roomOf>>
  BY Zenon DEF SendReturns
<1>3. /\ retired \subseteq opened /\ roomOf \in [Sessions -> Rooms]
      /\ \A q \in Rooms : InUse(store[q].id, q)
      /\ \A u \in Turns : OfRoom(sid[u], Room[u])
      /\ NoSession \notin retired \cup opened
  BY NoSessionRetired DEF RoomsInv
<1>4. /\ s = NoSession \/ (s \in opened' /\ roomOf[s] = Room[t] /\ s \in Sessions)
      /\ opened \subseteq opened' /\ s \notin retired' /\ retired' \subseteq retired
      /\ s = sid[t] \/ s \notin retired
  BY <1>1, <1>3, SMT DEF AnswerSessions, OfRoom, TypeOK, ChatTypeOK
<1>5. ASSUME NEW q \in Rooms
      PROVE  InUse(store[q].id, q)'
  <2>1. CASE s # NoSession /\ q = Room[t]
    <3> DEFINE touched == TouchPortal(RememberSessionID(store[q], s))
    <3>1. store[q] \in Slots
      BY DEF TypeOK, ChatTypeOK, Slots, SessionOrNone
    <3>2. touched.id = s
      BY <1>4, <2>1, <3>1, SlotOperations
    <3> HIDE DEF touched
    <3>3. store'[q] = touched
      BY <1>1, <2>1 DEF touched, TypeOK, ChatTypeOK
    <3> QED
      BY <1>2, <1>4, <2>1, <3>2, <3>3, Zenon DEF InUse, OfRoom
  <2>2. CASE s = NoSession \/ q # Room[t]
    <3>1. store'[q] = store[q]
      BY <1>1, <2>2 DEF TypeOK, ChatTypeOK
    <3> QED
      BY <1>2, <1>3, <1>4, <3>1, SMT DEF InUse, OfRoom
  <2> QED
    BY <2>1, <2>2
<1>6. \A u \in Turns : OfRoom(sid[u], Room[u])'
  BY <1>2, <1>3, <1>4, SMT DEF OfRoom
<1>7. retired' \subseteq opened' /\ retired \subseteq retired' \cup {sid[t]}
  BY <1>1, <1>3, <1>4, SMT
<1> QED
  BY <1>2, <1>3, <1>5, <1>6, <1>7, Zenon DEF RoomsInv, Rooms

LEMMA OthersRooms ==
  ASSUME TypeOK, RoomsInv,
         Authorize \/ TimePasses \/ TypingExpires \/ Crash \/ UNCHANGED vars
  PROVE  RoomsInv' /\ UNCHANGED <<sid, retired>>
<1>1. UNCHANGED <<sid, opened, retired, roomOf>>
  BY Zenon DEF Authorize, TimePasses, TypingExpires, Crash, vars, typingVars, turnVars, wpVars
<1>2. \A r \in Rooms : store'[r].id \in {store[r].id, NoSession}
  <2>1. CASE Authorize \/ TypingExpires \/ UNCHANGED vars
    <3>1. UNCHANGED store
      BY <2>1, Zenon DEF Authorize, TypingExpires, vars, typingVars
    <3> QED
      BY <3>1
  <2>2. CASE TimePasses
    <3>1. \A r \in Rooms : store'[r] = Aged(store[r])
      BY <2>2, Zenon DEF TimePasses
    <3>2. \A r \in Rooms : Aged(store[r]).id = store[r].id
      BY SMT DEF TypeOK, ChatTypeOK, Ages, Aged
    <3> QED
      BY <3>1, <3>2
  <2>3. CASE Crash
    <3>1. \A r \in Rooms : store'[r] = EmptySlot
      BY <2>3, Zenon DEF Crash
    <3> QED
      BY <3>1, SMT DEF EmptySlot
  <2> QED
    BY <2>1, <2>2, <2>3
<1>3. \A r \in Rooms : InUse(store[r].id, r)'
  <2>1. \A r \in Rooms : InUse(store[r].id, r)
    BY DEF RoomsInv
  <2>2. NoSession \notin retired
    BY NoSessionRetired
  <2> QED
    BY <1>1, <1>2, <2>1, <2>2, SMT DEF InUse, OfRoom
<1>4. \A u \in Turns : OfRoom(sid[u], Room[u])'
  BY <1>1, Zenon DEF RoomsInv, OfRoom
<1>5. retired' \subseteq opened' /\ roomOf' \in [Sessions -> Rooms]
  BY <1>1, Zenon DEF RoomsInv
<1> QED
  BY <1>1, <1>3, <1>4, <1>5, Zenon DEF RoomsInv, Rooms

LEMMA RoomsInit == Init => RoomsInv
  BY SMT DEF Init, RoomsInv, InUse, OfRoom, EmptySlot

LEMMA RoomsStep == TypeOK /\ RoomsInv /\ [Next]_vars => RoomsInv'
<1> SUFFICES ASSUME TypeOK, RoomsInv, [Next]_vars PROVE RoomsInv'
  OBVIOUS
<1>1. ASSUME NEW t \in Turns, Begin(t) \/ Handler(t)
      PROVE  RoomsInv'
  BY <1>1, PlainRooms, ReadSessionRooms, SendReturnsRooms
<1> QED
  BY <1>1, OthersRooms, Zenon DEF Next

\* However handlers overlap, fail or crash, a room's session was created for it
\* and not given up (handlers.go:291-326).
LEMMA RoomsInvariant == Spec => [](TypeOK /\ RoomsInv)
<1>1. TypeOK /\ RoomsInv /\ [Next]_vars => RoomsInv'
  BY RoomsStep
<1> QED
  BY <1>1, RoomsInit, TypeCorrect, PTL DEF Spec

\* However handlers overlap, fail or crash, the session a turn reads for its
\* message is not one that was given up (handlers.go:290-299).  Of an overlapping
\* turn it may be given up before the message is sent.
THEOREM ReadsInUse ==
    Spec => [][\A t \in Turns :
                 pc[t] # "read" /\ pc'[t] = "read" => sid'[t] \notin retired']_vars
<1> DEFINE A == \A t \in Turns :
                  pc[t] # "read" /\ pc'[t] = "read" => sid'[t] \notin retired'
<1>1. TypeOK /\ RoomsInv /\ [Next]_vars => [A]_vars
  <2> SUFFICES ASSUME TypeOK, RoomsInv, Next,
                      NEW t \in Turns, pc[t] # "read", pc'[t] = "read"
               PROVE  sid'[t] \notin retired'
    BY Zenon
  <2>1. \A u \in Turns : Begin(u) \/ Handler(u) =>
           \/ ReadSession(u)
           \/ pc' = pc
           \/ \E to \in {"begun", "resolved", "fetching", "uploading", "ready", "deriving",
                         "sending", "continuing", "done"} : pc' = [pc EXCEPT ![u] = to]
    BY Zenon DEF Begin, Handler, Logout, ResolveUserClient, ResolveWithLink, ResolveFails, Reset,
       ImageBegins, ImageRefused, ImageFetched, ImageUploaded, StartTyping, SendMessage,
       SendReturns, RequestRefused,
       RequestFails, ContinueChat, Conclude, Done, Goto
  <2>2. \/ \E u \in Turns : Begin(u) \/ Handler(u)
        \/ UNCHANGED pc
        \/ \A u \in Turns : pc'[u] = pc[u] \/ pc'[u] = "done"
    BY Zenon DEF Next, Authorize, TimePasses, TypingExpires, Crash, turnVars
  <2>3. PICK u \in Turns : Begin(u) \/ Handler(u)
    BY <2>2, SMT
  <2>4. ReadSession(u)
    BY <2>1, <2>3, SMT DEF TypeOK, ChatTypeOK
  <2>5. pc' = [pc EXCEPT ![u] = "read"]
    BY <2>4, Zenon DEF ReadSession, Goto
  <2>6. u = t
    BY <2>5, SMT DEF TypeOK, ChatTypeOK
  <2> QED
    BY <2>4, <2>6, ReadSessionRooms
<1> HIDE DEF A
<1>2. Spec => [][A]_vars
  BY <1>1, RoomsInvariant, PTL DEF Spec
<1> QED
  BY <1>2 DEF A

-----------------------------------------------------------------------------
\* Sessions, where handlers run one after the other: SessionsInv.

\* Only the turn that takes the step is, or becomes, active.
LEMMA OnlyActive ==
  ASSUME TypeOK, SessionsInv, ~Overlap, NEW t \in Turns, Begin(t) \/ Handler(t)
  PROVE  \A u \in Turns \ {t} : pc'[u] = pc[u] /\ pc[u] \in {"idle", "done"}
<1>1. \E to \in Steps : pc' = [pc EXCEPT ![t] = to]
  <2>1. \/ pc' = pc
        \/ \E to \in {"begun", "resolved", "fetching", "uploading", "ready", "read",
                       "deriving", "sending", "continuing", "done"} : pc' = [pc EXCEPT ![t] = to]
    BY Zenon DEF Begin, Handler, Logout, ResolveUserClient, ResolveWithLink, ResolveFails, Reset,
       ImageBegins, ImageRefused, ImageFetched, ImageUploaded, ReadSession, StartTyping,
       SendMessage, SendReturns,
       RequestRefused, RequestFails, ContinueChat, Conclude, Done, Goto
  <2> QED
    BY <2>1, SMT DEF TypeOK, ChatTypeOK, Steps
<1>2. \A u \in Turns \ {t} : pc'[u] = pc[u]
  BY <1>1, SMT DEF TypeOK, ChatTypeOK
<1>3. CASE Begin(t)
  <2>1. \A u \in Turns : ~Active(u)
    BY <1>3, Zenon DEF Begin
  <2> QED
    BY <1>2, <2>1, SMT DEF Active
<1>4. CASE Handler(t)
  <2>1. pc[t] \in Steps \ {"idle", "done"}
    <3>1. pc[t] \in {"begun", "resolved", "fetching", "uploading", "ready", "read", "deriving",
                    "sending", "continuing"}
      BY <1>4, Zenon DEF Handler, Logout, ResolveUserClient, ResolveWithLink, ResolveFails, Reset,
         ImageBegins, ImageRefused, ImageFetched, ImageUploaded, ReadSession, StartTyping,
         SendMessage, SendReturns,
         RequestRefused, RequestFails, ContinueChat, Conclude, Ready
    <3> QED
      BY <3>1, SMT DEF Steps
  <2>2. \A u \in Turns : Active(t) /\ Active(u) => t = u
    BY DEF SessionsInv
  <2> QED
    BY <1>2, <2>1, <2>2, SMT DEF Active
<1> QED
  BY <1>3, <1>4

\* Whoever steps, the sessions of turns that go on waiting are not given up.
LEMMA HandlerSessions ==
  ASSUME TypeOK, SessionsInv, ~Overlap, NEW t \in Turns, Begin(t) \/ Handler(t)
  PROVE  SessionsInv' /\ retired \subseteq retired'
<1> DEFINE Waiting == {"read", "deriving", "sending"}
<1>1. \A u \in Turns \ {t} : pc'[u] = pc[u] /\ pc[u] \in {"idle", "done"}
  BY OnlyActive
<1>2. \A u, v \in Turns : Active(u)' /\ Active(v)' => u = v
  BY <1>1, SMT DEF Active
<1>3. \A u \in Turns : pc'[u] \in Waiting => u = t
  BY <1>1, SMT
<1>4. RoomsInv /\ \A u \in Turns : pc[u] \in Waiting => sid[u] \notin retired
  BY DEF SessionsInv
<1>5. CASE ReadSession(t)
  <2>1. retired \subseteq retired'
    BY <1>5, Zenon DEF ReadSession, ClearRoom
  <2> QED
    BY <1>2, <1>3, <1>4, <1>5, <2>1, ReadSessionRooms, Zenon DEF SessionsInv
<1>6. CASE StartTyping(t) \/ SendMessage(t)
  <2>1. pc[t] \in Waiting /\ UNCHANGED <<sid, retired>>
    BY <1>6, Zenon DEF StartTyping, SendMessage, wpVars
  <2>2. pc' = [pc EXCEPT ![t] = "deriving"] \/ pc' = [pc EXCEPT ![t] = "sending"]
    BY <1>6, Zenon DEF StartTyping, SendMessage, Goto
  <2>3. ~ReadSession(t) /\ ~SendReturns(t)
    BY <2>2, SMT DEF ReadSession, SendReturns, Goto, TypeOK, ChatTypeOK
  <2>4. RoomsInv'
    BY <1>4, <2>3, PlainRooms
  <2>5. \A u \in Turns : pc'[u] \in Waiting => sid'[u] \notin retired'
    BY <1>3, <1>4, <2>1, Zenon
  <2> QED
    BY <1>2, <2>1, <2>4, <2>5, Zenon DEF SessionsInv
<1>7. CASE SendReturns(t)
  <2>1. pc[t] = "sending" /\ pc' = [pc EXCEPT ![t] = "continuing"]
    BY <1>7, Zenon DEF SendReturns, Goto
  <2>2. pc'[t] = "continuing"
    BY <2>1 DEF TypeOK, ChatTypeOK
  <2>3. \A u \in Turns : pc'[u] \notin Waiting
    BY <1>3, <2>2, SMT
  <2>4. RoomsInv' /\ retired \subseteq retired' \cup {sid[t]} /\ sid[t] \notin retired
    BY <1>4, <1>7, <2>1, SendReturnsRooms
  <2> QED
    BY <1>2, <2>3, <2>4, Zenon DEF SessionsInv
<1>8. CASE ~ReadSession(t) /\ ~StartTyping(t) /\ ~SendMessage(t) /\ ~SendReturns(t)
  <2>1. pc'[t] \notin Waiting
    <3>1. \/ \E to \in {"begun", "resolved", "fetching", "uploading", "ready", "done"} :
               pc' = [pc EXCEPT ![t] = to]
          \/ pc' = pc /\ pc[t] = "continuing"
      BY <1>8, Zenon DEF Begin, Handler, Logout, ResolveUserClient, ResolveWithLink, ResolveFails,
         Reset, ImageBegins, ImageRefused, ImageFetched, ImageUploaded, RequestRefused,
         RequestFails, ContinueChat, Conclude, Done, Goto
    <3> QED
      BY <3>1, SMT DEF TypeOK, ChatTypeOK
  <2>2. \A u \in Turns : pc'[u] \notin Waiting
    BY <1>3, <2>1, SMT
  <2>3. retired \subseteq retired'
    BY <1>8, Zenon DEF Begin, Handler, Logout, ResolveUserClient, ResolveWithLink, ResolveFails,
       Reset, ImageBegins, ImageRefused, ImageFetched, ImageUploaded, RequestRefused,
       RequestFails, ContinueChat, Conclude, ClearRoom, wpVars
  <2> QED
    BY <1>2, <1>4, <1>8, <2>2, <2>3, PlainRooms, Zenon DEF SessionsInv
<1> QED
  BY <1>5, <1>6, <1>7, <1>8

LEMMA OthersSessions ==
  ASSUME TypeOK, SessionsInv,
         Authorize \/ TimePasses \/ TypingExpires \/ Crash \/ UNCHANGED vars
  PROVE  SessionsInv' /\ retired \subseteq retired'
<1> DEFINE Waiting == {"read", "deriving", "sending"}
<1>1. RoomsInv' /\ UNCHANGED <<sid, retired>>
  BY OthersRooms DEF SessionsInv
<1>2. \A u \in Turns : pc'[u] = pc[u] \/ pc'[u] = "done"
  <2>1. CASE Crash
    <3>1. \A u \in Turns : pc'[u] = IF Active(u) THEN "done" ELSE pc[u]
      BY <2>1, Zenon DEF Crash
    <3> QED
      BY <3>1, Zenon
  <2>2. CASE ~Crash
    <3>1. UNCHANGED pc
      BY <2>2, Zenon DEF Authorize, TimePasses, TypingExpires, vars, turnVars
    <3> QED
      BY <3>1
  <2> QED
    BY <2>1, <2>2
<1>3. /\ \A u, v \in Turns : Active(u) /\ Active(v) => u = v
      /\ \A u \in Turns : pc[u] \in Waiting => sid[u] \notin retired
  BY DEF SessionsInv
<1>4. \A u, v \in Turns : Active(u)' /\ Active(v)' => u = v
  BY <1>2, <1>3, SMT DEF Active
<1>5. \A u \in Turns : pc'[u] \in Waiting => sid'[u] \notin retired'
  BY <1>1, <1>2, <1>3, SMT
<1> QED
  BY <1>1, <1>4, <1>5, Zenon DEF SessionsInv

LEMMA SessionsStep ==
  ASSUME ~Overlap, TypeOK, SessionsInv, [Next]_vars
  PROVE  SessionsInv' /\ retired \subseteq retired'
<1>1. ASSUME NEW t \in Turns, Begin(t) \/ Handler(t)
      PROVE  SessionsInv' /\ retired \subseteq retired'
  BY <1>1, HandlerSessions
<1> QED
  BY <1>1, OthersSessions, Zenon DEF Next

\* Where handlers run one after the other, no session is given up while a turn
\* waits under it, whatever fails or crashes (handlers.go:291-326).
THEOREM SessionsInvariant ==
  ASSUME ~Overlap
  PROVE  Spec => []SessionsInv
<1>1. Init => SessionsInv
  BY RoomsInit, SMT DEF Init, SessionsInv, Active
<1>2. TypeOK /\ SessionsInv /\ [Next]_vars => SessionsInv'
  BY SessionsStep
<1> QED
  BY <1>1, <1>2, TypeCorrect, PTL DEF Spec

\* After /new, /logout or a rotation no message is sent in an earlier session of
\* the room, from when its id is read until WordPress has it
\* (handlers.go:291-306).
THEOREM NeverSentAgain ==
  ASSUME ~Overlap
  PROVE  Spec => RetiredNeverSent
<1> DEFINE A == \A t \in Turns :
                  pc[t] # "sending" /\ pc'[t] = "sending" => sid'[t] \notin retired'
<1>1. TypeOK /\ SessionsInv /\ [Next]_vars => [A]_vars
  <2> SUFFICES ASSUME TypeOK, SessionsInv, Next PROVE A
    BY DEF A
  <2>1. SessionsInv'
    BY SessionsStep
  <2> QED
    BY <2>1, Zenon DEF SessionsInv
<1> HIDE DEF A
<1>2. Spec => [][A]_vars
  BY <1>1, TypeCorrect, SessionsInvariant, PTL DEF Spec
<1> QED
  BY <1>2 DEF A, RetiredNeverSent

\* Then a session that was given up stays so: with NeverSentAgain, no later
\* message is ever sent in it.
THEOREM StaysGivenUp ==
  ASSUME ~Overlap
  PROVE  Spec => [][retired \subseteq retired']_vars
<1> DEFINE A == retired \subseteq retired'
<1>1. TypeOK /\ SessionsInv /\ [Next]_vars => [A]_vars
  BY SessionsStep
<1> HIDE DEF A
<1>2. Spec => [][A]_vars
  BY <1>1, TypeCorrect, SessionsInvariant, PTL DEF Spec
<1> QED
  BY <1>2 DEF A

-----------------------------------------------------------------------------
\* Tokens, whether or not the store fails: TokensInv.

\* A step that grants nothing and stores nothing new.
LEMMA TokensKept ==
  ASSUME TokensInv, UNCHANGED grantee,
         TokensOut' \subseteq TokensOut \cup {NoToken, GlobalToken},
         \A c \in Callbacks : callback'[c].token \in {callback[c].token, NoToken},
         \A k \in refused' \ {GlobalToken} : \A u \in Users : tokens'[u] # k
  PROVE  TokensInv'
<1>1. ASSUME NEW c \in Callbacks, callback'[c].token # NoToken
      PROVE  /\ callback'[c].token \notin TokensOut' \cup {GlobalToken}
             /\ grantee'[callback'[c].token] # NoUser
             /\ \A d \in Callbacks : callback'[d].token = callback'[c].token => d = c
  <2>1. callback'[c].token = callback[c].token
    BY <1>1
  <2>2. /\ callback[c].token \notin TokensOut \cup {GlobalToken}
        /\ grantee[callback[c].token] # NoUser
        /\ \A d \in Callbacks : callback[d].token = callback[c].token => d = c
    BY <1>1, <2>1, Zenon DEF TokensInv
  <2>3. \A d \in Callbacks : callback'[d].token = callback'[c].token => d = c
    BY <1>1, <2>1, <2>2, SMT
  <2> QED
    BY <1>1, <2>1, <2>2, <2>3, SMT
<1>2. \A k \in TokensOut' \ {NoToken, GlobalToken} : grantee'[k] # NoUser
  <2>1. \A k \in TokensOut \ {NoToken, GlobalToken} : grantee[k] # NoUser
    BY Zenon DEF TokensInv
  <2> QED
    BY <2>1, SMT
<1> QED
  BY <1>1, <1>2, Zenon DEF TokensInv

\* A handler that is refused nothing: the token of a turn comes from the store.
LEMMA HandlerTokens ==
  ASSUME TypeOK, TokensInv, NEW t \in Turns, Begin(t) \/ Handler(t), ~RequestRefused(t)
  PROVE  TokensInv'
<1>1. /\ UNCHANGED <<callback, grantee, refused>>
      /\ UNCHANGED tokens \/ DeleteToken(Sender[t])
  <2>1. CASE AuthHandler(t)
    BY <2>1, Zenon DEF AuthHandler, Logout, ResolveWithLink, wpVars
  <2>2. CASE ~AuthHandler(t)
    <3>1. UNCHANGED authVars
      BY <2>2, HandlerAuth
    <3>2. UNCHANGED refused
      BY Zenon DEF Begin, Handler, Logout, ResolveUserClient, ResolveWithLink, ResolveFails,
         Reset, ImageBegins, ImageRefused, ImageFetched, ImageUploaded, ReadSession,
         StartTyping, SendMessage, SendReturns,
         RequestFails, ContinueChat, Conclude, wpVars
    <3> QED
      BY <3>1, <3>2, Zenon DEF authVars
  <2> QED
    BY <2>1, <2>2
<1>2. \A u \in Users : tokens'[u] \in {tokens[u], NoToken}
  BY <1>1, SMT DEF DeleteToken, TypeOK, AuthTypeOK
<1>3. \A u \in Turns : client'[u] \in {client[u], GlobalToken} \cup {tokens[v] : v \in Users}
  <2>1. CASE ResolveUserClient(t)
    <3> DEFINE token == IF tokens[Sender[t]] = NoToken /\ ~CallbackServer
                        THEN GlobalToken ELSE tokens[Sender[t]]
    <3>1. client' = [client EXCEPT ![t] = token]
      BY <2>1, Zenon DEF ResolveUserClient
    <3>2. token \in {GlobalToken} \cup {tokens[v] : v \in Users}
      BY BotAssumption, SMT
    <3> HIDE DEF token
    <3>3. \A u \in Turns : client'[u] = token \/ client'[u] = client[u]
      BY <3>1, SMT DEF TypeOK, ChatTypeOK
    <3> QED
      BY <3>2, <3>3, SMT
  <2>2. CASE ~ResolveUserClient(t)
    BY <2>2, HandlerClient
  <2> QED
    BY <2>1, <2>2
<1>4. TokensOut' \subseteq TokensOut \cup {NoToken, GlobalToken}
  BY <1>1, <1>2, <1>3, SMT DEF TokensOut
<1>5. \A k \in refused' \ {GlobalToken} : \A u \in Users : tokens'[u] # k
  BY <1>1, <1>2, AuthAssumption, SMT DEF TokensInv, TypeOK, ChatTypeOK
<1> QED
  BY <1>1, <1>4, <1>5, TokensKept, Zenon

\* The refused token goes from the store of the sender, the only user who can
\* have it there, or is not among the refused.
LEMMA RefusedTokens ==
  ASSUME TypeOK, ClientKnown, AuthInv, ChatInv, TokensInv,
         NEW t \in Turns, RequestRefused(t)
  PROVE  TokensInv'
<1>1. /\ pc[t] \in {"uploading", "sending"}
      /\ refused' = refused \cup ({client[t]} \ {tokens'[Sender[t]]})
      /\ DeleteToken(Sender[t])
      /\ UNCHANGED <<callback, grantee, client>>
  BY Zenon DEF RequestRefused
<1>2. client[t] # NoToken
  BY <1>1, SMT DEF ClientKnown, Steps
<1>3. \A u \in Users : tokens'[u] \in {tokens[u], NoToken}
  BY <1>1, SMT DEF DeleteToken, TypeOK, AuthTypeOK
<1>4. TokensOut' \subseteq TokensOut \cup {NoToken, GlobalToken}
  BY <1>1, <1>3, SMT DEF TokensOut
<1>5. ASSUME NEW u \in Users, client[t] # GlobalToken, client[t] # tokens'[Sender[t]]
      PROVE  tokens'[u] # client[t]
  <2>1. grantee[client[t]] = Sender[t]
    BY <1>2, <1>5 DEF ChatInv, ClientOfSender
  <2>2. tokens[u] # NoToken => grantee[tokens[u]] = u
    BY DEF AuthInv, TokenOfUser
  <2> QED
    BY <1>2, <1>3, <1>5, <2>1, <2>2, SMT
<1>6. \A k \in refused' \ {GlobalToken} : \A u \in Users : tokens'[u] # k
  BY <1>1, <1>3, <1>5, AuthAssumption, SMT DEF TokensInv, TypeOK, ChatTypeOK
<1> QED
  BY <1>1, <1>4, <1>6, TokensKept, Zenon

\* A request is granted a token that is nowhere yet.
LEMMA ExchangeTokens ==
  ASSUME TypeOK, TokensInv, NEW c \in Callbacks, CallbackExchanges(c),
         AuthInv, UNCHANGED <<client, refused>>
  PROVE  TokensInv'
<1>1. PICK k \in Tokens :
        /\ grantee[k] = NoUser /\ k # GlobalToken
        /\ grantee' = [grantee EXCEPT ![k] = linked[callback[c].state]]
        /\ callback' = [callback EXCEPT ![c] = [step |-> "exchanged", state |-> @.state,
                                                user |-> @.user, token |-> k]]
  BY Zenon DEF CallbackExchanges
<1>2. /\ UNCHANGED tokens /\ callback[c].step = "popped"
      /\ linked[callback[c].state] # NoUser
  <2>1. UNCHANGED tokens /\ callback[c].step = "popped"
    BY Zenon DEF CallbackExchanges
  <2> QED
    BY <2>1, AuthAssumption, SMT DEF AuthInv, CallbacksOwned
<1>3. /\ callback'[c].token = k
      /\ \A d \in Callbacks \ {c} : callback'[d] = callback[d]
  BY <1>1, SMT DEF TypeOK, AuthTypeOK
<1>4. k # NoToken /\ TokensOut' = TokensOut
  BY <1>2, AuthAssumption, Zenon DEF TokensOut
<1>5. k \notin TokensOut
  BY <1>1, <1>4, SMT DEF TokensInv
<1>6. /\ grantee'[k] # NoUser
      /\ \A j : j # k => grantee'[j] = grantee[j]
  BY <1>1, <1>2, SMT DEF TypeOK, AuthTypeOK
<1>7. ASSUME NEW d \in Callbacks \ {c}, callback[d].token # NoToken
      PROVE  /\ callback[d].token \notin TokensOut \cup {GlobalToken}
             /\ grantee[callback[d].token] # NoUser /\ callback[d].token # k
             /\ \A e \in Callbacks : callback[e].token = callback[d].token => e = d
  BY <1>1, <1>7, Zenon DEF TokensInv
<1>8. ASSUME NEW d \in Callbacks, callback'[d].token # NoToken
      PROVE  /\ callback'[d].token \notin TokensOut' \cup {GlobalToken}
             /\ grantee'[callback'[d].token] # NoUser
             /\ \A e \in Callbacks : callback'[e].token = callback'[d].token => e = d
  <2>1. CASE d = c
    <3>1. \A e \in Callbacks \ {c} : callback'[e].token # k
      BY <1>3, <1>4, <1>7, SMT
    <3> QED
      BY <1>1, <1>3, <1>4, <1>5, <1>6, <2>1, <3>1, SMT
  <2>2. CASE d # c
    <3>1. callback'[d] = callback[d] /\ callback[d].token # NoToken
      BY <1>3, <1>8, <2>2
    <3> QED
      BY <1>3, <1>4, <1>6, <1>7, <2>2, <3>1, SMT
  <2> QED
    BY <2>1, <2>2
<1>9. \A j \in TokensOut' \ {NoToken, GlobalToken} : grantee'[j] # NoUser
  BY <1>4, <1>5, <1>6, SMT DEF TokensInv
<1>10. \A j \in refused' \ {GlobalToken} : \A u \in Users : tokens'[u] # j
  BY <1>2, Zenon DEF TokensInv
<1> QED
  BY <1>8, <1>9, <1>10, Zenon DEF TokensInv

\* The token of a request goes into the store, where it was not, and was not
\* refused.
LEMMA SavesTokens ==
  ASSUME TypeOK, TokensInv, AuthInv, NEW c \in Callbacks, CallbackSaves(c),
         UNCHANGED <<client, refused>>
  PROVE  TokensInv'
<1> DEFINE k == callback[c].token
<1>1. /\ callback[c].step = "verified"
      /\ tokens' = [tokens EXCEPT ![callback[c].user] = k]
      /\ callback' = [callback EXCEPT ![c] = NoCallback]
      /\ UNCHANGED grantee
  BY Zenon DEF CallbackSaves, SaveToken
<1>2. k \in Tokens /\ k # NoToken
  BY <1>1, AuthAssumption, SMT DEF AuthInv, GrantsOwned
<1>3. /\ k \notin TokensOut \cup {GlobalToken} /\ grantee[k] # NoUser
      /\ \A d \in Callbacks : callback[d].token = k => d = c
  BY <1>2, Zenon DEF TokensInv
<1>4. /\ callback'[c].token = NoToken
      /\ \A d \in Callbacks \ {c} : callback'[d] = callback[d]
  BY <1>1, SMT DEF TypeOK, AuthTypeOK, NoCallback
<1> HIDE DEF k
<1>5. \A u \in Users : tokens'[u] \in {tokens[u], k}
  BY <1>1, SMT DEF TypeOK, AuthTypeOK
<1>6. TokensOut' \subseteq TokensOut \cup {k}
  BY <1>5, SMT DEF TokensOut
<1>7. ASSUME NEW d \in Callbacks, callback'[d].token # NoToken
      PROVE  /\ callback'[d].token \notin TokensOut' \cup {GlobalToken}
             /\ grantee'[callback'[d].token] # NoUser
             /\ \A e \in Callbacks : callback'[e].token = callback'[d].token => e = d
  <2>1. d # c /\ callback'[d] = callback[d]
    BY <1>4, <1>7
  <2>2. /\ callback[d].token \notin TokensOut \cup {GlobalToken}
        /\ grantee[callback[d].token] # NoUser
        /\ \A e \in Callbacks : callback[e].token = callback[d].token => e = d
    BY <1>7, <2>1, Zenon DEF TokensInv
  <2>3. callback[d].token # k
    BY <1>3, <2>1
  <2>4. \A e \in Callbacks : callback'[e].token = callback'[d].token => e = d
    BY <1>4, <1>7, <2>1, <2>2, SMT
  <2> QED
    BY <1>1, <1>6, <2>1, <2>2, <2>3, <2>4, SMT
<1>8. \A j \in TokensOut' \ {NoToken, GlobalToken} : grantee'[j] # NoUser
  BY <1>1, <1>3, <1>6, SMT DEF TokensInv
<1>9. \A j \in refused' \ {GlobalToken} : \A u \in Users : tokens'[u] # j
  <2>1. k \notin refused
    BY <1>3, Zenon DEF TokensOut
  <2> QED
    BY <1>5, <2>1, SMT DEF TokensInv
<1> QED
  BY <1>7, <1>8, <1>9, Zenon DEF TokensInv

LEMMA OthersTokens ==
  ASSUME TypeOK, TokensInv, AuthInv,
         Authorize \/ TimePasses \/ TypingExpires \/ Crash \/ UNCHANGED vars
  PROVE  TokensInv'
<1>1. UNCHANGED <<client, refused>>
  BY Zenon DEF Authorize, TimePasses, TypingExpires, Crash, vars, typingVars, turnVars, wpVars
<1>2. CASE \E c \in Callbacks : CallbackExchanges(c)
  BY <1>1, <1>2, ExchangeTokens
<1>3. CASE \E c \in Callbacks : CallbackSaves(c)
  BY <1>1, <1>3, SavesTokens
<1>4. ASSUME UNCHANGED <<tokens, grantee>>,
             \A c \in Callbacks : callback'[c].token \in {callback[c].token, NoToken}
      PROVE  TokensInv'
  <2>1. TokensOut' = TokensOut
    BY <1>1, <1>4, Zenon DEF TokensOut
  <2>2. \A k \in refused' \ {GlobalToken} : \A u \in Users : tokens'[u] # k
    BY <1>1, <1>4, Zenon DEF TokensInv
  <2> QED
    BY <1>4, <2>1, <2>2, TokensKept, Zenon
<1>5. CASE \E c \in Callbacks : \/ \E s \in States : CallbackArrives(c, s)
                                \/ CallbackVerifies(c) \/ CallbackFails(c)
  <2>1. UNCHANGED <<tokens, grantee>>
    BY <1>5, Zenon DEF CallbackArrives, CallbackVerifies, CallbackFails
  <2>2. \A d \in Callbacks : callback'[d].token \in {callback[d].token, NoToken}
    BY <1>5, SMT DEF CallbackArrives, CallbackVerifies, CallbackFails, NoCallback, TypeOK,
       AuthTypeOK
  <2> QED
    BY <1>4, <2>1, <2>2
<1>6. CASE (\E k \in Tokens : Revoke(k)) \/ TimePasses \/ TypingExpires \/ UNCHANGED vars
  <2>1. UNCHANGED <<tokens, grantee, callback>>
    BY <1>6, Zenon DEF Revoke, TimePasses, TypingExpires, vars, authVars
  <2> QED
    BY <1>4, <2>1
<1>7. CASE Crash
  <2>1. UNCHANGED <<tokens, grantee>> /\ callback' = [c \in Callbacks |-> NoCallback]
    BY <1>7, Zenon DEF Crash, AuthCrash
  <2>2. \A c \in Callbacks : callback'[c].token \in {callback[c].token, NoToken}
    BY <2>1, SMT DEF NoCallback
  <2> QED
    BY <1>4, <2>1, <2>2
<1> QED
  BY <1>2, <1>3, <1>5, <1>6, <1>7, Zenon DEF Authorize, Authorization

\* A token is never in two hands: a login that was granted it, then the user
\* it is stored for, and once refused nobody (handlers.go:312-315,
\* pkce.go:178-190).
THEOREM TokensInvariant == Spec => []TokensInv
<1>1. Init => TokensInv
  BY AuthAssumption, SMT DEF Init, AuthInit, NoCallback, TokensInv, TokensOut
<1>2. TypeOK /\ ClientKnown /\ AuthInv /\ ChatInv /\ TokensInv /\ [Next]_vars => TokensInv'
  <2> SUFFICES ASSUME TypeOK, ClientKnown, AuthInv, ChatInv, TokensInv, [Next]_vars
               PROVE  TokensInv'
    OBVIOUS
  <2>1. ASSUME NEW t \in Turns, Begin(t) \/ Handler(t)
        PROVE  TokensInv'
    BY <2>1, HandlerTokens, RefusedTokens
  <2> QED
    BY <2>1, OthersTokens, Zenon DEF Next
<1> QED
  BY <1>1, <1>2, Types, AuthInvariant, PTL DEF Spec

\* A token WordPress refused is not resolved for a later message, however
\* requests, logins and revocations interleave, unless everybody shares it.
THEOREM RefusedStaysOut == Spec => RefusedNotResolved
<1> DEFINE A == \A t \in Turns :
                  pc[t] = "begun" /\ pc'[t] = "resolved" =>
                     client'[t] \notin refused \/ client'[t] = GlobalToken
<1>1. TypeOK /\ TokensInv /\ [Next]_vars => [A]_vars
  <2> SUFFICES ASSUME TypeOK, TokensInv, Next,
                      NEW t \in Turns, pc[t] = "begun", pc'[t] = "resolved"
               PROVE  client'[t] \notin refused \/ client'[t] = GlobalToken
    BY Zenon
  <2>1. ResolveUserClient(t)
    <3>1. \A u \in Turns : Begin(u) \/ Handler(u) =>
             \/ ResolveUserClient(u)
             \/ pc' = pc
             \/ \E to \in {"begun", "fetching", "uploading", "ready", "read", "deriving", "sending",
                           "continuing", "done"} : pc' = [pc EXCEPT ![u] = to]
      BY Zenon DEF Begin, Handler, Logout, ResolveWithLink, ResolveFails, Reset,
         ImageBegins, ImageRefused, ImageFetched, ImageUploaded, ReadSession, StartTyping,
         SendMessage, SendReturns,
         RequestRefused, RequestFails, ContinueChat, Conclude, Done, Goto
    <3>2. \/ \E u \in Turns : Begin(u) \/ Handler(u)
          \/ UNCHANGED pc
          \/ \A u \in Turns : pc'[u] = pc[u] \/ pc'[u] = "done"
      BY Zenon DEF Next, Authorize, TimePasses, TypingExpires, Crash, turnVars
    <3>3. PICK u \in Turns : Begin(u) \/ Handler(u)
      BY <3>2, SMT
    <3>4. ResolveUserClient(u)
      BY <3>1, <3>3, SMT DEF TypeOK, ChatTypeOK
    <3>5. pc' = [pc EXCEPT ![u] = "resolved"]
      BY <3>4, Zenon DEF ResolveUserClient, Goto
    <3>6. u = t
      BY <3>5, SMT DEF TypeOK, ChatTypeOK
    <3> QED
      BY <3>4, <3>6
  <2> DEFINE token == IF tokens[Sender[t]] = NoToken /\ ~CallbackServer
                      THEN GlobalToken ELSE tokens[Sender[t]]
  <2>2. client' = [client EXCEPT ![t] = token]
    BY <2>1, Zenon DEF ResolveUserClient
  <2>3. client'[t] = token
    BY <2>2, SMT DEF TypeOK, ChatTypeOK
  <2>4. token = GlobalToken \/ token = tokens[Sender[t]]
    OBVIOUS
  <2>5. tokens[Sender[t]] \notin refused \/ tokens[Sender[t]] = GlobalToken
    BY BotAssumption, SMT DEF TokensInv
  <2> HIDE DEF token
  <2> QED
    BY <2>3, <2>4, <2>5, Zenon
<1> HIDE DEF A
<1>2. Spec => [][A]_vars
  BY <1>1, TypeCorrect, TokensInvariant, PTL DEF Spec
<1> QED
  BY <1>2 DEF A, RefusedNotResolved
=============================================================================
