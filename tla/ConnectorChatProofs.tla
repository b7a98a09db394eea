------------------------- MODULE ConnectorChatProofs -------------------------
(***************************************************************************)
(* Theorems about ConnectorChat, for any turns, sessions and crashes.      *)
(* However turns overlap: its type correctness, that typing stops and      *)
(* handlers advance, what is sent and what is saved, and the refinement of *)
(* SessionMemory.  For turns that are handled one after the other: which   *)
(* sessions there are, and that what was given up stays so.                *)
(***************************************************************************)
EXTENDS ConnectorChat, FiniteSetTheorems, TLAPS

SessionOrNone == Sessions \cup {NoSession}

Replies == [session : SessionOrNone, completed : BOOLEAN, text : BOOLEAN]

\* What the slot operations return is a slot.
LEMMA SlotOperations ==
  ASSUME NEW slot \in Slots, NEW s \in Sessions
  PROVE  /\ EmptySlot \in Slots /\ EmptySlot.id = NoSession /\ EmptySlot.at = "never"
         /\ ClearSession(slot) = EmptySlot
         /\ TouchPortal(RememberSessionID(slot, s)) \in Slots
         /\ TouchPortal(RememberSessionID(slot, s)).id = s
         /\ TouchPortal(RememberSessionID(slot, s)).at = "recent"
<1>1. EmptySlot \in Slots /\ EmptySlot.id = NoSession /\ EmptySlot.at = "never"
  BY SMT DEF Slots, Ages, EmptySlot
<1> DEFINE named == RememberSessionID(slot, s)
<1>2. named \in Slots /\ named.id = s
  BY SMT DEF Slots, RememberSessionID
<1> HIDE DEF named
<1>3. TouchPortal(named) \in Slots /\ TouchPortal(named).id = s /\ TouchPortal(named).at = "recent"
  BY <1>2, SMT DEF Slots, Ages, TouchPortal
<1> QED
  BY <1>1, <1>3, Zenon DEF named, ClearSession

\* Aging keeps the id.
LEMMA SlotAges ==
  ASSUME NEW slot \in Slots
  PROVE  /\ Aged(slot) \in Slots /\ Aged(slot).id = slot.id
         /\ slot.at = "stale" => Aged(slot) = slot
         /\ slot = EmptySlot => Aged(slot) = EmptySlot
  BY SMT DEF Slots, Ages, Aged, EmptySlot

-----------------------------------------------------------------------------
LEMMA TypeInit == Init => TypeOK
<1> SUFFICES ASSUME Init PROVE TypeOK
  OBVIOUS
<1>1. unsaved \in BOOLEAN /\ loggedIn \in BOOLEAN /\ typing = {} /\ stranded = {}
  BY Zenon DEF Init
<1>2. meta \in Slots /\ saved \in Slots
  BY SMT DEF Init, Slots, Ages, EmptySlot
<1>3. reply \in [Turns -> [session : SessionOrNone, completed : BOOLEAN, text : BOOLEAN]]
  BY SMT DEF Init, NoReply, SessionOrNone
<1> QED
  BY <1>1, <1>2, <1>3, ChatAssumption, SMT DEF Init, TypeOK, SessionOrNone

LEMMA DoneType ==
  ASSUME TypeOK, NEW t \in Turns, NEW how \in {"rejected", "reset", "failed", "answered", "silent"},
         Done(t, how)
  PROVE  /\ pc' \in [Turns -> {"idle", "begun", "resetting", "sending", "saving",
                               "continuing", "concluding", "done"}]
         /\ outcome' \in [Turns -> {"none", "rejected", "reset", "failed", "answered",
                                    "silent", "crashed"}]
  BY SMT DEF Done, TypeOK

LEMMA TypingType ==
  ASSUME TypeOK, NEW on \in BOOLEAN, SetAgentTyping(on)
  PROVE  typing' \subseteq Ghosts /\ stranded' \subseteq Ghosts
<1>1. Ghost \in Ghosts /\ typing \subseteq Ghosts /\ stranded \subseteq Ghosts
  BY SMT DEF Ghost, Ghosts, TypeOK
<1> HIDE DEF TypeOK, Ghost, Ghosts
<1> QED
  BY <1>1, SMT DEF SetAgentTyping, SetAgentTypingFails

LEMMA BeginType ==
  ASSUME TypeOK, NEW t \in Turns, Begin(t)
  PROVE  TypeOK'
<1>1. CASE loggedIn
  <2>1. SetAgentTyping(TRUE) /\ pc' = [pc EXCEPT ![t] = "begun"] /\ UNCHANGED outcome
    BY <1>1, Zenon DEF Begin
  <2>2. UNCHANGED <<sid, request, reply, turn, before, meta, saved, unsaved, loggedIn, agentSlug,
                    opened, retired, crashes>>
    BY Zenon DEF Begin, metaVars, wpVars, loginVars, typingVars
  <2>3. typing' \subseteq Ghosts /\ stranded' \subseteq Ghosts
    BY <2>1, TypingType, Zenon
  <2> QED
    BY <2>1, <2>2, <2>3, SMT DEF TypeOK, Slots, Ages
<1>2. CASE ~loggedIn
  <2>1. Done(t, "rejected") /\ UNCHANGED <<typing, stranded>>
    BY <1>2 DEF Begin, typingVars
  <2> QED
    <3>1. UNCHANGED <<sid, request, reply, turn, before, meta, saved, unsaved, loggedIn,
                      agentSlug, opened, retired, crashes>>
      BY Zenon DEF Begin, metaVars, wpVars, loginVars, typingVars
    <3> QED
      BY <2>1, <3>1, DoneType, SMT DEF TypeOK, Slots, Ages
<1> QED
  BY <1>1, <1>2

LEMMA ResetType ==
  ASSUME TypeOK, NEW t \in Turns, Reset(t)
  PROVE  TypeOK'
  BY SMT DEF Reset, TypeOK, ClearSession, EmptySlot, Slots, Ages, wpVars, loginVars, typingVars

LEMMA ConfirmResetType ==
  ASSUME TypeOK, NEW t \in Turns, ConfirmReset(t)
  PROVE  TypeOK'
<1>1. saved' \in Slots /\ Done(t, "reset") /\ SetAgentTyping(FALSE)
  BY Zenon DEF ConfirmReset, SaveMeta, TypeOK
<1>3. unsaved' \in BOOLEAN
  BY Zenon DEF ConfirmReset, SaveMeta
<1>2. retired' \subseteq Sessions
  BY SMT DEF ConfirmReset, TypeOK, Slots, Ages
<1> QED
  <2>1. UNCHANGED <<sid, request, reply, turn, before, meta, loggedIn, agentSlug, opened, crashes>>
    BY Zenon DEF ConfirmReset, loginVars, typingVars
  <2>2. typing' \subseteq Ghosts /\ stranded' \subseteq Ghosts
    BY <1>1, TypingType, Zenon
  <2> QED
    BY <1>1, <1>2, <1>3, <2>1, <2>2, DoneType, SMT DEF TypeOK, Slots, Ages

LEMMA SendMessageType ==
  ASSUME TypeOK, NEW t \in Turns, SendMessage(t)
  PROVE  TypeOK'
<1>1. meta' \in Slots
  BY SMT DEF SendMessage, TypeOK, ClearSession, EmptySlot, Slots, Ages
<1>2. retired' \subseteq Sessions /\ meta'.id \in SessionOrNone
  BY <1>1, SMT DEF SendMessage, TypeOK, Slots, SessionOrNone
<1> QED
  BY <1>1, <1>2, SMT DEF SendMessage, TypeOK, Slots, Ages, SessionOrNone, loginVars, typingVars

LEMMA WordPressAnswersType ==
  ASSUME TypeOK, NEW t \in Turns, WordPressAnswers(t)
  PROVE  TypeOK'
<1>1. PICK s \in AnswerSessions(t), completed \in BOOLEAN, text \in BOOLEAN :
         /\ reply' = [reply EXCEPT ![t] = [session |-> s, completed |-> completed, text |-> text]]
         /\ opened' = opened \cup ({s} \ {NoSession})
  BY DEF WordPressAnswers
<1>2. s \in SessionOrNone
  BY SMT DEF AnswerSessions, SessionOrNone, TypeOK, Slots, Ages
<1>3. reply' \in [Turns -> Replies] /\ opened' \subseteq Sessions
  BY <1>1, <1>2, SMT DEF TypeOK, Slots, Ages, Replies, SessionOrNone
<1> QED
  BY <1>3, SMT DEF WordPressAnswers, TypeOK, Slots, Ages, metaVars, Replies, SessionOrNone,
       loginVars, typingVars

LEMMA SendReturnsType ==
  ASSUME TypeOK, NEW t \in Turns, SendReturns(t)
  PROVE  TypeOK'
<1>1. meta' \in Slots
  <2>1. CASE reply[t].session = NoSession
    BY <2>1 DEF SendReturns, TypeOK, Slots, Ages
  <2>2. CASE reply[t].session # NoSession
    <3>1. reply[t].session \in Sessions
      BY <2>2, SMT DEF TypeOK, Slots, Ages
    <3> QED
      <4>1. meta' = TouchPortal(RememberSessionID(meta, reply[t].session))
        BY <2>2, Zenon DEF SendReturns
      <4>2. meta \in Slots
        BY DEF TypeOK
      <4> QED
        BY <3>1, <4>1, <4>2, SlotOperations, Zenon
  <2> QED
    BY <2>1, <2>2
<1>2. retired' \subseteq Sessions
  BY SMT DEF SendReturns, TypeOK
<1> QED
  BY <1>1, <1>2, SMT DEF SendReturns, TypeOK, Slots, Ages, loginVars, typingVars

LEMMA SendFailsType ==
  ASSUME TypeOK, NEW t \in Turns, SendFails(t)
  PROVE  TypeOK'
<1>1. Done(t, "failed") /\ SetAgentTyping(FALSE)
  BY DEF SendFails
<1> QED
  <2>1. typing' \subseteq Ghosts /\ stranded' \subseteq Ghosts
    BY <1>1, TypingType, Zenon
  <2>2. request' \in [Turns -> {"none", "sent", "answered", "refused"}]
    <3>1. request' = [request EXCEPT ![t] = "refused"] \/ request' = request
      BY Zenon DEF SendFails
    <3> QED
      BY <3>1, SMT DEF TypeOK
  <2>3. UNCHANGED <<sid, reply, turn, before, meta, saved, unsaved, loggedIn, agentSlug, opened,
                    retired, crashes>>
    BY Zenon DEF SendFails, metaVars, wpVars, loginVars, typingVars
  <2> QED
    BY <1>1, <2>1, <2>2, <2>3, DoneType, SMT DEF TypeOK, Slots, Ages

LEMMA SaveSessionType ==
  ASSUME TypeOK, NEW t \in Turns, SaveSession(t)
  PROVE  TypeOK'
<1>1. saved' \in Slots /\ unsaved' \in BOOLEAN
  BY Zenon DEF SaveSession, SaveMeta, TypeOK
<1>2. /\ pc' = [pc EXCEPT ![t] = "continuing"]
      /\ UNCHANGED <<sid, request, reply, turn, before, outcome, meta, loggedIn, agentSlug,
                     typing, stranded, opened,
                     retired, crashes>>
  BY Zenon DEF SaveSession, wpVars, loginVars, typingVars
<1> QED
  BY <1>1, <1>2, SMT DEF TypeOK, Slots, Ages

LEMMA ContinueChatType ==
  ASSUME TypeOK, NEW t \in Turns, ContinueChat(t)
  PROVE  TypeOK'
<1>1. PICK completed \in BOOLEAN, text \in BOOLEAN :
         reply' = [reply EXCEPT ![t] = Continued(@, completed, text)]
  BY DEF ContinueChat
<1>2. reply[t] \in Replies
  BY DEF TypeOK, Slots, Ages, Replies, SessionOrNone
<1>3. reply' \in [Turns -> Replies]
  <2> DEFINE some == reply[t].text \/ text
  <2>1. some \in BOOLEAN
    OBVIOUS
  <2>2. reply' = [reply EXCEPT ![t] = [session |-> reply[t].session, completed |-> completed,
                                       text |-> some]]
    BY <1>1 DEF Continued
  <2>3. reply \in [Turns -> Replies]
    BY DEF TypeOK, Replies, SessionOrNone
  <2> HIDE DEF some
  <2> QED
    BY <2>1, <2>2, <2>3, SMT DEF Replies
<1>4. turn' \in [Turns -> 0 .. MaxContinueTurns]
  <2>1. turn[t] < MaxContinueTurns /\ turn' = [turn EXCEPT ![t] = turn[t] + 1]
    BY Zenon DEF ContinueChat, MustContinue
  <2> QED
    BY <2>1, ChatAssumption, SMT DEF TypeOK
<1> QED
  <2>1. UNCHANGED <<pc, sid, request, before, outcome, meta, saved, unsaved, loggedIn, agentSlug,
                    typing, stranded, opened,
                    retired, crashes>>
    BY Zenon DEF ContinueChat, metaVars, wpVars, loginVars, typingVars
  <2> QED
    BY <1>3, <1>4, <2>1, SMT DEF TypeOK, Slots, Ages, Replies, SessionOrNone

LEMMA ConcludeType ==
  ASSUME TypeOK, NEW t \in Turns, ContinueFails(t) \/ Conclude(t)
  PROVE  TypeOK'
<1>1. CASE ContinueFails(t)
  BY <1>1, SMT DEF ContinueFails, TypeOK, Slots, Ages, metaVars, wpVars, loginVars, typingVars
<1>2. CASE Conclude(t)
  <2>1. SetAgentTyping(FALSE) /\ Done(t, IF reply[t].text THEN "answered" ELSE "silent")
    BY <1>2 DEF Conclude
  <2>2. typing' \subseteq Ghosts /\ stranded' \subseteq Ghosts
    BY <2>1, TypingType, Zenon
  <2>3. /\ pc' \in [Turns -> {"idle", "begun", "resetting", "sending", "saving",
                              "continuing", "concluding", "done"}]
        /\ outcome' \in [Turns -> {"none", "rejected", "reset", "failed", "answered",
                                   "silent", "crashed"}]
    BY <2>1, DoneType
  <2>4. UNCHANGED <<sid, request, reply, turn, before, meta, saved, unsaved, loggedIn, agentSlug,
                    opened, retired,
                    crashes>>
    BY <1>2, Zenon DEF Conclude, metaVars, wpVars, loginVars, typingVars
  <2> QED
    BY <2>2, <2>3, <2>4, SMT DEF TypeOK, Slots, Ages
<1> QED
  BY <1>1, <1>2

LEMMA OthersType ==
  ASSUME TypeOK,
         TimePasses \/ LogoutRemote \/ ConnectRenames \/ TypingExpires \/ Crash \/ UNCHANGED vars
  PROVE  TypeOK'
<1>1. CASE TimePasses
  <2>1. meta' \in Slots /\ saved' \in Slots
    BY <1>1, SlotAges DEF TimePasses, TypeOK, Slots, Ages
  <2> QED
    BY <1>1, <2>1, SMT DEF TimePasses, TypeOK, Slots, Ages, turnVars, loginVars, typingVars, wpVars
<1>2. CASE LogoutRemote \/ ConnectRenames
  <2>1. /\ loggedIn' \in BOOLEAN /\ agentSlug' \in {"old", "new"} /\ stranded' \subseteq Ghosts
        /\ UNCHANGED <<pc, sid, request, reply, turn, before, outcome, meta, saved, unsaved, typing,
                       opened, retired, crashes>>
    <3>1. /\ loggedIn' \in {loggedIn, FALSE} /\ agentSlug' \in {agentSlug, "new"}
          /\ stranded' = stranded \cup typing
          /\ UNCHANGED <<pc, sid, request, reply, turn, before, outcome, meta, saved, unsaved,
                         typing,
                         opened, retired, crashes>>
      BY <1>2, Zenon DEF LogoutRemote, ConnectRenames, turnVars, metaVars, wpVars
    <3> QED
      BY <3>1, Zenon DEF TypeOK
  <2> QED
    BY <2>1, SMT DEF TypeOK, Slots, Ages
<1>3. CASE TypingExpires
  BY <1>3, SMT DEF TypingExpires, TypeOK, Slots, Ages, turnVars, metaVars, loginVars, wpVars
<1>4. CASE Crash
  <2>1. unsaved' \in BOOLEAN /\ saved \in Slots
    BY <1>4, Zenon DEF Crash, TypeOK
  <2>2. retired' \subseteq Sessions
    BY <1>4, SMT DEF Crash, TypeOK
  <2>3. crashes' \in 0 .. MaxCrashes
    BY <1>4, ChatAssumption, SMT DEF Crash, TypeOK
  <2>4. /\ pc' \in [Turns -> {"idle", "begun", "resetting", "sending", "saving",
                              "continuing", "concluding", "done"}]
        /\ outcome' \in [Turns -> {"none", "rejected", "reset", "failed", "answered",
                                   "silent", "crashed"}]
    BY <1>4, SMT DEF Crash, TypeOK
  <2>5. /\ UNCHANGED <<sid, request, reply, turn, before, saved, loggedIn, typing, opened>>
        /\ meta' = saved
    BY <1>4, Zenon DEF Crash
  <2>6. agentSlug' \in {"old", "new"} /\ stranded' \subseteq Ghosts
    BY <1>4, Zenon DEF Crash, TypeOK
  <2> QED
    BY <2>1, <2>2, <2>3, <2>4, <2>5, <2>6, SMT DEF TypeOK, Slots, Ages
<1>5. CASE UNCHANGED vars
  BY <1>5, SMT DEF vars, TypeOK, Slots, Ages
<1> QED
  BY <1>1, <1>2, <1>3, <1>4, <1>5

LEMMA TypeStep == TypeOK /\ [Next]_vars => TypeOK'
<1> SUFFICES ASSUME TypeOK, [Next]_vars PROVE TypeOK'
  OBVIOUS
<1>1. ASSUME NEW t \in Turns, Begin(t) \/ Handler(t) \/ WordPressAnswers(t)
      PROVE  TypeOK'
  BY <1>1, BeginType, ResetType, ConfirmResetType, SendMessageType, SendReturnsType,
     SendFailsType, SaveSessionType, ContinueChatType, ConcludeType, WordPressAnswersType
     DEF Handler
<1> QED
  BY <1>1, OthersType DEF Next

\* Every reachable state of ConnectorChat is well typed, whatever overlaps,
\* times out or fails; the continue count stays within its bound
\* (client.go:451).
THEOREM TypeCorrect == Spec => []TypeOK
<1> QED
  BY TypeInit, TypeStep, PTL DEF Spec

-----------------------------------------------------------------------------
\* The invariant behind TypingStops: but for what was left behind, only the
\* ghost of today's name is shown as typing, and only while a handler runs.
TypingInv ==
    typing \subseteq stranded \cup {g \in {Ghost} : \E t \in Turns : Active(t)}

\* A turn that ends tries to clear the indicator; one that goes on is active.
LEMMA EndsOrGoesOn ==
  ASSUME TypeOK, NEW t \in Turns, Handler(t)
  PROVE  /\ Ghost' = Ghost
         /\ \/ SetAgentTyping(FALSE)
            \/ UNCHANGED <<typing, stranded>> /\ Active(t)'
<1>1. CASE ConfirmReset(t) \/ SendFails(t) \/ Conclude(t)
  BY <1>1, Zenon DEF ConfirmReset, SendFails, Conclude, Ghost, loginVars
<1>2. CASE Reset(t) \/ SendMessage(t) \/ SendReturns(t) \/ SaveSession(t) \/ ContinueFails(t)
  <2>1. UNCHANGED <<loggedIn, agentSlug, typing, stranded>>
    BY <1>2, Zenon DEF Reset, SendMessage, SendReturns, SaveSession, ContinueFails, loginVars,
         typingVars
  <2>2. PICK to \in {"resetting", "sending", "continuing", "saving", "concluding"} :
          pc' = [pc EXCEPT ![t] = to]
    BY <1>2, Zenon DEF Reset, SendMessage, SendReturns, SaveSession, ContinueFails
  <2>3. Active(t)'
    BY <2>2, SMT DEF Active, TypeOK
  <2> QED
    BY <2>1, <2>3, Zenon DEF Ghost
<1>3. CASE ContinueChat(t)
  <2>1. /\ pc[t] = "continuing" /\ pc' = pc
        /\ UNCHANGED <<loggedIn, agentSlug, typing, stranded>>
    BY <1>3, Zenon DEF ContinueChat, loginVars, typingVars
  <2>2. Active(t)'
    BY <2>1, SMT DEF Active
  <2> QED
    BY <2>1, <2>2, Zenon DEF Ghost
<1> QED
  BY <1>1, <1>2, <1>3, Zenon DEF Handler

\* Clearing either clears or leaves the ghost behind.
LEMMA ClearsOrStrands ==
  ASSUME TypingInv, SetAgentTyping(FALSE)
  PROVE  typing' \subseteq stranded'
<1>1. typing \subseteq stranded \cup {Ghost}
  BY Zenon DEF TypingInv
<1>2. \/ typing' = typing \ {Ghost} /\ stranded' = stranded \ {Ghost}
      \/ typing' = typing /\ stranded' = stranded \cup (typing \cap {Ghost})
  BY Zenon DEF SetAgentTyping, SetAgentTypingFails
<1> QED
  BY <1>1, <1>2, Zenon

LEMMA TypingStep == TypeOK /\ TypingInv /\ [Next]_vars => TypingInv'
<1> SUFFICES ASSUME TypeOK, TypingInv, [Next]_vars PROVE TypingInv'
  OBVIOUS
<1>1. ASSUME NEW t \in Turns, Begin(t), loggedIn
      PROVE  TypingInv'
  <2>1. SetAgentTyping(TRUE) /\ pc' = [pc EXCEPT ![t] = "begun"] /\ Ghost' = Ghost
    BY <1>1, Zenon DEF Begin, loginVars, Ghost
  <2>2. Active(t)'
    BY <2>1, SMT DEF Active, TypeOK
  <2>3. \/ typing' = typing \cup {Ghost} /\ stranded' = stranded \ {Ghost}
        \/ typing' = typing /\ stranded' = stranded
    BY <2>1, Zenon DEF SetAgentTyping, SetAgentTypingFails
  <2>4. typing \subseteq stranded \cup {Ghost}
    BY Zenon DEF TypingInv
  <2>5. typing' \subseteq stranded' \cup {Ghost'}
    BY <2>1, <2>3, <2>4, Zenon
  <2> QED
    BY <1>1, <2>2, <2>5, Zenon DEF TypingInv
<1>2. ASSUME NEW t \in Turns, Begin(t), ~loggedIn
      PROVE  TypingInv'
  <2>1. /\ pc[t] = "idle" /\ pc' = [pc EXCEPT ![t] = "done"]
        /\ UNCHANGED <<typing, stranded>> /\ Ghost' = Ghost
    BY <1>2, Zenon DEF Begin, Done, loginVars, typingVars, Ghost
  <2>2. \A u \in Turns : Active(u)' <=> Active(u)
    BY <2>1, SMT DEF Active, TypeOK
  <2> QED
    BY <2>1, <2>2, Zenon DEF TypingInv
<1>3. ASSUME NEW t \in Turns, Handler(t)
      PROVE  TypingInv'
  <2>1. CASE SetAgentTyping(FALSE)
    BY <2>1, ClearsOrStrands, Zenon DEF TypingInv
  <2>2. CASE UNCHANGED <<typing, stranded>> /\ Active(t)' /\ Ghost' = Ghost
    BY <1>3, <2>2, Zenon DEF TypingInv
  <2> QED
    BY <1>3, <2>1, <2>2, EndsOrGoesOn, Zenon
<1>4. CASE (\E t \in Turns : WordPressAnswers(t)) \/ TimePasses \/ UNCHANGED vars
  <2>1. UNCHANGED <<pc, typing, stranded>> /\ Ghost' = Ghost
    BY <1>4, Zenon DEF WordPressAnswers, TimePasses, turnVars, loginVars, typingVars, vars, Ghost
  <2> QED
    BY <2>1, Zenon DEF TypingInv, Active
<1>5. CASE LogoutRemote \/ ConnectRenames \/ Crash
  <2>1. typing' = typing /\ stranded' = stranded \cup typing
    BY <1>5, Zenon DEF LogoutRemote, ConnectRenames, Crash
  <2> QED
    BY <2>1, Zenon DEF TypingInv
<1>6. CASE TypingExpires
  <2>1. typing' = {}
    BY <1>6, Zenon DEF TypingExpires
  <2> QED
    BY <2>1, Zenon DEF TypingInv
<1> QED
  BY <1>1, <1>2, <1>3, <1>4, <1>5, <1>6, Zenon DEF Next

\* However handlers overlap and whichever of their exits they take, when they
\* have ended only those ghosts are shown as typing whose clearing failed, who
\* were renamed in the middle, or whom a crash left behind (client.go:472-474).
THEOREM TypingEnds == Spec => []TypingStops
<1>1. Init => TypingInv
  BY Zenon DEF Init, TypingInv
<1>2. TypingInv => TypingStops
  BY Zenon DEF TypingInv, TypingStops
<1> QED
  BY <1>1, <1>2, TypeInit, TypeStep, TypingStep, PTL DEF Spec

\* Nothing but a failed call, a logout, a change of the slug or a crash leaves a
\* ghost behind.
LEMMA StrandedStep ==
  ASSUME ~TypingFails, ~Logouts, ~Renames, MaxCrashes = 0
  PROVE  TypeOK /\ stranded = {} /\ [Next]_vars => stranded' = {}
<1> SUFFICES ASSUME TypeOK, stranded = {}, [Next]_vars PROVE stranded' = {}
  OBVIOUS
<1>1. ASSUME NEW on \in BOOLEAN, SetAgentTyping(on)
      PROVE  stranded' = {}
  <2>1. stranded' = stranded \ {Ghost}
    BY <1>1, Zenon DEF SetAgentTyping, SetAgentTypingFails
  <2> QED
    BY <2>1, Zenon
<1>2. ASSUME NEW t \in Turns, Begin(t)
      PROVE  SetAgentTyping(TRUE) \/ stranded' = stranded
  BY <1>2, Zenon DEF Begin, typingVars
<1>3. ASSUME NEW t \in Turns, Handler(t)
      PROVE  SetAgentTyping(FALSE) \/ stranded' = stranded
  BY <1>3, EndsOrGoesOn, Zenon
<1>4. CASE (\E t \in Turns : WordPressAnswers(t)) \/ TimePasses \/ TypingExpires \/ UNCHANGED vars
  <2>1. stranded' = stranded \/ stranded' = {}
    BY <1>4, Zenon DEF WordPressAnswers, TimePasses, TypingExpires, typingVars, vars
  <2> QED
    BY <2>1
<1>5. ~Crash
  BY SMT DEF Crash, TypeOK
<1> QED
  BY <1>1, <1>2, <1>3, <1>4, <1>5, Zenon DEF Next, LogoutRemote, ConnectRenames

\* The exceptions of TypingStops have no other causes: where no call fails, no
\* name changes and nothing crashes, nobody is shown as typing once the handlers
\* have ended (client.go:401, client.go:437, client.go:474).
THEOREM TypingEndsUndisturbed ==
  ASSUME ~TypingFails, ~Logouts, ~Renames, MaxCrashes = 0
  PROVE  Spec => []((\A t \in Turns : ~Active(t)) => typing = {})
<1> DEFINE Nobody == stranded = {}
           Quiet  == (\A t \in Turns : ~Active(t)) => typing = {}
<1>1. Init => Nobody
  BY Zenon DEF Init
<1>2. TypeOK /\ Nobody /\ [Next]_vars => Nobody'
  BY StrandedStep, Zenon
<1>3. TypingStops /\ Nobody => Quiet
  BY Zenon DEF TypingStops
<1> HIDE DEF Nobody, Quiet
<1>4. Spec => []Quiet
  BY <1>1, <1>2, <1>3, TypeInit, TypeStep, TypingEnds, PTL DEF Spec
<1> QED
  BY <1>4 DEF Quiet

-----------------------------------------------------------------------------
\* What a turn has before it: the places its handler still has to come through,
\* and the calls it may still make there.
Place == [idle |-> 6, begun |-> 5, resetting |-> 4, sending |-> 4, saving |-> 3,
          continuing |-> 2, concluding |-> 1, done |-> 0]

Rank(t) == Place[pc[t]] + (MaxContinueTurns - turn[t])

\* No step takes a turn back, and each step of its handler takes it further.
TurnsAdvance ==
    [][\A t \in Turns : Rank(t)' <= Rank(t) /\ (Handler(t) => Rank(t)' < Rank(t))]_vars

LEMMA PlaceFacts ==
  /\ Place["idle"] = 6 /\ Place["begun"] = 5 /\ Place["resetting"] = 4 /\ Place["sending"] = 4
  /\ Place["saving"] = 3 /\ Place["continuing"] = 2 /\ Place["concluding"] = 1
  /\ Place["done"] = 0 /\ Place' = Place
  BY SMT DEF Place

\* The rank of a turn is a natural number: it cannot decrease for ever.
LEMMA RankNat ==
  ASSUME TypeOK, NEW t \in Turns
  PROVE  Rank(t) \in Nat
<1>1. turn[t] \in 0 .. MaxContinueTurns /\ Place[pc[t]] \in 0 .. 6
  BY PlaceFacts, SMT DEF TypeOK
<1> QED
  BY <1>1, ChatAssumption, SMT DEF Rank

\* A handler that moves from one place to a later one, with its count as it is.
LEMMA MovesOn ==
  ASSUME TypeOK, NEW t \in Turns, UNCHANGED turn,
         NEW to \in {"resetting", "sending", "saving", "continuing", "concluding", "done"},
         pc' = [pc EXCEPT ![t] = to], Place[to] < Place[pc[t]]
  PROVE  Rank(t)' < Rank(t) /\ \A u \in Turns : Rank(u)' <= Rank(u)
<1>1. \A u \in Turns : Rank(u) \in Nat /\ turn[u] \in 0 .. MaxContinueTurns
  BY RankNat, SMT DEF TypeOK
<1>2. pc'[t] = to /\ \A u \in Turns \ {t} : pc'[u] = pc[u]
  BY SMT DEF TypeOK
<1>3. \A u \in Turns : Place[pc[u]] \in 0 .. 6
  BY PlaceFacts, SMT DEF TypeOK
<1>4. Place[to] \in 0 .. 6
  BY PlaceFacts, SMT
<1>5. Rank(t)' < Rank(t) /\ Rank(t)' <= Rank(t)
  BY <1>1, <1>2, <1>3, <1>4, PlaceFacts, ChatAssumption, SMT DEF Rank
<1>6. ASSUME NEW u \in Turns \ {t}
      PROVE  Rank(u)' <= Rank(u)
  <2>1. Rank(u)' = Rank(u)
    BY <1>2, PlaceFacts, Zenon DEF Rank
  <2> QED
    BY <1>1, <2>1, SMT
<1> QED
  BY <1>5, <1>6, Zenon

LEMMA HandlerAdvances ==
  ASSUME TypeOK, NEW t \in Turns, Handler(t)
  PROVE  Rank(t)' < Rank(t) /\ \A u \in Turns : Rank(u)' <= Rank(u)
<1>1. CASE Reset(t)
  <2>1. pc[t] = "begun" /\ pc' = [pc EXCEPT ![t] = "resetting"] /\ UNCHANGED turn
    BY <1>1, Zenon DEF Reset
  <2>2. Place["resetting"] < Place[pc[t]]
    BY <2>1, PlaceFacts, SMT
  <2> QED
    BY <2>1, <2>2, MovesOn, Zenon
<1>2. CASE SendMessage(t)
  <2>1. pc[t] = "begun" /\ pc' = [pc EXCEPT ![t] = "sending"] /\ UNCHANGED turn
    BY <1>2, Zenon DEF SendMessage
  <2>2. Place["sending"] < Place[pc[t]]
    BY <2>1, PlaceFacts, SMT
  <2> QED
    BY <2>1, <2>2, MovesOn, Zenon
<1>3. CASE SendReturns(t)
  <2>1. pc[t] = "sending" /\ UNCHANGED turn
    BY <1>3, Zenon DEF SendReturns
  <2>2. PICK to \in {"continuing", "saving"} : pc' = [pc EXCEPT ![t] = to]
    BY <1>3, Zenon DEF SendReturns
  <2>3. Place[to] < Place[pc[t]]
    BY <2>1, PlaceFacts, SMT
  <2> QED
    BY <2>1, <2>2, <2>3, MovesOn, Zenon
<1>4. CASE SaveSession(t)
  <2>1. pc[t] = "saving" /\ pc' = [pc EXCEPT ![t] = "continuing"] /\ UNCHANGED turn
    BY <1>4, Zenon DEF SaveSession
  <2>2. Place["continuing"] < Place[pc[t]]
    BY <2>1, PlaceFacts, SMT
  <2> QED
    BY <2>1, <2>2, MovesOn, Zenon
<1>5. CASE ContinueFails(t)
  <2>1. pc[t] = "continuing" /\ pc' = [pc EXCEPT ![t] = "concluding"] /\ UNCHANGED turn
    BY <1>5, Zenon DEF ContinueFails
  <2>2. Place["concluding"] < Place[pc[t]]
    BY <2>1, PlaceFacts, SMT
  <2> QED
    BY <2>1, <2>2, MovesOn, Zenon
<1>6. CASE ConfirmReset(t) \/ SendFails(t) \/ Conclude(t)
  <2>1. /\ pc[t] \in {"resetting", "sending", "concluding", "continuing"}
        /\ pc' = [pc EXCEPT ![t] = "done"] /\ UNCHANGED turn
    BY <1>6, Zenon DEF ConfirmReset, SendFails, Conclude, Done
  <2>2. Place["done"] < Place[pc[t]]
    BY <2>1, PlaceFacts, SMT
  <2> QED
    BY <2>1, <2>2, MovesOn, Zenon
<1>7. CASE ContinueChat(t)
  <2>1. turn' = [turn EXCEPT ![t] = @ + 1] /\ UNCHANGED pc
    BY <1>7, Zenon DEF ContinueChat
  <2>2. \A u \in Turns : /\ turn[u] \in 0 .. MaxContinueTurns /\ Place[pc[u]] \in 0 .. 6
                         /\ turn'[u] = IF u = t THEN turn[u] + 1 ELSE turn[u]
    BY <2>1, PlaceFacts, SMT DEF TypeOK
  <2> QED
    BY <2>1, <2>2, PlaceFacts, ChatAssumption, SMT DEF Rank
<1> QED
  BY <1>1, <1>2, <1>3, <1>4, <1>5, <1>6, <1>7, Zenon DEF Handler

\* Whatever overlaps, fails or crashes, every step of a handler brings its turn
\* closer to the end and no other step takes one back: a handler takes at most
\* MaxContinueTurns + 5 steps (client.go:451).  With the fairness of FairSpec
\* this is TurnEnds, which TLC checks.
THEOREM TurnsOnlyAdvance == Spec => TurnsAdvance
<1> DEFINE A == \A t \in Turns : Rank(t)' <= Rank(t) /\ (Handler(t) => Rank(t)' < Rank(t))
<1>1. TypeOK /\ [Next]_vars => [A]_vars
  <2> SUFFICES ASSUME TypeOK, Next PROVE A
    BY DEF A
  <2>1. \A t \in Turns : Handler(t) => Rank(t)' < Rank(t)
    BY HandlerAdvances, Zenon
  <2>2. ASSUME NEW u \in Turns
        PROVE  Rank(u)' <= Rank(u)
    <3>1. Rank(u) \in Nat
      BY RankNat
    <3>2. CASE UNCHANGED <<pc, turn>>
      <4>1. Rank(u)' = Rank(u)
        BY <3>2, PlaceFacts, Zenon DEF Rank
      <4> QED
        BY <3>1, <4>1, SMT
    <3>3. ASSUME NEW t \in Turns, Begin(t)
          PROVE  Rank(u)' <= Rank(u)
      <4>1. PICK to \in {"begun", "done"} : pc' = [pc EXCEPT ![t] = to]
        BY <3>3, Zenon DEF Begin, Done
      <4>2. pc[t] = "idle" /\ UNCHANGED turn
        BY <3>3, Zenon DEF Begin
      <4>3. turn[u] \in 0 .. MaxContinueTurns /\ (pc'[u] = pc[u] \/ (pc[u] = "idle" /\ pc'[u] = to))
        BY <4>1, <4>2, SMT DEF TypeOK
      <4> QED
        BY <3>1, <4>2, <4>3, PlaceFacts, ChatAssumption, SMT DEF Rank
    <3>4. CASE Crash
      <4>1. UNCHANGED turn /\ turn[u] \in 0 .. MaxContinueTurns
        BY <3>4, SMT DEF Crash, TypeOK
      <4>2. pc'[u] = pc[u] \/ pc'[u] = "done"
        BY <3>4, SMT DEF Crash
      <4>3. Place[pc[u]] \in 0 .. 6
        BY PlaceFacts, SMT DEF TypeOK
      <4> QED
        BY <4>1, <4>2, <4>3, PlaceFacts, ChatAssumption, SMT DEF Rank
    <3>5. CASE \/ \E t \in Turns : WordPressAnswers(t)
               \/ TimePasses \/ LogoutRemote \/ ConnectRenames \/ TypingExpires
      <4>1. UNCHANGED <<pc, turn>>
        BY <3>5, Zenon DEF WordPressAnswers, TimePasses, LogoutRemote, ConnectRenames,
             TypingExpires, turnVars
      <4> QED
        BY <3>2, <4>1
    <3>6. ASSUME NEW t \in Turns, Handler(t)
          PROVE  Rank(u)' <= Rank(u)
      BY <3>6, HandlerAdvances
    <3> QED
      BY <3>3, <3>4, <3>5, <3>6, Zenon DEF Next
  <2> QED
    BY <2>1, <2>2
<1> HIDE DEF A
<1>2. Spec => [][A]_vars
  BY <1>1, TypeInit, TypeStep, PTL DEF Spec
<1> QED
  BY <1>2 DEF A, TurnsAdvance

-----------------------------------------------------------------------------
\* Sessions that were given up, whatever overlaps or fails: RetiredIsStale.

LEMMA EmptyFacts == EmptySlot.id = NoSession /\ EmptySlot.at = "never"
  BY SMT DEF EmptySlot

\* Saving a slot, when what is in memory has not been given up just now.
LEMMA SaveKeepsStale ==
  ASSUME TypeOK, RetiredIsStale, SaveMeta, meta' = meta,
         meta.id \in retired' => meta.id \in retired
  PROVE  RetiredIsStale'
<1>1. /\ meta.id \in retired => meta.at = "stale" /\ SessionIdleTTL = "positive"
      /\ meta.at = "stale" => saved.at # "recent"
      /\ meta.id # NoSession => meta.at # "never"
      /\ saved.id # NoSession => saved.at # "never"
  BY Zenon DEF RetiredIsStale
<1>2. SessionIdleTTL' = SessionIdleTTL
  BY DEF SessionIdleTTL
<1>3. CASE saved' = meta /\ unsaved' = FALSE
  <2>1. saved' = meta' /\ meta' = meta
    BY <1>3, Zenon
  <2>2. meta'.id \in retired' => meta'.at = "stale" /\ SessionIdleTTL' = "positive"
    BY <1>1, <1>2, <2>1, Zenon
  <2>3. meta'.at = "stale" => saved'.at # "recent"
    BY <2>1, SMT
  <2> QED
    BY <1>1, <2>1, <2>2, <2>3, Zenon DEF RetiredIsStale
<1>4. CASE unsaved' = TRUE /\ saved' = saved
  <2>1. unsaved'
    BY <1>4, Zenon
  <2> QED
    BY <1>1, <1>2, <1>4, <2>1, Zenon DEF RetiredIsStale
<1> QED
  BY <1>3, <1>4, Zenon DEF SaveMeta

LEMMA StaleStep == TypeOK /\ RetiredIsStale /\ [Next]_vars => RetiredIsStale'
<1> SUFFICES ASSUME TypeOK, RetiredIsStale, [Next]_vars PROVE RetiredIsStale'
  OBVIOUS
<1>1. /\ meta.id \in retired => meta.at = "stale" /\ SessionIdleTTL = "positive"
      /\ saved.id \in retired => unsaved \/ (saved.at = "stale" /\ SessionIdleTTL = "positive")
      /\ meta.at = "stale" => saved.at # "recent"
      /\ meta.id # NoSession => meta.at # "never"
      /\ saved.id # NoSession => saved.at # "never"
  BY Zenon DEF RetiredIsStale
<1>2. /\ meta \in Slots /\ saved \in Slots /\ unsaved \in BOOLEAN
      /\ NoSession \notin retired /\ NoSession \notin opened
  BY ChatAssumption, SMT DEF TypeOK
<1>3. SessionIdleTTL' = SessionIdleTTL
  BY DEF SessionIdleTTL
<1>4. ASSUME NEW t \in Turns, Reset(t)
      PROVE  RetiredIsStale'
  <2>1. meta' = EmptySlot /\ UNCHANGED <<saved, unsaved, retired>>
    BY <1>4, Zenon DEF Reset, ClearSession, wpVars
  <2> QED
    BY <1>1, <1>2, <1>3, <2>1, EmptyFacts, SMT DEF RetiredIsStale
<1>5. ASSUME NEW t \in Turns, ConfirmReset(t)
      PROVE  RetiredIsStale'
  <2>1. SaveMeta /\ meta' = meta /\ retired' = retired \cup (before[t] \ {meta.id})
    BY <1>5, Zenon DEF ConfirmReset
  <2>2. meta.id \in retired' => meta.id \in retired
    BY <2>1, Zenon
  <2> QED
    BY <2>1, <2>2, SaveKeepsStale, Zenon
<1>6. ASSUME NEW t \in Turns, SendMessage(t)
      PROVE  RetiredIsStale'
  <2>1. UNCHANGED <<saved, unsaved>>
    BY <1>6, Zenon DEF SendMessage
  <2>2. CASE Rotates
    <3>1. meta' = EmptySlot /\ retired' = retired \cup ({meta.id} \ {NoSession})
      BY <1>6, <2>2, Zenon DEF SendMessage, ClearSession
    <3>2. meta.at = "stale" /\ SessionIdleTTL = "positive"
      BY <2>2 DEF Rotates, IsSessionExpired
    <3>3. saved.at \in Ages
      BY <1>2, SMT DEF Slots
    <3>4. saved.id \in retired' => unsaved \/ saved.at = "stale"
      BY <1>1, <1>2, <3>1, <3>2, <3>3, SMT DEF Ages
    <3> QED
      BY <1>1, <1>2, <1>3, <2>1, <3>1, <3>2, <3>4, EmptyFacts, SMT DEF RetiredIsStale
  <2>3. CASE ~Rotates
    <3>1. UNCHANGED <<meta, retired>>
      BY <1>6, <2>3, Zenon DEF SendMessage
    <3> QED
      BY <1>1, <1>3, <2>1, <3>1, Zenon DEF RetiredIsStale
  <2> QED
    BY <2>2, <2>3
<1>7. ASSUME NEW t \in Turns, SendReturns(t)
      PROVE  RetiredIsStale'
  <2>1. UNCHANGED <<saved, unsaved>>
    BY <1>7, Zenon DEF SendReturns
  <2>2. CASE reply[t].session = NoSession
    <3>1. UNCHANGED <<meta, retired>>
      BY <1>7, <2>2, Zenon DEF SendReturns
    <3> QED
      BY <1>1, <1>3, <2>1, <3>1, Zenon DEF RetiredIsStale
  <2>3. CASE reply[t].session # NoSession
    <3>1. /\ meta' = TouchPortal(RememberSessionID(meta, reply[t].session))
          /\ retired' = retired \ {reply[t].session}
      BY <1>7, <2>3, Zenon DEF SendReturns
    <3>2. reply[t].session \in Sessions
      BY <2>3, SMT DEF TypeOK
    <3>3. meta'.id = reply[t].session /\ meta'.at = "recent"
      BY <1>2, <3>1, <3>2, SlotOperations, Zenon
    <3> QED
      BY <1>1, <1>3, <2>1, <3>1, <3>3, SMT DEF RetiredIsStale
  <2> QED
    BY <2>2, <2>3
<1>8. ASSUME NEW t \in Turns, SaveSession(t)
      PROVE  RetiredIsStale'
  <2>1. SaveMeta /\ UNCHANGED <<meta, retired>>
    BY <1>8, Zenon DEF SaveSession, wpVars
  <2> QED
    BY <2>1, SaveKeepsStale, Zenon
<1>9. CASE TimePasses
  <2>1. meta' = Aged(meta) /\ saved' = Aged(saved) /\ UNCHANGED <<unsaved, retired>>
    BY <1>9, Zenon DEF TimePasses, wpVars
  <2>2. /\ meta'.id = meta.id /\ meta'.at = IF meta.at = "recent" THEN "stale" ELSE meta.at
        /\ saved'.id = saved.id /\ saved'.at = IF saved.at = "recent" THEN "stale" ELSE saved.at
    BY <1>2, <2>1, SMT DEF Aged, Slots
  <2> QED
    BY <1>1, <1>3, <2>1, <2>2, SMT DEF RetiredIsStale
<1>10. CASE Crash
  <2>1. meta' = saved /\ saved' = saved
    BY <1>10, Zenon DEF Crash
  <2>2. /\ saved.id \in retired' => ~unsaved /\ saved.id \in retired
    BY <1>10, SMT DEF Crash
  <2> QED
    BY <1>1, <1>2, <1>3, <2>1, <2>2, SMT DEF RetiredIsStale
<1>11. ASSUME NEW t \in Turns, Begin(t) \/ WordPressAnswers(t) \/ SendFails(t)
                  \/ ContinueChat(t) \/ ContinueFails(t) \/ Conclude(t)
       PROVE  RetiredIsStale'
  <2>1. UNCHANGED <<meta, saved, unsaved, retired>>
    BY <1>11, Zenon DEF Begin, WordPressAnswers, SendFails, ContinueChat, ContinueFails, Conclude,
       metaVars, wpVars
  <2> QED
    BY <1>1, <1>3, <2>1, Zenon DEF RetiredIsStale
<1>12. CASE LogoutRemote \/ ConnectRenames \/ TypingExpires \/ UNCHANGED vars
  <2>1. UNCHANGED <<meta, saved, unsaved, retired>>
    BY <1>12, Zenon DEF LogoutRemote, ConnectRenames, TypingExpires, vars, metaVars, wpVars
  <2> QED
    BY <1>1, <1>3, <2>1, Zenon DEF RetiredIsStale
<1> QED
  BY <1>4, <1>5, <1>6, <1>7, <1>8, <1>9, <1>10, <1>11, <1>12, Zenon DEF Next, Handler

LEMMA StaleInit == Init => RetiredIsStale
  BY EmptyFacts, SMT DEF Init, RetiredIsStale

\* However turns overlap, time out, fail to save or crash, a session that was
\* given up and not taken up again is never sent to: what a restart finds of it
\* is stale, and rotated first (connector.go:135-136, client.go:398).
THEOREM NeverSentAgain == Spec => RetiredNeverSent
<1> DEFINE A == \A t \in Turns :
                  pc[t] # "sending" /\ pc'[t] = "sending" => sid'[t] \notin retired'
<1>1. TypeOK /\ RetiredIsStale /\ [Next]_vars => [A]_vars
  <2> SUFFICES ASSUME TypeOK, RetiredIsStale, Next, NEW t \in Turns,
                      pc[t] # "sending", pc'[t] = "sending"
               PROVE  sid'[t] \notin retired'
    BY Zenon DEF A
  <2>1. SendMessage(t)
    <3>1. ASSUME NEW u \in Turns, Begin(u) \/ Handler(u) \/ WordPressAnswers(u), ~SendMessage(u)
          PROVE  FALSE
      <4>1. \/ pc' = pc
            \/ \E to \in {"begun", "resetting", "saving", "continuing", "concluding", "done"} :
                  pc' = [pc EXCEPT ![u] = to]
        BY <3>1, Zenon DEF Begin, Handler, WordPressAnswers, Reset, ConfirmReset, SendReturns,
           SendFails, SaveSession, ContinueChat, ContinueFails, Conclude, Done
      <4> QED
        BY <4>1, SMT DEF TypeOK
    <3>2. ASSUME NEW u \in Turns, SendMessage(u)
          PROVE  u = t
      <4>1. pc' = [pc EXCEPT ![u] = "sending"]
        BY <3>2, Zenon DEF SendMessage
      <4> QED
        BY <4>1, SMT DEF TypeOK
    <3>3. ~TimePasses /\ ~LogoutRemote /\ ~ConnectRenames /\ ~TypingExpires /\ ~Crash
      BY SMT DEF TimePasses, LogoutRemote, ConnectRenames, TypingExpires, Crash, turnVars, TypeOK,
           Active
    <3> QED
      BY <3>1, <3>2, <3>3, Zenon DEF Next
  <2>2. sid'[t] = meta'.id
    <3>1. sid' = [sid EXCEPT ![t] = meta'.id]
      BY <2>1, Zenon DEF SendMessage
    <3> QED
      BY <3>1, SMT DEF TypeOK
  <2>3. CASE Rotates
    <3>1. meta' = EmptySlot
      BY <2>1, <2>3, Zenon DEF SendMessage, ClearSession
    <3>2. retired' = retired \cup ({meta.id} \ {NoSession})
      BY <2>1, <2>3, Zenon DEF SendMessage
    <3>3. NoSession \notin retired
      BY ChatAssumption, Zenon DEF TypeOK
    <3> QED
      BY <2>2, <3>1, <3>2, <3>3, EmptyFacts, SMT
  <2>4. CASE ~Rotates
    <3>1. meta' = meta /\ retired' = retired
      BY <2>1, <2>4, Zenon DEF SendMessage
    <3> QED
      BY <2>2, <2>4, <3>1, Zenon DEF Rotates, IsSessionExpired, RetiredIsStale
  <2> QED
    BY <2>3, <2>4
<1> HIDE DEF A
<1>2. Spec => [][A]_vars
  BY <1>1, StaleInit, StaleStep, TypeInit, TypeStep, PTL DEF Spec
<1> QED
  BY <1>2 DEF A, RetiredNeverSent

-----------------------------------------------------------------------------
\* What a restart finds, whatever overlaps: whoever changes the slot but for a
\* rotation saves it before its handler goes on.

LEMMA CurrentStep ==
  TypeOK /\ RetiredIsStale /\ SavedIsCurrent /\ [Next]_vars => SavedIsCurrent'
<1> DEFINE Settled == \A t \in Turns : pc[t] \notin {"resetting", "saving"}
           Agree == saved.id = meta.id \/ (meta.id = NoSession /\ saved.at = "stale")
<1> SUFFICES ASSUME TypeOK, RetiredIsStale, SavedIsCurrent, [Next]_vars, ~unsaved', Settled'
             PROVE  Agree'
  BY Zenon DEF SavedIsCurrent
<1>1. ~unsaved /\ Settled => Agree
  BY Zenon DEF SavedIsCurrent
<1> HIDE DEF Agree
<1>2. pc \in [Turns -> {"idle", "begun", "resetting", "sending", "saving", "continuing",
                        "concluding", "done"}]
      /\ meta \in Slots /\ saved \in Slots
  BY DEF TypeOK
<1>3. ASSUME NEW t \in Turns, ConfirmReset(t) \/ SaveSession(t)
      PROVE  Agree'
  <2>1. SaveMeta /\ meta' = meta
    BY <1>3, Zenon DEF ConfirmReset, SaveSession
  <2>2. saved' = meta
    BY <2>1, Zenon DEF SaveMeta
  <2> QED
    BY <2>1, <2>2, Zenon DEF Agree
<1>4. CASE Crash
  <2>1. meta' = saved /\ saved' = saved
    BY <1>4, Zenon DEF Crash
  <2> QED
    BY <2>1, Zenon DEF Agree
<1>5. ASSUME NEW t \in Turns, Reset(t) \/ (SendReturns(t) /\ reply[t].session # NoSession)
      PROVE  Agree'
  <2>1. pc' = [pc EXCEPT ![t] = "resetting"] \/ pc' = [pc EXCEPT ![t] = "saving"]
    BY <1>5, Zenon DEF Reset, SendReturns
  <2>2. pc'[t] \in {"resetting", "saving"}
    BY <1>2, <2>1, Zenon
  <2> QED
    BY <2>2, Zenon
<1>6. ASSUME NEW t \in Turns, SendMessage(t)
      PROVE  Agree'
  <2>1. pc[t] = "begun" /\ pc' = [pc EXCEPT ![t] = "sending"] /\ UNCHANGED <<saved, unsaved>>
    BY <1>6, Zenon DEF SendMessage
  <2>2. Settled
    BY <1>2, <2>1, SMT
  <2>3. Agree
    BY <1>1, <2>1, <2>2, Zenon
  <2>4. CASE Rotates
    <3>1. meta' = EmptySlot
      BY <1>6, <2>4, Zenon DEF SendMessage, ClearSession
    <3>2. meta.at = "stale"
      BY <2>4, Zenon DEF Rotates, IsSessionExpired
    <3>3. saved.id = NoSession \/ saved.at = "stale"
      BY <1>2, <2>3, <3>2, SMT DEF RetiredIsStale, Slots, Ages, Agree
    <3> QED
      BY <2>1, <3>1, <3>3, EmptyFacts, Zenon DEF Agree
  <2>5. CASE ~Rotates
    <3>1. meta' = meta
      BY <1>6, <2>5, Zenon DEF SendMessage
    <3> QED
      BY <2>1, <2>3, <3>1, Zenon DEF Agree
  <2> QED
    BY <2>4, <2>5, Zenon
<1>7. CASE TimePasses
  <2>1. meta' = Aged(meta) /\ saved' = Aged(saved) /\ UNCHANGED <<pc, unsaved>>
    BY <1>7, Zenon DEF TimePasses, turnVars
  <2>2. /\ meta'.id = meta.id /\ saved'.id = saved.id
        /\ saved.at = "stale" => saved'.at = "stale"
    BY <1>2, <2>1, SMT DEF Aged, Slots
  <2>3. Agree
    BY <1>1, <2>1, Zenon
  <2> QED
    BY <2>2, <2>3, Zenon DEF Agree
<1>8. ASSUME NEW t \in Turns,
             Begin(t) \/ WordPressAnswers(t) \/ SendFails(t) \/ ContinueChat(t)
               \/ ContinueFails(t) \/ Conclude(t)
               \/ (SendReturns(t) /\ reply[t].session = NoSession)
      PROVE  Agree'
  <2>1. UNCHANGED <<meta, saved, unsaved>>
    BY <1>8, Zenon DEF Begin, WordPressAnswers, SendFails, ContinueChat, ContinueFails, Conclude,
       SendReturns, metaVars
  <2>2. \/ pc' = pc
        \/ /\ pc[t] \in {"idle", "sending", "continuing", "concluding"}
           /\ \E to \in {"begun", "continuing", "concluding", "done"} :
                 pc' = [pc EXCEPT ![t] = to]
    BY <1>8, Zenon DEF Begin, WordPressAnswers, SendFails, ContinueChat, ContinueFails, Conclude,
       SendReturns, Done
  <2>3. Settled
    BY <1>2, <2>2, SMT
  <2> QED
    BY <1>1, <2>1, <2>3, Zenon DEF Agree
<1>9. CASE LogoutRemote \/ ConnectRenames \/ TypingExpires \/ UNCHANGED vars
  <2>1. UNCHANGED <<pc, meta, saved, unsaved>>
    BY <1>9, Zenon DEF LogoutRemote, ConnectRenames, TypingExpires, vars, turnVars, metaVars
  <2> QED
    BY <1>1, <2>1, Zenon DEF Agree
<1> QED
  BY <1>3, <1>4, <1>5, <1>6, <1>7, <1>8, <1>9, Zenon DEF Next, Handler

\* However turns overlap, time out or crash, and unless the last save failed:
\* when no handler is about to save, the database has what the memory has, or a
\* session that was rotated and is still found stale after a restart
\* (client.go:398-409, client.go:444).
THEOREM SavedCurrent == Spec => []SavedIsCurrent
<1>1. Init => SavedIsCurrent
  BY Zenon DEF Init, SavedIsCurrent
<1> QED
  BY <1>1, TypeInit, TypeStep, StaleInit, StaleStep, CurrentStep, PTL DEF Spec

-----------------------------------------------------------------------------
\* Turns one after the other: SerialInv.

\* What is live stays live, or becomes given up or lost, but for new sessions.
LEMMA LiveBound ==
  ASSUME TypeOK, NEW S, retired \subseteq retired', opened' \subseteq opened \cup S,
         \A u \in Unfinished : /\ u \in Unfinished'
                               /\ reply'[u].session = reply[u].session \/ reply[u].session = NoSession
  PROVE  Live' \subseteq Live \cup S
<1> SUFFICES ASSUME NEW x \in Live', x \notin S PROVE x \in Live
  OBVIOUS
<1>1. x \in opened /\ x \notin retired /\ x \notin Lost' /\ x # NoSession
  BY ChatAssumption, Zenon DEF Live, TypeOK
<1>2. x \notin Lost
  <2> SUFFICES ASSUME x \in Lost PROVE FALSE
    OBVIOUS
  <2>1. PICK u \in Unfinished : reply[u].session = x
    BY Zenon DEF Lost
  <2>2. u \in Unfinished' /\ reply'[u].session = x
    BY <1>1, <2>1, Zenon
  <2> QED
    BY <1>1, <2>2, Zenon DEF Lost
<1> QED
  BY <1>1, <1>2, Zenon DEF Live

\* The session of a turn that is not finished is not live.
LEMMA LostNotLive ==
  ASSUME NEW t \in Unfinished'
  PROVE  reply'[t].session \notin Live'
  BY Zenon DEF Live, Lost

LEMMA OthersInactive ==
  ASSUME TurnsKnown, NEW t \in Turns, Active(t)
  PROVE  \A u \in Turns \ {t} : pc[u] \in {"idle", "done"}
  BY SMT DEF TurnsKnown, Active

\* A step that leaves slot, sessions and requests alone.
LEMMA QuietStep ==
  ASSUME SerialInv, UNCHANGED <<sid, request, before, meta, saved, unsaved, opened, retired>>,
         \A u \in Turns :
            /\ reply'[u].session = reply[u].session
            /\ \/ pc'[u] = pc[u]
               \/ /\ pc[u] \notin {"resetting", "sending", "saving"}
                  /\ pc'[u] \notin {"resetting", "sending", "saving"}
            /\ outcome'[u] = outcome[u] \/ pc[u] # "done"
  PROVE  (IdsOpened /\ SlotsKnown /\ AnswersCurrent /\ LiveIsCurrent)'
<1>1. /\ TypeOK /\ TurnsKnown /\ IdsOpened /\ SlotsKnown /\ RetiredIsStale /\ AnswersCurrent
      /\ LiveIsCurrent
  BY DEF SerialInv
<1>2. \A u \in Turns : /\ pc'[u] = "resetting" <=> pc[u] = "resetting"
                       /\ pc'[u] = "sending" <=> pc[u] = "sending"
                       /\ pc'[u] = "saving" <=> pc[u] = "saving"
  BY Zenon
<1>3. IdsOpened'
  BY <1>1, Zenon DEF IdsOpened
<1>4. SlotsKnown'
  <2>1. (\A t \in Turns : pc'[t] \notin {"resetting", "saving"}) => unsaved \/ InSync
    BY <1>1, <1>2, SMT DEF SlotsKnown
  <2>2. EmptySlot' = EmptySlot
    BY DEF EmptySlot
  <2> QED
    BY <1>1, <1>2, <2>1, <2>2, Zenon DEF SlotsKnown, InSync
<1>5. AnswersCurrent'
  BY <1>1, <1>2, Zenon DEF AnswersCurrent
<1>6. Live' \subseteq Live
  <2>1. \A u \in Unfinished : u \in Unfinished'
    BY <1>1, SMT DEF Unfinished, TurnsKnown
  <2>2. Live' \subseteq Live \cup {}
    BY <1>1, <2>1, LiveBound, Zenon DEF Unfinished
  <2> QED
    BY <2>2
<1>7. LiveIsCurrent'
  <2>1. (\A t \in Turns : pc'[t] \notin {"resetting", "sending"}) => Live' \subseteq {meta.id}
    BY <1>1, <1>2, <1>6, SMT DEF LiveIsCurrent
  <2>2. ASSUME NEW t \in Turns, pc'[t] = "resetting"
        PROVE  /\ Live' \subseteq before[t]
               /\ unsaved \/ Live' \subseteq {saved.id}
               /\ \E s \in Sessions \cup {NoSession} : Live' \subseteq {s}
    <3>1. /\ Live \subseteq before[t]
          /\ unsaved \/ Live \subseteq {saved.id}
          /\ \E s \in Sessions \cup {NoSession} : Live \subseteq {s}
      BY <1>1, <1>2, <2>2, Zenon DEF LiveIsCurrent
    <3> QED
      BY <1>6, <3>1, Zenon
  <2>3. ASSUME NEW t \in Turns, pc'[t] = "sending"
        PROVE  Live' \subseteq {IF sid[t] # NoSession THEN sid[t] ELSE reply'[t].session}
    BY <1>1, <1>2, <1>6, <2>3, SMT DEF LiveIsCurrent
  <2> QED
    BY <2>1, <2>2, <2>3, Zenon DEF LiveIsCurrent
<1> QED
  BY <1>3, <1>4, <1>5, <1>7

LEMMA BeginSerial ==
  ASSUME SerialInv, ~Overlap, NEW t \in Turns, Begin(t)
  PROVE  (TurnsKnown /\ IdsOpened /\ SlotsKnown /\ AnswersCurrent /\ LiveIsCurrent)'
<1>1. TypeOK /\ TurnsKnown
  BY DEF SerialInv
<1>2. /\ pc[t] = "idle" /\ \A u \in Turns : ~Active(u)
      /\ UNCHANGED <<sid, request, reply, before, meta, saved, unsaved, opened, retired>>
  BY Zenon DEF Begin, metaVars, wpVars
<1>3. \/ pc' = [pc EXCEPT ![t] = "begun"] /\ outcome' = outcome
      \/ pc' = [pc EXCEPT ![t] = "done"] /\ outcome' = [outcome EXCEPT ![t] = "rejected"]
  BY Zenon DEF Begin, Done
<1>4. \A u \in Turns : u # t => pc'[u] = pc[u] /\ outcome'[u] = outcome[u]
  BY <1>1, <1>3, SMT DEF TypeOK
<1>5. \/ pc'[t] = "begun" /\ outcome'[t] = outcome[t]
      \/ pc'[t] = "done" /\ outcome'[t] = "rejected"
  BY <1>1, <1>3, SMT DEF TypeOK
<1>6. TurnsKnown'
  <2>1. NoReply' = NoReply
    BY DEF NoReply
  <2>2. \A u \in Turns : pc[u] \in {"idle", "done"}
    BY <1>2, SMT DEF Active
  <2>3. \A u, v \in Turns : Active(u)' /\ Active(v)' => u = v
    BY <1>4, <2>2, SMT DEF Active
  <2>4. request[t] = "none" /\ outcome[t] = "none"
    BY <1>1, <1>2, Zenon DEF TurnsKnown
  <2>5. \A u \in Turns :
          /\ pc'[u] \in {"idle", "begun", "resetting"} => request'[u] = "none"
          /\ pc'[u] # "done" => outcome'[u] = "none"
          /\ pc'[u] \in {"saving", "continuing", "concluding"} => request'[u] = "answered"
          /\ request'[u] # "answered" => reply'[u] = NoReply
          /\ request'[u] = "sent" =>
                pc'[u] = "sending" \/ outcome'[u] \in {"failed", "crashed"}
    BY <1>1, <1>2, <1>4, <1>5, <2>4, SMT DEF TurnsKnown
  <2> QED
    BY <2>1, <2>3, <2>5, Zenon DEF TurnsKnown
<1>7. \A u \in Turns :
        /\ reply'[u].session = reply[u].session
        /\ \/ pc'[u] = pc[u]
           \/ /\ pc[u] \notin {"resetting", "sending", "saving"}
              /\ pc'[u] \notin {"resetting", "sending", "saving"}
        /\ outcome'[u] = outcome[u] \/ pc[u] # "done"
  BY <1>2, <1>4, <1>5, SMT
<1> QED
  BY <1>2, <1>6, <1>7, QuietStep, Zenon

LEMMA ContinueSerial ==
  ASSUME SerialInv, NEW t \in Turns, ContinueChat(t) \/ ContinueFails(t) \/ Conclude(t)
  PROVE  (TurnsKnown /\ IdsOpened /\ SlotsKnown /\ AnswersCurrent /\ LiveIsCurrent)'
<1>1. TypeOK /\ TurnsKnown
  BY DEF SerialInv
<1>2. /\ pc[t] \in {"continuing", "concluding"}
      /\ UNCHANGED <<sid, request, before, meta, saved, unsaved, opened, retired>>
  BY Zenon DEF ContinueChat, ContinueFails, Conclude, metaVars, wpVars
<1>3. request[t] = "answered"
  BY <1>1, <1>2, SMT DEF TurnsKnown
<1>4. /\ \A u \in Turns : u # t => /\ pc'[u] = pc[u] /\ outcome'[u] = outcome[u]
                                   /\ reply'[u] = reply[u]
      /\ reply'[t].session = reply[t].session
      /\ \/ pc'[t] \in {"continuing", "concluding"} /\ outcome'[t] = outcome[t]
         \/ pc'[t] = "done"
  <2>1. CASE ContinueChat(t)
    <3>1. PICK completed \in BOOLEAN, text \in BOOLEAN :
             reply' = [reply EXCEPT ![t] = Continued(@, completed, text)]
      BY <2>1, Zenon DEF ContinueChat
    <3>2. reply'[t].session = reply[t].session /\ \A u \in Turns : u # t => reply'[u] = reply[u]
      BY <1>1, <3>1, SMT DEF TypeOK, Continued
    <3>3. UNCHANGED <<pc, outcome>>
      BY <2>1, Zenon DEF ContinueChat
    <3> QED
      BY <1>2, <3>2, <3>3, Zenon
  <2>2. CASE ContinueFails(t)
    <3>1. pc' = [pc EXCEPT ![t] = "concluding"] /\ UNCHANGED <<outcome, reply>>
      BY <2>2, Zenon DEF ContinueFails
    <3> QED
      BY <1>1, <3>1, SMT DEF TypeOK
  <2>3. CASE Conclude(t)
    <3>1. PICK how \in {"answered", "silent"} :
             /\ pc' = [pc EXCEPT ![t] = "done"]
             /\ outcome' = [outcome EXCEPT ![t] = how]
      BY <2>3, Zenon DEF Conclude, Done
    <3>2. UNCHANGED reply
      BY <2>3, Zenon DEF Conclude
    <3> QED
      BY <1>1, <3>1, <3>2, SMT DEF TypeOK
  <2> QED
    BY <2>1, <2>2, <2>3
<1>5. TurnsKnown'
  <2>1. \A u \in Turns : Active(u)' => Active(u)
    BY <1>2, <1>4, SMT DEF Active
  <2>2. \A u \in Turns :
          /\ pc'[u] \in {"idle", "begun", "resetting"} => request'[u] = "none"
          /\ pc'[u] # "done" => outcome'[u] = "none"
          /\ pc'[u] \in {"saving", "continuing", "concluding"} => request'[u] = "answered"
          /\ request'[u] # "answered" => reply'[u] = NoReply
          /\ request'[u] = "sent" =>
                pc'[u] = "sending" \/ outcome'[u] \in {"failed", "crashed"}
    BY <1>1, <1>2, <1>3, <1>4, SMT DEF TurnsKnown
  <2>3. NoReply' = NoReply
    BY DEF NoReply
  <2> QED
    BY <1>1, <2>1, <2>2, <2>3, Zenon DEF TurnsKnown
<1> QED
  BY <1>1, <1>2, <1>4, <1>5, QuietStep, SMT

LEMMA OutsideSerial ==
  ASSUME SerialInv, LogoutRemote \/ ConnectRenames \/ TypingExpires \/ UNCHANGED vars
  PROVE  (TurnsKnown /\ IdsOpened /\ SlotsKnown /\ AnswersCurrent /\ LiveIsCurrent)'
<1>1. UNCHANGED <<pc, sid, request, reply, before, outcome, meta, saved, unsaved, opened,
                  retired>>
  BY Zenon DEF LogoutRemote, ConnectRenames, TypingExpires, vars, turnVars, metaVars, wpVars
<1>2. TurnsKnown'
  <2>1. TurnsKnown /\ NoReply' = NoReply
    BY DEF SerialInv, NoReply
  <2> QED
    BY <1>1, <2>1, SMT DEF TurnsKnown, Active
<1> QED
  BY <1>1, <1>2, QuietStep, SMT

\* A step of the one active turn: what is to be shown of its fields.
LEMMA ActiveStep ==
  ASSUME SerialInv, NEW t \in Turns, Active(t),
         \A u \in Turns \ {t} :
            /\ pc'[u] = pc[u] /\ sid'[u] = sid[u] /\ request'[u] = request[u]
            /\ reply'[u] = reply[u] /\ before'[u] = before[u] /\ outcome'[u] = outcome[u],
         /\ pc'[t] \notin {"idle", "begun"}
         /\ pc'[t] = "resetting" => request'[t] = "none"
         /\ pc'[t] # "done" => outcome'[t] = "none"
         /\ pc'[t] \in {"saving", "continuing", "concluding"} => request'[t] = "answered"
         /\ request'[t] # "answered" => reply'[t] = NoReply
         /\ request'[t] = "sent" => pc'[t] = "sending" \/ outcome'[t] \in {"failed", "crashed"},
         /\ {meta'.id, saved'.id} \subseteq opened' \cup {NoSession}
         /\ opened \subseteq opened' /\ retired' \subseteq opened'
         /\ before'[t] \subseteq opened'
         /\ {sid'[t], reply'[t].session} \subseteq opened' \cup {NoSession}
         /\ sid'[t] # NoSession => reply'[t].session \in {sid'[t], NoSession},
         /\ pc'[t] \notin {"resetting", "saving"} => unsaved' \/ InSync'
         /\ pc'[t] = "resetting" => meta' = EmptySlot
         /\ pc'[t] = "sending" => sid'[t] = meta'.id
         /\ pc'[t] = "saving" => reply'[t].session = meta'.id,
         /\ pc'[t] = "sending" => sid'[t] \notin retired' /\ reply'[t].session \notin retired',
         /\ pc'[t] \notin {"resetting", "sending"} => Live' \subseteq {meta'.id}
         /\ pc'[t] = "resetting" =>
               /\ Live' \subseteq before'[t]
               /\ unsaved' \/ Live' \subseteq {saved'.id}
               /\ \E s \in Sessions \cup {NoSession} : Live' \subseteq {s}
         /\ pc'[t] = "sending" =>
               Live' \subseteq {IF sid'[t] # NoSession THEN sid'[t] ELSE reply'[t].session}
  PROVE  (TurnsKnown /\ IdsOpened /\ SlotsKnown /\ AnswersCurrent /\ LiveIsCurrent)'
<1>1. TurnsKnown /\ IdsOpened
  BY DEF SerialInv
<1>2. \A u \in Turns \ {t} : pc'[u] \in {"idle", "done"}
  BY <1>1, OthersInactive, SMT
<1>3. TurnsKnown'
  <2>1. NoReply' = NoReply
    BY DEF NoReply
  <2>2. \A u, v \in Turns : Active(u)' /\ Active(v)' => u = v
    BY <1>2, SMT DEF Active
  <2>3. \A u \in Turns :
          /\ pc'[u] \in {"idle", "begun", "resetting"} => request'[u] = "none"
          /\ pc'[u] # "done" => outcome'[u] = "none"
          /\ pc'[u] \in {"saving", "continuing", "concluding"} => request'[u] = "answered"
          /\ request'[u] # "answered" => reply'[u] = NoReply
          /\ request'[u] = "sent" =>
                pc'[u] = "sending" \/ outcome'[u] \in {"failed", "crashed"}
    BY <1>1, SMT DEF TurnsKnown
  <2> QED
    BY <2>1, <2>2, <2>3, Zenon DEF TurnsKnown
<1>4. IdsOpened'
  BY <1>1, SMT DEF IdsOpened
<1>5. SlotsKnown'
  <2>1. EmptySlot' = EmptySlot
    BY DEF EmptySlot
  <2> QED
    BY <1>2, <2>1, SMT DEF SlotsKnown
<1>6. AnswersCurrent'
  BY <1>2, SMT DEF AnswersCurrent
<1>7. LiveIsCurrent'
  BY <1>2, SMT DEF LiveIsCurrent
<1> QED
  BY <1>3, <1>4, <1>5, <1>6, <1>7

\* The steps of a handler that sends, resets or saves nothing of another turn.
LEMMA ResetSerial ==
  ASSUME SerialInv, NEW t \in Turns, Reset(t)
  PROVE  (TurnsKnown /\ IdsOpened /\ SlotsKnown /\ AnswersCurrent /\ LiveIsCurrent)'
<1>1. /\ TypeOK /\ TurnsKnown /\ IdsOpened /\ SlotsKnown /\ RetiredIsStale /\ AnswersCurrent
      /\ LiveIsCurrent
  BY DEF SerialInv
<1>2. /\ pc[t] = "begun" /\ pc' = [pc EXCEPT ![t] = "resetting"]
      /\ before' = [before EXCEPT ![t] = opened] /\ meta' = EmptySlot
      /\ UNCHANGED <<sid, request, reply, outcome, saved, unsaved, opened, retired>>
  BY Zenon DEF Reset, ClearSession, wpVars
<1>3. Active(t)
  BY <1>2, SMT DEF Active
<1>4. pc'[t] = "resetting" /\ before'[t] = opened /\ request[t] = "none" /\ outcome[t] = "none"
  BY <1>1, <1>2, SMT DEF TypeOK, TurnsKnown
<1>5. \A u \in Turns \ {t} : pc'[u] = pc[u] /\ before'[u] = before[u] /\ pc[u] \in {"idle", "done"}
  BY <1>1, <1>2, <1>3, OthersInactive, SMT DEF TypeOK
<1>6. unsaved \/ saved = meta \/ meta = EmptySlot
  BY <1>1, <1>2, <1>5, SMT DEF SlotsKnown, InSync
<1>7. /\ Live' \subseteq opened
      /\ unsaved' \/ Live' \subseteq {saved.id}
      /\ \E s \in Sessions \cup {NoSession} : Live' \subseteq {s}
  <2>1. Live' = Live
    BY <1>2, Zenon DEF Live, Lost, Unfinished
  <2>2. Live \subseteq opened /\ NoSession \notin opened /\ meta.id \in Sessions \cup {NoSession}
    BY <1>1, ChatAssumption, SMT DEF Live, TypeOK, Slots
  <2>3. Live \subseteq {meta.id}
    BY <1>1, <1>2, <1>5, SMT DEF LiveIsCurrent
  <2>4. unsaved \/ Live' \subseteq {saved.id}
    BY <1>6, <2>1, <2>2, <2>3, EmptyFacts, SMT
  <2> QED
    BY <1>2, <2>1, <2>2, <2>3, <2>4, Zenon
<1>8. NoSession \notin retired
  BY <1>1, ChatAssumption, SMT DEF TypeOK
<1>9. /\ reply[t] = NoReply \/ request[t] = "answered"
      /\ {saved.id, sid[t], reply[t].session} \subseteq opened \cup {NoSession}
      /\ sid[t] # NoSession => reply[t].session \in {sid[t], NoSession}
      /\ retired \subseteq opened
  BY <1>1, SMT DEF TurnsKnown, IdsOpened
<1> QED
  BY <1>2, <1>3, <1>4, <1>5, <1>7, <1>8, <1>9, EmptyFacts, ActiveStep, SMT

LEMMA ConfirmResetSerial ==
  ASSUME SerialInv, NEW t \in Turns, ConfirmReset(t)
  PROVE  (TurnsKnown /\ IdsOpened /\ SlotsKnown /\ AnswersCurrent /\ LiveIsCurrent)'
<1>1. /\ TypeOK /\ TurnsKnown /\ IdsOpened /\ SlotsKnown /\ RetiredIsStale /\ AnswersCurrent
      /\ LiveIsCurrent
  BY DEF SerialInv
<1>2. /\ pc[t] = "resetting" /\ SaveMeta /\ retired' = retired \cup (before[t] \ {meta.id})
      /\ pc' = [pc EXCEPT ![t] = "done"] /\ outcome' = [outcome EXCEPT ![t] = "reset"]
      /\ UNCHANGED <<sid, request, reply, before, meta, opened>>
  BY Zenon DEF ConfirmReset, Done
<1>3. Active(t)
  BY <1>2, SMT DEF Active
<1>4. pc'[t] = "done" /\ outcome'[t] = "reset" /\ request[t] = "none" /\ outcome[t] = "none"
  BY <1>1, <1>2, SMT DEF TypeOK, TurnsKnown
<1>5. \A u \in Turns \ {t} : pc'[u] = pc[u] /\ outcome'[u] = outcome[u]
  BY <1>1, <1>2, SMT DEF TypeOK
<1>6. meta = EmptySlot /\ NoSession \notin opened /\ before[t] \subseteq opened
      /\ retired \subseteq opened
  BY <1>1, <1>2, ChatAssumption, SMT DEF SlotsKnown, TypeOK, IdsOpened
<1>7. Live' = {}
  <2>1. Live' \subseteq Live \cup {}
    <3>1. \A u \in Unfinished : u \in Unfinished'
      BY <1>4, <1>5, SMT DEF Unfinished
    <3> QED
      BY <1>1, <1>2, <3>1, LiveBound, Zenon DEF Unfinished
  <2>2. Live \subseteq before[t]
    BY <1>1, <1>2, SMT DEF LiveIsCurrent
  <2>3. before[t] \subseteq retired'
    BY <1>2, <1>6, EmptyFacts, Zenon
  <2>4. Live' \cap before[t] = {}
    BY <2>3, SMT DEF Live
  <2> QED
    BY <2>1, <2>2, <2>4
<1>8. /\ {sid[t], reply[t].session} \subseteq opened \cup {NoSession}
      /\ sid[t] # NoSession => reply[t].session \in {sid[t], NoSession}
      /\ request[t] # "answered" => reply[t] = NoReply
  BY <1>1, Zenon DEF IdsOpened, TurnsKnown
<1>9. /\ unsaved' \/ InSync'
      /\ {meta'.id, saved'.id} \subseteq opened' \cup {NoSession}
      /\ retired' \subseteq opened'
  <2>1. (saved' = meta \/ saved' = saved) /\ (unsaved' \/ saved' = meta')
    BY <1>2, Zenon DEF SaveMeta
  <2>2. {meta.id, saved.id} \subseteq opened \cup {NoSession}
    BY <1>1, Zenon DEF IdsOpened
  <2>3. retired' \subseteq opened'
    BY <1>2, <1>6, Zenon
  <2>4. unsaved' \/ InSync'
    BY <2>1, Zenon DEF InSync
  <2> QED
    BY <1>2, <2>1, <2>2, <2>3, <2>4, Zenon
<1> QED
  BY <1>2, <1>3, <1>4, <1>5, <1>6, <1>7, <1>8, <1>9, ActiveStep, SMT

LEMMA SendMessageSerial ==
  ASSUME SerialInv, NEW t \in Turns, SendMessage(t)
  PROVE  (TurnsKnown /\ IdsOpened /\ SlotsKnown /\ AnswersCurrent /\ LiveIsCurrent)'
<1>1. /\ TypeOK /\ TurnsKnown /\ IdsOpened /\ SlotsKnown /\ RetiredIsStale /\ AnswersCurrent
      /\ LiveIsCurrent
  BY DEF SerialInv
<1>2. /\ pc[t] = "begun" /\ pc' = [pc EXCEPT ![t] = "sending"]
      /\ sid' = [sid EXCEPT ![t] = meta'.id]
      /\ request' = [request EXCEPT ![t] = IF loggedIn THEN "sent" ELSE "refused"]
      /\ UNCHANGED <<reply, before, outcome, saved, unsaved, opened>>
  BY Zenon DEF SendMessage
<1>3. Active(t)
  BY <1>2, SMT DEF Active
<1>4. /\ pc'[t] = "sending" /\ sid'[t] = meta'.id /\ request'[t] \in {"sent", "refused"}
      /\ \A u \in Turns \ {t} : pc'[u] = pc[u] /\ sid'[u] = sid[u] /\ request'[u] = request[u]
  BY <1>1, <1>2, SMT DEF TypeOK
<1>5. /\ request[t] = "none" /\ outcome[t] = "none" /\ reply[t] = NoReply
      /\ before[t] \subseteq opened /\ retired \subseteq opened
      /\ {meta.id, saved.id} \subseteq opened \cup {NoSession}
      /\ NoSession \notin opened
      /\ meta.id \in retired => meta.at = "stale" /\ SessionIdleTTL = "positive"
  BY <1>1, <1>2, ChatAssumption, SMT DEF TypeOK, TurnsKnown, IdsOpened, RetiredIsStale
<1>6. \A u \in Turns : pc[u] \notin {"resetting", "saving", "sending"}
  BY <1>1, <1>2, <1>3, OthersInactive, SMT
<1>7. unsaved \/ InSync
  BY <1>1, <1>6, Zenon DEF SlotsKnown
<1>8. Live \subseteq {meta.id}
  BY <1>1, <1>6, Zenon DEF LiveIsCurrent
<1>9. reply[t].session = NoSession
  BY <1>5 DEF NoReply
<1>10. NoSession \notin Live /\ Live' \subseteq Live
  <2>1. Lost' = Lost
    BY <1>2, Zenon DEF Lost, Unfinished
  <2>2. retired \subseteq retired'
    BY Zenon DEF SendMessage
  <2> QED
    BY <1>2, <1>5, <2>1, <2>2, Zenon DEF Live
<1>11. CASE Rotates
  <2>1. meta' = EmptySlot /\ retired' = retired \cup ({meta.id} \ {NoSession})
    BY <1>11, Zenon DEF SendMessage, ClearSession
  <2>2. SessionIdleTTL = "positive" /\ meta.at = "stale"
    BY <1>11 DEF Rotates, IsSessionExpired
  <2>3. Live' = {}
    <3>1. Live' \cap retired' = {}
      BY DEF Live
    <3> QED
      BY <1>8, <1>10, <2>1, <3>1, SMT
  <2>4. unsaved' \/ InSync'
    <3>1. unsaved \/ saved = meta
      BY <1>7, <2>2, EmptyFacts, SMT DEF InSync
    <3>2. EmptySlot' = EmptySlot
      BY DEF EmptySlot
    <3> QED
      BY <1>2, <2>1, <2>2, <3>1, <3>2, SMT DEF InSync
  <2>5. sid'[t] = NoSession
    BY <1>4, <2>1, EmptyFacts
  <2>6. NoSession \notin retired'
    BY <1>5, <2>1, SMT
  <2> QED
    BY <1>2, <1>3, <1>4, <1>5, <1>9, <2>1, <2>2, <2>3, <2>4, <2>5, <2>6, EmptyFacts, ActiveStep, SMT
<1>12. CASE ~Rotates
  <2>1. meta' = meta /\ retired' = retired
    BY <1>12, Zenon DEF SendMessage
  <2>2. meta.id \notin retired
    BY <1>5, <1>12, Zenon DEF Rotates, IsSessionExpired
  <2>3. Live' \subseteq {IF meta.id # NoSession THEN meta.id ELSE reply[t].session}
    BY <1>8, <1>10, SMT
  <2>4. unsaved' \/ InSync'
    <3>1. EmptySlot' = EmptySlot
      BY DEF EmptySlot
    <3> QED
      BY <1>2, <1>7, <2>1, <3>1, Zenon DEF InSync
  <2> QED
    BY <1>2, <1>3, <1>4, <1>5, <1>9, <2>1, <2>2, <2>3, <2>4, ActiveStep, SMT
<1> QED
  BY <1>11, <1>12

LEMMA SendReturnsSerial ==
  ASSUME SerialInv, NEW t \in Turns, SendReturns(t)
  PROVE  (TurnsKnown /\ IdsOpened /\ SlotsKnown /\ AnswersCurrent /\ LiveIsCurrent)'
<1>1. /\ TypeOK /\ TurnsKnown /\ IdsOpened /\ SlotsKnown /\ RetiredIsStale /\ AnswersCurrent
      /\ LiveIsCurrent
  BY DEF SerialInv
<1>2. /\ pc[t] = "sending" /\ request[t] = "answered"
      /\ UNCHANGED <<sid, request, reply, before, outcome, saved, unsaved, opened>>
  BY Zenon DEF SendReturns
<1>3. Active(t)
  BY <1>2, SMT DEF Active
<1>4. /\ outcome[t] = "none" /\ before[t] \subseteq opened /\ retired \subseteq opened
      /\ {meta.id, saved.id, sid[t], reply[t].session} \subseteq opened \cup {NoSession}
      /\ sid[t] # NoSession => reply[t].session \in {sid[t], NoSession}
  BY <1>1, <1>2, SMT DEF TurnsKnown, IdsOpened
<1>5. sid[t] = meta.id /\ (unsaved \/ InSync) /\ reply[t].session \notin retired
  BY <1>1, <1>2, Zenon DEF SlotsKnown, AnswersCurrent
<1>6. retired' = retired
  <2>1. retired' = retired \/ retired' = retired \ {reply[t].session}
    BY Zenon DEF SendReturns
  <2> QED
    BY <1>5, <2>1, SMT
<1>7. Live' \subseteq {IF sid[t] # NoSession THEN sid[t] ELSE reply[t].session}
  <2>1. Live' = Live
    BY <1>2, <1>6, Zenon DEF Live, Lost, Unfinished
  <2> QED
    BY <1>1, <1>2, <2>1, Zenon DEF LiveIsCurrent
<1>8. NoSession \notin Live'
  BY <1>1, <1>2, ChatAssumption, SMT DEF TypeOK, Live
<1>9. CASE reply[t].session = NoSession
  <2>1. pc' = [pc EXCEPT ![t] = "continuing"] /\ meta' = meta
    BY <1>9, Zenon DEF SendReturns
  <2>2. pc'[t] = "continuing" /\ \A u \in Turns \ {t} : pc'[u] = pc[u]
    BY <1>1, <2>1, SMT DEF TypeOK
  <2>3. Live' \subseteq {meta.id}
    BY <1>5, <1>7, <1>8, <1>9, SMT
  <2>4. unsaved' \/ InSync'
    <3>1. EmptySlot' = EmptySlot
      BY DEF EmptySlot
    <3> QED
      BY <1>2, <1>5, <2>1, <3>1, Zenon DEF InSync
  <2> QED
    BY <1>2, <1>3, <1>4, <1>5, <1>6, <2>1, <2>2, <2>3, <2>4, ActiveStep, SMT
<1>10. CASE reply[t].session # NoSession
  <2>1. /\ pc' = [pc EXCEPT ![t] = "saving"]
        /\ meta' = TouchPortal(RememberSessionID(meta, reply[t].session))
    BY <1>10, Zenon DEF SendReturns
  <2>2. pc'[t] = "saving" /\ \A u \in Turns \ {t} : pc'[u] = pc[u]
    BY <1>1, <2>1, SMT DEF TypeOK
  <2>3. meta'.id = reply[t].session
    <3>1. reply[t].session \in Sessions /\ meta \in Slots
      BY <1>1, <1>4, <1>10, SMT DEF TypeOK
    <3> QED
      BY <2>1, <3>1, SlotOperations, Zenon
  <2>4. Live' \subseteq {reply[t].session}
    BY <1>4, <1>7, <1>10, SMT
  <2> QED
    BY <1>2, <1>3, <1>4, <1>5, <1>6, <2>2, <2>3, <2>4, ActiveStep, SMT
<1> QED
  BY <1>9, <1>10

LEMMA SaveSessionSerial ==
  ASSUME SerialInv, NEW t \in Turns, SaveSession(t)
  PROVE  (TurnsKnown /\ IdsOpened /\ SlotsKnown /\ AnswersCurrent /\ LiveIsCurrent)'
<1>1. /\ TypeOK /\ TurnsKnown /\ IdsOpened /\ SlotsKnown /\ RetiredIsStale /\ AnswersCurrent
      /\ LiveIsCurrent
  BY DEF SerialInv
<1>2. /\ pc[t] = "saving" /\ SaveMeta /\ pc' = [pc EXCEPT ![t] = "continuing"]
      /\ UNCHANGED <<sid, request, reply, before, outcome, meta, opened, retired>>
  BY Zenon DEF SaveSession, wpVars
<1>3. Active(t)
  BY <1>2, SMT DEF Active
<1>4. pc'[t] = "continuing" /\ \A u \in Turns \ {t} : pc'[u] = pc[u]
  BY <1>1, <1>2, SMT DEF TypeOK
<1>5. /\ outcome[t] = "none" /\ request[t] = "answered"
      /\ before[t] \subseteq opened /\ retired \subseteq opened
      /\ {meta.id, saved.id, sid[t], reply[t].session} \subseteq opened \cup {NoSession}
      /\ sid[t] # NoSession => reply[t].session \in {sid[t], NoSession}
  BY <1>1, <1>2, SMT DEF TurnsKnown, IdsOpened
<1>6. Live' \subseteq {meta.id}
  <2>1. Live' = Live
    BY <1>2, Zenon DEF Live, Lost, Unfinished
  <2>2. \A u \in Turns : pc[u] \notin {"resetting", "sending"}
    BY <1>1, <1>2, <1>3, OthersInactive, SMT
  <2> QED
    BY <1>1, <2>1, <2>2, Zenon DEF LiveIsCurrent
<1>7. /\ unsaved' \/ InSync'
      /\ {meta'.id, saved'.id} \subseteq opened' \cup {NoSession}
  <2>1. (saved' = meta \/ saved' = saved) /\ (unsaved' \/ saved' = meta')
    BY <1>2, Zenon DEF SaveMeta
  <2>2. unsaved' \/ InSync'
    BY <2>1, Zenon DEF InSync
  <2>3. {meta.id, saved.id} \subseteq opened \cup {NoSession}
    BY <1>5, Zenon
  <2> QED
    BY <1>2, <2>1, <2>2, <2>3, Zenon
<1> QED
  BY <1>2, <1>3, <1>4, <1>5, <1>6, <1>7, ActiveStep, SMT

LEMMA SendFailsSerial ==
  ASSUME SerialInv, NEW t \in Turns, SendFails(t)
  PROVE  (TurnsKnown /\ IdsOpened /\ SlotsKnown /\ AnswersCurrent /\ LiveIsCurrent)'
<1>1. /\ TypeOK /\ TurnsKnown /\ IdsOpened /\ SlotsKnown /\ RetiredIsStale /\ AnswersCurrent
      /\ LiveIsCurrent
  BY DEF SerialInv
<1>2. /\ pc[t] = "sending"
      /\ pc' = [pc EXCEPT ![t] = "done"] /\ outcome' = [outcome EXCEPT ![t] = "failed"]
      /\ \/ request[t] # "answered" /\ request' = [request EXCEPT ![t] = "refused"]
         \/ UNCHANGED request
      /\ UNCHANGED <<sid, reply, before, meta, saved, unsaved, opened, retired>>
  BY Zenon DEF SendFails, Done, metaVars, wpVars
<1>3. Active(t)
  BY <1>2, SMT DEF Active
<1>4. /\ pc'[t] = "done" /\ outcome'[t] = "failed"
      /\ request'[t] # "answered" => request[t] # "answered"
      /\ \A u \in Turns \ {t} : /\ pc'[u] = pc[u] /\ outcome'[u] = outcome[u]
                                /\ request'[u] = request[u]
  BY <1>1, <1>2, SMT DEF TypeOK
<1>5. /\ request[t] # "answered" => reply[t] = NoReply
      /\ before[t] \subseteq opened /\ retired \subseteq opened
      /\ {meta.id, saved.id, sid[t], reply[t].session} \subseteq opened \cup {NoSession}
      /\ sid[t] # NoSession => reply[t].session \in {sid[t], NoSession}
      /\ sid[t] = meta.id /\ (unsaved \/ InSync)
  BY <1>1, <1>2, Zenon DEF TurnsKnown, IdsOpened, SlotsKnown
<1>6. Live' \subseteq {meta.id}
  <2>1. Live' \subseteq Live \cup {}
    <3>1. \A u \in Unfinished : u \in Unfinished'
      BY <1>4, SMT DEF Unfinished
    <3> QED
      BY <1>1, <1>2, <3>1, LiveBound, Zenon DEF Unfinished
  <2>2. Live \subseteq {IF sid[t] # NoSession THEN sid[t] ELSE reply[t].session}
    BY <1>1, <1>2, Zenon DEF LiveIsCurrent
  <2>3. reply[t].session \notin Live'
    <3>1. t \in Unfinished'
      BY <1>4, Zenon DEF Unfinished
    <3> QED
      BY <1>2, <3>1, LostNotLive, Zenon
  <2> QED
    BY <1>5, <2>1, <2>2, <2>3, SMT
<1>7. unsaved' \/ InSync'
  <2>1. EmptySlot' = EmptySlot
    BY DEF EmptySlot
  <2> QED
    BY <1>2, <1>5, <2>1, Zenon DEF InSync
<1> QED
  BY <1>2, <1>3, <1>4, <1>5, <1>6, <1>7, ActiveStep, SMT

\* WordPress answers a turn that waits, or one that no longer does.
LEMMA AnswerSerial ==
  ASSUME SerialInv, NEW t \in Turns, WordPressAnswers(t)
  PROVE  (TurnsKnown /\ IdsOpened /\ SlotsKnown /\ AnswersCurrent /\ LiveIsCurrent)'
<1>1. /\ TypeOK /\ TurnsKnown /\ IdsOpened /\ SlotsKnown /\ RetiredIsStale /\ AnswersCurrent
      /\ LiveIsCurrent
  BY DEF SerialInv
<1>2. PICK s \in AnswerSessions(t) :
        /\ reply'[t].session = s /\ opened' = opened \cup ({s} \ {NoSession})
        /\ \A u \in Turns \ {t} : reply'[u] = reply[u]
  <2>1. PICK s \in AnswerSessions(t), completed \in BOOLEAN, text \in BOOLEAN :
          /\ reply' = [reply EXCEPT ![t] = [session |-> s, completed |-> completed, text |-> text]]
          /\ opened' = opened \cup ({s} \ {NoSession})
    BY Zenon DEF WordPressAnswers
  <2> QED
    BY <1>1, <2>1, SMT DEF TypeOK
<1>3. /\ request[t] = "sent" /\ request' = [request EXCEPT ![t] = "answered"]
      /\ UNCHANGED <<pc, sid, before, outcome, meta, saved, unsaved, retired>>
  BY Zenon DEF WordPressAnswers, metaVars
<1>4. request'[t] = "answered" /\ \A u \in Turns \ {t} : request'[u] = request[u]
  BY <1>1, <1>3, SMT DEF TypeOK
<1>5. /\ reply[t].session = NoSession
      /\ before[t] \subseteq opened /\ retired \subseteq opened
      /\ {meta.id, saved.id, sid[t]} \subseteq opened \cup {NoSession}
      /\ NoSession \notin opened
  BY <1>1, <1>3, ChatAssumption, SMT DEF TypeOK, TurnsKnown, IdsOpened, NoReply
<1>6. /\ opened \subseteq opened' /\ s \in opened' \cup {NoSession}
      /\ opened' \subseteq opened \cup {s}
      /\ sid[t] # NoSession => s \in {sid[t], NoSession}
      /\ sid[t] = NoSession => s \notin opened
  BY <1>2, <1>5, SMT DEF AnswerSessions
<1>7. Live' \subseteq Live \cup {s}
  <2>1. \A u \in Unfinished : /\ u \in Unfinished'
                              /\ reply'[u].session = reply[u].session \/ reply[u].session = NoSession
    BY <1>2, <1>3, <1>5, Zenon DEF Unfinished
  <2> QED
    BY <1>1, <1>3, <1>6, <2>1, LiveBound, Zenon
<1>8. NoSession \notin Live'
  BY <1>2, <1>5, SMT DEF Live
<1>9. CASE pc[t] = "sending"
  <2>1. Active(t)
    BY <1>9, SMT DEF Active
  <2>2. /\ outcome[t] = "none" /\ sid[t] = meta.id /\ sid[t] \notin retired
        /\ unsaved \/ InSync
    BY <1>1, <1>9, SMT DEF TurnsKnown, SlotsKnown, AnswersCurrent
  <2>3. s \notin retired
    BY <1>5, <1>6, <2>2, SMT
  <2>4. Live \subseteq {IF sid[t] # NoSession THEN sid[t] ELSE reply[t].session}
    BY <1>1, <1>9, Zenon DEF LiveIsCurrent
  <2>5. Live' \subseteq {IF sid[t] # NoSession THEN sid[t] ELSE s}
    BY <1>5, <1>6, <1>7, <1>8, <2>4, SMT
  <2>6. unsaved' \/ InSync'
    <3>1. EmptySlot' = EmptySlot
      BY DEF EmptySlot
    <3> QED
      BY <1>3, <2>2, <3>1, Zenon DEF InSync
  <2> QED
    BY <1>2, <1>3, <1>4, <1>5, <1>6, <1>9, <2>1, <2>2, <2>3, <2>5, <2>6, ActiveStep, SMT
<1>10. CASE pc[t] # "sending"
  <2>1. t \in Unfinished' /\ pc[t] = "done"
    BY <1>1, <1>3, <1>10, SMT DEF TurnsKnown, Unfinished
  <2>2. Live' \subseteq Live
    <3>1. s \notin Live'
      BY <1>2, <2>1, LostNotLive, Zenon
    <3> QED
      BY <1>7, <3>1
  <2>3. TurnsKnown'
    <3>1. NoReply' = NoReply
      BY DEF NoReply
    <3>2. \A u \in Turns :
            /\ pc[u] \in {"idle", "begun", "resetting"} => request'[u] = "none"
            /\ pc[u] # "done" => outcome[u] = "none"
            /\ pc[u] \in {"saving", "continuing", "concluding"} => request'[u] = "answered"
            /\ request'[u] # "answered" => reply'[u] = NoReply
            /\ request'[u] = "sent" =>
                  pc[u] = "sending" \/ outcome[u] \in {"failed", "crashed"}
      BY <1>1, <1>2, <1>4, <2>1, SMT DEF TurnsKnown
    <3> QED
      BY <1>1, <1>3, <3>1, <3>2, Zenon DEF TurnsKnown, Active
  <2>4. IdsOpened'
    BY <1>1, <1>2, <1>3, <1>5, <1>6, SMT DEF IdsOpened
  <2>5. SlotsKnown'
    <3>1. EmptySlot' = EmptySlot
      BY DEF EmptySlot
    <3>2. \A u \in Turns : pc[u] = "saving" => reply'[u].session = meta.id
      BY <1>1, <1>2, <2>1, SMT DEF SlotsKnown
    <3> QED
      BY <1>1, <1>3, <3>1, <3>2, Zenon DEF SlotsKnown, InSync
  <2>6. AnswersCurrent'
    BY <1>1, <1>2, <1>3, <2>1, SMT DEF AnswersCurrent
  <2>7. LiveIsCurrent'
    <3>1. (\A u \in Turns : pc[u] \notin {"resetting", "sending"}) => Live' \subseteq {meta.id}
      BY <1>1, <2>2, SMT DEF LiveIsCurrent
    <3>2. \A u \in Turns :
            pc[u] = "sending" =>
                Live' \subseteq {IF sid[u] # NoSession THEN sid[u] ELSE reply'[u].session}
      BY <1>1, <1>2, <2>1, <2>2, SMT DEF LiveIsCurrent
    <3>3. ASSUME NEW u \in Turns, pc[u] = "resetting"
          PROVE  /\ Live' \subseteq before[u]
                 /\ unsaved \/ Live' \subseteq {saved.id}
                 /\ \E i \in Sessions \cup {NoSession} : Live' \subseteq {i}
      <4>1. /\ Live \subseteq before[u]
            /\ unsaved \/ Live \subseteq {saved.id}
            /\ \E i \in Sessions \cup {NoSession} : Live \subseteq {i}
        BY <1>1, <3>3, Zenon DEF LiveIsCurrent
      <4> QED
        BY <2>2, <4>1, Zenon
    <3> QED
      BY <1>3, <3>1, <3>2, <3>3, Zenon DEF LiveIsCurrent
  <2> QED
    BY <2>3, <2>4, <2>5, <2>6, <2>7
<1> QED
  BY <1>9, <1>10

LEMMA TimeSerial ==
  ASSUME SerialInv, TimePasses
  PROVE  (TurnsKnown /\ IdsOpened /\ SlotsKnown /\ AnswersCurrent /\ LiveIsCurrent)'
<1>1. /\ TypeOK /\ TurnsKnown /\ IdsOpened /\ SlotsKnown /\ RetiredIsStale /\ AnswersCurrent
      /\ LiveIsCurrent
  BY DEF SerialInv
<1>2. /\ meta' = Aged(meta) /\ saved' = Aged(saved)
      /\ UNCHANGED <<pc, sid, request, reply, before, outcome, unsaved, opened, retired>>
  BY Zenon DEF TimePasses, turnVars, wpVars
<1>3. /\ meta'.id = meta.id /\ saved'.id = saved.id
      /\ meta.at = "stale" => meta'.at = "stale"
      /\ saved.at = "stale" => saved'.at = "stale"
      /\ meta = EmptySlot => meta' = EmptySlot
      /\ saved = meta => saved' = meta'
  BY <1>1, <1>2, SlotAges, SMT DEF TypeOK
<1>4. NoReply' = NoReply /\ EmptySlot' = EmptySlot
  BY DEF NoReply, EmptySlot
<1>5. TurnsKnown'
  BY <1>1, <1>2, <1>4, Zenon DEF TurnsKnown, Active
<1>6. IdsOpened'
  BY <1>1, <1>2, <1>3, SMT DEF IdsOpened
<1>7. SlotsKnown'
  BY <1>1, <1>2, <1>3, <1>4, SMT DEF SlotsKnown, InSync
<1>8. AnswersCurrent'
  BY <1>1, <1>2, Zenon DEF AnswersCurrent
<1>9. LiveIsCurrent'
  <2>1. Live' = Live
    BY <1>2, Zenon DEF Live, Lost, Unfinished
  <2> QED
    BY <1>1, <1>2, <1>3, <2>1, SMT DEF LiveIsCurrent
<1> QED
  BY <1>5, <1>6, <1>7, <1>8, <1>9

LEMMA CrashSerial ==
  ASSUME SerialInv, Crash
  PROVE  (TurnsKnown /\ IdsOpened /\ SlotsKnown /\ AnswersCurrent /\ LiveIsCurrent)'
<1>1. /\ TypeOK /\ TurnsKnown /\ IdsOpened /\ SlotsKnown /\ RetiredIsStale /\ AnswersCurrent
      /\ LiveIsCurrent
  BY DEF SerialInv
<1>2. /\ \A u \in Turns :
            \/ pc[u] \in {"idle", "done"} /\ pc'[u] = pc[u] /\ outcome'[u] = outcome[u]
            \/ pc[u] \notin {"idle", "done"} /\ pc'[u] = "done" /\ outcome'[u] = "crashed"
      /\ meta' = saved /\ UNCHANGED <<sid, request, reply, before, saved, opened>>
      /\ retired' = IF unsaved THEN opened \ {saved.id} ELSE retired
  BY SMT DEF Crash, Active
<1>3. \A u \in Turns : pc'[u] \in {"idle", "done"}
  BY <1>2, SMT DEF Active
<1>4. TurnsKnown'
  <2>1. NoReply' = NoReply
    BY DEF NoReply
  <2>2. \A u, v \in Turns : Active(u)' /\ Active(v)' => u = v
    BY <1>3, SMT DEF Active
  <2>3. \A u \in Turns :
          /\ pc'[u] \in {"idle", "begun", "resetting"} => request[u] = "none"
          /\ pc'[u] # "done" => outcome'[u] = "none"
          /\ pc'[u] \in {"saving", "continuing", "concluding"} => request[u] = "answered"
          /\ request[u] # "answered" => reply[u] = NoReply
          /\ request[u] = "sent" =>
                pc'[u] = "sending" \/ outcome'[u] \in {"failed", "crashed"}
    BY <1>1, <1>2, <1>3, SMT DEF TurnsKnown, Active
  <2> QED
    BY <1>2, <2>1, <2>2, <2>3, Zenon DEF TurnsKnown
<1>5. IdsOpened'
  BY <1>1, <1>2, SMT DEF IdsOpened
<1>6. SlotsKnown'
  <2>1. \A u \in Turns : pc'[u] \notin {"resetting", "sending", "saving"}
    BY <1>3, SMT
  <2> QED
    BY <1>2, <2>1, SMT DEF SlotsKnown, InSync
<1>7. AnswersCurrent'
  <2>1. \A u \in Turns : pc'[u] # "sending"
    BY <1>3, SMT
  <2> QED
    BY <2>1, Zenon DEF AnswersCurrent
<1>8. CASE unsaved
  <2>1. Live' \subseteq {saved.id}
    BY <1>2, <1>8, SMT DEF Live
  <2>2. LiveIsCurrent'
    BY <1>2, <1>3, <2>1, SMT DEF LiveIsCurrent
  <2> QED
    BY <1>4, <1>5, <1>6, <1>7, <2>2
<1>9. CASE ~unsaved
  <2>1. retired' = retired
    BY <1>2, <1>9, Zenon
  <2>2. Live' \subseteq Live /\ NoSession \notin Live
    <3>1. \A u \in Unfinished : u \in Unfinished'
      BY <1>2, SMT DEF Unfinished
    <3>2. Live' \subseteq Live \cup {}
      BY <1>1, <1>2, <2>1, <3>1, LiveBound, Zenon
    <3> QED
      BY <1>1, <3>2, ChatAssumption, SMT DEF TypeOK, Live
  <2>3. ASSUME \A u \in Turns : pc[u] \notin {"resetting", "sending", "saving"}
        PROVE  Live' \subseteq {saved.id}
    <3>1. saved = meta \/ meta = EmptySlot
      BY <1>1, <1>9, <2>3, Zenon DEF SlotsKnown, InSync
    <3>2. Live \subseteq {meta.id}
      BY <1>1, <2>3, Zenon DEF LiveIsCurrent
    <3> QED
      BY <2>2, <3>1, <3>2, EmptyFacts, SMT
  <2>4. ASSUME NEW t \in Turns, pc[t] = "resetting"
        PROVE  Live' \subseteq {saved.id}
    BY <1>1, <1>9, <2>2, <2>4, Zenon DEF LiveIsCurrent
  <2>5. ASSUME NEW t \in Turns, pc[t] \in {"sending", "saving"}
        PROVE  Live' \subseteq {saved.id}
    <3>1. reply[t].session \notin Live'
      <4>1. t \in Unfinished'
        BY <1>2, <2>5, SMT DEF Unfinished, Active
      <4> QED
        BY <1>2, <4>1, LostNotLive, Zenon
    <3>2. CASE pc[t] = "sending"
      <4>1. Live \subseteq {IF sid[t] # NoSession THEN sid[t] ELSE reply[t].session}
        BY <1>1, <3>2, Zenon DEF LiveIsCurrent
      <4>2. sid[t] = meta.id /\ (saved = meta \/ meta = EmptySlot)
        BY <1>1, <1>9, <3>2, Zenon DEF SlotsKnown, InSync
      <4> QED
        BY <2>2, <3>1, <4>1, <4>2, EmptyFacts, SMT
    <3>3. CASE pc[t] = "saving"
      <4>1. reply[t].session = meta.id
        BY <1>1, <3>3, Zenon DEF SlotsKnown
      <4>2. \A u \in Turns : pc[u] \notin {"resetting", "sending"}
        <5>1. Active(t)
          BY <3>3, SMT DEF Active
        <5> QED
          BY <1>1, <3>3, <5>1, OthersInactive, SMT
      <4> QED
        BY <1>1, <2>2, <3>1, <4>1, <4>2, SMT DEF LiveIsCurrent
    <3> QED
      BY <2>5, <3>2, <3>3
  <2>6. Live' \subseteq {saved.id}
    BY <2>3, <2>4, <2>5, Zenon
  <2>7. LiveIsCurrent'
    BY <1>2, <1>3, <2>6, SMT DEF LiveIsCurrent
  <2> QED
    BY <1>4, <1>5, <1>6, <1>7, <2>7
<1> QED
  BY <1>8, <1>9

LEMMA SerialInit == Init => SerialInv
<1> SUFFICES ASSUME Init PROVE SerialInv
  OBVIOUS
<1>1. TypeOK
  BY TypeInit
<1>2. Live = {}
  BY Zenon DEF Init, Live
<1>3. TurnsKnown
  BY SMT DEF Init, TurnsKnown, Active
<1>4. IdsOpened
  BY EmptyFacts, SMT DEF Init, IdsOpened, NoReply
<1>5. SlotsKnown
  BY SMT DEF Init, SlotsKnown, InSync
<1>6. RetiredIsStale /\ AnswersCurrent
  BY StaleInit, SMT DEF Init, AnswersCurrent
<1>7. LiveIsCurrent
  BY <1>2, SMT DEF Init, LiveIsCurrent
<1> QED
  BY <1>1, <1>3, <1>4, <1>5, <1>6, <1>7 DEF SerialInv

LEMMA SerialStep ==
  ASSUME ~Overlap
  PROVE  SerialInv /\ [Next]_vars => SerialInv'
<1> SUFFICES ASSUME SerialInv, [Next]_vars PROVE SerialInv'
  OBVIOUS
<1>1. TypeOK' /\ RetiredIsStale'
  BY TypeStep, StaleStep DEF SerialInv
<1>2. ASSUME NEW t \in Turns, Begin(t) \/ Handler(t) \/ WordPressAnswers(t)
      PROVE  (TurnsKnown /\ IdsOpened /\ SlotsKnown /\ AnswersCurrent /\ LiveIsCurrent)'
  BY <1>2, BeginSerial, ResetSerial, ConfirmResetSerial, SendMessageSerial, SendReturnsSerial,
     SendFailsSerial, SaveSessionSerial, ContinueSerial, AnswerSerial, Zenon DEF Handler
<1>3. ASSUME TimePasses \/ LogoutRemote \/ ConnectRenames \/ TypingExpires \/ Crash \/ UNCHANGED vars
      PROVE  (TurnsKnown /\ IdsOpened /\ SlotsKnown /\ AnswersCurrent /\ LiveIsCurrent)'
  BY <1>3, TimeSerial, CrashSerial, OutsideSerial, Zenon
<1> QED
  BY <1>1, <1>2, <1>3, Zenon DEF Next, SerialInv

\* With turns one after the other, whatever is lost, late, not saved, logged out
\* or crashed: where the ids of the room's sessions are while
\* a turn goes through the handler (client.go:388-466).
THEOREM SerialInvariant ==
  ASSUME ~Overlap
  PROVE  Spec => []SerialInv
<1> QED
  BY SerialInit, SerialStep, PTL DEF Spec

\* The room has one active session (README.md:68-72): WordPress keeps no other
\* that was not given up or left by a turn the user saw fail.
THEOREM OneSession ==
  ASSUME ~Overlap
  PROVE  Spec => []OneActiveSession
<1>1. SerialInv => OneActiveSession
  <2> SUFFICES ASSUME SerialInv PROVE OneActiveSession
    OBVIOUS
  <2>1. PICK s : Live \subseteq {s}
    <3>1. CASE \A t \in Turns : pc[t] \notin {"resetting", "sending"}
      BY <3>1, Zenon DEF SerialInv, LiveIsCurrent
    <3>2. ASSUME NEW t \in Turns, pc[t] = "resetting"
          PROVE  \E s \in Sessions \cup {NoSession} : Live \subseteq {s}
      BY <3>2, Zenon DEF SerialInv, LiveIsCurrent
    <3>3. ASSUME NEW t \in Turns, pc[t] = "sending"
          PROVE  Live \subseteq {IF sid[t] # NoSession THEN sid[t] ELSE reply[t].session}
      BY <3>3, Zenon DEF SerialInv, LiveIsCurrent
    <3> QED
      BY <3>1, <3>2, <3>3, SMT
  <2>2. IsFiniteSet({s}) /\ Cardinality({s}) = 1
    BY FS_Singleton
  <2>3. IsFiniteSet(Live) /\ Cardinality(Live) \in Nat /\ Cardinality(Live) <= Cardinality({s})
    BY <2>1, <2>2, FS_Subset, FS_CardinalityType
  <2> QED
    BY <2>2, <2>3, SMT DEF OneActiveSession
<1> QED
  BY <1>1, SerialInit, SerialStep, PTL DEF Spec

\* Of the sessions given up none is taken up again but by a restart that finds
\* what the last save could not replace (client.go:392, client.go:442).
THEOREM StaysGivenUp ==
  ASSUME ~Overlap
  PROVE  Spec => GivenUpStays
<1> DEFINE A == \/ retired \subseteq retired'
                \/ unsaved /\ crashes' # crashes /\ retired \ {saved.id} \subseteq retired'
<1>1. SerialInv /\ [Next]_vars => [A]_vars
  <2> SUFFICES ASSUME SerialInv, Next PROVE A
    BY DEF A
  <2>1. ASSUME NEW t \in Turns, SendReturns(t)
        PROVE  retired \subseteq retired'
    <3>1. reply[t].session \notin retired
      BY <2>1, Zenon DEF SerialInv, AnswersCurrent, SendReturns
    <3>2. retired' = retired \/ retired' = retired \ {reply[t].session}
      BY <2>1, Zenon DEF SendReturns
    <3> QED
      BY <3>1, <3>2, Zenon
  <2>2. ASSUME NEW t \in Turns,
               Begin(t) \/ (Handler(t) /\ ~SendReturns(t)) \/ WordPressAnswers(t)
        PROVE  retired \subseteq retired'
    BY <2>2, Zenon DEF Begin, Handler, Reset, ConfirmReset, SendMessage, SendFails, SaveSession,
       ContinueChat, ContinueFails, Conclude, WordPressAnswers, wpVars
  <2>3. CASE TimePasses \/ LogoutRemote \/ ConnectRenames \/ TypingExpires
    BY <2>3, Zenon DEF TimePasses, LogoutRemote, ConnectRenames, TypingExpires, wpVars
  <2>4. CASE Crash
    <3>1. CASE ~unsaved
      BY <2>4, <3>1, Zenon DEF Crash
    <3>2. CASE unsaved
      <4>1. retired \subseteq opened
        BY Zenon DEF SerialInv, IdsOpened
      <4>2. crashes' # crashes
        BY <2>4, SMT DEF Crash, SerialInv, TypeOK
      <4>3. retired' = opened \ {saved.id}
        BY <2>4, <3>2, Zenon DEF Crash
      <4> QED
        BY <3>2, <4>1, <4>2, <4>3, Zenon
    <3> QED
      BY <3>1, <3>2
  <2> QED
    BY <2>1, <2>2, <2>3, <2>4, Zenon DEF Next
<1> HIDE DEF A
<1>2. Spec => [][A]_vars
  BY <1>1, SerialInit, SerialStep, PTL DEF Spec
<1> QED
  BY <1>2 DEF A, GivenUpStays

\* Where saving cannot fail memory and database never differ for that reason:
\* SavedCurrent and StaysGivenUp then need no exception for it (client.go:442).
THEOREM SavesSucceed ==
  ASSUME ~SaveFails
  PROVE  Spec => [](unsaved = FALSE)
<1> DEFINE S == unsaved = FALSE
<1>1. Init => S
  BY DEF Init
<1>2. S /\ [Next]_vars => S'
  <2> SUFFICES ASSUME unsaved = FALSE, [Next]_vars PROVE unsaved' = FALSE
    OBVIOUS
  <2>1. ASSUME NEW t \in Turns, Begin(t) \/ Handler(t) \/ WordPressAnswers(t)
        PROVE  unsaved' = FALSE
    BY <2>1, Zenon DEF Begin, Handler, Reset, ConfirmReset, SendMessage, SendReturns, SendFails,
       SaveSession, ContinueChat, ContinueFails, Conclude, WordPressAnswers, SaveMeta, metaVars
  <2>2. CASE TimePasses \/ LogoutRemote \/ ConnectRenames \/ TypingExpires \/ Crash \/ UNCHANGED vars
    BY <2>2, Zenon DEF TimePasses, LogoutRemote, ConnectRenames, TypingExpires, Crash, vars,
         metaVars
  <2> QED
    BY <2>1, <2>2, Zenon DEF Next
<1> HIDE DEF S
<1>3. Spec => []S
  BY <1>1, <1>2, PTL DEF Spec
<1> QED
  BY <1>3 DEF S

-----------------------------------------------------------------------------
\* ConnectorChat implements SessionMemory, whatever overlaps or fails.

\* The ids in the slot, in the database and in turns are of the room.
KnownIds ==
    /\ {meta.id, saved.id} \subseteq opened \cup {NoSession}
    /\ \A t \in Turns : {sid[t], reply[t].session} \subseteq opened \cup {NoSession}

\* What a step may do with the ids, and what that is in SessionMemory.
LEMMA MemoryStep ==
  ASSUME TypeOK,
         \/ UNCHANGED <<opened, meta.id, saved.id>>
         \/ \E s \in Sessions \ opened :
               opened' = opened \cup {s} /\ UNCHANGED <<meta.id, saved.id>>
         \/ meta'.id \in opened \cup {NoSession} /\ UNCHANGED <<opened, saved.id>>
         \/ saved'.id = meta.id /\ UNCHANGED <<opened, meta.id>>
         \/ meta'.id = saved.id /\ UNCHANGED <<opened, saved.id>>
  PROVE  [Memory!MemoryNext]_(Memory!memoryVars)
<1> DEFINE Fun(x) == [l \in {"portal"} |-> x]
<1>1. \A x, y : [Fun(x) EXCEPT !["portal"] = y] = Fun(y) /\ Fun(x)["portal"] = x
  BY SMT
<1>2. CASE UNCHANGED <<opened, meta.id, saved.id>>
  BY <1>2, Zenon DEF Memory!memoryVars
<1>3. ASSUME NEW s \in Sessions \ opened, opened' = opened \cup {s},
             UNCHANGED <<meta.id, saved.id>>
      PROVE  [Memory!MemoryNext]_(Memory!memoryVars)
  <2>1. Memory!OpenSession("portal", s)
    BY <1>1, <1>3, SMT DEF Memory!OpenSession
  <2> QED
    BY <2>1, SMT DEF Memory!MemoryNext
<1>4. CASE meta'.id \in opened \cup {NoSession} /\ UNCHANGED <<opened, saved.id>>
  <2>1. CASE meta'.id = NoSession
    <3>1. Memory!ForgetSession("portal")
      BY <1>1, <1>4, <2>1, SMT DEF Memory!ForgetSession
    <3> QED
      BY <3>1, SMT DEF Memory!MemoryNext
  <2>2. CASE meta'.id \in opened
    <3>1. meta'.id \in Sessions
      BY <2>2 DEF TypeOK
    <3>2. Memory!RememberSession("portal", meta'.id)
      BY <1>1, <1>4, <2>2, SMT DEF Memory!RememberSession
    <3> QED
      BY <3>1, <3>2, SMT DEF Memory!MemoryNext
  <2> QED
    BY <1>4, <2>1, <2>2
<1>5. CASE saved'.id = meta.id /\ UNCHANGED <<opened, meta.id>>
  <2>1. Memory!SaveSession("portal")
    BY <1>1, <1>5, SMT DEF Memory!SaveSession
  <2> QED
    BY <2>1, SMT DEF Memory!MemoryNext
<1>6. CASE meta'.id = saved.id /\ UNCHANGED <<opened, saved.id>>
  <2>1. Memory!ReloadSessions
    BY <1>6, Zenon DEF Memory!ReloadSessions
  <2> QED
    BY <2>1, Zenon DEF Memory!MemoryNext
<1> QED
  BY <1>2, <1>3, <1>4, <1>5, <1>6

\* Steps of a handler or of WordPress that touch no id.
LEMMA QuietIds ==
  ASSUME KnownIds, NEW t \in Turns,
         Begin(t) \/ SendFails(t) \/ ContinueFails(t) \/ Conclude(t)
  PROVE  KnownIds' /\ UNCHANGED <<opened, meta.id, saved.id>>
<1>1. UNCHANGED <<opened, meta, saved, sid, reply>>
  BY Zenon DEF Begin, SendFails, ContinueFails, Conclude, metaVars, wpVars
<1> QED
  BY <1>1, Zenon DEF KnownIds

\* The session of an answer stays while it is continued.
LEMMA ContinueIds ==
  ASSUME TypeOK, KnownIds, NEW t \in Turns, ContinueChat(t)
  PROVE  KnownIds' /\ UNCHANGED <<opened, meta.id, saved.id>>
<1>1. UNCHANGED <<opened, meta, saved, sid>>
  BY Zenon DEF ContinueChat, metaVars, wpVars
<1>2. PICK completed \in BOOLEAN, text \in BOOLEAN :
        reply' = [reply EXCEPT ![t] = Continued(reply[t], completed, text)]
  BY Zenon DEF ContinueChat
<1>3. Continued(reply[t], completed, text).session = reply[t].session
  BY SMT DEF Continued
<1>4. \A u \in Turns : reply'[u].session = reply[u].session
  <2> DEFINE new == Continued(reply[t], completed, text)
  <2> HIDE DEF new
  <2> QED
    BY <1>2, <1>3, SMT DEF TypeOK, new
<1> QED
  BY <1>1, <1>4, Zenon DEF KnownIds

\* Clearing, rotating and saving bring no id that was not there.
LEMMA SlotIds ==
  ASSUME TypeOK, KnownIds, NEW t \in Turns,
         Reset(t) \/ ConfirmReset(t) \/ SaveSession(t)
  PROVE  /\ KnownIds'
         /\ \/ UNCHANGED <<opened, meta.id, saved.id>>
            \/ meta'.id \in opened \cup {NoSession} /\ UNCHANGED <<opened, saved.id>>
            \/ saved'.id = meta.id /\ UNCHANGED <<opened, meta.id>>
<1>1. UNCHANGED <<opened, sid, reply>>
  BY Zenon DEF Reset, ConfirmReset, SaveSession, wpVars
<1>2. CASE Reset(t)
  <2>1. meta' = EmptySlot /\ UNCHANGED saved
    BY <1>2, Zenon DEF Reset, ClearSession
  <2>2. meta'.id = NoSession
    BY <2>1, EmptyFacts
  <2> QED
    BY <1>1, <2>1, <2>2, SMT DEF KnownIds
<1>3. CASE ConfirmReset(t) \/ SaveSession(t)
  <2>1. UNCHANGED meta /\ (saved' = meta \/ UNCHANGED saved)
    BY <1>3, Zenon DEF ConfirmReset, SaveSession, SaveMeta
  <2> QED
    BY <1>1, <2>1, SMT DEF KnownIds
<1> QED
  BY <1>2, <1>3

\* A message is sent with the id in the slot, or without one.
LEMMA SendMessageIds ==
  ASSUME TypeOK, KnownIds, NEW t \in Turns, SendMessage(t)
  PROVE  KnownIds' /\ meta'.id \in opened \cup {NoSession} /\ UNCHANGED <<opened, saved.id>>
<1>1. /\ meta' = EmptySlot \/ meta' = meta
      /\ sid' = [sid EXCEPT ![t] = meta'.id]
      /\ UNCHANGED <<reply, saved, opened>>
  BY Zenon DEF SendMessage, ClearSession
<1>2. meta'.id \in opened \cup {NoSession}
  BY <1>1, EmptyFacts, SMT DEF KnownIds
<1>3. \A u \in Turns : sid'[u] \in {sid[u], meta'.id}
  BY <1>1, SMT DEF TypeOK
<1> QED
  BY <1>1, <1>2, <1>3, SMT DEF KnownIds

\* The answer names the session of the request or one created for it.
LEMMA AnswerIds ==
  ASSUME TypeOK, KnownIds, NEW t \in Turns, WordPressAnswers(t)
  PROVE  /\ KnownIds' /\ UNCHANGED <<meta.id, saved.id>>
         /\ \/ UNCHANGED opened
            \/ \E s \in Sessions \ opened : opened' = opened \cup {s}
<1>1. PICK s \in AnswerSessions(t), completed \in BOOLEAN, text \in BOOLEAN :
         /\ reply' = [reply EXCEPT ![t] = [session |-> s, completed |-> completed, text |-> text]]
         /\ opened' = opened \cup ({s} \ {NoSession})
  BY Zenon DEF WordPressAnswers
<1>2. UNCHANGED <<sid, meta, saved>>
  BY Zenon DEF WordPressAnswers, metaVars
<1>3. \/ s \in opened \cup {NoSession} /\ opened' = opened
      \/ s \in Sessions \ opened /\ opened' = opened \cup {s}
  <2>1. s = NoSession \/ s = sid[t] \/ s \in Sessions \ opened
    BY SMT DEF AnswerSessions
  <2>2. sid[t] \in opened \cup {NoSession} /\ NoSession \notin Sessions
    BY ChatAssumption DEF KnownIds
  <2> QED
    BY <1>1, <2>1, <2>2, SMT
<1>4. \A u \in Turns : reply'[u].session \in {reply[u].session, s}
  BY <1>1, SMT DEF TypeOK
<1>5. opened \subseteq opened' /\ s \in opened' \cup {NoSession}
  BY <1>3, SMT
<1> QED
  BY <1>2, <1>3, <1>4, <1>5, SMT DEF KnownIds

\* The slot takes the session of the answer.
LEMMA SendReturnsIds ==
  ASSUME TypeOK, KnownIds, NEW t \in Turns, SendReturns(t)
  PROVE  KnownIds' /\ meta'.id \in opened \cup {NoSession} /\ UNCHANGED <<opened, saved.id>>
<1>1. UNCHANGED <<opened, saved, sid, reply>>
  BY Zenon DEF SendReturns, wpVars
<1>2. meta'.id \in {meta.id, reply[t].session}
  <2>1. CASE reply[t].session = NoSession
    <3>1. UNCHANGED meta
      BY <2>1, Zenon DEF SendReturns
    <3> QED
      BY <3>1
  <2>2. CASE reply[t].session # NoSession
    <3>1. meta' = TouchPortal(RememberSessionID(meta, reply[t].session))
      BY <2>2, Zenon DEF SendReturns
    <3>2. meta \in Slots /\ reply[t].session \in Sessions
      BY <2>2, SMT DEF TypeOK
    <3>3. TouchPortal(RememberSessionID(meta, reply[t].session)).id = reply[t].session
      BY <3>2, SlotOperations
    <3> QED
      BY <3>1, <3>3, Zenon
  <2> QED
    BY <2>1, <2>2
<1> QED
  BY <1>1, <1>2, SMT DEF KnownIds

\* Time leaves the ids alone; a crash brings back what was saved.
LEMMA OthersIds ==
  ASSUME TypeOK, KnownIds,
         TimePasses \/ LogoutRemote \/ ConnectRenames \/ TypingExpires \/ Crash \/ UNCHANGED vars
  PROVE  /\ KnownIds' /\ UNCHANGED <<opened, saved.id>>
         /\ UNCHANGED meta.id \/ meta'.id = saved.id
<1>1. UNCHANGED <<opened, sid, reply>>
  BY Zenon DEF TimePasses, LogoutRemote, ConnectRenames, TypingExpires, Crash, vars, turnVars,
       wpVars
<1>2. UNCHANGED saved.id /\ (UNCHANGED meta.id \/ meta'.id = saved.id)
  <2>1. CASE TimePasses
    <3>1. meta' = Aged(meta) /\ saved' = Aged(saved)
      BY <2>1, Zenon DEF TimePasses
    <3> QED
      BY <3>1, SlotAges DEF TypeOK
  <2>2. CASE Crash
    BY <2>2, Zenon DEF Crash
  <2>3. CASE LogoutRemote \/ ConnectRenames \/ TypingExpires \/ UNCHANGED vars
    <3>1. UNCHANGED <<meta, saved>>
      BY <2>3, Zenon DEF LogoutRemote, ConnectRenames, TypingExpires, vars, metaVars
    <3> QED
      BY <3>1
  <2> QED
    BY <2>1, <2>2, <2>3
<1> QED
  BY <1>1, <1>2, SMT DEF KnownIds

\* Delivery's session steps are all that the handlers of Matrix messages do
\* with session ids, however they overlap, time out, fail to save or crash
\* (client.go:365-466).
THEOREM RefinesMemory == Spec => ImplementsMemory
<1>1. Init => KnownIds /\ Memory!MemoryInit
  <2> SUFFICES ASSUME Init PROVE KnownIds /\ Memory!MemoryInit
    OBVIOUS
  <2>1. meta.id = NoSession /\ saved.id = NoSession /\ opened = {}
    BY EmptyFacts DEF Init
  <2>2. KnownIds
    BY <2>1, SMT DEF Init, KnownIds, NoReply
  <2>3. Memory!MemoryInit
    BY <2>1, Zenon DEF Memory!MemoryInit
  <2> QED
    BY <2>2, <2>3
<1>2. TypeOK /\ KnownIds /\ [Next]_vars => KnownIds' /\ [Memory!MemoryNext]_(Memory!memoryVars)
  <2> SUFFICES ASSUME TypeOK, KnownIds, [Next]_vars
               PROVE  KnownIds' /\ [Memory!MemoryNext]_(Memory!memoryVars)
    OBVIOUS
  <2>1. ASSUME NEW t \in Turns, Begin(t) \/ Handler(t) \/ WordPressAnswers(t)
        PROVE  KnownIds' /\ [Memory!MemoryNext]_(Memory!memoryVars)
    <3>1. CASE \/ Begin(t) \/ SendFails(t) \/ ContinueFails(t) \/ Conclude(t) \/ ContinueChat(t)
      BY <3>1, QuietIds, ContinueIds, MemoryStep
    <3>2. CASE Reset(t) \/ ConfirmReset(t) \/ SaveSession(t)
      BY <3>2, SlotIds, MemoryStep
    <3>3. CASE SendMessage(t) \/ SendReturns(t)
      BY <3>3, SendMessageIds, SendReturnsIds, MemoryStep
    <3>4. CASE WordPressAnswers(t)
      BY <3>4, AnswerIds, MemoryStep
    <3> QED
      BY <2>1, <3>1, <3>2, <3>3, <3>4, Zenon DEF Handler
  <2>2. CASE TimePasses \/ LogoutRemote \/ ConnectRenames \/ TypingExpires \/ Crash \/ UNCHANGED vars
    BY <2>2, OthersIds, MemoryStep
  <2> QED
    BY <2>1, <2>2, Zenon DEF Next
<1> QED
  BY <1>1, <1>2, TypeCorrect, PTL DEF Spec, ImplementsMemory, Memory!MemorySpec
=============================================================================
