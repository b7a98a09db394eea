------------------------------- MODULE BotRoom -------------------------------
(***************************************************************************)
(* BotChat composed with the bridge context of its messages                *)
(* (pkg/bot/handlers.go, deriveBridgeContext): before a message is sent    *)
(* its handler asks who is in the room, once per room, and WordPress is    *)
(* told "dm" or "group".  Members come and go meanwhile, the request may   *)
(* fail, and overlapping handlers may both ask.  The session id is read    *)
(* before the request, so every other handler may run in between.          *)
(***************************************************************************)
EXTENDS BotChat

CONSTANT MaxMembers    \* joined members of a room, the bot included

ASSUME RoomAssumption == MaxMembers \in Nat \ {0, 1}

VARIABLES
    members,        \* joined members of each room
    roomKindCache,  \* Bot.roomKindCache: survives everything but a restart
    bridgeCtx,      \* room kind of each turn: not derived, asking, or derived
    answer,         \* kind an answered JoinedMembers request led to
    peak,           \* most members a room has had (history)
    raced           \* rooms two handlers asked about at once (history)

roomVars == <<members, roomKindCache, bridgeCtx, answer, peak, raced>>

RoomInit ==
    /\ Init
    /\ members \in [Rooms -> 1 .. 2]
    /\ roomKindCache = [r \in Rooms |-> "none"]
    /\ bridgeCtx = [t \in Turns |-> "none"]
    /\ answer = [t \in Turns |-> "none"]
    /\ peak = members
    /\ raced = {}

Kinds == {"dm", "group"}

\* A handler sends its message only once the context is derived.
Derived(t) == pc[t] = "deriving" => bridgeCtx[t] \in Kinds

MustDerive(t) == pc[t] = "deriving" /\ bridgeCtx[t] = "none"

-----------------------------------------------------------------------------
RoomKindCached(t) ==
    /\ MustDerive(t)
    /\ roomKindCache[Room[t]] # "none"
    /\ bridgeCtx' = [bridgeCtx EXCEPT ![t] = roomKindCache[Room[t]]]
    /\ UNCHANGED <<vars, members, roomKindCache, answer, peak, raced>>

\* Mutant of KindOf: two members make a group.
KindOfTwo(n) == IF n > 1 THEN "group" ELSE "dm"

KindOf(n) == IF n > 2 THEN "group" ELSE "dm"

\* JoinedMembers answers as of now, or fails.
JoinedMembers(t) ==
    /\ MustDerive(t)
    /\ roomKindCache[Room[t]] = "none"
    /\ bridgeCtx' = [bridgeCtx EXCEPT ![t] = "asking"]
    /\ answer' = [answer EXCEPT ![t] = KindOf(members[Room[t]])]
              \/ answer' = [answer EXCEPT ![t] = "dm"]
    /\ raced' = IF \E u \in Turns : Room[u] = Room[t] /\ bridgeCtx[u] = "asking"
                THEN raced \cup {Room[t]} ELSE raced
    /\ UNCHANGED <<vars, members, roomKindCache, peak>>

\* Mutant of StoreRoomKind: a fallback is not remembered.
StoreRoomKindOfGroup(t) ==
    /\ bridgeCtx[t] = "asking"
    /\ bridgeCtx' = [bridgeCtx EXCEPT ![t] = answer[t]]
    /\ roomKindCache' = IF answer[t] = "group"
                        THEN [roomKindCache EXCEPT ![Room[t]] = answer[t]] ELSE roomKindCache
    /\ UNCHANGED <<vars, members, answer, peak, raced>>

\* The later of two stores stays.
StoreRoomKind(t) ==
    /\ bridgeCtx[t] = "asking"
    /\ bridgeCtx' = [bridgeCtx EXCEPT ![t] = answer[t]]
    /\ roomKindCache' = [roomKindCache EXCEPT ![Room[t]] = answer[t]]
    /\ UNCHANGED <<vars, members, answer, peak, raced>>

\* Somebody joins or leaves; the bot stays.
MembershipChanges(r) ==
    /\ \E n \in {members[r] - 1, members[r] + 1} \cap 1 .. MaxMembers :
          /\ members' = [members EXCEPT ![r] = n]
          /\ peak' = [peak EXCEPT ![r] = IF n > @ THEN n ELSE @]
    /\ UNCHANGED <<vars, roomKindCache, bridgeCtx, answer, raced>>

RoomCrash ==
    /\ Crash
    /\ roomKindCache' = [r \in Rooms |-> "none"]
    /\ bridgeCtx' = [t \in Turns |-> IF bridgeCtx[t] = "asking" THEN "none" ELSE bridgeCtx[t]]
    /\ UNCHANGED <<members, answer, peak, raced>>

RoomHandler(t) ==
    \/ Derived(t) /\ Handler(t) /\ UNCHANGED roomVars
    \/ RoomKindCached(t) \/ JoinedMembers(t) \/ StoreRoomKind(t)

RoomNext ==
    \/ \E t \in Turns : (Begin(t) /\ UNCHANGED roomVars) \/ RoomHandler(t)
    \/ (Authorize \/ TimePasses \/ TypingExpires) /\ UNCHANGED roomVars
    \/ \E r \in Rooms : MembershipChanges(r)
    \/ RoomCrash

RoomSpec == RoomInit /\ [][RoomNext]_<<vars, roomVars>>

\* Every call of a handler returns within its timeout.
RoomFairSpec == RoomSpec /\ \A t \in Turns : WF_<<vars, roomVars>>(RoomHandler(t))

-----------------------------------------------------------------------------
RoomTypeOK ==
    /\ members \in [Rooms -> 1 .. MaxMembers]
    /\ roomKindCache \in [Rooms -> Kinds \cup {"none"}]
    /\ bridgeCtx \in [Turns -> Kinds \cup {"none", "asking"}]
    /\ answer \in [Turns -> Kinds \cup {"none"}]
    /\ peak \in [Rooms -> Nat]
    /\ raced \subseteq Rooms

\* Whatever membership changes and handlers overlap, a room is called a group
\* only if it has been one (handlers.go:455-462).
GroupWasGroup ==
    \A t \in Turns : bridgeCtx[t] = "group" => peak[Room[t]] > 2

\* Until a restart WordPress hears one kind per room: the cache gives two only
\* if two handlers asked at the same time (handlers.go:450-464).
OneKindPerRoom ==
    \A t, u \in Turns :
        Room[t] = Room[u] /\ {bridgeCtx[t], bridgeCtx[u]} = Kinds =>
            Room[t] \in raced \/ crashes > 0

\* Where no two handlers asked at once, everything derived is what the cache
\* says, and whoever asks will be the first to know.
CacheDecides ==
    \A r \in Rooms : r \notin raced /\ crashes = 0 =>
        \A t \in Turns : Room[t] = r =>
            /\ bridgeCtx[t] \in Kinds => roomKindCache[r] = bridgeCtx[t]
            /\ bridgeCtx[t] = "asking" =>
                  /\ roomKindCache[r] = "none"
                  /\ \A u \in Turns : Room[u] = r /\ bridgeCtx[u] = "asking" => u = t

\* Whatever says "group" comes from a room that was one.
GroupsKnown ==
    /\ \A r \in Rooms : /\ peak[r] >= members[r]
                        /\ roomKindCache[r] = "group" => peak[r] > 2
    /\ \A t \in Turns : /\ answer[t] = "group" => peak[Room[t]] > 2
                        /\ bridgeCtx[t] = "asking" => answer[t] \in Kinds

\* The inductive invariant behind GroupWasGroup and OneKindPerRoom.
RoomInv == RoomTypeOK /\ GroupsKnown /\ GroupWasGroup /\ CacheDecides
=============================================================================
