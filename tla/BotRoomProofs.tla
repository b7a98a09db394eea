--------------------------- MODULE BotRoomProofs ---------------------------
(***************************************************************************)
(* Proofs about the bridge context of bot mode, for any users, rooms,      *)
(* turns and numbers of members: BotRoom implements BotChat, so what is    *)
(* proved of BotChat holds with it, and a room is reported as one kind,    *)
(* and as a group only if it has been one.                                 *)
(***************************************************************************)
EXTENDS BotRoom, TLAPS

USE RoomAssumption

\* The steps that leave what BotRoom adds alone.
LEMMA QuietRoomInv ==
  ASSUME RoomInv, UNCHANGED roomVars, UNCHANGED crashes
  PROVE  RoomInv'
  BY SMTT(30) DEF RoomInv, RoomTypeOK, GroupsKnown, GroupWasGroup, CacheDecides, roomVars, Rooms

LEMMA RoomOfTurn == \A t \in Turns : Room[t] \in Rooms
  BY DEF Rooms

LEMMA RoomKindCachedInv ==
  ASSUME RoomInv, NEW t \in Turns, RoomKindCached(t)
  PROVE  RoomInv'
<1> DEFINE r == Room[t]
<1>1. /\ bridgeCtx[t] = "none"
      /\ roomKindCache[r] \in Kinds /\ r \in Rooms
      /\ bridgeCtx' = [bridgeCtx EXCEPT ![t] = roomKindCache[r]]
      /\ UNCHANGED <<crashes, members, roomKindCache, answer, peak, raced>>
  BY RoomOfTurn, SMT DEF RoomKindCached, MustDerive, RoomInv, RoomTypeOK, Kinds, vars
<1>2. /\ bridgeCtx'[t] = roomKindCache[r]
      /\ \A u \in Turns \ {t} : bridgeCtx'[u] = bridgeCtx[u]
      /\ \A u \in Turns : Room[u] \in Rooms
  BY <1>1, RoomOfTurn, SMT DEF RoomInv, RoomTypeOK
<1>3. RoomTypeOK'
  <2>1. bridgeCtx' \in [Turns -> Kinds \cup {"none", "asking"}]
    BY <1>1, SMT DEF RoomInv, RoomTypeOK
  <2> QED
    BY <1>1, <2>1 DEF RoomInv, RoomTypeOK
<1>4. GroupsKnown'
  BY <1>1, <1>2, SMT DEF RoomInv, GroupsKnown, Kinds
<1>5. GroupWasGroup'
  BY <1>1, <1>2, SMT DEF RoomInv, GroupsKnown, GroupWasGroup
<1>6. CacheDecides'
  BY <1>1, <1>2, SMTT(30) DEF RoomInv, CacheDecides, Kinds
<1> QED
  BY <1>3, <1>4, <1>5, <1>6 DEF RoomInv

LEMMA JoinedMembersInv ==
  ASSUME RoomInv, NEW t \in Turns, JoinedMembers(t)
  PROVE  RoomInv'
<1> DEFINE r == Room[t]
<1>1. /\ bridgeCtx[t] = "none"
      /\ roomKindCache[r] = "none" /\ r \in Rooms
      /\ bridgeCtx' = [bridgeCtx EXCEPT ![t] = "asking"]
      /\ UNCHANGED <<crashes, members, roomKindCache, peak>>
  BY RoomOfTurn, SMT DEF JoinedMembers, MustDerive, vars
<1>2. PICK kind \in Kinds : /\ answer' = [answer EXCEPT ![t] = kind]
                            /\ kind = "group" => members[r] > 2
  BY SMT DEF JoinedMembers, KindOf, Kinds
<1>3. /\ raced' = raced \cup {r} \/ raced' = raced
      /\ raced' = raced => (r \in raced \/ \A u \in Turns : Room[u] = r => bridgeCtx[u] # "asking")
  BY SMT DEF JoinedMembers
<1>4. /\ bridgeCtx'[t] = "asking"
      /\ \A u \in Turns \ {t} : bridgeCtx'[u] = bridgeCtx[u] /\ answer'[u] = answer[u]
      /\ answer'[t] = kind
      /\ \A u \in Turns : Room[u] \in Rooms
  BY <1>1, <1>2, RoomOfTurn, SMT DEF RoomInv, RoomTypeOK
<1>5. RoomTypeOK'
  BY <1>1, <1>2, <1>3, SMT DEF RoomInv, RoomTypeOK
<1>6. GroupsKnown'
  BY <1>1, <1>2, <1>4, SMT DEF RoomInv, RoomTypeOK, GroupsKnown
<1>7. GroupWasGroup'
  BY <1>1, <1>4, SMT DEF RoomInv, GroupWasGroup
<1>8. CacheDecides'
  BY <1>1, <1>3, <1>4, SMTT(30) DEF RoomInv, CacheDecides, Kinds
<1> QED
  BY <1>5, <1>6, <1>7, <1>8 DEF RoomInv

LEMMA StoreRoomKindInv ==
  ASSUME RoomInv, NEW t \in Turns, StoreRoomKind(t)
  PROVE  RoomInv'
<1> DEFINE r == Room[t]
<1>1. /\ bridgeCtx[t] = "asking" /\ r \in Rooms
      /\ bridgeCtx' = [bridgeCtx EXCEPT ![t] = answer[t]]
      /\ roomKindCache' = [roomKindCache EXCEPT ![r] = answer[t]]
      /\ answer[t] \in Kinds
      /\ UNCHANGED <<crashes, members, answer, peak, raced>>
  BY RoomOfTurn, SMT DEF StoreRoomKind, vars, RoomInv, GroupsKnown
<1>2. /\ bridgeCtx'[t] = answer[t]
      /\ \A u \in Turns \ {t} : bridgeCtx'[u] = bridgeCtx[u]
      /\ roomKindCache'[r] = answer[t]
      /\ \A q \in Rooms \ {r} : roomKindCache'[q] = roomKindCache[q]
      /\ \A u \in Turns : Room[u] \in Rooms
  BY <1>1, RoomOfTurn, SMT DEF RoomInv, RoomTypeOK
<1>3. RoomTypeOK'
  BY <1>1, SMT DEF RoomInv, RoomTypeOK
<1>4. GroupsKnown'
  BY <1>1, <1>2, SMT DEF RoomInv, GroupsKnown
<1>5. GroupWasGroup'
  BY <1>1, <1>2, SMT DEF RoomInv, GroupsKnown, GroupWasGroup
<1>6. CacheDecides'
  BY <1>1, <1>2, SMTT(30) DEF RoomInv, CacheDecides, Kinds
<1> QED
  BY <1>3, <1>4, <1>5, <1>6 DEF RoomInv

\* A membership change raises the peak with it.
LEMMA MembershipInv ==
  ASSUME RoomInv, NEW r \in Rooms, MembershipChanges(r)
  PROVE  RoomInv'
<1>1. PICK n \in 1 .. MaxMembers :
        /\ members' = [members EXCEPT ![r] = n]
        /\ peak' = [peak EXCEPT ![r] = IF n > peak[r] THEN n ELSE peak[r]]
  BY Zenon DEF MembershipChanges
<1>2. UNCHANGED <<crashes, roomKindCache, bridgeCtx, answer, raced>>
  BY DEF MembershipChanges, vars
<1>3. RoomTypeOK'
  BY <1>1, <1>2, SMT DEF RoomInv, RoomTypeOK
<1>4. \A q \in Rooms : peak'[q] >= members'[q] /\ peak'[q] >= peak[q]
  BY <1>1, SMT DEF RoomInv, RoomTypeOK, GroupsKnown
<1>5. \A q \in Rooms : peak[q] > 2 => peak'[q] > 2
  BY <1>3, <1>4, SMT DEF RoomInv, RoomTypeOK
<1>6. GroupsKnown' /\ GroupWasGroup'
  BY <1>2, <1>4, <1>5, RoomOfTurn, SMT DEF RoomInv, GroupsKnown, GroupWasGroup
<1>7. CacheDecides'
  BY <1>2, SMT DEF RoomInv, CacheDecides
<1> QED
  BY <1>3, <1>6, <1>7 DEF RoomInv

\* A restart forgets the cache, and says nothing about what was sent before.
LEMMA RoomCrashInv ==
  ASSUME RoomInv, crashes \in Nat, RoomCrash
  PROVE  RoomInv'
<1>1. /\ roomKindCache' = [r \in Rooms |-> "none"]
      /\ bridgeCtx' = [t \in Turns |-> IF bridgeCtx[t] = "asking" THEN "none" ELSE bridgeCtx[t]]
      /\ UNCHANGED <<members, answer, peak, raced>>
      /\ crashes' = crashes + 1
  BY DEF RoomCrash, Crash
<1>2. RoomTypeOK'
  BY <1>1, SMT DEF RoomInv, RoomTypeOK
<1>3. GroupsKnown' /\ GroupWasGroup'
  BY <1>1, SMT DEF RoomInv, GroupsKnown, GroupWasGroup
<1>4. crashes' # 0
  BY <1>1, SMT
<1>5. CacheDecides'
  BY <1>4, SMT DEF CacheDecides
<1> QED
  BY <1>2, <1>3, <1>5 DEF RoomInv

LEMMA RoomInitInv == RoomInit => RoomInv
<1> SUFFICES ASSUME RoomInit PROVE RoomInv
  OBVIOUS
<1>1. /\ members \in [Rooms -> 1 .. 2] /\ peak = members /\ raced = {}
      /\ roomKindCache = [r \in Rooms |-> "none"]
      /\ bridgeCtx = [t \in Turns |-> "none"]
      /\ answer = [t \in Turns |-> "none"]
  BY DEF RoomInit
<1>2. RoomTypeOK
  BY <1>1, SMT DEF RoomTypeOK
<1>3. GroupsKnown /\ GroupWasGroup /\ CacheDecides
  BY <1>1, RoomOfTurn, SMT DEF GroupsKnown, GroupWasGroup, CacheDecides, Kinds
<1> QED
  BY <1>2, <1>3 DEF RoomInv

\* Only a restart counts crashes.
LEMMA HandlerCrashes ==
  ASSUME NEW t \in Turns, Handler(t) \/ Begin(t)
  PROVE  UNCHANGED crashes
<1>1. CASE Begin(t) \/ Logout(t) \/ ResolveUserClient(t) \/ ResolveWithLink(t) \/ ResolveFails(t)
  BY <1>1, Zenon DEF Begin, Logout, ResolveUserClient, ResolveWithLink, ResolveFails
<1>2. CASE Reset(t) \/ ImageBegins(t) \/ ImageRefused(t) \/ ImageFetched(t) \/ ImageUploaded(t)
  BY <1>2, Zenon DEF Reset, ImageBegins, ImageRefused, ImageFetched, ImageUploaded
<1>3. CASE \/ ReadSession(t) \/ StartTyping(t) \/ SendMessage(t) \/ SendReturns(t)
           \/ RequestRefused(t) \/ RequestFails(t)
  BY <1>3, Zenon DEF ReadSession, StartTyping, SendMessage, SendReturns, RequestRefused, RequestFails
<1>4. CASE ContinueChat(t) \/ Conclude(t)
  BY <1>4, Zenon DEF ContinueChat, Conclude
<1> QED
  BY <1>1, <1>2, <1>3, <1>4, Zenon DEF Handler

LEMMA RoomNextInv ==
  ASSUME RoomInv, crashes \in Nat, [RoomNext]_<<vars, roomVars>>
  PROVE  RoomInv' /\ crashes' \in Nat
<1>1. ASSUME NEW t \in Turns, Handler(t) \/ Begin(t), UNCHANGED roomVars
      PROVE  RoomInv' /\ crashes' \in Nat
  BY <1>1, HandlerCrashes, QuietRoomInv
<1>2. ASSUME NEW t \in Turns, RoomKindCached(t) \/ JoinedMembers(t) \/ StoreRoomKind(t)
      PROVE  RoomInv' /\ crashes' \in Nat
  <2>1. UNCHANGED crashes
    BY <1>2 DEF RoomKindCached, JoinedMembers, StoreRoomKind, vars
  <2> QED
    BY <1>2, <2>1, RoomKindCachedInv, JoinedMembersInv, StoreRoomKindInv
<1>3. CASE (Authorize \/ TimePasses \/ TypingExpires) /\ UNCHANGED roomVars
  <2>1. UNCHANGED crashes
    BY <1>3 DEF Authorize, TimePasses, TypingExpires
  <2> QED
    BY <1>3, <2>1, QuietRoomInv
<1>4. ASSUME NEW r \in Rooms, MembershipChanges(r) PROVE RoomInv' /\ crashes' \in Nat
  <2>1. UNCHANGED crashes
    BY <1>4 DEF MembershipChanges, vars
  <2> QED
    BY <1>4, <2>1, MembershipInv
<1>5. CASE RoomCrash
  <2>1. crashes' = crashes + 1
    BY <1>5 DEF RoomCrash, Crash
  <2> QED
    BY <1>5, <2>1, RoomCrashInv, SMT
<1>6. CASE UNCHANGED <<vars, roomVars>>
  <2>1. UNCHANGED crashes /\ UNCHANGED roomVars
    BY <1>6 DEF vars
  <2> QED
    BY <2>1, QuietRoomInv
<1> QED
  BY <1>1, <1>2, <1>3, <1>4, <1>5, <1>6, Zenon DEF RoomNext, RoomHandler

-----------------------------------------------------------------------------
\* The cached kind of a room is the only one reported, unless two handlers
\* asked at once (handlers.go:446-466).
THEOREM RoomInvariant == RoomSpec => []RoomInv
<1>1. RoomInit => RoomInv /\ crashes \in Nat
  BY RoomInitInv, SMT DEF RoomInit, Init
<1>2. RoomInv /\ crashes \in Nat /\ [RoomNext]_<<vars, roomVars>> => (RoomInv /\ crashes \in Nat)'
  BY RoomNextInv
<1> QED
  BY <1>1, <1>2, PTL DEF RoomSpec

\* A room reported as a group had more than two members at some time
\* (handlers.go:455-462).
THEOREM GroupsAreReal == RoomSpec => []GroupWasGroup
<1>1. RoomInv => GroupWasGroup
  BY DEF RoomInv
<1> QED
  BY <1>1, RoomInvariant, PTL

\* WordPress is told one kind per room (handlers.go:450-464).
THEOREM OneKind == RoomSpec => []OneKindPerRoom
<1>1. RoomInv /\ crashes \in Nat => OneKindPerRoom
  <2> SUFFICES ASSUME RoomInv, crashes \in Nat, NEW t \in Turns, NEW u \in Turns,
                      Room[t] = Room[u], {bridgeCtx[t], bridgeCtx[u]} = Kinds,
                      Room[t] \notin raced, crashes = 0
               PROVE  FALSE
    BY SMT DEF OneKindPerRoom
  <2>1. bridgeCtx[t] \in Kinds /\ bridgeCtx[u] \in Kinds /\ bridgeCtx[t] # bridgeCtx[u]
    BY SMT DEF Kinds
  <2>2. roomKindCache[Room[t]] = bridgeCtx[t] /\ roomKindCache[Room[t]] = bridgeCtx[u]
    BY <2>1, RoomOfTurn, Zenon DEF RoomInv, CacheDecides
  <2> QED
    BY <2>1, <2>2
<1>2. RoomInit => crashes \in Nat /\ RoomInv
  BY RoomInitInv, SMT DEF RoomInit, Init
<1>3. RoomInv /\ crashes \in Nat /\ [RoomNext]_<<vars, roomVars>> => (RoomInv /\ crashes \in Nat)'
  BY RoomNextInv
<1> QED
  BY <1>1, <1>2, <1>3, PTL DEF RoomSpec

\* With the bridge context every step is still a step of BotChat, or none: its
\* theorems hold of BotRoom too (handlers.go:302-306).
THEOREM ImplementsBotChat == RoomSpec => Spec
<1>1. RoomInit => Init
  BY DEF RoomInit
<1>2. [RoomNext]_<<vars, roomVars>> => [Next]_vars
  BY Zenon DEF RoomNext, RoomHandler, RoomKindCached, JoinedMembers, StoreRoomKind,
         MembershipChanges, RoomCrash, Next
<1> QED
  BY <1>1, <1>2, PTL DEF RoomSpec, Spec
=============================================================================
