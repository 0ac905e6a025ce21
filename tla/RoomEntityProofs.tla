-------------------------- MODULE RoomEntityProofs --------------------------
(***************************************************************************)
(* What the methods of the room aggregate keep, room by room: every method *)
(* leaves a Room (the type), and every method that does not throw leaves a *)
(* sound room (RoomInv) when it is given one.  RoomServiceProofs lifts     *)
(* these lemmas to the steps of the service.                               *)
(***************************************************************************)
EXTENDS RoomEntity, FiniteSetTheorems, TLAPS

\* An id without a room has no rows at all.
GoneIsEmpty(rm) == rm.phase = "none" => rm = NoRoom

\* The row with role PURCHASER is the one of room.purchaser.
OnePurchaser(rm) ==
    \A u \in Users : rm.role[u] = "purchaser" => u = rm.purchaser

OpenHasPurchaser(rm) ==
    rm.phase \in Open => /\ rm.purchaser \in CurrentParticipants(rm)
                         /\ rm.role[rm.purchaser] = "purchaser"

BlacklistIsBanned(rm) == \A u \in rm.blackList : rm.role[u] = "banned"

PhaseIsReadiness(rm) ==
    rm.phase \in Open => (rm.phase = "ALL_READY" <=> IsAllReady(rm))

FixedIsReady(rm) ==
    rm.phase \in Ordering \cup {"ORDER_DONE"} =>
        \A u \in CurrentParticipants(rm) \ {rm.purchaser} : rm.isReady[u]

\* The part of the inductive invariant of RoomService that is about one room.
RoomInv(rm) ==
    /\ GoneIsEmpty(rm)
    /\ OnePurchaser(rm)
    /\ OpenHasPurchaser(rm)
    /\ BlacklistIsBanned(rm)
    /\ PhaseIsReadiness(rm)
    /\ FixedIsReady(rm)

-----------------------------------------------------------------------------
(* Counting participants                                                   *)

\* getUserCount counts: it is a number, and positive when somebody is there.
LEMMA UserCountIsCount ==
    ASSUME NEW rm
    PROVE  /\ IsFiniteSet(CurrentParticipants(rm))
           /\ UserCount(rm) \in Nat
           /\ \A u \in CurrentParticipants(rm) : UserCount(rm) > 0
<1>1. IsFiniteSet(CurrentParticipants(rm))
    BY UsersAssumption, FS_Subset DEF CurrentParticipants
<1>2. UserCount(rm) \in Nat
    BY <1>1, FS_CardinalityType DEF UserCount
<1>3. ASSUME NEW u \in CurrentParticipants(rm) PROVE UserCount(rm) > 0
    <2>1. UserCount(rm) # 0
        BY <1>1, FS_EmptySet DEF UserCount
    <2> QED BY <2>1, <1>2
<1> QED BY <1>1, <1>2, <1>3

-----------------------------------------------------------------------------
(* Every method leaves a Room                                              *)

LEMMA NoRoomType == NoRoom \in Room
BY DEF NoRoom, Room, NoTip

LEMMA UpdateAllReadyStateType ==
    ASSUME NEW rm \in Room
    PROVE  UpdateAllReadyState(rm) \in Room
BY DEF UpdateAllReadyState, Room, Phases, Open

LEMMA NewRoomType ==
    ASSUME NEW u \in Users
    PROVE  NewRoom(u) \in Room
<1>1. "PREPARE" \in Phases /\ "purchaser" \in Roles /\ "joined" \in States
    BY DEF Phases, Open, Roles, States
<1> DEFINE role == [NoRoom.role EXCEPT ![u] = "purchaser"]
           state == [NoRoom.state EXCEPT ![u] = "joined"]
<1>2. role \in [Users -> Roles \cup {"none"}] /\ state \in [Users -> States \cup {"none"}]
    BY <1>1, NoRoomType DEF Room
<1>3. NewRoom(u) = [NoRoom EXCEPT !.phase = "PREPARE", !.purchaser = u, !.role = role,
                                  !.state = state]
    BY DEF NewRoom
<1> HIDE DEF role, state
<1> QED BY <1>1, <1>2, <1>3, NoRoomType DEF Room

LEMMA JoinType ==
    ASSUME NEW rm \in Room, NEW u \in Users
    PROVE  Join(rm, u) \in Room
<1> DEFINE with == [rm EXCEPT !.role[u] = "member", !.state[u] = "joined"]
<1>1. with \in Room
    BY DEF Room, Roles, States
<1> QED BY <1>1, UpdateAllReadyStateType DEF Join

LEMMA LeaveType ==
    ASSUME NEW rm \in Room, NEW u \in Users
    PROVE  Leave(rm, u) \in Room
<1> DEFINE with == [rm EXCEPT !.state[u] = "left"]
<1>1. with \in Room
    BY DEF Room, States
<1> QED BY <1>1, UpdateAllReadyStateType DEF Leave

LEMMA KickUserType ==
    ASSUME NEW rm \in Room, NEW u \in Users
    PROVE  KickUser(rm, u) \in Room
<1> DEFINE with == [rm EXCEPT !.blackList = @ \cup {u},
                              !.role[u] = "banned",
                              !.state[u] = "kicked"]
<1>1. with \in Room
    BY DEF Room, Roles, States
<1> QED BY <1>1, UpdateAllReadyStateType DEF KickUser

LEMMA SetReadyType ==
    ASSUME NEW rm \in Room, NEW u \in Users, NEW ready \in BOOLEAN
    PROVE  SetReady(rm, u, ready) \in Room
<1> DEFINE with == [rm EXCEPT !.isReady[u] = ready]
<1>1. with \in Room
    BY DEF Room
<1> QED BY <1>1, UpdateAllReadyStateType DEF SetReady

LEMMA MenuTypes ==
    ASSUME NEW rm \in Room, NEW u \in Users
    PROVE  /\ AddMenu(rm, u) \in Room
           /\ rm.menus[u] > 0 => DeleteMenu(rm, u) \in Room
<1>1. rm.menus \in [Users -> Nat]
    BY DEF Room
<1>2. [rm.menus EXCEPT ![u] = @ + 1] \in [Users -> Nat]
    BY <1>1
<1>3. ASSUME rm.menus[u] > 0
      PROVE  [rm.menus EXCEPT ![u] = @ - 1] \in [Users -> Nat]
    BY <1>1, <1>3
<1>4. AddMenu(rm, u) \in Room
    BY <1>2 DEF AddMenu, Room
<1>5. ASSUME rm.menus[u] > 0 PROVE DeleteMenu(rm, u) \in Room
    BY <1>3, <1>5 DEF DeleteMenu, Room
<1> QED BY <1>4, <1>5

LEMMA OrderTypes ==
    ASSUME NEW rm \in Room
    PROVE  /\ FixOrder(rm) \in Room
           /\ DoneOrder(rm) \in Room
           /\ Cancel(rm) \in Room
           /\ UploadScreenShot(rm) \in Room
BY DEF FixOrder, DoneOrder, Cancel, UploadScreenShot, Room, Phases, Ordering,
       Closed

\* The division in checkOrder is by at least one where its result is used.
LEMMA CheckOrderType ==
    ASSUME NEW rm \in Room, NEW amount \in Int
    PROVE  CheckOrder(rm, amount) \in Room
<1>1. ASSUME NEW u \in CurrentParticipants(rm)
      PROVE  TipShare(rm, amount) \in Int
    BY <1>1, UserCountIsCount DEF TipShare
<1> DEFINE tip == [u \in Users |-> IF u \in CurrentParticipants(rm)
                                   THEN TipShare(rm, amount)
                                   ELSE rm.tip[u]]
<1>2. tip \in [Users -> Int \cup {NoTip}]
    BY <1>1 DEF Room
<1>3. CheckOrder(rm, amount) =
        [rm EXCEPT !.phase = "ORDER_CHECK", !.deliveryTip = amount,
                   !.account = TRUE, !.tip = tip]
    BY DEF CheckOrder, Room
<1> HIDE DEF tip
<1> QED BY <1>2, <1>3 DEF Room, Phases, Ordering

-----------------------------------------------------------------------------
(* Every method leaves a sound room                                        *)

LEMMA UpdateAllReadyStateKeeps ==
    ASSUME NEW rm \in Room, NEW new, new = UpdateAllReadyState(rm)
    PROVE  /\ new.purchaser = rm.purchaser
           /\ new.role = rm.role
           /\ new.blackList = rm.blackList
           /\ new.isReady = rm.isReady
           /\ CurrentParticipants(new) = CurrentParticipants(rm)
           /\ IsAllReady(new) <=> IsAllReady(rm)
           /\ rm.phase \notin Open => new.phase = rm.phase
           /\ rm.phase \in Open => /\ new.phase \in Open
                                  /\ new.phase = "ALL_READY" <=> IsAllReady(rm)
<1>1. /\ new.purchaser = rm.purchaser
      /\ new.role = rm.role
      /\ new.state = rm.state
      /\ new.blackList = rm.blackList
      /\ new.isReady = rm.isReady
    BY DEF UpdateAllReadyState, Room
<1>2. CurrentParticipants(new) = CurrentParticipants(rm)
    BY <1>1 DEF CurrentParticipants
<1>3. IsAllReady(new) <=> IsAllReady(rm)
    BY <1>1, <1>2 DEF IsAllReady, UserCount
<1>4. rm.phase \notin Open => new.phase = rm.phase
    BY DEF UpdateAllReadyState
<1>5. rm.phase \in Open => /\ new.phase \in Open
                           /\ new.phase = "ALL_READY" <=> IsAllReady(rm)
    BY DEF UpdateAllReadyState, Open, Room
<1> QED BY <1>1, <1>2, <1>3, <1>4, <1>5

\* updateAllReadyState makes a room sound when only its phase was not.
LEMMA UpdateAllReadyStateInv ==
    ASSUME NEW rm \in Room, rm.phase # "none",
           OnePurchaser(rm), OpenHasPurchaser(rm), BlacklistIsBanned(rm),
           FixedIsReady(rm)
    PROVE  RoomInv(UpdateAllReadyState(rm))
<1> DEFINE new == UpdateAllReadyState(rm)
<1>1. /\ new.purchaser = rm.purchaser
      /\ new.role = rm.role
      /\ new.blackList = rm.blackList
      /\ new.isReady = rm.isReady
      /\ CurrentParticipants(new) = CurrentParticipants(rm)
      /\ IsAllReady(new) <=> IsAllReady(rm)
      /\ rm.phase \notin Open => new.phase = rm.phase
      /\ rm.phase \in Open => /\ new.phase \in Open
                             /\ new.phase = "ALL_READY" <=> IsAllReady(rm)
    BY UpdateAllReadyStateKeeps
<1>2. new.phase # "none" /\ (new.phase \in Open \/ new.phase = rm.phase)
    BY DEF UpdateAllReadyState, Open, Room
<1> HIDE DEF new
<1>3. OnePurchaser(new) /\ BlacklistIsBanned(new)
    BY <1>1 DEF OnePurchaser, BlacklistIsBanned
<1>4. OpenHasPurchaser(new)
    BY <1>1 DEF OpenHasPurchaser
<1>5. PhaseIsReadiness(new)
    BY <1>1 DEF PhaseIsReadiness
<1>6. FixedIsReady(new)
    BY <1>1, <1>2 DEF FixedIsReady, Open, Ordering
<1>7. GoneIsEmpty(new)
    BY <1>2 DEF GoneIsEmpty
<1> QED BY <1>7, <1>3, <1>4, <1>5, <1>6 DEF RoomInv, new

LEMMA NoRoomInv == RoomInv(NoRoom)
BY DEF RoomInv, NoRoom, GoneIsEmpty, OnePurchaser, OpenHasPurchaser,
       BlacklistIsBanned, PhaseIsReadiness, FixedIsReady, Open, Ordering

LEMMA NewRoomInv ==
    ASSUME NEW u \in Users
    PROVE  RoomInv(NewRoom(u))
<1> DEFINE rm == NewRoom(u)
<1>1. /\ rm.phase = "PREPARE"
      /\ rm.purchaser = u
      /\ rm.role = [w \in Users |-> IF w = u THEN "purchaser" ELSE "none"]
      /\ rm.state = [w \in Users |-> IF w = u THEN "joined" ELSE "none"]
      /\ rm.blackList = {}
    BY DEF NewRoom, NoRoom
<1> HIDE DEF rm
<1>2. CurrentParticipants(rm) = {u}
    BY <1>1 DEF CurrentParticipants, ParticipantRoles
<1>3. ~IsAllReady(rm)
    <2>1. UserCount(rm) = 1
        BY <1>2, FS_Singleton DEF UserCount
    <2> QED BY <2>1 DEF IsAllReady
<1>4. GoneIsEmpty(rm) /\ OnePurchaser(rm) /\ BlacklistIsBanned(rm)
    BY <1>1 DEF GoneIsEmpty, OnePurchaser, BlacklistIsBanned
<1>5. OpenHasPurchaser(rm)
    BY <1>1, <1>2 DEF OpenHasPurchaser
<1>6. PhaseIsReadiness(rm) /\ FixedIsReady(rm)
    BY <1>1, <1>3 DEF PhaseIsReadiness, FixedIsReady, Ordering
<1> QED BY <1>4, <1>5, <1>6 DEF RoomInv, rm

LEMMA JoinInv ==
    ASSUME NEW rm \in Room, NEW u \in Users, RoomInv(rm), JoinAllowed(rm, u)
    PROVE  RoomInv(Join(rm, u))
<1> DEFINE with == [rm EXCEPT !.role[u] = "member", !.state[u] = "joined"]
<1>1. with \in Room
    BY DEF Room, Roles, States
<1>2. /\ with.phase = rm.phase
      /\ with.purchaser = rm.purchaser
      /\ with.blackList = rm.blackList
      /\ with.role = [rm.role EXCEPT ![u] = "member"]
      /\ with.state = [rm.state EXCEPT ![u] = "joined"]
    BY DEF Room
<1>3. rm.phase \in Open /\ u # rm.purchaser /\ u \notin rm.blackList
    BY DEF JoinAllowed, RoomInv, OpenHasPurchaser
<1> HIDE DEF with
<1>4. with.phase # "none" /\ FixedIsReady(with)
    BY <1>2, <1>3 DEF FixedIsReady, Open, Ordering
<1>5. OnePurchaser(with)
    BY <1>2 DEF OnePurchaser, RoomInv, Room
<1>6. OpenHasPurchaser(with)
    BY <1>2, <1>3 DEF OpenHasPurchaser, RoomInv, Room, CurrentParticipants
<1>7. BlacklistIsBanned(with)
    BY <1>2, <1>3 DEF BlacklistIsBanned, RoomInv, Room
<1> QED BY <1>1, <1>4, <1>5, <1>6, <1>7, UpdateAllReadyStateInv DEF Join, with

\* leaveRoom saves the room only when somebody stays: see LeaveRoom.
LEMMA LeaveInv ==
    ASSUME NEW rm \in Room, NEW u \in Users, RoomInv(rm), LeaveAllowed(rm, u),
           rm.role[u] = "banned" \/ UserCount(Leave(rm, u)) # 0
    PROVE  RoomInv(Leave(rm, u))
<1> DEFINE with == [rm EXCEPT !.state[u] = "left"]
<1>1. with \in Room
    BY DEF Room, States
<1>2. /\ with.phase = rm.phase
      /\ with.purchaser = rm.purchaser
      /\ with.blackList = rm.blackList
      /\ with.role = rm.role
      /\ with.isReady = rm.isReady
      /\ with.state = [rm.state EXCEPT ![u] = "left"]
    BY DEF Room
<1> HIDE DEF with
<1>3. CurrentParticipants(with) = CurrentParticipants(rm) \ {u}
    BY <1>2 DEF CurrentParticipants, Room
<1>4. UserCount(Leave(rm, u)) = UserCount(with)
    BY <1>1, UpdateAllReadyStateKeeps DEF Leave, with, UserCount
<1>5. ASSUME rm.phase \in Open PROVE u # rm.purchaser
    <2> SUFFICES ASSUME u = rm.purchaser PROVE FALSE
        OBVIOUS
    <2>1. u \in CurrentParticipants(rm) /\ rm.role[u] = "purchaser"
        BY <1>5 DEF RoomInv, OpenHasPurchaser
    <2>2. UserCount(rm) <= 1
        BY <1>5, <2>1 DEF LeaveAllowed
    <2>3. UserCount(with) = UserCount(rm) - 1
        BY <1>3, <2>1, UserCountIsCount, FS_RemoveElement DEF UserCount
    <2>4. UserCount(with) = 0
        BY <2>1, <2>2, <2>3, UserCountIsCount
    <2> QED BY <1>4, <2>1, <2>4
<1>6. with.phase # "none"
    BY <1>2 DEF LeaveAllowed, Open, Closed
<1>7. OnePurchaser(with) /\ BlacklistIsBanned(with)
    BY <1>2 DEF OnePurchaser, BlacklistIsBanned, RoomInv
<1>8. OpenHasPurchaser(with)
    BY <1>2, <1>3, <1>5 DEF OpenHasPurchaser, RoomInv
<1>9. FixedIsReady(with)
    BY <1>2, <1>3 DEF FixedIsReady, RoomInv
<1> QED BY <1>1, <1>6, <1>7, <1>8, <1>9, UpdateAllReadyStateInv DEF Leave, with

\* Both reasons: a kick by vote may take the purchaser, but not in an open room.
LEMMA KickUserInv ==
    ASSUME NEW rm \in Room, NEW u \in Users, RoomInv(rm), Exists(rm),
           rm.phase \in Open => u # rm.purchaser
    PROVE  RoomInv(KickUser(rm, u))
<1> DEFINE with == [rm EXCEPT !.blackList = @ \cup {u},
                              !.role[u] = "banned",
                              !.state[u] = "kicked"]
<1>1. with \in Room
    BY DEF Room, Roles, States
<1>2. /\ with.phase = rm.phase
      /\ with.purchaser = rm.purchaser
      /\ with.blackList = rm.blackList \cup {u}
      /\ with.role = [rm.role EXCEPT ![u] = "banned"]
      /\ with.isReady = rm.isReady
      /\ with.state = [rm.state EXCEPT ![u] = "kicked"]
    BY DEF Room
<1> HIDE DEF with
<1>3. CurrentParticipants(with) = CurrentParticipants(rm) \ {u}
    BY <1>2 DEF CurrentParticipants, Room
<1>4. with.phase # "none"
    BY <1>2 DEF Exists
<1>5. OnePurchaser(with)
    BY <1>2 DEF OnePurchaser, RoomInv, Room
<1>6. BlacklistIsBanned(with)
    BY <1>2 DEF BlacklistIsBanned, RoomInv, Room
<1>7. OpenHasPurchaser(with)
    BY <1>2, <1>3 DEF OpenHasPurchaser, RoomInv, Room, CurrentParticipants
<1>8. FixedIsReady(with)
    BY <1>2, <1>3 DEF FixedIsReady, RoomInv
<1> QED BY <1>1, <1>4, <1>5, <1>6, <1>7, <1>8, UpdateAllReadyStateInv
        DEF KickUser, with

LEMMA SetReadyInv ==
    ASSUME NEW rm \in Room, NEW u \in Users, NEW ready \in BOOLEAN,
           RoomInv(rm), rm.phase \in Open
    PROVE  RoomInv(SetReady(rm, u, ready))
<1> DEFINE with == [rm EXCEPT !.isReady[u] = ready]
<1>1. with \in Room
    BY DEF Room
<1>2. /\ with.phase = rm.phase
      /\ with.purchaser = rm.purchaser
      /\ with.blackList = rm.blackList
      /\ with.role = rm.role
      /\ with.state = rm.state
    BY DEF Room
<1> HIDE DEF with
<1>3. CurrentParticipants(with) = CurrentParticipants(rm)
    BY <1>2 DEF CurrentParticipants
<1>4. with.phase # "none" /\ FixedIsReady(with)
    BY <1>2 DEF FixedIsReady, Open, Ordering
<1>5. OnePurchaser(with) /\ BlacklistIsBanned(with) /\ OpenHasPurchaser(with)
    BY <1>2, <1>3 DEF OnePurchaser, BlacklistIsBanned, OpenHasPurchaser, RoomInv
<1> QED BY <1>1, <1>4, <1>5, UpdateAllReadyStateInv DEF SetReady, with

\* Methods that leave the participants and the blacklist alone, and the phase or
\* move it out of ALL_READY or along an order under way, keep a room sound.
LEMMA QuietInv ==
    ASSUME NEW rm \in Room, NEW new \in Room, RoomInv(rm), Exists(rm), Exists(new),
           new.purchaser = rm.purchaser,
           new.blackList = rm.blackList,
           new.role = rm.role,
           new.state = rm.state,
           \/ new.phase = rm.phase /\ new.isReady = rm.isReady
           \/ /\ rm.phase \in {"ALL_READY", "ORDER_FIX", "ORDER_CHECK", "ORDER_DONE"}
              /\ new.phase \notin Open
              /\ new.isReady = rm.isReady
           \/ new.phase = "ORDER_CANCELED"
    PROVE  RoomInv(new)
<1>1. CurrentParticipants(new) = CurrentParticipants(rm)
    BY DEF CurrentParticipants
<1>2. new.isReady = rm.isReady => (IsAllReady(new) <=> IsAllReady(rm))
    BY <1>1 DEF IsAllReady, UserCount
<1>3. GoneIsEmpty(new)
    BY DEF GoneIsEmpty, Exists
<1>4. OnePurchaser(new) /\ BlacklistIsBanned(new)
    BY DEF OnePurchaser, BlacklistIsBanned, RoomInv
<1>5. OpenHasPurchaser(new)
    BY <1>1 DEF OpenHasPurchaser, RoomInv, Open
<1>6. PhaseIsReadiness(new)
    BY <1>2 DEF PhaseIsReadiness, RoomInv, Open
<1>7. FixedIsReady(new)
    <2>1. CASE new.phase = rm.phase /\ new.isReady = rm.isReady
        BY <1>1, <2>1 DEF FixedIsReady, RoomInv
    <2>2. CASE rm.phase = "ALL_READY" /\ new.isReady = rm.isReady
        BY <1>1, <2>2 DEF FixedIsReady, RoomInv, PhaseIsReadiness, Open, IsAllReady
    <2>3. CASE /\ rm.phase \in {"ORDER_FIX", "ORDER_CHECK", "ORDER_DONE"}
               /\ new.isReady = rm.isReady
        BY <1>1, <2>3 DEF FixedIsReady, RoomInv, Ordering
    <2>4. CASE new.phase = "ORDER_CANCELED"
        BY <2>4 DEF FixedIsReady, Ordering
    <2> QED BY <2>1, <2>2, <2>3, <2>4
<1> QED BY <1>3, <1>4, <1>5, <1>6, <1>7 DEF RoomInv

\* The phase graph read backwards, for the phases that canTransitionTo is asked
\* about.
LEMMA PhaseBefore ==
    ASSUME NEW rm \in Room
    PROVE  /\ CanTransitionTo(rm, "ORDER_FIX") => rm.phase \in {"ALL_READY", "ORDER_FIX"}
           /\ CanTransitionTo(rm, "ORDER_CHECK") => rm.phase \in {"ORDER_FIX", "ORDER_CHECK"}
           /\ CanTransitionTo(rm, "ORDER_DONE") => rm.phase \in {"ORDER_CHECK", "ORDER_DONE"}
BY DEF CanTransitionTo, PhaseGraph, Exists, Room, Phases, Open, Ordering, Closed

LEMMA OrderInv ==
    ASSUME NEW rm \in Room, RoomInv(rm)
    PROVE  /\ CanTransitionTo(rm, "ORDER_FIX") => RoomInv(FixOrder(rm))
           /\ CanTransitionTo(rm, "ORDER_DONE") => RoomInv(DoneOrder(rm))
           /\ Exists(rm) => RoomInv(Cancel(rm))
           /\ Exists(rm) => RoomInv(UploadScreenShot(rm))
           /\ \A amount \in Int :
                  CheckOrderAllowed(rm) => RoomInv(CheckOrder(rm, amount))
<1>1. ASSUME CanTransitionTo(rm, "ORDER_FIX") PROVE RoomInv(FixOrder(rm))
    BY <1>1, PhaseBefore, OrderTypes, QuietInv
    DEF FixOrder, Room, Exists, Open
<1>2. ASSUME CanTransitionTo(rm, "ORDER_DONE") PROVE RoomInv(DoneOrder(rm))
    BY <1>2, PhaseBefore, OrderTypes, QuietInv
    DEF DoneOrder, Room, Exists, Open
<1>3. ASSUME Exists(rm) PROVE RoomInv(Cancel(rm))
    <2> DEFINE new == Cancel(rm)
    <2>1. /\ new.phase = "ORDER_CANCELED"
          /\ new.purchaser = rm.purchaser
          /\ new.blackList = rm.blackList
          /\ new.role = rm.role
          /\ new.state = rm.state
        BY DEF Cancel, Room
    <2>2. new \in Room
        BY OrderTypes
    <2> HIDE DEF new
    <2>3. RoomInv(new)
        BY <1>3, <2>1, <2>2, QuietInv DEF Exists
    <2> QED BY <2>3 DEF new
<1>4. ASSUME Exists(rm) PROVE RoomInv(UploadScreenShot(rm))
    BY <1>4, OrderTypes, QuietInv DEF UploadScreenShot, Room, Exists
<1>5. ASSUME NEW amount \in Int, CheckOrderAllowed(rm)
      PROVE  RoomInv(CheckOrder(rm, amount))
    <2> DEFINE new == CheckOrder(rm, amount)
    <2>1. /\ new.phase = "ORDER_CHECK"
          /\ new.purchaser = rm.purchaser
          /\ new.blackList = rm.blackList
          /\ new.role = rm.role
          /\ new.state = rm.state
          /\ new.isReady = rm.isReady
        BY DEF CheckOrder, Room
    <2>2. new \in Room
        BY CheckOrderType
    <2>3. rm.phase \in {"ORDER_FIX", "ORDER_CHECK"}
        BY <1>5, PhaseBefore DEF CheckOrderAllowed
    <2> HIDE DEF new
    <2>4. RoomInv(new)
        BY <2>1, <2>2, <2>3, QuietInv DEF Exists, Open
    <2> QED BY <2>4 DEF new
<1> QED BY <1>1, <1>2, <1>3, <1>4, <1>5

LEMMA MenuInv ==
    ASSUME NEW rm \in Room, NEW u \in Users, RoomInv(rm), Exists(rm)
    PROVE  /\ RoomInv(AddMenu(rm, u))
           /\ rm.menus[u] > 0 => RoomInv(DeleteMenu(rm, u))
<1>1. ASSUME NEW new \in Room, NEW menus, new = [rm EXCEPT !.menus = menus]
      PROVE  RoomInv(new)
    BY <1>1, QuietInv DEF Room, Exists
<1>2. RoomInv(AddMenu(rm, u))
    BY <1>1, MenuTypes DEF AddMenu
<1>3. ASSUME rm.menus[u] > 0 PROVE RoomInv(DeleteMenu(rm, u))
    BY <1>1, <1>3, MenuTypes DEF DeleteMenu
<1> QED BY <1>2, <1>3
=============================================================================
