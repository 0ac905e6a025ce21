------------------------- MODULE RoomServiceProofs --------------------------
(***************************************************************************)
(* Theorems about RoomService for any users, rooms and votes.              *)
(***************************************************************************)
EXTENDS RoomService, RoomEntityProofs

-----------------------------------------------------------------------------
(* Type correctness                                                        *)

\* Saving a Room, with or without announcing it, keeps the types.
LEMMA SaveType ==
    ASSUME TypeOK, NEW r \in Rooms, NEW rm \in Room, NEW u
    PROVE  /\ Save(r, rm) => rooms' \in [Rooms -> Room]
           /\ SaveAndCheckAllReady(r, rm) =>
                  rooms' \in [Rooms -> Room] /\ announced' \in [Rooms -> BOOLEAN]
           /\ SaveAfterEmitting(r, rm, u) =>
                  rooms' \in [Rooms -> Room] /\ announced' \in [Rooms -> BOOLEAN]
<1>1. Save(r, rm) => rooms' \in [Rooms -> Room]
    BY DEF TypeOK, Save
<1>2. CheckAllReadyOrCanceled(rooms[r].phase, rm.phase, announced[r]) \in BOOLEAN
    BY DEF TypeOK, CheckAllReadyOrCanceled
<1>3. SaveAndCheckAllReady(r, rm) => announced' \in [Rooms -> BOOLEAN]
    BY <1>2 DEF TypeOK, SaveAndCheckAllReady
<1> QED BY <1>1, <1>3 DEF SaveAndCheckAllReady, SaveAfterEmitting, TypeOK

LEMMA RemoveType ==
    ASSUME TypeOK, NEW r \in Rooms, Remove(r)
    PROVE  /\ rooms' \in [Rooms -> Room]
           /\ announced' \in [Rooms -> BOOLEAN]
           /\ votes' \in [Votes -> Vote \cup {NoVote}]
BY NoRoomType DEF TypeOK, Remove, Save

LEMMA NewVoteType ==
    ASSUME NEW r \in Rooms, NEW excluded
    PROVE  /\ \A target \in Users : NewVote("KICK", r, target, excluded) \in Vote
           /\ NewVote("RESET", r, None, excluded) \in Vote
BY UsersAssumption DEF NewVote, NoVote, Vote, VoteRow, Opinions

LEMMA SubmitType ==
    ASSUME NEW vote \in Vote, NEW u \in Users, NEW opinion \in {"agree", "disagree"}
    PROVE  Submit(vote, u, opinion) \in Vote
<1> DEFINE with == [vote EXCEPT !.opinion[u] = opinion]
<1>1. with \in Vote
    BY DEF Vote, VoteRow, Opinions
<1>2. Passed(with) \in BOOLEAN /\ Refused(with) \in BOOLEAN
    BY DEF Passed, Refused
<1> HIDE DEF with
<1>3. [with EXCEPT !.finished = Refused(with) \/ Passed(with),
                   !.result = Passed(with)] \in Vote
    BY <1>1, <1>2 DEF Vote, VoteRow
<1> QED BY <1>3 DEF Submit, with

\* The vote with the answer of u, before checkFinished.
Answered(vote, u, opinion) == [vote EXCEPT !.opinion[u] = opinion]

\* The copy of a ballot: its user answers, the rest of the row is what was read.
IsSubmitted(vote, u, opinion, copy) ==
    LET with == Answered(vote, u, opinion)
    IN  /\ copy.opinion = [vote.opinion EXCEPT ![u] = opinion]
        /\ with.opinion = copy.opinion
        /\ TaskOf(copy) = TaskOf(vote)
        /\ copy.finished <=> Refused(with) \/ Passed(with)
        /\ copy.result <=> Passed(with)

LEMMA SubmitIs ==
    ASSUME NEW vote \in Vote, NEW u \in Users, NEW opinion \in {"agree", "disagree"}
    PROVE  IsSubmitted(vote, u, opinion, Submit(vote, u, opinion))
<1> PICK copy, with : copy = Submit(vote, u, opinion) /\ with = Answered(vote, u, opinion)
    OBVIOUS
<1>1. vote.opinion \in [Users -> Opinions]
    BY DEF Vote, VoteRow
<1>2. with \in VoteRow /\ with.opinion = [vote.opinion EXCEPT ![u] = opinion]
      /\ with.kind = vote.kind /\ with.room = vote.room /\ with.target = vote.target
    BY DEF Answered, Vote, VoteRow, Opinions
<1> DEFINE finished == Refused(with) \/ Passed(with)
           result == Passed(with)
<1>3. copy = [with EXCEPT !.finished = finished, !.result = result]
    BY DEF Submit, Answered
<1> HIDE DEF finished, result
<1>4. /\ copy.opinion = with.opinion /\ copy.kind = with.kind /\ copy.room = with.room
      /\ copy.target = with.target /\ copy.finished = finished /\ copy.result = result
    BY <1>2, <1>3 DEF VoteRow
<1> QED BY <1>2, <1>4 DEF IsSubmitted, TaskOf, finished, result

LEMMA LeaveRoomType ==
    ASSUME TypeOK, NEW r \in Rooms, NEW u \in Users, LeaveRoom(u, r)
    PROVE  TypeOK'
<1>1. Leave(rooms[r], u) \in Room
    BY LeaveType DEF TypeOK
<1> QED BY <1>1, SaveType, RemoveType DEF LeaveRoom, TypeOK

LEMMA ParticipantStepType ==
    ASSUME TypeOK, ParticipantStep
    PROVE  TypeOK'
<1>1. PICK r \in Rooms, u \in Users :
        \/ CreateRoom(u, r)
        \/ JoinRoom(u, r)
        \/ LeaveRoom(u, r)
        \/ \E target \in Users : KickByPurchaser(u, target, r)
        \/ \E ready \in BOOLEAN : ToggleReady(u, r, ready)
        \/ AddMenuTo(u, r)
        \/ DeleteMenuOf(u, r)
    BY DEF ParticipantStep
<1>2. rooms[r] \in Room
    BY DEF TypeOK
<1>3. CASE CreateRoom(u, r)
    BY <1>3, NewRoomType, SaveType DEF CreateRoom, TypeOK
<1>4. CASE JoinRoom(u, r)
    BY <1>2, <1>4, JoinType, SaveType DEF JoinRoom, TypeOK
<1>5. CASE LeaveRoom(u, r)
    BY <1>5, LeaveRoomType
<1>6. ASSUME NEW target \in Users, KickByPurchaser(u, target, r)
      PROVE  TypeOK'
    BY <1>2, <1>6, KickUserType, SaveType DEF KickByPurchaser, TypeOK
<1>7. ASSUME NEW ready \in BOOLEAN, ToggleReady(u, r, ready)
      PROVE  TypeOK'
    BY <1>2, <1>7, SetReadyType, SaveType DEF ToggleReady, TypeOK
<1>8. CASE AddMenuTo(u, r)
    BY <1>2, <1>8, MenuTypes, SaveType DEF AddMenuTo, TypeOK
<1>9. CASE DeleteMenuOf(u, r)
    BY <1>2, <1>9, MenuTypes, SaveType DEF DeleteMenuOf, TypeOK
<1> QED BY <1>1, <1>3, <1>4, <1>5, <1>6, <1>7, <1>8, <1>9

LEMMA OrderStepType ==
    ASSUME TypeOK, OrderStep
    PROVE  TypeOK'
<1>1. PICK r \in Rooms, u \in Users :
        \/ FixOrderOf(u, r)
        \/ UploadOrderImages(u, r)
        \/ \E amount \in Tips : CheckOrderOf(u, r, amount)
        \/ DoneOrderOf(u, r)
    BY DEF OrderStep
<1>2. rooms[r] \in Room
    BY DEF TypeOK
<1>3. CASE FixOrderOf(u, r)
    BY <1>2, <1>3, OrderTypes, SaveType DEF FixOrderOf, TypeOK
<1>4. CASE UploadOrderImages(u, r)
    BY <1>2, <1>4, OrderTypes, SaveType DEF UploadOrderImages, TypeOK
<1>5. ASSUME NEW amount \in Tips, CheckOrderOf(u, r, amount)
      PROVE  TypeOK'
    BY <1>2, <1>5, ServiceAssumption, CheckOrderType, SaveType
    DEF CheckOrderOf, TypeOK
<1>6. CASE DoneOrderOf(u, r)
    BY <1>2, <1>6, OrderTypes, SaveType DEF DoneOrderOf, TypeOK
<1> QED BY <1>1, <1>3, <1>4, <1>5, <1>6

LEMMA VoteStepType ==
    ASSUME TypeOK, VoteStep
    PROVE  TypeOK'
<1>1. ASSUME NEW r \in Rooms, NEW u \in Users, NEW target \in Users,
             CreateKickVote(u, target, r)
      PROVE  TypeOK'
    BY <1>1, NewVoteType DEF CreateKickVote, TypeOK
<1>2. ASSUME NEW r \in Rooms, NEW u \in Users, CreateResetVote(u, r)
      PROVE  TypeOK'
    BY <1>2, NewVoteType DEF CreateResetVote, TypeOK
<1>3. ASSUME NEW v \in Votes, NEW u \in Users, NEW opinion \in {"agree", "disagree"},
             DoVote(u, v, opinion)
      PROVE  TypeOK'
    <2> DEFINE after == Submit(votes[v], u, opinion)
    <2>1. votes[v] \in Vote
        BY <1>3 DEF TypeOK, DoVote, NoVote
    <2>2. after \in Vote
        BY <2>1, SubmitType
    <2>3. TaskOf(after) \in Task
        BY <2>2 DEF TaskOf, Task, Vote, VoteRow
    <2> QED BY <1>3, <2>2, <2>3 DEF DoVote, TypeOK
<1> QED BY <1>1, <1>2, <1>3 DEF VoteStep

LEMMA TaskStepType ==
    ASSUME TypeOK, TaskStep
    PROVE  TypeOK'
<1>1. PICK t \in tasks : RunKick(t) \/ RunReset(t) \/ FailTask(t)
    BY DEF TaskStep, RunTask
<1>2. t \in Task /\ rooms[t.room] \in Room /\ t.room \in Rooms
    BY DEF TypeOK, Task
<1>3. CASE RunKick(t)
    <2>1. t.target \in Users
        BY <1>2, <1>3 DEF RunKick, Task
    <2> QED BY <1>2, <1>3, <2>1, KickUserType, SaveType DEF RunKick, TypeOK
<1>4. CASE RunReset(t)
    BY <1>2, <1>4, OrderTypes, SaveType DEF RunReset, TypeOK
<1>5. CASE FailTask(t)
    BY <1>5 DEF FailTask, TypeOK
<1> QED BY <1>1, <1>3, <1>4, <1>5

LEMMA TypeStep == TypeOK /\ [Next]_vars => TypeOK'
<1>1. ASSUME TypeOK, UNCHANGED vars PROVE TypeOK'
    BY <1>1 DEF vars, TypeOK
<1> QED BY <1>1, ParticipantStepType, OrderStepType, VoteStepType, TaskStepType DEF Next

\* Every table keeps its types, whatever the calls do: in particular, no phase or
\* role outside the enums, no negative number of menus and no share by zero.
THEOREM TypeCorrect == Spec => []TypeOK
<1>1. Init => TypeOK
    BY NoRoomType DEF Init, TypeOK
<1> QED BY <1>1, TypeStep, PTL DEF Spec

-----------------------------------------------------------------------------
(* Every room is sound                                                     *)

\* What doVote starts is about an order that was fixed, and stays so.
TasksFollowFix == \A t \in tasks : rooms[t.room].phase \notin Open

RoomsInv ==
    /\ \A r \in Rooms : RoomInv(rooms[r])
    /\ TasksFollowFix

LEMMA RoomsInvInit == Init => RoomsInv
BY NoRoomInv DEF Init, RoomsInv, TasksFollowFix

\* Saving a sound room that is open only if it was, or that no task is about.
LEMMA SaveInv ==
    ASSUME TypeOK, RoomsInv, NEW r \in Rooms, NEW rm \in Room, RoomInv(rm),
           \/ rooms[r].phase \notin Open => rm.phase \notin Open
           \/ \A t \in tasks : t.room # r,
           Save(r, rm), tasks' \subseteq tasks
    PROVE  RoomsInv'
<1>1. /\ rooms'[r] = rm
      /\ \A q \in Rooms \ {r} : rooms'[q] = rooms[q]
    BY DEF TypeOK, Save
<1>2. \A q \in Rooms : RoomInv(rooms'[q])
    BY <1>1 DEF RoomsInv
<1>3. ASSUME NEW t \in tasks' PROVE rooms'[t.room].phase \notin Open
    <2>1. t \in tasks /\ t.room \in Rooms
        BY DEF TypeOK, Task
    <2>2. rooms[t.room].phase \notin Open
        BY <2>1 DEF RoomsInv, TasksFollowFix
    <2> QED BY <1>1, <2>1, <2>2
<1> QED BY <1>2, <1>3 DEF RoomsInv, TasksFollowFix

LEMMA SavesAre ==
    ASSUME NEW r, NEW rm, NEW u
    PROVE  /\ SaveAndCheckAllReady(r, rm) => Save(r, rm)
           /\ SaveAfterEmitting(r, rm, u) => Save(r, rm)
           /\ Remove(r) => Save(r, NoRoom)
BY DEF SaveAndCheckAllReady, SaveAfterEmitting, Remove

\* Leaving and being kicked open no room that was not.
LEMMA StaysShut ==
    ASSUME NEW rm \in Room, NEW u \in Users, rm.phase \notin Open
    PROVE  Leave(rm, u).phase \notin Open /\ KickUser(rm, u).phase \notin Open
BY DEF Leave, KickUser, UpdateAllReadyState, Room

LEMMA ParticipantStepInv ==
    ASSUME TypeOK, RoomsInv, ParticipantStep
    PROVE  RoomsInv'
<1>1. PICK r \in Rooms, u \in Users :
        \/ CreateRoom(u, r)
        \/ JoinRoom(u, r)
        \/ LeaveRoom(u, r)
        \/ \E target \in Users : KickByPurchaser(u, target, r)
        \/ \E ready \in BOOLEAN : ToggleReady(u, r, ready)
        \/ AddMenuTo(u, r)
        \/ DeleteMenuOf(u, r)
    BY DEF ParticipantStep
<1>2. rooms[r] \in Room /\ RoomInv(rooms[r])
    BY DEF TypeOK, RoomsInv
<1>3. CASE CreateRoom(u, r)
    BY <1>3, NewRoomType, NewRoomInv, SaveInv DEF CreateRoom
<1>4. CASE JoinRoom(u, r)
    <2>1. Join(rooms[r], u) \in Room /\ RoomInv(Join(rooms[r], u))
        BY <1>2, <1>4, JoinType, JoinInv DEF JoinRoom
    <2>2. rooms[r].phase \in Open
        BY <1>4 DEF JoinRoom, JoinAllowed
    <2>3. Save(r, Join(rooms[r], u)) /\ tasks' = tasks
        BY <1>4, SavesAre DEF JoinRoom
    <2> QED BY <2>1, <2>2, <2>3, SaveInv
<1>5. CASE LeaveRoom(u, r)
    <2>1. LeaveAllowed(rooms[r], u) /\ tasks' = tasks
        BY <1>5 DEF LeaveRoom
    <2>2. CASE Save(r, NoRoom)
        BY <2>1, <2>2, NoRoomType, NoRoomInv, SaveInv DEF NoRoom, Open
    <2>3. CASE /\ rooms[r].role[u] = "banned" \/ UserCount(Leave(rooms[r], u)) # 0
               /\ Save(r, Leave(rooms[r], u))
        BY <1>2, <2>1, <2>3, LeaveType, LeaveInv, StaysShut, SaveInv
    <2> QED BY <1>5, <2>2, <2>3, SavesAre DEF LeaveRoom
<1>6. ASSUME NEW target \in Users, KickByPurchaser(u, target, r)
      PROVE  RoomsInv'
    <2>1. /\ Exists(rooms[r]) /\ rooms[r].phase \in Open
          /\ target # rooms[r].purchaser
          /\ Save(r, KickUser(rooms[r], target)) /\ tasks' = tasks
        BY <1>6, SavesAre DEF KickByPurchaser, KickAllowed
    <2> QED BY <1>2, <2>1, KickUserType, KickUserInv, SaveInv
<1>7. ASSUME NEW ready \in BOOLEAN, ToggleReady(u, r, ready)
      PROVE  RoomsInv'
    <2>1. /\ rooms[r].phase \in Open
          /\ Save(r, SetReady(rooms[r], u, ready)) /\ tasks' = tasks
        BY <1>7, SavesAre DEF ToggleReady, ReadyAvailable
    <2> QED BY <1>2, <2>1, SetReadyType, SetReadyInv, SaveInv
<1>8. CASE AddMenuTo(u, r)
    <2>1. Exists(rooms[r])
        BY <1>2, <1>8
        DEF AddMenuTo, RoomInv, GoneIsEmpty, NoRoom, HasRow, Exists
    <2>2. AddMenu(rooms[r], u).phase = rooms[r].phase
        BY <1>2 DEF AddMenu, Room
    <2> QED BY <1>2, <1>8, <2>1, <2>2, MenuTypes, MenuInv, SaveInv DEF AddMenuTo
<1>9. CASE DeleteMenuOf(u, r)
    <2>1. Exists(rooms[r])
        BY <1>9 DEF DeleteMenuOf, Open, Exists
    <2> QED BY <1>2, <1>9, <2>1, MenuTypes, MenuInv, SaveInv DEF DeleteMenuOf
<1> QED BY <1>1, <1>3, <1>4, <1>5, <1>6, <1>7, <1>8, <1>9

LEMMA OrderStepInv ==
    ASSUME TypeOK, RoomsInv, OrderStep
    PROVE  RoomsInv'
<1>1. PICK r \in Rooms, u \in Users :
        \/ FixOrderOf(u, r)
        \/ UploadOrderImages(u, r)
        \/ \E amount \in Tips : CheckOrderOf(u, r, amount)
        \/ DoneOrderOf(u, r)
    BY DEF OrderStep
<1>2. rooms[r] \in Room /\ RoomInv(rooms[r])
    BY DEF TypeOK, RoomsInv
<1>3. CASE FixOrderOf(u, r)
    <2>1. FixOrder(rooms[r]).phase \notin Open
        BY <1>2 DEF FixOrder, Room, Open
    <2> QED BY <1>2, <1>3, <2>1, OrderTypes, OrderInv, SaveInv DEF FixOrderOf
<1>4. CASE UploadOrderImages(u, r)
    <2>1. Exists(rooms[r])
        BY <1>2, <1>4 DEF UploadOrderImages, RoomInv, GoneIsEmpty, NoRoom, Exists
    <2>2. UploadScreenShot(rooms[r]).phase = rooms[r].phase
        BY <1>2 DEF UploadScreenShot, Room
    <2> QED BY <1>2, <1>4, <2>1, <2>2, OrderTypes, OrderInv, SaveInv
            DEF UploadOrderImages
<1>5. ASSUME NEW amount \in Tips, CheckOrderOf(u, r, amount)
      PROVE  RoomsInv'
    <2>1. amount \in Int
        BY ServiceAssumption
    <2>2. CheckOrder(rooms[r], amount).phase \notin Open
        BY <1>2 DEF CheckOrder, Room, Open
    <2> QED BY <1>2, <1>5, <2>1, <2>2, CheckOrderType, OrderInv, SaveInv
            DEF CheckOrderOf
<1>6. CASE DoneOrderOf(u, r)
    <2>1. DoneOrder(rooms[r]).phase \notin Open
        BY <1>2 DEF DoneOrder, Room, Open
    <2> QED BY <1>2, <1>6, <2>1, OrderTypes, OrderInv, SaveInv DEF DoneOrderOf
<1> QED BY <1>1, <1>3, <1>4, <1>5, <1>6

LEMMA VoteStepInv ==
    ASSUME TypeOK, RoomsInv, VoteStep
    PROVE  RoomsInv'
<1>1. rooms' = rooms
    BY DEF VoteStep, CreateKickVote, CreateResetVote, DoVote
<1>2. ASSUME NEW t \in tasks' \ tasks
      PROVE  rooms[t.room].phase \in Ordering
    <2>1. PICK v \in Votes, u \in Users, opinion \in {"agree", "disagree"} :
            DoVote(u, v, opinion)
        BY <1>2 DEF VoteStep, CreateKickVote, CreateResetVote
    <2>2. votes[v] \in Vote
        BY <2>1 DEF TypeOK, DoVote, NoVote
    <2>3. t = TaskOf(Submit(votes[v], u, opinion))
        BY <1>2, <2>1 DEF DoVote
    <2>4. t.room = votes[v].room
        BY <2>2, <2>3 DEF TaskOf, Submit, Vote, VoteRow
    <2> QED BY <2>1, <2>4 DEF DoVote
<1>3. TasksFollowFix'
    BY <1>1, <1>2 DEF RoomsInv, TasksFollowFix, Open, Ordering
<1> QED BY <1>1, <1>3 DEF RoomsInv

LEMMA TaskStepInv ==
    ASSUME TypeOK, RoomsInv, TaskStep
    PROVE  RoomsInv'
<1>1. PICK t \in tasks : RunKick(t) \/ RunReset(t) \/ FailTask(t)
    BY DEF TaskStep, RunTask
<1>2. /\ t \in Task /\ t.room \in Rooms /\ rooms[t.room] \in Room
      /\ RoomInv(rooms[t.room]) /\ rooms[t.room].phase \notin Open
    BY DEF TypeOK, Task, RoomsInv, TasksFollowFix
<1>3. CASE RunKick(t)
    <2>1. /\ t.target \in Users /\ Exists(rooms[t.room])
          /\ Save(t.room, KickUser(rooms[t.room], t.target))
          /\ tasks' \subseteq tasks
        BY <1>2, <1>3, SavesAre DEF RunKick, KickAllowed, Task
    <2> QED BY <1>2, <2>1, KickUserType, KickUserInv, StaysShut, SaveInv
<1>4. CASE RunReset(t)
    <2>1. Cancel(rooms[t.room]).phase \notin Open
        BY <1>2 DEF Cancel, Room, Open
    <2> QED BY <1>2, <1>4, <2>1, OrderTypes, OrderInv, SaveInv DEF RunReset
<1>5. CASE FailTask(t)
    BY <1>5 DEF FailTask, RoomsInv, TasksFollowFix
<1> QED BY <1>1, <1>3, <1>4, <1>5

LEMMA RoomsInvStep == TypeOK /\ RoomsInv /\ [Next]_vars => RoomsInv'
<1>1. ASSUME RoomsInv, UNCHANGED vars PROVE RoomsInv'
    BY <1>1 DEF vars, RoomsInv, TasksFollowFix
<1> QED BY <1>1, ParticipantStepInv, OrderStepInv, VoteStepInv, TaskStepInv DEF Next

\* In every reachable state every room is sound.
THEOREM RoomsStaySound == Spec => []RoomsInv
<1> QED BY RoomsInvInit, RoomsInvStep, TypeCorrect, PTL DEF Spec

\* The phase of a room that can be joined says ALL_READY exactly when everybody
\* is ready (updateAllReadyState is called wherever it has to be).
THEOREM PhaseAlwaysTellsReadiness == Spec => []PhaseTellsReadiness
<1>1. RoomsInv => PhaseTellsReadiness
    BY DEF RoomsInv, RoomInv, PhaseIsReadiness, PhaseTellsReadiness
<1> QED BY <1>1, RoomsStaySound, PTL

\* In an order that was fixed every member is ready.
THEOREM FixedOrderIsAlwaysReady == Spec => []FixedOrderIsReady
<1>1. RoomsInv => FixedOrderIsReady
    BY DEF RoomsInv, RoomInv, FixedIsReady, FixedOrderIsReady
<1> QED BY <1>1, RoomsStaySound, PTL

\* A user on the blacklist is never a participant again.
THEOREM BlacklistedAlwaysOut == Spec => []BlacklistedStaysOut
<1>1. RoomsInv => BlacklistedStaysOut
    BY DEF RoomsInv, RoomInv, BlacklistIsBanned, BlacklistedStaysOut,
           CurrentParticipants, ParticipantRoles
<1> QED BY <1>1, RoomsStaySound, PTL

\* A room that can be joined has its purchaser in it.
THEOREM OpenRoomAlwaysHasPurchaser == Spec => []OpenRoomHasPurchaser
<1>1. RoomsInv => OpenRoomHasPurchaser
    BY DEF RoomsInv, RoomInv, OpenHasPurchaser, OpenRoomHasPurchaser
<1> QED BY <1>1, RoomsStaySound, PTL

-----------------------------------------------------------------------------
(* A purchaser has one room                                                *)

\* How a room may change without touching PurchaserHasOneRoom: nobody gets a row
\* or becomes the purchaser, and a closed room stays closed or is removed.
Narrows(rm, new) ==
    /\ \A u \in Users : HasRow(new, u) => HasRow(rm, u)
    /\ \A u \in Users : new.role[u] = "purchaser" => rm.role[u] = "purchaser"
    /\ rm.phase \in Closed => new.phase \in Closed \/ new = NoRoom

LEMMA NarrowingSave ==
    ASSUME TypeOK, PurchaserHasOneRoom, NEW r \in Rooms, NEW rm \in Room,
           Narrows(rooms[r], rm), Save(r, rm)
    PROVE  PurchaserHasOneRoom'
<1>1. /\ rooms'[r] = rm
      /\ \A q \in Rooms \ {r} : rooms'[q] = rooms[q]
    BY DEF TypeOK, Save
<1>2. SUFFICES ASSUME NEW p \in Rooms, NEW q \in Rooms, NEW u \in Users, p # q,
                      rooms'[p].role[u] = "purchaser", HasRow(rooms'[q], u),
                      rooms'[p].phase \notin Closed
               PROVE  rooms'[q].phase \in Closed
    BY DEF PurchaserHasOneRoom
<1>3. rm # NoRoom \/ (p # r /\ q # r)
    BY <1>1, <1>2 DEF NoRoom, HasRow
<1>4. rooms[p].role[u] = "purchaser" /\ rooms[p].phase \notin Closed
    BY <1>1, <1>2, <1>3 DEF Narrows
<1>5. HasRow(rooms[q], u)
    BY <1>1, <1>2 DEF Narrows
<1>6. rooms[q].phase \in Closed
    BY <1>2, <1>4, <1>5 DEF PurchaserHasOneRoom
<1> QED BY <1>1, <1>3, <1>6 DEF Narrows

LEMMA LeaveAndKickNarrow ==
    ASSUME NEW rm \in Room, NEW u \in Users
    PROVE  /\ Narrows(rm, Leave(rm, u))
           /\ HasRow(rm, u) => Narrows(rm, KickUser(rm, u))
<1>1. ASSUME NEW with \in Room, with.phase = rm.phase, Narrows(rm, with)
      PROVE  Narrows(rm, UpdateAllReadyState(with))
    <2> DEFINE new == UpdateAllReadyState(with)
    <2>1. new.role = with.role
        BY UpdateAllReadyStateKeeps
    <2>2. with.phase \in Closed => new.phase = with.phase
        BY DEF UpdateAllReadyState, Open, Closed
    <2> HIDE DEF new
    <2>3. Narrows(rm, new)
        BY <1>1, <2>1, <2>2 DEF Narrows, HasRow
    <2> QED BY <2>3 DEF new
<1>2. Narrows(rm, Leave(rm, u))
    <2> DEFINE with == [rm EXCEPT !.state[u] = "left"]
    <2>1. with \in Room /\ with.phase = rm.phase /\ Narrows(rm, with)
        BY DEF Room, States, Narrows, HasRow
    <2> QED BY <1>1, <2>1 DEF Leave
<1>3. ASSUME HasRow(rm, u) PROVE Narrows(rm, KickUser(rm, u))
    <2> DEFINE with == [rm EXCEPT !.blackList = @ \cup {u},
                                  !.role[u] = "banned",
                                  !.state[u] = "kicked"]
    <2>1. with \in Room /\ with.phase = rm.phase /\ Narrows(rm, with)
        BY <1>3 DEF Room, Roles, States, Narrows, HasRow
    <2> QED BY <1>1, <2>1 DEF KickUser
<1> QED BY <1>2, <1>3

LEMMA OthersNarrow ==
    ASSUME NEW rm \in Room, NEW u \in Users
    PROVE  /\ \A ready \in BOOLEAN : rm.phase \in Open =>
                  Narrows(rm, SetReady(rm, u, ready))
           /\ Narrows(rm, AddMenu(rm, u)) /\ Narrows(rm, DeleteMenu(rm, u))
           /\ Narrows(rm, UploadScreenShot(rm))
           /\ CanTransitionTo(rm, "ORDER_FIX") => Narrows(rm, FixOrder(rm))
           /\ \A amount \in Int :
                  CheckOrderAllowed(rm) => Narrows(rm, CheckOrder(rm, amount))
           /\ Narrows(rm, DoneOrder(rm)) /\ Narrows(rm, Cancel(rm))
<1>1. ASSUME NEW ready \in BOOLEAN, rm.phase \in Open
      PROVE  Narrows(rm, SetReady(rm, u, ready))
    BY <1>1 DEF SetReady, UpdateAllReadyState, Room, Narrows, HasRow, Open, Closed
<1>2. /\ Narrows(rm, AddMenu(rm, u)) /\ Narrows(rm, DeleteMenu(rm, u))
      /\ Narrows(rm, UploadScreenShot(rm))
    BY DEF AddMenu, DeleteMenu, UploadScreenShot, Room, Narrows, HasRow
<1>3. CanTransitionTo(rm, "ORDER_FIX") => Narrows(rm, FixOrder(rm))
    BY PhaseBefore DEF FixOrder, Room, Narrows, HasRow, Closed
<1>4. ASSUME NEW amount \in Int, CheckOrderAllowed(rm)
      PROVE  Narrows(rm, CheckOrder(rm, amount))
    <2>1. rm.phase \notin Closed
        BY <1>4, PhaseBefore DEF CheckOrderAllowed, Closed
    <2> QED BY <2>1 DEF CheckOrder, Room, Narrows, HasRow
<1>5. Narrows(rm, DoneOrder(rm)) /\ Narrows(rm, Cancel(rm))
    BY DEF DoneOrder, Cancel, Room, Narrows, HasRow, Closed
<1> QED BY <1>1, <1>2, <1>3, <1>4, <1>5

LEMMA CreateKeepsOneRoom ==
    ASSUME TypeOK, PurchaserHasOneRoom, NEW r \in Rooms, NEW u \in Users,
           CreateRoom(u, r)
    PROVE  PurchaserHasOneRoom'
<1>1. /\ rooms'[r] = NewRoom(u)
      /\ \A q \in Rooms \ {r} : rooms'[q] = rooms[q]
    BY DEF CreateRoom, TypeOK, Save
<1>2. \A w \in Users : HasRow(NewRoom(u), w) => w = u
    BY DEF NewRoom, NoRoom, HasRow
<1>3. \A q \in Rooms : HasRow(rooms[q], u) => rooms[q].phase \in Closed
    BY DEF CreateRoom, CreateAllowed, TypeOK
<1>4. \A q \in Rooms : rooms[q].role[u] = "purchaser" => HasRow(rooms[q], u)
    BY DEF HasRow
<1>5. \A w \in Users : NewRoom(u).role[w] = "purchaser" => w = u
    BY <1>2 DEF HasRow
<1> QED BY <1>1, <1>2, <1>3, <1>4, <1>5 DEF PurchaserHasOneRoom

LEMMA JoinKeepsOneRoom ==
    ASSUME TypeOK, PurchaserHasOneRoom, NEW r \in Rooms, NEW u \in Users,
           JoinRoom(u, r)
    PROVE  PurchaserHasOneRoom'
<1> DEFINE rm == Join(rooms[r], u)
<1>1. /\ rooms'[r] = rm
      /\ \A q \in Rooms \ {r} : rooms'[q] = rooms[q]
    BY SavesAre DEF JoinRoom, TypeOK, Save
<1>2. rooms[r].phase \in Open /\ rooms[r].phase \notin Closed
    BY DEF JoinRoom, JoinAllowed, Open, Closed
<1>3. /\ \A w \in Users \ {u} : rm.role[w] = rooms[r].role[w]
      /\ rm.role[u] = "member"
    BY DEF Join, UpdateAllReadyState, TypeOK, Room
<1>4. \A q \in Rooms : rooms[q].role[u] = "purchaser" => rooms[q].phase \in Closed
    BY DEF JoinRoom, ValidateJoin, TypeOK
<1> HIDE DEF rm
<1>5. SUFFICES ASSUME NEW p \in Rooms, NEW q \in Rooms, NEW w \in Users, p # q,
                      rooms'[p].role[w] = "purchaser", HasRow(rooms'[q], w),
                      rooms'[p].phase \notin Closed
               PROVE  rooms'[q].phase \in Closed
    BY DEF PurchaserHasOneRoom
<1>6. CASE w = u
    BY <1>1, <1>3, <1>4, <1>5, <1>6
<1>7. CASE w # u
    <2>1. rooms[p].role[w] = "purchaser" /\ HasRow(rooms[q], w)
        BY <1>1, <1>3, <1>5, <1>7 DEF HasRow
    <2>2. rooms[p].phase \notin Closed
        BY <1>1, <1>2, <1>5
    <2>3. rooms[q].phase \in Closed
        BY <1>5, <2>1, <2>2 DEF PurchaserHasOneRoom
    <2> QED BY <1>1, <1>2, <2>3
<1> QED BY <1>6, <1>7

LEMMA OneRoomStep ==
    TypeOK /\ PurchaserHasOneRoom /\ [Next]_vars => PurchaserHasOneRoom'
<1> SUFFICES ASSUME TypeOK, PurchaserHasOneRoom, [Next]_vars
             PROVE  PurchaserHasOneRoom'
    OBVIOUS
<1>1. \A r \in Rooms : rooms[r] \in Room
    BY DEF TypeOK
<1>2. ASSUME NEW r \in Rooms, NEW u \in Users, LeaveRoom(u, r)
      PROVE  PurchaserHasOneRoom'
    <2>1. Save(r, NoRoom) \/ Save(r, Leave(rooms[r], u))
        BY <1>2, SavesAre DEF LeaveRoom
    <2>2. Narrows(rooms[r], NoRoom)
        BY DEF Narrows, NoRoom, HasRow
    <2> QED BY <1>1, <2>1, <2>2, NoRoomType, LeaveType, LeaveAndKickNarrow,
               NarrowingSave
<1>3. ASSUME NEW r \in Rooms, NEW u \in Users, NEW target \in Users,
             KickByPurchaser(u, target, r)
      PROVE  PurchaserHasOneRoom'
    BY <1>1, <1>3, SavesAre, KickUserType, LeaveAndKickNarrow, NarrowingSave
    DEF KickByPurchaser, KickAllowed
<1>4. ASSUME NEW r \in Rooms, NEW u \in Users, NEW ready \in BOOLEAN,
             ToggleReady(u, r, ready)
      PROVE  PurchaserHasOneRoom'
    BY <1>1, <1>4, SavesAre, SetReadyType, OthersNarrow, NarrowingSave
    DEF ToggleReady, ReadyAvailable
<1>5. ASSUME NEW r \in Rooms, NEW u \in Users, AddMenuTo(u, r) \/ DeleteMenuOf(u, r)
      PROVE  PurchaserHasOneRoom'
    BY <1>1, <1>5, MenuTypes, OthersNarrow, NarrowingSave DEF AddMenuTo, DeleteMenuOf
<1>6. ASSUME OrderStep PROVE PurchaserHasOneRoom'
    BY <1>1, <1>6, ServiceAssumption, OrderTypes, CheckOrderType, OthersNarrow,
       NarrowingSave
    DEF OrderStep, FixOrderOf, UploadOrderImages, CheckOrderOf, DoneOrderOf
<1>7. ASSUME rooms' = rooms PROVE PurchaserHasOneRoom'
    BY <1>7 DEF PurchaserHasOneRoom
<1>8. VoteStep => rooms' = rooms
    BY DEF VoteStep, CreateKickVote, CreateResetVote, DoVote
<1>9. ASSUME TaskStep PROVE PurchaserHasOneRoom'
    <2>1. PICK t \in tasks : RunKick(t) \/ RunReset(t) \/ FailTask(t)
        BY <1>9 DEF TaskStep, RunTask
    <2>2. t.room \in Rooms /\ (t.kind = "KICK" => t.target \in Users)
        BY DEF TypeOK, Task
    <2>3. CASE RunKick(t)
        BY <1>1, <2>2, <2>3, SavesAre, KickUserType, LeaveAndKickNarrow, NarrowingSave
        DEF RunKick, KickAllowed
    <2>4. CASE RunReset(t)
        <3>1. Narrows(rooms[t.room], Cancel(rooms[t.room]))
            BY <1>1, <2>2 DEF Cancel, Room, Narrows, HasRow, Closed
        <3> QED BY <1>1, <2>2, <2>4, <3>1, OrderTypes, NarrowingSave DEF RunReset
    <2>5. CASE FailTask(t)
        BY <1>7, <2>5 DEF FailTask
    <2> QED BY <2>1, <2>3, <2>4, <2>5
<1>10. ASSUME ParticipantStep PROVE PurchaserHasOneRoom'
    BY <1>2, <1>3, <1>4, <1>5, <1>10, CreateKeepsOneRoom, JoinKeepsOneRoom
    DEF ParticipantStep
<1> QED BY <1>6, <1>7, <1>8, <1>9, <1>10 DEF Next, vars

\* The purchaser of a room that is not closed has no part in another such room.
THEOREM PurchaserAlwaysHasOneRoom == Spec => []PurchaserHasOneRoom
<1>1. Init => PurchaserHasOneRoom
    BY DEF Init, PurchaserHasOneRoom, NoRoom, HasRow
<1> QED BY <1>1, OneRoomStep, TypeCorrect, PTL DEF Spec

-----------------------------------------------------------------------------
(* One vote under way                                                      *)

LEMMA OneOpenVoteStep == TypeOK /\ OneOpenVote /\ [Next]_vars => OneOpenVote'
<1> SUFFICES ASSUME TypeOK, OneOpenVote, [Next]_vars
             PROVE  OneOpenVote'
    OBVIOUS
<1>1. ASSUME votes' = votes PROVE OneOpenVote'
    BY <1>1 DEF OneOpenVote, OpenVotes
<1>2. ASSUME NEW r \in Rooms, Remove(r) PROVE OneOpenVote'
    BY <1>2, ServiceAssumption DEF Remove, NoVote, OneOpenVote, OpenVotes
<1>3. ASSUME NEW r \in Rooms, NEW v \in Votes, NEW kind, NEW target, NEW excluded,
             OpenVotes(r) = {},
             votes' = [votes EXCEPT ![v] = NewVote(kind, r, target, excluded)]
      PROVE  OneOpenVote'
    <2>1. NewVote(kind, r, target, excluded).room = r
        BY DEF NewVote, NoVote
    <2>2. /\ votes'[v].room = r
          /\ \A w \in Votes \ {v} : votes'[w] = votes[w]
        BY <1>3, <2>1 DEF TypeOK
    <2>3. \A w \in OpenVotes(r)' : w = v
        BY <1>3, <2>2 DEF OpenVotes
    <2>4. \A q \in Rooms \ {r} : OpenVotes(q)' \subseteq OpenVotes(q)
        BY <2>2 DEF OpenVotes
    <2> QED BY <2>3, <2>4 DEF OneOpenVote
<1>4. ASSUME NEW v \in Votes, NEW u \in Users, NEW opinion \in {"agree", "disagree"},
             DoVote(u, v, opinion)
      PROVE  OneOpenVote'
    <2>1. votes[v] \in Vote
        BY <1>4 DEF TypeOK, DoVote, NoVote
    <2>2. Submit(votes[v], u, opinion).room = votes[v].room
        BY <2>1 DEF Submit, Vote, VoteRow
    <2>3. /\ votes'[v].room = votes[v].room /\ ~votes[v].finished
          /\ \A w \in Votes \ {v} : votes'[w] = votes[w]
        BY <1>4, <2>2 DEF DoVote, TypeOK
    <2>4. \A q \in Rooms : OpenVotes(q)' \subseteq OpenVotes(q)
        BY <2>3 DEF OpenVotes
    <2> QED BY <2>4 DEF OneOpenVote
<1>5. VoteStep => OneOpenVote'
    BY <1>3, <1>4 DEF VoteStep, CreateKickVote, CreateResetVote, VoteAllowed
<1>6. ParticipantStep => votes' = votes \/ \E r \in Rooms : Remove(r)
    BY DEF ParticipantStep, CreateRoom, JoinRoom, LeaveRoom, KickByPurchaser,
           ToggleReady, AddMenuTo, DeleteMenuOf
<1>7. OrderStep => votes' = votes
    BY DEF OrderStep, FixOrderOf, UploadOrderImages, CheckOrderOf, DoneOrderOf
<1>8. TaskStep => votes' = votes
    BY DEF TaskStep, RunTask, RunKick, RunReset, FailTask
<1> QED BY <1>1, <1>2, <1>5, <1>6, <1>7, <1>8 DEF Next, vars

\* Kick and reset votes together, a room has one vote under way at most.
THEOREM AlwaysOneOpenVote == Spec => []OneOpenVote
<1>1. Init => OneOpenVote
    BY ServiceAssumption DEF Init, NoVote, OneOpenVote, OpenVotes
<1> QED BY <1>1, OneOpenVoteStep, TypeCorrect, PTL DEF Spec

-----------------------------------------------------------------------------
(* What was announced is so, as long as every user has a socket            *)

AnnouncedInv ==
    /\ AnnouncedIsPhase
    /\ \A r \in Rooms : rooms[r].phase = "none" => ~announced[r]

LEMMA AnnouncingSave ==
    ASSUME TypeOK, AnnouncedInv, NEW r \in Rooms, NEW rm,
           \/ rooms[r].phase \in Open /\ rm.phase \in Open
           \/ rooms[r].phase \notin Open \cup {"none"} /\ rm.phase = rooms[r].phase,
           SaveAndCheckAllReady(r, rm)
    PROVE  AnnouncedInv'
<1>1. /\ rooms'[r] = rm
      /\ announced'[r] =
            CheckAllReadyOrCanceled(rooms[r].phase, rm.phase, announced[r])
      /\ \A q \in Rooms \ {r} :
            rooms'[q] = rooms[q] /\ announced'[q] = announced[q]
    BY DEF TypeOK, SaveAndCheckAllReady, Save
<1>2. rm.phase \in Open => (announced'[r] <=> rm.phase = "ALL_READY")
    BY <1>1 DEF AnnouncedInv, AnnouncedIsPhase, CheckAllReadyOrCanceled, Open
<1>3. rm.phase # "none"
    BY DEF Open
<1> QED BY <1>1, <1>2, <1>3 DEF AnnouncedInv, AnnouncedIsPhase

LEMMA QuietSave ==
    ASSUME TypeOK, AnnouncedInv, NEW r \in Rooms, NEW rm,
           rm.phase = rooms[r].phase \/ rm.phase \notin Open \cup {"none"},
           Save(r, rm), announced' = announced
    PROVE  AnnouncedInv'
<1>1. /\ rooms'[r] = rm
      /\ \A q \in Rooms \ {r} : rooms'[q] = rooms[q]
    BY DEF TypeOK, Save
<1> QED BY <1>1 DEF AnnouncedInv, AnnouncedIsPhase

\* Join, Leave, KickUser and SetReady stay among the open phases, or change none.
LEMMA PhaseAfter ==
    ASSUME NEW rm \in Room, NEW u \in Users, NEW ready \in BOOLEAN,
           NEW new \in {Join(rm, u), Leave(rm, u), KickUser(rm, u),
                        SetReady(rm, u, ready)}
    PROVE  /\ rm.phase \in Open => new.phase \in Open
           /\ rm.phase \notin Open => new.phase = rm.phase
BY DEF Join, Leave, KickUser, SetReady, UpdateAllReadyState, Room, Open

\* A banned user who leaves does not change the phase.
LEMMA BannedLeaveKeepsPhase ==
    ASSUME NEW rm \in Room, NEW u \in Users, RoomInv(rm), rm.role[u] = "banned"
    PROVE  Leave(rm, u).phase = rm.phase
<1> DEFINE with == [rm EXCEPT !.state[u] = "left"]
           new == Leave(rm, u)
<1>1. with \in Room
    BY DEF Room, States
<1>2. /\ with.phase = rm.phase
      /\ with.purchaser = rm.purchaser
      /\ with.role = rm.role
      /\ with.isReady = rm.isReady
      /\ with.state = [rm.state EXCEPT ![u] = "left"]
    BY DEF Room
<1>3. new = UpdateAllReadyState(with)
    BY DEF Leave
<1> HIDE DEF with
<1>4. CurrentParticipants(with) = CurrentParticipants(rm)
    BY <1>2 DEF CurrentParticipants, ParticipantRoles, Room
<1>5. IsAllReady(with) <=> IsAllReady(rm)
    BY <1>2, <1>4 DEF IsAllReady, UserCount
<1> HIDE DEF new
<1>6. /\ rm.phase \notin Open => new.phase = rm.phase
      /\ rm.phase \in Open => new.phase \in Open
      /\ rm.phase \in Open => (new.phase = "ALL_READY" <=> IsAllReady(rm))
    BY <1>1, <1>2, <1>3, <1>5 DEF UpdateAllReadyState, Room, Open
<1>7. rm.phase \in Open => (rm.phase = "ALL_READY" <=> IsAllReady(rm))
    BY DEF RoomInv, PhaseIsReadiness
<1>8. new.phase = rm.phase
    BY <1>6, <1>7 DEF Open
<1> QED BY <1>8 DEF new

LEMMA AnnouncedStep ==
    ASSUME Offline = {}, TypeOK, RoomsInv, AnnouncedInv, [Next]_vars
    PROVE  AnnouncedInv'
<1>1. \A r \in Rooms : rooms[r] \in Room /\ RoomInv(rooms[r])
    BY DEF TypeOK, RoomsInv
<1>2. ASSUME NEW r \in Rooms, NEW u \in Users, CreateRoom(u, r)
      PROVE  AnnouncedInv'
    <2>1. /\ rooms'[r].phase = "PREPARE" /\ ~announced[r]
          /\ \A q \in Rooms \ {r} : rooms'[q] = rooms[q]
          /\ announced' = announced
        BY <1>2 DEF CreateRoom, TypeOK, Save, Exists, AnnouncedInv, NewRoom, NoRoom
    <2> QED BY <2>1 DEF AnnouncedInv, AnnouncedIsPhase
<1>3. ASSUME NEW r \in Rooms, NEW u \in Users, JoinRoom(u, r)
      PROVE  AnnouncedInv'
    <2>1. rooms[r].phase \in Open /\ SaveAndCheckAllReady(r, Join(rooms[r], u))
        BY <1>3 DEF JoinRoom, JoinAllowed, SaveAfterEmitting
    <2>2. Join(rooms[r], u).phase \in Open
        BY <1>1, <2>1, PhaseAfter
    <2> QED BY <2>1, <2>2, AnnouncingSave
<1>4. ASSUME NEW r \in Rooms, NEW u \in Users, LeaveRoom(u, r)
      PROVE  AnnouncedInv'
    <2>1. CASE Remove(r)
        <3>1. /\ rooms'[r].phase = "none" /\ ~announced'[r]
              /\ \A q \in Rooms \ {r} :
                    rooms'[q] = rooms[q] /\ announced'[q] = announced[q]
            BY <2>1 DEF Remove, Save, TypeOK, NoRoom
        <3> QED BY <3>1 DEF AnnouncedInv, AnnouncedIsPhase, Open
    <2>2. CASE SaveAndCheckAllReady(r, Leave(rooms[r], u))
        <3>1. rooms[r].phase # "none"
            BY <1>4 DEF LeaveRoom, LeaveAllowed, Open, Closed
        <3> QED BY <1>1, <2>2, <3>1, PhaseAfter, AnnouncingSave
    <2>3. CASE /\ rooms[r].role[u] = "banned"
               /\ Save(r, Leave(rooms[r], u)) /\ announced' = announced
        BY <1>1, <2>3, BannedLeaveKeepsPhase, QuietSave
    <2> QED BY <1>4, <2>1, <2>2, <2>3 DEF LeaveRoom
<1>5. ASSUME NEW r \in Rooms, NEW u \in Users, Exists(rooms[r]),
             SaveAfterEmitting(r, KickUser(rooms[r], u), u)
      PROVE  AnnouncedInv'
    BY <1>1, <1>5, PhaseAfter, AnnouncingSave DEF SaveAfterEmitting, Exists
<1>6. ASSUME NEW r \in Rooms, NEW u \in Users, NEW ready \in BOOLEAN,
             ToggleReady(u, r, ready)
      PROVE  AnnouncedInv'
    BY <1>1, <1>6, PhaseAfter, AnnouncingSave DEF ToggleReady, ReadyAvailable
<1>7. ASSUME NEW r \in Rooms, NEW u \in Users,
             AddMenuTo(u, r) \/ DeleteMenuOf(u, r) \/ UploadOrderImages(u, r)
      PROVE  AnnouncedInv'
    <2>1. /\ AddMenu(rooms[r], u).phase = rooms[r].phase
          /\ DeleteMenu(rooms[r], u).phase = rooms[r].phase
          /\ UploadScreenShot(rooms[r]).phase = rooms[r].phase
        BY <1>1 DEF AddMenu, DeleteMenu, UploadScreenShot, Room
    <2> QED BY <1>7, <2>1, QuietSave DEF AddMenuTo, DeleteMenuOf, UploadOrderImages
<1>8. ASSUME NEW r \in Rooms, NEW rm \in {FixOrder(rooms[r]), DoneOrder(rooms[r]),
                                         Cancel(rooms[r])},
             Save(r, rm), announced' = announced
      PROVE  AnnouncedInv'
    <2>1. rm.phase \notin Open \cup {"none"}
        BY <1>1 DEF FixOrder, DoneOrder, Cancel, Room, Open
    <2> QED BY <1>8, <2>1, QuietSave
<1>9. ASSUME NEW r \in Rooms, NEW amount,
             Save(r, CheckOrder(rooms[r], amount)), announced' = announced
      PROVE  AnnouncedInv'
    <2>1. CheckOrder(rooms[r], amount).phase \notin Open \cup {"none"}
        BY <1>1 DEF CheckOrder, Room, Open
    <2> QED BY <1>9, <2>1, QuietSave
<1>10. ASSUME UNCHANGED <<rooms, announced>> PROVE AnnouncedInv'
    BY <1>10 DEF AnnouncedInv, AnnouncedIsPhase
<1>11. ASSUME TaskStep PROVE AnnouncedInv'
    <2>1. PICK t \in tasks : RunKick(t) \/ RunReset(t) \/ FailTask(t)
        BY <1>11 DEF TaskStep, RunTask
    <2>2. t.room \in Rooms /\ (t.kind = "KICK" => t.target \in Users)
        BY DEF TypeOK, Task
    <2>3. CASE RunKick(t)
        BY <1>5, <2>2, <2>3 DEF RunKick, KickAllowed
    <2>4. CASE RunReset(t)
        BY <1>8, <2>2, <2>4 DEF RunReset
    <2>5. CASE FailTask(t)
        BY <1>10, <2>5 DEF FailTask
    <2> QED BY <2>1, <2>3, <2>4, <2>5
<1>12. ParticipantStep => AnnouncedInv'
    BY <1>2, <1>3, <1>4, <1>5, <1>6, <1>7
    DEF ParticipantStep, KickByPurchaser, KickAllowed
<1>13. OrderStep => AnnouncedInv'
    BY <1>7, <1>8, <1>9 DEF OrderStep, FixOrderOf, CheckOrderOf, DoneOrderOf
<1>14. VoteStep => UNCHANGED <<rooms, announced>>
    BY DEF VoteStep, CreateKickVote, CreateResetVote, DoVote
<1> QED BY <1>10, <1>11, <1>12, <1>13, <1>14 DEF Next, vars

\* The last all-ready event is about the phase the room is in, provided that the
\* gateway knows a socket of everybody: OfflineJoiner shows it fails otherwise.
THEOREM AnnouncedAlwaysIsPhase ==
    ASSUME Offline = {}
    PROVE  Spec => []AnnouncedIsPhase
<1>1. Init => AnnouncedInv
    BY DEF Init, AnnouncedInv, AnnouncedIsPhase, NoRoom, Open
<1>2. TypeOK /\ RoomsInv /\ AnnouncedInv /\ [Next]_vars => AnnouncedInv'
    BY AnnouncedStep
<1>3. AnnouncedInv => AnnouncedIsPhase
    BY DEF AnnouncedInv
<1> QED BY <1>1, <1>2, <1>3, TypeCorrect, RoomsStaySound, PTL DEF Spec
=============================================================================
