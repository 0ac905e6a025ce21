---------------------------- MODULE RoomLifeProofs ----------------------------
(***************************************************************************)
(* RoomService implements RoomLife, for any users and rooms: each call is  *)
(* one step of RoomLife, or one that RoomLife does not see.  What may      *)
(* happen to an order under way, for which a vote has to be behind a call. *)
(* And how the tip of an order is shared, for which sums over a finite set *)
(* are reasoned about by a set that has none below it.                     *)
(***************************************************************************)
EXTENDS RoomServiceProofs, WellFoundedInduction

-----------------------------------------------------------------------------
(* What the methods do to the participants, the blacklist and the phase    *)

LEMMA JoinSeen ==
    ASSUME NEW rm \in Room, NEW u \in Users
    PROVE  /\ CurrentParticipants(Join(rm, u)) = CurrentParticipants(rm) \cup {u}
           /\ Join(rm, u).blackList = rm.blackList
<1> DEFINE with == [rm EXCEPT !.role[u] = "member", !.state[u] = "joined"]
<1>1. with \in Room
    BY DEF Room, Roles, States
<1>2. /\ with.blackList = rm.blackList
      /\ with.role = [rm.role EXCEPT ![u] = "member"]
      /\ with.state = [rm.state EXCEPT ![u] = "joined"]
    BY DEF Room
<1> HIDE DEF with
<1>3. CurrentParticipants(with) = CurrentParticipants(rm) \cup {u}
    BY <1>2 DEF CurrentParticipants, ParticipantRoles, Room
<1>4. /\ CurrentParticipants(UpdateAllReadyState(with)) = CurrentParticipants(with)
      /\ UpdateAllReadyState(with).blackList = with.blackList
    BY <1>1, UpdateAllReadyStateKeeps
<1>5. Join(rm, u) = UpdateAllReadyState(with)
    BY DEF Join, with
<1> QED BY <1>2, <1>3, <1>4, <1>5

LEMMA LeaveSeen ==
    ASSUME NEW rm \in Room, NEW u \in Users
    PROVE  /\ CurrentParticipants(Leave(rm, u)) = CurrentParticipants(rm) \ {u}
           /\ Leave(rm, u).blackList = rm.blackList
<1> DEFINE with == [rm EXCEPT !.state[u] = "left"]
<1>1. with \in Room
    BY DEF Room, States
<1>2. /\ with.blackList = rm.blackList /\ with.role = rm.role
      /\ with.state = [rm.state EXCEPT ![u] = "left"]
    BY DEF Room
<1> HIDE DEF with
<1>3. CurrentParticipants(with) = CurrentParticipants(rm) \ {u}
    BY <1>2 DEF CurrentParticipants, Room
<1>4. /\ CurrentParticipants(UpdateAllReadyState(with)) = CurrentParticipants(with)
      /\ UpdateAllReadyState(with).blackList = with.blackList
    BY <1>1, UpdateAllReadyStateKeeps
<1>5. Leave(rm, u) = UpdateAllReadyState(with)
    BY DEF Leave, with
<1> QED BY <1>2, <1>3, <1>4, <1>5

LEMMA KickUserSeen ==
    ASSUME NEW rm \in Room, NEW u \in Users
    PROVE  /\ CurrentParticipants(KickUser(rm, u)) = CurrentParticipants(rm) \ {u}
           /\ KickUser(rm, u).blackList = rm.blackList \cup {u}
<1> DEFINE with == [rm EXCEPT !.blackList = @ \cup {u},
                              !.role[u] = "banned",
                              !.state[u] = "kicked"]
<1>1. with \in Room
    BY DEF Room, Roles, States
<1>2. /\ with.blackList = rm.blackList \cup {u}
      /\ with.role = [rm.role EXCEPT ![u] = "banned"]
      /\ with.state = [rm.state EXCEPT ![u] = "kicked"]
    BY DEF Room
<1> HIDE DEF with
<1>3. CurrentParticipants(with) = CurrentParticipants(rm) \ {u}
    BY <1>2 DEF CurrentParticipants, Room
<1>4. /\ CurrentParticipants(UpdateAllReadyState(with)) = CurrentParticipants(with)
      /\ UpdateAllReadyState(with).blackList = with.blackList
    BY <1>1, UpdateAllReadyStateKeeps
<1>5. KickUser(rm, u) = UpdateAllReadyState(with)
    BY DEF KickUser, with
<1> QED BY <1>2, <1>3, <1>4, <1>5

\* The other methods leave participants and blacklist alone.
SameMembers(rm, new) ==
    /\ CurrentParticipants(new) = CurrentParticipants(rm)
    /\ new.blackList = rm.blackList

LEMMA SetReadySeen ==
    ASSUME NEW rm \in Room, NEW u \in Users, NEW ready \in BOOLEAN
    PROVE  SameMembers(rm, SetReady(rm, u, ready))
<1> DEFINE with == [rm EXCEPT !.isReady[u] = ready]
<1>1. with \in Room
    BY DEF Room
<1>2. with.blackList = rm.blackList /\ with.role = rm.role /\ with.state = rm.state
    BY DEF Room
<1> HIDE DEF with
<1>3. CurrentParticipants(with) = CurrentParticipants(rm)
    BY <1>2 DEF CurrentParticipants
<1>4. /\ CurrentParticipants(UpdateAllReadyState(with)) = CurrentParticipants(with)
      /\ UpdateAllReadyState(with).blackList = with.blackList
    BY <1>1, UpdateAllReadyStateKeeps
<1>5. SetReady(rm, u, ready) = UpdateAllReadyState(with)
    BY DEF SetReady, with
<1> QED BY <1>2, <1>3, <1>4, <1>5 DEF SameMembers

LEMMA QuietSeen ==
    ASSUME NEW rm \in Room, NEW u \in Users,
           NEW new \in {AddMenu(rm, u), DeleteMenu(rm, u), UploadScreenShot(rm)}
    PROVE  SameMembers(rm, new) /\ new.phase = rm.phase
BY DEF AddMenu, DeleteMenu, UploadScreenShot, SameMembers, CurrentParticipants, Room

LEMMA OrderMethodsSeen ==
    ASSUME NEW rm \in Room
    PROVE  /\ SameMembers(rm, FixOrder(rm)) /\ FixOrder(rm).phase = "ORDER_FIX"
           /\ SameMembers(rm, DoneOrder(rm)) /\ DoneOrder(rm).phase = "ORDER_DONE"
           /\ SameMembers(rm, Cancel(rm)) /\ Cancel(rm).phase = "ORDER_CANCELED"
           /\ \A amount \in Int : /\ SameMembers(rm, CheckOrder(rm, amount))
                                  /\ CheckOrder(rm, amount).phase = "ORDER_CHECK"
BY DEF SameMembers, CurrentParticipants, Room, FixOrder, DoneOrder, Cancel, CheckOrder

-----------------------------------------------------------------------------
(* Steps as RoomLife sees them                                             *)

LEMMA LifeOfIs ==
    ASSUME NEW phase \in Phases \cup {"none"}
    PROVE  /\ phase = "none" => LifeOf(phase) = "none"
           /\ phase \in Open => LifeOf(phase) = "gathering"
           /\ phase \in Ordering => LifeOf(phase) = "underway"
           /\ phase \in Closed => LifeOf(phase) = "closed"
           /\ LifeOf(phase) = "none" => phase = "none"
BY DEF LifeOf, Phases, Open, Ordering, Closed

\* Saving one room changes what RoomLife sees of that room.
LEMMA SaveBecomes ==
    ASSUME TypeOK, NEW r \in Rooms, NEW rm, Save(r, rm)
    PROVE  Life!Becomes(r, LifeOf(rm.phase), CurrentParticipants(rm), rm.blackList)
<1>1. rooms'[r] = rm /\ \A q \in Rooms \ {r} : rooms'[q] = rooms[q]
    BY DEF TypeOK, Save
<1>2. [q \in Rooms |-> LifeOf(rooms'[q].phase)] =
        [[q \in Rooms |-> LifeOf(rooms[q].phase)] EXCEPT ![r] = LifeOf(rm.phase)]
    BY <1>1
<1>3. [q \in Rooms |-> CurrentParticipants(rooms'[q])] =
        [[q \in Rooms |-> CurrentParticipants(rooms[q])] EXCEPT ![r] = CurrentParticipants(rm)]
    BY <1>1
<1>4. [q \in Rooms |-> rooms'[q].blackList] =
        [[q \in Rooms |-> rooms[q].blackList] EXCEPT ![r] = rm.blackList]
    BY <1>1
<1> QED BY <1>2, <1>3, <1>4 DEF Life!Becomes

LEMMA SaveUnseen ==
    ASSUME TypeOK, NEW r \in Rooms, NEW rm, Save(r, rm),
           SameMembers(rooms[r], rm), LifeOf(rm.phase) = LifeOf(rooms[r].phase)
    PROVE  UNCHANGED Life!vars
<1>1. rooms'[r] = rm /\ \A q \in Rooms \ {r} : rooms'[q] = rooms[q]
    BY DEF TypeOK, Save
<1>2. \A q \in Rooms : /\ LifeOf(rooms'[q].phase) = LifeOf(rooms[q].phase)
                       /\ CurrentParticipants(rooms'[q]) = CurrentParticipants(rooms[q])
                       /\ rooms'[q].blackList = rooms[q].blackList
    BY <1>1 DEF SameMembers
<1> QED BY <1>2 DEF Life!vars

LEMMA SameCardinality ==
    ASSUME NEW S
    PROVE  Life!Cardinality(S) = Cardinality(S)
BY DEF Life!Cardinality, Cardinality

\* What a step is to RoomLife.
Seen == Life!Next \/ UNCHANGED Life!vars

LEMMA CreateSeen ==
    ASSUME TypeOK, NEW r \in Rooms, NEW u \in Users, CreateRoom(u, r)
    PROVE  Seen
<1> PICK rm : rm = NewRoom(u)
    OBVIOUS
<1>1. rm.phase = "PREPARE" /\ CurrentParticipants(rm) = {u} /\ rm.blackList = {}
    BY DEF NewRoom, NoRoom, CurrentParticipants, ParticipantRoles
<1>2. rooms[r].phase = "none" /\ Save(r, rm)
    BY DEF CreateRoom, Exists
<1>3. LifeOf("none") = "none" /\ LifeOf("PREPARE") = "gathering"
    BY LifeOfIs DEF Phases, Open
<1>4. Life!Becomes(r, "gathering", {u}, {})
    BY <1>1, <1>2, <1>3, SaveBecomes
<1>5. Life!Found(r, u)
    BY <1>2, <1>3, <1>4 DEF Life!Found, Life!Becomes
<1> QED BY <1>5 DEF Seen, Life!Next

LEMMA JoinIsSeen ==
    ASSUME TypeOK, NEW r \in Rooms, NEW u \in Users, JoinRoom(u, r)
    PROVE  Seen
<1> PICK rm, new : rm = rooms[r] /\ new = Join(rm, u)
    OBVIOUS
<1>1. /\ rm \in Room /\ rm.phase \in Open /\ u \notin rm.blackList
      /\ u \notin CurrentParticipants(rm) /\ Save(r, new)
    BY SavesAre DEF JoinRoom, JoinAllowed, TypeOK
<1>2. /\ CurrentParticipants(new) = CurrentParticipants(rm) \cup {u}
      /\ new.blackList = rm.blackList /\ new.phase \in Open
    BY <1>1, JoinSeen, PhaseAfter
<1>3. LifeOf(rm.phase) = "gathering" /\ LifeOf(new.phase) = "gathering"
    BY <1>1, <1>2, LifeOfIs DEF Phases
<1>4. Life!Becomes(r, "gathering", CurrentParticipants(rm) \cup {u}, rm.blackList)
    BY <1>1, <1>2, <1>3, SaveBecomes
<1>5. Life!Enter(r, u)
    BY <1>1, <1>3, <1>4 DEF Life!Enter, Life!Becomes
<1> QED BY <1>5 DEF Seen, Life!Next

\* The last to leave takes the room with him.
LEMMA RemoveSeen ==
    ASSUME TypeOK, NEW r \in Rooms, NEW u \in Users, rooms[r].phase \in Open \cup Closed,
           UserCount(Leave(rooms[r], u)) = 0, Save(r, NoRoom)
    PROVE  Seen
<1> PICK rm : rm = rooms[r]
    OBVIOUS
<1>1. rm \in Room
    BY DEF TypeOK
<1>2. CurrentParticipants(rm) \subseteq {u}
    <2>1. CurrentParticipants(Leave(rm, u)) = {}
        BY UserCountIsCount
    <2> QED BY <1>1, <2>1, LeaveSeen
<1>3. Cardinality(CurrentParticipants(rm)) <= 1
    <2>1. IsFiniteSet({u}) /\ Cardinality({u}) = 1
        BY FS_Singleton
    <2> QED BY <1>2, <2>1, FS_Subset
<1>4. LifeOf(rm.phase) \in {"gathering", "closed"} /\ LifeOf("none") = "none"
    BY LifeOfIs DEF Phases
<1>5. NoRoom.phase = "none" /\ CurrentParticipants(NoRoom) = {} /\ NoRoom.blackList = {}
    BY DEF NoRoom, CurrentParticipants, ParticipantRoles
<1>6. Life!Becomes(r, "none", {}, {})
    BY <1>4, <1>5, SaveBecomes
<1>7. Life!Vanish(r)
    BY <1>3, <1>4, <1>6, SameCardinality DEF Life!Vanish, Life!Becomes
<1> QED BY <1>7 DEF Seen, Life!Next

\* Leaving and being kicked: the phase stays, or both phases are open.
LEMMA LifeStays ==
    ASSUME NEW rm \in Room, NEW new \in Room,
           /\ rm.phase \in Open => new.phase \in Open
           /\ rm.phase \notin Open => new.phase = rm.phase
    PROVE  LifeOf(new.phase) = LifeOf(rm.phase)
BY LifeOfIs DEF Room

LEMMA LeaveIsSeen ==
    ASSUME TypeOK, NEW r \in Rooms, NEW u \in Users, LeaveRoom(u, r)
    PROVE  Seen
<1> PICK rm, new : rm = rooms[r] /\ new = Leave(rm, u)
    OBVIOUS
<1>1. rm \in Room /\ rm.phase \in Open \cup Closed
    BY DEF LeaveRoom, LeaveAllowed, TypeOK
<1>2. /\ CurrentParticipants(new) = CurrentParticipants(rm) \ {u}
      /\ new.blackList = rm.blackList /\ LifeOf(new.phase) = LifeOf(rm.phase)
    BY <1>1, LeaveSeen, LeaveType, PhaseAfter, LifeStays
<1>3. CASE Save(r, new) /\ u \notin CurrentParticipants(rm)
    <2>1. CurrentParticipants(new) = CurrentParticipants(rm)
        BY <1>2, <1>3
    <2> QED BY <1>2, <1>3, <2>1, SaveUnseen DEF Seen, SameMembers
<1>4. CASE Save(r, new) /\ u \in CurrentParticipants(rm)
    <2>1. Life!Becomes(r, LifeOf(rm.phase), CurrentParticipants(rm) \ {u}, rm.blackList)
        BY <1>2, <1>4, SaveBecomes
    <2>2. LifeOf(rm.phase) \in {"gathering", "closed"}
        BY <1>1, LifeOfIs DEF Phases
    <2>3. Life!Go(r, u)
        BY <1>4, <2>1, <2>2 DEF Life!Go, Life!Becomes
    <2> QED BY <2>3 DEF Seen, Life!Next
<1>5. CASE UserCount(new) = 0 /\ Save(r, NoRoom)
    BY <1>1, <1>5, RemoveSeen
<1> QED BY <1>3, <1>4, <1>5, SavesAre DEF LeaveRoom

LEMMA KickSeen ==
    ASSUME TypeOK, NEW r \in Rooms, NEW u \in Users, Exists(rooms[r]),
           Save(r, KickUser(rooms[r], u))
    PROVE  Seen
<1> PICK rm, new : rm = rooms[r] /\ new = KickUser(rm, u)
    OBVIOUS
<1>1. rm \in Room
    BY DEF TypeOK
<1>2. /\ CurrentParticipants(new) = CurrentParticipants(rm) \ {u}
      /\ new.blackList = rm.blackList \cup {u} /\ LifeOf(new.phase) = LifeOf(rm.phase)
    BY <1>1, KickUserSeen, KickUserType, PhaseAfter, LifeStays
<1>3. LifeOf(rm.phase) # "none"
    BY <1>1, LifeOfIs DEF Exists, Room
<1>4. Life!Becomes(r, LifeOf(rm.phase), CurrentParticipants(rm) \ {u}, rm.blackList \cup {u})
    BY <1>2, SaveBecomes
<1>5. Life!PutOut(r, u)
    BY <1>3, <1>4 DEF Life!PutOut, Life!Becomes
<1> QED BY <1>5 DEF Seen, Life!Next

\* Readiness, menus and receipts are nothing to RoomLife.
LEMMA UnseenCalls ==
    ASSUME TypeOK, NEW r \in Rooms, NEW u \in Users,
           \/ \E ready \in BOOLEAN : ToggleReady(u, r, ready)
           \/ AddMenuTo(u, r) \/ DeleteMenuOf(u, r) \/ UploadOrderImages(u, r)
    PROVE  Seen
<1>1. rooms[r] \in Room
    BY DEF TypeOK
<1>2. ASSUME NEW ready \in BOOLEAN, ToggleReady(u, r, ready) PROVE Seen
    <2>1. Save(r, SetReady(rooms[r], u, ready))
        BY <1>2, SavesAre DEF ToggleReady
    <2>2. LifeOf(SetReady(rooms[r], u, ready).phase) = LifeOf(rooms[r].phase)
        BY <1>1, SetReadyType, PhaseAfter, LifeStays
    <2> QED BY <1>1, <2>1, <2>2, SetReadySeen, SaveUnseen DEF Seen
<1>3. ASSUME NEW rm \in {AddMenu(rooms[r], u), DeleteMenu(rooms[r], u),
                         UploadScreenShot(rooms[r])},
             Save(r, rm)
      PROVE  Seen
    <2>1. SameMembers(rooms[r], rm) /\ rm.phase = rooms[r].phase
        BY <1>1, QuietSeen
    <2> QED BY <1>3, <2>1, SaveUnseen DEF Seen
<1> QED BY <1>2, <1>3 DEF AddMenuTo, DeleteMenuOf, UploadOrderImages

\* The order starts with everybody who is there, two at least, and ends.
LEMMA OrderSeen ==
    ASSUME TypeOK, RoomsInv, NEW r \in Rooms, NEW new,
           SameMembers(rooms[r], new), Save(r, new),
           \/ CanTransitionTo(rooms[r], "ORDER_FIX") /\ new.phase = "ORDER_FIX"
           \/ CanTransitionTo(rooms[r], "ORDER_CHECK") /\ new.phase = "ORDER_CHECK"
           \/ CanTransitionTo(rooms[r], "ORDER_DONE") /\ new.phase = "ORDER_DONE"
           \/ rooms[r].phase \in Ordering \cup Closed /\ new.phase = "ORDER_CANCELED"
    PROVE  Seen
<1> PICK rm : rm = rooms[r]
    OBVIOUS
<1>1. rm \in Room /\ RoomInv(rm)
    BY DEF TypeOK, RoomsInv
<1>2. \A phase \in Phases : /\ phase \in Open => LifeOf(phase) = "gathering"
                            /\ phase \in Ordering => LifeOf(phase) = "underway"
                            /\ phase \in Closed => LifeOf(phase) = "closed"
    BY LifeOfIs
<1>3. CASE rm.phase = "ALL_READY" /\ new.phase = "ORDER_FIX"
    <2>1. LifeOf(rm.phase) = "gathering" /\ LifeOf(new.phase) = "underway"
        BY <1>2, <1>3 DEF Phases, Open, Ordering
    <2>2. Cardinality(CurrentParticipants(rm)) >= 2
        <3>1. IsAllReady(rm)
            BY <1>1, <1>3 DEF RoomInv, PhaseIsReadiness, Open
        <3> QED BY <3>1, UserCountIsCount DEF IsAllReady, UserCount
    <2>3. Life!Becomes(r, "underway", CurrentParticipants(rm), rm.blackList)
        BY <2>1, SaveBecomes DEF SameMembers
    <2>4. Life!Start(r)
        BY <2>1, <2>2, <2>3, SameCardinality DEF Life!Start, Life!Becomes
    <2> QED BY <2>4 DEF Seen, Life!Next
<1>4. CASE rm.phase \in Ordering /\ new.phase \in Closed
    <2>1. LifeOf(rm.phase) = "underway" /\ LifeOf(new.phase) = "closed"
        BY <1>2, <1>4 DEF Phases
    <2>2. Life!Becomes(r, "closed", CurrentParticipants(rm), rm.blackList)
        BY <2>1, SaveBecomes DEF SameMembers
    <2>3. Life!Close(r)
        BY <2>1, <2>2 DEF Life!Close, Life!Becomes
    <2> QED BY <2>3 DEF Seen, Life!Next
<1>5. CASE \/ rm.phase \in Ordering /\ new.phase \in Ordering
           \/ rm.phase \in Closed /\ new.phase \in Closed
    <2>1. LifeOf(rm.phase) = LifeOf(new.phase)
        BY <1>2, <1>5 DEF Phases
    <2> QED BY <2>1, SaveUnseen DEF Seen
<1> QED BY <1>1, <1>3, <1>4, <1>5, PhaseBefore DEF Ordering, Closed

LEMMA SeenStep ==
    ASSUME TypeOK, RoomsInv, [Next]_vars
    PROVE  Seen
<1>1. \A r \in Rooms : rooms[r] \in Room
    BY DEF TypeOK
<1>2. CASE ParticipantStep
    <2>1. ASSUME NEW r \in Rooms, NEW u \in Users, NEW target \in Users,
                 KickByPurchaser(u, target, r)
          PROVE  Seen
        BY <2>1, SavesAre, KickSeen DEF KickByPurchaser, KickAllowed
    <2> QED BY <1>2, <2>1, CreateSeen, JoinIsSeen, LeaveIsSeen, UnseenCalls
            DEF ParticipantStep
<1>3. CASE OrderStep
    <2>1. ASSUME NEW r \in Rooms, NEW u \in Users, FixOrderOf(u, r)
          PROVE  Seen
        BY <1>1, <2>1, OrderMethodsSeen, OrderSeen DEF FixOrderOf
    <2>2. ASSUME NEW r \in Rooms, NEW u \in Users, NEW amount \in Tips,
                 CheckOrderOf(u, r, amount)
          PROVE  Seen
        BY <1>1, <2>2, ServiceAssumption, OrderMethodsSeen, OrderSeen
        DEF CheckOrderOf, CheckOrderAllowed
    <2>3. ASSUME NEW r \in Rooms, NEW u \in Users, DoneOrderOf(u, r)
          PROVE  Seen
        BY <1>1, <2>3, OrderMethodsSeen, OrderSeen DEF DoneOrderOf
    <2> QED BY <1>3, <2>1, <2>2, <2>3, UnseenCalls DEF OrderStep
<1>4. CASE TaskStep
    <2>1. PICK t \in tasks : RunKick(t) \/ RunReset(t) \/ FailTask(t)
        BY <1>4 DEF TaskStep, RunTask
    <2>2. t.room \in Rooms /\ (t.kind = "KICK" => t.target \in Users)
        BY DEF TypeOK, Task
    <2>3. CASE RunKick(t)
        BY <2>2, <2>3, SavesAre, KickSeen DEF RunKick, KickAllowed
    <2>4. CASE RunReset(t)
        <3>1. rooms[t.room].phase \in Ordering \cup Closed
            BY <1>1, <2>2, <2>4 DEF RunReset, Exists, Room, Phases, RoomsInv, TasksFollowFix
        <3>2. /\ SameMembers(rooms[t.room], Cancel(rooms[t.room]))
              /\ Cancel(rooms[t.room]).phase = "ORDER_CANCELED"
            BY <1>1, <2>2, OrderMethodsSeen
        <3> QED BY <2>2, <2>4, <3>1, <3>2, OrderSeen DEF RunReset
    <2>5. CASE FailTask(t)
        BY <2>5 DEF FailTask, Seen, Life!vars
    <2> QED BY <2>1, <2>3, <2>4, <2>5
<1>5. CASE VoteStep
    BY <1>5 DEF VoteStep, CreateKickVote, CreateResetVote, DoVote, Seen, Life!vars
<1>6. CASE UNCHANGED vars
    BY <1>6 DEF vars, Seen, Life!vars
<1> QED BY <1>2, <1>3, <1>4, <1>5, <1>6 DEF Next

\* RoomService implements RoomLife.
THEOREM RoomServiceImplementsRoomLife == Spec => ImplementsRoomLife
<1>1. Init => Life!Init
    <2>1. LifeOf("none") = "none" /\ NoRoom.phase = "none" /\ NoRoom.blackList = {}
          /\ CurrentParticipants(NoRoom) = {}
        BY LifeOfIs DEF NoRoom, CurrentParticipants, ParticipantRoles
    <2> QED BY <2>1 DEF Init, Life!Init
<1>2. TypeOK /\ RoomsInv /\ [Next]_vars => [Life!Next]_(Life!vars)
    BY SeenStep DEF Seen
<1> QED BY <1>1, <1>2, TypeCorrect, RoomsStaySound, PTL DEF Spec, ImplementsRoomLife, Life!Spec

-----------------------------------------------------------------------------
(* What happens to an order under way                                      *)

\* A started call has the vote it comes from in the tables, passed by every voter:
\* the id of a finished vote serves for another one only when its call is through.
CallsCarried ==
    \A t \in tasks : Exists(rooms[t.room]) =>
        \E v \in Votes : TaskOf(votes[v]) = t /\ votes[v].finished /\ Unanimous(v)

LEMMA SaveCarries ==
    ASSUME TypeOK, CallsCarried, NEW r \in Rooms, NEW rm, Save(r, rm),
           \/ Exists(rm) => Exists(rooms[r])
           \/ \A t \in tasks : t.room # r,
           votes' = votes, tasks' \subseteq tasks
    PROVE  CallsCarried'
<1>1. rooms'[r] = rm /\ \A q \in Rooms \ {r} : rooms'[q] = rooms[q]
    BY DEF TypeOK, Save
<1>2. \A t \in tasks : t.room \in Rooms
    BY DEF TypeOK, Task
<1> QED BY <1>1, <1>2 DEF CallsCarried, Exists, Unanimous

LEMMA RemoveCarries ==
    ASSUME TypeOK, CallsCarried, NEW r \in Rooms, Remove(r), tasks' = tasks
    PROVE  CallsCarried'
<1> SUFFICES ASSUME NEW t \in tasks, Exists(rooms'[t.room])
             PROVE  \E v \in Votes : /\ TaskOf(votes'[v]) = t /\ votes'[v].finished
                                     /\ Unanimous(v)'
    BY DEF CallsCarried, Exists
<1>1. t.room \in Rooms
    BY DEF TypeOK, Task
<1>2. rooms'[r].phase = "none" /\ \A q \in Rooms \ {r} : rooms'[q] = rooms[q]
    BY DEF TypeOK, Remove, Save, NoRoom
<1>3. t.room # r /\ Exists(rooms[t.room])
    BY <1>1, <1>2 DEF Exists
<1>4. PICK v \in Votes : TaskOf(votes[v]) = t /\ votes[v].finished /\ Unanimous(v)
    BY <1>3 DEF CallsCarried
<1>5. votes'[v] = votes[v]
    BY <1>3, <1>4 DEF TaskOf, Remove
<1> QED BY <1>4, <1>5 DEF Unanimous

LEMMA CreateVoteCarries ==
    ASSUME TypeOK, CallsCarried, NEW v \in Votes, NEW row, FreeVote(v),
           votes' = [votes EXCEPT ![v] = row], UNCHANGED <<rooms, tasks>>
    PROVE  CallsCarried'
<1> SUFFICES ASSUME NEW t \in tasks, Exists(rooms[t.room])
             PROVE  \E w \in Votes : /\ TaskOf(votes'[w]) = t /\ votes'[w].finished
                                     /\ Unanimous(w)'
    BY DEF CallsCarried, Exists
<1>1. PICK w \in Votes : TaskOf(votes[w]) = t /\ votes[w].finished /\ Unanimous(w)
    BY DEF CallsCarried
<1>2. t.kind # "none"
    BY DEF TypeOK, Task
<1>3. w # v
    BY <1>1, <1>2 DEF FreeVote, TaskOf
<1>4. votes'[w] = votes[w]
    BY <1>3 DEF TypeOK
<1> QED BY <1>1, <1>4 DEF Unanimous

LEMMA DoVoteCarries ==
    ASSUME TypeOK, CallsCarried, NEW u \in Users, NEW v \in Votes,
           NEW opinion \in {"agree", "disagree"}, DoVote(u, v, opinion)
    PROVE  CallsCarried'
<1> PICK after : after = Submit(votes[v], u, opinion)
    OBVIOUS
<1>1. /\ ~votes[v].finished /\ votes' = [votes EXCEPT ![v] = after]
      /\ tasks' = IF after.result THEN tasks \cup {TaskOf(after)} ELSE tasks
      /\ rooms' = rooms
    BY DEF DoVote
<1>2. votes'[v] = after /\ \A w \in Votes \ {v} : votes'[w] = votes[w]
    BY <1>1 DEF TypeOK
<1>3. ASSUME NEW t \in tasks, Exists(rooms[t.room])
      PROVE  \E w \in Votes : /\ TaskOf(votes'[w]) = t /\ votes'[w].finished
                              /\ Unanimous(w)'
    <2>1. PICK w \in Votes : TaskOf(votes[w]) = t /\ votes[w].finished /\ Unanimous(w)
        BY <1>3 DEF CallsCarried
    <2>2. votes'[w] = votes[w]
        BY <1>1, <1>2, <2>1
    <2> QED BY <2>1, <2>2 DEF Unanimous
<1>4. ASSUME after.result
      PROVE  after.finished /\ Unanimous(v)'
    <2>1. votes[v] \in Vote
        BY DEF TypeOK, DoVote, NoVote
    <2>2. IsSubmitted(votes[v], u, opinion, after)
        BY <2>1, SubmitIs
    <2>3. Passed(after) /\ after.finished
        BY <1>4, <2>2 DEF IsSubmitted, Passed, Voters
    <2> QED BY <1>2, <1>4, <2>3 DEF Unanimous
<1> QED BY <1>1, <1>2, <1>3, <1>4 DEF CallsCarried, Exists

LEMMA CallsCarriedStep ==
    ASSUME TypeOK, RoomsInv, CallsCarried, [Next]_vars
    PROVE  CallsCarried'
<1>1. \A r \in Rooms : rooms[r] \in Room
    BY DEF TypeOK
<1>2. ASSUME NEW r \in Rooms, NEW rm, Save(r, rm), Exists(rm) => Exists(rooms[r]),
             votes' = votes, tasks' \subseteq tasks
      PROVE  CallsCarried'
    BY <1>2, SaveCarries
<1>3. CASE ParticipantStep
    <2>1. PICK r \in Rooms, u \in Users :
            \/ CreateRoom(u, r)
            \/ JoinRoom(u, r)
            \/ LeaveRoom(u, r)
            \/ \E target \in Users : KickByPurchaser(u, target, r)
            \/ \E ready \in BOOLEAN : ToggleReady(u, r, ready)
            \/ AddMenuTo(u, r)
            \/ DeleteMenuOf(u, r)
        BY <1>3 DEF ParticipantStep
    <2>2. CASE CreateRoom(u, r)
        BY <2>2, SaveCarries DEF CreateRoom
    <2>3. CASE JoinRoom(u, r)
        BY <1>2, <2>3, SavesAre DEF JoinRoom, JoinAllowed, Exists, Open
    <2>4. CASE LeaveRoom(u, r)
        <3>1. Exists(rooms[r])
            BY <2>4 DEF LeaveRoom, LeaveAllowed, Exists, Open, Closed
        <3> QED BY <1>2, <2>4, <3>1, SavesAre, RemoveCarries DEF LeaveRoom
    <2>5. ASSUME NEW target \in Users, KickByPurchaser(u, target, r) PROVE CallsCarried'
        BY <1>2, <2>5, SavesAre DEF KickByPurchaser, KickAllowed
    <2>6. ASSUME NEW ready \in BOOLEAN, ToggleReady(u, r, ready) PROVE CallsCarried'
        BY <1>2, <2>6, SavesAre DEF ToggleReady, ReadyAvailable, Exists, Open
    <2>7. CASE AddMenuTo(u, r) \/ DeleteMenuOf(u, r)
        <3>1. /\ AddMenu(rooms[r], u).phase = rooms[r].phase
              /\ DeleteMenu(rooms[r], u).phase = rooms[r].phase
            BY <1>1, QuietSeen
        <3> QED BY <1>2, <2>7, <3>1 DEF AddMenuTo, DeleteMenuOf, Exists
    <2> QED BY <2>1, <2>2, <2>3, <2>4, <2>5, <2>6, <2>7
<1>4. CASE OrderStep
    <2>1. PICK r \in Rooms, u \in Users :
            \/ FixOrderOf(u, r)
            \/ UploadOrderImages(u, r)
            \/ \E amount \in Tips : CheckOrderOf(u, r, amount)
            \/ DoneOrderOf(u, r)
        BY <1>4 DEF OrderStep
    <2>2. UploadScreenShot(rooms[r]).phase = rooms[r].phase
        BY <1>1, <2>1, QuietSeen
    <2> QED BY <1>2, <2>1, <2>2
            DEF FixOrderOf, UploadOrderImages, CheckOrderOf, DoneOrderOf, CheckOrderAllowed,
                CanTransitionTo, Exists
<1>5. CASE VoteStep
    BY <1>5, CreateVoteCarries, DoVoteCarries
    DEF VoteStep, CreateKickVote, CreateResetVote
<1>6. CASE TaskStep
    <2>1. PICK t \in tasks : RunKick(t) \/ RunReset(t) \/ FailTask(t)
        BY <1>6 DEF TaskStep, RunTask
    <2>2. t.room \in Rooms
        BY DEF TypeOK, Task
    <2>3. CASE RunKick(t)
        BY <1>2, <2>2, <2>3, SavesAre DEF RunKick, KickAllowed
    <2>4. CASE RunReset(t)
        BY <1>2, <2>2, <2>4 DEF RunReset
    <2>5. CASE FailTask(t)
        BY <2>5 DEF FailTask, CallsCarried, Unanimous
    <2> QED BY <2>1, <2>3, <2>4, <2>5
<1>7. CASE UNCHANGED vars
    BY <1>7 DEF vars, CallsCarried, Unanimous
<1> QED BY <1>3, <1>4, <1>5, <1>6, <1>7 DEF Next

LEMMA CallsAlwaysCarried == Spec => []CallsCarried
<1>1. Init => CallsCarried
    BY DEF Init, CallsCarried
<1> QED BY <1>1, CallsCarriedStep, TypeCorrect, RoomsStaySound, PTL DEF Spec

\* An order under way keeps its participants and goes forward.
GoesOn(rm, new) ==
    /\ CurrentParticipants(new) = CurrentParticipants(rm)
    /\ \/ new.phase = rm.phase
       \/ rm.phase = "ORDER_FIX" /\ new.phase = "ORDER_CHECK"
       \/ rm.phase = "ORDER_CHECK" /\ new.phase = "ORDER_DONE"

\* Or a call that a vote started puts its target out or cancels the order.
IsVotedOn(t, rm, new) ==
    \/ /\ t.kind = "KICK" /\ new.phase = rm.phase
       /\ CurrentParticipants(new) = CurrentParticipants(rm) \ {t.target}
    \/ /\ t.kind = "RESET" /\ new.phase = "ORDER_CANCELED"
       /\ CurrentParticipants(new) = CurrentParticipants(rm)

LEMMA UnderwayStep ==
    ASSUME TypeOK, RoomsInv, [Next]_vars, NEW r \in Rooms, rooms[r].phase \in Ordering
    PROVE  \/ GoesOn(rooms[r], rooms'[r])
           \/ \E t \in tasks : t.room = r /\ IsVotedOn(t, rooms[r], rooms'[r])
<1> DEFINE Goal == \/ GoesOn(rooms[r], rooms'[r])
                   \/ \E t \in tasks : t.room = r /\ IsVotedOn(t, rooms[r], rooms'[r])
<1>1. rooms[r] \in Room
    BY DEF TypeOK
<1>2. ASSUME NEW q \in Rooms, NEW rm, Save(q, rm) PROVE q # r => Goal
    BY <1>2 DEF TypeOK, Save, GoesOn
<1>3. ASSUME NEW rm, Save(r, rm) PROVE rooms'[r] = rm
    BY <1>3 DEF TypeOK, Save
<1>4. CASE UNCHANGED rooms
    BY <1>4 DEF GoesOn
<1>5. CASE ParticipantStep
    <2>1. PICK q \in Rooms, u \in Users :
            \/ CreateRoom(u, q)
            \/ JoinRoom(u, q)
            \/ LeaveRoom(u, q)
            \/ \E target \in Users : KickByPurchaser(u, target, q)
            \/ \E ready \in BOOLEAN : ToggleReady(u, q, ready)
            \/ AddMenuTo(u, q)
            \/ DeleteMenuOf(u, q)
        BY <1>5 DEF ParticipantStep
    <2>2. \E rm : Save(q, rm)
        BY <2>1, SavesAre DEF CreateRoom, JoinRoom, LeaveRoom, KickByPurchaser, ToggleReady,
                              AddMenuTo, DeleteMenuOf
    <2>3. CASE q = r
        <3>1. AddMenuTo(u, r) \/ DeleteMenuOf(u, r)
            BY <2>1, <2>3 DEF CreateRoom, JoinRoom, JoinAllowed, LeaveRoom, LeaveAllowed,
                              KickByPurchaser, KickAllowed, ToggleReady, ReadyAvailable,
                              Exists, Open, Ordering, Closed
        <3>2. rooms'[r] \in {AddMenu(rooms[r], u), DeleteMenu(rooms[r], u)}
            BY <1>3, <3>1 DEF AddMenuTo, DeleteMenuOf
        <3> QED BY <1>1, <3>2, QuietSeen DEF GoesOn, SameMembers
    <2> QED BY <1>2, <2>2, <2>3
<1>6. CASE OrderStep
    <2>1. PICK q \in Rooms, u \in Users :
            \/ FixOrderOf(u, q)
            \/ UploadOrderImages(u, q)
            \/ \E amount \in Tips : CheckOrderOf(u, q, amount)
            \/ DoneOrderOf(u, q)
        BY <1>6 DEF OrderStep
    <2>2. \E rm : Save(q, rm)
        BY <2>1 DEF FixOrderOf, UploadOrderImages, CheckOrderOf, DoneOrderOf
    <2>3. CASE FixOrderOf(u, r)
        <3>1. rooms'[r] = FixOrder(rooms[r]) /\ rooms[r].phase = "ORDER_FIX"
            BY <1>1, <1>3, <2>3, PhaseBefore DEF FixOrderOf, Ordering
        <3> QED BY <1>1, <3>1, OrderMethodsSeen DEF GoesOn, SameMembers
    <2>4. CASE UploadOrderImages(u, r)
        <3>1. rooms'[r] = UploadScreenShot(rooms[r])
            BY <1>3, <2>4 DEF UploadOrderImages
        <3> QED BY <1>1, <3>1, QuietSeen DEF GoesOn, SameMembers
    <2>5. ASSUME NEW amount \in Tips, CheckOrderOf(u, r, amount) PROVE Goal
        <3>1. rooms'[r] = CheckOrder(rooms[r], amount) /\ amount \in Int
            BY <1>3, <2>5, ServiceAssumption DEF CheckOrderOf
        <3> QED BY <1>1, <3>1, OrderMethodsSeen DEF GoesOn, SameMembers, Ordering
    <2>6. CASE DoneOrderOf(u, r)
        <3>1. rooms'[r] = DoneOrder(rooms[r]) /\ rooms[r].phase = "ORDER_CHECK"
            BY <1>1, <1>3, <2>6, PhaseBefore DEF DoneOrderOf, Ordering
        <3> QED BY <1>1, <3>1, OrderMethodsSeen DEF GoesOn, SameMembers
    <2> QED BY <1>2, <2>1, <2>2, <2>3, <2>4, <2>5, <2>6
<1>7. CASE TaskStep
    <2>1. PICK t \in tasks : RunKick(t) \/ RunReset(t) \/ FailTask(t)
        BY <1>7 DEF TaskStep, RunTask
    <2>2. t.room \in Rooms /\ (t.kind = "KICK" => t.target \in Users)
        BY DEF TypeOK, Task
    <2>3. CASE RunKick(t)
        <3>1. Save(t.room, KickUser(rooms[t.room], t.target)) /\ t.kind = "KICK"
            BY <2>3, SavesAre DEF RunKick
        <3>2. CASE t.room = r
            <4>1. rooms'[r] = KickUser(rooms[r], t.target)
                BY <1>3, <3>1, <3>2
            <4>2. rooms'[r].phase = rooms[r].phase
                BY <1>1, <2>2, <3>1, <4>1, PhaseAfter DEF Open, Ordering
            <4> QED BY <1>1, <2>2, <3>1, <3>2, <4>1, <4>2, KickUserSeen DEF IsVotedOn
        <3> QED BY <1>2, <2>2, <3>1, <3>2
    <2>4. CASE RunReset(t)
        <3>1. Save(t.room, Cancel(rooms[t.room])) /\ t.kind = "RESET"
            BY <2>4 DEF RunReset
        <3>2. CASE t.room = r
            <4>1. rooms'[r] = Cancel(rooms[r])
                BY <1>3, <3>1, <3>2
            <4> QED BY <1>1, <3>1, <3>2, <4>1, OrderMethodsSeen DEF IsVotedOn, SameMembers
        <3> QED BY <1>2, <2>2, <3>1, <3>2
    <2>5. CASE FailTask(t)
        BY <1>4, <2>5 DEF FailTask
    <2> QED BY <2>1, <2>3, <2>4, <2>5
<1>8. VoteStep => UNCHANGED rooms
    BY DEF VoteStep, CreateKickVote, CreateResetVote, DoVote
<1> QED BY <1>4, <1>5, <1>6, <1>7, <1>8 DEF Next, vars

\* The vote behind a call about an order under way.
LEMMA VotedFor ==
    ASSUME CallsCarried, NEW t \in tasks, rooms[t.room].phase \in Ordering
    PROVE  \E v \in Votes : /\ votes[v].kind = t.kind /\ votes[v].room = t.room
                            /\ votes[v].target = t.target /\ Unanimous(v)
BY DEF CallsCarried, Exists, Ordering, TaskOf

\* While the order is under way nobody comes, and nobody goes whom no unanimous
\* vote put out.
THEOREM OrderOnlyLosesMembersByVote == Spec => OrderLosesMembersByVoteOnly
<1> DEFINE Kept(r) ==
        rooms[r].phase \in Ordering =>
            LET before == CurrentParticipants(rooms[r])
                after == CurrentParticipants(rooms'[r])
            IN  /\ after \subseteq before
                /\ \A u \in before \ after : \E v \in Votes :
                      /\ votes[v].kind = "KICK" /\ votes[v].room = r
                      /\ votes[v].target = u /\ Unanimous(v)
<1>1. TypeOK /\ RoomsInv /\ CallsCarried /\ [Next]_vars => \A r \in Rooms : Kept(r)
    <2> SUFFICES ASSUME TypeOK, RoomsInv, CallsCarried, [Next]_vars, NEW r \in Rooms,
                        rooms[r].phase \in Ordering
                 PROVE  Kept(r)
        OBVIOUS
    <2>1. CASE GoesOn(rooms[r], rooms'[r])
        BY <2>1 DEF GoesOn
    <2>2. ASSUME NEW t \in tasks, t.room = r, IsVotedOn(t, rooms[r], rooms'[r])
          PROVE  Kept(r)
        BY <2>2, VotedFor DEF IsVotedOn
    <2> QED BY <2>1, <2>2, UnderwayStep
<1> QED BY <1>1, TypeCorrect, RoomsStaySound, CallsAlwaysCarried, PTL
        DEF Spec, OrderLosesMembersByVoteOnly

\* An order under way goes forward, or a unanimous reset vote cancels it.
THEOREM OrderAlwaysEndsDoneOrByReset == Spec => OrderEndsDoneOrByReset
<1> DEFINE Ends(r) ==
        rooms[r].phase \in Ordering =>
            \/ rooms'[r].phase = rooms[r].phase
            \/ rooms[r].phase = "ORDER_FIX" /\ rooms'[r].phase = "ORDER_CHECK"
            \/ rooms[r].phase = "ORDER_CHECK" /\ rooms'[r].phase = "ORDER_DONE"
            \/ /\ rooms'[r].phase = "ORDER_CANCELED"
               /\ \E v \in Votes : /\ votes[v].kind = "RESET"
                                   /\ votes[v].room = r /\ Unanimous(v)
<1>1. TypeOK /\ RoomsInv /\ CallsCarried /\ [Next]_vars => \A r \in Rooms : Ends(r)
    <2> SUFFICES ASSUME TypeOK, RoomsInv, CallsCarried, [Next]_vars, NEW r \in Rooms,
                        rooms[r].phase \in Ordering
                 PROVE  Ends(r)
        OBVIOUS
    <2>1. CASE GoesOn(rooms[r], rooms'[r])
        BY <2>1 DEF GoesOn
    <2>2. ASSUME NEW t \in tasks, t.room = r, IsVotedOn(t, rooms[r], rooms'[r])
          PROVE  Ends(r)
        BY <2>2, VotedFor DEF IsVotedOn
    <2> QED BY <2>1, <2>2, UnderwayStep
<1> QED BY <1>1, TypeCorrect, RoomsStaySound, CallsAlwaysCarried, PTL
        DEF Spec, OrderEndsDoneOrByReset

-----------------------------------------------------------------------------
(* Sums over finite sets                                                   *)

\* Among sets of subsets of a finite set there is one that has none below it: what
\* holds of a finite set if it holds of all smaller ones holds of all.
LEMMA MinimalSet ==
    ASSUME NEW S, IsFiniteSet(S), NEW C \in SUBSET SUBSET S, C # {}
    PROVE  \E T \in C : \A U \in C : U \subseteq T => U = T
<1>1. IsWellFoundedOn(StrictSubsetOrdering(S), SUBSET S)
    BY FS_StrictSubsetOrderingWellFounded, FS_FiniteSubsetsOfFinite
<1>2. PICK T \in C : \A U \in C : ~(<<U, T>> \in StrictSubsetOrdering(S))
    BY <1>1, WFMin
<1> QED BY <1>2 DEF StrictSubsetOrdering

\* The function MapThenSumSet computes, one element at a time.
Adds(f, S, sum) ==
    sum = [s \in SUBSET S |->
              IF s = {} THEN 0
              ELSE f[CHOOSE x \in s : TRUE] + sum[s \ {CHOOSE x \in s : TRUE}]]

LEMMA SumIs ==
    ASSUME NEW f, NEW S
    PROVE  MapThenSumSet(LAMBDA x : f[x], S) = (CHOOSE sum : Adds(f, S, sum))[S]
BY DEF MapThenSumSet, MapThenFoldSet, Adds

\* What adds up like the sum is the sum.
LEMMA SumIsUnique ==
    ASSUME NEW f, NEW S, IsFiniteSet(S), NEW g, Adds(f, S, g)
    PROVE  MapThenSumSet(LAMBDA x : f[x], S) = g[S]
<1> DEFINE first(s) == CHOOSE x \in s : TRUE
<1>1. \A s \in SUBSET S : s # {} => first(s) \in s
    OBVIOUS
<1> HIDE DEF first
<1>2. PICK sum : Adds(f, S, sum) /\ sum = CHOOSE h : Adds(f, S, h)
    OBVIOUS
<1>3. \A s \in SUBSET S :
        sum[s] = IF s = {} THEN 0 ELSE f[first(s)] + sum[s \ {first(s)}]
    BY <1>2 DEF Adds, first
<1>4. \A s \in SUBSET S :
        g[s] = IF s = {} THEN 0 ELSE f[first(s)] + g[s \ {first(s)}]
    BY DEF Adds, first
<1> PICK wrong : wrong = {s \in SUBSET S : sum[s] # g[s]}
    OBVIOUS
<1>5. CASE wrong # {}
    <2>1. PICK s \in wrong : \A t \in wrong : t \subseteq s => t = s
        BY <1>5, MinimalSet
    <2>2. s # {}
        BY <1>3, <1>4, <2>1
    <2>3. sum[s \ {first(s)}] = g[s \ {first(s)}]
        BY <1>1, <2>1, <2>2
    <2> QED BY <1>3, <1>4, <2>1, <2>2, <2>3
<1>6. CASE wrong = {}
    BY <1>2, <1>6, SumIs
<1> QED BY <1>5, <1>6

\* As many as f[x] for each x of S.
Units(f, S) == UNION {{x} \X (1..f[x]) : x \in S}

LEMMA IntervalSize ==
    ASSUME NEW n \in Nat
    PROVE  IsFiniteSet(1..n) /\ Cardinality(1..n) = n
BY FS_Interval

LEMMA UnitsAdd ==
    ASSUME NEW f, NEW s, NEW x \in s, f[x] \in Nat, IsFiniteSet(Units(f, s \ {x}))
    PROVE  /\ IsFiniteSet(Units(f, s))
           /\ Cardinality(Units(f, s)) = f[x] + Cardinality(Units(f, s \ {x}))
<1> PICK own : own = {x} \X (1..f[x])
    OBVIOUS
<1> PICK rest : rest = Units(f, s \ {x})
    OBVIOUS
<1>1. Units(f, s) = rest \cup own
    BY DEF Units
<1>2. rest \cap own = {}
    BY DEF Units
<1>3. IsFiniteSet(own) /\ Cardinality(own) = f[x]
    <2>1. IsFiniteSet(1..f[x]) /\ Cardinality(1..f[x]) = f[x]
        BY IntervalSize
    <2>2. IsFiniteSet({x}) /\ Cardinality({x}) = 1
        BY FS_Singleton
    <2>3. IsFiniteSet(own) /\ Cardinality(own) = Cardinality({x}) * Cardinality(1..f[x])
        BY <2>1, <2>2, FS_Product
    <2> QED BY <2>1, <2>2, <2>3
<1>4. /\ IsFiniteSet(rest \cup own)
      /\ Cardinality(rest \cup own)
            = Cardinality(rest) + Cardinality(own) - Cardinality(rest \cap own)
    BY <1>3, FS_Union
<1>5. Cardinality(rest \cap own) = 0 /\ Cardinality(rest) \in Nat
    BY <1>2, FS_EmptySet, FS_CardinalityType
<1> QED BY <1>1, <1>3, <1>4, <1>5

\* A sum of natural numbers counts their units: it is a natural number.
LEMMA SumCounts ==
    ASSUME NEW f, NEW S, IsFiniteSet(S), \A x \in S : f[x] \in Nat
    PROVE  /\ MapThenSumSet(LAMBDA x : f[x], S) = Cardinality(Units(f, S))
           /\ IsFiniteSet(Units(f, S))
<1> DEFINE first(s) == CHOOSE x \in s : TRUE
           count == [s \in SUBSET S |-> Cardinality(Units(f, s))]
<1>1. \A s \in SUBSET S : s # {} => first(s) \in s
    OBVIOUS
<1> HIDE DEF first
<1>2. Units(f, {}) = {} /\ IsFiniteSet({}) /\ Cardinality({}) = 0
    BY FS_EmptySet DEF Units
<1> PICK wrong : wrong = {s \in SUBSET S : ~IsFiniteSet(Units(f, s))}
    OBVIOUS
<1>3. wrong = {}
    <2> SUFFICES ASSUME wrong # {} PROVE FALSE
        OBVIOUS
    <2>1. PICK s \in wrong : \A t \in wrong : t \subseteq s => t = s
        BY MinimalSet
    <2>2. s # {}
        BY <1>2, <2>1
    <2>3. first(s) \in s /\ s \ {first(s)} \notin wrong
        BY <1>1, <2>1, <2>2
    <2>4. IsFiniteSet(Units(f, s \ {first(s)})) /\ f[first(s)] \in Nat
        BY <2>1, <2>3
    <2> QED BY <2>1, <2>3, <2>4, UnitsAdd
<1>4. Adds(f, S, count)
    <2>1. ASSUME NEW s \in SUBSET S
          PROVE  count[s] = IF s = {} THEN 0
                            ELSE f[first(s)] + count[s \ {first(s)}]
        <3>1. CASE s # {}
            <4>1. /\ first(s) \in s /\ f[first(s)] \in Nat
                  /\ IsFiniteSet(Units(f, s \ {first(s)}))
                BY <1>1, <1>3, <3>1
            <4> PICK x : x = first(s)
                OBVIOUS
            <4>2. Cardinality(Units(f, s)) = f[x] + Cardinality(Units(f, s \ {x}))
                BY <4>1, UnitsAdd
            <4>3. s \ {x} \in SUBSET S
                OBVIOUS
            <4> QED BY <3>1, <4>2, <4>3
        <3> QED BY <1>2, <3>1
    <2> HIDE DEF count
    <2>2. count = [s \in SUBSET S |-> count[s]]
        BY DEF count
    <2> QED BY <2>1, <2>2 DEF Adds, first
<1>5. MapThenSumSet(LAMBDA x : f[x], S) = count[S]
    <2> HIDE DEF count
    <2> QED BY <1>4, SumIsUnique
<1> QED BY <1>3, <1>5

\* A sum of equal numbers is a product.
LEMMA SumOfShares ==
    ASSUME NEW f, NEW S, IsFiniteSet(S), NEW c \in Int, \A x \in S : f[x] = c
    PROVE  MapThenSumSet(LAMBDA x : f[x], S) = c * Cardinality(S)
<1> DEFINE first(s) == CHOOSE x \in s : TRUE
           product == [s \in SUBSET S |-> c * Cardinality(s)]
<1>1. ASSUME NEW s \in SUBSET S, s # {}
      PROVE  /\ first(s) \in s /\ f[first(s)] = c /\ s \ {first(s)} \in SUBSET S
             /\ c * Cardinality(s) = c + c * Cardinality(s \ {first(s)})
    <2>1. first(s) \in s
        BY <1>1
    <2>2. IsFiniteSet(s)
        BY FS_Subset
    <2> HIDE DEF first
    <2>3. /\ Cardinality(s) \in Nat /\ Cardinality(s \ {first(s)}) \in Nat
          /\ Cardinality(s) = Cardinality(s \ {first(s)}) + 1
        <3>1. /\ IsFiniteSet(s \ {first(s)})
              /\ Cardinality(s \ {first(s)}) = Cardinality(s) - 1
            BY <2>1, <2>2, FS_RemoveElement
        <3>2. Cardinality(s) \in Nat /\ Cardinality(s \ {first(s)}) \in Nat
            BY <2>2, <3>1, FS_CardinalityType
        <3> QED BY <3>1, <3>2
    <2>4. PICK n \in Nat : n = Cardinality(s \ {first(s)})
        BY <2>3
    <2>5. c * (n + 1) = c + c * n
        OBVIOUS
    <2>6. c * Cardinality(s) = c + c * Cardinality(s \ {first(s)})
        BY <2>3, <2>4, <2>5
    <2>7. f[first(s)] = c /\ s \ {first(s)} \in SUBSET S
        BY <2>1
    <2> QED BY <2>1, <2>6, <2>7
<1>2. c * Cardinality({}) = 0
    BY FS_EmptySet
<1> HIDE DEF first
<1>3. Adds(f, S, product)
    <2>1. ASSUME NEW s \in SUBSET S
          PROVE  product[s] = IF s = {} THEN 0
                              ELSE f[first(s)] + product[s \ {first(s)}]
        BY <1>1, <1>2
    <2> HIDE DEF product
    <2>2. product = [s \in SUBSET S |-> product[s]]
        BY DEF product
    <2> QED BY <2>1, <2>2 DEF Adds, first
<1>4. MapThenSumSet(LAMBDA x : f[x], S) = product[S]
    <2> HIDE DEF product
    <2> QED BY <1>3, SumIsUnique
<1> QED BY <1>4
-----------------------------------------------------------------------------
(* The tip is shared                                                       *)

PurchaserIsIn(rm) ==
    \A u \in Users : rm.role[u] = "purchaser" => u \in CurrentParticipants(rm)

\* Each share is the tip divided by the number of those who have one.
SharesAreEqual(rm) ==
    /\ CurrentParticipants(rm) \subseteq Holders(rm)
    /\ Holders(rm) # {}
    /\ \A u \in Holders(rm) : rm.tip[u] = rm.deliveryTip \div Cardinality(Holders(rm))

\* Nobody has a share before checkOrder, which finds the purchaser in the room and
\* runs once, since it leaves an account.
TipsInv(rm) ==
    /\ rm.phase \in Open \cup {"ORDER_FIX"} => Holders(rm) = {}
    /\ rm.phase \in Ordering => PurchaserIsIn(rm)
    /\ rm.phase = "ORDER_CHECK" => rm.account
    /\ rm.phase \in {"ORDER_CHECK", "ORDER_DONE"} => SharesAreEqual(rm)

AllTipsInv == \A r \in Rooms : TipsInv(rooms[r])

LEMMA SharesMakeTheTip ==
    ASSUME NEW rm \in Room, SharesAreEqual(rm)
    PROVE  LET total == MapThenSumSet(LAMBDA u : rm.tip[u], Holders(rm))
           IN  /\ total <= rm.deliveryTip
               /\ rm.deliveryTip < total + Cardinality(Holders(rm))
<1>1. IsFiniteSet(Holders(rm))
    BY UsersAssumption, FS_Subset DEF Holders
<1>2. PICK n \in Nat : n = Cardinality(Holders(rm)) /\ n # 0
    BY <1>1, FS_EmptySet, FS_CardinalityType DEF SharesAreEqual
<1>3. PICK tip \in Int : tip = rm.deliveryTip
    BY DEF Room
<1>4. PICK c \in Int : c = tip \div n
    BY <1>2
<1>5. c * n <= tip /\ tip < c * n + n
    BY <1>2, <1>4
<1>6. \A u \in Holders(rm) : rm.tip[u] = c
    BY <1>2, <1>3, <1>4 DEF SharesAreEqual
<1>7. MapThenSumSet(LAMBDA u : rm.tip[u], Holders(rm)) = c * Cardinality(Holders(rm))
    BY <1>1, <1>6, SumOfShares
<1> QED BY <1>2, <1>3, <1>5, <1>7

SameShares(rm, new) ==
    /\ new.tip = rm.tip
    /\ new.deliveryTip = rm.deliveryTip
    /\ new.account = rm.account

SamePhase(rm, new) ==
    new.phase = rm.phase \/ (rm.phase \in Open /\ new.phase \in Open)

LEMMA UpdateAllReadyStateShares ==
    ASSUME NEW rm \in Room
    PROVE  /\ SameShares(rm, UpdateAllReadyState(rm))
           /\ SamePhase(rm, UpdateAllReadyState(rm))
BY DEF UpdateAllReadyState, SameShares, SamePhase, Room, Open

LEMMA ParticipantMethodsShares ==
    ASSUME NEW rm \in Room, NEW u \in Users, NEW ready \in BOOLEAN,
           NEW new \in {Join(rm, u), Leave(rm, u), KickUser(rm, u),
                        SetReady(rm, u, ready), AddMenu(rm, u), DeleteMenu(rm, u),
                        UploadScreenShot(rm)}
    PROVE  SameShares(rm, new) /\ SamePhase(rm, new)
<1>1. ASSUME NEW with \in Room, SameShares(rm, with), with.phase = rm.phase
      PROVE  /\ SameShares(rm, UpdateAllReadyState(with))
             /\ SamePhase(rm, UpdateAllReadyState(with))
    BY <1>1, UpdateAllReadyStateShares DEF SameShares, SamePhase
<1>2. CASE new = Join(rm, u)
    <2> PICK with : with = [rm EXCEPT !.role[u] = "member", !.state[u] = "joined"]
        OBVIOUS
    <2>1. with \in Room /\ SameShares(rm, with) /\ with.phase = rm.phase
        BY DEF Room, Roles, States, SameShares
    <2> QED BY <1>1, <1>2, <2>1 DEF Join
<1>3. CASE new = Leave(rm, u)
    <2> PICK with : with = [rm EXCEPT !.state[u] = "left"]
        OBVIOUS
    <2>1. with \in Room /\ SameShares(rm, with) /\ with.phase = rm.phase
        BY DEF Room, States, SameShares
    <2> QED BY <1>1, <1>3, <2>1 DEF Leave
<1>4. CASE new = KickUser(rm, u)
    <2> PICK with : with = [rm EXCEPT !.blackList = @ \cup {u},
                                      !.role[u] = "banned", !.state[u] = "kicked"]
        OBVIOUS
    <2>1. with \in Room /\ SameShares(rm, with) /\ with.phase = rm.phase
        BY DEF Room, Roles, States, SameShares
    <2> QED BY <1>1, <1>4, <2>1 DEF KickUser
<1>5. CASE new = SetReady(rm, u, ready)
    <2> PICK with : with = [rm EXCEPT !.isReady[u] = ready]
        OBVIOUS
    <2>1. with \in Room /\ SameShares(rm, with) /\ with.phase = rm.phase
        BY DEF Room, SameShares
    <2> QED BY <1>1, <1>5, <2>1 DEF SetReady
<1>6. CASE new \in {AddMenu(rm, u), DeleteMenu(rm, u), UploadScreenShot(rm)}
    BY <1>6 DEF AddMenu, DeleteMenu, UploadScreenShot, Room, SameShares, SamePhase
<1> QED BY <1>2, <1>3, <1>4, <1>5, <1>6

\* In a room whose shares are left alone they stay right when nobody comes in any
\* more and the phase does not go back.
LEMMA TipsKept ==
    ASSUME NEW rm \in Room, NEW new \in Room, TipsInv(rm), SameShares(rm, new),
           \/ SamePhase(rm, new)
           \/ rm.phase \in Open \cup {"ORDER_FIX"} /\ new.phase = "ORDER_FIX"
           \/ rm.phase \in {"ORDER_CHECK", "ORDER_DONE"} /\ new.phase = "ORDER_DONE"
           \/ new.phase = "ORDER_CANCELED",
           \/ rm.phase \in Open
           \/ CurrentParticipants(new) \subseteq CurrentParticipants(rm),
           new.phase \in Ordering => PurchaserIsIn(new)
    PROVE  TipsInv(new)
<1>1. Holders(new) = Holders(rm)
    BY DEF Holders, SameShares
<1>2. /\ new.phase \in Open \cup {"ORDER_FIX"} => rm.phase \in Open \cup {"ORDER_FIX"}
      /\ new.phase = "ORDER_CHECK" => rm.phase = "ORDER_CHECK"
      /\ new.phase \in {"ORDER_CHECK", "ORDER_DONE"} =>
            rm.phase \in {"ORDER_CHECK", "ORDER_DONE"}
    BY DEF SamePhase, Open
<1>3. rm.phase \in {"ORDER_CHECK", "ORDER_DONE"} => rm.phase \notin Open
    BY DEF Open
<1> QED BY <1>1, <1>2, <1>3 DEF TipsInv, SharesAreEqual, SameShares

LEMMA CheckOrderShares ==
    ASSUME NEW rm \in Room, NEW amount \in Int, NEW u \in Users,
           TipsInv(rm), rm.role[u] = "purchaser", CheckOrderAllowed(rm)
    PROVE  TipsInv(CheckOrder(rm, amount))
<1> PICK new : new = CheckOrder(rm, amount)
    OBVIOUS
<1>1. rm.phase = "ORDER_FIX"
    BY DEF CheckOrderAllowed, CanTransitionTo, PhaseGraph, TipsInv, Room, Phases, Open,
           Ordering, Closed, Exists
<1>2. Holders(rm) = {} /\ u \in CurrentParticipants(rm) /\ PurchaserIsIn(rm)
    BY <1>1 DEF TipsInv, PurchaserIsIn, Ordering
<1>3. /\ new.phase = "ORDER_CHECK" /\ new.account /\ new.deliveryTip = amount
      /\ new.role = rm.role /\ new.state = rm.state
      /\ new.tip = [w \in Users |-> IF w \in CurrentParticipants(rm)
                                    THEN TipShare(rm, amount)
                                    ELSE rm.tip[w]]
    BY DEF CheckOrder, Room
<1>4. CurrentParticipants(new) = CurrentParticipants(rm)
    BY <1>3 DEF CurrentParticipants
<1>5. TipShare(rm, amount) \in Int
    BY <1>2, UserCountIsCount DEF TipShare
<1>6. Holders(new) = CurrentParticipants(rm)
    BY <1>2, <1>3, <1>5, UsersAssumption DEF Holders, NoTip, CurrentParticipants
<1>7. \A w \in Holders(new) : new.tip[w] = amount \div Cardinality(Holders(new))
    BY <1>3, <1>6 DEF TipShare, UserCount, Holders
<1>8. SharesAreEqual(new)
    BY <1>2, <1>3, <1>4, <1>6, <1>7 DEF SharesAreEqual
<1>9. PurchaserIsIn(new)
    BY <1>2, <1>3, <1>4 DEF PurchaserIsIn
<1> QED BY <1>3, <1>8, <1>9 DEF TipsInv, Open

LEMMA SaveTips ==
    ASSUME TypeOK, AllTipsInv, NEW r \in Rooms, NEW rm, Save(r, rm), TipsInv(rm)
    PROVE  AllTipsInv'
BY DEF TypeOK, AllTipsInv, Save

LEMMA NewRoomTips ==
    /\ TipsInv(NoRoom)
    /\ \A u \in Users : TipsInv(NewRoom(u))
BY DEF TipsInv, NoRoom, NewRoom, Holders, Open, Ordering

\* The purchaser of an open room is in it, so he is when the order is fixed.
LEMMA OpenPurchaserIsIn ==
    ASSUME NEW rm \in Room, RoomInv(rm), rm.phase \in Open
    PROVE  PurchaserIsIn(rm)
BY DEF RoomInv, OnePurchaser, OpenHasPurchaser, PurchaserIsIn

LEMMA ParticipantStepTips ==
    ASSUME TypeOK, RoomsInv, AllTipsInv, ParticipantStep
    PROVE  AllTipsInv'
<1>1. PICK r \in Rooms, u \in Users :
        \/ CreateRoom(u, r)
        \/ JoinRoom(u, r)
        \/ LeaveRoom(u, r)
        \/ \E target \in Users : KickByPurchaser(u, target, r)
        \/ \E ready \in BOOLEAN : ToggleReady(u, r, ready)
        \/ AddMenuTo(u, r)
        \/ DeleteMenuOf(u, r)
    BY DEF ParticipantStep
<1> PICK rm : rm = rooms[r]
    OBVIOUS
<1>2. rm \in Room /\ RoomInv(rm) /\ TipsInv(rm)
    BY DEF TypeOK, RoomsInv, AllTipsInv
<1>3. Open \cap Ordering = {} /\ Closed \cap Ordering = {}
    BY DEF Open, Closed, Ordering
\* Outside of the order under way nothing is asked of the purchaser.
<1>4. ASSUME NEW new \in Room, Save(r, new), SameShares(rm, new), SamePhase(rm, new),
             rm.phase \notin Ordering,
             \/ rm.phase \in Open
             \/ CurrentParticipants(new) \subseteq CurrentParticipants(rm)
      PROVE  AllTipsInv'
    <2>1. new.phase \notin Ordering
        BY <1>3, <1>4 DEF SamePhase
    <2> QED BY <1>2, <1>4, <2>1, TipsKept, SaveTips
<1>5. CASE CreateRoom(u, r)
    BY <1>5, NewRoomTips, SaveTips DEF CreateRoom
<1>6. CASE JoinRoom(u, r)
    <2>1. rm.phase \in Open /\ Save(r, Join(rm, u))
        BY <1>6, SavesAre DEF JoinRoom, JoinAllowed
    <2> QED BY <1>2, <1>3, <1>4, <2>1, JoinType, ParticipantMethodsShares
<1>7. CASE LeaveRoom(u, r)
    <2>1. rm.phase \in Open \cup Closed
        BY <1>7 DEF LeaveRoom, LeaveAllowed
    <2>2. Save(r, Leave(rm, u)) \/ Save(r, NoRoom)
        BY <1>7, SavesAre DEF LeaveRoom
    <2>3. CurrentParticipants(Leave(rm, u)) \subseteq CurrentParticipants(rm)
        BY <1>2, LeaveSeen
    <2> QED BY <1>2, <1>3, <1>4, <2>1, <2>2, <2>3, LeaveType, ParticipantMethodsShares,
               NewRoomTips, SaveTips
<1>8. ASSUME NEW target \in Users, KickByPurchaser(u, target, r) PROVE AllTipsInv'
    <2>1. rm.phase \in Open /\ Save(r, KickUser(rm, target))
        BY <1>8, SavesAre DEF KickByPurchaser, KickAllowed
    <2> QED BY <1>2, <1>3, <1>4, <2>1, KickUserType, ParticipantMethodsShares
<1>9. ASSUME NEW ready \in BOOLEAN, ToggleReady(u, r, ready) PROVE AllTipsInv'
    <2>1. rm.phase \in Open /\ Save(r, SetReady(rm, u, ready))
        BY <1>9, SavesAre DEF ToggleReady, ReadyAvailable
    <2> QED BY <1>2, <1>3, <1>4, <2>1, SetReadyType, ParticipantMethodsShares
<1>10. CASE AddMenuTo(u, r)
    <2>1. Save(r, AddMenu(rm, u))
        BY <1>10 DEF AddMenuTo
    <2>2. AddMenu(rm, u) \in Room
        BY <1>2, MenuTypes
    <2>3. /\ SameMembers(rm, AddMenu(rm, u)) /\ AddMenu(rm, u).role = rm.role
          /\ AddMenu(rm, u).phase = rm.phase
        BY <1>2, QuietSeen DEF AddMenu, Room
    <2>4. rm.phase \in Ordering => PurchaserIsIn(AddMenu(rm, u))
        BY <1>2, <2>3 DEF TipsInv, PurchaserIsIn, SameMembers
    <2> QED BY <1>2, <2>1, <2>2, <2>3, <2>4, ParticipantMethodsShares, TipsKept, SaveTips
            DEF SameMembers
<1>11. CASE DeleteMenuOf(u, r)
    <2>1. rm.phase \in Open /\ Save(r, DeleteMenu(rm, u)) /\ rm.menus[u] > 0
        BY <1>11 DEF DeleteMenuOf
    <2> QED BY <1>2, <1>3, <1>4, <2>1, MenuTypes, ParticipantMethodsShares
<1> QED BY <1>1, <1>5, <1>6, <1>7, <1>8, <1>9, <1>10, <1>11

LEMMA OrderStepTips ==
    ASSUME TypeOK, RoomsInv, AllTipsInv, OrderStep
    PROVE  AllTipsInv'
<1>1. PICK r \in Rooms, u \in Users :
        \/ FixOrderOf(u, r)
        \/ UploadOrderImages(u, r)
        \/ \E amount \in Tips : CheckOrderOf(u, r, amount)
        \/ DoneOrderOf(u, r)
    BY DEF OrderStep
<1> PICK rm : rm = rooms[r]
    OBVIOUS
<1>2. rm \in Room /\ RoomInv(rm) /\ TipsInv(rm)
    BY DEF TypeOK, RoomsInv, AllTipsInv
\* None of these methods but checkOrder touches the participants or the shares.
<1>3. ASSUME NEW new \in Room, Save(r, new), SameShares(rm, new),
             SameMembers(rm, new), new.role = rm.role,
             \/ SamePhase(rm, new)
             \/ rm.phase \in Open \cup {"ORDER_FIX"} /\ new.phase = "ORDER_FIX"
             \/ rm.phase \in {"ORDER_CHECK", "ORDER_DONE"} /\ new.phase = "ORDER_DONE"
      PROVE  AllTipsInv'
    <2>1. new.phase \in Ordering => rm.phase \in Open \cup Ordering
        BY <1>3 DEF SamePhase, Open, Ordering
    <2>2. new.phase \in Ordering => PurchaserIsIn(rm)
        BY <1>2, <2>1, OpenPurchaserIsIn DEF TipsInv
    <2>3. new.phase \in Ordering => PurchaserIsIn(new)
        BY <1>3, <2>2 DEF PurchaserIsIn, SameMembers
    <2> QED BY <1>2, <1>3, <2>3, TipsKept, SaveTips DEF SameMembers
<1>4. /\ SameShares(rm, FixOrder(rm)) /\ FixOrder(rm).role = rm.role
      /\ SameShares(rm, DoneOrder(rm)) /\ DoneOrder(rm).role = rm.role
      /\ SameShares(rm, UploadScreenShot(rm)) /\ UploadScreenShot(rm).role = rm.role
    BY <1>2 DEF SameShares, FixOrder, DoneOrder, UploadScreenShot, Room
<1>5. CASE FixOrderOf(u, r)
    <2>1. rm.phase \in Open \cup {"ORDER_FIX"} /\ Save(r, FixOrder(rm))
        BY <1>2, <1>5 DEF FixOrderOf, CanTransitionTo, PhaseGraph, Room, Phases, Open,
                          Ordering, Closed, Exists
    <2> QED BY <1>2, <1>3, <1>4, <2>1, OrderTypes, OrderMethodsSeen
<1>6. CASE UploadOrderImages(u, r)
    <2>1. Save(r, UploadScreenShot(rm)) /\ SameMembers(rm, UploadScreenShot(rm))
        BY <1>2, <1>6, QuietSeen DEF UploadOrderImages
    <2>2. SamePhase(rm, UploadScreenShot(rm))
        BY <1>2, QuietSeen DEF SamePhase
    <2> QED BY <1>2, <1>3, <1>4, <2>1, <2>2, OrderTypes
<1>7. ASSUME NEW amount \in Tips, CheckOrderOf(u, r, amount) PROVE AllTipsInv'
    <2>1. amount \in Int
        BY ServiceAssumption
    <2> QED BY <1>2, <1>7, <2>1, CheckOrderShares, SaveTips DEF CheckOrderOf
<1>8. CASE DoneOrderOf(u, r)
    <2>1. rm.phase \in {"ORDER_CHECK", "ORDER_DONE"} /\ Save(r, DoneOrder(rm))
        BY <1>2, <1>8 DEF DoneOrderOf, CanTransitionTo, PhaseGraph, Room, Phases, Open,
                          Ordering, Closed, Exists
    <2> QED BY <1>2, <1>3, <1>4, <2>1, OrderTypes, OrderMethodsSeen
<1> QED BY <1>1, <1>5, <1>6, <1>7, <1>8

\* A kick by vote takes the role PURCHASER away with the place in the room.
LEMMA TaskStepTips ==
    ASSUME TypeOK, RoomsInv, AllTipsInv, TaskStep
    PROVE  AllTipsInv'
<1>1. PICK t \in tasks : RunKick(t) \/ RunReset(t) \/ FailTask(t)
    BY DEF TaskStep, RunTask
<1> PICK rm : rm = rooms[t.room]
    OBVIOUS
<1>2. /\ t \in Task /\ t.room \in Rooms
      /\ rm \in Room /\ TipsInv(rm) /\ rm.phase \notin Open
    BY DEF TypeOK, Task, RoomsInv, TasksFollowFix, AllTipsInv
<1>3. CASE RunKick(t)
    <2>1. t.target \in Users /\ Save(t.room, KickUser(rm, t.target))
        BY <1>2, <1>3, SavesAre DEF RunKick, Task
    <2> PICK new : new = KickUser(rm, t.target)
        OBVIOUS
    <2>2. /\ new \in Room /\ SameShares(rm, new) /\ SamePhase(rm, new)
          /\ CurrentParticipants(new) = CurrentParticipants(rm) \ {t.target}
        BY <1>2, <2>1, KickUserType, KickUserSeen, ParticipantMethodsShares
    <2>3. new.role = [rm.role EXCEPT ![t.target] = "banned"]
        BY <1>2 DEF KickUser, UpdateAllReadyState, Room
    <2>4. new.phase \in Ordering => PurchaserIsIn(new)
        <3>1. new.phase \in Ordering => PurchaserIsIn(rm)
            BY <1>2, <2>2 DEF SamePhase, TipsInv
        <3>2. \A w \in Users : new.role[w] = "purchaser" =>
                  w # t.target /\ rm.role[w] = "purchaser"
            BY <1>2, <2>1, <2>3 DEF Room
        <3> QED BY <2>2, <3>1, <3>2 DEF PurchaserIsIn
    <2> QED BY <1>2, <2>1, <2>2, <2>4, TipsKept, SaveTips
<1>4. CASE RunReset(t)
    <2>1. /\ Save(t.room, Cancel(rm)) /\ Cancel(rm).phase = "ORDER_CANCELED"
          /\ SameMembers(rm, Cancel(rm)) /\ Cancel(rm) \in Room
        BY <1>2, <1>4, OrderMethodsSeen, OrderTypes DEF RunReset
    <2>2. SameShares(rm, Cancel(rm))
        BY <1>2 DEF SameShares, Cancel, Room
    <2>3. Cancel(rm).phase \notin Ordering
        BY <2>1 DEF Ordering
    <2> QED BY <1>2, <2>1, <2>2, <2>3, TipsKept, SaveTips DEF SameMembers
<1>5. CASE FailTask(t)
    BY <1>5 DEF FailTask, AllTipsInv
<1> QED BY <1>1, <1>3, <1>4, <1>5

\* Once the order is checked everybody in the room has his share of the tip, and the
\* shares come to the tip but for what the division drops, whoever is kicked later.
THEOREM TipAlwaysShared == Spec => []TipIsShared
<1>1. Init => AllTipsInv
    BY NewRoomTips DEF Init, AllTipsInv
<1>2. TypeOK /\ RoomsInv /\ AllTipsInv /\ [Next]_vars => AllTipsInv'
    <2>1. VoteStep \/ UNCHANGED vars => rooms' = rooms
        BY DEF VoteStep, CreateKickVote, CreateResetVote, DoVote, vars
    <2> QED BY <2>1, ParticipantStepTips, OrderStepTips, TaskStepTips
            DEF Next, AllTipsInv
<1>3. TypeOK /\ AllTipsInv => TipIsShared
    BY SharesMakeTheTip DEF TypeOK, AllTipsInv, TipsInv, SharesAreEqual, TipIsShared
<1> QED BY <1>1, <1>2, <1>3, TypeCorrect, RoomsStaySound, PTL DEF Spec
=============================================================================
