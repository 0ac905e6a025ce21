------------------------- MODULE UserDeletionProofs --------------------------
(***************************************************************************)
(* Theorems about UserDeletion for any users and rooms: what deleteUser    *)
(* checked and read once, on a connection without a transaction, holds as  *)
(* long as the user enters no room, whatever the others call meanwhile.    *)
(***************************************************************************)
EXTENDS UserDeletion, RoomLifeProofs

-----------------------------------------------------------------------------
(* What a call of RoomService does to one room                             *)

\* Nobody but who enters the room gets a row or becomes its purchaser; a closed
\* room stays closed, or is removed, and gets no account any more.
Carried(rm, new) ==
    LET came == CurrentParticipants(new) \ CurrentParticipants(rm) IN
    /\ \A u \in Users : HasRow(new, u) => HasRow(rm, u) \/ u \in came
    /\ \A u \in Users : new.role[u] = "purchaser" =>
                            rm.role[u] = "purchaser" \/ u \in came
    /\ rm.phase \in Closed => new.phase \in Closed \/ new = NoRoom
    /\ new.account => rm.account \/ rm.phase \notin Closed

AllCarried == \A r \in Rooms : Carried(rooms[r], rooms'[r])

LEMMA SaveCarried ==
    ASSUME TypeOK, NEW r \in Rooms, NEW rm, Save(r, rm), Carried(rooms[r], rm)
    PROVE  AllCarried
<1>1. /\ rooms'[r] = rm
      /\ \A q \in Rooms \ {r} : rooms'[q] = rooms[q]
    BY DEF TypeOK, Save
<1>2. \A q \in Rooms : Carried(rooms[q], rooms[q])
    BY DEF Carried
<1> QED BY <1>1, <1>2 DEF AllCarried

LEMMA NarrowIsCarried ==
    ASSUME NEW rm, NEW new, Narrows(rm, new),
           new.account => rm.account \/ rm.phase \notin Closed
    PROVE  Carried(rm, new)
BY DEF Narrows, Carried

LEMMA EnterCarried ==
    ASSUME NEW rm \in Room, NEW u \in Users
    PROVE  /\ rm = NoRoom => Carried(rm, NewRoom(u))
           /\ rm.phase \in Open /\ u \notin CurrentParticipants(rm) =>
                  Carried(rm, Join(rm, u))
<1>1. ASSUME rm = NoRoom PROVE Carried(rm, NewRoom(u))
    <2>1. \A w \in Users : HasRow(NewRoom(u), w) => w = u
        BY DEF NewRoom, NoRoom, HasRow
    <2>2. /\ CurrentParticipants(rm) = {}
          /\ u \in CurrentParticipants(NewRoom(u))
        BY <1>1 DEF NewRoom, NoRoom, CurrentParticipants, ParticipantRoles
    <2>3. rm.phase \notin Closed /\ ~NewRoom(u).account
        BY <1>1 DEF NewRoom, NoRoom, Closed
    <2>4. \A w \in Users : NewRoom(u).role[w] = "purchaser" => HasRow(NewRoom(u), w)
        BY DEF HasRow
    <2> QED BY <2>1, <2>2, <2>3, <2>4 DEF Carried
<1>2. ASSUME rm.phase \in Open, u \notin CurrentParticipants(rm)
      PROVE  Carried(rm, Join(rm, u))
    <2>1. \A w \in Users \ {u} : Join(rm, u).role[w] = rm.role[w]
        BY DEF Join, UpdateAllReadyState, Room
    <2>2. u \in CurrentParticipants(Join(rm, u))
        BY JoinSeen
    <2>3. rm.phase \notin Closed
        BY <1>2 DEF Open, Closed
    <2> QED BY <1>2, <2>1, <2>2, <2>3 DEF Carried, HasRow
<1> QED BY <1>1, <1>2

\* Only checkOrder makes an account.
LEMMA AccountStays ==
    ASSUME NEW rm \in Room, NEW u \in Users
    PROVE  /\ Leave(rm, u).account = rm.account
           /\ KickUser(rm, u).account = rm.account
           /\ \A ready \in BOOLEAN : SetReady(rm, u, ready).account = rm.account
           /\ AddMenu(rm, u).account = rm.account
           /\ DeleteMenu(rm, u).account = rm.account
           /\ UploadScreenShot(rm).account = rm.account
           /\ FixOrder(rm).account = rm.account
           /\ DoneOrder(rm).account = rm.account
           /\ Cancel(rm).account = rm.account
<1>1. Leave(rm, u).account = rm.account
    BY DEF Leave, UpdateAllReadyState, Room
<1>2. KickUser(rm, u).account = rm.account
    BY DEF KickUser, UpdateAllReadyState, Room
<1>3. \A ready \in BOOLEAN : SetReady(rm, u, ready).account = rm.account
    BY DEF SetReady, UpdateAllReadyState, Room
<1> QED BY <1>1, <1>2, <1>3
        DEF AddMenu, DeleteMenu, UploadScreenShot, FixOrder, DoneOrder, Cancel, Room

LEMMA ParticipantStepCarries ==
    ASSUME TypeOK, RoomsInv, NEW r \in Rooms, NEW u \in Users,
           \/ CreateRoom(u, r)
           \/ JoinRoom(u, r)
           \/ LeaveRoom(u, r)
           \/ \E target \in Users : KickByPurchaser(u, target, r)
           \/ \E ready \in BOOLEAN : ToggleReady(u, r, ready)
           \/ AddMenuTo(u, r)
           \/ DeleteMenuOf(u, r)
    PROVE  AllCarried
<1>1. rooms[r] \in Room /\ GoneIsEmpty(rooms[r])
    BY DEF TypeOK, RoomsInv, RoomInv
<1>2. CASE CreateRoom(u, r)
    <2>1. rooms[r] = NoRoom /\ Save(r, NewRoom(u))
        BY <1>1, <1>2 DEF CreateRoom, GoneIsEmpty, Exists
    <2> QED BY <1>1, <2>1, EnterCarried, SaveCarried
<1>3. CASE JoinRoom(u, r)
    <2>1. /\ rooms[r].phase \in Open /\ u \notin CurrentParticipants(rooms[r])
          /\ Save(r, Join(rooms[r], u))
        BY <1>3, SavesAre DEF JoinRoom, JoinAllowed
    <2> QED BY <1>1, <2>1, EnterCarried, SaveCarried
<1>4. CASE LeaveRoom(u, r)
    <2>1. Save(r, NoRoom) \/ Save(r, Leave(rooms[r], u))
        BY <1>4, SavesAre DEF LeaveRoom
    <2>2. Carried(rooms[r], NoRoom)
        BY DEF Carried, NoRoom, HasRow
    <2>3. Carried(rooms[r], Leave(rooms[r], u))
        BY <1>1, LeaveAndKickNarrow, AccountStays, NarrowIsCarried
    <2> QED BY <2>1, <2>2, <2>3, SaveCarried
<1>5. ASSUME NEW target \in Users, KickByPurchaser(u, target, r) PROVE AllCarried
    <2>1. HasRow(rooms[r], target) /\ Save(r, KickUser(rooms[r], target))
        BY <1>5, SavesAre DEF KickByPurchaser, KickAllowed
    <2>2. Carried(rooms[r], KickUser(rooms[r], target))
        BY <1>1, <2>1, LeaveAndKickNarrow, AccountStays, NarrowIsCarried
    <2> QED BY <2>1, <2>2, SaveCarried
<1>6. ASSUME NEW ready \in BOOLEAN, ToggleReady(u, r, ready) PROVE AllCarried
    <2>1. rooms[r].phase \in Open /\ Save(r, SetReady(rooms[r], u, ready))
        BY <1>6, SavesAre DEF ToggleReady, ReadyAvailable
    <2>2. Carried(rooms[r], SetReady(rooms[r], u, ready))
        BY <1>1, <2>1, OthersNarrow, AccountStays, NarrowIsCarried
    <2> QED BY <2>1, <2>2, SaveCarried
<1>7. CASE AddMenuTo(u, r) \/ DeleteMenuOf(u, r)
    <2>1. \/ Save(r, AddMenu(rooms[r], u))
          \/ Save(r, DeleteMenu(rooms[r], u))
        BY <1>7 DEF AddMenuTo, DeleteMenuOf
    <2>2. /\ Carried(rooms[r], AddMenu(rooms[r], u))
          /\ Carried(rooms[r], DeleteMenu(rooms[r], u))
        BY <1>1, OthersNarrow, AccountStays, NarrowIsCarried
    <2> QED BY <2>1, <2>2, SaveCarried
<1> QED BY <1>2, <1>3, <1>4, <1>5, <1>6, <1>7

LEMMA OrderStepCarries ==
    ASSUME TypeOK, NEW r \in Rooms, NEW u \in Users,
           \/ FixOrderOf(u, r)
           \/ UploadOrderImages(u, r)
           \/ \E amount \in Tips : CheckOrderOf(u, r, amount)
           \/ DoneOrderOf(u, r)
    PROVE  AllCarried
<1>1. rooms[r] \in Room
    BY DEF TypeOK
<1>2. CASE FixOrderOf(u, r)
    <2>1. CanTransitionTo(rooms[r], "ORDER_FIX") /\ Save(r, FixOrder(rooms[r]))
        BY <1>2 DEF FixOrderOf
    <2>2. Carried(rooms[r], FixOrder(rooms[r]))
        BY <1>1, <2>1, OthersNarrow, AccountStays, NarrowIsCarried
    <2> QED BY <2>1, <2>2, SaveCarried
<1>3. CASE UploadOrderImages(u, r) \/ DoneOrderOf(u, r)
    <2>1. Save(r, UploadScreenShot(rooms[r])) \/ Save(r, DoneOrder(rooms[r]))
        BY <1>3 DEF UploadOrderImages, DoneOrderOf
    <2>2. /\ Carried(rooms[r], UploadScreenShot(rooms[r]))
          /\ Carried(rooms[r], DoneOrder(rooms[r]))
        BY <1>1, OthersNarrow, AccountStays, NarrowIsCarried
    <2> QED BY <2>1, <2>2, SaveCarried
<1>4. ASSUME NEW amount \in Tips, CheckOrderOf(u, r, amount) PROVE AllCarried
    <2>1. /\ amount \in Int /\ CheckOrderAllowed(rooms[r])
          /\ Save(r, CheckOrder(rooms[r], amount))
        BY <1>4, ServiceAssumption DEF CheckOrderOf
    <2>2. rooms[r].phase \notin Closed
        BY <1>1, <2>1, PhaseBefore DEF CheckOrderAllowed, Closed
    <2>3. Carried(rooms[r], CheckOrder(rooms[r], amount))
        BY <1>1, <2>1, <2>2, OthersNarrow, NarrowIsCarried
    <2> QED BY <2>1, <2>3, SaveCarried
<1> QED BY <1>2, <1>3, <1>4

LEMMA CallCarries ==
    ASSUME TypeOK, RoomsInv, [Next]_vars
    PROVE  AllCarried
<1>1. ASSUME rooms' = rooms PROVE AllCarried
    BY <1>1 DEF AllCarried, Carried
<1>2. CASE ParticipantStep
    BY <1>2, ParticipantStepCarries DEF ParticipantStep
<1>3. CASE OrderStep
    BY <1>3, OrderStepCarries DEF OrderStep
<1>4. CASE VoteStep
    BY <1>1, <1>4 DEF VoteStep, CreateKickVote, CreateResetVote, DoVote
<1>5. CASE TaskStep
    <2>1. PICK t \in tasks : RunKick(t) \/ RunReset(t) \/ FailTask(t)
        BY <1>5 DEF TaskStep, RunTask
    <2>2. /\ t.room \in Rooms /\ (t.kind = "KICK" => t.target \in Users)
          /\ rooms[t.room] \in Room
        BY DEF TypeOK, Task
    <2>3. CASE RunKick(t)
        <3>1. /\ t.target \in Users /\ HasRow(rooms[t.room], t.target)
              /\ Save(t.room, KickUser(rooms[t.room], t.target))
            BY <2>2, <2>3, SavesAre DEF RunKick, KickAllowed
        <3>2. Carried(rooms[t.room], KickUser(rooms[t.room], t.target))
            BY <2>2, <3>1, LeaveAndKickNarrow, AccountStays, NarrowIsCarried
        <3> QED BY <2>2, <3>1, <3>2, SaveCarried
    <2>4. CASE RunReset(t)
        <3>1. Carried(rooms[t.room], Cancel(rooms[t.room]))
            BY <2>2 DEF Cancel, Carried, Room, HasRow, Closed
        <3> QED BY <2>2, <2>4, <3>1, SaveCarried DEF RunReset
    <2> QED BY <1>1, <2>1, <2>3, <2>4 DEF FailTask
<1> QED BY <1>1, <1>2, <1>3, <1>4, <1>5 DEF Next, vars

-----------------------------------------------------------------------------
(* The invariant                                                           *)

\* The account of a purchased room is erased, or in the copy of the listener.
AccountsAreTaken ==
    \A u \in Users : stage[u] # "active" /\ u \notin failed \cup entered =>
        \A r \in Rooms : rooms[r].role[u] = "purchaser" /\ rooms[r].account =>
            r \in todo[u] \/ erased[r]

DeletionInv ==
    /\ DeletionTypeOK
    /\ DeletedLeaveOpenRoomsAlone
    /\ AccountsAreTaken

LEMMA RoomCallKeeps ==
    ASSUME TypeOK, RoomsInv, DeletionInv, RoomCall
    PROVE  DeletionInv'
<1>1. AllCarried /\ UNCHANGED <<stage, todo, erasing, failed>>
    BY CallCarries DEF RoomCall
<1>2. ASSUME NEW u \in Users, stage[u] # "active", u \notin entered'
      PROVE  /\ u \notin entered
             /\ \A r \in Rooms : /\ HasRow(rooms'[r], u) => HasRow(rooms[r], u)
                                 /\ rooms'[r].role[u] = "purchaser" =>
                                        rooms[r].role[u] = "purchaser"
    BY <1>1, <1>2 DEF RoomCall, AllCarried, Carried
<1>3. \A r \in Rooms : /\ rooms[r].phase \in Closed =>
                              rooms'[r].phase \in Closed \/ rooms'[r] = NoRoom
                       /\ rooms'[r].account => rooms[r].account
                                               \/ rooms[r].phase \notin Closed
    BY <1>1 DEF AllCarried, Carried
<1>4. TypeOK'
    BY TypeStep DEF RoomCall
<1>5. DeletionTypeOK'
    <2>1. \A r \in Rooms : rooms'[r].account \in BOOLEAN
        BY <1>4 DEF TypeOK, Room
    <2>2. erased' \in [Rooms -> BOOLEAN]
        BY <2>1 DEF RoomCall, DeletionInv, DeletionTypeOK
    <2>3. entered' \subseteq Users
        BY DEF RoomCall, DeletionInv, DeletionTypeOK
    <2> QED BY <1>1, <2>2, <2>3 DEF DeletionInv, DeletionTypeOK
<1>6. DeletedLeaveOpenRoomsAlone'
    <2> SUFFICES ASSUME NEW u \in Users, stage[u] # "active", u \notin entered',
                        NEW r \in Rooms, HasRow(rooms'[r], u)
                 PROVE  rooms'[r].phase \in Closed
        BY <1>1 DEF DeletedLeaveOpenRoomsAlone
    <2>1. rooms[r].phase \in Closed
        BY <1>2 DEF DeletionInv, DeletedLeaveOpenRoomsAlone
    <2>2. rooms'[r] # NoRoom
        BY DEF NoRoom, HasRow
    <2> QED BY <1>3, <2>1, <2>2
<1>7. AccountsAreTaken'
    <2> SUFFICES ASSUME NEW u \in Users, stage[u] # "active",
                        u \notin failed \cup entered', NEW r \in Rooms,
                        rooms'[r].role[u] = "purchaser", rooms'[r].account
                 PROVE  r \in todo[u] \/ erased'[r]
        BY <1>1 DEF AccountsAreTaken
    <2>1. u \notin failed \cup entered /\ rooms[r].role[u] = "purchaser"
        BY <1>2
    <2>2. rooms[r].phase \in Closed
        BY <2>1 DEF DeletionInv, DeletedLeaveOpenRoomsAlone, HasRow
    <2>3. r \in todo[u] \/ erased[r]
        BY <1>3, <2>1, <2>2 DEF DeletionInv, AccountsAreTaken
    <2> QED BY <2>3 DEF RoomCall
<1> QED BY <1>5, <1>6, <1>7 DEF DeletionInv

\* The steps of deleteUser and of the listener leave the rooms alone.
LEMMA UserStepKeeps ==
    ASSUME TypeOK, DeletionInv, NEW u \in Users,
           \/ LoadUser(u) \/ DeleteOauth(u) \/ SaveDeleted(u) \/ FailDelete(u)
           \/ \E r \in Rooms : FindAccount(u, r)
           \/ SaveAccount(u)
    PROVE  DeletionInv'
<1> USE DEF DeletionInv
<1>1. DeletionTypeOK /\ rooms' = rooms
    BY DEF LoadUser, DeleteOauth, SaveDeleted, FailDelete, FindAccount, SaveAccount,
           vars
<1>2. CASE LoadUser(u)
    <2>1. DeletionTypeOK'
        BY <1>1, <1>2 DEF LoadUser, DeletionTypeOK, Stages, Purchases
    <2>2. DeletedLeaveOpenRoomsAlone'
        BY <1>1, <1>2
        DEF LoadUser, DeletionTypeOK, DeletedLeaveOpenRoomsAlone, DeleteAllowed
    <2>3. AccountsAreTaken'
        BY <1>1, <1>2 DEF LoadUser, DeletionTypeOK, AccountsAreTaken, Purchases
    <2> QED BY <2>1, <2>2, <2>3
<1>3. CASE DeleteOauth(u) \/ SaveDeleted(u) \/ FailDelete(u)
    <2>1. DeletionTypeOK'
        BY <1>1, <1>3 DEF DeleteOauth, SaveDeleted, FailDelete, DeletionTypeOK, Stages
    <2>2. DeletedLeaveOpenRoomsAlone'
        BY <1>1, <1>3 DEF DeleteOauth, SaveDeleted, FailDelete, DeletionTypeOK,
                          DeletedLeaveOpenRoomsAlone
    <2>3. AccountsAreTaken'
        BY <1>1, <1>3 DEF DeleteOauth, SaveDeleted, FailDelete, DeletionTypeOK,
                          AccountsAreTaken
    <2> QED BY <2>1, <2>2, <2>3
<1>4. ASSUME NEW r \in Rooms, FindAccount(u, r) PROVE DeletionInv'
    <2>1. DeletionTypeOK'
        BY <1>1, <1>4 DEF FindAccount, DeletionTypeOK
    <2>2. DeletedLeaveOpenRoomsAlone'
        BY <1>1, <1>4 DEF FindAccount, DeletedLeaveOpenRoomsAlone
    <2>3. AccountsAreTaken'
        BY <1>1, <1>4 DEF FindAccount, DeletionTypeOK, AccountsAreTaken
    <2> QED BY <2>1, <2>2, <2>3
<1>5. CASE SaveAccount(u)
    <2>1. erasing[u] \in Rooms
        BY <1>1, <1>5 DEF SaveAccount, DeletionTypeOK
    <2>2. DeletionTypeOK'
        <3>1. stage' = stage /\ entered' = entered
            BY <1>5 DEF SaveAccount
        <3>2. todo' \in [Users -> SUBSET Rooms]
            BY <1>1, <1>5 DEF SaveAccount, DeletionTypeOK
        <3>3. erasing' \in [Users -> Rooms \cup {None}]
            BY <1>1, <1>5 DEF SaveAccount, DeletionTypeOK
        <3>4. erased' \in [Rooms -> BOOLEAN]
            BY <1>1, <1>5, <2>1 DEF SaveAccount, DeletionTypeOK
        <3>5. failed' \subseteq Users
            BY <1>1, <1>5 DEF SaveAccount, DeletionTypeOK
        <3> QED BY <1>1, <3>1, <3>2, <3>3, <3>4, <3>5 DEF DeletionTypeOK
    <2>3. DeletedLeaveOpenRoomsAlone'
        BY <1>1, <1>5 DEF SaveAccount, DeletedLeaveOpenRoomsAlone
    <2>4. AccountsAreTaken'
        <3>1. CASE rooms[erasing[u]].account
            BY <1>1, <1>5, <2>1, <3>1
            DEF SaveAccount, DeletionTypeOK, AccountsAreTaken
        <3>2. CASE ~rooms[erasing[u]].account
            BY <1>1, <1>5, <2>1, <3>2
            DEF SaveAccount, DeletionTypeOK, AccountsAreTaken
        <3> QED BY <3>1, <3>2
    <2> QED BY <2>2, <2>3, <2>4
<1> QED BY <1>2, <1>3, <1>4, <1>5

LEMMA DeletionInvStep ==
    TypeOK /\ RoomsInv /\ DeletionInv /\ [DeletionNext]_allVars => DeletionInv'
<1>1. ASSUME DeletionInv, UNCHANGED allVars PROVE DeletionInv'
    BY <1>1 DEF allVars, vars, deletionVars, DeletionInv, DeletionTypeOK,
                DeletedLeaveOpenRoomsAlone, AccountsAreTaken
<1> QED BY <1>1, RoomCallKeeps, UserStepKeeps DEF DeletionNext

\* Beside the deletions, RoomService does what it does without them.
LEMMA DeletionKeepsService == DeletionSpec => Spec
<1>1. DeletionInit => Init
    BY DEF DeletionInit
<1>2. [DeletionNext]_allVars => [Next]_vars
    BY DEF DeletionNext, allVars, RoomCall, LoadUser, DeleteOauth, SaveDeleted,
           FailDelete, FindAccount, SaveAccount
<1> QED BY <1>1, <1>2, PTL DEF DeletionSpec, Spec

LEMMA DeletionAlwaysSound == DeletionSpec => []DeletionInv
<1>1. DeletionInit => DeletionInv
    BY DEF DeletionInit, DeletionInv, DeletionTypeOK, Stages,
           DeletedLeaveOpenRoomsAlone, AccountsAreTaken
<1> QED BY <1>1, DeletionInvStep, DeletionKeepsService, TypeCorrect, RoomsStaySound,
           PTL DEF DeletionSpec

\* A user whose deletion has begun, and who enters no room from then on, has a row
\* in closed rooms only: what UserEntity.delete checked in its copy stays true.
THEOREM DeletedAlwaysLeaveOpenRoomsAlone ==
    DeletionSpec => []DeletedLeaveOpenRoomsAlone
<1>1. DeletionInv => DeletedLeaveOpenRoomsAlone
    BY DEF DeletionInv
<1> QED BY <1>1, DeletionAlwaysSound, PTL

\* When the listener of the deletion is done, no room the user purchased shows his
\* bank account, unless a room vanished under the listener or he entered another.
THEOREM DeletedAccountsAlwaysErased == DeletionSpec => []DeletedAccountsAreErased
<1>1. DeletionInv => DeletedAccountsAreErased
    BY DEF DeletionInv, AccountsAreTaken, DeletedAccountsAreErased
<1> QED BY <1>1, DeletionAlwaysSound, PTL

\* Deleting users, who may come into rooms meanwhile, takes no purchaser of a room
\* that is not closed into another such room.
THEOREM PurchaserHasOneRoomBesideDeletions == DeletionSpec => []PurchaserHasOneRoom
BY DeletionKeepsService, PurchaserAlwaysHasOneRoom
=============================================================================
