----------------------- MODULE RoomTransactionsProofs ------------------------
(***************************************************************************)
(* Theorems about RoomTransactions for any users and any number of calls   *)
(* that overlap.                                                           *)
(***************************************************************************)
EXTENDS RoomTransactions, RoomEntityProofs

-----------------------------------------------------------------------------
(* What a call may write                                                   *)

LEMMA OpIs ==
    ASSUME NEW op \in Op
    PROVE  /\ op.name \in UserOps \cup RoomOps
           /\ op.name \in UserOps => op.user \in Users
BY DEF Op, UserOps, RoomOps

\* One conjunct per call.
LEMMA EffectIs ==
    ASSUME NEW op \in Op, NEW rm
    PROVE  /\ op.name = "join" => Effect(op, rm) = Join(rm, op.user)
           /\ op.name = "leave" => Effect(op, rm) = LeaveOrRemove(rm, op.user)
           /\ op.name = "ready" => Effect(op, rm) = SetReady(rm, op.user, TRUE)
           /\ op.name = "unready" => Effect(op, rm) = SetReady(rm, op.user, FALSE)
           /\ op.name \in {"kick", "voteKick"} => Effect(op, rm) = KickUser(rm, op.user)
           /\ op.name = "fix" => Effect(op, rm) = FixOrder(rm)
           /\ op.name = "check" => Effect(op, rm) = CheckOrder(rm, Tip)
           /\ op.name = "done" => Effect(op, rm) = DoneOrder(rm)
           /\ op.name = "reset" => Effect(op, rm) = Cancel(rm)
BY DEF Effect

LEMMA EffectType ==
    ASSUME NEW op \in Op, NEW rm \in Room
    PROVE  Effect(op, rm) \in Room
<1>1. ASSUME NEW u \in Users PROVE LeaveOrRemove(rm, u) \in Room
    BY LeaveType, NoRoomType DEF LeaveOrRemove
<1>2. CASE op.name \in UserOps
    <2>1. op.user \in Users
        BY <1>2, OpIs
    <2> QED BY <1>1, <1>2, <2>1, EffectIs, JoinType, SetReadyType, KickUserType
            DEF UserOps
<1>3. CASE op.name \in RoomOps
    BY <1>3, EffectIs, OrderTypes, CheckOrderType, TransactionsAssumption DEF RoomOps
<1> QED BY <1>2, <1>3, OpIs

\* SaveDiff: each column holds what was there, or what the copy changed.
LEMMA SaveDiffIs ==
    ASSUME NEW held \in Room, NEW read \in Room, NEW copy \in Room,
           NEW saved, saved = SaveDiff(held, read, copy)
    PROVE  /\ saved \in Room
           /\ copy = NoRoom \/ held = NoRoom => saved = NoRoom
           /\ copy # NoRoom /\ held # NoRoom =>
                /\ saved.phase = Written(held.phase, read.phase, copy.phase)
                /\ saved.blackList = held.blackList \cup (copy.blackList \ read.blackList)
                /\ \A u \in Users :
                      /\ saved.role[u] = Written(held.role[u], read.role[u], copy.role[u])
                      /\ saved.state[u] = Written(held.state[u], read.state[u], copy.state[u])
<1>1. CASE copy = NoRoom \/ held = NoRoom
    BY <1>1, NoRoomType DEF SaveDiff
<1>2. CASE copy # NoRoom /\ held # NoRoom
    <2> DEFINE role == WrittenRows(held.role, read.role, copy.role)
               state == WrittenRows(held.state, read.state, copy.state)
               isReady == WrittenRows(held.isReady, read.isReady, copy.isReady)
               tip == WrittenRows(held.tip, read.tip, copy.tip)
    <2>1. role \in [Users -> Roles \cup {"none"}] /\ state \in [Users -> States \cup {"none"}]
        BY DEF WrittenRows, Written, Room
    <2>2. isReady \in [Users -> BOOLEAN] /\ tip \in [Users -> Int \cup {NoTip}]
        BY DEF WrittenRows, Written, Room
    <2>3. /\ WrittenList(held.blackList, read.blackList, copy.blackList) \in SUBSET Users
          /\ Written(held.phase, read.phase, copy.phase) \in Phases \cup {"none"}
          /\ Written(held.deliveryTip, read.deliveryTip, copy.deliveryTip) \in Int
          /\ (held.account \/ copy.account) \in BOOLEAN
        BY DEF WrittenList, Written, Room
    <2>4. \A u \in Users : /\ role[u] = Written(held.role[u], read.role[u], copy.role[u])
                           /\ state[u] = Written(held.state[u], read.state[u], copy.state[u])
        BY DEF WrittenRows
    <2>5. saved = [phase       |-> Written(held.phase, read.phase, copy.phase),
                   purchaser   |-> held.purchaser,
                   role        |-> role,
                   state       |-> state,
                   isReady     |-> isReady,
                   menus       |-> held.menus,
                   tip         |-> tip,
                   blackList   |-> WrittenList(held.blackList, read.blackList, copy.blackList),
                   deliveryTip |-> Written(held.deliveryTip, read.deliveryTip, copy.deliveryTip),
                   screenShots |-> held.screenShots,
                   account     |-> held.account \/ copy.account]
        BY <1>2 DEF SaveDiff
    <2> HIDE DEF role, state, isReady, tip
    <2>6. saved \in Room
        BY <2>1, <2>2, <2>3, <2>5 DEF Room
    <2>7. /\ saved.phase = Written(held.phase, read.phase, copy.phase)
          /\ saved.blackList = held.blackList \cup (copy.blackList \ read.blackList)
          /\ saved.role = role /\ saved.state = state
        BY <2>5 DEF WrittenList
    <2> QED BY <1>2, <2>4, <2>6, <2>7
<1> QED BY <1>1, <1>2

LEMMA UpdateKeepsMembers ==
    ASSUME NEW rm \in Room, NEW new, new = UpdateAllReadyState(rm)
    PROVE  /\ new.role = rm.role
           /\ new.state = rm.state
           /\ new.blackList = rm.blackList
           /\ new.phase = "ORDER_FIX" => rm.phase = "ORDER_FIX"
BY DEF UpdateAllReadyState, Room, Open

\* Who takes part in a room, and its phase, change as follows in the copy.
Bans(op, rm, copy) ==
    /\ op.name \notin {"kick", "voteKick"} => copy.blackList = rm.blackList
    /\ op.name \in {"kick", "voteKick"} =>
         /\ copy.blackList = rm.blackList \cup {op.user}
         /\ copy.role = [rm.role EXCEPT ![op.user] = "banned"]
    /\ op.name = "join" => copy.role = [rm.role EXCEPT ![op.user] = "member"]
    /\ op.name \notin {"join", "kick", "voteKick"} => copy.role = rm.role

BringsNobodyIn(op, rm, copy) ==
    op.name # "join" =>
        \A u \in Users : copy.state[u] \in {rm.state[u], "left", "kicked"}

FixesNothing(op, rm, copy) ==
    op.name # "fix" /\ copy.phase = "ORDER_FIX" => rm.phase = "ORDER_FIX"

LEMMA EffectOnMembers ==
    ASSUME NEW op \in Op, NEW rm \in Room, Effect(op, rm) # NoRoom
    PROVE  /\ Bans(op, rm, Effect(op, rm))
           /\ BringsNobodyIn(op, rm, Effect(op, rm))
           /\ FixesNothing(op, rm, Effect(op, rm))
<1> PICK copy : copy = Effect(op, rm)
    OBVIOUS
<1>1. ASSUME NEW u \in Users, op.name = "join", op.user = u
      PROVE  /\ copy.blackList = rm.blackList
             /\ copy.role = [rm.role EXCEPT ![u] = "member"]
             /\ copy.phase = "ORDER_FIX" => rm.phase = "ORDER_FIX"
    <2> DEFINE with == [rm EXCEPT !.role[u] = "member", !.state[u] = "joined"]
    <2>1. /\ with \in Room /\ with.phase = rm.phase /\ with.blackList = rm.blackList
          /\ with.role = [rm.role EXCEPT ![u] = "member"]
        BY DEF Room, Roles, States
    <2>2. copy = UpdateAllReadyState(with)
        BY <1>1, EffectIs DEF Join
    <2> HIDE DEF with
    <2> QED BY <2>1, <2>2, UpdateKeepsMembers
<1>2. ASSUME NEW u \in Users, op.name = "leave", op.user = u
      PROVE  /\ copy.blackList = rm.blackList /\ copy.role = rm.role
             /\ \A w \in Users : copy.state[w] \in {rm.state[w], "left"}
             /\ copy.phase = "ORDER_FIX" => rm.phase = "ORDER_FIX"
    <2> DEFINE with == [rm EXCEPT !.state[u] = "left"]
    <2>1. /\ with \in Room /\ with.phase = rm.phase /\ with.blackList = rm.blackList
          /\ with.role = rm.role /\ with.state = [rm.state EXCEPT ![u] = "left"]
        BY DEF Room, States
    <2>2. copy = UpdateAllReadyState(with)
        BY <1>2, EffectIs DEF LeaveOrRemove, Leave
    <2> HIDE DEF with
    <2> QED BY <2>1, <2>2, UpdateKeepsMembers DEF Room
<1>3. ASSUME NEW u \in Users, op.name \in {"kick", "voteKick"}, op.user = u
      PROVE  /\ copy.blackList = rm.blackList \cup {u}
             /\ copy.role = [rm.role EXCEPT ![u] = "banned"]
             /\ \A w \in Users : copy.state[w] \in {rm.state[w], "kicked"}
             /\ copy.phase = "ORDER_FIX" => rm.phase = "ORDER_FIX"
    <2> DEFINE with == [rm EXCEPT !.blackList = @ \cup {u},
                                  !.role[u] = "banned",
                                  !.state[u] = "kicked"]
    <2>1. /\ with \in Room /\ with.phase = rm.phase
          /\ with.blackList = rm.blackList \cup {u}
          /\ with.role = [rm.role EXCEPT ![u] = "banned"]
          /\ with.state = [rm.state EXCEPT ![u] = "kicked"]
        BY DEF Room, Roles, States
    <2>2. copy = UpdateAllReadyState(with)
        BY <1>3, EffectIs DEF KickUser
    <2> HIDE DEF with
    <2> QED BY <2>1, <2>2, UpdateKeepsMembers DEF Room
<1>4. ASSUME NEW u \in Users, op.name \in {"ready", "unready"}, op.user = u
      PROVE  /\ copy.blackList = rm.blackList /\ copy.role = rm.role
             /\ copy.state = rm.state
             /\ copy.phase = "ORDER_FIX" => rm.phase = "ORDER_FIX"
    <2> PICK ready \in BOOLEAN : copy = SetReady(rm, u, ready)
        BY <1>4, EffectIs
    <2> DEFINE with == [rm EXCEPT !.isReady[u] = ready]
    <2>1. /\ with \in Room /\ with.phase = rm.phase /\ with.blackList = rm.blackList
          /\ with.role = rm.role /\ with.state = rm.state
        BY DEF Room
    <2>2. copy = UpdateAllReadyState(with)
        BY DEF SetReady
    <2> HIDE DEF with
    <2> QED BY <2>1, <2>2, UpdateKeepsMembers
<1>5. ASSUME op.name \in RoomOps
      PROVE  /\ copy.blackList = rm.blackList /\ copy.role = rm.role
             /\ copy.state = rm.state
             /\ op.name # "fix" => copy.phase # "ORDER_FIX"
    <2>1. \/ op.name = "fix" /\ copy = FixOrder(rm)
          \/ op.name = "check" /\ copy = CheckOrder(rm, Tip)
          \/ op.name = "done" /\ copy = DoneOrder(rm)
          \/ op.name = "reset" /\ copy = Cancel(rm)
        BY <1>5, EffectIs DEF RoomOps
    <2> QED BY <2>1 DEF FixOrder, CheckOrder, DoneOrder, Cancel, Room
<1>6. CASE op.name \in UserOps
    BY <1>1, <1>2, <1>3, <1>4, <1>6, OpIs DEF UserOps, Bans, BringsNobodyIn, FixesNothing
<1>7. CASE op.name \in RoomOps
    BY <1>5, <1>7 DEF RoomOps, Bans, BringsNobodyIn, FixesNothing
<1> QED BY <1>6, <1>7, OpIs

-----------------------------------------------------------------------------
(* Types, and what a transaction knows when it commits                     *)

\* A transaction goes on only if the method did not throw on the room it read.
OpenWereAllowed ==
    \A c \in Calls : IsOpen(c) => Allowed(calls[c].op, calls[c].snap)

\* What joinRoom and fixOrder decide on still is so when they write: nobody commits
\* beside their locks.
LockedReadsAreCurrent ==
    \A c \in Calls :
        IsOpen(c) /\ calls[c].op.name \in {"join", "fix"} => calls[c].snap = db

TxnInv == TypeOK /\ OpenWereAllowed /\ LockedReadsAreCurrent

LEMMA CallTypes ==
    ASSUME TypeOK, NEW c \in Calls
    PROVE  /\ calls[c].stage = "authorized" => calls[c].op \in Op
           /\ IsOpen(c) => calls[c].op \in Op /\ calls[c].snap \in Room
           /\ calls[c].stage \in {"idle", "ended"} => calls[c] \in {Idle, Ended}
BY DEF TypeOK, IsOpen, Idle, Ended

LEMMA GatheringType ==
    ASSUME NEW members \in SUBSET (Users \ {Founder}),
           NEW readied \in SUBSET members, NEW gone \in SUBSET members
    PROVE  /\ Gathering(members, readied, gone) \in Room
           /\ Gathering(members, readied, gone).blackList = {}
           /\ \A u \in Users : Gathering(members, readied, gone).role[u] # "banned"
<1> DEFINE new == NewRoom(Founder)
           role == [u \in Users |-> IF u \in members THEN "member" ELSE new.role[u]]
           state == [u \in Users |-> CASE u \in gone -> "left"
                                       [] u \in members \ gone -> "joined"
                                       [] OTHER -> new.state[u]]
           menus == [u \in Users |-> IF u \in members THEN 1 ELSE 0]
           isReady == [u \in Users |-> u \in readied]
           with == [new EXCEPT !.role = role, !.state = state, !.menus = menus,
                               !.isReady = isReady, !.screenShots = TRUE]
<1>1. new \in Room
    BY NewRoomType, TransactionsAssumption
<1>2. new.blackList = {} /\ \A u \in Users : new.role[u] # "banned"
    BY DEF NewRoom, NoRoom
<1>3. with = [new EXCEPT !.role = role, !.state = state, !.menus = menus,
                         !.isReady = isReady, !.screenShots = TRUE]
    OBVIOUS
<1>4. Gathering(members, readied, gone) = UpdateAllReadyState(with)
    BY DEF Gathering
<1> HIDE DEF new, with
<1>5. role \in [Users -> Roles \cup {"none"}] /\ state \in [Users -> States \cup {"none"}]
    BY <1>1 DEF Room, Roles, States
<1>6. menus \in [Users -> Nat] /\ isReady \in [Users -> BOOLEAN]
    OBVIOUS
<1>7. \A u \in Users : role[u] # "banned"
    BY <1>2
<1> HIDE DEF role, state, menus, isReady
<1>8. with \in Room /\ with.blackList = {} /\ with.role = role
    BY <1>1, <1>2, <1>3, <1>5, <1>6 DEF Room
<1> QED BY <1>4, <1>7, <1>8, UpdateAllReadyStateType, UpdateAllReadyStateKeeps

LEMMA TxnInvInit == Init => TxnInv
<1> SUFFICES ASSUME Init PROVE TxnInv
    OBVIOUS
<1>1. db \in Room
    BY GatheringType DEF Init
<1> QED BY <1>1 DEF Init, TxnInv, TypeOK, OpenWereAllowed, LockedReadsAreCurrent,
                    IsOpen, Idle

\* While one transaction holds share locks no other commits.
LEMMA CommitKeepsOthers ==
    ASSUME TxnInv, NEW c \in Calls, Commit(c)
    PROVE  TxnInv'
<1>1. /\ calls' = [calls EXCEPT ![c] = Ended]
      /\ db' = SaveDiff(db, calls[c].snap, Effect(calls[c].op, calls[c].snap))
    BY DEF Commit
<1>2. calls[c].op \in Op /\ calls[c].snap \in Room
    BY CallTypes DEF Commit, TxnInv
<1>3. db' \in Room
    BY <1>1, <1>2, EffectType, SaveDiffIs DEF TxnInv, TypeOK
<1>4. TypeOK'
    BY <1>1, <1>3 DEF TxnInv, TypeOK
<1>5. calls'[c] = Ended /\ \A d \in Calls \ {c} : calls'[d] = calls[d]
    BY <1>1 DEF TxnInv, TypeOK
<1>6. OpenWereAllowed'
    BY <1>5 DEF TxnInv, OpenWereAllowed, IsOpen, Ended
<1>7. ASSUME NEW d \in Calls, IsOpen(d)' PROVE ~(calls'[d].op.name \in {"join", "fix"})
    <2>1. d # c /\ calls'[d] = calls[d] /\ IsOpen(d)
        BY <1>5, <1>7 DEF IsOpen, Ended
    <2> QED BY <2>1 DEF Commit, MayWrite, HoldsLocks, Serializable
<1>8. LockedReadsAreCurrent'
    BY <1>7 DEF LockedReadsAreCurrent
<1> QED BY <1>4, <1>6, <1>8 DEF TxnInv

LEMMA BeginIs ==
    ASSUME TypeOK, NEW c \in Calls, Begin(c)
    PROVE  /\ calls'[c] = [stage |-> "open", op |-> calls[c].op, snap |-> db]
           /\ \A d \in Calls \ {c} : calls'[d] = calls[d]
<1>1. calls[c] \in [stage : {"authorized"}, op : Op, snap : {NoRoom}]
    BY DEF Begin, TypeOK, Idle, Ended
<1>2. calls' = [calls EXCEPT ![c] = [[calls[c] EXCEPT !.stage = "open"]
                                        EXCEPT !.snap = db]]
    BY DEF Begin, TypeOK
<1> QED BY <1>1, <1>2 DEF TypeOK

LEMMA TxnInvStep == TxnInv /\ [Next]_vars => TxnInv'
<1> SUFFICES ASSUME TxnInv, [Next]_vars PROVE TxnInv'
    OBVIOUS
<1> USE DEF TxnInv
<1>1. ASSUME NEW c \in Calls, NEW op \in Op, Authorize(c, op) PROVE TxnInv'
    BY <1>1 DEF Authorize, TypeOK, OpenWereAllowed, LockedReadsAreCurrent, IsOpen
<1>2. ASSUME NEW c \in Calls, Begin(c) PROVE TxnInv'
    <2>1. calls[c].op \in Op /\ db \in Room
        BY <1>2, CallTypes DEF Begin, TypeOK
    <2>2. /\ calls'[c] = [stage |-> "open", op |-> calls[c].op, snap |-> db]
          /\ \A d \in Calls \ {c} : calls'[d] = calls[d]
        BY <1>2, BeginIs
    <2>3. TypeOK'
        <3>1. calls'[c] \in [stage : {"open"}, op : Op, snap : Room]
            BY <2>1, <2>2
        <3> QED BY <1>2, <3>1 DEF Begin, TypeOK
    <2>4. db' = db /\ Allowed(calls[c].op, db)
        BY <1>2 DEF Begin
    <2>5. OpenWereAllowed'
        BY <2>2, <2>4 DEF OpenWereAllowed, IsOpen
    <2>6. LockedReadsAreCurrent'
        BY <2>2, <2>4 DEF LockedReadsAreCurrent, IsOpen
    <2> QED BY <2>3, <2>5, <2>6
<1>3. ASSUME NEW c \in Calls, Rollback(c) PROVE TxnInv'
    BY <1>3 DEF Rollback, TypeOK, OpenWereAllowed, LockedReadsAreCurrent,
                IsOpen, Ended
<1>4. ASSUME NextWave PROVE TxnInv'
    BY <1>4 DEF NextWave, TypeOK, OpenWereAllowed, LockedReadsAreCurrent,
                IsOpen, Idle
<1>5. ASSUME UNCHANGED vars PROVE TxnInv'
    BY <1>5 DEF vars, TypeOK, OpenWereAllowed, LockedReadsAreCurrent, IsOpen
<1> QED BY <1>1, <1>2, <1>3, <1>4, <1>5, CommitKeepsOthers DEF Next

LEMMA TxnInvAlways == Spec => []TxnInv
BY TxnInvInit, TxnInvStep, PTL DEF Spec

\* Whatever copies are saved one over the other, the room that is stored is a Room.
THEOREM TypeCorrect == Spec => []TypeOK
<1>1. TxnInv => TypeOK
    BY DEF TxnInv
<1> QED BY <1>1, TxnInvAlways, PTL

-----------------------------------------------------------------------------
(* Who takes part, and the phase                                           *)

\* Only Commit writes, and what it writes is a copy saved over the room.
LEMMA CommitIs ==
    ASSUME TypeOK, NEW c \in Calls, Commit(c),
           NEW copy, copy = Effect(calls[c].op, calls[c].snap)
    PROVE  /\ calls[c].op \in Op /\ calls[c].snap \in Room /\ copy \in Room
           /\ db \in Room /\ db' = SaveDiff(db, calls[c].snap, copy)
<1>1. calls[c].op \in Op /\ calls[c].snap \in Room
    BY CallTypes DEF Commit
<1>2. db' = SaveDiff(db, calls[c].snap, copy)
    BY DEF Commit
<1> QED BY <1>1, <1>2, EffectType DEF TypeOK

\* The calls that are not joins bring nobody in.
LEMMA OnlyJoinBringsIn ==
    ASSUME TypeOK, NEW c \in Calls, Commit(c), calls[c].op.name # "join"
    PROVE  CurrentParticipants(db') \subseteq CurrentParticipants(db)
<1> PICK op, read, copy :
            op = calls[c].op /\ read = calls[c].snap /\ copy = Effect(op, read)
    OBVIOUS
<1>1. op \in Op /\ read \in Room /\ copy \in Room /\ db' = SaveDiff(db, read, copy)
    BY CommitIs
<1>2. CASE copy = NoRoom \/ db = NoRoom
    <2>1. db' = NoRoom
        BY <1>2, <1>1 DEF SaveDiff
    <2> QED BY <2>1 DEF CurrentParticipants, ParticipantRoles, NoRoom
<1>3. CASE copy # NoRoom /\ db # NoRoom
    <2>1. \A u \in Users :
             /\ db'.role[u] = Written(db.role[u], read.role[u], copy.role[u])
             /\ db'.state[u] = Written(db.state[u], read.state[u], copy.state[u])
        <3> PICK saved : saved = SaveDiff(db, read, copy)
            OBVIOUS
        <3> QED BY <1>1, <1>3, SaveDiffIs DEF TypeOK
    <2>2. \A u \in Users : copy.state[u] \in {read.state[u], "left", "kicked"}
        BY <1>1, <1>3, EffectOnMembers DEF BringsNobodyIn
    <2>3. \A u \in Users : copy.role[u] \in {read.role[u], "banned"}
        <3>1. CASE op.name \in {"kick", "voteKick"}
            <4>1. copy.role = [read.role EXCEPT ![op.user] = "banned"]
                BY <3>1, <1>1, <1>3, EffectOnMembers DEF Bans
            <4> QED BY <4>1, <1>1 DEF Room
        <3>2. CASE op.name \notin {"kick", "voteKick"}
            BY <3>2, <1>1, <1>3, EffectOnMembers DEF Bans
        <3> QED BY <3>1, <3>2
    <2> QED BY <2>1, <2>2, <2>3 DEF Written, CurrentParticipants, ParticipantRoles
<1> QED BY <1>2, <1>3

LEMMA NobodyEntersStep ==
    ASSUME TxnInv, [Next]_vars
    PROVE  \A u \in CurrentParticipants(db') \ CurrentParticipants(db) : db.phase \in Open
<1>1. ASSUME NEW c \in Calls, Commit(c), calls[c].op.name = "join"
      PROVE  db.phase \in Open
    BY <1>1 DEF Commit, TxnInv, OpenWereAllowed, LockedReadsAreCurrent, Allowed,
                JoinAllowed
<1>2. (\E c \in Calls : Commit(c)) \/ db' = db
    BY DEF Next, Authorize, Begin, Rollback, NextWave, vars
<1> QED BY <1>1, <1>2, OnlyJoinBringsIn DEF TxnInv

\* Nobody enters a room whose order is under way or closed.
THEOREM NobodyEverEntersAfterFix == Spec => NobodyEntersAfterFix
<1>1. TxnInv /\ [Next]_vars =>
        [\A u \in CurrentParticipants(db') \ CurrentParticipants(db) : db.phase \in Open]_vars
    BY NobodyEntersStep
<1> QED BY <1>1, TxnInvAlways, PTL DEF Spec, NobodyEntersAfterFix

LEMMA FixedFromAllReadyStep ==
    ASSUME TxnInv, [Next]_vars, db.phase # "ORDER_FIX", db'.phase = "ORDER_FIX"
    PROVE  db.phase = "ALL_READY"
<1>1. ASSUME NEW c \in Calls, Commit(c), calls[c].op.name = "fix"
      PROVE  db.phase = "ALL_READY"
    <2>1. CanTransitionTo(db, "ORDER_FIX")
        BY <1>1 DEF Commit, TxnInv, OpenWereAllowed, LockedReadsAreCurrent, Allowed
    <2> QED BY <2>1, PhaseBefore DEF TxnInv, TypeOK
<1>2. ASSUME NEW c \in Calls, Commit(c), calls[c].op.name # "fix"
      PROVE  FALSE
    <2> PICK op, read, copy :
                op = calls[c].op /\ read = calls[c].snap /\ copy = Effect(op, read)
        OBVIOUS
    <2>1. op \in Op /\ read \in Room /\ copy \in Room /\ db \in Room
          /\ db' = SaveDiff(db, read, copy)
        BY <1>2, CommitIs DEF TxnInv
    <2>2. copy # NoRoom /\ db # NoRoom
        BY <2>1, SaveDiffIs DEF NoRoom
    <2>3. db'.phase = Written(db.phase, read.phase, copy.phase)
        <3> PICK saved : saved = SaveDiff(db, read, copy)
            OBVIOUS
        <3> QED BY <2>1, <2>2, SaveDiffIs
    <2>4. copy.phase = "ORDER_FIX" => read.phase = "ORDER_FIX"
        BY <1>2, <2>1, <2>2, EffectOnMembers DEF FixesNothing
    <2> QED BY <2>3, <2>4 DEF Written
<1>3. (\E c \in Calls : Commit(c)) \/ db' = db
    BY DEF Next, Authorize, Begin, Rollback, NextWave, vars
<1> QED BY <1>1, <1>2, <1>3

\* An order is fixed only in a room that is ALL_READY at that moment.
THEOREM AlwaysFixedFromAllReady == Spec => FixedFromAllReady
<1>1. TxnInv /\ [Next]_vars =>
        [db.phase # "ORDER_FIX" /\ db'.phase = "ORDER_FIX" => db.phase = "ALL_READY"]_vars
    BY FixedFromAllReadyStep
<1> QED BY <1>1, TxnInvAlways, PTL DEF Spec, FixedFromAllReady

-----------------------------------------------------------------------------
(* The blacklist                                                           *)

BansAgree(rm) == \A u \in Users : u \in rm.blackList <=> rm.role[u] = "banned"

\* A ban is never taken back, so what a transaction read is still banned.
BansInv ==
    /\ BansAgree(db)
    /\ \A c \in Calls :
          IsOpen(c) => /\ BansAgree(calls[c].snap)
                       /\ db = NoRoom \/ calls[c].snap.blackList \subseteq db.blackList

LEMMA BansCommit ==
    ASSUME TxnInv, BansInv, NEW c \in Calls, Commit(c)
    PROVE  BansInv'
<1> PICK op, read, copy :
            op = calls[c].op /\ read = calls[c].snap /\ copy = Effect(op, read)
    OBVIOUS
<1>1. op \in Op /\ read \in Room /\ copy \in Room /\ db \in Room
      /\ db' = SaveDiff(db, read, copy)
    BY CommitIs DEF TxnInv
<1>2. IsOpen(c) /\ BansAgree(read) /\ (db = NoRoom \/ read.blackList \subseteq db.blackList)
    BY DEF Commit, BansInv
<1>3. \A d \in Calls : calls'[d].stage = "open" => calls'[d] = calls[d]
    BY DEF Commit, TxnInv, TypeOK, IsOpen, Ended
<1>4. CASE copy = NoRoom \/ db = NoRoom
    <2>1. db' = NoRoom
        BY <1>1, <1>4, SaveDiffIs
    <2>2. BansAgree(NoRoom)
        BY DEF BansAgree, NoRoom
    <2> QED BY <1>3, <2>1, <2>2 DEF BansInv, BansAgree, IsOpen
<1>5. CASE copy # NoRoom /\ db # NoRoom
    <2>1. /\ db'.blackList = db.blackList \cup (copy.blackList \ read.blackList)
          /\ \A u \in Users :
                db'.role[u] = Written(db.role[u], read.role[u], copy.role[u])
        <3> PICK saved : saved = SaveDiff(db, read, copy)
            OBVIOUS
        <3> QED BY <1>1, <1>5, SaveDiffIs
    <2>2. BansAgree(db) /\ read.blackList \subseteq db.blackList
        BY <1>2, <1>5 DEF BansInv
    <2>3. CASE op.name \in {"kick", "voteKick"}
        <3>1. /\ op.user \in Users
              /\ copy.blackList = read.blackList \cup {op.user}
              /\ copy.role = [read.role EXCEPT ![op.user] = "banned"]
            BY <2>3, <1>1, <1>5, OpIs, EffectOnMembers DEF Bans, UserOps
        <3>2. read.role \in [Users -> Roles \cup {"none"}]
            BY <1>1 DEF Room
        <3>3. BansAgree(db')
            BY <1>2, <2>1, <2>2, <3>1, <3>2 DEF BansAgree, Written
        <3> QED BY <1>3, <1>5, <2>1, <3>3 DEF BansInv, BansAgree, IsOpen
    <2>4. CASE op.name = "join"
        <3>1. read = db /\ JoinAllowed(db, op.user)
            BY <2>4 DEF Commit, TxnInv, OpenWereAllowed, LockedReadsAreCurrent, Allowed
        <3>2. /\ op.user \in Users
              /\ copy.blackList = read.blackList
              /\ copy.role = [read.role EXCEPT ![op.user] = "member"]
            BY <2>4, <1>1, <1>5, OpIs, EffectOnMembers DEF Bans, UserOps
        <3>3. read.role \in [Users -> Roles \cup {"none"}]
            BY <1>1 DEF Room
        <3>4. BansAgree(db')
            BY <2>1, <2>2, <3>1, <3>2, <3>3 DEF BansAgree, Written, JoinAllowed
        <3> QED BY <1>3, <1>5, <2>1, <3>4 DEF BansInv, BansAgree, IsOpen
    <2>5. CASE op.name \notin {"join", "kick", "voteKick"}
        <3>1. copy.blackList = read.blackList /\ copy.role = read.role
            BY <2>5, <1>1, <1>5, EffectOnMembers DEF Bans
        <3>2. BansAgree(db')
            BY <2>1, <2>2, <3>1 DEF BansAgree, Written
        <3> QED BY <1>3, <1>5, <2>1, <3>2 DEF BansInv, BansAgree, IsOpen
    <2> QED BY <2>3, <2>4, <2>5
<1> QED BY <1>4, <1>5

LEMMA BansInvStep ==
    ASSUME TxnInv, BansInv, [Next]_vars
    PROVE  BansInv'
<1>1. ASSUME NEW c \in Calls, NEW op \in Op, Authorize(c, op) PROVE BansInv'
    BY <1>1 DEF Authorize, TxnInv, TypeOK, BansInv, IsOpen
<1>2. ASSUME NEW c \in Calls, Begin(c) PROVE BansInv'
    <2>1. db' = db /\ calls'[c].snap = db
          /\ \A d \in Calls \ {c} : calls'[d] = calls[d]
        <3>1. db' = db
            BY <1>2 DEF Begin
        <3>2. /\ calls'[c] = [stage |-> "open", op |-> calls[c].op, snap |-> db]
              /\ \A d \in Calls \ {c} : calls'[d] = calls[d]
            BY <1>2, BeginIs DEF TxnInv
        <3> QED BY <3>1, <3>2
    <2> QED BY <2>1 DEF BansInv, BansAgree, IsOpen
<1>3. ASSUME NEW c \in Calls, Rollback(c) PROVE BansInv'
    BY <1>3 DEF Rollback, TxnInv, TypeOK, BansInv, IsOpen, Ended
<1>4. ASSUME NextWave PROVE BansInv'
    BY <1>4 DEF NextWave, BansInv, IsOpen, Idle
<1>5. ASSUME UNCHANGED vars PROVE BansInv'
    BY <1>5 DEF vars, BansInv, IsOpen
<1> QED BY <1>1, <1>2, <1>3, <1>4, <1>5, BansCommit DEF Next

\* The users on the blacklist are the banned ones and none is a participant,
\* however kicks overlap with each other and with what the user does himself.
THEOREM BlacklistedAlwaysBanned == Spec => []BlacklistedAreBanned
<1>1. Init => BansInv
    <2> SUFFICES ASSUME Init PROVE BansInv
        OBVIOUS
    <2>1. db.blackList = {} /\ \A u \in Users : db.role[u] # "banned"
        BY GatheringType DEF Init
    <2> QED BY <2>1 DEF Init, BansInv, BansAgree, IsOpen, Idle
<1>2. TxnInv /\ BansInv /\ [Next]_vars => BansInv'
    BY BansInvStep
<1>3. BansInv => BlacklistedAreBanned
    BY DEF BansInv, BansAgree, BlacklistedAreBanned, CurrentParticipants, ParticipantRoles
<1> QED BY <1>1, <1>2, <1>3, TxnInvAlways, PTL DEF Spec
-----------------------------------------------------------------------------
(* Who comes and goes                                                      *)

\* Only a leave of the last one in the copy removes the room.
LEMMA OnlyLeaveRemoves ==
    ASSUME NEW op \in Op, NEW rm \in Room, Allowed(op, rm), Effect(op, rm) = NoRoom
    PROVE  op.name = "leave" /\ CurrentParticipants(rm) \subseteq {op.user}
<1> PICK copy : copy = Effect(op, rm)
    OBVIOUS
<1>1. ASSUME NEW with \in Room, with.phase # "none", copy = UpdateAllReadyState(with)
      PROVE  copy # NoRoom
    <2>1. UpdateAllReadyState(with).phase # "none"
        BY <1>1 DEF UpdateAllReadyState, Room
    <2>2. NoRoom.phase = "none"
        BY DEF NoRoom
    <2> QED BY <1>1, <2>1, <2>2
<1>2. ASSUME NEW u \in Users, op.user = u, op.name \in UserOps \ {"leave"}
      PROVE  FALSE
    <2>1. CASE op.name = "join"
        <3> PICK with : with = [rm EXCEPT !.role[u] = "member", !.state[u] = "joined"]
            OBVIOUS
        <3>1. with \in Room /\ with.phase = rm.phase
            BY DEF Room, Roles, States
        <3>2. rm.phase \in Open
            BY <2>1 DEF Allowed, JoinAllowed
        <3> QED BY <1>1, <1>2, <2>1, <3>1, <3>2, EffectIs DEF Join, Open
    <2>2. CASE op.name \in {"ready", "unready"}
        <3> PICK ready \in BOOLEAN : copy = SetReady(rm, u, ready)
            BY <1>2, <2>2, EffectIs
        <3> PICK with : with = [rm EXCEPT !.isReady[u] = ready]
            OBVIOUS
        <3>1. with \in Room /\ with.phase = rm.phase
            BY DEF Room
        <3>2. rm.phase \in Open
            BY <2>2 DEF Allowed, ReadyAvailable
        <3> QED BY <1>1, <3>1, <3>2 DEF SetReady, Open
    <2>3. CASE op.name \in {"kick", "voteKick"}
        <3> PICK with : with = [rm EXCEPT !.blackList = @ \cup {u},
                                          !.role[u] = "banned",
                                          !.state[u] = "kicked"]
            OBVIOUS
        <3>1. with \in Room /\ with.phase = rm.phase
            BY DEF Room, Roles, States
        <3>2. rm.phase # "none"
            BY <2>3 DEF Allowed, KickAllowed, Exists
        <3> QED BY <1>1, <1>2, <2>3, <3>1, <3>2, EffectIs DEF KickUser
    <2> QED BY <1>2, <2>1, <2>2, <2>3 DEF UserOps
<1>3. ASSUME op.name \in RoomOps PROVE FALSE
    <2>1. \/ copy = FixOrder(rm) \/ copy = CheckOrder(rm, Tip)
          \/ copy = DoneOrder(rm) \/ copy = Cancel(rm)
        BY <1>3, EffectIs DEF RoomOps
    <2>2. copy.phase # "none"
        BY <2>1 DEF FixOrder, CheckOrder, DoneOrder, Cancel, Room
    <2> QED BY <2>2 DEF NoRoom
<1>4. ASSUME NEW u \in Users, op.user = u, op.name = "leave"
      PROVE  CurrentParticipants(rm) \subseteq {u}
    <2> PICK with : with = [rm EXCEPT !.state[u] = "left"]
        OBVIOUS
    <2>1. /\ with \in Room /\ with.phase = rm.phase
          /\ with.role = rm.role /\ with.state = [rm.state EXCEPT ![u] = "left"]
        BY DEF Room, States
    <2>2. rm.phase # "none"
        BY <1>4 DEF Allowed, LeaveAllowed, Open, Closed
    <2>3. Leave(rm, u) = UpdateAllReadyState(with)
        BY DEF Leave
    <2>4. LeaveOrRemove(rm, u) = NoRoom
        BY <1>4, EffectIs
    <2>5. UserCount(Leave(rm, u)) = 0
        BY <1>1, <1>4, <2>1, <2>2, <2>3, <2>4, EffectIs DEF LeaveOrRemove
    <2>6. CurrentParticipants(Leave(rm, u)) = {}
        BY <2>5, UserCountIsCount
    <2>7. CurrentParticipants(with) = {}
        BY <2>1, <2>3, <2>6, UpdateAllReadyStateKeeps
    <2> QED BY <2>1, <2>7 DEF CurrentParticipants, Room
<1> QED BY <1>2, <1>3, <1>4, OpIs

\* The rows of the others are as they were in the copy.
LEMMA EffectOnOthers ==
    ASSUME NEW op \in Op, NEW rm \in Room, Effect(op, rm) # NoRoom,
           NEW u \in Users, op.user # u \/ op.name \notin {"join", "leave", "kick", "voteKick"}
    PROVE  /\ Effect(op, rm).role[u] = rm.role[u]
           /\ Effect(op, rm).state[u] = rm.state[u]
<1> PICK copy : copy = Effect(op, rm)
    OBVIOUS
<1>1. ASSUME NEW w \in Users, op.user = w, op.name = "join"
      PROVE  copy.role[u] = rm.role[u] /\ copy.state[u] = rm.state[u]
    <2> DEFINE with == [rm EXCEPT !.role[w] = "member", !.state[w] = "joined"]
    <2>1. with \in Room /\ with.role[u] = rm.role[u] /\ with.state[u] = rm.state[u]
        BY <1>1 DEF Room, Roles, States
    <2>2. copy = UpdateAllReadyState(with)
        BY <1>1, EffectIs DEF Join
    <2> HIDE DEF with
    <2> QED BY <2>1, <2>2, UpdateKeepsMembers
<1>2. ASSUME NEW w \in Users, op.user = w, op.name = "leave"
      PROVE  copy.role[u] = rm.role[u] /\ copy.state[u] = rm.state[u]
    <2> DEFINE with == [rm EXCEPT !.state[w] = "left"]
    <2>1. with \in Room /\ with.role[u] = rm.role[u] /\ with.state[u] = rm.state[u]
        BY <1>2 DEF Room, States
    <2>2. copy = UpdateAllReadyState(with)
        BY <1>2, EffectIs DEF LeaveOrRemove, Leave
    <2> HIDE DEF with
    <2> QED BY <2>1, <2>2, UpdateKeepsMembers
<1>3. ASSUME NEW w \in Users, op.user = w, op.name \in {"kick", "voteKick"}
      PROVE  copy.role[u] = rm.role[u] /\ copy.state[u] = rm.state[u]
    <2> DEFINE with == [rm EXCEPT !.blackList = @ \cup {w},
                                 !.role[w] = "banned",
                                 !.state[w] = "kicked"]
    <2>1. with \in Room /\ with.role[u] = rm.role[u] /\ with.state[u] = rm.state[u]
        BY <1>3 DEF Room, Roles, States
    <2>2. copy = UpdateAllReadyState(with)
        BY <1>3, EffectIs DEF KickUser
    <2> HIDE DEF with
    <2> QED BY <2>1, <2>2, UpdateKeepsMembers
<1>4. ASSUME NEW w \in Users, op.user = w, op.name \in {"ready", "unready"}
      PROVE  copy.role[u] = rm.role[u] /\ copy.state[u] = rm.state[u]
    <2> PICK ready \in BOOLEAN : copy = SetReady(rm, w, ready)
        BY <1>4, EffectIs
    <2> PICK with : with = [rm EXCEPT !.isReady[w] = ready]
        OBVIOUS
    <2>1. with \in Room /\ with.role[u] = rm.role[u] /\ with.state[u] = rm.state[u]
        BY DEF Room
    <2> QED BY <2>1, UpdateKeepsMembers DEF SetReady
<1>5. ASSUME op.name \in RoomOps
      PROVE  copy.role[u] = rm.role[u] /\ copy.state[u] = rm.state[u]
    <2>1. \/ copy = FixOrder(rm) \/ copy = CheckOrder(rm, Tip)
          \/ copy = DoneOrder(rm) \/ copy = Cancel(rm)
        BY <1>5, EffectIs DEF RoomOps
    <2> QED BY <2>1 DEF FixOrder, CheckOrder, DoneOrder, Cancel, Room
<1> QED BY <1>1, <1>2, <1>3, <1>4, <1>5, OpIs DEF UserOps

\* What one commit does to one user.
LEMMA CommitOnMember ==
    ASSUME TxnInv, NEW c \in Calls, Commit(c), NEW u \in Users,
           (u \in CurrentParticipants(db)) # (u \in CurrentParticipants(db'))
    PROVE  \/ /\ calls[c].op.user = u
              /\ calls[c].op.name \in IF u \in CurrentParticipants(db') THEN {"join"}
                                       ELSE {"leave", "kick", "voteKick"}
           \/ /\ calls[c].op.name = "leave" /\ db' = NoRoom
              /\ CurrentParticipants(calls[c].snap) \subseteq {calls[c].op.user}
<1> PICK op, read, copy :
            op = calls[c].op /\ read = calls[c].snap /\ copy = Effect(op, read)
    OBVIOUS
<1>1. /\ op \in Op /\ read \in Room /\ copy \in Room /\ db \in Room
      /\ db' = SaveDiff(db, read, copy)
    BY CommitIs DEF TxnInv
<1>2. Allowed(op, read)
    BY DEF Commit, TxnInv, OpenWereAllowed
<1>3. CASE copy = NoRoom \/ db = NoRoom
    <2>1. db' = NoRoom
        BY <1>3, <1>1 DEF SaveDiff
    <2>2. u \notin CurrentParticipants(NoRoom)
        BY DEF CurrentParticipants, ParticipantRoles, NoRoom
    <2>3. copy = NoRoom
        BY <1>3, <2>1, <2>2
    <2> QED BY <1>1, <1>2, <2>1, <2>3, OnlyLeaveRemoves
<1>4. CASE copy # NoRoom /\ db # NoRoom
    <2>1. /\ db'.role[u] = Written(db.role[u], read.role[u], copy.role[u])
          /\ db'.state[u] = Written(db.state[u], read.state[u], copy.state[u])
        <3> PICK saved : saved = SaveDiff(db, read, copy)
            OBVIOUS
        <3> QED BY <1>1, <1>4, SaveDiffIs
    <2>2. op.user = u /\ op.name \in {"join", "leave", "kick", "voteKick"}
        BY <1>1, <1>4, <2>1, EffectOnOthers DEF Written, CurrentParticipants
    <2>3. CASE op.name = "join"
        <3>1. db.phase \in Open /\ u \notin CurrentParticipants(db)
            BY <1>2, <2>2, <2>3
               DEF Commit, TxnInv, LockedReadsAreCurrent, Allowed, JoinAllowed
        <3> QED BY <2>2, <2>3, <3>1
    <2>4. CASE op.name # "join"
        <3>1. u \notin CurrentParticipants(db')
            BY <2>4, OnlyJoinBringsIn DEF TxnInv
        <3> QED BY <2>2, <2>4, <3>1
    <2> QED BY <2>3, <2>4
<1> QED BY <1>3, <1>4

\* Nobody is put out of a room, or brought into one, by a call about another user that
\* saves an old copy of the participants, unless the room itself goes.
THEOREM AlwaysComeAndGoByOwnCalls == Spec => ComeAndGoByOwnCalls
<1> DEFINE Moved(u) == (u \in CurrentParticipants(db)) # (u \in CurrentParticipants(db'))
           About(c, u) ==
               \/ /\ calls[c].op.user = u
                  /\ calls[c].op.name \in IF u \in CurrentParticipants(db') THEN {"join"}
                                           ELSE {"leave", "kick", "voteKick"}
               \/ /\ calls[c].op.name = "leave" /\ db' = NoRoom
                  /\ CurrentParticipants(calls[c].snap) \subseteq {calls[c].op.user}
<1>1. ASSUME TxnInv, [Next]_vars, NEW u \in Users, Moved(u)
      PROVE  \E c \in Calls : IsOpen(c) /\ calls'[c] = Ended /\ About(c, u)
    <2>1. PICK c \in Calls : Commit(c)
        BY <1>1 DEF Next, Authorize, Begin, Rollback, NextWave, vars
    <2>2. About(c, u)
        BY <1>1, <2>1, CommitOnMember
    <2>3. IsOpen(c) /\ calls'[c] = Ended
        BY <1>1, <2>1 DEF Commit, TxnInv, TypeOK
    <2> QED BY <2>2, <2>3
<1>2. TxnInv /\ [Next]_vars =>
        [\A u \in Users : (u \in CurrentParticipants(db)) # (u \in CurrentParticipants(db')) =>
            \E c \in Calls :
                /\ IsOpen(c) /\ calls'[c] = Ended
                /\ \/ /\ calls[c].op.user = u
                      /\ calls[c].op.name \in IF u \in CurrentParticipants(db')
                                               THEN {"join"}
                                               ELSE {"leave", "kick", "voteKick"}
                   \/ /\ calls[c].op.name = "leave" /\ db' = NoRoom
                      /\ CurrentParticipants(calls[c].snap) \subseteq {calls[c].op.user}]_vars
    BY <1>1
<1> QED BY <1>2, TxnInvAlways, PTL DEF Spec, ComeAndGoByOwnCalls
=============================================================================
