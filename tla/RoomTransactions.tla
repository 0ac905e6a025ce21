-------------------------- MODULE RoomTransactions --------------------------
(***************************************************************************)
(* One room under concurrent calls of RoomService, transaction by          *)
(* transaction (src/src/room/room.service.ts).  Every call goes through    *)
(* three steps with other calls in between:                                *)
(*   Authorize  the role guard (or doVote, for the calls it starts) reads  *)
(*              the tables;                                                *)
(*   Begin      the transaction reads the room, the entity method runs on  *)
(*              that copy, and the call goes on only if it did not throw;  *)
(*   Commit     manager.save writes the columns in which the copy differs  *)
(*              from what the transaction read, and nothing else.          *)
(* The database is MySQL with its default isolation, REPEATABLE READ: a    *)
(* transaction reads one snapshot and its writes do not notice what others *)
(* committed meanwhile.  joinRoom and fixOrder ask for SERIALIZABLE: what  *)
(* they read stays share-locked until they end.                            *)
(***************************************************************************)
EXTENDS RoomEntity

CONSTANTS
    Calls,      \* ids of the calls in progress: bounds how many overlap
    Founder,    \* the user that created the room
    Tip         \* the delivery tip entered at checkOrder

ASSUME TransactionsAssumption == Founder \in Users /\ Tip \in Int

VARIABLES
    db,         \* the committed rows of the room
    calls       \* calls[c]: the call c, and what its transaction read

vars == <<db, calls>>

UserOps == {"join", "leave", "ready", "unready", "kick", "voteKick"}
RoomOps == {"fix", "check", "done", "reset"}

\* user is who joins, leaves, gets ready or is kicked.
Op == [name : UserOps, user : Users] \cup [name : RoomOps, user : {None}]

Idle == [stage |-> "idle", op |-> None, snap |-> NoRoom]
Ended == [stage |-> "ended", op |-> None, snap |-> NoRoom]

TypeOK ==
    /\ db \in Room
    /\ calls \in [Calls -> {Idle, Ended}
                    \cup [stage : {"authorized"}, op : Op, snap : {NoRoom}]
                    \cup [stage : {"open"}, op : Op, snap : Room]]

\* A room before its order is fixed: members who have a menu each, some of them
\* ready, and some who got a menu, maybe ready, and left since.
Gathering(members, readied, gone) ==
    UpdateAllReadyState(
        [NewRoom(Founder) EXCEPT
            !.role = [u \in Users |-> IF u \in members THEN "member" ELSE @[u]],
            !.state = [u \in Users |-> CASE u \in gone -> "left"
                                         [] u \in members \ gone -> "joined"
                                         [] OTHER -> @[u]],
            !.menus = [u \in Users |-> IF u \in members THEN 1 ELSE 0],
            !.isReady = [u \in Users |-> u \in readied],
            !.screenShots = TRUE])

Init ==
    /\ \E members \in SUBSET (Users \ {Founder}) :
       \E readied, gone \in SUBSET members : db = Gathering(members, readied, gone)
    /\ calls = [c \in Calls |-> Idle]

-----------------------------------------------------------------------------
(* The calls                                                               *)

\* RoomRolesGuard on the routes of the controllers; kick and reset after a vote
\* are started by doVote, which checks the phase.
Authorized(op) ==
    CASE op.name = "join" -> TRUE
      [] op.name = "leave" -> HasRow(db, op.user)
      [] op.name \in {"ready", "unready"} ->
            \E u \in Users : db.role[u] \in ParticipantRoles
      [] op.name \in {"kick", "fix", "check", "done"} ->
            \E u \in Users : db.role[u] = "purchaser"
      [] op.name \in {"voteKick", "reset"} -> db.phase \in Ordering

Allowed(op, rm) ==
    CASE op.name = "join" -> /\ JoinAllowed(rm, op.user)
                             /\ ValidateJoin([r \in {"this"} |-> rm], op.user)
      [] op.name = "leave" -> LeaveAllowed(rm, op.user)
      [] op.name \in {"ready", "unready"} -> ReadyAvailable(rm, op.user)
      [] op.name = "kick" -> KickAllowed(rm, op.user, "KICKED_BY_PURCHASER")
      [] op.name = "voteKick" -> KickAllowed(rm, op.user, "KICKED_BY_VOTE")
      [] op.name = "fix" -> CanTransitionTo(rm, "ORDER_FIX")
      [] op.name = "check" -> CheckOrderAllowed(rm)
      [] op.name = "done" -> CanTransitionTo(rm, "ORDER_DONE")
      [] op.name = "reset" -> Exists(rm)

\* leaveRoom removes the room when nobody is left in the copy it read.
LeaveOrRemove(rm, u) ==
    LET after == Leave(rm, u)
    IN  IF rm.role[u] # "banned" /\ UserCount(after) = 0 THEN NoRoom ELSE after

Effect(op, rm) ==
    CASE op.name = "join" -> Join(rm, op.user)
      [] op.name = "leave" -> LeaveOrRemove(rm, op.user)
      [] op.name = "ready" -> SetReady(rm, op.user, TRUE)
      [] op.name = "unready" -> SetReady(rm, op.user, FALSE)
      [] op.name \in {"kick", "voteKick"} -> KickUser(rm, op.user)
      [] op.name = "fix" -> FixOrder(rm)
      [] op.name = "check" -> CheckOrder(rm, Tip)
      [] op.name = "done" -> DoneOrder(rm)
      [] op.name = "reset" -> Cancel(rm)

-----------------------------------------------------------------------------
(* Transactions                                                            *)

\* Mutant: joinRoom takes the default isolation.
SerializableFix(op) == op.name = "fix"
\* Mutant: fixOrder takes the default isolation.
SerializableJoin(op) == op.name = "join"

\* startTransaction("SERIALIZABLE")
Serializable(op) == op.name \in {"join", "fix"}

\* A column keeps what the database holds unless the copy changed it.
Written(held, read, copy) == IF copy # read THEN copy ELSE held
\* Mutant: every row of the copy is written.
WrittenRowsOver(held, read, copy) == copy
WrittenRows(held, read, copy) ==
    [u \in Users |-> Written(held[u], read[u], copy[u])]

\* Mutant: the list of the copy replaces the rows.
WrittenListOver(held, read, copy) == copy
WrittenList(held, read, copy) == held \cup (copy \ read)

\* manager.save(copy).  Updates of rows that are gone change nothing, and an
\* insert fails for want of the room.
SaveDiff(held, read, copy) ==
    IF copy = NoRoom \/ held = NoRoom THEN NoRoom ELSE
    [phase       |-> Written(held.phase, read.phase, copy.phase),
     purchaser   |-> held.purchaser,
     role        |-> WrittenRows(held.role, read.role, copy.role),
     state       |-> WrittenRows(held.state, read.state, copy.state),
     isReady     |-> WrittenRows(held.isReady, read.isReady, copy.isReady),
     menus       |-> held.menus,
     tip         |-> WrittenRows(held.tip, read.tip, copy.tip),
     blackList   |-> WrittenList(held.blackList, read.blackList, copy.blackList),
     deliveryTip |-> Written(held.deliveryTip, read.deliveryTip, copy.deliveryTip),
     screenShots |-> held.screenShots,
     account     |-> held.account \/ copy.account]

IsOpen(c) == calls[c].stage = "open"

\* Share locks on the rows of the room, its participants, their menus and the
\* blacklist; writers wait for them.
HoldsLocks(c) == IsOpen(c) /\ Serializable(calls[c].op)

MayWrite(c) == \A d \in Calls \ {c} : ~HoldsLocks(d)

Authorize(c, op) ==
    /\ calls[c] = Idle
    /\ Authorized(op)
    /\ calls' = [calls EXCEPT ![c] =
                    [stage |-> "authorized", op |-> op, snap |-> NoRoom]]
    /\ UNCHANGED db

Begin(c) ==
    /\ calls[c].stage = "authorized"
    /\ Allowed(calls[c].op, db)
    /\ calls' = [calls EXCEPT ![c].stage = "open", ![c].snap = db]
    /\ UNCHANGED db

\* The account row is inserted first: with a second one for the room the
\* transaction fails.
AccountTaken(c) == calls[c].op.name = "check" /\ db.account

Commit(c) ==
    /\ IsOpen(c)
    /\ MayWrite(c)
    /\ ~AccountTaken(c)
    /\ LET read == calls[c].snap
       IN  db' = SaveDiff(db, read, Effect(calls[c].op, read))
    /\ calls' = [calls EXCEPT ![c] = Ended]

\* Mutant: the connection keeps what the transaction read.
RollbackHolding(c) ==
    /\ calls[c] \notin {Idle, Ended}
    /\ calls' = [calls EXCEPT ![c].stage = "ended"]
    /\ UNCHANGED db

\* The entity method throws, the transaction is the victim of a deadlock, or the
\* connection fails.
Rollback(c) ==
    /\ calls[c] \notin {Idle, Ended}
    /\ calls' = [calls EXCEPT ![c] = Ended]
    /\ UNCHANGED db

\* Bound: a transaction overlaps with the other calls of its wave, each of which
\* commits once, and the next wave starts when this one has ended.
NextWave ==
    /\ \A c \in Calls : calls[c] = Ended
    /\ calls' = [c \in Calls |-> Idle]
    /\ UNCHANGED db

Next ==
    \/ \E c \in Calls :
          \/ \E op \in Op : Authorize(c, op)
          \/ Begin(c)
          \/ Commit(c)
          \/ Rollback(c)
    \/ NextWave

Spec == Init /\ [][Next]_vars

-----------------------------------------------------------------------------
(* Properties                                                              *)

\* Nobody enters a room whose order is under way or closed, however a join and a
\* fixOrder overlap (room.service.spec.ts:347).
NobodyEntersAfterFix ==
    [][\A u \in CurrentParticipants(db') \ CurrentParticipants(db) :
        db.phase \in Open]_vars

\* An order is fixed only in a room that is ALL_READY at that moment, however
\* fixOrder overlaps with joins, leaves, kicks and readies being taken back.
FixedFromAllReady ==
    [][db.phase # "ORDER_FIX" /\ db'.phase = "ORDER_FIX" =>
        db.phase = "ALL_READY"]_vars

\* The users on the blacklist are the banned ones and none is a participant,
\* however a kick overlaps with other kicks and with what the user does himself.
BlacklistedAreBanned ==
    /\ \A u \in Users : u \in db.blackList <=> db.role[u] = "banned"
    /\ db.blackList \cap CurrentParticipants(db) = {}

\* A user comes by his own join and goes by a leave or a kick that is about him: no
\* call that saves an old copy of the participants puts another one out, or back in.
\* The exception is the leave of a user who is alone in the room he read: it removes
\* the room, and with it whoever has joined meanwhile (see README).
ComeAndGoByOwnCalls ==
    [][\A u \in Users : (u \in CurrentParticipants(db)) # (u \in CurrentParticipants(db')) =>
        \E c \in Calls :
            /\ IsOpen(c) /\ calls'[c] = Ended
            /\ \/ /\ calls[c].op.user = u
                  /\ calls[c].op.name \in IF u \in CurrentParticipants(db') THEN {"join"}
                                           ELSE {"leave", "kick", "voteKick"}
               \/ /\ calls[c].op.name = "leave" /\ db' = NoRoom
                  /\ CurrentParticipants(calls[c].snap) \subseteq {calls[c].op.user}]_vars

\* phaseGraph (room.entity.ts:157-173) and the description of order-fix
\* (room.controller.ts:439-441): once fixed, an order does not go back to where
\* participants may leave and take their ready back.
FixedOrderStaysFixed ==
    [][db.phase \in Ordering => db'.phase \notin Open]_vars
=============================================================================
