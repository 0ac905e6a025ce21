---------------------------- MODULE RoomService -----------------------------
(***************************************************************************)
(* RoomService (src/src/room/room.service.ts) behind the role guards of    *)
(* RoomController and UserController: every call is one committed          *)
(* transaction here (RoomTransactions looks inside a transaction).  What a *)
(* call leaves running when it returns is kept: doVote starts kick and     *)
(* resetRoom without awaiting them, so they are tasks that run at some     *)
(* later point, after any number of other calls.                           *)
(*                                                                         *)
(* A call whose guard is false throws and changes nothing.                 *)
(***************************************************************************)
EXTENDS RoomEntity, FiniteSetsExt

CONSTANTS
    Rooms,      \* room ids; an id without a room is free, or its room is gone
    Votes,      \* vote ids: bounds the votes a room can have in its lifetime
    Offline,    \* users that never opened a /room socket in this process
    Tips,       \* the delivery tips a purchaser may enter; CheckOrderDto lets any
                \* number through
    MaxMenus    \* bound on the menus of one participant

ASSUME ServiceAssumption ==
    /\ None \notin Rooms
    /\ Offline \subseteq Users
    /\ Tips \subseteq Int
    /\ MaxMenus \in Nat

VARIABLES
    rooms,      \* the room tables
    announced,  \* announced[r]: the last of ALL_READY / ALL_READY_CANCELED
                \* emitted for r was ALL_READY
    votes,      \* the vote tables
    tasks       \* kick and resetRoom calls that doVote started

vars == <<rooms, announced, votes, tasks>>

Opinions == {"none", "pending", "agree", "disagree"}    \* "none": not a voter

\* A vote row with its opinions; NoVote marks a free id.
VoteRow == [kind     : {"KICK", "RESET"},
            room     : Rooms,
            target   : Users \cup {None},
            opinion  : [Users -> Opinions],
            finished : BOOLEAN,
            result   : BOOLEAN]

Vote == {vote \in VoteRow : vote.kind = "KICK" <=> vote.target \in Users}

NoVote == [kind     |-> "none",
           room     |-> None,
           target   |-> None,
           opinion  |-> [u \in Users |-> "none"],
           finished |-> FALSE,
           result   |-> FALSE]

Task == [kind : {"KICK"}, room : Rooms, target : Users]
            \cup [kind : {"RESET"}, room : Rooms, target : {None}]

TypeOK ==
    /\ rooms \in [Rooms -> Room]
    /\ announced \in [Rooms -> BOOLEAN]
    /\ votes \in [Votes -> Vote \cup {NoVote}]
    /\ tasks \subseteq Task

Init ==
    /\ rooms = [r \in Rooms |-> NoRoom]
    /\ announced = [r \in Rooms |-> FALSE]
    /\ votes = [v \in Votes |-> NoVote]
    /\ tasks = {}

-----------------------------------------------------------------------------
(* Saving a room and what is emitted about it                              *)

\* Mutant: a room that is not all ready any more is not announced.
CheckAllReadyOnly(prev, current, before) ==
    before \/ (prev = "PREPARE" /\ current = "ALL_READY")

\* checkAllReadyOrCanceled(prev, current): the value of announced after it.
CheckAllReadyOrCanceled(prev, current, before) ==
    CASE prev = "ALL_READY" /\ current = "PREPARE" -> FALSE
      [] prev = "PREPARE" /\ current = "ALL_READY" -> TRUE
      [] OTHER -> before

Save(r, rm) == rooms' = [rooms EXCEPT ![r] = rm]

SaveAndCheckAllReady(r, rm) ==
    /\ Save(r, rm)
    /\ announced' = [announced EXCEPT ![r] =
                        CheckAllReadyOrCanceled(rooms[r].phase, rm.phase, @)]

\* The chat gateway's listener for USER_ENTER, USER_KICKED and
\* USER_KICKED_BY_VOTE throws for a user that has no socket ids; emit is
\* synchronous, so checkAllReadyOrCanceled, the next call, is not reached.
SaveAfterEmitting(r, rm, u) ==
    IF u \in Offline
    THEN Save(r, rm) /\ UNCHANGED announced
    ELSE SaveAndCheckAllReady(r, rm)

\* Removing the room removes its participants, votes, ... (ON DELETE CASCADE).
Remove(r) ==
    /\ Save(r, NoRoom)
    /\ announced' = [announced EXCEPT ![r] = FALSE]
    /\ votes' = [v \in Votes |-> IF votes[v].room = r THEN NoVote ELSE votes[v]]

-----------------------------------------------------------------------------
(* Participants                                                            *)

\* Ids are random uuids: a new room never gets the id a started task holds.
CreateRoom(u, r) ==
    /\ ~Exists(rooms[r])
    /\ \A t \in tasks : t.room # r
    /\ CreateAllowed(rooms, u)
    /\ Save(r, NewRoom(u))
    /\ UNCHANGED <<announced, votes, tasks>>

JoinRoom(u, r) ==
    /\ JoinAllowed(rooms[r], u)
    /\ ValidateJoin(rooms, u)
    /\ SaveAfterEmitting(r, Join(rooms[r], u), u)
    /\ UNCHANGED <<votes, tasks>>

LeaveRoom(u, r) ==
    /\ LeaveAllowed(rooms[r], u)
    /\ LET after == Leave(rooms[r], u) IN
       \/ /\ rooms[r].role[u] = "banned"
          /\ Save(r, after)
          /\ UNCHANGED <<announced, votes>>
       \/ /\ rooms[r].role[u] # "banned"
          /\ UserCount(after) = 0
          /\ Remove(r)
       \/ /\ rooms[r].role[u] # "banned"
          /\ UserCount(after) # 0
          /\ SaveAndCheckAllReady(r, after)
          /\ UNCHANGED votes
    /\ UNCHANGED tasks

\* OnlyForPurchaser on /:rid/kick.
KickByPurchaser(u, target, r) ==
    /\ rooms[r].role[u] = "purchaser"
    /\ KickAllowed(rooms[r], target, "KICKED_BY_PURCHASER")
    /\ SaveAfterEmitting(r, KickUser(rooms[r], target), target)
    /\ UNCHANGED <<votes, tasks>>

ToggleReady(u, r, ready) ==
    /\ ReadyAvailable(rooms[r], u)
    /\ SaveAndCheckAllReady(r, SetReady(rooms[r], u, ready))
    /\ UNCHANGED <<votes, tasks>>

\* OnlyForParticipant is about the caller, the row is that of the :uid of the URL.
\* menuRepository.save commits on a connection of its own before addMenu checks
\* the phase: the row stays, whatever the phase.
AddMenuTo(u, r) ==
    /\ \E caller \in Users : rooms[r].role[caller] \in ParticipantRoles
    /\ HasRow(rooms[r], u)
    /\ rooms[r].menus[u] < MaxMenus
    /\ Save(r, AddMenu(rooms[r], u))
    /\ UNCHANGED <<announced, votes, tasks>>

DeleteMenuOf(u, r) ==
    /\ \E caller \in Users : rooms[r].role[caller] \in ParticipantRoles
    /\ rooms[r].phase \in Open
    /\ rooms[r].menus[u] > 0
    /\ Save(r, DeleteMenu(rooms[r], u))
    /\ UNCHANGED <<announced, votes, tasks>>

-----------------------------------------------------------------------------
(* The order, all OnlyForPurchaser                                         *)

FixOrderOf(u, r) ==
    /\ rooms[r].role[u] = "purchaser"
    /\ CanTransitionTo(rooms[r], "ORDER_FIX")
    /\ Save(r, FixOrder(rooms[r]))
    /\ UNCHANGED <<announced, votes, tasks>>

UploadOrderImages(u, r) ==
    /\ rooms[r].role[u] = "purchaser"
    /\ Save(r, UploadScreenShot(rooms[r]))
    /\ UNCHANGED <<announced, votes, tasks>>

CheckOrderOf(u, r, amount) ==
    /\ rooms[r].role[u] = "purchaser"
    /\ CheckOrderAllowed(rooms[r])
    /\ Save(r, CheckOrder(rooms[r], amount))
    /\ UNCHANGED <<announced, votes, tasks>>

DoneOrderOf(u, r) ==
    /\ rooms[r].role[u] = "purchaser"
    /\ CanTransitionTo(rooms[r], "ORDER_DONE")
    /\ Save(r, DoneOrder(rooms[r]))
    /\ UNCHANGED <<announced, votes, tasks>>

-----------------------------------------------------------------------------
(* Votes                                                                   *)

OpenVotes(r) == {v \in Votes : votes[v].room = r /\ ~votes[v].finished}

\* The call doVote starts when the vote passes.
TaskOf(vote) == [kind |-> vote.kind, room |-> vote.room, target |-> vote.target]

\* createVote: opinions for every participant row except the users excluded,
\* those of users that left or were kicked included.
NewVote(kind, r, target, excluded) ==
    [NoVote EXCEPT !.kind = kind,
                   !.room = r,
                   !.target = target,
                   !.opinion = [u \in Users |->
                        IF HasRow(rooms[r], u) /\ u \notin excluded
                        THEN "pending" ELSE "none"]]

\* A vote that is finished and whose call has run is never read again to change
\* anything: its id serves for a later vote, which keeps Votes small.
FreeVote(v) ==
    \/ votes[v].kind = "none"
    \/ votes[v].finished /\ TaskOf(votes[v]) \notin tasks

RowCount(rm) == Cardinality({u \in Users : HasRow(rm, u)})

\* Mutant: does not look for a vote under way.
VoteAllowedAlways(u, r) ==
    /\ rooms[r].role[u] \in ParticipantRoles
    /\ rooms[r].phase \in Ordering

\* OnlyForParticipant, and what both createKickVote and createResetVote check.
VoteAllowed(u, r) ==
    /\ rooms[r].role[u] \in ParticipantRoles
    /\ OpenVotes(r) = {}
    /\ rooms[r].phase \in Ordering

CreateKickVote(u, target, r) ==
    /\ VoteAllowed(u, r)
    /\ RowCount(rooms[r]) >= 3
    /\ HasRow(rooms[r], target)
    /\ u = rooms[r].purchaser
    /\ \E v \in Votes :
          /\ FreeVote(v)
          /\ votes' = [votes EXCEPT ![v] = NewVote("KICK", r, target, {u, target})]
    /\ UNCHANGED <<rooms, announced, tasks>>

CreateResetVote(u, r) ==
    /\ VoteAllowed(u, r)
    /\ \E v \in Votes :
          /\ FreeVote(v)
          /\ votes' = [votes EXCEPT ![v] = NewVote("RESET", r, None, {u})]
    /\ UNCHANGED <<rooms, announced, tasks>>

\* checkFinished: unanimity of all opinions, or one disagreement.
Voters(vote) == {u \in Users : vote.opinion[u] # "none"}
\* Mutant: one agreement is enough.
PassedByOne(vote) == \E u \in Voters(vote) : vote.opinion[u] = "agree"
Passed(vote) == \A u \in Voters(vote) : vote.opinion[u] = "agree"
Refused(vote) == \E u \in Voters(vote) : vote.opinion[u] = "disagree"

\* Mutant: a refusal does not end the vote.
SubmitUnlessRefused(vote, u, opinion) ==
    LET with == [vote EXCEPT !.opinion[u] = opinion]
    IN  [with EXCEPT !.finished = Passed(with), !.result = Passed(with)]

Submit(vote, u, opinion) ==
    LET with == [vote EXCEPT !.opinion[u] = opinion]
    IN  [with EXCEPT !.finished = Refused(with) \/ Passed(with),
                     !.result = Passed(with)]

\* OnlyForParticipant is about the room in the URL, which need not be the room
\* of the vote.
DoVote(u, v, opinion) ==
    /\ \E r \in Rooms : rooms[r].role[u] \in ParticipantRoles
    /\ votes[v].kind # "none"
    /\ ~votes[v].finished
    /\ rooms[votes[v].room].phase \in Ordering
    /\ votes[v].opinion[u] = "pending"
    /\ LET after == Submit(votes[v], u, opinion) IN
       /\ votes' = [votes EXCEPT ![v] = after]
       /\ tasks' = IF after.result THEN tasks \cup {TaskOf(after)} ELSE tasks
    /\ UNCHANGED <<rooms, announced>>

\* kick(roomId, targetId, KICKED_BY_VOTE), started by doVote.
RunKick(t) ==
    /\ t.kind = "KICK"
    /\ KickAllowed(rooms[t.room], t.target, "KICKED_BY_VOTE")
    /\ SaveAfterEmitting(t.room, KickUser(rooms[t.room], t.target), t.target)
    /\ tasks' = tasks \ {t}
    /\ UNCHANGED votes

\* resetRoom(roomId), started by doVote; it emits nothing.
RunReset(t) ==
    /\ t.kind = "RESET"
    /\ Exists(rooms[t.room])
    /\ Save(t.room, Cancel(rooms[t.room]))
    /\ tasks' = tasks \ {t}
    /\ UNCHANGED <<announced, votes>>

\* The method throws (the room is gone), a query or the commit fails, the transaction
\* is the victim of a deadlock: it is rolled back, and the promise that rejects is
\* nobody's.  Nothing starts the call again.
FailTask(t) ==
    /\ tasks' = tasks \ {t}
    /\ UNCHANGED <<rooms, announced, votes>>

-----------------------------------------------------------------------------
ParticipantStep ==
    \E r \in Rooms, u \in Users :
        \/ CreateRoom(u, r)
        \/ JoinRoom(u, r)
        \/ LeaveRoom(u, r)
        \/ \E target \in Users : KickByPurchaser(u, target, r)
        \/ \E ready \in BOOLEAN : ToggleReady(u, r, ready)
        \/ AddMenuTo(u, r)
        \/ DeleteMenuOf(u, r)

OrderStep ==
    \E r \in Rooms, u \in Users :
        \/ FixOrderOf(u, r)
        \/ UploadOrderImages(u, r)
        \/ \E amount \in Tips : CheckOrderOf(u, r, amount)
        \/ DoneOrderOf(u, r)

VoteStep ==
    \/ \E r \in Rooms, u \in Users :
          \/ \E target \in Users : CreateKickVote(u, target, r)
          \/ CreateResetVote(u, r)
    \/ \E v \in Votes, u \in Users, opinion \in {"agree", "disagree"} :
          DoVote(u, v, opinion)

RunTask(t) == t \in tasks /\ (RunKick(t) \/ RunReset(t) \/ FailTask(t))
TaskStep == \E t \in tasks : RunTask(t)

Next == ParticipantStep \/ OrderStep \/ VoteStep \/ TaskStep

Spec == Init /\ [][Next]_vars

-----------------------------------------------------------------------------
(* Properties                                                              *)

\* Until the order is fixed, the phase says ALL_READY exactly when every
\* participant but the purchaser is ready and nobody is alone: join, leave, kick
\* and setReady all call updateAllReadyState on what they leave behind.
PhaseTellsReadiness ==
    \A r \in Rooms : rooms[r].phase \in Open =>
        (rooms[r].phase = "ALL_READY" <=> IsAllReady(rooms[r]))

\* An order that was fixed has no participant who is not ready: nobody can join,
\* rejoin or take the ready back once the phase has left ALL_READY.
FixedOrderIsReady ==
    \A r \in Rooms : rooms[r].phase \in Ordering \cup {"ORDER_DONE"} =>
        \A u \in CurrentParticipants(rooms[r]) \ {rooms[r].purchaser} :
            rooms[r].isReady[u]

\* A user on the blacklist of a room never is a participant of it again, whether
\* he was kicked while in the room, after he had left, or leaves afterwards.
BlacklistedStaysOut ==
    \A r \in Rooms : rooms[r].blackList \cap CurrentParticipants(rooms[r]) = {}

\* The last all-ready / all-ready-canceled event tells the phase the room is in.
AnnouncedIsPhase ==
    \A r \in Rooms : rooms[r].phase \in Open =>
        (announced[r] <=> rooms[r].phase = "ALL_READY")

\* The purchaser of a room that is not closed has no part in any other room that
\* is not closed: create and join both check it, over the rooms of the user.
PurchaserHasOneRoom ==
    \A r, q \in Rooms, u \in Users :
        /\ r # q
        /\ rooms[r].role[u] = "purchaser"
        /\ HasRow(rooms[q], u)
        /\ rooms[r].phase \notin Closed
        => rooms[q].phase \in Closed

\* A room that can be joined has its purchaser in it: he cannot leave it to
\* others, and it is removed when he leaves alone.
OpenRoomHasPurchaser ==
    \A r \in Rooms : rooms[r].phase \in Open =>
        rooms[r].purchaser \in CurrentParticipants(rooms[r])

\* Kick and reset votes together, a room has one vote under way at most.
OneOpenVote ==
    \A r \in Rooms : \A v, w \in OpenVotes(r) : v = w

Unanimous(v) == votes[v].result /\ Passed(votes[v])

\* While the order is under way the participants are fixed, except that a kick
\* vote that ended unanimously takes its target out.
OrderLosesMembersByVoteOnly ==
    [][\A r \in Rooms : rooms[r].phase \in Ordering =>
        LET before == CurrentParticipants(rooms[r])
            after == CurrentParticipants(rooms'[r])
        IN  /\ after \subseteq before
            /\ \A u \in before \ after : \E v \in Votes :
                  /\ votes[v].kind = "KICK" /\ votes[v].room = r
                  /\ votes[v].target = u /\ Unanimous(v)]_vars

\* An order under way ends as done, from ORDER_CHECK, or as canceled by a reset
\* vote that ended unanimously; it never goes back to an earlier phase.
OrderEndsDoneOrByReset ==
    [][\A r \in Rooms : rooms[r].phase \in Ordering =>
        \/ rooms'[r].phase = rooms[r].phase
        \/ rooms[r].phase = "ORDER_FIX" /\ rooms'[r].phase = "ORDER_CHECK"
        \/ rooms[r].phase = "ORDER_CHECK" /\ rooms'[r].phase = "ORDER_DONE"
        \/ /\ rooms'[r].phase = "ORDER_CANCELED"
           /\ \E v \in Votes : /\ votes[v].kind = "RESET"
                               /\ votes[v].room = r /\ Unanimous(v)]_vars

\* The shares checkOrder writes never come to more than the tip, lose less of it
\* to rounding than there are participants, and nobody in the room is left out;
\* this stays so when a share holder is kicked, and after the order is done.
Holders(rm) == {u \in Users : rm.tip[u] # NoTip}
TipIsShared ==
    \A r \in Rooms : rooms[r].phase \in {"ORDER_CHECK", "ORDER_DONE"} =>
        LET holders == Holders(rooms[r])
            total == MapThenSumSet(LAMBDA u : rooms[r].tip[u], holders)
        IN  /\ CurrentParticipants(rooms[r]) \subseteq holders
            /\ total <= rooms[r].deliveryTip
            /\ rooms[r].deliveryTip < total + Cardinality(holders)

\* The effect of a vote that passed: the target is blacklisted, or the room is
\* canceled (a room that is removed takes its votes with it).
TookEffect(v) ==
    CASE votes[v].kind = "KICK" ->
            votes[v].target \in rooms[votes[v].room].blackList
      [] votes[v].kind = "RESET" -> rooms[votes[v].room].phase = "ORDER_CANCELED"
      [] OTHER -> TRUE

-----------------------------------------------------------------------------
(* RoomService implements RoomLife                                         *)

LifeOf(phase) ==
    CASE phase = "none" -> "none"
      [] phase \in Open -> "gathering"
      [] phase \in Ordering -> "underway"
      [] phase \in Closed -> "closed"

Life == INSTANCE RoomLife WITH
    life    <- [r \in Rooms |-> LifeOf(rooms[r].phase)],
    members <- [r \in Rooms |-> CurrentParticipants(rooms[r])],
    barred  <- [r \in Rooms |-> rooms[r].blackList]

\* Every call is a step of RoomLife or leaves what RoomLife sees alone: readiness,
\* menus, votes and the calls that votes start come down to people who come, go
\* and are put out as RoomLife allows.
ImplementsRoomLife == Life!Spec

-----------------------------------------------------------------------------
(* What the comments and the tests of the code say and the code does not do *)

\* KickVoteFactory.ts:52: the voters are the participating members except the
\* one who asks and the target.
KickVotersParticipate ==
    [][\A v \in Votes :
        /\ votes'[v] # votes[v]
        /\ votes'[v].kind = "KICK"
        /\ \A u \in Voters(votes'[v]) : votes'[v].opinion[u] = "pending"
        =>
            Voters(votes'[v]) \subseteq CurrentParticipants(rooms[votes'[v].room])]_vars

\* room.entity.ts:403-404: of the rooms a user takes part in, one at most is
\* between ALL_READY and ORDER_CHECK.
OneRoomInProgress ==
    \A r, q \in Rooms : \A u \in CurrentParticipants(rooms[r])
                                   \cap CurrentParticipants(rooms[q]) :
        rooms[r].phase \in Ordering /\ rooms[q].phase \in Ordering => r = q

\* room.entity.ts:172: no phase follows ORDER_DONE.
DoneIsFinal ==
    [][\A r \in Rooms : rooms[r].phase = "ORDER_DONE" =>
        rooms'[r].phase \in {"ORDER_DONE", "none"}]_vars
=============================================================================
