----------------------------- MODULE RoomEntity -----------------------------
(***************************************************************************)
(* The room aggregate: RoomEntity with its ParticipantEntity rows, its     *)
(* blacklist, its order screenshots and its account                        *)
(* (src/src/room/entity/room.entity.ts, participant.entity.ts).            *)
(*                                                                         *)
(* The methods of the entity are pure operators over a record: XAllowed    *)
(* is the conjunction of the conditions under which method x does not      *)
(* throw, X(rm, ...) is the record it leaves.  The participant rows of a   *)
(* room are functions of the user, with role "none" where there is no row: *)
(* the methods look a row up by userId, and none of them adds a second one *)
(* for the same user.                                                      *)
(*                                                                         *)
(* An operator marked "mutant" is the one below it with a mistake the code *)
(* could have had; nothing uses it, except to see that the properties the  *)
(* README lists notice the mistake.                                        *)
(***************************************************************************)
EXTENDS Integers, FiniteSets

CONSTANTS
    Users,          \* the user ids
    None,           \* NULL: the purchaser of a room that does not exist, a share of
                    \* the tip that was not given
    UniversityOf    \* UniversityOf[u] is the universityId of user u

ASSUME UsersAssumption == IsFiniteSet(Users) /\ None \notin Users \cup Int

-----------------------------------------------------------------------------
(* RoomState, RoomRole and State, with the groups of phases onlyAt names.  *)

Open == {"PREPARE", "ALL_READY"}
Ordering == {"ORDER_FIX", "ORDER_CHECK"}
Closed == {"ORDER_DONE", "ORDER_CANCELED"}
Phases == Open \cup Ordering \cup Closed

Roles == {"purchaser", "member", "banned"}
States == {"joined", "left", "kicked"}

\* The roles OnlyForParticipant lets through.
ParticipantRoles == {"purchaser", "member"}

NoTip == None    \* participant.deliveryTip IS NULL

(* A row of the room table with the rows that belong to it.  phase is      *)
(* "none" for an id at which there is no room (not yet, or not any more).  *)
Room == [phase       : Phases \cup {"none"},
         purchaser   : Users \cup {None},
         role        : [Users -> Roles \cup {"none"}],
         state       : [Users -> States \cup {"none"}],
         isReady     : [Users -> BOOLEAN],
         menus       : [Users -> Nat],
         tip         : [Users -> Int \cup {NoTip}],
         blackList   : SUBSET Users,
         deliveryTip : Int,
         screenShots : BOOLEAN,
         account     : BOOLEAN]

NoRoom == [phase       |-> "none",
           purchaser   |-> None,
           role        |-> [u \in Users |-> "none"],
           state       |-> [u \in Users |-> "none"],
           isReady     |-> [u \in Users |-> FALSE],
           menus       |-> [u \in Users |-> 0],
           tip         |-> [u \in Users |-> NoTip],
           blackList   |-> {},
           deliveryTip |-> 0,
           screenShots |-> FALSE,
           account     |-> FALSE]

Exists(rm) == rm.phase # "none"
HasRow(rm, u) == rm.role[u] # "none"
CurrentParticipants(rm) ==
    {u \in Users : rm.role[u] \in ParticipantRoles /\ rm.state[u] = "joined"}
UserCount(rm) == Cardinality(CurrentParticipants(rm))

-----------------------------------------------------------------------------
(* Phases                                                                  *)

PhaseGraph == [PREPARE        |-> {"ALL_READY"},
               ALL_READY      |-> {"PREPARE", "ORDER_FIX"},
               ORDER_FIX      |-> {"ALL_READY", "ORDER_CHECK"},
               ORDER_CHECK    |-> {"ALL_READY", "ORDER_DONE"},
               ORDER_DONE     |-> {},
               ORDER_CANCELED |-> {}]

CanTransitionTo(rm, phase) ==
    /\ Exists(rm)
    /\ rm.phase = phase \/ phase \in PhaseGraph[rm.phase]

IsAllReady(rm) ==
    /\ UserCount(rm) > 1
    /\ \A u \in CurrentParticipants(rm) \ {rm.purchaser} : rm.isReady[u]

\* Mutant: the guard on the phase is gone.
UpdateAllReadyStateAlways(rm) ==
    [rm EXCEPT !.phase = IF IsAllReady(rm) THEN "ALL_READY" ELSE "PREPARE"]

UpdateAllReadyState(rm) ==
    IF rm.phase \in Open
    THEN [rm EXCEPT !.phase = IF IsAllReady(rm) THEN "ALL_READY" ELSE "PREPARE"]
    ELSE rm

Cancel(rm) ==
    [rm EXCEPT !.phase = "ORDER_CANCELED",
               !.isReady = [u \in Users |-> FALSE]]

FixOrder(rm) == [rm EXCEPT !.phase = "ORDER_FIX"]

\* A second account row for the room breaks the unique index of the one-to-one
\* relation and rolls the transaction back.
CheckOrderAllowed(rm) ==
    /\ CanTransitionTo(rm, "ORDER_CHECK")
    /\ rm.screenShots
    /\ ~rm.account

\* Mutant: rounds up.
TipShareUp(rm, amount) == (amount + UserCount(rm) - 1) \div UserCount(rm)

TipShare(rm, amount) == amount \div UserCount(rm)

CheckOrder(rm, amount) ==
    [rm EXCEPT !.phase = "ORDER_CHECK",
               !.deliveryTip = amount,
               !.account = TRUE,
               !.tip = [u \in Users |-> IF u \in CurrentParticipants(rm)
                                        THEN TipShare(rm, amount)
                                        ELSE @[u]]]

DoneOrder(rm) == [rm EXCEPT !.phase = "ORDER_DONE"]

-----------------------------------------------------------------------------
(* Participants                                                            *)

NewRoom(u) ==
    [NoRoom EXCEPT !.phase = "PREPARE",
                   !.purchaser = u,
                   !.role[u] = "purchaser",
                   !.state[u] = "joined"]

\* Mutant: looks at the rooms the user created only.
CreateAllowedToMembers(all, u) ==
    \A r \in DOMAIN all : all[r].role[u] = "purchaser" => all[r].phase \in Closed

\* create looks at every participation of the user, whatever its role and state.
CreateAllowed(all, u) ==
    \A r \in DOMAIN all : HasRow(all[r], u) => all[r].phase \in Closed

\* validateJoin over user.rooms: rows of rooms the user has left count as well,
\* rows with role BANNED do not.
ValidateJoin(all, u) ==
    \A r \in DOMAIN all :
        /\ all[r].role[u] = "purchaser" => all[r].phase \in Closed
        /\ all[r].role[u] = "member" =>
              \/ all[r].phase \in Closed
              \/ all[r].phase = "PREPARE" /\ ~all[r].isReady[u]

\* Mutant: the blacklist is not looked at.
JoinAllowedToBanned(rm, u) ==
    /\ rm.phase \in Open
    /\ u \notin CurrentParticipants(rm)
    /\ UniversityOf[u] = UniversityOf[rm.purchaser]

JoinAllowed(rm, u) ==
    /\ rm.phase \in Open
    /\ u \notin rm.blackList
    /\ u \notin CurrentParticipants(rm)
    /\ UniversityOf[u] = UniversityOf[rm.purchaser]

\* A row that is already there (state LEFT) keeps its isReady and its menus.
Join(rm, u) ==
    UpdateAllReadyState([rm EXCEPT !.role[u] = "member", !.state[u] = "joined"])

\* Mutant: the purchaser may leave the others behind.
LeaveAllowedToPurchaser(rm, u) ==
    /\ rm.phase \in Open \cup Closed
    /\ HasRow(rm, u)
    /\ (rm.phase \in Open /\ rm.role[u] = "member") => ~rm.isReady[u]

\* Mutant: the phase is not checked.
LeaveAllowedAnytime(rm, u) ==
    /\ HasRow(rm, u)
    /\ rm.phase \in Open =>
          /\ rm.role[u] = "purchaser" => UserCount(rm) <= 1
          /\ rm.role[u] = "member" => ~rm.isReady[u]

LeaveAllowed(rm, u) ==
    /\ rm.phase \in Open \cup Closed
    /\ HasRow(rm, u)
    /\ rm.phase \in Open =>
          /\ rm.role[u] = "purchaser" => UserCount(rm) <= 1
          /\ rm.role[u] = "member" => ~rm.isReady[u]

\* Mutant: updateAllReadyState is not called.
LeaveSilently(rm, u) == [rm EXCEPT !.state[u] = "left"]

Leave(rm, u) == UpdateAllReadyState([rm EXCEPT !.state[u] = "left"])

\* Mutant: the phase is not checked.
KickAllowedAlways(rm, target, reason) ==
    /\ Exists(rm)
    /\ HasRow(rm, target)
    /\ reason = "KICKED_BY_PURCHASER" => target # rm.purchaser

\* Mutant: the phase is checked whatever the reason.
KickAllowedOpenOnly(rm, target, reason) ==
    /\ rm.phase \in Open
    /\ HasRow(rm, target)
    /\ target # rm.purchaser

\* The phase and the purchaser are checked for KICKED_BY_PURCHASER only.
KickAllowed(rm, target, reason) ==
    /\ Exists(rm)
    /\ HasRow(rm, target)
    /\ reason = "KICKED_BY_PURCHASER" =>
          rm.phase \in Open /\ target # rm.purchaser

KickUser(rm, target) ==
    UpdateAllReadyState([rm EXCEPT !.blackList = @ \cup {target},
                                   !.role[target] = "banned",
                                   !.state[target] = "kicked"])

\* Mutant: the phase is not checked.
ReadyAvailableAlways(rm, u) == rm.role[u] = "member" /\ rm.menus[u] > 0

\* checkReadyAvailable does not look at the state of the row.
ReadyAvailable(rm, u) ==
    /\ rm.phase \in Open
    /\ rm.role[u] = "member"
    /\ rm.menus[u] > 0

SetReady(rm, u, ready) == UpdateAllReadyState([rm EXCEPT !.isReady[u] = ready])

AddMenu(rm, u) == [rm EXCEPT !.menus[u] = @ + 1]
\* Mutant: one menu too many is deleted.
DeleteMenus(rm, u) == [rm EXCEPT !.menus[u] = @ - 2]
DeleteMenu(rm, u) == [rm EXCEPT !.menus[u] = @ - 1]
UploadScreenShot(rm) == [rm EXCEPT !.screenShots = TRUE]
=============================================================================
