---------------------------- MODULE UserDeletion -----------------------------
(***************************************************************************)
(* UserService.deleteUser (src/src/user/user.service.ts) beside the calls  *)
(* of RoomService.  It has no transaction: the user is loaded with his     *)
(* rooms and checked, his OAuth rows are deleted, the user is saved, each  *)
(* step a query of its own with other calls in between.  Then the listener *)
(* of RoomService erases the bank accounts of the rooms he purchased, room *)
(* after room.  The token of a deleted user stays valid, and joinRoom and  *)
(* createRoom load their user whether he is deleted or not, so what he     *)
(* does in between, or afterwards, is not excluded.                        *)
(* The OAuth rows and what logging in finds are in Accounts.               *)
(***************************************************************************)
EXTENDS RoomService

VARIABLES
    stage,      \* stage[u]: how far deleteUser of u is
    todo,       \* todo[u]: the purchased rooms in the copy deleteUser loaded
    erasing,    \* erasing[u]: the room whose account row the listener has read
    erased,     \* erased[r]: the account of r does not name its holder any more
    failed,     \* the users whose listener rejected before it was done
    entered     \* the users that came into a room after deleteUser had loaded them

deletionVars == <<stage, todo, erasing, erased, failed, entered>>
allVars == <<vars, deletionVars>>

Stages == {"active", "loaded", "unlinked", "deleted"}

DeletionTypeOK ==
    /\ stage \in [Users -> Stages]
    /\ todo \in [Users -> SUBSET Rooms]
    /\ erasing \in [Users -> Rooms \cup {None}]
    /\ erased \in [Rooms -> BOOLEAN]
    /\ failed \subseteq Users
    /\ entered \subseteq Users

DeletionInit ==
    /\ Init
    /\ stage = [u \in Users |-> "active"]
    /\ todo = [u \in Users |-> {}]
    /\ erasing = [u \in Users |-> None]
    /\ erased = [r \in Rooms |-> FALSE]
    /\ failed = {}
    /\ entered = {}

-----------------------------------------------------------------------------
\* Mutant: the rooms of others he takes part in are not looked at.
DeletePurchasersAllowed(u) ==
    \A r \in Rooms : rooms[r].role[u] = "purchaser" => rooms[r].phase \in Closed

\* UserEntity.delete: every row of the user counts, whatever its role and state.
DeleteAllowed(u) ==
    \A r \in Rooms : HasRow(rooms[r], u) => rooms[r].phase \in Closed

\* Mutant: only the rooms he still is in.
PresentPurchases(u) ==
    {r \in Rooms : rooms[r].role[u] = "purchaser" /\ rooms[r].state[u] = "joined"}

\* A purchaser who was banned by a vote is not among the rows the listener takes.
Purchases(u) == {r \in Rooms : rooms[r].role[u] = "purchaser"}

LoadUser(u) ==
    /\ stage[u] = "active"
    /\ DeleteAllowed(u)
    /\ stage' = [stage EXCEPT ![u] = "loaded"]
    /\ todo' = [todo EXCEPT ![u] = Purchases(u)]
    /\ UNCHANGED <<vars, erasing, erased, failed, entered>>

DeleteOauth(u) ==
    /\ stage[u] = "loaded"
    /\ stage' = [stage EXCEPT ![u] = "unlinked"]
    /\ UNCHANGED <<vars, todo, erasing, erased, failed, entered>>

\* The save, and DELETED right after it.
SaveDeleted(u) ==
    /\ stage[u] = "unlinked"
    /\ stage' = [stage EXCEPT ![u] = "deleted"]
    /\ UNCHANGED <<vars, todo, erasing, erased, failed, entered>>

\* A query of deleteUser fails (the save does, for one, when TypeORM finds rows of
\* the user that are not in the copy): what is done stays done.
FailDelete(u) ==
    /\ stage[u] \in {"loaded", "unlinked"}
    /\ stage' = [stage EXCEPT ![u] = "active"]
    /\ todo' = [todo EXCEPT ![u] = {}]
    /\ entered' = entered \ {u}
    /\ UNCHANGED <<vars, erasing, erased, failed>>

\* The listener goes over the rooms in the order the query returned them.
FindAccount(u, r) ==
    /\ stage[u] = "deleted"
    /\ erasing[u] = None
    /\ r \in todo[u]
    /\ IF rooms[r].account
       THEN erasing' = [erasing EXCEPT ![u] = r] /\ UNCHANGED todo
       ELSE todo' = [todo EXCEPT ![u] = @ \ {r}] /\ UNCHANGED erasing
    /\ UNCHANGED <<vars, stage, erased, failed, entered>>

\* When the room has been removed meanwhile, with its account, save inserts the
\* row again and the foreign key refuses it: the listener stops where it is.
SaveAccount(u) ==
    /\ erasing[u] # None
    /\ erasing' = [erasing EXCEPT ![u] = None]
    /\ IF rooms[erasing[u]].account
       THEN /\ erased' = [erased EXCEPT ![erasing[u]] = TRUE]
            /\ todo' = [todo EXCEPT ![u] = @ \ {erasing[u]}]
            /\ UNCHANGED failed
       ELSE /\ failed' = failed \cup {u}
            /\ todo' = [todo EXCEPT ![u] = {}]
            /\ UNCHANGED erased
    /\ UNCHANGED <<vars, stage, entered>>

\* A call of RoomService by anybody, the user being deleted included.  An id is
\* not used for a new room while a listener still holds it (ids are uuids).
RoomCall ==
    /\ Next
    /\ \A r \in Rooms : Exists(rooms'[r]) /\ ~Exists(rooms[r]) =>
          \A u \in Users : r \notin todo[u]
    /\ erased' = [r \in Rooms |-> erased[r] /\ rooms'[r].account]
    /\ entered' = entered \cup
          {u \in Users : /\ stage[u] # "active"
                         /\ \E r \in Rooms : u \in CurrentParticipants(rooms'[r])
                                                \ CurrentParticipants(rooms[r])}
    /\ UNCHANGED <<stage, todo, erasing, failed>>

DeletionNext ==
    \/ \E u \in Users :
          \/ LoadUser(u) \/ DeleteOauth(u) \/ SaveDeleted(u) \/ FailDelete(u)
          \/ \E r \in Rooms : FindAccount(u, r)
          \/ SaveAccount(u)
    \/ RoomCall

DeletionSpec == DeletionInit /\ [][DeletionNext]_allVars

-----------------------------------------------------------------------------
(* Properties                                                              *)

\* A user who enters no room once his deletion has begun leaves no room behind
\* that is not closed (user.entity.ts:62): the rooms that deleteUser found closed
\* do not open again, whatever the others do before and after the user is saved.
DeletedLeaveOpenRoomsAlone ==
    \A u \in Users : stage[u] # "active" /\ u \notin entered =>
        \A r \in Rooms : HasRow(rooms[r], u) => rooms[r].phase \in Closed

\* When the listener is done, no room the deleted user is the purchaser of shows his
\* bank account, unless a room vanished under the listener, or he entered another.
DeletedAccountsAreErased ==
    \A u \in Users :
        stage[u] = "deleted" /\ todo[u] = {} /\ u \notin failed \cup entered =>
            \A r \in Rooms : rooms[r].role[u] = "purchaser" /\ rooms[r].account
                                => erased[r]
=============================================================================
