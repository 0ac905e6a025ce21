------------------------------ MODULE RoomEmits ------------------------------
(***************************************************************************)
(* What RoomService emits (src/src/room/room.service.ts): the events, and  *)
(* what the modules of the listeners share.  emit is synchronous: right    *)
(* after the commit every listener starts, and those that await a query    *)
(* are then still running while other calls commit.  Which call emits      *)
(* which event is in RoomEvents.                                           *)
(*                                                                         *)
(* The votes are left out, and with them the calls that votes start.       *)
(***************************************************************************)
EXTENDS RoomService, Bags

CONSTANT MaxRunning     \* bound on the listeners that run at the same time

VARIABLES
    created,    \* the ids that were given to a room: each is given once
    topic       \* the listeners a behaviour is about: they do not read what the
                \* others write, so the others may be left out of it

ASSUME EverybodyConnected == Offline = {} /\ Votes = {}

EventTypes == {"CREATE", "DELETED", "USER_ENTER", "USER_LEAVE", "USER_KICKED",
               "MENU_UPDATE", "ORDER_FIXED", "ORDER_CHECKED", "ORDER_DONE"}

Event(type, r, u) == [type |-> type, room |-> r, user |-> u]

\* updateMenu: the price of a menu, which is not looked at here, and the event.
UpdateMenuOf(u, r) ==
    /\ \E caller \in Users : rooms[r].role[caller] \in ParticipantRoles
    /\ rooms[r].phase \in Open
    /\ rooms[r].menus[u] > 0
    /\ UNCHANGED vars

\* leaveRoom emits one of three things, the last of them nothing.
LeaveEvents(u, r) ==
    CASE rooms[r].role[u] = "banned" -> {}
      [] rooms[r].role[u] # "banned" /\ ~Exists(rooms'[r]) -> {Event("DELETED", r, u)}
      [] OTHER -> {Event("USER_LEAVE", r, u)}

\* addMenu throws after it has saved the menu when the order is fixed.
AddMenuEvents(u, r) ==
    IF rooms[r].phase \in Open THEN {Event("MENU_UPDATE", r, u)} ELSE {}

\* A bag of listeners, and those of them that are about room r.
Starting(running, listeners) == running (+) SetToBag(listeners)
Settled(running, listener) == running (-) SetToBag({listener})
About(running, r) == {listener \in BagToSet(running) : listener.room = r}
=============================================================================
