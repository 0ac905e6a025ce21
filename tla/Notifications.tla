---------------------------- MODULE Notifications ----------------------------
(***************************************************************************)
(* The notifications NotificationService keeps of an order                 *)
(* (src/src/notification/notification.service.ts).  Its listeners get the  *)
(* id of the room, read the room anew, and save a notification for each    *)
(* of its current participants.  The pushes that go with them are left     *)
(* out: they change nothing.                                               *)
(***************************************************************************)
EXTENDS RoomEmits

VARIABLES
    notified,       \* notified[type][r]: the users with a notification
    newsRunning     \* the listeners that have not read the room

newsVars == <<notified, newsRunning>>

NewsTypes == {"ORDER_FIXED", "ORDER_CHECKED", "ORDER_DONE"}
News == [type : NewsTypes, room : Rooms]

NewsTypeOK ==
    /\ notified \in [NewsTypes -> [Rooms -> SUBSET Users]]
    /\ BagToSet(newsRunning) \subseteq News

NewsInit ==
    /\ notified = [type \in NewsTypes |-> [r \in Rooms |-> {}]]
    /\ newsRunning = EmptyBag

NewsHear(events) ==
    LET starting == {[type |-> e.type, room |-> e.room] :
                        e \in {x \in events : x.type \in NewsTypes}}
    IN  /\ BagCardinality(newsRunning) + Cardinality(starting) <= MaxRunning
        /\ newsRunning' = Starting(newsRunning, starting)
        /\ UNCHANGED notified

\* Mutant: the participants but the purchaser, who has called for it.
RecipientsButPurchaser(rm) == CurrentParticipants(rm) \ {rm.purchaser}

\* findRoomById returns nothing for a room that is gone: the listener throws.
Recipients(rm) == CurrentParticipants(rm)

Notify(n) ==
    /\ notified' = [notified EXCEPT ![n.type][n.room] = @ \cup Recipients(rooms[n.room])]
    /\ newsRunning' = Settled(newsRunning, n)

NewsStep == \E n \in BagToSet(newsRunning) : Notify(n)

-----------------------------------------------------------------------------
(* Properties                                                              *)

\* The news a participant has to have in each phase.
NewsOf(phase) ==
    CASE phase = "ORDER_FIX" -> {"ORDER_FIXED"}
      [] phase = "ORDER_CHECK" -> {"ORDER_FIXED", "ORDER_CHECKED"}
      [] phase = "ORDER_DONE" -> NewsTypes
      [] OTHER -> {}

\* When the listeners have settled, everybody in a room has been notified of what
\* became of the order, though the listeners read the room long after the call:
\* from the fixed order on nobody comes in (notification.service.ts:45-121).
ParticipantsHaveTheNews ==
    topic = "news" => \A r \in Rooms : About(newsRunning, r) = {} =>
        \A type \in NewsOf(rooms[r].phase) :
            CurrentParticipants(rooms[r]) \subseteq notified[type][r]
=============================================================================
