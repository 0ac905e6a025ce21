-------------------------- MODULE RoomEventsProofs ---------------------------
(***************************************************************************)
(* Theorems about RoomEvents for any users, rooms and sockets and any      *)
(* number of listeners that run at once.  What the events of a call tell   *)
(* about what it did is stated and proved once (CallTells); the theorems   *)
(* about a listener use nothing else of the call.                          *)
(***************************************************************************)
EXTENDS RoomEvents, RoomLifeProofs

-----------------------------------------------------------------------------
(* What the events tell                                                    *)

Fixed == Ordering \cup {"ORDER_DONE"}

\* A call that leaves new where rm was has emitted who came and who was put out,
\* and, of an order that is fixed, what became of it; nobody comes in then.  A room
\* that is gone is told of, and one that is new has an id nobody had.
Told(r, rm, new, events) ==
    /\ \A u \in CurrentParticipants(new) \ CurrentParticipants(rm) :
          Event("USER_ENTER", r, u) \in events
    /\ \A u \in Users : new.role[u] = "banned" =>
          rm.role[u] = "banned" \/ Event("USER_KICKED", r, u) \in events
    /\ \A e \in events : e.room = r =>
          /\ e.type = "USER_KICKED" => new.role[e.user] = "banned"
          /\ e.type = "USER_ENTER" => new.role[e.user] \in ParticipantRoles
    /\ new.phase \in Fixed =>
          /\ CurrentParticipants(new) \subseteq CurrentParticipants(rm)
          /\ \A type \in NewsOf(new.phase) :
                type \in NewsOf(rm.phase) \/ \E u : Event(type, r, u) \in events
    /\ Exists(rm) => Exists(new) \/ \E u : Event("DELETED", r, u) \in events
    /\ Exists(new) => Exists(rm) \/ r \notin created

ToPrice == {"USER_ENTER", "USER_LEAVE", "USER_KICKED", "MENU_UPDATE"}

\* What the feed goes by: a room is told of when it is made, when its price may be
\* another one, and when it is fixed; that is told alone.
Priced(r, rm, new, events) ==
    /\ \A e \in events : e.room = r =>
          /\ Exists(rm) \/ Exists(new)
          /\ Exists(new) => e.type # "DELETED"
          /\ e.type = "CREATE" => ~Exists(rm)
          /\ e.type = "ORDER_FIXED" =>
                /\ new.phase \notin Open
                /\ \A d \in events : d.room = r => d.type = "ORDER_FIXED"
    /\ Exists(new) =>
          /\ ~Exists(rm) => /\ new.phase \in Open /\ TotalPrice(new) = 0
                            /\ \E u : Event("CREATE", r, u) \in events
          /\ rm.phase \in Open /\ new.phase \in Open =>
                \/ TotalPrice(new) = TotalPrice(rm)
                \/ \E e \in events : e.room = r /\ e.type \in ToPrice
          /\ rm.phase \in Open /\ new.phase \notin Open =>
                \E u : Event("ORDER_FIXED", r, u) \in events
          /\ Exists(rm) /\ rm.phase \notin Open => new.phase \notin Open

Movers == {"USER_ENTER", "USER_LEAVE", "USER_KICKED"}

\* What the chat goes by: who comes and who goes, and nothing else.
Moved(r, rm, new, events) ==
    /\ \A e \in events : e.room = r =>
          /\ e.type = "USER_ENTER" =>
                e.user \in CurrentParticipants(new) \ CurrentParticipants(rm)
          /\ e.type \in {"USER_LEAVE", "USER_KICKED"} =>
                e.user \notin CurrentParticipants(new)
    /\ Exists(new) => \A u \in CurrentParticipants(rm) \ CurrentParticipants(new) :
          Event("USER_LEAVE", r, u) \in events \/ Event("USER_KICKED", r, u) \in events

\* One call moves one user at most.
OneMoves(events) ==
    /\ \A e \in events : e.user \in Users
    /\ \A d, e \in events : d.type \in Movers /\ e.type \in Movers => d = e

Tells(events) ==
    /\ \A r \in Rooms : /\ Told(r, rooms[r], rooms'[r], events)
                         /\ Priced(r, rooms[r], rooms'[r], events)
                         /\ Moved(r, rooms[r], rooms'[r], events)
    /\ OneMoves(events)
    /\ \A e \in events : e.room \in Rooms

OnlyAbout(r, events) == \A e \in events : e.room = r

PriceOf(menus, members) == MapThenSumSet(LAMBDA u : menus[u], members)

LEMMA PriceIs ==
    ASSUME NEW rm
    PROVE  TotalPrice(rm) = PriceOf(rm.menus, CurrentParticipants(rm))
BY DEF TotalPrice, PriceOf

LEMMA PriceOfEqualMenus ==
    ASSUME NEW rm, IsFiniteSet(CurrentParticipants(rm)), NEW c \in Nat,
           \A u \in CurrentParticipants(rm) : rm.menus[u] = c
    PROVE  TotalPrice(rm) = c * Cardinality(CurrentParticipants(rm))
<1> PICK n \in Int : n = c
    OBVIOUS
<1>1. \A u \in CurrentParticipants(rm) : rm.menus[u] = n
    OBVIOUS
<1> QED BY <1>1, SumOfShares DEF TotalPrice

LEMMA NewRoomIsFree ==
    ASSUME NEW u \in Users
    PROVE  TotalPrice(NewRoom(u)) = 0
<1> PICK new : new = NewRoom(u)
    OBVIOUS
<1> PICK free \in Nat : free = 0
    OBVIOUS
<1>1. /\ CurrentParticipants(new) \subseteq Users
      /\ \A w \in CurrentParticipants(new) : new.menus[w] = free
    BY DEF NewRoom, NoRoom, CurrentParticipants
<1>2. IsFiniteSet(CurrentParticipants(new))
    BY <1>1, UsersAssumption, FS_Subset
<1>3. PICK n \in Nat : n = Cardinality(CurrentParticipants(new))
    BY <1>2, FS_CardinalityType
<1>4. TotalPrice(new) = free * n
    BY <1>1, <1>2, <1>3, PriceOfEqualMenus
<1> QED BY <1>4

\* Nothing has to be told of a room in which nobody orders, comes, goes or fixes.
LEMMA SilentPriced ==
    ASSUME NEW r, NEW rm, NEW new, NEW events, \A e \in events : e.room # r,
           new.menus = rm.menus, CurrentParticipants(new) = CurrentParticipants(rm),
           new.phase = rm.phase \/ (rm.phase \in Open /\ new.phase \in Open)
    PROVE  Priced(r, rm, new, events)
<1>1. TotalPrice(new) = TotalPrice(rm)
    BY PriceIs
<1>2. Exists(new) => Exists(rm)
    BY DEF Exists, Open
<1> QED BY <1>1, <1>2 DEF Priced

\* In an open room one event is told of whoever comes, goes or orders.
LEMMA OpenPriced ==
    ASSUME NEW r, NEW rm, NEW new, NEW events, NEW u, NEW type \in ToPrice,
           rm.phase \in Open, new.phase \in Open, events = {Event(type, r, u)}
    PROVE  Priced(r, rm, new, events)
<1>1. /\ \A e \in events : e.room = r /\ e.type = type
      /\ \E e \in events : e.room = r /\ e.type = type
    BY DEF Event
<1>2. Exists(rm) /\ Exists(new)
    BY DEF Exists, Open
<1> QED BY <1>1, <1>2 DEF Priced, ToPrice

LEMMA MenusAfter ==
    ASSUME NEW rm \in Room, NEW u \in Users
    PROVE  /\ Leave(rm, u).menus = rm.menus /\ UploadScreenShot(rm).menus = rm.menus
           /\ \A ready \in BOOLEAN : SetReady(rm, u, ready).menus = rm.menus
BY DEF Leave, SetReady, UploadScreenShot, UpdateAllReadyState, Room

\* Nobody moves in a room whose members stay.
LEMMA StillMoved ==
    ASSUME NEW r, NEW rm, NEW new, NEW events,
           CurrentParticipants(new) = CurrentParticipants(rm),
           \A e \in events : e.room = r => e.type \notin Movers
    PROVE  Moved(r, rm, new, events)
BY DEF Moved, Movers

LEMMA OneEventMoves ==
    ASSUME NEW r, NEW u \in Users, NEW type, NEW events \in {{}, {Event(type, r, u)}}
    PROVE  OneMoves(events)
BY DEF OneMoves, Event

LEMMA SaveTells ==
    ASSUME TypeOK, NEW r \in Rooms, NEW rm, NEW events, Save(r, rm),
           Told(r, rooms[r], rm, events), Priced(r, rooms[r], rm, events),
           Moved(r, rooms[r], rm, events), OneMoves(events), OnlyAbout(r, events)
    PROVE  Tells(events)
<1>1. /\ rooms'[r] = rm
      /\ \A q \in Rooms \ {r} : rooms'[q] = rooms[q]
    BY DEF TypeOK, Save
<1>2. \A q \in Rooms \ {r} : Told(q, rooms[q], rooms[q], events)
    BY DEF Told, OnlyAbout
<1>3. \A q \in Rooms \ {r} : Priced(q, rooms[q], rooms[q], events)
    BY SilentPriced DEF OnlyAbout
<1>4. \A q \in Rooms \ {r} : Moved(q, rooms[q], rooms[q], events)
    BY StillMoved DEF OnlyAbout
<1> QED BY <1>1, <1>2, <1>3, <1>4 DEF Tells, OnlyAbout

LEMMA NothingTells ==
    ASSUME rooms' = rooms, NEW events,
           \A e \in events : /\ e.room \in Rooms /\ Exists(rooms[e.room])
                            /\ e.user \in Users /\ e.type = "MENU_UPDATE"
    PROVE  Tells(events)
<1>1. \A r \in Rooms : Moved(r, rooms[r], rooms'[r], events)
    BY StillMoved DEF Movers
<1>2. OneMoves(events)
    BY DEF OneMoves, Movers
<1> QED BY <1>1, <1>2 DEF Tells, Told, Priced

\* Nothing has to be told of a call that moves nobody and no order.
LEMMA QuietTold ==
    ASSUME NEW r, NEW rm, NEW new, NEW events, new.role = rm.role,
           CurrentParticipants(new) \subseteq CurrentParticipants(rm),
           new.phase \in Fixed => new.phase = rm.phase, Exists(new) <=> Exists(rm),
           \A e \in events : e.type \notin {"USER_ENTER", "USER_KICKED"}
    PROVE  Told(r, rm, new, events)
BY DEF Told

\* The roles the methods leave.
LEMMA RolesAfter ==
    ASSUME NEW rm \in Room, NEW u \in Users
    PROVE  /\ Join(rm, u).role = [rm.role EXCEPT ![u] = "member"]
           /\ Leave(rm, u).role = rm.role
           /\ KickUser(rm, u).role = [rm.role EXCEPT ![u] = "banned"]
           /\ AddMenu(rm, u).role = rm.role /\ DeleteMenu(rm, u).role = rm.role
           /\ UploadScreenShot(rm).role = rm.role
           /\ FixOrder(rm).role = rm.role /\ DoneOrder(rm).role = rm.role
           /\ \A amount \in Int : CheckOrder(rm, amount).role = rm.role
<1>1. /\ Join(rm, u).role = [rm.role EXCEPT ![u] = "member"]
      /\ KickUser(rm, u).role = [rm.role EXCEPT ![u] = "banned"]
    BY DEF Join, KickUser, UpdateAllReadyState, Room
<1>2. Leave(rm, u).role = rm.role
    BY DEF Leave, UpdateAllReadyState, Room
<1>3. /\ AddMenu(rm, u).role = rm.role /\ DeleteMenu(rm, u).role = rm.role
      /\ UploadScreenShot(rm).role = rm.role
      /\ FixOrder(rm).role = rm.role /\ DoneOrder(rm).role = rm.role
      /\ \A amount \in Int : CheckOrder(rm, amount).role = rm.role
    BY DEF AddMenu, DeleteMenu, UploadScreenShot, FixOrder, DoneOrder, CheckOrder, Room
<1> QED BY <1>1, <1>2, <1>3

\* Who leaves or gets ready does not move an order that is fixed.
LEMMA PhaseStays ==
    ASSUME NEW rm \in Room, NEW u \in Users, NEW ready \in BOOLEAN,
           NEW new \in {Leave(rm, u), SetReady(rm, u, ready)}
    PROVE  /\ new.phase \in Fixed => new.phase = rm.phase
           /\ Exists(new) <=> Exists(rm)
BY DEF Leave, SetReady, UpdateAllReadyState, Room, Open, Fixed, Ordering, Exists

LEMMA MemberCallTells ==
    ASSUME TypeOK, RoomsInv, NEW r \in Rooms, NEW u \in Users, MemberCall(u, r)
    PROVE  \E events : Hear(events) /\ Tells(events)
<1> PICK rm : rm = rooms[r]
    OBVIOUS
<1>1. rm \in Room /\ GoneIsEmpty(rm)
    BY DEF TypeOK, RoomsInv, RoomInv
<1>2. ASSUME CreateRoom(u, r), r \notin created,
             Hear({Event("CREATE", r, u), Event("USER_ENTER", r, u)})
      PROVE  \E events : Hear(events) /\ Tells(events)
    <2> PICK new, events : /\ new = NewRoom(u)
                           /\ events = {Event("CREATE", r, u), Event("USER_ENTER", r, u)}
        OBVIOUS
    <2>1. Save(r, new)
        BY <1>2 DEF CreateRoom
    <2>2. /\ CurrentParticipants(new) = {u} /\ new.phase = "PREPARE"
          /\ new.role = [w \in Users |-> IF w = u THEN "purchaser" ELSE "none"]
        BY DEF NewRoom, NoRoom, CurrentParticipants, ParticipantRoles
    <2>3. /\ Event("USER_ENTER", r, u) \in events
          /\ \A e \in events : e.room = r /\ e.user = u /\ e.type # "USER_KICKED"
        BY DEF Event
    <2>4. r \notin created
        BY <1>2
    <2>5. Told(r, rm, new, events)
        BY <1>2, <2>2, <2>3, <2>4
        DEF Told, Fixed, Ordering, ParticipantRoles, CreateRoom, Exists
    <2>6. Priced(r, rm, new, events)
        <3>1. \A e \in events : e.type \notin {"DELETED", "ORDER_FIXED"}
            BY DEF Event
        <3>2. ~Exists(rm) /\ Exists(new) /\ new.phase \in Open
            BY <1>2, <2>2 DEF CreateRoom, Exists, Open
        <3>3. rm.phase \notin Open /\ TotalPrice(new) = 0
            BY <3>2, NewRoomIsFree DEF Exists, Open
        <3>4. Event("CREATE", r, u) \in events
            OBVIOUS
        <3> QED BY <3>1, <3>2, <3>3, <3>4 DEF Priced
    <2>7. Moved(r, rm, new, events)
        <3>1. CurrentParticipants(rm) = {}
            BY <1>1, <1>2 DEF CreateRoom, Exists, GoneIsEmpty, NoRoom,
               CurrentParticipants, ParticipantRoles
        <3>2. \A e \in events : e.type \notin {"USER_LEAVE", "USER_KICKED"}
            BY DEF Event
        <3> QED BY <2>2, <2>3, <3>1, <3>2 DEF Moved
    <2>8. OneMoves(events)
        BY DEF OneMoves, Movers, Event
    <2> QED BY <1>2, <2>1, <2>3, <2>5, <2>6, <2>7, <2>8, SaveTells DEF OnlyAbout
<1>3. ASSUME JoinRoom(u, r), Hear({Event("USER_ENTER", r, u)})
      PROVE  \E events : Hear(events) /\ Tells(events)
    <2> PICK new, events : /\ new = Join(rm, u)
                           /\ events = {Event("USER_ENTER", r, u)}
        OBVIOUS
    <2>1. Save(r, new) /\ rm.phase \in Open
        BY <1>3, SavesAre DEF JoinRoom, JoinAllowed
    <2>2. /\ CurrentParticipants(new) = CurrentParticipants(rm) \cup {u}
          /\ new.role = [rm.role EXCEPT ![u] = "member"]
          /\ new.phase \notin Fixed
        BY <1>1, <2>1, JoinSeen, RolesAfter, PhaseAfter DEF Open, Fixed, Ordering
    <2>3. /\ Event("USER_ENTER", r, u) \in events
          /\ \A e \in events : e.room = r /\ e.user = u /\ e.type # "USER_KICKED"
        BY DEF Event
    <2>4. \A w \in Users : new.role[w] = "banned" => rm.role[w] = "banned"
        BY <1>1, <2>2 DEF Room
    <2>5. new.role[u] \in ParticipantRoles
        BY <1>1, <2>2 DEF Room, ParticipantRoles
    <2>6. Exists(rm) /\ Exists(new)
        BY <1>1, <2>1, PhaseAfter DEF Open, Exists
    <2>7. Told(r, rm, new, events)
        BY <2>2, <2>3, <2>4, <2>5, <2>6 DEF Told
    <2>8. Priced(r, rm, new, events)
        <3>1. new.phase \in Open
            BY <1>1, <2>1, PhaseAfter
        <3> QED BY <2>1, <3>1, OpenPriced DEF ToPrice
    <2>9. Moved(r, rm, new, events)
        <3>1. u \notin CurrentParticipants(rm)
            BY <1>3 DEF JoinRoom, JoinAllowed, CurrentParticipants
        <3>2. \A e \in events : e.type = "USER_ENTER"
            BY DEF Event
        <3> QED BY <2>2, <2>3, <3>1, <3>2 DEF Moved
    <2>10. OneMoves(events)
        BY OneEventMoves
    <2> QED BY <1>3, <2>1, <2>3, <2>7, <2>8, <2>9, <2>10, SaveTells DEF OnlyAbout
<1>4. ASSUME LeaveRoom(u, r), Hear(LeaveEvents(u, r))
      PROVE  \E events : Hear(events) /\ Tells(events)
    <2> PICK new, events : new = Leave(rm, u) /\ events = LeaveEvents(u, r)
        OBVIOUS
    <2>1. \/ Save(r, NoRoom) /\ events = {Event("DELETED", r, u)}
          \/ Save(r, new)
        <3>1. \/ Save(r, new)
              \/ rooms[r].role[u] # "banned" /\ Remove(r)
            BY <1>4, SavesAre DEF LeaveRoom
        <3>2. ASSUME rooms[r].role[u] # "banned", Remove(r)
              PROVE  Save(r, NoRoom) /\ events = {Event("DELETED", r, u)}
            <4>1. Save(r, NoRoom)
                BY <3>2, SavesAre
            <4>2. ~Exists(rooms'[r])
                BY <4>1 DEF Save, TypeOK, NoRoom, Exists
            <4> QED BY <3>2, <4>1, <4>2 DEF LeaveEvents
        <3> QED BY <3>1, <3>2
    <2>2. \A e \in events : /\ e.room = r
                            /\ e.type \notin {"USER_ENTER", "USER_KICKED"}
        BY DEF LeaveEvents, Event
    <2>3. ASSUME events = {Event("DELETED", r, u)} PROVE Told(r, rm, NoRoom, events)
        <3>1. /\ CurrentParticipants(NoRoom) = {} /\ NoRoom.phase \notin Fixed
              /\ \A w \in Users : NoRoom.role[w] = "none"
              /\ ~Exists(NoRoom)
            BY DEF NoRoom, CurrentParticipants, ParticipantRoles, Fixed, Ordering, Exists
        <3> QED BY <2>2, <2>3, <3>1 DEF Told
    <2>4. /\ new.phase \in Fixed => new.phase = rm.phase
          /\ Exists(new) <=> Exists(rm)
        BY <1>1, PhaseStays
    <2>5. CurrentParticipants(new) \subseteq CurrentParticipants(rm)
        BY <1>1, LeaveSeen
    <2>6. Told(r, rm, new, events)
        BY <1>1, <2>2, <2>4, <2>5, RolesAfter, QuietTold
    <2>7. Exists(rm) /\ (rm.phase \in Open => new.phase \in Open)
                     /\ (rm.phase \notin Open => new.phase = rm.phase)
        BY <1>1, <1>4, PhaseAfter DEF LeaveRoom, LeaveAllowed, Open, Closed, Exists
    <2>8. ASSUME events = {Event("DELETED", r, u)} PROVE Priced(r, rm, NoRoom, events)
        <3>1. \A e \in events : e.type = "DELETED"
            BY <2>8 DEF Event
        <3>2. ~Exists(NoRoom)
            BY DEF NoRoom, Exists
        <3> QED BY <2>7, <3>1, <3>2 DEF Priced
    <2>9. ASSUME Save(r, new) PROVE Priced(r, rm, new, events)
        <3>1. rooms'[r] = new /\ Exists(new)
            BY <2>7, <2>9 DEF Save, TypeOK, Exists, Open
        <3>2. CASE rm.role[u] = "banned"
            <4>1. events = {}
                BY <3>2 DEF LeaveEvents
            <4>2. u \notin CurrentParticipants(rm)
                BY <3>2 DEF CurrentParticipants, ParticipantRoles
            <4>3. CurrentParticipants(new) = CurrentParticipants(rm)
                <5>1. CurrentParticipants(new) = CurrentParticipants(rm) \ {u}
                    BY <1>1, LeaveSeen
                <5> QED BY <4>2, <5>1
            <4>4. new.menus = rm.menus
                BY <1>1, MenusAfter
            <4> QED BY <2>7, <4>1, <4>3, <4>4, SilentPriced
        <3>3. CASE rm.role[u] # "banned"
            <4>1. events = {Event("USER_LEAVE", r, u)}
                BY <3>1, <3>3 DEF LeaveEvents
            <4>2. \A e \in events : e.room = r /\ e.type = "USER_LEAVE"
                BY <4>1 DEF Event
            <4>3. CASE rm.phase \in Open
                BY <2>7, <4>1, <4>3, OpenPriced DEF ToPrice
            <4>4. CASE rm.phase \notin Open
                BY <2>7, <4>2, <4>4 DEF Priced
            <4> QED BY <4>3, <4>4
        <3> QED BY <3>2, <3>3
    <2>10. ASSUME events = {Event("DELETED", r, u)} PROVE Moved(r, rm, NoRoom, events)
        <3>1. \A e \in events : e.type \notin Movers
            BY <2>10 DEF Event, Movers
        <3>2. ~Exists(NoRoom)
            BY DEF NoRoom, Exists
        <3> QED BY <3>1, <3>2 DEF Moved, Movers
    <2>11. ASSUME Save(r, new) PROVE Moved(r, rm, new, events)
        <3>1. rooms'[r] = new /\ Exists(new)
            BY <2>7, <2>11 DEF Save, TypeOK, Exists, Open
        <3>2. CurrentParticipants(new) = CurrentParticipants(rm) \ {u}
            BY <1>1, LeaveSeen
        <3>3. CASE rm.role[u] = "banned"
            <4>1. events = {} /\ u \notin CurrentParticipants(rm)
                BY <3>3 DEF LeaveEvents, CurrentParticipants, ParticipantRoles
            <4> QED BY <3>2, <4>1 DEF Moved
        <3>4. CASE rm.role[u] # "banned"
            <4>1. events = {Event("USER_LEAVE", r, u)}
                BY <3>1, <3>4 DEF LeaveEvents
            <4>2. \A e \in events : e.type = "USER_LEAVE" /\ e.user = u
                BY <4>1 DEF Event
            <4> QED BY <3>2, <4>1, <4>2 DEF Moved
        <3> QED BY <3>3, <3>4
    <2>12. OneMoves(events)
        <3>1. CASE rm.role[u] = "banned"
            BY <3>1 DEF LeaveEvents, OneMoves
        <3>2. CASE rm.role[u] # "banned" /\ ~Exists(rooms'[r])
            <4>1. events = {Event("DELETED", r, u)}
                BY <3>2 DEF LeaveEvents
            <4> QED BY <4>1, OneEventMoves
        <3>3. CASE rm.role[u] # "banned" /\ Exists(rooms'[r])
            <4>1. events = {Event("USER_LEAVE", r, u)}
                BY <3>3 DEF LeaveEvents
            <4> QED BY <4>1, OneEventMoves
        <3> QED BY <3>1, <3>2, <3>3
    <2> QED BY <1>4, <2>1, <2>2, <2>3, <2>6, <2>8, <2>9, <2>10, <2>11, <2>12, SaveTells
            DEF OnlyAbout
<1>5. ASSUME NEW target \in Users, KickByPurchaser(u, target, r),
             Hear({Event("USER_KICKED", r, target)})
      PROVE  \E events : Hear(events) /\ Tells(events)
    <2> PICK new, events : /\ new = KickUser(rm, target)
                           /\ events = {Event("USER_KICKED", r, target)}
        OBVIOUS
    <2>1. Save(r, new) /\ rm.phase \in Open
        BY <1>5, SavesAre DEF KickByPurchaser, KickAllowed
    <2>2. /\ CurrentParticipants(new) = CurrentParticipants(rm) \ {target}
          /\ new.role = [rm.role EXCEPT ![target] = "banned"]
          /\ new.phase \notin Fixed
        BY <1>1, <2>1, KickUserSeen, RolesAfter, PhaseAfter DEF Open, Fixed, Ordering
    <2>3. /\ Event("USER_KICKED", r, target) \in events
          /\ \A e \in events : e.room = r /\ e.user = target /\ e.type # "USER_ENTER"
        BY DEF Event
    <2>4. /\ new.role[target] = "banned"
          /\ \A w \in Users \ {target} : new.role[w] = rm.role[w]
        BY <1>1, <2>2 DEF Room
    <2>5. Exists(rm) /\ Exists(new)
        BY <1>1, <2>1, PhaseAfter DEF Open, Exists
    <2>6. Told(r, rm, new, events)
        BY <2>2, <2>3, <2>4, <2>5 DEF Told
    <2>7. Priced(r, rm, new, events)
        <3>1. new.phase \in Open
            BY <1>1, <2>1, PhaseAfter
        <3> QED BY <2>1, <3>1, OpenPriced DEF ToPrice
    <2>8. Moved(r, rm, new, events)
        <3>1. \A e \in events : e.type = "USER_KICKED"
            BY DEF Event
        <3> QED BY <2>2, <2>3, <3>1 DEF Moved
    <2>9. OneMoves(events)
        BY OneEventMoves
    <2> QED BY <1>5, <2>1, <2>3, <2>6, <2>7, <2>8, <2>9, SaveTells DEF OnlyAbout
<1>6. ASSUME NEW ready \in BOOLEAN, ToggleReady(u, r, ready), Hear({})
      PROVE  \E events : Hear(events) /\ Tells(events)
    <2> PICK new : new = SetReady(rm, u, ready)
        OBVIOUS
    <2>1. Save(r, new)
        BY <1>6, SavesAre DEF ToggleReady
    <2>2. CurrentParticipants(new) = CurrentParticipants(rm) /\ new.role = rm.role
        <3>1. SameMembers(rm, SetReady(rm, u, ready))
            BY <1>1, SetReadySeen
        <3>2. SetReady(rm, u, ready).role = rm.role
            BY <1>1 DEF SetReady, UpdateAllReadyState, Room
        <3> QED BY <3>1, <3>2 DEF SameMembers
    <2>3. /\ new.phase \in Fixed => new.phase = rm.phase
          /\ Exists(new) <=> Exists(rm)
        BY <1>1, PhaseStays
    <2>4. Told(r, rm, new, {})
        BY <2>2, <2>3, QuietTold
    <2>5. Priced(r, rm, new, {})
        <3>1. rm.phase \in Open /\ new.phase \in Open
            BY <1>1, <1>6, PhaseAfter DEF ToggleReady, ReadyAvailable
        <3>2. new.menus = rm.menus
            BY <1>1, MenusAfter
        <3> QED BY <2>2, <3>1, <3>2, SilentPriced
    <2>6. Moved(r, rm, new, {}) /\ OneMoves({})
        BY <2>2, StillMoved DEF OneMoves
    <2> QED BY <1>6, <2>1, <2>4, <2>5, <2>6, SaveTells DEF OnlyAbout
<1>7. ASSUME NEW new \in {AddMenu(rm, u), DeleteMenu(rm, u)}, Save(r, new),
             NEW events, Hear(events),
             events = IF rm.phase \in Open THEN {Event("MENU_UPDATE", r, u)} ELSE {}
      PROVE  \E seen : Hear(seen) /\ Tells(seen)
    <2>1. SameMembers(rm, new) /\ new.phase = rm.phase
        BY <1>1, <1>7, QuietSeen
    <2>2. CurrentParticipants(new) = CurrentParticipants(rm) /\ new.role = rm.role
        <3>1. AddMenu(rm, u).role = rm.role /\ DeleteMenu(rm, u).role = rm.role
            BY <1>1, RolesAfter
        <3> QED BY <1>7, <2>1, <3>1 DEF SameMembers
    <2>3. \A e \in events : e.room = r /\ e.type \notin {"USER_ENTER", "USER_KICKED"}
        BY <1>7 DEF Event
    <2>4. Told(r, rm, new, events)
        BY <2>1, <2>2, <2>3, QuietTold DEF Exists
    <2>5. Priced(r, rm, new, events)
        <3>1. CASE rm.phase \in Open
            BY <1>7, <2>1, <3>1, OpenPriced DEF ToPrice
        <3>2. CASE rm.phase \notin Open
            BY <1>7, <2>1, <3>2 DEF Priced, Exists
        <3> QED BY <3>1, <3>2
    <2>6. Moved(r, rm, new, events) /\ OneMoves(events)
        <3>1. \A e \in events : e.type = "MENU_UPDATE"
            BY <1>7 DEF Event
        <3>2. OneMoves(events)
            BY <1>7, OneEventMoves
        <3> QED BY <2>2, <3>1, <3>2, StillMoved DEF Movers
    <2> QED BY <1>7, <2>3, <2>4, <2>5, <2>6, SaveTells DEF OnlyAbout
<1>8. ASSUME AddMenuTo(u, r), Hear(AddMenuEvents(u, r))
      PROVE  \E events : Hear(events) /\ Tells(events)
    BY <1>7, <1>8 DEF AddMenuTo, AddMenuEvents
<1>9. ASSUME DeleteMenuOf(u, r), Hear({Event("MENU_UPDATE", r, u)})
      PROVE  \E events : Hear(events) /\ Tells(events)
    BY <1>7, <1>9 DEF DeleteMenuOf
<1>10. ASSUME UpdateMenuOf(u, r), Hear({Event("MENU_UPDATE", r, u)})
       PROVE  \E events : Hear(events) /\ Tells(events)
    BY <1>10, NothingTells DEF UpdateMenuOf, vars, Event, Open, Exists
<1> QED BY <1>2, <1>3, <1>4, <1>5, <1>6, <1>8, <1>9, <1>10 DEF MemberCall

\* What is new about an order that goes on is what the call has emitted.
LEMMA NewsGrow ==
    ASSUME NEW rm \in Room, NEW phase, NEW type,
           \/ CanTransitionTo(rm, "ORDER_FIX") /\ phase = "ORDER_FIX"
              /\ type = "ORDER_FIXED"
           \/ CanTransitionTo(rm, "ORDER_CHECK") /\ phase = "ORDER_CHECK"
              /\ type = "ORDER_CHECKED"
           \/ CanTransitionTo(rm, "ORDER_DONE") /\ phase = "ORDER_DONE"
              /\ type = "ORDER_DONE"
    PROVE  \A x \in NewsOf(phase) : x \in NewsOf(rm.phase) \/ x = type
<1>1. /\ NewsOf("ORDER_FIX") = {"ORDER_FIXED"}
      /\ NewsOf("ORDER_CHECK") = {"ORDER_FIXED", "ORDER_CHECKED"}
      /\ NewsOf("ORDER_DONE") = {"ORDER_FIXED", "ORDER_CHECKED", "ORDER_DONE"}
    BY DEF NewsOf, NewsTypes
<1> QED BY <1>1, PhaseBefore

LEMMA OrderCallTells ==
    ASSUME TypeOK, NEW r \in Rooms, NEW u \in Users, OrderCall(u, r)
    PROVE  \E events : Hear(events) /\ Tells(events)
<1> PICK rm : rm = rooms[r]
    OBVIOUS
<1>1. rm \in Room
    BY DEF TypeOK
<1>2. ASSUME NEW new, Save(r, new), SameMembers(rm, new), new.role = rm.role,
             Exists(rm), Exists(new), NEW type, type \notin {"USER_ENTER", "USER_KICKED"},
             \/ type = "ORDER_FIXED"
             \/ type \in {"ORDER_CHECKED", "ORDER_DONE"} /\ rm.phase \notin Open,
             new.phase \notin Open,
             \A x \in NewsOf(new.phase) : x \in NewsOf(rm.phase) \/ x = type,
             Hear({Event(type, r, u)})
      PROVE  \E events : Hear(events) /\ Tells(events)
    <2> PICK events : events = {Event(type, r, u)}
        OBVIOUS
    <2>1. /\ Event(type, r, u) \in events
          /\ \A e \in events : e.room = r /\ e.type = type
        BY DEF Event
    <2>2. Told(r, rm, new, events)
        BY <1>2, <2>1 DEF Told, SameMembers
    <2>3. Priced(r, rm, new, events)
        BY <1>2, <2>1 DEF Priced
    <2>4. Moved(r, rm, new, events) /\ OneMoves(events)
        <3>1. type \notin Movers
            BY <1>2 DEF Movers
        <3> QED BY <1>2, <2>1, <3>1, StillMoved, OneEventMoves DEF SameMembers
    <2> QED BY <1>2, <2>1, <2>2, <2>3, <2>4, SaveTells DEF OnlyAbout
<1>3. ASSUME FixOrderOf(u, r), Hear({Event("ORDER_FIXED", r, u)})
      PROVE  \E events : Hear(events) /\ Tells(events)
    <2> PICK new : new = FixOrder(rm)
        OBVIOUS
    <2>1. /\ Save(r, new) /\ new.role = rm.role /\ SameMembers(rm, new)
          /\ CanTransitionTo(rm, "ORDER_FIX") /\ new.phase = "ORDER_FIX"
          /\ Exists(rm) /\ Exists(new)
        BY <1>1, <1>3, RolesAfter, OrderMethodsSeen
        DEF FixOrderOf, CanTransitionTo, Exists
    <2>2. \A x \in NewsOf(new.phase) : x \in NewsOf(rm.phase) \/ x = "ORDER_FIXED"
        BY <1>1, <2>1, NewsGrow
    <2>3. new.phase \notin Open
        BY <2>1 DEF Open
    <2> QED BY <1>2, <1>3, <2>1, <2>2, <2>3
<1>4. ASSUME NEW amount \in Tips, CheckOrderOf(u, r, amount),
             Hear({Event("ORDER_CHECKED", r, u)})
      PROVE  \E events : Hear(events) /\ Tells(events)
    <2> PICK new : new = CheckOrder(rm, amount)
        OBVIOUS
    <2>1. /\ Save(r, new) /\ CanTransitionTo(rm, "ORDER_CHECK") /\ amount \in Int
        BY <1>4, ServiceAssumption DEF CheckOrderOf, CheckOrderAllowed
    <2>2. /\ SameMembers(rm, CheckOrder(rm, amount))
          /\ CheckOrder(rm, amount).phase = "ORDER_CHECK"
        BY <1>1, <2>1, OrderMethodsSeen
    <2>3. CheckOrder(rm, amount).role = rm.role
        BY <1>1, <2>1, RolesAfter
    <2>4. \A x \in NewsOf(new.phase) : x \in NewsOf(rm.phase) \/ x = "ORDER_CHECKED"
        BY <1>1, <2>1, <2>2, NewsGrow
    <2>5. Exists(rm) /\ Exists(new)
        BY <2>1, <2>2 DEF CanTransitionTo, Exists
    <2>6. rm.phase \notin Open /\ new.phase \notin Open
        BY <1>1, <2>1, <2>2, PhaseBefore DEF Open
    <2> QED BY <1>2, <1>4, <2>1, <2>2, <2>3, <2>4, <2>5, <2>6
<1>5. ASSUME DoneOrderOf(u, r), Hear({Event("ORDER_DONE", r, u)})
      PROVE  \E events : Hear(events) /\ Tells(events)
    <2> PICK new : new = DoneOrder(rm)
        OBVIOUS
    <2>1. /\ Save(r, new) /\ new.role = rm.role /\ SameMembers(rm, new)
          /\ CanTransitionTo(rm, "ORDER_DONE") /\ new.phase = "ORDER_DONE"
          /\ Exists(rm) /\ Exists(new)
        BY <1>1, <1>5, RolesAfter, OrderMethodsSeen
        DEF DoneOrderOf, CanTransitionTo, Exists
    <2>2. \A x \in NewsOf(new.phase) : x \in NewsOf(rm.phase) \/ x = "ORDER_DONE"
        BY <1>1, <2>1, NewsGrow
    <2>3. rm.phase \notin Open /\ new.phase \notin Open
        BY <1>1, <2>1, PhaseBefore DEF Open
    <2> QED BY <1>2, <1>5, <2>1, <2>2, <2>3
<1>6. ASSUME UploadOrderImages(u, r), Hear({})
      PROVE  \E events : Hear(events) /\ Tells(events)
    <2> PICK new : new = UploadScreenShot(rm)
        OBVIOUS
    <2>1. Save(r, new)
        BY <1>6 DEF UploadOrderImages
    <2>2. SameMembers(rm, new) /\ new.phase = rm.phase
        BY <1>1, QuietSeen
    <2>3. new.role = rm.role
        BY <1>1, RolesAfter
    <2>4. Told(r, rm, new, {})
        BY <2>2, <2>3, QuietTold DEF SameMembers, Exists
    <2>5. new.menus = rm.menus
        BY <1>1, MenusAfter
    <2>6. Priced(r, rm, new, {})
        BY <2>2, <2>5, SilentPriced DEF SameMembers
    <2>7. Moved(r, rm, new, {}) /\ OneMoves({})
        BY <2>2, StillMoved DEF OneMoves, SameMembers
    <2> QED BY <1>6, <2>1, <2>4, <2>6, <2>7, SaveTells DEF OnlyAbout
<1> QED BY <1>3, <1>4, <1>5, <1>6 DEF OrderCall

\* The listeners hear of every call what it has done.
LEMMA CallTells ==
    ASSUME TypeOK, RoomsInv, RoomCall
    PROVE  \E events : Hear(events) /\ Tells(events)
BY MemberCallTells, OrderCallTells DEF RoomCall

\* Beside its listeners, RoomService does what it does without them.
LEMMA EventsKeepService == EventsSpec => Spec
<1>1. EventsInit => Init
    BY DEF EventsInit
<1>2. ASSUME NEW r \in Rooms, NEW u \in Users, MemberCall(u, r) \/ OrderCall(u, r)
      PROVE  [Next]_vars
    BY <1>2 DEF MemberCall, OrderCall, UpdateMenuOf, Next, ParticipantStep, OrderStep
<1>3. [EventsNext]_eventVars => [Next]_vars
    BY <1>2 DEF EventsNext, RoomCall, ListenerStep, eventVars
<1> QED BY <1>1, <1>3, PTL DEF EventsSpec, Spec

LEMMA ServiceUnderEvents == EventsSpec => []TypeOK /\ []RoomsInv
BY EventsKeepService, TypeCorrect, RoomsStaySound, PTL

-----------------------------------------------------------------------------
(* The socket gateway                                                      *)

\* A socket is looked up as long as it is used, and has no rooms otherwise.
SocketsInv ==
    /\ GatewayTypeOK
    /\ topic # "gateway" => \A s \in Sockets : socket[s] = "off"
    /\ \A s \in Sockets :
          /\ socket[s] \in {"accepted"} \cup Connected => s \in lookup
          /\ socket[s] \notin Connected => joined[s] = {}
          /\ socket[s] # "joining" => found[s] = {}

\* From the moment the participations are read, nothing a participant needs is
\* lost, and what a banned user got is known.
HearingInv ==
    \A s \in Sockets, r \in Rooms :
        /\ socket[s] \in {"joining", "on"} /\ OwnerOf[s] \in CurrentParticipants(rooms[r])
              => r \in joined[s] \cup found[s]
        /\ rooms[r].role[OwnerOf[s]] = "banned" /\ r \in joined[s] \cup found[s]
              => <<s, r>> \in outdated

GatewayInv == SocketsInv /\ HearingInv

LEMMA HeardBy ==
    ASSUME NEW s, NEW r, NEW events
    PROVE  /\ r \in EnteredBy(s, events) <=>
                \E e \in events : /\ e.type = "USER_ENTER" /\ e.room = r
                                  /\ s \in SocketsOf(e.user)
           /\ r \in KickedFrom(s, events) <=>
                \E e \in events : /\ e.type = "USER_KICKED" /\ e.room = r
                                  /\ s \in SocketsOf(e.user)
BY DEF EnteredBy, KickedFrom

LEMMA GatewayHears ==
    ASSUME GatewayInv, NEW events, Tells(events), GatewayHear(events),
           topic' = topic
    PROVE  GatewayInv'
<1> USE OwnersAreUsers DEF GatewayInv
<1>1. /\ socket' = socket /\ lookup' = lookup /\ found' = found
      /\ \A s \in Sockets :
            joined'[s] = (joined[s] \cup EnteredBy(s, events)) \ KickedFrom(s, events)
    BY DEF GatewayHear
<1>2. outdated \subseteq outdated'
    BY DEF GatewayHear
<1>3. ASSUME NEW s \in Sockets
      PROVE  s \in SocketsOf(OwnerOf[s]) <=> socket[s] \in Connected
    BY DEF SocketsOf, SocketsInv
<1>4. SocketsInv'
    <2>1. \A s \in Sockets : EnteredBy(s, events) \subseteq Rooms
        BY DEF EnteredBy, Tells
    <2>2. joined' \in [Sockets -> SUBSET Rooms]
        BY <2>1 DEF GatewayHear, SocketsInv, GatewayTypeOK
    <2>3. outdated' \subseteq Sockets \X Rooms
        BY DEF GatewayHear, SocketsInv, GatewayTypeOK
    <2>4. ASSUME NEW s \in Sockets, socket[s] \notin Connected
          PROVE  joined'[s] = {}
        <3>1. EnteredBy(s, events) = {}
            BY <2>4 DEF EnteredBy, SocketsOf
        <3> QED BY <1>1, <2>4, <3>1 DEF SocketsInv
    <2> QED BY <1>1, <2>2, <2>3, <2>4 DEF SocketsInv, GatewayTypeOK
<1>5. ASSUME NEW s \in Sockets, NEW r \in Rooms, socket[s] \in {"joining", "on"},
             OwnerOf[s] \in CurrentParticipants(rooms'[r])
      PROVE  r \in joined'[s] \cup found'[s]
    <2> PICK u \in Users : u = OwnerOf[s]
        OBVIOUS
    <2>1. s \in SocketsOf(u)
        BY <1>3, <1>5 DEF Connected
    <2>2. rooms'[r].role[u] # "banned"
        BY <1>5 DEF CurrentParticipants, ParticipantRoles
    <2>3. r \notin KickedFrom(s, events)
        <3>1. \A e \in events : e.type = "USER_KICKED" /\ e.room = r =>
                                    rooms'[r].role[e.user] = "banned"
            BY DEF Tells, Told
        <3>2. \A e \in events : s \in SocketsOf(e.user) => e.user = u
            BY DEF SocketsOf
        <3> QED BY <2>2, <3>1, <3>2, HeardBy
    <2>4. CASE u \in CurrentParticipants(rooms[r])
        BY <1>1, <1>5, <2>3, <2>4 DEF HearingInv
    <2>5. CASE u \notin CurrentParticipants(rooms[r])
        <3>1. Event("USER_ENTER", r, u) \in events
            BY <1>5, <2>5 DEF Tells, Told
        <3>2. r \in EnteredBy(s, events)
            BY <2>1, <3>1, HeardBy DEF Event
        <3> QED BY <1>1, <2>3, <3>2
    <2> QED BY <2>4, <2>5
<1>6. ASSUME NEW s \in Sockets, NEW r \in Rooms, rooms'[r].role[OwnerOf[s]] = "banned",
             r \in joined'[s] \cup found'[s]
      PROVE  <<s, r>> \in outdated'
    <2> PICK u \in Users : u = OwnerOf[s]
        OBVIOUS
    <2>1. r \notin EnteredBy(s, events)
        <3>1. \A e \in events : e.type = "USER_ENTER" /\ e.room = r =>
                                    rooms'[r].role[e.user] \in ParticipantRoles
            BY DEF Tells, Told
        <3>2. \A e \in events : s \in SocketsOf(e.user) => e.user = u
            BY DEF SocketsOf
        <3> QED BY <1>6, <3>1, <3>2, HeardBy DEF ParticipantRoles
    <2>2. r \in joined[s] \cup found[s]
        BY <1>1, <1>6, <2>1
    <2>3. CASE rooms[r].role[u] = "banned"
        BY <1>2, <2>2, <2>3 DEF HearingInv
    <2>4. CASE rooms[r].role[u] # "banned"
        <3>1. Event("USER_KICKED", r, u) \in events
            BY <1>6, <2>4 DEF Tells, Told
        <3>2. s \in SocketsOf(u)
            BY <1>3, <2>2 DEF SocketsInv, Connected
        <3>3. r \in KickedFrom(s, events)
            BY <3>1, <3>2, HeardBy DEF Event
        <3>4. r \in found[s] /\ socket[s] = "joining"
            BY <1>1, <1>6, <3>3 DEF SocketsInv
        <3> QED BY <3>3, <3>4 DEF GatewayHear
    <2> QED BY <2>3, <2>4
<1> QED BY <1>1, <1>4, <1>5, <1>6 DEF HearingInv

LEMMA GatewayStepKeeps ==
    ASSUME GatewayInv, GatewayStep, rooms' = rooms, topic' = topic, topic = "gateway"
    PROVE  GatewayInv'
<1> USE OwnersAreUsers DEF GatewayInv
<1>1. PICK s \in Sockets : \/ Accept(s)
                           \/ Connect(s)
                           \/ ReadParticipations(s)
                           \/ JoinParticipated(s)
                           \/ Disconnect(s)
    BY DEF GatewayStep
<1>2. \A q \in Sockets \ {s} : /\ socket'[q] = socket[q]
                               /\ joined'[q] = joined[q] /\ found'[q] = found[q]
    BY <1>1 DEF Accept, Connect, ReadParticipations, JoinParticipated, Disconnect, Goes,
                SocketsInv, GatewayTypeOK
<1>3. lookup \subseteq lookup' /\ outdated' = outdated
    BY <1>1 DEF Accept, Connect, ReadParticipations, JoinParticipated, Disconnect
<1>4. GatewayTypeOK'
    <2>1. Participations(OwnerOf[s]) \subseteq Rooms
        BY DEF Participations
    <2> QED BY <1>1, <2>1 DEF Accept, Connect, ReadParticipations, JoinParticipated,
            Disconnect, Goes, SocketsInv, GatewayTypeOK, Connected
<1>5. /\ socket'[s] \in {"accepted"} \cup Connected => s \in lookup'
      /\ socket'[s] \notin Connected => joined'[s] = {}
      /\ socket'[s] # "joining" => found'[s] = {}
    BY <1>1 DEF Accept, Connect, ReadParticipations, JoinParticipated, Disconnect, Goes,
                SocketsInv, GatewayTypeOK, Connected
<1>6. ASSUME NEW r \in Rooms
      PROVE  /\ socket'[s] \in {"joining", "on"}
                    /\ OwnerOf[s] \in CurrentParticipants(rooms[r])
                => r \in joined'[s] \cup found'[s]
             /\ rooms[r].role[OwnerOf[s]] = "banned" /\ r \in joined'[s] \cup found'[s]
                => <<s, r>> \in outdated'
    <2>1. CASE ReadParticipations(s)
        BY <1>3, <2>1 DEF ReadParticipations, Participations, Goes, HearingInv,
           SocketsInv, GatewayTypeOK, CurrentParticipants, ParticipantRoles
    <2>2. CASE Accept(s) \/ Connect(s) \/ JoinParticipated(s) \/ Disconnect(s)
        BY <1>3, <2>2 DEF Accept, Connect, JoinParticipated, Disconnect, Goes, HearingInv,
           SocketsInv, GatewayTypeOK
    <2> QED BY <1>1, <2>1, <2>2
<1>7. SocketsInv'
    BY <1>2, <1>3, <1>4, <1>5 DEF SocketsInv
<1>8. HearingInv'
    BY <1>2, <1>3, <1>6 DEF HearingInv
<1> QED BY <1>7, <1>8

LEMMA GatewayInvStep ==
    TypeOK /\ RoomsInv /\ GatewayInv /\ [EventsNext]_eventVars => GatewayInv'
<1>1. ASSUME GatewayInv, UNCHANGED <<rooms, gatewayVars, topic>> PROVE GatewayInv'
    BY <1>1 DEF GatewayInv, gatewayVars, SocketsInv, GatewayTypeOK, HearingInv
<1>2. ASSUME TypeOK, RoomsInv, GatewayInv, RoomCall PROVE GatewayInv'
    <2>1. PICK events : Hear(events) /\ Tells(events)
        BY <1>2, CallTells
    <2>2. CASE topic = "gateway"
        BY <1>2, <2>1, <2>2, GatewayHears DEF Hear, Listen
    <2>3. CASE topic # "gateway"
        <3>1. UNCHANGED <<gatewayVars, topic>>
            BY <2>1, <2>3 DEF Hear, Listen
        <3>2. \A s \in Sockets : /\ socket[s] = "off"
                                 /\ joined[s] = {} /\ found[s] = {}
            BY <1>2, <2>3 DEF GatewayInv, SocketsInv, Connected
        <3>3. SocketsInv'
            BY <1>2, <3>1 DEF GatewayInv, gatewayVars, SocketsInv, GatewayTypeOK
        <3>4. HearingInv'
            BY <3>1, <3>2 DEF gatewayVars, HearingInv
        <3> QED BY <3>3, <3>4 DEF GatewayInv
    <2> QED BY <2>2, <2>3
<1>3. ASSUME GatewayInv, ListenerStep PROVE GatewayInv'
    BY <1>1, <1>3, GatewayStepKeeps DEF ListenerStep, vars
<1> QED BY <1>1, <1>2, <1>3 DEF EventsNext, eventVars, vars

LEMMA GatewayAlwaysSound == EventsSpec => []GatewayInv
<1>1. EventsInit => GatewayInv
    BY DEF EventsInit, GatewayInit, GatewayInv, SocketsInv, GatewayTypeOK, HearingInv,
           Connected
<1> QED BY <1>1, GatewayInvStep, ServiceUnderEvents, PTL DEF EventsSpec

\* A socket that is through with connecting hears every room its user takes part in,
\* however its connecting and his joining overlapped.
THEOREM ParticipantsAlwaysHear == EventsSpec => []ParticipantsHear
<1>1. GatewayInv => ParticipantsHear
    BY DEF GatewayInv, SocketsInv, HearingInv, ParticipantsHear
<1> QED BY <1>1, GatewayAlwaysSound, PTL

\* No socket of a user who was kicked hears the room, but one that was connecting.
THEOREM BannedNeverHear == EventsSpec => []BannedDoNotHear
<1>1. GatewayInv => BannedDoNotHear
    BY DEF GatewayInv, HearingInv, BannedDoNotHear
<1> QED BY <1>1, GatewayAlwaysSound, PTL

-----------------------------------------------------------------------------
(* The notifications                                                       *)

\* Bags of listeners: what is started is in, and a listener that settles is the
\* only one that can be gone.
LEMMA BagSteps ==
    ASSUME NEW B, IsABag(B), NEW S
    PROVE  /\ IsABag(Starting(B, S)) /\ BagToSet(Starting(B, S)) = BagToSet(B) \cup S
           /\ \A x : /\ IsABag(Settled(B, x))
                     /\ BagToSet(Settled(B, x)) \subseteq BagToSet(B)
                     /\ BagToSet(B) \subseteq BagToSet(Settled(B, x)) \cup {x}
<1>1. \A e \in DOMAIN B : B[e] \in Nat /\ B[e] > 0
    BY DEF IsABag
<1>2. IsABag(Starting(B, S)) /\ BagToSet(Starting(B, S)) = BagToSet(B) \cup S
    <2> PICK C : C = Starting(B, S)
        OBVIOUS
    <2>1. C = [e \in DOMAIN B \cup S |-> (IF e \in DOMAIN B THEN B[e] ELSE 0)
                                            + (IF e \in S THEN 1 ELSE 0)]
        BY DEF Starting, SetToBag, (+)
    <2>2. DOMAIN C = DOMAIN B \cup S
        BY <2>1
    <2>3. C = [e \in DOMAIN C |-> C[e]]
        BY <2>1
    <2>4. \A e \in DOMAIN C : C[e] \in Nat /\ C[e] > 0
        BY <1>1, <2>1
    <2> QED BY <2>2, <2>3, <2>4 DEF IsABag, BagToSet
<1>3. ASSUME NEW x
      PROVE  /\ IsABag(Settled(B, x))
             /\ BagToSet(Settled(B, x)) \subseteq BagToSet(B)
             /\ BagToSet(B) \subseteq BagToSet(Settled(B, x)) \cup {x}
    <2> PICK D, C : /\ D = [e \in DOMAIN B |-> IF e \in {x} THEN B[e] - 1 ELSE B[e]]
                    /\ C = Settled(B, x)
        OBVIOUS
    <2>1. C = [e \in {d \in DOMAIN D : D[d] > 0} |-> D[e]]
        BY DEF Settled, SetToBag, (-)
    <2>2. /\ DOMAIN C = {d \in DOMAIN B : D[d] > 0}
          /\ C = [e \in DOMAIN C |-> C[e]]
        BY <2>1
    <2>3. \A e \in DOMAIN C : C[e] \in Nat /\ C[e] > 0
        BY <1>1, <2>1
    <2>4. \A e \in DOMAIN B \ {x} : D[e] = B[e]
        OBVIOUS
    <2>5. IsABag(C)
        <3>1. \A e \in DOMAIN C : C[e] \in {n \in Nat : n > 0}
            BY <2>3
        <3> QED BY <2>2, <3>1 DEF IsABag
    <2>6. DOMAIN C \subseteq DOMAIN B /\ DOMAIN B \subseteq DOMAIN C \cup {x}
        BY <1>1, <2>2, <2>4
    <2> QED BY <2>5, <2>6 DEF BagToSet
<1> QED BY <1>2, <1>3

\* Whoever is in the room has been told, or the listener has yet to read the room.
NewsInv ==
    /\ NewsTypeOK
    /\ IsABag(newsRunning)
    /\ topic = "news" =>
          \A r \in Rooms : \A type \in NewsOf(rooms[r].phase) :
              \/ [type |-> type, room |-> r] \in BagToSet(newsRunning)
              \/ CurrentParticipants(rooms[r]) \subseteq notified[type][r]

LEMMA NewsOfIs ==
    ASSUME NEW phase
    PROVE  NewsOf(phase) \subseteq NewsTypes /\ (phase \notin Fixed => NewsOf(phase) = {})
BY DEF NewsOf, NewsTypes, Fixed, Ordering

LEMMA NewsHears ==
    ASSUME NewsInv, NEW events, Tells(events), NewsHear(events), topic' = topic
    PROVE  NewsInv'
<1> PICK starting :
        starting = {[type |-> e.type, room |-> e.room] :
                        e \in {x \in events : x.type \in NewsTypes}}
    OBVIOUS
<1>1. newsRunning' = Starting(newsRunning, starting) /\ notified' = notified
    BY DEF NewsHear
<1>2. starting \subseteq News
    BY DEF Tells, News
<1>3. IsABag(newsRunning') /\ BagToSet(newsRunning') = BagToSet(newsRunning) \cup starting
    BY <1>1, BagSteps DEF NewsInv
<1>4. ASSUME topic = "news", NEW r \in Rooms, NEW type \in NewsOf(rooms'[r].phase)
      PROVE  \/ [type |-> type, room |-> r] \in BagToSet(newsRunning')
             \/ CurrentParticipants(rooms'[r]) \subseteq notified[type][r]
    <2>1. type \in NewsTypes /\ rooms'[r].phase \in Fixed
        BY <1>4, NewsOfIs
    <2>2. /\ CurrentParticipants(rooms'[r]) \subseteq CurrentParticipants(rooms[r])
          /\ type \in NewsOf(rooms[r].phase) \/ \E u : Event(type, r, u) \in events
        BY <1>4, <2>1 DEF Tells, Told
    <2>3. CASE type \in NewsOf(rooms[r].phase)
        BY <1>3, <1>4, <2>2, <2>3 DEF NewsInv
    <2>4. CASE \E u : Event(type, r, u) \in events
        <3>1. PICK u : Event(type, r, u) \in events
            BY <2>4
        <3>2. [type |-> type, room |-> r] \in starting
            BY <2>1, <3>1 DEF Event
        <3> QED BY <1>3, <3>2
    <2> QED BY <2>2, <2>3, <2>4
<1> QED BY <1>1, <1>2, <1>3, <1>4 DEF NewsInv, NewsTypeOK

LEMMA NewsStepKeeps ==
    ASSUME TypeOK, NewsInv, NewsStep, rooms' = rooms, topic' = topic
    PROVE  NewsInv'
<1>1. PICK n \in BagToSet(newsRunning) : Notify(n)
    BY DEF NewsStep
<1>2. n \in News /\ n.type \in NewsTypes /\ n.room \in Rooms
    BY DEF NewsInv, NewsTypeOK, News
<1>3. n = [type |-> n.type, room |-> n.room]
    BY <1>2 DEF News
<1>4. /\ IsABag(newsRunning') /\ BagToSet(newsRunning') \subseteq BagToSet(newsRunning)
      /\ BagToSet(newsRunning) \subseteq BagToSet(newsRunning') \cup {n}
    BY <1>1, BagSteps DEF Notify, NewsInv
<1>5. /\ notified' \in [NewsTypes -> [Rooms -> SUBSET Users]]
      /\ CurrentParticipants(rooms[n.room]) \subseteq notified'[n.type][n.room]
      /\ \A type \in NewsTypes, r \in Rooms : notified[type][r] \subseteq notified'[type][r]
    <2>1. Recipients(rooms[n.room]) \subseteq Users
        BY DEF Recipients, CurrentParticipants
    <2> QED BY <1>1, <1>2, <2>1 DEF Notify, NewsInv, NewsTypeOK, Recipients
<1>6. ASSUME topic = "news", NEW r \in Rooms, NEW type \in NewsOf(rooms[r].phase)
      PROVE  \/ [type |-> type, room |-> r] \in BagToSet(newsRunning')
             \/ CurrentParticipants(rooms[r]) \subseteq notified'[type][r]
    <2>1. type \in NewsTypes
        BY NewsOfIs
    <2>2. CASE [type |-> type, room |-> r] = n
        BY <1>5, <2>2
    <2>3. CASE [type |-> type, room |-> r] # n
        BY <1>4, <1>5, <1>6, <2>1, <2>3 DEF NewsInv
    <2> QED BY <2>2, <2>3
<1> QED BY <1>4, <1>5, <1>6 DEF NewsInv, NewsTypeOK

LEMMA NewsInvStep ==
    TypeOK /\ RoomsInv /\ NewsInv /\ [EventsNext]_eventVars => NewsInv'
<1>1. ASSUME NewsInv, UNCHANGED <<rooms, newsVars, topic>> PROVE NewsInv'
    BY <1>1 DEF newsVars, NewsInv, NewsTypeOK
<1>2. ASSUME TypeOK, RoomsInv, NewsInv, RoomCall PROVE NewsInv'
    <2>1. PICK events : Hear(events) /\ Tells(events)
        BY <1>2, CallTells
    <2>2. CASE topic = "news"
        BY <1>2, <2>1, <2>2, NewsHears DEF Hear, Listen
    <2>3. CASE topic # "news"
        BY <1>2, <2>1, <2>3 DEF Hear, Listen, newsVars, NewsInv, NewsTypeOK
    <2> QED BY <2>2, <2>3
<1>3. ASSUME TypeOK, NewsInv, ListenerStep PROVE NewsInv'
    BY <1>1, <1>3, NewsStepKeeps DEF ListenerStep, vars
<1> QED BY <1>1, <1>2, <1>3 DEF EventsNext, eventVars, vars

LEMMA NewsAlwaysSound == EventsSpec => []NewsInv
<1>1. EventsInit => NewsInv
    <2>1. NewsOf("none") = {} /\ NoRoom.phase = "none"
        BY DEF NewsOf, NoRoom
    <2>2. IsABag(EmptyBag) /\ BagToSet(EmptyBag) = {}
        BY DEF IsABag, EmptyBag, SetToBag, BagToSet
    <2> QED BY <2>1, <2>2 DEF EventsInit, Init, NewsInit, NewsInv, NewsTypeOK
<1> QED BY <1>1, NewsInvStep, ServiceUnderEvents, PTL DEF EventsSpec

\* When its listeners have settled, everybody in a room has been notified of what
\* became of the order, though the listeners read the room long after the call.
THEOREM ParticipantsAlwaysHaveTheNews == EventsSpec => []ParticipantsHaveTheNews
<1>1. NewsInv => ParticipantsHaveTheNews
    <2>1. ASSUME NEW type, NEW r, About(newsRunning, r) = {}
          PROVE  [type |-> type, room |-> r] \notin BagToSet(newsRunning)
        <3> PICK n : n = [type |-> type, room |-> r]
            OBVIOUS
        <3>1. n.room = r
            OBVIOUS
        <3> QED BY <2>1, <3>1 DEF About
    <2> QED BY <2>1 DEF NewsInv, ParticipantsHaveTheNews
<1> QED BY <1>1, NewsAlwaysSound, PTL

-----------------------------------------------------------------------------
(* The match feed                                                          *)

\* The shape of the rows and of the listeners; their prices do not matter here.
IsRow(m) == m = [room |-> m.room, price |-> m.price]
IsListener(l) ==
    /\ l = [step |-> l.step, room |-> l.room, rows |-> l.rows, price |-> l.price]
    /\ l.room \in Rooms

FeedShape ==
    /\ \A type \in MatchTypes, r \in Rooms : IsRow(matches[type][r])
    /\ matches = [type \in MatchTypes |-> [r \in Rooms |-> matches[type][r]]]
    /\ IsABag(feedRunning)
    /\ \A l \in BagToSet(feedRunning) : IsListener(l)

\* A listener is about to find the match of r, or has found it and removes it.
Sought(type, r) ==
    \E l \in BagToSet(feedRunning) :
        /\ l.room = r
        /\ l.step = "orphans" \/ (l.step = "remove" /\ <<type, r>> \in l.rows)

\* A match is that of its room, or its room is gone and it is sought.
MatchInv(type, r) ==
    matches[type][r] # NoMatch =>
        /\ r \in created
        /\ Exists(rooms[r]) => matches[type][r].room = r
        /\ ~Exists(rooms[r]) => matches[type][r].room = None /\ Sought(type, r)

FeedInv ==
    /\ FeedShape
    /\ \A r \in Rooms : Exists(rooms[r]) => r \in created
    /\ \A type \in MatchTypes, r \in Rooms : MatchInv(type, r)
    /\ topic # "feed" => \A type \in MatchTypes, r \in Rooms : matches[type][r] = NoMatch

LEMMA DetachedIs ==
    ASSUME NEW m, IsRow(m)
    PROVE  /\ IsRow(Detached(m))
           /\ m = NoMatch => Detached(m) = m
           /\ m.room = None \/ Exists(rooms'[m.room]) => Detached(m) = m
           /\ m.room # None /\ ~Exists(rooms'[m.room]) => Detached(m).room = None
BY DEF IsRow, Detached, NoMatch

LEMMA FeedHears ==
    ASSUME FeedInv, NEW events, Tells(events), FeedHear(events), topic' = topic,
           topic = "feed", created' = created \cup {r \in Rooms : Exists(rooms'[r])}
    PROVE  FeedInv'
<1> PICK starting : starting = UNION {ListenersOf(e) : e \in events}
    OBVIOUS
<1>1. /\ feedRunning' = Starting(feedRunning, starting)
      /\ matches' = [type \in MatchTypes |->
                       [r \in Rooms |-> Detached(matches[type][r])]]
    BY DEF FeedHear
<1>2. /\ IsABag(feedRunning')
      /\ BagToSet(feedRunning') = BagToSet(feedRunning) \cup starting
    BY <1>1, BagSteps DEF FeedInv, FeedShape
<1>3. \A l \in starting : IsListener(l)
    <2>1. ASSUME NEW e \in events, NEW l \in ListenersOf(e) PROVE IsListener(l)
        <3>1. PICK step : l = Listener(step, e.room)
            BY <2>1 DEF ListenersOf
        <3>2. e.room \in Rooms
            BY DEF Tells
        <3> QED BY <3>1, <3>2 DEF Listener, IsListener
    <2> QED BY <2>1
<1>4. FeedShape'
    <2>1. \A type \in MatchTypes, r \in Rooms : IsRow(matches'[type][r])
        BY <1>1, DetachedIs DEF FeedInv, FeedShape
    <2>2. matches' = [type \in MatchTypes |-> [r \in Rooms |-> matches'[type][r]]]
        BY <1>1
    <2> QED BY <1>2, <1>3, <2>1, <2>2 DEF FeedInv, FeedShape
<1>5. ASSUME NEW type \in MatchTypes, NEW r \in Rooms, matches'[type][r] # NoMatch
      PROVE  /\ r \in created'
             /\ Exists(rooms'[r]) => matches'[type][r].room = r
             /\ ~Exists(rooms'[r]) => matches'[type][r].room = None /\ Sought(type, r)'
    <2> PICK m : m = matches[type][r]
        OBVIOUS
    <2>1. IsRow(m) /\ matches'[type][r] = Detached(m)
        BY <1>1 DEF FeedInv, FeedShape
    <2>2. m # NoMatch
        BY <1>5, <2>1, DetachedIs
    <2>3. /\ r \in created
          /\ Exists(rooms[r]) => m.room = r
          /\ ~Exists(rooms[r]) => m.room = None /\ Sought(type, r)
        BY <2>2 DEF FeedInv, MatchInv
    <2>4. CASE Exists(rooms'[r])
        <3>1. Exists(rooms[r])
            BY <2>3, <2>4 DEF Tells, Told
        <3> QED BY <2>1, <2>3, <2>4, <3>1, DetachedIs
    <2>5. CASE ~Exists(rooms'[r]) /\ Exists(rooms[r])
        <3>1. r # None
            BY ServiceAssumption
        <3>2. matches'[type][r].room = None
            BY <2>1, <2>3, <2>5, <3>1, DetachedIs
        <3>3. PICK u : Event("DELETED", r, u) \in events
            BY <2>5 DEF Tells, Told
        <3>4. Listener("orphans", r) \in starting
            BY <3>3 DEF ListenersOf, Event
        <3>5. Listener("orphans", r).room = r /\ Listener("orphans", r).step = "orphans"
            BY DEF Listener
        <3>6. Sought(type, r)'
            BY <1>2, <3>4, <3>5 DEF Sought
        <3> QED BY <2>3, <2>5, <3>2, <3>6
    <2>6. CASE ~Exists(rooms'[r]) /\ ~Exists(rooms[r])
        <3>1. Sought(type, r)'
            BY <1>2, <2>3, <2>6 DEF Sought
        <3> QED BY <2>1, <2>3, <2>6, <3>1, DetachedIs
    <2> QED BY <2>4, <2>5, <2>6
<1>6. \A type \in MatchTypes, r \in Rooms : MatchInv(type, r)'
    BY <1>5 DEF MatchInv
<1>7. \A r \in Rooms : Exists(rooms'[r]) => r \in created'
    OBVIOUS
<1> QED BY <1>4, <1>6, <1>7 DEF FeedInv

\* The listener that settles is not the one that seeks the match.
LEMMA SeekerStays ==
    ASSUME FeedShape, NEW l \in BagToSet(feedRunning), NEW type, NEW r, Sought(type, r),
           BagToSet(feedRunning) \subseteq BagToSet(feedRunning') \cup {l},
           \/ l.step \notin {"orphans", "remove"}
           \/ l.step = "remove" /\ <<type, r>> \notin l.rows
    PROVE  Sought(type, r)'
BY DEF Sought

LEMMA NextListener ==
    ASSUME NEW l, IsListener(l), NEW price,
           NEW next \in {[l EXCEPT !.step = "find", !.price = price],
                         [l EXCEPT !.step = "save"]}
    PROVE  IsListener(next)
BY DEF IsListener

LEMMA RunningAfter ==
    ASSUME FeedShape, NEW l \in BagToSet(feedRunning), NEW next,
           \/ Finish(l)
           \/ Continue(l, next) /\ IsListener(next)
    PROVE  /\ IsABag(feedRunning')
           /\ \A x \in BagToSet(feedRunning') : IsListener(x)
           /\ BagToSet(feedRunning) \subseteq BagToSet(feedRunning') \cup {l}
           /\ BagToSet(feedRunning') \subseteq BagToSet(feedRunning) \cup {next}
           /\ Finish(l) => BagToSet(feedRunning') \subseteq BagToSet(feedRunning)
           /\ Continue(l, next) => next \in BagToSet(feedRunning')
<1> PICK B : B = Settled(feedRunning, l)
    OBVIOUS
<1>1. /\ IsABag(B) /\ BagToSet(B) \subseteq BagToSet(feedRunning)
      /\ BagToSet(feedRunning) \subseteq BagToSet(B) \cup {l}
    BY BagSteps DEF FeedShape
<1>2. ASSUME Continue(l, next)
      PROVE  IsABag(feedRunning') /\ BagToSet(feedRunning') = BagToSet(B) \cup {next}
    <2>1. feedRunning' = Starting(B, {next})
        BY <1>2 DEF Continue
    <2> QED BY <1>1, <2>1, BagSteps
<1>3. CASE Continue(l, next) /\ IsListener(next)
    <2>1. Finish(l) => feedRunning' = B
        BY DEF Finish
    <2> QED BY <1>1, <1>2, <1>3, <2>1 DEF FeedShape
<1>4. CASE Finish(l)
    <2>1. feedRunning' = B
        BY <1>4 DEF Finish
    <2>2. Continue(l, next) => next \in BagToSet(feedRunning')
        BY <1>2
    <2> QED BY <1>1, <2>1, <2>2 DEF FeedShape
<1> QED BY <1>3, <1>4

\* A listener that seeks nothing may save the match of a room that is there.
LEMMA PutKeeps ==
    ASSUME FeedInv, topic = "feed", UNCHANGED <<rooms, created, topic>>,
           NEW l \in BagToSet(feedRunning), l.step \notin {"orphans", "remove"},
           NEW next, Finish(l) \/ (Continue(l, next) /\ IsListener(next)),
           NEW type \in MatchTypes, NEW price,
           matches' = matches \/ Put(type, l.room, price)
    PROVE  FeedInv'
<1> USE DEF FeedInv
<1>1. /\ IsABag(feedRunning')
      /\ \A x \in BagToSet(feedRunning') : IsListener(x)
      /\ BagToSet(feedRunning) \subseteq BagToSet(feedRunning') \cup {l}
    BY RunningAfter
<1>2. l.room \in Rooms
    BY DEF FeedShape, IsListener
<1> PICK row : row = [room |-> l.room, price |-> price]
    OBVIOUS
<1>3. row.room = l.room /\ IsRow(row)
    BY DEF IsRow
<1>4. \/ matches' = matches
      \/ Exists(rooms[l.room]) /\ matches' = [matches EXCEPT ![type][l.room] = row]
    BY DEF Put
<1>5. /\ matches' = [x \in MatchTypes |-> [r \in Rooms |-> matches'[x][r]]]
      /\ \A x \in MatchTypes, r \in Rooms :
            \/ matches'[x][r] = matches[x][r]
            \/ r = l.room /\ Exists(rooms[r]) /\ matches'[x][r] = row
    <2>1. CASE matches' = matches
        BY <2>1 DEF FeedShape
    <2>2. CASE /\ Exists(rooms[l.room])
               /\ matches' = [matches EXCEPT ![type][l.room] = row]
        <3>1. DOMAIN matches = MatchTypes /\ \A x \in MatchTypes : DOMAIN matches[x] = Rooms
            BY DEF FeedShape
        <3>2. matches' = [x \in MatchTypes |->
                            IF x = type THEN [matches[type] EXCEPT ![l.room] = row]
                                        ELSE matches[x]]
            BY <2>2, <3>1
        <3>3. \A x \in MatchTypes, r \in Rooms :
                matches'[x][r] = IF x = type /\ r = l.room THEN row ELSE matches[x][r]
            BY <1>2, <3>1, <3>2
        <3>4. \A x \in MatchTypes : matches[x] = [r \in Rooms |-> matches[x][r]]
            BY DEF FeedShape
        <3>5. \A x \in MatchTypes : matches'[x] = [r \in Rooms |-> matches'[x][r]]
            BY <3>2, <3>4
        <3>6. matches' = [x \in MatchTypes |-> matches'[x]]
            BY <3>2
        <3>7. matches' = [x \in MatchTypes |-> [r \in Rooms |-> matches'[x][r]]]
            BY <3>5, <3>6
        <3> QED BY <2>2, <3>3, <3>7
    <2> QED BY <1>4, <2>1, <2>2
<1>6. FeedShape'
    BY <1>1, <1>3, <1>5 DEF FeedShape
<1>7. ASSUME NEW x \in MatchTypes, NEW r \in Rooms PROVE MatchInv(x, r)'
    <2>1. Sought(x, r) => Sought(x, r)'
        BY <1>1, SeekerStays
    <2> QED BY <1>3, <1>5, <2>1 DEF MatchInv
<1> QED BY <1>6, <1>7

LEMMA FeedStepKeeps ==
    ASSUME FeedInv, topic = "feed", FeedStep, UNCHANGED <<rooms, created, topic>>
    PROVE  FeedInv'
<1> USE DEF FeedInv
<1>1. PICK l \in BagToSet(feedRunning) :
        \/ CreateMatch(l) \/ RecommendMatch(l) \/ ReadRoom(l) \/ FindMatch(l)
        \/ SaveMatch(l) \/ FindMatches(l) \/ RemoveMatches(l)
    BY DEF FeedStep
<1>2. IsListener(l) /\ "HomeFeed" \in MatchTypes /\ "CategorySubscription" \in MatchTypes
    BY DEF FeedShape, MatchTypes
<1>3. CASE CreateMatch(l)
    BY <1>2, <1>3, PutKeeps DEF CreateMatch
<1>4. CASE RecommendMatch(l)
    <2>1. /\ l.step = "recommend" /\ Finish(l)
          /\ matches' = matches \/ Put("CategorySubscription", l.room, 0)
        BY <1>4 DEF RecommendMatch
    <2> QED BY <1>2, <2>1, PutKeeps
<1>5. CASE SaveMatch(l)
    BY <1>2, <1>5, PutKeeps DEF SaveMatch
<1>6. CASE ReadRoom(l)
    <2> PICK next : next = [l EXCEPT !.step = "find", !.price = TotalPrice(rooms[l.room])]
        OBVIOUS
    <2>1. l.step = "room" /\ Continue(l, next) /\ matches' = matches
        BY <1>6 DEF ReadRoom
    <2>2. IsListener(next)
        BY <1>2, NextListener
    <2> QED BY <1>2, <2>1, <2>2, PutKeeps
<1>7. CASE FindMatch(l)
    <2> PICK next : next = [l EXCEPT !.step = "save"]
        OBVIOUS
    <2>1. l.step = "find" /\ matches' = matches /\ (Continue(l, next) \/ Finish(l))
        BY <1>7 DEF FindMatch
    <2>2. IsListener(next)
        BY <1>2, NextListener
    <2> QED BY <1>2, <2>1, <2>2, PutKeeps
<1>8. CASE FindMatches(l)
    <2> PICK rows : rows = IF l.step = "close" THEN MatchesOf(l.room) ELSE Orphans(l.room)
        OBVIOUS
    <2> PICK next : next = [l EXCEPT !.step = "remove", !.rows = rows]
        OBVIOUS
    <2>1. /\ l.step \in {"close", "orphans"} /\ Continue(l, next) /\ matches' = matches
        BY <1>8 DEF FindMatches
    <2>2. /\ IsListener(next) /\ next.room = l.room
          /\ next.step = "remove" /\ next.rows = rows
        BY <1>2 DEF IsListener
    <2>3. CASE l.step = "close"
        BY <1>2, <2>1, <2>2, <2>3, PutKeeps
    <2>4. CASE l.step = "orphans"
        <3>1. /\ IsABag(feedRunning')
              /\ \A x \in BagToSet(feedRunning') : IsListener(x)
              /\ BagToSet(feedRunning) \subseteq BagToSet(feedRunning') \cup {l}
              /\ next \in BagToSet(feedRunning')
            BY <2>1, <2>2, RunningAfter
        <3>2. FeedShape'
            BY <2>1, <3>1 DEF FeedShape
        <3>3. ASSUME NEW type \in MatchTypes, NEW r \in Rooms, matches[type][r] # NoMatch,
                     matches[type][r].room = None, Sought(type, r)
              PROVE  Sought(type, r)'
            <4>1. CASE r = l.room
                <5>1. <<type, r>> \in rows
                    BY <2>4, <3>3 DEF Orphans
                <5> QED BY <2>2, <3>1, <4>1, <5>1 DEF Sought
            <4>2. CASE r # l.room
                BY <3>1, <3>3, <4>2 DEF Sought
            <4> QED BY <4>1, <4>2
        <3>4. \A type \in MatchTypes, r \in Rooms : MatchInv(type, r)'
            BY <2>1, <3>3 DEF MatchInv
        <3> QED BY <2>1, <3>2, <3>4
    <2> QED BY <2>1, <2>3, <2>4
<1>9. CASE RemoveMatches(l)
    <2>1. /\ l.step = "remove" /\ Finish(l)
          /\ matches' = [type \in MatchTypes |-> [r \in Rooms |->
                  IF <<type, r>> \in l.rows THEN NoMatch ELSE matches[type][r]]]
        BY <1>9 DEF RemoveMatches
    <2>2. /\ IsABag(feedRunning')
          /\ \A x \in BagToSet(feedRunning') : IsListener(x)
          /\ BagToSet(feedRunning) \subseteq BagToSet(feedRunning') \cup {l}
        BY <2>1, RunningAfter
    <2>3. \A type \in MatchTypes, r \in Rooms :
            matches'[type][r] = IF <<type, r>> \in l.rows THEN NoMatch
                                                          ELSE matches[type][r]
        BY <2>1
    <2>4. matches' = [type \in MatchTypes |-> [r \in Rooms |-> matches'[type][r]]]
        BY <2>1
    <2>5. FeedShape'
        <3>1. IsRow(NoMatch)
            BY DEF IsRow, NoMatch
        <3>2. \A type \in MatchTypes, r \in Rooms : IsRow(matches'[type][r])
            BY <2>3, <3>1 DEF FeedShape
        <3> QED BY <2>2, <2>4, <3>2 DEF FeedShape
    <2>6. ASSUME NEW type \in MatchTypes, NEW r \in Rooms PROVE MatchInv(type, r)'
        <3>1. CASE <<type, r>> \in l.rows
            BY <2>3, <3>1 DEF MatchInv
        <3>2. CASE <<type, r>> \notin l.rows
            <4>1. Sought(type, r) => Sought(type, r)'
                BY <2>1, <2>2, <3>2, SeekerStays
            <4> QED BY <2>3, <3>2, <4>1 DEF MatchInv
        <3> QED BY <3>1, <3>2
    <2> QED BY <2>5, <2>6
<1> QED BY <1>1, <1>3, <1>4, <1>5, <1>6, <1>7, <1>8, <1>9

LEMMA FeedInvStep ==
    TypeOK /\ RoomsInv /\ FeedInv /\ [EventsNext]_eventVars => FeedInv'
<1>1. ASSUME FeedInv, UNCHANGED <<rooms, created, feedVars, topic>> PROVE FeedInv'
    BY <1>1 DEF feedVars, FeedInv, FeedShape, MatchInv, Sought
<1>2. ASSUME TypeOK, RoomsInv, FeedInv, RoomCall PROVE FeedInv'
    <2>1. PICK events : Hear(events) /\ Tells(events)
        BY <1>2, CallTells
    <2>2. created' = created \cup {r \in Rooms : Exists(rooms'[r])} /\ topic' = topic
        BY <1>2, <2>1 DEF RoomCall, Hear
    <2>3. CASE topic = "feed"
        BY <1>2, <2>1, <2>2, <2>3, FeedHears DEF Hear, Listen
    <2>4. CASE topic # "feed"
        <3>1. UNCHANGED feedVars
            BY <2>1, <2>4 DEF Hear, Listen
        <3>2. FeedShape'
            BY <1>2, <3>1 DEF FeedInv, FeedShape, feedVars
        <3>3. \A type \in MatchTypes, r \in Rooms : matches'[type][r] = NoMatch
            BY <1>2, <2>4, <3>1 DEF FeedInv, feedVars
        <3> QED BY <2>2, <3>2, <3>3 DEF FeedInv, MatchInv
    <2> QED BY <2>3, <2>4
<1>3. ASSUME FeedInv, ListenerStep PROVE FeedInv'
    BY <1>1, <1>3, FeedStepKeeps DEF ListenerStep, vars
<1> QED BY <1>1, <1>2, <1>3 DEF EventsNext, eventVars, vars

LEMMA FeedAlwaysSound == EventsSpec => []FeedInv
<1>1. EventsInit => FeedInv
    <2>1. IsABag(EmptyBag) /\ BagToSet(EmptyBag) = {}
        BY DEF IsABag, EmptyBag, SetToBag, BagToSet
    <2>2. IsRow(NoMatch) /\ ~Exists(NoRoom)
        BY DEF IsRow, NoMatch, NoRoom, Exists
    <2> QED BY <2>1, <2>2
            DEF EventsInit, Init, FeedInit, FeedInv, FeedShape, MatchInv
<1> QED BY <1>1, FeedInvStep, ServiceUnderEvents, PTL DEF EventsSpec

\* When the listeners have settled, a room that is gone has left no match behind, in
\* whatever order the listeners ran and whichever of them found it.
THEOREM RemovedRoomAlwaysLeavesFeed == EventsSpec => []RemovedRoomLeavesFeed
<1>1. FeedInv => RemovedRoomLeavesFeed
    <2>1. ASSUME NEW type, NEW r, Sought(type, r) PROVE ~FeedQuiet(r)
        BY <2>1 DEF Sought, FeedQuiet, About
    <2> QED BY <2>1 DEF FeedInv, MatchInv, RemovedRoomLeavesFeed
<1> QED BY <1>1, FeedAlwaysSound, PTL
-----------------------------------------------------------------------------
(* The feed shows the rooms that can be joined                             *)

\* A listener is about an id that was given to a room, and the rows it is about to
\* remove are those of its room or of rooms that are gone.
ListedInv ==
    \A l \in BagToSet(feedRunning) :
        /\ l.room \in created
        /\ l.step = "remove" =>
              \A type \in MatchTypes, r \in Rooms : <<type, r>> \in l.rows =>
                  r = l.room \/ (r \in created /\ ~Exists(rooms[r]))

\* While r can be joined: running are the listeners about r, row is its match. Its
\* price is the one to pay, or one of the listeners is about to write that one.
OpenShown(r, running, row, price) ==
    /\ \A l \in running : /\ l.step \in {"create", "recommend", "room", "find", "save"}
                          /\ l.step \in {"find", "save"} => l.price = price
                          /\ l.step = "create" => price = 0
    /\ row.room = r \/ \E l \in running : l.step = "create"
    /\ \/ row = [room |-> r, price |-> price]
       \/ \E l \in running : l.step \in {"create", "room", "find", "save"}

\* Afterwards: the match is gone, or one of the listeners is about to remove it, and
\* none writes it again.
ClosedShown(r, running, row) ==
    /\ \A l \in running : /\ l.step \in {"close", "remove", "room", "find"}
                          /\ l.step \in {"room", "find"} => row = NoMatch
    /\ \/ row = NoMatch
       \/ \E l \in running : \/ l.step = "close"
                             \/ l.step = "remove" /\ <<"HomeFeed", r>> \in l.rows

ShownAs(r) ==
    LET running == About(feedRunning, r)
        row == matches["HomeFeed"][r]
    IN  /\ rooms[r].phase \in Open => OpenShown(r, running, row, TotalPrice(rooms[r]))
        /\ Exists(rooms[r]) /\ rooms[r].phase \notin Open => ClosedShown(r, running, row)

ShownInv ==
    /\ ListedInv
    /\ topic = "feed" => \A r \in Rooms \ feedMixed : ShownAs(r)

\* Finish or Continue, as it is seen from the rooms.
Moves(l, next) ==
    \/ Finish(l)
    \/ Continue(l, next) /\ IsListener(next) /\ next.room = l.room

LEMMA AboutAfter ==
    ASSUME FeedShape, NEW l \in BagToSet(feedRunning), NEW next, Moves(l, next)
    PROVE  /\ \A r \in Rooms \ {l.room} : About(feedRunning', r) = About(feedRunning, r)
           /\ l \in About(feedRunning, l.room)
           /\ About(feedRunning, l.room) \subseteq About(feedRunning', l.room) \cup {l}
           /\ About(feedRunning', l.room) \subseteq About(feedRunning, l.room) \cup {next}
           /\ Finish(l) => About(feedRunning', l.room) \subseteq About(feedRunning, l.room)
           /\ Continue(l, next) /\ next.room = l.room => next \in About(feedRunning', l.room)
<1>1. /\ BagToSet(feedRunning) \subseteq BagToSet(feedRunning') \cup {l}
      /\ BagToSet(feedRunning') \subseteq BagToSet(feedRunning) \cup {next}
      /\ Finish(l) => BagToSet(feedRunning') \subseteq BagToSet(feedRunning)
      /\ Continue(l, next) => next \in BagToSet(feedRunning')
    BY RunningAfter DEF Moves
<1>2. Finish(l) \/ next.room = l.room
    BY DEF Moves
<1> QED BY <1>1, <1>2 DEF About

\* What remains to be seen of a step: the listener's own room, and that the match of
\* another room that is there is left alone.
LEMMA ShownAfter ==
    ASSUME FeedShape, ShownInv, topic = "feed",
           UNCHANGED <<rooms, created, topic, feedMixed>>,
           NEW l \in BagToSet(feedRunning), NEW next, Moves(l, next),
           next.step = "remove" =>
              \A type \in MatchTypes, r \in Rooms : <<type, r>> \in next.rows =>
                  r = l.room \/ (r \in created /\ ~Exists(rooms[r])),
           \A r \in Rooms \ {l.room} : Exists(rooms[r]) =>
               matches'["HomeFeed"][r] = matches["HomeFeed"][r],
           l.room \notin feedMixed /\ ShownAs(l.room) => ShownAs(l.room)'
    PROVE  ShownInv'
<1>1. /\ BagToSet(feedRunning') \subseteq BagToSet(feedRunning) \cup {next}
      /\ Finish(l) => BagToSet(feedRunning') \subseteq BagToSet(feedRunning)
    BY RunningAfter DEF Moves
<1>2. ListedInv'
    <2>1. Finish(l) \/ next.room = l.room
        BY DEF Moves
    <2> QED BY <1>1, <2>1 DEF ShownInv, ListedInv
<1>3. ASSUME NEW r \in Rooms \ feedMixed, r # l.room PROVE ShownAs(r)'
    <2>1. About(feedRunning', r) = About(feedRunning, r)
        BY <1>3, AboutAfter
    <2>2. Exists(rooms[r]) => matches'["HomeFeed"][r] = matches["HomeFeed"][r]
        BY <1>3
    <2>3. rooms[r].phase \in Open => Exists(rooms[r])
        BY DEF Exists, Open
    <2>4. ShownAs(r)
        BY DEF ShownInv
    <2> QED BY <2>1, <2>2, <2>3, <2>4 DEF ShownAs
<1> QED BY <1>2, <1>3 DEF ShownInv

LEMMA PutRow ==
    ASSUME FeedShape, NEW type \in MatchTypes, NEW r \in Rooms, NEW price,
           Put(type, r, price)
    PROVE  \A x \in MatchTypes, q \in Rooms :
              matches'[x][q] = IF x = type /\ q = r /\ Exists(rooms[r])
                               THEN [room |-> r, price |-> price]
                               ELSE matches[x][q]
<1> PICK row : row = [room |-> r, price |-> price]
    OBVIOUS
<1>1. DOMAIN matches = MatchTypes /\ \A x \in MatchTypes : DOMAIN matches[x] = Rooms
    BY DEF FeedShape
<1>2. CASE Exists(rooms[r])
    <2>1. matches' = [matches EXCEPT ![type][r] = row]
        BY <1>2 DEF Put
    <2>2. matches' = [x \in MatchTypes |->
                        IF x = type THEN [matches[type] EXCEPT ![r] = row] ELSE matches[x]]
        BY <1>1, <2>1
    <2> QED BY <1>1, <1>2, <2>2
<1>3. CASE ~Exists(rooms[r])
    BY <1>3 DEF Put
<1> QED BY <1>2, <1>3

LEMMA ShownStep ==
    ASSUME FeedInv, ShownInv, topic = "feed", FeedStep, UNCHANGED <<rooms, created, topic>>
    PROVE  ShownInv'
<1>1. PICK l \in BagToSet(feedRunning) :
        \/ CreateMatch(l) \/ RecommendMatch(l) \/ ReadRoom(l) \/ FindMatch(l)
        \/ SaveMatch(l) \/ FindMatches(l) \/ RemoveMatches(l)
    BY DEF FeedStep
<1>2. /\ FeedShape /\ feedMixed' = feedMixed
      /\ IsListener(l) /\ l.room \in Rooms
      /\ "HomeFeed" \in MatchTypes /\ "CategorySubscription" \in MatchTypes
      /\ "HomeFeed" # "CategorySubscription"
    BY DEF FeedInv, FeedShape, FeedStep, IsListener, MatchTypes
<1> PICK r \in Rooms : r = l.room
    BY <1>2
<1> PICK L : L = About(feedRunning, r)
    OBVIOUS
<1> PICK M : M = About(feedRunning', r)
    OBVIOUS
<1> PICK row : row = matches["HomeFeed"][r]
    OBVIOUS
<1> PICK new : new = matches'["HomeFeed"][r]
    OBVIOUS
<1> PICK price : price = TotalPrice(rooms[r])
    OBVIOUS
<1>3. ASSUME NEW next, Moves(l, next)
      PROVE  /\ l \in L /\ L \subseteq M \cup {l} /\ M \subseteq L \cup {next}
             /\ Finish(l) => M \subseteq L
             /\ Continue(l, next) /\ next.room = r => next \in M
    BY <1>2, <1>3, AboutAfter
\* What is left to show of each step.
<1>4. ASSUME NEW next, Moves(l, next),
             next.step = "remove" =>
                \A type \in MatchTypes, q \in Rooms : <<type, q>> \in next.rows =>
                    q = r \/ (q \in created /\ ~Exists(rooms[q])),
             \A q \in Rooms \ {r} : Exists(rooms[q]) =>
                 matches'["HomeFeed"][q] = matches["HomeFeed"][q],
             Exists(rooms[r]) /\ OpenShown(r, L, row, price) => OpenShown(r, M, new, price),
             Exists(rooms[r]) /\ ClosedShown(r, L, row) => ClosedShown(r, M, new)
      PROVE  ShownInv'
    <2>1. ShownAs(r) => ShownAs(r)'
        BY <1>4 DEF ShownAs, Exists, Open
    <2> QED BY <1>2, <1>4, <2>1, ShownAfter
\* Of a listener that settles, nothing goes on.
<1> PICK end : end = [l EXCEPT !.step = "end"]
    OBVIOUS
<1>5. Finish(l) => Moves(l, end)
    BY DEF Moves
<1>6. end.step # "remove"
    BY <1>2 DEF IsListener
<1>7. ASSUME NEW type \in MatchTypes, NEW paid, Put(type, r, paid)
      PROVE  /\ \A q \in Rooms \ {r} : matches'["HomeFeed"][q] = matches["HomeFeed"][q]
             /\ type # "HomeFeed" => new = row
             /\ type = "HomeFeed" /\ Exists(rooms[r]) => new = [room |-> r, price |-> paid]
    BY <1>2, <1>7, PutRow
<1>8. CASE CreateMatch(l)
    <2>1. l.step = "create" /\ Put("HomeFeed", r, 0) /\ Finish(l)
        BY <1>8 DEF CreateMatch
    <2>2. \A q \in Rooms \ {r} : matches'["HomeFeed"][q] = matches["HomeFeed"][q]
        BY <1>2, <1>7, <2>1
    <2>3. Exists(rooms[r]) => new = [room |-> r, price |-> 0]
        BY <1>2, <1>7, <2>1
    <2>4. /\ l \in L /\ L \subseteq M \cup {l} /\ M \subseteq L \cup {end} /\ M \subseteq L
        BY <1>3, <1>5, <2>1
    <2>5. Exists(rooms[r]) /\ OpenShown(r, L, row, price) => OpenShown(r, M, new, price)
        BY <2>1, <2>3, <2>4 DEF OpenShown
    <2>6. ~ClosedShown(r, L, row)
        BY <2>1, <2>4 DEF ClosedShown
    <2> QED BY <1>4, <1>5, <1>6, <2>1, <2>2, <2>5, <2>6
<1>9. CASE RecommendMatch(l)
    <2>1. /\ l.step = "recommend" /\ Finish(l)
          /\ matches' = matches \/ Put("CategorySubscription", r, 0)
        BY <1>9 DEF RecommendMatch
    <2>2. /\ \A q \in Rooms \ {r} : matches'["HomeFeed"][q] = matches["HomeFeed"][q]
          /\ new = row
        BY <1>2, <1>7, <2>1
    <2>3. /\ l \in L /\ L \subseteq M \cup {l} /\ M \subseteq L \cup {end} /\ M \subseteq L
        BY <1>3, <1>5, <2>1
    <2>4. OpenShown(r, L, row, price) => OpenShown(r, M, new, price)
        BY <2>1, <2>2, <2>3 DEF OpenShown
    <2>5. ~ClosedShown(r, L, row)
        BY <2>1, <2>3 DEF ClosedShown
    <2> QED BY <1>4, <1>5, <1>6, <2>1, <2>2, <2>4, <2>5
<1>10. CASE SaveMatch(l)
    <2>1. l.step = "save" /\ Put("HomeFeed", r, l.price) /\ Finish(l)
        BY <1>10 DEF SaveMatch
    <2>2. \A q \in Rooms \ {r} : matches'["HomeFeed"][q] = matches["HomeFeed"][q]
        BY <1>2, <1>7, <2>1
    <2>3. Exists(rooms[r]) => new = [room |-> r, price |-> l.price]
        BY <1>2, <1>7, <2>1
    <2>4. /\ l \in L /\ L \subseteq M \cup {l} /\ M \subseteq L \cup {end} /\ M \subseteq L
        BY <1>3, <1>5, <2>1
    <2>5. Exists(rooms[r]) /\ OpenShown(r, L, row, price) => OpenShown(r, M, new, price)
        BY <2>1, <2>3, <2>4 DEF OpenShown
    <2>6. ~ClosedShown(r, L, row)
        BY <2>1, <2>4 DEF ClosedShown
    <2> QED BY <1>4, <1>5, <1>6, <2>1, <2>2, <2>5, <2>6
<1>11. CASE ReadRoom(l)
    <2> PICK next : next = [l EXCEPT !.step = "find", !.price = TotalPrice(rooms[l.room])]
        OBVIOUS
    <2>1. l.step = "room" /\ Continue(l, next) /\ matches' = matches /\ new = row
        BY <1>11 DEF ReadRoom
    <2>2. IsListener(next) /\ next.room = r /\ next.step = "find" /\ next.price = price
        BY <1>2 DEF IsListener
    <2>3. Moves(l, next)
        BY <2>1, <2>2 DEF Moves
    <2>4. /\ l \in L /\ L \subseteq M \cup {l} /\ M \subseteq L \cup {next} /\ next \in M
        BY <1>3, <2>1, <2>2, <2>3
    <2>5. OpenShown(r, L, row, price) => OpenShown(r, M, new, price)
        BY <2>1, <2>2, <2>4 DEF OpenShown
    <2>6. ClosedShown(r, L, row) => ClosedShown(r, M, new)
        BY <2>1, <2>2, <2>4 DEF ClosedShown
    <2> QED BY <1>4, <2>1, <2>2, <2>3, <2>5, <2>6
<1>12. CASE FindMatch(l)
    <2> PICK next : next = [l EXCEPT !.step = "save"]
        OBVIOUS
    <2>1. /\ l.step = "find" /\ matches' = matches /\ new = row
          /\ row.room = r => Continue(l, next)
          /\ row.room # r => Finish(l)
        BY <1>12 DEF FindMatch
    <2>2. /\ IsListener(next) /\ next.room = r /\ next.step = "save"
          /\ next.price = l.price
        BY <1>2 DEF IsListener
    <2>3. CASE row.room = r
        <3>1. Moves(l, next)
            BY <2>1, <2>2, <2>3 DEF Moves
        <3>2. /\ l \in L /\ L \subseteq M \cup {l} /\ M \subseteq L \cup {next} /\ next \in M
            BY <1>3, <2>1, <2>2, <2>3, <3>1
        <3>3. OpenShown(r, L, row, price) => OpenShown(r, M, new, price)
            BY <2>1, <2>2, <2>3, <3>2 DEF OpenShown
        <3>4. ~ClosedShown(r, L, row)
            BY <2>1, <2>3, <3>2, ServiceAssumption DEF ClosedShown, NoMatch
        <3> QED BY <1>4, <2>1, <2>2, <3>1, <3>3, <3>4
    <2>4. CASE row.room # r
        <3>1. /\ l \in L /\ L \subseteq M \cup {l} /\ M \subseteq L \cup {end} /\ M \subseteq L
            BY <1>3, <1>5, <2>1, <2>4
        <3>2. OpenShown(r, L, row, price) => OpenShown(r, M, new, price)
            BY <2>1, <2>4, <3>1 DEF OpenShown
        <3>3. ClosedShown(r, L, row) => ClosedShown(r, M, new)
            BY <2>1, <3>1 DEF ClosedShown
        <3> QED BY <1>4, <1>5, <1>6, <2>1, <2>4, <3>2, <3>3
    <2> QED BY <2>3, <2>4
<1>13. CASE FindMatches(l)
    <2> PICK rows : rows = IF l.step = "close" THEN MatchesOf(r) ELSE Orphans(r)
        OBVIOUS
    <2> PICK next : next = [l EXCEPT !.step = "remove", !.rows = rows]
        OBVIOUS
    <2>1. /\ l.step \in {"close", "orphans"} /\ Continue(l, next)
          /\ matches' = matches /\ new = row
        BY <1>13 DEF FindMatches
    <2>2. /\ IsListener(next) /\ next.room = r /\ next.step = "remove"
          /\ next.rows = rows
        BY <1>2 DEF IsListener
    <2>3. Moves(l, next)
        BY <2>1, <2>2 DEF Moves
    <2>4. /\ l \in L /\ L \subseteq M \cup {l} /\ M \subseteq L \cup {next} /\ next \in M
        BY <1>3, <2>1, <2>2, <2>3
    <2>5. ASSUME NEW type \in MatchTypes, NEW q \in Rooms, <<type, q>> \in rows
          PROVE  q = r \/ (q \in created /\ ~Exists(rooms[q]))
        <3>1. /\ l.step = "close" => matches[type][q].room = r
              /\ l.step = "orphans" => /\ matches[type][q] # NoMatch
                                       /\ matches[type][q].room = None
            BY <2>1, <2>5 DEF MatchesOf, Orphans
        <3>2. r # None /\ q # None /\ NoMatch.room = None
            BY ServiceAssumption DEF NoMatch
        <3>3. MatchInv(type, q)
            BY DEF FeedInv
        <3> QED BY <2>1, <3>1, <3>2, <3>3 DEF MatchInv
    <2>6. ~OpenShown(r, L, row, price)
        BY <2>1, <2>4 DEF OpenShown
    <2>7. Exists(rooms[r]) /\ ClosedShown(r, L, row) => ClosedShown(r, M, new)
        <3>1. CASE l.step = "orphans"
            BY <2>4, <3>1 DEF ClosedShown
        <3>2. CASE l.step = "close" /\ Exists(rooms[r])
            <4>1. row # NoMatch => row.room = r
                BY <1>2, <3>2 DEF FeedInv, MatchInv
            <4>2. row # NoMatch => <<"HomeFeed", r>> \in next.rows
                BY <1>2, <2>2, <3>2, <4>1 DEF MatchesOf
            <4> QED BY <2>1, <2>2, <2>4, <3>2, <4>2 DEF ClosedShown
        <3> QED BY <2>1, <3>1, <3>2
    <2> QED BY <1>4, <2>1, <2>2, <2>3, <2>5, <2>6, <2>7
<1>14. CASE RemoveMatches(l)
    <2>1. l.step = "remove" /\ Finish(l)
        BY <1>14 DEF RemoveMatches
    <2>2. \A q \in Rooms : matches'["HomeFeed"][q] =
            IF <<"HomeFeed", q>> \in l.rows THEN NoMatch ELSE matches["HomeFeed"][q]
        BY <1>2, <1>14 DEF RemoveMatches
    <2>3. \A q \in Rooms \ {r} : Exists(rooms[q]) => <<"HomeFeed", q>> \notin l.rows
        BY <1>2, <2>1 DEF ShownInv, ListedInv
    <2>4. /\ l \in L /\ L \subseteq M \cup {l} /\ M \subseteq L \cup {end} /\ M \subseteq L
        BY <1>3, <1>5, <2>1
    <2>5. ~OpenShown(r, L, row, price)
        BY <2>1, <2>4 DEF OpenShown
    <2>6. ClosedShown(r, L, row) => ClosedShown(r, M, new)
        <3>1. new = IF <<"HomeFeed", r>> \in l.rows THEN NoMatch ELSE row
            BY <2>2
        <3> QED BY <2>1, <2>4, <3>1 DEF ClosedShown
    <2> QED BY <1>4, <1>5, <1>6, <2>1, <2>2, <2>3, <2>5, <2>6
<1> QED BY <1>1, <1>8, <1>9, <1>10, <1>11, <1>12, <1>13, <1>14

\* Which listeners an event starts.
LEMMA ListenerOf ==
    ASSUME NEW e
    PROVE  /\ \A l \in ListenersOf(e) :
                 /\ l.room = e.room /\ l.rows = {}
                 /\ \/ l.step \in {"create", "recommend"} /\ e.type = "CREATE"
                    \/ l.step = "room" /\ e.type \in ToPrice
                    \/ l.step = "close" /\ e.type = "ORDER_FIXED"
                    \/ l.step = "orphans" /\ e.type = "DELETED"
           /\ e.type = "CREATE" => Listener("create", e.room) \in ListenersOf(e)
           /\ e.type \in ToPrice => Listener("room", e.room) \in ListenersOf(e)
           /\ e.type = "ORDER_FIXED" => Listener("close", e.room) \in ListenersOf(e)
           /\ \A step : Listener(step, e.room).room = e.room
                        /\ Listener(step, e.room).step = step
<1>1. \A l \in ListenersOf(e) : \E step \in Steps :
        /\ l = Listener(step, e.room)
        /\ \/ step \in {"create", "recommend"} /\ e.type = "CREATE"
           \/ step = "room" /\ e.type \in ToPrice
           \/ step = "close" /\ e.type = "ORDER_FIXED"
           \/ step = "orphans" /\ e.type = "DELETED"
    BY DEF ListenersOf, ToPrice, Steps
<1>2. \A step : /\ Listener(step, e.room).room = e.room
                /\ Listener(step, e.room).step = step
                /\ Listener(step, e.room).rows = {}
    BY DEF Listener
<1>3. /\ e.type = "CREATE" => Listener("create", e.room) \in ListenersOf(e)
      /\ e.type \in ToPrice => Listener("room", e.room) \in ListenersOf(e)
      /\ e.type = "ORDER_FIXED" => Listener("close", e.room) \in ListenersOf(e)
    BY DEF ListenersOf, ToPrice
<1> QED BY <1>1, <1>2, <1>3

\* A call is heard of by listeners that start: of a room whose events are not mixed,
\* only when no other one runs about it.
LEMMA ShownHears ==
    ASSUME FeedInv, ShownInv, NEW events, Tells(events), FeedHear(events),
           topic' = topic, topic = "feed",
           created' = created \cup {r \in Rooms : Exists(rooms'[r])}
    PROVE  ShownInv'
<1> PICK starting : starting = UNION {ListenersOf(e) : e \in events}
    OBVIOUS
<1>1. /\ BagToSet(feedRunning') = BagToSet(feedRunning) \cup starting
      /\ matches' = [type \in MatchTypes |->
                       [r \in Rooms |-> Detached(matches[type][r])]]
    BY BagSteps DEF FeedHear, FeedInv, FeedShape
<1>2. \A l \in starting : \E e \in events : l \in ListenersOf(e)
    OBVIOUS
<1>3. \A r \in created \cap Rooms : ~Exists(rooms[r]) => ~Exists(rooms'[r])
    BY DEF Tells, Told
<1>4. ListedInv'
    <2>1. ASSUME NEW l \in starting PROVE l.room \in created' /\ l.rows = {}
        <3>1. PICK e \in events : l.room = e.room /\ l.rows = {}
            BY <1>2, ListenerOf
        <3>2. e.room \in Rooms /\ (Exists(rooms[e.room]) \/ Exists(rooms'[e.room]))
            BY DEF Tells, Priced
        <3> QED BY <3>1, <3>2 DEF FeedInv
    <2>2. created \subseteq created'
        OBVIOUS
    <2> QED BY <1>1, <1>3, <2>1, <2>2 DEF ShownInv, ListedInv
<1>5. ASSUME NEW r \in Rooms \ feedMixed' PROVE ShownAs(r)'
    <2> PICK rm : rm = rooms[r]
        OBVIOUS
    <2> PICK after : after = rooms'[r]
        OBVIOUS
    <2> PICK S : S = {l \in starting : l.room = r}
        OBVIOUS
    <2> PICK L : L = About(feedRunning, r)
        OBVIOUS
    <2> PICK M : M = About(feedRunning', r)
        OBVIOUS
    <2> PICK row : row = matches["HomeFeed"][r]
        OBVIOUS
    <2> PICK new : new = matches'["HomeFeed"][r]
        OBVIOUS
    <2>1. Told(r, rm, after, events) /\ Priced(r, rm, after, events)
        BY DEF Tells
    <2>2. M = L \cup S
        BY <1>1 DEF About
    <2>3. /\ S = {} \/ L = {}
          /\ r \notin feedMixed \/ \E l \in S : SetsRight(l)
        BY <1>5 DEF FeedHear
    <2>4. \A l \in S : \E e \in events :
            /\ e.room = r
            /\ \/ l.step \in {"create", "recommend"} /\ e.type = "CREATE"
               \/ l.step = "room" /\ e.type \in ToPrice
               \/ l.step = "close" /\ e.type = "ORDER_FIXED"
               \/ l.step = "orphans" /\ e.type = "DELETED"
        BY <1>2, ListenerOf
    <2>5. ASSUME NEW e \in events, e.room = r
          PROVE  /\ e.type = "CREATE" => \E l \in S : l.step = "create"
                 /\ e.type \in ToPrice => \E l \in S : l.step = "room"
                 /\ e.type = "ORDER_FIXED" => \E l \in S : l.step = "close"
        <3>1. \A l \in ListenersOf(e) : l \in S
            <4>1. ListenersOf(e) \subseteq starting
                OBVIOUS
            <4>2. \A l \in ListenersOf(e) : l.room = r
                BY <2>5, ListenerOf
            <4> QED BY <4>1, <4>2
        <3>2. /\ e.type = "CREATE" => Listener("create", r) \in S
              /\ e.type \in ToPrice => Listener("room", r) \in S
              /\ e.type = "ORDER_FIXED" => Listener("close", r) \in S
            BY <2>5, <3>1, ListenerOf
        <3>3. \A step : Listener(step, r).step = step
            BY DEF Listener
        <3> QED BY <3>2, <3>3
    <2>6. Exists(rm) /\ Exists(after) => new = row /\ (row # NoMatch => row.room = r)
        <3>1. "HomeFeed" \in MatchTypes
            BY DEF MatchTypes
        <3>2. IsRow(row) /\ new = Detached(row) /\ MatchInv("HomeFeed", r)
            BY <1>1, <3>1 DEF FeedInv, FeedShape
        <3> QED BY <3>2, DetachedIs DEF MatchInv
    <2>7. r \notin feedMixed => ShownAs(r)
        BY DEF ShownInv
    <2>8. ASSUME after.phase \in Open
          PROVE  OpenShown(r, M, new, TotalPrice(after))
        <3>1. Exists(after)
            BY <2>8 DEF Exists, Open
        <3>2. CASE ~Exists(rm)
            <4>1. L = {}
                BY <2>1, <3>1, <3>2 DEF Told, ShownInv, ListedInv, About
            <4>2. TotalPrice(after) = 0 /\ \E l \in S : l.step = "create"
                BY <2>1, <2>5, <3>1, <3>2 DEF Priced, Event
            <4>3. \A l \in S : l.step \in {"create", "recommend", "room"}
                BY <2>1, <2>4, <2>8, <3>1 DEF Priced
            <4> QED BY <2>2, <4>1, <4>2, <4>3 DEF OpenShown
        <3>3. CASE Exists(rm) /\ S = {}
            <4>1. rm.phase \in Open /\ TotalPrice(after) = TotalPrice(rm)
                BY <2>1, <2>5, <2>8, <3>1, <3>3 DEF Priced
            <4>2. OpenShown(r, L, row, TotalPrice(rm))
                BY <2>3, <2>7, <3>3, <4>1 DEF ShownAs
            <4> QED BY <2>2, <2>6, <3>1, <3>3, <4>1, <4>2
        <3>4. CASE Exists(rm) /\ S # {}
            <4>1. rm.phase \in Open
                BY <2>1, <2>8, <3>1, <3>4 DEF Priced
            <4>2. \A l \in S : l.step = "room"
                BY <2>1, <2>4, <2>8, <3>1, <3>4 DEF Priced
            <4>3. row.room = r
                <5>1. CASE r \notin feedMixed
                    BY <2>3, <2>7, <3>4, <4>1, <5>1 DEF ShownAs, OpenShown
                <5>2. CASE \E l \in S : SetsRight(l)
                    BY <2>6, <3>1, <3>4, <4>2, <5>2 DEF SetsRight
                <5> QED BY <2>3, <5>1, <5>2
            <4> QED BY <2>2, <2>3, <2>6, <3>1, <3>4, <4>2, <4>3 DEF OpenShown
        <3> QED BY <3>2, <3>3, <3>4
    <2>9. ASSUME Exists(after), after.phase \notin Open PROVE ClosedShown(r, M, new)
        <3>1. Exists(rm)
            BY <2>1, <2>9 DEF Priced
        <3>2. \A l \in S : l.step \in {"room", "close"}
            BY <2>1, <2>4, <2>9, <3>1 DEF Priced
        <3>3. (\E l \in S : l.step = "close") => \A l \in S : l.step = "close"
            <4>1. ASSUME NEW l \in S, l.step = "close", NEW k \in S
                  PROVE  k.step = "close"
                <5>1. PICK e \in events : e.room = r /\ e.type = "ORDER_FIXED"
                    BY <2>4, <4>1
                <5>2. \A d \in events : d.room = r => d.type = "ORDER_FIXED"
                    BY <2>1, <5>1 DEF Priced
                <5> QED BY <2>4, <5>2 DEF ToPrice
            <4> QED BY <4>1
        <3>4. CASE S = {}
            <4>1. rm.phase \notin Open
                BY <2>1, <2>5, <2>9, <3>4 DEF Priced, Event
            <4>2. ClosedShown(r, L, row)
                BY <2>3, <2>7, <3>1, <3>4, <4>1 DEF ShownAs
            <4> QED BY <2>2, <2>6, <2>9, <3>1, <3>4, <4>2
        <3>5. CASE \E l \in S : l.step = "close"
            BY <2>2, <2>3, <3>3, <3>5 DEF ClosedShown
        <3>6. CASE S # {} /\ \A l \in S : l.step = "room"
            <4>1. rm.phase \notin Open
                <5>1. rm.phase \in Open => \E l \in S : l.step = "close"
                    BY <2>1, <2>5, <2>9 DEF Priced, Event
                <5> QED BY <3>6, <5>1
            <4>2. r \notin feedMixed
                BY <2>3, <3>6, <4>1 DEF SetsRight
            <4>3. ClosedShown(r, {}, row)
                BY <2>3, <2>7, <3>1, <3>6, <4>1, <4>2 DEF ShownAs
            <4>4. new = NoMatch
                BY <2>6, <2>9, <3>1, <4>3 DEF ClosedShown
            <4> QED BY <2>2, <2>3, <3>6, <4>4 DEF ClosedShown
        <3> QED BY <3>2, <3>4, <3>5, <3>6
    <2> QED BY <2>8, <2>9 DEF ShownAs
<1> QED BY <1>4, <1>5 DEF ShownInv

LEMMA ShownInvStep ==
    TypeOK /\ RoomsInv /\ FeedInv /\ ShownInv /\ [EventsNext]_eventVars => ShownInv'
<1>1. ASSUME ShownInv, UNCHANGED <<rooms, created, feedVars, topic>> PROVE ShownInv'
    BY <1>1 DEF feedVars, ShownInv, ListedInv, ShownAs
<1>2. ASSUME TypeOK, RoomsInv, FeedInv, ShownInv, RoomCall PROVE ShownInv'
    <2>1. PICK events : Hear(events) /\ Tells(events)
        BY <1>2, CallTells
    <2>2. created' = created \cup {r \in Rooms : Exists(rooms'[r])} /\ topic' = topic
        BY <1>2, <2>1 DEF RoomCall, Hear
    <2>3. CASE topic = "feed"
        BY <1>2, <2>1, <2>2, <2>3, ShownHears DEF Hear, Listen
    <2>4. CASE topic # "feed"
        <3>1. UNCHANGED feedVars
            BY <2>1, <2>4 DEF Hear, Listen
        <3>2. \A r \in created \cap Rooms : ~Exists(rooms[r]) => ~Exists(rooms'[r])
            BY <2>1 DEF Tells, Told
        <3>3. ListedInv'
            BY <1>2, <2>2, <3>1, <3>2 DEF ShownInv, ListedInv, feedVars
        <3> QED BY <2>2, <2>4, <3>3 DEF ShownInv
    <2> QED BY <2>3, <2>4
<1>3. ASSUME FeedInv, ShownInv, ListenerStep PROVE ShownInv'
    BY <1>1, <1>3, ShownStep DEF ListenerStep, vars
<1> QED BY <1>1, <1>2, <1>3 DEF EventsNext, eventVars, vars

\* When the listeners have settled, the feed shows a room exactly while it can be
\* joined, with the price of what is ordered so far, for any number of listeners
\* that run at once; but for rooms two events of which were handled at once.
THEOREM FeedAlwaysShowsOpenRooms == EventsSpec => []FeedShowsOpenRooms
<1>1. EventsInit => ShownInv
    <2>1. BagToSet(EmptyBag) = {}
        BY DEF EmptyBag, SetToBag, BagToSet
    <2>2. ~Exists(NoRoom) /\ NoRoom.phase \notin Open
        BY DEF NoRoom, Exists, Open
    <2> QED BY <2>1, <2>2 DEF EventsInit, Init, FeedInit, ShownInv, ListedInv, ShownAs
<1>2. FeedInv /\ ShownInv => FeedShowsOpenRooms
    <2>1. ASSUME FeedInv, ShownInv, topic = "feed", NEW r \in Rooms \ feedMixed,
                 FeedQuiet(r)
          PROVE  IF rooms[r].phase \in Open
                 THEN matches["HomeFeed"][r] = [room |-> r, price |-> TotalPrice(rooms[r])]
                 ELSE matches["HomeFeed"][r] = NoMatch
        <3>1. ShownAs(r) /\ About(feedRunning, r) = {}
            BY <2>1 DEF ShownInv, FeedQuiet
        <3>2. CASE rooms[r].phase \in Open
            BY <3>1, <3>2 DEF ShownAs, OpenShown
        <3>3. CASE rooms[r].phase \notin Open /\ Exists(rooms[r])
            BY <3>1, <3>3 DEF ShownAs, ClosedShown
        <3>4. CASE ~Exists(rooms[r])
            <4>1. "HomeFeed" \in MatchTypes /\ rooms[r].phase \notin Open
                BY <3>4 DEF MatchTypes, Exists, Open
            <4>2. ~Sought("HomeFeed", r)
                BY <3>1 DEF Sought, About
            <4> QED BY <2>1, <3>4, <4>1, <4>2 DEF FeedInv, MatchInv
        <3> QED BY <3>2, <3>3, <3>4
    <2> QED BY <2>1 DEF FeedShowsOpenRooms
<1> QED BY <1>1, <1>2, FeedAlwaysSound, ShownInvStep, ServiceUnderEvents, PTL
        DEF EventsSpec

-----------------------------------------------------------------------------
(* The chat                                                                *)

\* How often what is in a bag is in it.
LEMMA BagCounts ==
    ASSUME NEW B, IsABag(B), NEW S, NEW x
    PROVE  /\ \A e \in BagToSet(B) \ S : Starting(B, S)[e] = B[e]
           /\ \A e \in S \ BagToSet(B) : Starting(B, S)[e] = 1
           /\ \A e \in BagToSet(B) \ {x} : Settled(B, x)[e] = B[e]
           /\ x \in BagToSet(B) /\ B[x] = 1 => x \notin BagToSet(Settled(B, x))
<1>1. \A e \in DOMAIN B : B[e] \in Nat /\ B[e] > 0
    BY DEF IsABag
<1>2. Starting(B, S) = [e \in DOMAIN B \cup S |-> (IF e \in DOMAIN B THEN B[e] ELSE 0)
                                                   + (IF e \in S THEN 1 ELSE 0)]
    BY DEF Starting, SetToBag, (+)
<1>3. PICK D : D = [e \in DOMAIN B |-> IF e \in {x} THEN B[e] - 1 ELSE B[e]]
    OBVIOUS
<1>4. Settled(B, x) = [e \in {d \in DOMAIN D : D[d] > 0} |-> D[e]]
    BY <1>3 DEF Settled, SetToBag, (-)
<1>5. \A e \in DOMAIN B \ {x} : D[e] = B[e]
    BY <1>3
<1>6. x \in DOMAIN B /\ B[x] = 1 => D[x] = 0
    BY <1>3
<1>7. \A e \in DOMAIN B \ {x} : e \in DOMAIN D /\ D[e] > 0
    BY <1>1, <1>3, <1>5
<1>8. x \in DOMAIN B /\ B[x] = 1 => x \notin DOMAIN Settled(B, x)
    BY <1>4, <1>6
<1>9. \A e \in DOMAIN B \ S : Starting(B, S)[e] = B[e]
    BY <1>1, <1>2
<1>10. \A e \in S \ DOMAIN B : Starting(B, S)[e] = 1
    BY <1>2
<1>11. \A e \in DOMAIN B \ {x} : Settled(B, x)[e] = B[e]
    BY <1>4, <1>5, <1>7
<1> QED BY <1>8, <1>9, <1>10, <1>11 DEF BagToSet

\* A task holds at most one row, of the user and the room it is about.
IsTask(t) ==
    /\ t = [step |-> t.step, room |-> t.room, user |-> t.user, stay |-> t.stay]
    /\ t.step \in {"enter", "leave", "kick", "chat", "read"}
    /\ t.room \in created \cap Rooms /\ t.user \in Users
    /\ t.stay \subseteq Stay
    /\ \A c, d \in t.stay : c = d
    /\ \A c \in t.stay : c.room = t.room /\ c.user = t.user

Held == UNION {t.stay : t \in BagToSet(chatRunning)}

\* An id is that of one row, which is about one user and one room as long as anybody
\* holds it.
ChatShape ==
    /\ stays \subseteq Stay
    /\ \A s, c \in stays : s.id = c.id => s = c
    /\ \A s, c \in stays \cup Held : s.id = c.id => s.room = c.room /\ s.user = c.user
    /\ IsABag(chatRunning)
    /\ \A t \in BagToSet(chatRunning) : IsTask(t)
    /\ chatMixed \subseteq Rooms \X Users

Inside(r, u) == Exists(rooms[r]) /\ u \in CurrentParticipants(rooms[r])

OpenOf(rows) == {s \in rows : ~s.ended}

Right(rows, inside) ==
    IF inside THEN \E s : OpenOf(rows) = {s} ELSE OpenOf(rows) = {}

\* What runs about a user in a room, and his rows there, when nothing is mixed: one
\* task at most, and the rows are right unless it is one that is to put them right.
StayAs(running, rows, exists, inside) ==
    /\ \A t, k \in running : t = k
    /\ \A t \in running :
          /\ t.step = "enter" => (exists => inside) /\ OpenOf(rows) = {}
          /\ t.step \in {"leave", "kick"} => ~inside
          /\ t.step = "read" /\ exists => t.stay \subseteq rows
    /\ (\A t \in running : t.step \in {"chat", "read"}) => Right(rows, inside)

StayInv(r, u) ==
    /\ \A t \in Concerning(r, u) : chatRunning[t] = 1
    /\ StayAs(Concerning(r, u), StaysOf(r, u), Exists(rooms[r]), Inside(r, u))

ChatInv ==
    /\ ChatShape
    /\ \A r \in Rooms : Exists(rooms[r]) => r \in created
    /\ topic = "chat" =>
          /\ \A s \in stays : Exists(rooms[s.room])
          /\ \A r \in Rooms, u \in Users : <<r, u>> \notin chatMixed => StayInv(r, u)

\* The rows of a user change only with what he does in the room.
LEMMA StayKept ==
    ASSUME NEW r, NEW u, StayInv(r, u), rooms'[r] = rooms[r],
           Concerning(r, u)' = Concerning(r, u), StaysOf(r, u)' = StaysOf(r, u),
           \A t \in Concerning(r, u) : chatRunning'[t] = chatRunning[t]
    PROVE  StayInv(r, u)'
<1>1. Inside(r, u)' = Inside(r, u)
    BY DEF Inside
<1> QED BY <1>1 DEF StayInv

\* No row of a new owner has an id that is in use.
LEMMA IdsKept ==
    ASSUME ChatShape,
           \A s \in (stays \cup Held)' : \E c \in stays \cup Held :
               s.id = c.id /\ s.room = c.room /\ s.user = c.user
    PROVE  \A s, c \in (stays \cup Held)' : s.id = c.id => s.room = c.room /\ s.user = c.user
BY DEF ChatShape

\* A task that ends leaves the others as they are.
LEMMA TaskEnds ==
    ASSUME ChatShape, NEW t \in BagToSet(chatRunning), FinishTask(t), rooms' = rooms,
           created' = created
    PROVE  /\ IsABag(chatRunning') /\ chatMixed' = chatMixed
           /\ BagToSet(chatRunning') \subseteq BagToSet(chatRunning)
           /\ \A k \in BagToSet(chatRunning') : IsTask(k)'
           /\ Held' \subseteq Held
           /\ \A k \in BagToSet(chatRunning) \ {t} :
                 k \in BagToSet(chatRunning') /\ chatRunning'[k] = chatRunning[k]
           /\ chatRunning[t] = 1 => t \notin BagToSet(chatRunning')
<1>1. /\ IsABag(chatRunning') /\ chatMixed' = chatMixed
      /\ BagToSet(chatRunning') \subseteq BagToSet(chatRunning)
      /\ BagToSet(chatRunning) \subseteq BagToSet(chatRunning') \cup {t}
    BY BagSteps DEF FinishTask, ChatShape
<1>2. /\ \A k \in BagToSet(chatRunning) \ {t} : chatRunning'[k] = chatRunning[k]
      /\ chatRunning[t] = 1 => t \notin BagToSet(chatRunning')
    BY BagCounts DEF FinishTask, ChatShape
<1>3. \A k \in BagToSet(chatRunning') : IsTask(k)'
    BY <1>1 DEF ChatShape, IsTask
<1>4. Held' \subseteq Held
    BY <1>1 DEF Held
<1> QED BY <1>1, <1>2, <1>3, <1>4

\* When the task of a user ends and the rows of the others are what they were, the
\* rules hold of everybody if his own rows are right.
LEMMA StaysAfterTask ==
    ASSUME ChatInv, topic = "chat", NEW t \in BagToSet(chatRunning), FinishTask(t),
           rooms' = rooms, created' = created,
           \A r \in Rooms, u \in Users :
               r # t.room \/ u # t.user => StaysOf(r, u)' = StaysOf(r, u),
           StayInv(t.room, t.user) =>
               Right(StaysOf(t.room, t.user)', Inside(t.room, t.user))
    PROVE  \A r \in Rooms, u \in Users : <<r, u>> \notin chatMixed' => StayInv(r, u)'
<1>1. /\ chatMixed' = chatMixed
      /\ BagToSet(chatRunning') \subseteq BagToSet(chatRunning)
      /\ \A k \in BagToSet(chatRunning) \ {t} :
            k \in BagToSet(chatRunning') /\ chatRunning'[k] = chatRunning[k]
      /\ chatRunning[t] = 1 => t \notin BagToSet(chatRunning')
    BY TaskEnds DEF ChatInv
<1> SUFFICES ASSUME NEW r \in Rooms, NEW u \in Users, <<r, u>> \notin chatMixed
             PROVE  StayInv(r, u)'
    BY <1>1
<1>2. StayInv(r, u)
    BY DEF ChatInv
<1>3. CASE r # t.room \/ u # t.user
    <2>1. \A k \in Concerning(r, u) : k # t
        BY <1>3 DEF Concerning, About
    <2>2. Concerning(r, u)' = Concerning(r, u)
        BY <1>1, <2>1 DEF Concerning, About
    <2>3. \A k \in Concerning(r, u) : chatRunning'[k] = chatRunning[k]
        BY <1>1, <2>1 DEF Concerning, About
    <2> QED BY <1>2, <1>3, <2>2, <2>3, StayKept
<1>4. CASE r = t.room /\ u = t.user
    <2>1. t \in Concerning(r, u)
        BY <1>4 DEF Concerning, About
    <2>2. chatRunning[t] = 1 /\ \A k \in Concerning(r, u) : k = t
        BY <1>2, <2>1 DEF StayInv, StayAs
    <2>3. Concerning(r, u)' = {}
        BY <1>1, <2>2 DEF Concerning, About
    <2>4. Right(StaysOf(r, u)', Inside(r, u)')
        BY <1>2, <1>4 DEF Inside
    <2> QED BY <2>3, <2>4 DEF StayInv, StayAs
<1> QED BY <1>3, <1>4

LEMMA EnterKeeps ==
    ASSUME ChatInv, topic = "chat", NEW t \in BagToSet(chatRunning), EnterStay(t),
           rooms' = rooms, created' = created, topic' = topic
    PROVE  ChatInv'
<1>1. t.step = "enter" /\ FinishTask(t) /\ FreeIds # {}
    BY DEF EnterStay
<1>2. IsTask(t)
    BY DEF ChatInv, ChatShape
<1>3. PICK r \in Rooms, u \in Users : r = t.room /\ u = t.user
    BY <1>2 DEF IsTask
<1>4. Held' \subseteq Held
    BY <1>1, TaskEnds DEF ChatInv
<1>5. t \in Concerning(r, u)
    BY <1>3 DEF Concerning, About
<1>6. CASE ~Exists(rooms[r])
    <2>1. stays' = stays
        BY <1>3, <1>6 DEF EnterStay
    <2>2. \A q \in Rooms, w \in Users : StaysOf(q, w)' = StaysOf(q, w)
        BY <2>1 DEF StaysOf
    <2>3. StayInv(r, u) => Right(StaysOf(r, u)', Inside(r, u))
        BY <1>1, <1>5, <1>6, <2>2 DEF StayInv, StayAs, Right, Inside
    <2>4. \A r1 \in Rooms, u1 \in Users : <<r1, u1>> \notin chatMixed' => StayInv(r1, u1)'
        BY <1>1, <1>3, <2>2, <2>3, StaysAfterTask
    <2> QED BY <1>1, <1>4, <2>1, <2>4, TaskEnds DEF ChatInv, ChatShape
<1>7. CASE Exists(rooms[r])
    <2> PICK new : new = [id |-> FreshStay, room |-> r, user |-> u, ended |-> FALSE]
        OBVIOUS
    <2>1. stays' = stays \cup {new}
        BY <1>3, <1>7 DEF EnterStay
    <2>2. /\ new \in Stay /\ new.room = r /\ new.user = u /\ ~new.ended
          /\ \A s \in stays \cup Held : s.id # new.id
        <3>1. FreshStay \in FreeIds
            BY <1>1 DEF FreshStay
        <3>2. FreshStay \in 1..MaxStays /\ \A s \in stays \cup Held : s.id # FreshStay
            BY <3>1 DEF FreeIds, Held
        <3> QED BY <3>2 DEF Stay
    <2>3. \A s, c \in (stays \cup Held)' : s.id = c.id => s.room = c.room /\ s.user = c.user
        BY <1>4, <2>1, <2>2 DEF ChatInv, ChatShape
    <2>4. \A q \in Rooms, w \in Users : q # r \/ w # u => StaysOf(q, w)' = StaysOf(q, w)
        BY <2>1, <2>2 DEF StaysOf
    <2>5. StayInv(r, u) => Right(StaysOf(r, u)', Inside(r, u))
        <3>1. ASSUME StayInv(r, u) PROVE OpenOf(StaysOf(r, u)') = {new} /\ Inside(r, u)
            <4>1. OpenOf(StaysOf(r, u)) = {} /\ Inside(r, u)
                BY <1>1, <1>5, <1>7, <3>1 DEF StayInv, StayAs
            <4>2. StaysOf(r, u)' = StaysOf(r, u) \cup {new}
                BY <2>1, <2>2 DEF StaysOf
            <4> QED BY <2>2, <4>1, <4>2 DEF OpenOf
        <3> QED BY <3>1 DEF Right
    <2>6. \A q \in Rooms, w \in Users : <<q, w>> \notin chatMixed' => StayInv(q, w)'
        <3>1. \A q \in Rooms, w \in Users :
                  q # t.room \/ w # t.user => StaysOf(q, w)' = StaysOf(q, w)
            BY <1>3, <2>4
        <3>2. StayInv(t.room, t.user) =>
                  Right(StaysOf(t.room, t.user)', Inside(t.room, t.user))
            BY <1>3, <2>5
        <3> QED BY <1>1, <3>1, <3>2, StaysAfterTask
    <2>7. ChatShape'
        <3>1. /\ IsABag(chatRunning') /\ chatMixed' \subseteq Rooms \X Users
              /\ \A k \in BagToSet(chatRunning') : IsTask(k)'
            BY <1>1, TaskEnds DEF ChatInv, ChatShape
        <3>2. stays' \subseteq Stay
            BY <2>1, <2>2 DEF ChatInv, ChatShape
        <3>3. \A s, c \in stays' : s.id = c.id => s = c
            BY <2>1, <2>2 DEF ChatInv, ChatShape
        <3> QED BY <2>3, <3>1, <3>2, <3>3 DEF ChatShape
    <2>8. \A s \in stays' : Exists(rooms[s.room])
        BY <1>7, <2>1, <2>2 DEF ChatInv
    <2> QED BY <2>6, <2>7, <2>8 DEF ChatInv
<1> QED BY <1>6, <1>7

\* A task that is to leave no open row leaves none, and is alone with that.
LEMMA EndedIsRight ==
    ASSUME NEW t \in BagToSet(chatRunning), t.step \in {"leave", "kick"},
           OpenOf(StaysOf(t.room, t.user)') = {}
    PROVE  StayInv(t.room, t.user) =>
               Right(StaysOf(t.room, t.user)', Inside(t.room, t.user))
BY DEF StayInv, StayAs, Right, Concerning, About

LEMMA DeleteKeeps ==
    ASSUME ChatInv, topic = "chat", NEW t \in BagToSet(chatRunning), DeleteStays(t),
           rooms' = rooms, created' = created, topic' = topic
    PROVE  ChatInv'
<1>1. t.step = "leave" /\ FinishTask(t) /\ stays' = stays \ StaysOf(t.room, t.user)
    BY DEF DeleteStays
<1>2. Held' \subseteq Held
    BY <1>1, TaskEnds DEF ChatInv
<1>3. \A r \in Rooms, u \in Users :
          r # t.room \/ u # t.user => StaysOf(r, u)' = StaysOf(r, u)
    BY <1>1 DEF StaysOf
<1>4. OpenOf(StaysOf(t.room, t.user)') = {}
    BY <1>1 DEF StaysOf, OpenOf
<1>5. \A r \in Rooms, u \in Users : <<r, u>> \notin chatMixed' => StayInv(r, u)'
    BY <1>1, <1>3, <1>4, EndedIsRight, StaysAfterTask
<1> QED BY <1>1, <1>2, <1>5, TaskEnds DEF ChatInv, ChatShape

LEMMA EndKeeps ==
    ASSUME ChatInv, topic = "chat", NEW t \in BagToSet(chatRunning), EndStays(t),
           rooms' = rooms, created' = created, topic' = topic
    PROVE  ChatInv'
<1> PICK rows : rows = StaysOf(t.room, t.user)
    OBVIOUS
<1>1. /\ t.step = "kick" /\ FinishTask(t)
      /\ stays' = (stays \ rows) \cup {[s EXCEPT !.ended = TRUE] : s \in rows}
    BY DEF EndStays
<1>2. Held' \subseteq Held
    BY <1>1, TaskEnds DEF ChatInv
<1>3. /\ rows \subseteq stays /\ \A s \in rows : s.room = t.room /\ s.user = t.user
      /\ \A s \in stays \ rows : s.room # t.room \/ s.user # t.user
    BY DEF StaysOf
<1>4. ASSUME NEW c \in rows, NEW s, s = [c EXCEPT !.ended = TRUE]
      PROVE  s.id = c.id /\ s.room = c.room /\ s.user = c.user /\ s \in Stay /\ s.ended
    <2>1. c \in Stay
        BY <1>3 DEF ChatInv, ChatShape
    <2> QED BY <1>4, <2>1 DEF Stay
<1>5. \A s \in stays' :
          \/ s \in stays \ rows
          \/ \E c \in rows : /\ s = [c EXCEPT !.ended = TRUE] /\ s.ended /\ s \in Stay
                             /\ s.id = c.id /\ s.room = c.room /\ s.user = c.user
    BY <1>1, <1>4
<1>6. \A r \in Rooms, u \in Users :
          r # t.room \/ u # t.user => StaysOf(r, u)' = StaysOf(r, u)
    <2> SUFFICES ASSUME NEW r \in Rooms, NEW u \in Users, r # t.room \/ u # t.user
                 PROVE  StaysOf(r, u)' = StaysOf(r, u)
        OBVIOUS
    <2>1. \A s \in StaysOf(r, u) : s \in StaysOf(r, u)'
        BY <1>1, <1>3 DEF StaysOf
    <2>2. \A s \in StaysOf(r, u)' : s \in StaysOf(r, u)
        BY <1>3, <1>5 DEF StaysOf
    <2> QED BY <2>1, <2>2
<1>7. OpenOf(StaysOf(t.room, t.user)') = {}
    BY <1>3, <1>5 DEF StaysOf, OpenOf
<1>8. \A r \in Rooms, u \in Users : <<r, u>> \notin chatMixed' => StayInv(r, u)'
    BY <1>1, <1>6, <1>7, EndedIsRight, StaysAfterTask
<1>9. \A s \in stays' : /\ s \in Stay
                        /\ \E c \in stays : s.id = c.id /\ s.room = c.room /\ s.user = c.user
    BY <1>3, <1>5 DEF ChatInv, ChatShape
<1>10. \A s, c \in stays' : s.id = c.id => s = c
    <2>1. \A s, c \in stays : s.id = c.id => s = c
        BY DEF ChatInv, ChatShape
    <2>2. ASSUME NEW s \in stays', NEW c \in stays', s.id = c.id,
                 s \in stays \ rows, c \notin stays \ rows
          PROVE  FALSE
        <3>1. PICK d \in rows : c.id = d.id
            BY <1>5, <2>2
        <3> QED BY <1>3, <2>1, <2>2, <3>1
    <2>3. ASSUME NEW s \in stays', NEW c \in stays', s.id = c.id,
                 s \notin stays \ rows, c \notin stays \ rows
          PROVE  s = c
        <3>1. PICK d \in rows : s = [d EXCEPT !.ended = TRUE] /\ s.id = d.id
            BY <1>5, <2>3
        <3>2. PICK e \in rows : c = [e EXCEPT !.ended = TRUE] /\ c.id = e.id
            BY <1>5, <2>3
        <3> QED BY <1>3, <2>1, <2>3, <3>1, <3>2
    <2> QED BY <2>1, <2>2, <2>3
<1>11. \A s, c \in (stays \cup Held)' : s.id = c.id => s.room = c.room /\ s.user = c.user
    <2>1. \A s \in (stays \cup Held)' : \E c \in stays \cup Held :
               s.id = c.id /\ s.room = c.room /\ s.user = c.user
        BY <1>2, <1>9
    <2> QED BY <2>1, IdsKept DEF ChatInv
<1>12. \A s \in stays' : Exists(rooms[s.room])
    BY <1>9 DEF ChatInv
<1>13. ChatShape'
    BY <1>1, <1>9, <1>10, <1>11, TaskEnds DEF ChatInv, ChatShape
<1> QED BY <1>8, <1>12, <1>13 DEF ChatInv

LEMMA SaveKeeps ==
    ASSUME ChatInv, topic = "chat", NEW t \in BagToSet(chatRunning), SaveStay(t),
           rooms' = rooms, created' = created, topic' = topic
    PROVE  ChatInv'
<1>1. t.step = "read" /\ FinishTask(t)
    BY DEF SaveStay
<1>2. IsTask(t)
    BY DEF ChatInv, ChatShape
<1>3. PICK r \in Rooms, u \in Users : r = t.room /\ u = t.user
    BY <1>2 DEF IsTask
<1>4. Held' \subseteq Held /\ t.stay \subseteq Held
    <2>1. Held' \subseteq Held
        BY <1>1, TaskEnds DEF ChatInv
    <2> QED BY <2>1 DEF Held
<1>5. t \in Concerning(r, u)
    BY <1>3 DEF Concerning, About
<1>6. StayInv(r, u) => /\ Right(StaysOf(r, u), Inside(r, u))
                       /\ Exists(rooms[r]) => t.stay \subseteq StaysOf(r, u)
    BY <1>1, <1>5 DEF StayInv, StayAs
<1>7. CASE ~Exists(rooms[r])
    <2>1. stays' = stays
        BY <1>3, <1>7 DEF SaveStay
    <2>2. \A q, w : StaysOf(q, w)' = StaysOf(q, w)
        BY <2>1 DEF StaysOf
    <2>3. \A q \in Rooms, w \in Users : <<q, w>> \notin chatMixed' => StayInv(q, w)'
        BY <1>1, <1>3, <1>6, <2>2, StaysAfterTask
    <2> QED BY <1>1, <1>4, <2>1, <2>3, TaskEnds DEF ChatInv, ChatShape
<1>8. CASE Exists(rooms[r])
    <2>1. stays' = {s \in stays : \A c \in t.stay : c.id # s.id} \cup t.stay
        BY <1>3, <1>8 DEF SaveStay
    <2>2. /\ t.stay \subseteq Stay /\ \A c, d \in t.stay : c = d
          /\ \A c \in t.stay : c.room = r /\ c.user = u
        BY <1>2, <1>3 DEF IsTask
    <2>3. \A s \in stays, c \in t.stay : c.id = s.id => s.room = r /\ s.user = u
        BY <1>4, <2>2 DEF ChatInv, ChatShape
    <2>4. \A q \in Rooms, w \in Users : q # r \/ w # u => StaysOf(q, w)' = StaysOf(q, w)
        BY <2>1, <2>2, <2>3 DEF StaysOf
    <2>5. StayInv(r, u) => Right(StaysOf(r, u)', Inside(r, u))
        <3>1. ASSUME t.stay \subseteq StaysOf(r, u) PROVE stays' = stays
            <4>1. t.stay \subseteq stays
                BY <3>1 DEF StaysOf
            <4>2. \A s \in stays, c \in t.stay : c.id = s.id => s = c
                BY <4>1 DEF ChatInv, ChatShape
            <4> QED BY <2>1, <4>1, <4>2
        <3>2. ASSUME stays' = stays PROVE StaysOf(r, u)' = StaysOf(r, u)
            BY <3>2 DEF StaysOf
        <3> QED BY <1>6, <1>8, <3>1, <3>2
    <2>6. \A q \in Rooms, w \in Users : <<q, w>> \notin chatMixed' => StayInv(q, w)'
        BY <1>1, <1>3, <2>4, <2>5, StaysAfterTask
    <2>7. stays' \subseteq Stay /\ \A s, c \in stays' : s.id = c.id => s = c
        BY <2>1, <2>2 DEF ChatInv, ChatShape
    <2>8. \A s, c \in (stays \cup Held)' : s.id = c.id => s.room = c.room /\ s.user = c.user
        <3>1. (stays \cup Held)' \subseteq stays \cup Held
            BY <1>4, <2>1
        <3> QED BY <3>1 DEF ChatInv, ChatShape
    <2>9. \A s \in stays' : Exists(rooms[s.room])
        BY <1>8, <2>1, <2>2 DEF ChatInv
    <2>10. ChatShape'
        BY <1>1, <2>7, <2>8, TaskEnds DEF ChatInv, ChatShape
    <2> QED BY <2>6, <2>9, <2>10 DEF ChatInv
<1> QED BY <1>7, <1>8

LEMMA FindKeeps ==
    ASSUME ChatInv, topic = "chat", NEW t \in BagToSet(chatRunning), FindStay(t),
           rooms' = rooms, created' = created, topic' = topic
    PROVE  ChatInv'
<1>1. t.step = "chat" /\ stays' = stays
    BY DEF FindStay
<1>2. IsTask(t)
    BY DEF ChatInv, ChatShape
<1>3. \A q, w : StaysOf(q, w)' = StaysOf(q, w)
    BY <1>1 DEF StaysOf
<1>4. t \in Concerning(t.room, t.user)
    BY DEF Concerning, About
<1>5. StayInv(t.room, t.user) =>
          /\ \A k \in Concerning(t.room, t.user) : k = t
          /\ chatRunning[t] = 1
          /\ Right(StaysOf(t.room, t.user), Inside(t.room, t.user))
    BY <1>1, <1>4 DEF StayInv, StayAs
<1>6. CASE FinishTask(t)
    <2>1. \A r \in Rooms, u \in Users : <<r, u>> \notin chatMixed' => StayInv(r, u)'
        BY <1>3, <1>5, <1>6, StaysAfterTask
    <2> QED BY <1>1, <1>6, <2>1, TaskEnds DEF ChatInv, ChatShape
<1>7. ASSUME NEW s \in StaysOf(t.room, t.user), chatMixed' = chatMixed,
             chatRunning' = Starting(Settled(chatRunning, t),
                                     {[t EXCEPT !.step = "read", !.stay = {s}]})
      PROVE  ChatInv'
    <2> PICK next : next = [t EXCEPT !.step = "read", !.stay = {s}]
        OBVIOUS
    <2> PICK B, C : B = chatRunning /\ C = Settled(B, t)
        OBVIOUS
    <2>1. /\ next.step = "read" /\ next.room = t.room /\ next.user = t.user
          /\ next.stay = {s} /\ next # t /\ s \in stays /\ s.room = t.room /\ s.user = t.user
        BY <1>1, <1>2 DEF IsTask, StaysOf
    <2>2. IsTask(next)'
        <3>1. next = [step |-> "read", room |-> t.room, user |-> t.user, stay |-> {s}]
            BY <1>2 DEF IsTask
        <3>2. s \in Stay
            BY <2>1 DEF ChatInv, ChatShape
        <3> QED BY <1>2, <2>1, <3>1, <3>2 DEF IsTask
    <2>3. /\ IsABag(C) /\ BagToSet(C) \subseteq BagToSet(B)
          /\ BagToSet(B) \subseteq BagToSet(C) \cup {t}
          /\ \A k \in BagToSet(B) \ {t} : C[k] = B[k]
          /\ B[t] = 1 => t \notin BagToSet(C)
        BY BagSteps, BagCounts DEF ChatInv, ChatShape
    <2>4. /\ IsABag(chatRunning') /\ BagToSet(chatRunning') = BagToSet(C) \cup {next}
          /\ \A k \in BagToSet(C) \ {next} : chatRunning'[k] = C[k]
          /\ next \notin BagToSet(C) => chatRunning'[next] = 1
        BY <1>7, <2>3, BagSteps, BagCounts
    <2>5. \A k \in BagToSet(chatRunning') : IsTask(k)'
        BY <2>2, <2>3, <2>4 DEF ChatInv, ChatShape, IsTask
    <2>6. (stays \cup Held)' \subseteq stays \cup Held
        <3>1. \A k \in BagToSet(chatRunning') : k.stay \subseteq stays \cup Held
            <4>1. \A k \in BagToSet(B) : k.stay \subseteq Held
                BY DEF Held
            <4>2. next.stay \subseteq stays
                BY <2>1
            <4> QED BY <2>3, <2>4, <4>1, <4>2
        <3>2. Held' \subseteq stays \cup Held
            <4>1. Held' = UNION {k.stay : k \in BagToSet(chatRunning')}
                BY DEF Held
            <4> QED BY <3>1, <4>1
        <3> QED BY <1>1, <3>2
    <2>7. ChatShape'
        BY <1>1, <1>7, <2>4, <2>5, <2>6 DEF ChatInv, ChatShape
    <2>8. ASSUME NEW r \in Rooms, NEW u \in Users, <<r, u>> \notin chatMixed
          PROVE  StayInv(r, u)'
        <3>1. StayInv(r, u)
            BY <2>8 DEF ChatInv
        <3>2. CASE r # t.room \/ u # t.user
            <4>1. \A k \in Concerning(r, u) : k # t /\ k # next
                BY <2>1, <3>2 DEF Concerning, About
            <4>2. Concerning(r, u)' = Concerning(r, u)
                BY <2>1, <2>3, <2>4, <3>2, <4>1 DEF Concerning, About
            <4>3. \A k \in Concerning(r, u) : chatRunning'[k] = chatRunning[k]
                BY <2>3, <2>4, <4>1 DEF Concerning, About
            <4> QED BY <1>3, <3>1, <4>2, <4>3, StayKept
        <3>3. CASE r = t.room /\ u = t.user
            <4>1. next \notin BagToSet(B) /\ t \notin BagToSet(C)
                BY <1>5, <2>1, <2>3, <3>1, <3>3 DEF Concerning, About
            <4>2. chatRunning'[next] = 1
                BY <2>3, <2>4, <4>1
            <4>3. Concerning(r, u)' = {next}
                BY <1>5, <2>1, <2>3, <2>4, <3>1, <3>3, <4>1 DEF Concerning, About
            <4>4. Right(StaysOf(r, u)', Inside(r, u)')
                BY <1>3, <1>5, <3>1, <3>3 DEF Inside
            <4>5. next.stay \subseteq StaysOf(r, u)'
                BY <1>3, <1>7, <2>1, <3>3
            <4> QED BY <2>1, <4>2, <4>3, <4>4, <4>5 DEF StayInv, StayAs
        <3> QED BY <3>2, <3>3
    <2> QED BY <1>1, <1>7, <2>7, <2>8 DEF ChatInv
<1> QED BY <1>6, <1>7 DEF FindStay

\* A call starts beside what runs.
LEMMA CallKeeps ==
    ASSUME ChatInv, topic = "chat", NEW t, IsTask(t), t.step \in {"chat", "read"},
           t.stay \subseteq StaysOf(t.room, t.user), StartCall(t),
           rooms' = rooms, created' = created, topic' = topic
    PROVE  ChatInv'
<1>1. stays' = stays /\ chatRunning' = Starting(chatRunning, {t})
    BY DEF StartCall
<1>2. /\ IsABag(chatRunning') /\ BagToSet(chatRunning') = BagToSet(chatRunning) \cup {t}
      /\ \A k \in BagToSet(chatRunning) \ {t} : chatRunning'[k] = chatRunning[k]
      /\ t \notin BagToSet(chatRunning) => chatRunning'[t] = 1
    BY <1>1, BagSteps, BagCounts DEF ChatInv, ChatShape
<1>3. \A q, w : StaysOf(q, w)' = StaysOf(q, w)
    BY <1>1 DEF StaysOf
<1>4. /\ chatMixed \subseteq chatMixed'
      /\ chatMixed' \subseteq chatMixed \cup {<<t.room, t.user>>}
      /\ \A k \in BagToSet(chatRunning) :
            k.room = t.room /\ k.user = t.user => <<t.room, t.user>> \in chatMixed'
    BY DEF StartCall, MixedAfter
<1>5. \A k \in BagToSet(chatRunning') : IsTask(k)'
    BY <1>2 DEF ChatInv, ChatShape, IsTask
<1>6. (stays \cup Held)' \subseteq stays \cup Held
    <2>1. \A k \in BagToSet(chatRunning') : k.stay \subseteq stays \cup Held
        <3>1. \A k \in BagToSet(chatRunning) : k.stay \subseteq Held
            BY DEF Held
        <3>2. t.stay \subseteq stays
            BY DEF StaysOf
        <3> QED BY <1>2, <3>1, <3>2
    <2>2. Held' \subseteq stays \cup Held
        <3>1. Held' = UNION {k.stay : k \in BagToSet(chatRunning')}
            BY DEF Held
        <3> QED BY <2>1, <3>1
    <2> QED BY <1>1, <2>2
<1>7. ChatShape'
    <2>1. chatMixed' \subseteq Rooms \X Users
        <3>1. <<t.room, t.user>> \in Rooms \X Users
            BY DEF IsTask
        <3> QED BY <1>4, <3>1 DEF ChatInv, ChatShape
    <2>2. \A s, c \in (stays \cup Held)' : s.id = c.id => s.room = c.room /\ s.user = c.user
        BY <1>6 DEF ChatInv, ChatShape
    <2> QED BY <1>1, <1>2, <1>5, <2>1, <2>2 DEF ChatInv, ChatShape
<1>8. ASSUME NEW r \in Rooms, NEW u \in Users, <<r, u>> \notin chatMixed'
      PROVE  StayInv(r, u)'
    <2>1. StayInv(r, u)
        BY <1>4, <1>8 DEF ChatInv
    <2>2. CASE r # t.room \/ u # t.user
        <3>1. \A k \in Concerning(r, u) : k # t
            BY <2>2 DEF Concerning, About
        <3>2. Concerning(r, u)' = Concerning(r, u)
            BY <1>2, <2>2 DEF Concerning, About
        <3>3. \A k \in Concerning(r, u) : chatRunning'[k] = chatRunning[k]
            BY <1>2, <3>1 DEF Concerning, About
        <3> QED BY <1>3, <2>1, <3>2, <3>3, StayKept
    <2>3. CASE r = t.room /\ u = t.user
        <3>1. Concerning(r, u) = {} /\ t \notin BagToSet(chatRunning)
            BY <1>4, <1>8, <2>3 DEF Concerning, About
        <3>2. chatRunning'[t] = 1 /\ Concerning(r, u)' = {t}
            BY <1>2, <2>3, <3>1 DEF Concerning, About
        <3>3. Right(StaysOf(r, u)', Inside(r, u)')
            BY <1>3, <2>1, <3>1 DEF StayInv, StayAs, Inside
        <3>4. t.stay \subseteq StaysOf(r, u)'
            BY <1>3, <2>3
        <3> QED BY <3>2, <3>3, <3>4 DEF StayInv, StayAs
    <2> QED BY <2>2, <2>3
<1> QED BY <1>1, <1>7, <1>8 DEF ChatInv

LEMMA ChatStepKeeps ==
    ASSUME RoomsInv, ChatInv, topic = "chat", ChatStep,
           rooms' = rooms, created' = created, topic' = topic
    PROVE  ChatInv'
<1>1. ASSUME NEW r \in Rooms, NEW u \in Users, Chat(u, r) PROVE ChatInv'
    <2> PICK t : t = ChatTask("chat", r, u)
        OBVIOUS
    <2>1. Exists(rooms[r])
        BY <1>1 DEF Chat, RoomsInv, RoomInv, GoneIsEmpty, NoRoom, Exists, ParticipantRoles
    <2>2. IsTask(t) /\ t.step = "chat" /\ t.stay = {}
        BY <2>1 DEF ChatTask, IsTask, ChatInv
    <2> QED BY <1>1, <2>2, CallKeeps DEF Chat
<1>2. ASSUME NEW r \in Rooms, NEW u \in Users, Read(u, r) PROVE ChatInv'
    <2>1. PICK s \in StaysOf(r, u) :
              StartCall([ChatTask("read", r, u) EXCEPT !.stay = {s}])
        BY <1>2 DEF Read
    <2> PICK t : t = [ChatTask("read", r, u) EXCEPT !.stay = {s}]
        OBVIOUS
    <2>2. t = [step |-> "read", room |-> r, user |-> u, stay |-> {s}]
        BY DEF ChatTask
    <2>3. s \in Stay /\ s.room = r /\ s.user = u /\ r \in created
        BY DEF StaysOf, ChatInv, ChatShape
    <2>4. IsTask(t)
        BY <2>2, <2>3 DEF IsTask
    <2> QED BY <2>1, <2>2, <2>4, CallKeeps
<1> QED BY <1>1, <1>2, EnterKeeps, DeleteKeeps, EndKeeps, FindKeeps, SaveKeeps DEF ChatStep

\* Which task an event starts.
LEMMA TaskForEvent ==
    ASSUME NEW e
    PROVE  /\ \A t \in TasksOf(e) :
                 /\ t = ChatTask(t.step, e.room, e.user)
                 /\ t.room = e.room /\ t.user = e.user /\ t.stay = {}
                 /\ \/ t.step = "enter" /\ e.type = "USER_ENTER"
                    \/ t.step = "leave" /\ e.type = "USER_LEAVE"
                    \/ t.step = "kick" /\ e.type = "USER_KICKED"
                 /\ TasksOf(e) = {t}
           /\ e.type \in Movers => TasksOf(e) # {}
<1>1. \A t \in TasksOf(e) : \E step \in {"enter", "leave", "kick"} :
          /\ t = ChatTask(step, e.room, e.user)
          /\ \/ step = "enter" /\ e.type = "USER_ENTER"
             \/ step = "leave" /\ e.type = "USER_LEAVE"
             \/ step = "kick" /\ e.type = "USER_KICKED"
          /\ TasksOf(e) = {t}
    BY DEF TasksOf
<1>2. \A step : /\ ChatTask(step, e.room, e.user).step = step
                /\ ChatTask(step, e.room, e.user).room = e.room
                /\ ChatTask(step, e.room, e.user).user = e.user
                /\ ChatTask(step, e.room, e.user).stay = {}
    BY DEF ChatTask
<1>3. e.type \in Movers => TasksOf(e) # {}
    BY DEF TasksOf, Movers
<1> QED BY <1>1, <1>2, <1>3

\* A call is heard of by the task of the user it moves: of a user and a room that are
\* not mixed, only when no other one runs about them.
LEMMA ChatHears ==
    ASSUME RoomsInv, ChatInv, NEW events, Tells(events), ChatHear(events),
           topic' = topic, topic = "chat",
           created' = created \cup {r \in Rooms : Exists(rooms'[r])}
    PROVE  ChatInv'
<1> PICK starting : starting = UNION {TasksOf(e) : e \in events}
    OBVIOUS
<1>1. /\ chatRunning' = Starting(chatRunning, starting)
      /\ stays' = {s \in stays : Exists(rooms'[s.room])}
      /\ chatMixed' = MixedAfter(starting)
    BY DEF ChatHear
<1>2. /\ IsABag(chatRunning')
      /\ BagToSet(chatRunning') = BagToSet(chatRunning) \cup starting
      /\ \A k \in BagToSet(chatRunning) \ starting : chatRunning'[k] = chatRunning[k]
      /\ \A k \in starting \ BagToSet(chatRunning) : chatRunning'[k] = 1
    BY <1>1, BagSteps, BagCounts DEF ChatInv, ChatShape
<1>3. \A t \in starting : \E e \in events : t \in TasksOf(e)
    OBVIOUS
<1>4. ASSUME NEW t \in starting
      PROVE  /\ IsTask(t)' /\ t.stay = {}
             /\ \E e \in events :
                   /\ e.room = t.room /\ e.user = t.user
                   /\ \/ t.step = "enter" /\ e.type = "USER_ENTER"
                      \/ t.step = "leave" /\ e.type = "USER_LEAVE"
                      \/ t.step = "kick" /\ e.type = "USER_KICKED"
    <2>1. PICK e \in events : t \in TasksOf(e)
        BY <1>3
    <2>2. /\ t = ChatTask(t.step, e.room, e.user) /\ t.stay = {}
          /\ e.room = t.room /\ e.user = t.user
          /\ \/ t.step = "enter" /\ e.type = "USER_ENTER"
             \/ t.step = "leave" /\ e.type = "USER_LEAVE"
             \/ t.step = "kick" /\ e.type = "USER_KICKED"
        BY <2>1, TaskForEvent
    <2>3. /\ e.room \in Rooms /\ e.user \in Users
          /\ Exists(rooms[e.room]) \/ Exists(rooms'[e.room])
        BY DEF Tells, OneMoves, Priced
    <2>4. e.room \in created'
        BY <2>3 DEF ChatInv
    <2> QED BY <2>2, <2>3, <2>4 DEF IsTask, ChatTask
<1>5. \A t, k \in starting : t = k
    <2>1. ASSUME NEW t \in starting, NEW k \in starting PROVE t = k
        <3>1. PICK d \in events : t \in TasksOf(d)
            BY <1>3
        <3>2. PICK e \in events : k \in TasksOf(e)
            BY <1>3
        <3>3. d.type \in Movers /\ e.type \in Movers
            BY <3>1, <3>2, TaskForEvent DEF Movers
        <3>4. d = e
            BY <3>3 DEF Tells, OneMoves
        <3> QED BY <3>1, <3>2, <3>4, TaskForEvent
    <2> QED BY <2>1
<1>6. ChatShape'
    <2>1. \A t \in BagToSet(chatRunning') : IsTask(t)'
        BY <1>2, <1>4 DEF ChatInv, ChatShape, IsTask
    <2>2. Held' \subseteq Held
        <3>1. \A k \in BagToSet(chatRunning') : k.stay \subseteq Held
            BY <1>2, <1>4 DEF Held
        <3>2. Held' = UNION {k.stay : k \in BagToSet(chatRunning')}
            BY DEF Held
        <3> QED BY <3>1, <3>2
    <2>3. chatMixed' \subseteq Rooms \X Users
        <3>1. \A t \in starting : <<t.room, t.user>> \in Rooms \X Users
            BY <1>4 DEF IsTask
        <3>2. \A x \in chatMixed' :
                  x \in chatMixed \/ \E t \in starting : x = <<t.room, t.user>>
            BY <1>1 DEF MixedAfter
        <3> QED BY <3>1, <3>2 DEF ChatInv, ChatShape
    <2> QED BY <1>1, <1>2, <2>1, <2>2, <2>3 DEF ChatInv, ChatShape
<1>7. ASSUME NEW r \in Rooms, NEW u \in Users, <<r, u>> \notin chatMixed'
      PROVE  StayInv(r, u)'
    <2> PICK rm : rm = rooms[r]
        OBVIOUS
    <2> PICK after : after = rooms'[r]
        OBVIOUS
    <2> PICK S : S = {t \in starting : t.room = r /\ t.user = u}
        OBVIOUS
    <2> PICK L : L = Concerning(r, u)
        OBVIOUS
    <2> PICK M : M = Concerning(r, u)'
        OBVIOUS
    <2> PICK rows : rows = StaysOf(r, u)
        OBVIOUS
    <2> PICK left : left = StaysOf(r, u)'
        OBVIOUS
    <2> PICK in : in = Inside(r, u)
        OBVIOUS
    <2> PICK now : now = Inside(r, u)'
        OBVIOUS
    <2>1. Told(r, rm, after, events) /\ Moved(r, rm, after, events)
        BY DEF Tells
    <2>2. M = L \cup S
        BY <1>2 DEF Concerning, About
    <2>3. /\ S = {} \/ L = {}
          /\ <<r, u>> \notin chatMixed \/ \E t \in S : t.step \in {"leave", "kick"}
        <3>1. \A t \in S : \A k \in L : FALSE
            BY <1>1, <1>7 DEF MixedAfter, Concerning, About
        <3>2. <<r, u>> \in chatMixed => \E t \in S : t.step \in {"leave", "kick"}
            <4>1. <<r, u>> \in chatMixed =>
                    \E t \in starting : /\ t.step \in {"leave", "kick"}
                                        /\ <<t.room, t.user>> = <<r, u>>
                BY <1>1, <1>7 DEF MixedAfter
            <4> QED BY <4>1
        <3> QED BY <3>1, <3>2
    <2>4. \A t \in S : chatRunning'[t] = 1
        <3>1. \A t \in S : t \notin BagToSet(chatRunning)
            BY <2>3 DEF Concerning, About
        <3> QED BY <1>2, <3>1
    <2>5. /\ Exists(after) => left = {s \in stays : s.room = r /\ s.user = u}
          /\ ~Exists(after) => left = {}
        BY <1>1 DEF StaysOf
    <2>6. /\ Exists(after) => left = rows
          /\ OpenOf(left) \subseteq OpenOf(rows)
        BY <2>5 DEF StaysOf, OpenOf
    <2>7. in <=> Exists(rm) /\ u \in CurrentParticipants(rm)
        BY DEF Inside
    <2>8. now <=> Exists(after) /\ u \in CurrentParticipants(after)
        BY DEF Inside
    <2>9. ~Exists(rm) => u \notin CurrentParticipants(rm)
        BY DEF RoomsInv, RoomInv, GoneIsEmpty, NoRoom, Exists, CurrentParticipants,
               ParticipantRoles
    <2>10. ASSUME NEW e \in events, e.type \in Movers, e.room = r, e.user = u
           PROVE  S # {}
        <3>1. PICK t : t \in TasksOf(e)
            BY <2>10, TaskForEvent
        <3>2. t \in starting /\ t.room = r /\ t.user = u
            BY <2>10, <3>1, TaskForEvent
        <3> QED BY <3>2
    <2>11. <<r, u>> \notin chatMixed =>
               StayInv(r, u) /\ StayAs(L, rows, Exists(rm), in)
        BY DEF ChatInv, StayInv
    <2>12. StayAs(M, left, Exists(after), now)
        <3>1. CASE S = {}
            <4>1. /\ u \in CurrentParticipants(after) => u \in CurrentParticipants(rm)
                  /\ Exists(after) /\ u \in CurrentParticipants(rm)
                        => u \in CurrentParticipants(after)
                <5>1. /\ Event("USER_ENTER", r, u) \notin events
                      /\ Event("USER_LEAVE", r, u) \notin events
                      /\ Event("USER_KICKED", r, u) \notin events
                    BY <2>10, <3>1 DEF Event, Movers
                <5> QED BY <2>1, <5>1 DEF Told, Moved
            <4>2. StayAs(L, rows, Exists(rm), in) /\ M = L
                BY <2>2, <2>3, <2>11, <3>1
            <4>3. CASE ~Exists(after)
                BY <2>5, <2>8, <4>2, <4>3 DEF StayAs, Right, OpenOf
            <4>4. CASE Exists(after) /\ Exists(rm)
                <5>1. now <=> in
                    BY <2>7, <2>8, <4>1, <4>4
                <5> QED BY <2>6, <4>2, <4>4, <5>1 DEF StayAs, Right
            <4>5. CASE Exists(after) /\ ~Exists(rm)
                <5>1. L = {} /\ ~now /\ ~in
                    <6>1. r \notin created
                        BY <2>1, <4>5 DEF Told
                    <6>2. \A t \in L : t.room \in created /\ t.room = r
                        BY DEF Concerning, About, ChatInv, ChatShape, IsTask
                    <6> QED BY <2>7, <2>8, <2>9, <4>1, <4>5, <6>1, <6>2
                <5> QED BY <2>6, <4>2, <4>5, <5>1 DEF StayAs, Right
            <4> QED BY <4>3, <4>4, <4>5
        <3>2. CASE S # {}
            <4>1. PICK t : S = {t} /\ t \in starting
                BY <1>5, <3>2
            <4>2. M = {t}
                BY <2>2, <2>3, <4>1
            <4>3. t.room = r /\ t.user = u /\ t.stay = {}
                BY <1>4, <4>1
            <4>4. PICK e \in events :
                      /\ e.room = r /\ e.user = u
                      /\ \/ t.step = "enter" /\ e.type = "USER_ENTER"
                         \/ t.step = "leave" /\ e.type = "USER_LEAVE"
                         \/ t.step = "kick" /\ e.type = "USER_KICKED"
                BY <1>4, <4>1, <4>3
            <4>5. CASE t.step = "enter"
                <5>1. /\ u \in CurrentParticipants(after)
                      /\ u \notin CurrentParticipants(rm)
                    BY <2>1, <4>4, <4>5 DEF Moved
                <5>2. <<r, u>> \notin chatMixed /\ L = {}
                    BY <2>3, <3>2, <4>1, <4>5
                <5>3. OpenOf(rows) = {}
                    BY <2>7, <2>11, <5>1, <5>2 DEF StayAs, Right
                <5> QED BY <2>6, <2>8, <4>2, <4>5, <5>1, <5>3 DEF StayAs
            <4>6. CASE t.step \in {"leave", "kick"}
                <5>1. u \notin CurrentParticipants(after)
                    BY <2>1, <4>4, <4>6 DEF Moved
                <5> QED BY <2>8, <4>2, <4>6, <5>1 DEF StayAs
            <4> QED BY <4>4, <4>5, <4>6
        <3> QED BY <3>1, <3>2
    <2>13. \A t \in M : chatRunning'[t] = 1
        <3>1. ASSUME NEW t \in L, S = {} PROVE chatRunning'[t] = 1
            <4>1. t \notin starting /\ t \in BagToSet(chatRunning)
                BY <3>1 DEF Concerning, About
            <4>2. chatRunning[t] = 1
                BY <2>3, <2>11, <3>1 DEF StayInv
            <4> QED BY <1>2, <4>1, <4>2
        <3> QED BY <2>2, <2>3, <2>4, <3>1
    <2> QED BY <2>12, <2>13 DEF StayInv
<1>8. \A s \in stays' : Exists(rooms'[s.room])
    BY <1>1
<1> QED BY <1>6, <1>7, <1>8 DEF ChatInv

LEMMA ChatInvStep ==
    TypeOK /\ RoomsInv /\ ChatInv /\ [EventsNext]_eventVars => ChatInv'
<1>1. ASSUME ChatInv, UNCHANGED <<rooms, created, chatVars, topic>> PROVE ChatInv'
    BY <1>1 DEF chatVars, ChatInv, ChatShape, Held, IsTask, StayInv, Inside, Concerning,
               About, StaysOf
<1>2. ASSUME TypeOK, RoomsInv, ChatInv, RoomCall PROVE ChatInv'
    <2>1. PICK events : Hear(events) /\ Tells(events)
        BY <1>2, CallTells
    <2>2. created' = created \cup {r \in Rooms : Exists(rooms'[r])} /\ topic' = topic
        BY <1>2, <2>1 DEF RoomCall, Hear
    <2>3. CASE topic = "chat"
        BY <1>2, <2>1, <2>2, <2>3, ChatHears DEF Hear, Listen
    <2>4. CASE topic # "chat"
        <3>1. UNCHANGED chatVars
            BY <2>1, <2>4 DEF Hear, Listen
        <3>2. ChatShape'
            BY <1>2, <2>2, <3>1 DEF chatVars, ChatInv, ChatShape, Held, IsTask
        <3> QED BY <2>2, <2>4, <3>2 DEF ChatInv
    <2> QED BY <2>3, <2>4
<1>3. ASSUME RoomsInv, ChatInv, ListenerStep PROVE ChatInv'
    BY <1>1, <1>3, ChatStepKeeps DEF ListenerStep, vars
<1> QED BY <1>1, <1>2, <1>3 DEF EventsNext, eventVars, vars

LEMMA ChatAlwaysSound == EventsSpec => []ChatInv
<1>1. EventsInit => ChatInv
    <2>1. IsABag(EmptyBag) /\ BagToSet(EmptyBag) = {}
        BY DEF IsABag, EmptyBag, SetToBag, BagToSet
    <2>2. ~Exists(NoRoom)
        BY DEF NoRoom, Exists
    <2> SUFFICES ASSUME EventsInit PROVE ChatInv
        OBVIOUS
    <2>3. stays = {} /\ chatMixed = {} /\ chatRunning = EmptyBag
        BY DEF EventsInit, ChatInit
    <2>4. ChatShape
        BY <2>1, <2>3 DEF ChatShape, Held
    <2>5. \A r \in Rooms : ~Exists(rooms[r])
        BY <2>2 DEF EventsInit, Init
    <2>6. ASSUME NEW r, NEW u
          PROVE  Concerning(r, u) = {} /\ StaysOf(r, u) = {}
        BY <2>1, <2>3 DEF Concerning, About, StaysOf
    <2>7. ASSUME NEW r \in Rooms, NEW u \in Users PROVE StayInv(r, u)
        BY <2>5, <2>6 DEF StayInv, StayAs, Right, Inside, OpenOf
    <2> QED BY <2>3, <2>4, <2>5, <2>7 DEF ChatInv
<1> QED BY <1>1, ChatInvStep, ServiceUnderEvents, PTL DEF EventsSpec

\* When its listeners have settled, a user has an open stay in a room exactly while he
\* is in it, and one only, for any number of rooms, users and tasks that run at once;
\* but for a user and a room of whom two ran at once.
THEOREM StaysAlwaysFollowParticipants == EventsSpec => []StaysFollowParticipants
<1>1. RoomsInv /\ ChatInv => StaysFollowParticipants
    <2> SUFFICES ASSUME RoomsInv, ChatInv, topic = "chat", NEW r \in Rooms, NEW u \in Users,
                        Concerning(r, u) = {}, <<r, u>> \notin chatMixed
                 PROVE  Cardinality(OpenStays(r, u)) =
                            (IF u \in CurrentParticipants(rooms[r]) THEN 1 ELSE 0)
        BY DEF StaysFollowParticipants
    <2>1. Right(StaysOf(r, u), Inside(r, u))
        BY DEF ChatInv, StayInv, StayAs
    <2>2. Inside(r, u) <=> u \in CurrentParticipants(rooms[r])
        BY DEF Inside, RoomsInv, RoomInv, GoneIsEmpty, NoRoom, Exists, CurrentParticipants,
               ParticipantRoles
    <2>3. OpenOf(StaysOf(r, u)) = OpenStays(r, u)
        BY DEF OpenOf, OpenStays
    <2>4. CASE Inside(r, u)
        <3>1. PICK s : OpenStays(r, u) = {s}
            BY <2>1, <2>3, <2>4 DEF Right
        <3> QED BY <2>2, <2>4, <3>1, FS_Singleton
    <2>5. CASE ~Inside(r, u)
        BY <2>1, <2>2, <2>3, <2>5, FS_EmptySet DEF Right
    <2> QED BY <2>4, <2>5
<1> QED BY <1>1, ChatAlwaysSound, ServiceUnderEvents, PTL

-----------------------------------------------------------------------------
(* Types                                                                   *)

FeedTypes == FeedTypeOK /\ \A l \in BagToSet(feedRunning) : l.price \in Nat

LEMMA PricesAreNatural ==
    ASSUME NEW rm \in Room
    PROVE  TotalPrice(rm) \in Nat
<1>1. CurrentParticipants(rm) \subseteq Users
    BY DEF CurrentParticipants
<1>2. IsFiniteSet(CurrentParticipants(rm))
    BY <1>1, UsersAssumption, FS_Subset
<1>3. \A u \in CurrentParticipants(rm) : rm.menus[u] \in Nat
    BY <1>1 DEF Room
<1>4. TotalPrice(rm) = Cardinality(Units(rm.menus, CurrentParticipants(rm)))
    BY <1>2, <1>3, SumCounts DEF TotalPrice
<1>5. IsFiniteSet(Units(rm.menus, CurrentParticipants(rm)))
    BY <1>2, <1>3, SumCounts
<1> QED BY <1>4, <1>5, FS_CardinalityType

LEMMA FeedTypesHear ==
    ASSUME FeedInv, FeedTypes, NEW events, FeedHear(events)
    PROVE  FeedTypes'
<1> PICK starting : starting = UNION {ListenersOf(e) : e \in events}
    OBVIOUS
<1>1. BagToSet(feedRunning') = BagToSet(feedRunning) \cup starting
    BY BagSteps DEF FeedHear, FeedInv, FeedShape
<1>2. ASSUME NEW l \in starting
      PROVE  l.step \in Steps /\ l.rows = {} /\ l.price \in Nat
    <2>1. PICK e \in events : l \in ListenersOf(e)
        OBVIOUS
    <2>2. PICK step \in Steps : l = Listener(step, e.room)
        BY <2>1 DEF ListenersOf, Steps
    <2> QED BY <2>2 DEF Listener
<1>3. ASSUME NEW m \in Match \cup {NoMatch} PROVE Detached(m) \in Match \cup {NoMatch}
    BY DEF Detached, Match, NoMatch
<1>4. matches' \in [MatchTypes -> [Rooms -> Match \cup {NoMatch}]]
    BY <1>3 DEF FeedHear, FeedTypes, FeedTypeOK
<1>5. feedMixed' \subseteq Rooms
    BY DEF FeedHear, FeedTypes, FeedTypeOK
<1> QED BY <1>1, <1>2, <1>4, <1>5 DEF FeedTypes, FeedTypeOK

LEMMA FeedTypesStep ==
    ASSUME TypeOK, FeedInv, FeedTypes, FeedStep
    PROVE  FeedTypes'
<1>1. PICK l \in BagToSet(feedRunning) :
        \/ CreateMatch(l) \/ RecommendMatch(l) \/ ReadRoom(l) \/ FindMatch(l)
        \/ SaveMatch(l) \/ FindMatches(l) \/ RemoveMatches(l)
    BY DEF FeedStep
<1> PICK r \in Rooms : r = l.room
    BY DEF FeedInv, FeedShape, IsListener
<1>2. /\ IsListener(l) /\ "HomeFeed" \in MatchTypes /\ "CategorySubscription" \in MatchTypes
      /\ l.step \in Steps /\ l.rows \subseteq MatchTypes \X Rooms /\ l.price \in Nat
    BY DEF FeedInv, FeedShape, FeedTypes, FeedTypeOK, MatchTypes
<1>3. \/ Finish(l)
      \/ \E next : /\ Continue(l, next) /\ IsListener(next) /\ next.step \in Steps
                   /\ next.rows \subseteq MatchTypes \X Rooms /\ next.price \in Nat
    <2>1. CASE ReadRoom(l)
        <3> PICK price \in Nat : price = TotalPrice(rooms[r])
            BY PricesAreNatural DEF TypeOK
        <3> PICK next : next = [l EXCEPT !.step = "find", !.price = price]
            OBVIOUS
        <3>1. Continue(l, next)
            BY <2>1 DEF ReadRoom
        <3>2. IsListener(next) /\ next.step = "find" /\ next.rows = l.rows
              /\ next.price = price
            BY <1>2 DEF IsListener
        <3> QED BY <1>2, <3>1, <3>2 DEF Steps
    <2>2. CASE FindMatch(l)
        <3> PICK next : next = [l EXCEPT !.step = "save"]
            OBVIOUS
        <3>1. Continue(l, next) \/ Finish(l)
            BY <2>2 DEF FindMatch
        <3>2. IsListener(next) /\ next.step = "save" /\ next.rows = l.rows
              /\ next.price = l.price
            BY <1>2 DEF IsListener
        <3> QED BY <1>2, <3>1, <3>2 DEF Steps
    <2>3. CASE FindMatches(l)
        <3> PICK rows : rows = IF l.step = "close" THEN MatchesOf(l.room) ELSE Orphans(l.room)
            OBVIOUS
        <3> PICK next : next = [l EXCEPT !.step = "remove", !.rows = rows]
            OBVIOUS
        <3>1. Continue(l, next)
            BY <2>3 DEF FindMatches
        <3>2. IsListener(next) /\ next.step = "remove" /\ next.rows = rows
              /\ next.price = l.price
            BY <1>2 DEF IsListener
        <3>3. rows \subseteq MatchTypes \X Rooms
            BY DEF MatchesOf, Orphans
        <3> QED BY <1>2, <3>1, <3>2, <3>3 DEF Steps
    <2> QED BY <1>1, <2>1, <2>2, <2>3 DEF CreateMatch, RecommendMatch, SaveMatch,
            RemoveMatches
<1>4. \A k \in BagToSet(feedRunning') :
          k.step \in Steps /\ k.rows \subseteq MatchTypes \X Rooms /\ k.price \in Nat
    <2>1. FeedShape
        BY DEF FeedInv
    <2>2. CASE Finish(l)
        BY <2>1, <2>2, RunningAfter DEF FeedTypes, FeedTypeOK
    <2>3. ASSUME NEW next, Continue(l, next), IsListener(next), next.step \in Steps,
                 next.rows \subseteq MatchTypes \X Rooms, next.price \in Nat
          PROVE  \A k \in BagToSet(feedRunning') :
                    k.step \in Steps /\ k.rows \subseteq MatchTypes \X Rooms /\ k.price \in Nat
        <3>1. BagToSet(feedRunning') \subseteq BagToSet(feedRunning) \cup {next}
            BY <2>1, <2>3, RunningAfter
        <3> QED BY <2>3, <3>1 DEF FeedTypes, FeedTypeOK
    <2> QED BY <1>3, <2>2, <2>3
<1>5. matches' \in [MatchTypes -> [Rooms -> Match \cup {NoMatch}]]
    <2>1. matches \in [MatchTypes -> [Rooms -> Match \cup {NoMatch}]]
        BY DEF FeedTypes, FeedTypeOK
    <2>2. ASSUME NEW type \in MatchTypes, NEW price \in Nat, Put(type, r, price)
          PROVE  matches' \in [MatchTypes -> [Rooms -> Match \cup {NoMatch}]]
        <3>1. [room |-> r, price |-> price] \in Match
            BY DEF Match
        <3> QED BY <2>1, <2>2, <3>1 DEF Put
    <2>3. CASE CreateMatch(l) \/ SaveMatch(l)
        BY <1>2, <2>2, <2>3 DEF CreateMatch, SaveMatch
    <2>4. CASE RecommendMatch(l)
        BY <1>2, <2>1, <2>2, <2>4 DEF RecommendMatch
    <2>5. CASE ReadRoom(l) \/ FindMatch(l) \/ FindMatches(l)
        BY <2>1, <2>5 DEF ReadRoom, FindMatch, FindMatches
    <2>6. CASE RemoveMatches(l)
        BY <2>1, <2>6 DEF RemoveMatches
    <2> QED BY <1>1, <2>3, <2>4, <2>5, <2>6
<1>6. feedMixed' = feedMixed
    BY DEF FeedStep
<1> QED BY <1>4, <1>5, <1>6 DEF FeedTypes, FeedTypeOK

LEMMA FeedAlwaysTyped == EventsSpec => []FeedTypes
<1>1. EventsInit => FeedTypes
    <2>1. BagToSet(EmptyBag) = {}
        BY DEF EmptyBag, SetToBag, BagToSet
    <2> QED BY <2>1 DEF EventsInit, FeedInit, FeedTypes, FeedTypeOK
<1>2. TypeOK /\ FeedInv /\ FeedTypes /\ [EventsNext]_eventVars => FeedTypes'
    <2>1. ASSUME FeedTypes, UNCHANGED feedVars PROVE FeedTypes'
        BY <2>1 DEF feedVars, FeedTypes, FeedTypeOK
    <2>2. ASSUME FeedInv, FeedTypes, NEW events, Hear(events) PROVE FeedTypes'
        BY <2>1, <2>2, FeedTypesHear DEF Hear, Listen
    <2>3. ASSUME RoomCall PROVE \E events : Hear(events)
        BY <2>3 DEF RoomCall, MemberCall, OrderCall
    <2>4. ASSUME TypeOK, FeedInv, FeedTypes, ListenerStep PROVE FeedTypes'
        BY <2>1, <2>4, FeedTypesStep DEF ListenerStep
    <2> QED BY <2>1, <2>2, <2>3, <2>4 DEF EventsNext, eventVars
<1> QED BY <1>1, <1>2, FeedAlwaysSound, ServiceUnderEvents, PTL DEF EventsSpec

\* The tables of the listeners and the listeners that run are what they are taken for:
\* no listener holds a row of another kind, and every price is a natural number.
THEOREM EventsTypeCorrect == EventsSpec => []EventsTypeOK
<1>1. ChatInv => ChatTypeOK
    BY DEF ChatInv, ChatShape, IsTask, ChatTypeOK
<1>2. FeedTypes /\ ChatInv /\ GatewayInv /\ NewsInv => EventsTypeOK
    BY <1>1 DEF EventsTypeOK, FeedTypes, GatewayInv, SocketsInv, NewsInv
<1> QED BY <1>2, FeedAlwaysTyped, ChatAlwaysSound, GatewayAlwaysSound, NewsAlwaysSound, PTL
=============================================================================
