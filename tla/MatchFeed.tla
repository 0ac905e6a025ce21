------------------------------ MODULE MatchFeed ------------------------------
(***************************************************************************)
(* The match rows (src/src/match/match.service.ts and, for the matches     *)
(* made for subscribers, recommend.service.ts) as the listeners to what    *)
(* RoomService emits keep them.  A listener reads and writes in queries of *)
(* its own; the feed a user asks for is the HomeFeed rows with a room.     *)
(***************************************************************************)
EXTENDS RoomEmits, FiniteSetsExt

CONSTANT Subscribers    \* who subscribes to the category of the rooms

VARIABLES
    matches,        \* matches[type][r]: the match made for r
    feedRunning,    \* the listeners that have not settled
    feedMixed       \* rooms two events of which were handled at once, and
                    \* nothing after that that sets it right (history)

feedVars == <<matches, feedRunning, feedMixed>>

MatchTypes == {"HomeFeed", "CategorySubscription"}

NoMatch == [room |-> None, price |-> -1]
Match == [room : Rooms \cup {None}, price : Nat]    \* room None: IS NULL

\* Every menu costs 1.
TotalPrice(rm) ==
    MapThenSumSet(LAMBDA u : rm.menus[u], CurrentParticipants(rm))

Steps == {"create", "recommend",        \* until the insert
          "room", "find", "save",       \* handleUpdateEvent
          "close", "orphans",           \* until the rows to remove are found
          "remove"}

\* rows: the matches that were found; price: the total price that was read.
Listener(step, r) == [step |-> step, room |-> r, rows |-> {}, price |-> 0]

FeedTypeOK ==
    /\ matches \in [MatchTypes -> [Rooms -> Match \cup {NoMatch}]]
    /\ \A l \in BagToSet(feedRunning) :
          l.step \in Steps /\ l.rows \subseteq MatchTypes \X Rooms
    /\ feedMixed \subseteq Rooms

FeedInit ==
    /\ matches = [type \in MatchTypes |-> [r \in Rooms |-> NoMatch]]
    /\ feedRunning = EmptyBag
    /\ feedMixed = {}

-----------------------------------------------------------------------------
(* Listening                                                               *)

\* Mutant: nobody listens to USER_KICKED.
ListenersButKicks(e) ==
    CASE e.type = "CREATE" -> {Listener("create", e.room), Listener("recommend", e.room)}
      [] e.type \in {"USER_ENTER", "USER_LEAVE", "MENU_UPDATE"} -> {Listener("room", e.room)}
      [] e.type = "ORDER_FIXED" -> {Listener("close", e.room)}
      [] e.type = "DELETED" -> {Listener("orphans", e.room)}
      [] OTHER -> {}

ListenersOf(e) ==
    CASE e.type = "CREATE" -> {Listener("create", e.room), Listener("recommend", e.room)}
      [] e.type \in {"USER_ENTER", "USER_LEAVE", "USER_KICKED", "MENU_UPDATE"} ->
            {Listener("room", e.room)}
      [] e.type = "ORDER_FIXED" -> {Listener("close", e.room)}
      [] e.type = "DELETED" -> {Listener("orphans", e.room)}
      [] OTHER -> {}

\* ON DELETE SET NULL.
Detached(row) ==
    IF row.room # None /\ ~Exists(rooms'[row.room]) THEN [row EXCEPT !.room = None] ELSE row

\* An event that is handled alone takes a match that should not be there away, and
\* corrects the price of one that should.
SetsRight(l) ==
    \/ l.step \in {"close", "orphans"}
    \/ /\ l.step = "room"
       /\ rooms[l.room].phase \in Open
       /\ matches["HomeFeed"][l.room] # NoMatch

FeedHear(events) ==
    LET starting == UNION {ListenersOf(e) : e \in events}
        heard == {l.room : l \in starting}
        busy == {r \in Rooms : About(feedRunning, r) # {}}
    IN  /\ BagCardinality(feedRunning) + Cardinality(starting) <= MaxRunning
        /\ feedRunning' = Starting(feedRunning, starting)
        /\ feedMixed' = (feedMixed \ {l.room : l \in {x \in starting : SetsRight(x)}})
                            \cup (heard \cap busy)
        /\ matches' = [type \in MatchTypes |->
                         [r \in Rooms |-> Detached(matches[type][r])]]

-----------------------------------------------------------------------------
(* The listeners                                                           *)

Continue(l, next) == feedRunning' = Starting(Settled(feedRunning, l), {next})
Finish(l) == feedRunning' = Settled(feedRunning, l)

\* save: an insert when the id is not there (any more); the foreign key makes it
\* fail when the room is gone.
Put(type, r, price) ==
    matches' = IF Exists(rooms[r])
               THEN [matches EXCEPT ![type][r] = [room |-> r, price |-> price]]
               ELSE matches

\* handleCreateEvent; the event carries the room as it was created.
CreateMatch(l) ==
    /\ l.step = "create"
    /\ Put("HomeFeed", l.room, 0)
    /\ Finish(l)

RecommendMatch(l) ==
    /\ l.step = "recommend"
    /\ IF Subscribers # {} THEN Put("CategorySubscription", l.room, 0) ELSE UNCHANGED matches
    /\ Finish(l)

\* handleUpdateEvent: the room, the match, the write.
ReadRoom(l) ==
    /\ l.step = "room"
    /\ Continue(l, [l EXCEPT !.step = "find", !.price = TotalPrice(rooms[l.room])])
    /\ UNCHANGED matches

FindMatch(l) ==
    /\ l.step = "find"
    /\ IF matches["HomeFeed"][l.room].room = l.room
       THEN Continue(l, [l EXCEPT !.step = "save"])
       ELSE Finish(l)
    /\ UNCHANGED matches

SaveMatch(l) ==
    /\ l.step = "save"
    /\ Put("HomeFeed", l.room, l.price)
    /\ Finish(l)

\* Mutant: asks for the matches of the room that is gone.
OrphansOf(r) == {m \in MatchTypes \X Rooms : matches[m[1]][m[2]].room = r}

\* The listener for DELETED: the matches whose room IS NULL, whichever it was.
Orphans(r) == {m \in MatchTypes \X Rooms :
                 matches[m[1]][m[2]] # NoMatch /\ matches[m[1]][m[2]].room = None}

\* handleDeleteEvent, for ORDER_FIXED: all matches of the room.
MatchesOf(r) == {m \in MatchTypes \X Rooms : matches[m[1]][m[2]].room = r}

FindMatches(l) ==
    /\ l.step \in {"close", "orphans"}
    /\ LET found == IF l.step = "close" THEN MatchesOf(l.room) ELSE Orphans(l.room)
       IN  Continue(l, [l EXCEPT !.step = "remove", !.rows = found])
    /\ UNCHANGED matches

RemoveMatches(l) ==
    /\ l.step = "remove"
    /\ matches' = [type \in MatchTypes |-> [r \in Rooms |->
                     IF <<type, r>> \in l.rows THEN NoMatch ELSE matches[type][r]]]
    /\ Finish(l)

FeedStep ==
    /\ \E l \in BagToSet(feedRunning) :
          \/ CreateMatch(l)
          \/ RecommendMatch(l)
          \/ ReadRoom(l)
          \/ FindMatch(l)
          \/ SaveMatch(l)
          \/ FindMatches(l)
          \/ RemoveMatches(l)
    /\ UNCHANGED feedMixed

-----------------------------------------------------------------------------
(* Properties                                                              *)

FeedQuiet(r) == About(feedRunning, r) = {}

\* When the listeners have settled, a room that is gone has left no match behind,
\* in whatever order they ran: by the time DELETED is heard the matches have lost
\* their room and are found by that alone (room.service.ts:242).
RemovedRoomLeavesFeed ==
    \A r \in Rooms, type \in MatchTypes :
        FeedQuiet(r) /\ ~Exists(rooms[r]) => matches[type][r] = NoMatch

\* When the listeners have settled, the feed shows a room exactly while it can be
\* joined, with the price of what is ordered so far; unless listeners to two calls
\* have run at once, and then until one to a call that sets it right runs alone.
FeedShowsOpenRooms ==
    topic = "feed" => \A r \in Rooms \ feedMixed : FeedQuiet(r) =>
        IF rooms[r].phase \in Open
        THEN matches["HomeFeed"][r] = [room |-> r, price |-> TotalPrice(rooms[r])]
        ELSE matches["HomeFeed"][r] = NoMatch
=============================================================================
