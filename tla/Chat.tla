-------------------------------- MODULE Chat ---------------------------------
(***************************************************************************)
(* The stays that ChatService keeps (src/src/chat/chat.service.ts): one    *)
(* UserChatMetadata row for each time a user enters a room, with the       *)
(* messages it starts and ends with.  The rows are written by listeners to *)
(* RoomService and by the calls that mark messages as read; the table has  *)
(* no key but its id, and TypeORM's save writes back the row it was given. *)
(* Of a row its id and whether chatEndId IS NULL are kept: nothing here    *)
(* depends on the ids of the messages.                                     *)
(***************************************************************************)
EXTENDS RoomEmits

CONSTANT MaxStays    \* bound on the rows there are, and are held, at one time

VARIABLES
    stays,          \* the rows of UserChatMetadata
    chatRunning,    \* the listeners and calls that have not settled
    chatMixed       \* <<room, user>> of which two of them ran at once, and no
                    \* leave or kick after that alone (history)

chatVars == <<stays, chatRunning, chatMixed>>

Stay == [id : 1..MaxStays, room : Rooms, user : Users, ended : BOOLEAN]

StaysOf(r, u) == {s \in stays : s.room = r /\ s.user = u}
OpenStays(r, u) == {s \in StaysOf(r, u) : ~s.ended}

\* stay: the row a call has read, in a set.
ChatTask(step, r, u) == [step |-> step, room |-> r, user |-> u, stay |-> {}]

ChatTypeOK ==
    /\ stays \subseteq Stay
    /\ \A s, t \in stays : s.id = t.id => s = t
    /\ \A t \in BagToSet(chatRunning) :
          /\ t.step \in {"enter", "leave", "kick", "chat", "read"}
          /\ t.stay \subseteq Stay
    /\ chatMixed \subseteq Rooms \X Users

ChatInit ==
    /\ stays = {}
    /\ chatRunning = EmptyBag
    /\ chatMixed = {}

-----------------------------------------------------------------------------
(* Listening                                                               *)

TasksOf(e) ==
    CASE e.type = "USER_ENTER" -> {ChatTask("enter", e.room, e.user)}
      [] e.type = "USER_LEAVE" -> {ChatTask("leave", e.room, e.user)}
      [] e.type = "USER_KICKED" -> {ChatTask("kick", e.room, e.user)}
      [] OTHER -> {}

Concerning(r, u) == {t \in About(chatRunning, r) : t.user = u}

\* Mutant: the number of rows decides, and rows are deleted.
NextStay == Cardinality(stays) + 1

\* Ids are not used again; one that nobody has or holds any more is as good as new.
FreeIds ==
    (1..MaxStays) \ {s.id : s \in stays \cup UNION {t.stay : t \in BagToSet(chatRunning)}}
FreshStay == CHOOSE i \in FreeIds : TRUE

\* A leave or a kick that is alone sets things right, whatever was there before.
MixedAfter(starting) ==
    LET busy == {<<t.room, t.user>> : t \in BagToSet(chatRunning)}
        ends == {<<t.room, t.user>> : t \in {s \in starting : s.step \in {"leave", "kick"}}}
        heard == {<<t.room, t.user>> : t \in starting}
    IN  (chatMixed \ ends) \cup (heard \cap busy)

\* The rows of a room that is removed go with it (ON DELETE CASCADE).
ChatHear(events) ==
    LET starting == UNION {TasksOf(e) : e \in events}
    IN  /\ BagCardinality(chatRunning) + Cardinality(starting) <= MaxRunning
        /\ Cardinality(stays) + BagCardinality(chatRunning) + Cardinality(starting)
                <= MaxStays
        /\ chatRunning' = Starting(chatRunning, starting)
        /\ chatMixed' = MixedAfter(starting)
        /\ stays' = {s \in stays : Exists(rooms'[s.room])}

\* A call of a user, beside the listeners.
StartCall(t) ==
    /\ BagCardinality(chatRunning) < MaxRunning
    /\ chatRunning' = Starting(chatRunning, {t})
    /\ chatMixed' = MixedAfter({t})
    /\ UNCHANGED stays

FinishTask(t) ==
    /\ chatRunning' = Settled(chatRunning, t)
    /\ UNCHANGED chatMixed

-----------------------------------------------------------------------------
(* The listeners: the message and the user are awaited, then the row is     *)
(* written.  The message of a room that is gone cannot be saved: the        *)
(* foreign key fails, and the listener with it.                             *)

EnterStay(t) ==
    /\ t.step = "enter"
    /\ FreeIds # {}          \* the bound MaxStays
    /\ IF Exists(rooms[t.room])
       THEN stays' = stays \cup {[id |-> FreshStay, room |-> t.room,
                                  user |-> t.user, ended |-> FALSE]}
       ELSE UNCHANGED stays
    /\ FinishTask(t)

\* Mutant: deletes the stays that have ended only.
DeleteEndedStays(t) ==
    /\ t.step = "leave"
    /\ stays' = stays \ (StaysOf(t.room, t.user) \ OpenStays(t.room, t.user))
    /\ FinishTask(t)

DeleteStays(t) ==
    /\ t.step = "leave"
    /\ stays' = stays \ StaysOf(t.room, t.user)
    /\ FinishTask(t)

\* update sets chatEndId in all rows of the user in the room.
EndStays(t) ==
    /\ t.step = "kick"
    /\ stays' = (stays \ StaysOf(t.room, t.user))
                    \cup {[s EXCEPT !.ended = TRUE] : s \in StaysOf(t.room, t.user)}
    /\ FinishTask(t)

-----------------------------------------------------------------------------
(* Chatting and reading                                                    *)

\* onChatEvent: the role decides, not the state of the participant.
Chat(u, r) ==
    /\ rooms[r].role[u] \in ParticipantRoles
    /\ StartCall(ChatTask("chat", r, u))

\* updateReadMessageId, also at the end of onChatEvent: findOne ...
Read(u, r) ==
    \E s \in StaysOf(r, u) :
        StartCall([ChatTask("read", r, u) EXCEPT !.stay = {s}])

FindStay(t) ==
    /\ t.step = "chat"
    /\ \/ /\ StaysOf(t.room, t.user) = {}
          /\ FinishTask(t)
       \/ \E s \in StaysOf(t.room, t.user) :
             /\ chatRunning' = Starting(Settled(chatRunning, t),
                                        {[t EXCEPT !.step = "read", !.stay = {s}]})
             /\ UNCHANGED chatMixed
    /\ UNCHANGED stays

\* ... and save, which writes the row as it was read, or inserts it again.
SaveStay(t) ==
    /\ t.step = "read"
    /\ stays' = IF Exists(rooms[t.room])
                THEN {s \in stays : \A c \in t.stay : c.id # s.id} \cup t.stay
                ELSE stays
    /\ FinishTask(t)

ChatStep ==
    \/ \E t \in BagToSet(chatRunning) :
          \/ EnterStay(t)
          \/ DeleteStays(t)
          \/ EndStays(t)
          \/ FindStay(t)
          \/ SaveStay(t)
    \/ \E r \in Rooms, u \in Users : Chat(u, r) \/ Read(u, r)

-----------------------------------------------------------------------------
(* Properties                                                              *)

\* When its listeners have settled, a user has an open stay in a room exactly while
\* he is in it, and one only: the read marks of a room are those of the people in
\* it (chat.service.ts:353-362).  Two listeners or calls about him that run at once
\* may leave it wrong, until a leave or a kick that is handled alone.
StaysFollowParticipants ==
    topic = "chat" => \A r \in Rooms, u \in Users :
        Concerning(r, u) = {} /\ <<r, u>> \notin chatMixed =>
            Cardinality(OpenStays(r, u)) =
                (IF u \in CurrentParticipants(rooms[r]) THEN 1 ELSE 0)
=============================================================================
