----------------------------- MODULE ChatGateway -----------------------------
(***************************************************************************)
(* The sockets of the /room namespace (src/src/chat/chat.gateway.ts) and   *)
(* the socket rooms they are in, which decide who hears a room.  A socket  *)
(* is put into rooms in two ways: for the rooms its user takes part in     *)
(* when it connects, and by the listener for USER_ENTER, which looks the   *)
(* sockets of the user up.  The socket server keeps its rooms in memory,   *)
(* so a listener is through before the next call commits.                  *)
(***************************************************************************)
EXTENDS RoomEmits

CONSTANTS
    Sockets,    \* socket ids, each used once: bounds the connections
    OwnerOf     \* OwnerOf[s] is the user whose token s is opened with

ASSUME OwnersAreUsers == OwnerOf \in [Sockets -> Users]

VARIABLES
    socket,     \* how far each socket is
    lookup,     \* _userIdToSocketId: the sockets ever accepted
    joined,     \* joined[s]: the socket rooms s is in
    found,      \* found[s]: the participations handleConnection has read for s
    outdated    \* <<socket, room>>: the user was kicked after that (history)

gatewayVars == <<socket, lookup, joined, found, outdated>>

Connected == {"reading", "joining", "on"}

GatewayTypeOK ==
    /\ socket \in [Sockets -> {"off", "accepted", "gone"} \cup Connected]
    /\ lookup \subseteq Sockets
    /\ joined \in [Sockets -> SUBSET Rooms]
    /\ found \in [Sockets -> SUBSET Rooms]
    /\ outdated \subseteq Sockets \X Rooms

GatewayInit ==
    /\ socket = [s \in Sockets |-> "off"]
    /\ lookup = {}
    /\ joined = [s \in Sockets |-> {}]
    /\ found = [s \in Sockets |-> {}]
    /\ outdated = {}

-----------------------------------------------------------------------------
(* Listening; there is no listener for USER_LEAVE.                          *)

\* fetchSockets finds those of the sockets looked up that are connected.
SocketsOf(u) == {s \in lookup : OwnerOf[s] = u /\ socket[s] \in Connected}

EnteredBy(s, events) ==
    {e.room : e \in {x \in events : x.type = "USER_ENTER" /\ s \in SocketsOf(x.user)}}

\* socketRoomLeave
KickedFrom(s, events) ==
    {e.room : e \in {x \in events : x.type = "USER_KICKED" /\ s \in SocketsOf(x.user)}}

GatewayHear(events) ==
    /\ joined' = [s \in Sockets |->
                    (joined[s] \cup EnteredBy(s, events)) \ KickedFrom(s, events)]
    /\ outdated' = outdated \cup
                    {m \in Sockets \X Rooms :
                        /\ socket[m[1]] = "joining"
                        /\ m[2] \in KickedFrom(m[1], events)}
    /\ UNCHANGED <<socket, lookup, found>>

-----------------------------------------------------------------------------
(* Connecting                                                               *)

Goes(s, from, to) == socket[s] = from /\ socket' = [socket EXCEPT ![s] = to]

\* Mutant: the socket is not added to the lookup.
AcceptUnseen(s) ==
    /\ Goes(s, "off", "accepted")
    /\ UNCHANGED <<lookup, joined, found, outdated>>

\* addToLookup, in the middleware, once the token is valid.
Accept(s) ==
    /\ Goes(s, "off", "accepted")
    /\ lookup' = lookup \cup {s}
    /\ UNCHANGED <<joined, found, outdated>>

\* handleConnection: the query is on its way, ...
Connect(s) ==
    /\ Goes(s, "accepted", "reading")
    /\ UNCHANGED <<lookup, joined, found, outdated>>

\* Mutant: the rooms a user was banned from as well.
ParticipationsOfAnyRole(u) == {r \in Rooms : HasRow(rooms[r], u)}

\* ... it is answered, ...
Participations(u) == {r \in Rooms : rooms[r].role[u] \in ParticipantRoles}

ReadParticipations(s) ==
    /\ Goes(s, "reading", "joining")
    /\ found' = [found EXCEPT ![s] = Participations(OwnerOf[s])]
    /\ UNCHANGED <<lookup, joined, outdated>>

\* ... and the rooms are joined, those he has left meanwhile included.
JoinParticipated(s) ==
    /\ Goes(s, "joining", "on")
    /\ joined' = [joined EXCEPT ![s] = @ \cup found[s]]
    /\ found' = [found EXCEPT ![s] = {}]
    /\ UNCHANGED <<lookup, outdated>>

\* removeFromLookup takes the socket from a list that is only there when the user
\* has none: the lookup stays as it is.
Disconnect(s) ==
    /\ socket[s] \in Connected
    /\ socket' = [socket EXCEPT ![s] = "gone"]
    /\ joined' = [joined EXCEPT ![s] = {}]
    /\ found' = [found EXCEPT ![s] = {}]
    /\ UNCHANGED <<lookup, outdated>>

GatewayStep ==
    \E s \in Sockets :
        \/ Accept(s)
        \/ Connect(s)
        \/ ReadParticipations(s)
        \/ JoinParticipated(s)
        \/ Disconnect(s)

-----------------------------------------------------------------------------
(* Properties                                                              *)

\* A socket that is through with connecting hears every room its user takes part
\* in, however its connecting and his joining overlapped: it is looked up before
\* his participations are read (chat.gateway.ts:128, :162).
ParticipantsHear ==
    \A s \in Sockets, r \in Rooms :
        /\ socket[s] = "on"
        /\ OwnerOf[s] \in CurrentParticipants(rooms[r])
        => r \in joined[s]

\* No socket of a user who was kicked hears the room, unless he was kicked between
\* the reading of his participations and the joining of the socket rooms.
BannedDoNotHear ==
    \A s \in Sockets, r \in Rooms :
        rooms[r].role[OwnerOf[s]] = "banned" /\ r \in joined[s] => <<s, r>> \in outdated
=============================================================================
