----------------------------- MODULE RoomEvents ------------------------------
(***************************************************************************)
(* RoomService with its listeners: the match feed, the chat, the socket    *)
(* gateway and the notifications.  They read the rooms, write tables of    *)
(* their own, and none of them reads what another one writes: a behaviour  *)
(* follows one of them, the one it is about, beside all calls of           *)
(* RoomService.                                                            *)
(***************************************************************************)
EXTENDS MatchFeed, Chat, ChatGateway, Notifications

eventVars == <<vars, created, feedVars, chatVars, gatewayVars, newsVars, topic>>

Topics == {"feed", "chat", "gateway", "news"}

EventsInit ==
    /\ Init
    /\ created = {}
    /\ FeedInit
    /\ ChatInit
    /\ GatewayInit
    /\ NewsInit
    /\ topic \in Topics

Listen(name, about, listenerVars) == IF topic = name THEN about ELSE UNCHANGED listenerVars

Hear(events) ==
    /\ Listen("feed", FeedHear(events), feedVars)
    /\ Listen("chat", ChatHear(events), chatVars)
    /\ Listen("gateway", GatewayHear(events), gatewayVars)
    /\ Listen("news", NewsHear(events), newsVars)
    /\ UNCHANGED topic

\* One committed call, and the events it emits.
MemberCall(u, r) ==
    \/ /\ r \notin created
       /\ CreateRoom(u, r)
       /\ Hear({Event("CREATE", r, u), Event("USER_ENTER", r, u)})
    \/ JoinRoom(u, r) /\ Hear({Event("USER_ENTER", r, u)})
    \/ LeaveRoom(u, r) /\ Hear(LeaveEvents(u, r))
    \/ \E target \in Users :
          /\ KickByPurchaser(u, target, r)
          /\ Hear({Event("USER_KICKED", r, target)})
    \/ \E ready \in BOOLEAN : ToggleReady(u, r, ready) /\ Hear({})
    \/ AddMenuTo(u, r) /\ Hear(AddMenuEvents(u, r))
    \/ UpdateMenuOf(u, r) /\ Hear({Event("MENU_UPDATE", r, u)})
    \/ DeleteMenuOf(u, r) /\ Hear({Event("MENU_UPDATE", r, u)})

OrderCall(u, r) ==
    \/ FixOrderOf(u, r) /\ Hear({Event("ORDER_FIXED", r, u)})
    \/ UploadOrderImages(u, r) /\ Hear({})
    \/ \E amount \in Tips :
          CheckOrderOf(u, r, amount) /\ Hear({Event("ORDER_CHECKED", r, u)})
    \/ DoneOrderOf(u, r) /\ Hear({Event("ORDER_DONE", r, u)})

RoomCall ==
    /\ \E r \in Rooms, u \in Users : MemberCall(u, r) \/ OrderCall(u, r)
    /\ created' = created \cup {r \in Rooms : Exists(rooms'[r])}

ListenerStep ==
    /\ \/ /\ topic = "feed" /\ FeedStep
          /\ UNCHANGED <<chatVars, gatewayVars, newsVars>>
       \/ /\ topic = "chat" /\ ChatStep
          /\ UNCHANGED <<feedVars, gatewayVars, newsVars>>
       \/ /\ topic = "gateway" /\ GatewayStep
          /\ UNCHANGED <<feedVars, chatVars, newsVars>>
       \/ /\ topic = "news" /\ NewsStep
          /\ UNCHANGED <<feedVars, chatVars, gatewayVars>>
    /\ UNCHANGED <<vars, created, topic>>

EventsNext == RoomCall \/ ListenerStep

EventsSpec == EventsInit /\ [][EventsNext]_eventVars

-----------------------------------------------------------------------------
EventsTypeOK == FeedTypeOK /\ ChatTypeOK /\ GatewayTypeOK /\ NewsTypeOK
=============================================================================
