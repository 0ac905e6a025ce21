# baemin-mate in TLA+

baemin-mate is the server of a group-delivery app: students of one university
open a *room* for a restaurant, others join it, add menus and get ready, the
purchaser fixes the order, shares the tip and finishes it. It is a NestJS program
over TypeORM and MySQL. This directory holds TLA+ models of its core, the TLC
configurations that check them, and TLAPS proofs about them. Source paths below
are relative to `src/src/`.

## Inventory

| component | state it keeps | operations | talks to | what makes it correct |
|---|---|---|---|---|
| room aggregate (`room/entity/`) | phase, participants with role/state/isReady/menus/tip, blacklist, screenshots, account | methods of `RoomEntity` | called by the room service on a copy loaded from the database | phase and readiness agree; banned users stay out; the purchaser stays while others are in; shares of the tip add up |
| room service (`room/room.service.ts`) | the database; calls started and not awaited | join, leave, kick, ready, menus, fix, check, done, votes | emits events to chat, gateway, match, notifications | the order of the calls does not matter for the above; overlapping transactions do not undo each other |
| votes (`room/entity/Vote/`, `room-vote.entity.ts`) | opinions, finished, result | createKickVote, createResetVote, doVote | starts `kick` and `resetRoom` | one vote at a time; what passed happens, what did not pass does not |
| role guards (`room/guards`, `room/decorators`) | none | `canActivate` before every room route | reads participant rows before the service's transaction | checked facts may be stale in the transaction |
| chat (`chat/chat.service.ts`) | messages, read positions | handlers of room events, send, read | room service events | one open metadata row per participant |
| chat gateway (`chat/chat.gateway.ts`) | socket lookup tables, socket rooms | connect, disconnect, handlers | throws inside the room service's `emit` | who is in a room hears it, who was put out does not |
| match feed (`match/match.service.ts`, gateway) | one match row per open room | handlers of CREATE, USER_ENTER, ..., ORDER_FIXED, DELETED | room service events | the feed shows exactly the rooms that can be joined |
| subscriptions (`match/recommend.service.ts`) | category subscriptions with expiry | subscribe, delete, on CREATE | notifications | no duplicates, expiry respected |
| signup (`auth/signup/`) | e-mail sessions: state, trials, expiry | create session, verify code, submit | mail, users | one user per address; no passing after the last trial |
| tokens, OAuth (`auth/`) | refresh tokens are stateless JWTs | login, refresh, guard | users, providers | deleted users get no token |
| users (`user/`) | users, soft deletion | create, delete | event to room service | deletion and participation agree |
| notifications (`notification/`) | notifications, device tokens | handlers, add/enable token | room service events, FCM | a device belongs to one user |
| universities, reports, infra, common | seed data or nothing | lookups, I/O, logging | | |

The hard behaviours are: overlapping transactions at two isolation levels
(SERIALIZABLE for `joinRoom` and `fixOrder`, the default for everything else);
calls that are started and never awaited; synchronous `emit` after a commit;
asynchronous event handlers that read again what may have changed; rows that are
kept (left, banned) and found again. There is one process, no retry, and no
recovery: what was started and not committed is lost in a crash.

## Modules

| module | models | composed of |
|---|---|---|
| `RoomEntity` | the methods of the aggregate as pure operators: `XAllowed` when method x does not throw, `X` the record it leaves | |
| `RoomService` | all operations on rooms, participants, orders and votes; one action per call, each committed at once; calls started by `doVote` as `tasks` | extends `RoomEntity` |
| `RoomTransactions` | the calls on one room as transactions that overlap: guard, read, commit of the changed columns, locks | extends `RoomEntity` |
| `RoomEntityProofs` | what each method does to the invariant of a room, as lemmas | extends `RoomEntity` |
| `RoomServiceProofs` | theorems about `RoomService!Spec` | extends `RoomService`, `RoomEntityProofs` |
| `RoomLife` | what a room promises those who are in it: gathering, under way, closed; who may come, go and be put out | `RoomService` holds the refinement mapping (`Life`) |
| `UserDeletion` | `deleteUser` query by query, and the listener that erases bank accounts, beside all calls of the room service | extends `RoomService` |
| `VoteTransactions` | `createKickVote`, `createResetVote` and `doVote` as transactions that overlap, with saves and started calls that fail and crashes, beside the calls on the order and leaving | extends `RoomService` |
| `Accounts` | sign-up sessions, OAuth rows, login, tokens and `deleteUser` | |
| `RoomEmits` | the events of `RoomService`, `updateMenu`, and what the listeners share | extends `RoomService` |
| `MatchFeed`, `Chat`, `ChatGateway`, `Notifications` | the listeners to these events, each with its own tables and its own calls | extend `RoomEmits` |
| `RoomEvents` | every call of the room service with the events it emits and its listeners | extends these four |
| `RoomLifeProofs` | the refinement of `RoomLife`, the theorems about an order under way, the shares of the tip | extends `RoomServiceProofs` |
| `VoteTransactionsProofs` | theorems about `VoteTransactions` | extends `VoteTransactions`, `RoomServiceProofs` |
| `RoomTransactionsProofs` | theorems about `RoomTransactions` | extends `RoomTransactions`, `RoomEntityProofs` |
| `UserDeletionProofs` | theorems about `UserDeletion` | extends `UserDeletion`, `RoomLifeProofs` |
| `RoomEventsProofs` | theorems about `RoomEvents` | extends `RoomEvents`, `RoomLifeProofs` |
| `AccountsProofs` | theorems about `Accounts` | extends `Accounts` |
| `MC...` | instances for TLC | |

All of them use the same `RoomEntity`, as both the tests and the service of the
program use the same class: what differs is what may happen between reading a
room and saving it.

### How state corresponds

* A room is one record: the row of `room` with its participants (functions of the
  user; role `"none"` where there is no row), the blacklist as a set of users, the
  number of menus of each participant, `screenShots` (is there an uploaded image),
  `account` (is there an account row). Prices, names, categories and addresses are
  left out: no guard depends on them.
* `NoRoom` stands for an id without a room. Removing a room cascades to its
  participants and votes. An id is reused when no started call holds it; in the
  program every room has a new uuid.
* A vote is its row with its opinions. A finished vote whose call has run is never
  looked at again, so its id is reused: `Votes` bounds the votes that matter at the
  same time, not the votes of a room's life.
* `tasks` holds the `kick` and `resetRoom` calls `doVote` started. They are a set:
  the same call started twice has the effect of one, since `kickUser` and `cancel`
  leave the same record the second time.
* `announced[r]` is a history variable: the last of ALL_READY and
  ALL_READY_CANCELED emitted for the room.
* `tip[u] = NoTip` is the NULL column; 0 is a share. `CheckOrderDto` asks for a number
  only, so a tip may be negative: `Tips` is any set of integers. Fractions are left out;
  the INT column would round what `checkOrder` was given.

### How actions correspond

One action of `RoomService` is the whole call: the role guard of the route, the
conditions of the entity method, its changes with the trailing
`updateAllReadyState`, the save and the events. When a condition is false the call
throws and its transaction is rolled back, which is no step. Where the code departs
from the pattern, so does the action:

* `addMenu` saves the menu on another connection than its transaction, before the
  phase is checked, so `AddMenuTo` has no guard on the phase. The guard of the menu
  routes is about the caller and the row is that of the `:uid` of the URL.
* `leave` lets BANNED rows through: `leaveRoom` saves them as LEFT and emits nothing.
* `joinRoom` finds a LEFT row and reuses it, with its `isReady` and its menus.
* `setReady` does not look at the state of the row: a member who has left can get
  ready.
* `doVote` does not await `kick` and `resetRoom`, and `cancel` does not look at the
  phase. A started call may fail at any time (`FailTask`), and is not started again.
* The vote routes check the role in the room of the URL, `doVote` takes the room of
  the vote.
* `create` refuses a user with any row in a room that is not closed, whatever its
  role; `validateJoin` looks at PURCHASER and MEMBER rows.
* The gateway's listeners of USER_ENTER and of the kicks throw for users without
  sockets; `emit` is synchronous, so what follows it in the call is skipped
  (`SaveAfterEmitting`).

In `RoomTransactions` a call is four steps: `Authorize` (the guard's own read),
`Begin` (the read and the entity method), `Commit` (the save) and `Rollback`, which
may happen at any moment. TypeORM compares the copy with what it loads and writes the
columns that changed: `SaveDiff`. A SERIALIZABLE transaction share-locks what it reads until it ends, so
others wait with their writes; a default transaction reads a snapshot and writes
without looking. Two SERIALIZABLE transactions that both hold locks and want to
write deadlock and one becomes the victim (`Rollback`). TypeORM and InnoDB are not
part of the repository; the three operators about them are marked external.

`VoteTransactions` splits the vote calls in the same way: `BeginCreate` and `BeginVote`
are the read with the method on the copy, and for `doVote` the call that is started
at once; `CommitCreate` and `CommitVote` the save of the columns that changed;
`Abort` a query or commit that fails, after which a started call still runs.
`SettleTask` is a started `kick` or `resetRoom` that does its work, or throws on the room
it reads; `LoseTask` one whose query, lock or commit the database fails. Both methods
roll back and throw again, `doVote` awaits neither, so nothing starts the call again.
`Crash` empties `tasks` and the open transactions. The history variable `lost` holds
the calls that ended in one of these two ways when they were last started. The module starts where
votes matter, in any room whose order has just been fixed, and members who left before are
among the rows; once the order is done or canceled they leave (`LeaveStep`), and the last
one removes the room with its votes while ballots may be open.

`UserDeletion` gives `deleteUser` one action per query, since it has no transaction:
`LoadUser` (with the check of `UserEntity.delete`), `DeleteOauth`, `SaveDeleted`, and
`FailDelete` for a query that fails; then `FindAccount` and `SaveAccount` for each room
the listener goes over. `RoomCall` is any call of the room service in between, the
deleted user's own included: his token stays valid, and `joinRoom` and `createRoom` load
their user without asking whether he is deleted. `Accounts` has the same four steps
against sign-up and login, where `SaveOauth` is TypeORM's insert or update of the row
that was read, and `OauthTaken` the primary key.

### Events

`RoomEvents` pairs each call with the set of events it emits right after its commit. No
`await` lies between the commit's answer and `emit`, so emitting belongs to the action
(a call that commits in the database before the answer is back would be heard in the
other order; that is left out). A listener runs up to its first `await` inside
`emit`, and the rest of it is a record in a bag of running listeners (`feedRunning`,
`chatRunning`, `newsRunning`), stepped one query at a time while further calls commit.
The gateway's listeners await `fetchSockets` only, which the in-memory socket server
answers without leaving the process, so they are part of the call.

* Listeners do not read each other's tables. A behaviour of `RoomEvents` therefore
  follows one of them, chosen at the start (`topic`), beside all calls of the room
  service. `RemovedRoomLeavesFeed` and the two properties of the gateway hold of the
  others trivially.
* A match is `[room, price]`, with `room = None` for the NULL that ON DELETE SET NULL
  leaves; the id of a match is the pair of its type and the room it was made for. Every
  menu costs 1.
* A stay is a `UserChatMetadata` row: its id, room and user, and whether `chatEndId` is
  set. The id is its only key, so the `save` of a copy that was read before inserts a
  deleted row again, and opens one that was ended.
* A socket is `off`, `accepted` (in the middleware), `reading` and `joining` (in
  `handleConnection`), `on`, `gone`. `lookup` only grows: `removeFromLookup` tests `has`
  the wrong way round.
* `feedMixed`, `chatMixed`, `outdated`, and in other modules `raced`, `crowded` and
  `entered`, are history variables. They mark the rooms, users, votes and sessions for
  which two concurrent requests or listeners really did overlap: there the code
  promises less, and the properties say so.
* Room ids are given once (`created`), as uuids are. There are no votes in `RoomEvents`
  (`EverybodyConnected`), and so no kick by vote, whose listeners do what those of a
  kick do.

## What is checked

| run | instance | distinct states | shows |
|---|---|---|---|
| `room_lifecycle` | 3 users, 1 room, 2 votes, tip 5, 1 menu each, symmetry | 336,275 | the invariants and the two order properties below; `RoomService` implements `RoomLife` |
| `room_pair` | 2 users, 2 rooms, no votes, deletion of both users; deadlock checked | 151,309 | `PurchaserHasOneRoom` and what deletion leaves behind |
| `votes_take_effect` | 3 users, 1 room with a fixed order, 2 votes, 2 overlapping requests, 5 requests, lost calls and crashes, fairness, no symmetry | 693,797 | the vote properties below |
| `room_transactions` | 3 users, 2 overlapping calls, any gathering room to start from; deadlock checked | 370,624 | the transaction properties below |
| `accounts` | 2 sessions for 1 address, 2 OAuth identifiers, 2 users, 2 overlapping requests, 2 trials, symmetry | 1,059,223 | the account properties below |
| `room_events` | 2 users, 1 room, 3 sockets, 1 subscriber, 3 running listeners, 3 stays | 412,912 | the listener properties below |
| `fix_lost` | as `room_transactions` | violated | a fixed order is taken back |
| `two_rooms_in_progress` | 3 users, 2 rooms | violated | one user in two orders under way |
| `reset_after_done` | 2 users | violated | a finished order is canceled |
| `offline_joiner` | 3 users, one without a socket | violated | nobody is told that the room is not all ready any more |
| `absent_voters` | 3 users | violated | a vote asks users who have left |
| `duplicate_addresses` | 2 sessions for 1 address, 1 request at a time | violated | two users with one address |

Of `room_lifecycle`:

* `PhaseTellsReadiness`, `FixedOrderIsReady`: join, rejoin, leave, kick and ready all
  move the phase, and no order gets past ALL_READY with somebody who is not ready.
* `BlacklistedStaysOut`: a kick, a leave of the banned row and a rejoin in any order.
* `AnnouncedIsPhase`: the events tell the phase, when everybody has a socket.
* `OpenRoomHasPurchaser`, `OneOpenVote`, `TipIsShared` (the floor of the division
  loses less than one unit for each holder, also after a holder was kicked).
* `OrderLosesMembersByVoteOnly`, `OrderEndsDoneOrByReset`: while the order is under
  way, only a unanimous vote takes a participant out or cancels it, although the
  calls a vote starts run at any later time.

* `ImplementsRoomLife`: with the phases mapped to gathering, under way and closed, the
  participants to `members` and the blacklist to `barred`, every step is a step of
  `RoomLife` or none. In particular people come and go while a room gathers only, and
  are put out of an order under way by a vote only.

Of `room_pair`:

* `DeletedLeaveOpenRoomsAlone`: the rooms `deleteUser` found closed do not open again, so
  a user who enters none afterwards is gone from all rooms that are not closed,
  wherever the deletion stops.
* `DeletedAccountsAreErased`: when the listener is done, each room he is the purchaser of
  has lost his name and number, unless a room was removed under the listener
  (`failed`). `Purchases` leaves out the rooms he was banned from as a purchaser: the
  listener does, and there the account stays.

Of `votes_take_effect`:

* `StartedCallsHaveEveryVoice`: no kick and no reset is under way against a voice, though
  a call is started from an uncommitted copy and the vote that carries it may never
  be saved.
* `AnsweredVotesAreFinished`, `OneOpenVoteUnlessCrowded`: what the default isolation
  leaves of unanimity and of the one vote in a room; two overlapping requests
  (`raced`, `crowded`) may miss each other, see below.
* `PassedVoteTakesEffectUnlessLost`: liveness. A vote saved as passed has its effect in
  the end, or the call it started was lost. What it excludes is everything else that
  could keep the call from it: the phase the call meets, the other vote's call, a target
  who is gone, the room's end, a save of another ballot that fails or undoes the result.

Of `accounts`:

* `LoginFindsLiveUser`: the OAuth rows never lead to a deleted user, which `login` would
  not notice. Deletion removes the rows first, and a sign-up that has read such a row
  updates none when it is gone; in the other order (the mutant) it fails.
* `TokensForLiveUsersOnly`: neither a login nor a refresh gives a deleted user a token.
* `TrialLimitHolds`, `OneUserPerSession`: for every session no two requests about which
  overlapped. Requests on other sessions of the address or of the login do not matter.

Of `room_events`:

* `RemovedRoomLeavesFeed`: the listener of DELETED looks for matches without a room, of
  whichever room; nothing is left when the listeners have settled.
* `FeedShowsOpenRooms`: then the feed shows exactly the rooms that can be joined, at the
  right price; when listeners to several calls ran at once, from the next one on that runs
  alone.
* `StaysFollowParticipants`: one open stay for each participant and none for others,
  with the same reserve for listeners and calls about one user in one room.
* `ParticipantsHear`: a connected socket hears the rooms of its user, in every
  interleaving of connecting and joining: it is in the lookup before the
  participations are read, and what is joined too late by one way comes by the other.
* `BannedDoNotHear`: it does not hear those he was kicked from, unless the kick fell
  between reading the participations and joining.
* `ParticipantsHaveTheNews`: everybody in an order has the notifications of its
  progress, though the listeners read the room late.

Of `room_transactions`:

* `NobodyEntersAfterFix`, `FixedFromAllReady`: the race of `room.service.spec.ts:347`,
  and the one of `fixOrder` with calls that take ALL_READY away. Each is lost when
  one of the two SERIALIZABLE levels is (the mutants `SerializableFix`,
  `SerializableJoin`).
* `BlacklistedAreBanned`: holds under overlapping kicks and leaves because only
  changed columns and new blacklist rows are written.
* `ComeAndGoByOwnCalls`: for the same reason nobody is put out, or brought back, by a call
  about somebody else that saves an old copy. The one call that does put others out is
  a leave that removes the room, see below.

### What the violations are

* `fix_lost`: u2 starts `setReady(false)`, which reads ALL_READY; the purchaser fixes
  the order and commits; `setReady` writes `isReady` and the phase PREPARE. The locks
  of `fixOrder` do not help against a transaction that has read before it.
* `two_rooms_in_progress`: a member joins two rooms in PREPARE while ready in none,
  then gets ready in both; `checkReadyAvailable` has only its comment about the
  other rooms.
* `reset_after_done`: a reset vote passes at ORDER_CHECK, the purchaser calls
  order-done before the started `resetRoom` reads the room, and `cancel` sets
  ORDER_CANCELED.
* `offline_joiner`: the listener of USER_ENTER throws, `joinRoom` fails after its
  commit, and `checkAllReadyOrCanceled` is not called.
* `absent_voters`: the opinions are made from all participant rows.
* `duplicate_addresses`: two sessions for an address are verified and submitted one
  after the other. `deletedAt` of the first user is NULL, the column's transformer
  makes NaN of it, `isDeleted` is `deletedAt !== null`, and `checkDuplicateEmailExist`
  takes him for deleted.

### What overlapping requests can do

Three races of calls at the default isolation are in the models, and the properties
leave them out. Each is seen with a stronger property in the cfg of the run named.

* The purchaser is alone in the room `leaveRoom` reads; a join begins and commits;
  `leaveRoom` removes the room, and the participation of the user who joined with it.
  The share locks of `joinRoom` are gone when it has committed (`room_transactions`; the
  last disjunct of `ComeAndGoByOwnCalls`).
* Two createVotes read, both find no unfinished vote, both insert. `doVote` then runs for
  either, and one may kick while the other resets (`votes_take_effect` with
  `OneOpenVote` in place of `OneOpenVoteUnlessCrowded`).
* The two voters of a vote read it at the same time and agree. Each copy has the other
  opinion missing, so neither is finished; saved one over the other, both opinions are
  there. A voter cannot answer twice, so the vote stays open, and with it the guard
  that there be no other (`votes_take_effect` with `Votes` for `Votes \ raced` in
  `AnsweredVotesAreFinished`).

### What a vote can do to a room

`room_lifecycle` does not check deadlock, because a room can really get stuck. The purchaser starts a kick vote against himself (`createKickVote`
does not forbid it) and everybody agrees; before the started kick commits, a reset
vote is created, with the purchaser among its voters; then the kick bans him. In
ORDER_FIX the reset vote waits for an opinion the role guard of this room does not
let him give (the guard is about the room of the URL, so another room he has joined
would be his only way), no other vote can be created, nobody has the role that checks
the order, and leaving is forbidden. Only the menus can still change. A voter who
never answers blocks a room in the same way, without any race.

### Bounds

* Three users are a purchaser and two others: enough for a vote with a target and a
  voter, for unanimity of two, for a member who left while others stay, and for
  readiness that depends on a third. Rooms do not share state but through the rows
  of their users, so one room is enough for everything but the checks of create and
  join over the rooms of a user, which have a run of their own with two.
* Two votes in `room_lifecycle`: one whose call has not run yet and one under way.
* `room_pair` has no votes: its kicks, leaves and joins change the rows deletion and
  the checks of create and join read; a vote adds to them a banned purchaser, whom
  `room_lifecycle` covers.
* In `votes_take_effect` a vote id serves again when its room has been removed and no
  request has it. `Crash` and `LoseTask` have no bound. Two votes and five requests are two
  creations and three ballots, two of them at the same time: a vote of two voters that
  passes, beside or before another. `Tips = {}`: the order is done or not, but not
  checked, which for votes is one more phase like ORDER_FIX. The requests run out, so deadlock is
  not checked.
* `accounts`: one address, so that both sessions compete for it, and two logins. A
  session ends verified or locked, and user ids run out: deadlock is not checked.
  `TrialLimit = 2` for 4 makes the last trial and the one before it different steps;
  nothing depends on the number. `duplicate_addresses` has the code's 4.
* `room_events`: u2 has two sockets, one of which may be connecting while the other is
  on. Two users are the one an event is about and another who makes the room
  change under its listeners; three listeners at a time, one call may emit two. With three stays one
  may be held by a call, one deleted and one new. In the end everybody may have left
  and all sockets be gone, so deadlock is not checked.
* `MaxMenus = 1`: the code asks whether there is a menu. `Tips = {5}`: not divisible
  by 2 or 3.
* Two overlapping transactions of any kind in waves: in a wave each call commits
  once at most, so a transaction is overlapped by one commit. The next wave starts
  from whatever the last left.
* `RoomTransactions` starts in any room that can be reached before the order is
  fixed, with a menu for each member; menus do not change there.

### Fairness

Only `PassedVoteTakesEffectUnlessLost` needs it: `FairVoteSpec` has weak fairness of
`SettleTask(t) \/ LoseTask(t)` for each call. `kick` and `resetRoom` are promises the event
loop drives until they settle, one way or the other: that a promise does not stay
pending for ever is all that is assumed, not that it succeeds. No request of a user is
assumed to come, no transaction to commit. After a lost call or a crash nothing starts
the call again, and the property says no more.

### Mutants

For each property of a passing run `PROJECT.json` names a definition and a mistake in it
that the property notices; the mistaken versions are the operators whose
comment starts with "Mutant". They are used nowhere else.

| property | mistake |
|---|---|
| `TypeOK` | deleting a menu deletes two; a rollback keeps what was read |
| `PhaseTellsReadiness` | leave forgets `updateAllReadyState` |
| `FixedOrderIsReady` | ready may be taken back in any phase |
| `BlacklistedStaysOut` | join does not look at the blacklist |
| `AnnouncedIsPhase` | ALL_READY_CANCELED is not emitted |
| `OpenRoomHasPurchaser` | the purchaser may leave others behind |
| `OneOpenVote` | unfinished votes are not looked for |
| `TipIsShared` | the share is rounded up |
| `OrderLosesMembersByVoteOnly` | the purchaser may kick in any phase |
| `OrderEndsDoneOrByReset` | `updateAllReadyState` runs in every phase |
| `PurchaserHasOneRoom` | create looks at purchaser rows only |
| `ImplementsRoomLife` | leave does not look at the phase |
| `DeletedLeaveOpenRoomsAlone` | deletion looks at the rooms he purchases only |
| `DeletedAccountsAreErased` | the listener skips rooms the purchaser has left |
| `StartedCallsHaveEveryVoice` | one agreement passes a vote |
| `AnsweredVotesAreFinished` | a refusal does not finish the vote |
| `OneOpenVoteUnlessCrowded` | unfinished votes are not looked for |
| `PassedVoteTakesEffectUnlessLost` | the phase is checked for kicks by vote as well |
| `TypeOK` of `Accounts`, `TrialLimitHolds` | one trial too many |
| `LoginFindsLiveUser` | the user is saved before his OAuth rows are deleted |
| `TokensForLiveUsersOnly` | refresh does not look the user up |
| `OneUserPerSession` | the state of the session is not checked |
| `EventsTypeOK` | ids of stays are used again |
| `RemovedRoomLeavesFeed` | matches are looked for by the room that is gone |
| `FeedShowsOpenRooms` | nobody listens to USER_KICKED |
| `StaysFollowParticipants` | leave deletes ended stays only |
| `ParticipantsHear` | the middleware does not fill the lookup |
| `BannedDoNotHear` | participations of any role are joined |
| `ParticipantsHaveTheNews` | the purchaser is left out |
| `BlacklistedAreBanned` | the saved blacklist replaces the rows |
| `NobodyEntersAfterFix` | `joinRoom` at the default isolation |
| `FixedFromAllReady` | `fixOrder` at the default isolation |
| `ComeAndGoByOwnCalls` | all rows of the copy are written, changed or not |

## What is proved

TLAPS checks the theorems below for any values of the constants that satisfy the named
assumptions, which TLC evaluates in every run:

* `UsersAssumption`, `ServiceAssumption`: users are finitely many, tips are integers and
  bounds natural numbers, the markers of NULL and of no row are not among the ids.
* `FounderAssumption`, `BoundAssumption`, `TransactionsAssumption`, `AccountsAssumption`,
  `OwnersAreUsers`: the same kind for the constants of the other modules.
* `EverybodyConnected`, of `RoomEmits` and what extends it: no votes and nobody without
  a socket. It delimits what `RoomEvents` models (see Events) and so its theorems too.

Rooms, votes, users, overlapping requests, sockets and running listeners may be any
number. The bounds in the guards (`MaxMenus`, `MaxRequests`, `MaxRunning`) are constants
of the theorems like the others.

### RoomService

| theorem | property |
|---|---|
| `TypeCorrect` | `TypeOK` |
| `PhaseAlwaysTellsReadiness`, `FixedOrderIsAlwaysReady`, `BlacklistedAlwaysOut`, `OpenRoomAlwaysHasPurchaser`, `PurchaserAlwaysHasOneRoom`, `AlwaysOneOpenVote` | the invariants of like names |
| `AnnouncedAlwaysIsPhase` | `AnnouncedIsPhase`, when every user has a socket (`Offline = {}`; `offline_joiner` shows that it fails otherwise) |
| `RoomServiceImplementsRoomLife` | `ImplementsRoomLife`, the refinement |
| `OrderOnlyLosesMembersByVote`, `OrderAlwaysEndsDoneOrByReset` | the two action properties of an order under way |
| `TipAlwaysShared` | `TipIsShared` |

`RoomEntityProofs` shows that each method of the aggregate keeps the invariant of one
room, `RoomInv`:

* `GoneIsEmpty`: an id without a room has no rows;
* `OnePurchaser`: the role PURCHASER is held by `purchaser` only, who has a row;
* `OpenHasPurchaser`: in PREPARE and ALL_READY he is in the room;
* `BlacklistIsBanned`: the blacklist is the set of banned rows;
* `PhaseIsReadiness`, `FixedIsReady`: the two facts about the phase.

None of the properties is inductive alone. `BlacklistedStaysOut` needs the role of
the row, which is what keeps a banned user who "leaves" from being a participant.
`FixedOrderIsReady` needs `PhaseIsReadiness`, since `fixOrder` looks at the phase and
not at the participants. `OpenHasPurchaser` needs to know that a purchaser is only
banned by a vote, and that the started kick does not run in an open room: this is
`TasksFollowFix`, the second half of `RoomsInv`, which says that the room of a started
call is past ALL_READY or gone, and which holds because no call goes back from there.
`PurchaserHasOneRoom` is proved from `Narrows`: every call but create and join only
takes roles away and moves rooms towards being closed.

The refinement maps each call to one step of `RoomLife` or to none. It needs `RoomsInv`,
for instance to know that a room whose purchaser leaves is empty of others, so that
removing it puts nobody out, and that a started kick finds the order under way, closed
or gone. The two properties of an order need `CallsCarried` as well: a started call of
a room that is there has its vote in the tables, finished and with the agreement of all
voters. A vote's id serves again only when its call is through, which keeps it so.

`TipIsShared` adds up the shares of the participants. Its invariant `TipsInv` says that
nobody has a share before the order is checked, and that afterwards each share is the
tip divided by the number of those who have one: `checkOrder` gives every participant
his share at once, it runs once since the room has an account afterwards, and who is
kicked later keeps his. The tip is any integer: `\div` rounds down as `Math.floor` does,
below zero as well. That n equal shares sum to n times the share needs an induction
over finite sets. The library's rule is out of reach, so `RoomLifeProofs` takes a smallest
counterexample (`MinimalSet`, from the well-founded order of the subsets) and shows
that there is none.

### Overlapping transactions (`RoomTransactions`)

`TypeCorrect`, `NobodyEverEntersAfterFix`, `AlwaysFixedFromAllReady`,
`AlwaysComeAndGoByOwnCalls`, `BlacklistedAlwaysBanned`: everything `room_transactions`
checks.

The invariant of all but the last is `TxnInv`: the types, what a SERIALIZABLE transaction
read is still the room (`LockedReadsAreCurrent`: no commit can pass its locks), and an open transaction's method
did not throw on the room it read (`OpenWereAllowed`). Then a commit of `joinRoom` writes
into a room that is open now, and one of `fixOrder` into one that is ALL_READY now. For
`AlwaysComeAndGoByOwnCalls` two lemmas say what a call changes in its copy
(`EffectOnOthers`: no row of a participant but its user's; `OnlyLeaveRemoves`: a call
removes the room only if nobody else is in it), and saving writes no other column. The
blacklist needs no locks, but a different argument, `BansInv`: bans are never taken
back, so whatever an open transaction read as banned is still banned, and the columns
it writes over are those it changed.

### Votes (`VoteTransactions`)

`BallotsTypeCorrect` (the type invariant), `StartedCallsAlwaysHaveEveryVoice`,
`AnsweredVotesAlwaysFinished`, `AlwaysOneOpenVoteUnlessCrowded`. The invariant `BallotsInv`
has four parts:

* `VoicesInv`: an agreement, in the tables or in an open ballot, was asked for by its
  voter; the vote of an open ballot may be gone with its room. A started call is carried by a vote with all voices even if the vote was never
  saved as passed, since the call is started from the copy.
* `AloneInv`: the ballots of a vote that was not raced came one at a time, so the last
  one saw all the others and finishes the vote.
* `SoleInv`: the same for creating votes in one room, counting a vote that is not saved yet.
* `AnsweredVotesAreFinished` itself.

A call that is started meanwhile or lost, a failing save, a crash and the removal of the
room are among the steps; all but the ballots themselves come down to `QuietStep`, by which
ballots and calls only end and votes only go with their rooms.

### Sign-up, login and deletion (`Accounts`)

`TypeCorrect`, `LoginAlwaysFindsLiveUser`, `TokensAlwaysForLiveUsers`,
`TrialLimitAlwaysHolds`, `AlwaysOneUserPerSession`.

* `TypeInv` adds to the types what a request saw of its session, without which the
  counted trials would not stay below the limit plus one.
* `RowsLeadToLinkedUsers`: an OAuth row leads to a user whose deletion has not yet come
  to the rows. It is stronger than `LoginFindsLiveUser`, and it is the order of the two
  queries of `deleteUser` that makes it inductive: a sign-up that read the row before
  updates none afterwards.
* `SignupInv`: while no two requests overlap on a session, the copy of the one that is
  open is the session, its trials are the answers given so far, and a session makes a
  user only in the step that ends it.

### Deletion and rooms (`UserDeletion`)

`DeletedAlwaysLeaveOpenRoomsAlone`, `DeletedAccountsAlwaysErased`,
`PurchaserHasOneRoomBesideDeletions`. A behaviour of `DeletionSpec` is one of the room
service (`Spec`), so `RoomsInv` and `PurchaserHasOneRoom` hold. `CallCarries` says,
once for all calls, what a call may do to a room behind the back of `deleteUser`: nobody
gets a row or becomes purchaser but who enters; a closed room stays closed or is
removed; it gets no account. The invariant is then that a user past the check of
`UserEntity.delete`, who entered nothing since, is in no open room, and that each
account of his is erased or still on the list of the listener (`AccountsAreTaken`).

### Listeners (`RoomEvents`)

`ParticipantsAlwaysHear`, `BannedNeverHear`, `ParticipantsAlwaysHaveTheNews`,
`RemovedRoomAlwaysLeavesFeed`, `FeedAlwaysShowsOpenRooms`,
`StaysAlwaysFollowParticipants`, `EventsTypeCorrect`: every invariant of `room_events`. Again `EventsSpec` implies `Spec`.
What the listeners may rely on is one lemma, `CallTells`. `Told`: every call emits who
came, who was put out, what became of the order, and the removal of a room, and does
not make a room with an id that was in use. `Priced`: it emits an event whenever the
price of an open room may have changed, and nothing else about a room it fixes.
`Moved`, `OneMoves`: an event that somebody came or went is true of the room the call
leaves, whoever went has one, and a call emits one such event at most. The rest is per listener:

* `GatewayInv`: a socket in use is in the lookup (`SocketsInv`); from the moment its
  participations are read, each room of its user is joined or found, and a room he was
  banned from is one marked `outdated` (`HearingInv`).
* `NewsInv`: for everybody in an order, either the notification is there or its
  listener has yet to read the room. It is inductive because nobody enters once the
  order is fixed.
* `FeedInv`: a match is its room's, or its room is gone and a running listener is about
  to look for matches without a room, or has found this one (`Sought`). Looking by the
  NULL column and not by the room is what makes this hold for every interleaving.
* `ShownInv`: of a room whose events have not been mixed. While it can be joined
  (`OpenShown`), its match is there or the listener to CREATE still runs; the match has
  the price of the room, or a listener is about to write that price; and no listener has
  read another one. Afterwards (`ClosedShown`), the match is gone or about to be removed,
  and a listener that would update it finds none. It rests on `ListedInv`: a listener
  about one room removes no match of another that is there.
* `ChatInv`: of a user in a room whose tasks have not been mixed, one task at most is
  running, and his rows are right unless it is the one that is to put them right
  (`StayAs`): an enter finds no open row, a leave or a kick finds him gone, and a call
  that has read his row will write one he still has. An id stays that of one user and
  one room as long as a row or a call has it (`ChatShape`), so that a call which saves an
  old copy cannot overwrite the row of another.
* `FeedTypes`: a listener that is about to write a price has read a natural number. That
  a sum over participants is one needs an induction as above; `SumCounts` shows it
  once, for any finite set, by counting units.

### Only model-checked

* `PassedVoteTakesEffectUnlessLost`: liveness, under fairness, is out of the provers'
  reach.
* The violations: they are behaviours, found by TLC.

## Not modelled

* Prices and receipts, the contents of menus, queries, the images in S3, push delivery,
  login providers, version checks, logging.
* Device tokens: each is a row of one user that is read only to send pushes. `put` keeps
  a token with the user it first came with; no model says so.
* Who subscribes to a category, and until when: `Subscribers` is a constant. The
  `/match` sockets subscribe to categories and are told what the listeners did.
* Two `deleteUser` calls of one user at a time, and two `createRoom` calls, or one and a
  join in another room, that overlap: `PurchaserHasOneRoom` is about calls that do not.
* Texts and ids of chat messages, and with them the history a user is shown.
* The listeners to votes, all-ready and cancellation (pushes and system messages), and
  a process whose users have no sockets, beside `offline_joiner`: there the listeners
  after the one that throws are skipped as well.

## Plan

1. An abstract specification of the gateway (a socket hears a set of rooms) for
   `RoomEvents` to implement.
2. The hazards `PROJECT.json` lists without a property, where the code says what is meant.
