-------------------------- MODULE VoteTransactions ---------------------------
(***************************************************************************)
(* The votes of RoomService (createKickVote, createResetVote, doVote in    *)
(* src/src/room/room.service.ts) as transactions that overlap, beside the  *)
(* calls on an order that was fixed, and leaving once it is closed.        *)
(* All vote requests have the default isolation: a ballot reads one        *)
(* snapshot and saves what it changed, whatever was committed in between.  *)
(* doVote starts kick and resetRoom before it saves the vote, so the call  *)
(* runs whether the save succeeds or not.  It is awaited by nobody: when   *)
(* the database fails it, or the process stops, nothing starts it again.   *)
(* Menus may change as well; nothing here reads them.                      *)
(***************************************************************************)
EXTENDS RoomService

CONSTANTS
    Ballots,    \* ids of vote requests in progress: bounds how many overlap
    MaxRequests,    \* bound on the vote requests altogether
    Founder     \* the purchaser of the rooms

ASSUME FounderAssumption == Founder \in Users
ASSUME BoundAssumption == MaxRequests \in Nat

VARIABLES
    ballots,    \* ballots[b]: a createVote or doVote between its read and its save
    voices,     \* voices[v]: the users that asked for what v is about (history)
    raced,      \* the votes two overlapping ballots were about (history)
    crowded,    \* the rooms two overlapping createVotes were about (history)
    requests,   \* how many vote requests there were (bound: MaxRequests)
    lost        \* the calls that were lost when they were last started (history)

ballotVars == <<ballots, voices, raced, crowded, requests, lost>>
voteVars == <<vars, ballotVars>>

NoBallot == [op |-> "none", vote |-> None, user |-> None, row |-> NoVote]

\* A ballot writes columns of a vote and leaves the others alone: see Changed.
Columns == [kind : {"none"}, room : {None}, target : {None},
            opinion : [Users -> Opinions], finished : BOOLEAN, result : BOOLEAN]

Ballot == [op : {"create"}, vote : {None}, user : Users, row : Vote]
            \cup [op : {"vote"}, vote : Votes, user : Users, row : Columns]

BallotsTypeOK ==
    /\ TypeOK
    /\ ballots \in [Ballots -> Ballot \cup {NoBallot}]
    /\ voices \in [Votes -> SUBSET Users]
    /\ raced \subseteq Votes
    /\ crowded \subseteq Rooms
    /\ requests \in 0..MaxRequests
    /\ lost \subseteq Task

\* A fixed order in each room, with a member for everybody but the purchaser u, of
\* whom some have left before it was fixed; the receipt is uploaded.
Fixed(u, gone) ==
    [NewRoom(u) EXCEPT
        !.phase = "ORDER_FIX",
        !.role = [w \in Users |-> IF w = u THEN "purchaser" ELSE "member"],
        !.state = [w \in Users |-> IF w \in gone THEN "left" ELSE "joined"],
        !.isReady = [w \in Users |-> w # u],
        !.menus = [w \in Users |-> IF w = u THEN 0 ELSE 1],
        !.screenShots = TRUE]

VoteInit ==
    /\ \E gone \in SUBSET (Users \ {Founder}) :
          /\ Cardinality(Users \ gone) > 1
          /\ rooms = [r \in Rooms |-> Fixed(Founder, gone)]
    /\ announced = [r \in Rooms |-> TRUE]
    /\ votes = [v \in Votes |-> NoVote]
    /\ tasks = {}
    /\ ballots = [b \in Ballots |-> NoBallot]
    /\ voices = [v \in Votes |-> {}]
    /\ raced = {}
    /\ crowded = {}
    /\ requests = 0
    /\ lost = {}

-----------------------------------------------------------------------------
(* Creating a vote                                                         *)

About(b, r) == ballots[b].op = "create" /\ ballots[b].row.room = r
On(b, v) == ballots[b].op = "vote" /\ ballots[b].vote = v

FreshBallot == CHOOSE b \in Ballots : ballots[b] = NoBallot

Begin(b) ==
    /\ ballots[b] = NoBallot /\ b = FreshBallot
    /\ requests < MaxRequests
    /\ requests' = requests + 1

BeginCreate(b, u, r, row) ==
    /\ Begin(b)
    /\ VoteAllowed(u, r)
    /\ ballots' = [ballots EXCEPT ![b] =
                     [op |-> "create", vote |-> None, user |-> u, row |-> row]]
    /\ crowded' = IF \E c \in Ballots : About(c, r) THEN crowded \cup {r} ELSE crowded
    /\ UNCHANGED <<vars, voices, raced, lost>>

BeginKickVote(b, u, target, r) ==
    /\ RowCount(rooms[r]) >= 3
    /\ HasRow(rooms[r], target)
    /\ u = rooms[r].purchaser
    /\ BeginCreate(b, u, r, NewVote("KICK", r, target, {u, target}))

BeginResetVote(b, u, r) == BeginCreate(b, u, r, NewVote("RESET", r, None, {u}))

\* Ids are interchangeable: one that neither a row nor a request has any more is as
\* good as a new one, and has no history.
FreshVote == CHOOSE v \in Votes : votes[v] = NoVote /\ \A b \in Ballots : ~On(b, v)

\* The insert; it fails when the room has been removed.
CommitCreate(b, v) ==
    /\ ballots[b].op = "create"
    /\ Exists(rooms[ballots[b].row.room])
    /\ votes[v] = NoVote /\ (\A c \in Ballots : ~On(c, v)) /\ v = FreshVote
    /\ votes' = [votes EXCEPT ![v] = ballots[b].row]
    /\ ballots' = [ballots EXCEPT ![b] = NoBallot]
    /\ voices' = [voices EXCEPT ![v] = {}]
    /\ raced' = raced \ {v}
    /\ UNCHANGED <<rooms, announced, tasks, crowded, requests, lost>>

-----------------------------------------------------------------------------
(* Voting                                                                  *)

\* What save writes of the copy: the columns that differ from what was read.
Changed(copy, u) ==
    [NoVote EXCEPT !.opinion[u] = copy.opinion[u],
                   !.finished = copy.finished,
                   !.result = copy.result]

\* The read, the method on the copy, and the call that is started at once.
BeginVote(b, u, v, opinion) ==
    /\ Begin(b)
    /\ \E r \in Rooms : rooms[r].role[u] \in ParticipantRoles
    /\ votes[v].kind # "none"
    /\ ~votes[v].finished
    /\ rooms[votes[v].room].phase \in Ordering
    /\ votes[v].opinion[u] = "pending"
    /\ LET copy == Submit(votes[v], u, opinion) IN
       /\ ballots' = [ballots EXCEPT ![b] =
                        [op |-> "vote", vote |-> v, user |-> u,
                         row |-> Changed(copy, u)]]
       /\ IF copy.result
          THEN tasks' = tasks \cup {TaskOf(copy)} /\ lost' = lost \ {TaskOf(copy)}
          ELSE UNCHANGED <<tasks, lost>>
    /\ voices' = IF opinion = "agree" THEN [voices EXCEPT ![v] = @ \cup {u}] ELSE voices
    /\ raced' = IF \E c \in Ballots : On(c, v) THEN raced \cup {v} ELSE raced
    /\ UNCHANGED <<rooms, announced, votes, crowded>>

\* save: the opinion, and finished and result if they became true in the copy.
Saved(held, copy, u) ==
    [held EXCEPT !.opinion[u] = copy.opinion[u],
                 !.finished = held.finished \/ copy.finished,
                 !.result = held.result \/ copy.result]

CommitVote(b) ==
    /\ ballots[b].op = "vote"
    /\ LET v == ballots[b].vote IN
       votes' = IF votes[v].kind = "none" THEN votes
                ELSE [votes EXCEPT ![v] = Saved(@, ballots[b].row, ballots[b].user)]
    /\ ballots' = [ballots EXCEPT ![b] = NoBallot]
    /\ UNCHANGED <<rooms, announced, tasks, voices, raced, crowded, requests, lost>>

\* A query or the commit fails; what doVote has started goes on.
Abort(b) ==
    /\ ballots[b] # NoBallot
    /\ ballots' = [ballots EXCEPT ![b] = NoBallot]
    /\ UNCHANGED <<vars, voices, raced, crowded, requests, lost>>

-----------------------------------------------------------------------------
(* The calls doVote started                                                *)

Throws(t) ==
    IF t.kind = "KICK"
    THEN ~KickAllowed(rooms[t.room], t.target, "KICKED_BY_VOTE")
    ELSE ~Exists(rooms[t.room])

\* The call does what it does on the room it reads, or throws.
SettleTask(t) ==
    /\ t \in tasks
    /\ RunKick(t) \/ RunReset(t) \/ (Throws(t) /\ FailTask(t))
    /\ UNCHANGED ballotVars

\* A query, a lock or the commit of the call fails.
LoseTask(t) ==
    /\ t \in tasks
    /\ FailTask(t)
    /\ lost' = lost \cup {t}
    /\ UNCHANGED <<ballots, voices, raced, crowded, requests>>

\* The process stops: open transactions are rolled back, started calls are gone.
Crash ==
    /\ tasks # {} \/ \E b \in Ballots : ballots[b] # NoBallot
    /\ ballots' = [b \in Ballots |-> NoBallot]
    /\ tasks' = {}
    /\ lost' = lost \cup tasks
    /\ UNCHANGED <<rooms, announced, votes, voices, raced, crowded, requests>>

\* The other calls that can succeed once the order is fixed.
Beside(step) == step /\ UNCHANGED ballotVars
LeaveStep == \E r \in Rooms, u \in Users : LeaveRoom(u, r)

VoteNext ==
    \/ \E b \in Ballots :
          \/ \E u \in Users, r \in Rooms :
                \/ \E target \in Users : BeginKickVote(b, u, target, r)
                \/ BeginResetVote(b, u, r)
          \/ \E v \in Votes :
                \/ CommitCreate(b, v)
                \/ \E u \in Users, opinion \in {"agree", "disagree"} :
                      BeginVote(b, u, v, opinion)
          \/ CommitVote(b)
          \/ Abort(b)
    \/ Crash
    \/ Beside(OrderStep)
    \/ Beside(LeaveStep)
    \/ \E t \in tasks : SettleTask(t) \/ LoseTask(t)

VoteSpec == VoteInit /\ [][VoteNext]_voteVars

\* A started call is driven by the event loop until its promise settles, in one way
\* or the other.
FairVoteSpec ==
    VoteSpec /\ \A t \in Task : WF_voteVars(SettleTask(t) \/ LoseTask(t))

-----------------------------------------------------------------------------
(* Properties                                                              *)

\* Nobody is kicked and no order is canceled against a voice: a call that was
\* started has the agreement of every voter, also when the ballots overlapped and
\* when the vote that carries it is never saved.
StartedCallsHaveEveryVoice ==
    \A t \in tasks : Exists(rooms[t.room]) => \E v \in Votes :
        TaskOf(votes[v]) = t /\ Voters(votes[v]) \subseteq voices[v]

\* When every voter has answered the vote is finished, unless two of its ballots
\* overlapped: then each may have missed the answer of the other.
AnsweredVotesAreFinished ==
    \A v \in Votes \ raced :
        /\ votes[v].kind # "none"
        /\ \A u \in Voters(votes[v]) : votes[v].opinion[u] # "pending"
        /\ Voters(votes[v]) # {}
        => votes[v].finished

\* A room has one vote under way (room.service.ts:612-614), unless two were being
\* created at the same time.
OneOpenVoteUnlessCrowded ==
    \A r \in Rooms \ crowded : Cardinality(OpenVotes(r)) <= 1

\* A vote that is saved as passed has its effect in the end, unless the call it
\* started was lost: no other request, vote or failing save keeps the call from it.
PassedVoteTakesEffectUnlessLost ==
    \A v \in Votes : votes[v].result ~> (TookEffect(v) \/ TaskOf(votes[v]) \in lost)
=============================================================================
