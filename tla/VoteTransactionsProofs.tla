------------------------ MODULE VoteTransactionsProofs -----------------------
(***************************************************************************)
(* Theorems about VoteTransactions for any users, rooms and votes and any  *)
(* number of vote requests that overlap, with saves and calls that fail.   *)
(***************************************************************************)
EXTENDS VoteTransactions, RoomServiceProofs

-----------------------------------------------------------------------------
(* What is known of the ballots                                            *)

\* A row that is being created has no answer yet.
Unanswered(row) ==
    /\ ~row.finished /\ ~row.result
    /\ \A u \in Users : row.opinion[u] \in {"pending", "none"}

\* A ballot is a voter's, unless the vote is gone, and he is heard if he agrees.
CastInv ==
    \A b \in Ballots :
        /\ ballots[b].op = "create" => Unanswered(ballots[b].row)
        /\ ballots[b].op = "vote" =>
              LET v == ballots[b].vote
                  u == ballots[b].user
              IN  /\ votes[v].kind # "none" => votes[v].opinion[u] # "none"
                  /\ ballots[b].row.opinion[u] \in {"agree", "disagree"}
                  /\ ballots[b].row.opinion[u] = "agree" => u \in voices[v]

\* Nobody agrees in the tables who has not asked for it.
HeardInv ==
    \A v \in Votes, u \in Users : votes[v].opinion[u] = "agree" => u \in voices[v]

VoicesInv == CastInv /\ HeardInv /\ StartedCallsHaveEveryVoice

\* The ballots of a vote that was not raced come one after the other, so what the
\* last one found is still there when it is saved.
AloneInv ==
    \A v \in Votes \ raced :
        /\ \A b, c \in Ballots : On(b, v) /\ On(c, v) => b = c
        /\ \A b \in Ballots : On(b, v) =>
              LET u == ballots[b].user
                  with == [votes[v] EXCEPT !.opinion[u] = ballots[b].row.opinion[u]]
              IN  votes[v].kind # "none" /\ (Refused(with) \/ Passed(with))
                    => ballots[b].row.finished

\* Rooms where no two votes were created at the same time have one, counting the
\* one that is being created.
SoleInv ==
    \A r \in Rooms \ crowded :
        /\ \A v, w \in OpenVotes(r) : v = w
        /\ \A b, c \in Ballots : About(b, r) /\ About(c, r) => b = c
        /\ \A b \in Ballots : About(b, r) => OpenVotes(r) = {}

BallotsInv ==
    VoicesInv /\ AloneInv /\ AnsweredVotesAreFinished /\ SoleInv

-----------------------------------------------------------------------------
(* Rows and columns                                                        *)

LEMMA BallotTypes ==
    ASSUME BallotsTypeOK, NEW b \in Ballots
    PROVE  /\ ballots[b].op \in {"create", "vote", "none"}
           /\ ballots[b].op = "create" =>
                ballots[b].user \in Users /\ ballots[b].row \in Vote
           /\ ballots[b].op = "vote" =>
                /\ ballots[b].vote \in Votes /\ ballots[b].user \in Users
                /\ ballots[b].row \in Columns
BY DEF BallotsTypeOK, Ballot, NoBallot

LEMMA NewVoteIs ==
    ASSUME NEW kind, NEW r, NEW target, NEW excluded
    PROVE  /\ NewVote(kind, r, target, excluded).room = r
           /\ Unanswered(NewVote(kind, r, target, excluded))
BY DEF NewVote, NoVote, Unanswered

LEMMA ChangedIs ==
    ASSUME NEW copy \in Vote, NEW u \in Users, NEW row, row = Changed(copy, u)
    PROVE  /\ row \in Columns
           /\ row.opinion[u] = copy.opinion[u]
           /\ row.finished <=> copy.finished
<1> DEFINE opinion == [[w \in Users |-> "none"] EXCEPT ![u] = copy.opinion[u]]
<1>1. row = [kind |-> "none", room |-> None, target |-> None, opinion |-> opinion,
             finished |-> copy.finished, result |-> copy.result]
    BY DEF Changed, NoVote
<1>2. opinion \in [Users -> Opinions] /\ opinion[u] = copy.opinion[u]
    BY DEF Vote, VoteRow, Opinions
<1>3. copy.finished \in BOOLEAN /\ copy.result \in BOOLEAN
    BY DEF Vote, VoteRow
<1> HIDE DEF opinion
<1> QED BY <1>1, <1>2, <1>3 DEF Columns

\* The row a ballot leaves: the answer is written, finished is never taken back.
IsSaved(held, row, u, saved) ==
    /\ saved \in Vote
    /\ saved.opinion = [held.opinion EXCEPT ![u] = row.opinion[u]]
    /\ TaskOf(saved) = TaskOf(held)
    /\ saved.kind = held.kind /\ saved.room = held.room
    /\ saved.finished <=> held.finished \/ row.finished

LEMMA SavedIs ==
    ASSUME NEW held \in Vote, NEW row \in Columns, NEW u \in Users
    PROVE  IsSaved(held, row, u, Saved(held, row, u))
<1> PICK saved : saved = Saved(held, row, u)
    OBVIOUS
<1> DEFINE opinion == [held.opinion EXCEPT ![u] = row.opinion[u]]
           finished == held.finished \/ row.finished
           result == held.result \/ row.result
<1>1. opinion \in [Users -> Opinions] /\ finished \in BOOLEAN /\ result \in BOOLEAN
    BY DEF Vote, VoteRow, Columns
<1>2. saved = [held EXCEPT !.opinion = opinion, !.finished = finished, !.result = result]
    BY DEF Saved, Vote, VoteRow
<1> HIDE DEF opinion, finished, result
<1>3. /\ saved.opinion = opinion /\ saved.finished = finished /\ saved.result = result
      /\ saved.kind = held.kind /\ saved.room = held.room /\ saved.target = held.target
    BY <1>2 DEF Vote, VoteRow
<1>4. saved \in Vote
    BY <1>1, <1>2 DEF Vote, VoteRow
<1> QED BY <1>3, <1>4 DEF IsSaved, TaskOf, opinion, finished

-----------------------------------------------------------------------------
(* Each step keeps the invariant                                           *)

LEMMA BallotsInvInit == VoteInit => BallotsTypeOK /\ BallotsInv
<1> SUFFICES ASSUME VoteInit PROVE BallotsTypeOK /\ BallotsInv
    OBVIOUS
<1>1. ASSUME NEW gone \in SUBSET Users PROVE Fixed(Founder, gone) \in Room
    <2> DEFINE new == NewRoom(Founder)
               role == [w \in Users |-> IF w = Founder THEN "purchaser" ELSE "member"]
               state == [w \in Users |-> IF w \in gone THEN "left" ELSE "joined"]
               isReady == [w \in Users |-> w # Founder]
               menus == [w \in Users |-> IF w = Founder THEN 0 ELSE 1]
    <2>1. new \in Room
        BY NewRoomType, FounderAssumption
    <2>2. /\ role \in [Users -> Roles \cup {"none"}] /\ state \in [Users -> States \cup {"none"}]
          /\ menus \in [Users -> Nat] /\ isReady \in [Users -> BOOLEAN]
        BY DEF Roles, States
    <2>3. Fixed(Founder, gone) =
            [new EXCEPT !.phase = "ORDER_FIX", !.role = role, !.state = state,
                        !.isReady = isReady, !.menus = menus, !.screenShots = TRUE]
        BY DEF Fixed
    <2>4. "ORDER_FIX" \in Phases
        BY DEF Phases, Ordering
    <2> HIDE DEF new, role, state, isReady, menus
    <2> QED BY <2>1, <2>2, <2>3, <2>4 DEF Room
<1>2. BallotsTypeOK
    <2>1. rooms \in [Rooms -> Room]
        BY <1>1 DEF VoteInit
    <2>2. TypeOK
        BY <2>1 DEF VoteInit, TypeOK
    <2>3. ballots \in [Ballots -> Ballot \cup {NoBallot}] /\ voices \in [Votes -> SUBSET Users]
        BY DEF VoteInit
    <2>4. raced \subseteq Votes /\ crowded \subseteq Rooms /\ lost \subseteq Task
        BY DEF VoteInit
    <2>5. requests \in 0..MaxRequests
        BY BoundAssumption DEF VoteInit
    <2> QED BY <2>2, <2>3, <2>4, <2>5 DEF BallotsTypeOK
<1>3. /\ \A b \in Ballots : ballots[b].op = "none"
      /\ \A v \in Votes : votes[v].kind = "none" /\ votes[v].room = None
                          /\ \A u \in Users : votes[v].opinion[u] = "none"
    BY DEF VoteInit, NoBallot, NoVote
<1>4. VoicesInv /\ AloneInv /\ AnsweredVotesAreFinished
    BY <1>3 DEF VoteInit, VoicesInv, CastInv, HeardInv, StartedCallsHaveEveryVoice, AloneInv, On,
                AnsweredVotesAreFinished
<1>5. SoleInv
    BY <1>3, ServiceAssumption DEF SoleInv, OpenVotes, About
<1> QED BY <1>2, <1>4, <1>5 DEF BallotsInv

\* Ballots and started calls go, and so may the votes of a room that is removed.
VotesGoWithRooms ==
    \A v \in Votes :
        \/ votes'[v] = votes[v]
        \/ votes'[v] = NoVote /\ \A r \in Rooms : Exists(rooms'[r]) => votes[v].room # r
NoRoomComesBack == \A r \in Rooms : Exists(rooms'[r]) => Exists(rooms[r])
BallotsOnlyEnd == \A b \in Ballots : ballots'[b] \in {ballots[b], NoBallot}

LEMMA QuietStep ==
    ASSUME BallotsTypeOK, BallotsInv, tasks' \subseteq tasks,
           voices' = voices, raced' = raced, crowded' = crowded,
           BallotsOnlyEnd, NoRoomComesBack, VotesGoWithRooms
    PROVE  BallotsInv'
<1> USE DEF BallotsOnlyEnd, NoRoomComesBack, VotesGoWithRooms
<1>1. \A b \in Ballots : ballots'[b].op # "none" => ballots'[b] = ballots[b]
    BY DEF NoBallot
<1>2. \A v \in Votes : votes'[v].kind # "none" => votes'[v] = votes[v]
    BY DEF NoVote
<1>3. VoicesInv'
    <2>1. CastInv'
        <3> SUFFICES ASSUME NEW b \in Ballots, ballots'[b].op # "none"
                     PROVE  /\ ballots'[b].op = "create" => Unanswered(ballots'[b].row)
                            /\ ballots'[b].op = "vote" =>
                                 LET v == ballots'[b].vote
                                     u == ballots'[b].user
                                 IN  /\ votes'[v].kind # "none" => votes'[v].opinion[u] # "none"
                                     /\ ballots'[b].row.opinion[u] \in {"agree", "disagree"}
                                     /\ ballots'[b].row.opinion[u] = "agree" => u \in voices'[v]
            BY DEF CastInv, Unanswered
        <3>1. ballots'[b] = ballots[b] /\ (ballots[b].op = "vote" => ballots[b].vote \in Votes)
            BY <1>1, BallotTypes
        <3> QED BY <1>2, <3>1 DEF BallotsInv, VoicesInv, CastInv
    <2>2. HeardInv'
        BY DEF BallotsInv, VoicesInv, HeardInv, NoVote
    <2>3. StartedCallsHaveEveryVoice'
        <3> SUFFICES ASSUME NEW t \in tasks, Exists(rooms'[t.room])
                     PROVE  \E v \in Votes : /\ TaskOf(votes'[v]) = t
                                             /\ Voters(votes'[v]) \subseteq voices'[v]
            BY DEF StartedCallsHaveEveryVoice
        <3>1. t.room \in Rooms
            BY DEF BallotsTypeOK, TypeOK, Task
        <3>2. PICK v \in Votes : TaskOf(votes[v]) = t /\ Voters(votes[v]) \subseteq voices[v]
            BY <3>1 DEF BallotsInv, VoicesInv, StartedCallsHaveEveryVoice
        <3>3. votes'[v] = votes[v]
            BY <3>1, <3>2 DEF TaskOf
        <3> QED BY <3>2, <3>3
    <2> QED BY <2>1, <2>2, <2>3 DEF VoicesInv
<1>4. AloneInv'
    <2> SUFFICES ASSUME NEW v \in Votes \ raced
                 PROVE  /\ \A b, c \in Ballots : On(b, v)' /\ On(c, v)' => b = c
                        /\ \A b \in Ballots : On(b, v)' =>
                             LET u == ballots'[b].user
                                 with == [votes'[v] EXCEPT
                                            !.opinion[u] = ballots'[b].row.opinion[u]]
                             IN  votes'[v].kind # "none" /\ (Refused(with) \/ Passed(with))
                                   => ballots'[b].row.finished
        BY DEF AloneInv, On, Refused, Passed, Voters
    <2>1. \A b \in Ballots : On(b, v)' => On(b, v) /\ ballots'[b] = ballots[b]
        BY <1>1 DEF On
    <2> QED BY <1>2, <2>1 DEF BallotsInv, AloneInv
<1>5. SoleInv'
    <2>1. \A r \in Rooms : OpenVotes(r)' \subseteq OpenVotes(r)
        BY ServiceAssumption DEF OpenVotes, NoVote
    <2>2. \A b \in Ballots, r \in Rooms : About(b, r)' => About(b, r)
        BY <1>1 DEF About
    <2> QED BY <2>1, <2>2 DEF BallotsInv, SoleInv
<1>6. AnsweredVotesAreFinished'
    <2> SUFFICES ASSUME NEW v \in Votes \ raced, votes'[v].kind # "none",
                        \A u \in Voters(votes'[v]) : votes'[v].opinion[u] # "pending",
                        Voters(votes'[v]) # {}
                 PROVE  votes'[v].finished
        BY DEF AnsweredVotesAreFinished, Voters
    <2>1. votes'[v] = votes[v]
        BY <1>2
    <2> QED BY <2>1 DEF BallotsInv, AnsweredVotesAreFinished
<1> QED BY <1>3, <1>4, <1>5, <1>6 DEF BallotsInv

LEMMA StillQuiet ==
    ASSUME rooms' = rooms, votes' = votes
    PROVE  NoRoomComesBack /\ VotesGoWithRooms
BY DEF NoRoomComesBack, VotesGoWithRooms

LEMMA BeginCreateKeeps ==
    ASSUME BallotsTypeOK, BallotsInv, NEW b \in Ballots, NEW u \in Users, NEW r \in Rooms,
           NEW row \in Vote, row.room = r, Unanswered(row), BeginCreate(b, u, r, row)
    PROVE  BallotsTypeOK' /\ BallotsInv'
<1>1. /\ ballots' = [ballots EXCEPT ![b] =
                       [op |-> "create", vote |-> None, user |-> u, row |-> row]]
      /\ OpenVotes(r) = {} /\ ballots[b] = NoBallot
      /\ UNCHANGED <<vars, voices, raced, lost>>
      /\ crowded' = IF \E c \in Ballots : About(c, r) THEN crowded \cup {r} ELSE crowded
      /\ requests < MaxRequests /\ requests' = requests + 1
    BY DEF BeginCreate, Begin, VoteAllowed
<1>2. BallotsTypeOK'
    <2>1. TypeOK' /\ crowded' \subseteq Rooms /\ requests' \in 0..MaxRequests
        BY <1>1, BoundAssumption DEF BallotsTypeOK, TypeOK, vars
    <2>2. [op |-> "create", vote |-> None, user |-> u, row |-> row] \in Ballot
        BY DEF Ballot
    <2> QED BY <1>1, <2>1, <2>2 DEF BallotsTypeOK
<1>3. /\ ballots'[b] = [op |-> "create", vote |-> None, user |-> u, row |-> row]
      /\ \A c \in Ballots \ {b} : ballots'[c] = ballots[c]
      /\ votes' = votes /\ tasks' = tasks /\ rooms' = rooms
    BY <1>1 DEF BallotsTypeOK, vars
<1>4. VoicesInv'
    <2>1. CastInv'
        BY <1>1, <1>3 DEF BallotsInv, VoicesInv, CastInv
    <2>2. HeardInv' /\ StartedCallsHaveEveryVoice'
        BY <1>1, <1>3 DEF BallotsInv, VoicesInv, HeardInv, StartedCallsHaveEveryVoice
    <2> QED BY <2>1, <2>2 DEF VoicesInv
<1>5. AloneInv'
    BY <1>1, <1>3 DEF BallotsInv, AloneInv, On
<1>6. SoleInv'
    <2> SUFFICES ASSUME NEW q \in Rooms \ crowded'
                 PROVE  /\ \A v, w \in OpenVotes(q)' : v = w
                        /\ \A c, d \in Ballots : About(c, q)' /\ About(d, q)' => c = d
                        /\ \A c \in Ballots : About(c, q)' => OpenVotes(q)' = {}
        BY DEF SoleInv
    <2>1. OpenVotes(q)' = OpenVotes(q) /\ q \notin crowded
        BY <1>1, <1>3 DEF OpenVotes
    <2>2. \A c \in Ballots \ {b} : About(c, q)' <=> About(c, q)
        BY <1>3 DEF About
    <2>3. CASE q = r
        BY <1>1, <2>1, <2>2, <2>3 DEF BallotsInv, SoleInv
    <2>4. CASE q # r
        BY <1>3, <2>1, <2>2, <2>4 DEF BallotsInv, SoleInv, About
    <2> QED BY <2>3, <2>4
<1>7. AnsweredVotesAreFinished'
    BY <1>1, <1>3 DEF BallotsInv, AnsweredVotesAreFinished
<1> QED BY <1>2, <1>4, <1>5, <1>6, <1>7 DEF BallotsInv

LEMMA CommitCreateKeeps ==
    ASSUME BallotsTypeOK, BallotsInv, NEW b \in Ballots, NEW v \in Votes, CommitCreate(b, v)
    PROVE  BallotsTypeOK' /\ BallotsInv'
<1> PICK row : row = ballots[b].row
    OBVIOUS
<1>1. /\ ballots[b].op = "create" /\ votes[v] = NoVote
      /\ votes' = [votes EXCEPT ![v] = row] /\ ballots' = [ballots EXCEPT ![b] = NoBallot]
      /\ voices' = [voices EXCEPT ![v] = {}] /\ raced' = raced \ {v}
      /\ \A c \in Ballots : ~On(c, v)
      /\ UNCHANGED <<rooms, announced, tasks, crowded, requests, lost>>
    BY DEF CommitCreate
<1>2. row \in Vote /\ Unanswered(row)
    BY <1>1, BallotTypes DEF BallotsInv, VoicesInv, CastInv
<1>3. BallotsTypeOK'
    BY <1>1, <1>2 DEF BallotsTypeOK, TypeOK
<1>4. /\ votes'[v] = row /\ \A w \in Votes \ {v} : votes'[w] = votes[w]
      /\ ballots'[b] = NoBallot /\ \A c \in Ballots \ {b} : ballots'[c] = ballots[c]
      /\ \A w \in Votes \ {v} : voices'[w] = voices[w]
    BY <1>1 DEF BallotsTypeOK, TypeOK
<1>5. /\ votes[v].kind = "none" /\ votes[v].room = None
      /\ row.kind # "none" /\ row.room \in Rooms
    BY <1>1, <1>2 DEF NoVote, Vote, VoteRow
<1>7. \A c \in Ballots : ballots'[c].op # "none" => ballots'[c] = ballots[c] /\ c # b
    BY <1>4 DEF NoBallot
<1>8. VoicesInv'
    <2>1. CastInv'
        <3> SUFFICES ASSUME NEW c \in Ballots, ballots'[c].op # "none"
                     PROVE  /\ ballots'[c].op = "create" => Unanswered(ballots'[c].row)
                            /\ ballots'[c].op = "vote" =>
                                 LET w == ballots'[c].vote
                                     u == ballots'[c].user
                                 IN  /\ votes'[w].kind # "none" => votes'[w].opinion[u] # "none"
                                     /\ ballots'[c].row.opinion[u] \in {"agree", "disagree"}
                                     /\ ballots'[c].row.opinion[u] = "agree" => u \in voices'[w]
            BY DEF CastInv, Unanswered
        <3>1. ballots'[c] = ballots[c]
            BY <1>7
        <3>2. ballots[c].op = "vote" =>
                /\ votes'[ballots[c].vote] = votes[ballots[c].vote]
                /\ voices'[ballots[c].vote] = voices[ballots[c].vote]
            BY <1>1, <1>4, BallotTypes DEF On
        <3> QED BY <1>1, <3>1, <3>2 DEF BallotsInv, VoicesInv, CastInv
    <2>2. HeardInv'
        BY <1>1, <1>2, <1>4 DEF BallotsInv, VoicesInv, HeardInv, Unanswered
    <2>3. StartedCallsHaveEveryVoice'
        <3> SUFFICES ASSUME NEW t \in tasks, Exists(rooms[t.room])
                     PROVE  \E w \in Votes : /\ TaskOf(votes'[w]) = t
                                             /\ Voters(votes'[w]) \subseteq voices'[w]
            BY <1>1 DEF StartedCallsHaveEveryVoice
        <3>1. PICK w \in Votes : TaskOf(votes[w]) = t /\ Voters(votes[w]) \subseteq voices[w]
            BY DEF BallotsInv, VoicesInv, StartedCallsHaveEveryVoice
        <3>2. t.kind # "none"
            BY DEF BallotsTypeOK, TypeOK, Task
        <3>3. w # v
            BY <1>5, <3>1, <3>2 DEF TaskOf
        <3> QED BY <1>1, <1>4, <3>1, <3>3
    <2> QED BY <2>1, <2>2, <2>3 DEF VoicesInv
<1>9. AloneInv'
    <2>1. \A c \in Ballots, w \in Votes : On(c, w)' => On(c, w) /\ w # v /\ ballots'[c] = ballots[c]
        BY <1>1, <1>7 DEF On
    <2> QED BY <1>1, <1>4, <2>1 DEF BallotsInv, AloneInv
<1>10. AnsweredVotesAreFinished'
    BY <1>1, <1>2, <1>4 DEF BallotsInv, AnsweredVotesAreFinished, Unanswered, Voters
<1>11. SoleInv'
    <2> SUFFICES ASSUME NEW q \in Rooms \ crowded
                 PROVE  /\ \A w, x \in OpenVotes(q)' : w = x
                        /\ \A c, d \in Ballots : About(c, q)' /\ About(d, q)' => c = d
                        /\ \A c \in Ballots : About(c, q)' => OpenVotes(q)' = {}
        BY <1>1 DEF SoleInv
    <2>1. \A c \in Ballots : About(c, q)' => About(c, q) /\ c # b
        BY <1>7 DEF About
    <2>2. v \notin OpenVotes(q)
        BY <1>5, ServiceAssumption DEF OpenVotes
    <2>3. CASE row.room = q
        <3>1. About(b, q)
            BY <1>1, <2>3 DEF About
        <3>2. OpenVotes(q) = {} /\ \A c \in Ballots : ~About(c, q)'
            BY <2>1, <3>1 DEF BallotsInv, SoleInv
        <3>3. OpenVotes(q)' \subseteq {v}
            BY <1>4, <3>2 DEF OpenVotes
        <3> QED BY <3>2, <3>3
    <2>4. CASE row.room # q
        <3>1. OpenVotes(q)' = OpenVotes(q)
            BY <1>4, <2>2, <2>4 DEF OpenVotes
        <3> QED BY <2>1, <3>1 DEF BallotsInv, SoleInv
    <2> QED BY <2>3, <2>4
<1> QED BY <1>3, <1>8, <1>9, <1>10, <1>11 DEF BallotsInv

LEMMA TaskOfType ==
    ASSUME NEW vote \in Vote
    PROVE  TaskOf(vote) \in Task
BY DEF TaskOf, Vote, VoteRow, Task

LEMMA BeginVoteKeeps ==
    ASSUME BallotsTypeOK, BallotsInv, NEW b \in Ballots, NEW u \in Users, NEW v \in Votes,
           NEW opinion \in {"agree", "disagree"}, BeginVote(b, u, v, opinion)
    PROVE  BallotsTypeOK' /\ BallotsInv'
<1> PICK vote : vote = votes[v]
    OBVIOUS
<1> PICK with : with = Answered(vote, u, opinion)
    OBVIOUS
<1> PICK copy : copy = Submit(vote, u, opinion)
    OBVIOUS
<1> PICK row : row = Changed(copy, u)
    OBVIOUS
<1>1. /\ ballots[b] = NoBallot
      /\ requests < MaxRequests /\ requests' = requests + 1
      /\ vote.kind # "none" /\ vote.opinion[u] = "pending"
      /\ ballots' = [ballots EXCEPT ![b] = [op |-> "vote", vote |-> v, user |-> u, row |-> row]]
      /\ IF copy.result
         THEN tasks' = tasks \cup {TaskOf(copy)} /\ lost' = lost \ {TaskOf(copy)}
         ELSE UNCHANGED <<tasks, lost>>
      /\ voices' = IF opinion = "agree" THEN [voices EXCEPT ![v] = @ \cup {u}] ELSE voices
      /\ raced' = IF \E c \in Ballots : On(c, v) THEN raced \cup {v} ELSE raced
      /\ UNCHANGED <<rooms, announced, votes, crowded>>
    BY DEF BeginVote, Begin
<1>2. vote \in Vote
    BY <1>1 DEF BallotsTypeOK, TypeOK, NoVote
<1>3. /\ copy \in Vote
      /\ copy.opinion = [vote.opinion EXCEPT ![u] = opinion]
      /\ TaskOf(copy) = TaskOf(vote)
      /\ copy.finished <=> Refused(with) \/ Passed(with)
      /\ copy.result <=> Passed(with)
    <2>1. copy \in Vote
        BY <1>2, SubmitType
    <2>2. IsSubmitted(vote, u, opinion, copy)
        BY <1>2, SubmitIs
    <2> QED BY <2>1, <2>2 DEF IsSubmitted
<1>4. /\ row \in Columns /\ row.opinion[u] = opinion
      /\ row.finished <=> copy.finished
    <2>1. copy.opinion[u] = opinion
        BY <1>2, <1>3 DEF Vote, VoteRow
    <2> QED BY <1>3, <2>1, ChangedIs
<1>5. /\ ballots'[b] = [op |-> "vote", vote |-> v, user |-> u, row |-> row]
      /\ \A c \in Ballots \ {b} : ballots'[c] = ballots[c]
    BY <1>1 DEF BallotsTypeOK
<1>6. /\ voices' \in [Votes -> SUBSET Users]
      /\ \A w \in Votes : voices[w] \subseteq voices'[w]
      /\ opinion = "agree" => u \in voices'[v]
    BY <1>1 DEF BallotsTypeOK
<1>7. BallotsTypeOK'
    <2>1. TypeOK'
        BY <1>1, <1>2, <1>3, TaskOfType DEF BallotsTypeOK, TypeOK
    <2>2. [op |-> "vote", vote |-> v, user |-> u, row |-> row] \in Ballot
        BY <1>4 DEF Ballot
    <2>3. requests' \in 0..MaxRequests /\ raced' \subseteq Votes
        BY <1>1, BoundAssumption DEF BallotsTypeOK
    <2> QED BY <1>1, <1>6, <2>1, <2>2, <2>3 DEF BallotsTypeOK
<1>8. VoicesInv'
    <2>1. CastInv'
        <3> SUFFICES ASSUME NEW c \in Ballots
                     PROVE  /\ ballots'[c].op = "create" => Unanswered(ballots'[c].row)
                            /\ ballots'[c].op = "vote" =>
                                 LET w == ballots'[c].vote
                                     x == ballots'[c].user
                                 IN  /\ votes'[w].kind # "none" => votes'[w].opinion[x] # "none"
                                     /\ ballots'[c].row.opinion[x] \in {"agree", "disagree"}
                                     /\ ballots'[c].row.opinion[x] = "agree" => x \in voices'[w]
            BY DEF CastInv, Unanswered
        <3>1. CASE c = b
            BY <1>1, <1>4, <1>5, <1>6, <3>1
        <3>2. CASE c # b
            <4>1. ballots[c].op = "vote" => ballots[c].vote \in Votes
                BY BallotTypes
            <4> QED BY <1>1, <1>5, <1>6, <3>2, <4>1 DEF BallotsInv, VoicesInv, CastInv
        <3> QED BY <3>1, <3>2
    <2>2. HeardInv'
        BY <1>1, <1>6 DEF BallotsInv, VoicesInv, HeardInv
    <2>3. StartedCallsHaveEveryVoice'
        <3>1. ASSUME NEW t \in tasks, Exists(rooms[t.room])
              PROVE  \E w \in Votes : TaskOf(votes'[w]) = t /\ Voters(votes'[w]) \subseteq voices'[w]
            <4>1. PICK w \in Votes : TaskOf(votes[w]) = t /\ Voters(votes[w]) \subseteq voices[w]
                BY <3>1 DEF BallotsInv, VoicesInv, StartedCallsHaveEveryVoice
            <4> QED BY <1>1, <1>6, <4>1
        <3>2. ASSUME copy.result PROVE Voters(vote) \subseteq voices'[v]
            <4>1. with.opinion = [vote.opinion EXCEPT ![u] = opinion]
                  /\ vote.opinion \in [Users -> Opinions]
                BY <1>2 DEF Answered, Vote, VoteRow
            <4>2. \A w \in Users : with.opinion[w] # "none" => with.opinion[w] = "agree"
                BY <1>3, <3>2 DEF Passed, Voters
            <4>3. opinion = "agree"
                BY <4>1, <4>2
            <4>4. \A w \in Users \ {u} : vote.opinion[w] # "none" => vote.opinion[w] = "agree"
                BY <4>1, <4>2
            <4> QED BY <1>6, <4>3, <4>4 DEF Voters, BallotsInv, VoicesInv, HeardInv
        <3> QED BY <1>1, <1>3, <3>1, <3>2 DEF StartedCallsHaveEveryVoice
    <2> QED BY <2>1, <2>2, <2>3 DEF VoicesInv
<1>9. AloneInv'
    <2> SUFFICES ASSUME NEW w \in Votes \ raced'
                 PROVE  /\ \A c, d \in Ballots : On(c, w)' /\ On(d, w)' => c = d
                        /\ \A c \in Ballots : On(c, w)' =>
                             LET x == ballots'[c].user
                                 after == [votes'[w] EXCEPT
                                             !.opinion[x] = ballots'[c].row.opinion[x]]
                             IN  votes'[w].kind # "none" /\ (Refused(after) \/ Passed(after))
                                   => ballots'[c].row.finished
        BY DEF AloneInv, On, Refused, Passed
    <2>1. w \notin raced /\ \A c \in Ballots \ {b} : On(c, w)' <=> On(c, w)
        BY <1>1, <1>5 DEF On
    <2>2. CASE w = v
        <3>1. \A c \in Ballots : ~On(c, v)
            BY <1>1, <2>2
        <3>2. \A c \in Ballots : On(c, w)' => c = b
            BY <2>1, <2>2, <3>1
        <3>3. [votes'[w] EXCEPT !.opinion[u] = row.opinion[u]] = with
            BY <1>1, <1>4, <2>2 DEF Answered
        <3> QED BY <1>3, <1>4, <1>5, <3>2, <3>3
    <2>3. CASE w # v
        <3>1. \A c \in Ballots : On(c, w)' => c # b /\ On(c, w) /\ ballots'[c] = ballots[c]
            BY <1>5, <2>1, <2>3 DEF On
        <3> QED BY <1>1, <2>1, <3>1 DEF BallotsInv, AloneInv
    <2> QED BY <2>2, <2>3
<1>10. AnsweredVotesAreFinished'
    BY <1>1 DEF BallotsInv, AnsweredVotesAreFinished
<1>11. SoleInv'
    <2>1. \A c \in Ballots, q \in Rooms : About(c, q)' => About(c, q)
        BY <1>5 DEF About
    <2> QED BY <1>1, <2>1 DEF BallotsInv, SoleInv, OpenVotes
<1> QED BY <1>7, <1>8, <1>9, <1>10, <1>11 DEF BallotsInv

LEMMA CommitVoteKeeps ==
    ASSUME BallotsTypeOK, BallotsInv, NEW b \in Ballots, CommitVote(b)
    PROVE  BallotsTypeOK' /\ BallotsInv'
<1> PICK v, u, row : v = ballots[b].vote /\ u = ballots[b].user /\ row = ballots[b].row
    OBVIOUS
<1> PICK held : held = votes[v]
    OBVIOUS
<1> PICK saved : saved = Saved(held, row, u)
    OBVIOUS
<1>1. v \in Votes /\ u \in Users /\ row \in Columns /\ ballots[b].op = "vote" /\ On(b, v)
    BY BallotTypes DEF CommitVote, On
<1> SUFFICES ASSUME held.kind # "none" PROVE BallotsTypeOK' /\ BallotsInv'
    <2>1. ASSUME held.kind = "none" PROVE BallotsTypeOK' /\ BallotsInv'
        <3>1. votes' = votes /\ ballots' = [ballots EXCEPT ![b] = NoBallot]
              /\ UNCHANGED <<rooms, announced, tasks, voices, raced, crowded, requests, lost>>
            BY <2>1 DEF CommitVote
        <3>2. BallotsOnlyEnd
            BY <3>1 DEF BallotsTypeOK, BallotsOnlyEnd
        <3>3. BallotsTypeOK'
            BY <3>1 DEF BallotsTypeOK, TypeOK
        <3> QED BY <3>1, <3>2, <3>3, StillQuiet, QuietStep
    <2> QED BY <2>1
<1>2. /\ held.opinion[u] # "none"
      /\ row.opinion[u] \in {"agree", "disagree"}
      /\ row.opinion[u] = "agree" => u \in voices[v]
    BY <1>1 DEF BallotsInv, VoicesInv, CastInv
<1>3. /\ votes' = [votes EXCEPT ![v] = saved]
      /\ ballots' = [ballots EXCEPT ![b] = NoBallot]
      /\ UNCHANGED <<rooms, announced, tasks, voices, raced, crowded, requests, lost>>
    BY DEF CommitVote
<1>4. held \in Vote
    BY <1>1, <1>2 DEF BallotsTypeOK, TypeOK, NoVote
<1>5. /\ saved \in Vote
      /\ saved.opinion = [held.opinion EXCEPT ![u] = row.opinion[u]]
      /\ TaskOf(saved) = TaskOf(held) /\ saved.kind = held.kind /\ saved.room = held.room
      /\ saved.finished <=> held.finished \/ row.finished
    <2>1. IsSaved(held, row, u, saved)
        BY <1>1, <1>4, SavedIs
    <2> QED BY <2>1 DEF IsSaved
<1>6. held.opinion \in [Users -> Opinions]
    BY <1>4 DEF Vote, VoteRow
<1>7. Voters(saved) = Voters(held)
    BY <1>1, <1>2, <1>5, <1>6 DEF Voters
<1>8. /\ votes'[v] = saved /\ \A w \in Votes \ {v} : votes'[w] = votes[w]
      /\ ballots'[b] = NoBallot /\ \A c \in Ballots \ {b} : ballots'[c] = ballots[c]
    BY <1>1, <1>3 DEF BallotsTypeOK, TypeOK
<1>9. \A c \in Ballots : ballots'[c].op # "none" => ballots'[c] = ballots[c] /\ c # b
    BY <1>8 DEF NoBallot
<1>10. BallotsTypeOK'
    BY <1>1, <1>3, <1>5 DEF BallotsTypeOK, TypeOK
<1>11. VoicesInv'
    <2>1. CastInv'
        <3> SUFFICES ASSUME NEW c \in Ballots, ballots'[c].op # "none"
                     PROVE  /\ ballots'[c].op = "create" => Unanswered(ballots'[c].row)
                            /\ ballots'[c].op = "vote" =>
                                 LET w == ballots'[c].vote
                                     x == ballots'[c].user
                                 IN  /\ votes'[w].kind # "none" => votes'[w].opinion[x] # "none"
                                     /\ ballots'[c].row.opinion[x] \in {"agree", "disagree"}
                                     /\ ballots'[c].row.opinion[x] = "agree" => x \in voices'[w]
            BY DEF CastInv, Unanswered
        <3>1. ballots'[c] = ballots[c]
            BY <1>9
        <3>2. ASSUME ballots[c].op = "vote"
              PROVE  LET w == ballots[c].vote
                         x == ballots[c].user
                     IN  votes'[w].kind # "none" => votes'[w].opinion[x] # "none"
            <4> PICK w, x : w = ballots[c].vote /\ x = ballots[c].user
                OBVIOUS
            <4>1. /\ w \in Votes /\ x \in Users
                  /\ votes[w].kind # "none" => votes[w].opinion[x] # "none"
                BY <3>2, BallotTypes DEF BallotsInv, VoicesInv, CastInv
            <4>2. CASE w = v
                BY <1>2, <1>5, <1>6, <1>8, <4>1, <4>2
            <4>3. CASE w # v
                BY <1>8, <4>1, <4>3
            <4> QED BY <4>2, <4>3
        <3> QED BY <1>3, <3>1, <3>2 DEF BallotsInv, VoicesInv, CastInv
    <2>2. HeardInv'
        <3> SUFFICES ASSUME NEW w \in Votes, NEW x \in Users, votes'[w].opinion[x] = "agree"
                     PROVE  x \in voices[w]
            BY <1>3 DEF HeardInv
        <3>1. CASE w = v /\ x = u
            BY <1>2, <1>5, <1>6, <1>8, <3>1
        <3>2. CASE ~(w = v /\ x = u)
            BY <1>5, <1>6, <1>8, <3>2 DEF BallotsInv, VoicesInv, HeardInv
        <3> QED BY <3>1, <3>2
    <2>3. StartedCallsHaveEveryVoice'
        <3> SUFFICES ASSUME NEW t \in tasks, Exists(rooms[t.room])
                     PROVE  \E w \in Votes : /\ TaskOf(votes'[w]) = t
                                             /\ Voters(votes'[w]) \subseteq voices'[w]
            BY <1>3 DEF StartedCallsHaveEveryVoice
        <3>1. PICK w \in Votes : TaskOf(votes[w]) = t /\ Voters(votes[w]) \subseteq voices[w]
            BY DEF BallotsInv, VoicesInv, StartedCallsHaveEveryVoice
        <3> QED BY <1>3, <1>5, <1>7, <1>8, <3>1
    <2> QED BY <2>1, <2>2, <2>3 DEF VoicesInv
<1>12. AloneInv'
    <2>1. \A c \in Ballots, w \in Votes \ raced :
            On(c, w)' => On(c, w) /\ w # v /\ ballots'[c] = ballots[c]
        BY <1>1, <1>9 DEF On, BallotsInv, AloneInv
    <2> QED BY <1>3, <1>8, <2>1 DEF BallotsInv, AloneInv
<1>13. AnsweredVotesAreFinished'
    <2> SUFFICES ASSUME NEW w \in Votes \ raced, votes'[w].kind # "none",
                        \A x \in Voters(votes'[w]) : votes'[w].opinion[x] # "pending",
                        Voters(votes'[w]) # {}
                 PROVE  votes'[w].finished
        BY <1>3 DEF AnsweredVotesAreFinished, Voters
    <2>1. CASE w = v
        <3> PICK with : with = [held EXCEPT !.opinion[u] = row.opinion[u]]
            OBVIOUS
        <3>1. with.opinion = saved.opinion
            BY <1>4, <1>5 DEF Vote, VoteRow
        <3>2. \A x \in Voters(with) : with.opinion[x] \in {"agree", "disagree"}
            <4>1. \A x \in Users : saved.opinion[x] \in Opinions
                BY <1>5 DEF Vote, VoteRow
            <4> QED BY <1>8, <2>1, <3>1, <4>1 DEF Voters, Opinions
        <3>3. Refused(with) \/ Passed(with)
            BY <3>2 DEF Refused, Passed
        <3>4. row.finished
            BY <1>1, <2>1, <3>3 DEF BallotsInv, AloneInv
        <3> QED BY <1>5, <1>8, <2>1, <3>4
    <2>2. CASE w # v
        BY <1>8, <2>2 DEF BallotsInv, AnsweredVotesAreFinished
    <2> QED BY <2>1, <2>2
<1>14. SoleInv'
    <2>1. \A c \in Ballots, q \in Rooms : About(c, q)' => About(c, q)
        BY <1>9 DEF About
    <2>2. \A q \in Rooms : OpenVotes(q)' \subseteq OpenVotes(q)
        BY <1>5, <1>8 DEF OpenVotes
    <2> QED BY <1>3, <2>1, <2>2 DEF BallotsInv, SoleInv
<1> QED BY <1>10, <1>11, <1>12, <1>13, <1>14 DEF BallotsInv

\* The calls that run beside ballots bring no room back.
LEMMA SaveKeepsRooms ==
    ASSUME TypeOK, NEW r \in Rooms, NEW rm, Save(r, rm), Exists(rm) => Exists(rooms[r])
    PROVE  NoRoomComesBack
BY DEF Save, TypeOK, NoRoomComesBack

LEMMA OrderKeepsRooms ==
    ASSUME TypeOK, OrderStep
    PROVE  NoRoomComesBack
<1>1. PICK r \in Rooms, u \in Users :
        \/ FixOrderOf(u, r)
        \/ UploadOrderImages(u, r)
        \/ \E amount \in Tips : CheckOrderOf(u, r, amount)
        \/ DoneOrderOf(u, r)
    BY DEF OrderStep
<1>2. Exists(UploadScreenShot(rooms[r])) => Exists(rooms[r])
    BY DEF UploadScreenShot, Exists, TypeOK, Room
<1>3. PICK rm : Save(r, rm) /\ (Exists(rm) => Exists(rooms[r]))
    BY <1>1, <1>2 DEF FixOrderOf, UploadOrderImages, CheckOrderOf, DoneOrderOf,
                      CheckOrderAllowed, CanTransitionTo
<1> QED BY <1>3, SaveKeepsRooms

LEMMA LeaveKeeps ==
    ASSUME BallotsTypeOK, BallotsInv, NEW r \in Rooms, NEW u \in Users,
           LeaveRoom(u, r), UNCHANGED ballotVars
    PROVE  BallotsTypeOK' /\ BallotsInv'
<1>1. TypeOK'
    BY LeaveRoomType DEF BallotsTypeOK
<1>2. tasks' = tasks /\ Exists(rooms[r])
    BY DEF LeaveRoom, LeaveAllowed, Exists, Open, Closed
<1>3. PICK rm : Save(r, rm)
    BY SavesAre DEF LeaveRoom
<1>4. NoRoomComesBack
    BY <1>2, <1>3, SaveKeepsRooms DEF BallotsTypeOK
<1>5. /\ voices' = voices /\ raced' = raced /\ crowded' = crowded
      /\ BallotsOnlyEnd
    BY DEF ballotVars, BallotsOnlyEnd
<1>6. BallotsTypeOK'
    BY <1>1 DEF ballotVars, BallotsTypeOK
<1>7. VotesGoWithRooms
    <2>1. CASE votes' = votes
        BY <2>1 DEF VotesGoWithRooms
    <2>2. CASE Remove(r)
        <3>1. ~Exists(rooms'[r])
            BY <2>2 DEF Remove, Save, Exists, NoRoom, BallotsTypeOK, TypeOK
        <3>2. \A v \in Votes : votes'[v] = IF votes[v].room = r THEN NoVote ELSE votes[v]
            BY <2>2 DEF Remove
        <3> QED BY <3>1, <3>2 DEF VotesGoWithRooms
    <2> QED BY <2>1, <2>2 DEF LeaveRoom
<1> QED BY <1>2, <1>4, <1>5, <1>6, <1>7, QuietStep

LEMMA TaskKeeps ==
    ASSUME BallotsTypeOK, BallotsInv, NEW t \in tasks, SettleTask(t) \/ LoseTask(t)
    PROVE  BallotsTypeOK' /\ BallotsInv'
<1>1. t \in Task /\ t.room \in Rooms
    BY DEF BallotsTypeOK, TypeOK, Task
<1>2. /\ RunKick(t) \/ RunReset(t) \/ FailTask(t)
      /\ UNCHANGED <<ballots, voices, raced, crowded, requests>>
      /\ lost' \in {lost, lost \cup {t}}
    BY DEF SettleTask, LoseTask, ballotVars
<1>3. TypeOK'
    BY <1>2, TaskStepType DEF BallotsTypeOK, TaskStep, RunTask
<1>4. BallotsTypeOK'
    BY <1>1, <1>2, <1>3 DEF BallotsTypeOK
<1>5. votes' = votes /\ tasks' \subseteq tasks
    BY <1>2 DEF RunKick, RunReset, FailTask
<1>6. NoRoomComesBack
    <2>1. CASE FailTask(t)
        BY <2>1 DEF FailTask, NoRoomComesBack
    <2>2. CASE RunKick(t) \/ RunReset(t)
        <3>1. Exists(rooms[t.room])
            BY <2>2 DEF RunKick, RunReset, KickAllowed
        <3>2. PICK rm : Save(t.room, rm)
            BY <2>2, SavesAre DEF RunKick, RunReset
        <3> QED BY <1>1, <3>1, <3>2, SaveKeepsRooms DEF BallotsTypeOK
    <2> QED BY <1>2, <2>1, <2>2
<1>7. BallotsOnlyEnd /\ VotesGoWithRooms
    BY <1>2, <1>5 DEF BallotsOnlyEnd, VotesGoWithRooms
<1> QED BY <1>2, <1>4, <1>5, <1>6, <1>7, QuietStep

LEMMA BallotsInvStep == BallotsTypeOK /\ BallotsInv /\ [VoteNext]_voteVars
                            => BallotsTypeOK' /\ BallotsInv'
<1> SUFFICES ASSUME BallotsTypeOK, BallotsInv, [VoteNext]_voteVars
             PROVE  BallotsTypeOK' /\ BallotsInv'
    OBVIOUS
<1>1. ASSUME NEW b \in Ballots, NEW u \in Users, NEW r \in Rooms, NEW target \in Users,
             BeginKickVote(b, u, target, r)
      PROVE  BallotsTypeOK' /\ BallotsInv'
    <2>1. BeginCreate(b, u, r, NewVote("KICK", r, target, {u, target}))
        BY <1>1 DEF BeginKickVote
    <2> QED BY <2>1, NewVoteType, NewVoteIs, BeginCreateKeeps
<1>2. ASSUME NEW b \in Ballots, NEW u \in Users, NEW r \in Rooms, BeginResetVote(b, u, r)
      PROVE  BallotsTypeOK' /\ BallotsInv'
    <2>1. BeginCreate(b, u, r, NewVote("RESET", r, None, {u}))
        BY <1>2 DEF BeginResetVote
    <2> QED BY <2>1, NewVoteType, NewVoteIs, BeginCreateKeeps
<1>3. ASSUME NEW b \in Ballots, Abort(b)
      PROVE  BallotsTypeOK' /\ BallotsInv'
    <2>1. /\ UNCHANGED <<rooms, announced, votes, tasks, voices, raced, crowded, requests, lost>>
          /\ BallotsOnlyEnd
        BY <1>3 DEF Abort, BallotsTypeOK, BallotsOnlyEnd, vars
    <2>2. BallotsTypeOK'
        BY <1>3, <2>1 DEF Abort, BallotsTypeOK, TypeOK
    <2> QED BY <2>1, <2>2, StillQuiet, QuietStep
<1>4. CASE Crash
    <2>1. /\ UNCHANGED <<rooms, announced, votes, voices, raced, crowded, requests>>
          /\ tasks' \subseteq tasks /\ BallotsOnlyEnd
        BY <1>4 DEF Crash, BallotsOnlyEnd
    <2>2. BallotsTypeOK'
        BY <1>4 DEF Crash, BallotsTypeOK, TypeOK
    <2> QED BY <2>1, <2>2, StillQuiet, QuietStep
<1>5. CASE Beside(OrderStep)
    <2>1. OrderStep /\ UNCHANGED ballotVars
        BY <1>5 DEF Beside
    <2>2. TypeOK'
        BY <2>1, OrderStepType DEF BallotsTypeOK
    <2>3. votes' = votes /\ tasks' = tasks
        BY <2>1 DEF OrderStep, FixOrderOf, UploadOrderImages, CheckOrderOf, DoneOrderOf
    <2>4. NoRoomComesBack
        BY <2>1, OrderKeepsRooms DEF BallotsTypeOK
    <2>5. /\ voices' = voices /\ raced' = raced /\ crowded' = crowded
          /\ BallotsOnlyEnd /\ VotesGoWithRooms
        BY <2>1, <2>3 DEF ballotVars, BallotsOnlyEnd, VotesGoWithRooms
    <2>6. BallotsTypeOK'
        BY <2>1, <2>2 DEF ballotVars, BallotsTypeOK
    <2> QED BY <2>3, <2>4, <2>5, <2>6, QuietStep
<1>6. CASE Beside(LeaveStep)
    BY <1>6, LeaveKeeps DEF Beside, LeaveStep
<1>7. ASSUME NEW t \in tasks, SettleTask(t) \/ LoseTask(t)
      PROVE  BallotsTypeOK' /\ BallotsInv'
    BY <1>7, TaskKeeps
<1>8. CASE UNCHANGED voteVars
    <2>1. /\ UNCHANGED <<rooms, announced, votes, tasks>>
          /\ UNCHANGED <<ballots, voices, raced, crowded, requests, lost>>
        BY <1>8 DEF voteVars, ballotVars, vars
    <2>2. BallotsTypeOK' /\ BallotsOnlyEnd
        BY <2>1 DEF BallotsTypeOK, TypeOK, BallotsOnlyEnd
    <2> QED BY <2>1, <2>2, StillQuiet, QuietStep
<1> QED BY <1>1, <1>2, <1>3, <1>4, <1>5, <1>6, <1>7, <1>8, CommitCreateKeeps,
           BeginVoteKeeps, CommitVoteKeeps DEF VoteNext

LEMMA BallotsInvAlways == VoteSpec => [](BallotsTypeOK /\ BallotsInv)
BY BallotsInvInit, BallotsInvStep, PTL DEF VoteSpec

-----------------------------------------------------------------------------
(* Theorems                                                                *)

\* What ballots leave in the tables are votes, and they start kicks and resets of
\* rooms that there are.
THEOREM BallotsTypeCorrect == VoteSpec => []BallotsTypeOK
BY BallotsInvAlways, PTL

\* Nobody is kicked and no order is canceled against a voice.
THEOREM StartedCallsAlwaysHaveEveryVoice == VoteSpec => []StartedCallsHaveEveryVoice
<1>1. BallotsInv => StartedCallsHaveEveryVoice
    BY DEF BallotsInv, VoicesInv
<1> QED BY <1>1, BallotsInvAlways, PTL

\* A vote everybody has answered is finished, unless two of its ballots overlapped.
THEOREM AnsweredVotesAlwaysFinished == VoteSpec => []AnsweredVotesAreFinished
<1>1. BallotsInv => AnsweredVotesAreFinished
    BY DEF BallotsInv
<1> QED BY <1>1, BallotsInvAlways, PTL

\* A room has one vote under way, unless two were being created at the same time.
THEOREM AlwaysOneOpenVoteUnlessCrowded == VoteSpec => []OneOpenVoteUnlessCrowded
<1>1. ASSUME NEW S, \A x, y \in S : x = y
      PROVE  Cardinality(S) <= 1
    <2>1. CASE S = {}
        BY <2>1, FS_EmptySet
    <2>2. CASE S # {}
        <3>1. PICK x \in S : S = {x}
            BY <1>1, <2>2
        <3> QED BY <3>1, FS_Singleton
    <2> QED BY <2>1, <2>2
<1>2. BallotsInv => OneOpenVoteUnlessCrowded
    BY <1>1 DEF BallotsInv, SoleInv, OneOpenVoteUnlessCrowded
<1> QED BY <1>2, BallotsInvAlways, PTL
=============================================================================
