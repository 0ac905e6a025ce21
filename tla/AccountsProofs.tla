--------------------------- MODULE AccountsProofs ----------------------------
(***************************************************************************)
(* Theorems about Accounts for any sessions, users, requests and limit.    *)
(***************************************************************************)
EXTENDS Accounts, TLAPS

Verifies(q) == requests[q].op \in {"rightCode", "wrongCode"}

\* A request is about a session that is there, and has passed preValidate on it.
RequestsAreValidated ==
    \A q \in Requests : requests[q] # NoRequest =>
        /\ sessions[requests[q].session] \in Session
        /\ Verifies(q) => /\ requests[q].read.state = "verify_code_sent"
                          /\ requests[q].read.tries <= TrialLimit
        /\ requests[q].op = "submit" => requests[q].read.state = "verified"

\* The trial that goes over the limit locks the session at once.
OpenSessionsHaveTrials ==
    \A s \in Sessions :
        sessions[s].state = "verify_code_sent" => sessions[s].tries <= TrialLimit

TypeInv == TypeOK /\ RequestsAreValidated /\ OpenSessionsHaveTrials

-----------------------------------------------------------------------------
(* Type correctness                                                        *)

LEMMA NoSessionIsNone ==
    /\ NoSession \notin Session
    /\ NoRequest \notin Request
    /\ \A s \in Sessions : s # NoRequest.session
BY AccountsAssumption DEF NoSession, Session, SessionStates, NoRequest, Request, Ops

LEMMA TryType ==
    ASSUME NEW session \in Session, session.tries <= TrialLimit, NEW right \in BOOLEAN
    PROVE  /\ Try(session, right) \in Session
           /\ Try(session, right).tries = session.tries + 1
           /\ session.tries + 1 > TrialLimit => Try(session, right).state = "trial_over"
           /\ session.tries + 1 <= TrialLimit =>
                Try(session, right).state = IF right THEN "verified" ELSE session.state
<1> DEFINE state == IF session.tries + 1 > TrialLimit THEN "trial_over"
                    ELSE IF right THEN "verified" ELSE session.state
           expired == IF right THEN FALSE ELSE session.expired
<1>1. /\ session.tries \in Nat /\ session.tries + 1 \in 0 .. TrialLimit + 1
      /\ session.state \in SessionStates /\ session.expired \in BOOLEAN
    BY AccountsAssumption DEF Session
<1>2. /\ session.tries + 1 > TrialLimit => state = "trial_over"
      /\ session.tries + 1 <= TrialLimit =>
            state = IF right THEN "verified" ELSE session.state
    BY <1>1, AccountsAssumption
<1>3. state \in SessionStates /\ expired \in BOOLEAN
    BY <1>1, <1>2, AccountsAssumption DEF SessionStates
<1>4. Try(session, right) = [session EXCEPT !.tries = session.tries + 1,
                                            !.expired = expired,
                                            !.state = state]
    BY DEF Try
<1> HIDE DEF state, expired
<1>5. /\ Try(session, right) \in Session
      /\ Try(session, right).tries = session.tries + 1
      /\ Try(session, right).state = state
    BY <1>1, <1>3, <1>4 DEF Session
<1> QED BY <1>2, <1>5

\* A request that begins is about a session preValidate has let through.
LEMMA BeginType ==
    ASSUME TypeInv, NEW q \in Requests, NEW s \in Sessions, NEW op \in Ops,
           NEW required, sessions[s].state = required, sessions[s] # NoSession,
           op = "submit" => required = "verified",
           op # "submit" => required = "verify_code_sent",
           Begin(q, op, s)
    PROVE  TypeInv'
<1> DEFINE new == [op      |-> op,
                   session |-> s,
                   read    |-> sessions[s],
                   hasRow  |-> op = "submit" /\ oauth[sessions[s].oauthId] # None]
<1>1. sessions[s] \in Session
    BY DEF TypeInv, TypeOK
<1>2. new \in Request
    BY <1>1 DEF Request
<1>3. requests' = [requests EXCEPT ![q] = new]
    BY DEF Begin
<1>4. new.op = op /\ new.session = s /\ new.read = sessions[s]
    OBVIOUS
<1> HIDE DEF new
<1>5. TypeOK'
    BY <1>2, <1>3 DEF Begin, TypeInv, TypeOK
<1>6. RequestsAreValidated'
    <2> SUFFICES ASSUME NEW p \in Requests, requests'[p] # NoRequest
                 PROVE  /\ sessions[requests'[p].session] \in Session
                        /\ Verifies(p)' =>
                              /\ requests'[p].read.state = "verify_code_sent"
                              /\ requests'[p].read.tries <= TrialLimit
                        /\ requests'[p].op = "submit" =>
                              requests'[p].read.state = "verified"
        BY DEF RequestsAreValidated, Begin
    <2>1. CASE p = q
        <3>1. requests'[p] = new
            BY <1>3, <2>1 DEF TypeInv, TypeOK
        <3>2. op # "submit" => sessions[s].tries <= TrialLimit
            BY DEF TypeInv, OpenSessionsHaveTrials
        <3> QED BY <1>1, <1>4, <3>1, <3>2 DEF Ops, Verifies
    <2>2. CASE p # q
        BY <1>3, <2>2 DEF TypeInv, TypeOK, RequestsAreValidated, Verifies
    <2> QED BY <2>1, <2>2
<1>7. OpenSessionsHaveTrials'
    BY DEF TypeInv, OpenSessionsHaveTrials, Begin
<1> QED BY <1>5, <1>6, <1>7 DEF TypeInv

\* Changing one session that is there, with no new request.
LEMMA SessionStepType ==
    ASSUME TypeInv, NEW s \in Sessions, NEW new \in Session,
           new.state = "verify_code_sent" => new.tries <= TrialLimit,
           sessions' = [sessions EXCEPT ![s] = new],
           \A q \in Requests : requests'[q] \in {requests[q], NoRequest},
           TypeOK'
    PROVE  TypeInv'
<1>1. /\ sessions'[s] = new
      /\ \A t \in Sessions \ {s} : sessions'[t] = sessions[t]
    BY DEF TypeInv, TypeOK
<1>2. OpenSessionsHaveTrials'
    BY <1>1 DEF TypeInv, OpenSessionsHaveTrials
<1>3. ASSUME NEW q \in Requests, requests'[q] # NoRequest
      PROVE  /\ requests'[q] = requests[q] /\ requests[q] # NoRequest
             /\ requests[q].session \in Sessions
             /\ sessions'[requests[q].session] \in Session
    <2>1. requests'[q] = requests[q] /\ requests[q] # NoRequest
        BY <1>3
    <2>2. requests[q] \in Request
        BY <2>1 DEF TypeInv, TypeOK
    <2>3. sessions[requests[q].session] \in Session
        BY <2>1 DEF TypeInv, RequestsAreValidated
    <2> QED BY <1>1, <2>1, <2>2, <2>3 DEF Request
<1>4. RequestsAreValidated'
    BY <1>3 DEF TypeInv, RequestsAreValidated, Verifies
<1> QED BY <1>2, <1>4 DEF TypeInv

\* The steps that change no session: requests only end.
LEMMA QuietStepType ==
    ASSUME TypeInv, UNCHANGED sessions,
           \A q \in Requests : requests'[q] \in {requests[q], NoRequest},
           TypeOK'
    PROVE  TypeInv'
<1>1. OpenSessionsHaveTrials'
    BY DEF TypeInv, OpenSessionsHaveTrials
<1>2. RequestsAreValidated'
    BY DEF TypeInv, RequestsAreValidated, Verifies
<1> QED BY <1>1, <1>2 DEF TypeInv

LEMMA CommitVerifyType ==
    ASSUME TypeInv, NEW q \in Requests, CommitVerify(q)
    PROVE  TypeInv'
<1> DEFINE s == requests[q].session
           right == requests[q].op = "rightCode"
           tried == Try(requests[q].read, right)
           state == IF tried.state # requests[q].read.state
                    THEN tried.state ELSE sessions[s].state
           expired == IF right THEN FALSE ELSE sessions[s].expired
           new == [sessions[s] EXCEPT !.tries = tried.tries,
                                      !.expired = expired,
                                      !.state = state]
<1>1. Verifies(q) /\ requests[q] \in Request /\ requests[q] # NoRequest
    BY NoSessionIsNone DEF CommitVerify, Verifies, TypeInv, TypeOK, NoRequest
<1>2. /\ s \in Sessions /\ requests[q].read \in Session
      /\ requests[q].read.state = "verify_code_sent"
      /\ requests[q].read.tries <= TrialLimit
      /\ sessions[s] \in Session
    BY <1>1 DEF TypeInv, RequestsAreValidated, Request
<1>3. tried \in Session /\ right \in BOOLEAN
    BY <1>2, TryType
<1>4. state = "verify_code_sent" => tried.tries <= TrialLimit
    <2>1. requests[q].read.tries \in Nat
        BY <1>2 DEF Session
    <2>2. CASE requests[q].read.tries + 1 > TrialLimit
        BY <1>2, <1>3, <2>2, TryType
    <2>3. CASE requests[q].read.tries + 1 <= TrialLimit
        BY <1>2, <1>3, <2>3, TryType
    <2> QED BY <2>1, <2>2, <2>3, AccountsAssumption
<1>5. sessions' = [sessions EXCEPT ![s] = new]
    BY DEF CommitVerify
<1>6. new \in Session /\ new.state = state /\ new.tries = tried.tries
    <2>1. state \in SessionStates /\ expired \in BOOLEAN /\ tried.tries \in 0 .. TrialLimit + 1
        BY <1>2, <1>3 DEF Session
    <2> HIDE DEF state, expired, tried
    <2> QED BY <1>2, <2>1 DEF Session
<1>7. answers' \in [Sessions -> Nat]
    BY <1>2 DEF CommitVerify, TypeInv, TypeOK
<1> HIDE DEF new, state, tried, right, expired
<1>8. /\ requests' = [requests EXCEPT ![q] = NoRequest]
      /\ UNCHANGED <<users, oauth, token, origin, raced>>
    BY DEF CommitVerify, End
<1>9. TypeOK'
    BY <1>2, <1>5, <1>6, <1>7, <1>8 DEF TypeInv, TypeOK
<1> QED BY <1>2, <1>4, <1>5, <1>6, <1>8, <1>9, SessionStepType DEF TypeInv, TypeOK

LEMMA CommitSubmitType ==
    ASSUME TypeInv, NEW q \in Requests, NEW u \in UserIds, CommitSubmit(q, u)
    PROVE  TypeInv'
<1> DEFINE s == requests[q].session
           new == [sessions[s] EXCEPT !.state = "user_info_submitted", !.user = u]
<1>1. requests[q] \in Request /\ requests[q] # NoRequest
    BY NoSessionIsNone DEF CommitSubmit, TypeInv, TypeOK, NoRequest
<1>2. s \in Sessions /\ sessions[s] \in Session /\ requests[q].read \in Session
    BY <1>1 DEF TypeInv, RequestsAreValidated, Request
<1>3. new \in Session /\ new.state = "user_info_submitted"
    BY <1>2 DEF Session, SessionStates
<1>4. sessions' = [sessions EXCEPT ![s] = new]
    BY DEF CommitSubmit
<1> HIDE DEF new
<1>5. oauth' \in [OauthIds -> UserIds \cup {None}]
    BY DEF CommitSubmit, SaveOauth, TypeInv, TypeOK
<1>6. TypeOK'
    BY <1>2, <1>3, <1>4, <1>5 DEF CommitSubmit, End, TypeInv, TypeOK, Lives
<1> QED BY <1>2, <1>3, <1>4, <1>6, SessionStepType
        DEF CommitSubmit, End, TypeInv, TypeOK

LEMMA SignupStepType == TypeInv /\ SignupStep => TypeInv'
<1> SUFFICES ASSUME TypeInv, SignupStep PROVE TypeInv'
    OBVIOUS
<1>1. ASSUME NEW s \in Sessions, NEW e \in Emails, NEW o \in OauthIds,
             CreateEmailAuthSession(s, e, o)
      PROVE  TypeInv'
    <2> DEFINE new == [state |-> "verify_code_sent", email |-> e, oauthId |-> o,
                       tries |-> 0, expired |-> FALSE, fresh |-> TRUE, user |-> None]
    <2>1. 0 \in 0 .. TrialLimit + 1 /\ 0 <= TrialLimit
        BY AccountsAssumption
    <2>2. new \in Session /\ new.tries = 0
        BY <2>1 DEF Session, SessionStates
    <2>3. sessions' = [sessions EXCEPT ![s] = new]
        BY <1>1 DEF CreateEmailAuthSession
    <2> HIDE DEF new
    <2>4. TypeOK'
        BY <1>1, <2>2, <2>3 DEF CreateEmailAuthSession, history, TypeInv, TypeOK
    <2> QED BY <1>1, <2>1, <2>2, <2>3, <2>4, SessionStepType
            DEF CreateEmailAuthSession
<1>2. ASSUME NEW s \in Sessions, SessionExpires(s) \/ DayPasses(s)
      PROVE  TypeInv'
    <2> DEFINE new == IF SessionExpires(s) THEN [sessions[s] EXCEPT !.expired = TRUE]
                                           ELSE [sessions[s] EXCEPT !.fresh = FALSE]
    <2>1. sessions[s] \in Session
        BY <1>2 DEF SessionExpires, DayPasses, NoSession, TypeInv, TypeOK
    <2>2. /\ new \in Session
          /\ new.state = sessions[s].state
          /\ new.tries = sessions[s].tries
        BY <2>1 DEF Session
    <2>3. sessions' = [sessions EXCEPT ![s] = new]
        BY <1>2 DEF SessionExpires, DayPasses
    <2>4. new.state = "verify_code_sent" => new.tries <= TrialLimit
        BY <2>2 DEF TypeInv, OpenSessionsHaveTrials
    <2>5. UNCHANGED <<users, oauth, token, requests, history>>
        BY <1>2 DEF SessionExpires, DayPasses
    <2> HIDE DEF new
    <2>6. TypeOK'
        BY <2>2, <2>3, <2>5 DEF history, TypeInv, TypeOK
    <2> QED BY <2>2, <2>3, <2>4, <2>5, <2>6, SessionStepType
<1>3. ASSUME NEW q \in Requests, NEW s \in Sessions, NEW right \in BOOLEAN,
             BeginVerify(q, s, right)
      PROVE  TypeInv'
    <2>1. (IF right THEN "rightCode" ELSE "wrongCode") \in Ops \ {"submit"}
        BY DEF Ops
    <2> QED BY <1>3, <2>1, BeginType DEF BeginVerify, PreValidate
<1>4. ASSUME NEW q \in Requests, NEW s \in Sessions, BeginSubmit(q, s)
      PROVE  TypeInv'
    BY <1>4, BeginType DEF BeginSubmit, PreValidate, Ops
<1>5. ASSUME NEW q \in Requests, Rollback(q) PROVE TypeInv'
    <2>1. TypeOK'
        BY <1>5 DEF Rollback, End, history, TypeInv, TypeOK
    <2> QED BY <1>5, <2>1, QuietStepType DEF Rollback, End, TypeInv, TypeOK
<1> QED BY <1>1, <1>2, <1>3, <1>4, <1>5, CommitVerifyType, CommitSubmitType
        DEF SignupStep

LEMMA UserStepType == TypeInv /\ UserStep => TypeInv'
<1> SUFFICES ASSUME TypeInv, UserStep PROVE TypeInv'
    OBVIOUS
<1>1. TypeOK'
    BY DEF UserStep, LoadUser, DeleteOauth, SaveDeleted, StopDeletion, RefreshToken,
           Login, TokenExpires, history, TypeInv, TypeOK, Lives
<1>2. UNCHANGED <<sessions, requests>>
    BY DEF UserStep, LoadUser, DeleteOauth, SaveDeleted, StopDeletion, RefreshToken,
           Login, TokenExpires
<1> QED BY <1>1, <1>2, QuietStepType

LEMMA TypeStep == TypeInv /\ [Next]_vars => TypeInv'
<1>1. ASSUME TypeInv, UNCHANGED vars PROVE TypeInv'
    BY <1>1, QuietStepType DEF vars, TypeInv, TypeOK
<1> QED BY <1>1, SignupStepType, UserStepType DEF Next

LEMMA TypeInvAlways == Spec => []TypeInv
<1>1. Init => TypeInv
    BY NoSessionIsNone
    DEF Init, TypeInv, TypeOK, RequestsAreValidated, OpenSessionsHaveTrials,
        NoSession, Lives
<1> QED BY <1>1, TypeStep, PTL DEF Spec

\* Every table keeps its types; in particular, a session never counts more than one
\* trial over the limit, however many requests about it overlap.
THEOREM TypeCorrect == Spec => []TypeOK
<1>1. TypeInv => TypeOK
    BY DEF TypeInv
<1> QED BY <1>1, TypeInvAlways, PTL

-----------------------------------------------------------------------------
(* Logging in                                                              *)

\* An OAuth row leads to a user whose deletion has not come past the OAuth rows.
RowsLeadToLinkedUsers ==
    \A o \in OauthIds : oauth[o] # None => users[oauth[o]] \in {"live", "loaded"}

LEMMA LoginStep ==
    TypeOK /\ RowsLeadToLinkedUsers /\ [Next]_vars => RowsLeadToLinkedUsers'
<1> SUFFICES ASSUME TypeOK, RowsLeadToLinkedUsers, [Next]_vars
             PROVE  RowsLeadToLinkedUsers'
    OBVIOUS
<1>1. ASSUME UNCHANGED <<users, oauth>> PROVE RowsLeadToLinkedUsers'
    BY <1>1 DEF RowsLeadToLinkedUsers
<1>2. ASSUME NEW q \in Requests, NEW u \in UserIds, CommitSubmit(q, u)
      PROVE  RowsLeadToLinkedUsers'
    <2>1. users' = [users EXCEPT ![u] = "live"]
        BY <1>2 DEF CommitSubmit
    <2>2. \A o \in OauthIds : oauth'[o] \in {oauth[o], u, None}
        BY <1>2 DEF CommitSubmit, SaveOauth, TypeOK
    <2>3. \A o \in OauthIds : oauth[o] # None => oauth[o] \in UserIds
        BY DEF TypeOK
    <2> QED BY <2>1, <2>2, <2>3 DEF RowsLeadToLinkedUsers, TypeOK
<1>3. ASSUME NEW u \in UserIds, LoadUser(u) PROVE RowsLeadToLinkedUsers'
    BY <1>3 DEF LoadUser, RowsLeadToLinkedUsers, TypeOK
<1>4. ASSUME NEW u \in UserIds, DeleteOauth(u) PROVE RowsLeadToLinkedUsers'
    BY <1>4 DEF DeleteOauth, RowsLeadToLinkedUsers, TypeOK
<1>5. ASSUME NEW u \in UserIds, SaveDeleted(u) PROVE RowsLeadToLinkedUsers'
    BY <1>5 DEF SaveDeleted, RowsLeadToLinkedUsers, TypeOK
<1>6. ASSUME NEW u \in UserIds, StopDeletion(u) PROVE RowsLeadToLinkedUsers'
    BY <1>6 DEF StopDeletion, RowsLeadToLinkedUsers, TypeOK
<1>7. UserStep => RowsLeadToLinkedUsers'
    BY <1>1, <1>3, <1>4, <1>5, <1>6 DEF UserStep, RefreshToken, Login, TokenExpires
<1>8. SignupStep => RowsLeadToLinkedUsers'
    BY <1>1, <1>2
    DEF SignupStep, CreateEmailAuthSession, SessionExpires, DayPasses, BeginVerify,
        BeginSubmit, Begin, CommitVerify, Rollback
<1> QED BY <1>1, <1>7, <1>8 DEF Next, vars

LEMMA LoginInvAlways == Spec => []RowsLeadToLinkedUsers
<1>1. Init => RowsLeadToLinkedUsers
    BY DEF Init, RowsLeadToLinkedUsers
<1> QED BY <1>1, LoginStep, TypeCorrect, PTL DEF Spec

\* Logging in finds a user who is there, wherever deleteUser stops and whichever
\* sign-ups overlap with it.
THEOREM LoginAlwaysFindsLiveUser == Spec => []LoginFindsLiveUser
<1>1. RowsLeadToLinkedUsers => LoginFindsLiveUser
    BY DEF RowsLeadToLinkedUsers, LoginFindsLiveUser, IsLive
<1> QED BY <1>1, LoginInvAlways, PTL

\* No token is given to a user who is deleted: not by a login, for he has no OAuth
\* row any more, and not by a refresh, which looks him up.
THEOREM TokensAlwaysForLiveUsers == Spec => TokensForLiveUsersOnly
<1>1. RowsLeadToLinkedUsers /\ [Next]_vars =>
        [token' # token /\ token' # None => IsLive(token')]_vars
    <2> SUFFICES ASSUME RowsLeadToLinkedUsers, Next, token' # token, token' # None
                 PROVE  IsLive(token')
        OBVIOUS
    <2>1. ~SignupStep
        BY DEF SignupStep, CreateEmailAuthSession, SessionExpires, DayPasses,
               BeginVerify, BeginSubmit, Begin, CommitVerify, CommitSubmit, Rollback
    <2>2. \/ \E u \in UserIds : RefreshToken(u)
          \/ \E o \in OauthIds : Login(o)
        BY <2>1 DEF Next, UserStep, LoadUser, DeleteOauth, SaveDeleted, StopDeletion,
                    TokenExpires
    <2> QED BY <2>2 DEF RefreshToken, Login, IsLive, RowsLeadToLinkedUsers
<1> QED BY <1>1, LoginInvAlways, PTL DEF Spec, TokensForLiveUsersOnly

-----------------------------------------------------------------------------
(* Sessions about which no two requests overlap                            *)

\* One request at a time, whose read is what the table holds.
RequestIsAlone(s) ==
    \A q \in Requests : requests[q].session = s =>
        /\ \A p \in Requests : requests[p].session = s => p = q
        /\ requests[q].read.state = sessions[s].state
        /\ requests[q].read.tries = sessions[s].tries

TrialsAreCounted(s) ==
    /\ answers[s] = sessions[s].tries
    /\ sessions[s].state \in {"verified", "user_info_submitted"} =>
          sessions[s].tries <= TrialLimit

UsersOf(s) == {u \in UserIds : origin[u] = s}

MadeOneUser(s) ==
    /\ UsersOf(s) # {} => sessions[s].state = "user_info_submitted"
    /\ \A u, v \in UsersOf(s) : u = v

Sound(s) == RequestIsAlone(s) /\ TrialsAreCounted(s) /\ MadeOneUser(s)

SignupInv == \A s \in Sessions \ raced : Sound(s)

\* A session stays sound when nothing about it changes, apart from requests that end.
LEMMA UntouchedStaysSound ==
    ASSUME NEW s \in Sessions, Sound(s),
           sessions'[s].state = sessions[s].state,
           sessions'[s].tries = sessions[s].tries,
           answers'[s] = answers[s],
           \A q \in Requests : requests'[q].session = s => requests'[q] = requests[q],
           UsersOf(s)' \subseteq UsersOf(s)
    PROVE  Sound(s)'
<1>1. RequestIsAlone(s)'
    BY DEF Sound, RequestIsAlone
<1>2. TrialsAreCounted(s)'
    BY DEF Sound, TrialsAreCounted
<1>3. MadeOneUser(s)'
    BY DEF Sound, MadeOneUser
<1> QED BY <1>1, <1>2, <1>3 DEF Sound

\* A second request makes the session a raced one; the first has just read it.
LEMMA BeginStaysSound ==
    ASSUME TypeInv, SignupInv, NEW q \in Requests, NEW s \in Sessions, NEW op,
           Begin(q, op, s)
    PROVE  SignupInv'
<1>1. /\ requests'[q].session = s /\ requests'[q].read = sessions[s]
      /\ \A p \in Requests \ {q} : requests'[p] = requests[p]
      /\ requests[q].session # s
    BY NoSessionIsNone DEF Begin, TypeInv, TypeOK, NoRequest
<1>2. raced \subseteq raced' /\ (s \notin raced' => ~Busy(s))
    BY DEF Begin
<1>3. UsersOf(s)' = UsersOf(s) /\ sessions' = sessions
    BY DEF Begin, UsersOf
<1>4. ASSUME NEW t \in Sessions \ raced', t # s PROVE Sound(t)'
    <2>1. answers'[t] = answers[t]
        BY <1>4 DEF Begin, TypeInv, TypeOK
    <2>2. Sound(t)
        BY <1>2, <1>4 DEF SignupInv
    <2>3. UsersOf(t)' = UsersOf(t)
        BY DEF Begin, UsersOf
    <2> QED BY <1>1, <1>3, <1>4, <2>1, <2>2, <2>3, UntouchedStaysSound
<1>5. ASSUME s \notin raced' PROVE Sound(s)'
    <2>1. \A p \in Requests : requests'[p].session = s => p = q
        BY <1>1, <1>2, <1>5 DEF Busy
    <2>2. RequestIsAlone(s)'
        BY <1>1, <1>3, <2>1 DEF RequestIsAlone
    <2>3. Sound(s) /\ answers' = answers
        BY <1>2, <1>5 DEF SignupInv, Begin
    <2>4. TrialsAreCounted(s)' /\ MadeOneUser(s)'
        BY <1>3, <2>3 DEF Sound, TrialsAreCounted, MadeOneUser
    <2> QED BY <2>2, <2>4 DEF Sound
<1> QED BY <1>4, <1>5 DEF SignupInv

LEMMA CommitVerifyStaysSound ==
    ASSUME TypeInv, SignupInv, NEW q \in Requests, CommitVerify(q)
    PROVE  SignupInv'
<1> DEFINE right == requests[q].op = "rightCode"
           tried == Try(requests[q].read, right)
<1>1. Verifies(q) /\ requests[q] \in Request /\ requests[q] # NoRequest
    BY NoSessionIsNone DEF CommitVerify, Verifies, TypeInv, TypeOK, NoRequest
<1> PICK s \in Sessions : s = requests[q].session
    BY <1>1 DEF Request
<1>2. /\ requests[q].read \in Session
      /\ requests[q].read.state = "verify_code_sent"
      /\ requests[q].read.tries <= TrialLimit
      /\ sessions[s] \in Session
    BY <1>1 DEF TypeInv, RequestsAreValidated, Request
<1>3. /\ sessions'[s].tries = tried.tries
      /\ sessions'[s].state = IF tried.state # requests[q].read.state
                              THEN tried.state ELSE sessions[s].state
      /\ \A t \in Sessions \ {s} : sessions'[t] = sessions[t]
    BY <1>2 DEF CommitVerify, TypeInv, TypeOK, Session
<1>4. /\ requests'[q] = NoRequest
      /\ \A p \in Requests \ {q} : requests'[p] = requests[p]
      /\ raced' = raced /\ origin' = origin
    BY DEF CommitVerify, End, TypeInv, TypeOK
<1>5. /\ \A t \in Sessions \ {s} : answers'[t] = answers[t]
      /\ s \notin raced => answers'[s] = answers[s] + 1
    BY <1>2 DEF CommitVerify, TypeInv, TypeOK
<1>6. ASSUME NEW t \in Sessions \ raced, t # s PROVE Sound(t)'
    <2>1. UsersOf(t)' = UsersOf(t)
        BY <1>4 DEF UsersOf
    <2>2. \A p \in Requests : requests'[p].session = t => requests'[p] = requests[p]
        BY <1>4, NoSessionIsNone
    <2> QED BY <1>3, <1>5, <1>6, <2>1, <2>2, UntouchedStaysSound DEF SignupInv
<1>7. ASSUME s \notin raced PROVE Sound(s)'
    <2>1. Sound(s)
        BY <1>2, <1>7 DEF SignupInv
    <2>2. /\ sessions[s].state = "verify_code_sent"
          /\ sessions[s].tries = requests[q].read.tries
          /\ \A p \in Requests : requests[p].session = s => p = q
        BY <1>2, <2>1 DEF Sound, RequestIsAlone
    <2>3. RequestIsAlone(s)'
        BY <1>2, <1>4, <2>2, NoSessionIsNone DEF RequestIsAlone
    <2>4. /\ tried.tries = requests[q].read.tries + 1
          /\ requests[q].read.tries + 1 <= TrialLimit =>
                tried.state \in {"verified", "verify_code_sent"}
          /\ requests[q].read.tries + 1 > TrialLimit => tried.state = "trial_over"
        BY <1>2, TryType
    <2> HIDE DEF tried, right
    <2>5. requests[q].read.tries \in Nat
        BY <1>2 DEF Session
    <2>6. sessions'[s].state \in {"verified", "user_info_submitted"} =>
            sessions'[s].tries <= TrialLimit
        BY <1>2, <1>3, <2>2, <2>4, <2>5, AccountsAssumption
    <2>7. TrialsAreCounted(s)'
        BY <1>3, <1>5, <1>7, <2>1, <2>2, <2>4, <2>6 DEF Sound, TrialsAreCounted
    <2>8. UsersOf(s)' = {}
        BY <1>4, <2>1, <2>2 DEF Sound, MadeOneUser, UsersOf
    <2> QED BY <2>3, <2>7, <2>8 DEF Sound, MadeOneUser
<1> QED BY <1>4, <1>6, <1>7 DEF SignupInv

LEMMA CommitSubmitStaysSound ==
    ASSUME TypeInv, SignupInv, NEW q \in Requests, NEW u \in UserIds, CommitSubmit(q, u)
    PROVE  SignupInv'
<1>1. requests[q] \in Request /\ requests[q] # NoRequest
    BY NoSessionIsNone DEF CommitSubmit, TypeInv, TypeOK, NoRequest
<1> PICK s \in Sessions : s = requests[q].session
    BY <1>1 DEF Request
<1>2. /\ sessions[s] \in Session
      /\ requests[q].read.state = "verified"
    BY <1>1 DEF CommitSubmit, TypeInv, RequestsAreValidated, Request
<1>3. /\ sessions'[s].state = "user_info_submitted"
      /\ sessions'[s].tries = sessions[s].tries
      /\ \A t \in Sessions \ {s} : sessions'[t] = sessions[t]
    BY <1>2 DEF CommitSubmit, TypeInv, TypeOK, Session
<1>4. /\ requests'[q] = NoRequest
      /\ \A p \in Requests \ {q} : requests'[p] = requests[p]
      /\ raced' = raced /\ answers' = answers
      /\ origin' = [origin EXCEPT ![u] = s]
    BY DEF CommitSubmit, End, TypeInv, TypeOK
<1>5. ASSUME NEW t \in Sessions \ raced, t # s PROVE Sound(t)'
    <2>1. UsersOf(t)' \subseteq UsersOf(t)
        BY <1>4, <1>5 DEF UsersOf, TypeInv, TypeOK
    <2>2. \A p \in Requests : requests'[p].session = t => requests'[p] = requests[p]
        BY <1>4, NoSessionIsNone
    <2> QED BY <1>3, <1>4, <1>5, <2>1, <2>2, UntouchedStaysSound DEF SignupInv
<1>6. ASSUME s \notin raced PROVE Sound(s)'
    <2>1. Sound(s)
        BY <1>2, <1>6 DEF SignupInv
    <2>2. /\ sessions[s].state = "verified"
          /\ \A p \in Requests : requests[p].session = s => p = q
        BY <1>2, <2>1 DEF Sound, RequestIsAlone
    <2>3. RequestIsAlone(s)'
        BY <1>2, <1>4, <2>2, NoSessionIsNone DEF RequestIsAlone
    <2>4. TrialsAreCounted(s)'
        BY <1>3, <1>4, <2>1, <2>2 DEF Sound, TrialsAreCounted
    <2>5. UsersOf(s)' \subseteq {u}
        <3>1. UsersOf(s) = {}
            BY <2>1, <2>2 DEF Sound, MadeOneUser
        <3> QED BY <1>4, <3>1 DEF UsersOf, TypeInv, TypeOK
    <2>6. MadeOneUser(s)'
        BY <1>3, <2>5 DEF MadeOneUser
    <2> QED BY <2>3, <2>4, <2>6 DEF Sound
<1> QED BY <1>4, <1>5, <1>6 DEF SignupInv

LEMMA SessionStaysSound ==
    ASSUME TypeInv, SignupInv, NEW s \in Sessions,
           \/ \E e \in Emails, o \in OauthIds : CreateEmailAuthSession(s, e, o)
           \/ SessionExpires(s)
           \/ DayPasses(s)
    PROVE  SignupInv'
<1>1. /\ \A t \in Sessions \ {s} : sessions'[t] = sessions[t]
      /\ UNCHANGED <<requests, answers, origin, raced>>
    BY DEF CreateEmailAuthSession, SessionExpires, DayPasses, history, TypeInv, TypeOK
<1>2. \A t \in Sessions : UsersOf(t)' = UsersOf(t)
    BY <1>1 DEF UsersOf
<1>3. \A t \in Sessions \ {s} : t \notin raced => Sound(t)'
    BY <1>1, <1>2, UntouchedStaysSound DEF SignupInv
<1>4. ASSUME SessionExpires(s) \/ DayPasses(s)
      PROVE  s \notin raced => Sound(s)'
    <2>1. sessions[s] \in Session
        BY <1>4 DEF SessionExpires, DayPasses, NoSession, TypeInv, TypeOK
    <2>2. /\ sessions'[s].state = sessions[s].state
          /\ sessions'[s].tries = sessions[s].tries
        BY <1>4, <2>1 DEF SessionExpires, DayPasses, TypeInv, TypeOK, Session
    <2> QED BY <1>1, <1>2, <2>2, UntouchedStaysSound DEF SignupInv
<1>5. ASSUME NEW e \in Emails, NEW o \in OauthIds, CreateEmailAuthSession(s, e, o),
             s \notin raced
      PROVE  Sound(s)'
    <2>1. /\ sessions'[s].state = "verify_code_sent" /\ sessions'[s].tries = 0
          /\ sessions[s] = NoSession
        BY <1>5 DEF CreateEmailAuthSession, TypeInv, TypeOK
    <2>2. Sound(s)
        BY <1>5 DEF SignupInv
    <2>3. \A q \in Requests : requests[q].session # s
        BY <2>1, NoSessionIsNone DEF TypeInv, RequestsAreValidated
    <2>4. RequestIsAlone(s)'
        BY <1>1, <2>3 DEF RequestIsAlone
    <2>5. TrialsAreCounted(s)'
        BY <1>1, <2>1, <2>2 DEF Sound, TrialsAreCounted, NoSession
    <2>6. UsersOf(s)' = {}
        BY <1>2, <2>1, <2>2 DEF Sound, MadeOneUser, NoSession
    <2> QED BY <2>4, <2>5, <2>6 DEF Sound, MadeOneUser
<1> QED BY <1>1, <1>3, <1>4, <1>5 DEF SignupInv

LEMMA SignupInvStep == TypeInv /\ SignupInv /\ [Next]_vars => SignupInv'
<1> SUFFICES ASSUME TypeInv, SignupInv, [Next]_vars PROVE SignupInv'
    OBVIOUS
<1>1. ASSUME UNCHANGED <<sessions, answers, origin, raced>>,
             \A q \in Requests : requests'[q] \in {requests[q], NoRequest}
      PROVE  SignupInv'
    <2>1. \A s \in Sessions : UsersOf(s)' = UsersOf(s)
        BY <1>1 DEF UsersOf
    <2>2. \A q \in Requests, s \in Sessions :
            requests'[q].session = s => requests'[q] = requests[q]
        BY <1>1, NoSessionIsNone
    <2> QED BY <1>1, <2>1, <2>2, UntouchedStaysSound DEF SignupInv
<1>2. ASSUME NEW q \in Requests, Rollback(q) PROVE SignupInv'
    BY <1>1, <1>2 DEF Rollback, End, history, TypeInv, TypeOK
<1>3. UserStep => SignupInv'
    BY <1>1 DEF UserStep, LoadUser, DeleteOauth, SaveDeleted, StopDeletion,
                RefreshToken, Login, TokenExpires, history
<1>4. ASSUME NEW q \in Requests, NEW s \in Sessions,
             \/ \E right \in BOOLEAN : BeginVerify(q, s, right)
             \/ BeginSubmit(q, s)
      PROVE  SignupInv'
    BY <1>4, BeginStaysSound DEF BeginVerify, BeginSubmit
<1>5. SignupStep => SignupInv'
    BY <1>2, <1>4, SessionStaysSound, CommitVerifyStaysSound, CommitSubmitStaysSound
    DEF SignupStep
<1> QED BY <1>1, <1>3, <1>5 DEF Next, vars

LEMMA SignupInvAlways == Spec => []SignupInv
<1>1. Init => SignupInv
    BY NoSessionIsNone, AccountsAssumption
    DEF Init, SignupInv, Sound, RequestIsAlone, TrialsAreCounted, MadeOneUser, UsersOf,
        NoSession
<1> QED BY <1>1, SignupInvStep, TypeInvAlways, PTL DEF Spec

\* The trials of a session that no two requests were about at once are counted
\* right, and whoever is verified has not used more than the limit.
THEOREM TrialLimitAlwaysHolds == Spec => []TrialLimitHolds
<1>1. SignupInv => TrialLimitHolds
    BY DEF SignupInv, Sound, TrialsAreCounted, TrialLimitHolds
<1> QED BY <1>1, SignupInvAlways, PTL

\* A session that no two requests were about at once makes one user.
THEOREM AlwaysOneUserPerSession == Spec => []OneUserPerSession
<1>1. TypeInv /\ SignupInv => OneUserPerSession
    BY DEF TypeInv, TypeOK, SignupInv, Sound, MadeOneUser, UsersOf, OneUserPerSession
<1> QED BY <1>1, SignupInvAlways, TypeInvAlways, PTL
=============================================================================
