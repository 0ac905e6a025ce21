------------------------------ MODULE Accounts -------------------------------
(***************************************************************************)
(* How an account begins and ends: the sign-up session of SignupService    *)
(* (src/src/auth/signup/service/signup.service.ts) with its university     *)
(* mail, its trials and its expiry, the OAuth row that leads from a login  *)
(* to the user, the tokens of AuthService (src/src/auth/auth.service.ts),  *)
(* and deleteUser (src/src/user/user.service.ts).                          *)
(*                                                                         *)
(* verifyByCode and createUserWithInfo are transactions at the default     *)
(* isolation, REPEATABLE READ: a request reads one snapshot when it begins *)
(* and writes what it changed when it commits, whatever was committed in   *)
(* between.  deleteUser is a sequence of queries without a transaction.    *)
(***************************************************************************)
EXTENDS Integers, FiniteSets

CONSTANTS
    Sessions,   \* session ids
    Emails,     \* university mail addresses
    OauthIds,   \* identifiers at the OAuth providers
    UserIds,    \* user ids: bounds the accounts ever made
    Requests,   \* ids of the requests in progress: bounds how many overlap
    TrialLimit, \* 4 in the code
    None

ASSUME AccountsAssumption ==
    /\ TrialLimit \in Nat
    /\ None \notin Sessions \cup Emails \cup OauthIds \cup UserIds \cup Requests

VARIABLES
    sessions,   \* the university_email_auth table
    users,      \* users[u]: how far the life of user u is
    oauth,      \* oauth[o]: the user the OAuth row o leads to, or None
    token,      \* the user of the last token, while it is valid, or None
    requests,   \* requests[q]: what the transaction q does and what it has read
    answers,    \* answers[s]: codes entered for s, while it is not raced (history)
    origin,     \* origin[u]: the session that made u (history)
    raced       \* sessions two overlapping requests were about (history)

vars == <<sessions, users, oauth, token, requests, answers, origin, raced>>
history == <<answers, origin, raced>>

SessionStates == {"verify_code_sent", "verified", "user_info_submitted", "trial_over"}

Session == [state   : SessionStates,
            email   : Emails,
            oauthId : OauthIds,
            tries   : 0 .. TrialLimit + 1,
            expired : BOOLEAN,  \* expiresIn < Date.now()
            fresh   : BOOLEAN,  \* created less than a day ago
            user    : UserIds \cup {None}]

NoSession == [state |-> "none", email |-> None, oauthId |-> None, tries |-> 0,
              expired |-> FALSE, fresh |-> FALSE, user |-> None]

\* "loaded" and "unlinked" are deleteUser under way: deletedAt still is NULL.
Lives == {"none", "live", "loaded", "unlinked", "deleted"}
IsLive(u) == users[u] \in {"live", "loaded", "unlinked"}

Ops == {"rightCode", "wrongCode", "submit"}

\* What createUserWithInfo reads of the OAuth table: is there a row to update?
Request == [op : Ops, session : Sessions, read : Session, hasRow : BOOLEAN]
NoRequest == [op |-> "none", session |-> None, read |-> NoSession, hasRow |-> FALSE]

TypeOK ==
    /\ sessions \in [Sessions -> Session \cup {NoSession}]
    /\ users \in [UserIds -> Lives]
    /\ oauth \in [OauthIds -> UserIds \cup {None}]
    /\ token \in UserIds \cup {None}
    /\ requests \in [Requests -> Request \cup {NoRequest}]
    /\ answers \in [Sessions -> Nat]
    /\ origin \in [UserIds -> Sessions \cup {None}]
    /\ raced \subseteq Sessions

Init ==
    /\ sessions = [s \in Sessions |-> NoSession]
    /\ users = [u \in UserIds |-> "none"]
    /\ oauth = [o \in OauthIds |-> None]
    /\ token = None
    /\ requests = [q \in Requests |-> NoRequest]
    /\ answers = [s \in Sessions |-> 0]
    /\ origin = [u \in UserIds |-> None]
    /\ raced = {}

-----------------------------------------------------------------------------
(* The session                                                             *)

\* createEmailAuthSession; the mail is sent before the row is saved, and when that
\* fails there is no row.
CreateEmailAuthSession(s, e, o) ==
    /\ sessions[s] = NoSession
    /\ \A t \in Sessions :
          ~(/\ sessions[t].email = e
            /\ sessions[t].state = "trial_over"
            /\ sessions[t].fresh)
    /\ sessions' = [sessions EXCEPT ![s] =
                      [state |-> "verify_code_sent", email |-> e, oauthId |-> o,
                       tries |-> 0, expired |-> FALSE, fresh |-> TRUE, user |-> None]]
    /\ UNCHANGED <<users, oauth, token, requests, history>>

\* Five minutes after the mail, thirty after the right code.  Nobody asks later.
SessionExpires(s) ==
    /\ sessions[s].state \in {"verify_code_sent", "verified"}
    /\ sessions' = [sessions EXCEPT ![s].expired = TRUE]
    /\ UNCHANGED <<users, oauth, token, requests, history>>

DayPasses(s) ==
    /\ sessions[s].state = "trial_over"
    /\ sessions' = [sessions EXCEPT ![s].fresh = FALSE]
    /\ UNCHANGED <<users, oauth, token, requests, history>>

\* Mutant: the state of the session is not looked at.
PreValidateOld(session, required) == session # NoSession /\ ~session.expired

PreValidate(session, required) ==
    session # NoSession /\ ~session.expired /\ session.state = required

\* Mutant: one trial too many.
TryOnce(session, right) ==
    [session EXCEPT
        !.tries = @ + 1,
        !.expired = IF right THEN FALSE ELSE @,
        !.state = IF session.tries > TrialLimit THEN "trial_over"
                  ELSE IF right THEN "verified" ELSE @]

\* try: the last trial locks the session, with the right code as well.
Try(session, right) ==
    [session EXCEPT
        !.tries = @ + 1,
        !.expired = IF right THEN FALSE ELSE @,
        !.state = IF session.tries + 1 > TrialLimit THEN "trial_over"
                  ELSE IF right THEN "verified" ELSE @]

-----------------------------------------------------------------------------
(* Requests                                                                *)

DeletedAt(u) == IF users[u] = "deleted" THEN "date" ELSE "NULL"

\* BigIntTransformer.from: Date.parse makes NaN of NULL, and of the digits of a
\* number; TypeORM hands NULL to the transformer of a column as well.
FromDatabase(column) == "NaN"

\* isDeleted: this.deletedAt !== null, in an entity that was read.
IsDeleted(u) == FromDatabase(DeletedAt(u)) # "NULL"

\* checkDuplicateEmailExist over the sessions of the address that made a user.
DuplicateEmailExists(e) ==
    \E s \in Sessions : /\ sessions[s].email = e
                        /\ sessions[s].state = "user_info_submitted"
                        /\ sessions[s].user # None
                        /\ ~IsDeleted(sessions[s].user)

Busy(s) == \E q \in Requests : requests[q].session = s

Begin(q, op, s) ==
    /\ requests[q] = NoRequest
    /\ requests' = [requests EXCEPT ![q] =
                      [op      |-> op,
                       session |-> s,
                       read    |-> sessions[s],
                       hasRow  |-> op = "submit" /\ oauth[sessions[s].oauthId] # None]]
    /\ raced' = IF Busy(s) THEN raced \cup {s} ELSE raced
    /\ answers' = IF Busy(s) THEN [answers EXCEPT ![s] = 0] ELSE answers
    /\ UNCHANGED <<sessions, users, oauth, token, origin>>

BeginVerify(q, s, right) ==
    /\ PreValidate(sessions[s], "verify_code_sent")
    /\ Begin(q, IF right THEN "rightCode" ELSE "wrongCode", s)

BeginSubmit(q, s) ==
    /\ PreValidate(sessions[s], "verified")
    /\ ~DuplicateEmailExists(sessions[s].email)
    /\ Begin(q, "submit", s)

End(q) == requests' = [requests EXCEPT ![q] = NoRequest]

\* save writes the columns try has changed, and leaves the others as they are now.
CommitVerify(q) ==
    /\ requests[q].op \in {"rightCode", "wrongCode"}
    /\ LET s == requests[q].session
           read == requests[q].read
           tried == Try(read, requests[q].op = "rightCode")
       IN  /\ sessions' = [sessions EXCEPT
                 ![s].tries = tried.tries,
                 ![s].expired = IF requests[q].op = "rightCode" THEN FALSE ELSE @,
                 ![s].state = IF tried.state # read.state THEN tried.state ELSE @]
           /\ answers' = [answers EXCEPT ![s] = IF s \in raced THEN 0 ELSE @ + 1]
    /\ End(q)
    /\ UNCHANGED <<users, oauth, token, origin, raced>>

\* saving the OAuth row: an insert, or an update that changes nothing when the row
\* that was read is gone.
SaveOauth(o, hasRow, u) ==
    [oauth EXCEPT ![o] = IF hasRow /\ @ = None THEN None ELSE u]

\* An insert fails on the primary key when the row appeared meanwhile.
OauthTaken(q) ==
    /\ ~requests[q].hasRow
    /\ oauth[requests[q].read.oauthId] # None

CommitSubmit(q, u) ==
    /\ requests[q].op = "submit"
    /\ users[u] = "none"
    /\ ~OauthTaken(q)
    /\ LET s == requests[q].session IN
       /\ users' = [users EXCEPT ![u] = "live"]
       /\ oauth' = SaveOauth(requests[q].read.oauthId, requests[q].hasRow, u)
       /\ sessions' = [sessions EXCEPT ![s].state = "user_info_submitted",
                                       ![s].user = u]
       /\ origin' = [origin EXCEPT ![u] = s]
    /\ End(q)
    /\ UNCHANGED <<token, answers, raced>>

\* The transaction is rolled back: a query fails, or OauthTaken.
Rollback(q) ==
    /\ requests[q] # NoRequest
    /\ End(q)
    /\ UNCHANGED <<sessions, users, oauth, token, history>>

-----------------------------------------------------------------------------
(* Deletion: what deleteUser does to the rooms is in UserDeletion          *)

LoadUser(u) ==
    /\ users[u] = "live"
    /\ users' = [users EXCEPT ![u] = "loaded"]
    /\ UNCHANGED <<sessions, oauth, token, requests, history>>

DeleteOauth(u) ==
    /\ users[u] = "loaded"
    /\ users' = [users EXCEPT ![u] = "unlinked"]
    /\ oauth' = [o \in OauthIds |-> IF oauth[o] = u THEN None ELSE oauth[o]]
    /\ UNCHANGED <<sessions, token, requests, history>>

\* Mutant: the user is saved without waiting for the OAuth rows.
SaveDeletedAtOnce(u) ==
    /\ users[u] \in {"loaded", "unlinked"}
    /\ users' = [users EXCEPT ![u] = "deleted"]
    /\ UNCHANGED <<sessions, oauth, token, requests, history>>

SaveDeleted(u) ==
    /\ users[u] = "unlinked"
    /\ users' = [users EXCEPT ![u] = "deleted"]
    /\ UNCHANGED <<sessions, oauth, token, requests, history>>

\* The process stops, or a query fails: what is done stays done.
StopDeletion(u) ==
    /\ users[u] \in {"loaded", "unlinked"}
    /\ users' = [users EXCEPT ![u] = "live"]
    /\ UNCHANGED <<sessions, oauth, token, requests, history>>

-----------------------------------------------------------------------------
(* Tokens                                                                  *)

\* login takes the user of the OAuth row as it is, deleted or not.
Login(o) ==
    /\ oauth[o] # None
    /\ token' = oauth[o]
    /\ UNCHANGED <<sessions, users, oauth, requests, history>>

\* Mutant: a refresh token is enough.
RefreshTokenOf(u) ==
    /\ users[u] # "none"
    /\ token' = u
    /\ UNCHANGED <<sessions, users, oauth, requests, history>>

\* refreshToken: a user who logged in once, and findUserById finds.
RefreshToken(u) ==
    /\ IsLive(u)
    /\ token' = u
    /\ UNCHANGED <<sessions, users, oauth, requests, history>>

TokenExpires ==
    /\ token # None
    /\ token' = None
    /\ UNCHANGED <<sessions, users, oauth, requests, history>>

-----------------------------------------------------------------------------
SignupStep ==
    \/ \E s \in Sessions :
          \/ \E e \in Emails, o \in OauthIds : CreateEmailAuthSession(s, e, o)
          \/ SessionExpires(s)
          \/ DayPasses(s)
    \/ \E q \in Requests :
          \/ \E s \in Sessions :
                \/ \E right \in BOOLEAN : BeginVerify(q, s, right)
                \/ BeginSubmit(q, s)
          \/ CommitVerify(q)
          \/ \E u \in UserIds : CommitSubmit(q, u)
          \/ Rollback(q)

UserStep ==
    \/ \E u \in UserIds :
          \/ LoadUser(u) \/ DeleteOauth(u) \/ SaveDeleted(u) \/ StopDeletion(u)
          \/ RefreshToken(u)
    \/ \E o \in OauthIds : Login(o)
    \/ TokenExpires

Next == SignupStep \/ UserStep

Spec == Init /\ [][Next]_vars

-----------------------------------------------------------------------------
(* Properties                                                              *)

\* Logging in finds a user who is there, wherever deleteUser stops and whichever
\* sign-ups with the same OAuth identifier overlap with it: login does not ask.
LoginFindsLiveUser ==
    \A o \in OauthIds : oauth[o] # None => IsLive(oauth[o])

\* A deleted user gets no token any more; the one he has runs out.
TokensForLiveUsersOnly ==
    [][token' # token /\ token' # None => IsLive(token')]_vars

\* The trials of a session are limited, and counted right, unless requests about
\* that session overlap: other sessions of the address or the login do not matter.
TrialLimitHolds ==
    \A s \in Sessions \ raced :
        /\ answers[s] = sessions[s].tries
        /\ sessions[s].state \in {"verified", "user_info_submitted"} =>
              answers[s] <= TrialLimit

\* A session makes one user, unless requests about it overlap.
OneUserPerSession ==
    \A u, v \in UserIds : origin[u] = origin[v] /\ origin[u] # None =>
        u = v \/ origin[u] \in raced

-----------------------------------------------------------------------------
\* auth.exception.ts:46: an address with an account is refused.
OneUserPerAddress ==
    \A u, v \in UserIds : IsLive(u) /\ IsLive(v) /\ u # v =>
        sessions[origin[u]].email # sessions[origin[v]].email
=============================================================================
