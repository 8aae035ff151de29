------------------------------ MODULE Sessions ------------------------------
(***************************************************************************)
(* Sessions of one user: the refresh tokens that sign-ins issue and that   *)
(* are exchanged for new ones, by the GraphQL mutations and by the REST    *)
(* routes, the tokens that reset a password, and the count of wrong        *)
(* passwords that locks the account.  Requests read, await and write, and  *)
(* answer when they have written; they run at the same time, answers get   *)
(* lost, and the process may end at any moment.                            *)
(***************************************************************************)
EXTENDS Naturals, FiniteSets

CONSTANTS
    Tokens,         \* refresh tokens that can be issued
    Resets,         \* password reset tokens that can be issued
    Calls,          \* requests that can be in flight
    None,           \* no row, no request, no token
    Threshold,      \* wrong passwords that lock the account (5 in the code)
    MaxAttempts,    \* bound on the wrong passwords that are counted
    MaxBegun,       \* bound on the requests that take several steps
    MaxFaults       \* bound on crashes, failing revocations, lost answers

ASSUME ThresholdAssumption == Threshold \in Nat \ {0}
ASSUME AttemptsAssumption == MaxAttempts \in Nat
ASSUME BegunAssumption == MaxBegun \in Nat
ASSUME FaultsAssumption == MaxFaults \in Nat

VARIABLES
    account,        \* the row of the user: "new", "open", "deleted"
    attempts,       \* failedLoginAttempts
    lockedUntil,    \* "none", "future" or "past"
    tokens,         \* refresh_tokens, by token
    resets,         \* password_reset_tokens, by token
    calls,          \* what each request in flight has in memory
    held,           \* refresh tokens that were returned to a client
    answers,        \* those that are stored and about to be returned
    unanswered,     \* history: those whose answer was lost
    wrongs,         \* history: wrong passwords recorded since the last reset
    lost,           \* history: one of them was recorded over another one
    ended,          \* history: sessions that were signed out
    lapsed,         \* history: sessions a token of which expired
    forked,         \* history: sessions of which two exchanges of one token
                    \* overlapped, or one was not finished
    outlived,       \* history: sessions signed out during an exchange
    uses,           \* history: how often a reset token changed the password
    doubled,        \* history: reset tokens that two requests dealt with at once
    faults,         \* history: crashes, failed revocations, lost answers
    begun           \* history: how many requests have begun

Rows == <<account, attempts, lockedUntil, tokens, resets>>
Lockout == <<attempts, lockedUntil, wrongs, lost>>
Chains == <<ended, lapsed, forked, outlived>>
Hands == <<held, answers, unanswered>>
Recovery == <<resets, uses, doubled>>
vars == <<Rows, calls, Hands, wrongs, lost, Chains, uses, doubled, faults,
          begun>>

\* A refresh token: root is the token of the sign-in that the session began with,
\* and the REST routes take only tokens that they issued.
Token == [root : Tokens, issuer : {"graphql", "rest"},
          revoked : BOOLEAN, expired : BOOLEAN]

Reset == [used : BOOLEAN, expired : BOOLEAN]

\* A request in flight: what it does next, the token or the reset token it was
\* given, the token it has stored, and the count of wrong passwords it read.
Call == [pc : {"wrong", "right", "oauth", "store", "persist", "rotate", "exchange",
               "revoke", "request", "reset"},
         token : Tokens \cup {None}, reset : Resets \cup {None},
         stored : Tokens \cup {None}, attempts : 0 .. MaxAttempts]

ASSUME NoneAssumption ==
    None \notin Token \cup Reset \cup Call \cup Tokens \cup Resets

Live(t) == tokens[t] # None /\ ~tokens[t].revoked /\ ~tokens[t].expired

Fresh == {t \in Tokens : tokens[t] = None}

Init ==
    /\ account = "new"
    /\ attempts = 0
    /\ lockedUntil = "none"
    /\ tokens = [t \in Tokens |-> None]
    /\ resets = [x \in Resets |-> None]
    /\ calls = [c \in Calls |-> None]
    /\ held = {} /\ answers = {} /\ unanswered = {}
    /\ wrongs = 0
    /\ lost = FALSE
    /\ ended = {} /\ lapsed = {} /\ forked = {} /\ outlived = {}
    /\ uses = [x \in Resets |-> 0]
    /\ doubled = {}
    /\ faults = 0
    /\ begun = 0

------------------------------------------------------------------------------
(* How requests begin and end                                              *)

Begin(c, pc, t, x) ==
    /\ calls[c] = None
    /\ begun < MaxBegun
    /\ begun' = begun + 1
    /\ calls' = [calls EXCEPT ![c] = [pc |-> pc, token |-> t, reset |-> x,
                                      stored |-> None, attempts |-> attempts]]

At(c, pc) == calls[c] # None /\ calls[c].pc = pc

Goto(c, pc) == calls' = [calls EXCEPT ![c].pc = pc]

End(c) == calls' = [calls EXCEPT ![c] = None]

\* All that is left to do for a request is to return the token.
WillReturn(t) ==
    /\ answers' = answers \cup {t}
    /\ UNCHANGED <<held, unanswered>>

\* The token is about to be exchanged, or is not revoked after it was.
Exchanging(t) == {c \in Calls : calls[c] # None /\ calls[c].token = t}

\* A token of the session r is.
ExchangedIn(r) ==
    \E t \in Tokens : /\ tokens[t] # None /\ tokens[t].root = r
                      /\ Exchanging(t) # {}

\* Fault: the token references no user.
MayStoreAlways == TRUE

\* A row that references the user can be inserted.
MayStore == account = "open"

New(root, issuer) ==
    [root |-> root, issuer |-> issuer, revoked |-> FALSE, expired |-> FALSE]

------------------------------------------------------------------------------
(* Signing up and in                                                       *)

\* signUp and createUser insert the user and a token in one transaction, and so
\* does signInWithOAuth for an unknown user.
SignUp(t) ==
    /\ account = "new"
    /\ account' = "open"
    /\ tokens' = [tokens EXCEPT ![t] = New(t, "graphql")]
    /\ WillReturn(t)
    /\ UNCHANGED <<Lockout, calls, Chains, Recovery, faults, begun>>

\* The REST route inserts the user and then signs in.
RestSignUp(c) ==
    /\ account = "new"
    /\ account' = "open"
    /\ Begin(c, "persist", None, None)
    /\ UNCHANGED <<Lockout, tokens, Hands, Chains, Recovery, faults>>

\* The count is cleared, at the step pc, only if the request read one.
AfterPassword(pc) ==
    IF attempts > 0 \/ lockedUntil # "none" THEN pc ELSE "store"

\* signIn reads the user, refuses while the account is locked, and verifies the
\* password.
SignIn(c) ==
    /\ account = "open"
    /\ lockedUntil # "future"
    /\ \/ attempts < MaxAttempts /\ Begin(c, "wrong", None, None)
       \/ Begin(c, AfterPassword("right"), None, None)
    /\ UNCHANGED <<Rows, Hands, wrongs, lost, Chains, uses, doubled, faults>>

\* The REST route neither looks at the lock nor counts.
RestSignIn(c) ==
    /\ account = "open"
    /\ Begin(c, "persist", None, None)
    /\ UNCHANGED <<Rows, Hands, wrongs, lost, Chains, uses, doubled, faults>>

SignInWithOAuth(c) ==
    /\ account = "open"
    /\ Begin(c, AfterPassword("oauth"), None, None)
    /\ UNCHANGED <<Rows, Hands, wrongs, lost, Chains, uses, doubled, faults>>

\* Fault: the account is locked one wrong password late.
ReachesLate(count) == count > Threshold

Reaches(count) == count >= Threshold

\* A wrong password: the count that was read, plus one, is written by id, with
\* a lock when it reaches the threshold.
RecordWrong(c) ==
    LET count == calls[c].attempts + 1 IN
    /\ At(c, "wrong")
    /\ IF account = "open"
       THEN /\ attempts' = count
            /\ lockedUntil' = IF Reaches(count) THEN "future" ELSE lockedUntil
            /\ wrongs' = IF wrongs < MaxAttempts THEN wrongs + 1 ELSE wrongs
            /\ lost' = IF attempts # calls[c].attempts THEN TRUE ELSE lost
       ELSE UNCHANGED Lockout
    /\ End(c)
    /\ UNCHANGED <<account, tokens, Hands, Chains, Recovery, faults, begun>>

\* Fault: the lock is cleared to a value of its own.
UnlockToNull == lockedUntil' = "null"

Unlock == lockedUntil' = "none"

\* The count and the lock are cleared.
ClearAttempts ==
    /\ attempts' = 0
    /\ Unlock
    /\ wrongs' = 0
    /\ lost' = FALSE

\* The right password: the count is cleared before a token is stored.
RecordRight(c) ==
    /\ At(c, "right")
    /\ IF account = "open" THEN ClearAttempts ELSE UNCHANGED Lockout
    /\ Goto(c, "store")
    /\ UNCHANGED <<account, tokens, Hands, Chains, Recovery, faults, begun>>

\* A token begins a session, unless the user has been deleted.  signInWithOAuth
\* clears the count in the same transaction.
StoreToken(c) ==
    /\ At(c, "store") \/ At(c, "persist") \/ At(c, "oauth")
    /\ IF MayStore
       THEN /\ \E t \in Fresh :
                  /\ tokens' = [tokens EXCEPT ![t] =
                         New(t, IF At(c, "persist") THEN "rest" ELSE "graphql")]
                  /\ WillReturn(t)
            /\ IF At(c, "oauth") THEN ClearAttempts ELSE UNCHANGED Lockout
       ELSE UNCHANGED <<tokens, Hands, Lockout>>
    /\ End(c)
    /\ UNCHANGED <<account, Chains, Recovery, faults, begun>>

\* The lock runs out.
LockPasses ==
    /\ lockedUntil = "future"
    /\ lockedUntil' = "past"
    /\ UNCHANGED <<account, attempts, tokens, resets, calls, Hands, wrongs, lost,
                   Chains, uses, doubled, faults, begun>>

------------------------------------------------------------------------------
(* Exchanging a refresh token                                              *)

\* Fault: a revoked token is found, too.
ValidIfKnown(t) == tokens[t] # None /\ ~tokens[t].expired

\* findValidRefreshToken, isRefreshTokenValid
Valid(t) == Live(t)

\* The mutation refreshToken, or the route: the token is looked up.
Exchange(c, t, pc) ==
    /\ t \in held
    /\ Valid(t)
    /\ pc = "rotate" => tokens[t].issuer = "rest"
    /\ Begin(c, pc, t, None)
    /\ forked' = IF Exchanging(t) # {} THEN forked \cup {tokens[t].root} ELSE forked
    /\ UNCHANGED <<Rows, Hands, wrongs, lost, ended, lapsed, outlived, uses,
                   doubled, faults>>

\* Fault: the token that is exchanged is not revoked.
ExchangedKept(t, n) == [tokens EXCEPT ![n] = New(tokens[t].root, "graphql")]

\* The old token is revoked and a new one continues the session.
Exchanged(t, n) ==
    [tokens EXCEPT ![t].revoked = TRUE, ![n] = New(tokens[t].root, "graphql")]

\* The transaction of refreshToken revokes the token, be it revoked by now or
\* not, and stores a new one.  It rolls back when the user has been deleted.
RefreshToken(c) ==
    LET t == calls[c].token IN
    /\ At(c, "exchange")
    /\ IF MayStore
       THEN \E n \in Fresh : /\ tokens' = Exchanged(t, n)
                             /\ WillReturn(n)
       ELSE UNCHANGED <<tokens, Hands>>
    /\ End(c)
    /\ UNCHANGED <<account, Lockout, Chains, Recovery, faults, begun>>

\* Fault: the route revokes the token before it stores the new one, and is cut
\* off in between.
PersistedLast(t, n) == Exchanged(t, n)

\* What rotateRefresh has stored before it revokes
Persisted(t, n) == [tokens EXCEPT ![n] = New(tokens[t].root, "rest")]

\* rotateRefresh stores the new token first, or throws.
PersistRefreshToken(c) ==
    LET t == calls[c].token IN
    /\ At(c, "rotate")
    /\ IF MayStore
       THEN \E n \in Fresh : /\ tokens' = Persisted(t, n)
                             /\ calls' = [calls EXCEPT ![c].pc = "revoke",
                                                       ![c].stored = n]
       ELSE End(c) /\ UNCHANGED tokens
    /\ UNCHANGED <<account, Lockout, Hands, Chains, Recovery, faults, begun>>

\* Then it revokes the old one.  When that fails, which it logs, the new one will
\* be returned all the same.
RevokeRotated(c) ==
    LET q == calls[c] IN
    /\ At(c, "revoke")
    /\ \/ /\ tokens' = IF tokens[q.token] = None THEN tokens
                       ELSE [tokens EXCEPT ![q.token].revoked = TRUE]
          /\ UNCHANGED <<forked, faults>>
       \/ /\ faults < MaxFaults
          /\ faults' = faults + 1
          /\ forked' = IF tokens[q.token] = None THEN forked
                       ELSE forked \cup {tokens[q.token].root}
          /\ UNCHANGED tokens
    /\ WillReturn(q.stored)
    /\ End(c)
    /\ UNCHANGED <<account, Lockout, ended, lapsed, outlived, Recovery, begun>>

\* The answer arrives: cookies, or the payload of the mutation.
Answer(t) ==
    /\ t \in answers
    /\ answers' = answers \ {t}
    /\ held' = held \cup {t}
    /\ UNCHANGED <<Rows, calls, unanswered, wrongs, lost, Chains, uses, doubled,
                   faults, begun>>

\* It does not: the connection is gone.
AnswerLost(t) ==
    /\ t \in answers
    /\ faults < MaxFaults
    /\ faults' = faults + 1
    /\ answers' = answers \ {t}
    /\ unanswered' = unanswered \cup {t}
    /\ UNCHANGED <<Rows, calls, held, wrongs, lost, Chains, uses, doubled, begun>>

------------------------------------------------------------------------------
(* Ending sessions                                                         *)

\* Sessions end; those of which a token is being exchanged may go on.
EndSessions(rs) ==
    /\ ended' = ended \cup rs
    /\ outlived' = outlived \cup {r \in rs : ExchangedIn(r)}

\* revokeRefreshToken, and logging out with a token in a cookie
RevokeRefreshToken(t) ==
    /\ t \in held
    /\ tokens[t] # None
    /\ tokens' = [tokens EXCEPT ![t].revoked = TRUE]
    /\ IF Live(t) THEN EndSessions({tokens[t].root})
       ELSE UNCHANGED <<ended, outlived>>
    /\ UNCHANGED <<account, Lockout, calls, Hands, lapsed, forked, Recovery,
                   faults, begun>>

\* revokeAllUserRefreshTokens
AllRevoked ==
    [t \in Tokens |-> IF tokens[t] = None THEN None
                      ELSE [tokens[t] EXCEPT !.revoked = TRUE]]

\* The sessions that have begun
Roots == {tokens[t].root : t \in Tokens \ Fresh}

\* logout of an authenticated user, from all devices
Logout ==
    /\ tokens' = AllRevoked
    /\ EndSessions(Roots)
    /\ UNCHANGED <<account, Lockout, calls, Hands, lapsed, forked, Recovery,
                   faults, begun>>

\* adminUpdateUserPassword signs the user out, updateUserPassword does not.
UpdateUserPassword ==
    /\ account = "open"
    /\ ClearAttempts
    /\ \/ /\ tokens' = AllRevoked
          /\ EndSessions(Roots)
       \/ UNCHANGED <<tokens, ended, outlived>>
    /\ UNCHANGED <<account, calls, Hands, lapsed, forked, Recovery, faults, begun>>

Expire(t) ==
    /\ Live(t)
    /\ tokens' = [tokens EXCEPT ![t].expired = TRUE]
    /\ lapsed' = lapsed \cup {tokens[t].root}
    /\ UNCHANGED <<account, Lockout, calls, Hands, ended, forked, outlived,
                   Recovery, faults, begun>>

------------------------------------------------------------------------------
(* Resetting the password                                                  *)

Usable(x) == resets[x] # None /\ ~resets[x].used /\ ~resets[x].expired

Requested == {c \in Calls : At(c, "request")}

\* revokeAllUserPasswordResetTokens
OthersUsed ==
    [x \in Resets |-> IF resets[x] = None THEN None
                      ELSE [resets[x] EXCEPT !.used = TRUE]]

\* requestPasswordReset: who asks for an unknown user gets the same response.
RequestPasswordReset(c) ==
    IF account = "open"
    THEN /\ Begin(c, "request", None, None)
         /\ resets' = OthersUsed
         /\ UNCHANGED <<account, Lockout, tokens, Hands, Chains, uses, doubled,
                        faults>>
    ELSE UNCHANGED vars

\* The new token is stored and sent.
StoreReset(c) ==
    /\ At(c, "request")
    /\ IF MayStore
       THEN \E x \in Resets :
               /\ resets[x] = None
               /\ resets' = [resets EXCEPT
                                 ![x] = [used |-> FALSE, expired |-> FALSE]]
               /\ doubled' = IF Requested = {c} THEN doubled
                             ELSE doubled \cup Resets
       ELSE UNCHANGED <<resets, doubled>>
    /\ End(c)
    /\ UNCHANGED <<account, Lockout, tokens, Hands, Chains, uses, faults, begun>>

ExpireReset(x) ==
    /\ Usable(x)
    /\ resets' = [resets EXCEPT ![x].expired = TRUE]
    /\ UNCHANGED <<account, Lockout, tokens, calls, Hands, Chains, uses, doubled,
                   faults, begun>>

\* resetPassword looks the token up.
ResetPassword(c, x) ==
    /\ Usable(x)
    /\ Begin(c, "reset", None, x)
    /\ doubled' = IF \E d \in Calls : calls[d] # None /\ calls[d].reset = x
                  THEN doubled \cup {x} ELSE doubled
    /\ UNCHANGED <<Rows, Hands, wrongs, lost, Chains, uses, faults>>

\* Fault: the token is not marked as used.
SpentNever(x) == resets' = resets

\* markPasswordResetTokenAsUsed
Spent(x) == resets' = [resets EXCEPT ![x].used = TRUE]

\* Its transaction, which does not look at the token again: the password is
\* changed, all sessions end and a new one begins.
CommitReset(c) ==
    LET x == calls[c].reset IN
    /\ At(c, "reset")
    /\ IF MayStore
       THEN /\ ClearAttempts
            /\ Spent(x)
            /\ EndSessions(Roots)
            /\ \E t \in Fresh :
                  /\ tokens' = [AllRevoked EXCEPT ![t] = New(t, "graphql")]
                  /\ WillReturn(t)
            /\ uses' = [uses EXCEPT ![x] = IF @ < 2 THEN @ + 1 ELSE @]
       ELSE UNCHANGED <<Lockout, resets, ended, outlived, tokens, Hands, uses>>
    /\ End(c)
    /\ UNCHANGED <<account, lapsed, forked, doubled, faults, begun>>

------------------------------------------------------------------------------

\* Deleting the user deletes what references it.
DeleteUser ==
    /\ account = "open"
    /\ account' = "deleted"
    /\ tokens' = [t \in Tokens |-> None]
    /\ resets' = [x \in Resets |-> None]
    /\ UNCHANGED <<Lockout, calls, Hands, Chains, uses, doubled, faults, begun>>

\* The process ends with what it had in memory, answers that were not sent
\* among it.
Exit ==
    /\ answers # {} \/ \E c \in Calls : calls[c] # None
    /\ faults < MaxFaults
    /\ faults' = faults + 1
    /\ calls' = [c \in Calls |-> None]
    /\ forked' = forked \cup {tokens[calls[c].token].root :
                     c \in {d \in Calls : /\ At(d, "revoke")
                                          /\ tokens[calls[d].token] # None}}
    /\ answers' = {}
    /\ unanswered' = unanswered \cup answers
    /\ UNCHANGED <<Rows, held, wrongs, lost, ended, lapsed, outlived, uses,
                   doubled, begun>>

Request(c) ==
    \/ RestSignUp(c) \/ SignIn(c) \/ RestSignIn(c) \/ SignInWithOAuth(c)
    \/ \E t \in Tokens : Exchange(c, t, "exchange") \/ Exchange(c, t, "rotate")
    \/ RequestPasswordReset(c)
    \/ \E x \in Resets : ResetPassword(c, x)

Step(c) ==
    \/ RecordWrong(c) \/ RecordRight(c) \/ StoreToken(c)
    \/ RefreshToken(c) \/ PersistRefreshToken(c) \/ RevokeRotated(c)
    \/ StoreReset(c) \/ CommitReset(c)

Next ==
    \/ \E c \in Calls : Request(c) \/ Step(c)
    \/ \E t \in Tokens : \/ SignUp(t) \/ RevokeRefreshToken(t) \/ Expire(t)
                         \/ Answer(t) \/ AnswerLost(t)
    \/ \E x \in Resets : ExpireReset(x)
    \/ Logout \/ UpdateUserPassword \/ LockPasses \/ DeleteUser \/ Exit

Spec == Init /\ [][Next]_vars

------------------------------------------------------------------------------
(* Properties                                                              *)

\* The type of the tables, of what is in memory and of the history
TypeOK ==
    /\ account \in {"new", "open", "deleted"}
    /\ attempts \in 0 .. MaxAttempts
    /\ lockedUntil \in {"none", "future", "past"}
    /\ tokens \in [Tokens -> Token \cup {None}]
    /\ resets \in [Resets -> Reset \cup {None}]
    /\ calls \in [Calls -> Call \cup {None}]
    /\ held \subseteq Tokens /\ answers \subseteq Tokens
    /\ unanswered \subseteq Tokens
    /\ wrongs \in 0 .. MaxAttempts
    /\ lost \in BOOLEAN
    /\ ended \subseteq Tokens /\ lapsed \subseteq Tokens
    /\ forked \subseteq Tokens /\ outlived \subseteq Tokens
    /\ uses \in [Resets -> 0 .. 2]
    /\ doubled \subseteq Resets
    /\ faults \in Nat /\ begun \in Nat

\* A session has one live token, but for the two of an exchange that is about to
\* revoke the old one, unless two exchanges of one token overlapped or a
\* revocation was lost.
OneLive ==
    \A t, n \in Tokens :
        Live(t) /\ Live(n) /\ t # n /\ tokens[t].root = tokens[n].root =>
            \/ tokens[t].root \in forked
            \/ \E c \in Calls : At(c, "revoke") /\ calls[c].token \in {t, n}

\* The tokens that are returned sooner or later, if no answer is lost
Given == held \cup answers \cup unanswered

\* A client is not signed out by exchanging tokens: a session that was not ended
\* and did not expire has a live token that a client holds or is being sent,
\* through overlapping exchanges, failed revocations and crashes.  Only a lost
\* answer ends it for the client: both ways of exchanging a token revoke the old
\* one before the client has the new one, which then is the live one.
StillSignedIn ==
    \A r \in Roots \ (ended \cup lapsed) :
        \E t \in Given : Live(t) /\ tokens[t].root = r

\* A session that was signed out stays signed out, unless one of its tokens was
\* being exchanged at that moment or had more than one live successor.
EndedStaysEnded ==
    \A r \in ended \ (forked \cup outlived) :
        ~\E t \in Tokens : Live(t) /\ tokens[t].root = r

\* One token resets the password, once: a newer one replaces an older one, and
\* none is used twice, unless two requests overlapped.
ResetOnce ==
    /\ \A x, y \in Resets :
           Usable(x) /\ Usable(y) => x = y \/ {x, y} \subseteq doubled
    /\ \A x \in Resets \ doubled : uses[x] <= 1

\* The account has been locked when the count, or the number of wrong passwords
\* since the count was last cleared, has reached the threshold, unless one wrong
\* password was recorded over another one.
LockoutHolds ==
    attempts >= Threshold \/ (wrongs >= Threshold /\ ~lost) => lockedUntil # "none"

\* A deleted user has no tokens of any kind, also when requests of the user were
\* in flight.
NothingDangles ==
    account # "open" =>
        Fresh = Tokens /\ \A x \in Resets : resets[x] = None
=============================================================================
