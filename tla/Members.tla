------------------------------- MODULE Members -------------------------------
(***************************************************************************)
(* Memberships of one organization, the requests for them, and blocks.     *)
(* Each mutation reads, decides, and writes later by the key it read; the  *)
(* decision is not looked at again when it is written.  Mutations run at   *)
(* the same time.  Who may call a mutation is left out: every caller has   *)
(* passed the authorization check.                                         *)
(***************************************************************************)
EXTENDS Naturals, FiniteSets

CONSTANTS
    Users,
    Ids,        \* ids that requests can get
    Calls,      \* mutations that can be in flight
    None        \* no request, no mutation

VARIABLES
    accounts,   \* users: "new" before the sign-up, "open", "deleted"
    members,    \* organization_memberships
    requests,   \* membership_requests: requests[u] is the request of u, or None
    fresh,      \* ids that no request has had
    required,   \* userRegistrationRequired of the organization
    blocked,    \* blocked_users
    calls,      \* what each mutation in flight has in memory
    raced,      \* history: requests about which two decisions overlapped
    admitted    \* history: the user whom the acceptance of a request made a
                \* member, or None

vars == <<accounts, members, requests, fresh, required, blocked, calls,
          raced, admitted>>

Request == [id : Ids, status : {"pending", "approved", "rejected"}]

\* A mutation in flight: the user it is about, what it will write, and for a
\* decision on a request the id of the request it read.
Call == [user : Users,
         pc : {"signUp", "request", "join", "add", "attend", "leave",
               "block", "unblock", "accept", "reject", "cancel"},
         id : Ids \cup {None},
         required : BOOLEAN]

ASSUME NoneAssumption == None \notin Users \cup Request \cup Call \cup Ids

Decisions == {"accept", "reject", "cancel"}

Init ==
    /\ accounts \in [Users -> {"new", "open"}]
    /\ members = {}
    /\ requests = [u \in Users |-> None]
    /\ fresh = Ids
    /\ required \in BOOLEAN
    /\ blocked = {}
    /\ calls = [c \in Calls |-> None]
    /\ raced = {}
    /\ admitted = [id \in Ids |-> None]

------------------------------------------------------------------------------
(* What the mutations read                                                 *)

\* Two decisions on one request are in flight.
Races(id) == \E c \in Calls : calls[c] # None /\ calls[c].id = id

Begin(c, u, pc, id) ==
    /\ calls[c] = None
    /\ calls' = [calls EXCEPT ![c] =
                    [user |-> u, pc |-> pc, id |-> id,
                     required |-> IF pc = "signUp" THEN required ELSE FALSE]]
    /\ raced' = IF id # None /\ Races(id) THEN raced \cup {id} ELSE raced
    /\ UNCHANGED <<accounts, members, requests, fresh, required, blocked,
                   admitted>>

\* signUp reads whether the organization requires registration.
SignUp(c, u) == accounts[u] = "new" /\ Begin(c, u, "signUp", None)

\* sendMembershipRequest refuses who has a request, whatever became of it, and
\* organizations that require none; it does not look for a membership.
SendMembershipRequest(c, u) ==
    /\ accounts[u] = "open"
    /\ requests[u] = None
    /\ required
    /\ Begin(c, u, "request", None)

\* joinPublicOrganization reads whether registration is required, and looks for
\* a membership only in the transaction that inserts one.
JoinPublicOrganization(c, u) ==
    /\ accounts[u] = "open"
    /\ ~required
    /\ Begin(c, u, "join", None)

CreateOrganizationMembership(c, u) ==
    /\ accounts[u] = "open"
    /\ u \notin members
    /\ Begin(c, u, "add", None)

\* acceptEventInvitation makes a member of who is none when it looks.
AcceptEventInvitation(c, u) ==
    /\ accounts[u] = "open"
    /\ u \notin members
    /\ Begin(c, u, "attend", None)

DeleteOrganizationMembership(c, u) ==
    u \in members /\ Begin(c, u, "leave", None)

BlockUser(c, u) ==
    u \in members /\ u \notin blocked /\ Begin(c, u, "block", None)

UnblockUser(c, u) == u \in blocked /\ Begin(c, u, "unblock", None)

\* Fault: the status of the request is not looked at.
MayDecideAny(u, pc) == requests[u] # None /\ (pc = "accept" => u \notin members)

\* The request is pending, and nobody accepts the request of a member.
MayDecide(u, pc) ==
    /\ requests[u] # None
    /\ requests[u].status = "pending"
    /\ pc = "accept" => u \notin members

\* acceptMembershipRequest, rejectMembershipRequest, cancelMembershipRequest
Decide(c, u, pc) == MayDecide(u, pc) /\ Begin(c, u, pc, requests[u].id)

------------------------------------------------------------------------------
(* What they write                                                         *)

At(c, pc) == calls[c] # None /\ calls[c].pc = pc

End(c) == calls' = [calls EXCEPT ![c] = None]

\* Fault: the id of a request is not unique.
AskAgain(u) ==
    \E id \in fresh :
        /\ requests' = [requests EXCEPT ![u] = [id |-> id, status |-> "pending"]]
        /\ fresh' = fresh

\* A new pending request
Ask(u) ==
    \E id \in fresh :
        /\ requests' = [requests EXCEPT ![u] = [id |-> id, status |-> "pending"]]
        /\ fresh' = fresh \ {id}

\* Fault: the membership does not reference the user.
MayInsertAny(u) == u \notin members

\* Insertion of a membership: its user exists, and its key is unique.
MayInsert(u) == accounts[u] = "open" /\ u \notin members

\* The transaction of signUp creates the user, and a membership or a request.
CommitSignUp(c) ==
    LET u == calls[c].user IN
    /\ At(c, "signUp")
    /\ IF accounts[u] # "new"
       THEN UNCHANGED <<accounts, members, requests, fresh>>
       ELSE /\ accounts' = [accounts EXCEPT ![u] = "open"]
            /\ IF calls[c].required
               THEN Ask(u) /\ UNCHANGED members
               ELSE /\ members' = members \cup {u}
                    /\ UNCHANGED <<requests, fresh>>
    /\ End(c)
    /\ UNCHANGED <<required, blocked, raced, admitted>>

\* The request is inserted, unless the user has one meanwhile or is deleted.
InsertRequest(c) ==
    LET u == calls[c].user IN
    /\ At(c, "request")
    /\ IF requests[u] = None /\ accounts[u] = "open"
       THEN Ask(u)
       ELSE UNCHANGED <<requests, fresh>>
    /\ End(c)
    /\ UNCHANGED <<accounts, members, required, blocked, raced, admitted>>

\* A membership that comes from no request
InsertMember(c) ==
    LET u == calls[c].user IN
    /\ At(c, "join") \/ At(c, "add") \/ At(c, "attend")
    /\ members' = IF MayInsert(u) THEN members \cup {u} ELSE members
    /\ End(c)
    /\ UNCHANGED <<accounts, requests, fresh, required, blocked, raced, admitted>>

\* The membership of the user is deleted, be it the one that was read or not.
DeleteMember(c) ==
    LET u == calls[c].user IN
    /\ At(c, "leave")
    /\ members' = members \ {u}
    /\ End(c)
    /\ UNCHANGED <<accounts, requests, fresh, required, blocked, raced, admitted>>

\* A block is inserted, unless the user is deleted, or it is deleted.
WriteBlock(c) ==
    LET u == calls[c].user IN
    /\ \/ /\ At(c, "block")
          /\ blocked' = IF accounts[u] = "open" THEN blocked \cup {u} ELSE blocked
       \/ At(c, "unblock") /\ blocked' = blocked \ {u}
    /\ End(c)
    /\ UNCHANGED <<accounts, members, requests, fresh, required, raced, admitted>>

\* Fault: the request of the user is taken, whatever its id.
FoundOfUser(u, id) == requests[u] # None

\* The request that was read is still there.
Found(u, id) == requests[u] # None /\ requests[u].id = id

\* Fault: the approval is not in the transaction of the membership.
ApprovedApart(u, id) == Found(u, id)

\* The approval commits: the request is there and the membership is inserted.
Approved(u, id) == Found(u, id) /\ MayInsert(u)

\* The transaction of acceptMembershipRequest approves the request and inserts
\* the membership, or rolls back.
CommitAccept(c) ==
    LET u == calls[c].user
        id == calls[c].id IN
    /\ At(c, "accept")
    /\ requests' = IF Approved(u, id)
                   THEN [requests EXCEPT ![u].status = "approved"] ELSE requests
    /\ members' = IF Approved(u, id) /\ MayInsert(u)
                  THEN members \cup {u} ELSE members
    /\ admitted' = IF Approved(u, id) /\ MayInsert(u)
                   THEN [admitted EXCEPT ![id] = u] ELSE admitted
    /\ End(c)
    /\ UNCHANGED <<accounts, fresh, required, blocked, raced>>

\* The update of rejectMembershipRequest, by id
WriteReject(c) ==
    LET u == calls[c].user IN
    /\ At(c, "reject")
    /\ requests' = IF Found(u, calls[c].id)
                   THEN [requests EXCEPT ![u].status = "rejected"] ELSE requests
    /\ End(c)
    /\ UNCHANGED <<accounts, members, fresh, required, blocked, raced, admitted>>

\* The deletion of cancelMembershipRequest, by id
WriteCancel(c) ==
    LET u == calls[c].user IN
    /\ At(c, "cancel")
    /\ requests' = IF Found(u, calls[c].id)
                   THEN [requests EXCEPT ![u] = None] ELSE requests
    /\ End(c)
    /\ UNCHANGED <<accounts, members, fresh, required, blocked, raced, admitted>>

------------------------------------------------------------------------------
(* Mutations of one statement                                              *)

\* deleteUser and deleteCurrentUser: whatever references the user goes with it.
DeleteUser(u) ==
    /\ accounts[u] = "open"
    /\ accounts' = [accounts EXCEPT ![u] = "deleted"]
    /\ members' = members \ {u}
    /\ requests' = [requests EXCEPT ![u] = None]
    /\ blocked' = blocked \ {u}
    /\ UNCHANGED <<fresh, required, calls, raced, admitted>>

UpdateOrganization ==
    /\ required' = ~required
    /\ UNCHANGED <<accounts, members, requests, fresh, blocked, calls, raced,
                   admitted>>

Mutation(c, u) ==
    \/ SignUp(c, u) \/ SendMembershipRequest(c, u)
    \/ JoinPublicOrganization(c, u) \/ CreateOrganizationMembership(c, u)
    \/ AcceptEventInvitation(c, u) \/ DeleteOrganizationMembership(c, u)
    \/ BlockUser(c, u) \/ UnblockUser(c, u)
    \/ \E pc \in Decisions : Decide(c, u, pc)

Step(c) ==
    \/ CommitSignUp(c) \/ InsertRequest(c) \/ InsertMember(c) \/ DeleteMember(c)
    \/ WriteBlock(c) \/ CommitAccept(c) \/ WriteReject(c) \/ WriteCancel(c)

Next ==
    \/ \E c \in Calls : Step(c) \/ \E u \in Users : Mutation(c, u)
    \/ \E u \in Users : DeleteUser(u)
    \/ UpdateOrganization

Spec == Init /\ [][Next]_vars

------------------------------------------------------------------------------
(* Properties                                                              *)

\* The type of the tables, of what is in memory and of the history; the id of a
\* request, or one that a decision has in memory, is given to no other request.
TypeOK ==
    /\ accounts \in [Users -> {"new", "open", "deleted"}]
    /\ members \subseteq Users
    /\ requests \in [Users -> Request \cup {None}]
    /\ fresh \subseteq Ids
    /\ required \in BOOLEAN
    /\ blocked \subseteq Users
    /\ calls \in [Calls -> Call \cup {None}]
    /\ raced \subseteq Ids
    /\ admitted \in [Ids -> Users \cup {None}]
    /\ \A u \in Users : requests[u] # None => requests[u].id \notin fresh
    /\ \A c \in Calls : calls[c] # None => calls[c].id \notin fresh

\* Only users who exist have a membership, a request or a block, also when the
\* user is deleted while mutations about the user are in flight.
NothingDangles ==
    \A u \in Users :
        accounts[u] # "open" =>
            u \notin members /\ requests[u] = None /\ u \notin blocked

\* A request on record as approved is the one whose acceptance made its user a
\* member, whatever other decisions overlapped and whatever was sent anew.
ApprovedJoined ==
    \A u \in Users :
        requests[u] # None /\ requests[u].status = "approved" =>
            admitted[requests[u].id] = u

\* Who became a member by a request has that request on record as approved,
\* unless two decisions about it overlapped or the user was deleted.
AdmittedOnRecord ==
    \A id \in Ids :
        admitted[id] # None =>
            \/ id \in raced
            \/ accounts[admitted[id]] = "deleted"
            \/ requests[admitted[id]] = [id |-> id, status |-> "approved"]

\* A request that was decided is never decided again or withdrawn, unless two
\* decisions about it overlapped or its user is deleted.
DecidedOnce ==
    [][\A u \in Users :
          requests[u] # None /\ requests[u].status # "pending" =>
              \/ requests'[u] = requests[u]
              \/ requests[u].id \in raced
              \/ accounts'[u] = "deleted"]_vars
=============================================================================
