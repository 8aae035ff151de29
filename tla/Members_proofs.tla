---------------------------- MODULE Members_proofs ----------------------------
(***************************************************************************)
(* Proofs about Members.                                                   *)
(***************************************************************************)
EXTENDS Members, TLAPS

\* Requests have different ids, the id of a request admitted nobody but its
\* user, and an id that is fresh has admitted nobody.
IdsApart ==
    /\ \A u, w \in Users :
          requests[u] # None /\ requests[w] # None
          /\ requests[u].id = requests[w].id => u = w
    /\ \A u \in Users :
          requests[u] # None => admitted[requests[u].id] \in {u, None}
    /\ \A id \in fresh : admitted[id] = None

\* The id that a decision has in memory is that of a request of its user.
OwnId(q) ==
    /\ q.pc \in Decisions <=> q.id # None
    /\ q.id # None => \A w \in Users : requests[w] # None /\ requests[w].id = q.id =>
                                          w = q.user
    /\ q.id # None => admitted[q.id] \in {q.user, None}

\* What a decision that no other one overlaps with has read is still so.
Current(q) ==
    q.id # None /\ q.id \notin raced =>
        \/ accounts[q.user] = "deleted"
        \/ requests[q.user] = [id |-> q.id, status |-> "pending"]

Reads == \A c \in Calls : calls[c] # None => OwnId(calls[c]) /\ Current(calls[c])

\* Two decisions on one request have raced.
Serial ==
    \A c, d \in Calls :
        calls[c] # None /\ calls[d] # None /\ calls[c].id # None
        /\ calls[c].id = calls[d].id => c = d \/ calls[c].id \in raced

\* The inductive invariant of the memberships
MembersInv ==
    /\ TypeOK /\ IdsApart /\ Reads /\ Serial
    /\ NothingDangles /\ ApprovedJoined /\ AdmittedOnRecord

------------------------------------------------------------------------------

\* Nobody is a member at first.
LEMMA InitHolds == Init => MembersInv
  <1> SUFFICES ASSUME Init PROVE MembersInv
    OBVIOUS
  <1>1. TypeOK
    BY DEF Init, TypeOK
  <1>2. IdsApart /\ Reads /\ Serial
    BY DEF Init, IdsApart, Reads, Serial
  <1>3. NothingDangles /\ ApprovedJoined /\ AdmittedOnRecord
    BY DEF Init, NothingDangles, ApprovedJoined, AdmittedOnRecord
  <1> QED
    BY <1>1, <1>2, <1>3 DEF MembersInv

\* A mutation that begins has in memory the request it read, if any.
LEMMA BeginKeeps ==
  ASSUME MembersInv, NEW c \in Calls, NEW u \in Users,
         NEW pc \in {"signUp", "request", "join", "add", "attend", "leave",
                     "block", "unblock", "accept", "reject", "cancel"},
         NEW id \in Ids \cup {None},
         Begin(c, u, pc, id),
         pc \in Decisions <=> id # None,
         id # None => requests[u] = [id |-> id, status |-> "pending"]
  PROVE  MembersInv'
  <1> DEFINE q == [user |-> u, pc |-> pc, id |-> id,
                   required |-> IF pc = "signUp" THEN required ELSE FALSE]
  <1> USE DEF MembersInv
  <1>1. q \in Call
    BY DEF Call, TypeOK
  <1>2. /\ calls' = [calls EXCEPT ![c] = q]
        /\ calls[c] = None
        /\ raced' = IF id # None /\ Races(id) THEN raced \cup {id} ELSE raced
        /\ UNCHANGED <<accounts, members, requests, fresh, required, blocked,
                       admitted>>
    BY DEF Begin
  <1>3. q.user = u /\ q.pc = pc /\ q.id = id /\ q' = q
    BY <1>2
  <1> HIDE DEF q
  <1>0. id # None => requests[u] # None /\ requests[u].id = id
    BY NoneAssumption DEF Request
  <1>4. calls'[c] = q /\ \A d \in Calls : d # c => calls'[d] = calls[d]
    BY <1>2 DEF TypeOK
  <1>5. raced \subseteq raced' /\ raced' \subseteq Ids
    BY <1>2 DEF TypeOK
  <1>6. id \notin fresh
    BY <1>0, NoneAssumption DEF TypeOK
  <1>7. TypeOK'
    <2>1. calls' \in [Calls -> Call \cup {None}]
      BY <1>1, <1>2 DEF TypeOK
    <2>2. \A d \in Calls : calls'[d] # None => calls'[d].id \notin fresh'
      BY <1>2, <1>3, <1>4, <1>6 DEF TypeOK
    <2> QED
      BY <1>2, <1>5, <2>1, <2>2 DEF TypeOK
  <1>8. Reads'
    <2>1. OwnId(q)' /\ Current(q)'
      <3>1. id # None => \A w \in Users :
               requests[w] # None /\ requests[w].id = id => w = u
        BY <1>0 DEF IdsApart
      <3>2. id # None => admitted[id] \in {u, None}
        BY <1>0 DEF IdsApart
      <3> QED
        BY <1>2, <1>3, <3>1, <3>2 DEF OwnId, Current
    <2>2. ASSUME NEW d \in Calls, d # c, calls[d] # None
          PROVE  OwnId(calls[d])' /\ Current(calls[d])'
      BY <1>2, <1>4, <1>5, <2>2 DEF Reads, OwnId, Current
    <2> QED
      BY <1>3, <1>4, <2>1, <2>2 DEF Reads, OwnId, Current
  <1>9. Serial'
    BY <1>2, <1>3, <1>4, <1>5 DEF Serial, Races
  <1>10. IdsApart' /\ NothingDangles' /\ ApprovedJoined' /\ AdmittedOnRecord'
    BY <1>2, <1>5 DEF IdsApart, NothingDangles, ApprovedJoined, AdmittedOnRecord
  <1> QED
    BY <1>7, <1>8, <1>9, <1>10

\* So does every mutation.
LEMMA MutationsKeep ==
  ASSUME MembersInv, NEW c \in Calls, NEW u \in Users, Mutation(c, u)
  PROVE  MembersInv'
  <1>1. CASE \E pc \in {"signUp", "request", "join", "add", "attend", "leave",
                        "block", "unblock"} : Begin(c, u, pc, None)
    BY <1>1, BeginKeeps DEF Decisions
  <1>2. ASSUME NEW pc \in Decisions, Decide(c, u, pc) PROVE MembersInv'
    <2>1. requests[u] \in Request /\ requests[u].status = "pending"
      BY <1>2 DEF Decide, MayDecide, MembersInv, TypeOK
    <2>2. requests[u] = [id |-> requests[u].id, status |-> "pending"]
          /\ requests[u].id \in Ids
      BY <2>1 DEF Request
    <2>3. requests[u].id # None
      BY <2>2, NoneAssumption
    <2> QED
      BY <1>2, <2>2, <2>3, BeginKeeps DEF Decide, Decisions
  <1> QED
    BY <1>1, <1>2 DEF Mutation, SignUp, SendMembershipRequest,
       JoinPublicOrganization, CreateOrganizationMembership,
       AcceptEventInvitation, DeleteOrganizationMembership, BlockUser, UnblockUser

------------------------------------------------------------------------------

\* A call that ends leaves the others as they were.
LEMMA EndIs ==
  ASSUME MembersInv, NEW c \in Calls, End(c)
  PROVE  /\ calls' \in [Calls -> Call \cup {None}]
         /\ \A d \in Calls : calls'[d] # None => d # c /\ calls'[d] = calls[d]
  BY DEF End, MembersInv, TypeOK

\* What stays of the invariant when requests and what they led to stay
LEMMA OthersKeep ==
  ASSUME MembersInv,
         UNCHANGED <<requests, fresh, raced, admitted>>,
         calls' \in [Calls -> Call \cup {None}],
         \A d \in Calls : calls'[d] # None => calls'[d] = calls[d],
         required' \in BOOLEAN,
         accounts' = accounts, members' \subseteq Users, blocked' \subseteq Users,
         \A u \in Users : accounts[u] # "open" =>
             u \notin members' /\ u \notin blocked'
  PROVE  MembersInv'
  <1> USE DEF MembersInv
  <1>1. TypeOK'
    BY DEF TypeOK
  <1>2. Reads'
    BY DEF Reads, OwnId, Current
  <1>3. Serial'
    BY DEF Serial
  <1>4. IdsApart' /\ NothingDangles' /\ ApprovedJoined' /\ AdmittedOnRecord'
    BY DEF IdsApart, NothingDangles, ApprovedJoined, AdmittedOnRecord
  <1> QED
    BY <1>1, <1>2, <1>3, <1>4

\* Memberships and blocks that are written, and updates of the organization
LEMMA MembershipsKeep ==
  ASSUME MembersInv,
         \/ \E c \in Calls : InsertMember(c) \/ DeleteMember(c) \/ WriteBlock(c)
         \/ UpdateOrganization
         \/ UNCHANGED vars
  PROVE  MembersInv'
  <1> USE DEF MembersInv
  <1>1. ASSUME NEW c \in Calls, InsertMember(c) \/ DeleteMember(c) \/ WriteBlock(c)
        PROVE  MembersInv'
    <2>1. calls[c] # None /\ calls[c].user \in Users /\ End(c)
      BY <1>1 DEF InsertMember, DeleteMember, WriteBlock, At, TypeOK, Call
    <2>2. CASE InsertMember(c)
      BY <2>1, <2>2, EndIs, OthersKeep
         DEF InsertMember, MayInsert, TypeOK, NothingDangles
    <2>3. CASE DeleteMember(c)
      BY <2>1, <2>3, EndIs, OthersKeep DEF DeleteMember, TypeOK, NothingDangles
    <2>4. CASE WriteBlock(c)
      BY <2>1, <2>4, EndIs, OthersKeep DEF WriteBlock, TypeOK, NothingDangles
    <2> QED
      BY <1>1, <2>2, <2>3, <2>4
  <1>2. CASE UpdateOrganization \/ UNCHANGED vars
    BY <1>2, OthersKeep
       DEF UpdateOrganization, vars, TypeOK, NothingDangles
  <1> QED
    BY <1>1, <1>2

\* A request that is inserted for a user who has none
LEMMA AskKeeps ==
  ASSUME MembersInv, NEW c \in Calls, End(c), NEW u \in Users, Ask(u),
         requests[u] = None,
         \/ accounts[u] = "open" /\ accounts' = accounts
         \/ accounts[u] = "new" /\ accounts' = [accounts EXCEPT ![u] = "open"],
         UNCHANGED <<members, required, blocked, raced, admitted>>
  PROVE  MembersInv'
  <1> USE DEF MembersInv
  <1>1. PICK id \in fresh :
           /\ requests' = [requests EXCEPT ![u] = [id |-> id, status |-> "pending"]]
           /\ fresh' = fresh \ {id}
    BY DEF Ask
  <1> DEFINE r == [id |-> id, status |-> "pending"]
  <1>2. r \in Request /\ r.id = id /\ r.status = "pending"
    BY DEF Request, TypeOK
  <1>3. r # None /\ id # None
    BY <1>2, NoneAssumption DEF TypeOK
  <1>4. requests'[u] = r /\ \A w \in Users : w # u => requests'[w] = requests[w]
    BY <1>1 DEF TypeOK
  <1> HIDE DEF r
  <1>5. /\ accounts' \in [Users -> {"new", "open", "deleted"}]
        /\ accounts'[u] = "open"
        /\ \A w \in Users : w # u => accounts'[w] = accounts[w]
    BY DEF TypeOK
  <1>6. \A w \in Users : accounts[w] = "deleted" => accounts'[w] = "deleted"
    BY <1>5
  <1>7. TypeOK'
    <2>1. requests' \in [Users -> Request \cup {None}]
      BY <1>1, <1>2 DEF TypeOK, r
    <2>2. \A w \in Users : requests'[w] # None => requests'[w].id \notin fresh'
      BY <1>1, <1>2, <1>4 DEF TypeOK
    <2>3. \A d \in Calls : calls'[d] # None => calls'[d].id \notin fresh'
      BY <1>1, EndIs DEF TypeOK
    <2> QED
      BY <1>1, <1>5, <2>1, <2>2, <2>3, EndIs DEF TypeOK
  <1>8. IdsApart'
    BY <1>1, <1>2, <1>4 DEF IdsApart, TypeOK
  <1>9. Reads'
    <2> SUFFICES ASSUME NEW d \in Calls, calls'[d] # None
                 PROVE  OwnId(calls[d])' /\ Current(calls[d])'
      BY DEF Reads
    <2>1. calls'[d] = calls[d] /\ OwnId(calls[d]) /\ Current(calls[d])
          /\ calls[d].id # id /\ calls[d].user \in Users
      BY <1>1, EndIs DEF Reads, TypeOK, Call
    <2>2. OwnId(calls[d])'
      BY <1>2, <1>4, <2>1 DEF OwnId
    <2>3. Current(calls[d])'
      <3>1. calls[d].user = u /\ calls[d].id # None => calls[d].id \in raced
        BY <2>1, NoneAssumption DEF Current, OwnId, Request, TypeOK, Call
      <3> QED
        BY <1>4, <1>6, <2>1, <3>1 DEF Current
    <2> QED
      BY <2>2, <2>3
  <1>10. Serial'
    BY EndIs DEF Serial
  <1>11. NothingDangles'
    BY <1>4, <1>5 DEF NothingDangles
  <1>12. ApprovedJoined'
    BY <1>2, <1>4 DEF ApprovedJoined
  <1>13. AdmittedOnRecord'
    <2> SUFFICES ASSUME NEW i \in Ids, admitted[i] # None, i \notin raced,
                        accounts[admitted[i]] # "deleted"
                 PROVE  requests'[admitted[i]] = [id |-> i, status |-> "approved"]
      BY <1>6 DEF AdmittedOnRecord, TypeOK
    <2>1. requests[admitted[i]] = [id |-> i, status |-> "approved"]
          /\ admitted[i] \in Users
      BY DEF AdmittedOnRecord, TypeOK
    <2>2. requests[admitted[i]] # None
      <3>1. [id |-> i, status |-> "approved"] \in Request
        BY DEF Request
      <3> QED
        BY <2>1, <3>1, NoneAssumption
    <2> QED
      BY <1>4, <2>1, <2>2
  <1> QED
    BY <1>7, <1>8, <1>9, <1>10, <1>11, <1>12, <1>13

\* The request of sendMembershipRequest, and what signUp creates
LEMMA AskedKeep ==
  ASSUME MembersInv, NEW c \in Calls, InsertRequest(c) \/ CommitSignUp(c)
  PROVE  MembersInv'
  <1> USE DEF MembersInv
  <1> DEFINE u == calls[c].user
  <1>1. End(c) /\ u \in Users
    BY DEF InsertRequest, CommitSignUp, At, TypeOK, Call
  <1>2. CASE InsertRequest(c)
    <2>1. CASE requests[u] = None /\ accounts[u] = "open"
      BY <1>1, <1>2, <2>1, AskKeeps DEF InsertRequest
    <2>2. CASE ~(requests[u] = None /\ accounts[u] = "open")
      BY <1>1, <1>2, <2>2, EndIs, OthersKeep
         DEF InsertRequest, TypeOK, NothingDangles
    <2> QED
      BY <2>1, <2>2
  <1>3. CASE CommitSignUp(c) /\ accounts[u] # "new"
    BY <1>1, <1>3, EndIs, OthersKeep DEF CommitSignUp, TypeOK, NothingDangles
  <1>4. CASE CommitSignUp(c) /\ accounts[u] = "new"
    <2>1. requests[u] = None /\ u \notin members /\ u \notin blocked
      BY <1>1, <1>4 DEF NothingDangles
    <2>2. /\ accounts' = [accounts EXCEPT ![u] = "open"]
          /\ UNCHANGED <<required, blocked, raced, admitted>>
      BY <1>4 DEF CommitSignUp
    <2>3. CASE Ask(u) /\ UNCHANGED members
      BY <1>1, <1>4, <2>1, <2>2, <2>3, AskKeeps
    <2>4. CASE members' = members \cup {u} /\ UNCHANGED <<requests, fresh>>
      <3>1. /\ accounts' \in [Users -> {"new", "open", "deleted"}]
            /\ accounts'[u] = "open"
            /\ \A w \in Users : w # u => accounts'[w] = accounts[w]
        BY <1>1, <2>2 DEF TypeOK
      <3>2. TypeOK'
        BY <1>1, <2>2, <2>4, <3>1, EndIs DEF TypeOK
      <3>3. Reads'
        <4> SUFFICES ASSUME NEW d \in Calls, calls'[d] # None
                     PROVE  OwnId(calls[d])' /\ Current(calls[d])'
          BY DEF Reads
        <4>1. calls'[d] = calls[d] /\ OwnId(calls[d]) /\ Current(calls[d])
              /\ calls[d].user \in Users
          BY <1>1, EndIs DEF Reads, TypeOK, Call
        <4>2. accounts[calls[d].user] = "deleted" =>
                 accounts'[calls[d].user] = "deleted"
          BY <1>4, <3>1, <4>1
        <4> QED
          BY <2>2, <2>4, <4>1, <4>2 DEF OwnId, Current
      <3>4. Serial'
        BY <1>1, <2>2, EndIs DEF Serial
      <3>5. IdsApart' /\ ApprovedJoined'
        BY <2>2, <2>4 DEF IdsApart, ApprovedJoined
      <3>6. NothingDangles'
        BY <2>2, <2>4, <3>1 DEF NothingDangles
      <3>7. AdmittedOnRecord'
        BY <1>4, <2>2, <2>4, <3>1 DEF AdmittedOnRecord, TypeOK
      <3> QED
        BY <3>2, <3>3, <3>4, <3>5, <3>6, <3>7
    <2> QED
      BY <1>4, <2>3, <2>4 DEF CommitSignUp
  <1> QED
    BY <1>2, <1>3, <1>4

------------------------------------------------------------------------------

\* What a decision that finds its request knows of it
LEMMA FoundIs ==
  ASSUME MembersInv, NEW c \in Calls, calls[c] # None, calls[c].pc \in Decisions,
         Found(calls[c].user, calls[c].id)
  PROVE  /\ calls[c].user \in Users /\ calls[c].id \in Ids
         /\ accounts[calls[c].user] = "open"
         /\ \/ calls[c].id \in raced
            \/ requests[calls[c].user] = [id |-> calls[c].id, status |-> "pending"]
  <1> USE DEF MembersInv
  <1>1. calls[c].user \in Users /\ calls[c].id \in Ids
    BY DEF Reads, OwnId, TypeOK, Call
  <1>2. accounts[calls[c].user] = "open"
    BY <1>1 DEF NothingDangles, Found
  <1> QED
    BY <1>1, <1>2, NoneAssumption DEF Reads, Current

\* A decision that finds its request leaves nothing behind that an overlapping
\* decision without a race relies on.
LEMMA DecisionKeeps ==
  ASSUME MembersInv, NEW c \in Calls, calls[c] # None, calls[c].pc \in Decisions,
         End(c), Found(calls[c].user, calls[c].id),
         NEW r \in Request \cup {None}, r # None => r.id = calls[c].id,
         requests' = [requests EXCEPT ![calls[c].user] = r],
         \/ r = None /\ UNCHANGED <<members, admitted>>
         \/ r # None /\ r.status = "rejected" /\ UNCHANGED <<members, admitted>>
         \/ /\ r # None /\ r.status = "approved"
            /\ members' = members \cup {calls[c].user}
            /\ admitted' = [admitted EXCEPT ![calls[c].id] = calls[c].user],
         UNCHANGED <<accounts, fresh, required, blocked, raced>>
  PROVE  MembersInv'
  <1> USE DEF MembersInv
  <1> DEFINE u == calls[c].user
             id == calls[c].id
  <1>1. /\ u \in Users /\ id \in Ids
        /\ accounts[u] = "open"
        /\ id \in raced \/ requests[u] = [id |-> id, status |-> "pending"]
        /\ requests[u] # None /\ requests[u].id = id
    BY FoundIs DEF Found
  <1>2. OwnId(calls[c]) /\ id # None /\ id \notin fresh
    BY <1>1, NoneAssumption DEF Reads, TypeOK
  <1>3. requests'[u] = r /\ \A w \in Users : w # u => requests'[w] = requests[w]
    BY <1>1 DEF TypeOK
  <1>4. /\ admitted' \in [Ids -> Users \cup {None}]
        /\ \A i \in Ids : i # id => admitted'[i] = admitted[i]
        /\ admitted'[id] \in {u, None}
        /\ r # None /\ r.status = "approved" => admitted'[id] = u
    BY <1>1, <1>2 DEF TypeOK, OwnId
  <1>5. members' \subseteq members \cup {u}
    OBVIOUS
  <1>6. \A w \in Users : w # u /\ requests[w] # None => requests[w].id # id
    BY <1>1 DEF IdsApart
  <1>7. r # None => r.id = id
    OBVIOUS
  <1>8. r # None /\ r.status = "approved" =>
           r = [id |-> id, status |-> "approved"]
    BY <1>7 DEF Request
  <1>9. admitted'[id] # None =>
           \/ id \in raced
           \/ r = [id |-> id, status |-> "approved"]
    <2> SUFFICES ASSUME admitted'[id] # None, id \notin raced,
                        admitted'[id] = admitted[id]
                 PROVE  FALSE
      BY <1>1, <1>8 DEF TypeOK
    <2>1. admitted[id] = u
      BY <1>2 DEF OwnId
    <2>2. requests[u] = [id |-> id, status |-> "approved"]
      BY <1>1, <2>1 DEF AdmittedOnRecord
    <2> QED
      BY <1>1, <2>2
  <1> HIDE DEF u, id
  <1>10. TypeOK'
    <2>1. requests' \in [Users -> Request \cup {None}]
      BY DEF TypeOK
    <2>2. \A w \in Users : requests'[w] # None => requests'[w].id \notin fresh'
      BY <1>2, <1>3, <1>7 DEF TypeOK
    <2>3. \A d \in Calls : calls'[d] # None => calls'[d].id \notin fresh'
      BY EndIs DEF TypeOK
    <2> QED
      BY <1>1, <1>4, <1>5, <2>1, <2>2, <2>3, EndIs DEF TypeOK
  <1>11. IdsApart'
    BY <1>1, <1>2, <1>3, <1>4, <1>6, <1>7 DEF IdsApart, TypeOK, Request
  <1>12. Reads'
    <2> SUFFICES ASSUME NEW d \in Calls, calls'[d] # None
                 PROVE  OwnId(calls[d])' /\ Current(calls[d])'
      BY DEF Reads
    <2>1. d # c /\ calls'[d] = calls[d] /\ OwnId(calls[d]) /\ Current(calls[d])
          /\ calls[d].user \in Users /\ calls[d].id \in Ids \cup {None}
      BY EndIs DEF Reads, TypeOK, Call
    <2>2. calls[d].id = id => calls[d].user = u /\ id \in raced
      BY <1>1, <1>2, <2>1 DEF OwnId, Serial, id
    <2>3. OwnId(calls[d])'
      BY <1>1, <1>3, <1>4, <1>7, <2>1, <2>2 DEF OwnId
    <2>4. Current(calls[d])'
      <3>1. calls[d].user = u /\ calls[d].id # id /\ calls[d].id # None =>
               calls[d].id \in raced
        BY <1>1, <2>1 DEF Current
      <3> QED
        BY <1>3, <2>1, <2>2, <3>1 DEF Current
    <2> QED
      BY <2>3, <2>4
  <1>13. Serial'
    BY EndIs DEF Serial
  <1>14. NothingDangles'
    BY <1>1, <1>3, <1>5 DEF NothingDangles
  <1>15. ApprovedJoined'
    BY <1>1, <1>3, <1>4, <1>6, <1>7 DEF ApprovedJoined, TypeOK, Request
  <1>16. AdmittedOnRecord'
    <2> SUFFICES ASSUME NEW i \in Ids, admitted'[i] # None, i \notin raced,
                        accounts[admitted'[i]] # "deleted"
                 PROVE  requests'[admitted'[i]] = [id |-> i, status |-> "approved"]
      BY DEF AdmittedOnRecord
    <2>1. CASE i = id
      BY <1>3, <1>4, <1>9, <2>1
    <2>2. CASE i # id
      <3>1. requests[admitted[i]] = [id |-> i, status |-> "approved"]
            /\ admitted'[i] = admitted[i] /\ admitted[i] \in Users
        BY <1>4, <2>2 DEF AdmittedOnRecord, TypeOK
      <3>2. admitted[i] # u
        BY <1>1, <2>2, <3>1
      <3> QED
        BY <1>3, <3>1, <3>2
    <2> QED
      BY <2>1, <2>2
  <1> QED
    BY <1>10, <1>11, <1>12, <1>13, <1>14, <1>15, <1>16

\* The three decisions, whether they find their request or not
LEMMA DecisionsKeep ==
  ASSUME MembersInv, NEW c \in Calls,
         CommitAccept(c) \/ WriteReject(c) \/ WriteCancel(c)
  PROVE  MembersInv'
  <1> USE DEF MembersInv
  <1> DEFINE u == calls[c].user
             id == calls[c].id
  <1>1. calls[c] # None /\ calls[c].pc \in Decisions /\ End(c)
    BY DEF CommitAccept, WriteReject, WriteCancel, At, Decisions
  <1>2. Found(u, id) => requests[u] \in Request /\ requests[u].id = id
                        /\ u \in Users
    BY <1>1 DEF Found, TypeOK, Call
  <1>3. CASE UNCHANGED <<requests, members, admitted>>
    BY <1>1, <1>3, EndIs, OthersKeep
       DEF CommitAccept, WriteReject, WriteCancel, TypeOK, NothingDangles
  <1>4. CASE CommitAccept(c) /\ Approved(u, id)
    <2> DEFINE r == [requests[u] EXCEPT !.status = "approved"]
    <2>1. r \in Request /\ r.id = id /\ r.status = "approved" /\ Found(u, id)
      BY <1>2, <1>4 DEF Approved, Request
    <2>2. r # None
      BY <2>1, NoneAssumption
    <2>3. /\ requests' = [requests EXCEPT ![u] = r]
          /\ members' = members \cup {u}
          /\ admitted' = [admitted EXCEPT ![id] = u]
          /\ UNCHANGED <<accounts, fresh, required, blocked, raced>>
      BY <1>4 DEF CommitAccept, Approved
    <2> HIDE DEF r
    <2> QED
      BY <1>1, <2>1, <2>2, <2>3, DecisionKeeps
  <1>5. CASE WriteReject(c) /\ Found(u, id)
    <2> DEFINE r == [requests[u] EXCEPT !.status = "rejected"]
    <2>1. r \in Request /\ r.id = id /\ r.status = "rejected"
      BY <1>2, <1>5 DEF Request
    <2>2. r # None
      BY <2>1, NoneAssumption
    <2>3. /\ requests' = [requests EXCEPT ![u] = r]
          /\ UNCHANGED <<members, admitted>>
          /\ UNCHANGED <<accounts, fresh, required, blocked, raced>>
      BY <1>5 DEF WriteReject
    <2> HIDE DEF r
    <2> QED
      BY <1>1, <1>5, <2>1, <2>2, <2>3, DecisionKeeps
  <1>6. CASE WriteCancel(c) /\ Found(u, id)
    BY <1>1, <1>6, DecisionKeeps DEF WriteCancel
  <1> QED
    BY <1>3, <1>4, <1>5, <1>6 DEF CommitAccept, WriteReject, WriteCancel

\* The deletion of a user takes the request of the user along.
LEMMA DeleteUserKeeps ==
  ASSUME MembersInv, NEW u \in Users, DeleteUser(u)
  PROVE  MembersInv'
  <1> USE DEF MembersInv
  <1>1. /\ accounts' \in [Users -> {"new", "open", "deleted"}]
        /\ accounts'[u] = "deleted"
        /\ \A w \in Users : w # u => accounts'[w] = accounts[w]
    BY DEF DeleteUser, TypeOK
  <1>2. /\ requests' \in [Users -> Request \cup {None}]
        /\ requests'[u] = None
        /\ \A w \in Users : w # u => requests'[w] = requests[w]
    BY DEF DeleteUser, TypeOK
  <1>3. /\ members' = members \ {u} /\ blocked' = blocked \ {u}
        /\ UNCHANGED <<fresh, required, calls, raced, admitted>>
    BY DEF DeleteUser
  <1>4. TypeOK'
    BY <1>1, <1>2, <1>3 DEF TypeOK
  <1>5. IdsApart' /\ ApprovedJoined' /\ NothingDangles'
    BY <1>1, <1>2, <1>3 DEF IdsApart, ApprovedJoined, NothingDangles
  <1>6. AdmittedOnRecord'
    BY <1>1, <1>2, <1>3 DEF AdmittedOnRecord, TypeOK
  <1>7. Reads'
    <2> SUFFICES ASSUME NEW d \in Calls, calls[d] # None
                 PROVE  OwnId(calls[d])' /\ Current(calls[d])'
      BY <1>3 DEF Reads
    <2>1. OwnId(calls[d]) /\ Current(calls[d]) /\ calls[d].user \in Users
      BY DEF Reads, TypeOK, Call
    <2> QED
      BY <1>1, <1>2, <1>3, <2>1 DEF OwnId, Current
  <1>8. Serial'
    BY <1>3 DEF Serial
  <1> QED
    BY <1>4, <1>5, <1>6, <1>7, <1>8

\* Every step keeps the invariant.
LEMMA NextKeeps == MembersInv /\ [Next]_vars => MembersInv'
  <1> SUFFICES ASSUME MembersInv, [Next]_vars PROVE MembersInv'
    OBVIOUS
  <1>1. ASSUME NEW c \in Calls, Step(c) PROVE MembersInv'
    BY <1>1, MembershipsKeep, AskedKeep, DecisionsKeep DEF Step
  <1>2. ASSUME NEW c \in Calls, NEW u \in Users, Mutation(c, u) PROVE MembersInv'
    BY <1>2, MutationsKeep
  <1>3. ASSUME NEW u \in Users, DeleteUser(u) PROVE MembersInv'
    BY <1>3, DeleteUserKeeps
  <1>4. CASE UpdateOrganization \/ UNCHANGED vars
    BY <1>4, MembershipsKeep
  <1> QED
    BY <1>1, <1>2, <1>3, <1>4 DEF Next

------------------------------------------------------------------------------

\* What the mutations rely on holds throughout.
THEOREM Invariance == Spec => []MembersInv
  BY InitHolds, NextKeeps, PTL DEF Spec

\* The tables and the memory of the mutations are well formed, and the id of a
\* request is given out once.
THEOREM TypeCorrect == Spec => []TypeOK
  <1>1. MembersInv => TypeOK
    BY DEF MembersInv
  <1> QED
    BY <1>1, Invariance, PTL

\* Nothing is left of a user who is deleted while mutations are in flight.
THEOREM DeletedLeaveNothing == Spec => []NothingDangles
  <1>1. MembersInv => NothingDangles
    BY DEF MembersInv
  <1> QED
    BY <1>1, Invariance, PTL

\* No request is on record as approved that did not make its user a member.
THEOREM ApprovalAdmits == Spec => []ApprovedJoined
  <1>1. MembersInv => ApprovedJoined
    BY DEF MembersInv
  <1> QED
    BY <1>1, Invariance, PTL

\* Without overlapping decisions, who was admitted by a request has it on
\* record as approved.
THEOREM AdmissionsRecorded == Spec => []AdmittedOnRecord
  <1>1. MembersInv => AdmittedOnRecord
    BY DEF MembersInv
  <1> QED
    BY <1>1, Invariance, PTL

\* A step that changes a decided request is a decision that overlapped with
\* another one, or the deletion of its user.
LEMMA StepDecidesOnce ==
  ASSUME MembersInv, Next, NEW u \in Users, requests[u] # None,
         requests[u].status # "pending"
  PROVE  \/ requests'[u] = requests[u]
         \/ requests[u].id \in raced
         \/ accounts'[u] = "deleted"
  <1> USE DEF MembersInv
  <1>1. CASE UNCHANGED requests
    BY <1>1
  <1>2. ASSUME NEW w \in Users, requests[w] = None, Ask(w)
        PROVE  requests'[u] = requests[u]
    BY <1>2 DEF Ask, TypeOK
  <1>3. ASSUME NEW c \in Calls, CommitSignUp(c) \/ InsertRequest(c)
        PROVE  requests'[u] = requests[u]
    <2>1. calls[c].user \in Users
      BY <1>3 DEF CommitSignUp, InsertRequest, At, TypeOK, Call
    <2>2. accounts[calls[c].user] = "new" => requests[calls[c].user] = None
      BY <2>1 DEF NothingDangles
    <2> QED
      BY <1>2, <1>3, <2>1, <2>2 DEF CommitSignUp, InsertRequest
  <1>4. ASSUME NEW c \in Calls,
               CommitAccept(c) \/ WriteReject(c) \/ WriteCancel(c),
               requests'[u] # requests[u]
        PROVE  requests[u].id \in raced
    <2>1. calls[c] # None /\ calls[c].pc \in Decisions
      BY <1>4 DEF CommitAccept, WriteReject, WriteCancel, At, Decisions
    <2>2. Found(calls[c].user, calls[c].id)
      BY <1>4 DEF CommitAccept, WriteReject, WriteCancel, Approved
    <2>3. calls[c].user = u
      <3>1. \A r : requests' = [requests EXCEPT ![calls[c].user] = r] =>
                      calls[c].user = u
        BY <1>4 DEF TypeOK
      <3>2. CASE CommitAccept(c)
        BY <1>4, <3>1, <3>2 DEF CommitAccept
      <3>3. CASE WriteReject(c)
        BY <1>4, <3>1, <3>3 DEF WriteReject
      <3>4. CASE WriteCancel(c)
        BY <1>4, <3>1, <3>4 DEF WriteCancel
      <3> QED
        BY <1>4, <3>2, <3>3, <3>4
    <2>4. \/ calls[c].id \in raced
          \/ requests[u] = [id |-> calls[c].id, status |-> "pending"]
      BY <2>1, <2>2, <2>3, FoundIs
    <2>5. requests[u].id = calls[c].id
      BY <2>2, <2>3 DEF Found
    <2> QED
      BY <2>4, <2>5
  <1>5. ASSUME NEW w \in Users, DeleteUser(w), requests'[u] # requests[u]
        PROVE  accounts'[u] = "deleted"
    BY <1>5 DEF DeleteUser, TypeOK
  <1>6. CASE \E c \in Calls : Step(c)
    BY <1>1, <1>3, <1>4, <1>6
       DEF Step, InsertMember, DeleteMember, WriteBlock
  <1>7. CASE \E c \in Calls, w \in Users : Mutation(c, w)
    BY <1>1, <1>7 DEF Mutation, SignUp, SendMembershipRequest,
       JoinPublicOrganization, CreateOrganizationMembership,
       AcceptEventInvitation, DeleteOrganizationMembership, BlockUser,
       UnblockUser, Decide, Begin
  <1> QED
    BY <1>1, <1>5, <1>6, <1>7 DEF Next, UpdateOrganization

\* Requests are decided once unless decisions about them overlap.
THEOREM OneDecision == Spec => DecidedOnce
  <1>1. MembersInv /\ [Next]_vars =>
           [\A u \in Users :
              requests[u] # None /\ requests[u].status # "pending" =>
                  \/ requests'[u] = requests[u]
                  \/ requests[u].id \in raced
                  \/ accounts'[u] = "deleted"]_vars
    BY StepDecidesOnce
  <1> QED
    BY <1>1, Invariance, PTL DEF Spec, DecidedOnce
=============================================================================
