------------------------------ MODULE Campaigns ------------------------------
(***************************************************************************)
(* Funds, their campaigns and the pledges to them.  A campaign keeps the   *)
(* sum of its pledges in amountRaised, which the mutations of pledges      *)
(* adjust in the transaction that writes the pledge.  Mutations read,      *)
(* decide, and write later; they run at the same time.                     *)
(***************************************************************************)
EXTENDS Integers, FiniteSets, FiniteSetsExt

CONSTANTS
    Funds,          \* funds of the organization
    Users,          \* users who pledge
    CampaignIds,    \* ids that campaigns can get
    PledgeIds,      \* ids that pledges can get
    Amounts,        \* amounts that are pledged
    MaxInt,         \* largest value of an integer column
    MaxTime,        \* bound: the clock stops here
    Calls,          \* mutations that can be in flight
    None            \* no row, no mutation, argument not given

VARIABLES
    funds,          \* funds that exist
    users,          \* users who exist
    campaigns,      \* fund_campaigns, by id
    pledges,        \* fund_campaign_pledges, by id
    used,           \* ids of campaigns and pledges that a row has had
    clock,
    calls,          \* what each mutation in flight has in memory
    drifted,        \* history: campaigns a pledge of which was adjusted by an
                    \* amount read before it changed, or went with its pledger
    crossed         \* history: campaigns two updates of which overlapped

vars == <<funds, users, campaigns, pledges, used, clock, calls, drifted, crossed>>

Times == 0 .. MaxTime

Campaign == [fund : Funds, startAt : Times, endAt : Times,
             amountRaised : -MaxInt - 1 .. MaxInt]

Pledge == [campaign : CampaignIds, pledger : Users, amount : Amounts]

\* A mutation in flight: what it will write, the rows it is about, the fund of a
\* new campaign or the pledger of a new pledge, the amount or the times it was
\* given, and the amount it read.
Call == [pc : {"createCampaign", "updateCampaign", "pledge", "update", "delete"},
         campaign : CampaignIds, pledge : PledgeIds \cup {None},
         owner : Funds \cup Users \cup {None},
         amount : Amounts \cup {None}, read : Amounts \cup {None},
         startAt : Times \cup {None}, endAt : Times \cup {None}]

ASSUME AmountsAssumption ==
    /\ MaxInt \in Nat /\ MaxTime \in Nat
    /\ Amounts \subseteq 1 .. MaxInt
    /\ CampaignIds \cap PledgeIds = {}

ASSUME NoneAssumption == None \notin Campaign \cup Pledge \cup Call

Init ==
    /\ funds = Funds
    /\ users = Users
    /\ campaigns = [k \in CampaignIds |-> None]
    /\ pledges = [p \in PledgeIds |-> None]
    /\ used = {}
    /\ clock = 0
    /\ calls = [c \in Calls |-> None]
    /\ drifted = {}
    /\ crossed = {}

------------------------------------------------------------------------------
(* What the mutations read                                                 *)

PledgesOf(k) == {p \in PledgeIds : pledges[p] # None /\ pledges[p].campaign = k}

Begin(c, q) ==
    /\ calls[c] = None
    /\ calls' = [calls EXCEPT ![c] = q]
    /\ UNCHANGED <<funds, users, campaigns, pledges, used, clock, drifted>>

Blank(pc, k) ==
    [pc |-> pc, campaign |-> k, pledge |-> None, owner |-> None,
     amount |-> None, read |-> None, startAt |-> None, endAt |-> None]

\* The arguments of createFundCampaign have been validated: it ends after it
\* starts.
CreateFundCampaign(c, k, f, s, e) ==
    /\ f \in funds
    /\ s < e
    /\ k \notin used
    /\ Begin(c, [Blank("createCampaign", k) EXCEPT
                    !.owner = f, !.startAt = s, !.endAt = e])
    /\ UNCHANGED crossed

\* Fault: only times that are given together are compared.
InOrderGiven(k, s, e) == s # None /\ e # None => s < e

\* The times that an update leaves, as it reads them, are in order.  At least
\* one is given.
InOrder(k, s, e) ==
    /\ s # None \/ e # None
    /\ s # None /\ e # None => s < e
    /\ s # None /\ e = None => s < campaigns[k].endAt
    /\ s = None /\ e # None => campaigns[k].startAt < e

UpdateFundCampaign(c, k, s, e) ==
    /\ campaigns[k] # None
    /\ InOrder(k, s, e)
    /\ Begin(c, [Blank("updateCampaign", k) EXCEPT !.startAt = s, !.endAt = e])
    /\ crossed' = IF \E d \in Calls : /\ calls[d] # None
                                      /\ calls[d].pc = "updateCampaign"
                                      /\ calls[d].campaign = k
                  THEN crossed \cup {k} ELSE crossed

\* A pledge to a campaign that runs, by a user who has not pledged to it
CreateFundCampaignPledge(c, u, k, a) ==
    /\ campaigns[k] # None
    /\ u \in users
    /\ \A p \in PledgesOf(k) : pledges[p].pledger # u
    /\ campaigns[k].startAt <= clock /\ clock < campaigns[k].endAt
    /\ Begin(c, [Blank("pledge", k) EXCEPT !.owner = u, !.amount = a])
    /\ UNCHANGED crossed

\* The amount may be left out: then only the note is updated.
UpdateFundCampaignPledge(c, p, a) ==
    /\ pledges[p] # None
    /\ Begin(c, [Blank("update", pledges[p].campaign) EXCEPT
                    !.pledge = p, !.amount = a, !.read = pledges[p].amount])
    /\ UNCHANGED crossed

DeleteFundCampaignPledge(c, p) ==
    /\ pledges[p] # None
    /\ Begin(c, [Blank("delete", pledges[p].campaign) EXCEPT
                    !.pledge = p, !.read = pledges[p].amount])
    /\ UNCHANGED crossed

------------------------------------------------------------------------------
(* What they write                                                         *)

At(c, pc) == calls[c] # None /\ calls[c].pc = pc

End(c) == calls' = [calls EXCEPT ![c] = None]

\* Fault: the column has no limit.
FitsAlways(k, by) == k \in CampaignIds

\* amountRaised of a campaign is increased, which must fit the column.
Fits(k, by) ==
    campaigns[k] # None => campaigns[k].amountRaised + by \in -MaxInt - 1 .. MaxInt

Raise(k, by) ==
    campaigns' = IF campaigns[k] = None THEN campaigns
                 ELSE [campaigns EXCEPT ![k].amountRaised = @ + by]

\* Nothing is written: the mutation fails, and its transaction rolls back.
Fail(c) ==
    /\ End(c)
    /\ UNCHANGED <<funds, users, campaigns, pledges, used, clock, drifted, crossed>>

\* The campaign is inserted, unless its fund is deleted.
InsertCampaign(c) ==
    LET q == calls[c] IN
    /\ At(c, "createCampaign")
    /\ IF q.owner \in funds /\ q.campaign \notin used
       THEN /\ campaigns' = [campaigns EXCEPT ![q.campaign] =
                   [fund |-> q.owner, startAt |-> q.startAt, endAt |-> q.endAt,
                    amountRaised |-> 0]]
            /\ used' = used \cup {q.campaign}
            /\ End(c)
            /\ UNCHANGED <<funds, users, pledges, clock, drifted, crossed>>
       ELSE Fail(c)

\* The times that were given are written, those that were not are left.
WriteCampaign(c) ==
    LET q == calls[c]
        k == q.campaign IN
    /\ At(c, "updateCampaign")
    /\ campaigns' =
           IF campaigns[k] = None THEN campaigns
           ELSE [campaigns EXCEPT
                    ![k].startAt = IF q.startAt = None THEN @ ELSE q.startAt,
                    ![k].endAt = IF q.endAt = None THEN @ ELSE q.endAt]
    /\ End(c)
    /\ UNCHANGED <<funds, users, pledges, used, clock, drifted, crossed>>

\* Fault: the references of a pledge are not checked when it is inserted.
MayPledgeUnchecked(u, k) == \A p \in PledgesOf(k) : pledges[p].pledger # u

\* The pledge references its campaign and its pledger, and is unique for them.
MayPledge(u, k) ==
    /\ campaigns[k] # None
    /\ u \in users
    /\ \A p \in PledgesOf(k) : pledges[p].pledger # u

\* The transaction inserts the pledge and raises the amount.
CommitPledge(c) ==
    LET q == calls[c] IN
    /\ At(c, "pledge")
    /\ IF MayPledge(q.owner, q.campaign) /\ Fits(q.campaign, q.amount)
       THEN /\ \E p \in PledgeIds \ used :
                  /\ pledges' = [pledges EXCEPT ![p] =
                         [campaign |-> q.campaign, pledger |-> q.owner,
                          amount |-> q.amount]]
                  /\ used' = used \cup {p}
            /\ Raise(q.campaign, q.amount)
            /\ End(c)
            /\ UNCHANGED <<funds, users, clock, drifted, crossed>>
       ELSE Fail(c)

\* Fault: the sum is adjusted by the new amount instead of the difference.
AdjustmentWhole(q) == IF q.amount = None THEN 0 ELSE q.amount

\* By how much an update of a pledge adjusts the sum: the amount given, less
\* the amount read before the transaction.
Adjustment(q) == IF q.amount = None THEN 0 ELSE q.amount - q.read

\* The transaction updates the pledge by id and adjusts the sum.
CommitUpdate(c) ==
    LET q == calls[c]
        p == q.pledge IN
    /\ At(c, "update")
    /\ IF pledges[p] # None /\ Fits(q.campaign, Adjustment(q))
       THEN /\ pledges' = IF q.amount = None THEN pledges
                          ELSE [pledges EXCEPT ![p].amount = q.amount]
            /\ Raise(q.campaign, Adjustment(q))
            /\ drifted' = IF q.amount # None /\ pledges[p].amount # q.read
                          THEN drifted \cup {q.campaign} ELSE drifted
            /\ End(c)
            /\ UNCHANGED <<funds, users, used, clock, crossed>>
       ELSE Fail(c)

\* Fault: what the pledge was when it was read is taken off the sum.
TakenAsRead(q) == q.read

\* The amount of the pledge as it is deleted
Taken(q) == pledges[q.pledge].amount

\* The transaction deletes the pledge by id and lowers the sum.
CommitDelete(c) ==
    LET q == calls[c]
        p == q.pledge IN
    /\ At(c, "delete")
    /\ IF pledges[p] # None /\ Fits(q.campaign, -Taken(q))
       THEN /\ pledges' = [pledges EXCEPT ![p] = None]
            /\ Raise(q.campaign, -Taken(q))
            /\ End(c)
            /\ UNCHANGED <<funds, users, used, clock, drifted, crossed>>
       ELSE Fail(c)

------------------------------------------------------------------------------
(* Deletions of one statement                                              *)

\* Pledges of which campaigns and users are gone go with them.
Without(gone) ==
    [p \in PledgeIds |-> IF pledges[p] # None /\ gone[p] THEN None ELSE pledges[p]]

DeleteCampaigns(ks) ==
    /\ campaigns' = [k \in CampaignIds |-> IF k \in ks THEN None ELSE campaigns[k]]
    /\ pledges' = Without([p \in PledgeIds |->
                              pledges[p] # None /\ pledges[p].campaign \in ks])
    /\ UNCHANGED <<users, used, clock, calls, drifted, crossed>>

DeleteFundCampaign(k) ==
    campaigns[k] # None /\ DeleteCampaigns({k}) /\ UNCHANGED funds

DeleteFund(f) ==
    /\ f \in funds
    /\ funds' = funds \ {f}
    /\ DeleteCampaigns({k \in CampaignIds :
                           campaigns[k] # None /\ campaigns[k].fund = f})

\* The sums of the campaigns of the user's pledges are left as they are.
DeleteUser(u) ==
    /\ u \in users
    /\ users' = users \ {u}
    /\ pledges' = Without([p \in PledgeIds |->
                              pledges[p] # None /\ pledges[p].pledger = u])
    /\ drifted' = drifted \cup {k \in CampaignIds :
                                   \E p \in PledgesOf(k) : pledges[p].pledger = u}
    /\ UNCHANGED <<funds, campaigns, used, clock, calls, crossed>>

\* The clock stays at its bound once it is there.
Tick ==
    /\ clock' = IF clock < MaxTime THEN clock + 1 ELSE clock
    /\ UNCHANGED <<funds, users, campaigns, pledges, used, calls, drifted, crossed>>

Mutation(c) ==
    \/ \E k \in CampaignIds, f \in Funds, s, e \in Times :
          CreateFundCampaign(c, k, f, s, e)
    \/ \E k \in CampaignIds, s, e \in Times \cup {None} :
          UpdateFundCampaign(c, k, s, e)
    \/ \E k \in CampaignIds, u \in Users, a \in Amounts :
          CreateFundCampaignPledge(c, u, k, a)
    \/ \E p \in PledgeIds, a \in Amounts \cup {None} :
          UpdateFundCampaignPledge(c, p, a)
    \/ \E p \in PledgeIds : DeleteFundCampaignPledge(c, p)

Commit(c) ==
    \/ InsertCampaign(c) \/ WriteCampaign(c) \/ CommitPledge(c)
    \/ CommitUpdate(c) \/ CommitDelete(c)

Next ==
    \/ \E c \in Calls : Mutation(c) \/ Commit(c)
    \/ \E k \in CampaignIds : DeleteFundCampaign(k)
    \/ \E f \in Funds : DeleteFund(f)
    \/ \E u \in Users : DeleteUser(u)
    \/ Tick

Spec == Init /\ [][Next]_vars

------------------------------------------------------------------------------
(* Properties                                                              *)

\* The type of the tables, of what is in memory and of the history
TypeOK ==
    /\ funds \subseteq Funds
    /\ users \subseteq Users
    /\ campaigns \in [CampaignIds -> Campaign \cup {None}]
    /\ pledges \in [PledgeIds -> Pledge \cup {None}]
    /\ used \subseteq CampaignIds \cup PledgeIds
    /\ clock \in Times
    /\ calls \in [Calls -> Call \cup {None}]
    /\ drifted \subseteq CampaignIds
    /\ crossed \subseteq CampaignIds
    /\ \A k \in CampaignIds : campaigns[k] # None => k \in used
    /\ \A p \in PledgeIds : pledges[p] # None => p \in used

\* amountRaised is the sum of the pledges, through failures and deletions that
\* overlap, unless an update adjusted it by an amount that had changed since it
\* was read, or a user was deleted with a pledge.
RaisedIsPledged ==
    \A k \in CampaignIds :
        campaigns[k] # None /\ k \notin drifted =>
            campaigns[k].amountRaised =
                MapThenSumSet(LAMBDA p : pledges[p].amount, PledgesOf(k))

\* A campaign ends after it starts, unless two updates of it overlapped.
WindowInOrder ==
    \A k \in CampaignIds :
        campaigns[k] # None => \/ campaigns[k].startAt < campaigns[k].endAt
                               \/ k \in crossed

\* Pledges have their campaign and their pledger, and campaigns their fund, also
\* when these are deleted while mutations are in flight.
NothingDangles ==
    /\ \A k \in CampaignIds : campaigns[k] # None => campaigns[k].fund \in funds
    /\ \A p \in PledgeIds : pledges[p] # None =>
          pledges[p].pledger \in users /\ campaigns[pledges[p].campaign] # None
=============================================================================
