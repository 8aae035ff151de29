--------------------------- MODULE Campaigns_proofs ---------------------------
(***************************************************************************)
(* Proofs about Campaigns.  The sum of the pledges is a fold over a set.   *)
(* What it is for every set is proved from the least element of a set of   *)
(* numbers: the size of the smallest set for which a statement fails.      *)
(***************************************************************************)
EXTENDS Campaigns, FiniteSetTheorems, WellFoundedInduction, TLAPS

------------------------------------------------------------------------------
(* Sums over finite sets                                                   *)

\* The sum of the amounts of the pledges S of table w
Sum(w, S) == MapThenSumSet(LAMBDA p : w[p].amount, S)

\* One step of the fold: an element of s is taken off.
Taking(w, iter, s) ==
    IF s = {} THEN 0
    ELSE LET x == CHOOSE x \in s : TRUE
         IN  w[x].amount + iter[s \ {x}]

\* The function the fold is defined by
Sums(w, S) == CHOOSE iter : iter = [s \in SUBSET S |-> Taking(w, iter, s)]

\* The fold is the function's value for the whole set.
LEMMA SumIs ==
  ASSUME NEW w, NEW S
  PROVE  Sum(w, S) = Sums(w, S)[S]
  BY DEF Sum, Sums, Taking, MapThenSumSet, MapThenFoldSet

\* A nonempty set of natural numbers has a least element.
LEMMA LeastNumber ==
  ASSUME NEW T \in SUBSET Nat, T # {}
  PROVE  \E n \in T : \A m \in T : n <= m
  <1>1. IsWellFoundedOn(OpToRel(<, Nat), Nat)
    BY NatLessThanWellFounded
  <1>2. PICK n \in T : \A m \in T : ~ (<<m, n>> \in OpToRel(<, Nat))
    BY <1>1, WFMin
  <1>3. \A m \in T : ~ (m < n)
    BY <1>2 DEF OpToRel
  <1> QED
    BY <1>3

\* Induction over finite sets: a set of finite sets that is not empty has a
\* member none of whose proper subsets is in it.
LEMMA SmallestSet ==
  ASSUME NEW B, B # {}, \A s \in B : IsFiniteSet(s)
  PROVE  \E s \in B : \A t \in B : t \subseteq s => t = s
  <1> DEFINE Sizes == {Cardinality(s) : s \in B}
  <1>1. Sizes \in SUBSET Nat /\ Sizes # {}
    BY FS_CardinalityType
  <1>2. PICK n \in Sizes : \A m \in Sizes : n <= m
    BY <1>1, LeastNumber
  <1>3. PICK s \in B : Cardinality(s) = n
    BY <1>2
  <1>4. ASSUME NEW t \in B, t \subseteq s PROVE t = s
    <2>1. Cardinality(t) <= Cardinality(s)
      BY <1>4, FS_Subset
    <2>2. Cardinality(t) = Cardinality(s)
      BY <1>1, <1>2, <1>3, <2>1
    <2> QED
      BY <1>4, <2>2, FS_Subset
  <1> QED
    BY <1>4

\* g is the function the fold of the pledges S is defined by.
Meets(w, g, S) == g = [s \in SUBSET S |-> Taking(w, g, s)]

\* Two such functions agree on the sets that both know and whose pledges have
\* the same amounts in both tables.
LEMMA Agree ==
  ASSUME NEW w, NEW v, NEW S, NEW T, NEW g, NEW h,
         Meets(w, g, S), Meets(v, h, T),
         NEW U \in SUBSET (S \cap T), IsFiniteSet(U),
         \A p \in U : w[p].amount = v[p].amount
  PROVE  g[U] = h[U]
  <1> DEFINE B == {s \in SUBSET U : g[s] # h[s]}
  <1> SUFFICES ASSUME B # {} PROVE FALSE
    OBVIOUS
  <1>1. \A s \in B : IsFiniteSet(s)
    BY FS_Subset
  <1>2. PICK s \in B : \A t \in B : t \subseteq s => t = s
    <2> HIDE DEF B
    <2> QED
      BY <1>1, SmallestSet
  <1>3. /\ g[s] = Taking(w, g, s)
        /\ h[s] = Taking(v, h, s)
    BY DEF Meets
  <1>4. s # {}
    BY <1>3 DEF Taking
  <1> DEFINE x == CHOOSE x \in s : TRUE
  <1>5. x \in s
    BY <1>4
  <1>6. s \ {x} \in SUBSET U /\ s \ {x} # s
    BY <1>5
  <1>7. g[s \ {x}] = h[s \ {x}]
    <2> HIDE DEF x
    <2> QED
      BY <1>2, <1>6
  <1>8. w[x].amount = v[x].amount
    BY <1>5
  <1> QED
    BY <1>3, <1>4, <1>7, <1>8 DEF Taking

\* The fold of a finite set is well-defined.
LEMMA SumsMeet ==
  ASSUME NEW w, NEW S, IsFiniteSet(S)
  PROVE  Meets(w, Sums(w, S), S)
  <1> DEFINE B == {s \in SUBSET S : ~ \E g : Meets(w, g, s)}
  <1>1. \A s \in SUBSET S : s \notin B => Meets(w, Sums(w, s), s)
    BY DEF Sums, Meets
  <1>2. ASSUME B # {} PROVE FALSE
    <2>1. \A s \in B : IsFiniteSet(s)
      BY FS_Subset
    <2>2. PICK s \in B : \A t \in B : t \subseteq s => t = s
      <3> HIDE DEF B
      <3> QED
        BY <1>2, <2>1, SmallestSet
    <2> DEFINE V == [t \in SUBSET s |-> Sums(w, t)[t]]
               g == [t \in SUBSET s |-> Taking(w, V, t)]
    <2>3. ASSUME NEW t \in SUBSET s, t # s
          PROVE  Meets(w, Sums(w, t), t)
      <3>1. t \in SUBSET S /\ t \notin B
        BY <2>2, <2>3
      <3> QED
        BY <1>1, <3>1
    <2>4. ASSUME NEW t \in SUBSET s, t # s
          PROVE  g[t] = V[t]
      <3>1. Sums(w, t)[t] = Taking(w, Sums(w, t), t)
        BY <2>3, <2>4 DEF Meets
      <3>2. ASSUME NEW x \in t
            PROVE  Sums(w, t)[t \ {x}] = Sums(w, t \ {x})[t \ {x}]
        <4>1. t \ {x} \in SUBSET s /\ t \ {x} # s
          BY <2>4, <3>2
        <4>2. Meets(w, Sums(w, t), t) /\ Meets(w, Sums(w, t \ {x}), t \ {x})
          BY <2>3, <2>4, <4>1
        <4>3. IsFiniteSet(t \ {x})
          BY <4>1, FS_Subset
        <4>4. t \ {x} \in SUBSET (t \cap (t \ {x}))
          OBVIOUS
        <4> QED
          BY <4>2, <4>3, <4>4, Agree
      <3>3. CASE t = {}
        BY <3>1, <3>3 DEF Taking
      <3>4. CASE t # {}
        <4> DEFINE x == CHOOSE x \in t : TRUE
        <4>1. x \in t
          BY <3>4
        <4>2. Sums(w, t)[t \ {x}] = V[t \ {x}]
          <5> HIDE DEF x
          <5> QED
            BY <3>2, <4>1
        <4>3. Sums(w, t)[t] = w[x].amount + Sums(w, t)[t \ {x}]
          BY <3>1, <3>4 DEF Taking
        <4>4. g[t] = w[x].amount + V[t \ {x}]
          BY <3>4 DEF Taking
        <4> QED
          BY <4>2, <4>3, <4>4
      <3> QED
        BY <3>3, <3>4
    <2>5. ASSUME NEW t \in SUBSET s
          PROVE  Taking(w, g, t) = Taking(w, V, t)
      <3>1. CASE t = {}
        BY <3>1 DEF Taking
      <3>2. CASE t # {}
        <4> DEFINE x == CHOOSE x \in t : TRUE
        <4>1. x \in t
          BY <3>2
        <4>2. t \ {x} \in SUBSET s /\ t \ {x} # s
          BY <4>1
        <4>3. g[t \ {x}] = V[t \ {x}]
          <5> HIDE DEF x, g, V
          <5> QED
            BY <2>4, <4>2
        <4> QED
          BY <3>2, <4>3 DEF Taking
      <3> QED
        BY <3>1, <3>2
    <2>6. Meets(w, g, s)
      <3>1. g = [t \in SUBSET s |-> Taking(w, g, t)]
        <4> HIDE DEF V
        <4> QED
          BY <2>5
      <3> QED
        BY <3>1 DEF Meets
    <2> QED
      BY <2>6
  <1> QED
    BY <1>1, <1>2

\* Nothing is raised by no pledge.
LEMMA SumEmpty ==
  ASSUME NEW w
  PROVE  Sum(w, {}) = 0
  <1>1. Meets(w, Sums(w, {}), {})
    BY SumsMeet, FS_EmptySet
  <1> QED
    BY <1>1, SumIs DEF Meets, Taking

\* The sum only depends on the amounts of the pledges.
LEMMA SumSame ==
  ASSUME NEW w, NEW v, NEW S, IsFiniteSet(S),
         \A p \in S : w[p].amount = v[p].amount
  PROVE  Sum(w, S) = Sum(v, S)
  <1>1. Meets(w, Sums(w, S), S) /\ Meets(v, Sums(v, S), S)
    BY SumsMeet
  <1>2. Sums(w, S)[S] = Sums(v, S)[S]
    BY <1>1, Agree
  <1> QED
    BY <1>2, SumIs

\* The element that the fold takes first
LEMMA SumTakes ==
  ASSUME NEW w, NEW S, IsFiniteSet(S), S # {}
  PROVE  \E x \in S : Sum(w, S) = w[x].amount + Sum(w, S \ {x})
  <1> DEFINE x == CHOOSE x \in S : TRUE
  <1>1. x \in S
    OBVIOUS
  <1>2. IsFiniteSet(S \ {x})
    BY FS_Subset
  <1>3. Meets(w, Sums(w, S), S) /\ Meets(w, Sums(w, S \ {x}), S \ {x})
    BY <1>2, SumsMeet
  <1>4. Sums(w, S)[S \ {x}] = Sums(w, S \ {x})[S \ {x}]
    <2> HIDE DEF x
    <2>1. S \ {x} \in SUBSET (S \cap (S \ {x}))
      OBVIOUS
    <2> QED
      BY <1>2, <1>3, <2>1, Agree
  <1>5. Sums(w, S)[S] = w[x].amount + Sums(w, S)[S \ {x}]
    BY <1>3 DEF Meets, Taking
  <1> QED
    BY <1>1, <1>4, <1>5, SumIs

\* The sum of whole amounts is whole.
LEMMA SumType ==
  ASSUME NEW w, NEW S, IsFiniteSet(S), \A p \in S : w[p].amount \in Int
  PROVE  Sum(w, S) \in Int
  <1> DEFINE B == {s \in SUBSET S : Sum(w, s) \notin Int}
  <1> SUFFICES ASSUME B # {} PROVE FALSE
    OBVIOUS
  <1>1. \A s \in B : IsFiniteSet(s)
    BY FS_Subset
  <1>2. PICK s \in B : \A t \in B : t \subseteq s => t = s
    <2> HIDE DEF B
    <2> QED
      BY <1>1, SmallestSet
  <1>3. s # {}
    <2>1. Sum(w, {}) = 0
      BY SumEmpty
    <2> QED
      BY <2>1
  <1>4. PICK x \in s : Sum(w, s) = w[x].amount + Sum(w, s \ {x})
    BY <1>1, <1>3, SumTakes
  <1>5. Sum(w, s \ {x}) \in Int
    BY <1>2, <1>4
  <1> QED
    BY <1>2, <1>4, <1>5

\* Any element may be taken off first.
LEMMA SumSplits ==
  ASSUME NEW w, NEW S, IsFiniteSet(S), \A p \in S : w[p].amount \in Int,
         NEW y \in S
  PROVE  Sum(w, S) = w[y].amount + Sum(w, S \ {y})
  <1> DEFINE B == {s \in SUBSET S : \E z \in s :
                      Sum(w, s) # w[z].amount + Sum(w, s \ {z})}
  <1> SUFFICES ASSUME B # {} PROVE FALSE
    OBVIOUS
  <1>1. \A s \in SUBSET S : IsFiniteSet(s)
    BY FS_Subset
  <1>2. PICK s \in B : \A t \in B : t \subseteq s => t = s
    <2> HIDE DEF B
    <2>1. \A t \in B : IsFiniteSet(t)
      BY <1>1 DEF B
    <2> QED
      BY <2>1, SmallestSet
  <1>3. PICK z \in s : Sum(w, s) # w[z].amount + Sum(w, s \ {z})
    BY <1>2
  <1>4. PICK x \in s : Sum(w, s) = w[x].amount + Sum(w, s \ {x})
    BY <1>1, <1>3, SumTakes
  <1>5. x # z
    BY <1>3, <1>4
  <1>6. /\ Sum(w, s \ {x}) = w[z].amount + Sum(w, (s \ {x}) \ {z})
        /\ Sum(w, s \ {z}) = w[x].amount + Sum(w, (s \ {z}) \ {x})
    <2>1. s \ {x} \notin B /\ s \ {z} \notin B
      BY <1>2, <1>3, <1>4
    <2> QED
      BY <1>3, <1>4, <1>5, <2>1
  <1>7. (s \ {x}) \ {z} = (s \ {z}) \ {x}
    OBVIOUS
  <1>8. Sum(w, (s \ {x}) \ {z}) \in Int
    BY <1>1, SumType
  <1>9. \A a, b, c \in Int : a + (b + c) = b + (a + c)
    OBVIOUS
  <1>10. w[x].amount \in Int /\ w[z].amount \in Int
    OBVIOUS
  <1>11. Sum(w, s) = w[x].amount + (w[z].amount + Sum(w, (s \ {x}) \ {z}))
    BY <1>4, <1>6
  <1>12. Sum(w, s \ {z}) = w[x].amount + Sum(w, (s \ {x}) \ {z})
    BY <1>6, <1>7
  <1> QED
    BY <1>3, <1>8, <1>9, <1>10, <1>11, <1>12

------------------------------------------------------------------------------
(* The inductive invariant                                                 *)

\* What a mutation in flight has in memory: what it was given, what it read,
\* and the campaign of the pledge it is about, which never changes.
Knows(q) ==
    /\ q.pc = "createCampaign" =>
          q.owner \in Funds /\ q.startAt \in Times /\ q.endAt \in Times
          /\ q.startAt < q.endAt
    /\ q.pc = "updateCampaign" => q.campaign \in used
    /\ q.pc = "pledge" => q.owner \in Users /\ q.amount \in Amounts
    /\ q.pc \in {"update", "delete"} =>
          /\ q.pledge \in PledgeIds \cap used
          /\ q.read \in Amounts
          /\ pledges[q.pledge] # None => pledges[q.pledge].campaign = q.campaign

InMemory == \A c \in Calls : calls[c] # None => Knows(calls[c])

\* An update that no other one overlaps with leaves the times in order that it
\* finds when it writes, and is the only one of its campaign.
Unhindered(c) ==
    LET k == calls[c].campaign IN
    At(c, "updateCampaign") /\ k \notin crossed =>
        /\ campaigns[k] # None => InOrder(k, calls[c].startAt, calls[c].endAt)
        /\ \A d \in Calls : At(d, "updateCampaign") /\ calls[d].campaign = k => c = d

Updates == \A c \in Calls : Unhindered(c)

\* Only finitely many rows have ever existed.
FewRows == IsFiniteSet(used)

CampaignsInv ==
    /\ TypeOK /\ FewRows /\ InMemory /\ Updates
    /\ WindowInOrder /\ NothingDangles /\ RaisedIsPledged

\* The pledges to campaign k in table w
Holding(w, k) == {p \in PledgeIds : w[p] # None /\ w[p].campaign = k}

\* RaisedIsPledged, as a relation between the tables
Raised(cs, w, dr) ==
    \A k \in CampaignIds :
        cs[k] # None /\ k \notin dr => cs[k].amountRaised = Sum(w, Holding(w, k))

LEMMA RaisedMeans == RaisedIsPledged <=> Raised(campaigns, pledges, drifted)
  BY DEF RaisedIsPledged, Raised, Sum, PledgesOf, Holding

\* The same in the next state
LEMMA RaisedNext == RaisedIsPledged' <=> Raised(campaigns', pledges', drifted')
  <1>1. RaisedIsPledged' <=> Raised(campaigns, pledges, drifted)'
    BY RaisedMeans, PTL
  <1> QED
    BY <1>1

\* At first there is nothing but funds and users.
LEMMA InitHolds == Init => CampaignsInv
  <1> SUFFICES ASSUME Init PROVE CampaignsInv
    OBVIOUS
  <1>1. TypeOK
    BY AmountsAssumption DEF Init, TypeOK, Times
  <1>2. FewRows
    BY FS_EmptySet DEF Init, FewRows
  <1>3. InMemory /\ Updates
    BY DEF Init, InMemory, Updates, Unhindered, At
  <1>4. WindowInOrder /\ NothingDangles /\ RaisedIsPledged
    BY DEF Init, WindowInOrder, NothingDangles, RaisedIsPledged
  <1> QED
    BY <1>1, <1>2, <1>3, <1>4 DEF CampaignsInv

------------------------------------------------------------------------------
(* Mutations that begin                                                    *)

\* Another update of campaign k is in flight.
Contended(k) == \E d \in Calls : At(d, "updateCampaign") /\ calls[d].campaign = k

\* Mutation c begins, with q in memory.
Opens(c, q) ==
    /\ q \in Call
    /\ Begin(c, q)
    /\ Knows(q)
    /\ q.pc = "updateCampaign" =>
          /\ campaigns[q.campaign] # None
          /\ InOrder(q.campaign, q.startAt, q.endAt)
          /\ Contended(q.campaign) => q.campaign \in crossed'
    /\ crossed \subseteq crossed' /\ crossed' \subseteq CampaignIds

\* Whatever a mutation read and was given is in its memory.
LEMMA MutationOpens ==
  ASSUME TypeOK, NEW c \in Calls, Mutation(c)
  PROVE  \E q \in Call : Opens(c, q)
  <1> USE DEF TypeOK
  <1>1. ASSUME NEW k \in CampaignIds, NEW f \in Funds, NEW s \in Times,
               NEW e \in Times, CreateFundCampaign(c, k, f, s, e)
        PROVE  \E q \in Call : Opens(c, q)
    <2> DEFINE q == [Blank("createCampaign", k) EXCEPT
                       !.owner = f, !.startAt = s, !.endAt = e]
    <2>1. q \in Call /\ Knows(q)
      BY <1>1 DEF CreateFundCampaign, Blank, Call, Knows
    <2>2. q.pc = "createCampaign"
      BY DEF Blank
    <2>3. Begin(c, q) /\ crossed' = crossed
      BY <1>1 DEF CreateFundCampaign
    <2> QED
      BY <2>1, <2>2, <2>3 DEF Opens
  <1>2. ASSUME NEW k \in CampaignIds, NEW s \in Times \cup {None},
               NEW e \in Times \cup {None}, UpdateFundCampaign(c, k, s, e)
        PROVE  \E q \in Call : Opens(c, q)
    <2> DEFINE q == [Blank("updateCampaign", k) EXCEPT !.startAt = s, !.endAt = e]
    <2>1. q \in Call /\ q.pc = "updateCampaign" /\ q.campaign = k
          /\ q.startAt = s /\ q.endAt = e
      BY DEF Blank, Call
    <2>2. campaigns[k] # None /\ InOrder(k, s, e) /\ Begin(c, q)
      BY <1>2 DEF UpdateFundCampaign
    <2>3. /\ crossed \subseteq crossed' /\ crossed' \subseteq CampaignIds
          /\ Contended(k) => k \in crossed'
      BY <1>2 DEF UpdateFundCampaign, Contended, At
    <2>4. Knows(q)
      BY <2>1, <2>2 DEF Knows
    <2> HIDE DEF q
    <2> QED
      BY <2>1, <2>2, <2>3, <2>4 DEF Opens
  <1>3. ASSUME NEW k \in CampaignIds, NEW u \in Users, NEW a \in Amounts,
               CreateFundCampaignPledge(c, u, k, a)
        PROVE  \E q \in Call : Opens(c, q)
    <2> DEFINE q == [Blank("pledge", k) EXCEPT !.owner = u, !.amount = a]
    <2>1. q \in Call /\ Knows(q) /\ q.pc = "pledge"
      BY DEF Blank, Call, Knows
    <2>2. Begin(c, q) /\ crossed' = crossed
      BY <1>3 DEF CreateFundCampaignPledge
    <2> HIDE DEF q
    <2> QED
      BY <2>1, <2>2 DEF Opens
  <1>4. ASSUME NEW p \in PledgeIds, NEW a \in Amounts \cup {None},
               UpdateFundCampaignPledge(c, p, a)
        PROVE  \E q \in Call : Opens(c, q)
    <2> DEFINE q == [Blank("update", pledges[p].campaign) EXCEPT
                       !.pledge = p, !.amount = a, !.read = pledges[p].amount]
    <2>1. pledges[p] \in Pledge /\ p \in used
      BY <1>4 DEF UpdateFundCampaignPledge
    <2>2. q \in Call /\ Knows(q) /\ q.pc = "update"
      BY <2>1 DEF Blank, Call, Knows, Pledge
    <2>3. Begin(c, q) /\ crossed' = crossed
      BY <1>4 DEF UpdateFundCampaignPledge
    <2> HIDE DEF q
    <2> QED
      BY <2>2, <2>3 DEF Opens
  <1>5. ASSUME NEW p \in PledgeIds, DeleteFundCampaignPledge(c, p)
        PROVE  \E q \in Call : Opens(c, q)
    <2> DEFINE q == [Blank("delete", pledges[p].campaign) EXCEPT
                       !.pledge = p, !.read = pledges[p].amount]
    <2>1. pledges[p] \in Pledge /\ p \in used
      BY <1>5 DEF DeleteFundCampaignPledge
    <2>2. q \in Call /\ Knows(q) /\ q.pc = "delete"
      BY <2>1 DEF Blank, Call, Knows, Pledge
    <2>3. Begin(c, q) /\ crossed' = crossed
      BY <1>5 DEF DeleteFundCampaignPledge
    <2> HIDE DEF q
    <2> QED
      BY <2>2, <2>3 DEF Opens
  <1> QED
    BY <1>1, <1>2, <1>3, <1>4, <1>5 DEF Mutation

\* A mutation that begins keeps the invariant.
LEMMA OpensKeeps ==
  ASSUME CampaignsInv, NEW c \in Calls, NEW q \in Call, Opens(c, q)
  PROVE  CampaignsInv'
  <1> USE DEF CampaignsInv
  <1>1. /\ calls[c] = None
        /\ calls' = [calls EXCEPT ![c] = q]
        /\ UNCHANGED <<funds, users, campaigns, pledges, used, clock, drifted>>
    BY DEF Opens, Begin
  <1>2. TypeOK'
    BY <1>1 DEF TypeOK, Opens
  <1>3. FewRows'
    BY <1>1 DEF FewRows
  <1>4. \A d \in Calls : calls'[d] = IF d = c THEN q ELSE calls[d]
    BY <1>1 DEF TypeOK
  <1>5. InMemory'
    <2>1. \A r : Knows(r)' <=> Knows(r)
      BY <1>1 DEF Knows
    <2> QED
      BY <1>4, <2>1 DEF InMemory, Opens
  <1>6. Updates'
    <2> SUFFICES ASSUME NEW d \in Calls, At(d, "updateCampaign")',
                        calls'[d].campaign \notin crossed'
                 PROVE  /\ (campaigns[calls[d].campaign] # None =>
                              InOrder(calls[d].campaign, calls[d].startAt, calls[d].endAt))'
                        /\ \A e \in Calls : At(e, "updateCampaign")'
                              /\ calls'[e].campaign = calls'[d].campaign => d = e
      BY DEF Updates, Unhindered
    <2>1. \A k, s, e : InOrder(k, s, e)' <=> InOrder(k, s, e)
      BY <1>1 DEF InOrder
    <2>2. CASE d = c
      <3>1. q.pc = "updateCampaign" /\ q.campaign \notin crossed' /\ calls'[d] = q
        BY <1>4, <2>2 DEF At
      <3>2. ~ Contended(q.campaign)
        BY <3>1 DEF Opens
      <3>3. \A e \in Calls : At(e, "updateCampaign")'
                              /\ calls'[e].campaign = q.campaign => d = e
        BY <1>4, <2>2, <3>2 DEF Contended, At
      <3>4. InOrder(q.campaign, q.startAt, q.endAt)'
        BY <2>1, <3>1 DEF Opens
      <3> QED
        BY <3>1, <3>3, <3>4
    <2>3. CASE d # c
      <3>1. calls'[d] = calls[d] /\ At(d, "updateCampaign")
            /\ calls[d].campaign \notin crossed
        BY <1>4, <2>3 DEF At, Opens
      <3>2. /\ campaigns[calls[d].campaign] # None =>
                  InOrder(calls[d].campaign, calls[d].startAt, calls[d].endAt)
            /\ \A e \in Calls : At(e, "updateCampaign")
                  /\ calls[e].campaign = calls[d].campaign => d = e
        BY <3>1 DEF Updates, Unhindered
      <3>3. ~ (q.pc = "updateCampaign" /\ q.campaign = calls[d].campaign)
        BY <3>1 DEF Opens, Contended
      <3> QED
        BY <1>1, <1>4, <2>1, <3>1, <3>2, <3>3 DEF At
    <2> QED
      BY <2>2, <2>3
  <1>7. WindowInOrder'
    BY <1>1 DEF WindowInOrder, Opens
  <1>8. NothingDangles'
    BY <1>1 DEF NothingDangles
  <1>9. RaisedIsPledged'
    BY <1>1, RaisedMeans, RaisedNext
  <1> QED
    BY <1>2, <1>3, <1>5, <1>6, <1>7, <1>8, <1>9

------------------------------------------------------------------------------
(* What steps leave as it is                                               *)

\* Mutations in flight go on or end.
Ends == \A c \in Calls : calls'[c] \in {calls[c], None}

\* What mutations have in memory stays true as long as pledges only change
\* their amount or go.
LEMMA MemoryKept ==
  ASSUME TypeOK, InMemory, Ends, used \subseteq used',
         \A p \in PledgeIds \cap used : pledges'[p] # None =>
             pledges[p] # None /\ pledges'[p].campaign = pledges[p].campaign
  PROVE  InMemory'
  <1> SUFFICES ASSUME NEW c \in Calls, calls'[c] # None
               PROVE  Knows(calls[c])'
    BY DEF InMemory
  <1>1. calls'[c] = calls[c]
    BY DEF Ends
  <1>2. Knows(calls[c])
    BY <1>1 DEF InMemory
  <1> QED
    BY <1>1, <1>2 DEF Knows

\* The times of the campaigns that have existed are left alone.
SameTimes(k) ==
    campaigns'[k] # None =>
        /\ campaigns[k] # None
        /\ campaigns'[k].startAt = campaigns[k].startAt
        /\ campaigns'[k].endAt = campaigns[k].endAt

\* Updates in flight stay unhindered where no times are written.
LEMMA UpdateKept ==
  ASSUME InMemory, NEW c \in Calls, Unhindered(c), Ends, crossed' = crossed,
         At(c, "updateCampaign") => SameTimes(calls[c].campaign)
  PROVE  Unhindered(c)'
  <1> SUFFICES ASSUME At(c, "updateCampaign")', calls'[c].campaign \notin crossed
               PROVE  /\ (campaigns[calls[c].campaign] # None =>
                            InOrder(calls[c].campaign, calls[c].startAt, calls[c].endAt))'
                      /\ \A d \in Calls : At(d, "updateCampaign")'
                            /\ calls'[d].campaign = calls'[c].campaign => c = d
    BY DEF Unhindered
  <1>1. calls'[c] = calls[c] /\ At(c, "updateCampaign")
    BY DEF Ends, At
  <1>2. \A d \in Calls : At(d, "updateCampaign")'
           /\ calls'[d].campaign = calls'[c].campaign => c = d
    BY <1>1 DEF Unhindered, Ends, At
  <1>3. campaigns'[calls[c].campaign] # None =>
           InOrder(calls[c].campaign, calls[c].startAt, calls[c].endAt)
    BY <1>1 DEF Unhindered, SameTimes
  <1>4. ASSUME campaigns'[calls[c].campaign] # None
        PROVE  InOrder(calls[c].campaign, calls[c].startAt, calls[c].endAt)'
    BY <1>1, <1>3, <1>4 DEF SameTimes, InOrder
  <1> QED
    BY <1>1, <1>2, <1>4

LEMMA UpdatesKept ==
  ASSUME InMemory, Updates, Ends, crossed' = crossed,
         \A k \in used : SameTimes(k)
  PROVE  Updates'
  <1> SUFFICES ASSUME NEW c \in Calls PROVE Unhindered(c)'
    BY DEF Updates
  <1>1. At(c, "updateCampaign") => calls[c].campaign \in used
    BY DEF InMemory, Knows, At
  <1> QED
    BY <1>1, UpdateKept DEF Updates

\* Campaigns stay in order where no times are written.
LEMMA WindowKept ==
  ASSUME WindowInOrder, crossed' = crossed, \A k \in CampaignIds : SameTimes(k)
  PROVE  WindowInOrder'
  BY DEF WindowInOrder, SameTimes

\* The call that ends
LEMMA EndIs ==
  ASSUME TypeOK, NEW c \in Calls, End(c)
  PROVE  Ends /\ calls' \in [Calls -> Call \cup {None}] /\ calls'[c] = None
  BY DEF TypeOK, End, Ends

\* A mutation that fails leaves everything else as it is.
LEMMA FailKeeps ==
  ASSUME CampaignsInv, NEW c \in Calls, Fail(c)
  PROVE  CampaignsInv'
  <1> USE DEF CampaignsInv
  <1>1. /\ UNCHANGED <<funds, users, campaigns, pledges, used, clock, drifted, crossed>>
        /\ Ends /\ calls' \in [Calls -> Call \cup {None}]
    BY EndIs DEF Fail
  <1>2. TypeOK' /\ FewRows'
    BY <1>1 DEF TypeOK, FewRows
  <1>3. InMemory'
    BY <1>1, MemoryKept
  <1>4. Updates'
    BY <1>1, UpdatesKept DEF SameTimes
  <1>5. WindowInOrder' /\ NothingDangles'
    BY <1>1 DEF WindowInOrder, NothingDangles
  <1>6. RaisedIsPledged'
    BY <1>1, RaisedMeans, RaisedNext
  <1> QED
    BY <1>2, <1>3, <1>4, <1>5, <1>6

\* A sum that is adjusted stays in its column, and nothing else changes.
LEMMA RaiseIs ==
  ASSUME TypeOK, NEW k \in CampaignIds, NEW by \in Int, Fits(k, by), Raise(k, by)
  PROVE  /\ campaigns' \in [CampaignIds -> Campaign \cup {None}]
         /\ \A j \in CampaignIds :
               /\ campaigns'[j] = None <=> campaigns[j] = None
               /\ SameTimes(j)
               /\ campaigns[j] # None =>
                     /\ campaigns'[j].fund = campaigns[j].fund
                     /\ campaigns'[j].amountRaised =
                           campaigns[j].amountRaised + IF j = k THEN by ELSE 0
  <1>1. CASE campaigns[k] = None
    BY <1>1 DEF Raise, TypeOK, Campaign, SameTimes
  <1>2. CASE campaigns[k] # None
    <2>1. campaigns[k] \in Campaign
      BY <1>2 DEF TypeOK
    <2> DEFINE new == [campaigns[k] EXCEPT !.amountRaised = @ + by]
    <2>2. /\ new \in Campaign
          /\ new.fund = campaigns[k].fund
          /\ new.startAt = campaigns[k].startAt
          /\ new.endAt = campaigns[k].endAt
          /\ new.amountRaised = campaigns[k].amountRaised + by
      BY <1>2, <2>1 DEF Fits, Campaign
    <2>3. campaigns' = [campaigns EXCEPT ![k] = new]
      BY <1>2 DEF Raise
    <2> HIDE DEF new
    <2>4. new # None
      BY <2>2, NoneAssumption
    <2>5. \A j \in CampaignIds :
             campaigns[j] # None => campaigns[j].amountRaised + 0 = campaigns[j].amountRaised
      BY DEF TypeOK, Campaign
    <2>6. \A j \in CampaignIds : campaigns'[j] = IF j = k THEN new ELSE campaigns[j]
      BY <2>3 DEF TypeOK
    <2> QED
      BY <1>2, <2>2, <2>3, <2>4, <2>5, <2>6 DEF TypeOK, SameTimes
  <1> QED
    BY <1>1, <1>2

------------------------------------------------------------------------------
(* What mutations write                                                    *)

\* A new campaign has no pledge, and its fund exists.
LEMMA InsertCampaignKeeps ==
  ASSUME CampaignsInv, NEW c \in Calls, InsertCampaign(c)
  PROVE  CampaignsInv'
  <1> USE DEF CampaignsInv
  <1> DEFINE q == calls[c]
             k == q.campaign
             new == [fund |-> q.owner, startAt |-> q.startAt, endAt |-> q.endAt,
                     amountRaised |-> 0]
  <1>1. CASE Fail(c)
    BY <1>1, FailKeeps
  <1>2. CASE ~ Fail(c)
    <2>1. /\ q # None /\ q.pc = "createCampaign"
          /\ q.owner \in funds /\ k \notin used
          /\ campaigns' = [campaigns EXCEPT ![k] = new]
          /\ used' = used \cup {k}
          /\ End(c)
          /\ UNCHANGED <<funds, users, pledges, clock, drifted, crossed>>
      BY <1>2 DEF InsertCampaign, At
    <2>2. /\ q \in Call /\ k \in CampaignIds
          /\ q.owner \in Funds /\ q.startAt \in Times /\ q.endAt \in Times
          /\ q.startAt < q.endAt
      BY <2>1 DEF TypeOK, InMemory, Knows, Call
    <2>3. new \in Campaign /\ new # None
      <3>1. 0 \in -MaxInt - 1 .. MaxInt
        BY AmountsAssumption
      <3>2. new \in Campaign
        BY <2>2, <3>1 DEF Campaign
      <3> QED
        BY <3>2, NoneAssumption
    <2>4. campaigns[k] = None
      BY <2>1, <2>2 DEF TypeOK
    <2>5. \A j \in CampaignIds : campaigns'[j] = IF j = k THEN new ELSE campaigns[j]
      BY <2>1 DEF TypeOK
    <2>6. Ends /\ calls' \in [Calls -> Call \cup {None}]
      BY <2>1, EndIs
    <2>7. TypeOK' /\ FewRows'
      <3>1. campaigns' \in [CampaignIds -> Campaign \cup {None}]
        BY <2>1, <2>3 DEF TypeOK
      <3>2. FewRows'
        BY <2>1, FS_AddElement DEF FewRows
      <3>3. \A j \in CampaignIds : campaigns'[j] # None => j \in used'
        BY <2>1, <2>5 DEF TypeOK
      <3> QED
        BY <2>1, <2>2, <2>6, <3>1, <3>2, <3>3 DEF TypeOK
    <2>8. InMemory'
      BY <2>1, <2>6, MemoryKept
    <2>9. \A j \in CampaignIds : j # k => SameTimes(j)
      BY <2>5 DEF SameTimes
    <2>10. Updates'
      <3>1. \A j \in used : SameTimes(j)
        <4> SUFFICES ASSUME NEW j \in used, campaigns'[j] # None
                     PROVE  /\ campaigns[j] # None
                            /\ campaigns'[j].startAt = campaigns[j].startAt
                            /\ campaigns'[j].endAt = campaigns[j].endAt
          BY DEF SameTimes
        <4>1. campaigns'[j] = campaigns[j]
          BY <2>1 DEF TypeOK
        <4> QED
          BY <4>1
      <3> QED
        BY <2>1, <2>6, <3>1, UpdatesKept
    <2>11. WindowInOrder'
      <3>1. new.startAt < new.endAt
        BY <2>2
      <3> HIDE DEF new
      <3> QED
        BY <2>1, <2>5, <3>1 DEF WindowInOrder
    <2>12. NothingDangles'
      <3>1. new.fund \in funds
        BY <2>1
      <3>2. \A j \in CampaignIds : campaigns[j] # None => campaigns'[j] # None
        BY <2>3, <2>5
      <3>3. \A p \in PledgeIds : pledges[p] # None => pledges[p].campaign \in CampaignIds
        BY DEF TypeOK, Pledge
      <3> HIDE DEF new
      <3> QED
        BY <2>1, <2>5, <3>1, <3>2, <3>3 DEF NothingDangles
    <2>13. RaisedIsPledged'
      <3>1. Holding(pledges, k) = {}
        BY <2>2, <2>4 DEF Holding, NothingDangles
      <3>2. new.amountRaised = Sum(pledges, Holding(pledges, k))
        BY <3>1, SumEmpty
      <3>3. Raised(campaigns, pledges, drifted)
        BY RaisedMeans
      <3> HIDE DEF new
      <3>4. Raised(campaigns', pledges', drifted')
        BY <2>1, <2>5, <3>2, <3>3 DEF Raised
      <3> QED
        BY <3>4, RaisedNext
    <2> QED
      BY <2>7, <2>8, <2>10, <2>11, <2>12, <2>13
  <1> QED
    BY <1>1, <1>2

\* An update that no other one overlaps with leaves the times in order.
LEMMA WriteCampaignKeeps ==
  ASSUME CampaignsInv, NEW c \in Calls, WriteCampaign(c)
  PROVE  CampaignsInv'
  <1> USE DEF CampaignsInv
  <1> DEFINE q == calls[c]
             k == q.campaign
             start == IF q.startAt = None THEN campaigns[k].startAt ELSE q.startAt
             end == IF q.endAt = None THEN campaigns[k].endAt ELSE q.endAt
  <1>1. /\ q # None /\ q.pc = "updateCampaign"
        /\ End(c)
        /\ UNCHANGED <<funds, users, pledges, used, clock, drifted, crossed>>
    BY DEF WriteCampaign, At
  <1>2. q \in Call /\ k \in CampaignIds
    BY <1>1 DEF TypeOK, Call
  <1>3. Ends /\ calls' \in [Calls -> Call \cup {None}] /\ calls'[c] = None
    BY <1>1, EndIs
  <1>4. /\ campaigns' \in [CampaignIds -> Campaign \cup {None}]
        /\ \A j \in CampaignIds :
              /\ campaigns'[j] = None <=> campaigns[j] = None
              /\ j # k => SameTimes(j)
              /\ campaigns[j] # None =>
                    /\ campaigns'[j].fund = campaigns[j].fund
                    /\ campaigns'[j].amountRaised = campaigns[j].amountRaised
        /\ campaigns[k] # None => /\ campaigns'[k].startAt = start
                                  /\ campaigns'[k].endAt = end
    <2>1. CASE campaigns[k] = None
      BY <2>1 DEF WriteCampaign, TypeOK, SameTimes
    <2>2. CASE campaigns[k] # None
      <3>1. campaigns[k] \in Campaign
        BY <1>2, <2>2 DEF TypeOK
      <3> DEFINE new == [campaigns[k] EXCEPT !.startAt = start, !.endAt = end]
      <3>2. start \in Times /\ end \in Times
        BY <1>2, <3>1 DEF Call, Campaign
      <3> HIDE DEF start, end
      <3>3. /\ new \in Campaign
            /\ new.fund = campaigns[k].fund
            /\ new.amountRaised = campaigns[k].amountRaised
            /\ new.startAt = start
            /\ new.endAt = end
        BY <3>1, <3>2 DEF Campaign
      <3>4. campaigns' = [campaigns EXCEPT ![k] = new]
        <4>1. campaigns' = [campaigns EXCEPT ![k] = [@ EXCEPT !.startAt = start, !.endAt = end]]
          BY <2>2 DEF WriteCampaign, start, end, Campaign, TypeOK
        <4> QED
          BY <1>2, <4>1 DEF TypeOK
      <3>5. new # None
        BY <3>3, NoneAssumption
      <3> HIDE DEF new
      <3>6. \A j \in CampaignIds : campaigns'[j] = IF j = k THEN new ELSE campaigns[j]
        BY <3>4 DEF TypeOK
      <3> QED
        BY <1>2, <2>2, <3>3, <3>4, <3>5, <3>6 DEF TypeOK, SameTimes
    <2> QED
      BY <2>1, <2>2
  <1>5. TypeOK' /\ FewRows'
    BY <1>1, <1>3, <1>4 DEF TypeOK, FewRows
  <1>6. InMemory'
    BY <1>1, <1>3, MemoryKept
  <1>7. Updates'
    <2> SUFFICES ASSUME NEW d \in Calls PROVE Unhindered(d)'
      BY DEF Updates
    <2>1. CASE d = c \/ ~ At(d, "updateCampaign")
      BY <1>3, <2>1 DEF Unhindered, At, Ends
    <2>2. CASE d # c /\ At(d, "updateCampaign")
      <3>1. CASE calls[d].campaign = k
        <4>1. k \in crossed
          BY <1>1, <2>2, <3>1 DEF Updates, Unhindered, At
        <4>2. At(d, "updateCampaign")' => calls'[d].campaign \in crossed'
          BY <1>1, <1>3, <3>1, <4>1 DEF Ends, At
        <4> QED
          BY <4>2 DEF Unhindered
      <3>2. CASE calls[d].campaign # k
        <4>1. calls[d].campaign \in CampaignIds
          BY <2>2 DEF At, TypeOK, Call
        <4>2. SameTimes(calls[d].campaign)
          BY <1>4, <3>2, <4>1
        <4> QED
          BY <1>1, <1>3, <4>2, UpdateKept DEF Updates
      <3> QED
        BY <3>1, <3>2
    <2> QED
      BY <2>1, <2>2
  <1>8. WindowInOrder'
    <2>1. k \notin crossed /\ campaigns[k] # None => start < end
      <3>1. k \notin crossed /\ campaigns[k] # None => InOrder(k, q.startAt, q.endAt)
        BY <1>1 DEF Updates, Unhindered, At
      <3>2. k \notin crossed /\ campaigns[k] # None => campaigns[k].startAt < campaigns[k].endAt
        BY <1>2 DEF WindowInOrder
      <3> QED
        BY <3>1, <3>2 DEF InOrder
    <2>2. \A j \in CampaignIds : j # k /\ campaigns'[j] # None =>
             campaigns'[j].startAt < campaigns'[j].endAt \/ j \in crossed'
      BY <1>1, <1>4 DEF WindowInOrder, SameTimes
    <2>3. campaigns'[k] # None =>
             campaigns'[k].startAt < campaigns'[k].endAt \/ k \in crossed'
      <3> HIDE DEF start, end
      <3> QED
        BY <1>1, <1>2, <1>4, <2>1
    <2> QED
      BY <2>2, <2>3 DEF WindowInOrder
  <1>9. NothingDangles'
    <2>1. \A p \in PledgeIds : pledges[p] # None => pledges[p].campaign \in CampaignIds
      BY DEF TypeOK, Pledge
    <2> QED
      BY <1>1, <1>4, <2>1 DEF NothingDangles
  <1>10. RaisedIsPledged'
    <2>1. Raised(campaigns, pledges, drifted)
      BY RaisedMeans
    <2>2. Raised(campaigns', pledges', drifted')
      BY <1>1, <1>4, <2>1 DEF Raised
    <2> QED
      BY <2>2, RaisedNext
  <1> QED
    BY <1>5, <1>6, <1>7, <1>8, <1>9, <1>10

------------------------------------------------------------------------------
(* Steps that change pledges                                               *)

\* Amounts are whole.
LEMMA WholeAmounts == Amounts \subseteq Int
  BY AmountsAssumption

\* A campaign has finitely many pledges, of whole amounts.
LEMMA FewPledges ==
  ASSUME TypeOK, FewRows, NEW k
  PROVE  /\ IsFiniteSet(Holding(pledges, k))
         /\ \A p \in Holding(pledges, k) : pledges[p].amount \in Int
         /\ Sum(pledges, Holding(pledges, k)) \in Int
  <1>1. Holding(pledges, k) \in SUBSET used
    BY DEF TypeOK, Holding
  <1>2. IsFiniteSet(Holding(pledges, k))
    BY <1>1, FS_Subset DEF FewRows
  <1>3. \A p \in Holding(pledges, k) : pledges[p].amount \in Int
    BY WholeAmounts DEF TypeOK, Holding, Pledge
  <1> QED
    BY <1>2, <1>3, SumType

\* The transaction of a new pledge inserts it and raises the sum by its amount.
LEMMA CommitPledgeKeeps ==
  ASSUME CampaignsInv, NEW c \in Calls, CommitPledge(c)
  PROVE  CampaignsInv'
  <1> USE DEF CampaignsInv
  <1> DEFINE q == calls[c]
             k == q.campaign
             new == [campaign |-> k, pledger |-> q.owner, amount |-> q.amount]
  <1>1. CASE Fail(c)
    BY <1>1, FailKeeps
  <1>2. CASE ~ Fail(c)
    <2>1. /\ q # None /\ q.pc = "pledge"
          /\ MayPledge(q.owner, k) /\ Fits(k, q.amount)
          /\ Raise(k, q.amount)
          /\ End(c)
          /\ UNCHANGED <<funds, users, clock, drifted, crossed>>
      BY <1>2 DEF CommitPledge, At
    <2>2. PICK p \in PledgeIds \ used :
             /\ pledges' = [pledges EXCEPT ![p] = new]
             /\ used' = used \cup {p}
      BY <1>2 DEF CommitPledge
    <2>3. k \in CampaignIds /\ q.owner \in Users /\ q.amount \in Amounts
          /\ q.amount \in Int
      BY <2>1, WholeAmounts DEF TypeOK, InMemory, Knows, Call
    <2>4. new \in Pledge /\ new # None
      BY <2>3, NoneAssumption DEF Pledge
    <2>5. /\ campaigns' \in [CampaignIds -> Campaign \cup {None}]
          /\ \A j \in CampaignIds :
               /\ campaigns'[j] = None <=> campaigns[j] = None
               /\ SameTimes(j)
               /\ campaigns[j] # None =>
                     /\ campaigns'[j].fund = campaigns[j].fund
                     /\ campaigns'[j].amountRaised =
                           campaigns[j].amountRaised + IF j = k THEN q.amount ELSE 0
      BY <2>1, <2>3, RaiseIs
    <2>6. pledges[p] = None
      BY DEF TypeOK
    <2>7. \A r \in PledgeIds : pledges'[r] = IF r = p THEN new ELSE pledges[r]
      BY <2>2 DEF TypeOK
    <2>8. Ends /\ calls' \in [Calls -> Call \cup {None}]
      BY <2>1, EndIs
    <2>9. campaigns[k] # None /\ q.owner \in users
      BY <2>1 DEF MayPledge
    <2>10. TypeOK' /\ FewRows'
      <3>1. pledges' \in [PledgeIds -> Pledge \cup {None}]
        BY <2>2, <2>4 DEF TypeOK
      <3>2. FewRows'
        BY <2>2, FS_AddElement DEF FewRows
      <3>3. \A r \in PledgeIds : pledges'[r] # None => r \in used'
        BY <2>2, <2>7 DEF TypeOK
      <3>4. \A j \in CampaignIds : campaigns'[j] # None => j \in used'
        BY <2>2, <2>5 DEF TypeOK
      <3> QED
        BY <2>1, <2>2, <2>5, <2>8, <3>1, <3>2, <3>3, <3>4 DEF TypeOK
    <2>11. InMemory'
      BY <2>2, <2>7, <2>8, MemoryKept
    <2>12. Updates'
      <3>1. \A d \in Calls : At(d, "updateCampaign") => calls[d].campaign \in CampaignIds
        BY DEF At, TypeOK, Call
      <3> QED
        BY <2>1, <2>5, <2>8, <3>1, UpdateKept DEF Updates
    <2>13. WindowInOrder'
      BY <2>1, <2>5, WindowKept
    <2>14. NothingDangles'
      <3>1. \A r \in PledgeIds : pledges[r] # None => pledges[r].campaign \in CampaignIds
        BY DEF TypeOK, Pledge
      <3>2. \A r \in PledgeIds : pledges'[r] # None =>
               pledges'[r].pledger \in users' /\ campaigns'[pledges'[r].campaign] # None
        BY <2>1, <2>3, <2>5, <2>7, <2>9, <3>1 DEF NothingDangles
      <3> QED
        BY <2>1, <2>5, <3>2 DEF NothingDangles
    <2>15. RaisedIsPledged'
      <3>1. Raised(campaigns, pledges, drifted)
        BY RaisedMeans
      <3> SUFFICES ASSUME NEW j \in CampaignIds, campaigns'[j] # None, j \notin drifted
                   PROVE  campaigns'[j].amountRaised = Sum(pledges', Holding(pledges', j))
        BY <2>1, RaisedNext DEF Raised
      <3>2. campaigns[j] # None
            /\ campaigns[j].amountRaised = Sum(pledges, Holding(pledges, j))
        BY <2>5, <3>1 DEF Raised
      <3>3. /\ IsFiniteSet(Holding(pledges, j))
            /\ \A r \in Holding(pledges, j) : pledges[r].amount \in Int
            /\ Sum(pledges, Holding(pledges, j)) \in Int
        BY FewPledges
      <3>4. \A r \in Holding(pledges, j) : pledges'[r] = pledges[r]
        BY <2>6, <2>7 DEF Holding
      <3>5. Sum(pledges', Holding(pledges, j)) = Sum(pledges, Holding(pledges, j))
        BY <3>3, <3>4, SumSame
      <3>6. CASE j # k
        <4>1. Holding(pledges', j) = Holding(pledges, j)
          BY <2>4, <2>6, <2>7, <3>6 DEF Holding
        <4> QED
          BY <2>5, <3>2, <3>3, <3>5, <3>6, <4>1
      <3>7. CASE j = k
        <4>1. Holding(pledges', j) = Holding(pledges, j) \cup {p}
          BY <2>4, <2>6, <2>7, <3>7 DEF Holding
        <4>2. p \notin Holding(pledges, j)
          BY <2>6 DEF Holding
        <4>3. (Holding(pledges, j) \cup {p}) \ {p} = Holding(pledges, j)
          BY <4>2
        <4>4. pledges'[p].amount = q.amount
          BY <2>7
        <4>5. IsFiniteSet(Holding(pledges', j))
          BY <3>3, <4>1, FS_AddElement
        <4>6. \A r \in Holding(pledges', j) : pledges'[r].amount \in Int
          BY <2>3, <3>3, <3>4, <4>1, <4>4
        <4>7. Sum(pledges', Holding(pledges', j))
                 = pledges'[p].amount + Sum(pledges', Holding(pledges', j) \ {p})
          BY <4>1, <4>5, <4>6, SumSplits
        <4>8. Sum(pledges', Holding(pledges', j))
                 = q.amount + Sum(pledges, Holding(pledges, j))
          BY <3>5, <4>1, <4>3, <4>4, <4>7
        <4> QED
          BY <2>3, <2>5, <3>2, <3>3, <3>7, <4>8
      <3> QED
        BY <3>6, <3>7
    <2> QED
      BY <2>10, <2>11, <2>12, <2>13, <2>14, <2>15
  <1> QED
    BY <1>1, <1>2

\* What a table with one pledge less sums up to
LEMMA SumWithout ==
  ASSUME TypeOK, FewRows, NEW k, NEW p \in Holding(pledges, k), NEW w,
         \A r \in Holding(pledges, k) \ {p} : w[r].amount = pledges[r].amount
  PROVE  /\ Sum(w, Holding(pledges, k) \ {p}) \in Int
         /\ Sum(pledges, Holding(pledges, k)) =
               pledges[p].amount + Sum(w, Holding(pledges, k) \ {p})
  <1> DEFINE H == Holding(pledges, k)
  <1>1. IsFiniteSet(H) /\ \A r \in H : pledges[r].amount \in Int
    BY FewPledges
  <1>2. IsFiniteSet(H \ {p})
    BY <1>1, FS_RemoveElement
  <1>3. Sum(w, H \ {p}) = Sum(pledges, H \ {p})
    BY <1>2, SumSame
  <1>4. Sum(pledges, H \ {p}) \in Int
    BY <1>1, <1>2, SumType
  <1>5. Sum(pledges, H) = pledges[p].amount + Sum(pledges, H \ {p})
    BY <1>1, SumSplits
  <1> QED
    BY <1>3, <1>4, <1>5

\* The campaign of a pledge that is written is the one that was read.
LEMMA WrittenPledge ==
  ASSUME TypeOK, InMemory, NEW c \in Calls, At(c, "update") \/ At(c, "delete")
  PROVE  /\ calls[c] \in Call /\ calls[c].campaign \in CampaignIds
         /\ calls[c].pledge \in PledgeIds \cap used /\ calls[c].read \in Amounts
         /\ pledges[calls[c].pledge] # None =>
               /\ pledges[calls[c].pledge] \in Pledge
               /\ pledges[calls[c].pledge].campaign = calls[c].campaign
               /\ pledges[calls[c].pledge].amount \in Int
  <1>1. calls[c] \in Call /\ Knows(calls[c]) /\ calls[c].pc \in {"update", "delete"}
    BY DEF At, TypeOK, InMemory
  <1> QED
    BY <1>1, WholeAmounts DEF Knows, Call, TypeOK, Pledge

\* An update adjusts the sum by the difference, if nobody else has changed the
\* amount since it was read.
LEMMA CommitUpdateKeeps ==
  ASSUME CampaignsInv, NEW c \in Calls, CommitUpdate(c)
  PROVE  CampaignsInv'
  <1> USE DEF CampaignsInv
  <1> DEFINE q == calls[c]
             k == q.campaign
             p == q.pledge
             by == Adjustment(q)
  <1>1. CASE Fail(c)
    BY <1>1, FailKeeps
  <1>2. CASE ~ Fail(c)
    <2>1. /\ At(c, "update")
          /\ pledges[p] # None /\ Fits(k, by)
          /\ pledges' = IF q.amount = None THEN pledges
                        ELSE [pledges EXCEPT ![p].amount = q.amount]
          /\ Raise(k, by)
          /\ drifted' = IF q.amount # None /\ pledges[p].amount # q.read
                        THEN drifted \cup {k} ELSE drifted
          /\ End(c)
          /\ UNCHANGED <<funds, users, used, clock, crossed>>
      BY <1>2 DEF CommitUpdate
    <2>2. /\ q \in Call /\ k \in CampaignIds /\ p \in PledgeIds \cap used
          /\ q.read \in Int /\ pledges[p] \in Pledge
          /\ pledges[p].campaign = k /\ pledges[p].amount \in Int
      BY <2>1, WrittenPledge, WholeAmounts
    <2>3. q.amount # None => q.amount \in Amounts /\ q.amount \in Int
      BY <2>2, WholeAmounts DEF Call
    <2>4. by \in Int
      BY <2>2, <2>3 DEF Adjustment
    <2>5. /\ campaigns' \in [CampaignIds -> Campaign \cup {None}]
          /\ \A j \in CampaignIds :
               /\ campaigns'[j] = None <=> campaigns[j] = None
               /\ SameTimes(j)
               /\ campaigns[j] # None =>
                     /\ campaigns'[j].fund = campaigns[j].fund
                     /\ campaigns'[j].amountRaised =
                           campaigns[j].amountRaised + IF j = k THEN by ELSE 0
      <3> HIDE DEF by
      <3> QED
        BY <2>1, <2>2, <2>4, RaiseIs
    <2>6. /\ pledges' \in [PledgeIds -> Pledge \cup {None}]
          /\ \A r \in PledgeIds :
                /\ pledges'[r] = None <=> pledges[r] = None
                /\ pledges[r] # None =>
                      /\ pledges'[r].campaign = pledges[r].campaign
                      /\ pledges'[r].pledger = pledges[r].pledger
                /\ r # p => pledges'[r] = pledges[r]
          /\ pledges'[p].amount = IF q.amount = None THEN pledges[p].amount ELSE q.amount
      <3>1. CASE q.amount = None
        BY <2>1, <3>1 DEF TypeOK
      <3>2. CASE q.amount # None
        <4> DEFINE new == [pledges[p] EXCEPT !.amount = q.amount]
        <4>1. /\ new \in Pledge /\ new.campaign = pledges[p].campaign
              /\ new.pledger = pledges[p].pledger /\ new.amount = q.amount
          BY <2>2, <2>3, <3>2 DEF Pledge
        <4>2. pledges' = [pledges EXCEPT ![p] = new]
          BY <2>1, <3>2
        <4>3. new # None
          BY <4>1, NoneAssumption
        <4> HIDE DEF new
        <4>4. \A r \in PledgeIds : pledges'[r] = IF r = p THEN new ELSE pledges[r]
          BY <4>2 DEF TypeOK
        <4>5. pledges' \in [PledgeIds -> Pledge \cup {None}]
          BY <4>1, <4>2 DEF TypeOK
        <4> QED
          BY <2>1, <2>2, <3>2, <4>1, <4>3, <4>4, <4>5
      <3> QED
        BY <3>1, <3>2
    <2>7. Ends /\ calls' \in [Calls -> Call \cup {None}]
      BY <2>1, EndIs
    <2>8. TypeOK' /\ FewRows'
      <3>1. drifted' \subseteq CampaignIds
        BY <2>1, <2>2 DEF TypeOK
      <3>2. \A j \in CampaignIds : campaigns'[j] # None => j \in used'
        BY <2>1, <2>5 DEF TypeOK
      <3>3. \A r \in PledgeIds : pledges'[r] # None => r \in used'
        BY <2>1, <2>6 DEF TypeOK
      <3> QED
        BY <2>1, <2>5, <2>6, <2>7, <3>1, <3>2, <3>3 DEF TypeOK, FewRows
    <2>9. InMemory'
      BY <2>1, <2>6, <2>7, MemoryKept
    <2>10. Updates'
      <3>1. \A d \in Calls : At(d, "updateCampaign") => calls[d].campaign \in CampaignIds
        BY DEF At, TypeOK, Call
      <3> QED
        BY <2>1, <2>5, <2>7, <3>1, UpdateKept DEF Updates
    <2>11. WindowInOrder'
      BY <2>1, <2>5, WindowKept
    <2>12. NothingDangles'
      <3>1. \A r \in PledgeIds : pledges[r] # None => pledges[r].campaign \in CampaignIds
        BY DEF TypeOK, Pledge
      <3>2. \A r \in PledgeIds : pledges'[r] # None =>
               pledges'[r].pledger \in users' /\ campaigns'[pledges'[r].campaign] # None
        BY <2>1, <2>5, <2>6, <3>1 DEF NothingDangles
      <3> QED
        BY <2>1, <2>5, <3>2 DEF NothingDangles
    <2>13. RaisedIsPledged'
      <3>1. Raised(campaigns, pledges, drifted)
        BY RaisedMeans
      <3> SUFFICES ASSUME NEW j \in CampaignIds, campaigns'[j] # None, j \notin drifted'
                   PROVE  campaigns'[j].amountRaised = Sum(pledges', Holding(pledges', j))
        BY RaisedNext DEF Raised
      <3>2. campaigns[j] # None
            /\ campaigns[j].amountRaised = Sum(pledges, Holding(pledges, j))
        BY <2>1, <2>5, <3>1 DEF Raised
      <3>3. Holding(pledges', j) = Holding(pledges, j)
        BY <2>6 DEF Holding
      <3>4. IsFiniteSet(Holding(pledges, j)) /\ Sum(pledges, Holding(pledges, j)) \in Int
        BY FewPledges
      <3>5. CASE j # k
        <4>1. \A r \in Holding(pledges, j) : pledges'[r].amount = pledges[r].amount
          BY <2>2, <2>6, <3>5 DEF Holding
        <4>2. Sum(pledges', Holding(pledges, j)) = Sum(pledges, Holding(pledges, j))
          BY <3>4, <4>1, SumSame
        <4> QED
          BY <2>5, <3>2, <3>3, <3>4, <3>5, <4>2
      <3>6. CASE j = k
        <4> DEFINE H == Holding(pledges, k)
        <4>1. p \in H
          BY <2>1, <2>2 DEF Holding
        <4>2. \A r \in H \ {p} : pledges'[r].amount = pledges[r].amount
          BY <2>6 DEF Holding
        <4>3. PICK rest \in Int : /\ rest = Sum(pledges', H \ {p})
                                  /\ Sum(pledges, H) = pledges[p].amount + rest
          BY <4>1, <4>2, SumWithout
        <4>4. Sum(pledges', H) = pledges'[p].amount + rest
          <5>1. \A r \in H : pledges'[r].amount \in Int
            BY <2>2, <2>3, <2>6, <4>2, FewPledges
          <5> QED
            BY <3>4, <3>6, <4>1, <4>3, <5>1, SumSplits
        <4>5. campaigns'[j].amountRaised = Sum(pledges, H) + by
          BY <2>5, <3>2, <3>6
        <4>6. q.amount # None => pledges[p].amount = q.read
          BY <2>1, <2>2, <3>6
        <4>7. Sum(pledges, H) + by = Sum(pledges', H)
          <5>1. CASE q.amount = None
            BY <2>2, <2>6, <4>3, <4>4, <5>1 DEF Adjustment
          <5>2. CASE q.amount # None
            BY <2>2, <2>3, <2>6, <4>3, <4>4, <4>6, <5>2 DEF Adjustment
          <5> QED
            BY <5>1, <5>2
        <4> QED
          BY <3>3, <3>6, <4>5, <4>7
      <3> QED
        BY <3>5, <3>6
    <2> QED
      BY <2>8, <2>9, <2>10, <2>11, <2>12, <2>13
  <1> QED
    BY <1>1, <1>2

\* A deletion lowers the sum by what the pledge is as it goes.
LEMMA CommitDeleteKeeps ==
  ASSUME CampaignsInv, NEW c \in Calls, CommitDelete(c)
  PROVE  CampaignsInv'
  <1> USE DEF CampaignsInv
  <1> DEFINE q == calls[c]
             k == q.campaign
             p == q.pledge
             by == -Taken(q)
  <1>1. CASE Fail(c)
    BY <1>1, FailKeeps
  <1>2. CASE ~ Fail(c)
    <2>1. /\ At(c, "delete")
          /\ pledges[p] # None /\ Fits(k, by)
          /\ pledges' = [pledges EXCEPT ![p] = None]
          /\ Raise(k, by)
          /\ End(c)
          /\ UNCHANGED <<funds, users, used, clock, drifted, crossed>>
      BY <1>2 DEF CommitDelete
    <2>2. /\ k \in CampaignIds /\ p \in PledgeIds \cap used
          /\ pledges[p].campaign = k /\ pledges[p].amount \in Int
      BY <2>1, WrittenPledge
    <2>3. by = -pledges[p].amount /\ by \in Int
      BY <2>2 DEF Taken
    <2>4. /\ campaigns' \in [CampaignIds -> Campaign \cup {None}]
          /\ \A j \in CampaignIds :
               /\ campaigns'[j] = None <=> campaigns[j] = None
               /\ SameTimes(j)
               /\ campaigns[j] # None =>
                     /\ campaigns'[j].fund = campaigns[j].fund
                     /\ campaigns'[j].amountRaised =
                           campaigns[j].amountRaised + IF j = k THEN by ELSE 0
      <3> HIDE DEF by
      <3> QED
        BY <2>1, <2>2, <2>3, RaiseIs
    <2>5. \A r \in PledgeIds : pledges'[r] = IF r = p THEN None ELSE pledges[r]
      BY <2>1 DEF TypeOK
    <2>6. Ends /\ calls' \in [Calls -> Call \cup {None}]
      BY <2>1, EndIs
    <2>7. TypeOK' /\ FewRows'
      <3>1. pledges' \in [PledgeIds -> Pledge \cup {None}]
        BY <2>1 DEF TypeOK
      <3>2. \A j \in CampaignIds : campaigns'[j] # None => j \in used'
        BY <2>1, <2>4 DEF TypeOK
      <3>3. \A r \in PledgeIds : pledges'[r] # None => r \in used'
        BY <2>1, <2>5 DEF TypeOK
      <3> QED
        BY <2>1, <2>4, <2>6, <3>1, <3>2, <3>3 DEF TypeOK, FewRows
    <2>8. InMemory'
      BY <2>1, <2>5, <2>6, MemoryKept
    <2>9. Updates'
      <3>1. \A d \in Calls : At(d, "updateCampaign") => calls[d].campaign \in CampaignIds
        BY DEF At, TypeOK, Call
      <3> QED
        BY <2>1, <2>4, <2>6, <3>1, UpdateKept DEF Updates
    <2>10. WindowInOrder'
      BY <2>1, <2>4, WindowKept
    <2>11. NothingDangles'
      <3>1. \A r \in PledgeIds : pledges[r] # None => pledges[r].campaign \in CampaignIds
        BY DEF TypeOK, Pledge
      <3>2. \A r \in PledgeIds : pledges'[r] # None =>
               pledges'[r].pledger \in users' /\ campaigns'[pledges'[r].campaign] # None
        BY <2>1, <2>4, <2>5, <3>1 DEF NothingDangles
      <3> QED
        BY <2>1, <2>4, <3>2 DEF NothingDangles
    <2>12. RaisedIsPledged'
      <3>1. Raised(campaigns, pledges, drifted)
        BY RaisedMeans
      <3> SUFFICES ASSUME NEW j \in CampaignIds, campaigns'[j] # None, j \notin drifted
                   PROVE  campaigns'[j].amountRaised = Sum(pledges', Holding(pledges', j))
        BY <2>1, RaisedNext DEF Raised
      <3>2. campaigns[j] # None
            /\ campaigns[j].amountRaised = Sum(pledges, Holding(pledges, j))
        BY <2>4, <3>1 DEF Raised
      <3>3. Holding(pledges', j) = Holding(pledges, j) \ {p}
        BY <2>5 DEF Holding
      <3>4. \A r \in Holding(pledges, j) \ {p} : pledges'[r].amount = pledges[r].amount
        BY <2>5 DEF Holding
      <3>5. CASE j # k
        <4>1. p \notin Holding(pledges, j)
          BY <2>2, <3>5 DEF Holding
        <4>2. Holding(pledges, j) \ {p} = Holding(pledges, j)
          BY <4>1
        <4>3. IsFiniteSet(Holding(pledges, j)) /\ Sum(pledges, Holding(pledges, j)) \in Int
          BY FewPledges
        <4>4. Sum(pledges', Holding(pledges, j)) = Sum(pledges, Holding(pledges, j))
          BY <3>4, <4>1, <4>3, SumSame
        <4>5. campaigns'[j].amountRaised = Sum(pledges, Holding(pledges, j)) + 0
          <5> HIDE DEF by
          <5> QED
            BY <2>4, <3>2, <3>5
        <4>6. Holding(pledges', j) = Holding(pledges, j)
          BY <3>3, <4>2
        <4>7. Sum(pledges, Holding(pledges, j)) + 0 = Sum(pledges, Holding(pledges, j))
          BY <4>3
        <4> QED
          BY <4>4, <4>5, <4>6, <4>7
      <3>6. CASE j = k
        <4>1. p \in Holding(pledges, j)
          BY <2>1, <2>2, <3>6 DEF Holding
        <4>2. PICK rest \in Int :
                 /\ rest = Sum(pledges', Holding(pledges, j) \ {p})
                 /\ Sum(pledges, Holding(pledges, j)) = pledges[p].amount + rest
          BY <3>4, <4>1, SumWithout
        <4>3. campaigns'[j].amountRaised = (pledges[p].amount + rest) + by
          <5> HIDE DEF by
          <5> QED
            BY <2>4, <3>2, <3>6, <4>2
        <4>4. (pledges[p].amount + rest) + by = rest
          <5> HIDE DEF by
          <5> QED
            BY <2>2, <2>3, <4>2
        <4> QED
          BY <3>3, <4>2, <4>3, <4>4
      <3> QED
        BY <3>5, <3>6
    <2> QED
      BY <2>7, <2>8, <2>9, <2>10, <2>11, <2>12
  <1> QED
    BY <1>1, <1>2

------------------------------------------------------------------------------
(* Deletions of one statement, and time                                    *)

\* Campaigns go with their pledges; the others keep theirs.
LEMMA DeleteCampaignsKeeps ==
  ASSUME CampaignsInv, NEW ks \in SUBSET CampaignIds, DeleteCampaigns(ks),
         funds' \subseteq funds,
         \A k \in CampaignIds : campaigns[k] # None /\ campaigns[k].fund \notin funds' => k \in ks
  PROVE  CampaignsInv'
  <1> USE DEF CampaignsInv
  <1>1. /\ campaigns' = [k \in CampaignIds |-> IF k \in ks THEN None ELSE campaigns[k]]
        /\ \A p \in PledgeIds :
              pledges'[p] = IF pledges[p] # None /\ pledges[p].campaign \in ks
                            THEN None ELSE pledges[p]
        /\ pledges' \in [PledgeIds -> Pledge \cup {None}]
        /\ UNCHANGED <<users, used, clock, calls, drifted, crossed>>
    BY DEF DeleteCampaigns, Without, TypeOK
  <1>2. Ends
    BY <1>1 DEF Ends
  <1>3. \A k \in CampaignIds : SameTimes(k)
    BY <1>1 DEF SameTimes
  <1>4. TypeOK' /\ FewRows'
    BY <1>1 DEF TypeOK, FewRows
  <1>5. InMemory'
    BY <1>1, <1>2, MemoryKept
  <1>6. Updates'
    <2>1. \A d \in Calls : At(d, "updateCampaign") => calls[d].campaign \in CampaignIds
      BY DEF At, TypeOK, Call
    <2> QED
      BY <1>1, <1>2, <1>3, <2>1, UpdateKept DEF Updates
  <1>7. WindowInOrder'
    BY <1>1, <1>3, WindowKept
  <1>8. NothingDangles'
    <2>1. \A p \in PledgeIds : pledges[p] # None => pledges[p].campaign \in CampaignIds
      BY DEF TypeOK, Pledge
    <2> QED
      BY <1>1, <2>1 DEF NothingDangles
  <1>9. RaisedIsPledged'
    <2>1. Raised(campaigns, pledges, drifted)
      BY RaisedMeans
    <2> SUFFICES ASSUME NEW j \in CampaignIds, campaigns'[j] # None, j \notin drifted
                 PROVE  campaigns'[j].amountRaised = Sum(pledges', Holding(pledges', j))
      BY <1>1, RaisedNext DEF Raised
    <2>2. j \notin ks /\ campaigns'[j] = campaigns[j]
      BY <1>1
    <2>3. Holding(pledges', j) = Holding(pledges, j)
      BY <1>1, <2>2 DEF Holding
    <2>4. \A r \in Holding(pledges, j) : pledges'[r].amount = pledges[r].amount
      BY <1>1, <2>2 DEF Holding
    <2>5. Sum(pledges', Holding(pledges, j)) = Sum(pledges, Holding(pledges, j))
      BY <2>4, FewPledges, SumSame
    <2> QED
      BY <2>1, <2>2, <2>3, <2>5 DEF Raised
  <1> QED
    BY <1>4, <1>5, <1>6, <1>7, <1>8, <1>9

\* The campaigns of the pledges of a user who is deleted have drifted.
LEMMA DeleteUserKeeps ==
  ASSUME CampaignsInv, NEW u \in Users, DeleteUser(u)
  PROVE  CampaignsInv'
  <1> USE DEF CampaignsInv
  <1>1. /\ users' = users \ {u}
        /\ \A p \in PledgeIds :
              pledges'[p] = IF pledges[p] # None /\ pledges[p].pledger = u
                            THEN None ELSE pledges[p]
        /\ pledges' \in [PledgeIds -> Pledge \cup {None}]
        /\ UNCHANGED <<funds, campaigns, used, clock, calls, crossed>>
    BY DEF DeleteUser, Without, TypeOK
  <1>2. /\ drifted \subseteq drifted' /\ drifted' \subseteq CampaignIds
        /\ \A k \in CampaignIds, p \in PledgeIds :
              pledges[p] # None /\ pledges[p].campaign = k /\ pledges[p].pledger = u
                 => k \in drifted'
    BY DEF DeleteUser, PledgesOf, TypeOK
  <1>3. Ends /\ \A k \in CampaignIds : SameTimes(k)
    BY <1>1 DEF Ends, SameTimes
  <1>4. TypeOK' /\ FewRows'
    BY <1>1, <1>2 DEF TypeOK, FewRows
  <1>5. InMemory'
    BY <1>1, <1>3, MemoryKept
  <1>6. Updates'
    <2>1. \A d \in Calls : At(d, "updateCampaign") => calls[d].campaign \in CampaignIds
      BY DEF At, TypeOK, Call
    <2> QED
      BY <1>1, <1>3, <2>1, UpdateKept DEF Updates
  <1>7. WindowInOrder'
    BY <1>1, <1>3, WindowKept
  <1>8. NothingDangles'
    BY <1>1 DEF NothingDangles
  <1>9. RaisedIsPledged'
    <2>1. Raised(campaigns, pledges, drifted)
      BY RaisedMeans
    <2> SUFFICES ASSUME NEW j \in CampaignIds, campaigns'[j] # None, j \notin drifted'
                 PROVE  campaigns'[j].amountRaised = Sum(pledges', Holding(pledges', j))
      BY RaisedNext DEF Raised
    <2>2. \A r \in Holding(pledges, j) : pledges'[r] = pledges[r]
      BY <1>1, <1>2 DEF Holding
    <2>3. Holding(pledges', j) = Holding(pledges, j)
      BY <1>1, <2>2 DEF Holding
    <2>4. Sum(pledges', Holding(pledges, j)) = Sum(pledges, Holding(pledges, j))
      BY <2>2, FewPledges, SumSame
    <2> QED
      BY <1>1, <1>2, <2>1, <2>3, <2>4 DEF Raised
  <1> QED
    BY <1>4, <1>5, <1>6, <1>7, <1>8, <1>9

\* Time passes, or nothing happens.
LEMMA TickKeeps ==
  ASSUME CampaignsInv, Tick \/ UNCHANGED vars
  PROVE  CampaignsInv'
  <1> USE DEF CampaignsInv
  <1>1. /\ UNCHANGED <<funds, users, campaigns, pledges, used, calls, drifted, crossed>>
        /\ clock' \in Times
    BY AmountsAssumption DEF Tick, vars, TypeOK, Times
  <1>2. Ends /\ \A k : SameTimes(k)
    BY <1>1 DEF Ends, SameTimes
  <1>3. TypeOK' /\ FewRows'
    BY <1>1 DEF TypeOK, FewRows
  <1>4. InMemory'
    BY <1>1, <1>2, MemoryKept
  <1>5. Updates'
    BY <1>1, <1>2, UpdatesKept
  <1>6. WindowInOrder' /\ NothingDangles'
    BY <1>1 DEF WindowInOrder, NothingDangles
  <1>7. RaisedIsPledged'
    BY <1>1, RaisedMeans, RaisedNext
  <1> QED
    BY <1>3, <1>4, <1>5, <1>6, <1>7

------------------------------------------------------------------------------
(* Theorems                                                                *)

LEMMA StepKeeps == CampaignsInv /\ [Next]_vars => CampaignsInv'
  <1> SUFFICES ASSUME CampaignsInv, [Next]_vars PROVE CampaignsInv'
    OBVIOUS
  <1>1. ASSUME NEW c \in Calls, Mutation(c) PROVE CampaignsInv'
    BY <1>1, MutationOpens, OpensKeeps DEF CampaignsInv
  <1>2. ASSUME NEW c \in Calls, Commit(c) PROVE CampaignsInv'
    BY <1>2, InsertCampaignKeeps, WriteCampaignKeeps, CommitPledgeKeeps,
       CommitUpdateKeeps, CommitDeleteKeeps DEF Commit
  <1>3. ASSUME NEW k \in CampaignIds, DeleteFundCampaign(k) PROVE CampaignsInv'
    <2>1. DeleteCampaigns({k}) /\ funds' = funds
      BY <1>3 DEF DeleteFundCampaign
    <2>2. \A j \in CampaignIds : campaigns[j] # None => campaigns[j].fund \in funds
      BY DEF CampaignsInv, NothingDangles
    <2> QED
      BY <2>1, <2>2, DeleteCampaignsKeeps
  <1>4. ASSUME NEW f \in Funds, DeleteFund(f) PROVE CampaignsInv'
    <2> DEFINE ks == {k \in CampaignIds : campaigns[k] # None /\ campaigns[k].fund = f}
    <2>1. DeleteCampaigns(ks) /\ funds' = funds \ {f}
      BY <1>4 DEF DeleteFund
    <2>2. \A j \in CampaignIds : campaigns[j] # None => campaigns[j].fund \in funds
      BY DEF CampaignsInv, NothingDangles
    <2>3. \A j \in CampaignIds :
             campaigns[j] # None /\ campaigns[j].fund \notin funds' => j \in ks
      BY <2>1, <2>2
    <2>4. ks \in SUBSET CampaignIds /\ funds' \subseteq funds
      BY <2>1
    <2> HIDE DEF ks
    <2> QED
      BY <2>1, <2>3, <2>4, DeleteCampaignsKeeps
  <1>5. ASSUME NEW u \in Users, DeleteUser(u) PROVE CampaignsInv'
    BY <1>5, DeleteUserKeeps
  <1>6. CASE Tick \/ UNCHANGED vars
    BY <1>6, TickKeeps
  <1> QED
    BY <1>1, <1>2, <1>3, <1>4, <1>5, <1>6 DEF Next

LEMMA Invariance == Spec => []CampaignsInv
  BY InitHolds, StepKeeps, PTL DEF Spec

\* The tables, what is in memory and the history keep their type.
THEOREM TypeCorrect == Spec => []TypeOK
  <1>1. CampaignsInv => TypeOK
    BY DEF CampaignsInv
  <1> QED
    BY <1>1, Invariance, PTL

\* amountRaised is the sum of the pledges, whatever failed or overlapped, unless
\* an update adjusted it by an amount that had changed since it was read, or a
\* user was deleted with a pledge.
THEOREM SumsAreRight == Spec => []RaisedIsPledged
  <1>1. CampaignsInv => RaisedIsPledged
    BY DEF CampaignsInv
  <1> QED
    BY <1>1, Invariance, PTL

\* A campaign two updates of which never overlapped ends after it starts.
THEOREM WindowsInOrder == Spec => []WindowInOrder
  <1>1. CampaignsInv => WindowInOrder
    BY DEF CampaignsInv
  <1> QED
    BY <1>1, Invariance, PTL

\* Pledges have their campaign and their pledger, campaigns their fund.
THEOREM NoneDangles == Spec => []NothingDangles
  <1>1. CampaignsInv => NothingDangles
    BY DEF CampaignsInv
  <1> QED
    BY <1>1, Invariance, PTL
=============================================================================
