----------------------- MODULE RecurringSeries_losses -----------------------
(***************************************************************************)
(* Proofs about what RecurringSeries loses: no instance and no action item *)
(* is deleted for another reason than the code gives, no occurrence is     *)
(* left out between what a mutation inserts and what the worker adds, and  *)
(* what a client has cut comes back in one way only.                       *)
(***************************************************************************)
EXTENDS RecurringSeries_proofs

\* A client that splits a series holds an instance of an old rule, and carries
\* the series of that rule as long as the rule is there.
SplitsMatchRules ==
    \A u \in Users : Pending(u, "split") =>
        /\ request[u].row.rule < nextRule
        /\ rules[request[u].row.rule] # None =>
              rules[request[u].row.rule].series = request[u].row.series

\* Every insert for a slot of a rule gets a number, and an identifier, of its own.
IdsUnique ==
    \A x \in rows :
        /\ x.copy <= made[x.rule][x.slot]
        /\ \A y \in rows : IdOf(x) = IdOf(y) => x = y

LossInv == SeriesInv /\ SplitsMatchRules /\ IdsUnique

------------------------------------------------------------------------------
(* Rules keep their series                                                 *)

\* A rule in the table f is gone, or as it was but for its end.
Outlives(f) ==
    \A r \in RuleIds : f[r] # None => rules[r] # None /\ f[r].series = rules[r].series

\* What a step may do to the rules that exist
LEMMA RuleSteps ==
    ASSUME SeriesInv, Next
    PROVE  \/ nextRule' = nextRule /\ Outlives(rules')
           \/ /\ nextRule \in RuleIds /\ nextRule' = nextRule + 1
              /\ \A r \in RuleIds \ {nextRule} :
                    rules'[r] # None => /\ rules[r] # None
                                        /\ rules'[r].series = rules[r].series
  <1>1. TypeOK
    BY DEF SeriesInv
  <1>2. ASSUME NEW f, Keeps(f), NEW rule, NEW root, NEW lo, NEW hi, NEW kept,
               NEW h, NewSeries(rule, root, lo, hi, kept, f, h)
        PROVE  /\ nextRule \in RuleIds /\ nextRule' = nextRule + 1
               /\ \A r \in RuleIds \ {nextRule} :
                     rules'[r] # None => /\ rules[r] # None
                                         /\ rules'[r].series = rules[r].series
    <2>1. /\ nextRule \in RuleIds /\ nextRule' = nextRule + 1
          /\ rules' = [f EXCEPT ![nextRule] = rule]
      BY <1>2 DEF NewSeries
    <2>2. \A r \in RuleIds \ {nextRule} : rules'[r] = f[r]
      BY <1>2, <2>1 DEF Keeps
    <2> QED
      BY <1>2, <2>1, <2>2 DEF Keeps
  <1>3. Keeps(rules)
    BY <1>1 DEF Keeps, TypeOK
  <1>4. ASSUME NEW u \in Users, NEW start \in Dates, NEW p \in Patterns,
               CommitCreate(u, start, p)
        PROVE  \E rule, root, lo, hi, kept, h :
                  NewSeries(rule, root, lo, hi, kept, rules, h)
    BY <1>4 DEF CommitCreate
  <1>5. ASSUME NEW u \in Users, CommitSplit(u)
        PROVE  \E rule, root, lo, hi, kept, f, h :
                  Keeps(f) /\ NewSeries(rule, root, lo, hi, kept, f, h)
    <2>1. PICK start, p : SplitAt(u, start, p)
      BY <1>5 DEF CommitSplit
    <2>2. Keeps(CutRules(request[u].row))
      BY <1>1, <1>5, RequestTyped, CutKeeps DEF CommitSplit
    <2> QED
      BY <2>1, <2>2 DEF SplitAt
  <1>6. ASSUME NEW u \in Users, CommitCut(u)
        PROVE  nextRule' = nextRule /\ Outlives(rules')
    <2>1. rules' = CutRules(request[u].row) /\ request[u].row \in Row
      BY <1>1, <1>6, RequestTyped DEF CommitCut, RowOps
    <2>2. Keeps(rules')
      BY <1>1, <2>1, CutKeeps
    <2> QED
      BY <1>6, <2>2 DEF Keeps, CommitCut, Outlives
  <1>7. ASSUME NEW u \in Users, CommitErase(u)
        PROVE  nextRule' = nextRule /\ Outlives(rules')
    BY <1>7 DEF CommitErase, Outlives
  <1>8. CASE rules' = rules /\ nextRule' = nextRule
    BY <1>8 DEF Outlives
  <1>9. \/ rules' = rules /\ nextRule' = nextRule
        \/ \E u \in Users :
              \/ \E start \in Dates, p \in Patterns : CommitCreate(u, start, p)
              \/ CommitSplit(u) \/ CommitCut(u) \/ CommitErase(u)
    BY DEF Next, Mutation, BeginCreate, BeginOnRow, BeginSplit, BeginErase,
       Begin, CommitCancel, CommitMove, Rollback, Tick, AddItem, Work,
       Discover, JobStep, ReadRule, FilterFound, InsertFound, LoseRule,
       FailJob, Cleanup, db
  <1> QED
    BY <1>2, <1>3, <1>4, <1>5, <1>6, <1>7, <1>8, <1>9

\* Every step keeps the rule a split has read in line with its instance.
LEMMA SplitsMatchStays ==
    ASSUME SeriesInv, SplitsMatchRules, Next
    PROVE  SplitsMatchRules'
  <1>1. ASSUME NEW u \in Users, request'[u].op = "split"
        PROVE  /\ request'[u].row.rule \in RuleIds
               /\ request'[u].row.rule < nextRule
               /\ rules[request'[u].row.rule] # None =>
                     rules[request'[u].row.rule].series = request'[u].row.series
    <2>1. CASE request'[u] = request[u]
      <3>1. Pending(u, "split") /\ request[u].row \in Row
        BY <1>1, <2>1, RequestTyped DEF SeriesInv, Pending
      <3> QED
        BY <2>1, <3>1 DEF SplitsMatchRules, Row
    <2>2. CASE \E row \in rows : request'[u] = [op |-> "split", row |-> row,
                                                rule |-> rules[row.rule]]
      <3>1. PICK row \in rows : request'[u] = [op |-> "split", row |-> row,
                                               rule |-> rules[row.rule]]
        BY <2>2
      <3>2. row.rule \in RuleIds /\ nextRule \in Nat
        BY DEF SeriesInv, TypeOK, Row
      <3>3. rules[row.rule] # None /\ row.series = rules[row.rule].series
        BY DEF SeriesInv, RowsMatchRules
      <3> DEFINE r == row.rule
      <3>4. r < nextRule
        <4>1. r \in Nat
          BY <3>2, ConstantsTyped
        <4>2. ~(r >= nextRule)
          BY <3>2, <3>3 DEF SeriesInv, FreshRules
        <4> HIDE DEF r
        <4> QED
          BY <3>2, <4>1, <4>2
      <3> QED
        BY <3>1, <3>2, <3>3, <3>4
    <2>3. CASE \E o \in Orgs : request'[u] = [op |-> "create", org |-> o,
                                              found |-> WindowsOf(o) # {}]
      BY <1>1, <2>3
    <2> QED
      BY <1>1, <2>1, <2>2, <2>3, RequestSteps
  <1>2. nextRule \in Nat /\ RuleIds \subseteq Nat
    BY ConstantsTyped DEF SeriesInv, TypeOK
  <1>3. ASSUME NEW r \in RuleIds, r < nextRule, rules'[r] # None
        PROVE  /\ rules[r] # None /\ rules'[r].series = rules[r].series
    BY <1>2, <1>3, RuleSteps DEF Outlives
  <1>4. \A r \in RuleIds : r < nextRule => r < nextRule'
    BY <1>2, RuleSteps
  <1> QED
    BY <1>1, <1>3, <1>4 DEF SplitsMatchRules, Pending

------------------------------------------------------------------------------
(* Identifiers are unique                                                  *)

\* What a step may do to the instances and their numbering
LEMMA IdSteps ==
    ASSUME SeriesInv, Next
    PROVE  \/ rows' \subseteq rows /\ made' = made
           \/ /\ made' = made
              /\ \E x \in rows : \E y : /\ rows' = (rows \ {x}) \cup {y}
                                        /\ y.rule = x.rule /\ y.slot = x.slot
                                        /\ y.copy = x.copy
           \/ \E r \in RuleIds, slots \in SUBSET Slots, kept \in SUBSET rows : \E series :
                 Insert(r, series, slots, kept)
  <1>1. ASSUME NEW rule, NEW root, NEW lo, NEW hi, NEW kept \in SUBSET rows,
               NEW f, NEW h, NewSeries(rule, root, lo, hi, kept, f, h)
        PROVE  \E r \in RuleIds, slots \in SUBSET Slots, k \in SUBSET rows : \E series :
                  Insert(r, series, slots, k)
    <2> DEFINE slots == OccurrencesIn(rule, lo, hi)
    <2>1. nextRule \in RuleIds /\ Insert(nextRule, rule.series, slots, kept)
      BY <1>1 DEF NewSeries
    <2>2. slots \in SUBSET Slots
      BY DEF OccurrencesIn
    <2> HIDE DEF slots
    <2> QED
      BY <1>1, <2>1, <2>2
  <1>2. ASSUME NEW u \in Users, NEW start \in Dates, NEW p \in Patterns,
               CommitCreate(u, start, p)
        PROVE  \E rule, root, lo, hi, f, h : NewSeries(rule, root, lo, hi, rows, f, h)
    BY <1>2 DEF CommitCreate
  <1>3. ASSUME NEW u \in Users, CommitSplit(u)
        PROVE  \E kept \in SUBSET rows : \E rule, root, lo, hi, f, h :
                  NewSeries(rule, root, lo, hi, kept, f, h)
    <2>1. PICK start, p : SplitAt(u, start, p)
      BY <1>3 DEF CommitSplit
    <2> DEFINE kept == rows \ {x \in rows : /\ x.rule = request[u].row.rule
                                            /\ x.start >= request[u].row.start}
    <2>2. \E rule, root, lo, hi, f, h : NewSeries(rule, root, lo, hi, kept, f, h)
      BY <2>1 DEF SplitAt
    <2>3. kept \in SUBSET rows
      OBVIOUS
    <2> HIDE DEF kept
    <2> QED
      BY <2>2, <2>3
  <1>4. ASSUME NEW u \in Users, NEW x \in rows,
               CommitCancel(u, x) \/ CommitMove(u, x)
        PROVE  /\ made' = made
               /\ \E y : /\ rows' = (rows \ {x}) \cup {y}
                         /\ y.rule = x.rule /\ y.slot = x.slot /\ y.copy = x.copy
    <2>1. x \in Row
      BY DEF SeriesInv, TypeOK
    <2>2. PICK y : /\ y = [x EXCEPT !.cancelled = TRUE]
                        \/ \E start, end : y = [x EXCEPT !.start = start, !.end = end]
                   /\ rows' = (rows \ {x}) \cup {y} /\ made' = made
      BY <1>4 DEF CommitCancel, CommitMove
    <2>3. y.rule = x.rule /\ y.slot = x.slot /\ y.copy = x.copy
      BY <2>1, <2>2 DEF Row
    <2> QED
      BY <2>2, <2>3
  <1>5. ASSUME NEW w \in Workers, NEW j \in jobs[w], InsertFound(w, j)
        PROVE  \E r \in RuleIds, slots \in SUBSET Slots, kept \in SUBSET rows : \E series :
                  Insert(r, series, slots, kept)
    <2>1. j.rule \in RuleIds /\ j.found \in SUBSET Slots
      BY DEF SeriesInv, TypeOK, Job
    <2>2. Insert(j.rule, rules[j.rule].series, j.found, rows)
      BY <1>5 DEF InsertFound
    <2> QED
      BY <2>1, <2>2
  <1>6. ASSUME NEW u \in Users, CommitCut(u) \/ CommitErase(u)
        PROVE  rows' \subseteq rows /\ made' = made
    BY <1>6 DEF CommitCut, CommitErase
  <1>7. ASSUME NEW o \in Orgs, Cleanup(o) PROVE rows' \subseteq rows /\ made' = made
    BY <1>7 DEF Cleanup
  <1>8. \/ rows' = rows /\ made' = made
        \/ \E u \in Users :
              \/ \E start \in Dates, p \in Patterns : CommitCreate(u, start, p)
              \/ \E x \in rows : CommitCancel(u, x) \/ CommitMove(u, x)
              \/ CommitSplit(u) \/ CommitCut(u) \/ CommitErase(u)
        \/ \E w \in Workers : \E j \in jobs[w] : InsertFound(w, j)
        \/ \E o \in Orgs : Cleanup(o)
    BY DEF Next, Mutation, BeginCreate, BeginOnRow, BeginSplit, BeginErase,
       Begin, Rollback, Tick, AddItem, Work, Discover, JobStep, ReadRule,
       FilterFound, LoseRule, FailJob, db
  <1>9. ASSUME NEW u \in Users,
               \/ \E start \in Dates, p \in Patterns : CommitCreate(u, start, p)
               \/ CommitSplit(u)
        PROVE  \E r \in RuleIds, slots \in SUBSET Slots, k \in SUBSET rows : \E series :
                  Insert(r, series, slots, k)
    <2>1. rows \in SUBSET rows
      OBVIOUS
    <2> QED
      BY <1>1, <1>2, <1>3, <1>9, <2>1
  <1> QED
    BY <1>4, <1>5, <1>6, <1>7, <1>8, <1>9

\* The instances an insert numbers anew differ from all there were.
LEMMA InsertNumbered ==
    ASSUME SeriesInv, IdsUnique, NEW r \in RuleIds, NEW series,
           NEW slots \in SUBSET Slots, NEW kept \in SUBSET rows,
           Insert(r, series, slots, kept)
    PROVE  IdsUnique'
  <1>1. /\ rows' = kept \cup NewRows(r, series, slots)
        /\ made' = [made EXCEPT ![r] =
                      [s \in Slots |-> IF s \in slots THEN made[r][s] + 1
                                                      ELSE made[r][s]]]
    BY DEF Insert, SeriesInv, TypeOK
  <1>2. made \in [RuleIds -> [Slots -> Nat]]
    BY DEF SeriesInv, TypeOK
  <1>3. ASSUME NEW q \in RuleIds, NEW s \in Slots
        PROVE  /\ made[q][s] \in Nat /\ made'[q][s] \in Nat
               /\ made[q][s] <= made'[q][s]
               /\ q = r /\ s \in slots => made'[q][s] = made[q][s] + 1
    <2>1. made[q][s] \in Nat
      BY <1>2
    <2>2. CASE q = r
      BY <1>1, <1>2, <2>1, <2>2
    <2>3. CASE q # r
      <3>1. made'[q] = made[q]
        BY <1>1, <1>2, <2>3
      <3> QED
        BY <2>1, <2>3, <3>1
    <2> QED
      BY <2>2, <2>3
  <1>4. ASSUME NEW x \in kept
        PROVE  /\ x.rule \in RuleIds /\ x.slot \in Slots /\ x.copy \in Nat
               /\ x.copy <= made[x.rule][x.slot]
    BY DEF SeriesInv, TypeOK, Row, IdsUnique
  <1>5. ASSUME NEW x \in NewRows(r, series, slots)
        PROVE  /\ x.rule = r /\ x.slot \in slots
               /\ x.copy = made[r][x.slot] + 1
               /\ x = [rule |-> r, series |-> series, slot |-> x.slot,
                       copy |-> made[r][x.slot] + 1, start |-> x.slot,
                       end |-> x.slot + Duration, cancelled |-> FALSE]
    BY DEF NewRows
  <1>6. ASSUME NEW x \in rows' PROVE x.copy <= made'[x.rule][x.slot]
    <2>1. CASE x \in kept
      <3>1. made[x.rule][x.slot] <= made'[x.rule][x.slot]
        BY <1>3, <1>4, <2>1
      <3> QED
        BY <1>3, <1>4, <2>1, <3>1
    <2>2. CASE x \in NewRows(r, series, slots)
      BY <1>3, <1>5, <2>2
    <2> QED
      BY <1>1, <2>1, <2>2
  <1>7. ASSUME NEW x \in kept, NEW y \in NewRows(r, series, slots)
        PROVE  IdOf(x) # IdOf(y)
    <2>1. CASE x.rule = r /\ x.slot = y.slot
      <3>1. x.copy <= made[r][y.slot] /\ y.copy = made[r][y.slot] + 1
        BY <1>4, <1>5, <2>1
      <3>2. x.copy \in Nat /\ made[r][y.slot] \in Nat
        BY <1>3, <1>4, <1>5
      <3> QED
        BY <3>1, <3>2 DEF IdOf
    <2> QED
      BY <1>5, <2>1 DEF IdOf
  <1>8. ASSUME NEW x \in NewRows(r, series, slots),
               NEW y \in NewRows(r, series, slots), IdOf(x) = IdOf(y)
        PROVE  x = y
    <2>1. x.slot = y.slot
      BY <1>8 DEF IdOf
    <2> QED
      BY <1>5, <2>1
  <1>9. \A x, y \in kept : IdOf(x) = IdOf(y) => x = y
    BY DEF IdsUnique
  <1>10. \A x, y \in rows' : IdOf(x) = IdOf(y) => x = y
    BY <1>1, <1>7, <1>8, <1>9
  <1> QED
    BY <1>6, <1>10 DEF IdsUnique, IdOf

\* Every step keeps identifiers unique.
LEMMA IdsStayUnique ==
    ASSUME SeriesInv, IdsUnique, Next
    PROVE  IdsUnique'
  <1>1. CASE rows' \subseteq rows /\ made' = made
    BY <1>1 DEF IdsUnique, IdOf
  <1>2. ASSUME NEW x \in rows, NEW y, rows' = (rows \ {x}) \cup {y}, made' = made,
               y.rule = x.rule, y.slot = x.slot, y.copy = x.copy
        PROVE  IdsUnique'
    <2>1. IdOf(y) = IdOf(x)
      BY <1>2 DEF IdOf
    <2>2. \A a, b \in rows' : IdOf(a) = IdOf(b) => a = b
      BY <1>2, <2>1 DEF IdsUnique
    <2>3. \A a \in rows' : a.copy <= made'[a.rule][a.slot]
      BY <1>2 DEF IdsUnique
    <2> QED
      BY <2>2, <2>3 DEF IdsUnique, IdOf
  <1> QED
    BY <1>1, <1>2, IdSteps, InsertNumbered

------------------------------------------------------------------------------

\* The invariant behind the two theorems holds in every reachable state.
LEMMA LossInvariance == Spec => []LossInv
  <1>1. Init => LossInv
    <2> SUFFICES ASSUME Init PROVE LossInv
      OBVIOUS
    <2>1. SplitsMatchRules /\ IdsUnique
      BY DEF Init, SplitsMatchRules, Pending, Idle, IdsUnique
    <2> QED
      BY <2>1, InitSeriesInv DEF LossInv
  <1>2. LossInv /\ [Next]_vars => LossInv'
    <2> SUFFICES ASSUME LossInv, [Next]_vars PROVE LossInv'
      OBVIOUS
    <2>1. SeriesInv'
      BY NextKeepsSeriesInv DEF LossInv
    <2>2. CASE Next
      BY <2>1, <2>2, SplitsMatchStays, IdsStayUnique DEF LossInv
    <2>3. CASE UNCHANGED vars
      BY <2>1, <2>3 DEF vars, db, LossInv, SplitsMatchRules, Pending, IdsUnique, IdOf
    <2> QED
      BY <2>2, <2>3
  <1> QED
    BY <1>1, <1>2, PTL DEF Spec

------------------------------------------------------------------------------
(* What disappears, and why                                                *)

\* A mutation that is done has committed in the sense of the property.
LEMMA CommitsRequest ==
    ASSUME SeriesInv, NEW u \in Users, NEW op, Pending(u, op), Done(u)
    PROVE  Commits(u, op)
  BY DEF SeriesInv, TypeOK, Done, Commits

\* What is still there is not gone; what was replaced keeps its identifier.
LEMMA KeptIsNotGone ==
    ASSUME NEW x \in rows, Gone(x)
    PROVE  x \notin rows'
  BY DEF Gone

\* An instance that is updated in place is not lost.
LEMMA ReplacedIsNotGone ==
    ASSUME SeriesInv, NEW u \in Users, NEW z \in rows,
           CommitCancel(u, z) \/ CommitMove(u, z),
           NEW x \in rows
    PROVE  ~Gone(x)
  <1>1. PICK y : /\ y = [z EXCEPT !.cancelled = TRUE]
                      \/ \E start, end : y = [z EXCEPT !.start = start, !.end = end]
                 /\ rows' = (rows \ {z}) \cup {y}
    BY DEF CommitCancel, CommitMove
  <1>2. IdOf(y) = IdOf(z)
    BY <1>1 DEF SeriesInv, TypeOK, Row, IdOf
  <1> QED
    BY <1>1, <1>2 DEF Gone

\* Every step that loses an instance has a reason to.
LEMMA LossIsJustified ==
    ASSUME LossInv, Next, NEW x \in rows, Gone(x)
    PROVE  Justified(x)
  <1> USE DEF LossInv
  <1>1. ASSUME NEW u \in Users, CommitCut(u) PROVE Justified(x)
    <2>1. Commits(u, "cut")
      BY <1>1, CommitsRequest DEF CommitCut
    <2>2. x.series = request[u].row.series /\ x.start >= request[u].row.start
      BY <1>1, KeptIsNotGone DEF CommitCut
    <2> QED
      BY <2>1, <2>2 DEF Justified
  <1>2. ASSUME NEW u \in Users, CommitSplit(u) PROVE Justified(x)
    <2>1. PICK start, p : SplitAt(u, start, p)
      BY <1>2 DEF CommitSplit
    <2>2. Commits(u, "split")
      BY <1>2, <2>1, CommitsRequest DEF CommitSplit, SplitAt
    <2>3. x.rule = request[u].row.rule /\ x.start >= request[u].row.start
      BY <2>1, KeptIsNotGone DEF SplitAt, NewSeries, Insert
    <2>4. x.series = request[u].row.series
      BY <1>2, <2>3 DEF CommitSplit, SplitsMatchRules, SeriesInv, RowsMatchRules
    <2> QED
      BY <2>2, <2>3, <2>4 DEF Justified
  <1>3. ASSUME NEW u \in Users, CommitErase(u) PROVE Justified(x)
    <2>1. Commits(u, "erase")
      BY <1>3, CommitsRequest DEF CommitErase
    <2>2. x.series = request[u].series
      BY <1>3, KeptIsNotGone DEF CommitErase
    <2> QED
      BY <2>1, <2>2 DEF Justified
  <1>4. ASSUME NEW o \in Orgs, Cleanup(o) PROVE Justified(x)
    BY <1>4, KeptIsNotGone DEF Cleanup, Expired, Justified
  <1>5. ASSUME NEW u \in Users, NEW start \in Dates, NEW p \in Patterns,
               CommitCreate(u, start, p)
        PROVE  x \in rows'
    BY <1>5 DEF CommitCreate, NewSeries, Insert
  <1>6. ASSUME NEW w \in Workers, NEW j \in jobs[w], InsertFound(w, j)
        PROVE  x \in rows'
    BY <1>6 DEF InsertFound, Insert
  <1>7. ASSUME NEW u \in Users, Mutation(u) PROVE Justified(x)
    BY <1>1, <1>2, <1>3, <1>5, <1>7, KeptIsNotGone, ReplacedIsNotGone
       DEF Mutation, BeginCreate, BeginOnRow, BeginSplit, BeginErase, Begin,
           Rollback, db
  <1> QED
    BY <1>4, <1>6, <1>7, KeptIsNotGone DEF Next, Tick, AddItem, Work, Discover,
       JobStep, ReadRule, FilterFound, LoseRule, FailJob, db

\* For every number of clients, runs and rules: an instance leaves the calendar
\* only past the retention cutoff, or by a delete or a split that covers it.
THEOREM NoInstanceLost == Spec => NoRowLost
  <1>1. LossInv /\ [Next]_vars => [\A x \in rows : Gone(x) => Justified(x)]_vars
    BY LossIsJustified
  <1> QED
    BY <1>1, LossInvariance, PTL DEF Spec, NoRowLost

\* Every step that orphans an action item is one of the cleanup.
LEMMA OrphanIsOfRetention ==
    ASSUME LossInv, Next, orphans' # orphans
    PROVE  \E x \in rows : Gone(x) /\ IdOf(x) \in items /\ x.end < now - Retention
  <1>1. ASSUME NEW gone, DeleteRows(gone, ItemsDeletedWith(gone)) PROVE FALSE
    BY <1>1 DEF DeleteRows, ItemsDeletedWith
  <1>2. ASSUME NEW u \in Users, Mutation(u) PROVE FALSE
    <2>1. ASSUME CommitSplit(u) PROVE FALSE
      BY <1>1, <2>1 DEF CommitSplit, SplitAt
    <2>2. ASSUME CommitCut(u) \/ CommitErase(u) PROVE FALSE
      BY <1>1, <2>2 DEF CommitCut, CommitErase
    <2> QED
      BY <1>2, <2>1, <2>2 DEF Mutation, BeginCreate, BeginOnRow, BeginSplit,
         BeginErase, Begin, CommitCreate, CommitCancel, CommitMove, Rollback, db
  <1>3. PICK o \in Orgs : Cleanup(o)
    BY <1>2 DEF Next, Tick, AddItem, Work, Discover, JobStep, ReadRule,
       FilterFound, InsertFound, LoseRule, FailJob, db
  <1> DEFINE gone == {x \in rows : rules[x.rule].org = o /\ Expired(x)}
  <1>4. rows' = rows \ gone /\ orphans' = orphans \cup (ItemsAt(gone) \ {})
    BY <1>3 DEF Cleanup, DeleteRows
  <1>5. PICK x \in gone : IdOf(x) \in items
    BY <1>4 DEF ItemsAt
  <1>6. Gone(x)
    BY <1>4, <1>5 DEF Gone, LossInv, IdsUnique
  <1> QED
    BY <1>5, <1>6 DEF Expired

\* Whatever the interleaving, only the retention cleanup leaves action items
\* behind whose instance is gone: the mutations delete them with it.
THEOREM OrphansComeFromRetention == Spec => OrphansOnlyByRetention
  <1>1. LossInv /\ [Next]_vars =>
          [orphans' # orphans =>
             \E x \in rows : Gone(x) /\ IdOf(x) \in items /\ x.end < now - Retention]_vars
    BY OrphanIsOfRetention
  <1> QED
    BY <1>1, LossInvariance, PTL DEF Spec, OrphansOnlyByRetention

------------------------------------------------------------------------------
(* Nothing is left behind: what it takes                                   *)

\* No organization has a second window, and no rule of it starts before its
\* window was created (a window ends Hot after that).  Without the first the
\* later window frees the worker of what only a job of the earlier one would
\* generate; without the second a split into the past leaves a gap.
WindowsFirst ==
    /\ \A a, b \in windows : a.org = b.org => a = b
    /\ \A win \in windows, r \in RuleIds :
          rules[r] # None /\ rules[r].org = win.org => win.end <= rules[r].start + Hot

\* No window reaches beyond the hot window of today, and a window exists for
\* every rule there is and for every mutation that has found one.
WindowsReach ==
    /\ \A win \in windows : win.end <= now + Hot
    /\ \A r \in RuleIds : rules[r] # None => WindowsOf(rules[r].org) # {}
    /\ \A u \in Users :
          Pending(u, "create") /\ request[u].found => WindowsOf(request[u].org) # {}

BeforeEnd(limit, s) == limit # None => s < limit

\* Whatever a rule still owes has been inserted up to the end of the window.
\* The end the rule had first decides, not the one it has now: a split may give
\* a rule a later end than it had.
Covered ==
    \A win \in windows, r \in RuleIds, s \in Slots :
        /\ rules[r] # None /\ rules[r].org = win.org
        /\ OnGrid(rules[r], s) /\ BeforeEnd(history[r].limit, s)
        /\ s < win.end
        => made[r][s] > 0

CoverInv == SeriesInv /\ WindowsReach /\ Covered

\* The table h gives no rule a later end than it had.
Tightens(h) ==
    \A r \in RuleIds, s \in Slots :
        BeforeEnd(h[r].limit, s) => BeforeEnd(history[r].limit, s)

\* Instances are inserted, never taken back.
MadeGrows == \A r \in RuleIds, s \in Slots : made[r][s] > 0 => made'[r][s] > 0

\* Every occurrence of a rule before its ends lies in the range its first
\* instances are generated for, as far as the hot window of today and of the
\* rule's start reach.
Reaches(rule, lo, hi) ==
    \A s \in Slots :
        /\ OnGrid(rule, s)
        /\ BeforeEnd(EarlierEnd(rule.until, CountEnd(rule)), s)
        /\ s < now + Hot /\ s < rule.start + Hot
        => lo <= s /\ s <= hi

\* Cutting a rule moves its end forward only.
LEMMA CutTightens ==
    ASSUME TypeOK, NEW row \in Row
    PROVE  Tightens(CutHistory(row))
  <1>1. row.rule \in RuleIds /\ row.start \in Int
    BY ConstantsTyped DEF Row
  <1>2. history[row.rule] \in Promise
    BY <1>1 DEF TypeOK
  <1> DEFINE old == history[row.rule].limit
             new == EarlierEnd(old, row.start)
  <1>3. old \in Int \cup {None}
    BY <1>2 DEF Promise
  <1>4. \A s \in Slots : BeforeEnd(new, s) => BeforeEnd(old, s)
    <2>1. CASE old = None
      BY <2>1 DEF BeforeEnd
    <2>2. CASE old # None
      <3>1. new = Lesser(old, row.start)
        BY <1>1, <2>2, ConstantsTyped DEF EarlierEnd
      <3>2. new <= old /\ new \in Int /\ old \in Int
        BY <1>1, <1>3, <2>2, <3>1 DEF Lesser
      <3> HIDE DEF old, new
      <3> QED
        BY <2>2, <3>2, ConstantsTyped DEF BeforeEnd
    <2> QED
      BY <2>1, <2>2
  <1>5. CutHistory(row) = [history EXCEPT ![row.rule].limit = new]
    BY DEF CutHistory, CutEnd
  <1>6. /\ CutHistory(row)[row.rule].limit = new
        /\ \A r \in RuleIds : r # row.rule => CutHistory(row)[r] = history[r]
    BY <1>1, <1>2, <1>5 DEF TypeOK, Promise
  <1> HIDE DEF old, new
  <1>7. ASSUME NEW r \in RuleIds, NEW s \in Slots, BeforeEnd(CutHistory(row)[r].limit, s)
        PROVE  BeforeEnd(history[r].limit, s)
    <2>1. CASE r = row.rule
      BY <1>4, <1>6, <1>7, <2>1 DEF old
    <2> QED
      BY <1>6, <1>7, <2>1
  <1> QED
    BY <1>7 DEF Tightens

\* The occurrences of a rule in a range are those of its grid before both its
\* ends: the count excludes nothing more than the end computed from it.
LEMMA AllOccur ==
    ASSUME NEW rule \in Rule, NEW lo \in Int, NEW hi \in Int, NEW s \in Slots,
           OnGrid(rule, s), BeforeEnd(EarlierEnd(rule.until, CountEnd(rule)), s),
           lo <= s, s <= hi
    PROVE  s \in OccurrencesIn(rule, lo, hi)
  <1>1. /\ rule.start \in Int /\ rule.every \in Nat \ {0} /\ s \in Int
        /\ rule.until \in Int \cup {None} /\ rule.count \in Nat \cup {None}
        /\ CountEnd(rule) \in Int \cup {None} /\ None \notin Int
    BY ConstantsTyped, UntilTyped DEF Rule
  <1>2. /\ rule.until # None => s < rule.until
        /\ CountEnd(rule) # None => s < CountEnd(rule)
    BY <1>1 DEF BeforeEnd, EarlierEnd, Lesser
  <1>3. OccursAt(rule, s)
    BY <1>2 DEF OccursAt, NormalUntil
  <1>4. ASSUME rule.count # None
        PROVE  (s - rule.start) \div rule.every < rule.count
    <2> DEFINE e == rule.every
               c == rule.count
               d == s - rule.start
               q == d \div e
    <2>1. e \in Nat /\ e > 0 /\ c \in Nat /\ d \in Nat
      BY <1>1, <1>4 DEF OnGrid
    <2>2. CountEnd(rule) = rule.start + (c - 1) * e + 1
      BY <1>4 DEF CountEnd
    <2>3. d < (c - 1) * e + 1
      <3> DEFINE m == (c - 1) * e
      <3>1. m \in Int
        BY <2>1
      <3>2. CountEnd(rule) = rule.start + m + 1
        BY <2>2
      <3>3. CountEnd(rule) # None
        BY <1>1, <3>1, <3>2
      <3> HIDE DEF m
      <3>4. s < rule.start + m + 1
        BY <1>2, <3>2, <3>3
      <3> QED
        BY <1>1, <3>1, <3>4 DEF m
    <2>4. q \in Int /\ e * q <= d
      <3> HIDE DEF e, d
      <3> QED
        BY <2>1
    <2> HIDE DEF e, c, d, q
    <2>5. ASSUME q >= c PROVE FALSE
      <3>1. e * q >= e * c
        BY <2>1, <2>4, <2>5
      <3>2. (c - 1) * e = e * c - e
        BY <2>1
      <3> QED
        BY <2>1, <2>3, <2>4, <3>1, <3>2
    <2>6. q < c
      BY <2>1, <2>4, <2>5
    <2> QED
      BY <2>6 DEF q, c, d, e
  <1> QED
    BY <1>3, <1>4 DEF OccurrencesIn

\* Inserting instances takes nothing back, and the slots inserted for are made.
LEMMA InsertMakes ==
    ASSUME TypeOK, NEW r \in RuleIds, NEW series, NEW slots \in SUBSET Slots,
           NEW kept, Insert(r, series, slots, kept)
    PROVE  MadeGrows /\ \A s \in slots : made'[r][s] > 0
  <1>1. made \in [RuleIds -> [Slots -> Nat]]
    BY DEF TypeOK
  <1>2. made' = [made EXCEPT ![r] =
                   [s \in Slots |-> IF s \in slots THEN made[r][s] + 1
                                                   ELSE made[r][s]]]
    BY <1>1 DEF Insert
  <1>3. ASSUME NEW q \in RuleIds, NEW s \in Slots
        PROVE  /\ made[q][s] > 0 => made'[q][s] > 0
               /\ q = r /\ s \in slots => made'[q][s] > 0
    <2>1. made[q][s] \in Nat
      BY <1>1
    <2>2. CASE q = r
      <3>1. made'[q][s] = IF s \in slots THEN made[q][s] + 1 ELSE made[q][s]
        BY <1>1, <1>2, <2>2
      <3> QED
        BY <2>1, <3>1
    <2>3. CASE q # r
      <3>1. made'[q] = made[q]
        BY <1>1, <1>2, <2>3
      <3> QED
        BY <2>3, <3>1
    <2> QED
      BY <2>2, <2>3
  <1> QED
    BY <1>3 DEF MadeGrows

\* A new rule is covered by the instances it starts with, and by its window.
LEMMA NewSeriesCovered ==
    ASSUME CoverInv, NEW rule \in Rule, NEW root, NEW lo \in Int, NEW hi \in Int,
           NEW kept, NEW f, Keeps(f), NEW h \in [RuleIds -> Promise], Tightens(h),
           NEW found, found => WindowsOf(rule.org) # {}, Reaches(rule, lo, hi),
           NewSeries(rule, root, lo, hi, kept, f, h),
           windows' = WindowsWith(rule.org, found), now' = now,
           WindowsFirst'
    PROVE  /\ \A win \in windows' : win.end <= now + Hot
           /\ \A r \in RuleIds : rules'[r] # None =>
                 \E win \in windows' : win.org = rules'[r].org
           /\ Covered'
  <1> DEFINE r == nextRule
             limit == EarlierEnd(rule.until, CountEnd(rule))
             slots == OccurrencesIn(rule, lo, hi)
  <1>1. /\ r \in RuleIds
        /\ rules' = [f EXCEPT ![r] = rule]
        /\ history' = [h EXCEPT ![r] = [root |-> root, limit |-> limit]]
        /\ Insert(r, rule.series, slots, kept)
    BY DEF NewSeries
  <1>2. TypeOK /\ now \in Nat /\ Hot \in Nat /\ slots \in SUBSET Slots
    BY BoundsTyped DEF CoverInv, SeriesInv, TypeOK, OccurrencesIn
  <1>3. /\ rules'[r] = rule /\ history'[r].limit = limit
        /\ \A q \in RuleIds : q # r => rules'[q] = f[q] /\ history'[q] = h[q]
    BY <1>1 DEF Keeps
  <1>4. MadeGrows /\ \A s \in slots : made'[r][s] > 0
    BY <1>1, <1>2, InsertMakes
  <1>5. /\ windows \subseteq windows'
        /\ \A win \in windows' : win \in windows \/ win = NewWindow(rule.org)
    BY DEF WindowsWith
  <1>6. NewWindow(rule.org).end = now + Hot /\ NewWindow(rule.org).org = rule.org
    BY DEF NewWindow
  <1>7. ASSUME NEW win \in windows' PROVE win.end <= now + Hot /\ win.end \in Int
    <2>1. CASE win \in windows
      BY <1>2, <2>1 DEF CoverInv, WindowsReach, TypeOK, Window
    <2> QED
      BY <1>2, <1>5, <1>6, <2>1
  <1>8. \E win \in windows' : win.org = rule.org
    <2>1. CASE found
      BY <1>5, <2>1 DEF WindowsOf
    <2>2. CASE ~found
      BY <1>6, <2>2 DEF WindowsWith
    <2> QED
      BY <2>1, <2>2
  <1>9. ASSUME NEW q \in RuleIds, q # r, rules'[q] # None
        PROVE  /\ rules[q] # None /\ rules[q].org = rules'[q].org
               /\ \E win \in windows : win.org = rules'[q].org
               /\ \A s \in Slots : OnGrid(rules'[q], s) <=> OnGrid(rules[q], s)
    <2>1. f[q] # None /\ rules'[q] = f[q]
      BY <1>3, <1>9
    <2>2. /\ rules[q] # None /\ rules[q].org = f[q].org
          /\ rules[q].start = f[q].start /\ rules[q].every = f[q].every
      BY <2>1 DEF Keeps
    <2> QED
      BY <2>1, <2>2, SameGrid DEF CoverInv, WindowsReach, WindowsOf
  <1>10. \A q \in RuleIds : rules'[q] # None =>
            \E win \in windows' : win.org = rules'[q].org
    BY <1>3, <1>5, <1>8, <1>9
  <1> HIDE DEF limit, slots, r
  <1>11. ASSUME NEW win \in windows', NEW q \in RuleIds, NEW s \in Slots,
                rules'[q] # None, rules'[q].org = win.org, OnGrid(rules'[q], s),
                BeforeEnd(history'[q].limit, s), s < win.end
         PROVE  made'[q][s] > 0
    <2>1. CASE q # r
      <3>1. PICK old \in windows : old.org = rules'[q].org
        BY <1>9, <1>11, <2>1
      <3>2. win \in windows
        BY <1>5, <1>11, <3>1 DEF WindowsFirst
      <3>3. rules[q] # None /\ rules[q].org = win.org /\ OnGrid(rules[q], s)
        BY <1>9, <1>11, <2>1
      <3>4. BeforeEnd(history[q].limit, s)
        BY <1>3, <1>11, <2>1 DEF Tightens
      <3>5. made[q][s] > 0
        BY <1>11, <3>2, <3>3, <3>4 DEF CoverInv, Covered
      <3> QED
        BY <1>4, <3>5 DEF MadeGrows
    <2>2. CASE q = r
      <3>1. OnGrid(rule, s) /\ BeforeEnd(limit, s)
        BY <1>3, <1>11, <2>2
      <3>2. win.end <= rules'[q].start + Hot
        BY <1>11 DEF WindowsFirst
      <3>3. win.end <= rule.start + Hot
        BY <1>3, <2>2, <3>2
      <3>4. s \in Int /\ rule.start \in Int
        BY ConstantsTyped DEF Rule
      <3>5. s < now + Hot /\ s < rule.start + Hot
        BY <1>2, <1>7, <1>11, <3>3, <3>4
      <3>6. lo <= s /\ s <= hi
        BY <3>1, <3>5 DEF Reaches, limit
      <3>7. s \in slots
        BY <3>1, <3>6, AllOccur DEF slots, limit
      <3> QED
        BY <1>4, <2>2, <3>7
    <2> QED
      BY <2>1, <2>2
  <1>12. Covered'
    BY <1>11 DEF Covered
  <1> QED
    BY <1>7, <1>10, <1>12

\* The first instances of a series reach far enough, whether it is new ...
LEMMA CreateReaches ==
    ASSUME TypeOK, NEW o \in Orgs, NEW start \in Slots, NEW p \in Patterns, NEW series
    PROVE  Reaches(RuleFrom(o, start, p, series), start, CreateHorizon(p))
  <1> DEFINE rule == RuleFrom(o, start, p, series)
  <1>1. rule.start = start /\ rule.until = p.until
    BY DEF RuleFrom
  <1>2. /\ now \in Nat /\ Hot \in Nat /\ start \in Int /\ Slots \subseteq Int
        /\ p.until \in Int \cup {None} /\ None \notin Int
    BY ConstantsTyped, BoundsTyped, PatternsTyped DEF TypeOK
  <1>3. CountEnd(rule) \in Int \cup {None}
    <2>1. CASE p.count = None
      BY <2>1 DEF CountEnd, RuleFrom
    <2>2. CASE p.count # None
      <3> DEFINE span == (p.count - 1) * p.every
      <3>1. span \in Int
        BY <2>2, PatternsTyped
      <3>2. CountEnd(rule) = start + span + 1
        BY <2>2 DEF CountEnd, RuleFrom
      <3> HIDE DEF span
      <3> QED
        BY <1>2, <3>1, <3>2
    <2> QED
      BY <2>1, <2>2
  <1> HIDE DEF rule
  <1>4. ASSUME NEW s \in Slots, OnGrid(rule, s),
               BeforeEnd(EarlierEnd(rule.until, CountEnd(rule)), s), s < now + Hot
        PROVE  start <= s /\ s <= CreateHorizon(p)
    <2>1. start <= s
      BY <1>1, <1>4 DEF OnGrid
    <2>2. p.until # None => s < p.until
      BY <1>1, <1>2, <1>3, <1>4 DEF BeforeEnd, EarlierEnd, Lesser
    <2> QED
      BY <1>2, <1>4, <2>1, <2>2 DEF CreateHorizon, Lesser
  <1> QED
    BY <1>4 DEF Reaches, rule

\* ... or split off another.
LEMMA SplitReaches ==
    ASSUME TypeOK, NEW o, NEW start \in Slots, NEW p, NEW series
    PROVE  Reaches(RuleFrom(o, start, p, series), SplitStart(start),
                   SplitStart(start) + Hot)
  <1>1. RuleFrom(o, start, p, series).start = start
    BY DEF RuleFrom
  <1>2. now \in Nat /\ Hot \in Nat /\ start \in Int /\ Slots \subseteq Int
    BY ConstantsTyped, BoundsTyped DEF TypeOK
  <1>3. ASSUME NEW s \in Slots, s >= start, s < now + Hot, s < start + Hot
        PROVE  SplitStart(start) <= s /\ s <= SplitStart(start) + Hot
    BY <1>2, <1>3 DEF SplitStart, Lesser
  <1> QED
    BY <1>1, <1>3 DEF Reaches, OnGrid

\* A rule in the table f is one that exists, on the grid it has.
SameDates(f) ==
    \A r \in RuleIds : f[r] # None =>
        /\ rules[r] # None /\ f[r].org = rules[r].org
        /\ f[r].start = rules[r].start /\ f[r].every = rules[r].every

\* A step that leaves the windows alone, creates no rule, ends rules earlier at
\* most and takes no instance back
Steady ==
    /\ windows' = windows /\ now' >= now
    /\ SameDates(rules') /\ Tightens(history') /\ MadeGrows

\* What no new series comes with is such a step.
LEMMA SteadySteps ==
    ASSUME SeriesInv, Next
    PROVE  \/ Steady
           \/ \E u \in Users :
                 \/ \E start \in Dates, p \in Patterns : CommitCreate(u, start, p)
                 \/ CommitSplit(u)
  <1>1. TypeOK /\ now \in Nat /\ SameDates(rules) /\ Tightens(history)
    BY DEF SeriesInv, TypeOK, SameDates, Tightens
  <1>2. CASE UNCHANGED <<windows, rules, history, made>> /\ now' \in {now, now + 1}
    BY <1>1, <1>2 DEF Steady, SameDates, Tightens, MadeGrows
  <1>3. ASSUME NEW u \in Users, CommitCut(u) PROVE Steady
    <2>1. request[u].row \in Row
      BY <1>1, <1>3, RequestTyped DEF CommitCut, RowOps
    <2>2. /\ rules' = CutRules(request[u].row)
          /\ history' = CutHistory(request[u].row)
          /\ windows' = windows /\ made' = made /\ now' = now
      BY <1>3 DEF CommitCut, Done
    <2>3. SameDates(rules') /\ Tightens(history')
      BY <1>1, <2>1, <2>2, CutKeeps, CutTightens DEF Keeps, SameDates
    <2> QED
      BY <1>1, <2>2, <2>3 DEF Steady, MadeGrows
  <1>4. ASSUME NEW u \in Users, CommitErase(u) PROVE Steady
    <2>1. /\ windows' = windows /\ made' = made /\ now' = now /\ history' = history
          /\ rules' \in [RuleIds -> Rule \cup {None}]
          /\ \A r \in RuleIds : rules'[r] # None => rules'[r] = rules[r]
      BY <1>1, <1>4 DEF CommitErase, Done, TypeOK
    <2> QED
      BY <1>1, <2>1 DEF Steady, SameDates, Tightens, MadeGrows
  <1>5. ASSUME NEW w \in Workers, NEW j \in jobs[w], InsertFound(w, j) PROVE Steady
    <2>1. j.rule \in RuleIds /\ j.found \in SUBSET Slots
      BY <1>1 DEF TypeOK, Job
    <2>2. /\ Insert(j.rule, rules[j.rule].series, j.found, rows)
          /\ UNCHANGED <<now, windows, rules, history>>
      BY <1>5 DEF InsertFound
    <2>3. MadeGrows
      BY <1>1, <2>1, <2>2, InsertMakes
    <2> QED
      BY <1>1, <2>2, <2>3 DEF Steady, SameDates, Tightens
  <1>6. \/ UNCHANGED <<windows, rules, history, made>> /\ now' \in {now, now + 1}
        \/ \E u \in Users :
              \/ \E start \in Dates, p \in Patterns : CommitCreate(u, start, p)
              \/ CommitSplit(u) \/ CommitCut(u) \/ CommitErase(u)
        \/ \E w \in Workers : \E j \in jobs[w] : InsertFound(w, j)
    BY DEF Next, Mutation, BeginCreate, BeginOnRow, BeginSplit, BeginErase,
       Begin, CommitCancel, CommitMove, Rollback, Done, Tick, AddItem, Work,
       Discover, JobStep, ReadRule, FilterFound, LoseRule, FailJob, Cleanup, db
  <1> QED
    BY <1>2, <1>3, <1>4, <1>5, <1>6

\* Windows are never taken away, and a mutation that has found one is right.
LEMMA FoundStays ==
    ASSUME CoverInv, Next, windows \subseteq windows'
    PROVE  \A u \in Users : request'[u].op = "create" /\ request'[u].found =>
              \E win \in windows' : win.org = request'[u].org
  <1> SUFFICES ASSUME NEW u \in Users, request'[u].op = "create", request'[u].found
               PROVE  \E win \in windows : win.org = request'[u].org
    OBVIOUS
  <1>1. CASE request'[u] = request[u]
    BY <1>1 DEF CoverInv, WindowsReach, Pending, WindowsOf
  <1>2. CASE \E o \in Orgs : request'[u] = [op |-> "create", org |-> o,
                                            found |-> WindowsOf(o) # {}]
    <2>1. PICK o \in Orgs : request'[u] = [op |-> "create", org |-> o,
                                           found |-> WindowsOf(o) # {}]
      BY <1>2
    <2> DEFINE has == WindowsOf(o) # {}
    <2>2. request'[u].org = o /\ (request'[u].found <=> has)
      <3> HIDE DEF has
      <3>1. request'[u] = [op |-> "create", org |-> o, found |-> has]
        BY <2>1 DEF has
      <3> QED
        BY <3>1
    <2>3. has
      BY <2>2
    <2> QED
      BY <2>2, <2>3 DEF WindowsOf
  <1>3. CASE \E row \in rows : request'[u] = [op |-> "split", row |-> row,
                                              rule |-> rules[row.rule]]
    BY <1>3
  <1> QED
    BY <1>1, <1>2, <1>3, RequestSteps DEF CoverInv

\* Every step keeps what is inserted in line with the windows.
LEMMA CoverStays ==
    ASSUME CoverInv, WindowsFirst', Next
    PROVE  CoverInv'
  <1>1. SeriesInv' /\ TypeOK /\ SeriesInv
    BY NextKeepsSeriesInv DEF CoverInv, SeriesInv
  <1>2. ASSUME windows \subseteq windows',
               \A win \in windows' : win.end <= now' + Hot,
               \A r \in RuleIds : rules'[r] # None =>
                  \E win \in windows' : win.org = rules'[r].org,
               Covered'
        PROVE  CoverInv'
    <2>1. WindowsReach'
      BY <1>2, FoundStays DEF WindowsReach, WindowsOf, Pending
    <2> QED
      BY <1>1, <1>2, <2>1 DEF CoverInv
  <1>3. CASE Steady
    <2>1. \A win \in windows' : win.end <= now' + Hot
      <3>1. now \in Nat /\ now' \in Nat /\ Hot \in Nat
        BY <1>1, BoundsTyped DEF SeriesInv, TypeOK
      <3>2. \A win \in windows : win.end \in Int /\ win.end <= now + Hot
        BY <1>1 DEF TypeOK, Window, CoverInv, WindowsReach
      <3> QED
        BY <1>3, <3>1, <3>2 DEF Steady
    <2>2. ASSUME NEW r \in RuleIds, rules'[r] # None
          PROVE  /\ rules[r] # None /\ rules[r].org = rules'[r].org
                 /\ \A s \in Slots : OnGrid(rules'[r], s) <=> OnGrid(rules[r], s)
      BY <1>3, <2>2, SameGrid DEF Steady, SameDates
    <2>3. \A r \in RuleIds : rules'[r] # None =>
             \E win \in windows' : win.org = rules'[r].org
      BY <1>3, <2>2 DEF Steady, CoverInv, WindowsReach, WindowsOf
    <2>4. ASSUME NEW win \in windows', NEW r \in RuleIds, NEW s \in Slots,
                 rules'[r] # None, rules'[r].org = win.org, OnGrid(rules'[r], s),
                 BeforeEnd(history'[r].limit, s), s < win.end
          PROVE  made'[r][s] > 0
      <3>1. /\ rules[r] # None /\ rules[r].org = win.org /\ OnGrid(rules[r], s)
            /\ win \in windows
        BY <1>3, <2>2, <2>4 DEF Steady
      <3>2. BeforeEnd(history[r].limit, s)
        BY <1>3, <2>4 DEF Steady, Tightens
      <3> QED
        BY <1>3, <2>4, <3>1, <3>2 DEF CoverInv, Covered, Steady, MadeGrows
    <2>5. Covered'
      BY <2>4 DEF Covered
    <2>6. windows \subseteq windows'
      BY <1>3 DEF Steady
    <2> QED
      BY <1>2, <2>1, <2>3, <2>5, <2>6
  <1>4. ASSUME NEW u \in Users, NEW start \in Dates, NEW p \in Patterns,
               CommitCreate(u, start, p)
        PROVE  CoverInv'
    <2> DEFINE o == request[u].org
               rule == RuleFrom(o, start, p, nextRule)
               hi == CreateHorizon(p)
    <2>1. /\ Pending(u, "create")
          /\ NewSeries(rule, nextRule, start, hi, rows, rules, history)
          /\ windows' = WindowsWith(o, request[u].found)
          /\ now' = now
      BY <1>4 DEF CommitCreate, Done
    <2>2. o \in Orgs /\ nextRule \in RuleIds /\ start \in Slots
      BY <1>1, <2>1, RequestTyped DEF NewSeries, Dates
    <2>3. rule \in Rule /\ rule.org = o
      BY <2>2, PatternsTyped, RuleFromTyped DEF RuleFrom
    <2>4. request[u].found => WindowsOf(rule.org) # {}
      BY <2>1, <2>3 DEF CoverInv, WindowsReach
    <2>5. Reaches(rule, start, hi)
      BY <1>1, <2>2, CreateReaches
    <2>6. start \in Int /\ hi \in Int
      <3>1. p.until \in Int \cup {None}
        BY ConstantsTyped, PatternsTyped
      <3>2. start \in Int /\ now + Hot \in Int
        BY <1>1, <2>2, ConstantsTyped, BoundsTyped DEF TypeOK
      <3> QED
        BY <3>1, <3>2 DEF CreateHorizon, Lesser
    <2>7. Keeps(rules) /\ Tightens(history) /\ history \in [RuleIds -> Promise]
      BY <1>1 DEF Keeps, Tightens, TypeOK
    <2>8. windows' = WindowsWith(rule.org, request[u].found)
      BY <2>1, <2>3
    <2>9. windows \subseteq windows'
      BY <2>1 DEF WindowsWith
    <2> HIDE DEF rule, hi, o
    <2> QED
      BY <1>2, <2>1, <2>3, <2>4, <2>5, <2>6, <2>7, <2>8, <2>9, NewSeriesCovered
  <1>5. ASSUME NEW u \in Users, CommitSplit(u)
        PROVE  CoverInv'
    <2>1. PICK start \in {request[u].row.start} \cup Dates,
               p \in {PatternOf(request[u].rule)} \cup Patterns : SplitAt(u, start, p)
      BY <1>5 DEF CommitSplit
    <2> DEFINE cut  == request[u].row
               rule == RuleFrom(request[u].rule.org, start, p, nextRule)
               kept == rows \ {x \in rows : x.rule = cut.rule /\ x.start >= cut.start}
               lo   == SplitStart(start)
               found == WindowsOf(rule.org) # {}
    <2>2. /\ NewSeries(rule, history[cut.rule].root, lo, lo + Hot, kept,
                       CutRules(cut), CutHistory(cut))
          /\ windows' = WindowsWith(rule.org, found)
          /\ now' = now
      BY <2>1 DEF SplitAt, Done
    <2>3. cut \in Row /\ request[u].rule \in Rule
      BY <1>1, <1>5, RequestTyped DEF CommitSplit
    <2>4. start \in Slots
      BY <2>3 DEF Row, Dates
    <2>5. /\ p.every \in Nat \ {0} /\ p.until \in Slots \cup {None}
          /\ p.count \in Nat \cup {None} /\ p.yearly \in BOOLEAN
      <3>1. CASE p = PatternOf(request[u].rule)
        BY <2>3, <3>1 DEF PatternOf, Rule
      <3> QED
        BY <3>1, PatternsTyped
    <2>6. nextRule \in RuleIds /\ request[u].rule.org \in Orgs
      BY <2>2, <2>3 DEF NewSeries, Rule
    <2>7. rule \in Rule
      BY <2>4, <2>5, <2>6, RuleFromTyped
    <2>8. Reaches(rule, lo, lo + Hot)
      BY <1>1, <2>4, SplitReaches
    <2>9. lo \in Int /\ lo + Hot \in Int
      BY <1>1, <2>4, ConstantsTyped, BoundsTyped DEF SplitStart, Lesser, TypeOK
    <2>10. /\ Keeps(CutRules(cut)) /\ Tightens(CutHistory(cut))
           /\ CutHistory(cut) \in [RuleIds -> Promise]
      BY <1>1, <2>3, CutKeeps, CutTightens, CutHistoryTyped
    <2>11. windows \subseteq windows'
      BY <2>2 DEF WindowsWith
    <2>12. found => WindowsOf(rule.org) # {}
      OBVIOUS
    <2> HIDE DEF cut, rule, kept, lo, found
    <2> QED
      BY <1>2, <2>2, <2>7, <2>8, <2>9, <2>10, <2>11, <2>12, NewSeriesCovered
  <1> QED
    BY <1>1, <1>3, <1>4, <1>5, SteadySteps

\* Every organization that never has a second window, and no rule from before
\* its window, gets every occurrence: what lies before the window was inserted
\* by the mutation that created the rule, whatever cuts, splits, erasures,
\* cleanups and runs of the worker interleave with it.
THEOREM NoneLeftBehind == Spec /\ []WindowsFirst => []NothingLeftBehind
  <1>1. Init => CoverInv
    <2> SUFFICES ASSUME Init PROVE CoverInv
      OBVIOUS
    <2>1. SeriesInv
      BY InitSeriesInv
    <2>2. WindowsReach
      BY BoundsTyped DEF Init, WindowsReach, OldWindow, Pending, Idle
    <2> QED
      BY <2>1, <2>2 DEF CoverInv, Covered, Init
  <1>2. CoverInv /\ WindowsFirst' /\ [Next]_vars => CoverInv'
    <2>1. CASE UNCHANGED vars
      BY <2>1, NextKeepsSeriesInv DEF vars, db, CoverInv, WindowsReach,
         WindowsOf, Pending, Covered
    <2> QED
      BY <2>1, CoverStays
  <1>3. CoverInv => NothingLeftBehind
    BY DEF CoverInv, Covered, NothingLeftBehind, Owes, OccursAt, BeforeEnd
  <1> QED
    BY <1>1, <1>2, <1>3, PTL DEF Spec

------------------------------------------------------------------------------
(* ... and when it is given                                                *)

\* Every organization had its window from the start, and nobody picks a date
\* from before that.
WindowsAtStart == Onboarded = Orgs /\ Earliest >= 0

\* Nothing starts before the windows were created.
StartsAfter ==
    /\ \A r \in RuleIds : rules[r] # None => rules[r].start >= 0
    /\ \A x \in rows : x.start >= 0
    /\ \A u \in Users : request[u].op \in {"split", "move"} =>
                          request[u].row.start >= 0

StartInv ==
    /\ SeriesInv /\ OneWindowEach /\ StartsAfter
    /\ \A win \in windows : win.end = Hot

\* A move in flight has read an instance.
LEMMA MoveSteps ==
    ASSUME SeriesInv, Next, NEW u \in Users, request'[u].op = "move"
    PROVE  \/ request'[u] = request[u]
           \/ \E row \in rows : request'[u].row = row
  <1>1. request \in [Users -> Request]
    BY DEF SeriesInv, TypeOK
  <1>2. ASSUME NEW v \in Users, Done(v) PROVE request'[u] = request[u]
    BY <1>1, <1>2 DEF Done, Idle
  <1>3. ASSUME NEW v \in Users, NEW r, Begin(v, r)
        PROVE  request'[u] = request[u] \/ request'[u] = r
    BY <1>1, <1>3 DEF Begin
  <1>4. ASSUME NEW v \in Users, Mutation(v)
        PROVE  \/ request'[u] = request[u]
               \/ \E row \in rows : request'[u].row = row
    <2>1. ASSUME NEW o \in Orgs, BeginCreate(v, o) PROVE request'[u] = request[u]
      <3>1. \/ request'[u] = request[u]
            \/ request'[u] = [op |-> "create", org |-> o, found |-> WindowsOf(o) # {}]
        BY <1>3, <2>1 DEF BeginCreate
      <3> QED
        BY <3>1
    <2>2. ASSUME NEW row \in rows, NEW op \in RowOps, BeginOnRow(v, row, op)
          PROVE  request'[u] = request[u] \/ request'[u].row = row
      <3>1. request'[u] = request[u] \/ request'[u] = [op |-> op, row |-> row]
        BY <1>3, <2>2 DEF BeginOnRow
      <3> QED
        BY <3>1
    <2>3. ASSUME NEW row \in rows, BeginSplit(v, row)
          PROVE  request'[u] = request[u] \/ request'[u].row = row
      <3>1. \/ request'[u] = request[u]
            \/ request'[u] = [op |-> "split", row |-> row, rule |-> rules[row.rule]]
        BY <1>3, <2>3 DEF BeginSplit
      <3> QED
        BY <3>1
    <2>4. ASSUME NEW r \in RuleIds, BeginErase(v, r) PROVE request'[u] = request[u]
      <3>1. \/ request'[u] = request[u]
            \/ request'[u] = [op |-> "erase", series |-> rules[r].series]
        BY <1>3, <2>4 DEF BeginErase
      <3> QED
        BY <3>1
    <2>5. \/ Done(v)
          \/ \E o \in Orgs : BeginCreate(v, o)
          \/ \E row \in rows, op \in RowOps : BeginOnRow(v, row, op)
          \/ \E row \in rows : BeginSplit(v, row)
          \/ \E r \in RuleIds : BeginErase(v, r)
      BY <1>4 DEF Mutation, CommitCreate, CommitCancel, CommitMove, CommitCut,
                  CommitSplit, SplitAt, CommitErase, Rollback
    <2> QED
      BY <1>2, <2>1, <2>2, <2>3, <2>4, <2>5
  <1>7. request' = request \/ \E v \in Users : Mutation(v)
    BY DEF Next, Tick, AddItem, Work, Discover, JobStep, ReadRule, FilterFound,
           InsertFound, LoseRule, FailJob, Cleanup
  <1> QED
    BY <1>4, <1>7

\* What a step may do to the starts of rules and instances
LEMMA StartSteps ==
    ASSUME SeriesInv, Next
    PROVE  /\ \A r \in RuleIds : rules'[r] # None =>
                 \/ rules[r] # None /\ rules'[r].start = rules[r].start
                 \/ rules'[r].start \in Dates
                 \/ \E u \in Users : /\ request[u].op \in {"split", "move"}
                                     /\ rules'[r].start = request[u].row.start
           /\ \A x \in rows' :
                 \/ \E y \in rows : x.start = y.start
                 \/ x.start = x.slot \/ x.start \in Dates
                 \/ \E u \in Users : /\ request[u].op \in {"split", "move"}
                                     /\ x.start = request[u].row.start
  <1>1. TypeOK
    BY DEF SeriesInv
  <1> DEFINE Old(start) == \E u \in Users : /\ request[u].op \in {"split", "move"}
                                           /\ start = request[u].row.start
             RuleStarts ==
                \A r \in RuleIds : rules'[r] # None =>
                   \/ rules[r] # None /\ rules'[r].start = rules[r].start
                   \/ rules'[r].start \in Dates \/ Old(rules'[r].start)
             RowStarts ==
                \A x \in rows' : \/ \E y \in rows : x.start = y.start
                                 \/ x.start = x.slot \/ x.start \in Dates
                                 \/ Old(x.start)
  <1>2. ASSUME NEW r, NEW series, NEW slots, NEW kept \in SUBSET rows,
               Insert(r, series, slots, kept)
        PROVE  RowStarts
    BY <1>2 DEF Insert, NewRows
  <1>3. ASSUME NEW rule, rule.start \in Dates \/ Old(rule.start),
               NEW root, NEW lo, NEW hi, NEW kept \in SUBSET rows, NEW f, Keeps(f),
               NEW h, NewSeries(rule, root, lo, hi, kept, f, h)
        PROVE  RuleStarts /\ RowStarts
    <2>1. nextRule \in RuleIds /\ rules' = [f EXCEPT ![nextRule] = rule]
      BY <1>3 DEF NewSeries
    <2>2. \A r \in RuleIds : rules'[r] = IF r = nextRule THEN rule ELSE f[r]
      BY <1>3, <2>1 DEF Keeps
    <2>3. RuleStarts
      BY <1>3, <2>2 DEF Keeps
    <2>4. RowStarts
      BY <1>2, <1>3 DEF NewSeries
    <2> QED
      BY <2>3, <2>4
  <1>4. ASSUME NEW u \in Users, NEW start \in Dates, NEW p \in Patterns,
               CommitCreate(u, start, p)
        PROVE  RuleStarts /\ RowStarts
    <2> DEFINE rule == RuleFrom(request[u].org, start, p, nextRule)
    <2>1. NewSeries(rule, nextRule, start, CreateHorizon(p), rows, rules, history)
      BY <1>4 DEF CommitCreate
    <2>2. rule.start = start /\ Keeps(rules)
      BY <1>1 DEF RuleFrom, Keeps, TypeOK
    <2> HIDE DEF rule, RuleStarts, RowStarts
    <2> QED
      BY <1>3, <2>1, <2>2
  <1>5. ASSUME NEW u \in Users, CommitSplit(u)
        PROVE  RuleStarts /\ RowStarts
    <2>1. PICK start \in {request[u].row.start} \cup Dates,
               p \in {PatternOf(request[u].rule)} \cup Patterns : SplitAt(u, start, p)
      BY <1>5 DEF CommitSplit
    <2>2. Pending(u, "split") /\ request[u].row \in Row
      BY <1>1, <1>5, RequestTyped DEF CommitSplit
    <2> DEFINE rule == RuleFrom(request[u].rule.org, start, p, nextRule)
               cut  == request[u].row
               kept == rows \ {x \in rows : x.rule = cut.rule /\ x.start >= cut.start}
    <2>3. NewSeries(rule, history[cut.rule].root, SplitStart(start),
                    SplitStart(start) + Hot, kept, CutRules(cut), CutHistory(cut))
      BY <2>1 DEF SplitAt
    <2>4. rule.start \in Dates \/ Old(rule.start)
      BY <2>1, <2>2 DEF RuleFrom, Pending
    <2>5. Keeps(CutRules(cut)) /\ kept \in SUBSET rows
      BY <1>1, <2>2, CutKeeps
    <2> HIDE DEF rule, cut, kept, Old, RuleStarts, RowStarts
    <2> QED
      BY <1>3, <2>3, <2>4, <2>5
  <1>6. RuleStarts
    <2>1. ASSUME Steady PROVE RuleStarts
      BY <2>1 DEF Steady, SameDates
    <2> HIDE DEF RuleStarts, RowStarts
    <2> QED
      BY <1>4, <1>5, <2>1, SteadySteps
  <1>7. ASSUME NEW u \in Users, NEW x \in rows, CommitCancel(u, x) PROVE RowStarts
    <2>1. rows' = (rows \ {x}) \cup {[x EXCEPT !.cancelled = TRUE]}
      BY <1>7 DEF CommitCancel
    <2>2. [x EXCEPT !.cancelled = TRUE].start = x.start
      BY <1>1 DEF TypeOK, Row
    <2> QED
      BY <2>1, <2>2
  <1>8. ASSUME NEW u \in Users, NEW x \in rows, CommitMove(u, x)
        PROVE  RowStarts
    <2>1. PICK start \in Dates \cup {request[u].row.start} : \E end :
             rows' = (rows \ {x}) \cup {[x EXCEPT !.start = start, !.end = end]}
      BY <1>8 DEF CommitMove
    <2> PICK end : rows' = (rows \ {x}) \cup {[x EXCEPT !.start = start, !.end = end]}
      BY <2>1
    <2>2. [x EXCEPT !.start = start, !.end = end].start = start
      BY <1>1 DEF TypeOK, Row
    <2>3. start \in Dates \/ Old(start)
      BY <1>8, <2>1 DEF CommitMove, Pending
    <2> HIDE DEF Old
    <2> QED
      BY <2>1, <2>2, <2>3
  <1>9. ASSUME NEW w \in Workers, NEW j \in jobs[w], InsertFound(w, j) PROVE RowStarts
    <2> HIDE DEF RowStarts
    <2> QED
      BY <1>2, <1>9 DEF InsertFound
  <1>10. ASSUME rows' \subseteq rows PROVE RowStarts
    BY <1>10
  <1>11. \/ rows' \subseteq rows
         \/ \E u \in Users :
               \/ \E start \in Dates, p \in Patterns : CommitCreate(u, start, p)
               \/ \E x \in rows : CommitCancel(u, x) \/ CommitMove(u, x)
               \/ CommitSplit(u)
         \/ \E w \in Workers : \E j \in jobs[w] : InsertFound(w, j)
    BY DEF Next, Mutation, BeginCreate, BeginOnRow, BeginSplit, BeginErase,
       Begin, CommitCut, CommitErase, Rollback, Tick, AddItem, Work,
       Discover, JobStep, ReadRule, FilterFound, LoseRule, FailJob, Cleanup, db
  <1>12. RowStarts
    <2> HIDE DEF RuleStarts, RowStarts
    <2> QED
      BY <1>4, <1>5, <1>7, <1>8, <1>9, <1>10, <1>11
  <1> QED
    BY <1>6, <1>12

\* Every step keeps the starts behind the windows.
LEMMA StartStays ==
    ASSUME WindowsAtStart, StartInv, Next
    PROVE  StartInv'
  <1>1. SeriesInv /\ SeriesInv' /\ OneWindowEach' /\ windows' = windows
    BY NextKeepsSeriesInv, OneWindowStays, WindowSteps DEF StartInv
  <1>2. \A d \in Dates : d >= 0
    BY ConstantsAssumption DEF WindowsAtStart, Dates
  <1>3. ASSUME NEW r \in RuleIds, rules'[r] # None PROVE rules'[r].start >= 0
    BY <1>1, <1>2, <1>3, StartSteps DEF StartInv, StartsAfter
  <1>4. ASSUME NEW x \in rows' PROVE x.start >= 0
    <2>1. CASE x.start = x.slot
      <3> DEFINE rule == rules'[x.rule]
      <3>1. x.rule \in RuleIds /\ x.slot \in Int /\ rule # None /\ OnGrid(rule, x.slot)
        BY <1>1, ConstantsTyped DEF SeriesInv, TypeOK, Row, RowsMatchRules
      <3>2. rule.start \in Int
        BY <1>1, <3>1, ConstantsTyped DEF SeriesInv, TypeOK, Rule
      <3>3. rule.start >= 0
        BY <1>3, <3>1
      <3> HIDE DEF rule
      <3> QED
        BY <2>1, <3>1, <3>2, <3>3 DEF OnGrid
    <2> QED
      BY <1>1, <1>2, <2>1, StartSteps DEF StartInv, StartsAfter
  <1>5. ASSUME NEW u \in Users, request'[u].op \in {"split", "move"}
        PROVE  request'[u].row.start >= 0
    <2>1. CASE request'[u] = request[u]
      BY <1>5, <2>1 DEF StartInv, StartsAfter, Pending
    <2>2. CASE \E row \in rows : request'[u] = [op |-> "split", row |-> row,
                                                rule |-> rules[row.rule]]
      BY <2>2 DEF StartInv, StartsAfter
    <2>3. CASE \E o \in Orgs : request'[u] = [op |-> "create", org |-> o,
                                              found |-> WindowsOf(o) # {}]
      BY <1>5, <2>3
    <2>4. CASE request'[u].op = "move"
      BY <1>1, <2>4, MoveSteps DEF StartInv, StartsAfter
    <2> QED
      BY <1>1, <1>5, <2>1, <2>2, <2>3, <2>4, RequestSteps
  <1> QED
    BY <1>1, <1>3, <1>4, <1>5 DEF StartInv, StartsAfter

\* The premise of the theorem above, from constants alone: whoever has used
\* events before and dates nothing before that finds every occurrence.
THEOREM NoneLeftBehindFromStart ==
    ASSUME WindowsAtStart
    PROVE  Spec => []NothingLeftBehind
  <1>1. Init => StartInv
    <2> SUFFICES ASSUME Init PROVE StartInv
      OBVIOUS
    <2>1. SeriesInv
      BY InitSeriesInv
    <2>2. windows = {OldWindow(o) : o \in Orgs} /\ \A o \in Orgs : OldWindow(o).org = o
      BY DEF Init, WindowsAtStart, OldWindow
    <2>3. OneWindowEach
      <3>1. \A o \in Orgs : OldWindow(o) \in WindowsOf(o)
        BY <2>2 DEF WindowsOf
      <3>2. \A a, b \in windows : a.org = b.org => a = b
        BY <2>2
      <3>3. \A u \in Users : ~Pending(u, "create")
        BY DEF Init, Pending, Idle
      <3> QED
        BY <3>1, <3>2, <3>3 DEF OneWindowEach
    <2>4. \A win \in windows : win.end = Hot
      BY <2>2 DEF OldWindow
    <2>5. StartsAfter
      BY DEF Init, StartsAfter, Pending, Idle
    <2> QED
      BY <2>1, <2>3, <2>4, <2>5 DEF StartInv
  <1>2. StartInv /\ [Next]_vars => StartInv'
    <2>1. CASE UNCHANGED vars
      BY <2>1, NextKeepsSeriesInv DEF vars, db, StartInv, OneWindowEach, WindowsOf,
         Pending, StartsAfter
    <2> QED
      BY <2>1, StartStays
  <1>3. StartInv => WindowsFirst
    <2> SUFFICES ASSUME StartInv, NEW r \in RuleIds, rules[r] # None
                 PROVE  Hot <= rules[r].start + Hot
      BY DEF StartInv, OneWindowEach, WindowsFirst
    <2>1. rules[r].start \in Int /\ rules[r].start >= 0
      BY ConstantsTyped DEF StartInv, SeriesInv, TypeOK, Rule, StartsAfter
    <2> QED
      BY <2>1, BoundsTyped
  <1> QED
    BY <1>1, <1>2, <1>3, NoneLeftBehind, PTL DEF Spec

------------------------------------------------------------------------------
(* Cuts are final: what it takes                                           *)

\* No rule gets another end between the step in which a job reads it and the
\* step in which the job inserts.
NoCutMeanwhile ==
    [][\A w \in Workers : \A j \in jobs[w] :
         j.phase # "ready" /\ rules'[j.rule] # None =>
            rules'[j.rule].until = rules[j.rule].until]_vars

\* What a job has found occurs by the rule as it is now.
JobsUpToDate ==
    \A w \in Workers : \A j \in jobs[w] :
        j.phase # "ready" /\ rules[j.rule] # None =>
            \A s \in j.found : OccursAt(rules[j.rule], s)

FinalInv == SeriesInv /\ JobsUpToDate

\* The instances a new rule starts with occur by it, and so do those a job
\* inserts that is up to date.
LEMMA AddedOccur ==
    ASSUME FinalInv, Next, NEW x \in rows', Added(x)
    PROVE  OccursAt(rules'[x.rule], x.slot)
  <1>1. TypeOK
    BY DEF FinalInv, SeriesInv
  <1>2. \A y \in rows : IdOf(x) # IdOf(y)
    BY DEF Added
  <1>3. ASSUME NEW rule, NEW root, NEW lo, NEW hi, NEW kept \in SUBSET rows,
               NEW f, Keeps(f), NEW h, NewSeries(rule, root, lo, hi, kept, f, h)
        PROVE  OccursAt(rules'[x.rule], x.slot)
    <2> DEFINE slots == OccurrencesIn(rule, lo, hi)
    <2>1. /\ nextRule \in RuleIds /\ rules' = [f EXCEPT ![nextRule] = rule]
          /\ Insert(nextRule, rule.series, slots, kept)
      BY <1>3 DEF NewSeries
    <2>2. x \in NewRows(nextRule, rule.series, slots)
      BY <1>2, <2>1 DEF Insert
    <2>3. x.rule = nextRule /\ x.slot \in slots
      BY <2>2 DEF NewRows
    <2>4. OccursAt(rule, x.slot)
      BY <2>3 DEF OccurrencesIn
    <2> QED
      BY <1>3, <2>1, <2>3, <2>4 DEF Keeps
  <1>4. ASSUME NEW u \in Users, NEW start \in Dates, NEW p \in Patterns,
               CommitCreate(u, start, p)
        PROVE  OccursAt(rules'[x.rule], x.slot)
    <2>1. Keeps(rules)
      BY <1>1 DEF Keeps, TypeOK
    <2> QED
      BY <1>3, <1>4, <2>1 DEF CommitCreate
  <1>5. ASSUME NEW u \in Users, CommitSplit(u)
        PROVE  OccursAt(rules'[x.rule], x.slot)
    <2>1. PICK start, p : SplitAt(u, start, p)
      BY <1>5 DEF CommitSplit
    <2> DEFINE cut  == request[u].row
               rule == RuleFrom(request[u].rule.org, start, p, nextRule)
               kept == rows \ {y \in rows : y.rule = cut.rule /\ y.start >= cut.start}
    <2>2. NewSeries(rule, history[cut.rule].root, SplitStart(start),
                    SplitStart(start) + Hot, kept, CutRules(cut), CutHistory(cut))
      BY <2>1 DEF SplitAt
    <2>3. Keeps(CutRules(cut)) /\ kept \in SUBSET rows
      BY <1>1, <1>5, RequestTyped, CutKeeps DEF CommitSplit
    <2> HIDE DEF rule, cut, kept
    <2> QED
      BY <1>3, <2>2, <2>3
  <1>6. ASSUME NEW w \in Workers, NEW j \in jobs[w], InsertFound(w, j)
        PROVE  OccursAt(rules'[x.rule], x.slot)
    <2>1. /\ j.phase = "filtered" /\ rules[j.rule] # None /\ rules' = rules
          /\ Insert(j.rule, rules[j.rule].series, j.found, rows)
      BY <1>6 DEF InsertFound
    <2>2. x \in NewRows(j.rule, rules[j.rule].series, j.found)
      BY <1>2, <2>1 DEF Insert
    <2>3. x.rule = j.rule /\ x.slot \in j.found
      BY <2>2 DEF NewRows
    <2> QED
      BY <2>1, <2>3 DEF FinalInv, JobsUpToDate
  <1>7. ASSUME NEW u \in Users, NEW y \in rows, NEW z,
               rows' = (rows \ {y}) \cup {z}, IdOf(z) = IdOf(y)
        PROVE  FALSE
    BY <1>2, <1>7
  <1>8. ASSUME NEW u \in Users, NEW y \in rows,
               CommitCancel(u, y) \/ CommitMove(u, y)
        PROVE  FALSE
    <2>1. PICK z : /\ z = [y EXCEPT !.cancelled = TRUE]
                        \/ \E start, end : z = [y EXCEPT !.start = start, !.end = end]
                   /\ rows' = (rows \ {y}) \cup {z}
      BY <1>8 DEF CommitCancel, CommitMove
    <2>2. IdOf(z) = IdOf(y)
      BY <1>1, <2>1 DEF TypeOK, Row, IdOf
    <2> QED
      BY <1>7, <2>1, <2>2
  <1>9. ~(rows' \subseteq rows)
    BY <1>2
  <1> QED
    BY <1>4, <1>5, <1>6, <1>8, <1>9 DEF Next, Mutation, BeginCreate, BeginOnRow,
       BeginSplit, BeginErase, Begin, CommitCut, CommitErase, Rollback, Tick,
       AddItem, Work, Discover, JobStep, ReadRule, FilterFound, LoseRule,
       FailJob, Cleanup, db

\* A rule whose end did not change either has the occurrences it had.
LEMMA SameOccurrences ==
    ASSUME NEW a, NEW b, a.start = b.start, a.every = b.every, a.until = b.until,
           a.count = b.count, NEW s
    PROVE  OccursAt(a, s) <=> OccursAt(b, s)
  BY DEF OccursAt, OnGrid, NormalUntil, CountEnd

\* Of a rule that is there before and after a step, only the end changes.
LEMMA OnlyEndsChange ==
    ASSUME SeriesInv, Next, NEW r \in RuleIds, r # nextRule, rules'[r] # None
    PROVE  /\ rules[r] # None /\ rules'[r].start = rules[r].start
           /\ rules'[r].every = rules[r].every /\ rules'[r].count = rules[r].count
  <1> DEFINE Kept(f) == f[r] # None =>
                /\ rules[r] # None /\ f[r].start = rules[r].start
                /\ f[r].every = rules[r].every /\ f[r].count = rules[r].count
  <1>1. TypeOK
    BY DEF SeriesInv
  <1>2. ASSUME NEW row \in Row PROVE Kept(CutRules(row))
    <2>1. CASE rules[row.rule] = None
      BY <2>1 DEF CutRules
    <2>2. CASE rules[row.rule] # None /\ row.rule = r
      <3>1. rules[r] \in Rule
        BY <1>1, <2>2 DEF TypeOK
      <3>2. CutRules(row)[r] = [rules[r] EXCEPT !.until = CutEnd(row)]
        BY <1>1, <2>2 DEF CutRules, TypeOK
      <3> QED
        BY <2>2, <3>1, <3>2 DEF Rule
    <2>3. CASE rules[row.rule] # None /\ row.rule # r
      BY <1>1, <2>3 DEF CutRules, TypeOK
    <2> QED
      BY <2>1, <2>2, <2>3
  <1>3. ASSUME NEW rule, NEW root, NEW lo, NEW hi, NEW kept, NEW f, Keeps(f),
               Kept(f), NEW h, NewSeries(rule, root, lo, hi, kept, f, h)
        PROVE  Kept(rules')
    <2>1. rules'[r] = f[r]
      BY <1>3 DEF NewSeries, Keeps
    <2> QED
      BY <1>3, <2>1
  <1>4. ASSUME NEW u \in Users, NEW start \in Dates, NEW p \in Patterns,
               CommitCreate(u, start, p)
        PROVE  Kept(rules')
    <2>1. Keeps(rules) /\ Kept(rules)
      BY <1>1 DEF Keeps, TypeOK
    <2> HIDE DEF Kept
    <2> QED
      BY <1>3, <1>4, <2>1 DEF CommitCreate
  <1>5. ASSUME NEW u \in Users, CommitSplit(u)
        PROVE  Kept(rules')
    <2>1. PICK start, p : SplitAt(u, start, p)
      BY <1>5 DEF CommitSplit
    <2>2. request[u].row \in Row
      BY <1>1, <1>5, RequestTyped DEF CommitSplit
    <2>3. Keeps(CutRules(request[u].row)) /\ Kept(CutRules(request[u].row))
      BY <1>1, <1>2, <2>2, CutKeeps
    <2> HIDE DEF Kept
    <2> QED
      BY <1>3, <2>1, <2>3 DEF SplitAt
  <1>6. ASSUME NEW u \in Users, CommitCut(u) PROVE Kept(rules')
    BY <1>1, <1>2, <1>6, RequestTyped DEF CommitCut, RowOps
  <1>7. ASSUME NEW u \in Users, CommitErase(u) PROVE Kept(rules')
    BY <1>7 DEF CommitErase
  <1> HIDE DEF Kept
  <1>8. Kept(rules')
    <2>1. ASSUME rules' = rules PROVE Kept(rules')
      BY <2>1 DEF Kept
    <2>2. \/ rules' = rules
          \/ \E u \in Users :
                \/ \E start \in Dates, p \in Patterns : CommitCreate(u, start, p)
                \/ CommitSplit(u) \/ CommitCut(u) \/ CommitErase(u)
      BY DEF Next, Mutation, BeginCreate, BeginOnRow, BeginSplit, BeginErase,
         Begin, CommitCancel, CommitMove, Rollback, Tick, AddItem, Work,
         Discover, JobStep, ReadRule, FilterFound, InsertFound, LoseRule,
         FailJob, Cleanup, db
    <2> QED
      BY <1>4, <1>5, <1>6, <1>7, <2>1, <2>2
  <1> QED
    BY <1>8 DEF Kept

\* Every step that gives no rule of a job another end keeps the jobs up to date.
LEMMA UpToDateStays ==
    ASSUME FinalInv, Next,
           \A w \in Workers : \A j \in jobs[w] :
              j.phase # "ready" /\ rules'[j.rule] # None =>
                 rules'[j.rule].until = rules[j.rule].until
    PROVE  FinalInv'
  <1>1. TypeOK /\ SeriesInv /\ SeriesInv'
    BY NextKeepsSeriesInv DEF FinalInv, SeriesInv
  <1>2. ASSUME NEW w \in Workers, NEW j \in jobs[w], j.phase # "ready",
               rules'[j.rule] # None
        PROVE  \A s \in j.found : OccursAt(rules'[j.rule], s)
    <2> DEFINE r == j.rule
    <2>1. r \in RuleIds /\ r < nextRule
      BY <1>1 DEF TypeOK, Job, SeriesInv, JobsMatchRules
    <2>2. r # nextRule
      BY <1>1, <2>1, ConstantsTyped DEF TypeOK
    <2>3. /\ rules[r] # None /\ rules'[r].start = rules[r].start
          /\ rules'[r].every = rules[r].every /\ rules'[r].count = rules[r].count
      BY <1>1, <1>2, <2>1, <2>2, OnlyEndsChange
    <2>4. rules'[r].until = rules[r].until
      BY <1>2
    <2>5. \A s \in j.found : OccursAt(rules[r], s)
      BY <1>2, <2>3 DEF FinalInv, JobsUpToDate
    <2> QED
      BY <2>3, <2>4, <2>5, SameOccurrences
  <1>3. ASSUME NEW w \in Workers, NEW j \in jobs[w], NEW next, Advance(w, j, next),
               \A k \in next : rules'[k.rule] # None =>
                  \A s \in k.found : OccursAt(rules'[k.rule], s)
        PROVE  JobsUpToDate'
    <2>1. \A v \in Workers : \A k \in jobs'[v] : k \in jobs[v] \/ k \in next
      BY <1>1, <1>3 DEF Advance, TypeOK
    <2> QED
      BY <1>2, <1>3, <2>1 DEF JobsUpToDate
  <1>4. ASSUME NEW w \in Workers, Discover(w) PROVE JobsUpToDate'
    <2>1. \A v \in Workers : \A k \in jobs'[v] : k \in jobs[v] \/ k.phase = "ready"
      BY <1>1, <1>4 DEF Discover, TypeOK, JobsOf
    <2> QED
      BY <1>2, <2>1 DEF JobsUpToDate
  <1>5. ASSUME NEW w \in Workers, NEW j \in jobs[w], ReadRule(w, j)
        PROVE  JobsUpToDate'
    <2> DEFINE found == OccurrencesIn(rules[j.rule], j.lo, j.hi)
               next == [j EXCEPT !.phase = "read", !.found = found]
    <2>1. Advance(w, j, {next}) /\ rules' = rules
      BY <1>5 DEF ReadRule, db
    <2>2. next.rule = j.rule /\ next.found = found
      BY <1>1 DEF TypeOK, Job
    <2>3. \A s \in found : OccursAt(rules[j.rule], s)
      BY DEF OccurrencesIn
    <2> HIDE DEF found, next
    <2> QED
      BY <1>3, <2>1, <2>2, <2>3
  <1>6. ASSUME NEW w \in Workers, NEW j \in jobs[w], FilterFound(w, j)
        PROVE  JobsUpToDate'
    <2> DEFINE found == Missing(j.rule, j.found, j.lo, j.hi)
               next == [j EXCEPT !.phase = "filtered", !.found = found]
    <2>1. Advance(w, j, {next}) /\ rules' = rules /\ j.phase = "read"
      BY <1>6 DEF FilterFound, db
    <2>2. next.rule = j.rule /\ next.found = found
      BY <1>1 DEF TypeOK, Job
    <2>3. found \subseteq j.found
      BY DEF Missing
    <2>4. rules[j.rule] # None => \A s \in found : OccursAt(rules[j.rule], s)
      BY <2>1, <2>3 DEF FinalInv, JobsUpToDate
    <2> HIDE DEF found, next
    <2> QED
      BY <1>3, <2>1, <2>2, <2>4
  <1>7. ASSUME NEW w \in Workers, NEW j \in jobs[w],
               InsertFound(w, j) \/ LoseRule(w, j) \/ FailJob(w, j)
        PROVE  JobsUpToDate'
    <2>1. Advance(w, j, {})
      BY <1>7 DEF InsertFound, LoseRule, FailJob
    <2> QED
      BY <1>3, <2>1
  <1>8. ASSUME jobs' = jobs PROVE JobsUpToDate'
    BY <1>2, <1>8 DEF JobsUpToDate
  <1>9. \/ jobs' = jobs
        \/ \E w \in Workers :
              \/ Discover(w)
              \/ \E j \in jobs[w] : \/ ReadRule(w, j) \/ FilterFound(w, j)
                                    \/ InsertFound(w, j) \/ LoseRule(w, j)
                                    \/ FailJob(w, j)
    BY DEF Next, Mutation, BeginCreate, BeginOnRow, BeginSplit, BeginErase,
       Begin, CommitCreate, CommitCancel, CommitMove, CommitCut, CommitSplit,
       SplitAt, CommitErase, Rollback, Done, Tick, AddItem, Work, JobStep, Cleanup
  <1>10. JobsUpToDate'
    BY <1>4, <1>5, <1>6, <1>7, <1>8, <1>9
  <1> QED
    BY <1>1, <1>10 DEF FinalInv

\* The only way for an instance to come back beyond the end of its rule is a job
\* that read the rule before the cut and inserts after it.
THEOREM CutsAreFinalBetweenReads == Spec /\ NoCutMeanwhile => CutIsFinal
  <1> DEFINE Quiet == \A w \in Workers : \A j \in jobs[w] :
                         j.phase # "ready" /\ rules'[j.rule] # None =>
                            rules'[j.rule].until = rules[j.rule].until
             Final == \A x \in rows' : Added(x) => OccursAt(rules'[x.rule], x.slot)
  <1>1. Init => FinalInv
    BY InitSeriesInv DEF Init, FinalInv, JobsUpToDate
  <1>2. FinalInv /\ [Next]_vars /\ [Quiet]_vars => FinalInv'
    <2>1. CASE UNCHANGED vars
      BY <2>1, NextKeepsSeriesInv DEF vars, db, FinalInv, JobsUpToDate
    <2>2. CASE Next /\ Quiet
      BY <2>2, UpToDateStays
    <2> QED
      BY <2>1, <2>2
  <1>3. FinalInv /\ [Next]_vars => [Final]_vars
    BY AddedOccur
  <1> QED
    BY <1>1, <1>2, <1>3, PTL DEF Spec, NoCutMeanwhile, CutIsFinal
=============================================================================
