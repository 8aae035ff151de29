----------------------- MODULE RecurringSeries_proofs -----------------------
(***************************************************************************)
(* Proofs about RecurringSeries.                                           *)
(***************************************************************************)
EXTENDS RecurringSeries, TLAPS

\* Identifiers that were not given out yet have no rule.
FreshRules == \A r \in RuleIds : r >= nextRule => rules[r] = None

\* A job is about a rule that exists or existed, and what it found are slots
\* of that rule, whatever happened to the rule since it was read.
JobsMatchRules ==
    \A w \in Workers : \A j \in jobs[w] :
        /\ j.rule < nextRule
        /\ rules[j.rule] # None => \A s \in j.found : OnGrid(rules[j.rule], s)

\* The inductive invariant of the series.
SeriesInv == TypeOK /\ RowsMatchRules /\ FreshRules /\ JobsMatchRules

------------------------------------------------------------------------------
(* What the parts of an action keep                                        *)

\* What the assumptions on the constants say of slots, rules and NULL
LEMMA ConstantsTyped ==
    /\ Slots \subseteq Int /\ RuleIds \subseteq Nat
    /\ None \notin Int /\ None \notin Rule
  BY ConstantsAssumption, NoneIsNoRule DEF RuleIds

\* The durations that dates are computed with are natural numbers.
LEMMA BoundsTyped == Hot \in Nat /\ Buffer \in Nat /\ Duration \in Nat
  BY ConstantsAssumption

\* The fields of a recurrence input
LEMMA PatternsTyped ==
    /\ \A p \in Patterns : /\ p.every \in Nat \ {0}
                           /\ p.until \in Slots \cup {None}
                           /\ p.count \in Nat \cup {None}
                           /\ p.yearly \in BOOLEAN
    /\ Onboarded \subseteq Orgs
  BY ConstantsAssumption DEF Pattern

\* Inserting generated instances
LEMMA InsertTyped ==
    ASSUME TypeOK, NEW r \in RuleIds, NEW series \in RuleIds,
           NEW slots \in SUBSET Slots, NEW kept \in SUBSET Row,
           Insert(r, series, slots, kept)
    PROVE  /\ rows' \subseteq Row
           /\ made' \in [RuleIds -> [Slots -> Nat]]
           /\ \A x \in rows' :
                 \/ x \in kept
                 \/ x.rule = r /\ x.series = series /\ x.slot \in slots
  <1> DEFINE new == NewRows(r, series, slots)
  <1>1. \A s \in slots : made[r][s] + 1 \in Nat
    BY DEF TypeOK
  <1>2. new \subseteq Row
    <2> SUFFICES ASSUME NEW s \in slots
                 PROVE  [rule |-> r, series |-> series, slot |-> s,
                         copy |-> made[r][s] + 1, start |-> s,
                         end |-> s + Duration, cancelled |-> FALSE] \in Row
      BY DEF NewRows
    <2>1. s + Duration \in Int
      BY ConstantsTyped, BoundsTyped
    <2> QED
      BY <1>1, <2>1 DEF Row
  <1>3. \A x \in new : x.rule = r /\ x.series = series /\ x.slot \in slots
    BY DEF NewRows
  <1>4. made' \in [RuleIds -> [Slots -> Nat]]
    <2> DEFINE more == [s \in Slots |->
                          IF s \in slots THEN made[r][s] + 1 ELSE made[r][s]]
    <2>1. more \in [Slots -> Nat]
      BY DEF TypeOK
    <2>2. made' = [made EXCEPT ![r] = more]
      BY DEF Insert
    <2> HIDE DEF more
    <2> QED
      BY <2>1, <2>2 DEF TypeOK
  <1> QED
    BY <1>2, <1>3, <1>4 DEF Insert

\* New contents f of the rules table in which no rule comes or goes and the
\* rules keep everything but their end.
Keeps(f) ==
    /\ f \in [RuleIds -> Rule \cup {None}]
    /\ \A r \in RuleIds :
          /\ (f[r] = None) <=> (rules[r] = None)
          /\ rules[r] # None =>
               /\ f[r].series = rules[r].series
               /\ f[r].org = rules[r].org
               /\ f[r].yearly = rules[r].yearly
               /\ f[r].start = rules[r].start
               /\ f[r].every = rules[r].every

\* Cutting a rule changes its end and nothing else.
LEMMA CutKeeps ==
    ASSUME TypeOK, NEW row \in Row
    PROVE  Keeps(CutRules(row))
  <1>1. row.rule \in RuleIds /\ row.start \in Slots
    BY DEF Row
  <1>2. CASE rules[row.rule] = None
    BY <1>2 DEF CutRules, TypeOK, Keeps
  <1>3. CASE rules[row.rule] # None
    <2>1. rules[row.rule] \in Rule
      BY <1>1, <1>3 DEF TypeOK
    <2> DEFINE cut == [rules[row.rule] EXCEPT !.until = CutEnd(row)]
    <2>2. cut \in Rule /\ cut # None
      BY <1>1, <2>1, ConstantsTyped DEF Rule, CutEnd
    <2>3. CutRules(row) = [rules EXCEPT ![row.rule] = cut]
      BY <1>3 DEF CutRules
    <2>4. /\ cut.series = rules[row.rule].series
          /\ cut.org = rules[row.rule].org
          /\ cut.yearly = rules[row.rule].yearly
          /\ cut.start = rules[row.rule].start
          /\ cut.every = rules[row.rule].every
      BY <2>1 DEF Rule
    <2> HIDE DEF cut
    <2> QED
      BY <1>1, <1>3, <2>1, <2>2, <2>3, <2>4 DEF TypeOK, Keeps
  <1> QED
    BY <1>2, <1>3

\* The history a cut writes keeps its type.
LEMMA CutHistoryTyped ==
    ASSUME TypeOK, NEW row \in Row
    PROVE  CutHistory(row) \in [RuleIds -> Promise]
  <1>1. row.rule \in RuleIds /\ row.start \in Int
    BY ConstantsTyped DEF Row
  <1>2. history[row.rule] \in Promise
    BY <1>1 DEF TypeOK
  <1>3. EarlierEnd(history[row.rule].limit, row.start) \in Int \cup {None}
    BY <1>1, <1>2, ConstantsTyped DEF EarlierEnd, Lesser, Promise
  <1>4. [history[row.rule] EXCEPT !.limit = EarlierEnd(@, row.start)] \in Promise
    BY <1>2, <1>3 DEF Promise
  <1> QED
    BY <1>1, <1>4 DEF TypeOK, CutHistory, CutEnd

\* The end of a rule, given or counted, is a date or NULL.
LEMMA UntilTyped ==
    ASSUME NEW rule \in Rule
    PROVE  /\ CountEnd(rule) \in Int \cup {None}
           /\ NormalUntil(rule) \in Int \cup {None}
           /\ EarlierEnd(rule.until, CountEnd(rule)) \in Int \cup {None}
  <1>1. /\ rule.start \in Int /\ rule.every \in Nat
        /\ rule.until \in Int \cup {None} /\ rule.count \in Nat \cup {None}
    BY ConstantsTyped DEF Rule
  <1>2. CountEnd(rule) \in Int \cup {None}
    <2>1. CASE rule.count # None
      <3> DEFINE span == (rule.count - 1) * rule.every
      <3>1. rule.count - 1 \in Int
        BY <1>1, <2>1
      <3>2. span \in Int
        BY <1>1, <3>1
      <3>3. CountEnd(rule) = rule.start + span + 1
        BY <2>1 DEF CountEnd
      <3> HIDE DEF span
      <3> QED
        BY <1>1, <3>2, <3>3
    <2> QED
      BY <2>1 DEF CountEnd
  <1>3. NormalUntil(rule) \in Int \cup {None}
    BY <1>1, <1>2 DEF NormalUntil
  <1> QED
    BY <1>1, <1>2, <1>3 DEF EarlierEnd, Lesser

\* Cutting a rule leaves its grid of dates where it was.
LEMMA SameGrid ==
    ASSUME NEW a, NEW b, a.start = b.start, a.every = b.every, NEW s
    PROVE  OnGrid(a, s) <=> OnGrid(b, s)
  BY DEF OnGrid

\* Deleting instances only deletes or detaches action items.
LEMMA DeleteTyped ==
    ASSUME TypeOK, NEW gone, NEW deleted, DeleteRows(gone, deleted)
    PROVE  items' \subseteq RowId /\ orphans' \subseteq RowId
  BY DEF TypeOK, DeleteRows, ItemsAt

\* A new generation window has the type of its table.
LEMMA WindowsTyped ==
    ASSUME TypeOK, NEW o \in Orgs, NEW found
    PROVE  WindowsWith(o, found) \subseteq Window
  <1>1. now + Hot \in Int /\ now \in Int /\ nextRule \in Nat
    BY BoundsTyped DEF TypeOK
  <1>2. NewWindow(o) \in Window
    BY <1>1 DEF NewWindow, Window
  <1> QED
    BY <1>2 DEF WindowsWith, TypeOK

\* What a mutation in flight has read
LEMMA RequestTyped ==
    ASSUME TypeOK, NEW u \in Users
    PROVE  /\ \A op \in RowOps : Pending(u, op) => request[u].row \in Row
           /\ Pending(u, "split") => /\ request[u].row \in Row
                                     /\ request[u].rule \in Rule
           /\ Pending(u, "create") => request[u].org \in Orgs
           /\ Pending(u, "erase") => request[u].series \in RuleIds
  <1> request[u] \in Request
    BY DEF TypeOK
  <1> QED
    BY DEF Request, RowOps, Pending, Idle

\* A mutation that ends leaves the requests well typed.
LEMMA DoneTyped ==
    ASSUME TypeOK, NEW u \in Users, Done(u)
    PROVE  /\ request' \in [Users -> Request]
           /\ now' = now /\ jobs' = jobs /\ budget' = budget
  BY DEF TypeOK, Done, Request

\* Inserts of a rule that is created, with kept rows and rules left from before
LEMMA NewSeriesKeeps ==
    ASSUME SeriesInv, NEW rule \in Rule, rule.series = nextRule,
           NEW root \in RuleIds, NEW lo \in Int, NEW hi \in Int,
           NEW kept \in SUBSET rows, NEW f, Keeps(f),
           NEW h \in [RuleIds -> Promise],
           NewSeries(rule, root, lo, hi, kept, f, h)
    PROVE  /\ rules' \in [RuleIds -> Rule \cup {None}]
           /\ rows' \subseteq Row
           /\ nextRule' \in Nat \ {0}
           /\ made' \in [RuleIds -> [Slots -> Nat]]
           /\ history' \in [RuleIds -> Promise]
           /\ RowsMatchRules'
           /\ FreshRules'
           /\ jobs' = jobs => JobsMatchRules'
  <1> DEFINE r == nextRule
             slots == OccurrencesIn(rule, lo, hi)
  <1>1. /\ r \in RuleIds
        /\ rules' = [f EXCEPT ![r] = rule]
        /\ nextRule' = r + 1
        /\ Insert(r, r, slots, kept)
        /\ history' = [h EXCEPT ![r] =
                          [root |-> root,
                           limit |-> EarlierEnd(rule.until, CountEnd(rule))]]
    BY DEF NewSeries
  <1>2. slots \in SUBSET Slots /\ \A s \in slots : OnGrid(rule, s)
    BY DEF OccurrencesIn, OccursAt
  <1>3. TypeOK /\ r \in Nat /\ kept \in SUBSET Row /\ r \in RuleIds
    BY <1>1, ConstantsTyped DEF SeriesInv, TypeOK
  <1> HIDE DEF slots
  <1>4. /\ rows' \subseteq Row
        /\ made' \in [RuleIds -> [Slots -> Nat]]
        /\ \A x \in rows' : \/ x \in kept
                            \/ x.rule = r /\ x.series = r /\ x.slot \in slots
    BY <1>1, <1>2, <1>3, InsertTyped
  <1>5. rules' \in [RuleIds -> Rule \cup {None}]
    BY <1>1 DEF Keeps
  <1>6. history' \in [RuleIds -> Promise]
    BY <1>1, UntilTyped DEF Promise
  <1>7. /\ rules'[r] = rule /\ rule # None
        /\ \A q \in RuleIds : q # r => rules'[q] = f[q]
    BY <1>1, ConstantsTyped DEF Keeps
  <1>8. RowsMatchRules'
    <2> SUFFICES ASSUME NEW x \in rows'
                 PROVE  /\ rules'[x.rule] # None
                        /\ x.series = rules'[x.rule].series
                        /\ OnGrid(rules'[x.rule], x.slot)
      BY DEF RowsMatchRules
    <2>1. CASE x \in kept
      <3>1. /\ x.rule \in RuleIds
            /\ rules[x.rule] # None
            /\ x.series = rules[x.rule].series
            /\ OnGrid(rules[x.rule], x.slot)
        BY <1>3, <2>1 DEF SeriesInv, RowsMatchRules, Row
      <3>2. x.rule # r
        BY <1>3, <3>1 DEF SeriesInv, FreshRules
      <3> QED
        BY <1>7, <3>1, <3>2, SameGrid DEF Keeps
    <2>2. CASE x.rule = r /\ x.series = r /\ x.slot \in slots
      BY <1>2, <1>7, <2>2
    <2> QED
      BY <1>4, <2>1, <2>2
  <1>9. FreshRules'
    <2> SUFFICES ASSUME NEW q \in RuleIds, q >= nextRule' PROVE rules'[q] = None
      BY DEF FreshRules
    <2>1. q # r /\ q >= nextRule
      BY <1>1, <1>3, ConstantsTyped
    <2> QED
      BY <1>7, <2>1 DEF SeriesInv, FreshRules, Keeps
  <1>10. ASSUME jobs' = jobs PROVE JobsMatchRules'
    <2> SUFFICES ASSUME NEW w \in Workers, NEW j \in jobs[w]
                 PROVE  /\ j.rule < nextRule'
                        /\ rules'[j.rule] # None =>
                             \A s \in j.found : OnGrid(rules'[j.rule], s)
      BY <1>10 DEF JobsMatchRules
    <2>1. /\ j.rule < nextRule
          /\ rules[j.rule] # None => \A s \in j.found : OnGrid(rules[j.rule], s)
      BY DEF SeriesInv, JobsMatchRules
    <2>4. j \in Job
      BY <1>3 DEF TypeOK
    <2>3. j.rule \in RuleIds /\ j.rule \in Nat
      BY <2>4, ConstantsTyped DEF Job
    <2>2. j.rule # r /\ j.rule < nextRule'
      BY <1>1, <1>3, <2>1, <2>3
    <2> QED
      BY <1>7, <2>1, <2>2, <2>3, SameGrid DEF Keeps
  <1> QED
    BY <1>1, <1>3, <1>4, <1>5, <1>6, <1>8, <1>9, <1>10

------------------------------------------------------------------------------
(* The mutations                                                           *)

\* A step that leaves rules, instances and jobs alone keeps the invariant.
LEMMA QuietStep ==
    ASSUME SeriesInv, TypeOK', UNCHANGED <<rules, rows, jobs, nextRule>>
    PROVE  SeriesInv'
  BY DEF SeriesInv, RowsMatchRules, FreshRules, JobsMatchRules

\* Starting a mutation keeps the invariant ...
LEMMA BeginKeeps ==
    ASSUME SeriesInv, NEW u \in Users, NEW r \in Request, Begin(u, r)
    PROVE  SeriesInv'
  <1>1. TypeOK
    BY DEF SeriesInv
  <1>2. UNCHANGED <<now, windows, rules, rows, items, orphans, nextRule, made,
                    history, jobs>>
    BY DEF Begin, db
  <1>3. request' \in [Users -> Request]
    BY <1>1 DEF Begin, TypeOK
  <1>4. budget' \in [requests : Nat, faults : Nat, items : Nat]
    BY <1>1 DEF Begin, TypeOK
  <1>5. TypeOK'
    BY <1>1, <1>2, <1>3, <1>4 DEF TypeOK
  <1> QED
    BY <1>2, <1>5, QuietStep

\* ... for each of the reads a mutation can start with.
LEMMA BeginsKeep ==
    ASSUME SeriesInv, NEW u \in Users,
           \/ \E o \in Orgs : BeginCreate(u, o)
           \/ \E row \in rows, op \in RowOps : BeginOnRow(u, row, op)
           \/ \E row \in rows : BeginSplit(u, row)
           \/ \E r \in RuleIds : BeginErase(u, r)
    PROVE  SeriesInv'
  <1> USE DEF SeriesInv
  <1>1. ASSUME NEW o \in Orgs, BeginCreate(u, o) PROVE SeriesInv'
    <2> DEFINE r == [op |-> "create", org |-> o, found |-> WindowsOf(o) # {}]
    <2>1. (WindowsOf(o) # {}) \in BOOLEAN
      OBVIOUS
    <2>2. r \in Request
      BY <2>1 DEF Request
    <2> QED
      BY <1>1, <2>2, BeginKeeps DEF BeginCreate
  <1>2. ASSUME NEW row \in rows, NEW op \in RowOps, BeginOnRow(u, row, op)
        PROVE  SeriesInv'
    <2>1. [op |-> op, row |-> row] \in Request
      BY DEF Request, TypeOK
    <2> QED
      BY <1>2, <2>1, BeginKeeps DEF BeginOnRow
  <1>3. ASSUME NEW row \in rows, BeginSplit(u, row) PROVE SeriesInv'
    <2>1. row \in Row
      BY DEF TypeOK
    <2>2. rules[row.rule] \in Rule
      BY <2>1 DEF TypeOK, RowsMatchRules, Row
    <2>3. [op |-> "split", row |-> row, rule |-> rules[row.rule]] \in Request
      BY <2>1, <2>2 DEF Request
    <2> QED
      BY <1>3, <2>3, BeginKeeps DEF BeginSplit
  <1>4. ASSUME NEW r \in RuleIds, BeginErase(u, r) PROVE SeriesInv'
    <2>1. rules[r].series \in RuleIds
      BY <1>4 DEF TypeOK, BeginErase, Rule
    <2>2. [op |-> "erase", series |-> rules[r].series] \in Request
      BY <2>1 DEF Request
    <2> QED
      BY <1>4, <2>2, BeginKeeps DEF BeginErase
  <1> QED
    BY <1>1, <1>2, <1>3, <1>4

\* A mutation that fails keeps the invariant.
LEMMA RollbackKeeps ==
    ASSUME SeriesInv, NEW u \in Users, Rollback(u)
    PROVE  SeriesInv'
  <1>1. UNCHANGED <<now, windows, rules, rows, items, orphans, nextRule, made,
                    history, jobs, budget>>
    BY DEF Rollback, Done, db
  <1>2. request' \in [Users -> Request]
    BY DoneTyped DEF SeriesInv, Rollback
  <1> QED
    BY <1>1, <1>2, QuietStep DEF SeriesInv, TypeOK

\* The rule made from a recurrence input is a rule.
LEMMA RuleFromTyped ==
    ASSUME NEW o \in Orgs, NEW start \in Slots, NEW p, NEW series \in RuleIds,
           p.every \in Nat \ {0}, p.until \in Slots \cup {None},
           p.count \in Nat \cup {None}, p.yearly \in BOOLEAN
    PROVE  /\ RuleFrom(o, start, p, series) \in Rule
           /\ RuleFrom(o, start, p, series).series = series
  BY DEF RuleFrom, Rule

\* createEvent keeps the invariant.
LEMMA CommitCreateKeeps ==
    ASSUME SeriesInv, NEW u \in Users, NEW start \in Dates, NEW p \in Patterns,
           CommitCreate(u, start, p)
    PROVE  SeriesInv'
  <1> DEFINE o == request[u].org
             rule == RuleFrom(o, start, p, nextRule)
             hi == CreateHorizon(p)
  <1>1. /\ Pending(u, "create")
        /\ NewSeries(rule, nextRule, start, hi, rows, rules, history)
        /\ windows' = WindowsWith(o, request[u].found)
        /\ Done(u)
        /\ UNCHANGED <<items, orphans>>
    BY DEF CommitCreate
  <1>2. TypeOK /\ o \in Orgs /\ nextRule \in RuleIds /\ start \in Slots
    BY <1>1, RequestTyped DEF SeriesInv, NewSeries, Dates
  <1>3. rule \in Rule /\ rule.series = nextRule
    BY <1>2, PatternsTyped, RuleFromTyped
  <1>4. now + Hot \in Int
    BY <1>2, BoundsTyped DEF TypeOK
  <1>5. p.until # None => p.until \in Int
    BY ConstantsTyped, PatternsTyped
  <1>6. hi \in Int /\ start \in Int
    BY <1>2, <1>4, <1>5, ConstantsTyped DEF CreateHorizon, Lesser
  <1>7. Keeps(rules) /\ history \in [RuleIds -> Promise]
    BY <1>2 DEF Keeps, TypeOK
  <1> HIDE DEF rule, hi
  <1>8. /\ rules' \in [RuleIds -> Rule \cup {None}]
        /\ rows' \subseteq Row
        /\ nextRule' \in Nat \ {0}
        /\ made' \in [RuleIds -> [Slots -> Nat]]
        /\ history' \in [RuleIds -> Promise]
        /\ RowsMatchRules' /\ FreshRules' /\ (jobs' = jobs => JobsMatchRules')
    BY <1>1, <1>2, <1>3, <1>6, <1>7, NewSeriesKeeps
  <1>9. windows' \subseteq Window
    BY <1>1, <1>2, WindowsTyped
  <1>10. /\ request' \in [Users -> Request]
         /\ now' = now /\ jobs' = jobs /\ budget' = budget
    BY <1>1, <1>2, DoneTyped
  <1>11. TypeOK'
    BY <1>1, <1>2, <1>8, <1>9, <1>10 DEF TypeOK
  <1> QED
    BY <1>8, <1>10, <1>11 DEF SeriesInv

\* Rows that are replaced by rows of the same rule, series and slot
LEMMA ReplaceKeeps ==
    ASSUME SeriesInv, NEW x \in rows, NEW y \in Row,
           y.rule = x.rule, y.series = x.series, y.slot = x.slot,
           rows' = (rows \ {x}) \cup {y},
           UNCHANGED <<now, windows, rules, orphans, nextRule, made, history,
                       jobs, budget>>,
           items' \subseteq RowId, request' \in [Users -> Request]
    PROVE  SeriesInv'
  <1>1. TypeOK'
    BY DEF SeriesInv, TypeOK
  <1>2. RowsMatchRules'
    BY DEF SeriesInv, RowsMatchRules
  <1>3. FreshRules' /\ JobsMatchRules'
    BY DEF SeriesInv, FreshRules, JobsMatchRules
  <1> QED
    BY <1>1, <1>2, <1>3 DEF SeriesInv

\* deleteSingleEventInstance keeps the invariant.
LEMMA CommitCancelKeeps ==
    ASSUME SeriesInv, NEW u \in Users, NEW x \in rows, CommitCancel(u, x)
    PROVE  SeriesInv'
  <1> DEFINE y == [x EXCEPT !.cancelled = TRUE]
  <1>1. x \in Row
    BY DEF SeriesInv, TypeOK
  <1>2. y \in Row /\ y.rule = x.rule /\ y.series = x.series /\ y.slot = x.slot
    BY <1>1 DEF Row
  <1>3. /\ rows' = (rows \ {x}) \cup {y}
        /\ UNCHANGED <<windows, rules, orphans, nextRule, made, history>>
        /\ items' \subseteq RowId /\ Done(u)
    BY DEF CommitCancel, SeriesInv, TypeOK
  <1> HIDE DEF y
  <1>4. /\ request' \in [Users -> Request]
        /\ now' = now /\ jobs' = jobs /\ budget' = budget
    BY <1>3, DoneTyped DEF SeriesInv
  <1> QED
    BY <1>2, <1>3, <1>4, ReplaceKeeps

\* updateSingleRecurringEventInstance keeps the invariant.
LEMMA CommitMoveKeeps ==
    ASSUME SeriesInv, NEW u \in Users, NEW x \in rows, CommitMove(u, x)
    PROVE  SeriesInv'
  <1>1. x \in Row
    BY DEF SeriesInv, TypeOK
  <1>2. PICK start \in Dates \cup {request[u].row.start},
             length \in Lengths \cup {request[u].row.end - request[u].row.start} :
           rows' = (rows \ {x}) \cup {[x EXCEPT !.start = start, !.end = start + length]}
    BY DEF CommitMove
  <1>3. start \in Slots /\ start + length \in Int
    <2>1. request[u].row \in Row
      BY RequestTyped DEF CommitMove, SeriesInv, RowOps
    <2>2. start \in Slots
      BY <2>1 DEF Row, Dates
    <2>3. length \in Int
      BY <2>1, ConstantsTyped, ConstantsAssumption DEF Row
    <2> QED
      BY <2>2, <2>3, ConstantsTyped
  <1> DEFINE y == [x EXCEPT !.start = start, !.end = start + length]
  <1>4. y \in Row /\ y.rule = x.rule /\ y.series = x.series /\ y.slot = x.slot
    BY <1>1, <1>3 DEF Row
  <1>5. /\ rows' = (rows \ {x}) \cup {y}
        /\ UNCHANGED <<windows, rules, orphans, nextRule, made, history>>
        /\ items' \subseteq RowId /\ Done(u)
    BY <1>2 DEF CommitMove, SeriesInv, TypeOK
  <1> HIDE DEF y
  <1>6. /\ request' \in [Users -> Request]
        /\ now' = now /\ jobs' = jobs /\ budget' = budget
    BY <1>5, DoneTyped DEF SeriesInv
  <1> QED
    BY <1>4, <1>5, <1>6, ReplaceKeeps

\* Instances are deleted and rules, if anything, end earlier or later.
LEMMA FewerRowsKeep ==
    ASSUME SeriesInv, rows' \subseteq rows, Keeps(rules'),
           UNCHANGED <<nextRule, jobs>>
    PROVE  RowsMatchRules' /\ FreshRules' /\ JobsMatchRules'
  <1>1. TypeOK
    BY DEF SeriesInv
  <1>2. RowsMatchRules'
    <2> SUFFICES ASSUME NEW x \in rows
                 PROVE  /\ rules'[x.rule] # None
                        /\ x.series = rules'[x.rule].series
                        /\ OnGrid(rules'[x.rule], x.slot)
      BY DEF RowsMatchRules
    <2>1. x.rule \in RuleIds
      BY <1>1 DEF TypeOK, Row
    <2>2. /\ rules[x.rule] # None
          /\ x.series = rules[x.rule].series
          /\ OnGrid(rules[x.rule], x.slot)
      BY DEF SeriesInv, RowsMatchRules
    <2> QED
      BY <2>1, <2>2, SameGrid DEF Keeps
  <1>3. FreshRules'
    BY DEF SeriesInv, FreshRules, Keeps
  <1>4. JobsMatchRules'
    <2> SUFFICES ASSUME NEW w \in Workers, NEW j \in jobs[w]
                 PROVE  /\ j.rule < nextRule
                        /\ rules'[j.rule] # None =>
                             \A s \in j.found : OnGrid(rules'[j.rule], s)
      BY DEF JobsMatchRules
    <2>1. /\ j.rule < nextRule
          /\ rules[j.rule] # None => \A s \in j.found : OnGrid(rules[j.rule], s)
      BY DEF SeriesInv, JobsMatchRules
    <2>2. j \in Job
      BY <1>1 DEF TypeOK
    <2>3. j.rule \in RuleIds
      BY <2>2 DEF Job
    <2> QED
      BY <2>1, <2>3, SameGrid DEF Keeps
  <1> QED
    BY <1>2, <1>3, <1>4

\* deleteThisAndFollowingEvents keeps the invariant.
LEMMA CommitCutKeeps ==
    ASSUME SeriesInv, NEW u \in Users, CommitCut(u)
    PROVE  SeriesInv'
  <1> DEFINE cut  == request[u].row
             gone == {x \in rows : x.series = cut.series /\ x.start >= cut.start}
  <1>1. TypeOK
    BY DEF SeriesInv
  <1>2. /\ Pending(u, "cut")
        /\ rules' = CutRules(cut) /\ history' = CutHistory(cut)
        /\ rows' \subseteq rows
        /\ DeleteRows(gone, ItemsDeletedWith(gone))
        /\ Done(u)
        /\ UNCHANGED <<windows, nextRule, made>>
    BY DEF CommitCut
  <1>3. cut \in Row
    BY <1>1, <1>2, RequestTyped DEF RowOps
  <1> HIDE DEF cut, gone
  <1>4. Keeps(rules') /\ history' \in [RuleIds -> Promise]
    BY <1>1, <1>2, <1>3, CutKeeps, CutHistoryTyped
  <1>5. items' \subseteq RowId /\ orphans' \subseteq RowId
    BY <1>1, <1>2, DeleteTyped
  <1>6. /\ request' \in [Users -> Request]
        /\ now' = now /\ jobs' = jobs /\ budget' = budget
    BY <1>1, <1>2, DoneTyped
  <1>7. TypeOK'
    BY <1>1, <1>2, <1>4, <1>5, <1>6 DEF TypeOK, Keeps
  <1> QED
    BY <1>2, <1>4, <1>6, <1>7, FewerRowsKeep DEF SeriesInv

\* updateThisAndFollowingEvents keeps it for each new start and recurrence ...
LEMMA SplitAtKeeps ==
    ASSUME SeriesInv, NEW u \in Users, Pending(u, "split"), NEW start \in Slots,
           NEW p, p.every \in Nat \ {0}, p.until \in Slots \cup {None},
           p.count \in Nat \cup {None}, p.yearly \in BOOLEAN,
           SplitAt(u, start, p)
    PROVE  SeriesInv'
  <1> DEFINE cut  == request[u].row
             rule == RuleFrom(request[u].rule.org, start, p, nextRule)
             gone == {x \in rows : x.rule = cut.rule /\ x.start >= cut.start}
             lo   == SplitStart(start)
             root == history[cut.rule].root
  <1>1. TypeOK
    BY DEF SeriesInv
  <1>2. /\ NewSeries(rule, root, lo, lo + Hot, rows \ gone,
                     CutRules(cut), CutHistory(cut))
        /\ DeleteRows(gone, ItemsDeletedWith(gone))
        /\ windows' = WindowsWith(rule.org, WindowsOf(rule.org) # {})
        /\ Done(u)
    BY DEF SplitAt
  <1>3. cut \in Row /\ request[u].rule \in Rule
    BY <1>1, RequestTyped
  <1>4. nextRule \in RuleIds /\ request[u].rule.org \in Orgs
    BY <1>2, <1>3 DEF NewSeries, Rule
  <1>5. rule \in Rule /\ rule.series = nextRule
    BY <1>4, RuleFromTyped
  <1>6. rule.org \in Orgs
    BY <1>4 DEF RuleFrom
  <1>7. lo \in Int /\ lo + Hot \in Int
    <2>1. start \in Int /\ now \in Int /\ Hot \in Int
      BY <1>1, ConstantsTyped, BoundsTyped DEF TypeOK
    <2> QED
      BY <2>1 DEF SplitStart, Lesser
  <1>8. root \in RuleIds
    BY <1>1, <1>3 DEF TypeOK, Row, Promise
  <1> HIDE DEF cut, rule, gone, lo, root
  <1>9. Keeps(CutRules(cut)) /\ CutHistory(cut) \in [RuleIds -> Promise]
    BY <1>1, <1>3, CutKeeps, CutHistoryTyped
  <1>10. /\ rules' \in [RuleIds -> Rule \cup {None}]
         /\ rows' \subseteq Row
         /\ nextRule' \in Nat \ {0}
         /\ made' \in [RuleIds -> [Slots -> Nat]]
         /\ history' \in [RuleIds -> Promise]
         /\ RowsMatchRules' /\ FreshRules' /\ (jobs' = jobs => JobsMatchRules')
    BY <1>2, <1>5, <1>7, <1>8, <1>9, NewSeriesKeeps
  <1>11. items' \subseteq RowId /\ orphans' \subseteq RowId
    BY <1>1, <1>2, DeleteTyped
  <1>12. windows' \subseteq Window
    BY <1>1, <1>2, <1>6, WindowsTyped
  <1>13. /\ request' \in [Users -> Request]
         /\ now' = now /\ jobs' = jobs /\ budget' = budget
    BY <1>1, <1>2, DoneTyped
  <1>14. TypeOK'
    BY <1>1, <1>10, <1>11, <1>12, <1>13 DEF TypeOK
  <1> QED
    BY <1>10, <1>13, <1>14 DEF SeriesInv

\* ... hence whichever of them the client gives.
LEMMA CommitSplitKeeps ==
    ASSUME SeriesInv, NEW u \in Users, CommitSplit(u)
    PROVE  SeriesInv'
  <1>1. PICK start \in {request[u].row.start} \cup Dates,
             p \in {PatternOf(request[u].rule)} \cup Patterns : SplitAt(u, start, p)
    BY DEF CommitSplit
  <1>2. Pending(u, "split")
    BY DEF CommitSplit
  <1>3. request[u].row \in Row /\ request[u].rule \in Rule
    BY <1>2, RequestTyped DEF SeriesInv
  <1>4. start \in Slots
    BY <1>3 DEF Row, Dates
  <1>5. /\ p.every \in Nat \ {0} /\ p.until \in Slots \cup {None}
        /\ p.count \in Nat \cup {None} /\ p.yearly \in BOOLEAN
    <2>1. CASE p = PatternOf(request[u].rule)
      BY <1>3, <2>1 DEF PatternOf, Rule
    <2> QED
      BY <2>1, PatternsTyped
  <1> QED
    BY <1>1, <1>2, <1>4, <1>5, SplitAtKeeps

\* deleteEntireRecurringEventSeries keeps the invariant.
LEMMA CommitEraseKeeps ==
    ASSUME SeriesInv, NEW u \in Users, CommitErase(u)
    PROVE  SeriesInv'
  <1> DEFINE s    == request[u].series
             dead == {r \in RuleIds : rules[r] # None /\ rules[r].series = s}
             gone == {x \in rows : x.series = s}
  <1>1. TypeOK
    BY DEF SeriesInv
  <1>2. /\ rules' = [r \in RuleIds |-> IF r \in dead THEN None ELSE rules[r]]
        /\ rows' = rows \ gone
        /\ DeleteRows(gone, ItemsDeletedWith(gone))
        /\ Done(u)
        /\ UNCHANGED <<windows, nextRule, made, history>>
    BY DEF CommitErase
  <1>3. items' \subseteq RowId /\ orphans' \subseteq RowId
    BY <1>1, <1>2, DeleteTyped
  <1>4. /\ request' \in [Users -> Request]
        /\ now' = now /\ jobs' = jobs /\ budget' = budget
    BY <1>1, <1>2, DoneTyped
  <1>5. rules' \in [RuleIds -> Rule \cup {None}]
    BY <1>1, <1>2 DEF TypeOK
  <1>6. TypeOK'
    BY <1>1, <1>2, <1>3, <1>4, <1>5 DEF TypeOK
  <1>7. RowsMatchRules'
    <2> SUFFICES ASSUME NEW x \in rows, x.series # s
                 PROVE  /\ rules'[x.rule] # None
                        /\ x.series = rules'[x.rule].series
                        /\ OnGrid(rules'[x.rule], x.slot)
      BY <1>2 DEF RowsMatchRules
    <2>1. /\ rules[x.rule] # None
          /\ x.series = rules[x.rule].series
          /\ OnGrid(rules[x.rule], x.slot)
      BY DEF SeriesInv, RowsMatchRules
    <2>2. x.rule \in RuleIds /\ x.rule \notin dead
      BY <1>1, <2>1 DEF TypeOK, Row
    <2> QED
      BY <1>2, <2>1, <2>2
  <1>8. FreshRules'
    BY <1>2 DEF SeriesInv, FreshRules
  <1>9. JobsMatchRules'
    <2> SUFFICES ASSUME NEW w \in Workers, NEW j \in jobs[w]
                 PROVE  /\ j.rule < nextRule
                        /\ rules'[j.rule] # None =>
                             \A t \in j.found : OnGrid(rules'[j.rule], t)
      BY <1>2, <1>4 DEF JobsMatchRules
    <2>1. /\ j.rule < nextRule
          /\ rules[j.rule] # None => \A t \in j.found : OnGrid(rules[j.rule], t)
      BY DEF SeriesInv, JobsMatchRules
    <2>2. j \in Job
      BY <1>1 DEF TypeOK
    <2>3. j.rule \in RuleIds
      BY <2>2 DEF Job
    <2> QED
      BY <1>2, <2>1, <2>3
  <1> QED
    BY <1>6, <1>7, <1>8, <1>9 DEF SeriesInv

\* Every mutation keeps the invariant.
LEMMA MutationKeeps ==
    ASSUME SeriesInv, NEW u \in Users, Mutation(u)
    PROVE  SeriesInv'
  BY BeginsKeep, CommitCreateKeeps, CommitCancelKeeps, CommitMoveKeeps,
     CommitCutKeeps, CommitSplitKeeps, CommitEraseKeeps, RollbackKeeps DEF Mutation

------------------------------------------------------------------------------
(* The workers                                                             *)

\* A step of the generation worker that only rearranges its jobs
LEMMA JobsStep ==
    ASSUME SeriesInv, jobs' \in [Workers -> SUBSET Job],
           budget' \in [requests : Nat, faults : Nat, items : Nat],
           UNCHANGED <<now, db, request>>, JobsMatchRules'
    PROVE  SeriesInv'
  <1>1. UNCHANGED <<now, windows, rules, rows, items, orphans, nextRule, made,
                    history, request>>
    BY DEF db
  <1>2. TypeOK'
    BY <1>1 DEF SeriesInv, TypeOK
  <1> QED
    BY <1>1, <1>2 DEF SeriesInv, RowsMatchRules, FreshRules

\* One job is taken away, and perhaps comes back as another one.
LEMMA AdvanceKeeps ==
    ASSUME SeriesInv, NEW w \in Workers, NEW j \in jobs[w],
           NEW next \in SUBSET Job, Advance(w, j, next),
           UNCHANGED <<rules, nextRule>>,
           \A k \in next :
              /\ k.rule < nextRule
              /\ rules[k.rule] # None => \A s \in k.found : OnGrid(rules[k.rule], s)
    PROVE  jobs' \in [Workers -> SUBSET Job] /\ JobsMatchRules'
  <1>1. jobs' = [jobs EXCEPT ![w] = (jobs[w] \ {j}) \cup next]
    BY DEF Advance
  <1>2. jobs \in [Workers -> SUBSET Job]
    BY DEF SeriesInv, TypeOK
  <1>3. \A v \in Workers : \A k \in jobs'[v] : k \in jobs[v] \/ k \in next
    BY <1>1, <1>2
  <1> QED
    BY <1>1, <1>2, <1>3 DEF SeriesInv, JobsMatchRules

\* The jobs a run discovers are about rules that exist.
LEMMA DiscoverKeeps ==
    ASSUME SeriesInv, NEW w \in Workers, Discover(w)
    PROVE  SeriesInv'
  <1>1. PICK chosen \in SUBSET windows :
              jobs' = [jobs EXCEPT ![w] = UNION {JobsOf(win) : win \in chosen}]
    BY DEF Discover
  <1>2. UNCHANGED <<now, db, request, budget>>
    BY DEF Discover
  <1>3. TypeOK
    BY DEF SeriesInv
  <1>4. ASSUME NEW win \in chosen, NEW j \in JobsOf(win)
        PROVE  j \in Job /\ j.rule < nextRule /\ j.found = {}
    <2>1. win.id \in Nat /\ win.end \in Int
      BY <1>3 DEF TypeOK, Window
    <2>2. PICK r \in RuleIds :
              /\ rules[r] # None
              /\ j = [window |-> win.id, rule |-> r, lo |-> win.end,
                      hi |-> JobEnd(rules[r]), phase |-> "ready", found |-> {}]
      BY <1>4 DEF JobsOf
    <2>3. JobEnd(rules[r]) \in Int
      <3>1. now + Hot \in Int /\ Buffer \in Int
        BY <1>3, BoundsTyped DEF TypeOK
      <3>2. rules[r] \in Rule
        BY <1>3, <2>2 DEF TypeOK
      <3>3. NormalUntil(rules[r]) \in Int \cup {None}
        BY <3>2, UntilTyped
      <3> QED
        BY <3>1, <3>3 DEF JobEnd, Greater
    <2>4. j \in Job
      BY <2>1, <2>2, <2>3 DEF Job
    <2>5. r < nextRule
      BY <1>3, <2>2, ConstantsTyped DEF SeriesInv, FreshRules, TypeOK
    <2> QED
      BY <2>2, <2>4, <2>5
  <1> DEFINE new == UNION {JobsOf(win) : win \in chosen}
  <1>5. \A j \in new : j \in Job /\ j.rule < nextRule /\ j.found = {}
    BY <1>4
  <1> HIDE DEF new
  <1>6. jobs' \in [Workers -> SUBSET Job]
    BY <1>1, <1>3, <1>5 DEF TypeOK, new
  <1>7. \A v \in Workers : \A k \in jobs'[v] : k \in jobs[v] \/ k \in new
    BY <1>1, <1>3 DEF TypeOK, new
  <1>8. rules' = rules /\ nextRule' = nextRule
    BY <1>2 DEF db
  <1>9. JobsMatchRules'
    BY <1>5, <1>7, <1>8 DEF SeriesInv, JobsMatchRules
  <1>10. budget' \in [requests : Nat, faults : Nat, items : Nat]
    BY <1>2, <1>3 DEF TypeOK
  <1> QED
    BY <1>2, <1>6, <1>9, <1>10, JobsStep

\* What a job reads of a rule are slots of that rule.
LEMMA ReadRuleKeeps ==
    ASSUME SeriesInv, NEW w \in Workers, NEW j \in jobs[w], ReadRule(w, j)
    PROVE  SeriesInv'
  <1> DEFINE found == OccurrencesIn(rules[j.rule], j.lo, j.hi)
             k     == [j EXCEPT !.phase = "read", !.found = found]
  <1>1. /\ Advance(w, j, {k}) /\ UNCHANGED <<now, db, request, budget>>
        /\ rules' = rules /\ nextRule' = nextRule
    BY DEF ReadRule, db
  <1>2. TypeOK /\ j \in Job /\ j.rule < nextRule
    BY DEF SeriesInv, TypeOK, JobsMatchRules
  <1>3. found \in SUBSET Slots /\ \A s \in found : OnGrid(rules[j.rule], s)
    BY DEF OccurrencesIn, OccursAt
  <1> HIDE DEF found
  <1>4. k \in Job /\ k.rule = j.rule /\ k.found = found
    BY <1>2, <1>3 DEF Job
  <1> HIDE DEF k
  <1>5. jobs' \in [Workers -> SUBSET Job] /\ JobsMatchRules'
    BY <1>1, <1>2, <1>3, <1>4, AdvanceKeeps
  <1>6. budget' \in [requests : Nat, faults : Nat, items : Nat]
    BY <1>1, <1>2 DEF TypeOK
  <1> QED
    BY <1>1, <1>5, <1>6, JobsStep

\* Leaving out existing instances keeps the invariant.
LEMMA FilterFoundKeeps ==
    ASSUME SeriesInv, NEW w \in Workers, NEW j \in jobs[w], FilterFound(w, j)
    PROVE  SeriesInv'
  <1> DEFINE found == Missing(j.rule, j.found, j.lo, j.hi)
             k     == [j EXCEPT !.phase = "filtered", !.found = found]
  <1>1. /\ Advance(w, j, {k}) /\ UNCHANGED <<now, db, request, budget>>
        /\ rules' = rules /\ nextRule' = nextRule
    BY DEF FilterFound, db
  <1>2. /\ TypeOK /\ j \in Job /\ j.rule < nextRule
        /\ rules[j.rule] # None => \A s \in j.found : OnGrid(rules[j.rule], s)
    BY DEF SeriesInv, TypeOK, JobsMatchRules
  <1>3. found \subseteq j.found
    BY DEF Missing
  <1> HIDE DEF found
  <1>4. k \in Job /\ k.rule = j.rule /\ k.found = found
    BY <1>2, <1>3 DEF Job
  <1> HIDE DEF k
  <1>5. jobs' \in [Workers -> SUBSET Job] /\ JobsMatchRules'
    BY <1>1, <1>2, <1>3, <1>4, AdvanceKeeps
  <1>6. budget' \in [requests : Nat, faults : Nat, items : Nat]
    BY <1>1, <1>2 DEF TypeOK
  <1> QED
    BY <1>1, <1>5, <1>6, JobsStep

\* What a job read when its rule was other than it is now still fits the rule,
\* because cutting a rule moves its end only and identifiers are not reused.
LEMMA InsertFoundKeeps ==
    ASSUME SeriesInv, NEW w \in Workers, NEW j \in jobs[w], InsertFound(w, j)
    PROVE  SeriesInv'
  <1> DEFINE r      == j.rule
             series == rules[r].series
             found  == j.found
  <1>1. /\ rules[r] # None
        /\ Insert(r, series, found, rows)
        /\ Advance(w, j, {})
        /\ UNCHANGED <<now, windows, rules, items, orphans, nextRule, history,
                       request, budget>>
    BY DEF InsertFound
  <1>2. /\ TypeOK /\ j \in Job /\ r < nextRule
        /\ \A s \in found : OnGrid(rules[r], s)
    BY <1>1 DEF SeriesInv, TypeOK, JobsMatchRules
  <1>3. r \in RuleIds /\ found \in SUBSET Slots /\ rows \in SUBSET Row
    BY <1>2 DEF Job, TypeOK
  <1>4. series \in RuleIds
    BY <1>1, <1>2, <1>3 DEF TypeOK, Rule
  <1> HIDE DEF r, series, found
  <1>5. /\ rows' \subseteq Row
        /\ made' \in [RuleIds -> [Slots -> Nat]]
        /\ \A x \in rows' :
              \/ x \in rows
              \/ x.rule = r /\ x.series = series /\ x.slot \in found
    BY <1>1, <1>2, <1>3, <1>4, InsertTyped
  <1> USE DEF r, series, found
  <1>6. jobs' \in [Workers -> SUBSET Job] /\ JobsMatchRules'
    BY <1>1, AdvanceKeeps
  <1>7. TypeOK'
    BY <1>1, <1>2, <1>5, <1>6 DEF TypeOK
  <1>8. RowsMatchRules'
    BY <1>1, <1>2, <1>5 DEF SeriesInv, RowsMatchRules
  <1>9. FreshRules'
    BY <1>1 DEF SeriesInv, FreshRules
  <1> QED
    BY <1>6, <1>7, <1>8, <1>9 DEF SeriesInv

\* A job that fails is just gone.
LEMMA JobGoneKeeps ==
    ASSUME SeriesInv, NEW w \in Workers, NEW j \in jobs[w],
           LoseRule(w, j) \/ FailJob(w, j)
    PROVE  SeriesInv'
  <1>1. Advance(w, j, {}) /\ UNCHANGED <<now, db, request>>
    BY DEF LoseRule, FailJob
  <1>2. rules' = rules /\ nextRule' = nextRule
    BY <1>1 DEF db
  <1>3. jobs' \in [Workers -> SUBSET Job] /\ JobsMatchRules'
    BY <1>1, <1>2, AdvanceKeeps
  <1>4. budget' \in [requests : Nat, faults : Nat, items : Nat]
    BY DEF SeriesInv, TypeOK, LoseRule, FailJob
  <1> QED
    BY <1>1, <1>3, <1>4, JobsStep

\* The cleanup worker keeps the invariant.
LEMMA CleanupKeeps ==
    ASSUME SeriesInv, NEW o \in Orgs, Cleanup(o)
    PROVE  SeriesInv'
  <1>1. PICK gone : DeleteRows(gone, {})
    BY DEF Cleanup
  <1>2. /\ rows' \subseteq rows
        /\ UNCHANGED <<now, windows, rules, nextRule, made, history, request,
                       jobs, budget>>
    BY DEF Cleanup
  <1>3. items' \subseteq RowId /\ orphans' \subseteq RowId
    BY <1>1, DeleteTyped DEF SeriesInv
  <1>4. TypeOK' /\ Keeps(rules')
    BY <1>2, <1>3 DEF SeriesInv, TypeOK, Keeps
  <1> QED
    BY <1>2, <1>4, FewerRowsKeep DEF SeriesInv

------------------------------------------------------------------------------
(* The invariant of the series                                             *)

\* The invariant holds before any event exists.
LEMMA InitSeriesInv == Init => SeriesInv
  <1> SUFFICES ASSUME Init PROVE SeriesInv
    OBVIOUS
  <1>1. windows \subseteq Window
    <2>1. \A o \in Onboarded : OldWindow(o) \in Window
      BY BoundsTyped, PatternsTyped DEF OldWindow, Window
    <2> QED
      BY <2>1 DEF Init
  <1>2. history \in [RuleIds -> Promise]
    BY DEF Init, Promise
  <1>3. /\ rules \in [RuleIds -> Rule \cup {None}]
        /\ made \in [RuleIds -> [Slots -> Nat]]
        /\ request \in [Users -> Request] /\ jobs \in [Workers -> SUBSET Job]
    BY DEF Init, Request
  <1>4. /\ now \in Nat /\ nextRule \in Nat \ {0}
        /\ budget \in [requests : Nat, faults : Nat, items : Nat]
    BY ConstantsAssumption DEF Init
  <1>5. TypeOK
    BY <1>1, <1>2, <1>3, <1>4 DEF Init, TypeOK
  <1> QED
    BY <1>5 DEF Init, SeriesInv, RowsMatchRules, FreshRules, JobsMatchRules

\* Every step of the system keeps the invariant.
LEMMA NextKeepsSeriesInv == SeriesInv /\ [Next]_vars => SeriesInv'
  <1> SUFFICES ASSUME SeriesInv, [Next]_vars PROVE SeriesInv'
    OBVIOUS
  <1>1. CASE Tick
    <2>1. UNCHANGED <<windows, rules, rows, items, orphans, nextRule, made,
                      history, request, jobs, budget>>
      BY <1>1 DEF Tick, db
    <2>2. now' \in Nat
      BY <1>1 DEF Tick, SeriesInv, TypeOK
    <2>3. TypeOK'
      BY <2>1, <2>2 DEF SeriesInv, TypeOK
    <2> QED
      BY <2>1, <2>3, QuietStep
  <1>2. ASSUME NEW row \in rows, AddItem(row) PROVE SeriesInv'
    <2>1. UNCHANGED <<now, windows, rules, rows, orphans, nextRule, made,
                      history, request, jobs>>
      BY <1>2 DEF AddItem
    <2>2. IdOf(row) \in RowId
      BY DEF SeriesInv, TypeOK, Row, RowId, IdOf
    <2>3. /\ items' \subseteq RowId
          /\ budget' \in [requests : Nat, faults : Nat, items : Nat]
      BY <1>2, <2>2 DEF AddItem, SeriesInv, TypeOK
    <2>4. TypeOK'
      BY <2>1, <2>3 DEF SeriesInv, TypeOK
    <2> QED
      BY <2>1, <2>4, QuietStep
  <1>3. ASSUME NEW u \in Users, Mutation(u) PROVE SeriesInv'
    BY <1>3, MutationKeeps
  <1>4. ASSUME NEW w \in Workers, Work(w) PROVE SeriesInv'
    BY <1>4, DiscoverKeeps, ReadRuleKeeps, FilterFoundKeeps, InsertFoundKeeps,
       JobGoneKeeps DEF Work, JobStep
  <1>5. ASSUME NEW w \in Workers, NEW j \in jobs[w], FailJob(w, j) PROVE SeriesInv'
    BY <1>5, JobGoneKeeps
  <1>6. ASSUME NEW o \in Orgs, Cleanup(o) PROVE SeriesInv'
    BY <1>6, CleanupKeeps
  <1>7. CASE UNCHANGED vars
    <2>1. UNCHANGED <<now, windows, rules, rows, items, orphans, nextRule, made,
                      history, request, jobs, budget>>
      BY <1>7 DEF vars, db
    <2>2. TypeOK'
      BY <2>1 DEF SeriesInv, TypeOK
    <2> QED
      BY <2>1, <2>2, QuietStep
  <1> QED
    BY <1>1, <1>2, <1>3, <1>4, <1>5, <1>6, <1>7 DEF Next

\* The invariant holds in every reachable state.
LEMMA SeriesInvariance == Spec => []SeriesInv
  BY InitSeriesInv, NextKeepsSeriesInv, PTL DEF Spec

\* The state stays of the intended shape in every interleaving of clients and
\* workers, for any number of organizations, users, runs and rules.
THEOREM TypeCorrect == Spec => []TypeOK
  BY SeriesInvariance, PTL DEF SeriesInv

\* No interleaving leaves an instance whose template or rule is gone, whose
\* series is not its rule's, or whose slot its rule does not have: not even a
\* job that read a rule and inserts after the rule was cut, split or erased.
THEOREM RowsAlwaysMatchRules == Spec => []RowsMatchRules
  BY SeriesInvariance, PTL DEF SeriesInv

------------------------------------------------------------------------------
(* No duplicates: what it takes                                            *)

\* Runs do not overlap, each organization had its one window from the start,
\* and no series is yearly.  Without any of the three there are duplicates.
SerialGeneration ==
    /\ \A v, w \in Workers : v = w
    /\ Onboarded = Orgs
    /\ \A p \in Patterns : ~p.yearly

\* Every organization has exactly one window, and no mutation in flight is
\* about to create another one.
OneWindowEach ==
    /\ \A o \in Orgs : WindowsOf(o) # {}
    /\ \A a, b \in windows : a.org = b.org => a = b
    /\ \A u \in Users : Pending(u, "create") => request[u].found

NoYearlyRules ==
    /\ \A r \in RuleIds : rules[r] # None => ~rules[r].yearly
    /\ \A u \in Users : Pending(u, "split") => ~request[u].rule.yearly

\* A run has one job for a rule; what the job found lies in its window, and
\* once it is filtered none of it is there already.
JobsDistinct ==
    \A w \in Workers : \A j \in jobs[w] :
        /\ \A k \in jobs[w] : j.rule = k.rule => j = k
        /\ \A s \in j.found : j.lo <= s /\ s <= j.hi
        /\ j.phase = "filtered" =>
             \A x \in rows : x.rule = j.rule => x.slot \notin j.found

DuplicateInv ==
    SeriesInv /\ OneWindowEach /\ NoYearlyRules /\ JobsDistinct /\ NoDuplicates

\* What a step may do to the mutation a client has in flight
LEMMA RequestSteps ==
    ASSUME SeriesInv, Next, NEW u \in Users
    PROVE  \/ request'[u] = request[u]
           \/ request'[u].op \notin {"create", "split"}
           \/ \E o \in Orgs :
                 request'[u] = [op |-> "create", org |-> o, found |-> WindowsOf(o) # {}]
           \/ \E row \in rows :
                 request'[u] = [op |-> "split", row |-> row, rule |-> rules[row.rule]]
  <1>1. request \in [Users -> Request]
    BY DEF SeriesInv, TypeOK
  <1>2. ASSUME NEW v \in Users, Done(v)
        PROVE  request'[u] = request[u] \/ request'[u].op = "idle"
    BY <1>1, <1>2 DEF Done, Idle
  <1>3. ASSUME NEW v \in Users, NEW r, Begin(v, r)
        PROVE  request'[u] = request[u] \/ request'[u] = r
    BY <1>1, <1>3 DEF Begin
  <1>4. ASSUME NEW v \in Users, Mutation(v)
        PROVE  \/ request'[u] = request[u]
               \/ request'[u].op \notin {"create", "split"}
               \/ \E o \in Orgs :
                     request'[u] = [op |-> "create", org |-> o,
                                    found |-> WindowsOf(o) # {}]
               \/ \E row \in rows :
                     request'[u] = [op |-> "split", row |-> row,
                                    rule |-> rules[row.rule]]
    <2>1. ASSUME NEW o \in Orgs, BeginCreate(v, o)
          PROVE  request'[u] = request[u]
                   \/ request'[u] = [op |-> "create", org |-> o,
                                     found |-> WindowsOf(o) # {}]
      BY <1>3, <2>1 DEF BeginCreate
    <2>2. ASSUME NEW row \in rows, NEW op \in RowOps, BeginOnRow(v, row, op)
          PROVE  request'[u] = request[u] \/ request'[u].op = op
      BY <1>3, <2>2 DEF BeginOnRow
    <2>3. ASSUME NEW row \in rows, BeginSplit(v, row)
          PROVE  request'[u] = request[u]
                   \/ request'[u] = [op |-> "split", row |-> row,
                                     rule |-> rules[row.rule]]
      BY <1>3, <2>3 DEF BeginSplit
    <2>4. ASSUME NEW r \in RuleIds, BeginErase(v, r)
          PROVE  request'[u] = request[u] \/ request'[u].op = "erase"
      BY <1>3, <2>4 DEF BeginErase
    <2>5. CASE Done(v)
      BY <1>2, <2>5
    <2>6. \A op \in RowOps : op \notin {"create", "split"}
      BY DEF RowOps
    <2>7. \/ Done(v)
          \/ \E o \in Orgs : BeginCreate(v, o)
          \/ \E row \in rows, op \in RowOps : BeginOnRow(v, row, op)
          \/ \E row \in rows : BeginSplit(v, row)
          \/ \E r \in RuleIds : BeginErase(v, r)
      BY <1>4 DEF Mutation, CommitCreate, CommitCancel, CommitMove, CommitCut,
                  CommitSplit, SplitAt, CommitErase, Rollback
    <2> QED
      BY <2>1, <2>2, <2>3, <2>4, <2>5, <2>6, <2>7
  <1>5. CASE request' = request
    BY <1>5
  <1>6. request' = request \/ \E v \in Users : Mutation(v)
    BY DEF Next, Tick, AddItem, Work, Discover, JobStep, ReadRule, FilterFound,
           InsertFound, LoseRule, FailJob, Cleanup
  <1> QED
    BY <1>4, <1>5, <1>6

\* What a step may do to the windows
LEMMA WindowSteps ==
    ASSUME SeriesInv, OneWindowEach, Next
    PROVE  windows' = windows
  <1>1. ASSUME NEW u \in Users, NEW start \in Dates, NEW p \in Patterns,
               CommitCreate(u, start, p)
        PROVE  windows' = windows
    <2>1. request[u].found
      BY <1>1 DEF CommitCreate, OneWindowEach
    <2> QED
      BY <1>1, <2>1 DEF CommitCreate, WindowsWith
  <1>2. ASSUME NEW u \in Users, CommitSplit(u) PROVE windows' = windows
    <2> DEFINE org == request[u].rule.org
    <2>1. Pending(u, "split") /\ \E start, p : SplitAt(u, start, p)
      BY <1>2 DEF CommitSplit
    <2>2. org \in Orgs
      BY <2>1, RequestTyped DEF SeriesInv, Rule
    <2>3. windows' = WindowsWith(org, WindowsOf(org) # {})
      BY <2>1 DEF SplitAt, RuleFrom
    <2> QED
      BY <2>2, <2>3 DEF OneWindowEach, WindowsWith
  <1>3. ASSUME NEW u \in Users, Mutation(u) PROVE windows' = windows
    BY <1>1, <1>2, <1>3 DEF Mutation, BeginCreate, BeginOnRow, BeginSplit,
       BeginErase, Begin, CommitCancel, CommitMove, CommitCut, CommitErase,
       Rollback, db
  <1> QED
    BY <1>3 DEF Next, Tick, AddItem, Work, Discover, JobStep, ReadRule,
       FilterFound, InsertFound, LoseRule, FailJob, Cleanup, db

\* No organization gets a second window.
LEMMA OneWindowStays ==
    ASSUME SeriesInv, OneWindowEach, Next
    PROVE  OneWindowEach'
  <1>1. windows' = windows
    BY WindowSteps
  <1>2. ASSUME NEW u \in Users, request'[u].op = "create"
        PROVE  request'[u].found
    <2>1. CASE request'[u] = request[u]
      BY <1>2, <2>1 DEF OneWindowEach, Pending
    <2>2. CASE \E o \in Orgs : request'[u] = [op |-> "create", org |-> o,
                                              found |-> WindowsOf(o) # {}]
      <3>1. PICK o \in Orgs : request'[u] = [op |-> "create", org |-> o,
                                             found |-> WindowsOf(o) # {}]
        BY <2>2
      <3> DEFINE has == WindowsOf(o) # {}
      <3>2. has = TRUE
        BY DEF OneWindowEach
      <3> HIDE DEF has
      <3>3. request'[u] = [op |-> "create", org |-> o, found |-> TRUE]
        BY <3>1, <3>2 DEF has
      <3> QED
        BY <3>3
    <2>3. CASE \E row \in rows : request'[u] = [op |-> "split", row |-> row,
                                                rule |-> rules[row.rule]]
      BY <1>2, <2>3
    <2> QED
      BY <1>2, <2>1, <2>2, <2>3, RequestSteps
  <1> QED
    BY <1>1, <1>2 DEF OneWindowEach, WindowsOf, Pending

\* No rule becomes yearly.
LEMMA NoYearlyStays ==
    ASSUME DuplicateInv, SerialGeneration, Next
    PROVE  NoYearlyRules'
  <1>1. TypeOK /\ NoYearlyRules /\ SeriesInv
    BY DEF DuplicateInv, SeriesInv
  <1>2. ASSUME NEW rule, ~rule.yearly, NEW f, Keeps(f), NEW root, NEW lo, NEW hi,
               NEW kept, NEW h, NewSeries(rule, root, lo, hi, kept, f, h)
        PROVE  \A r \in RuleIds : rules'[r] # None => ~rules'[r].yearly
    <2>1. nextRule \in RuleIds /\ rules' = [f EXCEPT ![nextRule] = rule]
      BY <1>2 DEF NewSeries
    <2>2. \A r \in RuleIds : rules'[r] = rule \/ rules'[r] = f[r]
      BY <1>2, <2>1 DEF Keeps
    <2> QED
      BY <1>1, <1>2, <2>2 DEF Keeps, NoYearlyRules
  <1>3. Keeps(rules)
    BY <1>1 DEF Keeps, TypeOK
  <1>4. ASSUME NEW u \in Users, NEW start \in Dates, NEW p \in Patterns,
               CommitCreate(u, start, p)
        PROVE  \A r \in RuleIds : rules'[r] # None => ~rules'[r].yearly
    <2> DEFINE rule == RuleFrom(request[u].org, start, p, nextRule)
    <2>1. NewSeries(rule, nextRule, start, CreateHorizon(p), rows, rules, history)
      BY <1>4 DEF CommitCreate
    <2>2. ~rule.yearly
      BY DEF SerialGeneration, RuleFrom
    <2> HIDE DEF rule
    <2> QED
      BY <1>2, <1>3, <2>1, <2>2
  <1>5. ASSUME NEW u \in Users, CommitSplit(u)
        PROVE  \A r \in RuleIds : rules'[r] # None => ~rules'[r].yearly
    <2>1. PICK start \in {request[u].row.start} \cup Dates,
               p \in {PatternOf(request[u].rule)} \cup Patterns : SplitAt(u, start, p)
      BY <1>5 DEF CommitSplit
    <2>2. Pending(u, "split") /\ request[u].row \in Row
      BY <1>1, <1>5, RequestTyped DEF CommitSplit
    <2>3. ~p.yearly
      BY <1>1, <2>2 DEF SerialGeneration, PatternOf, NoYearlyRules
    <2> DEFINE rule == RuleFrom(request[u].rule.org, start, p, nextRule)
               cut  == request[u].row
               kept == rows \ {x \in rows : x.rule = cut.rule /\ x.start >= cut.start}
    <2>4. NewSeries(rule, history[cut.rule].root, SplitStart(start),
                    SplitStart(start) + Hot, kept, CutRules(cut), CutHistory(cut))
      BY <2>1 DEF SplitAt
    <2>5. ~rule.yearly
      BY <2>3 DEF RuleFrom
    <2>6. Keeps(CutRules(cut))
      BY <1>1, <2>2, CutKeeps
    <2> HIDE DEF rule, cut, kept
    <2> QED
      BY <1>2, <2>4, <2>5, <2>6
  <1>6. ASSUME NEW u \in Users, CommitCut(u)
        PROVE  \A r \in RuleIds : rules'[r] # None => ~rules'[r].yearly
    <2>1. rules' = CutRules(request[u].row) /\ request[u].row \in Row
      BY <1>1, <1>6, RequestTyped DEF CommitCut, RowOps
    <2>2. Keeps(rules')
      BY <1>1, <2>1, CutKeeps
    <2> QED
      BY <1>1, <2>2 DEF Keeps, NoYearlyRules
  <1>7. ASSUME NEW u \in Users, CommitErase(u)
        PROVE  \A r \in RuleIds : rules'[r] # None => ~rules'[r].yearly
    BY <1>1, <1>7 DEF CommitErase, NoYearlyRules
  <1>8. \/ rules' = rules
        \/ \E u \in Users :
              \/ \E start \in Dates, p \in Patterns : CommitCreate(u, start, p)
              \/ CommitSplit(u) \/ CommitCut(u) \/ CommitErase(u)
    BY DEF Next, Mutation, BeginCreate, BeginOnRow, BeginSplit, BeginErase,
       Begin, CommitCancel, CommitMove, Rollback, Tick, AddItem, Work,
       Discover, JobStep, ReadRule, FilterFound, InsertFound, LoseRule,
       FailJob, Cleanup, db
  <1>9. \A r \in RuleIds : rules'[r] # None => ~rules'[r].yearly
    BY <1>1, <1>4, <1>5, <1>6, <1>7, <1>8 DEF NoYearlyRules
  <1>10. ASSUME NEW u \in Users, request'[u].op = "split"
         PROVE  ~request'[u].rule.yearly
    <2>1. CASE request'[u] = request[u]
      BY <1>1, <1>10, <2>1 DEF NoYearlyRules, Pending
    <2>2. CASE \E row \in rows : request'[u] = [op |-> "split", row |-> row,
                                                rule |-> rules[row.rule]]
      <3>1. PICK row \in rows : request'[u] = [op |-> "split", row |-> row,
                                               rule |-> rules[row.rule]]
        BY <2>2
      <3>2. row.rule \in RuleIds /\ rules[row.rule] # None
        BY <1>1 DEF TypeOK, Row, SeriesInv, RowsMatchRules
      <3>3. ~rules[row.rule].yearly
        BY <1>1, <3>2 DEF NoYearlyRules
      <3> QED
        BY <3>1, <3>3
    <2>3. CASE \E o \in Orgs : request'[u] = [op |-> "create", org |-> o,
                                              found |-> WindowsOf(o) # {}]
      BY <1>10, <2>3
    <2> QED
      BY <1>1, <1>10, <2>1, <2>2, <2>3, RequestSteps
  <1> QED
    BY <1>9, <1>10 DEF NoYearlyRules, Pending

\* What a step may do to the instances while the jobs stay as they are
RowsQuietly ==
    /\ jobs' = jobs
    /\ \/ rows' \subseteq rows
       \/ \E x \in rows, y \in rows' :
             /\ rows' = (rows \ {x}) \cup {y}
             /\ y.rule = x.rule /\ y.slot = x.slot
       \/ \E kept \in SUBSET rows, slots \in SUBSET Slots :
             rows' = kept \cup NewRows(nextRule, nextRule, slots)

\* The instances a new template starts with are all of its new rule.
LEMMA NewSeriesRows ==
    ASSUME NEW rule, rule.series = nextRule, NEW f, NEW root, NEW lo, NEW hi,
           NEW kept \in SUBSET rows, NEW h,
           NewSeries(rule, root, lo, hi, kept, f, h)
    PROVE  \E k \in SUBSET rows, slots \in SUBSET Slots :
              rows' = k \cup NewRows(nextRule, nextRule, slots)
  <1> DEFINE slots == OccurrencesIn(rule, lo, hi)
  <1>1. rows' = kept \cup NewRows(nextRule, nextRule, slots)
    BY DEF NewSeries, Insert
  <1>2. slots \in SUBSET Slots
    BY DEF OccurrencesIn
  <1> QED
    BY <1>1, <1>2

\* A mutation moves, removes, or inserts instances of a rule it creates.
LEMMA MutationQuiet ==
    ASSUME SeriesInv, NEW u \in Users, Mutation(u)
    PROVE  RowsQuietly \/ (rows' = rows /\ jobs' = jobs)
  <1>1. ASSUME NEW start \in Dates, NEW p \in Patterns,
               CommitCreate(u, start, p)
        PROVE  RowsQuietly
    <2> DEFINE rule == RuleFrom(request[u].org, start, p, nextRule)
    <2>1. /\ NewSeries(rule, nextRule, start, CreateHorizon(p), rows, rules, history)
          /\ jobs' = jobs
      BY <1>1 DEF CommitCreate, Done
    <2>2. rule.series = nextRule
      BY DEF RuleFrom
    <2> HIDE DEF rule
    <2> QED
      BY <2>1, <2>2, NewSeriesRows DEF RowsQuietly
  <1>2. CASE CommitSplit(u)
    <2>1. PICK start, p : SplitAt(u, start, p)
      BY <1>2 DEF CommitSplit
    <2> DEFINE rule == RuleFrom(request[u].rule.org, start, p, nextRule)
               cut  == request[u].row
               kept == rows \ {x \in rows : x.rule = cut.rule /\ x.start >= cut.start}
    <2>2. /\ NewSeries(rule, history[cut.rule].root, SplitStart(start),
                       SplitStart(start) + Hot, kept, CutRules(cut), CutHistory(cut))
          /\ jobs' = jobs
      BY <2>1 DEF SplitAt, Done
    <2>3. rule.series = nextRule /\ kept \in SUBSET rows
      BY DEF RuleFrom
    <2> HIDE DEF rule, cut, kept
    <2> QED
      BY <2>2, <2>3, NewSeriesRows DEF RowsQuietly
  <1>3. ASSUME NEW x \in rows,
               CommitCancel(u, x) \/ CommitMove(u, x)
        PROVE  RowsQuietly
    <2>1. x \in Row
      BY DEF SeriesInv, TypeOK
    <2>2. PICK y : /\ y = [x EXCEPT !.cancelled = TRUE]
                        \/ \E start, end : y = [x EXCEPT !.start = start, !.end = end]
                   /\ rows' = (rows \ {x}) \cup {y} /\ jobs' = jobs
      BY <1>3 DEF CommitCancel, CommitMove, Done
    <2>3. y.rule = x.rule /\ y.slot = x.slot
      BY <2>1, <2>2 DEF Row
    <2> QED
      BY <2>2, <2>3 DEF RowsQuietly
  <1>4. CASE CommitCut(u) \/ CommitErase(u)
    BY <1>4 DEF CommitCut, CommitErase, Done, RowsQuietly
  <1> QED
    BY <1>1, <1>2, <1>3, <1>4 DEF Mutation, BeginCreate, BeginOnRow,
       BeginSplit, BeginErase, Begin, Rollback, Done, db

\* Only the insert of a job adds an instance to a rule that exists.
LEMMA RowSteps ==
    ASSUME SeriesInv, Next
    PROVE  \/ RowsQuietly
           \/ rows' = rows
           \/ \E w \in Workers : \E j \in jobs[w] : InsertFound(w, j)
  <1>1. ASSUME NEW o \in Orgs, Cleanup(o) PROVE RowsQuietly
    BY <1>1 DEF Cleanup, RowsQuietly
  <1>2. ASSUME NEW u \in Users, Mutation(u) PROVE RowsQuietly \/ rows' = rows
    BY <1>2, MutationQuiet
  <1> QED
    BY <1>1, <1>2 DEF Next, Tick, AddItem, Work, Discover, JobStep, ReadRule,
       FilterFound, LoseRule, FailJob, db

\* Instances of older rules stay where they are unless a job inserts.
LEMMA QuietRows ==
    ASSUME SeriesInv, RowsQuietly, NEW y \in rows', y.rule # nextRule
    PROVE  \E x \in rows : x.rule = y.rule /\ x.slot = y.slot
  <1>1. CASE rows' \subseteq rows
    BY <1>1
  <1>2. CASE \E x \in rows, z \in rows' :
               /\ rows' = (rows \ {x}) \cup {z}
               /\ z.rule = x.rule /\ z.slot = x.slot
    BY <1>2
  <1>3. CASE \E kept \in SUBSET rows, slots \in SUBSET Slots :
               rows' = kept \cup NewRows(nextRule, nextRule, slots)
    BY <1>3 DEF NewRows
  <1> QED
    BY <1>1, <1>2, <1>3 DEF RowsQuietly

\* A job that is replaced by one for the same rule, or by none, leaves the
\* jobs of the run distinct.
LEMMA AdvanceDistinct ==
    ASSUME DuplicateInv, SerialGeneration, NEW w \in Workers, NEW j \in jobs[w],
           NEW next, Advance(w, j, next),
           \A k \in next : \A l \in next : k = l,
           \A k \in next :
              /\ k.rule = j.rule
              /\ \A s \in k.found : k.lo <= s /\ s <= k.hi
              /\ k.phase = "filtered" =>
                   \A x \in rows : x.rule = k.rule => x.slot \notin k.found,
           \A x \in rows' : x \in rows \/ (x.rule = j.rule /\ next = {})
    PROVE  JobsDistinct'
  <1>1. jobs' = [jobs EXCEPT ![w] = (jobs[w] \ {j}) \cup next]
    BY DEF Advance
  <1>2. jobs'[w] = (jobs[w] \ {j}) \cup next
    BY <1>1 DEF DuplicateInv, SeriesInv, TypeOK
  <1>3. ASSUME NEW k \in jobs'[w]
        PROVE  /\ \A l \in jobs'[w] : k.rule = l.rule => k = l
               /\ \A s \in k.found : k.lo <= s /\ s <= k.hi
               /\ k.phase = "filtered" =>
                    \A x \in rows' : x.rule = k.rule => x.slot \notin k.found
    <2>1. \A l, m \in jobs[w] : l.rule = m.rule => l = m
      BY DEF DuplicateInv, JobsDistinct
    <2>2. CASE k \in jobs[w] /\ k # j
      <3>1. k.rule # j.rule
        BY <2>1, <2>2
      <3>2. /\ \A s \in k.found : k.lo <= s /\ s <= k.hi
            /\ k.phase = "filtered" =>
                 \A x \in rows : x.rule = k.rule => x.slot \notin k.found
        BY <2>2 DEF DuplicateInv, JobsDistinct
      <3> QED
        BY <1>2, <2>1, <2>2, <3>1, <3>2
    <2>3. CASE k \in next
      <3>1. \A x \in rows' : x \in rows
        BY <2>3
      <3>2. \A l \in jobs[w] \ {j} : l.rule # k.rule
        BY <2>1, <2>3
      <3> QED
        BY <1>2, <2>3, <3>1, <3>2
    <2> QED
      BY <1>2, <1>3, <2>2, <2>3
  <1>4. \A v \in Workers : v = w
    BY DEF SerialGeneration
  <1> QED
    BY <1>3, <1>4 DEF JobsDistinct

\* The jobs of a run stay one for each rule.
LEMMA JobsStayDistinct ==
    ASSUME DuplicateInv, SerialGeneration, Next
    PROVE  JobsDistinct'
  <1> USE DEF DuplicateInv
  <1>1. CASE RowsQuietly
    <2>1. ASSUME NEW w \in Workers, NEW j \in jobs[w], j.phase = "filtered",
                 NEW y \in rows', y.rule = j.rule
          PROVE  y.slot \notin j.found
      <3> DEFINE r == j.rule
      <3>1. j \in Job /\ nextRule \in Nat
        BY DEF SeriesInv, TypeOK
      <3>2. r \in Nat
        BY <3>1, ConstantsTyped DEF Job
      <3>3. r < nextRule
        BY DEF SeriesInv, JobsMatchRules
      <3>4. r # nextRule
        BY <3>1, <3>2, <3>3
      <3>5. PICK x \in rows : x.rule = y.rule /\ x.slot = y.slot
        BY <1>1, <2>1, <3>4, QuietRows
      <3> QED
        BY <2>1, <3>5 DEF JobsDistinct
    <2> QED
      BY <1>1, <2>1 DEF RowsQuietly, JobsDistinct
  <1>2. ASSUME NEW w \in Workers, Discover(w) PROVE JobsDistinct'
    <2>1. PICK chosen \in SUBSET windows :
             jobs' = [jobs EXCEPT ![w] = UNION {JobsOf(win) : win \in chosen}]
      BY <1>2 DEF Discover
    <2>2. jobs'[w] = UNION {JobsOf(win) : win \in chosen}
      BY <2>1 DEF SeriesInv, TypeOK
    <2>3. ASSUME NEW a \in chosen, NEW j \in JobsOf(a)
          PROVE  /\ j.rule \in RuleIds /\ rules[j.rule].org = a.org
                 /\ j = [window |-> a.id, rule |-> j.rule, lo |-> a.end,
                         hi |-> JobEnd(rules[j.rule]), phase |-> "ready",
                         found |-> {}]
      BY <2>3 DEF JobsOf
    <2>4. ASSUME NEW j \in jobs'[w], NEW k \in jobs'[w], j.rule = k.rule
          PROVE  j = k
      <3>1. PICK a \in chosen : j \in JobsOf(a)
        BY <2>2
      <3>2. PICK b \in chosen : k \in JobsOf(b)
        BY <2>2
      <3>3. a.org = b.org
        BY <2>3, <2>4, <3>1, <3>2
      <3>4. a = b
        BY <3>3 DEF OneWindowEach
      <3> QED
        BY <2>3, <2>4, <3>1, <3>2, <3>4
    <2>5. \A j \in jobs'[w] : j.phase = "ready" /\ j.found = {}
      BY <2>2, <2>3
    <2>6. \A v \in Workers : v = w
      BY DEF SerialGeneration
    <2> QED
      BY <2>4, <2>5, <2>6 DEF JobsDistinct
  <1>3. ASSUME NEW w \in Workers, NEW j \in jobs[w], ReadRule(w, j)
        PROVE  JobsDistinct'
    <2> DEFINE found == OccurrencesIn(rules[j.rule], j.lo, j.hi)
               k     == [j EXCEPT !.phase = "read", !.found = found]
    <2>1. j \in Job
      BY DEF SeriesInv, TypeOK
    <2>2. Advance(w, j, {k}) /\ rows' = rows
      BY <1>3 DEF ReadRule, db
    <2>3. ~rules[j.rule].yearly
      BY <1>3, <2>1 DEF ReadRule, NoYearlyRules, Job
    <2>4. \A s \in found : j.lo <= s /\ s <= j.hi
      BY <2>3 DEF OccurrencesIn
    <2>5. /\ k.rule = j.rule /\ k.lo = j.lo /\ k.hi = j.hi
          /\ k.phase = "read" /\ k.found = found
      BY <2>1 DEF Job
    <2> HIDE DEF found, k
    <2> QED
      BY <2>2, <2>4, <2>5, AdvanceDistinct
  <1>4. ASSUME NEW w \in Workers, NEW j \in jobs[w], FilterFound(w, j)
        PROVE  JobsDistinct'
    <2> DEFINE found == Missing(j.rule, j.found, j.lo, j.hi)
               k     == [j EXCEPT !.phase = "filtered", !.found = found]
    <2>1. j \in Job
      BY DEF SeriesInv, TypeOK
    <2>2. Advance(w, j, {k}) /\ rows' = rows
      BY <1>4 DEF FilterFound, db
    <2>3. \A s \in j.found : j.lo <= s /\ s <= j.hi
      BY DEF JobsDistinct
    <2>4. /\ \A s \in found : j.lo <= s /\ s <= j.hi
          /\ \A x \in rows : x.rule = j.rule => x.slot \notin found
      BY <2>3 DEF Missing
    <2>5. /\ k.rule = j.rule /\ k.lo = j.lo /\ k.hi = j.hi /\ k.found = found
      BY <2>1 DEF Job
    <2> HIDE DEF found, k
    <2> QED
      BY <2>2, <2>4, <2>5, AdvanceDistinct
  <1>5. ASSUME NEW w \in Workers, NEW j \in jobs[w], InsertFound(w, j)
        PROVE  JobsDistinct'
    <2>1. Advance(w, j, {})
      BY <1>5 DEF InsertFound
    <2>2. \A x \in rows' : x \in rows \/ x.rule = j.rule
      BY <1>5 DEF InsertFound, Insert, NewRows
    <2> QED
      BY <2>1, <2>2, AdvanceDistinct
  <1>6. ASSUME NEW w \in Workers, NEW j \in jobs[w],
               LoseRule(w, j) \/ FailJob(w, j)
        PROVE  JobsDistinct'
    <2>1. Advance(w, j, {}) /\ rows' = rows
      BY <1>6 DEF LoseRule, FailJob, db
    <2> QED
      BY <2>1, AdvanceDistinct
  <1>7. CASE rows' = rows /\ jobs' = jobs
    BY <1>7 DEF JobsDistinct
  <1>8. ASSUME NEW u \in Users, Mutation(u)
        PROVE  RowsQuietly \/ (rows' = rows /\ jobs' = jobs)
    BY <1>8, MutationQuiet
  <1>9. ASSUME NEW o \in Orgs, Cleanup(o) PROVE RowsQuietly
    BY <1>9 DEF Cleanup, RowsQuietly
  <1> QED
    BY <1>1, <1>2, <1>3, <1>4, <1>5, <1>6, <1>7, <1>8, <1>9
       DEF Next, Work, JobStep, Tick, AddItem, db

\* Instances stay unique: what a job inserts was not there when it looked, and
\* nothing else can have inserted it since.
LEMMA NoDuplicatesStays ==
    ASSUME DuplicateInv, Next
    PROVE  NoDuplicates'
  <1> USE DEF DuplicateInv
  <1>1. CASE rows' \subseteq rows
    BY <1>1 DEF NoDuplicates
  <1>2. ASSUME NEW x \in rows, NEW y,
               rows' = (rows \ {x}) \cup {y}, y.rule = x.rule, y.slot = x.slot
        PROVE  NoDuplicates'
    BY <1>2 DEF NoDuplicates
  <1>3. ASSUME NEW kept \in SUBSET rows, NEW r, NEW series, NEW slots,
               rows' = kept \cup NewRows(r, series, slots),
               \A x \in kept : x.rule = r => x.slot \notin slots
        PROVE  NoDuplicates'
    <2>1. ASSUME NEW s \in slots, NEW t \in slots, s = t
          PROVE  [rule |-> r, series |-> series, slot |-> s, copy |-> made[r][s] + 1,
                  start |-> s, end |-> s + Duration, cancelled |-> FALSE]
               = [rule |-> r, series |-> series, slot |-> t, copy |-> made[r][t] + 1,
                  start |-> t, end |-> t + Duration, cancelled |-> FALSE]
      BY <2>1
    <2>2. \A a, b \in NewRows(r, series, slots) : a.slot = b.slot => a = b
      BY <2>1 DEF NewRows
    <2>3. \A a \in NewRows(r, series, slots) : a.rule = r /\ a.slot \in slots
      BY DEF NewRows
    <2> HIDE DEF NewRows
    <2> QED
      BY <1>3, <2>2, <2>3 DEF NoDuplicates
  <1>4. CASE RowsQuietly
    <2>1. \A x \in rows : x.rule # nextRule
      <3>1. nextRule \in Nat /\ \A x \in rows : x.rule \in RuleIds
        BY DEF SeriesInv, TypeOK, Row
      <3>2. nextRule \in RuleIds => rules[nextRule] = None
        BY <3>1 DEF SeriesInv, FreshRules
      <3> QED
        BY <3>1, <3>2 DEF SeriesInv, RowsMatchRules
    <2>2. CASE \E x \in rows, y \in rows' :
                 /\ rows' = (rows \ {x}) \cup {y}
                 /\ y.rule = x.rule /\ y.slot = x.slot
      BY <1>2, <2>2
    <2>3. CASE \E kept \in SUBSET rows, slots \in SUBSET Slots :
                 rows' = kept \cup NewRows(nextRule, nextRule, slots)
      <3>1. PICK kept \in SUBSET rows, slots \in SUBSET Slots :
               rows' = kept \cup NewRows(nextRule, nextRule, slots)
        BY <2>3
      <3>2. \A x \in kept : x.rule = nextRule => x.slot \notin slots
        BY <2>1
      <3> QED
        BY <1>3, <3>1, <3>2
    <2> QED
      BY <1>1, <1>4, <2>2, <2>3 DEF RowsQuietly
  <1>5. ASSUME NEW w \in Workers, NEW j \in jobs[w], InsertFound(w, j)
        PROVE  NoDuplicates'
    <2>1. rows' = rows \cup NewRows(j.rule, rules[j.rule].series, j.found)
      BY <1>5 DEF InsertFound, Insert
    <2>2. \A x \in rows : x.rule = j.rule => x.slot \notin j.found
      BY <1>5 DEF InsertFound, JobsDistinct
    <2> QED
      BY <1>3, <2>1, <2>2
  <1> QED
    BY <1>1, <1>4, <1>5, RowSteps

\* The strengthened invariant holds initially.
LEMMA InitDuplicateInv ==
    ASSUME SerialGeneration, Init
    PROVE  DuplicateInv
  <1>1. SeriesInv
    BY InitSeriesInv
  <1>2. OneWindowEach
    <2>1. windows = {OldWindow(o) : o \in Orgs}
      BY DEF Init, SerialGeneration
    <2>2. \A o \in Orgs : OldWindow(o).org = o
      BY DEF OldWindow
    <2>3. \A o \in Orgs : OldWindow(o) \in WindowsOf(o)
      BY <2>1, <2>2 DEF WindowsOf
    <2>4. \A a, b \in windows : a.org = b.org => a = b
      BY <2>1, <2>2
    <2>5. \A u \in Users : ~Pending(u, "create")
      BY DEF Init, Pending, Idle
    <2> QED
      BY <2>3, <2>4, <2>5 DEF OneWindowEach
  <1>3. NoYearlyRules
    BY DEF Init, NoYearlyRules, Pending, Idle
  <1>4. JobsDistinct /\ NoDuplicates
    BY DEF Init, JobsDistinct, NoDuplicates
  <1> QED
    BY <1>1, <1>2, <1>3, <1>4 DEF DuplicateInv

\* Every step keeps the strengthened invariant.
LEMMA NextKeepsDuplicateInv ==
    ASSUME SerialGeneration, DuplicateInv, [Next]_vars
    PROVE  DuplicateInv'
  <1>1. SeriesInv'
    BY NextKeepsSeriesInv DEF DuplicateInv
  <1>2. CASE Next
    BY <1>1, <1>2, OneWindowStays, NoYearlyStays, JobsStayDistinct,
       NoDuplicatesStays DEF DuplicateInv
  <1>3. CASE UNCHANGED vars
    BY <1>1, <1>3 DEF vars, db, DuplicateInv, OneWindowEach, WindowsOf, Pending,
       NoYearlyRules, JobsDistinct, NoDuplicates
  <1> QED
    BY <1>2, <1>3

\* As long as runs do not overlap, every organization had its window before its
\* series, and no series is yearly, "find what exists, then insert the rest" is
\* enough: no interleaving with the clients or the cleanup puts one occurrence
\* on the calendar twice.
THEOREM NoDuplicatesWhenSerial ==
    ASSUME SerialGeneration
    PROVE  Spec => []NoDuplicates
  <1>1. Init => DuplicateInv
    BY InitDuplicateInv
  <1>2. DuplicateInv /\ [Next]_vars => DuplicateInv'
    BY NextKeepsDuplicateInv
  <1>3. DuplicateInv => NoDuplicates
    BY DEF DuplicateInv
  <1> QED
    BY <1>1, <1>2, <1>3, PTL DEF Spec
=============================================================================
