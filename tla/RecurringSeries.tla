--------------------------- MODULE RecurringSeries ---------------------------
(***************************************************************************)
(* Recurring events: the tables a series lives in (generation windows,     *)
(* templates with their recurrence rules, materialised instances, action   *)
(* items) and everything that writes them: the GraphQL mutations, the      *)
(* generation worker and the cleanup worker.                               *)
(*                                                                         *)
(* A template and its recurrence rule are always created and deleted in    *)
(* one transaction, so one record of "rules" stands for both.  Time is     *)
(* counted in slots, one per possible occurrence; an end date is kept as   *)
(* "until", the first slot it excludes, so that both a date picked by a    *)
(* user (between two slots) and "one millisecond before this instance"     *)
(* are represented exactly.                                                *)
(***************************************************************************)
EXTENDS Integers, FiniteSets

CONSTANTS
    Orgs,         \* organizations
    Onboarded,    \* the organizations that have a generation window at time 0
    Users,        \* clients: each has at most one mutation in flight
    Workers,      \* generation runs that may overlap (cron ticks, servers)
    Patterns,     \* recurrence inputs: [every, until, count, yearly]
    Slots,        \* the calendar: the slots dates are taken from
    Earliest,     \* bound: the earliest date a user picks
    Latest,       \* bound: the latest date a user picks
    Hot,          \* hotWindowMonthsAhead
    Lead,         \* lookAheadMonths of the job discovery
    Retention,    \* historyRetentionMonths
    Buffer,       \* slack added to an end date when a job window is computed
    Duration,     \* the length of an instance that is generated, in slots
    Lengths,      \* bound: lengths that a client gives an instance
    MaxOrgs,      \* maxOrganizations of one run
    MaxTime,      \* bound: the clock stops here
    MaxRules,     \* bound: rules ever created
    MaxCopies,    \* bound: instances ever inserted for one slot of one rule
    MaxRequests,  \* bound: mutations ever started
    MaxFaults,    \* bound: generation jobs that fail
    MaxItems,     \* bound: action items ever created on instances
    None          \* SQL NULL, and "no such row"

RuleIds == 1..MaxRules

Pattern == [every  : Nat \ {0},          \* interval
            until  : Slots \cup {None},  \* recurrenceEndDate
            count  : Nat \cup {None},
            yearly : BOOLEAN]            \* frequency = YEARLY

ASSUME ConstantsAssumption ==
    /\ Onboarded \subseteq Orgs
    /\ Slots \subseteq Int
    /\ Patterns \subseteq Pattern
    /\ \A p \in Patterns : p.yearly => p.until # None \/ p.count # None
    /\ {Earliest, Latest} \subseteq Int
    /\ Lengths \subseteq Nat
    /\ {Hot, Lead, Retention, Buffer, Duration, MaxOrgs, MaxTime, MaxRules,
        MaxCopies, MaxRequests, MaxFaults, MaxItems} \subseteq Nat
    /\ None \notin Int

VARIABLES
    now,       \* the clock
    windows,   \* event_generation_windows
    rules,     \* recurrence_rules and their templates in events
    rows,      \* recurring_event_instances
    items,     \* action_items that point at an instance
    orphans,   \* action_items whose instance was deleted and set to NULL
    request,   \* what the mutation in flight of each user has read
    jobs,      \* the generation jobs each worker run still has to do
    nextRule,  \* identifiers already given to rules
    made,      \* history: instances ever inserted, per rule and slot
    history,   \* history: per rule, the series it began in and its earliest end
    budget     \* the bounds on requests, faults and items not yet used up

db     == <<windows, rules, rows, items, orphans, nextRule, made, history>>
vars   == <<now, db, request, jobs, budget>>

------------------------------------------------------------------------------
(* Values                                                                  *)

Window == [id : Nat, org : Orgs, end : Int, processedAt : Int]

Rule == [org : Orgs, start : Slots, every : Nat \ {0},
         until : Slots \cup {None}, count : Nat \cup {None}, yearly : BOOLEAN,
         series : RuleIds]

ASSUME NoneIsNoRule == None \notin Rule

Row == [rule : RuleIds, series : RuleIds, slot : Slots, copy : Nat,
        start : Slots, end : Int, cancelled : BOOLEAN]

RowId == RuleIds \X Slots \X Nat

Promise == [root : RuleIds, limit : Int \cup {None}]

Job == [window : Nat, rule : RuleIds, lo : Int, hi : Int,
        phase : {"ready", "read", "filtered"}, found : SUBSET Slots]

Idle == [op |-> "idle"]

RowOps == {"cancel", "move", "cut"}

Request ==
    {Idle}
      \cup [op : {"create"}, org : Orgs, found : BOOLEAN]
      \cup [op : RowOps, row : Row]
      \cup [op : {"split"}, row : Row, rule : Rule]
      \cup [op : {"erase"}, series : RuleIds]

\* The tables, the mutations in flight and the jobs are of the shape their
\* columns and records say.  A job's slots and a rule's end stay on the calendar
\* in every interleaving.
TypeOK ==
    /\ now \in Nat
    /\ windows \subseteq Window
    /\ rules \in [RuleIds -> Rule \cup {None}]
    /\ rows \subseteq Row
    /\ items \subseteq RowId
    /\ orphans \subseteq RowId
    /\ request \in [Users -> Request]
    /\ jobs \in [Workers -> SUBSET Job]
    /\ nextRule \in Nat \ {0}
    /\ made \in [RuleIds -> [Slots -> Nat]]
    /\ history \in [RuleIds -> Promise]
    /\ budget \in [requests : Nat, faults : Nat, items : Nat]

IdOf(row)     == <<row.rule, row.slot, row.copy>>
WindowsOf(o)  == {w \in windows : w.org = o}
Lesser(a, b)  == IF a < b THEN a ELSE b
Greater(a, b) == IF a > b THEN a ELSE b
Dates         == Slots \cap (Earliest..Latest)

\* The earlier of two end dates, None being no end at all.
EarlierEnd(a, b) ==
    CASE a = None -> b
      [] b = None -> a
      [] OTHER    -> Lesser(a, b)

------------------------------------------------------------------------------
(* Recurrence rules and the occurrences they generate                      *)

\* calculateCompletionDateFromCount
CountEnd(rule) ==
    IF rule.count = None THEN None ELSE rule.start + (rule.count - 1) * rule.every + 1

\* normalizeRecurrenceRule: a count becomes an end date, unless there is one.
NormalUntil(rule) == IF rule.until = None THEN CountEnd(rule) ELSE rule.until

\* The dates getNextOccurrenceDate steps to from the start of the series.
OnGrid(rule, s) == s >= rule.start /\ (s - rule.start) % rule.every = 0

\* Fault: the check against the start of the series is forgotten.
OccursAtNoStart(rule, s) ==
    /\ (s - rule.start) % rule.every = 0
    /\ NormalUntil(rule) # None => s < NormalUntil(rule)

\* shouldGenerateInstanceAtDate
OccursAt(rule, s) ==
    /\ OnGrid(rule, s)
    /\ NormalUntil(rule) # None => s < NormalUntil(rule)

\* calculateInstanceOccurrences.  A YEARLY rule ignores the window.
OccurrencesIn(rule, lo, hi) ==
    {s \in Slots :
        /\ OccursAt(rule, s)
        /\ ~rule.yearly =>
              /\ lo <= s /\ s <= hi
              /\ rule.count # None =>
                    (s - rule.start) \div rule.every < rule.count}

\* validateRecurrenceInput
ValidPattern(p, start) == p.until # None => p.until > start

\* The recurrence a rule would be re-created with, as an input.
PatternOf(rule) == [every |-> rule.every, until |-> rule.until,
                    count |-> rule.count, yearly |-> rule.yearly]

RuleFrom(o, start, p, series) ==
    [org |-> o, start |-> start, every |-> p.every, until |-> p.until,
     count |-> p.count, yearly |-> p.yearly, series |-> series]

------------------------------------------------------------------------------
(* Writing instances, action items and generation windows                  *)

\* Fault: existing instances are recognised by where they were moved to.
MissingByStart(r, found, lo, hi) ==
    {s \in found : ~ \E x \in rows : x.rule = r /\ x.start = s /\ lo <= s /\ s <= hi}

\* createNewGeneratedInstances: the occurrences that have no instance yet.
\* Only the instances inside the window are looked at.
Missing(r, found, lo, hi) ==
    {s \in found : ~ \E x \in rows : x.rule = r /\ x.slot = s /\ lo <= s /\ s <= hi}

\* The rows createNewGeneratedInstances inserts for the given slots.
NewRows(r, series, slots) ==
    {[rule |-> r, series |-> series, slot |-> s, copy |-> made[r][s] + 1,
      start |-> s, end |-> s + Duration, cancelled |-> FALSE] : s \in slots}

Insert(r, series, slots, kept) ==
    /\ \A s \in slots : made[r][s] < MaxCopies
    /\ rows' = kept \cup NewRows(r, series, slots)
    /\ made' = [made EXCEPT ![r] =
                  [s \in Slots |-> IF s \in slots THEN @[s] + 1 ELSE @[s]]]

ItemsAt(gone) == items \cap {IdOf(x) : x \in gone}

\* Fault: the mutation forgets the action items of the instances it deletes.
ItemsForgotten(gone) == {}

\* The action items a mutation deletes along with the instances it deletes.
ItemsDeletedWith(gone) == ItemsAt(gone)

\* Instances are deleted, after the action items in "deleted"; the foreign key
\* of the action items that remain sets their instance to NULL.
DeleteRows(gone, deleted) ==
    /\ items' = items \ (deleted \cup ItemsAt(gone))
    /\ orphans' = orphans \cup (ItemsAt(gone) \ deleted)

\* initializeGenerationWindow, in the transaction that creates rule nextRule
NewWindow(o) == [id |-> nextRule, org |-> o, end |-> now + Hot, processedAt |-> now]

WindowsWith(o, found) == IF found THEN windows ELSE windows \cup {NewWindow(o)}

------------------------------------------------------------------------------
(* Initial state: some organizations have had events before.               *)

OldWindow(o) == [id |-> 0, org |-> o, end |-> Hot, processedAt |-> 0]

Init ==
    /\ now = 0
    /\ windows = {OldWindow(o) : o \in Onboarded}
    /\ rules = [r \in RuleIds |-> None]
    /\ rows = {}
    /\ items = {}
    /\ orphans = {}
    /\ request = [u \in Users |-> Idle]
    /\ jobs = [w \in Workers |-> {}]
    /\ nextRule = 1
    /\ made = [r \in RuleIds |-> [s \in Slots |-> 0]]
    /\ history = [r \in RuleIds |-> [root |-> r, limit |-> None]]
    /\ budget = [requests |-> MaxRequests, faults |-> MaxFaults, items |-> MaxItems]

Tick ==
    /\ now < MaxTime
    /\ now' = now + 1
    /\ UNCHANGED <<db, request, jobs, budget>>

\* createActionItem on an instance
AddItem(row) ==
    /\ budget.items > 0
    /\ budget' = [budget EXCEPT !.items = @ - 1]
    /\ items' = items \cup {IdOf(row)}
    /\ UNCHANGED <<now, windows, rules, rows, orphans, nextRule, made, history,
                   request, jobs>>

------------------------------------------------------------------------------
(* Mutations.  Each reads what it works on, checks it, and later runs one  *)
(* transaction with what it read.  A transaction is one step.              *)

Begin(u, r) ==
    /\ request[u] = Idle
    /\ budget.requests > 0
    /\ request' = [request EXCEPT ![u] = r]
    /\ budget' = [budget EXCEPT !.requests = @ - 1]
    /\ UNCHANGED <<now, db, jobs>>

Pending(u, op) == request[u].op = op

Done(u) ==
    /\ request' = [request EXCEPT ![u] = Idle]
    /\ UNCHANGED <<now, jobs, budget>>

\* A failed check, a failed statement or a crash of the server: nothing is kept.
Rollback(u) ==
    /\ request[u] # Idle
    /\ Done(u)
    /\ UNCHANGED db

\* createEvent with a recurrence: the window is looked up outside the transaction.
BeginCreate(u, o) ==
    Begin(u, [op |-> "create", org |-> o, found |-> WindowsOf(o) # {}])

\* deleteSingleEventInstance, updateSingleRecurringEventInstance and
\* deleteThisAndFollowingEvents, none of which accepts a cancelled instance
BeginOnRow(u, row, op) ==
    /\ ~row.cancelled
    /\ Begin(u, [op |-> op, row |-> row])

\* updateThisAndFollowingEvents reads the rule along with the instance.
BeginSplit(u, row) ==
    /\ ~row.cancelled
    /\ Begin(u, [op |-> "split", row |-> row, rule |-> rules[row.rule]])

\* deleteEntireRecurringEventSeries reads the series of the template's rule.
BeginErase(u, r) ==
    /\ rules[r] # None
    /\ Begin(u, [op |-> "erase", series |-> rules[r].series])

\* Fault: the hot window is left to the worker.
CreateHorizonNow(p) ==
    IF p.until # None THEN Lesser(p.until, now) ELSE now

\* createEvent: instances up to the end date or for the hot window.
CreateHorizon(p) ==
    IF p.until # None THEN Lesser(p.until, now + Hot) ELSE now + Hot

\* A template, its rule and its first instances from lo to hi.
NewSeries(rule, root, lo, hi, kept, otherRules, otherHistory) ==
    LET r == nextRule
    IN  /\ r \in RuleIds
        /\ rules' = [otherRules EXCEPT ![r] = rule]
        /\ history' = [otherHistory EXCEPT
                         ![r] = [root |-> root,
                                 limit |-> EarlierEnd(rule.until, CountEnd(rule))]]
        /\ nextRule' = r + 1
        /\ Insert(r, rule.series, OccurrencesIn(rule, lo, hi), kept)

CommitCreate(u, start, p) ==
    LET req == request[u]
    IN  /\ Pending(u, "create")
        /\ ValidPattern(p, start)
        /\ NewSeries(RuleFrom(req.org, start, p, nextRule), nextRule,
                     start, CreateHorizon(p), rows, rules, history)
        /\ windows' = WindowsWith(req.org, req.found)
        /\ Done(u)
        /\ UNCHANGED <<items, orphans>>

\* deleteSingleEventInstance: the instance stays, cancelled, if it still exists.
CommitCancel(u, x) ==
    /\ Pending(u, "cancel")
    /\ IdOf(x) = IdOf(request[u].row)
    /\ rows' = (rows \ {x}) \cup {[x EXCEPT !.cancelled = TRUE]}
    /\ items' = items \ {IdOf(x)}
    /\ Done(u)
    /\ UNCHANGED <<windows, rules, orphans, nextRule, made, history>>

\* updateSingleRecurringEventInstance: the times come from the input, or from
\* the instance as it was read.  A new start alone keeps the length.
CommitMove(u, x) ==
    LET read == request[u].row IN
    /\ Pending(u, "move")
    /\ IdOf(x) = IdOf(read)
    /\ \E start \in Dates \cup {read.start},
           length \in Lengths \cup {read.end - read.start} :
          rows' = (rows \ {x})
                     \cup {[x EXCEPT !.start = start, !.end = start + length]}
    /\ Done(u)
    /\ UNCHANGED <<windows, rules, items, orphans, nextRule, made, history>>

\* Fault: "just before this instance" is a whole slot too early.
CutEndEarly(row) == row.start - 1

\* actualStartTime minus one millisecond: the first slot excluded is its own.
CutEnd(row) == row.start

\* The rule the instance belongs to ends just before it.  The update finds no
\* rule when the series was erased meanwhile.
CutRules(row) ==
    IF rules[row.rule] = None THEN rules
    ELSE [rules EXCEPT ![row.rule].until = CutEnd(row)]

CutHistory(row) ==
    [history EXCEPT ![row.rule].limit = EarlierEnd(@, CutEnd(row))]

\* deleteThisAndFollowingEvents: the instances of the series from this one on
CommitCut(u) ==
    LET cut  == request[u].row
        gone == {x \in rows : x.series = cut.series /\ x.start >= cut.start}
    IN  /\ Pending(u, "cut")
        /\ rules' = CutRules(cut)
        /\ history' = CutHistory(cut)
        /\ rows' = rows \ gone
        /\ DeleteRows(gone, ItemsDeletedWith(gone))
        /\ Done(u)
        /\ UNCHANGED <<windows, nextRule, made>>

\* The instances "this and following" are generated for: hotWindowMonthsAhead
\* from the new start or from now, whichever is earlier.
SplitStart(start) == Lesser(start, now)

\* updateThisAndFollowingEvents: the instances of the rule from this one on are
\* replaced by a new template with a rule, and a series, of its own.  A new
\* template without any instance fails the whole mutation.
SplitAt(u, start, p) ==
    LET cut  == request[u].row
        rule == RuleFrom(request[u].rule.org, start, p, nextRule)
        gone == {x \in rows : x.rule = cut.rule /\ x.start >= cut.start}
        lo   == SplitStart(start)
    IN  /\ ValidPattern(p, start)
        /\ OccurrencesIn(rule, lo, lo + Hot) # {}
        /\ NewSeries(rule, history[cut.rule].root, lo, lo + Hot, rows \ gone,
                     CutRules(cut), CutHistory(cut))
        /\ DeleteRows(gone, ItemsDeletedWith(gone))
        /\ windows' = WindowsWith(rule.org, WindowsOf(rule.org) # {})
        /\ Done(u)

\* The new start and the new recurrence are the old ones unless given.
CommitSplit(u) ==
    /\ Pending(u, "split")
    /\ \E start \in {request[u].row.start} \cup Dates :
       \E p \in {PatternOf(request[u].rule)} \cup Patterns : SplitAt(u, start, p)

\* deleteEntireRecurringEventSeries: it fails when no template is left.
CommitErase(u) ==
    LET s    == request[u].series
        dead == {r \in RuleIds : rules[r] # None /\ rules[r].series = s}
        gone == {x \in rows : x.series = s}
    IN  /\ Pending(u, "erase")
        /\ dead # {}
        /\ rules' = [r \in RuleIds |-> IF r \in dead THEN None ELSE rules[r]]
        /\ rows' = rows \ gone
        /\ DeleteRows(gone, ItemsDeletedWith(gone))
        /\ Done(u)
        /\ UNCHANGED <<windows, nextRule, made, history>>

Mutation(u) ==
    \/ \E o \in Orgs : BeginCreate(u, o)
    \/ \E row \in rows, op \in RowOps : BeginOnRow(u, row, op)
    \/ \E row \in rows : BeginSplit(u, row)
    \/ \E r \in RuleIds : BeginErase(u, r)
    \/ \E start \in Dates, p \in Patterns : CommitCreate(u, start, p)
    \/ \E x \in rows : CommitCancel(u, x)
    \/ \E x \in rows : CommitMove(u, x)
    \/ CommitCut(u)
    \/ CommitSplit(u)
    \/ CommitErase(u)
    \/ Rollback(u)

------------------------------------------------------------------------------
(* The generation worker: one run discovers jobs, the jobs then proceed in  *)
(* any order, each in three steps, no transaction around them.             *)

\* Fault: only windows that have already run out are extended.
DueLate(win) == win.end < now /\ win.processedAt < now

\* findOrganizationsNeedingWork
Due(win) == win.end < now + Lead /\ win.processedAt < now

\* calculateWindowEndDateForEvent
JobEnd(rule) ==
    IF NormalUntil(rule) # None
    THEN Greater(NormalUntil(rule) - 1 + Buffer, now + Hot)
    ELSE now + Hot

\* createEventGenerationJobs for one organization
JobsOf(win) ==
    {[window |-> win.id, rule |-> r, lo |-> win.end, hi |-> JobEnd(rules[r]),
      phase |-> "ready", found |-> {}] :
        r \in {r \in RuleIds : rules[r] # None /\ rules[r].org = win.org}}

\* A run takes at most maxOrganizations windows, all of the same priority.
Discover(w) ==
    LET due == {win \in windows : Due(win)}
    IN  /\ jobs[w] = {}
        /\ \E chosen \in SUBSET due :
              /\ Cardinality(chosen) = Lesser(MaxOrgs, Cardinality(due))
              /\ jobs' = [jobs EXCEPT ![w] = UNION {JobsOf(win) : win \in chosen}]
        /\ UNCHANGED <<now, db, request, budget>>

Advance(w, j, next) == jobs' = [jobs EXCEPT ![w] = (@ \ {j}) \cup next]

\* generateInstancesForRecurringEvent: the rule is read and expanded.
ReadRule(w, j) ==
    /\ j.phase = "ready"
    /\ rules[j.rule] # None
    /\ Advance(w, j, {[j EXCEPT !.phase = "read",
                                !.found = OccurrencesIn(rules[j.rule], j.lo, j.hi)]})
    /\ UNCHANGED <<now, db, request, budget>>

\* createNewGeneratedInstances: existing instances are read and left out.
FilterFound(w, j) ==
    /\ j.phase = "read"
    /\ Advance(w, j, {[j EXCEPT !.phase = "filtered",
                                !.found = Missing(j.rule, j.found, j.lo, j.hi)]})
    /\ UNCHANGED <<now, db, request, budget>>

\* createNewGeneratedInstances: the rest is inserted; the foreign keys need
\* the template and the rule to be there still.
InsertFound(w, j) ==
    /\ j.phase = "filtered"
    /\ rules[j.rule] # None
    /\ Insert(j.rule, rules[j.rule].series, j.found, rows)
    /\ Advance(w, j, {})
    /\ UNCHANGED <<now, windows, rules, items, orphans, nextRule, history,
                   request, budget>>

\* The job fails for good when its rule was deleted.
LoseRule(w, j) ==
    /\ j.phase # "read"
    /\ rules[j.rule] = None
    /\ Advance(w, j, {})
    /\ UNCHANGED <<now, db, request, budget>>

\* Any other failure, or a crash: the run goes on without the job.
FailJob(w, j) ==
    /\ budget.faults > 0
    /\ budget' = [budget EXCEPT !.faults = @ - 1]
    /\ Advance(w, j, {})
    /\ UNCHANGED <<now, db, request>>

JobStep(w, j) ==
    ReadRule(w, j) \/ FilterFound(w, j) \/ InsertFound(w, j) \/ LoseRule(w, j)

Work(w) == Discover(w) \/ \E j \in jobs[w] : JobStep(w, j)

------------------------------------------------------------------------------
(* The cleanup worker                                                      *)

\* Fault: the scheduled time of an instance is taken for its actual time.
ExpiredBySlot(x) == x.slot + Duration < now - Retention

\* actualEndTime before the retention cutoff
Expired(x) == x.end < now - Retention

\* cleanupOrganizationInstances; action items are left to the foreign key.
Cleanup(o) ==
    LET gone == {x \in rows : rules[x.rule].org = o /\ Expired(x)}
    IN  /\ WindowsOf(o) # {}
        /\ gone # {}
        /\ rows' = rows \ gone
        /\ DeleteRows(gone, {})
        /\ UNCHANGED <<now, windows, rules, nextRule, made, history, request,
                       jobs, budget>>

------------------------------------------------------------------------------
Next ==
    \/ Tick
    \/ \E row \in rows : AddItem(row)
    \/ \E u \in Users : Mutation(u)
    \/ \E w \in Workers : Work(w) \/ \E j \in jobs[w] : FailJob(w, j)
    \/ \E o \in Orgs : Cleanup(o)

Spec == Init /\ [][Next]_vars

\* The cron schedule starts a run again and again, and a run that was started
\* goes on; nothing is assumed of the clients, the clock or the cleanup.
FairSpec ==
    /\ Spec
    /\ \A w \in Workers :
          WF_vars(Discover(w)) /\ WF_vars(\E j \in jobs[w] : JobStep(w, j))

------------------------------------------------------------------------------
(* Properties                                                              *)

\* The occurrences rule r still has: those before every end it ever had.
Owes(r, s) ==
    /\ rules[r] # None
    /\ OccursAt(rules[r], s)
    /\ history[r].limit # None => s < history[r].limit

\* One occurrence of a series is never on the calendar twice: generation finds
\* what exists before it inserts (no unique index backs this up).
NoDuplicates ==
    \A a, b \in rows : a.rule = b.rule /\ a.slot = b.slot => a = b

\* The worker starts each window where the organization's window ended when it
\* was created.  So whatever lies before that must have been generated by the
\* very mutation that created the series or split it.
NothingLeftBehind ==
    \A win \in windows, r \in RuleIds, s \in Slots :
        Owes(r, s) /\ rules[r].org = win.org /\ s < win.end => made[r][s] > 0

\* Every instance belongs to a template and a rule that exist, carries that
\* rule's series, and is scheduled at a slot of that rule: inserts by a job
\* that read a rule cut, replaced or erased since then do not break this.
RowsMatchRules ==
    \A x \in rows :
        /\ rules[x.rule] # None
        /\ x.series = rules[x.rule].series
        /\ OnGrid(rules[x.rule], x.slot)

\* Templates that come from splitting one series are still one series, so that
\* "delete this and following" and "delete entire series" reach all of them.
SplitsShareSeries ==
    \A q, r \in RuleIds :
        /\ rules[q] # None /\ rules[r] # None
        /\ history[q].root = history[r].root
        => rules[q].series = rules[r].series

Gone(x)  == \A y \in rows' : IdOf(y) # IdOf(x)
Added(x) == \A y \in rows : IdOf(y) # IdOf(x)

Commits(u, op) == Pending(u, op) /\ request'[u] = Idle

\* An instance disappears only because it ended before the retention cutoff,
\* or because a client deleted its series, or cut its series or its rule at or
\* before its start.
Justified(x) ==
    \/ x.end < now - Retention
    \/ \E u \in Users :
          \/ Commits(u, "erase") /\ request[u].series = x.series
          \/ /\ Commits(u, "cut") \/ Commits(u, "split")
             /\ request[u].row.series = x.series
             /\ request[u].row.start <= x.start

NoRowLost == [][\A x \in rows : Gone(x) => Justified(x)]_vars

\* A mutation takes the action items of the instances it deletes with it: only
\* the retention of history leaves an action item without its instance.
OrphansOnlyByRetention ==
    [][orphans' # orphans =>
         \E x \in rows : Gone(x) /\ IdOf(x) \in items /\ x.end < now - Retention]_vars

\* Once a series was cut, nothing is generated for it beyond its new end.
CutIsFinal ==
    [][\A x \in rows' : Added(x) => OccursAt(rules'[x.rule], x.slot)]_vars

\* Every occurrence is on the calendar, at the latest, some time after it has
\* come within the look-ahead of the worker (or it is no longer owed).
LeadKept ==
    \A r \in RuleIds, s \in Slots :
        (Owes(r, s) /\ s <= now + Lead) ~> (made[r][s] > 0 \/ ~Owes(r, s))
==============================================================================
