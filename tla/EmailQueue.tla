----------------------------- MODULE EmailQueue -----------------------------
(***************************************************************************)
(* The e-mail queue of the API: rows of email_notifications, written by    *)
(* the notification engine, and the processor that every server runs from  *)
(* an interval timer (services/email/EmailQueueProcessor.ts).  One server  *)
(* process is modelled; it may stop, crash and be started again.  A call   *)
(* of processPendingEmails is split at its awaits: the read of the batch,  *)
(* the answers of the provider, and one update of a row per answer.  Rows  *)
(* disappear with the user they are addressed to, at any time.             *)
(***************************************************************************)
EXTENDS Naturals, FiniteSets

CONSTANTS
    Mails,          \* e-mail notifications that can be created
    Addressed,      \* those with a userId; the others go to external addresses
    Calls,          \* calls of processPendingEmails that can be in flight
    None,           \* no row
    BatchSize,      \* rows one call reads at most (10 in the code)
    MaxRetries,     \* maxRetries of every row (3 in the code)
    MaxFaults       \* bound on crashes, failing updates and lost answers

ASSUME BatchAssumption == BatchSize \in Nat \ {0}
ASSUME RetriesAssumption == MaxRetries \in Nat \ {0}
ASSUME FaultsAssumption == MaxFaults \in Nat
ASSUME AddressedAssumption == Addressed \subseteq Mails

Row == [status : {"pending", "sent", "failed"},
        retryCount : Nat, createdAt : Nat]

ASSUME NoneIsNoRow == None \notin Row

VARIABLES
    rows,           \* the table: rows[m] is the row of m, or None
    clock,          \* stands for the time that createdAt is taken from
    server,         \* the process: "down", "up" (its timer runs), "closing"
    isProcessing,   \* the flag of the processor
    calls,          \* what each call of processPendingEmails has in memory
    tries,          \* history: how often the provider was asked to send m
    accepted,       \* history: how often it took m
    gone,           \* history: the mails whose row was deleted
    faults          \* history: crashes, failed updates, answers lost

vars == <<rows, clock, server, isProcessing, calls, tries, accepted, gone,
          faults>>

\* A call in flight: the mails whose result is not recorded yet, the rows as
\* they were read, and the answers of the provider.
Call == [pc : {"idle", "sending", "recording"},
         left : SUBSET Mails, read : [Mails -> Row \cup {None}],
         answered : SUBSET Mails, ok : SUBSET Mails]

Idle == [pc |-> "idle", left |-> {}, read |-> [m \in Mails |-> None],
         answered |-> {}, ok |-> {}]

Queued == {m \in Mails : rows[m] # None}
Pending == {m \in Queued : rows[m].status = "pending"}

Init ==
    /\ rows = [m \in Mails |-> None]
    /\ clock = 0
    /\ server = "down"
    /\ isProcessing = FALSE
    /\ calls = [c \in Calls |-> Idle]
    /\ tries = [m \in Mails |-> 0]
    /\ accepted = [m \in Mails |-> 0]
    /\ gone = {}
    /\ faults = 0

------------------------------------------------------------------------------
(* The notification engine, and the deletion of users                      *)

\* createEmailNotifications and createDirectEmailNotification insert the rows
\* of a notification with one statement.
Enqueue ==
    \E some \in SUBSET (Mails \ (Queued \cup gone)) :
        /\ some # {}
        /\ rows' = [m \in Mails |->
                       IF m \in some
                       THEN [status |-> "pending", retryCount |-> 0,
                             createdAt |-> clock]
                       ELSE rows[m]]
        /\ clock' = clock + 1
        /\ UNCHANGED <<server, isProcessing, calls, tries, accepted, gone, faults>>

\* deleteUser, deleteCurrentUser: the foreign keys of the table delete the rows
\* of the user, pending or settled, with those that a call has read.
DeleteUser ==
    \E some \in SUBSET (Queued \cap Addressed) :
        /\ some # {}
        /\ rows' = [m \in Mails |-> IF m \in some THEN None ELSE rows[m]]
        /\ gone' = gone \cup some
        /\ UNCHANGED <<clock, server, isProcessing, calls, tries, accepted,
                       faults>>

------------------------------------------------------------------------------
(* The process                                                             *)

\* A new process registers the plugin, which starts the timer.
Start ==
    /\ server = "down"
    /\ server' = "up"
    /\ UNCHANGED <<rows, clock, isProcessing, calls, tries, accepted, gone, faults>>

\* The server is closed: the timer is cleared, a call in flight goes on.
Stop ==
    /\ server = "up"
    /\ server' = "closing"
    /\ UNCHANGED <<rows, clock, isProcessing, calls, tries, accepted, gone, faults>>

\* The process ends, after Stop or by a crash, with what it had in memory.
\* Ending in the middle of a call is a fault.
Exit ==
    LET interrupted == \E c \in Calls : calls[c].pc # "idle" IN
    /\ server # "down"
    /\ interrupted => faults < MaxFaults
    /\ server' = "down"
    /\ isProcessing' = FALSE
    /\ calls' = [c \in Calls |-> Idle]
    /\ faults' = IF interrupted THEN faults + 1 ELSE faults
    /\ UNCHANGED <<rows, clock, tries, accepted, gone>>

------------------------------------------------------------------------------
(* processPendingEmails                                                    *)

\* The rows a query ordered by createdAt with a limit may return: ties are
\* broken as the database likes.
Oldest(some) ==
    {batch \in SUBSET some :
        /\ Cardinality(batch) <= BatchSize
        /\ batch # some => Cardinality(batch) = BatchSize
        /\ \A m \in batch, n \in some \ batch :
              rows[m].createdAt <= rows[n].createdAt}

\* Fault: the flag is not looked at, so that calls overlap.
MayProcessAlways == TRUE

\* A call that finds another one of the process in flight returns at once.
MayProcess == ~isProcessing

\* The timer fires.  With nothing pending the call returns at once, which
\* changes nothing.  Any idle call will do for a new one.
Tick(c) ==
    /\ server = "up"
    /\ MayProcess
    /\ calls[c].pc = "idle"
    /\ c = CHOOSE d \in Calls : calls[d].pc = "idle"
    /\ \E batch \in Oldest(Pending) :
          /\ batch # {}
          /\ calls' = [calls EXCEPT ![c] =
                          [pc |-> "sending", left |-> batch,
                           read |-> [m \in Mails |-> IF m \in batch
                                                     THEN rows[m] ELSE None],
                           answered |-> {}, ok |-> {}]]
    /\ isProcessing' = TRUE
    /\ UNCHANGED <<rows, clock, server, tries, accepted, gone, faults>>

\* The provider deals with one job of the batch; the jobs are sent at the same
\* time, so in any order.  An error, a time-out or a lost answer is a result
\* without success, whether the mail was taken or not.  The call goes on when
\* every job has its result.
Answer(c, m, taken, success) ==
    /\ calls[c].pc = "sending"
    /\ m \in calls[c].left \ calls[c].answered
    /\ success => taken
    /\ taken /\ ~success => faults < MaxFaults
    /\ LET answered == calls[c].answered \cup {m} IN
       calls' = [calls EXCEPT
                    ![c].answered = answered,
                    ![c].ok = IF success THEN @ \cup {m} ELSE @,
                    ![c].pc = IF answered = calls[c].left
                              THEN "recording" ELSE @]
    /\ tries' = [tries EXCEPT ![m] = @ + 1]
    /\ accepted' = IF taken THEN [accepted EXCEPT ![m] = @ + 1] ELSE accepted
    /\ faults' = IF taken /\ ~success THEN faults + 1 ELSE faults
    /\ UNCHANGED <<rows, clock, server, isProcessing, gone>>

\* Fault: the comparison with maxRetries is off by one.
HandleEmailFailureLate(row, read) ==
    IF read.retryCount >= MaxRetries
    THEN [row EXCEPT !.status = "failed"]
    ELSE [row EXCEPT !.retryCount = read.retryCount + 1]

\* Fault: a failure writes a status of its own.
HandleEmailFailureRetrying(row, read) == [row EXCEPT !.status = "retrying"]

\* Fault: a first failure gives the mail up.
HandleEmailFailureFirst(row, read) == [row EXCEPT !.status = "failed"]

\* handleEmailFailure: the count is the one that was read, the last failure
\* does not write it.
HandleEmailFailure(row, read) ==
    IF read.retryCount + 1 >= MaxRetries
    THEN [row EXCEPT !.status = "failed"]
    ELSE [row EXCEPT !.retryCount = read.retryCount + 1]

\* Fault: an update that throws does not reset the flag.
FinishWithoutReset(c) ==
    /\ calls' = [calls EXCEPT ![c] = Idle]
    /\ isProcessing' = isProcessing

\* The call after its last update or an error: the finally block.
Finish(c) ==
    /\ calls' = [calls EXCEPT ![c] = Idle]
    /\ isProcessing' = FALSE

\* What the update for an answer makes of a row
Recorded(row, read, success) ==
    IF success THEN [row EXCEPT !.status = "sent"]
               ELSE HandleEmailFailure(row, read)

\* One turn of the loop over the results, which are in the order of the batch.
\* The update of a row that was deleted meanwhile finds nothing.
Record(c, m) ==
    /\ calls[c].pc = "recording"
    /\ m \in calls[c].left
    /\ \A n \in calls[c].left :
          calls[c].read[m].createdAt <= calls[c].read[n].createdAt
    /\ rows' = [rows EXCEPT ![m] =
                   IF m \in gone THEN @
                   ELSE Recorded(@, calls[c].read[m], m \in calls[c].ok)]
    /\ IF calls[c].left = {m}
       THEN Finish(c)
       ELSE /\ calls' = [calls EXCEPT ![c].left = @ \ {m}]
            /\ UNCHANGED isProcessing
    /\ UNCHANGED <<clock, server, tries, accepted, gone, faults>>

\* An update throws: the rest of the loop is skipped.
RecordFails(c) ==
    /\ calls[c].pc = "recording"
    /\ faults < MaxFaults
    /\ faults' = faults + 1
    /\ Finish(c)
    /\ UNCHANGED <<rows, clock, server, tries, accepted, gone>>

------------------------------------------------------------------------------

Work(c) == \/ Tick(c)
           \/ \E m \in Mails, taken, success \in BOOLEAN :
                 Answer(c, m, taken, success)
           \/ \E m \in Mails : Record(c, m)

Next ==
    \/ Enqueue \/ DeleteUser \/ Start \/ Stop \/ Exit
    \/ \E c \in Calls : Work(c) \/ RecordFails(c)

\* The timer fires again and again, and what was awaited comes back.
Fairness == WF_vars(\E c \in Calls : Work(c))

Spec == Init /\ [][Next]_vars /\ Fairness

------------------------------------------------------------------------------
(* Properties                                                              *)

\* The type of the table, of what is in memory and of the history
TypeOK ==
    /\ rows \in [Mails -> Row \cup {None}]
    /\ clock \in Nat
    /\ server \in {"down", "up", "closing"}
    /\ isProcessing \in BOOLEAN
    /\ calls \in [Calls -> Call]
    /\ tries \in [Mails -> Nat]
    /\ accepted \in [Mails -> Nat]
    /\ gone \in SUBSET Mails
    /\ faults \in Nat

\* What a call has in memory stays true while it waits, unless the row is
\* deleted: a mail it has not recorded is still pending, in the row that was
\* read before the awaits.
ReadIsCurrent ==
    \A c \in Calls : \A m \in calls[c].left \ gone :
        m \in Pending /\ rows[m] = calls[c].read[m]

\* The provider takes a mail at most once, and once more for every crash in
\* the middle of a call, update that failed and answer that was lost.
DuplicatesExplained == \A m \in Mails : accepted[m] <= 1 + faults

\* The provider is asked at most maxRetries times, and once more for every
\* fault: retryCount, written from what was read, misses no other attempt.
RetriesBounded == \A m \in Mails : tries[m] <= MaxRetries + faults

\* The mails of deleted rows that a call will still hand to the provider
Leaving == {m \in gone : \E c \in Calls :
               m \in calls[c].left \ calls[c].answered}

\* The state of a mail as those who queued it see it
Outcome ==
    [m \in Mails |-> IF m \in Leaving THEN "leaving"
                     ELSE IF m \in gone THEN "withdrawn"
                     ELSE IF m \notin Queued THEN "absent"
                     ELSE IF m \in Pending THEN "waiting"
                     ELSE rows[m].status]

\* The queue implements Delivery: it asks the provider only for mails that
\* wait, settles each of them once, with a reason, and sends nothing to a
\* user who was deleted but for what a call had read before.
Promise == INSTANCE Delivery WITH outcome <- Outcome

Delivers == Promise!Spec

\* Every mail in the queue is in the end sent, given up or deleted with its
\* user, once the server stays up: no mail waits forever behind others, with
\* a count that does not grow, or for a call stuck on a row that is gone.
Settles ==
    <>[](server = "up") =>
        \A m \in Mails : m \in Queued ~> m \in (Queued \ Pending) \cup gone
=============================================================================
