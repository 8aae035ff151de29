------------------------------ MODULE Delivery ------------------------------
(***************************************************************************)
(* What the queue of e-mails promises to those who put mails into it,      *)
(* without rows, batches, processors or a database: a mail waits, attempts *)
(* are made only while it waits, it settles once, as sent only when the    *)
(* provider took it and as failed only when enough attempts were made.  It *)
(* may be withdrawn at any time; one attempt at most is made after that.   *)
(***************************************************************************)
EXTENDS Naturals

CONSTANTS
    Mails,          \* the mails that can be put into the queue
    MaxRetries      \* maxRetries of a row

VARIABLES
    outcome,        \* outcome[m]: "absent", "waiting", "sent", "failed",
                    \* "withdrawn", or "leaving" before the last attempt
    tries,          \* tries[m]: how often the provider was asked
    accepted        \* accepted[m]: how often the provider took the mail

vars == <<outcome, tries, accepted>>

Init ==
    /\ outcome = [m \in Mails |-> "absent"]
    /\ tries = [m \in Mails |-> 0]
    /\ accepted = [m \in Mails |-> 0]

\* Some mails are put into the queue, all at once.
Queue ==
    \E some \in SUBSET Mails :
        /\ \A m \in some : outcome[m] = "absent"
        /\ outcome' = [m \in Mails |->
                          IF m \in some THEN "waiting" ELSE outcome[m]]
        /\ UNCHANGED <<tries, accepted>>

\* The provider is asked to send a mail that waits; it may take it.
Attempt(m) ==
    /\ outcome[m] = "waiting"
    /\ tries' = [tries EXCEPT ![m] = @ + 1]
    /\ accepted' \in {accepted, [accepted EXCEPT ![m] = @ + 1]}
    /\ UNCHANGED outcome

\* The attempt that was under way when the mail was withdrawn is made.
LastAttempt(m) ==
    /\ outcome[m] = "leaving"
    /\ outcome' = [outcome EXCEPT ![m] = "withdrawn"]
    /\ tries' = [tries EXCEPT ![m] = @ + 1]
    /\ accepted' \in {accepted, [accepted EXCEPT ![m] = @ + 1]}

\* Some mails are withdrawn, all at once, whether they wait or are settled.
\* Those that wait may have an attempt under way.
Withdraw ==
    \E some, leaving \in SUBSET Mails :
        /\ \A m \in some : outcome[m] \in {"waiting", "sent", "failed"}
        /\ \A m \in leaving : m \in some /\ outcome[m] = "waiting"
        /\ outcome' = [m \in Mails |-> IF m \in leaving THEN "leaving"
                                       ELSE IF m \in some THEN "withdrawn"
                                       ELSE outcome[m]]
        /\ UNCHANGED <<tries, accepted>>

\* The attempts under way at withdrawn mails are not made after all.
Forget ==
    /\ outcome' = [m \in Mails |-> IF outcome[m] = "leaving" THEN "withdrawn"
                                   ELSE outcome[m]]
    /\ UNCHANGED <<tries, accepted>>

\* A mail that waits is settled, once, and with a reason.
Settle(m) ==
    /\ outcome[m] = "waiting"
    /\ \/ accepted[m] > 0 /\ outcome' = [outcome EXCEPT ![m] = "sent"]
       \/ tries[m] >= MaxRetries /\ outcome' = [outcome EXCEPT ![m] = "failed"]
    /\ UNCHANGED <<tries, accepted>>

Next ==
    \/ Queue \/ Withdraw \/ Forget
    \/ \E m \in Mails : Attempt(m) \/ LastAttempt(m) \/ Settle(m)

Spec == Init /\ [][Next]_vars
=============================================================================
