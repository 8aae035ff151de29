-------------------------- MODULE EmailQueue_proofs --------------------------
(***************************************************************************)
(* Proofs about EmailQueue.                                                *)
(***************************************************************************)
EXTENDS EmailQueue, TLAPS

\* At most one call is in flight, and the flag is set while it is.
OneCall ==
    \A c \in Calls : calls[c].pc # "idle" =>
        /\ isProcessing
        /\ \A d \in Calls : calls[d].pc # "idle" => d = c

\* A call has nothing in memory when it is idle, and every answer when it
\* records.
Shape ==
    \A c \in Calls :
        /\ calls[c].pc = "idle" => calls[c].left = {}
        /\ calls[c].ok \subseteq calls[c].answered
        /\ calls[c].pc = "recording" => calls[c].left \subseteq calls[c].answered

\* The mails whose answer is in memory and not recorded, and those of them
\* that were sent
Asked == {m \in Mails : \E c \in Calls :
             m \in calls[c].left /\ m \in calls[c].answered}
Taken == {m \in Mails : \E c \in Calls :
             m \in calls[c].left /\ m \in calls[c].ok}

\* What the history says of the row of a mail
Counted(m) ==
    /\ m \notin Queued \cup gone => accepted[m] = 0 /\ tries[m] = 0
    /\ m \in Pending => rows[m].retryCount < MaxRetries
    /\ m \in Pending /\ m \notin Asked =>
          /\ accepted[m] <= faults
          /\ tries[m] <= rows[m].retryCount + faults
          /\ tries[m] >= rows[m].retryCount
    /\ m \in Pending /\ m \in Asked =>
          /\ tries[m] <= rows[m].retryCount + 1 + faults
          /\ tries[m] >= rows[m].retryCount + 1
          /\ accepted[m] <= IF m \in Taken THEN 1 + faults ELSE faults
          /\ m \in Taken => accepted[m] > 0
    /\ m \in Queued \ Pending =>
          /\ accepted[m] <= 1 + faults
          /\ tries[m] <= MaxRetries + faults
    /\ m \in gone => /\ m \notin Queued
                     /\ accepted[m] <= 1 + faults
                     /\ tries[m] <= MaxRetries + faults
    /\ m \in Leaving => /\ accepted[m] <= faults
                        /\ tries[m] < MaxRetries + faults

Counts == \A m \in Mails : Counted(m)

\* The inductive invariant of the queue
QueueInv == TypeOK /\ OneCall /\ Shape /\ ReadIsCurrent /\ Counts

------------------------------------------------------------------------------

\* The constants have the types that the arithmetic of the queue needs.
LEMMA ConstantsTyped ==
    /\ MaxRetries \in Nat /\ MaxRetries > 0
    /\ None \notin Row
  BY RetriesAssumption, NoneIsNoRow

\* A queue without mails satisfies the invariant.
LEMMA InitHolds == Init => QueueInv
  <1> SUFFICES ASSUME Init PROVE QueueInv
    OBVIOUS
  <1>1. Idle \in Call
    BY DEF Idle, Call
  <1>2. TypeOK
    BY <1>1 DEF Init, TypeOK
  <1>3. OneCall /\ Shape /\ ReadIsCurrent
    BY DEF Init, OneCall, Shape, ReadIsCurrent, Idle
  <1>4. Queued = {} /\ Pending = {} /\ Leaving = {} /\ gone = {}
    BY DEF Init, Queued, Pending, Leaving
  <1>5. Counts
    BY <1>4 DEF Init, Counts, Counted
  <1> QED
    BY <1>2, <1>3, <1>5 DEF QueueInv

\* The notification engine inserts rows.
LEMMA EnqueueKeeps == QueueInv /\ Enqueue => QueueInv'
  <1> SUFFICES ASSUME QueueInv, Enqueue PROVE QueueInv'
    OBVIOUS
  <1> USE DEF QueueInv
  <1>1. PICK some \in SUBSET (Mails \ (Queued \cup gone)) :
           /\ rows' = [m \in Mails |->
                          IF m \in some
                          THEN [status |-> "pending", retryCount |-> 0,
                                createdAt |-> clock]
                          ELSE rows[m]]
           /\ clock' = clock + 1
           /\ UNCHANGED <<server, isProcessing, calls, tries, accepted, gone,
                          faults>>
    BY DEF Enqueue
  <1>2. TypeOK'
    BY <1>1 DEF TypeOK, Row
  <1>3. \A m \in Mails : m \notin some => rows'[m] = rows[m]
    BY <1>1
  <1>4. Queued' = Queued \cup some /\ Pending' = Pending \cup some
    BY <1>1, ConstantsTyped DEF Queued, Pending, Row, TypeOK
  <1>5. OneCall' /\ Shape'
    BY <1>1 DEF OneCall, Shape
  <1>6. ReadIsCurrent'
    BY <1>1, <1>3, <1>4 DEF ReadIsCurrent, Pending, TypeOK, Call
  <1>7. Asked' = Asked /\ Taken' = Taken /\ Leaving' = Leaving
    BY <1>1 DEF Asked, Taken, Leaving
  <1>8. ASSUME NEW m \in Mails PROVE Counted(m)'
    <2>1. CASE m \in some
      <3>1. m \notin Asked
        BY <1>1, <2>1 DEF Asked, ReadIsCurrent, Pending
      <3>2. rows'[m].retryCount = 0 /\ rows'[m].status = "pending"
        BY <1>1, <2>1
      <3>3. accepted[m] = 0 /\ tries[m] = 0
        BY <1>1, <2>1 DEF Counts, Counted
      <3>4. m \notin gone /\ m \notin Leaving
        BY <1>1, <2>1 DEF Leaving
      <3> QED
        BY <1>1, <1>4, <1>7, <2>1, <3>1, <3>2, <3>3, <3>4, ConstantsTyped
           DEF Counted, TypeOK
    <2>2. CASE m \notin some
      BY <1>1, <1>3, <1>4, <1>7, <2>2 DEF Counts, Counted
    <2> QED
      BY <2>1, <2>2
  <1> QED
    BY <1>2, <1>5, <1>6, <1>8 DEF Counts

\* Starting or stopping the timer concerns no row and no call.
LEMMA TimerKeeps == QueueInv /\ (Start \/ Stop) => QueueInv'
  BY DEF QueueInv, Start, Stop, TypeOK, OneCall, Shape, ReadIsCurrent, Counts,
         Counted, Queued, Pending, Asked, Taken, Leaving

\* A user is deleted, with rows that calls have read or not.
LEMMA DeleteUserKeeps == QueueInv /\ DeleteUser => QueueInv'
  <1> SUFFICES ASSUME QueueInv, DeleteUser PROVE QueueInv'
    OBVIOUS
  <1> USE DEF QueueInv
  <1>1. PICK some \in SUBSET (Queued \cap Addressed) :
           /\ rows' = [m \in Mails |-> IF m \in some THEN None ELSE rows[m]]
           /\ gone' = gone \cup some
           /\ UNCHANGED <<clock, server, isProcessing, calls, tries, accepted,
                          faults>>
    BY DEF DeleteUser
  <1>2. some \subseteq Mails
    BY <1>1 DEF Queued
  <1>3. TypeOK'
    BY <1>1, <1>2 DEF TypeOK
  <1>4. Queued' = Queued \ some /\ Pending' = Pending \ some
    BY <1>1 DEF Queued, Pending
  <1>5. OneCall' /\ Shape'
    BY <1>1 DEF OneCall, Shape
  <1>6. ReadIsCurrent'
    <2>1. \A m \in Mails : m \notin some => rows'[m] = rows[m]
      BY <1>1
    <2> QED
      BY <1>1, <1>4, <2>1 DEF ReadIsCurrent, Pending, Queued
  <1>7. Asked' = Asked /\ Taken' = Taken
    BY <1>1 DEF Asked, Taken
  <1>8. Asked \cap Leaving' = {}
    BY <1>1 DEF Asked, Leaving, OneCall, Shape
  <1>9. ASSUME NEW m \in Mails PROVE Counted(m)'
    <2>1. /\ Counted(m) /\ accepted[m] \in Nat /\ tries[m] \in Nat
          /\ faults \in Nat
          /\ m \in Queued => rows[m].retryCount \in Nat
      BY DEF Counts, TypeOK, Queued, Row
    <2>2. Pending \subseteq Queued
      BY DEF Pending
    <2>3. CASE m \in some
      <3>1. m \in Queued /\ m \in gone' /\ m \notin Queued' /\ m \notin Pending'
        BY <1>1, <1>4, <2>3
      <3>2. tries'[m] = tries[m] /\ accepted'[m] = accepted[m] /\ faults' = faults
        BY <1>1
      <3>3. accepted[m] <= 1 + faults /\ tries[m] <= MaxRetries + faults
        BY <2>1, <3>1, ConstantsTyped DEF Counted
      <3>4. ASSUME m \in Leaving'
            PROVE  accepted[m] <= faults /\ tries[m] < MaxRetries + faults
        <4>1. m \in Pending /\ m \notin Asked
          <5>1. m \notin gone
            BY <2>1, <3>1 DEF Counted
          <5> QED
            BY <1>1, <1>8, <3>4, <5>1 DEF Leaving, ReadIsCurrent
        <4> QED
          BY <2>1, <2>2, <4>1, ConstantsTyped DEF Counted
      <3> QED
        BY <3>1, <3>2, <3>3, <3>4 DEF Counted
    <2>4. CASE m \notin some
      <3>1. /\ rows'[m] = rows[m] /\ (m \in gone' <=> m \in gone)
            /\ (m \in Queued' <=> m \in Queued) /\ (m \in Pending' <=> m \in Pending)
            /\ (m \in Leaving' <=> m \in Leaving)
        BY <1>1, <1>4, <2>4 DEF Leaving
      <3> QED
        BY <1>1, <1>7, <2>1, <3>1 DEF Counted
    <2> QED
      BY <2>3, <2>4
  <1> QED
    BY <1>3, <1>5, <1>6, <1>9 DEF Counts

\* Without calls in flight the counts hold with one fault more, or with as
\* many when there were none.
LEMMA ForgottenCounts ==
    ASSUME QueueInv, NEW m \in Mails, rows' = rows, tries' = tries,
           accepted' = accepted, gone' = gone, Asked' = {}, Leaving' = {},
           faults' \in Nat,
           \/ faults' = faults + 1
           \/ faults' = faults /\ m \notin Asked
    PROVE  Counted(m)'
  <1>1. Counted(m) /\ faults \in Nat /\ accepted[m] \in Nat /\ tries[m] \in Nat
    BY DEF QueueInv, Counts, TypeOK
  <1>2. m \in Queued => rows[m] \in Row /\ rows[m].retryCount \in Nat
    BY DEF QueueInv, TypeOK, Queued, Row
  <1>3. Queued' = Queued /\ Pending' = Pending /\ Pending \subseteq Queued
    BY DEF Queued, Pending
  <1> QED
    BY <1>1, <1>2, <1>3, ConstantsTyped DEF Counted

\* A process that ends forgets its calls.
LEMMA ExitKeeps == QueueInv /\ Exit => QueueInv'
  <1> SUFFICES ASSUME QueueInv, Exit PROVE QueueInv'
    OBVIOUS
  <1>1. /\ calls' = [c \in Calls |-> Idle] /\ rows' = rows /\ tries' = tries
        /\ accepted' = accepted /\ gone' = gone /\ isProcessing' = FALSE
    BY DEF Exit
  <1>2. TypeOK'
    <2>1. Idle \in Call
      BY DEF Idle, Call
    <2>2. calls' \in [Calls -> Call]
      BY <1>1, <2>1
    <2>3. faults' \in Nat
      BY DEF QueueInv, Exit, TypeOK
    <2> QED
      BY <2>2, <2>3 DEF QueueInv, Exit, TypeOK
  <1>3. OneCall' /\ Shape' /\ ReadIsCurrent'
    BY <1>1 DEF OneCall, Shape, ReadIsCurrent, Idle
  <1>4. Asked' = {} /\ Leaving' = {}
    BY <1>1 DEF Asked, Leaving, Idle
  <1>5. \A m \in Mails : \/ faults' = faults + 1
                         \/ faults' = faults /\ m \notin Asked
    <2>1. CASE \E c \in Calls : calls[c].pc # "idle"
      BY <2>1 DEF Exit
    <2>2. CASE ~\E c \in Calls : calls[c].pc # "idle"
      BY <2>2 DEF Exit, Asked, QueueInv, Shape
    <2> QED
      BY <2>1, <2>2
  <1>6. faults' \in Nat
    BY <1>2 DEF TypeOK
  <1> QED
    BY <1>1, <1>2, <1>3, <1>4, <1>5, <1>6, ForgottenCounts DEF QueueInv, Counts

\* The rows of a batch are pending.
LEMMA OldestPending ==
    ASSUME NEW batch \in Oldest(Pending) PROVE batch \subseteq Pending
  BY DEF Oldest

\* A call begins, and there is no other.
LEMMA TickKeeps ==
    ASSUME QueueInv, NEW c \in Calls, Tick(c) PROVE QueueInv'
  <1>1. PICK batch \in Oldest(Pending) :
           calls' = [calls EXCEPT ![c] =
                        [pc |-> "sending", left |-> batch,
                         read |-> [m \in Mails |-> IF m \in batch
                                                   THEN rows[m] ELSE None],
                         answered |-> {}, ok |-> {}]]
    BY DEF Tick
  <1>2. batch \subseteq Pending /\ Pending \subseteq Mails
    BY <1>1, OldestPending DEF Pending, Queued
  <1>3. /\ isProcessing' = TRUE /\ rows' = rows /\ tries' = tries
        /\ accepted' = accepted /\ faults' = faults /\ gone' = gone
        /\ Queued' = Queued /\ Pending' = Pending
    BY DEF Tick, Queued, Pending
  <1>4. \A d \in Calls : calls[d].pc = "idle" /\ calls[d].left = {}
    BY DEF QueueInv, OneCall, Shape, Tick, MayProcess
  <1> DEFINE read == [m \in Mails |-> IF m \in batch THEN rows[m] ELSE None]
  <1>5. read \in [Mails -> Row \cup {None}]
    BY <1>2 DEF QueueInv, TypeOK, Row, Pending, Queued
  <1> HIDE DEF read
  <1>6. /\ calls'[c] = [pc |-> "sending", left |-> batch, read |-> read,
                        answered |-> {}, ok |-> {}]
        /\ \A d \in Calls \ {c} : calls'[d] = calls[d]
        /\ calls' \in [Calls -> Call]
    BY <1>1, <1>2, <1>5 DEF QueueInv, TypeOK, Call, read
  <1>7. TypeOK'
    BY <1>3, <1>6 DEF Tick, QueueInv, TypeOK
  <1>8. OneCall' /\ Shape'
    <2>1. \A d \in Calls : calls'[d].pc # "idle" => d = c
      BY <1>4, <1>6
    <2>2. OneCall'
      BY <1>3, <2>1 DEF OneCall
    <2>3. ASSUME NEW d \in Calls
          PROVE  /\ calls'[d].pc = "idle" => calls'[d].left = {}
                 /\ calls'[d].ok \subseteq calls'[d].answered
                 /\ calls'[d].pc = "recording" =>
                       calls'[d].left \subseteq calls'[d].answered
      BY <1>4, <1>6 DEF QueueInv, Shape
    <2> QED
      BY <2>2, <2>3 DEF Shape
  <1>9. ReadIsCurrent'
    <2>1. \A m \in batch : m \in Pending' /\ rows'[m] = read[m]
      BY <1>2, <1>3 DEF read
    <2> QED
      BY <1>3, <1>4, <1>6, <2>1 DEF ReadIsCurrent
  <1>10. Asked' = {} /\ Asked = {} /\ Leaving' = {} /\ Leaving = {}
    <2>1. batch \cap gone = {}
      BY <1>2 DEF QueueInv, Counts, Counted, Pending
    <2> QED
      BY <1>3, <1>4, <1>6, <2>1 DEF Asked, Leaving
  <1>11. Counts'
    BY <1>3, <1>10, ConstantsTyped DEF QueueInv, Counts, Counted
  <1> QED
    BY <1>7, <1>8, <1>9, <1>11 DEF QueueInv

\* The provider answers for one mail of a call.
LEMMA AnswerKeeps ==
    ASSUME QueueInv, NEW c \in Calls, NEW m \in Mails,
           NEW taken \in BOOLEAN, NEW success \in BOOLEAN,
           Answer(c, m, taken, success)
    PROVE  QueueInv'
  <1> DEFINE old == calls[c]
             answered == old.answered \cup {m}
             ok == IF success THEN old.ok \cup {m} ELSE old.ok
             pc == IF answered = old.left THEN "recording" ELSE old.pc
  <1>1. /\ old.pc = "sending" /\ m \in old.left /\ m \notin old.answered
        /\ m \notin old.ok /\ old \in Call
    BY DEF Answer, QueueInv, Shape, TypeOK
  <1>2. /\ calls'[c] = [pc |-> pc, left |-> old.left, read |-> old.read,
                        answered |-> answered, ok |-> ok]
        /\ \A d \in Calls \ {c} : calls'[d] = calls[d]
        /\ calls' \in [Calls -> Call]
    BY <1>1 DEF Answer, QueueInv, TypeOK, Call
  <1>3. /\ isProcessing' = isProcessing /\ rows' = rows /\ gone' = gone
        /\ Queued' = Queued /\ Pending' = Pending
    BY DEF Answer, Queued, Pending
  <1>4. /\ tries' = [tries EXCEPT ![m] = @ + 1]
        /\ accepted' = IF taken THEN [accepted EXCEPT ![m] = @ + 1]
                                ELSE accepted
        /\ faults' = IF taken /\ ~success THEN faults + 1 ELSE faults
        /\ success => taken
    BY DEF Answer
  <1>5. TypeOK'
    BY <1>2, <1>3, <1>4 DEF Answer, QueueInv, TypeOK
  <1>6. OneCall'
    BY <1>1, <1>2, <1>3 DEF OneCall, QueueInv
  <1>7. Shape'
    BY <1>1, <1>2 DEF Shape, QueueInv
  <1>8. ReadIsCurrent'
    BY <1>2, <1>3 DEF ReadIsCurrent, QueueInv
  <1>9. \A d \in Calls : d # c => calls[d].left = {}
    BY <1>1 DEF QueueInv, OneCall, Shape
  <1>10. m \notin Asked /\ (m \in Pending \/ m \in Leaving)
    BY <1>1, <1>9 DEF Asked, Leaving, QueueInv, ReadIsCurrent
  <1>11. Asked' = Asked \cup {m} /\ Leaving' = Leaving \ {m}
    <2>1. Asked' = Asked \cup {m}
      BY <1>1, <1>2, <1>9 DEF Asked
    <2>2. Leaving' = Leaving \ {m}
      BY <1>1, <1>2, <1>3, <1>9 DEF Leaving
    <2> QED
      BY <2>1, <2>2
  <1>12. Taken' = IF success THEN Taken \cup {m} ELSE Taken
    BY <1>1, <1>2, <1>9 DEF Taken
  <1>13. m \notin Taken
    BY <1>10 DEF Taken, Asked, QueueInv, Shape
  <1>14. ASSUME NEW n \in Mails PROVE Counted(n)'
    <2>1. /\ accepted[n] \in Nat /\ tries[n] \in Nat /\ faults \in Nat
          /\ Counted(n)
          /\ n \in Queued => rows[n].retryCount \in Nat
      BY DEF QueueInv, TypeOK, Counts, Row, Queued
    <2>2. Pending \subseteq Queued /\ Leaving \subseteq gone
      BY DEF Pending, Leaving
    <2>3. CASE n = m
      <3>1. /\ tries'[m] = tries[m] + 1
            /\ accepted'[m] = IF taken THEN accepted[m] + 1 ELSE accepted[m]
        BY <1>4 DEF QueueInv, TypeOK
      <3>2. faults' \in Nat /\ faults <= faults'
        BY <1>4, <2>1
      <3>3. /\ m \in Asked' /\ m \notin Leaving'
            /\ m \in Taken' <=> success
            /\ accepted'[m] \in Nat /\ tries'[m] \in Nat
        BY <1>11, <1>12, <1>13, <2>1, <2>3, <3>1
      <3>4. CASE m \in Pending
        <4>1. /\ m \notin gone /\ m \in Queued
              /\ rows[m].retryCount \in Nat
          BY <2>1, <2>2, <2>3, <3>4 DEF Counted
        <4> QED
          BY <1>3, <1>4, <1>10, <2>1, <2>3, <3>1, <3>2, <3>3, <3>4, <4>1
             DEF Counted
      <3>5. CASE m \in Leaving
        <4>1. m \in gone /\ m \notin Queued /\ m \notin Pending
          BY <2>1, <2>2, <2>3, <3>5 DEF Counted
        <4>2. MaxRetries \in Nat
          BY RetriesAssumption
        <4> QED
          BY <1>3, <1>4, <1>10, <2>1, <2>3, <3>1, <3>2, <3>3, <3>5, <4>1, <4>2
             DEF Counted
      <3> QED
        BY <1>10, <3>4, <3>5
    <2>4. CASE n # m
      <3>1. tries'[n] = tries[n] /\ accepted'[n] = accepted[n]
        BY <1>4, <2>4 DEF QueueInv, TypeOK
      <3>2. /\ n \in Asked' <=> n \in Asked
            /\ n \in Taken' <=> n \in Taken
            /\ n \in Leaving' <=> n \in Leaving
        BY <1>11, <1>12, <2>4
      <3>3. faults' = faults \/ faults' = faults + 1
        BY <1>4
      <3> QED
        BY <1>3, <2>1, <2>2, <3>1, <3>2, <3>3, ConstantsTyped DEF Counted
    <2> QED
      BY <2>3, <2>4
  <1> QED
    BY <1>5, <1>6, <1>7, <1>8, <1>14 DEF QueueInv, Counts

\* A call that ends before it recorded everything forgets the rest.
LEMMA RecordFailsKeeps ==
    ASSUME QueueInv, NEW c \in Calls, RecordFails(c) PROVE QueueInv'
  <1>1. /\ calls' = [calls EXCEPT ![c] = Idle] /\ rows' = rows /\ tries' = tries
        /\ accepted' = accepted /\ gone' = gone /\ faults' = faults + 1
        /\ calls[c].pc = "recording"
    BY DEF RecordFails, Finish
  <1>2. \A d \in Calls : d # c => calls[d].pc = "idle" /\ calls[d].left = {}
    BY <1>1 DEF QueueInv, OneCall, Shape
  <1>3. Idle \in Call
    BY DEF Idle, Call
  <1>4. /\ calls'[c] = Idle
        /\ \A d \in Calls : d # c => calls'[d] = calls[d]
        /\ calls' \in [Calls -> Call]
    BY <1>1, <1>3 DEF QueueInv, TypeOK
  <1>5. TypeOK'
    <2>1. isProcessing' \in BOOLEAN /\ server' \in {"down", "up", "closing"}
      BY DEF RecordFails, Finish, QueueInv, TypeOK
    <2>2. faults' \in Nat /\ clock' \in Nat
      BY DEF RecordFails, QueueInv, TypeOK
    <2> QED
      BY <1>1, <1>4, <2>1, <2>2 DEF QueueInv, TypeOK
  <1>6. \A d \in Calls : calls'[d].pc = "idle" /\ calls'[d].left = {}
    BY <1>2, <1>4 DEF Idle
  <1>7. OneCall' /\ ReadIsCurrent' /\ Asked' = {} /\ Leaving' = {}
    BY <1>6 DEF OneCall, ReadIsCurrent, Asked, Leaving
  <1>8. Shape'
    BY <1>4, <1>6 DEF Shape, QueueInv, Idle
  <1>9. faults' \in Nat
    BY <1>5 DEF TypeOK
  <1> QED
    BY <1>1, <1>5, <1>7, <1>8, <1>9, ForgottenCounts DEF QueueInv, Counts

\* What recording the answer for a mail does to its row
Written(c, m) == Recorded(rows[m], calls[c].read[m], m \in calls[c].ok)

\* The recorded row is a row: either settled, or pending with one attempt
\* more than before.
LEMMA RecordedRow ==
    ASSUME QueueInv, NEW c \in Calls, NEW m \in calls[c].left \ gone
    PROVE  /\ m \in Pending /\ m \in Mails
           /\ Written(c, m) \in Row
           /\ \/ m \in calls[c].ok /\ Written(c, m).status = "sent"
              \/ /\ m \notin calls[c].ok
                 /\ rows[m].retryCount + 1 >= MaxRetries
                 /\ Written(c, m).status = "failed"
              \/ /\ m \notin calls[c].ok
                 /\ rows[m].retryCount + 1 < MaxRetries
                 /\ Written(c, m).status = "pending"
                 /\ Written(c, m).retryCount = rows[m].retryCount + 1
  <1>1. m \in Pending /\ rows[m] = calls[c].read[m]
    BY DEF QueueInv, ReadIsCurrent
  <1>2. m \in Mails /\ rows[m] \in Row /\ rows[m].status = "pending"
    BY <1>1 DEF QueueInv, TypeOK, Pending, Queued
  <1> QED
    BY <1>1, <1>2, ConstantsTyped DEF Written, Recorded, HandleEmailFailure, Row

\* What one update does to the call that makes it
LEMMA RecordedCall ==
    ASSUME QueueInv, NEW c \in Calls, NEW m \in Mails, Record(c, m)
    PROVE  /\ calls' \in [Calls -> Call]
           /\ calls'[c].left = calls[c].left \ {m}
           /\ \A d \in Calls : d # c => calls'[d] = calls[d]
           /\ \/ calls'[c] = Idle /\ isProcessing' = FALSE
              \/ /\ calls'[c].pc = "recording" /\ isProcessing' = isProcessing
                 /\ calls'[c].ok = calls[c].ok
                 /\ calls'[c].answered = calls[c].answered
                 /\ calls'[c].read = calls[c].read
  <1>1. calls[c].pc = "recording" /\ m \in calls[c].left
    BY DEF Record
  <1>2. Idle \in Call
    BY DEF Idle, Call
  <1>3. CASE calls[c].left = {m}
    <2>1. calls' = [calls EXCEPT ![c] = Idle] /\ isProcessing' = FALSE
      BY <1>3 DEF Record, Finish
    <2>2. /\ calls'[c] = Idle
          /\ \A d \in Calls : d # c => calls'[d] = calls[d]
          /\ calls' \in [Calls -> Call]
      BY <1>2, <2>1 DEF QueueInv, TypeOK
    <2> QED
      BY <1>3, <2>1, <2>2 DEF Idle
  <1>4. CASE calls[c].left # {m}
    <2>1. /\ calls' = [calls EXCEPT ![c].left = @ \ {m}]
          /\ isProcessing' = isProcessing
      BY <1>4 DEF Record
    <2>2. calls[c] \in Call /\ calls \in [Calls -> Call]
      BY DEF QueueInv, TypeOK
    <2>3. [calls[c] EXCEPT !.left = @ \ {m}] \in Call
      BY <2>2 DEF Call
    <2>4. /\ calls'[c] = [calls[c] EXCEPT !.left = @ \ {m}]
          /\ \A d \in Calls : d # c => calls'[d] = calls[d]
          /\ calls' \in [Calls -> Call]
      BY <2>1, <2>2, <2>3
    <2> QED
      BY <1>1, <2>1, <2>2, <2>4 DEF Call
  <1> QED
    BY <1>3, <1>4

\* One update of a row by the call that read it, or of none when it is gone.
LEMMA RecordKeeps ==
    ASSUME QueueInv, NEW c \in Calls, NEW m \in Mails, Record(c, m)
    PROVE  QueueInv'
  <1>1. /\ calls[c].pc = "recording" /\ m \in calls[c].left
        /\ rows' = [rows EXCEPT ![m] = IF m \in gone THEN @ ELSE Written(c, m)]
        /\ tries' = tries /\ accepted' = accepted /\ faults' = faults
        /\ gone' = gone
    BY DEF Record, Written
  <1>2. \A d \in Calls : d # c => calls[d].pc = "idle" /\ calls[d].left = {}
    BY <1>1 DEF QueueInv, OneCall, Shape
  <1>3. m \notin gone =>
           /\ m \in Pending
           /\ Written(c, m) \in Row
           /\ \/ m \in calls[c].ok /\ Written(c, m).status = "sent"
              \/ /\ m \notin calls[c].ok
                 /\ rows[m].retryCount + 1 >= MaxRetries
                 /\ Written(c, m).status = "failed"
              \/ /\ m \notin calls[c].ok
                 /\ rows[m].retryCount + 1 < MaxRetries
                 /\ Written(c, m).status = "pending"
                 /\ Written(c, m).retryCount = rows[m].retryCount + 1
    BY <1>1, RecordedRow
  <1>4. /\ rows'[m] = IF m \in gone THEN rows[m] ELSE Written(c, m)
        /\ \A n \in Mails : n # m => rows'[n] = rows[n]
        /\ rows' \in [Mails -> Row \cup {None}]
    BY <1>1, <1>3 DEF QueueInv, TypeOK
  <1>5. /\ calls' \in [Calls -> Call]
        /\ calls'[c].left = calls[c].left \ {m}
        /\ \A d \in Calls : d # c => calls'[d] = calls[d]
        /\ \/ calls'[c] = Idle /\ isProcessing' = FALSE
           \/ /\ calls'[c].pc = "recording" /\ isProcessing' = isProcessing
              /\ calls'[c].ok = calls[c].ok
              /\ calls'[c].answered = calls[c].answered
              /\ calls'[c].read = calls[c].read
    BY RecordedCall
  <1>6. TypeOK'
    BY <1>4, <1>5 DEF Record, QueueInv, TypeOK
  <1>7. OneCall'
    BY <1>1, <1>2, <1>5 DEF QueueInv, OneCall, Idle
  <1>8. Shape'
    BY <1>1, <1>2, <1>5 DEF QueueInv, Shape, Idle
  <1>9. \A n \in Mails : n # m => /\ (n \in Queued' <=> n \in Queued)
                                 /\ (n \in Pending' <=> n \in Pending)
    BY <1>4 DEF Queued, Pending
  <1>10. ReadIsCurrent'
    <2>1. ASSUME NEW d \in Calls, NEW n \in calls'[d].left \ gone
          PROVE  n \in Pending' /\ rows'[n] = calls'[d].read[n]
      <3>1. d = c /\ n \in calls[c].left /\ n # m
        BY <1>2, <1>5, <2>1
      <3>2. calls'[c].read = calls[c].read
        BY <1>5, <3>1 DEF Idle, Call
      <3>3. n \in Pending /\ rows[n] = calls[c].read[n]
        BY <2>1, <3>1 DEF QueueInv, ReadIsCurrent
      <3>4. n \in Mails
        BY <3>3 DEF Pending, Queued
      <3> QED
        BY <1>4, <1>9, <3>1, <3>2, <3>3, <3>4
    <2> QED
      BY <1>1, <2>1 DEF ReadIsCurrent
  <1>11. m \in Asked /\ m \notin Asked'
    BY <1>1, <1>2, <1>5 DEF QueueInv, Shape, Asked
  <1>12. \A n \in Mails : n # m => /\ (n \in Asked' <=> n \in Asked)
                                  /\ (n \in Taken' <=> n \in Taken)
    <2>1. CASE calls'[c] = Idle
      <3>1. calls[c].left \subseteq {m}
        BY <1>5, <2>1 DEF Idle
      <3> QED
        BY <1>2, <1>5, <2>1, <3>1 DEF Asked, Taken, Idle
    <2>2. CASE calls'[c] # Idle
      BY <1>2, <1>5, <2>2 DEF Asked, Taken
    <2> QED
      BY <2>1, <2>2
  <1>13. Leaving = {} /\ Leaving' = {}
    BY <1>1, <1>2, <1>5 DEF QueueInv, Shape, Leaving, Idle
  <1>14. m \in Taken <=> m \in calls[c].ok
    BY <1>1, <1>2 DEF Taken
  <1>15. ASSUME NEW n \in Mails PROVE Counted(n)'
    <2>1. /\ accepted[n] \in Nat /\ tries[n] \in Nat /\ faults \in Nat
          /\ Counted(n)
          /\ n \in Queued => rows[n].retryCount \in Nat
      BY DEF QueueInv, TypeOK, Counts, Row, Queued
    <2>2. CASE n # m
      BY <1>1, <1>4, <1>9, <1>12, <1>13, <2>1, <2>2 DEF Counted
    <2>3. CASE n = m /\ m \in gone
      <3>1. m \notin Queued /\ m \notin Queued' /\ m \notin Pending'
        BY <1>4, <2>1, <2>3 DEF Counted, Queued, Pending
      <3> QED
        BY <1>1, <1>13, <2>1, <2>3, <3>1 DEF Counted
    <2>4. CASE n = m /\ m \notin gone
      <3>1. m \in Queued' /\ (m \in Pending' <=> rows'[m].status = "pending")
        BY <1>3, <1>4, <2>4, ConstantsTyped DEF Queued, Pending
      <3>2. m \in Queued
        BY <1>3, <2>4 DEF Pending
      <3> QED
        BY <1>1, <1>3, <1>4, <1>11, <1>13, <1>14, <2>1, <2>4, <3>1, <3>2,
           ConstantsTyped DEF Counted
    <2> QED
      BY <2>2, <2>3, <2>4
  <1> QED
    BY <1>6, <1>7, <1>8, <1>10, <1>15 DEF QueueInv, Counts

------------------------------------------------------------------------------

\* Every step keeps the invariant.
LEMMA NextKeeps == QueueInv /\ [Next]_vars => QueueInv'
  <1> SUFFICES ASSUME QueueInv, [Next]_vars PROVE QueueInv'
    OBVIOUS
  <1>1. CASE UNCHANGED vars
    BY <1>1 DEF vars, QueueInv, TypeOK, OneCall, Shape, ReadIsCurrent, Counts,
                Counted, Queued, Pending, Asked, Taken, Leaving
  <1>2. CASE Enqueue
    BY <1>2, EnqueueKeeps
  <1>3. CASE Start \/ Stop
    BY <1>3, TimerKeeps
  <1>4. CASE Exit
    BY <1>4, ExitKeeps
  <1>5. CASE \E c \in Calls : Work(c)
    BY <1>5, TickKeeps, AnswerKeeps, RecordKeeps DEF Work
  <1>6. CASE \E c \in Calls : RecordFails(c)
    BY <1>6, RecordFailsKeeps
  <1>7. CASE DeleteUser
    BY <1>7, DeleteUserKeeps
  <1> QED
    BY <1>1, <1>2, <1>3, <1>4, <1>5, <1>6, <1>7 DEF Next

\* The inductive invariant holds in every reachable state.
THEOREM Invariance == Spec => []QueueInv
  BY InitHolds, NextKeeps, PTL DEF Spec

\* The state of the queue is well typed, whatever happens to the process.
THEOREM TypeCorrect == Spec => []TypeOK
  <1>1. QueueInv => TypeOK
    BY DEF QueueInv
  <1> QED
    BY <1>1, Invariance, PTL

\* What a call read before its awaits is still true when it writes, unless the
\* row has been deleted.
THEOREM ReadsCurrent == Spec => []ReadIsCurrent
  <1>1. QueueInv => ReadIsCurrent
    BY DEF QueueInv
  <1> QED
    BY <1>1, Invariance, PTL

\* A mail is taken once, and once more for each fault at most.
THEOREM Duplicates == Spec => []DuplicatesExplained
  <1>1. QueueInv => DuplicatesExplained
    <2> SUFFICES ASSUME QueueInv, NEW m \in Mails
                 PROVE  accepted[m] <= 1 + faults
      BY DEF DuplicatesExplained
    <2>1. Counted(m) /\ accepted[m] \in Nat /\ faults \in Nat
      BY DEF QueueInv, Counts, TypeOK
    <2> QED
      BY <2>1 DEF Counted
  <1> QED
    BY <1>1, Invariance, PTL

\* A mail is tried maxRetries times, and once more for each fault at most.
THEOREM Retries == Spec => []RetriesBounded
  <1>1. QueueInv => RetriesBounded
    <2> SUFFICES ASSUME QueueInv, NEW m \in Mails
                 PROVE  tries[m] <= MaxRetries + faults
      BY DEF RetriesBounded
    <2>1. /\ Counted(m) /\ tries[m] \in Nat /\ faults \in Nat
          /\ m \in Pending => rows[m].retryCount \in Nat
      BY DEF QueueInv, Counts, TypeOK, Pending, Queued, Row
    <2> QED
      BY <2>1, ConstantsTyped DEF Counted
  <1> QED
    BY <1>1, Invariance, PTL

------------------------------------------------------------------------------
(* The queue implements Delivery                                           *)

\* The abstract state of one mail
LEMMA OutcomeOf ==
    \A m \in Mails : Outcome[m] = IF m \in Leaving THEN "leaving"
                                 ELSE IF m \in gone THEN "withdrawn"
                                 ELSE IF m \notin Queued THEN "absent"
                                 ELSE IF m \in Pending THEN "waiting"
                                 ELSE rows[m].status
  BY DEF Outcome

\* It depends on the rows, and on what is deleted or about to be sent.
LEMMA OutcomeKept ==
    rows' = rows /\ gone' = gone /\ Leaving' = Leaving => Outcome' = Outcome
  BY DEF Outcome, Queued, Pending

\* What is deleted has no row.
LEMMA GoneApart ==
    ASSUME QueueInv
    PROVE  /\ Leaving \subseteq gone /\ gone \subseteq Mails
           /\ gone \cap Queued = {} /\ Pending \subseteq Queued
           /\ Queued \subseteq Mails
  BY DEF QueueInv, TypeOK, Counts, Counted, Leaving, Pending, Queued

\* An empty queue is an abstract initial state.
LEMMA InitMapped == Init => Promise!Init
  <1> SUFFICES ASSUME Init PROVE Promise!Init
    OBVIOUS
  <1>1. Queued = {} /\ gone = {} /\ Leaving = {}
    BY DEF Init, Queued, Leaving
  <1>2. Outcome = [m \in Mails |-> "absent"]
    BY <1>1 DEF Outcome
  <1> QED
    BY <1>2 DEF Init, Promise!Init

\* Inserting rows queues their mails.
LEMMA EnqueueMapped == QueueInv /\ Enqueue => Promise!Queue
  <1> SUFFICES ASSUME QueueInv, Enqueue PROVE Promise!Queue
    OBVIOUS
  <1>1. PICK some \in SUBSET (Mails \ (Queued \cup gone)) :
           rows' = [m \in Mails |->
                       IF m \in some
                       THEN [status |-> "pending", retryCount |-> 0,
                             createdAt |-> clock]
                       ELSE rows[m]]
    BY DEF Enqueue
  <1>2. gone' = gone /\ Leaving' = Leaving /\ UNCHANGED <<tries, accepted>>
    BY DEF Enqueue, Leaving
  <1>3. \A m \in some : m \in Mails /\ m \notin gone /\ m \notin Leaving
    BY <1>1, GoneApart
  <1>4. \A m \in some : Outcome[m] = "absent"
    BY <1>1, <1>3, OutcomeOf
  <1>5. \A m \in some : m \in Queued' /\ m \in Pending'
    <2> SUFFICES ASSUME NEW m \in some PROVE m \in Queued' /\ m \in Pending'
      OBVIOUS
    <2>1. /\ m \in Mails /\ rows'[m].status = "pending"
          /\ rows'[m] \in Row
      BY <1>1 DEF QueueInv, TypeOK, Row
    <2> QED
      BY <2>1, ConstantsTyped DEF Queued, Pending
  <1>6. \A m \in Mails \ some : /\ rows'[m] = rows[m]
                               /\ (m \in Queued' <=> m \in Queued)
                               /\ (m \in Pending' <=> m \in Pending)
    BY <1>1 DEF Queued, Pending
  <1>7. Outcome' = [m \in Mails |-> IF m \in some THEN "waiting" ELSE Outcome[m]]
    BY <1>2, <1>3, <1>5, <1>6, OutcomeOf DEF Outcome
  <1> QED
    BY <1>1, <1>2, <1>4, <1>7 DEF Promise!Queue

\* Deleting a user withdraws the mails; those in a batch that the provider has
\* not dealt with have an attempt under way.
LEMMA DeleteUserMapped == QueueInv /\ DeleteUser => Promise!Withdraw
  <1> SUFFICES ASSUME QueueInv, DeleteUser PROVE Promise!Withdraw
    OBVIOUS
  <1>1. PICK some \in SUBSET (Queued \cap Addressed) :
           /\ rows' = [m \in Mails |-> IF m \in some THEN None ELSE rows[m]]
           /\ gone' = gone \cup some
           /\ UNCHANGED <<calls, tries, accepted>>
    BY DEF DeleteUser
  <1> DEFINE leaving == Leaving' \ Leaving
  <1>2. /\ some \subseteq Mails
        /\ \A m \in some : m \in Queued /\ m \notin gone /\ m \notin Leaving
    BY <1>1, GoneApart
  <1>3. leaving \subseteq some
    BY <1>1 DEF Leaving
  <1>4. \A m \in some : Outcome[m] \in {"waiting", "sent", "failed"}
    <2> SUFFICES ASSUME NEW m \in some
                 PROVE  Outcome[m] \in {"waiting", "sent", "failed"}
      OBVIOUS
    <2>1. m \in Mails /\ rows[m] \in Row /\ (m \in Pending <=> rows[m].status = "pending")
      BY <1>2, ConstantsTyped DEF QueueInv, TypeOK, Queued, Pending
    <2>2. Outcome[m] = IF m \in Pending THEN "waiting" ELSE rows[m].status
      BY <1>2, <2>1, OutcomeOf
    <2> QED
      BY <2>1, <2>2 DEF Row
  <1>5. \A m \in leaving : m \in some /\ Outcome[m] = "waiting"
    <2> SUFFICES ASSUME NEW m \in leaving PROVE m \in some /\ Outcome[m] = "waiting"
      OBVIOUS
    <2>1. m \in some /\ m \in Mails /\ m \notin gone /\ m \notin Leaving
      BY <1>2, <1>3
    <2>2. PICK c \in Calls : m \in calls[c].left
      BY <1>1 DEF Leaving
    <2>3. m \in Pending /\ m \in Queued
      BY <2>1, <2>2 DEF QueueInv, ReadIsCurrent, Pending
    <2> QED
      BY <2>1, <2>3, OutcomeOf
  <1>6. \A m \in Mails : Outcome'[m] = IF m \in leaving THEN "leaving"
                                      ELSE IF m \in some THEN "withdrawn"
                                      ELSE Outcome[m]
    <2> SUFFICES ASSUME NEW m \in Mails
                 PROVE  Outcome'[m] = IF m \in leaving THEN "leaving"
                                      ELSE IF m \in some THEN "withdrawn"
                                      ELSE Outcome[m]
      OBVIOUS
    <2>1. CASE m \in some
      <3>1. m \in gone' /\ (m \in Leaving' <=> m \in leaving)
        BY <1>1, <1>2, <2>1
      <3> QED
        BY <2>1, <3>1 DEF Outcome
    <2>2. CASE m \notin some
      <3>1. /\ m \in gone' <=> m \in gone
            /\ m \in Leaving' <=> m \in Leaving
            /\ rows'[m] = rows[m]
        BY <1>1, <2>2 DEF Leaving
      <3>2. /\ m \in Queued' <=> m \in Queued
            /\ m \in Pending' <=> m \in Pending
        BY <3>1 DEF Queued, Pending
      <3> QED
        BY <1>3, <2>2, <3>1, <3>2 DEF Outcome
    <2> QED
      BY <2>1, <2>2
  <1>7. Outcome' = [m \in Mails |-> IF m \in leaving THEN "leaving"
                                   ELSE IF m \in some THEN "withdrawn"
                                   ELSE Outcome[m]]
    <2>1. Outcome' = [m \in Mails |-> Outcome'[m]]
      BY DEF Outcome
    <2> QED
      BY <1>6, <2>1
  <1>8. leaving \in SUBSET Mails /\ some \in SUBSET Mails
    BY <1>2, <1>3
  <1> HIDE DEF leaving
  <1> QED
    BY <1>1, <1>4, <1>5, <1>7, <1>8 DEF Promise!Withdraw

\* A process that ends gives up the attempts under way.
LEMMA ExitMapped == QueueInv /\ Exit => Promise!Forget
  <1> SUFFICES ASSUME QueueInv, Exit PROVE Promise!Forget
    OBVIOUS
  <1>1. /\ rows' = rows /\ gone' = gone /\ Leaving' = {}
        /\ UNCHANGED <<tries, accepted>>
    BY DEF Exit, Leaving, Idle
  <1>2. Queued' = Queued /\ Pending' = Pending
    BY <1>1 DEF Queued, Pending
  <1>3. \A m \in Mails : Outcome[m] = "leaving" <=> m \in Leaving
    <2> SUFFICES ASSUME NEW m \in Mails, m \notin Leaving PROVE Outcome[m] # "leaving"
      BY OutcomeOf
    <2>1. m \in Queued => rows[m] \in Row
      BY DEF QueueInv, TypeOK, Queued
    <2> QED
      BY <2>1, OutcomeOf DEF Row
  <1>4. \A m \in Mails : Outcome'[m] = IF Outcome[m] = "leaving" THEN "withdrawn"
                                      ELSE Outcome[m]
    BY <1>1, <1>2, <1>3, GoneApart DEF Outcome
  <1>5. Outcome' = [m \in Mails |-> IF Outcome[m] = "leaving" THEN "withdrawn"
                                   ELSE Outcome[m]]
    <2>1. Outcome' = [m \in Mails |-> Outcome'[m]]
      BY DEF Outcome
    <2> QED
      BY <1>4, <2>1
  <1> QED
    BY <1>1, <1>5 DEF Promise!Forget

\* A call that begins reads pending rows, one that ends has nothing to send:
\* neither changes what is about to be sent to users who are gone.
LEMMA CallsAside ==
    ASSUME QueueInv, NEW c \in Calls, Tick(c) \/ RecordFails(c)
    PROVE  Leaving' = Leaving
  <1>1. CASE Tick(c)
    <2>1. \A d \in Calls : calls[d].left = {}
      BY <1>1 DEF Tick, MayProcess, QueueInv, OneCall, Shape
    <2>2. PICK batch \in Oldest(Pending) :
             calls' = [calls EXCEPT ![c] =
                          [pc |-> "sending", left |-> batch,
                           read |-> [m \in Mails |-> IF m \in batch
                                                     THEN rows[m] ELSE None],
                           answered |-> {}, ok |-> {}]]
      BY <1>1 DEF Tick
    <2>3. /\ calls'[c].left = batch
          /\ \A d \in Calls \ {c} : calls'[d] = calls[d]
      BY <2>2 DEF QueueInv, TypeOK
    <2>4. batch \cap gone = {} /\ gone' = gone
      BY <1>1, <2>2, OldestPending, GoneApart DEF Tick
    <2> QED
      BY <2>1, <2>3, <2>4 DEF Leaving
  <1>2. CASE RecordFails(c)
    <2>1. /\ calls[c].pc = "recording" /\ gone' = gone
          /\ calls' = [calls EXCEPT ![c] = Idle]
      BY <1>2 DEF RecordFails, Finish
    <2>2. \A d \in Calls \ {c} : calls[d].left = {}
      BY <2>1 DEF QueueInv, OneCall, Shape
    <2>3. calls'[c].left = {} /\ \A d \in Calls \ {c} : calls'[d] = calls[d]
      BY <2>1 DEF QueueInv, TypeOK, Idle
    <2> QED
      BY <2>1, <2>2, <2>3 DEF Leaving, QueueInv, Shape
  <1> QED
    BY <1>1, <1>2

\* An answer of the provider is an attempt at a mail that waits, or the last one
\* at a mail that was withdrawn.
LEMMA AnswerMapped ==
    ASSUME QueueInv, NEW c \in Calls, NEW m \in Mails,
           NEW taken \in BOOLEAN, NEW success \in BOOLEAN,
           Answer(c, m, taken, success)
    PROVE  Promise!Attempt(m) \/ Promise!LastAttempt(m)
  <1>1. /\ calls[c].pc = "sending" /\ m \in calls[c].left \ calls[c].answered
        /\ rows' = rows /\ gone' = gone /\ tries' = [tries EXCEPT ![m] = @ + 1]
    BY DEF Answer
  <1>2. accepted' \in {accepted, [accepted EXCEPT ![m] = @ + 1]}
    BY DEF Answer
  <1>3. \A d \in Calls \ {c} : calls[d].left = {}
    BY <1>1 DEF QueueInv, OneCall, Shape
  <1>4. /\ calls'[c].left = calls[c].left
        /\ calls'[c].answered = calls[c].answered \cup {m}
        /\ \A d \in Calls \ {c} : calls'[d] = calls[d]
    BY DEF Answer, QueueInv, TypeOK, Call
  <1>5. Leaving' = Leaving \ {m}
    BY <1>1, <1>3, <1>4 DEF Leaving
  <1>6. CASE m \in gone
    <2>1. m \in Leaving
      BY <1>1, <1>6 DEF Leaving
    <2>2. Outcome[m] = "leaving"
      BY <2>1, OutcomeOf
    <2>3. \A n \in Mails : Outcome'[n] = IF n = m THEN "withdrawn" ELSE Outcome[n]
      BY <1>1, <1>5, <1>6 DEF Outcome, Queued, Pending
    <2>4. Outcome' = [Outcome EXCEPT ![m] = "withdrawn"]
      <3>1. Outcome' = [n \in Mails |-> Outcome'[n]]
        BY DEF Outcome
      <3>2. Outcome = [n \in Mails |-> Outcome[n]]
        BY DEF Outcome
      <3> QED
        BY <2>3, <3>1, <3>2
    <2> QED
      BY <1>1, <1>2, <2>2, <2>4 DEF Promise!LastAttempt
  <1>7. CASE m \notin gone
    <2>1. m \in Pending /\ m \in Queued /\ m \notin Leaving
      BY <1>1, <1>7 DEF QueueInv, ReadIsCurrent, Pending, Leaving
    <2>2. Outcome[m] = "waiting"
      BY <1>7, <2>1, OutcomeOf
    <2>3. Outcome' = Outcome
      BY <1>1, <1>5, <2>1, OutcomeKept
    <2> QED
      BY <1>1, <1>2, <2>2, <2>3 DEF Promise!Attempt
  <1> QED
    BY <1>6, <1>7

\* Recording an answer settles the mail, with a reason, or changes nothing
\* that the abstract state shows.
LEMMA RecordMapped ==
    ASSUME QueueInv, NEW c \in Calls, NEW m \in Mails, Record(c, m)
    PROVE  Promise!Settle(m) \/ UNCHANGED <<Outcome, tries, accepted>>
  <1>1. /\ calls[c].pc = "recording" /\ m \in calls[c].left
        /\ rows' = [rows EXCEPT ![m] = IF m \in gone THEN @ ELSE Written(c, m)]
        /\ tries' = tries /\ accepted' = accepted /\ gone' = gone
    BY DEF Record, Written
  <1>2. Leaving = {} /\ Leaving' = {}
    <2>1. \A d \in Calls \ {c} : calls[d].left = {}
      BY <1>1 DEF QueueInv, OneCall, Shape
    <2>2. calls[c].left \subseteq calls[c].answered
      BY <1>1 DEF QueueInv, Shape
    <2>3. \A d \in Calls : calls[d].left \ calls[d].answered = {}
      BY <2>1, <2>2
    <2>4. \A d \in Calls : calls'[d].left \ calls'[d].answered = {}
      <3>1. Idle.left = {}
        BY DEF Idle
      <3>2. calls'[c].left \ calls'[c].answered = {}
        BY <2>2, <3>1, RecordedCall
      <3>3. \A d \in Calls : d # c => calls'[d] = calls[d]
        BY RecordedCall
      <3> QED
        BY <2>3, <3>2, <3>3
    <2> QED
      BY <2>3, <2>4 DEF Leaving
  <1>3. CASE m \in gone
    <2>1. rows' = rows
      BY <1>1, <1>3 DEF QueueInv, TypeOK
    <2> QED
      BY <1>1, <1>2, <2>1, OutcomeKept
  <1>4. CASE m \notin gone
    <2>1. /\ m \in Pending /\ m \in Queued
          /\ Written(c, m) \in Row
          /\ \/ m \in calls[c].ok /\ Written(c, m).status = "sent"
             \/ /\ m \notin calls[c].ok
                /\ rows[m].retryCount + 1 >= MaxRetries
                /\ Written(c, m).status = "failed"
             \/ Written(c, m).status = "pending"
      BY <1>1, <1>4, RecordedRow DEF Pending
    <2>2. /\ rows'[m] = Written(c, m)
          /\ \A n \in Mails : n # m => rows'[n] = rows[n]
      BY <1>1, <1>4 DEF QueueInv, TypeOK
    <2>3. Outcome[m] = "waiting"
      BY <1>2, <1>4, <2>1, OutcomeOf
    <2>4. \A n \in Mails : n # m => Outcome'[n] = Outcome[n]
      BY <1>1, <1>2, <2>2 DEF Outcome, Queued, Pending
    <2>5. Outcome'[m] = IF Written(c, m).status = "pending" THEN "waiting"
                       ELSE Written(c, m).status
      <3>1. m \in Queued' /\ (m \in Pending' <=> Written(c, m).status = "pending")
        BY <2>1, <2>2, ConstantsTyped DEF Queued, Pending
      <3> QED
        BY <1>1, <1>2, <1>4, <2>2, <3>1 DEF Outcome
    <2>6. Outcome' = [Outcome EXCEPT ![m] = Outcome'[m]]
      <3>1. Outcome = [n \in Mails |-> Outcome[n]]
        BY DEF Outcome
      <3>2. Outcome' = [n \in Mails |-> Outcome'[n]]
        BY DEF Outcome
      <3> QED
        BY <2>4, <3>1, <3>2
    <2>7. Counted(m) /\ m \in Asked
      BY <1>1 DEF QueueInv, Counts, Shape, Asked
    <2>8. ASSUME Written(c, m).status = "pending"
          PROVE  UNCHANGED <<Outcome, tries, accepted>>
      <3>1. Outcome'[m] = Outcome[m]
        BY <2>3, <2>5, <2>8
      <3>2. Outcome' = Outcome
        BY <2>4, <3>1 DEF Outcome
      <3> QED
        BY <1>1, <3>2
    <2>9. ASSUME m \in calls[c].ok, Written(c, m).status = "sent"
          PROVE  Promise!Settle(m)
      <3>1. accepted[m] > 0
        BY <1>1, <2>1, <2>7, <2>9 DEF Counted, Taken
      <3>2. Outcome' = [Outcome EXCEPT ![m] = "sent"]
        BY <2>5, <2>6, <2>9
      <3> QED
        BY <1>1, <2>3, <3>1, <3>2 DEF Promise!Settle
    <2>10. ASSUME rows[m].retryCount + 1 >= MaxRetries,
                  Written(c, m).status = "failed"
           PROVE  Promise!Settle(m)
      <3>1. tries[m] >= rows[m].retryCount + 1
        BY <2>1, <2>7 DEF Counted
      <3>2. tries[m] \in Nat /\ rows[m].retryCount \in Nat
        BY <2>1 DEF QueueInv, TypeOK, Queued, Row
      <3>3. tries[m] >= MaxRetries
        BY <2>10, <3>1, <3>2, ConstantsTyped
      <3>4. Outcome' = [Outcome EXCEPT ![m] = "failed"]
        BY <2>5, <2>6, <2>10
      <3> QED
        BY <1>1, <2>3, <3>3, <3>4 DEF Promise!Settle
    <2> QED
      BY <2>1, <2>8, <2>9, <2>10
  <1> QED
    BY <1>3, <1>4

\* Every step of the queue is a step of Delivery or changes nothing there.
LEMMA NextMapped == QueueInv /\ [Next]_vars => [Promise!Next]_(Promise!vars)
  <1> SUFFICES ASSUME QueueInv, [Next]_vars
               PROVE  Promise!Next \/ UNCHANGED <<Outcome, tries, accepted>>
    BY DEF Promise!vars
  <1>1. CASE Enqueue
    BY <1>1, EnqueueMapped DEF Promise!Next
  <1>2. CASE DeleteUser
    BY <1>2, DeleteUserMapped DEF Promise!Next
  <1>3. CASE Exit
    BY <1>3, ExitMapped DEF Promise!Next
  <1>4. CASE Start \/ Stop \/ UNCHANGED vars
    <2>1. Leaving' = Leaving /\ UNCHANGED <<rows, gone, tries, accepted>>
      BY <1>4 DEF Start, Stop, vars, Leaving
    <2> QED
      BY <2>1, OutcomeKept
  <1>5. ASSUME NEW c \in Calls, Tick(c) \/ RecordFails(c)
        PROVE  UNCHANGED <<Outcome, tries, accepted>>
    BY <1>5, CallsAside, OutcomeKept DEF Tick, RecordFails
  <1>6. ASSUME NEW c \in Calls, NEW m \in Mails, NEW taken \in BOOLEAN,
               NEW success \in BOOLEAN, Answer(c, m, taken, success)
        PROVE  Promise!Next
    BY <1>6, AnswerMapped DEF Promise!Next
  <1>7. ASSUME NEW c \in Calls, NEW m \in Mails, Record(c, m)
        PROVE  Promise!Next \/ UNCHANGED <<Outcome, tries, accepted>>
    BY <1>7, RecordMapped DEF Promise!Next
  <1> QED
    BY <1>1, <1>2, <1>3, <1>4, <1>5, <1>6, <1>7 DEF Next, Work

\* The queue keeps what Delivery promises: attempts only at mails that wait,
\* but for one that was under way when the mail was deleted with its user, and
\* one settlement for each, as sent or failed only with a reason.
THEOREM Implements == Spec => Delivers
  BY InitMapped, NextMapped, Invariance, PTL DEF Spec, Delivers, Promise!Spec
=============================================================================
