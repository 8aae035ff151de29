-------------------------- MODULE Attendance_proofs --------------------------
(***************************************************************************)
(* Proofs about Attendance.                                                *)
(***************************************************************************)
EXTENDS Attendance, TLAPS

\* What a mutation in flight relies on in the row and the invitation it read
Holds(q) ==
    /\ q.row # None /\ rows[q.row] # None => rows[q.row].user = q.user
    /\ q.row # None /\ rows[q.row] = None => q.user \in removed
    /\ q.pc \in {"register", "checkIn", "checkOut", "delete"} => q.row # None
    /\ q.pc = "checkOut" /\ rows[q.row] # None => rows[q.row].isCheckedIn
    /\ q.pc \in {"lock", "commit"} => q.inv # None
    /\ q.inv # None => /\ invitations[q.inv] # None
                       /\ invitations[q.inv].user = q.user
                       /\ q.pc \in {"lock", "commit"}
    /\ q.pc = "commit" /\ q.member => q.user \in members \cup left

Reads == \A c \in Calls : calls[c] # None => Holds(calls[c])

\* A user has no row.
NoRow(u) == \A i \in RowIds : rows[i] # None => rows[i].user # u

\* A mutation that is about to insert for a user about whom no mutations raced
\* still finds no row.
Unrowed ==
    \A c \in Calls :
        /\ calls[c] # None
        /\ calls[c].user \notin raced
        /\ \/ calls[c].pc \in {"add", "invite", "create"}
           \/ calls[c].pc = "commit" /\ calls[c].row = None
        => NoRow(calls[c].user)

\* Mutations in flight about such a user are acceptances of one invitation.
Serial ==
    \A c, d \in Calls :
        calls[c] # None /\ calls[d] # None /\ calls[c].user = calls[d].user =>
            \/ c = d
            \/ calls[c].user \in raced
            \/ calls[c].inv = calls[d].inv /\ calls[c].inv # None

\* One transaction at most has an invitation locked.
OneLock ==
    \A c, d \in Calls :
        At(c, "commit") /\ At(d, "commit") /\ calls[c].inv = calls[d].inv =>
            c = d

\* The inductive invariant of the attendees
AttendanceInv ==
    /\ TypeOK /\ Reads /\ Unrowed /\ Serial /\ OneLock
    /\ OneRow /\ OutAfterIn /\ AcceptedAttends

------------------------------------------------------------------------------

\* A query for the first row of a user returns a row of the user, and None
\* only when there is none.
LEMMA FirstIs ==
  ASSUME NEW u, NEW i \in First(u)
  PROVE  /\ i = None => NoRow(u)
         /\ i # None => /\ i \in RowIds
                        /\ rows[i] # None
                        /\ rows[i].user = u
  BY NoneAssumption DEF First, RowsOf, NoRow

\* No mutation is in flight at first, and there is no row.
LEMMA InitHolds == Init => AttendanceInv
  <1> SUFFICES ASSUME Init PROVE AttendanceInv
    OBVIOUS
  <1>1. TypeOK
    BY DEF Init, TypeOK
  <1>2. Reads /\ Unrowed /\ Serial /\ OneLock
    BY DEF Init, Reads, Unrowed, Serial, OneLock, At
  <1>3. OneRow /\ OutAfterIn /\ AcceptedAttends
    BY DEF Init, OneRow, OutAfterIn, AcceptedAttends
  <1> QED
    BY <1>1, <1>2, <1>3 DEF AttendanceInv

\* A mutation that begins relies on what it just read.
LEMMA BeginKeeps ==
  ASSUME AttendanceInv,
         NEW c \in Calls, NEW u \in Users,
         NEW pc \in {"add", "invite", "join", "create", "register",
                     "checkIn", "checkOut", "delete", "lock"},
         NEW row \in RowIds \cup {None}, NEW v \in Invitations \cup {None},
         Begin(c, u, pc, row, v),
         row # None => rows[row] # None /\ rows[row].user = u,
         pc \in {"register", "checkIn", "checkOut", "delete"} => row # None,
         pc = "checkOut" => rows[row].isCheckedIn,
         pc = "lock" <=> v # None,
         v # None => invitations[v] # None /\ invitations[v].user = u,
         pc \in {"add", "invite", "create"} => NoRow(u)
  PROVE  AttendanceInv'
  <1> DEFINE q == [user |-> u, pc |-> pc, row |-> row, inv |-> v, member |-> FALSE]
  <1> USE DEF AttendanceInv
  <1>1. q \in Call
    BY DEF Call
  <1>2. /\ calls' = [calls EXCEPT ![c] = q]
        /\ calls[c] = None
        /\ raced' = IF Races(u, v) THEN raced \cup {u} ELSE raced
        /\ UNCHANGED <<rows, fresh, invitations, members, isRegisterable,
                       strays, removed, left>>
    BY DEF Begin
  <1> HIDE DEF q
  <1>3. /\ calls'[c] = q
        /\ \A d \in Calls : d # c => calls'[d] = calls[d]
    BY <1>2 DEF TypeOK
  <1>4. q.user = u /\ q.pc = pc /\ q.row = row /\ q.inv = v /\ q.member = FALSE
    BY DEF q
  <1>5. q # None
    BY <1>1, NoneAssumption
  <1>6. TypeOK'
    <2>1. calls' \in [Calls -> Call \cup {None}]
      BY <1>1, <1>2 DEF TypeOK
    <2>2. raced' \subseteq Users
      BY <1>2 DEF TypeOK
    <2>3. \A d \in Calls : calls'[d] # None => calls'[d].row \notin fresh'
      <3>1. row \notin fresh
        BY NoneAssumption DEF TypeOK
      <3> QED
        BY <1>2, <1>3, <1>4, <3>1 DEF TypeOK
    <2> QED
      BY <1>2, <2>1, <2>2, <2>3 DEF TypeOK
  <1>7. Reads'
    <2>1. Holds(q)'
      BY <1>2, <1>4 DEF Holds
    <2>2. ASSUME NEW d \in Calls, d # c, calls[d] # None PROVE Holds(calls[d])'
      BY <1>2, <1>3, <2>2 DEF Reads, Holds
    <2> QED
      BY <1>3, <2>1, <2>2 DEF Reads, Holds
  <1>8. Unrowed'
    BY <1>2, <1>3, <1>4 DEF Unrowed, NoRow
  <1>9. Serial'
    <2>1. ASSUME NEW d \in Calls, d # c, calls[d] # None, calls[d].user = u,
                 u \notin raced'
          PROVE  calls[d].inv = v /\ v # None
      BY <1>2, <2>1 DEF Races
    <2> QED
      BY <1>2, <1>3, <1>4, <2>1 DEF Serial
  <1>10. OneLock'
    BY <1>3, <1>4, <1>5 DEF OneLock, At
  <1>11. OneRow' /\ OutAfterIn' /\ AcceptedAttends'
    BY <1>2 DEF OneRow, OutAfterIn, AcceptedAttends, RowsOf
  <1> QED
    BY <1>6, <1>7, <1>8, <1>9, <1>10, <1>11

\* So does every mutation.
LEMMA MutationsKeep ==
  ASSUME AttendanceInv, NEW c \in Calls, NEW u \in Users, Mutation(c, u)
  PROVE  AttendanceInv'
  <1>1. CASE First(u) = {None}
               /\ \E pc \in {"add", "invite"} : Begin(c, u, pc, None, None)
    <2>1. NoRow(u)
      BY <1>1, FirstIs
    <2> QED
      BY <1>1, <2>1, BeginKeeps
  <1>2. CASE RegisterForEvent(c, u) \/ RegisterEventAttendee(c, u)
    <2>1. PICK i \in First(u) :
             \/ i = None /\ Begin(c, u, "add", None, None)
             \/ i # None /\ Begin(c, u, "register", i, None)
             \/ i # None /\ Begin(c, u, "join", i, None)
      BY <1>2 DEF RegisterForEvent, RegisterEventAttendee
    <2> QED
      BY <2>1, FirstIs, BeginKeeps
  <1>3. CASE CheckIn(c, u)
    BY <1>3, FirstIs, BeginKeeps DEF CheckIn
  <1>4. CASE CheckOut(c, u)
    BY <1>4, FirstIs, BeginKeeps DEF CheckOut
  <1>5. CASE RemoveEventAttendee(c, u)
    BY <1>5, FirstIs, BeginKeeps DEF RemoveEventAttendee
  <1> QED
    BY <1>1, <1>2, <1>3, <1>4, <1>5
       DEF Mutation, AddEventAttendee, InviteEventAttendee

\* The acceptance of an invitation relies on the invitation it read.
LEMMA AcceptKeeps ==
  ASSUME AttendanceInv, NEW c \in Calls, NEW v \in Invitations,
         AcceptEventInvitation(c, v)
  PROVE  AttendanceInv'
  <1>1. v # None
    BY NoneAssumption
  <1>2. invitations[v] # None /\ invitations[v].user \in Users
    BY DEF AcceptEventInvitation, AttendanceInv, TypeOK, Invitation
  <1> QED
    BY <1>1, <1>2, BeginKeeps DEF AcceptEventInvitation

------------------------------------------------------------------------------

\* A call that ends relies on nothing any more; the others are as they were.
LEMMA EndIs ==
  ASSUME AttendanceInv, NEW c \in Calls, End(c)
  PROVE  /\ calls' \in [Calls -> Call \cup {None}]
         /\ calls'[c] = None
         /\ \A d \in Calls : d # c => calls'[d] = calls[d]
         /\ \A d \in Calls : calls'[d] # None => d # c /\ calls'[d] = calls[d]
  BY DEF End, AttendanceInv, TypeOK

\* What is left of the mutations in flight when one of them ends
LEMMA EndKeeps ==
  ASSUME AttendanceInv, NEW c \in Calls, End(c), raced' = raced
  PROVE  Serial' /\ OneLock'
  BY EndIs DEF AttendanceInv, Serial, OneLock, At

\* The row of a user about whom nothing raced is inserted when there is none.
LEMMA InsertIsFirst ==
  ASSUME AttendanceInv, NEW c \in Calls, calls[c] # None,
         \/ calls[c].pc \in {"add", "invite", "create"}
         \/ calls[c].pc = "commit" /\ calls[c].row = None,
         NEW i \in fresh, NEW r \in Row, r.user = calls[c].user,
         rows' = [rows EXCEPT ![i] = r], raced' = raced, strays' = strays
  PROVE  OneRow'
  <1> USE DEF AttendanceInv
  <1>1. calls[c].user \in raced \/ NoRow(calls[c].user)
    BY DEF Unrowed
  <1>2. i \in RowIds /\ rows'[i] = r /\ \A j \in RowIds : j # i => rows'[j] = rows[j]
    BY DEF TypeOK
  <1> QED
    BY <1>1, <1>2 DEF OneRow, NoRow

\* Other mutations about the user of an insertion know of it, or raced with it.
LEMMA OthersUnrowed ==
  ASSUME AttendanceInv, NEW c \in Calls, calls[c] # None,
         NEW d \in Calls, d # c, calls[d] # None, calls[d].user \notin raced,
         \/ calls[d].pc \in {"add", "invite", "create"}
         \/ calls[d].pc = "commit" /\ calls[d].row = None,
         \/ calls[c].pc # "lock" /\ calls[c].pc # "commit"
         \/ calls[c].pc = "commit"
  PROVE  calls[d].user # calls[c].user
  <1> USE DEF AttendanceInv
  <1> SUFFICES ASSUME calls[d].user = calls[c].user PROVE FALSE
    OBVIOUS
  <1>1. calls[c].inv = calls[d].inv /\ calls[c].inv # None
    BY DEF Serial
  <1>2. calls[c].pc = "commit" /\ calls[d].pc = "commit"
    BY <1>1 DEF Reads, Holds
  <1> QED
    BY <1>1, <1>2 DEF OneLock, At

\* A new row for the user of a call, whether the call ends or goes on to mark it
LEMMA NewRowKeeps ==
  ASSUME AttendanceInv, NEW c \in Calls, calls[c] # None,
         calls[c].pc \in {"add", "invite", "join", "create", "commit"},
         NEW i \in fresh, NEW invited \in BOOLEAN, NEW registered \in BOOLEAN,
         rows' = [rows EXCEPT ![i] = NewRow(calls[c].user, invited, registered)],
         fresh' = fresh \ {i}
  PROVE  /\ rows' \in [RowIds -> Row \cup {None}]
         /\ fresh' \subseteq RowIds
         /\ \A j \in fresh' : rows'[j] = None
         /\ \A j \in RowIds : rows[j] # None => j # i /\ rows'[j] = rows[j]
         /\ i \in RowIds /\ rows[i] = None
         /\ rows'[i] = NewRow(calls[c].user, invited, registered)
         /\ NewRow(calls[c].user, invited, registered) \in Row
         /\ OutAfterIn'
         /\ \A d \in Calls : calls[d] # None => calls[d].row # i
  <1> USE DEF AttendanceInv
  <1>1. NewRow(calls[c].user, invited, registered) \in Row
    BY DEF NewRow, Row, TypeOK, Call
  <1>2. i \in RowIds /\ rows[i] = None
    BY DEF TypeOK
  <1>3. rows'[i] = NewRow(calls[c].user, invited, registered)
        /\ \A j \in RowIds : j # i => rows'[j] = rows[j]
    BY <1>2 DEF TypeOK
  <1>4. rows' \in [RowIds -> Row \cup {None}]
    BY <1>1, <1>2 DEF TypeOK
  <1>5. OutAfterIn'
    BY <1>2, <1>3 DEF OutAfterIn, NewRow
  <1>6. \A d \in Calls : calls[d] # None => calls[d].row # i
    BY DEF TypeOK
  <1> QED
    BY <1>1, <1>2, <1>3, <1>4, <1>5, <1>6 DEF TypeOK

\* Insertion of a row by a mutation that found none, or that registers a user
\* beside a row it found
LEMMA InsertKeeps ==
  ASSUME AttendanceInv, NEW c \in Calls, Insert(c)
  PROVE  AttendanceInv'
  <1> USE DEF AttendanceInv
  <1>0. PICK i \in fresh, invited \in BOOLEAN, registered \in BOOLEAN :
           /\ rows' = [rows EXCEPT ![i] =
                          NewRow(calls[c].user, invited, registered)]
           /\ fresh' = fresh \ {i}
    BY DEF Insert
  <1> DEFINE r == NewRow(calls[c].user, invited, registered)
  <1>1. rows' = [rows EXCEPT ![i] = r] /\ fresh' = fresh \ {i}
    BY <1>0
  <1>2. /\ calls[c] # None
        /\ calls[c].pc \in {"add", "invite", "join"}
        /\ strays' = IF At(c, "join") THEN strays \cup {calls[c].user} ELSE strays
        /\ End(c)
        /\ UNCHANGED <<invitations, members, isRegisterable, raced, removed, left>>
    BY DEF Insert, At
  <1>4. /\ rows' \in [RowIds -> Row \cup {None}]
        /\ fresh' \subseteq RowIds
        /\ \A j \in fresh' : rows'[j] = None
        /\ \A j \in RowIds : rows[j] # None => j # i /\ rows'[j] = rows[j]
        /\ i \in RowIds /\ rows[i] = None
        /\ rows'[i] = r
        /\ r \in Row
        /\ OutAfterIn'
        /\ \A d \in Calls : calls[d] # None => calls[d].row # i
    BY <1>1, <1>2, NewRowKeeps
  <1>5. r.user = calls[c].user
    BY DEF NewRow
  <1> HIDE DEF r
  <1>6. \A j \in RowIds : j # i => rows'[j] = rows[j]
    BY <1>1 DEF TypeOK
  <1>7. TypeOK'
    <2>1. strays' \subseteq Users
      BY <1>2 DEF TypeOK, Call
    <2>2. \A d \in Calls : calls'[d] # None => calls'[d].row \notin fresh'
      BY <1>1, <1>2, EndIs DEF TypeOK
    <2> QED
      BY <1>2, <1>4, <2>1, <2>2, EndIs DEF TypeOK
  <1>8. Reads'
    <2>1. ASSUME NEW d \in Calls, calls'[d] # None PROVE Holds(calls[d])'
      <3>1. calls'[d] = calls[d] /\ calls[d] # None /\ Holds(calls[d])
        BY <1>2, <2>1, EndIs DEF Reads
      <3>2. calls[d].row # None => calls[d].row \in RowIds /\ calls[d].row # i
        BY <1>4, <3>1 DEF TypeOK, Call
      <3> QED
        BY <1>2, <1>6, <3>1, <3>2 DEF Holds
    <2> QED
      BY <1>2, <2>1, EndIs DEF Reads, Holds
  <1>9. Unrowed'
    <2> SUFFICES ASSUME NEW d \in Calls, calls'[d] # None, calls'[d].user \notin raced,
                        \/ calls'[d].pc \in {"add", "invite", "create"}
                        \/ calls'[d].pc = "commit" /\ calls'[d].row = None
                 PROVE  NoRow(calls[d].user)'
      BY <1>2, EndIs DEF Unrowed, NoRow
    <2>1. d # c /\ calls'[d] = calls[d]
      BY <1>2, EndIs
    <2>2. calls[d].user # calls[c].user
      BY <1>2, <2>1, OthersUnrowed
    <2>3. NoRow(calls[d].user)
      BY <2>1 DEF Unrowed
    <2> QED
      BY <1>4, <1>5, <1>6, <2>1, <2>2, <2>3 DEF NoRow
  <1>10. OneRow'
    <2>1. CASE calls[c].pc \in {"add", "invite"}
      <3>1. strays' = strays
        BY <1>2, <2>1 DEF At
      <3> QED
        BY <1>1, <1>2, <1>4, <1>5, <2>1, <3>1, InsertIsFirst
    <2>2. CASE calls[c].pc = "join"
      BY <1>2, <1>4, <1>5, <1>6, <2>2 DEF OneRow, At
    <2> QED
      BY <1>2, <2>1, <2>2
  <1>11. AcceptedAttends'
    BY <1>2, <1>4 DEF AcceptedAttends, RowsOf
  <1> QED
    BY <1>2, <1>4, <1>7, <1>8, <1>9, <1>10, <1>11, EndKeeps

\* checkIn inserts the row it goes on to mark.
LEMMA CreateKeeps ==
  ASSUME AttendanceInv, NEW c \in Calls, Create(c)
  PROVE  AttendanceInv'
  <1> USE DEF AttendanceInv
  <1> DEFINE r == NewRow(calls[c].user, FALSE, FALSE)
  <1>1. PICK i \in fresh :
           /\ rows' = [rows EXCEPT ![i] = r]
           /\ fresh' = fresh \ {i}
           /\ calls' = [calls EXCEPT ![c].row = i, ![c].pc = "checkIn"]
    BY DEF Create
  <1>2. /\ calls[c] # None
        /\ calls[c].pc = "create"
        /\ UNCHANGED <<invitations, members, isRegisterable, raced, strays,
                       removed, left>>
    BY DEF Create, At
  <1>3. /\ rows' \in [RowIds -> Row \cup {None}]
        /\ fresh' \subseteq RowIds
        /\ \A j \in fresh' : rows'[j] = None
        /\ \A j \in RowIds : rows[j] # None => j # i /\ rows'[j] = rows[j]
        /\ i \in RowIds /\ rows[i] = None
        /\ rows'[i] = r
        /\ r \in Row
        /\ OutAfterIn'
        /\ \A d \in Calls : calls[d] # None => calls[d].row # i
    BY <1>1, <1>2, NewRowKeeps
  <1>4. r.user = calls[c].user
    BY DEF NewRow
  <1> HIDE DEF r
  <1>5. \A j \in RowIds : j # i => rows'[j] = rows[j]
    BY <1>1 DEF TypeOK
  <1>6. /\ calls'[c] \in Call
        /\ calls'[c] # None
        /\ calls'[c].pc = "checkIn" /\ calls'[c].row = i
        /\ calls'[c].user = calls[c].user /\ calls'[c].inv = calls[c].inv
        /\ \A d \in Calls : d # c => calls'[d] = calls[d]
        /\ i # None
    BY <1>1, <1>2, <1>3, NoneAssumption DEF TypeOK, Call
  <1>7. TypeOK'
    <2>1. calls' \in [Calls -> Call \cup {None}]
      BY <1>1, <1>6 DEF TypeOK
    <2>2. \A d \in Calls : calls'[d] # None => calls'[d].row \notin fresh'
      BY <1>1, <1>6 DEF TypeOK
    <2> QED
      BY <1>2, <1>3, <2>1, <2>2 DEF TypeOK
  <1>8. Reads'
    <2>1. Holds(calls[c])
      BY <1>2 DEF Reads
    <2>2. Holds(calls[c])'
      BY <1>2, <1>3, <1>4, <1>6, <2>1, NoneAssumption DEF Holds
    <2>3. ASSUME NEW d \in Calls, d # c, calls[d] # None PROVE Holds(calls[d])'
      <3>1. calls[d].row # None => calls[d].row \in RowIds /\ calls[d].row # i
        BY <1>3, <2>3 DEF TypeOK, Call
      <3> QED
        BY <1>2, <1>5, <1>6, <2>3, <3>1 DEF Reads, Holds
    <2> QED
      BY <1>6, <2>2, <2>3 DEF Reads, Holds
  <1>9. Unrowed'
    <2> SUFFICES ASSUME NEW d \in Calls, calls'[d] # None, calls'[d].user \notin raced,
                        \/ calls'[d].pc \in {"add", "invite", "create"}
                        \/ calls'[d].pc = "commit" /\ calls'[d].row = None
                 PROVE  NoRow(calls[d].user)'
      BY <1>2 DEF Unrowed
    <2>1. d # c /\ calls'[d] = calls[d]
      BY <1>6
    <2>2. calls[d].user # calls[c].user
      BY <1>2, <2>1, OthersUnrowed
    <2>3. NoRow(calls[d].user)
      BY <2>1 DEF Unrowed
    <2> QED
      BY <1>3, <1>4, <1>5, <2>1, <2>2, <2>3 DEF NoRow
  <1>10. Serial'
    BY <1>2, <1>6 DEF Serial
  <1>11. OneLock'
    BY <1>6 DEF OneLock, At
  <1>12. OneRow'
    BY <1>1, <1>2, <1>3, <1>4, InsertIsFirst
  <1>13. AcceptedAttends'
    BY <1>2, <1>3 DEF AcceptedAttends, RowsOf
  <1> QED
    BY <1>3, <1>7, <1>8, <1>9, <1>10, <1>11, <1>12, <1>13

------------------------------------------------------------------------------

\* Rows only gain: none appears, disappears or changes its user, and what is
\* noted in one stays noted.
Gains ==
    \A i \in RowIds :
        /\ rows[i] = None <=> rows'[i] = None
        /\ rows[i] # None =>
              /\ rows'[i].user = rows[i].user
              /\ rows[i].isInvited => rows'[i].isInvited
              /\ rows[i].isRegistered => rows'[i].isRegistered
              /\ rows[i].isCheckedIn => rows'[i].isCheckedIn

\* When rows only gain, what is relied on stays.
LEMMA GainsKeep ==
  ASSUME AttendanceInv, NEW c \in Calls, Gains, End(c),
         invitations' = invitations, raced' = raced, strays' = strays,
         removed' = removed,
         members \cup left \subseteq (members \cup left)'
  PROVE  Reads' /\ Unrowed' /\ OneRow' /\ AcceptedAttends'
  <1> USE DEF AttendanceInv
  <1>1. Reads'
    <2>1. ASSUME NEW d \in Calls, calls'[d] # None PROVE Holds(calls[d])'
      <3>1. calls'[d] = calls[d] /\ calls[d] # None /\ Holds(calls[d])
        BY <2>1, EndIs DEF Reads
      <3>2. calls[d].row # None => calls[d].row \in RowIds
        BY <3>1 DEF TypeOK, Call
      <3> QED
        BY <3>1, <3>2 DEF Holds, Gains
    <2> QED
      BY <2>1 DEF Reads, Holds
  <1>2. Unrowed'
    BY EndIs DEF Unrowed, NoRow, Gains
  <1>3. OneRow'
    BY DEF OneRow, Gains
  <1>4. AcceptedAttends'
    <2> SUFFICES ASSUME NEW v \in Invitations, invitations[v] # None,
                        invitations[v].status = "accepted"
                 PROVE  /\ invitations[v].user \in (members \cup left)'
                        /\ \/ invitations[v].user \in removed
                           \/ \E i \in RowsOf(invitations[v].user)' :
                                 rows'[i].isInvited /\ rows'[i].isRegistered
      BY DEF AcceptedAttends
    <2>1. CASE invitations[v].user \in removed
      BY <2>1 DEF AcceptedAttends
    <2>2. ASSUME NEW i \in RowsOf(invitations[v].user),
                 rows[i].isInvited, rows[i].isRegistered
          PROVE  /\ i \in RowsOf(invitations[v].user)'
                 /\ rows'[i].isInvited /\ rows'[i].isRegistered
      BY <2>2 DEF RowsOf, Gains
    <2> QED
      BY <2>1, <2>2 DEF AcceptedAttends
  <1> QED
    BY <1>1, <1>2, <1>3, <1>4

\* Registration, check-in and check-out note something in a row.
LEMMA UpdateKeeps ==
  ASSUME AttendanceInv, NEW c \in Calls, Update(c)
  PROVE  AttendanceInv'
  <1> USE DEF AttendanceInv
  <1> DEFINE i == calls[c].row
  <1>1. /\ calls[c] # None
        /\ calls[c].pc \in {"register", "checkIn", "checkOut"}
        /\ rows' = IF rows[i] = None THEN rows
                   ELSE [rows EXCEPT ![i] = Marked(rows[i], calls[c].pc)]
        /\ End(c)
        /\ UNCHANGED <<fresh, invitations, members, isRegisterable, raced,
                       strays, removed, left>>
    BY DEF Update, At
  <1>2. i \in RowIds
    BY <1>1 DEF Reads, Holds, TypeOK, Call
  <1>3. ASSUME rows[i] # None
        PROVE  LET r == Marked(rows[i], calls[c].pc) IN
               /\ r \in Row
               /\ r.user = rows[i].user
               /\ rows[i].isInvited => r.isInvited
               /\ rows[i].isRegistered => r.isRegistered
               /\ rows[i].isCheckedIn => r.isCheckedIn
               /\ r.isCheckedOut => \/ rows[i].isCheckedOut
                                    \/ calls[c].pc = "checkOut"
    <2>1. rows[i] \in Row
      BY <1>2, <1>3 DEF TypeOK
    <2> QED
      BY <1>1, <2>1 DEF Marked, Row
  <1> HIDE DEF i
  <1>4. /\ rows' \in [RowIds -> Row \cup {None}]
        /\ \A j \in RowIds : rows[j] = None <=> rows'[j] = None
        /\ \A j \in RowIds : j # i => rows'[j] = rows[j]
    <2>1. CASE rows[i] = None
      BY <1>1, <2>1 DEF TypeOK
    <2>2. CASE rows[i] # None
      <3>1. Marked(rows[i], calls[c].pc) \in Row
        BY <1>3, <2>2
      <3>2. Marked(rows[i], calls[c].pc) # None
        BY <3>1, NoneAssumption
      <3> QED
        BY <1>1, <1>2, <2>2, <3>1, <3>2 DEF TypeOK
    <2> QED
      BY <2>1, <2>2
  <1>5. rows[i] # None => rows'[i] = Marked(rows[i], calls[c].pc)
    BY <1>1, <1>2 DEF TypeOK
  <1>6. Gains
    BY <1>3, <1>4, <1>5 DEF Gains
  <1>7. OutAfterIn'
    <2>1. rows[i] # None /\ calls[c].pc = "checkOut" => rows[i].isCheckedIn
      BY <1>1 DEF Reads, Holds, i
    <2> QED
      BY <1>3, <1>4, <1>5, <2>1 DEF OutAfterIn
  <1>8. TypeOK'
    <2>1. \A d \in Calls : calls'[d] # None => calls'[d].row \notin fresh'
      BY <1>1, EndIs DEF TypeOK
    <2> QED
      BY <1>1, <1>4, <2>1, EndIs DEF TypeOK
  <1> QED
    BY <1>1, <1>6, <1>7, <1>8, GainsKeep, EndKeeps

\* The deletion of a row
LEMMA DeleteKeeps ==
  ASSUME AttendanceInv, NEW c \in Calls, Delete(c)
  PROVE  AttendanceInv'
  <1> USE DEF AttendanceInv
  <1> DEFINE i == calls[c].row
  <1>1. /\ calls[c] # None
        /\ calls[c].pc = "delete"
        /\ rows' = [rows EXCEPT ![i] = None]
        /\ removed' = removed \cup {calls[c].user}
        /\ End(c)
        /\ UNCHANGED <<fresh, invitations, members, isRegisterable, raced,
                       strays, left>>
    BY DEF Delete, At
  <1>2. i \in RowIds /\ (rows[i] # None => rows[i].user = calls[c].user)
    BY <1>1 DEF Reads, Holds, TypeOK, Call
  <1>3. calls[c].user \in Users
    BY <1>1 DEF TypeOK, Call
  <1> HIDE DEF i
  <1>4. rows'[i] = None /\ \A j \in RowIds : j # i => rows'[j] = rows[j]
    BY <1>1, <1>2 DEF TypeOK
  <1>5. TypeOK'
    <2>1. rows' \in [RowIds -> Row \cup {None}]
      BY <1>1 DEF TypeOK
    <2>2. \A d \in Calls : calls'[d] # None => calls'[d].row \notin fresh'
      BY <1>1, EndIs DEF TypeOK
    <2>3. \A j \in fresh : rows'[j] = None
      BY <1>4 DEF TypeOK
    <2> QED
      BY <1>1, <1>3, <2>1, <2>2, <2>3, EndIs DEF TypeOK
  <1>6. Reads'
    <2>1. ASSUME NEW d \in Calls, calls'[d] # None PROVE Holds(calls[d])'
      <3>1. calls'[d] = calls[d] /\ calls[d] # None /\ Holds(calls[d])
        BY <1>1, <2>1, EndIs DEF Reads
      <3>2. calls[d].row # None => calls[d].row \in RowIds
        BY <3>1 DEF TypeOK, Call
      <3>3. calls[d].row = i => calls[d].user \in removed'
        BY <1>1, <1>2, <3>1, <3>2, NoneAssumption DEF Holds
      <3> QED
        BY <1>1, <1>4, <3>1, <3>2, <3>3 DEF Holds
    <2> QED
      BY <1>1, <2>1 DEF Reads, Holds
  <1>7. Unrowed'
    BY <1>1, <1>4, EndIs DEF Unrowed, NoRow
  <1>8. OneRow' /\ OutAfterIn'
    BY <1>1, <1>4 DEF OneRow, OutAfterIn
  <1>9. AcceptedAttends'
    <2> SUFFICES ASSUME NEW v \in Invitations, invitations[v] # None,
                        invitations[v].status = "accepted",
                        invitations[v].user \notin removed'
                 PROVE  \E j \in RowsOf(invitations[v].user)' :
                                 rows'[j].isInvited /\ rows'[j].isRegistered
      BY <1>1 DEF AcceptedAttends
    <2>1. PICK j \in RowsOf(invitations[v].user) :
             rows[j].isInvited /\ rows[j].isRegistered
      BY <1>1 DEF AcceptedAttends
    <2>2. j # i
      BY <1>1, <1>2, <2>1 DEF RowsOf
    <2> QED
      BY <1>1, <1>4, <2>1, <2>2 DEF RowsOf
  <1> QED
    BY <1>1, <1>5, <1>6, <1>7, <1>8, <1>9, EndKeeps

------------------------------------------------------------------------------

\* A transaction that locks an invitation relies on the attendee it reads then.
LEMMA LockKeeps ==
  ASSUME AttendanceInv, NEW c \in Calls, Lock(c)
  PROVE  AttendanceInv'
  <1> USE DEF AttendanceInv
  <1>1. PICK i \in First(calls[c].user) :
           calls' = [calls EXCEPT ![c].pc = "commit", ![c].row = i,
                                  ![c].member = calls[c].user \in members]
    BY DEF Lock
  <1>2. /\ calls[c] # None
        /\ calls[c].pc = "lock"
        /\ ~Locked(calls[c].inv)
        /\ UNCHANGED <<rows, fresh, invitations, members, isRegisterable, raced,
                       strays, removed, left>>
    BY DEF Lock, At
  <1>3. /\ i = None => NoRow(calls[c].user)
        /\ i # None => /\ i \in RowIds
                       /\ rows[i] # None
                       /\ rows[i].user = calls[c].user
    BY FirstIs
  <1>4. calls[c] \in Call
    BY <1>2 DEF TypeOK
  <1>5. /\ calls'[c] \in Call
        /\ calls'[c].pc = "commit" /\ calls'[c].row = i
        /\ calls'[c].user = calls[c].user /\ calls'[c].inv = calls[c].inv
        /\ calls'[c].member => calls[c].user \in members
        /\ \A d \in Calls : d # c => calls'[d] = calls[d]
    <2>1. (calls[c].user \in members) \in BOOLEAN
      OBVIOUS
    <2>2. i \in RowIds \cup {None}
      BY <1>3
    <2> QED
      BY <1>1, <1>4, <2>1, <2>2 DEF TypeOK, Call
  <1>6. calls'[c] # None
    BY <1>5, NoneAssumption
  <1>7. TypeOK'
    <2>1. calls' \in [Calls -> Call \cup {None}]
      BY <1>1, <1>5 DEF TypeOK
    <2>2. \A d \in Calls : calls'[d] # None => calls'[d].row \notin fresh'
      <3>1. i \notin fresh
        BY <1>3, NoneAssumption DEF TypeOK
      <3> QED
        BY <1>2, <1>5, <3>1 DEF TypeOK
    <2> QED
      BY <1>2, <2>1, <2>2 DEF TypeOK
  <1>8. Reads'
    <2>1. Holds(calls[c])
      BY <1>2 DEF Reads
    <2>2. Holds(calls[c])'
      BY <1>2, <1>3, <1>5, <2>1 DEF Holds
    <2>3. ASSUME NEW d \in Calls, d # c, calls[d] # None PROVE Holds(calls[d])'
      BY <1>2, <1>5, <2>3 DEF Reads, Holds
    <2> QED
      BY <1>5, <2>2, <2>3 DEF Reads, Holds
  <1>9. Unrowed'
    BY <1>2, <1>3, <1>5 DEF Unrowed, NoRow
  <1>10. Serial'
    BY <1>2, <1>5 DEF Serial
  <1>11. OneLock'
    BY <1>2, <1>5 DEF OneLock, At, Locked
  <1>12. OneRow' /\ OutAfterIn' /\ AcceptedAttends'
    BY <1>2 DEF OneRow, OutAfterIn, AcceptedAttends, RowsOf
  <1> QED
    BY <1>7, <1>8, <1>9, <1>10, <1>11, <1>12

\* What a committed acceptance leaves: a row that is invited and registered, or
\* no row where the one it read was deleted.
LEMMA AttendeeKeeps ==
  ASSUME AttendanceInv, NEW c \in Calls, At(c, "commit"), End(c),
         WithAttendee(calls[c].user, calls[c].row),
         raced' = raced, strays' = strays
  PROVE  /\ rows' \in [RowIds -> Row \cup {None}]
         /\ fresh' \subseteq fresh
         /\ \A j \in fresh' : rows'[j] = None
         /\ \A j \in RowIds : rows[j] # None =>
               /\ rows'[j] # None
               /\ rows'[j].user = rows[j].user
               /\ rows[j].isInvited => rows'[j].isInvited
               /\ rows[j].isRegistered => rows'[j].isRegistered
               /\ rows[j].isCheckedIn => rows'[j].isCheckedIn
         /\ \A j \in RowIds : rows[j] = None /\ rows'[j] # None =>
               rows'[j].user = calls[c].user /\ j \in fresh
         /\ \/ calls[c].user \in removed
            \/ \E j \in RowIds : /\ rows'[j] # None
                                 /\ rows'[j].user = calls[c].user
                                 /\ rows'[j].isInvited /\ rows'[j].isRegistered
         /\ OneRow' /\ OutAfterIn'
  <1> USE DEF AttendanceInv
  <1>1. calls[c] # None /\ calls[c].pc = "commit" /\ Holds(calls[c])
    BY DEF At, Reads
  <1>2. CASE calls[c].row = None
    <2> DEFINE r == NewRow(calls[c].user, TRUE, TRUE)
    <2>1. PICK i \in fresh : rows' = [rows EXCEPT ![i] = r] /\ fresh' = fresh \ {i}
      BY <1>2 DEF WithAttendee
    <2>2. /\ r.user = calls[c].user /\ r.isInvited = TRUE /\ r.isRegistered = TRUE
          /\ r # None
      <3>1. r \in Row
        BY <1>1 DEF NewRow, Row, TypeOK, Call
      <3> QED
        BY <3>1, NoneAssumption DEF NewRow
    <2>3. /\ rows' \in [RowIds -> Row \cup {None}]
          /\ \A j \in fresh' : rows'[j] = None
          /\ \A j \in RowIds : rows[j] # None => j # i /\ rows'[j] = rows[j]
          /\ i \in RowIds /\ rows[i] = None
          /\ rows'[i] = r
          /\ r \in Row
          /\ OutAfterIn'
      BY <1>1, <2>1, NewRowKeeps
    <2> HIDE DEF r
    <2>4. \A j \in RowIds : j # i => rows'[j] = rows[j]
      BY <2>1 DEF TypeOK
    <2>5. OneRow'
      BY <1>1, <1>2, <2>1, <2>2, <2>3, InsertIsFirst
    <2> QED
      BY <2>1, <2>2, <2>3, <2>4, <2>5
  <1>3. CASE calls[c].row # None
    <2> DEFINE i == calls[c].row
    <2>1. /\ i \in RowIds
          /\ fresh' = fresh
          /\ rows' = IF rows[i] = None THEN rows
                     ELSE [rows EXCEPT ![i].isInvited = TRUE,
                                       ![i].isRegistered = TRUE]
      BY <1>1, <1>3 DEF WithAttendee, TypeOK, Call
    <2>2. /\ rows[i] = None => calls[c].user \in removed
          /\ rows[i] # None => rows[i].user = calls[c].user
      BY <1>1, <1>3 DEF Holds
    <2> HIDE DEF i
    <2>3. CASE rows[i] = None
      BY <2>1, <2>2, <2>3 DEF TypeOK, OneRow, OutAfterIn
    <2>4. CASE rows[i] # None
      <3>1. rows[i] \in Row
        BY <2>1, <2>4 DEF TypeOK
      <3>2. /\ rows'[i] \in Row
            /\ rows'[i].user = rows[i].user
            /\ rows'[i].isInvited = TRUE /\ rows'[i].isRegistered = TRUE
            /\ rows'[i].isCheckedIn = rows[i].isCheckedIn
            /\ rows'[i].isCheckedOut = rows[i].isCheckedOut
            /\ \A j \in RowIds : j # i => rows'[j] = rows[j]
        BY <2>1, <2>4, <3>1 DEF TypeOK, Row
      <3>3. rows'[i] # None
        BY <3>2, NoneAssumption
      <3>4. rows' \in [RowIds -> Row \cup {None}]
        BY <2>1, <2>4, <3>2 DEF TypeOK
      <3>5. OneRow' /\ OutAfterIn'
        BY <2>4, <3>2 DEF OneRow, OutAfterIn
      <3>6. \A j \in fresh' : rows'[j] = None
        BY <2>1, <2>4, <3>2 DEF TypeOK
      <3>7. \A j \in RowIds : rows[j] # None =>
               /\ rows'[j] # None
               /\ rows'[j].user = rows[j].user
               /\ rows[j].isInvited => rows'[j].isInvited
               /\ rows[j].isRegistered => rows'[j].isRegistered
               /\ rows[j].isCheckedIn => rows'[j].isCheckedIn
        BY <3>2, <3>3
      <3>8. \A j \in RowIds : ~(rows[j] = None /\ rows'[j] # None)
        BY <2>4, <3>2
      <3> QED
        BY <2>1, <2>2, <2>4, <3>2, <3>3, <3>4, <3>5, <3>6, <3>7, <3>8
    <2> QED
      BY <2>3, <2>4
  <1> QED
    BY <1>2, <1>3

\* An acceptance that commits, or rolls back
LEMMA CommitKeeps ==
  ASSUME AttendanceInv, NEW c \in Calls, Commit(c)
  PROVE  AttendanceInv'
  <1> USE DEF AttendanceInv
  <1> DEFINE u == calls[c].user
             v == calls[c].inv
  <1>1. /\ At(c, "commit") /\ calls[c] # None /\ Holds(calls[c])
        /\ End(c)
        /\ UNCHANGED <<isRegisterable, raced, strays, removed, left>>
    BY DEF Commit, At, Reads
  <1>2. CASE UNCHANGED <<rows, fresh, invitations, members>>
    <2>1. Gains
      BY <1>2 DEF Gains
    <2>2. TypeOK'
      BY <1>1, <1>2, EndIs DEF TypeOK
    <2>3. OutAfterIn'
      BY <1>2 DEF OutAfterIn
    <2> QED
      BY <1>1, <1>2, <2>1, <2>2, <2>3, GainsKeep, EndKeeps
  <1>3. CASE /\ invitations' = [invitations EXCEPT ![v].status = "accepted"]
             /\ members' = IF calls[c].member THEN members ELSE members \cup {u}
             /\ WithAttendee(u, calls[c].row)
    <2>1. /\ v \in Invitations /\ u \in Users
          /\ invitations[v] # None /\ invitations[v].user = u
          /\ invitations[v] \in Invitation
      BY <1>1 DEF Holds, At, TypeOK, Call
    <2>2. /\ invitations'[v] \in Invitation
          /\ invitations'[v].user = u
          /\ \A w \in Invitations : w # v => invitations'[w] = invitations[w]
          /\ invitations' \in [Invitations -> Invitation \cup {None}]
      <3>1. invitations'[v] = [invitations[v] EXCEPT !.status = "accepted"]
        BY <1>3, <2>1 DEF TypeOK
      <3>2. invitations'[v] \in Invitation /\ invitations'[v].user = u
        BY <2>1, <3>1 DEF Invitation
      <3> QED
        BY <1>3, <2>1, <3>2 DEF TypeOK
    <2>3. invitations'[v] # None
      BY <2>2, NoneAssumption
    <2>4. u \in (members \cup left)' /\ members \subseteq members'
          /\ members' \subseteq Users
      BY <1>1, <1>3, <2>1 DEF Holds, At, TypeOK
    <2>5. /\ rows' \in [RowIds -> Row \cup {None}]
          /\ fresh' \subseteq fresh
          /\ \A j \in fresh' : rows'[j] = None
          /\ \A j \in RowIds : rows[j] # None =>
                /\ rows'[j] # None
                /\ rows'[j].user = rows[j].user
                /\ rows[j].isInvited => rows'[j].isInvited
                /\ rows[j].isRegistered => rows'[j].isRegistered
                /\ rows[j].isCheckedIn => rows'[j].isCheckedIn
          /\ \A j \in RowIds : rows[j] = None /\ rows'[j] # None =>
                rows'[j].user = u /\ j \in fresh
          /\ \/ u \in removed
             \/ \E j \in RowIds : /\ rows'[j] # None
                                  /\ rows'[j].user = u
                                  /\ rows'[j].isInvited /\ rows'[j].isRegistered
          /\ OneRow' /\ OutAfterIn'
      BY <1>1, <1>3, AttendeeKeeps
    <2> HIDE DEF u, v
    <2>6. TypeOK'
      <3>1. \A d \in Calls : calls'[d] # None => calls'[d].row \notin fresh'
        BY <1>1, <2>5, EndIs DEF TypeOK
      <3> QED
        BY <1>1, <2>2, <2>4, <2>5, <3>1, EndIs DEF TypeOK
    <2>7. Reads'
      <3>1. ASSUME NEW d \in Calls, calls'[d] # None PROVE Holds(calls[d])'
        <4>1. calls'[d] = calls[d] /\ calls[d] # None /\ Holds(calls[d])
          BY <1>1, <3>1, EndIs DEF Reads
        <4>2. calls[d].row # None =>
                 calls[d].row \in RowIds /\ calls[d].row \notin fresh
          BY <4>1 DEF TypeOK, Call
        <4>3. calls[d].row # None =>
                 \/ rows[calls[d].row] = None /\ rows'[calls[d].row] = None
                 \/ /\ rows[calls[d].row] # None /\ rows'[calls[d].row] # None
                    /\ rows'[calls[d].row].user = rows[calls[d].row].user
                    /\ rows[calls[d].row].isCheckedIn =>
                           rows'[calls[d].row].isCheckedIn
          BY <2>5, <4>2
        <4>4. calls[d].inv # None => calls[d].inv \in Invitations
          BY <4>1 DEF TypeOK, Call
        <4>5. calls[d].inv # None =>
                 /\ invitations'[calls[d].inv] # None
                 /\ invitations'[calls[d].inv].user = calls[d].user
          BY <2>1, <2>2, <2>3, <4>1, <4>4 DEF Holds
        <4> QED
          BY <1>1, <2>4, <4>1, <4>3, <4>5 DEF Holds
      <3> QED
        BY <1>1, <3>1 DEF Reads, Holds
    <2>8. Unrowed'
      <3> SUFFICES ASSUME NEW d \in Calls, calls'[d] # None, calls'[d].user \notin raced,
                          \/ calls'[d].pc \in {"add", "invite", "create"}
                          \/ calls'[d].pc = "commit" /\ calls'[d].row = None
                   PROVE  NoRow(calls[d].user)'
        BY <1>1 DEF Unrowed
      <3>1. d # c /\ calls'[d] = calls[d]
        BY <1>1, EndIs
      <3>2. calls[d].user # u
        BY <1>1, <3>1, OthersUnrowed DEF At, u
      <3>3. NoRow(calls[d].user)
        BY <3>1 DEF Unrowed
      <3> QED
        BY <2>5, <3>1, <3>2, <3>3 DEF NoRow
    <2>9. AcceptedAttends'
      <3> SUFFICES ASSUME NEW w \in Invitations, invitations'[w] # None,
                          invitations'[w].status = "accepted"
                   PROVE  /\ invitations'[w].user \in (members \cup left)'
                          /\ \/ invitations'[w].user \in removed
                             \/ \E j \in RowIds :
                                   /\ rows'[j] # None
                                   /\ rows'[j].user = invitations'[w].user
                                   /\ rows'[j].isInvited /\ rows'[j].isRegistered
        BY <1>1 DEF AcceptedAttends, RowsOf
      <3>1. CASE w = v
        BY <2>2, <2>4, <2>5, <3>1
      <3>2. CASE w # v
        <4>1. invitations[w] = invitations'[w]
          BY <2>2, <3>2
        <4>2. invitations[w].user \in (members \cup left)'
          BY <1>1, <2>4, <4>1 DEF AcceptedAttends
        <4>3. \/ invitations[w].user \in removed
              \/ \E j \in RowIds : /\ rows[j] # None
                                   /\ rows[j].user = invitations[w].user
                                   /\ rows[j].isInvited /\ rows[j].isRegistered
          BY <4>1 DEF AcceptedAttends, RowsOf
        <4> QED
          BY <2>5, <4>1, <4>2, <4>3
      <3> QED
        BY <3>1, <3>2
    <2> QED
      BY <1>1, <2>5, <2>6, <2>7, <2>8, <2>9, EndKeeps
  <1> QED
    BY <1>2, <1>3 DEF Commit

------------------------------------------------------------------------------

\* Invitations that are sent or expire, memberships that come and go, and
\* updates of the event
LEMMA AroundKeeps ==
  ASSUME AttendanceInv,
         \/ \E v \in Invitations, u \in Users : SendEventInvitation(v, u)
         \/ \E v \in Invitations : Expire(v)
         \/ \E u \in Users : Join(u) \/ Leave(u)
         \/ UpdateEvent
         \/ UNCHANGED vars
  PROVE  AttendanceInv'
  <1> USE DEF AttendanceInv
  <1>1. /\ UNCHANGED <<rows, fresh, calls, raced, strays, removed>>
        /\ isRegisterable' \in BOOLEAN
        /\ members' \subseteq Users /\ left' \subseteq Users
        /\ members \cup left \subseteq (members \cup left)'
    BY DEF SendEventInvitation, Expire, Join, Leave, UpdateEvent, vars, TypeOK
  <1> DEFINE Kept ==
        /\ invitations' \in [Invitations -> Invitation \cup {None}]
        /\ \A v \in Invitations : invitations[v] # None =>
              /\ invitations'[v] # None
              /\ invitations'[v].user = invitations[v].user
        /\ \A v \in Invitations :
              invitations'[v] # None /\ invitations'[v].status = "accepted" =>
                 /\ invitations[v] # None
                 /\ invitations[v].status = "accepted"
  <1>2. Kept
    <2>1. CASE UNCHANGED invitations
      BY <2>1 DEF TypeOK
    <2>2. ASSUME NEW v \in Invitations, NEW r \in Invitation,
                 invitations' = [invitations EXCEPT ![v] = r],
                 \/ invitations[v] = None /\ r.status = "pending"
                 \/ /\ invitations[v] # None
                    /\ r.user = invitations[v].user
                    /\ r.status = invitations[v].status
          PROVE  Kept
      <3>1. r # None
        BY NoneAssumption
      <3>2. invitations'[v] = r /\ \A w \in Invitations : w # v =>
                                      invitations'[w] = invitations[w]
        BY <2>2 DEF TypeOK
      <3> QED
        BY <2>2, <3>1, <3>2 DEF TypeOK
    <2>3. ASSUME NEW v \in Invitations, NEW u \in Users, SendEventInvitation(v, u)
          PROVE  Kept
      <3>1. [user |-> u, status |-> "pending", expired |-> FALSE] \in Invitation
        BY DEF Invitation
      <3> QED
        BY <2>2, <2>3, <3>1 DEF SendEventInvitation
    <2>4. ASSUME NEW v \in Invitations, Expire(v) PROVE Kept
      <3> DEFINE r == [invitations[v] EXCEPT !.expired = TRUE]
      <3>1. invitations[v] # None /\ invitations' = [invitations EXCEPT ![v] = r]
        BY <2>4 DEF Expire
      <3>2. /\ r \in Invitation /\ r.user = invitations[v].user
            /\ r.status = invitations[v].status
        BY <3>1 DEF TypeOK, Invitation
      <3> QED
        BY <2>2, <3>1, <3>2
    <2> QED
      BY <2>1, <2>3, <2>4 DEF Join, Leave, UpdateEvent, vars
  <1>3. TypeOK'
    BY <1>1, <1>2 DEF TypeOK
  <1>4. Reads'
    <2>1. \A d \in Calls : calls[d] # None /\ calls[d].inv # None =>
             calls[d].inv \in Invitations
      BY DEF TypeOK, Call
    <2> QED
      BY <1>1, <1>2, <2>1 DEF Reads, Holds
  <1>5. Unrowed' /\ Serial' /\ OneLock' /\ OneRow' /\ OutAfterIn'
    BY <1>1 DEF Unrowed, NoRow, Serial, OneLock, At, OneRow, OutAfterIn
  <1>6. AcceptedAttends'
    <2> SUFFICES ASSUME NEW v \in Invitations, invitations'[v] # None,
                        invitations'[v].status = "accepted"
                 PROVE  /\ invitations'[v].user \in (members \cup left)'
                        /\ \/ invitations'[v].user \in removed
                           \/ \E j \in RowIds :
                                 /\ rows[j] # None
                                 /\ rows[j].user = invitations'[v].user
                                 /\ rows[j].isInvited /\ rows[j].isRegistered
      BY <1>1 DEF AcceptedAttends, RowsOf
    <2>1. /\ invitations[v] # None /\ invitations[v].status = "accepted"
          /\ invitations'[v].user = invitations[v].user
      BY <1>2
    <2> QED
      BY <1>1, <2>1 DEF AcceptedAttends, RowsOf
  <1> QED
    BY <1>3, <1>4, <1>5, <1>6

\* Every step keeps the invariant.
LEMMA NextKeeps == AttendanceInv /\ [Next]_vars => AttendanceInv'
  <1> SUFFICES ASSUME AttendanceInv, [Next]_vars PROVE AttendanceInv'
    OBVIOUS
  <1>1. ASSUME NEW c \in Calls, NEW u \in Users, Mutation(c, u)
        PROVE  AttendanceInv'
    BY <1>1, MutationsKeep
  <1>2. ASSUME NEW c \in Calls, NEW v \in Invitations, AcceptEventInvitation(c, v)
        PROVE  AttendanceInv'
    BY <1>2, AcceptKeeps
  <1>3. ASSUME NEW c \in Calls, Step(c) PROVE AttendanceInv'
    BY <1>3, InsertKeeps, CreateKeeps, UpdateKeeps, DeleteKeeps, LockKeeps,
       CommitKeeps DEF Step
  <1>4. CASE \/ \E v \in Invitations, u \in Users : SendEventInvitation(v, u)
             \/ \E v \in Invitations : Expire(v)
             \/ \E u \in Users : Join(u) \/ Leave(u)
             \/ UpdateEvent
             \/ UNCHANGED vars
    BY <1>4, AroundKeeps
  <1> QED
    BY <1>1, <1>2, <1>3, <1>4 DEF Next

------------------------------------------------------------------------------

\* Everything the attendees' mutations rely on holds throughout.
THEOREM Invariance == Spec => []AttendanceInv
  BY InitHolds, NextKeeps, PTL DEF Spec

\* The tables and the memory of the mutations are well formed, and the id of a
\* row is given out once.
THEOREM TypeCorrect == Spec => []TypeOK
  <1>1. AttendanceInv => TypeOK
    BY DEF AttendanceInv
  <1> QED
    BY <1>1, Invariance, PTL

\* Without two mutations about a user at once, or a registration beside a row
\* that a check-in created, no user has two rows.
THEOREM OneRowEach == Spec => []OneRow
  <1>1. AttendanceInv => OneRow
    BY DEF AttendanceInv
  <1> QED
    BY <1>1, Invariance, PTL

\* A check-out follows a check-in, however mutations interleave.
THEOREM OutOnlyAfterIn == Spec => []OutAfterIn
  <1>1. AttendanceInv => OutAfterIn
    BY DEF AttendanceInv
  <1> QED
    BY <1>1, Invariance, PTL

\* An accepted invitation has made a member and a registered attendee.
THEOREM AcceptanceIsWhole == Spec => []AcceptedAttends
  <1>1. AttendanceInv => AcceptedAttends
    BY DEF AttendanceInv
  <1> QED
    BY <1>1, Invariance, PTL

\* Whatever a step writes, a row that stays has all it had.
LEMMA StepUndoesNothing ==
  ASSUME TypeOK, Reads, Next, NEW i \in RowIds, rows[i] # None, rows'[i] # None
  PROVE  /\ rows'[i].user = rows[i].user
         /\ rows[i].isInvited => rows'[i].isInvited
         /\ rows[i].isRegistered => rows'[i].isRegistered
         /\ rows[i].isCheckedIn => rows'[i].isCheckedIn
         /\ rows[i].isCheckedOut => rows'[i].isCheckedOut
  <1>1. rows[i] \in Row /\ i \notin fresh
    BY DEF TypeOK
  <1>2. CASE UNCHANGED rows
    BY <1>2
  <1>3. ASSUME NEW j \in fresh, NEW r, rows' = [rows EXCEPT ![j] = r]
        PROVE  rows'[i] = rows[i]
    BY <1>1, <1>3 DEF TypeOK
  <1>4. ASSUME NEW c \in Calls, Insert(c) \/ Create(c) PROVE rows'[i] = rows[i]
    BY <1>3, <1>4 DEF Insert, Create
  <1>5. ASSUME NEW c \in Calls, Delete(c) PROVE rows'[i] = rows[i]
    <2>1. rows' = [rows EXCEPT ![calls[c].row] = None]
      BY <1>5 DEF Delete
    <2> QED
      BY <2>1 DEF TypeOK
  <1>6. ASSUME NEW c \in Calls, Update(c), rows'[i] # rows[i]
        PROVE  rows'[i] = Marked(rows[i], calls[c].pc)
    <2>1. rows' = IF rows[calls[c].row] = None THEN rows
                  ELSE [rows EXCEPT ![calls[c].row] =
                           Marked(rows[calls[c].row], calls[c].pc)]
      BY <1>6 DEF Update
    <2> QED
      BY <1>6, <2>1 DEF TypeOK
  <1>7. ASSUME NEW c \in Calls, Commit(c), rows'[i] # rows[i]
        PROVE  rows'[i] = [rows[i] EXCEPT !.isInvited = TRUE, !.isRegistered = TRUE]
    <2>1. WithAttendee(calls[c].user, calls[c].row)
      BY <1>7 DEF Commit
    <2>2. CASE calls[c].row = None
      BY <1>3, <1>7, <2>1, <2>2 DEF WithAttendee
    <2>3. CASE calls[c].row # None
      <3>1. rows' = IF rows[calls[c].row] = None THEN rows
                    ELSE [rows EXCEPT ![calls[c].row].isInvited = TRUE,
                                      ![calls[c].row].isRegistered = TRUE]
        BY <2>1, <2>3 DEF WithAttendee
      <3>2. calls[c].row \in RowIds
        BY <1>7, <2>3 DEF Commit, At, TypeOK, Call
      <3> QED
        BY <1>1, <1>7, <3>1, <3>2 DEF TypeOK, Row
    <2> QED
      BY <2>2, <2>3
  <1>8. CASE \E c \in Calls : Step(c)
    <2> PICK c \in Calls : Step(c)
      BY <1>8
    <2>1. CASE Lock(c) \/ rows'[i] = rows[i]
      BY <2>1 DEF Lock
    <2>2. CASE Update(c) /\ rows'[i] # rows[i]
      BY <1>1, <1>6, <2>2 DEF Marked, Row
    <2>3. CASE Commit(c) /\ rows'[i] # rows[i]
      BY <1>1, <1>7, <2>3 DEF Row
    <2> QED
      BY <1>4, <1>5, <2>1, <2>2, <2>3 DEF Step
  <1>9. CASE \E c \in Calls, u \in Users : Mutation(c, u)
    BY <1>2, <1>9 DEF Mutation, AddEventAttendee, InviteEventAttendee,
       RegisterForEvent, RegisterEventAttendee, CheckIn, CheckOut,
       RemoveEventAttendee, Begin
  <1>10. CASE \/ \E c \in Calls, v \in Invitations : AcceptEventInvitation(c, v)
              \/ \E v \in Invitations, u \in Users : SendEventInvitation(v, u)
              \/ \E v \in Invitations : Expire(v)
              \/ \E u \in Users : Join(u) \/ Leave(u)
              \/ UpdateEvent
    BY <1>2, <1>10 DEF AcceptEventInvitation, Begin, SendEventInvitation, Expire,
       Join, Leave, UpdateEvent
  <1> QED
    BY <1>8, <1>9, <1>10 DEF Next

\* A mutation that writes what it decided on an old read undoes nothing that
\* another one noted in between.
THEOREM UndoesNothing == Spec => NothingUndone
  <1>1. AttendanceInv => TypeOK /\ Reads
    BY DEF AttendanceInv
  <1>2. TypeOK /\ Reads /\ [Next]_vars =>
           [\A i \in RowIds : rows[i] # None /\ rows'[i] # None =>
               /\ rows'[i].user = rows[i].user
               /\ rows[i].isInvited => rows'[i].isInvited
               /\ rows[i].isRegistered => rows'[i].isRegistered
               /\ rows[i].isCheckedIn => rows'[i].isCheckedIn
               /\ rows[i].isCheckedOut => rows'[i].isCheckedOut]_vars
    BY StepUndoesNothing
  <1> QED
    BY <1>1, <1>2, Invariance, PTL DEF Spec, NothingUndone
=============================================================================
