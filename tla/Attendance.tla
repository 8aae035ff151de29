----------------------------- MODULE Attendance -----------------------------
(***************************************************************************)
(* Attendees of one event (standalone, or one instance of a series) and    *)
(* the invitations to it.  Every mutation reads what it needs, awaits, and *)
(* writes what it decided; nothing in event_attendees keeps a user from    *)
(* having two rows.  Mutations run at the same time.                       *)
(***************************************************************************)
EXTENDS Naturals, FiniteSets

CONSTANTS
    Users,
    Invitations,    \* invitations that can be sent
    RowIds,         \* ids of rows of event_attendees that can be created
    Calls,          \* mutations that can be in flight
    None            \* no row, no invitation, no mutation

VARIABLES
    rows,           \* event_attendees: rows[i] is the row with the id i, or None
    fresh,          \* ids that no row has had
    invitations,    \* event_invitations
    members,        \* members of the organization of the event
    isRegisterable, \* of the event, or of the exception of the instance
    calls,          \* what each mutation in flight has in memory
    raced,          \* history: users that two mutations dealt with at once
    strays,         \* history: users who registered beside a row they had
    removed,        \* history: users a row of whom was deleted
    left            \* history: users who ceased to be members

vars == <<rows, fresh, invitations, members, isRegisterable, calls,
          raced, strays, removed, left>>

Row == [user : Users, isInvited : BOOLEAN, isRegistered : BOOLEAN,
        isCheckedIn : BOOLEAN, isCheckedOut : BOOLEAN]

Invitation == [user : Users, status : {"pending", "accepted"},
               expired : BOOLEAN]

\* A mutation in flight: about which user, what it will write next, the row it
\* read, and for an acceptance its invitation and whether it saw a membership.
Call == [user : Users,
         pc : {"add", "invite", "join", "create", "register", "checkIn",
               "checkOut", "delete", "lock", "commit"},
         row : RowIds \cup {None}, inv : Invitations \cup {None},
         member : BOOLEAN]

ASSUME NoneAssumption ==
    None \notin Row \cup Invitation \cup Call \cup RowIds \cup Invitations

NewRow(u, invited, registered) ==
    [user |-> u, isInvited |-> invited, isRegistered |-> registered,
     isCheckedIn |-> FALSE, isCheckedOut |-> FALSE]

RowsOf(u) == {i \in RowIds : rows[i] # None /\ rows[i].user = u}

\* What a query for the first row of a user may return
First(u) == IF RowsOf(u) = {} THEN {None} ELSE RowsOf(u)

Init ==
    /\ rows = [i \in RowIds |-> None]
    /\ fresh = RowIds
    /\ invitations = [v \in Invitations |-> None]
    /\ members = {}
    /\ isRegisterable \in BOOLEAN
    /\ calls = [c \in Calls |-> None]
    /\ raced = {}
    /\ strays = {}
    /\ removed = {}
    /\ left = {}

------------------------------------------------------------------------------
(* What the mutations read                                                 *)

\* Two mutations about a user are in flight, other than two acceptances of one
\* invitation.
Races(u, v) ==
    \E c \in Calls : /\ calls[c] # None
                     /\ calls[c].user = u
                     /\ v = None \/ calls[c].inv # v

Begin(c, u, pc, row, v) ==
    /\ calls[c] = None
    /\ calls' = [calls EXCEPT ![c] = [user |-> u, pc |-> pc, row |-> row,
                                      inv |-> v, member |-> FALSE]]
    /\ raced' = IF Races(u, v) THEN raced \cup {u} ELSE raced
    /\ UNCHANGED <<rows, fresh, invitations, members, isRegisterable,
                   strays, removed, left>>

\* addEventAttendee and inviteEventAttendee refuse a user who has a row.
AddEventAttendee(c, u) == First(u) = {None} /\ Begin(c, u, "add", None, None)

InviteEventAttendee(c, u) ==
    First(u) = {None} /\ Begin(c, u, "invite", None, None)

\* registerForEvent refuses who is registered, updates the row of who is
\* invited, and creates a row for everybody else, whether there is one or not.
MayRegister(row) == row.isInvited /\ ~row.isRegistered

RegisterForEvent(c, u) ==
    /\ isRegisterable
    /\ \E i \in First(u) :
          \/ i = None /\ Begin(c, u, "add", None, None)
          \/ i # None /\ MayRegister(rows[i]) /\ Begin(c, u, "register", i, None)
          \/ /\ i # None
             /\ ~rows[i].isInvited /\ ~rows[i].isRegistered
             /\ Begin(c, u, "join", i, None)

\* registerEventAttendee refuses everybody who has a row, but for those who
\* are invited and not registered.
RegisterEventAttendee(c, u) ==
    \E i \in First(u) :
        \/ i = None /\ Begin(c, u, "add", None, None)
        \/ i # None /\ MayRegister(rows[i]) /\ Begin(c, u, "register", i, None)

\* checkIn creates the row that it does not find.
CheckIn(c, u) ==
    \E i \in First(u) :
        \/ i = None /\ Begin(c, u, "create", None, None)
        \/ i # None /\ ~rows[i].isCheckedIn /\ Begin(c, u, "checkIn", i, None)

\* Fault: checkOut only looks at whether the attendee is checked out.
CheckOutUnseen(c, u) ==
    \E i \in First(u) \ {None} :
        ~rows[i].isCheckedOut /\ Begin(c, u, "checkOut", i, None)

CheckOut(c, u) ==
    \E i \in First(u) \ {None} :
        /\ rows[i].isCheckedIn /\ ~rows[i].isCheckedOut
        /\ Begin(c, u, "checkOut", i, None)

\* removeEventAttendee, by an administrator, and unregisterForEventByUser
RemoveEventAttendee(c, u) ==
    \E i \in First(u) \ {None} : Begin(c, u, "delete", i, None)

\* acceptEventInvitation: the invitation is pending and has not expired.
AcceptEventInvitation(c, v) ==
    /\ invitations[v] # None
    /\ invitations[v].status = "pending"
    /\ ~invitations[v].expired
    /\ Begin(c, invitations[v].user, "lock", None, v)

------------------------------------------------------------------------------
(* What they write                                                         *)

At(c, pc) == calls[c] # None /\ calls[c].pc = pc

End(c) == calls' = [calls EXCEPT ![c] = None]

\* Insertions of addEventAttendee, registerForEvent, registerEventAttendee and
\* inviteEventAttendee
Insert(c) ==
    /\ At(c, "add") \/ At(c, "invite") \/ At(c, "join")
    /\ \E i \in fresh :
          /\ rows' = [rows EXCEPT ![i] =
                         IF At(c, "invite") THEN NewRow(calls[c].user, TRUE, FALSE)
                         ELSE NewRow(calls[c].user, FALSE, TRUE)]
          /\ fresh' = fresh \ {i}
    /\ strays' = IF At(c, "join") THEN strays \cup {calls[c].user} ELSE strays
    /\ End(c)
    /\ UNCHANGED <<invitations, members, isRegisterable, raced, removed, left>>

\* checkIn without a row: the row is created first, and marked next.
Create(c) ==
    /\ At(c, "create")
    /\ \E i \in fresh :
          /\ rows' = [rows EXCEPT ![i] = NewRow(calls[c].user, FALSE, FALSE)]
          /\ fresh' = fresh \ {i}
          /\ calls' = [calls EXCEPT ![c].row = i, ![c].pc = "checkIn"]
    /\ UNCHANGED <<invitations, members, isRegisterable, raced, strays,
                   removed, left>>

\* Fault: the whole row is written, with the registration undone.
MarkedAfresh(row, pc) ==
    IF pc = "checkIn" THEN [NewRow(row.user, row.isInvited, FALSE)
                               EXCEPT !.isCheckedIn = TRUE]
    ELSE IF pc = "checkOut" THEN [row EXCEPT !.isCheckedOut = TRUE]
    ELSE [row EXCEPT !.isRegistered = TRUE]

\* The columns an update sets
Marked(row, pc) ==
    IF pc = "checkIn" THEN [row EXCEPT !.isCheckedIn = TRUE]
    ELSE IF pc = "checkOut" THEN [row EXCEPT !.isCheckedOut = TRUE]
    ELSE [row EXCEPT !.isRegistered = TRUE]

\* Updates by id.  A row that has been deleted is not updated, which is an error.
Update(c) ==
    /\ At(c, "register") \/ At(c, "checkIn") \/ At(c, "checkOut")
    /\ LET i == calls[c].row IN
       rows' = IF rows[i] = None THEN rows
               ELSE [rows EXCEPT ![i] = Marked(rows[i], calls[c].pc)]
    /\ End(c)
    /\ UNCHANGED <<fresh, invitations, members, isRegisterable, raced, strays,
                   removed, left>>

\* Fault: the id of a deleted row is given out again.
DeleteFreeing(c) ==
    /\ At(c, "delete")
    /\ rows' = [rows EXCEPT ![calls[c].row] = None]
    /\ fresh' = fresh \cup {calls[c].row}
    /\ removed' = removed \cup {calls[c].user}
    /\ End(c)
    /\ UNCHANGED <<invitations, members, isRegisterable, raced, strays, left>>

\* Deletion by id
Delete(c) ==
    /\ At(c, "delete")
    /\ rows' = [rows EXCEPT ![calls[c].row] = None]
    /\ removed' = removed \cup {calls[c].user}
    /\ End(c)
    /\ UNCHANGED <<fresh, invitations, members, isRegisterable, raced, strays,
                   left>>

\* Fault: the invitation is not updated first, so that it locks nothing.
LockedNever(v) == FALSE

\* A transaction has updated the invitation and is not committed.
Locked(v) == \E c \in Calls : At(c, "commit") /\ calls[c].inv = v

\* The transaction updates the invitation, waiting for another transaction that
\* has, and looks for the membership and the attendee.
Lock(c) ==
    /\ At(c, "lock")
    /\ ~Locked(calls[c].inv)
    /\ \E i \in First(calls[c].user) :
          calls' = [calls EXCEPT ![c].pc = "commit", ![c].row = i,
                                 ![c].member = calls[c].user \in members]
    /\ UNCHANGED <<rows, fresh, invitations, members, isRegisterable, raced,
                   strays, removed, left>>

\* Fault: an attendee who has a row is taken to be registered.
WithAttendeeIfNone(u, row) ==
    IF row = None
    THEN \E i \in fresh :
            /\ rows' = [rows EXCEPT ![i] = NewRow(u, TRUE, TRUE)]
            /\ fresh' = fresh \ {i}
    ELSE UNCHANGED <<rows, fresh>>

\* The attendee is inserted, or updated by id if the row is still there.
WithAttendee(u, row) ==
    IF row = None
    THEN \E i \in fresh :
            /\ rows' = [rows EXCEPT ![i] = NewRow(u, TRUE, TRUE)]
            /\ fresh' = fresh \ {i}
    ELSE /\ rows' = IF rows[row] = None THEN rows
                    ELSE [rows EXCEPT ![row].isInvited = TRUE,
                                      ![row].isRegistered = TRUE]
         /\ UNCHANGED fresh

\* The membership and the attendee are written and the transaction commits.
\* A membership that was inserted in the meantime makes it roll back.
Commit(c) ==
    LET q == calls[c] IN
    /\ At(c, "commit")
    /\ IF q.user \in members /\ ~q.member
       THEN UNCHANGED <<rows, fresh, invitations, members>>
       ELSE /\ invitations' = [invitations EXCEPT ![q.inv].status = "accepted"]
            /\ members' = IF q.member THEN members ELSE members \cup {q.user}
            /\ WithAttendee(q.user, q.row)
    /\ End(c)
    /\ UNCHANGED <<isRegisterable, raced, strays, removed, left>>

------------------------------------------------------------------------------
(* Mutations of one statement, and what goes on around                     *)

\* sendEventInvitations, to one of its recipients
SendEventInvitation(v, u) ==
    /\ invitations[v] = None
    /\ invitations' = [invitations EXCEPT ![v] =
           [user |-> u, status |-> "pending", expired |-> FALSE]]
    /\ UNCHANGED <<rows, fresh, members, isRegisterable, calls, raced, strays,
                   removed, left>>

\* expiresAt goes by.
Expire(v) ==
    /\ invitations[v] # None
    /\ ~invitations[v].expired
    /\ invitations' = [invitations EXCEPT ![v].expired = TRUE]
    /\ UNCHANGED <<rows, fresh, members, isRegisterable, calls, raced, strays,
                   removed, left>>

\* Another mutation creates or deletes a membership.
Join(u) ==
    /\ u \notin members
    /\ members' = members \cup {u}
    /\ UNCHANGED <<rows, fresh, invitations, isRegisterable, calls, raced,
                   strays, removed, left>>

Leave(u) ==
    /\ u \in members
    /\ members' = members \ {u}
    /\ left' = left \cup {u}
    /\ UNCHANGED <<rows, fresh, invitations, isRegisterable, calls, raced,
                   strays, removed>>

\* The event is updated.
UpdateEvent ==
    /\ isRegisterable' = ~isRegisterable
    /\ UNCHANGED <<rows, fresh, invitations, members, calls, raced, strays,
                   removed, left>>

Mutation(c, u) ==
    \/ AddEventAttendee(c, u) \/ InviteEventAttendee(c, u)
    \/ RegisterForEvent(c, u) \/ RegisterEventAttendee(c, u)
    \/ CheckIn(c, u) \/ CheckOut(c, u) \/ RemoveEventAttendee(c, u)

Step(c) ==
    Insert(c) \/ Create(c) \/ Update(c) \/ Delete(c) \/ Lock(c) \/ Commit(c)

Next ==
    \/ \E c \in Calls :
          \/ \E u \in Users : Mutation(c, u)
          \/ \E v \in Invitations : AcceptEventInvitation(c, v)
          \/ Step(c)
    \/ \E v \in Invitations, u \in Users : SendEventInvitation(v, u)
    \/ \E v \in Invitations : Expire(v)
    \/ \E u \in Users : Join(u) \/ Leave(u)
    \/ UpdateEvent

Spec == Init /\ [][Next]_vars

------------------------------------------------------------------------------
(* Properties                                                              *)

\* The type of the tables, of what is in memory and of the history; an id that
\* a row has or that a mutation has in memory is given to no new row.
TypeOK ==
    /\ rows \in [RowIds -> Row \cup {None}]
    /\ fresh \subseteq RowIds
    /\ invitations \in [Invitations -> Invitation \cup {None}]
    /\ members \subseteq Users
    /\ isRegisterable \in BOOLEAN
    /\ calls \in [Calls -> Call \cup {None}]
    /\ raced \subseteq Users /\ strays \subseteq Users
    /\ removed \subseteq Users /\ left \subseteq Users
    /\ \A i \in fresh : rows[i] = None
    /\ \A c \in Calls : calls[c] # None => calls[c].row \notin fresh

\* A user has one row at most, unless two mutations about the user overlapped
\* or the user registered after a check-in that created a row.  Two
\* acceptances of one invitation may overlap: its row is their lock.
OneRow ==
    \A i, j \in RowIds :
        rows[i] # None /\ rows[j] # None /\ rows[i].user = rows[j].user =>
            i = j \/ rows[i].user \in raced \cup strays

\* Who is checked out was checked in, however mutations interleave.
OutAfterIn ==
    \A i \in RowIds :
        rows[i] # None /\ rows[i].isCheckedOut => rows[i].isCheckedIn

\* Who accepted an invitation is a member and is invited and registered, unless
\* the membership or a row was removed, whatever overlapped with the acceptance.
AcceptedAttends ==
    \A v \in Invitations :
        invitations[v] # None /\ invitations[v].status = "accepted" =>
            LET u == invitations[v].user IN
            /\ u \in members \cup left
            /\ \/ u \in removed
               \/ \E i \in RowsOf(u) : rows[i].isInvited /\ rows[i].isRegistered

\* No mutation undoes what another one noted in a row, whatever it read before:
\* rows lose nothing until they are deleted.
NothingUndone ==
    [][\A i \in RowIds : rows[i] # None /\ rows'[i] # None =>
           /\ rows'[i].user = rows[i].user
           /\ rows[i].isInvited => rows'[i].isInvited
           /\ rows[i].isRegistered => rows'[i].isRegistered
           /\ rows[i].isCheckedIn => rows'[i].isCheckedIn
           /\ rows[i].isCheckedOut => rows'[i].isCheckedOut]_vars
=============================================================================
