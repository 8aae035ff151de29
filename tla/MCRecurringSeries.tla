------------------------- MODULE MCRecurringSeries -------------------------
(* Small instances of RecurringSeries for TLC. *)
EXTENDS RecurringSeries, TLC

CONSTANTS o1, o2, u1, u2, w1, w2

OneOrg     == {o1}
TwoOrgs    == {o1, o2}
NoOrg      == {}
OneUser    == {u1}
TwoUsers   == {u1, u2}
OneWorker  == {w1}
TwoWorkers == {w1, w2}

Forever == [every |-> 2, until |-> None, count |-> None, yearly |-> FALSE]
Daily   == [every |-> 1, until |-> None, count |-> None, yearly |-> FALSE]
Twice   == [every |-> 2, until |-> None, count |-> 2, yearly |-> FALSE]
UntilThree == [every |-> 1, until |-> 3, count |-> None, yearly |-> FALSE]
Yearly  == [every |-> 2, until |-> None, count |-> 2, yearly |-> TRUE]

SomePatterns   == {Forever, Twice}
EveryPattern   == {Daily, Twice, UntilThree}
YearlyPatterns == {Yearly}
ForeverOnly    == {Forever}
DailyOnly      == {Daily}

Calendar == 0..5

NoLength  == {}
LengthOne == {1}
LengthTwo == {2}

Symmetry == Permutations({u1, u2})
============================================================================
