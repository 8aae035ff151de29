---------------------------- MODULE MCAttendance ----------------------------
(* A small instance of Attendance for TLC. *)
EXTENDS Attendance, TLC

CONSTANTS u1, u2, v1, v2, i1, i2, i3, c1, c2, c3

TwoUsers == {u1, u2}
OneUser == {u1}
OneInvitation == {v1}
TwoInvitations == {v1, v2}
TwoRows == {i1, i2}
ThreeRows == {i1, i2, i3}
TwoCalls == {c1, c2}
ThreeCalls == {c1, c2, c3}
Alike == Permutations(TwoInvitations) \cup Permutations(ThreeRows)
             \cup Permutations(TwoCalls)
=============================================================================
