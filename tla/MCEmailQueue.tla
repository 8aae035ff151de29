---------------------------- MODULE MCEmailQueue ----------------------------
(* A small instance of EmailQueue for TLC. *)
EXTENDS EmailQueue

CONSTANTS m1, m2, m3, c1, c2

ThreeMails == {m1, m2, m3}
TwoMails == {m1, m2}
TwoCalls == {c1, c2}
=============================================================================
