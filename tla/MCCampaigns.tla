----------------------------- MODULE MCCampaigns -----------------------------
(* A small instance of Campaigns for TLC. *)
EXTENDS Campaigns, TLC

CONSTANTS f1, u1, u2, k1, p1, p2, p3, c1, c2

OneFund == {f1}
TwoUsers == {u1, u2}
OneCampaign == {k1}
TwoPledges == {p1, p2}
ThreePledges == {p1, p2, p3}
TwoCalls == {c1, c2}
Alike == Permutations(TwoUsers) \cup Permutations(ThreePledges)
             \cup Permutations(TwoCalls)
=============================================================================
