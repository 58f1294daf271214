----------------------------- MODULE MCServices -----------------------------
(* One service for TLC; the refreshes in flight are what interleaves. *)
EXTENDS ServicesClaims
CONSTANT s1
OneUnit == {s1}
=============================================================================
