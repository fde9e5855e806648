---------------------------- MODULE MCMatsyaFetch ----------------------------
(* Two instruments, one listed inside the window, and a member without one; *)
(* days 5 and 6 are a weekend.                                              *)
EXTENDS MatsyaFetch, TLC
CONSTANTS a, b, x
MCListing == a :> 0 @@ b :> 3
==============================================================================
