---------------------------- MODULE MCCandleFetch ----------------------------
(* Two instruments, one listed inside the window, and a constituent without *)
(* instrument; the on-demand universe shares an instrument with the main one.*)
EXTENDS CandleFetch, TLC
CONSTANTS a, b, x
MCListing == a :> 0 @@ b :> 4
MCMembers == "main" :> <<a, x, b>> @@ "scope" :> <<a>>
MCLookback == "main" :> 3 @@ "scope" :> 2
MCShortScope == "main" :> 3 @@ "scope" :> 1
==============================================================================
