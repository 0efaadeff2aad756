-------------------------- MODULE MCReindexRequests --------------------------
(* Instances of ReindexRequests: two requests over overlapping ranges, and   *)
(* two pods, of different versions or of one.                                *)
EXTENDS ReindexRequests, TLC

CONSTANTS p1, p2, v1, v2
MCClaimerOf == (p1 :> v1) @@ (p2 :> v2)
MCRangeOf == (1 :> {1, 2}) @@ (2 :> {2})
=============================================================================
