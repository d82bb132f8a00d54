--------------------------- MODULE MCLazyMessage ---------------------------
(* Two lazy fields read by two goroutines.  Both came in an encoding longer *)
(* than the one this runtime writes (3 bytes instead of 1, 4 instead of 2). *)
(* The sum of the wire sizes, 7, does not fit the size cache and the sums   *)
(* with one or two decoded fields, 5 and 3, do: sizes are cached, not       *)
(* cached and recomputed, and a cached size can be out of date.             *)
EXTENDS LazyMessage, TLC
CONSTANTS f1, f2, t1, t2

MCOrder == <<f1, f2>>
MCRaw == f1 :> 3 @@ f2 :> 4
MCCanon == f1 :> 1 @@ f2 :> 2
=============================================================================
