----------------------------- MODULE MCPresence -----------------------------
(* Five fields in words of two bits, the last word half used.  Two          *)
(* goroutines have fields in every full word.                               *)
EXTENDS Presence, TLC
CONSTANTS t1, t2

Interleaved == 0 :> t1 @@ 1 :> t2 @@ 2 :> t2 @@ 3 :> t1 @@ 4 :> t1
=============================================================================
