-------------------------- MODULE MCLazyExtension --------------------------
(* Three goroutines read a field of up to three records.                    *)
EXTENDS LazyExtension
=============================================================================
