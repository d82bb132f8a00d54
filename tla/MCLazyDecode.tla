---------------------------- MODULE MCLazyDecode ----------------------------
(* Instances of LazyDecode: two lazy fields around a plain one. *)
EXTENDS LazyDecode

MCLazy  == {1, 3}
MCPlain == {2}
=============================================================================
