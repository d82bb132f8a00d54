------------------------------ MODULE MCDelim ------------------------------
(* Bytes of one payload bit: sizes up to 4 take one to three bytes, and     *)
(* every byte of a message can be taken for a size.                         *)
EXTENDS Delim
=============================================================================
