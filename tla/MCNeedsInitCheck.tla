-------------------------- MODULE MCNeedsInitCheck --------------------------
(* Three message types whose lists of message-typed fields come from five:  *)
(* chains, shared types, self-reference, cycles of two and of three types,  *)
(* and a cycle with a second way out all occur, with every choice of the    *)
(* types that have required or extension fields of their own.               *)
EXTENDS NeedsInitCheck
CONSTANTS A, B, C

MCFieldLists == {<<>>, <<A>>, <<B>>, <<C>>, <<B, C>>}
=============================================================================
