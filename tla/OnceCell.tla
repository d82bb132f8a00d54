------------------------------ MODULE OnceCell ------------------------------
(***************************************************************************)
(* What every lazily decoded value of the runtime promises to concurrent   *)
(* readers: a cell is filled at most once, and whoever reads it gets the   *)
(* one value it was filled with.  LazyMessage (opaque submessage fields)   *)
(* is shown to implement it.                                               *)
(***************************************************************************)
CONSTANTS Cells,     \* the lazily decoded fields
          Readers,   \* goroutines that use the message
          Values,    \* what a cell can be filled with
          Nil        \* the cell is not filled, the reader has read nothing

VARIABLES cell,      \* [c |-> value or Nil]
          seen       \* [r |-> <<c, value>> the reader last got, or Nil]

vars == <<cell, seen>>

Init == cell = [c \in Cells |-> Nil] /\ seen = [r \in Readers |-> Nil]

(* Some reader decodes the cell and makes the result visible.               *)
Fill(c) ==
  /\ cell[c] = Nil
  /\ \E v \in Values : cell' = [cell EXCEPT ![c] = v]
  /\ UNCHANGED seen

Read(r, c) ==
  /\ cell[c] # Nil
  /\ seen' = [seen EXCEPT ![r] = <<c, cell[c]>>]
  /\ UNCHANGED cell

Forget(r) ==
  /\ seen' = [seen EXCEPT ![r] = Nil]
  /\ UNCHANGED cell

Next == \/ \E c \in Cells : Fill(c)
        \/ \E r \in Readers : Forget(r) \/ \E c \in Cells : Read(r, c)

Spec == Init /\ [][Next]_vars
=============================================================================
