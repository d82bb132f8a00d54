----------------------------- MODULE MCValidate -----------------------------
(* Four message types: Outer has no required field and refers to Inner as a *)
(* message and a map value, to Ring as a message and to Wide as a group, in *)
(* the second member of a oneof; Inner has one required field and refers to *)
(* Outer and to Wide; Wide has two, one more than the mask has bits; Ring   *)
(* refers to Outer alone.  needsInitCheck, when Outer is explored and Ring  *)
(* before Inner, answers false for Ring.  Field 5 is not a field of Outer   *)
(* and Inner; field 6 of Outer is a message of a foreign type, and of Inner *)
(* an extension that does not resolve.                                      *)
EXTENDS Validate, TLC
CONSTANTS Outer, Inner, Wide, Ring

F(typ, mi, required) == [typ |-> typ, mi |-> mi, required |-> required, later |-> FALSE, resolves |-> TRUE]

MCSchema ==
    Outer :> (1 :> F("text", Nil, FALSE) @@ 2 :> F("message", Inner, FALSE)
              @@ 3 :> F("map", Inner, FALSE) @@ 4 :> [F("group", Wide, FALSE) EXCEPT !.later = TRUE]
              @@ 6 :> F("message", Nil, FALSE) @@ 7 :> F("message", Ring, FALSE))
    @@ Inner :> (1 :> F("text", Nil, TRUE) @@ 2 :> F("message", Outer, FALSE)
                 @@ 4 :> F("group", Wide, FALSE)
                 @@ 6 :> [NoField EXCEPT !.resolves = FALSE])
    @@ Wide :> (1 :> F("text", Nil, TRUE) @@ 5 :> F("varint", Nil, TRUE))
    @@ Ring :> (2 :> F("message", Outer, FALSE))

Tok(num, wtyp, size, utf8) == [num |-> num, wtyp |-> wtyp, size |-> size, utf8 |-> utf8]

MCTokens ==
    {Tok(1, "bytes", 0, u) : u \in BOOLEAN}
    \cup {Tok(n, "varint", 0, TRUE) : n \in {1, 5}}
    \cup {Tok(2, "bytes", k, TRUE) : k \in 0..2}
    \cup {Tok(3, "bytes", k, TRUE) : k \in {0, 2, 3}}
    \cup {Tok(4, "bytes", 1, TRUE), Tok(6, "bytes", 0, TRUE), Tok(7, "bytes", 3, TRUE),
           Tok(5, "reserved", 0, TRUE)}
    \cup {Tok(n, w, 0, TRUE) : n \in {4, 5}, w \in {"start", "end"}}

(* Contents that would be refused if they were parsed, and some that would not. *)
MCOpaque == {Tok(5, "reserved", 0, TRUE), Tok(1, "bytes", 0, TRUE)}
=============================================================================
