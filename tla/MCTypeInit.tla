----------------------------- MODULE MCTypeInit -----------------------------
(* File a imports b and takes a default from a nested enum of b and one of  *)
(* its own; file g, a legacy one, imports b and resolves it by name.        *)
(* Messages ma (of a) and mb (of b) refer to each other's files.            *)
EXTENDS TypeInit, TLC

MCImports == "a" :> <<"b">> @@ "b" :> <<>> @@ "g" :> <<"b">>
MCDefaultsFrom == "a" :> <<"a", "b">> @@ "b" :> <<>> @@ "g" :> <<>>
MCFileOf == "ma" :> "a" @@ "mb" :> "b" @@ "x" :> "a" @@ "y" :> "a" @@ "z" :> "b"
MCFields == "ma" :> <<"mb", "ma">> @@ "mb" :> <<>>

(* Every way to give the goroutines 1, 2 and 3 calls of the list, up to     *)
(* renaming of the goroutines.                                              *)
Choose3(s) ==
  {[t \in 1 .. 3 |-> s[i[t]]] : i \in {j \in [1 .. 3 -> DOMAIN s] : j[1] <= j[2] /\ j[2] <= j[3]}}

Common == <<I("contents", "a"), I("message", "ma"), I("extension", "x"), I("extension", "y")>>
Lookups == <<I("find", "a"), I("contents", "g")>>
Registrations == <<I("registerFile", None), I("registerExtension", "y"), I("extension", "z")>>

Separate == Choose3(Common \o Lookups) \cup Choose3(Common \o Registrations)
Together == Choose3(Lookups \o <<I("registerFile", None), I("contents", "a")>>)
=============================================================================
