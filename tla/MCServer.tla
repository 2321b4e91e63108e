------------------------------ MODULE MCServer ------------------------------
(* The server for TLC: two clients with every kind of request between them. *)
EXTENDS Server, TLC

MCClients == {"c1", "c2"}
MCAsks == ("c1" :> {"storage", "bad", "unsupported"}) @@ ("c2" :> {"query", "blank", "huge"})
=============================================================================
