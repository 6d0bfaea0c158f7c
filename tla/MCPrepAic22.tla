----------------------------- MODULE MCPrepAic22 -----------------------------
(* Model of PrepAic22 for TLC: two scenarios of one camera, the first of them in two splits. *)
EXTENDS PrepAic22, TLC

CONSTANTS c1, c2, s1, s2

MCDataset == <<s1 :> {c1}, s2 :> {c2} @@ s1 :> {}>>
=============================================================================
