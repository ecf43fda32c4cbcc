----------------------------- MODULE MCBootstrap -----------------------------
(* A small instance of Bootstrap for TLC: one file per kind and stage, the *)
(* APIBinding and one static token user.                                   *)
EXTENDS Bootstrap

CONSTANTS s1, s2

AllNames == {"platform", "tenants", "schema", "export", "binding", "admin"}
StageFiles == <<{"platform"}, {"tenants"}, {"schema", "export"}>>
EnsuredNames == {"binding", "admin"}
MadeWorkspaces == {"platform", "tenants"}
Kind ==
  [n \in AllNames |->
     CASE n \in MadeWorkspaces -> "workspace" [] n \in {"schema", "export"} -> n [] OTHER -> "other"]
Alphabet ==
  [n \in AllNames |->
     CASE n = "export" -> 1 [] n = "schema" -> 2 [] n = "platform" -> 3 [] n = "tenants" -> 4
       [] n = "binding" -> 5 [] n = "admin" -> 6]
=============================================================================
