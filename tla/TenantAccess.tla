---------------------------- MODULE TenantAccess ----------------------------
(***************************************************************************)
(* What the WorkspaceProvisioner interface promises to the login handlers  *)
(* that call it (platform/pkg/auth/handler.go, type WorkspaceProvisioner): *)
(* a call made for a user either fails or ends with that user able to work *)
(* in a workspace of their own.  Nothing is said of workspaces, bindings   *)
(* or polling.  TenantProvisioning implements it.                          *)
(***************************************************************************)
CONSTANTS
  Users,     \* the callers' OIDC user names
  Requests   \* slots for calls in progress

VARIABLES
  access,    \* users who can work in their workspace
  status,    \* "idle", "working", "ok" or "failed" for each call
  caller,    \* the user each call is made for
  excused    \* the user has given up part of their access since the call began

vars == <<access, status, caller, excused>>

Init ==
  /\ access = {}
  /\ status = [r \in Requests |-> "idle"]
  /\ caller \in [Requests -> Users]
  /\ excused = [r \in Requests |-> FALSE]

Call(r, u) ==
  /\ status[r] # "working"
  /\ status' = [status EXCEPT ![r] = "working"]
  /\ caller' = [caller EXCEPT ![r] = u]
  /\ excused' = [excused EXCEPT ![r] = FALSE]
  /\ UNCHANGED access

(* The user's access becomes complete; the caller may never learn of it.   *)
Complete(r) ==
  /\ status[r] = "working"
  /\ access' = access \cup {caller[r]}
  /\ \E next \in {"working", "failed"} : status' = [status EXCEPT ![r] = next]
  /\ UNCHANGED <<caller, excused>>

Succeed(r) ==
  /\ status[r] = "working"
  /\ caller[r] \in access \/ excused[r]
  /\ status' = [status EXCEPT ![r] = "ok"]
  /\ UNCHANGED <<access, caller, excused>>

Fail(r) ==
  /\ status[r] = "working"
  /\ status' = [status EXCEPT ![r] = "failed"]
  /\ UNCHANGED <<access, caller, excused>>

GiveUp(u) ==
  /\ access' = access \ {u}
  /\ excused' = [r \in Requests |-> excused[r] \/ caller[r] = u]
  /\ UNCHANGED <<status, caller>>

Stop ==
  /\ status' = [r \in Requests |-> IF status[r] = "working" THEN "failed" ELSE status[r]]
  /\ UNCHANGED <<access, caller, excused>>

Next ==
  \/ \E r \in Requests : Complete(r) \/ Succeed(r) \/ Fail(r) \/ \E u \in Users : Call(r, u)
  \/ \E u \in Users : GiveUp(u)
  \/ Stop

Spec == Init /\ [][Next]_vars

(* No call is left without an answer.                                      *)
FairSpec == Spec /\ \A r \in Requests : WF_vars(Succeed(r) \/ Fail(r))
=============================================================================
