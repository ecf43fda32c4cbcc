------------------------- MODULE TenantProvisioning -------------------------
(***************************************************************************)
(* Bootstrapper.EnsureTenantWorkspace of platform/pkg/kcp/bootstrap.go, as *)
(* it is run by concurrent HTTP requests: every OIDC callback and every    *)
(* GET /auth/me calls it for the user it has authenticated                 *)
(* (platform/pkg/auth/handler.go).  It is a sequence of calls to kcp, none *)
(* of them under a lock or in a transaction:                               *)
(*                                                                         *)
(*   create  Create the tenant Workspace, AlreadyExists is not an error    *)
(*   wait    poll its phase until it is Ready, for at most 60 seconds      *)
(*   grant   Create the ClusterRoleBinding of the user inside it           *)
(*   bind    Create the APIBinding of cloud.platform inside it             *)
(*   resolve Get its LogicalCluster and derive the name that is returned   *)
(*                                                                         *)
(* Any call can fail, can take effect and have its answer lost, or can be  *)
(* cut short by the caller going away; the server can stop between two     *)
(* calls.  What kcp has stored by then stays.  kcp itself is external: it  *)
(* schedules and initialises a workspace in its own time.  A tenant is     *)
(* cluster-admin of the workspace and may delete either object again.      *)
(***************************************************************************)
EXTENDS Naturals, FiniteSets

CONSTANTS
  Users,          \* OIDC user names as kcp sees them ("oidc:" + username)
  Workspaces,     \* names of workspaces under root:platform:tenants
  WorkspaceOf,    \* workspaceNameForUser: the user's workspace name
  Requests,       \* slots for HTTP requests being served, reused over time
  UrlBeforeReady  \* TRUE if kcp always sets status.URL before phase Ready

ASSUME WorkspaceOfType == WorkspaceOf \in [Users -> Workspaces]
ASSUME UrlBeforeReadyType == UrlBeforeReady \in BOOLEAN

(* The name is the first 10 hex digits of a SHA-256 sum; the tenancy model *)
(* ("each tenant gets a dedicated workspace") takes it to be collision     *)
(* free, and only the isolation property uses it.                          *)
OneTenantPerWorkspace ==
  \A u, v \in Users : WorkspaceOf[u] = WorkspaceOf[v] => u = v

VARIABLES
  phase,      \* kcp: status.phase of each Workspace, "Absent" before Create
  published,  \* kcp: workspaces whose LogicalCluster has a status.URL
  grants,     \* kcp: users with the cluster-admin binding, per workspace
  bound,      \* kcp: workspaces holding the cloud.platform APIBinding
  pc,         \* where each request is in EnsureTenantWorkspace
  caller,     \* the user each request was authenticated as
  answer,     \* the cluster name a successful request returned
  disturbed   \* history: the tenant removed something since the request began

kcpVars == <<phase, published, grants, bound>>
requestVars == <<pc, caller, answer, disturbed>>
vars == <<phase, published, grants, bound, pc, caller, answer, disturbed>>

Phases == {"Absent", "Scheduling", "Initializing", "Ready"}
Working == {"create", "wait", "grant", "bind", "resolve"}
Ended == {"ok", "failed"}

Home(r) == WorkspaceOf[caller[r]]

(* The names a LogicalCluster can be called by.                            *)
NoAnswer == <<"none">>
ObjectName == <<"cluster">>                       \* lc.GetName(), always "cluster"
ClusterId(w) == <<"id", w>>                       \* kcp's generated identifier
WorkspacePath(w) == <<"root", "platform", "tenants", w>>

(* EnsureTenantWorkspace cuts the name out of status.URL, which has the    *)
(* form https://host/clusters/<identifier>, and falls back to the object   *)
(* name when the URL is empty.                                             *)
ResolvedName(w) == IF w \in published THEN ClusterId(w) ELSE ObjectName

Init ==
  /\ phase = [w \in Workspaces |-> "Absent"]
  /\ published = {}
  /\ grants = [w \in Workspaces |-> {}]
  /\ bound = {}
  /\ pc = [r \in Requests |-> "idle"]
  /\ caller \in [Requests -> Users]
  /\ answer = [r \in Requests |-> NoAnswer]
  /\ disturbed = [r \in Requests |-> FALSE]

-----------------------------------------------------------------------------
(* The request.                                                            *)

Goto(r, next) == pc' = [pc EXCEPT ![r] = next]

(* HandleCallback or HandleMe has authenticated u and calls the provisioner. *)
Begin(r, u) ==
  /\ pc[r] \notin Working
  /\ Goto(r, "create")
  /\ caller' = [caller EXCEPT ![r] = u]
  /\ answer' = [answer EXCEPT ![r] = NoAnswer]
  /\ disturbed' = [disturbed EXCEPT ![r] = FALSE]
  /\ UNCHANGED kcpVars

(* Mutants of CreateWorkspace: an existing workspace is taken to be fully  *)
(* provisioned; an existing workspace is an error.                         *)
CreateWorkspace_ExistsIsDone(r, next) ==
  /\ pc[r] = "create"
  /\ next \in {"wait", "failed"}
  /\ phase' = [phase EXCEPT ![Home(r)] = IF @ = "Absent" THEN "Scheduling" ELSE @]
  /\ Goto(r, IF phase[Home(r)] = "Ready" /\ next = "wait" THEN "resolve" ELSE next)
  /\ UNCHANGED <<published, grants, bound, caller, answer, disturbed>>
CreateWorkspace_ExistsIsError(r, next) ==
  /\ pc[r] = "create"
  /\ next \in {"wait", "failed"}
  /\ next = "wait" => phase[Home(r)] = "Absent"
  /\ phase' = [phase EXCEPT ![Home(r)] = IF @ = "Absent" THEN "Scheduling" ELSE @]
  /\ Goto(r, next)
  /\ UNCHANGED <<published, grants, bound, caller, answer, disturbed>>

(* Each call below has two outcomes once kcp has carried it out: the code  *)
(* sees the answer and goes on, or the answer is lost and the request      *)
(* fails with the effect in place.                                         *)
CreateWorkspace(r, next) ==
  /\ pc[r] = "create"
  /\ next \in {"wait", "failed"}
  /\ phase' = [phase EXCEPT ![Home(r)] = IF @ = "Absent" THEN "Scheduling" ELSE @]
  /\ Goto(r, next)
  /\ UNCHANGED <<published, grants, bound, caller, answer, disturbed>>

(* waitForWorkspaceReady: what a poll looks for.  Mutant: existence is     *)
(* enough.                                                                 *)
PhaseDone_Exists(w) == phase[w] # "Absent"
PhaseDone(w) == phase[w] = "Ready"

(* A poll that does not see Ready, or whose Get fails, changes nothing.    *)
SeeReady(r) ==
  /\ pc[r] = "wait"
  /\ PhaseDone(Home(r))
  /\ Goto(r, "grant")
  /\ UNCHANGED <<kcpVars, caller, answer, disturbed>>

EnsureClusterAdmin(r, next) ==
  /\ pc[r] = "grant"
  /\ next \in {"bind", "failed"}
  /\ grants' = [grants EXCEPT ![Home(r)] = @ \cup {caller[r]}]
  /\ Goto(r, next)
  /\ UNCHANGED <<phase, published, bound, caller, answer, disturbed>>

EnsureAPIBinding(r, next) ==
  /\ pc[r] = "bind"
  /\ next \in {"resolve", "failed"}
  /\ bound' = bound \cup {Home(r)}
  /\ Goto(r, next)
  /\ UNCHANGED <<phase, published, grants, caller, answer, disturbed>>

Resolve(r) ==
  /\ pc[r] = "resolve"
  /\ Goto(r, "ok")
  /\ answer' = [answer EXCEPT ![r] = ResolvedName(Home(r))]
  /\ UNCHANGED <<kcpVars, caller, disturbed>>

(* A call is refused or never reaches kcp, or the caller has gone away.    *)
CallFails(r) ==
  /\ pc[r] \in Working \ {"wait"}
  /\ Goto(r, "failed")
  /\ UNCHANGED <<kcpVars, caller, answer, disturbed>>

(* Mutant of WaitTimesOut: the poll has no deadline and the caller stays.  *)
WaitTimesOut_Never(r) ==
  /\ pc[r] = "wait"
  /\ PhaseDone(Home(r))
  /\ Goto(r, "failed")
  /\ UNCHANGED <<kcpVars, caller, answer, disturbed>>

(* 60 seconds have passed without a poll that saw Ready, or the caller has *)
(* gone away.  Failed Gets do not end the wait, they only use up its time. *)
WaitTimesOut(r) ==
  /\ pc[r] = "wait"
  /\ Goto(r, "failed")
  /\ UNCHANGED <<kcpVars, caller, answer, disturbed>>

(* The server stops: every request in flight is cut off, kcp keeps what it *)
(* has stored, and the next server starts with no memory of them.          *)
ServerStops ==
  /\ \E r \in Requests : pc[r] \in Working
  /\ pc' = [r \in Requests |-> IF pc[r] \in Working THEN "failed" ELSE pc[r]]
  /\ UNCHANGED <<kcpVars, caller, answer, disturbed>>

-----------------------------------------------------------------------------
(* kcp and the tenant.                                                     *)

KcpSchedules(w) ==
  /\ phase[w] = "Scheduling"
  /\ phase' = [phase EXCEPT ![w] = "Initializing"]
  /\ UNCHANGED <<published, grants, bound, requestVars>>

KcpPublishesUrl(w) ==
  /\ phase[w] \in {"Initializing", "Ready"}
  /\ w \notin published
  /\ published' = published \cup {w}
  /\ UNCHANGED <<phase, grants, bound, requestVars>>

KcpInitializes(w) ==
  /\ phase[w] = "Initializing"
  /\ UrlBeforeReady => w \in published
  /\ phase' = [phase EXCEPT ![w] = "Ready"]
  /\ UNCHANGED <<published, grants, bound, requestVars>>

MarkDisturbed(w) ==
  disturbed' = [r \in Requests |-> disturbed[r] \/ Home(r) = w]

TenantDeletesGrant(u) ==
  /\ u \in grants[WorkspaceOf[u]]
  /\ grants' = [grants EXCEPT ![WorkspaceOf[u]] = @ \ {u}]
  /\ MarkDisturbed(WorkspaceOf[u])
  /\ UNCHANGED <<phase, published, bound, pc, caller, answer>>

TenantDeletesBinding(u) ==
  /\ u \in grants[WorkspaceOf[u]]
  /\ WorkspaceOf[u] \in bound
  /\ bound' = bound \ {WorkspaceOf[u]}
  /\ MarkDisturbed(WorkspaceOf[u])
  /\ UNCHANGED <<phase, published, grants, pc, caller, answer>>

-----------------------------------------------------------------------------
RequestStep(r) ==
  \/ \E next \in {"wait", "failed"} : CreateWorkspace(r, next)
  \/ SeeReady(r)
  \/ \E next \in {"bind", "failed"} : EnsureClusterAdmin(r, next)
  \/ \E next \in {"resolve", "failed"} : EnsureAPIBinding(r, next)
  \/ Resolve(r)
  \/ CallFails(r)
  \/ WaitTimesOut(r)

KcpStep(w) == KcpSchedules(w) \/ KcpPublishesUrl(w) \/ KcpInitializes(w)

TenantStep(u) == TenantDeletesGrant(u) \/ TenantDeletesBinding(u)

Next ==
  \/ \E r \in Requests : RequestStep(r) \/ \E u \in Users : Begin(r, u)
  \/ \E w \in Workspaces : KcpStep(w)
  \/ \E u \in Users : TenantStep(u)
  \/ ServerStops

Spec == Init /\ [][Next]_vars

(* The server runs each request: its goroutine is scheduled, and each of   *)
(* its calls comes back in the end or reaches a deadline.                  *)
ServerFairness == \A r \in Requests : WF_vars(RequestStep(r))

FairSpec == Spec /\ ServerFairness

(* kcp works for a user: it brings their workspace to Ready, and a call    *)
(* that is made for them again and again is not refused every time.        *)
KcpServes(u) ==
  /\ WF_vars(KcpSchedules(WorkspaceOf[u]))
  /\ WF_vars(KcpPublishesUrl(WorkspaceOf[u]))
  /\ WF_vars(KcpInitializes(WorkspaceOf[u]))
  /\ SF_vars(\E r \in Requests : caller[r] = u /\ CreateWorkspace(r, "wait"))
  /\ SF_vars(\E r \in Requests : caller[r] = u /\ SeeReady(r))
  /\ SF_vars(\E r \in Requests : caller[r] = u /\ EnsureClusterAdmin(r, "bind"))
  /\ SF_vars(\E r \in Requests : caller[r] = u /\ EnsureAPIBinding(r, "resolve"))
  /\ SF_vars(\E r \in Requests : caller[r] = u /\ Resolve(r))

-----------------------------------------------------------------------------
(* Properties.                                                             *)

Answers == {NoAnswer, ObjectName} \cup {ClusterId(w) : w \in Workspaces}

TypeOK ==
  /\ phase \in [Workspaces -> Phases]
  /\ published \in SUBSET Workspaces
  /\ grants \in [Workspaces -> SUBSET Users]
  /\ bound \in SUBSET Workspaces
  /\ pc \in [Requests -> {"idle"} \cup Working \cup Ended]
  /\ caller \in [Requests -> Users]
  /\ answer \in [Requests -> Answers]
  /\ disturbed \in [Requests -> BOOLEAN]

(* A user can work: the workspace is Ready, the user is its admin and the  *)
(* platform's APIs are bound into it.                                      *)
HasAccess(u) ==
  LET w == WorkspaceOf[u]
  IN phase[w] = "Ready" /\ u \in grants[w] /\ w \in bound

(* A request that EnsureTenantWorkspace lets succeed leaves its user able  *)
(* to work, whatever earlier requests left half done and whatever other    *)
(* requests do meanwhile, as long as the tenant removed nothing since.     *)
SuccessMeansAccess ==
  \A r \in Requests : pc[r] = "ok" /\ ~disturbed[r] => HasAccess(caller[r])

(* Nothing is put into a workspace that kcp has not finished initialising: *)
(* waitForWorkspaceReady comes before the first object.                    *)
NothingBeforeReady ==
  \A w \in Workspaces : grants[w] # {} \/ w \in bound => phase[w] = "Ready"

(* Two tenants never share a workspace: an admin of a workspace is the one *)
(* user whose name hashes to it.                                           *)
DedicatedWorkspace ==
  \A w \in Workspaces : \A u, v \in grants[w] : u = v /\ WorkspaceOf[u] = w

(* A request that succeeds hands out the identifier of the caller's own    *)
(* logical cluster and never the fallback "cluster", which addresses       *)
(* nothing (bootstrap.go:295-303), if kcp publishes the URL before it      *)
(* reports Ready: nothing but the wait for Ready keeps the code from       *)
(* reading the URL too early, and a workspace that another request has     *)
(* created is waited for as well.                                          *)
AnswerAddressesTenant ==
  UrlBeforeReady =>
    \A r \in Requests : pc[r] = "ok" => answer[r] = ClusterId(Home(r))

(* What bootstrap.go:233 and handler.go:80 say is returned: the full path. *)
ReturnsWorkspacePath ==
  \A r \in Requests : pc[r] = "ok" => answer[r] = WorkspacePath(Home(r))

(* The inductive invariant behind the properties above.  A request past    *)
(* the wait works in a Ready workspace; each step it has taken can still   *)
(* be seen unless the tenant undid it; users are admins only at home; and  *)
(* a kcp that publishes early has published wherever it reports Ready.     *)
PastWaitIsReady ==
  \A r \in Requests : pc[r] \in {"grant", "bind", "resolve", "ok"} => phase[Home(r)] = "Ready"
StepsStay ==
  \A r \in Requests : ~disturbed[r] =>
    /\ pc[r] \in {"bind", "resolve", "ok"} => caller[r] \in grants[Home(r)]
    /\ pc[r] \in {"resolve", "ok"} => Home(r) \in bound
AdminsAtHome == \A w \in Workspaces : \A u \in grants[w] : WorkspaceOf[u] = w
PublishedIfReady ==
  UrlBeforeReady => \A w \in Workspaces : phase[w] = "Ready" => w \in published
ProvisioningInv ==
  PastWaitIsReady /\ StepsStay /\ NothingBeforeReady /\ AdminsAtHome
    /\ PublishedIfReady /\ AnswerAddressesTenant

(* A user gains access only while a request authenticated as that user is  *)
(* between its calls: nobody else's login, no kcp step and no restart ever *)
(* completes a tenant.                                                     *)
AccessOnlyByOwnLogin ==
  [][\A u \in Users :
       ~HasAccess(u) /\ HasAccess(u)' =>
         \E r \in Requests : caller[r] = u /\ pc[r] \in {"grant", "bind"}]_vars

(* A user who logs in again and again is let in eventually, whatever       *)
(* half-finished attempts, stops and lost answers came before, if kcp      *)
(* works for them; it need not for others.                                 *)
RetryingUserGetsIn ==
  \A u \in Users :
    KcpServes(u) =>
      ([]<>(\E r \in Requests : caller[r] = u /\ pc[r] = "create")
         => <>(\E r \in Requests : caller[r] = u /\ pc[r] = "ok"))

(* The provisioner keeps the promise of its interface: access is complete  *)
(* when all three parts of it are there, and a call is working until it is *)
(* answered.                                                               *)
Status(r) == IF pc[r] \in Working THEN "working" ELSE pc[r]

Promise == INSTANCE TenantAccess WITH
  access <- {u \in Users : HasAccess(u)},
  status <- [r \in Requests |-> Status(r)],
  caller <- caller,
  excused <- disturbed

(* Every behaviour of the provisioner is one its interface allows, and     *)
(* every call of it ends (handler.go:76-82).                               *)
ImplementsTenantAccess == Promise!FairSpec
=============================================================================
