------------------------ MODULE PlatformLogin_proofs ------------------------
(***************************************************************************)
(* Theorems about TenantProvisioning for any users, workspaces and         *)
(* requests, any naming of workspaces and either order of status.URL and   *)
(* phase Ready; and, after them, about the login handlers composed with it *)
(* (PlatformLogin), for any logins and exchanges as well.  What is proved  *)
(* of LoginFlow over the promise of TenantAccess carries over to the whole *)
(* because the provisioner keeps that promise.                             *)
(***************************************************************************)
EXTENDS PlatformLogin, TLAPS

(* The action formulas of the module, spelled out in every step proof.     *)
USE DEF Goto, MarkDisturbed, kcpVars, requestVars

(* Type correctness of the provisioner's and kcp's state.                  *)
THEOREM TypeCorrect == Spec => []TypeOK
<1>1. Init => TypeOK
  BY WorkspaceOfType DEF Init, TypeOK, Phases, Working, Ended, Answers
<1>2. TypeOK /\ [Next]_vars => TypeOK'
  <2> SUFFICES ASSUME TypeOK, [Next]_vars PROVE TypeOK'
    OBVIOUS
  <2> USE WorkspaceOfType DEF TypeOK, Working, Ended
  <2>1. ASSUME NEW r \in Requests, RequestStep(r) PROVE TypeOK'
    <3>1. ASSUME NEW next \in {"wait", "failed"}, CreateWorkspace(r, next) PROVE TypeOK'
      BY <3>1 DEF CreateWorkspace, Phases
    <3>2. CASE SeeReady(r)
      BY <3>2 DEF SeeReady
    <3>3. ASSUME NEW next \in {"bind", "failed"}, EnsureClusterAdmin(r, next) PROVE TypeOK'
      BY <3>3 DEF EnsureClusterAdmin, Home
    <3>4. ASSUME NEW next \in {"resolve", "failed"}, EnsureAPIBinding(r, next) PROVE TypeOK'
      BY <3>4 DEF EnsureAPIBinding, Home
    <3>5. CASE Resolve(r)
      <4>1. ResolvedName(Home(r)) \in Answers
        BY DEF ResolvedName, Home, Answers
      <4>2. QED
        BY <3>5, <4>1 DEF Resolve
    <3>6. CASE CallFails(r)
      BY <3>6 DEF CallFails
    <3>7. CASE WaitTimesOut(r)
      BY <3>7 DEF WaitTimesOut
    <3>8. QED
      BY <2>1, <3>1, <3>2, <3>3, <3>4, <3>5, <3>6, <3>7 DEF RequestStep
  <2>2. ASSUME NEW r \in Requests, NEW u \in Users, Begin(r, u) PROVE TypeOK'
    BY <2>2 DEF Begin, Answers
  <2>3. ASSUME NEW w \in Workspaces, KcpStep(w) PROVE TypeOK'
    BY <2>3 DEF KcpStep, KcpSchedules, KcpPublishesUrl, KcpInitializes, Phases
  <2>4. ASSUME NEW u \in Users, TenantStep(u) PROVE TypeOK'
    <3>1. CASE TenantDeletesGrant(u)
      BY <3>1 DEF TenantDeletesGrant
    <3>2. CASE TenantDeletesBinding(u)
      BY <3>2 DEF TenantDeletesBinding
    <3>3. QED
      BY <2>4, <3>1, <3>2 DEF TenantStep
  <2>5. CASE ServerStops
    BY <2>5 DEF ServerStops
  <2>6. CASE UNCHANGED vars
    BY <2>6 DEF vars
  <2>7. QED
    BY <2>1, <2>2, <2>3, <2>4, <2>5, <2>6 DEF Next
<1>3. QED
  BY <1>1, <1>2, PTL DEF Spec

-----------------------------------------------------------------------------
(* Every step keeps the inductive invariant.                               *)
LEMMA InvariantStep ==
  ASSUME TypeOK, TypeOK', ProvisioningInv, [Next]_vars
  PROVE  ProvisioningInv'
<1> USE WorkspaceOfType DEF ProvisioningInv, Working, Ended, Home
<1>1. ASSUME NEW r \in Requests, NEW next \in {"wait", "failed"}, CreateWorkspace(r, next)
      PROVE  ProvisioningInv'
  (* Only an absent workspace changes phase, and nothing rests on one. *)
  <2>1. \A w \in Workspaces : phase[w] = "Ready" <=> phase'[w] = "Ready"
    BY <1>1 DEF CreateWorkspace, TypeOK
  <2>2. \A s \in Requests : pc'[s] \in {"grant", "bind", "resolve", "ok"} => pc'[s] = pc[s]
    BY <1>1 DEF CreateWorkspace, TypeOK
  <2>3. UNCHANGED <<published, grants, bound, caller, answer, disturbed>>
    BY <1>1 DEF CreateWorkspace
  <2>4. PastWaitIsReady' /\ NothingBeforeReady' /\ PublishedIfReady'
    BY <2>1, <2>2, <2>3 DEF PastWaitIsReady, NothingBeforeReady, PublishedIfReady, TypeOK
  <2>5. StepsStay' /\ AdminsAtHome' /\ AnswerAddressesTenant'
    BY <2>2, <2>3 DEF StepsStay, AdminsAtHome, AnswerAddressesTenant
  <2>6. QED
    BY <2>4, <2>5
<1>2. ASSUME NEW r \in Requests, SeeReady(r)
      PROVE  ProvisioningInv'
  <2>1. PastWaitIsReady' /\ StepsStay' /\ AnswerAddressesTenant'
    BY <1>2 DEF SeeReady, PhaseDone, PastWaitIsReady, StepsStay, AnswerAddressesTenant, TypeOK
  <2>2. NothingBeforeReady' /\ AdminsAtHome' /\ PublishedIfReady'
    BY <1>2 DEF SeeReady, NothingBeforeReady, AdminsAtHome, PublishedIfReady
  <2>3. QED
    BY <2>1, <2>2
<1>3. ASSUME NEW r \in Requests, NEW next \in {"bind", "failed"}, EnsureClusterAdmin(r, next)
      PROVE  ProvisioningInv'
  <2> USE <1>3 DEF EnsureClusterAdmin, TypeOK
  <2>1. PastWaitIsReady' /\ PublishedIfReady' /\ AnswerAddressesTenant'
    BY DEF PastWaitIsReady, PublishedIfReady, AnswerAddressesTenant
  <2>2. StepsStay'
    BY DEF StepsStay
  <2>3. NothingBeforeReady'
    BY DEF NothingBeforeReady, PastWaitIsReady
  <2>4. AdminsAtHome'
    BY DEF AdminsAtHome
  <2>5. QED
    BY <2>1, <2>2, <2>3, <2>4
<1>4. ASSUME NEW r \in Requests, NEW next \in {"resolve", "failed"}, EnsureAPIBinding(r, next)
      PROVE  ProvisioningInv'
  <2> USE <1>4 DEF EnsureAPIBinding, TypeOK
  <2>1. PastWaitIsReady' /\ PublishedIfReady' /\ AnswerAddressesTenant' /\ AdminsAtHome'
    BY DEF PastWaitIsReady, PublishedIfReady, AnswerAddressesTenant, AdminsAtHome
  <2>2. StepsStay'
    BY DEF StepsStay
  <2>3. NothingBeforeReady'
    BY DEF NothingBeforeReady, PastWaitIsReady
  <2>4. QED
    BY <2>1, <2>2, <2>3
<1>5. ASSUME NEW r \in Requests, Resolve(r)
      PROVE  ProvisioningInv'
  <2> USE <1>5 DEF Resolve, TypeOK
  <2>1. PastWaitIsReady' /\ StepsStay'
    BY DEF PastWaitIsReady, StepsStay
  <2>2. NothingBeforeReady' /\ AdminsAtHome' /\ PublishedIfReady'
    BY DEF NothingBeforeReady, AdminsAtHome, PublishedIfReady
  <2>3. AnswerAddressesTenant'
    BY DEF AnswerAddressesTenant, PastWaitIsReady, PublishedIfReady, ResolvedName
  <2>4. QED
    BY <2>1, <2>2, <2>3
<1>6. ASSUME UNCHANGED <<kcpVars, caller, answer, disturbed>>,
             \A s \in Requests : pc'[s] = pc[s] \/ pc'[s] = "failed"
      PROVE  ProvisioningInv'
  <2>1. PastWaitIsReady' /\ StepsStay' /\ AnswerAddressesTenant'
    BY <1>6 DEF PastWaitIsReady, StepsStay, AnswerAddressesTenant
  <2>2. NothingBeforeReady' /\ AdminsAtHome' /\ PublishedIfReady'
    BY <1>6 DEF NothingBeforeReady, AdminsAtHome, PublishedIfReady
  <2>3. QED
    BY <2>1, <2>2
<1>7. ASSUME NEW r \in Requests, NEW u \in Users, Begin(r, u)
      PROVE  ProvisioningInv'
  <2> USE <1>7 DEF Begin, TypeOK
  <2>1. PastWaitIsReady' /\ StepsStay' /\ AnswerAddressesTenant'
    BY DEF PastWaitIsReady, StepsStay, AnswerAddressesTenant
  <2>2. NothingBeforeReady' /\ AdminsAtHome' /\ PublishedIfReady'
    BY DEF NothingBeforeReady, AdminsAtHome, PublishedIfReady
  <2>3. QED
    BY <2>1, <2>2
<1>8. ASSUME NEW w \in Workspaces, KcpStep(w)
      PROVE  ProvisioningInv'
  <2>1. UNCHANGED <<grants, bound, requestVars>>
    BY <1>8 DEF KcpStep, KcpSchedules, KcpPublishesUrl, KcpInitializes
  <2>2. \A v \in Workspaces : phase[v] = "Ready" => phase'[v] = "Ready"
    BY <1>8 DEF KcpStep, KcpSchedules, KcpPublishesUrl, KcpInitializes, TypeOK
  <2>3. PublishedIfReady'
    BY <1>8 DEF KcpStep, KcpSchedules, KcpPublishesUrl, KcpInitializes, PublishedIfReady, TypeOK
  <2>4. PastWaitIsReady' /\ StepsStay' /\ NothingBeforeReady' /\ AdminsAtHome'
        /\ AnswerAddressesTenant'
    BY <2>1, <2>2 DEF PastWaitIsReady, StepsStay, NothingBeforeReady, AdminsAtHome,
                      AnswerAddressesTenant, TypeOK
  <2>5. QED
    BY <2>3, <2>4
<1>9. ASSUME NEW u \in Users, TenantStep(u)
      PROVE  ProvisioningInv'
  (* Whatever the tenant takes away, it marks the requests it concerns. *)
  <2>1. UNCHANGED <<phase, published, pc, caller, answer>>
    BY <1>9 DEF TenantStep, TenantDeletesGrant, TenantDeletesBinding
  <2>2. /\ \A w \in Workspaces : grants'[w] \subseteq grants[w]
        /\ bound' \subseteq bound
    BY <1>9 DEF TenantStep, TenantDeletesGrant, TenantDeletesBinding, TypeOK
  <2>3. \A s \in Requests : ~disturbed'[s] =>
          /\ ~disturbed[s]
          /\ grants'[Home(s)] = grants[Home(s)]
          /\ Home(s) \in bound' <=> Home(s) \in bound
    BY <1>9 DEF TenantStep, TenantDeletesGrant, TenantDeletesBinding, TypeOK
  <2>4. StepsStay'
    BY <2>1, <2>3 DEF StepsStay
  <2>5. PastWaitIsReady' /\ NothingBeforeReady' /\ AdminsAtHome' /\ PublishedIfReady'
        /\ AnswerAddressesTenant'
    BY <2>1, <2>2 DEF PastWaitIsReady, NothingBeforeReady, AdminsAtHome, PublishedIfReady,
                      AnswerAddressesTenant
  <2>6. QED
    BY <2>4, <2>5
<1>10. ASSUME UNCHANGED vars
       PROVE  ProvisioningInv'
  BY <1>10, <1>6 DEF vars
<1>11. ASSUME NEW r \in Requests, CallFails(r) \/ WaitTimesOut(r)
       PROVE  ProvisioningInv'
  BY <1>11, <1>6 DEF CallFails, WaitTimesOut, TypeOK
<1>12. ASSUME ServerStops
       PROVE  ProvisioningInv'
  BY <1>12, <1>6 DEF ServerStops, TypeOK
<1>13. QED
  BY <1>1, <1>2, <1>3, <1>4, <1>5, <1>7, <1>8, <1>9, <1>10, <1>11, <1>12 DEF Next, RequestStep

(* The inductive invariant holds throughout.                               *)
THEOREM ProvisioningInvariant == Spec => []ProvisioningInv
<1>1. Init => ProvisioningInv
  BY DEF Init, ProvisioningInv, PastWaitIsReady, StepsStay, NothingBeforeReady, AdminsAtHome,
         PublishedIfReady, AnswerAddressesTenant
<1>2. TypeOK /\ TypeOK' /\ ProvisioningInv /\ [Next]_vars => ProvisioningInv'
  BY InvariantStep
<1>3. QED
  BY <1>1, <1>2, TypeCorrect, PTL DEF Spec

(* A request that succeeds leaves its user able to work in a Ready         *)
(* workspace, unless the tenant itself removed something since it began.   *)
THEOREM SuccessMeansAccessHolds == Spec => []SuccessMeansAccess
<1>1. ProvisioningInv => SuccessMeansAccess
  BY DEF ProvisioningInv, PastWaitIsReady, StepsStay, SuccessMeansAccess, HasAccess, Home
<1>2. QED
  BY <1>1, ProvisioningInvariant, PTL

(* Where workspace names do not collide, no two users ever administer the  *)
(* same workspace.                                                         *)
THEOREM DedicatedWorkspaceHolds ==
  ASSUME OneTenantPerWorkspace
  PROVE  Spec => []DedicatedWorkspace
<1>1. TypeOK /\ ProvisioningInv => DedicatedWorkspace
  BY OneTenantPerWorkspace
     DEF ProvisioningInv, AdminsAtHome, DedicatedWorkspace, OneTenantPerWorkspace, TypeOK
<1>2. QED
  BY <1>1, TypeCorrect, ProvisioningInvariant, PTL

(* The name a successful request hands out is the identifier of its user's *)
(* own logical cluster, for any number of requests and users, if kcp sets  *)
(* the URL before it reports Ready.                                        *)
THEOREM AnswerAddressesTenantHolds == Spec => []AnswerAddressesTenant
<1>1. ProvisioningInv => AnswerAddressesTenant
  BY DEF ProvisioningInv
<1>2. QED
  BY <1>1, ProvisioningInvariant, PTL

(* Nothing is put into a workspace that kcp is still initialising.         *)
THEOREM NothingBeforeReadyHolds == Spec => []NothingBeforeReady
<1>1. ProvisioningInv => NothingBeforeReady
  BY DEF ProvisioningInv
<1>2. QED
  BY <1>1, ProvisioningInvariant, PTL

-----------------------------------------------------------------------------
(* How one step may change who has access.                                 *)
LEMMA AccessStep ==
  ASSUME OneTenantPerWorkspace, TypeOK, ProvisioningInv, [Next]_vars, NEW u \in Users,
         ~HasAccess(u), HasAccess(u)'
  PROVE  \E r \in Requests :
           /\ caller[r] = u
           /\ \/ \E next \in {"bind", "failed"} : EnsureClusterAdmin(r, next)
              \/ \E next \in {"resolve", "failed"} : EnsureAPIBinding(r, next)
<1> DEFINE w == WorkspaceOf[u]
<1> USE WorkspaceOfType DEF HasAccess
<1>1. ASSUME UNCHANGED <<grants, bound>>, phase'[w] = "Ready" => phase[w] = "Ready" \/ grants[w] = {}
      PROVE  FALSE
  BY <1>1
<1>2. phase[w] # "Ready" => grants[w] = {}
  BY DEF ProvisioningInv, NothingBeforeReady
<1>3. ASSUME NEW r \in Requests, NEW next \in {"wait", "failed"}, CreateWorkspace(r, next)
      PROVE  FALSE
  BY <1>1, <1>2, <1>3 DEF CreateWorkspace
<1>4. ASSUME NEW r \in Requests, SeeReady(r) \/ Resolve(r) \/ CallFails(r) \/ WaitTimesOut(r)
      PROVE  FALSE
  BY <1>1, <1>4 DEF SeeReady, Resolve, CallFails, WaitTimesOut
<1>5. ASSUME NEW r \in Requests, NEW next \in {"bind", "failed"}, EnsureClusterAdmin(r, next)
      PROVE  caller[r] = u
  BY <1>5 DEF EnsureClusterAdmin, TypeOK, Home
<1>6. ASSUME NEW r \in Requests, NEW next \in {"resolve", "failed"}, EnsureAPIBinding(r, next)
      PROVE  caller[r] = u
  BY <1>6, OneTenantPerWorkspace DEF EnsureAPIBinding, TypeOK, Home, OneTenantPerWorkspace
<1>7. ASSUME NEW r \in Requests, NEW v \in Users, Begin(r, v)
      PROVE  FALSE
  BY <1>1, <1>7 DEF Begin
<1>8. ASSUME NEW v \in Workspaces, KcpStep(v)
      PROVE  FALSE
  BY <1>1, <1>2, <1>8 DEF KcpStep, KcpSchedules, KcpPublishesUrl, KcpInitializes
<1>9. ASSUME NEW v \in Users, TenantStep(v)
      PROVE  FALSE
  BY <1>9 DEF TenantStep, TenantDeletesGrant, TenantDeletesBinding, TypeOK
<1>10. ASSUME ServerStops \/ UNCHANGED vars
       PROVE  FALSE
  BY <1>1, <1>10 DEF ServerStops, vars
<1>11. QED
  BY <1>3, <1>4, <1>5, <1>6, <1>7, <1>8, <1>9, <1>10 DEF Next, RequestStep

(* Access is completed only by a request of the same user that is granting *)
(* or binding.                                                             *)
THEOREM AccessOnlyByOwnLoginHolds ==
  ASSUME OneTenantPerWorkspace
  PROVE  Spec => AccessOnlyByOwnLogin
<1>1. ASSUME TypeOK, ProvisioningInv, [Next]_vars
      PROVE  [\A u \in Users : ~HasAccess(u) /\ HasAccess(u)' =>
                \E r \in Requests : caller[r] = u /\ pc[r] \in {"grant", "bind"}]_vars
  BY <1>1, AccessStep, OneTenantPerWorkspace DEF EnsureClusterAdmin, EnsureAPIBinding
<1>2. QED
  BY <1>1, TypeCorrect, ProvisioningInvariant, PTL DEF Spec, AccessOnlyByOwnLogin

-----------------------------------------------------------------------------
(* A step that leaves grants and bindings alone leaves everyone's access   *)
(* alone.                                                                  *)
LEMMA AccessKept ==
  ASSUME OneTenantPerWorkspace, TypeOK, ProvisioningInv, [Next]_vars,
         UNCHANGED <<grants, bound>>,
         \A w \in Workspaces : phase[w] = "Ready" => phase'[w] = "Ready"
  PROVE  {u \in Users : HasAccess(u)}' = {u \in Users : HasAccess(u)}
<1>1. ASSUME NEW u \in Users, HasAccess(u)
      PROVE  HasAccess(u)'
  BY <1>1, WorkspaceOfType DEF HasAccess
<1>2. ASSUME NEW u \in Users, HasAccess(u)'
      PROVE  HasAccess(u)
  <2>1. SUFFICES ASSUME ~HasAccess(u) PROVE FALSE
    OBVIOUS
  <2>2. UNCHANGED phase
    BY <1>2, <2>1, AccessStep DEF EnsureClusterAdmin, EnsureAPIBinding
  <2>3. QED
    BY <1>2, <2>1, <2>2 DEF HasAccess
<1>3. QED
  BY <1>1, <1>2

(* Granting or binding completes the access of the request's own user or   *)
(* nobody's.                                                               *)
LEMMA AccessGained ==
  ASSUME OneTenantPerWorkspace, TypeOK, ProvisioningInv, NEW r \in Requests,
         \/ \E next \in {"bind", "failed"} : EnsureClusterAdmin(r, next)
         \/ \E next \in {"resolve", "failed"} : EnsureAPIBinding(r, next)
  PROVE  LET access == {u \in Users : HasAccess(u)}
         IN access' = access \/ access' = access \cup {caller[r]}
<1>1. UNCHANGED phase
  BY DEF EnsureClusterAdmin, EnsureAPIBinding
<1>2. ASSUME NEW u \in Users, HasAccess(u)
      PROVE  HasAccess(u)'
  BY <1>1, <1>2, WorkspaceOfType DEF EnsureClusterAdmin, EnsureAPIBinding, HasAccess, TypeOK, Home
<1>3. ASSUME NEW u \in Users, u # caller[r], HasAccess(u)'
      PROVE  HasAccess(u)
  BY <1>1, <1>3, WorkspaceOfType
     DEF EnsureClusterAdmin, EnsureAPIBinding, HasAccess, TypeOK, Home, OneTenantPerWorkspace
<1>4. caller[r] \in Users
  BY DEF TypeOK
<1>5. QED
  BY <1>2, <1>3, <1>4

(* What the tenant removes costs that tenant its access and nobody else.   *)
LEMMA AccessLost ==
  ASSUME OneTenantPerWorkspace, TypeOK, NEW v \in Users, TenantStep(v)
  PROVE  LET access == {u \in Users : HasAccess(u)}
         IN access' = access \ {v}
<1>1. ~HasAccess(v)'
  BY WorkspaceOfType DEF TenantStep, TenantDeletesGrant, TenantDeletesBinding, HasAccess, TypeOK
<1>2. ASSUME NEW u \in Users, u # v
      PROVE  HasAccess(u)' <=> HasAccess(u)
  BY <1>2, WorkspaceOfType
     DEF TenantStep, TenantDeletesGrant, TenantDeletesBinding, HasAccess, TypeOK,
         OneTenantPerWorkspace
<1>3. QED
  BY <1>1, <1>2

(* The steps of a call are steps of it that the interface allows, or leave *)
(* all that the interface speaks of alone.                                 *)
LEMMA RequestStepPromised ==
  ASSUME OneTenantPerWorkspace, TypeOK, ProvisioningInv, NEW r \in Requests, RequestStep(r)
  PROVE  Promise!Complete(r) \/ Promise!Succeed(r) \/ Promise!Fail(r) \/ UNCHANGED Promise!vars
<1> DEFINE Access == {u \in Users : HasAccess(u)}
           Stat == [q \in Requests |-> Status(q)]
<1> USE DEF Status, Working, Ended, Promise!vars
<1> Next
  BY DEF Next
<1>1. ASSUME NEW next \in {"wait", "failed"}, CreateWorkspace(r, next)
      PROVE  Promise!Fail(r) \/ UNCHANGED Promise!vars
  <2>1. Access' = Access
    BY <1>1, AccessKept DEF CreateWorkspace, TypeOK
  <2>2. \/ Stat' = Stat
        \/ Stat[r] = "working" /\ Stat' = [Stat EXCEPT ![r] = "failed"]
    <3>1. ASSUME next = "wait"
          PROVE  Stat' = Stat
      BY <1>1, <3>1 DEF CreateWorkspace, TypeOK
    <3>2. ASSUME next = "failed"
          PROVE  Stat[r] = "working" /\ Stat' = [Stat EXCEPT ![r] = "failed"]
      BY <1>1, <3>2 DEF CreateWorkspace, TypeOK
    <3>3. QED
      BY <1>1, <3>1, <3>2
  <2>3. QED
    BY <1>1, <2>1, <2>2 DEF CreateWorkspace, Promise!Fail
<1>2. ASSUME SeeReady(r)
      PROVE  UNCHANGED Promise!vars
  <2>1. Access' = Access
    BY <1>2, AccessKept DEF SeeReady
  <2>2. Stat' = Stat
    BY <1>2 DEF SeeReady, TypeOK
  <2>3. QED
    BY <1>2, <2>1, <2>2 DEF SeeReady
<1>3. ASSUME \/ \E next \in {"bind", "failed"} : EnsureClusterAdmin(r, next)
             \/ \E next \in {"resolve", "failed"} : EnsureAPIBinding(r, next)
      PROVE  Promise!Complete(r) \/ Promise!Fail(r) \/ UNCHANGED Promise!vars
  <2>1. Access' = Access \/ Access' = Access \cup {caller[r]}
    BY <1>3, AccessGained
  <2>2. /\ Stat[r] = "working"
        /\ \E next \in {"working", "failed"} : Stat' = [Stat EXCEPT ![r] = next]
    BY <1>3 DEF EnsureClusterAdmin, EnsureAPIBinding, TypeOK
  <2>3. UNCHANGED <<caller, disturbed>>
    BY <1>3 DEF EnsureClusterAdmin, EnsureAPIBinding
  <2>4. CASE Access' = Access \cup {caller[r]}
    BY <2>2, <2>3, <2>4 DEF Promise!Complete
  <2>5. CASE Access' = Access /\ Stat' = [Stat EXCEPT ![r] = "failed"]
    BY <2>2, <2>3, <2>5 DEF Promise!Fail
  <2>6. CASE Access' = Access /\ Stat' = [Stat EXCEPT ![r] = "working"]
    <3>1. Stat' = Stat
      BY <2>2, <2>6
    <3>2. QED
      BY <2>3, <2>6, <3>1
  <2>7. QED
    BY <2>1, <2>2, <2>4, <2>5, <2>6
<1>4. ASSUME Resolve(r)
      PROVE  Promise!Succeed(r)
  <2>1. Access' = Access
    BY <1>4, AccessKept DEF Resolve
  <2>2. Stat[r] = "working" /\ Stat' = [Stat EXCEPT ![r] = "ok"]
    BY <1>4 DEF Resolve, TypeOK
  <2>3. caller[r] \in Access \/ disturbed[r]
    BY <1>4 DEF Resolve, ProvisioningInv, PastWaitIsReady, StepsStay, HasAccess, Home, TypeOK
  <2>4. QED
    BY <1>4, <2>1, <2>2, <2>3 DEF Resolve, Promise!Succeed
<1>5. ASSUME CallFails(r) \/ WaitTimesOut(r)
      PROVE  Promise!Fail(r)
  <2>1. Access' = Access
    BY <1>5, AccessKept DEF CallFails, WaitTimesOut
  <2>2. Stat[r] = "working" /\ Stat' = [Stat EXCEPT ![r] = "failed"]
    BY <1>5 DEF CallFails, WaitTimesOut, TypeOK
  <2>3. QED
    BY <1>5, <2>1, <2>2 DEF CallFails, WaitTimesOut, Promise!Fail
<1>6. QED
  BY <1>1, <1>2, <1>3, <1>4, <1>5 DEF RequestStep

(* The start of a call is what the interface calls one.                    *)
LEMMA BeginPromised ==
  ASSUME OneTenantPerWorkspace, TypeOK, ProvisioningInv,
         NEW r \in Requests, NEW u \in Users, Begin(r, u)
  PROVE  Promise!Call(r, u)
<1> DEFINE Access == {v \in Users : HasAccess(v)}
           Stat == [q \in Requests |-> Status(q)]
<1>1. Access' = Access
  BY AccessKept DEF Begin, Next
<1>2. Stat[r] # "working" /\ Stat' = [Stat EXCEPT ![r] = "working"]
  BY DEF Begin, TypeOK, Status, Working, Ended
<1>3. QED
  BY <1>1, <1>2 DEF Begin, Promise!Call

(* kcp's own work is invisible through the interface.                      *)
LEMMA KcpStepHidden ==
  ASSUME OneTenantPerWorkspace, TypeOK, ProvisioningInv, NEW w \in Workspaces, KcpStep(w)
  PROVE  UNCHANGED Promise!vars
<1> DEFINE Access == {u \in Users : HasAccess(u)}
<1>1. Access' = Access
  BY AccessKept DEF KcpStep, KcpSchedules, KcpPublishesUrl, KcpInitializes, TypeOK, Next
<1>2. UNCHANGED requestVars
  BY DEF KcpStep, KcpSchedules, KcpPublishesUrl, KcpInitializes
<1>3. QED
  BY <1>1, <1>2 DEF Promise!vars, Status

(* A tenant who deletes its binding or its grant gives up its access.      *)
LEMMA TenantStepPromised ==
  ASSUME OneTenantPerWorkspace, TypeOK, NEW u \in Users, TenantStep(u)
  PROVE  Promise!GiveUp(u)
<1> DEFINE Access == {v \in Users : HasAccess(v)}
<1>1. Access' = Access \ {u}
  BY AccessLost
<1>2. disturbed' = [r \in Requests |-> disturbed[r] \/ caller[r] = u]
  <2>1. \A r \in Requests : Home(r) = WorkspaceOf[u] <=> caller[r] = u
    BY OneTenantPerWorkspace DEF OneTenantPerWorkspace, Home, TypeOK
  <2>2. disturbed' = [r \in Requests |-> disturbed[r] \/ Home(r) = WorkspaceOf[u]]
    BY DEF TenantStep, TenantDeletesGrant, TenantDeletesBinding
  <2>3. QED
    BY <2>1, <2>2
<1>3. UNCHANGED <<pc, caller>>
  BY DEF TenantStep, TenantDeletesGrant, TenantDeletesBinding
<1>4. QED
  BY <1>1, <1>2, <1>3 DEF Promise!GiveUp, Status

(* A stop of the server, with calls in flight or without, stops the calls. *)
LEMMA StopPromised ==
  ASSUME OneTenantPerWorkspace, TypeOK, ProvisioningInv,
         ServerStops \/ (UNCHANGED vars /\ \A r \in Requests : pc[r] \notin Working)
  PROVE  Promise!Stop
<1> DEFINE Access == {u \in Users : HasAccess(u)}
           Stat == [r \in Requests |-> Status(r)]
<1>1. Access' = Access
  BY AccessKept DEF ServerStops, Next, vars
<1>2. Stat' = [r \in Requests |-> IF Stat[r] = "working" THEN "failed" ELSE Stat[r]]
  BY DEF ServerStops, TypeOK, vars, Status, Working, Ended
<1>3. QED
  BY <1>1, <1>2 DEF ServerStops, vars, Promise!Stop

(* Every step of the provisioner is a step of its interface or leaves all  *)
(* the interface speaks of unchanged.                                      *)
LEMMA RefinementStep ==
  ASSUME OneTenantPerWorkspace, TypeOK, ProvisioningInv, [Next]_vars
  PROVE  [Promise!Next]_(Promise!vars)
<1>1. ASSUME NEW r \in Requests, RequestStep(r)
      PROVE  Promise!Next \/ UNCHANGED Promise!vars
  BY <1>1, RequestStepPromised DEF Promise!Next
<1>2. ASSUME NEW r \in Requests, NEW u \in Users, Begin(r, u)
      PROVE  Promise!Next
  BY <1>2, BeginPromised DEF Promise!Next
<1>3. ASSUME NEW w \in Workspaces, KcpStep(w)
      PROVE  UNCHANGED Promise!vars
  BY <1>3, KcpStepHidden
<1>4. ASSUME NEW u \in Users, TenantStep(u)
      PROVE  Promise!Next
  BY <1>4, TenantStepPromised DEF Promise!Next
<1>5. ASSUME ServerStops
      PROVE  Promise!Next
  BY <1>5, StopPromised DEF Promise!Next
<1>6. ASSUME UNCHANGED vars
      PROVE  UNCHANGED Promise!vars
  BY <1>6 DEF vars, HasAccess, Status, Promise!vars
<1>7. QED
  BY <1>1, <1>2, <1>3, <1>4, <1>5, <1>6 DEF Next

(* The provisioner implements the safety part of its interface.            *)
THEOREM ImplementsTenantAccessSafety ==
  ASSUME OneTenantPerWorkspace
  PROVE  Spec => Promise!Spec
<1>1. Init => Promise!Init
  BY WorkspaceOfType DEF Init, Promise!Init, HasAccess, Status, Working
<1>2. TypeOK /\ ProvisioningInv /\ [Next]_vars => [Promise!Next]_(Promise!vars)
  BY RefinementStep, OneTenantPerWorkspace
<1>3. QED
  BY <1>1, <1>2, TypeCorrect, ProvisioningInvariant, PTL DEF Spec, Promise!Spec

-----------------------------------------------------------------------------
(* The platform as a whole.                                                *)

(* The provisioner inside the platform takes only the provisioner's steps. *)
LEMMA PlatformProvisions == PlatformSpec => Spec
<1>1. PlatformInit => Init
  BY DEF PlatformInit
<1>2. ASSUME [PlatformNext]_platformVars
      PROVE  [Next]_vars
  <2>1. ASSUME NEW r \in Requests, BeginRequest(r)
        PROVE  Next
    BY <2>1, PlatformLoginType DEF BeginRequest, Next
  <2>2. CASE Provision
    BY <2>2 DEF Provision, Next
  <2>3. CASE Kcp
    BY <2>3 DEF Kcp, Next
  <2>4. CASE TenantUndoes
    BY <2>4 DEF TenantUndoes, Next
  <2>5. CASE Answer \/ LoginStep
    BY <2>5 DEF Answer, LoginStep
  <2>6. CASE ProcessStops
    BY <2>6 DEF ProcessStops, Next
  <2>7. CASE UNCHANGED platformVars
    BY <2>7 DEF platformVars
  <2>8. QED
    BY <1>2, <2>1, <2>2, <2>3, <2>4, <2>5, <2>6, <2>7 DEF PlatformNext
<1>3. QED
  BY <1>1, <1>2, PTL DEF PlatformSpec, Spec

(* What leaves the provisioner alone leaves its interface alone.           *)
LEMMA InterfaceKept ==
  ASSUME UNCHANGED vars
  PROVE  UNCHANGED Promise!vars
BY DEF vars, HasAccess, Status, Promise!vars

(* A step of the platform is a step of the handlers over the promise: what *)
(* the provisioner does under them is what the promise allows.             *)
LEMMA PlatformStepIsLoginStep ==
  ASSUME OneTenantPerWorkspace, TypeOK, ProvisioningInv, [PlatformNext]_platformVars
  PROVE  [Login!Next]_(Login!vars)
<1> USE DEF Promise!vars
<1>1. ASSUME NEW r \in Requests, BeginRequest(r)
      PROVE  Login!Next
  <2>1. PICK l \in Logins : /\ Login!AcceptCallback(r, l) \/ Login!AcceptMe(r, l)
                            /\ Begin(r, UserOf[l])
    BY <1>1 DEF BeginRequest
  <2>2. Promise!Call(r, UserOf[l])
    BY <2>1, BeginPromised, OneTenantPerWorkspace, PlatformLoginType
  <2>3. Login!Tenant!Call(r, UserOf[l])
    BY <2>2 DEF Promise!Call, Login!Tenant!Call
  <2>4. QED
    BY <2>1, <2>3 DEF Login!Next, Login!RequestStep, Login!BeginCallback, Login!BeginMe
<1>2. CASE Provision
  <2>1. PICK r \in Requests : RequestStep(r)
    BY <1>2 DEF Provision
  <2>2. \/ Promise!Complete(r) \/ Promise!Succeed(r) \/ Promise!Fail(r)
        \/ UNCHANGED Promise!vars
    BY <2>1, RequestStepPromised, OneTenantPerWorkspace
  <2>3. UNCHANGED Login!loginVars
    BY <1>2 DEF Provision, loginVars, Login!loginVars, Login!codeVars, Login!exchangeVars,
                Login!historyVars
  <2>4. CASE UNCHANGED Promise!vars
    BY <2>3, <2>4 DEF Login!vars, Login!loginVars, Login!codeVars, Login!exchangeVars,
                      Login!historyVars
  <2>5. CASE Promise!Complete(r) \/ Promise!Succeed(r) \/ Promise!Fail(r)
    <3>1. Login!Tenant!Complete(r) \/ Login!Tenant!Succeed(r) \/ Login!Tenant!Fail(r)
      BY <2>5 DEF Promise!Complete, Promise!Succeed, Promise!Fail, Login!Tenant!Complete,
                  Login!Tenant!Succeed, Login!Tenant!Fail
    <3>2. QED
      BY <2>3, <3>1 DEF Login!ProvisionerStep, Login!RequestStep, Login!Next
  <2>6. QED
    BY <2>2, <2>4, <2>5
<1>3. CASE Answer
  BY <1>3 DEF Answer, Login!Next, Login!RequestStep
<1>4. CASE LoginStep
  BY <1>4 DEF LoginStep, Login!Next
<1>5. CASE Kcp
  <2>1. UNCHANGED Promise!vars
    BY <1>5, KcpStepHidden, OneTenantPerWorkspace DEF Kcp
  <2>2. QED
    BY <1>5, <2>1 DEF Kcp, loginVars, Login!vars
<1>6. CASE TenantUndoes
  <2>1. PICK u \in Users : TenantStep(u) /\ Login!RememberGaveUp(u)
    BY <1>6 DEF TenantUndoes
  <2>2. Promise!GiveUp(u)
    BY <2>1, TenantStepPromised, OneTenantPerWorkspace
  <2>3. Login!Tenant!GiveUp(u)
    BY <2>2 DEF Promise!GiveUp, Login!Tenant!GiveUp
  <2>4. QED
    BY <2>1, <2>3 DEF Login!UserGivesUp, Login!Next
<1>7. CASE ProcessStops
  <2>1. Promise!Stop
    BY <1>7, StopPromised, OneTenantPerWorkspace DEF ProcessStops
  <2>2. Login!Tenant!Stop
    BY <2>1 DEF Promise!Stop, Login!Tenant!Stop
  <2>3. QED
    BY <1>7, <2>2 DEF ProcessStops, Login!ServerStops, Login!Next
<1>8. CASE UNCHANGED platformVars
  <2>1. UNCHANGED Promise!vars
    BY <1>8, InterfaceKept DEF platformVars
  <2>2. QED
    BY <1>8, <2>1 DEF platformVars, loginVars, Login!vars
<1>9. QED
  BY <1>1, <1>2, <1>3, <1>4, <1>5, <1>6, <1>7, <1>8 DEF PlatformNext

(* The whole implements the login handlers over the promise.               *)
THEOREM ImplementsLoginFlowHolds ==
  ASSUME OneTenantPerWorkspace
  PROVE  PlatformSpec => ImplementsLoginFlow
<1>1. PlatformInit => Login!Init
  <2> SUFFICES ASSUME PlatformInit PROVE Login!Init
    OBVIOUS
  <2>1. Login!Tenant!Init
    BY WorkspaceOfType DEF PlatformInit, Init, Login!Tenant!Init, HasAccess, Status, Working
  <2>2. QED
    BY <2>1 DEF PlatformInit, Login!Init
<1>2. TypeOK /\ ProvisioningInv /\ [PlatformNext]_platformVars => [Login!Next]_(Login!vars)
  BY PlatformStepIsLoginStep, OneTenantPerWorkspace
<1>3. QED
  BY <1>1, <1>2, TypeCorrect, ProvisioningInvariant, PlatformProvisions, PTL
     DEF PlatformSpec, Login!Spec, ImplementsLoginFlow

(* LoginFlow's theorems, for the handlers of the platform.                 *)
LP == INSTANCE LoginFlow_proofs WITH
  access <- {u \in Users : HasAccess(u)},
  status <- [r \in Requests |-> Status(r)],
  excused <- disturbed

(* The two names of that instance of LoginFlow mean the same.              *)
LEMMA SameLogin == Login!Spec => LP!Spec
<1>1. Login!Init => LP!Init
  BY DEF Login!Init, Login!LoginInit, Login!Tenant!Init, Login!Free,
         LP!Init, LP!LoginInit, LP!Tenant!Init, LP!Free
<1>2. [Login!Next]_(Login!vars) => [LP!Next]_(LP!vars)
  BY DEF Login!Next, Login!vars, LP!Next, LP!vars,
         Login!HandleAuthorize, Login!ProviderIssues, Login!AcceptCallback,
         Login!BeginCallback, Login!CallbackFailsEarly, Login!AcceptMe,
         Login!BeginMe, Login!ProvisionerDone, Login!IssueCode,
         Login!RedirectWithTokens, Login!AnswerMe, Login!AnswerError, Login!Expired,
         Login!BeginExchange, Login!Remaining, Login!LookupAndSweep,
         Login!StillGood, Login!Holds, Login!Held, Login!AnswerExchange,
         Login!ProvisionerStep, Login!RememberGaveUp, Login!UserGivesUp, Login!Tick,
         Login!Forget, Login!ServerStops, Login!AnswerStep, Login!RequestStep,
         Login!ExchangeStep, Login!ProviderStep, Login!Free, Login!Callback,
         Login!Me, Login!tenantVars, Login!codeVars, Login!exchangeVars,
         Login!historyVars, Login!loginVars, Login!Tenant!Call,
         Login!Tenant!Complete, Login!Tenant!Succeed, Login!Tenant!Fail,
         Login!Tenant!GiveUp, Login!Tenant!Stop,
         LP!HandleAuthorize, LP!ProviderIssues, LP!AcceptCallback, LP!BeginCallback,
         LP!CallbackFailsEarly, LP!AcceptMe, LP!BeginMe, LP!ProvisionerDone,
         LP!IssueCode, LP!RedirectWithTokens, LP!AnswerMe, LP!AnswerError,
         LP!Expired, LP!BeginExchange, LP!Remaining, LP!LookupAndSweep,
         LP!StillGood, LP!Holds, LP!Held, LP!AnswerExchange, LP!ProvisionerStep,
         LP!RememberGaveUp, LP!UserGivesUp, LP!Tick, LP!Forget, LP!ServerStops,
         LP!AnswerStep, LP!RequestStep, LP!ExchangeStep, LP!ProviderStep, LP!Free,
         LP!Callback, LP!Me, LP!tenantVars, LP!codeVars, LP!exchangeVars,
         LP!historyVars, LP!loginVars, LP!Tenant!Call, LP!Tenant!Complete,
         LP!Tenant!Succeed, LP!Tenant!Fail, LP!Tenant!GiveUp, LP!Tenant!Stop
<1>3. QED
  BY <1>1, <1>2, PTL DEF Login!Spec, LP!Spec

(* Whoever holds tokens of the platform, or a code for them, has a Ready   *)
(* workspace with its APIs bound and is its admin, or gave that up.        *)
THEOREM TokensOpenWorkspaceHolds ==
  ASSUME OneTenantPerWorkspace
  PROVE  PlatformSpec => []TokensOpenWorkspace
<1>1. CodeLogins \subseteq Logins /\ UserOf \in [Logins -> Users]
  BY PlatformLoginType
<1>2. TTL \in Nat /\ MaxTime \in Nat
  BY PlatformLoginType
<1>3. LP!Spec => []LP!TokensMeanAccess
  BY <1>1, <1>2, LP!TokensMeanAccessHolds
<1>4. LP!TokensMeanAccess => TokensOpenWorkspace
  BY DEF LP!TokensMeanAccess, TokensOpenWorkspace, LP!Held, LP!Holds, Login!Held, Login!Holds
<1>5. QED
  BY <1>3, <1>4, SameLogin, ImplementsLoginFlowHolds, OneTenantPerWorkspace, PTL
     DEF ImplementsLoginFlow

(* With it the platform as a whole hands the tokens of a login over once   *)
(* at most, and loses no code.                                             *)
THEOREM PlatformKeepsCodes ==
  ASSUME OneTenantPerWorkspace
  PROVE  PlatformSpec => [](LP!DeliveredOnce /\ LP!CodesAccountedFor)
<1>1. CodeLogins \subseteq Logins /\ UserOf \in [Logins -> Users]
  BY PlatformLoginType
<1>2. TTL \in Nat /\ MaxTime \in Nat
  BY PlatformLoginType
<1>3. LP!Spec => []LP!DeliveredOnce
  BY <1>1, <1>2, LP!DeliveredOnceHolds
<1>4. LP!Spec => []LP!CodesAccountedFor
  BY <1>1, <1>2, LP!CodesAccountedForHolds
<1>5. QED
  BY <1>3, <1>4, SameLogin, ImplementsLoginFlowHolds, OneTenantPerWorkspace, PTL
     DEF ImplementsLoginFlow
=============================================================================
