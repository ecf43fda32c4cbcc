---------------------------- MODULE PlatformLogin ----------------------------
(***************************************************************************)
(* The login of the platform as a whole: the login handlers (LoginFlow) on *)
(* top of the provisioner they call (TenantProvisioning) instead of the    *)
(* promise TenantAccess makes for it, platform/pkg/auth/handler.go:333-344 *)
(* and 667-676.  Each step is a step of one of the two, or one that both   *)
(* take: a handler calls the provisioner in its own goroutine, and a stop  *)
(* of the process takes both down.  What the handlers read of the          *)
(* provisioner is whether their call has returned and with what.           *)
(***************************************************************************)
EXTENDS TenantProvisioning

CONSTANTS Logins, CodeLogins, UserOf, Exchanges, TTL, MaxTime  \* as in LoginFlow

ASSUME PlatformLoginType ==
  /\ CodeLogins \subseteq Logins /\ UserOf \in [Logins -> Users]
  /\ TTL \in Nat /\ MaxTime \in Nat

VARIABLES
  idp, work, pending, createdAt, now, xpc, xcode, xfound,  \* as in LoginFlow
  delivered, lost, gaveUp

Login ==
  INSTANCE LoginFlow WITH
    access <- {u \in Users : HasAccess(u)},
    status <- [r \in Requests |-> Status(r)],
    excused <- disturbed

loginVars == <<idp, work, pending, createdAt, now, xpc, xcode, xfound, delivered, lost, gaveUp>>
platformVars == <<vars, loginVars>>

PlatformInit == Init /\ Login!LoginInit

(* Mutant of BeginRequest: the user is whoever the handler served before.  *)
BeginRequest_StaleUser(r) ==
  \E l \in Logins :
    /\ Login!AcceptCallback(r, l) \/ Login!AcceptMe(r, l)
    /\ Begin(r, caller[r])

(* A handler calls EnsureTenantWorkspace for the user of the login.        *)
BeginRequest(r) ==
  \E l \in Logins :
    /\ Login!AcceptCallback(r, l) \/ Login!AcceptMe(r, l)
    /\ Begin(r, UserOf[l])

(* The call goes on.                                                       *)
Provision == (\E r \in Requests : RequestStep(r)) /\ UNCHANGED loginVars

(* It has returned: the handler answers.                                   *)
Answer == UNCHANGED vars /\ \E r \in Requests : Login!AnswerStep(r)

(* The rest of a login, and the clock.                                     *)
LoginStep ==
  /\ UNCHANGED vars
  /\ \/ \E l \in Logins : Login!ProviderStep(l)
     \/ \E x \in Exchanges : Login!ExchangeStep(x)
     \/ Login!Tick

Kcp == (\E w \in Workspaces : KcpStep(w)) /\ UNCHANGED loginVars

TenantUndoes == \E u \in Users : TenantStep(u) /\ Login!RememberGaveUp(u)

ProcessStops ==
  /\ ServerStops \/ (UNCHANGED vars /\ \A r \in Requests : pc[r] \notin Working)
  /\ Login!Forget

PlatformNext ==
  \/ \E r \in Requests : BeginRequest(r)
  \/ Provision \/ Answer \/ LoginStep \/ Kcp \/ TenantUndoes \/ ProcessStops

PlatformSpec == PlatformInit /\ [][PlatformNext]_platformVars

-----------------------------------------------------------------------------
(* From the browser to kcp: whoever has been handed tokens, or a code that *)
(* can still be turned into tokens, has a Ready workspace of their own     *)
(* with the platform's APIs in it, and is its admin, unless they have      *)
(* removed something from it themselves.  No failure, retry, concurrent    *)
(* login or stop of the server on the way makes a difference.              *)
TokensOpenWorkspace ==
  \A l \in Logins :
    delivered[l] > 0 \/ l \in pending \/ Login!Held(l) =>
      HasAccess(UserOf[l]) \/ UserOf[l] \in gaveUp

(* The whole implements the login handlers over the promise, and so all    *)
(* that LoginFlow is checked for.                                          *)
ImplementsLoginFlow == Login!Spec
=============================================================================
