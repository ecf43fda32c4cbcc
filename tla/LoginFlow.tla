------------------------------ MODULE LoginFlow ------------------------------
(***************************************************************************)
(* The login handlers of platform/pkg/auth/handler.go, between a browser,  *)
(* the upstream OIDC provider (external) and the workspace provisioner.    *)
(*                                                                         *)
(* HandleAuthorize sends the browser to the provider and keeps nothing.    *)
(* HandleCallback redeems the provider's code, calls the provisioner for   *)
(* the user named by the ID token and, if that succeeds, either hands the  *)
(* tokens over in the redirect (the CLI and the console) or stores them    *)
(* under a fresh platform code (OIDC clients, which passed a state).       *)
(* handleAuthCodeExchange turns a platform code into the tokens: under     *)
(* pendingMu it takes the code out of the map and sweeps expired entries,  *)
(* and after unlocking it looks at the age of the code it took once more.  *)
(* HandleMe calls the provisioner for the bearer of an ID token.           *)
(*                                                                         *)
(* The map lives in memory: a stop of the server forgets it.  A platform   *)
(* code is named after the login it was made for: each successful callback *)
(* draws 32 fresh random bytes.  The provisioner is TenantAccess, the      *)
(* interface that TenantProvisioning is shown to implement.                *)
(***************************************************************************)
EXTENDS Naturals, FiniteSets

CONSTANTS
  Logins,     \* browser logins, one provider code each
  CodeLogins, \* those whose /auth/authorize carried an OAuth2 state
  Users,      \* OIDC user names
  UserOf,     \* the user each login authenticates (oidcClaims.username)
  Requests,   \* slots for callbacks and /auth/me requests being served
  Exchanges,  \* slots for /auth/token requests being served
  TTL,        \* 60 seconds, in ticks of the clock
  MaxTime     \* bound: the last tick of the clock

ASSUME LoginsType ==
  CodeLogins \subseteq Logins /\ UserOf \in [Logins -> Users]
ASSUME ClockType == TTL \in Nat /\ MaxTime \in Nat

VARIABLES
  access, status, caller, excused,  \* the provisioner, see TenantAccess
  idp,        \* provider: what became of each login's authorization code
  work,       \* the login a callback is serving, if the slot is serving one
  pending,    \* pendingCodes: codes that are in the map
  createdAt,  \* pendingAuth.createdAt, 0 before there is a code
  now,        \* the clock, which starts at 1
  xpc,        \* where each exchange is
  xcode,      \* the code it was sent
  xfound,     \* whether its lookup found the code in the map
  delivered,  \* history: how often the tokens of a login were handed over
  lost,       \* history: codes forgotten by a stop of the server
  gaveUp      \* history: users who ever gave up part of their access

tenantVars == <<access, status, caller, excused>>
codeVars == <<pending, createdAt>>
exchangeVars == <<xpc, xcode, xfound>>
historyVars == <<delivered, lost, gaveUp>>
loginVars == <<idp, work, codeVars, now, exchangeVars, historyVars>>
vars == <<access, status, caller, excused, idp, work, pending, createdAt, now,
          xpc, xcode, xfound, delivered, lost, gaveUp>>

Tenant == INSTANCE TenantAccess

Free == <<"free">>
Callback(l) == <<"callback", l>>
Me(l) == <<"me", l>>
Work == {Free} \cup {Callback(l) : l \in Logins} \cup {Me(l) : l \in Logins}

LoginInit ==
  /\ idp = [l \in Logins |-> "none"]
  /\ work = [r \in Requests |-> Free]
  /\ pending = {}
  /\ createdAt = [l \in Logins |-> 0]
  /\ now = 1
  /\ xpc = [x \in Exchanges |-> "idle"]
  /\ xcode \in [Exchanges -> Logins]
  /\ xfound = [x \in Exchanges |-> FALSE]
  /\ delivered = [l \in Logins |-> 0]
  /\ lost = {}
  /\ gaveUp = {}

Init == Tenant!Init /\ LoginInit

-----------------------------------------------------------------------------
(* Authorize and callback.                                                 *)

(* The redirect carries everything the callback will need in the OAuth2    *)
(* state.  A missing or foreign redirect_uri is refused and changes        *)
(* nothing.                                                                *)
HandleAuthorize(l) ==
  /\ idp[l] = "none"
  /\ idp' = [idp EXCEPT ![l] = "asked"]
  /\ UNCHANGED <<tenantVars, work, codeVars, now, exchangeVars, historyVars>>

(* External: the user signs in and the provider issues a single-use code.  *)
ProviderIssues(l) ==
  /\ idp[l] = "asked"
  /\ idp' = [idp EXCEPT ![l] = "issued"]
  /\ UNCHANGED <<tenantVars, work, codeVars, now, exchangeVars, historyVars>>

(* The exchange with the provider succeeds once per code; a repeated       *)
(* callback, a malformed state or a provider error ends in an error page.  *)
AcceptCallback(r, l) ==
  /\ work[r] = Free
  /\ idp[l] = "issued"
  /\ idp' = [idp EXCEPT ![l] = "used"]
  /\ work' = [work EXCEPT ![r] = Callback(l)]
  /\ UNCHANGED <<codeVars, now, exchangeVars, historyVars>>

BeginCallback(r, l) == AcceptCallback(r, l) /\ Tenant!Call(r, UserOf[l])

(* The code is spent but the tokens do not come back, do not verify or     *)
(* name nobody.                                                            *)
CallbackFailsEarly(l) ==
  /\ idp[l] = "issued"
  /\ idp' = [idp EXCEPT ![l] = "used"]
  /\ UNCHANGED <<tenantVars, work, codeVars, now, exchangeVars, historyVars>>

(* HandleMe with an ID token that verifies, so one that was handed out.    *)
AcceptMe(r, l) ==
  /\ work[r] = Free
  /\ delivered[l] > 0
  /\ work' = [work EXCEPT ![r] = Me(l)]
  /\ UNCHANGED <<idp, codeVars, now, exchangeVars, historyVars>>

BeginMe(r, l) == AcceptMe(r, l) /\ Tenant!Call(r, UserOf[l])

ProvisionerDone(r) == status[r] = "ok"

IssueCode(r, l) ==
  /\ work[r] = Callback(l)
  /\ l \in CodeLogins
  /\ ProvisionerDone(r)
  /\ pending' = pending \cup {l}
  /\ createdAt' = [createdAt EXCEPT ![l] = now]
  /\ work' = [work EXCEPT ![r] = Free]
  /\ UNCHANGED <<tenantVars, idp, now, exchangeVars, historyVars>>

RedirectWithTokens(r, l) ==
  /\ work[r] = Callback(l)
  /\ l \notin CodeLogins
  /\ ProvisionerDone(r)
  /\ delivered' = [delivered EXCEPT ![l] = @ + 1]
  /\ work' = [work EXCEPT ![r] = Free]
  /\ UNCHANGED <<tenantVars, idp, codeVars, now, exchangeVars, lost, gaveUp>>

AnswerMe(r, l) ==
  /\ work[r] = Me(l)
  /\ ProvisionerDone(r)
  /\ work' = [work EXCEPT ![r] = Free]
  /\ UNCHANGED <<tenantVars, idp, codeVars, now, exchangeVars, historyVars>>

AnswerError(r) ==
  /\ work[r] # Free
  /\ status[r] = "failed"
  /\ work' = [work EXCEPT ![r] = Free]
  /\ UNCHANGED <<tenantVars, idp, codeVars, now, exchangeVars, historyVars>>

-----------------------------------------------------------------------------
(* The token endpoint.                                                     *)

Expired(l) == now - createdAt[l] > TTL

BeginExchange(x, l) ==
  /\ xpc[x] = "idle"
  /\ xpc' = [xpc EXCEPT ![x] = "lookup"]
  /\ xcode' = [xcode EXCEPT ![x] = l]
  /\ xfound' = [xfound EXCEPT ![x] = FALSE]
  /\ UNCHANGED <<tenantVars, idp, work, codeVars, now, historyVars>>

(* Which entries the critical section leaves in the map.  Mutants: the     *)
(* code is only read; the sweep counts an entry of exactly 60 seconds as   *)
(* expired.                                                                *)
Remaining_KeepsCode(l) == {k \in pending : ~Expired(k)}
Remaining_OffByOne(l) == {k \in pending \ {l} : now - createdAt[k] < TTL}
Remaining(l) == {k \in pending \ {l} : ~Expired(k)}

(* The critical section under pendingMu.                                   *)
LookupAndSweep(x) ==
  /\ xpc[x] = "lookup"
  /\ xpc' = [xpc EXCEPT ![x] = "check"]
  /\ xfound' = [xfound EXCEPT ![x] = xcode[x] \in pending]
  /\ pending' = Remaining(xcode[x])
  /\ UNCHANGED <<tenantVars, idp, work, createdAt, now, xcode, historyVars>>

(* Found before, and still good now.                                       *)
StillGood(x) == xfound[x] /\ ~Expired(xcode[x])

(* An exchange has taken the code out of the map and not answered yet.     *)
Holds(x, l) == xpc[x] = "check" /\ xfound[x] /\ xcode[x] = l
Held(l) == \E x \in Exchanges : Holds(x, l)

(* After the unlock: the age once more, then the tokens or a 400.          *)
AnswerExchange(x) ==
  /\ xpc[x] = "check"
  /\ xpc' = [xpc EXCEPT ![x] = "idle"]
  /\ delivered' = IF StillGood(x) THEN [delivered EXCEPT ![xcode[x]] = @ + 1] ELSE delivered
  /\ UNCHANGED <<tenantVars, idp, work, codeVars, now, xcode, xfound, lost, gaveUp>>

-----------------------------------------------------------------------------
(* The provisioner, the clock and the server process.                      *)

ProvisionerStep(r) ==
  /\ Tenant!Complete(r) \/ Tenant!Succeed(r) \/ Tenant!Fail(r)
  /\ UNCHANGED loginVars

RememberGaveUp(u) ==
  /\ gaveUp' = gaveUp \cup {u}
  /\ UNCHANGED <<idp, work, codeVars, now, exchangeVars, delivered, lost>>

UserGivesUp(u) == RememberGaveUp(u) /\ Tenant!GiveUp(u)

Tick ==
  /\ now < MaxTime
  /\ now' = now + 1
  /\ UNCHANGED <<tenantVars, idp, work, codeVars, exchangeVars, historyVars>>

(* Everything held by the process is gone: the requests in flight and the  *)
(* map of codes.                                                           *)
Forget ==
  /\ work' = [r \in Requests |-> Free]
  /\ pending' = {}
  /\ xpc' = [x \in Exchanges |-> "idle"]
  /\ lost' = lost \cup pending \cup {l \in Logins : Held(l)}
  /\ UNCHANGED <<idp, createdAt, now, xcode, xfound, delivered, gaveUp>>

ServerStops == Forget /\ Tenant!Stop

-----------------------------------------------------------------------------
AnswerStep(r) ==
  \/ \E l \in Logins : IssueCode(r, l) \/ RedirectWithTokens(r, l) \/ AnswerMe(r, l)
  \/ AnswerError(r)

RequestStep(r) ==
  \/ \E l \in Logins : BeginCallback(r, l) \/ BeginMe(r, l)
  \/ AnswerStep(r)
  \/ ProvisionerStep(r)

ExchangeStep(x) ==
  \/ \E l \in Logins : BeginExchange(x, l)
  \/ LookupAndSweep(x)
  \/ AnswerExchange(x)

ProviderStep(l) == HandleAuthorize(l) \/ ProviderIssues(l) \/ CallbackFailsEarly(l)

Next ==
  \/ \E l \in Logins : ProviderStep(l)
  \/ \E r \in Requests : RequestStep(r)
  \/ \E x \in Exchanges : ExchangeStep(x)
  \/ \E u \in Users : UserGivesUp(u)
  \/ Tick
  \/ ServerStops

Spec == Init /\ [][Next]_vars

-----------------------------------------------------------------------------
(* Properties.                                                             *)

TypeOK ==
  /\ access \in SUBSET Users
  /\ status \in [Requests -> {"idle", "working", "ok", "failed"}]
  /\ caller \in [Requests -> Users]
  /\ excused \in [Requests -> BOOLEAN]
  /\ idp \in [Logins -> {"none", "asked", "issued", "used"}]
  /\ work \in [Requests -> Work]
  /\ pending \in SUBSET Logins
  /\ createdAt \in [Logins -> Nat]
  /\ now \in Nat
  /\ xpc \in [Exchanges -> {"idle", "lookup", "check"}]
  /\ xcode \in [Exchanges -> Logins]
  /\ xfound \in [Exchanges -> BOOLEAN]
  /\ delivered \in [Logins -> Nat]
  /\ lost \in SUBSET Logins
  /\ gaveUp \in SUBSET Users

(* "Codes are single-use" (handler.go:108): however many exchanges present *)
(* the same code, and however they interleave with the callback, the sweep *)
(* and stops, the tokens of a login are handed over at most once.          *)
DeliveredOnce == \A l \in Logins : delivered[l] <= 1

(* No code disappears: one that was issued is in the map, held by the      *)
(* exchange that took it out, delivered, too old, or forgotten by a stop.  *)
(* So the sweep never takes a code that is still good, and a client is     *)
(* refused only for one of the last three reasons or for being second.     *)
CodesAccountedFor ==
  \A l \in Logins : createdAt[l] > 0 =>
    l \in pending \/ Held(l) \/ delivered[l] > 0 \/ Expired(l) \/ l \in lost

(* Nobody holds tokens, or a code for them, without a workspace to use     *)
(* them in, unless they have given it up themselves.                       *)
TokensMeanAccess ==
  \A l \in Logins :
    delivered[l] > 0 \/ l \in pending \/ Held(l) => UserOf[l] \in access \cup gaveUp

(* The inductive invariant behind DeliveredOnce and TokensMeanAccess: the  *)
(* right to the tokens of a login is in one place at a time.  It passes    *)
(* from the provider's code to a callback, to the map, to one exchange and *)
(* to the client, and each place knows the later ones to be empty.         *)
Serving(r, l) == work[r] = Callback(l)
Untouched(l) == l \notin pending /\ delivered[l] = 0 /\ \A x \in Exchanges : ~Holds(x, l)
OnePlaceFor(l) ==
  /\ idp[l] # "used" => Untouched(l) /\ \A r \in Requests : ~Serving(r, l)
  /\ \A r \in Requests : Serving(r, l) =>
       Untouched(l) /\ \A s \in Requests : Serving(s, l) => s = r
  /\ l \in pending => delivered[l] = 0 /\ \A x \in Exchanges : ~Holds(x, l)
  /\ \A x \in Exchanges : Holds(x, l) =>
       delivered[l] = 0 /\ \A y \in Exchanges : Holds(y, l) => y = x
  /\ delivered[l] <= 1
OnePlace == \A l \in Logins : OnePlaceFor(l)
ServedIsProvisioned ==
  \A r \in Requests :
    /\ \A l \in Logins : Serving(r, l) => caller[r] = UserOf[l]
    /\ excused[r] => caller[r] \in gaveUp
    /\ status[r] = "ok" => caller[r] \in access \cup gaveUp
LoginInv == OnePlace /\ ServedIsProvisioned /\ TokensMeanAccess
=============================================================================
