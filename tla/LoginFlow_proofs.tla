-------------------------- MODULE LoginFlow_proofs --------------------------
(***************************************************************************)
(* Theorems about LoginFlow for any logins, users, request slots and time  *)
(* to live.                                                                *)
(***************************************************************************)
EXTENDS LoginFlow, TLAPS

USE LoginsType, ClockType
    DEF tenantVars, codeVars, exchangeVars, historyVars

(* The actions of the provisioner keep its part of the type invariant.     *)
LEMMA ProvisionerTypes ==
  ASSUME TypeOK,
         \/ \E r \in Requests : \/ Tenant!Complete(r) \/ Tenant!Succeed(r) \/ Tenant!Fail(r)
                                \/ \E u \in Users : Tenant!Call(r, u)
         \/ \E u \in Users : Tenant!GiveUp(u)
         \/ Tenant!Stop
  PROVE  /\ access' \in SUBSET Users
         /\ status' \in [Requests -> {"idle", "working", "ok", "failed"}]
         /\ caller' \in [Requests -> Users]
         /\ excused' \in [Requests -> BOOLEAN]
<1> USE DEF TypeOK
<1>1. CASE \E r \in Requests : Tenant!Complete(r)
  BY <1>1 DEF Tenant!Complete
<1>2. CASE \E r \in Requests : Tenant!Succeed(r) \/ Tenant!Fail(r)
  BY <1>2 DEF Tenant!Succeed, Tenant!Fail
<1>3. CASE \E r \in Requests, u \in Users : Tenant!Call(r, u)
  BY <1>3 DEF Tenant!Call
<1>4. CASE \E u \in Users : Tenant!GiveUp(u)
  BY <1>4 DEF Tenant!GiveUp
<1>5. CASE Tenant!Stop
  BY <1>5 DEF Tenant!Stop
<1>6. QED
  BY <1>1, <1>2, <1>3, <1>4, <1>5

(* Type correctness.                                                       *)
THEOREM TypeCorrect == Spec => []TypeOK
<1>1. Init => TypeOK
  BY DEF Init, LoginInit, Tenant!Init, TypeOK, Work
<1>2. TypeOK /\ [Next]_vars => TypeOK'
  <2> SUFFICES ASSUME TypeOK, [Next]_vars PROVE TypeOK'
    OBVIOUS
  <2>1. ASSUME NEW l \in Logins, HandleAuthorize(l) \/ ProviderIssues(l) \/ CallbackFailsEarly(l)
        PROVE  TypeOK'
    BY <2>1 DEF HandleAuthorize, ProviderIssues, CallbackFailsEarly, TypeOK
  <2>2. ASSUME NEW r \in Requests, NEW l \in Logins, BeginCallback(r, l) \/ BeginMe(r, l)
        PROVE  TypeOK'
    <3>1. UserOf[l] \in Users /\ Tenant!Call(r, UserOf[l])
      BY <2>2 DEF BeginCallback, AcceptCallback, BeginMe, AcceptMe
    <3>2. QED
      BY <2>2, <3>1, ProvisionerTypes DEF BeginCallback, AcceptCallback, BeginMe, AcceptMe,
                                          TypeOK, Work
  <2>3. ASSUME NEW r \in Requests, NEW l \in Logins,
               IssueCode(r, l) \/ RedirectWithTokens(r, l) \/ AnswerMe(r, l)
        PROVE  TypeOK'
    BY <2>3 DEF IssueCode, RedirectWithTokens, AnswerMe, TypeOK, Work
  <2>4. ASSUME NEW r \in Requests, AnswerError(r)
        PROVE  TypeOK'
    BY <2>4 DEF AnswerError, TypeOK, Work
  <2>5. ASSUME NEW r \in Requests, ProvisionerStep(r)
        PROVE  TypeOK'
    BY <2>5, ProvisionerTypes DEF ProvisionerStep, loginVars, TypeOK
  <2>6. ASSUME NEW x \in Exchanges, ExchangeStep(x)
        PROVE  TypeOK'
    <3>1. CASE \E l \in Logins : BeginExchange(x, l)
      BY <3>1 DEF BeginExchange, TypeOK
    <3>2. CASE LookupAndSweep(x)
      BY <3>2 DEF LookupAndSweep, Remaining, TypeOK
    <3>3. CASE AnswerExchange(x)
      <4>1. delivered' \in [Logins -> Nat]
        BY <3>3 DEF AnswerExchange, TypeOK
      <4>2. QED
        BY <3>3, <4>1 DEF AnswerExchange, TypeOK
    <3>4. QED
      BY <2>6, <3>1, <3>2, <3>3 DEF ExchangeStep
  <2>7. ASSUME NEW u \in Users, UserGivesUp(u)
        PROVE  TypeOK'
    BY <2>7, ProvisionerTypes DEF UserGivesUp, RememberGaveUp, TypeOK
  <2>8. CASE Tick
    BY <2>8 DEF Tick, TypeOK
  <2>9. CASE ServerStops
    BY <2>9, ProvisionerTypes DEF ServerStops, Forget, TypeOK, Work
  <2>10. CASE UNCHANGED vars
    BY <2>10 DEF vars, TypeOK
  <2>11. QED
    BY <2>1, <2>2, <2>3, <2>4, <2>5, <2>6, <2>7, <2>8, <2>9, <2>10
       DEF Next, ProviderStep, RequestStep, AnswerStep
<1>3. QED
  BY <1>1, <1>2, PTL DEF Spec

-----------------------------------------------------------------------------
(* What a lookup finds.                                                    *)
LEMMA LookupFinds ==
  ASSUME TypeOK, NEW x \in Exchanges, LookupAndSweep(x), NEW l \in Logins
  PROVE  Holds(x, l)' <=> (xcode[x] = l /\ l \in pending)
<1>1. xfound'[x] <=> xcode[x] \in pending
  <2>1. xfound' = [xfound EXCEPT ![x] = (xcode[x] \in pending)] /\ x \in DOMAIN xfound
    BY DEF LookupAndSweep, TypeOK
  <2>2. QED
    BY <2>1, Zenon
<1>2. xpc'[x] = "check" /\ xcode'[x] = xcode[x]
  BY DEF LookupAndSweep, TypeOK
<1>3. QED
  BY <1>1, <1>2 DEF Holds

(* If nothing that concerns login l changes, its tokens stay where they    *)
(* are.                                                                    *)
LEMMA SamePlace ==
  ASSUME NEW l \in Logins, OnePlaceFor(l),
         \A r \in Requests : Serving(r, l)' <=> Serving(r, l),
         \A x \in Exchanges : Holds(x, l)' <=> Holds(x, l),
         l \in pending' <=> l \in pending,
         delivered'[l] = delivered[l],
         idp'[l] = "used" <=> idp[l] = "used"
  PROVE  OnePlaceFor(l)'
BY DEF OnePlaceFor, Untouched

(* What the request slots and the exchanges have to do with a login does   *)
(* not change while work and the exchanges do not.                         *)
LEMMA SameRoles ==
  ASSUME NEW l \in Logins
  PROVE  /\ UNCHANGED work => \A r \in Requests : Serving(r, l)' <=> Serving(r, l)
         /\ UNCHANGED exchangeVars => \A x \in Exchanges : Holds(x, l)' <=> Holds(x, l)
BY DEF Serving, Holds

LEMMA OnePlaceStep ==
  ASSUME TypeOK, TypeOK', OnePlace, [Next]_vars
  PROVE  OnePlace'
<1> SUFFICES ASSUME NEW k \in Logins
             PROVE  OnePlaceFor(k)'
  BY DEF OnePlace
<1> OnePlaceFor(k)
  BY DEF OnePlace
<1>1. ASSUME NEW l \in Logins, HandleAuthorize(l) \/ ProviderIssues(l)
      PROVE  OnePlaceFor(k)'
  BY <1>1, SamePlace, SameRoles DEF HandleAuthorize, ProviderIssues, TypeOK
<1>2. ASSUME NEW l \in Logins, CallbackFailsEarly(l)
      PROVE  OnePlaceFor(k)'
  <2>1. CASE k = l
    <3>1. Untouched(k) /\ \A r \in Requests : ~Serving(r, k)
      BY <1>2, <2>1 DEF CallbackFailsEarly, OnePlaceFor
    <3>2. Untouched(k)' /\ \A r \in Requests : ~Serving(r, k)'
      BY <1>2, <3>1, SameRoles DEF CallbackFailsEarly, Untouched
    <3>3. QED
      BY <3>2 DEF OnePlaceFor, Untouched
  <2>2. CASE k # l
    BY <1>2, <2>2, SamePlace, SameRoles DEF CallbackFailsEarly, TypeOK
  <2>3. QED
    BY <2>1, <2>2
<1>3. ASSUME NEW r \in Requests, NEW l \in Logins, BeginCallback(r, l)
      PROVE  OnePlaceFor(k)'
  <2>1. CASE k = l
    <3>1. Untouched(k) /\ \A s \in Requests : ~Serving(s, k)
      BY <1>3, <2>1 DEF BeginCallback, AcceptCallback, OnePlaceFor
    <3>2. Untouched(k)'
      BY <1>3, <3>1, SameRoles DEF BeginCallback, AcceptCallback, Untouched
    <3>3. \A s \in Requests : Serving(s, k)' => s = r
      BY <1>3, <3>1 DEF BeginCallback, AcceptCallback, Serving, TypeOK
    <3>4. idp'[k] = "used"
      BY <1>3, <2>1 DEF BeginCallback, AcceptCallback, TypeOK
    <3>5. QED
      BY <3>2, <3>3, <3>4 DEF OnePlaceFor, Untouched
  <2>2. CASE k # l
    <3>1. \A s \in Requests : Serving(s, k)' <=> Serving(s, k)
      BY <1>3, <2>2 DEF BeginCallback, AcceptCallback, Serving, Callback, Free, TypeOK
    <3>2. QED
      BY <1>3, <2>2, <3>1, SamePlace, SameRoles DEF BeginCallback, AcceptCallback, TypeOK
  <2>3. QED
    BY <2>1, <2>2
<1>4. ASSUME NEW r \in Requests, NEW l \in Logins, BeginMe(r, l)
      PROVE  OnePlaceFor(k)'
  <2>1. \A s \in Requests : Serving(s, k)' <=> Serving(s, k)
    BY <1>4 DEF BeginMe, AcceptMe, Serving, Callback, Me, Free, TypeOK
  <2>2. QED
    BY <1>4, <2>1, SamePlace, SameRoles DEF BeginMe, AcceptMe
<1>5. ASSUME NEW r \in Requests, NEW l \in Logins, IssueCode(r, l) \/ RedirectWithTokens(r, l)
      PROVE  OnePlaceFor(k)'
  <2>1. work' = [work EXCEPT ![r] = Free] /\ Serving(r, l)
    BY <1>5 DEF IssueCode, RedirectWithTokens, Serving
  <2>2. \A x \in Exchanges : Holds(x, k)' <=> Holds(x, k)
    BY <1>5, SameRoles DEF IssueCode, RedirectWithTokens
  <2>3. CASE k = l
    <3>1. Untouched(k) /\ \A s \in Requests : Serving(s, k) => s = r
      BY <2>1, <2>3 DEF OnePlaceFor
    <3>2. \A s \in Requests : ~Serving(s, k)'
      BY <2>1, <3>1 DEF Serving, Callback, Free, TypeOK
    <3>3. idp'[k] = "used"
      BY <1>5, <2>1, <2>3 DEF IssueCode, RedirectWithTokens, OnePlaceFor
    <3>4. \/ k \in pending' /\ delivered'[k] = 0
          \/ k \notin pending' /\ delivered'[k] = 1
      BY <1>5, <2>3, <3>1 DEF IssueCode, RedirectWithTokens, Untouched, TypeOK
    <3>5. QED
      BY <2>2, <3>1, <3>2, <3>3, <3>4 DEF OnePlaceFor, Untouched
  <2>4. CASE k # l
    <3>1. \A s \in Requests : Serving(s, k)' <=> Serving(s, k)
      BY <2>1, <2>4 DEF Serving, Callback, Free, TypeOK
    <3>2. QED
      BY <1>5, <2>2, <2>4, <3>1, SamePlace DEF IssueCode, RedirectWithTokens, TypeOK
  <2>5. QED
    BY <2>3, <2>4
<1>6. ASSUME UNCHANGED <<idp, pending, exchangeVars, delivered>>,
             \A s \in Requests : work'[s] = work[s] \/ work'[s] = Free
      PROVE  OnePlaceFor(k)'
  <2>1. \A s \in Requests : Serving(s, k)' => Serving(s, k)
    BY <1>6 DEF Serving, Callback, Free
  <2>2. \A x \in Exchanges : Holds(x, k)' <=> Holds(x, k)
    BY <1>6, SameRoles
  <2>3. QED
    BY <1>6, <2>1, <2>2 DEF OnePlaceFor, Untouched
<1>7. ASSUME NEW x \in Exchanges, NEW l \in Logins, BeginExchange(x, l)
      PROVE  OnePlaceFor(k)'
  <2>1. \A y \in Exchanges : Holds(y, k)' <=> Holds(y, k)
    BY <1>7 DEF BeginExchange, Holds, TypeOK
  <2>2. QED
    BY <1>7, <2>1, SamePlace, SameRoles DEF BeginExchange
<1>8. ASSUME NEW x \in Exchanges, LookupAndSweep(x)
      PROVE  OnePlaceFor(k)'
  <2>1. \A s \in Requests : Serving(s, k)' <=> Serving(s, k)
    BY <1>8, SameRoles DEF LookupAndSweep
  <2>2. \A y \in Exchanges : y # x => (Holds(y, k)' <=> Holds(y, k))
    BY <1>8 DEF LookupAndSweep, Holds, TypeOK
  <2>3. Holds(x, k)' <=> (xcode[x] = k /\ k \in pending)
    BY <1>8, LookupFinds
  <2>4. ~Holds(x, k)
    BY <1>8 DEF LookupAndSweep, Holds
  <2>5. k \in pending' => k \in pending /\ k # xcode[x]
    BY <1>8 DEF LookupAndSweep, Remaining
  <2>6. UNCHANGED <<delivered, idp>>
    BY <1>8 DEF LookupAndSweep
  <2>7. QED
    BY <2>1, <2>2, <2>3, <2>4, <2>5, <2>6 DEF OnePlaceFor, Untouched
<1>9. ASSUME NEW x \in Exchanges, AnswerExchange(x)
      PROVE  OnePlaceFor(k)'
  <2>1. \A s \in Requests : Serving(s, k)' <=> Serving(s, k)
    BY <1>9, SameRoles DEF AnswerExchange
  <2>2. \A y \in Exchanges : y # x => (Holds(y, k)' <=> Holds(y, k))
    BY <1>9 DEF AnswerExchange, Holds, TypeOK
  <2>3. ~Holds(x, k)'
    BY <1>9 DEF AnswerExchange, Holds, TypeOK
  <2>4. UNCHANGED <<pending, idp>>
    BY <1>9 DEF AnswerExchange
  <2>5. \/ delivered'[k] = delivered[k]
        \/ Holds(x, k) /\ delivered'[k] = delivered[k] + 1
    <3>1. CASE StillGood(x) /\ xcode[x] = k
      <4>1. Holds(x, k)
        BY <1>9, <3>1 DEF AnswerExchange, StillGood, Holds
      <4>2. delivered' = [delivered EXCEPT ![k] = @ + 1]
        BY <1>9, <3>1 DEF AnswerExchange
      <4>3. QED
        BY <4>1, <4>2 DEF TypeOK
    <3>2. CASE ~(StillGood(x) /\ xcode[x] = k)
      BY <1>9, <3>2 DEF AnswerExchange, TypeOK
    <3>3. QED
      BY <3>1, <3>2
  <2>6. QED
    BY <2>1, <2>2, <2>3, <2>4, <2>5 DEF OnePlaceFor, Untouched
<1>10. CASE ServerStops
  <2>1. \A s \in Requests : ~Serving(s, k)'
    BY <1>10 DEF ServerStops, Forget, Serving, Callback, Free
  <2>2. \A x \in Exchanges : ~Holds(x, k)'
    BY <1>10 DEF ServerStops, Forget, Holds
  <2>3. k \notin pending' /\ delivered'[k] = delivered[k] /\ idp'[k] = idp[k]
    BY <1>10 DEF ServerStops, Forget
  <2>4. QED
    BY <2>1, <2>2, <2>3 DEF OnePlaceFor, Untouched
<1>11. ASSUME NEW r \in Requests, AnswerError(r) \/ \E l \in Logins : AnswerMe(r, l)
       PROVE  OnePlaceFor(k)'
  BY <1>11, <1>6 DEF AnswerError, AnswerMe, TypeOK
<1>12. ASSUME UNCHANGED <<idp, work, pending, exchangeVars, delivered>>
       PROVE  OnePlaceFor(k)'
  BY <1>12, SamePlace, SameRoles
<1>13. QED
  BY <1>1, <1>2, <1>3, <1>4, <1>5, <1>7, <1>8, <1>9, <1>10, <1>11, <1>12
     DEF Next, ProviderStep, RequestStep, AnswerStep, ExchangeStep, ProvisionerStep,
         loginVars, UserGivesUp, RememberGaveUp, Tick, vars

-----------------------------------------------------------------------------
(* What the provisioner's own actions do to who is provisioned.            *)
ProvisionedFor(r) ==
  /\ excused[r] => caller[r] \in gaveUp
  /\ status[r] = "ok" => caller[r] \in access \cup gaveUp

LEMMA ProvisionedStep ==
  ASSUME TypeOK, NEW r \in Requests, ProvisionedFor(r),
         \/ UNCHANGED gaveUp /\ \E q \in Requests : \/ Tenant!Complete(q) \/ Tenant!Succeed(q)
                                                    \/ Tenant!Fail(q)
         \/ UNCHANGED gaveUp /\ Tenant!Stop
         \/ \E u \in Users : UserGivesUp(u)
  PROVE  ProvisionedFor(r)'
<1> USE DEF TypeOK, ProvisionedFor
<1>1. CASE UNCHANGED gaveUp /\ \E q \in Requests : Tenant!Complete(q)
  BY <1>1 DEF Tenant!Complete
<1>2. CASE UNCHANGED gaveUp /\ \E q \in Requests : Tenant!Succeed(q) \/ Tenant!Fail(q)
  BY <1>2 DEF Tenant!Succeed, Tenant!Fail
<1>3. CASE UNCHANGED gaveUp /\ Tenant!Stop
  BY <1>3 DEF Tenant!Stop
<1>4. ASSUME NEW u \in Users, UserGivesUp(u)
      PROVE  ProvisionedFor(r)'
  BY <1>4 DEF UserGivesUp, RememberGaveUp, Tenant!GiveUp
<1>5. QED
  BY <1>1, <1>2, <1>3, <1>4

(* Callbacks are answered only for provisioned users.                      *)
LEMMA ServedStep ==
  ASSUME TypeOK, TypeOK', ServedIsProvisioned, [Next]_vars
  PROVE  ServedIsProvisioned'
<1> SUFFICES ASSUME NEW r \in Requests
             PROVE  /\ \A l \in Logins : Serving(r, l)' => caller'[r] = UserOf[l]
                    /\ ProvisionedFor(r)'
  BY DEF ServedIsProvisioned, ProvisionedFor
<1> /\ \A l \in Logins : Serving(r, l) => caller[r] = UserOf[l]
    /\ ProvisionedFor(r)
  BY DEF ServedIsProvisioned, ProvisionedFor
<1> DEFINE Goal == /\ \A l \in Logins : Serving(r, l)' => caller'[r] = UserOf[l]
                   /\ ProvisionedFor(r)'
<1>1. ASSUME UNCHANGED <<tenantVars, gaveUp>>, work'[r] = work[r] \/ work'[r] = Free
      PROVE  Goal
  BY <1>1 DEF Serving, Callback, Free, ProvisionedFor
<1>2. ASSUME NEW q \in Requests, NEW l \in Logins, BeginCallback(q, l) \/ BeginMe(q, l)
      PROVE  Goal
  <2>1. /\ Tenant!Call(q, UserOf[l])
        /\ work' = [work EXCEPT ![q] = Callback(l)] \/ work' = [work EXCEPT ![q] = Me(l)]
        /\ UNCHANGED gaveUp
    BY <1>2 DEF BeginCallback, AcceptCallback, BeginMe, AcceptMe
  <2>2. \A m \in Logins : Serving(r, m)' => caller'[r] = UserOf[m]
    BY <2>1 DEF Tenant!Call, Serving, Callback, Me, TypeOK
  <2>3. ProvisionedFor(r)'
    BY <2>1 DEF Tenant!Call, ProvisionedFor, TypeOK
  <2>4. QED
    BY <2>2, <2>3
<1>3. ASSUME NEW q \in Requests, ProvisionerStep(q)
      PROVE  Goal
  <2>1. UNCHANGED <<caller, work, gaveUp>>
    BY <1>3 DEF ProvisionerStep, loginVars, Tenant!Complete, Tenant!Succeed, Tenant!Fail
  <2>2. ProvisionedFor(r)'
    BY <1>3, <2>1, ProvisionedStep DEF ProvisionerStep, loginVars
  <2>3. QED
    BY <2>1, <2>2 DEF Serving
<1>4. ASSUME NEW u \in Users, UserGivesUp(u)
      PROVE  Goal
  <2>1. UNCHANGED <<caller, work>>
    BY <1>4 DEF UserGivesUp, RememberGaveUp, Tenant!GiveUp
  <2>2. ProvisionedFor(r)'
    BY <1>4, ProvisionedStep
  <2>3. QED
    BY <2>1, <2>2 DEF Serving
<1>5. CASE ServerStops
  <2>1. ProvisionedFor(r)'
    BY <1>5, ProvisionedStep DEF ServerStops, Forget
  <2>2. QED
    BY <1>5, <2>1 DEF ServerStops, Forget, Serving, Callback, Free
<1>6. ASSUME NEW q \in Requests, NEW l \in Logins,
             IssueCode(q, l) \/ RedirectWithTokens(q, l) \/ AnswerMe(q, l)
      PROVE  Goal
  BY <1>6, <1>1 DEF IssueCode, RedirectWithTokens, AnswerMe, TypeOK
<1>7. ASSUME NEW q \in Requests, AnswerError(q)
      PROVE  Goal
  BY <1>7, <1>1 DEF AnswerError, TypeOK
<1>8. ASSUME UNCHANGED <<tenantVars, gaveUp, work>>
      PROVE  Goal
  BY <1>8, <1>1
<1>9. ASSUME NEW x \in Exchanges, ExchangeStep(x)
      PROVE  Goal
  BY <1>9, <1>8 DEF ExchangeStep, BeginExchange, LookupAndSweep, AnswerExchange
<1>10. ASSUME NEW l \in Logins, HandleAuthorize(l) \/ ProviderIssues(l) \/ CallbackFailsEarly(l)
       PROVE  Goal
  BY <1>10, <1>8 DEF HandleAuthorize, ProviderIssues, CallbackFailsEarly
<1>11. QED
  BY <1>2, <1>3, <1>4, <1>5, <1>6, <1>7, <1>8, <1>9, <1>10
     DEF Next, ProviderStep, RequestStep, AnswerStep, Tick, vars

(* Tokens and codes are only for users with a workspace.                   *)
LEMMA TokensStep ==
  ASSUME TypeOK, TypeOK', ServedIsProvisioned, TokensMeanAccess, [Next]_vars
  PROVE  TokensMeanAccess'
<1> DEFINE Has(l) == delivered[l] > 0 \/ l \in pending \/ Held(l)
<1> SUFFICES ASSUME NEW l \in Logins
             PROVE  Has(l)' => UserOf[l] \in access' \cup gaveUp'
  BY DEF TokensMeanAccess, Held, Holds
<1> Has(l) => UserOf[l] \in access \cup gaveUp
  BY DEF TokensMeanAccess
<1>1. access \cup gaveUp \subseteq access' \cup gaveUp'
  <2>1. ASSUME NEW r \in Requests, RequestStep(r)
        PROVE  access \subseteq access' /\ gaveUp' = gaveUp
    BY <2>1 DEF RequestStep, AnswerStep, BeginCallback, AcceptCallback, BeginMe, AcceptMe,
                IssueCode, RedirectWithTokens, AnswerMe, AnswerError, ProvisionerStep,
                loginVars, Tenant!Call, Tenant!Complete, Tenant!Succeed, Tenant!Fail
  <2>2. ASSUME NEW u \in Users, UserGivesUp(u)
        PROVE  access' = access \ {u} /\ gaveUp' = gaveUp \cup {u}
    BY <2>2 DEF UserGivesUp, RememberGaveUp, Tenant!GiveUp
  <2>3. ASSUME NEW x \in Exchanges, ExchangeStep(x)
        PROVE  UNCHANGED <<access, gaveUp>>
    BY <2>3 DEF ExchangeStep, BeginExchange, LookupAndSweep, AnswerExchange
  <2>4. QED
    BY <2>1, <2>2, <2>3
       DEF Next, ProviderStep, HandleAuthorize, ProviderIssues, CallbackFailsEarly, Tick,
           ServerStops, Forget, Tenant!Stop, vars
<1>2. ASSUME NEW r \in Requests, IssueCode(r, l) \/ RedirectWithTokens(r, l)
      PROVE  UserOf[l] \in access \cup gaveUp
  BY <1>2 DEF IssueCode, RedirectWithTokens, ProvisionerDone, ServedIsProvisioned, Serving
<1>3. ASSUME Has(l)', ~Has(l)
      PROVE  \E r \in Requests : IssueCode(r, l) \/ RedirectWithTokens(r, l)
  <2>1. ASSUME UNCHANGED <<pending, delivered, exchangeVars>>
        PROVE  FALSE
    BY <1>3, <2>1 DEF Held, Holds
  <2>2. ASSUME NEW x \in Exchanges, NEW m \in Logins, BeginExchange(x, m)
        PROVE  FALSE
    BY <1>3, <2>2 DEF BeginExchange, Held, Holds, TypeOK
  <2>3. ASSUME NEW x \in Exchanges, LookupAndSweep(x)
        PROVE  FALSE
    <3>1. Holds(x, l)' => l \in pending
      BY <2>3, LookupFinds
    <3>2. \A y \in Exchanges : y # x => (Holds(y, l)' <=> Holds(y, l))
      BY <2>3 DEF LookupAndSweep, Holds, TypeOK
    <3>3. pending' \subseteq pending /\ delivered' = delivered
      BY <2>3 DEF LookupAndSweep, Remaining
    <3>4. QED
      BY <1>3, <3>1, <3>2, <3>3 DEF Held
  <2>4. ASSUME NEW x \in Exchanges, AnswerExchange(x)
        PROVE  FALSE
    <3>1. ~Held(l)' /\ l \notin pending'
      BY <1>3, <2>4 DEF AnswerExchange, Held, Holds, TypeOK
    <3>2. delivered'[l] = delivered[l]
      BY <1>3, <2>4 DEF AnswerExchange, StillGood, Held, Holds, TypeOK
    <3>3. QED
      BY <1>3, <3>1, <3>2
  <2>5. ASSUME ServerStops
        PROVE  FALSE
    BY <1>3, <2>5 DEF ServerStops, Forget, Held, Holds
  <2>6. ASSUME NEW r \in Requests, NEW m \in Logins, m # l,
               IssueCode(r, m) \/ RedirectWithTokens(r, m)
        PROVE  FALSE
    BY <1>3, <2>6 DEF IssueCode, RedirectWithTokens, Held, Holds, TypeOK
  <2>7. ASSUME NEW r \in Requests, NEW m \in Logins,
               BeginCallback(r, m) \/ BeginMe(r, m) \/ AnswerMe(r, m) \/ AnswerError(r)
        PROVE  FALSE
    BY <2>1, <2>7 DEF BeginCallback, AcceptCallback, BeginMe, AcceptMe, AnswerMe, AnswerError
  <2>8. ASSUME NEW r \in Requests, ProvisionerStep(r)
        PROVE  FALSE
    BY <2>1, <2>8 DEF ProvisionerStep, loginVars
  <2>9. QED
    BY <2>1, <2>2, <2>3, <2>4, <2>5, <2>6, <2>7, <2>8
       DEF Next, ProviderStep, RequestStep, AnswerStep, ExchangeStep, HandleAuthorize,
           ProviderIssues, CallbackFailsEarly, UserGivesUp, RememberGaveUp, Tick, vars
<1>4. QED
  BY <1>1, <1>2, <1>3

(* The inductive invariant.                                                *)
THEOREM LoginInvariant == Spec => []LoginInv
<1>1. Init => LoginInv
  <2> SUFFICES ASSUME Init PROVE LoginInv
    OBVIOUS
  <2>1. \A l \in Logins : ~Held(l) /\ l \notin pending /\ delivered[l] = 0
    BY DEF Init, LoginInit, Held, Holds
  <2>2. OnePlace
    BY <2>1 DEF Init, LoginInit, OnePlace, OnePlaceFor, Untouched, Held, Serving, Callback,
                Free
  <2>3. ServedIsProvisioned
    BY DEF Init, LoginInit, Tenant!Init, ServedIsProvisioned, Serving, Callback, Free
  <2>4. QED
    BY <2>1, <2>2, <2>3 DEF LoginInv, TokensMeanAccess
<1>2. TypeOK /\ TypeOK' /\ LoginInv /\ [Next]_vars => LoginInv'
  BY OnePlaceStep, ServedStep, TokensStep DEF LoginInv
<1>3. QED
  BY <1>1, <1>2, TypeCorrect, PTL DEF Spec

(* The tokens of a login are handed over at most once.                     *)
THEOREM DeliveredOnceHolds == Spec => []DeliveredOnce
<1>1. LoginInv => DeliveredOnce
  BY DEF LoginInv, OnePlace, OnePlaceFor, DeliveredOnce
<1>2. QED
  BY <1>1, LoginInvariant, PTL

(* Whoever holds tokens, or a code for them, has a workspace or gave it up. *)
THEOREM TokensMeanAccessHolds == Spec => []TokensMeanAccess
<1>1. LoginInv => TokensMeanAccess
  BY DEF LoginInv
<1>2. QED
  BY <1>1, LoginInvariant, PTL

-----------------------------------------------------------------------------
(* Who may be holding a code after a step.                                 *)
LEMMA StillHeld ==
  ASSUME TypeOK, NEW l \in Logins, Held(l),
         UNCHANGED exchangeVars \/ \E x \in Exchanges, m \in Logins : BeginExchange(x, m)
  PROVE  Held(l)'
<1>1. PICK x \in Exchanges : Holds(x, l)
  BY DEF Held
<1>2. Holds(x, l)'
  BY <1>1 DEF Holds, BeginExchange, TypeOK
<1>3. QED
  BY <1>2 DEF Held

(* A code that is too old stays so, whatever the clock does.               *)
LEMMA StaysExpired ==
  ASSUME TypeOK, TypeOK', NEW l \in Logins, Expired(l), createdAt'[l] = createdAt[l],
         now' = now \/ now' = now + 1
  PROVE  Expired(l)'
BY DEF Expired, TypeOK

(* No step loses track of a code that was issued.                          *)
LEMMA CodesStep ==
  ASSUME TypeOK, TypeOK', CodesAccountedFor, [Next]_vars
  PROVE  CodesAccountedFor'
<1> DEFINE Known(l) == l \in pending \/ Held(l) \/ delivered[l] > 0 \/ Expired(l) \/ l \in lost
<1> SUFFICES ASSUME NEW l \in Logins, createdAt'[l] > 0
             PROVE  Known(l)'
  BY DEF CodesAccountedFor
<1> createdAt[l] > 0 => Known(l)
  BY DEF CodesAccountedFor
<1>1. ASSUME UNCHANGED <<pending, createdAt, delivered, lost>>, now' = now \/ now' = now + 1,
             UNCHANGED exchangeVars \/ \E x \in Exchanges, m \in Logins : BeginExchange(x, m)
      PROVE  Known(l)'
  BY <1>1, StillHeld, StaysExpired
<1>2. ASSUME NEW r \in Requests, NEW m \in Logins, IssueCode(r, m)
      PROVE  Known(l)'
  <2>1. CASE m = l
    BY <1>2, <2>1 DEF IssueCode
  <2>2. CASE m # l
    <3>1. createdAt'[l] = createdAt[l]
      BY <1>2, <2>2 DEF IssueCode, TypeOK
    <3>2. /\ UNCHANGED <<now, exchangeVars, delivered, lost>>
          /\ pending \subseteq pending'
      BY <1>2 DEF IssueCode
    <3>3. QED
      BY <3>1, <3>2, StillHeld, StaysExpired
  <2>3. QED
    BY <2>1, <2>2
<1>3. ASSUME NEW r \in Requests, NEW m \in Logins, RedirectWithTokens(r, m)
      PROVE  Known(l)'
  <2>1. UNCHANGED <<pending, createdAt, now, exchangeVars, lost>>
    BY <1>3 DEF RedirectWithTokens
  <2>2. delivered'[l] \in {delivered[l], delivered[l] + 1}
    BY <1>3 DEF RedirectWithTokens, TypeOK
  <2>3. delivered[l] > 0 => delivered'[l] > 0
    BY <2>2 DEF TypeOK
  <2>4. QED
    BY <2>1, <2>3, StillHeld, StaysExpired
<1>4. ASSUME NEW x \in Exchanges, LookupAndSweep(x)
      PROVE  Known(l)'
  <2>1. UNCHANGED <<createdAt, now, delivered, lost>>
    BY <1>4 DEF LookupAndSweep
  <2>2. CASE Held(l)
    <3>1. PICK y \in Exchanges : Holds(y, l)
      BY <2>2 DEF Held
    <3>2. y # x
      BY <1>4, <3>1 DEF LookupAndSweep, Holds
    <3>3. Holds(y, l)'
      BY <1>4, <3>1, <3>2 DEF LookupAndSweep, Holds, TypeOK
    <3>4. QED
      BY <3>3 DEF Held
  <2>3. CASE l \in pending
    <3>1. CASE l = xcode[x]
      <4>1. Holds(x, l)'
        BY <1>4, <2>3, <3>1, LookupFinds
      <4>2. QED
        BY <4>1 DEF Held
    <3>2. CASE l # xcode[x]
      BY <1>4, <2>1, <2>3, <3>2 DEF LookupAndSweep, Remaining, Expired
    <3>3. QED
      BY <3>1, <3>2
  <2>4. QED
    BY <2>1, <2>2, <2>3, StaysExpired
<1>5. ASSUME NEW x \in Exchanges, AnswerExchange(x)
      PROVE  Known(l)'
  <2>1. UNCHANGED <<pending, createdAt, now, xcode, xfound, lost>>
    BY <1>5 DEF AnswerExchange
  <2>2. CASE Holds(x, l)
    <3>1. CASE Expired(l)
      BY <2>1, <3>1, StaysExpired
    <3>2. CASE ~Expired(l)
      <4>1. delivered' = [delivered EXCEPT ![l] = @ + 1]
        BY <1>5, <2>2, <3>2 DEF AnswerExchange, StillGood, Holds
      <4>2. delivered'[l] > 0
        BY <4>1 DEF TypeOK
      <4>3. QED
        BY <4>2
    <3>3. QED
      BY <3>1, <3>2
  <2>3. ASSUME NEW y \in Exchanges, y # x, Holds(y, l)
        PROVE  Known(l)'
    <3>1. Holds(y, l)'
      BY <1>5, <2>3 DEF AnswerExchange, Holds, TypeOK
    <3>2. QED
      BY <3>1 DEF Held
  <2>4. delivered[l] > 0 => delivered'[l] > 0
    <3>1. delivered'[l] \in {delivered[l], delivered[l] + 1}
      BY <1>5 DEF AnswerExchange, TypeOK
    <3>2. QED
      BY <3>1 DEF TypeOK
  <2>5. QED
    BY <2>1, <2>2, <2>3, <2>4, StaysExpired DEF Held
<1>6. CASE ServerStops
  BY <1>6, StaysExpired DEF ServerStops, Forget
<1>7. ASSUME NEW r \in Requests, NEW m \in Logins,
             BeginCallback(r, m) \/ BeginMe(r, m) \/ AnswerMe(r, m) \/ AnswerError(r)
      PROVE  Known(l)'
  BY <1>1, <1>7 DEF BeginCallback, AcceptCallback, BeginMe, AcceptMe, AnswerMe, AnswerError
<1>8. ASSUME NEW m \in Logins, HandleAuthorize(m) \/ ProviderIssues(m) \/ CallbackFailsEarly(m)
      PROVE  Known(l)'
  BY <1>1, <1>8 DEF HandleAuthorize, ProviderIssues, CallbackFailsEarly
<1>9. ASSUME NEW x \in Exchanges, NEW m \in Logins, BeginExchange(x, m)
      PROVE  Known(l)'
  BY <1>1, <1>9 DEF BeginExchange
<1>10. ASSUME \/ \E r \in Requests : ProvisionerStep(r) \/ AnswerError(r)
              \/ \E u \in Users : UserGivesUp(u)
              \/ Tick \/ UNCHANGED vars
       PROVE  Known(l)'
  BY <1>1, <1>10 DEF ProvisionerStep, loginVars, AnswerError, UserGivesUp, RememberGaveUp,
                     Tick, vars
<1>11. QED
  BY <1>2, <1>3, <1>4, <1>5, <1>6, <1>7, <1>8, <1>9, <1>10
     DEF Next, ProviderStep, RequestStep, AnswerStep, ExchangeStep

(* Every code that was issued can be accounted for: the sweep takes none   *)
(* that is still good, and no interleaving of exchanges drops one.         *)
THEOREM CodesAccountedForHolds == Spec => []CodesAccountedFor
<1>1. Init => CodesAccountedFor
  BY DEF Init, LoginInit, CodesAccountedFor
<1>2. TypeOK /\ TypeOK' /\ CodesAccountedFor /\ [Next]_vars => CodesAccountedFor'
  BY CodesStep
<1>3. QED
  BY <1>1, <1>2, TypeCorrect, PTL DEF Spec
=============================================================================
