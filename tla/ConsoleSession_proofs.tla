------------------------ MODULE ConsoleSession_proofs -------------------------
(***************************************************************************)
(* Proofs about ConsoleSession, for any number of tabs and logins and any  *)
(* lifetimes of tokens.                                                    *)
(***************************************************************************)
EXTENDS ConsoleSession, TLAPS

(* Only the response is ever without its token; a token is not left behind *)
(* on its own, where nothing would check its expiry.                       *)
NoOrphanToken == storage.auth = None => storage.token = None

(* Whatever has been stored or signed out of was issued.                   *)
Issued == {storage.auth, storage.token} \cup signedOut \subseteq 0..logins

(* Whatever response there is while a request is put together, the request *)
(* knows the login: by its cluster, or because it was stored since.        *)
Known == \A t \in Tabs :
  ~Free(t) /\ storage.auth # None => storage.auth \in {asking[t].cluster} \cup asking[t].since

(* A callback that has not been mounted brings a login nobody has seen, or *)
(* one that is loaded again.                                               *)
Pending(t) == view[t] = "checking" /\ url[t] \in Logins
Fresh ==
  \A t \in Tabs : Pending(t) =>
    /\ url[t] \in 1..logins
    /\ \/ url[t] \in replayed
       \/ /\ url[t] \notin {storage.auth, storage.token} \cup signedOut
          /\ \A u \in Tabs \ {t} : Pending(u) => url[u] # url[t]

(* What auth.ts makes of the keys is of their type.                        *)
Keys == [auth : Maybe, token : Maybe]

LEMMA KeysFacts == ASSUME NEW s \in Keys, NEW at
  PROVE /\ s.auth \in Maybe /\ s.token \in Maybe
        /\ Response(s, at) \in Maybe /\ After(s, at) \in Keys /\ GetToken(s, at) \in Maybe
        /\ PageToken(s, at) \in Maybe /\ PageCluster(s) \in Maybe
        /\ After(s, at) \in {s, Cleared}
  BY DEF Keys, Maybe, Response, After, GetToken, PageToken, PageCluster, Cleared

(* Keys of which the token is never alone give a live token or none, and   *)
(* it is the one of the response.                                          *)
LEMMA TokenIsLive ==
  ASSUME NEW s \in Keys, s.auth = None => s.token = None, NEW at
  PROVE /\ GetToken(s, at) # None => GetToken(s, at) = s.auth /\ ~Expired(s.auth, at)
        /\ PageToken(s, at) # None => PageToken(s, at) = s.auth /\ ~Expired(s.auth, at)
        /\ After(s, at).auth = None => After(s, at).token = None
  BY DEF Keys, Response, After, GetToken, PageToken, Cleared

(* What a tab knows of its request keeps its type when a login is stored.  *)
Requests == [Tabs -> [by : {"nobody", "shell", "page"}, cluster : Maybe, since : SUBSET Logins]]

LEMMA StoredType ==
  ASSUME asking \in Requests, NEW n \in Logins, Stored(n)
  PROVE  /\ asking' \in Requests
         /\ \A t \in Tabs : asking'[t] # Idle => n \in asking'[t].since
<1>1. ASSUME NEW t \in Tabs, asking[t] # Idle
      PROVE  /\ asking'[t] \in [by : {"nobody", "shell", "page"}, cluster : Maybe, since : SUBSET Logins]
             /\ n \in asking'[t].since
  BY <1>1 DEF Stored, Requests, Idle
<1>2. ASSUME NEW t \in Tabs, asking[t] = Idle PROVE asking'[t] = Idle
  BY <1>2 DEF Stored
<1>3. Idle \in [by : {"nobody", "shell", "page"}, cluster : Maybe, since : SUBSET Logins]
  BY DEF Idle, Maybe
<1> QED BY <1>1, <1>2, <1>3 DEF Requests, Stored

(* The keys, the tabs and the requests keep their types.                   *)
THEOREM TypeCorrect == Spec => []TypeOK
<1>1. Init => TypeOK
  BY SessionBounds DEF Init, TypeOK, Cleared, Maybe, Logins, None, Views, Urls, Plain, Idle, ZeroTime
<1>2. TypeOK /\ [Next]_vars => TypeOK'
  <2> SUFFICES ASSUME TypeOK, [Next]_vars PROVE TypeOK'
    OBVIOUS
  <2> USE DEF TypeOK
  <2>a. storage \in Keys
    BY DEF Keys
  <2>b. Cleared \in Keys
    BY DEF Cleared, Keys, Maybe
  <2>c. \A t \in Tabs, v \in Views, u \in Urls, b \in BOOLEAN :
          Show(t, v, u, b) => view' \in [Tabs -> Views] /\ url' \in [Tabs -> Urls] /\ leaving' \in [Tabs -> BOOLEAN]
    BY DEF Show
  <2>d. Plain \in Urls /\ Broken \in Urls /\ \A n \in Logins : n \in Urls
    BY DEF Urls
  <2>e. {"checking", "provider", "authenticated", "welcome", "unauthenticated"} \subseteq Views
    BY DEF Views
  <2>1. CASE Tick
    BY <2>1, SessionBounds DEF Tick, providerVars, tabVars, history
  <2>2. ASSUME NEW t \in Tabs, Load(t) PROVE TypeOK'
    <3>1. PICK u \in {Plain, Broken} \cup 1..logins :
             Show(t, "checking", u, FALSE) /\ replayed' = replayed \cup ({u} \cap Logins)
      BY <2>2 DEF Load
    <3>2. u \in Urls
      BY <3>1, <2>d, SessionBounds DEF Logins
    <3> QED BY <2>2, <3>1, <3>2, <2>c, <2>e DEF Load, providerVars
  <2>3. ASSUME NEW t \in Tabs, StartLogin(t) PROVE TypeOK'
    BY <2>3, <2>c, <2>d, <2>e DEF StartLogin, providerVars, history
  <2>4. ASSUME NEW t \in Tabs, LoginAnswered(t) PROVE TypeOK'
    <3>1. logins' \in Logins /\ logins' \in 0..MaxLogins
      BY <2>4, SessionBounds DEF LoginAnswered, Logins
    <3>2. PICK e \in {now + life : life \in Lifetimes} \cup {ZeroTime} :
             expiry' = [expiry EXCEPT ![logins'] = e]
      BY <2>4 DEF LoginAnswered
    <3>3. e \in Int
      BY <3>2, LifetimesType, SessionBounds DEF ZeroTime
    <3>4. expiry' \in [Logins -> Int]
      BY <3>2, <3>3
    <3> QED BY <2>4, <3>1, <3>4, <2>c, <2>d, <2>e DEF LoginAnswered, history
  <2>5. ASSUME NEW t \in Tabs, LoginGarbled(t) PROVE TypeOK'
    BY <2>5, <2>c, <2>d, <2>e DEF LoginGarbled, providerVars, history
  <2>6. ASSUME NEW t \in Tabs, MountCallback(t) PROVE TypeOK'
    <3>1. url[t] \in Urls /\ url[t] \in Maybe
      BY <2>6 DEF MountCallback, Maybe
    <3>2. storage' \in {storage, [storage EXCEPT !.auth = url[t]], [auth |-> url[t], token |-> url[t]]}
      BY <2>6 DEF MountCallback
    <3>3. storage' \in [auth : Maybe, token : Maybe]
      BY <3>1, <3>2
    <3>4. url[t] \in Logins /\ (asking' = asking \/ Stored(url[t]))
      BY <2>6 DEF MountCallback
    <3>5. asking' \in Requests
      BY <3>4, StoredType DEF Requests
    <3> QED BY <2>6, <3>1, <3>3, <3>5, <2>c, <2>e DEF MountCallback, providerVars, history, Requests
  <2>7. ASSUME NEW t \in Tabs, MountBroken(t) PROVE TypeOK'
    BY <2>7, <2>c, <2>d, <2>e DEF MountBroken, providerVars, history
  <2>8. ASSUME NEW t \in Tabs, MountPlain(t) PROVE TypeOK'
    BY <2>8, <2>a, <2>c, <2>d, <2>e, KeysFacts DEF MountPlain, providerVars, history, Keys
  <2>9. ASSUME NEW t \in Tabs, Render(t) PROVE TypeOK'
    <3>1. view' \in [Tabs -> Views]
      BY <2>9, <2>e DEF Render, Inside
    <3> QED BY <2>9, <3>1, <2>a, KeysFacts DEF Render, providerVars, history, Keys
  <2>10. ASSUME NEW t \in Tabs, Arrive(t) PROVE TypeOK'
    BY <2>10, <2>c, <2>d, <2>e DEF Arrive, providerVars, history
  <2>11. ASSUME NEW t \in Tabs, SignOut(t) PROVE TypeOK'
    <3>1. signedOut' \subseteq Logins
      BY <2>11 DEF SignOut, Maybe
    <3> QED BY <2>11, <3>1, <2>b DEF SignOut, providerVars, Keys
  <2>12. ASSUME NEW t \in Tabs, NEW by \in {"shell", "page"}, NEW c \in Maybe, Ask(t, by, c),
                storage' \in Keys
         PROVE TypeOK'
    BY <2>12 DEF Ask, providerVars, tabVars, history, Keys
  <2>13. ASSUME NEW t \in Tabs, Sends(t) PROVE TypeOK'
    <3>1. storage' \in Keys
      BY <2>13, <2>a, KeysFacts DEF Sends, ShellSends, PageSends
    <3>2. Idle \in [by : {"nobody", "shell", "page"}, cluster : Maybe, since : SUBSET Logins]
      BY DEF Idle, Maybe
    <3> QED BY <2>13, <3>1, <3>2
          DEF Sends, ShellSends, PageSends, providerVars, tabVars, history, Keys
  <2>15. ASSUME NEW t \in Tabs, ShellAsks(t) \/ PageAsks(t) PROVE TypeOK'
    BY <2>12, <2>15, <2>a, KeysFacts DEF ShellAsks, PageAsks
  <2>14. CASE UNCHANGED vars
    BY <2>14 DEF vars, providerVars, tabVars, history
  <2> QED BY <2>1, <2>2, <2>3, <2>4, <2>5, <2>6, <2>7, <2>8, <2>9, <2>10, <2>11, <2>13, <2>14, <2>15
        DEF Next, Mount
<1> QED BY <1>1, <1>2, PTL DEF Spec

(* A token is never alone in localStorage, whichever tab wrote or removed  *)
(* the keys, so every token goes through the expiry; and whatever is       *)
(* stored while a request is put together is known to it.                  *)
RequestsOK == NoOrphanToken /\ Issued /\ Known

LEMMA RequestsStep == ASSUME TypeOK, RequestsOK, Fresh, [Next]_vars PROVE RequestsOK'
<1> USE DEF TypeOK, RequestsOK, NoOrphanToken, Issued
<1>a. storage \in Keys
  BY DEF Keys
<1>b. Cleared.auth = None /\ Cleared.token = None
  BY DEF Cleared
<1>c. storage' \in {storage, Cleared} /\ UNCHANGED <<logins, asking, signedOut>> => RequestsOK'
  BY <1>b DEF Known, Free, None
<1>1. CASE Tick
  BY <1>1, <1>c DEF Tick, providerVars, history
<1>2. ASSUME NEW t \in Tabs, Load(t) \/ StartLogin(t) \/ LoginGarbled(t) \/ Arrive(t) \/ MountBroken(t)
      PROVE RequestsOK'
  BY <1>2, <1>c DEF Load, StartLogin, LoginGarbled, Arrive, MountBroken, providerVars, history
<1>3. ASSUME NEW t \in Tabs, MountPlain(t) \/ Render(t) PROVE RequestsOK'
  BY <1>3, <1>a, <1>c, KeysFacts DEF MountPlain, Render, providerVars, history
<1>4. ASSUME NEW t \in Tabs, LoginAnswered(t) PROVE RequestsOK'
  <2>1. logins' = logins + 1 /\ storage' = storage /\ signedOut' = signedOut /\ asking' = asking
    BY <1>4 DEF LoginAnswered, history
  <2>2. 0..logins \subseteq 0..(logins + 1)
    BY SessionBounds
  <2>3. Known'
    BY <2>1 DEF Known, Free
  <2> QED BY <2>1, <2>2, <2>3
<1>5. ASSUME NEW t \in Tabs, MountCallback(t) PROVE RequestsOK'
  <2>1. url[t] \in 1..logins /\ url[t] \in Logins
    BY <1>5 DEF MountCallback, Fresh, Pending
  <2>2. \/ storage' = storage /\ asking' = asking
        \/ storage' \in {[storage EXCEPT !.auth = url[t]], [auth |-> url[t], token |-> url[t]]} /\ Stored(url[t])
    BY <1>5 DEF MountCallback
  <2>3. CASE storage' = storage /\ asking' = asking
    BY <1>5, <2>3, <1>c DEF MountCallback, providerVars, history
  <2>4. ASSUME storage' \in {[storage EXCEPT !.auth = url[t]], [auth |-> url[t], token |-> url[t]]},
               Stored(url[t])
        PROVE RequestsOK'
    <3>1. storage'.auth = url[t] /\ storage'.token \in {storage.token, url[t]} /\ url[t] # None
      BY <2>1, <2>4 DEF None
    <3>2. asking \in Requests
      BY DEF Requests
    <3>3. \A u \in Tabs : asking'[u] # Idle => url[t] \in asking'[u].since
      BY <2>1, <2>4, <3>2, StoredType
    <3>4. Known'
      BY <3>1, <3>3 DEF Known, Free
    <3> QED BY <1>5, <2>1, <3>1, <3>4 DEF MountCallback, providerVars, history
  <2> QED BY <2>2, <2>3, <2>4
<1>6. ASSUME NEW t \in Tabs, SignOut(t) PROVE RequestsOK'
  BY <1>6, <1>b DEF SignOut, providerVars, Known, Free, None
<1>7. ASSUME NEW t \in Tabs, ShellAsks(t) PROVE RequestsOK'
  <2>1. /\ storage' = After(storage, now) /\ UNCHANGED <<logins, signedOut>>
        /\ asking' = [asking EXCEPT ![t] = [by |-> "shell", cluster |-> Response(storage, now), since |-> {}]]
    BY <1>7 DEF ShellAsks, Ask, providerVars, history
  <2>2. storage' \in {storage, Cleared} /\ (storage'.auth # None => storage'.auth = Response(storage, now))
    BY <2>1, <1>a, <1>b, KeysFacts DEF After, Response
  <2> QED BY <2>1, <2>2, <1>b DEF Known, Free, None
<1>8. ASSUME NEW t \in Tabs, PageAsks(t) PROVE RequestsOK'
  <2>1. /\ UNCHANGED <<logins, storage, signedOut>>
        /\ asking' = [asking EXCEPT ![t] = [by |-> "page", cluster |-> storage.auth, since |-> {}]]
    BY <1>8 DEF PageAsks, Ask, PageCluster, providerVars, history
  <2> QED BY <2>1 DEF Known, Free
<1>9. ASSUME NEW t \in Tabs, Sends(t) PROVE RequestsOK'
  <2>1. /\ storage' \in {storage, Cleared} /\ UNCHANGED <<logins, signedOut>>
        /\ asking' = [asking EXCEPT ![t] = Idle]
    BY <1>9, <1>a, KeysFacts DEF Sends, ShellSends, PageSends, providerVars, history
  <2> QED BY <2>1, <1>b DEF Known, Free, None
<1>10. CASE UNCHANGED vars
  BY <1>10, <1>c DEF vars, providerVars, history
<1> QED BY <1>1, <1>2, <1>3, <1>4, <1>5, <1>6, <1>7, <1>8, <1>9, <1>10 DEF Next, Mount

(* A login whose callback is loaded once is stored once, when it is        *)
(* mounted, so that nothing brings it back after it was signed out of.     *)
StaysOut == Fresh /\ SignedOutStaysOut

LEMMA StaysOutStep == ASSUME TypeOK, RequestsOK, StaysOut, [Next]_vars PROVE StaysOut'
<1> USE DEF TypeOK, StaysOut, SignedOutStaysOut
<1>a. storage \in Keys
  BY DEF Keys
<1>b. Cleared.auth = None /\ Cleared.token = None
  BY DEF Cleared
<1>c. None \notin signedOut /\ \A t \in Tabs : Pending(t) => url[t] # None
  BY DEF Logins, None, Pending
<1>d. ASSUME storage' \in {storage, Cleared}, UNCHANGED <<logins, history>>,
             \A u \in Tabs : Pending(u)' => Pending(u) /\ url'[u] = url[u]
      PROVE StaysOut'
  BY <1>b, <1>c, <1>d DEF Fresh, history
<1>e. ASSUME NEW t \in Tabs, NEW v, NEW u \in Urls, NEW b, Show(t, v, u, b), v # "checking" \/ u \notin Logins
      PROVE \A w \in Tabs : Pending(w)' => Pending(w) /\ url'[w] = url[w] /\ w # t
  BY <1>e DEF Show, Pending
<1>f. Plain \in Urls \ Logins /\ Broken \in Urls \ Logins
  BY DEF Plain, Broken, Urls, Logins
<1>1. CASE Tick
  BY <1>1, <1>d DEF Tick, providerVars, tabVars, Pending
<1>2. ASSUME NEW t \in Tabs, StartLogin(t) \/ LoginGarbled(t) \/ Arrive(t) \/ MountBroken(t)
      PROVE StaysOut'
  BY <1>2, <1>d, <1>e, <1>f DEF StartLogin, LoginGarbled, Arrive, MountBroken, providerVars
<1>3. ASSUME NEW t \in Tabs, Load(t) PROVE StaysOut'
  <2>1. PICK u \in {Plain, Broken} \cup 1..logins :
          Show(t, "checking", u, FALSE) /\ replayed' = replayed \cup ({u} \cap Logins)
    BY <1>3 DEF Load
  <2>2. UNCHANGED <<logins, storage, signedOut>>
    BY <1>3 DEF Load, providerVars
  <2>3. /\ \A w \in Tabs \ {t} : (Pending(w)' <=> Pending(w)) /\ url'[w] = url[w]
        /\ Pending(t)' => url'[t] = u /\ u \in 1..logins /\ u \in replayed'
    BY <2>1, <1>f DEF Show, Pending
  <2>4. replayed \subseteq replayed'
    BY <2>1
  <2>5. Fresh'
    <3> SUFFICES ASSUME NEW w \in Tabs, Pending(w)'
                 PROVE /\ url'[w] \in 1..logins'
                       /\ \/ url'[w] \in replayed'
                          \/ /\ url'[w] \notin {storage'.auth, storage'.token} \cup signedOut'
                             /\ \A x \in Tabs \ {w} : Pending(x)' => url'[x] # url'[w]
      BY DEF Fresh
    <3>1. CASE w = t
      BY <3>1, <2>2, <2>3
    <3>2. CASE w # t /\ Pending(t)' /\ url'[w] = u
      BY <3>2, <2>2, <2>3 DEF Fresh
    <3>3. CASE w # t /\ ~(Pending(t)' /\ url'[w] = u)
      BY <3>3, <2>2, <2>3, <2>4 DEF Fresh
    <3> QED BY <3>1, <3>2, <3>3
  <2> QED BY <2>2, <2>4, <2>5
<1>4. ASSUME NEW t \in Tabs, MountPlain(t) PROVE StaysOut'
  BY <1>4, <1>a, <1>d, <1>e, <1>f, KeysFacts DEF MountPlain, providerVars
<1>5. ASSUME NEW t \in Tabs, Render(t) PROVE StaysOut'
  <2>1. \A u \in Tabs : Pending(u)' => Pending(u) /\ url'[u] = url[u]
    BY <1>5 DEF Render, Inside, Pending
  <2> QED BY <1>5, <2>1, <1>a, <1>d, KeysFacts DEF Render, providerVars
<1>6. ASSUME NEW t \in Tabs, LoginAnswered(t) PROVE StaysOut'
  <2>1. /\ logins' = logins + 1 /\ UNCHANGED <<storage, history>>
        /\ Show(t, "checking", logins + 1, FALSE)
    BY <1>6 DEF LoginAnswered
  <2>2. \A u \in Tabs \ {t} : (Pending(u)' <=> Pending(u)) /\ url'[u] = url[u]
    BY <2>1 DEF Show, Pending
  <2>3. /\ url'[t] = logins + 1 /\ logins + 1 \in 1..(logins + 1)
        /\ logins + 1 \notin {storage.auth, storage.token} \cup signedOut
    <3>1. logins + 1 \notin 0..logins /\ logins + 1 \in 1..(logins + 1)
      BY SessionBounds
    <3> QED BY <2>1, <3>1 DEF Show, RequestsOK, Issued
  <2>4. \A u \in Tabs \ {t} : Pending(u) => url[u] \in 1..logins /\ url[u] # logins + 1
    BY DEF Fresh
  <2>5. Fresh'
    BY <2>1, <2>2, <2>3, <2>4 DEF Fresh, history
  <2> QED BY <2>1, <2>5 DEF history
<1>7. ASSUME NEW t \in Tabs, MountCallback(t) PROVE StaysOut'
  <2>1. /\ url[t] \in 1..logins
        /\ \/ url[t] \in replayed
           \/ url[t] \notin signedOut /\ \A u \in Tabs \ {t} : Pending(u) => url[u] # url[t]
    BY <1>7 DEF MountCallback, Fresh, Pending
  <2>2. storage' \in {storage, [storage EXCEPT !.auth = url[t]], [auth |-> url[t], token |-> url[t]]}
    BY <1>7 DEF MountCallback
  <2>3. storage'.auth \in {storage.auth, url[t]} /\ storage'.token \in {storage.token, url[t]}
    BY <2>2
  <2>4. \A w \in Tabs : Pending(w)' => Pending(w) /\ url'[w] = url[w] /\ w # t
    BY <1>7, <1>e DEF MountCallback
  <2> QED BY <1>7, <2>1, <2>3, <2>4 DEF MountCallback, providerVars, Fresh, history
<1>8. ASSUME NEW t \in Tabs, SignOut(t) PROVE StaysOut'
  <2>1. \A u \in Tabs : (Pending(u)' <=> Pending(u)) /\ url'[u] = url[u]
    BY <1>8 DEF SignOut, Pending
  <2>2. /\ storage' = Cleared /\ UNCHANGED <<logins, replayed>>
        /\ signedOut' = signedOut \cup ({storage.auth, storage.token} \ {None})
    BY <1>8 DEF SignOut, providerVars
  <2>3. SignedOutStaysOut'
    BY <2>2, <1>b, <1>c
  <2>4. Fresh'
    BY <2>1, <2>2, <1>b, <1>c DEF Fresh
  <2> QED BY <2>3, <2>4
<1>9. ASSUME NEW t \in Tabs, ShellAsks(t) \/ PageAsks(t) \/ Sends(t) PROVE StaysOut'
  <2>1. storage' \in {storage, Cleared} /\ UNCHANGED <<logins, view, url, history>>
    BY <1>9, <1>a, KeysFacts
       DEF ShellAsks, PageAsks, Ask, Sends, ShellSends, PageSends, providerVars, tabVars
  <2> QED BY <2>1, <1>d DEF Pending
<1>10. CASE UNCHANGED vars
  BY <1>10, <1>d DEF vars, providerVars, tabVars, Pending
<1> QED BY <1>1, <1>2, <1>3, <1>4, <1>5, <1>6, <1>7, <1>8, <1>9, <1>10 DEF Next, Mount

SessionInv == RequestsOK /\ StaysOut

LEMMA SessionInvariant == Spec => []SessionInv
<1>1. Init => SessionInv
  BY SessionBounds DEF Init, SessionInv, RequestsOK, StaysOut, NoOrphanToken, Issued, Known, Free,
     SignedOutStaysOut, Fresh, Pending, Cleared, None
<1>2. TypeOK /\ SessionInv /\ [Next]_vars => SessionInv'
  BY RequestsStep, StaysOutStep DEF SessionInv, StaysOut
<1> QED BY <1>1, <1>2, TypeCorrect, PTL DEF Spec

(* The token a request would be sent with is that of the response that is  *)
(* stored, and is live.                                                    *)
LEMMA CarriesTheResponse ==
  ASSUME TypeOK, SessionInv, NEW t \in Tabs, NEW n \in Logins, Carries(t, n)
  PROVE  n = storage.auth /\ n # None /\ ~Expired(n, now)
<1>1. n # None /\ (GetToken(storage, now) = n \/ PageToken(storage, now) = n)
  BY DEF Carries, Token, Logins, None
<1>2. storage \in Keys /\ (storage.auth = None => storage.token = None)
  BY DEF TypeOK, Keys, SessionInv, RequestsOK, NoOrphanToken
<1> QED BY <1>1, <1>2, TokenIsLive

(* No request carries a token that is expired when the request is sent.    *)
THEOREM NoExpiredTokenHolds == Spec => []NoExpiredToken
<1>1. TypeOK /\ SessionInv => NoExpiredToken
  BY CarriesTheResponse DEF NoExpiredToken
<1> QED BY <1>1, SessionInvariant, TypeCorrect, PTL

(* A request goes to the cluster of the login whose token it carries, or   *)
(* that token is of a login stored between the two lookups.                *)
THEOREM OneIdentityHolds == Spec => []OneIdentity
<1>1. TypeOK /\ SessionInv => OneIdentity
  BY CarriesTheResponse DEF OneIdentity, Carries, SessionInv, RequestsOK, Known
<1> QED BY <1>1, SessionInvariant, TypeCorrect, PTL

(* What has been signed out of is not stored again, in any tab, except by  *)
(* loading its callback again.                                             *)
THEOREM SignedOutStaysOutHolds == Spec => []SignedOutStaysOut
<1>1. SessionInv => SignedOutStaysOut
  BY DEF SessionInv, StaysOut
<1> QED BY <1>1, SessionInvariant, PTL
=============================================================================
