---------------------------- MODULE ConsoleSession ----------------------------
(***************************************************************************)
(* The session of the web console (console/app-shell/src: auth.ts,         *)
(* layout.tsx and the two API clients), in the tabs of one browser.        *)
(*                                                                         *)
(* The tabs share two keys of localStorage and nothing else: the response  *)
(* of the last login, with its expiry, and that login's ID token on its    *)
(* own.  Every function of auth.ts reads the clock and the keys again, and *)
(* removes both when it finds the response expired, while the layout asks  *)
(* once, when it is mounted.                                               *)
(*                                                                         *)
(* A request of an API client calls two such functions, one for the        *)
(* cluster and one for the token, and the other tabs may act in between;   *)
(* a single function runs to its end before another tab's sees the keys.   *)
(* External: the identity provider and the platform server, which answer a *)
(* login with a response.                                                  *)
(***************************************************************************)
EXTENDS Integers, FiniteSets

CONSTANTS
  Tabs,      \* tabs of the browser
  Lifetimes, \* how long an ID token may live
  Margin,    \* the 60 seconds of getAuthResponse
  MaxLogins, \* bound on logins
  MaxReplays, \* bound on the logins whose callback is loaded again
  MaxTime    \* bound on the clock

ASSUME LifetimesType == Lifetimes \subseteq Nat
ASSUME MarginType == Margin \in Nat
ASSUME SessionBounds == MaxLogins \in Nat /\ MaxReplays \in Nat /\ MaxTime \in Nat

VARIABLES
  now,      \* the clock
  logins,   \* number of logins so far; a login is known by its number
  expiry,   \* expiresAt of each login
  storage,  \* localStorage: whose response and whose token it holds
  view,     \* what each tab shows
  url,      \* the URL it shows it under
  leaving,  \* a navigation to /console/ has begun and not ended
  asking,   \* the request each tab is putting together, its cluster looked up
  signedOut, \* history: logins that have been signed out of
  replayed  \* history: logins whose callback has been loaded again

providerVars == <<logins, expiry>>
tabVars == <<view, url, leaving>>
history == <<signedOut, replayed>>
vars == <<now, providerVars, storage, tabVars, asking, history>>

None == 0
Logins == 1..MaxLogins

(* URLs: /console/ or a page below it, a callback whose response cannot be *)
(* read, and the callback of a login.                                      *)
Plain == 0
Broken == -1
Urls == {Plain, Broken} \cup Logins

(* "welcome" is the dashboard's own offer to sign in, inside the layout of *)
(* a tab that was authenticated when it was mounted.                       *)
Views == {"closed", "provider", "checking", "authenticated", "welcome", "unauthenticated"}
Inside == {"authenticated", "welcome"}

(* A provider that gives no expiry: Go's zero time as seconds since 1970,  *)
(* earlier than any clock, and truthy.                                     *)
ZeroTime == -1

-----------------------------------------------------------------------------
(* auth.ts, as functions of the keys s and the time.                       *)

Cleared == [auth |-> None, token |-> None]

Expired(n, at) == at > expiry[n] - Margin

(* getAuthResponse: what it returns, and what it leaves behind.            *)
Response(s, at) == IF s.auth # None /\ ~Expired(s.auth, at) THEN s.auth ELSE None

(* Mutant: only the key that was read is removed.                          *)
After_KeepsToken(s, at) ==
  IF s.auth # None /\ Expired(s.auth, at) THEN [s EXCEPT !.auth = None] ELSE s
After(s, at) == IF s.auth # None /\ Expired(s.auth, at) THEN Cleared ELSE s

(* Mutant: the fallback key is preferred to the response.                  *)
GetToken_KeyFirst(s, at) ==
  IF After(s, at).token # None THEN After(s, at).token ELSE Response(s, at)

GetToken(s, at) ==
  IF Response(s, at) # None THEN Response(s, at) ELSE After(s, at).token

(* pages/api.ts, and the pilets' copies: an expired response stays, and    *)
(* still names the cluster.                                                *)
PageToken(s, at) ==
  IF s.auth = None THEN s.token ELSE IF Expired(s.auth, at) THEN None ELSE s.auth
PageCluster(s) == s.auth

-----------------------------------------------------------------------------
(* A request that is put together: by which client, for which cluster, and *)
(* (history) the logins that any tab has stored since.                     *)
Idle == [by |-> "nobody", cluster |-> None, since |-> {}]

Init ==
  /\ now = 0
  /\ logins = 0
  /\ expiry = [n \in Logins |-> ZeroTime]
  /\ storage = Cleared
  /\ view = [t \in Tabs |-> "closed"]
  /\ url = [t \in Tabs |-> Plain]
  /\ leaving = [t \in Tabs |-> FALSE]
  /\ asking = [t \in Tabs |-> Idle]
  /\ signedOut = {}
  /\ replayed = {}

Show(t, v, u, going) ==
  /\ view' = [view EXCEPT ![t] = v]
  /\ url' = [url EXCEPT ![t] = u]
  /\ leaving' = [leaving EXCEPT ![t] = going]

Tick ==
  /\ now < MaxTime
  /\ now' = now + 1
  /\ UNCHANGED <<providerVars, storage, tabVars, asking, history>>

(* A tab runs nothing else while it puts a request together.               *)
Free(t) == asking[t] = Idle

(* The user opens the console at any URL, or loads it again: that of a     *)
(* callback too, by a reload before it is left, from the history or by     *)
(* hand.                                                                   *)
Load(t) ==
  /\ Free(t)
  /\ \E u \in {Plain, Broken} \cup 1..logins :
       /\ Show(t, "checking", u, FALSE)
       /\ replayed' = replayed \cup ({u} \cap Logins)
       /\ Cardinality(replayed') <= MaxReplays
  /\ UNCHANGED <<now, providerVars, storage, asking, signedOut>>

(* startLogin, from the layout or from the dashboard.                      *)
StartLogin(t) ==
  /\ view[t] \in {"unauthenticated", "welcome"}
  /\ Show(t, "provider", Plain, FALSE)
  /\ UNCHANGED <<now, providerVars, storage, asking, history>>

(* The platform server sends the browser back with a response.             *)
LoginAnswered(t) ==
  /\ view[t] = "provider" /\ logins < MaxLogins
  /\ logins' = logins + 1
  /\ \E e \in {now + life : life \in Lifetimes} \cup {ZeroTime} :
        expiry' = [expiry EXCEPT ![logins'] = e]
  /\ Show(t, "checking", logins', FALSE)
  /\ UNCHANGED <<now, storage, asking, history>>

LoginGarbled(t) ==
  /\ view[t] = "provider"
  /\ Show(t, "checking", Broken, FALSE)
  /\ UNCHANGED <<now, providerVars, storage, asking, history>>

(* History: login n is stored while other tabs put requests together.      *)
Stored(n) ==
  asking' = [u \in Tabs |->
    IF asking[u] = Idle THEN Idle ELSE [asking[u] EXCEPT !.since = @ \cup {n}]]

(* Mutant: no location.replace, the callback stays in the address bar.     *)
MountCallback_Stays(t) ==
  /\ view[t] = "checking" /\ url[t] \in Logins
  /\ storage' = [auth |-> url[t], token |-> url[t]]
  /\ Stored(url[t])
  /\ Show(t, "authenticated", url[t], FALSE)
  /\ UNCHANGED <<now, providerVars, history>>

(* The layout's effect on a callback URL.  handleAuthCallback sets two     *)
(* keys, either of which localStorage can refuse.                          *)
MountCallback(t) ==
  /\ view[t] = "checking" /\ url[t] \in Logins
  /\ \/ /\ storage' = [auth |-> url[t], token |-> url[t]]
        /\ Stored(url[t])
        /\ Show(t, "authenticated", url[t], TRUE)
     \/ /\ storage' = [storage EXCEPT !.auth = url[t]]
        /\ Stored(url[t])
        /\ Show(t, "unauthenticated", url[t], FALSE)
     \/ /\ UNCHANGED <<storage, asking>>
        /\ Show(t, "unauthenticated", url[t], FALSE)
  /\ UNCHANGED <<now, providerVars, history>>

MountBroken(t) ==
  /\ view[t] = "checking" /\ url[t] = Broken
  /\ Show(t, "unauthenticated", Broken, FALSE)
  /\ UNCHANGED <<now, providerVars, storage, asking, history>>

(* The layout's effect anywhere else: isAuthenticated.                     *)
MountPlain(t) ==
  /\ view[t] = "checking" /\ url[t] = Plain
  /\ storage' = After(storage, now)
  /\ Show(t, IF GetToken(storage, now) = None THEN "unauthenticated" ELSE "authenticated",
          Plain, FALSE)
  /\ UNCHANGED <<now, providerVars, asking, history>>

Mount(t) == MountCallback(t) \/ MountBroken(t) \/ MountPlain(t)

(* The layout and the dashboard are rendered again: both ask for the       *)
(* response, and the dashboard shows its welcome when there is no token.   *)
Render(t) ==
  /\ Free(t)
  /\ view[t] \in Inside
  /\ storage' = After(storage, now)
  /\ \E v \in Inside :
       /\ v = "welcome" => url[t] = Plain /\ GetToken(storage, now) = None
       /\ view' = [view EXCEPT ![t] = v]
  /\ UNCHANGED <<now, providerVars, url, leaving, asking, history>>

(* A navigation of the document to /console/ ends: a new document.         *)
Arrive(t) ==
  /\ Free(t) /\ leaving[t]
  /\ Show(t, "checking", Plain, FALSE)
  /\ UNCHANGED <<now, providerVars, storage, asking, history>>

(* Mutant: signing out removes the token and leaves the response.          *)
SignOut_TokenOnly(t) ==
  /\ Free(t) /\ view[t] \in Inside
  /\ storage' = [storage EXCEPT !.token = None]
  /\ signedOut' = signedOut \cup ({storage.auth, storage.token} \ {None})
  /\ leaving' = [leaving EXCEPT ![t] = TRUE]
  /\ UNCHANGED <<now, providerVars, view, url, asking, replayed>>

SignOut(t) ==
  /\ Free(t) /\ view[t] \in Inside
  /\ storage' = Cleared
  /\ signedOut' = signedOut \cup ({storage.auth, storage.token} \ {None})
  /\ leaving' = [leaving EXCEPT ![t] = TRUE]
  /\ UNCHANGED <<now, providerVars, view, url, asking, replayed>>

(* A request begins with baseUrl(), which looks up the cluster...           *)
Ask(t, by, cluster) ==
  /\ Free(t) /\ view[t] = "authenticated"
  /\ asking' = [asking EXCEPT ![t] = [by |-> by, cluster |-> cluster, since |-> {}]]
  /\ UNCHANGED <<now, providerVars, tabVars, history>>

ShellAsks(t) ==
  /\ Ask(t, "shell", Response(storage, now))
  /\ storage' = After(storage, now)

PageAsks(t) ==
  /\ Ask(t, "page", PageCluster(storage))
  /\ UNCHANGED storage

(* ... and is sent with the token that headers() finds then.               *)
ShellSends(t) ==
  /\ asking[t].by = "shell"
  /\ storage' = After(storage, now)
  /\ asking' = [asking EXCEPT ![t] = Idle]
  /\ UNCHANGED <<now, providerVars, tabVars, history>>

PageSends(t) ==
  /\ asking[t].by = "page"
  /\ asking' = [asking EXCEPT ![t] = Idle]
  /\ UNCHANGED <<now, providerVars, storage, tabVars, history>>

Sends(t) == ShellSends(t) \/ PageSends(t)

Next ==
  \/ Tick
  \/ \E t \in Tabs :
       \/ Load(t) \/ StartLogin(t) \/ LoginAnswered(t) \/ LoginGarbled(t)
       \/ Mount(t) \/ Render(t) \/ Arrive(t) \/ SignOut(t)
       \/ ShellAsks(t) \/ PageAsks(t) \/ Sends(t)

(* The browser runs the effects of a mounted page and the function it has  *)
(* begun, and ends a navigation, which comes in between two functions of   *)
(* the page however many of them it runs.                                  *)
Fairness ==
  \A t \in Tabs : WF_vars(Mount(t)) /\ WF_vars(Sends(t)) /\ SF_vars(Arrive(t))

Spec == Init /\ [][Next]_vars /\ Fairness

-----------------------------------------------------------------------------
(* Types of the variables.                                                 *)
Maybe == Logins \cup {None}

TypeOK ==
  /\ now \in 0..MaxTime
  /\ logins \in 0..MaxLogins
  /\ expiry \in [Logins -> Int]
  /\ storage \in [auth : Maybe, token : Maybe]
  /\ view \in [Tabs -> Views]
  /\ url \in [Tabs -> Urls]
  /\ leaving \in [Tabs -> BOOLEAN]
  /\ asking \in [Tabs -> [by : {"nobody", "shell", "page"}, cluster : Maybe, since : SUBSET Logins]]
  /\ signedOut \subseteq Logins
  /\ replayed \subseteq Logins

(* The token a request would be sent with, if its turn came now.           *)
Token(t) == IF asking[t].by = "shell" THEN GetToken(storage, now) ELSE PageToken(storage, now)
Carries(t, n) == ~Free(t) /\ Token(t) = n

(* No request carries a token that getAuthResponse would call expired when *)
(* the request is sent, though getToken (auth.ts:31-34) falls back to a    *)
(* key that has no expiry, whichever tab removed or half wrote the keys.   *)
NoExpiredToken == \A t \in Tabs, n \in Logins : Carries(t, n) => ~Expired(n, now)

(* The token of a request belongs to the login whose cluster the request   *)
(* is addressed to.  The two are looked up one after the other             *)
(* (api.ts:21-36), and in between other tabs act and the clock moves: only *)
(* a login stored just then can mix with another, not a session that       *)
(* expires or is signed out of, nor a login of which one key was stored.   *)
OneIdentity ==
  \A t \in Tabs, n \in Logins :
    Carries(t, n) => n \in {asking[t].cluster} \cup asking[t].since

(* A session that was signed out of in one tab does not come back: no tab  *)
(* puts any part of it into localStorage again, however many pages are     *)
(* open or loading, except by loading its callback URL again               *)
(* (layout.tsx:214-217).                                                   *)
SignedOutStaysOut == {storage.auth, storage.token} \cap signedOut \subseteq replayed

(* A login opens the console: a tab that has stored one leaves the         *)
(* callback for the authenticated layout, and does not end at the offer to *)
(* sign in or under the callback, whatever other tabs store meanwhile,     *)
(* unless the session is signed out of or expires first, or the user loads *)
(* a callback again instead of waiting.                                    *)
Landed(t) == view[t] = "authenticated" /\ url[t] \in Logins /\ storage.auth = url[t]
Opened(t) == view[t] = "authenticated" /\ url[t] = Plain
Ended == storage.auth = None \/ Expired(storage.auth, now)

LoginOpensConsole ==
  \A t \in Tabs : Landed(t) ~> (Opened(t) \/ Ended \/ url[t] \in replayed \cup {Broken})
=============================================================================
