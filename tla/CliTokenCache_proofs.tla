------------------------- MODULE CliTokenCache_proofs -------------------------
(***************************************************************************)
(* Proofs about CliTokenCache, for any number of processes and logins, any *)
(* lifetimes and any margin.                                               *)
(***************************************************************************)
EXTENDS CliTokenCache, TLAPS

(* What the operators on tokens and kubeconfigs return.                    *)
LEMMA TokenFields == ASSUME NEW t \in Token
  PROVE t.login \in Logins /\ t.serial \in 0..MaxSerial /\ t.exp \in Nat /\ t.dies \in Nat
  BY DEF Token

LEMMA FreshIsToken == ASSUME NEW n \in Logins, NEW s \in 0..MaxSerial, now \in Nat PROVE Fresh(n, s) \in Token
  BY LifeType DEF Token, Fresh

LEMMA StaticIsToken == ASSUME NEW n \in Logins PROVE StaticToken(n) \in Token
  BY BoundsType DEF Token, StaticToken

LEMMA KubeFacts ==
  /\ NoKube \in Kube
  /\ \A k \in Kube, content \in SUBSET Entries :
       /\ WithEntries(k, content) \in Kube
       /\ WithEntries(k, content).login = k.login /\ WithEntries(k, content).exec = k.exec
       /\ WithEntries(k, content).entries = content
  BY BoundsType DEF Kube, NoKube, WithEntries

LEMMA MergedFacts == ASSUME NEW p \in Procs, hold[p] \in Token, base[p] \in Kube
  PROVE /\ Merged(p) \in Kube
        /\ Merged(p).login = hold[p].login /\ Merged(p).exec = (job[p] = "login")
        /\ Merged(p).entries = base[p].entries
  BY TokenFields, BoundsType DEF Kube, Merged, Logins

(* A process that ends leaves nothing behind in its slot.                  *)
LEMMA FinishType == ASSUME ProcsOK, NEW p \in Procs, NEW how \in Ended, Finish(p, how) PROVE ProcsOK'
<1>1. pc' \in [Procs -> Places] /\ job' \in [Procs -> {"get", "login", "static", "edit"}]
  BY DEF ProcsOK, Finish, Go, Places, Ended
<1>2. /\ hold' \in [Procs -> Token \cup {NoToken}]
      /\ \A q \in Procs : pc'[q] \notin Ended \cup {"waiting", "edit"} => hold'[q] \in Token
  BY DEF ProcsOK, Finish, Go
<1>3. base' \in [Procs -> Kube] /\ since' \in [Procs -> Nat] /\ alone' \in SUBSET Procs
  BY KubeFacts DEF ProcsOK, Finish
<1> QED BY <1>1, <1>2, <1>3 DEF ProcsOK

(* A process that begins has a slot to itself.                             *)
LEMMA BeginType == ASSUME ProcsOK, NEW p \in Procs, NEW command \in {"get", "login", "static", "edit"}, Begin(p, command)
  PROVE job' \in [Procs -> {"get", "login", "static", "edit"}] /\ alone' \in SUBSET Procs
  BY DEF ProcsOK, Begin

(* The state is well typed: a process has tokens wherever it needs them.   *)
THEOREM TypeCorrect == Spec => []TypeOK
<1>1. Init => TypeOK
  BY BoundsType, KubeFacts DEF Init, TypeOK, ProcsOK, Ended, Places, Logins
<1>2. TypeOK /\ [Next]_vars => TypeOK'
  <2> SUFFICES ASSUME TypeOK, [Next]_vars PROVE TypeOK'
    OBVIOUS
  <2> USE DEF TypeOK, Ended, Places,
        providerVars, cacheVars, memoryVars, procVars, kubeHistory, historyVars
  <2>1. ASSUME NEW p \in Procs, Start(p) PROVE TypeOK'
    <3>1. CASE GetTokenFails(p)
      BY <3>1, BeginType DEF GetTokenFails, Go, ProcsOK
    <3>2. CASE GetToken(p)
      BY <3>2, BeginType DEF GetToken, Go, Usable, ProcsOK
    <3>3. CASE BeginLogin(p)
      BY <3>3, BeginType, BoundsType DEF BeginLogin, Go, ProcsOK
    <3>4. CASE StaticTokenLogin(p)
      <4>1. logins' \in 0..MaxLogins /\ StaticToken(logins') \in Token
        BY <3>4, StaticIsToken, BoundsType DEF StaticTokenLogin, Logins
      <4>2. ProcsOK'
        BY <3>4, <4>1, BeginType DEF StaticTokenLogin, Go, ProcsOK
      <4> QED BY <3>4, <4>1, <4>2, BoundsType DEF StaticTokenLogin
    <3>5. CASE BeginEdit(p)
      BY <3>5, BeginType DEF BeginEdit, Go, ProcsOK
    <3> QED BY <2>1, <3>1, <3>2, <3>3, <3>4, <3>5 DEF Start
  <2>2. ASSUME NEW p \in Procs, Continue(p) PROVE TypeOK'
    <3>1. CASE refreshToken(p)
      BY <3>1, FreshIsToken, TokenFields, BoundsType DEF refreshToken, Rotate, RefreshedToken, Fresh, NextSerial, Go, ProcsOK
    <3>2. CASE RefreshFails(p)
      BY <3>2, FinishType DEF RefreshFails
    <3>3. CASE RefreshLost(p)
      <4>1. hold[p] \in Token
        BY <3>3 DEF RefreshLost, ProcsOK
      <4> QED BY <3>3, <4>1, TokenFields, BoundsType, FinishType DEF RefreshLost, Rotate, NextSerial
    <3>4. CASE PrintCredential(p)
      BY <3>4, FinishType DEF PrintCredential
    <3>5. CASE TruncateCache(p)
      BY <3>5 DEF TruncateCache, Go, ProcsOK
    <3>6. CASE WriteCache(p)
      BY <3>6 DEF WriteCache, Go, ProcsOK
    <3>7. CASE SaveFails(p)
      <4>1. hold[p] \in Token /\ hold[p].login \in Logins
        BY <3>7, TokenFields DEF SaveFails, Unsaved, ProcsOK
      <4>2. ProcsOK'
        <5>1. CASE ~GoesOn(p)
          BY <3>7, <5>1, FinishType DEF SaveFails
        <5>2. CASE GoesOn(p)
          BY <3>7, <4>1, <5>2 DEF SaveFails, Go, ProcsOK
        <5> QED BY <5>1, <5>2
      <4>3. /\ file' \in {"absent", "empty", "garbled", "good"}
            /\ token' \in Token \cup {NoToken} /\ (file' = "good" => token' \in Token)
            /\ lost' \in SUBSET Logins
        BY <3>7, <4>1 DEF SaveFails, Lose
      <4> QED BY <3>7, <4>2, <4>3 DEF SaveFails
    <3>8. CASE LoginAnswered(p)
      <4>1. /\ logins' \in 0..MaxLogins /\ logins' \in Logins
            /\ newest' \in [Logins -> 0..MaxSerial]
        BY <3>8, BoundsType DEF LoginAnswered, Logins
      <4>2. Fresh(logins', newest'[logins']) \in Token
        BY <4>1, FreshIsToken
      <4>3. ProcsOK'
        BY <3>8, <4>2 DEF LoginAnswered, Go, ProcsOK
      <4> QED BY <3>8, <4>1, <4>3 DEF LoginAnswered
    <3>9. CASE LoginGivesUp(p)
      BY <3>9, FinishType DEF LoginGivesUp
    <3>10. CASE LoadKube(p)
      BY <3>10 DEF LoadKube, Go, ProcsOK
    <3>11. CASE TruncateKube(p)
      BY <3>11, KubeFacts DEF TruncateKube, Go, ProcsOK
    <3>12. CASE WriteKube(p)
      <4>1. hold[p] \in Token /\ hold[p].login \in Logins /\ base[p] \in Kube
        BY <3>12, TokenFields DEF WriteKube, ProcsOK
      <4>2. kube' \in Kube /\ settled' \in 0..MaxLogins
        BY <3>12, <4>1, KubeFacts, MergedFacts, BoundsType DEF WriteKube, Logins
      <4> QED BY <3>12, <4>2, FinishType DEF WriteKube, Disturb
    <3>13. CASE MergeFails(p)
      BY <3>13, FinishType DEF MergeFails, Disturb
    <3>14. CASE EditKube(p)
      <4>1. base[p] \in Kube
        BY DEF ProcsOK
      <4> QED BY <3>14, <4>1, KubeFacts, FinishType DEF EditKube
    <3> QED BY <2>2, <3>1, <3>2, <3>3, <3>4, <3>5, <3>6, <3>7, <3>8, <3>9, <3>10, <3>11, <3>12,
              <3>13, <3>14 DEF Continue
  <2>3. ASSUME NEW p \in Procs, Killed(p) PROVE TypeOK'
    <3>1. lost' \in SUBSET Logins
      BY <2>3, TokenFields DEF Killed, Lose, Unsaved, ProcsOK
    <3> QED BY <2>3, <3>1, FinishType DEF Killed, Disturb
  <2>4. CASE Tick
    BY <2>4 DEF Tick, ProcsOK
  <2>5. CASE UNCHANGED vars
    BY <2>5 DEF vars, ProcsOK
  <2> QED BY <2>1, <2>2, <2>3, <2>4, <2>5 DEF Next
<1> QED BY <1>1, <1>2, PTL DEF Spec

-----------------------------------------------------------------------------
(* A process moves nobody's slot but its own.                              *)
LEMMA OwnSlot ==
  ASSUME TypeOK, NEW p \in Procs, Start(p) \/ Continue(p) \/ Killed(p), NEW q \in Procs \ {p}
  PROVE /\ pc'[q] = pc[q] /\ job'[q] = job[q]
        /\ hold'[q] = hold[q] /\ base'[q] = base[q] /\ since'[q] = since[q]
<1> USE DEF TypeOK, ProcsOK, Go, memoryVars
<1>1. CASE Start(p)
  BY <1>1 DEF Start, GetTokenFails, GetToken, BeginLogin, StaticTokenLogin, BeginEdit, Begin
<1>2. CASE Killed(p)
  BY <1>2 DEF Killed, Finish
<1>3. CASE Continue(p)
  <2>1. CASE refreshToken(p) \/ TruncateCache(p) \/ WriteCache(p) \/ LoginAnswered(p) \/ LoadKube(p) \/ TruncateKube(p)
    BY <2>1 DEF refreshToken, TruncateCache, WriteCache, LoginAnswered, LoadKube, TruncateKube
  <2>2. CASE RefreshFails(p) \/ RefreshLost(p) \/ PrintCredential(p) \/ LoginGivesUp(p)
    BY <2>2 DEF RefreshFails, RefreshLost, PrintCredential, LoginGivesUp, Finish
  <2>3. CASE SaveFails(p)
    BY <2>3 DEF SaveFails, Finish
  <2>4. CASE WriteKube(p) \/ MergeFails(p) \/ EditKube(p)
    BY <2>4 DEF WriteKube, MergeFails, EditKube, Finish
  <2> QED BY <1>3, <2>1, <2>2, <2>3, <2>4 DEF Continue
<1> QED BY <1>1, <1>2, <1>3

(* Logins are never taken back and the provider stays what it is.          *)
LEMMA LoginsGrow ==
  ASSUME TypeOK, [Next]_vars
  PROVE logins' \in Nat /\ logins' >= logins /\ provider' = provider
<1> USE DEF TypeOK, providerVars
<1>1. ASSUME NEW p \in Procs, Start(p) PROVE logins' \in Nat /\ logins' >= logins /\ provider' = provider
  BY <1>1 DEF Start, GetTokenFails, GetToken, BeginLogin, StaticTokenLogin, BeginEdit
<1>2. ASSUME NEW p \in Procs, Continue(p) PROVE logins' \in Nat /\ logins' >= logins /\ provider' = provider
  BY <1>2 DEF Continue, refreshToken, TruncateCache, WriteCache, LoginAnswered, LoadKube, TruncateKube,
       RefreshFails, RefreshLost, PrintCredential, LoginGivesUp, SaveFails, WriteKube, MergeFails, EditKube
<1>3. ASSUME NEW p \in Procs, Killed(p) PROVE logins' \in Nat /\ logins' >= logins /\ provider' = provider
  BY <1>3 DEF Killed
<1>4. CASE Tick \/ UNCHANGED vars
  BY <1>4 DEF Tick, vars
<1> QED BY <1>1, <1>2, <1>3, <1>4 DEF Next

(* What becomes of the slot of a process that ends.                        *)
LEMMA SlotFreed ==
  ASSUME TypeOK, NEW p \in Procs, NEW how \in Ended, Finish(p, how)
  PROVE pc'[p] = how /\ hold'[p] = NoToken /\ alone' = alone \ {p}
BY DEF TypeOK, ProcsOK, Finish, Go

(* What a process is doing fits its command, and its tokens are of a login *)
(* that has taken place.                                                   *)
LEMMA JobsFit ==
  ASSUME TypeOK, GrantsOK, \A q \in Procs : JobOK(q), [Next]_vars
  PROVE \A q \in Procs : JobOK(q)'
<1>1. ASSUME NEW p \in Procs, Start(p) \/ Continue(p) \/ Killed(p), NEW q \in Procs \ {p} PROVE JobOK(q)'
  <2>1. hold[q].login \in 1..logins => hold'[q].login \in 1..logins'
    BY <1>1, OwnSlot, LoginsGrow DEF TypeOK
  <2> QED BY <1>1, <2>1, OwnSlot DEF JobOK
<1>2. ASSUME NEW p \in Procs, pc'[p] \in Ended PROVE JobOK(p)'
  BY <1>2 DEF JobOK, Ended
<1>3. ASSUME NEW p \in Procs, Start(p) PROVE JobOK(p)'
  <2> USE DEF TypeOK, ProcsOK, Begin, Go
  <2>1. CASE GetTokenFails(p)
    BY <1>2, <2>1 DEF GetTokenFails, Ended
  <2>2. CASE GetToken(p)
    <3>1. token.login \in 1..logins
      BY <2>2, TokenFields DEF GetToken, Usable, GrantsOK, Given, Logins
    <3>2. hold'[p] = token /\ job'[p] = "get" /\ logins' = logins
      BY <2>2 DEF GetToken, providerVars
    <3>3. pc'[p] = "print" \/ (pc'[p] = "refresh" /\ token.serial > 0)
      BY <2>2 DEF GetToken, Usable
    <3> QED BY <3>1, <3>2, <3>3 DEF JobOK
  <2>3. CASE BeginLogin(p) \/ BeginEdit(p)
    BY <2>3 DEF BeginLogin, BeginEdit, JobOK, Ended
  <2>4. CASE StaticTokenLogin(p)
    <3>1. hold'[p].login \in 1..logins'
      BY <2>4 DEF StaticTokenLogin, StaticToken
    <3> QED BY <2>4, <3>1 DEF StaticTokenLogin, JobOK
  <2> QED BY <1>3, <2>1, <2>2, <2>3, <2>4 DEF Start
<1>4. ASSUME NEW p \in Procs, Continue(p) PROVE JobOK(p)'
  <2> USE DEF TypeOK, ProcsOK, Go
  <2>1. CASE refreshToken(p)
    <3>1. hold'[p].login = hold[p].login /\ pc'[p] = "save" /\ job'[p] = job[p] /\ logins' = logins
      BY <2>1 DEF refreshToken, RefreshedToken, Fresh
    <3>2. job[p] = "get" /\ hold[p].login \in 1..logins
      BY <2>1 DEF refreshToken, JobOK, Ended
    <3> QED BY <3>1, <3>2 DEF JobOK
  <2>2. CASE TruncateCache(p) \/ WriteCache(p) \/ LoadKube(p) \/ TruncateKube(p)
    BY <2>2 DEF TruncateCache, WriteCache, LoadKube, TruncateKube, JobOK, memoryVars, providerVars, Ended
  <2>3. CASE LoginAnswered(p)
    <3>1. hold'[p].login = logins' /\ logins' \in 1..logins'
      BY <2>3 DEF LoginAnswered, Fresh
    <3> QED BY <2>3, <3>1 DEF LoginAnswered, JobOK, Ended
  <2>4. CASE RefreshFails(p) \/ RefreshLost(p) \/ PrintCredential(p) \/ LoginGivesUp(p)
             \/ WriteKube(p) \/ MergeFails(p) \/ EditKube(p)
    BY <1>2, <2>4, SlotFreed DEF RefreshFails, RefreshLost, PrintCredential, LoginGivesUp, WriteKube,
         MergeFails, EditKube, Ended
  <2>5. CASE SaveFails(p)
    <3>1. CASE GoesOn(p)
      BY <2>5, <3>1 DEF SaveFails, GoesOn, Unsaved, JobOK, memoryVars, providerVars, Ended
    <3>2. CASE ~GoesOn(p)
      BY <1>2, <2>5, <3>2, SlotFreed DEF SaveFails, Ended
    <3> QED BY <3>1, <3>2
  <2> QED BY <1>4, <2>1, <2>2, <2>3, <2>4, <2>5 DEF Continue
<1>5. ASSUME NEW p \in Procs, Killed(p) PROVE JobOK(p)'
  BY <1>2, <1>5, SlotFreed DEF Killed, Ended
<1>6. CASE Tick \/ UNCHANGED vars
  BY <1>6 DEF Tick, vars, procVars, providerVars, memoryVars, JobOK
<1> QED BY <1>1, <1>3, <1>4, <1>5, <1>6 DEF Next

-----------------------------------------------------------------------------
(* Refresh tokens.  One that has been given stays given.                   *)
LEMMA GivenStays ==
  ASSUME TypeOK, GrantsOK, [Next]_vars, NEW u \in Token, Given(u)
  PROVE Given(u)'
<1>1. /\ u.login \in 1..logins /\ u.login \in Logins /\ u.serial \in Nat
      /\ newest[u.login] \in Nat /\ logins \in Nat /\ u.login \in 1..logins'
  BY TokenFields, LoginsGrow DEF TypeOK, Given, Logins
<1>2. ASSUME NEW t \in Token, Given(t), Rotate(t), provider' = provider, logins' = logins PROVE Given(u)'
  <2>1. /\ newest' = [newest EXCEPT ![t.login] = NextSerial(t)] /\ t.login \in Logins
        /\ NextSerial(t) \in Nat /\ NextSerial(t) >= newest[t.login]
    BY <1>2, TokenFields DEF Rotate, Taken, NextSerial
  <2>2. "rotate" \notin provider => NextSerial(t) = newest[t.login]
    BY <1>2 DEF Rotate, Taken, NextSerial
  <2>3. /\ newest'[u.login] \in Nat /\ newest'[u.login] >= newest[u.login]
        /\ "rotate" \notin provider => newest'[u.login] = newest[u.login]
    BY <1>1, <2>1, <2>2 DEF TypeOK
  <2> QED BY <1>1, <1>2, <2>3 DEF Given, Taken
<1>3. ASSUME newest' = newest PROVE Given(u)'
  BY <1>1, <1>3, LoginsGrow DEF Given, Taken
<1>4. ASSUME NEW p \in Procs, LoginAnswered(p) PROVE Given(u)'
  <2>1. newest'[u.login] = newest[u.login]
    BY <1>1, <1>4 DEF LoginAnswered, TypeOK
  <2> QED BY <1>1, <2>1, LoginsGrow DEF Given, Taken
<1>5. ASSUME NEW p \in Procs, refreshToken(p) \/ RefreshLost(p) PROVE Given(u)'
  <2>1. hold[p] \in Token /\ Given(hold[p]) /\ Rotate(hold[p])
    BY <1>5 DEF refreshToken, RefreshLost, GrantsOK, InUse, TypeOK, ProcsOK, Ended
  <2> QED BY <1>2, <1>5, <2>1 DEF refreshToken, RefreshLost
<1>6. ASSUME NEW p \in Procs, Start(p) PROVE newest' = newest
  BY <1>6 DEF Start, GetTokenFails, GetToken, BeginLogin, StaticTokenLogin, BeginEdit, providerVars
<1>7. ASSUME NEW p \in Procs, Continue(p), ~refreshToken(p), ~RefreshLost(p), ~LoginAnswered(p)
      PROVE newest' = newest
  BY <1>7 DEF Continue, TruncateCache, WriteCache, LoadKube, TruncateKube, RefreshFails,
       PrintCredential, LoginGivesUp, SaveFails, WriteKube, MergeFails, EditKube, providerVars
<1>8. ASSUME NEW p \in Procs, Killed(p) PROVE newest' = newest
  BY <1>8 DEF Killed, providerVars
<1>9. CASE Tick \/ UNCHANGED vars
  BY <1>3, <1>9 DEF Tick, vars, providerVars
<1> QED BY <1>3, <1>4, <1>5, <1>6, <1>7, <1>8, <1>9 DEF Next

(* A refresh token is retired only by a process that uses it.              *)
LEMMA RetiredByUse ==
  ASSUME TypeOK, GrantsOK, [Next]_vars, NEW u \in Token, u.login <= logins, Taken(u), ~Taken(u)'
  PROVE /\ "rotate" \in provider
        /\ \E p \in Procs : /\ pc[p] = "refresh" /\ SameGrant(hold[p], u)
                            /\ refreshToken(p) \/ RefreshLost(p)
<1>1. newest'[u.login] # newest[u.login] /\ u.login \in Logins /\ u.login # logins + 1
  BY TokenFields DEF Taken, TypeOK
<1>2. ASSUME NEW p \in Procs, refreshToken(p) \/ RefreshLost(p)
      PROVE "rotate" \in provider /\ pc[p] = "refresh" /\ SameGrant(hold[p], u)
  <2>1. pc[p] = "refresh" /\ Rotate(hold[p])
    BY <1>2 DEF refreshToken, RefreshLost
  <2>2. hold[p].login = u.login /\ NextSerial(hold[p]) # hold[p].serial
    BY <1>1, <2>1 DEF Rotate, Taken, TypeOK
  <2> QED BY <2>1, <2>2 DEF Rotate, Taken, NextSerial, SameGrant
<1>3. ASSUME NEW p \in Procs, Start(p) PROVE FALSE
  BY <1>1, <1>3 DEF Start, GetTokenFails, GetToken, BeginLogin, StaticTokenLogin, BeginEdit, providerVars
<1>4. ASSUME NEW p \in Procs, Continue(p), ~refreshToken(p), ~RefreshLost(p) PROVE FALSE
  <2>1. CASE LoginAnswered(p)
    BY <1>1, <2>1 DEF LoginAnswered, TypeOK
  <2>2. CASE ~LoginAnswered(p)
    BY <1>1, <1>4, <2>2 DEF Continue, TruncateCache, WriteCache, LoadKube, TruncateKube, RefreshFails,
       PrintCredential, LoginGivesUp, SaveFails, WriteKube, MergeFails, EditKube, providerVars
  <2> QED BY <2>1, <2>2
<1>5. ASSUME NEW p \in Procs, Killed(p) PROVE FALSE
  BY <1>1, <1>5 DEF Killed, providerVars
<1>6. ~Tick /\ ~UNCHANGED vars
  BY <1>1 DEF Tick, vars, providerVars
<1> QED BY <1>2, <1>3, <1>4, <1>5, <1>6 DEF Next

(* The refresh token of a new login or a refresh is nobody else's, and the *)
(* provider takes it.                                                      *)
LEMMA NewGrant ==
  ASSUME TypeOK, GrantsOK, \A q \in Procs : JobOK(q), [Next]_vars,
         NEW p \in Procs, refreshToken(p) \/ LoginAnswered(p)
  PROVE /\ Given(hold[p])' /\ Taken(hold[p])'
        /\ "rotate" \in provider =>
             \A u \in Token : Given(u) => ~SameGrant(u, hold'[p])
<1>1. CASE refreshToken(p)
  <2>1. /\ hold[p] \in Token /\ Given(hold[p]) /\ Taken(hold[p])
        /\ newest' = [newest EXCEPT ![hold[p].login] = NextSerial(hold[p])]
        /\ hold'[p].login = hold[p].login /\ hold'[p].serial = NextSerial(hold[p])
        /\ logins' = logins /\ provider' = provider
    BY <1>1 DEF refreshToken, Rotate, RefreshedToken, Fresh, GrantsOK, InUse, TypeOK, ProcsOK, Ended
  <2>2. hold[p].login \in Logins /\ hold[p].serial \in Nat /\ NextSerial(hold[p]) \in Nat
    BY <2>1, TokenFields DEF NextSerial
  <2>3. Taken(hold[p])'
    BY <2>1, <2>2 DEF Taken, TypeOK
  <2>4. Given(hold[p])'
    BY <2>1, <2>2, <2>3 DEF Given, Taken
  <2>5. ASSUME "rotate" \in provider, NEW u \in Token, Given(u) PROVE ~SameGrant(u, hold'[p])
    BY <2>1, <2>2, <2>5, TokenFields DEF Given, Taken, NextSerial, SameGrant, TypeOK
  <2> QED BY <2>3, <2>4, <2>5
<1>2. CASE LoginAnswered(p)
  <2>1. /\ hold'[p].login = logins' /\ hold'[p].serial = newest'[logins']
        /\ logins' = logins + 1 /\ newest'[logins'] \in Nat
    BY <1>2, BoundsType DEF LoginAnswered, Fresh, TypeOK, ProcsOK, Logins
  <2> QED BY <2>1 DEF Given, Taken, SameGrant, TypeOK
<1> QED BY <1>1, <1>2

(* Nothing else puts a refresh token into use: the cache gets the tokens   *)
(* of the process that writes it, and that is then done with them.         *)
LEMMA NothingNew ==
  ASSUME TypeOK, NEW p \in Procs, Start(p) \/ Continue(p) \/ Killed(p),
         ~refreshToken(p), ~LoginAnswered(p)
  PROVE /\ file' = "good" =>
             \/ file = "good" /\ token' = token
             \/ token' = hold[p] /\ Unsaved(p) /\ pc'[p] \notin {"refresh", "save", "write"}
        /\ \/ GetToken(p)
           \/ p \notin InUse'
           \/ p \in InUse /\ Unsaved(p) /\ hold'[p] = hold[p]
<1> USE DEF TypeOK, ProcsOK, InUse, Unsaved, Ended, cacheVars, memoryVars
<1>1. CASE Start(p)
  BY <1>1 DEF Start, GetTokenFails, BeginLogin, StaticTokenLogin, BeginEdit, GetToken, Go
<1>2. CASE Killed(p)
  BY <1>2, SlotFreed DEF Killed
<1>3. CASE TruncateCache(p)
  BY <1>3 DEF TruncateCache, Go
<1>4. CASE WriteCache(p)
  BY <1>4 DEF WriteCache, Go
<1>5. CASE SaveFails(p)
  <2>1. pc'[p] \notin {"refresh", "save", "write"}
    BY <1>5, SlotFreed DEF SaveFails, Go
  <2> QED BY <1>5, <2>1 DEF SaveFails
<1>6. CASE LoadKube(p) \/ TruncateKube(p)
  BY <1>6 DEF LoadKube, TruncateKube, Go
<1>7. CASE RefreshFails(p) \/ RefreshLost(p) \/ PrintCredential(p) \/ LoginGivesUp(p)
           \/ WriteKube(p) \/ MergeFails(p) \/ EditKube(p)
  BY <1>7, SlotFreed DEF RefreshFails, RefreshLost, PrintCredential, LoginGivesUp, WriteKube,
       MergeFails, EditKube
<1> QED BY <1>1, <1>2, <1>3, <1>4, <1>5, <1>6, <1>7 DEF Continue

(* Refresh tokens stay in order.                                           *)
LEMMA GrantsStay ==
  ASSUME TypeOK, TypeOK', GrantsOK, \A q \in Procs : JobOK(q), [Next]_vars
  PROVE GrantsOK'
<1>1. ASSUME NEW q \in Procs, q \in InUse PROVE hold[q] \in Token /\ hold[q].login <= logins
  BY <1>1 DEF InUse, GrantsOK, Given, TypeOK, ProcsOK, Ended
<1>2. ASSUME NEW q \in Procs, q \in InUse, hold'[q] = hold[q]
      PROVE Given(hold[q])' /\ (Unsaved(q) => Taken(hold[q])')
  <2>1. Given(hold[q])'
    BY <1>1, <1>2, GivenStays DEF GrantsOK, Given, Taken
  <2>2. ASSUME Unsaved(q), ~Taken(hold[q])' PROVE FALSE
    <3>1. Taken(hold[q]) /\ OneHand(q)
      BY <1>2, <2>2 DEF GrantsOK
    <3>2. PICK r \in Procs : pc[r] = "refresh" /\ SameGrant(hold[r], hold[q]) /\ "rotate" \in provider
      BY <1>1, <1>2, <2>2, <3>1, RetiredByUse DEF Taken
    <3> QED BY <2>2, <3>1, <3>2 DEF OneHand, InUse, Unsaved, JobOK, SameGrant
  <2> QED BY <2>1, <2>2
<1>3. ASSUME NEW p \in Procs, Start(p) \/ Continue(p) \/ Killed(p), NEW q \in Procs \ {p}, q \in InUse'
      PROVE q \in InUse /\ Unsaved(q)' = Unsaved(q) /\ hold'[q] = hold[q]
  BY <1>3, OwnSlot DEF InUse, Unsaved
<1>4. ASSUME file = "good" PROVE token \in Token /\ (token' = token => Given(token)')
  <2>1. token \in Token /\ Given(token)
    BY <1>4 DEF GrantsOK, TypeOK
  <2> QED BY <2>1, GivenStays DEF Given, Taken
<1>5. ASSUME NEW p \in Procs, refreshToken(p) \/ LoginAnswered(p) PROVE GrantsOK'
  <2>1. file' = file /\ token' = token /\ provider' = provider /\ pc'[p] = "save"
    BY <1>5 DEF refreshToken, LoginAnswered, cacheVars, Go, TypeOK, ProcsOK
  <2>2. Continue(p)
    BY <1>5 DEF Continue
  <2>3. /\ Given(hold[p])' /\ Taken(hold[p])'
        /\ "rotate" \in provider => \A u \in Token : Given(u) => ~SameGrant(u, hold'[p])
    BY <1>5, NewGrant
  <2>4. ASSUME "rotate" \in provider PROVE
          /\ file = "good" => ~SameGrant(token, hold'[p])
          /\ \A q \in InUse \ {p} : ~SameGrant(hold[q], hold'[p])
    BY <1>1, <1>4, <2>3, <2>4 DEF GrantsOK, InUse
  <2>5. OneHand(p)'
    BY <1>3, <2>1, <2>2, <2>4 DEF OneHand, InUse
  <2>6. ASSUME NEW q \in Procs \ {p}, q \in InUse' PROVE OneHand(q)'
    <3>1. q \in InUse /\ Unsaved(q)' = Unsaved(q) /\ hold'[q] = hold[q] /\ OneHand(q)
      BY <1>3, <2>2, <2>6 DEF GrantsOK
    <3>2. ASSUME "rotate" \in provider, Unsaved(q), hold[q].serial > 0, NEW r \in Procs \ {q}, r \in InUse'
          PROVE ~SameGrant(hold'[r], hold[q])
      <4>1. CASE r = p
        BY <2>4, <3>1, <3>2, <4>1 DEF SameGrant
      <4>2. CASE r # p
        BY <1>3, <2>2, <3>1, <3>2, <4>2 DEF OneHand
      <4> QED BY <4>1, <4>2
    <3> QED BY <2>1, <3>1, <3>2 DEF OneHand, InUse
  <2> QED BY <1>2, <1>3, <1>4, <2>1, <2>2, <2>3, <2>5, <2>6 DEF GrantsOK, InUse
<1>6. ASSUME NEW p \in Procs, Start(p) \/ Continue(p) \/ Killed(p), ~refreshToken(p), ~LoginAnswered(p)
      PROVE GrantsOK'
  <2>1. /\ file' = "good" =>
             \/ file = "good" /\ token' = token
             \/ token' = hold[p] /\ Unsaved(p) /\ p \in InUse /\ p \notin InUse'
        /\ provider' = provider
    BY <1>6, NothingNew, LoginsGrow DEF InUse, Unsaved
  <2>2. ASSUME p \in InUse'
        PROVE \/ file = "good" /\ hold'[p] = token /\ ~Unsaved(p)'
              \/ p \in InUse /\ Unsaved(p) /\ hold'[p] = hold[p]
    BY <1>6, <2>2, NothingNew DEF GetToken, Go, Usable, Unsaved, TypeOK, ProcsOK
  <2>3. file' = "good" => Given(token)'
    <3>1. CASE file = "good" /\ token' = token
      BY <1>4, <3>1
    <3>2. CASE token' = hold[p] /\ p \in InUse
      BY <1>1, <3>2, GivenStays DEF GrantsOK, Given, Taken
    <3> QED BY <2>1, <3>1, <3>2
  <2>4. ASSUME NEW q \in Procs, q \in InUse' PROVE Given(hold[q])' /\ (Unsaved(q)' => Taken(hold[q])')
    <3>1. CASE q = p /\ file = "good" /\ hold'[p] = token /\ ~Unsaved(p)'
      <4>1. token \in Token /\ Given(token)
        BY <3>1 DEF GrantsOK, TypeOK
      <4> QED BY <3>1, <4>1, GivenStays DEF Given, Taken
    <3>2. CASE q \in InUse /\ hold'[q] = hold[q] /\ (Unsaved(q)' => Unsaved(q))
      BY <1>2, <3>2
    <3> QED BY <1>3, <1>6, <2>2, <2>4, <3>1, <3>2
  <2>5. ASSUME NEW q \in Procs, q \in InUse', Unsaved(q)', "rotate" \in provider, hold'[q].serial > 0
        PROVE /\ file' = "good" => ~SameGrant(token', hold'[q])
              /\ \A r \in InUse' \ {q} : ~SameGrant(hold'[r], hold'[q])
    <3>1. q \in InUse /\ Unsaved(q) /\ hold'[q] = hold[q] /\ OneHand(q)
      BY <1>3, <1>6, <2>2, <2>5 DEF GrantsOK
    <3>2. file' = "good" => ~SameGrant(token', hold[q])
      BY <2>1, <2>5, <3>1 DEF OneHand
    <3>3. ASSUME NEW r \in Procs \ {q}, r \in InUse' PROVE ~SameGrant(hold'[r], hold[q])
      BY <1>3, <1>6, <2>2, <2>5, <3>1, <3>3 DEF OneHand
    <3> QED BY <3>1, <3>2, <3>3 DEF InUse
  <2> QED BY <2>1, <2>3, <2>4, <2>5 DEF GrantsOK, OneHand, InUse
<1>7. CASE Tick \/ UNCHANGED vars
  BY <1>7 DEF Tick, vars, providerVars, cacheVars, procVars, memoryVars, GrantsOK, InUse, Given, Taken,
       Unsaved, OneHand
<1> QED BY <1>5, <1>6, <1>7 DEF Next

(* Tokens that a process no longer has to save are in the cache or astray, *)
(* and what is astray stays so.                                            *)
LEMMA SavedOrLost ==
  ASSUME TypeOK, NEW p \in Procs, Start(p) \/ Continue(p) \/ Killed(p)
  PROVE /\ lost \subseteq lost'
        /\ Unsaved(p) => Unsaved(p)' \/ WriteCache(p) \/ hold[p].login \in lost'
<1> USE DEF TypeOK, ProcsOK, Unsaved, Ended, kubeHistory, historyVars
<1>1. CASE Start(p)
  BY <1>1 DEF Start, GetTokenFails, BeginLogin, StaticTokenLogin, BeginEdit, GetToken, Begin
<1>2. CASE Killed(p)
  BY <1>2 DEF Killed, Lose
<1>3. CASE Continue(p)
  BY <1>3 DEF Continue, refreshToken, RefreshFails, RefreshLost, PrintCredential, TruncateCache, SaveFails,
       LoginAnswered, LoginGivesUp, LoadKube, TruncateKube, WriteKube, WriteCache, MergeFails, EditKube, Lose, Go
<1> QED BY <1>1, <1>2, <1>3

(* No refresh is undone.                                                   *)
LEMMA SessionStays ==
  ASSUME TypeOK, GrantsOK, \A q \in Procs : JobOK(q), SessionKept, [Next]_vars
  PROVE SessionKept'
<1>1. ASSUME NEW p \in Procs, Start(p) \/ Continue(p) \/ Killed(p), file = "good", file' = "good", token' = token,
             ~WriteCache(p)
      PROVE SessionKept'
  <2>1. token \in Token /\ token.login <= logins
    BY <1>1 DEF GrantsOK, Given, TypeOK
  <2>2. CASE Taken(token)
    <3>1. ASSUME NEW r \in Procs, SameGrant(hold[r], token), refreshToken(r)
          PROVE Unsaved(r)' /\ hold'[r].login = token.login
      BY <3>1 DEF refreshToken, RefreshedToken, Fresh, SameGrant, Unsaved, Go, TypeOK, ProcsOK
    <3>2. ASSUME NEW r \in Procs, SameGrant(hold[r], token), RefreshLost(r) PROVE token.login \in lost'
      BY <3>2 DEF RefreshLost, SameGrant
    <3>3. Taken(token)' \/ \E r \in Procs : SameGrant(hold[r], token) /\ (refreshToken(r) \/ RefreshLost(r))
      BY <1>1, <2>1, <2>2, RetiredByUse DEF Taken
    <3> QED BY <1>1, <3>1, <3>2, <3>3 DEF SessionKept
  <2>3. CASE token.login \in lost
    BY <1>1, <2>3, SavedOrLost DEF SessionKept
  <2>4. ASSUME NEW q \in Procs, Unsaved(q), hold[q].login = token.login PROVE SessionKept'
    <3>1. CASE q # p
      BY <1>1, <2>4, <3>1, OwnSlot DEF SessionKept, Unsaved
    <3>2. CASE q = p /\ ~Unsaved(p)'
      BY <1>1, <2>4, <3>2, SavedOrLost DEF SessionKept
    <3>3. CASE q = p /\ Unsaved(p)'
      <4>1. hold'[p] = hold[p]
        BY <1>1, <2>4, <3>3, NothingNew DEF GetToken, Begin, InUse, Unsaved, Ended, refreshToken, LoginAnswered
      <4> QED BY <1>1, <2>4, <3>3, <4>1 DEF SessionKept
    <3> QED BY <3>1, <3>2, <3>3
  <2> QED BY <1>1, <2>2, <2>3, <2>4 DEF SessionKept
<1>2. ASSUME NEW p \in Procs, WriteCache(p) PROVE SessionKept'
  <2>1. Taken(hold[p]) /\ newest' = newest /\ (file' = "good" => token' = hold[p])
    BY <1>2 DEF WriteCache, GrantsOK, InUse, Unsaved, providerVars
  <2> QED BY <2>1 DEF SessionKept, Taken
<1>3. ASSUME NEW p \in Procs, Start(p) \/ Continue(p) \/ Killed(p), file' = "good", ~WriteCache(p)
      PROVE file = "good" /\ token' = token
  BY <1>3 DEF Start, GetTokenFails, BeginLogin, StaticTokenLogin, BeginEdit, GetToken, Killed, Continue,
       refreshToken, RefreshFails, RefreshLost, PrintCredential, TruncateCache, SaveFails, LoginAnswered,
       LoginGivesUp, LoadKube, TruncateKube, WriteKube, MergeFails, EditKube, cacheVars
<1>4. CASE Tick \/ UNCHANGED vars
  BY <1>4 DEF Tick, vars, providerVars, cacheVars, procVars, memoryVars, historyVars, Taken, Unsaved, SessionKept
<1> QED BY <1>1, <1>2, <1>3, <1>4 DEF Next, SessionKept

-----------------------------------------------------------------------------
(* Running alone.                                                          *)

(* Who goes on has begun, and who is said to be alone stays it until it    *)
(* ends.                                                                   *)
LEMMA AloneUntilEnd ==
  ASSUME TypeOK, NEW p \in Procs, Continue(p) \/ Killed(p)
  PROVE /\ p \in Active /\ alone' \subseteq alone
        /\ p \in alone' =>
             \/ refreshToken(p) \/ TruncateCache(p) \/ WriteCache(p) \/ LoginAnswered(p)
             \/ LoadKube(p) \/ TruncateKube(p) \/ (SaveFails(p) /\ GoesOn(p))
<1> USE DEF Ended, Active, historyVars
<1>1. CASE Killed(p)
  BY <1>1 DEF Killed, Finish
<1>2. CASE Continue(p)
  BY <1>2 DEF Continue, refreshToken, RefreshFails, RefreshLost, PrintCredential, TruncateCache, SaveFails,
       LoginAnswered, LoginGivesUp, LoadKube, TruncateKube, WriteKube, WriteCache, MergeFails, EditKube, Finish,
       Unsaved
<1> QED BY <1>1, <1>2

(* A process that runs alone finds the files as it has left them.          *)
LEMMA AloneStays ==
  ASSUME TypeOK, \A q \in Procs : JobOK(q), \A q \in alone : AloneOK(q), EntriesKept, [Next]_vars
  PROVE \A q \in alone' : AloneOK(q)'
<1>1. ASSUME NEW p \in Procs, Start(p), NEW q \in alone' PROVE AloneOK(q)'
  <2>1. q = p /\ alone' = {p} /\ Active = {}
    BY <1>1 DEF Start, GetTokenFails, GetToken, BeginLogin, StaticTokenLogin, BeginEdit, Begin
  <2>2. Active' \subseteq {p}
    BY <1>1, <2>1, OwnSlot DEF Active
  <2>3. pc'[p] \notin {"write", "merge", "kube"} /\ (pc'[p] = "load" => job'[p] = "static")
    BY <1>1 DEF Start, GetTokenFails, GetToken, BeginLogin, StaticTokenLogin, BeginEdit, Begin, Go, TypeOK, ProcsOK
  <2> QED BY <2>1, <2>2, <2>3 DEF AloneOK
<1>2. ASSUME NEW p \in Procs, Continue(p) \/ Killed(p), NEW q \in alone' PROVE AloneOK(q)'
  <2>1. q \in alone /\ AloneOK(q) /\ alone = {q} /\ p = q /\ p \in alone
    BY <1>2, AloneUntilEnd DEF AloneOK
  <2>2. alone' = {p} /\ Active' \subseteq {p}
    BY <1>2, <2>1, OwnSlot, AloneUntilEnd DEF Active, AloneOK
  <2> USE DEF TypeOK, ProcsOK, Go, AloneOK
  <2>3. CASE refreshToken(p) \/ LoginAnswered(p)
    BY <2>1, <2>2, <2>3 DEF refreshToken, LoginAnswered
  <2>4. CASE TruncateCache(p)
    BY <2>1, <2>2, <2>4 DEF TruncateCache
  <2>5. CASE WriteCache(p)
    <3>1. file' = "good" /\ token' = hold[p] /\ hold'[p] = hold[p] /\ pc'[p] \in {"print", "load"}
      BY <2>1, <2>5 DEF WriteCache, memoryVars
    <3> QED BY <2>1, <2>2, <3>1
  <2>6. CASE SaveFails(p) /\ GoesOn(p)
    BY <2>1, <2>2, <2>6 DEF SaveFails, GoesOn
  <2>7. CASE LoadKube(p)
    <3>1. /\ base'[p] = kube /\ pc'[p] = "merge" /\ hold' = hold /\ job' = job /\ file' = file /\ token' = token
          /\ intact' = intact /\ entered' = entered
      BY <2>7 DEF LoadKube, cacheVars, historyVars, kubeHistory
    <3>2. intact => kube.entries = entered
      BY <2>1, <2>7 DEF LoadKube, EntriesKept, Active, Ended
    <3>3. pc[p] = "load"
      BY <2>7 DEF LoadKube
    <3> QED BY <2>1, <2>2, <3>1, <3>2, <3>3
  <2>8. CASE TruncateKube(p)
    BY <2>1, <2>2, <2>8 DEF TruncateKube, cacheVars, memoryVars, historyVars, kubeHistory
  <2> QED BY <1>2, <2>1, <2>2, <2>3, <2>4, <2>5, <2>6, <2>7, <2>8, AloneUntilEnd
<1>3. CASE Tick \/ UNCHANGED vars
  BY <1>3 DEF Tick, vars, cacheVars, procVars, memoryVars, historyVars, kubeHistory, AloneOK, Active
<1> QED BY <1>1, <1>2, <1>3 DEF Next

(* What other programs keep in the kubeconfig survives.                    *)
LEMMA EntriesStay ==
  ASSUME TypeOK, \A q \in alone : AloneOK(q), EntriesKept, [Next]_vars
  PROVE EntriesKept'
<1>1. ASSUME NEW p \in Procs, Start(p) PROVE EntriesKept'
  <2>1. /\ kube' = kube /\ intact' = intact /\ entered' = entered /\ pc[p] # "kube"
    BY <1>1 DEF Start, GetTokenFails, GetToken, BeginLogin, StaticTokenLogin, BeginEdit, Begin, Ended, kubeHistory
  <2> QED BY <1>1, <2>1, OwnSlot DEF EntriesKept
<1>2. ASSUME NEW p \in Procs, Continue(p) \/ Killed(p), ~WriteKube(p), ~EditKube(p), ~TruncateKube(p)
      PROVE EntriesKept'
  <2>1. \/ kube' = kube /\ intact' = intact /\ entered' = entered /\ pc[p] # "kube"
        \/ ~intact'
    BY <1>2 DEF Continue, Killed, refreshToken, RefreshFails, RefreshLost, PrintCredential, TruncateCache,
         SaveFails, LoginAnswered, LoginGivesUp, LoadKube, WriteCache, MergeFails, Disturb, Unsaved,
         historyVars, kubeHistory, TypeOK
  <2> QED BY <1>2, <2>1, OwnSlot DEF EntriesKept
<1>3. ASSUME NEW p \in Procs, TruncateKube(p) PROVE EntriesKept'
  BY <1>3 DEF TruncateKube, Go, EntriesKept, TypeOK, ProcsOK
<1>4. ASSUME NEW p \in Procs, WriteKube(p) PROVE EntriesKept'
  <2>1. CASE p \in alone
    <3>1. AloneOK(p) /\ pc[p] = "kube" /\ kube' = Merged(p) /\ intact' = intact
      BY <1>4, <2>1 DEF WriteKube, AloneOK, Disturb, TypeOK
    <3>2. intact => kube'.entries = base[p].entries /\ base[p].entries = entered /\ entered' = entered
      BY <1>4, <2>1, <3>1 DEF WriteKube, Merged, Disturb, AloneOK
    <3> QED BY <3>1, <3>2 DEF EntriesKept
  <2>2. CASE p \notin alone
    BY <1>4, <2>2 DEF WriteKube, Disturb, EntriesKept
  <2> QED BY <2>1, <2>2
<1>5. ASSUME NEW p \in Procs, EditKube(p) PROVE EntriesKept'
  <2>1. PICK content \in SUBSET Entries :
          kube' = WithEntries(base[p], content) /\ entered' = IF p \in alone THEN content ELSE {}
    BY <1>5 DEF EditKube
  <2>2. kube'.entries = content
    BY <2>1, KubeFacts DEF TypeOK, ProcsOK
  <2> QED BY <1>5, <2>1, <2>2 DEF EditKube, EntriesKept
<1>6. CASE Tick \/ UNCHANGED vars
  BY <1>6 DEF Tick, vars, procVars, historyVars, kubeHistory, EntriesKept
<1> QED BY <1>1, <1>2, <1>3, <1>4, <1>5, <1>6 DEF Next

-----------------------------------------------------------------------------
(* What is settled stays settled until the next login.                     *)
LEMMA SettledStays ==
  ASSUME TypeOK, \A q \in Procs : JobOK(q) /\ SettledOK(q), \A q \in alone : AloneOK(q), LoginSticks, [Next]_vars
  PROVE (\A q \in Procs : SettledOK(q)') /\ LoginSticks'
<1>1. ASSUME NEW p \in Procs, Start(p) \/ Continue(p) \/ Killed(p), kube' = kube, settled' = settled,
             NEW q \in Procs \ {p}
      PROVE SettledOK(q)'
  BY <1>1, OwnSlot DEF SettledOK, InUse
<1>2. ASSUME NEW p \in Procs, pc'[p] \in Ended PROVE SettledOK(p)'
  BY <1>2 DEF SettledOK, InUse, Ended
<1>3. ASSUME NEW p \in Procs, Start(p) PROVE (\A q \in Procs : SettledOK(q)') /\ LoginSticks'
  <2> USE DEF TypeOK, ProcsOK, Begin, Go
  <2>1. CASE BeginLogin(p) \/ StaticTokenLogin(p)
    BY <2>1 DEF BeginLogin, StaticTokenLogin, SettledOK, LoginSticks
  <2>2. CASE GetTokenFails(p)
    <3>1. kube' = kube /\ settled' = settled /\ file' = file /\ token' = token /\ pc'[p] \in Ended
      BY <2>2 DEF GetTokenFails, cacheVars, kubeHistory, Ended
    <3> QED BY <1>1, <1>2, <1>3, <3>1 DEF LoginSticks
  <2>3. CASE GetToken(p)
    <3>1. /\ kube' = kube /\ settled' = settled /\ file' = file /\ token' = token /\ file = "good"
          /\ pc'[p] \in {"refresh", "print"} /\ job'[p] = "get" /\ hold'[p] = token
      BY <2>3 DEF GetToken, Usable, cacheVars, kubeHistory
    <3> QED BY <1>1, <1>3, <3>1 DEF LoginSticks, SettledOK
  <2>4. CASE BeginEdit(p)
    <3>1. /\ kube' = kube /\ settled' = settled /\ file' = file /\ token' = token
          /\ pc'[p] = "edit" /\ base'[p] = kube
      BY <2>4 DEF BeginEdit, cacheVars, kubeHistory
    <3> QED BY <1>1, <1>3, <3>1 DEF LoginSticks, SettledOK, InUse
  <2> QED BY <1>3, <2>1, <2>2, <2>3, <2>4 DEF Start
<1>4. ASSUME NEW p \in Procs, Continue(p), ~WriteKube(p), ~EditKube(p), settled > 0
      PROVE (\A q \in Procs : SettledOK(q)') /\ LoginSticks'
  <2>1. SettledOK(p) /\ JobOK(p)
    OBVIOUS
  <2>2. kube' = kube /\ settled' = settled
    BY <1>4, <2>1 DEF Continue, refreshToken, RefreshFails, RefreshLost, PrintCredential, TruncateCache, SaveFails,
         LoginAnswered, LoginGivesUp, LoadKube, TruncateKube, WriteCache, MergeFails, SettledOK,
         historyVars, kubeHistory
  <2>3. file' = "good" => (file = "good" /\ token' = token) \/ (token' = hold[p] /\ p \in InUse)
    <3>1. CASE refreshToken(p) \/ LoginAnswered(p)
      BY <3>1 DEF refreshToken, LoginAnswered, cacheVars
    <3> QED BY <1>4, <3>1, NothingNew DEF InUse, Unsaved
  <2>4. LoginSticks'
    BY <1>4, <2>1, <2>2, <2>3 DEF LoginSticks, SettledOK
  <2>5. SettledOK(p)'
    <3> USE DEF TypeOK, ProcsOK, Go
    <3>1. CASE refreshToken(p)
      <4>1. pc'[p] = "save" /\ job'[p] = job[p] /\ hold'[p].login = hold[p].login /\ p \in InUse
        BY <3>1 DEF refreshToken, RefreshedToken, Fresh, InUse
      <4> QED BY <1>4, <2>1, <2>2, <4>1 DEF SettledOK
    <3>2. CASE TruncateCache(p) \/ WriteCache(p)
      BY <1>4, <2>1, <2>2, <3>2 DEF TruncateCache, WriteCache, SettledOK, InUse, memoryVars
    <3>3. CASE SaveFails(p)
      <4>1. p \in InUse
        BY <3>3 DEF SaveFails, InUse, Unsaved
      <4>2. GoesOn(p)
        BY <1>4, <2>1, <4>1 DEF GoesOn, SettledOK
      <4>3. pc'[p] = "print"
        BY <3>3, <4>2 DEF SaveFails, GoesOn
      <4> QED BY <4>3 DEF SettledOK, InUse
    <3>4. CASE RefreshFails(p) \/ RefreshLost(p) \/ PrintCredential(p) \/ LoginGivesUp(p) \/ MergeFails(p)
      BY <1>2, <3>4, SlotFreed DEF RefreshFails, RefreshLost, PrintCredential, LoginGivesUp, MergeFails, Ended
    <3>5. CASE LoginAnswered(p) \/ LoadKube(p) \/ TruncateKube(p)
      BY <1>4, <2>1, <3>5 DEF LoginAnswered, LoadKube, TruncateKube, SettledOK
    <3> QED BY <1>4, <3>1, <3>2, <3>3, <3>4, <3>5 DEF Continue
  <2> QED BY <1>1, <1>4, <2>2, <2>4, <2>5
<1>5. ASSUME NEW p \in Procs, Continue(p), ~WriteKube(p), ~EditKube(p), settled = 0
      PROVE (\A q \in Procs : SettledOK(q)') /\ LoginSticks'
  <2>1. settled' = settled
    BY <1>5 DEF Continue, refreshToken, RefreshFails, RefreshLost, PrintCredential, TruncateCache, SaveFails,
         LoginAnswered, LoginGivesUp, LoadKube, TruncateKube, WriteCache, MergeFails, historyVars, kubeHistory
  <2> QED BY <1>5, <2>1 DEF SettledOK, LoginSticks
<1>6. ASSUME NEW p \in Procs, WriteKube(p) PROVE (\A q \in Procs : SettledOK(q)') /\ LoginSticks'
  <2>1. CASE p \notin alone
    BY <1>6, <2>1 DEF WriteKube, SettledOK, LoginSticks
  <2>2. CASE p \in alone
    <3>1. /\ kube' = Merged(p) /\ settled' = hold[p].login /\ file' = file /\ token' = token
          /\ Finish(p, "idle") /\ pc[p] = "kube"
      BY <1>6, <2>2 DEF WriteKube, AloneOK, cacheVars
    <3>2. kube'.login = hold[p].login /\ kube'.exec = (job[p] = "login")
      BY <3>1 DEF Merged
    <3>3. ASSUME NEW q \in Procs PROVE pc'[q] \in Ended
      BY <1>6, <2>2, <3>1, OwnSlot, SlotFreed DEF Continue, AloneOK, Active, Ended
    <3>4. LoginSticks'
      BY <2>2, <3>1, <3>2 DEF LoginSticks, AloneOK
    <3> QED BY <1>2, <3>3, <3>4
  <2> QED BY <2>1, <2>2
<1>7. ASSUME NEW p \in Procs, EditKube(p) PROVE (\A q \in Procs : SettledOK(q)') /\ LoginSticks'
  <2>1. /\ settled' = settled /\ file' = file /\ token' = token /\ pc[p] = "edit" /\ pc'[p] \in Ended
        /\ kube'.login = base[p].login /\ kube'.exec = base[p].exec
    BY <1>7, KubeFacts, SlotFreed DEF EditKube, cacheVars, WithEntries, Ended
  <2>2. settled > 0 => kube'.login = kube.login /\ kube'.exec = kube.exec
    BY <2>1 DEF SettledOK
  <2>3. ASSUME NEW q \in Procs \ {p} PROVE SettledOK(q)'
    BY <1>7, <2>1, <2>2, OwnSlot DEF Continue, SettledOK, InUse
  <2> QED BY <1>2, <2>1, <2>2, <2>3 DEF LoginSticks
<1>8. ASSUME NEW p \in Procs, Killed(p) PROVE (\A q \in Procs : SettledOK(q)') /\ LoginSticks'
  <2>1. kube' = kube /\ settled' = settled /\ file' = file /\ token' = token /\ pc'[p] \in Ended
    BY <1>8, SlotFreed DEF Killed, cacheVars, Ended
  <2> QED BY <1>1, <1>2, <1>8, <2>1 DEF LoginSticks
<1>9. CASE Tick \/ UNCHANGED vars
  BY <1>9 DEF Tick, vars, cacheVars, procVars, memoryVars, historyVars, kubeHistory, SettledOK, LoginSticks, InUse
<1> QED BY <1>3, <1>4, <1>5, <1>6, <1>7, <1>8, <1>9 DEF Next, TypeOK

(* What is saved or printed was looked at, or received, a moment ago.      *)
LEMMA ShelfLifeStays ==
  ASSUME TypeOK, ShelfLife, [Next]_vars
  PROVE ShelfLife'
<1> DEFINE Lasts(since_p, t) == since_p + Grace <= t.dies \/ ToldTooLate(t)
<1>0. Grace \in Nat /\ Grace <= Margin /\ Grace <= IdLife
  BY LifeType, MarginType DEF Grace
<1>1. ASSUME NEW p \in Procs, Start(p) \/ Continue(p) \/ Killed(p),
             pc'[p] \in {"save", "write", "print"} => Lasts(since'[p], hold'[p])
      PROVE ShelfLife'
  BY <1>0, <1>1, OwnSlot DEF ShelfLife, ToldTooLate, Grace
<1>2. ASSUME NEW p \in Procs, Start(p) PROVE ShelfLife'
  <2> USE DEF TypeOK, ProcsOK, Begin, Go, cacheVars, memoryVars
  <2>1. CASE GetToken(p)
    <3>1. token \in Token /\ hold'[p] = token /\ since'[p] = now
      BY <2>1 DEF GetToken, Usable
    <3>2. pc'[p] = "print" => now + Margin <= token.exp
      BY <2>1, <3>1, TokenFields, MarginType DEF GetToken, isExpired
    <3>3. pc'[p] \in {"refresh", "print"}
      BY <2>1 DEF GetToken
    <3>4. pc'[p] = "print" => Lasts(now, token)
      BY <1>0, <3>1, <3>2, TokenFields, MarginType DEF ToldTooLate
    <3> QED BY <1>1, <1>2, <3>1, <3>3, <3>4
  <2>2. CASE GetTokenFails(p) \/ BeginLogin(p) \/ BeginEdit(p) \/ StaticTokenLogin(p)
    <3>1. pc'[p] \in {"refused", "waiting", "edit", "load"}
      BY <2>2 DEF GetTokenFails, BeginLogin, BeginEdit, StaticTokenLogin
    <3> QED BY <1>1, <1>2, <3>1
  <2> QED BY <1>2, <2>1, <2>2 DEF Start
<1>3. ASSUME NEW p \in Procs, Continue(p) PROVE ShelfLife'
  <2> USE DEF TypeOK, ProcsOK, Go, cacheVars, memoryVars
  <2>1. CASE refreshToken(p) \/ LoginAnswered(p)
    <3>1. since'[p] = now /\ hold'[p].dies = now + IdLife
      BY <2>1 DEF refreshToken, RefreshedToken, LoginAnswered, Fresh
    <3>2. Lasts(since'[p], hold'[p])
      BY <1>0, <3>1, LifeType
    <3> QED BY <1>1, <1>3, <3>2
  <2>2. CASE TruncateCache(p) \/ WriteCache(p) \/ (SaveFails(p) /\ GoesOn(p))
    <3>1. hold'[p] = hold[p] /\ since'[p] = since[p] /\ pc[p] \in {"save", "write"}
      BY <2>2 DEF TruncateCache, WriteCache, SaveFails, Unsaved
    <3> QED BY <1>1, <1>3, <3>1 DEF ShelfLife
  <2>3. CASE LoadKube(p) \/ TruncateKube(p)
    <3>1. pc'[p] \in {"merge", "kube"}
      BY <2>3 DEF LoadKube, TruncateKube
    <3> QED BY <1>1, <1>3, <3>1
  <2>4. ASSUME NEW how \in Ended, Finish(p, how) PROVE ShelfLife'
    BY <1>1, <1>3, <2>4, SlotFreed DEF Ended
  <2>5. CASE RefreshFails(p) \/ RefreshLost(p) \/ PrintCredential(p) \/ LoginGivesUp(p)
             \/ WriteKube(p) \/ MergeFails(p) \/ EditKube(p) \/ (SaveFails(p) /\ ~GoesOn(p))
    <3>1. \E how \in Ended : Finish(p, how)
      BY <2>5 DEF RefreshFails, RefreshLost, PrintCredential, LoginGivesUp, WriteKube, MergeFails, EditKube,
                  SaveFails, Ended
    <3> QED BY <2>4, <3>1
  <2> QED BY <1>3, <2>1, <2>2, <2>3, <2>5 DEF Continue
<1>4. ASSUME NEW p \in Procs, Killed(p) PROVE ShelfLife'
  BY <1>1, <1>4, SlotFreed DEF Killed, cacheVars, Ended
<1>5. CASE Tick \/ UNCHANGED vars
  BY <1>5 DEF Tick, vars, cacheVars, procVars, memoryVars, ShelfLife, ToldTooLate, Grace
<1> QED BY <1>2, <1>3, <1>4, <1>5 DEF Next

-----------------------------------------------------------------------------
(* The inductive invariant: who has which refresh token, which command is  *)
(* where, what a process that is alone may rely on, and how long tokens    *)
(* last.                                                                   *)
THEOREM CliInvariant == Spec => []CliInv
<1>1. Init => CliInv
  BY BoundsType, KubeFacts
  DEF Init, CliInv, GrantsOK, SessionKept, JobOK, SettledOK, AloneOK, LoginSticks, EntriesKept, ShelfLife,
      InUse, Ended, NoToken, StaticToken
<1>2. TypeOK /\ TypeOK' /\ CliInv /\ [Next]_vars => CliInv'
  BY JobsFit, GrantsStay, SessionStays, AloneStays, EntriesStay, SettledStays, ShelfLifeStays DEF CliInv
<1> QED BY <1>1, <1>2, TypeCorrect, PTL DEF Spec

(* Two get-token processes never undo each other's refresh: the cache has  *)
(* the refresh token that the provider takes, unless a newer one is being  *)
(* saved or went astray.                                                   *)
THEOREM SessionKeptHolds == Spec => []SessionKept
  BY CliInvariant, PTL DEF CliInv

(* After a login that has run alone, the context and the cached tokens are *)
(* its own until the next one.                                             *)
THEOREM LoginSticksHolds == Spec => []LoginSticks
  BY CliInvariant, PTL DEF CliInv

(* A login that runs alone leaves the rest of the kubeconfig as it was.    *)
THEOREM EntriesKeptHolds == Spec => []EntriesKept
  BY CliInvariant, PTL DEF CliInv

(* What get-token prints is good for the margin, for any lifetimes of      *)
(* access and ID tokens, unless it was told a later expiry than the ID     *)
(* token has.                                                              *)
THEOREM PrintedIsLiveHolds == Spec => []PrintedIsLive
<1>1. TypeOK /\ CliInv => PrintedIsLive
  <2> SUFFICES ASSUME TypeOK, CliInv, NEW p \in Procs, pc[p] = "print", ~(now > since[p] + Grace),
                      ~ToldTooLate(hold[p])
               PROVE now <= hold[p].dies
    BY DEF PrintedIsLive
  <2>1. since[p] + Grace <= hold[p].dies /\ hold[p].dies \in Nat
    BY TokenFields DEF CliInv, ShelfLife, TypeOK, ProcsOK, Ended
  <2>2. Grace \in Nat /\ since[p] \in Nat /\ now \in Nat
    BY LifeType, MarginType DEF Grace, TypeOK, ProcsOK
  <2> QED BY <2>1, <2>2
<1> QED BY <1>1, TypeCorrect, CliInvariant, PTL
=============================================================================
