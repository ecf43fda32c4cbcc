----------------------------- MODULE CliTokenCache -----------------------------
(***************************************************************************)
(* platform-cli (platform/cmd/cli/main.go): the processes of one user on   *)
(* one machine, which share two files and no lock.                         *)
(*                                                                         *)
(*   login               waits for the browser, saves the tokens in the    *)
(*                       cache and merges a context into the kubeconfig    *)
(*   login --token       only merges a context                             *)
(*   get-token           run by kubectl for every command: reads the       *)
(*                       cache, and refreshes and saves what has expired   *)
(*                                                                         *)
(* A file is read in one piece and written with os.WriteFile, which first  *)
(* empties it.  Every process can be killed between any two calls.         *)
(*                                                                         *)
(* External: the identity provider, which may invalidate a refresh token   *)
(* when it is used, and kubectl config, which edits the kubeconfig.        *)
(***************************************************************************)
EXTENDS Naturals

CONSTANTS
  Procs,     \* process slots, each runs one command after the other
  Entries,   \* entries of the kubeconfig that are not the platform's
  Life,      \* expires_in of the provider (of the access token), in units of time
  IdLife,    \* how long an ID token is accepted
  Margin,    \* the 30 seconds of isExpired
  MaxLogins, \* bound on logins
  MaxSerial, \* bound on the refresh tokens of one login
  MaxTime    \* bound on the clock

ASSUME LifeType == Life \in Nat /\ IdLife \in Nat
ASSUME MarginType == Margin \in Nat
ASSUME BoundsType == MaxLogins \in Nat /\ MaxSerial \in Nat \ {0} /\ MaxTime \in Nat

VARIABLES
  now,      \* the clock
  provider, \* provider: which of Features it has
  logins,   \* provider: number of logins so far
  newest,   \* provider: the refresh token it takes, per login; 0 for none
  file,     \* the token cache: "absent", "empty", "garbled" or "good"
  token,    \* what it holds when it is good
  kube,     \* the kubeconfig
  pc,       \* where each process is
  job,      \* its command
  hold,     \* tokens it has in memory
  base,     \* the kubeconfig it has read
  since,    \* when it has got its tokens
  alone,    \* history: the process that no other has run beside, if any
  settled,  \* history: the last login, if it has run alone; otherwise 0
  entered,  \* history: entries of the last kubectl config
  intact,   \* history: every change of the kubeconfig since was made alone
  lost      \* history: logins whose newest refresh token went astray

providerVars == <<provider, logins, newest>>
cacheVars == <<file, token>>
memoryVars == <<hold, base, since>>
procVars == <<pc, job, memoryVars>>
kubeHistory == <<settled, entered, intact>>
historyVars == <<alone, kubeHistory, lost>>
vars == <<now, providerVars, cacheVars, kube, procVars, historyVars>>

Logins == 1..MaxLogins
Token == [login : Logins, serial : 0..MaxSerial, exp : Nat, dies : Nat]
StaticToken(n) == [login |-> n, serial |-> 0, exp |-> 0, dies |-> 0]
NoToken == StaticToken(0)

(* The platform's part of a kubeconfig is of one login, and names get-token *)
(* (exec) or contains a static token.  An empty or broken file reads as    *)
(* NoKube: GetStartingConfig of a broken file fails, and mergeKubeconfig   *)
(* starts from an empty one.                                               *)
Kube == [login : 0..MaxLogins, exec : BOOLEAN, entries : SUBSET Entries]
NoKube == [login |-> 0, exec |-> FALSE, entries |-> {}]
WithEntries(k, content) == [login |-> k.login, exec |-> k.exec, entries |-> content]

(* A provider gives refresh tokens to this client or does not ("refresh"), *)
(* takes each of them only once ("rotate"), says when tokens expire        *)
(* ("expire").                                                             *)
Features == {"refresh", "rotate", "expire"}

Ended == {"idle", "refused"}
Active == {p \in Procs : pc[p] \notin Ended}

Init ==
  /\ now = 1
  /\ provider \in SUBSET Features
  /\ logins = 0 /\ newest = [n \in Logins |-> 0]
  /\ file = "absent" /\ token = NoToken
  /\ entered \in SUBSET Entries
  /\ kube = WithEntries(NoKube, entered)
  /\ pc = [p \in Procs |-> "idle"]
  /\ job = [p \in Procs |-> "get"]
  /\ hold = [p \in Procs |-> NoToken]
  /\ base = [p \in Procs |-> NoKube]
  /\ since = [p \in Procs |-> 0]
  /\ alone = {} /\ settled = 0 /\ intact = TRUE
  /\ lost = {}

-----------------------------------------------------------------------------
(* Beginning and end of a process.                                         *)

Begin(p, command) ==
  /\ pc[p] \in Ended
  /\ job' = [job EXCEPT ![p] = command]
  /\ alone' = IF Active = {} THEN {p} ELSE {}

Go(p, where) == pc' = [pc EXCEPT ![p] = where]

Finish(p, how) ==
  /\ Go(p, how)
  /\ job' = [job EXCEPT ![p] = "get"]
  /\ alone' = alone \ {p}
  /\ hold' = [hold EXCEPT ![p] = NoToken]
  /\ base' = [base EXCEPT ![p] = NoKube]
  /\ since' = [since EXCEPT ![p] = 0]

(* Tokens that are nowhere but in the memory of a process.                 *)
Unsaved(p) == pc[p] \in {"save", "write"}
Lose(p) == lost' = IF Unsaved(p) THEN lost \cup {hold[p].login} ELSE lost

(* A change of the kubeconfig that was not made alone, or not to the end.  *)
Disturb(happened) ==
  /\ intact' = (intact /\ ~happened)
  /\ entered' = IF happened THEN {} ELSE entered

(* The system ends the process, or Ctrl-C where it waits for the browser   *)
(* or the provider.                                                        *)
Killed(p) ==
  /\ p \in Active
  /\ Finish(p, "idle")
  /\ Lose(p)
  /\ Disturb(pc[p] = "kube")
  /\ UNCHANGED <<now, providerVars, cacheVars, kube, settled>>

-----------------------------------------------------------------------------
(* get-token.                                                              *)

(* Mutant of isExpired: no margin.                                         *)
isExpired_NoMargin(t) == now > t.exp
isExpired(t) == now + Margin > t.exp

(* The cache can be read, and what is in it is good or can be refreshed.   *)
Usable == file = "good" /\ (isExpired(token) => token.serial > 0)

GetTokenFails(p) ==
  /\ Begin(p, "get")
  /\ ~Usable
  /\ Go(p, "refused")
  /\ UNCHANGED <<now, providerVars, cacheVars, kube, memoryVars, kubeHistory, lost>>

GetToken(p) ==
  /\ Begin(p, "get")
  /\ Usable
  /\ Go(p, IF isExpired(token) THEN "refresh" ELSE "print")
  /\ hold' = [hold EXCEPT ![p] = token]
  /\ since' = [since EXCEPT ![p] = now]
  /\ UNCHANGED <<now, providerVars, cacheVars, kube, base, kubeHistory, lost>>

(* The provider's answer: a new ID token, an expiry or the zero time, and  *)
(* a new refresh token or none, in which case the old one is kept.         *)
(* Mutant: the new refresh token is not taken over.                        *)
Fresh(n, s) ==
  [login |-> n, serial |-> s, dies |-> now + IdLife,
   exp |-> IF "expire" \in provider THEN now + Life ELSE 0]
Taken(t) == t.serial = newest[t.login]
NextSerial(t) == IF "rotate" \in provider THEN t.serial + 1 ELSE t.serial
RefreshedToken_KeepsOld(t) == Fresh(t.login, t.serial)
RefreshedToken(t) == Fresh(t.login, NextSerial(t))

Rotate(t) ==
  /\ Taken(t)
  /\ NextSerial(t) <= MaxSerial
  /\ newest' = [newest EXCEPT ![t.login] = NextSerial(t)]

refreshToken(p) ==
  /\ pc[p] = "refresh"
  /\ Rotate(hold[p])
  /\ hold' = [hold EXCEPT ![p] = RefreshedToken(hold[p])]
  /\ since' = [since EXCEPT ![p] = now]
  /\ Go(p, "save")
  /\ UNCHANGED <<now, provider, logins, cacheVars, kube, job, base, historyVars>>

(* The refresh token is no longer taken, or the call fails ("idle").       *)
RefreshFails(p) ==
  /\ pc[p] = "refresh"
  /\ Finish(p, IF Taken(hold[p]) THEN "idle" ELSE "refused")
  /\ UNCHANGED <<now, providerVars, cacheVars, kube, kubeHistory, lost>>

(* The answer does not arrive, or has no ID token.                         *)
RefreshLost(p) ==
  /\ pc[p] = "refresh"
  /\ Rotate(hold[p])
  /\ lost' = lost \cup {hold[p].login}
  /\ Finish(p, "idle")
  /\ UNCHANGED <<now, provider, logins, cacheVars, kube, kubeHistory>>

PrintCredential(p) ==
  /\ pc[p] = "print"
  /\ Finish(p, "idle")
  /\ UNCHANGED <<now, providerVars, cacheVars, kube, kubeHistory, lost>>

-----------------------------------------------------------------------------
(* saveTokenCache.                                                         *)

TruncateCache(p) ==
  /\ pc[p] = "save"
  /\ file' = "empty" /\ token' = NoToken
  /\ Go(p, "write")
  /\ UNCHANGED <<now, providerVars, kube, job, memoryVars, historyVars>>

(* If another process has written since, what it wrote may stick out       *)
(* behind what is written now.                                             *)
WriteCache(p) ==
  /\ pc[p] = "write"
  /\ file' \in IF file = "empty" THEN {"good"} ELSE {"good", "garbled"}
  /\ token' = IF file' = "good" THEN hold[p] ELSE NoToken
  /\ Go(p, IF job[p] = "get" THEN "print" ELSE "load")
  /\ UNCHANGED <<now, providerVars, kube, job, memoryVars, historyVars>>

(* Only get-token goes on when the cache cannot be written.  Mutant: so    *)
(* does login.                                                             *)
GoesOn_Always(p) == TRUE
GoesOn(p) == job[p] = "get"

SaveFails(p) ==
  /\ Unsaved(p)
  /\ IF pc[p] = "write" THEN file' \in {file, "garbled"} ELSE UNCHANGED file
  /\ token' = IF file' = "good" THEN token ELSE NoToken
  /\ Lose(p)
  /\ IF GoesOn(p) THEN /\ Go(p, IF job[p] = "get" THEN "print" ELSE "load")
                       /\ UNCHANGED <<job, memoryVars, alone>>
                  ELSE Finish(p, "idle")
  /\ UNCHANGED <<now, providerVars, kube, kubeHistory>>

-----------------------------------------------------------------------------
(* login.                                                                  *)

BeginLogin(p) ==
  /\ Begin(p, "login")
  /\ Go(p, "waiting")
  /\ settled' = 0
  /\ UNCHANGED <<now, providerVars, cacheVars, kube, memoryVars, entered, intact, lost>>

(* The browser delivers the tokens to the callback.                        *)
LoginAnswered(p) ==
  /\ pc[p] = "waiting"
  /\ logins < MaxLogins
  /\ logins' = logins + 1
  /\ newest' = [newest EXCEPT ![logins'] = IF "refresh" \in provider THEN 1 ELSE 0]
  /\ hold' = [hold EXCEPT ![p] = Fresh(logins', newest'[logins'])]
  /\ since' = [since EXCEPT ![p] = now]
  /\ Go(p, "save")
  /\ UNCHANGED <<now, provider, cacheVars, kube, job, base, historyVars>>

(* An unusable callback, an error of the local server, or 5 minutes.       *)
LoginGivesUp(p) ==
  /\ pc[p] = "waiting"
  /\ Finish(p, "idle")
  /\ UNCHANGED <<now, providerVars, cacheVars, kube, kubeHistory, lost>>

(* login --token: the server has accepted the token.                       *)
StaticTokenLogin(p) ==
  /\ Begin(p, "static")
  /\ logins < MaxLogins
  /\ logins' = logins + 1
  /\ hold' = [hold EXCEPT ![p] = StaticToken(logins')]
  /\ settled' = 0
  /\ Go(p, "load")
  /\ UNCHANGED <<now, provider, newest, cacheVars, kube, base, since, entered, intact, lost>>

-----------------------------------------------------------------------------
(* mergeKubeconfig.                                                        *)

LoadKube(p) ==
  /\ pc[p] = "load"
  /\ base' = [base EXCEPT ![p] = kube]
  /\ Go(p, "merge")
  /\ UNCHANGED <<now, providerVars, cacheVars, kube, job, hold, since, historyVars>>

TruncateKube(p) ==
  /\ pc[p] = "merge"
  /\ kube' = NoKube
  /\ Go(p, "kube")
  /\ UNCHANGED <<now, providerVars, cacheVars, job, memoryVars, historyVars>>

(* Mutant of Merged: the new configuration replaces the existing one.      *)
Merged_Replaces(p) == [login |-> hold[p].login, exec |-> job[p] = "login", entries |-> {}]
Merged(p) == [login |-> hold[p].login, exec |-> job[p] = "login", entries |-> base[p].entries]

WriteKube(p) ==
  /\ pc[p] = "kube"
  /\ kube' \in IF kube = NoKube THEN {Merged(p)} ELSE {Merged(p), NoKube}
  /\ settled' = IF p \in alone THEN hold[p].login ELSE 0
  /\ Disturb(p \notin alone)
  /\ Finish(p, "idle")
  /\ UNCHANGED <<now, providerVars, cacheVars, lost>>

MergeFails(p) ==
  /\ pc[p] \in {"merge", "kube"}
  /\ Disturb(pc[p] = "kube")
  /\ Finish(p, "idle")
  /\ UNCHANGED <<now, providerVars, cacheVars, kube, settled, lost>>

(* kubectl config, which does not see the CLI's writes.                    *)
BeginEdit(p) ==
  /\ Begin(p, "edit")
  /\ base' = [base EXCEPT ![p] = kube]
  /\ Go(p, "edit")
  /\ UNCHANGED <<now, providerVars, cacheVars, kube, hold, since, kubeHistory, lost>>

EditKube(p) ==
  /\ pc[p] = "edit"
  /\ \E content \in SUBSET Entries :
       /\ kube' = WithEntries(base[p], content)
       /\ entered' = IF p \in alone THEN content ELSE {}
  /\ intact' = (p \in alone)
  /\ Finish(p, "idle")
  /\ UNCHANGED <<now, providerVars, cacheVars, settled, lost>>

Tick ==
  /\ now < MaxTime
  /\ now' = now + 1
  /\ UNCHANGED <<providerVars, cacheVars, kube, procVars, historyVars>>

-----------------------------------------------------------------------------
Start(p) ==
  \/ GetTokenFails(p) \/ GetToken(p)
  \/ BeginLogin(p) \/ StaticTokenLogin(p) \/ BeginEdit(p)

Continue(p) ==
  \/ refreshToken(p) \/ RefreshFails(p) \/ RefreshLost(p) \/ PrintCredential(p)
  \/ TruncateCache(p) \/ WriteCache(p) \/ SaveFails(p)
  \/ LoginAnswered(p) \/ LoginGivesUp(p)
  \/ LoadKube(p) \/ TruncateKube(p) \/ WriteKube(p) \/ MergeFails(p)
  \/ EditKube(p)

Next ==
  \/ \E p \in Procs : Start(p) \/ Continue(p) \/ Killed(p)
  \/ Tick

Spec == Init /\ [][Next]_vars

-----------------------------------------------------------------------------
(* Properties.                                                             *)

Places == Ended \cup {"refresh", "print", "save", "write", "waiting", "load", "merge", "kube", "edit"}

ProcsOK ==
  /\ pc \in [Procs -> Places]
  /\ job \in [Procs -> {"get", "login", "static", "edit"}]
  /\ hold \in [Procs -> Token \cup {NoToken}]
  /\ \A p \in Procs : pc[p] \notin Ended \cup {"waiting", "edit"} => hold[p] \in Token
  /\ base \in [Procs -> Kube]
  /\ since \in [Procs -> Nat]
  /\ alone \in SUBSET Procs

TypeOK ==
  /\ now \in Nat \ {0}
  /\ provider \in SUBSET Features /\ logins \in 0..MaxLogins
  /\ newest \in [Logins -> 0..MaxSerial]
  /\ file \in {"absent", "empty", "garbled", "good"}
  /\ token \in Token \cup {NoToken} /\ (file = "good" => token \in Token)
  /\ kube \in Kube
  /\ ProcsOK
  /\ settled \in 0..MaxLogins
  /\ entered \in SUBSET Entries /\ intact \in BOOLEAN
  /\ lost \in SUBSET Logins

(* The credential get-token prints is good for the margin after it was     *)
(* read or refreshed, whatever the processes of others have done to the    *)
(* cache, and also if the provider has not said when it expires; unless    *)
(* the expiry it was told is later than the ID token's own: it is the      *)
(* access token's (handler.go:380, main.go:244).                           *)
Grace == IF Margin < IdLife THEN Margin ELSE IdLife
ToldTooLate(t) == t.exp > t.dies
PrintedIsLive ==
  \A p \in Procs :
    pc[p] = "print" =>
      now <= hold[p].dies \/ now > since[p] + Grace \/ ToldTooLate(hold[p])

(* The session is kept: the refresh token in the cache is the one that the *)
(* provider takes, unless a process is about to save a newer one or has    *)
(* failed to.  Two processes never undo each other's refresh, although     *)
(* both have started from the same cache.                                  *)
SessionKept ==
  file = "good" =>
    \/ Taken(token)
    \/ token.login \in lost
    \/ \E p \in Procs : Unsaved(p) /\ hold[p].login = token.login

(* A login that runs alone sticks: until the next one, the context and the *)
(* cached tokens are both its own, whatever get-token processes do at the  *)
(* same time.                                                              *)
LoginSticks ==
  settled > 0 =>
    /\ kube.login = settled
    /\ kube.exec /\ file = "good" => token.login = settled

(* What other programs keep in the kubeconfig survives logins that run     *)
(* alone and complete.                                                     *)
EntriesKept ==
  intact => kube.entries = entered \/ \E p \in Procs : pc[p] = "kube"

(* The inductive invariant behind these.                                   *)
(* A refresh token in use is one the provider has given, and still the     *)
(* newest if it is not saved yet; one that is replaced when it is used is  *)
(* then in one hand only.                                                  *)
InUse == {p \in Procs : pc[p] \in {"refresh", "save", "write"}}
SameGrant(t, u) == t.login = u.login /\ t.serial = u.serial
Given(t) ==
  /\ t.login <= logins
  /\ t.serial <= newest[t.login]
  /\ "rotate" \notin provider => Taken(t)
OneHand(p) ==
  Unsaved(p) /\ "rotate" \in provider /\ hold[p].serial > 0 =>
    /\ file = "good" => ~SameGrant(token, hold[p])
    /\ \A q \in InUse \ {p} : ~SameGrant(hold[q], hold[p])
GrantsOK ==
  /\ file = "good" => Given(token)
  /\ \A p \in InUse : Given(hold[p]) /\ (Unsaved(p) => Taken(hold[p])) /\ OneHand(p)

(* A process that runs alone finds the files as it has left them.          *)
JobOK(p) ==
  /\ pc[p] = "refresh" => job[p] = "get" /\ hold[p].serial > 0
  /\ pc[p] = "waiting" => job[p] = "login"
  /\ pc[p] \in {"save", "write"} => job[p] \in {"get", "login"}
  /\ pc[p] \in {"load", "merge", "kube"} => job[p] \in {"login", "static"}
  /\ pc[p] \notin Ended \cup {"waiting", "edit"} => hold[p].login \in 1..logins
AloneOK(p) ==
  /\ alone = {p} /\ Active \subseteq {p}
  /\ pc[p] = "write" => file = "empty"
  /\ pc[p] \in {"load", "merge", "kube"} /\ job[p] = "login" =>
       file = "good" /\ token.login = hold[p].login
  /\ pc[p] = "kube" => kube = NoKube
  /\ pc[p] \in {"merge", "kube"} /\ intact => base[p].entries = entered

(* Nobody that is active after a settled login has tokens of another one.  *)
SettledOK(p) ==
  settled > 0 =>
    /\ pc[p] \notin {"waiting", "load", "merge", "kube"}
    /\ p \in InUse => job[p] = "get" /\ (kube.exec => hold[p].login = settled)
    /\ pc[p] = "edit" => base[p].login = kube.login /\ base[p].exec = kube.exec

(* A token that is saved or printed lasts for the margin, if it lasts as   *)
(* long as was said.                                                       *)
ShelfLife ==
  \A p \in Procs :
    pc[p] \in {"save", "write", "print"} =>
      since[p] + Grace <= hold[p].dies \/ ToldTooLate(hold[p])

CliInv ==
  /\ GrantsOK /\ SessionKept
  /\ \A p \in Procs : JobOK(p) /\ SettledOK(p)
  /\ \A p \in alone : AloneOK(p)
  /\ LoginSticks /\ EntriesKept
  /\ ShelfLife

(* "Tokens are cached locally and refreshed automatically."                *)
(* (02-platform.md:226): after a login that has run alone, and as long as  *)
(* its refresh token has not gone astray, nobody is asked for another one. *)
RefreshedAutomatically ==
  [][settled' > 0 /\ kube'.exec /\ "refresh" \in provider /\ settled' \notin lost' =>
       \A p \in Procs : pc'[p] = "refused" => pc[p] = "refused"]_vars
=============================================================================
