-------------------------- MODULE ServerStart_proofs --------------------------
(***************************************************************************)
(* Theorems about the start of a platform server: its bootstrap of kcp     *)
(* (Bootstrap), for any number of servers and any files; its lifecycle     *)
(* (ServerLifecycle); and the two together (ServerStart).                  *)
(***************************************************************************)
EXTENDS ServerStart, TLAPS


(* The parts of the state of a server that a pass changes stay well typed. *)
LEMMA AdvanceTypes ==
  ASSUME TypeOK, NEW s \in Servers, NEW n \in Names, NEW ok \in BOOLEAN, Advance(s, n, ok)
  PROVE  /\ pc' \in [Servers -> {"create", "get", "update", "wait", "ensure", "done", "failed"}]
         /\ stage' \in [Servers -> Stages]
         /\ todo' \in [Servers -> SUBSET Names]
         /\ errs' \in [Servers -> BOOLEAN]
         /\ cache' \in [Servers -> {"empty", "stale", "good"}]
         /\ \A t \in Servers \ {s} : pc'[t] = pc[t]
<1> USE NamesType DEF TypeOK
<1>1. Files[stage[s]] \in SUBSET Names
  OBVIOUS
<1>2. CASE todo[s] # {n}
  <2>1. (errs[s] \/ ~ok) \in BOOLEAN
    OBVIOUS
  <2>2. errs' = [errs EXCEPT ![s] = errs[s] \/ ~ok]
    BY <1>2 DEF Advance
  <2>3. errs' \in [Servers -> BOOLEAN]
    BY <2>1, <2>2, Zenon
  <2>4. QED
    BY <1>2, <2>3 DEF Advance
<1>3. CASE todo[s] = {n}
  BY <1>1, <1>3 DEF Advance, EndPass
<1>4. QED
  BY <1>2, <1>3

LEMMA LeaveTypes ==
  ASSUME TypeOK, NEW s \in Servers, NEW where \in {"create", "ensure"}, NEW i \in Stages,
         NEW work \in SUBSET Names, Leave(s, where, i, work)
  PROVE  /\ pc' \in [Servers -> {"create", "get", "update", "wait", "ensure", "done", "failed"}]
         /\ stage' \in [Servers -> Stages]
         /\ todo' \in [Servers -> SUBSET Names]
         /\ errs' \in [Servers -> BOOLEAN]
         /\ cache' \in [Servers -> {"empty", "stale", "good"}]
         /\ \A t \in Servers \ {s} : pc'[t] = pc[t]
  BY DEF TypeOK, Leave

(* The state is well typed for any servers and files.                      *)
THEOREM TypeCorrect == Spec => []TypeOK
<1>1. Init => TypeOK
  <2> SUFFICES ASSUME Init PROVE TypeOK
    OBVIOUS
  <2>1. 1 \in Stages /\ Files[1] \in SUBSET Names
    BY NamesType DEF Stages
  <2>2. /\ stage \in [Servers -> Stages]
        /\ todo \in [Servers -> SUBSET Names]
    BY <2>1 DEF Init
  <2>3. QED
    BY <2>2 DEF Init, TypeOK
<1>2. TypeOK /\ [Next]_vars => TypeOK'
  <2> SUFFICES ASSUME TypeOK, [Next]_vars PROVE TypeOK'
    OBVIOUS
  <2> USE DEF TypeOK, kcpVars, placeVars, historyVars, Trouble, Answer
  <2>0. \A n : Outdate(n) => fresh' \subseteq fresh
    BY DEF Outdate
  <2>1. ASSUME NEW s \in Servers, NEW n \in Names, FileStep(s, n) PROVE TypeOK'
    <3>1. CASE NoMatch(s, n)
      BY <3>1, AdvanceTypes DEF NoMatch
    <3>2. CASE AlreadyExists(s, n)
      BY <3>2 DEF AlreadyExists
    <3>3. CASE GetCreateOnly(s, n)
      BY <3>3, AdvanceTypes DEF GetCreateOnly
    <3>4. CASE Get(s, n)
      BY <3>4 DEF Get
    <3>5. ASSUME NEW ok \in BOOLEAN, Create(s, n, ok) PROVE TypeOK'
      <4>1. createOnly' \in SUBSET Names /\ troubles' \in Nat
        BY <3>5, NamesType DEF Create, Marked
      <4>2. QED
        BY <3>5, <4>1, AdvanceTypes DEF Create
    <3>6. ASSUME NEW ok \in BOOLEAN, Update(s, n, ok) PROVE TypeOK'
      <4>1. createOnly' \in SUBSET Names /\ troubles' \in Nat
        BY <3>6, NamesType DEF Update, Marked
      <4>2. fresh' \subseteq fresh \ {s}
        BY <3>6 DEF Update, Outdate
      <4>3. QED
        BY <3>6, <4>1, <4>2, AdvanceTypes DEF Update
    <3>7. CASE Conflict(s, n)
      <4>1. s \notin fresh
        BY <3>7 DEF Conflict, Accepted
      <4>2. Advance(s, n, FALSE) /\ UNCHANGED <<kcpVars, fresh, historyVars, troubles>>
        BY <3>7 DEF Conflict
      <4>3. QED
        BY <4>1, <4>2, AdvanceTypes
    <3>8. CASE CallFails(s, n)
      <4>1. Advance(s, n, FALSE) /\ UNCHANGED <<kcpVars, removed>>
        BY <3>8 DEF CallFails
      <4>2. troubles' \in Nat /\ failed' \in SUBSET Names
        BY <3>8 DEF CallFails
      <4>3. fresh' = fresh \ {s}
        BY <3>8 DEF CallFails
      <4>4. fresh' \in SUBSET {t \in Servers : pc'[t] = "update"}
        BY <4>1, <4>3, AdvanceTypes
      <4>5. QED
        BY <4>1, <4>2, <4>4, AdvanceTypes
    <3>9. CASE Ensure(s, n)
      BY <3>9 DEF Ensure
    <3>10. CASE EnsureFails(s, n)
      BY <3>10 DEF EnsureFails
    <3>11. QED
      BY <2>1, <3>1, <3>2, <3>3, <3>4, <3>5, <3>6, <3>7, <3>8, <3>9, <3>10 DEF FileStep
  <2>2. ASSUME NEW s \in Servers, Discover(s) PROVE TypeOK'
    BY <2>2 DEF Discover
  <2>3. ASSUME NEW s \in Servers, NextStage(s) PROVE TypeOK'
    <3>1. CASE stage[s] < 3
      <4>1. stage[s] + 1 \in Stages
        BY <3>1 DEF Stages
      <4>2. Files[stage[s] + 1] \in SUBSET Names
        BY <4>1, NamesType
      <4>3. QED
        BY <2>3, <3>1, <4>1, <4>2, LeaveTypes DEF NextStage
    <3>2. CASE ~(stage[s] < 3)
      <4>1. 3 \in Stages /\ Ensured \in SUBSET Names
        BY NamesType DEF Stages
      <4>2. QED
        BY <2>3, <3>2, <4>1, LeaveTypes DEF NextStage
    <3>3. QED
      BY <3>1, <3>2
  <2>4. ASSUME NEW s \in Servers, GiveUp(s) PROVE TypeOK'
    BY <2>4 DEF GiveUp
  <2>5. ASSUME NEW s \in Servers, ServerRestarts(s) PROVE TypeOK'
    <3>1. 1 \in Stages /\ Files[1] \in SUBSET Names
      BY NamesType DEF Stages
    <3>2. QED
      BY <2>5, <3>1, LeaveTypes DEF ServerRestarts
  <2>6. CASE KcpStep
    BY <2>0, <2>6 DEF KcpStep, KcpServes, KcpMakesReady, KcpPublishesIdentity
  <2>7. CASE AdminStep
    <3>1. ASSUME NEW n \in Names, AdminDeletes(n) PROVE TypeOK'
      BY <2>0, <3>1 DEF AdminDeletes
    <3>2. ASSUME NEW n \in Names, NEW mark \in {{}, {n}}, AdminEdits(n, mark) PROVE TypeOK'
      BY <2>0, <3>2 DEF AdminEdits
    <3>3. QED
      BY <2>7, <3>1, <3>2 DEF AdminStep
  <2>8. CASE UNCHANGED vars
    BY <2>8 DEF vars
  <2>9. QED
    BY <2>1, <2>2, <2>3, <2>4, <2>5, <2>6, <2>7, <2>8 DEF Next, ServerStep
<1>3. QED
  BY <1>1, <1>2, PTL DEF Spec

-----------------------------------------------------------------------------
(* What is there stays there, or is on record as removed.                  *)
Grows == There \subseteq There' /\ ready \subseteq ready' /\ failed \subseteq failed'

LEMMA StateGrows ==
  ASSUME TypeOK, [Next]_vars
  PROVE  Grows
<1> USE DEF Grows, There, kcpVars, historyVars
<1>1. ASSUME NEW s \in Servers, NEW n \in Names, FileStep(s, n) PROVE Grows
  BY <1>1 DEF FileStep, NoMatch, AlreadyExists, GetCreateOnly, Get, Create, Update, Conflict,
              CallFails, Ensure, EnsureFails
<1>2. ASSUME NEW s \in Servers, Discover(s) \/ NextStage(s) \/ GiveUp(s) \/ ServerRestarts(s)
      PROVE  Grows
  BY <1>2 DEF Discover, NextStage, GiveUp, ServerRestarts
<1>3. CASE KcpStep
  BY <1>3 DEF KcpStep, KcpServes, KcpMakesReady, KcpPublishesIdentity
<1>4. CASE AdminStep
  BY <1>4 DEF AdminStep, AdminEdits, AdminDeletes
<1>5. CASE UNCHANGED vars
  BY <1>5 DEF vars
<1>6. QED
  BY <1>1, <1>2, <1>3, <1>4, <1>5 DEF Next, ServerStep

LEMMA InstalledStays ==
  ASSUME Grows
  PROVE  /\ \A i \in Stages : Installed(i) => Installed(i)'
         /\ AllInstalled => AllInstalled'
  BY DEF Grows, Installed, AllInstalled, Workspaces

(* A step that leaves a server where it is keeps what its place says, if   *)
(* it puts the server's Get out of date or leaves the object alone.        *)
SamePlace(s) ==
  /\ pc'[s] = pc[s] /\ stage'[s] = stage[s] /\ todo'[s] = todo[s]
  /\ errs'[s] = errs[s] /\ cache'[s] = cache[s]
FreshKept(s) ==
  s \in fresh' =>
    /\ s \in fresh
    /\ \A n \in Names : At(s, n) /\ n \in stored \ createOnly => n \in stored' \ createOnly'

LEMMA SamePlaceStep ==
  ASSUME NEW s \in Servers, PlaceOK(s), SamePlace(s), FreshKept(s), Grows,
         stage[s] \in Stages
  PROVE  PlaceOK(s)'
<1>1. \A n \in Names : At(s, n)' <=> At(s, n)
  BY DEF SamePlace, At
<1>2. \A i \in Stages : i < stage'[s] => Installed(i)'
  BY InstalledStays DEF SamePlace, PlaceOK
<1>3. InPass(s)' => PassOK(s)'
  BY DEF SamePlace, PlaceOK, PassOK, InPass, Grows
<1>4. \A n \in Names : At(s, n)' => FileOK(s, n)'
  <2> SUFFICES ASSUME NEW n \in Names, At(s, n) PROVE FileOK(s, n)'
    BY <1>1
  <2>1. FileOK(s, n)
    BY DEF PlaceOK
  <2>2. QED
    BY <2>1 DEF FileOK, SamePlace, FreshKept, Grows
<1>5. pc'[s] = "wait" => Files[stage'[s]] \subseteq There'
  BY DEF SamePlace, PlaceOK, Grows
<1>6. pc'[s] = "ensure" => EnsureOK(s)'
  BY InstalledStays DEF SamePlace, PlaceOK, EnsureOK, Grows
<1>7. DoneOK(s)'
  BY InstalledStays DEF SamePlace, PlaceOK, DoneOK, Grows
<1>8. QED
  BY <1>2, <1>3, <1>4, <1>5, <1>6, <1>7 DEF PlaceOK

(* A server that goes on to the next file, or to the end of its pass.      *)
LEMMA AdvanceStep ==
  ASSUME TypeOK, Grows, NEW s \in Servers, NEW n \in Names, NEW ok \in BOOLEAN,
         PlaceOK(s), InPass(s), At(s, n), Advance(s, n, ok), s \notin fresh',
         ok => n \in There',
         cache[s] # "stale" => n \in There' \cup failed'
  PROVE  PlaceOK(s)'
<1> DEFINE i == stage[s]
<1>0. i \in Stages /\ stage' = stage /\ PassOK(s) /\ todo[s] \in SUBSET Names
  BY DEF TypeOK, Advance, PlaceOK
<1>1. \A j \in Stages : j < stage'[s] => Installed(j)'
  BY <1>0, InstalledStays DEF PlaceOK
<1>2. CASE todo[s] # {n}
  <2>1. /\ pc'[s] = "create" /\ todo'[s] = todo[s] \ {n} /\ cache'[s] = cache[s]
    BY <1>2 DEF Advance, TypeOK
  <2>2. ~errs'[s] => ~errs[s] /\ ok
    <3>1. errs' = [errs EXCEPT ![s] = errs[s] \/ ~ok] /\ errs \in [Servers -> BOOLEAN]
      BY <1>2 DEF Advance, TypeOK
    <3>2. QED
      BY <3>1, Zenon
  <2>3. Files[i] \ todo'[s] = (Files[i] \ todo[s]) \cup {n}
    BY <2>1, <1>0 DEF At, PassOK
  <2>4. ~errs'[s] => Files[i] \ todo'[s] \subseteq There'
    BY <2>2, <2>3, <1>0 DEF PassOK, Grows
  <2>5. cache'[s] # "stale" => Files[i] \ todo'[s] \subseteq There' \cup failed'
    BY <2>1, <2>3, <1>0 DEF PassOK, Grows
  <2>6. PassOK(s)'
    BY <2>1, <2>4, <2>5, <1>0 DEF PassOK
  <2>7. \A m \in Names : FileOK(s, m)'
    BY <2>1 DEF FileOK
  <2>8. QED
    BY <1>1, <2>1, <2>6, <2>7 DEF PlaceOK, DoneOK
<1>3. CASE todo[s] = {n} /\ ok /\ ~errs[s]
  <2>1. pc'[s] = "wait"
    BY <1>3 DEF Advance, EndPass, TypeOK
  <2>2. Files[i] \subseteq There'
    BY <1>3, <1>0 DEF PassOK, Grows
  <2>3. \A m \in Names : FileOK(s, m)'
    BY <2>1 DEF FileOK
  <2>4. QED
    BY <1>0, <1>1, <2>1, <2>2, <2>3 DEF PlaceOK, InPass, DoneOK
<1>4. CASE todo[s] = {n} /\ ~(ok /\ ~errs[s])
  <2>1. pc'[s] = "create" /\ todo'[s] = Files[i]
    BY <1>4 DEF Advance, EndPass, TypeOK
  <2>2. PassOK(s)'
    BY <2>1, <1>0 DEF PassOK
  <2>3. \A m \in Names : FileOK(s, m)'
    BY <2>1 DEF FileOK
  <2>4. QED
    BY <1>1, <2>1, <2>2, <2>3 DEF PlaceOK, DoneOK
<1>5. QED
  BY <1>2, <1>3, <1>4

(* A server that begins a stage all of whose forerunners are complete.     *)
LEMMA EnterStep ==
  ASSUME TypeOK, Grows, NEW s \in Servers, NEW i \in Stages,
         \A j \in Stages : j < i => Installed(j),
         Leave(s, "create", i, Files[i]), s \notin fresh'
  PROVE  PlaceOK(s)'
<1>1. pc'[s] = "create" /\ stage'[s] = i /\ todo'[s] = Files[i]
  BY DEF Leave, TypeOK
<1>2. \A j \in Stages : j < stage'[s] => Installed(j)'
  BY <1>1, InstalledStays
<1>3. PassOK(s)'
  BY <1>1 DEF PassOK
<1>4. \A m \in Names : FileOK(s, m)'
  BY <1>1 DEF FileOK
<1>5. QED
  BY <1>1, <1>2, <1>3, <1>4 DEF PlaceOK, DoneOK

(* A server is at one file.                                                *)
LEMMA AtOneFile ==
  ASSUME NEW s \in Servers, NEW m \in Names, NEW n \in Names, At(s, m), At(s, n)
  PROVE  m = n
<1> SUFFICES ASSUME m # n PROVE FALSE
  OBVIOUS
<1>1. Before(m, n) /\ Before(n, m)
  BY DEF At
<1>2. /\ bootstrapFileOrder(m) \in Nat /\ bootstrapFileOrder(n) \in Nat
      /\ Rank[m] \in Nat /\ Rank[n] \in Nat
  BY RankType DEF bootstrapFileOrder
<1>3. QED
  BY <1>1, <1>2 DEF Before

(* A server's step on a file.                                              *)
LEMMA FileKeepsPlace ==
  ASSUME TypeOK, Grows, NEW s \in Servers, NEW n \in Names, PlaceOK(s), FileStep(s, n)
  PROVE  PlaceOK(s)'
<1> USE DEF InPass
<1>1. CASE NoMatch(s, n)
  <2>1. s \notin fresh'
    BY <1>1 DEF NoMatch, TypeOK
  <2>2. QED
    BY <1>1, <2>1, AdvanceStep DEF NoMatch
<1>2. CASE AlreadyExists(s, n)
  <2>1. n \in There' /\ s \notin fresh'
    BY <1>2 DEF AlreadyExists, There, kcpVars, historyVars, TypeOK
  <2>2. pc'[s] = "get" /\ UNCHANGED placeVars
    BY <1>2 DEF AlreadyExists, TypeOK
  <2>3. PassOK(s)'
    BY <1>2, <2>2 DEF AlreadyExists, PlaceOK, PassOK, placeVars, Grows
  <2>4. \A m \in Names : At(s, m)' => m = n
    BY <1>2, <2>2, AtOneFile DEF AlreadyExists, At, placeVars
  <2>5. \A m \in Names : At(s, m)' => FileOK(s, m)'
    BY <2>1, <2>4 DEF FileOK
  <2>6. \A i \in Stages : i < stage'[s] => Installed(i)'
    BY <2>2, InstalledStays DEF placeVars, PlaceOK
  <2>7. QED
    BY <2>2, <2>3, <2>5, <2>6 DEF PlaceOK, DoneOK
<1>3. CASE GetCreateOnly(s, n)
  <2>1. n \in There' /\ s \notin fresh'
    BY <1>3 DEF GetCreateOnly, There, kcpVars, historyVars, TypeOK
  <2>2. QED
    BY <1>3, <2>1, AdvanceStep DEF GetCreateOnly
<1>4. CASE Get(s, n)
  <2>1. n \in There' /\ n \in stored' \ createOnly'
    BY <1>4 DEF Get, There, kcpVars, historyVars
  <2>2. pc'[s] = "update" /\ UNCHANGED placeVars
    BY <1>4 DEF Get, TypeOK
  <2>3. PassOK(s)'
    BY <1>4, <2>2 DEF Get, PlaceOK, PassOK, placeVars, Grows
  <2>4. \A m \in Names : At(s, m)' => m = n
    BY <1>4, <2>2, AtOneFile DEF Get, At, placeVars
  <2>5. \A m \in Names : At(s, m)' => FileOK(s, m)'
    BY <2>1, <2>4 DEF FileOK
  <2>6. \A i \in Stages : i < stage'[s] => Installed(i)'
    BY <2>2, InstalledStays DEF placeVars, PlaceOK
  <2>7. QED
    BY <2>2, <2>3, <2>5, <2>6 DEF PlaceOK, DoneOK
<1>5. ASSUME NEW ok \in BOOLEAN, Create(s, n, ok) PROVE PlaceOK(s)'
  <2>1. n \in There' /\ s \notin fresh'
    BY <1>5 DEF Create, There, TypeOK
  <2>2. QED
    BY <1>5, <2>1, AdvanceStep DEF Create
<1>6. ASSUME NEW ok \in BOOLEAN, Update(s, n, ok) PROVE PlaceOK(s)'
  <2>1. s \notin fresh'
    BY <1>6 DEF Update, Outdate
  <2>2. n \in There'
    BY <1>6 DEF Update, Accepted, PlaceOK, FileOK, There, Grows
  <2>3. QED
    BY <1>6, <2>1, <2>2, AdvanceStep DEF Update
<1>7. CASE Conflict(s, n)
  <2>1. s \notin fresh'
    BY <1>7 DEF Conflict, Accepted, TypeOK
  <2>2. n \in There'
    BY <1>7 DEF Conflict, PlaceOK, FileOK, Grows
  <2>3. QED
    BY <1>7, <2>1, <2>2, AdvanceStep DEF Conflict
<1>8. CASE CallFails(s, n)
  <2>1. s \notin fresh' /\ n \in failed'
    BY <1>8 DEF CallFails
  <2>2. QED
    BY <1>8, <2>1, AdvanceStep DEF CallFails
<1>9. CASE Ensure(s, n)
  <2>1. /\ EnsureOK(s) /\ n \in There' /\ s \notin fresh' /\ stage' = stage
        /\ todo' = [todo EXCEPT ![s] = @ \ {n}]
        /\ pc'[s] = IF todo[s] = {n} THEN "done" ELSE "ensure"
    BY <1>9 DEF Ensure, PlaceOK, There, historyVars, TypeOK
  <2>2. todo'[s] = todo[s] \ {n}
    BY <2>1 DEF TypeOK
  <2>3. AllInstalled' /\ todo'[s] \subseteq Ensured /\ Ensured \ todo'[s] \subseteq There'
    BY <2>1, <2>2, InstalledStays DEF EnsureOK, Grows
  <2>4. EnsureOK(s)'
    BY <2>3 DEF EnsureOK
  <2>5. DoneOK(s)'
    <3>1. CASE todo[s] = {n}
      BY <2>2, <2>3, <3>1 DEF DoneOK
    <3>2. CASE todo[s] # {n}
      BY <2>1, <3>2 DEF DoneOK
    <3>3. QED
      BY <3>1, <3>2
  <2>6. \A m \in Names : FileOK(s, m)'
    BY <2>1 DEF FileOK
  <2>7. \A i \in Stages : i < stage'[s] => Installed(i)'
    BY <2>1, InstalledStays DEF PlaceOK
  <2>8. QED
    BY <2>1, <2>4, <2>5, <2>6, <2>7 DEF PlaceOK
<1>10. CASE EnsureFails(s, n)
  <2>1. pc'[s] = "failed" /\ s \notin fresh' /\ stage' = stage
    BY <1>10 DEF EnsureFails, TypeOK, placeVars
  <2>2. QED
    BY <2>1, InstalledStays DEF PlaceOK, DoneOK, FileOK
<1>11. QED
  BY <1>1, <1>2, <1>3, <1>4, <1>5, <1>6, <1>7, <1>8, <1>9, <1>10 DEF FileStep

(* A server's step between its files.                                      *)
LEMMA StageKeepsPlace ==
  ASSUME TypeOK, Grows, NEW s \in Servers, PlaceOK(s),
         Discover(s) \/ NextStage(s) \/ GiveUp(s) \/ ServerRestarts(s)
  PROVE  PlaceOK(s)'
<1> USE DEF InPass
<1>1. CASE Discover(s)
  <2>1. /\ pc'[s] = "create" /\ pc[s] = "create" /\ s \notin fresh'
        /\ UNCHANGED <<stage, todo, errs>> /\ cache[s] # "stale"
    BY <1>1 DEF Discover, TypeOK
  <2>2. PassOK(s)'
    BY <2>1 DEF PlaceOK, PassOK, Grows
  <2>3. \A m \in Names : FileOK(s, m)'
    BY <2>1 DEF FileOK
  <2>4. \A i \in Stages : i < stage'[s] => Installed(i)'
    BY <2>1, InstalledStays DEF PlaceOK
  <2>5. QED
    BY <2>1, <2>2, <2>3, <2>4 DEF PlaceOK, DoneOK
<1>2. CASE NextStage(s)
  <2>1. s \notin fresh' /\ stage[s] \in Stages
    BY <1>2 DEF NextStage, TypeOK
  <2>2. Installed(stage[s])
    BY <1>2 DEF NextStage, PlaceOK, WorkspacesReady, Installed
  <2>3. \A j \in Stages : j <= stage[s] => Installed(j)
    BY <2>1, <2>2 DEF PlaceOK, Stages
  <2>4. CASE stage[s] < 3
    <3>1. stage[s] + 1 \in Stages
      BY <2>1, <2>4 DEF Stages
    <3>2. \A j \in Stages : j < stage[s] + 1 => Installed(j)
      BY <2>1, <2>3 DEF Stages
    <3>3. Leave(s, "create", stage[s] + 1, Files[stage[s] + 1])
      BY <1>2, <2>4 DEF NextStage
    <3>4. QED
      BY <2>1, <3>1, <3>2, <3>3, EnterStep
  <2>5. CASE ~(stage[s] < 3)
    <3>1. Leave(s, "ensure", 3, Ensured)
      BY <1>2, <2>5 DEF NextStage
    <3>2. pc'[s] = "ensure" /\ stage'[s] = 3 /\ todo'[s] = Ensured
      BY <3>1 DEF Leave, TypeOK
    <3>3. AllInstalled'
      BY <2>1, <2>3, <2>5, InstalledStays DEF AllInstalled, Stages
    <3>4. EnsureOK(s)'
      BY <3>2, <3>3 DEF EnsureOK
    <3>5. \A m \in Names : FileOK(s, m)'
      BY <2>1, <3>2 DEF FileOK
    <3>6. \A j \in Stages : Installed(j)'
      BY <3>3 DEF AllInstalled
    <3>7. QED
      BY <3>2, <3>4, <3>5, <3>6 DEF PlaceOK, DoneOK
  <2>6. QED
    BY <2>4, <2>5
<1>3. CASE GiveUp(s)
  <2>1. pc'[s] = "failed" /\ s \notin fresh' /\ stage' = stage
    BY <1>3 DEF GiveUp, TypeOK, placeVars
  <2>2. QED
    BY <2>1, InstalledStays DEF PlaceOK, DoneOK, FileOK
<1>4. CASE ServerRestarts(s)
  <2>1. s \notin fresh'
    BY <1>4 DEF ServerRestarts
  <2>2. 1 \in Stages /\ \A j \in Stages : ~(j < 1)
    BY DEF Stages
  <2>3. QED
    BY <1>4, <2>1, <2>2, EnterStep DEF ServerRestarts
<1>5. QED
  BY <1>1, <1>2, <1>3, <1>4

(* What the others do to a server's place: nothing.                        *)
LEMMA OthersSamePlace ==
  ASSUME TypeOK, NEW s \in Servers,
         \/ \E t \in Servers \ {s} : ServerStep(t) \/ ServerRestarts(t)
         \/ KcpStep \/ AdminStep \/ UNCHANGED vars
  PROVE  SamePlace(s) /\ FreshKept(s)
<1> USE DEF kcpVars, placeVars, historyVars
<1>1. ASSUME NEW t \in Servers \ {s}, NEW n \in Names, FileStep(t, n)
      PROVE  SamePlace(s) /\ FreshKept(s)
  <2>1. CASE NoMatch(t, n)
    BY <2>1 DEF NoMatch, Advance, EndPass, SamePlace, FreshKept, TypeOK
  <2>2. CASE AlreadyExists(t, n)
    BY <2>2 DEF AlreadyExists, SamePlace, FreshKept, TypeOK
  <2>3. CASE GetCreateOnly(t, n)
    BY <2>3 DEF GetCreateOnly, Advance, EndPass, SamePlace, FreshKept, TypeOK
  <2>4. CASE Get(t, n)
    BY <2>4 DEF Get, SamePlace, FreshKept, TypeOK
  <2>5. ASSUME NEW ok \in BOOLEAN, Create(t, n, ok) PROVE SamePlace(s) /\ FreshKept(s)
    <3>1. SamePlace(s)
      BY <2>5 DEF Create, Advance, EndPass, SamePlace, TypeOK
    <3>2. FreshKept(s)
      BY <2>5 DEF Create, Marked, FreshKept
    <3>3. QED
      BY <3>1, <3>2
  <2>6. ASSUME NEW ok \in BOOLEAN, Update(t, n, ok) PROVE SamePlace(s) /\ FreshKept(s)
    <3>1. SamePlace(s)
      BY <2>6 DEF Update, Advance, EndPass, SamePlace, TypeOK
    <3>2. FreshKept(s)
      BY <2>6 DEF Update, Outdate, Marked, FreshKept
    <3>3. QED
      BY <3>1, <3>2
  <2>7. CASE Conflict(t, n)
    BY <2>7 DEF Conflict, Advance, EndPass, SamePlace, FreshKept, TypeOK
  <2>8. CASE CallFails(t, n)
    BY <2>8 DEF CallFails, Advance, EndPass, SamePlace, FreshKept, TypeOK
  <2>9. CASE Ensure(t, n)
    BY <2>9 DEF Ensure, SamePlace, FreshKept, TypeOK
  <2>10. CASE EnsureFails(t, n)
    BY <2>10 DEF EnsureFails, SamePlace, FreshKept, TypeOK
  <2>11. QED
    BY <1>1, <2>1, <2>2, <2>3, <2>4, <2>5, <2>6, <2>7, <2>8, <2>9, <2>10 DEF FileStep
<1>2. ASSUME NEW t \in Servers \ {s}, Discover(t) \/ NextStage(t) \/ GiveUp(t) \/ ServerRestarts(t)
      PROVE  SamePlace(s) /\ FreshKept(s)
  BY <1>2 DEF Discover, NextStage, GiveUp, ServerRestarts, Leave, SamePlace, FreshKept, TypeOK
<1>3. CASE KcpStep
  BY <1>3 DEF KcpStep, KcpServes, KcpMakesReady, KcpPublishesIdentity, Outdate, SamePlace, FreshKept
<1>4. CASE AdminStep
  <2>1. ASSUME NEW n \in Names, AdminDeletes(n) PROVE SamePlace(s) /\ FreshKept(s)
    BY <2>1 DEF AdminDeletes, Outdate, SamePlace, FreshKept
  <2>2. ASSUME NEW n \in Names, NEW mark \in {{}, {n}}, AdminEdits(n, mark)
        PROVE  SamePlace(s) /\ FreshKept(s)
    BY <2>2 DEF AdminEdits, Outdate, SamePlace, FreshKept
  <2>3. QED
    BY <1>4, <2>1, <2>2 DEF AdminStep
<1>5. CASE UNCHANGED vars
  BY <1>5 DEF vars, SamePlace, FreshKept
<1>6. QED
  BY <1>1, <1>2, <1>3, <1>4, <1>5 DEF ServerStep

LEMMA OthersKeepPlace ==
  ASSUME TypeOK, Grows, NEW s \in Servers, PlaceOK(s),
         \/ \E t \in Servers \ {s} : ServerStep(t) \/ ServerRestarts(t)
         \/ KcpStep \/ AdminStep \/ UNCHANGED vars
  PROVE  PlaceOK(s)'
<1>1. SamePlace(s) /\ FreshKept(s)
  BY OthersSamePlace
<1>2. QED
  BY <1>1, SamePlaceStep DEF TypeOK

LEMMA PlaceStep ==
  ASSUME TypeOK, [Next]_vars, NEW s \in Servers, PlaceOK(s)
  PROVE  PlaceOK(s)'
<1>1. Grows
  BY StateGrows
<1>2. CASE ServerStep(s) \/ ServerRestarts(s)
  BY <1>1, <1>2, FileKeepsPlace, StageKeepsPlace DEF ServerStep
<1>3. CASE ~(ServerStep(s) \/ ServerRestarts(s))
  BY <1>1, <1>3, OthersKeepPlace DEF Next
<1>4. QED
  BY <1>2, <1>3

-----------------------------------------------------------------------------
(* The only steps that put an object there.                                *)
LEMMA WhoStores ==
  ASSUME TypeOK, [Next]_vars, NEW n \in Names, n \in stored' \ stored
  PROVE  \/ \E s \in Servers, ok \in BOOLEAN : Create(s, n, ok)
         \/ \E s \in Servers : Ensure(s, n) \/ EnsureFails(s, n)
<1> USE DEF kcpVars, historyVars
<1>1. ASSUME NEW s \in Servers, NEW m \in Names, FileStep(s, m)
      PROVE  \/ \E ok \in BOOLEAN : Create(s, n, ok)
             \/ Ensure(s, n) \/ EnsureFails(s, n)
  <2>1. CASE NoMatch(s, m) \/ AlreadyExists(s, m) \/ GetCreateOnly(s, m) \/ Get(s, m)
               \/ Conflict(s, m) \/ CallFails(s, m)
    BY <2>1 DEF NoMatch, AlreadyExists, GetCreateOnly, Get, Conflict, CallFails
  <2>2. ASSUME NEW ok \in BOOLEAN, Update(s, m, ok) PROVE FALSE
    BY <2>2 DEF Update
  <2>3. ASSUME NEW ok \in BOOLEAN, Create(s, m, ok) PROVE m = n
    BY <2>3 DEF Create
  <2>4. CASE Ensure(s, m) \/ EnsureFails(s, m)
    <3>1. m = n
      BY <2>4 DEF Ensure, EnsureFails
    <3>2. QED
      BY <2>4, <3>1
  <2>5. QED
    BY <1>1, <2>1, <2>2, <2>3, <2>4 DEF FileStep
<1>2. ASSUME NEW s \in Servers, Discover(s) \/ NextStage(s) \/ GiveUp(s) \/ ServerRestarts(s)
      PROVE  FALSE
  BY <1>2 DEF Discover, NextStage, GiveUp, ServerRestarts
<1>3. ~KcpStep /\ ~AdminStep /\ ~UNCHANGED vars
  BY DEF KcpStep, KcpServes, KcpMakesReady, KcpPublishesIdentity, AdminStep, AdminEdits,
         AdminDeletes, vars
<1>4. QED
  BY <1>1, <1>2, <1>3 DEF Next, ServerStep

(* What holds where an object is put: the workspace is Ready, or, for what *)
(* is ensured, everything else is installed.                               *)
LEMMA StoredInTime ==
  ASSUME TypeOK, [Next]_vars, \A s \in Servers : PlaceOK(s), NEW n \in Names,
         n \in stored' \ stored
  PROVE  /\ \A i \in Stages : n \in Files[i] => Home(i) \subseteq ready
         /\ n \in Ensured => AllInstalled
<1>1. ASSUME NEW s \in Servers, NEW ok \in BOOLEAN, Create(s, n, ok)
      PROVE  /\ \A i \in Stages : n \in Files[i] => Home(i) \subseteq ready
             /\ n \notin Ensured
  <2>1. stage[s] \in Stages /\ n \in Files[stage[s]]
    BY <1>1 DEF Create, At, PlaceOK, InPass, PassOK, TypeOK
  <2>2. n \notin Ensured /\ \A i \in Stages : n \in Files[i] => i = stage[s]
    BY <2>1, EachNameOnce
  <2>3. Home(stage[s]) \subseteq ready
    <3>1. CASE stage[s] = 1
      BY <3>1 DEF Home
    <3>2. CASE stage[s] # 1
      <4>1. stage[s] - 1 \in Stages /\ stage[s] - 1 < stage[s]
        BY <2>1, <3>2 DEF Stages
      <4>2. Installed(stage[s] - 1)
        BY <4>1 DEF PlaceOK
      <4>3. QED
        BY <3>2, <4>2 DEF Home, Installed
    <3>3. QED
      BY <3>1, <3>2
  <2>4. QED
    BY <2>2, <2>3
<1>2. ASSUME NEW s \in Servers, Ensure(s, n) \/ EnsureFails(s, n)
      PROVE  /\ \A i \in Stages : n \notin Files[i]
             /\ AllInstalled
  <2>1. EnsureOK(s) /\ n \in todo[s]
    BY <1>2 DEF Ensure, EnsureFails, PlaceOK, At
  <2>2. QED
    BY <2>1, EachNameOnce DEF EnsureOK
<1>3. QED
  BY <1>1, <1>2, WhoStores

LEMMA NothingTooEarlyStep ==
  ASSUME TypeOK, [Next]_vars, \A s \in Servers : PlaceOK(s), NothingTooEarly
  PROVE  NothingTooEarly'
<1>1. Grows
  BY StateGrows
<1>2. \A i \in Stages : Home(i)' = Home(i) /\ Files[i] \subseteq Names
  BY NamesType DEF Home, Workspaces
<1>3. ASSUME NEW i \in Stages, NEW n \in Files[i], n \in stored'
      PROVE  Home(i)' \subseteq ready'
  <2>1. Home(i) \subseteq ready
    BY <1>2, <1>3, StoredInTime DEF NothingTooEarly
  <2>2. QED
    BY <1>1, <1>2, <2>1 DEF Grows
<1>4. ASSUME NEW n \in Ensured, n \in stored'
      PROVE  AllInstalled'
  <2>1. n \in Names
    BY NamesType
  <2>2. AllInstalled
    BY <1>4, <2>1, StoredInTime DEF NothingTooEarly
  <2>3. QED
    BY <1>1, <2>2, InstalledStays
<1>5. QED
  BY <1>3, <1>4 DEF NothingTooEarly

(* An export that is created finds the schemas of its stage behind it.     *)
LEMMA SchemasFirstStep ==
  ASSUME TypeOK, [Next]_vars, \A s \in Servers : PlaceOK(s), SchemasFirst
  PROVE  SchemasFirst'
<1>1. Grows
  BY StateGrows
<1> SUFFICES ASSUME NEW i \in Stages, NEW x \in Files[i], NEW e \in Files[i],
                    KindOf[x] = "schema", KindOf[e] = "export", e \in stored'
             PROVE  x \in There' \cup failed'
  BY DEF SchemasFirst
<1>2. x \in Names /\ e \in Names /\ e \notin Ensured
  BY NamesType, EachNameOnce
<1>3. CASE e \in stored
  BY <1>1, <1>3 DEF SchemasFirst, Grows
<1>4. ASSUME NEW s \in Servers, NEW ok \in BOOLEAN, Create(s, e, ok)
      PROVE  x \in There \cup failed
  <2>1. PassOK(s) /\ cache[s] # "stale" /\ At(s, e) /\ stage[s] \in Stages
    BY <1>4 DEF Create, PlaceOK, InPass, TypeOK
  <2>2. stage[s] = i
    BY <2>1, EachNameOnce DEF PassOK, At
  <2>3. x \notin todo[s]
    <3>1. ~Before(e, x)
      BY DEF Before, bootstrapFileOrder
    <3>2. QED
      BY <2>1, <3>1 DEF At
  <2>4. QED
    BY <2>1, <2>2, <2>3 DEF PassOK
<1>5. ASSUME NEW s \in Servers, Ensure(s, e) \/ EnsureFails(s, e) PROVE FALSE
  BY <1>2, <1>5 DEF Ensure, EnsureFails, PlaceOK, EnsureOK, At
<1>6. CASE e \notin stored
  BY <1>1, <1>2, <1>4, <1>5, <1>6, WhoStores DEF Grows
<1>7. QED
  BY <1>3, <1>6

-----------------------------------------------------------------------------
(* The invariant holds: what a server's place says about kcp is true.      *)
THEOREM BootstrapInvariant == Spec => []BootstrapInv
<1>1. Init => BootstrapInv
  <2> SUFFICES ASSUME Init PROVE BootstrapInv
    OBVIOUS
  <2>1. ASSUME NEW s \in Servers PROVE PlaceOK(s)
    <3>1. pc[s] = "create" /\ stage[s] = 1 /\ todo[s] = Files[1] /\ fresh = {}
      BY DEF Init
    <3>2. \A i \in Stages : ~(i < 1)
      BY DEF Stages
    <3>3. PassOK(s) /\ \A n \in Names : FileOK(s, n)
      BY <3>1 DEF PassOK, FileOK
    <3>4. QED
      BY <3>1, <3>2, <3>3 DEF PlaceOK, DoneOK
  <2>2. NothingTooEarly /\ SchemasFirst
    BY DEF Init, NothingTooEarly, SchemasFirst
  <2>3. QED
    BY <2>1, <2>2 DEF BootstrapInv
<1>2. TypeOK /\ BootstrapInv /\ [Next]_vars => BootstrapInv'
  BY PlaceStep, NothingTooEarlyStep, SchemasFirstStep DEF BootstrapInv
<1>3. QED
  BY <1>1, <1>2, TypeCorrect, PTL DEF Spec

(* A bootstrap that returns without an error has installed everything.     *)
THEOREM DoneMeansInstalledHolds == Spec => []DoneMeansInstalled
<1>1. BootstrapInv => DoneMeansInstalled
  BY DEF BootstrapInv, PlaceOK, DoneMeansInstalled
<1>2. QED
  BY <1>1, BootstrapInvariant, PTL

(* Nothing is installed before what it goes into or refers to.             *)
THEOREM NothingTooEarlyHolds == Spec => []NothingTooEarly
<1>1. BootstrapInv => NothingTooEarly
  BY DEF BootstrapInv
<1>2. QED
  BY <1>1, BootstrapInvariant, PTL

(* Schemas come before exports unless a call has failed.                   *)
THEOREM SchemasFirstHolds == Spec => []SchemasFirst
<1>1. BootstrapInv => SchemasFirst
  BY DEF BootstrapInv
<1>2. QED
  BY <1>1, BootstrapInvariant, PTL

(* No server overwrites an object that is marked create-only.              *)
THEOREM CreateOnlyKeptHolds == Spec => CreateOnlyKept
<1>1. ASSUME TypeOK, BootstrapInv, [Next]_vars, NEW n \in createOnly, n \in edited \ edited'
      PROVE  n \notin stored'
  <2> USE <1>1 DEF kcpVars
  <2>0. n \in Names
    BY DEF TypeOK
  <2>1. ASSUME NEW s \in Servers, NEW m \in Names, FileStep(s, m) PROVE FALSE
    <3>1. ASSUME NEW ok \in BOOLEAN, Update(s, m, ok) PROVE FALSE
      <4>1. m = n
        BY <3>1 DEF Update
      <4>2. FileOK(s, n) /\ s \in fresh
        BY <2>0, <3>1, <4>1 DEF Update, Accepted, BootstrapInv, PlaceOK
      <4>3. QED
        BY <4>2 DEF FileOK
    <3>2. QED
      BY <2>1, <3>1 DEF FileStep, NoMatch, AlreadyExists, GetCreateOnly, Get, Create, Conflict,
                        CallFails, Ensure, EnsureFails
  <2>2. ASSUME NEW s \in Servers,
               Discover(s) \/ NextStage(s) \/ GiveUp(s) \/ ServerRestarts(s)
        PROVE  FALSE
    BY <2>2 DEF Discover, NextStage, GiveUp, ServerRestarts
  <2>3. ~KcpStep /\ ~UNCHANGED vars
    BY DEF KcpStep, KcpServes, KcpMakesReady, KcpPublishesIdentity, vars
  <2>4. CASE AdminStep
    BY <2>4 DEF AdminStep, AdminEdits, AdminDeletes
  <2>5. QED
    BY <2>1, <2>2, <2>3, <2>4 DEF Next, ServerStep
<1>2. TypeOK /\ BootstrapInv /\ [Next]_vars
        => [\A n \in createOnly : n \in edited \ edited' => n \notin stored']_vars
  BY <1>1
<1>3. QED
  BY <1>2, TypeCorrect, BootstrapInvariant, PTL DEF Spec, CreateOnlyKept

-----------------------------------------------------------------------------
(* The lifecycle: Run returns nil only when it was told to stop or its kcp *)
(* has failed, and it serves only when everything it needs was set up.     *)


(* The causes behind every way of stopping are an inductive invariant.     *)
THEOREM LifecycleInvariant == RunSpec => []LifecycleInv
<1> USE DEF LifecycleInv, StopsHaveCauses, NilOnlyWhenStopped,
            ctxVars, runVars, embeddedVars, stopVars, httpVars
<1>1. RunInit => LifecycleInv
  BY DEF RunInit
<1>2. LifecycleInv /\ [RunNext]_lifecycleVars => LifecycleInv'
  <2> SUFFICES ASSUME LifecycleInv, [RunNext]_lifecycleVars PROVE LifecycleInv'
    OBVIOUS
  <2>1. CASE Signal
    BY <2>1 DEF Signal
  <2>2. CASE MainStep \/ InstallSucceeds \/ InstallFails
    <3>1. CASE StartKcp \/ InstallSucceeds \/ InstallFails
      BY <3>1 DEF StartKcp, InstallSucceeds, InstallFails, Return
    <3>6. CASE SetUpRoutes
      BY <3>6 DEF SetUpRoutes, Return
    <3>7. CASE StartServing
      BY <3>7 DEF StartServing, Return
    <3>2. CASE AwaitKcp
      BY <3>2 DEF AwaitKcp, Return
    <3>3. CASE ReturnOnHttp
      BY <3>3 DEF ReturnOnHttp, Return
    <3>4. CASE ReturnOnKcpError
      BY <3>4 DEF ReturnOnKcpError, Return
    <3>5. CASE AwaitHttp \/ ReturnOnCancel
      BY <3>5 DEF AwaitHttp, ReturnOnCancel, Return
    <3>8. QED
      BY <2>2, <3>1, <3>2, <3>3, <3>4, <3>5, <3>6, <3>7 DEF MainStep
  <2>3. CASE KcpBecomesReady \/ KcpFails \/ KcpStops \/ ManagerEnds
    BY <2>3 DEF KcpBecomesReady, KcpFails, KcpStops, ManagerEnds
  <2>4. CASE ShutdownStep
    BY <2>4 DEF ShutdownStep, ShutdownOnKcpError, ShutdownOnCancel, Drained
  <2>5. CASE Listen \/ HttpFails \/ HttpClosed
    BY <2>5 DEF Listen, HttpFails, MayFail, HttpClosed
  <2>6. CASE UNCHANGED lifecycleVars
    BY <2>6 DEF lifecycleVars
  <2>7. QED
    BY <2>1, <2>2, <2>3, <2>4, <2>5, <2>6 DEF RunNext, GoroutineStep
<1>3. QED
  BY <1>1, <1>2, PTL DEF RunSpec

(* An exit status of 0 always has a signal or a failed kcp behind it.      *)
THEOREM NilOnlyWhenStoppedHolds == RunSpec => []NilOnlyWhenStopped
<1>1. LifecycleInv => NilOnlyWhenStopped
  BY DEF LifecycleInv
<1>2. QED
  BY <1>1, LifecycleInvariant, PTL

(* Every position of Run has the earlier ones behind it.                   *)
THEOREM SetUpInvariant == RunSpec => []SetUpInv
<1> USE DEF SetUpInv, RunTypeOK, Modes, Results, SetUpInOrder, ServesOnlyWhenSetUp,
            ctxVars, runVars, embeddedVars, stopVars, httpVars
<1>1. RunInit => SetUpInv
  BY DEF RunInit
<1>2. SetUpInv /\ [RunNext]_lifecycleVars => SetUpInv'
  <2> SUFFICES ASSUME SetUpInv, [RunNext]_lifecycleVars PROVE SetUpInv'
    OBVIOUS
  <2>1. CASE Signal
    BY <2>1 DEF Signal
  <2>2. CASE MainStep \/ InstallSucceeds \/ InstallFails
    <3>1. CASE StartKcp \/ InstallSucceeds \/ InstallFails
      BY <3>1 DEF StartKcp, InstallSucceeds, InstallFails, Return
    <3>2. CASE AwaitKcp
      <4>1. CASE kcpReady /\ main' = "install" /\ UNCHANGED <<result, kcpErrCh>>
        BY <3>2, <4>1 DEF AwaitKcp
      <4>2. CASE kcpErrCh' \in BOOLEAN /\ Return("startError")
        BY <3>2, <4>2 DEF AwaitKcp, Return
      <4>3. QED
        BY <3>2, <4>1, <4>2 DEF AwaitKcp
    <3>3. CASE SetUpRoutes
      BY <3>3 DEF SetUpRoutes, Return
    <3>4. CASE StartServing
      BY <3>4 DEF StartServing, Return
    <3>5. CASE ReturnOnHttp \/ ReturnOnKcpError
      BY <3>5 DEF ReturnOnHttp, ReturnOnKcpError, Return
    <3>6. CASE AwaitHttp \/ ReturnOnCancel
      BY <3>6 DEF AwaitHttp, ReturnOnCancel, Return
    <3>7. QED
      BY <2>2, <3>1, <3>2, <3>3, <3>4, <3>5, <3>6 DEF MainStep
  <2>3. CASE KcpBecomesReady \/ KcpFails \/ KcpStops \/ ManagerEnds
    BY <2>3 DEF KcpBecomesReady, KcpFails, KcpStops, ManagerEnds
  <2>4. CASE ShutdownStep
    BY <2>4 DEF ShutdownStep, ShutdownOnKcpError, ShutdownOnCancel, Drained
  <2>5. CASE Listen \/ HttpFails \/ HttpClosed
    BY <2>5 DEF Listen, HttpFails, MayFail, HttpClosed
  <2>6. CASE UNCHANGED lifecycleVars
    BY <2>6 DEF lifecycleVars
  <2>7. QED
    BY <2>1, <2>2, <2>3, <2>4, <2>5, <2>6 DEF RunNext, GoroutineStep
<1>3. QED
  BY <1>1, <1>2, PTL DEF RunSpec

(* The variables keep their types.                                         *)
THEOREM LifecycleTypeCorrect == RunSpec => []RunTypeOK
<1>1. SetUpInv => RunTypeOK
  BY DEF SetUpInv
<1>2. QED
  BY <1>1, SetUpInvariant, PTL

(* The HTTP server is started by a Run that has its kcp, its installation  *)
(* and its controllers behind it.                                          *)
THEOREM ServesOnlyWhenSetUpHolds == RunSpec => []ServesOnlyWhenSetUp
<1>1. SetUpInv => ServesOnlyWhenSetUp
  BY DEF SetUpInv
<1>2. QED
  BY <1>1, SetUpInvariant, PTL

-----------------------------------------------------------------------------
(* The process as a whole.                                                 *)

(* As kcp sees it, it is one of the servers that bootstrap it.             *)
LEMMA BootstrapStep == ASSUME [StartNext]_startVars PROVE [Next]_vars
<1> USE SelfType
<1>1. CASE Bootstraps
  BY <1>1 DEF Bootstraps, Next, ServerStep, FileStep
<1>2. CASE BootstrapReturned \/ BootstrapFailed \/ RunStep
  BY <1>2 DEF BootstrapReturned, BootstrapFailed, RunStep
<1>3. CASE Others
  BY <1>3 DEF Others, Next
<1>4. CASE UNCHANGED startVars
  BY <1>4 DEF startVars
<1>5. QED
  BY <1>1, <1>2, <1>3, <1>4 DEF StartNext

(* As a process, it is a run of Server.Run.                                *)
LEMMA LifecycleStep == ASSUME [StartNext]_startVars PROVE [RunNext]_lifecycleVars
<1>1. CASE Bootstraps \/ Others
  BY <1>1 DEF Bootstraps, Others
<1>2. CASE BootstrapReturned
  BY <1>2 DEF BootstrapReturned, RunNext
<1>3. CASE BootstrapFailed
  BY <1>3 DEF BootstrapFailed, RunNext
<1>4. CASE RunStep
  BY <1>4 DEF RunStep, RunNext
<1>5. CASE UNCHANGED startVars
  BY <1>5 DEF startVars
<1>6. QED
  BY <1>1, <1>2, <1>3, <1>4, <1>5 DEF StartNext

(* The bootstrap inside the process is the bootstrap of Bootstrap, so that *)
(* all that is proved of it holds here.                                    *)
THEOREM StartImplementsBootstrap == StartSpec => Spec
<1>1. StartInit => Init
  BY DEF StartInit
<1>2. QED
  BY <1>1, BootstrapStep, PTL DEF StartSpec, Spec

(* And Run with a real bootstrap is the Run of ServerLifecycle.            *)
THEOREM StartImplementsLifecycle == StartSpec => RunSpec
<1>1. StartInit => RunInit
  BY DEF StartInit
<1>2. QED
  BY <1>1, LifecycleStep, PTL DEF StartSpec, RunSpec

(* Once Bootstrap has returned nil nothing moves the process from there.   *)
LEMMA DoneStays ==
  ASSUME TypeOK, [StartNext]_startVars, pc[self] = "done"
  PROVE  pc'[self] = "done"
<1> USE SelfType
<1>1. CASE Bootstraps
  <2>1. ~\E n \in Names : FileStep(self, n)
    BY DEF FileStep, NoMatch, AlreadyExists, GetCreateOnly, Get, Create, Update, Conflict,
           CallFails, Ensure, EnsureFails
  <2>2. ~ServerStep(self)
    BY <2>1 DEF ServerStep, Discover, NextStage, GiveUp
  <2>3. QED
    BY <1>1, <2>2 DEF Bootstraps, ServerStep, FileStep
<1>2. CASE BootstrapReturned \/ BootstrapFailed \/ RunStep
  BY <1>2 DEF BootstrapReturned, BootstrapFailed, RunStep, vars
<1>3. CASE Others
  <2>1. SamePlace(self)
    BY <1>3, OthersSamePlace DEF Others
  <2>2. QED
    BY <2>1 DEF SamePlace
<1>4. CASE UNCHANGED startVars
  BY <1>4 DEF startVars, vars
<1>5. QED
  BY <1>1, <1>2, <1>3, <1>4 DEF StartNext

(* Past the installation the process has a bootstrap behind it, for good.  *)
THEOREM BootstrappedBeforeHolds == StartSpec => []BootstrappedBefore
<1>1. StartInit => BootstrappedBefore
  BY DEF StartInit, RunInit, BootstrappedBefore
<1>2. TypeOK /\ BootstrappedBefore /\ [StartNext]_startVars => BootstrappedBefore'
  <2> SUFFICES ASSUME TypeOK, BootstrappedBefore, [StartNext]_startVars
               PROVE  BootstrappedBefore'
    OBVIOUS
  <2> USE DEF BootstrappedBefore, UsesKcp
  <2>1. pc[self] = "done" => pc'[self] = "done"
    BY DoneStays
  <2>2. CASE Bootstraps \/ Others
    BY <2>1, <2>2 DEF Bootstraps, Others, lifecycleVars, ctxVars, runVars, httpVars
  <2>3. CASE BootstrapReturned
    BY <2>3, <2>1 DEF BootstrapReturned, InstallSucceeds, ctxVars, httpVars
  <2>4. CASE BootstrapFailed
    BY <2>4, <2>1 DEF BootstrapFailed, InstallFails, Return, ctxVars, httpVars
  <2>5. CASE RunStep
    <3> USE <2>1 DEF ctxVars, runVars, embeddedVars, stopVars, httpVars, Return
    <3>1. CASE Signal
      BY <3>1 DEF Signal
    <3>2. CASE MainStep
      BY <3>2 DEF MainStep, StartKcp, AwaitKcp, SetUpRoutes, StartServing, ReturnOnHttp,
                  ReturnOnKcpError, AwaitHttp, ReturnOnCancel, InstallFails
    <3>3. CASE GoroutineStep
      BY <3>3 DEF GoroutineStep, KcpBecomesReady, KcpFails, KcpStops, ManagerEnds, ShutdownStep,
                  ShutdownOnKcpError, ShutdownOnCancel, Drained, Listen, HttpFails, MayFail, HttpClosed
    <3>4. QED
      BY <2>5, <3>1, <3>2, <3>3 DEF RunStep
  <2>6. CASE UNCHANGED startVars
    BY <2>6 DEF startVars, vars, lifecycleVars, ctxVars, runVars, httpVars
  <2>7. QED
    BY <2>2, <2>3, <2>4, <2>5, <2>6 DEF StartNext
<1>3. QED
  BY <1>1, <1>2, StartImplementsBootstrap, TypeCorrect, PTL DEF StartSpec

(* HTTP and the controllers are started only over a kcp that has           *)
(* everything the bootstrap installs, except what an administrator has     *)
(* deleted since.                                                          *)
THEOREM ServesOnlyBootstrappedHolds == StartSpec => []ServesOnlyBootstrapped
<1>1. BootstrappedBefore /\ DoneMeansInstalled => ServesOnlyBootstrapped
  BY SelfType DEF BootstrappedBefore, DoneMeansInstalled, DoneOK, ServesOnlyBootstrapped
<1>2. QED
  BY <1>1, BootstrappedBeforeHolds, StartImplementsBootstrap, DoneMeansInstalledHolds, PTL
=============================================================================
