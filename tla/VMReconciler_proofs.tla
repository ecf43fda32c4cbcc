------------------------- MODULE VMReconciler_proofs -------------------------
(***************************************************************************)
(* What the VirtualMachine controller guarantees for any number of servers *)
(* and any history of the object: its phases come in order, and no server  *)
(* loses track of a VM that still has work to do.                          *)
(***************************************************************************)
EXTENDS VMReconciler, TLAPS

USE ServersType, MaxTenantVersionType

(* What Store does to the log.                                             *)
LEMMA LogGrows ==
  ASSUME log \in Seq(Versions), log # <<>>, NEW v \in Versions, log' = Append(log, v)
  PROVE  /\ Len(log) \in Nat /\ Len(log) >= 1
         /\ Current \in Versions
         /\ Len(log') = Len(log) + 1
         /\ log' \in Seq(Versions) /\ log' # <<>>
         /\ \A n \in 1..Len(log) : log'[n] = log[n] /\ log[n] \in Versions
         /\ log'[Len(log) + 1] = v
         /\ Current' = v
  BY DEF Current

LEMMA LogEntries ==
  ASSUME log \in Seq(Versions), log # <<>>
  PROVE  /\ Len(log) \in Nat /\ Len(log) >= 1
         /\ Len(log) \in 1..Len(log)
         /\ Current = log[Len(log)]
         /\ Current \in Versions
         /\ \A n \in 1..Len(log) : log[n] \in Versions
  BY DEF Current

LEMMA IndicesStay ==
  ASSUME NEW n \in Nat, NEW f \in [Servers -> 1..n]
  PROVE  f \in [Servers -> 1..(n + 1)]
  OBVIOUS

(* Each version the tenant, kcp or the controller stores is well formed.   *)
LEMMA StoredVersions ==
  /\ NoObject \in Versions
  /\ \A n \in Nat : Created(n) \in Versions
  /\ \A v \in Versions : [v EXCEPT !.terminating = TRUE] \in Versions
  /\ \A v \in Versions : Advanced(v) \in Versions
<1>1. \A n \in Nat : Created(n) \in Versions
  BY DEF Created, Versions, Phases, Conditions, NoConditions
<1>2. \A v \in Versions : [v EXCEPT !.terminating = TRUE] \in Versions
  BY DEF Versions
<1>3. ASSUME NEW v \in Versions PROVE Advanced(v) \in Versions
  <2>1. CASE v.phase = ""
    <3>1. SetCondition(v.conditions, "progressing", "True") \in Conditions
      BY DEF SetCondition, Conditions, Versions
    <3>2. QED
      BY <2>1, <3>1 DEF Advanced, Versions, Phases
  <2>2. CASE v.phase # ""
    <3>1. SetCondition(SetCondition(v.conditions, "available", "True"), "progressing", "False")
            \in Conditions
      BY DEF SetCondition, Conditions, Versions
    <3>2. QED
      BY <2>2, <3>1 DEF Advanced, Versions, Phases
  <2>3. QED
    BY <2>1, <2>2
<1>4. QED
  BY <1>1, <1>2, <1>3 DEF NoObject

(* Every step either leaves the log alone or stores a version that follows *)
(* from the current one.                                                   *)
LEMMA TenantStores ==
  ASSUME TypeOK, TenantStep \/ CollectorRemoves
  PROVE  /\ \E v \in {NoObject, Created(Len(log) + 1), Current,
                     [Current EXCEPT !.terminating = TRUE]} : log' = Append(log, v)
         /\ UNCHANGED <<backend, pos, queueVars, workVars>>
  BY DEF TenantStep, TenantCreates, TenantEdits, TenantDeletes, TenantDeletesInForeground,
         CollectorRemoves, Store

(* The object, the caches and the queues keep their types.                 *)
THEOREM TypeCorrect == Spec => []TypeOK
<1>1. Init => TypeOK
  <2> SUFFICES ASSUME Init PROVE TypeOK
    OBVIOUS
  <2>1. <<NoObject>> \in Seq(Versions) /\ <<NoObject>> # <<>> /\ Len(<<NoObject>>) = 1
    BY StoredVersions
  <2>2. /\ backend \in SUBSET Nat
        /\ pc \in [Servers -> {"idle", "update"}]
    BY DEF Init
  <2>3. pos \in [Servers -> 1..1] /\ read \in [Servers -> 1..1]
    BY DEF Init
  <2>4. queued \in [Servers -> BOOLEAN] /\ delayed \in [Servers -> SUBSET {"retry", "requeue"}]
    BY DEF Init
  <2>5. log = <<NoObject>>
    BY DEF Init
  <2>6. QED
    BY <2>1, <2>2, <2>3, <2>4, <2>5 DEF TypeOK
<1>2. TypeOK /\ [Next]_vars => TypeOK'
  <2> SUFFICES ASSUME TypeOK, [Next]_vars PROVE TypeOK'
    OBVIOUS
  <2> USE DEF TypeOK
  <2>0. /\ Len(log) \in Nat /\ Len(log) >= 1 /\ Current \in Versions
        /\ \A s \in Servers : log[pos[s]] \in Versions /\ log[read[s]] \in Versions
    BY LogEntries
  <2>1. CASE TenantStep \/ CollectorRemoves
    <3>0. {NoObject, Created(Len(log) + 1), Current, [Current EXCEPT !.terminating = TRUE]}
            \subseteq Versions
      <4>1. Created(Len(log) + 1) \in Versions
        <5>1. Len(log) + 1 \in Nat
          BY <2>0
        <5>2. QED
          BY <5>1, StoredVersions, Zenon
      <4>2. [Current EXCEPT !.terminating = TRUE] \in Versions
        BY <2>0, StoredVersions
      <4>3. QED
        BY <4>1, <4>2, <2>0, StoredVersions
    <3>1. PICK v \in Versions : log' = Append(log, v)
      BY <2>1, <3>0, TenantStores
    <3>2. log' \in Seq(Versions) /\ log' # <<>> /\ Len(log') = Len(log) + 1
      BY <3>1, LogGrows DEF Store
    <3>3. UNCHANGED <<backend, pos, queueVars, workVars>>
      BY <2>1, TenantStores
    <3>4. pos' \in [Servers -> 1..Len(log')] /\ read' \in [Servers -> 1..Len(log')]
      BY <3>2, <3>3, <2>0, IndicesStay DEF workVars
    <3>5. QED
      BY <3>2, <3>3, <3>4 DEF queueVars, workVars
  <2>2. ASSUME NEW s \in Servers, ServerStep(s) PROVE TypeOK'
    <3> USE DEF queueVars, workVars
    <3>1. CASE Deliver(s)
      BY <3>1, <2>0 DEF Deliver
    <3>2. ASSUME NEW why \in {"retry", "requeue"}, Requeue(s, why) PROVE TypeOK'
      BY <3>2 DEF Requeue
    <3>3. CASE ReconcileFails(s)
      BY <3>3 DEF ReconcileFails
    <3>4. CASE Reconcile(s)
      <4>1. backend' \in SUBSET Nat
        BY <3>4, <2>0 DEF Reconcile, Versions
      <4>2. QED
        BY <3>4, <4>1 DEF Reconcile
    <3>5. CASE UpdateFails(s)
      BY <3>5 DEF UpdateFails
    <3>6. ASSUME NEW answered \in BOOLEAN, UpdateStatus(s, answered) PROVE TypeOK'
      <4>1. log' = Append(log, Advanced(log[read[s]])) /\ Advanced(log[read[s]]) \in Versions
        BY <3>6, <2>0, StoredVersions DEF UpdateStatus, Store
      <4>2. log' \in Seq(Versions) /\ log' # <<>> /\ Len(log') = Len(log) + 1
        BY <4>1, LogGrows
      <4>4. delayed' \in [Servers -> SUBSET {"retry", "requeue"}]
        BY <3>6 DEF UpdateStatus
      <4>5. pos' \in [Servers -> 1..Len(log')] /\ read' \in [Servers -> 1..Len(log')]
        BY <3>6, <4>2, <2>0, IndicesStay DEF UpdateStatus
      <4>6. QED
        BY <3>6, <4>2, <4>4, <4>5 DEF UpdateStatus
    <3>7. CASE ServerRestarts(s)
      <4>1. Exists(Current) \in BOOLEAN
        BY DEF Exists
      <4>2. QED
        BY <3>7, <4>1, <2>0 DEF ServerRestarts
    <3>8. QED
      BY <2>2, <3>1, <3>2, <3>3, <3>4, <3>5, <3>6, <3>7 DEF ServerStep, AnyUpdate
  <2>3. CASE UNCHANGED vars
    BY <2>3 DEF vars, queueVars, workVars
  <2>4. QED
    BY <2>1, <2>2, <2>3 DEF Next
<1>3. QED
  BY <1>1, <1>2, PTL DEF Spec

-----------------------------------------------------------------------------
(* What an advanced status looks like.                                     *)
LEMMA AdvancedVersion ==
  ASSUME NEW v \in Versions, Advances(v), StatusAgrees(v)
  PROVE  /\ Advanced(v).uid = v.uid /\ ~Advanced(v).terminating
         /\ Advanced(v).phase # ""
         /\ StatusAgrees(Advanced(v))
<1>1. CASE v.phase = ""
  <2>1. SetCondition(NoConditions, "progressing", "True")
          = [available |-> "absent", progressing |-> "True"]
    BY DEF SetCondition, NoConditions
  <2>2. v.conditions = NoConditions
    BY <1>1 DEF StatusAgrees
  <2>3. Advanced(v) = [v EXCEPT !.phase = "Provisioning",
                                !.conditions = [available |-> "absent", progressing |-> "True"]]
    BY <1>1, <2>1, <2>2 DEF Advanced, Versions
  <2>4. QED
    BY <2>3 DEF Advances, StatusAgrees, Versions
<1>2. CASE v.phase = "Provisioning"
  <2>1. v.conditions = [available |-> "absent", progressing |-> "True"]
    BY <1>2 DEF StatusAgrees
  <2>2. SetCondition(SetCondition(v.conditions, "available", "True"), "progressing", "False")
          = [available |-> "True", progressing |-> "False"]
    BY <2>1 DEF SetCondition
  <2>3. Advanced(v) = [v EXCEPT !.phase = "Running", !.ip = TRUE,
                                !.conditions = [available |-> "True", progressing |-> "False"]]
    BY <1>2, <2>2 DEF Advanced, Versions
  <2>4. QED
    BY <2>3 DEF Advances, StatusAgrees, Versions
<1>3. QED
  BY <1>1, <1>2 DEF Advances

(* A version fit to be stored after the current one.                       *)
Storable(v) ==
  /\ v.uid <= Len(log) + 1
  /\ StatusAgrees(v)
  /\ Destroys(Current) /\ v.uid = Current.uid => Destroys(v)
  /\ v.uid \in {0, Len(log) + 1, Current.uid}
  /\ Exists(v) /\ ~v.terminating /\ v.phase # "" => v.uid \in backend

(* Storing such a version preserves the invariant: no server's cache or    *)
(* read is at the new version, so no update of theirs can be accepted any  *)
(* more, and every server has an event to see.                             *)
LEMMA StoreStep ==
  ASSUME TypeOK, ReconcilerInv, NEW v \in Versions, Storable(v), log' = Append(log, v),
         UNCHANGED <<backend, pos, read>>,
         \A s \in Servers : pc'[s] = "update" => pc[s] = "update"
  PROVE  ReconcilerInv'
<1> USE DEF TypeOK, ReconcilerInv
<1>1. /\ Len(log) \in Nat /\ Len(log) >= 1 /\ Current \in Versions
      /\ Len(log') = Len(log) + 1 /\ Current' = v
      /\ \A n \in 1..Len(log) : log'[n] = log[n] /\ log[n] \in Versions
      /\ log'[Len(log) + 1] = v
      /\ Current = log[Len(log)]
  BY LogGrows DEF Current
<1>2. \A n \in 1..Len(log') : n \in 1..Len(log) \/ n = Len(log) + 1
  BY <1>1
<1>3. UidsAreNew'
  BY <1>1, <1>2 DEF UidsAreNew, Storable
<1>4. UpdatesAdvance'
  <2> SUFFICES ASSUME NEW s \in Servers, pc'[s] = "update"
               PROVE  Advances(log'[read'[s]]) /\ ~Accepted(s)'
    BY DEF UpdatesAdvance
  <2>1. read[s] \in 1..Len(log) /\ read'[s] = read[s]
    OBVIOUS
  <2>2. QED
    BY <1>1, <2>1 DEF UpdatesAdvance, Accepted
<1>5. DeletionStays'
  <2> SUFFICES ASSUME NEW m \in 1..Len(log'), NEW n \in 1..Len(log'), m <= n,
                      log'[m].uid = log'[n].uid, Destroys(log'[m])
               PROVE  Destroys(log'[n])
    BY DEF DeletionStays
  <2>1. CASE n \in 1..Len(log)
    BY <2>1, <1>1, <1>2 DEF DeletionStays
  <2>2. CASE m = Len(log) + 1
    BY <2>2, <1>1, <1>2
  <2>3. CASE m \in 1..Len(log) /\ n = Len(log) + 1
    <3>1. log[m].uid = v.uid /\ Destroys(log[m]) /\ log[m].uid <= m /\ log[m].uid # 0
      BY <2>3, <1>1 DEF UidsAreNew, Destroys, Exists
    <3>2. v.uid = Current.uid
      <4>1. m <= Len(log) /\ v.uid <= m /\ v.uid # 0
        BY <3>1, <2>3, <1>1
      <4>2. v.uid \in Nat /\ v.uid # Len(log) + 1
        BY <4>1, <2>3, <1>1 DEF Versions
      <4>3. QED
        BY <4>1, <4>2 DEF Storable
    <3>3. Destroys(Current)
      <4>1. Len(log) \in 1..Len(log) /\ m <= Len(log) /\ log[m].uid = log[Len(log)].uid
        BY <3>1, <3>2, <2>3, <1>1
      <4>2. QED
        BY <4>1, <3>1, <2>3, <1>1 DEF DeletionStays
    <3>4. QED
      BY <3>2, <3>3, <2>3, <1>1 DEF Storable
  <2>4. QED
    BY <2>1, <2>2, <2>3, <1>2
<1>6. StatusConsistent'
  BY <1>1, <1>2 DEF StatusConsistent, Storable
<1>7. PhaseMeansVMI'
  BY <1>1 DEF PhaseMeansVMI, Storable
<1>8. NoLostWakeup'
  BY <1>1 DEF NoLostWakeup
<1>9. QED
  BY <1>3, <1>4, <1>5, <1>6, <1>7, <1>8

(* The tenant and kcp store only such versions.                            *)
Stored(v) == v \in Versions /\ Storable(v) /\ Follows(Current, v)

LEMMA TenantStoresStorable ==
  ASSUME TypeOK, ReconcilerInv
  PROVE  /\ Stored(NoObject)
         /\ Stored(Created(Len(log) + 1))
         /\ Stored(Current)
         /\ Stored([Current EXCEPT !.terminating = TRUE])
<1>1. /\ Len(log) \in Nat /\ Len(log) >= 1 /\ Current \in Versions /\ Current = log[Len(log)]
      /\ Len(log) \in 1..Len(log)
  BY LogEntries DEF TypeOK
<1>2. /\ Current.uid \in Nat /\ Current.uid <= Len(log) /\ StatusAgrees(Current)
  BY <1>1 DEF ReconcilerInv, UidsAreNew, StatusConsistent, Versions
<1>3. Exists(Current) /\ ~Current.terminating /\ Current.phase # "" => Current.uid \in backend
  BY DEF ReconcilerInv, PhaseMeansVMI
<1>4. ASSUME NEW n \in Nat, n = 0 \/ n = Len(log) + 1
      PROVE  Stored(Created(n))
  <2>1. Created(n) \in Versions
    BY StoredVersions
  <2>2. Created(n).uid = n /\ Created(n).phase = "" /\ Created(n).conditions = NoConditions
    BY DEF Created
  <2>3. StatusAgrees(Created(n))
    BY <2>2 DEF StatusAgrees
  <2>4. ~(Destroys(Current) /\ n = Current.uid)
    BY <1>1, <1>2, <1>4 DEF Destroys, Exists
  <2>5. Storable(Created(n))
    <3>1. n <= Len(log) + 1 /\ n \in {0, Len(log) + 1, Current.uid}
      BY <1>1, <1>4
    <3>2. QED
      BY <3>1, <2>2, <2>3, <2>4 DEF Storable
  <2>6. Follows(Current, Created(n))
    <3>1. n = 0 \/ n # Current.uid
      BY <1>1, <1>2, <1>4
    <3>2. QED
      BY <3>1, <2>2 DEF Follows, NoObject
  <2>7. QED
    BY <2>1, <2>5, <2>6 DEF Stored
<1>5. Stored(NoObject)
  BY <1>4 DEF NoObject
<1>6. Stored(Created(Len(log) + 1))
  <2>1. Len(log) + 1 \in Nat
    BY <1>1
  <2>2. QED
    BY <2>1, <1>4
<1>7. Stored(Current)
  <2>1. Storable(Current)
    <3>1. Current.uid <= Len(log) + 1
      BY <1>1, <1>2
    <3>2. Current.uid \in {0, Len(log) + 1, Current.uid}
      OBVIOUS
    <3>3. Destroys(Current) /\ Current.uid = Current.uid => Destroys(Current)
      OBVIOUS
    <3>4. QED
      BY <3>1, <3>2, <3>3, <1>2, <1>3 DEF Storable
  <2>2. QED
    BY <2>1, <1>1 DEF Stored, Follows
<1>8. ASSUME NEW v \in Versions, v = [Current EXCEPT !.terminating = TRUE]
      PROVE  Stored(v)
  <2>1. /\ v.uid = Current.uid /\ v.terminating /\ v.phase = Current.phase
        /\ v.conditions = Current.conditions /\ v.ip = Current.ip
    BY <1>8, <1>1 DEF Versions
  <2>2. StatusAgrees(v) /\ (Destroys(Current) => Destroys(v))
    BY <2>1, <1>2 DEF StatusAgrees, Destroys, Exists
  <2>3. Storable(v)
    BY <2>1, <2>2, <1>1, <1>2 DEF Storable
  <2>4. QED
    BY <2>1, <2>3 DEF Stored, Follows
<1>9. QED
  BY <1>1, <1>5, <1>6, <1>7, <1>8, StoredVersions

(* So does an accepted update of a controller: it advances the current     *)
(* version, because that is the one it has read.                           *)
LEMMA UpdateStoresStorable ==
  ASSUME TypeOK, ReconcilerInv, NEW s \in Servers, pc[s] = "update", Accepted(s)
  PROVE  /\ log[read[s]] = Current /\ Advances(Current)
         /\ Advanced(Current) \in Versions /\ Storable(Advanced(Current))
<1>1. /\ Len(log) \in Nat /\ Len(log) >= 1 /\ Current \in Versions /\ Current = log[Len(log)]
      /\ Len(log) \in 1..Len(log)
  BY LogEntries DEF TypeOK
<1>2. log[read[s]] = Current /\ Advances(Current) /\ Current.uid \in backend
  BY <1>1 DEF ReconcilerInv, UpdatesAdvance, Accepted
<1>3. Current.uid \in Nat /\ Current.uid <= Len(log) /\ StatusAgrees(Current)
  BY <1>1 DEF ReconcilerInv, UidsAreNew, StatusConsistent, Versions
<1>4. Advanced(Current).uid = Current.uid /\ StatusAgrees(Advanced(Current))
  BY <1>1, <1>2, <1>3, AdvancedVersion
<1>5. Storable(Advanced(Current))
  <2>1. ~Destroys(Current)
    BY <1>2 DEF Advances, Destroys
  <2>2. QED
    <3>1. Current.uid <= Len(log) + 1
      BY <1>1, <1>3
    <3>2. QED
      BY <3>1, <1>2, <1>4, <2>1 DEF Storable
<1>6. QED
  BY <1>1, <1>2, <1>5, StoredVersions

(* Reconcile's read and the mock's part of the work preserve the invariant *)
(* too: a VMI is destroyed only for an incarnation that is being deleted   *)
(* or gone.                                                                *)
LEMMA ReconcileStep ==
  ASSUME TypeOK, ReconcilerInv, NEW s \in Servers, Reconcile(s)
  PROVE  ReconcilerInv'
<1> DEFINE v == log[pos[s]]
<1> USE DEF TypeOK, ReconcilerInv
<1>1. /\ Len(log) \in Nat /\ Len(log) >= 1 /\ Current \in Versions /\ Current = log[Len(log)]
      /\ Len(log) \in 1..Len(log) /\ v \in Versions /\ pos[s] \in 1..Len(log)
  BY LogEntries
<1>2. UNCHANGED <<log, pos, delayed>> /\ Current' = Current
  BY DEF Reconcile, Current
<1>3. ASSUME ~Destroys(Current), Exists(Current), Current.uid \in backend
      PROVE  Current.uid \in backend'
  <2>1. ~(Destroys(v) /\ v.uid = Current.uid)
    <3>1. pos[s] <= Len(log)
      BY <1>1
    <3>2. QED
      BY <1>1, <1>3, <3>1 DEF DeletionStays
  <2>2. QED
    BY <2>1, <1>3 DEF Reconcile
<1>4. UpdatesAdvance'
  <2> SUFFICES ASSUME NEW t \in Servers, pc'[t] = "update"
               PROVE  Advances(log[read'[t]])
                        /\ (read'[t] = Len(log) => Current.uid \in backend')
    BY <1>2 DEF UpdatesAdvance, Accepted
  <2>1. CASE t = s
    <3>1. Advances(v) /\ read'[t] = pos[s]
      BY <2>1 DEF Reconcile
    <3>2. ASSUME pos[s] = Len(log) PROVE Current.uid \in backend'
      <4>1. v = Current /\ Advances(Current)
        BY <3>1, <3>2, <1>1
      <4>2. CASE Current.phase = ""
        BY <4>1, <4>2 DEF Reconcile, CreatesVMI, Advances, Destroys
      <4>3. CASE Current.phase # ""
        BY <4>1, <4>3, <1>3 DEF PhaseMeansVMI, Advances, Destroys
      <4>4. QED
        BY <4>2, <4>3
    <3>3. QED
      BY <3>1, <3>2
  <2>2. CASE t # s
    <3>1. pc[t] = "update" /\ read'[t] = read[t]
      BY <2>2 DEF Reconcile
    <3>2. Advances(log[read[t]]) /\ (read[t] = Len(log) => Current.uid \in backend)
      BY <3>1 DEF UpdatesAdvance, Accepted
    <3>3. QED
      BY <3>1, <3>2, <1>1, <1>3 DEF Advances, Destroys
  <2>3. QED
    BY <2>1, <2>2
<1>5. PhaseMeansVMI'
  BY <1>2, <1>3 DEF PhaseMeansVMI, Destroys
<1>6. NoLostWakeup'
  <2> SUFFICES ASSUME Advances(Current), NEW t \in Servers
               PROVE  \/ pos[t] < Len(log) \/ queued'[t] \/ delayed[t] # {}
                      \/ pc'[t] = "update"
    BY <1>2 DEF NoLostWakeup
  <2>1. CASE t = s
    <3>1. pos[s] < Len(log) \/ v = Current
      BY <1>1
    <3>2. QED
      BY <3>1, <2>1 DEF Reconcile
  <2>2. CASE t # s
    BY <2>2 DEF Reconcile, NoLostWakeup
  <2>3. QED
    BY <2>1, <2>2
<1>7. UidsAreNew' /\ DeletionStays' /\ StatusConsistent'
  BY <1>2 DEF UidsAreNew, DeletionStays, StatusConsistent
<1>8. QED
  BY <1>4, <1>5, <1>6, <1>7

(* The steps that only touch one server's queue, timers or cache.          *)
LEMMA BookkeepingStep ==
  ASSUME TypeOK, ReconcilerInv, NEW s \in Servers,
         \/ Deliver(s) \/ ReconcileFails(s) \/ UpdateFails(s) \/ ServerRestarts(s)
         \/ \E why \in {"retry", "requeue"} : Requeue(s, why)
  PROVE  ReconcilerInv'
<1> USE DEF TypeOK, ReconcilerInv, queueVars, workVars
<1>1. UNCHANGED <<log, backend, read>> /\ Current' = Current
  BY DEF Deliver, ReconcileFails, UpdateFails, ServerRestarts, Requeue, Current
<1>2. \A t \in Servers : pc'[t] = "update" => pc[t] = "update"
  BY DEF Deliver, ReconcileFails, UpdateFails, ServerRestarts, Requeue
<1>3. UpdatesAdvance'
  BY <1>1, <1>2 DEF UpdatesAdvance, Accepted
<1>4. UidsAreNew' /\ DeletionStays' /\ StatusConsistent' /\ PhaseMeansVMI'
  BY <1>1 DEF UidsAreNew, DeletionStays, StatusConsistent, PhaseMeansVMI
<1>5. NoLostWakeup'
  <2> SUFFICES ASSUME Advances(Current), NEW t \in Servers
               PROVE  \/ pos'[t] < Len(log) \/ queued'[t] \/ delayed'[t] # {}
                      \/ pc'[t] = "update"
    BY <1>1 DEF NoLostWakeup
  <2>1. pos[t] < Len(log) \/ queued[t] \/ delayed[t] # {} \/ pc[t] = "update"
    BY DEF NoLostWakeup
  <2>2. CASE Deliver(s)
    BY <2>1, <2>2 DEF Deliver
  <2>3. CASE ReconcileFails(s)
    BY <2>1, <2>3 DEF ReconcileFails
  <2>4. CASE UpdateFails(s)
    BY <2>1, <2>4 DEF UpdateFails
  <2>5. CASE ServerRestarts(s)
    BY <2>1, <2>5 DEF ServerRestarts, Advances
  <2>6. ASSUME NEW why \in {"retry", "requeue"}, Requeue(s, why)
        PROVE  pos'[t] < Len(log) \/ queued'[t] \/ delayed'[t] # {} \/ pc'[t] = "update"
    BY <2>1, <2>6 DEF Requeue
  <2>7. QED
    BY <2>2, <2>3, <2>4, <2>5, <2>6
<1>6. QED
  BY <1>3, <1>4, <1>5

(* Every step keeps the invariant, and every version it stores follows     *)
(* from the one before.                                                    *)
LEMMA InvariantStep ==
  ASSUME TypeOK, ReconcilerInv, [Next]_vars
  PROVE  ReconcilerInv' /\ [Follows(Current, Current')]_vars
<1>1. ASSUME TenantStep \/ CollectorRemoves
      PROVE  ReconcilerInv' /\ Follows(Current, Current')
  <2>1. PICK v : Stored(v) /\ log' = Append(log, v)
    BY <1>1, TenantStores, TenantStoresStorable
  <2>2. UNCHANGED <<backend, pos, read, pc>>
    BY <1>1, TenantStores DEF workVars
  <2>3. Current' = v
    BY <2>1, LogGrows DEF TypeOK, Stored
  <2>4. ReconcilerInv'
    BY <2>1, <2>2, StoreStep DEF Stored
  <2>5. QED
    BY <2>1, <2>3, <2>4 DEF Stored
<1>2. ASSUME NEW s \in Servers, NEW answered \in BOOLEAN, UpdateStatus(s, answered)
      PROVE  ReconcilerInv' /\ Follows(Current, Current')
  <2>1. pc[s] = "update" /\ Accepted(s)
    BY <1>2 DEF UpdateStatus
  <2>2. /\ log' = Append(log, Advanced(Current)) /\ Advanced(Current) \in Versions
        /\ Storable(Advanced(Current)) /\ Advances(Current)
    BY <1>2, <2>1, UpdateStoresStorable DEF UpdateStatus, Store
  <2>3. UNCHANGED <<backend, pos, read>> /\ \A t \in Servers : pc'[t] = "update" => pc[t] = "update"
    BY <1>2 DEF UpdateStatus, TypeOK
  <2>4. Current' = Advanced(Current)
    BY <2>2, LogGrows DEF TypeOK
  <2>5. ReconcilerInv'
    BY <2>2, <2>3, StoreStep
  <2>6. QED
    BY <2>2, <2>4, <2>5 DEF Follows, Advances
<1>3. ASSUME NEW s \in Servers,
             \/ Deliver(s) \/ ReconcileFails(s) \/ UpdateFails(s) \/ ServerRestarts(s)
             \/ Reconcile(s) \/ \E why \in {"retry", "requeue"} : Requeue(s, why)
      PROVE  ReconcilerInv' /\ Follows(Current, Current')
  <2>1. Current' = Current
    BY <1>3 DEF Deliver, ReconcileFails, UpdateFails, ServerRestarts, Requeue, Reconcile, Current
  <2>2. ReconcilerInv'
    BY <1>3, BookkeepingStep, ReconcileStep
  <2>3. QED
    BY <2>1, <2>2 DEF Follows
<1>4. CASE UNCHANGED vars
  <2>1. UNCHANGED <<log, backend, pos, queued, delayed, pc, read>>
    BY <1>4 DEF vars, queueVars, workVars
  <2>2. QED
    BY <1>4, <2>1 DEF ReconcilerInv, UidsAreNew, UpdatesAdvance, DeletionStays, StatusConsistent,
       PhaseMeansVMI, NoLostWakeup, Accepted, Current
<1>5. QED
  BY <1>1, <1>2, <1>3, <1>4 DEF Next, ServerStep, AnyUpdate

(* What is stored, cached, queued and about to be written fits together.   *)
THEOREM ReconcilerInvariant == Spec => []ReconcilerInv
<1>1. Init => ReconcilerInv
  <2> SUFFICES ASSUME Init PROVE ReconcilerInv
    OBVIOUS
  <2>1. /\ log = <<NoObject>> /\ Len(log) = 1 /\ log[1] = NoObject /\ Current = NoObject
        /\ 1..Len(log) = {1}
    BY DEF Init, Current
  <2>2. /\ NoObject.uid = 0 /\ NoObject.phase = "" /\ NoObject.conditions = NoConditions
        /\ ~NoObject.terminating
    BY DEF NoObject, Created
  <2>3. ~Exists(NoObject) /\ ~Advances(NoObject) /\ ~Destroys(NoObject) /\ StatusAgrees(NoObject)
    BY <2>2 DEF Exists, Advances, Destroys, StatusAgrees
  <2>4. \A s \in Servers : pc[s] = "idle"
    BY DEF Init
  <2>5. UidsAreNew /\ DeletionStays /\ StatusConsistent
    <3>1. \A n \in 1..Len(log) : n = 1 /\ log[n] = NoObject
      BY <2>1
    <3>2. ASSUME NEW n \in 1..Len(log) PROVE log[n].uid <= n
      <4>1. log[n].uid = 0 /\ n = 1
        BY <3>1, <2>2
      <4>2. QED
        BY <4>1
    <3>3. DeletionStays
      BY <3>1 DEF DeletionStays
    <3>4. StatusConsistent
      BY <3>1, <2>3 DEF StatusConsistent
    <3>5. QED
      BY <3>2, <3>3, <3>4 DEF UidsAreNew
  <2>6. UpdatesAdvance /\ PhaseMeansVMI /\ NoLostWakeup
    BY <2>1, <2>3, <2>4 DEF UpdatesAdvance, PhaseMeansVMI, NoLostWakeup
  <2>7. QED
    BY <2>5, <2>6 DEF ReconcilerInv
<1>2. TypeOK /\ ReconcilerInv /\ [Next]_vars => ReconcilerInv'
  BY InvariantStep
<1>3. QED
  BY <1>1, <1>2, TypeCorrect, PTL DEF Spec

(* Phases come one by one, never back, not after deletion and never from   *)
(* an earlier incarnation, whatever the caches hold.                       *)
THEOREM PhasesInOrderHolds == Spec => PhasesInOrder
<1>1. TypeOK /\ ReconcilerInv /\ [Next]_vars => [Follows(Current, Current')]_vars
  BY InvariantStep
<1>2. QED
  BY <1>1, TypeCorrect, ReconcilerInvariant, PTL DEF Spec, PhasesInOrder

(* No server ever forgets a VM that still has work to do.                  *)
THEOREM NoLostWakeupHolds == Spec => []NoLostWakeup
<1>1. ReconcilerInv => NoLostWakeup
  BY DEF ReconcilerInv
<1>2. QED
  BY <1>1, ReconcilerInvariant, PTL

(* A phase always has a VMI behind it.                                     *)
THEOREM PhaseMeansVMIHolds == Spec => []PhaseMeansVMI
<1>1. ReconcilerInv => PhaseMeansVMI
  BY DEF ReconcilerInv
<1>2. QED
  BY <1>1, ReconcilerInvariant, PTL
=============================================================================
