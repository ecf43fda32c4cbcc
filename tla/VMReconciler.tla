---------------------------- MODULE VMReconciler ----------------------------
(***************************************************************************)
(* The VirtualMachine controller of                                        *)
(* platform/pkg/controllers/compute/virtualmachines/reconciler.go, for one *)
(* tenant cluster and one name of a VirtualMachine in it, while the tenant *)
(* creates, edits, deletes and recreates the object of that name.          *)
(*                                                                         *)
(* Every platform server runs the controller, without leader election.     *)
(* Reconcile reads the object from its informer's cache, which lags behind *)
(* kcp; it acts on the phase it finds and writes the next status.  The     *)
(* write carries the resourceVersion that was read, and kcp refuses it if  *)
(* the object has changed since.                                           *)
(*                                                                         *)
(* log holds what kcp has stored under the name over time; an index of log *)
(* is a resourceVersion, and the last entry is the current one.  The       *)
(* external parts are kcp's storage and watches, and the workqueue of      *)
(* controller-runtime, which works on one key at a time in each server.    *)
(***************************************************************************)
EXTENDS Naturals, Sequences, FiniteSets

CONSTANTS
  Servers,         \* platform servers running the controller
  MaxTenantVersion \* bound: the tenant changes nothing past this version

ASSUME ServersType == Servers # {}
ASSUME MaxTenantVersionType == MaxTenantVersion \in Nat

VARIABLES
  log,      \* kcp: the versions of the object
  backend,  \* the KubeVirt mock: incarnations whose VMI exists
  pos,      \* the version in each server's cache
  queued,   \* the key is in the server's workqueue
  delayed,  \* delayed additions to the queue: "retry" and "requeue"
  pc,       \* "idle" or "update": between Reconcile's read and its write
  read      \* the version Reconcile has read

queueVars == <<queued, delayed>>
workVars == <<pc, read>>
vars == <<log, backend, pos, queueVars, workVars>>

(* An object, as far as the controller is concerned.  uid tells an         *)
(* incarnation of the name from the next one; 0 is no object at all.       *)
Phases == {"", "Provisioning", "Running"}
Conditions == [available : {"absent", "True"}, progressing : {"absent", "True", "False"}]
NoConditions == [available |-> "absent", progressing |-> "absent"]
Versions ==
  [uid : Nat, terminating : BOOLEAN, phase : Phases, ip : BOOLEAN, conditions : Conditions]
Created(uid) ==
  [uid |-> uid, terminating |-> FALSE, phase |-> "", ip |-> FALSE, conditions |-> NoConditions]
NoObject == Created(0)

Exists(v) == v.uid # 0
Current == log[Len(log)]

Init ==
  /\ log = <<NoObject>>
  /\ backend = {}
  /\ pos = [s \in Servers |-> 1]
  /\ queued = [s \in Servers |-> FALSE]
  /\ delayed = [s \in Servers |-> {}]
  /\ pc = [s \in Servers |-> "idle"]
  /\ read = [s \in Servers |-> 1]

-----------------------------------------------------------------------------
(* The tenant and kcp.                                                     *)

Store(v) == log' = Append(log, v)
TenantMayAct == Len(log) < MaxTenantVersion

TenantCreates ==
  /\ TenantMayAct /\ ~Exists(Current)
  /\ Store(Created(Len(log) + 1))
  /\ UNCHANGED <<backend, pos, queueVars, workVars>>

(* The status is a subresource: a write of the object leaves it alone.     *)
TenantEdits ==
  /\ TenantMayAct /\ Exists(Current)
  /\ Store(Current)
  /\ UNCHANGED <<backend, pos, queueVars, workVars>>

TenantDeletes ==
  /\ TenantMayAct /\ Exists(Current)
  /\ Store(NoObject)
  /\ UNCHANGED <<backend, pos, queueVars, workVars>>

(* Foreground deletion: the object stays, marked, until kcp's collector    *)
(* removes it.                                                             *)
TenantDeletesInForeground ==
  /\ TenantMayAct /\ Exists(Current) /\ ~Current.terminating
  /\ Store([Current EXCEPT !.terminating = TRUE])
  /\ UNCHANGED <<backend, pos, queueVars, workVars>>

CollectorRemoves ==
  /\ Exists(Current) /\ Current.terminating
  /\ Store(NoObject)
  /\ UNCHANGED <<backend, pos, queueVars, workVars>>

(* The watch brings the cache up to a later version, one event at a time   *)
(* or several versions at once after a relist, and queues the key.         *)
Deliver(s) ==
  /\ pos[s] < Len(log)
  /\ \E n \in (pos[s] + 1)..Len(log) : pos' = [pos EXCEPT ![s] = n]
  /\ queued' = [queued EXCEPT ![s] = TRUE]
  /\ UNCHANGED <<log, backend, delayed, workVars>>

(* A delayed addition falls due.                                           *)
Requeue(s, why) ==
  /\ why \in delayed[s]
  /\ delayed' = [delayed EXCEPT ![s] = @ \ {why}]
  /\ queued' = [queued EXCEPT ![s] = TRUE]
  /\ UNCHANGED <<log, backend, pos, workVars>>

-----------------------------------------------------------------------------
(* Reconcile.                                                              *)

(* GetCluster, or anything else before the object is read, fails.          *)
ReconcileFails(s) ==
  /\ queued[s] /\ pc[s] = "idle"
  /\ queued' = [queued EXCEPT ![s] = FALSE]
  /\ delayed' = [delayed EXCEPT ![s] = @ \cup {"retry"}]
  /\ UNCHANGED <<log, backend, pos, workVars>>

(* What Reconcile does with the object it has read.  Mutant: an object     *)
(* without a phase is none of the mock's business.                         *)
Advances(v) == Exists(v) /\ ~v.terminating /\ v.phase \in {"", "Provisioning"}
Destroys(v) == Exists(v) /\ v.terminating
CreatesVMI_OnlyPending(v) == Advances(v) /\ v.phase = "Pending"
CreatesVMI(v) == Advances(v) /\ v.phase = ""

(* Reconcile up to its write: deletion branch, then the switch on the      *)
(* phase with the mock backend's part of each handler.  An object that is  *)
(* not found or Running needs nothing.                                     *)
Reconcile(s) ==
  LET v == log[pos[s]] IN
  /\ queued[s] /\ pc[s] = "idle"
  /\ queued' = [queued EXCEPT ![s] = FALSE]
  /\ pc' = [pc EXCEPT ![s] = IF Advances(v) THEN "update" ELSE "idle"]
  /\ read' = [read EXCEPT ![s] = pos[s]]
  /\ backend' = (backend \cup {u \in {v.uid} : CreatesVMI(v)})
                  \ {u \in {v.uid} : Destroys(v)}
  /\ UNCHANGED <<log, pos, delayed>>

SetCondition(conditions, type, status) == [conditions EXCEPT ![type] = status]

(* The status that handlePending and handleProvisioning write.             *)
Advanced(v) ==
  IF v.phase = ""
    THEN [v EXCEPT !.phase = "Provisioning",
                   !.conditions = SetCondition(@, "progressing", "True")]
    ELSE [v EXCEPT !.phase = "Running", !.ip = TRUE,
                   !.conditions = SetCondition(SetCondition(@, "available", "True"),
                                               "progressing", "False")]

(* kcp's check of the resourceVersion in the update.  Mutant: the status   *)
(* is written with a patch that carries none.                              *)
Accepted_Unconditional(s) == Exists(Current)
Accepted(s) == read[s] = Len(log)

(* Status().Update is carried out; the answer may still be lost.           *)
UpdateStatus(s, answered) ==
  LET v == log[read[s]] IN
  /\ pc[s] = "update" /\ Accepted(s)
  /\ Store(Advanced(v))
  /\ pc' = [pc EXCEPT ![s] = "idle"]
  /\ delayed' = [delayed EXCEPT ![s] = @ \cup
                  (IF ~answered THEN {"retry"} ELSE IF v.phase = "" THEN {"requeue"} ELSE {})]
  /\ UNCHANGED <<backend, pos, queued, read>>

(* Mutant of UpdateFails: the error is logged and Reconcile returns nil.   *)
UpdateFails_Dropped(s) ==
  /\ pc[s] = "update"
  /\ pc' = [pc EXCEPT ![s] = "idle"]
  /\ UNCHANGED <<log, backend, pos, queueVars, read>>

(* A conflict, an object that is gone, or a request that does not get      *)
(* through: Reconcile returns the error and the key is tried again later.  *)
UpdateFails(s) ==
  /\ pc[s] = "update"
  /\ pc' = [pc EXCEPT ![s] = "idle"]
  /\ delayed' = [delayed EXCEPT ![s] = @ \cup {"retry"}]
  /\ UNCHANGED <<log, backend, pos, queued, read>>

(* A server stops and starts: queue, timers and cache are gone, the new    *)
(* informer lists what there is now and queues it.                         *)
ServerRestarts(s) ==
  /\ pos' = [pos EXCEPT ![s] = Len(log)]
  /\ queued' = [queued EXCEPT ![s] = Exists(Current)]
  /\ delayed' = [delayed EXCEPT ![s] = {}]
  /\ pc' = [pc EXCEPT ![s] = "idle"]
  /\ UNCHANGED <<log, backend, read>>

-----------------------------------------------------------------------------
TenantStep ==
  TenantCreates \/ TenantEdits \/ TenantDeletes \/ TenantDeletesInForeground

AnyUpdate(s) == UpdateFails(s) \/ \E answered \in BOOLEAN : UpdateStatus(s, answered)

ServerStep(s) ==
  \/ Deliver(s)
  \/ \E why \in {"retry", "requeue"} : Requeue(s, why)
  \/ ReconcileFails(s) \/ Reconcile(s)
  \/ AnyUpdate(s)
  \/ ServerRestarts(s)

Next == TenantStep \/ CollectorRemoves \/ \E s \in Servers : ServerStep(s)

Spec == Init /\ [][Next]_vars

(* Watches deliver, timers fire, every update comes back, and the          *)
(* workqueue runs what is queued.  Reconcile and its update fail or are    *)
(* interrupted at times, not every time.                                   *)
FairSpec ==
  Spec /\ \A s \in Servers :
            /\ WF_vars(Deliver(s))
            /\ WF_vars(Requeue(s, "retry")) /\ WF_vars(Requeue(s, "requeue"))
            /\ WF_vars(AnyUpdate(s))
            /\ SF_vars(Reconcile(s))
            /\ SF_vars(UpdateStatus(s, TRUE))

-----------------------------------------------------------------------------
(* Properties.                                                             *)

TypeOK ==
  /\ log \in Seq(Versions) /\ log # <<>>
  /\ backend \in SUBSET Nat
  /\ pos \in [Servers -> 1..Len(log)]
  /\ queued \in [Servers -> BOOLEAN]
  /\ delayed \in [Servers -> SUBSET {"retry", "requeue"}]
  /\ pc \in [Servers -> {"idle", "update"}]
  /\ read \in [Servers -> 1..Len(log)]

(* Each incarnation of a VM goes through its phases one by one and never   *)
(* back, stops where it is once it is being deleted, and starts without a  *)
(* status taken from the one before, however stale the caches are and      *)
(* however many servers act on them.                                       *)
Follows(v, w) ==
  \/ w = NoObject
  \/ w.uid # v.uid /\ w = Created(w.uid)
  \/ w.uid = v.uid /\ w.phase = v.phase
  \/ Exists(v) /\ ~v.terminating /\ w = Advanced(v)
PhasesInOrder == [][Follows(Current, Current')]_vars

(* A status never contradicts itself, over all the writes behind it: a     *)
(* Running VM is available, has an address and has stopped progressing.    *)
StatusAgrees(v) ==
  /\ v.phase = "" => v.conditions = NoConditions
  /\ v.phase = "Provisioning" => v.conditions = [available |-> "absent", progressing |-> "True"]
  /\ v.phase = "Running" =>
       v.conditions = [available |-> "True", progressing |-> "False"] /\ v.ip
StatusConsistent == \A n \in 1..Len(log) : StatusAgrees(log[n])

(* A VM that reports a phase has a VMI behind it, whichever server made    *)
(* it, unless it is being deleted.                                         *)
PhaseMeansVMI ==
  Exists(Current) /\ ~Current.terminating /\ Current.phase # "" => Current.uid \in backend

(* No server forgets a VM it has not finished with: there is an event it   *)
(* has not seen, a queue entry, a timer or a reconcile in progress, after  *)
(* every error, conflict and restart.                                      *)
NoLostWakeup ==
  Advances(Current) =>
    \A s \in Servers :
      pos[s] < Len(log) \/ queued[s] \/ delayed[s] # {} \/ pc[s] = "update"

(* The inductive invariant behind the properties above.                    *)
UpdatesAdvance ==
  \A s \in Servers : pc[s] = "update" =>
    Advances(log[read[s]]) /\ (Accepted(s) => Current.uid \in backend)
DeletionStays ==
  \A m, n \in 1..Len(log) :
    m <= n /\ log[m].uid = log[n].uid /\ Destroys(log[m]) => Destroys(log[n])
UidsAreNew == \A n \in 1..Len(log) : log[n].uid <= n
ReconcilerInv ==
  UidsAreNew /\ UpdatesAdvance /\ DeletionStays /\ StatusConsistent /\ PhaseMeansVMI
    /\ NoLostWakeup

(* Every VM that is left alone comes up, or is deleted first.              *)
EventuallyRunning == Advances(Current) ~> ~Advances(Current)

(* 02-platform.md:502, "When the tenant deletes the kcp resource, delete   *)
(* the backend resource and clean up."                                     *)
BackendCleanedUp ==
  \A u \in 1..MaxTenantVersion :
    (u \in backend /\ Current.uid # u) ~> u \notin backend
=============================================================================
