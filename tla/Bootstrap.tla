------------------------------- MODULE Bootstrap -------------------------------
(***************************************************************************)
(* Bootstrapper.Bootstrap of platform/pkg/kcp/bootstrap.go and the upsert  *)
(* loop of platform/pkg/kcp/confighelpers/confighelpers.go, run by every   *)
(* platform server when it starts, against one kcp:                        *)
(*                                                                         *)
(*   stage 1   the files for the root workspace (the workspace "platform") *)
(*   stage 2   the files for root:platform ("providers" and "tenants")     *)
(*   stage 3   the files for root:platform:providers (APIResourceSchemas   *)
(*             and APIExports), after the identity of tenancy.kcp.io       *)
(*   ensure    the APIBinding and the grants of the static token users     *)
(*                                                                         *)
(* A stage applies its files one by one in the order of bootstrapFileOrder *)
(* and repeats all of them, for ever, until one pass has no error; then it *)
(* waits for the workspaces among them.  Applying a file is up to three    *)
(* calls: Create, and if the object exists, Get and Update, unless the     *)
(* object found is marked create-only.  A kind is looked up in a discovery *)
(* cache that is kept for the pass.                                        *)
(*                                                                         *)
(* External: kcp, which serves the kinds of a workspace and initialises    *)
(* workspaces in its own time, and an administrator who edits, marks and   *)
(* deletes what is installed.                                              *)
(***************************************************************************)
EXTENDS Naturals, FiniteSets

CONSTANTS
  Servers,         \* platform servers, of one release
  Names,           \* every object the bootstrap installs
  Files,           \* the objects of the embedded files, per stage
  Ensured,         \* the APIBinding and the grants of static token users
  KindOf,          \* "workspace", "schema", "export" or "other"
  Rank,            \* position of a file name in the alphabet
  CreateOnlyFiles, \* those annotated bootstrap.kcp.io/create-only
  MaxTroubles      \* bound on failed calls, restarts and acts of the administrator

Stages == 1..3
Workspaces(i) == {n \in Files[i] : KindOf[n] = "workspace"}
Kinds == {"workspace", "schema", "export", "other"}

ASSUME NamesType ==
  /\ Files \in [Stages -> (SUBSET Names) \ {{}}]
  /\ Ensured \in (SUBSET Names) \ {{}}
  /\ KindOf \in [Names -> Kinds]
  /\ CreateOnlyFiles \in SUBSET Names
  /\ \A n \in Ensured : KindOf[n] = "other"
ASSUME RankType ==
  /\ Rank \in [Names -> Nat]
  /\ \A m, n \in Names : Rank[m] = Rank[n] => m = n
ASSUME EachNameOnce ==
  \A i \in Stages : /\ Files[i] \cap Ensured = {}
                    /\ \A j \in Stages \ {i} : Files[i] \cap Files[j] = {}
ASSUME MaxTroublesType == MaxTroubles \in Nat

VARIABLES
  stored,     \* kcp: objects that exist
  edited,     \* kcp: those whose content is the administrator's
  createOnly, \* kcp: those that are marked create-only
  ready,      \* kcp: workspaces with phase Ready
  served,     \* kcp: stages whose kinds can be discovered
  identity,   \* kcp: the APIExport tenancy.kcp.io has an identity hash
  pc,         \* where each server is
  stage,      \* its stage
  todo,       \* files, or objects to ensure, it has not been through yet
  errs,       \* an earlier file of the pass has failed
  cache,      \* its discovery cache: "empty", "stale" or "good"
  fresh,      \* servers whose Get still has the stored resourceVersion
  failed,     \* history: objects that a call has failed for
  removed,    \* history: objects the administrator has deleted
  troubles    \* failed calls, restarts and acts of the administrator so far

kcpVars == <<stored, edited, createOnly, ready, served, identity>>
placeVars == <<stage, todo, errs, cache>>
historyVars == <<failed, removed>>
vars == <<kcpVars, pc, placeVars, fresh, historyVars, troubles>>

Init ==
  /\ stored = {} /\ edited = {} /\ createOnly = {} /\ ready = {} /\ served = {}
  /\ identity = FALSE
  /\ pc = [s \in Servers |-> "create"]
  /\ stage = [s \in Servers |-> 1]
  /\ todo = [s \in Servers |-> Files[1]]
  /\ errs = [s \in Servers |-> FALSE]
  /\ cache = [s \in Servers |-> "empty"]
  /\ fresh = {}
  /\ failed = {} /\ removed = {}
  /\ troubles = 0

Trouble == troubles < MaxTroubles /\ troubles' = troubles + 1

-----------------------------------------------------------------------------
(* The order of the files.                                                 *)

bootstrapFileOrder(n) ==
  CASE KindOf[n] = "schema" -> 0
    [] KindOf[n] = "export" -> 1
    [] OTHER -> 2

Before(m, n) ==
  \/ bootstrapFileOrder(m) < bootstrapFileOrder(n)
  \/ bootstrapFileOrder(m) = bootstrapFileOrder(n) /\ Rank[m] < Rank[n]

(* The file a server is at.                                                *)
At(s, n) == n \in todo[s] /\ \A m \in todo[s] \ {n} : Before(n, m)

-----------------------------------------------------------------------------
(* Moving on.                                                              *)

(* The end of a pass.  Mutants: a pass with errors counts as done; the     *)
(* discovery cache is kept for the next pass.                              *)
EndPass_IgnoresErrors(s, clean) ==
  /\ pc' = [pc EXCEPT ![s] = "wait"]
  /\ todo' = [todo EXCEPT ![s] = {}]
  /\ cache' = [cache EXCEPT ![s] = "empty"]
EndPass_KeepsCache(s, clean) ==
  /\ pc' = [pc EXCEPT ![s] = IF clean THEN "wait" ELSE "create"]
  /\ todo' = [todo EXCEPT ![s] = IF clean THEN {} ELSE Files[stage[s]]]
  /\ UNCHANGED cache
EndPass(s, clean) ==
  /\ pc' = [pc EXCEPT ![s] = IF clean THEN "wait" ELSE "create"]
  /\ todo' = [todo EXCEPT ![s] = IF clean THEN {} ELSE Files[stage[s]]]
  /\ cache' = [cache EXCEPT ![s] = "empty"]

(* File n is through, with or without an error: the next file, or the end  *)
(* of the pass.                                                            *)
Advance(s, n, ok) ==
  /\ UNCHANGED stage
  /\ \/ /\ todo[s] # {n}
        /\ pc' = [pc EXCEPT ![s] = "create"]
        /\ todo' = [todo EXCEPT ![s] = @ \ {n}]
        /\ errs' = [errs EXCEPT ![s] = @ \/ ~ok]
        /\ UNCHANGED cache
     \/ /\ todo[s] = {n}
        /\ EndPass(s, ok /\ ~errs[s])
        /\ errs' = [errs EXCEPT ![s] = FALSE]

-----------------------------------------------------------------------------
(* Applying a file.                                                        *)

(* RESTMapping fills an empty cache with what kcp serves at the moment.    *)
Discover(s) ==
  /\ pc[s] = "create" /\ cache[s] = "empty"
  /\ cache' = [cache EXCEPT ![s] = IF stage[s] \in served THEN "good" ELSE "stale"]
  /\ UNCHANGED <<kcpVars, pc, stage, todo, errs, fresh, historyVars, troubles>>

(* The kind is not in the cache, and a cache that has been filled is not   *)
(* filled again.                                                           *)
NoMatch(s, n) ==
  /\ pc[s] = "create" /\ cache[s] = "stale" /\ At(s, n)
  /\ Advance(s, n, FALSE)
  /\ UNCHANGED <<kcpVars, fresh, historyVars, troubles>>

(* kcp carries out a call, and the answer may be lost.                     *)
Answer(ok) == IF ok THEN UNCHANGED troubles ELSE Trouble
Marked(n) == (createOnly \ {n}) \cup ({n} \cap CreateOnlyFiles)

Create(s, n, ok) ==
  /\ pc[s] = "create" /\ cache[s] = "good" /\ At(s, n)
  /\ n \notin stored
  /\ stored' = stored \cup {n}
  /\ createOnly' = Marked(n)
  /\ Advance(s, n, ok) /\ Answer(ok)
  /\ UNCHANGED <<edited, ready, served, identity, fresh, historyVars>>

AlreadyExists(s, n) ==
  /\ pc[s] = "create" /\ cache[s] = "good" /\ At(s, n)
  /\ n \in stored
  /\ pc' = [pc EXCEPT ![s] = "get"]
  /\ UNCHANGED <<kcpVars, placeVars, fresh, historyVars, troubles>>

(* Get, and the look at the annotation of the object that was found.       *)
GetCreateOnly(s, n) ==
  /\ pc[s] = "get" /\ At(s, n)
  /\ n \in stored \cap createOnly
  /\ Advance(s, n, TRUE)
  /\ UNCHANGED <<kcpVars, fresh, historyVars, troubles>>
Get(s, n) ==
  /\ pc[s] = "get" /\ At(s, n)
  /\ n \in stored \ createOnly
  /\ pc' = [pc EXCEPT ![s] = "update"]
  /\ fresh' = fresh \cup {s}
  /\ UNCHANGED <<kcpVars, placeVars, historyVars, troubles>>

(* A write of n puts every earlier Get of it out of date.                  *)
Outdate(n) == fresh' = fresh \ {t \in Servers : At(t, n)}

(* Update carries the resourceVersion of the Get.  Mutant: it carries      *)
(* none.                                                                   *)
Accepted_Unconditional(s, n) == n \in stored
Accepted(s, n) == s \in fresh

Update(s, n, ok) ==
  /\ pc[s] = "update" /\ At(s, n)
  /\ Accepted(s, n)
  /\ edited' = edited \ {n}
  /\ createOnly' = Marked(n)
  /\ Outdate(n)
  /\ Advance(s, n, ok) /\ Answer(ok)
  /\ UNCHANGED <<stored, ready, served, identity, historyVars>>

(* The object is gone when Get looks for it, or has changed when Update    *)
(* comes to it.                                                            *)
Conflict(s, n) ==
  /\ At(s, n)
  /\ \/ pc[s] = "get" /\ n \notin stored
     \/ pc[s] = "update" /\ ~Accepted(s, n)
  /\ Advance(s, n, FALSE)
  /\ UNCHANGED <<kcpVars, fresh, historyVars, troubles>>

(* A call fails without an effect; with an empty cache, the discovery.     *)
CallFails(s, n) ==
  /\ pc[s] \in {"create", "get", "update"} /\ cache[s] # "stale" /\ At(s, n)
  /\ failed' = failed \cup {n}
  /\ fresh' = fresh \ {s}
  /\ Advance(s, n, FALSE) /\ Trouble
  /\ UNCHANGED <<kcpVars, removed>>

-----------------------------------------------------------------------------
(* Between the stages.                                                     *)

(* What waitForWorkspaceReady waits for, one workspace after the other; a  *)
(* workspace that is Ready stays so.  Mutant: existing is enough.          *)
WorkspacesReady_Exist(s) == Workspaces(stage[s]) \subseteq stored
WorkspacesReady(s) == Workspaces(stage[s]) \subseteq ready

Leave(s, where, i, work) ==
  /\ pc' = [pc EXCEPT ![s] = where]
  /\ stage' = [stage EXCEPT ![s] = i]
  /\ todo' = [todo EXCEPT ![s] = work]
  /\ errs' = [errs EXCEPT ![s] = FALSE]
  /\ cache' = [cache EXCEPT ![s] = "empty"]

(* The second stage is followed by the look at the identity hash, the      *)
(* third by the APIBinding and the grants.                                 *)
NextStage(s) ==
  /\ pc[s] = "wait" /\ WorkspacesReady(s)
  /\ stage[s] = 2 => identity
  /\ IF stage[s] < 3 THEN Leave(s, "create", stage[s] + 1, Files[stage[s] + 1])
                     ELSE Leave(s, "ensure", 3, Ensured)
  /\ UNCHANGED <<kcpVars, fresh, historyVars, troubles>>

(* Bootstrap returns an error, and Server.Run with it: a workspace is not  *)
(* Ready after 60 seconds or there is no identity hash yet, or the calls   *)
(* that ask for them fail, all those of the 60 seconds or the one Get of   *)
(* tenancy.kcp.io.                                                         *)
GiveUp(s) ==
  /\ pc[s] = "wait"
  /\ \/ /\ ~WorkspacesReady(s) \/ (stage[s] = 2 /\ ~identity)
        /\ UNCHANGED troubles
     \/ /\ Workspaces(stage[s]) # {} \/ stage[s] = 2
        /\ Trouble
  /\ pc' = [pc EXCEPT ![s] = "failed"]
  /\ UNCHANGED <<kcpVars, placeVars, fresh, historyVars>>

(* ensureAPIBinding and ensureClusterAdmin: Create, where AlreadyExists is *)
(* no error.                                                               *)
Ensure(s, n) ==
  /\ pc[s] = "ensure" /\ At(s, n)
  /\ stored' = stored \cup {n}
  /\ todo' = [todo EXCEPT ![s] = @ \ {n}]
  /\ pc' = [pc EXCEPT ![s] = IF todo[s] = {n} THEN "done" ELSE "ensure"]
  /\ UNCHANGED <<edited, createOnly, ready, served, identity, stage, errs, cache, fresh,
                 historyVars, troubles>>

EnsureFails(s, n) ==
  /\ pc[s] = "ensure" /\ At(s, n)
  /\ \E effect \in {{}, {n}} : stored' = stored \cup effect
  /\ pc' = [pc EXCEPT ![s] = "failed"]
  /\ Trouble
  /\ UNCHANGED <<edited, createOnly, ready, served, identity, placeVars, fresh, historyVars>>

(* The process stops, or is started again after it has failed.             *)
ServerRestarts(s) ==
  /\ Leave(s, "create", 1, Files[1])
  /\ fresh' = fresh \ {s}
  /\ Trouble
  /\ UNCHANGED <<kcpVars, historyVars>>

-----------------------------------------------------------------------------
(* kcp and the administrator.                                              *)

(* Where the files of a stage go: the root workspace, or one that the      *)
(* stage before has made.  It may be served before it is Ready.            *)
Home(i) == IF i = 1 THEN {} ELSE Workspaces(i - 1)

KcpServes(i) ==
  /\ i \notin served
  /\ Home(i) \subseteq stored
  /\ served' = served \cup {i}
  /\ UNCHANGED <<stored, edited, createOnly, ready, identity, pc, placeVars, fresh,
                 historyVars, troubles>>

KcpMakesReady(n) ==
  /\ KindOf[n] = "workspace" /\ n \in stored \ ready
  /\ ready' = ready \cup {n}
  /\ Outdate(n)
  /\ UNCHANGED <<stored, edited, createOnly, served, identity, pc, placeVars,
                 historyVars, troubles>>

KcpPublishesIdentity ==
  /\ ~identity
  /\ identity' = TRUE
  /\ UNCHANGED <<stored, edited, createOnly, ready, served, pc, placeVars, fresh,
                 historyVars, troubles>>

(* The administrator changes the content of an object, with or without     *)
(* marking it create-only.                                                 *)
AdminEdits(n, mark) ==
  /\ n \in stored
  /\ edited' = edited \cup {n}
  /\ createOnly' = createOnly \cup mark
  /\ Outdate(n)
  /\ Trouble
  /\ UNCHANGED <<stored, ready, served, identity, pc, placeVars, historyVars>>

(* A workspace is left out: what is deleted with it is kcp's business.     *)
AdminDeletes(n) ==
  /\ n \in stored /\ KindOf[n] # "workspace"
  /\ stored' = stored \ {n}
  /\ edited' = edited \ {n}
  /\ createOnly' = createOnly \ {n}
  /\ removed' = removed \cup {n}
  /\ Outdate(n)
  /\ Trouble
  /\ UNCHANGED <<ready, served, identity, pc, placeVars, failed>>

-----------------------------------------------------------------------------
FileStep(s, n) ==
  \/ NoMatch(s, n) \/ AlreadyExists(s, n) \/ GetCreateOnly(s, n) \/ Get(s, n)
  \/ \E ok \in BOOLEAN : Create(s, n, ok) \/ Update(s, n, ok)
  \/ Conflict(s, n) \/ CallFails(s, n)
  \/ Ensure(s, n) \/ EnsureFails(s, n)

ServerStep(s) ==
  \/ Discover(s) \/ NextStage(s) \/ GiveUp(s)
  \/ \E n \in Names : FileStep(s, n)

KcpStep ==
  \/ \E i \in Stages : KcpServes(i)
  \/ \E n \in Names : KcpMakesReady(n)
  \/ KcpPublishesIdentity

AdminStep ==
  \E n \in Names : AdminDeletes(n) \/ \E mark \in {{}, {n}} : AdminEdits(n, mark)

Next ==
  \/ \E s \in Servers : ServerStep(s) \/ ServerRestarts(s)
  \/ KcpStep
  \/ AdminStep

Spec == Init /\ [][Next]_vars

(* A server goes on, and kcp serves what it has.                           *)
FairSpec ==
  /\ Spec
  /\ \A s \in Servers : WF_vars(ServerStep(s))
  /\ \A i \in Stages : WF_vars(KcpServes(i))

-----------------------------------------------------------------------------
(* Properties.                                                             *)

TypeOK ==
  /\ stored \in SUBSET Names /\ edited \in SUBSET Names /\ createOnly \in SUBSET Names
  /\ ready \in SUBSET {n \in stored : KindOf[n] = "workspace"}
  /\ served \in SUBSET Stages /\ identity \in BOOLEAN
  /\ pc \in [Servers -> {"create", "get", "update", "wait", "ensure", "done", "failed"}]
  /\ stage \in [Servers -> Stages]
  /\ todo \in [Servers -> SUBSET Names]
  /\ errs \in [Servers -> BOOLEAN]
  /\ cache \in [Servers -> {"empty", "stale", "good"}]
  /\ fresh \in SUBSET {s \in Servers : pc[s] = "update"}
  /\ failed \in SUBSET Names /\ removed \in SUBSET Names
  /\ troubles \in Nat

(* When Bootstrap returns without an error, everything it is to install    *)
(* is there and every workspace is Ready, whatever failed on the way and   *)
(* whoever else was at it, unless the administrator has deleted something. *)
There == stored \cup removed
Installed(i) == Files[i] \subseteq There /\ Workspaces(i) \subseteq ready
AllInstalled == \A i \in Stages : Installed(i)
DoneOK(s) == pc[s] = "done" => AllInstalled /\ Ensured \subseteq There
DoneMeansInstalled == \A s \in Servers : DoneOK(s)

(* Nothing is put into a workspace that is not Ready, and the APIBinding   *)
(* of the root workspace comes after the APIExport it names.               *)
NothingTooEarly ==
  /\ \A i \in Stages : Files[i] \cap stored # {} => Home(i) \subseteq ready
  /\ Ensured \cap stored # {} => AllInstalled

(* An APIExport is there before the schemas of its stage only if a call    *)
(* for the missing schema has failed, which does not keep the loop from    *)
(* going on, or if the schema was deleted.                                 *)
SchemasFirst ==
  \A i \in Stages : \A x, e \in Files[i] :
    KindOf[x] = "schema" /\ KindOf[e] = "export" /\ e \in stored =>
      x \in There \cup failed

(* The inductive invariant behind these: what a server's place in the      *)
(* bootstrap says about kcp.  The files it has been through are there, or  *)
(* the pass has noted an error; an object it is about to update is the one *)
(* its Get has seen, and not marked.                                       *)
InPass(s) == pc[s] \in {"create", "get", "update"}
PassOK(s) ==
  LET passed == Files[stage[s]] \ todo[s] IN
  /\ todo[s] \subseteq Files[stage[s]]
  /\ ~errs[s] => passed \subseteq There
  /\ cache[s] # "stale" => passed \subseteq There \cup failed
FileOK(s, n) ==
  /\ pc[s] \in {"get", "update"} => n \in There
  /\ s \in fresh => n \in stored \ createOnly
EnsureOK(s) ==
  /\ AllInstalled
  /\ todo[s] \subseteq Ensured
  /\ Ensured \ todo[s] \subseteq There
PlaceOK(s) ==
  /\ \A i \in Stages : i < stage[s] => Installed(i)
  /\ InPass(s) => PassOK(s)
  /\ \A n \in Names : At(s, n) => FileOK(s, n)
  /\ pc[s] = "wait" => Files[stage[s]] \subseteq There
  /\ pc[s] = "ensure" => EnsureOK(s)
  /\ DoneOK(s)
BootstrapInv == (\A s \in Servers : PlaceOK(s)) /\ NothingTooEarly /\ SchemasFirst

(* No server ever changes an object that is marked create-only, also if    *)
(* the mark is set while it is between its Get and its Update.             *)
CreateOnlyKept ==
  [][\A n \in createOnly : n \in edited \ edited' => n \notin stored']_vars

(* Once calls have stopped failing, every server that is not up against    *)
(* another one for ever comes to an end of its bootstrap.                  *)
Ended(s) == pc[s] \in {"done", "failed"}
BootstrapEnds ==
  \A s \in Servers :
    <>[](\A t \in Servers \ {s} : Ended(t)) => []<>Ended(s)
=============================================================================
