----------------------------- MODULE ConsoleViews -----------------------------
(***************************************************************************)
(* What the pages of the web console show of a virtual machine and of a    *)
(* cluster, and what their forms make of a specification: the list, detail *)
(* and edit pages and the dashboard of console/app-shell/src, and the      *)
(* pages of console/pilets that do the same work.                          *)
(*                                                                         *)
(* Objects are JavaScript objects: functions whose domain is the fields    *)
(* that are there.  Colours are named for what they mean, texts are kept   *)
(* only where pages choose between them.  That a save goes to the version  *)
(* the form was filled from is ConsolePages' business and is taken from it.*)
(*                                                                         *)
(* External: kcp, which validates against the schema generated from        *)
(* platform/apis/compute/v1alpha1, the controllers, and other clients.     *)
(***************************************************************************)
EXTENDS Integers, FiniteSets, TLC

CONSTANTS
  Pilet,   \* the pages are the compute pilet's, not the shell's
  Cores,   \* what is typed, or stored, as a number of cores
  Memories, Sizes, Images, Counts, Keys, \* and for the other fields
  AllImages \* the images on offer

ASSUME PiletType == Pilet \in BOOLEAN
ASSUME TypedType == Cores \subseteq Int /\ Counts \subseteq Int /\ Images \subseteq AllImages
ASSUME ImagesType == "" \notin AllImages

VARIABLES
  stored,  \* kcp: the specification of the VM, Nothing when there is none
  status,  \* kcp: its status
  cluster, \* kcp: conditions of a Kubernetes cluster
  mode,    \* which form is open: "none", "create" or "edit"
  form,    \* its fields
  base     \* the specification of an edit form's original

formVars == <<mode, form, base>>
vars == <<stored, status, cluster, formVars>>

Nothing == <<>>

(* JavaScript: a || b for texts and numbers, a field or a value in its     *)
(* place, and { ...object, ...(condition && other) } of objects that have  *)
(* no field in common.                                                     *)
OrText(text, other) == IF text = "" THEN other ELSE text
OrNumber(n, other) == IF n = 0 THEN other ELSE n
Field(object, f, other) == IF f \in DOMAIN object THEN object[f] ELSE other
Spread(condition, object) == IF condition THEN object ELSE Nothing
Merge(object, other) ==
  [f \in DOMAIN object \cup DOMAIN other |->
     IF f \in DOMAIN object THEN object[f] ELSE other[f]]
NumberText(n) == ToString(n)

-----------------------------------------------------------------------------
(* The schema of a specification: fields it does not know are dropped, one *)
(* that is required and missing has the request refused.                   *)

Required == {"cores", "memory", "disk"}

WellFormed(spec) ==
  /\ Required \subseteq DOMAIN spec
  /\ {"size", "image"} \subseteq DOMAIN spec.disk

Valid(spec) ==
  /\ WellFormed(spec)
  /\ spec.cores \in 1..64
  /\ spec.disk.image \in AllImages
  /\ Field(Field(spec, "gpu", Nothing), "count", 0) \in 0..8

(* The specifications another client may store.                            *)
Specs ==
  {Merge(Merge([cores |-> n, memory |-> m, disk |-> [size |-> s, image |-> i]], g), k) :
     n \in Cores, m \in Memories, s \in Sizes, i \in Images,
     g \in {Nothing, [gpu |-> Nothing]} \cup {[gpu |-> [count |-> c]] : c \in Counts},
     k \in {Nothing, [ssh |-> Nothing]} \cup {[ssh |-> [publicKey |-> p]] : p \in Keys}}

-----------------------------------------------------------------------------
(* The forms.                                                              *)

Fields == {"cores", "memory", "diskSize", "diskImage", "gpuCount", "sshPublicKey"}
Typable(f) ==
  CASE f = "cores" -> Cores [] f = "memory" -> Memories [] f = "diskSize" -> Sizes
    [] f = "diskImage" -> Images [] f = "gpuCount" -> Counts [] f = "sshPublicKey" -> Keys

DefaultImage == "ubuntu-22.04"
EmptyForm ==
  [cores |-> 2, memory |-> "4Gi", diskSize |-> "50Gi", diskImage |-> DefaultImage,
   gpuCount |-> 0, sshPublicKey |-> ""]

(* The edit page fills its form from the object it has read ...            *)
FormOf(spec) ==
  [cores |-> OrNumber(Field(spec, "cores", 0), 2),
   memory |-> OrText(Field(spec, "memory", ""), "4Gi"),
   diskSize |-> OrText(Field(Field(spec, "disk", Nothing), "size", ""), "50Gi"),
   diskImage |-> OrText(Field(Field(spec, "disk", Nothing), "image", ""), DefaultImage),
   gpuCount |-> Field(Field(spec, "gpu", Nothing), "count", 0),
   sshPublicKey |-> Field(Field(spec, "ssh", Nothing), "publicKey", "")]

(* Mutant: a form that forgets the key.                                    *)
SpecOf_NoKey(f) ==
  Merge([cores |-> f.cores, memory |-> f.memory,
         disk |-> [size |-> f.diskSize, image |-> f.diskImage]],
        Spread(f.gpuCount > 0, [gpu |-> [count |-> f.gpuCount]]))

(* ... and both forms make a specification anew from their fields.         *)
SpecOf(f) ==
  Merge(Merge([cores |-> f.cores, memory |-> f.memory,
               disk |-> [size |-> f.diskSize, image |-> f.diskImage]],
              Spread(f.gpuCount > 0, [gpu |-> [count |-> f.gpuCount]])),
        Spread(f.sshPublicKey # "", [ssh |-> [publicKey |-> f.sshPublicKey]]))

(* The compute pilet's create page.                                        *)
PiletSpecOf(f) ==
  Merge(Merge([cores |-> f.cores, memory |-> f.memory,
               diskSize |-> f.diskSize, image |-> f.diskImage],
              Spread(f.gpuCount > 0, [gpuCount |-> f.gpuCount])),
        Spread(f.sshPublicKey # "", [sshPublicKey |-> f.sshPublicKey]))

Created(f) == IF Pilet THEN PiletSpecOf(f) ELSE SpecOf(f)

-----------------------------------------------------------------------------
(* The pages.                                                              *)

Phases == {"", "Pending", "Provisioning", "Running", "Stopped", "Failed"}

(* Mutant: a phase is missing in one of the copies of statusConfig.        *)
ListTone_NoPending(phase) ==
  CASE phase = "Running" -> "good" [] phase = "Provisioning" -> "moving"
    [] phase = "Failed" -> "bad" [] OTHER -> "grey"

(* statusConfig of the list, and of the detail page; what the pilets use.  *)
ListTone(phase) ==
  CASE phase = "Running" -> "good" [] phase \in {"Provisioning", "Pending"} -> "moving"
    [] phase = "Failed" -> "bad" [] OTHER -> "grey"
DetailTone(phase) ==
  CASE phase = "Running" -> "good" [] phase \in {"Provisioning", "Pending"} -> "moving"
    [] phase = "Failed" -> "bad" [] phase = "Stopped" -> "grey" [] OTHER -> "grey"
PiletDetailTone(phase) ==
  CASE phase = "Running" -> "good" [] phase = "Failed" -> "bad" [] OTHER -> "moving"

ShownPhase(st) == OrText(st.phase, "Unknown")
Gpu(spec) == Field(spec, "gpu", Nothing)

ShellRow(spec, st) ==
  [phase |-> ShownPhase(st), tone |-> ListTone(ShownPhase(st)),
   cores |-> IF spec.cores = 0 THEN "-" ELSE NumberText(spec.cores),
   memory |-> OrText(spec.memory, "-"), image |-> OrText(spec.disk.image, "-"),
   gpu |-> Field(Gpu(spec), "count", 0), ip |-> OrText(st.ip, "-")]

(* The pilets read fields the API does not have.                           *)
PiletRow(spec, st) ==
  [ShellRow(spec, st) EXCEPT !.image = Field(spec, "image", "-"),
                             !.gpu = Field(spec, "gpuCount", 0),
                             !.ip = Field(st, "internalIPs", "-")]
Row(spec, st) == IF Pilet THEN PiletRow(spec, st) ELSE ShellRow(spec, st)

InfoRow(object, f) == IF f \in DOMAIN object THEN NumberText(object[f]) ELSE "-"

Header(st) == [phase |-> ShownPhase(st), tone |-> DetailTone(ShownPhase(st))]
ShellCard(spec) ==
  [cores |-> InfoRow(spec, "cores"), memory |-> Field(spec, "memory", "-"),
   size |-> Field(spec.disk, "size", "-"), image |-> Field(spec.disk, "image", "-"),
   gpu |-> Field(Gpu(spec), "count", 0),
   key |-> Field(Field(spec, "ssh", Nothing), "publicKey", "") # ""]
StatusCard(st) == [phase |-> ShownPhase(st), ip |-> OrText(st.ip, "None")]

PiletDetail(spec, st) ==
  [phase |-> ShownPhase(st), tone |-> PiletDetailTone(ShownPhase(st)),
   cores |-> InfoRow(spec, "cores"), memory |-> Field(spec, "memory", "-"),
   size |-> Field(spec, "diskSize", "-"), image |-> Field(spec, "image", "-"),
   gpu |-> Field(spec, "gpuCount", 0), key |-> Field(spec, "sshPublicKey", "") # "",
   ip |-> Field(st, "internalIPs", "None")]
Detail(spec, st) ==
  IF Pilet THEN PiletDetail(spec, st) ELSE Merge(Merge(Header(st), ShellCard(spec)), StatusCard(st))

(* The dashboard's counts, of lists of statuses by name.                   *)
RunningVMs(vms) == Cardinality({n \in DOMAIN vms : vms[n].phase = "Running"})

(* Mutant: a condition counts whatever its status.                         *)
AvailableClusters_AnyStatus(kcs) ==
  Cardinality({n \in DOMAIN kcs : \E c \in kcs[n] : c.type = "Available"})
AvailableClusters(kcs) ==
  Cardinality({n \in DOMAIN kcs : \E c \in kcs[n] : c.type = "Available" /\ c.status = "True"})
Healthy(vms, kcs) == RunningVMs(vms) + AvailableClusters(kcs)

(* A cluster's label, in the list and on the detail page, comes from the   *)
(* first condition of that type; the table shows them all.                 *)
Find(kc, type) == {c \in kc : c.type = type}
RowAvailable(kc) ==
  Find(kc, "Available") # {} /\ (CHOOSE c \in Find(kc, "Available") : TRUE).status = "True"
HeaderAvailable(kc) ==
  Find(kc, "Available") # {} /\ (CHOOSE c \in Find(kc, "Available") : TRUE).status = "True"
ConditionTable(kc) ==
  {[type |-> c.type, tone |-> IF c.status = "True" THEN "good" ELSE "bad"] : c \in kc}

-----------------------------------------------------------------------------
ConditionTypes == {"Available", "Progressing"}

(* The API keeps one condition of a type.                                  *)
ConditionLists ==
  {kc \in SUBSET [type : ConditionTypes, status : {"True", "False", "Unknown"}] :
     \A c, d \in kc : c.type = d.type => c = d}

NoStatus == [phase |-> "", ip |-> ""]
Statuses == [phase : Phases, ip : {"", "10.0.0.1"}]

Init ==
  /\ stored = Nothing /\ status = NoStatus /\ cluster = {}
  /\ mode = "none" /\ form = EmptyForm /\ base = Nothing

Close == mode' = "none" /\ form' = EmptyForm /\ base' = Nothing

OpenCreate ==
  /\ mode = "none"
  /\ mode' = "create"
  /\ UNCHANGED <<stored, status, cluster, form, base>>

OpenEdit ==
  /\ mode = "none" /\ stored # Nothing
  /\ mode' = "edit" /\ form' = FormOf(stored) /\ base' = stored
  /\ UNCHANGED <<stored, status, cluster>>

Type(f) ==
  /\ mode # "none"
  /\ \E v \in Typable(f) : form' = [form EXCEPT ![f] = v]
  /\ UNCHANGED <<stored, status, cluster, mode, base>>

Leave ==
  /\ mode # "none" /\ Close
  /\ UNCHANGED <<stored, status, cluster>>

(* kcp takes what is valid, and refuses anything else.                     *)
Create ==
  /\ mode = "create" /\ stored = Nothing /\ Valid(Created(form))
  /\ stored' = Created(form) /\ status' = NoStatus
  /\ Close
  /\ UNCHANGED cluster

Save ==
  /\ mode = "edit" /\ stored = base /\ Valid(SpecOf(form))
  /\ stored' = SpecOf(form)
  /\ Close
  /\ UNCHANGED <<status, cluster>>

OtherClient ==
  /\ \E spec \in Specs : Valid(spec) /\ stored' = spec
  /\ status' = IF stored = Nothing THEN NoStatus ELSE status
  /\ UNCHANGED <<cluster, formVars>>

Delete ==
  /\ stored # Nothing
  /\ stored' = Nothing /\ status' = NoStatus
  /\ UNCHANGED <<cluster, formVars>>

VMStatus ==
  /\ stored # Nothing
  /\ status' \in Statuses
  /\ UNCHANGED <<stored, cluster, formVars>>

ClusterStatus ==
  /\ cluster' \in ConditionLists
  /\ UNCHANGED <<stored, status, formVars>>

Next ==
  \/ OpenCreate \/ OpenEdit \/ Leave \/ Create \/ Save
  \/ \E f \in Fields : Type(f)
  \/ OtherClient \/ Delete \/ VMStatus \/ ClusterStatus

Spec == Init /\ [][Next]_vars

-----------------------------------------------------------------------------
(* What is stored, and what an edit form was filled from, has been         *)
(* through kcp's validation.                                               *)
TypeOK ==
  /\ stored # Nothing => Valid(stored)
  /\ status \in Statuses
  /\ cluster \in ConditionLists
  /\ mode \in {"none", "create", "edit"}
  /\ DOMAIN form = Fields /\ form.gpuCount \in Int
  /\ mode = "edit" => Valid(base)

(* What a specification says, whatever fields it says it with.             *)
Meaning(spec) ==
  [cores |-> spec.cores, memory |-> spec.memory, diskSize |-> spec.disk.size,
   diskImage |-> spec.disk.image,
   gpuCount |-> IF "gpu" \in DOMAIN spec /\ "count" \in DOMAIN spec.gpu
                THEN spec.gpu.count ELSE 0,
   sshPublicKey |-> IF "ssh" \in DOMAIN spec /\ "publicKey" \in DOMAIN spec.ssh
                    THEN spec.ssh.publicKey ELSE ""]

(* An edit changes the fields that were changed in the form, to what was   *)
(* typed (a negative number of GPUs means none), and leaves all others as  *)
(* they were stored, whichever client stored them; except that an empty    *)
(* memory or disk size cannot be kept (VMEditPage.tsx:38-81).              *)
Filled(f, v) == f \notin {"memory", "diskSize"} \/ v # ""
Typed(f) == IF f = "gpuCount" /\ form[f] < 0 THEN 0 ELSE form[f]
EditsOnlyWhatWasTyped ==
  [][Save => \A f \in Fields :
       IF form[f] # FormOf(base)[f] THEN Meaning(stored')[f] = Typed(f)
       ELSE Filled(f, Meaning(stored)[f]) => Meaning(stored')[f] = Meaning(stored)[f]]_vars

(* Whatever is typed into the create form, the request has the fields the  *)
(* API requires: "Root disk configuration. +required"                      *)
(* (virtualmachine_types.go:37-39) among them.                             *)
CreatesAreWellFormed == mode = "create" => WellFormed(Created(form))

(* The list and the detail page, which have a table of colours each, show  *)
(* a VM in the same phase and colour and with the same cores, image and    *)
(* GPUs; in the list the memory may be a dash instead; and one shows an    *)
(* address if the other does.  It is in the colour of a running VM exactly *)
(* if the dashboard counts it as one.                                      *)
PagesAgree ==
  stored # Nothing =>
    LET row == Row(stored, status)
        detail == Detail(stored, status)
    IN /\ row.phase = detail.phase /\ row.tone = detail.tone
       /\ row.cores = detail.cores /\ row.image = detail.image /\ row.gpu = detail.gpu
       /\ row.memory \in {detail.memory, "-"}
       /\ (row.ip = "-") <=> (detail.ip = "None")
       /\ (row.tone = "good") <=> (RunningVMs([vm |-> status]) = 1)

(* The dashboard counts a cluster as available exactly when its row and    *)
(* its header say so and the table has a good condition of that type,      *)
(* though each looks at the conditions in its own way.                     *)
AvailabilityAgrees ==
  /\ RowAvailable(cluster) <=> HeaderAvailable(cluster)
  /\ RowAvailable(cluster) <=> (AvailableClusters([kc |-> cluster]) = 1)
  /\ RowAvailable(cluster) <=> [type |-> "Available", tone |-> "good"] \in ConditionTable(cluster)
  /\ Healthy([vm |-> status], [kc |-> cluster]) = 2 <=>
       ListTone(ShownPhase(status)) = "good" /\ RowAvailable(cluster)
=============================================================================
