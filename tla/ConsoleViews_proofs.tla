------------------------- MODULE ConsoleViews_proofs --------------------------
(***************************************************************************)
(* Theorems about ConsoleViews, for any values that can be typed, any      *)
(* images on offer and any specifications other clients store.             *)
(***************************************************************************)
EXTENDS ConsoleViews, FiniteSetTheorems, TLAPS

LEMMA NothingIsEmpty == DOMAIN Nothing = {}
BY DEF Nothing

(* { ...object, ...other } has the fields of both, and what is in them.    *)
LEMMA MergeFields ==
  ASSUME NEW object, NEW other
  PROVE  DOMAIN Merge(object, other) = DOMAIN object \cup DOMAIN other
BY DEF Merge

LEMMA MergeFacts ==
  ASSUME NEW object, NEW other, NEW f, f \in DOMAIN object \/ f \in DOMAIN other
  PROVE  Merge(object, other)[f] = IF f \in DOMAIN object THEN object[f] ELSE other[f]
BY DEF Merge

LEMMA FieldThere ==
  ASSUME NEW object, NEW f, NEW other, f \in DOMAIN object
  PROVE  Field(object, f, other) = object[f]
BY DEF Field

LEMMA FieldMissing ==
  ASSUME NEW object, NEW f, NEW other, f \notin DOMAIN object
  PROVE  Field(object, f, other) = other
BY DEF Field

(* The specification a form makes: its fields, field by field.             *)
LEMMA SpecOfFields ==
  ASSUME NEW f, NEW spec, spec = SpecOf(f)
  PROVE  /\ spec.cores = f.cores /\ spec.memory = f.memory
         /\ spec.disk = [size |-> f.diskSize, image |-> f.diskImage]
         /\ "gpu" \in DOMAIN spec <=> f.gpuCount > 0
         /\ f.gpuCount > 0 => spec.gpu = [count |-> f.gpuCount]
         /\ "ssh" \in DOMAIN spec <=> f.sshPublicKey # ""
         /\ f.sshPublicKey # "" => spec.ssh = [publicKey |-> f.sshPublicKey]
         /\ Required \subseteq DOMAIN spec
<1>1. PICK always : always = [cores |-> f.cores, memory |-> f.memory,
                              disk |-> [size |-> f.diskSize, image |-> f.diskImage]]
  OBVIOUS
<1>2. PICK gpu : gpu = Spread(f.gpuCount > 0, [gpu |-> [count |-> f.gpuCount]])
  OBVIOUS
<1>3. PICK ssh : ssh = Spread(f.sshPublicKey # "", [ssh |-> [publicKey |-> f.sshPublicKey]])
  OBVIOUS
<1>4. PICK both : both = Merge(always, gpu)
  OBVIOUS
<1>5. spec = Merge(both, ssh)
  BY <1>1, <1>2, <1>3, <1>4 DEF SpecOf
<1>6. /\ DOMAIN always = {"cores", "memory", "disk"}
      /\ always["cores"] = f.cores /\ always["memory"] = f.memory
      /\ always["disk"] = [size |-> f.diskSize, image |-> f.diskImage]
  BY <1>1
<1>7. /\ f.gpuCount > 0 => DOMAIN gpu = {"gpu"} /\ gpu["gpu"] = [count |-> f.gpuCount]
      /\ ~(f.gpuCount > 0) => DOMAIN gpu = {}
  BY <1>2, NothingIsEmpty DEF Spread
<1>8. /\ f.sshPublicKey # "" =>
           DOMAIN ssh = {"ssh"} /\ ssh["ssh"] = [publicKey |-> f.sshPublicKey]
      /\ f.sshPublicKey = "" => DOMAIN ssh = {}
  BY <1>3, NothingIsEmpty DEF Spread
<1>9. DOMAIN both = DOMAIN always \cup DOMAIN gpu
  BY <1>4, MergeFields
<1>10. DOMAIN spec = DOMAIN both \cup DOMAIN ssh
  BY <1>5, MergeFields
<1>11. \A x \in DOMAIN always : both[x] = always[x]
  BY <1>4, MergeFacts
<1>12. \A x \in DOMAIN both : spec[x] = both[x]
  BY <1>5, MergeFacts
<1>13. ASSUME f.gpuCount > 0 PROVE both["gpu"] = [count |-> f.gpuCount]
  <2>1. "gpu" \notin DOMAIN always /\ "gpu" \in DOMAIN gpu
    BY <1>6, <1>7, <1>13
  <2>2. both["gpu"] = gpu["gpu"]
    BY <1>4, <2>1, MergeFacts
  <2>3. QED
    BY <2>2, <1>7, <1>13
<1>14. ASSUME f.sshPublicKey # "" PROVE spec["ssh"] = [publicKey |-> f.sshPublicKey]
  <2>1. "ssh" \notin DOMAIN both /\ "ssh" \in DOMAIN ssh
    BY <1>6, <1>7, <1>8, <1>9, <1>14
  <2>2. spec["ssh"] = ssh["ssh"]
    BY <1>5, <2>1, MergeFacts
  <2>3. QED
    BY <2>2, <1>8, <1>14
<1>15. /\ "gpu" \in DOMAIN spec <=> f.gpuCount > 0
       /\ "ssh" \in DOMAIN spec <=> f.sshPublicKey # ""
  BY <1>6, <1>7, <1>8, <1>9, <1>10
<1>16. /\ spec["cores"] = f.cores /\ spec["memory"] = f.memory
       /\ spec["disk"] = [size |-> f.diskSize, image |-> f.diskImage]
  BY <1>6, <1>9, <1>11, <1>12
<1>17. ASSUME f.gpuCount > 0 PROVE spec["gpu"] = [count |-> f.gpuCount]
  BY <1>6, <1>7, <1>9, <1>12, <1>13, <1>17
<1>18. Required \subseteq DOMAIN spec
  BY <1>6, <1>7, <1>8, <1>9, <1>10 DEF Required
<1>19. QED
  BY <1>14, <1>15, <1>16, <1>17, <1>18

(* The pilet's has no field for the disk, whatever is in the form.         *)
LEMMA PiletSpecHasNoDisk ==
  ASSUME NEW f, NEW spec, spec = PiletSpecOf(f)
  PROVE  "disk" \notin DOMAIN spec
<1>1. PICK always : always = [cores |-> f.cores, memory |-> f.memory,
                              diskSize |-> f.diskSize, image |-> f.diskImage]
  OBVIOUS
<1>2. PICK gpu : gpu = Spread(f.gpuCount > 0, [gpuCount |-> f.gpuCount])
  OBVIOUS
<1>3. PICK ssh : ssh = Spread(f.sshPublicKey # "", [sshPublicKey |-> f.sshPublicKey])
  OBVIOUS
<1>4. PICK both : both = Merge(always, gpu)
  OBVIOUS
<1>5. spec = Merge(both, ssh)
  BY <1>1, <1>2, <1>3, <1>4 DEF PiletSpecOf
<1>6. DOMAIN always = {"cores", "memory", "diskSize", "image"}
  BY <1>1
<1>7. DOMAIN gpu \subseteq {"gpuCount"} /\ DOMAIN ssh \subseteq {"sshPublicKey"}
  BY <1>2, <1>3, NothingIsEmpty DEF Spread
<1>8. DOMAIN both = DOMAIN always \cup DOMAIN gpu
  BY <1>4, MergeFields
<1>9. DOMAIN spec = DOMAIN both \cup DOMAIN ssh
  BY <1>5, MergeFields
<1>10. QED
  BY <1>6, <1>7, <1>8, <1>9

(* What is in a form filled from a specification, field by field.          *)
LEMMA FormOfFields ==
  ASSUME NEW spec
  PROVE  /\ FormOf(spec).cores = OrNumber(Field(spec, "cores", 0), 2)
         /\ FormOf(spec).memory = OrText(Field(spec, "memory", ""), "4Gi")
         /\ FormOf(spec).diskSize = OrText(Field(Field(spec, "disk", Nothing), "size", ""), "50Gi")
         /\ FormOf(spec).diskImage =
              OrText(Field(Field(spec, "disk", Nothing), "image", ""), DefaultImage)
         /\ FormOf(spec).gpuCount = Field(Field(spec, "gpu", Nothing), "count", 0)
         /\ FormOf(spec).sshPublicKey = Field(Field(spec, "ssh", Nothing), "publicKey", "")
BY DEF FormOf

(* And what a specification says.                                          *)
LEMMA MeaningFields ==
  ASSUME NEW spec
  PROVE  /\ Meaning(spec).cores = spec.cores /\ Meaning(spec).memory = spec.memory
         /\ Meaning(spec).diskSize = spec.disk.size
         /\ Meaning(spec).diskImage = spec.disk.image
         /\ Meaning(spec).gpuCount = Field(Field(spec, "gpu", Nothing), "count", 0)
         /\ Meaning(spec).sshPublicKey = Field(Field(spec, "ssh", Nothing), "publicKey", "")
<1>1. Meaning(spec).gpuCount = Field(Field(spec, "gpu", Nothing), "count", 0)
  BY NothingIsEmpty DEF Meaning, Field
<1>2. Meaning(spec).sshPublicKey = Field(Field(spec, "ssh", Nothing), "publicKey", "")
  BY NothingIsEmpty DEF Meaning, Field
<1>3. QED
  BY <1>1, <1>2 DEF Meaning

(* Filling a form from a valid specification and reading what the          *)
(* specification says come to the same, but for texts that are empty.      *)
LEMMA FormIsMeaning ==
  ASSUME NEW spec, Valid(spec), NEW f \in Fields
  PROVE  Filled(f, Meaning(spec)[f]) => FormOf(spec)[f] = Meaning(spec)[f]
<1> PICK F : F = FormOf(spec)
  OBVIOUS
<1> PICK M : M = Meaning(spec)
  OBVIOUS
<1>1. /\ {"cores", "memory", "disk"} \subseteq DOMAIN spec
      /\ {"size", "image"} \subseteq DOMAIN spec.disk
      /\ spec.disk.image # ""
  BY ImagesType DEF Valid, WellFormed, Required
<1>2. F["cores"] = M["cores"]
  <2>1. Field(spec, "cores", 0) = spec.cores
    BY <1>1 DEF Field
  <2>2. spec.cores # 0
    BY DEF Valid
  <2>3. QED
    BY <2>1, <2>2, FormOfFields, MeaningFields DEF OrNumber
<1>3. M["memory"] # "" => F["memory"] = M["memory"]
  BY <1>1, FormOfFields, MeaningFields DEF OrText, Field
<1>4. M["diskSize"] # "" => F["diskSize"] = M["diskSize"]
  BY <1>1, FormOfFields, MeaningFields DEF OrText, Field
<1>5. F["diskImage"] = M["diskImage"]
  BY <1>1, FormOfFields, MeaningFields DEF OrText, Field
<1>6. F["gpuCount"] = M["gpuCount"]
  BY FormOfFields, MeaningFields
<1>7. F["sshPublicKey"] = M["sshPublicKey"]
  BY FormOfFields, MeaningFields
<1>8. QED
  BY <1>2, <1>3, <1>4, <1>5, <1>6, <1>7 DEF Fields, Filled

(* What the specification made from a form says: what was in the form, a   *)
(* negative number of GPUs counting as none.                               *)
LEMMA MeaningOfForm ==
  ASSUME NEW f \in Fields, form.gpuCount \in Int
  PROVE  Meaning(SpecOf(form))[f] = Typed(f)
<1> PICK spec : spec = SpecOf(form)
  OBVIOUS
<1> PICK M : M = Meaning(spec)
  OBVIOUS
<1>1. /\ M["cores"] = form["cores"] /\ M["memory"] = form["memory"]
      /\ M["diskSize"] = form["diskSize"] /\ M["diskImage"] = form["diskImage"]
  <2>1. /\ M.cores = spec.cores /\ M.memory = spec.memory
        /\ M.diskSize = spec.disk.size /\ M.diskImage = spec.disk.image
    BY MeaningFields
  <2>2. /\ spec.cores = form.cores /\ spec.memory = form.memory
        /\ spec.disk = [size |-> form.diskSize, image |-> form.diskImage]
    BY SpecOfFields
  <2>3. QED
    BY <2>1, <2>2
<1>2. M["gpuCount"] = IF form["gpuCount"] < 0 THEN 0 ELSE form["gpuCount"]
  <2>1. CASE form.gpuCount > 0
    <3>1. "gpu" \in DOMAIN spec /\ spec.gpu = [count |-> form.gpuCount]
      BY <2>1, SpecOfFields
    <3>2. Field(spec, "gpu", Nothing) = [count |-> form.gpuCount]
      BY <3>1, FieldThere
    <3>3. Field([count |-> form.gpuCount], "count", 0) = form.gpuCount
      BY FieldThere
    <3>4. M.gpuCount = form.gpuCount
      BY <3>2, <3>3, MeaningFields
    <3>5. QED
      BY <2>1, <3>4
  <2>2. CASE ~(form.gpuCount > 0)
    <3>1. "gpu" \notin DOMAIN spec
      BY <2>2, SpecOfFields
    <3>2. Field(Field(spec, "gpu", Nothing), "count", 0) = 0
      BY <3>1, FieldMissing, NothingIsEmpty
    <3>3. M.gpuCount = 0
      BY <3>2, MeaningFields
    <3>4. QED
      BY <2>2, <3>3
  <2>3. QED
    BY <2>1, <2>2
<1>3. M["sshPublicKey"] = form["sshPublicKey"]
  <2>1. CASE form.sshPublicKey # ""
    <3>1. /\ "ssh" \in DOMAIN spec
          /\ spec.ssh = [publicKey |-> form.sshPublicKey]
      BY <2>1, SpecOfFields
    <3>2. Field(spec, "ssh", Nothing) = [publicKey |-> form.sshPublicKey]
      BY <3>1, FieldThere
    <3>3. Field([publicKey |-> form.sshPublicKey], "publicKey", "") = form.sshPublicKey
      BY DEF Field
    <3>4. QED
      BY <3>2, <3>3, MeaningFields
  <2>2. CASE form.sshPublicKey = ""
    <3>1. "ssh" \notin DOMAIN spec
      BY <2>2, SpecOfFields
    <3>2. Field(Field(spec, "ssh", Nothing), "publicKey", "") = ""
      BY <3>1, FieldMissing, NothingIsEmpty
    <3>3. QED
      BY <2>2, <3>2, MeaningFields
  <2>3. QED
    BY <2>1, <2>2
<1>4. M[f] = Typed(f)
  BY <1>1, <1>2, <1>3 DEF Typed, Fields
<1>5. QED
  BY <1>4

(* A form that is filled or typed into keeps its fields.                   *)
LEMMA FormTypes ==
  /\ DOMAIN EmptyForm = Fields /\ EmptyForm.gpuCount \in Int
  /\ \A spec : Valid(spec) => DOMAIN FormOf(spec) = Fields /\ FormOf(spec).gpuCount \in Int
  /\ \A f \in Fields : \A v : DOMAIN form = Fields => DOMAIN [form EXCEPT ![f] = v] = Fields
  /\ Typable("gpuCount") \subseteq Int
<1>1. DOMAIN EmptyForm = Fields /\ EmptyForm.gpuCount \in Int
  BY DEF EmptyForm, Fields
<1>2. ASSUME NEW spec, Valid(spec)
      PROVE  DOMAIN FormOf(spec) = Fields /\ FormOf(spec).gpuCount \in Int
  BY <1>2 DEF FormOf, Fields, Valid
<1>3. Typable("gpuCount") \subseteq Int
  BY TypedType DEF Typable
<1>4. QED
  BY <1>1, <1>2, <1>3

(* What kcp stores is valid and what the pages are given is of its type.   *)
THEOREM TypeCorrect == Spec => []TypeOK
<1> USE DEF TypeOK
<1>1. Init => TypeOK
  <2>1. NoStatus \in Statuses /\ {} \in ConditionLists
    BY DEF NoStatus, Statuses, Phases, ConditionLists
  <2>2. QED
    BY <2>1, FormTypes DEF Init
<1>2. TypeOK /\ [Next]_vars => TypeOK'
  <2> SUFFICES ASSUME TypeOK, [Next]_vars PROVE TypeOK'
    OBVIOUS
  <2> NoStatus \in Statuses
    BY DEF NoStatus, Statuses, Phases
  <2> USE FormTypes DEF formVars, Close
  <2>1. CASE OpenCreate \/ Leave
    BY <2>1 DEF OpenCreate, Leave
  <2>2. CASE OpenEdit
    BY <2>2 DEF OpenEdit
  <2>3. CASE Create
    BY <2>3 DEF Create
  <2>4. CASE Save
    BY <2>4 DEF Save
  <2>5. ASSUME NEW f \in Fields, Type(f) PROVE TypeOK'
    <3>1. PICK v \in Typable(f) : form' = [form EXCEPT ![f] = v]
      BY <2>5 DEF Type
    <3>2. form'.gpuCount \in Int
      BY <3>1 DEF Fields
    <3>3. QED
      BY <2>5, <3>1, <3>2 DEF Type
  <2>6. CASE OtherClient
    BY <2>6 DEF OtherClient
  <2>7. CASE Delete
    BY <2>7 DEF Delete
  <2>8. CASE VMStatus
    BY <2>8 DEF VMStatus
  <2>9. CASE ClusterStatus
    BY <2>9 DEF ClusterStatus
  <2>10. CASE UNCHANGED vars
    BY <2>10 DEF vars
  <2>11. QED
    BY <2>1, <2>2, <2>3, <2>4, <2>5, <2>6, <2>7, <2>8, <2>9, <2>10 DEF Next
<1>3. QED
  BY <1>1, <1>2, PTL DEF Spec

(* A save from the edit form changes what was typed and nothing else.      *)
THEOREM EditsOnlyWhatWasTypedHolds == Spec => EditsOnlyWhatWasTyped
<1>1. ASSUME TypeOK, Save, NEW f \in Fields
      PROVE  IF form[f] # FormOf(base)[f] THEN Meaning(stored')[f] = Typed(f)
             ELSE Filled(f, Meaning(stored)[f]) => Meaning(stored')[f] = Meaning(stored)[f]
  <2>1. stored = base /\ Valid(base) /\ stored' = SpecOf(form)
    BY <1>1 DEF TypeOK, Save
  <2>2. Meaning(stored')[f] = Typed(f)
    BY <1>1, <2>1, MeaningOfForm DEF TypeOK
  <2>3. ASSUME form[f] = FormOf(base)[f], Filled(f, Meaning(stored)[f])
        PROVE  Typed(f) = Meaning(stored)[f]
    <3>1. form[f] = Meaning(stored)[f]
      BY <2>1, <2>3, FormIsMeaning
    <3>2. f = "gpuCount" => form[f] \in 0..8
      BY <2>1, <2>3 DEF Valid, FormOf
    <3>3. QED
      BY <3>1, <3>2 DEF Typed
  <2>4. QED
    BY <2>2, <2>3
<1>2. TypeOK /\ [Next]_vars =>
        [Save => \A f \in Fields :
           IF form[f] # FormOf(base)[f] THEN Meaning(stored')[f] = Typed(f)
           ELSE Filled(f, Meaning(stored)[f]) => Meaning(stored')[f] = Meaning(stored)[f]]_vars
  BY <1>1
<1>3. QED
  BY <1>2, TypeCorrect, PTL DEF Spec, EditsOnlyWhatWasTyped

(* The create form of the app-shell sends all that the API requires,       *)
(* whatever is typed (VMCreatePage.tsx:46-54) ...                          *)
THEOREM ShellCreatesAreWellFormed ==
  ASSUME ~Pilet
  PROVE  Spec => []CreatesAreWellFormed
<1>1. PICK spec : spec = SpecOf(form)
  OBVIOUS
<1>2. /\ Required \subseteq DOMAIN spec
      /\ spec.disk = [size |-> form.diskSize, image |-> form.diskImage]
  BY <1>1, SpecOfFields
<1>3. WellFormed(spec)
  BY <1>2 DEF WellFormed
<1>4. CreatesAreWellFormed
  BY <1>1, <1>3 DEF CreatesAreWellFormed, Created
<1>5. QED
  BY <1>4, PTL

(* ... and that of the pilet never does: kcp accepts none of its requests, *)
(* whatever is typed and whichever images are on offer.                    *)
THEOREM PiletCreatesNothing ==
  ASSUME Pilet
  PROVE  Spec => [][~Create]_vars
<1>1. PICK spec : spec = PiletSpecOf(form)
  OBVIOUS
<1>2. "disk" \notin DOMAIN spec
  BY <1>1, PiletSpecHasNoDisk
<1>3. ~WellFormed(spec)
  BY <1>2 DEF WellFormed, Required
<1>4. ~Create
  BY <1>1, <1>3 DEF Create, Created, Valid
<1>5. QED
  BY <1>4, PTL

(***************************************************************************)
(* The pages of the shell say the same of a machine.                       *)
(***************************************************************************)

(* What the detail page shows, field by field.                             *)
LEMMA DetailFields ==
  ASSUME ~Pilet, NEW spec, NEW st
  PROVE  /\ Detail(spec, st).phase = ShownPhase(st)
         /\ Detail(spec, st).tone = DetailTone(ShownPhase(st))
         /\ Detail(spec, st).cores = InfoRow(spec, "cores")
         /\ Detail(spec, st).memory = Field(spec, "memory", "-")
         /\ Detail(spec, st).image = Field(spec.disk, "image", "-")
         /\ Detail(spec, st).gpu = Field(Gpu(spec), "count", 0)
         /\ Detail(spec, st).ip = OrText(st.ip, "None")
<1>1. PICK header : header = Header(st)
  OBVIOUS
<1>2. PICK card : card = ShellCard(spec)
  OBVIOUS
<1>3. PICK footer : footer = StatusCard(st)
  OBVIOUS
<1>4. PICK upper : upper = Merge(header, card)
  OBVIOUS
<1>5. Detail(spec, st) = Merge(upper, footer)
  BY <1>1, <1>2, <1>3, <1>4 DEF Detail
<1>6. /\ DOMAIN header = {"phase", "tone"}
      /\ header["phase"] = ShownPhase(st) /\ header["tone"] = DetailTone(ShownPhase(st))
  BY <1>1 DEF Header
<1>7. /\ DOMAIN card = {"cores", "memory", "size", "image", "gpu", "key"}
      /\ card["cores"] = InfoRow(spec, "cores")
      /\ card["memory"] = Field(spec, "memory", "-")
      /\ card["image"] = Field(spec.disk, "image", "-")
      /\ card["gpu"] = Field(Gpu(spec), "count", 0)
  BY <1>2 DEF ShellCard
<1>8. DOMAIN footer = {"phase", "ip"} /\ footer["ip"] = OrText(st.ip, "None")
  BY <1>3 DEF StatusCard
<1>9. DOMAIN upper = DOMAIN header \cup DOMAIN card
  BY <1>4, MergeFields
<1>10. \A f \in DOMAIN header : upper[f] = header[f]
  BY <1>4, MergeFacts
<1>11. ASSUME NEW f, f \in DOMAIN card, f \notin DOMAIN header PROVE upper[f] = card[f]
  BY <1>4, <1>11, MergeFacts
<1>12. /\ upper["phase"] = ShownPhase(st) /\ upper["tone"] = DetailTone(ShownPhase(st))
       /\ upper["cores"] = InfoRow(spec, "cores")
       /\ upper["memory"] = Field(spec, "memory", "-")
       /\ upper["image"] = Field(spec.disk, "image", "-")
       /\ upper["gpu"] = Field(Gpu(spec), "count", 0)
  BY <1>6, <1>7, <1>10, <1>11
<1>13. \A f \in DOMAIN upper : Detail(spec, st)[f] = upper[f]
  BY <1>5, MergeFacts
<1>14. Detail(spec, st)["ip"] = footer["ip"]
  <2>1. "ip" \notin DOMAIN upper /\ "ip" \in DOMAIN footer
    BY <1>6, <1>7, <1>8, <1>9
  <2>2. QED
    BY <1>5, <2>1, MergeFacts
<1>15. {"phase", "tone", "cores", "memory", "image", "gpu"} \subseteq DOMAIN upper
  BY <1>6, <1>7, <1>9
<1>16. QED
  BY <1>8, <1>12, <1>13, <1>14, <1>15

(* What the list shows.                                                    *)
LEMMA RowFields ==
  ASSUME ~Pilet, NEW spec, NEW st
  PROVE  /\ Row(spec, st).phase = ShownPhase(st)
         /\ Row(spec, st).tone = ListTone(ShownPhase(st))
         /\ Row(spec, st).cores = IF spec.cores = 0 THEN "-" ELSE NumberText(spec.cores)
         /\ Row(spec, st).memory = OrText(spec.memory, "-")
         /\ Row(spec, st).image = OrText(spec.disk.image, "-")
         /\ Row(spec, st).gpu = Field(Gpu(spec), "count", 0)
         /\ Row(spec, st).ip = OrText(st.ip, "-")
BY DEF Row, ShellRow

(* The dashboard counts a machine when its phase is Running, and that is   *)
(* when the list shows it in the colour for that.                          *)
LEMMA RunningIsGood ==
  ASSUME NEW st \in Statuses
  PROVE  /\ RunningVMs([vm |-> st]) \in {0, 1}
         /\ RunningVMs([vm |-> st]) = 1 <=> ListTone(ShownPhase(st)) = "good"
<1>1. st.phase \in Phases
  BY DEF Statuses
<1>2. ListTone(ShownPhase(st)) = "good" <=> st.phase = "Running"
  BY <1>1 DEF ListTone, ShownPhase, OrText, Phases
<1>3. PICK vms : vms = [vm |-> st]
  OBVIOUS
<1>4. DOMAIN vms = {"vm"} /\ vms["vm"] = st
  BY <1>3
<1>5. CASE st.phase = "Running"
  <2>1. {n \in DOMAIN vms : vms[n].phase = "Running"} = {"vm"}
    BY <1>4, <1>5
  <2>2. RunningVMs(vms) = 1
    BY <2>1, FS_Singleton DEF RunningVMs
  <2>3. QED
    BY <1>2, <1>3, <1>5, <2>2
<1>6. CASE st.phase # "Running"
  <2>1. {n \in DOMAIN vms : vms[n].phase = "Running"} = {}
    BY <1>4, <1>6
  <2>2. RunningVMs(vms) = 0
    BY <2>1, FS_EmptySet DEF RunningVMs
  <2>3. QED
    BY <1>2, <1>3, <1>6, <2>2
<1>7. QED
  BY <1>5, <1>6

(* The list, the detail page and the dashboard of the shell say the same   *)
(* of any machine kcp can hold.                                            *)
THEOREM PagesAgreeHolds ==
  ASSUME ~Pilet
  PROVE  Spec => []PagesAgree
<1>1. TypeOK => PagesAgree
  <2> SUFFICES ASSUME TypeOK, stored # Nothing
      PROVE  LET row == Row(stored, status)
                 detail == Detail(stored, status)
             IN /\ row.phase = detail.phase /\ row.tone = detail.tone
                /\ row.cores = detail.cores /\ row.image = detail.image
                /\ row.gpu = detail.gpu
                /\ row.memory \in {detail.memory, "-"}
                /\ (row.ip = "-") <=> (detail.ip = "None")
                /\ (row.tone = "good") <=> (RunningVMs([vm |-> status]) = 1)
    BY DEF PagesAgree
  <2>1. Valid(stored) /\ status \in Statuses
    BY DEF TypeOK
  <2>2. /\ {"cores", "memory", "disk"} \subseteq DOMAIN stored
        /\ {"size", "image"} \subseteq DOMAIN stored.disk /\ stored.disk.image # ""
    BY <2>1, ImagesType DEF Valid, WellFormed, Required
  <2>3. stored.cores # 0
    BY <2>1 DEF Valid
  <2>4. status.phase \in Phases /\ status.ip \in {"", "10.0.0.1"}
    BY <2>1 DEF Statuses
  <2>5. Row(stored, status).phase = Detail(stored, status).phase
    BY DetailFields, RowFields
  <2>6. Row(stored, status).tone = Detail(stored, status).tone
    <3>1. ListTone(ShownPhase(status)) = DetailTone(ShownPhase(status))
      BY <2>4 DEF ListTone, DetailTone, ShownPhase, OrText, Phases
    <3>2. QED
      BY <3>1, DetailFields, RowFields
  <2>7. Row(stored, status).cores = Detail(stored, status).cores
    <3>1. InfoRow(stored, "cores") = NumberText(stored.cores)
      BY <2>2 DEF InfoRow
    <3>2. QED
      BY <2>3, <3>1, DetailFields, RowFields
  <2>8. Row(stored, status).image = Detail(stored, status).image
    <3>1. Field(stored.disk, "image", "-") = OrText(stored.disk.image, "-")
      BY <2>2 DEF Field, OrText
    <3>2. QED
      BY <3>1, DetailFields, RowFields
  <2>9. Row(stored, status).gpu = Detail(stored, status).gpu
    BY DetailFields, RowFields
  <2>10. Row(stored, status).memory \in {Detail(stored, status).memory, "-"}
    <3>1. OrText(stored.memory, "-") \in {Field(stored, "memory", "-"), "-"}
      BY <2>2 DEF Field, OrText
    <3>2. QED
      BY <3>1, DetailFields, RowFields
  <2>11. (Row(stored, status).ip = "-") <=> (Detail(stored, status).ip = "None")
    <3>1. (OrText(status.ip, "-") = "-") <=> (OrText(status.ip, "None") = "None")
      BY <2>4 DEF OrText
    <3>2. QED
      BY <3>1, DetailFields, RowFields
  <2>12. (Row(stored, status).tone = "good") <=> (RunningVMs([vm |-> status]) = 1)
    BY <2>1, RowFields, RunningIsGood
  <2>13. QED
    BY <2>5, <2>6, <2>7, <2>8, <2>9, <2>10, <2>11, <2>12
<1>2. QED
  BY <1>1, TypeCorrect, PTL

(***************************************************************************)
(* The pages say the same of a cluster.                                    *)
(***************************************************************************)

(* Where the list has one condition of a type at most, its label asks      *)
(* whether there is an Available condition that is true.                   *)
LEMMA LabelAsks ==
  ASSUME NEW kc \in ConditionLists
  PROVE  RowAvailable(kc) <=> \E c \in kc : c.type = "Available" /\ c.status = "True"
<1>1. CASE Find(kc, "Available") = {}
  BY <1>1 DEF RowAvailable, Find
<1>2. CASE Find(kc, "Available") # {}
  <2>1. PICK d : d = CHOOSE c \in Find(kc, "Available") : TRUE
    OBVIOUS
  <2>2. d \in Find(kc, "Available")
    BY <1>2, <2>1
  <2>3. d \in kc /\ d.type = "Available"
    BY <2>2 DEF Find
  <2>4. \A c \in kc : c.type = "Available" => c = d
    BY <2>3 DEF ConditionLists
  <2>5. RowAvailable(kc) <=> d.status = "True"
    BY <1>2, <2>1 DEF RowAvailable
  <2>6. QED
    BY <2>3, <2>4, <2>5
<1>3. QED
  BY <1>1, <1>2

(* The dashboard counts a cluster that has one.                            *)
LEMMA CountAsks ==
  ASSUME NEW kc
  PROVE  /\ AvailableClusters([kc |-> kc]) \in {0, 1}
         /\ AvailableClusters([kc |-> kc]) = 1 <=>
              \E c \in kc : c.type = "Available" /\ c.status = "True"
<1>1. PICK kcs : kcs = [kc |-> kc]
  OBVIOUS
<1>2. DOMAIN kcs = {"kc"} /\ kcs["kc"] = kc
  BY <1>1
<1>3. CASE \E c \in kc : c.type = "Available" /\ c.status = "True"
  <2>1. {n \in DOMAIN kcs : \E c \in kcs[n] : c.type = "Available" /\ c.status = "True"}
          = {"kc"}
    BY <1>2, <1>3
  <2>2. AvailableClusters(kcs) = 1
    BY <2>1, FS_Singleton DEF AvailableClusters
  <2>3. QED
    BY <1>1, <1>3, <2>2
<1>4. CASE ~\E c \in kc : c.type = "Available" /\ c.status = "True"
  <2>1. {n \in DOMAIN kcs : \E c \in kcs[n] : c.type = "Available" /\ c.status = "True"} = {}
    BY <1>2, <1>4
  <2>2. AvailableClusters(kcs) = 0
    BY <2>1, FS_EmptySet DEF AvailableClusters
  <2>3. QED
    BY <1>1, <1>4, <2>2
<1>5. QED
  BY <1>3, <1>4

(* The table's good row of that type is such a condition.                  *)
LEMMA TableAsks ==
  ASSUME NEW kc
  PROVE  [type |-> "Available", tone |-> "good"] \in ConditionTable(kc) <=>
           \E c \in kc : c.type = "Available" /\ c.status = "True"
<1>1. ASSUME NEW c \in kc
      PROVE  [type |-> "Available", tone |-> "good"]
               = [type |-> c.type, tone |-> IF c.status = "True" THEN "good" ELSE "bad"]
             <=> c.type = "Available" /\ c.status = "True"
  OBVIOUS
<1>2. QED
  BY <1>1 DEF ConditionTable

(* However each page looks for it, they agree on whether a cluster is      *)
(* available, and the dashboard's health counts what the lists show.       *)
THEOREM AvailabilityAgreesHolds == Spec => []AvailabilityAgrees
<1>1. TypeOK => AvailabilityAgrees
  <2> SUFFICES ASSUME TypeOK PROVE AvailabilityAgrees
    OBVIOUS
  <2>1. cluster \in ConditionLists /\ status \in Statuses
    BY DEF TypeOK
  <2>2. RowAvailable(cluster) <=> HeaderAvailable(cluster)
    BY DEF RowAvailable, HeaderAvailable
  <2>3. RowAvailable(cluster) <=> AvailableClusters([kc |-> cluster]) = 1
    BY <2>1, LabelAsks, CountAsks
  <2>4. RowAvailable(cluster) <=>
          [type |-> "Available", tone |-> "good"] \in ConditionTable(cluster)
    BY <2>1, LabelAsks, TableAsks
  <2>5. Healthy([vm |-> status], [kc |-> cluster]) = 2 <=>
          RunningVMs([vm |-> status]) = 1 /\ AvailableClusters([kc |-> cluster]) = 1
    <3>1. /\ RunningVMs([vm |-> status]) \in {0, 1}
          /\ AvailableClusters([kc |-> cluster]) \in {0, 1}
      BY <2>1, RunningIsGood, CountAsks
    <3>2. QED
      BY <3>1 DEF Healthy
  <2>6. QED
    BY <2>1, <2>2, <2>3, <2>4, <2>5, RunningIsGood DEF AvailabilityAgrees
<1>2. QED
  BY <1>1, TypeCorrect, PTL
=============================================================================
