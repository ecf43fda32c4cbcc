----------------------------- MODULE ConsolePages -----------------------------
(***************************************************************************)
(* The pages of the web console (console/app-shell/src/pages and           *)
(* dashboard.tsx) in one tab, and the requests they make to kcp.           *)
(*                                                                         *)
(* A page asks kcp when it is mounted, and shows what is answered.  A      *)
(* route with a :name keeps its component when only the name changes: the  *)
(* component asks again, and nothing else in it is reset.  Requests are    *)
(* never cancelled and are answered in any order.  An answer to a          *)
(* component that is gone no longer changes what it held, but a handler    *)
(* that navigates when its request has succeeded still does.               *)
(*                                                                         *)
(* External: kcp, which does or refuses what it is asked, and may do it    *)
(* without the answer getting through, and everybody else who changes the  *)
(* same objects: other tabs, the command line and the controllers.         *)
(***************************************************************************)
EXTENDS Naturals, FiniteSets

CONSTANTS
  VMs,      \* names of virtual machines
  Clusters, \* names of Kubernetes clusters
  Nobody,   \* no name
  MaxCalls, \* bound on requests in flight
  FirstRev, \* the last version given before the console is opened
  FirstVersion, \* the version of each object that is there by then
  MaxRev    \* bound on versions of objects

ASSUME NamesType == VMs \cap Clusters = {} /\ Nobody \notin VMs \cup Clusters
ASSUME PagesBounds ==
  /\ MaxCalls \in Nat /\ MaxCalls >= 2 /\ MaxRev \in Nat \ {0} /\ FirstRev \in 1..MaxRev
  /\ FirstVersion \in [VMs \cup Clusters -> 1..FirstRev]
  /\ \A m, n \in VMs \cup Clusters : FirstVersion[m] = FirstVersion[n] => m = n

VARIABLES
  obj,   \* kcp: version of each object, 0 for none
  rev,   \* kcp: the last version given
  page,  \* the mounted page
  calls  \* requests, from fetch to the answer

storeVars == <<obj, rev>>
vars == <<storeVars, page, calls>>

Names == VMs \cup Clusters
Slots == 1..MaxCalls

(* The routes of index.tsx, and the names they may have.                   *)
Kinds == {"dashboard", "vms", "create", "edit", "vm", "kcs", "kc"}
NamesOf(kind) ==
  IF kind \in {"vm", "edit"} THEN VMs ELSE IF kind = "kc" THEN Clusters ELSE {Nobody}

Version == [name : Names \cup {Nobody}, rv : Nat]
NoVersion == [name |-> Nobody, rv |-> 0]

-----------------------------------------------------------------------------
(* Requests.                                                               *)

ReadOps == {"listVMs", "listKCs", "get"}
WriteOps == {"create", "update", "delete"}

(* body is the object of an update; seen (history) the version the user    *)
(* had in the form; from the handler that waits, and mine whether its page *)
(* is still mounted.  A request that is done carries its answer.           *)
Call ==
  [op : ReadOps \cup WriteOps \cup {"none"}, name : Names \cup {Nobody}, body : Version,
   seen : Version, from : Kinds \cup {"nobody"}, mine : BOOLEAN, done : BOOLEAN,
   ok : BOOLEAN, rv : Nat, rows : SUBSET Names]
NoCall ==
  [op |-> "none", name |-> Nobody, body |-> NoVersion, seen |-> NoVersion,
   from |-> "nobody", mine |-> FALSE, done |-> FALSE, ok |-> FALSE, rv |-> 0, rows |-> {}]

Asking(op, n, kind) ==
  [NoCall EXCEPT !.op = op, !.name = n, !.from = kind, !.mine = TRUE]

Free(cs) == {s \in Slots : cs[s] = NoCall}
Room(cs, k) == Cardinality(Free(cs)) >= k
Send(cs, c) == [cs EXCEPT ![CHOOSE s \in Slots : cs[s] = NoCall] = c]

(* What is left of the requests when their page is unmounted, or the whole *)
(* document.  Nobody has a use for the answer to a read any more, nor for  *)
(* that to a deletion from the list; the other handlers still wait.        *)
Left(cs, waits) ==
  [s \in Slots |->
     IF cs[s].op \in ReadOps \/ (cs[s].done /\ cs[s].from \notin waits) THEN NoCall
     ELSE [cs[s] EXCEPT !.mine = FALSE, !.from = IF @ \in waits THEN @ ELSE "nobody"]]
Unmounted(cs) == Left(cs, {"vm", "edit", "create"})
Unloaded(cs) == Left(cs, {})

-----------------------------------------------------------------------------
(* Pages.                                                                  *)

(* waiting holds the first answers a page waits for, which is its loading  *)
(* state; rows and got what the answers have put into it (got is the form  *)
(* and the original of an edit page); ask the VM the delete dialog is open *)
(* for, or on the detail page that it is open at all; busy is deleting,    *)
(* saving or creating.  dirty and jumped are history: the form holds input *)
(* that was typed; the name has changed under the component; astray: the   *)
(* last answer to a get was a failure, or for an earlier name.             *)
Fresh(kind, n, reads) ==
  [kind |-> kind, name |-> n, waiting |-> reads, error |-> FALSE, rows |-> {},
   got |-> NoVersion, ask |-> Nobody, busy |-> FALSE,
   dirty |-> FALSE, jumped |-> FALSE, astray |-> FALSE]

Reads(kind) ==
  CASE kind = "dashboard" -> {"listVMs", "listKCs"}
    [] kind = "vms" -> {"listVMs"}
    [] kind = "kcs" -> {"listKCs"}
    [] kind = "create" -> {}
    [] OTHER -> {"get"}

Asked(cs, kind, n) ==
  CASE kind = "dashboard" ->
         Send(Send(cs, Asking("listVMs", Nobody, kind)), Asking("listKCs", Nobody, kind))
    [] kind = "vms" -> Send(cs, Asking("listVMs", Nobody, kind))
    [] kind = "kcs" -> Send(cs, Asking("listKCs", Nobody, kind))
    [] kind = "create" -> cs
    [] OTHER -> Send(cs, Asking("get", n, kind))

MountOver(cs, kind, n) ==
  /\ Room(cs, Cardinality(Reads(kind)))
  /\ page' = Fresh(kind, n, Reads(kind))
  /\ calls' = Asked(cs, kind, n)

(* The page changes to another route, or to another name in the same one,  *)
(* with the requests cs under way.                                         *)
Stay(cs) == page' = page /\ calls' = cs

(* Mutant: an effect that does not depend on the name.                     *)
Rename_NoReload(cs, n) ==
  /\ page' = [page EXCEPT !.name = n, !.jumped = TRUE]
  /\ calls' = cs

Rename(cs, n) ==
  /\ Room(cs, 1)
  /\ page' = [page EXCEPT !.name = n, !.jumped = TRUE]
  /\ calls' = Asked(cs, page.kind, n)

To(cs, kind, n) ==
  \/ kind = page.kind /\ n = page.name /\ Stay(cs)
  \/ kind = page.kind /\ n # page.name /\ Rename(cs, n)
  \/ kind # page.kind /\ MountOver(Unmounted(cs), kind, n)

Loading == page.waiting # {}

(* What a page puts on the screen: a spinner, an error in place of the     *)
(* content, or the content.                                                *)
ListScreen == IF Loading THEN "spinner" ELSE IF page.error THEN "error" ELSE "rows"
DetailScreen ==
  IF Loading THEN "spinner" ELSE IF page.error THEN "error"
  ELSE IF page.got = NoVersion THEN "not found" ELSE "object"
EditScreen ==
  IF Loading THEN "spinner" ELSE IF page.got = NoVersion THEN "error" ELSE "form"

Screen ==
  CASE page.kind \in {"vms", "kcs"} -> ListScreen
    [] page.kind \in {"vm", "kc"} -> DetailScreen
    [] page.kind = "edit" -> EditScreen
    [] page.kind = "create" -> "form"
    [] page.kind = "dashboard" -> "cards"

(* The links of the layout, and those of each page.                        *)
NavSections == {"dashboard", "vms", "kcs"}
Sidebar == NavSections \X {Nobody}
DashboardLinks == {"create", "vms", "kcs"} \X {Nobody}
VMListLinks == {<<"create", Nobody>>} \cup ({"vm", "edit"} \X (page.rows \cap VMs))
KCListLinks == {"kc"} \X (page.rows \cap Clusters)
VMDetailLinks == {<<"vms", Nobody>>, <<"edit", page.name>>}
KCDetailLinks == {<<"kcs", Nobody>>}
VMEditLinks == {<<"vm", page.name>>}
VMCreateLinks == {<<"vms", Nobody>>}

Links ==
  Sidebar \cup
  CASE Screen = "cards" -> DashboardLinks
    [] Screen = "rows" -> IF page.kind = "vms" THEN VMListLinks ELSE KCListLinks
    [] Screen = "object" -> IF page.kind = "vm" THEN VMDetailLinks ELSE KCDetailLinks
    [] Screen = "form" -> IF page.kind = "edit" THEN VMEditLinks ELSE VMCreateLinks
    [] OTHER -> {}

Init ==
  /\ \E there \in SUBSET Names : obj = [n \in Names |-> IF n \in there THEN FirstVersion[n] ELSE 0]
  /\ rev = FirstRev
  /\ page = Fresh("dashboard", Nobody, Reads("dashboard"))
  /\ calls = Asked([s \in Slots |-> NoCall], "dashboard", Nobody)

-----------------------------------------------------------------------------
(* kcp and everybody else.                                                 *)

NewVersion(n) ==
  /\ rev < MaxRev
  /\ rev' = rev + 1
  /\ obj' = [obj EXCEPT ![n] = rev + 1]

Removed(n) ==
  /\ obj[n] # 0
  /\ obj' = [obj EXCEPT ![n] = 0]
  /\ UNCHANGED rev

(* Clusters are read-only in the console and never told apart by version.  *)
Others(n) == (NewVersion(n) \/ Removed(n)) /\ UNCHANGED <<page, calls>>

Sent(s) == calls[s].op # "none" /\ ~calls[s].done
Returned(s) == calls[s].op # "none" /\ calls[s].done

Over(c) == [c EXCEPT !.done = TRUE, !.body = NoVersion, !.seen = NoVersion]
Failed(c) == Over(c)
Succeeded(c) == [Over(c) EXCEPT !.ok = TRUE]

(* An answer nobody waits for is gone at once.                             *)
Answered(s, answer) ==
  calls' = [calls EXCEPT ![s] = IF @.from = "nobody" THEN NoCall ELSE answer]

(* The request fails: the network, the token, a conflict, a name taken or  *)
(* unknown, an object that is not valid.                                   *)
Refuse(s) ==
  /\ Sent(s)
  /\ Answered(s, Failed(calls[s]))
  /\ UNCHANGED <<storeVars, page>>

Listed(op) == {n \in IF op = "listVMs" THEN VMs ELSE Clusters : obj[n] # 0}

ServeRead(s) ==
  /\ Sent(s)
  /\ LET c == calls[s] IN
       \/ /\ c.op = "get" /\ obj[c.name] # 0
          /\ Answered(s, [Succeeded(c) EXCEPT !.rv = obj[c.name]])
       \/ /\ c.op \in {"listVMs", "listKCs"}
          /\ Answered(s, [Succeeded(c) EXCEPT !.rows = Listed(c.op)])
  /\ UNCHANGED <<storeVars, page>>

(* A write is done, and its answer gets through or is lost.  kcp takes an  *)
(* update only under the object's own name and on its current version.     *)
ServeWrite(s) ==
  /\ Sent(s)
  /\ LET c == calls[s] IN
       /\ \/ c.op = "create" /\ obj[c.name] = 0 /\ NewVersion(c.name)
          \/ /\ c.op = "update" /\ c.body.name = c.name
             /\ obj[c.name] # 0 /\ obj[c.name] = c.body.rv
             /\ NewVersion(c.name)
          \/ c.op = "delete" /\ Removed(c.name)
       /\ \E answer \in {Succeeded(c), Failed(c)} : Answered(s, answer)
  /\ UNCHANGED page

Serve(s) == Refuse(s) \/ ServeRead(s) \/ ServeWrite(s)

-----------------------------------------------------------------------------
(* The user.                                                               *)

(* A link, or a button that is one.                                        *)
FollowLink(kind, n) ==
  /\ <<kind, n>> \in Links
  /\ To(calls, kind, n)
  /\ UNCHANGED storeVars

(* The history of the tab, which may hold any page and be jumped into.     *)
JumpInHistory(kind, n) ==
  /\ <<kind, n>> # <<page.kind, page.name>>
  /\ To(calls, kind, n)
  /\ UNCHANGED storeVars

(* A new document, loaded from a URL.                                      *)
Load(kind, n) ==
  /\ MountOver(Unloaded(calls), kind, n)
  /\ UNCHANGED storeVars

Quietly == UNCHANGED <<storeVars, calls>>

AskDelete(n) ==
  /\ page.ask = Nobody
  /\ \/ page.kind = "vms" /\ Screen = "rows" /\ n \in page.rows
     \/ page.kind = "vm" /\ Screen = "object" /\ n = page.name
  /\ page' = [page EXCEPT !.ask = n]
  /\ Quietly

(* Cancel, or a click beside the dialog, which works while it deletes.     *)
CloseDialog ==
  /\ Screen \in {"rows", "object"} /\ page.ask # Nobody
  /\ page' = [page EXCEPT !.ask = Nobody]
  /\ Quietly

Type ==
  /\ page.kind = "edit" /\ Screen = "form"
  /\ page' = [page EXCEPT !.dirty = TRUE]
  /\ Quietly

(* A handler sends its request and locks the buttons until the answer.     *)
Write(c) ==
  /\ ~page.busy /\ Room(calls, 1)
  /\ calls' = Send(calls, c)
  /\ UNCHANGED storeVars

DeleteFromList ==
  /\ page.kind = "vms" /\ Screen = "rows" /\ page.ask # Nobody
  /\ Write(Asking("delete", page.ask, "vms"))
  /\ page' = [page EXCEPT !.busy = TRUE]

DeleteFromDetail ==
  /\ page.kind = "vm" /\ Screen = "object" /\ page.ask # Nobody
  /\ Write(Asking("delete", page.name, "vm"))
  /\ page' = [page EXCEPT !.busy = TRUE]

(* Mutant: the object is read again before it is sent.                     *)
Body_Latest == [page.got EXCEPT !.rv = obj[page.name]]

(* What a save sends: the fields of the form in the object as it was read. *)
Body == page.got

(* Mutant: the form is reset when it is sent.                              *)
Save_ResetsForm ==
  /\ page.kind = "edit" /\ Screen = "form"
  /\ Write([Asking("update", page.name, "edit") EXCEPT !.body = Body, !.seen = page.got])
  /\ page' = [page EXCEPT !.busy = TRUE, !.error = FALSE, !.dirty = FALSE]

Save ==
  /\ page.kind = "edit" /\ Screen = "form"
  /\ Write([Asking("update", page.name, "edit") EXCEPT !.body = Body, !.seen = page.got])
  /\ page' = [page EXCEPT !.busy = TRUE, !.error = FALSE]

Create(n) ==
  /\ page.kind = "create"
  /\ Write(Asking("create", n, "create"))
  /\ page' = [page EXCEPT !.busy = TRUE, !.error = FALSE]

CreateNameless ==
  /\ page.kind = "create" /\ ~page.busy
  /\ page' = [page EXCEPT !.error = TRUE]
  /\ Quietly

-----------------------------------------------------------------------------
(* The answers.  Each handler finds the request gone from those in flight. *)

Without(s) == [calls EXCEPT ![s] = NoCall]

AnswerList(s) ==
  /\ Returned(s) /\ calls[s].op \in {"listVMs", "listKCs"}
  /\ LET c == calls[s] IN
       page' = [page EXCEPT !.waiting = @ \ {c.op},
                            !.rows = IF c.ok THEN @ \cup c.rows ELSE @,
                            !.error = @ \/ (~c.ok /\ page.kind # "dashboard")]
  /\ calls' = Without(s)
  /\ UNCHANGED storeVars

(* Mutant: loading ends only with a success.                               *)
AnswerGet_SpinsOnError(s) ==
  /\ Returned(s) /\ calls[s].op = "get"
  /\ LET c == calls[s] IN
       page' = IF c.ok THEN [page EXCEPT !.waiting = {}, !.got = [name |-> c.name, rv |-> c.rv],
                                         !.dirty = FALSE, !.astray = (c.name # page.name)]
               ELSE [page EXCEPT !.error = TRUE, !.astray = TRUE]
  /\ calls' = Without(s)
  /\ UNCHANGED storeVars

(* The answer to a get fills the detail page, or the form and its original.*)
AnswerGet(s) ==
  /\ Returned(s) /\ calls[s].op = "get"
  /\ LET c == calls[s]
         settled == [page EXCEPT !.waiting = {}]
     IN page' = IF c.ok
                THEN [settled EXCEPT !.got = [name |-> c.name, rv |-> c.rv],
                                     !.dirty = FALSE, !.astray = (c.name # page.name)]
                ELSE [settled EXCEPT !.error = TRUE, !.astray = TRUE]
  /\ calls' = Without(s)
  /\ UNCHANGED storeVars

(* Mutant: the row that goes is the one the dialog is open for by now.     *)
AnswerDeleteFromList_OpenDialog(s) ==
  /\ Returned(s) /\ calls[s].op = "delete" /\ calls[s].from = "vms"
  /\ page' = [page EXCEPT !.busy = FALSE, !.ask = Nobody, !.rows = @ \ {page.ask},
                          !.error = @ \/ ~calls[s].ok]
  /\ calls' = Without(s)
  /\ UNCHANGED storeVars

(* The list page takes the row out, and closes whatever dialog is open.    *)
AnswerDeleteFromList(s) ==
  /\ Returned(s) /\ calls[s].op = "delete" /\ calls[s].from = "vms"
  /\ LET c == calls[s]
         closed == [page EXCEPT !.busy = FALSE, !.ask = Nobody]
     IN page' = IF c.ok THEN [closed EXCEPT !.rows = @ \ {c.name}]
                ELSE [closed EXCEPT !.error = TRUE]
  /\ calls' = Without(s)
  /\ UNCHANGED storeVars

(* The handlers of the other pages navigate when they have succeeded, from *)
(* wherever the user is by then.                                           *)
Destination(c) ==
  IF c.op = "update" THEN [kind |-> "vm", name |-> c.name]
  ELSE [kind |-> "vms", name |-> Nobody]

AnswerAndGo(s) ==
  /\ Returned(s) /\ calls[s].op \in WriteOps /\ calls[s].from # "vms" /\ calls[s].ok
  /\ LET d == Destination(calls[s]) IN To(Without(s), d.kind, d.name)
  /\ UNCHANGED storeVars

(* Mutant: a failure leaves the buttons locked.                            *)
AnswerFailure_StaysBusy(s) ==
  /\ Returned(s) /\ calls[s].op \in WriteOps /\ calls[s].from # "vms" /\ ~calls[s].ok
  /\ page' = IF calls[s].mine THEN [page EXCEPT !.error = TRUE, !.ask = Nobody] ELSE page
  /\ calls' = Without(s)
  /\ UNCHANGED storeVars

AnswerFailure(s) ==
  /\ Returned(s) /\ calls[s].op \in WriteOps /\ calls[s].from # "vms" /\ ~calls[s].ok
  /\ page' = IF calls[s].mine
             THEN [page EXCEPT !.error = TRUE, !.busy = FALSE, !.ask = Nobody] ELSE page
  /\ calls' = Without(s)
  /\ UNCHANGED storeVars

Answer(s) ==
  \/ AnswerList(s) \/ AnswerGet(s) \/ AnswerDeleteFromList(s)
  \/ AnswerAndGo(s) \/ AnswerFailure(s)

-----------------------------------------------------------------------------
Next ==
  \/ \E n \in VMs : Others(n)
  \/ \E kind \in Kinds : \E n \in NamesOf(kind) :
       FollowLink(kind, n) \/ JumpInHistory(kind, n) \/ Load(kind, n)
  \/ \E n \in VMs : AskDelete(n) \/ Create(n)
  \/ CloseDialog \/ Type \/ DeleteFromList \/ DeleteFromDetail \/ Save \/ CreateNameless
  \/ \E s \in Slots : Serve(s) \/ Answer(s)

(* Every request comes back in the end, if only as a failure of the        *)
(* network, and the browser runs what waits for it.                        *)
Fairness == \A s \in Slots : WF_vars(Serve(s)) /\ WF_vars(Answer(s))

Spec == Init /\ [][Next]_vars /\ Fairness

-----------------------------------------------------------------------------
(* Types of the variables.                                                 *)
Page ==
  [kind : Kinds, name : Names \cup {Nobody}, waiting : SUBSET ReadOps, error : BOOLEAN,
   rows : SUBSET Names, got : Version, ask : VMs \cup {Nobody}, busy : BOOLEAN,
   dirty : BOOLEAN, jumped : BOOLEAN, astray : BOOLEAN]

TypeOK ==
  /\ obj \in [Names -> 0..MaxRev]
  /\ rev \in 1..MaxRev
  /\ page \in Page /\ page.name \in NamesOf(page.kind)
  /\ calls \in [Slots -> Call]

JustMounted == page = Fresh(page.kind, page.name, Reads(page.kind))

(* What users confirm is done at most once, and a save replaces only the   *)
(* version of the object that was in the form when Save was clicked,       *)
(* though the form is never read again after a conflict, and the component *)
(* may have been handed another name since (VMEditPage.tsx:59-81).         *)
Confirmation(c) ==
  IF c.op \in WriteOps /\ ~c.done
  THEN [op |-> c.op, name |-> IF c.op = "update" THEN c.seen.name ELSE c.name,
        base |-> c.seen.rv]
  ELSE [op |-> "none", name |-> Nobody, base |-> 0]

Promise == INSTANCE VMStore WITH Asks <- Slots,
             asked <- [s \in Slots |-> Confirmation(calls[s])]
WritesKeepPromise == Promise!Spec

(* The buttons of a page are locked exactly while a write of that page is  *)
(* under way, and there is one such write: also when the component has     *)
(* changed its VM in between (saving, deleting and creating are never      *)
(* reset by anything else).                                                *)
Writing == {s \in Slots : calls[s].op \in WriteOps /\ calls[s].mine}
BusyMeansWriting ==
  /\ page.busy <=> Writing # {}
  /\ \A s, t \in Writing : s = t

(* A page that shows a VM or a cluster other than its URL's is waiting for *)
(* the right one, unless that one has failed or an older answer has        *)
(* overtaken it (VMDetailPage.tsx:50-57 cannot tell an old answer).        *)
ShowsURL ==
  page.kind \in {"vm", "edit", "kc"} /\ Screen \in {"object", "form"}
      /\ page.got.name # page.name
    => \/ page.astray
       \/ \E s \in Slots : calls[s].op = "get" /\ calls[s].name = page.name

(* A row leaves a list only when kcp has said that it deleted that VM,     *)
(* whatever dialog is open when the answer arrives.                        *)
RowsLeaveWhenDeleted ==
  [][~JustMounted' => \A n \in page.rows \ page'.rows :
       \E s \in Slots : Returned(s) /\ calls[s].ok /\ calls[s].op = "delete"
                          /\ calls[s].name = n]_vars

(* What has been typed into the edit form stays in it while the page is    *)
(* mounted, through refused saves too, as long as the page stays with one  *)
(* VM.                                                                     *)
TypedInputKept ==
  [][~JustMounted' /\ page.dirty /\ ~page'.dirty => page.jumped]_vars

(* No page spins for ever: what it loads, and a write that locks its       *)
(* buttons, ends, unless the user goes on opening pages for ever.          *)
Spinning == Loading \/ page.busy
PagesSettle == (Spinning ~> ~Spinning) \/ []<><<JustMounted'>>_vars
=============================================================================
