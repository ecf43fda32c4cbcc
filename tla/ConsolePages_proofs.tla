-------------------------- MODULE ConsolePages_proofs --------------------------
(***************************************************************************)
(* Proofs about ConsolePages, for any sets of virtual machines and         *)
(* clusters, any number of requests in flight and of versions: the console *)
(* does what the user confirmed and nothing else, its buttons are locked   *)
(* while a write is under way, and a page shows the object of its URL.     *)
(***************************************************************************)
EXTENDS ConsolePages, FiniteSetTheorems, TLAPS

Ops == ReadOps \cup WriteOps

(* What is left of one request: Left, slot by slot.                        *)
Rest(c, waits) ==
  IF c.op \in ReadOps \/ (c.done /\ c.from \notin waits) THEN NoCall
  ELSE [c EXCEPT !.mine = FALSE, !.from = IF @ \in waits THEN @ ELSE "nobody"]

LEMMA LeftIsRest == ASSUME NEW cs, NEW waits, NEW s \in Slots
  PROVE Left(cs, waits)[s] = Rest(cs[s], waits)
  BY DEF Left, Rest

-----------------------------------------------------------------------------
(* Sending.                                                                *)

(* There is a free slot when there is room, and Send takes one.            *)
LEMMA SendTakesFree == ASSUME NEW cs, Room(cs, 1), NEW c
  PROVE \E s \in Slots : cs[s] = NoCall /\ Send(cs, c) = [cs EXCEPT ![s] = c]
<1>1. Free(cs) # {}
  BY FS_EmptySet DEF Room
<1>2. \E s \in Slots : cs[s] = NoCall
  BY <1>1 DEF Free
<1> DEFINE s == CHOOSE s \in Slots : cs[s] = NoCall
<1>3. s \in Slots /\ cs[s] = NoCall
  BY <1>2
<1> QED BY <1>3 DEF Send

LEMMA FreeIsFinite == ASSUME NEW cs PROVE IsFiniteSet(Free(cs))
<1>1. IsFiniteSet(Slots)
  BY FS_Interval, PagesBounds DEF Slots
<1>2. Free(cs) \in SUBSET Slots
  BY DEF Free
<1> QED BY <1>1, <1>2, FS_Subset

(* Of two free slots one is left.                                          *)
LEMMA RoomForOne == ASSUME NEW cs, Room(cs, 2) PROVE Room(cs, 1)
<1>1. IsFiniteSet(Free(cs))
  BY FreeIsFinite
<1> QED BY <1>1, FS_CardinalityType DEF Room

LEMMA RoomForTwo ==
  ASSUME NEW cs, DOMAIN cs = Slots, Room(cs, 2), NEW s \in Slots, cs[s] = NoCall, NEW c, c # NoCall
  PROVE Room([cs EXCEPT ![s] = c], 1)
<1>1. IsFiniteSet(Free(cs))
  BY FreeIsFinite
<1>2. Free([cs EXCEPT ![s] = c]) = Free(cs) \ {s}
  BY DEF Free
<1>3. s \in Free(cs)
  BY DEF Free
<1>4. Cardinality(Free(cs) \ {s}) = Cardinality(Free(cs)) - 1 /\ Cardinality(Free(cs)) \in Nat
  BY <1>1, <1>3, FS_RemoveElement, FS_CardinalityType
<1>5. Cardinality(Free(cs)) >= 2
  BY DEF Room
<1>6. Cardinality(Free(cs) \ {s}) >= 1
  <2> DEFINE k == Cardinality(Free(cs))
  <2>1. k \in Nat /\ k >= 2 /\ Cardinality(Free(cs) \ {s}) = k - 1
    BY <1>4, <1>5
  <2> HIDE DEF k
  <2> QED BY <2>1
<1> QED BY <1>2, <1>6 DEF Room

LEMMA AskingFacts == ASSUME NEW op \in Ops, NEW n, NEW kind
  PROVE /\ Asking(op, n, kind).op = op /\ Asking(op, n, kind).name = n
        /\ Asking(op, n, kind).from = kind /\ Asking(op, n, kind).mine = TRUE
        /\ Asking(op, n, kind).done = FALSE /\ Asking(op, n, kind).ok = FALSE
        /\ Asking(op, n, kind).body = NoVersion /\ Asking(op, n, kind).seen = NoVersion
        /\ Asking(op, n, kind).rv = 0 /\ Asking(op, n, kind).rows = {}
        /\ Asking(op, n, kind) # NoCall
  BY DEF Asking, NoCall, Ops, ReadOps, WriteOps

(* A page that is mounted sends its reads into free slots, a get at most   *)
(* once.                                                                   *)
LEMMA AskedFacts ==
  ASSUME NEW cs, cs = [s \in Slots |-> cs[s]], NEW kind \in Kinds, NEW n \in NamesOf(kind),
         Room(cs, Cardinality(Reads(kind)))
  PROVE  /\ Asked(cs, kind, n) = [s \in Slots |-> Asked(cs, kind, n)[s]]
         /\ \A s \in Slots : \/ Asked(cs, kind, n)[s] = cs[s]
                             \/ cs[s] = NoCall /\ \E op \in Reads(kind) : Asked(cs, kind, n)[s] = Asking(op, n, kind)
         /\ "get" \in Reads(kind) => \E s \in Slots : cs[s] = NoCall /\ Asked(cs, kind, n) = [cs EXCEPT ![s] = Asking("get", n, kind)]
<1>0. DOMAIN cs = Slots
  OBVIOUS
<1>1. Reads("dashboard") = {"listVMs", "listKCs"} /\ Cardinality({"listVMs", "listKCs"}) = 2
  <2>1. Cardinality({"listVMs"}) = 1 /\ IsFiniteSet({"listVMs"})
    BY FS_Singleton
  <2>2. {"listVMs", "listKCs"} = {"listVMs"} \cup {"listKCs"} /\ "listKCs" \notin {"listVMs"}
    OBVIOUS
  <2>3. Cardinality({"listVMs"} \cup {"listKCs"}) = 2
    BY <2>1, <2>2, FS_AddElement
  <2> QED BY <2>2, <2>3 DEF Reads
<1>2. CASE kind = "dashboard"
  <2>1. n = Nobody
    BY <1>2 DEF NamesOf
  <2>2. Room(cs, 2)
    BY <1>1, <1>2
  <2>3. PICK s \in Slots : cs[s] = NoCall
             /\ Send(cs, Asking("listVMs", Nobody, kind)) = [cs EXCEPT ![s] = Asking("listVMs", Nobody, kind)]
    BY <2>2, RoomForOne, SendTakesFree
  <2> DEFINE ds == [cs EXCEPT ![s] = Asking("listVMs", Nobody, kind)]
  <2>4. Asking("listVMs", Nobody, kind) # NoCall
    BY DEF Asking, NoCall
  <2>5. Room(ds, 1)
    BY <1>0, <2>2, <2>3, <2>4, RoomForTwo
  <2>6. PICK t \in Slots : ds[t] = NoCall
             /\ Send(ds, Asking("listKCs", Nobody, kind)) = [ds EXCEPT ![t] = Asking("listKCs", Nobody, kind)]
    BY <2>5, SendTakesFree
  <2>7. Asked(cs, kind, n) = [ds EXCEPT ![t] = Asking("listKCs", Nobody, kind)]
    BY <2>3, <2>6, <1>2 DEF Asked
  <2>8. s # t
    BY <2>3, <2>4, <2>6
  <2> HIDE DEF ds
  <2>9. ds = [u \in Slots |-> ds[u]] /\ \A u \in Slots : ds[u] = IF u = s THEN Asking("listVMs", n, kind) ELSE cs[u]
    BY <2>1 DEF ds
  <2>10. "get" \notin Reads(kind) /\ {"listVMs", "listKCs"} \subseteq Reads(kind)
    BY <1>1, <1>2
  <2> QED BY <2>1, <2>3, <2>6, <2>7, <2>8, <2>9, <2>10
<1>3. CASE kind = "create"
  <2>1. Reads(kind) = {}
    BY <1>3 DEF Reads
  <2> QED BY <1>3, <2>1 DEF Asked
<1>4. CASE kind \in {"vms", "kcs", "vm", "edit", "kc"}
  <2> DEFINE op == IF kind = "vms" THEN "listVMs" ELSE IF kind = "kcs" THEN "listKCs" ELSE "get"
  <2>1. Reads(kind) = {op} /\ (kind \in {"vms", "kcs"} => n = Nobody)
    BY <1>4 DEF Reads, NamesOf
  <2>2. Asked(cs, kind, n) = Send(cs, Asking(op, n, kind))
    BY <1>4, <2>1 DEF Asked
  <2>3. Room(cs, 1)
    BY <2>1, FS_Singleton
  <2>4. PICK s \in Slots : cs[s] = NoCall /\ Asked(cs, kind, n) = [cs EXCEPT ![s] = Asking(op, n, kind)]
    BY <2>2, <2>3, SendTakesFree
  <2> HIDE DEF op
  <2> QED BY <2>1, <2>4
<1> QED BY <1>2, <1>3, <1>4 DEF Kinds

-----------------------------------------------------------------------------
(* What is true of each request, on a page of a given kind.  Only a page's *)
(* own requests are its own; a deletion from the list is only waited for   *)
(* by the list; an update carries the object its user saw.                 *)
CallOK(c, kind) ==
  /\ c \in Call
  /\ c.op = "none" => c = NoCall
  /\ c.op \in WriteOps => c.name \in VMs
  /\ c.op = "get" => c.name \in Names
  /\ c.done => c.from # "nobody"
  /\ c.ok => c.done
  /\ c.op \in ReadOps \/ c.from = "vms" => c.mine
  /\ c.mine => c.from = kind
  /\ c.op \in ReadOps => c.op \in Reads(kind)
  /\ c.op = "update" /\ c.mine => c.from = "edit"
  /\ c.op = "update" /\ ~c.done => c.body = c.seen /\ c.seen.name \in Names /\ c.seen.rv # 0
  /\ c.op \in {"create", "delete"} => c.seen = NoVersion
  /\ c.op = "get" /\ c.done /\ c.ok => c.rv # 0

(* A page holds nothing, or an object as kcp has given it.                 *)
GotOK == page.got = NoVersion \/ (page.got.name \in Names /\ page.got.rv # 0)

CallsOK == \A s \in Slots : CallOK(calls[s], page.kind)

PagesInv == TypeOK /\ GotOK /\ CallsOK

LEMMA NoCallOK == ASSUME NEW kind PROVE CallOK(NoCall, kind)
  BY DEF CallOK, NoCall, Call, NoVersion, Version, ReadOps, WriteOps

LEMMA ReadOK ==
  ASSUME NEW kind \in Kinds, NEW n \in NamesOf(kind), NEW op \in Reads(kind)
  PROVE CallOK(Asking(op, n, kind), kind)
<1>1. op \in ReadOps /\ (op = "get" => n \in Names) /\ n \in Names \cup {Nobody}
  BY DEF Kinds, Reads, ReadOps, NamesOf, Names
<1>2. Asking(op, n, kind) \in Call
  BY <1>1 DEF Asking, NoCall, Call, NoVersion, Version
<1>3. op \notin WriteOps /\ op # "none" /\ op \notin {"update", "create", "delete"}
  BY <1>1 DEF ReadOps, WriteOps
<1> QED BY <1>1, <1>2, <1>3 DEF CallOK, Asking, NoCall

LEMMA WriteOK ==
  ASSUME NEW kind \in Kinds, NEW n \in VMs, NEW op \in {"create", "delete"}
  PROVE CallOK(Asking(op, n, kind), kind)
<1>1. Asking(op, n, kind) \in Call
  BY DEF Asking, NoCall, Call, NoVersion, Version, WriteOps, Names
<1> QED BY <1>1 DEF CallOK, Asking, NoCall, ReadOps, WriteOps, NoVersion

LEMMA UpdateOK ==
  ASSUME NEW kind \in Kinds, kind = "edit", NEW n \in VMs, NEW v \in Version, v.name \in Names, v.rv # 0
  PROVE CallOK([Asking("update", n, kind) EXCEPT !.body = v, !.seen = v], kind)
<1>1. [Asking("update", n, kind) EXCEPT !.body = v, !.seen = v] \in Call
  BY DEF Asking, NoCall, Call, NoVersion, WriteOps, Names
<1> QED BY <1>1 DEF CallOK, Asking, NoCall, ReadOps, WriteOps

LEMMA NoCallStays == [NoCall EXCEPT !.mine = FALSE, !.from = "nobody"] = NoCall
<1> DEFINE f == [NoCall EXCEPT !.mine = FALSE, !.from = "nobody"]
<1>1. DOMAIN NoCall = {"op", "name", "body", "seen", "from", "mine", "done", "ok", "rv", "rows"}
      /\ NoCall.mine = FALSE /\ NoCall.from = "nobody" /\ NoCall = [x \in DOMAIN NoCall |-> NoCall[x]]
  BY DEF NoCall
<1>2. DOMAIN f = DOMAIN NoCall
  OBVIOUS
<1>3. \A x \in DOMAIN NoCall : f[x] = NoCall[x]
  BY <1>1
<1>4. f = [x \in DOMAIN NoCall |-> f[x]]
  BY <1>2
<1> HIDE DEF f
<1>5. f = NoCall
  BY <1>1, <1>3, <1>4
<1> QED BY <1>5 DEF f

LEMMA RestOK ==
  ASSUME NEW c, NEW kind, CallOK(c, kind), NEW other, NEW waits, "vms" \notin waits
  PROVE CallOK(Rest(c, waits), other)
<1>1. CASE c.op \in ReadOps \/ (c.done /\ c.from \notin waits)
  BY <1>1, NoCallOK DEF Rest
<1>2. CASE ~(c.op \in ReadOps \/ (c.done /\ c.from \notin waits))
  <2> DEFINE d == [c EXCEPT !.mine = FALSE, !.from = IF @ \in waits THEN @ ELSE "nobody"]
  <2>1. Rest(c, waits) = d
    BY <1>2 DEF Rest
  <2>2. d \in Call
    BY DEF CallOK, Call
  <2>3. /\ d.op = c.op /\ d.name = c.name /\ d.done = c.done /\ d.ok = c.ok /\ d.rv = c.rv
        /\ d.body = c.body /\ d.seen = c.seen /\ d.mine = FALSE
        /\ d.from = IF c.from \in waits THEN c.from ELSE "nobody"
    BY DEF CallOK, Call
  <2>4. ASSUME c.op = "none" PROVE d = NoCall
    <3>1. c = NoCall
      BY <2>4 DEF CallOK
    <3>2. d = [NoCall EXCEPT !.mine = FALSE, !.from = "nobody"]
      BY <3>1 DEF NoCall
    <3>3. [NoCall EXCEPT !.mine = FALSE, !.from = "nobody"] = NoCall
      BY NoCallStays
    <3> HIDE DEF d
    <3> QED BY <3>2, <3>3
  <2>5. d.done => d.from # "nobody"
    BY <1>2, <2>3 DEF CallOK
  <2>6. d.from # "vms" /\ d.op \notin ReadOps
    BY <1>2, <2>3
  <2> HIDE DEF d
  <2> QED BY <2>1, <2>2, <2>3, <2>4, <2>5, <2>6 DEF CallOK
<1> QED BY <1>1, <1>2

(* kcp answers: as a failure or a success, with what it read.              *)
LEMMA AnsweredOK ==
  ASSUME NEW c, NEW kind, CallOK(c, kind), c.op # "none", NEW d \in Call,
         d.op = c.op, d.name = c.name, d.from = c.from, d.mine = c.mine, d.done = TRUE,
         d.seen = NoVersion, d.op = "get" /\ d.ok => d.rv # 0
  PROVE CallOK(IF c.from = "nobody" THEN NoCall ELSE d, kind)
<1>1. CASE c.from = "nobody"
  BY <1>1, NoCallOK
<1>2. CASE c.from # "nobody"
  BY <1>2 DEF CallOK
<1> QED BY <1>1, <1>2

LEMMA OverFacts == ASSUME NEW c \in Call
  PROVE /\ Failed(c) \in Call /\ Succeeded(c) \in Call
        /\ \A d \in {Failed(c), Succeeded(c)} :
             d.op = c.op /\ d.name = c.name /\ d.from = c.from /\ d.mine = c.mine /\ d.done = TRUE
             /\ d.seen = NoVersion
  BY DEF Failed, Succeeded, Over, Call, NoVersion, Version

LEMMA SucceededFacts == ASSUME NEW c \in Call
  PROVE /\ Succeeded(c) \in Call /\ Succeeded(c).op = c.op /\ Succeeded(c).name = c.name
        /\ Succeeded(c).from = c.from /\ Succeeded(c).mine = c.mine
        /\ Succeeded(c).done = TRUE /\ Succeeded(c).seen = NoVersion
  BY OverFacts

(* An answer with what was asked for in it.                                *)
WithVersion(b, r) == [b EXCEPT !.rv = r]
WithRows(b, ns) == [b EXCEPT !.rows = ns]

LEMMA WithVersionFacts == ASSUME NEW b \in Call, NEW r \in Nat
  PROVE /\ WithVersion(b, r) \in Call /\ WithVersion(b, r).rv = r
        /\ WithVersion(b, r).op = b.op /\ WithVersion(b, r).name = b.name
        /\ WithVersion(b, r).from = b.from /\ WithVersion(b, r).mine = b.mine
        /\ WithVersion(b, r).done = b.done /\ WithVersion(b, r).seen = b.seen
  BY DEF WithVersion, Call

LEMMA WithRowsFacts == ASSUME NEW b \in Call, NEW ns \in SUBSET Names
  PROVE /\ WithRows(b, ns) \in Call
        /\ WithRows(b, ns).op = b.op /\ WithRows(b, ns).name = b.name
        /\ WithRows(b, ns).from = b.from /\ WithRows(b, ns).mine = b.mine
        /\ WithRows(b, ns).done = b.done /\ WithRows(b, ns).seen = b.seen
  BY DEF WithRows, Call

-----------------------------------------------------------------------------
(* A page is mounted over what is left of the requests.                    *)
LEMMA MountOverStep ==
  ASSUME TypeOK, NEW kind \in Kinds, NEW n \in NamesOf(kind), NEW cs \in [Slots -> Call], NEW k,
         \A s \in Slots : CallOK(cs[s], k), NEW waits, "vms" \notin waits,
         MountOver(Left(cs, waits), kind, n), UNCHANGED storeVars
  PROVE  /\ PagesInv'
         /\ page' = Fresh(kind, n, Reads(kind))
         /\ \A s \in Slots : \/ calls'[s] = Rest(cs[s], waits)
                             \/ Rest(cs[s], waits) = NoCall /\ \E op \in Reads(kind) : calls'[s] = Asking(op, n, kind)
         /\ "get" \in Reads(kind) =>
              \E s \in Slots : /\ Rest(cs[s], waits) = NoCall /\ calls'[s] = Asking("get", n, kind)
                               /\ \A t \in Slots \ {s} : calls'[t] = Rest(cs[t], waits)
<1> DEFINE left == Left(cs, waits)
<1>1. left = [s \in Slots |-> left[s]] /\ \A s \in Slots : left[s] = Rest(cs[s], waits)
  BY LeftIsRest DEF Left
<1> HIDE DEF left
<1>2. page' = Fresh(kind, n, Reads(kind)) /\ calls' = Asked(left, kind, n)
      /\ Room(left, Cardinality(Reads(kind)))
  BY DEF MountOver, left
<1>3. \A s \in Slots : \/ calls'[s] = Rest(cs[s], waits)
                       \/ Rest(cs[s], waits) = NoCall /\ \E op \in Reads(kind) : calls'[s] = Asking(op, n, kind)
  BY <1>1, <1>2, AskedFacts
<1>4. \A s \in Slots : CallOK(calls'[s], kind)
  BY <1>3, RestOK, ReadOK
<1>5. calls' = [s \in Slots |-> calls'[s]]
  BY <1>1, <1>2, AskedFacts
<1>6. calls' \in [Slots -> Call]
  BY <1>4, <1>5 DEF CallOK
<1>7. Reads(kind) \subseteq ReadOps /\ n \in Names \cup {Nobody}
  BY DEF Reads, ReadOps, Kinds, NamesOf, Names
<1>8. page' \in Page /\ page'.kind = kind /\ page'.name = n /\ page'.got = NoVersion
  BY <1>2, <1>7 DEF Fresh, Page, NoVersion, Version
<1>9. PagesInv'
  BY <1>4, <1>6, <1>8 DEF PagesInv, TypeOK, GotOK, CallsOK, storeVars
<1>10. ASSUME "get" \in Reads(kind)
       PROVE  \E s \in Slots : /\ Rest(cs[s], waits) = NoCall /\ calls'[s] = Asking("get", n, kind)
                               /\ \A t \in Slots \ {s} : calls'[t] = Rest(cs[t], waits)
  <2>1. PICK s \in Slots : left[s] = NoCall /\ calls' = [left EXCEPT ![s] = Asking("get", n, kind)]
    BY <1>1, <1>2, <1>10, AskedFacts
  <2> QED BY <1>1, <2>1
<1> QED BY <1>2, <1>3, <1>9, <1>10

(* The component gets another name and asks for it.                        *)
LEMMA RenameStep ==
  ASSUME TypeOK, GotOK, NEW cs \in [Slots -> Call], \A s \in Slots : CallOK(cs[s], page.kind),
         NEW n \in NamesOf(page.kind), n # page.name, Rename(cs, n), UNCHANGED storeVars
  PROVE  /\ PagesInv'
         /\ page' = [page EXCEPT !.name = n, !.jumped = TRUE]
         /\ \E s \in Slots : cs[s] = NoCall /\ calls' = [cs EXCEPT ![s] = Asking("get", n, page.kind)]
<1>1. page.kind \in {"vm", "edit", "kc"} /\ page.kind \in Kinds
  BY DEF TypeOK, NamesOf, Kinds, Page
<1>2. Reads(page.kind) = {"get"}
  BY <1>1 DEF Reads
<1>3. PICK s \in Slots : cs[s] = NoCall /\ calls' = [cs EXCEPT ![s] = Asking("get", n, page.kind)]
  <2>1. calls' = Asked(cs, page.kind, n) /\ Room(cs, Cardinality(Reads(page.kind)))
    BY <1>2, FS_Singleton DEF Rename
  <2>2. cs = [s \in Slots |-> cs[s]] /\ "get" \in Reads(page.kind)
    BY <1>2
  <2> QED BY <1>1, <2>1, <2>2, AskedFacts
<1>4. page' = [page EXCEPT !.name = n, !.jumped = TRUE]
  BY DEF Rename
<1>5. page'.kind = page.kind /\ page'.got = page.got /\ page'.name = n /\ page' \in Page
  BY <1>1, <1>4 DEF TypeOK, Page, NamesOf, Names
<1>6. CallOK(Asking("get", n, page.kind), page.kind)
  BY <1>1, <1>2, ReadOK
<1>7. \A t \in Slots : CallOK(calls'[t], page.kind)
  BY <1>3, <1>6
<1>8. calls' \in [Slots -> Call]
  BY <1>3, <1>6 DEF CallOK
<1>9. PagesInv'
  BY <1>5, <1>7, <1>8 DEF PagesInv, TypeOK, GotOK, CallsOK, storeVars
<1> QED BY <1>3, <1>4, <1>9

LEMMA ToStep ==
  ASSUME PagesInv, NEW kind \in Kinds, NEW n \in NamesOf(kind), NEW cs \in [Slots -> Call],
         \A s \in Slots : CallOK(cs[s], page.kind), To(cs, kind, n), UNCHANGED storeVars
  PROVE  PagesInv'
<1>1. CASE Stay(cs)
  BY <1>1 DEF Stay, PagesInv, TypeOK, GotOK, CallsOK, storeVars
<1>2. CASE kind = page.kind /\ n # page.name /\ Rename(cs, n)
  BY <1>2, RenameStep DEF PagesInv
<1>3. CASE MountOver(Unmounted(cs), kind, n)
  BY <1>3, MountOverStep DEF Unmounted, PagesInv
<1> QED BY <1>1, <1>2, <1>3 DEF To

(* A step within a page, which keeps its name.                             *)
LEMMA WithinPage ==
  ASSUME PagesInv, UNCHANGED storeVars, page' \in Page, page'.kind = page.kind,
         page'.name = page.name, GotOK', calls' \in [Slots -> Call],
         \A s \in Slots : CallOK(calls'[s], page.kind)
  PROVE  PagesInv'
  BY DEF PagesInv, TypeOK, CallsOK, storeVars

LEMMA WithoutStep ==
  ASSUME PagesInv, NEW s \in Slots
  PROVE  /\ Without(s) \in [Slots -> Call]
         /\ \A t \in Slots : CallOK(Without(s)[t], page.kind)
         /\ \A t \in Slots : Without(s)[t] = IF t = s THEN NoCall ELSE calls[t]
<1>1. \A t \in Slots : Without(s)[t] = IF t = s THEN NoCall ELSE calls[t]
  BY DEF PagesInv, TypeOK, Without
<1>2. \A t \in Slots : CallOK(Without(s)[t], page.kind)
  BY <1>1, NoCallOK DEF PagesInv, CallsOK
<1>3. Without(s) = [t \in Slots |-> Without(s)[t]]
  BY DEF PagesInv, TypeOK, Without
<1> QED BY <1>1, <1>2, <1>3 DEF CallOK

(* A handler sends a write.                                                *)
LEMMA WriteStep ==
  ASSUME PagesInv, NEW c, CallOK(c, page.kind), Write(c)
  PROVE  /\ UNCHANGED storeVars
         /\ calls' \in [Slots -> Call] /\ \A s \in Slots : CallOK(calls'[s], page.kind)
         /\ ~page.busy
         /\ \E s \in Slots : calls[s] = NoCall /\ calls' = [calls EXCEPT ![s] = c]
<1>1. PICK s \in Slots : calls[s] = NoCall /\ calls' = [calls EXCEPT ![s] = c]
  BY SendTakesFree DEF Write
<1>2. calls' \in [Slots -> Call]
  BY <1>1 DEF PagesInv, TypeOK, CallOK
<1>3. \A t \in Slots : CallOK(calls'[t], page.kind)
  BY <1>1 DEF PagesInv, TypeOK, CallsOK
<1> QED BY <1>1, <1>2, <1>3 DEF Write

(* kcp answers a request.                                                  *)
LEMMA AnsweredStep ==
  ASSUME PagesInv, NEW s \in Slots, calls[s].op # "none", NEW d \in Call,
         d.op = calls[s].op, d.name = calls[s].name, d.from = calls[s].from,
         d.mine = calls[s].mine, d.done = TRUE, d.seen = NoVersion,
         d.op = "get" /\ d.ok => d.rv # 0, Answered(s, d)
  PROVE  /\ calls' \in [Slots -> Call] /\ \A t \in Slots : CallOK(calls'[t], page.kind)
         /\ \A t \in Slots \ {s} : calls'[t] = calls[t]
         /\ calls'[s] = IF calls[s].from = "nobody" THEN NoCall ELSE d
<1>1. calls' = [calls EXCEPT ![s] = IF calls[s].from = "nobody" THEN NoCall ELSE d]
  BY DEF Answered
<1>2. CallOK(IF calls[s].from = "nobody" THEN NoCall ELSE d, page.kind)
  BY AnsweredOK DEF PagesInv, CallsOK
<1>3. \A t \in Slots \ {s} : calls'[t] = calls[t]
  BY <1>1 DEF PagesInv, TypeOK
<1>4. calls'[s] = IF calls[s].from = "nobody" THEN NoCall ELSE d
  BY <1>1 DEF PagesInv, TypeOK
<1>5. \A t \in Slots : CallOK(calls'[t], page.kind)
  BY <1>2, <1>3, <1>4 DEF PagesInv, CallsOK
<1>6. calls' = [t \in Slots |-> calls'[t]]
  BY <1>1 DEF PagesInv, TypeOK
<1> QED BY <1>3, <1>4, <1>5, <1>6 DEF CallOK

(* What kcp does keeps the types of its objects.                           *)
LEMMA StoreStep ==
  ASSUME TypeOK, NEW n \in Names, NewVersion(n) \/ Removed(n)
  PROVE  obj' \in [Names -> 0..MaxRev] /\ rev' \in 1..MaxRev
  BY PagesBounds DEF TypeOK, NewVersion, Removed

LEMMA ServeStep ==
  ASSUME PagesInv, NEW s \in Slots, Serve(s)
  PROVE  /\ PagesInv' /\ page' = page
         /\ \A t \in Slots \ {s} : calls'[t] = calls[t]
         /\ Sent(s)
         /\ \/ calls'[s] = NoCall
            \/ /\ calls'[s].op = calls[s].op /\ calls'[s].name = calls[s].name
               /\ calls'[s].from = calls[s].from /\ calls'[s].mine = calls[s].mine
               /\ calls'[s].done
         /\ calls'[s] = NoCall => calls[s].from = "nobody"
<1> DEFINE c == calls[s]
<1>0. c \in Call /\ CallOK(c, page.kind)
  BY DEF PagesInv, CallsOK, CallOK
<1>a. ASSUME NEW d \in Call, d.op = c.op, d.name = c.name, d.from = c.from, d.mine = c.mine,
             d.done = TRUE, d.seen = NoVersion, d.op = "get" /\ d.ok => d.rv # 0,
             Answered(s, d), Sent(s), page' = page, obj' \in [Names -> 0..MaxRev], rev' \in 1..MaxRev
      PROVE  /\ PagesInv' /\ page' = page
             /\ \A t \in Slots \ {s} : calls'[t] = calls[t]
             /\ Sent(s)
             /\ \/ calls'[s] = NoCall
                \/ /\ calls'[s].op = calls[s].op /\ calls'[s].name = calls[s].name
                   /\ calls'[s].from = calls[s].from /\ calls'[s].mine = calls[s].mine
                   /\ calls'[s].done
             /\ calls'[s] = NoCall => calls[s].from = "nobody"
  <2>1. calls[s].op # "none"
    BY <1>a DEF Sent
  <2>2. /\ calls' \in [Slots -> Call] /\ \A t \in Slots : CallOK(calls'[t], page.kind)
        /\ \A t \in Slots \ {s} : calls'[t] = calls[t]
        /\ calls'[s] = IF calls[s].from = "nobody" THEN NoCall ELSE d
    BY <1>a, <2>1, AnsweredStep
  <2>3. PagesInv'
    BY <1>a, <2>2 DEF PagesInv, TypeOK, GotOK, CallsOK
  <2>4. NoCall.op = "none"
    BY DEF NoCall
  <2> QED BY <1>a, <2>1, <2>2, <2>3, <2>4
<1>1. CASE Refuse(s)
  <2>1. Answered(s, Failed(c)) /\ Sent(s) /\ page' = page /\ obj' = obj /\ rev' = rev
    BY <1>1 DEF Refuse, storeVars
  <2>2. ~Failed(c).ok
    BY <1>0, <2>1 DEF Failed, Over, Call, CallOK, Sent
  <2>3. obj' \in [Names -> 0..MaxRev] /\ rev' \in 1..MaxRev
    BY <2>1 DEF PagesInv, TypeOK
  <2> HIDE DEF c
  <2> QED BY <1>0, <1>a, <2>1, <2>2, <2>3, OverFacts
<1>2. CASE ServeRead(s)
  <2>1. Sent(s) /\ page' = page /\ obj' = obj /\ rev' = rev
    BY <1>2 DEF ServeRead, storeVars
  <2>2. obj' \in [Names -> 0..MaxRev] /\ rev' \in 1..MaxRev
    BY <2>1 DEF PagesInv, TypeOK
  <2>3. CASE c.op = "get" /\ obj[c.name] # 0 /\ Answered(s, [Succeeded(c) EXCEPT !.rv = obj[c.name]])
    <3> DEFINE d == [Succeeded(c) EXCEPT !.rv = obj[c.name]]
    <3>1. obj[c.name] \in Nat
      BY <1>0, <2>3 DEF PagesInv, TypeOK, CallOK
    <3>2. d \in Call /\ d.op = c.op /\ d.name = c.name /\ d.from = c.from /\ d.mine = c.mine
          /\ d.done = TRUE /\ d.seen = NoVersion /\ d.rv # 0
      <4> DEFINE r == obj[c.name]
      <4>1. d = WithVersion(Succeeded(c), r) /\ r \in Nat /\ r # 0
        BY <2>3, <3>1 DEF WithVersion
      <4> HIDE DEF c, d, r
      <4>2. Succeeded(c) \in Call
        BY <1>0, SucceededFacts
      <4>3. d \in Call /\ d.rv = r /\ d.op = Succeeded(c).op /\ d.name = Succeeded(c).name
            /\ d.from = Succeeded(c).from /\ d.mine = Succeeded(c).mine
            /\ d.done = Succeeded(c).done /\ d.seen = Succeeded(c).seen
        BY <4>1, <4>2, WithVersionFacts, Zenon
      <4> QED BY <1>0, <4>1, <4>3, SucceededFacts
    <3> HIDE DEF d, c
    <3> QED BY <1>a, <2>1, <2>2, <2>3, <3>2 DEF d
  <2>4. CASE c.op \in {"listVMs", "listKCs"} /\ Answered(s, [Succeeded(c) EXCEPT !.rows = Listed(c.op)])
    <3> DEFINE d == [Succeeded(c) EXCEPT !.rows = Listed(c.op)]
    <3>1. Listed(c.op) \in SUBSET Names
      BY DEF Listed, Names
    <3>2. d \in Call /\ d.op = c.op /\ d.name = c.name /\ d.from = c.from /\ d.mine = c.mine
          /\ d.done = TRUE /\ d.seen = NoVersion /\ d.op # "get"
      <4>1. d = WithRows(Succeeded(c), Listed(c.op))
        BY DEF WithRows
      <4>2. Listed(c.op) \in SUBSET Names /\ c.op # "get"
        BY <2>4, <3>1
      <4> HIDE DEF c, d
      <4> QED BY <1>0, <4>1, <4>2, SucceededFacts, WithRowsFacts
    <3> HIDE DEF d, c
    <3> QED BY <1>a, <2>1, <2>2, <2>4, <3>2 DEF d
  <2> QED BY <1>2, <2>3, <2>4 DEF ServeRead
<1>3. CASE ServeWrite(s)
  <2>1. Sent(s) /\ page' = page /\ c.op \in WriteOps
    BY <1>3 DEF ServeWrite, WriteOps
  <2>2. c.name \in Names
    BY <1>0, <2>1 DEF CallOK, Names
  <2>3. NewVersion(c.name) \/ Removed(c.name)
    BY <1>3 DEF ServeWrite
  <2>4. obj' \in [Names -> 0..MaxRev] /\ rev' \in 1..MaxRev
    BY <2>2, <2>3, StoreStep DEF PagesInv
  <2>5. PICK d \in {Succeeded(c), Failed(c)} : Answered(s, d)
    BY <1>3 DEF ServeWrite
  <2>6. c.op # "get"
    BY <2>1 DEF WriteOps
  <2> HIDE DEF c
  <2>7. d \in Call /\ d.op = c.op /\ d.name = c.name /\ d.from = c.from /\ d.mine = c.mine
        /\ d.done = TRUE /\ d.seen = NoVersion
    <3>1. \A e \in {Failed(c), Succeeded(c)} : e \in Call /\ e.op = c.op /\ e.name = c.name
             /\ e.from = c.from /\ e.mine = c.mine /\ e.done = TRUE /\ e.seen = NoVersion
      BY <1>0, OverFacts
    <3> QED BY <2>5, <3>1
  <2> QED BY <1>a, <2>1, <2>4, <2>5, <2>6, <2>7
<1> QED BY <1>1, <1>2, <1>3 DEF Serve

-----------------------------------------------------------------------------
LEMMA PagesInvStep == ASSUME PagesInv, [Next]_vars PROVE PagesInv'
<1>a. page \in Page /\ page.name \in NamesOf(page.kind) /\ page.kind \in Kinds
      /\ calls \in [Slots -> Call] /\ \A s \in Slots : CallOK(calls[s], page.kind)
  BY DEF PagesInv, TypeOK, Page, CallsOK
<1>1. ASSUME NEW n \in VMs, Others(n) PROVE PagesInv'
  BY <1>1, StoreStep DEF Others, PagesInv, TypeOK, GotOK, CallsOK, Names
<1>2. ASSUME NEW kind \in Kinds, NEW n \in NamesOf(kind), FollowLink(kind, n) \/ JumpInHistory(kind, n)
      PROVE  PagesInv'
  BY <1>2, <1>a, ToStep DEF FollowLink, JumpInHistory
<1>3. ASSUME NEW kind \in Kinds, NEW n \in NamesOf(kind), Load(kind, n) PROVE PagesInv'
  BY <1>3, <1>a, MountOverStep DEF Load, Unloaded, PagesInv
<1>4. ASSUME NEW n \in VMs, AskDelete(n) PROVE PagesInv'
  BY <1>4, <1>a, WithinPage DEF AskDelete, Quietly, Page, GotOK, PagesInv
<1>5. CASE CloseDialog
  BY <1>5, <1>a, WithinPage DEF CloseDialog, Quietly, Page, GotOK, PagesInv
<1>6. CASE Type
  BY <1>6, <1>a, WithinPage DEF Type, Quietly, Page, GotOK, PagesInv
<1>7. CASE CreateNameless
  BY <1>7, <1>a, WithinPage DEF CreateNameless, Quietly, Page, GotOK, PagesInv
<1>8. CASE DeleteFromList
  <2>1. page.ask \in VMs /\ page.kind = "vms"
    BY <1>8, <1>a DEF DeleteFromList, Page
  <2>2. CallOK(Asking("delete", page.ask, "vms"), page.kind)
    BY <2>1, <1>a, WriteOK
  <2> QED BY <1>8, <1>a, <2>2, WriteStep, WithinPage DEF DeleteFromList, Page, GotOK, PagesInv
<1>9. CASE DeleteFromDetail
  <2>1. page.name \in VMs /\ page.kind = "vm"
    BY <1>9, <1>a DEF DeleteFromDetail, NamesOf
  <2>2. CallOK(Asking("delete", page.name, "vm"), page.kind)
    BY <2>1, <1>a, WriteOK
  <2> QED BY <1>9, <1>a, <2>2, WriteStep, WithinPage DEF DeleteFromDetail, Page, GotOK, PagesInv
<1>10. CASE Save
  <2>1. page.name \in VMs /\ page.kind = "edit"
    BY <1>10, <1>a DEF Save, NamesOf
  <2>2. page.got \in Version /\ page.got.name \in Names /\ page.got.rv # 0
    BY <1>10, <1>a, <2>1 DEF Save, Screen, EditScreen, PagesInv, GotOK, Page
  <2>3. CallOK([Asking("update", page.name, "edit") EXCEPT !.body = Body, !.seen = page.got], page.kind)
    BY <2>1, <2>2, <1>a, UpdateOK DEF Body
  <2> QED BY <1>10, <1>a, <2>3, WriteStep, WithinPage DEF Save, Page, GotOK, PagesInv
<1>11. ASSUME NEW n \in VMs, Create(n) PROVE PagesInv'
  <2>1. CallOK(Asking("create", n, "create"), page.kind)
    BY <1>11, <1>a, WriteOK DEF Create
  <2> QED BY <1>11, <1>a, <2>1, WriteStep, WithinPage DEF Create, Page, GotOK, PagesInv
<1>12. ASSUME NEW s \in Slots, Serve(s) PROVE PagesInv'
  BY <1>12, ServeStep
<1>b. ASSUME NEW s \in Slots, calls' = Without(s), UNCHANGED storeVars, page' \in Page,
             page'.kind = page.kind, page'.name = page.name, GotOK'
      PROVE  PagesInv'
  BY <1>b, <1>a, WithoutStep, WithinPage
<1>13. ASSUME NEW s \in Slots, AnswerList(s) PROVE PagesInv'
  <2>1. calls[s].rows \subseteq Names /\ calls[s].ok \in BOOLEAN
    BY <1>a DEF Call
  <2>2. page' \in Page /\ page'.kind = page.kind /\ page'.name = page.name /\ page'.got = page.got
    BY <1>13, <1>a, <2>1 DEF AnswerList, Page
  <2> QED BY <1>13, <1>b, <2>2 DEF AnswerList, PagesInv, GotOK
<1>14. ASSUME NEW s \in Slots, AnswerGet(s) PROVE PagesInv'
  <2>1. calls[s].name \in Names /\ (calls[s].ok => calls[s].rv \in Nat \ {0})
    BY <1>14, <1>a DEF AnswerGet, Returned, CallOK, Call
  <2>2. /\ page' \in Page /\ page'.kind = page.kind /\ page'.name = page.name
        /\ page'.got = page.got \/ (page'.got.name \in Names /\ page'.got.rv # 0)
    BY <1>14, <1>a, <2>1 DEF AnswerGet, Page, Version
  <2> QED BY <1>14, <1>b, <2>2 DEF AnswerGet, PagesInv, GotOK
<1>15. ASSUME NEW s \in Slots, AnswerDeleteFromList(s) PROVE PagesInv'
  <2>1. page' \in Page /\ page'.kind = page.kind /\ page'.name = page.name /\ page'.got = page.got
    BY <1>15, <1>a DEF AnswerDeleteFromList, Page
  <2> QED BY <1>15, <1>b, <2>1 DEF AnswerDeleteFromList, PagesInv, GotOK
<1>16. ASSUME NEW s \in Slots, AnswerFailure(s) PROVE PagesInv'
  <2>1. page' \in Page /\ page'.kind = page.kind /\ page'.name = page.name /\ page'.got = page.got
    BY <1>16, <1>a DEF AnswerFailure, Page
  <2> QED BY <1>16, <1>b, <2>1 DEF AnswerFailure, PagesInv, GotOK
<1>17. ASSUME NEW s \in Slots, AnswerAndGo(s) PROVE PagesInv'
  <2> DEFINE d == Destination(calls[s])
  <2>1. d.kind \in Kinds /\ d.name \in NamesOf(d.kind)
    BY <1>17, <1>a DEF AnswerAndGo, CallOK, Destination, Kinds, NamesOf
  <2>2. To(Without(s), d.kind, d.name) /\ UNCHANGED storeVars
    BY <1>17 DEF AnswerAndGo
  <2> HIDE DEF d
  <2> QED BY <2>1, <2>2, WithoutStep, ToStep
<1>18. CASE UNCHANGED vars
  BY <1>18 DEF vars, storeVars, PagesInv, TypeOK, GotOK, CallsOK
<1> QED BY <1>1, <1>2, <1>3, <1>4, <1>5, <1>6, <1>7, <1>8, <1>9, <1>10, <1>11, <1>12, <1>13,
           <1>14, <1>15, <1>16, <1>17, <1>18 DEF Next, Answer

(* At first each object has a version of its own, or none.                 *)
LEMMA InitStore ==
  ASSUME Init
  PROVE  /\ rev = FirstRev /\ rev \in 1..MaxRev
         /\ obj \in [Names -> 0..rev]
         /\ \A m, n \in Names : obj[m] = obj[n] /\ obj[n] # 0 => m = n
<1>1. PICK there \in SUBSET Names : obj = [n \in Names |-> IF n \in there THEN FirstVersion[n] ELSE 0]
  BY DEF Init
<1>2. rev = FirstRev /\ rev \in 1..MaxRev
  BY PagesBounds DEF Init
<1>3. \A n \in Names : FirstVersion[n] \in 1..rev
  BY <1>2, PagesBounds DEF Names
<1>4. \A m, n \in Names : FirstVersion[m] = FirstVersion[n] => m = n
  BY PagesBounds DEF Names
<1>5. obj \in [Names -> 0..rev]
  BY <1>1, <1>2, <1>3
<1>6. \A n \in Names : obj[n] # 0 => obj[n] = FirstVersion[n]
  BY <1>1
<1> QED BY <1>2, <1>4, <1>5, <1>6

(* The console starts on the dashboard, which asks for both lists.         *)
LEMMA InitPages ==
  ASSUME Init
  PROVE  /\ PagesInv
         /\ \A s \in Slots : calls[s] = NoCall \/ \E op \in Reads("dashboard") : calls[s] = Asking(op, Nobody, "dashboard")
<1> DEFINE none == [s \in Slots |-> NoCall]
<1> DEFINE start == Asked(none, "dashboard", Nobody)
<1>1. page = Fresh("dashboard", Nobody, Reads("dashboard")) /\ calls = start
         /\ rev \in 1..MaxRev /\ obj \in [Names -> 0..rev]
  BY InitStore DEF Init
<1>2. "dashboard" \in Kinds /\ Nobody \in NamesOf("dashboard") /\ Reads("dashboard") = {"listVMs", "listKCs"}
  BY DEF Kinds, NamesOf, Reads
<1>3. Room(none, Cardinality(Reads("dashboard")))
  <2>1. Free(none) = 1..MaxCalls
    BY DEF Free, Slots
  <2>2. Cardinality(1..MaxCalls) = MaxCalls
    BY FS_Interval, PagesBounds
  <2>3. {"listVMs", "listKCs"} = {"listVMs"} \cup {"listKCs"} /\ "listKCs" \notin {"listVMs"}
    OBVIOUS
  <2>4. Cardinality({"listVMs", "listKCs"}) = 2
    <3>1. Cardinality({"listVMs"}) = 1 /\ IsFiniteSet({"listVMs"})
      BY FS_Singleton
    <3> QED BY <2>3, <3>1, FS_AddElement
  <2> QED BY <1>2, <2>1, <2>2, <2>4, PagesBounds DEF Room
<1>4. none = [s \in Slots |-> none[s]] /\ \A s \in Slots : none[s] = NoCall
  OBVIOUS
<1> HIDE DEF none
<1>5. /\ start = [s \in Slots |-> start[s]]
      /\ \A s \in Slots : start[s] = NoCall \/ \E op \in Reads("dashboard") : start[s] = Asking(op, Nobody, "dashboard")
  BY <1>2, <1>3, <1>4, AskedFacts
<1>6. \A s \in Slots : CallOK(start[s], "dashboard")
  BY <1>2, <1>5, NoCallOK, ReadOK
<1>7. calls \in [Slots -> Call]
  BY <1>1, <1>5, <1>6 DEF CallOK
<1>8. page \in Page /\ page.kind = "dashboard" /\ page.name = Nobody /\ page.got = NoVersion
  BY <1>1, <1>2 DEF Fresh, Page, NoVersion, Version, ReadOps
<1>9. PagesInv
  BY <1>1, <1>2, <1>6, <1>7, <1>8, PagesBounds DEF PagesInv, TypeOK, GotOK, CallsOK
<1> QED BY <1>1, <1>5, <1>9
LEMMA InitReads == ASSUME Init, NEW s \in Slots PROVE calls[s].op \in {"none", "listVMs", "listKCs"}
<1>1. Reads("dashboard") = {"listVMs", "listKCs"}
  BY DEF Reads
<1>2. NoCall.op = "none" /\ \A op : Asking(op, Nobody, "dashboard").op = op
  BY DEF NoCall, Asking
<1> QED BY <1>1, <1>2, InitPages

LEMMA PagesInvHolds == Spec => []PagesInv
<1>1. Init => PagesInv
  BY InitPages
<1> QED BY <1>1, PagesInvStep, PTL DEF Spec

(* The page and its requests keep their types.                             *)
THEOREM TypeCorrect == Spec => []TypeOK
<1>1. PagesInv => TypeOK
  BY DEF PagesInv
<1> QED BY <1>1, PagesInvHolds, PTL

-----------------------------------------------------------------------------
(* The console keeps its promise: what is confirmed is what is asked of    *)
(* kcp and not yet done, and going from page to page does not change it.   *)

LEMMA NothingConfirmed ==
  /\ Confirmation(NoCall) = Promise!NoAsk
  /\ \A op \in ReadOps, n \in Names \cup {Nobody}, kind \in Kinds :
        Confirmation(Asking(op, n, kind)) = Promise!NoAsk
  /\ \A c : c.done => Confirmation(c) = Promise!NoAsk
  BY DEF Confirmation, Promise!NoAsk, NoCall, Asking, ReadOps, WriteOps

LEMMA RestConfirms == ASSUME NEW c \in Call, NEW waits
  PROVE Confirmation(Rest(c, waits)) = Confirmation(c)
<1>1. CASE c.op \in ReadOps \/ (c.done /\ c.from \notin waits)
  BY <1>1, NothingConfirmed DEF Rest, Confirmation, Promise!NoAsk, ReadOps, WriteOps
<1>2. CASE ~(c.op \in ReadOps \/ (c.done /\ c.from \notin waits))
  BY <1>2 DEF Rest, Confirmation, Call
<1> QED BY <1>1, <1>2

LEMMA MountConfirms ==
  ASSUME TypeOK, NEW kind \in Kinds, NEW n \in NamesOf(kind), NEW cs \in [Slots -> Call], NEW k,
         \A s \in Slots : CallOK(cs[s], k), NEW waits, "vms" \notin waits,
         MountOver(Left(cs, waits), kind, n), UNCHANGED storeVars
  PROVE  \A s \in Slots : Confirmation(calls'[s]) = Confirmation(cs[s])
<1> SUFFICES ASSUME NEW s \in Slots PROVE Confirmation(calls'[s]) = Confirmation(cs[s])
  OBVIOUS
<1>1. \/ calls'[s] = Rest(cs[s], waits)
      \/ Rest(cs[s], waits) = NoCall /\ \E op \in Reads(kind) : calls'[s] = Asking(op, n, kind)
  BY MountOverStep
<1>2. Reads(kind) \subseteq ReadOps /\ n \in Names \cup {Nobody}
  BY DEF Reads, ReadOps, Kinds, NamesOf, Names
<1> QED BY <1>1, <1>2, RestConfirms, NothingConfirmed

LEMMA ToConfirms ==
  ASSUME PagesInv, NEW kind \in Kinds, NEW n \in NamesOf(kind), NEW cs \in [Slots -> Call],
         \A s \in Slots : CallOK(cs[s], page.kind), To(cs, kind, n), UNCHANGED storeVars
  PROVE  \A s \in Slots : Confirmation(calls'[s]) = Confirmation(cs[s])
<1>1. CASE Stay(cs)
  BY <1>1 DEF Stay
<1>2. CASE kind = page.kind /\ n # page.name /\ Rename(cs, n)
  <2>1. PICK s \in Slots : cs[s] = NoCall /\ calls' = [cs EXCEPT ![s] = Asking("get", n, page.kind)]
    BY <1>2, RenameStep DEF PagesInv
  <2>2. "get" \in ReadOps /\ n \in Names \cup {Nobody} /\ page.kind \in Kinds
    BY <1>2 DEF ReadOps, NamesOf, Names
  <2> QED BY <2>1, <2>2, NothingConfirmed
<1>3. CASE MountOver(Unmounted(cs), kind, n)
  BY <1>3, MountConfirms DEF Unmounted, PagesInv
<1> QED BY <1>1, <1>2, <1>3 DEF To

(* A handler that sends a write confirms it.                               *)
LEMMA WriteConfirms ==
  ASSUME PagesInv, NEW c, CallOK(c, page.kind), c.op \in WriteOps, ~c.done, Write(c)
  PROVE  Promise!Next
<1>1. PICK s \in Slots : calls[s] = NoCall /\ calls' = [calls EXCEPT ![s] = c]
  BY WriteStep
<1> DEFINE asked == [t \in Slots |-> Confirmation(calls[t])]
<1>2. calls'[s] = c /\ \A t \in Slots \ {s} : calls'[t] = calls[t]
  BY <1>1 DEF PagesInv, TypeOK
<1>3. asked[s] = Promise!NoAsk
  BY <1>1, NothingConfirmed
<1>4. asked'[s] = Confirmation(c)
  BY <1>2
<1>5. Confirmation(c) \in Promise!Confirmed
  BY DEF Confirmation, Promise!Confirmed, CallOK, Call, Version, NoVersion, WriteOps, Names
<1>6. asked' = [asked EXCEPT ![s] = asked'[s]]
  BY <1>2
<1>7. UNCHANGED <<obj, rev>>
  BY DEF Write, storeVars
<1> QED BY <1>3, <1>4, <1>5, <1>6, <1>7 DEF Promise!Next, Promise!Confirm

LEMMA ServeConfirms ==
  ASSUME PagesInv, NEW s \in Slots, Serve(s)
  PROVE  Promise!Next \/ UNCHANGED Promise!vars
<1> DEFINE asked == [t \in Slots |-> Confirmation(calls[t])]
           c == calls[s]
<1>1. /\ \A t \in Slots \ {s} : calls'[t] = calls[t]
      /\ calls'[s] = NoCall \/ calls'[s].done
      /\ c.op # "none" /\ ~c.done /\ CallOK(c, page.kind)
  BY ServeStep DEF Sent, PagesInv, CallsOK
<1>2. asked'[s] = Promise!NoAsk /\ \A t \in Slots \ {s} : asked'[t] = asked[t]
  BY <1>1, NothingConfirmed
<1>3. asked' = [asked EXCEPT ![s] = Promise!NoAsk]
  BY <1>2
<1>4. CASE Refuse(s)
  BY <1>3, <1>4 DEF Promise!Next, Promise!Refused, Promise!Decided, Refuse, storeVars
<1>5. CASE ServeRead(s)
  BY <1>3, <1>5 DEF Promise!Next, Promise!Refused, Promise!Decided, ServeRead, storeVars
<1>6. CASE ServeWrite(s)
  <2>1. c.op \in WriteOps
    BY <1>6 DEF ServeWrite, WriteOps
  <2>2. /\ asked[s].op = c.op /\ asked[s].base = c.seen.rv
        /\ asked[s].name = IF c.op = "update" THEN c.seen.name ELSE c.name
    BY <1>1, <2>1 DEF Confirmation
  <2>3. CASE c.op = "create" /\ obj[c.name] = 0 /\ NewVersion(c.name)
    BY <1>3, <2>2, <2>3 DEF Promise!Next, Promise!Done, Promise!Decided, Promise!NewVersion, NewVersion
  <2>4. CASE c.op = "update" /\ c.body.name = c.name /\ obj[c.name] = c.body.rv /\ NewVersion(c.name)
    <3>1. c.body = c.seen
      BY <1>1, <2>4 DEF CallOK
    <3> QED BY <1>3, <2>2, <2>4, <3>1
            DEF Promise!Next, Promise!Done, Promise!Decided, Promise!NewVersion, NewVersion
  <2>5. CASE c.op = "delete" /\ Removed(c.name)
    BY <1>3, <2>2, <2>5 DEF Promise!Next, Promise!Done, Promise!Decided, Promise!Removed, Removed
  <2> QED BY <1>6, <2>3, <2>4, <2>5 DEF ServeWrite
<1> QED BY <1>4, <1>5, <1>6 DEF Serve

LEMMA StepKeepsPromise == ASSUME PagesInv, [Next]_vars PROVE [Promise!Next]_(Promise!vars)
<1>a. page \in Page /\ page.name \in NamesOf(page.kind) /\ page.kind \in Kinds
      /\ calls \in [Slots -> Call] /\ \A s \in Slots : CallOK(calls[s], page.kind)
  BY DEF PagesInv, TypeOK, Page, CallsOK
<1>b. ASSUME UNCHANGED storeVars, \A s \in Slots : Confirmation(calls'[s]) = Confirmation(calls[s])
      PROVE  UNCHANGED Promise!vars
  BY <1>b DEF Promise!vars, storeVars
<1>c. ASSUME UNCHANGED <<storeVars, calls>> PROVE UNCHANGED Promise!vars
  BY <1>c DEF Promise!vars, storeVars
<1>1. ASSUME NEW n \in VMs, Others(n) PROVE Promise!Next
  BY <1>1 DEF Others, NewVersion, Removed, Promise!Next, Promise!Others, Promise!NewVersion, Promise!Removed, Names
<1>2. ASSUME NEW kind \in Kinds, NEW n \in NamesOf(kind), FollowLink(kind, n) \/ JumpInHistory(kind, n)
      PROVE  UNCHANGED Promise!vars
  BY <1>2, <1>a, <1>b, ToConfirms DEF FollowLink, JumpInHistory
<1>3. ASSUME NEW kind \in Kinds, NEW n \in NamesOf(kind), Load(kind, n) PROVE UNCHANGED Promise!vars
  BY <1>3, <1>a, <1>b, MountConfirms DEF Load, Unloaded, PagesInv
<1>4. ASSUME CloseDialog \/ Type \/ CreateNameless \/ \E n \in VMs : AskDelete(n)
      PROVE  UNCHANGED Promise!vars
  BY <1>4, <1>c DEF AskDelete, CloseDialog, Type, CreateNameless, Quietly
<1>5. CASE DeleteFromList
  <2>1. CallOK(Asking("delete", page.ask, "vms"), page.kind)
    BY <1>5, <1>a, WriteOK DEF DeleteFromList, Page
  <2>2. Asking("delete", page.ask, "vms").op \in WriteOps /\ ~Asking("delete", page.ask, "vms").done
    BY DEF Asking, NoCall, WriteOps
  <2> QED BY <1>5, <2>1, <2>2, WriteConfirms DEF DeleteFromList
<1>6. CASE DeleteFromDetail
  <2>1. CallOK(Asking("delete", page.name, "vm"), page.kind)
    BY <1>6, <1>a, WriteOK DEF DeleteFromDetail, NamesOf
  <2>2. Asking("delete", page.name, "vm").op \in WriteOps /\ ~Asking("delete", page.name, "vm").done
    BY DEF Asking, NoCall, WriteOps
  <2> QED BY <1>6, <2>1, <2>2, WriteConfirms DEF DeleteFromDetail
<1>7. CASE Save
  <2> DEFINE c == [Asking("update", page.name, "edit") EXCEPT !.body = Body, !.seen = page.got]
  <2>1. page.name \in VMs /\ page.kind = "edit"
    BY <1>7, <1>a DEF Save, NamesOf
  <2>2. page.got \in Version /\ page.got.name \in Names /\ page.got.rv # 0
    BY <1>7, <1>a, <2>1 DEF Save, Screen, EditScreen, PagesInv, GotOK, Page
  <2>3. CallOK(c, page.kind)
    BY <2>1, <2>2, <1>a, UpdateOK DEF Body
  <2>4. c.op \in WriteOps /\ ~c.done
    BY DEF Asking, NoCall, WriteOps
  <2> HIDE DEF c
  <2>5. Write(c)
    BY <1>7 DEF Save, c
  <2> QED BY <2>3, <2>4, <2>5, WriteConfirms
<1>8. ASSUME NEW n \in VMs, Create(n) PROVE Promise!Next
  <2>1. CallOK(Asking("create", n, "create"), page.kind)
    BY <1>8, <1>a, WriteOK DEF Create
  <2>2. Asking("create", n, "create").op \in WriteOps /\ ~Asking("create", n, "create").done
    BY DEF Asking, NoCall, WriteOps
  <2> QED BY <1>8, <2>1, <2>2, WriteConfirms DEF Create
<1>9. ASSUME NEW s \in Slots, Serve(s) PROVE Promise!Next \/ UNCHANGED Promise!vars
  BY <1>9, ServeConfirms
<1>d. ASSUME NEW s \in Slots, Returned(s)
      PROVE  \A t \in Slots : Confirmation(Without(s)[t]) = Confirmation(calls[t])
  BY <1>d, WithoutStep, NothingConfirmed DEF Returned
<1>10. ASSUME NEW s \in Slots, AnswerList(s) \/ AnswerGet(s) \/ AnswerDeleteFromList(s) \/ AnswerFailure(s)
       PROVE  UNCHANGED Promise!vars
  <2>1. Returned(s) /\ calls' = Without(s) /\ UNCHANGED storeVars
    BY <1>10 DEF AnswerList, AnswerGet, AnswerDeleteFromList, AnswerFailure
  <2> QED BY <2>1, <1>b, <1>d
<1>11. ASSUME NEW s \in Slots, AnswerAndGo(s) PROVE UNCHANGED Promise!vars
  <2> DEFINE d == Destination(calls[s])
  <2>1. d.kind \in Kinds /\ d.name \in NamesOf(d.kind)
    BY <1>11, <1>a DEF AnswerAndGo, CallOK, Destination, Kinds, NamesOf
  <2>2. To(Without(s), d.kind, d.name) /\ UNCHANGED storeVars /\ Returned(s)
    BY <1>11 DEF AnswerAndGo
  <2> HIDE DEF d
  <2>3. \A t \in Slots : Confirmation(calls'[t]) = Confirmation(Without(s)[t])
    BY <2>1, <2>2, WithoutStep, ToConfirms
  <2> QED BY <2>2, <2>3, <1>b, <1>d
<1>12. CASE UNCHANGED vars
  BY <1>12, <1>c DEF vars
<1> QED BY <1>1, <1>2, <1>3, <1>4, <1>5, <1>6, <1>7, <1>8, <1>9, <1>10, <1>11, <1>12 DEF Next, Answer

(* Whatever a user confirms is done at most once, and a save replaces the  *)
(* version of the VM that was in the form (VMEditPage.tsx:59-81), for any  *)
(* number of VMs, requests and versions: the pages implement VMStore.      *)
THEOREM PromiseKept == Spec => WritesKeepPromise
<1>1. Init => Promise!Init
  <2> SUFFICES ASSUME Init PROVE Promise!Init
    OBVIOUS
  <2>1. PagesInv
    BY InitPages
  <2>2. \A s \in Slots : calls[s] = NoCall \/ \E op \in ReadOps : calls[s] = Asking(op, Nobody, "dashboard")
    BY InitPages DEF ReadOps, Reads
  <2>3. \A s \in Slots : Confirmation(calls[s]) = Promise!NoAsk
    BY <2>2, NothingConfirmed DEF Kinds
  <2> QED BY <2>3, InitStore DEF Promise!Init
<1>2. PagesInv /\ [Next]_vars => [Promise!Next]_(Promise!vars)
  BY StepKeepsPromise
<1> QED BY <1>1, <1>2, PagesInvHolds, PTL DEF Spec, Promise!Spec, WritesKeepPromise

-----------------------------------------------------------------------------
(* What a page is shown and locked for.                                    *)

Own(c) == c.op \in WriteOps /\ c.mine

(* A mounted page has nothing but the requests it has just sent.           *)
Mounted ==
  /\ page' = Fresh(page'.kind, page'.name, Reads(page'.kind))
  /\ \A s \in Slots : ~Own(calls'[s])
  /\ \A s, t \in Slots : calls'[s].op = "get" /\ calls'[t].op = "get" => s = t
  /\ \A s \in Slots : calls'[s].op = "get" => page'.waiting # {}

Renamed(cs, n) ==
  /\ page.kind \in {"vm", "edit", "kc"}
  /\ page' = [page EXCEPT !.name = n, !.jumped = TRUE]
  /\ \E s \in Slots : cs[s] = NoCall /\ calls' = [cs EXCEPT ![s] = Asking("get", n, page.kind)]

LEMMA MountedStep ==
  ASSUME TypeOK, NEW kind \in Kinds, NEW n \in NamesOf(kind), NEW cs \in [Slots -> Call], NEW k,
         \A s \in Slots : CallOK(cs[s], k), NEW waits, "vms" \notin waits,
         MountOver(Left(cs, waits), kind, n), UNCHANGED storeVars
  PROVE  Mounted
<1>1. /\ page' = Fresh(kind, n, Reads(kind))
      /\ \A s \in Slots : \/ calls'[s] = Rest(cs[s], waits)
                          \/ \E op \in Reads(kind) : calls'[s] = Asking(op, n, kind)
      /\ "get" \in Reads(kind) =>
           \E s \in Slots : /\ Rest(cs[s], waits) = NoCall /\ calls'[s] = Asking("get", n, kind)
                            /\ \A t \in Slots \ {s} : calls'[t] = Rest(cs[t], waits)
  BY MountOverStep
<1>2. page'.kind = kind /\ page'.name = n /\ page'.waiting = Reads(kind)
  BY <1>1 DEF Fresh
<1>3. \A s \in Slots : Rest(cs[s], waits).op # "get" /\ ~Own(Rest(cs[s], waits))
  BY DEF Rest, NoCall, Call, Own, ReadOps, WriteOps
<1>4. \A op \in Reads(kind) : Asking(op, n, kind).op = op /\ ~Own(Asking(op, n, kind))
  <2>1. Reads(kind) \subseteq ReadOps
    BY DEF Reads, ReadOps, Kinds
  <2> QED BY <2>1 DEF Asking, NoCall, Own, ReadOps, WriteOps
<1>5. \A s \in Slots : ~Own(calls'[s]) /\ (calls'[s].op = "get" => "get" \in Reads(kind))
  BY <1>1, <1>3, <1>4
<1>6. \A s, t \in Slots : calls'[s].op = "get" /\ calls'[t].op = "get" => s = t
  BY <1>1, <1>3, <1>5
<1> QED BY <1>1, <1>2, <1>5, <1>6 DEF Mounted

LEMMA ToCases ==
  ASSUME PagesInv, NEW kind \in Kinds, NEW n \in NamesOf(kind), NEW cs \in [Slots -> Call],
         \A s \in Slots : CallOK(cs[s], page.kind), To(cs, kind, n), UNCHANGED storeVars
  PROVE  \/ kind = page.kind /\ page' = page /\ calls' = cs
         \/ kind = page.kind /\ Renamed(cs, n)
         \/ Mounted
<1>1. CASE kind = page.kind /\ n = page.name /\ Stay(cs)
  BY <1>1 DEF Stay
<1>2. CASE kind = page.kind /\ n # page.name /\ Rename(cs, n)
  <2>1. page.kind \in {"vm", "edit", "kc"}
    BY <1>2 DEF NamesOf, Kinds, PagesInv, TypeOK
  <2> QED BY <1>2, <2>1, RenameStep DEF Renamed, PagesInv
<1>3. CASE MountOver(Unmounted(cs), kind, n)
  BY <1>3, MountedStep DEF Unmounted, PagesInv
<1> QED BY <1>1, <1>2, <1>3 DEF To

(* Everything a step may do to the page and its requests.                  *)
Served(s) ==
  /\ page' = page
  /\ \A t \in Slots \ {s} : calls'[t] = calls[t]
  /\ \/ calls'[s] = NoCall /\ calls[s].from = "nobody"
     \/ calls'[s].op = calls[s].op /\ calls'[s].name = calls[s].name /\ calls'[s].mine = calls[s].mine

Wrote ==
  /\ ~page.busy
  /\ page' \in {[page EXCEPT !.busy = TRUE], [page EXCEPT !.busy = TRUE, !.error = FALSE]}
  /\ \E s \in Slots : \E c : calls[s] = NoCall /\ Own(c) /\ calls' = [calls EXCEPT ![s] = c]

Clicked ==
  /\ calls' = calls
  /\ \/ page' = page \/ \E n : page' = [page EXCEPT !.ask = n] \/ page' = [page EXCEPT !.error = TRUE]
     \/ page.kind = "edit" /\ page.waiting = {} /\ page' = [page EXCEPT !.dirty = TRUE]

Went ==
  \/ \E n : Renamed(calls, n)
  \/ \E s \in Slots : \E n : Returned(s) /\ ~Own(calls[s]) /\ calls[s].op \in WriteOps /\ Renamed(Without(s), n)
  \/ Mounted

Handled(s) ==
  \/ AnswerList(s) \/ AnswerGet(s) \/ AnswerDeleteFromList(s) \/ AnswerFailure(s)
  \/ page' = page /\ calls' = Without(s) /\ calls[s].op \in WriteOps /\ ~Own(calls[s])

LEMMA StepShapes ==
  ASSUME PagesInv, [Next]_vars
  PROVE  \/ Clicked \/ Wrote \/ Went
         \/ \E s \in Slots : Served(s) \/ Handled(s)
<1>a. page \in Page /\ page.name \in NamesOf(page.kind) /\ page.kind \in Kinds
      /\ calls \in [Slots -> Call] /\ \A s \in Slots : CallOK(calls[s], page.kind)
  BY DEF PagesInv, TypeOK, Page, CallsOK
<1>1. ASSUME UNCHANGED <<page, calls>> PROVE Clicked
  BY <1>1 DEF Clicked
<1>2. ASSUME NEW n \in VMs, Others(n) PROVE Clicked
  BY <1>1, <1>2 DEF Others
<1>3. ASSUME NEW kind \in Kinds, NEW n \in NamesOf(kind), FollowLink(kind, n) \/ JumpInHistory(kind, n)
      PROVE  Clicked \/ Went
  BY <1>3, <1>a, ToCases DEF FollowLink, JumpInHistory, Clicked, Went
<1>4. ASSUME NEW kind \in Kinds, NEW n \in NamesOf(kind), Load(kind, n) PROVE Went
  BY <1>4, <1>a, MountedStep DEF Load, Unloaded, PagesInv, Went
<1>5. ASSUME NEW n \in VMs, AskDelete(n) PROVE Clicked
  BY <1>5 DEF AskDelete, Quietly, Clicked
<1>6. CASE CloseDialog \/ CreateNameless
  BY <1>6 DEF CloseDialog, CreateNameless, Quietly, Clicked
<1>7. CASE Type
  BY <1>7 DEF Type, Quietly, Clicked, Screen, EditScreen, Loading
<1>b. ASSUME NEW c, Write(c), Own(c),
             page' \in {[page EXCEPT !.busy = TRUE], [page EXCEPT !.busy = TRUE, !.error = FALSE]}
      PROVE  Wrote
  <2>1. PICK s \in Slots : calls[s] = NoCall /\ calls' = [calls EXCEPT ![s] = c]
    BY <1>b, SendTakesFree DEF Write
  <2> QED BY <1>b, <2>1 DEF Wrote, Write
<1>c. \A n, kind : \A op \in WriteOps : Own(Asking(op, n, kind))
  BY DEF Own, Asking, NoCall
<1>8. CASE DeleteFromList
  BY <1>8, <1>b, <1>c DEF DeleteFromList, WriteOps
<1>9. CASE DeleteFromDetail
  BY <1>9, <1>b, <1>c DEF DeleteFromDetail, WriteOps
<1>10. CASE Save
  <2>1. Own([Asking("update", page.name, "edit") EXCEPT !.body = Body, !.seen = page.got])
    BY DEF Own, Asking, NoCall, WriteOps
  <2> QED BY <1>10, <1>b, <2>1 DEF Save
<1>11. ASSUME NEW n \in VMs, Create(n) PROVE Wrote
  BY <1>11, <1>b, <1>c DEF Create, WriteOps
<1>12. ASSUME NEW s \in Slots, Serve(s) PROVE Served(s)
  BY <1>12, ServeStep DEF Served
<1>13. ASSUME NEW s \in Slots, AnswerAndGo(s) PROVE Went \/ Handled(s)
  <2> DEFINE d == Destination(calls[s])
  <2>1. d.kind \in Kinds /\ d.name \in NamesOf(d.kind)
    BY <1>13, <1>a DEF AnswerAndGo, CallOK, Destination, Kinds, NamesOf
  <2>2. To(Without(s), d.kind, d.name) /\ UNCHANGED storeVars /\ Returned(s) /\ calls[s].op \in WriteOps
    BY <1>13 DEF AnswerAndGo
  <2>3. d.kind = page.kind => ~Own(calls[s])
    BY <1>13, <1>a DEF AnswerAndGo, CallOK, Destination, Own
  <2> HIDE DEF d
  <2>4. \/ d.kind = page.kind /\ page' = page /\ calls' = Without(s)
        \/ d.kind = page.kind /\ Renamed(Without(s), d.name)
        \/ Mounted
    BY <2>1, <2>2, WithoutStep, ToCases
  <2> QED BY <2>2, <2>3, <2>4 DEF Went, Handled
<1>14. CASE UNCHANGED vars
  BY <1>1, <1>14 DEF vars
<1> QED BY <1>2, <1>3, <1>4, <1>5, <1>6, <1>7, <1>8, <1>9, <1>10, <1>11, <1>12, <1>13, <1>14
        DEF Next, Answer, Handled

-----------------------------------------------------------------------------
LEMMA BusyStep == ASSUME PagesInv, BusyMeansWriting, [Next]_vars PROVE BusyMeansWriting'
<1> DEFINE own == {s \in Slots : Own(calls[s])}
<1>a. page \in Page /\ page.kind \in Kinds /\ page.busy \in BOOLEAN
      /\ calls \in [Slots -> Call] /\ \A s \in Slots : CallOK(calls[s], page.kind)
  BY DEF PagesInv, TypeOK, Page, CallsOK
<1>b. (page.busy <=> own # {}) /\ \A s, t \in own : s = t
  BY DEF BusyMeansWriting, Writing, Own
<1>c. (page'.busy <=> own' # {}) /\ (\A s, t \in own' : s = t) => BusyMeansWriting'
  BY DEF BusyMeansWriting, Writing, Own
<1>d. ~Own(NoCall) /\ \A n, kind : ~Own(Asking("get", n, kind))
  BY DEF Own, NoCall, Asking, WriteOps
<1>1. CASE Clicked
  BY <1>1, <1>a, <1>b, <1>c DEF Clicked, Page
<1>2. CASE Wrote
  <2>1. PICK s \in Slots : \E c : calls[s] = NoCall /\ Own(c) /\ calls' = [calls EXCEPT ![s] = c]
    BY <1>2 DEF Wrote
  <2>2. own = {}
    BY <1>2, <1>b DEF Wrote
  <2>3. own' = {s}
    BY <1>a, <2>1, <2>2
  <2>4. page'.busy
    BY <1>2, <1>a DEF Wrote, Page
  <2> QED BY <2>3, <2>4, <1>c
<1>e. ASSUME NEW cs, NEW n, Renamed(cs, n), cs \in [Slots -> Call],
             {s \in Slots : Own(cs[s])} = own
      PROVE  BusyMeansWriting'
  <2>1. page'.busy = page.busy
    BY <1>a, <1>e DEF Renamed, Page
  <2>2. PICK s \in Slots : cs[s] = NoCall /\ calls' = [cs EXCEPT ![s] = Asking("get", n, page.kind)]
    BY <1>e DEF Renamed
  <2>3. own' = {t \in Slots : Own(cs[t])}
    BY <1>d, <1>e, <2>2
  <2> QED BY <1>b, <1>c, <1>e, <2>1, <2>3
<1>f. ASSUME NEW s \in Slots
      PROVE  Without(s) \in [Slots -> Call] /\ {t \in Slots : Own(Without(s)[t])} = own \ {s}
  BY <1>d, WithoutStep
<1>3. CASE Went
  <2>1. CASE \E n : Renamed(calls, n)
    BY <1>a, <1>e, <2>1
  <2>2. ASSUME NEW s \in Slots, NEW n, ~Own(calls[s]), Renamed(Without(s), n) PROVE BusyMeansWriting'
    <3>1. own \ {s} = own
      BY <2>2
    <3> QED BY <1>e, <1>f, <2>2, <3>1
  <2>3. CASE Mounted
    <3>1. own' = {} /\ page'.busy = FALSE
      BY <2>3 DEF Mounted, Fresh
    <3> QED BY <1>c, <3>1
  <2> QED BY <1>3, <2>1, <2>2, <2>3 DEF Went
<1>4. ASSUME NEW s \in Slots, Served(s) PROVE BusyMeansWriting'
  <2>1. Own(calls'[s]) <=> Own(calls[s])
    <3>1. CASE calls'[s] = NoCall /\ calls[s].from = "nobody"
      BY <1>a, <1>d, <3>1 DEF Own, CallOK, Kinds
    <3> QED BY <1>4, <3>1 DEF Served, Own
  <2>2. own' = own
    BY <1>4, <2>1 DEF Served
  <2> QED BY <1>4, <1>b, <1>c, <2>2 DEF Served
<1>5. ASSUME NEW s \in Slots, Handled(s) PROVE BusyMeansWriting'
  <2>1. calls' = Without(s) => own' = own \ {s}
    BY <1>f
  <2>2. CASE AnswerList(s) \/ AnswerGet(s)
    <3>1. ~Own(calls[s]) /\ calls' = Without(s)
      BY <2>2 DEF AnswerList, AnswerGet, Own, WriteOps
    <3>2. page'.busy = page.busy
      BY <1>a, <2>2 DEF AnswerList, AnswerGet, Page
    <3> QED BY <1>b, <1>c, <2>1, <3>1, <3>2
  <2>3. CASE AnswerDeleteFromList(s)
    <3>1. s \in own /\ calls' = Without(s)
      BY <1>a, <2>3 DEF AnswerDeleteFromList, Own, CallOK, WriteOps
    <3>2. page'.busy = FALSE
      BY <1>a, <2>3 DEF AnswerDeleteFromList, Page
    <3>3. own' = {}
      BY <1>b, <2>1, <3>1
    <3> QED BY <1>c, <3>2, <3>3
  <2>4. CASE AnswerFailure(s) /\ calls[s].mine
    <3>1. s \in own /\ calls' = Without(s)
      BY <2>4 DEF AnswerFailure, Own
    <3>2. page'.busy = FALSE
      BY <1>a, <2>4 DEF AnswerFailure, Page
    <3>3. own' = {}
      BY <1>b, <2>1, <3>1
    <3> QED BY <1>c, <3>2, <3>3
  <2>5. CASE AnswerFailure(s) /\ ~calls[s].mine
    <3>1. ~Own(calls[s]) /\ calls' = Without(s) /\ page' = page
      BY <2>5 DEF AnswerFailure, Own
    <3> QED BY <1>b, <1>c, <2>1, <3>1
  <2>6. CASE page' = page /\ calls' = Without(s) /\ ~Own(calls[s])
    BY <1>b, <1>c, <2>1, <2>6
  <2> QED BY <1>5, <2>2, <2>3, <2>4, <2>5, <2>6 DEF Handled
<1> QED BY <1>1, <1>2, <1>3, <1>4, <1>5, StepShapes

(* The buttons of a page are locked exactly while its one write is under   *)
(* way, whatever is answered in whatever order and wherever the user goes. *)
THEOREM BusyMeansWritingHolds == Spec => []BusyMeansWriting
<1>1. Init => BusyMeansWriting
  <2> SUFFICES ASSUME Init PROVE BusyMeansWriting
    OBVIOUS
  <2>1. Writing = {}
    BY InitReads DEF Writing, WriteOps
  <2> QED BY <2>1 DEF BusyMeansWriting, Init, Fresh
<1> QED BY <1>1, BusyStep, PagesInvHolds, PTL DEF Spec

-----------------------------------------------------------------------------
(* A page that holds another object than its URL's has asked for the right *)
(* one, unless it went astray.                                             *)
GetsOwn(n) == \E s \in Slots : calls[s].op = "get" /\ calls[s].name = n
HoldsURL == page.got # NoVersion /\ page.got.name # page.name => page.astray \/ GetsOwn(page.name)

LEMMA HoldsStep == ASSUME PagesInv, HoldsURL, [Next]_vars PROVE HoldsURL'
<1>a. page \in Page /\ page.kind \in Kinds /\ calls \in [Slots -> Call]
      /\ \A s \in Slots : CallOK(calls[s], page.kind)
  BY DEF PagesInv, TypeOK, Page, CallsOK
<1>b. ASSUME page'.got = page.got, page'.name = page.name, page'.astray = page.astray,
             \A s \in Slots : calls[s].op = "get" => calls'[s].op = "get" /\ calls'[s].name = calls[s].name
      PROVE  HoldsURL'
  BY <1>b DEF HoldsURL, GetsOwn
<1>c. NoCall.op # "get"
  BY DEF NoCall
<1>1. CASE Clicked
  BY <1>1, <1>a, <1>b DEF Clicked, Page
<1>2. CASE Wrote
  BY <1>2, <1>a, <1>b, <1>c DEF Wrote, Page
<1>3. CASE Went
  <2>1. ASSUME NEW n, NEW cs \in [Slots -> Call], Renamed(cs, n) PROVE HoldsURL'
    <3>1. PICK s \in Slots : calls' = [cs EXCEPT ![s] = Asking("get", n, page.kind)]
      BY <2>1 DEF Renamed
    <3>2. calls'[s].op = "get" /\ calls'[s].name = n
      BY <3>1 DEF Asking, NoCall
    <3>3. page'.name = n
      BY <1>a, <2>1 DEF Renamed, Page
    <3> QED BY <3>2, <3>3 DEF HoldsURL, GetsOwn
  <2>2. CASE Mounted
    BY <2>2 DEF Mounted, Fresh, HoldsURL
  <2> QED BY <1>3, <1>a, <2>1, <2>2, WithoutStep DEF Went
<1>4. ASSUME NEW s \in Slots, Served(s) PROVE HoldsURL'
  <2>1. calls[s].op = "get" => calls[s].from # "nobody"
    BY <1>a DEF CallOK, ReadOps, Kinds
  <2> QED BY <1>4, <1>b, <2>1 DEF Served
<1>5. ASSUME NEW s \in Slots, Handled(s) PROVE HoldsURL'
  <2>1. calls' = Without(s)
    BY <1>5 DEF Handled, AnswerList, AnswerGet, AnswerDeleteFromList, AnswerFailure
  <2>2. \A t \in Slots \ {s} : calls'[t] = calls[t]
    BY <2>1, WithoutStep
  <2>3. CASE calls[s].op # "get"
    <3>1. ~AnswerGet(s)
      BY <2>3 DEF AnswerGet
    <3>2. page'.got = page.got /\ page'.name = page.name /\ page'.astray = page.astray
      BY <1>5, <1>a, <3>1 DEF Handled, AnswerList, AnswerDeleteFromList, AnswerFailure, Page
    <3> QED BY <1>b, <2>2, <2>3, <3>2
  <2>4. CASE calls[s].op = "get"
    <3>1. AnswerGet(s)
      BY <1>5, <2>4 DEF Handled, AnswerList, AnswerDeleteFromList, AnswerFailure, WriteOps
    <3>2. CASE calls[s].ok
      <4>1. /\ page'.got = [name |-> calls[s].name, rv |-> calls[s].rv] /\ page'.name = page.name
            /\ page'.astray = (calls[s].name # page.name)
        BY <3>1, <3>2, <1>a DEF AnswerGet, Page
      <4>2. CASE calls[s].name = page.name
        BY <4>1, <4>2 DEF HoldsURL
      <4>3. CASE calls[s].name # page.name
        BY <4>1, <4>3 DEF HoldsURL
      <4> QED BY <4>2, <4>3
    <3>3. CASE ~calls[s].ok
      <4>1. page'.astray = TRUE
        BY <3>1, <3>3, <1>a DEF AnswerGet, Page
      <4> QED BY <4>1 DEF HoldsURL
    <3> QED BY <3>2, <3>3
  <2> QED BY <2>3, <2>4
<1> QED BY <1>1, <1>2, <1>3, <1>4, <1>5, StepShapes

(* A detail or edit page that shows an object other than its URL's is      *)
(* waiting for the right one, or went astray (VMDetailPage.tsx:50-57).     *)
THEOREM ShowsURLHolds == Spec => []ShowsURL
<1>1. Init => HoldsURL
  BY DEF Init, Fresh, HoldsURL
<1>2. HoldsURL => ShowsURL
  BY DEF HoldsURL, GetsOwn, ShowsURL, Screen, DetailScreen, EditScreen
<1> QED BY <1>1, <1>2, HoldsStep, PagesInvHolds, PTL DEF Spec

-----------------------------------------------------------------------------
(* As long as the name has not changed there is one get at most, the page  *)
(* is waiting for it, and nothing has been typed before it is answered.    *)
OneGet ==
  ~page.jumped =>
    /\ \A s, t \in Slots : calls[s].op = "get" /\ calls[t].op = "get" => s = t
    /\ \A s \in Slots : calls[s].op = "get" => page.waiting # {}
    /\ page.dirty => page.waiting = {}

LEMMA OneGetStep == ASSUME PagesInv, OneGet, [Next]_vars PROVE OneGet'
<1>a. page \in Page /\ page.kind \in Kinds /\ calls \in [Slots -> Call]
      /\ \A s \in Slots : CallOK(calls[s], page.kind)
  BY DEF PagesInv, TypeOK, Page, CallsOK
<1>b. ASSUME page'.jumped = page.jumped, page'.dirty = page.dirty, page'.waiting = page.waiting,
             \A s \in Slots : calls'[s].op = "get" => calls[s].op = "get"
      PROVE  OneGet'
  BY <1>b DEF OneGet
<1>c. NoCall.op # "get"
  BY DEF NoCall
<1>1. CASE Clicked
  <2>1. CASE page.kind = "edit" /\ page.waiting = {} /\ page' = [page EXCEPT !.dirty = TRUE]
    <3>1. page'.waiting = {} /\ page'.jumped = page.jumped /\ calls' = calls
      BY <1>1, <1>a, <2>1 DEF Clicked, Page
    <3> QED BY <2>1, <3>1 DEF OneGet
  <2> QED BY <1>1, <1>a, <1>b, <2>1 DEF Clicked, Page
<1>2. CASE Wrote
  <2>0. PICK s \in Slots : \E c : Own(c) /\ calls' = [calls EXCEPT ![s] = c]
    BY <1>2 DEF Wrote
  <2>1. PICK c : Own(c) /\ calls' = [calls EXCEPT ![s] = c]
    BY <2>0
  <2>2. c.op # "get"
    BY <2>1 DEF Own, WriteOps
  <2>3. page'.jumped = page.jumped /\ page'.dirty = page.dirty /\ page'.waiting = page.waiting
    BY <1>2, <1>a DEF Wrote, Page
  <2> QED BY <1>a, <1>b, <2>1, <2>2, <2>3
<1>3. CASE Went
  <2>1. ASSUME NEW n, NEW cs, Renamed(cs, n) PROVE OneGet'
    <3>1. page'.jumped = TRUE
      BY <1>a, <2>1 DEF Renamed, Page
    <3> QED BY <3>1 DEF OneGet
  <2>2. CASE Mounted
    BY <2>2 DEF Mounted, Fresh, OneGet
  <2> QED BY <1>3, <2>1, <2>2 DEF Went
<1>4. ASSUME NEW s \in Slots, Served(s) PROVE OneGet'
  BY <1>4, <1>b, <1>c DEF Served
<1>5. ASSUME NEW s \in Slots, Handled(s) PROVE OneGet'
  <2>1. calls' = Without(s)
    BY <1>5 DEF Handled, AnswerList, AnswerGet, AnswerDeleteFromList, AnswerFailure
  <2>2. \A t \in Slots : calls'[t].op = "get" => calls[t].op = "get" /\ t # s
    BY <1>c, <2>1, WithoutStep
  <2>3. CASE AnswerList(s)
    <3>1. calls[s].op \in Reads(page.kind) /\ "get" \notin Reads(page.kind)
      BY <1>a, <2>3 DEF AnswerList, CallOK, ReadOps, Reads, Kinds
    <3>2. \A t \in Slots : calls[t].op # "get"
      BY <1>a, <3>1 DEF CallOK, ReadOps
    <3>3. page'.jumped = page.jumped /\ page'.dirty = page.dirty /\ page'.waiting \subseteq page.waiting
      BY <1>a, <2>3 DEF AnswerList, Page
    <3> QED BY <2>2, <3>2, <3>3 DEF OneGet
  <2>4. CASE AnswerGet(s)
    <3>1. page'.waiting = {} /\ page'.jumped = page.jumped
      BY <1>a, <2>4 DEF AnswerGet, Page
    <3>2. calls[s].op = "get"
      BY <2>4 DEF AnswerGet
    <3> QED BY <2>2, <3>1, <3>2 DEF OneGet
  <2>5. CASE ~AnswerList(s) /\ ~AnswerGet(s)
    <3>1. page'.jumped = page.jumped /\ page'.dirty = page.dirty /\ page'.waiting = page.waiting
      BY <1>5, <1>a, <2>5 DEF Handled, AnswerDeleteFromList, AnswerFailure, Page
    <3> QED BY <1>b, <2>2, <3>1
  <2> QED BY <2>3, <2>4, <2>5
<1> QED BY <1>1, <1>2, <1>3, <1>4, <1>5, StepShapes

(* What was typed into the form stays in it, as long as the page stays     *)
(* with its VM (VMEditPage.tsx:38-81).                                     *)
THEOREM TypedInputKeptHolds == Spec => TypedInputKept
<1>1. Init => OneGet
  <2> SUFFICES ASSUME Init PROVE OneGet
    OBVIOUS
  <2>1. \A s \in Slots : calls[s].op # "get"
    BY InitReads
  <2> QED BY <2>1 DEF OneGet, Init, Fresh
<1>2. PagesInv /\ OneGet /\ [Next]_vars
        => [~JustMounted' /\ page.dirty /\ ~page'.dirty => page.jumped]_vars
  <2> SUFFICES ASSUME PagesInv, OneGet, [Next]_vars, page.dirty, ~page'.dirty, ~page.jumped
               PROVE  JustMounted'
    OBVIOUS
  <2>a. page \in Page
    BY DEF PagesInv, TypeOK
  <2>1. CASE Clicked \/ Wrote
    BY <2>a, <2>1 DEF Clicked, Wrote, Page
  <2>2. CASE Went
    BY <2>a, <2>2 DEF Went, Renamed, Mounted, JustMounted, Page
  <2>3. ASSUME NEW s \in Slots, Served(s) \/ Handled(s) PROVE FALSE
    <3>1. calls[s].op # "get"
      BY DEF OneGet
    <3>2. page'.dirty = page.dirty
      BY <2>3, <2>a, <3>1 DEF Served, Handled, AnswerList, AnswerGet, AnswerDeleteFromList, AnswerFailure, Page
    <3> QED BY <3>2
  <2> QED BY <2>1, <2>2, <2>3, StepShapes
<1> QED BY <1>1, <1>2, OneGetStep, PagesInvHolds, PTL DEF Spec, TypedInputKept

(* A row leaves the list of VMs only for a deletion that succeeded         *)
(* (VMListPage.tsx:100-114).                                               *)
THEOREM RowsLeaveWhenDeletedHolds == Spec => RowsLeaveWhenDeleted
<1>1. PagesInv /\ [Next]_vars
        => [~JustMounted' => \A n \in page.rows \ page'.rows :
              \E s \in Slots : Returned(s) /\ calls[s].ok /\ calls[s].op = "delete"
                                 /\ calls[s].name = n]_vars
  <2> SUFFICES ASSUME PagesInv, [Next]_vars, ~JustMounted', NEW n \in page.rows \ page'.rows
               PROVE  \E s \in Slots : Returned(s) /\ calls[s].ok /\ calls[s].op = "delete"
                                          /\ calls[s].name = n
    OBVIOUS
  <2>a. page \in Page
    BY DEF PagesInv, TypeOK
  <2>1. CASE Clicked \/ Wrote
    BY <2>a, <2>1 DEF Clicked, Wrote, Page
  <2>2. CASE Went
    BY <2>a, <2>2 DEF Went, Renamed, Mounted, JustMounted, Page
  <2>3. ASSUME NEW s \in Slots, Served(s) \/ Handled(s)
        PROVE  Returned(s) /\ calls[s].ok /\ calls[s].op = "delete" /\ calls[s].name = n
    <3>1. CASE AnswerList(s)
      BY <2>a, <3>1 DEF AnswerList, Page
    <3>2. CASE AnswerGet(s)
      BY <2>a, <3>2 DEF AnswerGet, Page
    <3>3. CASE AnswerFailure(s) \/ page' = page
      BY <2>a, <3>3 DEF AnswerFailure, Page
    <3>4. CASE AnswerDeleteFromList(s)
      BY <2>a, <3>4 DEF AnswerDeleteFromList, Page
    <3> QED BY <2>3, <3>1, <3>2, <3>3, <3>4 DEF Served, Handled
  <2> QED BY <2>1, <2>2, <2>3, StepShapes
<1> QED BY <1>1, PagesInvHolds, PTL DEF Spec, RowsLeaveWhenDeleted
=============================================================================
