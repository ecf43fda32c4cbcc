------------------------------- MODULE VMStore -------------------------------
(***************************************************************************)
(* What the console promises about the objects in kcp: everything a user   *)
(* confirms on a page is done at most once, and an edit only replaces the  *)
(* very version of the very object the user had in the form; while others  *)
(* go on changing the same objects.                                        *)
(***************************************************************************)
EXTENDS Naturals

CONSTANTS
  Names,  \* names of objects
  Nobody, \* no name
  Asks    \* places for what users have confirmed and has not been decided

VARIABLES
  obj,  \* version of each object, 0 for none
  rev,  \* the last version given
  asked \* what is confirmed: a change and the version it was made to

vars == <<obj, rev, asked>>

NoAsk == [op |-> "none", name |-> Nobody, base |-> 0]
Confirmed ==
  [op : {"create", "delete"}, name : Names, base : {0}] \cup
  [op : {"update"}, name : Names, base : Nat \ {0}]

Init ==
  /\ rev \in Nat
  /\ obj \in [Names -> 0..rev]
  /\ \A m, n \in Names : obj[m] = obj[n] /\ obj[n] # 0 => m = n
  /\ asked = [a \in Asks |-> NoAsk]

NewVersion(n) ==
  /\ rev' = rev + 1
  /\ obj' = [obj EXCEPT ![n] = rev + 1]

Removed(n) ==
  /\ obj[n] # 0
  /\ obj' = [obj EXCEPT ![n] = 0]
  /\ UNCHANGED rev

Others(n) == (NewVersion(n) \/ Removed(n)) /\ UNCHANGED asked

Confirm(a) ==
  /\ asked[a] = NoAsk
  /\ asked'[a] \in Confirmed
  /\ asked' = [asked EXCEPT ![a] = asked'[a]]
  /\ UNCHANGED <<obj, rev>>

Decided(a) == asked' = [asked EXCEPT ![a] = NoAsk]

Refused(a) == Decided(a) /\ UNCHANGED <<obj, rev>>

Done(a) ==
  /\ \/ asked[a].op = "create" /\ obj[asked[a].name] = 0 /\ NewVersion(asked[a].name)
     \/ asked[a].op = "update" /\ obj[asked[a].name] = asked[a].base /\ NewVersion(asked[a].name)
     \/ asked[a].op = "delete" /\ Removed(asked[a].name)
  /\ Decided(a)

Next ==
  \/ \E n \in Names : Others(n)
  \/ \E a \in Asks : Confirm(a) \/ Refused(a) \/ Done(a)

Spec == Init /\ [][Next]_vars
=============================================================================
