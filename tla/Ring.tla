-------------------------------- MODULE Ring --------------------------------
(***************************************************************************)
(* The bounded ring that internal/versioning uses twice: Store keeps the   *)
(* last maxVersions configuration versions in it and AuditLog the last     *)
(* maxSize audit events.  Both types hold a slice of fixed length, the     *)
(* index "current" of the newest element and the number "count" of         *)
(* elements stored so far, capped at the length.                           *)
(*                                                                         *)
(* A ring is the record [slots, current, count]; "cap" is the length of    *)
(* the slice and "none" the nil pointer an unwritten slot holds.           *)
(***************************************************************************)
EXTENDS Integers, Sequences

(* The ring make([]*T, cap) gives: nothing stored, current at index 0.     *)
EmptyRing(cap, none) ==
  [slots |-> [i \in 0 .. cap - 1 |-> none], current |-> 0, count |-> 0]

(* Faulty variant of Push: a full ring overwrites its newest element.      *)
PushOverNewest(cap, r, e) ==
  LET at == IF r.count < cap THEN (r.current + 1) % cap ELSE r.current
  IN  [slots   |-> [r.slots EXCEPT ![at] = e],
       current |-> at,
       count   |-> IF r.count < cap THEN r.count + 1 ELSE r.count]

(* The write both types do under their lock: advance, overwrite, count.    *)
(* The first element goes to index 1 % cap, not to index 0.                *)
Push(cap, r, e) ==
  LET at == (r.current + 1) % cap
  IN  [slots   |-> [r.slots EXCEPT ![at] = e],
       current |-> at,
       count   |-> IF r.count < cap THEN r.count + 1 ELSE r.count]

(* Faulty variant of SlotOf: walks towards the newer elements.             *)
SlotOfForward(cap, r, i) == (r.current + i) % cap

(* The index of the i-th newest element, i = 0 for the newest.             *)
SlotOf(cap, r, i) == (r.current - i + cap) % cap

Nth(cap, r, i) == r.slots[SlotOf(cap, r, i)]

Newest(r, none) == IF r.count = 0 THEN none ELSE r.slots[r.current]

(* The walk of List and Recent: the n newest elements, newest first.       *)
NewestFirst(cap, r, n) == [i \in 1 .. n |-> Nth(cap, r, i - 1)]

(* Every ring over the elements E.                                         *)
RingOf(cap, none, E) ==
  [slots : [0 .. cap - 1 -> E \union {none}], current : 0 .. cap - 1, count : 0 .. cap]
=============================================================================
