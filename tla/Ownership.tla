------------------------------ MODULE Ownership ------------------------------
(***************************************************************************)
(* What reference counting promises, with neither counters nor threads: an *)
(* object lives exactly as long as there is a reference to it (the rules   *)
(* for passing objects in src/nx/sdk/i_ref_countable.h).                   *)
(***************************************************************************)
CONSTANTS
  References,   (* Whatever can refer to an object.                        *)
  Objects,
  Null          (* A reference to nothing.                                 *)

VARIABLES
  refers,       (* What each reference refers to.                          *)
  alive         (* The objects that are not deleted.                       *)

vars == <<refers, alive>>

Init ==
  /\ refers = [r \in References |-> Null]
  /\ alive = {}

ReferencesTo(o) == {r \in References : refers[r] = o}

(* An object is created with one reference to it.                          *)
Create(r, o) ==
  /\ refers[r] = Null /\ o \notin alive /\ ReferencesTo(o) = {}
  /\ refers' = [refers EXCEPT ![r] = o]
  /\ alive' = alive \union {o}

(* A living object gets one more reference.                                *)
Share(r, o) ==
  /\ refers[r] = Null /\ o \in alive
  /\ refers' = [refers EXCEPT ![r] = o]
  /\ UNCHANGED alive

(* A reference is given up; with the last one the object dies.             *)
Drop(r) ==
  /\ refers[r] # Null
  /\ refers' = [refers EXCEPT ![r] = Null]
  /\ alive' = IF ReferencesTo(refers[r]) = {r} THEN alive \ {refers[r]}
                                               ELSE alive

(* A reference passes its object to another one.                           *)
Pass(r, q) ==
  /\ refers[r] = Null /\ refers[q] # Null
  /\ refers' = [refers EXCEPT ![r] = refers[q], ![q] = Null]
  /\ UNCHANGED alive

Next ==
  \/ \E r \in References, o \in Objects : Create(r, o) \/ Share(r, o)
  \/ \E r \in References : Drop(r)
  \/ \E r, q \in References : Pass(r, q)

Spec == Init /\ [][Next]_vars

=============================================================================
