----------------------------- MODULE Placement -----------------------------
(***************************************************************************)
(* What the simulation of the allocation promises the tool, whatever the   *)
(* order in which it visits memory: the objects of a question are put one  *)
(* by one into untyped memory that no other object uses, an object with a  *)
(* physical address at this address, and the answer TRUE means that all of *)
(* them found a place.  It promises nothing about a question that is not   *)
(* proper: one with an address that no untyped object covers.              *)
(***************************************************************************)
EXTENDS Naturals, Sequences, Functions

CONSTANT NoPaddr

VARIABLES
  memory,   \* untyped objects: [base, bits, device]
  wanted,   \* objects to place: [bits, paddr]
  placed,   \* address of each object that has a place
  answer    \* "none", "true", "false"

placementVars == <<memory, wanted, placed, answer>>

EndOf(u) == u.base + 2^u.bits
Last(o, p) == p + 2^wanted[o].bits

Covering(o, p) ==
  \E i \in DOMAIN memory :
    /\ memory[i].base <= p /\ Last(o, p) <= EndOf(memory[i])
    /\ memory[i].device => wanted[o].paddr = p

Apart(o, p) ==
  \A q \in DOMAIN placed : Last(o, p) <= placed[q] \/ Last(q, placed[q]) <= p

Proper ==
  \A o \in DOMAIN wanted : wanted[o].paddr # NoPaddr => Covering(o, wanted[o].paddr)

PlacementInit == placed = <<>> /\ answer = "none"

Ask == placed' = <<>> /\ answer' \in {"none", "false"}

Place(o) ==
  /\ answer = "none"
  /\ o \in DOMAIN wanted \ DOMAIN placed
  /\ o \in DOMAIN placed'
  /\ \E p \in {placed'[o]} :
       /\ Proper => /\ Covering(o, p) /\ Apart(o, p)
                    /\ wanted[o].paddr \in {NoPaddr, p}
       /\ placed' = [q \in DOMAIN placed \cup {o} |-> IF q = o THEN p ELSE placed[q]]
  /\ UNCHANGED <<memory, wanted, answer>>

\* Objects that take no memory need no place.
Answer ==
  /\ answer = "none"
  /\ answer' \in {"true", "false"}
  /\ Proper /\ answer' = "true" =>
       \A o \in DOMAIN wanted : wanted[o].bits > 0 => o \in DOMAIN placed
  /\ UNCHANGED <<memory, wanted, placed>>

\* Only an improper question ends the tool.
Fail ==
  /\ answer = "none" /\ ~Proper
  /\ answer' = "panic"
  /\ UNCHANGED <<memory, wanted, placed>>

PlacementNext == Ask \/ Answer \/ Fail \/ \E o \in DOMAIN wanted : Place(o)

PlacementSpec == PlacementInit /\ [][PlacementNext]_placementVars
=============================================================================
