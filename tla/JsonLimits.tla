----------------------------- MODULE JsonLimits -----------------------------
(***************************************************************************)
(* The limits of the JSON library, parson.c.                               *)
(***************************************************************************)
EXTENDS Naturals

CONSTANTS STARTING_CAPACITY, OBJECT_MAX_CAPACITY, MAX_NESTING

ASSUME CapacityAssumption ==
  /\ STARTING_CAPACITY \in Nat \ {0}
  /\ OBJECT_MAX_CAPACITY \in Nat
  /\ STARTING_CAPACITY <= OBJECT_MAX_CAPACITY
ASSUME NestingAssumption == MAX_NESTING \in Nat
=============================================================================
