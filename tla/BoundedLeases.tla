--------------------------- MODULE BoundedLeases ---------------------------
(***************************************************************************)
(* What the library's gates and pools promise, whatever they keep inside:  *)
(* something is leased to users one at a time and one each, never to more  *)
(* of them than the bound that holds at that moment, and it is theirs      *)
(* until they return it.  The bound may be lowered below what is on loan:  *)
(* then nobody gets a lease until enough of them are back.                 *)
(***************************************************************************)
EXTENDS Integers, FiniteSets

CONSTANTS
  Users,      \* who may hold a lease
  Bounds,     \* the numbers the bound may be set to
  NoBound     \* the bound that is none

VARIABLES
  holders,    \* the users with a lease
  bound       \* how many there may be

leaseVars == <<holders, bound>>

LeaseInit ==
  /\ holders = {}
  /\ bound \in Bounds \cup {NoBound}

HasRoom == bound = NoBound \/ Cardinality(holders) < bound

Grant(u) ==
  /\ u \notin holders /\ HasRoom
  /\ holders' = holders \cup {u}
  /\ UNCHANGED bound

GiveBackLease(u) ==
  /\ u \in holders
  /\ holders' = holders \ {u}
  /\ UNCHANGED bound

SetBound(n) ==
  /\ bound' = n
  /\ UNCHANGED holders

LeaseNext ==
  \/ \E u \in Users : Grant(u) \/ GiveBackLease(u)
  \/ \E n \in Bounds \cup {NoBound} : SetBound(n)

LeaseSpec == LeaseInit /\ [][LeaseNext]_leaseVars
=============================================================================
