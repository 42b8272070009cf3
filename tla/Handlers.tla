------------------------------ MODULE Handlers ------------------------------
(***************************************************************************)
(* What the components of the API server that serve requests have in       *)
(* common.  A request is used once; a component splits its handlers at the *)
(* awaits between which another request can be served.                     *)
(***************************************************************************)
EXTENDS Naturals

CONSTANTS
  Requests,    \* requests served once each, in any order and at once
  Clients,     \* requests served at once, by components that serve them again and again
  MaxFaults,   \* bound: what fails, per component
  None

ASSUME FaultBound == MaxFaults \in Nat
=============================================================================
