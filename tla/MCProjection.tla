---------------------------- MODULE MCProjection ----------------------------
(***************************************************************************)
(* A small instance of Projection, given by its configuration.             *)
(***************************************************************************)
EXTENDS Projection

\* What the proof of FreshUnlessOverlapped assumes of the times holds of these.
ASSUME TextsInOrder
=============================================================================
