----------------------------- MODULE MCLifecycle -----------------------------
(***************************************************************************)
(* Three components for Lifecycle.                                         *)
(***************************************************************************)
EXTENDS Lifecycle, TLC

\* The first component's touchpoint needs the third's work.
OneNeedsThree == (1 :> {3})

=============================================================================
