------------------------------- MODULE Basics -------------------------------
(***************************************************************************)
(* What the modules of the core server and of the client have in common.   *)
(***************************************************************************)
EXTENDS Integers, Sequences, FiniteSets, Functions

CONSTANT None   \* nil: no node, no user, no row, no key
=============================================================================
