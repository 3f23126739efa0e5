---------------------------- MODULE MCCtrlQueue ----------------------------
(* A small instance of CtrlQueue: a ring of four units, so three messages.  *)
EXTENDS CtrlQueue
=============================================================================
