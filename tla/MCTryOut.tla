------------------------------ MODULE MCTryOut ------------------------------
(***************************************************************************)
(* TryOut on small instances.                                              *)
(***************************************************************************)
EXTENDS TryOut

CONSTANTS S, T,  \* schemes of the operation
          P,     \* its parameter
          V      \* the value it is given
=============================================================================
