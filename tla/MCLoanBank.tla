----------------------------- MODULE MCLoanBank -----------------------------
(***************************************************************************)
(* LoanBank on small instances.                                            *)
(***************************************************************************)
EXTENDS LoanBank
=============================================================================
