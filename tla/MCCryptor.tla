------------------------------ MODULE MCCryptor ------------------------------
(***************************************************************************)
(* Cryptor on small instances.                                             *)
(***************************************************************************)
EXTENDS Cryptor

CONSTANT Shipped        \* the key pair in the repository's rsa.x509 and rsa.pk8

\* Deployments: the files copied from the repository, no files at all.
ShippedFiles == [pub |-> Shipped, priv |-> Shipped]
NoFiles == [pub |-> Absent, priv |-> Absent]

Fresh == {NoFiles}
FreshOrShipped == {ShippedFiles, NoFiles}
=============================================================================
