----------------------------- MODULE MCXmlEncText -----------------------------
(***************************************************************************)
(* XmlEncText on small instances.                                          *)
(***************************************************************************)
EXTENDS XmlEncText

MCDocuments == {<<Accented, Letter>>}

MCSurroundings == {<<Foreign, NewLine>>}
=============================================================================
