------------------------------ MODULE MCXmlTree ------------------------------
(***************************************************************************)
(* XmlTree with attributes of one value.                                   *)
(***************************************************************************)
EXTENDS XmlTree

MCAttValues == {<<"v">>}
=============================================================================
