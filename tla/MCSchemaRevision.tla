--------------------------- MODULE MCSchemaRevision ---------------------------
(***************************************************************************)
(* Two processes that create or open a file of any revision, one of which  *)
(* may be killed.                                                          *)
(***************************************************************************)
EXTENDS SchemaRevision

CONSTANTS p1, p2

MCProcess == {p1, p2}
=============================================================================
