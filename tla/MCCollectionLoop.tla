--------------------------- MODULE MCCollectionLoop ---------------------------
(* The collection loop for TLC.                                             *)
EXTENDS CollectionLoop
===============================================================================
