--------------------------- MODULE MCCatalogSources ---------------------------
(***************************************************************************)
(* A small instance of CatalogSources for TLC.                              *)
(***************************************************************************)
EXTENDS CatalogSources
=============================================================================
