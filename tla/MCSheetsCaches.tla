--------------------------- MODULE MCSheetsCaches ---------------------------
(* SheetsCaches on a small instance.                                       *)
EXTENDS SheetsCaches
=============================================================================
