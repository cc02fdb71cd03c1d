--------------------------- MODULE MCSheetExport ---------------------------
(* SheetExport on a small instance.                                        *)
EXTENDS SheetExport
=============================================================================
