-------------------------- MODULE MCPrinterAnswer --------------------------
(* One answer of the printer, which may arrive in several pieces.            *)
EXTENDS PrinterAnswer
OneAnswer == {<<"http200", "C", "L", "len", "N", "R", "N", "ippOk", "ours">>}
=============================================================================
