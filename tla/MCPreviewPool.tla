--------------------------- MODULE MCPreviewPool ---------------------------
(* PreviewPool on a small instance.                                          *)
EXTENDS PreviewPool
=============================================================================
