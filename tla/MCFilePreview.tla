--------------------------- MODULE MCFilePreview ---------------------------
(* FilePreview on a small instance.                                          *)
EXTENDS FilePreview
=============================================================================
