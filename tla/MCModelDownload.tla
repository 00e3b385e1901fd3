--------------------------- MODULE MCModelDownload ---------------------------
(* Constants for model-checking ModelDownload: a file of three chunks and   *)
(* one of one chunk, in sessions of two chunks.                             *)
EXTENDS ModelDownload

MCSize == <<3, 1>>
=============================================================================
