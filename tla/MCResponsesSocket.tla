-------------------------- MODULE MCResponsesSocket --------------------------
(***************************************************************************)
(* A small instance of ResponsesSocket for TLC.                            *)
(***************************************************************************)
EXTENDS ResponsesSocket

MCFormats == Format
=============================================================================
