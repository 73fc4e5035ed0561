------------------------------ MODULE MCSource ------------------------------
(* The instance of Source that source_stream.cfg gives TLC.                 *)
EXTENDS Source
=============================================================================
