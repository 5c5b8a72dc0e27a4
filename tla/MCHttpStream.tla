---------------------------- MODULE MCHttpStream ----------------------------
(* The instance of HttpStream for TLC.                                      *)
EXTENDS HttpStream
=============================================================================
