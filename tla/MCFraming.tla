----------------------------- MODULE MCFraming ------------------------------
(***************************************************************************)
(* Small instances of Framing for TLC: a header of 4 bytes as in the code, *)
(* a buffer of 11 in place of 65535, and bodies that are empty, short and  *)
(* the longest possible, so that headers and bodies are cut everywhere,    *)
(* packets end on, before and behind BufferSize, and the rest is moved.    *)
(***************************************************************************)
EXTENDS Framing

MCBodies == {0, 3, 7}
=============================================================================
