----------------------------- MODULE MCReadAhead -----------------------------
(* Instances of ReadAhead for TLC. *)
EXTENDS ReadAhead, TLC
CONSTANTS h1, h2
OneReader == {h1}
TwoReaders == {h1, h2}
==============================================================================
