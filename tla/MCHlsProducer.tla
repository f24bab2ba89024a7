---------------------------- MODULE MCHlsProducer ----------------------------
(* Instances of HlsProducer for TLC. *)
EXTENDS HlsProducer, TLC
CONSTANTS h1, h2
OneHandler == {h1}
TwoHandlers == {h1, h2}
==============================================================================
