---------------------------- MODULE MCProxySessions ----------------------------
(* Instances of ProxySessions for TLC: small sets of interchangeable threads. *)
EXTENDS ProxySessions, TLC
CONSTANTS p1, p2, g1, g2
TwoPlays == {p1, p2}
TwoHandlers == {g1, g2}
OneHandler == {g1}
AllKinds == [p \in TwoPlays |-> {"proxy", "remux", "hls"}]
AllRemux == [p \in TwoPlays |-> {"remux"}]
AllHls == [p \in TwoPlays |-> {"hls"}]
HlsAndRemux == [p \in TwoPlays |-> IF p = p1 THEN {"hls"} ELSE {"remux"}]
Interchangeable == Permutations(TwoPlays) \union Permutations(TwoHandlers)
================================================================================
