--------------------------- MODULE MCPassthrough ---------------------------
(* Instances of Passthrough for TLC.  p is the primary; a and b are         *)
(* byte-identical backups, x is another file of the same length, d a        *)
(* standby whose job fails.                                                 *)
EXTENDS Passthrough, TLC

PoolNone == <<>>
PoolA == <<"a">>
PoolB == <<"b">>
PoolD == <<"d">>
PoolX == <<"x">>
PoolAX == <<"a", "x">>

HandlerSymmetry == Permutations(Handlers)
=============================================================================
