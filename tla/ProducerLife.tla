---------------------------- MODULE ProducerLife ----------------------------
(***************************************************************************)
(* What a session sees of its HLS producer, and all that ProxySessions     *)
(* assumes of one: ffmpeg starts, ends and is restarted until the producer *)
(* is closed, and a closed producer stays closed.                          *)
(***************************************************************************)
VARIABLE life   \* "idle" (no ffmpeg), "running" or "closed"

Init == life = "idle"

Start == life = "idle" /\ life' = "running"
Exit == life = "running" /\ life' = "idle"
Close == life \in {"idle", "running"} /\ life' = "closed"

Next == Start \/ Exit \/ Close

Spec == Init /\ [][Next]_life
==============================================================================
