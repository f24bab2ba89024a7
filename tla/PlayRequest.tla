----------------------------- MODULE PlayRequest -----------------------------
(***************************************************************************)
(* What Kodi sees of one play request: it is answered once and for all,    *)
(* with a stream or without, and backup uploads are fetched on its behalf  *)
(* only while it is open or after it was answered with a stream.           *)
(***************************************************************************)
VARIABLES answer, backups

Init == answer = "none" /\ backups = "off"

FetchBackups == answer = "none" /\ backups = "off" /\ backups' = "on" /\ UNCHANGED answer
Accept == answer = "none" /\ answer' = "stream" /\ UNCHANGED backups
Refuse == answer = "none" /\ answer' = "refused" /\ backups' \in {"off", "withdrawn"}
          /\ (backups = "on" => backups' = "withdrawn")

Next == FetchBackups \/ Accept \/ Refuse

Spec == Init /\ [][Next]_<<answer, backups>>
==============================================================================
