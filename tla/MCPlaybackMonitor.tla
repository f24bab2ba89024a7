-------------------------- MODULE MCPlaybackMonitor --------------------------
(* Instances of PlaybackMonitor for TLC: the releases are model values. *)
EXTENDS PlaybackMonitor, TLC

CONSTANTS r1, r2
OneRelease == {r1}
TwoReleases == {r1, r2}

\* nzbdav.playing is written here and read by nobody but the backup worker.
WithoutFlag == <<kodi, store, asked, plug, rel, props, mon, tick, call, history>>
==============================================================================
