----------------------------- MODULE MCUploader -----------------------------
(* Two small instances of Uploader.  Two targets share one session of two   *)
(* entries sent in batches of one; one target works through two sessions.   *)
EXTENDS Uploader

Enabled(e, c) == [enabled |-> e, configured |-> c]

OneFile == {1}
TwoEntries == <<3>>
TwoTargets == {1, 2}
SharedConfigs == {Enabled({1, 2}, {1, 2}), Enabled({1, 2}, {1}), Enabled({2}, {2}), Enabled({}, {})}

TwoFiles == {1, 2}
OneEntryAndNone == <<2, 1>>
OneTarget == {1}
QueueConfigs == {Enabled({1}, {1}), Enabled({1}, {})}
=============================================================================
