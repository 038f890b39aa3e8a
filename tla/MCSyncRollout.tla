--------------------------- MODULE MCSyncRollout ---------------------------
(* SyncRollout on small instances; the cfg files give the constants.       *)
EXTENDS SyncRollout

=============================================================================
