------------------------- MODULE MCDownloadTracking -------------------------
(* Two downloads: of one issue, or of an issue each.                         *)
EXTENDS DownloadTracking

CONSTANTS d1, d2

MoveAndRemove == [transfer |-> "move", remove |-> TRUE]
CopyAndKeep   == [transfer |-> "copy", remove |-> FALSE]

Usual  == {MoveAndRemove, CopyAndKeep}

OneIssue  == [d \in Download |-> "issue"]
=============================================================================
