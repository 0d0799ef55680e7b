---------------------------- MODULE MCBoardCache ----------------------------
(* Values for the runs of BoardCache.                                      *)
EXTENDS BoardCache, TLC

AnyMode == {NoFilter}

(* Names an operator may give a mode: only their length is checked.        *)
AwkwardFilters == {NoFilter, "all", "daily"}

=============================================================================
