---------------------------- MODULE MCIssueSync ----------------------------
(* Small instances of IssueSync for TLC.                                   *)
EXTENDS IssueSync, TLC
=============================================================================
