---------------------------- MODULE MCCommitView ----------------------------
(* The instances of CommitView that TLC checks: without untracked files,    *)
(* which the view treats like changed ones.                                 *)
EXTENDS CommitView, TLC

SomeListings == {{}, {"staged"}, {"changes"}, {"staged", "changes"}, {"conflicts"}}

=============================================================================
