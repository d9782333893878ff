----------------------------- MODULE MCSyncJobs -----------------------------
(* Small instances of SyncJobs for TLC. *)
EXTENDS SyncJobs, TLC

Symmetry ==
    UNION {Permutations(JobIds), Permutations(AccountIds), Permutations(FtIds),
           Permutations(Keys)}

=============================================================================
