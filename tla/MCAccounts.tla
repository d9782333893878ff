----------------------------- MODULE MCAccounts -----------------------------
(* Small instances of Accounts for TLC. *)
EXTENDS Accounts, TLC

Symmetry ==
    UNION {Permutations(AccountIds), Permutations(Emails), Permutations(FtIds),
           Permutations(Tokens), Permutations(Sids), Permutations(Reqs)}

=============================================================================
