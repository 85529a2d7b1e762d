---------------------------- MODULE MCVaultStore ----------------------------
(* Small instances of VaultStore for TLC. *)
EXTENDS VaultStore
CONSTANTS u1, u2
OneThread == {u1}
TwoThreads == {u1, u2}
OnePassword == {"p"}
TwoPasswords == {"p", "q"}
=============================================================================
