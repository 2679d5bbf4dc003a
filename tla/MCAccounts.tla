----------------------------- MODULE MCAccounts -----------------------------
(* Two runs of the script, four logins and one request; the runs and the  *)
(* logins differ by their names only.                                      *)
EXTENDS Accounts, TLC

MCSymmetry == Permutations(Installs) \cup Permutations(Logins)
=============================================================================
