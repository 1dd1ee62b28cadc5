-------------------------- MODULE MCProviderBondVault --------------------------
(* Model checking of ProviderBondVault: two accounts, either of which owns   *)
(* the vault, bonds and manages it, and two covenants.  Accounts are         *)
(* interchangeable, and so are covenants.                                    *)
EXTENDS ProviderBondVault, TLC

Symmetry == Permutations(Covenant) \cup Permutations(External)
===============================================================================
