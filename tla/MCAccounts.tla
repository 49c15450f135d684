----------------------------- MODULE MCAccounts -----------------------------
(***************************************************************************)
(* An instance of Accounts for TLC: two spellings of one address,          *)
(* another address, and one that is none.                                  *)
(***************************************************************************)
EXTENDS Accounts, TLC

CONSTANTS a, A, b, x

MCSpellings == {a, A, b, x}
MCNormal == (a :> a) @@ (A :> a) @@ (b :> b) @@ (x :> None)
MCSymmetry == Permutations(Calls)
=============================================================================
