----------------------------- MODULE AdminUsersMC -----------------------------
(* AdminUsers for TLC: the operations are interchangeable.                  *)
EXTENDS AdminUsers, TLC

Interchangeable == Permutations(Ops)

===============================================================================
