------------------------------ MODULE TableOps ------------------------------
(***************************************************************************)
(* What one hash-table operation does to the contents of the table, when   *)
(* it runs alone.  The contents are a bag of strings: a chain keeps every  *)
(* inserted copy (hash.cpp, insert appends without looking) and remove     *)
(* erases one copy at most, so a string has a number of copies and the     *)
(* order of a chain is not observable through read and remove.             *)
(***************************************************************************)
EXTENDS Naturals

\* enum OperationType.
Ops == {"INSERT", "READ", "DELETE"}

\* The bag after operation op on the string s.
After(bag, op, s) ==
  CASE op = "INSERT" -> [bag EXCEPT ![s] = @ + 1]
    [] op = "DELETE" -> [bag EXCEPT ![s] = IF @ > 0 THEN @ - 1 ELSE 0]
    [] OTHER         -> bag

\* Whether read finds the string s.
Present(bag, s) == bag[s] > 0
=============================================================================
