------------------------------- MODULE Tables -------------------------------
(***************************************************************************)
(* The rows of a database table, as a function from the key of each row    *)
(* that is present to the row.  The statements that the metadata store     *)
(* sends (INSERT, DELETE, and UPDATE with a WHERE clause) are written with *)
(* these operators.                                                        *)
(***************************************************************************)
EXTENDS FiniteSets

\* A table with no row.
EmptyTable == [k \in {} |-> k]

\* The table t after INSERT of `row` under the key k (k is not in t).
InsertRow(t, k, row) ==
    [j \in DOMAIN t \cup {k} |-> IF j = k THEN row ELSE t[j]]

\* The table t after DELETE of the rows whose keys are in S.
DeleteRows(t, S) == [j \in DOMAIN t \ S |-> t[j]]

\* t is a table with finitely many rows; its keys are in K, its rows in R.
IsTable(t, K, R) ==
    /\ IsFiniteSet(DOMAIN t)
    /\ DOMAIN t \subseteq K
    /\ t = [k \in DOMAIN t |-> t[k]]
    /\ \A k \in DOMAIN t : t[k] \in R
=============================================================================
