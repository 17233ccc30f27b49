-------------------------- MODULE MC_AccountingPool --------------------------
(***************************************************************************)
(* Two workers and three transactions of one user; two of them want the    *)
(* same category, which does not exist yet, the third one a known one.     *)
(***************************************************************************)
EXTENDS AccountingPool, TLC

CONSTANTS t1, t2, t3, user, income, expense

MCTrxs == <<t1, t2, t3>>
MCToken == {user}
MCName == {income, expense}
MCKnown == {expense}
MCTokenOf == [t \in {t1, t2, t3} |-> user]
MCNameOf == (t1 :> income) @@ (t2 :> expense) @@ (t3 :> income)
MCDryRuns == BOOLEAN
MCFaults == Kinds
=============================================================================
