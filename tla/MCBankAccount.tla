--------------------------- MODULE MCBankAccount ---------------------------
(* Two accounts and two goroutines for BankAccount. *)
EXTENDS BankAccount

CONSTANTS a1, a2, t1, t2

MCAccounts == {a1, a2}
MCThreads == {t1, t2}

\* Distinct IDs, a1's the smaller; a1 keeps a minimum of 1.
MCID == [a \in MCAccounts |-> IF a = a1 THEN 1 ELSE 2]
MCMinBalance == [a \in MCAccounts |-> IF a = a1 THEN 1 ELSE 0]

\* Transfers both ways between the two accounts.
MCTransferPairs == {<<a1, a2>>, <<a2, a1>>}

\* Equal IDs for the two accounts.
MCEqualID == [a \in MCAccounts |-> 1]

\* Transfers that include a transfer of a1 to itself.
MCSelfTransferPairs == {<<a1, a2>>, <<a1, a1>>}
\* The amounts passed: a negative one, a zero, valid ones and one over the limit.
MCAmounts == {-1, 0, 1, 2, 3}
=============================================================================
