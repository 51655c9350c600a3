------------------------------ MODULE MCSuites ------------------------------
\* Two tests in turn; budgets at the edges of the network and fio arithmetic.
EXTENDS Suites

MCBudgets == {5, 15, 16, 61, 605, 3601}
=============================================================================
