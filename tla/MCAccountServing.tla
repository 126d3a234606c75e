-------------------------- MODULE MCAccountServing --------------------------
EXTENDS AccountServing

MCModes == {"none", "restore"}
MCChanges == {<<"none", "restore">>}

\* Identifiers and timestamps in another order.
MCTables == {<<0, 1, 0>>}
=============================================================================
