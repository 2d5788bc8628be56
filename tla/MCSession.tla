------------------------------ MODULE MCSession ------------------------------
EXTENDS Session, MCTables
=============================================================================
