------------------------------- MODULE MCPipe -------------------------------
EXTENDS Pipe, MCTables
=============================================================================
