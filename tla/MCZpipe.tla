------------------------------ MODULE MCZpipe ------------------------------
EXTENDS Zpipe
=============================================================================
