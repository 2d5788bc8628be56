------------------------------ MODULE MCLines ------------------------------
EXTENDS Lines
=============================================================================
