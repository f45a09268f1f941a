------------------------------ MODULE MCNonces ------------------------------
EXTENDS Nonces
=============================================================================
