------------------------------ MODULE MCUserStream ------------------------------
EXTENDS UserStreamProperties
=============================================================================
