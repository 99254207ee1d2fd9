------------------------------ MODULE MCSignerLink ------------------------------
EXTENDS SignerLinkProperties
=============================================================================
