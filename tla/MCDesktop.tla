----------------------------- MODULE MCDesktop ------------------------------
EXTENDS Desktop, TLC
=============================================================================
