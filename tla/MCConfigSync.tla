----------------------------- MODULE MCConfigSync -----------------------------
EXTENDS ConfigSync
=============================================================================
