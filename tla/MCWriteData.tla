---------------------------- MODULE MCWriteData -----------------------------
EXTENDS WriteData
=============================================================================
