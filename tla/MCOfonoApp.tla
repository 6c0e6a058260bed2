----------------------------- MODULE MCOfonoApp -----------------------------
EXTENDS OfonoApp
=============================================================================
