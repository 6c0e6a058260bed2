----------------------------- MODULE MCCallLink -----------------------------
EXTENDS CallLink
=============================================================================
