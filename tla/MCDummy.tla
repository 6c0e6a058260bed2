------------------------------ MODULE MCDummy ------------------------------
EXTENDS DummyBackend
=============================================================================
