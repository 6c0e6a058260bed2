------------------------------ MODULE MCDlPath ------------------------------
EXTENDS DlPath
=============================================================================
