-------------------------- MODULE MCSpeechLibrary --------------------------
EXTENDS SpeechLibrary
=============================================================================
