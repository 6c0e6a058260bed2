---------------------------- MODULE MCSpeechMsgs ----------------------------
EXTENDS SpeechMsgs
=============================================================================
