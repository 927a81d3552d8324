---------------------------- MODULE MCVoiceLoop ----------------------------
EXTENDS VoiceLoop
=============================================================================
