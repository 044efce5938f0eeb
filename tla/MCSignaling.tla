---------------------------- MODULE MCSignaling ----------------------------
EXTENDS SignalingProcessor
MCInitialValue == <<0, 1>>
=============================================================================
