---------------------------- MODULE MCVoiceLoop -----------------------------
(* Instance of VoiceLoop for TLC.                                            *)
EXTENDS VoiceLoop

CONSTANTS l1, l2, l3, l4, l5, l6

MCListeners == {l1, l2, l3, l4, l5, l6}
MCFewListeners == {l1, l2}
=============================================================================
