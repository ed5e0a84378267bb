--------------------------- MODULE MCVoiceContact ---------------------------
(***************************************************************************)
(* The instance of VoiceContact for TLC.  The attempts of the activity are *)
(* interchangeable.                                                        *)
(***************************************************************************)
EXTENDS VoiceContact, TLC

MCEvents == ({ActionKey} \X {"RINGING", "LIVE_OPT_OUT", "POST_CALL_OPT_OUT"})
            \cup (ApiKeys \X {"TRANSCRIPT_OPT_OUT"})

Symmetry == Permutations(Activities)
=============================================================================
