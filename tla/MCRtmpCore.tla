----------------------------- MODULE MCRtmpCore -----------------------------
EXTENDS RtmpCore

(* What the encoders emit: parameter sets with a key frame, and without a   *)
(* PPS behind a NAL that write_video_frame does not know.  P slices take    *)
(* the same steps as key frames.                                            *)
MCPackets == {<<"SPS", "PPS", "IDR">>, <<"other", "SPS">>}

(* The properties of the sessions run say nothing once the caller has been  *)
(* disorderly: such a state is checked and not explored further.  After     *)
(* calls that met on a queue the session is followed and not the next one.  *)
Orderly == ~disorder /\ (met = {} \/ opens < MaxOpens)

=============================================================================
