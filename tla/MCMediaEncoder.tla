--------------------------- MODULE MCMediaEncoder ---------------------------
(* Each recording of the video encoder, seen as a channel of frames.       *)
EXTENDS MediaEncoder

FrameNumbers(items) == [i \in 1..Len(items) |-> items[i].n]

Submitted(s) == FrameNumbers(encoded[s])
InHand(s) == IF pc[s] = "encode" THEN <<held[s].n>> ELSE <<>>

Channel(s) == INSTANCE FrameChannel WITH
                Frames <- 1..MaxPushes,
                open   <- recording /\ session = s,
                sent   <- Submitted(s) \o InHand(s) \o FrameNumbers(queue[s]),
                got    <- Submitted(s)

(* Until the threads of two recordings overlap, every recording of the     *)
(* video encoder is a channel: the frames pushed between its two clicks    *)
(* reach the codec in order, none twice and none skipped, and none is      *)
(* accepted after the second click.                                        *)
ImplementsChannel ==
  /\ \A s \in Sessions : Channel(s)!Init
  /\ [][overlap' \/ \A s \in Sessions :
                       [Channel(s)!Next]_(Channel(s)!vars)]_vars

=============================================================================
