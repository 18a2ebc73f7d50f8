---------------------------- MODULE FrameChannel ----------------------------
(***************************************************************************)
(* What a stage of the pipeline promises to the stages around it: while it *)
(* is open it accepts frames, and it hands on what it accepted, in the     *)
(* order it accepted it, each frame at most once.  Closing may leave       *)
(* accepted frames behind; it never lets a new one in.                     *)
(***************************************************************************)
EXTENDS Naturals, Sequences

CONSTANT Frames

VARIABLES open, sent, got
vars == <<open, sent, got>>

Init == open \in BOOLEAN /\ sent = <<>> /\ got = <<>>

Open  == ~open /\ open' = TRUE /\ UNCHANGED <<sent, got>>
Close == open /\ open' = FALSE /\ UNCHANGED <<sent, got>>

Send(f) == open /\ sent' = Append(sent, f) /\ UNCHANGED <<open, got>>

Deliver ==
  /\ Len(got) < Len(sent)
  /\ got' = Append(got, sent[Len(got) + 1])
  /\ UNCHANGED <<open, sent>>

Next == Open \/ Close \/ Deliver \/ \E f \in Frames : Send(f)

Spec == Init /\ [][Next]_vars

=============================================================================
