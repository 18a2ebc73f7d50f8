----------------------------- MODULE MCRoutines -----------------------------
(* The sequential routines of the repository, one of them in each behaviour: *)
(* they share nothing, and each starts from its own initial state.           *)
EXTENDS FileEncode, YuvFrames, FlvTags, ActivityStack

(* Parameter sets, slices, a unit of another type, an empty one, and one    *)
(* with zeros that is not a start code.                                     *)
MCPayloads == {<<103, 66>>, <<104>>, <<101, 0, 0, 2>>, <<65>>, <<>>}

MCActivities == {"home1", "home2", "camera1", "camera2"}
MCClassOf(a) == IF a \in {"home1", "home2"} THEN "Home" ELSE "Camera"

vars == <<flvVars, fileVars, yuvVars, stackVars>>

Init == FlvInit /\ FileInit /\ YuvInit /\ StackInit

FlvIdle == writer = "idle"
FileIdle == conv = "idle"
YuvIdle == frame = "idle"
StackIdle == created = {}

Next ==
  \/ /\ FileIdle /\ YuvIdle /\ StackIdle
     /\ FlvNext
     /\ UNCHANGED <<fileVars, yuvVars, stackVars>>
  \/ /\ FlvIdle /\ YuvIdle /\ StackIdle
     /\ FileNext
     /\ UNCHANGED <<flvVars, yuvVars, stackVars>>
  \/ /\ FlvIdle /\ FileIdle /\ StackIdle
     /\ YuvNext
     /\ UNCHANGED <<flvVars, fileVars, stackVars>>
  \/ /\ FlvIdle /\ FileIdle /\ YuvIdle
     /\ StackNext
     /\ UNCHANGED <<flvVars, fileVars, yuvVars>>

Spec == Init /\ [][Next]_vars

=============================================================================
