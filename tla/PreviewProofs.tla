---------------------------- MODULE PreviewProofs ----------------------------
(***************************************************************************)
(* Preview for every number of callbacks and of clicks, and every set of   *)
(* preview sizes: what can crash the camera screen, and, as long as the UI *)
(* thread and the GL thread do not meet at the camera, that one camera at  *)
(* most is open, that it is given up in a pause, and that what is drawn is *)
(* what it previews.                                                       *)
(***************************************************************************)
EXTENDS Preview, SequenceTheorems, TLAPS

-----------------------------------------------------------------------------
(* Places: the steps a callback has left.                                  *)

(* The steps a callback is made of.                                        *)
Steps == {"open", "configure", "texture", "start", "test", "stop", "clear",
          "glResume", "waitResume", "glPause", "waitPause", "dropLoader",
          "releaseTexture", "releaseRenderer", "manager", "createTexture", "share",
          "imageSize", "displaySize", "draw", "picture", "resetTake"}

(* The callbacks of the UI thread.                                         *)
ResumeSteps  == SetUp \o <<"glResume", "waitResume">>
PauseSteps   == Release \o <<"glPause", "waitPause">>
SwitchSteps  == Release \o SetUp
DestroySteps == Release \o <<"dropLoader", "releaseTexture", "releaseRenderer">>

(* What a callback may still have to do: a suffix of it.                   *)
Suffixes(p) == {SubSeq(p, k, Len(p)) : k \in 1..(Len(p) + 1)}

(* The UI thread is inside one of its callbacks, the GL thread inside      *)
(* onSurfaceCreated or the frame that ends it.                             *)
Places ==
  /\ todo \in [Threads -> Seq(Steps)]
  /\ todo["ui"] \in Suffixes(ResumeSteps) \cup Suffixes(PauseSteps)
                    \cup Suffixes(SwitchSteps) \cup Suffixes(DestroySteps)
  /\ todo["gl"] \in Suffixes(SurfaceCreated)

(* How many steps are left, and which of the UI thread's callbacks they    *)
(* end: the last step tells.                                               *)
UILeft    == Len(todo["ui"])
GLLeft    == Len(todo["gl"])
UIProgram == IF todo["ui"] = <<>> THEN "none" ELSE todo["ui"][Len(todo["ui"])]

-----------------------------------------------------------------------------

(* A sequence without its first n elements.                                *)
LEMMA RestOf ==
  ASSUME NEW S, NEW s \in Seq(S), NEW n \in Nat, n <= Len(s),
         NEW r, r = SubSeq(s, n + 1, Len(s))
  PROVE  /\ r \in Seq(S) /\ Len(r) = Len(s) - n
         /\ \A i \in 1..(Len(s) - n) : r[i] = s[n + i]
OBVIOUS

(* The empty sequence is the one of length 0.                              *)
LEMMA Emptiness ==
  ASSUME NEW S, NEW s \in Seq(S)
  PROVE  /\ Len(s) \in Nat
         /\ s = <<>> <=> Len(s) = 0
         /\ s # <<>> => Head(s) = s[1]
<1>1. Len(s) \in Nat /\ (s = <<>> <=> Len(s) = 0)
  BY EmptySeq, LenProperties
<1>2. s # <<>> => Head(s) = s[1]
  OBVIOUS
<1>. QED
  BY <1>1, <1>2

(* The elements of a suffix.                                               *)
LEMMA SuffixOf ==
  ASSUME NEW S, NEW p \in Seq(S), NEW s \in Suffixes(p)
  PROVE  /\ s \in Seq(S) /\ Len(s) \in 0..Len(p)
         /\ \A i \in 1..Len(s) : s[i] = p[Len(p) - Len(s) + i]
<1>1. PICK k \in 1..(Len(p) + 1) : s = SubSeq(p, k, Len(p))
  BY DEF Suffixes
<1>2. /\ s \in Seq(S) /\ Len(s) = Len(p) - k + 1
      /\ \A i \in 1..Len(s) : s[i] = p[k + i - 1]
  BY <1>1
<1>. QED
  BY <1>2

(* A suffix of a suffix is one.                                            *)
LEMMA SuffixRest ==
  ASSUME NEW S, NEW p \in Seq(S), NEW s \in Suffixes(p), NEW n \in Nat, n <= Len(s)
  PROVE  SubSeq(s, n + 1, Len(s)) \in Suffixes(p)
<1>1. PICK k \in 1..(Len(p) + 1) : s = SubSeq(p, k, Len(p))
  BY DEF Suffixes
<1>2. /\ s \in Seq(S) /\ Len(s) = Len(p) - k + 1
      /\ \A i \in 1..Len(s) : s[i] = p[k + i - 1]
  BY <1>1
<1>3. k + n \in 1..(Len(p) + 1)
  BY <1>2
<1>4. SubSeq(s, n + 1, Len(s)) = SubSeq(p, k + n, Len(p))
  BY <1>2, <1>3
<1>. QED
  BY <1>3, <1>4 DEF Suffixes

(* A sequence is a suffix of itself, and so is the empty one.              *)
LEMMA SuffixEnds ==
  ASSUME NEW S, NEW p \in Seq(S)
  PROVE  p \in Suffixes(p) /\ <<>> \in Suffixes(p)
<1>1. p = SubSeq(p, 1, Len(p)) /\ <<>> = SubSeq(p, Len(p) + 1, Len(p))
  OBVIOUS
<1>. QED
  BY <1>1 DEF Suffixes

(* The elements of two sequences joined.                                   *)
LEMMA Joined ==
  ASSUME NEW S, NEW a \in Seq(S), NEW b \in Seq(S), NEW r, r = a \o b
  PROVE  /\ r \in Seq(S) /\ Len(r) = Len(a) + Len(b)
         /\ \A i \in 1..Len(a) : r[i] = a[i]
         /\ \A i \in (Len(a) + 1)..(Len(a) + Len(b)) : r[i] = b[i - Len(a)]
OBVIOUS

(* The callbacks step by step, read from the sequences of Preview.         *)
LEMMA PartsAre ==
  /\ SetUp \in Seq(Steps) /\ Len(SetUp) = 4
  /\ SetUp[1] = "open" /\ SetUp[2] = "configure"
  /\ SetUp[3] = "texture" /\ SetUp[4] = "start"
  /\ Release \in Seq(Steps) /\ Len(Release) = 3
  /\ Release[1] = "test" /\ Release[2] = "stop" /\ Release[3] = "clear"
  /\ DrawFrame \in Seq(Steps) /\ Len(DrawFrame) = 3
  /\ DrawFrame[1] = "draw" /\ DrawFrame[2] = "picture" /\ DrawFrame[3] = "resetTake"
<1>. DEFINE S == Steps
<1>1. /\ "open" \in S /\ "configure" \in S /\ "texture" \in S /\ "start" \in S
      /\ "test" \in S /\ "stop" \in S /\ "clear" \in S
      /\ "draw" \in S /\ "picture" \in S /\ "resetTake" \in S
  BY DEF Steps
<1>. HIDE DEF S
<1>2. /\ SetUp \in Seq(S) /\ Len(SetUp) = 4
      /\ Release \in Seq(S) /\ Len(Release) = 3
      /\ DrawFrame \in Seq(S) /\ Len(DrawFrame) = 3
  BY <1>1 DEF SetUp, Release, DrawFrame
<1>3. /\ SetUp[1] = "open" /\ SetUp[2] = "configure"
      /\ SetUp[3] = "texture" /\ SetUp[4] = "start"
      /\ Release[1] = "test" /\ Release[2] = "stop" /\ Release[3] = "clear"
      /\ DrawFrame[1] = "draw" /\ DrawFrame[2] = "picture" /\ DrawFrame[3] = "resetTake"
  BY DEF SetUp, Release, DrawFrame
<1>. QED
  BY <1>2, <1>3 DEF S

(* GLCameraActivity.onResume.                                              *)
LEMMA ResumeAre ==
  /\ ResumeSteps \in Seq(Steps) /\ Len(ResumeSteps) = 6
  /\ ResumeSteps[1] = "open" /\ ResumeSteps[2] = "configure"
  /\ ResumeSteps[3] = "texture" /\ ResumeSteps[4] = "start"
  /\ ResumeSteps[5] = "glResume" /\ ResumeSteps[6] = "waitResume"
<1>. DEFINE S == Steps
            a == SetUp
            b == <<"glResume", "waitResume">>
            r == a \o b
<1>1. "glResume" \in S /\ "waitResume" \in S
  BY DEF Steps
<1>. HIDE DEF S
<1>2. b \in Seq(S) /\ Len(b) = 2 /\ b[1] = "glResume" /\ b[2] = "waitResume"
  BY <1>1
<1>. HIDE DEF a, b
<1>3. a \in Seq(S) /\ Len(a) = 4
  BY PartsAre DEF a, S
<1>4. r = ResumeSteps
  BY DEF ResumeSteps, a, b
<1>5. r = a \o b
  OBVIOUS
<1>. HIDE DEF r
<1>6. a \in Seq(S) /\ b \in Seq(S)
  BY <1>2, <1>3
<1>7. /\ r \in Seq(S) /\ Len(r) = Len(a) + Len(b)
      /\ \A i \in 1..Len(a) : r[i] = a[i]
      /\ \A i \in (Len(a) + 1)..(Len(a) + Len(b)) : r[i] = b[i - Len(a)]
  BY <1>6, <1>5, Joined
<1>8. /\ r \in Seq(S) /\ Len(r) = 6
      /\ \A i \in 1..4 : r[i] = a[i]
      /\ \A i \in 5..6 : r[i] = b[i - 4]
  BY <1>2, <1>3, <1>7
<1>9. /\ r[1] = a[1] /\ r[2] = a[2] /\ r[3] = a[3] /\ r[4] = a[4]
  BY <1>8
<1>10. /\ r[5] = b[1] /\ r[6] = b[2]
  BY <1>8
<1>. QED
  BY <1>2, <1>4, <1>8, <1>9, <1>10, PartsAre DEF S, a

(* GLCameraActivity.onPause.                                               *)
LEMMA PauseAre ==
  /\ PauseSteps \in Seq(Steps) /\ Len(PauseSteps) = 5
  /\ PauseSteps[1] = "test" /\ PauseSteps[2] = "stop" /\ PauseSteps[3] = "clear"
  /\ PauseSteps[4] = "glPause" /\ PauseSteps[5] = "waitPause"
<1>. DEFINE S == Steps
            a == Release
            b == <<"glPause", "waitPause">>
            r == a \o b
<1>1. "glPause" \in S /\ "waitPause" \in S
  BY DEF Steps
<1>. HIDE DEF S
<1>2. b \in Seq(S) /\ Len(b) = 2 /\ b[1] = "glPause" /\ b[2] = "waitPause"
  BY <1>1
<1>. HIDE DEF a, b
<1>3. a \in Seq(S) /\ Len(a) = 3
  BY PartsAre DEF a, S
<1>4. r = PauseSteps
  BY DEF PauseSteps, a, b
<1>5. r = a \o b
  OBVIOUS
<1>. HIDE DEF r
<1>6. a \in Seq(S) /\ b \in Seq(S)
  BY <1>2, <1>3
<1>7. /\ r \in Seq(S) /\ Len(r) = Len(a) + Len(b)
      /\ \A i \in 1..Len(a) : r[i] = a[i]
      /\ \A i \in (Len(a) + 1)..(Len(a) + Len(b)) : r[i] = b[i - Len(a)]
  BY <1>6, <1>5, Joined
<1>8. /\ r \in Seq(S) /\ Len(r) = 5
      /\ \A i \in 1..3 : r[i] = a[i]
      /\ \A i \in 4..5 : r[i] = b[i - 3]
  BY <1>2, <1>3, <1>7
<1>9. /\ r[1] = a[1] /\ r[2] = a[2] /\ r[3] = a[3]
  BY <1>8
<1>10. /\ r[4] = b[1] /\ r[5] = b[2]
  BY <1>8
<1>. QED
  BY <1>2, <1>4, <1>8, <1>9, <1>10, PartsAre DEF S, a

(* Camera1Loader.switchCamera.                                             *)
LEMMA SwitchAre ==
  /\ SwitchSteps \in Seq(Steps) /\ Len(SwitchSteps) = 7
  /\ SwitchSteps[1] = "test" /\ SwitchSteps[2] = "stop" /\ SwitchSteps[3] = "clear"
  /\ SwitchSteps[4] = "open" /\ SwitchSteps[5] = "configure"
  /\ SwitchSteps[6] = "texture" /\ SwitchSteps[7] = "start"
<1>. DEFINE S == Steps
            a == Release
            b == SetUp
            r == a \o b
<1>1. /\ a \in Seq(S) /\ Len(a) = 3 /\ b \in Seq(S) /\ Len(b) = 4
      /\ a[1] = "test" /\ a[2] = "stop" /\ a[3] = "clear"
      /\ b[1] = "open" /\ b[2] = "configure" /\ b[3] = "texture" /\ b[4] = "start"
  BY PartsAre
<1>. HIDE DEF S, a, b
<1>2. r = SwitchSteps
  BY DEF SwitchSteps, a, b
<1>3. r = a \o b
  OBVIOUS
<1>. HIDE DEF r
<1>4. a \in Seq(S) /\ b \in Seq(S)
  BY <1>1
<1>5. /\ r \in Seq(S) /\ Len(r) = Len(a) + Len(b)
      /\ \A i \in 1..Len(a) : r[i] = a[i]
      /\ \A i \in (Len(a) + 1)..(Len(a) + Len(b)) : r[i] = b[i - Len(a)]
  BY <1>4, <1>3, Joined
<1>6. /\ r \in Seq(S) /\ Len(r) = 7
      /\ \A i \in 1..3 : r[i] = a[i]
      /\ \A i \in 4..7 : r[i] = b[i - 3]
  BY <1>1, <1>5
<1>7. /\ r[1] = a[1] /\ r[2] = a[2] /\ r[3] = a[3]
  BY <1>6
<1>8. /\ r[4] = b[1] /\ r[5] = b[2] /\ r[6] = b[3] /\ r[7] = b[4]
  BY <1>6
<1>. QED
  BY <1>1, <1>2, <1>6, <1>7, <1>8 DEF S

(* GLCameraActivity.onDestroy.                                             *)
LEMMA DestroyAre ==
  /\ DestroySteps \in Seq(Steps) /\ Len(DestroySteps) = 6
  /\ DestroySteps[1] = "test" /\ DestroySteps[2] = "stop" /\ DestroySteps[3] = "clear"
  /\ DestroySteps[4] = "dropLoader" /\ DestroySteps[5] = "releaseTexture"
  /\ DestroySteps[6] = "releaseRenderer"
<1>. DEFINE S == Steps
            a == Release
            b == <<"dropLoader", "releaseTexture", "releaseRenderer">>
            r == a \o b
<1>1. "dropLoader" \in S /\ "releaseTexture" \in S /\ "releaseRenderer" \in S
  BY DEF Steps
<1>. HIDE DEF S
<1>2. /\ b \in Seq(S) /\ Len(b) = 3
      /\ b[1] = "dropLoader" /\ b[2] = "releaseTexture" /\ b[3] = "releaseRenderer"
  BY <1>1
<1>. HIDE DEF a, b
<1>3. a \in Seq(S) /\ Len(a) = 3
  BY PartsAre DEF a, S
<1>4. r = DestroySteps
  BY DEF DestroySteps, a, b
<1>5. r = a \o b
  OBVIOUS
<1>. HIDE DEF r
<1>6. a \in Seq(S) /\ b \in Seq(S)
  BY <1>2, <1>3
<1>7. /\ r \in Seq(S) /\ Len(r) = Len(a) + Len(b)
      /\ \A i \in 1..Len(a) : r[i] = a[i]
      /\ \A i \in (Len(a) + 1)..(Len(a) + Len(b)) : r[i] = b[i - Len(a)]
  BY <1>6, <1>5, Joined
<1>8. /\ r \in Seq(S) /\ Len(r) = 6
      /\ \A i \in 1..3 : r[i] = a[i]
      /\ \A i \in 4..6 : r[i] = b[i - 3]
  BY <1>2, <1>3, <1>7
<1>9. /\ r[1] = a[1] /\ r[2] = a[2] /\ r[3] = a[3]
  BY <1>8
<1>10. /\ r[4] = b[1] /\ r[5] = b[2] /\ r[6] = b[3]
  BY <1>8
<1>. QED
  BY <1>2, <1>4, <1>8, <1>9, <1>10, PartsAre DEF S, a

(* GLImageRenderer.onSurfaceCreated, to its first frame.                   *)
LEMMA SurfaceAre ==
  /\ SurfaceCreated \in Seq(Steps) /\ Len(SurfaceCreated) = 12
  /\ SurfaceCreated[1] = "manager" /\ SurfaceCreated[2] = "createTexture"
  /\ SurfaceCreated[3] = "share" /\ SurfaceCreated[4] = "open"
  /\ SurfaceCreated[5] = "configure" /\ SurfaceCreated[6] = "texture"
  /\ SurfaceCreated[7] = "start" /\ SurfaceCreated[8] = "imageSize"
  /\ SurfaceCreated[9] = "displaySize" /\ SurfaceCreated[10] = "draw"
  /\ SurfaceCreated[11] = "picture" /\ SurfaceCreated[12] = "resetTake"
<1>. DEFINE S == Steps
            a == <<"manager", "createTexture", "share">>
            b == SetUp
            c == <<"imageSize", "displaySize">>
            d == DrawFrame
            q == a \o b
            r == q \o c
            s == r \o d
<1>1. /\ "manager" \in S /\ "createTexture" \in S /\ "share" \in S
      /\ "imageSize" \in S /\ "displaySize" \in S
  BY DEF Steps
<1>2. /\ b \in Seq(S) /\ Len(b) = 4 /\ d \in Seq(S) /\ Len(d) = 3
      /\ b[1] = "open" /\ b[2] = "configure" /\ b[3] = "texture" /\ b[4] = "start"
      /\ d[1] = "draw" /\ d[2] = "picture" /\ d[3] = "resetTake"
  BY PartsAre
<1>. HIDE DEF S
<1>3. /\ a \in Seq(S) /\ Len(a) = 3
      /\ a[1] = "manager" /\ a[2] = "createTexture" /\ a[3] = "share"
      /\ c \in Seq(S) /\ Len(c) = 2 /\ c[1] = "imageSize" /\ c[2] = "displaySize"
  BY <1>1
<1>. HIDE DEF a, b, c, d
<1>4. s = SurfaceCreated
  BY DEF SurfaceCreated, a, b, c, d, q, r, s
<1>5. q = a \o b
  OBVIOUS
<1>. HIDE DEF q
<1>6. a \in Seq(S) /\ b \in Seq(S)
  BY <1>2, <1>3
<1>7. /\ q \in Seq(S) /\ Len(q) = Len(a) + Len(b)
      /\ \A i \in 1..Len(a) : q[i] = a[i]
      /\ \A i \in (Len(a) + 1)..(Len(a) + Len(b)) : q[i] = b[i - Len(a)]
  BY <1>6, <1>5, Joined
<1>8. /\ q \in Seq(S) /\ Len(q) = 7
      /\ \A i \in 1..3 : q[i] = a[i]
      /\ \A i \in 4..7 : q[i] = b[i - 3]
  BY <1>2, <1>3, <1>7
<1>9. /\ q[1] = a[1] /\ q[2] = a[2] /\ q[3] = a[3]
  BY <1>8
<1>10. /\ q[4] = b[1] /\ q[5] = b[2] /\ q[6] = b[3] /\ q[7] = b[4]
  BY <1>8
<1>11. r = q \o c
  OBVIOUS
<1>. HIDE DEF r
<1>12. q \in Seq(S) /\ c \in Seq(S)
  BY <1>3, <1>8
<1>13. /\ r \in Seq(S) /\ Len(r) = Len(q) + Len(c)
       /\ \A i \in 1..Len(q) : r[i] = q[i]
       /\ \A i \in (Len(q) + 1)..(Len(q) + Len(c)) : r[i] = c[i - Len(q)]
  BY <1>12, <1>11, Joined
<1>14. /\ r \in Seq(S) /\ Len(r) = 9
       /\ \A i \in 1..7 : r[i] = q[i]
       /\ \A i \in 8..9 : r[i] = c[i - 7]
  BY <1>3, <1>8, <1>13
<1>15. /\ r[1] = q[1] /\ r[2] = q[2] /\ r[3] = q[3] /\ r[4] = q[4]
       /\ r[5] = q[5] /\ r[6] = q[6] /\ r[7] = q[7]
  BY <1>14
<1>16. /\ r[8] = c[1] /\ r[9] = c[2]
  BY <1>14
<1>17. s = r \o d
  OBVIOUS
<1>. HIDE DEF s
<1>18. r \in Seq(S) /\ d \in Seq(S)
  BY <1>2, <1>14
<1>19. /\ s \in Seq(S) /\ Len(s) = Len(r) + Len(d)
       /\ \A i \in 1..Len(r) : s[i] = r[i]
       /\ \A i \in (Len(r) + 1)..(Len(r) + Len(d)) : s[i] = d[i - Len(r)]
  BY <1>18, <1>17, Joined
<1>20. /\ s \in Seq(S) /\ Len(s) = 12
       /\ \A i \in 1..9 : s[i] = r[i]
       /\ \A i \in 10..12 : s[i] = d[i - 9]
  BY <1>2, <1>14, <1>19
<1>21. /\ s[1] = r[1] /\ s[2] = r[2] /\ s[3] = r[3] /\ s[4] = r[4]
       /\ s[5] = r[5] /\ s[6] = r[6] /\ s[7] = r[7] /\ s[8] = r[8]
       /\ s[9] = r[9]
  BY <1>20
<1>22. /\ s[10] = d[1] /\ s[11] = d[2] /\ s[12] = d[3]
  BY <1>20
<1>. QED
  BY <1>2, <1>3, <1>4, <1>9, <1>10, <1>15, <1>16, <1>20, <1>21, <1>22 DEF S

(* The first and the last step of a non-empty suffix.                      *)
LEMMA ProgramOf ==
  ASSUME NEW p \in Seq(Steps), NEW s \in Suffixes(p), s # <<>>
  PROVE  /\ Len(s) \in 1..Len(p)
         /\ Head(s) = p[Len(p) - Len(s) + 1]
         /\ s[Len(s)] = p[Len(p)]
<1>1. /\ s \in Seq(Steps) /\ Len(s) \in 0..Len(p)
      /\ \A i \in 1..Len(s) : s[i] = p[Len(p) - Len(s) + i]
  BY SuffixOf
<1>2. Len(s) # 0 /\ Head(s) = s[1]
  BY <1>1, Emptiness
<1>3. Len(p) \in Nat
  BY LenProperties
<1>4. Len(s) \in 1..Len(p)
  BY <1>1, <1>2, <1>3
<1>5. s[1] = p[Len(p) - Len(s) + 1]
  BY <1>1, <1>4
<1>6. s[Len(s)] = p[Len(p) - Len(s) + Len(s)]
  BY <1>1, <1>4
<1>7. Len(p) - Len(s) + Len(s) = Len(p)
  BY <1>3, <1>4
<1>. QED
  BY <1>2, <1>4, <1>5, <1>6, <1>7

(* The UI thread is about to take this step of the callback that ends with *)
(* program, with left steps to go.                                         *)
UIAt(step, program, left) ==
  At("ui", step) /\ UIProgram = program /\ UILeft = left

(* Where the UI thread can be.                                             *)
LEMMA UIPlace ==
  ASSUME Places, todo["ui"] # <<>>
  PROVE  \/ \/ UIAt("open", "waitResume", 6) \/ UIAt("configure", "waitResume", 5)
            \/ UIAt("texture", "waitResume", 4) \/ UIAt("start", "waitResume", 3)
            \/ UIAt("glResume", "waitResume", 2) \/ UIAt("waitResume", "waitResume", 1)
         \/ \/ UIAt("test", "waitPause", 5) \/ UIAt("stop", "waitPause", 4)
            \/ UIAt("clear", "waitPause", 3) \/ UIAt("glPause", "waitPause", 2)
            \/ UIAt("waitPause", "waitPause", 1)
         \/ \/ UIAt("test", "start", 7) \/ UIAt("stop", "start", 6)
            \/ UIAt("clear", "start", 5) \/ UIAt("open", "start", 4)
            \/ UIAt("configure", "start", 3) \/ UIAt("texture", "start", 2)
            \/ UIAt("start", "start", 1)
         \/ \/ UIAt("test", "releaseRenderer", 6) \/ UIAt("stop", "releaseRenderer", 5)
            \/ UIAt("clear", "releaseRenderer", 4)
            \/ UIAt("dropLoader", "releaseRenderer", 3)
            \/ UIAt("releaseTexture", "releaseRenderer", 2)
            \/ UIAt("releaseRenderer", "releaseRenderer", 1)
<1>. DEFINE s == todo["ui"]
            n == UILeft
<1>. USE DEF UIAt, At
<1>1. UIProgram = s[Len(s)] /\ n = Len(s)
  BY DEF UIProgram, UILeft
<1>. HIDE DEF s, n
<1>2. CASE s \in Suffixes(ResumeSteps)
  <2>1. /\ n \in 1..6 /\ Head(s) = ResumeSteps[6 - n + 1]
        /\ UIProgram = ResumeSteps[6]
    BY <1>1, <1>2, ProgramOf, ResumeAre DEF s
  <2>2. n = 1 \/ n = 2 \/ n = 3 \/ n = 4 \/ n = 5 \/ n = 6
    BY <2>1
  <2>3. \/ n = 6 /\ Head(s) = ResumeSteps[1]
        \/ n = 5 /\ Head(s) = ResumeSteps[2]
        \/ n = 4 /\ Head(s) = ResumeSteps[3]
        \/ n = 3 /\ Head(s) = ResumeSteps[4]
        \/ n = 2 /\ Head(s) = ResumeSteps[5]
        \/ n = 1 /\ Head(s) = ResumeSteps[6]
    BY <2>1, <2>2
  <2>. QED
    BY <2>1, <2>3, ResumeAre DEF s, n
<1>3. CASE s \in Suffixes(PauseSteps)
  <2>1. /\ n \in 1..5 /\ Head(s) = PauseSteps[5 - n + 1]
        /\ UIProgram = PauseSteps[5]
    BY <1>1, <1>3, ProgramOf, PauseAre DEF s
  <2>2. n = 1 \/ n = 2 \/ n = 3 \/ n = 4 \/ n = 5
    BY <2>1
  <2>3. \/ n = 5 /\ Head(s) = PauseSteps[1]
        \/ n = 4 /\ Head(s) = PauseSteps[2]
        \/ n = 3 /\ Head(s) = PauseSteps[3]
        \/ n = 2 /\ Head(s) = PauseSteps[4]
        \/ n = 1 /\ Head(s) = PauseSteps[5]
    BY <2>1, <2>2
  <2>. QED
    BY <2>1, <2>3, PauseAre DEF s, n
<1>4. CASE s \in Suffixes(SwitchSteps)
  <2>1. /\ n \in 1..7 /\ Head(s) = SwitchSteps[7 - n + 1]
        /\ UIProgram = SwitchSteps[7]
    BY <1>1, <1>4, ProgramOf, SwitchAre DEF s
  <2>2. n = 1 \/ n = 2 \/ n = 3 \/ n = 4 \/ n = 5 \/ n = 6 \/ n = 7
    BY <2>1
  <2>3. \/ n = 7 /\ Head(s) = SwitchSteps[1]
        \/ n = 6 /\ Head(s) = SwitchSteps[2]
        \/ n = 5 /\ Head(s) = SwitchSteps[3]
        \/ n = 4 /\ Head(s) = SwitchSteps[4]
        \/ n = 3 /\ Head(s) = SwitchSteps[5]
        \/ n = 2 /\ Head(s) = SwitchSteps[6]
        \/ n = 1 /\ Head(s) = SwitchSteps[7]
    BY <2>1, <2>2
  <2>. QED
    BY <2>1, <2>3, SwitchAre DEF s, n
<1>5. CASE s \in Suffixes(DestroySteps)
  <2>1. /\ n \in 1..6 /\ Head(s) = DestroySteps[6 - n + 1]
        /\ UIProgram = DestroySteps[6]
    BY <1>1, <1>5, ProgramOf, DestroyAre DEF s
  <2>2. n = 1 \/ n = 2 \/ n = 3 \/ n = 4 \/ n = 5 \/ n = 6
    BY <2>1
  <2>3. \/ n = 6 /\ Head(s) = DestroySteps[1]
        \/ n = 5 /\ Head(s) = DestroySteps[2]
        \/ n = 4 /\ Head(s) = DestroySteps[3]
        \/ n = 3 /\ Head(s) = DestroySteps[4]
        \/ n = 2 /\ Head(s) = DestroySteps[5]
        \/ n = 1 /\ Head(s) = DestroySteps[6]
    BY <2>1, <2>2
  <2>. QED
    BY <2>1, <2>3, DestroyAre DEF s, n
<1>. QED
  BY <1>2, <1>3, <1>4, <1>5 DEF s, Places

(* The same for the GL thread.                                             *)
GLAt(step, left) == At("gl", step) /\ GLLeft = left

(* Where the GL thread can be.                                             *)
LEMMA GLPlace ==
  ASSUME Places, todo["gl"] # <<>>
  PROVE  \/ GLAt("manager", 12) \/ GLAt("createTexture", 11)
         \/ GLAt("share", 10) \/ GLAt("open", 9)
         \/ GLAt("configure", 8) \/ GLAt("texture", 7)
         \/ GLAt("start", 6) \/ GLAt("imageSize", 5)
         \/ GLAt("displaySize", 4) \/ GLAt("draw", 3)
         \/ GLAt("picture", 2) \/ GLAt("resetTake", 1)
<1>. DEFINE s == todo["gl"]
            n == GLLeft
            p == SurfaceCreated
<1>. USE DEF GLAt, At
<1>1. n = Len(s) /\ s \in Suffixes(p)
  BY DEF GLLeft, Places
<1>. HIDE DEF s, n, p
<1>2. /\ n \in 1..12 /\ Head(s) = p[12 - n + 1]
  BY <1>1, ProgramOf, SurfaceAre DEF s, p
<1>3. \/ n = 1 \/ n = 2 \/ n = 3 \/ n = 4 \/ n = 5 \/ n = 6
      \/ n = 7 \/ n = 8 \/ n = 9 \/ n = 10 \/ n = 11 \/ n = 12
  BY <1>2
<1>4. \/ n = 12 /\ Head(s) = p[1]
      \/ n = 11 /\ Head(s) = p[2]
      \/ n = 10 /\ Head(s) = p[3]
      \/ n = 9 /\ Head(s) = p[4]
      \/ n = 8 /\ Head(s) = p[5]
      \/ n = 7 /\ Head(s) = p[6]
      \/ n = 6 /\ Head(s) = p[7]
      \/ n = 5 /\ Head(s) = p[8]
      \/ n = 4 /\ Head(s) = p[9]
      \/ n = 3 /\ Head(s) = p[10]
      \/ n = 2 /\ Head(s) = p[11]
      \/ n = 1 /\ Head(s) = p[12]
  BY <1>2, <1>3
<1>. QED
  BY <1>4, SurfaceAre DEF s, n, p

(* The steps that touch the camera, and whether one of them is ahead in a  *)
(* suffix.                                                                 *)
CameraSteps == {"open", "configure", "texture", "start", "test", "stop", "clear", "glPause"}

(* A step ahead in a suffix is one of the last elements of the callback.   *)
LEMMA CameraAhead ==
  ASSUME NEW p \in Seq(Steps), NEW s \in Suffixes(p)
  PROVE  (\E i \in DOMAIN s : s[i] \in CameraSteps)
           <=> \E j \in (Len(p) - Len(s) + 1)..Len(p) : p[j] \in CameraSteps
<1>. DEFINE C == CameraSteps
<1>1. /\ s \in Seq(Steps) /\ Len(s) \in 0..Len(p) /\ Len(p) \in Nat
      /\ \A i \in 1..Len(s) : s[i] = p[Len(p) - Len(s) + i]
  BY SuffixOf, LenProperties
<1>2. DOMAIN s = 1..Len(s)
  BY <1>1
<1>. HIDE DEF C
<1>3. ASSUME NEW i \in DOMAIN s, s[i] \in C
      PROVE  \E j \in (Len(p) - Len(s) + 1)..Len(p) : p[j] \in C
  <2>1. Len(p) - Len(s) + i \in (Len(p) - Len(s) + 1)..Len(p)
    BY <1>1, <1>2
  <2>. QED
    BY <1>1, <1>2, <1>3, <2>1
<1>4. ASSUME NEW j \in (Len(p) - Len(s) + 1)..Len(p), p[j] \in C
      PROVE  \E i \in DOMAIN s : s[i] \in C
  <2>1. PICK i \in 1..Len(s) : j = Len(p) - Len(s) + i
    <3>1. j - (Len(p) - Len(s)) \in 1..Len(s)
      BY <1>1
    <3>2. j = Len(p) - Len(s) + (j - (Len(p) - Len(s)))
      BY <1>1
    <3>. QED
      BY <3>1, <3>2
  <2>2. s[i] = p[j]
    BY <1>1, <2>1
  <2>. QED
    BY <1>2, <1>4, <2>1, <2>2
<1>. QED
  BY <1>3, <1>4 DEF C

(* The UI thread still has a step to take that touches the camera.         *)
UICamera ==
  \/ UIProgram = "waitResume" /\ UILeft >= 3
  \/ UIProgram = "waitPause" /\ UILeft >= 2
  \/ UIProgram = "start"
  \/ UIProgram = "releaseRenderer" /\ UILeft >= 4

(* Preview's UsesCamera for the UI thread, by place.                       *)
LEMMA UIUses ==
  ASSUME Places PROVE UsesCamera("ui") <=> UICamera
<1>. DEFINE s == todo["ui"]
            n == UILeft
<1>1. CASE s = <<>>
  <2>1. DOMAIN s = {} /\ UIProgram = "none"
    BY <1>1 DEF UIProgram
  <2>. QED
    BY <2>1 DEF UsesCamera, UICamera
<1>2. /\ UIProgram = s[Len(s)] \/ s = <<>>
      /\ n = Len(s)
      /\ UsesCamera("ui") <=> \E i \in DOMAIN s : s[i] \in CameraSteps
  BY DEF UIProgram, UILeft, UsesCamera, CameraSteps
<1>. HIDE DEF s, n
<1>3. CASE s # <<>> /\ s \in Suffixes(ResumeSteps)
  <2>1. n \in 1..6 /\ UIProgram = "waitResume"
    BY <1>2, <1>3, ProgramOf, ResumeAre
  <2>2. UsesCamera("ui") <=> \E j \in (6 - n + 1)..6 : ResumeSteps[j] \in CameraSteps
    BY <1>2, <1>3, CameraAhead, ResumeAre
  <2>3. UsesCamera("ui") <=> n >= 3
    BY <2>1, <2>2, ResumeAre DEF CameraSteps
  <2>. QED
    BY <2>1, <2>3 DEF UICamera, n
<1>4. CASE s # <<>> /\ s \in Suffixes(PauseSteps)
  <2>1. n \in 1..5 /\ UIProgram = "waitPause"
    BY <1>2, <1>4, ProgramOf, PauseAre
  <2>2. UsesCamera("ui") <=> \E j \in (5 - n + 1)..5 : PauseSteps[j] \in CameraSteps
    BY <1>2, <1>4, CameraAhead, PauseAre
  <2>3. UsesCamera("ui") <=> n >= 2
    BY <2>1, <2>2, PauseAre DEF CameraSteps
  <2>. QED
    BY <2>1, <2>3 DEF UICamera, n
<1>5. CASE s # <<>> /\ s \in Suffixes(SwitchSteps)
  <2>1. n \in 1..7 /\ UIProgram = "start"
    BY <1>2, <1>5, ProgramOf, SwitchAre
  <2>2. UsesCamera("ui") <=> \E j \in (7 - n + 1)..7 : SwitchSteps[j] \in CameraSteps
    BY <1>2, <1>5, CameraAhead, SwitchAre
  <2>3. UsesCamera("ui") <=> TRUE
    BY <2>1, <2>2, SwitchAre DEF CameraSteps
  <2>. QED
    BY <2>1, <2>3 DEF UICamera, n
<1>6. CASE s # <<>> /\ s \in Suffixes(DestroySteps)
  <2>1. n \in 1..6 /\ UIProgram = "releaseRenderer"
    BY <1>2, <1>6, ProgramOf, DestroyAre
  <2>2. UsesCamera("ui") <=> \E j \in (6 - n + 1)..6 : DestroySteps[j] \in CameraSteps
    BY <1>2, <1>6, CameraAhead, DestroyAre
  <2>3. UsesCamera("ui") <=> n >= 4
    BY <2>1, <2>2, DestroyAre DEF CameraSteps
  <2>. QED
    BY <2>1, <2>3 DEF UICamera, n
<1>. QED
  BY <1>1, <1>3, <1>4, <1>5, <1>6 DEF s, Places

(* Preview's UsesCamera for the GL thread, by place.                       *)
LEMMA GLUses ==
  ASSUME Places PROVE UsesCamera("gl") <=> GLLeft >= 6
<1>. DEFINE s == todo["gl"]
            n == GLLeft
            p == SurfaceCreated
<1>1. /\ s \in Suffixes(p) /\ n = Len(s)
      /\ UsesCamera("gl") <=> \E i \in DOMAIN s : s[i] \in CameraSteps
  BY DEF GLLeft, UsesCamera, CameraSteps, Places
<1>. HIDE DEF s, n, p
<1>2. p \in Seq(Steps) /\ Len(p) = 12
  BY SurfaceAre DEF p
<1>3. n \in 0..12
  BY <1>1, <1>2, SuffixOf
<1>4. UsesCamera("gl") <=> \E j \in (12 - n + 1)..12 : p[j] \in CameraSteps
  BY <1>1, <1>2, CameraAhead
<1>5. UsesCamera("gl") <=> n >= 6
  BY <1>3, <1>4, SurfaceAre DEF CameraSteps, p
<1>. QED
  BY <1>5 DEF n

(* How the number of steps left and the callback fit together.             *)
LEMMA Shape ==
  ASSUME Places
  PROVE  /\ UILeft \in 0..7 /\ GLLeft \in 0..12
         /\ UIProgram \in {"none", "waitResume", "waitPause", "start", "releaseRenderer"}
         /\ UIProgram = "none" <=> UILeft = 0
         /\ UIProgram = "waitResume" => UILeft <= 6
         /\ UIProgram = "waitPause" => UILeft <= 5
         /\ UIProgram = "releaseRenderer" => UILeft <= 6
         /\ Idle("ui") <=> UILeft = 0
         /\ Idle("gl") <=> GLLeft = 0
<1>1. todo["ui"] = <<>> => UILeft = 0 /\ UIProgram = "none"
  BY DEF UILeft, UIProgram
<1>2. todo["gl"] = <<>> => GLLeft = 0
  BY DEF GLLeft
<1>3. CASE todo["ui"] # <<>>
  BY <1>2, <1>3, UIPlace, GLPlace DEF UIAt, GLAt, Idle
<1>4. CASE todo["ui"] = <<>>
  BY <1>1, <1>2, <1>4, GLPlace DEF GLAt, Idle
<1>. QED
  BY <1>3, <1>4

(* A step of one thread leaves the other one where it is.                  *)
UIAlone == GLLeft' = GLLeft
GLAlone == UILeft' = UILeft /\ UIProgram' = UIProgram

(* Steps of the UI thread.                                                 *)
LEMMA UISkips ==
  ASSUME Places, NEW n \in 1..UILeft, Skip("ui", n)
  PROVE  /\ Places' /\ UIAlone
         /\ UILeft' = UILeft - n
         /\ UIProgram' = IF n = UILeft THEN "none" ELSE UIProgram
<1>. DEFINE s == todo["ui"]
            r == SubSeq(s, n + 1, Len(s))
<1>1. s \in Seq(Steps) /\ UILeft = Len(s) /\ n \in Nat /\ n <= Len(s)
  BY Shape DEF Places, Threads, UILeft
<1>2. todo' = [todo EXCEPT !["ui"] = r]
  BY DEF Skip
<1>3. r \in Seq(Steps) /\ Len(r) = Len(s) - n /\ \A i \in 1..(Len(s) - n) : r[i] = s[n + i]
  BY <1>1, RestOf
<1>4. \A p \in {ResumeSteps, PauseSteps, SwitchSteps, DestroySteps} :
        s \in Suffixes(p) => r \in Suffixes(p)
  BY <1>1, SuffixRest, ResumeAre, PauseAre, SwitchAre, DestroyAre
<1>5. todo'["ui"] = r /\ todo'["gl"] = todo["gl"]
      /\ todo' \in [Threads -> Seq(Steps)]
  BY <1>2, <1>3 DEF Places, Threads
<1>6. r = <<>> <=> Len(r) = 0
  BY <1>3, Emptiness
<1>7. ASSUME n < Len(s) PROVE r[Len(r)] = s[Len(s)] /\ s # <<>>
  <2>1. Len(r) \in 1..(Len(s) - n) /\ n + Len(r) = Len(s) /\ Len(s) # 0
    BY <1>1, <1>3, <1>7
  <2>2. r[Len(r)] = s[n + Len(r)]
    BY <1>3, <2>1
  <2>. QED
    BY <1>1, <2>1, <2>2, Emptiness
<1>. HIDE DEF r, s
<1>8. UILeft' = Len(r) /\ UIAlone
  BY <1>5 DEF UILeft, GLLeft, UIAlone
<1>9. UIProgram' = IF r = <<>> THEN "none" ELSE r[Len(r)]
  BY <1>5 DEF UIProgram
<1>10. UIProgram' = IF n = UILeft THEN "none" ELSE UIProgram
  BY <1>1, <1>3, <1>6, <1>7, <1>9 DEF UIProgram, s
<1>11. Places'
  BY <1>4, <1>5 DEF Places, s
<1>. QED
  BY <1>1, <1>3, <1>8, <1>10, <1>11

(* Steps of the GL thread.                                                 *)
LEMMA GLSkips ==
  ASSUME Places, NEW n \in 1..GLLeft, Skip("gl", n)
  PROVE  Places' /\ GLAlone /\ GLLeft' = GLLeft - n
<1>. DEFINE s == todo["gl"]
            r == SubSeq(s, n + 1, Len(s))
<1>1. s \in Seq(Steps) /\ GLLeft = Len(s) /\ n \in Nat /\ n <= Len(s)
  BY Shape DEF Places, Threads, GLLeft
<1>2. todo' = [todo EXCEPT !["gl"] = r]
  BY DEF Skip
<1>3. r \in Seq(Steps) /\ Len(r) = Len(s) - n
  BY <1>1, RestOf
<1>4. r \in Suffixes(SurfaceCreated)
  BY <1>1, SuffixRest, SurfaceAre DEF Places
<1>5. todo'["gl"] = r /\ todo'["ui"] = todo["ui"]
      /\ todo' \in [Threads -> Seq(Steps)]
  BY <1>2, <1>3 DEF Places, Threads
<1>. HIDE DEF r, s
<1>6. GLLeft' = Len(r) /\ GLAlone
  BY <1>5 DEF UILeft, GLLeft, UIProgram, GLAlone
<1>7. Places'
  BY <1>4, <1>5 DEF Places
<1>. QED
  BY <1>1, <1>3, <1>6, <1>7

(* A callback of the UI thread begins; overlap notes whether the GL thread *)
(* is at the camera.                                                       *)
LEMMA UIBegins ==
  ASSUME Places, NEW p \in {ResumeSteps, PauseSteps, SwitchSteps, DestroySteps},
         Begin("ui", p)
  PROVE  /\ Places' /\ UIAlone /\ UILeft = 0 /\ UIProgram = "none"
         /\ UILeft' = Len(p) /\ UIProgram' = p[Len(p)]
         /\ overlap' <=> (overlap \/ GLLeft >= 6)
         /\ overlap' \in BOOLEAN
<1>1. p \in Seq(Steps) /\ Len(p) # 0
  <2>1. CASE p = ResumeSteps  BY <2>1, ResumeAre
  <2>2. CASE p = PauseSteps   BY <2>2, PauseAre
  <2>3. CASE p = SwitchSteps  BY <2>3, SwitchAre
  <2>4. CASE p = DestroySteps BY <2>4, DestroyAre
  <2>. QED
    BY <2>1, <2>2, <2>3, <2>4
<1>2. p \in Seq(Steps) /\ p # <<>>
  BY <1>1, Emptiness
<1>3. todo'["ui"] = p /\ todo'["gl"] = todo["gl"]
      /\ todo' \in [Threads -> Seq(Steps)]
  BY <1>2 DEF Begin, Places, Threads
<1>4. p \in Suffixes(p)
  BY <1>2, SuffixEnds
<1>5. Places'
  BY <1>3, <1>4 DEF Places
<1>6. UIAlone /\ UILeft' = Len(p) /\ UIProgram' = p[Len(p)]
  BY <1>2, <1>3 DEF UILeft, GLLeft, UIProgram, UIAlone
<1>7. overlap' <=> (overlap \/ GLLeft >= 6)
  BY GLUses DEF Begin, Other
<1>8. overlap' \in BOOLEAN
  BY Zenon DEF Begin
<1>. QED
  BY <1>5, <1>6, <1>7, <1>8, Shape DEF Begin

(* A callback of the GL thread begins.                                     *)
LEMMA GLBegins ==
  ASSUME Places, NEW p \in {SurfaceCreated, DrawFrame}, Idle("gl"),
         todo' = [todo EXCEPT !["gl"] = p]
  PROVE  Places' /\ GLAlone /\ GLLeft = 0 /\ GLLeft' = Len(p)
<1>1. p \in Seq(Steps) /\ p \in Suffixes(SurfaceCreated)
  <2>1. DrawFrame = SubSeq(SurfaceCreated, 10, Len(SurfaceCreated))
    <3>. DEFINE s == SurfaceCreated
                d == DrawFrame
    <3>1. /\ s \in Seq(Steps) /\ Len(s) = 12
          /\ s[10] = d[1] /\ s[11] = d[2] /\ s[12] = d[3]
          /\ d \in Seq(Steps) /\ Len(d) = 3
      BY SurfaceAre, PartsAre
    <3>. HIDE DEF s, d
    <3>2. \A i \in 1..3 : d[i] = s[9 + i]
      BY <3>1
    <3>3. d = SubSeq(s, 10, Len(s))
      BY <3>1, <3>2
    <3>. QED
      BY <3>3 DEF s, d
  <2>2. DrawFrame \in Suffixes(SurfaceCreated)
    BY <2>1, SurfaceAre DEF Suffixes
  <2>. QED
    BY <2>2, SuffixEnds, SurfaceAre, PartsAre
<1>2. todo'["gl"] = p /\ todo'["ui"] = todo["ui"]
      /\ todo' \in [Threads -> Seq(Steps)]
  BY <1>1 DEF Places, Threads
<1>3. Places'
  BY <1>1, <1>2 DEF Places
<1>4. GLAlone /\ GLLeft' = Len(p)
  BY <1>2 DEF UILeft, GLLeft, UIProgram, GLAlone
<1>. QED
  BY <1>3, <1>4, Shape

(* A step outside both callbacks.                                          *)
LEMMA Stays ==
  ASSUME Places, UNCHANGED todo
  PROVE  Places' /\ UIAlone /\ GLAlone
BY DEF Places, UIAlone, GLAlone, UILeft, GLLeft, UIProgram

-----------------------------------------------------------------------------
(* What a RendererManager may look like.                                   *)
Managers == [filters : {"none", "live", "released"}, image : Sizes \cup {NoSize},
             frame : Sizes \cup {NoSize}, take : BOOLEAN]

(* The types of the variables.                                             *)
TypeOK ==
  /\ activity \in {"resumed", "paused", "destroyed"}
  /\ loader \in BOOLEAN /\ facing \in Facings
  /\ cameraInstance \in Cameras \cup {Null} /\ loaderTexture \in Nat
  /\ sizeOf \in [Facings -> Sizes \cup {NoSize}]
  /\ cam \in [Cameras -> [state : {"none", "open", "previewing", "evicted", "released"},
                          facing : Facings, texture : Nat]]
  /\ texture \in Nat /\ imageSize \in Sizes \cup {NoSize}
  /\ manager \in Managers
  /\ surface \in BOOLEAN /\ context \in BOOLEAN
  /\ requestPaused \in BOOLEAN /\ glPaused \in BOOLEAN
  /\ begun \in Nat /\ textures \in Nat /\ clicks \in Nat /\ pictures \in Nat
  /\ overlap \in BOOLEAN /\ openFailed \in BOOLEAN /\ switched \in BOOLEAN
  /\ crashed \in {"no", "camera", "texture", "frame"}

(* Thread "ui" or "gl" has n steps of setUpCamera to go, the UI thread in  *)
(* onResume or switchCamera, the GL thread in onSurfaceCreated; the UI     *)
(* thread has n steps of release to go.                                    *)
UISetUp == IF UIProgram = "waitResume" THEN UILeft - 2
           ELSE IF UIProgram = "start" THEN UILeft ELSE 0
SetUpLeft(n) == UISetUp = n \/ GLLeft = n + 5
ReleaseLeft(n) == \/ UIProgram = "waitPause" /\ UILeft = n + 2
                  \/ UIProgram = "start" /\ UILeft = n + 4
                  \/ UIProgram = "releaseRenderer" /\ UILeft = n + 3

(* Which callback of the activity runs in which state of its life.         *)
LifeAgrees ==
  /\ UIProgram \in {"waitResume", "start"} => activity = "resumed"
  /\ UIProgram = "waitPause" => activity = "paused"
  /\ UIProgram = "releaseRenderer" => activity = "destroyed"
  /\ ~loader => activity = "destroyed"

(* The activity is stopped: onPause is over, and onResume has not told the *)
(* GL thread yet.                                                          *)
Stopped == \/ activity # "resumed" /\ UIProgram # "waitPause"
           \/ UIProgram = "waitResume" /\ UILeft >= 2

(* The GL thread draws only with a context, and has none while it is       *)
(* paused. A stopped activity's GL thread is idle, without a context, and  *)
(* paused or without a surface, so it cannot begin a callback.             *)
GLObeys ==
  /\ glPaused => GLLeft = 0 /\ ~context
  /\ GLLeft # 0 => context
  /\ UIProgram = "waitPause" /\ UILeft = 1 => requestPaused
  /\ Stopped => GLLeft = 0 /\ ~context /\ ((requestPaused /\ glPaused) \/ ~surface)

(* No camera is open.                                                      *)
NoneOpen == \A c \in Cameras : ~Open(c)

(* Without an overlap the two threads are never both at the camera, and a  *)
(* GL thread that is asked to pause has left it.                           *)
OneAtATime ==
  ~overlap =>
    /\ ~(UICamera /\ GLLeft >= 6)
    /\ UIProgram = "waitPause" => GLLeft < 6

(* Without an overlap cameraInstance names the open camera, except between *)
(* the two steps of release and of setUpCamera that change one before the  *)
(* other; it faces where facing says, except inside switchCamera; the      *)
(* steps after open have a camera unless open failed.                      *)
FieldKnows ==
  ~overlap =>
    /\ \/ \A c \in Cameras : Open(c) => c = cameraInstance
       \/ cameraInstance = Null /\ SetUpLeft(3)
    /\ cameraInstance # Null =>
         IF ReleaseLeft(1) THEN cam[cameraInstance].state = "released"
         ELSE Open(cameraInstance)
    /\ cameraInstance # Null =>
         \/ cam[cameraInstance].facing = facing
         \/ UIProgram = "start" /\ UILeft >= 5
    /\ ReleaseLeft(2) => cameraInstance # Null
    /\ (SetUpLeft(1) \/ SetUpLeft(2) \/ SetUpLeft(3)) => cameraInstance # Null \/ openFailed

(* Without an overlap no camera is open once release is through, and none  *)
(* stays open in an activity that is not resumed.                          *)
GivenUp ==
  ~overlap =>
    /\ UIProgram = "waitPause" /\ UILeft <= 2 => NoneOpen
    /\ activity # "resumed" /\ UIProgram # "waitPause" => NoneOpen

(* The camera fills the texture that is drawn.                             *)
Shown == /\ cameraInstance # Null
         /\ cam[cameraInstance].texture = texture

(* Once onSurfaceCreated has made and shared its texture, it exists and    *)
(* the loader knows it.                                                    *)
TextureKnown ==
  /\ context /\ GLLeft <= 10 => texture # Null
  /\ context /\ GLLeft <= 9 => loaderTexture = texture

(* Without an overlap the camera about to be started, and the camera of a  *)
(* resumed activity at rest, fill the texture that is drawn.               *)
PictureShown ==
  ~overlap /\ context =>
    /\ SetUpLeft(1) => Shown
    /\ activity = "resumed" /\ ~UICamera /\ GLLeft < 6 =>
         Shown /\ cam[cameraInstance].state = "previewing"

(* Without an overlap and a switch of cameras, the size of the camera's    *)
(* preview travels from the loader to the renderer, to the filters and to  *)
(* the frame buffer.                                                       *)
SizesFit ==
  /\ ~overlap /\ UIProgram = "start" => switched
  /\ ~overlap /\ ~switched /\ context /\ sizeOf[facing] # NoSize =>
       /\ GLLeft \in 5..7 => imageSize = sizeOf[facing]
       /\ GLLeft = 4 => manager.image = sizeOf[facing]
       /\ GLLeft <= 3 => manager.frame = sizeOf[facing]

(* If every camera has a size, each of these is set by the step that needs *)
(* it; this part needs no hypothesis about overlaps.                       *)
SizesSet ==
  (\A f \in Facings : sizeOf[f] # NoSize) /\ context =>
    /\ GLLeft <= 7 => imageSize # NoSize
    /\ GLLeft = 4 => manager.image # NoSize
    /\ GLLeft <= 3 => manager.frame # NoSize

(* A picture about to be saved was asked for, and fewer are saved than     *)
(* asked while the flag is set.                                            *)
ClicksOwed ==
  /\ GLLeft = 2 => manager.take /\ manager.filters # "none"
  /\ manager.take /\ GLLeft # 1 => pictures < clicks
  /\ pictures <= clicks

(* Why the process ended: a camera that is closed or missing after an      *)
(* overlap or a failed open, or a frame without a size.                    *)
CrashCause ==
  /\ crashed = "camera" => overlap \/ openFailed
  /\ crashed = "frame" => \E f \in Facings : sizeOf[f] = NoSize
  /\ crashed # "texture"

(* The inductive invariant.                                                *)
IInv ==
  /\ TypeOK /\ Places /\ LifeAgrees /\ GLObeys /\ OneAtATime /\ FieldKnows
  /\ GivenUp /\ TextureKnown /\ PictureShown /\ SizesFit /\ SizesSet /\ ClicksOwed
  /\ CrashCause

(* Null is no camera and NoSize no size.                                   *)
LEMMA Nulls ==
  /\ Null \notin Cameras /\ Null \in Nat /\ NoSize \in Nat
  /\ NoSize \notin Sizes /\ Sizes \subseteq Nat
  /\ \A n \in Nat : n + 1 # Null
BY SizeAssumption DEF Null, Cameras, NoSize

(* The flag of a RendererManager may be set.                               *)
LEMMA ManagerTypes ==
  ASSUME NEW m \in Managers, NEW b \in BOOLEAN
  PROVE  [m EXCEPT !.take = b] \in Managers /\ [m EXCEPT !.take = b].take = b
BY DEF Managers

-----------------------------------------------------------------------------

(* A crash with a known cause keeps the invariant.                         *)
LEMMA CrashKeeps ==
  ASSUME IInv, NEW cause \in {"camera", "frame"}, Crash(cause),
         cause = "camera" => overlap \/ openFailed,
         cause = "frame" => \E f \in Facings : sizeOf[f] = NoSize
  PROVE  IInv'
<1>1. Places' /\ UIAlone /\ GLAlone
  BY Stays DEF IInv, Crash
<1>2. TypeOK'
  BY DEF IInv, TypeOK, Crash, loaderVars, renderVars, viewVars, countVars, historyVars
<1>3. UNCHANGED <<activity, loader, facing, cameraInstance, loaderTexture, sizeOf, cam,
                  texture, imageSize, manager, surface, context, requestPaused, glPaused,
                  clicks, pictures, overlap, openFailed, switched>>
  BY DEF Crash, loaderVars, renderVars, viewVars, countVars, historyVars
<1>4. LifeAgrees' /\ GLObeys' /\ OneAtATime' /\ TextureKnown' /\ PictureShown'
  BY <1>1, <1>3
     DEF IInv, UIAlone, GLAlone, LifeAgrees, GLObeys, Stopped, OneAtATime, UICamera,
         TextureKnown, PictureShown, Shown, SetUpLeft, UISetUp
<1>5. FieldKnows' /\ GivenUp'
  BY <1>1, <1>3
     DEF IInv, UIAlone, GLAlone, FieldKnows, GivenUp, NoneOpen, Open, SetUpLeft, UISetUp,
         ReleaseLeft
<1>6. SizesFit' /\ SizesSet' /\ ClicksOwed'
  BY <1>1, <1>3 DEF IInv, UIAlone, GLAlone, SizesFit, SizesSet, ClicksOwed
<1>7. CrashCause'
  BY <1>3 DEF IInv, CrashCause, Crash
<1>. QED
  BY <1>1, <1>2, <1>4, <1>5, <1>6, <1>7 DEF IInv

-----------------------------------------------------------------------------

(* onResume begins.                                                        *)
LEMMA ResumeKeeps ==
  ASSUME IInv, crashed = "no", Resume
  PROVE  IInv'
<1>1. Begin("ui", ResumeSteps)
  BY DEF Resume, ResumeSteps
<1>2. /\ Places' /\ UIAlone /\ UILeft = 0 /\ UIProgram = "none"
      /\ UILeft' = 6 /\ UIProgram' = "waitResume"
      /\ overlap' <=> (overlap \/ GLLeft >= 6)
      /\ overlap' \in BOOLEAN
  BY <1>1, UIBegins, ResumeAre DEF IInv
<1>3. activity' \in {"resumed", "paused", "destroyed"} /\ begun' \in Nat
  BY DEF IInv, TypeOK, Resume, BeginSetUp
<1>4. TypeOK'
  BY <1>2, <1>3 DEF IInv, TypeOK, Resume, loaderVars, renderVars, viewVars
<1>5. LifeAgrees' /\ GLObeys' /\ OneAtATime'
  BY <1>2
     DEF IInv, LifeAgrees, GLObeys, OneAtATime, Stopped, Resume, loaderVars, viewVars,
         UIAlone
<1>6. FieldKnows' /\ GivenUp'
  BY <1>2
     DEF IInv, FieldKnows, GivenUp, SetUpLeft, UISetUp, ReleaseLeft, Open, Resume,
         loaderVars, UIAlone
<1>7. TextureKnown' /\ PictureShown'
  BY <1>2
     DEF IInv, TextureKnown, PictureShown, SetUpLeft, UISetUp, UICamera, Resume, loaderVars,
         renderVars, viewVars, UIAlone
<1>8. SizesFit' /\ SizesSet'
  BY <1>2 DEF IInv, SizesFit, SizesSet, Resume, loaderVars, renderVars, viewVars, UIAlone
<1>9. ClicksOwed' /\ CrashCause'
  BY <1>2 DEF IInv, ClicksOwed, CrashCause, Resume, renderVars, UIAlone
<1>. QED
  BY <1>2, <1>4, <1>5, <1>6, <1>7, <1>8, <1>9 DEF IInv

(* onPause begins.                                                         *)
LEMMA PauseKeeps ==
  ASSUME IInv, crashed = "no", Pause
  PROVE  IInv'
<1>1. Begin("ui", PauseSteps)
  BY DEF Pause, PauseSteps
<1>2. /\ Places' /\ UIAlone /\ UILeft = 0 /\ UIProgram = "none"
      /\ UILeft' = 5 /\ UIProgram' = "waitPause"
      /\ overlap' <=> (overlap \/ GLLeft >= 6)
      /\ overlap' \in BOOLEAN
  BY <1>1, UIBegins, PauseAre DEF IInv
<1>3. activity' \in {"resumed", "paused", "destroyed"}
  BY DEF Pause
<1>4. TypeOK'
  BY <1>2 DEF IInv, TypeOK, Pause, loaderVars, renderVars, viewVars, countVars
<1>5. LifeAgrees' /\ GLObeys' /\ OneAtATime'
  BY <1>2, Shape
     DEF IInv, LifeAgrees, GLObeys, OneAtATime, Stopped, Pause, loaderVars, viewVars,
         UIAlone
<1>6. FieldKnows' /\ GivenUp'
  BY <1>2
     DEF IInv, FieldKnows, GivenUp, SetUpLeft, UISetUp, ReleaseLeft, Open, Pause,
         loaderVars, UIAlone
<1>7. TextureKnown' /\ PictureShown'
  BY <1>2
     DEF IInv, TextureKnown, PictureShown, SetUpLeft, UISetUp, Pause, loaderVars,
         renderVars, viewVars, UIAlone
<1>8. SizesFit' /\ SizesSet'
  BY <1>2 DEF IInv, SizesFit, SizesSet, Pause, loaderVars, renderVars, viewVars, UIAlone
<1>9. ClicksOwed' /\ CrashCause'
  BY <1>2 DEF IInv, ClicksOwed, CrashCause, Pause, renderVars, countVars, UIAlone
<1>. QED
  BY <1>2, <1>4, <1>5, <1>6, <1>7, <1>8, <1>9 DEF IInv

(* switchCamera begins: facing changes before the camera does.             *)
LEMMA SwitchKeeps ==
  ASSUME IInv, crashed = "no", SwitchCamera
  PROVE  IInv'
<1>1. Begin("ui", SwitchSteps)
  BY DEF SwitchCamera, SwitchSteps
<1>2. /\ Places' /\ UIAlone /\ UILeft = 0 /\ UIProgram = "none"
      /\ UILeft' = 7 /\ UIProgram' = "start"
      /\ overlap' <=> (overlap \/ GLLeft >= 6)
      /\ overlap' \in BOOLEAN
  BY <1>1, UIBegins, SwitchAre DEF IInv
<1>3. facing' \in Facings /\ begun' \in Nat
  BY DEF IInv, TypeOK, SwitchCamera, BeginSetUp, Opposite, Facings
<1>4. switched' \in BOOLEAN
  BY DEF SwitchCamera
<1>5. TypeOK'
  BY <1>2, <1>3 DEF IInv, TypeOK, SwitchCamera, renderVars, viewVars
<1>6. LifeAgrees' /\ GLObeys' /\ OneAtATime'
  BY <1>2
     DEF IInv, LifeAgrees, GLObeys, OneAtATime, Stopped, SwitchCamera, viewVars, UIAlone
<1>7. FieldKnows' /\ GivenUp'
  BY <1>2
     DEF IInv, FieldKnows, GivenUp, SetUpLeft, UISetUp, ReleaseLeft, Open, SwitchCamera,
         UIAlone
<1>8. TextureKnown' /\ PictureShown'
  BY <1>2
     DEF IInv, TextureKnown, PictureShown, SetUpLeft, UISetUp, UICamera, SwitchCamera,
         renderVars, viewVars, UIAlone
<1>9. SizesFit' /\ SizesSet'
  BY <1>2 DEF IInv, SizesFit, SizesSet, SwitchCamera, renderVars, viewVars, UIAlone
<1>10. ClicksOwed' /\ CrashCause'
  BY <1>2 DEF IInv, ClicksOwed, CrashCause, SwitchCamera, renderVars, UIAlone
<1>. QED
  BY <1>2, <1>5, <1>6, <1>7, <1>8, <1>9, <1>10 DEF IInv

(* The picture button is pressed.                                          *)
LEMMA TakePictureKeeps ==
  ASSUME IInv, crashed = "no", TakePicture
  PROVE  IInv'
<1>1. Places' /\ UIAlone /\ GLAlone
  BY Stays DEF IInv, TakePicture
<1>2. UNCHANGED <<activity, loader, facing, cameraInstance, loaderTexture, sizeOf, cam,
                  texture, imageSize, surface, context, requestPaused, glPaused, begun,
                  textures, pictures, overlap, openFailed, switched, crashed>>
  BY DEF TakePicture, loaderVars, viewVars, historyVars
<1>3. PICK b \in BOOLEAN : b = (manager.filters # "none")
  BY Zenon
<1>4. pictures < clicks + 1 /\ pictures <= clicks + 1
  BY DEF IInv, ClicksOwed, TypeOK
<1>5. b => manager.filters # "none"
  BY <1>3, Zenon
<1>6. clicks' = clicks + 1 /\ manager' = [manager EXCEPT !.take = b]
  BY <1>3 DEF TakePicture
<1>7. /\ manager' \in Managers /\ manager'.take = b /\ manager'.filters = manager.filters
      /\ manager'.image = manager.image /\ manager'.frame = manager.frame
  BY <1>6, ManagerTypes DEF IInv, TypeOK
<1>8. TypeOK'
  BY <1>2, <1>6, <1>7 DEF IInv, TypeOK
<1>9. LifeAgrees' /\ GLObeys' /\ OneAtATime'
  BY <1>1, <1>2
     DEF IInv, LifeAgrees, GLObeys, OneAtATime, Stopped, UICamera, UIAlone, GLAlone
<1>10. FieldKnows' /\ GivenUp'
  BY <1>1, <1>2
     DEF IInv, FieldKnows, GivenUp, SetUpLeft, UISetUp, ReleaseLeft, Open, NoneOpen,
         UIAlone, GLAlone
<1>11. TextureKnown' /\ PictureShown'
  BY <1>1, <1>2
     DEF IInv, TextureKnown, PictureShown, Shown, SetUpLeft, UISetUp, UICamera, UIAlone,
         GLAlone
<1>12. SizesFit' /\ SizesSet'
  BY <1>1, <1>2, <1>7 DEF IInv, SizesFit, SizesSet, UIAlone, GLAlone
<1>13. ClicksOwed' /\ CrashCause'
  BY <1>1, <1>2, <1>3, <1>4, <1>5, <1>6, <1>7 DEF IInv, ClicksOwed, CrashCause, UIAlone
<1>. QED
  BY <1>1, <1>8, <1>9, <1>10, <1>11, <1>12, <1>13 DEF IInv

(* onDestroy begins.                                                       *)
LEMMA DestroyKeeps ==
  ASSUME IInv, crashed = "no", Destroy
  PROVE  IInv'
<1>1. Begin("ui", DestroySteps)
  BY DEF Destroy, DestroySteps
<1>2. /\ Places' /\ UIAlone /\ UILeft = 0 /\ UIProgram = "none"
      /\ UILeft' = 6 /\ UIProgram' = "releaseRenderer"
      /\ overlap' <=> (overlap \/ GLLeft >= 6)
      /\ overlap' \in BOOLEAN
  BY <1>1, UIBegins, DestroyAre DEF IInv
<1>3. activity' \in {"resumed", "paused", "destroyed"}
  BY DEF Destroy
<1>4. TypeOK'
  BY <1>2 DEF IInv, TypeOK, Destroy, loaderVars, renderVars, viewVars, countVars
<1>5. LifeAgrees' /\ GLObeys' /\ OneAtATime'
  BY <1>2 DEF IInv, LifeAgrees, GLObeys, OneAtATime, Stopped, Destroy, viewVars, UIAlone
<1>6. FieldKnows' /\ GivenUp'
  BY <1>2
     DEF IInv, FieldKnows, GivenUp, SetUpLeft, UISetUp, ReleaseLeft, Open, NoneOpen,
         Destroy, loaderVars, UIAlone
<1>7. TextureKnown' /\ PictureShown'
  BY <1>2
     DEF IInv, TextureKnown, PictureShown, SetUpLeft, UISetUp, Destroy, loaderVars,
         renderVars, viewVars, UIAlone
<1>8. SizesFit' /\ SizesSet'
  BY <1>2 DEF IInv, SizesFit, SizesSet, Destroy, loaderVars, renderVars, viewVars, UIAlone
<1>9. ClicksOwed' /\ CrashCause'
  BY <1>2 DEF IInv, ClicksOwed, CrashCause, Destroy, renderVars, countVars, UIAlone
<1>. QED
  BY <1>2, <1>4, <1>5, <1>6, <1>7, <1>8, <1>9 DEF IInv

(* The window gets or loses its surface.                                   *)
LEMMA SurfaceChangeKeeps ==
  ASSUME IInv, crashed = "no", SurfaceChange
  PROVE  IInv'
<1>1. Places' /\ UIAlone /\ GLAlone
  BY Stays DEF IInv, SurfaceChange
<1>2. TypeOK'
  BY DEF IInv, TypeOK, SurfaceChange, loaderVars, renderVars, countVars, historyVars
<1>3. LifeAgrees' /\ GLObeys' /\ OneAtATime'
  BY <1>1, Shape
     DEF IInv, LifeAgrees, GLObeys, OneAtATime, Stopped, UICamera, SurfaceChange,
         loaderVars, UIAlone, GLAlone
<1>4. FieldKnows' /\ GivenUp'
  BY <1>1
     DEF IInv, FieldKnows, GivenUp, SetUpLeft, UISetUp, ReleaseLeft, Open, NoneOpen,
         SurfaceChange, loaderVars, historyVars, UIAlone, GLAlone
<1>5. TextureKnown' /\ PictureShown'
  BY <1>1
     DEF IInv, TextureKnown, PictureShown, Shown, SetUpLeft, UISetUp, UICamera,
         SurfaceChange, loaderVars, renderVars, historyVars, UIAlone, GLAlone
<1>6. SizesFit' /\ SizesSet'
  BY <1>1
     DEF IInv, SizesFit, SizesSet, SurfaceChange, loaderVars, renderVars, historyVars,
         UIAlone, GLAlone
<1>7. ClicksOwed' /\ CrashCause'
  BY <1>1 DEF IInv, ClicksOwed, CrashCause, SurfaceChange, renderVars, countVars, UIAlone
<1>. QED
  BY <1>1, <1>2, <1>3, <1>4, <1>5, <1>6, <1>7 DEF IInv

(* What open does, whichever thread runs it: a new camera faces where      *)
(* facing says and the old ones of that side are evicted, or the field is  *)
(* null.                                                                   *)
LEMMA Opens ==
  ASSUME IInv, NEW t \in Threads, OpenCamera(t)
  PROVE  /\ At(t, "open") /\ Skip(t, 1)
         /\ UNCHANGED <<activity, loader, facing, loaderTexture, sizeOf, texture, imageSize,
                        manager, surface, context, requestPaused, glPaused, begun, textures,
                        clicks, pictures, overlap, switched, crashed>>
         /\ cam' \in [Cameras -> [state : {"none", "open", "previewing", "evicted", "released"},
                                  facing : Facings, texture : Nat]]
         /\ \/ /\ cameraInstance' \in Cameras /\ openFailed' = openFailed
               /\ cam'[cameraInstance'].state = "open"
               /\ cam'[cameraInstance'].facing = facing
               /\ \A d \in Cameras : d # cameraInstance' /\ Open(d)' =>
                                       Open(d) /\ cam[d].facing # facing
            \/ /\ cameraInstance' = Null /\ openFailed' = TRUE
               /\ cam' = cam
<1>1. /\ At(t, "open") /\ Skip(t, 1)
      /\ UNCHANGED <<activity, loader, facing, loaderTexture, sizeOf, texture, imageSize,
                     manager, surface, context, requestPaused, glPaused, begun, textures,
                     clicks, pictures, overlap, switched, crashed>>
  BY DEF OpenCamera, Do, renderVars, viewVars, countVars
<1>2. CASE cameraInstance' = Null /\ openFailed' = TRUE /\ cam' = cam
  BY <1>1, <1>2 DEF IInv, TypeOK
<1>3. ASSUME NEW c \in Cameras, NEW evicted \in EvictedBy(facing),
             cam' = [d \in Cameras |->
                       IF d = c THEN [cam[c] EXCEPT !.state = "open", !.facing = facing]
                       ELSE IF d \in evicted THEN [cam[d] EXCEPT !.state = "evicted"]
                       ELSE cam[d]],
             cameraInstance' = c, openFailed' = openFailed
      PROVE  /\ cam' \in [Cameras -> [state : {"none", "open", "previewing", "evicted",
                                               "released"},
                                      facing : Facings, texture : Nat]]
             /\ cam'[c].state = "open" /\ cam'[c].facing = facing
             /\ \A d \in Cameras : d # c /\ Open(d)' => Open(d) /\ cam[d].facing # facing
  <2>1. cam \in [Cameras -> [state : {"none", "open", "previewing", "evicted", "released"},
                             facing : Facings, texture : Nat]] /\ facing \in Facings
    BY DEF IInv, TypeOK
  <2>2. cam'[c].state = "open" /\ cam'[c].facing = facing
    BY <1>3, <2>1
  <2>3. cam' \in [Cameras -> [state : {"none", "open", "previewing", "evicted", "released"},
                              facing : Facings, texture : Nat]]
    BY <1>3, <2>1
  <2>4. ASSUME NEW d \in Cameras, d # c, Open(d)'
        PROVE  Open(d) /\ cam[d].facing # facing
    <3>1. cam'[d].state \in {"open", "previewing"}
      BY <2>4 DEF Open
    <3>2. d \notin evicted /\ cam'[d] = cam[d]
      BY <1>3, <2>4, <3>1
    <3>3. \A e \in Cameras : Open(e) /\ cam[e].facing = facing => e \in evicted
      BY Zenon DEF EvictedBy
    <3>. QED
      BY <3>1, <3>2, <3>3 DEF Open
  <2>. QED
    BY <2>2, <2>3, <2>4
<1>4. CASE \E c \in Cameras, evicted \in EvictedBy(facing) :
             /\ cam' = [d \in Cameras |->
                          IF d = c THEN [cam[c] EXCEPT !.state = "open", !.facing = facing]
                          ELSE IF d \in evicted THEN [cam[d] EXCEPT !.state = "evicted"]
                          ELSE cam[d]]
             /\ cameraInstance' = c /\ openFailed' = openFailed
  BY <1>1, <1>3, <1>4
<1>. QED
  BY <1>2, <1>4 DEF OpenCamera

(* setUpCamera's Camera.open, in onResume or switchCamera.                 *)
LEMMA OpenUIKeeps ==
  ASSUME IInv, crashed = "no", OpenCamera("ui")
  PROVE  IInv'
<1>1. \/ UIProgram = "waitResume" /\ UILeft = 6
      \/ UIProgram = "start" /\ UILeft = 4
  BY UIPlace DEF IInv, UIAt, At, OpenCamera, Do
<1>2. /\ Places' /\ UIAlone /\ UILeft' = UILeft - 1
      /\ UIProgram' = IF UILeft = 1 THEN "none" ELSE UIProgram
  BY <1>1, UISkips, Opens DEF IInv, Threads
<1>3. UNCHANGED <<activity, loader, facing, loaderTexture, sizeOf, texture, imageSize,
                  manager, surface, context, requestPaused, glPaused, begun, textures,
                  clicks, pictures, overlap, switched, crashed>>
  BY Opens DEF Threads
<1>4. openFailed' \in BOOLEAN
  BY Opens, Zenon DEF IInv, TypeOK, Threads
<1>5. cameraInstance' \in Cameras \cup {Null}
  BY Opens, Zenon DEF Threads
<1>6. cam' \in [Cameras -> [state : {"none", "open", "previewing", "evicted", "released"},
                         facing : Facings, texture : Nat]]
  BY Opens, Zenon DEF Threads
<1>7. ~overlap => \A d \in Cameras : Open(d) => cam[d].facing = facing
  BY <1>1, Nulls DEF IInv, FieldKnows, OneAtATime, UICamera, SetUpLeft, UISetUp
<1>8. ~overlap => \/ cameraInstance' = Null /\ openFailed' /\ cam' = cam
                  \/ /\ cameraInstance' # Null /\ cam'[cameraInstance'].state = "open"
                     /\ cam'[cameraInstance'].facing = facing
                     /\ \A d \in Cameras : Open(d)' => d = cameraInstance'
  BY <1>7, Opens, Nulls DEF Threads
<1>9. TypeOK'
  BY <1>3, <1>4, <1>5, <1>6 DEF IInv, TypeOK
<1>10. LifeAgrees' /\ GLObeys' /\ OneAtATime'
  BY <1>1, <1>2, <1>3 DEF IInv, LifeAgrees, GLObeys, OneAtATime, Stopped, UICamera, UIAlone
<1>11. FieldKnows' /\ GivenUp'
  BY <1>1, <1>2, <1>3, <1>8
     DEF IInv, FieldKnows, GivenUp, SetUpLeft, UISetUp, ReleaseLeft, Open, LifeAgrees
<1>12. TextureKnown' /\ PictureShown'
  BY <1>1, <1>2, <1>3
     DEF IInv, TextureKnown, PictureShown, SetUpLeft, UISetUp, UICamera, OneAtATime, UIAlone
<1>13. SizesFit' /\ SizesSet'
  BY <1>2, <1>3 DEF IInv, SizesFit, SizesSet, UIAlone
<1>14. ClicksOwed' /\ CrashCause'
  BY <1>2, <1>3 DEF IInv, ClicksOwed, CrashCause, UIAlone
<1>. QED
  BY <1>2, <1>9, <1>10, <1>11, <1>12, <1>13, <1>14 DEF IInv

(* setUpCamera's Camera.open, in onSurfaceCreated.                         *)
LEMMA OpenGLKeeps ==
  ASSUME IInv, crashed = "no", OpenCamera("gl")
  PROVE  IInv'
<1>1. GLLeft = 9
  BY GLPlace DEF IInv, GLAt, At, OpenCamera, Do
<1>2. Places' /\ GLAlone /\ GLLeft' = GLLeft - 1
  BY <1>1, GLSkips, Opens DEF IInv, Threads
<1>3. UNCHANGED <<activity, loader, facing, loaderTexture, sizeOf, texture, imageSize,
                  manager, surface, context, requestPaused, glPaused, begun, textures,
                  clicks, pictures, overlap, switched, crashed>>
  BY Opens DEF Threads
<1>4. openFailed' \in BOOLEAN
  BY Opens, Zenon DEF IInv, TypeOK, Threads
<1>5. cameraInstance' \in Cameras \cup {Null}
  BY Opens, Zenon DEF Threads
<1>6. cam' \in [Cameras -> [state : {"none", "open", "previewing", "evicted", "released"},
                         facing : Facings, texture : Nat]]
  BY Opens, Zenon DEF Threads
<1>7. ~overlap => \A d \in Cameras : Open(d) => cam[d].facing = facing
  BY <1>1, Nulls DEF IInv, FieldKnows, OneAtATime, UICamera, SetUpLeft, UISetUp
<1>8. ~overlap => \/ cameraInstance' = Null /\ openFailed' /\ cam' = cam
                  \/ /\ cameraInstance' # Null /\ cam'[cameraInstance'].state = "open"
                     /\ cam'[cameraInstance'].facing = facing
                     /\ \A d \in Cameras : Open(d)' => d = cameraInstance'
  BY <1>7, Opens, Nulls DEF Threads
<1>9. ~overlap => activity = "resumed" /\ UIProgram # "waitPause"
  BY <1>1 DEF IInv, OneAtATime, GLObeys, Stopped
<1>10. TypeOK'
  BY <1>3, <1>4, <1>5, <1>6 DEF IInv, TypeOK
<1>11. LifeAgrees' /\ GLObeys' /\ OneAtATime'
  BY <1>1, <1>2, <1>3 DEF IInv, LifeAgrees, GLObeys, OneAtATime, Stopped, UICamera, GLAlone
<1>12. FieldKnows' /\ GivenUp'
  BY <1>1, <1>2, <1>3, <1>8, <1>9
     DEF IInv, FieldKnows, GivenUp, SetUpLeft, ReleaseLeft, Open, UICamera, OneAtATime,
         GLAlone
<1>13. TextureKnown' /\ PictureShown'
  BY <1>1, <1>2, <1>3
     DEF IInv, TextureKnown, PictureShown, SetUpLeft, UISetUp, UICamera, OneAtATime, GLAlone
<1>14. SizesFit' /\ SizesSet'
  BY <1>1, <1>2, <1>3 DEF IInv, SizesFit, SizesSet, GLAlone
<1>15. ClicksOwed' /\ CrashCause'
  BY <1>1, <1>2, <1>3 DEF IInv, ClicksOwed, CrashCause
<1>. QED
  BY <1>2, <1>10, <1>11, <1>12, <1>13, <1>14, <1>15 DEF IInv

(* The camera's parameters, in onResume or switchCamera.                   *)
LEMMA ConfigureUIKeeps ==
  ASSUME IInv, crashed = "no", Configure("ui")
  PROVE  IInv'
<1>1. \/ UIProgram = "waitResume" /\ UILeft = 5
      \/ UIProgram = "start" /\ UILeft = 3
  BY UIPlace DEF IInv, UIAt, At, Configure
<1>2. CASE ~(Usable)
  <2>1. Crash("camera")
    BY <1>2 DEF Configure
  <2>2. overlap \/ openFailed
    BY <1>1, <1>2 DEF IInv, Usable, FieldKnows, SetUpLeft, UISetUp, ReleaseLeft
  <2>. QED
    BY <2>1, <2>2, CrashKeeps
<1>3. CASE Usable
  <2>1. /\ Places' /\ UIAlone /\ UILeft' = UILeft - 1
        /\ UIProgram' = IF UILeft = 1 THEN "none" ELSE UIProgram
    BY <1>1, <1>3, UISkips DEF IInv, Configure, Do
  <2>2. TypeOK'
    BY <1>3
       DEF IInv, TypeOK, Configure, Usable, loaderVars, viewVars, countVars, historyVars
  <2>3. LifeAgrees' /\ GLObeys' /\ OneAtATime'
    BY <1>1, <1>3, <2>1
       DEF IInv, LifeAgrees, GLObeys, OneAtATime, Stopped, UICamera, Configure, loaderVars,
           viewVars, historyVars, UIAlone
  <2>4. FieldKnows' /\ GivenUp'
    BY <1>1, <1>3, <2>1
       DEF IInv, FieldKnows, GivenUp, ReleaseLeft, Open, NoneOpen, Configure, Usable,
           loaderVars, historyVars
  <2>5. TextureKnown' /\ PictureShown'
    BY <1>1, <1>3, <2>1
       DEF IInv, TextureKnown, PictureShown, Shown, SetUpLeft, UISetUp, UICamera, Configure,
           loaderVars, viewVars, historyVars, UIAlone
  <2>6. SizesFit' /\ SizesSet'
    BY <1>3, <2>1
       DEF IInv, SizesFit, SizesSet, FieldKnows, Configure, Usable, loaderVars, viewVars,
           historyVars, UIAlone
  <2>7. ClicksOwed' /\ CrashCause'
    BY <1>3, <2>1 DEF IInv, ClicksOwed, CrashCause, Configure, countVars, UIAlone
  <2>. QED
    BY <2>1, <2>2, <2>3, <2>4, <2>5, <2>6, <2>7 DEF IInv
<1>. QED
  BY <1>2, <1>3

(* The camera's parameters, in onSurfaceCreated.                           *)
LEMMA ConfigureGLKeeps ==
  ASSUME IInv, crashed = "no", Configure("gl")
  PROVE  IInv'
<1>1. GLLeft = 8
  BY GLPlace DEF IInv, GLAt, At, Configure
<1>2. CASE ~(Usable)
  <2>1. Crash("camera")
    BY <1>2 DEF Configure
  <2>2. overlap \/ openFailed
    BY <1>1, <1>2 DEF IInv, Usable, FieldKnows, OneAtATime, UICamera, SetUpLeft, ReleaseLeft
  <2>. QED
    BY <2>1, <2>2, CrashKeeps
<1>3. CASE Usable
  <2>1. Places' /\ GLAlone /\ GLLeft' = GLLeft - 1
    BY <1>1, <1>3, GLSkips DEF IInv, Configure, Do
  <2>2. TypeOK'
    BY <1>3
       DEF IInv, TypeOK, Configure, Usable, loaderVars, viewVars, countVars, historyVars
  <2>3. LifeAgrees' /\ GLObeys' /\ OneAtATime'
    BY <1>1, <1>3, <2>1
       DEF IInv, LifeAgrees, GLObeys, OneAtATime, Stopped, UICamera, Configure, loaderVars,
           viewVars, historyVars, GLAlone
  <2>4. FieldKnows' /\ GivenUp'
    BY <1>3, <2>1
       DEF IInv, FieldKnows, GivenUp, ReleaseLeft, Open, NoneOpen, Configure, Usable,
           loaderVars, historyVars, GLAlone
  <2>5. TextureKnown' /\ PictureShown'
    BY <1>1, <1>3, <2>1
       DEF IInv, TextureKnown, PictureShown, GLObeys, Shown, SetUpLeft, UISetUp, Configure,
           loaderVars, historyVars, GLAlone
  <2>6. SizesFit' /\ SizesSet'
    BY <1>1, <1>3, <2>1
       DEF IInv, SizesFit, SizesSet, FieldKnows, TypeOK, Configure, Usable, loaderVars,
           historyVars, GLAlone
  <2>7. ClicksOwed' /\ CrashCause'
    BY <1>1, <1>3, <2>1 DEF IInv, ClicksOwed, CrashCause, Configure, countVars
  <2>. QED
    BY <2>1, <2>2, <2>3, <2>4, <2>5, <2>6, <2>7 DEF IInv
<1>. QED
  BY <1>2, <1>3

(* setPreviewTexture, in onResume or switchCamera.                         *)
LEMMA TextureUIKeeps ==
  ASSUME IInv, crashed = "no", SetTexture("ui")
  PROVE  IInv'
<1>1. \/ UIProgram = "waitResume" /\ UILeft = 4
      \/ UIProgram = "start" /\ UILeft = 2
  BY UIPlace DEF IInv, UIAt, At, SetTexture
<1>2. CASE ~(loaderTexture = Null \/ Usable)
  <2>1. Crash("camera")
    BY <1>2 DEF SetTexture
  <2>2. overlap \/ openFailed
    BY <1>1, <1>2 DEF IInv, Usable, FieldKnows, SetUpLeft, UISetUp, ReleaseLeft
  <2>. QED
    BY <2>1, <2>2, CrashKeeps
<1>3. CASE loaderTexture = Null \/ Usable
  <2>1. /\ Places' /\ UIAlone /\ UILeft' = UILeft - 1
        /\ UIProgram' = IF UILeft = 1 THEN "none" ELSE UIProgram
    BY <1>1, <1>3, UISkips DEF IInv, SetTexture, Do
  <2>2. UNCHANGED <<activity, loader, facing, cameraInstance, loaderTexture, sizeOf,
                    texture, imageSize, manager, surface, context, requestPaused, glPaused,
                    begun, textures, clicks, pictures, overlap, openFailed, switched,
                    crashed>>
    BY <1>3 DEF SetTexture, renderVars, viewVars, countVars, historyVars
  <2>3. \/ cam' = cam
        \/ /\ cameraInstance # Null
           /\ cam' = [cam EXCEPT ![cameraInstance].texture = loaderTexture]
    BY <1>3 DEF SetTexture, Usable
  <2>4. ~overlap /\ context => /\ cameraInstance # Null
                             /\ cam' = [cam EXCEPT ![cameraInstance].texture = texture]
    BY <1>1, <1>3, Shape DEF IInv, SetTexture, Usable, TextureKnown, OneAtATime, UICamera
  <2>5. TypeOK'
    BY <2>2, <2>3 DEF IInv, TypeOK
  <2>6. LifeAgrees' /\ GLObeys' /\ OneAtATime'
    BY <1>1, <2>1, <2>2
       DEF IInv, LifeAgrees, GLObeys, OneAtATime, Stopped, UICamera, UIAlone
  <2>7. FieldKnows' /\ GivenUp'
    BY <1>1, <2>1, <2>2, <2>3, <2>4
       DEF IInv, FieldKnows, GivenUp, SetUpLeft, UISetUp, ReleaseLeft, Open, GLObeys,
           TypeOK, NoneOpen
  <2>8. TextureKnown' /\ PictureShown'
    BY <1>1, <2>1, <2>2, <2>4
       DEF IInv, TextureKnown, PictureShown, Shown, UICamera, TypeOK, UIAlone
  <2>9. SizesFit' /\ SizesSet'
    BY <2>1, <2>2 DEF IInv, SizesFit, SizesSet, UIAlone
  <2>10. ClicksOwed' /\ CrashCause'
    BY <2>1, <2>2 DEF IInv, ClicksOwed, CrashCause, UIAlone
  <2>. QED
    BY <2>1, <2>5, <2>6, <2>7, <2>8, <2>9, <2>10 DEF IInv
<1>. QED
  BY <1>2, <1>3

(* setPreviewTexture, in onSurfaceCreated.                                 *)
LEMMA TextureGLKeeps ==
  ASSUME IInv, crashed = "no", SetTexture("gl")
  PROVE  IInv'
<1>1. GLLeft = 7
  BY GLPlace DEF IInv, GLAt, At, SetTexture
<1>2. CASE ~(loaderTexture = Null \/ Usable)
  <2>1. Crash("camera")
    BY <1>2 DEF SetTexture
  <2>2. overlap \/ openFailed
    BY <1>1, <1>2 DEF IInv, Usable, FieldKnows, OneAtATime, UICamera, SetUpLeft, ReleaseLeft
  <2>. QED
    BY <2>1, <2>2, CrashKeeps
<1>3. CASE loaderTexture = Null \/ Usable
  <2>1. Places' /\ GLAlone /\ GLLeft' = GLLeft - 1
    BY <1>1, <1>3, GLSkips DEF IInv, SetTexture, Do
  <2>2. UNCHANGED <<activity, loader, facing, cameraInstance, loaderTexture, sizeOf,
                    texture, imageSize, manager, surface, context, requestPaused, glPaused,
                    begun, textures, clicks, pictures, overlap, openFailed, switched,
                    crashed>>
    BY <1>3 DEF SetTexture, renderVars, viewVars, countVars, historyVars
  <2>3. \/ cam' = cam
        \/ /\ cameraInstance # Null
           /\ cam' = [cam EXCEPT ![cameraInstance].texture = loaderTexture]
    BY <1>3 DEF SetTexture, Usable
  <2>4. ~overlap /\ context => /\ cameraInstance # Null
                             /\ cam' = [cam EXCEPT ![cameraInstance].texture = texture]
    BY <1>1, <1>3 DEF IInv, SetTexture, Usable, TextureKnown
  <2>5. TypeOK'
    BY <1>3, <2>2, <2>3 DEF IInv, TypeOK
  <2>6. LifeAgrees' /\ GLObeys' /\ OneAtATime'
    BY <1>1, <2>1, <2>2
       DEF IInv, LifeAgrees, GLObeys, OneAtATime, Stopped, UICamera, GLAlone
  <2>7. FieldKnows' /\ GivenUp'
    BY <1>1, <2>1, <2>2, <2>3
       DEF IInv, FieldKnows, GivenUp, SetUpLeft, UISetUp, ReleaseLeft, Open, TypeOK,
           NoneOpen, GLAlone
  <2>8. TextureKnown' /\ PictureShown'
    BY <1>1, <2>1, <2>2, <2>4 DEF IInv, TextureKnown, PictureShown, Shown, TypeOK
  <2>9. SizesFit' /\ SizesSet'
    BY <1>1, <2>1, <2>2 DEF IInv, SizesFit, SizesSet, GLAlone
  <2>10. ClicksOwed' /\ CrashCause'
    BY <1>1, <2>1, <2>2 DEF IInv, ClicksOwed, CrashCause
  <2>. QED
    BY <2>1, <2>5, <2>6, <2>7, <2>8, <2>9, <2>10 DEF IInv
<1>. QED
  BY <1>2, <1>3

(* startPreview, in onResume or switchCamera.                              *)
LEMMA StartUIKeeps ==
  ASSUME IInv, crashed = "no", StartPreview("ui")
  PROVE  IInv'
<1>1. \/ UIProgram = "waitResume" /\ UILeft = 3
      \/ UIProgram = "start" /\ UILeft = 1
  BY UIPlace DEF IInv, UIAt, At, StartPreview
<1>2. CASE ~(Usable)
  <2>1. Crash("camera")
    BY <1>2 DEF StartPreview
  <2>2. overlap \/ openFailed
    BY <1>1, <1>2 DEF IInv, Usable, FieldKnows, SetUpLeft, UISetUp, ReleaseLeft
  <2>. QED
    BY <2>1, <2>2, CrashKeeps
<1>3. CASE Usable
  <2>1. /\ Places' /\ UIAlone /\ UILeft' = UILeft - 1
        /\ UIProgram' = IF UILeft = 1 THEN "none" ELSE UIProgram
    BY <1>1, <1>3, UISkips DEF IInv, StartPreview, Do
  <2>2. UNCHANGED <<activity, loader, facing, cameraInstance, loaderTexture, sizeOf,
                    texture, imageSize, manager, surface, context, requestPaused, glPaused,
                    begun, textures, clicks, pictures, overlap, openFailed, switched,
                    crashed>>
    BY <1>3 DEF StartPreview, renderVars, viewVars, countVars, historyVars
  <2>3. cameraInstance \in Cameras /\ cam' = [cam EXCEPT ![cameraInstance].state = "previewing"]
    BY <1>3 DEF IInv, TypeOK, StartPreview, Usable
  <2>4. /\ cam'[cameraInstance].state = "previewing"
        /\ cam'[cameraInstance].texture = cam[cameraInstance].texture
    BY <2>3 DEF IInv, TypeOK
  <2>5. ~overlap /\ context => Shown
    BY <1>1 DEF IInv, PictureShown, SetUpLeft, UISetUp
  <2>6. TypeOK'
    BY <2>2, <2>3 DEF IInv, TypeOK
  <2>7. LifeAgrees' /\ GLObeys' /\ OneAtATime'
    BY <1>1, <2>1, <2>2
       DEF IInv, LifeAgrees, GLObeys, OneAtATime, Stopped, UICamera, UIAlone
  <2>8. FieldKnows' /\ GivenUp'
    BY <1>1, <2>1, <2>2, <2>3
       DEF IInv, FieldKnows, GivenUp, SetUpLeft, UISetUp, ReleaseLeft, Open, UICamera,
           OneAtATime, LifeAgrees
  <2>9. TextureKnown' /\ PictureShown'
    BY <2>1, <2>2, <2>4, <2>5 DEF IInv, TextureKnown, PictureShown, Shown, UIAlone
  <2>10. SizesFit' /\ SizesSet'
    BY <2>1, <2>2 DEF IInv, SizesFit, SizesSet, UIAlone
  <2>11. ClicksOwed' /\ CrashCause'
    BY <2>1, <2>2 DEF IInv, ClicksOwed, CrashCause, UIAlone
  <2>. QED
    BY <2>1, <2>6, <2>7, <2>8, <2>9, <2>10, <2>11 DEF IInv
<1>. QED
  BY <1>2, <1>3

(* startPreview, in onSurfaceCreated.                                      *)
LEMMA StartGLKeeps ==
  ASSUME IInv, crashed = "no", StartPreview("gl")
  PROVE  IInv'
<1>1. GLLeft = 6
  BY GLPlace DEF IInv, GLAt, At, StartPreview
<1>2. CASE ~(Usable)
  <2>1. Crash("camera")
    BY <1>2 DEF StartPreview
  <2>2. overlap \/ openFailed
    BY <1>1, <1>2 DEF IInv, Usable, FieldKnows, OneAtATime, UICamera, SetUpLeft, ReleaseLeft
  <2>. QED
    BY <2>1, <2>2, CrashKeeps
<1>3. CASE Usable
  <2>1. Places' /\ GLAlone /\ GLLeft' = GLLeft - 1
    BY <1>1, <1>3, GLSkips DEF IInv, StartPreview, Do
  <2>2. TypeOK'
    BY <1>3 DEF IInv, TypeOK, StartPreview, renderVars, viewVars, countVars, historyVars
  <2>3. LifeAgrees' /\ GLObeys' /\ OneAtATime'
    BY <1>1, <1>3, <2>1
       DEF IInv, LifeAgrees, GLObeys, OneAtATime, Stopped, StartPreview, viewVars, GLAlone
  <2>4. FieldKnows' /\ GivenUp'
    BY <1>3, <2>1
       DEF IInv, FieldKnows, GivenUp, ReleaseLeft, Open, TypeOK, NoneOpen, StartPreview,
           Usable, historyVars, GLAlone
  <2>5. TextureKnown' /\ PictureShown'
    BY <1>1, <1>3
       DEF IInv, TextureKnown, PictureShown, GLObeys, Shown, SetUpLeft, TypeOK,
           StartPreview, renderVars, historyVars
  <2>6. SizesFit' /\ SizesSet'
    BY <1>1, <1>3, <2>1
       DEF IInv, SizesFit, SizesSet, GLObeys, StartPreview, renderVars, historyVars, GLAlone
  <2>7. ClicksOwed' /\ CrashCause'
    BY <1>1, <1>3, <2>1
       DEF IInv, ClicksOwed, CrashCause, StartPreview, renderVars, countVars
  <2>. QED
    BY <2>1, <2>2, <2>3, <2>4, <2>5, <2>6, <2>7 DEF IInv
<1>. QED
  BY <1>2, <1>3

(* release tests cameraInstance.                                           *)
LEMMA TestKeeps ==
  ASSUME IInv, crashed = "no", ReleaseTest("ui")
  PROVE  IInv'
<1>1. \/ UIProgram = "waitPause" /\ UILeft = 5
      \/ UIProgram = "start" /\ UILeft = 7
      \/ UIProgram = "releaseRenderer" /\ UILeft = 6
  BY UIPlace DEF IInv, UIAt, At, ReleaseTest
<1>2. \E n \in {1, 3} : /\ n = IF cameraInstance = Null THEN 3 ELSE 1
                       /\ Places' /\ UIAlone /\ UILeft' = UILeft - n
                       /\ UIProgram' = IF n = UILeft THEN "none" ELSE UIProgram
  BY <1>1, UISkips, PartsAre DEF IInv, ReleaseTest
<1>3. TypeOK'
  BY DEF IInv, TypeOK, ReleaseTest, loaderVars, renderVars, viewVars, countVars, historyVars
<1>4. LifeAgrees' /\ GLObeys' /\ OneAtATime'
  BY <1>1, <1>2
     DEF IInv, LifeAgrees, GLObeys, OneAtATime, Stopped, UICamera, ReleaseTest, loaderVars,
         viewVars, historyVars, UIAlone
<1>5. FieldKnows' /\ GivenUp'
  BY <1>1, <1>2, Nulls
     DEF IInv, FieldKnows, GivenUp, SetUpLeft, UISetUp, ReleaseLeft, Open, OneAtATime,
         NoneOpen, ReleaseTest, loaderVars, historyVars, UIAlone
<1>6. TextureKnown' /\ PictureShown'
  BY <1>1, <1>2
     DEF IInv, TextureKnown, PictureShown, LifeAgrees, Shown, SetUpLeft, UISetUp, UICamera,
         ReleaseTest, loaderVars, renderVars, viewVars, historyVars, UIAlone
<1>7. SizesFit' /\ SizesSet'
  BY <1>2
     DEF IInv, SizesFit, SizesSet, ReleaseTest, loaderVars, renderVars, viewVars,
         historyVars, UIAlone
<1>8. ClicksOwed' /\ CrashCause'
  BY <1>2 DEF IInv, ClicksOwed, CrashCause, ReleaseTest, renderVars, countVars, UIAlone
<1>. QED
  BY <1>2, <1>3, <1>4, <1>5, <1>6, <1>7, <1>8 DEF IInv

(* release stops and releases the camera.                                  *)
LEMMA StopKeeps ==
  ASSUME IInv, crashed = "no", ReleaseStop("ui")
  PROVE  IInv'
<1>1. \/ UIProgram = "waitPause" /\ UILeft = 4
      \/ UIProgram = "start" /\ UILeft = 6
      \/ UIProgram = "releaseRenderer" /\ UILeft = 5
  BY UIPlace DEF IInv, UIAt, At, ReleaseStop
<1>2. CASE ~(cameraInstance # Null /\ cam[cameraInstance].state # "released")
  <2>1. Crash("camera")
    BY <1>2 DEF ReleaseStop
  <2>2. overlap \/ openFailed
    BY <1>1, <1>2 DEF IInv, FieldKnows, ReleaseLeft, Open
  <2>. QED
    BY <2>1, <2>2, CrashKeeps
<1>3. CASE cameraInstance # Null /\ cam[cameraInstance].state # "released"
  <2>1. /\ Places' /\ UIAlone /\ UILeft' = UILeft - 1
        /\ UIProgram' = IF UILeft = 1 THEN "none" ELSE UIProgram
    BY <1>1, <1>3, UISkips DEF IInv, ReleaseStop, Do
  <2>2. TypeOK'
    BY <1>3 DEF IInv, TypeOK, ReleaseStop, renderVars, viewVars, countVars, historyVars
  <2>3. LifeAgrees' /\ GLObeys' /\ OneAtATime'
    BY <1>1, <1>3, <2>1
       DEF IInv, LifeAgrees, GLObeys, OneAtATime, Stopped, UICamera, ReleaseStop, viewVars,
           historyVars, UIAlone
  <2>4. FieldKnows' /\ GivenUp'
    BY <1>1, <1>3, <2>1
       DEF IInv, FieldKnows, GivenUp, ReleaseLeft, Open, TypeOK, NoneOpen, ReleaseStop,
           historyVars
  <2>5. TextureKnown' /\ PictureShown'
    BY <1>1, <1>3, <2>1
       DEF IInv, TextureKnown, PictureShown, SetUpLeft, UISetUp, UICamera, OneAtATime,
           ReleaseStop, renderVars, viewVars, historyVars, UIAlone
  <2>6. SizesFit' /\ SizesSet'
    BY <1>3, <2>1
       DEF IInv, SizesFit, SizesSet, ReleaseStop, renderVars, viewVars, historyVars, UIAlone
  <2>7. ClicksOwed' /\ CrashCause'
    BY <1>3, <2>1
       DEF IInv, ClicksOwed, CrashCause, ReleaseStop, renderVars, countVars, UIAlone
  <2>. QED
    BY <2>1, <2>2, <2>3, <2>4, <2>5, <2>6, <2>7 DEF IInv
<1>. QED
  BY <1>2, <1>3

(* release sets cameraInstance to null.                                    *)
LEMMA ClearKeeps ==
  ASSUME IInv, crashed = "no", ReleaseClear("ui")
  PROVE  IInv'
<1>1. \/ UIProgram = "waitPause" /\ UILeft = 3
      \/ UIProgram = "start" /\ UILeft = 5
      \/ UIProgram = "releaseRenderer" /\ UILeft = 4
  BY UIPlace DEF IInv, UIAt, At, ReleaseClear, Do
<1>2. /\ Places' /\ UIAlone /\ UILeft' = UILeft - 1
      /\ UIProgram' = IF UILeft = 1 THEN "none" ELSE UIProgram
  BY <1>1, UISkips DEF IInv, ReleaseClear, Do
<1>3. TypeOK'
  BY DEF IInv, TypeOK, ReleaseClear, renderVars, viewVars, countVars, historyVars
<1>4. LifeAgrees' /\ GLObeys' /\ OneAtATime'
  BY <1>1, <1>2
     DEF IInv, LifeAgrees, GLObeys, OneAtATime, Stopped, UICamera, ReleaseClear, viewVars,
         historyVars, UIAlone
<1>5. FieldKnows' /\ GivenUp'
  BY <1>1, <1>2, Nulls
     DEF IInv, FieldKnows, GivenUp, SetUpLeft, UISetUp, ReleaseLeft, Open, UICamera,
         OneAtATime, NoneOpen, ReleaseClear, historyVars, UIAlone
<1>6. TextureKnown' /\ PictureShown'
  BY <1>1, <1>2
     DEF IInv, TextureKnown, PictureShown, LifeAgrees, SetUpLeft, UISetUp, UICamera,
         OneAtATime, ReleaseClear, renderVars, viewVars, historyVars, UIAlone
<1>7. SizesFit' /\ SizesSet'
  BY <1>2
     DEF IInv, SizesFit, SizesSet, ReleaseClear, renderVars, viewVars, historyVars, UIAlone
<1>8. ClicksOwed' /\ CrashCause'
  BY <1>2 DEF IInv, ClicksOwed, CrashCause, ReleaseClear, renderVars, countVars, UIAlone
<1>. QED
  BY <1>2, <1>3, <1>4, <1>5, <1>6, <1>7, <1>8 DEF IInv

(* GLSurfaceView.onResume asks the GL thread to go on.                     *)
LEMMA GLResumeKeeps ==
  ASSUME IInv, crashed = "no", GLResume
  PROVE  IInv'
<1>1. UIProgram = "waitResume" /\ UILeft = 2
  BY UIPlace DEF IInv, UIAt, At, GLResume, GLRequest, Do
<1>2. /\ Places' /\ UIAlone /\ UILeft' = UILeft - 1
      /\ UIProgram' = IF UILeft = 1 THEN "none" ELSE UIProgram
  BY <1>1, UISkips DEF IInv, GLResume, GLRequest, Do
<1>3. requestPaused' \in BOOLEAN
  BY <1>1, <1>2 DEF IInv, GLResume, GLRequest
<1>4. TypeOK'
  BY <1>3
     DEF IInv, TypeOK, GLResume, GLRequest, loaderVars, renderVars, countVars, historyVars
<1>5. LifeAgrees' /\ GLObeys' /\ OneAtATime'
  BY <1>1, <1>2
     DEF IInv, LifeAgrees, GLObeys, OneAtATime, Stopped, GLResume, GLRequest, loaderVars,
         UIAlone
<1>6. FieldKnows' /\ GivenUp'
  BY <1>1, <1>2
     DEF IInv, FieldKnows, GivenUp, SetUpLeft, UISetUp, ReleaseLeft, Open, NoneOpen,
         GLResume, GLRequest, loaderVars, historyVars, UIAlone
<1>7. TextureKnown' /\ PictureShown'
  BY <1>1, <1>2
     DEF IInv, TextureKnown, PictureShown, Shown, SetUpLeft, UISetUp, UICamera, GLResume,
         GLRequest, loaderVars, renderVars, historyVars, UIAlone
<1>8. SizesFit' /\ SizesSet'
  BY <1>2
     DEF IInv, SizesFit, SizesSet, GLResume, GLRequest, loaderVars, renderVars, historyVars,
         UIAlone
<1>9. ClicksOwed' /\ CrashCause'
  BY <1>2
     DEF IInv, ClicksOwed, CrashCause, GLResume, GLRequest, renderVars, countVars, UIAlone
<1>. QED
  BY <1>2, <1>4, <1>5, <1>6, <1>7, <1>8, <1>9 DEF IInv

(* GLSurfaceView.onPause asks the GL thread to pause.                      *)
LEMMA GLPauseKeeps ==
  ASSUME IInv, crashed = "no", GLPause
  PROVE  IInv'
<1>1. UIProgram = "waitPause" /\ UILeft = 2
  BY UIPlace DEF IInv, UIAt, At, GLPause, GLRequest, Do
<1>2. /\ Places' /\ UIAlone /\ UILeft' = UILeft - 1
      /\ UIProgram' = IF UILeft = 1 THEN "none" ELSE UIProgram
  BY <1>1, UISkips DEF IInv, GLPause, GLRequest, Do
<1>3. TypeOK'
  BY DEF IInv, TypeOK, GLPause, GLRequest, loaderVars, renderVars, countVars, historyVars
<1>4. LifeAgrees' /\ GLObeys' /\ OneAtATime'
  BY <1>1, <1>2
     DEF IInv, LifeAgrees, GLObeys, OneAtATime, Stopped, UICamera, GLPause, GLRequest,
         loaderVars, historyVars, UIAlone
<1>5. FieldKnows' /\ GivenUp'
  BY <1>1, <1>2
     DEF IInv, FieldKnows, GivenUp, SetUpLeft, UISetUp, ReleaseLeft, Open, NoneOpen,
         GLPause, GLRequest, loaderVars, historyVars, UIAlone
<1>6. TextureKnown' /\ PictureShown'
  BY <1>1, <1>2
     DEF IInv, TextureKnown, PictureShown, LifeAgrees, Shown, SetUpLeft, UISetUp, GLPause,
         GLRequest, loaderVars, renderVars, historyVars, UIAlone
<1>7. SizesFit' /\ SizesSet'
  BY <1>2
     DEF IInv, SizesFit, SizesSet, GLPause, GLRequest, loaderVars, renderVars, historyVars,
         UIAlone
<1>8. ClicksOwed' /\ CrashCause'
  BY <1>2
     DEF IInv, ClicksOwed, CrashCause, GLPause, GLRequest, renderVars, countVars, UIAlone
<1>. QED
  BY <1>2, <1>3, <1>4, <1>5, <1>6, <1>7, <1>8 DEF IInv

(* GLSurfaceView.onResume waits for the GL thread.                         *)
LEMMA WaitResumeKeeps ==
  ASSUME IInv, crashed = "no", WaitResume
  PROVE  IInv'
<1>1. UIProgram = "waitResume" /\ UILeft = 1
  BY UIPlace DEF IInv, UIAt, At, WaitResume, GLAwait, Do
<1>2. /\ Places' /\ UIAlone /\ UILeft' = UILeft - 1
      /\ UIProgram' = IF UILeft = 1 THEN "none" ELSE UIProgram
  BY <1>1, UISkips DEF IInv, WaitResume, GLAwait, Do
<1>3. TypeOK'
  BY DEF IInv, TypeOK, WaitResume, GLAwait, loaderVars, renderVars, viewVars, countVars,
     historyVars
<1>4. LifeAgrees' /\ GLObeys' /\ OneAtATime'
  BY <1>1, <1>2
     DEF IInv, LifeAgrees, GLObeys, OneAtATime, Stopped, UICamera, WaitResume, GLAwait,
         loaderVars, viewVars, UIAlone
<1>5. FieldKnows' /\ GivenUp'
  BY <1>1, <1>2
     DEF IInv, FieldKnows, GivenUp, SetUpLeft, UISetUp, ReleaseLeft, Open, NoneOpen,
         WaitResume, GLAwait, loaderVars, historyVars, UIAlone
<1>6. TextureKnown' /\ PictureShown'
  BY <1>1, <1>2
     DEF IInv, TextureKnown, PictureShown, Shown, SetUpLeft, UISetUp, UICamera, WaitResume,
         GLAwait, loaderVars, renderVars, viewVars, historyVars, UIAlone
<1>7. SizesFit' /\ SizesSet'
  BY <1>2
     DEF IInv, SizesFit, SizesSet, WaitResume, GLAwait, loaderVars, renderVars, viewVars,
         historyVars, UIAlone
<1>8. ClicksOwed' /\ CrashCause'
  BY <1>2
     DEF IInv, ClicksOwed, CrashCause, WaitResume, GLAwait, renderVars, countVars, UIAlone
<1>. QED
  BY <1>2, <1>3, <1>4, <1>5, <1>6, <1>7, <1>8 DEF IInv

(* GLSurfaceView.onPause waits for the GL thread.                          *)
LEMMA WaitPauseKeeps ==
  ASSUME IInv, crashed = "no", WaitPause
  PROVE  IInv'
<1>1. UIProgram = "waitPause" /\ UILeft = 1
  BY UIPlace DEF IInv, UIAt, At, WaitPause, GLAwait, Do
<1>2. /\ Places' /\ UIAlone /\ UILeft' = UILeft - 1
      /\ UIProgram' = IF UILeft = 1 THEN "none" ELSE UIProgram
  BY <1>1, UISkips DEF IInv, WaitPause, GLAwait, Do
<1>3. TypeOK'
  BY DEF IInv, TypeOK, WaitPause, GLAwait, loaderVars, renderVars, viewVars, countVars,
     historyVars
<1>4. LifeAgrees' /\ GLObeys' /\ OneAtATime'
  BY <1>1, <1>2
     DEF IInv, LifeAgrees, GLObeys, OneAtATime, WaitPause, GLAwait, loaderVars, viewVars,
         UIAlone
<1>5. FieldKnows' /\ GivenUp'
  BY <1>1, <1>2
     DEF IInv, FieldKnows, GivenUp, SetUpLeft, UISetUp, ReleaseLeft, Open, NoneOpen,
         WaitPause, GLAwait, loaderVars, historyVars, UIAlone
<1>6. TextureKnown' /\ PictureShown'
  BY DEF IInv, TextureKnown, PictureShown, GLObeys, WaitPause, GLAwait, viewVars
<1>7. SizesFit' /\ SizesSet'
  BY <1>1, <1>2 DEF IInv, SizesFit, SizesSet, GLObeys, WaitPause, GLAwait, viewVars
<1>8. ClicksOwed' /\ CrashCause'
  BY <1>2
     DEF IInv, ClicksOwed, CrashCause, WaitPause, GLAwait, renderVars, countVars, UIAlone
<1>. QED
  BY <1>2, <1>3, <1>4, <1>5, <1>6, <1>7, <1>8 DEF IInv

(* onDestroy: mCameraLoader = null.                                        *)
LEMMA DropLoaderKeeps ==
  ASSUME IInv, crashed = "no", DropLoader
  PROVE  IInv'
<1>1. UIProgram = "releaseRenderer" /\ UILeft = 3
  BY UIPlace DEF IInv, UIAt, At, DropLoader, Do
<1>2. /\ Places' /\ UIAlone /\ UILeft' = UILeft - 1
      /\ UIProgram' = IF UILeft = 1 THEN "none" ELSE UIProgram
  BY <1>1, UISkips DEF IInv, DropLoader, Do
<1>3. loader' \in BOOLEAN
  BY <1>1, <1>2 DEF IInv, DropLoader
<1>4. TypeOK'
  BY <1>3 DEF IInv, TypeOK, DropLoader, renderVars, viewVars, countVars, historyVars
<1>5. LifeAgrees' /\ GLObeys' /\ OneAtATime'
  BY <1>1, <1>2
     DEF IInv, LifeAgrees, GLObeys, OneAtATime, Stopped, DropLoader, viewVars, UIAlone
<1>6. FieldKnows' /\ GivenUp'
  BY <1>1, <1>2
     DEF IInv, FieldKnows, GivenUp, SetUpLeft, UISetUp, ReleaseLeft, Open, NoneOpen,
         DropLoader, historyVars, UIAlone
<1>7. TextureKnown' /\ PictureShown'
  BY <1>1, <1>2
     DEF IInv, TextureKnown, PictureShown, Shown, SetUpLeft, UISetUp, UICamera, DropLoader,
         renderVars, viewVars, historyVars, UIAlone
<1>8. SizesFit' /\ SizesSet'
  BY <1>2
     DEF IInv, SizesFit, SizesSet, DropLoader, renderVars, viewVars, historyVars, UIAlone
<1>9. ClicksOwed' /\ CrashCause'
  BY <1>2 DEF IInv, ClicksOwed, CrashCause, DropLoader, renderVars, countVars, UIAlone
<1>. QED
  BY <1>2, <1>4, <1>5, <1>6, <1>7, <1>8, <1>9 DEF IInv

(* onDestroy: the renderer's texture is released.                          *)
LEMMA ReleaseTextureKeeps ==
  ASSUME IInv, crashed = "no", ReleaseTexture
  PROVE  IInv'
<1>1. UIProgram = "releaseRenderer" /\ UILeft = 2
  BY UIPlace DEF IInv, UIAt, At, ReleaseTexture, Do
<1>2. /\ Places' /\ UIAlone /\ UILeft' = UILeft - 1
      /\ UIProgram' = IF UILeft = 1 THEN "none" ELSE UIProgram
  BY <1>1, UISkips DEF IInv, ReleaseTexture, Do
<1>3. TypeOK'
  BY Nulls DEF IInv, TypeOK, ReleaseTexture, loaderVars, viewVars, countVars, historyVars
<1>4. LifeAgrees' /\ GLObeys' /\ OneAtATime'
  BY <1>1, <1>2
     DEF IInv, LifeAgrees, GLObeys, OneAtATime, Stopped, ReleaseTexture, viewVars, UIAlone
<1>5. FieldKnows' /\ GivenUp'
  BY <1>1, <1>2
     DEF IInv, FieldKnows, GivenUp, SetUpLeft, UISetUp, ReleaseLeft, Open, NoneOpen,
         ReleaseTexture, loaderVars, historyVars, UIAlone
<1>6. TextureKnown' /\ PictureShown'
  BY <1>1
     DEF IInv, TextureKnown, PictureShown, GLObeys, LifeAgrees, Stopped, ReleaseTexture,
         viewVars
<1>7. SizesFit' /\ SizesSet'
  BY <1>2
     DEF IInv, SizesFit, SizesSet, ReleaseTexture, loaderVars, viewVars, historyVars,
         UIAlone
<1>8. ClicksOwed' /\ CrashCause'
  BY <1>2 DEF IInv, ClicksOwed, CrashCause, ReleaseTexture, countVars, UIAlone
<1>. QED
  BY <1>2, <1>3, <1>4, <1>5, <1>6, <1>7, <1>8 DEF IInv

(* onDestroy: the renderer's filters are released.                         *)
LEMMA ReleaseRendererKeeps ==
  ASSUME IInv, crashed = "no", ReleaseRenderer
  PROVE  IInv'
<1>1. UIProgram = "releaseRenderer" /\ UILeft = 1
  BY UIPlace DEF IInv, UIAt, At, ReleaseRenderer, Do
<1>2. /\ Places' /\ UIAlone /\ UILeft' = UILeft - 1
      /\ UIProgram' = IF UILeft = 1 THEN "none" ELSE UIProgram
  BY <1>1, UISkips DEF IInv, ReleaseRenderer, Do
<1>3. manager' \in Managers
  BY DEF IInv, TypeOK, Managers, ReleaseRenderer
<1>4. TypeOK'
  BY <1>3 DEF IInv, TypeOK, ReleaseRenderer, loaderVars, viewVars, countVars, historyVars
<1>5. LifeAgrees' /\ GLObeys' /\ OneAtATime'
  BY <1>1, <1>2
     DEF IInv, LifeAgrees, GLObeys, OneAtATime, Stopped, ReleaseRenderer, viewVars, UIAlone
<1>6. FieldKnows' /\ GivenUp'
  BY <1>1, <1>2
     DEF IInv, FieldKnows, GivenUp, SetUpLeft, UISetUp, ReleaseLeft, Open, NoneOpen,
         ReleaseRenderer, loaderVars, historyVars, UIAlone
<1>7. TextureKnown' /\ PictureShown'
  BY <1>1, <1>2
     DEF IInv, TextureKnown, PictureShown, Shown, SetUpLeft, UISetUp, UICamera,
         ReleaseRenderer, loaderVars, viewVars, historyVars, UIAlone
<1>8. SizesFit' /\ SizesSet'
  BY <1>2
     DEF IInv, SizesFit, SizesSet, ReleaseRenderer, loaderVars, viewVars, historyVars,
         UIAlone
<1>9. ClicksOwed' /\ CrashCause'
  BY <1>2 DEF IInv, ClicksOwed, CrashCause, ReleaseRenderer, countVars, UIAlone
<1>. QED
  BY <1>2, <1>4, <1>5, <1>6, <1>7, <1>8, <1>9 DEF IInv

(* The GL thread does what it was asked.                                   *)
LEMMA GLFollowKeeps ==
  ASSUME IInv, crashed = "no", GLFollow
  PROVE  IInv'
<1>1. Places' /\ UIAlone /\ GLAlone
  BY Stays DEF IInv, GLFollow
<1>2. glPaused' \in BOOLEAN
  BY DEF IInv, TypeOK, GLFollow
<1>3. context' \in BOOLEAN
  BY <1>1 DEF IInv, GLFollow
<1>4. TypeOK'
  BY <1>3 DEF IInv, TypeOK, GLFollow, loaderVars, renderVars, countVars, historyVars
<1>5. LifeAgrees' /\ GLObeys' /\ OneAtATime'
  BY <1>1, Shape
     DEF IInv, LifeAgrees, GLObeys, OneAtATime, Stopped, GLFollow, loaderVars, UIAlone,
         GLAlone
<1>6. FieldKnows' /\ GivenUp'
  BY <1>1
     DEF IInv, FieldKnows, GivenUp, SetUpLeft, UISetUp, ReleaseLeft, Open, NoneOpen,
         GLFollow, loaderVars, historyVars, UIAlone, GLAlone
<1>7. TextureKnown' /\ PictureShown'
  BY DEF TextureKnown, PictureShown, GLFollow
<1>8. SizesFit' /\ SizesSet'
  BY <1>1 DEF IInv, SizesFit, SizesSet, GLFollow, historyVars, GLAlone
<1>9. ClicksOwed' /\ CrashCause'
  BY <1>1 DEF IInv, ClicksOwed, CrashCause, GLFollow, renderVars, countVars, UIAlone
<1>. QED
  BY <1>1, <1>4, <1>5, <1>6, <1>7, <1>8, <1>9 DEF IInv

(* The GL thread makes a context and begins onSurfaceCreated.              *)
LEMMA CreateContextKeeps ==
  ASSUME IInv, crashed = "no", CreateContext
  PROVE  IInv'
<1>1. /\ Places' /\ GLAlone /\ GLLeft = 0 /\ GLLeft' = 12
      /\ overlap' <=> (overlap \/ UICamera)
      /\ overlap' \in BOOLEAN
  BY GLBegins, UIUses, SurfaceAre DEF IInv, Begin, Other, CreateContext
<1>2. context' \in BOOLEAN /\ switched' \in BOOLEAN
  BY <1>1 DEF IInv, CreateContext
<1>3. begun' \in Nat
  BY DEF IInv, TypeOK, CreateContext, BeginSetUp
<1>4. TypeOK'
  BY <1>1, <1>2, <1>3 DEF IInv, TypeOK, CreateContext, loaderVars, renderVars
<1>5. LifeAgrees' /\ GLObeys' /\ OneAtATime'
  BY <1>1, Shape
     DEF IInv, LifeAgrees, GLObeys, OneAtATime, Stopped, UICamera, CreateContext, GLRunning,
         loaderVars, GLAlone
<1>6. FieldKnows' /\ GivenUp'
  BY <1>1
     DEF IInv, FieldKnows, GivenUp, SetUpLeft, UISetUp, ReleaseLeft, Open, NoneOpen,
         CreateContext, loaderVars, GLAlone
<1>7. TextureKnown' /\ PictureShown'
  BY <1>1 DEF TextureKnown, PictureShown, SetUpLeft, UISetUp, UICamera, GLAlone
<1>8. SizesFit' /\ SizesSet'
  BY <1>1 DEF SizesFit, SizesSet, UICamera, GLAlone
<1>9. ClicksOwed' /\ CrashCause'
  BY <1>1 DEF IInv, ClicksOwed, CrashCause, CreateContext, renderVars
<1>. QED
  BY <1>1, <1>4, <1>5, <1>6, <1>7, <1>8, <1>9 DEF IInv

(* The GL thread begins a frame.                                           *)
LEMMA RequestedDrawKeeps ==
  ASSUME IInv, crashed = "no", RequestedDraw
  PROVE  IInv'
<1>1. Places' /\ GLAlone /\ GLLeft = 0 /\ GLLeft' = 3
  BY GLBegins, PartsAre DEF IInv, RequestedDraw, GLRunning
<1>2. TypeOK'
  BY DEF IInv, TypeOK, RequestedDraw, loaderVars, renderVars, viewVars, countVars,
     historyVars
<1>3. LifeAgrees' /\ GLObeys' /\ OneAtATime'
  BY <1>1
     DEF IInv, LifeAgrees, GLObeys, OneAtATime, Stopped, RequestedDraw, loaderVars,
         viewVars, GLAlone
<1>4. FieldKnows' /\ GivenUp'
  BY <1>1
     DEF IInv, FieldKnows, GivenUp, SetUpLeft, UISetUp, ReleaseLeft, Open, NoneOpen,
         RequestedDraw, loaderVars, historyVars, GLAlone
<1>5. TextureKnown' /\ PictureShown'
  BY <1>1
     DEF IInv, TextureKnown, PictureShown, Shown, SetUpLeft, UISetUp, UICamera,
         RequestedDraw, loaderVars, renderVars, historyVars, GLAlone
<1>6. SizesFit' /\ SizesSet'
  BY <1>1
     DEF IInv, SizesFit, SizesSet, RequestedDraw, loaderVars, renderVars, historyVars,
         GLAlone
<1>7. ClicksOwed' /\ CrashCause'
  BY <1>1 DEF IInv, ClicksOwed, CrashCause, RequestedDraw, renderVars, countVars
<1>. QED
  BY <1>1, <1>2, <1>3, <1>4, <1>5, <1>6, <1>7 DEF IInv

(* onSurfaceCreated makes the RendererManager.                             *)
LEMMA MakeManagerKeeps ==
  ASSUME IInv, crashed = "no", MakeManager
  PROVE  IInv'
<1>1. GLLeft = 12
  BY GLPlace DEF IInv, GLAt, At, MakeManager, Do
<1>2. Places' /\ GLAlone /\ GLLeft' = GLLeft - 1
  BY <1>1, GLSkips DEF IInv, MakeManager, Do
<1>3. UNCHANGED <<activity, loader, facing, cameraInstance, loaderTexture, sizeOf, cam,
                  texture, imageSize, surface, context, requestPaused, glPaused, begun,
                  textures, clicks, pictures, overlap, openFailed, switched, crashed>>
  BY DEF MakeManager, loaderVars, viewVars, countVars, historyVars
<1>4. manager' = [filters |-> "live", image |-> NoSize, frame |-> NoSize, take |-> FALSE]
  BY DEF MakeManager, NoManager
<1>5. manager' \in Managers
  BY <1>4, Zenon DEF Managers
<1>6. TypeOK'
  BY <1>3, <1>5 DEF IInv, TypeOK
<1>7. LifeAgrees' /\ GLObeys' /\ OneAtATime'
  BY <1>1, <1>2, <1>3 DEF IInv, LifeAgrees, GLObeys, OneAtATime, Stopped, UICamera, GLAlone
<1>8. FieldKnows' /\ GivenUp'
  BY <1>1, <1>2, <1>3
     DEF IInv, FieldKnows, GivenUp, SetUpLeft, UISetUp, ReleaseLeft, Open, NoneOpen, GLAlone
<1>9. TextureKnown' /\ PictureShown'
  BY <1>1, <1>2, <1>3
     DEF IInv, TextureKnown, PictureShown, Shown, SetUpLeft, UISetUp, GLAlone
<1>10. SizesFit' /\ SizesSet'
  BY <1>1, <1>2, <1>3 DEF IInv, SizesFit, SizesSet, GLAlone
<1>11. ClicksOwed' /\ CrashCause'
  BY <1>1, <1>2, <1>3, <1>4 DEF IInv, ClicksOwed, CrashCause
<1>. QED
  BY <1>2, <1>6, <1>7, <1>8, <1>9, <1>10, <1>11 DEF IInv

(* onSurfaceCreated makes the texture.                                     *)
LEMMA CreateTextureKeeps ==
  ASSUME IInv, crashed = "no", CreateTexture
  PROVE  IInv'
<1>1. GLLeft = 11
  BY GLPlace DEF IInv, GLAt, At, CreateTexture, Do
<1>2. Places' /\ GLAlone /\ GLLeft' = GLLeft - 1
  BY <1>1, GLSkips DEF IInv, CreateTexture, Do
<1>3. TypeOK'
  BY DEF IInv, TypeOK, CreateTexture, loaderVars, viewVars, countVars, historyVars
<1>4. LifeAgrees' /\ GLObeys' /\ OneAtATime'
  BY <1>1, <1>2
     DEF IInv, LifeAgrees, GLObeys, OneAtATime, Stopped, UICamera, CreateTexture,
         loaderVars, viewVars, historyVars, GLAlone
<1>5. FieldKnows' /\ GivenUp'
  BY <1>1, <1>2
     DEF IInv, FieldKnows, GivenUp, SetUpLeft, UISetUp, ReleaseLeft, Open, NoneOpen,
         CreateTexture, loaderVars, historyVars, GLAlone
<1>6. TextureKnown' /\ PictureShown'
  BY <1>1, <1>2, Nulls
     DEF IInv, TextureKnown, PictureShown, TypeOK, SetUpLeft, UISetUp, UICamera, OneAtATime,
         CreateTexture, historyVars, GLAlone
<1>7. SizesFit' /\ SizesSet'
  BY <1>1, <1>2 DEF IInv, SizesFit, SizesSet, CreateTexture, historyVars, GLAlone
<1>8. ClicksOwed' /\ CrashCause'
  BY <1>1, <1>2 DEF IInv, ClicksOwed, CrashCause, CreateTexture, countVars
<1>. QED
  BY <1>2, <1>3, <1>4, <1>5, <1>6, <1>7, <1>8 DEF IInv

(* onSurfaceCreated hands the texture to the loader.                       *)
LEMMA ShareTextureKeeps ==
  ASSUME IInv, crashed = "no", ShareTexture
  PROVE  IInv'
<1>1. GLLeft = 10
  BY GLPlace DEF IInv, GLAt, At, ShareTexture
<1>2. Places' /\ GLAlone /\ GLLeft' = GLLeft - (IF loader THEN 1 ELSE 5)
  BY <1>1, GLSkips, PartsAre DEF IInv, ShareTexture
<1>3. UNCHANGED <<activity, loader, facing, cameraInstance, sizeOf, cam, texture, imageSize,
                  manager, surface, context, requestPaused, glPaused, begun, textures,
                  clicks, pictures, overlap, openFailed, switched, crashed>>
  BY DEF ShareTexture, renderVars, viewVars, countVars, historyVars
<1>4. loader
  BY <1>1 DEF IInv, LifeAgrees, GLObeys, Stopped
<1>5. GLLeft' = GLLeft - 1 /\ loaderTexture' = texture
  BY <1>2, <1>4 DEF ShareTexture
<1>6. TypeOK'
  BY <1>3, <1>5 DEF IInv, TypeOK
<1>7. LifeAgrees' /\ GLObeys' /\ OneAtATime'
  BY <1>1, <1>2, <1>3 DEF IInv, LifeAgrees, GLObeys, OneAtATime, Stopped, UICamera, GLAlone
<1>8. FieldKnows' /\ GivenUp'
  BY <1>1, <1>2, <1>3
     DEF IInv, FieldKnows, GivenUp, SetUpLeft, UISetUp, ReleaseLeft, Open, NoneOpen, GLAlone
<1>9. TextureKnown' /\ PictureShown'
  BY <1>1, <1>2, <1>3, <1>5
     DEF IInv, TextureKnown, PictureShown, Shown, SetUpLeft, UISetUp, GLAlone
<1>10. SizesFit' /\ SizesSet'
  BY <1>1, <1>2, <1>3, <1>5 DEF IInv, SizesFit, SizesSet, GLAlone
<1>11. ClicksOwed' /\ CrashCause'
  BY <1>1, <1>3, <1>5 DEF IInv, ClicksOwed, CrashCause
<1>. QED
  BY <1>2, <1>6, <1>7, <1>8, <1>9, <1>10, <1>11 DEF IInv

(* onSurfaceChanged hands the image size to the filters.                   *)
LEMMA SetImageSizeKeeps ==
  ASSUME IInv, crashed = "no", SetImageSize
  PROVE  IInv'
<1>1. GLLeft = 5
  BY GLPlace DEF IInv, GLAt, At, SetImageSize, Do
<1>2. Places' /\ GLAlone /\ GLLeft' = GLLeft - 1
  BY <1>1, GLSkips DEF IInv, SetImageSize, Do
<1>3. manager' \in Managers
  BY DEF IInv, TypeOK, Managers, SetImageSize
<1>4. TypeOK'
  BY <1>3 DEF IInv, TypeOK, SetImageSize, loaderVars, viewVars, countVars, historyVars
<1>5. LifeAgrees' /\ GLObeys' /\ OneAtATime'
  BY <1>1, <1>2
     DEF IInv, LifeAgrees, GLObeys, OneAtATime, Stopped, SetImageSize, loaderVars, viewVars,
         GLAlone
<1>6. FieldKnows' /\ GivenUp'
  BY <1>1, <1>2
     DEF IInv, FieldKnows, GivenUp, SetUpLeft, UISetUp, ReleaseLeft, Open, NoneOpen,
         SetImageSize, loaderVars, historyVars, GLAlone
<1>7. TextureKnown' /\ PictureShown'
  BY <1>1, <1>2
     DEF IInv, TextureKnown, PictureShown, GLObeys, Shown, SetUpLeft, UISetUp, UICamera,
         SetImageSize, loaderVars, historyVars, GLAlone
<1>8. SizesFit' /\ SizesSet'
  BY <1>1, <1>2
     DEF IInv, SizesFit, SizesSet, GLObeys, SetImageSize, loaderVars, historyVars, GLAlone
<1>9. ClicksOwed' /\ CrashCause'
  BY <1>1, <1>2 DEF IInv, ClicksOwed, CrashCause, SetImageSize, countVars
<1>. QED
  BY <1>2, <1>4, <1>5, <1>6, <1>7, <1>8, <1>9 DEF IInv

(* onSurfaceChanged makes the frame buffer.                                *)
LEMMA SetDisplaySizeKeeps ==
  ASSUME IInv, crashed = "no", SetDisplaySize
  PROVE  IInv'
<1>1. GLLeft = 4
  BY GLPlace DEF IInv, GLAt, At, SetDisplaySize, Do
<1>2. Places' /\ GLAlone /\ GLLeft' = GLLeft - 1
  BY <1>1, GLSkips DEF IInv, SetDisplaySize, Do
<1>3. manager' \in Managers
  BY DEF IInv, TypeOK, Managers, SetDisplaySize
<1>4. TypeOK'
  BY <1>3 DEF IInv, TypeOK, SetDisplaySize, loaderVars, viewVars, countVars, historyVars
<1>5. LifeAgrees' /\ GLObeys' /\ OneAtATime'
  BY <1>1, <1>2
     DEF IInv, LifeAgrees, GLObeys, OneAtATime, Stopped, SetDisplaySize, loaderVars,
         viewVars, GLAlone
<1>6. FieldKnows' /\ GivenUp'
  BY <1>1, <1>2
     DEF IInv, FieldKnows, GivenUp, SetUpLeft, UISetUp, ReleaseLeft, Open, NoneOpen,
         SetDisplaySize, loaderVars, historyVars, GLAlone
<1>7. TextureKnown' /\ PictureShown'
  BY <1>1, <1>2
     DEF IInv, TextureKnown, PictureShown, GLObeys, Shown, SetUpLeft, UISetUp, UICamera,
         SetDisplaySize, loaderVars, historyVars, GLAlone
<1>8. SizesFit' /\ SizesSet'
  BY <1>1, <1>2
     DEF IInv, SizesFit, SizesSet, GLObeys, SetDisplaySize, loaderVars, historyVars, GLAlone
<1>9. ClicksOwed' /\ CrashCause'
  BY <1>1, <1>2 DEF IInv, ClicksOwed, CrashCause, SetDisplaySize, countVars
<1>. QED
  BY <1>2, <1>4, <1>5, <1>6, <1>7, <1>8, <1>9 DEF IInv

(* onDrawFrame draws.                                                      *)
LEMMA DrawKeeps ==
  ASSUME IInv, crashed = "no", Draw
  PROVE  IInv'
<1>1. GLLeft = 3
  BY GLPlace DEF IInv, GLAt, At, Draw
<1>2. CASE texture = Null \/ (manager.filters = "live" /\ manager.frame = NoSize)
  BY <1>1, <1>2, CrashKeeps DEF IInv, Draw, TextureKnown, SizesSet, GLObeys
<1>3. CASE texture # Null /\ ~(manager.filters = "live" /\ manager.frame = NoSize)
  <2>1. /\ Places' /\ GLAlone
        /\ GLLeft' = GLLeft - (IF manager.filters = "live" /\ manager.take THEN 1 ELSE 3)
    BY <1>1, <1>3, GLSkips, PartsAre DEF IInv, Draw
  <2>2. UNCHANGED <<activity, loader, facing, cameraInstance, loaderTexture, sizeOf, cam,
                    texture, imageSize, manager, surface, context, requestPaused, glPaused,
                    begun, textures, clicks, pictures, overlap, openFailed, switched,
                    crashed>>
    BY <1>3 DEF Draw, loaderVars, renderVars, viewVars, countVars, historyVars
  <2>3. TypeOK'
    BY <2>2 DEF IInv, TypeOK
  <2>4. LifeAgrees' /\ GLObeys' /\ OneAtATime'
    BY <1>1, <2>1, <2>2 DEF IInv, LifeAgrees, GLObeys, OneAtATime, Stopped, GLAlone
  <2>5. FieldKnows' /\ GivenUp'
    BY <1>1, <2>1, <2>2
       DEF IInv, FieldKnows, GivenUp, SetUpLeft, UISetUp, ReleaseLeft, Open, NoneOpen,
           GLAlone
  <2>6. TextureKnown' /\ PictureShown'
    BY <1>1, <2>1, <2>2
       DEF IInv, TextureKnown, PictureShown, Shown, SetUpLeft, UISetUp, UICamera, GLAlone
  <2>7. SizesFit' /\ SizesSet'
    BY <1>1, <2>1, <2>2 DEF IInv, SizesFit, SizesSet, GLAlone
  <2>8. ClicksOwed' /\ CrashCause'
    BY <1>1, <2>1, <2>2 DEF IInv, ClicksOwed, CrashCause
  <2>. QED
    BY <2>1, <2>3, <2>4, <2>5, <2>6, <2>7, <2>8 DEF IInv
<1>. QED
  BY <1>2, <1>3

(* onDrawFrame saves the picture that was asked for.                       *)
LEMMA SavePictureKeeps ==
  ASSUME IInv, crashed = "no", SavePicture
  PROVE  IInv'
<1>1. GLLeft = 2
  BY GLPlace DEF IInv, GLAt, At, SavePicture, Do
<1>2. Places' /\ GLAlone /\ GLLeft' = GLLeft - 1
  BY <1>1, GLSkips DEF IInv, SavePicture, Do
<1>3. TypeOK'
  BY DEF IInv, TypeOK, SavePicture, loaderVars, renderVars, viewVars, historyVars
<1>4. LifeAgrees' /\ GLObeys' /\ OneAtATime'
  BY <1>1, <1>2
     DEF IInv, LifeAgrees, GLObeys, OneAtATime, Stopped, SavePicture, loaderVars, viewVars,
         GLAlone
<1>5. FieldKnows' /\ GivenUp'
  BY <1>1, <1>2
     DEF IInv, FieldKnows, GivenUp, SetUpLeft, UISetUp, ReleaseLeft, Open, NoneOpen,
         SavePicture, loaderVars, historyVars, GLAlone
<1>6. TextureKnown' /\ PictureShown'
  BY <1>1, <1>2
     DEF IInv, TextureKnown, PictureShown, GLObeys, Shown, SetUpLeft, UISetUp, UICamera,
         SavePicture, loaderVars, renderVars, historyVars, GLAlone
<1>7. SizesFit' /\ SizesSet'
  BY <1>1, <1>2
     DEF IInv, SizesFit, SizesSet, GLObeys, SavePicture, loaderVars, renderVars,
         historyVars, GLAlone
<1>8. ClicksOwed' /\ CrashCause'
  BY <1>1, <1>2 DEF IInv, ClicksOwed, CrashCause, TypeOK, SavePicture
<1>. QED
  BY <1>2, <1>3, <1>4, <1>5, <1>6, <1>7, <1>8 DEF IInv

(* onDrawFrame resets the flag.                                            *)
LEMMA ResetTakeKeeps ==
  ASSUME IInv, crashed = "no", ResetTake
  PROVE  IInv'
<1>1. GLLeft = 1
  BY GLPlace DEF IInv, GLAt, At, ResetTake, Do
<1>2. Places' /\ GLAlone /\ GLLeft' = GLLeft - 1
  BY <1>1, GLSkips DEF IInv, ResetTake, Do
<1>3. UNCHANGED <<activity, loader, facing, cameraInstance, loaderTexture, sizeOf, cam,
                  texture, imageSize, surface, context, requestPaused, glPaused, begun,
                  textures, clicks, pictures, overlap, openFailed, switched, crashed>>
  BY DEF ResetTake, loaderVars, viewVars, countVars, historyVars
<1>4. manager' = [manager EXCEPT !.take = FALSE]
  BY DEF ResetTake
<1>5. /\ manager' \in Managers /\ manager'.take = FALSE /\ manager'.filters = manager.filters
      /\ manager'.image = manager.image /\ manager'.frame = manager.frame
  BY <1>4 DEF IInv, TypeOK, Managers
<1>6. TypeOK'
  BY <1>3, <1>5 DEF IInv, TypeOK
<1>7. LifeAgrees' /\ GLObeys' /\ OneAtATime'
  BY <1>1, <1>2, <1>3 DEF IInv, LifeAgrees, GLObeys, OneAtATime, Stopped, GLAlone
<1>8. FieldKnows' /\ GivenUp'
  BY <1>1, <1>2, <1>3
     DEF IInv, FieldKnows, GivenUp, SetUpLeft, UISetUp, ReleaseLeft, Open, NoneOpen, GLAlone
<1>9. TextureKnown' /\ PictureShown'
  BY <1>1, <1>2, <1>3
     DEF IInv, TextureKnown, PictureShown, Shown, SetUpLeft, UISetUp, UICamera, GLAlone
<1>10. SizesFit' /\ SizesSet'
  BY <1>1, <1>2, <1>3, <1>5 DEF IInv, SizesFit, SizesSet, GLAlone
<1>11. ClicksOwed' /\ CrashCause'
  BY <1>1, <1>2, <1>3, <1>5 DEF IInv, ClicksOwed, CrashCause
<1>. QED
  BY <1>2, <1>6, <1>7, <1>8, <1>9, <1>10, <1>11 DEF IInv

-----------------------------------------------------------------------------

(* A step that changes nothing.                                            *)
LEMMA StutterKeeps ==
  ASSUME IInv, UNCHANGED vars
  PROVE  IInv'
<1>1. Places' /\ UIAlone /\ GLAlone
  BY Stays DEF IInv, vars
<1>2. UNCHANGED <<activity, loader, facing, cameraInstance, loaderTexture, sizeOf, cam,
                  texture, imageSize, manager, surface, context, requestPaused, glPaused,
                  begun, textures, clicks, pictures, overlap, openFailed, switched,
                  crashed>>
  BY DEF vars, loaderVars, renderVars, viewVars, countVars, historyVars
<1>3. TypeOK' /\ CrashCause'
  BY <1>2 DEF IInv, TypeOK, CrashCause
<1>4. LifeAgrees' /\ GLObeys' /\ OneAtATime' /\ TextureKnown' /\ PictureShown'
  BY <1>1, <1>2
     DEF IInv, UIAlone, GLAlone, LifeAgrees, GLObeys, Stopped, OneAtATime, UICamera,
         TextureKnown, PictureShown, Shown, SetUpLeft, UISetUp
<1>5. FieldKnows' /\ GivenUp'
  BY <1>1, <1>2
     DEF IInv, UIAlone, GLAlone, FieldKnows, GivenUp, NoneOpen, Open, SetUpLeft, UISetUp,
         ReleaseLeft
<1>6. SizesFit' /\ SizesSet' /\ ClicksOwed'
  BY <1>1, <1>2 DEF IInv, UIAlone, GLAlone, SizesFit, SizesSet, ClicksOwed
<1>. QED
  BY <1>1, <1>3, <1>4, <1>5, <1>6 DEF IInv

(* The activity before its first onResume.                                 *)
LEMMA InitHolds ==
  ASSUME Init
  PROVE  IInv
<1>1. todo["ui"] = <<>> /\ todo["gl"] = <<>> /\ todo \in [Threads -> Seq(Steps)]
  BY DEF Init, Threads
<1>2. UILeft = 0 /\ GLLeft = 0 /\ UIProgram = "none"
  BY <1>1 DEF UILeft, GLLeft, UIProgram
<1>3. Places
  BY <1>1, SuffixEnds, ResumeAre, SurfaceAre DEF Places
<1>4. manager \in Managers
  BY DEF Init, NoManager, Managers
<1>5. cam \in [Cameras -> [state : {"none", "open", "previewing", "evicted", "released"},
                           facing : Facings, texture : Nat]]
  BY Nulls DEF Init, Facings
<1>6. TypeOK
  BY <1>4, <1>5, Nulls DEF Init, TypeOK, Facings
<1>7. \A c \in Cameras : ~Open(c)
  BY DEF Init, Open
<1>8. LifeAgrees /\ GLObeys /\ OneAtATime /\ TextureKnown /\ CrashCause /\ PictureShown
  BY <1>2
     DEF Init, LifeAgrees, GLObeys, Stopped, OneAtATime, UICamera, TextureKnown, CrashCause,
         PictureShown, SetUpLeft, UISetUp
<1>9. FieldKnows /\ GivenUp
  BY <1>2, <1>7 DEF Init, FieldKnows, GivenUp, NoneOpen, SetUpLeft, UISetUp, ReleaseLeft
<1>10. SizesFit /\ SizesSet /\ ClicksOwed
  BY <1>2 DEF Init, SizesFit, SizesSet, ClicksOwed, NoManager
<1>. QED
  BY <1>3, <1>6, <1>8, <1>9, <1>10 DEF IInv

(* The invariant is inductive: one lemma per action.                       *)
LEMMA NextKeeps ==
  ASSUME IInv, Next
  PROVE  IInv'
<1>1. CASE UIBegin
  BY <1>1, ResumeKeeps, PauseKeeps, SwitchKeeps, TakePictureKeeps, DestroyKeeps,
     SurfaceChangeKeeps DEF Next, UIBegin
<1>2. CASE CameraStep("ui")
  BY <1>2, OpenUIKeeps, ConfigureUIKeeps, TextureUIKeeps, StartUIKeeps, TestKeeps,
     StopKeeps, ClearKeeps DEF Next, CameraStep
<1>3. CASE CameraStep("gl")
  <2>1. ~At("gl", "test") /\ ~At("gl", "stop") /\ ~At("gl", "clear")
    BY GLPlace DEF IInv, GLAt, At
  <2>2. ~ReleaseTest("gl") /\ ~ReleaseStop("gl") /\ ~ReleaseClear("gl")
    BY <2>1 DEF ReleaseTest, ReleaseStop, ReleaseClear, Do
  <2>. QED
    BY <1>3, <2>2, OpenGLKeeps, ConfigureGLKeeps, TextureGLKeeps, StartGLKeeps
       DEF Next, CameraStep
<1>4. CASE GLResume \/ GLPause \/ WaitResume \/ WaitPause
  BY <1>4, GLResumeKeeps, GLPauseKeeps, WaitResumeKeeps, WaitPauseKeeps DEF Next
<1>5. CASE DropLoader \/ ReleaseTexture \/ ReleaseRenderer
  BY <1>5, DropLoaderKeeps, ReleaseTextureKeeps, ReleaseRendererKeeps DEF Next
<1>6. CASE GLFollow \/ CreateContext \/ RequestedDraw
  BY <1>6, GLFollowKeeps, CreateContextKeeps, RequestedDrawKeeps DEF Next
<1>7. CASE MakeManager \/ CreateTexture \/ ShareTexture \/ SetImageSize \/ SetDisplaySize
  BY <1>7, MakeManagerKeeps, CreateTextureKeeps, ShareTextureKeeps, SetImageSizeKeeps,
     SetDisplaySizeKeeps DEF Next
<1>8. CASE Draw \/ SavePicture \/ ResetTake
  BY <1>8, DrawKeeps, SavePictureKeeps, ResetTakeKeeps DEF Next
<1>. QED
  BY <1>1, <1>2, <1>3, <1>4, <1>5, <1>6, <1>7, <1>8 DEF Next, UIStep, GLStep

-----------------------------------------------------------------------------

(* For every number of callbacks and clicks and every set of preview       *)
(* sizes, the invariant holds: it is what the theorems below rest on.      *)
THEOREM Invariant == Spec => []IInv
<1>1. Init => IInv
  BY InitHolds
<1>2. IInv /\ [Next]_vars => IInv'
  BY NextKeeps, StutterKeeps
<1>. QED
  BY <1>1, <1>2, PTL DEF Spec

(* The process ends only after an overlap of the two threads at the        *)
(* camera, a failed Camera.open, or with a camera that offers no preview   *)
(* size of the wanted ratio.                                               *)
THEOREM CrashesExplained == Spec => []CrashExplained
<1>1. IInv => CrashExplained
  BY DEF IInv, CrashCause, CrashExplained
<1>. QED
  BY <1>1, Invariant, PTL

(* No frame is drawn from, and no camera fed into, a texture that is not   *)
(* there.                                                                  *)
THEOREM TexturesStayLive == Spec => []TexturesLive
<1>1. IInv => TexturesLive
  BY DEF IInv, CrashCause, TexturesLive
<1>. QED
  BY <1>1, Invariant, PTL

(* Without an overlap, at most one camera is open between callbacks, and   *)
(* the loader's field names it.                                            *)
THEOREM OneCameraAtRest == Spec => []OneCamera
<1>1. IInv => OneCamera
  BY Shape DEF IInv, FieldKnows, SetUpLeft, UISetUp, OneCamera, AtRest, Threads
<1>. QED
  BY <1>1, Invariant, PTL

(* Without an overlap, an activity that has been paused has given its      *)
(* camera up.                                                              *)
THEOREM CameraGivenUp == Spec => []ClosedWhenPaused
<1>1. IInv => ClosedWhenPaused
  BY Shape DEF IInv, GivenUp, NoneOpen, ClosedWhenPaused
<1>. QED
  BY <1>1, Invariant, PTL

(* Without an overlap or a crash, the camera of a resumed activity with a  *)
(* context fills the texture that is drawn.                                *)
THEOREM PreviewStaysVisible == Spec => []PreviewVisible
<1>1. IInv => PreviewVisible
  BY Shape DEF IInv, PictureShown, Shown, UICamera, PreviewVisible, AtRest, Threads
<1>. QED
  BY <1>1, Invariant, PTL

(* Without an overlap and a switch, frames are drawn in the size of the    *)
(* camera's preview.                                                       *)
THEOREM FramesFitTheCamera == Spec => []FramesFit
<1>1. IInv => FramesFit
  BY Shape DEF IInv, SizesFit, FramesFit, AtRest, Threads
<1>. QED
  BY <1>1, Invariant, PTL

(* However the button, the frames and the callbacks interleave, never are  *)
(* more pictures saved than were asked for.                                *)
THEOREM PicturesAreOwed == Spec => []OnePicturePerClick
<1>1. IInv => OnePicturePerClick
  BY DEF IInv, ClicksOwed, OnePicturePerClick
<1>. QED
  BY <1>1, Invariant, PTL

=============================================================================
