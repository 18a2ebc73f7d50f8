--------------------------- MODULE RoutineProofs ---------------------------
(***************************************************************************)
(* Four of the sequential routines, for every value of their constants.    *)
(* FileEncode: the output file holds every whole frame of the input.       *)
(* YuvFrames: which pictures are written past the end of an array, and that *)
(* the pictures pushed to the encoder are turned with every sample in its   *)
(* place.  FlvTags: which packets are read past their end, and that the     *)
(* tags are those of the NAL units.  ActivityStack: the stack against the   *)
(* activities that live.                                                   *)
(***************************************************************************)
EXTENDS FileEncode, YuvFrames, FlvTags, ActivityStack, SequenceTheorems, FiniteSetTheorems,
        WellFoundedInduction, TLAPS

-----------------------------------------------------------------------------
(* The file encoder.                                                       *)
FileSpec == FileInit /\ [][FileNext]_fileVars

-----------------------------------------------------------------------------
(* The types of the counters and of the output.                            *)
Counters ==
  /\ frame_number \in Nat /\ framesRead \in Nat /\ delayed \in Nat /\ out \in Nat
  /\ written \in Seq(Nat)

(* Before the loop nothing is read; after it everything is.                *)
Read ==
  /\ framesRead <= frame_number
  /\ conv \in {"idle", "openH264", "openEncoder", "count"} => framesRead = 0
  /\ conv \in {"flush", "writeFlush", "close", "returned"} => framesRead = frame_number

(* A frame that was read is with x264 or was returned by it.  (The one that *)
(* x264 refused, or was lost in a crash, is neither.)                      *)
Accounted == conv \notin {"error", "crash"} => out + delayed = framesRead

(* The output holds what x264 returned, up to the frame in hand.           *)
InHand == conv \in {"write", "writeFlush"}
Output ==
  /\ Len(written) + (IF InHand THEN 1 ELSE 0) = out
  /\ \A k \in 1..Len(written) : written[k] = k

(* The flush ends with frames delayed only if x264 gave nothing.           *)
Flushed == conv \in {"close", "returned"} /\ delayed > 0 => early

(* The inductive invariant.                                                *)
FileInv == Counters /\ Read /\ Accounted /\ Output /\ Flushed

-----------------------------------------------------------------------------
(* One frame more in the output.                                           *)
LEMMA AppendIs ==
  ASSUME NEW s \in Seq(Nat), NEW e \in Nat, NEW r, r = Append(s, e)
  PROVE  /\ r \in Seq(Nat) /\ Len(r) = Len(s) + 1 /\ Len(s) \in Nat
         /\ \A k \in 1..Len(s) : r[k] = s[k]
         /\ r[Len(s) + 1] = e
OBVIOUS

(* fwrite of the frame in hand, in the loop and in the flush.              *)
LEMMA WriteKeeps ==
  ASSUME FileInv, InHand, written' = Append(written, out),
         UNCHANGED <<frame_number, framesRead, delayed, out, early>>,
         \/ conv = "write" /\ conv' = "frames"
         \/ conv = "writeFlush" /\ conv' = "flush"
  PROVE  FileInv'
<1>1. /\ written' \in Seq(Nat) /\ Len(written') = Len(written) + 1 /\ Len(written) \in Nat
      /\ \A k \in 1..Len(written) : written'[k] = written[k]
      /\ written'[Len(written) + 1] = out
  BY AppendIs DEF FileInv, Counters
<1>2. Counters' /\ Read' /\ Accounted' /\ Flushed'
  BY <1>1 DEF FileInv, Counters, Read, Accounted, Flushed
<1>3. out = Len(written) + 1 /\ ~InHand'
  BY <1>1 DEF FileInv, Output, InHand
<1>4. \A k \in 1..Len(written') : k \in 1..Len(written) \/ k = Len(written) + 1
  BY <1>1
<1>5. \A k \in 1..Len(written') : written'[k] = k
  BY <1>1, <1>3, <1>4 DEF FileInv, Output
<1>6. Output'
  BY <1>1, <1>3, <1>5 DEF Output
<1>. QED
  BY <1>2, <1>6 DEF FileInv

(* The call begins with nothing read and nothing written.                  *)
LEMMA InitHolds ==
  ASSUME FileInit
  PROVE  FileInv
<1>1. Counters /\ Read /\ Accounted /\ Flushed
  BY DEF FileInit, Counters, Read, Accounted, Flushed
<1>2. Output
  BY DEF FileInit, Output, InHand
<1>. QED
  BY <1>1, <1>2 DEF FileInv

(* The invariant is inductive.                                             *)
LEMMA NextKeeps ==
  ASSUME MaxFrames \in Nat, FileInv, [FileNext]_fileVars
  PROVE  FileInv'
<1>. USE DEF FileInv, Go
<1>1. CASE WriteFrame
  BY <1>1, WriteKeeps DEF WriteFrame, InHand
<1>2. CASE WriteFlushed
  BY <1>2, WriteKeeps DEF WriteFlushed, InHand
<1>3. CASE OpenYuv \/ OpenH264 \/ OpenEncoder
  BY <1>3 DEF OpenYuv, OpenH264, OpenEncoder, Counters, Read, Accounted, Output, InHand,
     Flushed
<1>4. CASE CountFrames
  <2>1. frame_number' \in Nat
    BY <1>4 DEF CountFrames
  <2>. QED
    BY <1>4, <2>1 DEF CountFrames, Counters, Read, Accounted, Output, InHand, Flushed
<1>5. CASE EncodeFrame
  <2>1. /\ conv = "frames" /\ framesRead < frame_number /\ framesRead' = framesRead + 1
        /\ UNCHANGED <<frame_number, written, early>>
        /\ \/ conv' = "crash" /\ UNCHANGED <<delayed, out>>
           \/ conv' = "error" /\ UNCHANGED <<delayed, out>>
           \/ conv' = "frames" /\ delayed' = delayed + 1 /\ UNCHANGED out
           \/ conv' = "write" /\ out' = out + 1 /\ UNCHANGED delayed
    BY <1>5 DEF EncodeFrame
  <2>. QED
    BY <2>1 DEF Counters, Read, Accounted, Output, InHand, Flushed
<1>6. CASE EndFrames
  BY <1>6 DEF EndFrames, Counters, Read, Accounted, Output, InHand, Flushed
<1>7. CASE Flush
  <2>1. /\ conv = "flush"
        /\ UNCHANGED <<frame_number, framesRead, written>>
        /\ \/ conv' = "crash" /\ UNCHANGED <<delayed, out, early>>
           \/ /\ delayed > 0 /\ conv' = "writeFlush"
              /\ delayed' = delayed - 1 /\ out' = out + 1 /\ UNCHANGED early
           \/ conv' = "close" /\ early' = (delayed > 0) /\ UNCHANGED <<delayed, out>>
           \/ UNCHANGED <<conv, delayed, out, early>>
    BY <1>7 DEF Flush
  <2>2. Counters' /\ Read' /\ Accounted'
    BY <2>1 DEF Counters, Read, Accounted
  <2>3. Output'
    BY <2>1 DEF Output, InHand
  <2>4. conv' = "close" /\ delayed' > 0 => early'
    <3>1. ASSUME conv' = "close" PROVE early' = (delayed > 0) /\ delayed' = delayed
      BY <2>1, <3>1
    <3>. QED
      BY <3>1, Zenon
  <2>5. conv' # "returned"
    BY <2>1
  <2>. QED
    BY <2>2, <2>3, <2>4, <2>5 DEF Flushed
<1>8. CASE CloseAll
  BY <1>8 DEF CloseAll, Counters, Read, Accounted, Output, InHand, Flushed
<1>9. CASE UNCHANGED fileVars
  BY <1>9 DEF fileVars, Counters, Read, Accounted, Output, InHand, Flushed
<1>. QED
  BY <1>1, <1>2, <1>3, <1>4, <1>5, <1>6, <1>7, <1>8, <1>9 DEF FileNext

-----------------------------------------------------------------------------
(* encode_x264 of h264-encode.cpp, for every number of frames: a call that *)
(* returns has written every whole frame of the input, in the order x264   *)
(* returned them, unless x264 gave back nothing while it still held some.  *)
THEOREM WholeInputWritten == ASSUME MaxFrames \in Nat PROVE FileSpec => []FileComplete
<1>1. FileInit => FileInv
  BY InitHolds
<1>2. FileInv /\ [FileNext]_fileVars => FileInv'
  BY NextKeeps
<1>3. ASSUME FileInv PROVE FileComplete
  <2>1. written = [k \in 1..Len(written) |-> written[k]]
    BY <1>3 DEF FileInv, Counters
  <2>2. written = [k \in 1..Len(written) |-> k]
    BY <1>3, <2>1 DEF FileInv, Output
  <2>. QED
    BY <1>3, <2>2 DEF FileInv, Counters, Read, Accounted, Output, InHand, Flushed, FileComplete
<1>4. FileInv => FileComplete
  BY <1>3
<1>. QED
  BY <1>1, <1>2, <1>4, PTL DEF FileSpec

-----------------------------------------------------------------------------
(* The pictures.                                                           *)
YuvSpec == YuvInit /\ [][YuvNext]_yuvVars

(* The camera's preview sizes have even sides.                             *)
EvenSides == Sides \subseteq {2 * k : k \in Nat \ {0}}

-----------------------------------------------------------------------------
(* A product grows with its factor.                                        *)
LEMMA TimesKeeps ==
  ASSUME NEW a \in Nat, NEW p \in Nat, NEW q \in Nat, p <= q
  PROVE  p * a <= q * a
BY Z3

(* The place of column x of row y in a plane of a columns.                 *)
LEMMA Within ==
  ASSUME NEW a \in Nat, NEW b \in Nat, NEW x \in 0..a - 1, NEW y \in 0..b - 1
  PROVE  y * a + x \in Nat /\ y * a + x < b * a
<1>1. x \in Nat /\ x < a /\ y \in Nat /\ y + 1 \in Nat /\ y + 1 <= b
  OBVIOUS
<1>2. (y + 1) * a <= b * a
  BY <1>1, TimesKeeps
<1>3. (y + 1) * a = y * a + a
  BY <1>1
<1>4. y * a \in Nat /\ b * a \in Nat
  BY <1>1
<1>. DEFINE m == y * a
            n == b * a
<1>5. m + a <= n /\ m \in Nat /\ n \in Nat
  BY <1>2, <1>3, <1>4
<1>. HIDE DEF m, n
<1>6. m + x \in Nat /\ m + x < n
  BY <1>1, <1>5
<1>. QED
  BY <1>6 DEF m, n

(* A plane whose rows are shorter than its stride, and no more than it.    *)
LEMMA WithinStride ==
  ASSUME NEW a \in Nat, NEW b \in Nat, NEW s \in Nat, s <= a, b <= s,
         NEW x \in 0..a - 1, NEW y \in 0..b - 1
  PROVE  y * s + x \in Nat /\ y * s + x < a * b
<1>1. x \in Nat /\ x < a /\ y \in Nat /\ y + 1 <= b
  OBVIOUS
<1>2. y * s <= y * a
  BY <1>1, TimesKeeps
<1>3. y * a + x \in Nat /\ y * a + x < b * a
  BY Within
<1>4. y * s \in Nat /\ y * a \in Nat /\ a * b = b * a /\ a * b \in Nat
  BY <1>1
<1>. DEFINE m == y * s
            n == y * a
            k == b * a
<1>5. m \in Nat /\ n \in Nat /\ k \in Nat /\ m <= n /\ n + x < k
  BY <1>2, <1>3, <1>4
<1>. HIDE DEF m, n, k
<1>6. m + x \in Nat /\ m + x < k
  BY <1>1, <1>5
<1>. QED
  BY <1>4, <1>6 DEF m, n, k

(* The sizes of the planes, and of the picture, in samples.               *)
LEMMA Sizes4 ==
  ASSUME EvenSides, NEW c \in Sides, NEW r \in Sides
  PROVE  /\ c \in Nat /\ r \in Nat /\ Half(c) \in Nat /\ Half(r) \in Nat
         /\ c * r \in Nat /\ (c * r) \div 4 = Half(r) * Half(c) /\ Half(r) * Half(c) \in Nat
         /\ Bytes(c, r) = c * r + 2 * (Half(r) * Half(c))
<1>1. PICK i \in Nat, j \in Nat : c = 2 * i /\ r = 2 * j
  BY DEF EvenSides
<1>2. Half(c) = i /\ Half(r) = j
  BY <1>1 DEF Half
<1>. DEFINE m == j * i
<1>3. m \in Nat
  BY <1>1
<1>4. c * r = 4 * m
  BY <1>1
<1>. HIDE DEF m
<1>5. (4 * m) \div 4 = m /\ (4 * m) \div 2 = 2 * m
  BY <1>3
<1>. QED
  BY <1>1, <1>2, <1>3, <1>4, <1>5 DEF m, Bytes, Half

(* The same, as much as a comparison of sizes needs.                       *)
LEMMA SizeOf ==
  ASSUME EvenSides, NEW c \in Sides, NEW r \in Sides
  PROVE  c \in Nat /\ r \in Nat /\ Bytes(c, r) \in Int
<1>1. c \in Nat /\ r \in Nat /\ c * r \in Nat /\ Half(r) * Half(c) \in Nat
      /\ Bytes(c, r) = c * r + 2 * (Half(r) * Half(c))
  BY Sizes4
<1>. QED
  BY <1>1

(* An address within a plane that is turned: its rows start every stride   *)
(* samples, and it stays within the samples there are.                     *)
Inside(degree, x, y, a, b, stride) ==
  /\ Turned(degree, x, y, a, b)[1] \in Nat
  /\ Turned(degree, x, y, a, b)[2] * stride \in Nat
  /\ Turned(degree, x, y, a, b)[2] * stride + Turned(degree, x, y, a, b)[1] < b * a

(* The strides of the code: the width of a plane that is copied, and the   *)
(* height of one that is turned, if it is no more than the width or its    *)
(* rows become columns.                                                    *)
StrideFits(degree, a, b, stride) ==
  \/ degree = 0 /\ stride = a
  \/ stride = b /\ (degree \in {0, 180} => b <= a)

(* Every sample of a plane goes inside it.                                 *)
LEMMA TurnedFits ==
  ASSUME NEW a \in Nat, NEW b \in Nat, NEW degree \in {0, 90, 180, 270},
         NEW stride, StrideFits(degree, a, b, stride),
         NEW x \in 0..a - 1, NEW y \in 0..b - 1
  PROVE  Inside(degree, x, y, a, b, stride)
<1>. USE DEF Inside, Turned
<1>0. /\ b - 1 - y \in 0..b - 1 /\ a - 1 - x \in 0..a - 1 /\ b <= b /\ a <= a
      /\ a * b = b * a /\ x \in Nat /\ y \in Nat /\ a - 1 - x \in Nat /\ b - 1 - y \in Nat
      /\ x * b \in Nat /\ y * b \in Nat /\ (a - 1 - x) * b \in Nat /\ (b - 1 - y) * b \in Nat
      /\ y * a \in Nat
  OBVIOUS
<1>1. CASE degree = 90 /\ stride = b
  <2>1. x * b + (b - 1 - y) \in Nat /\ x * b + (b - 1 - y) < a * b
    BY <1>0, Within
  <2>. QED
    BY <1>0, <1>1, <2>1
<1>2. CASE degree = 270 /\ stride = b
  <2>1. (a - 1 - x) * b + y \in Nat /\ (a - 1 - x) * b + y < a * b
    BY <1>0, Within
  <2>. QED
    BY <1>0, <1>2, <2>1
<1>3. CASE degree = 0 /\ stride = b /\ b <= a
  <2>1. y * b + x \in Nat /\ y * b + x < a * b
    BY <1>0, <1>3, WithinStride
  <2>. QED
    BY <1>0, <1>3, <2>1
<1>4. CASE degree = 180 /\ stride = b /\ b <= a
  <2>1. (b - 1 - y) * b + (a - 1 - x) \in Nat /\ (b - 1 - y) * b + (a - 1 - x) < a * b
    BY <1>0, <1>4, WithinStride
  <2>. QED
    BY <1>0, <1>4, <2>1
<1>5. CASE degree = 0 /\ stride = a
  <2>1. y * a + x \in Nat /\ y * a + x < b * a
    BY <1>0, Within
  <2>. QED
    BY <1>0, <1>5, <2>1
<1>. QED
  BY <1>1, <1>2, <1>3, <1>4, <1>5 DEF StrideFits

(* Every move of a plane ends below address n.                             *)
EndsBelow(moves, n) == \A m \in moves : m[1] \in 0..n - 1

(* A plane that is copied or turned to an address.                         *)
LEMMA PlaneFits ==
  ASSUME NEW a \in Nat, NEW b \in Nat, NEW degree \in {0, 90, 180, 270},
         NEW stride, StrideFits(degree, a, b, stride),
         NEW to \in Nat, NEW n \in Nat, to + b * a <= n,
         NEW from, NEW fromStride, NEW step
  PROVE  EndsBelow(Plane(to, stride, from, fromStride, step, a, b, degree), n)
<1>1. ASSUME NEW x \in 0..a - 1, NEW y \in 0..b - 1
      PROVE  to + Turned(degree, x, y, a, b)[2] * stride + Turned(degree, x, y, a, b)[1]
               \in 0..n - 1
  <2>1. Inside(degree, x, y, a, b, stride)
    BY TurnedFits
  <2>. DEFINE t == Turned(degree, x, y, a, b)[1]
              k == Turned(degree, x, y, a, b)[2] * stride
              p == b * a
  <2>2. t \in Nat /\ k \in Nat /\ k + t < p /\ p \in Nat /\ to + p <= n
    BY <2>1 DEF Inside
  <2>. HIDE DEF t, k, p
  <2>3. to + k + t \in 0..n - 1
    BY <2>2
  <2>. QED
    BY <2>3 DEF t, k
<1>2. SUFFICES ASSUME NEW m \in Plane(to, stride, from, fromStride, step, a, b, degree)
               PROVE  m[1] \in 0..n - 1
  BY DEF EndsBelow
<1>3. PICK x \in 0..a - 1, y \in 0..b - 1 :
        m[1] = to + Turned(degree, x, y, a, b)[2] * stride + Turned(degree, x, y, a, b)[1]
  BY DEF Plane
<1>. QED
  BY <1>1, <1>3

(* Three planes after one another, the two of chroma half as wide and high. *)
LEMMA PictureFits ==
  ASSUME EvenSides, NEW a \in Sides, NEW b \in Sides, NEW degree \in {0, 90, 180, 270},
         NEW stride \in {a, b}, StrideFits(degree, a, b, stride),
         NEW yFrom, NEW uFrom, NEW vFrom, NEW yStride, NEW uvStride, NEW step
  PROVE  EndsBelow(UNION {Plane(0, stride, yFrom, yStride, 1, a, b, degree),
                     Plane(a * b, Half(stride), uFrom, uvStride, step, Half(a), Half(b),
                           degree),
                     Plane(a * b + ((a * b) \div 4), Half(stride), vFrom, uvStride, step,
                           Half(a), Half(b), degree)}, Bytes(a, b))
<1>. DEFINE A == a * b
            B == Half(b) * Half(a)
<1>1. /\ a \in Nat /\ b \in Nat /\ Half(a) \in Nat /\ Half(b) \in Nat
      /\ A \in Nat /\ B \in Nat /\ A \div 4 = B /\ Bytes(a, b) = A + 2 * B
  BY Sizes4
<1>2. b * a = A
  BY <1>1
<1>3. StrideFits(degree, Half(a), Half(b), Half(stride))
  <2>1. b <= a => Half(b) <= Half(a)
    BY <1>1 DEF Half
  <2>. QED
    BY <2>1 DEF StrideFits
<1>. HIDE DEF A, B
<1>4. /\ Bytes(a, b) \in Nat /\ 0 + A <= Bytes(a, b)
      /\ A \in Nat /\ A + B <= Bytes(a, b)
      /\ A + B \in Nat /\ (A + B) + B <= Bytes(a, b)
  BY <1>1
<1>5. EndsBelow(Plane(0, stride, yFrom, yStride, 1, a, b, degree), Bytes(a, b))
  BY <1>1, <1>2, <1>4, PlaneFits
<1>6. EndsBelow(Plane(A, Half(stride), uFrom, uvStride, step, Half(a), Half(b), degree),
                Bytes(a, b))
  BY <1>1, <1>3, <1>4, PlaneFits DEF B
<1>7. EndsBelow(Plane(A + B, Half(stride), vFrom, uvStride, step, Half(a), Half(b), degree),
                Bytes(a, b))
  BY <1>1, <1>3, <1>4, PlaneFits DEF B
<1>8. a * b = A /\ (a * b) \div 4 = B
  BY <1>1 DEF A
<1>. QED
  BY <1>5, <1>6, <1>7, <1>8 DEF EndsBelow

(* An array of n bytes holds moves that end below n.                       *)
LEMMA BelowFits ==
  ASSUME NEW dst, NEW moves, NEW n \in Int, NEW l \in Int, n <= l,
         DOMAIN dst = 0..l - 1, EndsBelow(moves, n)
  PROVE  Fits(dst, moves)
BY DEF Fits, EndsBelow

-----------------------------------------------------------------------------
(* The inductive invariant: the size of mBytes is for ever what it was, and *)
(* a picture that is taken has sides and a turn.                           *)
YuvInv ==
  /\ DOMAIN mBytes = 0..BufferSize - 1
  /\ frame = "taken" => w \in Sides /\ h \in Sides /\ turn \in {90, 270}
  /\ OverrunExplained

(* nv21_to_i420 of a preview no larger than mBytes stays inside mBytes.    *)
LEMMA ConvertFits ==
  ASSUME EvenSides, w \in Sides, h \in Sides, BufferSize \in Nat,
         DOMAIN mBytes = 0..BufferSize - 1, ~(Bytes(w, h) > BufferSize)
  PROVE  Fits(mBytes, Nv21ToI420)
<1>1. StrideFits(0, w, h, w) /\ 0 \in {0, 90, 180, 270} /\ w \in {w, h}
  BY DEF StrideFits
<1>2. EndsBelow(Nv21ToI420, Bytes(w, h))
  BY <1>1, PictureFits DEF Nv21ToI420
<1>3. Bytes(w, h) \in Int /\ Bytes(w, h) <= BufferSize
  BY SizeOf
<1>. QED
  BY <1>2, <1>3, BelowFits

(* The moves of rotate_i420, for a picture of a by b.                      *)
Rotated(a, b, degree) ==
  UNION {Plane(0, b, 0, a, 1, a, b, degree),
         Plane(a * b, Half(b), a * b, Half(a), 1, Half(a), Half(b), degree),
         Plane(a * b + ((a * b) \div 4), Half(b), a * b + ((a * b) \div 4), Half(a), 1,
               Half(a), Half(b), degree)}

(* rotate_i420 stays inside an array of the picture's size, but for a       *)
(* picture higher than wide that keeps its rows.                           *)
LEMMA RotationFits ==
  ASSUME EvenSides, NEW a \in Sides, NEW b \in Sides, NEW degree \in {0, 90, 180, 270},
         ~(degree \in {0, 180} /\ b > a)
  PROVE  EndsBelow(Rotated(a, b, degree), Bytes(a, b))
<1>1. StrideFits(degree, a, b, b) /\ b \in {a, b}
  <2>1. a \in Nat /\ b \in Nat
    BY SizeOf
  <2>. QED
    BY <2>1 DEF StrideFits
<1>. QED
  BY <1>1, PictureFits DEF Rotated

(* mBytes is made with BufferSize bytes.                                   *)
LEMMA YuvInitHolds ==
  ASSUME YuvInit
  PROVE  YuvInv
BY DEF YuvInit, YuvInv, Blanks, OverrunExplained

(* The invariant is inductive.                                             *)
LEMMA YuvNextKeeps ==
  ASSUME EvenSides, BufferSize \in Nat, YuvInv, [YuvNext]_yuvVars
  PROVE  YuvInv'
<1>. USE DEF YuvInv, OverrunExplained
<1>1. CASE Take
  BY <1>1 DEF Take
<1>2. CASE Convert
  <2>1. DOMAIN mBytes' = DOMAIN mBytes
    BY <1>2 DEF Convert, Moved
  <2>2. CASE Fits(mBytes, Nv21ToI420)
    BY <1>2, <2>1, <2>2 DEF Convert
  <2>3. CASE ~Fits(mBytes, Nv21ToI420)
    <3>1. Bytes(w, h) > BufferSize
      BY <1>2, <2>3, ConvertFits DEF Convert
    <3>. QED
      BY <1>2, <2>1, <2>3, <3>1 DEF Convert
  <2>. QED
    BY <2>2, <2>3
<1>3. CASE Rotate
  BY <1>3 DEF Rotate
<1>4. CASE CallRotateI420
  <2>. DEFINE i420 == TakenAs(OffI420, w', h')
  <2>1. /\ w' \in Sides /\ h' \in Sides /\ turn' \in {0, 90, 180, 270}
        /\ frame' = IF Fits(i420, RotateI420(turn)') THEN "rotated" ELSE "overrun"
        /\ mBytes' = mBytes
    BY <1>4 DEF CallRotateI420
  <2>2. DOMAIN i420 = 0..Bytes(w', h') - 1
    BY DEF TakenAs
  <2>. HIDE DEF i420
  <2>3. ASSUME ~(turn' \in {0, 180} /\ h' > w')
        PROVE  Fits(i420, RotateI420(turn)')
    <3>1. EndsBelow(Rotated(w', h', turn'), Bytes(w', h'))
      BY <2>1, <2>3, RotationFits
    <3>2. RotateI420(turn)' = Rotated(w', h', turn')
      BY DEF RotateI420, Rotated
    <3>3. Bytes(w', h') \in Int /\ Bytes(w', h') <= Bytes(w', h')
      BY <2>1, SizeOf
    <3>. QED
      BY <2>2, <3>1, <3>2, <3>3, BelowFits
  <2>. QED
    BY <2>1, <2>3
<1>5. CASE CallI420ToNv21 \/ CallUtils
  BY <1>5 DEF CallI420ToNv21, CallUtils
<1>6. CASE UNCHANGED yuvVars
  BY <1>6 DEF yuvVars
<1>. QED
  BY <1>1, <1>2, <1>3, <1>4, <1>5, <1>6 DEF YuvNext

(* libyuv writes past an array only with a preview larger than the buffer, *)
(* or when a picture higher than wide is turned by 0 or 180 degrees, for   *)
(* every set of even sides and every size of mBytes.                       *)
THEOREM OverrunsExplained ==
  ASSUME EvenSides, BufferSize \in Nat PROVE YuvSpec => []OverrunExplained
<1>1. YuvInit => YuvInv
  BY YuvInitHolds
<1>2. YuvInv /\ [YuvNext]_yuvVars => YuvInv'
  BY YuvNextKeeps
<1>3. YuvInv => OverrunExplained
  BY DEF YuvInv
<1>. QED
  BY <1>1, <1>2, <1>3, PTL DEF YuvSpec

-----------------------------------------------------------------------------
(* The samples and their places, for pictures of even sides.               *)
Planes == {"Y", "U", "V"}
Side(p, n) == IF p = "Y" THEN n ELSE Half(n)
Count(p, cols, rows) == Side(p, rows) * Side(p, cols)

(* The number of a sample within its plane, and where a plane of I420       *)
(* begins.                                                                 *)
Nth(p, x, y, cols) == y * Side(p, cols) + x

Begins(p, cols, rows) ==
  CASE p = "Y" -> 0
    [] p = "U" -> cols * rows
    [] p = "V" -> cols * rows + ((cols * rows) \div 4)

(* The place of number k of a plane in an NV21 array.                      *)
Interleaved(p, k, luma) ==
  CASE p = "Y" -> k
    [] p = "V" -> luma + 2 * k
    [] p = "U" -> luma + 2 * k + 1

(* The two layouts, as functions of the sample.                            *)
NV21(cols, rows) == [s \in Samples(cols, rows) |-> OffNV21(s[1], s[2], s[3], cols, rows)]
I420(cols, rows) == [s \in Samples(cols, rows) |-> OffI420(s[1], s[2], s[3], cols, rows)]

(* A sample is a plane and a column and a row of it.                       *)
LEMMA SamplesAre ==
  ASSUME NEW cols, NEW rows
  PROVE  /\ \A s \in Samples(cols, rows) :
              /\ s = <<s[1], s[2], s[3]>> /\ s[1] \in Planes
              /\ s[2] \in 0..Side(s[1], cols) - 1 /\ s[3] \in 0..Side(s[1], rows) - 1
         /\ \A p \in Planes : \A x \in 0..Side(p, cols) - 1 : \A y \in 0..Side(p, rows) - 1 :
              <<p, x, y>> \in Samples(cols, rows)
<1>1. ASSUME NEW s \in Samples(cols, rows)
      PROVE  /\ s = <<s[1], s[2], s[3]>> /\ s[1] \in Planes
             /\ s[2] \in 0..Side(s[1], cols) - 1 /\ s[3] \in 0..Side(s[1], rows) - 1
  BY DEF Samples, Planes, Side
<1>2. ASSUME NEW p \in Planes, NEW x \in 0..Side(p, cols) - 1, NEW y \in 0..Side(p, rows) - 1
      PROVE  <<p, x, y>> \in Samples(cols, rows)
  BY DEF Samples, Planes, Side
<1>. QED
  BY <1>1, <1>2

(* The sizes of the planes of a picture of even sides.                     *)
LEMMA PlaneSizes ==
  ASSUME EvenSides, NEW c \in Sides, NEW r \in Sides
  PROVE  /\ c * r \in Nat /\ r * c = c * r /\ (c * r) \div 4 \in Nat
         /\ Half(Half(c * r)) = (c * r) \div 4
         /\ Bytes(c, r) = c * r + 2 * ((c * r) \div 4)
         /\ \A p \in Planes : /\ Side(p, c) \in Nat /\ Side(p, r) \in Nat
                              /\ Count(p, c, r) = IF p = "Y" THEN c * r ELSE (c * r) \div 4
<1>1. /\ c \in Nat /\ r \in Nat /\ Half(c) \in Nat /\ Half(r) \in Nat
      /\ c * r \in Nat /\ (c * r) \div 4 = Half(r) * Half(c) /\ Half(r) * Half(c) \in Nat
      /\ Bytes(c, r) = c * r + 2 * (Half(r) * Half(c))
  BY Sizes4
<1>2. r * c = c * r
  BY <1>1
<1>3. Half(Half(c * r)) = (c * r) \div 4
  <2>. DEFINE m == c * r
  <2>1. m \in Nat
    BY <1>1
  <2>. HIDE DEF m
  <2>2. (m \div 2) \div 2 = m \div 4
    BY <2>1
  <2>. QED
    BY <2>2 DEF m, Half
<1>4. ASSUME NEW p \in Planes
      PROVE  /\ Side(p, c) \in Nat /\ Side(p, r) \in Nat
             /\ Count(p, c, r) = IF p = "Y" THEN c * r ELSE (c * r) \div 4
  BY <1>1, <1>2 DEF Side, Count
<1>. QED
  BY <1>1, <1>2, <1>3, <1>4

(* Two samples of a plane have different numbers.                          *)
LEMMA NumberUnique ==
  ASSUME NEW a \in Nat, NEW x \in 0..a - 1, NEW y \in Nat, NEW u \in 0..a - 1, NEW v \in Nat,
         y * a + x = v * a + u
  PROVE  x = u /\ y = v
<1>1. ASSUME NEW i \in Nat, NEW j \in Nat, i < j PROVE i * a + a <= j * a
  <2>1. (i + 1) * a <= j * a
    BY <1>1, TimesKeeps
  <2>2. (i + 1) * a = i * a + a
    OBVIOUS
  <2>. QED
    BY <2>1, <2>2
<1>. DEFINE m == y * a
            n == v * a
<1>2. m \in Nat /\ n \in Nat /\ m + x = n + u
  OBVIOUS
<1>3. ~(y < v)
  <2>1. SUFFICES ASSUME y < v PROVE FALSE
    OBVIOUS
  <2>2. m + a <= n
    BY <1>1, <2>1
  <2>. HIDE DEF m, n
  <2>. QED
    BY <1>2, <2>2
<1>4. ~(v < y)
  <2>1. SUFFICES ASSUME v < y PROVE FALSE
    OBVIOUS
  <2>2. n + a <= m
    BY <1>1, <2>1
  <2>. HIDE DEF m, n
  <2>. QED
    BY <1>2, <2>2
<1>5. y = v
  BY <1>3, <1>4
<1>6. m = n
  BY <1>5
<1>. HIDE DEF m, n
<1>7. x = u
  BY <1>2, <1>6
<1>. QED
  BY <1>5, <1>7

(* A plane's samples are numbered from 0 to their count less 1, without a   *)
(* gap.                                                                    *)
LEMMA NumberReached ==
  ASSUME NEW a \in Nat, NEW b \in Nat, NEW k \in 0..b * a - 1
  PROVE  \E x \in 0..a - 1 : \E y \in 0..b - 1 : k = y * a + x
<1>0. b * a \in Nat /\ k \in Nat /\ k < b * a
  OBVIOUS
<1>1. a # 0
  BY <1>0
<1>. DEFINE x == k % a
            y == k \div a
<1>2. x \in 0..a - 1 /\ y \in Nat /\ k = y * a + x
  BY <1>0, <1>1
<1>. HIDE DEF x, y
<1>3. y < b
  <2>1. SUFFICES ASSUME b <= y PROVE FALSE
    BY <1>2
  <2>2. b * a <= y * a
    BY <1>2, <2>1, TimesKeeps
  <2>. DEFINE m == b * a
              n == y * a
  <2>3. m <= n /\ m \in Nat /\ n \in Nat /\ k < m /\ k = n + x
    BY <1>0, <1>2, <2>2
  <2>. HIDE DEF m, n
  <2>. QED
    BY <1>0, <1>2, <2>3
<1>. QED
  BY <1>2, <1>3

-----------------------------------------------------------------------------
(* A sample's number in its plane, and its place in the two layouts.       *)
LEMMA NumberRange ==
  ASSUME EvenSides, NEW c \in Sides, NEW r \in Sides, NEW p \in Planes,
         NEW x \in 0..Side(p, c) - 1, NEW y \in 0..Side(p, r) - 1
  PROVE  Nth(p, x, y, c) \in 0..Count(p, c, r) - 1
<1>1. Side(p, c) \in Nat /\ Side(p, r) \in Nat
  BY PlaneSizes
<1>2. /\ y * Side(p, c) + x \in Nat
      /\ y * Side(p, c) + x < Side(p, r) * Side(p, c)
  BY <1>1, Within
<1>3. Side(p, r) * Side(p, c) \in Nat
  BY <1>1
<1>. QED
  BY <1>2, <1>3 DEF Nth, Count

(* The place of a sample in an NV21 array, by its number.                  *)
LEMMA PlaceNV21 ==
  ASSUME EvenSides, NEW c \in Sides, NEW r \in Sides, NEW p \in Planes,
         NEW x \in 0..Side(p, c) - 1, NEW y \in 0..Side(p, r) - 1
  PROVE  OffNV21(p, x, y, c, r) = Interleaved(p, Nth(p, x, y, c), c * r)
<1>1. PICK i \in Nat : c = 2 * i
  BY DEF EvenSides
<1>2. Half(c) = i /\ Side(p, c) \in Nat /\ Side(p, r) \in Nat /\ c * r \in Nat
  BY <1>1, PlaneSizes DEF Half
<1>3. x \in Nat /\ y \in Nat
  BY <1>2
<1>. DEFINE m == y * i
            A == c * r
<1>4. m \in Nat /\ A \in Nat /\ y * c = 2 * m
  BY <1>1, <1>2, <1>3
<1>. HIDE DEF m, A
<1>5. CASE p = "Y"
  BY <1>5 DEF OffNV21, Interleaved, Nth, Side
<1>6. CASE p = "V"
  <2>1. Nth(p, x, y, c) = m + x
    BY <1>2, <1>6 DEF Nth, Side, m
  <2>2. A + y * c + 2 * x = A + 2 * (m + x)
    BY <1>3, <1>4
  <2>. QED
    BY <1>6, <2>1, <2>2 DEF OffNV21, Interleaved, A
<1>7. CASE p = "U"
  <2>1. Nth(p, x, y, c) = m + x
    BY <1>2, <1>7 DEF Nth, Side, m
  <2>2. A + y * c + 2 * x + 1 = A + 2 * (m + x) + 1
    BY <1>3, <1>4
  <2>. QED
    BY <1>7, <2>1, <2>2 DEF OffNV21, Interleaved, A
<1>. QED
  BY <1>5, <1>6, <1>7 DEF Planes

(* The place of a sample in an I420 array, by its number.                  *)
LEMMA PlaceI420 ==
  ASSUME EvenSides, NEW c \in Sides, NEW r \in Sides, NEW p \in Planes,
         NEW x \in 0..Side(p, c) - 1, NEW y \in 0..Side(p, r) - 1
  PROVE  /\ OffI420(p, x, y, c, r) = Begins(p, c, r) + Nth(p, x, y, c)
         /\ Begins(p, c, r) \in Nat /\ Begins(p, r, c) = Begins(p, c, r)
<1>1. /\ Half(Half(c * r)) = (c * r) \div 4 /\ c * r \in Nat /\ (c * r) \div 4 \in Nat
      /\ Side(p, c) \in Nat /\ Side(p, r) \in Nat /\ r * c = c * r
  BY PlaneSizes
<1>. DEFINE m == y * Side(p, c)
            A == c * r
            B == (c * r) \div 4
<1>2. A \in Nat /\ B \in Nat /\ m \in Nat /\ x \in Nat
  BY <1>1
<1>3. /\ p = "Y" => Side(p, c) = c
      /\ p # "Y" => Side(p, c) = Half(c)
  BY DEF Side
<1>4. /\ p = "Y" => OffI420(p, x, y, c, r) = m + x
      /\ p = "U" => OffI420(p, x, y, c, r) = A + m + x
      /\ p = "V" => OffI420(p, x, y, c, r) = A + B + m + x
  BY <1>1, <1>3 DEF OffI420
<1>5. /\ p = "Y" => Begins(p, c, r) = 0
      /\ p = "U" => Begins(p, c, r) = A
      /\ p = "V" => Begins(p, c, r) = A + B
  BY DEF Begins
<1>6. Nth(p, x, y, c) = m + x
  BY DEF Nth
<1>7. Begins(p, r, c) = Begins(p, c, r)
  BY <1>1 DEF Begins
<1>. HIDE DEF m, A, B
<1>8. p \in {"Y", "U", "V"}
  BY DEF Planes
<1>. QED
  BY <1>2, <1>4, <1>5, <1>6, <1>7, <1>8

(* A layout of samples in an array of n bytes: no two at the same place.   *)
Layout(D, S, n) ==
  /\ \A s \in S : D[s] \in 0..n - 1
  /\ \A s \in S, t \in S : D[s] = D[t] => s = t

(* Samples of a picture with the same plane and number are the same.       *)
LEMMA SampleUnique ==
  ASSUME EvenSides, NEW c \in Sides, NEW r \in Sides,
         NEW s \in Samples(c, r), NEW t \in Samples(c, r), s[1] = t[1],
         Nth(s[1], s[2], s[3], c) = Nth(t[1], t[2], t[3], c)
  PROVE  s = t
<1>1. /\ s = <<s[1], s[2], s[3]>> /\ s[1] \in Planes
      /\ s[2] \in 0..Side(s[1], c) - 1 /\ s[3] \in 0..Side(s[1], r) - 1
      /\ t = <<t[1], t[2], t[3]>> /\ t[1] \in Planes
      /\ t[2] \in 0..Side(s[1], c) - 1 /\ t[3] \in 0..Side(s[1], r) - 1
  BY SamplesAre
<1>2. Side(s[1], c) \in Nat /\ s[3] \in Nat /\ t[3] \in Nat
  BY <1>1, PlaneSizes
<1>3. s[3] * Side(s[1], c) + s[2] = t[3] * Side(s[1], c) + t[2]
  BY DEF Nth
<1>4. s[2] = t[2] /\ s[3] = t[3]
  BY <1>1, <1>2, <1>3, NumberUnique
<1>. QED
  BY <1>1, <1>4

(* The place of a sample in an array, from the numbers alone: A samples of  *)
(* luma, and B of each chroma.                                             *)
Numbered(p, k, A, B) == k \in 0..(IF p = "Y" THEN A ELSE B) - 1
Offset(p, A, B) == CASE p = "Y" -> 0 [] p = "U" -> A [] p = "V" -> A + B

LEMMA InterleavedPlaces ==
  ASSUME NEW A \in Nat, NEW B \in Nat, NEW p \in Planes, NEW q \in Planes,
         NEW k, Numbered(p, k, A, B), NEW l, Numbered(q, l, A, B)
  PROVE  /\ Interleaved(p, k, A) \in 0..A + 2 * B - 1
         /\ Interleaved(p, k, A) = Interleaved(q, l, A) => p = q /\ k = l
<1>1. p \in {"Y", "U", "V"} /\ q \in {"Y", "U", "V"} /\ k \in Nat /\ l \in Nat
  BY DEF Planes, Numbered
<1>2. Interleaved(p, k, A) \in 0..A + 2 * B - 1
  BY <1>1 DEF Interleaved, Numbered
<1>3. Interleaved(p, k, A) = Interleaved(q, l, A) => p = q /\ k = l
  BY <1>1 DEF Interleaved, Numbered
<1>. QED
  BY <1>2, <1>3

LEMMA PlanarPlaces ==
  ASSUME NEW A \in Nat, NEW B \in Nat, NEW p \in Planes, NEW q \in Planes,
         NEW k, Numbered(p, k, A, B), NEW l, Numbered(q, l, A, B),
         NEW e, e = Offset(p, A, B), NEW f, f = Offset(q, A, B)
  PROVE  /\ e + k \in 0..A + 2 * B - 1
         /\ e + k = f + l => p = q /\ k = l
<1>1. p \in {"Y", "U", "V"} /\ q \in {"Y", "U", "V"} /\ k \in Nat /\ l \in Nat
  BY DEF Planes, Numbered
<1>2. e + k \in 0..A + 2 * B - 1
  BY <1>1 DEF Numbered, Offset
<1>3. e + k = f + l => p = q /\ k = l
  BY <1>1 DEF Numbered, Offset
<1>. QED
  BY <1>2, <1>3

(* No two samples have the same place in an NV21 array, nor in an I420 one. *)
LEMMA LayoutNV21 ==
  ASSUME EvenSides, NEW c \in Sides, NEW r \in Sides
  PROVE  Layout(NV21(c, r), Samples(c, r), Bytes(c, r))
<1>. DEFINE A == c * r
            B == (c * r) \div 4
            number(s) == Nth(s[1], s[2], s[3], c)
<1>1. A \in Nat /\ B \in Nat /\ Bytes(c, r) = A + 2 * B
  BY PlaneSizes
<1>2. ASSUME NEW s \in Samples(c, r)
      PROVE  /\ s[1] \in Planes /\ Numbered(s[1], number(s), A, B)
             /\ NV21(c, r)[s] = Interleaved(s[1], number(s), A)
  <2>1. /\ s[1] \in Planes /\ s[2] \in 0..Side(s[1], c) - 1 /\ s[3] \in 0..Side(s[1], r) - 1
    BY SamplesAre
  <2>2. number(s) \in 0..Count(s[1], c, r) - 1
    BY <2>1, NumberRange
  <2>3. Count(s[1], c, r) = IF s[1] = "Y" THEN A ELSE B
    BY <2>1, PlaneSizes
  <2>4. OffNV21(s[1], s[2], s[3], c, r) = Interleaved(s[1], number(s), A)
    BY <2>1, PlaceNV21
  <2>. QED
    BY <2>1, <2>2, <2>3, <2>4 DEF NV21, Numbered
<1>. HIDE DEF A, B
<1>3. ASSUME NEW s \in Samples(c, r), NEW t \in Samples(c, r)
      PROVE  /\ NV21(c, r)[s] \in 0..A + 2 * B - 1
             /\ NV21(c, r)[s] = NV21(c, r)[t] => s[1] = t[1] /\ number(s) = number(t)
  <2>1. /\ s[1] \in Planes /\ Numbered(s[1], number(s), A, B)
        /\ NV21(c, r)[s] = Interleaved(s[1], number(s), A)
    BY <1>2
  <2>2. /\ t[1] \in Planes /\ Numbered(t[1], number(t), A, B)
        /\ NV21(c, r)[t] = Interleaved(t[1], number(t), A)
    BY <1>2
  <2>. HIDE DEF number
  <2>3. /\ Interleaved(s[1], number(s), A) \in 0..A + 2 * B - 1
        /\ Interleaved(s[1], number(s), A) = Interleaved(t[1], number(t), A)
             => s[1] = t[1] /\ number(s) = number(t)
    BY <1>1, <2>1, <2>2, InterleavedPlaces
  <2>. QED
    BY <2>1, <2>2, <2>3
<1>4. ASSUME NEW s \in Samples(c, r), NEW t \in Samples(c, r), NV21(c, r)[s] = NV21(c, r)[t]
      PROVE  s = t
  BY <1>3, <1>4, SampleUnique
<1>. QED
  BY <1>1, <1>3, <1>4 DEF Layout

LEMMA LayoutI420 ==
  ASSUME EvenSides, NEW c \in Sides, NEW r \in Sides
  PROVE  Layout(I420(c, r), Samples(c, r), Bytes(c, r))
<1>. DEFINE A == c * r
            B == (c * r) \div 4
            number(s) == Nth(s[1], s[2], s[3], c)
<1>1. A \in Nat /\ B \in Nat /\ Bytes(c, r) = A + 2 * B
  BY PlaneSizes
<1>2. ASSUME NEW s \in Samples(c, r)
      PROVE  /\ s[1] \in Planes /\ Numbered(s[1], number(s), A, B)
             /\ I420(c, r)[s] = Begins(s[1], c, r) + number(s)
             /\ Begins(s[1], c, r) = Offset(s[1], A, B)
  <2>1. /\ s[1] \in Planes /\ s[2] \in 0..Side(s[1], c) - 1 /\ s[3] \in 0..Side(s[1], r) - 1
    BY SamplesAre
  <2>2. number(s) \in 0..Count(s[1], c, r) - 1
    BY <2>1, NumberRange
  <2>3. Count(s[1], c, r) = IF s[1] = "Y" THEN A ELSE B
    BY <2>1, PlaneSizes
  <2>4. OffI420(s[1], s[2], s[3], c, r) = Begins(s[1], c, r) + number(s)
    BY <2>1, PlaceI420
  <2>. QED
    BY <2>1, <2>2, <2>3, <2>4 DEF I420, Begins, Numbered, Offset
<1>. HIDE DEF A, B
<1>3. ASSUME NEW s \in Samples(c, r), NEW t \in Samples(c, r)
      PROVE  /\ I420(c, r)[s] \in 0..A + 2 * B - 1
             /\ I420(c, r)[s] = I420(c, r)[t] => s[1] = t[1] /\ number(s) = number(t)
  <2>. DEFINE e == Begins(s[1], c, r)
              f == Begins(t[1], c, r)
  <2>1. /\ s[1] \in Planes /\ Numbered(s[1], number(s), A, B)
        /\ I420(c, r)[s] = e + number(s)
        /\ e = Offset(s[1], A, B)
    BY <1>2
  <2>2. /\ t[1] \in Planes /\ Numbered(t[1], number(t), A, B)
        /\ I420(c, r)[t] = f + number(t)
        /\ f = Offset(t[1], A, B)
    BY <1>2
  <2>. HIDE DEF number, e, f
  <2>3. /\ e + number(s) \in 0..A + 2 * B - 1
        /\ e + number(s) = f + number(t) => s[1] = t[1] /\ number(s) = number(t)
    BY <1>1, <2>1, <2>2, PlanarPlaces
  <2>. QED
    BY <2>1, <2>2, <2>3
<1>4. ASSUME NEW s \in Samples(c, r), NEW t \in Samples(c, r), I420(c, r)[s] = I420(c, r)[t]
      PROVE  s = t
  BY <1>3, <1>4, SampleUnique
<1>. QED
  BY <1>1, <1>3, <1>4 DEF Layout

-----------------------------------------------------------------------------
(* Arrays that show a picture.                                             *)

(* The moves take sample g[s] of the source, laid out as S, to the place   *)
(* that D gives to sample s of the result, for every s in A, and do        *)
(* nothing else.                                                           *)
Carries(moves, A, D, S, g) ==
  /\ \A m \in moves : \E s \in A : m = <<D[s], S[g[s]]>>
  /\ \A s \in A : <<D[s], S[g[s]]>> \in moves

(* The array has sample g[s] at the place of s.                            *)
ShowsAt(array, A, D, g) == \A s \in A : array[D[s]] = g[s]

(* The identity: a conversion moves samples and turns nothing.             *)
Same(A) == [s \in A |-> s]

(* Such moves leave the picture that g describes, whatever the array held. *)
LEMMA MovedShows ==
  ASSUME NEW A, NEW B, NEW D, NEW S, NEW g \in [A -> B], NEW n, Layout(D, A, n),
         NEW moves, Carries(moves, A, D, S, g),
         NEW from, ShowsAt(from, B, S, Same(B)),
         NEW dst, \A s \in A : D[s] \in DOMAIN dst
  PROVE  ShowsAt(Moved(dst, from, moves), A, D, g)
<1>1. SUFFICES ASSUME NEW s \in A PROVE Moved(dst, from, moves)[D[s]] = g[s]
  BY DEF ShowsAt
<1>2. <<D[s], S[g[s]]>> \in moves
  BY DEF Carries
<1>. DEFINE m == CHOOSE x \in moves : x[1] = D[s]
<1>3. m \in moves /\ m[1] = D[s]
  <2>1. \E x \in moves : x[1] = D[s]
    <3>1. <<D[s], S[g[s]]>>[1] = D[s]
      OBVIOUS
    <3>. QED
      BY <1>2, <3>1
  <2>. QED
    BY <2>1
<1>4. Moved(dst, from, moves)[D[s]] = from[m[2]]
  BY <1>3 DEF Moved
<1>. HIDE DEF m
<1>5. PICK t \in A : m = <<D[t], S[g[t]]>>
  BY <1>3 DEF Carries
<1>6. m[1] = D[t] /\ m[2] = S[g[t]]
  BY <1>5
<1>7. t = s
  BY <1>3, <1>6 DEF Layout
<1>8. from[S[g[s]]] = g[s]
  BY DEF ShowsAt, Same
<1>. QED
  BY <1>4, <1>6, <1>7, <1>8

(* The array of a picture as it was taken shows it.                        *)
LEMMA TakenShows ==
  ASSUME EvenSides, NEW c \in Sides, NEW r \in Sides
  PROVE  /\ ShowsAt(Taken(c, r), Samples(c, r), NV21(c, r), Same(Samples(c, r)))
         /\ ShowsAt(TakenAs(OffI420, c, r), Samples(c, r), I420(c, r), Same(Samples(c, r)))
<1>. DEFINE A == Samples(c, r)
            n == Bytes(c, r)
<1>1. ASSUME NEW s \in A PROVE Taken(c, r)[NV21(c, r)[s]] = s
  <2>. DEFINE i == NV21(c, r)[s]
              t == CHOOSE x \in A : OffNV21(x[1], x[2], x[3], c, r) = i
  <2>1. i \in 0..n - 1
    BY LayoutNV21 DEF Layout
  <2>2. OffNV21(s[1], s[2], s[3], c, r) = i
    BY DEF NV21
  <2>3. t \in A /\ OffNV21(t[1], t[2], t[3], c, r) = i
    <3>. HIDE DEF i, A
    <3>. QED
      BY <2>2
  <2>4. Taken(c, r)[i] = t
    BY <2>1 DEF Taken, TakenAs
  <2>. HIDE DEF t
  <2>5. NV21(c, r)[t] = NV21(c, r)[s]
    BY <2>3 DEF NV21
  <2>6. t = s
    BY <2>3, <2>5, LayoutNV21 DEF Layout
  <2>. QED
    BY <2>4, <2>6
<1>2. ASSUME NEW s \in A PROVE TakenAs(OffI420, c, r)[I420(c, r)[s]] = s
  <2>. DEFINE i == I420(c, r)[s]
              t == CHOOSE x \in A : OffI420(x[1], x[2], x[3], c, r) = i
  <2>1. i \in 0..n - 1
    BY LayoutI420 DEF Layout
  <2>2. OffI420(s[1], s[2], s[3], c, r) = i
    BY DEF I420
  <2>3. t \in A /\ OffI420(t[1], t[2], t[3], c, r) = i
    <3>. HIDE DEF i, A
    <3>. QED
      BY <2>2
  <2>4. TakenAs(OffI420, c, r)[i] = t
    BY <2>1 DEF TakenAs
  <2>. HIDE DEF t
  <2>5. I420(c, r)[t] = I420(c, r)[s]
    BY <2>3 DEF I420
  <2>6. t = s
    BY <2>3, <2>5, LayoutI420 DEF Layout
  <2>. QED
    BY <2>4, <2>6
<1>. QED
  BY <1>1, <1>2 DEF ShowsAt, Same

-----------------------------------------------------------------------------
(* Where the moves of the code take each sample.                           *)

(* The place of <<p, x, y>> in the two layouts.                            *)
LEMMA Places ==
  ASSUME EvenSides, NEW c \in Sides, NEW r \in Sides, NEW p \in Planes,
         NEW x \in 0..Side(p, c) - 1, NEW y \in 0..Side(p, r) - 1
  PROVE  /\ <<p, x, y>> \in Samples(c, r)
         /\ I420(c, r)[<<p, x, y>>] = Begins(p, c, r) + Nth(p, x, y, c)
         /\ NV21(c, r)[<<p, x, y>>] = OffNV21(p, x, y, c, r)
         /\ NV21(c, r)[<<p, x, y>>] = Interleaved(p, Nth(p, x, y, c), c * r)
<1>1. <<p, x, y>> \in Samples(c, r)
  BY SamplesAre
<1>2. OffI420(p, x, y, c, r) = Begins(p, c, r) + Nth(p, x, y, c)
  BY PlaceI420
<1>3. OffNV21(p, x, y, c, r) = Interleaved(p, Nth(p, x, y, c), c * r)
  BY PlaceNV21
<1>4. I420(c, r)[<<p, x, y>>] = OffI420(p, x, y, c, r)
  BY <1>1 DEF I420
<1>5. NV21(c, r)[<<p, x, y>>] = OffNV21(p, x, y, c, r)
  BY <1>1 DEF NV21
<1>. QED
  BY <1>1, <1>2, <1>3, <1>4, <1>5

(* The sample of an a by b picture that its turned picture shows at x, y.  *)
Back(degree, p, x, y, a, b) ==
  CASE degree = 0   -> <<p, x, y>>
    [] degree = 90  -> <<p, y, Side(p, b) - 1 - x>>
    [] degree = 180 -> <<p, Side(p, a) - 1 - x, Side(p, b) - 1 - y>>
    [] degree = 270 -> <<p, Side(p, a) - 1 - y, x>>

Seen(a, b, degree) == [s \in Samples(b, a) |-> Back(degree, s[1], s[2], s[3], a, b)]

(* The turns after which the height is the width of the result.            *)
Turns(degree, a, b) == degree \in {90, 270} \/ (degree \in {0, 180} /\ a = b)

(* Turning a plane and looking back undo each other.                       *)
LEMMA TurnBack ==
  ASSUME NEW degree, NEW a, NEW b, Turns(degree, a, b),
         NEW p, Side(p, a) \in Nat, Side(p, b) \in Nat,
         NEW x \in 0..Side(p, a) - 1, NEW y \in 0..Side(p, b) - 1,
         NEW t, t = Turned(degree, x, y, Side(p, a), Side(p, b))
  PROVE  /\ t[1] \in 0..Side(p, b) - 1 /\ t[2] \in 0..Side(p, a) - 1
         /\ Back(degree, p, t[1], t[2], a, b) = <<p, x, y>>
<1>. DEFINE c == Side(p, a)
            r == Side(p, b)
<1>1. c \in Nat /\ r \in Nat /\ x \in 0..c - 1 /\ y \in 0..r - 1 /\ (a = b => c = r)
  OBVIOUS
<1>2. degree \in {0, 90, 180, 270}
  BY DEF Turns
<1>. HIDE DEF c, r
<1>3. t = Turned(degree, x, y, c, r)
  BY DEF c, r
<1>4. r - 1 - (r - 1 - y) = y /\ c - 1 - (c - 1 - x) = x
  BY <1>1
<1>5. CASE degree = 90
  <2>1. t = <<r - 1 - y, x>> /\ Back(degree, p, t[1], t[2], a, b) = <<p, t[2], r - 1 - t[1]>>
    BY <1>3, <1>5 DEF Turned, Back, r
  <2>. QED
    BY <2>1, <1>1, <1>4 DEF c, r
<1>6. CASE degree = 270
  <2>1. t = <<y, c - 1 - x>> /\ Back(degree, p, t[1], t[2], a, b) = <<p, c - 1 - t[2], t[1]>>
    BY <1>3, <1>6 DEF Turned, Back, c
  <2>. QED
    BY <2>1, <1>1, <1>4 DEF c, r
<1>7. CASE degree = 0 /\ a = b
  <2>1. t = <<x, y>> /\ Back(degree, p, t[1], t[2], a, b) = <<p, t[1], t[2]>>
    BY <1>3, <1>7 DEF Turned, Back
  <2>. QED
    BY <2>1, <1>1, <1>7 DEF c, r
<1>8. CASE degree = 180 /\ a = b
  <2>1. /\ t = <<c - 1 - x, r - 1 - y>>
        /\ Back(degree, p, t[1], t[2], a, b) = <<p, c - 1 - t[1], r - 1 - t[2]>>
    BY <1>3, <1>8 DEF Turned, Back, c, r
  <2>. QED
    BY <2>1, <1>1, <1>4, <1>8 DEF c, r
<1>. QED
  BY <1>2, <1>5, <1>6, <1>7, <1>8 DEF Turns

LEMMA BackTurn ==
  ASSUME NEW degree, NEW a, NEW b, Turns(degree, a, b),
         NEW p, Side(p, a) \in Nat, Side(p, b) \in Nat,
         NEW x \in 0..Side(p, b) - 1, NEW y \in 0..Side(p, a) - 1,
         NEW u, u = Back(degree, p, x, y, a, b)
  PROVE  /\ u = <<p, u[2], u[3]>>
         /\ u[2] \in 0..Side(p, a) - 1 /\ u[3] \in 0..Side(p, b) - 1
         /\ Turned(degree, u[2], u[3], Side(p, a), Side(p, b)) = <<x, y>>
<1>. DEFINE c == Side(p, a)
            r == Side(p, b)
<1>1. c \in Nat /\ r \in Nat /\ x \in 0..r - 1 /\ y \in 0..c - 1 /\ (a = b => c = r)
  OBVIOUS
<1>2. degree \in {0, 90, 180, 270}
  BY DEF Turns
<1>. HIDE DEF c, r
<1>4. r - 1 - (r - 1 - x) = x /\ c - 1 - (c - 1 - y) = y
      /\ c - 1 - (c - 1 - x) = x /\ r - 1 - (r - 1 - y) = y
  BY <1>1
<1>5. CASE degree = 90
  <2>1. u = <<p, y, r - 1 - x>> /\ Turned(degree, u[2], u[3], c, r) = <<r - 1 - u[3], u[2]>>
    BY <1>5 DEF Turned, Back, r
  <2>. QED
    BY <2>1, <1>1, <1>4 DEF c, r
<1>6. CASE degree = 270
  <2>1. u = <<p, c - 1 - y, x>> /\ Turned(degree, u[2], u[3], c, r) = <<u[3], c - 1 - u[2]>>
    BY <1>6 DEF Turned, Back, c
  <2>. QED
    BY <2>1, <1>1, <1>4 DEF c, r
<1>7. CASE degree = 0 /\ a = b
  <2>1. u = <<p, x, y>> /\ Turned(degree, u[2], u[3], c, r) = <<u[2], u[3]>>
    BY <1>7 DEF Turned, Back
  <2>. QED
    BY <2>1, <1>1, <1>7 DEF c, r
<1>8. CASE degree = 180 /\ a = b
  <2>1. /\ u = <<p, c - 1 - x, r - 1 - y>>
        /\ Turned(degree, u[2], u[3], c, r) = <<c - 1 - u[2], r - 1 - u[3]>>
    BY <1>8 DEF Turned, Back, c, r
  <2>. QED
    BY <2>1, <1>1, <1>4, <1>8 DEF c, r
<1>. QED
  BY <1>2, <1>5, <1>6, <1>7, <1>8 DEF Turns

(* rotate_i420, a plane at a time.                                         *)
RotatedPlane(p, a, b, degree) ==
  Plane(Begins(p, a, b), Side(p, b), Begins(p, a, b), Side(p, a), 1,
        Side(p, a), Side(p, b), degree)

LEMMA RotatedPlanes ==
  ASSUME NEW a, NEW b, NEW degree
  PROVE  Rotated(a, b, degree) = UNION {RotatedPlane(p, a, b, degree) : p \in Planes}
<1>1. Planes = {"Y", "U", "V"}
  BY DEF Planes
<1>2. /\ RotatedPlane("Y", a, b, degree) = Plane(0, b, 0, a, 1, a, b, degree)
      /\ RotatedPlane("U", a, b, degree)
           = Plane(a * b, Half(b), a * b, Half(a), 1, Half(a), Half(b), degree)
      /\ RotatedPlane("V", a, b, degree)
           = Plane(a * b + ((a * b) \div 4), Half(b), a * b + ((a * b) \div 4), Half(a), 1,
                   Half(a), Half(b), degree)
  BY DEF RotatedPlane, Side, Begins
<1>. QED
  BY <1>1, <1>2 DEF Rotated

(* A sum read from the left is the same read from the right.               *)
LEMMA Regroup ==
  ASSUME NEW i \in Int, NEW j \in Int, NEW k \in Int
  PROVE  i + j + k = i + (j + k)
OBVIOUS

(* rotate_i420 carries every sample to its place in the turned picture.    *)
LEMMA RotationCarries ==
  ASSUME EvenSides, NEW a \in Sides, NEW b \in Sides, NEW degree, Turns(degree, a, b)
  PROVE  Carries(Rotated(a, b, degree), Samples(b, a), I420(b, a), I420(a, b),
                 Seen(a, b, degree))
<1>1. ASSUME NEW p \in Planes, NEW x \in 0..Side(p, a) - 1, NEW y \in 0..Side(p, b) - 1,
             NEW t, t = Turned(degree, x, y, Side(p, a), Side(p, b)),
             NEW s, s = <<p, t[1], t[2]>>
      PROVE  /\ s \in Samples(b, a) /\ Seen(a, b, degree)[s] = <<p, x, y>>
             /\ I420(b, a)[s] = Begins(p, a, b) + t[2] * Side(p, b) + t[1]
             /\ I420(a, b)[<<p, x, y>>] = Begins(p, a, b) + y * Side(p, a) + x * 1
  <2>1. Side(p, a) \in Nat /\ Side(p, b) \in Nat
    BY PlaneSizes
  <2>2. /\ t[1] \in 0..Side(p, b) - 1 /\ t[2] \in 0..Side(p, a) - 1
        /\ Back(degree, p, t[1], t[2], a, b) = <<p, x, y>>
    BY <1>1, <2>1, TurnBack
  <2>3. s \in Samples(b, a) /\ I420(b, a)[s] = Begins(p, b, a) + Nth(p, t[1], t[2], b)
    BY <1>1, <2>2, Places
  <2>4. Seen(a, b, degree)[s] = <<p, x, y>>
    BY <1>1, <2>2, <2>3 DEF Seen
  <2>5. I420(a, b)[<<p, x, y>>] = Begins(p, a, b) + Nth(p, x, y, a)
    BY Places
  <2>6. Begins(p, a, b) \in Int /\ Begins(p, b, a) = Begins(p, a, b)
    BY PlaceI420
  <2>7. /\ t[2] * Side(p, b) \in Int /\ t[1] \in Int /\ y * Side(p, a) \in Int
        /\ x \in Int /\ x * 1 = x
    BY <2>1, <2>2
  <2>8. Begins(p, a, b) + t[2] * Side(p, b) + t[1]
          = Begins(p, a, b) + (t[2] * Side(p, b) + t[1])
    BY <2>6, <2>7, Regroup
  <2>9. Begins(p, a, b) + y * Side(p, a) + x = Begins(p, a, b) + (y * Side(p, a) + x)
    BY <2>6, <2>7, Regroup
  <2>. QED
    BY <2>3, <2>4, <2>5, <2>6, <2>7, <2>8, <2>9 DEF Nth
<1>2. ASSUME NEW m \in Rotated(a, b, degree)
      PROVE  \E s \in Samples(b, a) : m = <<I420(b, a)[s], I420(a, b)[Seen(a, b, degree)[s]]>>
  <2>1. PICK p \in Planes : m \in RotatedPlane(p, a, b, degree)
    BY RotatedPlanes
  <2>2. PICK x \in 0..Side(p, a) - 1, y \in 0..Side(p, b) - 1 :
          m = <<Begins(p, a, b) + Turned(degree, x, y, Side(p, a), Side(p, b))[2] * Side(p, b)
                  + Turned(degree, x, y, Side(p, a), Side(p, b))[1],
                Begins(p, a, b) + y * Side(p, a) + x * 1>>
    BY <2>1 DEF RotatedPlane, Plane
  <2>. DEFINE t == Turned(degree, x, y, Side(p, a), Side(p, b))
              s == <<p, t[1], t[2]>>
  <2>. HIDE DEF s
  <2>3. /\ s \in Samples(b, a) /\ Seen(a, b, degree)[s] = <<p, x, y>>
        /\ I420(b, a)[s] = Begins(p, a, b) + t[2] * Side(p, b) + t[1]
        /\ I420(a, b)[<<p, x, y>>] = Begins(p, a, b) + y * Side(p, a) + x * 1
    BY <1>1 DEF s
  <2>. QED
    BY <2>2, <2>3
<1>3. ASSUME NEW p \in Planes, NEW i \in 0..Side(p, b) - 1, NEW j \in 0..Side(p, a) - 1,
             NEW s, s = <<p, i, j>>
      PROVE  <<I420(b, a)[s], I420(a, b)[Seen(a, b, degree)[s]]>> \in Rotated(a, b, degree)
  <2>. DEFINE u == Back(degree, p, i, j, a, b)
              x == u[2]
              y == u[3]
              t == Turned(degree, x, y, Side(p, a), Side(p, b))
  <2>1. Side(p, a) \in Nat /\ Side(p, b) \in Nat
    BY PlaneSizes
  <2>2. x \in 0..Side(p, a) - 1 /\ y \in 0..Side(p, b) - 1 /\ t = <<i, j>>
    BY <2>1, BackTurn
  <2>. HIDE DEF x, y
  <2>3. t = Turned(degree, x, y, Side(p, a), Side(p, b)) /\ s = <<p, t[1], t[2]>>
    BY <1>3, <2>2
  <2>. HIDE DEF t
  <2>4. /\ Seen(a, b, degree)[s] = <<p, x, y>>
        /\ I420(b, a)[s] = Begins(p, a, b) + t[2] * Side(p, b) + t[1]
        /\ I420(a, b)[<<p, x, y>>] = Begins(p, a, b) + y * Side(p, a) + x * 1
    BY <1>1, <2>2, <2>3
  <2>5. <<Begins(p, a, b) + t[2] * Side(p, b) + t[1],
          Begins(p, a, b) + y * Side(p, a) + x * 1>> \in RotatedPlane(p, a, b, degree)
    BY <2>2, <2>3 DEF RotatedPlane, Plane
  <2>. QED
    BY <2>4, <2>5, RotatedPlanes
<1>4. ASSUME NEW s \in Samples(b, a)
      PROVE  <<I420(b, a)[s], I420(a, b)[Seen(a, b, degree)[s]]>> \in Rotated(a, b, degree)
  <2>1. /\ s = <<s[1], s[2], s[3]>> /\ s[1] \in Planes
        /\ s[2] \in 0..Side(s[1], b) - 1 /\ s[3] \in 0..Side(s[1], a) - 1
    BY SamplesAre
  <2>. QED
    BY <2>1, <1>3
<1>. QED
  BY <1>2, <1>4 DEF Carries

(* Moves that keep every sample at its column and row.                     *)
LEMMA CarriesSame ==
  ASSUME NEW a, NEW b, NEW D, NEW S, NEW moves,
         \A m \in moves : \E p \in Planes :
           \E x \in 0..Side(p, a) - 1 : \E y \in 0..Side(p, b) - 1 :
             m = <<D[<<p, x, y>>], S[<<p, x, y>>]>>,
         \A p \in Planes : \A x \in 0..Side(p, a) - 1 : \A y \in 0..Side(p, b) - 1 :
           <<D[<<p, x, y>>], S[<<p, x, y>>]>> \in moves
  PROVE  Carries(moves, Samples(a, b), D, S, Same(Samples(a, b)))
<1>1. ASSUME NEW m \in moves
      PROVE  \E s \in Samples(a, b) : m = <<D[s], S[Same(Samples(a, b))[s]]>>
  <2>1. PICK p \in Planes : \E x \in 0..Side(p, a) - 1 : \E y \in 0..Side(p, b) - 1 :
          m = <<D[<<p, x, y>>], S[<<p, x, y>>]>>
    OBVIOUS
  <2>2. PICK x \in 0..Side(p, a) - 1, y \in 0..Side(p, b) - 1 :
          m = <<D[<<p, x, y>>], S[<<p, x, y>>]>>
    BY <2>1
  <2>3. <<p, x, y>> \in Samples(a, b)
    BY SamplesAre
  <2>. QED
    BY <2>2, <2>3 DEF Same
<1>2. ASSUME NEW s \in Samples(a, b)
      PROVE  <<D[s], S[Same(Samples(a, b))[s]]>> \in moves
  <2>1. /\ s = <<s[1], s[2], s[3]>> /\ s[1] \in Planes
        /\ s[2] \in 0..Side(s[1], a) - 1 /\ s[3] \in 0..Side(s[1], b) - 1
    BY SamplesAre
  <2>2. <<D[<<s[1], s[2], s[3]>>], S[<<s[1], s[2], s[3]>>]>> \in moves
    BY <2>1
  <2>. QED
    BY <2>1, <2>2 DEF Same
<1>. QED
  BY <1>1, <1>2 DEF Carries

(* The moves of nv21_to_i420, for a picture of a by b, a plane at a time.  *)
Converted(a, b) ==
  UNION {Plane(0, a, 0, a, 1, a, b, 0),
         Plane(a * b, Half(a), a * b + 1, a, 2, Half(a), Half(b), 0),
         Plane(a * b + ((a * b) \div 4), Half(a), a * b, a, 2, Half(a), Half(b), 0)}

ConvertedFrom(p, a, b) ==
  CASE p = "Y" -> 0 [] p = "U" -> a * b + 1 [] p = "V" -> a * b

ConvertedPlane(p, a, b) ==
  Plane(Begins(p, a, b), Side(p, a), ConvertedFrom(p, a, b), a, IF p = "Y" THEN 1 ELSE 2,
        Side(p, a), Side(p, b), 0)

LEMMA ConvertedPlanes ==
  ASSUME NEW a, NEW b
  PROVE  Converted(a, b) = UNION {ConvertedPlane(p, a, b) : p \in Planes}
<1>1. Planes = {"Y", "U", "V"}
  BY DEF Planes
<1>2. /\ ConvertedPlane("Y", a, b) = Plane(0, a, 0, a, 1, a, b, 0)
      /\ ConvertedPlane("U", a, b)
           = Plane(a * b, Half(a), a * b + 1, a, 2, Half(a), Half(b), 0)
      /\ ConvertedPlane("V", a, b)
           = Plane(a * b + ((a * b) \div 4), Half(a), a * b, a, 2, Half(a), Half(b), 0)
  BY DEF ConvertedPlane, ConvertedFrom, Side, Begins
<1>. QED
  BY <1>1, <1>2 DEF Converted

(* nv21_to_i420 takes every sample from NV21 to I420.                      *)
LEMMA ConversionCarries ==
  ASSUME EvenSides, NEW a \in Sides, NEW b \in Sides
  PROVE  Carries(Converted(a, b), Samples(a, b), I420(a, b), NV21(a, b),
                 Same(Samples(a, b)))
<1>1. ASSUME NEW p \in Planes, NEW x \in 0..Side(p, a) - 1, NEW y \in 0..Side(p, b) - 1
      PROVE  <<Begins(p, a, b) + y * Side(p, a) + x,
               ConvertedFrom(p, a, b) + y * a + x * (IF p = "Y" THEN 1 ELSE 2)>>
               = <<I420(a, b)[<<p, x, y>>], NV21(a, b)[<<p, x, y>>]>>
  <2>1. /\ Side(p, a) \in Nat /\ Side(p, b) \in Nat /\ Begins(p, a, b) \in Nat
        /\ a * b \in Nat /\ a \in Nat
    BY PlaneSizes, PlaceI420, Sizes4
  <2>2. x \in Nat /\ y \in Nat /\ y * a \in Nat /\ y * Side(p, a) \in Nat
    BY <2>1
  <2>3. Begins(p, a, b) + y * Side(p, a) + x = Begins(p, a, b) + (y * Side(p, a) + x)
    BY <2>1, <2>2, Regroup
  <2>4. I420(a, b)[<<p, x, y>>] = Begins(p, a, b) + (y * Side(p, a) + x)
    BY Places DEF Nth
  <2>. DEFINE A == a * b
              m == y * a
  <2>5. /\ p = "Y" => ConvertedFrom(p, a, b) = 0 /\ OffNV21(p, x, y, a, b) = m + x
        /\ p = "U" => /\ ConvertedFrom(p, a, b) = A + 1
                      /\ OffNV21(p, x, y, a, b) = A + m + 2 * x + 1
        /\ p = "V" => /\ ConvertedFrom(p, a, b) = A
                      /\ OffNV21(p, x, y, a, b) = A + m + 2 * x
    BY DEF ConvertedFrom, OffNV21
  <2>. HIDE DEF A, m
  <2>6. ConvertedFrom(p, a, b) + m + x * (IF p = "Y" THEN 1 ELSE 2) = OffNV21(p, x, y, a, b)
    <3>1. A \in Nat /\ m \in Nat /\ p \in {"Y", "U", "V"}
      BY <2>1, <2>2 DEF A, m, Planes
    <3>. QED
      BY <3>1, <2>2, <2>5
  <2>7. NV21(a, b)[<<p, x, y>>] = OffNV21(p, x, y, a, b)
    BY Places
  <2>. QED
    BY <2>3, <2>4, <2>6, <2>7 DEF m
<1>2. ASSUME NEW m \in Converted(a, b)
      PROVE  \E p \in Planes : \E x \in 0..Side(p, a) - 1 : \E y \in 0..Side(p, b) - 1 :
               m = <<I420(a, b)[<<p, x, y>>], NV21(a, b)[<<p, x, y>>]>>
  <2>1. PICK p \in Planes : m \in ConvertedPlane(p, a, b)
    BY ConvertedPlanes
  <2>2. PICK x \in 0..Side(p, a) - 1, y \in 0..Side(p, b) - 1 :
          m = <<Begins(p, a, b) + y * Side(p, a) + x,
                ConvertedFrom(p, a, b) + y * a + x * (IF p = "Y" THEN 1 ELSE 2)>>
    BY <2>1 DEF ConvertedPlane, Plane, Turned
  <2>. QED
    BY <2>2, <1>1
<1>3. ASSUME NEW p \in Planes, NEW x \in 0..Side(p, a) - 1, NEW y \in 0..Side(p, b) - 1
      PROVE  <<I420(a, b)[<<p, x, y>>], NV21(a, b)[<<p, x, y>>]>> \in Converted(a, b)
  <2>1. <<Begins(p, a, b) + y * Side(p, a) + x,
          ConvertedFrom(p, a, b) + y * a + x * (IF p = "Y" THEN 1 ELSE 2)>>
          \in ConvertedPlane(p, a, b)
    BY DEF ConvertedPlane, Plane, Turned
  <2>. QED
    BY <2>1, <1>1, ConvertedPlanes
<1>. QED
  BY <1>2, <1>3, CarriesSame

(* The moves of i420_to_nv21, for a picture of a by b.                     *)
WovenChroma(to, from, a, b) ==
  {<<to + y * a + 2 * x, from + y * Half(a) + x>> :
     x \in 0..Half(a) - 1, y \in 0..Half(b) - 1}
Woven(a, b) ==
  UNION {Plane(0, a, 0, a, 1, a, b, 0),
         WovenChroma(a * b, a * b + ((a * b) \div 4), a, b),
         WovenChroma(a * b + 1, a * b, a, b)}

WovenPlane(p, a, b) ==
  CASE p = "Y" -> Plane(0, a, 0, a, 1, a, b, 0)
    [] p = "U" -> WovenChroma(a * b + 1, a * b, a, b)
    [] p = "V" -> WovenChroma(a * b, a * b + ((a * b) \div 4), a, b)

LEMMA WovenPlanes ==
  ASSUME NEW a, NEW b
  PROVE  Woven(a, b) = UNION {WovenPlane(p, a, b) : p \in Planes}
<1>1. Planes = {"Y", "U", "V"}
  BY DEF Planes
<1>2. /\ WovenPlane("Y", a, b) = Plane(0, a, 0, a, 1, a, b, 0)
      /\ WovenPlane("U", a, b) = WovenChroma(a * b + 1, a * b, a, b)
      /\ WovenPlane("V", a, b) = WovenChroma(a * b, a * b + ((a * b) \div 4), a, b)
  BY DEF WovenPlane
<1>. QED
  BY <1>1, <1>2 DEF Woven

(* The addresses of one of its moves.                                      *)
WovenTo(p, x, y, a, b) ==
  CASE p = "Y" -> 0 + y * a + x
    [] p = "U" -> a * b + 1 + y * a + 2 * x
    [] p = "V" -> a * b + y * a + 2 * x

WovenFrom(p, x, y, a, b) ==
  IF p = "Y" THEN 0 + y * a + x * 1 ELSE Begins(p, a, b) + y * Side(p, a) + x

LEMMA WovenMoves ==
  ASSUME NEW p \in Planes, NEW a, NEW b, NEW m
  PROVE  m \in WovenPlane(p, a, b)
           <=> \E x \in 0..Side(p, a) - 1 : \E y \in 0..Side(p, b) - 1 :
                 m = <<WovenTo(p, x, y, a, b), WovenFrom(p, x, y, a, b)>>
<1>1. CASE p = "Y"
  BY <1>1 DEF WovenPlane, Plane, Turned, WovenTo, WovenFrom, Side
<1>2. CASE p = "U"
  BY <1>2 DEF WovenPlane, WovenChroma, WovenTo, WovenFrom, Side, Begins
<1>3. CASE p = "V"
  BY <1>3 DEF WovenPlane, WovenChroma, WovenTo, WovenFrom, Side, Begins
<1>. QED
  BY <1>1, <1>2, <1>3 DEF Planes

(* i420_to_nv21 takes every sample from I420 to NV21.                      *)
LEMMA WeavingCarries ==
  ASSUME EvenSides, NEW a \in Sides, NEW b \in Sides
  PROVE  Carries(Woven(a, b), Samples(a, b), NV21(a, b), I420(a, b), Same(Samples(a, b)))
<1>1. ASSUME NEW p \in Planes, NEW x \in 0..Side(p, a) - 1, NEW y \in 0..Side(p, b) - 1
      PROVE  <<WovenTo(p, x, y, a, b), WovenFrom(p, x, y, a, b)>>
               = <<NV21(a, b)[<<p, x, y>>], I420(a, b)[<<p, x, y>>]>>
  <2>1. /\ Side(p, a) \in Nat /\ Side(p, b) \in Nat /\ Begins(p, a, b) \in Nat
        /\ a * b \in Nat /\ a \in Nat
    BY PlaneSizes, PlaceI420, Sizes4
  <2>2. x \in Nat /\ y \in Nat /\ y * a \in Nat /\ y * Side(p, a) \in Nat
    BY <2>1
  <2>3. Begins(p, a, b) + y * Side(p, a) + x = Begins(p, a, b) + (y * Side(p, a) + x)
    BY <2>1, <2>2, Regroup
  <2>4. I420(a, b)[<<p, x, y>>] = Begins(p, a, b) + (y * Side(p, a) + x)
    BY Places DEF Nth
  <2>. DEFINE A == a * b
              m == y * a
  <2>5. /\ p = "Y" => /\ WovenTo(p, x, y, a, b) = 0 + m + x
                      /\ OffNV21(p, x, y, a, b) = m + x
                      /\ WovenFrom(p, x, y, a, b) = 0 + m + x * 1
                      /\ Begins(p, a, b) = 0 /\ y * Side(p, a) = m
        /\ p = "U" => /\ WovenTo(p, x, y, a, b) = A + 1 + m + 2 * x
                      /\ OffNV21(p, x, y, a, b) = A + m + 2 * x + 1
        /\ p = "V" => /\ WovenTo(p, x, y, a, b) = A + m + 2 * x
                      /\ OffNV21(p, x, y, a, b) = A + m + 2 * x
        /\ p # "Y" => WovenFrom(p, x, y, a, b) = Begins(p, a, b) + y * Side(p, a) + x
    BY DEF WovenTo, WovenFrom, OffNV21, Begins, Side
  <2>. HIDE DEF A, m
  <2>6. A \in Nat /\ m \in Nat /\ p \in {"Y", "U", "V"}
    BY <2>1, <2>2 DEF A, m, Planes
  <2>7. WovenTo(p, x, y, a, b) = OffNV21(p, x, y, a, b)
    BY <2>2, <2>5, <2>6
  <2>8. WovenFrom(p, x, y, a, b) = Begins(p, a, b) + (y * Side(p, a) + x)
    BY <2>2, <2>3, <2>5, <2>6
  <2>9. NV21(a, b)[<<p, x, y>>] = OffNV21(p, x, y, a, b)
    BY Places
  <2>. QED
    BY <2>4, <2>7, <2>8, <2>9
<1>2. ASSUME NEW m \in Woven(a, b)
      PROVE  \E p \in Planes : \E x \in 0..Side(p, a) - 1 : \E y \in 0..Side(p, b) - 1 :
               m = <<NV21(a, b)[<<p, x, y>>], I420(a, b)[<<p, x, y>>]>>
  <2>1. PICK p \in Planes : m \in WovenPlane(p, a, b)
    BY WovenPlanes
  <2>2. PICK x \in 0..Side(p, a) - 1, y \in 0..Side(p, b) - 1 :
          m = <<WovenTo(p, x, y, a, b), WovenFrom(p, x, y, a, b)>>
    BY <2>1, WovenMoves
  <2>. QED
    BY <2>2, <1>1
<1>3. ASSUME NEW p \in Planes, NEW x \in 0..Side(p, a) - 1, NEW y \in 0..Side(p, b) - 1
      PROVE  <<NV21(a, b)[<<p, x, y>>], I420(a, b)[<<p, x, y>>]>> \in Woven(a, b)
  <2>1. <<WovenTo(p, x, y, a, b), WovenFrom(p, x, y, a, b)>> \in WovenPlane(p, a, b)
    BY WovenMoves
  <2>. QED
    BY <2>1, <1>1, WovenPlanes
<1>. QED
  BY <1>2, <1>3, CarriesSame

-----------------------------------------------------------------------------
(* The rotations of YUV420Utils.                                           *)

(* Numbered backwards, a plane is turned by 180 degrees.                   *)
LEMMA BackwardsNumber ==
  ASSUME NEW c \in Nat, NEW r \in Nat, NEW x \in 0..c - 1, NEW y \in 0..r - 1
  PROVE  /\ (r - 1 - y) * c + (c - 1 - x) = r * c - 1 - (y * c + x)
         /\ c - 1 - x \in 0..c - 1 /\ r - 1 - y \in 0..r - 1
<1>. DEFINE m == r * c
            n == y * c
<1>1. (r - 1 - y) * c = m - c - n
  OBVIOUS
<1>2. m \in Nat /\ n \in Nat /\ x \in Nat
  OBVIOUS
<1>. HIDE DEF m, n
<1>3. m - c - n + (c - 1 - x) = m - 1 - (n + x)
  BY <1>2
<1>4. (r - 1 - y) * c + (c - 1 - x) = m - 1 - (n + x)
  BY <1>1, <1>3
<1>. QED
  BY <1>4 DEF m, n

HalfTurn(cols, rows) ==
  [s \in Samples(cols, rows) |->
     <<s[1], Side(s[1], cols) - 1 - s[2], Side(s[1], rows) - 1 - s[3]>>]

Utils180(a, b) ==
  LET y_size == a * b
      n == Bytes(a, b)
  IN {<<i, y_size - 1 - i>> : i \in 0..y_size - 1}
       \cup UNION {{<<y_size + 2 * k, n - 2 - 2 * k>>, <<y_size + 2 * k + 1, n - 1 - 2 * k>>} :
                   k \in 0..Half(Half(y_size)) - 1}

(* Its moves, by the numbers of the samples.                               *)
LEMMA BackwardsMoves ==
  ASSUME NEW A \in Nat, NEW B \in Nat, NEW a, NEW b, a * b = A, Half(Half(A)) = B,
         Bytes(a, b) = A + 2 * B, NEW m
  PROVE  m \in Utils180(a, b)
           <=> \E p \in Planes : \E k : /\ Numbered(p, k, A, B)
                 /\ m = <<Interleaved(p, k, A),
                          Interleaved(p, (IF p = "Y" THEN A ELSE B) - 1 - k, A)>>
<1>1. m \in Utils180(a, b)
        <=> \/ \E k \in 0..A - 1 : m = <<k, A - 1 - k>>
            \/ \E k \in 0..B - 1 : \/ m = <<A + 2 * k, A + 2 * B - 2 - 2 * k>>
                                   \/ m = <<A + 2 * k + 1, A + 2 * B - 1 - 2 * k>>
  <2>1. Utils180(a, b)
          = {<<i, A - 1 - i>> : i \in 0..A - 1}
              \cup UNION {{<<A + 2 * k, A + 2 * B - 2 - 2 * k>>,
                          <<A + 2 * k + 1, A + 2 * B - 1 - 2 * k>>} : k \in 0..B - 1}
    <3>. DEFINE set(y, n, q) ==
                  {<<i, y - 1 - i>> : i \in 0..y - 1}
                    \cup UNION {{<<y + 2 * k, n - 2 - 2 * k>>,
                                <<y + 2 * k + 1, n - 1 - 2 * k>>} : k \in 0..q - 1}
    <3>1. Utils180(a, b) = set(a * b, Bytes(a, b), Half(Half(a * b)))
      BY DEF Utils180
    <3>. HIDE DEF set
    <3>2. Utils180(a, b) = set(A, A + 2 * B, B)
      BY <3>1
    <3>. QED
      BY <3>2 DEF set
  <2>2. m \in UNION {{<<A + 2 * k, A + 2 * B - 2 - 2 * k>>,
                     <<A + 2 * k + 1, A + 2 * B - 1 - 2 * k>>} : k \in 0..B - 1}
          <=> \E k \in 0..B - 1 : \/ m = <<A + 2 * k, A + 2 * B - 2 - 2 * k>>
                                 \/ m = <<A + 2 * k + 1, A + 2 * B - 1 - 2 * k>>
    OBVIOUS
  <2>. QED
    BY <2>1, <2>2
<1>2. \A k \in 0..B - 1 : /\ A + 2 * B - 2 - 2 * k = A + 2 * (B - 1 - k)
                          /\ A + 2 * B - 1 - 2 * k = A + 2 * (B - 1 - k) + 1
  OBVIOUS
<1>3. m \in Utils180(a, b)
        <=> \/ \E k \in 0..A - 1 : m = <<k, A - 1 - k>>
            \/ \E k \in 0..B - 1 : m = <<A + 2 * k, A + 2 * (B - 1 - k)>>
            \/ \E k \in 0..B - 1 : m = <<A + 2 * k + 1, A + 2 * (B - 1 - k) + 1>>
  BY <1>1, <1>2
<1>. QED
  BY <1>3 DEF Planes, Numbered, Interleaved

(* rotate180 carries every sample to the place opposite, in the picture and *)
(* in any other with as many samples, that of the columns among them.      *)
LEMMA HalfTurnCarries ==
  ASSUME EvenSides, NEW a \in Sides, NEW b \in Sides, NEW c \in Sides, NEW r \in Sides,
         (c = a /\ r = b) \/ (c = b /\ r = a)
  PROVE  Carries(Utils180(a, b), Samples(c, r), NV21(c, r), NV21(c, r), HalfTurn(c, r))
<1>. DEFINE A == c * r
            B == (c * r) \div 4
<1>1. /\ A \in Nat /\ B \in Nat /\ a * b = A /\ Half(Half(A)) = B /\ Bytes(a, b) = A + 2 * B
      /\ \A p \in Planes : /\ Side(p, c) \in Nat /\ Side(p, r) \in Nat
                           /\ Count(p, c, r) = IF p = "Y" THEN A ELSE B
  <2>1. a * b = A
    BY PlaneSizes
  <2>2. Bytes(a, b) = A + 2 * B
    BY <2>1, PlaneSizes
  <2>. QED
    BY <2>1, <2>2, PlaneSizes
<1>. HIDE DEF A, B
<1>2. ASSUME NEW p \in Planes, NEW x \in 0..Side(p, c) - 1, NEW y \in 0..Side(p, r) - 1,
             NEW k, k = Nth(p, x, y, c), NEW s, s = <<p, x, y>>
      PROVE  /\ s \in Samples(c, r) /\ Numbered(p, k, A, B)
             /\ NV21(c, r)[s] = Interleaved(p, k, A)
             /\ NV21(c, r)[HalfTurn(c, r)[s]]
                  = Interleaved(p, (IF p = "Y" THEN A ELSE B) - 1 - k, A)
  <2>. DEFINE u == Side(p, c) - 1 - x
              v == Side(p, r) - 1 - y
  <2>1. s \in Samples(c, r) /\ NV21(c, r)[s] = Interleaved(p, k, A)
    BY <1>2, Places DEF A
  <2>2. Numbered(p, k, A, B)
    <3>1. k \in 0..Count(p, c, r) - 1
      BY <1>2, NumberRange
    <3>. QED
      BY <1>1, <3>1 DEF Numbered
  <2>3. /\ Nth(p, u, v, c) = Count(p, c, r) - 1 - k
        /\ u \in 0..Side(p, c) - 1 /\ v \in 0..Side(p, r) - 1
    <3>1. Side(p, c) \in Nat /\ Side(p, r) \in Nat
      BY <1>1
    <3>2. /\ v * Side(p, c) + u = Side(p, r) * Side(p, c) - 1 - (y * Side(p, c) + x)
          /\ u \in 0..Side(p, c) - 1 /\ v \in 0..Side(p, r) - 1
      BY <3>1, BackwardsNumber
    <3>. QED
      BY <1>2, <3>2 DEF Nth, Count
  <2>4. HalfTurn(c, r)[s] = <<p, u, v>>
    BY <1>2, <2>1 DEF HalfTurn
  <2>. HIDE DEF u, v
  <2>5. NV21(c, r)[<<p, u, v>>] = Interleaved(p, Nth(p, u, v, c), A)
    BY <2>3, Places DEF A
  <2>. QED
    BY <1>1, <2>1, <2>2, <2>3, <2>4, <2>5
<1>3. ASSUME NEW m \in Utils180(a, b)
      PROVE  \E s \in Samples(c, r) : m = <<NV21(c, r)[s], NV21(c, r)[HalfTurn(c, r)[s]]>>
  <2>0. PICK p \in Planes : \E k :
          /\ Numbered(p, k, A, B)
          /\ m = <<Interleaved(p, k, A),
                   Interleaved(p, (IF p = "Y" THEN A ELSE B) - 1 - k, A)>>
    BY <1>1, BackwardsMoves
  <2>1. PICK k :
          /\ Numbered(p, k, A, B)
          /\ m = <<Interleaved(p, k, A),
                   Interleaved(p, (IF p = "Y" THEN A ELSE B) - 1 - k, A)>>
    BY <2>0
  <2>2. k \in 0..Side(p, r) * Side(p, c) - 1 /\ Side(p, c) \in Nat /\ Side(p, r) \in Nat
    BY <1>1, <2>1 DEF Numbered, Count
  <2>3. PICK x \in 0..Side(p, c) - 1, y \in 0..Side(p, r) - 1 : k = y * Side(p, c) + x
    BY <2>2, NumberReached
  <2>4. k = Nth(p, x, y, c)
    BY <2>3 DEF Nth
  <2>. DEFINE s == <<p, x, y>>
  <2>5. /\ s \in Samples(c, r) /\ NV21(c, r)[s] = Interleaved(p, k, A)
        /\ NV21(c, r)[HalfTurn(c, r)[s]]
             = Interleaved(p, (IF p = "Y" THEN A ELSE B) - 1 - k, A)
    BY <1>2, <2>4
  <2>. HIDE DEF s
  <2>. QED
    BY <2>1, <2>5
<1>4. ASSUME NEW s \in Samples(c, r)
      PROVE  <<NV21(c, r)[s], NV21(c, r)[HalfTurn(c, r)[s]]>> \in Utils180(a, b)
  <2>1. /\ s = <<s[1], s[2], s[3]>> /\ s[1] \in Planes
        /\ s[2] \in 0..Side(s[1], c) - 1 /\ s[3] \in 0..Side(s[1], r) - 1
    BY SamplesAre
  <2>. DEFINE p == s[1]
              k == Nth(p, s[2], s[3], c)
  <2>2. /\ Numbered(p, k, A, B) /\ NV21(c, r)[s] = Interleaved(p, k, A)
        /\ NV21(c, r)[HalfTurn(c, r)[s]]
             = Interleaved(p, (IF p = "Y" THEN A ELSE B) - 1 - k, A)
    BY <1>2, <2>1
  <2>. HIDE DEF p, k
  <2>3. p \in Planes
    BY <2>1 DEF p
  <2>. QED
    BY <1>1, <2>2, <2>3, BackwardsMoves
<1>. QED
  BY <1>3, <1>4 DEF Carries

(* Moves that take every sample where the turn takes it.                   *)
TurnedSample(degree, p, x, y, a, b) ==
  <<p, Turned(degree, x, y, Side(p, a), Side(p, b))[1],
    Turned(degree, x, y, Side(p, a), Side(p, b))[2]>>

LEMMA CarriesTurned ==
  ASSUME EvenSides, NEW a \in Sides, NEW b \in Sides, NEW degree, Turns(degree, a, b),
         NEW D, NEW S, NEW moves,
         \A m \in moves : \E p \in Planes :
           \E x \in 0..Side(p, a) - 1 : \E y \in 0..Side(p, b) - 1 :
             m = <<D[TurnedSample(degree, p, x, y, a, b)], S[<<p, x, y>>]>>,
         \A p \in Planes : \A x \in 0..Side(p, a) - 1 : \A y \in 0..Side(p, b) - 1 :
           <<D[TurnedSample(degree, p, x, y, a, b)], S[<<p, x, y>>]>> \in moves
  PROVE  Carries(moves, Samples(b, a), D, S, Seen(a, b, degree))
<1>1. ASSUME NEW m \in moves
      PROVE  \E s \in Samples(b, a) : m = <<D[s], S[Seen(a, b, degree)[s]]>>
  <2>1. PICK p \in Planes : \E x \in 0..Side(p, a) - 1 : \E y \in 0..Side(p, b) - 1 :
          m = <<D[TurnedSample(degree, p, x, y, a, b)], S[<<p, x, y>>]>>
    OBVIOUS
  <2>2. PICK x \in 0..Side(p, a) - 1, y \in 0..Side(p, b) - 1 :
          m = <<D[TurnedSample(degree, p, x, y, a, b)], S[<<p, x, y>>]>>
    BY <2>1
  <2>3. Side(p, a) \in Nat /\ Side(p, b) \in Nat
    BY PlaneSizes
  <2>. DEFINE t == Turned(degree, x, y, Side(p, a), Side(p, b))
              s == <<p, t[1], t[2]>>
  <2>4. t = Turned(degree, x, y, Side(p, a), Side(p, b))
    OBVIOUS
  <2>. HIDE DEF t
  <2>5. /\ t[1] \in 0..Side(p, b) - 1 /\ t[2] \in 0..Side(p, a) - 1
        /\ Back(degree, p, t[1], t[2], a, b) = <<p, x, y>>
    BY <2>3, <2>4, TurnBack
  <2>6. s \in Samples(b, a)
    BY <2>5, SamplesAre
  <2>7. Seen(a, b, degree)[s] = <<p, x, y>>
    BY <2>5, <2>6 DEF Seen
  <2>8. TurnedSample(degree, p, x, y, a, b) = s
    BY DEF TurnedSample, t
  <2>. HIDE DEF s
  <2>. QED
    BY <2>2, <2>6, <2>7, <2>8
<1>2. ASSUME NEW p \in Planes, NEW i \in 0..Side(p, b) - 1, NEW j \in 0..Side(p, a) - 1,
             NEW s, s = <<p, i, j>>
      PROVE  <<D[s], S[Seen(a, b, degree)[s]]>> \in moves
  <2>. DEFINE u == Back(degree, p, i, j, a, b)
              x == u[2]
              y == u[3]
  <2>1. Side(p, a) \in Nat /\ Side(p, b) \in Nat
    BY PlaneSizes
  <2>2. /\ u = <<p, x, y>> /\ x \in 0..Side(p, a) - 1 /\ y \in 0..Side(p, b) - 1
        /\ Turned(degree, x, y, Side(p, a), Side(p, b)) = <<i, j>>
    BY <2>1, BackTurn
  <2>3. Seen(a, b, degree)[s] = u
    <3>1. s \in Samples(b, a)
      BY <1>2, SamplesAre
    <3>. QED
      BY <1>2, <3>1 DEF Seen
  <2>. HIDE DEF u, x, y
  <2>4. TurnedSample(degree, p, x, y, a, b) = s
    BY <1>2, <2>2 DEF TurnedSample
  <2>5. <<D[TurnedSample(degree, p, x, y, a, b)], S[<<p, x, y>>]>> \in moves
    BY <2>2
  <2>. QED
    BY <2>2, <2>3, <2>4, <2>5
<1>3. ASSUME NEW s \in Samples(b, a) PROVE <<D[s], S[Seen(a, b, degree)[s]]>> \in moves
  <2>1. /\ s = <<s[1], s[2], s[3]>> /\ s[1] \in Planes
        /\ s[2] \in 0..Side(s[1], b) - 1 /\ s[3] \in 0..Side(s[1], a) - 1
    BY SamplesAre
  <2>. QED
    BY <2>1, <1>2
<1>. QED
  BY <1>1, <1>3 DEF Carries

(* The odd columns of a picture, and the even ones.                        *)
LEMMA ColumnPairs ==
  ASSUME NEW i \in Nat
  PROVE  /\ \A x : x \in {c \in 1..2 * i - 1 : c % 2 = 1} <=> \E q \in 0..i - 1 : x = 2 * q + 1
         /\ \A x : x \in {c \in 0..2 * i - 1 : c % 2 = 0} <=> \E q \in 0..i - 1 : x = 2 * q
<1>1. ASSUME NEW x \in 0..2 * i - 1
      PROVE  /\ x % 2 = 1 => x \div 2 \in 0..i - 1 /\ x = 2 * (x \div 2) + 1
             /\ x % 2 = 0 => x \div 2 \in 0..i - 1 /\ x = 2 * (x \div 2)
  OBVIOUS
<1>2. ASSUME NEW q \in 0..i - 1
      PROVE  /\ 2 * q + 1 \in 1..2 * i - 1 /\ (2 * q + 1) % 2 = 1
             /\ 2 * q \in 0..2 * i - 1 /\ (2 * q) % 2 = 0
  OBVIOUS
<1>3. 1..2 * i - 1 \subseteq 0..2 * i - 1
  OBVIOUS
<1>. QED
  BY <1>1, <1>2, <1>3

Utils90(a, b) ==
  LET y_size == a * b
      n == Bytes(a, b)
      k(x, y) == 2 * (((a - 1 - x) \div 2) * Half(b) + y)
  IN {<<x * b + (b - 1 - y), y * a + x>> : x \in 0..a - 1, y \in 0..b - 1}
       \cup UNION {{<<n - 1 - k(x, y), y_size + y * a + x>>,
                    <<n - 2 - k(x, y), y_size + y * a + x - 1>>} :
                   x \in {c \in 1..a - 1 : c % 2 = 1}, y \in 0..Half(b) - 1}

(* A pair of chroma samples of rotate90, from column 2 * q + 1.            *)
LEMMA TurnedPair ==
  ASSUME EvenSides, NEW a \in Sides, NEW b \in Sides,
         NEW q \in 0..Half(a) - 1, NEW y \in 0..Half(b) - 1,
         NEW k, k = 2 * (((a - 1 - (2 * q + 1)) \div 2) * Half(b) + y)
  PROVE  /\ Bytes(a, b) - 1 - k = OffNV21("U", Half(b) - 1 - y, q, b, a)
         /\ Bytes(a, b) - 2 - k = OffNV21("V", Half(b) - 1 - y, q, b, a)
         /\ a * b + y * a + (2 * q + 1) = OffNV21("U", q, y, a, b)
         /\ a * b + y * a + (2 * q + 1) - 1 = OffNV21("V", q, y, a, b)
<1>1. PICK i \in Nat, j \in Nat : a = 2 * i /\ b = 2 * j
  BY DEF EvenSides
<1>2. Half(a) = i /\ Half(b) = j /\ q \in 0..i - 1 /\ y \in 0..j - 1
  BY <1>1 DEF Half
<1>3. Bytes(a, b) = a * b + 2 * (j * i) /\ b * a = a * b
  BY <1>1, <1>2, Sizes4
<1>4. (a - 1 - (2 * q + 1)) \div 2 = i - 1 - q
  <2>1. a - 1 - (2 * q + 1) = 2 * (i - 1 - q) /\ i - 1 - q \in Nat
    BY <1>1, <1>2
  <2>. DEFINE u == i - 1 - q
  <2>. HIDE DEF u
  <2>2. u \in Nat /\ a - 1 - (2 * q + 1) = 2 * u
    BY <2>1 DEF u
  <2>3. (2 * u) \div 2 = u
    BY <2>2
  <2>. QED
    BY <2>2, <2>3 DEF u
<1>. DEFINE A == a * b
            M == j * i
            N == q * j
            R == y * a
<1>5. A \in Nat /\ M \in Nat /\ N \in Nat /\ R \in Nat /\ q \in Nat /\ y \in Nat
  BY <1>1, <1>2
<1>6. (i - 1 - q) * j = M - j - N /\ q * b = 2 * N
  BY <1>1, <1>2
<1>7. k = 2 * ((i - 1 - q) * j + y)
  BY <1>2, <1>4
<1>8. k = 2 * (M - j - N + y)
  BY <1>6, <1>7
<1>9. /\ OffNV21("U", j - 1 - y, q, b, a) = A + q * b + 2 * (j - 1 - y) + 1
      /\ OffNV21("V", j - 1 - y, q, b, a) = A + q * b + 2 * (j - 1 - y)
      /\ OffNV21("U", q, y, a, b) = A + R + 2 * q + 1
      /\ OffNV21("V", q, y, a, b) = A + R + 2 * q
  BY <1>3 DEF OffNV21
<1>. HIDE DEF A, M, N, R
<1>10. Bytes(a, b) = A + 2 * M
  BY <1>3 DEF A, M
<1>11. /\ Bytes(a, b) - 1 - k = A + 2 * N + 2 * (j - 1 - y) + 1
       /\ Bytes(a, b) - 2 - k = A + 2 * N + 2 * (j - 1 - y)
  BY <1>5, <1>8, <1>10
<1>12. A + R + (2 * q + 1) = A + R + 2 * q + 1 /\ A + R + (2 * q + 1) - 1 = A + R + 2 * q
  BY <1>5
<1>. QED
  BY <1>2, <1>6, <1>9, <1>11, <1>12 DEF A, R

(* The moves of rotate90: <<to, from>> in the two NV21 pictures.           *)
LEMMA QuarterMoves ==
  ASSUME EvenSides, NEW a \in Sides, NEW b \in Sides, NEW m
  PROVE  m \in Utils90(a, b)
           <=> \E p \in Planes : \E x \in 0..Side(p, a) - 1 : \E y \in 0..Side(p, b) - 1 :
                 m = <<OffNV21(p, Side(p, b) - 1 - y, x, b, a), OffNV21(p, x, y, a, b)>>
<1>1. PICK i \in Nat : a = 2 * i
  BY DEF EvenSides
<1>2. Half(a) = i
  BY <1>1 DEF Half
<1>. DEFINE k(x, y) == 2 * (((a - 1 - x) \div 2) * Half(b) + y)
            to(x, y, d) == Bytes(a, b) - d - k(x, y)
            chroma == UNION {{<<to(x, y, 1), a * b + y * a + x>>,
                              <<to(x, y, 2), a * b + y * a + x - 1>>} :
                             x \in {c \in 1..a - 1 : c % 2 = 1}, y \in 0..Half(b) - 1}
<1>3. Utils90(a, b)
        = {<<x * b + (b - 1 - y), y * a + x>> : x \in 0..a - 1, y \in 0..b - 1} \cup chroma
  BY DEF Utils90
<1>4. m \in chroma
        <=> \E q \in 0..Half(a) - 1 : \E y \in 0..Half(b) - 1 :
              \/ m = <<OffNV21("U", Half(b) - 1 - y, q, b, a), OffNV21("U", q, y, a, b)>>
              \/ m = <<OffNV21("V", Half(b) - 1 - y, q, b, a), OffNV21("V", q, y, a, b)>>
  <2>1. ASSUME NEW q \in 0..Half(a) - 1, NEW y \in 0..Half(b) - 1, NEW x, x = 2 * q + 1
        PROVE  /\ to(x, y, 1) = OffNV21("U", Half(b) - 1 - y, q, b, a)
               /\ to(x, y, 2) = OffNV21("V", Half(b) - 1 - y, q, b, a)
               /\ a * b + y * a + x = OffNV21("U", q, y, a, b)
               /\ a * b + y * a + x - 1 = OffNV21("V", q, y, a, b)
    BY <2>1, TurnedPair
  <2>. HIDE DEF to
  <2>2. m \in chroma
          <=> \E x \in {c \in 1..a - 1 : c % 2 = 1} : \E y \in 0..Half(b) - 1 :
                \/ m = <<to(x, y, 1), a * b + y * a + x>>
                \/ m = <<to(x, y, 2), a * b + y * a + x - 1>>
    <3>. DEFINE odd == {c \in 1..a - 1 : c % 2 = 1}
                rows == 0..Half(b) - 1
                u(x, y) == <<to(x, y, 1), a * b + y * a + x>>
                v(x, y) == <<to(x, y, 2), a * b + y * a + x - 1>>
                pairs == {{u(x, y), v(x, y)} : x \in odd, y \in rows}
    <3>1. chroma = UNION pairs
      OBVIOUS
    <3>. HIDE DEF odd, rows, u, v, chroma
    <3>2. ASSUME m \in chroma
          PROVE  \E x \in odd : \E y \in rows : m = u(x, y) \/ m = v(x, y)
      <4>1. PICK pair \in pairs : m \in pair
        BY <3>1, <3>2
      <4>. QED
        BY <4>1
    <3>3. ASSUME NEW x \in odd, NEW y \in rows, m = u(x, y) \/ m = v(x, y)
          PROVE  m \in chroma
      <4>1. {u(x, y), v(x, y)} \in pairs /\ m \in {u(x, y), v(x, y)}
        BY <3>3
      <4>. HIDE DEF pairs
      <4>. QED
        BY <3>1, <4>1
    <3>4. m \in chroma <=> \E x \in odd : \E y \in rows : m = u(x, y) \/ m = v(x, y)
      BY <3>2, <3>3
    <3>. QED
      BY <3>4 DEF odd, rows, u, v
  <2>3. \A x : x \in {c \in 1..a - 1 : c % 2 = 1} <=> \E q \in 0..Half(a) - 1 : x = 2 * q + 1
    BY <1>1, <1>2, ColumnPairs
  <2>. HIDE DEF chroma
  <2>4. ASSUME m \in chroma
        PROVE  \E q \in 0..Half(a) - 1 : \E y \in 0..Half(b) - 1 :
                 \/ m = <<OffNV21("U", Half(b) - 1 - y, q, b, a), OffNV21("U", q, y, a, b)>>
                 \/ m = <<OffNV21("V", Half(b) - 1 - y, q, b, a), OffNV21("V", q, y, a, b)>>
    <3>1. PICK x \in {c \in 1..a - 1 : c % 2 = 1}, y \in 0..Half(b) - 1 :
            \/ m = <<to(x, y, 1), a * b + y * a + x>>
            \/ m = <<to(x, y, 2), a * b + y * a + x - 1>>
      BY <2>2, <2>4
    <3>2. PICK q \in 0..Half(a) - 1 : x = 2 * q + 1
      BY <2>3
    <3>. QED
      BY <2>1, <3>1, <3>2
  <2>5. ASSUME NEW q \in 0..Half(a) - 1, NEW y \in 0..Half(b) - 1,
               \/ m = <<OffNV21("U", Half(b) - 1 - y, q, b, a), OffNV21("U", q, y, a, b)>>
               \/ m = <<OffNV21("V", Half(b) - 1 - y, q, b, a), OffNV21("V", q, y, a, b)>>
        PROVE  m \in chroma
    <3>. DEFINE x == 2 * q + 1
    <3>1. x \in {c \in 1..a - 1 : c % 2 = 1}
      BY <2>3
    <3>2. /\ to(x, y, 1) = OffNV21("U", Half(b) - 1 - y, q, b, a)
          /\ to(x, y, 2) = OffNV21("V", Half(b) - 1 - y, q, b, a)
          /\ a * b + y * a + x = OffNV21("U", q, y, a, b)
          /\ a * b + y * a + x - 1 = OffNV21("V", q, y, a, b)
      BY <2>1
    <3>. HIDE DEF x
    <3>. QED
      BY <2>2, <2>5, <3>1, <3>2
  <2>. QED
    BY <2>4, <2>5
<1>. HIDE DEF chroma
<1>5. \A x, y : /\ OffNV21("Y", b - 1 - y, x, b, a) = x * b + (b - 1 - y)
                /\ OffNV21("Y", x, y, a, b) = y * a + x
  BY DEF OffNV21
<1>6. m \in {<<x * b + (b - 1 - y), y * a + x>> : x \in 0..a - 1, y \in 0..b - 1}
        <=> \E x \in 0..a - 1 : \E y \in 0..b - 1 :
              m = <<OffNV21("Y", b - 1 - y, x, b, a), OffNV21("Y", x, y, a, b)>>
  BY <1>5
<1>7. /\ Side("Y", a) = a /\ Side("Y", b) = b /\ Side("U", a) = Half(a)
      /\ Side("U", b) = Half(b) /\ Side("V", a) = Half(a) /\ Side("V", b) = Half(b)
  BY DEF Side
<1>. DEFINE has(p) == \E x \in 0..Side(p, a) - 1 : \E y \in 0..Side(p, b) - 1 :
              m = <<OffNV21(p, Side(p, b) - 1 - y, x, b, a), OffNV21(p, x, y, a, b)>>
<1>8. m \in {<<x * b + (b - 1 - y), y * a + x>> : x \in 0..a - 1, y \in 0..b - 1} <=> has("Y")
  BY <1>6, <1>7
<1>9. m \in chroma <=> has("U") \/ has("V")
  BY <1>4, <1>7
<1>. HIDE DEF has
<1>10. m \in Utils90(a, b) <=> has("Y") \/ has("U") \/ has("V")
  BY <1>3, <1>8, <1>9
<1>11. (\E p \in Planes : has(p)) <=> has("Y") \/ has("U") \/ has("V")
  BY DEF Planes
<1>. QED
  BY <1>10, <1>11 DEF has

(* rotate90 carries every sample to its place in the turned picture.       *)
LEMMA QuarterCarries ==
  ASSUME EvenSides, NEW a \in Sides, NEW b \in Sides
  PROVE  Carries(Utils90(a, b), Samples(b, a), NV21(b, a), NV21(a, b), Seen(a, b, 90))
<1>1. ASSUME NEW p \in Planes, NEW x \in 0..Side(p, a) - 1, NEW y \in 0..Side(p, b) - 1
      PROVE  /\ OffNV21(p, Side(p, b) - 1 - y, x, b, a)
                  = NV21(b, a)[TurnedSample(90, p, x, y, a, b)]
             /\ OffNV21(p, x, y, a, b) = NV21(a, b)[<<p, x, y>>]
  <2>1. Side(p, a) \in Nat /\ Side(p, b) \in Nat
    BY PlaneSizes
  <2>2. Side(p, b) - 1 - y \in 0..Side(p, b) - 1
    BY <2>1
  <2>3. TurnedSample(90, p, x, y, a, b) = <<p, Side(p, b) - 1 - y, x>>
    BY DEF TurnedSample, Turned
  <2>. QED
    BY <2>2, <2>3, Places
<1>2. ASSUME NEW m \in Utils90(a, b)
      PROVE  \E p \in Planes : \E x \in 0..Side(p, a) - 1 : \E y \in 0..Side(p, b) - 1 :
               m = <<NV21(b, a)[TurnedSample(90, p, x, y, a, b)], NV21(a, b)[<<p, x, y>>]>>
  <2>1. PICK p \in Planes : \E x \in 0..Side(p, a) - 1 : \E y \in 0..Side(p, b) - 1 :
          m = <<OffNV21(p, Side(p, b) - 1 - y, x, b, a), OffNV21(p, x, y, a, b)>>
    BY QuarterMoves
  <2>. QED
    BY <2>1, <1>1
<1>3. ASSUME NEW p \in Planes, NEW x \in 0..Side(p, a) - 1, NEW y \in 0..Side(p, b) - 1
      PROVE  <<NV21(b, a)[TurnedSample(90, p, x, y, a, b)], NV21(a, b)[<<p, x, y>>]>>
               \in Utils90(a, b)
  <2>1. <<OffNV21(p, Side(p, b) - 1 - y, x, b, a), OffNV21(p, x, y, a, b)>> \in Utils90(a, b)
    BY QuarterMoves
  <2>. QED
    BY <2>1, <1>1
<1>4. Turns(90, a, b)
  BY DEF Turns
<1>. QED
  BY <1>2, <1>3, <1>4, CarriesTurned

(* rotate270 first collects the columns of the picture.                    *)
Columns(a, b) ==
  LET y_size == a * b
  IN {<<x * b + y, y * a + x>> : x \in 0..a - 1, y \in 0..b - 1}
       \cup UNION {{<<y_size + x * Half(b) + 2 * y, y_size + y * a + x>>,
                    <<y_size + x * Half(b) + 2 * y + 1, y_size + y * a + x + 1>>} :
                   x \in {c \in 0..a - 1 : c % 2 = 0}, y \in 0..Half(b) - 1}

Flip(a, b) == [s \in Samples(b, a) |-> <<s[1], s[3], s[2]>>]

(* A pair of chroma samples, from column 2 * q.                            *)
LEMMA ColumnPair ==
  ASSUME EvenSides, NEW a \in Sides, NEW b \in Sides,
         NEW q \in 0..Half(a) - 1, NEW y \in 0..Half(b) - 1, NEW x, x = 2 * q
  PROVE  /\ a * b + x * Half(b) + 2 * y = OffNV21("V", y, q, b, a)
         /\ a * b + x * Half(b) + 2 * y + 1 = OffNV21("U", y, q, b, a)
         /\ a * b + y * a + x = OffNV21("V", q, y, a, b)
         /\ a * b + y * a + x + 1 = OffNV21("U", q, y, a, b)
<1>1. PICK i \in Nat, j \in Nat : a = 2 * i /\ b = 2 * j
  BY DEF EvenSides
<1>2. Half(a) = i /\ Half(b) = j /\ q \in Nat /\ y \in Nat
  BY <1>1 DEF Half
<1>3. b * a = a * b /\ q * b = x * Half(b)
  BY <1>1, <1>2
<1>. QED
  BY <1>3 DEF OffNV21

LEMMA ColumnMoves ==
  ASSUME EvenSides, NEW a \in Sides, NEW b \in Sides, NEW m
  PROVE  m \in Columns(a, b)
           <=> \E p \in Planes : \E x \in 0..Side(p, a) - 1 : \E y \in 0..Side(p, b) - 1 :
                 m = <<OffNV21(p, y, x, b, a), OffNV21(p, x, y, a, b)>>
<1>1. PICK i \in Nat : a = 2 * i
  BY DEF EvenSides
<1>2. Half(a) = i
  BY <1>1 DEF Half
<1>. DEFINE u(x, y) == <<a * b + x * Half(b) + 2 * y, a * b + y * a + x>>
            v(x, y) == <<a * b + x * Half(b) + 2 * y + 1, a * b + y * a + x + 1>>
            even == {c \in 0..a - 1 : c % 2 = 0}
            rows == 0..Half(b) - 1
            pairs == {{u(x, y), v(x, y)} : x \in even, y \in rows}
            luma == {<<x * b + y, y * a + x>> : x \in 0..a - 1, y \in 0..b - 1}
<1>3. Columns(a, b) = luma \cup UNION pairs
  BY DEF Columns
<1>4. ASSUME NEW q \in 0..Half(a) - 1, NEW y \in rows, NEW x, x = 2 * q
      PROVE  /\ u(x, y) = <<OffNV21("V", y, q, b, a), OffNV21("V", q, y, a, b)>>
             /\ v(x, y) = <<OffNV21("U", y, q, b, a), OffNV21("U", q, y, a, b)>>
  BY <1>4, ColumnPair
<1>5. \A x : x \in even <=> \E q \in 0..Half(a) - 1 : x = 2 * q
  BY <1>1, <1>2, ColumnPairs
<1>6. m \in luma
        <=> \E x \in 0..a - 1 : \E y \in 0..b - 1 :
              m = <<OffNV21("Y", y, x, b, a), OffNV21("Y", x, y, a, b)>>
  BY DEF OffNV21
<1>. HIDE DEF u, v, even, luma
<1>7. ASSUME m \in UNION pairs
      PROVE  \E q \in 0..Half(a) - 1 : \E y \in rows :
               \/ m = <<OffNV21("V", y, q, b, a), OffNV21("V", q, y, a, b)>>
               \/ m = <<OffNV21("U", y, q, b, a), OffNV21("U", q, y, a, b)>>
  <2>. HIDE DEF rows
  <2>1. PICK pair \in pairs : m \in pair
    BY <1>7
  <2>2. PICK x \in even, y \in rows : m = u(x, y) \/ m = v(x, y)
    BY <2>1
  <2>3. PICK q \in 0..Half(a) - 1 : x = 2 * q
    BY <1>5
  <2>. QED
    BY <1>4, <2>2, <2>3
<1>8. ASSUME NEW q \in 0..Half(a) - 1, NEW y \in rows,
             \/ m = <<OffNV21("V", y, q, b, a), OffNV21("V", q, y, a, b)>>
             \/ m = <<OffNV21("U", y, q, b, a), OffNV21("U", q, y, a, b)>>
      PROVE  m \in UNION pairs
  <2>. HIDE DEF rows
  <2>. DEFINE x == 2 * q
  <2>1. x \in even
    BY <1>5
  <2>2. m = u(x, y) \/ m = v(x, y)
    BY <1>4, <1>8
  <2>. HIDE DEF x
  <2>3. {u(x, y), v(x, y)} \in pairs /\ m \in {u(x, y), v(x, y)}
    BY <2>1, <2>2
  <2>. HIDE DEF pairs
  <2>. QED
    BY <2>3
<1>9. /\ Side("Y", a) = a /\ Side("Y", b) = b /\ Side("U", a) = Half(a)
      /\ Side("U", b) = Half(b) /\ Side("V", a) = Half(a) /\ Side("V", b) = Half(b)
  BY DEF Side
<1>. DEFINE has(p) == \E x \in 0..Side(p, a) - 1 : \E y \in 0..Side(p, b) - 1 :
              m = <<OffNV21(p, y, x, b, a), OffNV21(p, x, y, a, b)>>
<1>10. m \in luma <=> has("Y")
  BY <1>6, <1>9
<1>11. m \in UNION pairs <=> has("U") \/ has("V")
  <2>. HIDE DEF pairs
  <2>. QED
    BY <1>7, <1>8, <1>9
<1>. HIDE DEF has, pairs
<1>12. m \in Columns(a, b) <=> has("Y") \/ has("U") \/ has("V")
  BY <1>3, <1>10, <1>11
<1>13. (\E p \in Planes : has(p)) <=> has("Y") \/ has("U") \/ has("V")
  BY DEF Planes
<1>. QED
  BY <1>12, <1>13 DEF has

(* The columns become rows.                                                *)
LEMMA ColumnsCarry ==
  ASSUME EvenSides, NEW a \in Sides, NEW b \in Sides
  PROVE  Carries(Columns(a, b), Samples(b, a), NV21(b, a), NV21(a, b), Flip(a, b))
<1>1. ASSUME NEW p \in Planes, NEW x \in 0..Side(p, a) - 1, NEW y \in 0..Side(p, b) - 1,
             NEW s, s = <<p, y, x>>
      PROVE  /\ s \in Samples(b, a)
             /\ OffNV21(p, y, x, b, a) = NV21(b, a)[s]
             /\ OffNV21(p, x, y, a, b) = NV21(a, b)[Flip(a, b)[s]]
  <2>1. s \in Samples(b, a)
    BY <1>1, SamplesAre
  <2>2. Flip(a, b)[s] = <<p, x, y>>
    BY <1>1, <2>1 DEF Flip
  <2>. QED
    BY <1>1, <2>1, <2>2, Places
<1>2. ASSUME NEW m \in Columns(a, b)
      PROVE  \E s \in Samples(b, a) : m = <<NV21(b, a)[s], NV21(a, b)[Flip(a, b)[s]]>>
  <2>1. PICK p \in Planes : \E x \in 0..Side(p, a) - 1 : \E y \in 0..Side(p, b) - 1 :
          m = <<OffNV21(p, y, x, b, a), OffNV21(p, x, y, a, b)>>
    BY ColumnMoves
  <2>2. PICK x \in 0..Side(p, a) - 1, y \in 0..Side(p, b) - 1 :
          m = <<OffNV21(p, y, x, b, a), OffNV21(p, x, y, a, b)>>
    BY <2>1
  <2>. DEFINE s == <<p, y, x>>
  <2>3. s = <<p, y, x>>
    OBVIOUS
  <2>. HIDE DEF s
  <2>. QED
    BY <1>1, <2>2, <2>3
<1>3. ASSUME NEW s \in Samples(b, a)
      PROVE  <<NV21(b, a)[s], NV21(a, b)[Flip(a, b)[s]]>> \in Columns(a, b)
  <2>1. /\ s = <<s[1], s[2], s[3]>> /\ s[1] \in Planes
        /\ s[2] \in 0..Side(s[1], b) - 1 /\ s[3] \in 0..Side(s[1], a) - 1
    BY SamplesAre
  <2>. DEFINE p == s[1]
              x == s[3]
              y == s[2]
  <2>2. p \in Planes /\ x \in 0..Side(p, a) - 1 /\ y \in 0..Side(p, b) - 1 /\ s = <<p, y, x>>
    BY <2>1
  <2>. HIDE DEF p, x, y
  <2>3. <<OffNV21(p, y, x, b, a), OffNV21(p, x, y, a, b)>> \in Columns(a, b)
    BY <2>2, ColumnMoves
  <2>. QED
    BY <1>1, <2>2, <2>3
<1>. QED
  BY <1>2, <1>3 DEF Carries

(* Moves taken after moves.                                                *)
After(second, first) ==
  {<<m[1], (CHOOSE c \in first : c[1] = m[2])[2]>> : m \in second}

LEMMA AfterCarries ==
  ASSUME NEW A, NEW D, NEW S, NEW f, NEW r \in [A -> A], NEW n, Layout(D, A, n),
         NEW first, Carries(first, A, D, S, f), NEW second, Carries(second, A, D, D, r)
  PROVE  Carries(After(second, first), A, D, S, [s \in A |-> f[r[s]]])
<1>. DEFINE chosen(i) == CHOOSE c \in first : c[1] = i
            g == [s \in A |-> f[r[s]]]
<1>1. ASSUME NEW t \in A PROVE chosen(D[t])[2] = S[f[t]]
  <2>1. <<D[t], S[f[t]]>> \in first /\ <<D[t], S[f[t]]>>[1] = D[t]
    BY DEF Carries
  <2>2. \E c \in first : c[1] = D[t]
    BY <2>1
  <2>3. chosen(D[t]) \in first /\ chosen(D[t])[1] = D[t]
    BY <2>2
  <2>. HIDE DEF chosen
  <2>4. PICK u \in A : chosen(D[t]) = <<D[u], S[f[u]]>>
    BY <2>3 DEF Carries
  <2>5. D[u] = D[t] /\ chosen(D[t])[2] = S[f[u]]
    BY <2>3, <2>4
  <2>6. u = t
    BY <2>5 DEF Layout
  <2>. QED
    BY <2>5, <2>6
<1>2. After(second, first) = {<<m[1], chosen(m[2])[2]>> : m \in second}
  BY DEF After
<1>. HIDE DEF chosen
<1>3. ASSUME NEW s \in A PROVE g[s] = f[r[s]] /\ r[s] \in A /\ chosen(D[r[s]])[2] = S[g[s]]
  BY <1>1
<1>. HIDE DEF g
<1>4. ASSUME NEW m \in After(second, first) PROVE \E s \in A : m = <<D[s], S[g[s]]>>
  <2>1. PICK k \in second : m = <<k[1], chosen(k[2])[2]>>
    BY <1>2
  <2>2. PICK s \in A : k = <<D[s], D[r[s]]>>
    BY DEF Carries
  <2>3. k[1] = D[s] /\ k[2] = D[r[s]]
    BY <2>2
  <2>. QED
    BY <1>3, <2>1, <2>3
<1>5. ASSUME NEW s \in A PROVE <<D[s], S[g[s]]>> \in After(second, first)
  <2>. DEFINE k == <<D[s], D[r[s]]>>
  <2>1. k \in second /\ k[1] = D[s] /\ k[2] = D[r[s]]
    BY DEF Carries
  <2>. HIDE DEF k
  <2>2. <<k[1], chosen(k[2])[2]>> \in After(second, first)
    BY <1>2, <2>1
  <2>. QED
    BY <1>3, <2>1, <2>2
<1>. QED
  BY <1>4, <1>5 DEF Carries, g

(* What rotate270 shows, seen from the result.                             *)
Mirror(a, b) ==
  [s \in Samples(b, a) |->
     <<s[1], Side(s[1], a) - 1 - s[3], Side(s[1], b) - 1 - s[2]>>]

(* rotate270 mirrors the picture it turns.                                 *)
LEMMA MirrorCarries ==
  ASSUME EvenSides, NEW a \in Sides, NEW b \in Sides
  PROVE  Carries(After(Utils180(a, b), Columns(a, b)), Samples(b, a), NV21(b, a), NV21(a, b),
                 Mirror(a, b))
<1>. DEFINE A == Samples(b, a)
            r == HalfTurn(b, a)
            f == Flip(a, b)
<1>1. ASSUME NEW s \in A PROVE r[s] \in A /\ f[r[s]] = Mirror(a, b)[s]
  <2>1. /\ s[1] \in Planes
        /\ s[2] \in 0..Side(s[1], b) - 1 /\ s[3] \in 0..Side(s[1], a) - 1
    BY SamplesAre
  <2>2. Side(s[1], a) \in Nat /\ Side(s[1], b) \in Nat
    BY <2>1, PlaneSizes
  <2>3. /\ Side(s[1], b) - 1 - s[2] \in 0..Side(s[1], b) - 1
        /\ Side(s[1], a) - 1 - s[3] \in 0..Side(s[1], a) - 1
    BY <2>1, <2>2
  <2>4. r[s] = <<s[1], Side(s[1], b) - 1 - s[2], Side(s[1], a) - 1 - s[3]>>
    BY DEF HalfTurn
  <2>5. r[s] \in A
    BY <2>1, <2>3, <2>4, SamplesAre
  <2>6. f[r[s]] = <<s[1], Side(s[1], a) - 1 - s[3], Side(s[1], b) - 1 - s[2]>>
    BY <2>4, <2>5 DEF Flip
  <2>. QED
    BY <2>5, <2>6 DEF Mirror
<1>2. r \in [A -> A]
  <2>1. r = [s \in A |-> r[s]]
    BY DEF HalfTurn
  <2>. QED
    BY <1>1, <2>1
<1>3. [s \in A |-> f[r[s]]] = Mirror(a, b)
  BY <1>1 DEF Mirror
<1>4. Carries(Utils180(a, b), A, NV21(b, a), NV21(b, a), r)
  BY HalfTurnCarries
<1>5. Carries(Columns(a, b), A, NV21(b, a), NV21(a, b), f)
  BY ColumnsCarry
<1>6. Layout(NV21(b, a), A, Bytes(b, a))
  BY LayoutNV21
<1>. HIDE DEF A, r, f
<1>7. Carries(After(Utils180(a, b), Columns(a, b)), A, NV21(b, a), NV21(a, b),
              [s \in A |-> f[r[s]]])
  BY <1>2, <1>4, <1>5, <1>6, AfterCarries
<1>. QED
  BY <1>3, <1>7 DEF A

-----------------------------------------------------------------------------
(* The pictures that calls and frames leave.                               *)

(* What a turn shows of a sample is a sample of the picture.               *)
LEMMA SeenSamples ==
  ASSUME EvenSides, NEW a \in Sides, NEW b \in Sides, NEW degree, Turns(degree, a, b)
  PROVE  Seen(a, b, degree) \in [Samples(b, a) -> Samples(a, b)]
<1>1. ASSUME NEW p \in Planes, NEW x \in 0..Side(p, b) - 1, NEW y \in 0..Side(p, a) - 1,
             NEW u, u = Back(degree, p, x, y, a, b)
      PROVE  u \in Samples(a, b)
  <2>1. Side(p, a) \in Nat /\ Side(p, b) \in Nat
    BY PlaneSizes
  <2>2. u[2] \in 0..Side(p, a) - 1 /\ u[3] \in 0..Side(p, b) - 1
    BY <1>1, <2>1, BackTurn
  <2>3. u = <<p, u[2], u[3]>>
    BY <1>1 DEF Turns, Back
  <2>. QED
    BY <2>2, <2>3, SamplesAre
<1>2. ASSUME NEW s \in Samples(b, a)
      PROVE  Back(degree, s[1], s[2], s[3], a, b) \in Samples(a, b)
  <2>1. /\ s[1] \in Planes /\ s[2] \in 0..Side(s[1], b) - 1 /\ s[3] \in 0..Side(s[1], a) - 1
    BY SamplesAre
  <2>. QED
    BY <1>1, <2>1
<1>. QED
  BY <1>2 DEF Seen

LEMMA OppositeSamples ==
  ASSUME EvenSides, NEW a \in Sides, NEW b \in Sides
  PROVE  /\ HalfTurn(a, b) \in [Samples(a, b) -> Samples(a, b)]
         /\ Mirror(a, b) \in [Samples(b, a) -> Samples(a, b)]
<1>1. ASSUME NEW s \in Samples(a, b)
      PROVE  <<s[1], Side(s[1], a) - 1 - s[2], Side(s[1], b) - 1 - s[3]>> \in Samples(a, b)
  <2>1. /\ s[1] \in Planes
        /\ s[2] \in 0..Side(s[1], a) - 1 /\ s[3] \in 0..Side(s[1], b) - 1
    BY SamplesAre
  <2>2. Side(s[1], a) \in Nat /\ Side(s[1], b) \in Nat
    BY <2>1, PlaneSizes
  <2>3. /\ Side(s[1], a) - 1 - s[2] \in 0..Side(s[1], a) - 1
        /\ Side(s[1], b) - 1 - s[3] \in 0..Side(s[1], b) - 1
    BY <2>1, <2>2
  <2>. QED
    BY <2>1, <2>3, SamplesAre
<1>2. ASSUME NEW s \in Samples(b, a)
      PROVE  <<s[1], Side(s[1], a) - 1 - s[3], Side(s[1], b) - 1 - s[2]>> \in Samples(a, b)
  <2>1. /\ s[1] \in Planes
        /\ s[2] \in 0..Side(s[1], b) - 1 /\ s[3] \in 0..Side(s[1], a) - 1
    BY SamplesAre
  <2>2. Side(s[1], a) \in Nat /\ Side(s[1], b) \in Nat
    BY <2>1, PlaneSizes
  <2>3. /\ Side(s[1], a) - 1 - s[3] \in 0..Side(s[1], a) - 1
        /\ Side(s[1], b) - 1 - s[2] \in 0..Side(s[1], b) - 1
    BY <2>1, <2>2
  <2>. QED
    BY <2>1, <2>3, SamplesAre
<1>3. HalfTurn(a, b) \in [Samples(a, b) -> Samples(a, b)]
  BY <1>1 DEF HalfTurn
<1>4. Mirror(a, b) \in [Samples(b, a) -> Samples(a, b)]
  BY <1>2 DEF Mirror
<1>. QED
  BY <1>3, <1>4

(* An array of Bytes(a, b) has a place for every sample, in both layouts,   *)
(* of the picture and of the turned one.                                   *)
LEMMA RoomForAll ==
  ASSUME EvenSides, NEW a \in Sides, NEW b \in Sides,
         NEW dst, DOMAIN dst = 0..Bytes(a, b) - 1
  PROVE  /\ \A s \in Samples(a, b) : NV21(a, b)[s] \in DOMAIN dst
         /\ \A s \in Samples(b, a) : NV21(b, a)[s] \in DOMAIN dst
         /\ \A s \in Samples(b, a) : I420(b, a)[s] \in DOMAIN dst
<1>1. Bytes(b, a) = Bytes(a, b)
  <2>1. b * a = a * b
    BY PlaneSizes
  <2>. QED
    BY <2>1 DEF Bytes
<1>. QED
  BY <1>1, LayoutNV21, LayoutI420 DEF Layout

(* Every place of an NV21 array is that of a sample.                       *)
LEMMA PlacesFilled ==
  ASSUME EvenSides, NEW c \in Sides, NEW r \in Sides, NEW i \in 0..Bytes(c, r) - 1
  PROVE  \E s \in Samples(c, r) : NV21(c, r)[s] = i
<1>. DEFINE A == c * r
            B == (c * r) \div 4
<1>1. A \in Nat /\ B \in Nat /\ Bytes(c, r) = A + 2 * B
  BY PlaneSizes
<1>. HIDE DEF A, B
<1>2. \E p \in Planes : \E k : Numbered(p, k, A, B) /\ Interleaved(p, k, A) = i
  <2>1. i \in 0..A + 2 * B - 1
    BY <1>1
  <2>2. CASE i < A
    <3>1. Numbered("Y", i, A, B) /\ Interleaved("Y", i, A) = i
      BY <1>1, <2>1, <2>2 DEF Numbered, Interleaved
    <3>. QED
      BY <3>1 DEF Planes
  <2>3. CASE ~(i < A)
    <3>. DEFINE k == (i - A) \div 2
    <3>1. k \in 0..B - 1 /\ (i = A + 2 * k \/ i = A + 2 * k + 1)
      BY <1>1, <2>1, <2>3
    <3>. HIDE DEF k
    <3>2. Numbered("V", k, A, B) /\ Numbered("U", k, A, B)
      BY <3>1 DEF Numbered
    <3>3. Interleaved("V", k, A) = A + 2 * k /\ Interleaved("U", k, A) = A + 2 * k + 1
      BY DEF Interleaved
    <3>. QED
      BY <3>1, <3>2, <3>3 DEF Planes
  <2>. QED
    BY <2>2, <2>3
<1>3. PICK p \in Planes : \E k : Numbered(p, k, A, B) /\ Interleaved(p, k, A) = i
  BY <1>2
<1>4. PICK k : Numbered(p, k, A, B) /\ Interleaved(p, k, A) = i
  BY <1>3
<1>5. /\ Side(p, c) \in Nat /\ Side(p, r) \in Nat
      /\ Side(p, r) * Side(p, c) = IF p = "Y" THEN A ELSE B
  BY PlaneSizes DEF Count, A, B
<1>6. k \in 0..Side(p, r) * Side(p, c) - 1
  BY <1>4, <1>5 DEF Numbered
<1>7. PICK x \in 0..Side(p, c) - 1 : \E y \in 0..Side(p, r) - 1 : k = y * Side(p, c) + x
  BY <1>5, <1>6, NumberReached
<1>8. PICK y \in 0..Side(p, r) - 1 : k = y * Side(p, c) + x
  BY <1>7
<1>9. /\ <<p, x, y>> \in Samples(c, r)
      /\ NV21(c, r)[<<p, x, y>>] = Interleaved(p, Nth(p, x, y, c), c * r)
  BY Places
<1>10. Nth(p, x, y, c) = k
  BY <1>8 DEF Nth
<1>. QED
  BY <1>4, <1>9, <1>10 DEF A

(* The array of i420_to_nv21 is that of the picture as it was taken.       *)
LEMMA WovenIsTaken ==
  ASSUME EvenSides, NEW a \in Sides, NEW b \in Sides
  PROVE  Moved(Blanks(Bytes(a, b)), TakenAs(OffI420, a, b), Woven(a, b)) = Taken(a, b)
<1>. DEFINE n == Bytes(a, b)
            A == Samples(a, b)
            array == Moved(Blanks(n), TakenAs(OffI420, a, b), Woven(a, b))
            dst == Blanks(n)
<1>1. DOMAIN dst = 0..n - 1
  BY DEF Blanks
<1>2. \A s \in A : NV21(a, b)[s] \in DOMAIN dst
  BY <1>1, RoomForAll
<1>3. Same(A) \in [A -> A]
  BY DEF Same
<1>4. ShowsAt(array, A, NV21(a, b), Same(A))
  <2>1. ShowsAt(TakenAs(OffI420, a, b), A, I420(a, b), Same(A))
    BY TakenShows
  <2>2. Carries(Woven(a, b), A, NV21(a, b), I420(a, b), Same(A))
    BY WeavingCarries
  <2>3. Layout(NV21(a, b), A, n)
    BY LayoutNV21
  <2>. HIDE DEF A, dst
  <2>. QED
    BY <1>2, <1>3, <2>1, <2>2, <2>3, MovedShows DEF dst
<1>5. ShowsAt(Taken(a, b), A, NV21(a, b), Same(A))
  BY TakenShows
<1>6. ASSUME NEW i \in 0..n - 1 PROVE array[i] = Taken(a, b)[i]
  <2>1. PICK s \in A : NV21(a, b)[s] = i
    BY PlacesFilled
  <2>. HIDE DEF array
  <2>2. array[NV21(a, b)[s]] = s /\ Taken(a, b)[NV21(a, b)[s]] = s
    BY <1>4, <1>5 DEF ShowsAt, Same
  <2>. QED
    BY <2>1, <2>2
<1>7. /\ array = [i \in 0..n - 1 |-> array[i]]
      /\ Taken(a, b) = [i \in 0..n - 1 |-> Taken(a, b)[i]]
  <2>1. array = [i \in 0..n - 1 |-> array[i]]
    BY <1>1 DEF Moved
  <2>2. Taken(a, b) = [i \in 0..n - 1 |-> Taken(a, b)[i]]
    BY DEF Taken, TakenAs
  <2>. QED
    BY <2>1, <2>2
<1>. HIDE DEF array, n
<1>8. array = Taken(a, b)
  BY <1>6, <1>7
<1>. QED
  BY <1>8 DEF array, n

(* Whatever dst held, moves that carry every sample of a picture leave it   *)
(* there: nv21_to_i420 into an array that has room for it, rotate_i420,     *)
(* and the rotations of YUV420Utils, into arrays of its size.              *)
LEMMA ConvertedShows ==
  ASSUME EvenSides, NEW a \in Sides, NEW b \in Sides,
         NEW dst, Fits(dst, Converted(a, b))
  PROVE  ShowsAt(Moved(dst, Taken(a, b), Converted(a, b)),
                 Samples(a, b), I420(a, b), Same(Samples(a, b)))
<1>. DEFINE A == Samples(a, b)
<1>1. Carries(Converted(a, b), A, I420(a, b), NV21(a, b), Same(A))
  BY ConversionCarries
<1>2. ShowsAt(Taken(a, b), A, NV21(a, b), Same(A))
  BY TakenShows
<1>3. Layout(I420(a, b), A, Bytes(a, b))
  BY LayoutI420
<1>4. Same(A) \in [A -> A]
  BY DEF Same
<1>. HIDE DEF A
<1>5. ASSUME NEW s \in A PROVE I420(a, b)[s] \in DOMAIN dst
  <2>. DEFINE m == <<I420(a, b)[s], NV21(a, b)[Same(A)[s]]>>
  <2>1. m \in Converted(a, b) /\ m[1] = I420(a, b)[s]
    BY <1>1 DEF Carries
  <2>. HIDE DEF m
  <2>. QED
    BY <2>1 DEF Fits
<1>6. ShowsAt(Moved(dst, Taken(a, b), Converted(a, b)), A, I420(a, b), Same(A))
  BY <1>1, <1>2, <1>3, <1>4, <1>5, MovedShows
<1>. QED
  BY <1>6 DEF A

LEMMA RotatedShows ==
  ASSUME EvenSides, NEW a \in Sides, NEW b \in Sides, NEW degree, Turns(degree, a, b),
         NEW from, ShowsAt(from, Samples(a, b), I420(a, b), Same(Samples(a, b))),
         NEW dst, DOMAIN dst = 0..Bytes(a, b) - 1
  PROVE  ShowsAt(Moved(dst, from, Rotated(a, b, degree)),
                 Samples(b, a), I420(b, a), Seen(a, b, degree))
<1>. DEFINE A == Samples(b, a)
            B == Samples(a, b)
            g == Seen(a, b, degree)
            moves == Rotated(a, b, degree)
<1>1. Carries(moves, A, I420(b, a), I420(a, b), g)
  BY RotationCarries
<1>2. Layout(I420(b, a), A, Bytes(b, a))
  BY LayoutI420
<1>3. g \in [A -> B]
  BY SeenSamples
<1>4. \A s \in A : I420(b, a)[s] \in DOMAIN dst
  BY RoomForAll
<1>5. ShowsAt(from, B, I420(a, b), Same(B))
  OBVIOUS
<1>. HIDE DEF A, B, g, moves
<1>6. ShowsAt(Moved(dst, from, moves), A, I420(b, a), g)
  BY <1>1, <1>2, <1>3, <1>4, <1>5, MovedShows
<1>. QED
  BY <1>6 DEF A, g, moves

LEMMA QuarterShows ==
  ASSUME EvenSides, NEW a \in Sides, NEW b \in Sides,
         NEW dst, DOMAIN dst = 0..Bytes(a, b) - 1
  PROVE  ShowsAt(Moved(dst, Taken(a, b), Utils90(a, b)),
                 Samples(b, a), NV21(b, a), Seen(a, b, 90))
<1>. DEFINE A == Samples(b, a)
            B == Samples(a, b)
            g == Seen(a, b, 90)
<1>1. Carries(Utils90(a, b), A, NV21(b, a), NV21(a, b), g)
  BY QuarterCarries
<1>2. Layout(NV21(b, a), A, Bytes(b, a))
  BY LayoutNV21
<1>3. g \in [A -> B]
  BY SeenSamples DEF Turns
<1>4. \A s \in A : NV21(b, a)[s] \in DOMAIN dst
  BY RoomForAll
<1>5. ShowsAt(Taken(a, b), B, NV21(a, b), Same(B))
  BY TakenShows
<1>. HIDE DEF A, B, g
<1>6. ShowsAt(Moved(dst, Taken(a, b), Utils90(a, b)), A, NV21(b, a), g)
  BY <1>1, <1>2, <1>3, <1>4, <1>5, MovedShows
<1>. QED
  BY <1>6 DEF A, g

LEMMA HalfTurnShows ==
  ASSUME EvenSides, NEW a \in Sides, NEW b \in Sides,
         NEW dst, DOMAIN dst = 0..Bytes(a, b) - 1
  PROVE  ShowsAt(Moved(dst, Taken(a, b), Utils180(a, b)),
                 Samples(a, b), NV21(a, b), HalfTurn(a, b))
<1>. DEFINE A == Samples(a, b)
            g == HalfTurn(a, b)
<1>1. Carries(Utils180(a, b), A, NV21(a, b), NV21(a, b), g)
  BY HalfTurnCarries
<1>2. Layout(NV21(a, b), A, Bytes(a, b))
  BY LayoutNV21
<1>3. g \in [A -> A]
  BY OppositeSamples
<1>4. \A s \in A : NV21(a, b)[s] \in DOMAIN dst
  BY RoomForAll
<1>5. ShowsAt(Taken(a, b), A, NV21(a, b), Same(A))
  BY TakenShows
<1>. HIDE DEF A, g
<1>6. ShowsAt(Moved(dst, Taken(a, b), Utils180(a, b)), A, NV21(a, b), g)
  BY <1>1, <1>2, <1>3, <1>4, <1>5, MovedShows
<1>. QED
  BY <1>6 DEF A, g

LEMMA MirrorShows ==
  ASSUME EvenSides, NEW a \in Sides, NEW b \in Sides,
         NEW dst, DOMAIN dst = 0..Bytes(a, b) - 1
  PROVE  ShowsAt(Moved(dst, Taken(a, b), After(Utils180(a, b), Columns(a, b))),
                 Samples(b, a), NV21(b, a), Mirror(a, b))
<1>. DEFINE A == Samples(b, a)
            B == Samples(a, b)
            g == Mirror(a, b)
            moves == After(Utils180(a, b), Columns(a, b))
<1>1. Carries(moves, A, NV21(b, a), NV21(a, b), g)
  BY MirrorCarries
<1>2. Layout(NV21(b, a), A, Bytes(b, a))
  BY LayoutNV21
<1>3. g \in [A -> B]
  BY OppositeSamples
<1>4. \A s \in A : NV21(b, a)[s] \in DOMAIN dst
  BY RoomForAll
<1>5. ShowsAt(Taken(a, b), B, NV21(a, b), Same(B))
  BY TakenShows
<1>. HIDE DEF A, B, g, moves
<1>6. ShowsAt(Moved(dst, Taken(a, b), moves), A, NV21(b, a), g)
  BY <1>1, <1>2, <1>3, <1>4, <1>5, MovedShows
<1>. QED
  BY <1>6 DEF A, g, moves

(* The inductive invariant: where a frame is, its array holds the picture,  *)
(* as it was taken, converted or turned.                                   *)
Rotation(array) == ShowsAt(array, Samples(h, w), I420(h, w), Seen(w, h, turn))
UtilsShow(array) ==
  CASE turn = 90  -> ShowsAt(array, Samples(h, w), NV21(h, w), Seen(w, h, 90))
    [] turn = 180 -> ShowsAt(array, Samples(w, h), NV21(w, h), HalfTurn(w, h))
    [] turn = 270 -> ShowsAt(array, Samples(h, w), NV21(h, w), Mirror(w, h))

PictureInv ==
  /\ frame # "idle" => w \in Sides /\ h \in Sides
  /\ frame \in {"taken", "converted", "pushed"} => turn \in {90, 270}
  /\ frame = "rotated" => turn \in {0, 90, 180, 270}
  /\ frame = "utils" => turn \in {90, 180, 270}
  /\ frame = "taken" => src = Taken(w, h)
  /\ frame = "converted" =>
       /\ DOMAIN src = 0..Bytes(w, h) - 1
       /\ ShowsAt(mBytes, Samples(w, h), I420(w, h), Same(Samples(w, h)))
  /\ frame = "pushed" => Rotation(src)
  /\ frame = "rotated" /\ Turns(turn, w, h) => Rotation(src)
  /\ frame = "nv21" => src = Taken(w, h)
  /\ frame = "utils" => UtilsShow(src)

(* A conversion leaves the picture in mBytes, whatever frames before it     *)
(* left there, and a rotation leaves it in the camera's array.             *)
LEMMA ConvertKeeps ==
  ASSUME EvenSides, PictureInv, Convert
  PROVE  PictureInv'
<1>1. /\ frame = "taken" /\ w \in Sides /\ h \in Sides /\ turn \in {90, 270}
      /\ src = Taken(w, h)
      /\ w' = w /\ h' = h /\ turn' = turn /\ src' = src
  BY DEF Convert, PictureInv
<1>2. CASE Fits(mBytes, Nv21ToI420)
  <2>1. frame' = "converted" /\ mBytes' = Moved(mBytes, src, Nv21ToI420)
    BY <1>2 DEF Convert
  <2>2. Nv21ToI420 = Converted(w, h)
    BY DEF Nv21ToI420, Converted
  <2>3. ShowsAt(mBytes', Samples(w, h), I420(w, h), Same(Samples(w, h)))
    BY <1>1, <1>2, <2>1, <2>2, ConvertedShows
  <2>4. DOMAIN src = 0..Bytes(w, h) - 1
    BY <1>1 DEF Taken, TakenAs
  <2>. QED
    BY <1>1, <2>1, <2>3, <2>4 DEF PictureInv
<1>3. CASE ~Fits(mBytes, Nv21ToI420)
  <2>1. frame' = "overrun"
    BY <1>3 DEF Convert
  <2>. QED
    BY <1>1, <2>1 DEF PictureInv
<1>. QED
  BY <1>2, <1>3

LEMMA RotateKeeps ==
  ASSUME EvenSides, PictureInv, Rotate
  PROVE  PictureInv'
<1>1. /\ w \in Sides /\ h \in Sides /\ turn \in {90, 270}
      /\ DOMAIN src = 0..Bytes(w, h) - 1
      /\ ShowsAt(mBytes, Samples(w, h), I420(w, h), Same(Samples(w, h)))
      /\ w' = w /\ h' = h /\ turn' = turn /\ frame' = "pushed"
      /\ src' = Moved(src, mBytes, RotateI420(turn))
  BY DEF Rotate, PictureInv
<1>2. RotateI420(turn) = Rotated(w, h, turn)
  BY DEF RotateI420, Rotated
<1>3. Turns(turn, w, h)
  BY <1>1 DEF Turns
<1>4. ShowsAt(src', Samples(h, w), I420(h, w), Seen(w, h, turn))
  BY <1>1, <1>2, <1>3, RotatedShows
<1>. QED
  BY <1>1, <1>4 DEF PictureInv, Rotation

(* So does each call of a rotation, or of a conversion back.               *)
LEMMA CallRotateKeeps ==
  ASSUME EvenSides, PictureInv, CallRotateI420
  PROVE  PictureInv'
<1>. DEFINE i420 == TakenAs(OffI420, w', h')
            dst == Blanks(Bytes(w', h'))
<1>1. /\ w' \in Sides /\ h' \in Sides /\ turn' \in {0, 90, 180, 270}
      /\ frame' \in {"rotated", "overrun"}
      /\ src' = Moved(dst, i420, RotateI420(turn)')
  BY DEF CallRotateI420
<1>2. RotateI420(turn)' = Rotated(w', h', turn')
  BY DEF RotateI420, Rotated
<1>3. DOMAIN dst = 0..Bytes(w', h') - 1
  BY DEF Blanks
<1>4. ShowsAt(i420, Samples(w', h'), I420(w', h'), Same(Samples(w', h')))
  BY <1>1, TakenShows
<1>. HIDE DEF i420, dst
<1>5. ASSUME Turns(turn', w', h')
      PROVE  ShowsAt(src', Samples(h', w'), I420(h', w'), Seen(w', h', turn'))
  BY <1>1, <1>2, <1>3, <1>4, <1>5, RotatedShows
<1>. QED
  BY <1>1, <1>5 DEF PictureInv, Rotation

LEMMA CallUtilsKeeps ==
  ASSUME EvenSides, PictureInv, CallUtils
  PROVE  PictureInv'
<1>. DEFINE dst == Blanks(Bytes(w', h'))
            taken == Taken(w', h')
<1>1. /\ w' \in Sides /\ h' \in Sides /\ turn' \in {90, 180, 270} /\ frame' = "utils"
      /\ turn' = 90  => src' = Moved(dst, taken, UtilsRotate90')
      /\ turn' = 180 => src' = Moved(dst, taken, UtilsRotate180')
      /\ turn' = 270 => src' = Moved(dst, taken, UtilsRotate270')
  BY DEF CallUtils
<1>2. UtilsRotate90' = Utils90(w', h')
  BY DEF UtilsRotate90, Utils90
<1>3. UtilsRotate180' = Utils180(w', h')
  BY DEF UtilsRotate180, Utils180
<1>4. UtilsRotate270' = After(Utils180(w', h'), Columns(w', h'))
  BY <1>3 DEF UtilsRotate270, After, Columns
<1>5. DOMAIN dst = 0..Bytes(w', h') - 1
  BY DEF Blanks
<1>. HIDE DEF dst
<1>6. ASSUME turn' = 90
      PROVE  ShowsAt(src', Samples(h', w'), NV21(h', w'), Seen(w', h', 90))
  BY <1>1, <1>2, <1>5, <1>6, QuarterShows
<1>7. ASSUME turn' = 180
      PROVE  ShowsAt(src', Samples(w', h'), NV21(w', h'), HalfTurn(w', h'))
  BY <1>1, <1>3, <1>5, <1>7, HalfTurnShows
<1>8. ASSUME turn' = 270
      PROVE  ShowsAt(src', Samples(h', w'), NV21(h', w'), Mirror(w', h'))
  BY <1>1, <1>4, <1>5, <1>8, MirrorShows
<1>9. UtilsShow(src)'
  BY <1>1, <1>6, <1>7, <1>8 DEF UtilsShow
<1>. QED
  BY <1>1, <1>9 DEF PictureInv

(* The invariant is inductive.                                             *)
LEMMA PictureKeeps ==
  ASSUME EvenSides, PictureInv, [YuvNext]_yuvVars
  PROVE  PictureInv'
<1>1. CASE Take
  BY <1>1 DEF Take, PictureInv
<1>2. CASE CallI420ToNv21
  <2>1. w' \in Sides /\ h' \in Sides /\ frame' = "nv21"
    BY <1>2 DEF CallI420ToNv21
  <2>2. src' = Moved(Blanks(Bytes(w', h')), TakenAs(OffI420, w', h'), I420ToNv21')
    BY <1>2 DEF CallI420ToNv21
  <2>3. I420ToNv21' = Woven(w', h')
    BY DEF I420ToNv21, Woven, WovenChroma
  <2>4. src' = Taken(w', h')
    BY <2>1, <2>2, <2>3, WovenIsTaken
  <2>. QED
    BY <2>1, <2>4 DEF PictureInv
<1>3. CASE UNCHANGED yuvVars
  <2>1. UNCHANGED <<frame, w, h, turn, src, mBytes>>
    BY <1>3 DEF yuvVars
  <2>2. (Rotation(src) <=> Rotation(src)') /\ (UtilsShow(src) <=> UtilsShow(src)')
    BY <2>1 DEF Rotation, UtilsShow
  <2>. QED
    BY <2>1, <2>2 DEF PictureInv
<1>. QED
  BY <1>1, <1>2, <1>3, ConvertKeeps, RotateKeeps, CallRotateKeeps, CallUtilsKeeps
  DEF YuvNext

(* What an array shows, read as the invariant of the runs reads it.        *)
LEMMA RotationUpright ==
  ASSUME Rotation(src), turn \in {90, 270} \/ w = h
  PROVE  Shows(OffI420, Upright)
<1>1. ASSUME NEW s \in Samples(h, w)
      PROVE  src[OffI420(s[1], s[2], s[3], h, w)] = Upright(s[1], s[2], s[3])
  <2>1. src[I420(h, w)[s]] = Seen(w, h, turn)[s]
    BY DEF Rotation, ShowsAt
  <2>2. I420(h, w)[s] = OffI420(s[1], s[2], s[3], h, w)
    BY DEF I420
  <2>3. Seen(w, h, turn)[s] = Upright(s[1], s[2], s[3])
    BY DEF Seen, Back, Upright, SeenAt, Side
  <2>. QED
    BY <2>1, <2>2, <2>3
<1>. QED
  BY <1>1 DEF Shows

LEMMA UtilsUpright ==
  ASSUME UtilsShow(src), turn \in {90, 180, 270}
  PROVE  IF turn = 270 THEN Shows(OffNV21, Mirrored) ELSE Shows(OffNV21, Upright)
<1>1. ASSUME turn = 90, NEW s \in Samples(h, w)
      PROVE  src[OffNV21(s[1], s[2], s[3], h, w)] = Upright(s[1], s[2], s[3])
  <2>1. src[NV21(h, w)[s]] = Seen(w, h, 90)[s]
    BY <1>1 DEF UtilsShow, ShowsAt
  <2>2. NV21(h, w)[s] = OffNV21(s[1], s[2], s[3], h, w)
    BY <1>1 DEF NV21
  <2>3. Seen(w, h, 90)[s] = Upright(s[1], s[2], s[3])
    BY <1>1 DEF Seen, Back, Upright, SeenAt, Side
  <2>. QED
    BY <2>1, <2>2, <2>3
<1>2. ASSUME turn = 180, NEW s \in Samples(w, h)
      PROVE  src[OffNV21(s[1], s[2], s[3], w, h)] = Upright(s[1], s[2], s[3])
  <2>1. src[NV21(w, h)[s]] = HalfTurn(w, h)[s]
    BY <1>2 DEF UtilsShow, ShowsAt
  <2>2. NV21(w, h)[s] = OffNV21(s[1], s[2], s[3], w, h)
    BY <1>2 DEF NV21
  <2>3. HalfTurn(w, h)[s] = Upright(s[1], s[2], s[3])
    BY <1>2 DEF HalfTurn, Upright, SeenAt, Side
  <2>. QED
    BY <2>1, <2>2, <2>3
<1>3. ASSUME turn = 270, NEW s \in Samples(h, w)
      PROVE  src[OffNV21(s[1], s[2], s[3], h, w)] = Mirrored(s[1], s[2], s[3])
  <2>1. src[NV21(h, w)[s]] = Mirror(w, h)[s]
    BY <1>3 DEF UtilsShow, ShowsAt
  <2>2. NV21(h, w)[s] = OffNV21(s[1], s[2], s[3], h, w)
    BY <1>3 DEF NV21
  <2>3. Mirror(w, h)[s] = Mirrored(s[1], s[2], s[3])
    BY <1>3 DEF Mirror, Mirrored, SeenAt, Side
  <2>. QED
    BY <2>1, <2>2, <2>3
<1>. QED
  BY <1>1, <1>2, <1>3 DEF Shows

(* What is pushed to the video encoder is the camera's picture turned by 90 *)
(* or 270 degrees, every sample in its place, whatever earlier frames have  *)
(* left in mBytes, for every set of even sides; rotateI420 keeps every      *)
(* sample of a square picture for 0 and 180 degrees too, i420ToNv21 keeps   *)
(* them all, and of the rotations of YUV420Utils one mirrors.              *)
THEOREM PicturesTurned ==
  ASSUME EvenSides PROVE YuvSpec => []PictureTurned
<1>1. YuvInit => PictureInv
  BY DEF YuvInit, PictureInv
<1>2. PictureInv /\ [YuvNext]_yuvVars => PictureInv'
  BY PictureKeeps
<1>3. ASSUME PictureInv PROVE PictureTurned
  <2>1. frame = "pushed" => Shows(OffI420, Upright)
    BY <1>3, RotationUpright DEF PictureInv
  <2>2. frame = "rotated" /\ (turn \in {90, 270} \/ w = h) => Shows(OffI420, Upright)
    BY <1>3, RotationUpright DEF PictureInv, Turns
  <2>3. frame = "nv21" => src = Taken(w, h)
    BY <1>3 DEF PictureInv
  <2>4. frame = "utils" =>
          IF turn = 270 THEN Shows(OffNV21, Mirrored) ELSE Shows(OffNV21, Upright)
    BY <1>3, UtilsUpright DEF PictureInv
  <2>. QED
    BY <2>1, <2>2, <2>3, <2>4 DEF PictureTurned
<1>4. PictureInv => PictureTurned
  BY <1>3
<1>. QED
  BY <1>1, <1>2, <1>4, PTL DEF YuvSpec

-----------------------------------------------------------------------------
(* Counting upward.                                                        *)

(* A set of numbers has a least one.                                       *)
LEMMA LeastOf ==
  ASSUME NEW S \in SUBSET Nat, S # {}
  PROVE  \E i \in S : \A j \in S : ~(j < i)
<1>1. PICK i \in S : \A j \in S : ~(<<j, i>> \in OpToRel(<, Nat))
  BY WFMin, NatLessThanWellFounded, Zenon
<1>. QED
  BY <1>1 DEF OpToRel

(* A set that has 0, and every number up to n whose predecessor it has.    *)
LEMMA Upward ==
  ASSUME NEW n \in Nat, NEW T, 0 \in T, \A i \in 1..n : i - 1 \in T => i \in T
  PROVE  \A i \in 0..n : i \in T
<1>. DEFINE Bad == {i \in 0..n : i \notin T}
<1>1. SUFFICES ASSUME Bad # {} PROVE FALSE
  OBVIOUS
<1>2. Bad \in SUBSET Nat
  OBVIOUS
<1>3. PICK i \in Bad : \A j \in Bad : ~(j < i)
  <2>. HIDE DEF Bad
  <2>. QED
    BY <1>1, <1>2, LeastOf
<1>4. i \in 0..n /\ i \notin T /\ i # 0
  OBVIOUS
<1>5. i - 1 \in 0..n /\ i - 1 < i /\ i \in 1..n
  BY <1>4
<1>6. i - 1 \in T
  BY <1>3, <1>5
<1>. QED
  BY <1>4, <1>5, <1>6

(* A function may be defined step by step, from base.                      *)
Steps(f, n, base, step) ==
  f = [i \in 0..n |-> IF i = 0 THEN base ELSE step[<<i, f[i - 1]>>]]

LEMMA StepByStep ==
  ASSUME NEW n \in Nat, NEW S, NEW base \in S, NEW step \in [(1..n) \X S -> S]
  PROVE  \E f \in [0..n -> S] : Steps(f, n, base, step)
<1>. DEFINE T == {m \in 0..n : \E f \in [0..m -> S] : Steps(f, m, base, step)}
<1>1. 0 \in T
  <2>. DEFINE f == [i \in 0..0 |-> base]
  <2>1. f \in [0..0 -> S] /\ f = [i \in 0..0 |-> IF i = 0 THEN base ELSE step[<<i, f[i - 1]>>]]
    OBVIOUS
  <2>2. 0 \in 0..n
    OBVIOUS
  <2>. HIDE DEF f
  <2>3. Steps(f, 0, base, step)
    BY <2>1 DEF Steps
  <2>. QED
    BY <2>1, <2>2, <2>3
<1>2. ASSUME NEW m \in 1..n, m - 1 \in T PROVE m \in T
  <2>1. PICK f \in [0..m - 1 -> S] : Steps(f, m - 1, base, step)
    BY <1>2
  <2>2. f = [i \in 0..m - 1 |-> IF i = 0 THEN base ELSE step[<<i, f[i - 1]>>]]
    BY <2>1 DEF Steps
  <2>. DEFINE g == [i \in 0..m |-> IF i = m THEN step[<<m, f[m - 1]>>] ELSE f[i]]
  <2>3. m \in Nat /\ m - 1 \in 0..m - 1 /\ f[m - 1] \in S
    OBVIOUS
  <2>4. step[<<m, f[m - 1]>>] \in S
    BY <2>3
  <2>5. g \in [0..m -> S]
    BY <2>3, <2>4
  <2>6. ASSUME NEW i \in 0..m PROVE g[i] = IF i = 0 THEN base ELSE step[<<i, g[i - 1]>>]
    <3>1. CASE i = m
      <4>1. g[i] = step[<<m, f[m - 1]>>] /\ g[i - 1] = f[m - 1] /\ i # 0
        BY <2>3, <3>1
      <4>. QED
        BY <3>1, <4>1
    <3>2. CASE i # m
      <4>1. i \in 0..m - 1 /\ g[i] = f[i]
        BY <2>3, <3>2
      <4>2. f[i] = IF i = 0 THEN base ELSE step[<<i, f[i - 1]>>]
        BY <2>2, <4>1
      <4>3. i # 0 => g[i - 1] = f[i - 1]
        BY <2>3, <3>2, <4>1
      <4>. QED
        BY <4>1, <4>2, <4>3
    <3>. QED
      BY <3>1, <3>2
  <2>7. g = [i \in 0..m |-> g[i]]
    OBVIOUS
  <2>. HIDE DEF g
  <2>8. Steps(g, m, base, step)
    BY <2>6, <2>7 DEF Steps
  <2>9. m \in 0..n
    OBVIOUS
  <2>. QED
    BY <2>5, <2>8, <2>9
<1>. HIDE DEF T
<1>3. n \in 0..n /\ \A i \in 0..n : i \in T
  BY <1>1, <1>2, Upward
<1>. QED
  BY <1>3 DEF T

-----------------------------------------------------------------------------
(* The packets of the RTMP sender.                                         *)
FlvSpec == FlvInit /\ [][FlvNext]_flvVars

(* What the encoder puts behind a start code is a NAL unit: it does not end *)
(* in a zero, and has no start code inside.                                *)
NalUnits ==
  \A p \in Payloads :
    /\ p \in Seq(Nat)
    /\ p # <<>> => p[Len(p)] # 0
    /\ \A i \in 1..Len(p) - 2 : ~(p[i] = 0 /\ p[i + 1] = 0 /\ p[i + 2] = 1)

(* A packet, unit by unit.                                                 *)
Builds(b, us) ==
  /\ b[0] = <<>>
  /\ \A i \in 1..Len(us) : b[i] = b[i - 1] \o StartCode(us[i].code) \o us[i].payload

LEMMA BytesAre ==
  ASSUME NalUnits, NEW n \in Nat, NEW us \in [1..n -> Unit]
  PROVE  \E b \in [0..n -> Seq(Nat)] : Builds(b, us) /\ BytesOf(us) = b[n]
<1>. DEFINE S == Seq(Nat)
            c(i) == StartCode(us[i].code)
            p(i) == us[i].payload
            step == [x \in (1..n) \X S |-> x[2] \o c(x[1]) \o p(x[1])]
            makes(f) == f = [i \in 0..n |-> IF i = 0 THEN <<>> ELSE f[i - 1] \o c(i) \o p(i)]
            b == CHOOSE f : makes(f)
<1>1. ASSUME NEW i \in 1..n PROVE c(i) \in S /\ p(i) \in S
  <2>1. us[i] \in Unit
    OBVIOUS
  <2>2. us[i].code \in {3, 4} /\ us[i].payload \in Payloads
    BY <2>1 DEF Unit
  <2>3. ASSUME NEW k \in Nat PROVE [j \in 1..k |-> IF j = k THEN 1 ELSE 0] \in Seq(Nat)
    OBVIOUS
  <2>. QED
    BY <2>2, <2>3 DEF NalUnits, StartCode
<1>2. Len(us) = n /\ <<>> \in S
  OBVIOUS
<1>. HIDE DEF c, p, S
<1>3. ASSUME NEW s \in S, NEW i \in 1..n PROVE s \o c(i) \o p(i) \in S
  BY <1>1 DEF S
<1>4. step \in [(1..n) \X S -> S]
  BY <1>3
<1>5. PICK f \in [0..n -> S] : Steps(f, n, <<>>, step)
  <2>. HIDE DEF step
  <2>. QED
    BY <1>2, <1>4, StepByStep
<1>6. makes(f)
  <2>1. f = [i \in 0..n |-> IF i = 0 THEN <<>> ELSE step[<<i, f[i - 1]>>]]
    BY <1>5 DEF Steps
  <2>2. ASSUME NEW i \in 0..n, i # 0 PROVE step[<<i, f[i - 1]>>] = f[i - 1] \o c(i) \o p(i)
    <3>1. i \in 1..n /\ f[i - 1] \in S
      BY <2>2
    <3>. QED
      BY <3>1
  <2>. HIDE DEF step
  <2>. QED
    BY <2>1, <2>2
<1>7. makes(b)
  <2>. HIDE DEF makes
  <2>. QED
    BY <1>6
<1>8. BytesOf(us) = b[n]
  BY <1>2 DEF BytesOf, c, p
<1>. HIDE DEF b
<1>9. b[0] = <<>> /\ \A i \in 1..n : b[i] = b[i - 1] \o c(i) \o p(i)
  <2>. DEFINE d(i) == IF i = 0 THEN <<>> ELSE b[i - 1] \o c(i) \o p(i)
  <2>1. b = [i \in 0..n |-> d(i)]
    BY <1>7
  <2>. HIDE DEF d
  <2>2. \A i \in 0..n : b[i] = d(i)
    BY <2>1
  <2>3. 0 \in 0..n /\ 1..n \subseteq 0..n /\ 0 \notin 1..n
    OBVIOUS
  <2>. QED
    BY <2>2, <2>3 DEF d
<1>10. \A i \in 0..n : i \in {k \in 0..n : b[k] \in S}
  <2>. DEFINE T == {k \in 0..n : b[k] \in S}
  <2>1. 0 \in T
    BY <1>2, <1>9
  <2>2. ASSUME NEW i \in 1..n, i - 1 \in T PROVE i \in T
    <3>1. b[i - 1] \in S
      BY <2>2
    <3>2. b[i] = b[i - 1] \o c(i) \o p(i)
      BY <1>9
    <3>3. b[i] \in S
      BY <1>3, <3>1, <3>2
    <3>. QED
      BY <3>3
  <2>. HIDE DEF T
  <2>3. \A i \in 0..n : i \in T
    BY <2>1, <2>2, Upward
  <2>. QED
    BY <2>3 DEF T
<1>11. b \in [0..n -> S]
  BY <1>7, <1>10
<1>. QED
  BY <1>2, <1>8, <1>9, <1>11 DEF Builds, S, c, p

(* The elements of two sequences in one.                                   *)
Joins(q, a, b) == q = a \o b

Parts(q, a, b) ==
  /\ q \in Seq(Nat) /\ Len(q) = Len(a) + Len(b) /\ Len(a) \in Nat /\ Len(b) \in Nat
  /\ \A i \in 1..Len(a) : q[i] = a[i]
  /\ \A i \in 1..Len(b) : q[Len(a) + i] = b[i]

LEMMA Joined ==
  ASSUME NEW a \in Seq(Nat), NEW b \in Seq(Nat), NEW q, Joins(q, a, b)
  PROVE  Parts(q, a, b)
<1>1. Len(a) \in Nat /\ Len(b) \in Nat
  OBVIOUS
<1>2. q \in Seq(Nat) /\ Len(q) = Len(a) + Len(b)
  BY ConcatProperties DEF Joins
<1>3. \A i \in 1..Len(a) + Len(b) : q[i] = IF i <= Len(a) THEN a[i] ELSE b[i - Len(a)]
  BY ConcatProperties DEF Joins
<1>. DEFINE m == Len(a)
            n == Len(b)
<1>4. m \in Nat /\ n \in Nat /\ \A i \in 1..m + n : q[i] = IF i <= m THEN a[i] ELSE b[i - m]
  BY <1>1, <1>3
<1>. HIDE DEF m, n
<1>5. ASSUME NEW i \in 1..m PROVE q[i] = a[i]
  <2>1. i \in 1..m + n /\ i <= m
    BY <1>4
  <2>. QED
    BY <1>4, <2>1
<1>6. ASSUME NEW i \in 1..n PROVE q[m + i] = b[i]
  <2>1. m + i \in 1..m + n /\ ~(m + i <= m) /\ m + i - m = i
    BY <1>4
  <2>. QED
    <3>. DEFINE j == m + i
    <3>1. j \in 1..m + n /\ ~(j <= m) /\ j - m = i
      BY <1>4, <2>1
    <3>. HIDE DEF j
    <3>2. q[j] = b[j - m]
      BY <1>4, <3>1
    <3>. QED
      BY <3>1, <3>2 DEF j
<1>. QED
  BY <1>1, <1>2, <1>5, <1>6 DEF m, n, Parts

(* x, unit u's start code and its payload: y without the payload.          *)
Adds(z, y, x, u) == Joins(y, x, StartCode(u.code)) /\ Joins(z, y, u.payload)

(* Behind a unit, the packet does not end in a zero.                       *)
LEMMA EndsAbove ==
  ASSUME NalUnits, NEW u \in Unit, NEW x \in Seq(Nat), NEW y, NEW z, Adds(z, y, x, u)
  PROVE  /\ y \in Seq(Nat) /\ Len(y) = Len(x) + u.code /\ y[Len(y)] = 1
         /\ \A i \in 1..Len(x) : y[i] = x[i]
         /\ u.code \in {3, 4} /\ u.payload \in Seq(Nat)
         /\ z \in Seq(Nat) /\ Len(z) > 0 /\ z[Len(z)] # 0
<1>1. u.code \in {3, 4} /\ u.payload \in Payloads
  BY DEF Unit
<1>2. u.payload \in Seq(Nat) /\ (u.payload # <<>> => u.payload[Len(u.payload)] # 0)
  BY <1>1 DEF NalUnits
<1>. DEFINE k == u.code
            p == u.payload
            c == StartCode(k)
<1>3. c = [i \in 1..k |-> IF i = k THEN 1 ELSE 0] /\ k \in {3, 4}
  BY <1>1 DEF StartCode
<1>4. Joins(y, x, c) /\ Joins(z, y, p)
  BY DEF Adds
<1>. HIDE DEF c, k, p
<1>5. c \in Seq(Nat) /\ Len(c) = k /\ c[k] = 1
  BY <1>3
<1>6. /\ y \in Seq(Nat) /\ Len(y) = Len(x) + Len(c) /\ Len(x) \in Nat
      /\ \A i \in 1..Len(x) : y[i] = x[i]
      /\ \A i \in 1..Len(c) : y[Len(x) + i] = c[i]
  <2>1. Parts(y, x, c)
    BY <1>4, <1>5, Joined
  <2>. QED
    BY <2>1 DEF Parts
<1>7. Len(y) = Len(x) + k /\ y[Len(y)] = 1 /\ Len(y) \in Nat /\ Len(y) > 0
  <2>1. k \in 1..Len(c) /\ Len(y) = Len(x) + k
    BY <1>3, <1>5, <1>6
  <2>2. y[Len(x) + k] = c[k]
    BY <1>6, <2>1
  <2>3. k \in Nat /\ k > 0
    BY <1>3
  <2>. QED
    BY <1>5, <1>6, <2>1, <2>2, <2>3
<1>8. p \in Seq(Nat) /\ (p # <<>> => p[Len(p)] # 0)
  BY <1>2 DEF p
<1>9. /\ z \in Seq(Nat) /\ Len(z) = Len(y) + Len(p) /\ Len(p) \in Nat
      /\ \A i \in 1..Len(y) : z[i] = y[i]
      /\ \A i \in 1..Len(p) : z[Len(y) + i] = p[i]
  <2>1. y \in Seq(Nat) /\ p \in Seq(Nat) /\ Joins(z, y, p)
    BY <1>4, <1>6, <1>8
  <2>2. Parts(z, y, p)
    BY <2>1, Joined
  <2>. QED
    BY <2>2 DEF Parts
<1>10. z[Len(z)] # 0
  <2>1. CASE Len(p) = 0
    <3>1. Len(z) = Len(y) /\ Len(y) \in 1..Len(y)
      BY <1>7, <1>9, <2>1
    <3>2. z[Len(z)] = 1
      BY <1>7, <1>9, <3>1
    <3>. QED
      BY <3>2
  <2>2. CASE Len(p) # 0
    <3>1. Len(p) \in 1..Len(p) /\ p # <<>>
      BY <1>9, <2>2
    <3>. QED
      BY <1>8, <1>9, <3>1
  <2>. QED
    BY <2>1, <2>2
<1>11. Len(z) > 0
  BY <1>7, <1>9
<1>. QED
  BY <1>3, <1>6, <1>7, <1>8, <1>9, <1>10, <1>11 DEF k, p

(* A packet that ends in a start code ends in a unit that has nothing       *)
(* behind one of four bytes.                                               *)
LEMMA EndsInCode ==
  ASSUME NalUnits, NEW n \in Nat, NEW us \in [1..n -> Unit], NEW bytes, bytes = BytesOf(us),
         Len(bytes) >= 4, bytes[Len(bytes)] = 1,
         \A i \in Len(bytes) - 3..Len(bytes) - 1 : bytes[i] = 0
  PROVE  bytes \in Seq(Nat) /\ n > 0 /\ us[n].code = 4 /\ us[n].payload = <<>>
<1>1. PICK b \in [0..n -> Seq(Nat)] : Builds(b, us) /\ BytesOf(us) = b[n]
  BY BytesAre
<1>2. /\ b[0] = <<>> /\ bytes = b[n] /\ n \in 0..n
      /\ \A i \in 1..n : b[i] = b[i - 1] \o StartCode(us[i].code) \o us[i].payload
  <2>1. Len(us) = n /\ n \in 0..n
    OBVIOUS
  <2>2. b[0] = <<>>
    BY <1>1 DEF Builds
  <2>3. \A i \in 1..n : b[i] = b[i - 1] \o StartCode(us[i].code) \o us[i].payload
    BY <1>1, <2>1, Zenon DEF Builds
  <2>. QED
    BY <1>1, <2>1, <2>2, <2>3
<1>3. n > 0
  <2>1. SUFFICES ASSUME n = 0 PROVE FALSE
    OBVIOUS
  <2>2. bytes = <<>>
    BY <1>2, <2>1
  <2>. QED
    BY <2>2
<1>. DEFINE x == b[n - 1]
            u == us[n]
            y == x \o StartCode(u.code)
            p == u.payload
            L == Len(bytes)
<1>4. n \in 1..n /\ n - 1 \in 0..n /\ x \in Seq(Nat) /\ u \in Unit
  BY <1>3
<1>5. Joins(y, x, StartCode(u.code)) /\ Joins(bytes, y, p)
  BY <1>2, <1>4 DEF Joins
<1>6. x = <<>> \/ x[Len(x)] # 0
  <2>1. CASE n = 1
    BY <1>2, <2>1
  <2>2. CASE n # 1
    <3>1. n - 1 \in 1..n /\ n - 1 - 1 \in 0..n
      BY <1>3, <2>2
    <3>2. b[n - 1 - 1] \in Seq(Nat) /\ us[n - 1] \in Unit
      BY <3>1
    <3>3. x = b[n - 1 - 1] \o StartCode(us[n - 1].code) \o us[n - 1].payload
      BY <1>2, <3>1
    <3>. DEFINE v == us[n - 1]
                before == b[n - 1 - 1]
                z == before \o StartCode(v.code)
    <3>4. v \in Unit /\ before \in Seq(Nat) /\ Adds(x, z, before, v)
      BY <3>2, <3>3 DEF Adds, Joins
    <3>. HIDE DEF v, before, z, x
    <3>. QED
      BY <3>4, EndsAbove
  <2>. QED
    BY <2>1, <2>2
<1>7. /\ y \in Seq(Nat) /\ Len(y) = Len(x) + u.code /\ y[Len(y)] = 1
      /\ \A i \in 1..Len(x) : y[i] = x[i]
      /\ u.code \in {3, 4} /\ p \in Seq(Nat) /\ bytes \in Seq(Nat)
  <2>1. u \in Unit /\ x \in Seq(Nat) /\ Adds(bytes, y, x, u)
    BY <1>4, <1>5 DEF Adds
  <2>. HIDE DEF x, u, y
  <2>. QED
    BY <2>1, EndsAbove
<1>8. ~(Len(p) >= 3 /\ p[Len(p) - 2] = 0 /\ p[Len(p) - 1] = 0 /\ p[Len(p)] = 1)
  <2>1. p \in Payloads
    BY <1>4 DEF Unit
  <2>3. Len(p) \in Nat
    BY <1>7
  <2>. HIDE DEF p, x, y, u, L
  <2>2. \A i \in 1..Len(p) - 2 : ~(p[i] = 0 /\ p[i + 1] = 0 /\ p[i + 2] = 1)
    BY <2>1 DEF NalUnits
  <2>4. ASSUME Len(p) >= 3
        PROVE  Len(p) - 2 \in 1..Len(p) - 2 /\ Len(p) - 2 + 1 = Len(p) - 1
               /\ Len(p) - 2 + 2 = Len(p)
    BY <2>3, <2>4
  <2>. QED
    BY <2>2, <2>4
<1>9. /\ L = Len(y) + Len(p) /\ Len(y) \in Nat /\ Len(p) \in Nat
      /\ \A i \in 1..Len(y) : bytes[i] = y[i]
      /\ \A i \in 1..Len(p) : bytes[Len(y) + i] = p[i]
  <2>. HIDE DEF y, p
  <2>1. y \in Seq(Nat) /\ p \in Seq(Nat) /\ Joins(bytes, y, p)
    BY <1>5, <1>7
  <2>. HIDE DEF L
  <2>2. /\ bytes \in Seq(Nat) /\ Len(bytes) = Len(y) + Len(p)
        /\ Len(y) \in Nat /\ Len(p) \in Nat
        /\ \A i \in 1..Len(y) : bytes[i] = y[i]
        /\ \A i \in 1..Len(p) : bytes[Len(y) + i] = p[i]
    <3>1. Parts(bytes, y, p)
      BY <2>1, Joined
    <3>. QED
      BY <3>1 DEF Parts
  <2>. QED
    BY <2>2 DEF L
<1>10. Len(x) \in Nat
  BY <1>4
<1>11. /\ L \in Nat /\ L >= 4 /\ bytes[L] = 1
       /\ bytes[L - 1] = 0 /\ bytes[L - 2] = 0 /\ bytes[L - 3] = 0
  <2>1. L \in Nat
    BY <1>7
  <2>. HIDE DEF L
  <2>2. L - 1 \in L - 3..L - 1 /\ L - 2 \in L - 3..L - 1 /\ L - 3 \in L - 3..L - 1
    BY <2>1
  <2>. QED
    BY <2>1, <2>2 DEF L
<1>. HIDE DEF x, y, p, L, u
<1>12. Len(p) = 0
  <2>1. Len(p) >= 3 => /\ bytes[L] = p[Len(p)] /\ bytes[L - 1] = p[Len(p) - 1]
                       /\ bytes[L - 2] = p[Len(p) - 2]
    <3>1. SUFFICES ASSUME Len(p) >= 3
                   PROVE  /\ bytes[L] = p[Len(p)] /\ bytes[L - 1] = p[Len(p) - 1]
                          /\ bytes[L - 2] = p[Len(p) - 2]
      OBVIOUS
    <3>2. /\ Len(p) \in 1..Len(p) /\ Len(p) - 1 \in 1..Len(p) /\ Len(p) - 2 \in 1..Len(p)
          /\ L = Len(y) + Len(p) /\ L - 1 = Len(y) + (Len(p) - 1)
          /\ L - 2 = Len(y) + (Len(p) - 2)
      BY <1>9, <3>1
    <3>. QED
      BY <1>9, <3>2
  <2>2. ~(Len(p) >= 3)
    BY <1>8, <1>11, <2>1
  <2>3. Len(y) \in 1..Len(y)
    <3>1. Len(y) \in Nat /\ Len(x) \in Nat /\ (Len(y) = Len(x) + 3 \/ Len(y) = Len(x) + 4)
      BY <1>7, <1>9, <1>10
    <3>. QED
      BY <3>1
  <2>4. bytes[Len(y)] = 1
    BY <1>7, <1>9, <2>3
  <2>5. Len(p) # 1
    <3>1. Len(p) = 1 => Len(y) = L - 1
      BY <1>9
    <3>2. 1 # 0
      OBVIOUS
    <3>. QED
      BY <1>11, <2>4, <3>1, <3>2
  <2>6. Len(p) # 2
    <3>1. Len(p) = 2 => Len(y) = L - 2
      BY <1>9
    <3>2. 1 # 0
      OBVIOUS
    <3>. QED
      BY <1>11, <2>4, <3>1, <3>2
  <2>7. Len(p) \in Nat
    BY <1>9
  <2>. DEFINE m == Len(p)
  <2>. HIDE DEF m
  <2>8. m \in Nat /\ ~(m >= 3) /\ m # 1 /\ m # 2
    BY <2>2, <2>5, <2>6, <2>7 DEF m
  <2>9. m = 0
    BY <2>8
  <2>. QED
    BY <2>9 DEF m
<1>13. u.code # 3
  <2>1. SUFFICES ASSUME u.code = 3 PROVE FALSE
    OBVIOUS
  <2>2. L = Len(x) + 3 /\ Len(x) = L - 3 /\ Len(x) \in 1..Len(x)
    BY <1>7, <1>9, <1>10, <1>11, <1>12, <2>1
  <2>3. Len(x) \in 1..Len(y)
    BY <1>7, <1>10, <2>1, <2>2
  <2>4. bytes[Len(x)] = x[Len(x)]
    BY <1>7, <1>9, <2>2, <2>3
  <2>5. x # <<>>
    BY <2>2
  <2>. QED
    BY <1>6, <1>11, <2>2, <2>4, <2>5
<1>14. p = <<>>
  BY <1>7, <1>12
<1>. QED
  BY <1>3, <1>7, <1>13, <1>14 DEF u, p

(* The search stops inside the packet, at its end or at a start code.      *)
LEMMA ScanStops ==
  ASSUME NEW i \in 0..Total, Total \in Nat, Total >= 3
  PROVE  /\ Scan(i) \in i..Total
         /\ Scan(i) < Limit => Scan(i) + 4 <= Total /\ IsStartCode(Scan(i))
         /\ \A j \in i..Scan(i) - 1 : ~Stops(j)
         /\ \A j \in Nat : ~Overreads(j)
<1>1. Limit = Total - 3
  BY DEF Limit
<1>2. \A j \in Nat : ~Overreads(j)
  BY <1>1 DEF Overreads
<1>. DEFINE S == {j \in i..Total : Stops(j)}
<1>3. S \in SUBSET Nat
  OBVIOUS
<1>4. Total \in S
  BY <1>1 DEF Stops
<1>5. PICK j \in S : \A k \in S : ~(k < j)
  <2>. HIDE DEF S
  <2>. QED
    BY <1>3, <1>4, LeastOf
<1>6. ASSUME NEW k \in i..j - 1 PROVE ~Stops(k)
  <2>1. k \in i..Total /\ k < j
    BY <1>3
  <2>. QED
    BY <1>5, <2>1
<1>7. \E s \in i..Total : Stops(s) /\ \A k \in i..s - 1 : ~Stops(k)
  BY <1>6
<1>8. /\ Scan(i) \in i..Total /\ Stops(Scan(i))
      /\ \A k \in i..Scan(i) - 1 : ~Stops(k)
  BY <1>7 DEF Scan
<1>. DEFINE s == Scan(i)
<1>9. s \in Nat /\ Stops(s)
  BY <1>8
<1>. HIDE DEF s
<1>10. ASSUME s < Limit PROVE s + 4 <= Total /\ IsStartCode(s)
  <2>1. IsStartCode(s)
    BY <1>1, <1>2, <1>9, <1>10 DEF Stops
  <2>. QED
    BY <1>1, <1>9, <1>10, <2>1
<1>. QED
  BY <1>2, <1>8, <1>10 DEF s

(* Of fewer than three bytes, a search reads past the last at once.        *)
LEMMA ShortOverreads ==
  ASSUME buf_offset \in 0..Total, Total \in Nat, Total < 3
  PROVE  SearchOverreads
<1>1. Limit = 2147483647
  BY DEF Limit
<1>2. \A j \in 0..Total : Overreads(j)
  BY <1>1 DEF Overreads
<1>3. Scan(buf_offset) \in buf_offset..Total
  <2>1. buf_offset \in buf_offset..Total /\ Stops(buf_offset)
    BY <1>2 DEF Stops
  <2>2. \A k \in buf_offset..buf_offset - 1 : ~Stops(k)
    OBVIOUS
  <2>. QED
    BY <2>1, <2>2 DEF Scan
<1>. QED
  BY <1>2, <1>3 DEF SearchOverreads

(* The NAL unit found is a part of the packet.                             *)
LEMMA NalInside ==
  ASSUME buf_offset \in 0..Total, Total \in Nat, Total >= 3, ~NoNal
  PROVE  /\ ~SearchOverreads
         /\ NalFound.at \in Nat /\ NalFound.len \in Nat /\ End(NalFound) \in 0..Total
         /\ NalFound.at = Scan(buf_offset) + 4 /\ IsStartCode(Scan(buf_offset))
         /\ buf_offset + 4 <= NalFound.at /\ NalFound.at <= Total
<1>. DEFINE s == Scan(buf_offset)
            q == s + 4
            e == Scan(q)
<1>1. /\ s \in buf_offset..Total /\ s < Limit /\ s + 4 <= Total /\ IsStartCode(s)
      /\ \A j \in Nat : ~Overreads(j)
  <2>1. s < Limit
    BY ScanStops DEF NoNal, Limit
  <2>. QED
    BY <2>1, ScanStops
<1>2. q \in 0..Total
  BY <1>1
<1>3. e \in q..Total
  <2>. HIDE DEF q
  <2>. QED
    BY <1>2, ScanStops
<1>4. NalFound = [at |-> q, len |-> (IF e >= Limit THEN Total ELSE e) - q]
  BY DEF NalFound
<1>5. ~SearchOverreads
  <2>1. s \in Nat /\ e \in Nat
    BY <1>1, <1>2, <1>3
  <2>. QED
    BY <1>1, <2>1 DEF SearchOverreads
<1>. HIDE DEF e
<1>6. /\ NalFound.at = q /\ NalFound.len \in Nat /\ End(NalFound) \in 0..Total
  <2>1. CASE e >= Limit
    <3>1. NalFound.at = q /\ NalFound.len = Total - q
      BY <1>4, <2>1
    <3>. QED
      BY <1>2, <3>1 DEF End
  <2>2. CASE ~(e >= Limit)
    <3>1. NalFound.at = q /\ NalFound.len = e - q
      BY <1>4, <2>2
    <3>. QED
      BY <1>2, <1>3, <3>1 DEF End
  <2>. QED
    BY <2>1, <2>2
<1>. QED
  BY <1>1, <1>2, <1>5, <1>6

(* The inductive invariant: how far the writer has come, and that the bytes *)
(* it walks are those of units.                                            *)
FlvInv ==
  /\ Total \in Nat /\ buf_offset \in 0..Total
  /\ writer \in {"idle", "audio"} => buf_offset = 0
  /\ writer \in {"getNal", "nal"} =>
       \E n \in Nat : units \in [1..n -> Unit] /\ packet = BytesOf(units)
  /\ writer = "nal" =>
       /\ nal.at \in Nat /\ nal.len \in Nat /\ nal.at + nal.len = buf_offset
       /\ Total >= 3
  /\ OverreadExplained

(* A search that finds a start code with nothing behind it has found the    *)
(* end of a packet whose last unit is empty.                               *)
LEMMA GetNalKeeps ==
  ASSUME NalUnits, FlvInv, GetNal
  PROVE  FlvInv'
<1>1. /\ writer = "getNal" /\ packet' = packet /\ units' = units /\ Total' = Total
      /\ Total \in Nat /\ buf_offset \in 0..Total
  BY DEF GetNal, FlvInv, Total
<1>2. PICK n \in Nat : units \in [1..n -> Unit] /\ packet = BytesOf(units)
  BY <1>1 DEF FlvInv
<1>3. CASE Total < 3
  <2>1. SearchOverreads
    BY <1>1, <1>3, ShortOverreads
  <2>2. writer' = "overread" /\ buf_offset' = buf_offset
    BY <2>1 DEF GetNal
  <2>. QED
    BY <1>1, <1>3, <2>2 DEF FlvInv, OverreadExplained
<1>4. CASE Total >= 3 /\ NoNal
  <2>1. ~SearchOverreads
    BY <1>1, <1>4, ScanStops DEF SearchOverreads, NoNal, Limit
  <2>2. writer' = "done" /\ buf_offset' = buf_offset
    BY <1>4, <2>1 DEF GetNal
  <2>. QED
    BY <1>1, <2>2 DEF FlvInv, OverreadExplained
<1>5. CASE Total >= 3 /\ ~NoNal
  <2>1. /\ ~SearchOverreads
        /\ NalFound.at \in Nat /\ NalFound.len \in Nat /\ End(NalFound) \in 0..Total
        /\ NalFound.at = Scan(buf_offset) + 4 /\ IsStartCode(Scan(buf_offset))
    BY <1>1, <1>5, NalInside
  <2>2. /\ nal' = NalFound /\ buf_offset' = End(NalFound)
        /\ writer' = IF NalFound.at = Total THEN "overread" ELSE "nal"
    BY <1>5, <2>1 DEF GetNal
  <2>3. CASE NalFound.at = Total
    <3>. DEFINE s == Scan(buf_offset)
    <3>1. s \in Nat /\ s + 4 = Total
      <4>1. s \in 0..Total
        BY <1>1, <1>5, ScanStops
      <4>. QED
        BY <2>1, <2>3, <4>1
    <3>2. ByteAt(s + 3) = 1 /\ \A k \in s..s + 2 : ByteAt(k) = 0
      BY <2>1 DEF IsStartCode
    <3>. HIDE DEF s
    <3>3. packet[Total] = 1
      BY <3>1, <3>2 DEF ByteAt
    <3>4. ASSUME NEW i \in Total - 3..Total - 1 PROVE packet[i] = 0
      <4>1. i - 1 \in s..s + 2 /\ i - 1 + 1 = i
        BY <3>1
      <4>. QED
        BY <3>2, <4>1 DEF ByteAt
    <3>5. Total >= 4
      BY <3>1
    <3>6. n > 0 /\ units[n].code = 4 /\ units[n].payload = <<>>
      BY <1>2, <3>3, <3>4, <3>5, EndsInCode DEF Total
    <3>7. units # <<>> /\ Last(units) = units[n]
      <4>1. Len(units) = n
        BY <1>2
      <4>. QED
        BY <3>6, <4>1 DEF Last
    <3>8. OverreadExplained'
      BY <1>1, <3>6, <3>7 DEF OverreadExplained
    <3>. QED
      BY <1>1, <2>1, <2>2, <2>3, <3>8 DEF FlvInv
  <2>4. CASE NalFound.at # Total
    <3>1. writer' = "nal"
      BY <2>2, <2>4
    <3>2. nal'.at \in Nat /\ nal'.len \in Nat /\ nal'.at + nal'.len = buf_offset'
      BY <2>1, <2>2 DEF End
    <3>3. \E m \in Nat : units' \in [1..m -> Unit] /\ packet' = BytesOf(units')
      BY <1>1, <1>2
    <3>. QED
      BY <1>1, <1>5, <2>1, <2>2, <3>1, <3>2, <3>3 DEF FlvInv, OverreadExplained
  <2>. QED
    BY <2>3, <2>4
<1>. QED
  BY <1>1, <1>3, <1>4, <1>5

(* The record of the configuration reads four bytes of an SPS that another  *)
(* start code follows: they are all in the packet.                         *)
LEMMA WriteConfigKeeps ==
  ASSUME FlvInv, WriteConfig
  PROVE  FlvInv'
<1>1. /\ writer = "nal" /\ packet' = packet /\ units' = units /\ Total' = Total
      /\ Total \in Nat /\ Total >= 3 /\ buf_offset \in 0..Total
      /\ nal.at \in Nat /\ nal.len \in Nat /\ nal.at + nal.len = buf_offset
  BY DEF WriteConfig, FlvInv, Total
<1>2. \E n \in Nat : units' \in [1..n -> Unit] /\ packet' = BytesOf(units')
  BY <1>1 DEF FlvInv
<1>3. CASE NoNal
  <2>1. writer' = "done" /\ buf_offset' = buf_offset
    BY <1>3 DEF WriteConfig
  <2>. QED
    BY <1>1, <2>1 DEF FlvInv, OverreadExplained
<1>4. CASE ~NoNal
  <2>1. /\ End(NalFound) \in 0..Total /\ NalFound.at \in Nat
        /\ buf_offset + 4 <= NalFound.at /\ NalFound.at <= Total
    BY <1>1, <1>4, NalInside
  <2>2. ~(nal.at + 3 >= Total)
    BY <1>1, <2>1
  <2>3. writer' = "getNal" /\ buf_offset' = End(NalFound)
    BY <1>4, <2>2 DEF WriteConfig
  <2>. QED
    BY <1>1, <1>2, <2>1, <2>3 DEF FlvInv, OverreadExplained
<1>. QED
  BY <1>3, <1>4

(* The invariant is inductive.                                             *)
LEMMA FlvNextKeeps ==
  ASSUME NalUnits, MaxUnits \in Nat, MaxAudio \in Nat, FlvInv, [FlvNext]_flvVars
  PROVE  FlvInv'
<1>1. CASE WriteVideo
  <2>1. writer = "idle" /\ writer' = "getNal" /\ buf_offset' = buf_offset
    BY <1>1 DEF WriteVideo
  <2>2. PICK n \in 0..MaxUnits : units' \in [1..n -> Unit] /\ packet' = BytesOf(units')
    BY <1>1 DEF WriteVideo
  <2>3. n \in Nat
    OBVIOUS
  <2>4. packet' \in Seq(Nat)
    <3>1. PICK b \in [0..n -> Seq(Nat)] : BytesOf(units') = b[n]
      BY <2>2, <2>3, BytesAre
    <3>. QED
      BY <2>2, <2>3, <3>1
  <2>5. Total' \in Nat
    BY <2>4 DEF Total
  <2>6. buf_offset' = 0
    BY <2>1 DEF FlvInv
  <2>. QED
    BY <2>1, <2>2, <2>3, <2>5, <2>6 DEF FlvInv, OverreadExplained
<1>2. CASE SkipNal \/ WriteSlice
  <2>1. /\ writer = "nal" /\ writer' = "getNal"
        /\ packet' = packet /\ units' = units /\ buf_offset' = buf_offset
    BY <1>2 DEF SkipNal, WriteSlice
  <2>. QED
    BY <2>1 DEF FlvInv, OverreadExplained, Total
<1>3. CASE WriteAudio
  <2>1. PICK size \in 0..MaxAudio, ok \in BOOLEAN :
          /\ packet' = [i \in 1..size |-> 0]
          /\ writer' = IF ~ok /\ size < 2 THEN "overread" ELSE "audio"
    BY <1>3 DEF WriteAudio
  <2>2. writer = "idle" /\ buf_offset' = buf_offset
    BY <1>3 DEF WriteAudio
  <2>3. Total' = size /\ size \in Nat
    BY <2>1 DEF Total
  <2>4. buf_offset' = 0
    BY <2>2 DEF FlvInv
  <2>. QED
    BY <2>1, <2>3, <2>4 DEF FlvInv, OverreadExplained
<1>4. CASE PushAudio
  <2>1. writer' = "sent" /\ packet' = packet /\ buf_offset' = buf_offset
    BY <1>4 DEF PushAudio
  <2>. QED
    BY <2>1 DEF FlvInv, OverreadExplained, Total
<1>5. CASE UNCHANGED flvVars
  BY <1>5 DEF flvVars, FlvInv, OverreadExplained, Total
<1>. QED
  BY <1>1, <1>2, <1>3, <1>4, <1>5, GetNalKeeps, WriteConfigKeeps DEF FlvNext

(* get_nal and the writer read past a packet only if it is shorter than     *)
(* three bytes or ends in a start code, for every number and every contents *)
(* of NAL units that have no start code inside.                            *)
THEOREM OverreadsExplained ==
  ASSUME NalUnits, MaxUnits \in Nat, MaxAudio \in Nat
  PROVE  FlvSpec => []OverreadExplained
<1>1. FlvInit => FlvInv
  BY DEF FlvInit, FlvInv, OverreadExplained, Total
<1>2. FlvInv /\ [FlvNext]_flvVars => FlvInv'
  BY FlvNextKeeps
<1>3. FlvInv => OverreadExplained
  BY DEF FlvInv
<1>. QED
  BY <1>1, <1>2, <1>3, PTL DEF FlvSpec

-----------------------------------------------------------------------------
(* Where the start codes of a packet are.                                  *)

(* Counting upward from k.                                                 *)
LEMMA UpFrom ==
  ASSUME NEW k \in Nat, NEW m \in Nat, NEW T, k \in T,
         \A i \in k + 1..m : i - 1 \in T => i \in T
  PROVE  \A i \in k..m : i \in T
<1>. DEFINE U == {j \in Nat : k + j \in T}
<1>1. CASE m < k
  BY <1>1
<1>2. CASE ~(m < k)
  <2>1. m - k \in Nat /\ 0 \in U
    BY <1>2
  <2>2. ASSUME NEW j \in 1..m - k, j - 1 \in U PROVE j \in U
    <3>1. j \in Nat /\ k + j \in k + 1..m /\ k + j - 1 = k + (j - 1)
      BY <2>1
    <3>. QED
      BY <2>2, <3>1
  <2>3. \A j \in 0..m - k : j \in U
    <3>. HIDE DEF U
    <3>. QED
      BY <2>1, <2>2, Upward
  <2>4. ASSUME NEW i \in k..m PROVE i \in T
    <3>1. i - k \in 0..m - k /\ k + (i - k) = i
      BY <2>1
    <3>. QED
      BY <2>3, <3>1
  <2>. QED
    BY <2>4
<1>. QED
  BY <1>1, <1>2

(* A unit in full: x, its start code, and its payload.                     *)
Laid(z, y, x, u) ==
  /\ u.code \in {3, 4} /\ u.payload \in Seq(Nat) /\ y \in Seq(Nat) /\ z \in Seq(Nat)
  /\ Len(x) \in Nat /\ Len(u.payload) \in Nat
  /\ Len(y) = Len(x) + u.code /\ Len(z) = Len(y) + Len(u.payload)
  /\ \A i \in 1..Len(x) : z[i] = x[i]
  /\ \A i \in Len(x) + 1..Len(y) - 1 : z[i] = 0
  /\ z[Len(y)] = 1 /\ z[Len(z)] # 0
  /\ \A i \in 1..Len(u.payload) : z[Len(y) + i] = u.payload[i]

LEMMA UnitIs ==
  ASSUME NalUnits, NEW u \in Unit, NEW x \in Seq(Nat), NEW y, NEW z, Adds(z, y, x, u)
  PROVE  Laid(z, y, x, u)
<1>. DEFINE k == u.code
            p == u.payload
            c == StartCode(k)
<1>1. /\ y \in Seq(Nat) /\ Len(y) = Len(x) + k /\ y[Len(y)] = 1
      /\ \A i \in 1..Len(x) : y[i] = x[i]
      /\ k \in {3, 4} /\ p \in Seq(Nat)
      /\ z \in Seq(Nat) /\ Len(z) > 0 /\ z[Len(z)] # 0
  BY EndsAbove
<1>2. c = [i \in 1..k |-> IF i = k THEN 1 ELSE 0] /\ k \in {3, 4}
  BY <1>1 DEF StartCode
<1>3. Joins(y, x, c) /\ Joins(z, y, p)
  BY DEF Adds
<1>. HIDE DEF c, k, p
<1>4. c \in Seq(Nat) /\ Len(c) = k /\ \A i \in 1..k - 1 : c[i] = 0
  BY <1>2
<1>5. /\ y \in Seq(Nat) /\ Len(y) = Len(x) + Len(c) /\ Len(x) \in Nat /\ Len(c) \in Nat
      /\ \A i \in 1..Len(x) : y[i] = x[i]
      /\ \A i \in 1..Len(c) : y[Len(x) + i] = c[i]
  <2>1. Parts(y, x, c)
    BY <1>3, <1>4, Joined
  <2>. QED
    BY <2>1 DEF Parts
<1>6. /\ z \in Seq(Nat) /\ Len(z) = Len(y) + Len(p) /\ Len(y) \in Nat /\ Len(p) \in Nat
      /\ \A i \in 1..Len(y) : z[i] = y[i]
      /\ \A i \in 1..Len(p) : z[Len(y) + i] = p[i]
  <2>1. y \in Seq(Nat) /\ p \in Seq(Nat) /\ Joins(z, y, p)
    BY <1>1, <1>3
  <2>2. Parts(z, y, p)
    BY <2>1, Joined
  <2>. QED
    BY <2>2 DEF Parts
<1>7. ASSUME NEW i \in Len(x) + 1..Len(y) - 1 PROVE z[i] = 0
  <2>1. i - Len(x) \in 1..k - 1 /\ i - Len(x) \in 1..Len(c) /\ i \in 1..Len(y)
        /\ Len(x) + (i - Len(x)) = i
    BY <1>2, <1>4, <1>5
  <2>2. y[Len(x) + (i - Len(x))] = c[i - Len(x)]
    BY <1>5, <2>1
  <2>. QED
    BY <1>4, <1>6, <2>1, <2>2
<1>8. \A i \in 1..Len(x) : i \in 1..Len(y)
  BY <1>2, <1>4, <1>5
<1>9. Len(y) \in 1..Len(y)
  BY <1>2, <1>4, <1>5
<1>10. (\A i \in 1..Len(x) : z[i] = x[i]) /\ z[Len(y)] = 1
  BY <1>1, <1>6, <1>8, <1>9
<1>. QED
  BY <1>1, <1>5, <1>6, <1>7, <1>10 DEF k, p, Laid

(* A four-byte start code behind the first i bytes.                        *)
CodeAt(z, i) ==
  /\ i + 4 <= Len(z)
  /\ z[i + 1] = 0 /\ z[i + 2] = 0 /\ z[i + 3] = 0 /\ z[i + 4] = 1

(* A unit brings one: its own, if that has four bytes.                     *)
LEMMA CodeInUnit ==
  ASSUME NalUnits, NEW u \in Unit, NEW x \in Seq(Nat), x = <<>> \/ x[Len(x)] # 0,
         NEW y, NEW z, Adds(z, y, x, u), NEW i \in Nat
  PROVE  CodeAt(z, i) <=> CodeAt(x, i) \/ (u.code = 4 /\ i = Len(x))
<1>. DEFINE k == u.code
            p == u.payload
            l == Len(x)
            e == Len(y)
            m == Len(p)
<1>1. /\ k \in {3, 4} /\ p \in Seq(Nat) /\ l \in Nat /\ m \in Nat
      /\ e = l + k /\ Len(z) = e + m
      /\ \A j \in 1..l : z[j] = x[j]
      /\ \A j \in l + 1..e - 1 : z[j] = 0
      /\ z[e] = 1
      /\ \A j \in 1..m : z[e + j] = p[j]
  <2>1. /\ u.code \in {3, 4} /\ u.payload \in Seq(Nat) /\ y \in Seq(Nat) /\ z \in Seq(Nat)
        /\ Len(x) \in Nat /\ Len(u.payload) \in Nat
        /\ Len(y) = Len(x) + u.code /\ Len(z) = Len(y) + Len(u.payload)
        /\ \A j \in 1..Len(x) : z[j] = x[j]
        /\ \A j \in Len(x) + 1..Len(y) - 1 : z[j] = 0
        /\ z[Len(y)] = 1 /\ z[Len(z)] # 0
        /\ \A j \in 1..Len(u.payload) : z[Len(y) + j] = u.payload[j]
    BY UnitIs DEF Laid
  <2>. QED
    BY <2>1
<1>2. \A j \in 1..m - 2 : ~(p[j] = 0 /\ p[j + 1] = 0 /\ p[j + 2] = 1)
  <2>1. p \in Payloads
    BY DEF Unit
  <2>. HIDE DEF p
  <2>. QED
    BY <2>1 DEF NalUnits
<1>3. l # 0 => x[l] # 0
  <2>1. x = <<>> => Len(x) = 0
    OBVIOUS
  <2>. QED
    BY <2>1
<1>4. CodeAt(x, i) <=> /\ i + 4 <= l
                       /\ x[i + 1] = 0 /\ x[i + 2] = 0 /\ x[i + 3] = 0 /\ x[i + 4] = 1
  BY DEF CodeAt
<1>5. CodeAt(z, i) <=> /\ i + 4 <= e + m
                       /\ z[i + 1] = 0 /\ z[i + 2] = 0 /\ z[i + 3] = 0 /\ z[i + 4] = 1
  BY <1>1 DEF CodeAt
<1>. HIDE DEF k, p, l, e, m
<1>6. CASE i + 4 <= l
  <2>1. i + 1 \in 1..l /\ i + 2 \in 1..l /\ i + 3 \in 1..l /\ i + 4 \in 1..l
    BY <1>1, <1>6
  <2>2. i # l /\ i + 4 <= e + m
    BY <1>1, <1>6
  <2>3. z[i + 1] = x[i + 1] /\ z[i + 2] = x[i + 2] /\ z[i + 3] = x[i + 3] /\ z[i + 4] = x[i + 4]
    BY <1>1, <2>1
  <2>. QED
    BY <1>4, <1>5, <1>6, <2>2, <2>3 DEF l
<1>7. CASE i = l /\ k = 4
  <2>1. i + 1 \in l + 1..e - 1 /\ i + 2 \in l + 1..e - 1 /\ i + 3 \in l + 1..e - 1 /\ i + 4 = e
    BY <1>1, <1>7
  <2>2. i + 4 <= e + m
    BY <1>1, <2>1
  <2>3. z[i + 1] = 0 /\ z[i + 2] = 0 /\ z[i + 3] = 0 /\ z[i + 4] = 1
    BY <1>1, <2>1
  <2>. QED
    BY <1>5, <1>7, <2>2, <2>3 DEF k, l
<1>8. CASE ~(i + 4 <= l) /\ ~(i = l /\ k = 4)
  <2>1. ~CodeAt(x, i)
    BY <1>4, <1>8
  <2>2. SUFFICES ASSUME CodeAt(z, i) PROVE FALSE
    BY <1>8, <2>1 DEF k, l
  <2>3. /\ i + 4 <= e + m
        /\ z[i + 1] = 0 /\ z[i + 2] = 0 /\ z[i + 3] = 0 /\ z[i + 4] = 1
    BY <1>5, <2>2
  <2>4. CASE i + 4 < e
    <3>1. i + 4 \in l + 1..e - 1
      BY <1>1, <1>8, <2>4
    <3>2. z[i + 4] = 0
      BY <1>1, <3>1
    <3>. QED
      BY <2>3, <3>2
  <2>5. CASE i + 4 = e
    <3>1. k = 3 /\ i + 1 = l
      BY <1>1, <1>8, <2>5
    <3>2. l # 0 /\ l \in 1..l
      BY <1>1, <3>1
    <3>3. z[l] = x[l]
      BY <1>1, <3>2
    <3>. QED
      BY <1>3, <2>3, <3>1, <3>2, <3>3
  <2>6. CASE i + 4 = e + 1 \/ i + 4 = e + 2
    <3>1. i + 3 = e \/ i + 2 = e
      BY <1>1, <2>6
    <3>. QED
      BY <1>1, <2>3, <3>1
  <2>7. CASE i + 4 > e + 2
    <3>. DEFINE j == i + 2 - e
    <3>1. /\ j \in 1..m - 2 /\ j \in 1..m /\ j + 1 \in 1..m /\ j + 2 \in 1..m
          /\ e + j = i + 2 /\ e + (j + 1) = i + 3 /\ e + (j + 2) = i + 4
      BY <1>1, <2>3, <2>7
    <3>. HIDE DEF j
    <3>2. z[e + j] = p[j] /\ z[e + (j + 1)] = p[j + 1] /\ z[e + (j + 2)] = p[j + 2]
      BY <1>1, <3>1
    <3>3. p[j] = 0 /\ p[j + 1] = 0 /\ p[j + 2] = 1
      BY <2>3, <3>1, <3>2
    <3>. QED
      BY <1>2, <3>1, <3>3
  <2>. QED
    BY <1>1, <2>4, <2>5, <2>6, <2>7
<1>. QED
  BY <1>1, <1>6, <1>7, <1>8

(* A packet, unit by unit.                                                 *)
Lays(b, us, n) ==
  /\ b \in [0..n -> Seq(Nat)] /\ us \in [1..n -> Unit] /\ b[0] = <<>>
  /\ \A i \in 1..n : Adds(b[i], b[i - 1] \o StartCode(us[i].code), b[i - 1], us[i])

LEMMA LaysIs ==
  ASSUME NalUnits, NEW n \in Nat, NEW us \in [1..n -> Unit]
  PROVE  \E b : Lays(b, us, n) /\ BytesOf(us) = b[n]
<1>1. PICK b \in [0..n -> Seq(Nat)] : Builds(b, us) /\ BytesOf(us) = b[n]
  BY BytesAre
<1>2. Len(us) = n
  OBVIOUS
<1>3. b[0] = <<>>
  BY <1>1 DEF Builds
<1>4. \A i \in 1..n : b[i] = b[i - 1] \o StartCode(us[i].code) \o us[i].payload
  BY <1>1, <1>2, Zenon DEF Builds
<1>5. \A i \in 1..n : Adds(b[i], b[i - 1] \o StartCode(us[i].code), b[i - 1], us[i])
  BY <1>4, Zenon DEF Adds, Joins
<1>6. Lays(b, us, n)
  BY <1>3, <1>5 DEF Lays
<1>. QED
  BY <1>1, <1>6

LEMMA UnitOf ==
  ASSUME NalUnits, NEW n \in Nat, NEW us, NEW b, Lays(b, us, n), NEW m \in 1..n
  PROVE  /\ us[m].code \in {3, 4} /\ us[m].payload \in Seq(Nat)
         /\ Len(us[m].payload) \in Nat /\ Len(b[m - 1]) \in Nat
         /\ Len(b[m]) = Len(b[m - 1]) + us[m].code + Len(us[m].payload)
         /\ \A t \in 1..Len(b[m - 1]) : b[m][t] = b[m - 1][t]
         /\ b[m][Len(b[m - 1]) + 1] = 0 /\ b[m][Len(b[m])] # 0
<1>. DEFINE u == us[m]
            x == b[m - 1]
            y == x \o StartCode(u.code)
            z == b[m]
<1>1. u \in Unit /\ x \in Seq(Nat) /\ Adds(z, y, x, u)
  <2>1. m - 1 \in 0..n
    OBVIOUS
  <2>. QED
    BY <2>1 DEF Lays
<1>. HIDE DEF u, x, y, z
<1>2. /\ u.code \in {3, 4} /\ u.payload \in Seq(Nat) /\ y \in Seq(Nat) /\ z \in Seq(Nat)
      /\ Len(x) \in Nat /\ Len(u.payload) \in Nat
      /\ Len(y) = Len(x) + u.code /\ Len(z) = Len(y) + Len(u.payload)
      /\ \A i \in 1..Len(x) : z[i] = x[i]
      /\ \A i \in Len(x) + 1..Len(y) - 1 : z[i] = 0
      /\ z[Len(y)] = 1 /\ z[Len(z)] # 0
      /\ \A i \in 1..Len(u.payload) : z[Len(y) + i] = u.payload[i]
  <2>1. Laid(z, y, x, u)
    BY <1>1, UnitIs
  <2>. QED
    BY <2>1 DEF Laid
<1>3. Len(x) + 1 \in Len(x) + 1..Len(y) - 1
  <2>. DEFINE l == Len(x)
              e == Len(y)
  <2>1. l \in Nat /\ (e = l + 3 \/ e = l + 4)
    BY <1>2
  <2>. HIDE DEF l, e
  <2>2. l + 1 \in l + 1..e - 1
    BY <2>1
  <2>. QED
    BY <2>2 DEF l, e
<1>4. z[Len(x) + 1] = 0
  BY <1>2, <1>3
<1>5. Len(z) = Len(x) + u.code + Len(u.payload)
  BY <1>2
<1>. QED
  BY <1>2, <1>4, <1>5 DEF u, x, z

(* What the first i units lay, the rest of the packet leaves.              *)
Grown(b, us, i, j) ==
  /\ Len(b[i]) \in Nat /\ Len(b[j]) \in Nat /\ Len(b[i]) <= Len(b[j])
  /\ i < j => us[i + 1].code \in {3, 4} /\ Len(b[i]) + us[i + 1].code <= Len(b[j])
  /\ \A t \in 1..Len(b[i]) : b[j][t] = b[i][t]

LEMMA Grows ==
  ASSUME NalUnits, NEW n \in Nat, NEW us, NEW b, Lays(b, us, n), NEW i \in 0..n, NEW j \in i..n
  PROVE  Grown(b, us, i, j)
<1>. DEFINE c == us[i + 1].code
            Good(k) == /\ Len(b[k]) \in Nat /\ Len(b[i]) <= Len(b[k])
                       /\ i < k => c \in {3, 4} /\ Len(b[i]) + c <= Len(b[k])
                       /\ \A t \in 1..Len(b[i]) : b[k][t] = b[i][t]
            T == {k \in i..n : Good(k)}
<1>1. Len(b[i]) \in Nat /\ i \in Nat
  <2>1. b[i] \in Seq(Nat)
    BY DEF Lays
  <2>. QED
    BY <2>1
<1>2. i \in T
  BY <1>1
<1>3. ASSUME NEW k \in i + 1..n, k - 1 \in T PROVE k \in T
  <2>1. Good(k - 1)
    BY <1>3
  <2>2. k \in 1..n /\ k \in i..n /\ k - 1 >= i
    BY <1>1
  <2>. DEFINE d == us[k].code
              p == Len(us[k].payload)
              l == Len(b[k - 1])
  <2>3. /\ d \in {3, 4} /\ p \in Nat /\ l \in Nat /\ Len(b[k]) = l + d + p
        /\ \A t \in 1..l : b[k][t] = b[k - 1][t]
    BY <2>2, UnitOf
  <2>4. k - 1 = i => c = d /\ l = Len(b[i])
    BY <1>1, <2>2
  <2>5. /\ Len(b[i]) <= l /\ (i < k - 1 => c \in {3, 4} /\ Len(b[i]) + c <= l)
        /\ \A t \in 1..Len(b[i]) : b[k - 1][t] = b[i][t]
    BY <2>1
  <2>. HIDE DEF c, d, p, l
  <2>6. Len(b[k]) \in Nat /\ Len(b[i]) <= Len(b[k])
    BY <1>1, <2>3, <2>5
  <2>7. i < k => c \in {3, 4} /\ Len(b[i]) + c <= Len(b[k])
    <3>1. CASE k - 1 = i
      BY <1>1, <2>3, <2>4, <3>1
    <3>2. CASE k - 1 # i
      <4>1. i < k - 1
        BY <1>1, <2>2, <3>2
      <4>. QED
        BY <1>1, <2>3, <2>5, <4>1
    <3>. QED
      BY <3>1, <3>2
  <2>8. \A t \in 1..Len(b[i]) : b[k][t] = b[i][t]
    <3>1. \A t \in 1..Len(b[i]) : t \in 1..l
      BY <1>1, <2>3, <2>5
    <3>. QED
      BY <2>3, <2>5, <3>1
  <2>. QED
    BY <2>2, <2>6, <2>7, <2>8
<1>4. \A k \in i..n : k \in T
  <2>. HIDE DEF T
  <2>. QED
    BY <1>1, <1>2, <1>3, UpFrom
<1>5. Good(j)
  <2>. HIDE DEF Good
  <2>. QED
    BY <1>4
<1>. QED
  BY <1>1, <1>5 DEF Grown

(* The four-byte start codes are those of the units.                       *)
LEMMA CodesAre ==
  ASSUME NalUnits, NEW n \in Nat, NEW us, NEW b, Lays(b, us, n), NEW i \in Nat
  PROVE  CodeAt(b[n], i) <=> \E l \in 1..n : us[l].code = 4 /\ i = Len(b[l - 1])
<1>. DEFINE Of(l) == us[l].code = 4 /\ i = Len(b[l - 1])
            T == {m \in 0..n : CodeAt(b[m], i) <=> \E l \in 1..m : Of(l)}
<1>1. 0 \in T
  <2>1. Len(b[0]) = 0
    BY DEF Lays
  <2>2. ~CodeAt(b[0], i)
    BY <2>1 DEF CodeAt
  <2>3. 0 \in 0..n /\ ~\E l \in 1..0 : Of(l)
    OBVIOUS
  <2>. HIDE DEF Of
  <2>. QED
    BY <2>2, <2>3
<1>2. ASSUME NEW m \in 1..n, m - 1 \in T PROVE m \in T
  <2>1. m - 1 \in 0..n /\ m \in 0..n /\ 1..m = (1..m - 1) \cup {m}
    OBVIOUS
  <2>. DEFINE u == us[m]
              x == b[m - 1]
              y == x \o StartCode(u.code)
              z == b[m]
  <2>2. u \in Unit /\ x \in Seq(Nat) /\ Adds(z, y, x, u)
    BY <2>1 DEF Lays
  <2>3. x = <<>> \/ x[Len(x)] # 0
    <3>1. CASE m = 1
      BY <3>1 DEF Lays
    <3>2. CASE m # 1
      <4>1. m - 1 \in 1..n
        BY <3>2
      <4>. QED
        BY <4>1, UnitOf
    <3>. QED
      BY <3>1, <3>2
  <2>4. CodeAt(z, i) <=> CodeAt(x, i) \/ (u.code = 4 /\ i = Len(x))
    <3>. HIDE DEF u, x, y, z
    <3>. QED
      BY <2>2, <2>3, CodeInUnit
  <2>5. CodeAt(x, i) <=> \E l \in 1..m - 1 : Of(l)
    BY <1>2
  <2>6. u.code = 4 /\ i = Len(x) <=> Of(m)
    OBVIOUS
  <2>7. CodeAt(z, i) <=> \E l \in 1..m : Of(l)
    <3>. HIDE DEF Of, u, x, z
    <3>. QED
      BY <2>1, <2>4, <2>5, <2>6
  <2>. HIDE DEF Of
  <2>. QED
    BY <2>1, <2>7
<1>3. \A m \in 0..n : m \in T
  <2>. HIDE DEF T
  <2>. QED
    BY <1>1, <1>2, Upward
<1>4. n \in 0..n
  OBVIOUS
<1>. QED
  BY <1>3, <1>4

(* From i on, with k units before it: the search passes units that are led  *)
(* by three bytes, up to one that is led by four, or to the end.           *)
Follows(b, n, k, i) == \A l \in 1..n : k < l <=> i <= Len(b[l - 1])
Joint(us, k, m) == \A l \in k + 1..m : us[l].code = 3
Passes(b, us, n, k, m, at) ==
  /\ Joint(us, k, m)
  /\ at < Limit => m < n /\ us[m + 1].code = 4 /\ at = Len(b[m])
  /\ ~(at < Limit) => m = n

LEMMA FirstCode ==
  ASSUME NalUnits, NEW n \in Nat, NEW us, NEW b, Lays(b, us, n), packet = b[n], Total >= 3,
         NEW i \in 0..Total, NEW k \in 0..n, Follows(b, n, k, i)
  PROVE  \E m \in k..n : Passes(b, us, n, k, m, Scan(i))
<1>. DEFINE s == Scan(i)
<1>1. Total = Len(b[n]) /\ Total \in Nat /\ Limit = Total - 3
  <2>1. b[n] \in Seq(Nat)
    BY DEF Lays
  <2>. QED
    BY <2>1 DEF Total, Limit
<1>2. /\ s \in i..Total /\ (s < Limit => s + 4 <= Total /\ IsStartCode(s))
      /\ \A j \in i..s - 1 : ~Stops(j)
  BY <1>1, ScanStops
<1>. HIDE DEF s
<1>3. ASSUME NEW j \in Nat PROVE IsStartCode(j) <=> CodeAt(b[n], j)
  <2>1. j \in j..j + 2 /\ j + 1 \in j..j + 2 /\ j + 2 \in j..j + 2
    OBVIOUS
  <2>2. \A t \in j..j + 2 : t = j \/ t = j + 1 \/ t = j + 2
    OBVIOUS
  <2>3. j + 1 + 1 = j + 2 /\ j + 2 + 1 = j + 3 /\ j + 3 + 1 = j + 4
    OBVIOUS
  <2>4. (\A t \in j..j + 2 : ByteAt(t) = 0)
          <=> ByteAt(j) = 0 /\ ByteAt(j + 1) = 0 /\ ByteAt(j + 2) = 0
    BY <2>1, <2>2
  <2>5. /\ ByteAt(j) = b[n][j + 1] /\ ByteAt(j + 1) = b[n][j + 2]
        /\ ByteAt(j + 2) = b[n][j + 3] /\ ByteAt(j + 3) = b[n][j + 4]
    BY <2>3 DEF ByteAt
  <2>6. j + 3 < Total <=> j + 4 <= Len(b[n])
    BY <1>1
  <2>. QED
    BY <2>4, <2>5, <2>6 DEF IsStartCode, CodeAt
<1>4. ASSUME NEW l \in k + 1..n, us[l].code = 4
      PROVE  Len(b[l - 1]) \in Nat /\ i <= Len(b[l - 1]) /\ ~(Len(b[l - 1]) < s)
             /\ Len(b[l - 1]) + 4 <= Total
  <2>1. l \in 1..n /\ k < l /\ l - 1 \in 0..n
    OBVIOUS
  <2>2. Len(b[l - 1]) \in Nat
    BY <2>1, UnitOf
  <2>3. i <= Len(b[l - 1])
    BY <2>1 DEF Follows
  <2>4. CodeAt(b[n], Len(b[l - 1]))
    BY <1>4, <2>1, <2>2, CodesAre
  <2>5. Stops(Len(b[l - 1]))
    BY <1>3, <2>2, <2>4 DEF Stops
  <2>. DEFINE e == Len(b[l - 1])
  <2>6. e + 4 <= Total
    BY <1>1, <2>4 DEF CodeAt
  <2>. HIDE DEF e
  <2>7. e < s => e \in i..s - 1
    BY <1>1, <1>2, <2>2, <2>3 DEF e
  <2>. QED
    BY <1>2, <2>2, <2>3, <2>5, <2>6, <2>7 DEF e
<1>5. ASSUME NEW l \in k + 1..n PROVE us[l].code = 3 \/ us[l].code = 4
  <2>1. l \in 1..n
    OBVIOUS
  <2>. QED
    BY <2>1, UnitOf
<1>6. CASE s < Limit
  <2>1. s \in Nat /\ CodeAt(b[n], s)
    BY <1>1, <1>2, <1>3, <1>6
  <2>2. PICK l \in 1..n : us[l].code = 4 /\ s = Len(b[l - 1])
    BY <2>1, CodesAre
  <2>. DEFINE m == l - 1
  <2>3. k < l
    BY <1>1, <1>2, <2>2 DEF Follows
  <2>4. m \in k..n /\ m < n /\ m + 1 = l /\ m \in 0..n
    BY <2>3
  <2>5. ASSUME NEW v \in k + 1..m, us[v].code = 4 PROVE FALSE
    <3>1. v \in k + 1..n /\ v - 1 \in 0..n /\ m \in v - 1..n /\ v - 1 < m /\ v - 1 + 1 = v
      BY <2>4
    <3>2. Len(b[v - 1]) + us[v - 1 + 1].code <= Len(b[m])
      <4>1. Grown(b, us, v - 1, m)
        BY <3>1, Grows
      <4>. QED
        BY <3>1, <4>1 DEF Grown
    <3>3. Len(b[v - 1]) + 4 <= s
      BY <2>2, <2>5, <3>1, <3>2
    <3>4. Len(b[v - 1]) \in Nat /\ ~(Len(b[v - 1]) < s)
      BY <1>4, <2>5, <3>1
    <3>. QED
      BY <2>1, <3>3, <3>4
  <2>6. \A v \in k + 1..m : us[v].code = 3
    <3>1. \A v \in k + 1..m : v \in k + 1..n
      BY <2>4
    <3>. HIDE DEF m
    <3>. QED
      BY <1>5, <2>5, <3>1
  <2>7. us[m + 1].code = 4 /\ s = Len(b[m])
    BY <2>2, <2>4
  <2>. HIDE DEF m
  <2>8. Passes(b, us, n, k, m, s)
    BY <1>6, <2>4, <2>6, <2>7 DEF Passes, Joint
  <2>. QED
    BY <2>4, <2>8 DEF s
<1>7. CASE ~(s < Limit)
  <2>1. ASSUME NEW v \in k + 1..n, us[v].code = 4 PROVE FALSE
    <3>. DEFINE e == Len(b[v - 1])
    <3>1. e \in Nat /\ ~(e < s) /\ e + 4 <= Total
      BY <1>4, <2>1
    <3>. HIDE DEF e
    <3>. QED
      BY <1>1, <1>2, <1>7, <3>1
  <2>2. \A v \in k + 1..n : us[v].code = 3
    BY <1>5, <2>1
  <2>3. n \in k..n
    OBVIOUS
  <2>4. Passes(b, us, n, k, n, s)
    BY <1>7, <2>2 DEF Passes, Joint
  <2>. QED
    BY <2>3, <2>4 DEF s
<1>. QED
  BY <1>6, <1>7

-----------------------------------------------------------------------------
(* The reference, unit by unit.                                            *)
Splits(J, us, n) ==
  /\ J \in [0..n -> Seq(Seq(Nat))] /\ J[0] = <<>>
  /\ \A i \in 1..n : J[i] = Join(J[i - 1], us[i])

LEMMA JoinIs ==
  ASSUME NalUnits, NEW u \in Unit, NEW ns \in Seq(Seq(Nat)), NEW N \in Seq(Nat)
  PROVE  /\ StartCode(3) \in Seq(Nat) /\ u.payload \in Seq(Nat)
         /\ u.code = 4 => Join(ns, u) = Append(ns, u.payload)
         /\ u.code = 3 => Join(<<>>, u) = <<>>
         /\ u.code = 3 => Join(Append(ns, N), u) = Append(ns, N \o StartCode(3) \o u.payload)
<1>1. u.code \in {3, 4} /\ u.payload \in Payloads
  BY DEF Unit
<1>2. u.payload \in Seq(Nat)
  BY <1>1 DEF NalUnits
<1>3. StartCode(3) \in Seq(Nat)
  BY DEF StartCode
<1>4. u.code = 4 => Join(ns, u) = Append(ns, u.payload)
  BY DEF Join
<1>5. u.code = 3 => Join(<<>>, u) = <<>>
  BY DEF Join
<1>6. ASSUME u.code = 3
      PROVE  Join(Append(ns, N), u) = Append(ns, N \o StartCode(3) \o u.payload)
  <2>. DEFINE x == N \o StartCode(3) \o u.payload
              t == Append(ns, N)
  <2>1. t # <<>> /\ Front(t) = ns /\ Last(t) = N
    <3>. DEFINE n == Len(ns)
                f == SubSeq(t, 1, n)
    <3>1. /\ n \in Nat /\ t # <<>> /\ Len(t) = n + 1 /\ t[n + 1] = N
          /\ \A i \in 1..n : t[i] = ns[i]
      <4>. DEFINE S == Seq(Nat)
      <4>1. ns \in Seq(S) /\ N \in S
        OBVIOUS
      <4>. HIDE DEF S
      <4>. QED
        BY <4>1, AppendProperties
    <3>. HIDE DEF t
    <3>2. Front(t) = f /\ Last(t) = N
      BY <3>1 DEF Front, Last
    <3>3. 1 \in Int /\ n \in Int /\ \A i \in 1..n : t[i] \in Seq(Nat)
      <4>1. \A i \in 1..n : ns[i] \in Seq(Nat)
        OBVIOUS
      <4>. HIDE DEF n
      <4>. QED
        BY <3>1, <4>1
    <3>4. /\ f \in Seq(Seq(Nat)) /\ Len(f) = IF 1 <= n THEN n - 1 + 1 ELSE 0
          /\ \A i \in 1..n - 1 + 1 : f[i] = t[1 + i - 1]
      <4>. HIDE DEF n
      <4>. QED
        BY <3>3, SubSeqProperties
    <3>5. Len(f) = n /\ \A i \in 1..n : f[i] = ns[i]
      <4>1. \A i \in 1..n : 1 + i - 1 = i /\ n - 1 + 1 = n
        BY <3>1
      <4>. HIDE DEF f
      <4>. QED
        BY <3>1, <3>4, <4>1
    <3>. HIDE DEF f
    <3>6. f = ns
      BY <3>4, <3>5, SeqEqual DEF n
    <3>. QED
      BY <3>1, <3>2, <3>6
  <2>2. x \in Seq(Nat)
    BY <1>2, <1>3
  <2>. HIDE DEF t
  <2>3. Join(t, u) = Front(t) \o <<Last(t) \o StartCode(3) \o u.payload>>
    BY <1>6, <2>1 DEF Join
  <2>4. Join(t, u) = ns \o <<x>>
    BY <2>1, <2>3
  <2>. HIDE DEF x
  <2>5. ns \o <<x>> = Append(ns, x)
    BY <2>2
  <2>. QED
    BY <2>4, <2>5 DEF t, x
<1>. QED
  BY <1>2, <1>3, <1>4, <1>5, <1>6

LEMMA SplitsIs ==
  ASSUME NalUnits, NEW n \in Nat, NEW us \in [1..n -> Unit]
  PROVE  \E J : Splits(J, us, n) /\ Nals(us) = J[n]
<1>. DEFINE S == Seq(Seq(Nat))
            step == [x \in (1..n) \X S |-> Join(x[2], us[x[1]])]
            body(f, i) == IF i = 0 THEN <<>> ELSE Join(f[i - 1], us[i])
            makes(f) == f = [i \in 0..n |-> body(f, i)]
            J == CHOOSE f : makes(f)
<1>1. Len(us) = n /\ <<>> \in S
  OBVIOUS
<1>2. ASSUME NEW ns \in S, NEW u \in Unit PROVE Join(ns, u) \in S
  <2>1. u.code \in {3, 4}
    BY DEF Unit
  <2>2. CASE u.code = 4
    <3>1. Join(ns, u) = Append(ns, u.payload) /\ u.payload \in Seq(Nat)
      BY <2>2, <1>1, JoinIs, EmptySeq
    <3>. QED
      BY <3>1
  <2>3. CASE u.code = 3 /\ ns = <<>>
    BY <1>1, <2>3 DEF Join
  <2>4. CASE u.code = 3 /\ ns # <<>>
    <3>. DEFINE f == Front(ns)
                l == Last(ns)
    <3>1. f \in S /\ l \in Seq(Nat) /\ ns = Append(f, l)
      BY <2>4 DEF Front, Last
    <3>2. l \o StartCode(3) \o u.payload \in Seq(Nat)
      <4>1. StartCode(3) \in Seq(Nat) /\ u.payload \in Seq(Nat)
        BY <3>1, JoinIs
      <4>. HIDE DEF l
      <4>. QED
        BY <3>1, <4>1
    <3>. HIDE DEF f, l
    <3>3. Join(Append(f, l), u) = Append(f, l \o StartCode(3) \o u.payload)
      BY <2>4, <3>1, JoinIs
    <3>. QED
      BY <3>1, <3>2, <3>3
  <2>. QED
    BY <2>1, <2>2, <2>3, <2>4
<1>. HIDE DEF S
<1>3. step \in [(1..n) \X S -> S]
  BY <1>2
<1>4. PICK f \in [0..n -> S] : Steps(f, n, <<>>, step)
  <2>. HIDE DEF step
  <2>. QED
    BY <1>1, <1>3, StepByStep
<1>5. \A i \in 0..n : f[i] = body(f, i)
  <2>1. \A i \in 0..n : f[i] = IF i = 0 THEN <<>> ELSE step[<<i, f[i - 1]>>]
    <3>. HIDE DEF step
    <3>. QED
      BY <1>4 DEF Steps
  <2>2. ASSUME NEW i \in 0..n, i # 0 PROVE step[<<i, f[i - 1]>>] = Join(f[i - 1], us[i])
    <3>1. i \in 1..n /\ f[i - 1] \in S
      BY <2>2
    <3>. QED
      BY <3>1
  <2>. HIDE DEF step
  <2>. QED
    BY <2>1, <2>2
<1>6. makes(f)
  <2>. HIDE DEF body
  <2>. QED
    BY <1>4, <1>5
<1>7. makes(J)
  <2>. HIDE DEF makes
  <2>. QED
    BY <1>6
<1>8. Nals(us) = J[n]
  BY <1>1 DEF Nals
<1>. HIDE DEF J
<1>9. \A i \in 0..n : J[i] = body(J, i)
  <2>. HIDE DEF body
  <2>. QED
    BY <1>7
<1>10. J[0] = <<>> /\ \A i \in 1..n : J[i] = Join(J[i - 1], us[i])
  BY <1>9
<1>. DEFINE T == {i \in 0..n : J[i] \in S}
<1>11. \A i \in 0..n : i \in T
  <2>1. 0 \in T
    BY <1>1, <1>10
  <2>2. ASSUME NEW i \in 1..n, i - 1 \in T PROVE i \in T
    <3>1. J[i - 1] \in S /\ us[i] \in Unit /\ i \in 0..n
      BY <2>2
    <3>. QED
      BY <1>2, <1>10, <3>1
  <2>. HIDE DEF T
  <2>. QED
    BY <2>1, <2>2, Upward
<1>12. J \in [0..n -> S]
  <2>1. J = [i \in 0..n |-> J[i]]
    BY <1>7, <1>9
  <2>. QED
    BY <1>11, <2>1
<1>. QED
  BY <1>8, <1>10, <1>12 DEF Splits, S

(* What the reference has emitted.                                         *)
Out == ({"keyFrame", "interFrame"} \X Seq(Nat)) \cup ({"videoConfig"} \X Seq(Nat) \X Seq(Nat))
EmitState == [out : Seq(Out), sps : Seq(Nat), set : BOOLEAN]
Emits(E, ns, ok) ==
  /\ E \in [0..Len(ns) -> EmitState] /\ E[0] = [out |-> <<>>, sps |-> <<>>, set |-> ok]
  /\ \A i \in 1..Len(ns) : E[i] = Emit(E[i - 1], ns[i])

LEMMA EmitIs ==
  ASSUME NEW s \in EmitState, NEW N \in Seq(Nat)
  PROVE  Emit(s, N) \in EmitState
<1>1. /\ s.out \in Seq(Out) /\ s.sps \in Seq(Nat) /\ s.set \in BOOLEAN
      /\ s = [out |-> s.out, sps |-> s.sps, set |-> s.set]
  BY DEF EmitState
<1>2. /\ <<"videoConfig", s.sps, N>> \in Out
      /\ <<"keyFrame", N>> \in Out /\ <<"interFrame", N>> \in Out
  BY <1>1 DEF Out
<1>3. ASSUME NEW e \in Out PROVE Append(s.out, e) \in Seq(Out)
  BY <1>1
<1>4. s.sps # <<>> => Emit(s, N) \in EmitState
  <2>1. s.sps # <<>> =>
          Emit(s, N) = [out |-> Append(s.out, <<"videoConfig", s.sps, N>>), sps |-> <<>>,
                        set |-> TRUE]
    BY <1>1 DEF Emit
  <2>2. <<>> \in Seq(Nat) /\ TRUE \in BOOLEAN
    OBVIOUS
  <2>3. Append(s.out, <<"videoConfig", s.sps, N>>) \in Seq(Out)
    BY <1>2, <1>3
  <2>. DEFINE e == Append(s.out, <<"videoConfig", s.sps, N>>)
  <2>. HIDE DEF e
  <2>4. [out |-> e, sps |-> <<>>, set |-> TRUE] \in EmitState
    BY <2>2, <2>3 DEF EmitState, e
  <2>. QED
    BY <2>1, <2>4 DEF e
<1>5. ASSUME s.sps = <<>> PROVE Emit(s, N) \in EmitState
  <2>1. \/ Emit(s, N) = s
        \/ Emit(s, N) = [s EXCEPT !.sps = N]
        \/ Emit(s, N) = [s EXCEPT !.out = Append(@, <<"keyFrame", N>>)]
        \/ Emit(s, N) = [s EXCEPT !.out = Append(@, <<"interFrame", N>>)]
    BY <1>5 DEF Emit
  <2>2. [s EXCEPT !.sps = N] \in EmitState
    BY DEF EmitState
  <2>3. ASSUME NEW e \in Out PROVE [s EXCEPT !.out = Append(@, e)] \in EmitState
    BY <1>3 DEF EmitState
  <2>. QED
    BY <1>2, <2>1, <2>2, <2>3
<1>. QED
  BY <1>4, <1>5

LEMMA EmitsIs ==
  ASSUME NEW ns \in Seq(Seq(Nat)), NEW ok \in BOOLEAN
  PROVE  \E E : Emits(E, ns, ok) /\ Emitted(ns, ok) = E[Len(ns)]
<1>. DEFINE n == Len(ns)
            base == [out |-> <<>>, sps |-> <<>>, set |-> ok]
            step == [x \in (1..n) \X EmitState |-> Emit(x[2], ns[x[1]])]
            body(f, i) == IF i = 0 THEN base ELSE Emit(f[i - 1], ns[i])
            makes(f) == f = [i \in 0..n |-> body(f, i)]
            E == CHOOSE f : makes(f)
<1>1. n \in Nat /\ \A i \in 1..n : ns[i] \in Seq(Nat)
  OBVIOUS
<1>2. base \in EmitState
  <2>1. <<>> \in Seq(Out) /\ <<>> \in Seq(Nat)
    OBVIOUS
  <2>. QED
    BY <2>1 DEF EmitState
<1>3. E[n] = Emitted(ns, ok)
  BY DEF Emitted
<1>. HIDE DEF n, base
<1>4. step \in [(1..n) \X EmitState -> EmitState]
  BY <1>1, EmitIs
<1>5. PICK f \in [0..n -> EmitState] : Steps(f, n, base, step)
  <2>. HIDE DEF step
  <2>. QED
    BY <1>1, <1>2, <1>4, StepByStep
<1>6. \A i \in 0..n : f[i] = body(f, i)
  <2>1. \A i \in 0..n : f[i] = IF i = 0 THEN base ELSE step[<<i, f[i - 1]>>]
    <3>. HIDE DEF step
    <3>. QED
      BY <1>5 DEF Steps
  <2>2. ASSUME NEW i \in 0..n, i # 0 PROVE step[<<i, f[i - 1]>>] = Emit(f[i - 1], ns[i])
    <3>1. i \in 1..n /\ f[i - 1] \in EmitState
      BY <1>1, <2>2
    <3>. QED
      BY <3>1
  <2>. HIDE DEF step
  <2>. QED
    BY <2>1, <2>2
<1>7. makes(f)
  <2>. HIDE DEF body
  <2>. QED
    BY <1>5, <1>6
<1>8. makes(E)
  <2>. HIDE DEF makes
  <2>. QED
    BY <1>7
<1>. HIDE DEF E
<1>9. \A i \in 0..n : E[i] = body(E, i)
  <2>. HIDE DEF body
  <2>. QED
    BY <1>8
<1>10. E[0] = base /\ \A i \in 1..n : E[i] = Emit(E[i - 1], ns[i])
  BY <1>1, <1>9
<1>. DEFINE T == {i \in 0..n : E[i] \in EmitState}
<1>11. \A i \in 0..n : i \in T
  <2>1. 0 \in T
    BY <1>1, <1>2, <1>10
  <2>2. ASSUME NEW i \in 1..n, i - 1 \in T PROVE i \in T
    <3>1. E[i - 1] \in EmitState /\ ns[i] \in Seq(Nat) /\ i \in 0..n
      BY <1>1, <2>2
    <3>. QED
      BY <1>10, <3>1, EmitIs
  <2>. HIDE DEF T
  <2>. QED
    BY <1>1, <2>1, <2>2, Upward
<1>12. E \in [0..n -> EmitState]
  <2>1. E = [i \in 0..n |-> E[i]]
    BY <1>8, <1>9
  <2>. QED
    BY <1>11, <2>1
<1>. QED
  BY <1>3, <1>10, <1>12 DEF Emits, n, base

(* One NAL unit more.                                                      *)
LEMMA EmittedIs ==
  ASSUME NEW ns \in Seq(Seq(Nat)), NEW ok \in BOOLEAN, NEW N \in Seq(Nat)
  PROVE  /\ Emitted(<<>>, ok) = [out |-> <<>>, sps |-> <<>>, set |-> ok]
         /\ Emitted(ns, ok) \in EmitState
         /\ Emitted(Append(ns, N), ok) = Emit(Emitted(ns, ok), N)
<1>1. Emitted(<<>>, ok) = [out |-> <<>>, sps |-> <<>>, set |-> ok]
  <2>1. <<>> \in Seq(Seq(Nat)) /\ Len(<<>>) = 0
    OBVIOUS
  <2>2. PICK E : Emits(E, <<>>, ok) /\ Emitted(<<>>, ok) = E[Len(<<>>)]
    BY <2>1, EmitsIs
  <2>. QED
    BY <2>1, <2>2 DEF Emits
<1>. DEFINE n == Len(ns)
            t == Append(ns, N)
<1>2. /\ n \in Nat /\ t \in Seq(Seq(Nat)) /\ Len(t) = n + 1 /\ t[n + 1] = N
      /\ \A i \in 1..n : t[i] = ns[i]
  OBVIOUS
<1>3. PICK E : Emits(E, ns, ok) /\ Emitted(ns, ok) = E[Len(ns)]
  BY EmitsIs
<1>4. PICK G : Emits(G, t, ok) /\ Emitted(t, ok) = G[Len(t)]
  <2>. HIDE DEF t
  <2>. QED
    BY <1>2, EmitsIs
<1>5. /\ E \in [0..n -> EmitState] /\ E[0] = [out |-> <<>>, sps |-> <<>>, set |-> ok]
      /\ \A i \in 1..n : E[i] = Emit(E[i - 1], ns[i])
  BY <1>3 DEF Emits
<1>. HIDE DEF t
<1>6. /\ G[0] = [out |-> <<>>, sps |-> <<>>, set |-> ok]
      /\ \A i \in 1..n + 1 : G[i] = Emit(G[i - 1], t[i])
  BY <1>2, <1>4 DEF Emits
<1>. DEFINE T == {i \in 0..n : G[i] = E[i]}
<1>. HIDE DEF n
<1>7. \A i \in 0..n : i \in T
  <2>1. 0 \in T
    BY <1>2, <1>5, <1>6
  <2>2. ASSUME NEW i \in 1..n, i - 1 \in T PROVE i \in T
    <3>1. i \in 1..n + 1 /\ i \in 0..n /\ G[i - 1] = E[i - 1]
      BY <1>2, <2>2
    <3>. QED
      BY <1>2, <1>5, <1>6, <3>1
  <2>. HIDE DEF T
  <2>. QED
    BY <1>2, <2>1, <2>2, Upward
<1>8. n \in 0..n /\ n + 1 \in 1..n + 1 /\ n + 1 - 1 = n
  BY <1>2
<1>9. G[n + 1] = Emit(E[n], N)
  <2>1. G[n] = E[n]
    BY <1>7, <1>8
  <2>2. G[n + 1] = Emit(G[n + 1 - 1], t[n + 1])
    BY <1>6, <1>8
  <2>. QED
    BY <1>2, <1>8, <2>1, <2>2
<1>10. E[n] \in EmitState
  BY <1>5, <1>8
<1>. QED
  BY <1>1, <1>2, <1>3, <1>4, <1>9, <1>10 DEF n, t

(* A unit led by three bytes belongs to the NAL unit before it.            *)
LEMMA RunEmpty ==
  ASSUME NalUnits, NEW n \in Nat, NEW us \in [1..n -> Unit], NEW J, Splits(J, us, n),
         NEW k \in 0..n, NEW m \in k..n, Joint(us, k, m), J[k] = <<>>
  PROVE  J[m] = <<>>
<1>. DEFINE T == {l \in k..m : J[l] = <<>>}
<1>1. k \in T
  OBVIOUS
<1>2. ASSUME NEW l \in k + 1..m, l - 1 \in T PROVE l \in T
  <2>1. l \in 1..n /\ l \in k..m /\ J[l - 1] = <<>> /\ us[l].code = 3
    BY <1>2 DEF Joint
  <2>2. J[l] = Join(J[l - 1], us[l])
    BY <2>1 DEF Splits
  <2>3. Join(<<>>, us[l]) = <<>>
    BY <2>1 DEF Join
  <2>. QED
    BY <2>1, <2>2, <2>3
<1>3. \A l \in k..m : l \in T
  <2>1. k \in Nat /\ m \in Nat
    OBVIOUS
  <2>. HIDE DEF T
  <2>. QED
    BY <1>1, <1>2, <2>1, UpFrom
<1>. QED
  BY <1>3

(* Three sequences make one, whichever two are joined first.               *)
Associate(x, y, z) == (x \o y) \o z = x \o (y \o z)

LEMMA NatsAssociate ==
  ASSUME NEW x \in Seq(Nat), NEW y \in Seq(Nat), NEW z \in Seq(Nat)
  PROVE  Associate(x, y, z)
<1>1. \A S : \A s, t, u \in Seq(S) : (s \o t) \o u = s \o (t \o u)
  BY ConcatAssociative, Zenon
<1>2. \A S : \A s, t, u \in Seq(S) : Associate(s, t, u)
  BY <1>1, Zenon DEF Associate
<1>. QED
  BY <1>2, Zenon

(* The NAL unit that ends the bytes is the last of the reference.          *)
Ends(bytes, N, pre, ns) == \E M \in Seq(Nat) : Joins(bytes, pre, M) /\ N = Append(ns, M)

LEMMA RunJoins ==
  ASSUME NalUnits, NEW n \in Nat, NEW us, NEW b, NEW J, Lays(b, us, n), Splits(J, us, n),
         NEW k \in 0..n, NEW m \in k..n, Joint(us, k, m),
         NEW ns \in Seq(Seq(Nat)), NEW pre \in Seq(Nat), NEW N \in Seq(Nat),
         Joins(b[k], pre, N), J[k] = Append(ns, N)
  PROVE  Ends(b[m], J[m], pre, ns)
<1>. DEFINE T == {l \in k..m : Ends(b[l], J[l], pre, ns)}
<1>1. k \in T
  BY DEF Ends
<1>2. ASSUME NEW l \in k + 1..m, l - 1 \in T PROVE l \in T
  <2>1. l \in 1..n /\ l \in k..m /\ us[l].code = 3
    BY DEF Joint
  <2>2. PICK M \in Seq(Nat) : Joins(b[l - 1], pre, M) /\ J[l - 1] = Append(ns, M)
    BY <1>2 DEF Ends
  <2>. DEFINE u == us[l]
              c == StartCode(3)
              p == u.payload
              q == M \o c \o p
  <2>3. u \in Unit /\ u.code = 3
    BY <2>1 DEF Lays
  <2>4. /\ c \in Seq(Nat) /\ p \in Seq(Nat) /\ Join(Append(ns, M), u) = Append(ns, q)
    <3>. HIDE DEF u
    <3>. QED
      BY <2>3, JoinIs
  <2>5. J[l] = Append(ns, q)
    BY <2>1, <2>2, <2>4 DEF Splits
  <2>6. b[l] = b[l - 1] \o c \o p /\ b[l - 1] = pre \o M
    BY <2>1, <2>2, <2>3 DEF Lays, Adds, Joins
  <2>. HIDE DEF c, p
  <2>7. q \in Seq(Nat) /\ M \o c \in Seq(Nat)
    BY <2>4
  <2>8. Associate(pre, M, c)
    <3>1. pre \in Seq(Nat) /\ M \in Seq(Nat) /\ c \in Seq(Nat)
      BY <2>4
    <3>. QED
      BY <3>1, NatsAssociate, Zenon
  <2>9. Associate(pre, M \o c, p)
    <3>1. pre \in Seq(Nat) /\ M \o c \in Seq(Nat) /\ p \in Seq(Nat)
      BY <2>4, <2>7
    <3>. QED
      BY <3>1, NatsAssociate, Zenon
  <2>10. b[l] = pre \o q
    BY <2>6, <2>8, <2>9 DEF Associate
  <2>. HIDE DEF q
  <2>11. Joins(b[l], pre, q)
    BY <2>10 DEF Joins
  <2>12. Ends(b[l], J[l], pre, ns)
    BY <2>5, <2>7, <2>11 DEF Ends
  <2>. QED
    BY <2>1, <2>12
<1>3. \A l \in k..m : l \in T
  <2>1. k \in Nat /\ m \in Nat
    OBVIOUS
  <2>. HIDE DEF T
  <2>. QED
    BY <1>1, <1>2, <2>1, UpFrom
<1>. QED
  BY <1>3

(* The walk: k units are behind buf_offset, and a NAL unit ends there.     *)
Walks(n, b, J, k) ==
  /\ n \in Nat /\ Lays(b, units, n) /\ Splits(J, units, n)
  /\ packet = b[n] /\ Nals(units) = J[n]
  /\ k \in 0..n /\ buf_offset = Len(b[k])
  /\ k = 0 \/ k = n \/ units[k + 1].code = 4

LEMMA Behind ==
  ASSUME NalUnits, NEW n \in Nat, NEW us, NEW b, Lays(b, us, n), NEW k \in 0..n, NEW l \in 1..n
  PROVE  k < l <=> Len(b[k]) <= Len(b[l - 1])
<1>1. CASE k < l
  <2>1. l - 1 \in 0..n /\ l - 1 \in k..n
    BY <1>1
  <2>2. Len(b[k]) <= Len(b[l - 1])
    <3>1. Grown(b, us, k, l - 1)
      BY <2>1, Grows
    <3>. QED
      BY <2>1, <3>1 DEF Grown
  <2>. QED
    BY <1>1, <2>2
<1>2. CASE ~(k < l)
  <2>. DEFINE i == l - 1
  <2>1. i \in 0..n /\ k \in i..n /\ i < k
    BY <1>2
  <2>. HIDE DEF i
  <2>2. /\ Len(b[i]) \in Nat /\ Len(b[k]) \in Nat
        /\ us[i + 1].code \in {3, 4} /\ Len(b[i]) + us[i + 1].code <= Len(b[k])
    <3>1. Grown(b, us, i, k)
      BY <2>1, Grows
    <3>. QED
      BY <2>1, <3>1 DEF Grown
  <2>3. ~(Len(b[k]) <= Len(b[i]))
    BY <2>2
  <2>. QED
    BY <1>2, <2>3 DEF i
<1>. QED
  BY <1>1, <1>2

(* What the search from buf_offset finds.                                  *)
LEMMA SearchFinds ==
  ASSUME NalUnits, NEW n, NEW b, NEW J, NEW k, Walks(n, b, J, k), Total >= 3
  PROVE  \E m \in k..n :
           /\ J[m] = J[k] /\ J[m] \in Seq(Seq(Nat))
           /\ ~NoNal => m < n /\ units[m + 1].code = 4 /\ Scan(buf_offset) = Len(b[m])
           /\ NoNal => m = n
<1>1. /\ n \in Nat /\ Lays(b, units, n) /\ Splits(J, units, n)
      /\ packet = b[n] /\ k \in 0..n /\ buf_offset = Len(b[k])
      /\ k = 0 \/ k = n \/ units[k + 1].code = 4
  BY DEF Walks
<1>2. Total = Len(b[n]) /\ Total \in Nat /\ Limit = Total - 3
  <2>1. b[n] \in Seq(Nat)
    BY <1>1 DEF Lays
  <2>. QED
    BY <1>1, <2>1 DEF Total, Limit
<1>3. buf_offset \in 0..Total
  <2>1. n \in k..n
    BY <1>1
  <2>. QED
    <3>1. Grown(b, units, k, n)
      BY <1>1, <1>2, <2>1, Grows
    <3>. QED
      BY <1>1, <1>2, <2>1, <3>1 DEF Grown
<1>4. Follows(b, n, k, buf_offset)
  BY <1>1, Behind DEF Follows
<1>5. PICK m \in k..n : Passes(b, units, n, k, m, Scan(buf_offset))
  BY <1>1, <1>3, <1>4, FirstCode
<1>6. NoNal <=> ~(Scan(buf_offset) < Limit)
  <2>1. Scan(buf_offset) \in buf_offset..Total
    BY <1>2, <1>3, ScanStops
  <2>. QED
    BY <1>2, <1>3, <2>1 DEF NoNal
<1>7. J[m] = J[k]
  <2>1. CASE k = 0
    <3>1. J[0] = <<>> /\ units \in [1..n -> Unit]
      BY <1>1 DEF Splits, Lays
    <3>2. J[m] = <<>>
      <4>1. Joint(units, k, m) /\ J[k] = <<>>
        BY <1>5, <2>1, <3>1 DEF Passes
      <4>. QED
        BY <1>1, <3>1, <4>1, RunEmpty
    <3>. QED
      BY <2>1, <3>1, <3>2
  <2>2. CASE k # 0 /\ m = k
    BY <2>2
  <2>3. CASE k # 0 /\ m # k
    <3>1. k + 1 \in k + 1..m /\ k # n
      BY <1>1, <2>3
    <3>2. units[k + 1].code = 3 /\ units[k + 1].code = 4
      BY <1>1, <1>5, <2>3, <3>1 DEF Passes, Joint
    <3>. QED
      BY <3>2
  <2>. QED
    BY <2>1, <2>2, <2>3
<1>8. J[m] \in Seq(Seq(Nat))
  <2>1. m \in 0..n
    BY <1>1
  <2>. QED
    BY <1>1, <2>1 DEF Splits
<1>. QED
  BY <1>5, <1>6, <1>7, <1>8 DEF Passes

(* The next NAL unit: all of the packet up to the next four-byte start code *)
(* of a unit is one of the reference.                                      *)
FirstByte(N) == IF N = <<>> THEN 0 ELSE N[1]
Found(n, b, J, k, v) ==
  /\ End(NalFound) = Len(b[v]) /\ (v = n \/ units[v + 1].code = 4)
  /\ J[k] \in Seq(Seq(Nat)) /\ NalBytes(NalFound) \in Seq(Nat)
  /\ J[v] = Append(J[k], NalBytes(NalFound))
  /\ NalFound.at < Total => ByteAt(NalFound.at) = FirstByte(NalBytes(NalFound))

LEMMA FindsNal ==
  ASSUME NalUnits, NEW n, NEW b, NEW J, NEW k, Walks(n, b, J, k), Total >= 3, ~NoNal
  PROVE  \E v \in 0..n : Found(n, b, J, k, v)
<1>1. /\ n \in Nat /\ Lays(b, units, n) /\ Splits(J, units, n)
      /\ packet = b[n] /\ k \in 0..n /\ buf_offset = Len(b[k])
  BY DEF Walks
<1>2. Total = Len(b[n]) /\ Total \in Nat /\ Limit = Total - 3 /\ b[n] \in Seq(Nat)
  <2>1. b[n] \in Seq(Nat)
    BY <1>1 DEF Lays
  <2>. QED
    BY <1>1, <2>1 DEF Total, Limit
<1>3. PICK m \in k..n :
        /\ J[m] = J[k] /\ J[m] \in Seq(Seq(Nat))
        /\ m < n /\ units[m + 1].code = 4 /\ Scan(buf_offset) = Len(b[m])
  BY SearchFinds
<1>. DEFINE i == m + 1
            u == units[i]
            c == StartCode(u.code)
            x == b[m]
            y == x \o c
            p == u.payload
            q == Len(y)
<1>4. i \in 1..n /\ i \in 0..n /\ i - 1 = m /\ m \in 0..n /\ n \in i..n /\ i > 0
  BY <1>1, <1>3
<1>5. u \in Unit /\ x \in Seq(Nat) /\ Adds(b[i], y, x, u) /\ u.code = 4
  BY <1>1, <1>3, <1>4 DEF Lays
<1>6. J[i] = Append(J[k], p) /\ p \in Seq(Nat)
  <2>1. J[i] = Join(J[k], u)
    BY <1>1, <1>3, <1>4 DEF Splits
  <2>2. p \in Seq(Nat)
    BY <1>5 DEF Unit, NalUnits
  <2>3. Join(J[k], u) = Append(J[k], p)
    BY <1>5 DEF Join
  <2>. QED
    BY <2>1, <2>2, <2>3
<1>7. /\ y \in Seq(Nat) /\ q = Len(x) + 4 /\ q \in Nat /\ Len(x) \in Nat /\ Joins(b[i], y, p)
      /\ Len(b[i]) = q + Len(p) /\ Len(p) \in Nat
  <2>1. /\ y \in Seq(Nat) /\ Len(x) \in Nat /\ Len(y) = Len(x) + u.code
        /\ Len(b[i]) = Len(y) + Len(p) /\ Len(p) \in Nat
    <3>1. /\ u.code \in {3, 4} /\ u.payload \in Seq(Nat) /\ y \in Seq(Nat) /\ b[i] \in Seq(Nat)
          /\ Len(x) \in Nat /\ Len(u.payload) \in Nat
          /\ Len(y) = Len(x) + u.code /\ Len(b[i]) = Len(y) + Len(u.payload)
          /\ \A t \in 1..Len(x) : b[i][t] = x[t]
          /\ \A t \in Len(x) + 1..Len(y) - 1 : b[i][t] = 0
          /\ b[i][Len(y)] = 1 /\ b[i][Len(b[i])] # 0
          /\ \A t \in 1..Len(u.payload) : b[i][Len(y) + t] = u.payload[t]
      <4>. DEFINE z == b[i]
      <4>. HIDE DEF u, x, y, z
      <4>1. Adds(z, y, x, u)
        BY <1>5 DEF z
      <4>2. Laid(z, y, x, u)
        BY <1>5, <4>1, UnitIs
      <4>. QED
        BY <4>2 DEF z, Laid
    <3>. QED
      BY <3>1
  <2>2. Joins(b[i], y, p)
    BY <1>5 DEF Adds
  <2>. HIDE DEF u, x, y, p
  <2>. QED
    BY <1>5, <2>1, <2>2
<1>. HIDE DEF u, x, y, p, q, i
<1>8. q <= Len(b[i]) /\ Len(b[i]) <= Total /\ q \in 0..Total
  <2>1. Len(b[i]) <= Len(b[n])
    <3>1. Grown(b, units, i, n)
      BY <1>1, <1>4, Grows
    <3>. QED
      BY <1>1, <1>4, <3>1 DEF Grown
  <2>. QED
    BY <1>2, <1>7, <2>1
<1>9. Follows(b, n, i, q)
  <2>. SUFFICES ASSUME NEW l \in 1..n PROVE i < l <=> q <= Len(b[l - 1])
    BY DEF Follows
  <2>1. CASE i < l
    <3>1. Len(b[i]) <= Len(b[l - 1]) /\ Len(b[l - 1]) \in Nat
      BY <1>1, <1>4, <2>1, Behind, UnitOf
    <3>. QED
      BY <1>7, <2>1, <3>1
  <2>2. CASE ~(i < l)
    <3>. DEFINE j == l - 1
    <3>1. j \in 0..n /\ m \in j..n
      BY <1>1, <1>4, <2>2 DEF i
    <3>. HIDE DEF j
    <3>2. Len(b[j]) \in Nat /\ Len(b[j]) <= Len(x)
      <4>1. Grown(b, units, j, m)
        BY <1>1, <3>1, Grows
      <4>. QED
        BY <1>1, <3>1, <4>1 DEF Grown, x
    <3>3. ~(q <= Len(b[j]))
      BY <1>7, <3>2
    <3>. QED
      BY <2>2, <3>3 DEF j
  <2>. QED
    BY <2>1, <2>2
<1>10. PICK v \in i..n : Passes(b, units, n, i, v, Scan(q))
  BY <1>1, <1>4, <1>8, <1>9, FirstCode
<1>11. v \in 0..n /\ v > 0
  BY <1>4, <1>10
<1>12. NalFound = [at |-> q, len |-> Len(b[v]) - q]
  <2>1. NalFound = [at |-> q, len |-> (IF Scan(q) >= Limit THEN Total ELSE Scan(q)) - q]
    <3>1. Scan(buf_offset) + 4 = q
      BY <1>3, <1>7 DEF x
    <3>. QED
      BY <3>1 DEF NalFound
  <2>2. Scan(q) \in q..Total
    BY <1>2, <1>8, ScanStops
  <2>3. (IF Scan(q) >= Limit THEN Total ELSE Scan(q)) = Len(b[v])
    <3>1. Scan(q) >= Limit <=> ~(Scan(q) < Limit)
      BY <1>2, <1>8, <2>2
    <3>. QED
      BY <1>2, <1>10, <3>1 DEF Passes
  <2>. QED
    BY <2>1, <2>3
<1>13. PICK M \in Seq(Nat) : Joins(b[v], y, M) /\ J[v] = Append(J[k], M)
  <2>1. J[k] \in Seq(Seq(Nat)) /\ Joint(units, i, v)
    BY <1>3, <1>10 DEF Passes
  <2>2. Ends(b[v], J[v], y, J[k])
    <3>. DEFINE ns == J[k]
    <3>1. ns \in Seq(Seq(Nat)) /\ J[i] = Append(ns, p)
      BY <1>6, <2>1
    <3>. HIDE DEF ns
    <3>2. Ends(b[v], J[v], y, ns)
      BY <1>1, <1>4, <1>6, <1>7, <1>10, <2>1, <3>1, RunJoins
    <3>. QED
      BY <3>2 DEF ns
  <2>. QED
    BY <2>2 DEF Ends
<1>14. /\ Len(b[v]) = q + Len(M) /\ Len(M) \in Nat
       /\ \A t \in 1..Len(M) : b[v][q + t] = M[t]
  <2>1. /\ b[v] \in Seq(Nat) /\ Len(b[v]) = Len(y) + Len(M) /\ Len(y) \in Nat /\ Len(M) \in Nat
        /\ \A t \in 1..Len(y) : b[v][t] = y[t]
        /\ \A t \in 1..Len(M) : b[v][Len(y) + t] = M[t]
    <3>. DEFINE z == b[v]
    <3>1. Joins(z, y, M) /\ y \in Seq(Nat) /\ M \in Seq(Nat)
      BY <1>7, <1>13
    <3>. HIDE DEF z, q
    <3>2. Parts(z, y, M)
      BY <3>1, Joined
    <3>. QED
      BY <3>2 DEF z, Parts
  <2>. QED
    BY <2>1 DEF q
<1>15. \A t \in 1..Len(M) : packet[q + t] = M[t]
  <2>1. n \in v..n
    BY <1>1, <1>10
  <2>2. \A t \in 1..Len(b[v]) : b[n][t] = b[v][t]
    <3>1. Grown(b, units, v, n)
      BY <1>1, <1>11, <2>1, Grows
    <3>. QED
      BY <3>1 DEF Grown
  <2>3. \A t \in 1..Len(M) : q + t \in 1..Len(b[v])
    BY <1>7, <1>14
  <2>. QED
    BY <1>1, <1>14, <2>2, <2>3
<1>16. NalFound.at = q /\ NalFound.len = Len(M) /\ End(NalFound) = Len(b[v])
  <2>1. NalFound.at = q /\ NalFound.len = Len(b[v]) - q
    BY <1>12
  <2>. QED
    BY <1>7, <1>14, <2>1 DEF End
<1>17. End(NalFound) = q + Len(M) /\ q + Len(M) <= Total
  <2>1. n \in v..n
    BY <1>1, <1>10
  <2>2. Len(b[v]) <= Len(b[n])
    <3>1. Grown(b, units, v, n)
      BY <1>1, <1>11, <2>1, Grows
    <3>. QED
      BY <1>1, <1>11, <2>1, <3>1 DEF Grown
  <2>. QED
    BY <1>2, <1>14, <1>16, <2>2
<1>18. NalBytes(NalFound) = M
  <2>. DEFINE e == q + Len(M)
              S == SubSeq(packet, q + 1, e)
  <2>1. NalBytes(NalFound) = S
    BY <1>16, <1>17 DEF NalBytes
  <2>2. packet \in Seq(Nat) /\ Len(packet) = Total
    BY <1>1, <1>2
  <2>3. e \in Nat /\ e <= Total /\ e - (q + 1) + 1 = Len(M)
    BY <1>7, <1>14, <1>17
  <2>4. S \in Seq(Nat) /\ Len(S) = Len(M) /\ \A t \in 1..Len(M) : S[t] = packet[q + t]
    <3>1. \A t \in q + 1..e : packet[t] \in Nat
      <4>1. \A t \in q + 1..e : t \in 1..Len(packet)
        BY <1>7, <2>2, <2>3
      <4>. QED
        BY <2>2, <4>1
    <3>2. q + 1 \in Int /\ e \in Int
      BY <1>7, <2>3
    <3>. HIDE DEF e
    <3>3. /\ SubSeq(packet, q + 1, e) \in Seq(Nat)
          /\ Len(SubSeq(packet, q + 1, e)) = IF q + 1 <= e THEN e - (q + 1) + 1 ELSE 0
          /\ \A t \in 1..e - (q + 1) + 1 : SubSeq(packet, q + 1, e)[t] = packet[q + 1 + t - 1]
      BY <3>1, <3>2, SubSeqProperties
    <3>4. Len(S) = Len(M)
      BY <1>7, <1>14, <2>3, <3>3
    <3>5. \A t \in 1..Len(M) : q + 1 + t - 1 = q + t
      BY <1>7
    <3>. QED
      BY <2>3, <3>3, <3>4, <3>5
  <2>. HIDE DEF S
  <2>5. S = M
    BY <1>15, <2>4, SeqEqual
  <2>. QED
    BY <2>1, <2>5
<1>19. ASSUME q < Total PROVE ByteAt(q) = FirstByte(M)
  <2>1. CASE M # <<>>
    <3>1. 1 \in 1..Len(M)
      BY <2>1
    <3>2. packet[q + 1] = M[1]
      BY <1>15, <3>1
    <3>. QED
      BY <2>1, <3>2 DEF ByteAt, FirstByte
  <2>2. CASE M = <<>>
    <3>1. Len(b[v]) = q
      BY <1>7, <1>14, <2>2
    <3>2. v # n
      BY <1>2, <1>19, <3>1
    <3>. DEFINE w1 == v + 1
    <3>3. w1 \in 1..n /\ w1 - 1 = v /\ w1 \in 0..n /\ n \in w1..n
      BY <1>1, <1>11, <3>2
    <3>. HIDE DEF w1
    <3>4. /\ b[w1][Len(b[v]) + 1] = 0
          /\ Len(b[w1]) = Len(b[v]) + units[w1].code + Len(units[w1].payload)
          /\ units[w1].code \in {3, 4} /\ Len(units[w1].payload) \in Nat
      BY <1>1, <3>3, UnitOf
    <3>5. q + 1 \in 1..Len(b[w1])
      <4>. DEFINE c1 == units[w1].code
                  p1 == Len(units[w1].payload)
      <4>1. c1 \in {3, 4} /\ p1 \in Nat /\ Len(b[w1]) = q + c1 + p1
        BY <3>1, <3>4
      <4>. HIDE DEF c1, p1
      <4>. QED
        BY <1>7, <4>1
    <3>6. b[n][q + 1] = b[w1][q + 1]
      <4>1. Grown(b, units, w1, n)
        BY <1>1, <3>3, <3>5, Grows
      <4>. QED
        BY <1>1, <3>3, <3>5, <4>1 DEF Grown
    <3>. QED
      BY <1>1, <2>2, <3>1, <3>4, <3>6 DEF ByteAt, FirstByte
  <2>. QED
    BY <2>1, <2>2
<1>20. v = n \/ units[v + 1].code = 4
  BY <1>10 DEF Passes
<1>. QED
  BY <1>3, <1>11, <1>13, <1>16, <1>18, <1>19, <1>20 DEF Found

-----------------------------------------------------------------------------
(* What is sent against what the reference emits.                          *)

(* A tag is as long as its header says, and has room for its size.         *)
Kinds == {"videoConfig", "keyFrame", "interFrame", "audioConfig", "audioRaw"}
GoodTag ==
  {t \in [kind : Kinds, parts : Seq(Nat) \cup Seq(Seq(Nat)),
          announced : Nat, body : Nat, allocated : Nat] :
     t.announced = t.body /\ t.allocated = HeadLen + t.body + PreTagLen}

LEMMA TagOf ==
  ASSUME NEW kind \in Kinds, NEW parts \in Seq(Nat) \cup Seq(Seq(Nat)), NEW size \in Nat,
         NEW t, t = Tag(kind, parts, size, size)
  PROVE  t \in GoodTag /\ t.kind = kind /\ t.parts = parts
<1>1. size + HeadLen + PreTagLen \in Nat
      /\ size + HeadLen + PreTagLen = HeadLen + size + PreTagLen
  BY DEF HeadLen, PreTagLen
<1>. DEFINE room == size + HeadLen + PreTagLen
<1>2. t = [kind |-> kind, parts |-> parts, announced |-> size, body |-> size,
           allocated |-> room]
  BY DEF Tag
<1>. HIDE DEF room
<1>3. room \in Nat /\ room = HeadLen + size + PreTagLen
  BY <1>1 DEF room
<1>. QED
  BY <1>2, <1>3 DEF GoodTag

LEMMA Lists ==
  ASSUME NEW a, NEW b, NEW c
  PROVE  <<a>> \o <<b>> = <<a, b>> /\ <<a>> \o <<b, c>> = <<a, b, c>>
<1>. DEFINE S == {a, b, c}
            x == <<a>>
            y == <<b>>
            z == <<b, c>>
            xy == <<a, b>>
            xz == <<a, b, c>>
<1>1. /\ x \in Seq(S) /\ y \in Seq(S) /\ z \in Seq(S) /\ xy \in Seq(S) /\ xz \in Seq(S)
      /\ Len(x) = 1 /\ Len(y) = 1 /\ Len(z) = 2 /\ Len(xy) = 2 /\ Len(xz) = 3
      /\ x[1] = a /\ y[1] = b /\ z[1] = b /\ z[2] = c
      /\ xy[1] = a /\ xy[2] = b /\ xz[1] = a /\ xz[2] = b /\ xz[3] = c
  OBVIOUS
<1>. HIDE DEF S, x, y, z, xy, xz
<1>2. x \o y = xy
  <2>. DEFINE q == x \o y
  <2>1. /\ q \in Seq(S) /\ Len(q) = Len(x) + Len(y)
        /\ \A i \in 1..Len(x) + Len(y) : q[i] = IF i <= Len(x) THEN x[i] ELSE y[i - Len(x)]
    BY <1>1, ConcatProperties
  <2>. HIDE DEF q
  <2>2. Len(q) = 2 /\ \A i \in 1..2 : q[i] = IF i <= 1 THEN x[i] ELSE y[i - 1]
    BY <1>1, <2>1
  <2>3. \A i \in 1..2 : q[i] = xy[i]
    BY <1>1, <2>2
  <2>. QED
    BY <1>1, <2>1, <2>2, <2>3, SeqEqual DEF q
<1>3. x \o z = xz
  <2>. DEFINE q == x \o z
  <2>1. /\ q \in Seq(S) /\ Len(q) = Len(x) + Len(z)
        /\ \A i \in 1..Len(x) + Len(z) : q[i] = IF i <= Len(x) THEN x[i] ELSE z[i - Len(x)]
    BY <1>1, ConcatProperties
  <2>. HIDE DEF q
  <2>2. Len(q) = 3 /\ \A i \in 1..3 : q[i] = IF i <= 1 THEN x[i] ELSE z[i - 1]
    BY <1>1, <2>1
  <2>3. \A i \in 1..3 : q[i] = xz[i]
    BY <1>1, <2>2
  <2>. QED
    BY <1>1, <2>1, <2>2, <2>3, SeqEqual DEF q
<1>. QED
  BY <1>2, <1>3 DEF x, y, z, xy, xz

(* One more tag is one more of the list that is compared.                  *)
Sends(t, e) == t \in GoodTag /\ tags' = Append(tags, t) /\ e = <<t.kind>> \o t.parts

LEMMA SentAppends ==
  ASSUME NEW t, NEW e \in Out, Sends(t, e), tags \in Seq(GoodTag), Sent \in Seq(Out)
  PROVE  tags' \in Seq(GoodTag) /\ Sent' = Append(Sent, e)
<1>. DEFINE n == Len(tags)
            g(u) == <<u.kind>> \o u.parts
            more == Append(tags, t)
<1>1. /\ n \in Nat /\ DOMAIN tags = 1..n
      /\ more \in Seq(GoodTag) /\ DOMAIN more = 1..n + 1 /\ more[n + 1] = t
      /\ \A i \in 1..n : more[i] = tags[i]
  <2>1. t \in GoodTag
    BY DEF Sends
  <2>2. n \in Nat /\ DOMAIN tags = 1..n
    OBVIOUS
  <2>3. /\ Append(tags, t) \in Seq(GoodTag) /\ Len(Append(tags, t)) = n + 1
        /\ \A i \in 1..n : Append(tags, t)[i] = tags[i]
        /\ Append(tags, t)[n + 1] = t
    BY <2>1, AppendProperties
  <2>. HIDE DEF n, more
  <2>4. more \in Seq(GoodTag) /\ Len(more) = n + 1
    BY <2>3 DEF more
  <2>5. DOMAIN more = 1..n + 1
    BY <2>4
  <2>. QED
    BY <2>2, <2>3, <2>4, <2>5 DEF more
<1>2. tags' = more /\ e = g(t)
  BY DEF Sends
<1>3. Sent = [i \in DOMAIN tags |-> g(tags[i])]
  BY DEF Sent
<1>4. Sent' = [i \in DOMAIN more |-> g(more[i])]
  BY <1>2 DEF Sent
<1>. DEFINE s == Sent
            z == Append(s, e)
<1>. HIDE DEF n, g, more, s
<1>5. s \in Seq(Out) /\ DOMAIN s = 1..n /\ \A i \in 1..n : s[i] = g(tags[i])
  BY <1>1, <1>3 DEF s
<1>6. Len(s) = n
  BY <1>1, <1>5
<1>7. /\ z \in Seq(Out) /\ Len(z) = n + 1 /\ z[n + 1] = e
      /\ \A i \in 1..n : z[i] = s[i]
  BY <1>5, <1>6, AppendProperties
<1>. HIDE DEF z
<1>8. DOMAIN z = 1..n + 1 /\ z = [i \in 1..n + 1 |-> z[i]]
  BY <1>7
<1>9. ASSUME NEW i \in 1..n + 1 PROVE z[i] = g(more[i])
  <2>1. CASE i = n + 1
    BY <1>1, <1>2, <1>7, <2>1
  <2>2. CASE i # n + 1
    <3>1. i \in 1..n
      BY <1>1, <2>2
    <3>. QED
      BY <1>1, <1>5, <1>7, <3>1
  <2>. QED
    BY <2>1, <2>2
<1>10. Sent' = z
  BY <1>1, <1>4, <1>8, <1>9
<1>. QED
  BY <1>1, <1>2, <1>10 DEF s, z

(* What the reference does with a NAL unit when no SPS waits, by the first  *)
(* byte of the unit.                                                       *)
LEMMA EmitByByte ==
  ASSUME NEW s \in EmitState, s.sps = <<>>, NEW N \in Seq(Nat), NEW B, B = FirstByte(N)
  PROVE  /\ (IF B = SPS THEN s.set ELSE NalType(B) \notin {1, 5}) => Emit(s, N) = s
         /\ B = SPS /\ ~s.set => N # <<>> /\ Emit(s, N) = [s EXCEPT !.sps = N]
         /\ B # SPS /\ NalType(B) = 5 =>
              Emit(s, N) = [s EXCEPT !.out = Append(@, <<"keyFrame", N>>)]
         /\ B # SPS /\ NalType(B) = 1 =>
              Emit(s, N) = [s EXCEPT !.out = Append(@, <<"interFrame", N>>)]
<1>1. CASE N = <<>>
  <2>1. B = 0 /\ B # SPS /\ NalType(B) = 0
    BY <1>1 DEF FirstByte, SPS, NalType
  <2>2. Emit(s, N) = s
    BY <1>1 DEF Emit
  <2>. QED
    BY <2>1, <2>2
<1>2. CASE N # <<>>
  <2>1. B = N[1]
    BY <1>2 DEF FirstByte
  <2>2. ASSUME B = SPS PROVE Emit(s, N) = IF s.set THEN s ELSE [s EXCEPT !.sps = N]
    <3>1. NalType(SPS) = 7
      BY DEF NalType, SPS
    <3>2. N[1] = SPS /\ NalType(N[1]) # 5 /\ NalType(N[1]) # 1
      BY <2>1, <2>2, <3>1
    <3>. QED
      BY <1>2, <3>2 DEF Emit
  <2>3. B # SPS /\ NalType(B) = 5 =>
          Emit(s, N) = [s EXCEPT !.out = Append(@, <<"keyFrame", N>>)]
    BY <1>2, <2>1 DEF Emit
  <2>4. B # SPS /\ NalType(B) = 1 =>
          Emit(s, N) = [s EXCEPT !.out = Append(@, <<"interFrame", N>>)]
    BY <1>2, <2>1 DEF Emit
  <2>5. ASSUME B # SPS, NalType(B) \notin {1, 5} PROVE Emit(s, N) = s
    <3>. DEFINE type == NalType(N[1])
    <3>1. N[1] # SPS /\ type # 1 /\ type # 5
      BY <2>1, <2>5
    <3>. QED
      BY <1>2, <3>1 DEF Emit
  <2>. QED
    BY <1>2, <2>2, <2>3, <2>4, <2>5
<1>. QED
  BY <1>1, <1>2

(* The same of all that came before: ns, with no SPS waiting, and N behind. *)
Matches(ns) ==
  /\ ns \in Seq(Seq(Nat))
  /\ Sent = Emitted(ns, wasSet).out /\ config_ok = Emitted(ns, wasSet).set
  /\ Emitted(ns, wasSet).sps = <<>>

AtNal(n, b, J, k, ns) ==
  /\ Walks(n, b, J, k) /\ Matches(ns)
  /\ NalBytes(nal) \in Seq(Nat) /\ J[k] = Append(ns, NalBytes(nal))
  /\ ByteAt(nal.at) = FirstByte(NalBytes(nal))

(* The inductive invariant: up to where the writer walks, it has sent what  *)
(* the reference emits.                                                    *)
TagInv ==
  /\ wasSet \in BOOLEAN /\ config_ok \in BOOLEAN /\ tags \in Seq(GoodTag)
  /\ writer \in {"idle", "audio"} => tags = <<>>
  /\ writer = "getNal" => \E n, b, J, k : Walks(n, b, J, k) /\ Matches(J[k])
  /\ writer = "nal" => \E n, b, J, k, ns : AtNal(n, b, J, k, ns)
  /\ writer = "done" => Sent = Expected

LEMMA MatchesStays ==
  ASSUME NEW ns, Matches(ns), tags' = tags, wasSet' = wasSet, config_ok' = config_ok
  PROVE  Matches(ns)'
<1>1. Sent' = Sent
  BY DEF Sent
<1>. QED
  BY <1>1 DEF Matches

LEMMA WalksOn ==
  ASSUME NEW n, NEW b, NEW J, NEW k, Walks(n, b, J, k), units' = units, packet' = packet,
         NEW v \in 0..n, buf_offset' = Len(b[v]), v = 0 \/ v = n \/ units[v + 1].code = 4
  PROVE  Walks(n, b, J, v)'
BY DEF Walks

(* The first step of a video packet: nothing is walked, nothing sent.      *)
LEMMA WriteVideoTags ==
  ASSUME NalUnits, MaxUnits \in Nat, FlvInv, TagInv, WriteVideo
  PROVE  TagInv'
<1>1. /\ writer = "idle" /\ writer' = "getNal" /\ buf_offset = 0 /\ tags = <<>>
      /\ buf_offset' = 0 /\ tags' = <<>>
      /\ config_ok' \in BOOLEAN /\ wasSet' = config_ok'
  BY DEF WriteVideo, FlvInv, TagInv
<1>2. PICK n \in 0..MaxUnits : units' \in [1..n -> Unit] /\ packet' = BytesOf(units')
  BY DEF WriteVideo
<1>3. n \in Nat
  OBVIOUS
<1>4. PICK b : Lays(b, units', n) /\ BytesOf(units') = b[n]
  BY <1>2, <1>3, LaysIs
<1>5. PICK J : Splits(J, units', n) /\ Nals(units') = J[n]
  BY <1>2, <1>3, SplitsIs
<1>6. Len(b[0]) = 0 /\ J[0] = <<>>
  BY <1>4, <1>5 DEF Lays, Splits
<1>7. Walks(n, b, J, 0)'
  BY <1>1, <1>2, <1>3, <1>4, <1>5, <1>6 DEF Walks
<1>8. Matches(J[0])'
  <2>1. <<>> \in Seq(Seq(Nat)) /\ <<>> \in Seq(Nat) /\ wasSet' \in BOOLEAN
    BY <1>1
  <2>2. Emitted(<<>>, wasSet') = [out |-> <<>>, sps |-> <<>>, set |-> wasSet']
    BY <2>1, EmittedIs
  <2>3. Sent' = <<>>
    BY <1>1 DEF Sent
  <2>. QED
    BY <1>1, <1>6, <2>1, <2>2, <2>3 DEF Matches
<1>9. tags' \in Seq(GoodTag)
  BY <1>1
<1>. QED
  BY <1>1, <1>7, <1>8, <1>9 DEF TagInv

(* get_nal: the end, or the next NAL unit.                                 *)
LEMMA GetNalTags ==
  ASSUME NalUnits, FlvInv, TagInv, GetNal
  PROVE  TagInv'
<1>1. /\ writer = "getNal" /\ packet' = packet /\ units' = units /\ tags' = tags
      /\ wasSet' = wasSet /\ config_ok' = config_ok /\ writer' \in {"nal", "done", "overread"}
  BY DEF GetNal
<1>2. /\ Total \in Nat /\ buf_offset \in 0..Total
      /\ wasSet' \in BOOLEAN /\ config_ok' \in BOOLEAN /\ tags' \in Seq(GoodTag)
  BY <1>1 DEF FlvInv, TagInv
<1>3. PICK n, b, J, k : Walks(n, b, J, k) /\ Matches(J[k])
  BY <1>1 DEF TagInv
<1>4. CASE writer' = "overread"
  BY <1>2, <1>4 DEF TagInv
<1>5. CASE writer' = "done"
  <2>1. Total >= 3 /\ NoNal
    <3>1. NoNal
      BY <1>5 DEF GetNal
    <3>2. ~SearchOverreads
      BY <1>5 DEF GetNal
    <3>3. SUFFICES ASSUME Total < 3 PROVE FALSE
      BY <1>2, <3>1
    <3>. QED
      BY <1>2, <3>2, <3>3, ShortOverreads
  <2>2. PICK m \in k..n :
          /\ J[m] = J[k] /\ J[m] \in Seq(Seq(Nat))
          /\ ~NoNal => m < n /\ units[m + 1].code = 4 /\ Scan(buf_offset) = Len(b[m])
          /\ NoNal => m = n
    BY <1>3, <2>1, SearchFinds
  <2>3. Nals(units) = J[k]
    BY <1>3, <2>1, <2>2 DEF Walks
  <2>4. Sent = Expected
    BY <1>3, <2>3 DEF Matches, Expected
  <2>5. Sent' = Sent /\ Expected' = Expected
    BY <1>1 DEF Sent, Expected
  <2>. QED
    BY <1>2, <1>5, <2>4, <2>5 DEF TagInv
<1>6. CASE writer' = "nal"
  <2>1. Total >= 3 /\ ~SearchOverreads /\ ~NoNal
    <3>1. ~SearchOverreads
      BY <1>6 DEF GetNal
    <3>2. ~NoNal
      BY <1>6, <3>1 DEF GetNal
    <3>3. SUFFICES ASSUME Total < 3 PROVE FALSE
      BY <1>2, <3>1, <3>2
    <3>. QED
      BY <1>2, <3>1, <3>3, ShortOverreads
  <2>2. /\ nal' = NalFound /\ buf_offset' = End(NalFound)
        /\ writer' = IF NalFound.at = Total THEN "overread" ELSE "nal"
    BY <2>1 DEF GetNal
  <2>3. PICK v \in 0..n : Found(n, b, J, k, v)
    BY <1>3, <2>1, FindsNal
  <2>4. Walks(n, b, J, v)'
    <3>1. buf_offset' = Len(b[v]) /\ (v = 0 \/ v = n \/ units[v + 1].code = 4)
      BY <2>2, <2>3 DEF Found
    <3>. QED
      BY <1>1, <1>3, <3>1, WalksOn
  <2>5. Matches(J[k])'
    <3>. DEFINE ns == J[k]
    <3>. HIDE DEF ns
    <3>1. Matches(ns)
      BY <1>3 DEF ns
    <3>. QED
      BY <1>1, <3>1, MatchesStays DEF ns
  <2>6. NalFound.at < Total
    <3>1. NalFound.at # Total
      BY <1>6, <2>2
    <3>2. NalFound.at \in Nat /\ NalFound.at <= Total
      BY <1>2, <2>1, NalInside
    <3>. QED
      BY <1>2, <3>1, <3>2
  <2>7. /\ NalBytes(nal)' = NalBytes(NalFound) /\ ByteAt(nal.at)' = ByteAt(NalFound.at)
    BY <1>1, <2>2 DEF NalBytes, ByteAt, End
  <2>8. AtNal(n, b, J, v, J[k])'
    BY <2>3, <2>4, <2>5, <2>6, <2>7 DEF AtNal, Found
  <2>. QED
    BY <1>2, <1>6, <2>8 DEF TagInv
<1>. QED
  BY <1>1, <1>4, <1>5, <1>6

(* A NAL unit that is skipped is one the reference skips.                  *)
LEMMA SkipNalTags ==
  ASSUME FlvInv, TagInv, SkipNal
  PROVE  TagInv'
<1>1. /\ writer = "nal" /\ writer' = "getNal" /\ packet' = packet /\ units' = units
      /\ tags' = tags /\ wasSet' = wasSet /\ config_ok' = config_ok
      /\ buf_offset' = buf_offset
  BY DEF SkipNal
<1>2. wasSet \in BOOLEAN /\ config_ok \in BOOLEAN /\ tags \in Seq(GoodTag)
  BY DEF TagInv
<1>3. PICK n, b, J, k, ns : AtNal(n, b, J, k, ns)
  BY <1>1 DEF TagInv
<1>. DEFINE N == NalBytes(nal)
            B == ByteAt(nal.at)
            s == Emitted(ns, wasSet)
<1>4. /\ Walks(n, b, J, k) /\ ns \in Seq(Seq(Nat)) /\ N \in Seq(Nat) /\ J[k] = Append(ns, N)
      /\ B = FirstByte(N) /\ Sent = s.out /\ config_ok = s.set /\ s.sps = <<>>
  BY <1>3 DEF AtNal, Matches
<1>5. IF B = SPS THEN config_ok ELSE NalType(B) \notin {1, 5}
  BY DEF SkipNal, Type
<1>. HIDE DEF N, B
<1>6. s \in EmitState /\ Emitted(Append(ns, N), wasSet) = Emit(s, N)
  BY <1>2, <1>4, EmittedIs
<1>. HIDE DEF s
<1>7. Emit(s, N) = s
  <2>1. IF B = SPS THEN s.set ELSE NalType(B) \notin {1, 5}
    BY <1>4, <1>5
  <2>. QED
    BY <1>4, <1>6, <2>1, EmitByByte
<1>8. Matches(J[k])'
  <2>. DEFINE ms == J[k]
  <2>1. ms \in Seq(Seq(Nat)) /\ Emitted(ms, wasSet) = s
    BY <1>4, <1>6, <1>7
  <2>. HIDE DEF ms
  <2>2. Matches(ms)
    BY <1>4, <2>1 DEF Matches
  <2>. QED
    BY <1>1, <2>2, MatchesStays DEF ms
<1>9. Walks(n, b, J, k)'
  BY <1>1, <1>4 DEF Walks
<1>. QED
  BY <1>1, <1>2, <1>8, <1>9 DEF TagInv

(* A slice is sent as the reference has it.                                *)
LEMMA WriteSliceTags ==
  ASSUME FlvInv, TagInv, WriteSlice
  PROVE  TagInv'
<1>. DEFINE N == NalBytes(nal)
            B == ByteAt(nal.at)
            kind == IF Type = 5 THEN "keyFrame" ELSE "interFrame"
            t == SliceTag(kind, nal)
            e == <<kind, N>>
<1>1. /\ writer = "nal" /\ writer' = "getNal" /\ packet' = packet /\ units' = units
      /\ tags' = Append(tags, t) /\ wasSet' = wasSet /\ config_ok' = config_ok
      /\ buf_offset' = buf_offset
      /\ B # SPS /\ Type = NalType(B) /\ NalType(B) \in {1, 5}
  BY DEF WriteSlice, Type
<1>2. wasSet \in BOOLEAN /\ config_ok \in BOOLEAN /\ tags \in Seq(GoodTag)
  BY DEF TagInv
<1>3. PICK n, b, J, k, ns : AtNal(n, b, J, k, ns)
  BY <1>1 DEF TagInv
<1>. DEFINE s == Emitted(ns, wasSet)
<1>4. /\ Walks(n, b, J, k) /\ ns \in Seq(Seq(Nat)) /\ N \in Seq(Nat) /\ J[k] = Append(ns, N)
      /\ B = FirstByte(N) /\ Sent = s.out /\ config_ok = s.set /\ s.sps = <<>>
  BY <1>3 DEF AtNal, Matches
<1>5. kind \in {"keyFrame", "interFrame"} /\ e \in Out
  BY <1>4 DEF Out
<1>6. t \in GoodTag /\ t.kind = kind /\ t.parts = <<N>>
  <2>1. nal.len \in Nat
    BY <1>1 DEF FlvInv
  <2>. DEFINE size == nal.len + 5 + 4
              parts == <<N>>
  <2>2. size \in Nat /\ size = 5 + 4 + nal.len
    BY <2>1
  <2>3. parts \in Seq(Nat) \cup Seq(Seq(Nat)) /\ kind \in Kinds
    <3>. DEFINE S == Seq(Nat)
    <3>1. N \in S
      BY <1>4
    <3>. HIDE DEF S, N
    <3>2. parts \in Seq(S)
      BY <3>1
    <3>3. kind \in Kinds
      BY <1>5 DEF Kinds
    <3>. QED
      BY <3>2, <3>3 DEF S
  <2>4. t = Tag(kind, parts, size, size)
    BY <2>2 DEF SliceTag
  <2>. HIDE DEF t, size, parts, kind
  <2>5. t \in GoodTag /\ t.kind = kind /\ t.parts = parts
    BY <2>2, <2>3, <2>4, TagOf
  <2>. QED
    BY <2>5 DEF parts
<1>7. Sends(t, e)
  <2>1. <<kind>> \o <<N>> = e
    BY Lists
  <2>. HIDE DEF t, e, kind
  <2>. QED
    BY <1>1, <1>6, <2>1 DEF Sends
<1>8. \/ NalType(B) = 5 /\ kind = "keyFrame"
      \/ NalType(B) = 1 /\ kind = "interFrame"
  BY <1>1
<1>. HIDE DEF N, B, t, kind
<1>9. s \in EmitState /\ Emitted(Append(ns, N), wasSet) = Emit(s, N)
  BY <1>2, <1>4, EmittedIs
<1>. HIDE DEF s
<1>10. Emit(s, N) = [s EXCEPT !.out = Append(@, e)]
  BY <1>1, <1>4, <1>8, <1>9, EmitByByte
<1>. HIDE DEF e
<1>11. tags' \in Seq(GoodTag) /\ Sent' = Append(Sent, e)
  <2>1. Sent \in Seq(Out)
    BY <1>4, <1>9 DEF EmitState
  <2>. QED
    BY <1>2, <1>5, <1>7, <2>1, SentAppends
<1>12. Matches(J[k])'
  <2>. DEFINE ms == J[k]
  <2>1. ms \in Seq(Seq(Nat)) /\ Emitted(ms, wasSet) = [s EXCEPT !.out = Append(@, e)]
    BY <1>4, <1>9, <1>10
  <2>. HIDE DEF ms
  <2>2. /\ Emitted(ms, wasSet).out = Append(s.out, e) /\ Emitted(ms, wasSet).set = s.set
        /\ Emitted(ms, wasSet).sps = s.sps
    BY <1>9, <2>1 DEF EmitState
  <2>3. Matches(ms)'
    BY <1>1, <1>4, <1>11, <2>1, <2>2 DEF Matches
  <2>. QED
    BY <2>3 DEF ms
<1>13. Walks(n, b, J, k)'
  BY <1>1, <1>4 DEF Walks
<1>. QED
  BY <1>1, <1>2, <1>11, <1>12, <1>13 DEF TagInv

(* An SPS with the unit behind it is one tag; without one it is lost.      *)
LEMMA WriteConfigTags ==
  ASSUME NalUnits, FlvInv, TagInv, WriteConfig
  PROVE  TagInv'
<1>. DEFINE N == NalBytes(nal)
            B == ByteAt(nal.at)
<1>1. /\ writer = "nal" /\ packet' = packet /\ units' = units /\ wasSet' = wasSet
      /\ B = SPS /\ ~config_ok
  BY DEF WriteConfig
<1>2. /\ wasSet \in BOOLEAN /\ config_ok \in BOOLEAN /\ tags \in Seq(GoodTag)
      /\ Total \in Nat /\ Total >= 3 /\ buf_offset \in 0..Total /\ nal.len \in Nat
  BY <1>1 DEF TagInv, FlvInv
<1>3. PICK n, b, J, k, ns : AtNal(n, b, J, k, ns)
  BY <1>1 DEF TagInv
<1>. DEFINE s == Emitted(ns, wasSet)
            r == Emitted(J[k], wasSet)
<1>4. /\ Walks(n, b, J, k) /\ ns \in Seq(Seq(Nat)) /\ N \in Seq(Nat) /\ J[k] = Append(ns, N)
      /\ B = FirstByte(N) /\ Sent = s.out /\ config_ok = s.set /\ s.sps = <<>>
  BY <1>3 DEF AtNal, Matches
<1>. HIDE DEF N, B
<1>5. s \in EmitState /\ r = Emit(s, N)
  BY <1>2, <1>4, EmittedIs
<1>. HIDE DEF s, r
<1>6. N # <<>> /\ r = [s EXCEPT !.sps = N]
  BY <1>1, <1>4, <1>5, EmitByByte
<1>7. r.out = s.out /\ r.sps = N
  BY <1>5, <1>6 DEF EmitState
<1>8. r \in EmitState
  BY <1>4, <1>5, EmitIs
<1>9. CASE NoNal
  <2>1. writer' = "done" /\ config_ok' = config_ok /\ tags' = tags
    BY <1>9 DEF WriteConfig
  <2>2. PICK m \in k..n :
          /\ J[m] = J[k] /\ J[m] \in Seq(Seq(Nat))
          /\ ~NoNal => m < n /\ units[m + 1].code = 4 /\ Scan(buf_offset) = Len(b[m])
          /\ NoNal => m = n
    BY <1>2, <1>4, SearchFinds
  <2>3. Nals(units) = J[k]
    BY <1>4, <1>9, <2>2 DEF Walks
  <2>4. Sent = Expected
    BY <1>4, <1>7, <2>3 DEF Expected, r
  <2>5. Sent' = Sent /\ Expected' = Expected
    BY <1>1, <2>1 DEF Sent, Expected
  <2>. QED
    BY <1>1, <1>2, <2>1, <2>4, <2>5 DEF TagInv
<1>10. CASE ~NoNal
  <2>. DEFINE M == NalBytes(NalFound)
              t == ConfigTag(nal, NalFound)
              e == <<"videoConfig", N, M>>
  <2>1. tags' = Append(tags, t) /\ buf_offset' = End(NalFound) /\ config_ok' = TRUE
        /\ writer' \in {"overread", "getNal"}
    BY <1>10 DEF WriteConfig
  <2>2. PICK v \in 0..n : Found(n, b, J, k, v)
    BY <1>2, <1>4, <1>10, FindsNal
  <2>3. /\ End(NalFound) = Len(b[v]) /\ (v = n \/ units[v + 1].code = 4)
        /\ J[k] \in Seq(Seq(Nat)) /\ M \in Seq(Nat) /\ J[v] = Append(J[k], M)
    BY <2>2 DEF Found
  <2>4. e \in Out
    BY <1>4, <2>3 DEF Out
  <2>5. t \in GoodTag /\ t.kind = "videoConfig" /\ t.parts = <<N, M>>
    <3>1. NalFound.len \in Nat
      BY <1>2, <1>10, NalInside
    <3>. DEFINE size == nal.len + NalFound.len + 16
                parts == <<N, M>>
    <3>2. size \in Nat /\ size = 5 + 6 + 2 + nal.len + 1 + 2 + NalFound.len
      <4>. DEFINE l == nal.len
                  m == NalFound.len
      <4>1. l \in Nat /\ m \in Nat
        BY <1>2, <3>1
      <4>. HIDE DEF l, m
      <4>2. l + m + 16 \in Nat /\ l + m + 16 = 5 + 6 + 2 + l + 1 + 2 + m
        BY <4>1
      <4>. QED
        BY <4>2 DEF l, m
    <3>3. parts \in Seq(Nat) \cup Seq(Seq(Nat))
      <4>. DEFINE S == Seq(Nat)
      <4>1. N \in S /\ M \in S
        BY <1>4, <2>3
      <4>. HIDE DEF S, M
      <4>2. parts \in Seq(S)
        BY <4>1
      <4>. QED
        BY <4>2 DEF S
    <3>4. t = Tag("videoConfig", parts, size, size)
      BY <3>2 DEF ConfigTag, N
    <3>. HIDE DEF t, size, parts
    <3>5. "videoConfig" \in Kinds
      BY DEF Kinds
    <3>6. t \in GoodTag /\ t.kind = "videoConfig" /\ t.parts = parts
      BY <3>2, <3>3, <3>4, <3>5, TagOf
    <3>. QED
      BY <3>6 DEF parts
  <2>. HIDE DEF M, t
  <2>6. Sends(t, e)
    <3>1. <<"videoConfig">> \o <<N, M>> = e
      BY Lists
    <3>. HIDE DEF e
    <3>. QED
      BY <2>1, <2>5, <3>1 DEF Sends
  <2>7. tags' \in Seq(GoodTag) /\ Sent' = Append(Sent, e)
    <3>1. Sent \in Seq(Out)
      BY <1>4, <1>5 DEF EmitState
    <3>. HIDE DEF e
    <3>. QED
      BY <1>2, <2>4, <2>6, <3>1, SentAppends
  <2>8. Matches(J[v])'
    <3>. DEFINE ms == J[v]
    <3>1. Emitted(ms, wasSet) = Emit(r, M) /\ ms \in Seq(Seq(Nat))
      <4>. DEFINE ks == J[k]
      <4>1. ks \in Seq(Seq(Nat)) /\ ms = Append(ks, M)
        BY <2>3
      <4>2. ms \in Seq(Seq(Nat))
        <5>. DEFINE S == Seq(Nat)
        <5>1. ks \in Seq(S) /\ M \in S
          BY <2>3
        <5>. HIDE DEF S, ks, ms
        <5>2. Append(ks, M) \in Seq(S)
          BY <5>1, AppendProperties
        <5>. QED
          BY <4>1, <5>2 DEF S
      <4>. HIDE DEF ks, ms
      <4>3. Emitted(Append(ks, M), wasSet) = Emit(Emitted(ks, wasSet), M)
        BY <1>2, <2>3, <4>1, EmittedIs
      <4>. QED
        BY <4>1, <4>2, <4>3 DEF ks, r
    <3>. HIDE DEF ms
    <3>2. Emit(r, M) = [r EXCEPT !.out = Append(@, <<"videoConfig", r.sps, M>>), !.sps = <<>>,
                                 !.set = TRUE]
      BY <1>6, <1>7 DEF Emit
    <3>3. /\ Emitted(ms, wasSet).out = Append(Sent, e) /\ Emitted(ms, wasSet).set = TRUE
          /\ Emitted(ms, wasSet).sps = <<>>
      <4>1. /\ Emit(r, M).out = Append(r.out, <<"videoConfig", r.sps, M>>)
            /\ Emit(r, M).set = TRUE /\ Emit(r, M).sps = <<>>
        BY <1>8, <3>2 DEF EmitState
      <4>. QED
        BY <1>4, <1>7, <3>1, <4>1
    <3>. HIDE DEF e
    <3>4. Matches(ms)'
      BY <1>1, <2>1, <2>7, <3>1, <3>3 DEF Matches
    <3>. QED
      BY <3>4 DEF ms
  <2>9. Walks(n, b, J, v)'
    BY <1>1, <1>4, <2>1, <2>3, WalksOn
  <2>10. wasSet' \in BOOLEAN /\ config_ok' \in BOOLEAN
    BY <1>1, <1>2, <2>1
  <2>. QED
    BY <2>1, <2>7, <2>8, <2>9, <2>10 DEF TagInv
<1>. QED
  BY <1>9, <1>10

(* An audio packet is one tag.                                             *)
LEMMA PushAudioTags ==
  ASSUME FlvInv, TagInv, PushAudio
  PROVE  TagInv'
<1>1. /\ writer' = "sent" /\ config_ok' = TRUE /\ wasSet' = wasSet
      /\ tags' = <<AudioTag(Total)>> /\ Total \in Nat /\ wasSet \in BOOLEAN
  BY DEF PushAudio, FlvInv, TagInv
<1>2. AudioTag(Total) \in GoodTag
  <2>. DEFINE t == AudioTag(Total)
              size == 2 + Total
              parts == <<Total>>
              two == <<2>>
  <2>1. size \in Nat /\ parts \in Seq(Nat) \cup Seq(Seq(Nat))
        /\ two \in Seq(Nat) \cup Seq(Seq(Nat))
    BY <1>1
  <2>2. t = Tag("audioRaw", parts, size, size) \/ t = Tag("audioConfig", two, 2 + 2, 2 + 2)
    BY DEF AudioTag
  <2>3. 2 + 2 \in Nat /\ "audioRaw" \in Kinds /\ "audioConfig" \in Kinds
    BY DEF Kinds
  <2>. HIDE DEF t, size, parts, two
  <2>4. CASE t = Tag("audioRaw", parts, size, size)
    BY <2>1, <2>3, <2>4, TagOf DEF t
  <2>5. CASE t = Tag("audioConfig", two, 2 + 2, 2 + 2)
    BY <2>1, <2>3, <2>5, TagOf DEF t
  <2>. QED
    BY <2>2, <2>4, <2>5
<1>3. tags' \in Seq(GoodTag)
  <2>. DEFINE t == AudioTag(Total)
  <2>. HIDE DEF t
  <2>. QED
    BY <1>1, <1>2 DEF t
<1>. QED
  BY <1>1, <1>3 DEF TagInv

(* The invariant is inductive.                                             *)
LEMMA TagNextKeeps ==
  ASSUME NalUnits, MaxUnits \in Nat, MaxAudio \in Nat, FlvInv, TagInv, [FlvNext]_flvVars
  PROVE  TagInv'
<1>1. CASE WriteAudio
  <2>1. /\ writer = "idle" /\ tags' = tags /\ writer' \in {"overread", "audio"}
        /\ config_ok' \in BOOLEAN /\ wasSet' \in BOOLEAN
    BY <1>1 DEF WriteAudio
  <2>. QED
    BY <2>1 DEF TagInv
<1>2. CASE UNCHANGED flvVars
  <2>1. /\ writer' = writer /\ packet' = packet /\ units' = units /\ tags' = tags
        /\ wasSet' = wasSet /\ config_ok' = config_ok /\ buf_offset' = buf_offset /\ nal' = nal
    BY <1>2 DEF flvVars
  <2>2. wasSet \in BOOLEAN /\ config_ok \in BOOLEAN /\ tags \in Seq(GoodTag)
    BY DEF TagInv
  <2>3. ASSUME NEW n, NEW b, NEW J, NEW k, Walks(n, b, J, k) PROVE Walks(n, b, J, k)'
    BY <2>1, <2>3 DEF Walks
  <2>4. CASE writer = "getNal"
    <3>1. PICK n, b, J, k : Walks(n, b, J, k) /\ Matches(J[k])
      BY <2>4 DEF TagInv
    <3>. DEFINE ms == J[k]
    <3>. HIDE DEF ms
    <3>2. Matches(ms)
      BY <3>1 DEF ms
    <3>3. Matches(ms)'
      BY <2>1, <3>2, MatchesStays
    <3>4. Walks(n, b, J, k)' /\ Matches(J[k])'
      BY <2>3, <3>1, <3>3 DEF ms
    <3>. QED
      BY <2>1, <2>2, <2>4, <3>4 DEF TagInv
  <2>5. CASE writer = "nal"
    <3>1. PICK n, b, J, k, ns : AtNal(n, b, J, k, ns)
      BY <2>5 DEF TagInv
    <3>2. Walks(n, b, J, k)' /\ Matches(ns)'
      BY <2>1, <2>3, <3>1, MatchesStays DEF AtNal
    <3>3. NalBytes(nal)' = NalBytes(nal) /\ ByteAt(nal.at)' = ByteAt(nal.at)
      BY <2>1 DEF NalBytes, ByteAt, End
    <3>4. AtNal(n, b, J, k, ns)'
      BY <3>1, <3>2, <3>3 DEF AtNal
    <3>. QED
      BY <2>1, <2>2, <2>5, <3>4 DEF TagInv
  <2>6. CASE writer \notin {"getNal", "nal"}
    <3>1. Sent' = Sent /\ Expected' = Expected
      BY <2>1 DEF Sent, Expected
    <3>. QED
      BY <2>1, <2>2, <2>6, <3>1 DEF TagInv
  <2>. QED
    BY <2>4, <2>5, <2>6
<1>. QED
  BY <1>1, <1>2, WriteVideoTags, GetNalTags, SkipNalTags, WriteConfigTags, WriteSliceTags,
     PushAudioTags DEF FlvNext

(* What is sent of a packet is what the reference emits, for every number   *)
(* and every contents of NAL units that have no start code inside; and a    *)
(* tag is as long as its header says.                                      *)
THEOREM TagsAreUnits ==
  ASSUME NalUnits, MaxUnits \in Nat, MaxAudio \in Nat
  PROVE  FlvSpec => []TagsOfUnits
<1>1. FlvInit => FlvInv /\ TagInv
  <2>. SUFFICES ASSUME FlvInit PROVE FlvInv /\ TagInv
    OBVIOUS
  <2>1. FlvInv
    BY DEF FlvInit, FlvInv, OverreadExplained, Total
  <2>2. /\ writer = "idle" /\ tags = <<>> /\ wasSet \in BOOLEAN /\ config_ok \in BOOLEAN
    BY DEF FlvInit
  <2>3. <<>> \in Seq(GoodTag)
    OBVIOUS
  <2>4. TagInv
    BY <2>2, <2>3 DEF TagInv
  <2>. QED
    BY <2>1, <2>4
<1>2. FlvInv /\ TagInv /\ [FlvNext]_flvVars => (FlvInv /\ TagInv)'
  BY FlvNextKeeps, TagNextKeeps
<1>3. FlvInv /\ TagInv => TagsOfUnits
  <2>. SUFFICES ASSUME TagInv PROVE TagsOfUnits
    OBVIOUS
  <2>1. tags \in Seq(GoodTag)
    BY DEF TagInv
  <2>2. ASSUME NEW i \in DOMAIN tags PROVE tags[i] \in GoodTag
    BY <2>1
  <2>3. \A i \in DOMAIN tags : /\ tags[i].announced = tags[i].body
                               /\ tags[i].allocated = HeadLen + tags[i].body + PreTagLen
    <3>. SUFFICES ASSUME NEW i \in DOMAIN tags
                  PROVE  /\ tags[i].announced = tags[i].body
                         /\ tags[i].allocated = HeadLen + tags[i].body + PreTagLen
      OBVIOUS
    <3>. DEFINE t == tags[i]
    <3>1. t \in GoodTag
      BY <2>2
    <3>. HIDE DEF t
    <3>2. t.announced = t.body /\ t.allocated = HeadLen + t.body + PreTagLen
      BY <3>1 DEF GoodTag
    <3>. QED
      BY <3>2 DEF t
  <2>. QED
    BY <2>3 DEF TagInv, TagsOfUnits
<1>. QED
  BY <1>1, <1>2, <1>3, PTL DEF FlvSpec

-----------------------------------------------------------------------------
(* The stack of activities.                                                *)
StackSpec == StackInit /\ [][StackNext]_stackVars

(* A sequence that holds each of its elements once.                        *)
Once(s) == \A i, j \in 1..Len(s) : s[i] = s[j] => i = j

(* It is as long as its set of elements is large.                          *)
LEMMA OnceCounts ==
  ASSUME NEW A, NEW s \in Seq(A), Once(s)
  PROVE  IsFiniteSet(ToSet(s)) /\ Cardinality(ToSet(s)) = Len(s)
<1>1. Len(s) \in Nat /\ s \in [1..Len(s) -> ToSet(s)]
  BY DEF ToSet
<1>2. IsInjective(s)
  BY <1>1 DEF Once, IsInjective
<1>3. \A e \in ToSet(s) : \E i \in 1..Len(s) : s[i] = e
  BY DEF ToSet
<1>4. ExistsBijection(1..Len(s), ToSet(s))
  BY <1>1, <1>2, <1>3 DEF ExistsBijection, Bijection, Injection, Surjection
<1>. QED
  BY <1>1, <1>4, FS_CountingElements, FS_NatBijection

(* t is s without the m elements from i on.                                *)
Cuts(t, s, i, m) == t = SubSeq(s, 1, i - 1) \o SubSeq(s, i + m, Len(s))

LEMMA CutIs ==
  ASSUME NEW A, NEW s \in Seq(A), NEW m \in Nat, NEW i \in 1..Len(s), i + m <= Len(s) + 1,
         NEW t, Cuts(t, s, i, m)
  PROVE  /\ t \in Seq(A) /\ Len(t) = Len(s) - m
         /\ \A j \in 1..i - 1 : t[j] = s[j]
         /\ \A j \in i..Len(t) : t[j] = s[j + m]
<1>. DEFINE p == SubSeq(s, 1, i - 1)
            q == SubSeq(s, i + m, Len(s))
<1>1. Len(s) \in Nat /\ i \in Nat
  OBVIOUS
<1>2. p \in Seq(A) /\ Len(p) = i - 1 /\ \A j \in 1..i - 1 : p[j] = s[j]
  BY <1>1
<1>3. q \in Seq(A) /\ Len(q) = Len(s) - m - i + 1
  BY <1>1
<1>4. \A j \in 1..Len(q) : q[j] = s[i + m + j - 1]
  BY <1>1
<1>5. Joins(t, p, q)
  BY DEF Cuts, Joins
<1>. HIDE DEF p, q
<1>6. t \in Seq(A) /\ Len(t) = Len(p) + Len(q)
  BY <1>2, <1>3, <1>5, ConcatProperties DEF Joins
<1>7. \A j \in 1..Len(t) : t[j] = IF j <= Len(p) THEN p[j] ELSE q[j - Len(p)]
  <2>1. \A j \in 1..Len(p) + Len(q) : t[j] = IF j <= Len(p) THEN p[j] ELSE q[j - Len(p)]
    BY <1>2, <1>3, <1>5, ConcatProperties DEF Joins
  <2>. QED
    BY <1>6, <2>1
<1>8. Len(t) = Len(s) - m
  BY <1>1, <1>2, <1>3, <1>6
<1>9. ASSUME NEW j \in 1..i - 1 PROVE t[j] = s[j]
  <2>1. j \in 1..Len(t) /\ j <= Len(p)
    BY <1>1, <1>2, <1>8
  <2>. QED
    BY <1>2, <1>7, <2>1
<1>10. ASSUME NEW j \in i..Len(t) PROVE t[j] = s[j + m]
  <2>1. j \in 1..Len(t) /\ ~(j <= Len(p)) /\ j - Len(p) \in 1..Len(q)
    BY <1>1, <1>2, <1>3, <1>6
  <2>2. t[j] = q[j - Len(p)]
    BY <1>7, <2>1
  <2>3. q[j - Len(p)] = s[i + m + (j - Len(p)) - 1]
    BY <1>4, <2>1
  <2>4. i + m + (j - Len(p)) - 1 = j + m
    BY <1>1, <1>2
  <2>. QED
    BY <2>2, <2>3, <2>4
<1>. QED
  BY <1>6, <1>8, <1>9, <1>10

(* What is cut goes, and nothing comes.                                    *)
LEMMA CutKeepsOnce ==
  ASSUME NEW A, NEW s \in Seq(A), NEW m \in Nat, NEW i \in 1..Len(s), i + m <= Len(s) + 1,
         NEW t, Cuts(t, s, i, m), Once(s)
  PROVE  /\ t \in Seq(A) /\ Once(t)
         /\ Len(t) = Len(s) - m /\ \A j \in 1..i - 1 : t[j] = s[j]
         /\ ToSet(t) \subseteq ToSet(s)
         /\ m > 0 => s[i] \notin ToSet(t)
         /\ m = 1 => ToSet(t) = ToSet(s) \ {s[i]}
<1>0. /\ t \in Seq(A) /\ Len(t) = Len(s) - m
      /\ \A j \in 1..i - 1 : t[j] = s[j]
      /\ \A j \in i..Len(t) : t[j] = s[j + m]
  BY CutIs
<1>. DEFINE n == Len(s)
            at(j) == IF j < i THEN j ELSE j + m
<1>1. t \in Seq(A) /\ Len(t) = n - m /\ n \in Nat /\ i \in Nat
  BY <1>0
<1>2. ASSUME NEW j \in 1..Len(t) PROVE at(j) \in 1..n /\ t[j] = s[at(j)]
  <2>2. CASE j < i
    <3>1. j \in 1..i - 1 /\ j \in 1..n
      BY <1>1, <2>2
    <3>. QED
      BY <1>0, <2>2, <3>1
  <2>3. CASE ~(j < i)
    <3>1. j \in i..Len(t) /\ j + m \in 1..n
      BY <1>1, <2>3
    <3>. QED
      BY <1>0, <2>3, <3>1
  <2>. QED
    BY <2>2, <2>3
<1>3. \A j, k \in 1..Len(t) : at(j) = at(k) => j = k
  BY <1>1
<1>4. m > 0 => \A j \in 1..Len(t) : at(j) # i
  BY <1>1
<1>5. m = 1 => \A k \in 1..n : k # i => \E j \in 1..Len(t) : at(j) = k
  <2>. SUFFICES ASSUME m = 1, NEW k \in 1..n, k # i PROVE \E j \in 1..Len(t) : at(j) = k
    OBVIOUS
  <2>1. CASE k < i
    <3>1. k \in 1..Len(t) /\ at(k) = k
      BY <1>1, <2>1
    <3>. QED
      BY <3>1
  <2>2. CASE ~(k < i)
    <3>1. k - 1 \in 1..Len(t) /\ at(k - 1) = k
      BY <1>1, <2>2
    <3>. QED
      BY <3>1
  <2>. QED
    BY <2>1, <2>2
<1>6. DOMAIN t = 1..Len(t) /\ DOMAIN s = 1..n
  BY <1>1
<1>. HIDE DEF at, n
<1>7. n = Len(s)
  BY DEF n
<1>8. Once(t)
  BY <1>2, <1>3, <1>7 DEF Once
<1>9. ToSet(t) \subseteq ToSet(s)
  BY <1>2, <1>6 DEF ToSet
<1>10. m > 0 => s[i] \notin ToSet(t)
  <2>. SUFFICES ASSUME m > 0, NEW j \in 1..Len(t), t[j] = s[i] PROVE FALSE
    BY <1>6 DEF ToSet
  <2>1. at(j) \in 1..Len(s) /\ s[at(j)] = s[i]
    BY <1>2, <1>7
  <2>. QED
    BY <1>4, <2>1 DEF Once
<1>11. m = 1 => ToSet(t) = ToSet(s) \ {s[i]}
  <2>. SUFFICES ASSUME m = 1 PROVE ToSet(t) = ToSet(s) \ {s[i]}
    OBVIOUS
  <2>1. ASSUME NEW k \in 1..n, s[k] # s[i] PROVE s[k] \in ToSet(t)
    <3>1. PICK j \in 1..Len(t) : at(j) = k
      BY <1>5, <2>1
    <3>. QED
      BY <1>2, <1>6, <3>1 DEF ToSet
  <2>2. ToSet(s) \ {s[i]} \subseteq ToSet(t)
    BY <1>6, <2>1 DEF ToSet
  <2>. QED
    BY <1>9, <1>10, <2>2
<1>. QED
  BY <1>0, <1>8, <1>9, <1>10, <1>11

(* ArrayList.remove takes the one element that is given.                   *)
LEMMA FirstRemoved ==
  ASSUME NEW A, NEW s \in Seq(A), Once(s), NEW e
  PROVE  /\ RemoveFirst(s, e) \in Seq(A) /\ Once(RemoveFirst(s, e))
         /\ ToSet(RemoveFirst(s, e)) = ToSet(s) \ {e}
<1>1. CASE ~\E i \in 1..Len(s) : s[i] = e
  <2>1. RemoveFirst(s, e) = s
    BY <1>1 DEF RemoveFirst
  <2>2. e \notin ToSet(s)
    BY <1>1 DEF ToSet
  <2>. QED
    BY <2>1, <2>2
<1>2. ASSUME NEW k \in 1..Len(s), s[k] = e
      PROVE  /\ RemoveFirst(s, e) \in Seq(A) /\ Once(RemoveFirst(s, e))
             /\ ToSet(RemoveFirst(s, e)) = ToSet(s) \ {e}
  <2>1. {i \in 1..Len(s) : s[i] = e} = {k}
    BY <1>2 DEF Once
  <2>2. SelectInSeq(s, LAMBDA v : v = e) = k
    <3>1. Min({k}) = k
      BY DEF Min
    <3>. QED
      BY <2>1, <3>1 DEF SelectInSeq
  <2>3. RemoveFirst(s, e) = SubSeq(s, 1, k - 1) \o SubSeq(s, k + 1, Len(s))
    BY <1>2, <2>2 DEF RemoveFirst, RemoveAt
  <2>. DEFINE t == RemoveFirst(s, e)
  <2>4. Cuts(t, s, k, 1)
    BY <2>3 DEF Cuts
  <2>5. k + 1 <= Len(s) + 1 /\ 1 \in Nat
    OBVIOUS
  <2>. HIDE DEF t
  <2>6. t \in Seq(A) /\ Once(t) /\ ToSet(t) = ToSet(s) \ {s[k]}
    BY <2>4, <2>5, CutKeepsOnce
  <2>. QED
    BY <1>2, <2>6 DEF t
<1>. QED
  BY <1>1, <1>2

(* A new element on top.                                                   *)
LEMMA OneMore ==
  ASSUME NEW A, NEW s \in Seq(A), Once(s), NEW e \in A, e \notin ToSet(s)
  PROVE  /\ Append(s, e) \in Seq(A) /\ Once(Append(s, e))
         /\ ToSet(Append(s, e)) = ToSet(s) \cup {e}
<1>. DEFINE t == Append(s, e)
            n == Len(s)
<1>1. n \in Nat /\ t \in Seq(A) /\ Len(t) = n + 1 /\ t[n + 1] = e
  OBVIOUS
<1>2. \A i \in 1..n : t[i] = s[i]
  OBVIOUS
<1>3. DOMAIN s = 1..n /\ DOMAIN t = 1..n + 1 /\ 1..n + 1 = (1..n) \cup {n + 1}
  BY <1>1
<1>4. n = Len(s)
  OBVIOUS
<1>. HIDE DEF t, n
<1>5. \A i \in 1..n : s[i] # e
  BY <1>3 DEF ToSet
<1>6. Once(t)
  BY <1>1, <1>2, <1>3, <1>4, <1>5 DEF Once
<1>7. ToSet(t) = ToSet(s) \cup {e}
  BY <1>1, <1>2, <1>3 DEF ToSet
<1>. QED
  BY <1>1, <1>6, <1>7 DEF t

(* All but the one on top.                                                 *)
LEMMA BelowTop ==
  ASSUME NEW A, NEW s \in Seq(A), Once(s), s # <<>>
  PROVE  Last(s) \in ToSet(s) /\ ToSet(Front(s)) \subseteq ToSet(s) \ {Last(s)}
<1>. DEFINE t == SubSeq(s, 1, Len(s) - 1)
<1>1. Len(s) \in Nat /\ Len(s) # 0 /\ DOMAIN s = 1..Len(s)
  OBVIOUS
<1>2. DOMAIN t = 1..Len(s) - 1 /\ \A i \in 1..Len(s) - 1 : t[i] = s[i]
  BY <1>1
<1>3. ASSUME NEW i \in 1..Len(s) - 1 PROVE s[i] \in ToSet(s) /\ s[i] # s[Len(s)]
  <2>1. i \in 1..Len(s) /\ Len(s) \in 1..Len(s) /\ i # Len(s)
    <3>. DEFINE n == Len(s)
    <3>1. n \in Nat /\ n # 0 /\ i \in 1..n - 1
      BY <1>1
    <3>. HIDE DEF n
    <3>2. i \in 1..n /\ n \in 1..n /\ i # n
      BY <3>1
    <3>. QED
      BY <3>2 DEF n
  <2>. QED
    BY <1>1, <2>1 DEF Once, ToSet
<1>4. ToSet(t) \subseteq ToSet(s) \ {s[Len(s)]}
  <2>. HIDE DEF t
  <2>1. \A e \in ToSet(t) : \E i \in 1..Len(s) - 1 : e = s[i]
    BY <1>2 DEF ToSet
  <2>. QED
    BY <1>3, <2>1
<1>5. s[Len(s)] \in ToSet(s)
  <2>1. Len(s) \in 1..Len(s)
    BY <1>1
  <2>. QED
    BY <1>1, <2>1 DEF ToSet
<1>. QED
  BY <1>4, <1>5 DEF Last, Front

(* An iteration that removes: what is left is what is not gone.            *)
LEMMA IterationRemoves ==
  ASSUME NEW A, NEW s \in Seq(A), Once(s), NEW gone
  PROVE  /\ Without(s, gone) \in Seq(A) /\ Once(Without(s, gone))
         /\ ToSet(Without(s, gone)) = ToSet(s) \ gone
<1>. DEFINE n == Len(s)
            S == Seq(A)
            step == [x \in (1..n) \X S |->
                       IF s[x[1]] \in gone THEN x[2] ELSE Append(x[2], s[x[1]])]
            body(f, i) == CASE i = 0 -> <<>>
                            [] i > 0 /\ s[i] \in gone -> f[i - 1]
                            [] OTHER -> Append(f[i - 1], s[i])
            makes(f) == f = [i \in 0..n |-> body(f, i)]
            left == CHOOSE f : makes(f)
            Upto(i) == {s[j] : j \in 1..i}
            Right(i) == left[i] \in S /\ Once(left[i]) /\ ToSet(left[i]) = Upto(i) \ gone
            T == {i \in 0..n : Right(i)}
<1>1. n \in Nat /\ DOMAIN s = 1..n /\ \A i \in 1..n : s[i] \in A
  OBVIOUS
<1>2. <<>> \in S /\ \A x \in S, e \in A : Append(x, e) \in S
  OBVIOUS
<1>3. step \in [(1..n) \X S -> S]
  <2>. HIDE DEF n, S
  <2>. QED
    BY <1>1, <1>2
<1>4. PICK f \in [0..n -> S] : Steps(f, n, <<>>, step)
  <2>. HIDE DEF n, S, step
  <2>. QED
    BY <1>1, <1>2, <1>3, StepByStep
<1>5. \A i \in 0..n : f[i] = body(f, i)
  <2>. SUFFICES ASSUME NEW i \in 0..n PROVE f[i] = body(f, i)
    OBVIOUS
  <2>1. f[i] = IF i = 0 THEN <<>> ELSE step[<<i, f[i - 1]>>]
    <3>. HIDE DEF n, S, step
    <3>. QED
      BY <1>4 DEF Steps
  <2>2. CASE i = 0
    BY <2>1, <2>2
  <2>3. CASE i # 0
    <3>1. i \in 1..n /\ i > 0 /\ f[i - 1] \in S
      BY <1>1, <2>3
    <3>2. step[<<i, f[i - 1]>>] = IF s[i] \in gone THEN f[i - 1] ELSE Append(f[i - 1], s[i])
      <4>. HIDE DEF n, S
      <4>. QED
        BY <3>1
    <3>. QED
      BY <2>1, <2>3, <3>1, <3>2
  <2>. QED
    BY <2>2, <2>3
<1>6. makes(f)
  <2>. HIDE DEF body, n, S
  <2>1. f = [i \in 0..n |-> f[i]]
    BY <1>4
  <2>. QED
    BY <1>5, <2>1
<1>7. makes(left)
  <2>. HIDE DEF makes
  <2>. QED
    BY <1>6
<1>8. Without(s, gone) = left[n]
  BY DEF Without
<1>. HIDE DEF left
<1>9. \A i \in 0..n : left[i] = body(left, i)
  <2>. HIDE DEF body
  <2>. QED
    BY <1>7
<1>10. 0 \in T
  <2>1. left[0] = <<>>
    BY <1>1, <1>9
  <2>2. Once(<<>>) /\ ToSet(<<>>) = {} /\ Upto(0) = {}
    BY DEF Once, ToSet
  <2>3. Right(0)
    <3>1. ToSet(<<>>) = Upto(0) \ gone
      BY <2>2
    <3>. HIDE DEF Upto, S
    <3>. QED
      BY <1>2, <2>1, <2>2, <3>1
  <2>4. 0 \in 0..n
    BY <1>1
  <2>. HIDE DEF Right
  <2>. QED
    BY <2>3, <2>4
<1>11. ASSUME NEW i \in 1..n, i - 1 \in T PROVE i \in T
  <2>1. i \in 0..n /\ i > 0 /\ i # 0 /\ i \in Nat /\ 1..i = (1..i - 1) \cup {i}
    BY <1>1
  <2>2. left[i - 1] \in S /\ Once(left[i - 1]) /\ ToSet(left[i - 1]) = Upto(i - 1) \ gone
    BY <1>11
  <2>3. Upto(i) = Upto(i - 1) \cup {s[i]}
    BY <2>1
  <2>4. CASE s[i] \in gone
    <3>1. left[i] = left[i - 1]
      BY <1>9, <2>1, <2>4
    <3>2. Upto(i) \ gone = Upto(i - 1) \ gone
      <4>. HIDE DEF Upto
      <4>. QED
        BY <2>3, <2>4
    <3>. HIDE DEF Upto
    <3>. QED
      BY <2>1, <2>2, <3>1, <3>2
  <2>5. CASE s[i] \notin gone
    <3>1. left[i] = Append(left[i - 1], s[i])
      BY <1>9, <2>1, <2>5
    <3>2. s[i] \notin Upto(i - 1)
      <4>1. ASSUME NEW j \in 1..i - 1 PROVE s[j] # s[i]
        <5>1. j \in 1..n /\ j # i
          BY <1>1
        <5>. QED
          BY <5>1 DEF Once
      <4>. QED
        BY <4>1
    <3>3. s[i] \notin ToSet(left[i - 1]) /\ s[i] \in A
      <4>. HIDE DEF Upto
      <4>. QED
        BY <1>1, <2>2, <3>2
    <3>4. /\ left[i] \in S /\ Once(left[i])
          /\ ToSet(left[i]) = ToSet(left[i - 1]) \cup {s[i]}
      BY <2>2, <3>1, <3>3, OneMore
    <3>5. Upto(i) \ gone = (Upto(i - 1) \ gone) \cup {s[i]}
      <4>. HIDE DEF Upto
      <4>. QED
        BY <2>3, <2>5
    <3>. HIDE DEF Upto, S
    <3>. QED
      BY <2>1, <2>2, <3>4, <3>5
  <2>. QED
    BY <2>4, <2>5
<1>12. \A i \in 0..n : i \in T
  <2>. HIDE DEF T, n
  <2>. QED
    BY <1>1, <1>10, <1>11, Upward
<1>13. Right(n)
  <2>1. n \in 0..n
    BY <1>1
  <2>. HIDE DEF Right, n
  <2>. QED
    BY <1>12, <2>1
<1>14. Upto(n) = ToSet(s)
  BY <1>1 DEF ToSet
<1>. QED
  <2>. HIDE DEF Upto, n
  <2>. QED
    BY <1>8, <1>13, <1>14

(* finishOtherActivity(Class...), when the iteration has looked at the k    *)
(* activities on top: the ones below are where they were, unless it threw;  *)
(* with one class given, it does not throw, and what left the stack is gone *)
(* and of another class.                                                    *)
Removal ==
  [stack : Seq(Activities), gone : SUBSET Activities, thrown : {"no", "IndexOutOfBounds"}]

Removes(s) ==
  /\ s \in Removal /\ Once(s.stack) /\ ToSet(s.stack) \subseteq OnStack
  /\ s.gone \subseteq OnStack /\ ToSet(s.stack) \cap s.gone = {}
Below(s, m) ==
  s.thrown = "no" => Len(s.stack) >= m /\ \A j \in 1..m : s.stack[j] = activityStack[j]
KeepsClass(s, classes) ==
  \A c : classes = {c} =>
    /\ s.thrown = "no" /\ OnStack \ ToSet(s.stack) \subseteq s.gone
    /\ \A a \in s.gone : ClassOf(a) # c

Partway(s, k, classes) ==
  Removes(s) /\ Below(s, Len(activityStack) - k) /\ KeepsClass(s, classes)

(* An activity misses at most every class given.                           *)
LEMMA MissesIs ==
  ASSUME IsFiniteSet(Classes), NEW classes \in SUBSET Classes, NEW a
  PROVE  /\ Misses(a, classes) \in Nat
         /\ \A c : classes = {c} => /\ Misses(a, classes) <= 1
                                    /\ Misses(a, classes) > 0 => ClassOf(a) # c
<1>. DEFINE missed == {c \in classes : ClassOf(a) # c}
<1>1. missed \subseteq Classes
  OBVIOUS
<1>2. IsFiniteSet(missed) /\ Cardinality(missed) \in Nat
  <2>. HIDE DEF missed
  <2>. QED
    BY <1>1, FS_Subset, FS_CardinalityType
<1>3. ASSUME NEW c, classes = {c}
      PROVE  Cardinality(missed) <= 1 /\ (Cardinality(missed) > 0 => ClassOf(a) # c)
  <2>1. CASE ClassOf(a) = c
    <3>1. missed = {}
      BY <1>3, <2>1
    <3>2. Cardinality(missed) = 0
      BY <3>1, FS_EmptySet
    <3>. HIDE DEF missed
    <3>. QED
      BY <3>2
  <2>2. CASE ClassOf(a) # c
    <3>1. missed = {c}
      BY <1>3, <2>2
    <3>2. Cardinality(missed) = 1
      BY <3>1, FS_Singleton
    <3>. HIDE DEF missed
    <3>. QED
      BY <2>2, <3>2
  <2>. QED
    BY <2>1, <2>2
<1>4. Misses(a, classes) = Cardinality(missed)
  BY DEF Misses
<1>. HIDE DEF missed
<1>. QED
  BY <1>2, <1>3, <1>4

(* One more look, at the activity below: it goes if it misses a class, and  *)
(* what follows it with it, if it misses several.                          *)
LEMMA LooksAt ==
  ASSUME IsFiniteSet(Classes), NEW classes \in SUBSET Classes,
         activityStack \in Seq(Activities), NEW k \in 1..Len(activityStack), NEW s,
         Partway(s, k - 1, classes)
  PROVE  Partway(RemoveMissing(s, Len(activityStack) + 1 - k, classes), k, classes)
<1>. DEFINE n == Len(activityStack)
            i == n + 1 - k
            m == Misses(s.stack[i], classes)
            g == s.gone \cup {s.stack[i]}
            r == RemoveMissing(s, i, classes)
<1>. SUFFICES Partway(r, k, classes)
  OBVIOUS
<1>1. n \in Nat /\ k \in 1..n /\ i \in 1..n /\ n - (k - 1) = i /\ n - k = i - 1
  OBVIOUS
<1>2. Removes(s) /\ Below(s, i) /\ KeepsClass(s, classes)
  <2>. HIDE DEF n, i
  <2>. QED
    BY <1>1 DEF Partway, n
<1>3. /\ m \in Nat
      /\ \A c : classes = {c} => m <= 1 /\ (m > 0 => ClassOf(s.stack[i]) # c)
  BY MissesIs
<1>4. /\ s \in Removal /\ s.stack \in Seq(Activities) /\ s.gone \in SUBSET Activities
      /\ Once(s.stack) /\ ToSet(s.stack) \subseteq OnStack /\ s.gone \subseteq OnStack
      /\ ToSet(s.stack) \cap s.gone = {}
  BY <1>2 DEF Removes, Removal
<1>5. \A a \in OnStack : a \in Activities
  BY DEF OnStack, ToSet
<1>6. ASSUME r = s PROVE Partway(r, k, classes)
  <2>1. Below(s, i - 1)
    <3>. HIDE DEF i
    <3>. QED
      BY <1>1, <1>2, <1>4 DEF Below
  <2>. HIDE DEF i, n, r
  <2>. QED
    BY <1>1, <1>2, <1>6, <2>1 DEF Partway, n
<1>7. ASSUME s.thrown = "no", m # 0,
             NEW t, NEW d \in Nat, d > 0, i + d <= Len(s.stack) + 1, Cuts(t, s.stack, i, d),
             NEW e \in {"no", "IndexOutOfBounds"},
             r = [stack |-> t, gone |-> g, thrown |-> e],
             m <= 1 => d = 1 /\ e = "no"
      PROVE  Partway(r, k, classes)
  <2>. HIDE DEF i, n, m, r
  <2>1. Len(s.stack) >= i /\ i \in 1..Len(s.stack) /\ Len(s.stack) \in Nat
    BY <1>1, <1>2, <1>4, <1>7 DEF Below
  <2>0. /\ s.stack \in Seq(Activities) /\ d \in Nat /\ i \in 1..Len(s.stack)
        /\ i + d <= Len(s.stack) + 1 /\ Cuts(t, s.stack, i, d) /\ Once(s.stack)
    BY <1>4, <1>7, <2>1
  <2>2. /\ t \in Seq(Activities) /\ Once(t)
        /\ Len(t) = Len(s.stack) - d /\ \A j \in 1..i - 1 : t[j] = s.stack[j]
        /\ ToSet(t) \subseteq ToSet(s.stack)
        /\ d > 0 => s.stack[i] \notin ToSet(t)
        /\ d = 1 => ToSet(t) = ToSet(s.stack) \ {s.stack[i]}
    <3>. DEFINE q == s.stack
    <3>1. /\ q \in Seq(Activities) /\ d \in Nat /\ i \in 1..Len(q)
          /\ i + d <= Len(q) + 1 /\ Cuts(t, q, i, d) /\ Once(q)
      BY <2>0
    <3>. HIDE DEF q
    <3>2. /\ t \in Seq(Activities) /\ Once(t)
          /\ Len(t) = Len(q) - d /\ \A j \in 1..i - 1 : t[j] = q[j]
          /\ ToSet(t) \subseteq ToSet(q)
          /\ d > 0 => q[i] \notin ToSet(t)
          /\ d = 1 => ToSet(t) = ToSet(q) \ {q[i]}
      BY <3>1, CutKeepsOnce
    <3>. QED
      BY <3>2 DEF q
  <2>3. d > 0
    BY <1>7
  <2>4. s.stack[i] \in ToSet(s.stack)
    <3>1. DOMAIN s.stack = 1..Len(s.stack)
      BY <1>4
    <3>. QED
      BY <2>1, <3>1 DEF ToSet
  <2>5. r.stack = t /\ r.gone = g /\ r.thrown = e
    BY <1>7
  <2>6. g \subseteq OnStack /\ g \in SUBSET Activities
    BY <1>4, <1>5, <2>4
  <2>7. ToSet(t) \cap g = {}
    BY <1>4, <2>2, <2>3
  <2>8. Removes(r)
    <3>. HIDE DEF g
    <3>1. r \in Removal
      BY <1>7, <2>2, <2>6 DEF Removal
    <3>. QED
      BY <1>4, <2>2, <2>5, <2>6, <2>7, <3>1 DEF Removes
  <2>9. Below(r, i - 1)
    <3>1. Len(t) >= i - 1
      BY <1>1, <1>7, <2>1, <2>2
    <3>2. \A j \in 1..i - 1 : s.stack[j] = activityStack[j]
      <4>1. \A j \in 1..i : s.stack[j] = activityStack[j]
        BY <1>2, <1>7 DEF Below
      <4>2. \A j \in 1..i - 1 : j \in 1..i
        BY <1>1
      <4>. QED
        BY <4>1, <4>2
    <3>. QED
      BY <2>2, <2>5, <3>1, <3>2 DEF Below
  <2>10. KeepsClass(r, classes)
    <3>. SUFFICES ASSUME NEW c, classes = {c}
                  PROVE  /\ r.thrown = "no" /\ OnStack \ ToSet(r.stack) \subseteq r.gone
                         /\ \A a \in r.gone : ClassOf(a) # c
      BY DEF KeepsClass
    <3>0. m <= 1 /\ (m > 0 => ClassOf(s.stack[i]) # c)
      BY <1>3
    <3>1. d = 1 /\ e = "no" /\ ClassOf(s.stack[i]) # c
      <4>1. m > 0
        BY <1>3, <1>7
      <4>. QED
        BY <1>7, <3>0, <4>1
    <3>2. OnStack \ ToSet(s.stack) \subseteq s.gone /\ \A a \in s.gone : ClassOf(a) # c
      BY <1>2 DEF KeepsClass
    <3>. QED
      BY <2>2, <2>5, <3>1, <3>2
  <2>. QED
    BY <1>1, <2>8, <2>9, <2>10 DEF Partway, n
<1>8. CASE s.thrown # "no" \/ m = 0
  <2>1. r = s
    BY <1>8 DEF RemoveMissing
  <2>. QED
    BY <1>6, <2>1
<1>9. CASE s.thrown = "no" /\ m # 0 /\ i + m - 1 > Len(s.stack)
  <2>. DEFINE t == SubSeq(s.stack, 1, i - 1)
              d == Len(s.stack) + 1 - i
  <2>1. r = [stack |-> t, gone |-> g, thrown |-> "IndexOutOfBounds"]
    <3>1. m > 0
      BY <1>3, <1>9
    <3>. QED
      BY <1>9, <3>1 DEF RemoveMissing
  <2>2. Len(s.stack) >= i /\ Len(s.stack) \in Nat
    <3>. HIDE DEF i
    <3>. QED
      BY <1>1, <1>2, <1>4, <1>9 DEF Below
  <2>3. d \in Nat /\ d > 0 /\ i + d = Len(s.stack) + 1 /\ m > 1
    <3>. HIDE DEF m, i
    <3>. QED
      BY <1>1, <1>3, <1>9, <2>2
  <2>4. t \in Seq(Activities)
    <3>. HIDE DEF i
    <3>. QED
      BY <1>1, <1>4, <2>2
  <2>5. SubSeq(s.stack, i + d, Len(s.stack)) = <<>>
    <3>. HIDE DEF i, d
    <3>. QED
      BY <1>4, <2>2, <2>3
  <2>6. Cuts(t, s.stack, i, d)
    <3>1. t = t \o <<>>
      <4>. HIDE DEF t
      <4>. QED
        BY <2>4
    <3>. QED
      BY <2>5, <3>1 DEF Cuts
  <2>. HIDE DEF t, d, i, m, g, r
  <2>7. d > 0 /\ i + d <= Len(s.stack) + 1 /\ ~(m <= 1)
    BY <1>1, <1>3, <2>2, <2>3
  <2>8. "IndexOutOfBounds" \in {"no", "IndexOutOfBounds"}
    OBVIOUS
  <2>. QED
    BY <1>7, <1>9, <2>1, <2>3, <2>6, <2>7, <2>8
<1>10. CASE s.thrown = "no" /\ m # 0 /\ ~(i + m - 1 > Len(s.stack))
  <2>. DEFINE t == SubSeq(s.stack, 1, i - 1) \o SubSeq(s.stack, i + m, Len(s.stack))
  <2>1. r = [s EXCEPT !.stack = t, !.gone = g]
    BY <1>10 DEF RemoveMissing
  <2>2. r = [stack |-> t, gone |-> g, thrown |-> "no"]
    <3>. HIDE DEF t, g, r
    <3>. QED
      BY <1>4, <1>10, <2>1 DEF Removal
  <2>3. Cuts(t, s.stack, i, m)
    BY DEF Cuts
  <2>4. m > 0 /\ i + m <= Len(s.stack) + 1
    <3>. HIDE DEF i, m
    <3>1. Len(s.stack) \in Nat
      BY <1>4
    <3>. QED
      BY <1>1, <1>3, <1>10, <3>1
  <2>5. m <= 1 => m = 1
    <3>. HIDE DEF m
    <3>. QED
      BY <1>3, <1>10
  <2>. HIDE DEF t, i, m, g, r
  <2>6. m <= 1 => m = 1 /\ "no" = "no"
    BY <2>5
  <2>7. "no" \in {"no", "IndexOutOfBounds"}
    OBVIOUS
  <2>. QED
    BY <1>3, <1>7, <1>10, <2>2, <2>3, <2>4, <2>6, <2>7
<1>. HIDE DEF r, m, i
<1>. QED
  BY <1>8, <1>9, <1>10

(* The whole iteration.                                                    *)
LEMMA OthersRemoved ==
  ASSUME IsFiniteSet(Classes), NEW classes \in SUBSET Classes,
         activityStack \in Seq(Activities), Once(activityStack), FinishOtherClasses(classes)
  PROVE  \E r \in Removal :
           /\ activityStack' = r.stack /\ finished' = finished \cup r.gone
           /\ Removes(r) /\ KeepsClass(r, classes)
<1>. DEFINE n == Len(activityStack)
            base == [stack |-> activityStack, gone |-> {}, thrown |-> "no"]
            look(s, k) == RemoveMissing(s, n + 1 - k, classes)
            step == [x \in (1..n) \X Removal |->
                       IF look(x[2], x[1]) \in Removal THEN look(x[2], x[1]) ELSE base]
            body(f, k) == IF k = 0 THEN base ELSE look(f[k - 1], k)
            makes(f) == f = [k \in 0..n |-> body(f, k)]
            after == CHOOSE f : makes(f)
<1>1. n \in Nat /\ activityStack \in Seq(Activities)
  OBVIOUS
<1>2. base \in Removal
  BY <1>1 DEF Removal
<1>3. Partway(base, 0, classes)
  <2>1. base.stack = activityStack /\ base.gone = {} /\ base.thrown = "no"
    OBVIOUS
  <2>2. Removes(base)
    <3>. HIDE DEF base
    <3>. QED
      BY <1>2, <2>1 DEF Removes, OnStack
  <2>3. Below(base, n - 0)
    <3>. HIDE DEF base
    <3>. QED
      BY <1>1, <2>1 DEF Below
  <2>4. KeepsClass(base, classes)
    <3>. HIDE DEF base
    <3>. QED
      BY <2>1 DEF KeepsClass, OnStack
  <2>. HIDE DEF base
  <2>. QED
    BY <2>2, <2>3, <2>4 DEF Partway
<1>4. ASSUME NEW s, NEW k \in 1..n, Partway(s, k - 1, classes)
      PROVE  Partway(look(s, k), k, classes) /\ look(s, k) \in Removal
  <2>1. Partway(look(s, k), k, classes)
    BY <1>1, <1>4, LooksAt
  <2>. HIDE DEF look
  <2>. QED
    BY <2>1 DEF Partway, Removes
<1>. HIDE DEF look, base, n
<1>5. ASSUME NEW f, f[0] = base,
             \A k \in 1..n : look(f[k - 1], k) \in Removal => f[k] = look(f[k - 1], k)
      PROVE  \A k \in 0..n : Partway(f[k], k, classes)
  <2>. DEFINE T == {k \in 0..n : Partway(f[k], k, classes)}
  <2>1. 0 \in T
    BY <1>1, <1>3, <1>5
  <2>2. ASSUME NEW k \in 1..n, k - 1 \in T PROVE k \in T
    <3>1. Partway(f[k - 1], k - 1, classes)
      BY <2>2
    <3>2. Partway(look(f[k - 1], k), k, classes) /\ look(f[k - 1], k) \in Removal
      BY <1>4, <3>1
    <3>3. f[k] = look(f[k - 1], k) /\ k \in 0..n
      BY <1>1, <1>5, <3>2
    <3>. QED
      BY <3>2, <3>3
  <2>. HIDE DEF T
  <2>3. \A k \in 0..n : k \in T
    BY <1>1, <2>1, <2>2, Upward
  <2>. QED
    BY <2>3 DEF T
<1>6. step \in [(1..n) \X Removal -> Removal]
  BY <1>2
<1>7. PICK f \in [0..n -> Removal] : Steps(f, n, base, step)
  <2>. HIDE DEF step
  <2>. QED
    BY <1>1, <1>2, <1>6, StepByStep
<1>8. f[0] = base /\ \A k \in 1..n : look(f[k - 1], k) \in Removal => f[k] = look(f[k - 1], k)
  <2>1. \A k \in 0..n : f[k] = IF k = 0 THEN base ELSE step[<<k, f[k - 1]>>]
    <3>. HIDE DEF step
    <3>. QED
      BY <1>7 DEF Steps
  <2>2. ASSUME NEW k \in 1..n, look(f[k - 1], k) \in Removal PROVE f[k] = look(f[k - 1], k)
    <3>1. k \in 0..n /\ k # 0 /\ f[k - 1] \in Removal
      BY <1>1
    <3>2. step[<<k, f[k - 1]>>] = look(f[k - 1], k)
      BY <2>2, <3>1
    <3>. HIDE DEF step
    <3>. QED
      BY <2>1, <3>1, <3>2
  <2>. QED
    BY <1>1, <2>1, <2>2
<1>9. makes(f)
  <2>1. \A k \in 0..n : Partway(f[k], k, classes)
    BY <1>5, <1>8
  <2>2. ASSUME NEW k \in 0..n PROVE f[k] = body(f, k)
    <3>1. CASE k = 0
      BY <1>8, <3>1
    <3>2. CASE k # 0
      <4>1. k \in 1..n /\ k - 1 \in 0..n
        BY <1>1, <3>2
      <4>2. look(f[k - 1], k) \in Removal
        BY <1>4, <2>1, <4>1
      <4>. QED
        BY <1>8, <3>2, <4>1, <4>2
    <3>. QED
      BY <3>1, <3>2
  <2>3. f = [k \in 0..n |-> f[k]]
    BY <1>7
  <2>. HIDE DEF body
  <2>. QED
    BY <2>2, <2>3
<1>10. makes(after)
  <2>. HIDE DEF makes
  <2>. QED
    BY <1>9
<1>11. activityStack' = after[n].stack /\ finished' = finished \cup after[n].gone
  BY DEF FinishOtherClasses, n, base, look
<1>. HIDE DEF after
<1>12. \A k \in 0..n : after[k] = body(after, k)
  <2>. HIDE DEF body
  <2>. QED
    BY <1>10
<1>13. after[0] = base /\ \A k \in 1..n : after[k] = look(after[k - 1], k)
  BY <1>1, <1>12
<1>14. Partway(after[n], n, classes)
  BY <1>1, <1>5, <1>13
<1>15. Removes(after[n]) /\ KeepsClass(after[n], classes) /\ after[n] \in Removal
  BY <1>14 DEF Partway, Removes
<1>. QED
  BY <1>11, <1>15

-----------------------------------------------------------------------------
(* The inductive invariant: the stack holds, once each, activities that     *)
(* live and were not asked to finish; and as long as no call was given      *)
(* several things to keep, all of those, and what it was to keep.           *)
OnceEach == activityStack \in Seq(Activities) /\ Once(activityStack)
Living ==
  /\ OnStack \subseteq living \ finished
  /\ living \subseteq created /\ finished \subseteq created /\ several \in BOOLEAN
Tracked == ~several => living \ OnStack \subseteq finished /\ kept \subseteq OnStack

StackInv == OnceEach /\ Living /\ Tracked

(* A stack from which some activities were removed and finished.           *)
LEMMA RemovedFinished ==
  ASSUME StackInv, NEW gone, gone \subseteq OnStack,
         finished' = finished \cup gone, OnceEach',
         OnStack' \subseteq OnStack \ gone, UNCHANGED <<living, created>>,
         several' \in BOOLEAN,
         ~several' => ~several /\ OnStack \ OnStack' \subseteq gone /\ kept' \subseteq OnStack'
  PROVE  StackInv'
<1>1. Living'
  BY DEF StackInv, Living
<1>2. Tracked'
  BY DEF StackInv, Living, Tracked
<1>. QED
  BY <1>1, <1>2 DEF StackInv

(* The activities of the stack after an operation, as a set.               *)
LEMMA StackIs ==
  ASSUME NEW s, activityStack' = s, s \in Seq(Activities), Once(s)
  PROVE  OnceEach' /\ OnStack' = ToSet(s)
BY DEF OnceEach, OnStack, Once

LEMMA AddKeeps ==
  ASSUME StackInv, NEW a \in Activities, AddActivity(a) PROVE StackInv'
<1>1. activityStack \in Seq(Activities) /\ Once(activityStack) /\ a \notin OnStack
  BY DEF StackInv, OnceEach, Living, AddActivity
<1>2. /\ Append(activityStack, a) \in Seq(Activities) /\ Once(Append(activityStack, a))
      /\ ToSet(Append(activityStack, a)) = OnStack \cup {a}
  BY <1>1, OneMore DEF OnStack
<1>3. activityStack' = Append(activityStack, a)
  BY DEF AddActivity
<1>4. OnceEach' /\ OnStack' = OnStack \cup {a}
  BY <1>2, <1>3, StackIs
<1>5. Living'
  BY <1>4 DEF StackInv, Living, AddActivity
<1>6. Tracked'
  BY <1>4 DEF StackInv, Living, Tracked, AddActivity
<1>. QED
  BY <1>4, <1>5, <1>6 DEF StackInv

(* An activity that is removed and finished.                               *)
LEMMA RemoveIs ==
  ASSUME OnceEach, NEW a, activityStack' = RemoveFirst(activityStack, a)
  PROVE  OnceEach' /\ OnStack' = OnStack \ {a}
<1>. DEFINE s == RemoveFirst(activityStack, a)
<1>1. s \in Seq(Activities) /\ Once(s) /\ ToSet(s) = ToSet(activityStack) \ {a}
  BY FirstRemoved DEF OnceEach
<1>2. activityStack' = s
  OBVIOUS
<1>. HIDE DEF s
<1>3. OnceEach' /\ OnStack' = ToSet(s)
  BY <1>1, <1>2, StackIs
<1>. QED
  BY <1>1, <1>3 DEF OnStack

LEMMA DestroyKeeps ==
  ASSUME StackInv, NEW a \in Activities, DestroyActivity(a) PROVE StackInv'
<1>1. activityStack' = RemoveFirst(activityStack, a)
  BY DEF DestroyActivity
<1>2. OnceEach
  BY DEF StackInv
<1>3. OnceEach' /\ OnStack' = OnStack \ {a}
  BY <1>1, <1>2, RemoveIs
<1>4. Living'
  BY <1>3 DEF StackInv, Living, DestroyActivity
<1>5. Tracked'
  BY <1>3 DEF StackInv, Tracked, DestroyActivity
<1>. QED
  BY <1>3, <1>4, <1>5 DEF StackInv

LEMMA FinishTopKeeps ==
  ASSUME StackInv, FinishTopActivity PROVE StackInv'
<1>. DEFINE a == Last(activityStack)
<1>1. activityStack' = RemoveFirst(activityStack, a) /\ finished' = finished \cup {a}
  BY DEF FinishTopActivity
<1>2. activityStack \in Seq(Activities) /\ Once(activityStack) /\ activityStack # <<>>
  BY DEF StackInv, OnceEach, FinishTopActivity
<1>3. a \in OnStack /\ ToSet(Front(activityStack)) \subseteq OnStack \ {a}
  BY <1>2, BelowTop DEF OnStack
<1>4. UNCHANGED <<living, created, several>> /\ kept' = ToSet(Front(activityStack))
  BY DEF FinishTopActivity
<1>5. several' \in BOOLEAN
  BY <1>4 DEF StackInv, Living
<1>. HIDE DEF a
<1>6. OnceEach
  BY DEF StackInv
<1>7. OnceEach' /\ OnStack' = OnStack \ {a}
  BY <1>1, <1>6, RemoveIs
<1>8. OnStack \ OnStack' \subseteq {a} /\ kept' \subseteq OnStack' /\ {a} \subseteq OnStack
  BY <1>3, <1>4, <1>7
<1>9. OnStack' \subseteq OnStack \ {a} /\ (~several' => ~several)
  BY <1>4, <1>7
<1>. QED
  BY <1>1, <1>4, <1>5, <1>7, <1>8, <1>9, RemovedFinished

LEMMA FinishClassKeeps ==
  ASSUME StackInv, NEW c, FinishClass(c) PROVE StackInv'
<1>. DEFINE gone == {a \in OnStack : ClassOf(a) = c}
            s == Without(activityStack, gone)
<1>1. activityStack' = s /\ finished' = finished \cup gone
  BY DEF FinishClass
<1>2. kept' = OnStack \ gone /\ UNCHANGED <<living, created, several>>
  BY DEF FinishClass
<1>3. several' \in BOOLEAN
  BY <1>2 DEF StackInv, Living
<1>4. gone \subseteq OnStack
  OBVIOUS
<1>. HIDE DEF gone
<1>5. s \in Seq(Activities) /\ Once(s) /\ ToSet(s) = ToSet(activityStack) \ gone
  BY IterationRemoves DEF StackInv, OnceEach
<1>. HIDE DEF s
<1>6. OnceEach' /\ OnStack' = ToSet(s)
  BY <1>1, <1>5, StackIs
<1>7. OnStack' = OnStack \ gone
  BY <1>5, <1>6 DEF OnStack
<1>8. OnStack \ OnStack' \subseteq gone /\ kept' \subseteq OnStack'
  BY <1>2, <1>7
<1>9. OnStack' \subseteq OnStack \ gone /\ (~several' => ~several)
  BY <1>2, <1>7
<1>. QED
  BY <1>1, <1>2, <1>3, <1>4, <1>6, <1>8, <1>9, RemovedFinished

LEMMA FinishAllKeeps ==
  ASSUME StackInv, FinishAllActivity PROVE StackInv'
<1>1. activityStack' = <<>> /\ <<>> \in Seq(Activities) /\ Once(<<>>) /\ ToSet(<<>>) = {}
  BY DEF FinishAllActivity, Once, ToSet
<1>2. OnceEach' /\ OnStack' = {}
  BY <1>1, StackIs
<1>3. /\ finished' = finished \cup OnStack /\ kept' = {}
      /\ UNCHANGED <<living, created, several>>
  BY DEF FinishAllActivity
<1>4. several' \in BOOLEAN
  BY <1>3 DEF StackInv, Living
<1>5. OnStack' \subseteq OnStack \ OnStack /\ (~several' => ~several)
  BY <1>2, <1>3
<1>6. OnStack \subseteq OnStack /\ OnStack \ OnStack' \subseteq OnStack
  OBVIOUS
<1>7. kept' \subseteq OnStack'
  BY <1>2, <1>3
<1>. QED
  BY <1>2, <1>3, <1>4, <1>5, <1>6, <1>7, RemovedFinished

(* The activity that goes is not the one to keep, if that is one only.     *)
LEMMA FinishOtherKeeps ==
  ASSUME StackInv, NEW keep \in SUBSET OnStack, keep # {}, FinishOther(keep)
  PROVE  StackInv'
<1>. DEFINE goes == {i \in DOMAIN activityStack : keep \ {activityStack[i]} # {}}
            first == CHOOSE i \in goes : \A j \in goes : i <= j
            a == activityStack[first]
<1>1. /\ activityStack \in Seq(Activities) /\ Once(activityStack)
      /\ Len(activityStack) \in Nat /\ DOMAIN activityStack = 1..Len(activityStack)
  BY DEF StackInv, OnceEach
<1>2. /\ UNCHANGED <<living, created>> /\ kept' = keep
      /\ several' = (several \/ Cardinality(keep) > 1)
  BY DEF FinishOther
<1>3. several' \in BOOLEAN /\ (~several' => ~several /\ ~(Cardinality(keep) > 1))
  BY <1>2 DEF StackInv, Living
<1>4. ASSUME ~(Cardinality(keep) > 1) PROVE \E k \in OnStack : keep = {k}
  <2>1. IsFiniteSet(keep) /\ Cardinality(keep) \in Nat
    BY <1>1, OnceCounts, FS_Subset, FS_CardinalityType DEF OnStack
  <2>2. Cardinality(keep) # 0
    BY <2>1, FS_EmptySet
  <2>3. Cardinality(keep) = 1
    BY <1>4, <2>1, <2>2
  <2>. QED
    BY <2>1, <2>3, FS_Singleton
<1>5. ASSUME goes = {} PROVE StackInv'
  <2>1. UNCHANGED <<activityStack, finished>>
    BY <1>5 DEF FinishOther
  <2>2. OnceEach' /\ OnStack' = OnStack
    BY <1>1, <2>1 DEF OnceEach, OnStack, Once
  <2>3. Living'
    BY <1>2, <1>3, <2>1, <2>2 DEF StackInv, Living
  <2>4. Tracked'
    BY <1>2, <1>3, <2>1, <2>2 DEF StackInv, Tracked
  <2>. QED
    BY <2>2, <2>3, <2>4 DEF StackInv
<1>6. ASSUME goes # {} PROVE StackInv'
  <2>1. activityStack' = RemoveFirst(activityStack, a) /\ finished' = finished \cup {a}
    BY <1>6 DEF FinishOther
  <2>2. goes \in SUBSET Nat
    BY <1>1
  <2>3. \E i \in goes : \A j \in goes : i <= j
    <3>. HIDE DEF goes
    <3>1. PICK i \in goes : \A j \in goes : ~(j < i)
      BY <1>6, <2>2, LeastOf
    <3>2. \A j \in goes : i <= j
      BY <2>2, <3>1
    <3>. QED
      BY <3>2
  <2>4. first \in goes
    <3>. HIDE DEF goes
    <3>. QED
      BY <2>3
  <2>. HIDE DEF first
  <2>5. first \in 1..Len(activityStack) /\ keep \ {a} # {}
    BY <1>1, <2>4
  <2>6. a \in OnStack
    BY <1>1, <2>5 DEF OnStack, ToSet
  <2>. HIDE DEF a, goes
  <2>7. OnceEach
    BY DEF StackInv
  <2>8. OnceEach' /\ OnStack' = OnStack \ {a}
    BY <2>1, <2>7, RemoveIs
  <2>9. ~several' => kept' \subseteq OnStack'
    BY <1>2, <1>3, <1>4, <2>5, <2>8
  <2>10. /\ OnStack' \subseteq OnStack \ {a} /\ {a} \subseteq OnStack
         /\ OnStack \ OnStack' \subseteq {a}
    BY <2>6, <2>8
  <2>. QED
    BY <1>2, <1>3, <2>1, <2>8, <2>9, <2>10, RemovedFinished
<1>. QED
  BY <1>5, <1>6

LEMMA FinishOtherClassesKeeps ==
  ASSUME IsFiniteSet(Classes), StackInv, NEW classes \in SUBSET Classes, classes # {},
         FinishOtherClasses(classes)
  PROVE  StackInv'
<1>1. activityStack \in Seq(Activities) /\ Once(activityStack)
  BY DEF StackInv, OnceEach
<1>2. PICK r \in Removal : /\ activityStack' = r.stack /\ finished' = finished \cup r.gone
                           /\ Removes(r) /\ KeepsClass(r, classes)
  BY <1>1, OthersRemoved
<1>3. /\ UNCHANGED <<living, created>> /\ kept' = {a \in OnStack : ClassOf(a) \in classes}
      /\ several' = (several \/ Cardinality(classes) > 1)
  BY DEF FinishOtherClasses
<1>4. several' \in BOOLEAN /\ (~several' => ~several /\ ~(Cardinality(classes) > 1))
  BY <1>3 DEF StackInv, Living
<1>5. ASSUME ~(Cardinality(classes) > 1) PROVE \E c : classes = {c}
  <2>1. IsFiniteSet(classes) /\ Cardinality(classes) \in Nat
    BY FS_Subset, FS_CardinalityType
  <2>2. Cardinality(classes) # 0
    BY <2>1, FS_EmptySet
  <2>3. Cardinality(classes) = 1
    BY <1>5, <2>1, <2>2
  <2>. QED
    BY <2>1, <2>3, FS_Singleton
<1>6. r.stack \in Seq(Activities) /\ Once(r.stack)
  BY <1>2 DEF Removes, Removal
<1>7. OnceEach' /\ OnStack' = ToSet(r.stack)
  BY <1>2, <1>6, StackIs
<1>8. OnStack' \subseteq OnStack \ r.gone /\ r.gone \subseteq OnStack
  BY <1>2, <1>7 DEF Removes
<1>9. ASSUME ~several'
      PROVE  ~several /\ OnStack \ OnStack' \subseteq r.gone /\ kept' \subseteq OnStack'
  <2>1. ~several /\ ~(Cardinality(classes) > 1)
    BY <1>4, <1>9
  <2>2. PICK c : classes = {c}
    BY <1>5, <2>1
  <2>3. OnStack \ OnStack' \subseteq r.gone /\ \A a \in r.gone : ClassOf(a) # c
    BY <1>2, <1>7, <2>2 DEF KeepsClass
  <2>4. kept' \subseteq OnStack'
    BY <1>3, <2>2, <2>3
  <2>. QED
    BY <2>1, <2>3, <2>4
<1>. QED
  BY <1>2, <1>3, <1>4, <1>7, <1>8, <1>9, RemovedFinished

LEMMA StackNextKeeps ==
  ASSUME IsFiniteSet(Classes), StackInv, [StackNext]_stackVars PROVE StackInv'
<1>1. ASSUME NEW a \in Activities, AddActivity(a) PROVE StackInv'
  BY <1>1, AddKeeps
<1>2. ASSUME NEW a \in Activities, DestroyActivity(a) PROVE StackInv'
  BY <1>2, DestroyKeeps
<1>3. CASE FinishTopActivity
  BY <1>3, FinishTopKeeps
<1>4. CASE FinishAllActivity
  BY <1>4, FinishAllKeeps
<1>5. ASSUME NEW c \in Classes, FinishClass(c) PROVE StackInv'
  BY <1>5, FinishClassKeeps
<1>6. ASSUME NEW keep \in SUBSET OnStack, keep # {}, FinishOther(keep) PROVE StackInv'
  BY <1>6, FinishOtherKeeps
<1>7. ASSUME NEW classes \in SUBSET Classes, classes # {}, FinishOtherClasses(classes)
      PROVE  StackInv'
  BY <1>7, FinishOtherClassesKeeps
<1>8. CASE UNCHANGED stackVars
  BY <1>8 DEF stackVars, StackInv, OnceEach, Once, Living, Tracked, OnStack
<1>. QED
  BY <1>1, <1>2, <1>3, <1>4, <1>5, <1>6, <1>7, <1>8 DEF StackNext

(* Whatever the activities, their classes (finitely many) and the order of  *)
(* the calls, the stack tracks the activities that live.                   *)
THEOREM StackTracks ==
  ASSUME IsFiniteSet(Classes)
  PROVE  StackSpec => []StackTracksLiving
<1>1. StackInit => StackInv
  <2>1. <<>> \in Seq(Activities) /\ Once(<<>>) /\ ToSet(<<>>) = {}
    BY DEF Once, ToSet
  <2>. QED
    BY <2>1 DEF StackInit, StackInv, OnceEach, Living, Tracked, OnStack
<1>2. StackInv /\ [StackNext]_stackVars => StackInv'
  BY StackNextKeeps
<1>3. StackInv => StackTracksLiving
  <2>. SUFFICES ASSUME StackInv PROVE StackTracksLiving
    OBVIOUS
  <2>1. Cardinality(OnStack) = Len(activityStack)
    BY OnceCounts DEF StackInv, OnceEach, OnStack
  <2>. QED
    BY <2>1 DEF StackInv, Living, Tracked, StackTracksLiving
<1>. QED
  BY <1>1, <1>2, <1>3, PTL DEF StackSpec

=============================================================================
