------------------------------ MODULE YuvFrames ------------------------------
(***************************************************************************)
(* The pictures between the camera and the video encoder.  CameraActivity's *)
(* preview callback converts a frame from NV21 to I420 into mBytes and     *)
(* rotates it back into the camera's own array, through yuv_core.cpp,      *)
(* yuv_convert.c and yuv_rotate.c; YUV420Utils has rotations in Java.      *)
(*                                                                         *)
(* A picture of w columns and h rows, both even, has one Y sample per      *)
(* pixel and one U and one V sample per square of four.  An array holds    *)
(* samples <<plane, x, y>> of the picture the camera took, so a result     *)
(* shows where every sample has gone.  libyuv is external: it moves planes *)
(* between the addresses and strides the code computes.                    *)
(***************************************************************************)
EXTENDS Integers, Sequences

CONSTANTS Sides,      (* even widths and heights of previews                 *)
          BufferSize  (* the bytes of mBytes: 720 * 1440 * 3 / 2 in the code *)

VARIABLES
  frame,      (* where the frame is                                          *)
  w, h, turn, (* its size when taken, and the degrees of the rotation        *)
  src,        (* the camera's array, or the one a rotation returns           *)
  mBytes      (* the activity's array, kept from frame to frame              *)

yuvVars == <<frame, w, h, turn, src, mBytes>>

Blank == <<"none", 0, 0>>
Half(n) == n \div 2
Bytes(cols, rows) == cols * rows + Half(cols * rows)

(* An array of n bytes, with offsets from 0; a move is <<to, from>>.        *)
Blanks(n) == [i \in 0..n - 1 |-> Blank]

Moved(dst, from, moves) ==
  [i \in DOMAIN dst |->
     IF \E m \in moves : m[1] = i
     THEN from[(CHOOSE m \in moves : m[1] = i)[2]] ELSE dst[i]]

Fits(dst, moves) == \A m \in moves : m[1] \in DOMAIN dst

-----------------------------------------------------------------------------
(* libyuv: a plane of cols by rows from one address, stride and step to     *)
(* another, turned clockwise.                                               *)
Turned(degree, x, y, cols, rows) ==
  CASE degree = 0   -> <<x, y>>
    [] degree = 90  -> <<rows - 1 - y, x>>
    [] degree = 180 -> <<cols - 1 - x, rows - 1 - y>>
    [] degree = 270 -> <<y, cols - 1 - x>>

Plane(to, toStride, from, fromStride, step, cols, rows, degree) ==
  {LET t == Turned(degree, x, y, cols, rows)
   IN <<to + t[2] * toStride + t[1], from + y * fromStride + x * step>> :
     x \in 0..cols - 1, y \in 0..rows - 1}

(* Faulty variant: a chroma plane is taken for half as large as luma.       *)
Nv21ToI420_Far ==
  LET y_size == w * h
      u_size == y_size \div 2
  IN UNION {Plane(0, w, 0, w, 1, w, h, 0),
            Plane(y_size, Half(w), y_size + 1, w, 2, Half(w), Half(h), 0),
            Plane(y_size + u_size, Half(w), y_size, w, 2, Half(w), Half(h), 0)}

(* nv21_to_i420 *)
Nv21ToI420 ==
  LET y_size == w * h
      u_size == y_size \div 4
  IN UNION {Plane(0, w, 0, w, 1, w, h, 0),
            Plane(y_size, Half(w), y_size + 1, w, 2, Half(w), Half(h), 0),
            Plane(y_size + u_size, Half(w), y_size, w, 2, Half(w), Half(h), 0)}

(* i420_to_nv21 *)
I420ToNv21 ==
  LET y_size == w * h
      u_size == y_size \div 4
      interleave(to, from) == {<<to + y * w + 2 * x, from + y * Half(w) + x>> :
                               x \in 0..Half(w) - 1, y \in 0..Half(h) - 1}
  IN UNION {Plane(0, w, 0, w, 1, w, h, 0),
            interleave(y_size, y_size + u_size), interleave(y_size + 1, y_size)}

(* Faulty variant: the rotated planes keep the stride of the source.        *)
RotateI420_Width(degree) ==
  LET y_size == w * h
      u_size == y_size \div 4
  IN UNION {Plane(0, w, 0, w, 1, w, h, degree),
            Plane(y_size, Half(w), y_size, Half(w), 1, Half(w), Half(h), degree),
            Plane(y_size + u_size, Half(w), y_size + u_size, Half(w), 1,
                  Half(w), Half(h), degree)}

(* rotate_i420: the height is the stride of the result, whatever the turn.  *)
RotateI420(degree) ==
  LET y_size == w * h
      u_size == y_size \div 4
  IN UNION {Plane(0, h, 0, w, 1, w, h, degree),
            Plane(y_size, Half(h), y_size, Half(w), 1, Half(w), Half(h), degree),
            Plane(y_size + u_size, Half(h), y_size + u_size, Half(w), 1,
                  Half(w), Half(h), degree)}

(* The rotations of YUV420Utils, from NV21 to NV21: loops over an index.    *)
UtilsRotate180 ==
  LET y_size == w * h
      n == Bytes(w, h)
  IN {<<i, y_size - 1 - i>> : i \in 0..y_size - 1}
       \cup UNION {{<<y_size + 2 * k, n - 2 - 2 * k>>, <<y_size + 2 * k + 1, n - 1 - 2 * k>>} :
                   k \in 0..Half(Half(y_size)) - 1}

UtilsRotate90 ==
  LET y_size == w * h
      n == Bytes(w, h)
      k(x, y) == 2 * (((w - 1 - x) \div 2) * Half(h) + y)
  IN {<<x * h + (h - 1 - y), y * w + x>> : x \in 0..w - 1, y \in 0..h - 1}
       \cup UNION {{<<n - 1 - k(x, y), y_size + y * w + x>>,
                    <<n - 2 - k(x, y), y_size + y * w + x - 1>>} :
                   x \in {c \in 1..w - 1 : c % 2 = 1}, y \in 0..Half(h) - 1}

(* It collects columns from left to right, then turns the whole by 180.     *)
UtilsRotate270 ==
  LET y_size == w * h
      columns == {<<x * h + y, y * w + x>> : x \in 0..w - 1, y \in 0..h - 1}
        \cup UNION {{<<y_size + x * Half(h) + 2 * y, y_size + y * w + x>>,
                     <<y_size + x * Half(h) + 2 * y + 1, y_size + y * w + x + 1>>} :
                    x \in {c \in 0..w - 1 : c % 2 = 0}, y \in 0..Half(h) - 1}
  IN {<<m[1], (CHOOSE c \in columns : c[1] = m[2])[2]>> : m \in UtilsRotate180}

-----------------------------------------------------------------------------
(* The NV21 array of the picture as it was taken.                           *)
OffNV21(p, x, y, cols, rows) ==
  CASE p = "Y" -> y * cols + x
    [] p = "V" -> cols * rows + y * cols + 2 * x
    [] p = "U" -> cols * rows + y * cols + 2 * x + 1

OffI420(p, x, y, cols, rows) ==
  CASE p = "Y" -> y * cols + x
    [] p = "U" -> cols * rows + y * Half(cols) + x
    [] p = "V" -> cols * rows + Half(Half(cols * rows)) + y * Half(cols) + x

Samples(cols, rows) ==
  ({"Y"} \X (0..cols - 1) \X (0..rows - 1))
    \cup ({"U", "V"} \X (0..Half(cols) - 1) \X (0..Half(rows) - 1))

TakenAs(off(_, _, _, _, _), cols, rows) ==
  [i \in 0..Bytes(cols, rows) - 1 |->
     CHOOSE s \in Samples(cols, rows) : off(s[1], s[2], s[3], cols, rows) = i]

Taken(cols, rows) == TakenAs(OffNV21, cols, rows)

YuvInit ==
  /\ frame = "idle" /\ w = 0 /\ h = 0 /\ turn = 0
  /\ src = <<>>
  /\ mBytes = Blanks(BufferSize)

(* onCameraPreFrame, while recording: 90 degrees for the back camera, 270   *)
(* for the front one.                                                       *)
Take ==
  /\ frame \in {"idle", "pushed"}
  /\ \E cols \in Sides, rows \in Sides, degree \in {90, 270} :
       /\ frame = "idle" \/ <<cols, rows>> # <<w, h>>
       /\ w' = cols /\ h' = rows /\ turn' = degree
       /\ src' = Taken(cols, rows)
  /\ frame' = "taken"
  /\ UNCHANGED mBytes

(* Writing past an array is undefined: the frame ends in "overrun".         *)
Convert ==
  /\ frame = "taken"
  /\ IF Fits(mBytes, Nv21ToI420)
     THEN frame' = "converted" /\ mBytes' = Moved(mBytes, src, Nv21ToI420)
     ELSE frame' = "overrun" /\ UNCHANGED mBytes
  /\ UNCHANGED <<w, h, turn, src>>

Rotate ==
  /\ frame = "converted"
  /\ src' = Moved(src, mBytes, RotateI420(turn))
  /\ frame' = "pushed"
  /\ UNCHANGED <<w, h, turn, mBytes>>

(* A call of one of the rotations on arrays of the right size; yuv_core.cpp *)
(* accepts the four turns.                                                  *)
CallRotateI420 ==
  /\ frame = "idle"
  /\ \E cols \in Sides, rows \in Sides, degree \in {0, 90, 180, 270} :
       w' = cols /\ h' = rows /\ turn' = degree
  /\ LET i420 == TakenAs(OffI420, w', h')
         moves == RotateI420(turn)'
     IN /\ src' = Moved(Blanks(Bytes(w', h')), i420, moves)
        /\ frame' = IF Fits(i420, moves) THEN "rotated" ELSE "overrun"
  /\ UNCHANGED mBytes

CallI420ToNv21 ==
  /\ frame = "idle"
  /\ \E cols \in Sides, rows \in Sides : w' = cols /\ h' = rows
  /\ src' = Moved(Blanks(Bytes(w', h')), TakenAs(OffI420, w', h'), I420ToNv21')
  /\ frame' = "nv21"
  /\ UNCHANGED <<turn, mBytes>>

CallUtils ==
  /\ frame = "idle"
  /\ \E cols \in Sides, rows \in Sides, degree \in {90, 180, 270} :
       w' = cols /\ h' = rows /\ turn' = degree
  /\ src' = Moved(Blanks(Bytes(w', h')), Taken(w', h'),
                  CASE turn' = 90  -> UtilsRotate90'
                    [] turn' = 180 -> UtilsRotate180'
                    [] turn' = 270 -> UtilsRotate270')
  /\ frame' = "utils"
  /\ UNCHANGED mBytes

YuvNext == Take \/ Convert \/ Rotate \/ CallRotateI420 \/ CallI420ToNv21
           \/ CallUtils

-----------------------------------------------------------------------------
(* The sample that a picture turned clockwise shows at x, y: seen from the  *)
(* result, whose columns are the rows of the original for 90 and 270.       *)
SeenAt(degree, p, x, y) ==
  LET cols == IF p = "Y" THEN w ELSE Half(w)
      rows == IF p = "Y" THEN h ELSE Half(h)
  IN CASE degree = 0   -> <<p, x, y>>
       [] degree = 90  -> <<p, y, rows - 1 - x>>
       [] degree = 180 -> <<p, cols - 1 - x, rows - 1 - y>>
       [] degree = 270 -> <<p, cols - 1 - y, x>>

(* src, read as a picture of the turned size, shows what seen(_, _, _) says. *)
Shows(off(_, _, _, _, _), seen(_, _, _)) ==
  LET cols == IF turn \in {90, 270} THEN h ELSE w
      rows == IF turn \in {90, 270} THEN w ELSE h
  IN \A s \in Samples(cols, rows) :
       src[off(s[1], s[2], s[3], cols, rows)] = seen(s[1], s[2], s[3])

Upright(p, x, y) == SeenAt(turn, p, x, y)

(* What turning after collecting columns shows: the picture mirrored.       *)
Mirrored(p, x, y) ==
  LET s == SeenAt(270, p, x, y)
  IN <<p, s[2], (IF p = "Y" THEN h ELSE Half(h)) - 1 - s[3]>>

(* Whatever earlier frames have left in mBytes, what is pushed to the video *)
(* encoder is the I420 picture turned by 90 or 270 degrees, every sample in *)
(* its place.  rotateI420 also turns by 0 and 180 degrees, but only a       *)
(* square picture; i420ToNv21 keeps every sample in place; YUV420Utils'     *)
(* rotate90 and rotate180 turn NV21 pictures, and rotate270 also mirrors    *)
(* them, other than its comment says.                                       *)
PictureTurned ==
  /\ frame = "pushed" => Shows(OffI420, Upright)
  /\ frame = "rotated" /\ (turn \in {90, 270} \/ w = h) => Shows(OffI420, Upright)
  /\ frame = "nv21" => src = Taken(w, h)
  /\ frame = "utils" =>
       IF turn = 270 THEN Shows(OffNV21, Mirrored) ELSE Shows(OffNV21, Upright)

(* An array is written past its end only by a preview larger than the       *)
(* 720 by 1440 for which mBytes is made once, or by a turn of 0 or 180      *)
(* degrees of a picture that is higher than wide.                           *)
OverrunExplained ==
  frame = "overrun" => \/ turn \in {90, 270} /\ Bytes(w, h) > BufferSize
                       \/ turn \in {0, 180} /\ h > w

=============================================================================
