----------------------------- MODULE FileEncode -----------------------------
(***************************************************************************)
(* encode_x264 of h264-encode.cpp: H264Activity's button turns a file of   *)
(* raw frames into an H.264 file, on the UI thread.  One call, from the    *)
(* opening of the files to the return.                                     *)
(*                                                                         *)
(* x264 is external: it keeps some frames back, answers the number of      *)
(* bytes it returns, zero if it returns none and a negative number on an   *)
(* error.  Numbering the frames by when x264 outputs them, the files are   *)
(* sequences of frame numbers.                                             *)
(***************************************************************************)
EXTENDS Integers, Sequences

CONSTANTS MaxFrames,    (* bound: whole frames in the input file             *)
          MaxFlushes    (* bound: flush calls that fail or return nothing early *)

VARIABLES
  conv,        (* where the call is                                         *)
  yuv_file, h264_file,   (* "none", "open" or "closed"                      *)
  x264_h,      (* the encoder: "none", "null", "open" or "closed"           *)
  frame_number, framesRead,   (* frames in the file, frames read so far     *)
  delayed,     (* frames x264 holds                                         *)
  out,         (* frames x264 has returned                                  *)
  written,     (* what fwrite has put in the output file                    *)
  ret,         (* the result of the last encode call: -1, 0 or 1            *)
  early,       (* history: a flush returned nothing with frames delayed     *)
  failed       (* history: flush calls that returned an error               *)

fileVars == <<conv, yuv_file, h264_file, x264_h, frame_number, framesRead, delayed, out,
              written, ret, early, failed>>

Go(from, to) == conv = from /\ conv' = to

FileInit ==
  /\ conv = "idle"
  /\ yuv_file = "none" /\ h264_file = "none" /\ x264_h = "none"
  /\ frame_number = 0 /\ framesRead = 0 /\ delayed = 0
  /\ out = 0 /\ written = <<>> /\ ret = 0
  /\ early = FALSE /\ failed = 0

-----------------------------------------------------------------------------
OpenYuv ==
  /\ \/ Go("idle", "openH264") /\ yuv_file' = "open"
     \/ Go("idle", "error") /\ UNCHANGED yuv_file
  /\ UNCHANGED <<h264_file, x264_h, frame_number, framesRead, delayed, out, written, ret,
                 early, failed>>

(* A failure returns with the first file open. *)
OpenH264 ==
  /\ \/ Go("openH264", "openEncoder") /\ h264_file' = "open"
     \/ Go("openH264", "error") /\ UNCHANGED h264_file
  /\ UNCHANGED <<yuv_file, x264_h, frame_number, framesRead, delayed, out, written, ret,
                 early, failed>>

(* Not checked: x264_encoder_open may return NULL.                          *)
OpenEncoder ==
  /\ Go("openEncoder", "count")
  /\ x264_h' \in {"open", "null"}
  /\ UNCHANGED <<yuv_file, h264_file, frame_number, framesRead, delayed, out, written,
                 ret, early, failed>>

(* The size of the file over the size of a frame: a rest is not read.       *)
CountFrames ==
  /\ Go("count", "frames")
  /\ frame_number' \in 0..MaxFrames
  /\ UNCHANGED <<yuv_file, h264_file, x264_h, framesRead, delayed, out, written, ret,
                 early, failed>>

(* x264_encoder_encode with a picture: it keeps the frame, or  returns the  *)
(* oldest one.                                                             *)
EncodeFrame ==
  /\ conv = "frames" /\ framesRead < frame_number
  /\ framesRead' = framesRead + 1
  /\ CASE x264_h = "null" -> conv' = "crash" /\ UNCHANGED <<delayed, out, ret>>
       [] OTHER ->
            \/ conv' = "error" /\ ret' = -1 /\ UNCHANGED <<delayed, out>>
            \/ conv' = "frames" /\ ret' = 0 /\ delayed' = delayed + 1 /\ UNCHANGED out
            \/ conv' = "write" /\ ret' = 1 /\ out' = out + 1 /\ UNCHANGED delayed
  /\ UNCHANGED <<yuv_file, h264_file, x264_h, frame_number, written, early, failed>>

WriteFrame ==
  /\ Go("write", "frames")
  /\ written' = Append(written, out)
  /\ UNCHANGED <<yuv_file, h264_file, x264_h, frame_number, framesRead, delayed, out, ret,
                 early, failed>>

EndFrames ==
  /\ framesRead = frame_number /\ Go("frames", "flush")
  /\ UNCHANGED <<yuv_file, h264_file, x264_h, frame_number, framesRead, delayed, out,
                 written, ret, early, failed>>

(* x264_encoder_encode without a picture.  Zero ends the loop, even with    *)
(* frames delayed (x264.h: "zero if no NAL units returned"; the number of   *)
(* delayed frames is not asked).  An error does not.                        *)
Flush ==
  /\ conv = "flush"
  /\ CASE x264_h = "null" -> conv' = "crash" /\ UNCHANGED <<delayed, out, ret, early, failed>>
       [] OTHER ->
            \/ /\ delayed > 0 /\ ret' = 1 /\ conv' = "writeFlush"
               /\ delayed' = delayed - 1 /\ out' = out + 1
               /\ UNCHANGED <<early, failed>>
            \/ /\ ret' = 0 /\ conv' = "close"
               /\ early' = (delayed > 0)
               /\ UNCHANGED <<delayed, out, failed>>
            \/ /\ failed < MaxFlushes
               /\ ret' = -1 /\ failed' = failed + 1
               /\ UNCHANGED <<conv, delayed, out, early>>
  /\ UNCHANGED <<yuv_file, h264_file, x264_h, frame_number, framesRead, written>>

(* Faulty variant: what the flush returns is not written.                   *)
WriteFlushed_Skip ==
  /\ Go("writeFlush", "flush")
  /\ UNCHANGED <<yuv_file, h264_file, x264_h, frame_number, framesRead, delayed, out,
                 written, ret, early, failed>>

WriteFlushed ==
  /\ Go("writeFlush", "flush")
  /\ written' = Append(written, out)
  /\ UNCHANGED <<yuv_file, h264_file, x264_h, frame_number, framesRead, delayed, out, ret,
                 early, failed>>

CloseAll ==
  /\ Go("close", "returned")
  /\ x264_h' = "closed" /\ yuv_file' = "closed" /\ h264_file' = "closed"
  /\ UNCHANGED <<frame_number, framesRead, delayed, out, written, ret, early, failed>>

FileNext == \/ OpenYuv \/ OpenH264 \/ OpenEncoder \/ CountFrames \/ EncodeFrame
            \/ WriteFrame \/ EndFrames \/ Flush \/ WriteFlushed \/ CloseAll

-----------------------------------------------------------------------------
(* h264-encode.cpp:257, "flush the buffer, otherwise the data may be        *)
(* incomplete": a call that returns has written every whole frame of the    *)
(* input, in the order the encoder returned them, unless the encoder gave   *)
(* back nothing while it still held frames.                                 *)
FileComplete ==
  conv = "returned" =>
    /\ written = [k \in 1..Len(written) |-> k]
    /\ Len(written) + delayed = frame_number
    /\ delayed > 0 => early

=============================================================================
