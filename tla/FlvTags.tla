------------------------------- MODULE FlvTags -------------------------------
(***************************************************************************)
(* What the two write calls of rtmp_core.c do with the bytes they are      *)
(* given: get_nal splits a video packet at four-byte start codes, and each *)
(* NAL unit the writer knows becomes an FLV tag; an audio packet becomes   *)
(* one.  RtmpCore has the threads and takes a packet as a sequence of NAL  *)
(* types; here one call runs alone, on bytes.                              *)
(*                                                                         *)
(* Offsets count from 0, as in C.  A packet is put together from units, a  *)
(* start code and a payload each, which the code never sees: they are what *)
(* its result is compared with.                                            *)
(***************************************************************************)
EXTENDS Integers, Sequences, SequencesExt

CONSTANTS Payloads,   (* NAL units, as byte sequences                       *)
          MaxUnits,   (* bound: units in a packet                           *)
          MaxAudio    (* bound: bytes in an audio packet                    *)

VARIABLES
  writer,     (* where the write call is                                    *)
  units,      (* how the packet was put together                            *)
  packet,     (* data, size bytes                                           *)
  buf_offset, (* how far get_nal has come                                   *)
  nal,        (* the NAL unit found last: its first byte and its length     *)
  wasSet,     (* video_config_ok when the call began                        *)
  config_ok,  (* video_config_ok or audio_config_ok                         *)
  tags        (* the tags pushed, in order                                  *)

flvVars == <<writer, units, packet, buf_offset, nal, wasSet, config_ok, tags>>

Unit == [code : {3, 4}, payload : Payloads]
StartCode(n) == [i \in 1..n |-> IF i = n THEN 1 ELSE 0]
BytesOf(us) ==
  LET bytes[i \in 0..Len(us)] ==
        IF i = 0 THEN <<>>
        ELSE bytes[i - 1] \o StartCode(us[i].code) \o us[i].payload
  IN bytes[Len(us)]

SPS == 103              (* 0x67 *)
NalType(byte) == byte % 32

FlvInit ==
  /\ writer = "idle" /\ units = <<>> /\ packet = <<>>
  /\ buf_offset = 0 /\ nal = [at |-> 0, len |-> 0]
  /\ wasSet = FALSE /\ config_ok = FALSE /\ tags = <<>>

-----------------------------------------------------------------------------
(* get_nal *)

Total == Len(packet)
ByteAt(i) == packet[i + 1]

(* find_start_code(buf + i, 3) *)
IsStartCode(i) ==
  /\ i + 3 < Total
  /\ ByteAt(i + 3) = 1 /\ \A k \in i..i + 2 : ByteAt(k) = 0

(* Faulty variant: the bound of the search allows for two bytes only.       *)
Limit_Late == IF Total < 2 THEN 2147483647 ELSE Total - 2

(* total - 3 is unsigned: below 3 it wraps to a bound no offset reaches     *)
(* (2^32 + total - 3; here the largest number TLC has).                     *)
Limit == IF Total < 3 THEN 2147483647 ELSE Total - 3

(* The search goes on by one byte until the bound or a start code; where   *)
(* the four bytes it looks at are not all in the packet, it reads past it.  *)
Overreads(j) == j < Limit /\ j + 3 >= Total
Stops(j) == j >= Limit \/ Overreads(j) \/ IsStartCode(j)
Scan(i) == CHOOSE j \in i..Total : Stops(j) /\ \A k \in i..j - 1 : ~Stops(k)

NoNal == Scan(buf_offset) >= Limit

NalFound ==
  LET q == Scan(buf_offset) + 4
      e == Scan(q)
  IN [at |-> q, len |-> (IF e >= Limit THEN Total ELSE e) - q]

SearchOverreads ==
  LET s == Scan(buf_offset)
  IN Overreads(s) \/ (s < Limit /\ Overreads(Scan(s + 4)))

End(n) == n.at + n.len
NalBytes(n) == SubSeq(packet, n.at + 1, End(n))

-----------------------------------------------------------------------------
(* An FLV tag: the length its header announces, the bytes written behind    *)
(* the header, and the bytes allocated.                                     *)

HeadLen == 11
PreTagLen == 4

Tag(kind, parts, body_len, written) ==
  [kind |-> kind, parts |-> parts, announced |-> body_len, body |-> written,
   allocated |-> body_len + HeadLen + PreTagLen]

(* VideoTagHeader, the fixed bytes of the record, the sets, their counts.   *)
ConfigTag(sps, pps) ==
  Tag("videoConfig", <<NalBytes(sps), NalBytes(pps)>>, sps.len + pps.len + 16,
      5 + 6 + 2 + sps.len + 1 + 2 + pps.len)

(* Faulty variant: the length field of the NAL is not counted.              *)
SliceTag_Short(kind, n) ==
  Tag(kind, <<NalBytes(n)>>, n.len + 5, 5 + 4 + n.len)

SliceTag(kind, n) ==
  Tag(kind, <<NalBytes(n)>>, n.len + 5 + 4, 5 + 4 + n.len)

(* rtmp_sender_write_audio_frame: the first two bytes are the config.       *)
AudioTag(size) ==
  IF config_ok THEN Tag("audioRaw", <<size>>, 2 + size, 2 + size)
               ELSE Tag("audioConfig", <<2>>, 2 + 2, 2 + 2)

-----------------------------------------------------------------------------
WriteVideo ==
  /\ writer = "idle"
  /\ \E us \in UNION {[1..n -> Unit] : n \in 0..MaxUnits} :
       units' = us /\ packet' = BytesOf(us)
  /\ config_ok' \in BOOLEAN /\ wasSet' = config_ok'
  /\ writer' = "getNal"
  /\ UNCHANGED <<buf_offset, nal, tags>>

(* Reading past the packet is undefined: the call stops in "overread".      *)
GetNal ==
  /\ writer = "getNal"
  /\ CASE SearchOverreads -> writer' = "overread" /\ UNCHANGED <<buf_offset, nal>>
       [] ~SearchOverreads /\ NoNal -> writer' = "done" /\ UNCHANGED <<buf_offset, nal>>
       [] OTHER ->
            /\ nal' = NalFound
            /\ buf_offset' = End(NalFound)
            /\ writer' = IF NalFound.at = Total THEN "overread" ELSE "nal"
  /\ UNCHANGED <<units, packet, wasSet, config_ok, tags>>

Type == NalType(ByteAt(nal.at))

SkipNal ==
  /\ writer = "nal"
  /\ IF ByteAt(nal.at) = SPS THEN config_ok ELSE Type \notin {1, 5}
  /\ writer' = "getNal"
  /\ UNCHANGED <<units, packet, buf_offset, nal, wasSet, config_ok, tags>>

(* An SPS takes the next NAL, whatever it is, for the PPS.                  *)
WriteConfig ==
  /\ writer = "nal"
  /\ ByteAt(nal.at) = SPS /\ ~config_ok
  /\ IF NoNal
     THEN writer' = "done" /\ UNCHANGED <<buf_offset, config_ok, tags>>
     ELSE /\ tags' = Append(tags, ConfigTag(nal, NalFound))
          /\ buf_offset' = End(NalFound)
          /\ config_ok' = TRUE
          /\ writer' = IF nal.at + 3 >= Total THEN "overread" ELSE "getNal"
  /\ UNCHANGED <<units, packet, nal, wasSet>>

WriteSlice ==
  /\ writer = "nal"
  /\ ByteAt(nal.at) # SPS /\ Type \in {1, 5}
  /\ tags' = Append(tags, SliceTag(IF Type = 5 THEN "keyFrame" ELSE "interFrame", nal))
  /\ writer' = "getNal"
  /\ UNCHANGED <<units, packet, buf_offset, nal, wasSet, config_ok>>

(* The JNI wrapper passes size bytes; the configuration reads two.          *)
WriteAudio ==
  /\ writer = "idle"
  /\ \E size \in 0..MaxAudio, ok \in BOOLEAN :
       /\ packet' = [i \in 1..size |-> 0]
       /\ config_ok' = ok /\ wasSet' = ok
       /\ writer' = IF ~ok /\ size < 2 THEN "overread" ELSE "audio"
  /\ UNCHANGED <<units, buf_offset, nal, tags>>

PushAudio ==
  /\ writer = "audio"
  /\ tags' = <<AudioTag(Total)>>
  /\ config_ok' = TRUE
  /\ writer' = "sent"
  /\ UNCHANGED <<units, packet, buf_offset, nal, wasSet>>

FlvNext == \/ WriteVideo \/ GetNal \/ SkipNal \/ WriteConfig \/ WriteSlice
           \/ WriteAudio \/ PushAudio

-----------------------------------------------------------------------------
(* The reference, on units.  A unit behind a three-byte start code belongs  *)
(* to the NAL unit before it, and is lost if there is none.                 *)
Join(nals, u) ==
  CASE u.code = 4 -> Append(nals, u.payload)
    [] u.code = 3 /\ nals = <<>> -> nals
    [] OTHER -> Front(nals) \o <<Last(nals) \o StartCode(3) \o u.payload>>

(* What one NAL unit adds: the open SPS waits for its PPS.                  *)
Emit(s, n) ==
  LET is(t) == n # <<>> /\ NalType(n[1]) = t IN
  CASE s.sps # <<>> ->
         [s EXCEPT !.out = Append(@, <<"videoConfig", s.sps, n>>), !.sps = <<>>,
                   !.set = TRUE]
    [] s.sps = <<>> /\ n # <<>> /\ n[1] = SPS -> IF s.set THEN s ELSE [s EXCEPT !.sps = n]
    [] s.sps = <<>> /\ is(5) -> [s EXCEPT !.out = Append(@, <<"keyFrame", n>>)]
    [] s.sps = <<>> /\ is(1) -> [s EXCEPT !.out = Append(@, <<"interFrame", n>>)]
    [] OTHER -> s

Nals(us) ==
  LET nals[i \in 0..Len(us)] == IF i = 0 THEN <<>> ELSE Join(nals[i - 1], us[i])
  IN nals[Len(us)]

Emitted(ns, ok) ==
  LET s[i \in 0..Len(ns)] == IF i = 0 THEN [out |-> <<>>, sps |-> <<>>, set |-> ok]
                             ELSE Emit(s[i - 1], ns[i])
  IN s[Len(ns)]

Expected == Emitted(Nals(units), wasSet).out
Sent == [i \in DOMAIN tags |-> <<tags[i].kind>> \o tags[i].parts]

(* A packet whose NAL units are each led by a four-byte start code becomes *)
(* one tag per slice and one for the first SPS with the unit behind it, in *)
(* order and byte for byte; a three-byte start code does not split, and a  *)
(* second SPS is not sent.  Every tag is as long as its header says, and   *)
(* room is left for the previous tag's size.                               *)
TagsOfUnits ==
  /\ writer = "done" => Sent = Expected
  /\ \A i \in DOMAIN tags : /\ tags[i].announced = tags[i].body
                            /\ tags[i].allocated = HeadLen + tags[i].body + PreTagLen

(* The comment on the bound of the search, rtmp_core.c:505 ("Do not access  *)
(* not allowed memory"), holds for every packet of three bytes or more that *)
(* does not end in a start code; an audio configuration needs two bytes.    *)
OverreadExplained ==
  writer = "overread" =>
    \/ Total < 3
    \/ units # <<>> /\ Last(units).code = 4 /\ Last(units).payload = <<>>

=============================================================================
