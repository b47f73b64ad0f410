-------------------------------- MODULE Frames --------------------------------
(***************************************************************************)
(* The framing of gRPC-Web bodies (bodydecoder/grpcweb.go): a flag, four   *)
(* bytes of length and a payload, over and over.  The protobuf payload     *)
(* itself is in ProtoWire.                                                 *)
(***************************************************************************)
EXTENDS Queries, Integers, SequencesExt

Byte == 0 .. 255
Bytes == Seq(Byte)

CONSTANTS
  FramedBodies,   \* <<whole frames, bytes after them>>, asked of Decode
  Payloads        \* what a script makes of the payload, given to Encode

frameHeaderLen == 5
flagData == 0
flagCompressed == 1
flagTrailers == 128

IsTrailer(flag) == flag >= flagTrailers

BigEndian(b) == ((b[1] * 256 + b[2]) * 256 + b[3]) * 256 + b[4]
PutUint32(n) == <<(n \div 16777216) % 256, (n \div 65536) % 256, (n \div 256) % 256, n % 256>>

Rest(s, n) == SubSeq(s, n + 1, Len(s))
Least(m, n) == IF m <= n THEN m ELSE n

Length(b) == BigEndian(SubSeq(b, 2, frameHeaderLen))

\* The loops below are functions of the number of bytes that remain.

\* The loop needs a byte after the header.
extractNonDataFramesShort(body) ==
  LET from[n \in 0 .. Len(body)] ==
        LET b == Rest(body, Len(body) - n)
            end == Least(frameHeaderLen + Length(b), n)
        IN  IF n <= frameHeaderLen THEN << >>
            ELSE (IF b[1] # flagData THEN SubSeq(b, 1, end) ELSE << >>) \o from[n - end]
  IN  from[Len(body)]

\* A frame that was cut off is kept as far as it goes.
extractNonDataFrames(body) ==
  LET from[n \in 0 .. Len(body)] ==
        LET b == Rest(body, Len(body) - n)
            end == Least(frameHeaderLen + Length(b), n)
        IN  IF n < frameHeaderLen THEN << >>
            ELSE (IF b[1] # flagData THEN SubSeq(b, 1, end) ELSE << >>) \o from[n - end]
  IN  from[Len(body)]

Notes(flag, truncated) ==
  (IF truncated THEN <<"truncated">> ELSE << >>) \o
  CASE flag = flagData -> << >>
    [] flag = flagCompressed -> <<"compressed">>
    [] IsTrailer(flag) -> << >>
    [] OTHER -> <<"unknown">>

\* Payload of the data frames and notes about the others, or the error.
extractDataFrames(body) ==
  LET from[n \in 0 .. Len(body)] ==
        LET b == Rest(body, Len(body) - n)
            left == Rest(b, frameHeaderLen)
            truncated == Len(left) < Length(b)
            frame == IF truncated THEN left ELSE SubSeq(left, 1, Length(b))
            more == IF truncated THEN [ok |-> TRUE, payload |-> << >>, notes |-> << >>]
                    ELSE from[n - (frameHeaderLen + Length(b))]
        IN  IF n = 0 THEN [ok |-> TRUE, payload |-> << >>, notes |-> << >>]
            ELSE IF n < frameHeaderLen THEN [ok |-> FALSE, payload |-> << >>, notes |-> << >>]
            ELSE IF ~more.ok THEN more
            ELSE [ok |-> TRUE,
                  payload |-> (IF b[1] = flagData THEN frame ELSE << >>) \o more.payload,
                  notes |-> Notes(b[1], truncated) \o more.notes]
  IN  from[Len(body)]

\* One data frame for the whole payload, then what the original had beside its data.
EncodeFrames(payload, original) ==
  <<flagData>> \o PutUint32(Len(payload)) \o payload \o extractNonDataFrames(original)

-----------------------------------------------------------------------------

FrameBytes(f) == <<f.flag>> \o PutUint32(Len(f.payload)) \o f.payload

BodyOf(framed) ==
  FlattenSeq([i \in DOMAIN framed[1] |-> FrameBytes(framed[1][i])]) \o framed[2]

\* math.MaxUint32, of which Encode refuses more: what four bytes can say.
IsUint32(n) == n \div 16777216 < 256

IsFrame(f) == f.flag \in Byte /\ f.payload \in Bytes /\ IsUint32(Len(f.payload))
\* Nothing, a piece of a header, or a frame that ends early.
IsCutOff(b) ==
  /\ b \in Bytes
  /\ Len(b) < frameHeaderLen \/ Len(b) < frameHeaderLen + Length(b)

ASSUME FrameAssumption ==
  /\ \A framed \in FramedBodies :
       /\ framed[1] \in Seq([flag : Byte, payload : Bytes])
       /\ \A i \in DOMAIN framed[1] : IsFrame(framed[1][i])
       /\ IsCutOff(framed[2])
  /\ \A p \in Payloads : p \in Bytes /\ IsUint32(Len(p))

FramesInit == Ask("frames", FramedBodies \X Payloads)

\* A body is decoded for the scripts, and encoded again with the payload they made of it.
ReEncode ==
  LET body == BodyOf(query[1])
      decoded == extractDataFrames(body)
      encoded == EncodeFrames(query[2], body)
  IN  Answer("frames", [decoded |-> decoded,
                        again |-> IF decoded.ok THEN extractDataFrames(encoded) ELSE decoded,
                        sent |-> IF decoded.ok THEN encoded ELSE body])

FramesNext == ReEncode

FramesSpec == FramesInit /\ [][FramesNext]_queryVars

-----------------------------------------------------------------------------
(* Properties *)

\* The payloads of the data frames, and the bytes of the other frames.
DataOf(frames) ==
  FlattenSeq([i \in DOMAIN frames |->
                IF frames[i].flag = flagData THEN frames[i].payload ELSE << >>])
OthersOf(frames) ==
  FlattenSeq([i \in DOMAIN frames |->
                IF frames[i].flag = flagData THEN << >> ELSE FrameBytes(frames[i])])

\* An edited gRPC-Web body reaches the other side with exactly the edited payload, with
\* every trailer and compressed frame of the original, in their order, and readable: what
\* was cut off at the end of the original is not turned into a frame that swallows or
\* hides something.  A body whose last header is cut off is not touched.
EditKeepsOtherFrames ==
  LET frames == query[1][1]
      tail == query[1][2]
      dataTail == tail # << >> /\ tail[1] = flagData
  IN  Answered("frames") =>
        IF tail # << >> /\ Len(tail) < frameHeaderLen
          THEN ~Result.decoded.ok /\ Result.sent = BodyOf(query[1])
        ELSE /\ Result.decoded.payload =
                  DataOf(frames) \o (IF dataTail THEN Rest(tail, frameHeaderLen) ELSE << >>)
             /\ Result.again.ok /\ Result.again.payload = query[2]
             /\ Rest(Result.sent, frameHeaderLen + Len(query[2])) =
                  OthersOf(frames) \o (IF dataTail THEN << >> ELSE tail)
=============================================================================
