---------------------------- MODULE FbMsgMultiChans ----------------------------
(***************************************************************************)
(* The messages of one MCRT computation at the merge computation, buffer   *)
(* by buffer (FbMsgMultiChans, FbMsgSingleChan), and the frame buffer that *)
(* they are decoded into.  FbMsgSingleFrame has the same objects without   *)
(* their buffers.                                                          *)
(*                                                                         *)
(* A frame buffer is a set of planes (the beauty buffer, the pixel info,   *)
(* each AOV).  A plane holds, for each pixel, the number of the message    *)
(* that wrote it last, and the pixels that are active.  What PackTiles     *)
(* does to the memory of a plane is external.                              *)
(***************************************************************************)
EXTENDS Integers, Sequences, FiniteSets, FiniteSetsExt

CONSTANTS
    Pixel,          \* the pixels of an image
    Reso            \* the sizes that an image may have

ASSUME ChannelAssumption == IsFiniteSet(Pixel) /\ Reso # {}

LatencyLog == "latencyLog"
LatencyLogUpstream == "latencyLogUpstream"
AuxInfo == "auxInfo"
VecPacket == "vecPacket"

(* The PackTiles types; any other one is that of a render output.          *)
BeautyType == {"BEAUTY", "BEAUTY_WITH_NUMSAMPLE"}
BeautyOddType == {"BEAUTYODD", "BEAUTYODD_WITH_NUMSAMPLE"}
HeatMapType == {"HEATMAP", "HEATMAP_WITH_NUMSAMPLE"}

NoWriter == 0
NoFormat == "none"

(* A plane that no message has been decoded into.                          *)
EmptyPlane(reso) == [reso |-> reso, format |-> NoFormat,
                     data |-> [p \in Pixel |-> NoWriter], active |-> {}]

EmptyFb == [plane \in {} |-> EmptyPlane(CHOOSE r \in Reso : TRUE)]

-------------------------------------------------------------------------------
(* Decoding.  A buffer is a record with the name, the type, the size, the  *)
(* pixels that it holds and the number of its message.                     *)

(* setupPixelInfo, setupHeatMap, getAov and so on: the plane is there from *)
(* now on.                                                                 *)
WithPlane(fb, plane, reso) ==
    IF plane \in DOMAIN fb THEN fb
    ELSE [p \in DOMAIN fb \cup {plane} |-> IF p = plane THEN EmptyPlane(reso) ELSE fb[p]]

(* PackTiles: a plane of another size or format begins anew, and only the  *)
(* pixels of the buffer are written.                                       *)
PackTilesDecode(plane, buffer, format) ==
    LET same == plane.reso = buffer.reso /\ plane.format = format
    IN  [plane EXCEPT
            !.reso = buffer.reso, !.format = format,
            !.data = [p \in Pixel |-> IF p \in buffer.pixels THEN buffer.id
                                      ELSE IF same THEN @[p] ELSE NoWriter]]

(* The active pixels are copied after a change and combined otherwise.     *)
UpdateActive(old, new, buffer) ==
    LET changed == old.reso # new.reso \/ old.format # new.format
    IN  [new EXCEPT !.active = IF changed THEN buffer.pixels ELSE @ \cup buffer.pixels]

(* A buffer without pixels changes nothing but that the plane is there.    *)
DecodePlane(fb, plane, buffer, format) ==
    LET ready == WithPlane(fb, plane, buffer.reso)
    IN  IF buffer.pixels = {} THEN ready
        ELSE [ready EXCEPT ![plane] =
                UpdateActive(@, PackTilesDecode(@, buffer, format), buffer)]

DecodeBeautyWithNumSample(fb, buffer) == DecodePlane(fb, "beauty", buffer, "RGBA")
DecodeBeauty(fb, buffer) == DecodePlane(fb, "beauty", buffer, "RGBA")
DecodeBeautyOddWithNumSample(fb, buffer) == DecodePlane(fb, "renderBufferOdd", buffer, "RGBA")
DecodeBeautyOdd(fb, buffer) == DecodePlane(fb, "renderBufferOdd", buffer, "RGBA")
DecodePixelInfo(fb, buffer) == DecodePlane(fb, "pixelInfo", buffer, "depth")
DecodeHeatMapWithNumSample(fb, buffer) == DecodePlane(fb, "heatMap", buffer, "seconds")
DecodeHeatMap(fb, buffer) == DecodePlane(fb, "heatMap", buffer, "seconds")
DecodeWeight(fb, buffer) == DecodePlane(fb, "weight", buffer, "weight")

(* An AOV that refers to another plane has no pixels of its own.           *)
DecodeReference(fb, buffer) ==
    [WithPlane(fb, buffer.name, buffer.reso) EXCEPT ![buffer.name].format = "reference"]

DecodeRenderOutputAOV(fb, buffer) == DecodePlane(fb, buffer.name, buffer, "aov")

DecodeData(fb, buffer) ==
    CASE buffer.type = "BEAUTY_WITH_NUMSAMPLE"    -> DecodeBeautyWithNumSample(fb, buffer)
      [] buffer.type = "BEAUTY"                   -> DecodeBeauty(fb, buffer)
      [] buffer.type = "BEAUTYODD_WITH_NUMSAMPLE" -> DecodeBeautyOddWithNumSample(fb, buffer)
      [] buffer.type = "BEAUTYODD"                -> DecodeBeautyOdd(fb, buffer)
      [] buffer.type = "PIXELINFO"                -> DecodePixelInfo(fb, buffer)
      [] buffer.type = "HEATMAP_WITH_NUMSAMPLE"   -> DecodeHeatMapWithNumSample(fb, buffer)
      [] buffer.type = "HEATMAP"                  -> DecodeHeatMap(fb, buffer)
      [] buffer.type = "WEIGHT"                   -> DecodeWeight(fb, buffer)
      [] buffer.type = "REFERENCE"                -> DecodeReference(fb, buffer)
      [] buffer.type = "UNDEF"                    -> fb
      [] OTHER                                    -> DecodeRenderOutputAOV(fb, buffer)

(* The planes that DecodeData writes.                                      *)
PlanesOf(buffer) ==
    CASE buffer.type \in BeautyType    -> {"beauty"}
      [] buffer.type \in BeautyOddType -> {"renderBufferOdd"}
      [] buffer.type \in HeatMapType   -> {"heatMap"}
      [] buffer.type = "PIXELINFO"     -> {"pixelInfo"}
      [] buffer.type = "WEIGHT"        -> {"weight"}
      [] buffer.type = "UNDEF"         -> {}
      [] OTHER                         -> {buffer.name}

(* The buffers of a channel, in order.                                     *)
DecodeBuffers(fb, data) ==
    LET decoded[i \in 0 .. Len(data)] ==
            IF i = 0 THEN fb ELSE DecodeData(decoded[i - 1], data[i])
    IN  decoded[Len(data)]

-------------------------------------------------------------------------------
(* FbMsgSingleChan: the buffers of one name that wait to be decoded.       *)

NewChan(dataType) == [dataType |-> dataType, data |-> <<>>]

(* Faulty variant: only the last buffer of any name is kept.               *)
PushSingleChan_LastOnly(chan, buffer) == [chan EXCEPT !.data = <<buffer>>]

(* Of the vector packets only the last one is kept.                        *)
PushSingleChan(chan, buffer) ==
    [chan EXCEPT !.data = IF chan.dataType = "VEC_PACKET" THEN <<buffer>>
                          ELSE Append(@, buffer)]

-------------------------------------------------------------------------------
(* FbMsgMultiChans, together with the frame buffer of its machine.         *)

NewMachine == [array |-> [name \in {} |-> NewChan("UNKNOWN")], hasVecPacket |-> FALSE,
               snapshotStartTime |-> 0, progress |-> 0, status |-> "STARTED", fb |-> EmptyFb]

(* Faulty variant: the messages are kept.                                  *)
Reset_KeepArray(machine) == [machine EXCEPT !.hasVecPacket = FALSE, !.snapshotStartTime = 0]

(* reset: all but fb, and the ids for feedback.                            *)
Reset(machine) == [NewMachine EXCEPT !.fb = machine.fb]

DataTypeOf(name) ==
    CASE name = LatencyLog -> "LATENCY_LOG"
      [] name = VecPacket  -> "VEC_PACKET"
      [] OTHER             -> "FB_DATA"

Enqueue(machine, buffer) ==
    LET name == buffer.name
        queue == machine.array
        chan == IF name \in DOMAIN queue THEN queue[name] ELSE NewChan(DataTypeOf(name))
    IN  [machine EXCEPT !.array =
            [n \in DOMAIN queue \cup {name} |->
                IF n = name THEN PushSingleChan(chan, buffer) ELSE queue[n]]]

(* pushBuffer.  Latency logs and vector packets wait in any case; aux info *)
(* goes to GlobalNodeInfo at once.                                         *)
PushBuffer(machine, buffer, delayDecode, skipLatencyLog) ==
    LET isVecPacket == buffer.name = VecPacket
        noted == [machine EXCEPT !.hasVecPacket = @ \/ isVecPacket]
    IN  IF \/ skipLatencyLog /\ buffer.name \in {LatencyLog, LatencyLogUpstream}
           \/ buffer.name = AuxInfo
          THEN machine
        ELSE IF delayDecode \/ isVecPacket \/ buffer.name = LatencyLog
          THEN Enqueue(noted, buffer)
        ELSE [noted EXCEPT !.fb = DecodeData(@, buffer)]

PushBuffers(machine, buffers, delayDecode, skipLatencyLog) ==
    LET pushed[i \in 0 .. Len(buffers)] ==
            IF i = 0 THEN machine
            ELSE PushBuffer(pushed[i - 1], buffers[i], delayDecode, skipLatencyLog)
    IN  pushed[Len(buffers)]

(* push of a message with an image.                                        *)
Push(machine, msg, delayDecode, skipLatencyLog) ==
    LET noted == [machine EXCEPT !.progress = msg.progress, !.status = msg.status]
        started == IF msg.status = "STARTED" THEN [Reset(noted) EXCEPT !.fb = EmptyFb]
                                             ELSE noted
        timed == [started EXCEPT !.snapshotStartTime = IF @ = 0 THEN msg.snapshotStartTime ELSE @]
    IN  PushBuffers(timed, msg.buffers, delayDecode, skipLatencyLog)

(* The channels that wait to be decoded.                                   *)
Pending(queue) == {name \in DOMAIN queue : queue[name].dataType = "FB_DATA"}

(* decodeAll: what waits to be decoded is decoded, name by name, and       *)
(* forgotten.                                                              *)
DecodeAll(machine) ==
    LET queue == machine.array
        DecodeName(name, fb) == DecodeBuffers(fb, queue[name].data)
    IN  [machine EXCEPT
            !.fb = FoldSet(DecodeName, @, Pending(queue)),
            !.array = [name \in DOMAIN queue \ Pending(queue) |-> queue[name]]]

(* encodeLatencyLog and encodeVecPacket: the numbers of what is sent on.   *)
EncodeLatencyLogOf(machine) ==
    IF LatencyLog \in DOMAIN machine.array
      THEN [i \in DOMAIN machine.array[LatencyLog].data |-> machine.array[LatencyLog].data[i].id]
      ELSE <<>>

EncodeVecPacketOf(machine) ==
    IF machine.hasVecPacket THEN {machine.array[VecPacket].data[1].id} ELSE {}
===============================================================================
