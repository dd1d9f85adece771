---------------------------- MODULE MCSeparateParts ----------------------------
(***************************************************************************)
(* Parts of the system that share no state, checked side by side: a        *)
(* behaviour is one of the record of merge actions and its replay, of the  *)
(* messages of a frame, of the trackers of the telemetry, of               *)
(* verifyMcrtFeedback, of the scan conversion or of the telemetry overlay. *)
(***************************************************************************)
EXTENDS MergeTrackerReplay, MachineMessages, ValueTimeTracker, VerifyFeedback, ScanConversion,
        TelemetryDisplay, TLC

CONSTANTS s1, s2

VARIABLE part

(* Two machines and one AOV.  The contents let a beauty buffer change its  *)
(* size and its type, an AOV appear as a reference before its data, and    *)
(* latency logs and vector packets come with some messages only.           *)
Buff(name, type, reso, pixels) == [name |-> name, type |-> type, reso |-> reso, pixels |-> pixels]
MCContents ==
    { <<Buff("Beauty", "BEAUTY_WITH_NUMSAMPLE", "small", {1}), Buff(LatencyLog, "UNDEF", "small", {})>>,
      <<Buff("Beauty", "BEAUTY_WITH_NUMSAMPLE", "small", {2}), Buff("aov", "REFERENCE", "small", {})>>,
      <<Buff("aov", "RENDEROUTPUT", "small", {1}), Buff(VecPacket, "UNDEF", "small", {})>>,
      <<Buff("Beauty", "BEAUTY", "large", {1}), Buff(LatencyLog, "UNDEF", "small", {}), Buff(VecPacket, "UNDEF", "small", {}) >>}

(* The dumps of verifyMcrtFeedback: what two or three machines rendered (a *)
(* colour and the number of its samples), with at most one buffer altered  *)
(* or missing, and one PPM file in the wrong format; the second feedback   *)
(* is always a sound one.  420 can be divided by every number of samples   *)
(* that comes together.                                                    *)
MCRenderings ==
    { << <<420, 1>>, <<0, 2>>, <<420, 2>> >>, << <<0, 0>>, <<420, 1>>, <<420, 1>> >>,
      << <<0, 1>>, <<0, 0>>, <<0, 0>> >> }
MCReGamma == [v \in 0 .. 3 |-> 420 * v]
Average(r, machs) ==
    LET N(m) == r[m + 1][2]
        Light(m) == r[m + 1][1] * r[m + 1][2]
        n == MapThenSumSet(N, machs)
    IN  <<IF n = 0 THEN 0 ELSE MapThenSumSet(Light, machs) \div n, n>>
DumpOf(r, machs) ==
    [slot \in Range(Slots(MaxMachines)) |->
        LET m == slot[2]
            pixel == CASE slot[1] \in {"mergeAll", "feedback"} -> Average(r, machs)
                       [] slot[1] = "minusOne" -> Average(r, machs \ {m})
                       [] OTHER -> r[m + 1]
        IN  [head |-> "FBD", pixels |-> <<IF slot[3] = "beauty" THEN pixel[1] ELSE pixel[2]>>]]
Altered(dump) ==
    {dump} \cup UNION {{[dump EXCEPT ![slot] = Missing],
                        [dump EXCEPT ![slot].pixels = <<@[1] + IF slot[3] = "beauty" THEN 420 ELSE 2>>],
                        [dump EXCEPT ![slot].pixels = @ \o @]} : slot \in DOMAIN dump}
ToPPM(dump) ==
    [slot \in DOMAIN dump |->
        IF dump[slot] = Missing THEN Missing
        ELSE [head |-> IF slot[1] = "merge" /\ slot[2] = 2 THEN "FBD" ELSE "PPM",
              pixels |-> [i \in DOMAIN dump[slot].pixels |->
                            IF slot[3] = "beauty" THEN dump[slot].pixels[i] \div 420
                                                  ELSE dump[slot].pixels[i]]]]
MCDumps ==
    LET plain == DumpOf(<< <<420, 1>>, <<420, 1>>, <<420, 1>> >>, 0 .. 2)
    IN  {[f \in Format |-> [id \in 1 .. 2 |->
            LET d == IF id = 1 THEN dump ELSE plain IN IF f = "PPM" THEN ToPPM(d) ELSE d]] :
            dump \in UNION {Altered(DumpOf(r, 0 .. n)) : r \in MCRenderings, n \in 1 .. 2}}

(* Lines of 4.6 to 20 pixels and thin ones, in any direction, within the   *)
(* window, partly outside or reduced to a point; a circle within the       *)
(* window and one across its border.  A pixel has 48 parts, a scanline 16. *)
Ln(x, y, dir, n, h) == [from |-> <<x, y>>, dir |-> dir, steps |-> n, half |-> h]
MCLines ==
    { Ln(60, 70, <<3, 4, 5>>, 17, 8), Ln(100, 120, <<4, -3, 5>>, 20, 2), Ln(48, 96, <<1, 0, 1>>, 100, 20),
      Ln(150, 20, <<5, 12, 13>>, 12, 1), Ln(130, 90, <<3, 4, 5>>, 0, 8), Ln(20, 40, <<-3, 4, 5>>, 10, 4),
      Ln(200, 60, <<3, 4, 5>>, 15, 5), Ln(120, 30, <<0, 1, 1>>, 300, 7) }
MCCircles == { [center |-> <<96, 100>>, radius |-> 60, width |-> 30],
               [center |-> <<170, 40>>, radius |-> 40, width |-> 80] }

(* Panels with two lines that cross, items of all kinds that cover each    *)
(* other, and a panel with panels below it.                                *)
MCSizes == {<<2, 2>>, <<3, 2>>}
MCRootPanels == <<"devel", "netIO", "pathVis">>
MCChildPanels == [panel \in {"netIO"} |-> <<"netIO-0", "netIO-1">>]
MCPaths == {<<"netIO", "netIO-1">>, <<"pathVis">>, <<"netIO", "none">>}
Bar(kind, lower, upper, colour) == [kind |-> kind, lower |-> lower, upper |-> upper, colour |-> colour]
Shape(kind, cells, colour) == [kind |-> kind, cells |-> cells, colour |-> colour]
MCLayout(panel, w, h) ==
    CASE panel = "pathVis" ->
            << Shape("line", {<<0, 0>>, <<1, 0>>}, "red"), Shape("line", {<<1, 0>>}, "green"),
               Shape("circle", {<<1, h - 1>>}, "red"), Bar("hline", <<0, h - 1>>, <<w - 1, h - 1>>, "white"),
               Shape("str", {<<w - 1, 0>>}, "white") >>
      [] panel = "devel" ->
            << Bar("bar", <<0, 0>>, <<0, 0>>, "green"), Bar("box", <<0, 0>>, <<w - 1, 0>>, "grey"),
               Shape("str", {<<0, 0>>}, "white") >>
      [] OTHER ->
            << Bar("outline", <<0, 0>>, <<w - 1, h - 1>>, "grey"), Bar("vline", <<0, 0>>, <<0, h - 1>>, "red"),
               Bar("bar", <<0, 0>>, <<w - 1, h - 1>>, panel) >>

Parts == {"replay", "messages", "trackers", "verify", "scan", "display"}

PartsInit ==
    /\ part \in Parts
    /\ ReplayInit
    /\ MessagesInit
    /\ TrackerInit
    /\ ScanInit
    /\ IF part = "verify" THEN VerifyInit ELSE ProgramStarts(<<>>)
    /\ IF part = "display" THEN DisplayInit ELSE ClientStarts(<<2, 2>>, FALSE, FALSE, FALSE)

PartsNext ==
    /\ UNCHANGED part
    /\ \/ part = "replay" /\ ReplayNext /\ UNCHANGED <<messageVars, trackerVars, verifyVars, scanVars, displayVars>>
       \/ part = "messages" /\ MessagesNext /\ UNCHANGED <<replayVars, trackerVars, verifyVars, scanVars, displayVars>>
       \/ part = "trackers" /\ TrackerNext /\ UNCHANGED <<replayVars, messageVars, verifyVars, scanVars, displayVars>>
       \/ part = "verify" /\ VerifyNext /\ UNCHANGED <<replayVars, messageVars, trackerVars, scanVars, displayVars>>
       \/ part = "scan" /\ ScanNext /\ UNCHANGED <<replayVars, messageVars, trackerVars, verifyVars, displayVars>>
       \/ part = "display" /\ DisplayNext /\ UNCHANGED <<replayVars, messageVars, trackerVars, verifyVars, scanVars>>

PartsSpec ==
    PartsInit /\ [][PartsNext]_<<part, replayVars, messageVars, trackerVars, verifyVars, scanVars, displayVars>>
===============================================================================
