----------------------------- MODULE ScanConversion -----------------------------
(***************************************************************************)
(* The anti-aliased drawing of the telemetry overlay                       *)
(* (TelemetryOverlay.cc scanConvert and its callers, TelemetryOverlayLine  *)
(* .cc, ScanConvert.cc, ScanConvertPolygon.cc).  A shape covers a pixel as *)
(* far as it covers the centres of the pixel's sub-pixels, counted along   *)
(* the sub-scanlines between the points where the outline crosses them.    *)
(*                                                                         *)
(* Coordinates are integers, Unit to a pixel.  A crossing is a fraction    *)
(* <<n, d>> of them.  The root in a crossing of a circle is kept to the    *)
(* coordinate, with the half to the next one when it lies between two:     *)
(* what crossings are compared with lies at whole coordinates.             *)
(***************************************************************************)
EXTENDS Integers, Sequences, FiniteSets, FiniteSetsExt, SequencesExt, TLC

CONSTANTS Width, Height,    \* the window, in pixels
          Unit,             \* coordinates to a pixel
          Lines,            \* lines that are drawn: [from, dir, steps, half]
          Circles,          \* circles that are drawn: [center, radius, width]
          MaxShapes         \* bound: shapes drawn after a clear

(* Sub-scanlines and sub-pixel centres lie at whole coordinates.           *)
ASSUME UnitAssumption == \A n \in {1, 2, 3, 4, 6, 8} : Unit % (2 * n) = 0

VARIABLES canvas,   \* the alpha of every pixel
          drawn     \* the shapes drawn since the canvas was cleared, with their samples

scanVars == <<canvas, drawn>>

Pixels == (0 .. Width - 1) \X (0 .. Height - 1)
MaxSamples == 6
FullAlpha == 255

Larger(a, b) == IF a > b THEN a ELSE b
Smaller(a, b) == IF a < b THEN a ELSE b

(* Crossings. *)
Before(p, q) == p[1] * q[2] < q[1] * p[2]
Leftmost(crossings) == CHOOSE p \in crossings : \A q \in crossings : ~ Before(q, p)
Rightmost(crossings) == CHOOSE p \in crossings : \A q \in crossings : ~ Before(p, q)
PixelOf(p) == p[1] \div (p[2] * Unit)
AtPixel(x) == <<x * Unit, 1>>
CalcSubPixId(p, samples) ==
    LET size == p[2] * Unit
        v == (p[1] % size) * samples
    IN  v \div size + (IF 2 * (v % size) > size THEN 1 ELSE 0)

SubScanline(y, subY, samples) == y * Unit + (Unit * (2 * subY + 1)) \div (2 * samples)

(* The rows a shape between two heights may touch. *)
CalcMinMaxY(low, high) ==
    IF high <= 0 \/ low >= Height * Unit THEN {}
    ELSE Larger(0, low \div Unit) .. Smaller(Height - 1, high \div Unit)

------------------------------------------------------------------------------
(* Polygons: crossings with the edges, from the vertices.                  *)

EdgeOf(polygon, i) ==
    LET a == polygon[i]
        b == polygon[(i % Len(polygon)) + 1]
    IN  IF a[2] < b[2] THEN [btm |-> a, top |-> b] ELSE [btm |-> b, top |-> a]
LeftX(edge) == Smaller(edge.btm[1], edge.top[1])

(* The edges from the leftmost; edges that start at the same x come in any *)
(* order.                                                                  *)
EdgeTables(polygon) ==
    LET table(order) == [i \in DOMAIN polygon |-> EdgeOf(polygon, order[i])]
    IN  {t \in {table(order) : order \in Permutations(DOMAIN polygon)} :
            \A i, j \in DOMAIN t : i < j => LeftX(t[i]) <= LeftX(t[j])}

CalcIsectX(y, edge) ==
    LET rise == edge.top[2] - edge.btm[2]
    IN  <<edge.btm[1] * rise + (y - edge.btm[2]) * (edge.top[1] - edge.btm[1]), rise>>

(* An edge crosses all the sub-scanlines of a row it spans, of the other   *)
(* rows it reaches those between its ends.                                 *)
EdgeCrosses(edge, y, scanlineY) ==
    /\ edge.top[2] > y * Unit
    /\ (y + 1) * Unit > edge.btm[2]
    /\ \/ edge.btm[2] <= y * Unit /\ (y + 1) * Unit <= edge.top[2]
       \/ edge.btm[2] <= scanlineY /\ scanlineY < edge.top[2]

EdgeXScan(edgeTbl, y, ySamples) ==
    [subY \in 0 .. ySamples - 1 |->
        LET scanlineY == SubScanline(y, subY, ySamples)
            hit == SelectSeq(edgeTbl, LAMBDA edge : EdgeCrosses(edge, y, scanlineY))
        IN  [i \in DOMAIN hit |-> CalcIsectX(scanlineY, hit[i])]]

(* Variant: crossings are left in the order of the edges. *)
CalcIsectTbl_Unsorted(polygon, scanlineY) ==
    LET edges == [i \in DOMAIN polygon |-> EdgeOf(polygon, i)]
        hit == SelectSeq(edges, LAMBDA edge : edge.btm[2] <= scanlineY /\ scanlineY < edge.top[2])
    IN  [i \in DOMAIN hit |-> CalcIsectX(scanlineY, hit[i])]

(* The class version looks at every edge and sorts what it finds. *)
CalcIsectTbl(polygon, scanlineY) ==
    LET edges == [i \in DOMAIN polygon |-> EdgeOf(polygon, i)]
        hit == SelectSeq(edges, LAMBDA edge : edge.btm[2] <= scanlineY /\ scanlineY < edge.top[2])
    IN  SortSeq([i \in DOMAIN hit |-> CalcIsectX(scanlineY, hit[i])], Before)
PolygonXScan(polygon, y, ySamples) ==
    [subY \in 0 .. ySamples - 1 |-> CalcIsectTbl(polygon, SubScanline(y, subY, ySamples))]

------------------------------------------------------------------------------
(* Circles.                                                                *)

(* The crossings of a circle with a sub-scanline, or none. *)
CalcIsectSpan(center, radius, scanlineY) ==
    LET sq == radius * radius - (scanlineY - center[2]) * (scanlineY - center[2])
        root == CHOOSE k \in 0 .. radius : k * k <= sq /\ sq < (k + 1) * (k + 1)
        twice == IF root * root = sq THEN 2 * root ELSE 2 * root + 1
    IN  IF sq < 0 THEN <<>>
        ELSE << <<2 * center[1] - twice, 2>>, <<2 * center[1] + twice, 2>> >>

DiscXScan(center, radius, y, ySamples) ==
    [subY \in 0 .. ySamples - 1 |-> CalcIsectSpan(center, radius, SubScanline(y, subY, ySamples))]

RingXScan(center, radius, width, y, ySamples) ==
    [subY \in 0 .. ySamples - 1 |->
        LET scanlineY == SubScanline(y, subY, ySamples)
            outer == CalcIsectSpan(center, radius + width \div 2, scanlineY)
            inner == CalcIsectSpan(center, radius - width \div 2, scanlineY)
        IN  IF outer = <<>> THEN <<>> ELSE <<outer[1]>> \o inner \o <<outer[2]>>]

------------------------------------------------------------------------------
(* Counting the covered sub-pixels of a row.                               *)

(* The first and the last pixel of the row that crossings enclose, or      *)
(* nothing.                                                                *)
PixelSpan(isectTbl) ==
    LET crossed == {subY \in DOMAIN isectTbl : Len(isectTbl[subY]) >= 2}
        start == Leftmost({AtPixel(Width)} \cup {isectTbl[k][1] : k \in crossed})
        end == Rightmost({AtPixel(0)} \cup {isectTbl[k][Len(isectTbl[k])] : k \in crossed})
    IN  IF \/ ~ Before(start, end)
           \/ ~ Before(start, AtPixel(Width))
           \/ ~ Before(AtPixel(0), end)
        THEN <<>>
        ELSE <<Larger(0, PixelOf(start)), Smaller(Width - 1, PixelOf(end))>>

(* The sub-pixels of pixel x between two crossings.  The conversion of a   *)
(* negative crossing to unsigned is undefined: wrapped is what it yields.  *)
EdgePix(x, from, to, ePix, samples, wrapped) ==
    LET s == Larger(0, PixelOf(from))
        e == Smaller(ePix, IF PixelOf(to) < 0 THEN wrapped ELSE PixelOf(to))
        left == CalcSubPixId(from, samples)
        right == CalcSubPixId(to, samples)
    IN  CASE x < s \/ x > e -> 0
          [] x = s /\ x = e -> right - left
          [] x = s /\ x < e -> samples - left
          [] x > s /\ x = e -> right
          [] OTHER -> samples

PixXLoop(x, isects, ePix, samples, wrapped) ==
    LET segment(i) == EdgePix(x, isects[2 * i - 1], isects[2 * i], ePix, samples, wrapped)
    IN  MapThenSumSet(segment, 1 .. Len(isects) \div 2)

CalcCoverage(x, isectTbl, ePix, samples, wrapped) ==
    LET line(subY) == PixXLoop(x, isectTbl[subY], ePix, samples, wrapped)
    IN  MapThenSumSet(line, {subY \in DOMAIN isectTbl : Len(isectTbl[subY]) >= 2})

(* The alpha of a count out of all; an unsigned count below zero is a huge *)
(* one.                                                                    *)
AlphaOf(count, total) ==
    IF count < 0 THEN FullAlpha ELSE Smaller(FullAlpha, (FullAlpha * count) \div total)

(* The alphas a shape asks for: isectTbls has the crossings of its rows.   *)
ScanConvert(isectTbls, xSamples, ySamples, wrapped) ==
    [p \in Pixels |->
        IF p[2] \notin DOMAIN isectTbls THEN 0
        ELSE LET isectTbl == isectTbls[p[2]]
                 span == PixelSpan(isectTbl)
             IN  IF span = <<>> \/ p[1] < span[1] \/ p[1] > span[2] THEN 0
                 ELSE AlphaOf(CalcCoverage(p[1], isectTbl, span[2], xSamples, wrapped),
                              xSamples * ySamples)]

PixMaxFill(under, alphas) == [p \in Pixels |-> Larger(under[p], alphas[p])]

------------------------------------------------------------------------------
(* Shapes.                                                                 *)

Heights(polygon) == {polygon[i][2] : i \in DOMAIN polygon}
RowsOf(polygon) == CalcMinMaxY(Min(Heights(polygon)), Max(Heights(polygon)))
PolygonFill(polygon, edgeTbl, xSamples, ySamples, wrapped) ==
    ScanConvert([y \in RowsOf(polygon) |-> EdgeXScan(edgeTbl, y, ySamples)],
                xSamples, ySamples, wrapped)
ScanConvertPolygonMain(polygon, xSamples, ySamples, wrapped) ==
    ScanConvert([y \in RowsOf(polygon) |-> PolygonXScan(polygon, y, ySamples)],
                xSamples, ySamples, wrapped)

CircleFill(center, radius, wrapped) ==
    ScanConvert([y \in CalcMinMaxY(center[2] - radius, center[2] + radius) |->
                    DiscXScan(center, radius, y, 8)], 8, 8, wrapped)

CircleOutline(center, radius, width, wrapped) ==
    LET reach == radius + width \div 2
    IN  ScanConvert([y \in CalcMinMaxY(center[2] - reach, center[2] + reach) |->
                        RingXScan(center, radius, width, y, 8)], 8, 8, wrapped)

(* A line runs some steps of a whole-numbered direction <<dx, dy, length>>,*)
(* half of its length to each side as often as the line says.              *)
ToEnd(line) == <<line.from[1] + line.steps * line.dir[1], line.from[2] + line.steps * line.dir[2]>>
HalfWidth(line) == line.half * line.dir[3]
OutlineOf(line) ==
    LET dx == - line.half * line.dir[2]
        dy == line.half * line.dir[1]
        e == ToEnd(line)
    IN  << <<line.from[1] + dx, line.from[2] + dy>>, <<e[1] + dx, e[2] + dy>>,
           <<e[1] - dx, e[2] - dy>>, <<line.from[1] - dx, line.from[2] - dy>> >>

(* The more a line runs along x the more sub-scanlines it needs. *)
Absolute(n) == IF n < 0 THEN -n ELSE n
SamplesOf(along, across) == Larger(1, (MaxSamples * Absolute(along)) \div (Absolute(along) + Absolute(across)))

(* The caps of a line wider than a pixel. *)
CapsOf(line) ==
    IF 2 * HalfWidth(line) <= Unit THEN {}
    ELSE {[kind |-> "disc", center |-> c, radius |-> HalfWidth(line)] : c \in {line.from, ToEnd(line)}}

LineDrawOutlineStroke(line, mode) ==
    /\ line.half > 0
    /\ \E wrapped \in {0, Width} :
        LET xSamples == SamplesOf(line.dir[2], line.dir[1])
            ySamples == SamplesOf(line.dir[1], line.dir[2])
            body == OutlineOf(line)
            caps == CapsOf(line)
            withCaps(under) ==
                [p \in Pixels |->
                    Max({under[p]} \cup {CircleFill(c.center, c.radius, wrapped)[p] : c \in caps})]
        IN  IF line.steps = 0
            THEN /\ canvas' = withCaps(canvas)
                 /\ drawn' = drawn \cup caps
            ELSE /\ \/ /\ mode = "lambda"
                       /\ \E edgeTbl \in EdgeTables(body) :
                            canvas' = withCaps(PixMaxFill(canvas,
                                          PolygonFill(body, edgeTbl, xSamples, ySamples, wrapped)))
                    \/ /\ mode = "class"
                       /\ canvas' = withCaps(PixMaxFill(canvas,
                                          ScanConvertPolygonMain(body, xSamples, ySamples, wrapped)))
                 /\ drawn' = drawn \cup caps
                        \cup {[kind |-> "polygon", points |-> body, x |-> xSamples, y |-> ySamples]}

DrawCircleItem(circle) ==
    /\ \E wrapped \in {0, Width} :
        canvas' = PixMaxFill(canvas, CircleOutline(circle.center, circle.radius, circle.width, wrapped))
    /\ drawn' = drawn \cup {[kind |-> "ring", center |-> circle.center,
                             outer |-> circle.radius + circle.width \div 2,
                             inner |-> circle.radius - circle.width \div 2]}

ClearCanvas ==
    /\ drawn # {}
    /\ canvas' = [p \in Pixels |-> 0]
    /\ drawn' = {}

ScanInit == canvas = [p \in Pixels |-> 0] /\ drawn = {}

ScanNext ==
    \/ /\ Cardinality(drawn) < MaxShapes
       /\ \/ \E line \in Lines, mode \in {"lambda", "class"} : LineDrawOutlineStroke(line, mode)
          \/ \E circle \in Circles : DrawCircleItem(circle)
    \/ ClearCanvas

------------------------------------------------------------------------------
(* What a shape covers, without scan lines: the sample centres inside it.  *)
(* Centres on the outline itself may count or not.                         *)

Squared(c, x, y) == (x - c[1]) * (x - c[1]) + (y - c[2]) * (y - c[2])
Side(a, b, x, y) == (b[1] - a[1]) * (y - a[2]) - (b[2] - a[2]) * (x - a[1])
Encloses(shape, x, y, outline) ==
    CASE shape.kind = "disc" ->
            Squared(shape.center, x, y) < shape.radius * shape.radius + (IF outline THEN 1 ELSE 0)
      [] shape.kind = "ring" ->
            /\ Squared(shape.center, x, y) < shape.outer * shape.outer + (IF outline THEN 1 ELSE 0)
            /\ Squared(shape.center, x, y) > shape.inner * shape.inner - (IF outline THEN 1 ELSE 0)
      [] shape.kind = "polygon" ->
            LET side(i) == Side(shape.points[i], shape.points[(i % Len(shape.points)) + 1], x, y)
                sides == {side(i) : i \in DOMAIN shape.points}
            IN  \/ \A d \in sides : d > 0 \/ (outline /\ d = 0)
                \/ \A d \in sides : d < 0 \/ (outline /\ d = 0)

SamplesIn(shape, p, outline) ==
    LET xs == IF shape.kind = "polygon" THEN shape.x ELSE 8
        ys == IF shape.kind = "polygon" THEN shape.y ELSE 8
        inside == {s \in (0 .. xs - 1) \X (0 .. ys - 1) :
                    Encloses(shape, SubScanline(p[1], s[1], xs), SubScanline(p[2], s[2], ys), outline)}
    IN  AlphaOf(Cardinality(inside), xs * ys)

Columns(shape) ==
    CASE shape.kind = "disc" -> {shape.center[1] - shape.radius, shape.center[1] + shape.radius}
      [] shape.kind = "ring" -> {shape.center[1] - shape.outer, shape.center[1] + shape.outer}
      [] shape.kind = "polygon" -> {shape.points[i][1] : i \in DOMAIN shape.points}

(* Every pixel has the alpha of the shape that covers it most, whichever   *)
(* shapes were drawn before and by either version of the code: no          *)
(* sub-scanline is lost where edges meet and no shape hides another.       *)
(* Where the window cuts a shape the columns at its border are not exact,  *)
(* and a shape that leaves the window to the left is not at all.           *)
CoverageIsExact ==
    (\A shape \in drawn : Min(Columns(shape)) >= 0) =>
        \A p \in Pixels :
            (p[1] < Width - 1 \/ \A shape \in drawn : Max(Columns(shape)) < Width * Unit) =>
                /\ \A shape \in drawn : canvas[p] >= SamplesIn(shape, p, FALSE)
                /\ canvas[p] <= Max({0} \cup {SamplesIn(shape, p, TRUE) : shape \in drawn})
=================================================================================
