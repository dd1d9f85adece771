---------------------------- MODULE TelemetryOverlay ----------------------------
(***************************************************************************)
(* The picture the telemetry draws over an image (TelemetryOverlay.cc): a  *)
(* panel enters items of several kinds, they are flushed into the pixels   *)
(* of the overlay kind by kind, and the pixels are blended into the image. *)
(* The memory of an item goes back to a pool when the items are cleared    *)
(* and is used for later items.                                            *)
(*                                                                         *)
(* A pixel of the overlay records the colours that make it up: those set   *)
(* or kept as the largest, and over them those of characters.  What a line *)
(* or a circle covers is the subject of ScanConversion: here an item of    *)
(* these kinds comes with its cells.                                       *)
(***************************************************************************)
EXTENDS Integers, Sequences, FiniteSets, FiniteSetsExt, SequencesExt

(* The kinds of items in the order they are flushed; drawFlushAllItems     *)
(* says that it matters.  Boxes and bars share their memory.               *)
Kinds == <<"line", "circle", "box", "bar", "outline", "vline", "hline", "str">>
PoolOf(kind) == IF kind = "bar" THEN "box" ELSE kind
Pools == Range(Kinds) \ {"bar"}

NoPixel == [set |-> {}, glyphs |-> <<>>]
Cells(w, h) == (0 .. w - 1) \X (0 .. h - 1)
PixOffset(w, cell) == cell[2] * w + cell[1] + 1

(* resize keeps what lies in the memory; clear follows. *)
Resize(overlay, w, h) ==
    IF overlay.w = w /\ overlay.h = h THEN overlay
    ELSE [overlay EXCEPT !.w = w, !.h = h,
            !.pixels = [i \in 1 .. w * h |-> IF i <= Len(@) THEN @[i] ELSE NoPixel]]
Clear(overlay) == [overlay EXCEPT !.pixels = [i \in DOMAIN @ |-> NoPixel]]
NewOverlay(w, h) ==
    Clear(Resize([w |-> 0, h |-> 0, pixels |-> <<>>, items |-> [k \in Range(Kinds) |-> <<>>],
                  pool |-> [k \in Pools |-> <<>>], memory |-> <<>>], w, h))

------------------------------------------------------------------------------
(* Items and their memory.                                                 *)

GetMemItem(overlay, kind) ==
    LET pool == overlay.pool[PoolOf(kind)]
    IN  IF pool = <<>> THEN Len(overlay.memory) + 1 ELSE Head(pool)

DrawItem(overlay, entry) ==
    LET id == GetMemItem(overlay, entry.kind)
    IN  [overlay EXCEPT
            !.pool[PoolOf(entry.kind)] = IF @ = <<>> THEN @ ELSE Tail(@),
            !.memory = IF id \in DOMAIN @ THEN [@ EXCEPT ![id] = entry] ELSE Append(@, entry),
            !.items[entry.kind] = Append(@, id)]
DrawItems(overlay, entries) == FoldLeft(DrawItem, overlay, entries)

ClearItems(overlay, kind) ==
    [overlay EXCEPT !.pool[PoolOf(kind)] = Reverse(overlay.items[kind]) \o @,
                    !.items[kind] = <<>>]
DrawClearAllItems(overlay) == FoldLeft(ClearItems, overlay, Kinds)

------------------------------------------------------------------------------
(* Flushing.                                                               *)

BoxCells(lower, upper) == (lower[1] .. upper[1]) \X (lower[2] .. upper[2])
HLineCells(minX, maxX, y) == (minX .. maxX) \X {y}
VLineCells(x, minY, maxY) == {x} \X (minY .. maxY)
BoxOutlineCells(lower, upper) ==
    HLineCells(lower[1], upper[1], lower[2]) \cup VLineCells(upper[1], lower[2], upper[2]) \cup
    HLineCells(lower[1], upper[1], upper[2]) \cup VLineCells(lower[1], lower[2], upper[2])
ItemCells(entry) ==
    CASE entry.kind \in {"box", "bar"} -> BoxCells(entry.lower, entry.upper)
      [] entry.kind = "outline" -> BoxOutlineCells(entry.lower, entry.upper)
      [] entry.kind = "vline" -> VLineCells(entry.lower[1], entry.lower[2], entry.upper[2])
      [] entry.kind = "hline" -> HLineCells(entry.lower[1], entry.upper[1], entry.lower[2])
      [] OTHER -> entry.cells

SetCol4(pixel, colour) == [set |-> {colour}, glyphs |-> <<>>]
MaxAddCol4(pixel, colour) == [pixel EXCEPT !.set = @ \cup {colour}]
AlphaBlendPixC4(pixel, colour) == [pixel EXCEPT !.glyphs = Append(@, colour)]
PaintPixel(kind, pixel, colour) ==
    CASE kind \in {"line", "circle"} -> MaxAddCol4(pixel, colour)
      [] kind = "str" -> AlphaBlendPixC4(pixel, colour)
      [] OTHER -> SetCol4(pixel, colour)

(* Only the pixels of characters are tested against the overlay: panels    *)
(* keep the other items inside.                                            *)
FlushItem(overlay, id) ==
    LET entry == overlay.memory[id]
        hit == {PixOffset(overlay.w, c) : c \in ItemCells(entry) \cap Cells(overlay.w, overlay.h)}
    IN  [overlay EXCEPT !.pixels =
            [i \in DOMAIN @ |-> IF i \in hit THEN PaintPixel(entry.kind, @[i], entry.colour) ELSE @[i]]]

(* Several threads flush the items of a kind in any order, one thread as   *)
(* they were entered.  A panel has at most two items of a kind: the kinds  *)
(* in reversed are flushed the other way round.                            *)
FlushKind(overlay, kind, reversed) ==
    LET ids == overlay.items[kind]
    IN  FoldLeft(FlushItem, overlay, IF kind \in reversed THEN Reverse(ids) ELSE ids)
DrawFlushAllItems(overlay, reversed) ==
    FoldLeft(LAMBDA o, kind : FlushKind(o, kind, reversed), overlay, Kinds)
FlushOrders(overlay) == SUBSET {k \in Range(Kinds) : Len(overlay.items[k]) > 1}

------------------------------------------------------------------------------
(* Blending the overlay into an image of another size.                     *)

Aligns == {"SMALL", "MIDDLE", "BIG"}

AdjustSrcRange(fgSize, bgSize, align) ==
    IF fgSize <= bgSize THEN <<0, fgSize - 1>>
    ELSE CASE align = "SMALL" -> <<0, bgSize - 1>>
           [] align = "MIDDLE" -> LET fgMin == fgSize \div 2 - bgSize \div 2
                                  IN  <<fgMin, fgMin + bgSize - 1>>
           [] align = "BIG" -> <<fgSize - 1 - bgSize + 1, fgSize - 1>>

AdjustDstStartPos(fgSize, bgSize, align, flip) ==
    LET pos == CASE fgSize >= bgSize -> 0
                 [] align = "SMALL" -> 0
                 [] align = "MIDDLE" -> bgSize \div 2 - fgSize \div 2
                 [] align = "BIG" -> bgSize - 1 - fgSize + 1
    IN  IF flip THEN bgSize - 1 - pos ELSE pos

AlphaBlendPixC3(bg, pixel) == IF pixel = NoPixel THEN bg ELSE Append(bg, pixel)

OutOfBounds == <<>>

(* Row by row from the first row of the overlay that is used, up in the    *)
(* image or, when its first row is the top one, down.                      *)
BakeOverlayMainRgb888(overlay, hAlign, vAlign, frame, w, h, top2bottom) ==
    LET xs == AdjustSrcRange(overlay.w, w, hAlign)
        ys == AdjustSrcRange(overlay.h, h, vAlign)
        bgX == AdjustDstStartPos(overlay.w, w, hAlign, FALSE)
        bgY == AdjustDstStartPos(overlay.h, h, vAlign, top2bottom)
        used == (xs[1] .. xs[2]) \X (ys[1] .. ys[2])
        Target(c) == PixOffset(w, <<bgX + (c[1] - xs[1]),
                                    bgY + (IF top2bottom THEN ys[1] - c[2] ELSE c[2] - ys[1])>>)
        hit == {Target(c) : c \in used}
        At(i) == overlay.pixels[PixOffset(overlay.w, CHOOSE c \in used : Target(c) = i)]
    IN  IF ~ hit \subseteq DOMAIN frame THEN OutOfBounds
        ELSE [i \in DOMAIN frame |-> IF i \in hit THEN AlphaBlendPixC3(frame[i], At(i)) ELSE frame[i]]
==================================================================================
