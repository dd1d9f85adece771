----------------------------- MODULE PartialMerge -----------------------------
(***************************************************************************)
(* The tile window of the asynchronous partial merge                       *)
(* (FbMsgSingleFrame::partialMergeTilesTblGen).                            *)
(*                                                                         *)
(* A partial merge refreshes only `request' of the `total' tiles of the    *)
(* image.  The window starts at mPartialMergeStartTileId, wraps around at  *)
(* the last tile, and leaves the tile after it as the next start.          *)
(***************************************************************************)
EXTENDS Integers

Least(a, b) == IF a <= b THEN a ELSE b

TileIds(total) == 0 .. total - 1

(* The first tile of the window, and the one after its last before it is   *)
(* wrapped around.                                                         *)
ActiveStartId(start, total) == Least(start, total - 1)
ActiveEndId(start, request, total) ==
    ActiveStartId(start, total) + Least(request, total)

(* The tiles that are marked in partialMergeTileTbl.  A request of 0 marks *)
(* them all.                                                               *)
PartialMergeTiles(start, request, total) ==
    LET first == ActiveStartId(start, total)
        end   == ActiveEndId(start, request, total)
    IN  IF request = 0
          THEN TileIds(total)
          ELSE {t \in TileIds(total) : \/ first <= t /\ t < end
                                       \/ t < end - total}

(* Faulty variant: the start is not moved.                                 *)
NextStartTileId_Stay(start, request, total) == start

(* mPartialMergeStartTileId after the call.                                *)
NextStartTileId(start, request, total) ==
    LET end == ActiveEndId(start, request, total)
    IN  IF request = 0   THEN start
        ELSE IF end <= total THEN end
        ELSE end - total
===============================================================================
