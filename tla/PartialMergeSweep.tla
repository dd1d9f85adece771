-------------------------- MODULE PartialMergeSweep --------------------------
(***************************************************************************)
(* A frame that is merged again and again, by partial merges of any size   *)
(* in Requests and by full merges.  The module asks whether the windows    *)
(* that PartialMerge hands out refresh the whole image.                    *)
(*                                                                         *)
(* Each step is one merge of the frame, as the merge computation makes for *)
(* every image that it sends.                                              *)
(***************************************************************************)
EXTENDS PartialMerge, FiniteSets

CONSTANTS
    TotalTiles,     \* tiles of the image
    Requests,       \* the partialMergeTilesTotal of the partial merges
    FullMerges      \* TRUE if some merges are not partial

ASSUME TotalTilesAssumption == TotalTiles \in Nat \ {0}
ASSUME RequestsAssumption == Requests \subseteq Nat \ {0} /\ Requests # {}
ASSUME FullMergesAssumption == FullMerges \in BOOLEAN

VARIABLES
    partialMergeStartTileId,
    waiting         \* waiting[t]: merges since tile t was last refreshed

vars == <<partialMergeStartTileId, waiting>>

Tile == TileIds(TotalTiles)

Init ==
    /\ partialMergeStartTileId = 0
    /\ waiting = [t \in Tile |-> 0]

(* mergeAllFb with a tile table: it generates the table and refreshes the  *)
(* marked tiles.  Counting stops at the bound WaitBound speaks of.         *)
Refresh(tiles) ==
    waiting' = [t \in Tile |->
                  IF t \in tiles THEN 0 ELSE Least(waiting[t] + 1, TotalTiles)]

PartialMergeStep(request) ==
    /\ Refresh(PartialMergeTiles(partialMergeStartTileId, request, TotalTiles))
    /\ partialMergeStartTileId' =
         NextStartTileId(partialMergeStartTileId, request, TotalTiles)

(* mergeAllFb without a tile table: every tile is refreshed and the start  *)
(* of the next partial merge stays.                                        *)
FullMergeStep ==
    /\ FullMerges
    /\ Refresh(Tile)
    /\ UNCHANGED partialMergeStartTileId

Next == (\E request \in Requests : PartialMergeStep(request)) \/ FullMergeStep

Spec == Init /\ [][Next]_vars

-------------------------------------------------------------------------------
(* The type of the state; the start may be one past the last tile.         *)
TypeOK ==
    /\ partialMergeStartTileId \in 0 .. TotalTiles
    /\ waiting \in [Tile -> 0 .. TotalTiles]

(* No tile waits longer than one sweep over the image: the windows of      *)
(* partialMergeTilesTblGen walk the whole image, whatever the sizes of the *)
(* single steps and wherever they wrap around (the table is "created from  *)
(* bottom to top order based on scanlines", FbMsgSingleFrame.cc:785).      *)
WaitBound == \A t \in Tile : waiting[t] < TotalTiles
===============================================================================
