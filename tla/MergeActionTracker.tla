-------------------------- MODULE MergeActionTracker --------------------------
(***************************************************************************)
(* The record that the merge computation keeps, per MCRT computation, of   *)
(* what it did to that computation's data: which progressiveFrame messages *)
(* were decoded and which tiles were merged, in order (MergeActionTracker  *)
(* and MergeSequenceEnqueue).  It is sent to the MCRT computation, which   *)
(* reads it with MergeSequenceDequeue and repeats the same operations.     *)
(*                                                                         *)
(* An encoded sequence is a sequence of codes.  Ids and tile ids that      *)
(* follow each other without a gap share one range code.                   *)
(***************************************************************************)
EXTENDS Integers, Sequences, FiniteSets, SequencesExt

(* mSendImageActionId of a message that does not take part in feedback.    *)
NoActionId == -1

(* resetEncode of a new tracker.                                           *)
EmptyTracker == [data |-> <<>>, lastSendActionId |-> 0, lastPartialMergeTileId |-> 0]

(* Faulty variant: what was sent is kept and sent again.                   *)
ResetEncode_Keep(tracker) == tracker

ResetEncode(tracker) == [tracker EXCEPT !.data = <<>>]

(* Faulty variant: a gap in the ids does not end the range.                *)
Extends_AcrossGaps(ranges, id) == ranges # <<>> /\ id > Last(ranges).to

(* The ranges that cover ids, in the order of ids.                         *)
Extends(ranges, id) == ranges # <<>> /\ id = Last(ranges).to + 1

AddToRanges(ranges, id) ==
    IF Extends(ranges, id)
      THEN Append(Front(ranges), [Last(ranges) EXCEPT !.to = id])
      ELSE Append(ranges, [from |-> id, to |-> id])

Ranges(ids) ==
    LET After[n \in 0 .. Len(ids)] ==
          IF n = 0 THEN <<>> ELSE AddToRanges(After[n - 1], ids[n])
    IN  After[Len(ids)]

(* A set of ids, read from the lowest to the highest.                      *)
Upwards(ids) ==
    LET Lower(id) == {lower \in ids : lower < id}
    IN  [i \in 1 .. Cardinality(ids) |-> CHOOSE id \in ids : Cardinality(Lower(id)) = i - 1]

Code(key, range) == [key |-> key, from |-> range.from, to |-> range.to]

(* decodeAll.  A single id is recorded by an early return that leaves      *)
(* mLastSendActionId alone; no id at all flushes the empty range, which    *)
(* records one decode of NoActionId.                                       *)
RangesToDecode(ids) ==
    IF ids = <<>> THEN <<[from |-> NoActionId, to |-> NoActionId]>> ELSE Ranges(ids)

DecodeCodes(ids) ==
    LET ranges == RangesToDecode(ids)
    IN  [i \in DOMAIN ranges |-> Code("DECODE", ranges[i])]

TrackDecode(tracker, ids) ==
    [tracker EXCEPT
        !.data = @ \o DecodeCodes(ids),
        !.lastSendActionId =
            IF Len(ids) = 1 THEN @ ELSE Last(RangesToDecode(ids)).to]

(* mergeFull.                                                              *)
TrackMergeFull(tracker) ==
    [tracker EXCEPT
        !.data = Append(@, [key |-> "MERGE_ALL_TILES"]),
        !.lastPartialMergeTileId = 0]

(* mergePartial: tiles are the marked entries of the table, read upwards.  *)
TrackMergePartial(tracker, tiles) ==
    LET ranges == Ranges(Upwards(tiles))
    IN  [tracker EXCEPT
            !.data = @ \o [i \in DOMAIN ranges |-> Code("MERGE_TILE", ranges[i])],
            !.lastPartialMergeTileId =
                IF ranges = <<>> THEN @ ELSE Last(ranges).to]

(* The copy that an MCRT computation keeps of what the merge did to its    *)
(* messages: fb holds the messages decoded so far, and image[t] those that *)
(* tile t was last merged from.                                            *)
DecodeMessages(copy, ids) == [copy EXCEPT !.fb = @ \cup ids]
MergeTiles(copy, tiles) ==
    [copy EXCEPT !.image = [t \in DOMAIN @ |-> IF t \in tiles THEN copy.fb ELSE @[t]]]

(* The operation that a code stands for.                                   *)
ApplyCode(copy, code) ==
    IF code.key = "MERGE_ALL_TILES" THEN MergeTiles(copy, DOMAIN copy.image)
    ELSE IF code.key = "DECODE"     THEN DecodeMessages(copy, code.from .. code.to)
    ELSE MergeTiles(copy, code.from .. code.to)

(* decodeLoop: the codes of a record are applied to the copy one by one.   *)
DecodeLoop(copy, data) ==
    LET After[n \in 0 .. Len(data)] ==
          IF n = 0 THEN copy ELSE ApplyCode(After[n - 1], data[n])
    IN  After[Len(data)]
===============================================================================
