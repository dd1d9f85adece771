------------------------------- MODULE InfoRec -------------------------------
(***************************************************************************)
(* The statistics record a client keeps of a rendering session             *)
(* (share/codec/InfoRec): items, each a timestamp with the values of the   *)
(* merge node and of every mcrt machine, in the order they were taken, and *)
(* what is computed from them afterwards: when a rendering started, was    *)
(* complete and was finished, and the statistics of the items between.     *)
(*                                                                         *)
(* Of the values only the two that steer the recorder are kept: whether a  *)
(* machine renders ("rnd") and its progress ("prg"). A progress is a       *)
(* number of parts, Full of them are 1.0. Timestamp 0 is "undefined", as   *)
(* in the code.                                                            *)
(***************************************************************************)
EXTENDS Integers, FiniteSets, SequencesExt

CONSTANT Full                   \* the parts a whole rendering has

ASSUME FullAssumption == Full \in Nat \ {0}

-------------------------------------------------------------------------------
(* InfoRecItem                                                             *)

NewItem(now) == [time |-> now, mergePrg |-> 0, mc |-> << >>]

SetMerge(item, progress) == [item EXCEPT !.mergePrg = progress]

\* A table of machines, after the entries of some were added or replaced.
WithEntries(table, entries) ==
  [m \in DOMAIN table \cup DOMAIN entries |->
     IF m \in DOMAIN entries THEN entries[m] ELSE table[m]]

\* setMcrt, for each of the nodes.
SetMcrts(item, nodes) == [item EXCEPT !.mc = WithEntries(@, nodes)]

GetMergeProgress(item) == item.mergePrg

GetMcrtSummedProgress(item) ==
  MapThenSumSet(LAMBDA m : item.mc[m].prg, DOMAIN item.mc)

\* Without machines an item counts as all stopped and as not all started.
IsMcrtAllStop(item) == \A m \in DOMAIN item.mc : ~item.mc[m].rnd

IsMcrtAllStart(item) ==
  /\ DOMAIN item.mc # {}
  /\ \A m \in DOMAIN item.mc : item.mc[m].rnd

-------------------------------------------------------------------------------
(* InfoRecMaster: a sequence of items.                                     *)

ClearItems == << >>

-------------------------------------------------------------------------------
(* calcRenderSpan: one pass over the items, which ends (done) at the first *)
(* item with all machines stopped after one with all machines started.     *)

NoSpan == [start |-> 0, complete |-> 0, finish |-> 0]

\* A faulty form: a rendering that begins again keeps the old times.
BeginsAgain_Never(curr, prev) == FALSE

BeginsAgain(curr, prev) == curr < prev

SpanStep(s, item) ==
  LET curr == GetMcrtSummedProgress(item)
      drop == BeginsAgain(curr, s.prev)
      prev == IF drop THEN 0 ELSE s.prev
      span == IF drop THEN NoSpan ELSE s.span
      timed ==
        CASE span.start = 0 /\ prev < curr -> [span EXCEPT !.start = item.time]
          [] span.start # 0 /\ span.complete = 0 /\ prev < Full /\ Full <= curr ->
               [span EXCEPT !.complete = item.time]
          [] OTHER -> span
  IN  CASE s.done -> s
        [] ~s.done /\ s.allStart /\ IsMcrtAllStop(item) ->
             [s EXCEPT !.span = [timed EXCEPT !.finish = item.time], !.done = TRUE]
        [] OTHER ->
             [span |-> timed, prev |-> curr, done |-> FALSE,
              allStart |-> s.allStart \/ IsMcrtAllStart(item)]

CalcRenderSpan(items) ==
  LET pass[n \in 0 .. Len(items)] ==
        IF n = 0 THEN [span |-> NoSpan, prev |-> 0, allStart |-> FALSE, done |-> FALSE]
        ELSE SpanStep(pass[n - 1], items[n])
  IN  pass[Len(items)].span

\* crawlAllRenderItems: where the items are that the statistics of a
\* rendering are taken of.
RenderItems(items, span) ==
  {i \in DOMAIN items :
     /\ span.start # 0 /\ span.complete # 0
     /\ span.start <= items[i].time /\ items[i].time <= span.complete}
=============================================================================
