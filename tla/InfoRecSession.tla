---------------------------- MODULE InfoRecSession ----------------------------
(***************************************************************************)
(* The recorder of the client (ClientReceiverFb::infoRecUpdate), which     *)
(* runs after every message that it decodes to the end; one that fails     *)
(* half-way may have brought its reports by then. From what the messages   *)
(* say of the machines and of the merge node it decides whether to add an  *)
(* item to the record and whether to save the record: when a rendering is  *)
(* complete (.iRec-C), and when the last machine has stopped (.iRec-F),    *)
(* after which the record starts anew. The copies it saves every minute    *)
(* (.iRec-A) are left out: they change nothing the recorder looks at.      *)
(*                                                                         *)
(* The machines render, restart, are complete and stop on their own. The   *)
(* messages report the machines and the merge node independently of each   *)
(* other, so what the client knows of one may be older than of another.    *)
(* Time is kept as far as the recorder compares it: the n-th item of a     *)
(* record has time n, and whether an interval has passed is open, so every *)
(* interval the recorder is set to (mInfoRecInterval, or the half second   *)
(* while not all machines have started) is covered.                        *)
(***************************************************************************)
EXTENDS InfoRec

CONSTANTS
    Machine,            \* the mcrt machines
    Unnumbered,         \* those whose machine id is negative
    MaxStarts,          \* bound: how often a machine starts to render, in all
    MaxItems            \* bound: the items of a record

ASSUME SessionAssumption ==
    /\ IsFiniteSet(Machine) /\ Unnumbered \subseteq Machine
    /\ {MaxStarts, MaxItems} \subseteq Nat

VARIABLES
    machine,    \* what each machine does: rnd and prg
    starts,     \* how often a machine started
    node,       \* GlobalNodeInfo of the client: the machines it knows
    mergePrg,   \* GlobalNodeInfo of the client: mMergeProgress
    items,      \* mInfoRecMaster
    files,      \* the records that the last message made it save
    seenPrg     \* history: mMergeProgress when infoRecUpdate last ran

sessionVars == <<machine, starts, node, mergePrg, items, files, seenPrg>>

SessionInit ==
    /\ machine = [m \in Machine |-> [rnd |-> FALSE, prg |-> 0]]
    /\ starts = 0
    /\ node = << >>
    /\ mergePrg = 0
    /\ items = << >>
    /\ files = << >>
    /\ seenPrg = 0

-------------------------------------------------------------------------------
(* The machines. Each of them renders one part of the whole.               *)

StartRendering(m) ==
    /\ starts < MaxStarts
    /\ starts' = starts + 1
    /\ machine' = [machine EXCEPT ![m] = [rnd |-> TRUE, prg |-> 0]]

FinishPart(m) ==
    /\ machine[m] = [rnd |-> TRUE, prg |-> 0]
    /\ machine' = [machine EXCEPT ![m].prg = 1]
    /\ UNCHANGED starts

StopRendering(m) ==
    /\ machine[m].rnd
    /\ machine' = [machine EXCEPT ![m].rnd = FALSE]
    /\ UNCHANGED starts

MachineStep ==
    /\ Len(items) < MaxItems
    /\ \E m \in Machine : StartRendering(m) \/ FinishPart(m) \/ StopRendering(m)
    /\ UNCHANGED <<node, mergePrg, items, files, seenPrg>>

RenderedParts ==
    MapThenSumSet(LAMBDA m : machine[m].prg, Machine)

-------------------------------------------------------------------------------
(* GlobalNodeInfo of the client.                                           *)

NodesAllStop(nodes) == \A m \in DOMAIN nodes : ~nodes[m].rnd

-------------------------------------------------------------------------------
(* The conditions of infoRecUpdate: nodes and progress are what the client *)
(* knows now, the last item is what it knew when it last took one.         *)

HasItems == items # << >>
LastItem == Last(items)

\* A faulty form: a rendering that begins again does not get an item.
JustOnStart_First(progress) == ~HasItems

JustOnStart(progress) == HasItems => progress < GetMergeProgress(LastItem)

JustOnComplete(progress) ==
    HasItems /\ progress >= Full /\ GetMergeProgress(LastItem) < Full

\* A faulty form: it does not ask what the last item says of the machines.
JustOnStopAll_Again(nodes) == NodesAllStop(nodes) /\ HasItems

JustOnStopAll(nodes) ==
    NodesAllStop(nodes) /\ HasItems /\ ~IsMcrtAllStop(LastItem)

-------------------------------------------------------------------------------

\* infoRecUpdateDataAll; machines with a negative id are left out.
RecordedItem(nodes, progress) ==
    SetMcrts(SetMerge(NewItem(Len(items) + 1), progress),
             [m \in DOMAIN nodes \ Unnumbered |-> nodes[m]])

\* due: the interval since the last item has passed.
InfoRecUpdate(nodes, progress, due) ==
    LET complete == JustOnComplete(progress)
        stopAll == JustOnStopAll(nodes)
        recorded == Append(items, RecordedItem(nodes, progress))
        save(condition, extension) ==
          IF condition THEN <<[extension |-> extension, items |-> recorded]>> ELSE << >>
    IN  IF ~(JustOnStart(progress) \/ complete \/ stopAll \/ due)
        THEN files' = << >> /\ UNCHANGED items
        ELSE /\ files' = save(complete, "C") \o save(stopAll, "F")
             /\ items' = IF stopAll THEN ClearItems ELSE recorded

\* A message: it brings what a machine says of itself at this moment, or
\* the progress of the merge node at this moment, or both.
BringsReports ==
    \E reports \in {S \in SUBSET Machine : Cardinality(S) <= 1}, merge \in BOOLEAN :
      /\ reports # {} \/ merge
      /\ Len(items) < MaxItems
      /\ node' = WithEntries(node, [m \in reports |-> machine[m]])
      /\ mergePrg' = IF merge THEN RenderedParts ELSE mergePrg
      /\ UNCHANGED <<machine, starts>>

Receive ==
    /\ BringsReports
    /\ \E due \in BOOLEAN : InfoRecUpdate(node', mergePrg', due)
    /\ seenPrg' = mergePrg'

\* decodeProgressiveFrame returns early: another buffer of the message could
\* not be decoded, after the one with the reports was.
ReceiveFails ==
    /\ BringsReports
    /\ files' = << >>
    /\ UNCHANGED <<items, seenPrg>>

SessionNext == MachineStep \/ Receive \/ ReceiveFails

SessionSpec == SessionInit /\ [][SessionNext]_sessionVars

-------------------------------------------------------------------------------
(* Properties.                                                             *)

FinalFiles == {i \in DOMAIN files : files[i].extension = "F"}

TypeOK ==
    /\ DOMAIN node \subseteq Machine
    /\ mergePrg \in 0 .. Full
    /\ Len(items) <= MaxItems
    /\ \A i \in DOMAIN items : items[i].time = i

\* A final record is one run of the machines: it may begin with items taken
\* before any machine rendered, then some machine renders in every item, and
\* only the very last one finds them all stopped.
FinalRecordIsOneRun ==
    \A f \in FinalFiles :
      LET n == Len(files[f].items)
      IN  \E k \in 0 .. n - 2 :
            \A i \in 1 .. n : IsMcrtAllStop(files[f].items[i]) <=> i <= k \/ i = n

\* Once the client has items, a rendering that becomes complete is saved as
\* complete, however long the interval between two items is, and also if the
\* message that told it could not be decoded to the end: the first one that
\* is, with a progress of the whole after one with less, saves the record.
\* (A rendering that restarts and completes within messages that all fail
\* goes unsaved: nothing looks at the progress in between.)
CompletionIsSaved ==
    [][Receive /\ seenPrg < Full /\ mergePrg' >= Full /\ HasItems
         => \E f \in DOMAIN files' : files'[f].extension = "C"]_sessionVars

\* What calcRenderSpan looks for, said without its loop: the first item with
\* all machines stopped after one with all machines started ends the search;
\* of the last rendering before it, one without a drop of the progress, the
\* start is its first progress and the completion the step to the whole.
SpanReference ==
    LET n == Len(items)
        p(i) == GetMcrtSummedProgress(items[i])
        ends == {i \in 1 .. n : /\ IsMcrtAllStop(items[i])
                                /\ \E j \in 1 .. i - 1 : IsMcrtAllStart(items[j])}
        last == IF ends = {} THEN n ELSE Min(ends)
        first == Max({1} \cup {i \in 2 .. last : p(i) < p(i - 1)})
        rising == {i \in first .. last : p(i) > 0}
        completes == {i \in first + 1 .. last :
                        /\ \E j \in rising : j < i
                        /\ p(i - 1) < Full /\ Full <= p(i)}
        at(S) == IF S = {} THEN 0 ELSE items[Min(S)].time
    IN  [start |-> at(rising), complete |-> at(completes), finish |-> at(ends)]

\* The span that is computed from a record is the one described above, and
\* the items its statistics are taken of are those of a single rendering:
\* from its first progress to the whole, with a progress that never drops.
SpanIsOneRendering ==
    LET span == CalcRenderSpan(items)
        rendering == RenderItems(items, span)
        p(i) == GetMcrtSummedProgress(items[i])
    IN  /\ span = SpanReference
        /\ rendering # {} => \E i \in rendering : p(i) >= Full
        /\ \A i \in rendering :
             /\ p(i) > 0
             /\ \A j \in rendering : i <= j => p(i) <= p(j)
=============================================================================
