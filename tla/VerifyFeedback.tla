---------------------------- MODULE VerifyFeedback ----------------------------
(***************************************************************************)
(* The command verifyMcrtFeedback: it reads what the merge computation and *)
(* the MCRT computations dumped of one progressive feedback, and verifies  *)
(* that the feedback is what the machines sent, merged.                    *)
(*                                                                         *)
(* A frame buffer is the sequence of its pixels; a pixel is a colour of    *)
(* one channel, or a number of samples.  Colours are integers in a unit    *)
(* that all the averages of the dumps are multiples of.                    *)
(***************************************************************************)
EXTENDS Integers, Sequences, SequencesExt, FiniteSetsExt

CONSTANTS
    MaxMachines,        \* bound: the machines of a dump
    Dumps,              \* the sets of files that may be there
    FeedbackId,
    CharReso,           \* 256, the values of an unsigned char
    ReGamma,            \* the colour of each value of a PPM file
    Tolerance,          \* maxThresh of isSame
    MaxOptions,         \* bound: options of a command line
    Missing             \* a file that is not there, or that cannot be read

ASSUME VerifyAssumption ==
    /\ MaxMachines \in Nat \ {0} /\ CharReso \in Nat \ {0} /\ Tolerance \in Nat
    /\ DOMAIN ReGamma = 0 .. CharReso - 1

VARIABLES
    files,          \* the file of each format, feedback id and buffer
    numMachines,    \* mNumMachines, 0 as long as mMerge and mMcrt are empty
    buffers,        \* the frame buffers of mMerge and mMcrt
    readMachines,   \* the machines whose mMachineId is set
    loaded,         \* the format and the id that were read, <<>> at first
    verdict,        \* of the last verify
    options         \* the options that were taken; the command ends at a failure

verifyVars == <<files, numMachines, buffers, readMachines, loaded, verdict, options>>

Format == {"PPM", "FBD"}
NoMachine == MaxMachines
Plane == <<"beauty", "beautyNumSample">>
McrtBuffer == <<"feedback", "decoded", "merged", "minusOne">>

(* The buffers in the order in which they are read.                        *)
MachineSlots(machines, kinds) ==
    FlattenSeq([m \in 1 .. machines |->
        FlattenSeq([k \in DOMAIN kinds |-> [p \in 1 .. 2 |-> <<kinds[k], m - 1, Plane[p]>>]])])

MergeSlots(machines) ==
    [p \in 1 .. 2 |-> <<"mergeAll", NoMachine, Plane[p]>>] \o MachineSlots(machines, <<"merge">>)

McrtSlots(machines) == MachineSlots(machines, McrtBuffer)

Slots(machines) == MergeSlots(machines) \o McrtSlots(machines)

EmptyBuffers == [slot \in Range(Slots(MaxMachines)) |-> <<>>]

ProgramStarts(dump) ==
    /\ files = dump
    /\ numMachines = 0
    /\ buffers = EmptyBuffers
    /\ readMachines = {}
    /\ loaded = <<>>
    /\ verdict = "none"
    /\ options = 0
VerifyInit == \E dump \in Dumps : ProgramStarts(dump)

-------------------------------------------------------------------------------
(* Reading.                                                                *)

(* The makeFilename functions: a file for each buffer.                     *)
FileOf(format, id, slot) == files[format][id][slot]

(* A file cannot be read if it is not there or begins with the head of     *)
(* another format.  A value of a PPM file is cut to a byte.                *)
LoadPPM(file) ==
    IF file = Missing \/ file.head # "PPM" THEN Missing
    ELSE [i \in DOMAIN file.pixels |-> file.pixels[i] % CharReso]

(* An FBD file holds the bytes of the numbers.                             *)
LoadFBD(file) == IF file = Missing \/ file.head # "FBD" THEN Missing ELSE file.pixels

(* The byte of a PPM file stands for a colour, or for itself as a number   *)
(* of samples.                                                             *)
ReadBeautyPPM(file) ==
    LET loaded8 == LoadPPM(file)
    IN  IF loaded8 = Missing THEN Missing ELSE [i \in DOMAIN loaded8 |-> ReGamma[loaded8[i]]]
ReadBeautyNumSamplePPM(file) == LoadPPM(file)
ReadBeautyFBD(file) == LoadFBD(file)
ReadBeautyNumSampleFBD(file) == LoadFBD(file)

AsRead(format, slot, file) ==
    CASE format = "PPM" /\ slot[3] = "beauty"          -> ReadBeautyPPM(file)
      [] format = "PPM" /\ slot[3] = "beautyNumSample" -> ReadBeautyNumSamplePPM(file)
      [] format = "FBD" /\ slot[3] = "beauty"          -> ReadBeautyFBD(file)
      [] format = "FBD" /\ slot[3] = "beautyNumSample" -> ReadBeautyNumSampleFBD(file)

SumOver(machines, amount) == MapThenSumSet(LAMBDA m : amount[m], machines)

(* The unit of the colours is one in which averages are whole, whichever   *)
(* machines they are of.                                                   *)
ASSUME DumpsAssumption ==
    \A dump \in Dumps, format \in Format, id \in FeedbackId :
        LET file(slot) == AsRead(format, slot, dump[format][id][slot])
            c(m) == file(<<"merged", m, "beauty">>)
            n(m) == file(<<"merged", m, "beautyNumSample">>)
        IN  /\ \A slot \in Range(Slots(MaxMachines)) : file(slot) # Missing =>
                 file(slot) \in Seq(IF slot[3] = "beauty" THEN Int ELSE Nat)
            /\ \A machines \in SUBSET (0 .. MaxMachines - 1) :
                 (\A m \in machines : c(m) # Missing /\ n(m) # Missing) =>
                     \A i \in UNION {DOMAIN c(m) : m \in machines} :
                         (\A m \in machines : i \in DOMAIN c(m) \cap DOMAIN n(m)) =>
                             LET total == SumOver(machines, [m \in machines |-> n(m)[i]])
                                 light == SumOver(machines, [m \in machines |-> c(m)[i] * n(m)[i]])
                             IN  total # 0 => (light \div total) * total = light

(* Buffer by buffer, until a file cannot be read.                          *)
ReadAll(format, id, slots) ==
    LET content == [slot \in Range(slots) |-> AsRead(format, slot, FileOf(format, id, slot))]
        missing == {i \in DOMAIN slots : content[slots[i]] = Missing}
        read == {slots[i] : i \in {j \in DOMAIN slots : \A k \in missing : j < k}}
        \* the id of a machine is set before its files are read
        tried == {slots[i][2] : i \in {j \in DOMAIN slots : \A k \in missing : j <= k}}
    IN  [ok |-> missing = {},
         machines |-> tried \ {NoMachine},
         buffers |-> [slot \in DOMAIN buffers |->
             IF slot \in read THEN content[slot] ELSE buffers[slot]]]

-------------------------------------------------------------------------------
(* Frame buffers.                                                          *)

Abs(n) == IF n < 0 THEN -n ELSE n

IsSame(a, b) == Len(a) = Len(b) /\ \A i \in DOMAIN a : Abs(a[i] - b[i]) <= Tolerance

ZeroFb(size) == [i \in 1 .. size |-> 0]

(* The running result of merges: colour, number of samples and whether the *)
(* sizes agreed so far.                                                    *)
CleanFb(size) == [beauty |-> ZeroFb(size), numSample |-> ZeroFb(size), ok |-> TRUE]

(* Faulty variant: the colours are averaged without the samples.           *)
MergeFb_Unweighted(out, beauty, numSample) ==
    [out EXCEPT
        !.beauty = [i \in DOMAIN @ |-> (@[i] + beauty[i]) \div 2],
        !.numSample = [i \in DOMAIN @ |-> @[i] + numSample[i]]]

(* merge: the averages of two buffers, weighted by their samples.          *)
MergeFb(out, beauty, numSample) ==
    IF ~ out.ok \/ Len(out.beauty) # Len(beauty) \/ Len(out.beauty) # Len(numSample)
      THEN [out EXCEPT !.ok = FALSE]
    ELSE LET total == [i \in DOMAIN beauty |-> out.numSample[i] + numSample[i]]
         IN  [out EXCEPT
                !.beauty = [i \in DOMAIN @ |->
                    IF total[i] = 0 THEN 0
                    ELSE (@[i] * out.numSample[i] + beauty[i] * numSample[i]) \div total[i]],
                !.numSample = total]

Beauty(kind, m) == buffers[<<kind, m, "beauty">>]
NumSample(kind, m) == buffers[<<kind, m, "beautyNumSample">>]

Machines == 0 .. numMachines - 1

(* combineMergedAll and minusOneGen: what some of the machines merged.     *)
CombineMerged(omit) ==
    LET size == Len(Beauty("feedback", 0))
        combined[m \in 0 .. numMachines] ==
            IF m = 0 THEN CleanFb(size)
            ELSE IF m - 1 = omit THEN combined[m - 1]
            ELSE MergeFb(combined[m - 1], Beauty("merged", m - 1), NumSample("merged", m - 1))
    IN  combined[numMachines]

IsSameAs(kind, m, beauty, numSample) ==
    IsSame(beauty, Beauty(kind, m)) /\ IsSame(numSample, NumSample(kind, m))

-------------------------------------------------------------------------------
(* verify.                                                                 *)

VerifyMergeAllWithMcrtFeedback ==
    \A m \in Machines :
        IsSameAs("feedback", m, Beauty("mergeAll", NoMachine), NumSample("mergeAll", NoMachine))

VerifyMergeWithMcrtDecoded ==
    \A m \in Machines : IsSameAs("decoded", m, Beauty("merge", m), NumSample("merge", m))

VerifyReconstructMergeWithFeedback ==
    LET all == CombineMerged(NoMachine)
    IN  all.ok /\ \A m \in Machines : IsSameAs("feedback", m, all.beauty, all.numSample)

VerifyMinusOne ==
    \A m \in Machines :
        LET others == CombineMerged(m)
        IN  others.ok /\ IsSameAs("minusOne", m, others.beauty, others.numSample)

(* The outcomes of verify.  Without a read the id of a machine is beyond   *)
(* the table of the merge computation, and the outcome is undefined.       *)
VerifyResults ==
    IF numMachines = 0 THEN {FALSE}
    ELSE IF Machines \subseteq readMachines
      THEN {/\ VerifyMergeAllWithMcrtFeedback
            /\ VerifyMergeWithMcrtDecoded
            /\ VerifyReconstructMergeWithFeedback
            /\ VerifyMinusOne}
    ELSE BOOLEAN

-------------------------------------------------------------------------------
(* The options of the command line, in any order.                          *)

TakeOption(ok) ==
    /\ options < MaxOptions
    /\ options' = IF ok THEN options + 1 ELSE MaxOptions

InitOption(machines) ==
    /\ TakeOption(TRUE)
    /\ numMachines' = machines
    /\ buffers' = EmptyBuffers
    /\ readMachines' = {}
    /\ loaded' = <<>>
    /\ UNCHANGED <<files, verdict>>

(* -readPPM and -readFBD.  Before -init there is nothing to read into,     *)
(* which is no failure.                                                    *)
ReadOption(format, id) ==
    LET merge == ReadAll(format, id, MergeSlots(numMachines))
        mcrt == ReadAll(format, id, McrtSlots(numMachines))
        all == ReadAll(format, id, Slots(numMachines))
    IN  IF numMachines = 0
          THEN TakeOption(TRUE) /\ UNCHANGED <<buffers, readMachines, loaded>>
          ELSE /\ TakeOption(all.ok)
               /\ buffers' = all.buffers
               /\ readMachines' = IF merge.ok THEN readMachines \cup mcrt.machines
                                              ELSE readMachines
               /\ loaded' = IF all.ok THEN <<format, id>> ELSE <<>>

ReadOptionStep(format, id) == ReadOption(format, id) /\ UNCHANGED <<files, numMachines, verdict>>

VerifyOption ==
    \E ok \in VerifyResults :
        /\ TakeOption(ok)
        /\ verdict' = IF ok THEN "verified" ELSE "failed"
        /\ UNCHANGED <<files, numMachines, buffers, readMachines, loaded>>

VerifyNext ==
    \/ \E machines \in 1 .. MaxMachines : InitOption(machines)
    \/ \E format \in Format, id \in FeedbackId : ReadOptionStep(format, id)
    \/ VerifyOption

VerifySpec == VerifyInit /\ [][VerifyNext]_verifyVars

-------------------------------------------------------------------------------
(* What the dump of a feedback should be, for each pixel: the feedback is  *)
(* the average of all samples, minusOne that of the other machines.        *)
IsAverageOf(machines, dump, beauty, numSample) ==
    LET c(m) == dump[<<"merged", m, "beauty">>]
        n(m) == dump[<<"merged", m, "beautyNumSample">>]
    IN  /\ \A m \in machines : Len(c(m)) = Len(beauty) /\ Len(n(m)) = Len(beauty)
        /\ Len(numSample) = Len(beauty)
        /\ \A i \in DOMAIN beauty :
             LET total == SumOver(machines, [m \in machines |-> n(m)[i]])
                 light == SumOver(machines, [m \in machines |-> c(m)[i] * n(m)[i]])
             IN  /\ Abs(numSample[i] - total) <= Tolerance
                 /\ IF total = 0 THEN Abs(beauty[i]) <= Tolerance
                    ELSE Abs(beauty[i] * total - light) <= Tolerance * total

Consistent(dump, machines) ==
    \A m \in machines :
        /\ \A p \in Range(Plane) :
             /\ IsSame(dump[<<"feedback", m, p>>], dump[<<"mergeAll", NoMachine, p>>])
             /\ IsSame(dump[<<"decoded", m, p>>], dump[<<"merge", m, p>>])
        /\ IsAverageOf(machines, dump, dump[<<"feedback", m, "beauty">>],
                                       dump[<<"feedback", m, "beautyNumSample">>])
        /\ Len(dump[<<"minusOne", m, "beauty">>]) = Len(dump[<<"feedback", m, "beauty">>])
        /\ IsAverageOf(machines \ {m}, dump, dump[<<"minusOne", m, "beauty">>],
                                             dump[<<"minusOne", m, "beautyNumSample">>])

(* Whatever was read before, and in whatever order the machines are        *)
(* merged, verify accepts what was read if and only if it is the dump of   *)
(* one feedback whose images are the averages that they should be          *)
(* (VerifyFeedback.cc:64).                                                 *)
VerdictIsRight ==
    [][VerifyOption /\ loaded # <<>> =>
        LET dump == [slot \in Range(Slots(numMachines)) |->
                        AsRead(loaded[1], slot, FileOf(loaded[1], loaded[2], slot))]
        IN  verdict' = "verified" <=> Consistent(dump, Machines)]_verifyVars
===============================================================================
