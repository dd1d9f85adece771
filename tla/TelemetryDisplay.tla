---------------------------- MODULE TelemetryDisplay ----------------------------
(***************************************************************************)
(* The telemetry overlay of the client (TelemetryDisplay, TelemetryPanel   *)
(* and the functions of ClientReceiverFb that use them).  When the client  *)
(* asks for the picture, the current panel is drawn over the image; while  *)
(* a new frame has no image yet, over the image shown last, which is kept  *)
(* without its overlay.                                                    *)
(***************************************************************************)
EXTENDS TelemetryOverlay

CONSTANTS
    Sizes,              \* <<width, height>> of images and windows
    RootPanels,         \* names of the panels of the root table, in order
    ChildPanels,        \* [panel |-> names of the panels below it], if it has any
    PanelPaths,         \* what the user asks for by name: sequences of names
    Layout(_, _, _),    \* the items a panel draws on a window of a size
    MaxImages,          \* bound: images received
    MaxCalls,           \* bound: settings and switches of panels
    Nothing             \* no overlay, no panel, no picture

VARIABLES
    display,    \* the telemetry display
    receiver,   \* what the client knows of image and frame
    fetched,    \* the picture returned last, with what it was made from
    shown,      \* the image shown last under a panel
    asked,      \* the path asked for by name, until the user moves on from it
    calls       \* settings and switches of panels made

displayVars == <<display, receiver, fetched, shown, asked, calls>>

Root == "rootPanelTable"
Tables == {Root} \cup DOMAIN ChildPanels
PanelsOf(table) == IF table = Root THEN RootPanels ELSE ChildPanels[table]

(* A picture is the sequence of its rows; a pixel is its colour and the    *)
(* overlays blended into it.                                               *)
Picture(size, colour) == [i \in 1 .. size[1] * size[2] |-> <<colour>>]
Black(size) == Picture(size, 0)
Enclosing(a, b) == <<Max({a[1], b[1]}), Max({a[2], b[2]})>>

------------------------------------------------------------------------------
(* Panels.  A child table is known by the panel it belongs to.             *)

CurrentPanel(d) ==
    LET top == Last(d.stack) IN IF d.stack = <<>> THEN Nothing ELSE PanelsOf(top)[d.currId[top]]

FindPanel(table, name) ==
    IF \E i \in DOMAIN PanelsOf(table) : PanelsOf(table)[i] = name
    THEN CHOOSE i \in DOMAIN PanelsOf(table) : PanelsOf(table)[i] = name
    ELSE 0

TableAt(path, level) == IF level = 1 THEN Root ELSE path[level - 1]
FindPanelTest(d, path) ==
    d.rootTable /\ \A level \in DOMAIN path : FindPanel(TableAt(path, level), path[level]) # 0

(* The tables are a tree, in which a name stands for one panel.  The code  *)
(* does not look whether the panels of a path have panels below them.      *)
ASSUME PanelsAssumption ==
    /\ Root \notin DOMAIN ChildPanels
    /\ \A table \in Tables :
        /\ PanelsOf(table) \in Seq(STRING) \ {<<>>}
        /\ \A i \in DOMAIN PanelsOf(table) : PanelsOf(table)[i] # Root
    /\ \A table, other \in Tables :
        \A i \in DOMAIN PanelsOf(table), j \in DOMAIN PanelsOf(other) :
            PanelsOf(table)[i] = PanelsOf(other)[j] => table = other /\ i = j
    /\ \A path \in PanelPaths :
        /\ path \in Seq(STRING)
        /\ \A level \in 2 .. Len(path) :
            FindPanel(TableAt(path, level - 1), path[level - 1]) # 0 =>
                path[level - 1] \in DOMAIN ChildPanels

StackInit(d, table) == [d EXCEPT !.stack = <<table>>]
CurrentPanelToChild(d) ==
    IF d.stack = <<>> \/ CurrentPanel(d) \notin DOMAIN ChildPanels THEN d
    ELSE [d EXCEPT !.stack = Append(@, CurrentPanel(d))]
CurrentPanelToParent(d) ==
    IF Len(d.stack) <= 1 THEN d ELSE [d EXCEPT !.stack = Front(@)]
CurrentPanelToNext(d) ==
    LET top == Last(d.stack)
    IN  IF d.stack = <<>> THEN d
        ELSE [d EXCEPT !.currId[top] = IF @ = Len(PanelsOf(top)) THEN 1 ELSE @ + 1]
CurrentPanelToPrev(d) ==
    LET top == Last(d.stack)
    IN  IF d.stack = <<>> THEN d
        ELSE [d EXCEPT !.currId[top] = IF @ = 1 THEN Len(PanelsOf(top)) ELSE @ - 1]

(* Variant: a panel asked for by name is looked for from where the user is. *)
EnterPanel_FromHere(d, path, level) ==
    LET table == TableAt(path, level)
        there == IF level = 1 THEN d ELSE CurrentPanelToChild(d)
    IN  [there EXCEPT !.currId[table] = FindPanel(table, path[level])]

(* A round of switchPanelByName, which goes down along the path.           *)
EnterPanel(d, path, level) ==
    LET table == TableAt(path, level)
        there == IF level = 1 THEN StackInit(d, Root) ELSE CurrentPanelToChild(d)
    IN  [there EXCEPT !.currId[table] = FindPanel(table, path[level])]

SwitchPanelByName(d, path) ==
    LET entered[level \in 0 .. Len(path)] ==
            IF level = 0 THEN d ELSE EnterPanel(entered[level - 1], path, level)
    IN  IF FindPanelTest(d, path) THEN entered[Len(path)] ELSE d

SetupRootPanelTable(d) ==
    IF d.rootTable THEN d
    ELSE LET made == StackInit([d EXCEPT !.rootTable = TRUE, !.currId[Root] = 1], Root)
         IN  IF d.initialPanel = <<>> THEN made ELSE SwitchPanelByName(made, d.initialPanel)

------------------------------------------------------------------------------
(* Drawing the panel over a picture.                                       *)

(* What the items of the current panel, or of the test, make of the        *)
(* overlay.                                                                *)
TestItems == << [kind |-> "str", cells |-> {<<0, 0>>}, colour |-> "test"] >>
ItemsOf(d, overlay) ==
    CASE d.testMode -> TestItems
      [] CurrentPanel(d) # Nothing -> Layout(CurrentPanel(d), overlay.w, overlay.h)
      [] OTHER -> <<>>
DrawnOverlay(d, items) == DrawItems(DrawClearAllItems(Clear(d.overlay)), items)

(* copyArchive: the image kept, or black when it has another number of     *)
(* pixels.                                                                 *)
CopyArchive(d, frame) ==
    IF d.archive = <<>> \/ Len(d.archive) # Len(frame)
    THEN Black(<<Len(frame), 1>>) ELSE d.archive

ResizeRgb888(frame, size) == IF Len(frame) = size[1] * size[2] THEN frame ELSE Black(size)

(* The size of the picture: the image's, or the window's before it is known. *)
FrameSize(info) == IF info.image = <<0, 0>> THEN info.overlay ELSE info.image

(* Variant: what is kept has the overlay in it. *)
FinalizeOverlay_KeepBaked(d, overlay, frame, info, top2bottom, withPrevArchive) ==
    LET size == FrameSize(info)
        under == IF withPrevArchive THEN CopyArchive(d, frame) ELSE frame
        sized == ResizeRgb888(under, size)
        baked == BakeOverlayMainRgb888(overlay, d.hAlign, d.vAlign, sized, size[1], size[2], top2bottom)
    IN  [archive |-> baked, frame |-> baked]

(* finalizeOverlayRgb888: the picture and what is kept of it. *)
FinalizeOverlay(d, overlay, frame, info, top2bottom, withPrevArchive) ==
    LET size == FrameSize(info)
        under == IF withPrevArchive THEN CopyArchive(d, frame) ELSE frame
        sized == ResizeRgb888(under, size)
    IN  [archive |-> sized,
         frame |-> BakeOverlayMainRgb888(overlay, d.hAlign, d.vAlign, sized, size[1], size[2], top2bottom)]

(* bakeOverlayRgb888: the pictures and displays it may end in. A telemetry *)
(* display without its font is switched off, a test without its font does  *)
(* nothing.                                                                *)
BakeOverlayRgb888(d, frame, info, top2bottom, withPrevArchive) ==
    LET overlay == IF d.overlay = Nothing THEN NewOverlay(info.overlay[1], info.overlay[2])
                   ELSE Resize(d.overlay, info.overlay[1], info.overlay[2])
        sized == [d EXCEPT !.overlay = overlay]
        ready == IF d.testMode THEN sized ELSE SetupRootPanelTable(sized)
        entered == DrawnOverlay(ready, ItemsOf(ready, overlay))
        Outcome(reversed) ==
            LET flushed == DrawFlushAllItems(entered, reversed)
                final == FinalizeOverlay(ready, flushed, frame, info, top2bottom, withPrevArchive)
            IN  [display |-> [ready EXCEPT !.overlay = flushed, !.archive = final.archive],
                 frame |-> final.frame, baked |-> TRUE]
        Plain(after) == {[display |-> after, frame |-> frame, baked |-> FALSE]}
    IN  CASE ~ d.active -> Plain(d)
          [] d.active /\ d.testMode /\ ~ d.testFontFile -> Plain(sized)
          [] d.active /\ ~ d.testMode /\ ~ d.fontFile -> Plain([sized EXCEPT !.active = FALSE])
          [] OTHER -> {Outcome(reversed) : reversed \in FlushOrders(entered)}

------------------------------------------------------------------------------
(* The client.                                                             *)

(* setupTelemetryDisplayInfo: the sizes. *)
DisplayInfo(r) ==
    [overlay |-> r.reso,
     image |-> CASE r.progress < 0 /\ r.frameId = 0 -> <<0, 0>>
                 [] r.progress = 0 /\ r.frameId = 0 -> r.reso
                 [] OTHER -> r.size]

(* getBeautyRgb888, the telemetry's part: without an image of the frame    *)
(* the overlay goes over what was shown; before the first image there is   *)
(* only the caller's buffer.                                               *)
GetBeautyRgb888(given) ==
    LET withPrevArchive == receiver.progress = 0
        info == DisplayInfo(receiver)
        frame == IF withPrevArchive /\ receiver.frameId = 0 THEN given ELSE receiver.fb
        size == FrameSize(info)
        under == CASE ~ withPrevArchive -> ResizeRgb888(receiver.fb, size)
                   [] withPrevArchive /\ Len(shown) = Len(frame) -> ResizeRgb888(shown, size)
                   [] OTHER -> Black(size)
    IN  \E out \in BakeOverlayRgb888(display, frame, info, receiver.top2bottom, withPrevArchive) :
            /\ display' = out.display
            /\ fetched' = IF ~ out.baked THEN Nothing
                          ELSE [frame |-> out.frame, under |-> under, size |-> size,
                                items |-> ItemsOf(out.display, out.display.overlay)]
            /\ shown' = IF out.baked THEN under ELSE shown
            /\ UNCHANGED <<receiver, asked, calls>>

(* decodeProgressiveFrame: an image, or the news that a frame has begun.   *)
(* Without an image before, a display that is on asks to be drawn.         *)
ReceiveImage(size) ==
    /\ receiver.images < MaxImages
    /\ receiver' = [receiver EXCEPT !.images = @ + 1, !.frameId = 1, !.progress = 1,
                                    !.size = size, !.fbSize = size,
                                    !.fb = Picture(size, receiver.images + 1)]
    /\ fetched' = Nothing
    /\ UNCHANGED <<display, shown, asked, calls>>

HearOfFrame ==
    /\ receiver.frameId > 0 \/ display.active
    /\ receiver' = [receiver EXCEPT !.progress = 0]
    /\ fetched' = Nothing
    /\ UNCHANGED <<display, shown, asked, calls>>

Called == calls < MaxCalls /\ calls' = calls + 1

(* setTelemetryOverlayReso: a frame buffer smaller than the window is made *)
(* anew, which empties it.                                                 *)
SetTelemetryOverlayReso(size) ==
    /\ Called
    /\ receiver' = [receiver EXCEPT !.reso = size,
            !.fb = IF receiver.fbSize[1] < size[1] \/ receiver.fbSize[2] < size[2]
                   THEN Black(Enclosing(size, receiver.fbSize)) ELSE @,
            !.fbSize = Enclosing(size, @)]
    /\ fetched' = Nothing
    /\ UNCHANGED <<display, shown, asked>>

Configure(d) ==
    /\ Called
    /\ display' = d
    /\ fetched' = Nothing
    /\ UNCHANGED <<receiver, shown, asked>>
SetTelemetryOverlayActive(on) == Configure([display EXCEPT !.active = on])
SetTestMode(on) == Configure([display EXCEPT !.testMode = on])
SetTestHAlign(align) == Configure([display EXCEPT !.hAlign = align])
SetTestVAlign(align) == Configure([display EXCEPT !.vAlign = align])

(* getAllPanelName makes the panels, which need an overlay and a font.     *)
GetAllPanelName ==
    /\ display.overlay # Nothing
    /\ display.fontFile
    /\ Configure(SetupRootPanelTable(display))

SwitchPanel(d, path) ==
    /\ Called
    /\ display' = d
    /\ fetched' = Nothing
    /\ asked' = path
    /\ UNCHANGED <<receiver, shown>>
SetTelemetryInitialPanel(path) == SwitchPanel([display EXCEPT !.initialPanel = path], asked)
SwitchTelemetryPanelByName(path) ==
    SwitchPanel(SwitchPanelByName(display, path), IF FindPanelTest(display, path) THEN path ELSE asked)
SwitchTelemetryPanelToNext == SwitchPanel(CurrentPanelToNext(display), <<>>)
SwitchTelemetryPanelToPrev == SwitchPanel(CurrentPanelToPrev(display), <<>>)
SwitchTelemetryPanelToParent == SwitchPanel(CurrentPanelToParent(display), <<>>)
SwitchTelemetryPanelToChild == SwitchPanel(CurrentPanelToChild(display), <<>>)

ClientStarts(size, top2bottom, on, fontFile) ==
    /\ display = [active |-> on, testMode |-> FALSE,
                  hAlign |-> "MIDDLE", vAlign |-> "MIDDLE",
                  fontFile |-> fontFile, testFontFile |-> fontFile,
                  overlay |-> Nothing, archive |-> <<>>, initialPanel |-> <<>>,
                  rootTable |-> FALSE, stack |-> <<>>, currId |-> [t \in Tables |-> 1]]
    /\ receiver = [reso |-> size, size |-> size, fbSize |-> size, fb |-> Black(size),
                   frameId |-> 0, progress |-> IF on THEN 0 ELSE -1, images |-> 0,
                   top2bottom |-> top2bottom]
    /\ fetched = Nothing
    /\ shown = <<>>
    /\ asked = <<>>
    /\ calls = 0
DisplayInit ==
    \E size \in Sizes, top2bottom, on, fontFile \in BOOLEAN :
        ClientStarts(size, top2bottom, on, fontFile)

DisplayNext ==
    \/ \E given \in {<<>>} \cup {Black(size) : size \in Sizes} : GetBeautyRgb888(given)
    \/ \E size \in Sizes : ReceiveImage(size) \/ SetTelemetryOverlayReso(size)
    \/ HearOfFrame
    \/ \E on \in BOOLEAN : SetTelemetryOverlayActive(on) \/ SetTestMode(on)
    \/ \E align \in Aligns : SetTestHAlign(align) \/ SetTestVAlign(align)
    \/ GetAllPanelName
    \/ \E path \in PanelPaths : SetTelemetryInitialPanel(path) \/ SwitchTelemetryPanelByName(path)
    \/ SwitchTelemetryPanelToNext
    \/ SwitchTelemetryPanelToPrev
    \/ SwitchTelemetryPanelToParent
    \/ SwitchTelemetryPanelToChild

DisplaySpec == DisplayInit /\ [][DisplayNext]_displayVars

------------------------------------------------------------------------------
(* Properties.                                                             *)

(* The picture of items over an image, without ranges, pools or an order   *)
(* of drawing: a point of the window lies on the point of the image that   *)
(* the alignment puts there, and shows the last of the items that cover it *)
(* in the order of the kinds, with the characters on top.                  *)
Offset(fgSize, bgSize, align) ==
    CASE align = "SMALL" -> 0
      [] align = "MIDDLE" -> bgSize \div 2 - fgSize \div 2
      [] align = "BIG" -> bgSize - fgSize
PictureAt(items, cell) ==
    LET rank(i) == CHOOSE k \in DOMAIN Kinds : Kinds[k] = items[i].kind
        covering == {i \in DOMAIN items : cell \in ItemCells(items[i])}
        solid == {i \in covering : items[i].kind \in {"box", "bar", "outline", "vline", "hline"}}
        topmost == {i \in solid : \A j \in solid : rank(j) <= rank(i)}
        blended == {i \in covering : items[i].kind \in {"line", "circle"}}
    IN  [set |-> {items[i].colour : i \in IF solid = {} THEN blended ELSE topmost},
         glyphs |-> {items[i].colour : i \in {j \in covering : items[j].kind = "str"}}]

(* The client shows the image it showed last, or the newest one if the     *)
(* frame has one, under the items of the current panel and nothing else:   *)
(* no item or overlay of an earlier picture remains, and the panel lies    *)
(* where the alignment puts it for either direction of the rows.           *)
OverlayOverNewestImage ==
    fetched # Nothing =>
        LET w == fetched.size[1]
            h == fetched.size[2]
            over == display.overlay
        IN  /\ Len(fetched.frame) = w * h
            /\ \A p \in Cells(w, h) :
                LET up == IF receiver.top2bottom THEN h - 1 - p[2] ELSE p[2]
                    cell == <<p[1] - Offset(over.w, w, display.hAlign),
                              up - Offset(over.h, h, display.vAlign)>>
                    picture == PictureAt(fetched.items, cell)
                    pixel == fetched.frame[PixOffset(w, p)]
                    below == fetched.under[PixOffset(w, p)]
                IN  IF cell \notin Cells(over.w, over.h) \/ (picture.set = {} /\ picture.glyphs = {})
                    THEN pixel = below
                    ELSE /\ Front(pixel) = below
                         /\ Last(pixel).set = picture.set
                         /\ Range(Last(pixel).glyphs) = picture.glyphs

(* The tables the user went down form a path: each belongs to the panel    *)
(* selected in the one above, so that the parent is where the user came    *)
(* from, and a panel asked for by name is the one shown.                   *)
PanelsFollowTheStack ==
    /\ display.rootTable <=> display.stack # <<>>
    /\ \A i \in DOMAIN display.stack :
        display.stack[i] = IF i = 1 THEN Root
                           ELSE PanelsOf(display.stack[i - 1])[display.currId[display.stack[i - 1]]]
    /\ asked # <<>> => asked = [i \in DOMAIN display.stack |->
                                    PanelsOf(display.stack[i])[display.currId[display.stack[i]]]]
==================================================================================
