-------------------------- MODULE SectionControls --------------------------
(***************************************************************************)
(* The sections of a page as they are edited (components/page/             *)
(* BlockRenderer.tsx, SectionFrame.tsx, EditControls.tsx and the wrappers  *)
(* of PageBuilder.tsx): their list and their items; the frame's controls   *)
(* with the margins that are drafted before they are applied; and the      *)
(* inputs (text, colour, upload) that keep a value of their own.           *)
(***************************************************************************)
EXTENDS Spa

CONSTANTS
    MaxSections,    \* bound: sections on the page
    MaxItems,       \* bound: items of a section
    MaxIds          \* bound: ids given out (Date.now())

-----------------------------------------------------------------------------
(* The list of sections.                                                   *)

\* Sections in display order, the section in the clipboard, the place where the
\* picker is open, and the ids given out.
SectionsInit ==
    Begins("sections",
           [busy |-> {}, sections |-> <<>>, clip |-> None, add |-> None, ids |-> 0],
           None, {}, [n |-> 0])

blankItem(i) == [id |-> i]
InsertAt(s, i, x) == SubSeq(s, 1, i) \o <<x>> \o SubSeq(s, i + 1, Len(s))
RemoveAt(s, i) == SubSeq(s, 1, i - 1) \o SubSeq(s, i + 1, Len(s))
Without(items, id) == SelectSeq(items, LAMBDA it : it.id # id)

\* createSectionWrapper: the section goes where the picker is open, and all are
\* numbered again.
createSectionWrapper(i, items) ==
    [ui EXCEPT !.sections = InsertAt(@, i, [id |-> ui.ids + 1, items |-> items]), !.ids = @ + 1, !.add = None]
Fits == Len(ui.sections) < MaxSections /\ ui.ids < MaxIds

\* The trigger between two sections opens the picker and looks at the clipboard.
renderAddSectionTrigger(i) ==
    /\ On("sections") /\ i \in 0..Len(ui.sections)
    /\ Set([ui EXCEPT !.add = IF @ = i THEN None ELSE i])
addSection ==
    On("sections") /\ ui.add # None /\ Fits /\ Set(createSectionWrapper(ui.add, <<>>))

\* Pasted items lose their id and get no other; the keyboard pastes at the open
\* picker or else at the end.
Pasted == [k \in 1..Len(ui.clip.items) |-> blankItem(None)]
handlePaste ==
    /\ On("sections") /\ ui.clip # None /\ Fits
    /\ Set(createSectionWrapper(IF ui.add = None THEN Len(ui.sections) ELSE ui.add, Pasted))

onCopy(i) == On("sections") /\ i \in 1..Len(ui.sections) /\ Set([ui EXCEPT !.clip = ui.sections[i]])

\* Cutting deletes the section whether or not the copy was written.
onCut(i) ==
    /\ On("sections") /\ i \in 1..Len(ui.sections)
    /\ \E written \in BOOLEAN :
          Set([ui EXCEPT !.clip = IF written THEN ui.sections[i] ELSE @, !.sections = RemoveAt(@, i), !.add = None])
deleteSectionWrapper(i) ==
    On("sections") /\ i \in 1..Len(ui.sections) /\ Set([ui EXCEPT !.sections = RemoveAt(@, i), !.add = None])

\* A section moves one place up or down; its neighbour takes its place.
handleMove(i, j) ==
    /\ On("sections") /\ {i, j} \subseteq 1..Len(ui.sections) /\ j \in {i - 1, i + 1}
    /\ Set([ui EXCEPT !.sections = InsertAt(RemoveAt(@, i), j - 1, ui.sections[i])])

createItemWrapper(i) ==
    /\ On("sections") /\ i \in 1..Len(ui.sections)
    /\ Len(ui.sections[i].items) < MaxItems /\ ui.ids < MaxIds
    /\ Set([ui EXCEPT !.sections[i].items = Append(@, blankItem(ui.ids + 1)), !.ids = @ + 1])

\* An item is updated and deleted by its id, wherever that id is found.
ItemsOf(s) == {x \in (1..Len(s)) \X (1..MaxItems) : x[2] <= Len(s[x[1]].items)}
deleteItemWrapper(i, k) ==
    /\ On("sections") /\ <<i, k>> \in ItemsOf(ui.sections)
    /\ LET id == ui.sections[i].items[k].id IN
       Set([ui EXCEPT !.sections = [j \in 1..Len(@) |-> [@[j] EXCEPT !.items = Without(@, id)]]])

SectionsNext ==
    \/ addSection \/ handlePaste
    \/ \E i \in 0..MaxSections : renderAddSectionTrigger(i)
    \/ \E i \in 1..MaxSections :
          \/ onCopy(i) \/ onCut(i) \/ deleteSectionWrapper(i) \/ createItemWrapper(i)
          \/ \E j \in 1..MaxSections : handleMove(i, j)
          \/ \E k \in 1..MaxItems : deleteItemWrapper(i, k)

-----------------------------------------------------------------------------
(* The frame of one section.                                               *)

Layouts == {"left", "center", "right", "wide"}
SECTION_ANIMATIONS == {"none", "moving"}
ANIMATION_INTENSITIES == {"subtle", "normal", "dramatic"}

\* What is stored may be of an older form, or not of any: readers fall back.
setSectionLayout(c, l) == [c EXCEPT !.layout = l, !.wide = FALSE]
getSectionAnimation(c) == IF c.animation \in SECTION_ANIMATIONS THEN c.animation ELSE "none"

\* The section's config, the margins in the inputs, whether the section is
\* collapsed, its content was mounted, it was ever activated, and is in view.
FrameInit ==
    \E c \in [layout : {None, "left"}, wide : BOOLEAN, animation : {None, "moving"},
              animationIntensity : {None}, margins : {0}, collapsible : BOOLEAN, folded : BOOLEAN] :
        Begins("frame",
               [busy |-> {}, config |-> c, draft |-> c.margins, collapsed |-> c.collapsible /\ c.folded,
                mounted |-> FALSE, active |-> FALSE, seen |-> FALSE], None, {}, [n |-> 0])

\* The frame renders again: the margins are a new object, so the draft is
\* replaced; an activated section that is open mounts its content, and keeps it.
Rerendered(u) ==
    [u EXCEPT !.draft = u.config.margins, !.mounted = @ \/ (u.active /\ ~u.collapsed)]

\* A changed config; the collapse follows its default when that changes.
updateShell(c) ==
    Set(Rerendered([ui EXCEPT !.config = c,
            !.collapsed = IF <<c.collapsible, c.folded>> = <<ui.config.collapsible, ui.config.folded>>
                          THEN @ ELSE c.collapsible /\ c.folded]))

\* The toolbar's controls; the intensity is offered for a moving section.
SectionToolbarView ==
    {"layout", "animation", "margins", "collapsible"}
    \cup (IF getSectionAnimation(ui.config) = "none" THEN {} ELSE {"intensity"})
    \cup (IF ui.config.collapsible THEN {"collapse"} ELSE {})

SectionLayoutControls(l) ==
    On("frame") /\ "layout" \in SectionToolbarView /\ updateShell(setSectionLayout(ui.config, l))
SectionAnimationControl ==
    /\ On("frame")
    /\ \/ \E a \in SECTION_ANIMATIONS :
             "animation" \in SectionToolbarView /\ updateShell([ui.config EXCEPT !.animation = a])
       \/ \E i \in ANIMATION_INTENSITIES :
             "intensity" \in SectionToolbarView /\ updateShell([ui.config EXCEPT !.animationIntensity = i])

\* Margins are typed into a draft and applied by a button, offered when the
\* draft differs.
SectionSpacingControls(m) == On("frame") /\ m # ui.draft /\ Set([ui EXCEPT !.draft = m])
ApplySpacing ==
    /\ On("frame") /\ ui.draft # ui.config.margins
    /\ updateShell([ui.config EXCEPT !.margins = ui.draft])
SectionShellControls ==
    On("frame") /\ \E b \in BOOLEAN : updateShell([ui.config EXCEPT !.collapsible = b, !.folded = b])

\* Collapsing activates the section; so do scrolling it into view, the pointer
\* and the focus.
ToggleCollapsed ==
    /\ On("frame") /\ "collapse" \in SectionToolbarView
    /\ Set(Rerendered([ui EXCEPT !.collapsed = ~@, !.active = TRUE]))
useViewportActivation ==
    On("frame") /\ \E v \in BOOLEAN : Set(Rerendered([ui EXCEPT !.seen = v, !.active = @ \/ v]))

FrameNext ==
    \/ \E l \in Layouts : SectionLayoutControls(l)
    \/ SectionAnimationControl \/ ApplySpacing \/ SectionShellControls
    \/ \E m \in {0, 1} : SectionSpacingControls(m)
    \/ ToggleCollapsed \/ useViewportActivation

-----------------------------------------------------------------------------
(* Inputs with a value of their own: the value of the block, what is typed *)
(* or picked, whether the input has the focus, what the debounce holds,    *)
(* and the editors counted by enterEdit and leaveEdit.                     *)

Values == {0, 1}
InputInit ==
    Begins("input", [busy |-> {}, value |-> 0, editing |-> FALSE, draft |-> 0,
                     color |-> 0, local |-> 0, active |-> FALSE, wait |-> None, image |-> 0],
           None, {}, [n |-> 0])

\* EditableText: the pencil starts with the value; Enter and leaving the field
\* save what differs, Escape drops it.
EditableText ==
    /\ On("input")
    /\ \/ ~ui.editing /\ Set([ui EXCEPT !.editing = TRUE, !.draft = ui.value])
       \/ ui.editing /\ \E v \in Values : v # ui.draft /\ Set([ui EXCEPT !.draft = v])
       \/ ui.editing /\ Set([ui EXCEPT !.editing = FALSE, !.value = ui.draft])
       \/ ui.editing /\ Set([ui EXCEPT !.editing = FALSE, !.draft = ui.value])

\* ColorPickerButton: focus holds the page's saves, picking is shown at once and
\* passed on by a debounce, which losing the focus flushes first.
ColorFocus == On("input") /\ ~ui.active /\ Set([ui EXCEPT !.active = TRUE])
ColorPick(c) == On("input") /\ ui.active /\ Set([ui EXCEPT !.local = c, !.wait = c])
ColorDebounced ==
    On("input") /\ ui.wait # None /\ Set([ui EXCEPT !.color = ui.wait, !.wait = None])
ColorBlur ==
    /\ On("input") /\ ui.active
    /\ Set([ui EXCEPT !.active = FALSE, !.color = IF ui.wait = None THEN @ ELSE ui.wait, !.wait = None])

\* Somebody else's colour reaches the swatch unless it is being picked.
ColorPushed(c) ==
    /\ On("input") /\ c # ui.color /\ db.n < MaxChanges /\ db' = [db EXCEPT !.n = @ + 1]
    /\ ui' = [ui EXCEPT !.color = c, !.local = IF ui.active THEN @ ELSE c]
    /\ UNCHANGED <<page, atom, net, subs, push>>

\* Image and video picker: a wrong or large file is refused; the button is dead
\* while one uploads.
ImagePickerButton ==
    On("input") /\ "upload" \notin ui.busy /\ Call(Busy(ui, "upload"), "upload", None)
PickerUploaded(r) ==
    /\ On("input") /\ Replied(r, {"upload"})
    /\ LET u == Idle(ui, "upload") IN Done(r, IF r.rep.ok THEN [u EXCEPT !.image = 1] ELSE u)

InputNext ==
    \/ EditableText \/ ColorFocus \/ ColorDebounced \/ ColorBlur \/ ImagePickerButton
    \/ \E c \in Values : ColorPick(c) \/ ColorPushed(c)
    \/ On("input") /\ \E r \in net : PickerUploaded(r) \/ Read(r, None)
=============================================================================
