----------------------------- MODULE TextViewer -----------------------------
(***************************************************************************)
(* The text viewer of a file: its draft, its reads and saves, and the      *)
(* tab's mark of unsaved changes (web/src/view/workbench/tool/files/       *)
(* content/file-viewer/impl/text, file-viewer/state.tsx).                  *)
(*                                                                         *)
(* A text is the version of the file that holds it, or Edit: a text that   *)
(* no version holds.  The version key of an entry, its size and time, is   *)
(* its version.  A read has a step in the daemon and a step when the       *)
(* answer comes, a save one for each of the daemon's calls.  The effects   *)
(* of a rendering run before anything else happens.                        *)
(*                                                                         *)
(* The viewer lives as long as the entry object that it is given: a row    *)
(* that comes, changes or goes makes it anew, and what was typed is lost.  *)
(* The mark of unsaved changes is the tab's, and outlives the viewer.      *)
(***************************************************************************)
EXTENDS Naturals

CONSTANTS Edit,     \* a text that is in no version of the file
          NoFile,   \* no file
          MaxSaves, \* bound: the saves under way at once
          Patient   \* the user only saves marked text, and then waits

ASSUME TextViewerAssumption == Edit \notin Nat /\ Patient \in BOOLEAN

VARIABLES
  viewer,  \* the viewer's state and references
  saves,   \* the saves under way
  dirty    \* the tab's mark of unsaved changes

viewerVars == <<viewer, saves, dirty>>

\* loaded: loadedFileVersionKey; own: ownSavedFileVersion; saved: savedText;
\* key: the version the read under way is for; got: what the daemon has read.
\* 0 stands for none.
Unmounted == [phase |-> "unmounted", draft |-> 0, saved |-> 0, loaded |-> 0,
              own |-> 0, key |-> 0, got |-> 0]
Detecting == [Unmounted EXCEPT !.phase = "detecting"]

\* A save: how far it is, its file, the version key when it was made, the
\* version that holds its text, the version measured for the answer, and whether
\* the viewer that made it is still mounted
NoSave == [at |-> "none", file |-> NoFile, key |-> 0, text |-> 0, own |-> 0,
           mine |-> FALSE]
Slots == 1..MaxSaves

Cancelled(v) == [v EXCEPT !.key = 0, !.got = 0]

\* The load effect, when the version key or the mark has changed: it cancels
\* the read under way, leaves unsaved changes and what is loaded alone, takes
\* the version its own save has made as loaded, and otherwise reads.
Load(v, key, marked) ==
  CASE marked \/ v.loaded = key -> Cancelled(v)
    [] ~marked /\ v.loaded # key /\ v.own = key ->
         [Cancelled(v) EXCEPT !.loaded = key, !.own = 0]
    [] OTHER -> [Cancelled(v) EXCEPT !.phase = "loading", !.saved = 0,
                                     !.draft = 0, !.key = key]

IsTextViewer(v) == v.phase \in {"loading", "ready", "error"}

\* The mark is set: the effect of a mounted viewer runs when it has changed.
setDirty(v, key, marked) ==
  /\ dirty' = marked
  /\ viewer' = IF IsTextViewer(v) /\ marked # dirty THEN Load(v, key, marked)
               ELSE v

Disowned == [s \in Slots |-> [saves[s] EXCEPT !.mine = FALSE]]

TextViewerInit ==
  /\ saves = [s \in Slots |-> NoSave]
  /\ dirty = FALSE

\* The kind of the file is known: the viewer's component is mounted.
Detected(key) ==
  /\ viewer.phase = "detecting"
  /\ viewer' = Load([Unmounted EXCEPT !.phase = "loading"], key, dirty)
  /\ UNCHANGED <<saves, dirty>>

\* readFileBytes, in the daemon
ReadFile(current) ==
  /\ viewer.key # 0 /\ viewer.got = 0
  /\ current # 0
  /\ viewer' = [viewer EXCEPT !.got = current]
  /\ UNCHANGED <<saves, dirty>>

\* Its answer
Loaded ==
  /\ viewer.got # 0
  /\ viewer' = [Cancelled(viewer) EXCEPT !.phase = "ready",
                  !.loaded = viewer.key, !.saved = viewer.got,
                  !.draft = viewer.got]
  /\ UNCHANGED <<saves, dirty>>

LoadFails ==
  /\ viewer.key # 0
  /\ viewer' = [Cancelled(viewer) EXCEPT !.phase = "error"]
  /\ UNCHANGED <<saves, dirty>>

\* changeDraftText: the user types, or brings the saved text back.
changeDraftText(text, key) ==
  /\ viewer.phase = "ready"
  /\ Patient => \A s \in Slots : saves[s] = NoSave
  /\ text \in {Edit, viewer.saved} /\ text # viewer.draft
  /\ setDirty([viewer EXCEPT !.draft = text], key, text # viewer.saved)
  /\ UNCHANGED saves

\* saveDraftText: nothing asks whether another save is under way.
saveDraftText(file, key) ==
  /\ viewer.phase = "ready"
  /\ Patient => dirty /\ \A s \in Slots : saves[s] = NoSave
  /\ \E s \in Slots :
       /\ saves[s] = NoSave
       /\ saves' = [saves EXCEPT ![s] =
                      [at |-> "called", file |-> file, key |-> key, text |-> 0,
                       own |-> 0, mine |-> TRUE]]
  /\ UNCHANGED <<viewer, dirty>>

\* Mutant: the text that was saved is not kept to compare the draft with.
ForgetsSaved(s, key) ==
  /\ saves[s].at = "measured"
  /\ saves' = [saves EXCEPT ![s] = NoSave]
  /\ LET mine == [viewer EXCEPT !.loaded = saves[s].key, !.own = saves[s].own,
                    !.draft = IF viewer.phase = "ready" THEN saves[s].text
                              ELSE @]
     IN setDirty(IF saves[s].mine THEN mine ELSE viewer, key, FALSE)

\* Its answer: the draft is the saved text, whatever was typed since, and the
\* tab is unmarked, whichever viewer it now has.
Saved(s, key) ==
  /\ saves[s].at = "measured"
  /\ saves' = [saves EXCEPT ![s] = NoSave]
  /\ LET mine == [viewer EXCEPT !.loaded = saves[s].key,
                    !.own = saves[s].own, !.saved = saves[s].text,
                    !.draft = IF viewer.phase = "ready" THEN saves[s].text
                              ELSE @]
     IN setDirty(IF saves[s].mine THEN mine ELSE viewer, key, FALSE)

SaveFails(s) ==
  /\ saves[s] # NoSave
  /\ saves' = [saves EXCEPT ![s] = NoSave]
  /\ UNCHANGED <<viewer, dirty>>

(***************************************************************************)
(* What the explorer's steps do to the viewer: isOpen, whether a file is   *)
(* open after the step, and newEntry, whether it is shown by another entry *)
(* object than before, which is the scope of the viewer's state.           *)
(***************************************************************************)
\* Mutant: the viewer's scope is the file's path.
ScopedByPath(isOpen, newEntry) ==
  /\ UNCHANGED dirty
  /\ \/ /\ ~isOpen
        /\ viewer' = Unmounted /\ saves' = Disowned
     \/ /\ isOpen /\ viewer.phase = "unmounted"
        /\ viewer' = Detecting /\ saves' = Disowned
     \/ /\ isOpen /\ viewer.phase # "unmounted"
        /\ UNCHANGED <<viewer, saves>>

Follow(isOpen, newEntry) ==
  /\ UNCHANGED dirty
  /\ \/ /\ ~isOpen
        /\ viewer' = Unmounted /\ saves' = Disowned
     \/ /\ isOpen
        /\ viewer.phase = "unmounted" \/ newEntry
        /\ viewer' = Detecting /\ saves' = Disowned
     \/ /\ isOpen /\ viewer.phase # "unmounted" /\ ~newEntry
        /\ UNCHANGED <<viewer, saves>>
=============================================================================
