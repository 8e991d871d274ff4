------------------------------ MODULE Screens -------------------------------
(***************************************************************************)
(* The screens of the file manager (lib/widget/dialog-switch.c) and the    *)
(* nested event loops they run in (lib/widget/dialog.c): the panels,       *)
(* editors, viewers, diff viewers, the DOM viewer, and modal boxes.        *)
(*                                                                         *)
(* dlg_run is a call that lasts: calls is the stack of those under way,    *)
(* the innermost first, each with what its caller does afterwards (by).    *)
(* Only the innermost loop takes keys; an outer one goes on when it is     *)
(* innermost again, and ends then if its dialog is not active any more.    *)
(* A suspended screen has no loop at all: choosing it leaves the present   *)
(* loop, and the caller of that, on its way back to the panels, finds      *)
(* dialog_switch_pending and runs the chosen one.                          *)
(*                                                                         *)
(* ScreenLapses is what an instance allows beyond what the code is safe    *)
(* for:                                                                    *)
(*   "back"   the DOM viewer is left for another screen                    *)
(*   "force"  the internal editor is opened by CK_EditForceInternal while  *)
(*            external editors are configured                              *)
(*   "menu"   a viewer is opened from an editor's user menu                *)
(*   "exit"   the subshell ends while a viewer or an editor has the screen *)
(*   "box"    documents come and go while a box is over the DOM viewer     *)
(***************************************************************************)
EXTENDS Integers, FiniteSets, SequencesExt

CONSTANTS
    MaxDialogs,     \* dialogs that can be allocated at once, the panels are number 1
    Kinds,          \* what is opened, of {"edit", "view", "diff", "dom", "box"}
    ScreenLapses    \* see above

ScreensConstants ==
    /\ MaxDialogs \in Nat \ {0}
    /\ Kinds \subseteq {"edit", "view", "diff", "dom", "box"}
    /\ ScreenLapses \subseteq {"back", "force", "menu", "exit", "box"}

VARIABLE ui

Panels == 1
Dialogs == 1..MaxDialogs

Loop == Head(ui.calls)
Runs(d) == ui.phase = "run" /\ ui.calls # <<>> /\ Loop.dlg = d /\ ui.st[d] = "active"

Going == {"none", "construct", "active", "suspended", "closed"}
Entries ==
    [dlg : Dialogs,
     by : {"main", "panels", "pending", "force", "diff", "html", "show", "box"}]
Drops == [kind : Kinds, said : {"yes", "fail", "unasked"}, late : BOOLEAN]

UiStates ==
    [st : [Dialogs -> Going], kind : [Dialogs -> Kinds \cup {"", "panels"}],
     modal : SUBSET Dialogs, changed : SUBSET Dialogs,
     top : Seq(Dialogs), list : Seq(Dialogs), cur : 0..MaxDialogs, pending : BOOLEAN,
     calls : Seq(Entries), dom : 0..MaxDialogs, docs : SUBSET {"file", "window"},
     shown : {"", "file", "window"}, dropped : SUBSET Drops, asked : BOOLEAN,
     phase : {"run", "shutdown", "ended"}, fault : BOOLEAN]

\* The variable's type.
ScreensTypeOK == ui \in UiStates

-----------------------------------------------------------------------------
(***************************************************************************)
(* Dialogs, and the list of screens.                                       *)
(***************************************************************************)

\* A dialog that was freed, or none, is followed.
Followed(u, d) == d = 0 \/ u.st[d] = "none"

\* widget_set_state: the states exclude each other.
SetState(u, d, s) ==
    IF Followed(u, d) THEN [u EXCEPT !.fault = TRUE] ELSE [u EXCEPT !.st[d] = s]

\* g_list_find
Find(u, d) == IF d \in ToSet(u.list) THEN d ELSE 0

\* A new screen comes first, the others are suspended.
SwitchAdd(u, h) ==
    [u EXCEPT !.list = IF Contains(@, h) THEN @ ELSE <<h>> \o @, !.cur = h,
              !.st = [d \in Dialogs |-> IF d \in ToSet(u.list) \ {h} THEN "suspended" ELSE @[d]],
              !.fault = @ \/ \E d \in ToSet(u.list) : Followed(u, d)]

\* A closed screen leaves the list, and the one below, or the first, is resumed.
SwitchRemove(u, h) ==
    LET list == RemoveFirst(u.list, h)
        below == IF u.top # <<>> THEN Find([u EXCEPT !.list = list], Head(u.top))
                 ELSE IF list # <<>> THEN Head(list) ELSE 0
        v == [u EXCEPT !.list = list, !.cur = below, !.fault = @ \/ u.cur = 0]
    IN IF below = 0 THEN v ELSE SetState(v, below, "active")

\* What is opened over a modal dialog is modal, and no screen.
DlgInit(u, h) ==
    LET modal == IF u.top # <<>> /\ Head(u.top) \in u.modal THEN u.modal \cup {h} ELSE u.modal
        v == [u EXCEPT !.modal = modal, !.top = <<h>> \o @]
    IN SetState(IF v.st[h] = "construct" /\ h \notin modal THEN SwitchAdd(v, h) ELSE v,
                h, "active")

RunDone(u, h) ==
    LET v == [u EXCEPT !.top = RemoveFirst(@, h)]
    IN IF Followed(u, h) THEN [v EXCEPT !.fault = TRUE]
       ELSE IF v.st[h] = "closed" /\ h \notin v.modal THEN SwitchRemove(v, h) ELSE v

\* widget_destroy
Destroy(u, h) ==
    IF Followed(u, h) THEN [u EXCEPT !.fault = TRUE]
    ELSE [u EXCEPT !.st[h] = "none", !.kind[h] = "", !.modal = @ \ {h}, !.changed = @ \ {h},
                   !.dropped = IF h \in u.changed
                               THEN @ \cup {[kind |-> u.kind[h], said |-> "unasked",
                                             late |-> u.phase # "run"]}
                               ELSE @]

DestroyClosed(u, h) == IF u.st[h] = "closed" THEN Destroy(u, h) ELSE u

\* dlg_run is entered.
Run(u, h, by) == [DlgInit(u, h) EXCEPT !.calls = <<[dlg |-> h, by |-> by]>> \o @]

\* Is there a screen to run after returning to the panels?  The loop around it goes on
\* when the call it makes comes back, see AfterPending.
ProcessPending(u) ==
    IF ~u.pending THEN u
    ELSE IF u.cur = 0 THEN [u EXCEPT !.fault = TRUE]
    ELSE Run(SetState([u EXCEPT !.pending = FALSE], u.cur, "suspended"), u.cur, "pending")

\* Another screen is chosen.
SwitchGoto(u, d) ==
    LET old == u.cur
        v == [u EXCEPT !.cur = d]
    IN IF old = d THEN u
       ELSE IF old = Panels THEN ProcessPending([v EXCEPT !.pending = TRUE])
       ELSE IF d = Panels THEN SetState(SetState(v, old, "suspended"), Panels, "active")
       ELSE SetState([v EXCEPT !.pending = TRUE], old, "suspended")

-----------------------------------------------------------------------------
(***************************************************************************)
(* Closing, with what the user says about changes.                         *)
(***************************************************************************)

\* The text is thrown away; dropped keeps what happened other than after a no.
Drop(u, h, said) ==
    LET drop == [kind |-> u.kind[h], said |-> said, late |-> u.phase # "run"]
    IN [u EXCEPT !.changed = @ \ {h},
                 !.dropped = IF said = "no" THEN @ ELSE @ \cup {drop}]

\* edit_ok_to_exit, mcview_ok_to_quit and dview_ok_to_exit: said is the answer, "fail" a
\* yes after which the text cannot be saved, "esc" none.  What is left, with TRUE if the
\* screen may close.
OkToExit(u, h, said) ==
    LET late == u.phase # "run"
        Dropped == [ok |-> TRUE, u |-> Drop(u, h, IF said = "esc" THEN "no" ELSE said)]
        Saved == [ok |-> TRUE, u |-> [u EXCEPT !.changed = @ \ {h}]]
        Stays == [ok |-> FALSE, u |-> u]
    IN CASE h \notin u.changed -> [ok |-> TRUE, u |-> u]
         [] h \in u.changed /\ u.kind[h] = "diff" ->
              IF late \/ said \in {"no", "esc"} THEN Dropped
              ELSE IF said = "fail" THEN Dropped ELSE Saved
         [] OTHER ->
              CASE said = "yes" -> Saved
                [] said = "no" \/ (late /\ said \in {"esc", "fail"}) -> Dropped
                [] OTHER -> Stays

\* Mutant: the dialog stays closed while the user decides.
ValidateClosed(u, h, said) ==
    IF u.kind[h] \notin {"edit", "view", "diff"} THEN u
    ELSE SetState(OkToExit(u, h, said).u, h, "closed")

\* MSG_VALIDATE: the dialog is active until the decision is made.  The DOM viewer, the
\* panels and boxes have no such handler.
Validate(u, h, said) ==
    IF u.kind[h] \notin {"edit", "view", "diff"} THEN u
    ELSE LET v == OkToExit(SetState(u, h, "active"), h, said)
         IN IF v.ok THEN SetState(v.u, h, "closed") ELSE v.u

Answers == {"yes", "fail", "no", "esc"}

\* Answers that differ, so that each outcome comes once.
Says(h, u) == IF h \in u.changed THEN Answers ELSE {"no"}

-----------------------------------------------------------------------------
(***************************************************************************)
(* What a key or the idle hook does in the innermost loop.                 *)
(***************************************************************************)

\* A dialog that nothing refers to is allocated; the least one, to have each case once.
Unused == {d \in Dialogs : /\ ui.st[d] = "none" /\ d # ui.cur /\ d # ui.dom
                         /\ ~Contains(ui.list, d) /\ ~Contains(ui.top, d)
                         /\ \A i \in DOMAIN ui.calls : ui.calls[i].dlg # d}
New == CHOOSE d \in Unused : \A e \in Unused : d <= e
Created(u, kind) == [u EXCEPT !.st[New] = "construct", !.kind[New] = kind]

\* May the present dialog open a screen?  The panels do, and a box over them, such as the
\* one of "find file"; an editor a viewer from its user menu, see ScreenLapses.
MayOpen(kind) ==
    LET here == ui.kind[Loop.dlg]
    IN /\ Runs(Loop.dlg)
       /\ CASE here = "panels" -> TRUE
            [] here = "box" -> Len(ui.calls) = 2 /\ kind # "diff"
            [] here = "edit" -> kind = "view" /\ "menu" \in ScreenLapses
            [] OTHER -> FALSE

\* What the caller does afterwards: CK_EditForceInternal may do nothing, see ScreenLapses.
Ways(kind) == {"panels"} \cup {by \in {"force"} : kind = "edit" /\ "force" \in ScreenLapses}

\* view_file_at_line, edit_file_at_line, diff_view_cmd: a screen, and a look at what is
\* pending when it comes back.
OpenScreen(kind, by) ==
    /\ kind \in Kinds \ {"dom", "box"} /\ by \in Ways(kind) /\ MayOpen(kind) /\ Unused # {}
    /\ ui' = Run(Created(ui, kind), New, by)

\* Mutant: the diff viewer stays a screen.
EditFromScreen ==
    /\ Runs(Loop.dlg) /\ ui.kind[Loop.dlg] = "diff"
    /\ "edit" \in Kinds /\ Unused # {}
    /\ ui' = Run(Created(ui, "edit"), New, "diff")

\* dview_edit: the diff viewer is made modal for the time, so that the editor is no screen
\* and cannot be left for another one.
EditFromDiff ==
    /\ Runs(Loop.dlg) /\ ui.kind[Loop.dlg] = "diff"
    /\ "edit" \in Kinds /\ Unused # {}
    /\ ui' = Run([Created(ui, "edit") EXCEPT !.modal = @ \cup {Loop.dlg}], New, "diff")

\* Any modal dialog.
OpenBox ==
    /\ Runs(Loop.dlg) /\ ui.kind[Loop.dlg] # "box"
    /\ "box" \in Kinds /\ Unused # {}
    /\ ui' = Run([Created(ui, "box") EXCEPT !.modal = @ \cup {New}], New, "box")

CloseBox ==
    /\ Runs(Loop.dlg) /\ ui.kind[Loop.dlg] = "box"
    /\ ui' = SetState(ui, Loop.dlg, "closed")

\* CK_ScreenNext, CK_ScreenPrev, CK_ScreenList
Switch(d) ==
    /\ Runs(Loop.dlg) /\ Loop.dlg \notin ui.modal
    /\ ui.cur # 0 /\ d \in ToSet(ui.list) \ {ui.cur}
    /\ ui.kind[Loop.dlg] = "dom" => "back" \in ScreenLapses
    /\ ui' = SwitchGoto(ui, d)

\* Typing in an editor, hexadecimal changes, a merge.
Modify ==
    /\ Runs(Loop.dlg) /\ ui.kind[Loop.dlg] \in {"edit", "view", "diff"}
    /\ ui' = [ui EXCEPT !.changed = @ \cup {Loop.dlg}]

\* CK_Quit of a screen, and what the loop does with a dialog that is closed.
CloseScreen(said) ==
    /\ Runs(Loop.dlg) /\ ui.kind[Loop.dlg] \in {"edit", "view", "diff"}
    /\ said \in Says(Loop.dlg, ui)
    /\ ui' = Validate(SetState(ui, Loop.dlg, "closed"), Loop.dlg, said)

\* stop_dialogs, after the user agreed: from the panels, or, when the subshell ended, from
\* a screen, which validates.
StopDialogs(said) ==
    /\ Runs(Loop.dlg) /\ Loop.dlg \notin ui.modal
    /\ Loop.dlg # Panels => "exit" \in ScreenLapses
    /\ said \in Says(Loop.dlg, ui)
    /\ ui' = Validate(SetState(SetState([ui EXCEPT !.asked = TRUE], Panels, "closed"),
                               Head(ui.top), "closed"), Loop.dlg, said)

-----------------------------------------------------------------------------
(***************************************************************************)
(* The DOM viewer: view_info.dlg is dom, view_info.file_window shown, the  *)
(* documents of file2dom_map docs.                                         *)
(***************************************************************************)

First(docs) == IF "file" \in docs THEN "file" ELSE IF docs = {} THEN "" ELSE "window"

\* show_dom_within_info: a dialog is run, or the one there is told.
ShowDom(u, by) ==
    IF u.dom = 0 THEN Run([Created(u, "dom") EXCEPT !.dom = New], New, by)
    ELSE [u EXCEPT !.fault = @ \/ Followed(u, u.dom)]

\* A file is viewed that is HTML.
OpenHtml ==
    /\ "dom" \in Kinds /\ MayOpen("dom") /\ (ui.dom = 0 => Unused # {})
    /\ LET shown == IF "file" \in ui.docs THEN ui.shown ELSE "file"
       IN ui' = ShowDom([ui EXCEPT !.docs = @ \cup {"file"}, !.shown = shown], "html")

\* CK_DOMViewer: without a look at what is pending afterwards.
DomviewShow ==
    /\ Runs(Panels) /\ "dom" \in Kinds /\ ui.dom = 0 /\ ui.docs # {} /\ Unused # {}
    /\ ui' = ShowDom([ui EXCEPT !.shown = First(ui.docs)], "show")

\* CK_Quit in it: files are unloaded, windows stay.
DomviewQuit ==
    /\ Runs(Loop.dlg) /\ ui.kind[Loop.dlg] = "dom"
    /\ ui' = SetState([ui EXCEPT !.docs = @ \ {"file"}, !.shown = First(ui.docs \ {"file"})],
                      ui.dom, "closed")

IdleHook ==
    /\ Runs(Loop.dlg) /\ "dom" \in Kinds
    /\ ui.kind[Loop.dlg] = "box" /\ ui.dom # 0 => "box" \in ScreenLapses

\* An interpreter's window gets a document, or changes it: its viewer is told.
Attach ==
    /\ IdleHook /\ "window" \notin ui.docs
    /\ ui' = [ui EXCEPT !.docs = @ \cup {"window"},
                        !.fault = @ \/ (ui.dom # 0 /\ Followed(ui, ui.dom))]

\* It goes: when it is shown another one is, or the viewer is stopped.
Detach ==
    LET docs == ui.docs \ {"window"}
        u == [ui EXCEPT !.docs = docs]
    IN /\ IdleHook /\ "window" \in ui.docs
       /\ ui' = IF ui.dom = 0 THEN u
                ELSE IF Followed(ui, ui.dom) \/ ui.shown = "" THEN [u EXCEPT !.fault = TRUE]
                ELSE IF ui.shown = "file" THEN u
                ELSE IF docs = {} THEN SetState([u EXCEPT !.shown = ""], ui.dom, "closed")
                ELSE [u EXCEPT !.shown = First(docs)]

-----------------------------------------------------------------------------
(***************************************************************************)
(* The innermost loop ends, and its caller goes on.                        *)
(***************************************************************************)

\* edit_files, mcview_viewer, dview_diff: the dialog is destroyed if it was closed; one
\* that was only left stays in the list of screens.
AfterScreen(u, h) == ProcessPending(DestroyClosed(u, h))

\* dialog_switch_process_pending: back to the panels, and the next one.
AfterPending(u, h) ==
    IF u.st[h] # "closed" THEN ProcessPending(u)
    ELSE LET v == Destroy(u, h) IN ProcessPending([v EXCEPT !.cur = Find(v, Panels)])

\* dview_edit: the diff viewer is what it was before.
AfterDiff(u, h) ==
    LET v == AfterScreen(u, h) IN [v EXCEPT !.modal = @ \ {u.calls[1].dlg}]

\* show_dom_within_info: it looks at view_info.dlg.
AfterDom(u) ==
    IF Followed(u, u.dom) THEN [u EXCEPT !.fault = TRUE]
    ELSE IF u.st[u.dom] = "closed" THEN [Destroy(u, u.dom) EXCEPT !.dom = 0] ELSE u

After(u, h, by) ==
    CASE by = "main" -> [u EXCEPT !.phase = "shutdown"]
      [] by = "panels" -> AfterScreen(u, h)
      [] by = "force" -> DestroyClosed(u, h)
      [] by = "pending" -> AfterPending(u, h)
      [] by = "diff" -> AfterDiff(u, h)
      [] by = "html" -> ProcessPending(AfterDom(u))
      [] by = "show" -> AfterDom(u)
      [] by = "box" -> Destroy(u, h)

Leave ==
    /\ ui.phase = "run" /\ ui.calls # <<>> /\ ui.st[Loop.dlg] # "active"
    /\ ui' = After(RunDone([ui EXCEPT !.calls = Tail(@)], Loop.dlg), Loop.dlg, Loop.by)

\* dialog_switch_shutdown, one screen of it: it is run, which only validates it, and
\* destroyed.
ShutdownNext(said) ==
    LET h == Head(ui.list)
    IN /\ ui.phase = "shutdown" /\ ui.list # <<>> /\ ~ui.fault
       /\ IF Followed(ui, h) THEN said = "no" /\ ui' = [ui EXCEPT !.fault = TRUE]
          ELSE /\ said \in Says(h, ui)
               /\ ui' = Destroy(RunDone(Validate(DlgInit(ui, h), h, said), h), h)

\* And last the panels, which left the list when they were closed.
ShutdownDone ==
    /\ ui.phase = "shutdown" /\ ui.list = <<>> /\ ~ui.fault
    /\ ui' = [Destroy(ui, Panels) EXCEPT !.phase = "ended"]

-----------------------------------------------------------------------------
ScreensInit ==
    LET first == [st |-> [d \in Dialogs |-> IF d = Panels THEN "construct" ELSE "none"],
                  kind |-> [d \in Dialogs |-> IF d = Panels THEN "panels" ELSE ""],
                  modal |-> {}, changed |-> {}, top |-> <<>>, list |-> <<>>, cur |-> 0,
                  pending |-> FALSE, calls |-> <<>>, dom |-> 0, docs |-> {}, shown |-> "",
                  dropped |-> {}, asked |-> FALSE, phase |-> "run", fault |-> FALSE]
    IN ui = Run(first, Panels, "main")

Opens ==
    (\E kind \in Kinds, by \in {"panels", "force"} : OpenScreen(kind, by)) \/ EditFromDiff
    \/ OpenBox
Doms == OpenHtml \/ DomviewShow \/ DomviewQuit \/ Attach \/ Detach
Closes == (\E said \in Answers : CloseScreen(said) \/ StopDialogs(said)) \/ CloseBox
Ends == Leave \/ (\E said \in Answers : ShutdownNext(said)) \/ ShutdownDone

ScreensNext ==
    ~ui.fault /\ (Opens \/ Doms \/ Closes \/ Modify \/ (\E d \in Dialogs : Switch(d)) \/ Ends)

ScreensSpec == ScreensInit /\ [][ScreensNext]_ui

-----------------------------------------------------------------------------
(***************************************************************************)
(* What may not go wrong.                                                  *)
(***************************************************************************)

\* Nothing freed is followed, and nothing is lost sight of: what the list, the stack of
\* dialogs, the loops and view_info refer to is allocated, what is allocated is a screen
\* or has a loop, and no dialog has two.
DialogsKept ==
    LET looped == {ui.calls[i].dlg : i \in DOMAIN ui.calls}
        referred == ToSet(ui.list) \cup ToSet(ui.top) \cup looped \cup ({ui.dom} \ {0})
    IN /\ ~ui.fault
       /\ \A d \in referred : ui.st[d] # "none"
       /\ ui.phase = "run" =>
            \A d \in Dialogs : ui.st[d] # "none" => d \in looped \cup ToSet(ui.list)
       /\ Cardinality(looped) = Len(ui.calls)

\* The program ends when the user said so, and not because the panels' loop found
\* itself suspended when a screen was chosen from another; and a screen that was chosen is
\* not forgotten: while it waits, a loop is on its way out.
PanelsStay ==
    /\ ui.phase # "run" => ui.asked
    /\ ui.pending => ui.phase = "run" /\ ui.st[Loop.dlg] # "active"

\* Screens are neither mixed up nor lost, however loops are nested and left.
ScreensSound == DialogsKept /\ PanelsStay

\* What was changed is saved, or thrown away after a no; at shutdown after a failed save
\* too, and what a diff viewer merged whatever the answer (see YesSaves).
NoneLost ==
    /\ \A x \in ui.dropped :
         \/ x.said = "fail" /\ (x.late \/ x.kind = "diff")
         \/ x.kind = "diff" /\ x.late /\ x.said # "unasked"
    /\ ui.phase = "ended" => ui.changed = {}

\* ydiff.c:3091 "Esc is No" - and Yes is yes: what the user wants saved is not
\* thrown away.
YesSaves == \A x \in ui.dropped : x.said # "yes"

\* filemanager.c:133 "Needed to provide fast exit from MC viewer or editor on shell
\* exit": once stopped, the panels do not take keys again.
QuitIsFinal == ui.asked => ~Runs(Panels)
=============================================================================
