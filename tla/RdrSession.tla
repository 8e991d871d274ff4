----------------------------- MODULE RdrSession -----------------------------
(***************************************************************************)
(* The windows and documents of the renderer: what the requests of         *)
(* endpoint.c do to the plain windows of a session, their parsers and      *)
(* documents, and what dom-viewer.c keeps of them, the map from names to   *)
(* documents and the document on the screen.                               *)
(*                                                                         *)
(* One thread runs it all.  A request is served from the idle hook, and so *)
(* is the next one, unless the first puts up a message box: the box calls  *)
(* the idle hook again while the handler waits, with its pointers, on the  *)
(* stack.                                                                  *)
(***************************************************************************)
EXTENDS Integers, Sequences, FiniteSetsExt

CONSTANTS
  Clients,   \* authenticated endpoints
  Wins,      \* names of windows: numbers, in the order of the kvlists
  Files,     \* names of HTML files, which sort before those of windows
  Owner,     \* [Wins -> Clients]
  Docs,      \* addresses of documents
  None,      \* NULL
  Depth,     \* bound: the handlers that wait behind message boxes
  Lapses     \* what an instance allows: "box", requests while a box or a list
             \* is up; "load", a load during a write; "file", files that fail
             \* to parse

Constants ==
  /\ Wins \subseteq Nat /\ Files \subseteq Nat /\ IsFiniteSet(Wins) /\ IsFiniteSet(Files)
  /\ \A f \in Files, w \in Wins : f < w
  /\ Owner \in [Wins -> Clients]
  /\ None \notin Wins \cup Files \cup Docs
  /\ Lapses \subseteq {"box", "load", "file"} /\ Depth \in Nat

VARIABLES
  rdr, \* sess    [Clients -> {"off", "on", "over"}]: before, in and after its session
       \* has     the windows in the kvlists of the sessions
       \* doc     [Wins -> Docs \cup {None}]: win->dom_doc
       \* parser  [Wins -> Docs \cup {None}]: the document win->parser writes
       \* alive   the documents that are allocated
       \* user    those with user data (dom_prepare_user_data)
       \* map     [Names -> Docs \cup {None}]: file2dom_map
       \* dlg     view_info.dlg: "none", "open", or "closed" and still there
       \* shown, view   view_info.file_window and dom_doc
       \* picker  the names in the list of documents, {} if it is not up
       \* stack   the handlers that wait, or loop over a session's windows
       \* fate    "ok" or how the process died
  slips  \* history: the lapses there were, and of those that no instance can keep
         \* off "title", a title for a window without a whole document, and "unset",
         \* an unset pointer that leads to no window

vars == <<rdr, slips>>

Names == Files \cup Wins

-----------------------------------------------------------------------------
(* Documents.                                                              *)

Dies(s, how) == IF s.fate = "ok" THEN [s EXCEPT !.fate = how] ELSE s

\* dom_cleanup_user_data, pcdom_document_destroy.
Destroy(s, d) ==
  IF d = None THEN s
  ELSE IF d \notin s.alive THEN Dies(s, "freed")
  ELSE [s EXCEPT !.alive = @ \ {d}, !.user = @ \ {d}]

\* An address nobody remembers.
InUse(s) ==
  s.alive \cup {s.doc[w] : w \in Wins} \cup {s.parser[w] : w \in Wins}
    \cup {s.map[n] : n \in Names} \cup {s.view}
    \cup {s.stack[i].doc : i \in DOMAIN s.stack}
Fresh(s) == CHOOSE d \in Docs : d \notin InUse(s)
Room == Docs \ InUse(rdr) # {}

Prepare(s, d) == IF d \in s.alive THEN [s EXCEPT !.user = @ \cup {d}] ELSE Dies(s, "freed")

-----------------------------------------------------------------------------
(* dom-viewer.c.                                                           *)

Attached(s) == {n \in Names : s.map[n] # None}
SetView(s, n) == [s EXCEPT !.shown = n, !.view = IF n = None THEN None ELSE s.map[n]]
First(s) == IF Attached(s) = {} THEN None ELSE Min(Attached(s))

\* dom_tree_load, which follows the document and its user data.
LoadTree(s) ==
  IF s.view = None THEN Dies(s, "null")
  ELSE IF s.view \notin s.alive THEN Dies(s, "freed")
  ELSE IF s.view \notin s.user THEN Dies(s, "null")
  ELSE s

\* domview_attach_window_dom; a name that is there already keeps its document.
Attach(s, w) == IF s.map[w] # None THEN s ELSE [s EXCEPT !.map[w] = s.doc[w]]

\* domview_detach_window_dom up to the message box, if there is one to show.
Boxes(s, w) == s.map[w] # None /\ s.dlg # "none" /\ s.shown = w /\ Attached(s) = {w}

\* Mutant: only a document on the screen is taken out of the map.
DetachShown(s, w) ==
  IF s.map[w] = None \/ s.shown # w THEN s
  ELSE LET t == SetView([s EXCEPT !.map[w] = None], None)
       IN  IF Boxes(s, w) THEN [t EXCEPT !.dlg = "closed"] ELSE LoadTree(SetView(t, First(t)))

Detach(s, w) ==
  LET t == [s EXCEPT !.map[w] = None]
  IN  IF s.map[w] = None THEN s
      ELSE IF s.dlg = "none" THEN t
      ELSE IF s.shown = None THEN Dies(t, "null")
      ELSE IF s.shown # w THEN t
      ELSE IF Boxes(s, w) THEN [SetView(t, None) EXCEPT !.dlg = "closed"]
      ELSE LoadTree(SetView(t, First(t)))

\* Mutant: the name on the screen is compared although no viewer is open.
ReloadUnchecked(s, w) ==
  IF s.map[w] = None THEN s
  ELSE IF s.shown = None THEN Dies(s, "null")
  ELSE IF s.shown = w THEN LoadTree(SetView(s, w)) ELSE s

\* domview_reload_window_dom.
Reload(s, w) ==
  IF s.map[w] = None \/ s.dlg = "none" THEN s
  ELSE IF s.shown = None THEN Dies(s, "null")
  ELSE IF s.shown = w THEN LoadTree(SetView(s, w)) ELSE s

-----------------------------------------------------------------------------
(* The stack of handlers.                                                  *)

Frame(op, c, w, d) ==
  [op |-> op, client |-> c, win |-> w, doc |-> d, next |-> None, box |-> TRUE, stale |-> FALSE]

Push(s, f) == [s EXCEPT !.stack = Append(@, f)]
Top(s) == s.stack[Len(s.stack)]
Pop(s) == [s EXCEPT !.stack = SubSeq(@, 1, Len(@) - 1)]

WinsOf(s, c) == {w \in s.has : Owner[w] = c}

\* The handlers in these places of the stack wait with a pointer to what is
\* freed.
Spoil(s, places) ==
  [s EXCEPT !.stack = [i \in DOMAIN @ |->
                         IF i \in places THEN [@[i] EXCEPT !.stale = TRUE] ELSE @[i]]]

\* Window w leaves its session, and its structure is about to be freed.
DropWindow(s, w) ==
  Spoil([s EXCEPT !.has = @ \ {w}, !.doc[w] = None, !.parser[w] = None],
        {i \in DOMAIN s.stack : s.stack[i].win = w /\ s.stack[i].op \in {"load", "begin"}})

\* No handler waits, and no box or list is up.
Quiet == rdr.stack = <<>> /\ rdr.picker = {} /\ rdr.dlg # "closed"

\* Requests are served: nothing is up, or the instance lets them in all the same.
Serving ==
  /\ rdr.fate = "ok"
  /\ \/ Quiet
     \/ /\ "box" \in Lapses /\ Len(rdr.stack) < Depth
        /\ rdr.stack # <<>> => Top(rdr).box

\* A request is served, with these slips and that of its moment.
Slip(S) == slips' = slips \cup S \cup IF Quiet THEN {} ELSE {"box"}

InSession(w) == rdr.sess[Owner[w]] = "on"

-----------------------------------------------------------------------------
(* The requests.                                                           *)

StartSession(c) ==
  /\ Serving /\ rdr.sess[c] = "off"
  /\ rdr' = [rdr EXCEPT !.sess[c] = "on"]
  /\ Slip({})

CreateWindow(w) ==
  /\ Serving /\ InSession(w) /\ w \notin rdr.has
  /\ rdr' = [rdr EXCEPT !.has = @ \cup {w}]
  /\ Slip({})

\* Two handlers look a window up in a pointer that has no value before: if there is no
\* such window the pointer may be NULL, lead to a window of the session that an earlier
\* call found, or to anything else, and what is done then has no meaning any more.
Found(w) == IF w \in rdr.has THEN {w} ELSE WinsOf(rdr, Owner[w])
NotFound(w) ==
  /\ w \notin rdr.has
  /\ \/ UNCHANGED rdr /\ Slip({})
     \/ rdr' = Dies(rdr, "wild") /\ Slip({"unset"})

SetTitle(v) ==
  LET d == rdr.doc[v]
  IN  /\ rdr' = IF d = None THEN Dies(rdr, "null")
                ELSE IF d \notin rdr.alive THEN Dies(rdr, "freed")
                ELSE IF d \notin rdr.user THEN Dies(rdr, "assertion")
                ELSE rdr
      /\ Slip(IF d = None \/ d \in rdr.alive \ rdr.user THEN {"title"} ELSE {})

UpdateTitle(w) ==
  /\ Serving /\ InSession(w)
  /\ NotFound(w) \/ \E v \in Found(w) : SetTitle(v)

Remove(v) ==
  LET d == rdr.doc[v]
      s == DropWindow(rdr, v)
  IN  /\ rdr' = IF d # None /\ Boxes(rdr, v)
                THEN Push(Detach(s, v), Frame("destroy", Owner[v], v, d))
                ELSE Destroy(IF d = None THEN s ELSE Detach(s, v), d)
      /\ Slip({})

DestroyWindow(w) ==
  /\ Serving /\ InSession(w)
  /\ NotFound(w) \/ \E v \in Found(w) : Remove(v)

\* on_load after the detachment.
FinishLoad(s, w, d) ==
  Attach(Prepare([Destroy(s, s.doc[w]) EXCEPT !.doc[w] = d], d), w)

Load(w) ==
  /\ Serving /\ InSession(w) /\ w \in rdr.has /\ Room
  /\ "load" \in Lapses \/ rdr.parser[w] = None
  /\ LET d == Fresh(rdr)
         s == [rdr EXCEPT !.alive = @ \cup {d}]
     IN  rdr' = IF rdr.doc[w] # None /\ Boxes(rdr, w)
                THEN Push(Detach(s, w), Frame("load", Owner[w], w, d))
                ELSE FinishLoad(IF rdr.doc[w] = None THEN s ELSE Detach(s, w), w, d)
  /\ Slip(IF rdr.parser[w] = None THEN {} ELSE {"load"})

\* Mutant: the window's old document is left alone.
FinishBeginLeaks(s, w, d) == [s EXCEPT !.doc[w] = d]

\* on_write_begin after the detachment.
FinishBegin(s, w, d) == [Destroy(s, s.doc[w]) EXCEPT !.doc[w] = d]

WriteBegin(w) ==
  /\ Serving /\ InSession(w) /\ w \in rdr.has /\ Room
  /\ rdr.parser[w] = None
  /\ LET d == Fresh(rdr)
         s == [rdr EXCEPT !.alive = @ \cup {d}, !.parser[w] = d]
     IN  rdr' = IF rdr.doc[w] # None /\ Boxes(rdr, w)
                THEN Push(Detach(s, w), Frame("begin", Owner[w], w, d))
                ELSE FinishBegin(IF rdr.doc[w] = None THEN s ELSE Detach(s, w), w, d)
  /\ Slip({})

Writing(w) == w \in rdr.has /\ rdr.parser[w] # None /\ rdr.doc[w] # None
Parse(s, w) == IF s.parser[w] \in s.alive THEN s ELSE Dies(s, "freed")

WriteMore(w) ==
  /\ Serving /\ InSession(w) /\ Writing(w)
  /\ rdr' = Parse(rdr, w) /\ Slip({})

WriteEnd(w) ==
  /\ Serving /\ InSession(w) /\ Writing(w)
  /\ rdr' = Attach(Prepare([Parse(rdr, w) EXCEPT !.parser[w] = None], rdr.doc[w]), w)
  /\ Slip({})

\* append, prepend, insertBefore, insertAfter, displace, clear, erase, update.
DomRequest(w) ==
  /\ Serving /\ InSession(w) /\ w \in rdr.has
  /\ rdr.parser[w] = None /\ rdr.doc[w] # None
  /\ rdr' = IF rdr.doc[w] \notin rdr.alive THEN Dies(rdr, "freed")
            ELSE IF rdr.doc[w] \notin rdr.user THEN Dies(rdr, "assertion")
            ELSE Reload(rdr, w)
  /\ Slip({})

-----------------------------------------------------------------------------
(* remove_session, window by window, for endSession and a lost connection. *)

Least(W) == IF W = {} THEN None ELSE Min(W)

Removal(op, c) ==
  Push(rdr, [Frame(op, c, None, None) EXCEPT !.next = Least(WinsOf(rdr, c)), !.box = FALSE])

EndSession(c) ==
  /\ Serving /\ rdr.sess[c] = "on"
  /\ rdr' = Removal("end", c) /\ Slip({})

Disconnect(c) ==
  /\ Serving /\ rdr.sess[c] # "off"
  /\ rdr' = Removal("leave", c) /\ Slip({})

SetTop(s, f) == Push(Pop(s), f)

\* The next turn of the loop: kvlist_for_each_safe has remembered the window.
RemoveNext ==
  /\ rdr.fate = "ok" /\ rdr.stack # <<>>
  /\ LET f == Top(rdr)
         w == f.next
     IN  /\ ~f.box /\ w # None
         /\ LET d == rdr.doc[w]
                g == [f EXCEPT !.next = Least({x \in WinsOf(rdr, f.client) : x > w})]
                s == DropWindow(SetTop(rdr, g), w)
            IN  rdr' = IF w \notin rdr.has THEN Dies(rdr, "freed")
                       ELSE IF d # None /\ Boxes(rdr, w)
                       THEN Detach(SetTop(s, [g EXCEPT !.box = TRUE, !.doc = d]), w)
                       ELSE Destroy(IF d = None THEN s ELSE Detach(s, w), d)

\* The session is freed, and with a lost connection its endpoint.
RemoveDone ==
  /\ rdr.fate = "ok" /\ rdr.stack # <<>>
  /\ LET f == Top(rdr)
         s == Pop(rdr)
     IN  /\ ~f.box /\ f.next = None
         /\ rdr' = IF f.stale THEN Dies(rdr, "freed")
                   ELSE [Spoil(s, {i \in DOMAIN s.stack :
                                     /\ s.stack[i].client = f.client
                                     /\ f.op = "leave" \/ s.stack[i].op \in {"end", "leave"}})
                         EXCEPT !.sess[f.client] = IF f.op = "leave" THEN "off" ELSE "over",
                                !.has = @ \ WinsOf(s, f.client)]

-----------------------------------------------------------------------------
(* The user.                                                               *)

\* The message box is dismissed, and the handler that put it up goes on.
Dismiss ==
  /\ rdr.fate = "ok" /\ rdr.stack # <<>> /\ Top(rdr).box
  /\ LET f == Top(rdr)
         s == Pop(rdr)
     IN  rdr' = IF f.stale THEN Dies(rdr, "freed")
                ELSE CASE f.op = "show" -> s
                       [] f.op = "destroy" -> Destroy(s, f.doc)
                       [] f.op = "load" -> FinishLoad(s, f.win, f.doc)
                       [] f.op = "begin" -> FinishBegin(s, f.win, f.doc)
                       [] OTHER -> Destroy(SetTop(rdr, [f EXCEPT !.box = FALSE, !.doc = None]), f.doc)

AtKeyboard == rdr.fate = "ok" /\ rdr.stack = <<>> /\ rdr.picker = {}

\* The loop of a viewer that was stopped ends, and the dialog is destroyed.
Leave ==
  /\ AtKeyboard /\ rdr.dlg = "closed"
  /\ rdr' = [rdr EXCEPT !.dlg = "none"]

\* domview_show.
Show ==
  /\ AtKeyboard /\ rdr.dlg = "none"
  /\ LET s == SetView(rdr, First(rdr))
     IN  rdr' = IF s.shown = None THEN Push(s, Frame("show", None, None, None))
                ELSE LoadTree([s EXCEPT !.dlg = "open"])

\* domview_load_html: whatever the view holds is shown.
OpenFile(f) ==
  /\ AtKeyboard /\ rdr.dlg = "none" /\ Room
  /\ \E parsed \in {TRUE} \cup {x \in {FALSE} : "file" \in Lapses} :
       LET d == Fresh(rdr)
           s == IF rdr.map[f] # None \/ ~parsed THEN rdr
                ELSE SetView([rdr EXCEPT !.alive = @ \cup {d}, !.user = @ \cup {d},
                                         !.map[f] = d], f)
       IN  /\ rdr' = IF s.view = None THEN s ELSE LoadTree([s EXCEPT !.dlg = "open"])
           /\ slips' = slips \cup IF parsed THEN {} ELSE {"file"}

\* on_switch_command: the list, then the name picked from it.
OpenList ==
  /\ AtKeyboard /\ rdr.dlg = "open" /\ Cardinality(Attached(rdr)) > 1
  /\ rdr' = [rdr EXCEPT !.picker = Attached(rdr)]

Pick(n) ==
  /\ rdr.fate = "ok" /\ rdr.stack = <<>> /\ n \in rdr.picker
  /\ LET s == [rdr EXCEPT !.picker = {}]
     IN  rdr' = IF rdr.map[n] = None THEN Dies(s, "freed")
                ELSE IF rdr.shown = None THEN Dies(s, "null")
                ELSE IF n = rdr.shown THEN s ELSE LoadTree(SetView(s, n))

\* on_close_command: a window's document stays with its window.
CloseShown ==
  /\ AtKeyboard /\ rdr.dlg = "open"
  /\ LET n == rdr.shown
         t == [rdr EXCEPT !.map[n] = None]
         s == IF n \in Files THEN Destroy(t, rdr.map[n]) ELSE t
         v == SetView(s, First(s))
     IN  rdr' = IF n = None THEN Dies(rdr, "null")
                ELSE IF rdr.map[n] = None THEN rdr
                ELSE IF v.shown = None THEN [v EXCEPT !.dlg = "none"] ELSE LoadTree(v)

\* on_quit_command: the files are unloaded; the view keeps the first window.
Quit ==
  /\ AtKeyboard /\ rdr.dlg = "open"
  /\ LET gone == {rdr.map[f] : f \in Files} \ {None}
         s == [rdr EXCEPT !.map = [n \in Names |-> IF n \in Files THEN None ELSE rdr.map[n]],
                          !.alive = @ \ gone, !.user = @ \ gone, !.dlg = "none"]
     IN  rdr' = SetView(s, First(s))

-----------------------------------------------------------------------------
Init ==
  /\ rdr = [sess |-> [c \in Clients |-> "off"], has |-> {},
         doc |-> [w \in Wins |-> None], parser |-> [w \in Wins |-> None],
         alive |-> {}, user |-> {}, map |-> [n \in Names |-> None],
         dlg |-> "none", shown |-> None, view |-> None,
         picker |-> {}, stack |-> <<>>, fate |-> "ok"]
  /\ slips = {}

Request ==
  \/ \E c \in Clients : StartSession(c) \/ EndSession(c) \/ Disconnect(c)
  \/ \E w \in Wins : \/ CreateWindow(w) \/ UpdateTitle(w) \/ DestroyWindow(w) \/ Load(w)
                     \/ WriteBegin(w) \/ WriteMore(w) \/ WriteEnd(w) \/ DomRequest(w)

User ==
  \/ Dismiss \/ Leave \/ Show \/ OpenList \/ CloseShown \/ Quit
  \/ \E n \in Names : Pick(n)

Next ==
  \/ Request
  \/ \E f \in Files : OpenFile(f)
  \/ (RemoveNext \/ RemoveDone \/ User) /\ UNCHANGED slips

Spec == Init /\ [][Next]_vars

-----------------------------------------------------------------------------
\* The types; user data belongs to documents that exist.
TypeOK ==
  /\ rdr.sess \in [Clients -> {"off", "on", "over"}]
  /\ rdr.has \subseteq Wins
  /\ rdr.doc \in [Wins -> Docs \cup {None}] /\ rdr.parser \in [Wins -> Docs \cup {None}]
  /\ rdr.alive \subseteq Docs /\ rdr.user \subseteq rdr.alive
  /\ rdr.map \in [Names -> Docs \cup {None}]
  /\ rdr.dlg \in {"none", "open", "closed"}
  /\ rdr.shown \in Names \cup {None} /\ rdr.view \in Docs \cup {None}
  /\ rdr.picker \subseteq Names
  /\ rdr.fate \in {"ok", "null", "freed", "assertion", "wild"}
  /\ slips \subseteq Lapses \cup {"title", "unset"}

\* None of the lapses was used so far, and the process runs.
NoLapse == slips \cap Lapses = {}
Orderly == rdr.fate = "ok" /\ NoLapse

\* Who has which document, and what they have together.
Owners == {<<w, rdr.doc[w]>> : w \in rdr.has} \cup {<<f, rdr.map[f]>> : f \in Files}
OneOwner ==
  rdr.stack = <<>> =>
    LET owned == {o \in Owners : o[2] # None}
    IN  /\ {o[2] : o \in owned} = rdr.alive
        /\ Cardinality(owned) = Cardinality(rdr.alive)

ParserHasDocument ==
  \A w \in Wins : rdr.parser[w] # None =>
    /\ rdr.parser[w] \in rdr.alive \ rdr.user
    /\ rdr.doc[w] = rdr.parser[w]
       \/ \E i \in DOMAIN rdr.stack : rdr.stack[i].op = "begin" /\ rdr.stack[i].win = w

\* As long as the process runs, and without the lapses, no document is lost and none has
\* two owners: between requests each of them is the document of one window, or of one
\* file, and every such document exists.  And a parser writes to its own window's
\* document, which nobody else can see.
OwnedOnce == Orderly => OneOwner /\ ParserHasDocument

\* What the map has, and what the screen.
WindowsMapped ==
  \A w \in Wins : rdr.map[w] # None =>
    /\ w \in rdr.has /\ rdr.parser[w] = None
    /\ rdr.map[w] = rdr.doc[w] /\ rdr.doc[w] \in rdr.user

ShownExists ==
  /\ rdr.dlg = "open" => /\ rdr.shown \in Names
                         /\ rdr.view \in rdr.user
                         /\ rdr.view = rdr.map[rdr.shown]
  /\ rdr.dlg # "open" => \A f \in Files : rdr.map[f] = None

\* As long as the process runs, and without the lapses, the viewer's map leads from a
\* window to the window's whole document; an open viewer shows a document that exists,
\* under the name it has in the map, and only while it is open are documents of files
\* kept.
MapFollowsWindows == Orderly => WindowsMapped /\ ShownExists

\* No request and no key makes the process follow NULL, or a pointer to a window, a
\* session or a document that was freed, or fail an assertion, in whatever order they
\* come, but for the slips here.  A title for a window that has no whole document fails at
\* once, and so may an update or an end of a window that is not there; a load during a
\* write and a file that cannot be parsed leave a pointer to a document that was freed; a
\* request while a box or a list is up may take away what the handler below it, or the
\* user, is about to use, or end a write whose document the handler then sets.
NoFault ==
  /\ rdr.fate = "assertion" => slips \cap {"title", "box"} # {}
  /\ rdr.fate = "wild" => "unset" \in slips
  /\ rdr.fate = "null" => slips \cap {"title", "box"} # {}
  /\ rdr.fate = "freed" => slips \cap {"load", "file", "box"} # {}

\* dom-ops.c: "assert(user);" in dom_set_title.
TitleHasUser == rdr.fate # "assertion"
=============================================================================
