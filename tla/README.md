# A verification project for PurC Midnight Commander

PurC Midnight Commander is GNU Midnight Commander, a file manager for terminals
with its own editor, viewer and subshell, with a renderer for HVML programs built
into it: interpreters connect over a Unix socket or a web socket, authenticate under
an endpoint name, open windows, load documents into them and change these documents
element by element, while the user browses the documents in the DOM viewer. This
directory holds TLA+ models of both, the TLC configurations that check them, and
proofs that TLAPS checks.

## 1. The system

The file manager is one process with one thread. Its dialogs run nested event loops;
each loop waits for keys and for a list of channels, and calls an idle hook. The hook
calls `check_server_on_idle` (renderer/server.c), which takes what epoll has ready, one
event after another, and looks at its timers when nothing is ready. What makes this
concurrent is what is outside of the thread: the clients of the renderer, the shell
behind its pty, the children that copy in the background and ask questions over pipes,
other editors on the same files, other programs on the same file systems, the clock,
and signals; and inside the thread a handler that opens a dialog, whose loop serves
all the others before the handler goes on.

| Component | State | Operations | Hard part |
|---|---|---|---|
| Renderer server (server.c, endpoint.c) | clients, endpoints, table of names, dangling list, living tree, counters | accept, authenticate, start and end sessions, drop silent clients, shut down | stale pointers between five structures, counters changed in many places, timers that run only when idle |
| Unix socket link (unixsocket.c) | status bits, write queue, frame being read | read frames, write or queue, flush on EPOLLOUT, throttle | short writes and reads, clients freed while an event of theirs is being handled |
| Web socket link (websocket.c) | status bits, upgrade request, frame, message, send buffer | upgrade, fragments, control frames, close | one status word for both directions, control frames between fragments |
| Sessions and windows (endpoint.c) | windows by name and by handle, parser, document | create, update and destroy windows, load, writeBegin/More/End | requests in an order the protocol does not allow |
| DOM operations (dom-ops.c) | tree of nodes, sorted map from handles to elements | append, prepend, insert, displace, update, erase, clear | map and tree must not diverge |
| Renderer client (purcsex.c) | batch of operations, requests that wait, handles, documents half written | send, handle answers and events, write on | events between a request and its answer, piecewise writing |
| DOM viewer (dom-viewer.c) | map from windows to documents, what is shown | attach, detach, reload, switch, close | nested event loops |
| Screens (dialog.c, dialog-switch.c) | dialogs, the stack of loops, the list of screens, a pending switch | open, close, switch, suspend, resume, shut down | a screen is left in the middle of the call that runs it |
| Editor (edit.c, editcmd.c, editbuffer.c) and file locks (lock.c) | text, undo and redo rings, line counters, time stamp, lock link | open, edit, undo, redo, save in three ways, save as, close | other editors between any two system calls, failures, crashes |
| File operations (file.c, filegui.c) | the context with its flags, list of hard links, list of sources to erase | copy, move, move a directory away, ask, retry, skip | the text must be in one place at any time, whatever fails |
| Background copies (background.c) | tasks, pipes, select list, loops | call the parent, serve, stop, resume, kill | an answer must reach the child that asked, from nested loops |
| VFS core (gc.c, direntry.c, interface.c) | loaded filesystems, stamps, current directory | load, stamp, expire, free, change directory | a cache whose users come and go in four files |
| FTP filesystem (ftpfs.c) | control connection, its type and directory, the data connection | log in, list, read, store, abort, change, reconnect | replies have no names, servers go at any time, commands are sent again |
| Subshell (subshell/common.c) | the shell's state as known, command and pipe buffers | start, run, change directory, switch, notice the end | two processes, three channels, a signal handler |
| Panels, search, viewer, diff viewer, other plug-ins, terminal, skins, configuration | | | see section 6 |

What makes them correct:

* server: a pointer that is followed leads to a live structure; the name table,
  the living tree and the endpoints agree; the counters are exact, so that limits
  mean what they say and the assertion at exit holds; a name has one holder;
  silent clients are pinged, then dropped, and nobody waits for ever;
* links: what one side writes is what the other reads, in order, and data that is
  queued is eventually sent; nothing is used after it is freed;
* sessions: a request never reaches a window, parser or document that is gone;
* DOM: what a handle finds is a living element that carries it, an element whose
  handle no other one has is found, and no subtree is lost;
* client: one request of the batch at a time, until the batch is done; a document that
  is taken for loaded was ended;
* viewer: what is shown is a document that exists;
* screens: no dialog is followed when it is gone or lost sight of while it is there,
  and what the user changed is thrown away only after a no;
* editor: a lock believed in is held, nobody's text is overwritten unasked, what was
  complete on the disk stays complete, undo goes back one command, redo takes it back;
* file operations: no text is lost but by an error the user passed over, no target is
  touched against the user's word, a mark goes only from a file that was done;
* background copies: who asks is answered, and with the own answer;
* VFS: nothing is open on what was freed, and what nobody uses will be freed;
* subshell: a shell that is not running a command is at its prompt, no command is
  thrown away, and the user gets the panels back.

`PROJECT.json` lists every component, also those left out, and under "hazards"
each thing in this code that a test would hardly reach, with the properties
aimed at it.

## 2. Modules

| Module | What it is |
|---|---|
| `NameRegistry` | abstract: what clients are promised about endpoint names |
| `RdrServer`, `MCRdrServer` | the server: connections, endpoints, tables, timers, shutdown |
| `RdrServerProofs` | the theorems about `RdrServer`, the refinement of `NameRegistry` among them |
| `RdrSessionProofs`, `FileOpsProofs`, `BackgroundProofs`, `SubshellProofs`, `PurcsexProofs`, `ScreensProofs` | the theorems about these six |
| `EditFileProofs` | the theorems about `EditFile`: locks and texts, time stamps |
| `UsWriter` | what a Unix socket client is sent: write, queue, flush, throttle, and the epoll event around it |
| `UsReader`, `MCUsReader` | what a Unix socket client sends: frames put together to packets |
| `WsLink` | both halves of a web socket client after its handshake |
| `RdrSession`, `MCRdrSession` | sessions, windows, parsers and documents, the viewer's map, the modal boxes |
| `DomHandles` | one document: its tree of elements, the map of handles, the entries on the screen |
| `Purcsex` | the client purcsex: its batch, documents in pieces, events, table of handles |
| `Screens` | dialogs, their loops, the list of screens, closing with its questions |
| `EditFile`, `MCEditFile` | editor windows of several processes on shared files: locks, saving, failures, kills |
| `EditUndo` | the text of one window, its undo and redo rings and line counters |
| `FileOps`, `MCFileOps` | copying and moving with failures, dialogs and buttons |
| `Background` | copies in the background, their pipes, and the loops that serve them |
| `VfsGc` | filesystems that are loaded, stamped and freed |
| `Ftpfs` | the FTP filesystem and its server |
| `Subshell` | the file manager, its shell, and what is between them |
| `MCRenderer`, `MCProcesses`, `MCFiles` | harnesses: several of the above in one run |

A harness extends the modules whose own properties its run checks and theorems state
(`MCRenderer`: `RdrSession` and `Purcsex`; `MCProcesses`: `EditFile`, `Subshell` and `Screens`; `MCFiles`: `FileOps` and
`Background`; where several are extended, the general names of one carry the module's), instances the others with variables
of their own and picks one of them in the initial state (`part`): each behaviour exercises one part, so that the states of
the run are those of the parts one after the other and not their product. The parts
share nothing. An invariant of a part is looked at where that part moves; the temporal
properties hold trivially where it does not. What a module assumes of its
constants is its predicate `Constants`: a harness assumes it of each part, TLC evaluates it,
and the theorems have it as their hypothesis.

The models of the renderer meet at these points. `RdrServer` has one action for "a
packet came in and was answered", and the bytes of it are the business of `UsReader`,
`UsWriter` and `WsLink`, for one client; `RdrServer` has one operation for all requests on
windows, and `RdrSession` has these, for clients that are authenticated; `RdrSession` has
one action for a DOM request, and `DomHandles` has these, for one document. `RdrSession`
treats the viewer as what is shown, and `Screens` its dialog among the others. Those of
the file manager meet likewise: `Background` has a request that asks and one that does not,
and `FileOps` says what is asked; `Screens` asks about changes when a screen is closed, and
`EditFile` has what saving then does. No module includes another's state: what
they share (a client that is freed, a session that ends, a document that is destroyed)
is an action in each.

### NameRegistry and RdrServer

`NameRegistry` has two variables, the connected clients and the holder of each
name, and three actions: a client joins, a set of clients leaves (a sweep drops
several at once), a client claims a name that is free. `RdrServer` implements it with
`connected` = the clients with an open connection and `holder[n]` = the client of
`endpoint_list[n]`.

Each event of `check_server_on_idle` is one action of `RdrServer`, from the read to the
reply: `AcceptUS`, `AcceptDeadUS`, `AcceptWS` and `Refuse` are the two accept functions;
`Upgrade` and `UpgradeNoEndpoint` the web socket handshake; `StartAccepted`,
`StartRefused` and `StartNotStored` the outcomes of `on_start_session`; `EndSession`,
`OtherMessage`, `WindowWithoutSession` and `PacketWithoutEntity` the other packets;
`ReadEnds` every read after which the connection is closed, through `on_close`
(`Disconnect`); `CheckNoResponding`, `CheckDangling` and `CheckNothing` the branch taken
when nothing is ready; `Shutdown` is `deinit_server`. `Connect`, `PeerClose`, `Send` and
`Tick` are the clients and the clock. A crash (a NULL session that is followed) and a
failed assertion end the run: `srv` says which. What is abstracted: a name is what
the normalised host, application and runner names assemble to; the requests
about windows are one operation that needs a session; the reply to a request is
either read or its peer is gone; the order of the living tree does not matter,
because the sweep stops at the first endpoint that is neither silent nor to be
pinged and the tree is sorted by the time both depend on. The byte statistics are
left out.

Three things the code does that the model keeps: the dangling list that loses its
old head, the endpoint made at every piece of an upgrade request (so that one
client can come to two endpoints), and the web socket client that is kept without
an endpoint when none could be allocated, whose next packet fails the assertion of
`on_packet` (`PacketWithoutEntity`).

### UsWriter

`link` is the `USClient` with the socket under it: status bits, the list of pending
blocks, `sz_pending`, whether EPOLLOUT is asked for; `wire` is what the kernel took, `room`
what it would still take. A byte is the pair of its `us_write` call and its place
in the caller's buffer, so that losing, repeating or reordering one shows.
`UsWrite`, `WriteData`, `Enqueue`, `FlushBlock` and `WritePending` are the functions of
unixsocket.c from the bottom up, each giving the set of clients it may leave:
`write(2)` takes any number of bytes there is room for, or fails with EAGAIN, or
with EPIPE when the peer is gone. `Event` is one turn of the epoll loop: the read
half, with an answer sent or not, then the write half, in that order and with the
tests the code has between them. A refused write queues one byte from in front of
the buffer (its place is 0): `WholeInOrder` allows it, so that the rest of the
behaviour can be checked, and `OnlyGivenBytes` is the property of the run `us_stray`. At the throttle a
call is dropped whole, which may be a header whose payload is queued later:
`WholeInOrder` speaks of calls and allows that too. `sz_pending` is a natural number;
`CountCovers`, which the renderer run checks together with `QueuedIsWatched`, is what keeps
the real one, a `size_t`, from wrapping. It drifts upwards, so that the throttle can stay
on with an empty queue. `FreedNotUsed` says that a client is left alone once it is freed;
it does not hold (the write half of an event goes on with a client that its read half
freed), and no run checks it.

### UsReader

The stream is a sequence of `<<n, i>>`, the `i`-th byte of the `n`-th frame with 0 for its
header. `flight` is under way, `kernel` can be read. `ReadFrame`, `ReadControl`,
`ReadBadFrame`, `ReadPayload` and `ReadEnd` are the ways through `us_handle_reads` and
`try_to_read_payload`. A header arrives whole (the code gives up the connection
otherwise); a payload too, unless `Pieces`. When the reader has lost its place
and takes payload for a header, the header is any frame. `Expected` is the
reference: which packets a sequence of frames means, by the frames alone.

### RdrSession

The record `rdr` has the sessions and their windows, `win->dom_doc` and `win->parser`, the
documents that are allocated and those with user data, `file2dom_map`, the view
(`view_info`), the list of documents when it is up, and a stack of handlers. Requests
are actions (`StartSession` ... `DomRequest`, `EndSession`, `Disconnect`), and so are the
keys of the user (`Show`, `OpenFile`, `OpenList`, `Pick`, `CloseShown`, `Quit`). A handler that
puts up a message box stays on the stack with the pointers it holds, until
`Dismiss`; removing a session is a loop of one window at a time (`RemoveNext`,
`RemoveDone`), because each may put up a box. A pointer that is followed after its
target is freed, an unset pointer that leads nowhere, and a failed assertion end the run with
`fate`.

`slips` is a history variable: what clients and user did so far beyond what the code is safe
for. Two of the slips are never kept off, because any request may be one:

* `title`: a title for a window without a whole document. `on_update_plain_window` gives
  `dom_set_title` whatever `win->dom_doc` is: NULL, or a document without user data yet.
* `unset`: an update or an end of a window that is not there. `on_update_plain_window` and
  `on_destroy_plain_window` declare `PlainWindow *win;` without a value (endpoint.c:579, 645), test
  it (608, 674) and follow it (622-625, 680-682); the warning "Specified plain window not found" is given only
  if the stack happens to have a NULL there. `NotFound` and `Found` have the three outcomes: the
  request is refused, a window that an earlier call left on the stack is taken for the one that
  was asked for, or the process follows a pointer to nowhere (`wild`).

The others are `Lapses`, and an instance says which it lets in. `NoFault` is checked with all of
them: it says which slip each fault comes from, so a fault without a slip, or by another one, is a
violation. `OwnedOnce` and `MapFollowsWindows` are said of behaviours that run and used no lapse so far
(`Orderly`). What each lapse brings:

| Lapse | What it allows | Fails |
|---|---|---|
| `box` | requests served by the idle hook of a message box that a handler waits for | `OneOwner`, `ParserHasDocument`, `WindowsMapped`; faults `freed`, `null` and `assertion` |
| `load` | `load` between `writeBegin` and `writeEnd` | `WindowsMapped`, `ParserHasDocument`; fault `freed` |
| `file` | a file that cannot be parsed | fault `freed` |

Simplifications: allocations succeed; the order of the kvlists is the order of
the numbers, files before windows; a viewer that was told to close is reaped
before the next request, unless `box` (the requests of the same epoll batch
commute with it); the screen list, by which a viewer goes to the background, is in
`Screens`; a second `startSession` and windows without a name are left out.
`domview_detach_all_doms` is called nowhere.

### Purcsex

`cl` is `client_info` with the requests that wait for an answer, `srv` the renderer as a
client sees it: what it was sent, what it answers and reports, its windows with their
documents, and those with a parser open. Which operation comes next in a batch is chosen when it is
issued, so that the batch is a number. `CreatePlainWin` ... `WriteMoreDocument` are the
functions that send a request, each giving the clients it may leave; `Answered` has the
handlers; `Response` and `Event` are the two ways through
`pcrdr_read_and_dispatch_message`. The library is external: answers come in order, and
a request that timed out is reported as refused to its handler, its answer dropped. What
the code does against its purpose is kept in `hurt` and excepted by name: the batch stops
after an update that succeeds, a refusal, a time-out, an operation that cannot be sent, and every
`getProperty` and `callMethod`, whose answer goes to a handler of the sample (`own`) that cannot
reach the static `issue_next_batch_operation`;
a document whose last piece is exactly `OneWrite` bytes is never ended; the key of a document
whose load failed keeps the handle of the window.

### DomHandles

The record `dom` has the nodes that are allocated, their child elements in order,
their attribute `hvml-handle`, the sorted array (`map`), and the entries of the tree on
the screen. `Merge` and `Subtract` are the two walks, which leave out the node they
start from; `AppendTo`, `PrependTo`, `InsertBeside`, `Displace`, `Empty`, `Erase` and `SetHandle`
are dom-ops.c on one element; `Insert`, `EmptyElements`, `EraseElements` and `ChangeHandles` are
`operate_dom_element`, which finds the elements of the list first, works on one after
the other and reloads the view with the first one highlighted. Text and other
attributes are left out, `clear` and an update of `textContent` are one action, and
every element counts as unfolded on the screen. An element that is added takes
the least free number, in document order, so that `OrderKept` can tell whether a
fragment kept its order. Two elements may have one handle unless it is in `Once`.

| Lapse | What it allows | Fails |
|---|---|---|
| `attr` | changing `hvml-handle` of an element that the map has | `MapAlive`, `OnceMapped`, `NoFault` |
| `list` | a list of handles with one element twice, or one inside another | `NoFault` |
| `root` | erasing the root element, or inserting beside it | `NoFault` |
| `erase` | erasing an element of the document on the screen | `NoFault`: the reload marks the erased element |
| `insert` | several elements at once before or after one | `OrderKept`: they end up in reverse order |

### WsLink

`c` is the `WSClient` with the server's side of its socket, `peer` the other end, which keeps
to RFC 6455. A frame arrives as two header units and its payload, one unit at a time, so
that each read can be short. `Respond`, `RespondData`, `RespondCache`, `GetHeader`, `GetPayload`
and the handlers of the opcodes are the functions of websocket.c; `ReadEvent` and
`WriteEvent` are the two halves of the epoll branch. The status is one word that both
directions assign as a whole: what gets lost by that is kept, and with it the stall of
`QueuedIsWatched` (run `ws_stall`). `EndIsNoticed`, a connection that ended within a payload
is closed, does not hold and no run checks it: `ws_get_frm_payload` takes the end for a
short read, so that epoll reports the same end for ever (`GoneIsNoticed` excepts that).

### EditFile

Names lead to inodes, inodes have a text (the set of the changes it contains), a time
stamp and whether a write is unfinished. Each process has one command under way,
and each system call of it is an action: `LockRead`, `LockAsk`, `LockUnlink` and `LockLink` are
`lock_file`, `UnlockStat`, `UnlockRead` and `UnlockRemove` are `unlock_file`; the others the check
of the time stamp, the three ways of saving, save-as, closing and deleting an empty
new file. Any call may fail and any process be killed at any point, as often as
`MaxFaults` allows. The history variables say what happened to the protocol of the locks:
`shaken` names lost a link that somebody held, `bare` names were written without it. Known
not to hold: `YesMeansSaved` (edit_ok_to_exit closes after a save that failed; stated,
no run) and `DeletesOnlyEmpty` (run `deletes`).

### EditUndo

The text is what is before the cursor and what is behind it; the two rings are arrays of
`Size` codes with a repeat count in the slot above a code, as in editor/edit.c. `Push` and
`Pop` are the ring's operations, `Forget` what a full ring drops, `Record` decides which ring
an action goes to, `Perform` takes a code back. `past` is the history of texts against which
an undo is compared. The module uses RECURSIVE operators and is for TLC only.

### Screens

`ui` has the dialogs with their states, the stack of dialogs (`top_dlg`), the list of
screens (`mc_dialogs`) with the current one, the flag `dialog_switch_pending`, and `calls`, the
stack of `dlg_run` under way with what each caller does when its call returns: `Leave` ends
the innermost call and continues its caller. `OpenScreen`, `EditFromDiff`, `OpenBox`, `OpenHtml` and
`DomviewShow` open, `Switch` is dialog_switch_goto through the list, next and previous,
`CloseScreen`, `CloseBox`, `DomviewQuit` and `StopDialogs` close, `ShutdownNext` and `ShutdownDone` are
`dialog_switch_shutdown`. The questions asked at closing are part of the step, with the
answer as a parameter. After a suspended screen is resumed from the panels, both are
ACTIVE: the panels are suspended only when a new screen is added.

| Lapse | What it allows | Fails |
|---|---|---|
| `back` | leaving the DOM viewer for another screen | `DialogsKept`, `PanelsStay` |
| `force` | the internal editor by `CK_EditForceInternal` while external editors are configured | `DialogsKept`, `PanelsStay` |
| `menu` | a viewer opened from an editor's user menu | `DialogsKept` |
| `exit` | the shell ends while a viewer or an editor has the screen | `QuitIsFinal` |
| `box` | documents come and go while a box is over the DOM viewer | `DialogsKept` |

`ScreensSound` is `DialogsKept` and `PanelsStay`. `YesSaves` does not hold either: at shutdown `dview_ok_to_exit` takes every answer for a no.
`NoneLost` excepts it, and the texts an editor or viewer drops at shutdown when the save
fails. Left out: `domview_load_html` returns a value it did not set for other files than
HTML; `edit_quit` does nothing while a window is dragged; a dialog that cannot load its
file is destroyed at once; a viewer is an editor here.

### FileOps

One operation over the marked files: `op` is a copy, a move, or a directory moved to another
file system, which is copied and erased afterwards. `job` has the locals of the call under
way; each system call of `copy_file_file` and `move_file_file` is an action that may fail, each
error dialog an answer, each question about a target a choice of what the dialog
offers, and each look at the progress dialog a button. `ctx` has the flags that stay from file
to file (`skip_all`, `do_append`, `do_reget`, the answer for all). Another program may make a
target at any moment. What the code does that the model keeps: the second look of a
move does not ask; `do_append` stays for the next file when the target could not be opened
(`leftover`); a Reget answers for every later file, as `replace_result` is asked for again only
after Yes, No and Append (`Said` records "again" for a file nobody was asked about: an exception of `TargetKept` and
`UnmarkedIsDone`; `RegetIsForThisFile`, which no run has, says that there is none, and fails);
after an append, "Delete incomplete" and an abort at the preallocation unlink the target
with what it had before; under `skip_all` a read that fails is tried again until a button
is pressed; `copy_dir_dir` returns what its last entry returned. The directory is flat, and
targets that are hard links of each other are left out.

### Background

Each child has what it does and which request it is at; `comm` and `back` are its pipes;
`loops` are the event loops of the parent, one inside the other, each with its own set of
ready channels (`tty_get_event` has it on the stack) and the child it serves. `Call` and
`CallArgs` are the two writes of a request, `Select`, `Check`, `ReadRoutine` and `ReadArgs` the
parent's side, `Reply` the user, `OpenJobs`, `Stop`, `Resume` and `Kill` the box of jobs.
With a child that is stopped or dies between its two writes, with an error report
(whose arguments are misread, because an address is sent for a value), or with an
action on a job that has ended, the file manager itself can hang: `AskersAnswered` is
checked with no lapse (`AskersOfCalmAnswered` of the harness), `AnswerIsOwn` with all of them.

### VfsGc

`mc` has the loaded filesystems, what is open on each, the stamps with their age, the current
directory and the two panels. The operators are the functions of gc.c, direntry.c and
panel.c, which call each other: to name a path may load an archive, which opens a file on
what it lies on, whose stamp goes; to close the last file stamps. `orphans` are files left
open on a filesystem that was freed. The module uses RECURSIVE operators and is for TLC
only. What the code does that the model keeps: panel.c:3704 and filemanager.c:895 stamp
unconditionally; a panel that shows something other than a list counts as being in every
filesystem (filemanager.c:473), so that what is left meanwhile is never freed (`missed`). With
`now`, `changed` or `quit`, `NothingDangles` (the first half of `StampsFollowUse`) fails: tar.c:945 and `vfs_expire` free an archive
that is open, and at the end the order of gc.c:254 frees what an archive lies on first.

### Ftpfs

`ftp` is `ftp_super_t` (the socket, `ctl_connection_busy`, `isbinary`, `current_dir`, `strict`, the
passive setting), `srv` the server's end with the replies under way, `data` the data connection,
`rd` a file handle that reads linearly and `wr` one that writes. An operation is a function from a
state to the set of states it may leave, so that `Command`, `Reconnect`, `Login` and `Chdir` call
each other as in the code, to the depth that `MaxOdd` faults allow; between two
operations, and between two blocks of a transfer, the server works (`ServerStep`), goes
(`ServerGoes`), and the user does something else. The server is external: RFC 959, with a data
connection that holds `Room` blocks, and a reply that carries, unseen by the client, its
command. What the code does that the model keeps is in `slip`, the reasons for which a connection
is out of step until it is replaced, and excepted by name:

| Slip | What happened | Then |
|---|---|---|
| `late` | ABOR after the server said that the transfer is over | two replies, one is read (ftpfs.c:1517) |
| `kept` | the server kept sending after ABOR, and the reconnect failed | the replies to ABOR are still to come (1509) |
| `accept` | in active mode, the user gave up before the server connected | the last reply of the transfer is read by nobody (1441) |
| `during` | a command while a transfer is open | it takes the transfer's reply for its own, or both sides wait |
| `moved` | no directory could be gone back to, or none was told | LIST lists where the login is |

A login refused at USER and then cancelled leaves `sock` = `stale`, the number of a closed
descriptor (997), and `DescriptorTaken` makes it another file's; `harm` records that
a command was written there. The module uses RECURSIVE operators and is for TLC only.

### Subshell

`mc` is what common.c knows and where it is (`pc`: at the keys, in `feed_subshell` before or in
select, in `synchronize`, asking for the command line, ended), `sh` is the shell with its
pty, its pipe and the signal it owes, `log` counts commands. Two processes interleave:
`McStep` and `ShStep`, and the user. A shell whose command line cannot be read (`Shells`) takes the
older way through `synchronize`.

| Lapse | What it allows | Then |
|---|---|---|
| `left` | the user leaves the shell | nothing fails |
| `between` | the shell ends between the look whether it lives and the select | `ComesBack` fails: the shell that ended is waited for for ever |
| `slow` | the shell takes more than the second that is waited | `NoCommandLost` fails: the late message makes `synchronize` drop a command |
| `ahead` | the user types ahead | `InactiveIsIdle` fails: ^O takes a running command for a prompt |
| `killed` | the shell is killed | `InactiveIsIdle` fails: the dead shell's message is taken for the new one's |

The run has `left` and `between` for the invariants and `left`, `ahead` and `slow` for `ComesBack`.

## 3. What TLC checks

| Run | Question | Result |
|---|---|---|
| `registry` | types; no stale pointer (`PointersSound`); tables agree (`TablesAgree`); counters exact and within their limits (`CountsRight`); the assertion at exit (`ShutdownClean`); does the server implement `NameRegistry` (`RegistrySpec`)? | holds |
| `timers` | is a dropped client always pinged first (`DroppedWasPinged`), are silent clients removed (`SilentRemoved`), is the dangling endpoint settled (`DanglingResolved`)? | holds under fairness, if the user interface is idle in every second |
| `renderer` | links: is what is written sent or dropped whole and in order, watched and counted, and sent in the end; is `on_packet` given what was sent; is a peer that left noticed? Sessions: one owner for each document, the viewer follows the windows, nothing freed is followed. Documents: the map follows the tree, the screen the map, the order the requests. The client: one request at a time, and changes sent to documents (`BatchInStep`), documents ended (`LoadedWasEnded`), the batch done in the end (`BatchEnds`) | holds, if payloads come in one piece, documents change without the lapses of `DomHandles`, and but for what the properties name: the slips of sessions and what stops a batch |
| `processes` | locks, overwriting and kills of editors; undo and redo; screens; the shell | holds |
| `files` | is a text ever lost, a target touched, a mark removed wrongly; do background children get their own answers; is nothing open on what was freed, and everything unused stamped; is every command to a remote system answered, in step, and is what is reported done? | holds, with the exceptions the properties name |
| `lost_dangling` | does the dangling list hold every endpoint not authenticated, as server.h says? | violated: the list holds the newest one |
| `us_stray` | are only the caller's bytes sent? | violated: one from in front of the buffer |
| `us_pieces` | is `on_packet` given the packets that were sent when payloads come in pieces? | violated |
| `title` | does `assert (user)` of `dom_set_title` hold? | violated between `writeBegin` and `writeEnd` |
| `ws_stall` | is EPOLLOUT asked for as long as bytes wait for a web socket? | violated: a read in between overwrites the status |
| `deletes` | does a window delete the file it created only while it is empty? | violated: another editor wrote to it |
| `move_erases` | does a move to another file system delete only what was copied whole? | violated: after Skip at a failed write, among others |

The violations are findings in `PROJECT.json`, each with the line it contradicts.

Bounds.

* `RdrServer`: two clients, one of each kind, three endpoints (two of one web socket
  client and one of the other) and one name reach every action. `MaxClients` is 1
  or 2, so that the limit is met. Only comparisons of times matter, so ages stop
  growing one past `NoRespTime`, and `phase` is the elapsed time modulo the period of
  the sweep. `registry` uses the smallest times that distinguish the two sweeps;
  `timers` has a ping, a drop and both sweeps at different times. `Ops` limits which
  messages an instance sends; `registry` uses all of them. `MayFail` lets allocations fail.
* `UsWriter`: a header of two bytes, payloads of at most two, a kernel that holds
  three bytes and a throttle at three give packets of one and two frames, blocks
  sent in no, one or two pieces, and a queue at and over the threshold within
  `MaxCalls` = 4 calls.
* `UsReader`: three frames out of ten kinds: packets of one to three frames, control
  frames between and inside them, and each frame that is refused.
* `WsLink`: `frames` has three frames of the peer (a message in three fragments, or one in
  two with a control frame inside), `answers` two frames sent over the throttle with one
  frame read between, `gone` the end of the stream at any unit. `MaxQueue` bounds the
  answers to a stream that was cut, which the code would repeat without end.
* `RdrSession`: one client with two windows, one with one, a file, without lapses; and a window
  for each client and a file with all three lapses, one of them in each behaviour, any number of
  times, where the second window is given whole documents only and no file is open from a `box` on. The four addresses are enough for the documents of two windows and a file and the next
  one; an address is reused only when nobody remembers it, and nothing is loaded while all are
  remembered. `Depth` = 2: requests are served behind the box of one handler, and may put a second one on
  the stack. Each of the faults `NoFault` allows for a slip is met within these bounds.
* `DomHandles`: four elements below the root, fragments of one and two elements,
  nested or not, with and without handles; two handles are given once, one to
  several elements.
* `Purcsex`: a window and a widget with a document each, three operations, two events,
  refusals or time-outs; a piece is two bytes, so that a document of four ends with a whole
  piece or, if a character is cut, with a part of one.
* `Screens`: four dialogs at once, the panels among them: two screens and a box over
  them, or three screens, the least number for which "next", "previous" and "the one
  below" differ.
* `EditFile`: in `race` two processes share one file without failures, one of them with
  two commands; in `fault` two names, so that save-as has a target, one command each and
  one failure or kill at any system call. `FineClock`: every write has a time stamp of its
  own; without it the comparison of stamps cannot see a change within the same tick, and
  `NoSilentOverwrite` says so.
* `EditUndo`: a ring of 8 codes is the smallest for which `Forget` leaves a command, and
  six keys fill it; texts of five bytes with a run of equal ones exercise the counts.
* `FileOps`: two names, linked to each other or to nothing else, two blocks each, and two
  failures, or a foreign target with one failure or one button.
* `Background`: two children, with two requests each besides the last, or one when
  everything may happen. `VfsGc`: a host, an archive on it, a local archive, two panels, one
  file in a viewer. `Ftpfs`: two directories, a file of two blocks, three operations, two faults:
  enough for an abort that comes too late and a command after it, and for a
  reconnect that fails in its turn. `Subshell`: two directories, two commands, two shells that end (`shell`)
  or one (`rush`).

Fairness. `RdrServer`'s `FairSpec`: each connection is eventually served (epoll
returns ready descriptors in turn), the clock runs, and the idle hook runs again
and again while it has something to do. `[]<>Quiet` says that the clients leave
moments in which no descriptor is ready: the code needs it, because a flood of
messages starves the timers. `DroppedWasPinged` needs `IdleEverySecond`: a user
interface that is busy for the whole of a second that is a multiple of ten skips the
sweep. `UsWriter`: epoll reports a writable descriptor until it is served
(level triggered), and the peer reads what there is; nothing is assumed of
requests or timers. `WsLink`: read and write events are served, for the same reason.
`Purcsex`: the renderer answers, and the client reads what it is sent.
`EditFile`: a process that has begun a command goes on, which is the scheduler's; the
user answers. `Background`: the loop of the parent goes round, the children run, the user
answers what is asked. `Subshell`: the file manager and the shell are scheduled, and the user
answers when asked whether to leave. `RdrSession`, `DomHandles`, `Screens`, `EditUndo`, `FileOps`,
`VfsGc` and `Ftpfs` state safety only.

Deadlock is not checked where a system may stop: after a shutdown, a fault or a
crash, once a client is freed, when an operation is over, and at the bounds on calls,
frames, keys and commands. The harnesses have such parts.

Every property of a passing run has a mutant, an operator marked "Mutant" in front of
the definition it changes; `PROJECT.json` says which property notices it.

## 4. What is proved

A theorem `ASSUME Constants PROVE Spec => []P` holds for every value of the constants that
satisfies the module's predicate `Constants` (`BackgroundConstants` of `Background`, `ShellConstants` of `Subshell`, `ScreensConstants` of `Screens`,
`PurcsexConstants` of `Purcsex`, the named assumptions of `RdrServer`); `P` is the very definition that a run checks on a small instance,
because the harnesses extend the modules proved about. Every theorem rests on an inductive
invariant, which TLC confirmed on small instances before it was proved, and has one lemma per
action under the lemma that every step preserves it. No theorem assumes fairness.

### The server

For all sets of clients, endpoints and names (finite, with `None` in none of them) and all limits
(natural numbers, the two periods positive), of `RdrServer`:

* `TypesAlwaysRight`: the type invariant, and `DanglingShort`: the dangling list never has two
  elements;
* `PointersAlwaysSound`, `TablesAlwaysAgree`, `CountsAlwaysRight` and `ShutdownAlwaysClean`;
* `DroppedArePinged` (`DroppedWasPinged`, an action property), where `IdleEverySecond` holds
  and the period of the sweep is at most the time between a ping and the drop;
* `RefinesNameRegistry`: the specification implies that of `NameRegistry`
  under the mapping above.

The inductive invariant is `Consistent`: the types, `DanglingShort`, `PointersSound`,
`TablesAgree` and `UpgradeFirst`. `TablesAgree` is not inductive alone: when
`check_no_responding_endpoints` drops an endpoint, the name and the client it removes are found
through pointers that must be sound; when an upgrade request gives a client a second endpoint, the
first must not be a listed one, or the table would lead to an endpoint whose client has another.
That is what `UpgradeFirst` adds: frames, and so authentication, come only after the whole
request. `DanglingShort` is needed because an endpoint replaced by the second one must be out of
the list. The step lemmas (`NewEndpointStep`, `AcceptedStep`, `DropStep`, ...) say what each kind
of change does to the tables; `RegisteredStep` puts them together action by action.

The counts follow from a second invariant: `nr_clients` is the number of open connections of each kind and
`nr_endpoints` that of the living tree; the second needs `TablesAgree`, because a client that
hangs up is taken off the count by its endpoint's name and off the tree by its key.
`ShutdownClean` follows because at shutdown every listed client is hung up, and the tree is then
empty. The refinement reduces every action to one of four forms (nothing changes, a client
joins, clients leave, a client claims a free name); a sweep that drops several clients is one
`Leave`, and the proof that their names become free uses `TablesAgree`.

### Sessions and documents

`RdrSessionProofs`, for all finite sets of clients, windows, files and documents and whatever
lapses are let in: `DocumentsAreOwned` (`OwnedOnce`), `MapIsTheWindows` (`MapFollowsWindows`), and,
as long as none was used, `NothingFails`: `NoFault`, and without a slip of any kind the process runs
on. The requests that slip at once, a title for a window without a whole document and a window that is not there, are
not kept off in any of them: they are cases of the proof (`KeepsTitle`, `KeepsDestroyWindow`), which end the process or
leave the invariant. That the lapses themselves bring only the faults `NoFault` names is model-checked. The invariant `SInv` says of the state that every document that exists has
exactly one place, a window, a file, or the hands of the handler that waits (`Owned`); that the
documents of a window are whole, or written to by its parser (`Whole`); that what the viewer shows
is in its map (`Seen`); and what the handler behind a message box still has to do (`Waits`).
`NoFault` needs all of it: a handler follows its pointers after the box is dismissed, and only
`Owned` says that nobody else could free their targets meanwhile. The types say that no two
handlers ever wait. `OneOwner` counts owners and documents; it follows from `Owned` by a
bijection.

### The client purcsex

`PurcsexProofs`, for all windows, documents, lengths of contents and sizes of a piece, and any
number of operations, events, refusals and time-outs: `PurcsexTypes`; `BatchIsInStep`
(`BatchInStep`: one request of the batch under way, what the next piece of its document needs is
kept, and no change goes to a window, unless a load failed);
`LoadedWereEnded` (`LoadedWasEnded`: what the client takes for loaded was ended, unless its last
piece was a whole one). The theorems hold under everything the model lets the renderer and its user
do; what the code does against its purpose is excepted by name in the properties.

That there is one request is the easy half: `QueueOperations` and the handlers issue one only when
none waits. That the *renderer* is in step with the client needs the order of travel. A request that
timed out is still under way, and so may be served later; but requests are served in the order they were sent (`Ordered`), so when
the answer to a request of the batch is read, nothing of the batch is under way behind it
(`Latest`), and what is sent next finds the windows as the answer left them, but for what the user
closed (`Chain`, `Follows`). What an answer says stays true until it is read (`Truths`). A handle
carries the number of the request that made it, and all handles are older than what is under way
(`Aged`), so a later document is never taken for an earlier one; without it, `LoadedWasEnded` is not
inductive when two documents have one window. `Right` has all of these as conjuncts, and each of
the ways the state can change (an answer, a time-out, an event, a request served or refused, the
user) its lemma.

### Files

`FileOpsProofs`, for any number of files, of any length, linked to each other in any way, any
number of failures, answers and other programs: `NothingIsLost` (`NothingLost`), `TargetsAreKept`
(`TargetKept`), `UnmarkedAreDone` (`UnmarkedIsDone`). The invariant says of each name that gave up
its source or its mark, or is in the list of what is to be erased, that it is `Covered`: whole at
the target, an error of it passed over, or linked to the target of another name. None of the three
is inductive by itself. A link is made to the target of the name an inode was first copied under,
so that name must have come first and must not itself be linked (`Leading`); that a file is whole
when its copy returns needs that the target ends, at each block, with what was read so far
(`Begun`), which in turn depends on whether the flags of the operation are those of this file or
left from another (`Appends`, `Asking`). `TargetKept` has the two exceptions that the code makes,
and names them: an append left over from a file that could not be opened, and a Reget taken
once more (`answer` is "again", not the user's word). The source of the latter is there in the
end, as a Reget is offered only when copying (`DoneIs`), so that `NothingLost` needs no exception.

### Background copies

`BackgroundProofs`, for any set of children, any number of requests and any of the lapses:
`AnswersAreOwn` (`AnswerIsOwn`). A loop of the parent that is not the innermost one is in the
middle of a request only if the loop over it is that request's dialog (`Nested`); so the children
with a request under way lie one over the other, each once (`Apart`); and what such a child wrote,
what was read of it and what was answered belong to one request (`InStep`).

### The editor

`EditFileProofs`, for all finite sets of processes, windows and names, all modes of saving and any
number of failures and kills:

* `LocksAreOwn` (`LockIsOwn`). `LockSound` says of a name whose link nobody shook that at most one
  window claims it, that no window does while a save holds it for a moment, and that a process
  about to remove the link has no window that counts on it.
* `TextsAreKept` (`TextKept`, an action property). Until it is renamed, only the save itself knows
  the new file, and once written it has the whole text (`Kept`).
* `NothingOverwrittenUnasked` (`NoSilentOverwrite`).

That there always is a free inode and a fresh time stamp, which the types need, is proved by
counting.

The invariant of `NothingOverwrittenUnasked` relates the stamps of files, of windows and of files put aside: a stamp belongs to one text or to empty files
(`Unique`), that of a file put aside is known only to its own window (`AsideNew`), so a window
whose stamp is that of a file has what the file has (`Seen`). A save compares the stamp once, then
makes several system calls; that nothing was added to the file in between is `Warned`, for as long
as the link is its own, and `Locked` says that a file is locked while it is truncated. `StepAlone` does the
work for all actions at once: it says what a step of one process on its own windows and one name
has to leave alone.

### The screens

`ScreensProofs`, for any number of dialogs and any kinds of screens, with `ScreenLapses = {}` as a
hypothesis: `ScreensTypes`, `ScreensAreSound` (`ScreensSound`) and `NothingIsLost` (`NoneLost`).
None of the properties says how loops lie over each other, and all depend on it. `Right` does: the
loop of the panels is lowest; on it lies one screen, or a box; what lies on a box or on a diff viewer is modal and no
screen (`Nested`). So a dialog that can be left for another screen has the panels' loop right
below it, and the caller it returns to is one of those that look at what is pending (`Current`):
this is what the lapses `back`, `force` and `menu` take away. A dialog is allocated exactly when it is
a screen or has a loop (`Placed`), the dialogs below the innermost loop are active, and screens without
one are suspended (`Still`), so nothing is run in two loops. Changes are kept only where a handler will ask about them
(`Watched`); and when the panels' loop has ended, all that is left is in the list that
`dialog_switch_shutdown` takes apart (`Stopped`). Each action has its lemma; `Leave`, which returns to
any of the callers of `dlg_run`, has three, by what is left: the panels, a modal dialog, or a screen.

### The shell

`SubshellProofs`, for any set of directories and any number of commands and of shells that end:
`ShellTypes` and `ShellKeepsStep` (`ShellInStep`: a shell taken to be idle waits at its prompt in the
directory it is taken to be in, and every command given has begun, lies before the shell, or waits
to be sent). Their hypothesis is `Orderly`: the constants are right, and of the lapses there are at
most "left", the user ends the shell, and "between", it ends after `feed_subshell` has looked and
before it waits. Each of the other three (a slow shell, typing ahead, a shell that is killed) breaks
the property, as TLC shows. The invariant `InStep` says who knows that a shell has ended (`Ends`) or
stopped (`Stops`), what was told through the pipe and not read (`Told`), what lies in the pty
(`Lined`), and, for each place of the file manager, what the shell may be doing there (`Where`):
while `feed_subshell` discards what came before a command, the shell is on its way to its prompt and
nothing of the user's lies before it. The functions of common.c each have a lemma that says what they
need and leave (`FeedGood`, `ReturnSucceeds`, ...), the actions one each on top of them; a count of
the commands under way (`Owed`) goes with the invariant, because a command may be lost only by being
taken off the line.

### Only model-checked

* Liveness: it is about fairness and ENABLED, which this prover does not reach.
* What recursive definitions and folds compute: `UsWriter`, `UsReader`, `DomHandles` fold over
  sequences, and `EditUndo`, `VfsGc` and `Ftpfs` are recursive.
* `WsLink`, which has no theorems.
* `Subshell` with a lapse other than "left" and "between", for which `ShellInStep` does not hold.
* `Screens` with any lapse, for which its properties do not hold, and `RdrSession` once a lapse was
  used, where `NoFault` still is checked.

## 5. Not modelled

Formatting and parsing of messages, TLS, access logging, the select(2) variant of
the event loop (`HAVE(SYS_EPOLL_H)` is what Linux builds use), the 32-bit wrap of
lengths announced by a frame, and the components marked so in `PROJECT.json`.

Most of the lines of this repository are of kinds a model checker has little to say
about: drawing and keys of some forty widgets and dialogs, clients of foreign
protocols and readers of foreign formats (SFTP, fish, tar, cpio), string functions
for each character set, syntax highlighting, skins, configuration files, and
programs that test the renderer. The models cover the parts in which the order of
steps matters; within a module the arithmetic of layout, wording and totals is left out.

## 6. Plan

Done: `RdrServer` with its proofs, `UsWriter`, `UsReader`, `WsLink`, `Purcsex`, `RdrSession`, `DomHandles`; and of
the file manager `Screens`, `EditFile`, `EditUndo`, `FileOps`, `Background`, `VfsGc`, `Ftpfs`,
`Subshell`.

Next: `Events` (lib/event), `WidgetGroup` (group.c: the focus and the current widget, where
widget-common.c:578 selects a widget that cannot have the focus), `TreeStore` (treestore.c),
`SortedArray` and `Dispatch` (the binary searches of the sorted array and of the request
handlers).

Proofs done: those of section 4. Next: `FramesWhole` of `WsLink`.
