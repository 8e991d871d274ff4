------------------------------ MODULE EditFile ------------------------------
(***************************************************************************)
(* Editor windows of several processes on shared files: the link           *)
(* ".#name" by which they keep each other out (lib/lock.c), the time stamp *)
(* a window compares before it saves, the three ways of saving, save-as,   *)
(* closing, and a process that is killed at any point (editor/edit.c,      *)
(* editor/editcmd.c).                                                      *)
(*                                                                         *)
(* A process runs one command at a time, and each of its system calls is a *)
(* step of its own.  A text is the set of the changes it contains.  Names  *)
(* lead to inodes, so that a file written in place and a file replaced by  *)
(* a rename differ.  Not modelled: hard links (st_nlink = 1 everywhere),   *)
(* pipes and filters, remote files (which are never locked), line break    *)
(* conversion and two processes with the same number.                      *)
(***************************************************************************)
EXTENDS Integers, FiniteSets, Sequences

CONSTANTS
    Procs,          \* editor processes
    Windows,        \* windows on files
    Owner,          \* the process of each window
    Names,          \* file names
    Mode,           \* option_save_mode of each process
    FirstNames,     \* names that exist at the start
    FirstFile,      \* the name each window has open at the start, or NoName
    Budget,         \* bound: commands given to each window
    MaxFaults,      \* bound: failing system calls and killed processes
    FineClock,      \* every write has a time stamp of its own
    NoName, NoLock, Dead

Constants ==
    /\ IsFiniteSet(Procs) /\ IsFiniteSet(Windows) /\ IsFiniteSet(Names)
    /\ Owner \in [Windows -> Procs]
    /\ Mode \in [Procs -> {"quick", "safe", "backup"}]
    /\ FirstNames \subseteq Names
    /\ FirstFile \in [Windows -> FirstNames \cup {NoName}]
    /\ Budget \in [Windows -> Nat] /\ MaxFaults \in Nat /\ FineClock \in BOOLEAN
    /\ NoName \notin Names /\ {NoLock, Dead} \cap Procs = {} /\ NoLock # Dead

VARIABLES
    dir,        \* the inode of each name, 0 when there is no such file
    bak,        \* the inode of the name's backup
    inode,      \* each inode's text, time stamp, and whether its write is unfinished
    lock,       \* the process that the name's link names
    win,        \* the WEdit of each window
    used,       \* commands given to each window
    op,         \* the command each process is in
    faults,     \* system calls failed and processes killed so far
    (* History: what happened to the protocol. *)
    shaken,     \* names whose link was taken from its holder, or refused without a question
    bare,       \* names written by a process that did not hold the link
    silent      \* a text was overwritten that the user who saved never heard of

vars == <<dir, bak, inode, lock, win, used, op, faults, shaken, bare, silent>>
disk == <<dir, bak, inode>>
history == <<used, faults, shaken, bare, silent>>

Edits == UNION {{w} \X (1..Budget[w]) : w \in Windows}
Inodes == 1..(2 * Cardinality(Names) + Cardinality(Procs))
Stamps == 1..(Cardinality(Inodes) + Cardinality(Windows) + 1)

Closed == [file |-> NoName, buf |-> {}, modified |-> FALSE,
           locked |-> FALSE, stat |-> 0, delete_file |-> FALSE, told |-> FALSE]
Idle == [pc |-> "idle", w |-> CHOOSE w \in Windows : TRUE, f |-> NoName, why |-> "none",
         held |-> FALSE, mode |-> "quick", ino |-> 0, todo |-> <<>>, then |-> "idle",
         closing |-> FALSE]

Blank == [data |-> {}, time |-> 1, torn |-> FALSE]

Init ==
    /\ LET number == CHOOSE n \in [Names -> 1..Cardinality(Names)] :
                        \A f, g \in Names : f # g => n[f] # n[g]
       IN  dir = [f \in Names |-> IF f \in FirstNames THEN number[f] ELSE 0]
    /\ bak = [f \in Names |-> 0]
    /\ inode = [i \in Inodes |-> Blank]
    /\ lock = [f \in Names |-> NoLock]
    /\ win = [w \in Windows |-> [Closed EXCEPT !.file = FirstFile[w],
                                           !.stat = IF FirstFile[w] = NoName THEN 0 ELSE 1]]
    /\ used = [w \in Windows |-> 0]
    /\ op = [p \in Procs |-> Idle]
    /\ faults = 0 /\ shaken = {} /\ bare = {} /\ silent = FALSE

At(p, pc) == op[p].pc = pc
Goto(p, pc) == op' = [op EXCEPT ![p].pc = pc]
W(p) == op[p].w
Win(p) == win[op[p].w]

Free(w) == At(Owner[w], "idle") /\ used[w] < Budget[w]

(* An inode nothing leads to, and a time stamp for a write to inode i. *)
FreeInode == CHOOSE i \in Inodes :
    /\ \A f \in Names : dir[f] # i /\ bak[f] # i
    /\ \A p \in Procs : op[p].ino # i
FreshStamp == CHOOSE t \in Stamps :
    /\ \A i \in Inodes : inode[i].time # t
    /\ \A w \in Windows : win[w].stat # t
(* The disk after a step; an inode that nothing leads to any more is gone. *)
SetDisk(d, b, n) ==
    /\ dir' = d /\ bak' = b
    /\ inode' = [i \in Inodes |->
          IF \/ \E f \in Names : d[f] = i \/ b[f] = i
             \/ \E p \in Procs : op'[p].ino = i
          THEN n[i] ELSE Blank]
NextStamps(f) ==
    {FreshStamp} \cup IF FineClock \/ dir[f] = 0 THEN {} ELSE {inode[dir[f]].time}

-----------------------------------------------------------------------------
(* Opening a file: check_file_access opens or creates it, then it is read. *)

Open(w, f) ==
    LET p == Owner[w]
        new == dir[f] = 0
        i == IF new THEN FreeInode ELSE dir[f]
    IN  /\ Free(w) /\ win[w].file = NoName
        /\ dir' = [dir EXCEPT ![f] = i]
        /\ inode' = IF new THEN [inode EXCEPT ![i] = [data |-> {}, time |-> FreshStamp, torn |-> FALSE]]
                    ELSE inode
        /\ win' = [win EXCEPT ![w] = [Closed EXCEPT !.file = f, !.delete_file = new,
                                                    !.stat = inode'[i].time]]
        /\ op' = [op EXCEPT ![p] = [Idle EXCEPT !.pc = "read", !.w = w, !.f = f]]
        /\ UNCHANGED <<bak, lock>>

Read(p) ==
    LET i == dir[op[p].f]
    IN  /\ At(p, "read")
        /\ op' = [op EXCEPT ![p] = Idle]
        /\ win' = IF i = 0 THEN [win EXCEPT ![W(p)] = Closed]
                  ELSE [win EXCEPT ![W(p)].buf = inode[i].data]
        /\ UNCHANGED <<disk, lock, history>>

-----------------------------------------------------------------------------
(* lock_file: look, read the holder, ask about a live one, remove, link.   *)

(* The window with one more change. *)
Changed(w, locked) ==
    [win[w] EXCEPT !.buf = @ \cup {<<w, used[w]>>}, !.modified = TRUE, !.locked = locked]

(* The command's first system call looks for the link. *)
LockFile(p, w, f, why, closing) ==
    op' = [op EXCEPT ![p] = [Idle EXCEPT
               !.pc = IF lock[f] = NoLock THEN "symlink" ELSE "readlink",
               !.w = w, !.f = f, !.why = why, !.closing = closing]]

(* What lock_file returned goes to edit->locked or to save_lock. *)
LockDone(p, got) ==
    IF op[p].why = "modify"
    THEN /\ win' = [win EXCEPT ![W(p)] = Changed(W(p), got)]
         /\ op' = [op EXCEPT ![p] = Idle]
    ELSE /\ op' = [op EXCEPT ![p].held = got, ![p].pc = "check"]
         /\ UNCHANGED win

(* A link that vanished since is no reason to try again; a dead holder's   *)
(* link is removed without a question.                                     *)
LockRead(p) ==
    LET holder == lock[op[p].f]
    IN  /\ At(p, "readlink")
        /\ IF holder = NoLock
           THEN LockDone(p, FALSE) /\ shaken' = shaken \cup {op[p].f}
           ELSE Goto(p, IF holder = Dead THEN "unlink" ELSE "ask") /\ UNCHANGED <<win, shaken>>
        /\ UNCHANGED <<disk, lock, used, faults, bare, silent>>

LockAsk(p) ==
    /\ At(p, "ask")
    /\ \/ Goto(p, "unlink") /\ win' = [win EXCEPT ![W(p)].told = TRUE]
       \/ IF op[p].why = "modify"
          THEN /\ win' = [win EXCEPT ![W(p)] = [Changed(W(p), FALSE) EXCEPT !.told = TRUE]]
               /\ op' = [op EXCEPT ![p] = Idle]
          ELSE /\ win' = [win EXCEPT ![W(p)].told = TRUE]
               /\ op' = [op EXCEPT ![p].held = FALSE, ![p].pc = "check"]
    /\ UNCHANGED <<disk, lock, history>>

LockUnlink(p) ==
    LET f == op[p].f
    IN  /\ At(p, "unlink")
        /\ lock' = [lock EXCEPT ![f] = NoLock]
        /\ shaken' = IF lock[f] = NoLock THEN shaken ELSE shaken \cup {f}
        /\ Goto(p, "symlink")
        /\ UNCHANGED <<disk, win, used, faults, bare, silent>>

\* Mutant: the link names the window instead of the process.
LockLinkByWindow(p) ==
    LET f == op[p].f
        free == lock[f] = NoLock
    IN  /\ At(p, "symlink")
        /\ lock' = IF free THEN [lock EXCEPT ![f] = op[p].w] ELSE lock
        /\ shaken' = IF free THEN shaken ELSE shaken \cup {f}
        /\ LockDone(p, free)
        /\ UNCHANGED <<disk, used, faults, bare, silent>>

(* symlink fails when the name has been taken meanwhile. *)
LockLink(p) ==
    LET f == op[p].f
        free == lock[f] = NoLock
    IN  /\ At(p, "symlink")
        /\ lock' = IF free THEN [lock EXCEPT ![f] = p] ELSE lock
        /\ shaken' = IF free THEN shaken ELSE shaken \cup {f}
        /\ LockDone(p, free)
        /\ UNCHANGED <<disk, used, faults, bare, silent>>

-----------------------------------------------------------------------------
(* unlock_file for each name of todo, then what the command does next.     *)

(* edit_close_cmd unlocks, and edit_clean unlocks once more, before the    *)
(* window is gone.                                                         *)
Close(w, yes) ==
    [Idle EXCEPT !.pc = IF win[w].locked THEN "unstat" ELSE "delete", !.w = w, !.closing = yes,
                 !.todo = IF win[w].locked THEN <<win[w].file, win[w].file>> ELSE <<>>,
                 !.then = "delete"]

(* The command once the locks in todo are down. *)
Then(o, todo) ==
    IF todo # <<>> THEN [o EXCEPT !.pc = "unstat", !.todo = todo]
    ELSE IF o.then = "idle" THEN Idle
    ELSE [o EXCEPT !.pc = o.then, !.todo = <<>>]

UnlockStat(p) ==
    LET o == op[p]
    IN  /\ At(p, "unstat")
        /\ op' = [op EXCEPT ![p] = IF lock[Head(o.todo)] = NoLock THEN Then(o, Tail(o.todo))
                                   ELSE [o EXCEPT !.pc = "unread"]]
        /\ UNCHANGED <<disk, lock, win, history>>

(* Only a link that was read is compared: one that vanished is removed.    *)
UnlockRead(p) ==
    LET o == op[p]
    IN  /\ At(p, "unread")
        /\ op' = [op EXCEPT ![p] = IF lock[Head(o.todo)] \in {NoLock, p}
                                   THEN [o EXCEPT !.pc = "remove"] ELSE Then(o, Tail(o.todo))]
        /\ UNCHANGED <<disk, lock, win, history>>

UnlockRemove(p) ==
    LET f == Head(op[p].todo)
    IN  /\ At(p, "remove")
        /\ lock' = [lock EXCEPT ![f] = NoLock]
        /\ shaken' = IF lock[f] \in {NoLock, p} THEN shaken ELSE shaken \cup {f}
        /\ op' = [op EXCEPT ![p] = Then(@, Tail(op[p].todo))]
        /\ UNCHANGED <<disk, win, used, faults, bare, silent>>

-----------------------------------------------------------------------------
(* edit_modification, edit_save_cmd and edit_save_as_cmd.                  *)

Change(w) ==
    LET p == Owner[w]
    IN  /\ Free(w) /\ win[w].file # NoName
        /\ IF ~win[w].modified /\ ~win[w].delete_file
           THEN LockFile(p, w, win[w].file, "modify", FALSE) /\ UNCHANGED win
           ELSE win' = [win EXCEPT ![w] = Changed(w, win[w].locked)] /\ UNCHANGED op
        /\ UNCHANGED <<disk, lock>>

SaveStart(p, w, f, why, closing) ==
    IF ~win[w].locked /\ ~win[w].delete_file
    THEN LockFile(p, w, f, why, closing)
    ELSE op' = [op EXCEPT ![p] = [Idle EXCEPT !.pc = "check", !.w = w, !.f = f, !.why = why,
                                              !.closing = closing]]

Save(w) ==
    LET p == Owner[w]
    IN  /\ Free(w) /\ win[w].file # NoName
        /\ SaveStart(p, w, win[w].file, "save", FALSE)
        /\ UNCHANGED <<disk, lock, win>>

(* The user names a file, or gives up; a name in use is asked about.       *)
SaveAs(p) ==
    LET w == W(p)
    IN  /\ At(p, "saveas")
        /\ \/ /\ op' = [op EXCEPT ![p] = Idle]
              /\ UNCHANGED win
           \/ /\ SaveStart(p, w, win[w].file, "saveas", op[p].closing)
              /\ UNCHANGED win
           \/ \E f \in Names \ {win[w].file} :
                /\ LockFile(p, w, f, "saveas", op[p].closing)
                /\ win' = IF dir[f] = 0 THEN win ELSE [win EXCEPT ![w].told = TRUE]
        /\ UNCHANGED <<disk, lock, history>>

SaveAsCmd(w) ==
    LET p == Owner[w]
    IN  /\ Free(w) /\ win[w].file # NoName
        /\ op' = [op EXCEPT ![p] = [Idle EXCEPT !.pc = "saveas", !.w = w]]
        /\ UNCHANGED <<disk, lock, win>>

\* Mutant: a save gives the lock up and goes on believing in it.
SaveDoneKeepsLocked(p, res, stat) ==
    LET o == op[p]
        d == Win(p)
        mine == IF d.locked THEN <<d.file>> ELSE <<>>
        saved == [d EXCEPT !.file = o.f, !.modified = FALSE, !.stat = stat, !.told = FALSE]
    IN  /\ op' = [op EXCEPT ![p] = Then([o EXCEPT !.then = "idle", !.ino = 0], mine)]
        /\ win' = [win EXCEPT ![o.w] = IF res = 1 THEN saved ELSE [d EXCEPT !.stat = stat]]

\* Mutant: a save that failed asks for another name, save-as included.
SaveDoneAsksAgain(p, res, stat) ==
    LET o == op[p]
        held == IF o.held THEN <<o.f>> ELSE <<>>
        saved == [Win(p) EXCEPT !.file = o.f, !.modified = FALSE, !.locked = FALSE, !.stat = stat]
    IN  /\ op' = [op EXCEPT ![p] = IF res = 1 THEN Idle
                                   ELSE Then([o EXCEPT !.then = "saveas", !.ino = 0], held)]
        /\ win' = [win EXCEPT ![o.w] = IF res = 1 THEN saved ELSE Win(p)]

(* What edit_save_file returned: 1 saved, 0 failed, -1 refused by the user *)
(* - which edit_save_cmd takes for success.                                *)
SaveDone(p, res, stat) ==
    LET o == op[p]
        d == Win(p)
        held == IF o.held THEN <<o.f>> ELSE <<>>
        mine == IF d.locked THEN <<d.file>> ELSE <<>>
        todo == IF res # 1 THEN held
                ELSE IF o.f # d.file THEN held \o mine
                ELSE IF d.locked THEN mine ELSE held
        then == IF res # 1 /\ o.why = "saveas" THEN "idle"
                ELSE IF res = 0 THEN "saveas"
                ELSE IF o.closing THEN "close" ELSE "idle"
        saved == [d EXCEPT !.file = o.f, !.modified = FALSE, !.locked = FALSE,
                           !.delete_file = FALSE, !.told = FALSE, !.stat = stat]
    IN  /\ op' = [op EXCEPT ![p] = Then([o EXCEPT !.then = then, !.ino = 0], todo)]
        /\ win' = [win EXCEPT ![o.w] = IF res = 1 THEN saved ELSE [d EXCEPT !.stat = stat]]
Failed(p) == SaveDone(p, 0, Win(p).stat)
Fault == faults < MaxFaults /\ faults' = faults + 1

-----------------------------------------------------------------------------
(* edit_save_file.                                                         *)

\* Mutant: the time stamp is not compared.
StaleNever(p) == FALSE

Stale(p) ==
    LET i == dir[op[p].f]
    IN  i # 0 /\ Win(p).stat # 0 /\ Win(p).stat # inode[i].time

SaveCheck(p) ==
    /\ At(p, "check")
    /\ op' = [op EXCEPT ![p].mode = IF dir[op[p].f] = 0 THEN "quick" ELSE Mode[p],
                        ![p].pc = IF Stale(p) THEN "confirm" ELSE "create"]
    /\ UNCHANGED <<disk, lock, win, history>>

SaveConfirm(p) ==
    /\ At(p, "confirm")
    /\ \/ Goto(p, "create") /\ win' = [win EXCEPT ![W(p)].told = TRUE]
       \/ SaveDone(p, -1, Win(p).stat)
    /\ UNCHANGED <<disk, lock, history>>

(* What is overwritten when name f loses inode i. *)
Overwrite(p, f, i) ==
    /\ bare' = IF lock[f] = p THEN bare ELSE bare \cup {f}
    /\ silent' = (silent \/ (~Win(p).told /\ i # 0 /\ ~(inode[i].data \subseteq Win(p).buf)))

\* Mutant: every save truncates the file where it is.
SaveCreateInPlace(p) ==
    LET f == op[p].f
        i == IF dir[f] # 0 THEN dir[f] ELSE FreeInode
    IN  /\ At(p, "create")
        /\ op' = [op EXCEPT ![p].pc = "write", ![p].ino = i]
        /\ \E t \in NextStamps(f) :
             inode' = [inode EXCEPT ![i] = [data |-> {}, time |-> t, torn |-> TRUE]]
        /\ dir' = [dir EXCEPT ![f] = i]
        /\ UNCHANGED <<bak, lock, win, history>>

(* A quick save truncates the file where it is; the others take a new one. *)
SaveCreate(p) ==
    LET f == op[p].f
        quick == op[p].mode = "quick"
        i == IF quick /\ dir[f] # 0 THEN dir[f] ELSE FreeInode
    IN  /\ At(p, "create")
        /\ \/ /\ op' = [op EXCEPT ![p].pc = "write", ![p].ino = i]
              /\ \E t \in NextStamps(f) :
                   inode' = [inode EXCEPT ![i] = [data |-> {}, time |-> t, torn |-> TRUE]]
              /\ dir' = IF quick THEN [dir EXCEPT ![f] = i] ELSE dir
              /\ IF quick THEN Overwrite(p, f, dir[f]) ELSE UNCHANGED <<bare, silent>>
              /\ UNCHANGED <<win, faults>>
           \/ Fault /\ Failed(p) /\ UNCHANGED <<dir, inode, bare, silent>>
        /\ UNCHANGED <<bak, lock, used, shaken>>

(* Writing may stop short; the text then stays as it is, in a quick save   *)
(* under the file's own name.  The other saves look at the time stamp of a *)
(* temporary file that nobody else knows.                                  *)
SaveWrite(p) ==
    LET i == op[p].ino
    IN  /\ At(p, "write")
        /\ \/ \E t \in {FreshStamp} \cup IF FineClock THEN {} ELSE {inode[i].time} :
                /\ Goto(p, CASE op[p].mode = "quick"  -> "restat"
                             [] op[p].mode = "safe"   -> "rename"
                             [] op[p].mode = "backup" -> "backup")
                /\ win' = IF op[p].mode = "quick" THEN win ELSE [win EXCEPT ![W(p)].stat = t]
                /\ SetDisk(dir, bak, [inode EXCEPT ![i] = [data |-> Win(p).buf, time |-> t,
                                                            torn |-> FALSE]])
                /\ UNCHANGED faults
           \/ Fault /\ Failed(p) /\ SetDisk(dir, bak, inode)
        /\ UNCHANGED <<lock, used, shaken, bare, silent>>

(* mc_stat goes by name: it may find what somebody else has put there.     *)
SaveRestat(p) ==
    LET i == dir[op[p].f]
    IN  /\ At(p, "restat")
        /\ IF i = 0 THEN Failed(p) ELSE SaveDone(p, 1, inode[i].time)
        /\ UNCHANGED <<disk, lock, history>>

SaveBackup(p) ==
    LET f == op[p].f
    IN  /\ At(p, "backup")
        /\ \/ /\ dir[f] # 0
              /\ Overwrite(p, f, dir[f])
              /\ Goto(p, "rename") /\ UNCHANGED win
              /\ SetDisk([dir EXCEPT ![f] = 0], [bak EXCEPT ![f] = dir[f]], inode)
              /\ UNCHANGED faults
           \/ /\ IF dir[f] = 0 THEN UNCHANGED faults ELSE Fault
              /\ Failed(p) /\ SetDisk(dir, bak, inode) /\ UNCHANGED <<bare, silent>>
        /\ UNCHANGED <<lock, used, shaken>>

SaveRename(p) ==
    LET f == op[p].f
    IN  /\ At(p, "rename")
        /\ \/ /\ Overwrite(p, f, dir[f])
              /\ SaveDone(p, 1, Win(p).stat)
              /\ SetDisk([dir EXCEPT ![f] = op[p].ino], bak, inode)
              /\ UNCHANGED faults
           \/ Fault /\ Failed(p) /\ SetDisk(dir, bak, inode) /\ UNCHANGED <<bare, silent>>
        /\ UNCHANGED <<lock, used, shaken>>

-----------------------------------------------------------------------------
(* edit_ok_to_exit, edit_close_cmd and edit_clean; and a killed process.   *)

CloseCmd(w) ==
    LET p == Owner[w]
    IN  /\ Free(w) /\ win[w].file # NoName
        /\ \/ op' = [op EXCEPT ![p] = Close(w, FALSE)]
           \/ win[w].modified /\ SaveStart(p, w, win[w].file, "save", TRUE)
        /\ UNCHANGED <<disk, lock, win>>

(* A window whose changes the user wanted saved, after the save. *)
SaveClose(p) ==
    /\ At(p, "close")
    /\ op' = [op EXCEPT ![p] = Close(W(p), TRUE)]
    /\ UNCHANGED <<disk, lock, win, history>>

(* A file this window created, and did not save, goes with the window.     *)
CloseDelete(p) ==
    LET w == Win(p)
    IN  /\ At(p, "delete")
        /\ win' = [win EXCEPT ![W(p)] = Closed]
        /\ op' = [op EXCEPT ![p] = Idle]
        /\ SetDisk(IF w.delete_file THEN [dir EXCEPT ![w.file] = 0] ELSE dir, bak, inode)
        /\ UNCHANGED <<lock, history>>

Crash(p) ==
    /\ Fault
    /\ op' = [op EXCEPT ![p] = Idle]
    /\ win' = [w \in Windows |-> IF Owner[w] = p THEN Closed ELSE win[w]]
    /\ lock' = [f \in Names |-> IF lock[f] = p THEN Dead ELSE lock[f]]
    /\ SetDisk(dir, bak, inode)
    /\ UNCHANGED <<used, shaken, bare, silent>>

-----------------------------------------------------------------------------
LockStep(p) == \/ LockRead(p) \/ LockAsk(p) \/ LockUnlink(p) \/ LockLink(p)
UnlockStep(p) == \/ UnlockStat(p) \/ UnlockRead(p) \/ UnlockRemove(p)
SaveStep(p) == \/ SaveCheck(p) \/ SaveConfirm(p) \/ SaveCreate(p)
               \/ SaveWrite(p) \/ SaveRestat(p) \/ SaveBackup(p) \/ SaveRename(p)
               \/ SaveAs(p) \/ SaveClose(p)
Step(p) == \/ Read(p) \/ LockStep(p) \/ UnlockStep(p) \/ SaveStep(p) \/ CloseDelete(p)
Command(w) == /\ \/ Change(w) \/ Save(w) \/ SaveAsCmd(w) \/ CloseCmd(w)
                 \/ \E f \in Names : Open(w, f)
              /\ used' = [used EXCEPT ![w] = @ + 1]
              /\ UNCHANGED <<faults, shaken, bare, silent>>

Next == \/ \E w \in Windows : Command(w)
        \/ \E p \in Procs : Step(p) \/ Crash(p)

Spec == Init /\ [][Next]_vars /\ \A p \in Procs : WF_vars(Step(p))

-----------------------------------------------------------------------------
(* Properties.                                                             *)

Pcs == {"idle", "read", "readlink", "ask", "unlink", "symlink", "check",
        "confirm", "create", "write", "restat", "backup", "rename", "saveas", "close",
        "unstat", "unread", "remove", "delete"}

TypeOK ==
    /\ dir \in [Names -> Inodes \cup {0}] /\ bak \in [Names -> Inodes \cup {0}]
    /\ inode \in [Inodes -> [data : SUBSET Edits, time : Stamps, torn : BOOLEAN]]
    /\ lock \in [Names -> Procs \cup {NoLock, Dead}]
    /\ win \in [Windows ->
         [file : Names \cup {NoName}, buf : SUBSET Edits,
          modified : BOOLEAN, locked : BOOLEAN, stat : Stamps \cup {0},
          delete_file : BOOLEAN, told : BOOLEAN]]
    /\ \A p \in Procs : op[p].pc \in Pcs /\ (op[p].pc # "idle" => Owner[W(p)] = p)
    /\ (\A w \in Windows : used[w] \in 0..Budget[w]) /\ faults \in 0..MaxFaults
    /\ shaken \subseteq Names /\ bare \subseteq Names /\ silent \in BOOLEAN

(* A window that believes it holds the lock of its file does hold it, and  *)
(* no window of another process believes so too, as long as nobody took a  *)
(* link away or was refused one without a question.                        *)
Closing(w) == op[Owner[w]].w = w /\ op[Owner[w]].then = "delete"
LockIsOwn ==
    \A w \in Windows :
        win[w].locked /\ win[w].file \notin shaken /\ ~Closing(w)
            => lock[win[w].file] = Owner[w]

(* With distinct time stamps, nobody's text is overwritten by a user who   *)
(* was not asked, unless a link was taken away before or a name was        *)
(* written without its link.                                               *)
NoSilentOverwrite == FineClock /\ silent => shaken \cup bare # {}

(* A save that is not a quick one leaves, after each of its steps and so   *)
(* after a kill, the complete text that a name had before: under the name  *)
(* or under its backup, or the new one in its place.                       *)
TextKept ==
    [][\A p \in Procs, f \in Names :
          /\ op'[p] # op[p] /\ op[p].mode # "quick" /\ faults' = faults
          /\ dir[f] # 0 /\ ~inode[dir[f]].torn
          => \/ dir'[f] = dir[f] /\ inode'[dir[f]] = inode[dir[f]]
             \/ dir'[f] = 0 /\ bak'[f] = dir[f]
             \/ dir'[f] # 0 /\ ~inode'[dir'[f]].torn /\ inode'[dir'[f]].data = Win(p).buf]_vars

(* A command comes to its end whatever the user answers and whatever other *)
(* processes do with the same link.                                        *)
CommandsEnd == \A p \in Procs : ~At(p, "idle") ~> At(p, "idle")

(* A window is closed with its changes unsaved only if the user has not    *)
(* asked to save them.                                                     *)
YesMeansSaved ==
    \A p \in Procs : At(p, "delete") /\ op[p].closing => ~Win(p).modified

(* A window deletes the file that it created only while it is empty.       *)
DeletesOnlyEmpty ==
    \A p \in Procs : At(p, "delete") /\ Win(p).delete_file /\ dir[Win(p).file] # 0
        => inode[dir[Win(p).file]].data = {}
=============================================================================
