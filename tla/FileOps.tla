------------------------------ MODULE FileOps ------------------------------
(***************************************************************************)
(* Copying and moving files (filemanager/file.c): copy_file_file,          *)
(* move_file_file, the copy of a directory that is moved to another file   *)
(* system and the removal of its sources at the end, hard links, and the   *)
(* loop over the marked files.  System calls may fail, the user answers    *)
(* each error dialog and each question about a target, presses a button of *)
(* the progress dialog, and another program may make a target.  Every      *)
(* state is one in which the process may be killed.                        *)
(*                                                                         *)
(* A file is a sequence of blocks, of which each is read and written at    *)
(* once; block 0 of a name is the target it had, the last one that of the  *)
(* other program.  The directory that is moved is flat.  Left out:         *)
(* symbolic links, special files, attributes but for the dialogs about     *)
(* them, the totals, and targets that are hard links of each other.        *)
(***************************************************************************)
EXTENDS Integers, Sequences, FiniteSets

CONSTANTS
    Names,          \* the files, in the order in which they are listed
    Linked,         \* the files that are one inode
    FileLen,        \* bound: blocks of a file
    Budgets,        \* bounds: how many system calls fail, buttons of the progress
                    \* dialog are pressed and targets are made by another program
    None

Refusals == {"skip", "skipall", "abort"}
Replaces == {"yes", "no", "append", "reget", "all", "none", "update"}
\* What a target may hold: its old text or a stranger's, with a whole file after it.
Texts == UNION {[1..k -> Names \X (0..FileLen + 1)] : k \in 0..FileLen + 1}

Constants ==
    /\ IsFiniteSet(Names) /\ Names = 1..Cardinality(Names) /\ Linked \subseteq Names
    /\ FileLen \in Nat \ {0}
    /\ Budgets \subseteq [faults : Nat, presses : Nat, others : Nat]
    /\ None \notin Names \cup Texts \cup Replaces \cup {"again"}

VARIABLES
    op,         \* "copy" or "move" of marked files, or "dir": a directory moved away
    sameFs,     \* the target is on the same file system
    budget,     \* the bounds of this behaviour
    src,        \* the source files there are
    dst,        \* the text of each target, or None
    ctx,        \* file_op_context_t
    linklist,   \* the name each inode was first copied under
    job,        \* the locals of the call under way
    eraseList,  \* erase_list
    marked,     \* the files still marked in the panel
    faults, presses, others,
    (* History. *)
    first,      \* the text each target had before the operation touched it
    answer,     \* the user's answer about each target, or "again": nobody was asked
                \* about it, a Reget given for an earlier one was taken once more
    spoilt,     \* files an error of which was passed over, and targets given up
    leftover    \* when the call began an append was still to be made: the target it was
                \* asked for was never opened

vars == <<op, sameFs, budget, src, dst, ctx, linklist, job, eraseList, marked, faults, presses,
          others, first, answer, spoilt, leftover>>
plan == <<op, sameFs, budget>>
counts == <<faults, presses, others>>
history == <<first, answer, spoilt, leftover>>

Inode(n) == IF n \in Linked THEN CHOOSE l \in Linked : \A k \in Linked : l <= k ELSE n
Whole(n) == [i \in 1..FileLen |-> <<Inode(n), i>>]
Old(n) == <<<<n, 0>>>>
Foreign(n) == <<<<n, FileLen + 1>>>>
IsPrefixOf(s, t) == Len(s) <= Len(t) /\ SubSeq(t, 1, Len(s)) = s

Idle == [at |-> "next", f |-> 0, rs |-> "cont", exists |-> FALSE, appending |-> FALSE,
         status |-> "none", pos |-> 0, reads |-> FALSE, writes |-> FALSE]

Init ==
    /\ op \in {"copy", "move", "dir"}
    /\ sameFs \in IF op = "dir" THEN {FALSE} ELSE BOOLEAN
    /\ budget \in Budgets /\ src = Names
    /\ \E T \in SUBSET Names : dst = [n \in Names |-> IF n \in T THEN Old(n) ELSE None]
    /\ ctx = [skipAll |-> FALSE, doAppend |-> FALSE, reget |-> 1, replace |-> "yes"]
    /\ linklist = [n \in Names |-> None] /\ eraseList = <<>> /\ marked = Names
    /\ job = Idle /\ faults = 0 /\ presses = 0 /\ others = 0
    /\ first = dst /\ answer = [n \in Names |-> None] /\ spoilt = {} /\ leftover = FALSE

---------------------------------------------------------------------------
(* What may come from outside. *)

Works == UNCHANGED faults
Fails == faults < budget.faults /\ faults' = faults + 1

\* check_progress_buttons.
Button(r) ==
    \/ r = "cont" /\ UNCHANGED presses
    \/ r \in {"skip", "abort"} /\ presses < budget.presses /\ presses' = presses + 1

\* file_error, and what is made of a failure without it under skip_all: what is
\* returned, other than "retry".
Refused(a) == a \in IF ctx.skipAll THEN {"skipall"} ELSE Refusals
SkipAll(a) == ctx.skipAll \/ a = "skipall"

\* The dialog's Retry: the call is made again.
Retry ==
    /\ Fails /\ ~ctx.skipAll
    /\ UNCHANGED <<src, dst, ctx, linklist, job, eraseList, marked, presses, history>>

\* file_progress_real_query_replace and the dialog: each choice with what it returns.
ReplaceChoices(n) ==
    LET asked == IF ctx.replace \in {"yes", "no", "append"}
                     THEN (Replaces \ {"reget"}) \cup {"abort"}
                          \cup (IF op = "copy" /\ dst[n] # <<>> /\ Len(dst[n]) < FileLen
                                    THEN {"reget"} ELSE {})
                     ELSE {ctx.replace}
    IN  {[by |-> b, rs |-> IF b = "abort" THEN "abort"
                           ELSE IF b \in {"no", "none"} THEN "skip" ELSE "cont"] : b \in asked}
        \cup {[by |-> b, rs |-> "skip"] : b \in asked \cap {"update"}}

\* replace_result is kept and asked for again only after Yes, No and Append: of what is
\* kept the buttons below "Overwrite all files?" are an answer about every target, but
\* Reget is one of those below "Overwrite this file?".
Said(c) ==
    IF c.rs # "cont" THEN None
    ELSE IF c.by = "reget" /\ ctx.replace = "reget" THEN "again" ELSE c.by

\* query_replace about the target of n, and the flags it leaves in ctx.
Query(n, c, reget) ==
    /\ ctx' = [ctx EXCEPT !.replace = IF c.by = "abort" THEN @ ELSE c.by,
                          !.doAppend = @ \/ c.by \in {"append", "reget"},
                          !.reget = IF c.by = "reget" THEN Len(dst[n]) ELSE reget]
    /\ answer' = [answer EXCEPT ![n] = Said(c)]

Go(at) == job' = [job EXCEPT !.at = at]
Return(at, rs) == job' = [job EXCEPT !.at = at, !.rs = rs]

---------------------------------------------------------------------------
(* The loop over the entries. *)

\* The next entry of panel_operate's loop, or of the directory copy_dir_dir reads.
NextFile ==
    /\ job.at = "next" /\ job.f < Cardinality(Names) /\ job.rs # "abort"
    /\ job' = [Idle EXCEPT !.at = IF op = "move" THEN "move" ELSE "look", !.f = job.f + 1]
    /\ leftover' = ctx.doAppend
    /\ UNCHANGED <<src, dst, ctx, linklist, eraseList, marked, counts, first, answer, spoilt>>

\* Mutant: whatever was not given up is unmarked.
UnmarkUnlessAbort(rs) == IF rs # "abort" THEN marked \ {job.f} ELSE marked

\* do_file_mark after operate_one_file.
Unmark(rs) == IF rs = "cont" THEN marked \ {job.f} ELSE marked

\* operate_one_file has returned: abort, unmark, look at the buttons.
OneFileDone ==
    /\ op # "dir" /\ job.at = IF op = "copy" THEN "returned" ELSE "moved"
    /\ marked' = Unmark(job.rs)
    /\ \/ job.rs = "abort" /\ UNCHANGED presses /\ Return("end", "abort")
       \/ \E r \in {"cont", "skip", "abort"} :
            /\ job.rs # "abort" /\ Button(r)
            /\ Return(IF r = "abort" THEN "end" ELSE "next", job.rs)
    /\ UNCHANGED <<src, dst, ctx, linklist, eraseList, faults, others, history>>

\* The loop over the marked files is at its end.
AllDone ==
    /\ op # "dir" /\ job.at = "next" /\ job.f = Cardinality(Names)
    /\ Go("end")
    /\ UNCHANGED <<src, dst, ctx, linklist, eraseList, marked, counts, history>>

\* Mutant: an entry of the list of sources to erase is made in two places.
ChildDoneTwice ==
    /\ op = "dir" /\ job.at = "returned"
    /\ eraseList' = eraseList \o <<job.f, job.f>>
    /\ Go("next")
    /\ UNCHANGED <<src, dst, ctx, linklist, marked, counts, history>>

\* Mutant: what copy_file_file returned is not looked at.
ChildDoneAnyhow ==
    /\ op = "dir" /\ job.at = "returned"
    /\ eraseList' = Append(eraseList, job.f)
    /\ Go("next")
    /\ UNCHANGED <<src, dst, ctx, linklist, marked, counts, history>>

\* copy_dir_dir after a file: what was copied is erased at the end.
ChildDone ==
    /\ op = "dir" /\ job.at = "returned"
    /\ eraseList' = IF job.rs = "cont" THEN Append(eraseList, job.f) ELSE eraseList
    /\ Go("next")
    /\ UNCHANGED <<src, dst, ctx, linklist, marked, counts, history>>

\* copy_dir_dir returns what its last file returned; do_move_dir_dir erases the
\* sources only after FILE_CONT, the buttons included, and forgets the list otherwise.
DirCopied ==
    /\ op = "dir" /\ job.at = "next" /\ (job.f = Cardinality(Names) \/ job.rs = "abort")
    /\ \/ job.rs # "cont" /\ UNCHANGED presses /\ eraseList' = <<>> /\ Go("end")
       \/ \E r \in {"cont", "skip", "abort"} :
            /\ job.rs = "cont" /\ Button(r)
            /\ eraseList' = IF r = "cont" THEN eraseList ELSE <<>>
            /\ Return(IF r = "cont" THEN "erase" ELSE "end", r)
    /\ UNCHANGED <<src, dst, ctx, linklist, marked, faults, others, history>>

\* erase_dir_after_copy, one entry: erase_file with try_remove_file.
EraseNext ==
    /\ job.at = "erase" /\ eraseList # <<>> /\ job.rs # "abort"
    /\ \/ Works /\ Button("abort") /\ Return("erase", "abort") /\ UNCHANGED <<src, ctx>>
       \/ \E r \in {"skip", "cont", "abort"} :
            /\ Works /\ Button(r)
            /\ src' = src \ {Head(eraseList)}
            /\ Return("erase", r) /\ UNCHANGED ctx
       \/ \E a \in Refusals, r \in {"skip", "cont", "abort"} :
            /\ Fails /\ Refused(a) /\ UNCHANGED src
            /\ a = "abort" => r = "cont"
            /\ Button(r) /\ ctx' = [ctx EXCEPT !.skipAll = SkipAll(a)]
            /\ Return("erase", IF a = "abort" THEN a ELSE r)
    /\ eraseList' = Tail(eraseList)
    /\ UNCHANGED <<dst, linklist, marked, others, history>>

\* The list is empty or the user gave up; unmark_files after FILE_CONT.
DirMoved ==
    /\ job.at = "erase" /\ (eraseList = <<>> \/ job.rs = "abort")
    /\ marked' = IF job.rs = "cont" THEN {} ELSE marked
    /\ eraseList' = <<>> /\ Go("end")
    /\ UNCHANGED <<src, dst, ctx, linklist, counts, history>>

---------------------------------------------------------------------------
(* move_file_file. *)

\* The buttons, lstat of both files, the question, and rename.
Renamed(n) ==
    /\ src' = src \ {n} /\ dst' = [dst EXCEPT ![n] = Whole(n)]
    /\ \E r \in {"cont", "skip", "abort"} : Button(r) /\ Return("moved", r)

Rename(n, append) ==
    \/ Works /\ sameFs /\ ~append /\ Renamed(n)
    \/ /\ IF sameFs /\ ~append THEN Fails ELSE Works
       /\ Button("cont") /\ Go("look") /\ UNCHANGED <<src, dst>>

MoveFile ==
    /\ job.at = "move" /\ UNCHANGED <<linklist, eraseList, marked, others, first, spoilt, leftover>>
    /\ \/ /\ Button("abort") /\ Works
          /\ Return("moved", "abort") /\ UNCHANGED <<src, dst, ctx, answer>>
       \/ /\ dst[job.f] = None
          /\ Rename(job.f, ctx.doAppend) /\ UNCHANGED <<ctx, answer>>
       \/ /\ dst[job.f] # None
          /\ \E c \in ReplaceChoices(job.f) :
                /\ Query(job.f, c, ctx.reget)
                /\ IF c.rs = "cont" THEN Rename(job.f, ctx'.doAppend)
                   ELSE /\ Button("cont") /\ Works
                        /\ Return("moved", c.rs) /\ UNCHANGED <<src, dst>>
       \/ \E a \in Refusals :
            /\ Button("cont") /\ Fails /\ Refused(a)
            /\ ctx' = [ctx EXCEPT !.skipAll = SkipAll(a)]
            /\ Return("moved", a) /\ UNCHANGED <<src, dst, answer>>

\* After copy_file_file: the source goes only after FILE_CONT, the buttons included.
MoveCopied ==
    /\ op = "move" /\ job.at = "returned"
    /\ \/ job.rs # "cont" /\ Go("moved") /\ UNCHANGED presses
       \/ \E r \in {"cont", "skip", "abort"} :
            /\ job.rs = "cont" /\ Button(r)
            /\ Return(IF r = "cont" THEN "remove" ELSE "moved", r)
    /\ UNCHANGED <<src, dst, ctx, linklist, eraseList, marked, faults, others, history>>

\* try_remove_file.
RemoveSource ==
    /\ job.at = "remove"
    /\ \/ Works /\ src' = src \ {job.f} /\ Return("moved", "cont") /\ UNCHANGED ctx
       \/ Fails /\ ctx.skipAll /\ Return("moved", "cont") /\ UNCHANGED <<src, ctx>>
       \/ \E a \in Refusals :
            /\ Fails /\ ~ctx.skipAll
            /\ ctx' = [ctx EXCEPT !.skipAll = SkipAll(a)]
            /\ Return("moved", a) /\ UNCHANGED src
    /\ UNCHANGED <<dst, linklist, eraseList, marked, presses, others, history>>

---------------------------------------------------------------------------
(* copy_file_file. *)

\* The start: buttons, stat of the target, stat of the source, the question.
Examine ==
    /\ job.at = "look"
    /\ UNCHANGED <<src, dst, linklist, eraseList, marked, others, first, spoilt, leftover>>
    /\ \/ Button("abort") /\ Works /\ Return("returned", "abort")
          /\ ctx' = [ctx EXCEPT !.reget = 0] /\ UNCHANGED answer
       \/ \E a \in Refusals :
            /\ Button("cont") /\ Fails /\ Refused(a)
            /\ ctx' = [ctx EXCEPT !.reget = 0, !.skipAll = SkipAll(a)]
            /\ Return("returned", a) /\ UNCHANGED answer
       \/ /\ Button("cont") /\ Works /\ (dst[job.f] = None \/ op = "move")
          /\ ctx' = [ctx EXCEPT !.reget = 0]
          /\ job' = [job EXCEPT !.at = "links", !.rs = "retry", !.exists = dst[job.f] # None]
          /\ UNCHANGED answer
       \/ /\ Button("cont") /\ Works /\ dst[job.f] # None /\ op # "move"
          /\ \E c \in ReplaceChoices(job.f) :
                /\ Query(job.f, c, 0)
                /\ job' = [job EXCEPT !.at = IF c.rs = "cont" THEN "links" ELSE "returned",
                                      !.rs = c.rs, !.exists = TRUE]

\* check_hardlinks: the first name of an inode is copied, the others are linked to
\* its target; where that fails they are copied too.
Links ==
    LET n == job.f
        known == linklist[Inode(n)]
        several == Cardinality({m \in src : Inode(m) = Inode(n)}) >= 2
        Copied == Go("open") /\ UNCHANGED <<dst, ctx>>
    IN
    /\ job.at = "links" /\ UNCHANGED <<src, eraseList, marked, presses, others, history>>
    /\ \/ (ctx.doAppend \/ ~several) /\ Works /\ Copied /\ UNCHANGED linklist
       \/ /\ ~ctx.doAppend /\ several /\ known = None
          /\ linklist' = [linklist EXCEPT ![Inode(n)] = n]
          /\ Works /\ Copied
       \/ /\ ~ctx.doAppend /\ several /\ known # None /\ UNCHANGED linklist
          /\ \/ /\ Works /\ known \in src /\ dst[known] # None /\ dst[n] = None
                /\ dst' = [dst EXCEPT ![n] = dst[known]]
                /\ Return("returned", "cont") /\ UNCHANGED ctx
             \/ /\ IF known \in src /\ dst[known] # None /\ dst[n] = None THEN Fails ELSE Works
                /\ UNCHANGED dst
                /\ \E a \in Refusals :
                     /\ Refused(a)
                     /\ ctx' = [ctx EXCEPT !.skipAll = SkipAll(a)]
                     /\ IF a = "abort" THEN Return("returned", "abort") ELSE Go("open")

\* Opening the source, lseek for a reget, fstat.
OpenSource ==
    /\ job.at = "open"
    /\ UNCHANGED <<src, dst, linklist, eraseList, marked, presses, others, first, answer, leftover>>
    /\ \/ /\ Works /\ UNCHANGED <<ctx, spoilt>>
          /\ job' = [job EXCEPT !.at = "create", !.reads = TRUE]
       \* lseek fails: "Reget failed, about to overwrite file".
       \/ /\ Fails /\ ctx.reget # 0 /\ spoilt' = spoilt \cup {job.f}
          /\ ctx' = [ctx EXCEPT !.reget = 0, !.doAppend = FALSE]
          /\ job' = [job EXCEPT !.at = "create", !.reads = TRUE]
       \* fstat fails; or open failed and fstat of -1 fails then.
       \/ \E a \in Refusals, opened \in BOOLEAN :
            /\ Fails /\ Refused(a) /\ UNCHANGED spoilt
            /\ ctx' = [ctx EXCEPT !.skipAll = SkipAll(a),
                                  !.doAppend = ctx.skipAll /\ (opened \/ ctx.reget = 0) /\ @,
                                  !.reget = IF opened THEN @ ELSE 0]
            /\ job' = [job EXCEPT !.at = "close", !.rs = a, !.reads = opened]
       \* open fails and the answer is not to go on to the fstat.
       \/ \E a \in {"skipall", "abort"} :
            /\ Fails /\ ~ctx.skipAll /\ UNCHANGED spoilt
            /\ ctx' = [ctx EXCEPT !.skipAll = SkipAll(a), !.doAppend = FALSE]
            /\ Return("returned", a)

\* An append is for one file.
Forget(c) == [c EXCEPT !.doAppend = FALSE]

\* The target is open: what is in it, and the ways from there.
Opened(n) ==
    LET begun == [job EXCEPT !.at = "copy", !.status = "short", !.appending = ctx.doAppend,
                             !.writes = TRUE, !.pos = ctx.reget]
        empty == [dst EXCEPT ![n] = IF ctx.doAppend /\ @ # None THEN @ ELSE <<>>]
        forgets == Forget(ctx)
    IN
    \* vfs_clone_file.
    \/ /\ Works /\ sameFs /\ ~ctx.doAppend /\ UNCHANGED <<presses, spoilt>>
       /\ ctx' = forgets /\ dst' = [dst EXCEPT ![n] = Whole(n)]
       /\ job' = [begun EXCEPT !.at = "close", !.status = "full", !.rs = "cont"]
    \* fstat of the target fails.
    \/ \E a \in Refusals :
         /\ Fails /\ Refused(a) /\ UNCHANGED <<presses, spoilt>>
         /\ ctx' = [forgets EXCEPT !.skipAll = SkipAll(a)] /\ dst' = empty
         /\ job' = [begun EXCEPT !.at = "close", !.rs = a]
    \* vfs_preallocate fails, and the user aborts: the target goes, whatever was in it.
    \/ /\ Fails /\ ~ctx.skipAll /\ UNCHANGED presses
       /\ ctx' = forgets /\ dst' = [dst EXCEPT ![n] = None] /\ spoilt' = spoilt \cup {n}
       /\ job' = [begun EXCEPT !.at = "close", !.rs = "abort", !.status = "none", !.writes = FALSE]
    \* All is well, or the failure of vfs_preallocate is passed over.
    \/ \E a \in {"none", "skip", "skipall"}, r \in {"cont", "skip", "abort"} :
         /\ IF a = "none" THEN Works ELSE Fails
         /\ Button(r) /\ UNCHANGED spoilt
         /\ ctx' = [forgets EXCEPT !.skipAll = SkipAll(a)] /\ dst' = empty
         /\ job' = [begun EXCEPT !.at = IF r = "cont" THEN "copy" ELSE "close", !.rs = r]

\* Mutant: O_CREAT without O_EXCL.
Appeared(n) == FALSE

\* O_EXCL where stat found no target: EEXIST.
Exists(n) == ~job.exists /\ dst[n] # None

\* Opening the target: O_EXCL where stat found none, O_APPEND or O_TRUNC otherwise.
OpenTarget ==
    LET n == job.f
    IN
    /\ job.at = "create"
    /\ UNCHANGED <<src, linklist, eraseList, marked, others, first, answer, leftover>>
    /\ \/ ~Exists(n) /\ Opened(n)
       \* EEXIST: somebody made it in between; what is returned stays what it was.
       \/ /\ Exists(n) /\ Works
          /\ Go("close") /\ UNCHANGED <<dst, ctx, presses, spoilt>>
       \/ \E a \in Refusals :
            /\ Fails /\ Refused(a) /\ UNCHANGED <<dst, presses, spoilt>>
            /\ ctx' = [ctx EXCEPT !.skipAll = SkipAll(a), !.doAppend = ctx.skipAll /\ @]
            /\ Return("close", a)

\* One block is read and written.
CopyBlock ==
    LET n == job.f
        block == Whole(n)[job.pos + 1]
        Then(r) == job' = [job EXCEPT !.at = IF r = "cont" THEN "copy" ELSE "close",
                                      !.rs = r, !.pos = @ + 1]
    IN
    /\ job.at = "copy" /\ job.pos < FileLen
    /\ \/ \E r \in {"cont", "skip", "abort"} :
            /\ Works /\ Button(r) /\ Then(r)
            /\ dst' = [dst EXCEPT ![n] = Append(@, block)] /\ UNCHANGED <<ctx, spoilt>>
       \* Reading fails.
       \/ \E a \in Refusals :
            /\ Fails /\ ~ctx.skipAll /\ UNCHANGED <<dst, presses, spoilt>>
            /\ ctx' = [ctx EXCEPT !.skipAll = SkipAll(a)] /\ Return("close", a)
       \* Reading fails under skip_all: round again, as long as nobody presses a button.
       \/ \E r \in {"cont", "skip", "abort"} :
            /\ Fails /\ ctx.skipAll /\ Button(r) /\ UNCHANGED <<dst, ctx, spoilt>>
            /\ Return(IF r = "cont" THEN "copy" ELSE "close", r)
       \* Writing fails: no space, or any error with an answer other than Skip.
       \/ \E a \in Refusals :
            /\ Fails /\ Refused(a) /\ UNCHANGED <<dst, presses, spoilt>>
            /\ ctx' = [ctx EXCEPT !.skipAll = SkipAll(a)] /\ Return("close", a)
       \* Writing fails for another reason, and Skip goes on with the next block.
       \/ \E r \in {"cont", "skip", "abort"} :
            /\ Fails /\ ~ctx.skipAll /\ Button(r) /\ Then(r)
            /\ spoilt' = spoilt \cup {n} /\ UNCHANGED <<dst, ctx>>
    /\ UNCHANGED <<src, linklist, eraseList, marked, others, first, answer, leftover>>

\* n_read = 0: DEST_FULL.
EndOfFile ==
    /\ job.at = "copy" /\ job.pos >= FileLen
    /\ job' = [job EXCEPT !.at = "close", !.status = "full"]
    /\ UNCHANGED <<src, dst, ctx, linklist, eraseList, marked, counts, history>>

\* Closing the source: of the answers only Abort is returned.
CloseSource ==
    /\ job.at = "close"
    /\ \/ Works /\ Go("closing") /\ UNCHANGED ctx
       \/ Fails /\ job.reads /\ ctx.skipAll /\ Go("closing") /\ UNCHANGED ctx
       \/ \E a \in Refusals :
            /\ Fails /\ job.reads /\ ~ctx.skipAll
            /\ ctx' = [ctx EXCEPT !.skipAll = SkipAll(a)]
            /\ Return("closing", IF a = "abort" THEN a ELSE job.rs)
    /\ UNCHANGED <<src, dst, linklist, eraseList, marked, presses, others, history>>

\* Closing the target: what was written last may be lost with the error.
CloseTarget ==
    LET cut == IF dst[job.f] = <<>> THEN <<>> ELSE SubSeq(dst[job.f], 1, Len(dst[job.f]) - 1)
    IN
    /\ job.at = "closing"
    /\ \/ Works /\ Go("closed") /\ UNCHANGED <<dst, ctx, spoilt>>
       \/ /\ Fails /\ job.writes
          /\ dst' = [dst EXCEPT ![job.f] = IF job.pos > ctx.reget THEN cut ELSE @]
          /\ spoilt' = spoilt \cup {job.f}
          /\ \/ ctx.skipAll /\ Go("closed") /\ UNCHANGED ctx
             \/ \E a \in Refusals :
                  /\ ~ctx.skipAll
                  /\ ctx' = [ctx EXCEPT !.skipAll = SkipAll(a)]
                  /\ Return("closed", a)
    /\ UNCHANGED <<src, linklist, eraseList, marked, presses, others, first, answer, leftover>>

\* The end: the question about a short file, the attributes of a full one, and
\* progress_update_one, whose buttons are the last word.
Finish ==
    LET Update(rs) ==
            \/ rs # "cont" /\ UNCHANGED presses /\ Return("returned", rs)
            \/ \E r \in {"cont", "skip", "abort"} :
                 rs = "cont" /\ Button(r) /\ Return("returned", r)
    IN
    /\ job.at = "closed"
    /\ \/ /\ job.status = "short" /\ Works /\ UNCHANGED <<dst, ctx, spoilt>> /\ Update(job.rs)
       \* "Incomplete file was retrieved. Keep it?" Delete
       \/ /\ job.status = "short" /\ Works /\ UNCHANGED ctx
          /\ dst' = [dst EXCEPT ![job.f] = None] /\ spoilt' = spoilt \cup {job.f}
          /\ Update(job.rs)
       \/ /\ job.status # "short" /\ Works /\ UNCHANGED <<dst, ctx, spoilt>> /\ Update(job.rs)
       \* mc_chown or mc_chmod fails: Skip and Skip all return FILE_CONT.
       \/ \E a \in Refusals :
            /\ job.status = "full" /\ ~job.appending /\ Fails /\ UNCHANGED <<dst, spoilt>>
            /\ IF ctx.skipAll THEN UNCHANGED ctx
               ELSE ctx' = [ctx EXCEPT !.skipAll = SkipAll(a)]
            /\ Update(IF ctx.skipAll \/ a = "abort" THEN job.rs ELSE "cont")
    /\ UNCHANGED <<src, linklist, eraseList, marked, others, first, answer, leftover>>

---------------------------------------------------------------------------
\* A dialog answered with Retry: a failure more, and the call once more.
RetryCall ==
    /\ job.at \in {"move", "look", "links", "open", "create", "copy", "erase", "remove", "closed"}
    /\ job.at = "erase" => eraseList # <<>>
    /\ Retry /\ UNCHANGED others

\* Another program makes a file where there is none.
OtherCreates(n) ==
    /\ job.at # "end" /\ others < budget.others /\ others' = others + 1
    /\ dst[n] = None /\ n \notin spoilt
    /\ dst' = [dst EXCEPT ![n] = Foreign(n)] /\ first' = [first EXCEPT ![n] = Foreign(n)]
    /\ UNCHANGED <<src, ctx, linklist, job, eraseList, marked, faults, presses, answer, spoilt,
                   leftover>>

Step ==
    \/ NextFile \/ OneFileDone \/ AllDone \/ ChildDone \/ DirCopied \/ EraseNext \/ DirMoved
    \/ MoveFile \/ MoveCopied \/ RemoveSource
    \/ Examine \/ Links \/ OpenSource \/ OpenTarget \/ CopyBlock \/ EndOfFile
    \/ CloseSource \/ CloseTarget \/ Finish \/ RetryCall

Next == (Step \/ \E n \in Names : OtherCreates(n)) /\ UNCHANGED plan

Spec == Init /\ [][Next]_vars

---------------------------------------------------------------------------
(* What holds. *)

\* The variables' types.  A file still to be erased was copied and is there.
TypeOK ==
    /\ op \in {"copy", "move", "dir"} /\ sameFs \in BOOLEAN
    /\ src \subseteq Names /\ marked \subseteq Names /\ spoilt \subseteq Names
    /\ \A n \in Names : dst[n] = None \/ dst[n] \in Texts
    /\ ctx.skipAll \in BOOLEAN /\ ctx.doAppend \in BOOLEAN
    /\ ctx.reget \in Nat /\ ctx.replace \in Replaces
    /\ \A n \in Names : linklist[n] \in Names \cup {None}
    /\ job.f \in 0..Cardinality(Names) /\ job.pos \in 0..FileLen
    /\ job.rs \in {"cont", "retry", "skip", "skipall", "abort"}
    /\ job.status \in {"none", "short", "full"}
    /\ \A i \in 1..Len(eraseList) : eraseList[i] \in src
    /\ \A n \in Names : answer[n] \in Replaces \cup {"again", None}

Last(t, k) == SubSeq(t, Len(t) - k + 1, Len(t))

\* The text of n ends the target; after a reget the user asked for, the part that was
\* not there.
Complete(n) ==
    LET k == FileLen - IF answer[n] = "reget" THEN Len(first[n]) ELSE 0
    IN  dst[n] # None /\ Len(dst[n]) >= k /\ Last(dst[n], k) = Last(Whole(n), k)

\* Whenever the process dies, and however the calls fail and the dialogs are
\* answered, the text of every file is under one of its names in the source or whole
\* at the target, but for those of which an error was passed over (copy_file_file,
\* move_file_file, do_move_dir_dir).
NothingLost ==
    \A n \in Names :
        \/ Complete(n) \/ \E m \in src : Inode(m) = Inode(n)
        \/ \E m \in spoilt : Inode(m) = Inode(n)

\* "delete the successfully copied files" (fileopctx.h): no source goes before all
\* of it is at the target.  It does: after Skip at a failed write, after a failed
\* close under skip_all, and when it was linked to the target of a name whose own
\* copy failed.
ErasedWasCopied == \A n \in Names : n \in src \/ Complete(n)

\* What was at the target before stays at its beginning unless the user said to
\* replace it, or had it deleted as incomplete; a move does not see the file another
\* program makes after its first look.
TargetUnharmed ==
    \A n \in Names :
        \/ first[n] = None \/ answer[n] \in Replaces \ {"append", "reget"} \/ n \in spoilt
        \/ op = "move" /\ first[n] = Foreign(n)
        \/ dst[n] # None /\ IsPrefixOf(first[n], dst[n])

\* The user said of the file under way that it is to be appended to.
WasAsked == answer[job.f] \in {"append", "reget"}

\* A target is appended to only at the user's word for this very file, with two
\* exceptions: ctx->do_append stays when the file it was meant for could not be opened,
\* and a Reget is taken for every later target as well.
AppendIsAsked == job.appending => WasAsked \/ leftover \/ answer[job.f] = "again"

\* "Overwrite this file?  [ Yes ] [ No ] [ Append ] [ Reget ]" (filegui.c, the picture
\* of the dialog): the answer is about this file, and "Overwrite all files?" has buttons
\* of its own.  It is not: after one Reget nobody is asked any more.
RegetIsForThisFile == job.appending => WasAsked \/ leftover

\* No target loses what it had against the user's word, and none is appended to without
\* it but in the two cases of AppendIsAsked, in which it keeps what it had.
TargetKept == TargetUnharmed /\ AppendIsAsked

\* A file loses its mark only when it is whole at the target, unless it was linked
\* to the target of a name whose own copy failed - check_hardlinks takes what it finds
\* there - or a Reget given for another file put its end behind what was there.
UnmarkedIsDone ==
    \A n \in Names \ marked :
        \/ op = "dir" \/ Complete(n) \/ n \in spoilt \/ answer[n] = "again"
        \/ LET m == linklist[Inode(n)] IN m \notin {None, n} /\ ~Complete(m)
=============================================================================
