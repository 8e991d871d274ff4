----------------------------- MODULE Background -----------------------------
(***************************************************************************)
(* File operations in the background (background.c): child processes that  *)
(* do the work and call routines of the file manager over a pair of pipes, *)
(* and the file manager, which serves them from its event loops            *)
(* (lib/tty/key.c) and lists them in the box of background jobs            *)
(* (filemanager/boxes.c).  A routine may open a dialog, whose own event    *)
(* loop serves the others meanwhile.                                       *)
(*                                                                         *)
(* A request is two writes of the child and two reads of the parent: the   *)
(* routine, and the rest.  Left out: the context that is sent along,       *)
(* requests for a string, and the fd_set of try_channels, which is static. *)
(*                                                                         *)
(* What every module has (Init, Next, ...) is named after the module here, *)
(* so that one module can extend this one and FileOps.                     *)
(***************************************************************************)
EXTENDS Integers, Sequences, FiniteSets

CONSTANTS
    Tasks,          \* the children, each started at most once
    MaxAsks,        \* bound: requests of a child before the last
    Lapses          \* what children and user may do, of AllLapses

\* "stop": the user stops a job.  "die": a child is killed from outside.  "error": a
\* child reports an error of a file.  "stale": the user acts on a job that has ended
\* while the box was open.
AllLapses == {"stop", "die", "error", "stale"}

BackgroundConstants == MaxAsks \in Nat /\ Lapses \subseteq AllLapses /\ Cardinality(Tasks) \in Nat

VARIABLES
    child,      \* each child: what it does, which request it is at
    comm,       \* comm[t]: what t wrote and the parent did not read
    back,       \* back[t]: the answers t did not read
    taskList,   \* task_list, the newest first
    selects,    \* select_list, the newest first
    loops       \* the event loops of the parent, one inside the other, the inner last

backgroundVars == <<child, comm, back, taskList, selects, loops>>

\* quiet: a routine that returns at once; ask: one that opens a dialog.
Kinds == {"quiet", "ask"} \cup (Lapses \cap {"error"})

Listed(s) == {s[i] : i \in 1..Len(s)}

\* Where a child is in a list; it is there once.
Place(s, t) == CHOOSE i \in 1..Len(s) : s[i] = t

Without(s, t) ==
    IF t \in Listed(s)
    THEN SubSeq(s, 1, Place(s, t) - 1) \o SubSeq(s, Place(s, t) + 1, Len(s))
    ELSE s

Loop(what, of, items) ==
    [what |-> what, of |-> of, items |-> items, at |-> "select", ready |-> {}, with |-> {}]

top == loops[Len(loops)]
WithTop(l) == [loops EXCEPT ![Len(loops)] = l]
Push(l, inner) == Append(WithTop(l), inner)

BackgroundInit ==
    /\ child = [t \in Tasks |-> [does |-> "unborn", asks |-> 0, kind |-> "none",
                                 stopped |-> FALSE]]
    /\ comm = [t \in Tasks |-> <<>>] /\ back = [t \in Tasks |-> <<>>]
    /\ taskList = <<>> /\ selects = <<>>
    /\ loops = <<Loop("main", {}, {})>>

---------------------------------------------------------------------------
(* The children. *)

Runs(t) == child[t].does \in {"works", "writes", "waits"} /\ ~child[t].stopped

\* parent_call_header: the routine is written.
Call(t) ==
    /\ Runs(t) /\ child[t].does = "works"
    /\ \E k \in IF child[t].asks < MaxAsks THEN Kinds \cup {"bye"} ELSE {"bye"} :
          child' = [child EXCEPT ![t].does = "writes", ![t].kind = k, ![t].asks = @ + 1]
    /\ comm' = [comm EXCEPT ![t] = Append(@, "routine")]
    /\ UNCHANGED <<back, taskList, selects, loops>>

\* The rest of the header, the context and the arguments.
CallArgs(t) ==
    /\ Runs(t) /\ child[t].does = "writes"
    /\ child' = [child EXCEPT ![t].does = "waits"]
    /\ comm' = [comm EXCEPT ![t] = Append(@, child[t].kind)]
    /\ UNCHANGED <<back, taskList, selects, loops>>

\* parent_va_call reads the result; after the last call the child exits.
Result(t) ==
    /\ Runs(t) /\ child[t].does = "waits" /\ back[t] # <<>>
    /\ child' = [child EXCEPT ![t].does = IF child[t].kind = "bye" THEN "gone" ELSE "works",
                              ![t].kind = "none"]
    /\ back' = [back EXCEPT ![t] = Tail(@)]
    /\ UNCHANGED <<comm, taskList, selects, loops>>

\* A signal from elsewhere.
Dies(t) ==
    /\ "die" \in Lapses /\ child[t].does \in {"works", "writes", "waits"}
    /\ child' = [child EXCEPT ![t].does = "dead"]
    /\ UNCHANGED <<comm, back, taskList, selects, loops>>

---------------------------------------------------------------------------
(* The event loops of the parent. *)

\* tty_get_event: select and the set of what is ready, which is the loop's own.
Select ==
    LET readable == {t \in Listed(selects) : comm[t] # <<>>}
    IN  /\ top.at = "select" /\ readable # {}
        /\ loops' = WithTop([top EXCEPT !.at = "check", !.ready = readable])
        /\ UNCHANGED <<child, comm, back, taskList, selects>>

\* check_selects: the first channel of the list that is in the set, and its callback.
Check ==
    /\ top.at = "check"
    /\ \/ /\ Listed(selects) \cap top.ready = {}
          /\ loops' = WithTop([top EXCEPT !.at = "select"])
       \/ \E i \in 1..Len(selects) :
             /\ selects[i] \in top.ready /\ \A j \in 1..(i - 1) : selects[j] \notin top.ready
             /\ loops' = WithTop([top EXCEPT !.at = "routine", !.with = {selects[i]},
                                             !.ready = @ \ {selects[i]}])
    /\ UNCHANGED <<child, comm, back, taskList, selects>>

\* background_attention blocks until there is a routine.
ReadRoutine ==
    /\ top.at = "routine"
    /\ \E t \in top.with :
          /\ comm[t] # <<>>
          /\ comm' = [comm EXCEPT ![t] = Tail(@)]
    /\ loops' = WithTop([top EXCEPT !.at = "args"])
    /\ UNCHANGED <<child, back, taskList, selects>>

\* Mutant: the channel stays when the child says goodbye.
UnregisterKeepsChannel(t) == taskList' = Without(taskList, t) /\ UNCHANGED selects

\* destroy_task and delete_select_channel.
Unregister(t) == taskList' = Without(taskList, t) /\ selects' = Without(selects, t)

\* Mutant: the answer goes to the task that was started last.
AnswerToNewest(t) == back' = [back EXCEPT ![Head(taskList)] = Append(@, t)]

\* The result, with whom it is for, goes to the to_child_fd found before the call.
Answer(t) == back' = [back EXCEPT ![t] = Append(@, t)]

\* The rest of the request, and the routine.
ReadArgs ==
    \E t \in top.with :
        LET request == Head(comm[t])
            done == [top EXCEPT !.at = "check", !.with = {}]
        IN
        /\ top.at = "args" /\ comm[t] # <<>>
        /\ comm' = [comm EXCEPT ![t] = Tail(@)] /\ UNCHANGED child
        /\ \/ /\ request = "quiet" /\ Answer(t) /\ loops' = WithTop(done)
              /\ UNCHANGED <<taskList, selects>>
           \* end_bg_process.
           \/ /\ request = "bye" /\ Unregister(t) /\ Answer(t) /\ loops' = WithTop(done)
           \* query_dialog in a loop of its own.
           \/ /\ request = "ask" /\ loops' = Push(top, Loop("query", {t}, {}))
              /\ UNCHANGED <<back, taskList, selects>>
           \* do_file_error sends allow_retry for its address, write fails, and the
           \* sizes and blocks that follow are misread: reading_failed, no result.
           \/ /\ request = "error" /\ loops' = Push(done, Loop("failed", {}, {}))
              /\ UNCHANGED <<back, taskList, selects>>

\* The user answers the dialog on top; the routine returns to background_attention.
Reply ==
    LET below == loops[Len(loops) - 1]
        rest == SubSeq(loops, 1, Len(loops) - 2)
    IN
    /\ top.at = "select" /\ top.what \in {"query", "failed"}
    /\ \/ /\ top.what = "query"
          /\ \E t \in top.of : Answer(t)
          /\ loops' = Append(rest, [below EXCEPT !.at = "check", !.with = {}])
       \/ /\ top.what = "failed" /\ UNCHANGED back
          /\ loops' = Append(rest, below)
    /\ UNCHANGED <<child, comm, taskList, selects>>

---------------------------------------------------------------------------
(* The user at the file manager and in the box of jobs. *)

\* do_background: fork and register_task_running.
Start(t) ==
    /\ top.what = "main" /\ top.at = "select" /\ child[t].does = "unborn"
    /\ child' = [child EXCEPT ![t].does = "works"]
    /\ taskList' = <<t>> \o taskList /\ selects' = <<t>> \o selects
    /\ UNCHANGED <<comm, back, loops>>

OpenJobs ==
    /\ top.what = "main" /\ top.at = "select" /\ taskList # <<>>
    /\ loops' = Append(loops, Loop("jobs", {}, Listed(taskList)))
    /\ UNCHANGED <<child, comm, back, taskList, selects>>

CloseJobs ==
    /\ top.what = "jobs" /\ top.at = "select"
    /\ loops' = SubSeq(loops, 1, Len(loops) - 1)
    /\ UNCHANGED <<child, comm, back, taskList, selects>>

\* task_cb on an item of the list, which may be older than the tasks.
Chosen(t) ==
    /\ top.what = "jobs" /\ top.at = "select" /\ t \in top.items
    /\ "stale" \in Lapses \/ t \in Listed(taskList)
    /\ child[t].does # "gone"
    /\ UNCHANGED <<comm, back>>

Refill(tl) == loops' = WithTop([top EXCEPT !.items = Listed(tl)])

Stop(t) ==
    /\ "stop" \in Lapses /\ Chosen(t) /\ ~child[t].stopped
    /\ child' = [child EXCEPT ![t].stopped = TRUE]
    /\ Refill(taskList) /\ UNCHANGED <<taskList, selects>>

Resume(t) ==
    /\ Chosen(t) /\ child[t].stopped
    /\ child' = [child EXCEPT ![t].stopped = FALSE]
    /\ Refill(taskList) /\ UNCHANGED <<taskList, selects>>

Kill(t) ==
    /\ Chosen(t)
    /\ Unregister(t)
    /\ child' = [child EXCEPT ![t].does = "dead"]
    /\ Refill(taskList')

---------------------------------------------------------------------------
ChildStep(t) == Call(t) \/ CallArgs(t) \/ Result(t)
Serve == Select \/ Check \/ ReadRoutine \/ ReadArgs

BackgroundNext ==
    \/ \E t \in Tasks : ChildStep(t) \/ Dies(t)
    \/ Serve \/ Reply
    \/ \E t \in Tasks : Start(t) \/ Stop(t) \/ Resume(t) \/ Kill(t)
    \/ OpenJobs \/ CloseJobs

\* The children work, the parent's loop goes round, and the user answers what is asked.
Fairness == /\ WF_backgroundVars(Serve) /\ WF_backgroundVars(Reply)
            /\ \A t \in Tasks : WF_backgroundVars(ChildStep(t))
BackgroundSpec == BackgroundInit /\ [][BackgroundNext]_backgroundVars /\ Fairness

---------------------------------------------------------------------------
(* What holds. *)

Doing == {"unborn", "works", "writes", "waits", "gone", "dead"}

\* The variables' types.
BackgroundTypeOK ==
    /\ \A t \in Tasks :
          /\ child[t].does \in Doing /\ child[t].asks \in 0..MaxAsks + 1
          /\ child[t].stopped \in BOOLEAN
          /\ comm[t] \in Seq({"routine", "bye"} \cup Kinds) /\ back[t] \in Seq(Tasks)
    /\ taskList \in Seq(Tasks) /\ selects \in Seq(Tasks)
    /\ \A i \in 1..Len(loops) :
          /\ loops[i].what \in {"main", "jobs", "query", "failed"}
          /\ loops[i].at \in {"select", "check", "routine", "args"}
          /\ loops[i].ready \subseteq Tasks /\ loops[i].items \subseteq Tasks

\* An answer reaches the child that asked for it, and only while it waits for it, however
\* the dialogs of several children lie over each other and whoever is stopped, killed or
\* dies: the pipe of the answer is found before the routine runs (background_attention).
AnswerIsOwn ==
    \A t \in Tasks :
        back[t] # <<>> => back[t] = <<t>> /\ child[t].does \in {"waits", "dead"}

\* A child that waits for an answer gets it, unless it is killed: neither the dialogs of
\* the others nor a set of ready channels that a loop inside has served meanwhile, which
\* makes the outer loop wait in read for the child's next request, hold it up for ever.
\* With any of "stop", "die" and "error" in Lapses the file manager itself can hang.
AskersAnswered == \A t \in Tasks : child[t].does = "waits" ~> child[t].does # "waits"
=============================================================================
