-------------------------------- MODULE VfsGc --------------------------------
(***************************************************************************)
(* The filesystems inside archives and on other hosts, and the stamps by   *)
(* which they are freed when nobody has used them for a minute (lib/vfs/   *)
(* gc.c).  A filesystem is loaded by whoever names a path in it, and       *)
(* stamped when the last file in it is closed or the last directory left   *)
(* (direntry.c, interface.c, panel.c, layout.c).  An archive (tar.c) may   *)
(* lie on another filesystem, on which it holds an open file.              *)
(*                                                                         *)
(* Left out: archives in archives, and filesystems whose files are copied  *)
(* to a temporary file and closed (extfs, sfs).                            *)
(***************************************************************************)
EXTENDS Integers, Sequences, FiniteSets, SequencesExt

CONSTANTS
    Fss,            \* the filesystems, and
    Inside,         \* for each the one that it lies on, or Local
    Archives,       \* those whose stamp is refreshed whenever they are looked up
    Local, Null,    \* the local directories; a stamp that was freed
    MaxViews,       \* bound: files open in viewers
    Lapses          \* of AllLapses

\* "now": the user frees all filesystems.  "changed": an archive changes on the disk.
\* "quit": the program ends.
AllLapses == {"now", "changed", "quit"}

Constants ==
    /\ Archives \subseteq Fss /\ Inside \in [Fss -> (Fss \ Archives) \cup {Local}]
    /\ \A f \in Fss \ Archives : Inside[f] = Local
    /\ Local \notin Fss /\ Null \notin Fss /\ MaxViews \in Nat /\ Lapses \subseteq AllLapses

VARIABLES
    mc,         \* filesystems, stamps, directories and panels
    views       \* files open in viewers that are in the background, per filesystem

vars == <<mc, views>>

Panels == {"left", "right"}
Other(p) == IF p = "left" THEN "right" ELSE "left"

\* live: in supers.  open: fd_usage.  orphans: files of a filesystem that was freed while
\* they were open.  stamps, the first first; at marks the one vfs_expire is at.  changed:
\* archives newer than what was loaded.  event: the panels listen to "vfs_timestamp".
\* in: what the panels said last.  missed: history, what was not stamped because of a
\* panel that shows something else.
Init ==
    /\ mc = [live |-> {}, open |-> [f \in Fss |-> 0], orphans |-> [f \in Fss |-> 0],
             stamps |-> <<>>, missed |-> {}, changed |-> {}, event |-> TRUE,
             in |-> FALSE, cwd |-> Local, dir |-> [p \in Panels |-> Local], cur |-> "left",
             lists |-> Panels]
    /\ views = [f \in Fss |-> 0]

\* One step after the other: what t becomes under Step.
Then(t, Step(_)) == CHOOSE u \in {Step(x) : x \in {t}} : TRUE

---------------------------------------------------------------------------
(* The stamps. *)

\* vfs_stamp_compare takes a freed stamp for any.
Found(s, f) == SelectInSeq(s.stamps, LAMBDA e : e.fs \in {f, Null})
Stamped(s, f) == Found(s, f) > 0 /\ s.stamps[Found(s, f)].fs = f

Stamp(s, f) == IF Stamped(s, f) THEN [s EXCEPT !.stamps[Found(s, f)].old = FALSE] ELSE s

RmStamp(s, f) ==
    IF Found(s, f) = 0 THEN s ELSE [s EXCEPT !.stamps = RemoveAt(@, Found(s, f))]

AddStamp(s, f) ==
    IF f \notin s.live THEN s
    ELSE IF Stamped(s, f) THEN Stamp(s, f)
    ELSE [s EXCEPT !.stamps = Append(@, [fs |-> f, old |-> FALSE, at |-> FALSE]),
                   !.missed = @ \ {f}]

Id(s, d) == IF d \in s.live THEN d ELSE Local
Class(d) == IF d = Local THEN "local" ELSE IF d \in Archives THEN "archive" ELSE "host"

RECURSIVE Seen(_, _), Reach(_, _), StampCreate(_, _), CheckPanel(_, _, _)
RECURSIVE FreeSuper(_, _), Close(_, _)

\* vfs_getid: archive_check looks at the archive's file, which may load what it lies on;
\* archive_same frees an archive that has changed and refreshes the stamp of another.
Seen(s, d) ==
    IF d \notin Archives THEN s
    ELSE Then(Reach(s, Inside[d]), LAMBDA t :
             IF d \notin t.live THEN t
             ELSE IF d \in t.changed THEN Then(FreeSuper(t, d), LAMBDA u : RmStamp(u, d))
             ELSE Stamp(t, d))

\* vfs_s_open: a file is opened, and so the stamp goes.
Hold(s, f) == [RmStamp(s, f) EXCEPT !.open[f] = @ + 1]

\* vfs_s_get_path: what is not there is loaded, an archive through a file it keeps open.
Reach(s, d) ==
    LET Read(t) == IF Inside[d] = Local THEN t ELSE Hold(t, Inside[d])
        Loaded(t) == [t EXCEPT !.live = @ \cup {d}, !.changed = @ \ {d}]
    IN  IF d = Local THEN s
        ELSE Then(Seen(s, d), LAMBDA t :
                 IF d \in t.live THEN t
                 ELSE Then(Loaded(Read(t)), LAMBDA u : StampCreate(u, d)))

\* check_panel_timestamp: whether a panel is in f, or shows something else than a list.
CheckPanel(s, p, f) ==
    IF p \notin s.lists THEN [s EXCEPT !.missed = @ \cup ({f} \cap s.live), !.in = TRUE]
    ELSE IF Class(s.dir[p]) # Class(f) THEN [s EXCEPT !.in = FALSE]
    ELSE [Seen(s, s.dir[p]) EXCEPT !.in = s.dir[p] = f]

\* vfs_stamp_create: the stamp of the current directory's filesystem goes; f, Local when
\* it is not loaded, is stamped where nothing is open and no panel in it.
StampCreate(s, f) ==
    LET Raised(t) == Then(CheckPanel(t, t.cur, f), LAMBDA u :
                              IF u.in THEN u ELSE CheckPanel(u, Other(u.cur), f))
    IN  IF ~s.event THEN s
        ELSE Then(Seen(s, s.cwd), LAMBDA t :
             Then(RmStamp(t, Id(t, s.cwd)), LAMBDA u :
                 IF f \in {Local, Id(t, s.cwd)} THEN u
                 ELSE Then(Raised(u), LAMBDA x :
                     Then([x EXCEPT !.in = FALSE], LAMBDA y :
                          IF ~x.in /\ x.open[f] = 0 THEN AddStamp(y, f) ELSE y))))

\* vfs_s_close, which goes on with the filesystem after vfs_stamp_create has seen the
\* current directory, and may have freed it.
Close(s, f) ==
    IF s.orphans[f] > 0 THEN [s EXCEPT !.orphans[f] = @ - 1]
    ELSE Then([s EXCEPT !.open[f] = @ - 1], LAMBDA t :
                 IF t.open[f] > 0 THEN t
                 ELSE Then(StampCreate(t, f), LAMBDA u :
                          IF f \in u.live THEN u ELSE [u EXCEPT !.orphans[f] = 1]))

\* vfs_s_free_super: off the list, then the archive's own file is closed.
FreeSuper(s, f) ==
    Then([s EXCEPT !.live = @ \ {f}, !.missed = @ \ {f}, !.open[f] = 0,
                   !.orphans[f] = @ + s.open[f]],
         LAMBDA t : IF Inside[f] = Local THEN t ELSE Close(t, Inside[f]))

\* Mutant: what is in use is freed like the rest.
DueAny(s, f) == TRUE

\* What is in use is not freed, unless all is.
Due(s, f) == s.open[f] = 0

\* vfs_expire from the k-th stamp on; what is freed leaves a freed stamp behind.
RECURSIVE Sweep(_, _, _)
Sweep(s, k, now) ==
    LET e == s.stamps[k]
        Here(t) == SelectInSeq(t.stamps, LAMBDA x : x.at)
        Freed(t) == [t EXCEPT !.stamps[Here(t)] = [fs |-> Null, old |-> TRUE, at |-> FALSE]]
    IN  IF k > Len(s.stamps)
        THEN [s EXCEPT !.stamps = SelectSeq(@, LAMBDA x : x.fs # Null)]
        ELSE IF ~now /\ ~e.old THEN Sweep(s, k + 1, now)
        ELSE IF ~now /\ ~Due(s, e.fs)
        THEN Sweep([s EXCEPT !.stamps[k].old = FALSE], k + 1, now)
        ELSE Then(FreeSuper([s EXCEPT !.stamps[k].at = TRUE], e.fs), LAMBDA t :
                  Sweep(Freed(t), Here(t) + 1, now))

Expired(s, now) == Sweep(IF now THEN [s EXCEPT !.stamps = Reverse(@)] ELSE s, 1, now)

---------------------------------------------------------------------------
(* The user. *)

\* mc_chdir.
Chdir(s, d) ==
    Then(Reach(s, d), LAMBDA t : Then(Seen(t, s.cwd), LAMBDA u :
    Then([u EXCEPT !.cwd = d], LAMBDA x : Then(StampCreate(x, Id(u, s.cwd)), LAMBDA y :
        Seen(y, d)))))

\* panel_do_cd_int: chdir, release of the old directory, reading of the new one.
PanelCd(s, d) ==
    LET old == s.dir[s.cur]
    IN  Then(Chdir(s, d), LAMBDA t : Then([t EXCEPT !.dir[s.cur] = d], LAMBDA u :
        Then(Seen(u, old), LAMBDA x : Then(StampCreate(x, Id(x, old)), LAMBDA y :
            Reach(y, d)))))

\* Once a file of a freed filesystem is open nothing is said of what follows.
Sound == \A f \in Fss : mc.orphans[f] = 0
AtKeys == mc.event /\ Sound
Cd(d) ==
    /\ AtKeys /\ d # mc.dir[mc.cur]
    /\ mc' = PanelCd(mc, d) /\ UNCHANGED views

\* An archive that cannot be read: what it lies on was loaded, the file opened and closed.
CdFails(d) ==
    /\ AtKeys /\ d \in Archives \ mc.live /\ Inside[d] # Local
    /\ LET on == Inside[d]
       IN  mc' = Then(Reach(mc, on), LAMBDA t : Then(Hold(t, on), LAMBDA u : Close(u, on)))
    /\ UNCHANGED views

\* MSG_FOCUS of a panel.
Focus(p) ==
    /\ AtKeys /\ p \in mc.lists /\ (p # mc.cur \/ mc.cwd # mc.dir[p])
    /\ mc' = Chdir([mc EXCEPT !.cur = p], mc.dir[p]) /\ UNCHANGED views

\* create_panel of the info, tree or quick view kind; the panel that was there is
\* destroyed and stamps its directory.
ShowOther(p) ==
    /\ AtKeys /\ mc.lists = Panels
    /\ mc' = [AddStamp(Seen(mc, mc.dir[p]), mc.dir[p]) EXCEPT !.lists = @ \ {p},
                                                            !.cur = Other(p)]
    /\ UNCHANGED views

\* create_panel of a list: it reads its directory and goes back to the current one.
ShowList(p) ==
    /\ AtKeys /\ p \notin mc.lists
    /\ mc' = Then(Chdir(mc, mc.dir[p]), LAMBDA t : Then(Reach(t, mc.dir[p]), LAMBDA u :
              [Chdir(u, mc.cwd) EXCEPT !.lists = Panels]))
    /\ UNCHANGED views

\* A file is opened in a viewer that goes to the background, and closed.
View(f) ==
    /\ AtKeys /\ \A g \in Fss : views[g] = 0 \/ g = f
    /\ views[f] < MaxViews /\ views' = [views EXCEPT ![f] = @ + 1]
    /\ mc' = Then(Reach(mc, f), LAMBDA t : Hold(t, f))

CloseView(f) ==
    /\ AtKeys /\ views[f] > 0 /\ views' = [views EXCEPT ![f] = @ - 1]
    /\ mc' = Close(mc, f)

\* Something else names a path.
Visit(f) == AtKeys /\ mc' = Reach(mc, f) /\ UNCHANGED views

FreeAll == "now" \in Lapses /\ AtKeys /\ mc' = Expired(mc, TRUE) /\ UNCHANGED views

Change(f) ==
    /\ "changed" \in Lapses /\ AtKeys /\ f \in Archives \cap mc.live
    /\ mc' = [mc EXCEPT !.changed = @ \cup {f}] /\ UNCHANGED views

\* The event is dropped, the viewers close, done_mc and the panels stamp, all is freed.
Quit ==
    /\ "quit" \in Lapses /\ AtKeys
    /\ LET Stamps(s, d) == Then(Seen(s, d), LAMBDA t : AddStamp(t, d))
           Dies(s, p) == IF p \in mc.lists THEN Stamps(s, mc.dir[p]) ELSE s
       IN  mc' = Then([mc EXCEPT !.event = FALSE, !.open = [f \in Fss |-> @[f] - views[f]]],
                      LAMBDA s : Then(Stamps(s, mc.cwd), LAMBDA t : Then(Dies(t, "left"),
                      LAMBDA u : Then(Dies(u, "right"), LAMBDA x : Expired(x, TRUE)))))
    /\ views' = [f \in Fss |-> 0]

---------------------------------------------------------------------------
(* Time. *)

\* A minute passes.
Minute ==
    /\ \E i \in 1..Len(mc.stamps) : ~mc.stamps[i].old
    /\ mc' = [mc EXCEPT !.stamps = [i \in DOMAIN @ |-> [@[i] EXCEPT !.old = TRUE]]]
    /\ UNCHANGED views

\* vfs_timeout_handler.
Expire ==
    /\ Sound /\ \E i \in 1..Len(mc.stamps) : mc.stamps[i].old
    /\ mc' = Expired(mc, FALSE) /\ UNCHANGED views

Next ==
    \/ \E d \in Fss \cup {Local} : Cd(d)
    \/ \E f \in Fss : CdFails(f) \/ View(f) \/ CloseView(f) \/ Visit(f) \/ Change(f)
    \/ \E p \in Panels : Focus(p) \/ ShowOther(p) \/ ShowList(p)
    \/ FreeAll \/ Quit \/ Minute \/ Expire

Spec == Init /\ [][Next]_vars

---------------------------------------------------------------------------
(* What holds. *)

\* The variables' types; an archive that is loaded holds a file of what it lies on.
TypeOK ==
    /\ mc.live \subseteq Fss /\ mc.missed \subseteq mc.live /\ mc.changed \subseteq Archives
    /\ mc.cwd \in Fss \cup {Local} /\ mc.dir \in [Panels -> Fss \cup {Local}]
    /\ mc.cur \in Panels /\ mc.lists \subseteq Panels /\ mc.lists # {}
    /\ mc.open \in [Fss -> Nat] /\ mc.orphans \in [Fss -> Nat] /\ views \in [Fss -> Nat]
    /\ \A i \in DOMAIN mc.stamps :
          mc.stamps[i].fs \in Fss /\ mc.stamps[i].old \in BOOLEAN /\ ~mc.stamps[i].at

\* No file is open on a filesystem that was freed, the one an archive is read from
\* included, and every stamp is of one that is there, and of one of its own: vfs_expire,
\* which runs at every key, closes files and stamps while it walks the list.
NothingDangles ==
    /\ \A f \in Fss : mc.orphans[f] = 0
    /\ \A i \in DOMAIN mc.stamps :
          /\ mc.stamps[i].fs \in mc.live
          /\ \A j \in DOMAIN mc.stamps : mc.stamps[i].fs = mc.stamps[j].fs => i = j

Unused(f) ==
    /\ f \in mc.live /\ mc.open[f] = 0 /\ mc.cwd # f
    /\ \A p \in mc.lists : mc.dir[p] # f

\* A filesystem that nobody uses any more has a stamp, by which it will be freed, in
\* whatever order its files are closed and its directories left.  Excepted is what was
\* left while a panel showed something else than a list: check_panel_timestamp then says
\* it is in use, and it stays for ever.
UnusedIsStamped ==
    mc.event => \A f \in Fss : Unused(f) => Stamped(mc, f) \/ f \in mc.missed
=============================================================================
