------------------------------ MODULE MCFiles -------------------------------
(***************************************************************************)
(* The file manager for TLC: its file operations, in the foreground and in *)
(* the background, and the filesystems it goes through.  "file" is         *)
(* FileOps, with two of what goes wrong; "rough" is Background where       *)
(* whatever is in Lapses may happen; both are extended, so that the run    *)
(* checks their own properties.  "calm" is Background where nobody stops   *)
(* or dies; "kept" is VfsGc where nothing is freed by force, "freed" is    *)
(* VfsGc where all of it may happen; "remote" is Ftpfs.  The parts share   *)
(* nothing; each behaviour exercises one of them.                          *)
(***************************************************************************)
EXTENDS FileOps, Background

CONSTANTS t1, t2, host, tar, zip, root, home, Local, Null

VARIABLES child1, comm1, back1, taskList1, selects1, loops1
VARIABLES mc1, views1, mc2, views2
VARIABLES ftp, srv, data, rd, wr, log
VARIABLE part

calm == <<child1, comm1, back1, taskList1, selects1, loops1>>
kept == <<mc1, views1>>
freed == <<mc2, views2>>
remote == <<ftp, srv, data, rd, wr, log>>
mcVars == <<vars, calm, backgroundVars, kept, freed, remote, part>>

MCBudgets == {[faults |-> 2, presses |-> 0, others |-> 0],
              [faults |-> 1, presses |-> 0, others |-> 1],
              [faults |-> 0, presses |-> 1, others |-> 1]}

Calm == INSTANCE Background WITH
    MaxAsks <- 2, Lapses <- {},
    child <- child1, comm <- comm1, back <- back1, taskList <- taskList1,
    selects <- selects1, loops <- loops1

\* Two archives; the one lies on the host.
MCFss == {host, tar, zip}
MCInside == [f \in MCFss |-> IF f = tar THEN host ELSE Local]

Kept == INSTANCE VfsGc WITH
    Fss <- MCFss, Inside <- MCInside, Archives <- {tar, zip}, MaxViews <- 1, Lapses <- {},
    mc <- mc1, views <- views1
Freed == INSTANCE VfsGc WITH
    Fss <- MCFss, Inside <- MCInside, Archives <- {tar, zip}, MaxViews <- 1,
    Lapses <- {"now", "changed", "quit"}, mc <- mc2, views <- views2

Remote == INSTANCE Ftpfs WITH
    Dirs <- {root, home}, Root <- root, Home <- home, FileLen <- 2, Room <- 1,
    Passives <- BOOLEAN, MaxOps <- 3, MaxOdd <- 2

ASSUME FileAssumption == Constants
ASSUME BackgroundAssumption == BackgroundConstants /\ Calm!BackgroundConstants
ASSUME VfsGcAssumption == Kept!Constants /\ Freed!Constants
ASSUME FtpfsAssumption == Remote!Constants

\* FileOps starts in many states: while it is idle, one of them is enough.
MCInit ==
    /\ Init /\ BackgroundInit /\ Calm!BackgroundInit /\ Kept!Init /\ Freed!Init
    /\ Remote!Init
    /\ part \in {"file", "calm", "rough", "kept", "freed", "remote"}
    /\ part # "file" => /\ op = "dir" /\ budget.faults = 2
                        /\ \A n \in DOMAIN dst : dst[n] = None

FileStep == part = "file" /\ Next /\ UNCHANGED <<calm, backgroundVars, kept, freed, remote, part>>
CalmStep == part = "calm" /\ Calm!BackgroundNext
            /\ UNCHANGED <<vars, backgroundVars, kept, freed, remote, part>>
RoughStep == part = "rough" /\ BackgroundNext /\ UNCHANGED <<vars, calm, kept, freed, remote, part>>
KeptStep == part = "kept" /\ Kept!Next
            /\ UNCHANGED <<vars, calm, backgroundVars, freed, remote, part>>
FreedStep == part = "freed" /\ Freed!Next
             /\ UNCHANGED <<vars, calm, backgroundVars, kept, remote, part>>
RemoteStep == part = "remote" /\ Remote!Next
              /\ UNCHANGED <<vars, calm, backgroundVars, kept, freed, part>>

MCNext == FileStep \/ CalmStep \/ RoughStep \/ KeptStep \/ FreedStep \/ RemoteStep

\* What Background's Fairness assumes of the loop, of the user and of the children.
Elsewhere == UNCHANGED <<vars, backgroundVars, kept, freed, remote, part>>
Serves == part = "calm" /\ Calm!Serve /\ Elsewhere
Replies == part = "calm" /\ Calm!Reply /\ Elsewhere
ChildWorks(t) == part = "calm" /\ Calm!ChildStep(t) /\ Elsewhere

MCSpec ==
    /\ MCInit /\ [][MCNext]_mcVars
    /\ WF_mcVars(Serves) /\ WF_mcVars(Replies) /\ \A t \in Tasks : WF_mcVars(ChildWorks(t))

\* The types, see FileOps, Background, VfsGc and Ftpfs; and with two requests of each child
\* an answer reaches the child that asked as well, see Background.
TypesOK ==
    /\ part = "file" => TypeOK
    /\ part = "rough" => BackgroundTypeOK
    /\ part = "calm" => Calm!BackgroundTypeOK /\ Calm!AnswerIsOwn
    /\ part = "kept" => Kept!TypeOK
    /\ part = "freed" => Freed!TypeOK
    /\ part = "remote" => Remote!TypeOK

\* A child that asks is answered, see Background.
AskersOfCalmAnswered == Calm!AskersAnswered

\* Nothing is open on a filesystem that was freed, and what nobody uses will be freed, see
\* VfsGc.
StampsFollowUse ==
    /\ part = "kept" => Kept!NothingDangles
    /\ part \in {"kept", "freed"} => Kept!UnusedIsStamped /\ Freed!UnusedIsStamped

\* Every reply on an FTP connection is read by the command it is for, the client waits for
\* none that will not come, and what is reported as done was done, see Ftpfs.
RepliesInStep == part = "remote" => Remote!InStep /\ Remote!RepliesCome /\ Remote!ResultsTrue
=============================================================================
