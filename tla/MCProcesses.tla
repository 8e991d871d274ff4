---------------------------- MODULE MCProcesses -----------------------------
(***************************************************************************)
(* Editors that share files, the screens, and the shell beside the panels, *)
(* for TLC.                                                                *)
(* EditFile is extended, so that the run checks its own properties:        *)
(* "race" is two processes on one file where nothing fails; and it is      *)
(* instanced, "fault", for two processes and two names with a failing      *)
(* system call or a killed process.  "undo" is the undo of one window.     *)
(* Screens is extended too, "screens": a viewer takes the way of an editor. *)
(* Subshell is extended as well: in "shell" the user may leave the shell;  *)
(* and instanced: in "rush" he may type ahead, of a shell that may be      *)
(* slow.  The parts share nothing; each behaviour exercises one of them,   *)
(* and the others stay where they start.                                   *)
(***************************************************************************)
EXTENDS EditFile, Subshell, Screens, TLC

CONSTANTS p1, p2, w1, w2, f1, f2, RingSize, MaxText, MaxKeys

VARIABLES dir2, bak2, inode2, lock2, win2, used2, op2, faults2, shaken2, bare2, silent2
VARIABLES ed, past, keys
VARIABLES mc2, sh2, log2
VARIABLE part

fault == <<dir2, bak2, inode2, lock2, win2, used2, op2, faults2, shaken2, bare2, silent2>>
undo == <<ed, past, keys>>
screens == ui
rush == <<mc2, sh2, log2>>
mcVars == <<vars, fault, undo, screens, shellVars, rush, part>>

\* p1, whose window is w1, keeps backups; p2, whose window is w2, saves quickly.
OwnerOf == (w1 :> p1) @@ (w2 :> p2)
ModeOf == (p1 :> "backup") @@ (p2 :> "quick")
OnF == (w1 :> f1) @@ (w2 :> f1)
TwoAndOne == (w1 :> 2) @@ (w2 :> 1)

\* What was loaded holds a run of equal bytes and an empty line.
Loaded == <<65, 65, 10, 65>>

Faulty == INSTANCE EditFile WITH
    Names <- {f1, f2}, Budget <- (w1 :> 1) @@ (w2 :> 1), MaxFaults <- 1,
    dir <- dir2, bak <- bak2, inode <- inode2, lock <- lock2, win <- win2, used <- used2,
    op <- op2, faults <- faults2, shaken <- shaken2, bare <- bare2, silent <- silent2
Undo == INSTANCE EditUndo WITH
    FirstText <- Loaded, Letters <- {65, 10}, Size <- RingSize
Rush == INSTANCE Subshell WITH
    MaxDeaths <- 1, Lapses <- {"left", "ahead", "slow"}, mc <- mc2, sh <- sh2, log <- log2

ASSUME RaceAssumption == Constants
ASSUME FaultAssumption == Faulty!Constants
ASSUME UndoAssumption == Undo!Constants
ASSUME ScreenAssumption == ScreensConstants
ASSUME ShellAssumption == ShellConstants /\ Rush!ShellConstants

MCInit ==
        /\ Init /\ Faulty!Init /\ Undo!Init /\ ScreensInit /\ ShellInit /\ Rush!ShellInit
        /\ part \in {"race", "fault", "undo", "screens", "shell", "rush"}
        /\ part # "shell" => mc.buffer
        /\ part # "rush" => mc2.buffer

RaceStep == part = "race" /\ Next /\ UNCHANGED <<fault, undo, screens, shellVars, rush, part>>
FaultStep ==
    /\ part = "fault" /\ Faulty!Next
    /\ UNCHANGED <<vars, undo, screens, shellVars, rush, part>>
UndoStep ==
    /\ part = "undo" /\ Undo!Next
    /\ UNCHANGED <<vars, fault, screens, shellVars, rush, part>>
ScreenStep == part = "screens" /\ ScreensNext
              /\ UNCHANGED <<vars, fault, undo, shellVars, rush, part>>
ShellStep ==
    /\ part = "shell" /\ ShellNext
    /\ UNCHANGED <<vars, fault, undo, screens, rush, part>>
RushStep ==
    /\ part = "rush" /\ Rush!ShellNext
    /\ UNCHANGED <<vars, fault, undo, screens, shellVars, part>>

MCNext == RaceStep \/ FaultStep \/ UndoStep \/ ScreenStep \/ ShellStep \/ RushStep

\* What EditFile's Spec assumes of the processes.
Goes(x) ==
    /\ part = "fault" /\ Faulty!Step(x)
    /\ UNCHANGED <<vars, undo, screens, shellVars, rush, part>>

\* What Subshell's Spec assumes of the file manager, of the shell and of the user.
RushMc ==
    /\ part = "rush" /\ Rush!McStep
    /\ UNCHANGED <<vars, fault, undo, screens, shellVars, part>>
RushSh ==
    /\ part = "rush" /\ Rush!ShStep
    /\ UNCHANGED <<vars, fault, undo, screens, shellVars, part>>
RushUser ==
    /\ part = "rush" /\ Rush!TypeAnswer
    /\ UNCHANGED <<vars, fault, undo, screens, shellVars, part>>

MCSpec ==
    /\ MCInit /\ [][MCNext]_mcVars /\ \A x \in {p1, p2} : WF_mcVars(Goes(x))
    /\ WF_mcVars(RushMc) /\ WF_mcVars(RushSh) /\ WF_mcVars(RushUser)

\* The types, see the modules; and whatever fails, a lock believed in is held, and no text
\* is overwritten unasked, see EditFile.
TypesOK ==
    /\ part = "race" => TypeOK
    /\ part = "fault" => Faulty!TypeOK /\ Faulty!LockIsOwn /\ Faulty!NoSilentOverwrite
    /\ part = "undo" => Undo!TypeOK
    /\ part = "screens" => ScreensTypeOK
    /\ part = "shell" => ShellTypeOK
    /\ part = "rush" => Rush!ShellTypeOK

\* Redo takes an undo back, and the line counters agree with the text, see EditUndo.
RedoGivesBack == part = "undo" => Undo!RedoGivesBack /\ Undo!LinesCounted

\* A command of the editor comes to its end, whatever fails, and a text that was complete
\* stays complete, see EditFile; a command given to the shell comes to its end as well, see
\* Subshell.
AllCommandsEnd ==
    Faulty!CommandsEnd /\ Faulty!TextKept /\ ((part = "rush") => Rush!ComesBack)

\* Undo goes back one command, see EditUndo.
UndoGoesBackOne == Undo!UndoGoesBackOne
=============================================================================
