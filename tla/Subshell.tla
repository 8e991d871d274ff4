------------------------------ MODULE Subshell ------------------------------
(***************************************************************************)
(* The shell that runs beside the panels (subshell/common.c).  What is     *)
(* typed reaches it through a pty; before each prompt it writes its        *)
(* directory to a pipe and stops itself, and the file manager, told by     *)
(* SIGCHLD, reads the pipe, throws away what the shell has not read yet,   *)
(* and lets it go on.  feed_subshell waits for that, in some places for a  *)
(* second only.                                                            *)
(*                                                                         *)
(* The buffer of the shell's command line and its cursor are one question  *)
(* and one answer; what is shown, the prompt, the line that zsh wants      *)
(* after each cd, and the exceptions made for fish are left out.           *)
(***************************************************************************)
EXTENDS Integers, Sequences, FiniteSets

CONSTANTS
    Dirs, Home,     \* local directories; the one the shell starts in
    Shells,         \* TRUE: one whose command line can be read; FALSE: one without
    MaxCmds,        \* bound: commands given, at the panels or in the shell
    MaxDeaths,      \* bound: shells that end
    Lapses          \* of AllLapses

\* "slow": the shell takes more than a second for anything.  "ahead": the user types
\* ahead.  "left": the user leaves the shell.  "killed": it is killed.  "between": it ends
\* after feed_subshell has looked and before it waits.
AllLapses == {"slow", "ahead", "left", "killed", "between"}

ShellConstants ==
    /\ Home \in Dirs /\ Shells \subseteq BOOLEAN /\ Shells # {}
    /\ MaxCmds \in Nat /\ MaxDeaths \in Nat /\ Lapses \subseteq AllLapses

VARIABLES
    mc,         \* what common.c keeps, and where it is
    sh,         \* the shell, its pty and its pipes
    log         \* history: commands given and begun, shells that ended

shellVars == <<mc, sh, log>>

Garbled == "garbled"

Fresh == [up |-> TRUE, hooked |-> FALSE, at |-> "prompt", cwd |-> Home, asks |-> FALSE,
          intr |-> FALSE, line |-> <<>>, pipe |-> <<>>, answers |-> 0, news |-> "none"]

---------------------------------------------------------------------------
(* What is sent to the shell; t is the pair of mc and sh. *)

Write(t, what, d) == [t EXCEPT !.sh.line = Append(@, [op |-> what, dir |-> d])]

\* ^C: what was not read is gone, a command ends; a shell that is busy with its prompt, or
\* stopped, sees it later.
Interrupt(t) ==
    LET busy == t.sh.at \notin {"prompt", "run"}
    IN  [t EXCEPT !.sh.line = <<>>, !.sh.asks = FALSE, !.sh.intr = busy,
                  !.sh.at = IF busy THEN @ ELSE IF t.sh.hooked THEN "tell" ELSE "prompt"]

\* SIGCONT.
Continue(t) ==
    IF ~t.sh.up \/ t.sh.at # "stopped" THEN t
    ELSE [t EXCEPT !.sh.intr = FALSE, !.sh.at = IF t.sh.intr THEN "tell" ELSE "prompt"]

Feed(t, why) == [t EXCEPT !.mc.pc = "feed", !.mc.why = why]
Running(t) == [t EXCEPT !.mc.state = "RUNNING_COMMAND"]
Active(t) == [t EXCEPT !.mc.state = "ACTIVE"]
Keys(t) == [t EXCEPT !.mc.pc = "keys", !.mc.why = "none", !.mc.want = "none"]

\* init_subshell, as far as its feed_subshell: the pty and the pipes are the old ones.
Start(t) ==
    LET born == [Fresh EXCEPT !.line = t.sh.line, !.pipe = t.sh.pipe, !.answers = t.sh.answers]
        u == [t EXCEPT !.sh = born, !.mc.alive = TRUE, !.mc.stopped = FALSE]
    IN  Feed(Running(Write(u, "setup", Home)), "init")

ShellInit ==
    \E b \in Shells :
        LET idle == [pc |-> "keys", why |-> "none", want |-> "none", state |-> "INACTIVE",
                     ready |-> FALSE, stopped |-> FALSE, alive |-> FALSE, cwd |-> Home,
                     dir |-> Home, buffer |-> b, use |-> TRUE, quit |-> FALSE]
            t == Start([mc |-> idle, sh |-> Fresh])
        IN  mc = t.mc /\ sh = t.sh /\ log = [given |-> 0, ran |-> 0, deaths |-> 0]

\* The end of invoke_subshell: the panel goes where the shell is; one that died is
\* started again, unless it was left, and then the user is asked first.
Back(t) ==
    IF t.mc.alive
    THEN [Keys(t) EXCEPT !.mc.dir = IF t.mc.cwd = Garbled THEN @ ELSE t.mc.cwd]
    ELSE IF t.mc.quit THEN [t EXCEPT !.mc.pc = "quit"]
    ELSE IF t.mc.use THEN Start(t) ELSE Keys(t)

GiveCommand(t) ==
    Feed([Running(Write(t, "cmd", Home)) EXCEPT !.mc.ready = FALSE], "job")

\* Mutant: the command is written at once, before the prompt that follows ^C.
InvokeAtOnce(t) ==
    IF t.mc.want = "none" THEN Keys(t)
    ELSE IF t.mc.want = "toggle"
    THEN Feed(IF t.mc.state = "INACTIVE" THEN Active(t) ELSE t, "job")
    ELSE GiveCommand(IF t.mc.buffer THEN t ELSE Interrupt(t))

\* invoke_subshell after its do_subshell_chdir.
Invoke(t) ==
    IF t.mc.want = "none" THEN Keys(t)
    ELSE IF t.mc.want = "toggle"
    THEN Feed(IF t.mc.state = "INACTIVE" THEN Active(t) ELSE t, "job")
    ELSE IF t.mc.buffer THEN GiveCommand(t)
    ELSE Feed(Running(Interrupt(t)), "clearCmd")

SendCd(t) == Feed(Running(Write(t, "cd", t.mc.dir)), "cd")

\* do_subshell_chdir.
Chdir(t) ==
    IF t.mc.state # "INACTIVE" \/ t.mc.cwd = t.mc.dir THEN Invoke(t)
    ELSE IF t.mc.buffer THEN SendCd(t)
    ELSE Feed(Running(Interrupt(t)), "clear")

\* read_command_line_buffer, first and last part.
AskBuffer(t, why) ==
    [Write([t EXCEPT !.sh.answers = 0], "ask", Home) EXCEPT !.mc.pc = "ask", !.mc.why = why]

Asked(t, ok) ==
    LET u == [t EXCEPT !.mc.buffer = @ /\ ok]
    IN  IF t.mc.why = "initAsk" THEN Back(u)
        ELSE IF ok THEN Back(t)
        ELSE IF t.mc.why = "ask" THEN Feed(Running(Interrupt(t)), "retry")
        ELSE Back(Active(t))

\* What feed_subshell returns, and to whom.
Return(t, ok) ==
    LET why == t.mc.why
        tried == [t EXCEPT !.mc.use = @ /\ ok /\ t.mc.alive]
    IN  CASE why = "init" -> IF t.mc.buffer THEN AskBuffer(tried, "initAsk") ELSE Back(tried)
          [] why = "clear" -> IF ok THEN SendCd(t) ELSE Invoke(Active(t))
          [] why = "cd" -> Invoke(IF ok THEN t ELSE Active(t))
          [] why = "clearCmd" -> GiveCommand(t)
          [] why = "retry" -> IF ok THEN AskBuffer(t, "askAgain") ELSE Back(Active(t))
          [] why = "job" -> Back(t)

Becomes(t) == mc' = t.mc /\ sh' = t.sh
Now == [mc |-> mc, sh |-> sh]

---------------------------------------------------------------------------
(* feed_subshell. *)

Top ==
    /\ mc.pc = "feed"
    /\ Becomes(IF mc.alive THEN [Now EXCEPT !.mc.pc = "select"] ELSE Return(Now, FALSE))
    /\ UNCHANGED log

\* The pipe is read: everything that is in it is taken for one directory.
ReadCwd ==
    /\ mc.pc = "select" /\ sh.pipe # <<>>
    /\ mc' = [mc EXCEPT !.cwd = IF Len(sh.pipe) = 1 THEN Head(sh.pipe) ELSE Garbled,
                        !.pc = "sync"]
    /\ sh' = [sh EXCEPT !.pipe = <<>>] /\ UNCHANGED log

\* synchronize, and what follows.
Sync ==
    /\ mc.pc = "sync" /\ (mc.stopped \/ ~mc.alive)
    /\ LET t == IF mc.state = "ACTIVE" THEN Now ELSE [Now EXCEPT !.sh.line = <<>>]
           u == [Continue(t) EXCEPT !.mc.stopped = FALSE, !.mc.ready = TRUE]
       IN  Becomes(IF mc.state = "RUNNING_COMMAND"
                   THEN Return([u EXCEPT !.mc.state = "INACTIVE"], TRUE)
                   ELSE [u EXCEPT !.mc.pc = "feed"])
    /\ UNCHANGED log

\* A second has passed: the shell runs a command, is stopped or gone, or is slow.
MayTimeOut == "slow" \in Lapses \/ ~sh.up \/ sh.at \in {"run", "stopped"}

FeedTimesOut ==
    /\ mc.pc = "select" /\ mc.why \in {"init", "clear", "cd", "retry"}
    /\ MayTimeOut /\ sh.pipe = <<>>
    /\ Becomes(Return(Now, FALSE)) /\ UNCHANGED log

ReadAnswer ==
    /\ mc.pc = "ask" /\ sh.answers > 0
    /\ Becomes(Asked([Now EXCEPT !.sh.answers = 0], TRUE)) /\ UNCHANGED log

AskTimesOut ==
    /\ mc.pc = "ask" /\ sh.answers = 0 /\ MayTimeOut
    /\ Becomes(Asked(Now, FALSE)) /\ UNCHANGED log

\* sigchld_handler; it wakes feed_subshell unless that has not begun to wait.
SigChld(woken) ==
    /\ sh.news # "none" /\ (woken \/ "between" \in Lapses)
    /\ mc' = [mc EXCEPT !.stopped = @ \/ sh.news = "stopped",
                        !.alive = @ /\ sh.news = "stopped",
                        !.quit = @ \/ sh.news = "left",
                        !.pc = IF @ = "select" /\ woken THEN "feed" ELSE @]
    /\ sh' = [sh EXCEPT !.news = "none"] /\ UNCHANGED log

---------------------------------------------------------------------------
(* The user. *)

AtKeys == mc.pc = "keys" /\ mc.use
InShell == mc.pc = "select" /\ mc.why = "job" /\ sh.pipe = <<>>

Cd(d) ==
    /\ AtKeys /\ d # mc.dir /\ Becomes(Chdir([Now EXCEPT !.mc.dir = d])) /\ UNCHANGED log

Toggle == AtKeys /\ Becomes(Chdir([Now EXCEPT !.mc.want = "toggle"])) /\ UNCHANGED log

Given == log' = [log EXCEPT !.given = @ + 1]
MayGive == log.given < MaxCmds

\* shell_execute.
Execute ==
    /\ AtKeys /\ MayGive /\ mc.state = "INACTIVE"
    /\ Becomes(Chdir([Now EXCEPT !.mc.want = "cmd"])) /\ Given

\* ^O in the shell.
SwitchKey ==
    /\ InShell
    /\ Becomes(IF ~mc.ready THEN Back(Now)
               ELSE LET t == [Now EXCEPT !.mc.state = "INACTIVE"]
                    IN  IF mc.buffer THEN AskBuffer(t, "ask") ELSE Back(t))
    /\ UNCHANGED log

TypeLine ==
    /\ InShell /\ MayGive /\ ("ahead" \in Lapses \/ (sh.at = "prompt" /\ sh.line = <<>>))
    /\ Becomes([Write(Now, "cmd", Home) EXCEPT !.mc.ready = FALSE]) /\ Given

\* An answer to a command that asks.
TypeAnswer ==
    /\ InShell /\ sh.at = "run" /\ sh.asks
    /\ Becomes([Now EXCEPT !.sh.asks = FALSE, !.mc.ready = FALSE]) /\ UNCHANGED log

\* The shell was left: quiet_quit_cmd, or a new one.
Quit ==
    /\ mc.pc = "quit"
    /\ \/ mc' = [mc EXCEPT !.pc = "ended"] /\ UNCHANGED sh
       \/ Becomes(Start([Now EXCEPT !.mc.quit = FALSE]))
    /\ UNCHANGED log

---------------------------------------------------------------------------
(* The shell, with what init_subshell_precmd has it do before each prompt. *)

Done(h) == [h EXCEPT !.at = IF h.hooked THEN "tell" ELSE "prompt"]

ShReads ==
    /\ sh.up /\ sh.at = "prompt" /\ sh.line # <<>>
    /\ LET e == Head(sh.line)
           h == [sh EXCEPT !.line = Tail(@)]
       IN  \/ e.op = "setup" /\ sh' = Done([h EXCEPT !.hooked = TRUE]) /\ UNCHANGED log
           \/ e.op = "ask" /\ sh' = [h EXCEPT !.answers = @ + (IF h.hooked THEN 1 ELSE 0)]
              /\ UNCHANGED log
           \/ e.op = "cd" /\ UNCHANGED log
              /\ \E d \in {sh.cwd, e.dir} : sh' = Done([h EXCEPT !.cwd = d])
           \/ e.op = "cmd" /\ log' = [log EXCEPT !.ran = @ + 1]
              /\ \E asks \in BOOLEAN : sh' = [h EXCEPT !.at = "run", !.asks = asks]
    /\ UNCHANGED mc

JobEnds ==
    /\ sh.up /\ sh.at = "run" /\ ~sh.asks
    /\ \E d \in Dirs : sh' = Done([sh EXCEPT !.cwd = d])
    /\ UNCHANGED <<mc, log>>

ShTells ==
    /\ sh.up /\ sh.at = "tell"
    /\ sh' = [sh EXCEPT !.pipe = Append(@, sh.cwd), !.at = "stop"] /\ UNCHANGED <<mc, log>>

ShStops ==
    /\ sh.up /\ sh.at = "stop"
    /\ sh' = [sh EXCEPT !.at = "stopped", !.news = "stopped"] /\ UNCHANGED <<mc, log>>

ShDies(how) ==
    /\ how \in Lapses /\ sh.up /\ log.deaths < MaxDeaths
    /\ how = "left" => sh.at = "run"
    /\ sh' = [sh EXCEPT !.up = FALSE, !.at = "prompt", !.asks = FALSE, !.news = how]
    /\ log' = [log EXCEPT !.deaths = @ + 1] /\ UNCHANGED mc

McStep == Top \/ ReadCwd \/ Sync \/ FeedTimesOut \/ ReadAnswer \/ AskTimesOut \/ SigChld(TRUE)
ShStep == ShReads \/ JobEnds \/ ShTells \/ ShStops

ShellNext ==
    \/ McStep \/ SigChld(FALSE) \/ ShStep
    \/ \E d \in Dirs : Cd(d)
    \/ Toggle \/ Execute \/ SwitchKey \/ TypeLine \/ TypeAnswer \/ Quit
    \/ \E how \in {"left", "killed"} : ShDies(how)

\* The file manager and the shell go on, and the user answers a command that asks.
ShellSpec ==
    /\ ShellInit /\ [][ShellNext]_shellVars
    /\ WF_shellVars(McStep) /\ WF_shellVars(ShStep) /\ WF_shellVars(TypeAnswer)

---------------------------------------------------------------------------
(* What holds. *)

States == {"INACTIVE", "ACTIVE", "RUNNING_COMMAND"}

\* The variables' types; the pipe holds a line for each shell at most.
ShellTypeOK ==
    /\ mc.pc \in {"keys", "feed", "select", "sync", "ask", "quit", "ended"}
    /\ mc.state \in States /\ mc.cwd \in Dirs \cup {Garbled} /\ mc.dir \in Dirs
    /\ sh.at \in {"prompt", "run", "tell", "stop", "stopped"} /\ sh.cwd \in Dirs
    /\ sh.pipe \in Seq(Dirs) /\ Len(sh.pipe) <= 1 + log.deaths
    /\ log.given \in 0..MaxCmds

\* INACTIVE, "awaiting a command", is said of a shell only when it waits at its prompt, in
\* the directory the file manager takes it to be in, and has nothing left to say.
InactiveIsIdle ==
    AtKeys /\ mc.state = "INACTIVE" /\ mc.alive /\ sh.up =>
        /\ sh.at = "prompt" /\ sh.pipe = <<>> /\ mc.cwd = sh.cwd
        /\ \A i \in DOMAIN sh.line : sh.line[i].op = "ask"

\* Every command that was given has begun or lies before the shell: none is thrown away
\* with what is discarded at a prompt.
NoCommandLost ==
    log.given = log.ran + Cardinality({i \in DOMAIN sh.line : sh.line[i].op = "cmd"})
                + (IF mc.want = "cmd" /\ mc.why \in {"clear", "cd", "clearCmd"} THEN 1 ELSE 0)

\* What the file manager takes the shell to be doing is so, and its commands arrive.
ShellInStep == InactiveIsIdle /\ NoCommandLost

\* Who gives a command, or changes the directory, comes back to the panels.
ComesBack ==
    (mc.pc \notin {"keys", "quit", "ended"} /\ mc.state # "ACTIVE")
        ~> (mc.pc \in {"keys", "quit", "ended"} \/ mc.state = "ACTIVE")
=============================================================================
