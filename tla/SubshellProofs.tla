---------------------------- MODULE SubshellProofs ----------------------------
(***************************************************************************)
(* A shell that only the user ends, and that takes less than a second for  *)
(* anything but a command, stays in step with the file manager:            *)
(* ShellInStep, for all directories and any number of commands and shells. *)
(*                                                                         *)
(* A shell at its prompt cannot end here, so each wait of feed_subshell    *)
(* but the one for a command ends with the shell's answer, and the way     *)
(* from the panels to the shell and back is a fixed one.  The invariant    *)
(* says what is so at each place on it (Where), and at all of them: who    *)
(* knows that a shell has ended (Ends), what a shell that is at its prompt *)
(* has said and who has read it (Told), and that a command lies first in   *)
(* the pty, before a shell that is about to read it (Lined).               *)
(***************************************************************************)
EXTENDS Subshell, SequenceTheorems, FiniteSetTheorems, TLAPS

\* Nobody types ahead, and the shell is neither slow nor killed.
Orderly == ShellConstants /\ Lapses \subseteq {"left", "between"}

Ops == {"setup", "ask", "cd", "cmd"}
Item == [op : Ops, dir : Dirs]
Mcs == [pc : {"keys", "feed", "select", "sync", "ask", "quit", "ended"},
        why : {"none", "init", "clear", "cd", "clearCmd", "job", "initAsk", "ask"},
        want : {"none", "toggle", "cmd"}, state : States, ready : BOOLEAN, stopped : BOOLEAN,
        alive : BOOLEAN, cwd : Dirs \cup {Garbled}, dir : Dirs, buffer : BOOLEAN,
        use : BOOLEAN, quit : BOOLEAN]
Shs == [up : BOOLEAN, hooked : BOOLEAN, at : {"prompt", "run", "tell", "stop", "stopped"},
        cwd : Dirs, asks : BOOLEAN, intr : BOOLEAN, line : Seq(Item), pipe : Seq(Dirs),
        answers : Nat, news : {"none", "stopped", "left"}]
Pairs == [mc : Mcs, sh : Shs]
Logs == [given : 0..MaxCmds, ran : Nat, deaths : Nat]

---------------------------------------------------------------------------
(* The invariant, of a pair t of mc and sh. *)

\* A shell ends once, and the file manager has been told or is about to be.
Ends(t) ==
    IF t.sh.up
    THEN t.mc.alive /\ ~t.mc.quit /\ t.sh.news # "left"
    ELSE /\ t.sh.at = "prompt" /\ t.sh.news # "stopped"
         /\ t.mc.alive <=> t.sh.news = "left"
         /\ t.mc.quit <=> ~t.mc.alive

\* A shell stops itself when it has been told to, and SIGCHLD says so once.
Stops(t) ==
    /\ ~t.sh.intr
    /\ t.sh.at \in {"tell", "stop", "stopped"} => t.sh.hooked
    /\ t.sh.at = "stopped" <=> t.mc.stopped \/ t.sh.news = "stopped"
    /\ ~(t.mc.stopped /\ t.sh.news = "stopped")

\* The directory lies in the pipe from when it is told until it is read.
Unread(t) == t.sh.pipe = IF t.sh.at \in {"stop", "stopped"} THEN <<t.sh.cwd>> ELSE <<>>
Told(t) ==
    IF t.mc.pc = "sync"
    THEN t.sh.pipe = <<>> /\ t.sh.at \in {"stop", "stopped"} /\ t.mc.cwd = t.sh.cwd
    ELSE Unread(t)

\* Only what lies first in the pty is a command, and the shell will read it.
Lined(t) == \A i \in DOMAIN t.sh.line : t.sh.line[i].op = "cmd" => i = 1 /\ t.sh.at = "prompt"

\* The shell waits at its prompt, where the file manager takes it to be.
Waits(t) == t.sh.up /\ t.sh.hooked /\ t.sh.at = "prompt" /\ t.mc.ready /\ t.mc.cwd = t.sh.cwd
Nothing(t) == t.sh.line = <<>>
Only(t, what) == Len(t.sh.line) = 1 /\ t.sh.line[1].op = what

\* The shell has at most one command before it, and none if it is said to be ready.
Works(t) ==
    /\ t.sh.hooked /\ (Nothing(t) \/ Only(t, "cmd"))
    /\ t.mc.ready => Waits(t) /\ Nothing(t)

\* The question that is on its way, or has been answered.
Asks(t) == Nothing(t) \/ (Only(t, "ask") /\ t.sh.answers = 0)

\* Before the panels' keys: there is nothing left to do, or a command of the shell runs.
Rests(t) ==
    IF t.mc.state = "INACTIVE" THEN Waits(t) /\ Nothing(t) ELSE Works(t) /\ ~t.mc.ready

Feeding == {"feed", "select", "sync"}
Sending == {"clear", "cd", "clearCmd"}

\* What feed_subshell waits for, and why.
WaitsFor(t, why) ==
    /\ why \in {"init", "job"} \cup Sending
    /\ t.mc.state # "INACTIVE" /\ (why # "job" => t.mc.state = "RUNNING_COMMAND")
    /\ why = "job" => Works(t)
    /\ why \in Sending =>
        /\ t.sh.up /\ t.sh.hooked
        /\ \/ t.sh.at \in {"tell", "stop", "stopped"} /\ Nothing(t)
           \/ why = "cd" /\ t.sh.at = "prompt" /\ Only(t, "cd")

Where(t) ==
    /\ t.mc.why = "clearCmd" => t.mc.want = "cmd"
    /\ t.mc.why \in Sending \cup {"job", "ask"} => t.mc.use
    /\ t.mc.pc = "keys" => t.mc.want = "none" /\ t.mc.why = "none" /\ (t.mc.use => Rests(t))
    /\ t.mc.pc = "ask" =>
        /\ t.mc.why \in {"ask", "initAsk"}
        /\ IF t.mc.state = "INACTIVE" THEN Waits(t) /\ Asks(t)
           ELSE t.mc.why = "initAsk" /\ ~t.mc.use
    /\ t.mc.pc \in {"quit", "ended"} => ~t.mc.alive /\ t.mc.why \notin Sending
    /\ t.mc.pc \in Feeding => WaitsFor(t, t.mc.why)
    /\ t.mc.state = "INACTIVE" => t.mc.pc \in {"keys", "ask"}

\* What holds while a function of common.c is being carried out, and what holds when the
\* file manager, or the shell, may take its next step.
Loose(t) == t \in Pairs /\ Ends(t) /\ Stops(t) /\ Unread(t) /\ Lined(t)
Good(t) == t \in Pairs /\ Ends(t) /\ Stops(t) /\ Told(t) /\ Lined(t) /\ Where(t)

\* The commands that were given and have not begun: the one before the shell, and the one
\* that waits for a cd or for a prompt.
Cmds(t) == IF ~Nothing(t) /\ t.sh.line[1].op = "cmd" THEN 1 ELSE 0
Wants(t) == IF t.mc.want = "cmd" THEN 1 ELSE 0
Owed(t) == Cmds(t) + (IF t.mc.why \in Sending THEN Wants(t) ELSE 0)

InStep == Good(Now) /\ log \in Logs /\ log.given = log.ran + Owed(Now)

---------------------------------------------------------------------------
(* The functions of common.c: what each needs, and what it leaves. *)

LEMMA Written ==
    ASSUME NEW t \in Pairs, NEW what \in Ops, NEW d \in Dirs
    PROVE  LET u == Write(t, what, d)
           IN  /\ u \in Pairs /\ u.mc = t.mc
               /\ u.sh = [t.sh EXCEPT !.line = Append(@, [op |-> what, dir |-> d])]
               /\ u.sh.line = Append(t.sh.line, [op |-> what, dir |-> d])
<1>1. t.sh \in Shs /\ t.sh.line \in Seq(Item) /\ [op |-> what, dir |-> d] \in Item
  BY DEF Pairs, Shs, Item
<1>2. Append(t.sh.line, [op |-> what, dir |-> d]) \in Seq(Item)
  BY <1>1
<1> QED BY <1>1, <1>2 DEF Write, Pairs, Shs

\* Something that is no command is written: nothing else changes.
LEMMA WrittenLoose ==
    ASSUME NEW t, Loose(t), NEW what \in Ops \ {"cmd"}, NEW d \in Dirs
    PROVE  LET u == Write(t, what, d)
           IN  Loose(u) /\ Cmds(u) = Cmds(t)
<1> DEFINE u == Write(t, what, d)
<1>1. /\ u \in Pairs /\ u.mc = t.mc
      /\ u.sh = [t.sh EXCEPT !.line = Append(@, [op |-> what, dir |-> d])]
      /\ u.sh.line = Append(t.sh.line, [op |-> what, dir |-> d])
  BY Written DEF Loose
<1>2. t \in Pairs /\ t.sh \in Shs /\ t.sh.line \in Seq(Item)
  BY DEF Loose, Pairs, Shs
<1>3. Ends(u) /\ Stops(u) /\ Unread(u)
  BY <1>1, <1>2 DEF Loose, Ends, Stops, Unread, Shs
<1>4. Lined(u)
  BY <1>1, <1>2 DEF Loose, Lined, Shs
<1>5. Cmds(u) = Cmds(t)
  BY <1>1, <1>2 DEF Cmds, Nothing
<1> QED BY <1>1, <1>3, <1>4, <1>5 DEF Loose

LEMMA KeysGood ==
    ASSUME NEW t, Loose(t), t.mc.use => Rests(t)
    PROVE  Good(Keys(t)) /\ Owed(Keys(t)) = Cmds(t)
<1> DEFINE u == Keys(t)
<1>1. t \in Pairs /\ t.mc \in Mcs
  BY DEF Loose, Pairs
<1>2. u.mc = [t.mc EXCEPT !.pc = "keys", !.why = "none", !.want = "none"] /\ u.sh = t.sh
  BY <1>1 DEF Keys, Pairs, Mcs
<1>3. u \in Pairs
  BY <1>1 DEF Keys, Pairs, Mcs
<1>4. Ends(u) /\ Stops(u) /\ Told(u) /\ Lined(u)
  BY <1>1, <1>2 DEF Loose, Ends, Stops, Told, Unread, Lined, Mcs
<1>5. Where(u)
  BY <1>1, <1>2 DEF Where, Rests, Waits, Works, Nothing, Only, Mcs, Sending, Feeding
<1>6. Owed(u) = Cmds(t)
  BY <1>1, <1>2 DEF Owed, Cmds, Nothing, Mcs, Sending
<1> QED BY <1>3, <1>4, <1>5, <1>6 DEF Good

\* feed_subshell is called.
LEMMA FeedGood ==
    ASSUME NEW t, Loose(t), NEW why, WaitsFor(t, why),
           why = "clearCmd" => t.mc.want = "cmd", why # "init" => t.mc.use
    PROVE  /\ Good(Feed(t, why))
           /\ Owed(Feed(t, why)) = Cmds(t) + (IF why \in Sending THEN Wants(t) ELSE 0)
<1> DEFINE u == Feed(t, why)
<1>1. t \in Pairs /\ t.mc \in Mcs /\ why \in {"init", "job"} \cup Sending
  BY DEF Loose, Pairs, WaitsFor
<1>2. u.mc = [t.mc EXCEPT !.pc = "feed", !.why = why] /\ u.sh = t.sh
  BY <1>1 DEF Feed, Pairs, Mcs
<1>3. u \in Pairs
  BY <1>1 DEF Feed, Pairs, Mcs, Sending
<1> HIDE DEF u
<1>4. Ends(u) /\ Stops(u) /\ Told(u) /\ Lined(u)
  BY <1>1, <1>2 DEF Loose, Ends, Stops, Told, Unread, Lined, Mcs
<1>5. WaitsFor(u, u.mc.why)
  BY <1>1, <1>2 DEF WaitsFor, Waits, Works, Nothing, Only, Mcs
<1>6. Where(u)
  BY <1>1, <1>2, <1>5 DEF Where, WaitsFor, Mcs, Sending, Feeding
<1>7. Owed(u) = Cmds(t) + (IF why \in Sending THEN Wants(t) ELSE 0)
  BY <1>1, <1>2 DEF Owed, Cmds, Wants, Nothing, Mcs, Sending
<1> QED BY <1>3, <1>4, <1>6, <1>7 DEF Good, u

\* ^C at the prompt: the shell is about to write its directory.
LEMMA InterruptLoose ==
    ASSUME NEW t, Loose(t), t.sh.up, t.sh.hooked, t.sh.at = "prompt"
    PROVE  LET u == Interrupt(t)
           IN  /\ Loose(u) /\ Nothing(u) /\ u.mc = t.mc
               /\ u.sh.up /\ u.sh.hooked /\ u.sh.at = "tell"
<1> DEFINE u == Interrupt(t)
<1>1. t \in Pairs /\ t.sh \in Shs /\ <<>> \in Seq(Item)
  BY DEF Loose, Pairs
<1>2. /\ u.sh = [t.sh EXCEPT !.line = <<>>, !.asks = FALSE, !.intr = FALSE, !.at = "tell"]
      /\ u.mc = t.mc
  BY <1>1 DEF Interrupt, Pairs, Shs
<1>3. u \in Pairs
  BY <1>1 DEF Interrupt, Pairs, Shs
<1>4. Ends(u) /\ Stops(u) /\ Unread(u) /\ Lined(u)
  BY <1>1, <1>2 DEF Loose, Ends, Stops, Unread, Lined, Shs
<1> QED BY <1>1, <1>2, <1>3, <1>4 DEF Loose, Nothing, Shs

LEMMA RunningLoose ==
    ASSUME NEW t, Loose(t)
    PROVE  /\ Loose(Running(t)) /\ Running(t).sh = t.sh
           /\ Running(t).mc = [t.mc EXCEPT !.state = "RUNNING_COMMAND"]
<1> DEFINE u == Running(t)
<1>1. t \in Pairs /\ t.mc \in Mcs
  BY DEF Loose, Pairs
<1>2. u \in Pairs /\ u.sh = t.sh /\ u.mc = [t.mc EXCEPT !.state = "RUNNING_COMMAND"]
  BY <1>1 DEF Running, Pairs, Mcs, States
<1> HIDE DEF u
<1>3. Ends(u) /\ Stops(u) /\ Unread(u) /\ Lined(u)
  BY <1>1, <1>2 DEF Loose, Ends, Stops, Unread, Lined, Mcs
<1> QED BY <1>2, <1>3 DEF Loose, u

LEMMA ActiveLoose ==
    ASSUME NEW t, Loose(t)
    PROVE  /\ Loose(Active(t)) /\ Active(t).sh = t.sh
           /\ Active(t).mc = [t.mc EXCEPT !.state = "ACTIVE"]
<1> DEFINE u == Active(t)
<1>1. t \in Pairs /\ t.mc \in Mcs
  BY DEF Loose, Pairs
<1>2. u \in Pairs /\ u.sh = t.sh /\ u.mc = [t.mc EXCEPT !.state = "ACTIVE"]
  BY <1>1 DEF Active, Pairs, Mcs, States
<1> HIDE DEF u
<1>3. Ends(u) /\ Stops(u) /\ Unread(u) /\ Lined(u)
  BY <1>1, <1>2 DEF Loose, Ends, Stops, Unread, Lined, Mcs
<1> QED BY <1>2, <1>3 DEF Loose, u

\* A command is written only to a shell that is at its prompt, with nothing before it.
LEMMA CommandGood ==
    ASSUME Orderly, NEW t, Loose(t), t.mc.use, t.sh.hooked, t.sh.at = "prompt", Nothing(t)
    PROVE  Good(GiveCommand(t)) /\ Owed(GiveCommand(t)) = 1
<1> DEFINE e == [op |-> "cmd", dir |-> Home]
           w == Write(t, "cmd", Home)
           r == Running(w)
           u == [r EXCEPT !.mc.ready = FALSE]
<1>1. t \in Pairs /\ t.mc \in Mcs /\ t.sh \in Shs /\ Home \in Dirs /\ t.sh.line = <<>>
  BY DEF Loose, Pairs, Orderly, ShellConstants, Nothing
<1>2. /\ w \in Pairs /\ w.mc = t.mc /\ w.sh = [t.sh EXCEPT !.line = Append(@, e)]
      /\ w.sh.line = Append(t.sh.line, e)
  BY <1>1, Written DEF Ops
<1>3. e.op = "cmd" /\ Append(<<>>, e) = <<e>>
  OBVIOUS
<1> HIDE DEF e, w
<1>4. w.sh \in Shs /\ w.sh = [t.sh EXCEPT !.line = <<e>>] /\ w.sh.line = <<e>>
  BY <1>1, <1>2, <1>3 DEF Pairs
<1>5. r \in Pairs /\ r.sh = w.sh /\ r.mc = [t.mc EXCEPT !.state = "RUNNING_COMMAND"]
  BY <1>1, <1>2 DEF Running, Pairs, Mcs, States
<1> HIDE DEF r
<1>5b. u \in Pairs /\ u.sh = w.sh /\ u.mc = [r.mc EXCEPT !.ready = FALSE]
  BY <1>5 DEF Pairs, Mcs
<1> HIDE DEF u
<1>6. Ends(u) /\ Stops(u) /\ Unread(u) /\ Lined(u)
  BY <1>1, <1>3, <1>4, <1>5, <1>5b DEF Loose, Ends, Stops, Unread, Lined, Mcs, Shs
<1>7. Only(u, "cmd") /\ ~Nothing(u)
  BY <1>3, <1>4, <1>5b DEF Only, Nothing
<1>8. Cmds(u) = 1 /\ Loose(u) /\ u.mc.use
  BY <1>1, <1>5, <1>5b, <1>6, <1>7 DEF Cmds, Only, Loose, Mcs
<1>9. WaitsFor(u, "job")
  BY <1>1, <1>4, <1>5, <1>5b, <1>7 DEF WaitsFor, Works, Only, Nothing, Mcs, Shs, Sending
<1>10. Good(Feed(u, "job")) /\ Owed(Feed(u, "job")) = 1 + 0
  BY <1>8, <1>9, FeedGood DEF Sending
<1> QED BY <1>10 DEF GiveCommand, u, r, w

LEMMA SendCdGood ==
    ASSUME NEW t, Loose(t), t.mc.use, Waits(t), Nothing(t)
    PROVE  Good(SendCd(t)) /\ Owed(SendCd(t)) = Wants(t)
<1> DEFINE e == [op |-> "cd", dir |-> t.mc.dir]
           w == Write(t, "cd", t.mc.dir)
           u == Running(w)
<1>1. t \in Pairs /\ t.mc \in Mcs /\ t.sh \in Shs /\ t.mc.dir \in Dirs /\ t.sh.line = <<>>
  BY DEF Loose, Pairs, Mcs, Nothing
<1>2. /\ w.mc = t.mc /\ w.sh = [t.sh EXCEPT !.line = Append(@, e)]
      /\ w.sh.line = Append(t.sh.line, e)
  BY <1>1, Written DEF Ops
<1>3. e.op = "cd" /\ Append(<<>>, e) = <<e>>
  OBVIOUS
<1>4. Loose(w) /\ Cmds(w) = 0
  BY <1>1, WrittenLoose DEF Ops, Cmds, Nothing
<1> HIDE DEF e, w
<1>5. /\ u.mc = [t.mc EXCEPT !.state = "RUNNING_COMMAND"] /\ u.sh = w.sh /\ Loose(u)
  BY <1>2, <1>4, RunningLoose
<1> HIDE DEF u
<1>6. Only(u, "cd") /\ u.sh.up /\ u.sh.hooked /\ u.sh.at = "prompt"
  BY <1>1, <1>2, <1>3, <1>5 DEF Only, Waits, Shs
<1>7. WaitsFor(u, "cd")
  BY <1>1, <1>5, <1>6 DEF WaitsFor, Only, Nothing, Mcs, Sending
<1>8. u.mc.use /\ Cmds(u) = 0 /\ Wants(u) = Wants(t)
  BY <1>1, <1>4, <1>5 DEF Cmds, Nothing, Wants, Mcs
<1>9. Good(Feed(u, "cd")) /\ Owed(Feed(u, "cd")) = Cmds(u) + Wants(u)
  BY <1>5, <1>7, <1>8, FeedGood DEF Sending
<1> QED BY <1>8, <1>9 DEF SendCd, Wants, u, w

\* After ^C the file manager waits for the prompt, "clear" or "clearCmd".
LEMMA ClearGood ==
    ASSUME NEW t, Loose(t), t.mc.use, Waits(t), NEW why \in {"clear", "clearCmd"},
           why = "clearCmd" => t.mc.want = "cmd"
    PROVE  LET u == Feed(Running(Interrupt(t)), why)
           IN  Good(u) /\ Owed(u) = Wants(t)
<1> DEFINE i == Interrupt(t)
           u == Running(i)
<1>1. t \in Pairs /\ t.mc \in Mcs
  BY DEF Loose, Pairs
<1>2. Loose(i) /\ Nothing(i) /\ i.mc = t.mc /\ i.sh.up /\ i.sh.hooked /\ i.sh.at = "tell"
  BY InterruptLoose DEF Waits
<1> HIDE DEF i
<1>3. Loose(u) /\ u.sh = i.sh /\ u.mc = [t.mc EXCEPT !.state = "RUNNING_COMMAND"]
  BY <1>2, RunningLoose
<1> HIDE DEF u
<1>4. WaitsFor(u, why)
  BY <1>1, <1>2, <1>3 DEF WaitsFor, Nothing, Mcs, Sending, Loose
<1>5. u.mc.use /\ Cmds(u) = 0 /\ Wants(u) = Wants(t) /\ (why = "clearCmd" => u.mc.want = "cmd")
  BY <1>1, <1>2, <1>3 DEF Cmds, Nothing, Wants, Mcs
<1>6. Good(Feed(u, why)) /\ Owed(Feed(u, why)) = Cmds(u) + Wants(u)
  BY <1>3, <1>4, <1>5, FeedGood DEF Sending
<1> QED BY <1>5, <1>6 DEF Wants, u, i

\* invoke_subshell, where its do_subshell_chdir has left it.
LEMMA InvokeGood ==
    ASSUME Orderly, NEW t, Loose(t), t.mc.use, Rests(t),
           t.mc.want = "cmd" => t.mc.state = "INACTIVE"
    PROVE  Good(Invoke(t)) /\ Owed(Invoke(t)) = Cmds(t) + Wants(t)
<1>1. t \in Pairs /\ t.mc \in Mcs
  BY DEF Loose, Pairs
<1>2. CASE t.mc.want = "none"
  BY <1>2, KeysGood DEF Invoke, Wants, Cmds
<1>3. CASE t.mc.want = "toggle"
  <2> DEFINE u == IF t.mc.state = "INACTIVE" THEN Active(t) ELSE t
  <2>1. Loose(u) /\ u.sh = t.sh /\ u.mc.state # "INACTIVE"
        /\ u.mc = [t.mc EXCEPT !.state = u.mc.state]
    <3>1. CASE t.mc.state = "INACTIVE"
      BY <3>1, <1>1, ActiveLoose DEF Mcs
    <3>2. CASE t.mc.state # "INACTIVE"
      BY <3>2, <1>1 DEF Mcs
    <3> QED BY <3>1, <3>2
  <2> HIDE DEF u
  <2>2. WaitsFor(u, "job")
    BY <1>1, <2>1 DEF Rests, WaitsFor, Works, Waits, Nothing, Only, Mcs, Sending
  <2>3. u.mc.use /\ Cmds(u) = Cmds(t)
    BY <1>1, <2>1 DEF Mcs, Cmds, Nothing
  <2>4. Good(Feed(u, "job")) /\ Owed(Feed(u, "job")) = Cmds(u) + 0
    BY <2>1, <2>2, <2>3, FeedGood DEF Sending
  <2>5. Invoke(t) = Feed(u, "job") /\ Wants(t) = 0
    BY <1>3 DEF Invoke, Wants, u
  <2> QED BY <2>3, <2>4, <2>5 DEF Cmds
<1>4. CASE t.mc.want = "cmd"
  <2>1. Waits(t) /\ Nothing(t) /\ Cmds(t) = 0
    BY <1>4 DEF Rests, Cmds
  <2>2. CASE t.mc.buffer
    BY <1>4, <2>1, <2>2, CommandGood DEF Invoke, Wants, Waits
  <2>3. CASE ~t.mc.buffer
    BY <1>4, <2>1, <2>3, ClearGood DEF Invoke, Wants
  <2> QED BY <2>2, <2>3
<1> QED BY <1>1, <1>2, <1>3, <1>4 DEF Mcs

LEMMA ChdirGood ==
    ASSUME Orderly, NEW t, Loose(t), t.mc.use, Rests(t),
           t.mc.want = "cmd" => t.mc.state = "INACTIVE"
    PROVE  Good(Chdir(t)) /\ Owed(Chdir(t)) = Cmds(t) + Wants(t)
<1>1. CASE t.mc.state # "INACTIVE" \/ t.mc.cwd = t.mc.dir
  BY <1>1, InvokeGood DEF Chdir
<1>2. CASE ~(t.mc.state # "INACTIVE" \/ t.mc.cwd = t.mc.dir)
  <2>1. Waits(t) /\ Nothing(t) /\ Cmds(t) = 0
    BY <1>2 DEF Rests, Cmds
  <2>2. CASE t.mc.buffer
    BY <1>2, <2>1, <2>2, SendCdGood DEF Chdir, Wants
  <2>3. CASE ~t.mc.buffer
    BY <1>2, <2>1, <2>3, ClearGood DEF Chdir, Wants
  <2> QED BY <2>2, <2>3
<1> QED BY <1>1, <1>2

\* A shell is started over the old pty: what was written to the one before is read by it.
LEMMA StartGood ==
    ASSUME Orderly, NEW t \in Pairs, Lined(t), t.sh.pipe = <<>>, ~t.mc.quit
    PROVE  Good(Start(t)) /\ Owed(Start(t)) = Cmds(t)
<1> DEFINE born == [Fresh EXCEPT !.line = t.sh.line, !.pipe = t.sh.pipe,
                                 !.answers = t.sh.answers]
           u == [t EXCEPT !.sh = born, !.mc.alive = TRUE, !.mc.stopped = FALSE]
           w == Write(u, "setup", Home)
           r == Running(w)
<1>1. t.mc \in Mcs /\ t.sh \in Shs /\ Home \in Dirs
  BY DEF Pairs, Orderly, ShellConstants
<1>2. /\ born \in Shs /\ born.up /\ born.at = "prompt" /\ born.line = t.sh.line
      /\ born.pipe = <<>> /\ born.news = "none" /\ ~born.intr
  BY <1>1 DEF Fresh, Shs
<1> HIDE DEF born
<1>3. u \in Pairs /\ u.sh = born /\ u.mc = [t.mc EXCEPT !.alive = TRUE, !.stopped = FALSE]
  BY <1>1, <1>2 DEF Pairs, Mcs
<1> HIDE DEF u
<1>4. Loose(u) /\ Cmds(u) = Cmds(t)
  BY <1>1, <1>2, <1>3 DEF Loose, Ends, Stops, Unread, Lined, Cmds, Nothing, Mcs
<1>5. Loose(w) /\ Cmds(w) = Cmds(t)
  BY <1>1, <1>4, WrittenLoose DEF Ops
<1>6. w.mc = u.mc
  BY <1>1, <1>3, Written DEF Ops
<1> HIDE DEF w
<1>7. Loose(r) /\ r.sh = w.sh /\ r.mc = [w.mc EXCEPT !.state = "RUNNING_COMMAND"]
  BY <1>5, RunningLoose
<1> HIDE DEF r
<1>8. WaitsFor(r, "init") /\ Cmds(r) = Cmds(t)
  BY <1>1, <1>3, <1>5, <1>6, <1>7 DEF WaitsFor, Cmds, Nothing, Mcs, Sending
<1>9. Good(Feed(r, "init")) /\ Owed(Feed(r, "init")) = Cmds(r) + 0
  BY <1>7, <1>8, FeedGood DEF Sending
<1>10. Cmds(r) \in Nat
  BY DEF Cmds
<1> QED BY <1>8, <1>9, <1>10 DEF Start, r, w, u, born

\* read_command_line_buffer: the question is all there is before a shell that waits.
LEMMA AskBufferGood ==
    ASSUME Orderly, NEW t, Loose(t), NEW why \in {"ask", "initAsk"}, why = "ask" => t.mc.use,
           IF t.mc.state = "INACTIVE" THEN Waits(t) /\ Nothing(t)
           ELSE why = "initAsk" /\ ~t.mc.use
    PROVE  Good(AskBuffer(t, why)) /\ Owed(AskBuffer(t, why)) = Cmds(t)
<1> DEFINE n == [t EXCEPT !.sh.answers = 0]
           e == [op |-> "ask", dir |-> Home]
           w == Write(n, "ask", Home)
           u == [w EXCEPT !.mc.pc = "ask", !.mc.why = why]
<1>1. t \in Pairs /\ t.mc \in Mcs /\ t.sh \in Shs /\ Home \in Dirs
  BY DEF Loose, Pairs, Orderly, ShellConstants
<1>2. n \in Pairs /\ n.sh = [t.sh EXCEPT !.answers = 0] /\ n.mc = t.mc
  BY <1>1 DEF Pairs, Shs
<1> HIDE DEF n
<1>3. Loose(n) /\ Cmds(n) = Cmds(t)
  BY <1>1, <1>2 DEF Loose, Ends, Stops, Unread, Lined, Cmds, Nothing, Shs
<1>4. Loose(w) /\ Cmds(w) = Cmds(t)
  BY <1>1, <1>3, WrittenLoose DEF Ops
<1>5. /\ w \in Pairs /\ w.mc = t.mc /\ w.sh = [n.sh EXCEPT !.line = Append(@, e)]
      /\ w.sh.line = Append(n.sh.line, e)
  BY <1>1, <1>2, Written DEF Ops
<1>6. e.op = "ask" /\ Append(<<>>, e) = <<e>>
  OBVIOUS
<1> HIDE DEF w, e
<1>7. u \in Pairs /\ u.sh = w.sh /\ u.mc = [t.mc EXCEPT !.pc = "ask", !.why = why]
  BY <1>5 DEF Pairs, Mcs
<1> HIDE DEF u
<1>8. Ends(u) /\ Stops(u) /\ Told(u) /\ Lined(u)
  BY <1>1, <1>4, <1>5, <1>7 DEF Loose, Ends, Stops, Told, Unread, Lined, Mcs
<1>9. Nothing(t) => Asks(u)
  BY <1>1, <1>2, <1>5, <1>6, <1>7 DEF Nothing, Asks, Only, Shs
<1>10. Waits(t) => Waits(u)
  BY <1>1, <1>2, <1>5, <1>7 DEF Waits, Mcs, Shs
<1>11. Where(u)
  BY <1>1, <1>7, <1>9, <1>10 DEF Where, Mcs, Sending, Feeding
<1>12. Owed(u) = Cmds(w) + 0
  BY <1>1, <1>7 DEF Owed, Cmds, Nothing, Sending, Mcs
<1>13. Cmds(w) \in Nat
  BY DEF Cmds
<1> QED BY <1>4, <1>7, <1>8, <1>11, <1>12, <1>13 DEF AskBuffer, Good, u, w, n

\* The end of invoke_subshell.
LEMMA BackGood ==
    ASSUME NEW t, Loose(t), t.mc.alive /\ t.mc.use => Rests(t),
           t.mc.state # "INACTIVE" \/ t.mc.alive, t.mc.why \notin Sending,
           t.mc.why \in {"job", "ask"} => t.mc.use
    PROVE  Good(Back(t)) /\ Owed(Back(t)) = Cmds(t)
<1>1. t \in Pairs /\ t.mc \in Mcs /\ Cmds(t) \in Nat
  BY DEF Loose, Pairs, Cmds
<1>2. CASE t.mc.alive
  <2> DEFINE k == Keys(t)
             u == [k EXCEPT !.mc.dir = IF t.mc.cwd = Garbled THEN @ ELSE t.mc.cwd]
  <2>1. Good(k) /\ Owed(k) = Cmds(t)
    BY <1>2, KeysGood
  <2>2. k.mc.cwd = t.mc.cwd
    BY <1>1 DEF Keys, Pairs, Mcs
  <2> HIDE DEF k
  <2> DEFINE d == IF t.mc.cwd = Garbled THEN k.mc.dir ELSE t.mc.cwd
  <2>3. k \in Pairs /\ k.mc \in Mcs /\ d \in Dirs
    BY <1>1, <2>1 DEF Good, Pairs, Mcs
  <2>4. u = [k EXCEPT !.mc.dir = d]
    OBVIOUS
  <2> HIDE DEF d, u
  <2>5. u \in Pairs /\ u.sh = k.sh /\ u.mc = [k.mc EXCEPT !.dir = d]
    BY <2>3, <2>4 DEF Pairs, Mcs
  <2>6. Ends(u) /\ Stops(u) /\ Told(u) /\ Lined(u)
    BY <2>1, <2>3, <2>5 DEF Good, Ends, Stops, Told, Unread, Lined, Mcs
  <2>7. Where(u)
    BY <2>1, <2>3, <2>5
       DEF Good, Where, WaitsFor, Rests, Waits, Works, Asks, Nothing, Only, Mcs
  <2>8. Owed(u) = Owed(k)
    BY <2>3, <2>5 DEF Owed, Cmds, Wants, Nothing, Mcs
  <2> QED BY <1>2, <2>1, <2>5, <2>6, <2>7, <2>8 DEF Back, Good, u, k
<1>3. CASE ~t.mc.alive
  <2> DEFINE u == [t EXCEPT !.mc.pc = "quit"]
  <2>1. Back(t) = u
    BY <1>3 DEF Back, Loose, Ends
  <2>2. u \in Pairs /\ u.sh = t.sh /\ u.mc = [t.mc EXCEPT !.pc = "quit"]
    BY <1>1 DEF Pairs, Mcs
  <2> HIDE DEF u
  <2>3. Ends(u) /\ Stops(u) /\ Told(u) /\ Lined(u)
    BY <1>1, <2>2 DEF Loose, Ends, Stops, Told, Unread, Lined, Mcs
  <2>4. Where(u)
    BY <1>1, <1>3, <2>2 DEF Where, Sending, Feeding, Mcs
  <2>5. Owed(u) = Cmds(t)
    BY <1>1, <2>2 DEF Owed, Cmds, Nothing, Mcs
  <2> QED BY <2>1, <2>2, <2>3, <2>4, <2>5 DEF Good
<1> QED BY <1>2, <1>3

\* The answer came, or did not: only a shell that is not used fails to answer.
LEMMA AskedGood ==
    ASSUME NEW t, Loose(t), t.mc.why \in {"ask", "initAsk"}, NEW ok \in BOOLEAN,
           t.mc.why = "ask" => t.mc.use /\ ok /\ t.mc.state = "INACTIVE",
           IF t.mc.state = "INACTIVE" THEN Waits(t) /\ Nothing(t) ELSE ~t.mc.use
    PROVE  Good(Asked(t, ok)) /\ Owed(Asked(t, ok)) = Cmds(t)
<1>1. t \in Pairs /\ t.mc \in Mcs
  BY DEF Loose, Pairs
<1>2. t.mc.state = "INACTIVE" => t.mc.alive
  BY DEF Waits, Loose, Ends
<1>3. CASE t.mc.why = "initAsk"
  <2> DEFINE u == [t EXCEPT !.mc.buffer = @ /\ ok]
             b == t.mc.buffer /\ ok
  <2>1. b \in BOOLEAN /\ u = [t EXCEPT !.mc.buffer = b]
    BY <1>1 DEF Mcs
  <2> HIDE DEF b, u
  <2>2. u \in Pairs /\ u.sh = t.sh /\ u.mc = [t.mc EXCEPT !.buffer = b]
    BY <1>1, <2>1 DEF Pairs, Mcs
  <2>3. Loose(u) /\ Cmds(u) = Cmds(t)
    BY <1>1, <2>2 DEF Loose, Ends, Stops, Unread, Lined, Cmds, Nothing, Mcs
  <2>4. /\ u.mc.alive /\ u.mc.use => Rests(u)
        /\ u.mc.state # "INACTIVE" \/ u.mc.alive
        /\ u.mc.why = "initAsk"
    BY <1>1, <1>2, <1>3, <2>2 DEF Rests, Waits, Nothing, Mcs
  <2>5. Good(Back(u)) /\ Owed(Back(u)) = Cmds(u)
    BY <2>3, <2>4, BackGood DEF Sending
  <2> QED BY <1>3, <2>3, <2>5 DEF Asked, u
<1>4. CASE t.mc.why = "ask"
  <2>1. Rests(t)
    BY <1>4 DEF Rests
  <2>2. Good(Back(t)) /\ Owed(Back(t)) = Cmds(t)
    BY <1>2, <1>4, <2>1, BackGood DEF Sending
  <2> QED BY <1>4, <2>2 DEF Asked
<1> QED BY <1>3, <1>4

\* feed_subshell has failed: only a shell that is being started, or that was left, does so.
LEMMA ReturnFails ==
    ASSUME Orderly, NEW t, Loose(t), t.mc.state # "INACTIVE",
           t.mc.why = "init" \/ (t.mc.why = "job" /\ ~t.mc.alive /\ t.mc.use)
    PROVE  Good(Return(t, FALSE)) /\ Owed(Return(t, FALSE)) = Cmds(t)
<1>1. t \in Pairs /\ t.mc \in Mcs
  BY DEF Loose, Pairs
<1>2. CASE t.mc.why = "init"
  <2> DEFINE u == [t EXCEPT !.mc.use = @ /\ FALSE /\ t.mc.alive]
             b == t.mc.use /\ FALSE /\ t.mc.alive
  <2>1. b = FALSE /\ u = [t EXCEPT !.mc.use = b]
    BY <1>1 DEF Mcs
  <2> HIDE DEF b, u
  <2>2. u \in Pairs /\ u.sh = t.sh /\ u.mc = [t.mc EXCEPT !.use = FALSE]
    BY <1>1, <2>1 DEF Pairs, Mcs
  <2>3. Loose(u) /\ Cmds(u) = Cmds(t) /\ ~u.mc.use /\ u.mc.state # "INACTIVE"
        /\ u.mc.why = "init"
    BY <1>1, <1>2, <2>2 DEF Loose, Ends, Stops, Unread, Lined, Cmds, Nothing, Mcs
  <2>4. Good(AskBuffer(u, "initAsk")) /\ Owed(AskBuffer(u, "initAsk")) = Cmds(u)
    BY <2>3, AskBufferGood
  <2>5. Good(Back(u)) /\ Owed(Back(u)) = Cmds(u)
    BY <2>3, BackGood DEF Sending
  <2> QED BY <1>2, <2>3, <2>4, <2>5 DEF Return, u
<1>3. CASE t.mc.why = "job" /\ ~t.mc.alive /\ t.mc.use
  BY <1>3, BackGood DEF Return, Sending
<1> QED BY <1>2, <1>3

\* feed_subshell has seen the prompt.
LEMMA ReturnSucceeds ==
    ASSUME Orderly, NEW t, Loose(t), Waits(t), Nothing(t), t.mc.state = "INACTIVE",
           t.mc.why \in {"init", "job"} \cup Sending, t.mc.why # "init" => t.mc.use,
           t.mc.why = "clearCmd" => t.mc.want = "cmd"
    PROVE  /\ Good(Return(t, TRUE))
           /\ Owed(Return(t, TRUE)) = IF t.mc.why \in Sending THEN Wants(t) ELSE 0
<1>1. t \in Pairs /\ t.mc \in Mcs /\ t.mc.alive /\ Cmds(t) = 0 /\ Rests(t)
  BY DEF Loose, Pairs, Ends, Waits, Cmds, Rests
<1>2. CASE t.mc.why = "init"
  <2> DEFINE u == [t EXCEPT !.mc.use = @ /\ TRUE /\ t.mc.alive]
             b == t.mc.use /\ TRUE /\ t.mc.alive
  <2>1. b = t.mc.use /\ u = [t EXCEPT !.mc.use = b]
    BY <1>1 DEF Mcs
  <2> HIDE DEF b, u
  <2>2. u \in Pairs /\ u.sh = t.sh /\ u.mc = t.mc
    BY <1>1, <2>1 DEF Pairs, Mcs
  <2>3. /\ Loose(u) /\ Waits(u) /\ Nothing(u) /\ Rests(u) /\ Cmds(u) = 0
        /\ u.mc.state = "INACTIVE" /\ u.mc.alive /\ u.mc.why = "init"
    BY <1>1, <1>2, <2>2
       DEF Loose, Ends, Stops, Unread, Lined, Waits, Rests, Cmds, Nothing
  <2>4. Good(AskBuffer(u, "initAsk")) /\ Owed(AskBuffer(u, "initAsk")) = Cmds(u)
    BY <2>3, AskBufferGood
  <2>5. Good(Back(u)) /\ Owed(Back(u)) = Cmds(u)
    BY <2>3, BackGood DEF Sending
  <2> QED BY <1>2, <2>3, <2>4, <2>5 DEF Return, Sending, u
<1>3. CASE t.mc.why = "job"
  BY <1>1, <1>3, BackGood DEF Return, Sending
<1>4. CASE t.mc.why = "clear"
  BY <1>1, <1>4, SendCdGood DEF Return, Sending
<1>5. CASE t.mc.why = "cd"
  <2>1. Good(Invoke(t)) /\ Owed(Invoke(t)) = Cmds(t) + Wants(t)
    BY <1>1, <1>5, InvokeGood
  <2> QED BY <1>1, <1>5, <2>1 DEF Return, Sending, Wants
<1>6. CASE t.mc.why = "clearCmd"
  BY <1>1, <1>6, CommandGood DEF Return, Sending, Waits, Wants
<1> QED BY <1>2, <1>3, <1>4, <1>5, <1>6 DEF Sending

---------------------------------------------------------------------------
(* The steps. *)

LEMMA NowIs ==
    ASSUME Good(Now)
    PROVE  /\ Now \in Pairs /\ Now.mc = mc /\ Now.sh = sh /\ mc \in Mcs /\ sh \in Shs
           /\ Ends(Now) /\ Stops(Now) /\ Told(Now) /\ Lined(Now) /\ Where(Now)
<1>1. Now \in Pairs /\ Now.mc = mc /\ Now.sh = sh
  BY DEF Good, Now
<1> QED BY <1>1 DEF Good, Pairs

LEMMA BecomesGood ==
    ASSUME NEW t, Good(t), mc' = t.mc, sh' = t.sh
    PROVE  Good(Now)' /\ Owed(Now)' = Owed(t)
<1>1. t = [mc |-> t.mc, sh |-> t.sh]
  BY DEF Good, Pairs
<1>2. Now' = t
  BY <1>1 DEF Now
<1> QED BY <1>2

LEMMA TopStep ==
    ASSUME Orderly, InStep, Top
    PROVE  InStep'
<1>1. /\ Good(Now) /\ Now \in Pairs /\ Now.mc = mc /\ Now.sh = sh /\ mc \in Mcs /\ sh \in Shs
      /\ Ends(Now) /\ Stops(Now) /\ Told(Now) /\ Lined(Now) /\ Where(Now)
      /\ mc.pc = "feed" /\ WaitsFor(Now, mc.why) /\ mc.state # "INACTIVE"
  BY NowIs DEF InStep, Top, Where, WaitsFor, Feeding
<1>2. CASE mc.alive
  <2> DEFINE u == [Now EXCEPT !.mc.pc = "select"]
  <2>1. mc' = u.mc /\ sh' = u.sh
    BY <1>2 DEF Top, Becomes
  <2>2. u \in Pairs /\ u.sh = sh /\ u.mc = [mc EXCEPT !.pc = "select"]
    BY <1>1 DEF Pairs, Mcs
  <2> HIDE DEF u
  <2>3. Ends(u) /\ Stops(u) /\ Told(u) /\ Lined(u)
    BY <1>1, <2>2 DEF Ends, Stops, Told, Unread, Lined, Mcs
  <2>4. Where(u)
    BY <1>1, <2>2 DEF Where, WaitsFor, Waits, Works, Nothing, Only, Mcs, Feeding
  <2>5. Owed(u) = Owed(Now)
    BY <1>1, <2>2 DEF Owed, Cmds, Wants, Nothing, Mcs
  <2> QED BY <2>1, <2>2, <2>3, <2>4, <2>5, BecomesGood DEF InStep, Good, Top
<1>3. CASE ~mc.alive
  <2> DEFINE u == Return(Now, FALSE)
  <2>1. mc' = u.mc /\ sh' = u.sh
    BY <1>3 DEF Top, Becomes
  <2>2. ~sh.up /\ sh.at = "prompt"
    BY <1>1, <1>3 DEF Ends
  <2>3. mc.why \notin Sending
    BY <1>1, <2>2 DEF WaitsFor
  <2>4. mc.why = "init" \/ (mc.why = "job" /\ mc.use)
    BY <1>1, <2>3 DEF WaitsFor, Where
  <2>5. Loose(Now)
    BY <1>1 DEF Loose, Told
  <2>6. Good(u) /\ Owed(u) = Cmds(Now)
    BY <1>1, <1>3, <2>4, <2>5, ReturnFails
  <2>7. Owed(Now) = Cmds(Now) + 0 /\ Cmds(Now) \in Nat
    BY <1>1, <2>3 DEF Owed, Cmds
  <2> HIDE DEF u
  <2> QED BY <2>1, <2>6, <2>7, BecomesGood DEF InStep, Top
<1> QED BY <1>2, <1>3

\* The pipe holds one directory, and it is where the shell is.
LEMMA ReadCwdStep ==
    ASSUME Orderly, InStep, ReadCwd
    PROVE  InStep'
<1> DEFINE u == [mc |-> mc', sh |-> sh']
<1>1. /\ Good(Now) /\ Now \in Pairs /\ Now.mc = mc /\ Now.sh = sh /\ mc \in Mcs /\ sh \in Shs
      /\ Ends(Now) /\ Stops(Now) /\ Told(Now) /\ Lined(Now) /\ Where(Now)
      /\ mc.pc = "select" /\ WaitsFor(Now, mc.why)
  BY NowIs DEF InStep, ReadCwd, Where, Feeding
<1>2. sh.pipe = <<sh.cwd>> /\ sh.at \in {"stop", "stopped"}
  BY <1>1 DEF Told, Unread, ReadCwd
<1>3. Len(sh.pipe) = 1 /\ Head(sh.pipe) = sh.cwd /\ <<>> \in Seq(Dirs)
  BY <1>2
<1>4. mc' = [mc EXCEPT !.cwd = sh.cwd, !.pc = "sync"] /\ sh' = [sh EXCEPT !.pipe = <<>>]
  BY <1>3 DEF ReadCwd
<1>5. u \in Pairs /\ u.mc = mc' /\ u.sh = sh'
  <2>1. mc' \in Mcs
    BY <1>1, <1>4 DEF Mcs, Shs
  <2>2. sh' \in Shs
    BY <1>1, <1>3, <1>4 DEF Shs
  <2> QED BY <2>1, <2>2 DEF Pairs
<1> HIDE DEF u
<1>6. Ends(u) /\ Stops(u) /\ Told(u) /\ Lined(u)
  BY <1>1, <1>2, <1>4, <1>5 DEF Ends, Stops, Told, Lined, Mcs, Shs
<1>7. Where(u)
  BY <1>1, <1>2, <1>4, <1>5
     DEF Where, WaitsFor, Works, Waits, Nothing, Only, Mcs, Shs, Feeding
<1>8. Owed(u) = Owed(Now)
  BY <1>1, <1>4, <1>5 DEF Owed, Cmds, Wants, Nothing, Mcs, Shs
<1> QED BY <1>5, <1>6, <1>7, <1>8, BecomesGood DEF InStep, Good, ReadCwd

\* What is discarded at the prompt is no command: one would have been read before.
LEMMA SyncStep ==
    ASSUME Orderly, InStep, Sync
    PROVE  InStep'
<1> DEFINE t == IF mc.state = "ACTIVE" THEN Now ELSE [Now EXCEPT !.sh.line = <<>>]
           c == Continue(t)
           u == [c EXCEPT !.mc.stopped = FALSE, !.mc.ready = TRUE]
           i == [u EXCEPT !.mc.state = "INACTIVE"]
           f == [u EXCEPT !.mc.pc = "feed"]
<1>1. /\ Good(Now) /\ Now \in Pairs /\ Now.mc = mc /\ Now.sh = sh /\ mc \in Mcs /\ sh \in Shs
      /\ Ends(Now) /\ Stops(Now) /\ Told(Now) /\ Lined(Now) /\ Where(Now)
      /\ mc.pc = "sync" /\ WaitsFor(Now, mc.why) /\ (mc.stopped \/ ~mc.alive)
  BY NowIs DEF InStep, Sync, Where, Feeding
<1>2. sh.up /\ mc.alive /\ sh.at = "stopped" /\ sh.hooked /\ mc.stopped /\ sh.news = "none"
      /\ sh.pipe = <<>> /\ mc.cwd = sh.cwd
  BY <1>1 DEF Ends, Stops, Told, Shs
<1>3. Cmds(Now) = 0 /\ (mc.why = "job" => sh.line = <<>>) /\ mc.state # "INACTIVE"
  <2>1. sh.line \in Seq(Item)
    BY <1>1 DEF Shs
  <2> QED BY <1>1, <1>2, <2>1 DEF Cmds, Lined, WaitsFor, Works, Nothing, Only
<1>4. t \in Pairs /\ t.mc = mc /\ t.sh = [sh EXCEPT !.line = <<>>]
  <2>1. CASE mc.state = "ACTIVE"
    BY <1>1, <1>3, <2>1 DEF WaitsFor, Shs
  <2>2. CASE mc.state # "ACTIVE"
    <3>1. <<>> \in Seq(Item)
      OBVIOUS
    <3> QED BY <1>1, <2>2, <3>1 DEF Pairs, Shs
  <2> QED BY <2>1, <2>2
<1> HIDE DEF t
<1>5. c \in Pairs /\ c.mc = mc /\ c.sh = [t.sh EXCEPT !.intr = FALSE, !.at = "prompt"]
  BY <1>1, <1>2, <1>4 DEF Continue, Pairs, Shs, Stops
<1> HIDE DEF c
<1>6. u \in Pairs /\ u.sh = c.sh /\ u.mc = [mc EXCEPT !.stopped = FALSE, !.ready = TRUE]
  BY <1>1, <1>5 DEF Pairs, Mcs
<1> HIDE DEF u
<1>7. /\ u.sh.up /\ u.sh.at = "prompt" /\ u.sh.line = <<>> /\ u.sh.pipe = <<>> /\ ~u.sh.intr
      /\ u.sh.hooked /\ u.sh.news = "none" /\ u.sh.cwd = sh.cwd
  BY <1>1, <1>2, <1>4, <1>5, <1>6 DEF Shs
<1>8. log' = log /\ Owed(Now) = IF mc.why \in Sending THEN Wants(Now) ELSE 0
  BY <1>1, <1>3 DEF Sync, Owed, Wants
<1>9. CASE mc.state = "RUNNING_COMMAND"
  <2>1. i \in Pairs /\ i.sh = u.sh /\ i.mc = [u.mc EXCEPT !.state = "INACTIVE"]
    BY <1>6 DEF Pairs, Mcs, States
  <2>2. LET r == Return(i, TRUE) IN mc' = r.mc /\ sh' = r.sh
    BY <1>9 DEF Sync, Becomes, i, u, c, t
  <2> HIDE DEF i
  <2>3. Loose(i)
    BY <1>1, <1>2, <1>6, <1>7, <2>1 DEF Loose, Ends, Stops, Unread, Lined, Mcs
  <2>4. Waits(i) /\ Nothing(i) /\ i.mc.state = "INACTIVE"
    BY <1>1, <1>2, <1>6, <1>7, <2>1 DEF Waits, Nothing, Mcs
  <2>5. i.mc.why = mc.why /\ i.mc.use = mc.use /\ i.mc.want = mc.want
    BY <1>1, <1>6, <2>1 DEF Mcs
  <2>6. /\ mc.why \in {"init", "job"} \cup Sending /\ (mc.why # "init" => mc.use)
        /\ mc.why = "clearCmd" => mc.want = "cmd"
    BY <1>1 DEF WaitsFor, Where
  <2>7. /\ Good(Return(i, TRUE))
        /\ Owed(Return(i, TRUE)) = IF mc.why \in Sending THEN Wants(i) ELSE 0
    BY <2>3, <2>4, <2>5, <2>6, ReturnSucceeds
  <2>8. Wants(i) = Wants(Now)
    BY <1>1, <2>5 DEF Wants
  <2> QED BY <1>8, <2>2, <2>7, <2>8, BecomesGood DEF InStep
<1>10. CASE mc.state = "ACTIVE"
  <2>1. f \in Pairs /\ f.sh = u.sh /\ f.mc = [u.mc EXCEPT !.pc = "feed"]
    BY <1>6 DEF Pairs, Mcs
  <2>2. mc' = f.mc /\ sh' = f.sh
    BY <1>10 DEF Sync, Becomes, f, u, c, t
  <2> HIDE DEF f
  <2>3. Ends(f) /\ Stops(f) /\ Told(f) /\ Lined(f)
    BY <1>1, <1>2, <1>6, <1>7, <2>1 DEF Ends, Stops, Told, Unread, Lined, Mcs
  <2>4. mc.why = "job"
    BY <1>1, <1>10 DEF WaitsFor
  <2>5. Where(f)
    BY <1>1, <1>2, <1>6, <1>7, <1>10, <2>1, <2>4
       DEF Where, WaitsFor, Works, Waits, Nothing, Only, Mcs, Feeding, Sending
  <2>6. Owed(f) = 0 /\ Owed(Now) = 0
    BY <1>1, <1>6, <1>7, <1>8, <2>1, <2>4 DEF Owed, Cmds, Nothing, Mcs, Sending
  <2> QED BY <1>8, <2>1, <2>2, <2>3, <2>5, <2>6, BecomesGood DEF InStep, Good
<1> QED BY <1>1, <1>3, <1>9, <1>10 DEF Mcs, States

\* Only a shell that is being started is waited for in vain.
LEMMA FeedTimesOutStep ==
    ASSUME Orderly, InStep, FeedTimesOut
    PROVE  InStep'
<1> DEFINE u == Return(Now, FALSE)
<1>1. /\ Good(Now) /\ Now \in Pairs /\ Now.mc = mc /\ Now.sh = sh /\ mc \in Mcs /\ sh \in Shs
      /\ Ends(Now) /\ Stops(Now) /\ Told(Now) /\ Lined(Now) /\ Where(Now)
      /\ mc.pc = "select" /\ WaitsFor(Now, mc.why) /\ sh.pipe = <<>>
  BY NowIs DEF InStep, FeedTimesOut, Where, Feeding
<1>2. ~sh.up \/ sh.at \in {"run", "stopped"}
  BY DEF FeedTimesOut, MayTimeOut, Orderly
<1>3. sh.at # "stopped"
  BY <1>1 DEF Told, Unread
<1>4. mc.why = "init" /\ mc.why \notin Sending
  BY <1>1, <1>2, <1>3 DEF FeedTimesOut, WaitsFor, Sending
<1>5. Loose(Now)
  BY <1>1 DEF Loose, Told
<1>6. Good(u) /\ Owed(u) = Cmds(Now)
  BY <1>1, <1>4, <1>5, ReturnFails DEF WaitsFor
<1>7. Owed(Now) = Cmds(Now) + 0 /\ Cmds(Now) \in Nat
  BY <1>1, <1>4 DEF Owed, Cmds
<1>8. mc' = u.mc /\ sh' = u.sh /\ log' = log
  BY DEF FeedTimesOut, Becomes
<1> HIDE DEF u
<1> QED BY <1>6, <1>7, <1>8, BecomesGood DEF InStep

LEMMA ReadAnswerStep ==
    ASSUME Orderly, InStep, ReadAnswer
    PROVE  InStep'
<1> DEFINE t == [Now EXCEPT !.sh.answers = 0]
           u == Asked(t, TRUE)
<1>1. /\ Good(Now) /\ Now \in Pairs /\ Now.mc = mc /\ Now.sh = sh /\ mc \in Mcs /\ sh \in Shs
      /\ Ends(Now) /\ Stops(Now) /\ Told(Now) /\ Lined(Now) /\ Where(Now)
      /\ mc.pc = "ask" /\ sh.answers # 0
  BY NowIs DEF InStep, ReadAnswer, Shs
<1>2. t \in Pairs /\ t.mc = mc /\ t.sh = [sh EXCEPT !.answers = 0]
  BY <1>1 DEF Pairs, Shs
<1>3. mc' = u.mc /\ sh' = u.sh /\ log' = log
  BY DEF ReadAnswer, Becomes
<1> HIDE DEF t
<1>4. Loose(t) /\ Cmds(t) = Cmds(Now)
  BY <1>1, <1>2 DEF Loose, Ends, Stops, Told, Unread, Lined, Cmds, Nothing, Shs
<1>5. IF t.mc.state = "INACTIVE" THEN Waits(t) /\ Nothing(t) ELSE ~t.mc.use
  BY <1>1, <1>2 DEF Where, Waits, Asks, Nothing, Shs
<1>6. /\ t.mc.why \in {"ask", "initAsk"}
      /\ t.mc.why = "ask" => t.mc.use /\ t.mc.state = "INACTIVE"
  BY <1>1, <1>2 DEF Where
<1>7. Good(u) /\ Owed(u) = Cmds(Now)
  BY <1>4, <1>5, <1>6, AskedGood
<1>8. Owed(Now) = Cmds(Now) + 0 /\ Cmds(Now) \in Nat
  BY <1>1, <1>2, <1>6 DEF Owed, Cmds, Sending
<1> HIDE DEF u
<1> QED BY <1>3, <1>7, <1>8, BecomesGood DEF InStep

LEMMA AskTimesOutStep ==
    ASSUME Orderly, InStep, AskTimesOut
    PROVE  InStep'
<1> DEFINE u == Asked(Now, FALSE)
<1>1. /\ Good(Now) /\ Now \in Pairs /\ Now.mc = mc /\ Now.sh = sh /\ mc \in Mcs /\ sh \in Shs
      /\ Ends(Now) /\ Stops(Now) /\ Told(Now) /\ Lined(Now) /\ Where(Now)
      /\ mc.pc = "ask"
  BY NowIs DEF InStep, AskTimesOut
<1>2. mc' = u.mc /\ sh' = u.sh /\ log' = log
  BY DEF AskTimesOut, Becomes
<1>3. ~sh.up \/ sh.at \in {"run", "stopped"}
  BY DEF AskTimesOut, MayTimeOut, Orderly
<1>4. mc.state # "INACTIVE" /\ mc.why = "initAsk" /\ ~mc.use
  BY <1>1, <1>3 DEF Where, Waits
<1>5. Loose(Now)
  BY <1>1 DEF Loose, Told
<1>6. Good(u) /\ Owed(u) = Cmds(Now)
  BY <1>1, <1>4, <1>5, AskedGood
<1>7. Owed(Now) = Cmds(Now) + 0 /\ Cmds(Now) \in Nat
  BY <1>1, <1>4 DEF Owed, Cmds, Sending
<1> HIDE DEF u
<1> QED BY <1>2, <1>6, <1>7, BecomesGood DEF InStep

LEMMA SigChldStep ==
    ASSUME Orderly, InStep, NEW woken \in BOOLEAN, SigChld(woken)
    PROVE  InStep'
<1> DEFINE u == [mc |-> mc', sh |-> sh']
           pc == IF mc.pc = "select" /\ woken THEN "feed" ELSE mc.pc
<1>1. /\ Good(Now) /\ Now \in Pairs /\ Now.mc = mc /\ Now.sh = sh /\ mc \in Mcs /\ sh \in Shs
      /\ Ends(Now) /\ Stops(Now) /\ Told(Now) /\ Lined(Now) /\ Where(Now)
      /\ sh.news \in {"stopped", "left"}
  BY NowIs DEF InStep, SigChld, Shs
<1>2. /\ mc' = [mc EXCEPT !.stopped = @ \/ sh.news = "stopped",
                          !.alive = @ /\ sh.news = "stopped",
                          !.quit = @ \/ sh.news = "left", !.pc = pc]
      /\ sh' = [sh EXCEPT !.news = "none"] /\ log' = log
      /\ pc = mc.pc \/ (mc.pc = "select" /\ pc = "feed")
  BY DEF SigChld
<1> HIDE DEF pc
<1>3. u \in Pairs /\ u.mc = mc' /\ u.sh = sh'
  <2> DEFINE a == mc.stopped \/ sh.news = "stopped"
             b == mc.alive /\ sh.news = "stopped"
             c == mc.quit \/ sh.news = "left"
  <2>1. a \in BOOLEAN /\ b \in BOOLEAN /\ c \in BOOLEAN
    OBVIOUS
  <2>2. mc' = [mc EXCEPT !.stopped = a, !.alive = b, !.quit = c, !.pc = pc]
    BY <1>2
  <2> HIDE DEF a, b, c
  <2>3. pc \in {"keys", "feed", "select", "sync", "ask", "quit", "ended"}
    BY <1>1, <1>2 DEF Mcs
  <2>4. ASSUME NEW x \in BOOLEAN, NEW y \in BOOLEAN, NEW z \in BOOLEAN,
               NEW q \in {"keys", "feed", "select", "sync", "ask", "quit", "ended"}
        PROVE  [mc EXCEPT !.stopped = x, !.alive = y, !.quit = z, !.pc = q] \in Mcs
    <3>1. mc \in Mcs
      BY <1>1
    <3>2. [mc EXCEPT !.stopped = x] \in Mcs
      BY <3>1 DEF Mcs
    <3>3. [mc EXCEPT !.stopped = x, !.alive = y] \in Mcs
      BY <3>2 DEF Mcs
    <3>4. [mc EXCEPT !.stopped = x, !.alive = y, !.quit = z] \in Mcs
      BY <3>3 DEF Mcs
    <3> QED BY <3>4 DEF Mcs
  <2>5. mc' \in Mcs
    BY <2>1, <2>2, <2>3, <2>4
  <2>6. sh' \in Shs
    BY <1>1, <1>2 DEF Shs
  <2> QED BY <2>5, <2>6 DEF Pairs
<1> HIDE DEF u
<1>4. Ends(u)
  BY <1>1, <1>2, <1>3 DEF Ends, Mcs, Shs
<1>5. Stops(u)
  BY <1>1, <1>2, <1>3 DEF Stops, Mcs, Shs
<1>6. Told(u) /\ Lined(u)
  BY <1>1, <1>2, <1>3 DEF Told, Unread, Lined, Mcs, Shs
<1>7. Where(u)
  BY <1>1, <1>2, <1>3
     DEF Where, WaitsFor, Rests, Works, Waits, Asks, Nothing, Only, Mcs, Shs, Feeding, Ends
<1>8. Owed(u) = Owed(Now)
  BY <1>1, <1>2, <1>3 DEF Owed, Cmds, Wants, Nothing, Mcs, Shs
<1> QED BY <1>2, <1>3, <1>4, <1>5, <1>6, <1>7, <1>8, BecomesGood DEF InStep, Good

---------------------------------------------------------------------------

\* A cd, a command or a toggle at the panels.
LEMMA KeyStep ==
    ASSUME Orderly, InStep, AtKeys, NEW d \in Dirs, NEW w \in {"none", "toggle", "cmd"},
           w = "cmd" => mc.state = "INACTIVE",
           LET t == [Now EXCEPT !.mc.dir = d, !.mc.want = w] IN Becomes(Chdir(t)),
           log' = [log EXCEPT !.given = @ + (IF w = "cmd" THEN 1 ELSE 0)],
           log'.given \in 0..MaxCmds
    PROVE  InStep'
<1> DEFINE t == [Now EXCEPT !.mc.dir = d, !.mc.want = w]
           u == Chdir(t)
<1>1. /\ Good(Now) /\ Now \in Pairs /\ Now.mc = mc /\ Now.sh = sh /\ mc \in Mcs /\ sh \in Shs
      /\ Ends(Now) /\ Stops(Now) /\ Told(Now) /\ Lined(Now) /\ Where(Now)
      /\ mc.pc = "keys" /\ mc.use /\ mc.why = "none" /\ Rests(Now)
  BY NowIs DEF InStep, AtKeys, Where
<1>2. t \in Pairs /\ t.sh = sh /\ t.mc = [mc EXCEPT !.dir = d, !.want = w]
  BY <1>1 DEF Pairs, Mcs
<1>3. mc' = u.mc /\ sh' = u.sh
  BY DEF Becomes
<1> HIDE DEF t
<1>4. Loose(t) /\ Cmds(t) = Cmds(Now)
  BY <1>1, <1>2 DEF Loose, Ends, Stops, Told, Unread, Lined, Cmds, Nothing, Mcs
<1>5. Rests(t) /\ t.mc.use /\ (t.mc.want = "cmd" => t.mc.state = "INACTIVE")
  BY <1>1, <1>2 DEF Rests, Waits, Works, Nothing, Only, Mcs
<1>6. Good(u) /\ Owed(u) = Cmds(t) + Wants(t)
  BY <1>4, <1>5, ChdirGood
<1>7. Owed(Now) = Cmds(Now) + 0 /\ Cmds(Now) \in Nat
      /\ Wants(t) = IF w = "cmd" THEN 1 ELSE 0
  BY <1>1, <1>2 DEF Owed, Cmds, Sending, Wants, Mcs
<1> HIDE DEF u
<1>8. Good(Now)' /\ Owed(Now)' = Cmds(Now) + (IF w = "cmd" THEN 1 ELSE 0)
  BY <1>3, <1>4, <1>6, <1>7, BecomesGood
<1>9. /\ log' \in Logs /\ log'.given = log.given + (IF w = "cmd" THEN 1 ELSE 0)
      /\ log'.ran = log.ran
  BY DEF InStep, Logs
<1> QED BY <1>7, <1>8, <1>9 DEF InStep, Logs

LEMMA CdStep ==
    ASSUME Orderly, InStep, NEW d \in Dirs, Cd(d)
    PROVE  InStep'
<1>1. Now \in Pairs /\ Now.mc = mc /\ mc \in Mcs /\ mc.want = "none" /\ log \in Logs
  BY NowIs DEF InStep, Cd, AtKeys, Where
<1>2. [Now EXCEPT !.mc.dir = d] = [Now EXCEPT !.mc.dir = d, !.mc.want = "none"]
  BY <1>1 DEF Pairs, Mcs
<1>3. log' = [log EXCEPT !.given = @ + 0] /\ log'.given \in 0..MaxCmds
  BY <1>1 DEF Cd, Logs
<1> QED BY <1>2, <1>3, KeyStep DEF Cd

LEMMA ToggleStep ==
    ASSUME Orderly, InStep, Toggle
    PROVE  InStep'
<1>1. Now \in Pairs /\ Now.mc = mc /\ mc \in Mcs /\ mc.dir \in Dirs /\ log \in Logs
  BY NowIs DEF InStep, Mcs
<1>2. [Now EXCEPT !.mc.want = "toggle"] = [Now EXCEPT !.mc.dir = mc.dir, !.mc.want = "toggle"]
  BY <1>1 DEF Pairs, Mcs
<1>3. log' = [log EXCEPT !.given = @ + 0] /\ log'.given \in 0..MaxCmds
  BY <1>1 DEF Toggle, Logs
<1> QED BY <1>1, <1>2, <1>3, KeyStep DEF Toggle

LEMMA ExecuteStep ==
    ASSUME Orderly, InStep, Execute
    PROVE  InStep'
<1>1. /\ Now \in Pairs /\ Now.mc = mc /\ mc \in Mcs /\ mc.dir \in Dirs /\ log \in Logs
      /\ MaxCmds \in Nat
  BY NowIs DEF InStep, Mcs, Orderly, ShellConstants
<1>2. [Now EXCEPT !.mc.want = "cmd"] = [Now EXCEPT !.mc.dir = mc.dir, !.mc.want = "cmd"]
  BY <1>1 DEF Pairs, Mcs
<1>3. log' = [log EXCEPT !.given = @ + 1] /\ log'.given \in 0..MaxCmds
  BY <1>1 DEF Execute, Given, MayGive, Logs
<1> QED BY <1>1, <1>2, <1>3, KeyStep DEF Execute

\* ^O: what is ready is asked for its command line, what is not is left to itself.
LEMMA SwitchKeyStep ==
    ASSUME Orderly, InStep, SwitchKey
    PROVE  InStep'
<1> DEFINE t == [Now EXCEPT !.mc.state = "INACTIVE"]
<1>1. /\ Good(Now) /\ Now \in Pairs /\ Now.mc = mc /\ Now.sh = sh /\ mc \in Mcs /\ sh \in Shs
      /\ Ends(Now) /\ Stops(Now) /\ Told(Now) /\ Lined(Now) /\ Where(Now)
      /\ mc.pc = "select" /\ mc.why = "job" /\ mc.use
      /\ mc.state # "INACTIVE" /\ Works(Now) /\ log' = log
  BY NowIs DEF InStep, SwitchKey, InShell, Where, WaitsFor, Feeding
<1>2. Loose(Now)
  BY <1>1 DEF Loose, Told
<1>3. Owed(Now) = Cmds(Now) + 0 /\ Cmds(Now) \in Nat
  BY <1>1 DEF Owed, Cmds, Sending
<1>4. CASE ~mc.ready
  <2> DEFINE u == Back(Now)
  <2>1. mc' = u.mc /\ sh' = u.sh
    BY <1>4 DEF SwitchKey, Becomes
  <2>2. Good(u) /\ Owed(u) = Cmds(Now)
    BY <1>1, <1>2, <1>4, BackGood DEF Rests, Sending
  <2> HIDE DEF u
  <2> QED BY <1>1, <1>3, <2>1, <2>2, BecomesGood DEF InStep
<1>5. CASE mc.ready
  <2> DEFINE u == IF mc.buffer THEN AskBuffer(t, "ask") ELSE Back(t)
  <2>1. mc' = u.mc /\ sh' = u.sh
    BY <1>5 DEF SwitchKey, Becomes
  <2>2. t \in Pairs /\ t.sh = sh /\ t.mc = [mc EXCEPT !.state = "INACTIVE"]
    BY <1>1 DEF Pairs, Mcs, States
  <2> HIDE DEF t
  <2>3. Loose(t) /\ Cmds(t) = Cmds(Now)
    BY <1>1, <1>2, <2>2 DEF Loose, Ends, Stops, Unread, Lined, Cmds, Nothing, Mcs
  <2>4. Waits(t) /\ Nothing(t)
    BY <1>1, <1>5, <2>2 DEF Works, Waits, Nothing, Mcs
  <2>5. t.mc.use /\ t.mc.state = "INACTIVE" /\ t.mc.why = "job" /\ t.mc.alive
    BY <1>1, <2>2, <2>3, <2>4 DEF Loose, Ends, Waits, Mcs
  <2>6. Good(AskBuffer(t, "ask")) /\ Owed(AskBuffer(t, "ask")) = Cmds(t)
    BY <2>3, <2>4, <2>5, AskBufferGood
  <2>7. Good(Back(t)) /\ Owed(Back(t)) = Cmds(t)
    BY <2>3, <2>4, <2>5, BackGood DEF Rests, Sending
  <2>8. Good(u) /\ Owed(u) = Cmds(Now)
    BY <2>3, <2>6, <2>7
  <2> HIDE DEF u
  <2> QED BY <1>1, <1>3, <2>1, <2>8, BecomesGood DEF InStep
<1> QED BY <1>4, <1>5

\* A line is typed only at an empty prompt.
LEMMA TypeLineStep ==
    ASSUME Orderly, InStep, TypeLine
    PROVE  InStep'
<1> DEFINE e == [op |-> "cmd", dir |-> Home]
           w == Write(Now, "cmd", Home)
           u == [w EXCEPT !.mc.ready = FALSE]
<1>1. /\ Good(Now) /\ Now \in Pairs /\ Now.mc = mc /\ Now.sh = sh /\ mc \in Mcs /\ sh \in Shs
      /\ Ends(Now) /\ Stops(Now) /\ Told(Now) /\ Lined(Now) /\ Where(Now)
      /\ mc.pc = "select" /\ mc.why = "job"
      /\ mc.state # "INACTIVE" /\ Works(Now) /\ Home \in Dirs /\ MaxCmds \in Nat
  BY NowIs DEF InStep, TypeLine, InShell, Where, WaitsFor, Feeding, Orderly, ShellConstants
<1>2. sh.at = "prompt" /\ sh.line = <<>>
  BY DEF TypeLine, Orderly
<1>3. /\ w \in Pairs /\ w.mc = mc /\ w.sh = [sh EXCEPT !.line = Append(@, e)]
      /\ w.sh.line = Append(sh.line, e)
  BY <1>1, Written DEF Ops
<1>4. e.op = "cmd" /\ Append(<<>>, e) = <<e>>
  OBVIOUS
<1>5. mc' = u.mc /\ sh' = u.sh
  BY DEF TypeLine, Becomes
<1> HIDE DEF e, w
<1>6. u \in Pairs /\ u.sh = w.sh /\ u.mc = [mc EXCEPT !.ready = FALSE]
  BY <1>3 DEF Pairs, Mcs
<1> HIDE DEF u
<1>7. u.sh = [sh EXCEPT !.line = <<e>>] /\ u.sh.line = <<e>>
  BY <1>2, <1>3, <1>4, <1>6
<1>8. Ends(u) /\ Stops(u) /\ Told(u) /\ Lined(u)
  BY <1>1, <1>2, <1>4, <1>6, <1>7 DEF Ends, Stops, Told, Unread, Lined, Mcs, Shs
<1>9. Only(u, "cmd") /\ ~Nothing(u)
  BY <1>4, <1>7 DEF Only, Nothing
<1>10. Where(u)
  BY <1>1, <1>6, <1>7, <1>9 DEF Where, WaitsFor, Works, Mcs, Shs, Feeding, Sending
<1>11. Owed(Now) = 0 /\ Owed(u) = 1
  BY <1>1, <1>2, <1>6, <1>9 DEF Owed, Cmds, Nothing, Only, Mcs, Sending
<1>12. Good(Now)' /\ Owed(Now)' = 1
  BY <1>5, <1>6, <1>8, <1>10, <1>11, BecomesGood DEF Good
<1>13. log \in Logs /\ log.given < MaxCmds /\ log' = [log EXCEPT !.given = @ + 1]
  BY DEF InStep, TypeLine, MayGive, Given
<1>14. log' \in Logs /\ log'.given = log.given + 1 /\ log'.ran = log.ran
  BY <1>1, <1>13 DEF Logs
<1> QED BY <1>11, <1>12, <1>13, <1>14 DEF InStep, Logs

LEMMA TypeAnswerStep ==
    ASSUME Orderly, InStep, TypeAnswer
    PROVE  InStep'
<1> DEFINE t == [Now EXCEPT !.sh.asks = FALSE, !.mc.ready = FALSE]
<1>1. /\ Good(Now) /\ Now \in Pairs /\ Now.mc = mc /\ Now.sh = sh /\ mc \in Mcs /\ sh \in Shs
      /\ Ends(Now) /\ Stops(Now) /\ Told(Now) /\ Lined(Now) /\ Where(Now)
      /\ mc.pc = "select" /\ mc.why = "job" /\ mc.state # "INACTIVE" /\ Works(Now)
  BY NowIs DEF InStep, TypeAnswer, InShell, Where, WaitsFor, Feeding
<1>2. mc' = t.mc /\ sh' = t.sh /\ log' = log
  BY DEF TypeAnswer, Becomes
<1>3. /\ t \in Pairs /\ t.sh = [sh EXCEPT !.asks = FALSE]
      /\ t.mc = [mc EXCEPT !.ready = FALSE]
  BY <1>1 DEF Pairs, Mcs, Shs
<1> HIDE DEF t
<1>4. Ends(t) /\ Stops(t) /\ Told(t) /\ Lined(t)
  BY <1>1, <1>3 DEF Ends, Stops, Told, Unread, Lined, Mcs, Shs
<1>5. Where(t)
  BY <1>1, <1>3 DEF Where, WaitsFor, Works, Nothing, Only, Mcs, Shs, Feeding, Sending
<1>6. Owed(t) = Owed(Now)
  BY <1>1, <1>3 DEF Owed, Cmds, Wants, Nothing, Mcs, Shs
<1> QED BY <1>2, <1>3, <1>4, <1>5, <1>6, BecomesGood DEF InStep, Good

LEMMA QuitStep ==
    ASSUME Orderly, InStep, Quit
    PROVE  InStep'
<1>1. /\ Good(Now) /\ Now \in Pairs /\ Now.mc = mc /\ Now.sh = sh /\ mc \in Mcs /\ sh \in Shs
      /\ Ends(Now) /\ Stops(Now) /\ Told(Now) /\ Lined(Now) /\ Where(Now)
      /\ mc.pc = "quit" /\ ~mc.alive /\ mc.why \notin Sending /\ log' = log
  BY NowIs DEF InStep, Quit, Where
<1>2. Owed(Now) = Cmds(Now) + 0 /\ Cmds(Now) \in Nat
  BY <1>1 DEF Owed, Cmds
<1>3. CASE mc' = [mc EXCEPT !.pc = "ended"] /\ UNCHANGED sh
  <2> DEFINE u == [mc |-> mc', sh |-> sh']
  <2>1. u \in Pairs /\ u.mc = [mc EXCEPT !.pc = "ended"] /\ u.sh = sh
    BY <1>1, <1>3 DEF Pairs, Mcs
  <2>2. mc' = u.mc /\ sh' = u.sh
    OBVIOUS
  <2> HIDE DEF u
  <2>3. Ends(u) /\ Stops(u) /\ Told(u) /\ Lined(u)
    BY <1>1, <2>1 DEF Ends, Stops, Told, Unread, Lined, Mcs
  <2>4. Where(u)
    BY <1>1, <2>1 DEF Where, Mcs, Feeding
  <2>5. Owed(u) = Owed(Now)
    BY <1>1, <2>1 DEF Owed, Cmds, Wants, Nothing, Mcs
  <2> QED BY <1>1, <2>1, <2>2, <2>3, <2>4, <2>5, BecomesGood DEF InStep, Good
<1>4. CASE Becomes(Start([Now EXCEPT !.mc.quit = FALSE]))
  <2> DEFINE t == [Now EXCEPT !.mc.quit = FALSE]
             u == Start(t)
  <2>1. t \in Pairs /\ t.sh = sh /\ t.mc = [mc EXCEPT !.quit = FALSE]
    BY <1>1 DEF Pairs, Mcs
  <2>2. mc' = u.mc /\ sh' = u.sh
    BY <1>4 DEF Becomes
  <2> HIDE DEF t
  <2>3. Lined(t) /\ t.sh.pipe = <<>> /\ ~t.mc.quit /\ Cmds(t) = Cmds(Now)
    BY <1>1, <2>1 DEF Ends, Told, Unread, Lined, Cmds, Nothing, Mcs
  <2>4. Good(u) /\ Owed(u) = Cmds(Now)
    BY <2>1, <2>3, StartGood
  <2> HIDE DEF u
  <2> QED BY <1>1, <1>2, <2>2, <2>4, BecomesGood DEF InStep
<1> QED BY <1>3, <1>4 DEF Quit

---------------------------------------------------------------------------

\* A step of the shell is a step of the invariant when it keeps the parts of it.
LEMMA ShellGoes ==
    ASSUME InStep, NEW s \in Shs, sh' = s, mc' = mc,
           LET u == [Now EXCEPT !.sh = s]
           IN  /\ Ends(u) /\ Stops(u) /\ Told(u) /\ Lined(u) /\ Where(u)
               /\ log' \in Logs /\ log'.given - log.given = 0
               /\ log'.ran - log.ran = Cmds(Now) - Cmds(u)
    PROVE  InStep'
<1> DEFINE u == [Now EXCEPT !.sh = s]
<1>1. Now \in Pairs /\ Now.mc = mc /\ mc \in Mcs /\ log \in Logs
  BY NowIs DEF InStep
<1>2. u \in Pairs /\ u.mc = mc' /\ u.sh = sh'
  BY <1>1 DEF Pairs
<1>3. Good(u)
  BY <1>2 DEF Good
<1>4. Good(Now)' /\ Owed(Now)' = Owed(u)
  BY <1>2, <1>3, BecomesGood
<1> HIDE DEF u
<1>5. Cmds(u) \in Nat /\ Cmds(Now) \in Nat /\ Wants(Now) \in Nat /\ Wants(u) = Wants(Now)
      /\ u.mc.why = mc.why
  BY <1>1, <1>2 DEF Cmds, Wants
<1>6. Owed(u) - Cmds(u) = Owed(Now) - Cmds(Now) /\ Owed(u) \in Nat /\ Owed(Now) \in Nat
  BY <1>1, <1>2, <1>5 DEF Owed
<1>7. /\ log' \in Logs /\ log'.given - log.given = 0
      /\ log'.ran - log.ran = Cmds(Now) - Cmds(u) /\ log.given = log.ran + Owed(Now)
  BY DEF InStep, u
<1>8. /\ log'.given \in Nat /\ log'.ran \in Nat /\ log.given \in Nat /\ log.ran \in Nat
  BY <1>1, <1>7 DEF Logs
<1> DEFINE a == Owed(u)
           b == Owed(Now)
           c == Cmds(u)
           d == Cmds(Now)
<1>9. /\ a \in Nat /\ b \in Nat /\ c \in Nat /\ d \in Nat /\ a - c = b - d
      /\ log'.given - log.given = 0 /\ log'.ran - log.ran = d - c /\ log.given = log.ran + b
  BY <1>5, <1>6, <1>7
<1> HIDE DEF a, b, c, d
<1>10. log'.given = log'.ran + a
  BY <1>8, <1>9
<1> QED BY <1>4, <1>7, <1>10 DEF InStep, a

\* What is read was first; there is no command behind it.
LEMMA LineRead ==
    ASSUME NEW t \in Pairs, Lined(t), t.sh.line # <<>>
    PROVE  /\ Tail(t.sh.line) \in Seq(Item) /\ Head(t.sh.line) = t.sh.line[1]
           /\ Head(t.sh.line) \in Item
           /\ \A i \in DOMAIN Tail(t.sh.line) : Tail(t.sh.line)[i].op # "cmd"
           /\ Len(t.sh.line) = 1 => Tail(t.sh.line) = <<>>
           /\ Tail(t.sh.line) # <<>> => Tail(t.sh.line)[1].op # "cmd"
<1> DEFINE l == t.sh.line
<1>1. l \in Seq(Item) /\ l # <<>>
  BY DEF Pairs, Shs
<1>2. \A i \in DOMAIN l : l[i].op = "cmd" => i = 1
  BY DEF Lined
<1> HIDE DEF l
<1>3. Tail(l) \in Seq(Item) /\ Head(l) = l[1] /\ Head(l) \in Item /\ Len(Tail(l)) = Len(l) - 1
  BY <1>1
<1>4. \A i \in DOMAIN Tail(l) : i + 1 \in DOMAIN l /\ Tail(l)[i] = l[i + 1] /\ i + 1 # 1
  BY <1>1, <1>3
<1>5. \A i \in DOMAIN Tail(l) : Tail(l)[i].op # "cmd"
  BY <1>2, <1>4
<1>6. Len(l) = 1 => Tail(l) = <<>>
  <2>1. Len(l) = 1 => Len(Tail(l)) = 0
    BY <1>1, <1>3
  <2> QED BY <1>3, <2>1, EmptySeq
<1>7. Tail(l) # <<>> => 1 \in DOMAIN Tail(l)
  BY <1>3
<1> QED BY <1>3, <1>5, <1>6, <1>7 DEF l

LEMMA ShReadsStep ==
    ASSUME Orderly, InStep, ShReads
    PROVE  InStep'
<1> DEFINE e == Head(sh.line)
           l == Tail(sh.line)
           h == [sh EXCEPT !.line = l]
           v == [Now EXCEPT !.sh = sh']
<1>1. /\ Now \in Pairs /\ Now.mc = mc /\ Now.sh = sh /\ mc \in Mcs /\ sh \in Shs
      /\ Ends(Now) /\ Stops(Now) /\ Told(Now) /\ Lined(Now) /\ Where(Now)
      /\ sh.up /\ sh.at = "prompt" /\ sh.line # <<>> /\ mc' = mc /\ log \in Logs
  BY NowIs DEF InStep, ShReads
<1>2. /\ l \in Seq(Item) /\ e = sh.line[1] /\ e \in Item
      /\ \A i \in DOMAIN l : l[i].op # "cmd"
      /\ Len(sh.line) = 1 => l = <<>>
      /\ l # <<>> => l[1].op # "cmd"
  BY <1>1, LineRead
<1>3. \/ e.op = "setup" /\ sh' = Done([h EXCEPT !.hooked = TRUE]) /\ log' = log
      \/ /\ e.op = "ask" /\ log' = log
         /\ sh' = [h EXCEPT !.answers = @ + (IF h.hooked THEN 1 ELSE 0)]
      \/ /\ e.op = "cd" /\ log' = log
         /\ \E d \in {sh.cwd, e.dir} : sh' = Done([h EXCEPT !.cwd = d])
      \/ /\ e.op = "cmd" /\ log' = [log EXCEPT !.ran = @ + 1]
         /\ \E asks \in BOOLEAN : sh' = [h EXCEPT !.at = "run", !.asks = asks]
  BY DEF ShReads
<1>4. h \in Shs
  BY <1>1, <1>2 DEF Shs
<1> HIDE DEF e, l
\* Whatever is read, the shell goes on to one of four states.
<1>5. /\ sh' \in Shs /\ sh'.line = l /\ sh'.up /\ sh'.pipe = sh.pipe /\ sh'.news = sh.news
      /\ sh'.intr = sh.intr /\ e.op \in Ops
      /\ e.op = "setup" => sh'.hooked /\ sh'.at = "tell"
      /\ e.op = "ask" => sh'.hooked = sh.hooked /\ sh'.at = "prompt" /\ sh'.cwd = sh.cwd
      /\ e.op = "cd" =>
           sh'.hooked = sh.hooked /\ sh'.at = IF sh.hooked THEN "tell" ELSE "prompt"
      /\ e.op = "cmd" => sh'.hooked = sh.hooked /\ sh'.at = "run"
  <2>1. CASE e.op = "setup" /\ sh' = Done([h EXCEPT !.hooked = TRUE])
    BY <1>1, <1>2, <1>4, <2>1 DEF Done, Shs, Ops
  <2>2. CASE e.op = "ask" /\ sh' = [h EXCEPT !.answers = @ + (IF h.hooked THEN 1 ELSE 0)]
    <3> DEFINE n == sh.answers + (IF sh.hooked THEN 1 ELSE 0)
    <3>1. n \in Nat /\ sh' = [sh EXCEPT !.line = l, !.answers = n]
      BY <1>1, <2>2 DEF Shs
    <3> HIDE DEF n
    <3> QED BY <1>1, <1>2, <2>2, <3>1 DEF Shs, Ops
  <2>3. CASE e.op = "cd" /\ \E d \in {sh.cwd, e.dir} : sh' = Done([h EXCEPT !.cwd = d])
    <3>1. PICK d \in {sh.cwd, e.dir} : sh' = Done([h EXCEPT !.cwd = d])
      BY <2>3
    <3>2. d \in Dirs
      BY <1>1, <1>2 DEF Shs, Item
    <3> DEFINE a == IF sh.hooked THEN "tell" ELSE "prompt"
    <3>3. a \in {"tell", "prompt"} /\ sh' = [sh EXCEPT !.line = l, !.cwd = d, !.at = a]
      BY <1>1, <3>1, <3>2 DEF Done, Shs
    <3> HIDE DEF a
    <3> QED BY <1>1, <1>2, <2>3, <3>2, <3>3 DEF Shs, Ops, a
  <2>4. CASE e.op = "cmd" /\ \E asks \in BOOLEAN : sh' = [h EXCEPT !.at = "run", !.asks = asks]
    <3>1. PICK asks \in BOOLEAN : sh' = [h EXCEPT !.at = "run", !.asks = asks]
      BY <2>4
    <3>2. sh' = [sh EXCEPT !.line = l, !.at = "run", !.asks = asks]
      BY <3>1
    <3> HIDE DEF h
    <3> QED BY <1>1, <1>2, <2>4, <3>2 DEF Shs, Ops
  <2> QED BY <1>3, <2>1, <2>2, <2>3, <2>4
<1>6. v \in Pairs /\ v.mc = mc /\ v.sh = sh'
  BY <1>1, <1>5 DEF Pairs
<1> HIDE DEF h, v
<1>7. Cmds(v) = 0 /\ Cmds(Now) = IF e.op = "cmd" THEN 1 ELSE 0
  BY <1>1, <1>2, <1>5, <1>6 DEF Cmds, Nothing
<1>8. mc.pc # "sync" /\ ~(Waits(Now) /\ Nothing(Now))
  BY <1>1 DEF Told, Nothing
<1>9. Ends(v) /\ Stops(v) /\ Told(v) /\ Lined(v)
  BY <1>1, <1>2, <1>5, <1>6, <1>8 DEF Ends, Stops, Told, Unread, Lined, Ops, Shs
\* The shell was alone at its prompt, with one line before it.
<1>10. /\ Works(Now) => sh.hooked /\ Only(Now, "cmd") /\ ~mc.ready
       /\ Asks(Now) => Only(Now, "ask")
       /\ ~Rests(Now) \/ Works(Now)
  BY <1>1, <1>8 DEF Works, Asks, Rests, Nothing
<1>11. Only(Now, "cmd") \/ Only(Now, "ask") \/ Only(Now, "cd") => Nothing(v)
  BY <1>1, <1>2, <1>5, <1>6 DEF Only, Nothing
<1>12. Works(Now) => Works(v)
  BY <1>1, <1>2, <1>5, <1>6, <1>10, <1>11 DEF Works, Only
<1>13. Waits(Now) /\ Asks(Now) => Waits(v) /\ Asks(v)
  BY <1>1, <1>2, <1>5, <1>6, <1>10, <1>11 DEF Waits, Asks, Only
<1>14. mc.pc \in Feeding => WaitsFor(v, mc.why)
  <2>1. mc.pc \in Feeding /\ mc.why \in Sending => sh.hooked /\ e.op = "cd" /\ Only(Now, "cd")
    BY <1>1, <1>2 DEF Where, WaitsFor, Only
  <2> QED BY <1>1, <1>5, <1>6, <1>11, <1>12, <2>1 DEF Where, WaitsFor
<1>15. Where(v)
  BY <1>1, <1>6, <1>8, <1>10, <1>12, <1>13, <1>14 DEF Where, Rests
<1>16. log' \in Logs /\ log'.given - log.given = 0 /\ log'.ran - log.ran = Cmds(Now) - Cmds(v)
  <2>1. CASE e.op = "cmd"
    <3>1. log' = [log EXCEPT !.ran = @ + 1]
      BY <1>3, <2>1
    <3> QED BY <1>1, <1>7, <2>1, <3>1 DEF Logs
  <2>2. CASE e.op # "cmd"
    <3>1. log' = log
      BY <1>3, <2>2
    <3> QED BY <1>1, <1>7, <2>2, <3>1 DEF Logs
  <2> QED BY <2>1, <2>2
<1> QED BY <1>1, <1>5, <1>9, <1>15, <1>16, ShellGoes DEF v

\* A step of the shell that reads nothing.
LEMMA ShellRuns ==
    ASSUME InStep, NEW s \in Shs, sh' = s, mc' = mc, s.line = sh.line,
           log' \in Logs, log'.given = log.given, log'.ran = log.ran,
           LET u == [Now EXCEPT !.sh = s]
           IN  Ends(u) /\ Stops(u) /\ Told(u) /\ Lined(u) /\ Where(u)
    PROVE  InStep'
<1> DEFINE u == [Now EXCEPT !.sh = s]
<1>1. Now \in Pairs /\ Now.sh = sh /\ log \in Logs
  BY NowIs DEF InStep
<1>2. u.sh = s
  BY <1>1 DEF Pairs
<1>3. Cmds(u) = Cmds(Now) /\ Cmds(Now) \in Nat
  BY <1>1, <1>2 DEF Cmds, Nothing
<1>4. log'.given - log.given = 0 /\ log'.ran - log.ran = Cmds(Now) - Cmds(u)
  BY <1>1, <1>3 DEF Logs
<1> QED BY <1>4, ShellGoes

LEMMA JobEndsStep ==
    ASSUME Orderly, InStep, JobEnds
    PROVE  InStep'
<1> DEFINE v == [Now EXCEPT !.sh = sh']
<1>1. /\ Now \in Pairs /\ Now.mc = mc /\ Now.sh = sh /\ mc \in Mcs /\ sh \in Shs
      /\ Ends(Now) /\ Stops(Now) /\ Told(Now) /\ Lined(Now) /\ Where(Now)
      /\ sh.up /\ sh.at = "run" /\ mc' = mc /\ log' = log /\ log \in Logs
  BY NowIs DEF InStep, JobEnds
<1>2. PICK d \in Dirs : sh' = Done([sh EXCEPT !.cwd = d])
  BY DEF JobEnds
<1> DEFINE a == IF sh.hooked THEN "tell" ELSE "prompt"
<1>3. a \in {"tell", "prompt"} /\ sh' = [sh EXCEPT !.cwd = d, !.at = a]
      /\ (a = "tell" <=> sh.hooked)
  BY <1>1, <1>2 DEF Done, Shs
<1> HIDE DEF a
<1>4. sh' \in Shs /\ sh'.line = sh.line
  BY <1>1, <1>3 DEF Shs
<1>5. v \in Pairs /\ v.mc = mc /\ v.sh = sh'
  BY <1>1, <1>4 DEF Pairs
<1> HIDE DEF v
<1>6. mc.pc # "sync" /\ ~Waits(Now)
  BY <1>1 DEF Told, Waits
<1>7. Ends(v) /\ Stops(v) /\ Told(v) /\ Lined(v)
  BY <1>1, <1>3, <1>5, <1>6 DEF Ends, Stops, Told, Unread, Lined, Shs
<1>8. Works(Now) => Works(v)
  BY <1>1, <1>3, <1>4, <1>5, <1>6 DEF Works, Nothing, Only, Shs
<1>9. mc.pc \in Feeding => WaitsFor(v, mc.why)
  BY <1>1, <1>5, <1>8 DEF Where, WaitsFor
<1>10. Where(v)
  BY <1>1, <1>5, <1>6, <1>8, <1>9 DEF Where, Rests
<1> QED BY <1>1, <1>4, <1>7, <1>10, ShellRuns DEF v

\* The shell tells its directory: the pipe is empty before it.
LEMMA ShTellsStep ==
    ASSUME Orderly, InStep, ShTells
    PROVE  InStep'
<1> DEFINE v == [Now EXCEPT !.sh = sh']
<1>1. /\ Now \in Pairs /\ Now.mc = mc /\ Now.sh = sh /\ mc \in Mcs /\ sh \in Shs
      /\ Ends(Now) /\ Stops(Now) /\ Told(Now) /\ Lined(Now) /\ Where(Now)
      /\ sh.up /\ sh.at = "tell" /\ mc' = mc /\ log' = log /\ log \in Logs
  BY NowIs DEF InStep, ShTells
<1>2. mc.pc # "sync" /\ ~Waits(Now) /\ sh.pipe = <<>> /\ sh.cwd \in Dirs
  BY <1>1 DEF Told, Unread, Waits, Shs
<1> DEFINE p == <<sh.cwd>>
<1>3. p \in Seq(Dirs) /\ Append(<<>>, sh.cwd) = p
  BY <1>2
<1>4. sh' = [sh EXCEPT !.pipe = p, !.at = "stop"]
  BY <1>2, <1>3 DEF ShTells
<1>5. sh' \in Shs /\ sh'.line = sh.line
  <2> HIDE DEF p
  <2> QED BY <1>1, <1>3, <1>4 DEF Shs
<1>6. v \in Pairs /\ v.mc = mc /\ v.sh = sh'
  BY <1>1, <1>5 DEF Pairs
<1> HIDE DEF v
<1>7. Ends(v) /\ Stops(v) /\ Told(v) /\ Lined(v)
  BY <1>1, <1>2, <1>4, <1>6 DEF Ends, Stops, Told, Unread, Lined, Shs
<1> HIDE DEF p
<1>8. Works(Now) => Works(v)
  BY <1>1, <1>2, <1>4, <1>5, <1>6 DEF Works, Nothing, Only, Shs
<1>9. mc.pc \in Feeding => WaitsFor(v, mc.why)
  BY <1>1, <1>4, <1>5, <1>6, <1>8 DEF Where, WaitsFor, Nothing, Shs
<1>10. Where(v)
  BY <1>1, <1>2, <1>6, <1>8, <1>9 DEF Where, Rests
<1> QED BY <1>1, <1>5, <1>7, <1>10, ShellRuns DEF v

LEMMA ShStopsStep ==
    ASSUME Orderly, InStep, ShStops
    PROVE  InStep'
<1> DEFINE v == [Now EXCEPT !.sh = sh']
<1>1. /\ Now \in Pairs /\ Now.mc = mc /\ Now.sh = sh /\ mc \in Mcs /\ sh \in Shs
      /\ Ends(Now) /\ Stops(Now) /\ Told(Now) /\ Lined(Now) /\ Where(Now)
      /\ sh.up /\ sh.at = "stop" /\ mc' = mc /\ log' = log /\ log \in Logs
  BY NowIs DEF InStep, ShStops
<1>2. sh' = [sh EXCEPT !.at = "stopped", !.news = "stopped"]
  BY DEF ShStops
<1>3. sh' \in Shs /\ sh'.line = sh.line
  BY <1>1, <1>2 DEF Shs
<1>4. v \in Pairs /\ v.mc = mc /\ v.sh = sh'
  BY <1>1, <1>3 DEF Pairs
<1> HIDE DEF v
<1>5. ~Waits(Now)
  BY <1>1 DEF Waits
<1>6. Ends(v) /\ Stops(v) /\ Told(v) /\ Lined(v)
  BY <1>1, <1>2, <1>4 DEF Ends, Stops, Told, Unread, Lined, Shs
<1>7. Works(Now) => Works(v)
  BY <1>1, <1>2, <1>3, <1>4, <1>5 DEF Works, Nothing, Only, Shs
<1>8. mc.pc \in Feeding => WaitsFor(v, mc.why)
  BY <1>1, <1>2, <1>3, <1>4, <1>7 DEF Where, WaitsFor, Nothing, Shs
<1>9. Where(v)
  BY <1>1, <1>4, <1>5, <1>7, <1>8 DEF Where, Rests
<1> QED BY <1>1, <1>3, <1>6, <1>9, ShellRuns DEF v

\* The user leaves the shell, which is no longer at a prompt that anyone waits for.
LEMMA ShDiesStep ==
    ASSUME Orderly, InStep, NEW how \in {"left", "killed"}, ShDies(how)
    PROVE  InStep'
<1> DEFINE v == [Now EXCEPT !.sh = sh']
<1>1. /\ Now \in Pairs /\ Now.mc = mc /\ Now.sh = sh /\ mc \in Mcs /\ sh \in Shs
      /\ Ends(Now) /\ Stops(Now) /\ Told(Now) /\ Lined(Now) /\ Where(Now)
      /\ how = "left" /\ sh.up /\ sh.at = "run" /\ mc' = mc /\ log \in Logs
  BY NowIs DEF InStep, ShDies, Orderly
<1>2. /\ sh' = [sh EXCEPT !.up = FALSE, !.at = "prompt", !.asks = FALSE, !.news = "left"]
      /\ log' = [log EXCEPT !.deaths = @ + 1]
  BY <1>1 DEF ShDies
<1>3. sh' \in Shs /\ sh'.line = sh.line
  BY <1>1, <1>2 DEF Shs
<1>4. v \in Pairs /\ v.mc = mc /\ v.sh = sh'
  BY <1>1, <1>3 DEF Pairs
<1> HIDE DEF v
<1>5. mc.pc # "sync" /\ ~Waits(Now)
  BY <1>1 DEF Told, Waits
<1>6. Ends(v) /\ Stops(v) /\ Told(v) /\ Lined(v)
  BY <1>1, <1>2, <1>4, <1>5 DEF Ends, Stops, Told, Unread, Lined, Shs
<1>7. Works(Now) => Works(v)
  BY <1>1, <1>2, <1>3, <1>4, <1>5 DEF Works, Nothing, Only, Shs
<1>8. mc.pc \in Feeding => WaitsFor(v, mc.why)
  BY <1>1, <1>4, <1>7 DEF Where, WaitsFor
<1>9. Where(v)
  BY <1>1, <1>4, <1>5, <1>7, <1>8 DEF Where, Rests
<1>10. log' \in Logs /\ log'.given = log.given /\ log'.ran = log.ran
  BY <1>1, <1>2 DEF Logs
<1> QED BY <1>1, <1>3, <1>6, <1>9, <1>10, ShellRuns DEF v

---------------------------------------------------------------------------
(* What is proved. *)

LEMMA ShellStarts ==
    ASSUME Orderly, ShellInit
    PROVE  InStep
<1>1. PICK b \in Shells :
          LET idle == [pc |-> "keys", why |-> "none", want |-> "none", state |-> "INACTIVE",
                       ready |-> FALSE, stopped |-> FALSE, alive |-> FALSE, cwd |-> Home,
                       dir |-> Home, buffer |-> b, use |-> TRUE, quit |-> FALSE]
              t == Start([mc |-> idle, sh |-> Fresh])
          IN  mc = t.mc /\ sh = t.sh /\ log = [given |-> 0, ran |-> 0, deaths |-> 0]
  BY DEF ShellInit
<1> DEFINE idle == [pc |-> "keys", why |-> "none", want |-> "none", state |-> "INACTIVE",
                    ready |-> FALSE, stopped |-> FALSE, alive |-> FALSE, cwd |-> Home,
                    dir |-> Home, buffer |-> b, use |-> TRUE, quit |-> FALSE]
           p == [mc |-> idle, sh |-> Fresh]
           t == Start(p)
<1>2. Home \in Dirs /\ b \in BOOLEAN /\ MaxCmds \in Nat
  BY DEF Orderly, ShellConstants
<1>3. idle \in Mcs /\ ~idle.quit
  BY <1>2 DEF Mcs, States
<1>4. Fresh \in Shs /\ Fresh.line = <<>> /\ Fresh.pipe = <<>>
  BY <1>2 DEF Fresh, Shs
<1>5. mc = t.mc /\ sh = t.sh /\ log = [given |-> 0, ran |-> 0, deaths |-> 0]
  BY <1>1
<1> HIDE DEF idle
<1>6. p \in Pairs /\ p.mc = idle /\ p.sh = Fresh
  BY <1>3, <1>4 DEF Pairs
<1> HIDE DEF p
<1>7. Lined(p) /\ p.sh.pipe = <<>> /\ ~p.mc.quit /\ Cmds(p) = 0
  BY <1>3, <1>4, <1>6 DEF Lined, Cmds, Nothing
<1>8. Good(t) /\ Owed(t) = 0
  BY <1>6, <1>7, StartGood
<1> HIDE DEF t
<1>9. t = [mc |-> t.mc, sh |-> t.sh]
  BY <1>8 DEF Good, Pairs
<1>10. Now = t
  BY <1>5, <1>9 DEF Now
<1>11. log \in Logs /\ log.given = 0 /\ log.ran = 0
  BY <1>2, <1>5 DEF Logs
<1> QED BY <1>8, <1>10, <1>11 DEF InStep

LEMMA ShellSteps ==
    ASSUME Orderly, InStep, [ShellNext]_shellVars
    PROVE  InStep'
<1>1. CASE McStep
  BY <1>1, TopStep, ReadCwdStep, SyncStep, FeedTimesOutStep, ReadAnswerStep, AskTimesOutStep,
     SigChldStep DEF McStep
<1>2. CASE SigChld(FALSE)
  BY <1>2, SigChldStep
<1>3. CASE ShStep
  BY <1>3, ShReadsStep, JobEndsStep, ShTellsStep, ShStopsStep DEF ShStep
<1>4. CASE \E d \in Dirs : Cd(d)
  BY <1>4, CdStep
<1>5. CASE Toggle \/ Execute \/ SwitchKey \/ TypeLine \/ TypeAnswer \/ Quit
  BY <1>5, ToggleStep, ExecuteStep, SwitchKeyStep, TypeLineStep, TypeAnswerStep, QuitStep
<1>6. CASE \E how \in {"left", "killed"} : ShDies(how)
  BY <1>6, ShDiesStep
<1>7. CASE UNCHANGED shellVars
  BY <1>7 DEF shellVars, InStep, Now
<1> QED BY <1>1, <1>2, <1>3, <1>4, <1>5, <1>6, <1>7 DEF ShellNext

\* The variables keep their types, and the pipe never holds a second directory.
THEOREM ShellTypes ==
    ASSUME Orderly
    PROVE  ShellSpec => []ShellTypeOK
<1>1. InStep => ShellTypeOK
  <2> SUFFICES ASSUME InStep PROVE ShellTypeOK
    OBVIOUS
  <2>1. /\ Now.mc = mc /\ Now.sh = sh /\ mc \in Mcs /\ sh \in Shs /\ Told(Now) /\ log \in Logs
    BY NowIs DEF InStep
  <2>2. sh.pipe = <<>> \/ sh.pipe = <<sh.cwd>>
    BY <2>1 DEF Told, Unread
  <2>3. Len(sh.pipe) <= 1 /\ sh.pipe \in Seq(Dirs) /\ log.deaths \in Nat
    <3>1. sh.pipe \in Seq(Dirs) /\ log.deaths \in Nat
      BY <2>1 DEF Shs, Logs
    <3>2. CASE sh.pipe = <<>>
      <4>1. Len(sh.pipe) = 0
        BY <3>2
      <4> QED BY <3>1, <4>1
    <3>3. CASE sh.pipe = <<sh.cwd>>
      <4>1. Len(sh.pipe) = 1
        BY <3>3
      <4> QED BY <3>1, <4>1
    <3> QED BY <2>2, <3>2, <3>3
  <2>4. Len(sh.pipe) \in Nat
    BY <2>3
  <2> QED BY <2>1, <2>3, <2>4 DEF ShellTypeOK, Mcs, Shs, Logs
<1> QED BY <1>1, ShellStarts, ShellSteps, PTL DEF ShellSpec

\* The shell that the file manager takes to wait at its prompt does so, in the directory it
\* is taken to be in, and no command is thrown away with what is discarded there.
THEOREM ShellKeepsStep ==
    ASSUME Orderly
    PROVE  ShellSpec => []ShellInStep
<1>1. InStep => ShellInStep
  <2> SUFFICES ASSUME InStep PROVE ShellInStep
    OBVIOUS
  <2>1. /\ Now.mc = mc /\ Now.sh = sh /\ mc \in Mcs /\ sh \in Shs /\ Now \in Pairs
        /\ Ends(Now) /\ Told(Now) /\ Lined(Now) /\ Where(Now)
    BY NowIs DEF InStep
  <2>2. InactiveIsIdle
    BY <2>1 DEF InactiveIsIdle, AtKeys, Where, Rests, Waits, Nothing, Told, Unread
  <2> DEFINE C == {i \in DOMAIN sh.line : sh.line[i].op = "cmd"}
  <2>3. Cardinality(C) = Cmds(Now)
    <3>1. sh.line \in Seq(Item)
      BY <2>1 DEF Shs
    <3>2. CASE Cmds(Now) = 1
      <4>1. C = {1}
        BY <2>1, <3>1, <3>2 DEF Cmds, Nothing, Lined
      <4> QED BY <3>2, <4>1, FS_Singleton
    <3>3. CASE Cmds(Now) # 1
      <4>1. C = {}
        BY <2>1, <3>1, <3>3 DEF Cmds, Nothing, Lined
      <4> QED BY <3>3, <4>1, FS_EmptySet DEF Cmds
    <3> QED BY <3>2, <3>3
  <2>4. Cmds(Now) \in Nat /\ log \in Logs /\ log.given = log.ran + Owed(Now)
    BY DEF InStep, Cmds
  <2> HIDE DEF C
  <2> DEFINE P == IF mc.want = "cmd" /\ mc.why \in {"clear", "cd", "clearCmd"} THEN 1 ELSE 0
  <2>5. Owed(Now) = Cardinality(C) + P
    BY <2>1, <2>3, <2>4 DEF Owed, Wants, Sending
  <2>6. log.given = log.ran + Cardinality(C) + P
    BY <2>3, <2>4, <2>5 DEF Logs
  <2> QED BY <2>2, <2>6 DEF ShellInStep, NoCommandLost, C
<1> QED BY <1>1, ShellStarts, ShellSteps, PTL DEF ShellSpec

=============================================================================
