-------------------------------- MODULE Ftpfs --------------------------------
(***************************************************************************)
(* The FTP filesystem (vfs-plugins/ftpfs/ftpfs.c): one control connection, *)
(* on which each command is answered by a reply, and one data connection   *)
(* at a time.  Nothing in a reply names its command: the client counts.    *)
(* Commands try again over a new connection when the old one is gone, and  *)
(* files are read block by block, so that anything may happen in between.  *)
(*                                                                         *)
(* The server is that of RFC 959, which may refuse, fail and go at any     *)
(* time.  An operation is a function from a state to the set of states it  *)
(* may lead to.  Left out: passwords, proxies, how names and listings are  *)
(* parsed, Amiga and SPFTP servers, and IPv6.                              *)
(***************************************************************************)
EXTENDS Integers, Sequences, FiniteSets

CONSTANTS
    Dirs, Root, Home,   \* directories on the server; "/"; where a login starts
    Null,               \* no directory
    FileLen,            \* blocks of the file that is read
    Room,               \* blocks that a data connection holds
    Passives,           \* settings of ftpfs_use_passive_connections
    MaxOps,             \* bound: operations of the user
    MaxOdd              \* bound: refusals, failures and interruptions

Constants ==
    /\ {Root, Home} \subseteq Dirs /\ Null \notin Dirs
    /\ FileLen \in Nat /\ Room \in Nat \ {0} /\ Passives \subseteq BOOLEAN
    /\ MaxOps \in Nat /\ MaxOdd \in Nat

VARIABLES
    ftp,    \* ftp_super_t
    srv,    \* the server's end of the control connection, and what is on its way
    data,   \* the data connection
    rd, wr, \* a file that is read linearly, and one that is written
    log     \* history and bounds

vars == <<ftp, srv, data, rd, wr, log>>

COMPLETE == 2
CONTINUE == 3

NoJob == [op |-> "none", left |-> 0]
NoData == [mine |-> FALSE, theirs |-> FALSE, units |-> 0, stored |-> 0, reset |-> FALSE,
           of |-> Null, type |-> "?"]
NoServer == [up |-> "none", at |-> "new", cwd |-> Home, type |-> "A", armed |-> FALSE,
             rest |-> 0, from |-> FALSE, job |-> NoJob, inp |-> <<>>, out |-> <<>>]
NoArchive == [sock |-> "none", busy |-> FALSE, type |-> "?", dir |-> Null, strict |-> "auto",
              passive |-> TRUE, setting |-> TRUE]

Each(S, F(_)) == UNION {F(u) : u \in S}

\* What an operation works on: the state, and what its parts return.
Now == [ftp |-> ftp, srv |-> srv, data |-> data, rd |-> rd, wr |-> wr, log |-> log,
        code |-> 0, to |-> "none", ret |-> 0, ok |-> FALSE]
Become(t) == /\ ftp' = t.ftp /\ srv' = t.srv /\ data' = t.data
             /\ rd' = t.rd /\ wr' = t.wr /\ log' = t.log

Yes(t) == [t EXCEPT !.ok = TRUE]
No(t) == [t EXCEPT !.ok = FALSE]

\* On with those that are ok.
IfOk(S, F(_)) == Each(S, LAMBDA u : IF u.ok THEN F(u) ELSE {u})

\* What is out of the ordinary, as often as the bound allows.
Odd(t, S) == IF t.log.odd = MaxOdd THEN {} ELSE {[u EXCEPT !.log.odd = @ + 1] : u \in S}

Slip(t, why) == [t EXCEPT !.log.slip = @ \cup {why}]
\* An operation that reports a success where there was none; not counted after a slip.
Claim(t, true) == IF true \/ t.log.slip # {} THEN t ELSE [t EXCEPT !.log.lies = TRUE]

---------------------------------------------------------------------------
(* The server. *)

Say(t, op, code) == [t EXCEPT !.srv.out = Append(@, [to |-> op, code |-> code])]
HangUp(t, how) == [t EXCEPT !.srv.up = how, !.srv.job = NoJob, !.srv.inp = <<>>,
                            !.data.theirs = FALSE, !.data.reset = @ \/ t.data.theirs]

Sends == {"RETR", "LIST"}
Takes == {"STOR", "APPE"}

\* A transfer begins, if the client has said how; some servers notice later that it has not.
Transfer(t, cmd) ==
    LET j == [op |-> cmd.op, left |-> CASE cmd.op = "RETR" -> FileLen - t.srv.rest
                                        [] cmd.op = "LIST" -> 1
                                        [] OTHER -> 0]
        d == [NoData EXCEPT !.theirs = TRUE, !.type = t.srv.type,
                            !.of = IF cmd.arg = Null THEN t.srv.cwd ELSE cmd.arg]
    IN  IF t.srv.armed
        THEN {[Say(t, cmd.op, 150) EXCEPT !.srv.job = j, !.srv.armed = FALSE, !.data = d]}
        ELSE {Say(t, cmd.op, 425), Say(Say(t, cmd.op, 150), cmd.op, 425)}

Answer(t, cmd) ==
    LET say(code) == Say(t, cmd.op, code)
    IN  CASE cmd.op = "USER" -> {[say(331) EXCEPT !.srv.at = "user"],
                                 [say(230) EXCEPT !.srv.at = "in"]}
          [] cmd.op = "PASS" -> {[say(230) EXCEPT !.srv.at = "in"], say(332)}
          [] cmd.op = "ACCT" -> {[say(230) EXCEPT !.srv.at = "in"]}
          [] cmd.op = "ABOR" -> IF t.srv.job = NoJob THEN {say(225)}
                                ELSE {[Say(Say(t, t.srv.job.op, 426), "ABOR", 226)
                                         EXCEPT !.srv.job = NoJob, !.data.theirs = FALSE]}
          [] cmd.op = "QUIT" -> {HangUp(say(221), "closed")}
          [] OTHER ->
             IF t.srv.at # "in" THEN {say(530)}
             ELSE CASE cmd.op = "TYPE" -> {[say(200) EXCEPT !.srv.type = cmd.arg]}
                    [] cmd.op = "CWD" -> {[say(250) EXCEPT !.srv.cwd = cmd.arg]}
                    [] cmd.op = "PWD" -> {say(257)}
                    [] cmd.op = "DELE" -> {say(250)}
                    [] cmd.op \in {"PASV", "EPSV"} -> {[say(227) EXCEPT !.srv.armed = TRUE]}
                    [] cmd.op \in {"PORT", "EPRT"} -> {[say(200) EXCEPT !.srv.armed = TRUE]}
                    [] cmd.op = "REST" -> {[say(350) EXCEPT !.srv.rest = cmd.arg]}
                    [] cmd.op = "RNFR" -> {[say(350) EXCEPT !.srv.from = TRUE]}
                    [] cmd.op = "RNTO" -> {say(IF t.srv.from THEN 250 ELSE 503)}
                    [] cmd.op \in Sends \cup Takes -> Transfer(t, cmd)

\* It may refuse, go without a word, or go when it has answered.  REST is for the next
\* command, and so is RNFR.
Faulty(t, cmd, answers) ==
    IF cmd.op \in {"QUIT", "ABOR"} THEN answers
    ELSE answers \cup Odd(t, {Say(t, cmd.op, 550), HangUp(t, "closed")}
                                \cup {HangUp(u, "reset") : u \in answers})
Serve(t, cmd) ==
    {[u EXCEPT !.srv.rest = IF cmd.op = "REST" THEN @ ELSE 0,
               !.srv.from = cmd.op = "RNFR" /\ @] : u \in Faulty(t, cmd, Answer(t, cmd))}

\* While it transfers it takes nothing but ABOR.
Receive(t, cmd) ==
    IF t.srv.job = NoJob \/ cmd.op = "ABOR" THEN Serve(t, cmd)
    ELSE {[t EXCEPT !.srv.inp = Append(@, cmd)]}

RECURSIVE Waiting(_)
Waiting(t) ==
    IF t.srv.inp = <<>> \/ t.srv.job # NoJob \/ t.srv.up # "up" THEN {t}
    ELSE Each(Serve([t EXCEPT !.srv.inp = Tail(@)], Head(t.srv.inp)), Waiting)

\* A transfer's last reply, and on to the commands that came meanwhile.
End(t, code) ==
    Waiting([Say(t, t.srv.job.op, code) EXCEPT !.srv.job = NoJob, !.data.theirs = FALSE])

\* The code of the reply with which it ends by itself, if it does now.
Over(t) ==
    CASE t.srv.job.op \in Sends /\ ~t.data.mine -> {426}
      [] t.srv.job.op \in Sends /\ t.data.mine /\ t.srv.job.left = 0 -> {226}
      [] t.srv.job.op \in Takes /\ ~t.data.mine /\ t.data.units = 0 -> {226}
      [] OTHER -> {}

Fails(t) == [t EXCEPT !.data.reset = TRUE,
                      !.data.units = IF t.srv.job.op \in Takes THEN 0 ELSE @]
Moves(t) ==
    CASE t.srv.job.op \in Sends /\ t.data.units < Room ->
         {[t EXCEPT !.srv.job.left = @ - 1, !.data.units = @ + 1]}
      [] t.srv.job.op \in Takes /\ t.data.units > 0 ->
         {[t EXCEPT !.data.units = @ - 1, !.data.stored = @ + 1]}
      [] OTHER -> {}

\* One step of the transfer.
Progress(t) ==
    IF t.srv.job = NoJob THEN {}
    ELSE (IF Over(t) = {} THEN Moves(t) ELSE {})
         \cup Each(Over(t) \X {t} \cup {451} \X Odd(t, {Fails(t)}), LAMBDA e : End(e[2], e[1]))

---------------------------------------------------------------------------
(* Commands and their replies. *)

\* The client blocks in read: the server goes on until it says something, goes, or waits too.
RECURSIVE Await(_)
AwaitFrom(t, next) == IF t.srv.out # <<>> \/ next = {} THEN {t} ELSE Each(next, Await)
Await(t) == AwaitFrom(t, Progress(t))

TakeReply(t) ==
    IF t.ftp.sock = "own" /\ t.srv.out # <<>>
    THEN LET r == Head(t.srv.out)
         IN  [t EXCEPT !.srv.out = Tail(@), !.code = r.code, !.to = r.to,
                       !.ret = r.code \div 100]
    ELSE [t EXCEPT !.code = 421, !.to = "none", !.ret = 4,
                   !.log.stuck = @ \/ (t.ftp.sock = "own" /\ t.srv.up = "up")]
GetReply(t) == {TakeReply(u) : u \in Await(t)}

\* write: to a server that has just gone it still succeeds.  A descriptor that was closed
\* may be somebody else's by now.  A command in the middle of a transfer is a slip.
Write(t, cmd) ==
    LET s == IF t.ftp.busy THEN Slip(t, "during") ELSE t
    IN  CASE t.ftp.sock = "own" /\ t.srv.up = "up" -> {Yes(u) : u \in Receive(s, cmd)}
          [] t.ftp.sock = "own" /\ t.srv.up = "closed" -> {Yes([s EXCEPT !.srv.up = "reset"])}
          [] t.ftp.sock = "other" -> {Yes([s EXCEPT !.log.harm = TRUE])}
          [] OTHER -> {No(s)}

\* A new connection; a server that is full says so and goes.
Connect(t) ==
    LET new == [t EXCEPT !.srv = [NoServer EXCEPT !.up = "up"], !.ftp.sock = "own",
                         !.data.theirs = FALSE,
                         !.log.slip = IF t.data.mine THEN {"during"} ELSE {}]
    IN  {Say(new, "none", 220)} \cup Odd(t, {HangUp(Say(new, "none", 421), "closed")})

RECURSIVE Command(_, _, _, _), Replied(_, _, _, _), Reconnect(_), Login(_, _), Chdir(_, _, _)

\* The command is sent once more, over a new connection; lost and failed are what is
\* returned when that does not work.
Again(S, cmd, wait, level, lost, failed) ==
    Each(S, LAMBDA u :
        IF ~u.ok THEN {[u EXCEPT !.ret = failed, !.code = 421]}
        ELSE Each(Write(u, cmd), LAMBDA w :
                 IF w.ok THEN Replied(w, cmd, wait, level)
                 ELSE {[w EXCEPT !.ret = lost, !.code = 421]}))

\* wait: "none", "reply", or "string", for those that also try again when the reply is 421;
\* the flag "retry" that should allow this once is reset by the commands of the login.
Command(t, cmd, wait, level) ==
    Each(Write(t, cmd), LAMBDA u :
        CASE u.ok -> Replied(u, cmd, wait, level)
          [] ~u.ok /\ u.ftp.sock = "own" /\ level = 0 ->
             Again(Reconnect(u), cmd, wait, level, 4, 4)
          [] OTHER -> {[u EXCEPT !.ret = 4, !.code = 421]})

Replied(t, cmd, wait, level) ==
    IF wait = "none" THEN {[t EXCEPT !.ret = COMPLETE]}
    ELSE Each(GetReply(t), LAMBDA u :
             IF wait = "string" /\ u.code = 421 /\ level = 0 /\ ~u.log.stuck
             THEN Again(Reconnect(u), cmd, wait, level, 1, 0) ELSE {u})

\* To where the old connection was, if the new one lets it.
Reconnect(t) ==
    Odd(t, {No(t)})
    \cup Each(Connect(t), LAMBDA c : Each(Login([c EXCEPT !.ftp.dir = Null], 1), LAMBDA u :
             CASE ~u.ok -> {[u EXCEPT !.ftp.dir = t.ftp.dir]}
               [] u.ok /\ t.ftp.dir = Null -> {Slip(u, "moved")}
               [] OTHER -> {IF w.ret = COMPLETE THEN Yes(w) ELSE No(Slip(w, "moved")) :
                               w \in Chdir(u, t.ftp.dir, 1)}))

LoggedIn(t) == IF t.ret = COMPLETE THEN Yes(t) ELSE No(t)

\* The password may be answered by the request for an account, which the user may refuse
\* to give.
Account(t, level) ==
    IF t.ret # CONTINUE THEN {LoggedIn(t)}
    ELSE Odd(t, {No(t)})
         \cup {LoggedIn(u) : u \in Command(t, [op |-> "ACCT", arg |-> Null], "reply", level)}

\* ret is that of USER.
Login(t, level) ==
    Each(GetReply([t EXCEPT !.ftp.type = "?"]), LAMBDA c :
        IF c.ret # COMPLETE THEN {[No(c) EXCEPT !.ret = CONTINUE]}
        ELSE Each(Command(c, [op |-> "USER", arg |-> Null], "reply", level), LAMBDA u :
                 IF u.ret # CONTINUE THEN {LoggedIn(u)}
                 ELSE Each(Command(u, [op |-> "PASS", arg |-> Null], "reply", level), LAMBDA w :
                          {[x EXCEPT !.ret = CONTINUE] : x \in Account(w, level)})))

Chdir(t, d, level) ==
    LET went(u) == IF u.ret # COMPLETE THEN u
                   ELSE [u EXCEPT !.ftp.dir = d, !.log.slip = @ \ {"moved"}]
    IN  IF t.ftp.dir = d THEN {[t EXCEPT !.ret = COMPLETE]}
        ELSE {went(u) : u \in Command(t, [op |-> "CWD", arg |-> d], "reply", level)}

---------------------------------------------------------------------------
(* Data connections. *)

ChangeType(t, type) ==
    LET changed(u) == IF u.ret = COMPLETE THEN Yes([u EXCEPT !.ftp.type = type]) ELSE No(u)
    IN  IF t.ftp.type = type THEN {Yes(t)}
        ELSE {changed(u) : u \in Command(t, [op |-> "TYPE", arg |-> type], "reply", 0)}

\* First one command, then the other; what the first leaves behind stays.
Try(t, op, wait, connects(_)) ==
    Each(Command(t, [op |-> op, arg |-> Null], wait, 0), LAMBDA u :
        IF u.ret = COMPLETE THEN connects(u) ELSE {No(u)})
OneOf(t, first, second, wait, connects(_)) ==
    Each(Try(t, first, wait, connects), LAMBDA u :
        IF u.ok THEN {u} ELSE Try(u, second, wait, connects))

SetupPassive(t) == OneOf(t, "PASV", "EPSV", "string", LAMBDA u : {Yes(u)} \cup Odd(u, {No(u)}))
SetupActive(t) == OneOf(t, "PORT", "EPRT", "reply", LAMBDA u : {Yes(u)})

\* ftpfs_init_data_socket asks for the addresses of the control connection; one that was
\* reset has no peer.
InitConn(t) ==
    LET peer == t.ftp.sock = "own" /\ t.srv.up # "reset"
        active(u) == IF u.ok THEN u ELSE [u EXCEPT !.ftp.passive = u.ftp.setting]
    IN  IF t.ftp.passive /\ ~peer THEN {No(t)}
        ELSE Each(IF t.ftp.passive THEN SetupPassive(t) ELSE {No(t)}, LAMBDA u :
                 CASE u.ok -> {u}
                   [] ~u.ok /\ u.ftp.sock # "own" -> {[u EXCEPT !.ftp.passive = FALSE]}
                   [] OTHER -> {active(w) : w \in SetupActive([u EXCEPT !.ftp.passive = FALSE])})

\* accept, which waits until the server connects or the user has had enough; the reply
\* that is still to come is then read by nobody.
Accept(t) ==
    LET open == Yes([t EXCEPT !.data.mine = TRUE, !.ftp.busy = TRUE])
        dead == Yes([t EXCEPT !.data = [NoData EXCEPT !.mine = TRUE], !.ftp.busy = TRUE])
        tired == Slip(No(t), "accept")
    IN  CASE t.srv.job # NoJob -> {open} \cup (IF t.ftp.passive THEN {} ELSE Odd(t, {tired}))
          [] t.srv.job = NoJob /\ t.ftp.passive -> {dead}
          [] OTHER -> {tired}

Restart(t, offset) ==
    IF offset = 0 THEN {t}
    ELSE {IF u.ret = CONTINUE THEN Yes(u) ELSE No(u) :
             u \in Command(t, [op |-> "REST", arg |-> offset], "reply", 0)}

OpenDataConnection(t, op, arg, type, offset) ==
    IF t.ftp.busy THEN {No(t)}
    ELSE IfOk(IfOk(IfOk(InitConn(t),
                        LAMBDA u : ChangeType(u, type)),
                   LAMBDA u : Restart(u, offset)),
              LAMBDA u : Each(Command(u, [op |-> op, arg |-> arg], "reply", 0), LAMBDA w :
                             IF w.ret = 1 THEN Accept(w) ELSE {No(w)}))

\* The data connection is closed, and the transfer's last reply read.
CloseData(t) ==
    {[u EXCEPT !.data = NoData, !.data.stored = u.data.stored] :
        u \in GetReply([t EXCEPT !.data.mine = FALSE, !.ftp.busy = FALSE])}

\* Mutant: one reply is read, whatever it says.
LinearAbortOnce(t, open) ==
    LET shut(u) == IF open THEN [u EXCEPT !.data = NoData] ELSE u
        free == [t EXCEPT !.ftp.busy = FALSE]
    IN  Each(Command(free, [op |-> "ABOR", arg |-> Null], "none", 0), LAMBDA u :
            IF u.ret = COMPLETE THEN GetReply(shut(u)) ELSE {shut(u)})

\* open: the handler still has the data connection.  What comes too late, when the transfer
\* is over and its reply not 426, and what hits the transfer of another, are slips; so is a
\* connection that should be replaced, since the server keeps sending, and is not.
LinearAbort(t, open) ==
    LET late == t.srv.up = "up" /\ t.srv.job = NoJob
                    /\ t.srv.out # <<>> /\ Head(t.srv.out).code # 426
        s == IF late THEN Slip(t, "late")
             ELSE IF t.ftp.busy /\ ~open THEN Slip(t, "during") ELSE t
        free == [s EXCEPT !.ftp.busy = FALSE, !.data.mine = @ /\ ~open,
                          !.srv.up = IF @ = "closed" THEN "reset" ELSE @]
        shut(u) == IF open THEN [u EXCEPT !.data = NoData] ELSE u
    IN  IF t.srv.up = "reset" \/ t.ftp.sock # "own" THEN {shut(free)}
        ELSE Each(Command(free, [op |-> "ABOR", arg |-> Null], "none", 0), LAMBDA u :
                 IF u.ret # COMPLETE THEN {shut(u)}
                 ELSE Each(GetReply(shut(u)), LAMBDA w :
                          IF w.code = 426 THEN GetReply(w) ELSE {w})
                      \cup (IF open THEN Each(Odd(u, {Slip(shut(u), "kept")}), Reconnect)
                             ELSE {}))

---------------------------------------------------------------------------
(* Directories. *)

\* The listing is read to its end, or the user interrupts.
RECURSIVE ReadList(_)
ReadList(t) ==
    IF t.srv.job = NoJob THEN {t}
    ELSE Each(Progress(t), LAMBDA u : ReadList([u EXCEPT !.data.units = 0]))

\* ftpfs_dir_load, from again: on.  A listing that is empty, and asked for by name, is
\* asked for again from inside the directory.
RECURSIVE DirLoad(_, _, _)
DirLoad(t, d, cdFirst) ==
    LET fallback(u) ==
            IF u.ftp.strict = "auto"
            THEN DirLoad([u EXCEPT !.ftp.strict = "strict"], d, TRUE) ELSE {No(u)}
        listed(u, of) ==
            LET true == u.to = "LIST" /\ of.of = d /\ of.type = "A"
            IN  Claim(Yes([u EXCEPT !.ftp.strict = IF @ = "auto" THEN "daring" ELSE @]), true)
        closed(u, of, interrupted) ==
            CASE interrupted -> {No(u)}
              [] ~interrupted /\ u.ret # COMPLETE -> fallback(u)
              [] OTHER -> {listed(u, of)} \cup (IF cdFirst THEN {} ELSE DirLoad(u, d, TRUE))
        read(u) == ReadList(u) \X {FALSE} \cup Odd(u, {u}) \X {TRUE}
        there == IF ~cdFirst THEN {Yes(t)}
                 ELSE {IF u.ret = COMPLETE THEN Yes(u) ELSE No(u) : u \in Chdir(t, d, 0)}
        arg == IF cdFirst THEN Null ELSE d
    IN  IfOk(there, LAMBDA u : Each(OpenDataConnection(u, "LIST", arg, "A", 0), LAMBDA w :
            IF ~w.ok THEN fallback(w)
            ELSE Each(read(w), LAMBDA e : Each(CloseData(e[1]), LAMBDA x :
                     closed(x, e[1].data, e[2])))))

---------------------------------------------------------------------------
(* Files.  vfs_s_retrieve_file is a reader that does nothing else between its reads. *)

\* ftpfs_linear_start.
LinearStart(t) ==
    {IF u.ok THEN [u EXCEPT !.rd.at = "open"] ELSE u :
        u \in OpenDataConnection(t, "RETR", Root, "I", t.rd.pos)}

\* ftpfs_linear_read: a block, the end, or an error; it waits for one of them, or for the
\* user.  After the end, or an error, there is no descriptor any more.
LinearEnded(t, before) ==
    LET whole == t.to = "RETR" /\ before.data.type = "I"
                    /\ before.rd.pos + before.rd.got = FileLen
        done == [t EXCEPT !.rd.at = "done"]
    IN  IF t.ret = COMPLETE THEN Claim(done, whole) ELSE done

\* A read that waits ends with data, the end, an error, or the user's interruption.
RECURSIVE ReadEnds(_)
ReadEnds(t) ==
    IF t.data.units > 0 \/ ~t.data.theirs THEN {<<t, FALSE>>}
    ELSE Each(Progress(t), ReadEnds) \cup Odd(t, {t}) \X {TRUE}

LinearReadFrom(t, interrupted) ==
    CASE t.rd.at = "done" \/ interrupted \/ (t.data.units = 0 /\ t.data.reset) ->
         {[u EXCEPT !.rd.at = "done"] : u \in LinearAbort(t, t.rd.at = "open")}
      [] t.data.units > 0 -> {[t EXCEPT !.data.units = @ - 1, !.rd.got = @ + 1]}
      [] OTHER -> {LinearEnded(u, t) : u \in CloseData(t)}

LinearRead(t) ==
    Each(IF t.rd.at = "done" THEN {<<t, FALSE>>} ELSE ReadEnds(t), LAMBDA e :
        LinearReadFrom(e[1], e[2]))

\* vfs_s_read.
ReadFile(t) ==
    IfOk(IF t.rd.at = "pre" THEN LinearStart(t) ELSE {Yes(t)}, LinearRead)

\* A file that was written is stored when the reply says so.
Stored(t, op, n, type) ==
    IF t.ret = COMPLETE
    THEN Claim(Yes(t), t.to = op /\ t.data.stored = n /\ type = "I") ELSE No(t)

\* ftpfs_file_store: the whole of a temporary file.
RECURSIVE SendAll(_, _)
SendAll(t, n) ==
    CASE ~t.data.theirs -> {No(t)}
      [] t.data.theirs /\ n = 0 -> {Yes(t)}
      [] OTHER -> Odd(t, {No(t)})
                      \cup (IF t.data.units < Room
                             THEN SendAll([t EXCEPT !.data.units = @ + 1], n - 1)
                             ELSE Each(Progress(t), LAMBDA u : SendAll(u, n)))

FileStore(t) ==
    LET closed(u) ==
            {IF u.ok THEN Stored(w, t.wr.op, t.wr.n, u.data.type) ELSE No(w) : w \in CloseData(u)}
    IN  Each(OpenDataConnection(t, t.wr.op, Root, "I", 0), LAMBDA u :
            IF u.ok THEN Each(SendAll(u, t.wr.n), closed) ELSE {u})

\* vfs_s_close of a file that was written: over the data connection, or what was written
\* to a temporary file while that was busy.
CloseWritten(t) ==
    CASE t.wr.at = "direct" ->
         {Stored(u, t.wr.op, t.wr.n, t.data.type) : u \in CloseData(t)}
      [] t.wr.at = "temp" /\ t.wr.n > 0 -> FileStore(t)
      [] OTHER -> {t}

---------------------------------------------------------------------------
(* The archive. *)

Bye(t) == {[u EXCEPT !.ftp = NoArchive, !.srv = NoServer, !.log.slip = {}] :
              u \in Command(t, [op |-> "QUIT", arg |-> Null], "none", 0)}

\* ftpfs_get_current_directory; "/" if the server does not say, wherever it is.
Pwd(t) ==
    LET said(u) == IF u.ret = COMPLETE
                   THEN [u EXCEPT !.ftp.dir = u.srv.cwd, !.log.slip = @ \ {"moved"}]
                   ELSE Slip([u EXCEPT !.ftp.dir = Root], "moved")
    IN  Each(Command(t, [op |-> "PWD", arg |-> Null], "none", 0), LAMBDA u :
            {said(w) : w \in IF u.ret = COMPLETE THEN GetReply(u) ELSE {u}})

\* ftpfs_open_archive_int: a login that USER failed is tried again, until the user has had
\* enough; the archive is then open all the same, its socket closed.
RECURSIVE OpenArchiveInt(_)
OpenArchiveInt(t) ==
    LET stale(u) == [u EXCEPT !.ftp.sock = "stale", !.srv = NoServer]
        tried(u) ==
            CASE u.ok -> Pwd(u)
              [] ~u.ok /\ u.ret # CONTINUE -> {stale(u)} \cup OpenArchiveInt(stale(u))
              [] OTHER -> Bye(u)
    IN  Odd(t, {[t EXCEPT !.ftp = NoArchive]})
            \cup Each(Connect(t), LAMBDA u : Each(Login(u, 0), tried))

---------------------------------------------------------------------------
(* What the user, the server and time may do. *)

Closed == [at |-> "closed", pos |-> 0, got |-> 0]
Unwritten == [at |-> "closed", op |-> "none", n |-> 0]

Init ==
    /\ ftp = NoArchive /\ srv = NoServer /\ data = NoData /\ rd = Closed /\ wr = Unwritten
    /\ log = [ops |-> 0, odd |-> 0, slip |-> {}, lies |-> FALSE, stuck |-> FALSE,
              harm |-> FALSE]

\* An operation of the user; a client that waits for ever does nothing more.
Does(Op(_)) ==
    /\ ftp.sock # "none" /\ ~log.stuck /\ log.ops < MaxOps
    /\ \E t \in Op([Now EXCEPT !.log.ops = @ + 1]) : Become(t)

OpenArchive ==
    /\ ftp.sock = "none" /\ log.ops < MaxOps
    /\ \E p \in Passives :
        LET fresh == [NoArchive EXCEPT !.passive = p, !.setting = p]
        IN  \E t \in OpenArchiveInt([Now EXCEPT !.ftp = fresh, !.log.ops = @ + 1]) : Become(t)

\* vfs_gc: nothing is open.
FreeArchive == rd.at = "closed" /\ wr.at = "closed" /\ Does(Bye)

\* spaced: names with spaces, and the setting "first cd then ls".
ListDir ==
    \E d \in Dirs, spaced \in BOOLEAN :
        Does(LAMBDA t : DirLoad(t, d, spaced \/ t.ftp.strict = "strict"))

\* ftpfs_send_command, for DELE, MKD, RMD and SITE CHMOD.
SendCommand(t, op) ==
    {Claim(u, u.ret # COMPLETE \/ u.to = op) :
        u \in Command(t, [op |-> op, arg |-> Null], "reply", 0)}

Change == Does(LAMBDA t : SendCommand(t, "DELE"))
Rename == Does(LAMBDA t : Each(SendCommand(t, "RNFR"), LAMBDA u : SendCommand(u, "RNTO")))

OpenRead ==
    /\ rd.at = "closed"
    /\ \E pos \in {0, 1} :
        Does(LAMBDA t : {[t EXCEPT !.rd = [Closed EXCEPT !.at = "pre", !.pos = pos]]})
Read == rd.at = "open" /\ ~log.stuck /\ \E t \in LinearRead(Now) : Become(t)

\* The first read, and those after the end or an error, may be repeated for ever: bounded.
ReadMore == rd.at \in {"pre", "done"} /\ Does(ReadFile)
CloseRead ==
    /\ rd.at # "closed" /\ ~log.stuck
    /\ \E t \in IF rd.at = "open" THEN LinearAbort(Now, TRUE) ELSE {Now} :
        Become([t EXCEPT !.rd = Closed])

\* ftpfs_fh_open.
OpenWrite ==
    LET begun(t, op) == [t EXCEPT !.wr = [Unwritten EXCEPT !.op = op,
                                             !.at = IF t.ok THEN "direct" ELSE "closed"]]
        open(t, op) ==
            IF t.ftp.busy THEN {[t EXCEPT !.wr = [Unwritten EXCEPT !.at = "temp", !.op = op]]}
            ELSE {begun(u, op) : u \in OpenDataConnection(t, op, Root, "I", 0)}
    IN  /\ wr.at = "closed"
        /\ \E op \in Takes : Does(LAMBDA t : open(t, op))

\* vfs_s_write; what the server has closed takes nothing.
WriteFile ==
    /\ wr.at # "closed" /\ wr.n < FileLen /\ ~log.stuck
    /\ wr.at = "direct" => data.theirs /\ data.units < Room
    /\ wr' = [wr EXCEPT !.n = @ + 1]
    /\ data' = [data EXCEPT !.units = @ + (IF wr.at = "direct" THEN 1 ELSE 0)]
    /\ UNCHANGED <<ftp, srv, rd, log>>

CloseWrite ==
    /\ wr.at # "closed" /\ ~log.stuck
    /\ \E t \in CloseWritten(Now) :
        Become([t EXCEPT !.wr = Unwritten, !.data = IF @.mine THEN @ ELSE NoData])

\* The server goes on with the transfer, or goes.
ServerStep == ~log.stuck /\ \E t \in Progress(Now) : Become(t)
ServerGoes ==
    /\ srv.up = "up" /\ ~log.stuck
    /\ \E t \in Odd(Now, {HangUp(Say(Now, "none", 421), "closed"), HangUp(Now, "reset")}) :
        Become(t)

\* A file is opened and gets the descriptor that was closed.
DescriptorTaken ==
    /\ ftp.sock = "stale" /\ ~log.stuck
    /\ ftp' = [ftp EXCEPT !.sock = "other"] /\ UNCHANGED <<srv, data, rd, wr, log>>

Next ==
    \/ OpenArchive \/ FreeArchive \/ ListDir \/ Change \/ Rename
    \/ OpenRead \/ Read \/ ReadMore \/ CloseRead
    \/ OpenWrite \/ WriteFile \/ CloseWrite
    \/ ServerStep \/ ServerGoes \/ DescriptorTaken

Spec == Init /\ [][Next]_vars

---------------------------------------------------------------------------
(* Properties. *)

TypeOK ==
    /\ ftp.sock \in {"none", "own", "stale", "other"} /\ ftp.type \in {"?", "A", "I"}
    /\ ftp.dir \in Dirs \cup {Null} /\ ftp.strict \in {"auto", "daring", "strict"}
    /\ {ftp.busy, ftp.passive, ftp.setting} \subseteq BOOLEAN
    /\ srv.up \in {"none", "up", "closed", "reset"} /\ srv.cwd \in Dirs
    /\ data.units \in 0 .. Room /\ data.stored \in 0 .. FileLen
    /\ rd.at \in {"closed", "pre", "open", "done"} /\ rd.got \in 0 .. FileLen
    /\ wr.at \in {"closed", "direct", "temp"} /\ wr.n \in 0 .. FileLen
    /\ log.ops \in 0 .. MaxOps /\ log.odd \in 0 .. MaxOdd

\* Replies and commands stay in step: between the transfers no reply is left that the next
\* command would take for its own, and what the client believes of the server's type and
\* directory is true.  Only these put a connection out of step, until it is replaced: an
\* abort that came too late or had no end, an accept that was given up, a command in the
\* middle of a transfer; and the directory is wrong after a reconnect or a login that could
\* not tell.
InStep ==
    ftp.sock = "own" /\ srv.up = "up" /\ ~ftp.busy /\ log.slip \subseteq {"moved"} =>
        /\ srv.out = <<>> /\ srv.job = NoJob
        /\ ftp.type \in {"?", srv.type}
        /\ srv.at = "in" /\ "moved" \notin log.slip => ftp.dir = srv.cwd

\* What is reported as done was done: the reply was the command's own, a listing is of the
\* directory that was asked for, a file was read to its end, or all of it stored, in binary.
ResultsTrue == ~log.lies

\* The client waits for a reply only if one will come, but for commands in the middle of a
\* transfer: the server takes them at its end, and waits for the client to read.
RepliesCome == log.stuck => "during" \in log.slip
==============================================================================
