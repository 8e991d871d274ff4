------------------------------ MODULE Purcsex -------------------------------
(***************************************************************************)
(* The renderer's client in this repository (purcsex/purcsex.c): a batch   *)
(* of operations, each sent as a request when the one before was answered, *)
(* documents written piece by piece, events that queue further operations, *)
(* and the table of handles by which operations name their targets.  The   *)
(* library between it and the renderer, and the renderer, are external:    *)
(* requests are answered in order, refused, or given up by a time-out, and *)
(* what the user does comes in between.                                    *)
(*                                                                         *)
(* Which operation comes next in the batch is chosen when it is issued.    *)
(* Left out: the statistics, targets given as numbers, the elements that   *)
(* events name, and the sample's own functions but for what they send.     *)
(***************************************************************************)
EXTENDS Integers, Sequences, FiniteSets

CONSTANTS
    Windows,        \* result keys of plain windows and of widgets
    Widgets,        \* those of widgets
    Documents,      \* result keys of documents
    Target,         \* the window that each document is loaded into
    OneWrite,       \* DEF_LEN_ONE_WRITE
    Lengths,        \* lengths of contents
    MaxOps,         \* bound: operations queued
    MaxOdd,         \* bound: refusals, time-outs and events
    Null            \* no handle, no target

\* A handle: what was made, and by which request.
Handle == (Windows \cup Documents) \X Nat

PurcsexConstants ==
    /\ Widgets \subseteq Windows /\ Documents \cap Windows = {}
    /\ Target \in [Documents -> Windows]
    /\ OneWrite \in Nat \ {0} /\ Lengths \subseteq Nat \ {0}
    /\ MaxOps \in Nat /\ MaxOdd \in Nat /\ Null \notin Windows \cup Documents \cup Handle

VARIABLES
    cl,         \* client_info, and the requests that wait for an answer
    srv,        \* the renderer, and what is under way to and from it
    hurt        \* history: what went wrong, documents whose load failed, and documents
                \* that ended with a whole piece

purcsexVars == <<cl, srv, hurt>>

Kind(w) == IF w \in Widgets THEN "widget" ELSE "plainwindow"

-----------------------------------------------------------------------------
(***************************************************************************)
(* Requests.  Each function gives the set of clients it may leave; what is *)
(* sent waits in new until it is on its way.                               *)
(***************************************************************************)

\* pcrdr_send_request
SendRequest(c, op, key, handle, handler, size) ==
    LET r == [id |-> c.sent + 1, op |-> op, key |-> key, handle |-> handle,
              handler |-> handler, size |-> size]
    IN [c EXCEPT !.sent = @ + 1, !.pending = @ \cup {r}, !.new = Append(@, r)]

\* A key that has a handle is a duplicate.
CreatePlainWin(c, w) ==
    IF c.handles[w] # Null THEN c ELSE SendRequest(c, "create", w, Null, "created", 0)

\* updatePlainWindow and updateWidget: their target must have a handle.
UpdatePlainWin(c, w) ==
    IF c.handles[w] = Null THEN c
    ELSE SendRequest(c, "update", w, c.handles[w], "updated", 0)

DestroyPlainWin(c, w) ==
    IF c.handles[w] = Null THEN c
    ELSE SendRequest(c, "destroy", w, c.handles[w], "destroyed", 0)

ChangeDocument(c, d) ==
    IF c.handles[d] = Null THEN c
    ELSE SendRequest(c, "change", d, c.handles[d], "changed", 0)

\* Page groups, properties and methods.  get_property and call_method have the sample's own
\* handler told of the answer, and set_property if there is one.
OtherRequest(c, handler) == SendRequest(c, "other", Null, Null, handler, 0)

\* How much of what is left goes out at once: less than is allowed when a character would
\* be cut.
PieceSizes(left) ==
    IF left <= OneWrite THEN {left} ELSE {n \in {OneWrite - 1, OneWrite} : n > 0}

\* The key of the document holds the window's handle until the document has one.  What was
\* read for an attempt that failed is kept.
LoadOrWriteDocument(c, d) ==
    LET w == Target[d]
        Begun(len, n, op, handler) ==
            SendRequest([c EXCEPT !.lastTarget = Kind(w), !.contents[d] = len,
                                  !.wrotten[d] = n, !.handles[d] = c.handles[w]],
                        op, d, c.handles[w], handler, n)
    IN IF c.handles[w] = Null THEN {c}
       ELSE UNION {IF len > OneWrite
                   THEN {Begun(len, n, "writeBegin", "wrotten") : n \in PieceSizes(len)}
                   ELSE {Begun(len, len, "load", "loaded")}
                     : len \in IF c.contents[d] # 0 THEN {c.contents[d]} ELSE Lengths}

\* Mutant: a piece that is nearly whole goes with writeMore too.
WriteMoreNearly(c, d) ==
    LET len == c.contents[d]
        Sent(n, op, handler) ==
            SendRequest([c EXCEPT !.wrotten[d] = @ + n], op, d, c.handles[d], handler, n)
        left == len - c.wrotten[d]
    IN IF len = 0 THEN {c}
       ELSE IF left < OneWrite - 1 THEN {Sent(left, "writeEnd", "loaded")}
       ELSE {Sent(n, "writeMore", "wrotten") : n \in PieceSizes(left)}

\* writeEnd only when less than a whole piece is left: a whole one goes with writeMore.
WriteMoreDocument(c, d) ==
    LET len == c.contents[d]
        Sent(n, op, handler) ==
            SendRequest([c EXCEPT !.wrotten[d] = @ + n], op, d, c.handles[d], handler, n)
        left == len - c.wrotten[d]
    IN IF len = 0 THEN {c}
       ELSE IF left < OneWrite THEN {Sent(left, "writeEnd", "loaded")}
       ELSE {Sent(n, "writeMore", "wrotten") : n \in PieceSizes(left)}

\* issue_operation, for whichever operation is next: one that cannot be sent is logged.
IssueOperation(c) ==
    {CreatePlainWin(c, w) : w \in Windows} \cup {UpdatePlainWin(c, w) : w \in Windows}
      \cup {DestroyPlainWin(c, w) : w \in Windows}
      \cup {ChangeDocument(c, d) : d \in Documents} 
      \cup {OtherRequest(c, handler) : handler \in {"changed", "own"}}
      \cup UNION {LoadOrWriteDocument(c, d) : d \in Documents}

IssueNext(c) ==
    IF c.left = 0 THEN {c} ELSE IssueOperation([c EXCEPT !.left = @ - 1, !.issued = @ + 1])

\* Mutant: what is queued is issued whatever waits for an answer.
QueueAtOnce(c, n) == IssueNext([c EXCEPT !.left = @ + n])

\* queue_operations
QueueOperations(c, n) ==
    LET queued == [c EXCEPT !.left = @ + n]
    IN IF c.pending = {} THEN IssueNext(queued) ELSE {queued}

-----------------------------------------------------------------------------
(***************************************************************************)
(* Answers and events.                                                     *)
(***************************************************************************)

\* Mutant: nothing follows a document.
LoadedOnly(c, d, handle) ==
    IF c.contents[d] = 0 THEN {c}
    ELSE {[c EXCEPT !.contents[d] = 0, !.wrotten[d] = 0, !.handles[d] = handle]}

\* The document is there.
Loaded(c, d, handle) ==
    IF c.contents[d] = 0 THEN {c}
    ELSE IssueNext([c EXCEPT !.contents[d] = 0, !.wrotten[d] = 0, !.handles[d] = handle])

\* What the handler of request r makes of an answer.  Who was refused does not go on, but
\* for an update, which goes on only then.  The sample's own handlers cannot go on:
\* issue_next_batch_operation is static.
Answered(c, r, ok, value) ==
    CASE r.handler = "created" /\ ok -> IssueNext([c EXCEPT !.handles[r.key] = value])
      [] r.handler = "destroyed" /\ ok -> IssueNext([c EXCEPT !.handles[r.key] = Null])
      [] r.handler = "changed" /\ ok -> IssueNext(c)
      [] r.handler = "loaded" /\ ok -> Loaded(c, r.key, value)
      [] r.handler = "wrotten" /\ ok ->
            IF c.wrotten[r.key] = c.contents[r.key] THEN Loaded(c, r.key, value)
            ELSE WriteMoreDocument(c, r.key)
      [] r.handler = "updated" /\ ~ok -> IssueNext(c)
      [] OTHER -> {c}

Without(c, id) == [c EXCEPT !.pending = {r \in @ : r.id # id}]

\* The client becomes c, and what is new goes out after what is under way.
Put(c, s) ==
    /\ cl' = [c EXCEPT !.new = <<>>]
    /\ srv' = [s EXCEPT !.inp = @ \o c.new]

\* An operation was issued and no request came of it.
Unsent(c) == {x \in {"unsent"} : c.issued > cl.issued /\ c.sent = cl.sent}

\* pcrdr_read_and_dispatch_message
Dispatch(type) == cl.running /\ srv.out # <<>> /\ Head(srv.out).type = type
Taken == [srv EXCEPT !.out = Tail(@)]

WriteOps == {"load", "writeBegin", "writeMore", "writeEnd"}
Writes(r) == r.op \in WriteOps

\* What hurt becomes: request r was answered, and the client is c afterwards.
Recorded(r, ok, c) ==
    LET whole == r.op = "writeMore" /\ cl.wrotten[r.key] = cl.contents[r.key]
                 /\ r.size = OneWrite
        odd == {x \in {"refused"} : ~ok} \cup {x \in {"update"} : r.handler = "updated"}
                \cup {x \in {"function"} : r.handler = "none"}
                \cup {x \in {"own"} : r.handler = "own"}
    IN [how |-> hurt.how \cup odd \cup Unsent(c),
        docs |-> IF ~Writes(r) THEN hurt.docs
                 ELSE IF ok THEN hurt.docs \ {r.key} ELSE hurt.docs \cup {r.key},
        whole |-> IF ~Writes(r) THEN hurt.whole
                  ELSE IF ok /\ whole THEN hurt.whole \cup {r.key}
                  ELSE hurt.whole \ {r.key}]

\* An answer; one that nobody waits for any more is dropped.
Response ==
    /\ Dispatch("response")
    /\ LET m == Head(srv.out)
       IN \/ /\ \A r \in cl.pending : r.id # m.id
             /\ Put(cl, Taken) /\ UNCHANGED hurt
          \/ \E r \in cl.pending :
               /\ r.id = m.id
               /\ \E c \in Answered(Without(cl, m.id), r, m.ok, m.value) :
                    Put(c, Taken) /\ hurt' = Recorded(r, m.ok, c)

Odd == srv.events < MaxOdd

\* The time for an answer is over: its handler is told so, and does nothing.
TimedOut ==
    /\ cl.running /\ Odd
    /\ \E r \in cl.pending :
          /\ \A q \in cl.pending : r.id <= q.id
          /\ cl' = Without(cl, r.id)
          /\ hurt' = [hurt EXCEPT !.how = @ \cup {"late"},
                                  !.docs = @ \cup ({r.key} \cap Documents)]
    /\ srv' = [srv EXCEPT !.events = @ + 1]

\* match_event: the table of handles tells what an event is about.
Matched(m) ==
    {k \in IF m.name = "destroy" THEN Windows ELSE Documents : cl.handles[k] = m.handle}

\* my_event_handler: if the sample has a word about what happened, a window that was
\* destroyed leaves the table, and operations are queued, a function of the sample sends a
\* request of its own, or the client ends.
Event ==
    /\ Dispatch("event")
    /\ LET m == Head(srv.out)
           c == [cl EXCEPT !.handles = [k \in Windows \cup Documents |->
                    IF k \in Matched(m) /\ m.name = "destroy" THEN Null ELSE @[k]]]
           room == MaxOps - cl.issued - cl.left
       IN \/ Put(cl, Taken) /\ UNCHANGED hurt
          \/ /\ Matched(m) # {}
             /\ \/ \E n \in 1..room : \E d \in QueueOperations(c, n) :
                      Put(d, Taken) /\ hurt' = [hurt EXCEPT !.how = @ \cup Unsent(d)]
                \/ /\ Put(SendRequest(c, "other", Null, Null, "none", 0), Taken)
                   /\ UNCHANGED hurt
                \/ \E on \in BOOLEAN : Put([c EXCEPT !.running = on], Taken) /\ UNCHANGED hurt

-----------------------------------------------------------------------------
(***************************************************************************)
(* The renderer and its user.                                              *)
(***************************************************************************)

Says(s, m) == [s EXCEPT !.inp = Tail(@), !.out = Append(@, m)]
Answer(r, ok, value) == [type |-> "response", id |-> r.id, ok |-> ok, value |-> value]

\* What r asks for, as far as it is possible.
Possible(r) ==
    CASE r.op = "create" -> srv.win[r.key] = Null
      [] r.op \in {"update", "destroy"} -> srv.win[r.key] = r.handle
      [] r.op \in {"load", "writeBegin"} -> srv.win[Target[r.key]] = r.handle
      [] r.op \in {"writeMore", "writeEnd"} ->
            srv.win[Target[r.key]] = r.handle /\ Target[r.key] \in srv.parses
      [] r.op = "change" -> \E w \in Windows : srv.doc[w] = r.handle
      [] OTHER -> TRUE

Serve ==
    /\ srv.inp # <<>>
    /\ LET r == Head(srv.inp)
           made == <<r.key, r.id>>
           w == IF r.key \in Documents THEN Target[r.key] ELSE r.key
           Ok(s, value) == srv' = Says(s, Answer(r, TRUE, value))
       IN /\ Possible(r)
          /\ CASE r.op = "create" -> Ok([srv EXCEPT !.win[w] = made], made)
               [] r.op = "destroy" ->
                     Ok([srv EXCEPT !.win[w] = Null, !.doc[w] = Null, !.parses = @ \ {w}],
                        Null)
               [] r.op = "load" ->
                     Ok([srv EXCEPT !.doc[w] = made, !.parses = @ \ {w}], made)
               [] r.op = "writeBegin" ->
                     Ok([srv EXCEPT !.doc[w] = made, !.parses = @ \cup {w}], made)
               [] r.op = "writeEnd" -> Ok([srv EXCEPT !.parses = @ \ {w}], srv.doc[w])
               [] r.op = "writeMore" -> Ok(srv, srv.doc[w])
               [] OTHER -> Ok(srv, Null)
    /\ UNCHANGED <<cl, hurt>>

Refuse ==
    /\ srv.inp # <<>> /\ (~Possible(Head(srv.inp)) \/ Odd)
    /\ srv' = [Says(srv, Answer(Head(srv.inp), FALSE, Null)) EXCEPT !.events =
                  IF Possible(Head(srv.inp)) THEN @ + 1 ELSE @]
    /\ UNCHANGED <<cl, hurt>>

Happens(name, handle) == [type |-> "event", name |-> name, handle |-> handle]

UserCloses(w) ==
    /\ Odd /\ srv.win[w] # Null
    /\ srv' = [srv EXCEPT !.win[w] = Null, !.doc[w] = Null, !.parses = @ \ {w},
                          !.events = @ + 1, !.out = Append(@, Happens("destroy", srv.win[w]))]
    /\ UNCHANGED <<cl, hurt>>

UserClicks(w) ==
    /\ Odd /\ srv.doc[w] # Null
    /\ srv' = [srv EXCEPT !.events = @ + 1, !.out = Append(@, Happens("click", srv.doc[w]))]
    /\ UNCHANGED <<cl, hurt>>

-----------------------------------------------------------------------------
Blank ==
    [left |-> 0, issued |-> 0, sent |-> 0, handles |-> [k \in Windows \cup Documents |-> Null],
     contents |-> [d \in Documents |-> 0], wrotten |-> [d \in Documents |-> 0],
     lastTarget |-> "none", pending |-> {}, new |-> <<>>, running |-> TRUE]

\* main, with the initial operations of the sample.
PurcsexInit ==
    /\ \E n \in 1..MaxOps : \E c \in QueueOperations(Blank, n) :
          /\ cl = [c EXCEPT !.new = <<>>]
          /\ srv = [inp |-> c.new, out |-> <<>>, win |-> [w \in Windows |-> Null],
                    doc |-> [w \in Windows |-> Null], parses |-> {}, events |-> 0]
    /\ hurt = [how |-> {x \in {"unsent"} : cl.pending = {}}, docs |-> {}, whole |-> {}]

PurcsexNext ==
    \/ Response \/ TimedOut \/ Event \/ Serve \/ Refuse
    \/ \E w \in Windows : UserCloses(w) \/ UserClicks(w)

PurcsexSpec ==
    /\ PurcsexInit /\ [][PurcsexNext]_purcsexVars
    /\ WF_purcsexVars(Serve \/ Refuse) /\ WF_purcsexVars(Response \/ Event)

-----------------------------------------------------------------------------
(***************************************************************************)
(* What holds.                                                             *)
(***************************************************************************)

\* The variables' types.
PurcsexTypeOK ==
    /\ cl.left + cl.issued \in 1..MaxOps /\ cl.running \in BOOLEAN
    /\ \A k \in Windows \cup Documents : cl.handles[k] = Null \/ cl.handles[k] \in Handle
    /\ \A d \in Documents :
         cl.contents[d] \in Lengths \cup {0} /\ cl.wrotten[d] <= cl.contents[d]
    /\ cl.lastTarget \in {"none", "plainwindow", "widget"}
    /\ srv.parses \subseteq Windows /\ srv.events \in 0..MaxOdd
    /\ hurt.docs \subseteq Documents /\ hurt.whole \subseteq Documents

\* The requests of the batch that wait for an answer: all but those of functions.
Batch == {r \in cl.pending : r.handler # "none"}

\* While a piece of a document waits for its answer, the client keeps the content, the
\* window's handle and the kind of target that the next piece needs.
PieceKept(r) ==
    /\ r.size > 0 /\ r.size <= cl.wrotten[r.key] /\ cl.wrotten[r.key] <= cl.contents[r.key]
    /\ cl.handles[r.key] = r.handle
    /\ cl.lastTarget = Kind(Target[r.key])

\* The batch has one request under way at a time, whatever events come in between, and what
\* the next piece of a document needs is kept, the kind of target one for all documents.
OneAtATime ==
    /\ \A r, q \in Batch : r = q
    /\ \A r \in Batch : Writes(r) => PieceKept(r)

\* A change is sent to a document and not to a window, whose handle the key of a document
\* has while it is loaded - and keeps when that fails.
ChangesDocuments ==
    \A i \in DOMAIN srv.inp :
        LET r == srv.inp[i]
        IN r.op = "change" /\ r.key \notin hurt.docs => r.handle[1] = r.key

\* The batch is in step with what was answered: one request at a time, with what the next
\* piece needs, and changes are sent to documents.
BatchInStep == OneAtATime /\ ChangesDocuments

\* A document the client goes on to work with has been ended by load or writeEnd - unless
\* its last piece was a whole one, when the client takes it for loaded although writeEnd
\* was never sent (write_more_document).
LoadedWasEnded ==
    \A d \in Documents :
        LET w == Target[d]
        IN cl.handles[d] # Null /\ cl.handles[d] = srv.doc[w] /\ w \in srv.parses
             => d \in hurt.whole

\* The batch comes to its end, whatever events queue more, as long as nothing is refused,
\* late or impossible, nothing is updated (an update that succeeds is the end of the
\* batch), no handler of the sample itself is told of an answer (it cannot issue what is
\* next, so that every getProperty and every callMethod is the end of the batch), and no
\* function of the sample has a request of its own under way.
BatchEnds == cl.left > 0 ~> cl.left = 0 \/ hurt.how # {} \/ ~cl.running
=============================================================================
