---------------------------- MODULE PurcsexProofs ----------------------------
(***************************************************************************)
(* The batch of the client purcsex, for all windows, documents and lengths *)
(* of contents, and any number of operations, events, refusals and         *)
(* time-outs.                                                              *)
(*                                                                         *)
(* The argument is about the order in which things travel: requests are    *)
(* served in the order they were sent, so when the answer to a request of  *)
(* the batch is read, nothing of the batch is under way any more (Latest), *)
(* and what is sent next finds the renderer as the answer left it, but for *)
(* what the user closed (Chain).  A handle tells which request made it, so *)
(* that no later document is taken for an earlier one (Aged).              *)
(***************************************************************************)
EXTENDS Purcsex, SequenceTheorems, TLAPS

Keys == Windows \cup Documents
Shapes == {<<"create", "created">>, <<"update", "updated">>, <<"destroy", "destroyed">>,
           <<"change", "changed">>, <<"other", "changed">>, <<"other", "own">>,
           <<"other", "none">>, <<"load", "loaded">>, <<"writeBegin", "wrotten">>,
           <<"writeMore", "wrotten">>, <<"writeEnd", "loaded">>}
Ops == {"create", "update", "destroy", "change", "other"} \cup WriteOps
Handlers == {"created", "updated", "destroyed", "changed", "loaded", "wrotten", "own", "none"}
Requests ==
    {r \in [id : Nat, op : Ops, key : Keys \cup {Null}, handle : Handle \cup {Null},
            handler : Handlers, size : Nat] :
        /\ <<r.op, r.handler>> \in Shapes
        /\ r.op \in {"create", "update", "destroy"} => r.key \in Windows
        /\ r.op \in WriteOps \cup {"change"} => r.key \in Documents /\ r.handle \in Handle
        /\ r.op \in WriteOps => r.handle[1] \in Windows}
Clients ==
    [left : Nat, issued : Nat, sent : Nat, handles : [Keys -> Handle \cup {Null}],
     contents : [Documents -> Nat], wrotten : [Documents -> Nat],
     lastTarget : {"none", "plainwindow", "widget"}, pending : SUBSET Requests,
     new : Seq(Requests), running : BOOLEAN]
Responses == [type : {"response"}, id : Nat, ok : BOOLEAN, value : Handle \cup {Null}]
Events == [type : {"event"}, name : {"destroy", "click"}, handle : Handle]
Servers ==
    [inp : Seq(Requests), out : Seq(Responses \cup Events),
     win : [Windows -> Handle \cup {Null}], doc : [Windows -> (Documents \X Nat) \cup {Null}],
     parses : SUBSET Windows, events : 0..MaxOdd]
Hurts ==
    [how : SUBSET {"refused", "update", "own", "function", "unsent", "late"},
     docs : SUBSET Documents, whole : SUBSET Documents]

\* What is under way to the renderer, and the answers that are under way from it.
In(s) == {s.inp[i] : i \in DOMAIN s.inp}
Out(s) == {m \in {s.out[i] : i \in DOMAIN s.out} : m.type = "response"}

---------------------------------------------------------------------------
(* The invariant, of a client c, the renderer s and the history h. *)

BatchOf(c) == {r \in c.pending : r.handler # "none"}

\* The client's table and contents, between the steps of a batch.
Filled(c) ==
    /\ c.left + c.issued \in 1..MaxOps
    /\ \A d \in Documents : c.contents[d] \in Lengths \cup {0} /\ c.wrotten[d] <= c.contents[d]
    /\ \A w \in Windows : c.handles[w] # Null => c.handles[w][1] \in Windows

\* Requests are numbered in the order they are sent, served and answered.
Rising(inp) == \A i, j \in DOMAIN inp : i < j => inp[i].id < inp[j].id
Ordered(c, s) ==
    /\ Rising(s.inp)
    /\ \A r \in c.pending \cup In(s) : r.id <= c.sent
    /\ \A r \in c.pending, q \in c.pending \cup In(s) : r.id = q.id => r = q
    /\ \A m \in Out(s) : m.id <= c.sent /\ \A q \in In(s) : m.id < q.id

\* What is known of handles was made by requests before those under way.
Before(v, c, s) == v # Null => v[2] <= c.sent /\ \A q \in In(s) : v[2] < q.id
Aged(c, s) ==
    /\ \A k \in Keys : Before(c.handles[k], c, s)
    /\ \A w \in Windows : Before(s.doc[w], c, s)
    /\ \A m \in Out(s) : Before(m.value, c, s)

\* One request of the batch, and the next piece of its document.
Kept(c, r) ==
    /\ r.size > 0 /\ r.size <= c.wrotten[r.key] /\ c.wrotten[r.key] <= c.contents[r.key]
    /\ c.handles[r.key] = r.handle
    /\ c.lastTarget = Kind(Target[r.key])
    /\ r.op = "writeBegin" => c.wrotten[r.key] # c.contents[r.key]
    /\ r.op = "writeMore" /\ c.wrotten[r.key] = c.contents[r.key] => r.size = OneWrite
Single(c) ==
    /\ \A r, q \in BatchOf(c) : r = q
    /\ \A r \in BatchOf(c) : Writes(r) => Kept(c, r)

\* Nothing of the batch is under way behind the request that waits; and with a piece that
\* is not the first, nothing else.
More == {"writeMore", "writeEnd"}
Latest(c, s) ==
    \A r \in BatchOf(c), q \in In(s) :
        q.handler # "none" => q.id <= r.id /\ (r.op \in More => q = r)

\* A document that is being written under r's handle is r's.
Chain(s, r) ==
    LET w == Target[r.key]
    IN s.win[w] = r.handle /\ w \in s.parses => s.doc[w] # Null /\ s.doc[w][1] = r.key
Follows(c, s) == \A r \in BatchOf(c) : r \in In(s) /\ r.op \in More => Chain(s, r)

\* What a good answer says.
Truth(s, r, v) ==
    /\ r.op = "create" => v \in Handle /\ v[1] \in Windows
    /\ Writes(r) => v \in Handle /\ v[1] = r.key
    /\ r.op \in {"load", "writeEnd"} /\ v = s.doc[Target[r.key]] =>
            Target[r.key] \notin s.parses
    /\ r.op \in {"writeBegin", "writeMore"} => Chain(s, r)
Truths(c, s) ==
    \A m \in Out(s), r \in BatchOf(c) : m.id = r.id /\ m.ok => Truth(s, r, m.value)

\* The key of a document has its handle, or that of a window while a load is under way, or
\* since it failed.
Named(c, h) ==
    \A d \in Documents :
        \/ c.handles[d] = Null \/ c.handles[d][1] = d
        \/ /\ c.handles[d][1] \in Windows
           /\ d \in h.docs \/ \E r \in BatchOf(c) : Writes(r) /\ r.key = d

Changes(s, h) ==
    \A q \in In(s) : q.op = "change" /\ q.key \notin h.docs => q.handle[1] = q.key

Ended(c, s, h) ==
    \A d \in Documents :
        c.handles[d] # Null /\ c.handles[d] = s.doc[Target[d]] /\ Target[d] \in s.parses
            => d \in h.whole

Typed(c, s, h) == c \in Clients /\ c.new = <<>> /\ s \in Servers /\ h \in Hurts

Right(c, s, h) ==
    /\ Typed(c, s, h) /\ Filled(c) /\ Ordered(c, s) /\ Aged(c, s) /\ Single(c)
    /\ Latest(c, s) /\ Follows(c, s) /\ Truths(c, s) /\ Named(c, h) /\ Changes(s, h)
    /\ Ended(c, s, h)

---------------------------------------------------------------------------
(* Sequences, as far as they are looked at here. *)

LEMMA TailOf ==
    ASSUME NEW S, NEW q \in Seq(S), q # <<>>
    PROVE  /\ Tail(q) \in Seq(S) /\ Head(q) \in S /\ 1 \in DOMAIN q /\ q[1] = Head(q)
           /\ DOMAIN Tail(q) = 1..(Len(q) - 1)
           /\ \A i \in DOMAIN Tail(q) : i + 1 \in DOMAIN q /\ Tail(q)[i] = q[i + 1]
           /\ {Tail(q)[i] : i \in DOMAIN Tail(q)} \subseteq {q[i] : i \in DOMAIN q}
           /\ {q[i] : i \in DOMAIN q} \subseteq S
<1>1. /\ Tail(q) \in Seq(S) /\ Head(q) \in S /\ 1 \in DOMAIN q /\ q[1] = Head(q)
      /\ DOMAIN Tail(q) = 1..(Len(q) - 1)
      /\ \A i \in DOMAIN Tail(q) : i + 1 \in DOMAIN q /\ Tail(q)[i] = q[i + 1]
  OBVIOUS
<1>2. {q[i] : i \in DOMAIN q} \subseteq S
  OBVIOUS
<1> QED BY <1>1, <1>2

LEMMA AppendOf ==
    ASSUME NEW S, NEW q \in Seq(S), NEW x \in S
    PROVE  /\ Append(q, x) \in Seq(S) /\ DOMAIN Append(q, x) = 1..(Len(q) + 1)
           /\ \A i \in DOMAIN q : Append(q, x)[i] = q[i] /\ i \in 1..Len(q)
           /\ Append(q, x)[Len(q) + 1] = x
           /\ {Append(q, x)[i] : i \in DOMAIN Append(q, x)} = {q[i] : i \in DOMAIN q} \cup {x}
<1>1. /\ Append(q, x) \in Seq(S) /\ DOMAIN Append(q, x) = 1..(Len(q) + 1)
      /\ \A i \in DOMAIN q : Append(q, x)[i] = q[i] /\ i \in 1..Len(q)
      /\ Append(q, x)[Len(q) + 1] = x /\ DOMAIN q = 1..Len(q) /\ Len(q) \in Nat
  OBVIOUS
<1>2. \A i \in DOMAIN Append(q, x) : i \in DOMAIN q \/ i = Len(q) + 1
  BY <1>1
<1>3. DOMAIN q \subseteq DOMAIN Append(q, x) /\ Len(q) + 1 \in DOMAIN Append(q, x)
  BY <1>1
<1>4. {Append(q, x)[i] : i \in DOMAIN Append(q, x)} \subseteq {q[i] : i \in DOMAIN q} \cup {x}
  BY <1>1, <1>2
<1>5. {q[i] : i \in DOMAIN q} \cup {x} \subseteq {Append(q, x)[i] : i \in DOMAIN Append(q, x)}
  BY <1>1, <1>3
<1> QED BY <1>1, <1>4, <1>5

\* What is under way to the renderer, when its first is served and when another is sent.
LEMMA InServed ==
    ASSUME NEW s, s.inp \in Seq(Requests), s.inp # <<>>, Rising(s.inp), NEW t,
           t.inp = Tail(s.inp)
    PROVE  /\ t.inp \in Seq(Requests) /\ Rising(t.inp) /\ Head(s.inp) \in In(s)
           /\ Head(s.inp) \in Requests /\ In(t) \subseteq In(s)
           /\ \A q \in In(t) : Head(s.inp).id < q.id
<1>1. /\ t.inp \in Seq(Requests) /\ DOMAIN t.inp = 1..(Len(s.inp) - 1)
      /\ \A i \in DOMAIN t.inp : i + 1 \in DOMAIN s.inp /\ t.inp[i] = s.inp[i + 1]
      /\ 1 \in DOMAIN s.inp /\ s.inp[1] = Head(s.inp) /\ Head(s.inp) \in Requests
      /\ In(t) \subseteq In(s)
  BY TailOf DEF In
<1>2. \A i, j \in DOMAIN t.inp : i < j => i + 1 < j + 1
  BY <1>1
<1>3. Rising(t.inp)
  BY <1>1, <1>2 DEF Rising
<1>4. \A i \in DOMAIN t.inp : 1 < i + 1
  BY <1>1
<1>5. \A q \in In(t) : Head(s.inp).id < q.id
  BY <1>1, <1>4 DEF Rising, In
<1> QED BY <1>1, <1>3, <1>5 DEF In

LEMMA InSent ==
    ASSUME NEW s, s.inp \in Seq(Requests), Rising(s.inp), NEW t, NEW r \in Requests,
           t.inp = Append(s.inp, r), \A q \in In(s) : q.id < r.id
    PROVE  t.inp \in Seq(Requests) /\ Rising(t.inp) /\ In(t) = In(s) \cup {r}
<1>1. /\ t.inp \in Seq(Requests) /\ DOMAIN t.inp = 1..(Len(s.inp) + 1)
      /\ \A i \in DOMAIN s.inp : t.inp[i] = s.inp[i]
      /\ t.inp[Len(s.inp) + 1] = r /\ In(t) = In(s) \cup {r}
      /\ DOMAIN s.inp = 1..Len(s.inp) /\ Len(s.inp) \in Nat
  BY AppendOf DEF In
<1>2. ASSUME NEW i \in DOMAIN t.inp, NEW j \in DOMAIN t.inp, i < j
      PROVE  t.inp[i].id < t.inp[j].id
  <2>1. i \in DOMAIN s.inp /\ (j \in DOMAIN s.inp \/ j = Len(s.inp) + 1)
    BY <1>1, <1>2
  <2> QED BY <1>1, <1>2, <2>1 DEF Rising, In
<1> QED BY <1>1, <1>2 DEF Rising

\* The answers under way, when one is read and when something is said.
LEMMA OutRead ==
    ASSUME NEW s, s.out \in Seq(Responses \cup Events), s.out # <<>>, NEW t,
           t.out = Tail(s.out)
    PROVE  /\ t.out \in Seq(Responses \cup Events) /\ Out(t) \subseteq Out(s)
           /\ Head(s.out) \in Responses \cup Events
           /\ Head(s.out).type = "response" => Head(s.out) \in Out(s) \cap Responses
<1>1. /\ Tail(s.out) \in Seq(Responses \cup Events) /\ Head(s.out) \in Responses \cup Events
      /\ 1 \in DOMAIN s.out /\ s.out[1] = Head(s.out)
      /\ {t.out[i] : i \in DOMAIN t.out} \subseteq {s.out[i] : i \in DOMAIN s.out}
  BY TailOf
<1>2. Head(s.out).type = "response" => Head(s.out) \in Responses
  BY <1>1 DEF Responses, Events
<1> QED BY <1>1, <1>2 DEF Out

LEMMA OutSaid ==
    ASSUME NEW s, s.out \in Seq(Responses \cup Events), NEW t, NEW m \in Responses \cup Events,
           t.out = Append(s.out, m)
    PROVE  /\ t.out \in Seq(Responses \cup Events)
           /\ Out(t) = IF m \in Responses THEN Out(s) \cup {m} ELSE Out(s)
<1>1. /\ t.out \in Seq(Responses \cup Events)
      /\ {t.out[i] : i \in DOMAIN t.out} = {s.out[i] : i \in DOMAIN s.out} \cup {m}
  BY AppendOf
<1>2. m \in Responses <=> m.type = "response"
  BY DEF Responses, Events
<1> QED BY <1>1, <1>2 DEF Out

LEMMA Basic ==
    ASSUME PurcsexConstants
    PROVE  /\ Null \notin Handle /\ Null \notin Keys /\ Windows \cap Documents = {}
           /\ OneWrite \in Nat \ {0} /\ MaxOps \in Nat /\ MaxOdd \in Nat
           /\ Lengths \subseteq Nat /\ 0 \notin Lengths
           /\ \A d \in Documents : Target[d] \in Windows
           /\ \A v \in Handle : v[1] \in Keys /\ v[2] \in Nat
BY DEF PurcsexConstants, Keys, Handle

---------------------------------------------------------------------------
(* What a step may do to the client without a request, and to what is under way. *)

\* Operations are queued or cannot be sent, or the client ends.
LEMMA QuietRight ==
    ASSUME NEW c, NEW s, NEW h, Right(c, s, h), NEW d \in Clients, d.new = <<>>,
           d.left + d.issued \in 1..MaxOps, d.sent = c.sent, d.handles = c.handles,
           d.contents = c.contents, d.wrotten = c.wrotten, d.lastTarget = c.lastTarget,
           d.pending = c.pending
    PROVE  Right(d, s, h)
<1>1. BatchOf(d) = BatchOf(c)
  BY DEF BatchOf
<1>2. Typed(d, s, h) /\ Filled(d) /\ Ordered(d, s)
  BY DEF Right, Typed, Filled, Ordered
<1>3. Aged(d, s)
  BY DEF Right, Aged, Before
<1>4. Single(d)
  BY <1>1 DEF Right, Single, Kept
<1>5. Latest(d, s) /\ Follows(d, s) /\ Truths(d, s)
  BY <1>1 DEF Right, Latest, Follows, Truths
<1>6. Named(d, h) /\ Changes(s, h) /\ Ended(d, s, h)
  BY <1>1 DEF Right, Named, Ended
<1> QED BY <1>2, <1>3, <1>4, <1>5, <1>6 DEF Right

\* An answer or an event is taken, or something happens that the client has no word about.
LEMMA FewerRight ==
    ASSUME NEW c, NEW s, NEW h, Right(c, s, h), NEW t \in Servers, t.inp = s.inp,
           Out(t) \subseteq Out(s), t.win = s.win, t.doc = s.doc, t.parses = s.parses
    PROVE  Right(c, t, h)
<1>1. In(t) = In(s)
  BY DEF In
<1>2. Typed(c, t, h) /\ Filled(c) /\ Ordered(c, t)
  BY <1>1 DEF Right, Typed, Ordered
<1>3. Aged(c, t)
  BY <1>1 DEF Right, Aged, Before
<1>4. \A r : Chain(s, r) => Chain(t, r)
  BY DEF Chain
<1>5. Single(c) /\ Latest(c, t) /\ Follows(c, t)
  BY <1>1, <1>4 DEF Right, Latest, Follows
<1>6. \A r, v : Truth(s, r, v) => Truth(t, r, v)
  BY <1>4 DEF Truth
<1>7. Truths(c, t)
  BY <1>6 DEF Right, Truths
<1>8. Named(c, h) /\ Changes(t, h) /\ Ended(c, t, h)
  BY <1>1 DEF Right, Changes, Ended
<1> QED BY <1>2, <1>3, <1>5, <1>7, <1>8 DEF Right

\* A request is not waited for any more: time is over, or its answer has come and nothing
\* follows.
LEMMA GivenUpRight ==
    ASSUME PurcsexConstants, NEW c, NEW s, NEW h, Right(c, s, h), NEW r \in c.pending,
           NEW g \in Hurts, h.docs \subseteq g.docs, Writes(r) => r.key \in g.docs,
           \A k \in h.whole : k \in g.whole \/ (Writes(r) /\ k = r.key)
    PROVE  Right(Without(c, r.id), s, g)
<1> DEFINE d == Without(c, r.id)
<1>1. /\ d.left = c.left /\ d.issued = c.issued /\ d.sent = c.sent /\ d.handles = c.handles
      /\ d.contents = c.contents /\ d.wrotten = c.wrotten /\ d.lastTarget = c.lastTarget
      /\ d.pending = {q \in c.pending : q.id # r.id} /\ d.new = c.new
      /\ d.running = c.running /\ d \in Clients
  BY DEF Without, Right, Typed, Clients
<1> HIDE DEF d
<1>2. BatchOf(d) \subseteq BatchOf(c) /\ d.pending \subseteq c.pending
  BY <1>1 DEF BatchOf
<1>3. Typed(d, s, g) /\ Filled(d) /\ Ordered(d, s)
  BY <1>1, <1>2 DEF Right, Typed, Filled, Ordered
<1>4. Aged(d, s)
  BY <1>1 DEF Right, Aged, Before
<1>5. Single(d)
  BY <1>1, <1>2 DEF Right, Single, Kept
<1>6. Latest(d, s) /\ Follows(d, s) /\ Truths(d, s)
  BY <1>2 DEF Right, Latest, Follows, Truths
<1>7. ASSUME NEW k \in Documents,
             NEW q \in BatchOf(c), Writes(q), q.key = k, q \notin BatchOf(d)
      PROVE  k \in g.docs
  <2>1. q \in c.pending /\ q.id = r.id
    BY <1>1, <1>7 DEF BatchOf
  <2>2. q = r
    BY <2>1 DEF Right, Ordered
  <2> QED BY <2>2, <1>7
<1>8. Named(d, g)
  BY <1>1, <1>7 DEF Right, Named
<1>9. Writes(r) => /\ c.handles[r.key] = r.handle /\ r.key \in Documents
                   /\ r.handle[1] \in Windows
  <2>1. r \in Requests
    BY DEF Right, Typed, Clients
  <2>2. Writes(r) => r \in BatchOf(c)
    BY <2>1 DEF Requests, Shapes, Writes, WriteOps, BatchOf
  <2> QED BY <2>1, <2>2 DEF Right, Single, Kept, Requests, Writes
<1>10. \A w \in Windows : s.doc[w] # Null => s.doc[w][1] \notin Windows
  BY Basic DEF Right, Typed, Servers
<1>11. Changes(s, g) /\ Ended(d, s, g)
  BY <1>1, <1>9, <1>10, Basic DEF Right, Changes, Ended
<1> QED BY <1>3, <1>4, <1>5, <1>6, <1>8, <1>11 DEF Right, d

\* A window is made, or windows that were destroyed leave the table.
LEMMA TableRight ==
    ASSUME NEW c, NEW s, NEW h, Right(c, s, h), PurcsexConstants, NEW d \in Clients,
           d.left = c.left, d.issued = c.issued, d.sent = c.sent, d.contents = c.contents,
           d.wrotten = c.wrotten, d.lastTarget = c.lastTarget, d.pending = c.pending,
           d.new = c.new, \A k \in Documents : d.handles[k] = c.handles[k],
           \A w \in Windows : d.handles[w] # Null =>
                d.handles[w][1] \in Windows /\ Before(d.handles[w], c, s)
    PROVE  Right(d, s, h)
<1>1. \A v : Before(v, d, s) <=> Before(v, c, s)
  BY DEF Before
<1>2. BatchOf(d) = BatchOf(c)
  BY DEF BatchOf
<1>3. Typed(d, s, h) /\ Filled(d) /\ Ordered(d, s)
  BY DEF Right, Typed, Filled, Ordered
<1>4. ASSUME NEW k \in Keys PROVE Before(d.handles[k], d, s)
  <2>1. CASE k \in Documents
    BY <1>1, <2>1, <1>4 DEF Right, Aged
  <2>2. CASE k \in Windows /\ d.handles[k] # Null
    BY <1>1, <2>2
  <2>3. CASE d.handles[k] = Null
    BY <2>3 DEF Before
  <2> QED BY <2>1, <2>2, <2>3 DEF Keys
<1>5. Aged(d, s)
  BY <1>1, <1>4 DEF Right, Aged
<1>6. \A r \in BatchOf(c) : Writes(r) => r.key \in Documents
  BY DEF Right, Typed, Clients, BatchOf, Requests, Writes
<1>7. Single(d)
  BY <1>2, <1>6 DEF Right, Single, Kept
<1>8. Latest(d, s) /\ Follows(d, s) /\ Truths(d, s)
  BY <1>2 DEF Right, Latest, Follows, Truths
<1>9. Named(d, h) /\ Changes(s, h) /\ Ended(d, s, h)
  BY <1>2 DEF Right, Named, Ended
<1> QED BY <1>3, <1>5, <1>7, <1>8, <1>9 DEF Right

---------------------------------------------------------------------------
(* What the functions of the client give. *)

\* Nothing was sent.
Quiet(c, d) ==
    /\ d \in Clients /\ d.new = <<>> /\ d.left + d.issued = c.left + c.issued
    /\ d.sent = c.sent /\ d.pending = c.pending /\ d.handles = c.handles
    /\ d.contents = c.contents /\ d.wrotten = c.wrotten /\ d.lastTarget = c.lastTarget

\* r was sent, and the rest is for the following to say.
Sent(c, d, r) ==
    /\ d \in Clients /\ r \in Requests /\ r.id = c.sent + 1 /\ d.sent = c.sent + 1
    /\ d.pending = c.pending \cup {r} /\ d.new = <<r>>
    /\ d.left + d.issued = c.left + c.issued

\* Nothing else happened.
Plain(c, d, r) ==
    /\ Sent(c, d, r) /\ ~Writes(r)
    /\ r.op = "change" => r.handle = c.handles[r.key]
    /\ d.handles = c.handles /\ d.contents = c.contents /\ d.wrotten = c.wrotten
    /\ d.lastTarget = c.lastTarget

\* A document was begun.
Begins(c, d, r) ==
    /\ Sent(c, d, r) /\ r.op \in {"load", "writeBegin"}
    /\ r.handle = c.handles[Target[r.key]]
    /\ d.handles = [c.handles EXCEPT ![r.key] = r.handle]
    /\ d.contents[r.key] \in Lengths /\ d.wrotten[r.key] = r.size
    /\ \A k \in Documents \ {r.key} :
         d.contents[k] = c.contents[k] /\ d.wrotten[k] = c.wrotten[k]
    /\ r.size > 0 /\ r.size <= d.contents[r.key]
    /\ r.op = "writeBegin" => r.size # d.contents[r.key]
    /\ d.lastTarget = Kind(Target[r.key])

\* The next piece was sent.
Continues(c, d, r) ==
    /\ Sent(c, d, r) /\ r.op \in More /\ r.handle = c.handles[r.key]
    /\ d.handles = c.handles /\ d.contents = c.contents /\ d.lastTarget = c.lastTarget
    /\ d.wrotten[r.key] = c.wrotten[r.key] + r.size
    /\ \A k \in Documents \ {r.key} : d.wrotten[k] = c.wrotten[k]
    /\ r.size > 0 /\ d.wrotten[r.key] <= d.contents[r.key]
    /\ r.op = "writeMore" /\ d.wrotten[r.key] = d.contents[r.key] => r.size = OneWrite

LEMMA RequestIs ==
    ASSUME NEW id \in Nat, NEW op \in Ops, NEW key \in Keys \cup {Null},
           NEW handle \in Handle \cup {Null}, NEW handler \in Handlers, NEW size \in Nat,
           <<op, handler>> \in Shapes,
           op \in {"create", "update", "destroy"} => key \in Windows,
           op \in WriteOps \cup {"change"} => key \in Documents /\ handle \in Handle,
           op \in WriteOps => handle[1] \in Windows
    PROVE  [id |-> id, op |-> op, key |-> key, handle |-> handle, handler |-> handler,
            size |-> size] \in Requests
BY DEF Requests

LEMMA RequestSent ==
    ASSUME NEW c \in Clients, c.new = <<>>, NEW op, NEW key, NEW handle, NEW handler, NEW size,
           NEW r \in Requests,
           r = [id |-> c.sent + 1, op |-> op, key |-> key, handle |-> handle,
                handler |-> handler, size |-> size],
           NEW d, d = SendRequest(c, op, key, handle, handler, size)
    PROVE  /\ Sent(c, d, r) /\ d.handles = c.handles /\ d.contents = c.contents
           /\ d.wrotten = c.wrotten /\ d.lastTarget = c.lastTarget
           /\ d.left = c.left /\ d.issued = c.issued
<1>1. d = [c EXCEPT !.sent = @ + 1, !.pending = @ \cup {r}, !.new = Append(@, r)]
  BY DEF SendRequest
<1>2. Append(c.new, r) = <<r>> /\ <<r>> \in Seq(Requests)
  OBVIOUS
<1>4. r.id = c.sent + 1
  OBVIOUS
<1>5. /\ d.left = c.left /\ d.issued = c.issued /\ d.sent = c.sent + 1 /\ d.handles = c.handles
      /\ d.contents = c.contents /\ d.wrotten = c.wrotten /\ d.lastTarget = c.lastTarget
      /\ d.pending = c.pending \cup {r} /\ d.new = <<r>> /\ d.running = c.running
  BY <1>1, <1>2 DEF Clients
<1>6. d \in Clients
  <2>1. d = [c EXCEPT !.sent = c.sent + 1, !.pending = c.pending \cup {r}, !.new = <<r>>]
    BY <1>1, <1>2
  <2>2. c.sent + 1 \in Nat /\ c.pending \cup {r} \in SUBSET Requests
    BY DEF Clients
  <2> QED BY <1>2, <2>1, <2>2 DEF Clients
<1>3. /\ d.left = c.left /\ d.issued = c.issued /\ d.sent = c.sent + 1 /\ d.handles = c.handles
      /\ d.contents = c.contents /\ d.wrotten = c.wrotten /\ d.lastTarget = c.lastTarget
      /\ d.pending = c.pending \cup {r} /\ d.new = <<r>> /\ d \in Clients
  BY <1>5, <1>6
<1> QED BY <1>3, <1>4 DEF Sent

LEMMA WindowRequests ==
    ASSUME PurcsexConstants, NEW c \in Clients, c.new = <<>>, NEW w \in Windows,
           NEW d \in {CreatePlainWin(c, w), UpdatePlainWin(c, w), DestroyPlainWin(c, w)}
    PROVE  Quiet(c, d) \/ \E r \in Requests : Plain(c, d, r) /\ r.handler # "none"
<1> DEFINE R(op, handle, handler) ==
             [id |-> c.sent + 1, op |-> op, key |-> w, handle |-> handle, handler |-> handler,
              size |-> 0]
<1>1. c.sent + 1 \in Nat /\ w \in Keys /\ c.handles[w] \in Handle \cup {Null}
  BY DEF Clients, Keys
<1>2. /\ R("create", Null, "created") \in Requests
      /\ R("update", c.handles[w], "updated") \in Requests
      /\ R("destroy", c.handles[w], "destroyed") \in Requests
  BY <1>1, RequestIs DEF Ops, Handlers, Shapes, WriteOps
<1>3. CASE d = c
  BY <1>3 DEF Quiet
<1>4. CASE d = SendRequest(c, "create", w, Null, "created", 0)
  <2> DEFINE r == R("create", Null, "created")
  <2>1. Plain(c, d, r) /\ r.handler # "none"
    BY <1>2, <1>4, RequestSent DEF Plain, Writes, WriteOps
  <2> QED BY <1>2, <2>1
<1>5. CASE d = SendRequest(c, "update", w, c.handles[w], "updated", 0)
  <2> DEFINE r == R("update", c.handles[w], "updated")
  <2>1. Plain(c, d, r) /\ r.handler # "none"
    BY <1>2, <1>5, RequestSent DEF Plain, Writes, WriteOps
  <2> QED BY <1>2, <2>1
<1>6. CASE d = SendRequest(c, "destroy", w, c.handles[w], "destroyed", 0)
  <2> DEFINE r == R("destroy", c.handles[w], "destroyed")
  <2>1. Plain(c, d, r) /\ r.handler # "none"
    BY <1>2, <1>6, RequestSent DEF Plain, Writes, WriteOps
  <2> QED BY <1>2, <2>1
<1> QED BY <1>3, <1>4, <1>5, <1>6 DEF CreatePlainWin, UpdatePlainWin, DestroyPlainWin

LEMMA OtherRequests ==
    ASSUME PurcsexConstants, NEW c \in Clients, c.new = <<>>, NEW d,
           \/ d \in {ChangeDocument(c, k) : k \in Documents}
           \/ \E h \in {"changed", "own"} : d = OtherRequest(c, h)
    PROVE  Quiet(c, d) \/ \E r \in Requests : Plain(c, d, r) /\ r.handler # "none"
<1>1. c.sent + 1 \in Nat
  BY DEF Clients
<1>2. CASE d = c
  BY <1>2 DEF Quiet
<1>3. ASSUME NEW k \in Documents, c.handles[k] # Null,
             d = SendRequest(c, "change", k, c.handles[k], "changed", 0)
      PROVE  \E r \in Requests : Plain(c, d, r) /\ r.handler # "none"
  <2> DEFINE r == [id |-> c.sent + 1, op |-> "change", key |-> k, handle |-> c.handles[k],
                   handler |-> "changed", size |-> 0]
  <2>1. k \in Keys /\ c.handles[k] \in Handle
    BY <1>3 DEF Clients, Keys
  <2>2. r \in Requests
    BY <1>1, <2>1, RequestIs DEF Ops, Handlers, Shapes, WriteOps
  <2>3. Plain(c, d, r) /\ r.handler # "none"
    BY <1>3, <2>2, RequestSent DEF Plain, Writes, WriteOps
  <2> QED BY <2>2, <2>3
<1>4. ASSUME NEW h \in {"changed", "own"}, d = OtherRequest(c, h)
      PROVE  \E r \in Requests : Plain(c, d, r) /\ r.handler # "none"
  <2> DEFINE r == [id |-> c.sent + 1, op |-> "other", key |-> Null, handle |-> Null,
                   handler |-> h, size |-> 0]
  <2>1. r \in Requests
    BY <1>1, RequestIs DEF Ops, Handlers, Shapes, WriteOps
  <2>2. Plain(c, d, r) /\ r.handler # "none"
    BY <1>4, <2>1, RequestSent DEF Plain, Writes, WriteOps, OtherRequest
  <2> QED BY <2>1, <2>2
<1> QED BY <1>2, <1>3, <1>4 DEF ChangeDocument

LEMMA PieceOf ==
    ASSUME PurcsexConstants, NEW left \in Nat \ {0}, NEW n \in PieceSizes(left)
    PROVE  /\ n \in Nat \ {0} /\ n <= left /\ n <= OneWrite
           /\ n = left => left <= OneWrite
BY Basic DEF PieceSizes

\* load_or_write_document
LEMMA DocumentBegun ==
    ASSUME PurcsexConstants, NEW c \in Clients, c.new = <<>>, Filled(c), NEW k \in Documents,
           NEW d \in LoadOrWriteDocument(c, k)
    PROVE  Quiet(c, d) \/ \E r \in Requests : Begins(c, d, r) /\ r.handler # "none"
<1> DEFINE w == Target[k]
<1>1. w \in Windows /\ w \in Keys /\ k \in Keys
  BY Basic DEF Keys
<1>2. CASE c.handles[w] = Null
  BY <1>2 DEF LoadOrWriteDocument, Quiet
<1>3. ASSUME c.handles[w] # Null, NEW len \in Lengths, NEW n \in Nat \ {0}, n <= len,
             NEW op \in {"load", "writeBegin"}, NEW handler,
             handler = IF op = "load" THEN "loaded" ELSE "wrotten",
             op = "writeBegin" => n # len, NEW e,
             e = [c EXCEPT !.lastTarget = Kind(w), !.contents[k] = len, !.wrotten[k] = n,
                           !.handles[k] = c.handles[w]],
             d = SendRequest(e, op, k, c.handles[w], handler, n)
      PROVE  \E r \in Requests : Begins(c, d, r) /\ r.handler # "none"
  <2>1. /\ e.left = c.left /\ e.issued = c.issued /\ e.sent = c.sent /\ e.pending = c.pending
        /\ e.handles = [c.handles EXCEPT ![k] = c.handles[w]]
        /\ e.contents = [c.contents EXCEPT ![k] = len]
        /\ e.wrotten = [c.wrotten EXCEPT ![k] = n] /\ e.lastTarget = Kind(w) /\ e.new = <<>>
        /\ e.running = c.running
    BY <1>3 DEF Clients
  <2>2. e \in Clients
    <3>1. len \in Nat /\ n \in Nat /\ Kind(w) \in {"plainwindow", "widget"}
      BY Basic DEF Kind
    <3>2. e.handles \in [Keys -> Handle \cup {Null}] /\ e.contents \in [Documents -> Nat]
          /\ e.wrotten \in [Documents -> Nat]
      BY <1>1, <2>1, <3>1 DEF Clients
    <3> QED BY <1>3, <2>1, <3>1, <3>2 DEF Clients
  <2> DEFINE r == [id |-> e.sent + 1, op |-> op, key |-> k, handle |-> c.handles[w],
                   handler |-> handler, size |-> n]
  <2>3. c.handles[w] \in Handle /\ c.handles[w][1] \in Windows
    BY <1>1, <1>3 DEF Clients, Filled
  <2>4. /\ r.id = c.sent + 1 /\ r.op = op /\ r.key = k /\ r.handle = c.handles[w]
        /\ r.handler = handler /\ r.size = n /\ r.handler # "none"
    BY <1>3, <2>1
  <2>5. r \in Requests
    <3>1. c.sent + 1 \in Nat
      BY DEF Clients
    <3>2. op \in Ops /\ handler \in Handlers /\ <<op, handler>> \in Shapes /\ k \in Keys
      BY <1>1, <1>3 DEF Ops, Handlers, Shapes, WriteOps
    <3>3. op \notin {"create", "update", "destroy"}
      BY <1>3
    <3> QED BY <1>1, <1>3, <2>1, <2>3, <3>1, <3>2, <3>3, RequestIs
  <2>10. /\ r = [id |-> e.sent + 1, op |-> op, key |-> k, handle |-> c.handles[w],
                 handler |-> handler, size |-> n]
         /\ d = SendRequest(e, op, k, c.handles[w], handler, n) /\ e.new = <<>>
    BY <1>3, <2>1
  <2> HIDE DEF r
  <2>6. /\ Sent(e, d, r) /\ d.handles = e.handles /\ d.contents = e.contents
        /\ d.wrotten = e.wrotten /\ d.lastTarget = e.lastTarget
    BY <2>2, <2>5, <2>10, RequestSent
  <2>7. Sent(c, d, r)
    BY <2>1, <2>6 DEF Sent
  <2>8. /\ d.contents[k] = len /\ d.wrotten[k] = n
        /\ \A j \in Documents \ {k} : d.contents[j] = c.contents[j] /\ d.wrotten[j] = c.wrotten[j]
    BY <2>1, <2>6 DEF Clients
  <2>11. /\ d.handles = [c.handles EXCEPT ![r.key] = r.handle]
         /\ r.handle = c.handles[Target[r.key]] /\ d.lastTarget = Kind(Target[r.key])
    BY <2>1, <2>4, <2>6
  <2>12. /\ r.op \in {"load", "writeBegin"} /\ r.size > 0 /\ r.size <= d.contents[r.key]
         /\ r.op = "writeBegin" => r.size # d.contents[r.key]
         /\ d.contents[r.key] \in Lengths /\ d.wrotten[r.key] = r.size
    BY <1>3, <2>4, <2>8
  <2>9. Begins(c, d, r)
    BY <2>4, <2>7, <2>8, <2>11, <2>12 DEF Begins
  <2> QED BY <2>4, <2>5, <2>9
<1>4. CASE c.handles[w] # Null
  <2> DEFINE E(len, n) == [c EXCEPT !.lastTarget = Kind(w), !.contents[k] = len,
                                    !.wrotten[k] = n, !.handles[k] = c.handles[w]]
  <2>1. PICK len \in IF c.contents[k] # 0 THEN {c.contents[k]} ELSE Lengths :
          d \in IF len > OneWrite
                THEN {SendRequest(E(len, n), "writeBegin", k, c.handles[w], "wrotten", n)
                        : n \in PieceSizes(len)}
                ELSE {SendRequest(E(len, len), "load", k, c.handles[w], "loaded", len)}
    BY <1>4 DEF LoadOrWriteDocument
  <2>2. len \in Lengths /\ len \in Nat \ {0} /\ OneWrite \in Nat
    BY <2>1, Basic DEF Filled
  <2>3. CASE len > OneWrite
    <3>1. PICK n \in PieceSizes(len) :
            d = SendRequest(E(len, n), "writeBegin", k, c.handles[w], "wrotten", n)
      BY <2>1, <2>3
    <3>2. n \in Nat \ {0} /\ n <= len /\ n # len
      BY <2>2, <2>3, <3>1, PieceOf
    <3> QED BY <1>3, <1>4, <2>2, <3>1, <3>2
  <2>4. CASE ~(len > OneWrite)
    <3>1. d = SendRequest(E(len, len), "load", k, c.handles[w], "loaded", len)
      BY <2>1, <2>4
    <3>2. len \in Nat \ {0} /\ len <= len
      BY <2>2
    <3>3. PICK e : /\ e = E(len, len)
                   /\ d = SendRequest(e, "load", k, c.handles[w], "loaded", len)
      BY <3>1
    <3> QED BY <1>3, <1>4, <2>2, <3>2, <3>3
  <2> QED BY <2>3, <2>4
<1> QED BY <1>2, <1>4

\* write_more_document
LEMMA PieceSent ==
    ASSUME PurcsexConstants, NEW c \in Clients, c.new = <<>>, NEW k \in Documents,
           c.wrotten[k] < c.contents[k], c.handles[k] \in Handle, c.handles[k][1] \in Windows,
           NEW d \in WriteMoreDocument(c, k)
    PROVE  \E r \in Requests : Continues(c, d, r) /\ r.handler # "none" /\ r.key = k
<1>1. k \in Keys /\ c.wrotten[k] \in Nat /\ c.contents[k] \in Nat /\ OneWrite \in Nat \ {0}
  BY Basic DEF Keys, Clients
<1> DEFINE left == c.contents[k] - c.wrotten[k]
<1>2. ASSUME NEW n \in Nat \ {0}, n <= left, NEW op \in More, NEW handler,
             handler = IF op = "writeEnd" THEN "loaded" ELSE "wrotten",
             op = "writeMore" /\ n = left => n = OneWrite, NEW e,
             e = [c EXCEPT !.wrotten[k] = @ + n],
             d = SendRequest(e, op, k, c.handles[k], handler, n)
      PROVE  \E r \in Requests : Continues(c, d, r) /\ r.handler # "none" /\ r.key = k
  <2>1. /\ e.left = c.left /\ e.issued = c.issued /\ e.sent = c.sent /\ e.pending = c.pending
        /\ e.handles = c.handles /\ e.contents = c.contents
        /\ e.wrotten = [c.wrotten EXCEPT ![k] = @ + n] /\ e.lastTarget = c.lastTarget
        /\ e.new = <<>> /\ e.running = c.running
    BY <1>2 DEF Clients
  <2>2. e \in Clients
    <3>1. e.wrotten \in [Documents -> Nat]
      BY <1>1, <2>1 DEF Clients
    <3> QED BY <1>2, <2>1, <3>1 DEF Clients
  <2> DEFINE r == [id |-> e.sent + 1, op |-> op, key |-> k, handle |-> c.handles[k],
                   handler |-> handler, size |-> n]
  <2>3. /\ r.id = c.sent + 1 /\ r.op = op /\ r.key = k /\ r.handle = c.handles[k]
        /\ r.handler = handler /\ r.size = n /\ r.handler # "none"
    BY <1>2, <2>1
  <2>4. r \in Requests
    <3>1. c.sent + 1 \in Nat
      BY DEF Clients
    <3>2. op \in Ops /\ handler \in Handlers /\ <<op, handler>> \in Shapes /\ k \in Keys
      BY <1>1, <1>2 DEF Ops, Handlers, Shapes, WriteOps, More
    <3>3. op \notin {"create", "update", "destroy"}
      BY <1>2 DEF More
    <3> QED BY <1>1, <1>2, <2>1, <3>1, <3>2, <3>3, RequestIs
  <2>10. /\ r = [id |-> e.sent + 1, op |-> op, key |-> k, handle |-> c.handles[k],
                 handler |-> handler, size |-> n]
         /\ d = SendRequest(e, op, k, c.handles[k], handler, n) /\ e.new = <<>>
    BY <1>2, <2>1
  <2> HIDE DEF r
  <2>5. /\ Sent(e, d, r) /\ d.handles = e.handles /\ d.contents = e.contents
        /\ d.wrotten = e.wrotten /\ d.lastTarget = e.lastTarget
    BY <2>2, <2>4, <2>10, RequestSent
  <2>6. Sent(c, d, r)
    BY <2>1, <2>5 DEF Sent
  <2>7. d.wrotten[k] = c.wrotten[k] + n
        /\ \A j \in Documents \ {k} : d.wrotten[j] = c.wrotten[j]
    BY <2>1, <2>5 DEF Clients
  <2>8. d.wrotten[k] <= d.contents[k] /\ (d.wrotten[k] = d.contents[k] => n = left)
    BY <1>1, <1>2, <2>1, <2>5, <2>7
  <2>9. Continues(c, d, r)
    BY <1>2, <2>1, <2>3, <2>5, <2>6, <2>7, <2>8 DEF Continues
  <2> QED BY <2>3, <2>4, <2>9
<1> DEFINE E(n) == [c EXCEPT !.wrotten[k] = @ + n]
<1>3. c.contents[k] # 0 /\ left \in Nat \ {0}
  BY <1>1
<1>4. CASE left < OneWrite
  <2>1. d = SendRequest(E(left), "writeEnd", k, c.handles[k], "loaded", left)
    BY <1>3, <1>4 DEF WriteMoreDocument
  <2> QED BY <1>2, <1>3, <2>1 DEF More
<1>5. CASE ~(left < OneWrite)
  <2>1. PICK n \in PieceSizes(left) :
          d = SendRequest(E(n), "writeMore", k, c.handles[k], "wrotten", n)
    BY <1>3, <1>5 DEF WriteMoreDocument
  <2>2. n \in Nat \ {0} /\ n <= left /\ (n = left => n = OneWrite)
    BY <1>1, <1>3, <1>5, <2>1, PieceOf
  <2> QED BY <1>2, <2>1, <2>2 DEF More
<1> QED BY <1>4, <1>5

\* issue_next_batch_operation
LEMMA NextIssued ==
    ASSUME PurcsexConstants, NEW c \in Clients, c.new = <<>>, Filled(c), NEW d \in IssueNext(c)
    PROVE  \/ Quiet(c, d)
           \/ \E r \in Requests : (Plain(c, d, r) \/ Begins(c, d, r)) /\ r.handler # "none"
<1>1. CASE c.left = 0
  BY <1>1 DEF IssueNext, Quiet
<1>2. CASE c.left # 0
  <2> DEFINE e == [c EXCEPT !.left = @ - 1, !.issued = @ + 1]
  <2>1. /\ e.left = c.left - 1 /\ e.issued = c.issued + 1 /\ e.sent = c.sent
        /\ e.pending = c.pending /\ e.handles = c.handles /\ e.contents = c.contents
        /\ e.wrotten = c.wrotten /\ e.lastTarget = c.lastTarget
        /\ e.new = <<>> /\ e.running = c.running
    BY DEF Clients
  <2>2. e \in Clients
    <3>1. c.left - 1 \in Nat /\ c.issued + 1 \in Nat
      BY <1>2 DEF Clients
    <3> QED BY <3>1 DEF Clients
  <2>3. e.left + e.issued = c.left + c.issued
    BY <2>1 DEF Clients
  <2>4. Filled(e)
    BY <2>1, <2>3 DEF Filled
  <2>5. d \in IssueOperation(e)
    BY <1>2 DEF IssueNext
  <2> HIDE DEF e
  <2>6. Quiet(e, d) => Quiet(c, d)
    BY <2>1, <2>3 DEF Quiet
  <2>7. \A r : /\ Plain(e, d, r) => Plain(c, d, r)
               /\ Begins(e, d, r) => Begins(c, d, r)
    BY <2>1, <2>3 DEF Plain, Begins, Sent
  <2>8. \/ Quiet(e, d)
        \/ \E r \in Requests : (Plain(e, d, r) \/ Begins(e, d, r)) /\ r.handler # "none"
    BY <2>1, <2>2, <2>4, <2>5, WindowRequests, OtherRequests, DocumentBegun DEF IssueOperation
  <2> QED BY <2>6, <2>7, <2>8
<1> QED BY <1>1, <1>2

---------------------------------------------------------------------------
(* What is sent is under way, and leaves the invariant. *)

\* The client has sent r, and it is under way.
Underway(d, e, s, t, r) ==
    /\ e \in Clients /\ e.new = <<>> /\ e.left = d.left /\ e.issued = d.issued
    /\ e.sent = d.sent /\ e.pending = d.pending /\ e.handles = d.handles
    /\ e.contents = d.contents /\ e.wrotten = d.wrotten /\ e.lastTarget = d.lastTarget
    /\ t \in Servers /\ t.inp = Append(s.inp, r) /\ t.out = s.out /\ t.win = s.win
    /\ t.doc = s.doc /\ t.parses = s.parses

LEMMA SentOrder ==
    ASSUME PurcsexConstants, NEW c, NEW s, c \in Clients, s \in Servers, Ordered(c, s),
           NEW d, NEW r, Sent(c, d, r), NEW e, NEW t, Underway(d, e, s, t, r)
    PROVE  /\ In(t) = In(s) \cup {r} /\ Out(t) = Out(s) /\ Ordered(e, t)
           /\ BatchOf(e) = BatchOf(c) \cup {q \in {r} : q.handler # "none"}
           /\ \A v : Before(v, c, s) /\ v \in Handle \cup {Null} => Before(v, e, t)
           /\ \A m \in Out(s) : m.id # r.id
           /\ \A q \in c.pending \cup In(s) : q.id # r.id /\ q.id <= r.id
           /\ r.id \in Nat
<1>1. r \in Requests /\ r.id = c.sent + 1 /\ c.sent \in Nat /\ r.id \in Nat
  BY DEF Sent, Clients
<1>2. /\ s.inp \in Seq(Requests) /\ In(s) \subseteq Requests /\ c.pending \subseteq Requests
      /\ s.out \in Seq(Responses \cup Events)
  BY TailOf DEF Servers, Clients, In
<1>3. \A q \in c.pending \cup In(s) : q.id <= c.sent /\ q.id \in Nat
  BY <1>2 DEF Ordered, Requests
<1>4. \A q \in c.pending \cup In(s) : q.id # r.id /\ q.id <= r.id /\ q.id < r.id
  BY <1>1, <1>3
<1>5. t.inp \in Seq(Requests) /\ Rising(t.inp) /\ In(t) = In(s) \cup {r}
  <2>1. t.inp = Append(s.inp, r) /\ Rising(s.inp) /\ \A q \in In(s) : q.id < r.id
    BY <1>4 DEF Underway, Ordered
  <2> QED BY <1>1, <1>2, <2>1, InSent
<1>6. Out(t) = Out(s)
  BY DEF Out, Underway
<1>7. \A m \in Out(s) : m.id \in Nat /\ m.id <= c.sent /\ m.id < r.id
  <2>1. Out(s) \subseteq Responses
    <3>1. \A i \in DOMAIN s.out : s.out[i] \in Responses \cup Events
      BY <1>2
    <3> QED BY <3>1 DEF Out, Responses, Events
  <2> QED BY <1>1, <2>1 DEF Ordered, Responses
<1>8. e.pending = c.pending \cup {r} /\ e.sent = c.sent + 1
  BY DEF Underway, Sent
<1>9. Ordered(e, t)
  <2>1. \A q \in e.pending \cup In(t) : q.id <= e.sent
    BY <1>1, <1>3, <1>5, <1>8
  <2>2. \A p \in e.pending, q \in e.pending \cup In(t) : p.id = q.id => p = q
    BY <1>4, <1>5, <1>8 DEF Ordered
  <2>3. \A m \in Out(t) : m.id <= e.sent /\ \A q \in In(t) : m.id < q.id
    BY <1>1, <1>5, <1>6, <1>7, <1>8 DEF Ordered
  <2> QED BY <1>5, <2>1, <2>2, <2>3 DEF Ordered
<1>10. ASSUME NEW v \in Handle \cup {Null}, Before(v, c, s) PROVE Before(v, e, t)
  <2>1. v # Null => v[2] \in Nat
    BY Basic
  <2> QED BY <1>1, <1>5, <1>8, <1>10, <2>1 DEF Before
<1>11. BatchOf(e) = BatchOf(c) \cup {q \in {r} : q.handler # "none"}
  BY <1>8 DEF BatchOf
<1>12. \A m \in Out(s) : m.id # r.id
  BY <1>1, <1>7
<1> QED BY <1>1, <1>4, <1>5, <1>6, <1>9, <1>10, <1>11, <1>12

LEMMA PlainRight ==
    ASSUME PurcsexConstants, NEW c, NEW s, NEW h, Right(c, s, h), NEW d, NEW r, Plain(c, d, r),
           r.handler = "none" \/ BatchOf(c) = {}, NEW e, NEW t, Underway(d, e, s, t, r)
    PROVE  Right(e, t, h)
<1>1. /\ In(t) = In(s) \cup {r} /\ Out(t) = Out(s) /\ Ordered(e, t)
      /\ BatchOf(e) = BatchOf(c) \cup {q \in {r} : q.handler # "none"}
      /\ \A v : Before(v, c, s) /\ v \in Handle \cup {Null} => Before(v, e, t)
      /\ \A m \in Out(s) : m.id # r.id
      /\ \A q \in c.pending \cup In(s) : q.id # r.id /\ q.id <= r.id
      /\ r.id \in Nat /\ r \in Requests
  <2>1. c \in Clients /\ s \in Servers /\ Ordered(c, s)
    BY DEF Right, Typed
  <2>2. Sent(c, d, r) /\ r \in Requests
    BY DEF Plain, Sent
  <2> QED BY <2>1, <2>2, SentOrder
<1>2. /\ e.handles = c.handles /\ e.contents = c.contents /\ e.wrotten = c.wrotten
      /\ e.lastTarget = c.lastTarget /\ e.left + e.issued = c.left + c.issued
      /\ t.win = s.win /\ t.doc = s.doc /\ t.parses = s.parses
      /\ r.op \notin WriteOps /\ r.op \notin More
  BY DEF Underway, Plain, Sent, Writes, WriteOps, More
<1>3. Typed(e, t, h) /\ Filled(e)
  BY <1>2 DEF Right, Typed, Filled, Underway
<1>4. Aged(e, t)
  <2>1. \A k \in Keys : c.handles[k] \in Handle \cup {Null}
    BY DEF Right, Typed, Clients
  <2>2. \A w \in Windows : s.doc[w] \in Handle \cup {Null}
    BY DEF Right, Typed, Servers, Handle
  <2>3. \A m \in Out(s) : m.value \in Handle \cup {Null}
    BY DEF Right, Typed, Servers, Out, Responses, Events
  <2> QED BY <1>1, <1>2, <2>1, <2>2, <2>3 DEF Right, Aged
<1>5. Single(e)
  BY <1>1, <1>2 DEF Right, Single, Kept, Writes
<1>6. BatchOf(c) \subseteq c.pending
  BY DEF BatchOf
<1>7. Latest(e, t)
  BY <1>1, <1>2, <1>6 DEF Right, Latest
<1>8. \A q : Chain(s, q) => Chain(t, q)
  BY <1>2 DEF Chain
<1>9. Follows(e, t)
  BY <1>1, <1>2, <1>6, <1>8 DEF Right, Follows
<1>10. Truths(e, t)
  BY <1>1, <1>2, <1>8 DEF Right, Truths, Truth
<1>11. Named(e, h)
  BY <1>1, <1>2 DEF Right, Named
<1>12. r.op = "change" /\ r.key \notin h.docs => r.handle[1] = r.key
  <2> SUFFICES ASSUME r.op = "change", r.key \notin h.docs PROVE r.handle[1] = r.key
    OBVIOUS
  <2>1. r.key \in Documents /\ r.handle = c.handles[r.key] /\ r.handle # Null
    BY <1>1, Basic DEF Plain, Requests
  <2>2. BatchOf(c) = {}
    BY <1>1 DEF Requests, Shapes
  <2> QED BY <2>1, <2>2 DEF Right, Named
<1>13. Changes(t, h) /\ Ended(e, t, h)
  BY <1>1, <1>2, <1>12 DEF Right, Changes, Ended
<1> QED BY <1>1, <1>3, <1>4, <1>5, <1>7, <1>9, <1>10, <1>11, <1>13 DEF Right

LEMMA DocsApart ==
    ASSUME PurcsexConstants, NEW s \in Servers, NEW w \in Windows, s.doc[w] # Null
    PROVE  s.doc[w] \in Handle /\ s.doc[w][1] \in Documents /\ s.doc[w][1] \notin Windows
BY Basic DEF Servers, Handle

LEMMA BeginsRight ==
    ASSUME PurcsexConstants, NEW c, NEW s, NEW h, Right(c, s, h),
           NEW d, NEW r, Begins(c, d, r),
           r.handler # "none", BatchOf(c) = {}, NEW e, NEW t, Underway(d, e, s, t, r)
    PROVE  Right(e, t, h)
<1>1. /\ In(t) = In(s) \cup {r} /\ Out(t) = Out(s) /\ Ordered(e, t) /\ BatchOf(e) = {r}
      /\ \A v : Before(v, c, s) /\ v \in Handle \cup {Null} => Before(v, e, t)
      /\ \A m \in Out(s) : m.id # r.id
      /\ \A q \in In(s) : q.id <= r.id
      /\ r.id \in Nat /\ r \in Requests
  <2>1. c \in Clients /\ s \in Servers /\ Ordered(c, s)
    BY DEF Right, Typed
  <2>2. Sent(c, d, r) /\ r \in Requests
    BY DEF Begins, Sent
  <2> QED BY <2>1, <2>2, SentOrder
<1>2. /\ r.op \in {"load", "writeBegin"} /\ r.key \in Documents /\ r.key \in Keys
      /\ r.handle \in Handle /\ r.handle[1] \in Windows /\ r.op \notin More
      /\ Writes(r) /\ r.handle # Null /\ Target[r.key] \in Windows /\ Target[r.key] \in Keys
  BY <1>1, Basic DEF Begins, Requests, Writes, WriteOps, More, Keys
<1>3. /\ e.handles = [c.handles EXCEPT ![r.key] = r.handle]
      /\ e.lastTarget = Kind(Target[r.key])
      /\ e.contents[r.key] \in Lengths /\ e.wrotten[r.key] = r.size
      /\ \A k \in Documents \ {r.key} :
           e.contents[k] = c.contents[k] /\ e.wrotten[k] = c.wrotten[k]
      /\ r.size > 0 /\ r.size <= e.contents[r.key]
      /\ r.op = "writeBegin" => r.size # e.contents[r.key]
      /\ r.handle = c.handles[Target[r.key]]
      /\ e.left + e.issued = c.left + c.issued
      /\ t.win = s.win /\ t.doc = s.doc /\ t.parses = s.parses
  BY DEF Underway, Begins, Sent
<1>4. /\ c.handles \in [Keys -> Handle \cup {Null}] /\ e.handles[r.key] = r.handle
      /\ \A k \in Keys \ {r.key} : e.handles[k] = c.handles[k]
      /\ \A w \in Windows : w \in Keys /\ e.handles[w] = c.handles[w]
      /\ \A k \in Documents : k \in Keys
  BY <1>2, <1>3, Basic DEF Right, Typed, Clients, Keys
<1>5. Typed(e, t, h)
  BY DEF Right, Typed, Underway
<1>6. Filled(e)
  BY <1>3, <1>4 DEF Right, Filled
<1>7. Aged(e, t)
  <2>1. \A k \in Keys : c.handles[k] \in Handle \cup {Null}
    BY DEF Right, Typed, Clients
  <2>2. \A w \in Windows : s.doc[w] \in Handle \cup {Null}
    BY DEF Right, Typed, Servers, Handle
  <2>3. \A m \in Out(s) : m.value \in Handle \cup {Null}
    BY DEF Right, Typed, Servers, Out, Responses, Events
  <2>4. Before(r.handle, e, t)
    BY <1>1, <1>2, <1>3, <2>1 DEF Right, Aged
  <2> QED BY <1>1, <1>3, <1>4, <2>1, <2>2, <2>3, <2>4 DEF Right, Aged
<1>8. Single(e)
  <2>1. r.op # "writeMore" /\ r.size <= e.wrotten[r.key]
    BY <1>1, <1>2, <1>3 DEF Requests
  <2>2. Kept(e, r)
    BY <1>3, <1>4, <2>1 DEF Kept
  <2> QED BY <1>1, <2>2 DEF Single
<1>9. Latest(e, t) /\ Follows(e, t) /\ Truths(e, t)
  BY <1>1, <1>2 DEF Latest, Follows, Truths
<1>10. Named(e, h)
  BY <1>1, <1>2, <1>4 DEF Right, Named
<1>11. Changes(t, h)
  BY <1>1, <1>2 DEF Right, Changes
<1>12. Ended(e, t, h)
  <2>1. s \in Servers
    BY DEF Right, Typed
  <2> SUFFICES ASSUME NEW k \in Documents, e.handles[k] # Null,
                      e.handles[k] = t.doc[Target[k]], Target[k] \in t.parses
               PROVE  k \in h.whole
    BY DEF Ended
  <2>2. k # r.key
    BY <1>2, <1>3, <1>4, <2>1, Basic, DocsApart
  <2> QED BY <1>3, <1>4, <2>2 DEF Right, Ended
<1> QED BY <1>1, <1>5, <1>6, <1>7, <1>8, <1>9, <1>10, <1>11, <1>12 DEF Right

---------------------------------------------------------------------------
(* The answer to a request of the batch. *)

\* Nothing of the batch is under way when it is read.
LEMMA NoneUnderWay ==
    ASSUME PurcsexConstants, NEW c, NEW s, NEW h, Right(c, s, h), NEW r \in BatchOf(c),
           NEW m \in Out(s), m.id = r.id
    PROVE  \A q \in In(s) : q.handler = "none" /\ q.op = "other"
<1>1. \A q \in In(s) : q \in Requests
  <2>1. s.inp \in Seq(Requests)
    BY DEF Right, Typed, Servers
  <2> QED BY <2>1 DEF In
<1>2. r \in Requests
  BY DEF Right, Typed, Clients, BatchOf
<1>3. ASSUME NEW q \in In(s), q.handler # "none" PROVE FALSE
  <2>1. q.id <= r.id
    BY <1>3 DEF Right, Latest
  <2>2. r.id < q.id
    BY DEF Right, Ordered
  <2>3. q.id \in Nat /\ r.id \in Nat
    BY <1>1, <1>2 DEF Requests
  <2> QED BY <2>1, <2>2, <2>3
<1> QED BY <1>1, <1>3 DEF Requests, Shapes

\* The answer is taken and r is not waited for.
LEMMA TakenFields ==
    ASSUME NEW c, NEW s, NEW h, Right(c, s, h), NEW id, NEW d, d = Without(c, id)
    PROVE  /\ d.left = c.left /\ d.issued = c.issued /\ d.sent = c.sent
           /\ d.handles = c.handles /\ d.contents = c.contents /\ d.wrotten = c.wrotten
           /\ d.lastTarget = c.lastTarget /\ d.pending = {q \in c.pending : q.id # id}
           /\ d.new = <<>> /\ d.running = c.running /\ d \in Clients
<1>1. c \in Clients /\ c.new = <<>>
  BY DEF Right, Typed
<1>2. {q \in c.pending : q.id # id} \in SUBSET Requests
  BY <1>1 DEF Clients
<1> QED BY <1>1, <1>2 DEF Without, Clients

LEMMA BatchEmptied ==
    ASSUME NEW c, NEW s, NEW h, Right(c, s, h), NEW r \in BatchOf(c)
    PROVE  BatchOf(c) = {r} /\ BatchOf(Without(c, r.id)) = {}
<1>1. BatchOf(c) = {r}
  BY DEF Right, Single
<1>2. Without(c, r.id).pending = {q \in c.pending : q.id # r.id}
  BY TakenFields
<1> QED BY <1>1, <1>2 DEF BatchOf

\* What becomes of the table, and of a document that is there.
TableSet(b, k, v) == [b EXCEPT !.handles[k] = v]
LoadedSet(b, k, v) == [b EXCEPT !.contents[k] = 0, !.wrotten[k] = 0, !.handles[k] = v]

LEMMA ExceptIn ==
    ASSUME NEW S, NEW T, NEW f \in [S -> T], NEW k, NEW v \in T
    PROVE  [f EXCEPT ![k] = v] \in [S -> T]
OBVIOUS

LEMMA LoadedFields ==
    ASSUME NEW b \in Clients, NEW k \in Keys, NEW v \in Handle, NEW d,
           d = LoadedSet(b, k, v)
    PROVE  /\ d.left = b.left /\ d.issued = b.issued /\ d.sent = b.sent
           /\ d.handles = [b.handles EXCEPT ![k] = v]
           /\ d.contents = [b.contents EXCEPT ![k] = 0]
           /\ d.wrotten = [b.wrotten EXCEPT ![k] = 0]
           /\ d.lastTarget = b.lastTarget /\ d.pending = b.pending /\ d.new = b.new
           /\ d \in Clients
<1>1. /\ d.left = b.left /\ d.issued = b.issued /\ d.sent = b.sent
      /\ d.handles = [b.handles EXCEPT ![k] = v]
      /\ d.contents = [b.contents EXCEPT ![k] = 0]
      /\ d.wrotten = [b.wrotten EXCEPT ![k] = 0]
      /\ d.lastTarget = b.lastTarget /\ d.pending = b.pending
      /\ d.new = b.new /\ d.running = b.running
  BY DEF Clients, LoadedSet
<1>2. /\ b.handles \in [Keys -> Handle \cup {Null}] /\ b.contents \in [Documents -> Nat]
      /\ b.wrotten \in [Documents -> Nat]
  BY DEF Clients
<1>3. d.handles \in [Keys -> Handle \cup {Null}]
  BY <1>1, <1>2, ExceptIn
<1>4. d.contents \in [Documents -> Nat]
  BY <1>1, <1>2, ExceptIn
<1>5. d.wrotten \in [Documents -> Nat]
  BY <1>1, <1>2, ExceptIn
<1>6. d \in Clients
  BY <1>1, <1>3, <1>4, <1>5 DEF Clients, LoadedSet
<1> QED BY <1>1, <1>6

\* The document is there.
LEMMA LoadedRight ==
    ASSUME PurcsexConstants, NEW c, NEW s, NEW h, Right(c, s, h),
           NEW r \in BatchOf(c), Writes(r),
           NEW m \in Out(s), m.id = r.id, m.ok,
           r.op = "writeMore" => c.wrotten[r.key] = c.contents[r.key], r.op # "writeBegin",
           NEW g \in Hurts, g.docs = h.docs \ {r.key},
           \A k \in h.whole : k \in g.whole \/ k = r.key,
           r.op = "writeMore" /\ r.size = OneWrite => r.key \in g.whole, NEW d \in Clients,
           d.left = c.left, d.issued = c.issued, d.sent = c.sent,
           d.handles = [c.handles EXCEPT ![r.key] = m.value],
           d.contents = [c.contents EXCEPT ![r.key] = 0],
           d.wrotten = [c.wrotten EXCEPT ![r.key] = 0], d.lastTarget = c.lastTarget,
           d.pending = Without(c, r.id).pending, d.new = <<>>
    PROVE  Right(d, s, g) /\ BatchOf(d) = {} /\ d.left = c.left /\ d.issued = c.issued
<1> DEFINE b == Without(c, r.id)
<1>1. /\ b.left = c.left /\ b.issued = c.issued /\ b.sent = c.sent
      /\ b.handles = c.handles /\ b.contents = c.contents /\ b.wrotten = c.wrotten
      /\ b.lastTarget = c.lastTarget /\ b.pending = {q \in c.pending : q.id # r.id}
      /\ b.new = <<>> /\ b.running = c.running /\ b \in Clients
  BY TakenFields
<1>2. d.pending = b.pending
  OBVIOUS
<1>3. BatchOf(c) = {r} /\ BatchOf(b) = {}
  BY BatchEmptied
<1> HIDE DEF b
<1>4. /\ r \in Requests /\ r.key \in Documents /\ r.key \in Keys /\ Target[r.key] \in Windows
      /\ r.op \in {"load", "writeMore", "writeEnd"}
  BY Basic DEF Right, Typed, Clients, BatchOf, Requests, Writes, WriteOps, Keys
<1>5. /\ m.value \in Handle /\ m.value[1] = r.key /\ m.value # Null
      /\ r.op \in {"load", "writeEnd"} /\ m.value = s.doc[Target[r.key]] =>
           Target[r.key] \notin s.parses
  BY Basic DEF Right, Truths, Truth
<1>6. /\ d.left = c.left /\ d.issued = c.issued /\ d.sent = c.sent
      /\ d.handles = [c.handles EXCEPT ![r.key] = m.value]
      /\ d.contents = [c.contents EXCEPT ![r.key] = 0]
      /\ d.wrotten = [c.wrotten EXCEPT ![r.key] = 0]
      /\ d.lastTarget = c.lastTarget /\ d.pending = b.pending /\ d.new = <<>>
  BY <1>2
<1>7. d \in Clients
  OBVIOUS
<1>8. /\ d.handles[r.key] = m.value /\ d.contents[r.key] = 0 /\ d.wrotten[r.key] = 0
      /\ \A k \in Keys \ {r.key} : d.handles[k] = c.handles[k]
      /\ \A k \in Documents \ {r.key} :
            d.contents[k] = c.contents[k] /\ d.wrotten[k] = c.wrotten[k]
      /\ \A w \in Windows : w \in Keys /\ d.handles[w] = c.handles[w]
      /\ \A k \in Documents : k \in Keys
  BY <1>4, <1>6, Basic DEF Right, Typed, Clients, Keys
<1>9. BatchOf(d) = {}
  BY <1>3, <1>6 DEF BatchOf
<1>10. Typed(d, s, g)
  BY <1>6, <1>7 DEF Right, Typed
<1>11. Filled(d)
  BY <1>6, <1>8 DEF Right, Filled
<1>12. Ordered(d, s)
  BY <1>1, <1>6 DEF Right, Ordered
<1>13. Aged(d, s)
  <2>1. \A v : Before(v, c, s) => Before(v, d, s)
    BY <1>6 DEF Before
  <2> QED BY <1>8, <2>1 DEF Right, Aged
<1>14. Single(d) /\ Latest(d, s) /\ Follows(d, s) /\ Truths(d, s)
  BY <1>9 DEF Single, Latest, Follows, Truths
<1>15. Named(d, g)
  BY <1>3, <1>5, <1>8 DEF Right, Named
<1>16. Changes(s, g)
  BY NoneUnderWay DEF Changes
<1>17. Ended(d, s, g)
  <2>1. r.op = "writeMore" => r.key \in g.whole
    BY DEF Right, Single, Kept
  <2> QED BY <1>4, <1>5, <1>8, <2>1 DEF Right, Ended
<1> QED BY <1>6, <1>9, <1>10, <1>11, <1>12, <1>13, <1>14, <1>15, <1>16, <1>17 DEF Right

\* The next piece goes out.
LEMMA ContinuesRight ==
    ASSUME PurcsexConstants, NEW c, NEW s, NEW h, Right(c, s, h), NEW p \in BatchOf(c),
           p.op \in {"writeBegin", "writeMore"}, NEW m \in Out(s), m.id = p.id, m.ok,
           NEW g \in Hurts, g.docs = h.docs \ {p.key},
           \A k \in h.whole : k \in g.whole \/ k = p.key,
           NEW d, NEW r, Continues(Without(c, p.id), d, r), r.key = p.key, r.handler # "none",
           NEW e, NEW t, Underway(d, e, s, t, r)
    PROVE  Right(e, t, g)
<1> DEFINE b == Without(c, p.id)
<1>1. /\ b.left = c.left /\ b.issued = c.issued /\ b.sent = c.sent
      /\ b.handles = c.handles /\ b.contents = c.contents /\ b.wrotten = c.wrotten
      /\ b.lastTarget = c.lastTarget /\ b.pending = {q \in c.pending : q.id # p.id}
      /\ b.new = <<>> /\ b.running = c.running /\ b \in Clients
  BY TakenFields
<1>2. BatchOf(c) = {p} /\ BatchOf(b) = {} /\ Continues(b, d, r)
  BY BatchEmptied
<1> HIDE DEF b
<1>3. Ordered(b, s) /\ \A v : Before(v, c, s) => Before(v, b, s)
  BY <1>1 DEF Right, Ordered, Before
<1>4. /\ In(t) = In(s) \cup {r} /\ Out(t) = Out(s) /\ Ordered(e, t) /\ BatchOf(e) = {r}
      /\ \A v : Before(v, c, s) /\ v \in Handle \cup {Null} => Before(v, e, t)
      /\ \A n \in Out(s) : n.id # r.id
      /\ r.id \in Nat /\ r \in Requests
  <2>1. s \in Servers
    BY DEF Right, Typed
  <2>2. Sent(b, d, r) /\ r \in Requests
    BY <1>2 DEF Continues, Sent
  <2> QED BY <1>1, <1>2, <1>3, <2>1, <2>2, SentOrder
<1>5. /\ p.key \in Documents /\ p.key \in Keys /\ p.handle \in Handle /\ p.handle[1] \in Windows
      /\ Writes(p) /\ Target[p.key] \in Windows /\ r.op \in More /\ Writes(r)
      /\ Kept(c, p) /\ Chain(s, p)
  <2>1. p \in Requests /\ Writes(p) /\ r.op \in More
    BY <1>2 DEF Right, Typed, Clients, BatchOf, Writes, WriteOps, Continues
  <2>2. Kept(c, p) /\ Chain(s, p)
    BY <2>1 DEF Right, Single, Truths, Truth
  <2> QED BY <2>1, <2>2, Basic DEF Requests, Writes, WriteOps, More, Keys
<1>6. /\ e.handles = c.handles /\ e.contents = c.contents /\ e.lastTarget = c.lastTarget
      /\ r.handle = c.handles[p.key] /\ r.handle = p.handle
      /\ e.wrotten[p.key] = c.wrotten[p.key] + r.size
      /\ \A k \in Documents \ {p.key} : e.wrotten[k] = c.wrotten[k]
      /\ r.size > 0 /\ e.wrotten[p.key] <= e.contents[p.key]
      /\ r.op = "writeMore" /\ e.wrotten[p.key] = e.contents[p.key] => r.size = OneWrite
      /\ e.left + e.issued = c.left + c.issued
      /\ t.win = s.win /\ t.doc = s.doc /\ t.parses = s.parses
  BY <1>1, <1>2, <1>5 DEF Underway, Continues, Sent, Kept
<1>7. Typed(e, t, g)
  BY DEF Right, Typed, Underway
<1>8. Filled(e)
  BY <1>6 DEF Right, Filled
<1>9. Aged(e, t)
  <2>1. \A k \in Keys : c.handles[k] \in Handle \cup {Null}
    BY DEF Right, Typed, Clients
  <2>2. \A w \in Windows : s.doc[w] \in Handle \cup {Null}
    BY DEF Right, Typed, Servers, Handle
  <2>3. \A n \in Out(s) : n.value \in Handle \cup {Null}
    BY DEF Right, Typed, Servers, Out, Responses, Events
  <2> QED BY <1>4, <1>6, <2>1, <2>2, <2>3 DEF Right, Aged
<1>10. Single(e)
  <2>1. r.size \in Nat /\ c.wrotten[p.key] \in Nat
    BY <1>4, <1>5 DEF Right, Typed, Clients, Requests
  <2>2. Kept(e, r)
    BY <1>5, <1>6, <2>1 DEF Kept, More
  <2> QED BY <1>4, <2>2 DEF Single
<1>11. \A q \in In(s) : q.handler = "none" /\ q.op = "other"
  BY NoneUnderWay
<1>12. Latest(e, t)
  BY <1>4, <1>11 DEF Latest
<1>13. Follows(e, t)
  BY <1>4, <1>5, <1>6 DEF Follows, Chain
<1>14. Truths(e, t)
  BY <1>4 DEF Truths
<1>15. Named(e, g)
  BY <1>2, <1>4, <1>5, <1>6 DEF Right, Named
<1>16. Changes(t, g)
  BY <1>4, <1>5, <1>11 DEF Changes, More
<1>17. Ended(e, t, g)
  <2>1. s \in Servers
    BY DEF Right, Typed
  <2> SUFFICES ASSUME NEW k \in Documents, e.handles[k] # Null,
                      e.handles[k] = t.doc[Target[k]], Target[k] \in t.parses
               PROVE  k \in g.whole
    BY DEF Ended
  <2>2. k # p.key
    <3> SUFFICES ASSUME k = p.key PROVE FALSE
      OBVIOUS
    <3>1. e.handles[k] = p.handle /\ s.doc[Target[k]] # Null /\ Target[k] \in Windows
      BY <1>5, <1>6
    <3>2. s.doc[Target[k]][1] \notin Windows
      BY <2>1, <3>1, DocsApart
    <3> QED BY <1>5, <1>6, <3>1, <3>2
  <2> QED BY <1>6, <2>2 DEF Right, Ended
<1> QED BY <1>4, <1>7, <1>8, <1>9, <1>10, <1>12, <1>13, <1>14, <1>15, <1>16, <1>17 DEF Right

---------------------------------------------------------------------------
(* What is new goes out. *)

Gone(d, e, s, t) == e = [d EXCEPT !.new = <<>>] /\ t = [s EXCEPT !.inp = @ \o d.new]

Went(d, e, s, t) ==
    /\ e \in Clients /\ e.new = <<>> /\ e.left = d.left /\ e.issued = d.issued
    /\ e.sent = d.sent /\ e.pending = d.pending /\ e.handles = d.handles
    /\ e.contents = d.contents /\ e.wrotten = d.wrotten /\ e.lastTarget = d.lastTarget
    /\ t \in Servers /\ t.inp = s.inp \o d.new /\ t.out = s.out /\ t.win = s.win
    /\ t.doc = s.doc /\ t.parses = s.parses

LEMMA GoneWent ==
    ASSUME NEW d \in Clients, NEW s \in Servers, NEW e, NEW t, Gone(d, e, s, t)
    PROVE  Went(d, e, s, t)
<1>1. e = [d EXCEPT !.new = <<>>] /\ <<>> \in Seq(Requests)
  BY DEF Gone
<1>2. t = [s EXCEPT !.inp = s.inp \o d.new] /\ s.inp \o d.new \in Seq(Requests)
  BY DEF Gone, Servers, Clients
<1>3. /\ e \in Clients /\ e.new = <<>> /\ e.left = d.left /\ e.issued = d.issued
      /\ e.sent = d.sent /\ e.pending = d.pending /\ e.handles = d.handles
      /\ e.contents = d.contents /\ e.wrotten = d.wrotten
      /\ e.lastTarget = d.lastTarget
  BY <1>1 DEF Clients
<1>4. /\ t \in Servers /\ t.inp = s.inp \o d.new /\ t.out = s.out /\ t.win = s.win
      /\ t.doc = s.doc /\ t.parses = s.parses
  BY <1>2 DEF Servers
<1> QED BY <1>3, <1>4 DEF Went

LEMMA GoneUnderway ==
    ASSUME NEW d \in Clients, NEW s \in Servers, NEW e, NEW t, Gone(d, e, s, t),
           NEW r \in Requests, d.new = <<r>>
    PROVE  Underway(d, e, s, t, r)
<1>1. s.inp \o <<r>> = Append(s.inp, r)
  BY DEF Servers
<1>2. Went(d, e, s, t)
  BY GoneWent
<1>3. t.inp = Append(s.inp, r)
  BY <1>1, <1>2 DEF Went
<1> QED BY <1>2, <1>3 DEF Underway, Went

\* Nothing is new.
LEMMA GoneQuiet ==
    ASSUME NEW d, NEW s, NEW h, Right(d, s, h), NEW e, NEW t, Gone(d, e, s, t)
    PROVE  Right(e, t, h)
<1>1. d \in Clients /\ s \in Servers /\ d.new = <<>> /\ d.left + d.issued \in 1..MaxOps
  BY DEF Right, Typed, Filled
<1>2. Went(d, e, s, t)
  BY <1>1, GoneWent
<1>3. t.inp = s.inp /\ Out(t) = Out(s)
  <2>1. s.inp \o <<>> = s.inp
    BY <1>1 DEF Servers
  <2> QED BY <1>1, <1>2, <2>1 DEF Out, Went
<1>4. Right(e, s, h)
  BY <1>1, <1>2, QuietRight DEF Went
<1> QED BY <1>2, <1>3, <1>4, FewerRight DEF Went

\* What is recorded of how things went does not matter.
LEMMA HowRight ==
    ASSUME NEW c, NEW s, NEW h, Right(c, s, h), NEW g \in Hurts, g.docs = h.docs,
           g.whole = h.whole
    PROVE  Right(c, s, g)
BY DEF Right, Typed, Named, Changes, Ended

\* issue_next_batch_operation, when nothing of the batch waits for an answer.
LEMMA IssuedRight ==
    ASSUME PurcsexConstants, NEW c, NEW s, NEW h, Right(c, s, h), BatchOf(c) = {},
           NEW d \in IssueNext(c), NEW e, NEW t, Gone(d, e, s, t)
    PROVE  Right(e, t, h)
<1>1. c \in Clients /\ s \in Servers /\ c.new = <<>> /\ Filled(c)
  BY DEF Right, Typed
<1>2. CASE Quiet(c, d)
  <2>1. d.left + d.issued \in 1..MaxOps
    BY <1>1, <1>2 DEF Quiet, Filled
  <2>2. Right(d, s, h)
    BY <1>2, <2>1, QuietRight DEF Quiet
  <2> QED BY <2>2, GoneQuiet
<1>3. ASSUME NEW r \in Requests, Plain(c, d, r), r.handler # "none" PROVE Right(e, t, h)
  <2>1. Underway(d, e, s, t, r)
    BY <1>1, <1>3, GoneUnderway DEF Plain, Sent
  <2> QED BY <1>3, <2>1, PlainRight
<1>4. ASSUME NEW r \in Requests, Begins(c, d, r), r.handler # "none" PROVE Right(e, t, h)
  <2>1. Underway(d, e, s, t, r)
    BY <1>1, <1>4, GoneUnderway DEF Begins, Sent
  <2> QED BY <1>4, <2>1, BeginsRight
<1> QED BY <1>1, <1>2, <1>3, <1>4, NextIssued

\* queue_operations
LEMMA QueuedRight ==
    ASSUME PurcsexConstants, NEW c, NEW s, NEW h, Right(c, s, h), NEW n \in Nat,
           n + c.left + c.issued <= MaxOps, NEW d \in QueueOperations(c, n), NEW e, NEW t,
           Gone(d, e, s, t)
    PROVE  Right(e, t, h)
<1> DEFINE q == [c EXCEPT !.left = @ + n]
<1>1. c \in Clients /\ c.new = <<>> /\ c.left + c.issued \in 1..MaxOps /\ MaxOps \in Nat
  BY Basic DEF Right, Typed, Filled
<1>2. /\ q \in Clients /\ q.new = <<>> /\ q.left = c.left + n /\ q.issued = c.issued
      /\ q.sent = c.sent /\ q.handles = c.handles /\ q.contents = c.contents
      /\ q.wrotten = c.wrotten /\ q.lastTarget = c.lastTarget /\ q.pending = c.pending
  <2>1. q = [c EXCEPT !.left = c.left + n] /\ c.left + n \in Nat
    BY <1>1 DEF Clients
  <2> HIDE DEF q
  <2> QED BY <1>1, <2>1 DEF Clients
<1>3. d \in IF c.pending = {} THEN IssueNext(q) ELSE {q}
  BY DEF QueueOperations
<1> HIDE DEF q
<1>4. q.left + q.issued \in 1..MaxOps
  <2>1. c.left \in Nat /\ c.issued \in Nat
    BY <1>1 DEF Clients
  <2> QED BY <1>1, <1>2, <2>1
<1>5. Right(q, s, h)
  BY <1>2, <1>4, QuietRight
<1>6. CASE c.pending = {}
  <2>1. BatchOf(q) = {}
    BY <1>2, <1>6 DEF BatchOf
  <2> QED BY <1>3, <1>5, <1>6, <2>1, IssuedRight
<1>7. CASE c.pending # {}
  BY <1>3, <1>5, <1>7, GoneQuiet
<1> QED BY <1>6, <1>7

---------------------------------------------------------------------------
(* Answers. *)

\* What is remembered of the answer to r: g was h.
Records(c, r, ok, h, g) ==
    /\ g \in Hurts
    /\ ~Writes(r) => g.docs = h.docs /\ g.whole = h.whole
    /\ Writes(r) => g.docs = IF ok THEN h.docs \ {r.key} ELSE h.docs \cup {r.key}
    /\ \A k \in h.whole : k \in g.whole \/ (Writes(r) /\ k = r.key)
    /\ ok /\ r.op = "writeMore" /\ c.wrotten[r.key] = c.contents[r.key] /\ r.size = OneWrite
         => r.key \in g.whole

Read(s, t) ==
    /\ t \in Servers /\ t.inp = s.inp /\ t.out = Tail(s.out) /\ Out(t) \subseteq Out(s)
    /\ t.win = s.win /\ t.doc = s.doc /\ t.parses = s.parses

LEMMA TakenRead ==
    ASSUME NEW s \in Servers, s.out # <<>>, NEW t, t = [s EXCEPT !.out = Tail(@)]
    PROVE  /\ Read(s, t) /\ Head(s.out) \in Responses \cup Events
           /\ Head(s.out).type = "response" => Head(s.out) \in Out(s) \cap Responses
<1>1. s.out \in Seq(Responses \cup Events)
  BY DEF Servers
<1>2. t.out = Tail(s.out)
  BY DEF Servers
<1>3. /\ t.out \in Seq(Responses \cup Events) /\ Out(t) \subseteq Out(s)
      /\ Head(s.out) \in Responses \cup Events
      /\ Head(s.out).type = "response" => Head(s.out) \in Out(s) \cap Responses
  BY <1>1, <1>2, OutRead
<1>4. /\ t.inp = s.inp /\ t.win = s.win /\ t.doc = s.doc /\ t.parses = s.parses
      /\ t.events = s.events
  BY DEF Servers
<1>5. t \in Servers
  <2>1. Tail(s.out) \in Seq(Responses \cup Events)
    BY <1>2, <1>3
  <2> QED BY <2>1 DEF Servers
<1> QED BY <1>2, <1>3, <1>4, <1>5 DEF Read

LEMMA ReadRight ==
    ASSUME NEW c, NEW s, NEW h, Right(c, s, h), NEW t, Read(s, t)
    PROVE  Right(c, t, h)
BY FewerRight DEF Read

\* The handler's guards, one by one.
LEMMA HandlerOf ==
    ASSUME NEW b, NEW r, NEW ok \in BOOLEAN, NEW v, NEW d \in Answered(b, r, ok, v)
    PROVE  \/ r.handler = "created" /\ ok /\ d \in IssueNext(TableSet(b, r.key, v))
           \/ r.handler = "destroyed" /\ ok /\ d \in IssueNext(TableSet(b, r.key, Null))
           \/ r.handler = "changed" /\ ok /\ d \in IssueNext(b)
           \/ r.handler = "loaded" /\ ok /\ d \in Loaded(b, r.key, v)
           \/ r.handler = "wrotten" /\ ok /\ b.wrotten[r.key] = b.contents[r.key]
              /\ d \in Loaded(b, r.key, v)
           \/ r.handler = "wrotten" /\ ok /\ b.wrotten[r.key] # b.contents[r.key]
              /\ d \in WriteMoreDocument(b, r.key)
           \/ r.handler = "updated" /\ ~ok /\ d \in IssueNext(b)
           \/ (r.handler \in {"loaded", "wrotten"} => ~ok) /\ d = b
BY DEF Answered, TableSet

\* Which is what a request of each kind asks for.
LEMMA ShapeOf ==
    ASSUME NEW r \in Requests
    PROVE  /\ r.handler = "created" => r.op = "create"
           /\ r.handler = "destroyed" => r.op = "destroy"
           /\ r.handler = "updated" => r.op = "update"
           /\ r.handler = "changed" => r.op \in {"change", "other"}
           /\ r.handler = "loaded" => r.op \in {"load", "writeEnd"}
           /\ r.handler = "wrotten" => r.op \in {"writeBegin", "writeMore"}
           /\ Writes(r) <=> r.handler \in {"loaded", "wrotten"}
           /\ r.handler = "none" => r.op = "other"
BY DEF Requests, Shapes, Writes, WriteOps

LEMMA TableFields ==
    ASSUME NEW b \in Clients, NEW k \in Keys, NEW v \in Handle \cup {Null}, NEW d,
           d = TableSet(b, k, v)
    PROVE  /\ d.left = b.left /\ d.issued = b.issued /\ d.sent = b.sent
           /\ d.contents = b.contents /\ d.wrotten = b.wrotten
           /\ d.lastTarget = b.lastTarget /\ d.pending = b.pending /\ d.new = b.new
           /\ d \in Clients /\ d.handles = [b.handles EXCEPT ![k] = v]
<1>1. /\ d.left = b.left /\ d.issued = b.issued /\ d.sent = b.sent
      /\ d.contents = b.contents /\ d.wrotten = b.wrotten
      /\ d.lastTarget = b.lastTarget /\ d.pending = b.pending /\ d.new = b.new
      /\ d.running = b.running /\ d.handles = [b.handles EXCEPT ![k] = v]
  BY DEF Clients, TableSet
<1>2. b.handles \in [Keys -> Handle \cup {Null}]
  BY DEF Clients
<1>3. d.handles \in [Keys -> Handle \cup {Null}]
  BY <1>1, <1>2, ExceptIn
<1>4. d \in Clients
  BY <1>1, <1>3 DEF Clients, TableSet
<1> QED BY <1>1, <1>4

\* A window was made or destroyed.
LEMMA WindowAnswered ==
    ASSUME PurcsexConstants, NEW c, NEW s, NEW h, Right(c, s, h), NEW r \in BatchOf(c),
           NEW m \in Out(s) \cap Responses, m.id = r.id, m.ok, r.op \in {"create", "destroy"},
           NEW g, Records(c, r, TRUE, h, g), NEW d,
           d = TableSet(Without(c, r.id), r.key, IF r.op = "create" THEN m.value ELSE Null)
    PROVE  Right(d, s, g) /\ BatchOf(d) = {}
<1> DEFINE b == Without(c, r.id)
           v == IF r.op = "create" THEN m.value ELSE Null
           k == r.key
<1>1. r \in c.pending /\ r \in Requests
  BY DEF Right, Typed, Clients, BatchOf
<1>2. k \in Windows /\ ~Writes(r) /\ k \in Keys
  BY <1>1 DEF Requests, Writes, WriteOps, Keys
<1>3. g \in Hurts /\ g.docs = h.docs /\ g.whole = h.whole
  BY <1>2 DEF Records
<1>4. Right(b, s, g)
  BY <1>1, <1>2, <1>3, GivenUpRight
<1>5. BatchOf(b) = {}
  BY BatchEmptied
<1>6. v \in Handle \cup {Null} /\ Before(v, c, s) /\ (v # Null => v[1] \in Windows)
  <2>1. CASE r.op = "create"
    <3>1. m.value \in Handle /\ m.value[1] \in Windows /\ Before(m.value, c, s)
      BY <2>1 DEF Right, Truths, Truth, Aged
    <3> QED BY <2>1, <3>1
  <2>2. CASE r.op = "destroy"
    BY <2>2 DEF Before
  <2> QED BY <2>1, <2>2
<1>7. Before(v, b, s)
  <2>1. b.sent = c.sent
    BY TakenFields
  <2> QED BY <1>6, <2>1 DEF Before
<1>8. b \in Clients
  BY <1>4 DEF Right, Typed
<1>9. d = TableSet(b, k, v)
  OBVIOUS
<1> HIDE DEF b, v, k
<1>10. /\ d.left = b.left /\ d.issued = b.issued /\ d.sent = b.sent
       /\ d.contents = b.contents /\ d.wrotten = b.wrotten /\ d.lastTarget = b.lastTarget
       /\ d.pending = b.pending /\ d.new = b.new /\ d \in Clients
       /\ d.handles = [b.handles EXCEPT ![k] = v]
  BY <1>2, <1>6, <1>8, <1>9, TableFields
<1>11. b.handles \in [Keys -> Handle \cup {Null}]
  BY <1>8 DEF Clients
<1>14. \A j \in Documents : d.handles[j] = b.handles[j]
  BY <1>2, <1>10, <1>11, Basic DEF Keys
<1>15. \A w \in Windows : d.handles[w] # Null =>
          d.handles[w][1] \in Windows /\ Before(d.handles[w], b, s)
  <2>1. \A w \in Windows : b.handles[w] # Null =>
          b.handles[w][1] \in Windows /\ Before(b.handles[w], b, s)
    BY <1>4 DEF Right, Filled, Aged, Keys
  <2>2. \A w \in Windows : d.handles[w] = IF w = k THEN v ELSE b.handles[w]
    BY <1>2, <1>10, <1>11 DEF Keys
  <2> QED BY <1>6, <1>7, <2>1, <2>2
<1>16. Right(d, s, g)
  BY <1>4, <1>10, <1>14, <1>15, TableRight
<1> QED BY <1>5, <1>10, <1>16 DEF BatchOf

\* The document is there, and the batch goes on.
LEMMA LoadedAnswered ==
    ASSUME PurcsexConstants, NEW c, NEW s, NEW h, Right(c, s, h), NEW r \in BatchOf(c),
           NEW m \in Out(s) \cap Responses, m.id = r.id, m.ok, Writes(r), r.op # "writeBegin",
           r.op = "writeMore" => c.wrotten[r.key] = c.contents[r.key],
           NEW g, Records(c, r, TRUE, h, g),
           NEW d \in Loaded(Without(c, r.id), r.key, m.value),
           NEW u, Read(s, u), NEW e, NEW t, Gone(d, e, u, t)
    PROVE  Right(e, t, g)
<1> DEFINE b == Without(c, r.id)
           l == LoadedSet(b, r.key, m.value)
<1>1. /\ b.contents = c.contents /\ b.left = c.left /\ b.issued = c.issued /\ b.sent = c.sent
      /\ b.handles = c.handles /\ b.wrotten = c.wrotten /\ b.lastTarget = c.lastTarget
      /\ b.new = <<>> /\ b \in Clients
  BY TakenFields
<1>2. r \in Requests /\ c \in Clients
  BY DEF Right, Typed, Clients, BatchOf
<1>3. r.key \in Documents /\ r.key \in Keys
  BY <1>2 DEF Requests, Writes, Keys
<1>4. c.contents[r.key] # 0
  <2>1. Kept(c, r)
    BY DEF Right, Single
  <2>2. r.size \in Nat /\ c.contents[r.key] \in Nat /\ c.wrotten[r.key] \in Nat
    BY <1>2, <1>3 DEF Requests, Clients
  <2> QED BY <2>1, <2>2 DEF Kept
<1>5. d \in IssueNext(l)
  BY <1>1, <1>4 DEF Loaded, LoadedSet
<1>6. m.value \in Handle
  BY DEF Right, Truths, Truth
<1>7. /\ l.left = b.left /\ l.issued = b.issued /\ l.sent = b.sent
      /\ l.handles = [b.handles EXCEPT ![r.key] = m.value]
      /\ l.contents = [b.contents EXCEPT ![r.key] = 0]
      /\ l.wrotten = [b.wrotten EXCEPT ![r.key] = 0]
      /\ l.lastTarget = b.lastTarget /\ l.pending = b.pending /\ l.new = b.new
      /\ l \in Clients
  BY <1>1, <1>3, <1>6, LoadedFields
<1>8. l.pending = Without(c, r.id).pending
  BY <1>7
<1>9. /\ g \in Hurts /\ g.docs = h.docs \ {r.key} /\ \A k \in h.whole : k \in g.whole \/ k = r.key
      /\ r.op = "writeMore" /\ r.size = OneWrite => r.key \in g.whole
  BY DEF Records
<1> HIDE DEF b, l
<1>10. Right(l, s, g) /\ BatchOf(l) = {}
  <2>1. /\ l.left = c.left /\ l.issued = c.issued /\ l.sent = c.sent
        /\ l.handles = [c.handles EXCEPT ![r.key] = m.value]
        /\ l.contents = [c.contents EXCEPT ![r.key] = 0]
        /\ l.wrotten = [c.wrotten EXCEPT ![r.key] = 0] /\ l.lastTarget = c.lastTarget
        /\ l.new = <<>> /\ l \in Clients
    BY <1>1, <1>7
  <2>2. m \in Out(s)
    OBVIOUS
  <2> QED BY <1>8, <1>9, <2>1, <2>2, LoadedRight
<1>11. Right(l, u, g)
  BY <1>10, ReadRight
<1> QED BY <1>5, <1>10, <1>11, IssuedRight

\* There is more of the document to write.
LEMMA MoreAnswered ==
    ASSUME PurcsexConstants, NEW c, NEW s, NEW h, Right(c, s, h), NEW r \in BatchOf(c),
           NEW m \in Out(s) \cap Responses, m.id = r.id, m.ok,
           r.op \in {"writeBegin", "writeMore"}, c.wrotten[r.key] # c.contents[r.key],
           NEW g, Records(c, r, TRUE, h, g),
           NEW d \in WriteMoreDocument(Without(c, r.id), r.key),
           NEW u, Read(s, u), NEW e, NEW t, Gone(d, e, u, t)
    PROVE  Right(e, t, g)
<1> DEFINE b == Without(c, r.id)
<1>1. /\ b.contents = c.contents /\ b.handles = c.handles /\ b.wrotten = c.wrotten
      /\ b.new = <<>> /\ b \in Clients
  BY TakenFields
<1>2. r \in Requests /\ c \in Clients /\ s \in Servers
  BY DEF Right, Typed, Clients, BatchOf
<1>3. r.key \in Documents /\ r.handle \in Handle /\ r.handle[1] \in Windows /\ Writes(r)
  BY <1>2 DEF Requests, Writes, WriteOps
<1>4. c.wrotten[r.key] < c.contents[r.key] /\ c.handles[r.key] = r.handle
  <2>1. Kept(c, r)
    BY <1>3 DEF Right, Single
  <2>2. c.contents[r.key] \in Nat /\ c.wrotten[r.key] \in Nat
    BY <1>2, <1>3 DEF Clients
  <2> QED BY <2>1, <2>2 DEF Kept
<1>5. g \in Hurts /\ g.docs = h.docs \ {r.key} /\ \A k \in h.whole : k \in g.whole \/ k = r.key
  BY <1>3 DEF Records
<1> HIDE DEF b
<1>6. PICK q \in Requests : Continues(b, d, q) /\ q.handler # "none" /\ q.key = r.key
  BY <1>1, <1>3, <1>4, PieceSent DEF b
<1>7. d \in Clients /\ d.new = <<q>> /\ u \in Servers
  BY <1>6 DEF Continues, Sent, Read
<1>8. Underway(d, e, u, t, q)
  BY <1>7, GoneUnderway
<1> DEFINE v == [t EXCEPT !.out = s.out]
<1>9. v \in Servers /\ v.inp = t.inp /\ v.out = s.out /\ v.win = t.win /\ v.doc = t.doc
      /\ v.parses = t.parses
  <2>1. t \in Servers
    BY <1>8 DEF Underway
  <2> QED BY <1>2, <2>1 DEF Servers
<1> HIDE DEF v
<1>10. Underway(d, e, s, v, q)
  BY <1>8, <1>9 DEF Underway, Read
<1>11. Continues(Without(c, r.id), d, q)
  BY <1>6 DEF b
<1>12. Right(e, v, g)
  BY <1>5, <1>6, <1>10, <1>11, ContinuesRight
<1>13. t \in Servers /\ Out(t) \subseteq Out(v)
  <2>1. Out(t) = Out(u) /\ Out(v) = Out(s)
    BY <1>8, <1>9 DEF Underway, Out
  <2> QED BY <1>8, <2>1 DEF Underway, Read
<1> QED BY <1>9, <1>12, <1>13, FewerRight

\* The answer to a request that is waited for.
LEMMA AnsweredRight ==
    ASSUME PurcsexConstants, NEW c, NEW s, NEW h, Right(c, s, h), NEW r \in c.pending,
           NEW m \in Out(s) \cap Responses, m.id = r.id, NEW g, Records(c, r, m.ok, h, g),
           NEW d \in Answered(Without(c, r.id), r, m.ok, m.value),
           NEW u, Read(s, u), NEW e, NEW t, Gone(d, e, u, t)
    PROVE  Right(e, t, g)
<1> DEFINE b == Without(c, r.id)
<1>1. r \in Requests /\ m.ok \in BOOLEAN
  BY DEF Right, Typed, Clients, Responses
<1>2. b.wrotten = c.wrotten /\ b.contents = c.contents
  BY TakenFields
<1>3. r.handler # "none" => r \in BatchOf(c)
  BY DEF BatchOf
<1>4. ASSUME ~Writes(r) \/ ~m.ok PROVE Right(b, s, g) /\ Right(b, u, g)
  <2>1. /\ g \in Hurts /\ h.docs \subseteq g.docs /\ (Writes(r) => r.key \in g.docs)
        /\ \A k \in h.whole : k \in g.whole \/ (Writes(r) /\ k = r.key)
    BY <1>4 DEF Records
  <2>2. Right(b, s, g)
    BY <2>1, GivenUpRight
  <2> QED BY <2>2, ReadRight
<1>5. r.handler # "none" => BatchOf(b) = {}
  BY <1>3, BatchEmptied
<1>6. ASSUME r.op \in {"create", "destroy"}, m.ok, r.handler # "none",
             d \in IssueNext(TableSet(b, r.key, IF r.op = "create" THEN m.value ELSE Null))
      PROVE  Right(e, t, g)
  <2> DEFINE l == TableSet(b, r.key, IF r.op = "create" THEN m.value ELSE Null)
  <2>1. Records(c, r, TRUE, h, g)
    BY <1>6 DEF Records
  <2>2. r \in BatchOf(c)
    BY <1>3, <1>6
  <2>3. Right(l, s, g) /\ BatchOf(l) = {}
    BY <1>6, <2>1, <2>2, WindowAnswered
  <2>4. d \in IssueNext(l)
    BY <1>6
  <2> HIDE DEF l
  <2>5. Right(l, u, g)
    BY <2>3, ReadRight
  <2> QED BY <2>3, <2>4, <2>5, IssuedRight
<1>7. ASSUME ~Writes(r) \/ ~m.ok, r.handler # "none", d \in IssueNext(b) PROVE Right(e, t, g)
  <2>1. Right(b, u, g) /\ BatchOf(b) = {} /\ d \in IssueNext(b)
    BY <1>4, <1>5, <1>7
  <2> HIDE DEF b
  <2> QED BY <2>1, IssuedRight
<1>8. ASSUME Writes(r), m.ok, r \in BatchOf(c) PROVE Records(c, r, TRUE, h, g)
  BY <1>8 DEF Records
<1>9. CASE r.handler = "created" /\ m.ok /\ d \in IssueNext(TableSet(b, r.key, m.value))
  <2>1. r.op = "create"
    BY <1>1, <1>9, ShapeOf
  <2> QED BY <1>6, <1>9, <2>1
<1>10. CASE r.handler = "destroyed" /\ m.ok /\ d \in IssueNext(TableSet(b, r.key, Null))
  <2>1. r.op = "destroy"
    BY <1>1, <1>10, ShapeOf
  <2> QED BY <1>6, <1>10, <2>1
<1>11. CASE r.handler = "changed" /\ m.ok /\ d \in IssueNext(b)
  <2>1. ~Writes(r)
    BY <1>1, <1>11, ShapeOf
  <2> QED BY <1>7, <1>11, <2>1
<1>12. CASE r.handler = "loaded" /\ m.ok /\ d \in Loaded(b, r.key, m.value)
  <2>1. Writes(r) /\ r.op # "writeBegin" /\ r.op # "writeMore" /\ r \in BatchOf(c)
    BY <1>1, <1>3, <1>12, ShapeOf
  <2>2. Records(c, r, TRUE, h, g)
    BY <1>8, <1>12, <2>1
  <2> QED BY <1>12, <2>1, <2>2, LoadedAnswered
<1>13. CASE r.handler = "wrotten" /\ m.ok /\ b.wrotten[r.key] = b.contents[r.key]
            /\ d \in Loaded(b, r.key, m.value)
  <2>1. Writes(r) /\ r.op \in {"writeBegin", "writeMore"} /\ r \in BatchOf(c)
    BY <1>1, <1>3, <1>13, ShapeOf
  <2>2. Records(c, r, TRUE, h, g)
    BY <1>8, <1>13, <2>1
  <2>3. c.wrotten[r.key] = c.contents[r.key]
    BY <1>2, <1>13
  <2>4. r.op # "writeBegin"
    BY <2>1, <2>3 DEF Right, Single, Kept
  <2> QED BY <1>13, <2>1, <2>2, <2>3, <2>4, LoadedAnswered
<1>14. CASE r.handler = "wrotten" /\ m.ok /\ b.wrotten[r.key] # b.contents[r.key]
            /\ d \in WriteMoreDocument(b, r.key)
  <2>1. Writes(r) /\ r.op \in {"writeBegin", "writeMore"} /\ r \in BatchOf(c)
    BY <1>1, <1>3, <1>14, ShapeOf
  <2>2. Records(c, r, TRUE, h, g)
    BY <1>8, <1>14, <2>1
  <2>3. c.wrotten[r.key] # c.contents[r.key]
    BY <1>2, <1>14
  <2> QED BY <1>14, <2>1, <2>2, <2>3, MoreAnswered
<1>15. CASE r.handler = "updated" /\ ~m.ok /\ d \in IssueNext(b)
  BY <1>7, <1>15
<1>16. CASE (r.handler \in {"loaded", "wrotten"} => ~m.ok) /\ d = b
  <2>1. ~Writes(r) \/ ~m.ok
    BY <1>1, <1>16, ShapeOf
  <2>2. Right(d, u, g)
    BY <1>4, <1>16, <2>1
  <2> QED BY <2>2, GoneQuiet
<1>17. d \in Answered(b, r, m.ok, m.value)
  OBVIOUS
<1> HIDE DEF b
<1> QED BY <1>1, <1>9, <1>10, <1>11, <1>12, <1>13, <1>14, <1>15, <1>16, <1>17, HandlerOf

---------------------------------------------------------------------------
(* The steps of the client. *)

LEMMA RecordedRecords ==
    ASSUME hurt \in Hurts, NEW r \in Requests, NEW ok \in BOOLEAN, NEW c
    PROVE  Records(cl, r, ok, hurt, Recorded(r, ok, c))
<1> DEFINE g == Recorded(r, ok, c)
           odd == {x \in {"refused"} : ~ok} \cup {x \in {"update"} : r.handler = "updated"}
                    \cup {x \in {"function"} : r.handler = "none"}
                    \cup {x \in {"own"} : r.handler = "own"}
           whole == r.op = "writeMore" /\ cl.wrotten[r.key] = cl.contents[r.key]
                      /\ r.size = OneWrite
<1>1. g = [how |-> hurt.how \cup odd \cup Unsent(c),
           docs |-> IF ~Writes(r) THEN hurt.docs
                    ELSE IF ok THEN hurt.docs \ {r.key} ELSE hurt.docs \cup {r.key},
           whole |-> IF ~Writes(r) THEN hurt.whole
                     ELSE IF ok /\ whole THEN hurt.whole \cup {r.key}
                     ELSE hurt.whole \ {r.key}]
  BY DEF Recorded
<1>2. odd \subseteq {"refused", "update", "own", "function"} /\ Unsent(c) \subseteq {"unsent"}
  BY DEF Unsent
<1>3. /\ hurt.how \subseteq {"refused", "update", "own", "function", "unsent", "late"}
      /\ hurt.docs \subseteq Documents /\ hurt.whole \subseteq Documents
  BY DEF Hurts
<1>4. Writes(r) => r.key \in Documents
  BY DEF Requests, Writes
<1>5. r.op = "writeMore" => Writes(r)
  BY DEF Writes, WriteOps
<1>6. /\ g.how = hurt.how \cup odd \cup Unsent(c)
      /\ ~Writes(r) => g.docs = hurt.docs /\ g.whole = hurt.whole
      /\ Writes(r) => g.docs = IF ok THEN hurt.docs \ {r.key} ELSE hurt.docs \cup {r.key}
      /\ Writes(r) => g.whole = IF ok /\ whole THEN hurt.whole \cup {r.key}
                                ELSE hurt.whole \ {r.key}
      /\ g = [how |-> g.how, docs |-> g.docs, whole |-> g.whole]
  BY <1>1
<1> HIDE DEF g, odd
<1>7. g.how \subseteq {"refused", "update", "own", "function", "unsent", "late"}
  BY <1>2, <1>3, <1>6
<1>8. g.docs \subseteq Documents /\ g.whole \subseteq Documents
  BY <1>3, <1>4, <1>6
<1>9. g \in Hurts
  BY <1>6, <1>7, <1>8 DEF Hurts
<1>10. Records(cl, r, ok, hurt, g)
  BY <1>5, <1>6, <1>9 DEF Records
<1> QED BY <1>10 DEF g

RightNow == Right(cl, srv, hurt)

LEMMA ResponseRight ==
    ASSUME PurcsexConstants, RightNow, Response
    PROVE  RightNow'
<1> DEFINE m == Head(srv.out)
           u == Taken
<1>1. srv \in Servers /\ hurt \in Hurts /\ cl \in Clients /\ Right(cl, srv, hurt)
  BY DEF RightNow, Right, Typed
<1>2. srv.out # <<>> /\ m.type = "response"
  BY DEF Response, Dispatch
<1>3. u = [srv EXCEPT !.out = Tail(@)]
  BY DEF Taken
<1>4. Read(srv, u) /\ m \in Out(srv) \cap Responses
  BY <1>1, <1>2, <1>3, TakenRead
<1>5. \/ Put(cl, u) /\ UNCHANGED hurt
      \/ \E r \in cl.pending :
           /\ r.id = m.id
           /\ \E c \in Answered(Without(cl, m.id), r, m.ok, m.value) :
                Put(c, u) /\ hurt' = Recorded(r, m.ok, c)
  BY DEF Response
<1> HIDE DEF m, u
<1>6. CASE Put(cl, u) /\ UNCHANGED hurt
  <2>1. Gone(cl, cl', u, srv')
    BY <1>6 DEF Put, Gone
  <2>2. Right(cl, u, hurt)
    BY <1>1, <1>4, ReadRight
  <2>3. Right(cl', srv', hurt)
    BY <2>1, <2>2, GoneQuiet
  <2> QED BY <1>6, <2>3 DEF RightNow
<1>7. ASSUME NEW r \in cl.pending, r.id = m.id,
             NEW c \in Answered(Without(cl, m.id), r, m.ok, m.value), Put(c, u),
             hurt' = Recorded(r, m.ok, c)
      PROVE  RightNow'
  <2>1. Gone(c, cl', u, srv')
    BY <1>7 DEF Put, Gone
  <2>2. r \in Requests /\ m.ok \in BOOLEAN
    BY <1>1, <1>4 DEF Clients, Responses
  <2>3. Records(cl, r, m.ok, hurt, hurt')
    BY <1>1, <1>7, <2>2, RecordedRecords
  <2>4. c \in Answered(Without(cl, r.id), r, m.ok, m.value) /\ m.id = r.id
    BY <1>7
  <2>5. Right(cl', srv', hurt')
    BY <1>1, <1>4, <1>7, <2>1, <2>3, <2>4, AnsweredRight
  <2> QED BY <2>5 DEF RightNow
<1> QED BY <1>5, <1>6, <1>7

LEMMA TimedOutRight ==
    ASSUME PurcsexConstants, RightNow, TimedOut
    PROVE  RightNow'
<1>1. srv \in Servers /\ hurt \in Hurts /\ cl \in Clients /\ Right(cl, srv, hurt)
  BY DEF RightNow, Right, Typed
<1>2. PICK r \in cl.pending :
        /\ cl' = Without(cl, r.id)
        /\ hurt' = [hurt EXCEPT !.how = @ \cup {"late"},
                                !.docs = @ \cup ({r.key} \cap Documents)]
  BY DEF TimedOut
<1>3. srv' = [srv EXCEPT !.events = srv.events + 1] /\ srv.events < MaxOdd
  BY DEF TimedOut, Odd
<1>4. /\ hurt'.how = hurt.how \cup {"late"} /\ hurt'.whole = hurt.whole
      /\ hurt'.docs = hurt.docs \cup ({r.key} \cap Documents) /\ hurt' \in Hurts
  <2> DEFINE how == hurt.how \cup {"late"}
             docs == hurt.docs \cup ({r.key} \cap Documents)
  <2>1. hurt' = [hurt EXCEPT !.how = how, !.docs = docs]
    BY <1>2
  <2>2. /\ how \in SUBSET {"refused", "update", "own", "function", "unsent", "late"}
        /\ docs \in SUBSET Documents
    BY <1>1 DEF Hurts
  <2> HIDE DEF how, docs
  <2>3. hurt'.how = how /\ hurt'.whole = hurt.whole /\ hurt'.docs = docs /\ hurt' \in Hurts
    BY <1>1, <2>1, <2>2 DEF Hurts
  <2> QED BY <2>3 DEF how, docs
<1>5. r \in Requests /\ (Writes(r) => r.key \in Documents)
  BY <1>1 DEF Clients, Requests, Writes
<1>6. Right(Without(cl, r.id), srv, hurt')
  BY <1>1, <1>4, <1>5, GivenUpRight
<1>7. /\ srv' \in Servers /\ srv'.inp = srv.inp /\ srv'.out = srv.out /\ srv'.win = srv.win
      /\ srv'.doc = srv.doc /\ srv'.parses = srv.parses
  <2>1. srv.events + 1 \in 0..MaxOdd
    BY <1>1, <1>3, Basic DEF Servers
  <2> QED BY <1>1, <1>3, <2>1 DEF Servers
<1>8. Out(srv') \subseteq Out(srv)
  BY <1>7 DEF Out
<1>9. Right(Without(cl, r.id), srv', hurt')
  BY <1>6, <1>7, <1>8, FewerRight
<1> QED BY <1>2, <1>9 DEF RightNow

\* my_event_handler
LEMMA EventRight ==
    ASSUME PurcsexConstants, RightNow, Event
    PROVE  RightNow'
<1> DEFINE m == Head(srv.out)
           u == Taken
           f == [k \in Windows \cup Documents |->
                    IF k \in Matched(m) /\ m.name = "destroy" THEN Null ELSE cl.handles[k]]
           c == [cl EXCEPT !.handles = f]
           room == MaxOps - cl.issued - cl.left
<1>1. srv \in Servers /\ hurt \in Hurts /\ cl \in Clients /\ Right(cl, srv, hurt)
      /\ cl.new = <<>>
  BY DEF RightNow, Right, Typed
<1>2. srv.out # <<>> /\ m.type = "event"
  BY DEF Event, Dispatch
<1>3. u = [srv EXCEPT !.out = Tail(@)]
  BY DEF Taken
<1>4. Read(srv, u)
  BY <1>1, <1>2, <1>3, TakenRead
<1>5. \/ Put(cl, u) /\ UNCHANGED hurt
      \/ \E n \in 1..room : \E d \in QueueOperations(c, n) :
            Put(d, u) /\ hurt' = [hurt EXCEPT !.how = @ \cup Unsent(d)]
      \/ Put(SendRequest(c, "other", Null, Null, "none", 0), u) /\ UNCHANGED hurt
      \/ \E on \in BOOLEAN : Put([c EXCEPT !.running = on], u) /\ UNCHANGED hurt
  BY DEF Event
<1>6. Right(cl, u, hurt)
  BY <1>1, <1>4, ReadRight
<1>7. f \in [Keys -> Handle \cup {Null}] /\ \A k \in Keys : f[k] \in {cl.handles[k], Null}
  <2>1. \A k \in Keys : f[k] \in {cl.handles[k], Null}
    BY DEF Keys
  <2>2. \A k \in Keys : cl.handles[k] \in Handle \cup {Null}
    BY <1>1 DEF Clients
  <2> QED BY <2>1, <2>2 DEF Keys
<1>8. \A k \in Documents : f[k] = cl.handles[k]
  BY Basic DEF Matched
<1> HIDE DEF m, u, f
<1>9. /\ c \in Clients /\ c.left = cl.left /\ c.issued = cl.issued /\ c.sent = cl.sent
      /\ c.contents = cl.contents /\ c.wrotten = cl.wrotten /\ c.lastTarget = cl.lastTarget
      /\ c.pending = cl.pending /\ c.new = <<>> /\ c.handles = f /\ c.running = cl.running
  BY <1>1, <1>7 DEF Clients
<1> HIDE DEF c
<1>10. Right(c, u, hurt)
  <2>1. \A w \in Windows : c.handles[w] # Null =>
            c.handles[w][1] \in Windows /\ Before(c.handles[w], cl, u)
    BY <1>6, <1>7, <1>9 DEF Right, Filled, Aged, Keys
  <2>2. \A k \in Documents : c.handles[k] = cl.handles[k]
    BY <1>8, <1>9
  <2> QED BY <1>1, <1>6, <1>9, <2>1, <2>2, TableRight
<1>11. CASE Put(cl, u) /\ UNCHANGED hurt
  <2>1. Gone(cl, cl', u, srv')
    BY <1>11 DEF Put, Gone
  <2>2. Right(cl', srv', hurt)
    BY <1>6, <2>1, GoneQuiet
  <2> QED BY <1>11, <2>2 DEF RightNow
<1>12. ASSUME NEW n \in 1..room, NEW d \in QueueOperations(c, n), Put(d, u),
              hurt' = [hurt EXCEPT !.how = @ \cup Unsent(d)]
       PROVE  RightNow'
  <2>1. Gone(d, cl', u, srv')
    BY <1>12 DEF Put, Gone
  <2>2. n \in Nat /\ n + c.left + c.issued <= MaxOps
    BY <1>1, <1>9, <1>12, Basic DEF Clients
  <2>3. Right(cl', srv', hurt)
    BY <1>10, <1>12, <2>1, <2>2, QueuedRight
  <2>4. hurt' \in Hurts /\ hurt'.docs = hurt.docs /\ hurt'.whole = hurt.whole
    <3> DEFINE how == hurt.how \cup Unsent(d)
    <3>1. hurt' = [hurt EXCEPT !.how = how]
      BY <1>12
    <3>2. how \in SUBSET {"refused", "update", "own", "function", "unsent", "late"}
      BY <1>1 DEF Hurts, Unsent
    <3> HIDE DEF how
    <3> QED BY <1>1, <3>1, <3>2 DEF Hurts
  <2> QED BY <2>3, <2>4, HowRight DEF RightNow
<1>13. CASE Put(SendRequest(c, "other", Null, Null, "none", 0), u) /\ UNCHANGED hurt
  <2> DEFINE d == SendRequest(c, "other", Null, Null, "none", 0)
             r == [id |-> c.sent + 1, op |-> "other", key |-> Null, handle |-> Null,
                   handler |-> "none", size |-> 0]
  <2>1. Gone(d, cl', u, srv')
    BY <1>13 DEF Put, Gone
  <2>2. c.sent + 1 \in Nat
    BY <1>9 DEF Clients
  <2>3. r \in Requests
    BY <2>2, RequestIs DEF Ops, Handlers, Shapes, WriteOps
  <2>4. Plain(c, d, r) /\ r.handler = "none"
    BY <1>9, <2>3, RequestSent DEF Plain, Writes, WriteOps
  <2> HIDE DEF d, r
  <2>5. Underway(d, cl', u, srv', r)
    BY <1>4, <2>1, <2>3, <2>4, GoneUnderway DEF Plain, Sent, Read
  <2>6. Right(cl', srv', hurt)
    BY <1>10, <2>4, <2>5, PlainRight
  <2> QED BY <1>13, <2>6 DEF RightNow
<1>14. ASSUME NEW on \in BOOLEAN, Put([c EXCEPT !.running = on], u), UNCHANGED hurt
       PROVE  RightNow'
  <2> DEFINE d == [c EXCEPT !.running = on]
  <2>1. Gone(d, cl', u, srv')
    BY <1>14 DEF Put, Gone
  <2>2. /\ d \in Clients /\ d.left = c.left /\ d.issued = c.issued /\ d.sent = c.sent
        /\ d.contents = c.contents /\ d.wrotten = c.wrotten /\ d.lastTarget = c.lastTarget
        /\ d.pending = c.pending /\ d.new = <<>> /\ d.handles = c.handles
    BY <1>9 DEF Clients
  <2> HIDE DEF d
  <2>3. d.left + d.issued \in 1..MaxOps
    BY <1>10, <2>2 DEF Right, Filled
  <2>4. Right(d, u, hurt)
    BY <1>10, <2>2, <2>3, QuietRight
  <2>5. Right(cl', srv', hurt)
    BY <2>1, <2>4, GoneQuiet
  <2> QED BY <1>14, <2>5 DEF RightNow
<1> QED BY <1>5, <1>11, <1>12, <1>13, <1>14

---------------------------------------------------------------------------
(* The steps of the renderer and of its user. *)

\* The first request r of what is under way is answered with m: what the renderer makes is
\* named after r, and a function's own requests change nothing.
LEMMA ServedRight ==
    ASSUME PurcsexConstants, NEW c, NEW s, NEW h, Right(c, s, h), s.inp # <<>>,
           NEW r, r = Head(s.inp), NEW t \in Servers, t.inp = Tail(s.inp),
           NEW m \in Responses, t.out = Append(s.out, m), m.id = r.id,
           m.value = Null \/ m.value[2] = r.id \/ \E w \in Windows : m.value = s.doc[w],
           \A w \in Windows : t.doc[w] \in {s.doc[w], Null} \/ t.doc[w][2] = r.id,
           \A w \in t.parses : w \in s.parses \/ t.doc[w][2] = r.id,
           r.handler = "none" => t.win = s.win /\ t.doc = s.doc /\ t.parses = s.parses,
           m.ok /\ r \in BatchOf(c) => Truth(t, r, m.value)
    PROVE  Right(c, t, h)
<1>1. c \in Clients /\ s \in Servers /\ Ordered(c, s)
  BY DEF Right, Typed
<1>2. /\ r \in In(s) /\ r \in Requests /\ In(t) \subseteq In(s) /\ Rising(t.inp)
      /\ \A q \in In(t) : r.id < q.id
  <2>1. s.inp \in Seq(Requests) /\ Rising(s.inp)
    BY <1>1 DEF Servers, Ordered
  <2> QED BY <2>1, InServed
<1>3. Out(t) = Out(s) \cup {m}
  BY <1>1, OutSaid DEF Servers
<1>4. r.id <= c.sent /\ \A n \in Out(s) : n.id < r.id
  BY <1>1, <1>2 DEF Ordered
<1>5. Typed(c, t, h)
  BY DEF Right, Typed
<1>6. Ordered(c, t)
  BY <1>1, <1>2, <1>3, <1>4 DEF Ordered
<1>7. \A v : Before(v, c, s) => Before(v, c, t)
  BY <1>2 DEF Before
<1>8. \A v : v[2] = r.id => Before(v, c, t)
  BY <1>2, <1>4 DEF Before
<1>9. Before(Null, c, t)
  BY DEF Before
<1>10. Before(m.value, c, t)
  BY <1>7, <1>8, <1>9 DEF Right, Aged
<1>11. \A w \in Windows : Before(t.doc[w], c, t)
  BY <1>7, <1>8, <1>9 DEF Right, Aged
<1>12. Aged(c, t)
  BY <1>3, <1>7, <1>10, <1>11 DEF Right, Aged
<1>13. Latest(c, t)
  BY <1>2 DEF Right, Latest
<1>14. t.win = s.win /\ t.doc = s.doc /\ t.parses = s.parses => \A q : Chain(s, q) => Chain(t, q)
  BY DEF Chain
<1>15. ASSUME NEW q \in BatchOf(c), q \in In(t), q.op \in More PROVE Chain(t, q)
  <2>1. r.handler = "none"
    <3> SUFFICES ASSUME r.handler # "none" PROVE FALSE
      OBVIOUS
    <3>1. r = q /\ r.id < q.id
      BY <1>2, <1>15 DEF Right, Latest
    <3>2. r.id \in Nat
      BY <1>2 DEF Requests
    <3> QED BY <3>1, <3>2
  <2> QED BY <1>2, <1>14, <1>15, <2>1 DEF Right, Follows
<1>16. Follows(c, t)
  BY <1>15 DEF Follows
<1>17. ASSUME NEW n \in Out(t), NEW q \in BatchOf(c), n.id = q.id, n.ok
       PROVE  Truth(t, q, n.value)
  <2>1. CASE n = m
    <3>1. q \in c.pending /\ q.id = r.id
      BY <1>17, <2>1 DEF BatchOf
    <3>2. q = r
      BY <1>1, <1>2, <3>1 DEF Ordered
    <3> QED BY <1>17, <2>1, <3>2
  <2>2. CASE n \in Out(s)
    <3>1. r.handler = "none"
      <4> SUFFICES ASSUME r.handler # "none" PROVE FALSE
        OBVIOUS
      <4>1. r.id <= q.id /\ q.id < r.id
        BY <1>2, <1>4, <1>17, <2>2 DEF Right, Latest
      <4>2. r.id \in Nat /\ q.id \in Nat
        <5>1. q \in Requests
          BY <1>1 DEF Clients, BatchOf
        <5> QED BY <1>2, <5>1 DEF Requests
      <4> QED BY <4>1, <4>2
    <3>2. Truth(s, q, n.value)
      BY <1>17, <2>2 DEF Right, Truths
    <3> QED BY <1>14, <3>1, <3>2 DEF Truth
  <2> QED BY <1>3, <1>17, <2>1, <2>2
<1>18. Truths(c, t)
  BY <1>17 DEF Truths
<1>19. Changes(t, h)
  BY <1>2 DEF Right, Changes
<1>20. ASSUME NEW k \in Documents, c.handles[k] # Null, c.handles[k] = t.doc[Target[k]],
              Target[k] \in t.parses
       PROVE  k \in h.whole
  <2>1. k \in Keys /\ Target[k] \in Windows
    BY Basic DEF Keys
  <2>2. c.handles[k][2] < r.id /\ c.handles[k][2] \in Nat
    BY <1>1, <1>2, <1>20, <2>1, Basic DEF Right, Aged, Before, Clients
  <2>3. t.doc[Target[k]][2] # r.id
    BY <1>20, <2>2
  <2>4. Target[k] \in s.parses /\ t.doc[Target[k]] = s.doc[Target[k]]
    BY <1>20, <2>1, <2>3
  <2> QED BY <1>20, <2>4 DEF Right, Ended
<1>21. Ended(c, t, h)
  BY <1>20 DEF Ended
<1> QED BY <1>5, <1>6, <1>12, <1>13, <1>16, <1>18, <1>19, <1>21 DEF Right

\* What the user does: windows are closed, with what is in them.
LEMMA ClosedRight ==
    ASSUME NEW c, NEW s, NEW h, Right(c, s, h), NEW t \in Servers, t.inp = s.inp,
           Out(t) = Out(s), t.parses \subseteq s.parses,
           \A w \in Windows : \/ t.win[w] = s.win[w] /\ t.doc[w] = s.doc[w]
                              \/ t.doc[w] = Null /\ w \notin t.parses,
           Null \notin Handle, \A d \in Documents : Target[d] \in Windows
    PROVE  Right(c, t, h)
<1>1. In(t) = In(s)
  BY DEF In
<1>2. Typed(c, t, h) /\ Filled(c) /\ Ordered(c, t) /\ Single(c) /\ Latest(c, t)
      /\ Named(c, h) /\ Changes(t, h)
  BY <1>1 DEF Right, Typed, Ordered, Latest, Changes
<1>3. Aged(c, t)
  BY <1>1 DEF Right, Aged, Before
<1>4. \A r \in BatchOf(c) : Writes(r) => Target[r.key] \in Windows
  BY DEF Right, Typed, Clients, BatchOf, Requests, Writes
<1>5. \A r \in BatchOf(c) : Writes(r) /\ Chain(s, r) => Chain(t, r)
  BY <1>4 DEF Chain
<1>6. \A r : r.op \in More \cup {"writeBegin"} => Writes(r)
  BY DEF More, Writes, WriteOps
<1>7. Follows(c, t)
  BY <1>1, <1>5, <1>6 DEF Right, Follows
<1>8. ASSUME NEW r \in BatchOf(c), NEW v, Truth(s, r, v)
      PROVE  Truth(t, r, v)
  <2>1. r.op \in {"load", "writeEnd"} /\ v = t.doc[Target[r.key]] => Target[r.key] \notin t.parses
    <3>1. r.op \in {"load", "writeEnd"} => Writes(r)
      BY DEF Writes, WriteOps
    <3> QED BY <1>4, <1>8, <3>1 DEF Truth
  <2>2. r.op \in {"writeBegin", "writeMore"} => Chain(t, r)
    BY <1>5, <1>6, <1>8 DEF Truth, More
  <2> QED BY <1>8, <2>1, <2>2 DEF Truth
<1>9. Truths(c, t)
  <2>1. \A m \in Out(s), r \in BatchOf(c) : m.id = r.id /\ m.ok => Truth(s, r, m.value)
    BY DEF Right, Truths
  <2> QED BY <1>8, <2>1 DEF Truths
<1>10. Ended(c, t, h)
  BY DEF Right, Ended
<1> QED BY <1>2, <1>3, <1>7, <1>9, <1>10 DEF Right

LEMMA SaysFields ==
    ASSUME NEW s \in Servers, s.inp # <<>>, NEW m \in Responses \cup Events, NEW t,
           t = Says(s, m)
    PROVE  /\ t \in Servers /\ t.inp = Tail(s.inp) /\ t.out = Append(s.out, m)
           /\ t.win = s.win /\ t.doc = s.doc /\ t.parses = s.parses /\ t.events = s.events
<1> DEFINE inp == Tail(s.inp)
           out == Append(s.out, m)
<1>1. inp \in Seq(Requests) /\ out \in Seq(Responses \cup Events)
  BY DEF Servers
<1>2. t = [s EXCEPT !.inp = inp, !.out = out]
  BY DEF Says
<1> HIDE DEF inp, out
<1>3. /\ t.inp = inp /\ t.out = out /\ t.win = s.win /\ t.doc = s.doc /\ t.parses = s.parses
      /\ t.events = s.events /\ t \in Servers
  BY <1>1, <1>2 DEF Servers
<1> QED BY <1>3 DEF inp, out

\* What serving a request makes of the windows.
World(s, r, t) ==
    LET made == <<r.key, r.id>>
        w == IF r.key \in Documents THEN Target[r.key] ELSE r.key
    IN CASE r.op = "create" -> t = [s EXCEPT !.win[w] = made]
         [] r.op = "destroy" -> t = [s EXCEPT !.win[w] = Null, !.doc[w] = Null,
                                              !.parses = @ \ {w}]
         [] r.op = "load" -> t = [s EXCEPT !.doc[w] = made, !.parses = @ \ {w}]
         [] r.op = "writeBegin" -> t = [s EXCEPT !.doc[w] = made, !.parses = @ \cup {w}]
         [] r.op = "writeEnd" -> t = [s EXCEPT !.parses = @ \ {w}]
         [] OTHER -> t = s
Value(s, r) ==
    CASE r.op \in {"create", "load", "writeBegin"} -> <<r.key, r.id>>
      [] r.op \in {"writeMore", "writeEnd"} -> s.doc[Target[r.key]]
      [] OTHER -> Null

LEMMA ServeWorld ==
    ASSUME Serve, Head(srv.inp) \in Requests
    PROVE  \E t : /\ World(srv, Head(srv.inp), t)
                  /\ srv' = Says(t, Answer(Head(srv.inp), TRUE, Value(srv, Head(srv.inp))))
<1> DEFINE r == Head(srv.inp)
           made == <<r.key, r.id>>
           w == IF r.key \in Documents THEN Target[r.key] ELSE r.key
           Ok(s, value) == srv' = Says(s, Answer(r, TRUE, value))
<1>1. (CASE r.op = "create" -> Ok([srv EXCEPT !.win[w] = made], made)
        [] r.op = "destroy" ->
              Ok([srv EXCEPT !.win[w] = Null, !.doc[w] = Null, !.parses = @ \ {w}], Null)
        [] r.op = "load" -> Ok([srv EXCEPT !.doc[w] = made, !.parses = @ \ {w}], made)
        [] r.op = "writeBegin" ->
              Ok([srv EXCEPT !.doc[w] = made, !.parses = @ \cup {w}], made)
        [] r.op = "writeEnd" -> Ok([srv EXCEPT !.parses = @ \ {w}], srv.doc[w])
        [] r.op = "writeMore" -> Ok(srv, srv.doc[w])
        [] OTHER -> Ok(srv, Null))
  BY DEF Serve
<1>2. r.op \in {"writeMore", "writeEnd"} => w = Target[r.key]
  BY DEF Requests, WriteOps
<1> QED BY <1>1, <1>2 DEF World, Value

\* A window is made; a document is made or ended in a window, or it is destroyed.
DocPut(s, w, v, p) == [s EXCEPT !.doc[w] = v, !.parses = p]
Emptied(s, w, e, out) ==
    [s EXCEPT !.win[w] = Null, !.doc[w] = Null, !.parses = @ \ {w}, !.events = e, !.out = out]

LEMMA WinSet ==
    ASSUME NEW s \in Servers, NEW w \in Windows, NEW v \in Handle \cup {Null}, NEW t,
           t = [s EXCEPT !.win[w] = v]
    PROVE  /\ t \in Servers /\ t.inp = s.inp /\ t.out = s.out /\ t.doc = s.doc
           /\ t.parses = s.parses
<1>1. /\ t.win = [s.win EXCEPT ![w] = v] /\ t.inp = s.inp /\ t.out = s.out
      /\ t.doc = s.doc /\ t.parses = s.parses /\ t.events = s.events
  BY DEF Servers
<1>2. s.win \in [Windows -> Handle \cup {Null}]
  BY DEF Servers
<1>3. t.win \in [Windows -> Handle \cup {Null}]
  BY <1>1, <1>2, ExceptIn
<1> QED BY <1>1, <1>3 DEF Servers

LEMMA DocSet ==
    ASSUME NEW s \in Servers, NEW w \in Windows, NEW v \in (Documents \X Nat) \cup {Null},
           NEW p \in SUBSET Windows, NEW t, t = DocPut(s, w, v, p)
    PROVE  /\ t \in Servers /\ t.inp = s.inp /\ t.out = s.out /\ t.win = s.win
           /\ t.parses = p /\ t.doc[w] = v /\ \A x \in Windows \ {w} : t.doc[x] = s.doc[x]
<1>1. /\ t.doc = [s.doc EXCEPT ![w] = v] /\ t.inp = s.inp /\ t.out = s.out
      /\ t.win = s.win /\ t.parses = p /\ t.events = s.events
  BY DEF Servers, DocPut
<1>2. s.doc \in [Windows -> (Documents \X Nat) \cup {Null}]
  BY DEF Servers
<1>3. t.doc \in [Windows -> (Documents \X Nat) \cup {Null}]
  BY <1>1, <1>2, ExceptIn
<1>4. t \in Servers
  BY <1>1, <1>3 DEF Servers, DocPut
<1> QED BY <1>1, <1>2, <1>4

LEMMA WinDocSet ==
    ASSUME NEW s \in Servers, NEW w \in Windows, NEW e \in 0..MaxOdd,
           NEW out \in Seq(Responses \cup Events), NEW t, t = Emptied(s, w, e, out)
    PROVE  /\ t \in Servers /\ t.inp = s.inp /\ t.out = out
           /\ t.parses = s.parses \ {w} /\ t.doc[w] = Null /\ t.win[w] = Null
           /\ \A x \in Windows \ {w} : t.doc[x] = s.doc[x] /\ t.win[x] = s.win[x]
<1>1. /\ t.win = [s.win EXCEPT ![w] = Null] /\ t.doc = [s.doc EXCEPT ![w] = Null]
      /\ t.inp = s.inp /\ t.out = out /\ t.parses = s.parses \ {w} /\ t.events = e
  BY DEF Servers, Emptied
<1>2. /\ s.doc \in [Windows -> (Documents \X Nat) \cup {Null}]
      /\ s.win \in [Windows -> Handle \cup {Null}] /\ s.parses \in SUBSET Windows
  BY DEF Servers
<1>3. t.doc \in [Windows -> (Documents \X Nat) \cup {Null}]
  BY <1>1, <1>2, ExceptIn
<1>4. t.win \in [Windows -> Handle \cup {Null}]
  BY <1>1, <1>2, ExceptIn
<1>5. t.parses \in SUBSET Windows
  BY <1>1, <1>2
<1>6. t \in Servers
  BY <1>1, <1>3, <1>4, <1>5 DEF Servers, Emptied
<1> QED BY <1>1, <1>2, <1>6

\* The window has r's document.
Has(s, r) == s.doc[Target[r.key]] # Null /\ s.doc[Target[r.key]][1] = r.key

\* What serving r leaves, and that its answer is true.
Done(s, r, t) ==
    /\ t \in Servers /\ t.inp = s.inp /\ t.out = s.out
    /\ \A x \in Windows : t.doc[x] \in {s.doc[x], Null} \/ t.doc[x][2] = r.id
    /\ \A x \in t.parses : x \in s.parses \/ t.doc[x][2] = r.id
    /\ r.op \in {"update", "change", "other"} =>
         t.win = s.win /\ t.doc = s.doc /\ t.parses = s.parses
    /\ (r.op \in More => Has(s, r)) => Truth(t, r, Value(s, r))

LEMMA WorldDone ==
    ASSUME PurcsexConstants, NEW s \in Servers, NEW r \in Requests, NEW t, World(s, r, t)
    PROVE  Done(s, r, t)
<1> DEFINE made == <<r.key, r.id>>
           w == IF r.key \in Documents THEN Target[r.key] ELSE r.key
<1>1. r.id \in Nat /\ made[1] = r.key /\ made[2] = r.id
  BY DEF Requests
<1>2. r.op \in {"load", "writeBegin", "writeMore", "writeEnd"} =>
         r.key \in Documents /\ w = Target[r.key] /\ w \in Windows /\ made \in Documents \X Nat
  BY <1>1, Basic DEF Requests, WriteOps
<1>3. r.op \in {"create", "destroy"} =>
         w \in Windows /\ r.key \in Windows /\ w = r.key /\ made \in Windows \X Nat
  BY <1>1, Basic DEF Requests
<1>4. r.op \in Ops
  BY DEF Requests
<1>5. \A v : v \in Windows \X Nat \/ v \in Documents \X Nat => v \in Handle /\ v # Null
  BY Basic DEF Handle
<1>6. \A x \in Windows : s.doc[x] \in (Documents \X Nat) \cup {Null}
  BY DEF Servers
<1>7. CASE r.op = "create"
  <2>1. t = [s EXCEPT !.win[w] = made] /\ Value(s, r) = made
    BY <1>7 DEF World, Value
  <2>2. made \in Handle \cup {Null}
    BY <1>3, <1>5, <1>7
  <2> HIDE DEF made, w
  <2>3. /\ t \in Servers /\ t.inp = s.inp /\ t.out = s.out /\ t.doc = s.doc
        /\ t.parses = s.parses
    BY <1>3, <1>7, <2>1, <2>2, WinSet
  <2>4. Truth(t, r, made)
    BY <1>1, <1>3, <1>5, <1>7 DEF Truth, Writes, WriteOps
  <2> QED BY <1>7, <2>1, <2>3, <2>4 DEF Done
<1>8. CASE r.op = "destroy"
  <2>1. t = [s EXCEPT !.win[w] = Null, !.doc[w] = Null, !.parses = @ \ {w}]
    BY <1>8 DEF World
  <2>2. s.events \in 0..MaxOdd /\ s.out \in Seq(Responses \cup Events)
    BY DEF Servers
  <2> HIDE DEF made, w
  <2>3. t = Emptied(s, w, s.events, s.out)
    BY <2>1 DEF Servers, Emptied
  <2>4. /\ t \in Servers /\ t.inp = s.inp /\ t.out = s.out /\ t.parses = s.parses \ {w}
        /\ t.doc[w] = Null /\ \A x \in Windows \ {w} : t.doc[x] = s.doc[x]
    BY <1>3, <1>8, <2>2, <2>3, WinDocSet
  <2>5. Truth(t, r, Value(s, r))
    BY <1>8 DEF Truth, Writes, WriteOps
  <2> QED BY <1>8, <2>4, <2>5 DEF Done
<1>9. CASE r.op \in {"load", "writeBegin"}
  <2> DEFINE p == IF r.op = "load" THEN s.parses \ {w} ELSE s.parses \cup {w}
  <2>1. t = DocPut(s, w, made, p) /\ Value(s, r) = made
    BY <1>9 DEF World, Value, DocPut
  <2>2. p \in SUBSET Windows
    BY <1>2, <1>9 DEF Servers
  <2>3. w = Target[r.key] /\ (r.op = "load" => w \notin p)
    BY <1>2, <1>9
  <2>4. made \in (Documents \X Nat) \cup {Null} /\ made \in Handle /\ made # Null
    BY <1>2, <1>5, <1>9
  <2>5. \A x \in p : x \in s.parses \/ x = w
    OBVIOUS
  <2> HIDE DEF made, w, p
  <2>6. /\ t \in Servers /\ t.inp = s.inp /\ t.out = s.out
        /\ t.parses = p /\ t.doc[w] = made /\ \A x \in Windows \ {w} : t.doc[x] = s.doc[x]
    BY <1>2, <1>9, <2>1, <2>2, <2>4, DocSet
  <2>7. Truth(t, r, made)
    BY <1>1, <1>9, <2>3, <2>4, <2>6 DEF Truth, Chain, Writes, WriteOps
  <2> QED BY <1>1, <1>9, <2>1, <2>5, <2>6, <2>7 DEF Done
<1>10. CASE r.op \in {"writeMore", "writeEnd"}
  <2> DEFINE p == IF r.op = "writeEnd" THEN s.parses \ {w} ELSE s.parses
  <2>1. t = [s EXCEPT !.parses = p] /\ Value(s, r) = s.doc[Target[r.key]]
    <3>1. Value(s, r) = s.doc[Target[r.key]]
      BY <1>10 DEF Value
    <3>2. CASE r.op = "writeEnd"
      BY <3>1, <3>2 DEF World
    <3>3. CASE r.op = "writeMore"
      BY <3>1, <3>3 DEF World, Servers
    <3> QED BY <1>10, <3>2, <3>3
  <2>2. p \in SUBSET Windows /\ p \subseteq s.parses
    BY DEF Servers
  <2>3. w = Target[r.key] /\ w \in Windows /\ (r.op = "writeEnd" => w \notin p)
    BY <1>2, <1>10
  <2>4. Has(s, r) => s.doc[w] \in Handle /\ s.doc[w][1] = r.key /\ s.doc[w] # Null
    BY <1>5, <1>6, <1>10, <2>3 DEF Has
  <2> HIDE DEF made, w, p
  <2>5. /\ t \in Servers /\ t.inp = s.inp /\ t.out = s.out /\ t.win = s.win /\ t.doc = s.doc
        /\ t.parses = p
    BY <2>1, <2>2 DEF Servers
  <2>6. Has(s, r) => Truth(t, r, s.doc[w])
    BY <1>10, <2>3, <2>4, <2>5 DEF Truth, Chain, Writes, WriteOps
  <2>7. r.op \in More
    BY <1>10 DEF More
  <2> QED BY <1>10, <2>1, <2>2, <2>3, <2>5, <2>6, <2>7 DEF Done
<1>11. CASE r.op \in {"update", "change", "other"}
  <2>1. t = s
    BY <1>11 DEF World
  <2>2. Truth(t, r, Value(s, r))
    BY <1>11 DEF Truth, Writes, WriteOps
  <2> QED BY <2>1, <2>2 DEF Done
<1> QED BY <1>4, <1>7, <1>8, <1>9, <1>10, <1>11 DEF Ops, WriteOps

LEMMA HeadOfInp ==
    ASSUME Right(cl, srv, hurt), srv.inp # <<>>
    PROVE  Head(srv.inp) \in Requests /\ Head(srv.inp) \in In(srv) /\ srv \in Servers
<1>1. srv \in Servers /\ srv.inp \in Seq(Requests) /\ Rising(srv.inp)
  BY DEF Right, Typed, Servers, Ordered
<1>2. \A t : t = Tail(srv.inp) => \E u : u.inp = t
  <2>1. \A t : [inp |-> t].inp = t
    OBVIOUS
  <2> QED BY <2>1
<1> QED BY <1>1, <1>2, InServed

LEMMA ServeRight ==
    ASSUME PurcsexConstants, RightNow, Serve
    PROVE  RightNow'
<1> DEFINE r == Head(srv.inp)
           v == Value(srv, r)
           m == Answer(r, TRUE, v)
<1>1. Right(cl, srv, hurt) /\ srv.inp # <<>> /\ Possible(r) /\ UNCHANGED <<cl, hurt>>
  BY DEF RightNow, Serve
<1>2. r \in Requests /\ r \in In(srv) /\ srv \in Servers
  BY <1>1, HeadOfInp
<1>3. PICK t : World(srv, r, t) /\ srv' = Says(t, m)
  BY <1>2, ServeWorld
<1>4. m = [type |-> "response", id |-> r.id, ok |-> TRUE, value |-> v]
  BY DEF Answer
<1>5. r \in BatchOf(cl) /\ r.op \in More => Has(srv, r)
  BY <1>1, <1>2 DEF Right, Follows, Chain, Possible, More, Has
<1> HIDE DEF v
<1>6. Done(srv, r, t)
  BY <1>2, <1>3, WorldDone
<1>7. v \in Handle \cup {Null}
  <2>1. \A w \in Windows : srv.doc[w] \in Handle \cup {Null}
    BY <1>2 DEF Servers, Handle
  <2>2. r.id \in Nat /\ (r.op \in {"create", "load", "writeBegin"} =>
           r.key \in Windows \cup Documents)
    BY <1>2 DEF Requests, WriteOps
  <2>3. r.op \in {"writeMore", "writeEnd"} => Target[r.key] \in Windows
    BY <1>2, Basic DEF Requests, WriteOps
  <2>4. CASE r.op \in {"create", "load", "writeBegin"}
    <3>1. v = <<r.key, r.id>>
      BY <2>4 DEF v, Value
    <3> QED BY <2>2, <2>4, <3>1 DEF Handle
  <2>5. CASE r.op \in {"writeMore", "writeEnd"}
    <3>1. v = srv.doc[Target[r.key]]
      BY <2>5 DEF v, Value
    <3> QED BY <2>1, <2>3, <2>5, <3>1
  <2>6. CASE r.op \notin {"create", "load", "writeBegin", "writeMore", "writeEnd"}
    BY <2>6 DEF v, Value
  <2> QED BY <2>4, <2>5, <2>6
<1>8. m \in Responses /\ m.id = r.id /\ m.value = v
  <2>1. r.id \in Nat
    BY <1>2 DEF Requests
  <2> HIDE DEF m, r
  <2> QED BY <1>4, <1>7, <2>1 DEF Responses
<1>9. v = Null \/ v[2] = r.id \/ \E w \in Windows : v = srv.doc[w]
  <2>1. CASE r.op \in {"create", "load", "writeBegin"}
    BY <2>1 DEF v, Value
  <2>2. CASE r.op \in {"writeMore", "writeEnd"}
    <3>1. v = srv.doc[Target[r.key]] /\ Target[r.key] \in Windows
      BY <1>2, <2>2, Basic DEF v, Value, Requests, WriteOps
    <3> QED BY <3>1
  <2>3. CASE r.op \notin {"create", "load", "writeBegin", "writeMore", "writeEnd"}
    BY <2>3 DEF v, Value
  <2> QED BY <2>1, <2>2, <2>3
<1>10. /\ t \in Servers /\ t.inp = srv.inp /\ t.out = srv.out
       /\ \A x \in Windows : t.doc[x] \in {srv.doc[x], Null} \/ t.doc[x][2] = r.id
       /\ \A x \in t.parses : x \in srv.parses \/ t.doc[x][2] = r.id
       /\ r.op \in {"update", "change", "other"} =>
            t.win = srv.win /\ t.doc = srv.doc /\ t.parses = srv.parses
       /\ (r.op \in More => Has(srv, r)) => Truth(t, r, v)
  BY <1>6 DEF Done, v
<1> HIDE DEF m, r
<1>11. /\ srv' \in Servers /\ srv'.inp = Tail(t.inp) /\ srv'.out = Append(t.out, m)
       /\ srv'.win = t.win /\ srv'.doc = t.doc /\ srv'.parses = t.parses
  BY <1>1, <1>3, <1>8, <1>10, SaysFields
<1>12. r.handler = "none" => srv'.win = srv.win /\ srv'.doc = srv.doc
                            /\ srv'.parses = srv.parses
  BY <1>2, <1>10, <1>11, ShapeOf
<1>13. r \in BatchOf(cl) => Truth(srv', r, v)
  BY <1>5, <1>10, <1>11 DEF Truth, Chain
<1>14. r = Head(srv.inp) /\ srv.inp # <<>>
  BY <1>1 DEF r
<1>15. /\ \A x \in Windows : srv'.doc[x] \in {srv.doc[x], Null} \/ srv'.doc[x][2] = r.id
       /\ \A x \in srv'.parses : x \in srv.parses \/ srv'.doc[x][2] = r.id
       /\ srv'.inp = Tail(srv.inp) /\ srv'.out = Append(srv.out, m)
  BY <1>10, <1>11
<1>16. /\ m.value = Null \/ m.value[2] = r.id \/ \E w \in Windows : m.value = srv.doc[w]
       /\ r \in BatchOf(cl) => Truth(srv', r, m.value)
  BY <1>8, <1>9, <1>13
<1>17. Right(cl, srv', hurt)
  BY <1>1, <1>8, <1>11, <1>12, <1>14, <1>15, <1>16, ServedRight
<1> QED BY <1>1, <1>17 DEF RightNow

LEMMA RefuseRight ==
    ASSUME PurcsexConstants, RightNow, Refuse
    PROVE  RightNow'
<1> DEFINE r == Head(srv.inp)
           m == Answer(r, FALSE, Null)
           t == Says(srv, m)
           n == IF Possible(r) THEN srv.events + 1 ELSE srv.events
<1>1. /\ Right(cl, srv, hurt) /\ srv.inp # <<>> /\ UNCHANGED <<cl, hurt>>
      /\ ~Possible(r) \/ srv.events < MaxOdd
  BY DEF RightNow, Refuse, Odd
<1>2. r \in Requests /\ srv \in Servers
  BY <1>1, HeadOfInp
<1>3. r.id \in Nat
  BY <1>2 DEF Requests
<1>4. m \in Responses /\ m.id = r.id /\ m.value = Null /\ ~m.ok
  BY <1>3 DEF Answer, Responses
<1>5. srv' = [t EXCEPT !.events = IF Possible(r) THEN @ + 1 ELSE @]
  BY DEF Refuse
<1>6. n \in 0..MaxOdd
  BY <1>1, <1>2, Basic DEF Servers
<1>7. t = Says(srv, m) /\ r = Head(srv.inp)
  OBVIOUS
<1> HIDE DEF m, t, r
<1>8. /\ t \in Servers /\ t.inp = Tail(srv.inp) /\ t.out = Append(srv.out, m)
      /\ t.win = srv.win /\ t.doc = srv.doc /\ t.parses = srv.parses /\ t.events = srv.events
  BY <1>1, <1>2, <1>4, <1>7, SaysFields
<1>9. srv' = [t EXCEPT !.events = n]
  BY <1>5, <1>8
<1> HIDE DEF n
<1>10. /\ srv' \in Servers /\ srv'.inp = t.inp /\ srv'.out = t.out /\ srv'.win = t.win
       /\ srv'.doc = t.doc /\ srv'.parses = t.parses
  BY <1>6, <1>8, <1>9 DEF Servers
<1>11. /\ srv'.inp = Tail(srv.inp) /\ srv'.out = Append(srv.out, m) /\ srv'.win = srv.win
       /\ srv'.doc = srv.doc /\ srv'.parses = srv.parses
  BY <1>8, <1>10
<1>12. /\ \A x \in Windows : srv'.doc[x] \in {srv.doc[x], Null} \/ srv'.doc[x][2] = r.id
       /\ \A x \in srv'.parses : x \in srv.parses \/ srv'.doc[x][2] = r.id
  BY <1>11
<1>13. Right(cl, srv', hurt)
  BY <1>1, <1>4, <1>7, <1>10, <1>11, <1>12, ServedRight
<1> QED BY <1>1, <1>13 DEF RightNow

LEMMA UserRight ==
    ASSUME PurcsexConstants, RightNow, NEW w \in Windows, UserCloses(w) \/ UserClicks(w)
    PROVE  RightNow'
<1>1. Right(cl, srv, hurt) /\ UNCHANGED <<cl, hurt>> /\ srv \in Servers
  BY DEF RightNow, UserCloses, UserClicks, Right, Typed
<1>2. srv.events + 1 \in 0..MaxOdd
  BY <1>1, Basic DEF UserCloses, UserClicks, Odd, Servers
<1>3. ASSUME NEW name \in {"destroy", "click"}, NEW v \in Handle
      PROVE  /\ Happens(name, v) \in Responses \cup Events
             /\ Happens(name, v) \notin Responses
             /\ Append(srv.out, Happens(name, v)) \in Seq(Responses \cup Events)
             /\ \A t : t.out = Append(srv.out, Happens(name, v)) => Out(t) = Out(srv)
  <2> DEFINE m == Happens(name, v)
  <2>1. m \in Events /\ m \notin Responses
    BY DEF Happens, Events, Responses
  <2> HIDE DEF m
  <2>2. srv.out \in Seq(Responses \cup Events)
    BY <1>1 DEF Servers
  <2>3. Append(srv.out, m) \in Seq(Responses \cup Events)
    BY <2>1, <2>2, AppendOf
  <2>4. \A t : t.out = Append(srv.out, m) => Out(t) = Out(srv)
    BY <2>1, <2>2, OutSaid
  <2> QED BY <2>1, <2>3, <2>4 DEF m
<1>4. CASE UserCloses(w)
  <2> DEFINE m == Happens("destroy", srv.win[w])
             out == Append(srv.out, m)
             n == srv.events + 1
  <2>1. srv.win[w] \in Handle
    BY <1>1, <1>4 DEF UserCloses, Servers
  <2>2. srv' = [srv EXCEPT !.win[w] = Null, !.doc[w] = Null, !.parses = @ \ {w}, !.events = n,
                           !.out = out]
    BY <1>1, <1>4 DEF UserCloses, Servers
  <2>3. n \in 0..MaxOdd /\ out \in Seq(Responses \cup Events)
        /\ \A t : t.out = out => Out(t) = Out(srv)
    BY <1>2, <1>3, <2>1
  <2> HIDE DEF n, out
  <2>4. srv' = Emptied(srv, w, n, out)
    BY <2>2 DEF Emptied
  <2>5. /\ srv' \in Servers /\ srv'.inp = srv.inp /\ srv'.out = out
        /\ srv'.parses = srv.parses \ {w} /\ srv'.doc[w] = Null
        /\ \A x \in Windows \ {w} : srv'.doc[x] = srv.doc[x] /\ srv'.win[x] = srv.win[x]
    BY <1>1, <2>3, <2>4, WinDocSet
  <2>6. /\ Out(srv') = Out(srv) /\ srv'.parses \subseteq srv.parses
        /\ \A x \in Windows : \/ srv'.win[x] = srv.win[x] /\ srv'.doc[x] = srv.doc[x]
                              \/ srv'.doc[x] = Null /\ x \notin srv'.parses
    BY <2>3, <2>5
  <2>7. Right(cl, srv', hurt)
    BY <1>1, <2>5, <2>6, Basic, ClosedRight
  <2> QED BY <1>1, <2>7 DEF RightNow
<1>5. CASE UserClicks(w)
  <2> DEFINE m == Happens("click", srv.doc[w])
             out == Append(srv.out, m)
             n == srv.events + 1
  <2>1. srv.doc[w] \in Handle
    BY <1>1, <1>5 DEF UserClicks, Servers, Handle
  <2>2. srv' = [srv EXCEPT !.events = n, !.out = out]
    BY <1>1, <1>5 DEF UserClicks, Servers
  <2>3. n \in 0..MaxOdd /\ out \in Seq(Responses \cup Events)
        /\ \A t : t.out = out => Out(t) = Out(srv)
    BY <1>2, <1>3, <2>1
  <2> HIDE DEF n, out
  <2>4. /\ srv' \in Servers /\ srv'.inp = srv.inp /\ srv'.out = out /\ srv'.win = srv.win
        /\ srv'.doc = srv.doc /\ srv'.parses = srv.parses
    BY <1>1, <2>2, <2>3 DEF Servers
  <2>5. Out(srv') \subseteq Out(srv)
    BY <2>3, <2>4
  <2>6. Right(cl, srv', hurt)
    BY <1>1, <2>4, <2>5, FewerRight
  <2> QED BY <1>1, <2>6 DEF RightNow
<1> QED BY <1>4, <1>5

---------------------------------------------------------------------------
(* The beginning, and every step. *)

LEMMA InitRight ==
    ASSUME PurcsexConstants, PurcsexInit
    PROVE  RightNow
<1>1. PICK n \in 1..MaxOps : \E c \in QueueOperations(Blank, n) :
        /\ cl = [c EXCEPT !.new = <<>>]
        /\ srv = [inp |-> c.new, out |-> <<>>, win |-> [w \in Windows |-> Null],
                  doc |-> [w \in Windows |-> Null], parses |-> {}, events |-> 0]
  BY DEF PurcsexInit
<1>2. PICK c \in QueueOperations(Blank, n) :
        /\ cl = [c EXCEPT !.new = <<>>]
        /\ srv = [inp |-> c.new, out |-> <<>>, win |-> [w \in Windows |-> Null],
                  doc |-> [w \in Windows |-> Null], parses |-> {}, events |-> 0]
  BY <1>1
<1> DEFINE b == [Blank EXCEPT !.left = @ + n]
           none == [w \in Windows |-> Null]
           s == [inp |-> <<>>, out |-> <<>>, win |-> none, doc |-> none, parses |-> {},
                 events |-> 0]
<1>3. /\ b.left = n /\ b.issued = 0 /\ b.sent = 0 /\ b.handles = [k \in Keys |-> Null]
      /\ b.contents = [d \in Documents |-> 0] /\ b.wrotten = [d \in Documents |-> 0]
      /\ b.lastTarget = "none" /\ b.pending = {} /\ b.new = <<>> /\ b \in Clients
  <2> DEFINE f == [k \in Keys |-> Null]
             z == [d \in Documents |-> 0]
  <2>1. Blank = [left |-> 0, issued |-> 0, sent |-> 0, handles |-> f, contents |-> z,
                 wrotten |-> z, lastTarget |-> "none", pending |-> {}, new |-> <<>>,
                 running |-> TRUE]
    BY DEF Blank, Keys
  <2>2. f \in [Keys -> Handle \cup {Null}] /\ z \in [Documents -> Nat] /\ n \in Nat /\ 0 + n = n
        /\ {} \in SUBSET Requests /\ <<>> \in Seq(Requests)
    BY <1>1, Basic
  <2> HIDE DEF f, z
  <2>3. /\ Blank.left = 0 /\ Blank.issued = 0 /\ Blank.sent = 0 /\ Blank.handles = f
        /\ Blank.contents = z /\ Blank.wrotten = z /\ Blank.lastTarget = "none"
        /\ Blank.pending = {} /\ Blank.new = <<>> /\ Blank \in Clients
    BY <2>1, <2>2 DEF Clients
  <2>4. b = [Blank EXCEPT !.left = n]
    BY <2>2, <2>3
  <2> HIDE DEF b
  <2>5. /\ b.left = n /\ b.issued = 0 /\ b.sent = 0 /\ b.handles = f /\ b.contents = z
        /\ b.wrotten = z /\ b.lastTarget = "none" /\ b.pending = {} /\ b.new = <<>>
        /\ b \in Clients
    BY <2>2, <2>3, <2>4 DEF Clients
  <2> QED BY <2>5 DEF f, z
<1>4. c \in IssueNext(b)
  BY <1>2, <1>3 DEF QueueOperations, Blank
<1>5. /\ s.inp = <<>> /\ s.out = <<>> /\ s.win = [w \in Windows |-> Null]
      /\ s.doc = [w \in Windows |-> Null] /\ s.parses = {} /\ s.events = 0
  OBVIOUS
<1>6. srv = [s EXCEPT !.inp = c.new]
  <2>1. srv = [inp |-> c.new, out |-> <<>>, win |-> none, doc |-> none, parses |-> {},
               events |-> 0]
    BY <1>2
  <2> HIDE DEF none
  <2> QED BY <2>1
<1>7. s \in Servers
  BY Basic DEF Servers
<1> HIDE DEF s
<1>8. b \in Clients
  BY <1>3
<1> HIDE DEF b
<1>9. hurt \in Hurts
  BY DEF PurcsexInit, Hurts
<1>10. In(s) = {} /\ Out(s) = {} /\ BatchOf(b) = {}
  BY <1>3, <1>5 DEF In, Out, BatchOf
<1>11. Right(b, s, hurt)
  <2>1. Typed(b, s, hurt)
    BY <1>3, <1>7, <1>8, <1>9 DEF Typed
  <2>2. Filled(b)
    BY <1>1, <1>3, Basic DEF Filled, Keys
  <2>3. Latest(b, s) /\ Follows(b, s) /\ Truths(b, s) /\ Single(b) /\ Changes(s, hurt)
    BY <1>10 DEF Latest, Follows, Truths, Single, Changes
  <2>6. Ordered(b, s)
    <3>1. Rising(s.inp)
      BY <1>5 DEF Rising
    <3>2. b.pending \cup In(s) = {} /\ b.pending = {}
      BY <1>3, <1>10
    <3> QED BY <1>10, <3>1, <3>2 DEF Ordered
  <2>4. \A k \in Keys : b.handles[k] = Null
    BY <1>3
  <2>5. Aged(b, s) /\ Named(b, hurt) /\ Ended(b, s, hurt)
    BY <1>5, <1>10, <2>4 DEF Aged, Before, Named, Ended, Keys
  <2> QED BY <2>1, <2>2, <2>3, <2>5, <2>6 DEF Right
<1>12. Gone(c, cl, s, srv)
  <2>1. c.new \in Seq(Requests)
    <3>1. b \in Clients /\ b.new = <<>> /\ Filled(b)
      BY <1>3, <1>8, <1>11 DEF Right
    <3>2. \/ Quiet(b, c)
          \/ \E r \in Requests : (Plain(b, c, r) \/ Begins(b, c, r)) /\ r.handler # "none"
      BY <1>4, <3>1, NextIssued
    <3>3. c \in Clients
      BY <3>2 DEF Quiet, Plain, Begins, Sent
    <3> QED BY <3>3 DEF Clients
  <2>2. <<>> \o c.new = c.new
    BY <2>1
  <2> QED BY <1>2, <1>5, <1>6, <2>2 DEF Gone
<1> QED BY <1>4, <1>10, <1>11, <1>12, IssuedRight DEF RightNow

LEMMA NextRight ==
    ASSUME PurcsexConstants, RightNow, [PurcsexNext]_purcsexVars
    PROVE  RightNow'
<1>1. CASE Response
  BY <1>1, ResponseRight
<1>2. CASE TimedOut
  BY <1>2, TimedOutRight
<1>3. CASE Event
  BY <1>3, EventRight
<1>4. CASE Serve
  BY <1>4, ServeRight
<1>5. CASE Refuse
  BY <1>5, RefuseRight
<1>6. ASSUME NEW w \in Windows, UserCloses(w) \/ UserClicks(w) PROVE RightNow'
  BY <1>6, UserRight
<1>7. CASE UNCHANGED purcsexVars
  BY <1>7 DEF RightNow, purcsexVars
<1> QED BY <1>1, <1>2, <1>3, <1>4, <1>5, <1>6, <1>7 DEF PurcsexNext

\* The argument as a whole: what the steps above rest on holds throughout.
LEMMA AlwaysRight ==
    ASSUME PurcsexConstants
    PROVE  PurcsexSpec => []RightNow
<1>1. PurcsexInit => RightNow
  BY InitRight
<1>2. RightNow /\ [PurcsexNext]_purcsexVars => RightNow'
  BY NextRight
<1> QED BY <1>1, <1>2, PTL DEF PurcsexSpec

---------------------------------------------------------------------------
(* The theorems. *)

\* The types of the variables of the client, of the renderer and of the history: no more
\* operations than there is room for, and no more of a document sent than there is.
THEOREM PurcsexTypes ==
    ASSUME PurcsexConstants
    PROVE  PurcsexSpec => []PurcsexTypeOK
<1>1. RightNow => PurcsexTypeOK
  <2> SUFFICES ASSUME RightNow PROVE PurcsexTypeOK
    OBVIOUS
  <2>1. cl \in Clients /\ srv \in Servers /\ hurt \in Hurts /\ Filled(cl)
    BY DEF RightNow, Right, Typed
  <2>2. cl.left + cl.issued \in 1..MaxOps /\ cl.running \in BOOLEAN
        /\ cl.lastTarget \in {"none", "plainwindow", "widget"}
    BY <2>1 DEF Clients, Filled
  <2>3. \A k \in Windows \cup Documents : cl.handles[k] = Null \/ cl.handles[k] \in Handle
    BY <2>1 DEF Clients, Keys
  <2>4. \A d \in Documents :
          cl.contents[d] \in Lengths \cup {0} /\ cl.wrotten[d] <= cl.contents[d]
    BY <2>1 DEF Filled
  <2>5. /\ srv.parses \subseteq Windows /\ srv.events \in 0..MaxOdd
        /\ hurt.docs \subseteq Documents /\ hurt.whole \subseteq Documents
    BY <2>1 DEF Servers, Hurts
  <2> QED BY <2>2, <2>3, <2>4, <2>5 DEF PurcsexTypeOK
<1> QED BY <1>1, AlwaysRight, PTL

\* The batch has one request under way at a time, however many operations events add to it
\* and whatever is refused, late or closed by the user; while a piece of a document waits
\* for its answer, what the next piece needs is there: the rest of its content, the handle
\* of its window under its key, the kind of its target; and a change is sent to the document
\* its key names, and to a window only when a load failed.
THEOREM BatchIsInStep ==
    ASSUME PurcsexConstants
    PROVE  PurcsexSpec => []BatchInStep
<1>1. RightNow => OneAtATime
  <2> SUFFICES ASSUME RightNow PROVE OneAtATime
    OBVIOUS
  <2>1. Batch = BatchOf(cl) /\ Single(cl)
    BY DEF RightNow, Right, Batch, BatchOf
  <2> QED BY <2>1 DEF OneAtATime, PieceKept, Single, Kept
<1>2. RightNow => ChangesDocuments
  BY DEF RightNow, Right, Changes, ChangesDocuments, In
<1>3. RightNow => BatchInStep
  BY <1>1, <1>2 DEF BatchInStep
<1> QED BY <1>3, AlwaysRight, PTL

\* A document that the client goes on to work with was ended in the renderer, by load or
\* writeEnd, unless its last piece was a whole one.
THEOREM LoadedWereEnded ==
    ASSUME PurcsexConstants
    PROVE  PurcsexSpec => []LoadedWasEnded
<1>1. RightNow => LoadedWasEnded
  BY DEF RightNow, Right, Ended, LoadedWasEnded
<1> QED BY <1>1, AlwaysRight, PTL

=============================================================================
