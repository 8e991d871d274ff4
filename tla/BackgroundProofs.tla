-------------------------- MODULE BackgroundProofs --------------------------
(***************************************************************************)
(* What Background promises, for any number of children and whatever they  *)
(* and the user do: an answer reaches the child that asked for it.         *)
(*                                                                         *)
(* The argument.  A loop that is not the innermost one is in the middle of *)
(* a request only for the dialog of that request, which is the loop over   *)
(* it (Nested).  So the children whose requests are under way lie one over *)
(* the other, each once (Apart), and what one of them wrote, what was read *)
(* of it and what was answered make one request (InStep).                  *)
(***************************************************************************)
EXTENDS Background, SequenceTheorems, TLAPS

Requests == Kinds \cup {"bye"}

Children == [does : Doing, asks : 0..(MaxAsks + 1), kind : Requests \cup {"none"},
             stopped : BOOLEAN]
LoopStates == [what : {"main", "jobs", "query", "failed"}, of : SUBSET Tasks,
               items : SUBSET Tasks, at : {"select", "check", "routine", "args"},
               ready : SUBSET Tasks, with : SUBSET Tasks]

\* A loop attends to a child from the moment it found it ready to the answer.
Attends(l) ==
    IF l.at \in {"routine", "args"} THEN \E t \in Tasks : l.with = {t} ELSE l.with = {}

\* The children with a dialog: the loop below that dialog is in their request.
Below(ls) == UNION {ls[i].with : i \in 1..(Len(ls) - 1)}

Nested(ls) ==
    /\ ls[1].what = "main"
    /\ \A i \in 1..(Len(ls) - 1) :
          /\ ls[i].at # "routine"
          /\ ls[i].at = "args" <=> ls[i + 1].what = "query"
          /\ ls[i + 1].what = "query" => ls[i + 1].of = ls[i].with

Apart(ls) ==
    \A i, j \in 1..Len(ls) : i < j => ls[i].with \cap (ls[j].with \cup ls[j].ready) = {}

Sound(ls) ==
    /\ ls \in Seq(LoopStates) /\ Len(ls) >= 1
    /\ \A i \in 1..Len(ls) : Attends(ls[i])
    /\ Nested(ls) /\ Apart(ls)

\* The children whose routine was read.
Taken(ls) == Below(ls) \cup (IF ls[Len(ls)].at = "args" THEN ls[Len(ls)].with ELSE {})

\* What a child wrote, what was read of it and its answer are those of one request.
InStep(t) ==
    LET d == child[t].does
        c == comm[t]
    IN  /\ d \in {"unborn", "works", "gone"} =>
              c = <<>> /\ back[t] = <<>> /\ t \notin Taken(loops)
        /\ d \in {"unborn", "works"} => child[t].asks <= MaxAsks
        /\ d \in {"writes", "waits"} =>
              child[t].kind \in Requests /\ (child[t].kind # "bye" => child[t].asks <= MaxAsks)
        /\ back[t] # <<>> =>
              /\ back[t] = <<t>> /\ c = <<>> /\ t \notin Taken(loops)
              /\ d \in {"waits", "dead"}
        /\ t \in Taken(loops) =>
              /\ c = <<>> \/ \E k \in Requests : c = <<k>>
              /\ d = "writes" => c = <<>>
        /\ t \notin Taken(loops) =>
              /\ c = <<>> \/ c = <<"routine">> \/ \E k \in Requests : c = <<"routine", k>>
              /\ d = "writes" => c = <<"routine">>
        /\ t \in Below(loops) => c = <<>> /\ d \in {"waits", "dead"}

Typed ==
    /\ child \in [Tasks -> Children]
    /\ comm \in [Tasks -> Seq(Requests \cup {"routine"})]
    /\ back \in [Tasks -> Seq(Tasks)]
    /\ taskList \in Seq(Tasks) /\ selects \in Seq(Tasks)

\* The inductive invariant.
IInv == Typed /\ Sound(loops) /\ \A t \in Tasks : InStep(t)

-----------------------------------------------------------------------------
(* Loops: how the operations on the stack of them keep Sound.              *)

LEMMA TopSet ==
  ASSUME NEW S, NEW s \in Seq(S), Len(s) >= 1, NEW x \in S
  PROVE  LET r == [s EXCEPT ![Len(s)] = x]
         IN  /\ r \in Seq(S) /\ Len(r) = Len(s) /\ r[Len(s)] = x
             /\ \A i \in 1..(Len(s) - 1) : r[i] = s[i]
OBVIOUS

\* WithTop, one loop more and one loop less, for any stack of loops.
OnTop(ls, l) == [ls EXCEPT ![Len(ls)] = l]
Over(ls, l) == Append(ls, l)
Under(ls) == SubSeq(ls, 1, Len(ls) - 1)

LEMMA TopReplaced ==
  ASSUME NEW ls, Sound(ls), NEW l \in LoopStates,
         NEW ms \in Seq(LoopStates), Len(ms) = Len(ls), ms[Len(ls)] = l,
         \A i \in 1..(Len(ls) - 1) : ms[i] = ls[i],
         l.what = ls[Len(ls)].what, l.of = ls[Len(ls)].of, Attends(l),
         (l.with \cup l.ready) \cap Below(ls) = {}
  PROVE  Sound(ms) /\ Below(ms) = Below(ls)
<1> DEFINE n == Len(ls)
<1>1. ls \in Seq(LoopStates) /\ n \in Nat /\ n >= 1
  BY DEF Sound
<1>2. Len(ms) = n /\ \A i \in 1..(n - 1) : ms[i] = ls[i]
  OBVIOUS
<1>3. Below(ms) = Below(ls)
  BY <1>2 DEF Below
<1>4. \A i \in 1..n : Attends(ms[i])
  BY <1>1, <1>2 DEF Sound
<1>5. \A i \in 1..n : ms[i].what = ls[i].what /\ ms[i].of = ls[i].of
  <2>1. \A i \in 1..n : i = n \/ i \in 1..(n - 1)
    BY <1>1
  <2>2. QED
    BY <2>1, <1>2
<1>6. Nested(ms)
  <2>1. ms[1].what = "main"
    BY <1>1, <1>5 DEF Sound, Nested
  <2>2. ASSUME NEW i \in 1..(n - 1)
        PROVE  /\ ms[i].at # "routine"
               /\ ms[i].at = "args" <=> ms[i + 1].what = "query"
               /\ ms[i + 1].what = "query" => ms[i + 1].of = ms[i].with
    <3>1. ms[i] = ls[i] /\ i + 1 \in 1..n
      BY <1>1, <1>2
    <3>2. QED
      BY <3>1, <1>5 DEF Sound, Nested
  <2>3. QED
    BY <2>1, <2>2, <1>2 DEF Nested
<1>7. Apart(ms)
  <2>1. ASSUME NEW i \in 1..n, NEW j \in 1..n, i < j
        PROVE  ms[i].with \cap (ms[j].with \cup ms[j].ready) = {}
    <3>1. i \in 1..(n - 1) /\ ms[i] = ls[i]
      BY <1>1, <1>2, <2>1
    <3>2. CASE j = n
      BY <3>1, <3>2, <1>2 DEF Below
    <3>3. CASE j # n
      <4>1. j \in 1..(n - 1) /\ ms[j] = ls[j]
        BY <1>1, <1>2, <3>3
      <4>2. QED
        BY <2>1, <3>1, <4>1 DEF Sound, Apart
    <3>4. QED
      BY <3>2, <3>3
  <2>2. QED
    BY <2>1, <1>2 DEF Apart
<1>8. QED
  BY <1>1, <1>2, <1>3, <1>4, <1>6, <1>7 DEF Sound

LEMMA TopChanged ==
  ASSUME NEW ls, Sound(ls), NEW l \in LoopStates, NEW ms, ms = OnTop(ls, l),
         l.what = ls[Len(ls)].what, l.of = ls[Len(ls)].of, Attends(l),
         (l.with \cup l.ready) \cap Below(ls) = {}
  PROVE  /\ Sound(ms) /\ Below(ms) = Below(ls)
         /\ Len(ms) = Len(ls) /\ ms[Len(ms)] = l
<1>1. ls \in Seq(LoopStates) /\ Len(ls) >= 1
  BY DEF Sound
<1>2. /\ ms \in Seq(LoopStates) /\ Len(ms) = Len(ls) /\ ms[Len(ls)] = l
      /\ \A i \in 1..(Len(ls) - 1) : ms[i] = ls[i]
  BY <1>1, TopSet DEF OnTop
<1>3. Sound(ms) /\ Below(ms) = Below(ls)
  BY <1>2, TopReplaced
<1>4. QED
  BY <1>2, <1>3

LEMMA LoopAdded ==
  ASSUME NEW ls, Sound(ls), NEW l \in LoopStates, NEW ms, ms = Over(ls, l),
         ls[Len(ls)].at # "routine", l.with = {}, l.ready = {}, Attends(l),
         ls[Len(ls)].at = "args" <=> l.what = "query",
         l.what = "query" => l.of = ls[Len(ls)].with
  PROVE  /\ Sound(ms) /\ Below(ms) = Below(ls) \cup ls[Len(ls)].with
         /\ Len(ms) = Len(ls) + 1 /\ ms[Len(ms)] = l
<1> DEFINE n == Len(ls)
<1>1. ls \in Seq(LoopStates) /\ n \in Nat /\ n >= 1
  BY DEF Sound
<1>2. ms \in Seq(LoopStates) /\ Len(ms) = n + 1 /\ ms[n + 1] = l
      /\ \A i \in 1..n : ms[i] = ls[i]
  BY <1>1 DEF Over
<1>3. Below(ms) = Below(ls) \cup ls[n].with
  <2>1. Below(ms) = UNION {ls[i].with : i \in 1..n}
    BY <1>1, <1>2 DEF Below
  <2>2. 1..n = 1..(n - 1) \cup {n}
    BY <1>1
  <2>3. QED
    BY <2>1, <2>2 DEF Below
<1>4. \A i \in 1..(n + 1) : Attends(ms[i])
  BY <1>1, <1>2 DEF Sound
<1>5. Nested(ms)
  <2>1. ms[1].what = "main"
    BY <1>1, <1>2 DEF Sound, Nested
  <2>2. ASSUME NEW i \in 1..n
        PROVE  /\ ms[i].at # "routine"
               /\ ms[i].at = "args" <=> ms[i + 1].what = "query"
               /\ ms[i + 1].what = "query" => ms[i + 1].of = ms[i].with
    <3>1. CASE i = n
      BY <1>1, <1>2, <3>1
    <3>2. CASE i # n
      <4>1. i \in 1..(n - 1) /\ ms[i] = ls[i] /\ ms[i + 1] = ls[i + 1]
        BY <1>1, <1>2, <3>2
      <4>2. QED
        BY <4>1 DEF Sound, Nested
    <3>3. QED
      BY <3>1, <3>2
  <2>3. QED
    BY <2>1, <2>2, <1>1, <1>2 DEF Nested
<1>6. Apart(ms)
  <2>1. ASSUME NEW i \in 1..(n + 1), NEW j \in 1..(n + 1), i < j
        PROVE  ms[i].with \cap (ms[j].with \cup ms[j].ready) = {}
    <3>1. CASE j = n + 1
      BY <3>1, <1>2
    <3>2. CASE j # n + 1
      <4>1. i \in 1..n /\ j \in 1..n /\ ms[i] = ls[i] /\ ms[j] = ls[j]
        BY <1>1, <1>2, <2>1, <3>2
      <4>2. QED
        BY <2>1, <4>1 DEF Sound, Apart
    <3>3. QED
      BY <3>1, <3>2
  <2>2. QED
    BY <2>1, <1>2 DEF Apart
<1>7. QED
  BY <1>1, <1>2, <1>3, <1>4, <1>5, <1>6 DEF Sound

LEMMA LoopEnded ==
  ASSUME NEW ls, Sound(ls), Len(ls) >= 2, NEW ms, ms = Under(ls)
  PROVE  /\ Sound(ms) /\ Below(ls) = Below(ms) \cup ls[Len(ls) - 1].with
         /\ Len(ms) = Len(ls) - 1 /\ ms[Len(ms)] = ls[Len(ls) - 1]
         /\ ls[Len(ls) - 1].with \cap Below(ms) = {}
<1> DEFINE n == Len(ls)
<1>1. ls \in Seq(LoopStates) /\ n \in Nat /\ n >= 2
  BY DEF Sound
<1>2. ms \in Seq(LoopStates) /\ Len(ms) = n - 1
      /\ \A i \in 1..(n - 1) : ms[i] = ls[i]
  BY <1>1 DEF Under
<1>3. Below(ls) = Below(ms) \cup ls[n - 1].with
  <2>1. Below(ms) = UNION {ls[i].with : i \in 1..(n - 2)}
    BY <1>1, <1>2 DEF Below
  <2>2. 1..(n - 1) = 1..(n - 2) \cup {n - 1}
    BY <1>1
  <2>3. QED
    BY <2>1, <2>2 DEF Below
<1>4. \A i \in 1..(n - 1) : Attends(ms[i])
  BY <1>1, <1>2 DEF Sound
<1>5. Nested(ms)
  <2>1. ms[1].what = "main"
    BY <1>1, <1>2 DEF Sound, Nested
  <2>2. ASSUME NEW i \in 1..(n - 2)
        PROVE  /\ ms[i].at # "routine"
               /\ ms[i].at = "args" <=> ms[i + 1].what = "query"
               /\ ms[i + 1].what = "query" => ms[i + 1].of = ms[i].with
    <3>1. i \in 1..(n - 1) /\ ms[i] = ls[i] /\ ms[i + 1] = ls[i + 1]
      BY <1>1, <1>2
    <3>2. QED
      BY <3>1 DEF Sound, Nested
  <2>3. QED
    BY <2>1, <2>2, <1>1, <1>2 DEF Nested
<1>6. Apart(ms)
  <2>1. ASSUME NEW i \in 1..(n - 1), NEW j \in 1..(n - 1), i < j
        PROVE  ms[i].with \cap (ms[j].with \cup ms[j].ready) = {}
    <3>1. i \in 1..n /\ j \in 1..n /\ ms[i] = ls[i] /\ ms[j] = ls[j]
      BY <1>1, <1>2
    <3>2. QED
      BY <2>1, <3>1 DEF Sound, Apart
  <2>2. QED
    BY <2>1, <1>2 DEF Apart
<1>7. ls[n - 1].with \cap Below(ms) = {}
  <2>1. ASSUME NEW i \in 1..(n - 2)
        PROVE  ls[n - 1].with \cap ms[i].with = {}
    <3>1. i \in 1..n /\ n - 1 \in 1..n /\ i < n - 1 /\ ms[i] = ls[i]
      BY <1>1, <1>2
    <3>2. QED
      BY <3>1 DEF Sound, Apart
  <2>2. QED
    BY <2>1, <1>1, <1>2 DEF Below
<1>8. QED
  BY <1>1, <1>2, <1>3, <1>4, <1>5, <1>6, <1>7 DEF Sound

-----------------------------------------------------------------------------
(* Children: a step of one child, or of the parent, leaves the others in   *)
(* step.                                                                   *)

LEMMA AppendOne == \A a : Append(<<>>, a) = <<a>>
OBVIOUS

LEMMA AppendTwo ==
  ASSUME NEW a, NEW b
  PROVE  Append(<<a>>, b) = <<a, b>>
<1> DEFINE S == {a, b}
           s == Append(<<a>>, b)
           r == <<a, b>>
<1>1. a \in S /\ b \in S
  OBVIOUS
<1> HIDE DEF S
<1>2. s \in Seq(S) /\ Len(s) = 2 /\ s[1] = a /\ s[2] = b
  BY <1>1
<1>3. r \in Seq(S) /\ Len(r) = 2 /\ r[1] = a /\ r[2] = b
  BY <1>1
<1> HIDE DEF s, r
<1>4. Len(s) = Len(r) /\ \A i \in 1..Len(s) : s[i] = r[i]
  BY <1>2, <1>3
<1>5. s = r
  BY <1>2, <1>3, <1>4, SeqEqual
<1>6. QED
  BY <1>5 DEF s, r

LEMMA WithoutType ==
  ASSUME NEW s \in Seq(Tasks), NEW t
  PROVE  Without(s, t) \in Seq(Tasks)
<1>1. CASE t \in Listed(s)
  <2>1. Place(s, t) \in 1..Len(s)
    BY <1>1 DEF Listed, Place
  <2>2. /\ SubSeq(s, 1, Place(s, t) - 1) \in Seq(Tasks)
        /\ SubSeq(s, Place(s, t) + 1, Len(s)) \in Seq(Tasks)
    BY <2>1
  <2>3. QED
    BY <1>1, <2>2 DEF Without
<1>2. CASE t \notin Listed(s)
  BY <1>2 DEF Without
<1>3. QED
  BY <1>1, <1>2

LEMMA StaysInStep ==
  ASSUME NEW u \in Tasks, InStep(u),
         child'[u].does = child[u].does, child'[u].asks = child[u].asks,
         child'[u].kind = child[u].kind, comm'[u] = comm[u], back'[u] = back[u],
         u \in Taken(loops') <=> u \in Taken(loops), u \in Below(loops') => u \in Below(loops)
  PROVE  InStep(u)'
BY DEF InStep

\* A step of the parent that reads and answers nothing.
LEMMA LoopsMove ==
  ASSUME \A u \in Tasks : InStep(u), UNCHANGED <<child, comm, back>>,
         Taken(loops') = Taken(loops), Below(loops') = Below(loops)
  PROVE  \A u \in Tasks : InStep(u)'
BY StaysInStep

\* A child that dies leaves behind what it wrote.
LEMMA DeadInStep ==
  ASSUME NEW u \in Tasks, InStep(u),
         child'[u].does = "dead", comm'[u] = comm[u], back'[u] = back[u],
         Taken(loops') = Taken(loops), Below(loops') = Below(loops)
  PROVE  InStep(u)'
BY DEF InStep

\* The answer to a request that was read.
LEMMA AnsweredInStep ==
  ASSUME NEW u \in Tasks, InStep(u), UNCHANGED child, child[u].does \in {"waits", "dead"},
         u \in Taken(loops), comm'[u] = <<>>, back'[u] = Append(back[u], u),
         u \notin Taken(loops')
  PROVE  InStep(u)'
<1>1. back'[u] = <<u>>
  BY AppendOne DEF InStep
<1>2. u \notin Below(loops')
  BY DEF Taken
<1>3. QED
  BY <1>1, <1>2 DEF InStep

LEMMA LastFacts ==
  ASSUME NEW ls, Sound(ls)
  PROVE  /\ ls \in Seq(LoopStates) /\ Len(ls) \in Nat /\ Len(ls) >= 1
         /\ ls[Len(ls)] \in LoopStates /\ Attends(ls[Len(ls)])
         /\ (ls[Len(ls)].with \cup ls[Len(ls)].ready) \cap Below(ls) = {}
<1>1. ls \in Seq(LoopStates) /\ Len(ls) \in Nat /\ Len(ls) >= 1
  BY DEF Sound
<1>2. Len(ls) \in 1..Len(ls)
  BY <1>1
<1>3. ASSUME NEW i \in 1..(Len(ls) - 1)
      PROVE  ls[i].with \cap (ls[Len(ls)].with \cup ls[Len(ls)].ready) = {}
  <2>1. i \in 1..Len(ls) /\ i < Len(ls)
    BY <1>1
  <2>2. QED
    BY <1>2, <2>1 DEF Sound, Apart
<1>4. QED
  BY <1>1, <1>2, <1>3 DEF Sound, Below

LEMMA TopFacts ==
  ASSUME Sound(loops)
  PROVE  /\ loops \in Seq(LoopStates) /\ Len(loops) \in Nat /\ Len(loops) >= 1
         /\ top \in LoopStates /\ Attends(top)
         /\ (top.with \cup top.ready) \cap Below(loops) = {}
BY LastFacts DEF top

\* The loop on top goes on.
LEMMA TopGoes ==
  ASSUME Sound(loops), NEW l \in LoopStates, loops' = WithTop(l),
         l.what = top.what, l.of = top.of, Attends(l),
         (l.with \cup l.ready) \cap Below(loops) = {}
  PROVE  /\ Sound(loops') /\ Below(loops') = Below(loops)
         /\ Taken(loops') = Below(loops) \cup (IF l.at = "args" THEN l.with ELSE {})
<1>1. loops' = OnTop(loops, l)
  BY DEF WithTop, OnTop
<1>2. l.what = loops[Len(loops)].what /\ l.of = loops[Len(loops)].of
  BY DEF top
<1>3. Sound(loops') /\ Below(loops') = Below(loops) /\ loops'[Len(loops')] = l
  BY <1>1, <1>2, TopChanged
<1>4. QED
  BY <1>3 DEF Taken

-----------------------------------------------------------------------------
(* The steps, one by one.                                                  *)

LEMMA CallKeeps ==
  ASSUME BackgroundConstants, IInv, NEW t \in Tasks, Call(t)
  PROVE  IInv'
<1> USE DEF IInv
<1>1. child[t] \in Children /\ child[t].does = "works" /\ InStep(t)
  BY DEF Call, Typed
<1>2. comm[t] = <<>> /\ back[t] = <<>> /\ t \notin Taken(loops) /\ child[t].asks <= MaxAsks
  BY <1>1 DEF InStep
<1>3. PICK k \in Requests :
        /\ child' = [child EXCEPT ![t].does = "writes", ![t].kind = k, ![t].asks = @ + 1]
        /\ k # "bye" => child[t].asks < MaxAsks
  BY DEF Call, Requests
<1>4. comm' = [comm EXCEPT ![t] = <<"routine">>] /\ UNCHANGED <<back, taskList, selects, loops>>
  BY <1>2 DEF Call
<1>5. child'[t] = [child[t] EXCEPT !.does = "writes", !.kind = k, !.asks = @ + 1]
  BY <1>3 DEF Typed
<1>6. child'[t] \in Children
  <2>1. child[t].asks + 1 \in 0..(MaxAsks + 1)
    BY <1>1, <1>2 DEF Children, BackgroundConstants
  <2>2. QED
    BY <1>1, <1>5, <2>1 DEF Children, Doing
<1>7. Typed'
  <2>1. child' \in [Tasks -> Children]
    BY <1>3, <1>6 DEF Typed
  <2>2. comm' \in [Tasks -> Seq(Requests \cup {"routine"})]
    BY <1>4 DEF Typed
  <2>3. QED
    BY <1>4, <2>1, <2>2 DEF Typed
<1>8. InStep(t)'
  <2>1. /\ comm'[t] = <<"routine">> /\ back'[t] = <<>>
        /\ t \notin Taken(loops') /\ Taken(loops') = Taken(loops) /\ Below(loops') = Below(loops)
    BY <1>2, <1>4 DEF Typed
  <2>2. child'[t].does = "writes" /\ child'[t].kind = k /\ child'[t].asks = child[t].asks + 1
    BY <1>1, <1>5 DEF Children
  <2>3. k # "bye" => child'[t].asks <= MaxAsks
    BY <1>1, <1>3, <2>2 DEF Children, BackgroundConstants
  <2>4. t \notin Below(loops')
    BY <2>1 DEF Taken
  <2>5. QED
    BY <2>1, <2>2, <2>3, <2>4 DEF InStep
<1>9. ASSUME NEW u \in Tasks, u # t
      PROVE  InStep(u)'
  <2>1. child'[u] = child[u] /\ comm'[u] = comm[u] /\ back'[u] = back[u]
    BY <1>3, <1>4, <1>9 DEF Typed
  <2>2. QED
    BY <2>1, <1>4, StaysInStep
<1>10. QED
  BY <1>4, <1>7, <1>8, <1>9

LEMMA CallArgsKeeps ==
  ASSUME IInv, NEW t \in Tasks, CallArgs(t)
  PROVE  IInv'
<1> USE DEF IInv
<1>1. child[t] \in Children /\ child[t].does = "writes" /\ InStep(t)
  BY DEF CallArgs, Typed
<1>2. /\ child[t].kind \in Requests
      /\ child[t].kind # "bye" => child[t].asks <= MaxAsks
      /\ back[t] = <<>> /\ t \notin Below(loops)
      /\ t \in Taken(loops) => comm[t] = <<>>
      /\ t \notin Taken(loops) => comm[t] = <<"routine">>
  BY <1>1 DEF InStep
<1>3. /\ child' = [child EXCEPT ![t].does = "waits"]
      /\ comm' = [comm EXCEPT ![t] = Append(@, child[t].kind)]
      /\ UNCHANGED <<back, taskList, selects, loops>>
  BY DEF CallArgs
<1>4. child'[t] = [child[t] EXCEPT !.does = "waits"] /\ child'[t] \in Children
  BY <1>1, <1>3 DEF Typed, Children, Doing
<1>5. comm'[t] = Append(comm[t], child[t].kind)
  BY <1>3 DEF Typed
<1>6. Typed'
  <2>1. child' \in [Tasks -> Children]
    BY <1>3, <1>4 DEF Typed
  <2>2. comm' \in [Tasks -> Seq(Requests \cup {"routine"})]
    <3>1. Append(comm[t], child[t].kind) \in Seq(Requests \cup {"routine"})
      BY <1>2 DEF Typed
    <3>2. QED
      BY <1>3, <3>1 DEF Typed
  <2>3. QED
    BY <1>3, <2>1, <2>2 DEF Typed
<1>7. InStep(t)'
  <2>1. child'[t].does = "waits" /\ child'[t].kind = child[t].kind /\ child'[t].asks = child[t].asks
    BY <1>1, <1>4 DEF Children
  <2>2. t \in Taken(loops) => comm'[t] = <<child[t].kind>>
    BY <1>2, <1>5, AppendOne
  <2>3. t \notin Taken(loops) => comm'[t] = <<"routine", child[t].kind>>
    BY <1>2, <1>5, AppendTwo
  <2>4. back'[t] = <<>> /\ t \notin Below(loops')
    BY <1>2, <1>3
  <2>5. Taken(loops') = Taken(loops)
    BY <1>3
  <2> HIDE DEF IInv
  <2>6. CASE t \in Taken(loops)
    BY <1>2, <2>1, <2>2, <2>4, <2>5, <2>6 DEF InStep
  <2>7. CASE t \notin Taken(loops)
    BY <1>2, <2>1, <2>3, <2>4, <2>5, <2>7 DEF InStep
  <2>8. QED
    BY <2>6, <2>7
<1>8. ASSUME NEW u \in Tasks, u # t
      PROVE  InStep(u)'
  <2>1. child'[u] = child[u] /\ comm'[u] = comm[u] /\ back'[u] = back[u]
    BY <1>3, <1>8 DEF Typed
  <2>2. QED
    BY <2>1, <1>3, StaysInStep
<1>9. QED
  BY <1>3, <1>6, <1>7, <1>8

LEMMA ResultKeeps ==
  ASSUME BackgroundConstants, IInv, NEW t \in Tasks, Result(t)
  PROVE  IInv'
<1> USE DEF IInv
<1>1. child[t] \in Children /\ child[t].does = "waits" /\ back[t] # <<>> /\ InStep(t)
  BY DEF Result, Typed
<1>2. /\ child[t].kind # "bye" => child[t].asks <= MaxAsks
      /\ back[t] = <<t>> /\ comm[t] = <<>> /\ t \notin Taken(loops)
  BY <1>1 DEF InStep
<1>3. /\ child' = [child EXCEPT ![t].does = IF child[t].kind = "bye" THEN "gone" ELSE "works",
                                ![t].kind = "none"]
      /\ back' = [back EXCEPT ![t] = Tail(@)]
      /\ UNCHANGED <<comm, taskList, selects, loops>>
  BY DEF Result
<1>4. /\ child'[t] = [child[t] EXCEPT !.does = IF child[t].kind = "bye" THEN "gone" ELSE "works",
                                      !.kind = "none"]
      /\ child'[t] \in Children
  BY <1>1, <1>3 DEF Typed, Children, Doing
<1>5. back'[t] = <<>>
  BY <1>2, <1>3 DEF Typed
<1>6. Typed'
  <2>1. child' \in [Tasks -> Children]
    BY <1>3, <1>4 DEF Typed
  <2>2. Tail(back[t]) \in Seq(Tasks)
    BY <1>2
  <2>3. QED
    BY <1>3, <2>1, <2>2 DEF Typed
<1>7. InStep(t)'
  <2>1. /\ child'[t].does \in {"works", "gone"} /\ child'[t].asks = child[t].asks
        /\ child'[t].does = "works" => child[t].kind # "bye"
    BY <1>1, <1>4 DEF Children
  <2>2. comm'[t] = <<>> /\ t \notin Taken(loops') /\ t \notin Below(loops')
    BY <1>2, <1>3 DEF Taken
  <2>3. QED
    BY <1>2, <1>5, <2>1, <2>2 DEF InStep
<1>8. ASSUME NEW u \in Tasks, u # t
      PROVE  InStep(u)'
  <2>1. child'[u] = child[u] /\ comm'[u] = comm[u] /\ back'[u] = back[u]
    BY <1>3, <1>8 DEF Typed
  <2>2. QED
    BY <2>1, <1>3, StaysInStep
<1>9. QED
  BY <1>3, <1>6, <1>7, <1>8

LEMMA DiesKeeps ==
  ASSUME IInv, NEW t \in Tasks, Dies(t)
  PROVE  IInv'
<1>1. /\ child' = [child EXCEPT ![t].does = "dead"]
      /\ UNCHANGED <<comm, back, taskList, selects, loops>>
  BY DEF Dies
<1>2. child[t] \in Children /\ child'[t] = [child[t] EXCEPT !.does = "dead"]
  BY <1>1 DEF IInv, Typed
<1>3. child'[t] \in Children /\ child'[t].does = "dead"
  BY <1>2 DEF Children, Doing
<1>4. Typed'
  BY <1>1, <1>3 DEF IInv, Typed
<1>5. InStep(t)'
  BY <1>1, <1>3, DeadInStep DEF IInv
<1>6. ASSUME NEW u \in Tasks, u # t
      PROVE  InStep(u)'
  <2>1. child'[u] = child[u]
    BY <1>1, <1>6 DEF IInv, Typed
  <2>2. QED
    BY <2>1, <1>1, StaysInStep DEF IInv
<1>7. QED
  BY <1>1, <1>4, <1>5, <1>6 DEF IInv

LEMMA SelectKeeps ==
  ASSUME IInv, Select
  PROVE  IInv'
<1> DEFINE readable == {t \in Listed(selects) : comm[t] # <<>>}
           l == [top EXCEPT !.at = "check", !.ready = readable]
<1>1. top.at = "select" /\ loops' = WithTop(l) /\ UNCHANGED <<child, comm, back, taskList, selects>>
  BY DEF Select
<1>2. top \in LoopStates /\ Attends(top) /\ Sound(loops)
  BY TopFacts DEF IInv
<1>3. top.with = {}
  BY <1>1, <1>2 DEF Attends
<1>4. readable \subseteq Tasks
  BY DEF IInv, Typed, Listed
<1>5. readable \cap Below(loops) = {}
  BY <1>4 DEF IInv, InStep
<1>6. /\ l \in LoopStates /\ l.what = top.what /\ l.of = top.of
      /\ l.at = "check" /\ l.with = {} /\ l.ready = readable
  BY <1>2, <1>3, <1>4 DEF LoopStates
<1> HIDE DEF l, readable
<1>7. Attends(l)
  BY <1>6 DEF Attends
<1>8. Sound(loops') /\ Below(loops') = Below(loops) /\ Taken(loops') = Below(loops)
  BY <1>1, <1>2, <1>5, <1>6, <1>7, TopGoes
<1>9. Taken(loops) = Below(loops)
  BY <1>1 DEF Taken, top
<1>10. QED
  BY <1>1, <1>8, <1>9, LoopsMove DEF IInv, Typed

LEMMA CheckKeeps ==
  ASSUME IInv, Check
  PROVE  IInv'
<1>1. top.at = "check" /\ UNCHANGED <<child, comm, back, taskList, selects>>
  BY DEF Check
<1>2. /\ top \in LoopStates /\ Attends(top) /\ Sound(loops)
      /\ (top.with \cup top.ready) \cap Below(loops) = {}
  BY TopFacts DEF IInv
<1>3. top.with = {}
  BY <1>1, <1>2 DEF Attends
<1>4. Taken(loops) = Below(loops)
  BY <1>1 DEF Taken, top
<1>5. Sound(loops') /\ Below(loops') = Below(loops) /\ Taken(loops') = Below(loops)
  <2>1. CASE loops' = WithTop([top EXCEPT !.at = "select"])
    <3> DEFINE l == [top EXCEPT !.at = "select"]
    <3>1. /\ l \in LoopStates /\ l.what = top.what /\ l.of = top.of
          /\ l.at = "select" /\ l.with = {} /\ l.ready = top.ready
      BY <1>2, <1>3 DEF LoopStates
    <3>2. loops' = WithTop(l)
      BY <2>1
    <3> HIDE DEF l
    <3>3. Attends(l)
      BY <3>1 DEF Attends
    <3>4. QED
      BY <1>2, <3>1, <3>2, <3>3, TopGoes
  <2>2. CASE \E i \in 1..Len(selects) :
               /\ selects[i] \in top.ready
               /\ loops' = WithTop([top EXCEPT !.at = "routine", !.with = {selects[i]},
                                               !.ready = @ \ {selects[i]}])
    <3>1. PICK t \in top.ready :
            loops' = WithTop([top EXCEPT !.at = "routine", !.with = {t}, !.ready = @ \ {t}])
      BY <2>2
    <3> DEFINE l == [top EXCEPT !.at = "routine", !.with = {t}, !.ready = @ \ {t}]
    <3>2. /\ l \in LoopStates /\ l.what = top.what /\ l.of = top.of
          /\ l.at = "routine" /\ l.with = {t} /\ l.ready = top.ready \ {t}
      BY <1>2 DEF LoopStates
    <3>3. loops' = WithTop(l)
      BY <3>1
    <3> HIDE DEF l
    <3>4. t \in Tasks
      BY <1>2 DEF LoopStates
    <3>5. Attends(l)
      BY <3>2, <3>4 DEF Attends
    <3>6. QED
      BY <1>2, <3>2, <3>3, <3>5, TopGoes
  <2>3. QED
    BY <2>1, <2>2 DEF Check
<1>6. QED
  BY <1>1, <1>4, <1>5, LoopsMove DEF IInv, Typed

LEMMA ReadRoutineKeeps ==
  ASSUME IInv, ReadRoutine
  PROVE  IInv'
<1>1. PICK t \in top.with : comm[t] # <<>> /\ comm' = [comm EXCEPT ![t] = Tail(@)]
  BY DEF ReadRoutine
<1> DEFINE l == [top EXCEPT !.at = "args"]
<1>2. /\ top.at = "routine" /\ loops' = WithTop(l)
      /\ UNCHANGED <<child, back, taskList, selects>>
  BY DEF ReadRoutine
<1>3. /\ top \in LoopStates /\ Attends(top) /\ Sound(loops)
      /\ (top.with \cup top.ready) \cap Below(loops) = {}
  BY TopFacts DEF IInv
<1>4. t \in Tasks /\ top.with = {t} /\ t \notin Below(loops)
  BY <1>1, <1>2, <1>3 DEF Attends
<1>5. /\ l \in LoopStates /\ l.what = top.what /\ l.of = top.of
      /\ l.at = "args" /\ l.with = {t} /\ l.ready = top.ready
  BY <1>3, <1>4 DEF LoopStates
<1> HIDE DEF l
<1>6. Attends(l)
  BY <1>4, <1>5 DEF Attends
<1>7. Sound(loops') /\ Below(loops') = Below(loops) /\ Taken(loops') = Below(loops) \cup {t}
  BY <1>2, <1>3, <1>4, <1>5, <1>6, TopGoes
<1>8. Taken(loops) = Below(loops)
  BY <1>2 DEF Taken, top
<1>9. Typed'
  <2>1. comm[t] \in Seq(Requests \cup {"routine"})
    BY <1>4 DEF IInv, Typed
  <2>2. Tail(comm[t]) \in Seq(Requests \cup {"routine"})
    BY <1>1, <2>1
  <2>3. comm' \in [Tasks -> Seq(Requests \cup {"routine"})]
    BY <1>1, <2>2 DEF IInv, Typed
  <2>4. QED
    BY <1>2, <2>3 DEF IInv, Typed
<1>10. InStep(t)'
  <2>1. InStep(t) /\ comm'[t] = Tail(comm[t])
    BY <1>1, <1>4 DEF IInv, Typed
  <2>2. /\ child[t].does \in {"writes", "waits", "dead"} \/ child[t].does \notin Doing
        /\ back[t] = <<>>
        /\ comm[t] = <<"routine">> \/ \E k \in Requests : comm[t] = <<"routine", k>>
        /\ child[t].does = "writes" => comm[t] = <<"routine">>
    BY <1>1, <1>4, <1>8, <2>1 DEF InStep, Doing
  <2>3. comm[t] = <<"routine">> => comm'[t] = <<>>
    BY <2>1
  <2>4. ASSUME NEW k \in Requests, comm[t] = <<"routine", k>>
        PROVE  comm'[t] = <<k>>
    BY <2>1, <2>4
  <2>5. t \in Taken(loops') /\ t \notin Below(loops')
    BY <1>4, <1>7
  <2>6. child[t].does \in Doing
    BY <1>4 DEF IInv, Typed, Children
  <2>7. QED
    BY <1>2, <2>1, <2>2, <2>3, <2>4, <2>5, <2>6 DEF InStep
<1>11. ASSUME NEW u \in Tasks, u # t
       PROVE  InStep(u)'
  <2>1. comm'[u] = comm[u]
    BY <1>1, <1>11 DEF IInv, Typed
  <2>2. (u \in Taken(loops') <=> u \in Taken(loops)) /\ Below(loops') = Below(loops)
    BY <1>7, <1>8, <1>11
  <2>3. QED
    BY <1>2, <2>1, <2>2, StaysInStep DEF IInv
<1>12. QED
  BY <1>7, <1>9, <1>10, <1>11 DEF IInv

\* What ReadArgs finds: the rest of the request of the child the top loop attends to.
LEMMA ReadArgsFacts ==
  ASSUME IInv, NEW t \in top.with, top.at = "args", comm[t] # <<>>
  PROVE  /\ t \in Tasks /\ top.with = {t} /\ t \notin Below(loops)
         /\ Taken(loops) = Below(loops) \cup {t}
         /\ child[t].does \in {"waits", "dead"} /\ back[t] = <<>>
         /\ Tail(comm[t]) = <<>>
<1>1. /\ top \in LoopStates /\ Attends(top) /\ Sound(loops)
      /\ (top.with \cup top.ready) \cap Below(loops) = {}
  BY TopFacts DEF IInv
<1>2. t \in Tasks /\ top.with = {t} /\ t \notin Below(loops)
  BY <1>1 DEF Attends
<1>3. Taken(loops) = Below(loops) \cup {t}
  BY <1>2 DEF Taken, top
<1>4. InStep(t) /\ child[t].does \in Doing
  BY <1>2 DEF IInv, Typed, Children
<1>5. /\ child[t].does \in {"waits", "dead"} /\ back[t] = <<>>
      /\ \E k \in Requests : comm[t] = <<k>>
  BY <1>3, <1>4 DEF InStep, Doing
<1>6. QED
  BY <1>2, <1>3, <1>5

\* The types after the rest was read, and the children that it does not concern.
LEMMA ReadArgsRest ==
  ASSUME IInv, NEW t \in Tasks, Tail(comm[t]) = <<>>, comm' = [comm EXCEPT ![t] = Tail(@)],
         UNCHANGED child, Sound(loops'), back' = [back EXCEPT ![t] = back'[t]],
         back'[t] \in Seq(Tasks), taskList' \in Seq(Tasks), selects' \in Seq(Tasks),
         \A u \in Tasks \ {t} : u \in Taken(loops') <=> u \in Taken(loops),
         \A u \in Tasks \ {t} : u \in Below(loops') => u \in Below(loops),
         InStep(t)'
  PROVE  IInv'
<1>1. comm' \in [Tasks -> Seq(Requests \cup {"routine"})]
  <2>1. <<>> \in Seq(Requests \cup {"routine"})
    OBVIOUS
  <2>2. comm' = [comm EXCEPT ![t] = <<>>]
    OBVIOUS
  <2>3. QED
    BY <2>1, <2>2 DEF IInv, Typed
<1>2. back' \in [Tasks -> Seq(Tasks)]
  BY DEF IInv, Typed
<1>3. ASSUME NEW u \in Tasks, u # t
      PROVE  InStep(u)'
  <2>1. comm'[u] = comm[u] /\ back'[u] = back[u]
    BY <1>3 DEF IInv, Typed
  <2>2. QED
    BY <1>3, <2>1, StaysInStep DEF IInv
<1>4. QED
  BY <1>1, <1>2, <1>3 DEF IInv, Typed

LEMMA ReadArgsKeeps ==
  ASSUME IInv, ReadArgs
  PROVE  IInv'
<1> DEFINE done == [top EXCEPT !.at = "check", !.with = {}]
<1>1. PICK t \in top.with :
        /\ top.at = "args" /\ comm[t] # <<>>
        /\ comm' = [comm EXCEPT ![t] = Tail(@)] /\ UNCHANGED child
        /\ \/ /\ Head(comm[t]) = "quiet" /\ Answer(t) /\ loops' = WithTop(done)
              /\ UNCHANGED <<taskList, selects>>
           \/ /\ Head(comm[t]) = "bye" /\ Unregister(t) /\ Answer(t) /\ loops' = WithTop(done)
           \/ /\ Head(comm[t]) = "ask" /\ loops' = Push(top, Loop("query", {t}, {}))
              /\ UNCHANGED <<back, taskList, selects>>
           \/ /\ Head(comm[t]) = "error" /\ loops' = Push(done, Loop("failed", {}, {}))
              /\ UNCHANGED <<back, taskList, selects>>
  BY DEF ReadArgs
<1>2. /\ t \in Tasks /\ top.with = {t} /\ t \notin Below(loops)
      /\ Taken(loops) = Below(loops) \cup {t}
      /\ child[t].does \in {"waits", "dead"} /\ back[t] = <<>>
      /\ Tail(comm[t]) = <<>>
  BY <1>1, ReadArgsFacts
<1>3. /\ top \in LoopStates /\ Attends(top) /\ Sound(loops)
      /\ (top.with \cup top.ready) \cap Below(loops) = {}
  BY TopFacts DEF IInv
<1>4. /\ done \in LoopStates /\ done.what = top.what /\ done.of = top.of
      /\ done.at = "check" /\ done.with = {} /\ done.ready = top.ready
  BY <1>3 DEF LoopStates
<1>5. Attends(done)
  BY <1>4 DEF Attends
<1> HIDE DEF done
<1>6. comm'[t] = <<>> /\ InStep(t) /\ comm' = [comm EXCEPT ![t] = Tail(@)] /\ UNCHANGED child
  BY <1>1, <1>2 DEF IInv, Typed
<1>7. ASSUME Answer(t), loops' = WithTop(done), taskList' \in Seq(Tasks), selects' \in Seq(Tasks)
      PROVE  IInv'
  <2>1. Sound(loops') /\ Below(loops') = Below(loops) /\ Taken(loops') = Below(loops)
    BY <1>3, <1>4, <1>5, <1>7, TopGoes
  <2>2. back' = [back EXCEPT ![t] = Append(@, t)]
    BY <1>7 DEF Answer
  <2>3. back'[t] = Append(back[t], t) /\ back'[t] \in Seq(Tasks)
    BY <1>2, <2>2 DEF IInv, Typed
  <2>4. back' = [back EXCEPT ![t] = back'[t]]
    BY <1>2, <2>2, <2>3 DEF IInv, Typed
  <2>5. InStep(t)'
    BY <1>2, <1>6, <2>1, <2>3, AnsweredInStep
  <2>6. QED
    BY <1>2, <1>6, <1>7, <2>1, <2>3, <2>4, <2>5, ReadArgsRest
<1>8. taskList \in Seq(Tasks) /\ selects \in Seq(Tasks)
  BY DEF IInv, Typed
<1>9. CASE Answer(t) /\ loops' = WithTop(done) /\ UNCHANGED <<taskList, selects>>
  BY <1>7, <1>8, <1>9
<1>10. CASE Unregister(t) /\ Answer(t) /\ loops' = WithTop(done)
  <2>1. taskList' \in Seq(Tasks) /\ selects' \in Seq(Tasks)
    BY <1>8, <1>10, WithoutType DEF Unregister
  <2>2. QED
    BY <1>7, <1>10, <2>1
<1>11. CASE loops' = Push(top, Loop("query", {t}, {})) /\ UNCHANGED <<back, taskList, selects>>
  <2> DEFINE l == Loop("query", {t}, {})
  <2>1. /\ l \in LoopStates /\ l.what = "query" /\ l.of = {t} /\ l.at = "select"
        /\ l.with = {} /\ l.ready = {}
    BY <1>2 DEF Loop, LoopStates
  <2>2. Attends(l)
    BY <2>1 DEF Attends
  <2>3. WithTop(top) = loops
    BY TopFacts DEF WithTop, top, IInv
  <2>4. loops' = Over(loops, l)
    BY <1>11, <2>3 DEF Push, Over
  <2> HIDE DEF l
  <2>5. /\ Sound(loops') /\ Below(loops') = Below(loops) \cup {t}
        /\ loops'[Len(loops')] = l
    <3>1. loops[Len(loops)].at = "args" /\ loops[Len(loops)].with = {t}
      BY <1>1, <1>2 DEF top
    <3>2. /\ loops[Len(loops)].at # "routine"
          /\ loops[Len(loops)].at = "args" <=> l.what = "query"
          /\ l.what = "query" => l.of = loops[Len(loops)].with
      BY <2>1, <3>1
    <3>3. /\ Sound(loops') /\ Below(loops') = Below(loops) \cup loops[Len(loops)].with
          /\ loops'[Len(loops')] = l
      BY <1>3, <2>1, <2>2, <2>4, <3>2, LoopAdded
    <3>4. QED
      BY <3>1, <3>3
  <2>6. Taken(loops') = Below(loops) \cup {t}
    BY <2>1, <2>5 DEF Taken
  <2>7. back'[t] = <<>>
    BY <1>2, <1>11
  <2>8. InStep(t)'
    BY <1>2, <1>6, <2>5, <2>6, <2>7 DEF InStep
  <2>9. back' = [back EXCEPT ![t] = back'[t]] /\ back'[t] \in Seq(Tasks)
    BY <1>2, <1>11, <2>7 DEF IInv, Typed
  <2>10. taskList' \in Seq(Tasks) /\ selects' \in Seq(Tasks)
    BY <1>8, <1>11
  <2>11. \A u \in Tasks \ {t} : (u \in Taken(loops') <=> u \in Taken(loops))
                                /\ (u \in Below(loops') => u \in Below(loops))
    BY <1>2, <2>5, <2>6
  <2>12. QED
    BY <1>2, <1>6, <2>5, <2>8, <2>9, <2>10, <2>11, ReadArgsRest
<1>12. CASE loops' = Push(done, Loop("failed", {}, {})) /\ UNCHANGED <<back, taskList, selects>>
  <2> DEFINE l == Loop("failed", {}, {})
             ms == WithTop(done)
  <2>1. /\ l \in LoopStates /\ l.what = "failed" /\ l.at = "select"
        /\ l.with = {} /\ l.ready = {}
    BY DEF Loop, LoopStates
  <2>2. Attends(l)
    BY <2>1 DEF Attends
  <2>3. loops' = Over(ms, l)
    BY <1>12 DEF Push, Over
  <2>4. Sound(ms) /\ Below(ms) = Below(loops) /\ ms[Len(ms)] = done
    <3>1. ms = OnTop(loops, done)
      BY DEF WithTop, OnTop
    <3>2. done.what = loops[Len(loops)].what /\ done.of = loops[Len(loops)].of
      BY <1>4 DEF top
    <3>3. (done.with \cup done.ready) \cap Below(loops) = {}
      BY <1>3, <1>4
    <3> HIDE DEF ms
    <3>4. QED
      BY <1>3, <1>4, <1>5, <3>1, <3>2, <3>3, TopChanged
  <2> HIDE DEF l, ms
  <2>5. Sound(loops') /\ Below(loops') = Below(loops) /\ loops'[Len(loops')] = l
    BY <1>4, <2>1, <2>2, <2>3, <2>4, LoopAdded
  <2>6. Taken(loops') = Below(loops)
    BY <2>1, <2>5 DEF Taken
  <2>7. back'[t] = <<>>
    BY <1>2, <1>12
  <2>8. InStep(t)'
    BY <1>2, <1>6, <2>5, <2>6, <2>7 DEF InStep
  <2>9. back' = [back EXCEPT ![t] = back'[t]] /\ back'[t] \in Seq(Tasks)
    BY <1>2, <1>12, <2>7 DEF IInv, Typed
  <2>10. taskList' \in Seq(Tasks) /\ selects' \in Seq(Tasks)
    BY <1>8, <1>12
  <2>11. \A u \in Tasks \ {t} : (u \in Taken(loops') <=> u \in Taken(loops))
                                /\ (u \in Below(loops') => u \in Below(loops))
    BY <1>2, <2>5, <2>6
  <2>12. QED
    BY <1>2, <1>6, <2>5, <2>8, <2>9, <2>10, <2>11, ReadArgsRest
<1>13. QED
  BY <1>1, <1>9, <1>10, <1>11, <1>12

LEMMA AppendBelow ==
  ASSUME NEW S, NEW s \in Seq(S), Len(s) >= 2, NEW x \in S
  PROVE  Append(SubSeq(s, 1, Len(s) - 2), x) = OnTop(Under(s), x)
<1> DEFINE n == Len(s)
           a == Append(SubSeq(s, 1, n - 2), x)
           b == Under(s)
           c == OnTop(b, x)
<1>1. n \in Nat /\ n >= 2
  OBVIOUS
<1>2. /\ SubSeq(s, 1, n - 2) \in Seq(S) /\ Len(SubSeq(s, 1, n - 2)) = n - 2
      /\ \A i \in 1..(n - 2) : SubSeq(s, 1, n - 2)[i] = s[i]
  <2>1. \A i \in 1..(n - 2) : s[i] \in S
    BY <1>1
  <2>2. /\ SubSeq(s, 1, n - 2) \in Seq(S)
        /\ Len(SubSeq(s, 1, n - 2)) = IF 1 <= n - 2 THEN (n - 2) - 1 + 1 ELSE 0
        /\ \A i \in 1..((n - 2) - 1 + 1) : SubSeq(s, 1, n - 2)[i] = s[1 + i - 1]
    BY <1>1, <2>1, SubSeqProperties
  <2>3. \A k \in Nat : k >= 2 => /\ (k - 2) - 1 + 1 = k - 2
                                /\ (IF 1 <= k - 2 THEN (k - 2) - 1 + 1 ELSE 0) = k - 2
    OBVIOUS
  <2>4. \A i \in 1..(n - 2) : 1 + i - 1 = i
    OBVIOUS
  <2>5. QED
    BY <1>1, <2>2, <2>3, <2>4
<1>3. b \in Seq(S) /\ Len(b) = n - 1 /\ \A i \in 1..(n - 1) : b[i] = s[i]
  BY <1>1 DEF Under
<1>4. a \in Seq(S) /\ Len(a) = n - 1 /\ a[n - 1] = x /\ \A i \in 1..(n - 2) : a[i] = s[i]
  BY <1>1, <1>2, AppendProperties
<1> HIDE DEF a, b
<1>5. c \in Seq(S) /\ Len(c) = n - 1 /\ c[n - 1] = x /\ \A i \in 1..(n - 2) : c[i] = s[i]
  BY <1>1, <1>3, TopSet DEF OnTop
<1> HIDE DEF c
<1>6. \A i \in 1..Len(a) : a[i] = c[i]
  <2>1. ASSUME NEW i \in 1..(n - 1)
        PROVE  a[i] = c[i]
    <3>1. i = n - 1 \/ i \in 1..(n - 2)
      BY <1>1
    <3>2. QED
      BY <1>4, <1>5, <3>1
  <2>2. QED
    BY <1>4, <2>1
<1>7. a = c
  BY <1>4, <1>5, <1>6, SeqEqual
<1>8. QED
  BY <1>7 DEF a, b, c

\* A dialog, or the box of jobs, is over a loop.
LEMMA DialogsLie ==
  ASSUME Sound(loops), top.what # "main"
  PROVE  Len(loops) >= 2
<1>1. Len(loops) \in Nat /\ Len(loops) >= 1 /\ loops[1].what = "main"
  BY TopFacts DEF Sound, Nested
<1>2. Len(loops) # 1
  BY <1>1 DEF top
<1>3. \A k \in Nat : k >= 1 /\ k # 1 => k >= 2
  OBVIOUS
<1>4. QED
  BY <1>1, <1>2, <1>3

\* Leaving a loop that was not the dialog of a request.
LEMMA LoopLeft ==
  ASSUME IInv, top.what \in {"jobs", "failed"}, top.at = "select",
         loops' = Under(loops),
         UNCHANGED <<child, comm, back, taskList, selects>>
  PROVE  IInv'
<1> DEFINE n == Len(loops)
<1>1. Sound(loops) /\ n >= 2 /\ n \in Nat
  BY TopFacts, DialogsLie DEF IInv
<1>2. /\ Sound(loops') /\ Below(loops) = Below(loops') \cup loops[n - 1].with
      /\ loops'[Len(loops')] = loops[n - 1]
  BY <1>1, LoopEnded
<1>3. loops[n - 1].at \notin {"routine", "args"} /\ Attends(loops[n - 1])
  <2>1. n - 1 \in 1..(n - 1) /\ n - 1 \in 1..n /\ (n - 1) + 1 = n
    BY <1>1
  <2>2. loops[n].what # "query"
    BY DEF top
  <2>3. QED
    BY <1>1, <2>1, <2>2 DEF Sound, Nested
<1>4. loops[n - 1].with = {}
  BY <1>3 DEF Attends
<1>5. Taken(loops) = Below(loops)
  BY DEF Taken, top
<1>6. Taken(loops') = Below(loops')
  BY <1>2, <1>3 DEF Taken
<1>7. QED
  BY <1>2, <1>4, <1>5, <1>6, LoopsMove DEF IInv, Typed

LEMMA ReplyKeeps ==
  ASSUME IInv, Reply
  PROVE  IInv'
<1> DEFINE n == Len(loops)
           below == loops[n - 1]
           ms == Under(loops)
           l == [below EXCEPT !.at = "check", !.with = {}]
<1>1. /\ top.at = "select" /\ UNCHANGED <<child, comm, taskList, selects>>
      /\ \/ /\ top.what = "query" /\ \E t \in top.of : Answer(t)
            /\ loops' = Append(SubSeq(loops, 1, n - 2), l)
         \/ /\ top.what = "failed" /\ UNCHANGED back
            /\ loops' = Append(SubSeq(loops, 1, n - 2), below)
  BY DEF Reply
<1>2. Sound(loops) /\ n >= 2 /\ n \in Nat /\ loops \in Seq(LoopStates)
  BY <1>1, TopFacts, DialogsLie DEF IInv
<1>3. below \in LoopStates /\ n - 1 \in 1..(n - 1) /\ n - 1 \in 1..n /\ (n - 1) + 1 = n
  BY <1>2
<1>4. /\ Sound(ms) /\ Below(loops) = Below(ms) \cup below.with
      /\ Len(ms) = n - 1 /\ ms[Len(ms)] = below /\ below.with \cap Below(ms) = {}
  BY <1>2, LoopEnded
<1>5. (below.with \cup below.ready) \cap Below(ms) = {}
  BY <1>4, LastFacts
<1>6. Taken(loops) = Below(loops)
  BY <1>1 DEF Taken, top
<1>7. CASE top.what = "failed" /\ UNCHANGED back /\ loops' = Append(SubSeq(loops, 1, n - 2), below)
  <2>1. loops' = OnTop(ms, below)
    BY <1>2, <1>3, <1>7, AppendBelow
  <2> HIDE DEF ms, below, l
  <2>2. OnTop(ms, below) = ms
    BY <1>4 DEF OnTop, Sound
  <2>3. loops' = Under(loops)
    BY <2>1, <2>2 DEF ms
  <2>4. QED
    BY <1>1, <1>7, <2>3, LoopLeft
<1>8. CASE /\ top.what = "query" /\ \E t \in top.of : Answer(t)
           /\ loops' = Append(SubSeq(loops, 1, n - 2), l)
  <2>1. PICK t \in top.of : Answer(t)
    BY <1>8
  <2>2. below.at = "args" /\ below.with = top.of /\ Attends(below)
    <3>1. loops[n].what = "query"
      BY <1>8 DEF top
    <3>2. QED
      BY <1>2, <1>3, <3>1 DEF Sound, Nested, top
  <2>3. t \in Tasks /\ below.with = {t}
    BY <2>1, <2>2 DEF Attends
  <2>4. /\ l \in LoopStates /\ l.what = below.what /\ l.of = below.of
        /\ l.at = "check" /\ l.with = {} /\ l.ready = below.ready
    BY <1>3 DEF LoopStates
  <2>5. loops' = OnTop(ms, l)
    BY <1>2, <1>8, <2>4, AppendBelow
  <2> HIDE DEF l, ms, below
  <2>6. Attends(l)
    BY <2>4 DEF Attends
  <2>7. Sound(loops') /\ Below(loops') = Below(ms) /\ loops'[Len(loops')] = l
    <3>1. l.what = ms[Len(ms)].what /\ l.of = ms[Len(ms)].of
      BY <1>4, <2>4
    <3>2. (l.with \cup l.ready) \cap Below(ms) = {}
      BY <1>5, <2>4
    <3>3. QED
      BY <1>4, <2>4, <2>5, <2>6, <3>1, <3>2, TopChanged
  <2>8. Taken(loops') = Below(ms)
    BY <2>4, <2>7 DEF Taken
  <2>9. Below(loops) = Below(ms) \cup {t} /\ t \notin Below(ms)
    BY <1>4, <2>3
  <2>10. InStep(t) /\ t \in Below(loops) /\ t \in Taken(loops)
    BY <1>6, <2>3, <2>9 DEF IInv
  <2>11. child[t].does \in {"waits", "dead"} /\ comm[t] = <<>>
    BY <2>10 DEF InStep
  <2>12. back' = [back EXCEPT ![t] = Append(@, t)]
    BY <2>1 DEF Answer
  <2>13. back'[t] = Append(back[t], t) /\ back' \in [Tasks -> Seq(Tasks)]
    BY <2>3, <2>12 DEF IInv, Typed
  <2>14. InStep(t)'
    BY <1>1, <2>3, <2>8, <2>9, <2>10, <2>11, <2>13, AnsweredInStep
  <2>15. ASSUME NEW u \in Tasks, u # t
         PROVE  InStep(u)'
    <3>1. back'[u] = back[u]
      BY <2>12, <2>15 DEF IInv, Typed
    <3>2. (u \in Taken(loops') <=> u \in Taken(loops)) /\ (u \in Below(loops') => u \in Below(loops))
      BY <1>6, <2>7, <2>8, <2>9, <2>15
    <3>3. QED
      BY <1>1, <3>1, <3>2, StaysInStep DEF IInv
  <2>16. QED
    BY <1>1, <2>7, <2>13, <2>14, <2>15 DEF IInv, Typed
<1>9. QED
  BY <1>1, <1>7, <1>8

\* The box of jobs shows another list.
LEMMA RefillMoves ==
  ASSUME IInv, NEW tl \in Seq(Tasks), Refill(tl)
  PROVE  Sound(loops') /\ Below(loops') = Below(loops) /\ Taken(loops') = Taken(loops)
<1> DEFINE l == [top EXCEPT !.items = Listed(tl)]
<1>1. /\ top \in LoopStates /\ Attends(top) /\ Sound(loops)
      /\ (top.with \cup top.ready) \cap Below(loops) = {}
  BY TopFacts DEF IInv
<1>2. Listed(tl) \subseteq Tasks /\ loops' = WithTop(l)
  BY DEF Listed, Refill
<1>3. /\ l \in LoopStates /\ l.what = top.what /\ l.of = top.of
      /\ l.at = top.at /\ l.with = top.with /\ l.ready = top.ready
  BY <1>1, <1>2 DEF LoopStates
<1> HIDE DEF l
<1>4. Attends(l)
  BY <1>1, <1>3 DEF Attends
<1>5. /\ Sound(loops') /\ Below(loops') = Below(loops)
      /\ Taken(loops') = Below(loops) \cup (IF l.at = "args" THEN l.with ELSE {})
  BY <1>1, <1>2, <1>3, <1>4, TopGoes
<1>6. QED
  BY <1>3, <1>5 DEF Taken, top

LEMMA StartKeeps ==
  ASSUME BackgroundConstants, IInv, NEW t \in Tasks, Start(t)
  PROVE  IInv'
<1>1. /\ child[t].does = "unborn" /\ child' = [child EXCEPT ![t].does = "works"]
      /\ taskList' = <<t>> \o taskList /\ selects' = <<t>> \o selects
      /\ UNCHANGED <<comm, back, loops>>
  BY DEF Start
<1>2. child[t] \in Children /\ child'[t] = [child[t] EXCEPT !.does = "works"]
  BY <1>1 DEF IInv, Typed
<1>3. /\ child'[t] \in Children /\ child'[t].does = "works"
      /\ child'[t].asks = child[t].asks
  BY <1>2 DEF Children, Doing
<1>4. Typed'
  <2>1. child' \in [Tasks -> Children]
    BY <1>1, <1>3 DEF IInv, Typed
  <2>2. <<t>> \in Seq(Tasks)
    OBVIOUS
  <2>3. taskList' \in Seq(Tasks) /\ selects' \in Seq(Tasks)
    BY <1>1, <2>2 DEF IInv, Typed
  <2>4. QED
    BY <1>1, <2>1, <2>3 DEF IInv, Typed
<1>5. InStep(t)'
  <2>1. InStep(t) /\ Taken(loops') = Taken(loops) /\ Below(loops') = Below(loops)
    BY <1>1 DEF IInv
  <2>2. QED
    BY <1>1, <1>3, <2>1 DEF InStep
<1>6. ASSUME NEW u \in Tasks, u # t
      PROVE  InStep(u)'
  <2>1. child'[u] = child[u]
    BY <1>1, <1>6 DEF IInv, Typed
  <2>2. QED
    BY <2>1, <1>1, StaysInStep DEF IInv
<1>7. QED
  BY <1>1, <1>4, <1>5, <1>6 DEF IInv

LEMMA OpenJobsKeeps ==
  ASSUME IInv, OpenJobs
  PROVE  IInv'
<1> DEFINE l == Loop("jobs", {}, Listed(taskList))
<1>1. /\ top.at = "select" /\ loops' = Over(loops, l)
      /\ UNCHANGED <<child, comm, back, taskList, selects>>
  BY DEF OpenJobs, Over
<1>2. /\ l \in LoopStates /\ l.what = "jobs" /\ l.at = "select"
      /\ l.with = {} /\ l.ready = {}
  BY DEF Loop, LoopStates, Listed, IInv, Typed
<1> HIDE DEF l
<1>3. Attends(l)
  BY <1>2 DEF Attends
<1>4. Sound(loops) /\ loops[Len(loops)].at = "select" /\ loops[Len(loops)].with = {}
  BY <1>1, TopFacts DEF IInv, Attends, top
<1>5. /\ Sound(loops') /\ Below(loops') = Below(loops) \cup loops[Len(loops)].with
      /\ loops'[Len(loops')] = l
  BY <1>1, <1>2, <1>3, <1>4, LoopAdded
<1>6. Below(loops') = Below(loops) /\ Taken(loops') = Taken(loops)
  BY <1>2, <1>4, <1>5 DEF Taken
<1>7. QED
  BY <1>1, <1>5, <1>6, LoopsMove DEF IInv, Typed

LEMMA CloseJobsKeeps ==
  ASSUME IInv, CloseJobs
  PROVE  IInv'
BY LoopLeft DEF CloseJobs, Under

\* Stop and Resume.
LEMMA StoppedKeeps ==
  ASSUME IInv, NEW t \in Tasks, NEW b \in BOOLEAN,
         child' = [child EXCEPT ![t].stopped = b], Refill(taskList),
         UNCHANGED <<comm, back, taskList, selects>>
  PROVE  IInv'
<1>1. Sound(loops') /\ Below(loops') = Below(loops) /\ Taken(loops') = Taken(loops)
  BY RefillMoves DEF IInv, Typed
<1>2. child[t] \in Children /\ child'[t] = [child[t] EXCEPT !.stopped = b]
  BY DEF IInv, Typed
<1>3. /\ child'[t] \in Children /\ child'[t].does = child[t].does
      /\ child'[t].asks = child[t].asks /\ child'[t].kind = child[t].kind
  BY <1>2 DEF Children
<1>4. Typed'
  BY <1>3 DEF IInv, Typed
<1>5. ASSUME NEW u \in Tasks
      PROVE  InStep(u)'
  <2>1. u # t => child'[u] = child[u]
    BY DEF IInv, Typed
  <2>2. /\ child'[u].does = child[u].does /\ child'[u].asks = child[u].asks
        /\ child'[u].kind = child[u].kind
    BY <1>3, <2>1
  <2>3. QED
    BY <1>1, <2>2, StaysInStep DEF IInv
<1>6. QED
  BY <1>1, <1>4, <1>5 DEF IInv

LEMMA KillKeeps ==
  ASSUME IInv, NEW t \in Tasks, Kill(t)
  PROVE  IInv'
<1>1. /\ child' = [child EXCEPT ![t].does = "dead"] /\ Unregister(t)
      /\ Refill(taskList') /\ UNCHANGED <<comm, back>>
  BY DEF Kill, Chosen
<1>2. taskList' \in Seq(Tasks) /\ selects' \in Seq(Tasks)
  BY <1>1, WithoutType DEF Unregister, IInv, Typed
<1>3. Sound(loops') /\ Below(loops') = Below(loops) /\ Taken(loops') = Taken(loops)
  BY <1>1, <1>2, RefillMoves
<1>4. child[t] \in Children /\ child'[t] = [child[t] EXCEPT !.does = "dead"]
  BY <1>1 DEF IInv, Typed
<1>5. child'[t] \in Children /\ child'[t].does = "dead"
  BY <1>4 DEF Children, Doing
<1>6. Typed'
  BY <1>1, <1>2, <1>5 DEF IInv, Typed
<1>7. InStep(t)'
  BY <1>1, <1>3, <1>5, DeadInStep DEF IInv
<1>8. ASSUME NEW u \in Tasks, u # t
      PROVE  InStep(u)'
  <2>1. child'[u] = child[u]
    BY <1>1, <1>8 DEF IInv, Typed
  <2>2. QED
    BY <2>1, <1>1, <1>3, StaysInStep DEF IInv
<1>9. QED
  BY <1>3, <1>6, <1>7, <1>8 DEF IInv

-----------------------------------------------------------------------------
(* The theorems.                                                           *)

LEMMA InitHolds ==
  ASSUME BackgroundConstants, BackgroundInit
  PROVE  IInv
<1>1. Typed
  BY DEF BackgroundInit, Typed, Children, Doing, BackgroundConstants
<1> DEFINE l == Loop("main", {}, {})
<1>2. l \in LoopStates /\ l.what = "main" /\ l.at = "select" /\ l.with = {}
  BY DEF Loop, LoopStates
<1>3. loops = <<l>>
  BY DEF BackgroundInit
<1> HIDE DEF l
<1>4. loops \in Seq(LoopStates) /\ Len(loops) = 1 /\ loops[1] = l
  BY <1>2, <1>3
<1>5. Sound(loops)
  BY <1>2, <1>4 DEF Sound, Attends, Nested, Apart
<1>6. Below(loops) = {} /\ Taken(loops) = {}
  BY <1>2, <1>4 DEF Below, Taken
<1>7. ASSUME NEW t \in Tasks
      PROVE  InStep(t)
  <2>1. /\ child[t].does = "unborn" /\ comm[t] = <<>> /\ back[t] = <<>>
        /\ child[t].asks <= MaxAsks
    BY DEF BackgroundInit, BackgroundConstants
  <2>2. QED
    BY <1>6, <2>1 DEF InStep
<1>8. QED
  BY <1>1, <1>5, <1>7 DEF IInv

LEMMA StepKeeps ==
  ASSUME BackgroundConstants, IInv, [BackgroundNext]_backgroundVars
  PROVE  IInv'
<1>1. ASSUME NEW t \in Tasks, ChildStep(t)
      PROVE  IInv'
  BY <1>1, CallKeeps, CallArgsKeeps, ResultKeeps DEF ChildStep
<1>2. ASSUME NEW t \in Tasks, Dies(t)
      PROVE  IInv'
  BY <1>2, DiesKeeps
<1>3. CASE Serve
  BY <1>3, SelectKeeps, CheckKeeps, ReadRoutineKeeps, ReadArgsKeeps DEF Serve
<1>4. CASE Reply
  BY <1>4, ReplyKeeps
<1>5. ASSUME NEW t \in Tasks, Start(t)
      PROVE  IInv'
  BY <1>5, StartKeeps
<1>6. ASSUME NEW t \in Tasks, Stop(t)
      PROVE  IInv'
  BY <1>6, StoppedKeeps DEF Stop, Chosen
<1>7. ASSUME NEW t \in Tasks, Resume(t)
      PROVE  IInv'
  BY <1>7, StoppedKeeps DEF Resume, Chosen
<1>8. ASSUME NEW t \in Tasks, Kill(t)
      PROVE  IInv'
  BY <1>8, KillKeeps
<1>9. CASE OpenJobs
  BY <1>9, OpenJobsKeeps
<1>10. CASE CloseJobs
  BY <1>10, CloseJobsKeeps
<1>11. CASE UNCHANGED backgroundVars
  <2>1. UNCHANGED <<child, comm, back, taskList, selects, loops>>
    BY <1>11 DEF backgroundVars
  <2>2. ASSUME NEW t \in Tasks
        PROVE  InStep(t)'
    BY <2>1, StaysInStep DEF IInv
  <2>3. QED
    BY <2>1, <2>2 DEF IInv, Typed
<1>12. QED
  BY <1>1, <1>2, <1>3, <1>4, <1>5, <1>6, <1>7, <1>8, <1>9, <1>10, <1>11 DEF BackgroundNext

LEMMA Invariant ==
  ASSUME BackgroundConstants
  PROVE  BackgroundSpec => []IInv
<1>1. BackgroundInit => IInv
  BY InitHolds
<1>2. IInv /\ [BackgroundNext]_backgroundVars => IInv'
  BY StepKeeps
<1>3. QED
  BY <1>1, <1>2, PTL DEF BackgroundSpec

\* The variables keep their types.
THEOREM TypeCorrect ==
  ASSUME BackgroundConstants
  PROVE  BackgroundSpec => []BackgroundTypeOK
<1>1. IInv => BackgroundTypeOK
  <2> SUFFICES ASSUME IInv
               PROVE  BackgroundTypeOK
    OBVIOUS
  <2>1. Requests \cup {"routine"} = {"routine", "bye"} \cup Kinds
    BY DEF Requests
  <2>2. ASSUME NEW t \in Tasks
        PROVE  /\ child[t].does \in Doing /\ child[t].asks \in 0..MaxAsks + 1
               /\ child[t].stopped \in BOOLEAN
               /\ comm[t] \in Seq({"routine", "bye"} \cup Kinds) /\ back[t] \in Seq(Tasks)
    BY <2>1 DEF IInv, Typed, Children
  <2>3. ASSUME NEW i \in 1..Len(loops)
        PROVE  /\ loops[i].what \in {"main", "jobs", "query", "failed"}
               /\ loops[i].at \in {"select", "check", "routine", "args"}
               /\ loops[i].ready \subseteq Tasks /\ loops[i].items \subseteq Tasks
    <3>1. loops[i] \in LoopStates
      BY DEF IInv, Sound
    <3>2. QED
      BY <3>1 DEF LoopStates
  <2>4. QED
    BY <2>2, <2>3 DEF BackgroundTypeOK, IInv, Typed
<1>2. QED
  BY <1>1, Invariant, PTL

\* An answer reaches the child that asked for it, and only while it waits for it: of
\* background_attention, for any number of children, dialogs over each other, and
\* children that are stopped, killed or fail.
THEOREM AnswersAreOwn ==
  ASSUME BackgroundConstants
  PROVE  BackgroundSpec => []AnswerIsOwn
<1>1. IInv => AnswerIsOwn
  BY DEF IInv, InStep, AnswerIsOwn
<1>2. QED
  BY <1>1, Invariant, PTL
=============================================================================
