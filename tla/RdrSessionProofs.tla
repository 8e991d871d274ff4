-------------------------- MODULE RdrSessionProofs --------------------------
(***************************************************************************)
(* What RdrSession promises as long as no lapse is used, for any number of *)
(* clients, windows, files and documents: only a title or an unset pointer *)
(* ends the process (NoFault), no document is lost and none has two owners *)
(* (OwnedOnce), and the viewer shows what exists, under its name           *)
(* (MapFollowsWindows).                                                    *)
(*                                                                         *)
(* The argument: a document has one place (Owned), a window, a file or the *)
(* handler that waits behind the only message box there can be; so what    *)
(* a handler destroys is nobody else's, and what it left in the map when   *)
(* it put up the box is nothing (Seen).                                    *)
(***************************************************************************)
EXTENDS RdrSession, FiniteSetTheorems, WellFoundedInduction, TLAPS

-----------------------------------------------------------------------------
(* The inductive invariant.                                                *)

Some == Docs \cup {None}
Calls == [op : {"show", "destroy", "load", "begin", "end", "leave"}, client : Clients \cup {None},
          win : Wins \cup {None}, doc : Some, next : Wins \cup {None}, box : BOOLEAN,
          stale : {FALSE}]
States == [sess : [Clients -> {"off", "on", "over"}], has : SUBSET Wins,
           doc : [Wins -> Some], parser : [Wins -> Some], alive : SUBSET Docs, user : SUBSET Docs,
           map : [Names -> Some], dlg : {"none", "open", "closed"}, shown : Names \cup {None},
           view : Some, picker : SUBSET Names, stack : {<<>>} \cup {<<f>> : f \in Calls},
           fate : {"ok"}]

\* The document that the handler on the stack is about to destroy, or to give to a window.
Held(s) == IF s.stack = <<>> THEN None ELSE s.stack[1].doc

\* Where a document may be: with a window, a file or the handler.
Slots == Names \cup {None}
At(s, x) == IF x \in Wins THEN s.doc[x] ELSE IF x \in Files THEN s.map[x] ELSE Held(s)

\* Every document has one place, and what is there exists.
Owned(s) ==
    /\ \A x \in Slots : At(s, x) # None => At(s, x) \in s.alive
    /\ \A x, y \in Slots : x # y /\ At(s, x) # None => At(s, x) # At(s, y)
    /\ \A d \in s.alive : \E x \in Slots : At(s, x) = d

\* A window's documents are whole, or written to.
WholeAt(s, w) ==
    /\ s.doc[w] # None \/ s.parser[w] # None => w \in s.has
    /\ s.doc[w] # None /\ s.parser[w] = None => s.doc[w] \in s.user
    /\ s.map[w] # None => s.parser[w] = None /\ s.map[w] = s.doc[w]
    /\ s.parser[w] # None =>
         /\ s.parser[w] \in s.alive \ s.user
         /\ \/ s.doc[w] = s.parser[w]
            \/ /\ s.stack # <<>> /\ s.stack[1].op = "begin" /\ s.stack[1].win = w
               /\ s.stack[1].doc = s.parser[w]
FileWhole(s, f) == s.map[f] # None => s.map[f] \in s.user
Whole(s) ==
    /\ s.user \subseteq s.alive
    /\ \A f \in Files : FileWhole(s, f)
    /\ \A w \in Wins : WholeAt(s, w)

\* What the viewer shows is in the map.
Seen(s) ==
    /\ s.dlg = "open" => s.shown \in Names /\ s.map[s.shown] # None /\ s.view = s.map[s.shown]
    /\ s.dlg # "open" => \A f \in Files : s.map[f] = None
    /\ s.dlg = "closed" /\ s.stack # <<>> => Attached(s) = {}
    /\ s.picker # {} => s.dlg = "open" /\ s.stack = <<>> /\ s.picker \subseteq Attached(s)

\* The handler that waits, or removes a session.
Waits(s) ==
    s.stack # <<>> =>
      LET f == s.stack[1] IN
      /\ f.box /\ f.op # "show" => s.dlg = "closed" /\ f.doc # None
      /\ f.op = "show" \/ ~f.box => f.doc = None
      /\ f.op \in {"show", "destroy", "load", "begin"} => f.box
      /\ f.op \in {"load", "begin"} => f.win \in s.has
      /\ f.op = "load" => f.doc \notin s.user /\ s.parser[f.win] = None
      /\ f.op = "begin" => s.parser[f.win] = f.doc
      /\ f.op \in {"end", "leave"} => f.client \in Clients /\ f.next = Least(WinsOf(s, f.client))

SInv(s) == s \in States /\ Owned(s) /\ Whole(s) /\ Seen(s) /\ Waits(s)

\* What ends the process although no lapse was used, and the state it leaves behind.
AtOnce == {"title", "unset"}
Ended == rdr.fate # "ok" /\ TypeOK /\ NoFault

IInv == NoLapse => slips \subseteq AtOnce /\ (SInv(rdr) \/ Ended)

-----------------------------------------------------------------------------
(* The operators.                                                          *)

\* A set of numbers has a least one.
LEMMA LeastOf ==
  ASSUME NEW S \in SUBSET Nat, S # {}
  PROVE  Min(S) \in S /\ \A k \in S : Min(S) <= k
<1> DEFINE R == {r \in Nat \X Nat : r[1] < r[2]}
<1>1. IsWellFoundedOn(R, Nat)
  BY NatLessThanWellFounded DEF OpToRel
<1>2. PICK l \in S : \A k \in S : ~(<<k, l>> \in R)
  <2> HIDE DEF R
  <2> QED BY <1>1, WFMin
<1>3. \A k \in S : l \in Nat /\ k \in Nat /\ (<<k, l>> \in R <=> k < l)
  OBVIOUS
<1>4. ASSUME NEW k \in S
      PROVE  l <= k
  <2>1. l \in Nat /\ k \in Nat /\ ~(k < l)
    <3> HIDE DEF R
    <3> QED BY <1>2, <1>3
  <2> QED BY <2>1
<1>5. \E x \in S : \A y \in S : x <= y
  BY <1>4
<1> QED
  BY <1>5 DEF Min

\* The names of windows and of files are apart, and none is NULL.
LEMMA NamesAre ==
  ASSUME Constants
  PROVE  /\ Names \subseteq Nat /\ None \notin Names /\ None \notin Docs
         /\ \A f \in Files, w \in Wins : f # w
BY DEF Constants, Names

\* The stack of one handler.
LEMMA StackOps ==
  ASSUME NEW s \in States, NEW f
  PROVE  /\ s.stack = <<>> => Push(s, f) = [s EXCEPT !.stack = <<f>>]
         /\ s.stack # <<>> => /\ s.stack = <<Top(s)>> /\ Top(s) = s.stack[1] /\ Top(s) \in Calls
                              /\ Pop(s) = [s EXCEPT !.stack = <<>>]
                              /\ SetTop(s, f) = [s EXCEPT !.stack = <<f>>]
                              /\ DOMAIN s.stack = {1}
         /\ DOMAIN <<>> = {}
<1>1. s.stack = <<>> => Push(s, f) = [s EXCEPT !.stack = <<f>>]
  BY DEF Push, States
<1>2. ASSUME s.stack # <<>>
      PROVE  /\ s.stack = <<Top(s)>> /\ Top(s) = s.stack[1] /\ Top(s) \in Calls
             /\ Pop(s) = [s EXCEPT !.stack = <<>>]
             /\ SetTop(s, f) = [s EXCEPT !.stack = <<f>>] /\ DOMAIN s.stack = {1}
  <2>1. PICK g \in Calls : s.stack = <<g>>
    BY <1>2 DEF States
  <2>2. Len(s.stack) = 1 /\ s.stack[1] = g /\ Top(s) = g /\ DOMAIN s.stack = {1}
    BY <2>1 DEF Top
  <2>3. SubSeq(s.stack, 1, Len(s.stack) - 1) = <<>>
    BY <2>1, <2>2
  <2>4. Pop(s) = [s EXCEPT !.stack = <<>>]
    BY <2>3 DEF Pop
  <2>5. Pop(s).stack = <<>>
    BY <2>4 DEF States
  <2>6. SetTop(s, f) = [[s EXCEPT !.stack = <<>>] EXCEPT !.stack = <<f>>]
    BY <2>4, <2>5 DEF SetTop, Push
  <2>7. SetTop(s, f) = [s EXCEPT !.stack = <<f>>]
    BY <2>6 DEF States
  <2> QED
    BY <2>1, <2>2, <2>4, <2>7
<1> QED
  BY <1>1, <1>2

\* No pointer of a handler is spoilt when none of the places is the stack's.
LEMMA SpoilNone ==
  ASSUME NEW s \in States, NEW P, P \cap DOMAIN s.stack = {}
  PROVE  Spoil(s, P) = s
<1>1. [i \in DOMAIN s.stack |-> IF i \in P THEN [s.stack[i] EXCEPT !.stale = TRUE] ELSE s.stack[i]]
        = s.stack
  <2>1. CASE s.stack = <<>>
    BY <2>1
  <2>2. CASE s.stack # <<>>
    <3>1. PICK g \in Calls : s.stack = <<g>>
      BY <2>2 DEF States
    <3> QED
      BY <3>1
  <2> QED
    BY <2>1, <2>2
<1> QED
  BY <1>1 DEF Spoil, States

\* What Destroy does to a document that exists.
LEMMA DestroyIs ==
  ASSUME NEW s \in States, NEW d \in s.alive \cup {None}, None \notin Docs
  PROVE  LET t == Destroy(s, d) IN
         /\ t \in States /\ t.alive = s.alive \ {d} /\ t.user = s.user \ {d}
         /\ t.sess = s.sess /\ t.has = s.has /\ t.doc = s.doc /\ t.parser = s.parser
         /\ t.map = s.map /\ t.dlg = s.dlg /\ t.shown = s.shown /\ t.view = s.view
         /\ t.picker = s.picker /\ t.stack = s.stack
<1>1. CASE d = None
  <2>1. s.alive \ {d} = s.alive /\ s.user \ {d} = s.user
    BY <1>1 DEF States
  <2> QED
    BY <1>1, <2>1 DEF Destroy
<1>2. CASE d # None
  <2> DEFINE t == [s EXCEPT !.alive = @ \ {d}, !.user = @ \ {d}]
  <2>1. Destroy(s, d) = t
    BY <1>2 DEF Destroy
  <2>2. t \in States
    BY DEF States
  <2> QED
    BY <2>1, <2>2 DEF States
<1> QED
  BY <1>1, <1>2

\* What DropWindow does when no handler waits with that window.
LEMMA DropIs ==
  ASSUME NEW s \in States, NEW w \in Wins,
         s.stack # <<>> => s.stack[1].op \notin {"load", "begin"}
  PROVE  LET t == DropWindow(s, w) IN
         /\ t \in States /\ t.has = s.has \ {w}
         /\ t.doc = [s.doc EXCEPT ![w] = None] /\ t.parser = [s.parser EXCEPT ![w] = None]
         /\ t.sess = s.sess /\ t.alive = s.alive /\ t.user = s.user
         /\ t.map = s.map /\ t.dlg = s.dlg /\ t.shown = s.shown /\ t.view = s.view
         /\ t.picker = s.picker /\ t.stack = s.stack
<1> DEFINE t == [s EXCEPT !.has = @ \ {w}, !.doc[w] = None, !.parser[w] = None]
           P == {i \in DOMAIN s.stack : s.stack[i].win = w /\ s.stack[i].op \in {"load", "begin"}}
<1>1. t \in States /\ t.stack = s.stack
  BY DEF States, Some
<1>2. P \cap DOMAIN t.stack = {}
  BY <1>1, StackOps
<1>3. DropWindow(s, w) = t
  <2>1. DropWindow(s, w) = Spoil(t, P)
    BY DEF DropWindow
  <2> HIDE DEF t, P
  <2> QED
    BY <2>1, <1>1, <1>2, SpoilNone
<1> QED
  BY <1>1, <1>3 DEF States

\* The view follows the map, whose documents are whole.
ViewSound(s) ==
  /\ s.user \subseteq s.alive
  /\ \A n \in Names : s.map[n] # None => s.map[n] \in s.user
  /\ s.dlg = "open" => s.shown \in Names /\ s.map[s.shown] # None /\ s.view = s.map[s.shown]
  /\ s.dlg # "open" => \A f \in Files : s.map[f] = None
  /\ s.dlg = "closed" => Attached(s) = {}

\* The first name of the map, if there is one.
LEMMA FirstIs ==
  ASSUME Constants, NEW s \in States
  PROVE  /\ Attached(s) = {} => First(s) = None
         /\ Attached(s) # {} => First(s) \in Names /\ s.map[First(s)] # None
<1>1. Attached(s) \in SUBSET Nat
  BY NamesAre DEF Attached
<1>2. Attached(s) # {} => Min(Attached(s)) \in Attached(s)
  BY <1>1, LeastOf
<1> QED
  BY <1>2 DEF First, Attached

\* What is in the map can be shown.
LEMMA ShowIs ==
  ASSUME Constants, NEW s \in States, NEW n \in Names, s.map[n] \in s.user, s.user \subseteq s.alive
  PROVE  LoadTree(SetView(s, n)) = [s EXCEPT !.shown = n, !.view = s.map[n]]
<1> DEFINE t == [s EXCEPT !.shown = n, !.view = s.map[n]]
<1>1. SetView(s, n) = t
  BY NamesAre DEF SetView
<1>2. t.view = s.map[n] /\ t.alive = s.alive /\ t.user = s.user
  BY DEF States
<1>3. s.map[n] \in s.alive /\ s.map[n] # None
  BY NamesAre DEF States
<1>4. LoadTree(SetView(s, n)) = t
  <2> HIDE DEF t
  <2> QED BY <1>1, <1>2, <1>3 DEF LoadTree
<1> QED
  BY <1>4

\* What Detach does.
LEMMA DetachIs ==
  ASSUME Constants, NEW s \in States, NEW w \in Wins, ViewSound(s)
  PROVE  LET t == Detach(s, w) IN
         /\ t \in States /\ ViewSound(t)
         /\ t.map = [s.map EXCEPT ![w] = None]
         /\ t.dlg = IF Boxes(s, w) THEN "closed" ELSE s.dlg
         /\ t.sess = s.sess /\ t.has = s.has /\ t.doc = s.doc /\ t.parser = s.parser
         /\ t.alive = s.alive /\ t.user = s.user /\ t.picker = s.picker /\ t.stack = s.stack
<1> USE NamesAre
<1> DEFINE t == [s EXCEPT !.map[w] = None]
<1>w. w \in Names
  BY DEF Names
<1>1. t \in States
  BY <1>w DEF States, Some
<1>2. t.map = [s.map EXCEPT ![w] = None] /\ t.dlg = s.dlg /\ t.sess = s.sess /\ t.has = s.has
      /\ t.doc = s.doc /\ t.parser = s.parser /\ t.alive = s.alive /\ t.user = s.user
      /\ t.picker = s.picker /\ t.stack = s.stack /\ t.shown = s.shown /\ t.view = s.view
  BY DEF States
<1>3. \A n \in Names : t.map[n] = IF n = w THEN None ELSE s.map[n]
  BY <1>2, <1>w DEF States
<1>4. CASE s.map[w] = None
  <2>1. [s.map EXCEPT ![w] = None] = s.map
    BY <1>4, <1>w DEF States
  <2>2. Detach(s, w) = s /\ ~Boxes(s, w)
    BY <1>4 DEF Detach, Boxes
  <2> QED
    BY <2>1, <2>2
<1>5. CASE s.map[w] # None /\ (s.dlg = "none" \/ s.shown # w)
  <2>1. s.dlg # "none" => s.dlg = "open" /\ s.shown \in Names
    BY <1>5, <1>w DEF States, ViewSound, Attached
  <2>2. Detach(s, w) = t /\ ~Boxes(s, w)
    BY <1>5, <2>1 DEF Detach, Boxes
  <2>3. ViewSound(t)
    BY <1>2, <1>3, <1>5, <2>1, <1>w DEF ViewSound, Attached, Names
  <2> QED
    BY <1>1, <1>2, <2>2, <2>3
<1>6. CASE s.map[w] # None /\ s.dlg # "none" /\ s.shown = w
  <2>1. s.dlg = "open" /\ s.shown # None
    BY <1>6, <1>w DEF States, ViewSound, Attached
  <2>2. CASE Boxes(s, w)
    <3> DEFINE u == [SetView(t, None) EXCEPT !.dlg = "closed"]
    <3>1. Detach(s, w) = u
      BY <1>6, <2>1, <2>2 DEF Detach
    <3>2. u \in States /\ u.map = t.map /\ u.dlg = "closed" /\ u.sess = s.sess /\ u.has = s.has
          /\ u.doc = s.doc /\ u.parser = s.parser /\ u.alive = s.alive /\ u.user = s.user
          /\ u.picker = s.picker /\ u.stack = s.stack
      <4> HIDE DEF t
      <4> QED BY <1>1, <1>2 DEF SetView, States, Some
    <3>3. Attached(u) = {}
      BY <3>2, <1>3, <2>2 DEF Boxes, Attached
    <3>4. ViewSound(u)
      BY <3>2, <3>3, <1>3 DEF ViewSound, Names, Attached
    <3> QED
      BY <1>2, <2>2, <3>1, <3>2, <3>4
  <2>3. CASE ~Boxes(s, w)
    <3> DEFINE n == First(t)
               u == [t EXCEPT !.shown = n, !.view = t.map[n]]
    <3>1. Attached(t) # {}
      <4>1. PICK m \in Names : m # w /\ s.map[m] # None
        BY <1>6, <2>3, <1>w DEF Boxes, Attached
      <4> QED
        BY <4>1, <1>3 DEF Attached
    <3>2. n \in Names /\ t.map[n] # None
      <4> HIDE DEF t
      <4> QED BY <3>1, <1>1, FirstIs
    <3>3. t.map[n] \in t.user /\ t.user \subseteq t.alive
      BY <3>2, <1>2, <1>3 DEF ViewSound
    <3>4. Detach(s, w) = u
      <4>1. Detach(s, w) = LoadTree(SetView(t, n))
        BY <1>6, <2>1, <2>3 DEF Detach
      <4> HIDE DEF t, n
      <4> QED BY <4>1, <1>1, <3>2, <3>3, ShowIs
    <3>5. u \in States /\ u.map = t.map /\ u.dlg = s.dlg /\ u.sess = s.sess /\ u.has = s.has
          /\ u.doc = s.doc /\ u.parser = s.parser /\ u.alive = s.alive /\ u.user = s.user
          /\ u.picker = s.picker /\ u.stack = s.stack /\ u.shown = n /\ u.view = t.map[n]
      <4> HIDE DEF t, n
      <4> QED BY <1>1, <1>2, <3>2 DEF States, Some
    <3>6. ViewSound(u)
      <4> HIDE DEF u, n
      <4> QED BY <1>2, <1>3, <2>1, <3>2, <3>5 DEF ViewSound, Names
    <3> QED
      BY <1>2, <2>3, <3>4, <3>5, <3>6
  <2> QED
    BY <2>2, <2>3
<1> QED
  BY <1>4, <1>5, <1>6

\* The message box depends on the viewer alone.
LEMMA BoxesSame ==
  ASSUME NEW s, NEW t, NEW w, s.map = t.map, s.dlg = t.dlg, s.shown = t.shown
  PROVE  Boxes(s, w) <=> Boxes(t, w)
BY DEF Boxes, Attached

\* What on_load does when the old document is out of the map.
LEMMA FinishLoadIs ==
  ASSUME None \notin Docs, NEW s \in States, NEW w \in Wins, NEW d \in s.alive,
         s.doc[w] \in s.alive \cup {None}, d # s.doc[w], s.map[w] = None
  PROVE  LET t == FinishLoad(s, w, d) IN
         /\ t \in States /\ t.alive = s.alive \ {s.doc[w]} /\ t.user = (s.user \ {s.doc[w]}) \cup {d}
         /\ t.doc = [s.doc EXCEPT ![w] = d] /\ t.map = [s.map EXCEPT ![w] = d]
         /\ t.sess = s.sess /\ t.has = s.has /\ t.parser = s.parser /\ t.dlg = s.dlg
         /\ t.shown = s.shown /\ t.view = s.view /\ t.picker = s.picker /\ t.stack = s.stack
<1> DEFINE a == Destroy(s, s.doc[w])
           b == [a EXCEPT !.doc[w] = d]
           c == [b EXCEPT !.user = @ \cup {d}]
           t == [c EXCEPT !.map[w] = d]
<1>w. w \in Names /\ d \in Docs
  BY DEF Names, States
<1>1. /\ a \in States /\ a.alive = s.alive \ {s.doc[w]} /\ a.user = s.user \ {s.doc[w]}
      /\ a.sess = s.sess /\ a.has = s.has /\ a.doc = s.doc /\ a.parser = s.parser
      /\ a.map = s.map /\ a.dlg = s.dlg /\ a.shown = s.shown /\ a.view = s.view
      /\ a.picker = s.picker /\ a.stack = s.stack
  BY DestroyIs
<1> HIDE DEF a
<1>2. b \in States /\ b.doc = [a.doc EXCEPT ![w] = d] /\ b.alive = a.alive /\ b.user = a.user
      /\ b.sess = a.sess /\ b.has = a.has /\ b.parser = a.parser /\ b.map = a.map /\ b.dlg = a.dlg
      /\ b.shown = a.shown /\ b.view = a.view /\ b.picker = a.picker /\ b.stack = a.stack
  BY <1>1, <1>w DEF States, Some
<1>3. FinishLoad(s, w, d) = Attach(Prepare(b, d), w)
  BY DEF FinishLoad, a
<1> HIDE DEF b
<1>4. c \in States /\ c.user = b.user \cup {d} /\ c.doc = b.doc /\ c.alive = b.alive
      /\ c.sess = b.sess /\ c.has = b.has /\ c.parser = b.parser /\ c.map = b.map /\ c.dlg = b.dlg
      /\ c.shown = b.shown /\ c.view = b.view /\ c.picker = b.picker /\ c.stack = b.stack
  BY <1>2, <1>w DEF States
<1>5. Prepare(b, d) = c
  BY <1>1, <1>2 DEF Prepare
<1> HIDE DEF c
<1>6. c.map[w] = None /\ c.doc[w] = d
  BY <1>1, <1>2, <1>4 DEF States
<1>7. Attach(c, w) = t
  BY <1>6 DEF Attach
<1>8. t \in States /\ t.map = [c.map EXCEPT ![w] = d] /\ t.user = c.user /\ t.doc = c.doc
      /\ t.alive = c.alive /\ t.sess = c.sess /\ t.has = c.has /\ t.parser = c.parser
      /\ t.dlg = c.dlg /\ t.shown = c.shown /\ t.view = c.view /\ t.picker = c.picker
      /\ t.stack = c.stack
  BY <1>4, <1>w DEF States, Some
<1> HIDE DEF t
<1> QED
  BY <1>1, <1>2, <1>3, <1>4, <1>5, <1>7, <1>8

\* What on_write_begin does when the old document is out of the map.
LEMMA FinishBeginIs ==
  ASSUME None \notin Docs, NEW s \in States, NEW w \in Wins, NEW d \in s.alive,
         s.doc[w] \in s.alive \cup {None}
  PROVE  LET t == FinishBegin(s, w, d) IN
         /\ t \in States /\ t.alive = s.alive \ {s.doc[w]} /\ t.user = s.user \ {s.doc[w]}
         /\ t.doc = [s.doc EXCEPT ![w] = d] /\ t.map = s.map
         /\ t.sess = s.sess /\ t.has = s.has /\ t.parser = s.parser /\ t.dlg = s.dlg
         /\ t.shown = s.shown /\ t.view = s.view /\ t.picker = s.picker /\ t.stack = s.stack
<1> DEFINE a == Destroy(s, s.doc[w])
<1>1. /\ a \in States /\ a.alive = s.alive \ {s.doc[w]} /\ a.user = s.user \ {s.doc[w]}
      /\ a.sess = s.sess /\ a.has = s.has /\ a.doc = s.doc /\ a.parser = s.parser
      /\ a.map = s.map /\ a.dlg = s.dlg /\ a.shown = s.shown /\ a.view = s.view
      /\ a.picker = s.picker /\ a.stack = s.stack
  BY DestroyIs
<1>2. d \in Docs
  BY DEF States
<1>3. FinishBegin(s, w, d) = [a EXCEPT !.doc[w] = d]
  BY DEF FinishBegin
<1> HIDE DEF a
<1> QED
  BY <1>1, <1>2, <1>3 DEF States, Some

-----------------------------------------------------------------------------
(* The places of the documents.                                            *)

\* The places, one by one.
LEMMA AtIs ==
  ASSUME Constants, NEW s
  PROVE  /\ \A w \in Wins : At(s, w) = s.doc[w]
         /\ \A f \in Files : At(s, f) = s.map[f]
         /\ At(s, None) = Held(s)
         /\ Slots = Wins \cup Files \cup {None} /\ None \notin Wins /\ None \notin Files
         /\ \A f \in Files : f \notin Wins
BY NamesAre DEF At, Slots, Names

\* A document that is allocated has an address of its own.
LEMMA FreshIs ==
  ASSUME Docs \ InUse(rdr) # {}
  PROVE  Fresh(rdr) \in Docs /\ Fresh(rdr) \notin rdr.alive
BY DEF Fresh, InUse

\* Nothing moves.
LEMMA OwnedSame ==
  ASSUME NEW s, NEW t, Owned(s), \A x \in Slots : At(t, x) = At(s, x), t.alive = s.alive
  PROVE  Owned(t)
BY DEF Owned

\* A new document takes the place of what was there.
LEMMA OwnedPut ==
  ASSUME NEW s, NEW t, NEW x \in Slots, NEW d, d # None, d \notin s.alive, Owned(s),
         At(t, x) = d, \A y \in Slots \ {x} : At(t, y) = At(s, y),
         t.alive = (s.alive \cup {d}) \ {At(s, x)}
  PROVE  Owned(t)
BY DEF Owned

\* The document at a place is destroyed.
LEMMA OwnedDrop ==
  ASSUME NEW s, NEW t, NEW x \in Slots, Owned(s), At(t, x) = None,
         \A y \in Slots \ {x} : At(t, y) = At(s, y), t.alive = s.alive \ {At(s, x)}
  PROVE  Owned(t)
BY DEF Owned

\* A document goes from one place to another, and what was there is destroyed.
LEMMA OwnedMove ==
  ASSUME NEW s, NEW t, NEW x \in Slots, NEW y \in Slots, x # y, Owned(s),
         At(t, x) = At(s, y), At(t, y) = None,
         \A z \in Slots \ {x, y} : At(t, z) = At(s, z), t.alive = s.alive \ {At(s, x)}
  PROVE  Owned(t)
BY DEF Owned

\* The documents of the other windows and files stay what they are.
LEMMA OthersWhole ==
  ASSUME Constants, NEW s \in States, NEW t \in States, NEW w \in Slots, Owned(s), Whole(s),
         \A x \in Wins \ {w} : t.doc[x] = s.doc[x] /\ t.parser[x] = s.parser[x]
                               /\ t.map[x] = s.map[x] /\ (x \in s.has => x \in t.has),
         \A f \in Files \ {w} : t.map[f] = s.map[f],
         \A e \in s.alive \ {At(s, w), Held(s)} :
             e \in t.alive /\ (e \in t.user <=> e \in s.user),
         s.stack # <<>> /\ s.stack[1].op = "begin" => s.stack[1].win = w
  PROVE  /\ \A x \in Wins \ {w} : WholeAt(t, x)
         /\ \A f \in Files \ {w} : FileWhole(t, f)
<1> USE AtIs
<1>1. ASSUME NEW x \in Wins \cup Files, x # w, At(s, x) # None
      PROVE  At(s, x) \in t.alive /\ (At(s, x) \in t.user <=> At(s, x) \in s.user)
  <2>1. x \in Slots /\ None \in Slots /\ x # None
    OBVIOUS
  <2>2. At(s, x) \in s.alive /\ At(s, x) # At(s, w) /\ At(s, x) # Held(s)
    BY <1>1, <2>1 DEF Owned
  <2> QED
    BY <2>2
<1>2. ASSUME NEW x \in Wins \ {w}
      PROVE  WholeAt(t, x)
  <2>1. WholeAt(s, x)
    BY DEF Whole
  <2>2. s.parser[x] # None => s.doc[x] = s.parser[x]
    BY <2>1 DEF WholeAt
  <2>3. s.doc[x] # None => s.doc[x] \in t.alive /\ (s.doc[x] \in t.user <=> s.doc[x] \in s.user)
    BY <1>1
  <2> QED
    BY <2>1, <2>2, <2>3 DEF WholeAt
<1>3. ASSUME NEW f \in Files \ {w}
      PROVE  FileWhole(t, f)
  BY <1>1 DEF Whole, FileWhole
<1> QED
  BY <1>2, <1>3

\* Between requests, or while a session is removed, the view follows the map.
LEMMA ViewIs ==
  ASSUME Constants, NEW s, SInv(s), s.dlg # "closed" \/ s.stack # <<>>
  PROVE  ViewSound(s)
<1>1. \A w \in Wins : s.map[w] # None => s.map[w] \in s.user
  BY DEF SInv, Whole, WholeAt
<1>2. \A n \in Names : s.map[n] # None => s.map[n] \in s.user
  BY <1>1 DEF SInv, Whole, FileWhole, Names
<1> QED
  BY <1>2 DEF SInv, Whole, Seen, ViewSound

-----------------------------------------------------------------------------
(* The requests keep the invariant.                                        *)

\* A request finds no handler waiting and no list up.
LEMMA ServedAlone ==
  ASSUME Constants, NoLapse', SInv(rdr), Serving, NEW S, Slip(S)
  PROVE  /\ rdr \in States /\ rdr.stack = <<>> /\ rdr.picker = {} /\ rdr.dlg # "closed"
         /\ ViewSound(rdr) /\ Held(rdr) = None /\ None \notin rdr.alive
         /\ \A w \in Wins : /\ rdr.doc[w] \in rdr.alive \cup {None}
                            /\ rdr.parser[w] # None => rdr.doc[w] = rdr.parser[w]
                            /\ rdr.map[w] # None => rdr.map[w] = rdr.doc[w]
<1>1. rdr \in States /\ rdr.stack = <<>> /\ rdr.picker = {} /\ rdr.dlg # "closed"
  BY DEF Serving, SInv, Quiet, Slip, NoLapse
<1>2. ViewSound(rdr) /\ Held(rdr) = None /\ None \notin rdr.alive
  BY <1>1, ViewIs, NamesAre DEF Held, States
<1>3. ASSUME NEW w \in Wins
      PROVE  /\ rdr.doc[w] \in rdr.alive \cup {None}
             /\ rdr.parser[w] # None => rdr.doc[w] = rdr.parser[w]
             /\ rdr.map[w] # None => rdr.map[w] = rdr.doc[w]
  <2>1. WholeAt(rdr, w)
    BY DEF SInv, Whole
  <2>2. rdr.doc[w] # None => rdr.doc[w] \in rdr.alive
    BY AtIs DEF SInv, Owned
  <2> QED
    BY <2>1, <2>2, <1>1 DEF WholeAt
<1> QED
  BY <1>1, <1>2, <1>3

\* A session starts with no window.
LEMMA KeepsStart ==
  ASSUME Constants, NoLapse', SInv(rdr), NEW c \in Clients, StartSession(c)
  PROVE  SInv(rdr')
<1>1. rdr \in States /\ rdr.stack = <<>> /\ rdr' = [rdr EXCEPT !.sess[c] = "on"]
  BY ServedAlone DEF StartSession
<1>2. /\ rdr' \in States /\ rdr'.has = rdr.has /\ rdr'.doc = rdr.doc /\ rdr'.parser = rdr.parser
      /\ rdr'.alive = rdr.alive /\ rdr'.user = rdr.user /\ rdr'.map = rdr.map
      /\ rdr'.dlg = rdr.dlg /\ rdr'.shown = rdr.shown /\ rdr'.view = rdr.view
      /\ rdr'.picker = rdr.picker /\ rdr'.stack = rdr.stack
  BY <1>1 DEF States
<1>3. Owned(rdr')
  BY <1>2, OwnedSame DEF At, Held, SInv
<1>4. Whole(rdr')
  BY <1>2 DEF SInv, Whole, WholeAt, FileWhole
<1>5. Seen(rdr')
  BY <1>2 DEF SInv, Seen, Attached
<1> QED
  BY <1>1, <1>2, <1>3, <1>4, <1>5 DEF SInv, Waits

\* A window starts with no document.
LEMMA KeepsCreate ==
  ASSUME Constants, NoLapse', SInv(rdr), NEW w \in Wins, CreateWindow(w)
  PROVE  SInv(rdr')
<1>1. rdr \in States /\ rdr.stack = <<>> /\ rdr' = [rdr EXCEPT !.has = @ \cup {w}]
  BY ServedAlone DEF CreateWindow
<1>2. /\ rdr' \in States /\ rdr'.has = rdr.has \cup {w} /\ rdr'.doc = rdr.doc
      /\ rdr'.parser = rdr.parser
      /\ rdr'.alive = rdr.alive /\ rdr'.user = rdr.user /\ rdr'.map = rdr.map
      /\ rdr'.dlg = rdr.dlg /\ rdr'.shown = rdr.shown /\ rdr'.view = rdr.view
      /\ rdr'.picker = rdr.picker /\ rdr'.stack = rdr.stack
  BY <1>1 DEF States
<1>3. Owned(rdr')
  BY <1>2, OwnedSame DEF At, Held, SInv
<1>4. Whole(rdr')
  BY <1>2 DEF SInv, Whole, WholeAt, FileWhole
<1>5. Seen(rdr')
  BY <1>2 DEF SInv, Seen, Attached
<1> QED
  BY <1>1, <1>2, <1>3, <1>4, <1>5 DEF SInv, Waits

\* The process ends, and nothing else changes.
LEMMA DiesIs ==
  ASSUME Constants, SInv(rdr), slips' \subseteq AtOnce,
         NEW how \in {"null", "assertion", "wild"}, rdr' = Dies(rdr, how),
         how = "wild" => "unset" \in slips', how # "wild" => "title" \in slips'
  PROVE  Ended'
<1>1. rdr \in States /\ rdr.user \subseteq rdr.alive /\ rdr.fate = "ok"
  BY DEF SInv, Whole, States
<1>2. rdr' = [rdr EXCEPT !.fate = how]
  BY <1>1 DEF Dies
<1>3. /\ rdr'.fate = how /\ rdr'.sess = rdr.sess /\ rdr'.has = rdr.has /\ rdr'.doc = rdr.doc
      /\ rdr'.parser = rdr.parser /\ rdr'.alive = rdr.alive /\ rdr'.user = rdr.user
      /\ rdr'.map = rdr.map /\ rdr'.dlg = rdr.dlg /\ rdr'.shown = rdr.shown
      /\ rdr'.view = rdr.view /\ rdr'.picker = rdr.picker
  BY <1>1, <1>2 DEF States
<1>4. TypeOK'
  BY <1>1, <1>3 DEF TypeOK, States, Some, AtOnce
<1>5. NoFault'
  BY <1>3 DEF NoFault
<1> QED
  BY <1>3, <1>4, <1>5 DEF Ended

\* A window that is not there: nothing happens, or the process ends.
LEMMA KeepsNotFound ==
  ASSUME Constants, NoLapse', SInv(rdr), slips \subseteq AtOnce, NEW w \in Wins, Serving,
         NotFound(w)
  PROVE  rdr' = rdr \/ Ended'
<1>1. CASE UNCHANGED rdr
  BY <1>1
<1>2. CASE rdr' = Dies(rdr, "wild") /\ Slip({"unset"})
  <2>1. Quiet
    BY <1>2, ServedAlone DEF Quiet
  <2>2. slips' \subseteq AtOnce /\ "unset" \in slips'
    BY <1>2, <2>1 DEF Slip, AtOnce
  <2> QED
    BY <1>2, <2>2, DiesIs
<1> QED
  BY <1>1, <1>2 DEF NotFound

\* A title changes nothing, or the process ends.
LEMMA KeepsTitle ==
  ASSUME Constants, NoLapse', SInv(rdr), slips \subseteq AtOnce, NEW w \in Wins, UpdateTitle(w)
  PROVE  rdr' = rdr \/ Ended'
<1>1. CASE NotFound(w)
  BY <1>1, KeepsNotFound DEF UpdateTitle
<1>2. ASSUME NEW v \in Found(w), SetTitle(v)
      PROVE  rdr' = rdr \/ Ended'
  <2> DEFINE S == IF rdr.doc[v] = None \/ rdr.doc[v] \in rdr.alive \ rdr.user THEN {"title"} ELSE {}
  <2>1. Slip(S) /\ Serving /\ v \in Wins
    BY <1>2 DEF SetTitle, UpdateTitle, Found, WinsOf, SInv, States
  <2>2. Quiet /\ None \notin rdr.alive /\ rdr.doc[v] \in rdr.alive \cup {None}
    BY <2>1, ServedAlone DEF Quiet
  <2>3. slips' = slips \cup S
    BY <2>1, <2>2 DEF Slip
  <2>4. rdr.user \subseteq rdr.alive
    BY DEF SInv, Whole
  <2>5. CASE rdr.doc[v] = None
    BY <1>2, <2>3, <2>5, DiesIs DEF SetTitle, AtOnce
  <2>6. CASE rdr.doc[v] \in rdr.alive \ rdr.user
    BY <1>2, <2>2, <2>3, <2>6, DiesIs DEF SetTitle, AtOnce
  <2>7. CASE rdr.doc[v] \in rdr.user
    BY <1>2, <2>2, <2>4, <2>7 DEF SetTitle
  <2> QED
    BY <2>2, <2>5, <2>6, <2>7
<1> QED
  BY <1>1, <1>2 DEF UpdateTitle

\* The window goes, and its document with it, if no box has to be dismissed first.
LEMMA KeepsRemove ==
  ASSUME Constants, NoLapse', SInv(rdr), NEW w \in Wins, Serving, Remove(w)
  PROVE  SInv(rdr')
<1> DEFINE d == rdr.doc[w]
           s == DropWindow(rdr, w)
           a == Detach(s, w)
<1> USE AtIs
<1>1. /\ rdr \in States /\ rdr.stack = <<>> /\ rdr.picker = {} /\ rdr.dlg # "closed"
      /\ ViewSound(rdr) /\ Held(rdr) = None /\ None \notin rdr.alive /\ d \in rdr.alive \cup {None}
      /\ rdr.parser[w] # None => d = rdr.parser[w]
      /\ rdr.map[w] # None => rdr.map[w] = d
  BY ServedAlone DEF Remove
<1>2. /\ s \in States /\ s.has = rdr.has \ {w}
      /\ s.doc = [rdr.doc EXCEPT ![w] = None] /\ s.parser = [rdr.parser EXCEPT ![w] = None]
      /\ s.sess = rdr.sess /\ s.alive = rdr.alive /\ s.user = rdr.user
      /\ s.map = rdr.map /\ s.dlg = rdr.dlg /\ s.shown = rdr.shown /\ s.view = rdr.view
      /\ s.picker = rdr.picker /\ s.stack = rdr.stack
  BY <1>1, DropIs
<1>3. ViewSound(s) /\ (Boxes(s, w) <=> Boxes(rdr, w))
  BY <1>1, <1>2, BoxesSame DEF ViewSound, Attached
<1> HIDE DEF s
<1>4. /\ a \in States /\ ViewSound(a) /\ a.map = [s.map EXCEPT ![w] = None]
      /\ a.dlg = IF Boxes(s, w) THEN "closed" ELSE s.dlg
      /\ a.sess = s.sess /\ a.has = s.has /\ a.doc = s.doc /\ a.parser = s.parser
      /\ a.alive = s.alive /\ a.user = s.user /\ a.picker = s.picker /\ a.stack = s.stack
  BY <1>2, <1>3, DetachIs
<1> HIDE DEF a
<1>5. CASE d # None /\ Boxes(rdr, w)
  <2> DEFINE f == Frame("destroy", Owner[w], w, d)
  <2>1. f \in Calls /\ f.op = "destroy" /\ f.doc = d /\ f.box
    BY <1>1 DEF Frame, Calls, States, Some, Constants
  <2>2. rdr' = Push(a, f)
    BY <1>5 DEF Remove, s, a
  <2> HIDE DEF f
  <2>3. rdr' = [a EXCEPT !.stack = <<f>>]
    BY <2>2, <1>1, <1>2, <1>4, StackOps
  <2>4. /\ rdr' \in States /\ rdr'.has = a.has /\ rdr'.doc = a.doc /\ rdr'.parser = a.parser
        /\ rdr'.alive = a.alive /\ rdr'.user = a.user /\ rdr'.map = a.map
        /\ rdr'.dlg = a.dlg /\ rdr'.shown = a.shown /\ rdr'.view = a.view
        /\ rdr'.picker = a.picker /\ rdr'.stack = <<f>>
    BY <2>3, <2>1, <1>4 DEF States
  <2>p. /\ rdr'.doc[w] = None /\ rdr'.parser[w] = None /\ rdr'.map[w] = None /\ Held(rdr') = d
        /\ rdr'.has = rdr.has \ {w} /\ rdr'.alive = rdr.alive /\ rdr'.user = rdr.user
        /\ \A x \in Wins \ {w} : rdr'.doc[x] = rdr.doc[x] /\ rdr'.parser[x] = rdr.parser[x]
                                 /\ rdr'.map[x] = rdr.map[x]
        /\ \A x \in Files \ {w} : rdr'.map[x] = rdr.map[x]
    BY <1>1, <1>2, <1>4, <2>1, <2>4 DEF Held, States, Names
  <2>5. Owned(rdr')
    <3>1. /\ At(rdr, w) = d /\ At(rdr, None) = None /\ At(rdr', w) = None /\ At(rdr', None) = d
      BY <1>1, <2>p
    <3>2. \A x \in Slots \ {w, None} : At(rdr', x) = At(rdr, x)
      BY <2>p
    <3>3. rdr'.alive = rdr.alive \ {At(rdr, None)}
      BY <1>1, <1>2, <1>4, <2>4, <3>1
    <3> QED
      BY <3>1, <3>2, <3>3, OwnedMove DEF SInv
  <2>6. Whole(rdr')
    <3>1. /\ \A x \in Wins \ {w} : WholeAt(rdr', x)
          /\ \A x \in Files \ {w} : FileWhole(rdr', x)
      BY <1>1, <2>p, <2>4, OthersWhole DEF SInv
    <3>2. WholeAt(rdr', w)
      BY <2>p DEF WholeAt
    <3> QED
      BY <3>1, <3>2, <2>4, <1>4, <1>2 DEF Whole, SInv
  <2>7. Seen(rdr')
    BY <2>4, <1>1, <1>2, <1>3, <1>4, <1>5 DEF Seen, ViewSound, Attached
  <2>8. Waits(rdr')
    BY <2>4, <2>1, <1>1, <1>3, <1>4, <1>5 DEF Waits
  <2> QED
    BY <2>4, <2>5, <2>6, <2>7, <2>8 DEF SInv
<1>6. CASE ~(d # None /\ Boxes(rdr, w))
  <2> DEFINE b == IF d = None THEN s ELSE a
  <2>1. rdr' = Destroy(b, d)
    BY <1>6 DEF Remove, s, a
  <2>2. /\ b \in States /\ ViewSound(b) /\ b.map = [s.map EXCEPT ![w] = None] /\ b.dlg = s.dlg
        /\ b.has = s.has /\ b.doc = s.doc /\ b.parser = s.parser
        /\ b.alive = s.alive /\ b.user = s.user /\ b.picker = s.picker /\ b.stack = s.stack
    <3>1. d = None => s.map = [s.map EXCEPT ![w] = None]
      BY <1>1, <1>2 DEF States, Names
    <3> QED
      BY <3>1, <1>2, <1>3, <1>4, <1>6
  <2> HIDE DEF b
  <2>3. /\ rdr' \in States /\ rdr'.alive = b.alive \ {d} /\ rdr'.user = b.user \ {d}
        /\ rdr'.has = b.has /\ rdr'.doc = b.doc /\ rdr'.parser = b.parser
        /\ rdr'.map = b.map /\ rdr'.dlg = b.dlg /\ rdr'.shown = b.shown /\ rdr'.view = b.view
        /\ rdr'.picker = b.picker /\ rdr'.stack = b.stack
    BY <2>1, <2>2, <1>1, <1>2, DestroyIs, NamesAre
  <2>p. /\ rdr'.doc[w] = None /\ rdr'.parser[w] = None /\ rdr'.map[w] = None /\ Held(rdr') = None
        /\ rdr'.has = rdr.has \ {w} /\ rdr'.alive = rdr.alive \ {d} /\ rdr'.user = rdr.user \ {d}
        /\ \A x \in Wins \ {w} : rdr'.doc[x] = rdr.doc[x] /\ rdr'.parser[x] = rdr.parser[x]
                                 /\ rdr'.map[x] = rdr.map[x]
        /\ \A x \in Files \ {w} : rdr'.map[x] = rdr.map[x]
    BY <1>1, <1>2, <2>2, <2>3 DEF Held, States, Names
  <2>5. Owned(rdr')
    <3>1. At(rdr, w) = d /\ At(rdr', w) = None
      BY <1>1, <2>p
    <3>2. \A x \in Slots \ {w} : At(rdr', x) = At(rdr, x)
      BY <1>1, <2>p
    <3>3. rdr'.alive = rdr.alive \ {At(rdr, w)} /\ w \in Slots
      BY <2>p, <3>1
    <3> QED
      BY <3>1, <3>2, <3>3, OwnedDrop DEF SInv
  <2>6. Whole(rdr')
    <3>1. /\ \A x \in Wins \ {w} : WholeAt(rdr', x)
          /\ \A x \in Files \ {w} : FileWhole(rdr', x)
      BY <1>1, <2>p, <2>3, OthersWhole DEF SInv
    <3>2. WholeAt(rdr', w)
      BY <2>p DEF WholeAt
    <3> QED
      BY <3>1, <3>2, <2>2, <2>3, <1>2 DEF Whole, SInv
  <2>7. Seen(rdr')
    BY <2>2, <2>3, <1>1, <1>2 DEF Seen, ViewSound, Attached
  <2>8. Waits(rdr')
    BY <2>2, <2>3, <1>1, <1>2 DEF Waits
  <2> QED
    BY <2>3, <2>5, <2>6, <2>7, <2>8 DEF SInv
<1> QED
  BY <1>5, <1>6

\* The window that was named, or the one an unset pointer leads to.
LEMMA KeepsDestroyWindow ==
  ASSUME Constants, NoLapse', SInv(rdr), slips \subseteq AtOnce, NEW w \in Wins, DestroyWindow(w)
  PROVE  SInv(rdr') \/ Ended'
<1>1. CASE NotFound(w)
  BY <1>1, KeepsNotFound DEF DestroyWindow
<1>2. ASSUME NEW v \in Found(w), Remove(v)
      PROVE  SInv(rdr')
  <2>1. v \in Wins
    BY <1>2 DEF Found, WinsOf, SInv, States
  <2> QED
    BY <1>2, <2>1, KeepsRemove DEF DestroyWindow
<1> QED
  BY <1>1, <1>2 DEF DestroyWindow

\* A loaded document takes the window's place, or waits with the handler for the box.
LEMMA KeepsLoad ==
  ASSUME Constants, NoLapse', SInv(rdr), NEW w \in Wins, Load(w)
  PROVE  SInv(rdr')
<1> DEFINE e == rdr.doc[w]
           d == Fresh(rdr)
           s == [rdr EXCEPT !.alive = @ \cup {d}]
           a == Detach(s, w)
<1> USE AtIs
<1>1. /\ e = rdr.doc[w] /\ rdr \in States /\ rdr.stack = <<>> /\ rdr.picker = {} /\ rdr.dlg # "closed"
      /\ ViewSound(rdr) /\ Held(rdr) = None /\ None \notin rdr.alive /\ e \in rdr.alive \cup {None}
      /\ rdr.parser[w] = None /\ w \in rdr.has
      /\ rdr.map[w] # None => rdr.map[w] = e
  <2>1. /\ Serving /\ w \in rdr.has
        /\ "load" \in Lapses \/ rdr.parser[w] = None
        /\ Slip(IF rdr.parser[w] = None THEN {} ELSE {"load"})
    BY DEF Load
  <2>2. rdr.parser[w] = None
    BY <2>1 DEF Slip, NoLapse
  <2> QED
    BY <2>1, <2>2, ServedAlone
<1>2. d \in Docs /\ d # None /\ d \notin rdr.alive /\ d \notin rdr.user
  BY FreshIs, NamesAre DEF Load, Room, SInv, Whole
<1> HIDE DEF d, e
<1>3. /\ s \in States /\ s.has = rdr.has /\ s.doc = rdr.doc /\ s.parser = rdr.parser
      /\ s.sess = rdr.sess /\ s.alive = rdr.alive \cup {d} /\ s.user = rdr.user
      /\ s.map = rdr.map /\ s.dlg = rdr.dlg /\ s.shown = rdr.shown /\ s.view = rdr.view
      /\ s.picker = rdr.picker /\ s.stack = rdr.stack
  BY <1>1, <1>2 DEF States, Some
<1>4. ViewSound(s) /\ (Boxes(s, w) <=> Boxes(rdr, w))
  <2> HIDE DEF s
  <2> QED BY <1>1, <1>3, BoxesSame DEF ViewSound, Attached
<1>5. /\ a \in States /\ ViewSound(a) /\ a.map = [s.map EXCEPT ![w] = None]
      /\ a.dlg = IF Boxes(s, w) THEN "closed" ELSE s.dlg
      /\ a.sess = s.sess /\ a.has = s.has /\ a.doc = s.doc /\ a.parser = s.parser
      /\ a.alive = s.alive /\ a.user = s.user /\ a.picker = s.picker /\ a.stack = s.stack
  <2> HIDE DEF s
  <2> QED BY <1>3, <1>4, DetachIs
<1>6. WholeAt(rdr, w)
  BY DEF SInv, Whole
<1>7. CASE e # None /\ Boxes(rdr, w)
  <2> DEFINE f == Frame("load", Owner[w], w, d)
  <2>1. f \in Calls /\ f.op = "load" /\ f.doc = d /\ f.box /\ f.win = w
    BY <1>1, <1>2 DEF Frame, Calls, States, Some, Constants
  <2>2. rdr' = Push(a, f)
    BY <1>7 DEF Load, d, e
  <2> HIDE DEF f, a, s
  <2>3. rdr' = [a EXCEPT !.stack = <<f>>]
    BY <2>2, <1>1, <1>3, <1>5, StackOps
  <2>4. /\ rdr' \in States /\ rdr'.has = a.has /\ rdr'.doc = a.doc /\ rdr'.parser = a.parser
        /\ rdr'.alive = a.alive /\ rdr'.user = a.user /\ rdr'.map = a.map
        /\ rdr'.dlg = a.dlg /\ rdr'.shown = a.shown /\ rdr'.view = a.view
        /\ rdr'.picker = a.picker /\ rdr'.stack = <<f>>
    BY <2>3, <2>1, <1>5 DEF States
  <2>5. /\ rdr'.doc[w] = e /\ rdr'.parser[w] = None /\ rdr'.map[w] = None /\ Held(rdr') = d
        /\ rdr'.has = rdr.has /\ rdr'.alive = rdr.alive \cup {d} /\ rdr'.user = rdr.user
        /\ \A x \in Wins \ {w} : rdr'.doc[x] = rdr.doc[x] /\ rdr'.parser[x] = rdr.parser[x]
                                 /\ rdr'.map[x] = rdr.map[x]
        /\ \A x \in Files \ {w} : rdr'.map[x] = rdr.map[x]
    BY <1>1, <1>3, <1>5, <2>1, <2>4 DEF Held, States, Names
  <2>6. Owned(rdr')
    <3>1. /\ At(rdr, None) = None /\ At(rdr', None) = d
          /\ \A x \in Slots \ {None} : At(rdr', x) = At(rdr, x)
      BY <1>1, <2>5
    <3>2. rdr'.alive = (rdr.alive \cup {d}) \ {At(rdr, None)} /\ None \in Slots
      BY <1>1, <1>2, <2>5, <3>1
    <3> QED
      BY <1>2, <3>1, <3>2, OwnedPut DEF SInv
  <2>7. Whole(rdr')
    <3>1. /\ \A x \in Wins \ {w} : WholeAt(rdr', x)
          /\ \A x \in Files \ {w} : FileWhole(rdr', x)
      BY <1>1, <2>5, <2>4, OthersWhole DEF SInv
    <3>2. WholeAt(rdr', w)
      BY <1>1, <1>2, <1>6, <2>1, <2>4, <2>5 DEF WholeAt
    <3> QED
      BY <3>1, <3>2, <2>5 DEF Whole, SInv
  <2>8. Seen(rdr')
    BY <2>4, <1>1, <1>3, <1>4, <1>5, <1>7 DEF Seen, ViewSound, Attached
  <2>9. Waits(rdr')
    BY <2>4, <2>5, <2>1, <1>1, <1>2, <1>4, <1>5, <1>7 DEF Waits
  <2> QED
    BY <2>4, <2>6, <2>7, <2>8, <2>9 DEF SInv
<1>8. CASE ~(e # None /\ Boxes(rdr, w))
  <2> DEFINE b == IF e = None THEN s ELSE a
  <2>1. rdr' = FinishLoad(b, w, d)
    BY <1>8 DEF Load, d, e
  <2> HIDE DEF a, s
  <2>2. /\ b \in States /\ ViewSound(b) /\ b.map = [s.map EXCEPT ![w] = None] /\ b.dlg = s.dlg
        /\ b.has = s.has /\ b.doc = s.doc /\ b.parser = s.parser
        /\ b.alive = s.alive /\ b.user = s.user /\ b.picker = s.picker /\ b.stack = s.stack
    <3>1. e = None => s.map = [s.map EXCEPT ![w] = None]
      BY <1>1, <1>3 DEF States, Names
    <3> QED
      BY <3>1, <1>3, <1>4, <1>5, <1>8
  <2> HIDE DEF b
  <2>3. b.doc[w] = e /\ b.doc[w] \in b.alive \cup {None} /\ d \in b.alive /\ d # b.doc[w]
        /\ b.map[w] = None /\ None \notin Docs
    BY <1>1, <1>2, <1>3, <2>2, NamesAre DEF States, Names
  <2>4. /\ rdr' \in States /\ rdr'.alive = b.alive \ {b.doc[w]} /\ rdr'.user = (b.user \ {b.doc[w]}) \cup {d}
        /\ rdr'.has = b.has /\ rdr'.doc = [b.doc EXCEPT ![w] = d] /\ rdr'.parser = b.parser
        /\ rdr'.map = [b.map EXCEPT ![w] = d] /\ rdr'.dlg = b.dlg /\ rdr'.shown = b.shown
        /\ rdr'.view = b.view /\ rdr'.picker = b.picker /\ rdr'.stack = b.stack
    <3>1. b \in States
      BY <2>2
    <3> QED
      BY ONLY <2>1, <3>1, <2>3, w \in Wins, FinishLoadIs
  <2>5. /\ rdr'.doc[w] = d /\ rdr'.parser[w] = None /\ rdr'.map[w] = d /\ Held(rdr') = None
        /\ rdr'.has = rdr.has /\ rdr'.alive = (rdr.alive \cup {d}) \ {e}
        /\ rdr'.user = (rdr.user \ {e}) \cup {d}
        /\ \A x \in Wins \ {w} : rdr'.doc[x] = rdr.doc[x] /\ rdr'.parser[x] = rdr.parser[x]
                                 /\ rdr'.map[x] = rdr.map[x]
        /\ \A x \in Files \ {w} : rdr'.map[x] = rdr.map[x]
    BY <1>1, <1>2, <1>3, <2>2, <2>3, <2>4 DEF Held, States, Names
  <2>6. Owned(rdr')
    <3>1. At(rdr, w) = e /\ At(rdr', w) = d
      BY <1>1, <2>5
    <3>2. \A x \in Slots \ {w} : At(rdr', x) = At(rdr, x)
      BY <1>1, <2>5
    <3>3. rdr'.alive = (rdr.alive \cup {d}) \ {At(rdr, w)} /\ w \in Slots
      BY <2>5, <3>1
    <3> QED
      BY <1>2, <3>1, <3>2, <3>3, OwnedPut DEF SInv
  <2>7. Whole(rdr')
    <3>0. \A x \in rdr.alive \ {At(rdr, w), Held(rdr)} :
            x \in rdr'.alive /\ (x \in rdr'.user <=> x \in rdr.user)
      BY <1>1, <1>2, <2>5
    <3>1. /\ \A x \in Wins \ {w} : WholeAt(rdr', x)
          /\ \A x \in Files \ {w} : FileWhole(rdr', x)
      <4>1. Owned(rdr) /\ Whole(rdr) /\ rdr \in States /\ rdr' \in States /\ w \in Slots
            /\ rdr.stack = <<>>
        BY <1>1, <2>4 DEF SInv
      <4> QED
        BY ONLY Constants, <4>1, <3>0, <2>5, OthersWhole
    <3>2. WholeAt(rdr', w)
      BY <1>1, <1>2, <2>5, <2>3 DEF WholeAt
    <3> QED
      BY <1>1, <1>2, <3>1, <3>2, <2>3, <2>5 DEF Whole, SInv
  <2>8. Seen(rdr')
    <3>1. \A n \in Names : b.map[n] # None => rdr'.map[n] = b.map[n]
      BY <2>2, <2>3, <2>4 DEF States
    <3>2. \A f \in Files : f \in Names /\ rdr'.map[f] = b.map[f]
      BY <2>2, <2>4 DEF States, Names
    <3> QED
      BY <2>2, <2>4, <1>1, <1>3, <3>1, <3>2 DEF Seen, ViewSound
  <2>9. Waits(rdr')
    BY <2>2, <2>4, <1>1, <1>3 DEF Waits
  <2> QED
    BY <2>4, <2>6, <2>7, <2>8, <2>9 DEF SInv
<1> QED
  BY <1>7, <1>8

\* A document that a parser writes takes the window's place, or waits with the handler.
LEMMA KeepsWriteBegin ==
  ASSUME Constants, NoLapse', SInv(rdr), NEW w \in Wins, WriteBegin(w)
  PROVE  SInv(rdr')
<1> DEFINE e == rdr.doc[w]
           d == Fresh(rdr)
           s == [rdr EXCEPT !.alive = @ \cup {d}, !.parser[w] = d]
           a == Detach(s, w)
<1> USE AtIs
<1>1. /\ e = rdr.doc[w] /\ rdr \in States /\ rdr.stack = <<>> /\ rdr.picker = {} /\ rdr.dlg # "closed"
      /\ ViewSound(rdr) /\ Held(rdr) = None /\ None \notin rdr.alive /\ e \in rdr.alive \cup {None}
      /\ rdr.parser[w] = None /\ w \in rdr.has
      /\ rdr.map[w] # None => rdr.map[w] = e
  BY ServedAlone DEF WriteBegin
<1>2. d \in Docs /\ d # None /\ d \notin rdr.alive /\ d \notin rdr.user
  BY FreshIs, NamesAre DEF WriteBegin, Room, SInv, Whole
<1> HIDE DEF d, e
<1>3. /\ s \in States /\ s.has = rdr.has /\ s.doc = rdr.doc /\ s.parser = [rdr.parser EXCEPT ![w] = d]
      /\ s.sess = rdr.sess /\ s.alive = rdr.alive \cup {d} /\ s.user = rdr.user
      /\ s.map = rdr.map /\ s.dlg = rdr.dlg /\ s.shown = rdr.shown /\ s.view = rdr.view
      /\ s.picker = rdr.picker /\ s.stack = rdr.stack
  BY <1>1, <1>2 DEF States, Some
<1>4. ViewSound(s) /\ (Boxes(s, w) <=> Boxes(rdr, w))
  <2> HIDE DEF s
  <2> QED BY <1>1, <1>3, BoxesSame DEF ViewSound, Attached
<1>5. /\ a \in States /\ ViewSound(a) /\ a.map = [s.map EXCEPT ![w] = None]
      /\ a.dlg = IF Boxes(s, w) THEN "closed" ELSE s.dlg
      /\ a.sess = s.sess /\ a.has = s.has /\ a.doc = s.doc /\ a.parser = s.parser
      /\ a.alive = s.alive /\ a.user = s.user /\ a.picker = s.picker /\ a.stack = s.stack
  <2> HIDE DEF s
  <2> QED BY <1>3, <1>4, DetachIs
<1>6. WholeAt(rdr, w)
  BY DEF SInv, Whole
<1>7. CASE e # None /\ Boxes(rdr, w)
  <2> DEFINE f == Frame("begin", Owner[w], w, d)
  <2>1. f \in Calls /\ f.op = "begin" /\ f.doc = d /\ f.box /\ f.win = w
    BY <1>1, <1>2 DEF Frame, Calls, States, Some, Constants
  <2>2. rdr' = Push(a, f)
    BY <1>7 DEF WriteBegin, d, e
  <2> HIDE DEF f, a, s
  <2>3. rdr' = [a EXCEPT !.stack = <<f>>]
    BY <2>2, <1>1, <1>3, <1>5, StackOps
  <2>4. /\ rdr' \in States /\ rdr'.has = a.has /\ rdr'.doc = a.doc /\ rdr'.parser = a.parser
        /\ rdr'.alive = a.alive /\ rdr'.user = a.user /\ rdr'.map = a.map
        /\ rdr'.dlg = a.dlg /\ rdr'.shown = a.shown /\ rdr'.view = a.view
        /\ rdr'.picker = a.picker /\ rdr'.stack = <<f>>
    BY <2>3, <2>1, <1>5 DEF States
  <2>5. /\ rdr'.doc[w] = e /\ rdr'.parser[w] = d /\ rdr'.map[w] = None /\ Held(rdr') = d
        /\ rdr'.has = rdr.has /\ rdr'.alive = rdr.alive \cup {d} /\ rdr'.user = rdr.user
        /\ \A x \in Wins \ {w} : rdr'.doc[x] = rdr.doc[x] /\ rdr'.parser[x] = rdr.parser[x]
                                 /\ rdr'.map[x] = rdr.map[x]
        /\ \A x \in Files \ {w} : rdr'.map[x] = rdr.map[x]
    BY <1>1, <1>3, <1>5, <2>1, <2>4 DEF Held, States, Names
  <2>6. Owned(rdr')
    <3>1. /\ At(rdr, None) = None /\ At(rdr', None) = d
          /\ \A x \in Slots \ {None} : At(rdr', x) = At(rdr, x)
      BY <1>1, <2>5
    <3>2. rdr'.alive = (rdr.alive \cup {d}) \ {At(rdr, None)} /\ None \in Slots
      BY <1>1, <1>2, <2>5, <3>1
    <3> QED
      BY <1>2, <3>1, <3>2, OwnedPut DEF SInv
  <2>7. Whole(rdr')
    <3>1. /\ \A x \in Wins \ {w} : WholeAt(rdr', x)
          /\ \A x \in Files \ {w} : FileWhole(rdr', x)
      BY <1>1, <2>5, <2>4, OthersWhole DEF SInv
    <3>2. WholeAt(rdr', w)
      BY <1>1, <1>2, <1>6, <2>1, <2>4, <2>5 DEF WholeAt
    <3> QED
      BY <3>1, <3>2, <2>5 DEF Whole, SInv
  <2>8. Seen(rdr')
    BY <2>4, <1>1, <1>3, <1>4, <1>5, <1>7 DEF Seen, ViewSound, Attached
  <2>9. Waits(rdr')
    BY <2>4, <2>5, <2>1, <1>1, <1>2, <1>4, <1>5, <1>7 DEF Waits
  <2> QED
    BY <2>4, <2>6, <2>7, <2>8, <2>9 DEF SInv
<1>8. CASE ~(e # None /\ Boxes(rdr, w))
  <2> DEFINE b == IF e = None THEN s ELSE a
  <2>1. rdr' = FinishBegin(b, w, d)
    BY <1>8 DEF WriteBegin, d, e
  <2> HIDE DEF a, s
  <2>2. /\ b \in States /\ ViewSound(b) /\ b.map = [s.map EXCEPT ![w] = None] /\ b.dlg = s.dlg
        /\ b.has = s.has /\ b.doc = s.doc /\ b.parser = s.parser
        /\ b.alive = s.alive /\ b.user = s.user /\ b.picker = s.picker /\ b.stack = s.stack
    <3>1. e = None => s.map = [s.map EXCEPT ![w] = None]
      BY <1>1, <1>3 DEF States, Names
    <3> QED
      BY <3>1, <1>3, <1>4, <1>5, <1>8
  <2> HIDE DEF b
  <2>3. b.doc[w] = e /\ b.doc[w] \in b.alive \cup {None} /\ d \in b.alive /\ d # b.doc[w]
        /\ b.map[w] = None /\ None \notin Docs
    BY <1>1, <1>2, <1>3, <2>2, NamesAre DEF States, Names
  <2>4. /\ rdr' \in States /\ rdr'.alive = b.alive \ {b.doc[w]} /\ rdr'.user = b.user \ {b.doc[w]}
        /\ rdr'.has = b.has /\ rdr'.doc = [b.doc EXCEPT ![w] = d] /\ rdr'.parser = b.parser
        /\ rdr'.map = b.map /\ rdr'.dlg = b.dlg /\ rdr'.shown = b.shown
        /\ rdr'.view = b.view /\ rdr'.picker = b.picker /\ rdr'.stack = b.stack
    <3>1. b \in States
      BY <2>2
    <3> QED
      BY ONLY <2>1, <3>1, <2>3, w \in Wins, FinishBeginIs
  <2>5. /\ rdr'.doc[w] = d /\ rdr'.parser[w] = d /\ rdr'.map[w] = None /\ Held(rdr') = None
        /\ rdr'.has = rdr.has /\ rdr'.alive = (rdr.alive \cup {d}) \ {e}
        /\ rdr'.user = rdr.user \ {e}
        /\ \A x \in Wins \ {w} : rdr'.doc[x] = rdr.doc[x] /\ rdr'.parser[x] = rdr.parser[x]
                                 /\ rdr'.map[x] = rdr.map[x]
        /\ \A x \in Files \ {w} : rdr'.map[x] = rdr.map[x]
    BY <1>1, <1>2, <1>3, <2>2, <2>3, <2>4 DEF Held, States, Names
  <2>6. Owned(rdr')
    <3>1. At(rdr, w) = e /\ At(rdr', w) = d
      BY <1>1, <2>5
    <3>2. \A x \in Slots \ {w} : At(rdr', x) = At(rdr, x)
      BY <1>1, <2>5
    <3>3. rdr'.alive = (rdr.alive \cup {d}) \ {At(rdr, w)} /\ w \in Slots
      BY <2>5, <3>1
    <3> QED
      BY <1>2, <3>1, <3>2, <3>3, OwnedPut DEF SInv
  <2>7. Whole(rdr')
    <3>0. \A x \in rdr.alive \ {At(rdr, w), Held(rdr)} :
            x \in rdr'.alive /\ (x \in rdr'.user <=> x \in rdr.user)
      BY <1>1, <1>2, <2>5
    <3>1. /\ \A x \in Wins \ {w} : WholeAt(rdr', x)
          /\ \A x \in Files \ {w} : FileWhole(rdr', x)
      <4>1. Owned(rdr) /\ Whole(rdr) /\ rdr \in States /\ rdr' \in States /\ w \in Slots
            /\ rdr.stack = <<>>
        BY <1>1, <2>4 DEF SInv
      <4> QED
        BY ONLY Constants, <4>1, <3>0, <2>5, OthersWhole
    <3>2. WholeAt(rdr', w)
      BY <1>1, <1>2, <2>5, <2>3 DEF WholeAt
    <3> QED
      BY <1>1, <1>2, <3>1, <3>2, <2>3, <2>5 DEF Whole, SInv
  <2>8. Seen(rdr')
    <3>1. \A n \in Names : b.map[n] # None => rdr'.map[n] = b.map[n]
      BY <2>2, <2>3, <2>4 DEF States
    <3>2. \A f \in Files : f \in Names /\ rdr'.map[f] = b.map[f]
      BY <2>2, <2>4 DEF States, Names
    <3> QED
      BY <2>2, <2>4, <1>1, <1>3, <3>1, <3>2 DEF Seen, ViewSound
  <2>9. Waits(rdr')
    BY <2>2, <2>4, <1>1, <1>3 DEF Waits
  <2> QED
    BY <2>4, <2>6, <2>7, <2>8, <2>9 DEF SInv
<1> QED
  BY <1>7, <1>8

\* The document that is written to exists.
LEMMA KeepsWriteMore ==
  ASSUME Constants, NoLapse', SInv(rdr), NEW w \in Wins, WriteMore(w)
  PROVE  rdr' = rdr
BY DEF WriteMore, Writing, Parse, SInv, Whole, WholeAt

\* A document that is written becomes whole and enters the map.
LEMMA KeepsWriteEnd ==
  ASSUME Constants, NoLapse', SInv(rdr), NEW w \in Wins, WriteEnd(w)
  PROVE  SInv(rdr')
<1> DEFINE e == rdr.doc[w]
           s == [rdr EXCEPT !.parser[w] = None]
           a == [s EXCEPT !.user = @ \cup {e}]
<1> USE AtIs
<1>1. /\ e = rdr.doc[w] /\ rdr \in States /\ rdr.stack = <<>> /\ rdr.picker = {}
      /\ rdr.dlg # "closed" /\ ViewSound(rdr) /\ Held(rdr) = None
      /\ e \in rdr.alive /\ e # None /\ w \in rdr.has
  BY ServedAlone DEF WriteEnd, Writing
<1>2. rdr.parser[w] \in rdr.alive /\ rdr.map[w] = None
  BY DEF WriteEnd, Writing, SInv, Whole, WholeAt
<1>3. rdr' = Attach(Prepare(s, e), w)
  BY <1>2 DEF WriteEnd, Parse
<1> HIDE DEF e
<1>4. /\ s \in States /\ s.parser = [rdr.parser EXCEPT ![w] = None] /\ s.has = rdr.has
      /\ s.doc = rdr.doc /\ s.alive = rdr.alive /\ s.user = rdr.user /\ s.map = rdr.map
      /\ s.dlg = rdr.dlg /\ s.shown = rdr.shown /\ s.view = rdr.view
      /\ s.picker = rdr.picker /\ s.stack = rdr.stack
  BY <1>1 DEF States, Some
<1> HIDE DEF s
<1>5. /\ a \in States /\ a.parser = s.parser /\ a.has = s.has
      /\ a.doc = s.doc /\ a.alive = s.alive /\ a.user = s.user \cup {e} /\ a.map = s.map
      /\ a.dlg = s.dlg /\ a.shown = s.shown /\ a.view = s.view
      /\ a.picker = s.picker /\ a.stack = s.stack
  BY <1>1, <1>4 DEF States
<1>6. Prepare(s, e) = a
  BY <1>1, <1>4 DEF Prepare
<1> HIDE DEF a
<1>7. rdr' = [a EXCEPT !.map[w] = e]
  BY <1>1, <1>2, <1>3, <1>4, <1>5, <1>6 DEF Attach
<1>8. /\ rdr' \in States /\ rdr'.parser = a.parser /\ rdr'.has = a.has
      /\ rdr'.doc = a.doc /\ rdr'.alive = a.alive /\ rdr'.user = a.user
      /\ rdr'.map = [a.map EXCEPT ![w] = e] /\ rdr'.dlg = a.dlg /\ rdr'.shown = a.shown
      /\ rdr'.view = a.view /\ rdr'.picker = a.picker /\ rdr'.stack = a.stack
  <2>1. w \in Names /\ e \in Some
    BY <1>1 DEF Names, Some, States
  <2> QED
    BY <1>5, <1>7, <2>1 DEF States
<1>9. /\ rdr'.doc = rdr.doc /\ rdr'.doc[w] = e /\ rdr'.parser[w] = None /\ rdr'.map[w] = e
      /\ Held(rdr') = None /\ rdr'.has = rdr.has /\ rdr'.alive = rdr.alive
      /\ rdr'.user = rdr.user \cup {e}
      /\ \A x \in Wins \ {w} : rdr'.doc[x] = rdr.doc[x] /\ rdr'.parser[x] = rdr.parser[x]
                               /\ rdr'.map[x] = rdr.map[x]
      /\ \A x \in Files \ {w} : rdr'.map[x] = rdr.map[x]
  BY <1>1, <1>4, <1>5, <1>8 DEF Held, States, Names
<1>10. Owned(rdr')
  <2>1. \A x \in Slots : At(rdr', x) = At(rdr, x)
    BY <1>1, <1>9
  <2> QED
    BY <2>1, <1>9, OwnedSame DEF SInv
<1>11. Whole(rdr')
  <2>1. \A x \in rdr.alive \ {At(rdr, w), Held(rdr)} :
          x \in rdr'.alive /\ (x \in rdr'.user <=> x \in rdr.user)
    BY <1>1, <1>9
  <2>2. /\ \A x \in Wins \ {w} : WholeAt(rdr', x)
        /\ \A x \in Files \ {w} : FileWhole(rdr', x)
    <3>1. Owned(rdr) /\ Whole(rdr) /\ rdr \in States /\ rdr' \in States /\ w \in Slots
          /\ rdr.stack = <<>>
      BY <1>1, <1>8 DEF SInv
    <3> QED
      BY ONLY Constants, <3>1, <2>1, <1>9, OthersWhole
  <2>3. WholeAt(rdr', w)
    BY <1>1, <1>9 DEF WholeAt
  <2> QED
    BY <1>1, <1>9, <2>2, <2>3 DEF Whole, SInv
<1>12. Seen(rdr')
  <2>1. \A n \in Names : rdr.map[n] # None => rdr'.map[n] = rdr.map[n]
    BY <1>2, <1>9 DEF Names
  <2> QED
    BY <1>1, <1>4, <1>5, <1>8, <1>9, <2>1 DEF Seen, ViewSound
<1>13. Waits(rdr')
  BY <1>1, <1>4, <1>5, <1>8 DEF Waits
<1> QED
  BY <1>8, <1>10, <1>11, <1>12, <1>13 DEF SInv

\* A tree whose document is whole can be loaded.
LEMMA LoadIs ==
  ASSUME NEW s, s.view # None, s.view \in s.user, s.user \subseteq s.alive
  PROVE  LoadTree(s) = s
BY DEF LoadTree

\* A request on the document finds it whole, and the viewer shows it again.
LEMMA KeepsDomRequest ==
  ASSUME Constants, NoLapse', SInv(rdr), NEW w \in Wins, DomRequest(w)
  PROVE  rdr' = rdr
<1>1. /\ rdr \in States /\ rdr.dlg # "closed" /\ ViewSound(rdr) /\ WholeAt(rdr, w)
      /\ None \notin rdr.alive
  BY ServedAlone DEF DomRequest, SInv, Whole
<1>2. rdr.doc[w] \in rdr.user /\ rdr.doc[w] \in rdr.alive
  BY <1>1 DEF DomRequest, WholeAt, ViewSound
<1>3. rdr' = Reload(rdr, w)
  BY <1>2 DEF DomRequest
<1>4. CASE rdr.map[w] = None \/ rdr.dlg = "none" \/ rdr.shown # w
  <2>1. rdr.map[w] = None \/ rdr.dlg = "none" \/ rdr.shown # None
    BY <1>1, NamesAre DEF ViewSound, States
  <2> QED
    BY <1>3, <1>4, <2>1 DEF Reload
<1>5. CASE rdr.map[w] # None /\ rdr.dlg # "none" /\ rdr.shown = w
  <2>1. rdr.dlg = "open" /\ w # None /\ rdr.view = rdr.map[w] /\ rdr.map[w] \in rdr.user
    BY <1>1, <1>5, NamesAre DEF ViewSound, States, Names
  <2>2. SetView(rdr, w) = rdr
    BY <1>1, <1>5, <2>1 DEF SetView, States
  <2>3. LoadTree(rdr) = rdr
    BY <1>1, <2>1, <1>5, LoadIs DEF ViewSound
  <2> QED
    BY <1>3, <1>5, <2>1, <2>2, <2>3, NamesAre DEF Reload, Names
<1> QED
  BY <1>4, <1>5

\* The first of some windows, if there is one.
LEMMA LeastIs ==
  ASSUME Constants, NEW W \in SUBSET Wins
  PROVE  /\ W = {} => Least(W) = None
         /\ W # {} => Least(W) \in W /\ \A k \in W : Least(W) <= k
         /\ Least(W) \in Wins \cup {None} /\ (Least(W) = None => W = {})
<1>1. W \in SUBSET Nat /\ None \notin Wins
  BY DEF Constants
<1>2. W # {} => Min(W) \in W /\ \A k \in W : Min(W) <= k
  BY <1>1, LeastOf
<1> QED
  BY <1>1, <1>2 DEF Least

\* A removal starts with the first window of the session.
LEMMA KeepsRemoval ==
  ASSUME Constants, NoLapse', SInv(rdr), NEW c \in Clients, Serving,
         NEW op \in {"end", "leave"}, rdr' = Removal(op, c), Slip({})
  PROVE  SInv(rdr')
<1> DEFINE f == [Frame(op, c, None, None) EXCEPT !.next = Least(WinsOf(rdr, c)), !.box = FALSE]
<1>1. rdr \in States /\ rdr.stack = <<>> /\ rdr.picker = {} /\ rdr.dlg # "closed" /\ Held(rdr) = None
  BY ServedAlone
<1>2. f \in Calls /\ f.op = op /\ f.client = c /\ f.doc = None /\ ~f.box
      /\ f.next = Least(WinsOf(rdr, c))
  <2>1. WinsOf(rdr, c) \in SUBSET Wins
    BY <1>1 DEF WinsOf, States
  <2>2. Least(WinsOf(rdr, c)) \in Wins \cup {None}
    BY <2>1, LeastIs
  <2> QED
    BY <2>2 DEF Frame, Calls, Some
<1>3. rdr' = Push(rdr, f)
  BY DEF Removal
<1> HIDE DEF f
<1>4. rdr' = [rdr EXCEPT !.stack = <<f>>]
  BY <1>1, <1>3, StackOps
<1>5. /\ rdr' \in States /\ rdr'.has = rdr.has /\ rdr'.doc = rdr.doc /\ rdr'.parser = rdr.parser
      /\ rdr'.alive = rdr.alive /\ rdr'.user = rdr.user /\ rdr'.map = rdr.map
      /\ rdr'.dlg = rdr.dlg /\ rdr'.shown = rdr.shown /\ rdr'.view = rdr.view
      /\ rdr'.picker = rdr.picker /\ rdr'.stack = <<f>> /\ Held(rdr') = None
  BY <1>1, <1>2, <1>4 DEF States, Held
<1>6. Owned(rdr')
  <2>1. \A x \in Slots : At(rdr', x) = At(rdr, x)
    BY <1>1, <1>5, AtIs
  <2> QED
    BY <2>1, <1>5, OwnedSame DEF SInv
<1>7. Whole(rdr')
  BY <1>1, <1>5 DEF SInv, Whole, WholeAt, FileWhole
<1>8. Seen(rdr')
  BY <1>1, <1>5 DEF SInv, Seen, Attached
<1>9. Waits(rdr')
  <2>1. WinsOf(rdr', c) = WinsOf(rdr, c) /\ rdr'.stack[1] = f
    BY <1>5 DEF WinsOf
  <2> QED
    BY <1>2, <2>1 DEF Waits
<1> QED
  BY <1>5, <1>6, <1>7, <1>8, <1>9 DEF SInv

\* endSession and a lost connection start a removal.
LEMMA KeepsEnd ==
  ASSUME Constants, NoLapse', SInv(rdr), NEW c \in Clients, EndSession(c) \/ Disconnect(c)
  PROVE  SInv(rdr')
BY KeepsRemoval DEF EndSession, Disconnect

-----------------------------------------------------------------------------
(* The user keeps the invariant.                                           *)

\* Any number of places are emptied, and their documents destroyed.
LEMMA OwnedDropSome ==
  ASSUME NEW s, NEW t, NEW X \in SUBSET Slots, Owned(s), \A x \in X : At(t, x) = None,
         \A y \in Slots \ X : At(t, y) = At(s, y), t.alive = s.alive \ {At(s, x) : x \in X}
  PROVE  Owned(t)
BY DEF Owned

\* What is on the screen changes, and nothing of the documents.
LEMMA ViewKeeps ==
  ASSUME Constants, NEW s, SInv(s), s.stack = <<>>, NEW t \in States,
         t.has = s.has, t.doc = s.doc, t.parser = s.parser, t.alive = s.alive, t.user = s.user,
         t.map = s.map, t.stack = s.stack, Seen(t)
  PROVE  SInv(t)
<1>1. Owned(t)
  <2>1. \A x \in Slots : At(t, x) = At(s, x)
    BY DEF At, Held
  <2> QED
    BY <2>1, OwnedSame DEF SInv
<1>2. Whole(t)
  BY DEF SInv, Whole, WholeAt, FileWhole
<1> QED
  BY <1>1, <1>2 DEF SInv, Waits

\* At the keyboard no handler waits.
LEMMA KeysAlone ==
  ASSUME Constants, SInv(rdr), AtKeyboard
  PROVE  /\ rdr \in States /\ rdr.stack = <<>> /\ rdr.picker = {} /\ Held(rdr) = None
         /\ None \notin rdr.alive /\ rdr.user \subseteq rdr.alive
         /\ \A n \in Names : rdr.map[n] # None => rdr.map[n] \in rdr.user
<1>1. \A w \in Wins : rdr.map[w] # None => rdr.map[w] \in rdr.user
  BY DEF SInv, Whole, WholeAt
<1> QED
  BY <1>1, NamesAre DEF AtKeyboard, SInv, Held, States, Whole, FileWhole, Names

\* A viewer that a box closed is gone, and the map was empty of files.
LEMMA KeepsLeave ==
  ASSUME Constants, SInv(rdr), Leave
  PROVE  SInv(rdr')
<1>1. /\ rdr \in States /\ rdr.stack = <<>> /\ rdr.picker = {} /\ rdr.dlg = "closed"
      /\ rdr' = [rdr EXCEPT !.dlg = "none"]
  BY KeysAlone DEF Leave
<1>2. /\ rdr' \in States /\ rdr'.has = rdr.has /\ rdr'.doc = rdr.doc /\ rdr'.parser = rdr.parser
      /\ rdr'.alive = rdr.alive /\ rdr'.user = rdr.user /\ rdr'.map = rdr.map
      /\ rdr'.dlg = "none" /\ rdr'.shown = rdr.shown /\ rdr'.view = rdr.view
      /\ rdr'.picker = rdr.picker /\ rdr'.stack = rdr.stack
  BY <1>1 DEF States
<1>3. Seen(rdr')
  BY <1>1, <1>2 DEF Seen, SInv
<1> QED
  BY <1>1, <1>2, <1>3, ViewKeeps

\* The viewer opens with the first of the map, or there is a box that says there is none.
LEMMA KeepsShow ==
  ASSUME Constants, SInv(rdr), Show
  PROVE  SInv(rdr')
<1> DEFINE n == First(rdr)
           s == SetView(rdr, n)
           f == Frame("show", None, None, None)
<1>1. /\ rdr \in States /\ rdr.stack = <<>> /\ rdr.picker = {} /\ rdr.dlg = "none"
      /\ Held(rdr) = None /\ None \notin rdr.alive /\ rdr.user \subseteq rdr.alive
      /\ \A x \in Names : rdr.map[x] # None => rdr.map[x] \in rdr.user
  BY KeysAlone DEF Show
<1>2. n = None \/ (n \in Names /\ n # None /\ rdr.map[n] # None)
  BY <1>1, FirstIs, NamesAre
<1> HIDE DEF n
<1>3. /\ s \in States /\ s.has = rdr.has /\ s.doc = rdr.doc /\ s.parser = rdr.parser
      /\ s.alive = rdr.alive /\ s.user = rdr.user /\ s.map = rdr.map /\ s.dlg = "none"
      /\ s.shown = n /\ s.view = (IF n = None THEN None ELSE rdr.map[n])
      /\ s.picker = rdr.picker /\ s.stack = rdr.stack
  BY <1>1, <1>2 DEF SetView, States, Some
<1>4. rdr' = IF s.shown = None THEN Push(s, f) ELSE LoadTree([s EXCEPT !.dlg = "open"])
  BY DEF Show, n
<1> HIDE DEF s
<1>5. CASE n = None
  <2>1. f \in Calls /\ f.op = "show" /\ f.box /\ f.doc = None
    BY DEF Frame, Calls, Some
  <2> HIDE DEF f
  <2>2. rdr' = [s EXCEPT !.stack = <<f>>]
    BY <1>1, <1>3, <1>4, <1>5, StackOps
  <2>3. /\ rdr' \in States /\ rdr'.has = s.has /\ rdr'.doc = s.doc /\ rdr'.parser = s.parser
        /\ rdr'.alive = s.alive /\ rdr'.user = s.user /\ rdr'.map = s.map /\ rdr'.dlg = "none"
        /\ rdr'.shown = s.shown /\ rdr'.view = s.view
        /\ rdr'.picker = s.picker /\ rdr'.stack = <<f>> /\ Held(rdr') = None
    BY <1>3, <2>1, <2>2 DEF States, Held
  <2>4. Owned(rdr')
    <3>1. \A x \in Slots : At(rdr', x) = At(rdr, x)
      BY <1>1, <1>3, <2>3, AtIs
    <3> QED
      BY <3>1, <1>3, <2>3, OwnedSame DEF SInv
  <2>5. Whole(rdr')
    BY <1>1, <1>3, <2>3 DEF SInv, Whole, WholeAt, FileWhole
  <2>6. Seen(rdr')
    BY <1>1, <1>3, <2>3 DEF SInv, Seen
  <2>7. Waits(rdr')
    BY <2>1, <2>3 DEF Waits
  <2> QED
    BY <2>3, <2>4, <2>5, <2>6, <2>7 DEF SInv
<1>6. CASE n # None
  <2> DEFINE u == [s EXCEPT !.dlg = "open"]
  <2>1. /\ u \in States /\ u.has = s.has /\ u.doc = s.doc /\ u.parser = s.parser
        /\ u.alive = s.alive /\ u.user = s.user /\ u.map = s.map /\ u.dlg = "open"
        /\ u.shown = s.shown /\ u.view = s.view /\ u.picker = s.picker /\ u.stack = s.stack
    BY <1>3 DEF States
  <2>2. rdr' = LoadTree(u)
    BY <1>3, <1>4, <1>6
  <2> HIDE DEF u
  <2>3. u.view # None /\ u.view \in u.user /\ u.user \subseteq u.alive
    BY <1>1, <1>2, <1>3, <1>6, <2>1
  <2>4. rdr' = u
    BY <2>2, <2>3, LoadIs
  <2>5. Seen(u)
    BY <1>1, <1>2, <1>3, <1>6, <2>1 DEF Seen
  <2> QED
    BY <1>1, <1>3, <2>1, <2>4, <2>5, ViewKeeps
<1> QED
  BY <1>5, <1>6

\* The list has the names of the map.
LEMMA KeepsOpenList ==
  ASSUME Constants, SInv(rdr), OpenList
  PROVE  SInv(rdr')
<1>1. /\ rdr \in States /\ rdr.stack = <<>> /\ rdr.dlg = "open"
      /\ rdr' = [rdr EXCEPT !.picker = Attached(rdr)]
  BY KeysAlone DEF OpenList
<1>2. /\ rdr' \in States /\ rdr'.has = rdr.has /\ rdr'.doc = rdr.doc /\ rdr'.parser = rdr.parser
      /\ rdr'.alive = rdr.alive /\ rdr'.user = rdr.user /\ rdr'.map = rdr.map
      /\ rdr'.dlg = "open" /\ rdr'.shown = rdr.shown /\ rdr'.view = rdr.view
      /\ rdr'.picker = Attached(rdr) /\ rdr'.stack = rdr.stack
  BY <1>1 DEF States, Attached
<1>3. Seen(rdr')
  BY <1>1, <1>2 DEF Seen, SInv, Attached
<1> QED
  BY <1>1, <1>2, <1>3, ViewKeeps

\* What was picked is still in the map: no request was served while the list was up.
LEMMA KeepsPick ==
  ASSUME Constants, SInv(rdr), NEW n \in Names, Pick(n)
  PROVE  SInv(rdr')
<1> DEFINE s == [rdr EXCEPT !.picker = {}]
<1>1. /\ rdr \in States /\ rdr.stack = <<>> /\ rdr.dlg = "open" /\ rdr.shown \in Names
      /\ rdr.map[n] # None /\ rdr.map[n] \in Docs /\ n # None /\ rdr.shown # None
      /\ rdr.map[rdr.shown] # None /\ rdr.view = rdr.map[rdr.shown]
  BY NamesAre DEF Pick, SInv, Seen, Attached, States, Some
<1>2. /\ rdr.user \subseteq rdr.alive /\ rdr.map[n] \in rdr.user
  BY <1>1 DEF SInv, Whole, WholeAt, FileWhole, Names
<1>3. /\ s \in States /\ s.has = rdr.has /\ s.doc = rdr.doc /\ s.parser = rdr.parser
      /\ s.alive = rdr.alive /\ s.user = rdr.user /\ s.map = rdr.map
      /\ s.dlg = "open" /\ s.shown = rdr.shown /\ s.view = rdr.view
      /\ s.picker = {} /\ s.stack = rdr.stack
  BY <1>1 DEF States
<1>4. rdr' = IF n = rdr.shown THEN s ELSE LoadTree(SetView(s, n))
  BY <1>1 DEF Pick
<1> HIDE DEF s
<1>5. CASE n = rdr.shown
  <2>1. Seen(s)
    BY <1>1, <1>3 DEF Seen
  <2> QED
    BY <1>1, <1>3, <1>4, <1>5, <2>1, ViewKeeps
<1>6. CASE n # rdr.shown
  <2> DEFINE u == [s EXCEPT !.shown = n, !.view = s.map[n]]
  <2>1. rdr' = u
    BY <1>2, <1>3, <1>4, <1>6, ShowIs
  <2>2. /\ u \in States /\ u.has = s.has /\ u.doc = s.doc /\ u.parser = s.parser
        /\ u.alive = s.alive /\ u.user = s.user /\ u.map = s.map /\ u.dlg = s.dlg
        /\ u.shown = n /\ u.view = s.map[n] /\ u.picker = s.picker /\ u.stack = s.stack
    BY <1>3 DEF States
  <2> HIDE DEF u
  <2>3. Seen(u)
    BY <1>1, <1>3, <2>2 DEF Seen
  <2> QED
    BY <1>1, <1>3, <2>1, <2>2, <2>3, ViewKeeps
<1> QED
  BY <1>5, <1>6

\* A file's document is new: no file is in the map when no viewer is open.
LEMMA KeepsOpenFile ==
  ASSUME Constants, NoLapse', SInv(rdr), NEW f \in Files, OpenFile(f)
  PROVE  SInv(rdr')
<1> DEFINE d == Fresh(rdr)
           s == [rdr EXCEPT !.alive = @ \cup {d}, !.user = @ \cup {d}, !.map[f] = d]
           v == SetView(s, f)
           u == [v EXCEPT !.dlg = "open"]
<1> USE AtIs
<1>1. /\ rdr \in States /\ rdr.stack = <<>> /\ rdr.picker = {} /\ rdr.dlg = "none"
      /\ Held(rdr) = None /\ None \notin rdr.alive /\ rdr.user \subseteq rdr.alive
      /\ rdr.map[f] = None /\ f \in Names /\ f # None /\ f \notin Wins
  BY KeysAlone, NamesAre DEF OpenFile, SInv, Seen, Names
<1>2. d \in Docs /\ d # None /\ d \notin rdr.alive
  BY FreshIs, NamesAre DEF OpenFile, Room
<1>3. rdr' = IF v.view = None THEN v ELSE LoadTree(u)
  <2>1. PICK parsed \in {TRUE} \cup {x \in {FALSE} : "file" \in Lapses} :
          LET s0 == IF rdr.map[f] # None \/ ~parsed THEN rdr ELSE v
          IN  /\ rdr' = IF s0.view = None THEN s0 ELSE LoadTree([s0 EXCEPT !.dlg = "open"])
              /\ slips' = slips \cup IF parsed THEN {} ELSE {"file"}
    BY DEF OpenFile
  <2>2. parsed = TRUE
    BY <2>1 DEF NoLapse
  <2> QED
    BY <1>1, <2>1, <2>2
<1> HIDE DEF d
<1>4. /\ s \in States /\ s.alive = rdr.alive \cup {d} /\ s.user = rdr.user \cup {d}
      /\ s.map = [rdr.map EXCEPT ![f] = d] /\ s.has = rdr.has /\ s.doc = rdr.doc
      /\ s.parser = rdr.parser /\ s.picker = rdr.picker /\ s.stack = rdr.stack
  BY <1>1, <1>2 DEF States, Some
<1> HIDE DEF s
<1>5. s.map[f] = d
  BY <1>1, <1>4 DEF States
<1>6. /\ u \in States /\ u.alive = s.alive /\ u.user = s.user /\ u.map = s.map /\ u.has = s.has
      /\ u.doc = s.doc /\ u.parser = s.parser /\ u.picker = s.picker /\ u.stack = s.stack
      /\ u.dlg = "open" /\ u.shown = f /\ u.view = d /\ v.view = d
  BY <1>1, <1>2, <1>4, <1>5 DEF SetView, States, Some
<1> HIDE DEF u, v
<1>7. rdr' = u
  <2>1. u.view # None /\ u.view \in u.user /\ u.user \subseteq u.alive
    BY <1>1, <1>2, <1>4, <1>6
  <2> QED
    BY <1>2, <1>3, <1>6, <2>1, LoadIs
<1>8. /\ rdr'.alive = rdr.alive \cup {d} /\ rdr'.user = rdr.user \cup {d} /\ rdr'.map[f] = d
      /\ rdr'.has = rdr.has /\ rdr'.doc = rdr.doc /\ rdr'.parser = rdr.parser /\ Held(rdr') = None
      /\ \A x \in Wins : rdr'.map[x] = rdr.map[x]
      /\ \A x \in Files \ {f} : rdr'.map[x] = rdr.map[x]
  BY <1>1, <1>4, <1>5, <1>6, <1>7 DEF Held, States, Names
<1>9. Owned(rdr')
  <2>1. At(rdr, f) = None /\ At(rdr', f) = d /\ f \in Slots
    BY <1>1, <1>8
  <2>2. \A x \in Slots \ {f} : At(rdr', x) = At(rdr, x)
    BY <1>1, <1>8
  <2>3. rdr'.alive = (rdr.alive \cup {d}) \ {At(rdr, f)}
    BY <1>1, <1>2, <1>8, <2>1
  <2> QED
    BY <1>2, <2>1, <2>2, <2>3, OwnedPut DEF SInv
<1>10. Whole(rdr')
  <2>1. \A x \in rdr.alive \ {At(rdr, f), Held(rdr)} :
          x \in rdr'.alive /\ (x \in rdr'.user <=> x \in rdr.user)
    BY <1>2, <1>8
  <2>2. /\ \A x \in Wins \ {f} : WholeAt(rdr', x)
        /\ \A x \in Files \ {f} : FileWhole(rdr', x)
    <3>1. Owned(rdr) /\ Whole(rdr) /\ rdr \in States /\ rdr' \in States /\ f \in Slots
          /\ rdr.stack = <<>>
      BY <1>1, <1>6, <1>7 DEF SInv
    <3> QED
      BY ONLY Constants, <3>1, <2>1, <1>8, OthersWhole
  <2> QED
    BY <1>1, <1>8, <2>2 DEF Whole, FileWhole
<1>11. Seen(rdr')
  BY <1>1, <1>2, <1>4, <1>5, <1>6, <1>7 DEF Seen
<1> QED
  BY <1>1, <1>4, <1>6, <1>7, <1>9, <1>10, <1>11 DEF SInv, Waits

\* What is closed leaves the map; a file's document is destroyed, a window's stays.
LEMMA KeepsClose ==
  ASSUME Constants, SInv(rdr), CloseShown
  PROVE  SInv(rdr')
<1> DEFINE n == rdr.shown
           e == rdr.map[n]
           t == [rdr EXCEPT !.map[n] = None]
           s == IF n \in Files THEN Destroy(t, e) ELSE t
           m == First(s)
           v == SetView(s, m)
           u == [v EXCEPT !.dlg = "none"]
<1> USE AtIs
<1>1. /\ rdr \in States /\ rdr.stack = <<>> /\ rdr.picker = {} /\ rdr.dlg = "open"
      /\ Held(rdr) = None /\ None \notin rdr.alive /\ rdr.user \subseteq rdr.alive
      /\ n = rdr.shown /\ e = rdr.map[n]
      /\ n \in Names /\ n # None /\ e # None /\ e \in rdr.user
      /\ \A x \in Names : rdr.map[x] # None => rdr.map[x] \in rdr.user
  BY KeysAlone, NamesAre DEF CloseShown, SInv, Seen
<1>2. rdr' = IF v.shown = None THEN u ELSE LoadTree(v)
  BY <1>1 DEF CloseShown
<1> HIDE DEF n, e
<1>3. /\ t \in States /\ t.map = [rdr.map EXCEPT ![n] = None] /\ t.alive = rdr.alive
      /\ t.user = rdr.user /\ t.has = rdr.has /\ t.doc = rdr.doc
      /\ t.parser = rdr.parser /\ t.picker = rdr.picker /\ t.stack = rdr.stack
      /\ t.dlg = rdr.dlg
  BY <1>1 DEF States, Some
<1> HIDE DEF t
<1> DEFINE g == IF n \in Files THEN e ELSE None
<1>4. /\ s \in States /\ s.map = t.map /\ s.alive = t.alive \ {g}
      /\ s.user = t.user \ {g} /\ s.has = t.has /\ s.doc = t.doc
      /\ s.parser = t.parser /\ s.picker = t.picker /\ s.stack = t.stack /\ s.dlg = t.dlg
  <2>1. CASE n \in Files
    <3>1. e \in t.alive \cup {None}
      BY <1>1, <1>3
    <3> QED
      BY <2>1, <3>1, <1>3, DestroyIs, NamesAre
  <2>2. CASE n \notin Files
    BY <2>2, <1>1, <1>3
  <2> QED
    BY <2>1, <2>2
<1> HIDE DEF s, g
<1>5. /\ s.alive = rdr.alive \ {g} /\ s.user = rdr.user \ {g} /\ s.map[n] = None
      /\ s.has = rdr.has /\ s.doc = rdr.doc /\ s.parser = rdr.parser /\ Held(s) = None
      /\ \A x \in Names \ {n} : s.map[x] = rdr.map[x]
  BY <1>1, <1>3, <1>4 DEF Held, States
<1>6. Owned(s)
  <2>1. CASE n \in Files
    <3>1. At(rdr, n) = e /\ At(s, n) = None /\ n \in Slots /\ g = e
      BY <1>1, <1>5, <2>1 DEF g
    <3>2. \A x \in Slots \ {n} : At(s, x) = At(rdr, x)
      BY <1>1, <1>5, <2>1 DEF Names
    <3>3. s.alive = rdr.alive \ {At(rdr, n)}
      BY <1>5, <3>1
    <3> QED
      BY <3>1, <3>2, <3>3, OwnedDrop DEF SInv
  <2>2. CASE n \notin Files
    <3>1. \A x \in Slots : At(s, x) = At(rdr, x)
      BY <1>1, <1>5, <2>2 DEF Names
    <3>2. s.alive = rdr.alive
      BY <1>1, <1>5, <2>2 DEF g
    <3> QED
      BY <3>1, <3>2, OwnedSame DEF SInv
  <2> QED
    BY <2>1, <2>2
<1>7. Whole(s) /\ \A x \in Names : s.map[x] # None => s.map[x] \in s.user
  <2>1. g = None \/ (n \in Files /\ g = At(rdr, n))
    BY <1>1 DEF g
  <2>2. \A x \in rdr.alive \ {At(rdr, n), Held(rdr)} :
          x \in s.alive /\ (x \in s.user <=> x \in rdr.user)
    BY <1>1, <1>5, <2>1
  <2>3. /\ \A x \in Wins \ {n} : WholeAt(s, x)
        /\ \A x \in Files \ {n} : FileWhole(s, x)
    <3>1. Owned(rdr) /\ Whole(rdr) /\ rdr \in States /\ s \in States /\ n \in Slots
          /\ rdr.stack = <<>>
      BY <1>1, <1>4 DEF SInv, Slots
    <3>2. \A x \in Wins \ {n} : s.doc[x] = rdr.doc[x] /\ s.parser[x] = rdr.parser[x]
                               /\ s.map[x] = rdr.map[x] /\ (x \in rdr.has => x \in s.has)
      BY <1>5 DEF Names
    <3>3. \A x \in Files \ {n} : s.map[x] = rdr.map[x]
      BY <1>5 DEF Names
    <3> QED
      BY ONLY Constants, <3>1, <3>2, <3>3, <2>2, OthersWhole
  <2>4. ASSUME n \in Wins
        PROVE  WholeAt(s, n)
    <3>1. s.alive = rdr.alive /\ s.user = rdr.user
      BY <1>1, <1>5, <2>1, <2>4
    <3>2. WholeAt(rdr, n)
      BY <2>4 DEF SInv, Whole
    <3> QED
      BY <1>1, <1>5, <3>1, <3>2 DEF WholeAt
  <2>5. FileWhole(s, n)
    BY <1>5 DEF FileWhole
  <2>6. Whole(s)
    BY <1>1, <1>5, <2>3, <2>4, <2>5 DEF Whole
  <2> QED
    BY <2>6 DEF Whole, WholeAt, FileWhole, Names
<1>8. (m = None /\ Attached(s) = {}) \/ (m \in Names /\ m # None /\ s.map[m] # None)
  BY <1>4, FirstIs, NamesAre
<1> HIDE DEF m
<1>9. /\ v \in States /\ v.has = s.has /\ v.doc = s.doc /\ v.parser = s.parser
      /\ v.alive = s.alive /\ v.user = s.user /\ v.map = s.map /\ v.dlg = s.dlg
      /\ v.shown = m /\ v.view = (IF m = None THEN None ELSE s.map[m])
      /\ v.picker = s.picker /\ v.stack = s.stack
  BY <1>4, <1>8 DEF SetView, States, Some
<1> HIDE DEF v
<1>10. /\ rdr' \in States /\ rdr'.has = s.has /\ rdr'.doc = s.doc /\ rdr'.parser = s.parser
       /\ rdr'.alive = s.alive /\ rdr'.user = s.user /\ rdr'.map = s.map
       /\ rdr'.shown = v.shown /\ rdr'.view = v.view
       /\ rdr'.dlg = (IF m = None THEN "none" ELSE s.dlg)
       /\ rdr'.picker = s.picker /\ rdr'.stack = s.stack
  <2>1. CASE m = None
    BY <1>2, <1>9, <2>1 DEF States
  <2>2. CASE m # None
    <3>1. v.view # None /\ v.view \in v.user /\ v.user \subseteq v.alive
      BY <1>7, <1>8, <1>9, <2>2 DEF Whole
    <3>2. rdr' = v
      BY <1>2, <1>9, <2>2, <3>1, LoadIs
    <3> QED
      BY <1>9, <2>2, <3>2
  <2> QED
    BY <2>1, <2>2
<1>11. Owned(rdr')
  <2>1. \A x \in Slots : At(rdr', x) = At(s, x)
    BY <1>10 DEF Held
  <2> QED
    BY <1>6, <1>10, <2>1, OwnedSame
<1>12. Whole(rdr')
  BY <1>7, <1>10 DEF Whole, WholeAt, FileWhole
<1>13. Seen(rdr')
  BY <1>1, <1>3, <1>4, <1>8, <1>9, <1>10 DEF Seen, Attached, Names
<1> QED
  BY <1>1, <1>3, <1>4, <1>10, <1>11, <1>12, <1>13 DEF SInv, Waits

\* The files are unloaded; what the view keeps is not looked at.
LEMMA KeepsQuit ==
  ASSUME Constants, SInv(rdr), Quit
  PROVE  SInv(rdr')
<1> DEFINE gone == {rdr.map[f] : f \in Files} \ {None}
           s == [rdr EXCEPT !.map = [n \in Names |-> IF n \in Files THEN None ELSE rdr.map[n]],
                            !.alive = @ \ gone, !.user = @ \ gone, !.dlg = "none"]
<1> USE AtIs
<1>1. /\ rdr \in States /\ rdr.stack = <<>> /\ rdr.picker = {}
      /\ Held(rdr) = None /\ None \notin rdr.alive /\ rdr.user \subseteq rdr.alive
  BY KeysAlone DEF Quit
<1>2. rdr' = SetView(s, First(s))
  BY DEF Quit
<1>3. gone = {rdr.map[f] : f \in Files} \ {None}
  OBVIOUS
<1> HIDE DEF gone
<1>4. /\ s \in States /\ s.alive = rdr.alive \ gone /\ s.user = rdr.user \ gone
      /\ s.map = [n \in Names |-> IF n \in Files THEN None ELSE rdr.map[n]]
      /\ s.has = rdr.has /\ s.doc = rdr.doc /\ s.dlg = "none"
      /\ s.parser = rdr.parser /\ s.picker = rdr.picker /\ s.stack = rdr.stack
  <2>1. [n \in Names |-> IF n \in Files THEN None ELSE rdr.map[n]] \in [Names -> Some]
    BY <1>1 DEF States, Some
  <2> QED
    BY <1>1, <2>1 DEF States
<1> HIDE DEF s
<1>5. /\ rdr' \in States /\ rdr'.has = s.has /\ rdr'.doc = s.doc /\ rdr'.parser = s.parser
      /\ rdr'.alive = s.alive /\ rdr'.user = s.user /\ rdr'.map = s.map /\ rdr'.dlg = s.dlg
      /\ rdr'.picker = s.picker /\ rdr'.stack = s.stack
  <2>1. First(s) = None \/ (First(s) \in Names /\ s.map[First(s)] \in Some)
    BY <1>4, FirstIs DEF States
  <2> QED
    BY <1>2, <1>4, <2>1 DEF SetView, States, Some
<1>6. /\ Held(rdr') = None /\ \A f \in Files : rdr'.map[f] = None
      /\ \A w \in Wins : rdr'.map[w] = rdr.map[w]
  BY <1>1, <1>4, <1>5 DEF Held, Names
<1>7. Owned(rdr')
  <2>1. \A f \in Files : At(rdr', f) = None
    BY <1>6
  <2>2. \A x \in Slots \ Files : At(rdr', x) = At(rdr, x)
    BY <1>1, <1>4, <1>5, <1>6
  <2>3. rdr'.alive = rdr.alive \ {At(rdr, f) : f \in Files}
    BY <1>1, <1>3, <1>4, <1>5
  <2> QED
    BY <2>1, <2>2, <2>3, OwnedDropSome DEF SInv
<1>8. Whole(rdr')
  <2>1. ASSUME NEW w \in Wins
        PROVE  WholeAt(rdr', w)
    <3>1. WholeAt(rdr, w)
      BY DEF SInv, Whole
    <3>2. rdr.doc[w] # None => rdr.doc[w] \in rdr.alive /\ rdr.doc[w] \notin gone
      <4>1. \A f \in Files : f # w /\ f \in Slots /\ w \in Slots /\ At(rdr, f) = rdr.map[f]
                             /\ At(rdr, w) = rdr.doc[w]
        OBVIOUS
      <4> QED
        BY <4>1, <1>3 DEF SInv, Owned
    <3>3. rdr.parser[w] # None => rdr.doc[w] = rdr.parser[w]
      BY <1>1, <3>1 DEF WholeAt
    <3> QED
      BY <1>1, <1>4, <1>5, <1>6, <3>1, <3>2, <3>3 DEF WholeAt
  <2>2. \A f \in Files : FileWhole(rdr', f)
    BY <1>6 DEF FileWhole
  <2> QED
    BY <1>1, <1>4, <1>5, <2>1, <2>2 DEF Whole
<1>9. Seen(rdr')
  BY <1>1, <1>4, <1>5, <1>6 DEF Seen
<1> QED
  BY <1>1, <1>4, <1>5, <1>7, <1>8, <1>9 DEF SInv, Waits

-----------------------------------------------------------------------------
(* The handlers go on, and keep the invariant.                             *)

\* What is known while a handler is on the stack.
LEMMA StackAlone ==
  ASSUME Constants, SInv(rdr), rdr.stack # <<>>
  PROVE  /\ rdr \in States /\ rdr.picker = {} /\ ViewSound(rdr) /\ None \notin rdr.alive
         /\ Top(rdr) = rdr.stack[1] /\ Top(rdr) \in Calls /\ Held(rdr) = Top(rdr).doc
         /\ Held(rdr) \in rdr.alive \cup {None}
         /\ \A w \in Wins : /\ rdr.doc[w] \in rdr.alive \cup {None}
                            /\ rdr.doc[w] # None => rdr.doc[w] # Held(rdr)
<1>1. rdr \in States /\ rdr.picker = {} /\ ViewSound(rdr) /\ None \notin rdr.alive
  BY ViewIs, NamesAre DEF SInv, Seen, States
<1>2. Top(rdr) = rdr.stack[1] /\ Top(rdr) \in Calls /\ Held(rdr) = Top(rdr).doc
  BY <1>1, StackOps DEF Held
<1>3. Held(rdr) # None => Held(rdr) \in rdr.alive
  BY AtIs DEF SInv, Owned
<1>4. ASSUME NEW w \in Wins
      PROVE  /\ rdr.doc[w] \in rdr.alive \cup {None}
             /\ rdr.doc[w] # None => rdr.doc[w] # Held(rdr)
  <2>1. At(rdr, w) = rdr.doc[w] /\ At(rdr, None) = Held(rdr) /\ w # None
        /\ w \in Slots /\ None \in Slots
    BY AtIs
  <2> QED
    BY <2>1 DEF SInv, Owned
<1> QED
  BY <1>1, <1>2, <1>3, <1>4

\* The next window of the session goes, and its document with it, or after the box.
LEMMA KeepsRemoveNext ==
  ASSUME Constants, NoLapse', SInv(rdr), RemoveNext
  PROVE  SInv(rdr')
<1> DEFINE f == Top(rdr)
           w == f.next
           d == rdr.doc[w]
           g == [f EXCEPT !.next = Least({x \in WinsOf(rdr, f.client) : x > w})]
           r == SetTop(rdr, g)
           s == DropWindow(r, w)
           h == [g EXCEPT !.box = TRUE, !.doc = d]
           a == Detach(s, w)
<1> USE AtIs
<1>1. /\ rdr \in States /\ rdr.stack # <<>> /\ rdr.picker = {} /\ ViewSound(rdr)
      /\ None \notin rdr.alive /\ f \in Calls /\ f = rdr.stack[1] /\ ~f.box /\ w # None
      /\ f.op \in {"end", "leave"} /\ f.doc = None /\ Held(rdr) = None
      /\ w = Least(WinsOf(rdr, f.client)) /\ f.client \in Clients
  BY StackAlone DEF RemoveNext, SInv, Waits, Calls
<1>2. /\ w \in rdr.has /\ w \in Wins /\ Owner[w] = f.client
      /\ \A x \in WinsOf(rdr, f.client) : w <= x /\ w \in Nat /\ x \in Nat
  <2>1. WinsOf(rdr, f.client) \in SUBSET Wins
    BY <1>1 DEF WinsOf, States
  <2>2. w \in WinsOf(rdr, f.client) /\ \A x \in WinsOf(rdr, f.client) : w <= x
    BY <1>1, <2>1, LeastIs
  <2> QED
    BY <2>1, <2>2 DEF WinsOf, Constants
<1>3. /\ d \in rdr.alive \cup {None} /\ WholeAt(rdr, w)
      /\ rdr.parser[w] # None => d = rdr.parser[w]
      /\ rdr.map[w] # None => rdr.map[w] = d
  <2>1. d \in rdr.alive \cup {None}
    BY <1>1, <1>2, StackAlone
  <2>2. WholeAt(rdr, w)
    BY <1>2 DEF SInv, Whole
  <2> QED
    BY <1>1, <2>1, <2>2 DEF WholeAt
<1>4. /\ g \in Calls /\ g.op = f.op /\ g.client = f.client /\ g.doc = None /\ ~g.box
      /\ g.next = Least({x \in WinsOf(rdr, f.client) : x > w})
  <2>1. {x \in WinsOf(rdr, f.client) : x > w} \in SUBSET Wins
    BY <1>1 DEF WinsOf, States
  <2>2. Least({x \in WinsOf(rdr, f.client) : x > w}) \in Wins \cup {None}
    BY <2>1, LeastIs
  <2> HIDE DEF w
  <2> QED
    BY <1>1, <2>2 DEF Calls
<1>5. /\ h \in Calls /\ h.op = g.op /\ h.client = g.client /\ h.doc = d /\ h.box
      /\ h.next = g.next
  <2>1. d \in Some
    BY <1>1, <1>3 DEF Some, States
  <2> HIDE DEF d, g
  <2> QED
    BY <1>4, <2>1 DEF Calls
<1>6. {x \in WinsOf(rdr, f.client) : x > w} = {x \in rdr.has \ {w} : Owner[x] = f.client}
  BY <1>2 DEF WinsOf
<1>7. r = [rdr EXCEPT !.stack = <<g>>]
  BY <1>1, StackOps
<1>8. rdr' = IF d # None /\ Boxes(rdr, w) THEN Detach(SetTop(s, h), w)
             ELSE Destroy(IF d = None THEN s ELSE a, d)
  BY <1>2 DEF RemoveNext
<1>9. f = Top(rdr) /\ w = f.next /\ d = rdr.doc[w]
  OBVIOUS
<1> HIDE DEF f, w, d, g, h
<1>10. /\ r \in States /\ r.has = rdr.has /\ r.doc = rdr.doc /\ r.parser = rdr.parser
       /\ r.alive = rdr.alive /\ r.user = rdr.user /\ r.map = rdr.map /\ r.dlg = rdr.dlg
       /\ r.shown = rdr.shown /\ r.view = rdr.view /\ r.picker = rdr.picker /\ r.stack = <<g>>
  BY <1>1, <1>4, <1>7 DEF States
<1> HIDE DEF r
<1>11. /\ s \in States /\ s.has = r.has \ {w}
       /\ s.doc = [r.doc EXCEPT ![w] = None] /\ s.parser = [r.parser EXCEPT ![w] = None]
       /\ s.sess = r.sess /\ s.alive = r.alive /\ s.user = r.user
       /\ s.map = r.map /\ s.dlg = r.dlg /\ s.shown = r.shown /\ s.view = r.view
       /\ s.picker = r.picker /\ s.stack = r.stack
  <2>1. r.stack # <<>> => r.stack[1].op \notin {"load", "begin"}
    BY <1>1, <1>4, <1>10
  <2> QED
    BY <1>2, <1>10, <2>1, DropIs
<1> HIDE DEF s
<1>12. CASE d # None /\ Boxes(rdr, w)
  <2> DEFINE u == [s EXCEPT !.stack = <<h>>]
             t == Detach(u, w)
  <2>1. rdr' = t
    <3>1. SetTop(s, h) = u
      BY <1>10, <1>11, StackOps
    <3> QED
      BY <1>8, <1>12, <3>1
  <2>2. /\ u \in States /\ u.has = s.has /\ u.doc = s.doc /\ u.parser = s.parser
        /\ u.alive = s.alive /\ u.user = s.user /\ u.map = s.map /\ u.dlg = s.dlg
        /\ u.shown = s.shown /\ u.view = s.view /\ u.picker = s.picker /\ u.stack = <<h>>
    BY <1>5, <1>11 DEF States
  <2> HIDE DEF u
  <2>3. ViewSound(u) /\ Boxes(u, w)
    BY <1>1, <1>10, <1>11, <1>12, <2>2, BoxesSame DEF ViewSound, Attached
  <2>4. /\ rdr' \in States /\ ViewSound(rdr') /\ rdr'.map = [u.map EXCEPT ![w] = None]
        /\ rdr'.dlg = "closed" /\ rdr'.has = u.has /\ rdr'.doc = u.doc
        /\ rdr'.parser = u.parser /\ rdr'.alive = u.alive /\ rdr'.user = u.user
        /\ rdr'.picker = u.picker /\ rdr'.stack = u.stack
    BY <1>2, <2>1, <2>2, <2>3, DetachIs
  <2>5. /\ rdr'.doc[w] = None /\ rdr'.parser[w] = None /\ rdr'.map[w] = None /\ Held(rdr') = d
        /\ rdr'.has = rdr.has \ {w} /\ rdr'.alive = rdr.alive /\ rdr'.user = rdr.user
        /\ \A x \in Wins \ {w} : rdr'.doc[x] = rdr.doc[x] /\ rdr'.parser[x] = rdr.parser[x]
                                 /\ rdr'.map[x] = rdr.map[x]
        /\ \A x \in Files \ {w} : rdr'.map[x] = rdr.map[x]
    BY <1>1, <1>2, <1>5, <1>10, <1>11, <2>2, <2>4 DEF Held, States, Names
  <2>6. Owned(rdr')
    <3>1. /\ At(rdr, w) = d /\ At(rdr, None) = None /\ At(rdr', w) = None /\ At(rdr', None) = d
      BY <1>1, <1>2, <1>9, <2>5
    <3>2. \A x \in Slots \ {w, None} : At(rdr', x) = At(rdr, x)
      BY <2>5
    <3>3. rdr'.alive = rdr.alive \ {At(rdr, None)} /\ w \in Slots /\ None \in Slots
      BY <1>1, <1>2, <2>5, <3>1
    <3> QED
      BY <1>1, <3>1, <3>2, <3>3, OwnedMove DEF SInv
  <2>7. Whole(rdr')
    <3>1. \A x \in rdr.alive \ {At(rdr, w), Held(rdr)} :
            x \in rdr'.alive /\ (x \in rdr'.user <=> x \in rdr.user)
      BY <2>5
    <3>2. /\ \A x \in Wins \ {w} : WholeAt(rdr', x)
          /\ \A x \in Files \ {w} : FileWhole(rdr', x)
      <4>1. Owned(rdr) /\ Whole(rdr) /\ rdr \in States /\ rdr' \in States /\ w \in Slots
            /\ rdr.stack[1].op # "begin"
        BY <1>1, <1>2, <2>4 DEF SInv
      <4>2. \A x \in Wins \ {w} : x \in rdr.has => x \in rdr'.has
        BY <2>5
      <4> QED
        BY ONLY Constants, <4>1, <4>2, <3>1, <2>5, OthersWhole
    <3>3. WholeAt(rdr', w)
      BY <2>5 DEF WholeAt
    <3> QED
      BY <1>2, <2>5, <3>2, <3>3 DEF Whole, SInv
  <2>8. Seen(rdr')
    BY <1>1, <1>10, <1>11, <2>2, <2>4 DEF Seen, ViewSound
  <2>9. Waits(rdr')
    <3>1. WinsOf(rdr', f.client) = {x \in rdr.has \ {w} : Owner[x] = f.client}
      BY <2>5 DEF WinsOf
    <3>2. rdr'.stack[1] = h
      BY <2>2, <2>4
    <3> QED
      <4>1. /\ h.op \in {"end", "leave"} /\ h.box /\ h.doc # None /\ h.client \in Clients
            /\ rdr'.dlg = "closed" /\ h.next = Least(WinsOf(rdr', h.client))
        <5>1. h.client = f.client /\ h.next = Least(WinsOf(rdr', f.client))
          BY <1>4, <1>5, <1>6, <3>1
        <5>2. h.op \in {"end", "leave"} /\ h.client \in Clients
          BY <1>1, <1>4, <1>5
        <5>3. h.box /\ h.doc # None /\ rdr'.dlg = "closed"
          BY <1>5, <1>12, <2>4
        <5> QED
          BY <5>1, <5>2, <5>3
      <4> QED
        BY ONLY <4>1, <3>2 DEF Waits
  <2> QED
    BY <2>4, <2>6, <2>7, <2>8, <2>9 DEF SInv
<1>13. CASE ~(d # None /\ Boxes(rdr, w))
  <2> DEFINE b == IF d = None THEN s ELSE a
  <2>1. rdr' = Destroy(b, d)
    BY <1>8, <1>13
  <2>2. /\ b \in States /\ ViewSound(b) /\ b.map = [s.map EXCEPT ![w] = None] /\ b.dlg = s.dlg
        /\ b.has = s.has /\ b.doc = s.doc /\ b.parser = s.parser
        /\ b.alive = s.alive /\ b.user = s.user /\ b.picker = s.picker /\ b.stack = s.stack
    <3>1. ViewSound(s) /\ (Boxes(s, w) <=> Boxes(rdr, w))
      BY <1>1, <1>10, <1>11, BoxesSame DEF ViewSound, Attached
    <3>2. CASE d = None
      <4>1. s.map = [s.map EXCEPT ![w] = None]
        BY <1>1, <1>2, <1>3, <1>10, <1>11, <3>2 DEF States, Names
      <4> QED
        BY <4>1, <1>11, <3>1, <3>2
    <3>3. CASE d # None
      BY <1>2, <1>11, <1>13, <3>1, <3>3, DetachIs
    <3> QED
      BY <3>2, <3>3
  <2> HIDE DEF b
  <2>3. /\ rdr' \in States /\ rdr'.alive = b.alive \ {d} /\ rdr'.user = b.user \ {d}
        /\ rdr'.has = b.has /\ rdr'.doc = b.doc /\ rdr'.parser = b.parser
        /\ rdr'.map = b.map /\ rdr'.dlg = b.dlg /\ rdr'.shown = b.shown /\ rdr'.view = b.view
        /\ rdr'.picker = b.picker /\ rdr'.stack = b.stack
    <3>1. d \in b.alive \cup {None}
      BY <1>3, <1>10, <1>11, <2>2
    <3> QED
      BY <2>1, <2>2, <3>1, DestroyIs, NamesAre
  <2>5. /\ rdr'.doc[w] = None /\ rdr'.parser[w] = None /\ rdr'.map[w] = None /\ Held(rdr') = None
        /\ rdr'.has = rdr.has \ {w} /\ rdr'.alive = rdr.alive \ {d} /\ rdr'.user = rdr.user \ {d}
        /\ \A x \in Wins \ {w} : rdr'.doc[x] = rdr.doc[x] /\ rdr'.parser[x] = rdr.parser[x]
                                 /\ rdr'.map[x] = rdr.map[x]
        /\ \A x \in Files \ {w} : rdr'.map[x] = rdr.map[x]
    BY <1>1, <1>2, <1>4, <1>10, <1>11, <2>2, <2>3 DEF Held, States, Names
  <2>6. Owned(rdr')
    <3>1. At(rdr, w) = d /\ At(rdr', w) = None /\ w \in Slots
      BY <1>2, <1>9, <2>5
    <3>2. \A x \in Slots \ {w} : At(rdr', x) = At(rdr, x)
      BY <1>1, <2>5
    <3>3. rdr'.alive = rdr.alive \ {At(rdr, w)}
      BY <2>5, <3>1
    <3> QED
      BY <3>1, <3>2, <3>3, OwnedDrop DEF SInv
  <2>7. Whole(rdr')
    <3>1. \A x \in rdr.alive \ {At(rdr, w), Held(rdr)} :
            x \in rdr'.alive /\ (x \in rdr'.user <=> x \in rdr.user)
      BY <1>2, <1>9, <2>5
    <3>2. /\ \A x \in Wins \ {w} : WholeAt(rdr', x)
          /\ \A x \in Files \ {w} : FileWhole(rdr', x)
      <4>1. Owned(rdr) /\ Whole(rdr) /\ rdr \in States /\ rdr' \in States /\ w \in Slots
            /\ rdr.stack[1].op # "begin"
        BY <1>1, <1>2, <2>3 DEF SInv
      <4>2. \A x \in Wins \ {w} : x \in rdr.has => x \in rdr'.has
        BY <2>5
      <4> QED
        BY ONLY Constants, <4>1, <4>2, <3>1, <2>5, OthersWhole
    <3>3. WholeAt(rdr', w)
      BY <2>5 DEF WholeAt
    <3> QED
      BY <1>2, <2>5, <3>2, <3>3 DEF Whole, SInv
  <2>8. Seen(rdr')
    BY <1>1, <1>10, <1>11, <2>2, <2>3 DEF Seen, ViewSound, Attached
  <2>9. Waits(rdr')
    <3>1. WinsOf(rdr', f.client) = {x \in rdr.has \ {w} : Owner[x] = f.client}
      BY <2>5 DEF WinsOf
    <3>2. rdr'.stack[1] = g
      BY <1>10, <1>11, <2>2, <2>3
    <3> QED
      BY <1>1, <1>4, <1>6, <3>1, <3>2 DEF Waits
  <2> QED
    BY <2>3, <2>6, <2>7, <2>8, <2>9 DEF SInv
<1> QED
  BY <1>12, <1>13

\* No window of the session is left when it is freed.
LEMMA KeepsRemoveDone ==
  ASSUME Constants, NoLapse', SInv(rdr), RemoveDone
  PROVE  SInv(rdr')
<1> DEFINE f == Top(rdr)
           s == Pop(rdr)
           P == {i \in DOMAIN s.stack : /\ s.stack[i].client = f.client
                                        /\ f.op = "leave" \/ s.stack[i].op \in {"end", "leave"}}
           over == IF f.op = "leave" THEN "off" ELSE "over"
<1>1. /\ rdr \in States /\ rdr.stack # <<>> /\ rdr.picker = {} /\ ViewSound(rdr)
      /\ f \in Calls /\ f = rdr.stack[1] /\ ~f.box /\ f.next = None
      /\ f.op \in {"end", "leave"} /\ f.doc = None /\ Held(rdr) = None
      /\ f.next = Least(WinsOf(rdr, f.client)) /\ f.client \in Clients /\ ~f.stale
  BY StackAlone DEF RemoveDone, SInv, Waits, Calls
<1>2. WinsOf(rdr, f.client) = {}
  <2>1. WinsOf(rdr, f.client) \in SUBSET Wins
    BY <1>1 DEF WinsOf, States
  <2> QED
    BY <1>1, <2>1, LeastIs
<1>3. rdr' = [Spoil(s, P) EXCEPT !.sess[f.client] = over, !.has = @ \ WinsOf(s, f.client)]
  BY <1>1 DEF RemoveDone
<1>4. s = [rdr EXCEPT !.stack = <<>>]
  BY <1>1, StackOps
<1> HIDE DEF f
<1>5. /\ s \in States /\ s.has = rdr.has /\ s.doc = rdr.doc /\ s.parser = rdr.parser
      /\ s.alive = rdr.alive /\ s.user = rdr.user /\ s.map = rdr.map /\ s.dlg = rdr.dlg
      /\ s.shown = rdr.shown /\ s.view = rdr.view /\ s.picker = rdr.picker /\ s.stack = <<>>
  BY <1>1, <1>4 DEF States
<1> HIDE DEF s
<1>6. Spoil(s, P) = s
  <2>1. P \cap DOMAIN s.stack = {}
    BY <1>5
  <2> HIDE DEF P
  <2> QED
    BY <1>5, <2>1, SpoilNone
<1>7. s.has \ WinsOf(s, f.client) = rdr.has
  BY <1>2, <1>5 DEF WinsOf
<1>8. /\ rdr' \in States /\ rdr'.has = rdr.has /\ rdr'.doc = s.doc /\ rdr'.parser = s.parser
      /\ rdr'.alive = s.alive /\ rdr'.user = s.user /\ rdr'.map = s.map /\ rdr'.dlg = s.dlg
      /\ rdr'.shown = s.shown /\ rdr'.view = s.view /\ rdr'.picker = s.picker
      /\ rdr'.stack = <<>>
  <2>1. over \in {"off", "on", "over"}
    OBVIOUS
  <2> HIDE DEF over
  <2> QED
    BY <1>1, <1>3, <1>5, <1>6, <1>7, <2>1 DEF States
<1>9. Owned(rdr')
  <2>1. Held(rdr') = None
    BY <1>8 DEF Held
  <2>2. \A x \in Slots : At(rdr', x) = At(rdr, x)
    BY <1>1, <1>5, <1>8, <2>1, AtIs
  <2> QED
    BY <2>2, <1>5, <1>8, OwnedSame DEF SInv
<1>10. Whole(rdr')
  BY <1>1, <1>5, <1>8 DEF SInv, Whole, WholeAt, FileWhole
<1>11. Seen(rdr')
  BY <1>1, <1>5, <1>8 DEF SInv, Seen
<1> QED
  BY <1>8, <1>9, <1>10, <1>11 DEF SInv, Waits

\* A box is dismissed: the handler destroys the document that it holds, or gives it
\* to its window.
LEMMA KeepsDismiss ==
  ASSUME Constants, NoLapse', SInv(rdr), Dismiss
  PROVE  SInv(rdr')
<1> DEFINE f == Top(rdr)
           w == f.win
           d == f.doc
           e == rdr.doc[w]
           s == Pop(rdr)
           g == [f EXCEPT !.box = FALSE, !.doc = None]
           r == SetTop(rdr, g)
<1> USE AtIs
<1>1. /\ rdr \in States /\ rdr.stack # <<>> /\ rdr.picker = {} /\ ViewSound(rdr)
      /\ None \notin rdr.alive /\ f \in Calls /\ f = rdr.stack[1] /\ f.box /\ ~f.stale
      /\ d = f.doc /\ w = f.win /\ e = rdr.doc[w] /\ Held(rdr) = d /\ d \in rdr.alive \cup {None}
  BY StackAlone DEF Dismiss, Calls
<1>2. /\ f.op # "show" => rdr.dlg = "closed" /\ d # None
      /\ f.op = "show" => d = None
      /\ f.op \in {"load", "begin"} => w \in rdr.has /\ w \in Wins
      /\ f.op = "load" => d \notin rdr.user /\ rdr.parser[w] = None
      /\ f.op = "begin" => rdr.parser[w] = d
      /\ f.op \in {"end", "leave"} => f.client \in Clients
                                      /\ f.next = Least(WinsOf(rdr, f.client))
  BY <1>1 DEF SInv, Waits, States
<1>3. \A n \in Names : rdr.dlg = "closed" => rdr.map[n] = None
  BY <1>1 DEF ViewSound, Attached
<1>4. /\ f.op = "show" => rdr' = s
      /\ f.op = "destroy" => rdr' = Destroy(s, d)
      /\ f.op = "load" => rdr' = FinishLoad(s, w, d)
      /\ f.op = "begin" => rdr' = FinishBegin(s, w, d)
      /\ f.op \in {"end", "leave"} => rdr' = Destroy(r, d)
  BY <1>1 DEF Dismiss
<1>5. f.op \in {"show", "destroy", "load", "begin", "end", "leave"}
  BY <1>1 DEF Calls
<1>6. s = [rdr EXCEPT !.stack = <<>>] /\ r = [rdr EXCEPT !.stack = <<g>>]
  BY <1>1, StackOps
<1> HIDE DEF f, w, d, e
<1>7. /\ s \in States /\ s.has = rdr.has /\ s.doc = rdr.doc /\ s.parser = rdr.parser
      /\ s.alive = rdr.alive /\ s.user = rdr.user /\ s.map = rdr.map /\ s.dlg = rdr.dlg
      /\ s.shown = rdr.shown /\ s.view = rdr.view /\ s.picker = rdr.picker /\ s.stack = <<>>
  <2> HIDE DEF s
  <2> QED BY <1>1, <1>6 DEF States
<1> HIDE DEF s, r
<1>8. ASSUME NEW t \in States, t.has = rdr.has, t.doc = rdr.doc, t.parser = rdr.parser,
             t.map = rdr.map, t.dlg = rdr.dlg, t.shown = rdr.shown, t.view = rdr.view,
             t.picker = {}, f.op \in {"show", "destroy", "end", "leave"},
             t.alive = rdr.alive \ {d}, t.user = rdr.user \ {d}, Held(t) = None
      PROVE  Owned(t) /\ Whole(t) /\ Seen(t)
  <2>1. Owned(t)
    <3>1. At(rdr, None) = d /\ At(t, None) = None /\ None \in Slots
      BY <1>1, <1>8
    <3>2. \A x \in Slots \ {None} : At(t, x) = At(rdr, x)
      BY <1>8
    <3> QED
      BY <1>8, <3>1, <3>2, OwnedDrop DEF SInv
  <2>2. Whole(t)
    <3>1. \A x \in rdr.alive \ {At(rdr, None), Held(rdr)} :
            x \in t.alive /\ (x \in t.user <=> x \in rdr.user)
      BY <1>1, <1>8
    <3>2. /\ \A x \in Wins \ {None} : WholeAt(t, x)
          /\ \A x \in Files \ {None} : FileWhole(t, x)
      <4>1. Owned(rdr) /\ Whole(rdr) /\ rdr \in States /\ t \in States /\ None \in Slots
            /\ rdr.stack[1].op # "begin"
        BY <1>1, <1>8 DEF SInv
      <4>2. \A x \in Wins \ {None} : t.doc[x] = rdr.doc[x] /\ t.parser[x] = rdr.parser[x]
                               /\ t.map[x] = rdr.map[x] /\ (x \in rdr.has => x \in t.has)
        BY <1>8
      <4>3. \A x \in Files \ {None} : t.map[x] = rdr.map[x]
        BY <1>8
      <4> QED
        BY ONLY Constants, <4>1, <4>2, <4>3, <3>1, OthersWhole
    <3> QED
      BY <1>8, <3>2 DEF Whole, SInv
  <2>3. Seen(t)
    BY <1>1, <1>3, <1>8 DEF Seen, ViewSound, Attached
  <2> QED
    BY <2>1, <2>2, <2>3
<1>9. CASE f.op \in {"show", "destroy"}
  <2>1. /\ rdr' \in States /\ rdr'.alive = s.alive \ {d} /\ rdr'.user = s.user \ {d}
        /\ rdr'.has = s.has /\ rdr'.doc = s.doc /\ rdr'.parser = s.parser
        /\ rdr'.map = s.map /\ rdr'.dlg = s.dlg /\ rdr'.shown = s.shown /\ rdr'.view = s.view
        /\ rdr'.picker = s.picker /\ rdr'.stack = s.stack
    <3>1. CASE f.op = "show"
      <4>1. rdr' = s /\ d = None
        BY <1>2, <1>4, <3>1
      <4>2. s.alive \ {d} = s.alive /\ s.user \ {d} = s.user
        BY <1>7, <4>1, NamesAre DEF States
      <4> QED
        BY <4>1, <4>2, <1>7
    <3>2. CASE f.op = "destroy"
      <4>1. d \in s.alive \cup {None} /\ rdr' = Destroy(s, d)
        BY <1>1, <1>4, <1>7, <3>2
      <4> QED
        BY <1>7, <4>1, DestroyIs, NamesAre
    <3> QED
      BY <1>9, <3>1, <3>2
  <2>2. Held(rdr') = None
    BY <1>7, <2>1 DEF Held
  <2>3. Owned(rdr') /\ Whole(rdr') /\ Seen(rdr')
    BY <1>1, <1>7, <1>8, <1>9, <2>1, <2>2
  <2> QED
    BY <2>1, <2>3, <1>7 DEF SInv, Waits
<1>10. CASE f.op \in {"end", "leave"}
  <2>1. g \in Calls /\ g.op = f.op /\ g.client = f.client /\ g.next = f.next /\ ~g.box
        /\ g.doc = None
    BY <1>1 DEF Calls, Some
  <2> HIDE DEF g
  <2>2. /\ r \in States /\ r.has = rdr.has /\ r.doc = rdr.doc /\ r.parser = rdr.parser
        /\ r.alive = rdr.alive /\ r.user = rdr.user /\ r.map = rdr.map /\ r.dlg = rdr.dlg
        /\ r.shown = rdr.shown /\ r.view = rdr.view /\ r.picker = rdr.picker
        /\ r.stack = <<g>>
    BY <1>1, <1>6, <2>1 DEF States
  <2>3. d \in r.alive \cup {None} /\ rdr' = Destroy(r, d)
    BY <1>1, <1>4, <1>10, <2>2
  <2>4. /\ rdr' \in States /\ rdr'.alive = r.alive \ {d} /\ rdr'.user = r.user \ {d}
        /\ rdr'.has = r.has /\ rdr'.doc = r.doc /\ rdr'.parser = r.parser
        /\ rdr'.map = r.map /\ rdr'.dlg = r.dlg /\ rdr'.shown = r.shown /\ rdr'.view = r.view
        /\ rdr'.picker = r.picker /\ rdr'.stack = r.stack
    BY <2>2, <2>3, DestroyIs, NamesAre
  <2>5. Held(rdr') = None
    BY <2>1, <2>2, <2>4 DEF Held
  <2>6. Owned(rdr') /\ Whole(rdr') /\ Seen(rdr')
    BY <1>1, <1>8, <1>10, <2>2, <2>4, <2>5
  <2>7. Waits(rdr')
    <3>1. /\ g.op \in {"end", "leave"} /\ ~g.box /\ g.doc = None /\ g.client \in Clients
          /\ g.next = Least(WinsOf(rdr', g.client)) /\ rdr'.stack[1] = g
      BY <1>2, <1>10, <2>1, <2>2, <2>4 DEF WinsOf
    <3> QED
      BY ONLY <3>1 DEF Waits
  <2> QED
    BY <2>4, <2>6, <2>7 DEF SInv
<1>11. CASE f.op \in {"load", "begin"}
  <2>1. /\ d \in s.alive /\ e = s.doc[w] /\ s.doc[w] \in s.alive \cup {None} /\ d # s.doc[w]
        /\ s.map[w] = None /\ w \in Wins /\ w \in Slots /\ None \notin Docs
        /\ d # None /\ w \in rdr.has /\ w \in Names
    <3>1. w \in Wins /\ d # None /\ w \in rdr.has /\ w \in Names /\ rdr.dlg = "closed"
      BY <1>2, <1>11 DEF Names
    <3>2. rdr.doc[w] \in rdr.alive \cup {None} /\ (rdr.doc[w] # None => rdr.doc[w] # Held(rdr))
      BY <1>1, <3>1, StackAlone
    <3>3. rdr.map[w] = None
      BY <1>3, <3>1
    <3> QED
      BY <1>1, <1>7, <3>1, <3>2, <3>3, NamesAre
  <2> DEFINE b == f.op = "load"
  <2>2. /\ rdr' \in States /\ rdr'.alive = s.alive \ {e}
        /\ rdr'.user = (s.user \ {e}) \cup (IF b THEN {d} ELSE {})
        /\ rdr'.doc = [s.doc EXCEPT ![w] = d]
        /\ rdr'.map = (IF b THEN [s.map EXCEPT ![w] = d] ELSE s.map)
        /\ rdr'.has = s.has /\ rdr'.parser = s.parser /\ rdr'.dlg = s.dlg
        /\ rdr'.shown = s.shown /\ rdr'.view = s.view /\ rdr'.picker = s.picker
        /\ rdr'.stack = s.stack
    <3>0. s \in States
      BY <1>7
    <3>1. CASE f.op = "load"
      <4>1. rdr' = FinishLoad(s, w, d)
        BY <1>4, <3>1
      <4>2. /\ rdr' \in States /\ rdr'.alive = s.alive \ {s.doc[w]}
            /\ rdr'.user = (s.user \ {s.doc[w]}) \cup {d}
            /\ rdr'.doc = [s.doc EXCEPT ![w] = d] /\ rdr'.map = [s.map EXCEPT ![w] = d]
            /\ rdr'.has = s.has /\ rdr'.parser = s.parser /\ rdr'.dlg = s.dlg
            /\ rdr'.shown = s.shown /\ rdr'.view = s.view /\ rdr'.picker = s.picker
            /\ rdr'.stack = s.stack
        BY ONLY <4>1, <2>1, <3>0, FinishLoadIs
      <4> QED
        BY <4>2, <2>1, <3>1
    <3>2. CASE f.op = "begin"
      <4>1. rdr' = FinishBegin(s, w, d)
        BY <1>4, <3>2
      <4>2. /\ rdr' \in States /\ rdr'.alive = s.alive \ {s.doc[w]}
            /\ rdr'.user = s.user \ {s.doc[w]}
            /\ rdr'.doc = [s.doc EXCEPT ![w] = d] /\ rdr'.map = s.map
            /\ rdr'.has = s.has /\ rdr'.parser = s.parser /\ rdr'.dlg = s.dlg
            /\ rdr'.shown = s.shown /\ rdr'.view = s.view /\ rdr'.picker = s.picker
            /\ rdr'.stack = s.stack
        BY ONLY <4>1, <2>1, <3>0, FinishBeginIs
      <4> QED
        BY <4>2, <2>1, <3>2
    <3> QED
      BY <1>11, <3>1, <3>2
  <2>3. /\ rdr'.doc[w] = d /\ rdr'.map[w] = (IF b THEN d ELSE None) /\ Held(rdr') = None
        /\ rdr'.parser = rdr.parser /\ rdr'.has = rdr.has /\ rdr'.alive = rdr.alive \ {e}
        /\ rdr'.user = (rdr.user \ {e}) \cup (IF b THEN {d} ELSE {})
        /\ \A x \in Wins \ {w} : rdr'.doc[x] = rdr.doc[x] /\ rdr'.map[x] = rdr.map[x]
        /\ \A x \in Files : rdr'.map[x] = rdr.map[x]
    BY <1>1, <1>7, <2>1, <2>2 DEF Held, States, Names
  <2>p. At(rdr, w) = e /\ At(rdr, None) = d /\ Held(rdr) = d
    BY <1>1, <2>1
  <2>4. Owned(rdr')
    <3>1. /\ At(rdr, w) = e /\ At(rdr, None) = d /\ At(rdr', w) = d /\ At(rdr', None) = None
          /\ None \in Slots /\ w # None
      <4>1. At(rdr', w) = rdr'.doc[w] /\ At(rdr', None) = Held(rdr')
        BY <2>1
      <4>2. None \in Slots /\ w # None
        BY <2>1
      <4> QED
        BY <2>3, <2>p, <4>1, <4>2
    <3>2. \A x \in Slots \ {w, None} : At(rdr', x) = At(rdr, x)
      BY <2>3
    <3> QED
      BY <2>1, <2>3, <3>1, <3>2, OwnedMove DEF SInv
  <2>5. Whole(rdr')
    <3>1. \A x \in rdr.alive \ {At(rdr, w), Held(rdr)} :
            x \in rdr'.alive /\ (x \in rdr'.user <=> x \in rdr.user)
      BY ONLY <2>3, <2>p
    <3>2. /\ \A x \in Wins \ {w} : WholeAt(rdr', x)
          /\ \A x \in Files \ {w} : FileWhole(rdr', x)
      <4>1. Owned(rdr) /\ Whole(rdr) /\ rdr \in States /\ rdr' \in States /\ w \in Slots
            /\ rdr.stack[1].win = w
        BY <1>1, <2>1, <2>2 DEF SInv
      <4> QED
        BY ONLY Constants, <4>1, <2>3, <3>1, OthersWhole
    <3>3. WholeAt(rdr', w)
      <4>1. WholeAt(rdr, w)
        BY <2>1 DEF SInv, Whole
      <4>2. d \in rdr'.alive
        BY <1>7, <2>1, <2>3
      <4>3. CASE b
        BY <1>2, <2>1, <2>3, <4>2, <4>3 DEF WholeAt
      <4>4. CASE ~b
        BY <1>2, <1>11, <2>1, <2>3, <4>1, <4>2, <4>4 DEF WholeAt
      <4> QED
        BY <4>3, <4>4
    <3> QED
      BY <1>1, <1>7, <2>1, <2>3, <3>2, <3>3 DEF Whole, SInv
  <2>6. Seen(rdr')
    BY <1>1, <1>2, <1>3, <1>7, <1>11, <2>2, <2>3 DEF Seen, Names
  <2> QED
    BY <1>7, <2>2, <2>4, <2>5, <2>6 DEF SInv, Waits
<1> QED
  BY <1>5, <1>9, <1>10, <1>11

-----------------------------------------------------------------------------
(* The invariant and what follows from it.                                 *)

\* At first there is nothing.
LEMMA InitSound ==
  ASSUME Constants, Init
  PROVE  SInv(rdr)
<1>1. /\ rdr.has = {} /\ rdr.doc = [w \in Wins |-> None] /\ rdr.parser = [w \in Wins |-> None]
      /\ rdr.alive = {} /\ rdr.user = {} /\ rdr.map = [n \in Names |-> None]
      /\ rdr.dlg = "none" /\ rdr.shown = None /\ rdr.view = None /\ rdr.picker = {}
      /\ rdr.stack = <<>>
  BY DEF Init
<1>2. rdr \in States
  BY DEF Init, States, Some
<1>3. \A x \in Slots : At(rdr, x) = None
  BY <1>1 DEF At, Held, Slots, Names
<1>4. Owned(rdr)
  BY <1>1, <1>3 DEF Owned
<1>5. Whole(rdr)
  BY <1>1 DEF Whole, WholeAt, FileWhole, Names
<1>6. Seen(rdr) /\ Waits(rdr)
  BY <1>1 DEF Seen, Waits, Names
<1> QED
  BY <1>2, <1>4, <1>5, <1>6 DEF SInv

\* Without a lapse there are only the slips that end the process.
LEMMA SlipsAre ==
  ASSUME Constants, NoLapse', slips \subseteq AtOnce, SInv(rdr), Next
  PROVE  slips' \subseteq AtOnce
<1>1. ASSUME NEW S \in SUBSET (AtOnce \cup {"load"}), Slip(S), Serving, "load" \in S => "load" \in Lapses
      PROVE  slips' \subseteq AtOnce
  <2>1. Quiet
    BY <1>1, ServedAlone DEF Quiet
  <2> QED
    BY <1>1, <2>1 DEF Slip, NoLapse
<1>2. ASSUME Request
      PROVE  \E S \in SUBSET (AtOnce \cup {"load"}) :
                 Slip(S) /\ Serving /\ ("load" \in S => "load" \in Lapses)
  <2>1. \A S : Slip(S) /\ Serving /\ S \in {{}, {"title"}, {"unset"}} =>
           \E T \in SUBSET (AtOnce \cup {"load"}) :
                 Slip(T) /\ Serving /\ ("load" \in T => "load" \in Lapses)
    BY DEF AtOnce
  <2>2. ASSUME NEW w \in Wins, UpdateTitle(w)
        PROVE  \E S \in {{}, {"title"}, {"unset"}} : Slip(S) /\ Serving
    BY <2>2 DEF UpdateTitle, NotFound, SetTitle
  <2>3. ASSUME NEW w \in Wins, DestroyWindow(w)
        PROVE  \E S \in {{}, {"title"}, {"unset"}} : Slip(S) /\ Serving
    BY <2>3 DEF DestroyWindow, NotFound, Remove
  <2>4. ASSUME NEW w \in Wins, Load(w)
        PROVE  \E S \in SUBSET (AtOnce \cup {"load"}) :
                 Slip(S) /\ Serving /\ ("load" \in S => "load" \in Lapses)
    <3> DEFINE S == IF rdr.parser[w] = None THEN {} ELSE {"load"}
    <3>1. Slip(S) /\ Serving /\ ("load" \in S => "load" \in Lapses)
      BY <2>4 DEF Load
    <3> QED
      BY <3>1
  <2>5. ASSUME NEW c \in Clients, StartSession(c) \/ EndSession(c) \/ Disconnect(c)
        PROVE  Slip({}) /\ Serving
    BY <2>5 DEF StartSession, EndSession, Disconnect
  <2>6. ASSUME NEW w \in Wins,
               CreateWindow(w) \/ WriteBegin(w) \/ WriteMore(w) \/ WriteEnd(w) \/ DomRequest(w)
        PROVE  Slip({}) /\ Serving
    BY <2>6 DEF CreateWindow, WriteBegin, WriteMore, WriteEnd, DomRequest
  <2> QED
    BY <1>2, <2>1, <2>2, <2>3, <2>4, <2>5, <2>6 DEF Request
<1>3. ASSUME NEW f \in Files, OpenFile(f)
      PROVE  slips' \subseteq AtOnce
  BY <1>3 DEF OpenFile, NoLapse
<1> QED
  BY <1>1, <1>2, <1>3 DEF Next

\* Every step keeps what a handler and the viewer need.
LEMMA StepSound ==
  ASSUME Constants, NoLapse', slips \subseteq AtOnce, SInv(rdr), Next
  PROVE  SInv(rdr') \/ Ended'
<1>1. ASSUME Request
      PROVE  SInv(rdr') \/ Ended'
  <2>1. rdr' = rdr => SInv(rdr')
    OBVIOUS
  <2> QED
    BY <1>1, <2>1, KeepsStart, KeepsEnd, KeepsCreate, KeepsTitle, KeepsDestroyWindow, KeepsLoad,
       KeepsWriteBegin, KeepsWriteMore, KeepsWriteEnd, KeepsDomRequest DEF Request
<1>2. ASSUME User
      PROVE  SInv(rdr')
  BY <1>2, KeepsDismiss, KeepsLeave, KeepsShow, KeepsOpenList, KeepsClose, KeepsQuit,
     KeepsPick DEF User
<1> QED
  BY <1>1, <1>2, KeepsOpenFile, KeepsRemoveNext, KeepsRemoveDone DEF Next

\* A process that has ended does nothing.
LEMMA NothingAfter ==
  ASSUME Next
  PROVE  rdr.fate = "ok" /\ slips \subseteq slips'
BY DEF Next, Request, User, StartSession, EndSession, Disconnect, CreateWindow, UpdateTitle,
       DestroyWindow, Load, WriteBegin, WriteMore, WriteEnd, DomRequest, Serving, RemoveNext,
       RemoveDone, Dismiss, Leave, Show, OpenFile, OpenList, Pick, CloseShown, Quit, AtKeyboard,
       Slip, NotFound, SetTitle, Remove

\* Every step keeps the invariant.
LEMMA StepInv ==
  ASSUME Constants, IInv, [Next]_vars
  PROVE  IInv'
<1>1. CASE Next
  <2> SUFFICES ASSUME NoLapse'
               PROVE  slips' \subseteq AtOnce /\ (SInv(rdr') \/ Ended')
    BY DEF IInv
  <2>1. NoLapse
    BY <1>1, NothingAfter DEF NoLapse
  <2>2. slips \subseteq AtOnce /\ SInv(rdr)
    BY <1>1, <2>1, NothingAfter DEF IInv, Ended
  <2> QED
    BY <1>1, <2>2, SlipsAre, StepSound
<1>2. CASE UNCHANGED vars
  BY <1>2 DEF vars, IInv, NoLapse, Ended, TypeOK, NoFault
<1> QED
  BY <1>1, <1>2

\* What the invariant says of a state.
LEMMA Follows ==
  ASSUME Constants, SInv(rdr)
  PROVE  /\ slips \subseteq AtOnce => TypeOK /\ NoFault
         /\ WindowsMapped /\ ShownExists /\ ParserHasDocument
<1>1. /\ rdr \in States /\ rdr.user \subseteq rdr.alive
      /\ \A w \in Wins : WholeAt(rdr, w)
      /\ \A f \in Files : FileWhole(rdr, f)
      /\ Seen(rdr)
  BY DEF SInv, Whole
<1>2. slips \subseteq AtOnce => TypeOK /\ NoFault
  BY <1>1 DEF States, Some, TypeOK, NoFault, AtOnce
<1>3. WindowsMapped
  BY <1>1 DEF WindowsMapped, WholeAt
<1>4. ShownExists
  BY <1>1 DEF ShownExists, Seen, WholeAt, FileWhole, Names
<1>5. ParserHasDocument
  <2>1. rdr.stack # <<>> => 1 \in DOMAIN rdr.stack
    BY <1>1, StackOps
  <2> QED
    BY <1>1, <2>1 DEF ParserHasDocument, WholeAt
<1> QED
  BY <1>2, <1>3, <1>4, <1>5

\* One place for each document makes as many owners as documents.
LEMMA OwnersCount ==
  ASSUME Constants, SInv(rdr)
  PROVE  OneOwner
<1> USE AtIs
<1> DEFINE owned == {o \in Owners : o[2] # None}
           N == rdr.has \cup Files
           p == [n \in N |-> IF n \in Wins THEN <<n, rdr.doc[n]>> ELSE <<n, rdr.map[n]>>]
           q == [o \in owned |-> o[2]]
<1> SUFFICES ASSUME rdr.stack = <<>>
             PROVE  {o[2] : o \in owned} = rdr.alive /\ Cardinality(owned) = Cardinality(rdr.alive)
  BY DEF OneOwner
<1>1. rdr \in States /\ Owned(rdr) /\ Held(rdr) = None /\ None \notin rdr.alive /\ rdr.has \subseteq Wins
  BY NamesAre DEF SInv, States, Held
<1>2. \A w \in Wins : rdr.doc[w] # None => w \in rdr.has
  BY DEF SInv, Whole, WholeAt
<1>3. IsFiniteSet(owned)
  <2>1. IsFiniteSet(N)
    <3>1. IsFiniteSet(rdr.has) /\ IsFiniteSet(Files)
      BY <1>1, FS_Subset DEF Constants
    <3> QED
      BY <3>1, FS_Union
  <2>2. p \in Surjection(N, Owners)
    BY <1>1 DEF Surjection, Owners
  <2>3. IsFiniteSet(Owners)
    <3> HIDE DEF p, N
    <3> QED BY <2>1, <2>2, FS_Surjection
  <2> QED
    BY <2>3, FS_Subset
<1>4. \A o \in owned : /\ o = <<o[1], o[2]>> /\ o[1] \in Slots /\ o[1] # None
                       /\ o[2] = At(rdr, o[1]) /\ o[2] # None
  BY <1>1 DEF Owners
<1>5. \A d \in rdr.alive : \E o \in owned : o[2] = d
  <2> SUFFICES ASSUME NEW d \in rdr.alive
               PROVE  \E o \in owned : o[2] = d
    OBVIOUS
  <2>1. PICK x \in Slots : At(rdr, x) = d
    BY <1>1 DEF Owned
  <2>2. d # None /\ x # None
    BY <1>1, <2>1
  <2>3. CASE x \in Wins
    <3>1. <<x, d>> \in Owners
      BY <1>2, <2>1, <2>2, <2>3 DEF Owners
    <3> QED
      BY <2>2, <3>1
  <2>4. CASE x \in Files
    <3>1. <<x, d>> \in Owners
      BY <2>1, <2>4 DEF Owners
    <3> QED
      BY <2>2, <3>1
  <2> QED
    BY <2>2, <2>3, <2>4
<1>6. \A o \in owned : o[2] \in rdr.alive
  BY <1>1, <1>4 DEF Owned
<1>7. \A o1, o2 \in owned : o1[2] = o2[2] => o1 = o2
  <2> SUFFICES ASSUME NEW o1 \in owned, NEW o2 \in owned, o1[2] = o2[2]
               PROVE  o1 = o2
    OBVIOUS
  <2>1. o1[1] = o2[1]
    BY <1>1, <1>4 DEF Owned
  <2> HIDE DEF owned
  <2> QED
    BY <1>4, <2>1
<1> HIDE DEF owned
<1>8. {o[2] : o \in owned} = rdr.alive
  BY <1>5, <1>6
<1>9. q \in Surjection(owned, rdr.alive) /\ q \in Injection(owned, rdr.alive)
  BY <1>5, <1>6, <1>7 DEF Surjection, Injection, IsInjective
<1>10. Cardinality(rdr.alive) = Cardinality(owned)
  <2> HIDE DEF q
  <2> QED BY <1>3, <1>9, FS_Surjection
<1> QED
  BY <1>8, <1>10

\* The invariant holds, whatever lapses are let in.
THEOREM Invariant ==
  ASSUME Constants
  PROVE  Spec => []IInv
<1>1. Init => IInv
  BY InitSound DEF Init, IInv
<1>2. IInv /\ [Next]_vars => IInv'
  BY StepInv
<1> QED
  BY <1>1, <1>2, PTL DEF Spec

\* The types, as long as no lapse is used.
THEOREM TypeCorrect ==
  ASSUME Constants
  PROVE  Spec => [](NoLapse => TypeOK)
<1>1. IInv => (NoLapse => TypeOK)
  BY Follows DEF IInv, Ended
<1> QED
  BY <1>1, Invariant, PTL

\* endpoint.c, dom-viewer.c: as long as no lapse is used, whatever lapses there are, no
\* request and no key follows NULL or a pointer to what was freed or fails an assertion,
\* but a title for a window that has no whole document, and a request for a window that is
\* not there, by the pointer that was not set.
THEOREM NothingFails ==
  ASSUME Constants
  PROVE  Spec => [](NoLapse => NoFault /\ (slips = {} => rdr.fate = "ok"))
<1>1. IInv => (NoLapse => NoFault)
  BY Follows DEF IInv, Ended
<1>2. IInv => (NoLapse => (slips = {} => rdr.fate = "ok"))
  BY DEF IInv, Ended, NoFault, TypeOK, SInv, States
<1>3. IInv => (NoLapse => NoFault /\ (slips = {} => rdr.fate = "ok"))
  BY <1>1, <1>2
<1> QED
  BY <1>3, Invariant, PTL

\* endpoint.c, dom-viewer.c: between requests every document has one window or one file;
\* on_write_begin, on_write_more, on_write_end: a parser writes to its window's document.
THEOREM DocumentsAreOwned ==
  ASSUME Constants
  PROVE  Spec => []OwnedOnce
<1>1. SInv(rdr) => OneOwner
  BY OwnersCount
<1>2. SInv(rdr) => ParserHasDocument
  BY Follows
<1>3. IInv => OwnedOnce
  BY <1>1, <1>2 DEF OwnedOnce, Orderly, IInv, Ended
<1> QED
  BY <1>3, Invariant, PTL

\* domview_attach_window_dom, domview_detach_window_dom: the map leads from a window to
\* the window's whole document; domview_show, domview_load_html, on_close_command: an open
\* viewer shows a document that exists, under its name.
THEOREM MapIsTheWindows ==
  ASSUME Constants
  PROVE  Spec => []MapFollowsWindows
<1>1. SInv(rdr) => WindowsMapped /\ ShownExists
  BY Follows
<1>2. IInv => MapFollowsWindows
  BY <1>1 DEF MapFollowsWindows, Orderly, IInv, Ended
<1> QED
  BY <1>2, Invariant, PTL
=============================================================================
