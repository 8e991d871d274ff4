--------------------------- MODULE ScreensProofs ----------------------------
(***************************************************************************)
(* What Screens promises without the lapses, for any number of dialogs and *)
(* any kinds of screens: nothing freed is followed and no dialog is lost   *)
(* or run twice (DialogsKept), the panels go on until the user leaves, and *)
(* a chosen screen is run (PanelsStay), and changes are thrown away only   *)
(* as the user said (NoneLost).                                            *)
(*                                                                         *)
(* The argument: loops are nested in few ways.  The panels are lowest; on  *)
(* them lies one screen, or boxes; what lies on a box or on a diff viewer  *)
(* is modal, and no screen (Nested).  Only a screen that lies on the       *)
(* panels can be left for another one, so the loop that returns next is    *)
(* the only one on its way out, and its caller is one that looks at what   *)
(* is pending (Current).                                                   *)
(***************************************************************************)
EXTENDS Screens, SequenceTheorems, FiniteSetTheorems, FunctionTheorems, WellFoundedInduction,
        TLAPS

-----------------------------------------------------------------------------
(* The inductive invariant.                                                *)

\* Dialogs that hold a text, those with a loop, and those in the list.
Texts == {"edit", "view", "diff"}
Loops(u) == {u.calls[i].dlg : i \in DOMAIN u.calls}
Listed(u) == ToSet(u.list)
Distinct(s) == \A i, j \in DOMAIN s : s[i] = s[j] => i = j
Top(u) == Len(u.calls)

\* What a loop may be, and who runs it.
OnPanels(u, e) ==
    /\ \/ e.by \in {"panels", "pending"} /\ u.kind[e.dlg] \in Texts
       \/ e.by \in {"html", "show"} /\ u.kind[e.dlg] = "dom"
    /\ e.dlg \in Listed(u)
OnBox(u, e) ==
    /\ \/ e.by = "panels" /\ u.kind[e.dlg] \in {"edit", "view"}
       \/ e.by = "html" /\ u.kind[e.dlg] = "dom"
    /\ e.dlg \in u.modal /\ e.dlg \notin Listed(u)
OnDiff(u, e) ==
    e.by = "diff" /\ u.kind[e.dlg] = "edit" /\ e.dlg \in u.modal /\ e.dlg \notin Listed(u)
Boxed(u, e) ==
    e.by = "box" /\ u.kind[e.dlg] = "box" /\ e.dlg \in u.modal /\ e.dlg \notin Listed(u)

\* A loop over the one below it.
Lies(u, i) ==
    LET e == u.calls[i]
        f == u.calls[i + 1]
    IN \/ Boxed(u, e) /\ u.kind[f.dlg] # "box"
       \/ OnPanels(u, e) /\ f.dlg = Panels
       \/ OnBox(u, e) /\ u.kind[f.dlg] = "box" /\ i + 2 = Top(u)
       \/ OnDiff(u, e) /\ u.kind[f.dlg] = "diff" /\ f.dlg \in u.modal

\* The stack of loops: the panels are lowest; the stack of dialogs goes with it; only what
\* has a loop is modal, and a screen only for the time of dview_edit.
Nested(u) ==
    /\ u.calls # <<>> /\ u.calls[Top(u)] = [dlg |-> Panels, by |-> "main"]
    /\ \A i \in 1..(Top(u) - 1) : Lies(u, i)
    /\ \A i, j \in DOMAIN u.calls : u.calls[i].dlg = u.calls[j].dlg => i = j
    /\ Len(u.top) = Top(u) /\ \A i \in 1..Top(u) : u.top[i] = u.calls[i].dlg
    /\ u.modal \subseteq Loops(u) \ {Panels}
    /\ \A d \in u.modal \cap Listed(u) : \E i \in DOMAIN u.calls : u.calls[i].by = "diff"

\* The screen that has a loop.
Shown(u) ==
    IF Top(u) > 1 /\ u.calls[Top(u) - 1].dlg \in Listed(u) THEN u.calls[Top(u) - 1].dlg
    ELSE Panels

\* A dialog is allocated exactly when it is a screen or has a loop.
Placed(u) ==
    /\ Distinct(u.list) /\ Panels \in Listed(u)
    /\ \A d \in Dialogs : u.st[d] # "none" <=> d \in Loops(u) \cup Listed(u)
    /\ \A d \in Dialogs : u.st[d] # "construct"
    /\ \A d \in Dialogs : u.kind[d] = "panels" <=> d = Panels
    /\ \A d \in Dialogs : u.kind[d] = "dom" <=> d = u.dom
    /\ u.dom # 0 => u.dom \in Loops(u)

\* Below the innermost loop dialogs are active, without one suspended; the panels are
\* suspended only behind a screen.
Still(u) ==
    /\ \A d \in Loops(u) \ {u.calls[1].dlg, Panels} : u.st[d] = "active"
    /\ \A d \in Listed(u) \ Loops(u) : u.st[d] = "suspended" /\ u.kind[d] \in Texts
    /\ u.st[Panels] = "closed" => Top(u) = 1 /\ u.asked
    /\ u.st[Panels] = "suspended" => Shown(u) # Panels

\* The innermost loop is left for another screen.
Left(u) == u.calls[1].dlg # Panels /\ u.st[u.calls[1].dlg] = "suspended"

\* Then its caller, which returns to the panels next, finds what to run, or the panels
\* active; and nothing is pending otherwise.
Current(u) ==
    /\ Left(u) => /\ Top(u) = 2 /\ u.calls[1].by \in {"panels", "pending"}
                  /\ IF u.pending THEN u.cur \in Listed(u) \ Loops(u)
                     ELSE u.cur = Panels /\ u.st[Panels] = "active"
    /\ u.pending => Left(u)
    /\ ~Left(u) => u.cur = Shown(u)

\* Changes are in screens that will ask about them; files are in the DOM viewer, that shows
\* what there is.
Watched(u) ==
    /\ \A d \in u.changed : u.st[d] \in {"active", "suspended"} /\ u.kind[d] \in Texts
    /\ "file" \in u.docs => u.dom # 0 /\ u.st[u.dom] = "active"
    /\ u.dom # 0 /\ u.st[u.dom] = "active" => u.shown \in u.docs

\* At shutdown nothing but screens without a loop is left, and the panels until the end.
Stopped(u) ==
    /\ u.calls = <<>> /\ u.top = <<>> /\ u.modal = {} /\ u.dom = 0 /\ ~u.pending /\ u.asked
    /\ Distinct(u.list) /\ u.changed \subseteq Listed(u)
    /\ \A d \in Dialogs :
         u.st[d] # "none" <=> d \in Listed(u) \/ (d = Panels /\ u.phase = "shutdown")
    /\ Panels \notin Listed(u)
    /\ \A d \in Listed(u) : u.st[d] \in {"active", "suspended"} /\ u.kind[d] \in Texts
    /\ u.list # <<>> => u.cur # 0
    /\ u.phase = "ended" => u.list = <<>>

\* NoneLost, of what was dropped so far.
Dropped(u) ==
    \A x \in u.dropped :
         \/ x.said = "fail" /\ (x.late \/ x.kind = "diff")
         \/ x.kind = "diff" /\ x.late /\ x.said # "unasked"

\* The inductive invariant.
Right(u) ==
    /\ u \in UiStates /\ ~u.fault /\ Dropped(u)
    /\ u.phase = "run" => Nested(u) /\ Placed(u) /\ Still(u) /\ Current(u) /\ Watched(u)
    /\ u.phase # "run" => Stopped(u)

-----------------------------------------------------------------------------
(* Sequences. *)

\* What is pushed lies on top.
LEMMA Pushing ==
    ASSUME NEW S, NEW s \in Seq(S), NEW e \in S, NEW t, t = <<e>> \o s
    PROVE  /\ t \in Seq(S) /\ Len(t) = Len(s) + 1 /\ t # <<>> /\ t[1] = e
           /\ \A i \in 1..Len(s) : t[i + 1] = s[i]
           /\ \A i \in 2..Len(t) : t[i] = s[i - 1] /\ i - 1 \in 1..Len(s)
<1>1. /\ t \in Seq(S) /\ Len(t) = Len(s) + 1 /\ t[1] = e
      /\ \A i \in 2..Len(t) : t[i] = s[i - 1] /\ i - 1 \in 1..Len(s)
  OBVIOUS
<1>2. \A i \in 1..Len(s) : t[i + 1] = s[i] /\ i + 1 \in 2..Len(t)
  BY <1>1
<1>3. t # <<>>
  BY <1>1
<1> QED BY <1>1, <1>2, <1>3

\* As a set.
LEMMA PushingSet ==
    ASSUME NEW S, NEW s \in Seq(S), NEW e \in S
    PROVE  ToSet(<<e>> \o s) = ToSet(s) \cup {e}
<1> SUFFICES ASSUME NEW t, t = <<e>> \o s
             PROVE  ToSet(t) = ToSet(s) \cup {e}
  OBVIOUS
<1>1. /\ t \in Seq(S) /\ Len(t) = Len(s) + 1 /\ t[1] = e
      /\ \A i \in 2..Len(t) : t[i] = s[i - 1] /\ i - 1 \in 1..Len(s)
  OBVIOUS
<1>2. \A i \in 1..Len(s) : t[i + 1] = s[i] /\ i + 1 \in 2..Len(t)
  BY <1>1
<1>3. ToSet(t) = ToSet(s) \cup {e}
  <2>1. DOMAIN t = 1..Len(t) /\ DOMAIN s = 1..Len(s)
    BY <1>1
  <2>2. ASSUME NEW x \in ToSet(t) PROVE x \in ToSet(s) \cup {e}
    <3>1. PICK i \in 1..Len(t) : x = t[i]
      BY <2>1 DEF ToSet
    <3> QED BY <3>1, <2>1, <1>1 DEF ToSet
  <2>3. ASSUME NEW x \in ToSet(s) \cup {e} PROVE x \in ToSet(t)
    <3>1. CASE x = e
      BY <3>1, <2>1, <1>1 DEF ToSet
    <3>2. CASE x \in ToSet(s)
      <4>1. PICK i \in 1..Len(s) : x = s[i]
        BY <3>2, <2>1 DEF ToSet
      <4>2. i + 1 \in 1..Len(t) /\ t[i + 1] = x
        BY <4>1, <1>1, <1>2
      <4> QED BY <4>2, <2>1 DEF ToSet
    <3> QED BY <3>1, <3>2
  <2> QED BY <2>2, <2>3
<1> QED BY <1>3

\* What is left when the top is taken off.
LEMMA Popping ==
    ASSUME NEW S, NEW s \in Seq(S), s # <<>>, NEW t, t = Tail(s)
    PROVE  /\ t \in Seq(S) /\ Len(t) = Len(s) - 1 /\ Head(s) = s[1] /\ Len(s) >= 1
           /\ \A i \in 1..Len(t) : t[i] = s[i + 1] /\ i + 1 \in 2..Len(s)
           /\ \A i \in 2..Len(s) : s[i] = t[i - 1] /\ i - 1 \in 1..Len(t)
<1>1. /\ t \in Seq(S) /\ Len(t) = Len(s) - 1 /\ Head(s) = s[1] /\ Len(s) >= 1
      /\ \A i \in 1..Len(t) : t[i] = s[i + 1]
  OBVIOUS
<1>2. ASSUME NEW i \in 2..Len(s) PROVE s[i] = t[i - 1] /\ i - 1 \in 1..Len(t)
  <2>1. i - 1 \in 1..Len(t) /\ (i - 1) + 1 = i
    BY <1>1
  <2> QED BY <2>1, <1>1
<1> QED BY <1>1, <1>2

\* A set of numbers has a least one.
LEMMA Least ==
    ASSUME NEW I \in SUBSET Nat, I # {}
    PROVE  Min(I) \in I /\ \A n \in I : Min(I) <= n
<1> DEFINE R == {r \in Nat \X Nat : r[1] < r[2]}
<1>1. IsWellFoundedOn(R, Nat)
  BY NatLessThanWellFounded DEF OpToRel
<1>2. PICK l \in I : \A k \in I : ~(<<k, l>> \in R)
  <2> HIDE DEF R
  <2> QED BY <1>1, WFMin
<1>3. \A k \in I : l \in Nat /\ k \in Nat /\ (<<k, l>> \in R <=> k < l)
  OBVIOUS
<1>4. ASSUME NEW k \in I PROVE l <= k
  <2>1. l \in Nat /\ k \in Nat /\ ~(k < l)
    <3> HIDE DEF R
    <3> QED BY <1>2, <1>3
  <2> QED BY <2>1
<1>5. \E x \in I : \A y \in I : x <= y
  BY <1>4
<1> QED BY <1>5 DEF Min

\* RemoveFirst takes one element out.
LEMMA Removing ==
    ASSUME NEW S, NEW s \in Seq(S), NEW d \in ToSet(s)
    PROVE  \E j \in 1..Len(s) :
               /\ s[j] = d /\ \A i \in 1..(j - 1) : s[i] # d
               /\ RemoveFirst(s, d) = SubSeq(s, 1, j - 1) \o SubSeq(s, j + 1, Len(s))
<1> DEFINE I == {i \in 1..Len(s) : s[i] = d}
<1>1. I \in SUBSET Nat /\ I # {}
  BY DEF ToSet
<1>2. Min(I) \in I /\ \A n \in I : Min(I) <= n
  <2> HIDE DEF I
  <2> QED BY <1>1, Least
<1>3. RemoveFirst(s, d) = RemoveAt(s, Min(I))
  BY <1>2 DEF RemoveFirst, SelectInSeq
<1>4. Min(I) \in 1..Len(s) /\ s[Min(I)] = d
  BY <1>2
<1>5. \A i \in 1..(Min(I) - 1) : s[i] # d
  BY <1>2, <1>4
<1> QED BY <1>3, <1>4, <1>5 DEF RemoveAt

\* What is removed first may be the head.
LEMMA RemovingHead ==
    ASSUME NEW S, NEW s \in Seq(S), s # <<>>
    PROVE  RemoveFirst(s, s[1]) = Tail(s)
<1>1. s[1] \in ToSet(s) /\ Len(s) >= 1
  BY DEF ToSet
<1>2. PICK j \in 1..Len(s) :
          /\ s[j] = s[1] /\ \A i \in 1..(j - 1) : s[i] # s[1]
          /\ RemoveFirst(s, s[1]) = SubSeq(s, 1, j - 1) \o SubSeq(s, j + 1, Len(s))
  BY <1>1, Removing
<1>3. j = 1
  BY <1>2, <1>1
<1>4. SubSeq(s, 1, 0) = <<>> /\ SubSeq(s, 2, Len(s)) = Tail(s) /\ Tail(s) \in Seq(S)
  BY <1>1
<1> QED BY <1>2, <1>3, <1>4

\* Nothing else goes, and nothing is doubled.
LEMMA RemovingOne ==
    ASSUME NEW S, NEW s \in Seq(S), Distinct(s), NEW d \in ToSet(s), NEW t, t = RemoveFirst(s, d)
    PROVE  t \in Seq(S) /\ Distinct(t) /\ ToSet(t) = ToSet(s) \ {d}
<1>1. PICK j \in 1..Len(s) :
          /\ s[j] = d /\ \A i \in 1..(j - 1) : s[i] # d
          /\ RemoveFirst(s, d) = SubSeq(s, 1, j - 1) \o SubSeq(s, j + 1, Len(s))
  BY Removing
<1> DEFINE a == SubSeq(s, 1, j - 1)
           b == SubSeq(s, j + 1, Len(s))
<1>2. /\ a \in Seq(S) /\ Len(a) = j - 1 /\ \A i \in 1..(j - 1) : a[i] = s[i]
      /\ b \in Seq(S) /\ Len(b) = Len(s) - j /\ \A i \in 1..(Len(s) - j) : b[i] = s[j + i]
  OBVIOUS
<1>3. /\ t \in Seq(S) /\ Len(t) = Len(s) - 1
      /\ \A i \in 1..Len(t) : t[i] = IF i < j THEN s[i] ELSE s[i + 1]
  <2>1. t = a \o b
    BY <1>1
  <2> HIDE DEF a, b
  <2>2. /\ a \o b \in Seq(S) /\ Len(a \o b) = Len(a) + Len(b)
        /\ \A i \in 1..(Len(a) + Len(b)) :
              (a \o b)[i] = IF i <= Len(a) THEN a[i] ELSE b[i - Len(a)]
    BY <1>2, ConcatProperties
  <2>3. Len(s) \in Nat /\ j \in Nat /\ Len(a) = j - 1 /\ Len(b) = Len(s) - j
    BY <1>2
  <2>4. Len(a) + Len(b) = Len(s) - 1
    BY <2>3
  <2>5. t \in Seq(S) /\ Len(t) = Len(s) - 1
    BY <2>1, <2>2, <2>4
  <2>6. ASSUME NEW i \in 1..Len(t)
        PROVE  t[i] = IF i < j THEN s[i] ELSE s[i + 1]
    <3>1. i \in 1..(Len(a) + Len(b)) /\ i \in Nat /\ i >= 1 /\ i <= Len(s) - 1
      BY <2>3, <2>4, <2>5
    <3>2. t[i] = IF i <= j - 1 THEN a[i] ELSE b[i - (j - 1)]
      BY <2>1, <2>2, <2>3, <3>1
    <3>3. CASE i < j
      <4>1. i \in 1..(j - 1)
        BY <2>3, <3>1, <3>3
      <4> QED BY <4>1, <3>2, <3>3, <1>2
    <3>4. CASE ~(i < j)
      <4>1. i - (j - 1) \in 1..(Len(s) - j) /\ j + (i - (j - 1)) = i + 1
        BY <2>3, <3>1, <3>4
      <4>2. b[i - (j - 1)] = s[i + 1]
        BY <4>1, <1>2
      <4>3. ~(i <= j - 1)
        BY <2>3, <3>1, <3>4
      <4> QED BY <4>2, <4>3, <3>2, <3>4
    <3> QED BY <3>3, <3>4
  <2> QED BY <2>5, <2>6
<1>4. DOMAIN t = 1..(Len(s) - 1) /\ DOMAIN s = 1..Len(s)
  BY <1>3
<1>5. Distinct(t)
  <2> SUFFICES ASSUME NEW i \in 1..(Len(s) - 1), NEW k \in 1..(Len(s) - 1), t[i] = t[k]
               PROVE  i = k
    BY <1>4 DEF Distinct
  <2> DEFINE At(x) == IF x < j THEN x ELSE x + 1
  <2>1. /\ At(i) \in 1..Len(s) /\ At(k) \in 1..Len(s)
        /\ t[i] = s[At(i)] /\ t[k] = s[At(k)]
    BY <1>3
  <2>2. At(i) = At(k)
    <3> HIDE DEF At
    <3> QED BY <2>1, <1>4 DEF Distinct
  <2> QED BY <2>2
<1>6. ASSUME NEW x \in ToSet(t) PROVE x \in ToSet(s) \ {d}
  <2>1. PICK i \in 1..(Len(s) - 1) : x = t[i]
    BY <1>4 DEF ToSet
  <2>2. CASE i < j
    <3>1. i \in 1..Len(s) /\ x = s[i] /\ i # j
      BY <2>1, <2>2, <1>3, <1>4
    <3> QED BY <3>1, <1>1, <1>4 DEF ToSet, Distinct
  <2>3. CASE ~(i < j)
    <3>1. i + 1 \in 1..Len(s) /\ x = s[i + 1] /\ i + 1 # j
      BY <2>1, <2>3, <1>3, <1>4
    <3> QED BY <3>1, <1>1, <1>4 DEF ToSet, Distinct
  <2> QED BY <2>2, <2>3
<1>7. ASSUME NEW x \in ToSet(s) \ {d} PROVE x \in ToSet(t)
  <2>1. PICK i \in 1..Len(s) : x = s[i] /\ i # j
    BY <1>1, <1>4 DEF ToSet
  <2>2. CASE i < j
    <3>1. i \in 1..(Len(s) - 1) /\ t[i] = x
      BY <2>1, <2>2, <1>3, <1>4
    <3> QED BY <3>1, <1>4 DEF ToSet
  <2>3. CASE i > j
    <3>1. i - 1 \in 1..(Len(s) - 1) /\ ~(i - 1 < j) /\ (i - 1) + 1 = i
      BY <2>1, <2>3
    <3>2. t[i - 1] = x
      BY <3>1, <2>1, <1>3, <1>4
    <3> QED BY <3>1, <3>2, <1>4 DEF ToSet
  <2> QED BY <2>1, <2>2, <2>3
<1> QED BY <1>3, <1>5, <1>6, <1>7

-----------------------------------------------------------------------------
(* What the invariant says of the innermost loop. *)

\* The types of the fields.
LEMMA Fields ==
    ASSUME NEW u \in UiStates
    PROVE  /\ u.st \in [Dialogs -> Going] /\ u.kind \in [Dialogs -> Kinds \cup {"", "panels"}]
           /\ u.modal \in SUBSET Dialogs /\ u.changed \in SUBSET Dialogs
           /\ u.top \in Seq(Dialogs) /\ u.list \in Seq(Dialogs) /\ u.calls \in Seq(Entries)
           /\ u.cur \in 0..MaxDialogs /\ u.dom \in 0..MaxDialogs
           /\ u.pending \in BOOLEAN /\ u.asked \in BOOLEAN /\ u.fault \in BOOLEAN
           /\ u.docs \in SUBSET {"file", "window"} /\ u.shown \in {"", "file", "window"}
           /\ u.dropped \in SUBSET Drops
           /\ u.phase \in {"run", "shutdown", "ended"}
  BY DEF UiStates

\* The panels are a dialog, and 0 is none.
LEMMA PanelsAreFirst ==
    ASSUME ScreensConstants
    PROVE  Panels \in Dialogs /\ 0 \notin Dialogs /\ Dialogs \subseteq 0..MaxDialogs
  BY DEF ScreensConstants, Panels, Dialogs

\* The elements of a sequence.
LEMMA ToSetIn ==
    ASSUME NEW S, NEW s \in Seq(S)
    PROVE  ToSet(s) \in SUBSET S /\ DOMAIN s = 1..Len(s) /\ Len(s) \in Nat
           /\ \A i \in 1..Len(s) : s[i] \in S /\ s[i] \in ToSet(s)
  BY DEF ToSet

\* The screens are dialogs.
LEMMA ListedIn ==
    ASSUME NEW u \in UiStates
    PROVE  Listed(u) \in SUBSET Dialogs
<1>1. u.list \in Seq(Dialogs)
  BY Fields
<1> QED BY <1>1, ToSetIn DEF Listed

\* What holds while loops run, in one place.
LEMMA LoopFacts ==
    ASSUME ScreensConstants, NEW u, Right(u), u.phase = "run"
    PROVE  /\ u \in UiStates /\ ~u.fault /\ Dropped(u)
           /\ Nested(u) /\ Placed(u) /\ Still(u) /\ Current(u) /\ Watched(u)
           /\ u.calls \in Seq(Entries) /\ Len(u.calls) \in Nat /\ Len(u.calls) >= 1
           /\ DOMAIN u.calls = 1..Len(u.calls)
           /\ \A i \in 1..Len(u.calls) : /\ u.calls[i] \in Entries /\ u.calls[i].dlg \in Dialogs
                                         /\ u.calls[i].dlg \in Loops(u)
           /\ Head(u.calls) = u.calls[1]
           /\ u.top # <<>> /\ Head(u.top) = u.calls[1].dlg
           /\ Listed(u) \in SUBSET Dialogs /\ Loops(u) \in SUBSET Dialogs
           /\ Panels \in Loops(u)
           /\ \A d \in Listed(u) \cup Loops(u) : u.st[d] # "none"
<1>1. /\ u \in UiStates /\ ~u.fault /\ Dropped(u)
      /\ Nested(u) /\ Placed(u) /\ Still(u) /\ Current(u) /\ Watched(u)
  BY DEF Right
<1>2. u.calls \in Seq(Entries) /\ u.top \in Seq(Dialogs) /\ u.list \in Seq(Dialogs)
  BY <1>1, Fields
<1>3. /\ u.calls # <<>> /\ Len(u.top) = Len(u.calls)
      /\ \A i \in 1..Len(u.calls) : u.top[i] = u.calls[i].dlg
      /\ u.calls[Len(u.calls)].dlg = Panels
  BY <1>1 DEF Nested, Top
<1>4. Len(u.calls) \in Nat /\ Len(u.calls) >= 1 /\ Head(u.calls) = u.calls[1]
  BY <1>2, <1>3
<1>5. u.top # <<>> /\ Head(u.top) = u.calls[1].dlg
  BY <1>2, <1>3, <1>4
<1>6. /\ DOMAIN u.calls = 1..Len(u.calls)
      /\ \A i \in 1..Len(u.calls) : u.calls[i] \in Entries
  BY <1>2
<1>7. \A i \in 1..Len(u.calls) : u.calls[i].dlg \in Dialogs /\ u.calls[i].dlg \in Loops(u)
  BY <1>6 DEF Entries, Loops
<1>8. Listed(u) \in SUBSET Dialogs /\ Loops(u) \in SUBSET Dialogs
  BY <1>2, <1>6, <1>7, ToSetIn DEF Listed, Loops
<1>9. Panels \in Loops(u)
  BY <1>3, <1>4, <1>7
<1>10. \A d \in Listed(u) \cup Loops(u) : u.st[d] # "none"
  BY <1>1, <1>8 DEF Placed
<1> QED BY <1>1, <1>2, <1>4, <1>5, <1>6, <1>7, <1>8, <1>9, <1>10

-----------------------------------------------------------------------------
(* A loop is entered. *)

\* The loops when one more lies on top.
LEMMA LoopsPushed ==
    ASSUME NEW u, u.calls \in Seq(Entries), NEW e \in Entries, NEW v, v.calls = <<e>> \o u.calls
    PROVE  /\ v.calls \in Seq(Entries) /\ Len(v.calls) = Len(u.calls) + 1 /\ v.calls # <<>>
           /\ v.calls[1] = e /\ \A i \in 1..Len(u.calls) : v.calls[i + 1] = u.calls[i]
           /\ \A i \in 2..Len(v.calls) : v.calls[i] = u.calls[i - 1] /\ i - 1 \in 1..Len(u.calls)
           /\ Loops(v) = Loops(u) \cup {e.dlg}
<1>1. /\ v.calls \in Seq(Entries) /\ Len(v.calls) = Len(u.calls) + 1 /\ v.calls # <<>>
      /\ v.calls[1] = e /\ \A i \in 1..Len(u.calls) : v.calls[i + 1] = u.calls[i]
      /\ \A i \in 2..Len(v.calls) : v.calls[i] = u.calls[i - 1] /\ i - 1 \in 1..Len(u.calls)
  BY Pushing
<1>2. ToSet(v.calls) = ToSet(u.calls) \cup {e}
  BY PushingSet
<1>3. Loops(v) = {x.dlg : x \in ToSet(v.calls)} /\ Loops(u) = {x.dlg : x \in ToSet(u.calls)}
  BY DEF Loops, ToSet
<1> QED BY <1>1, <1>2, <1>3

\* The loops but the innermost.
LEMMA LoopsPopped ==
    ASSUME NEW u, u.calls \in Seq(Entries), u.calls # <<>>,
           \A i, j \in DOMAIN u.calls : u.calls[i].dlg = u.calls[j].dlg => i = j,
           NEW v, v.calls = Tail(u.calls)
    PROVE  /\ v.calls \in Seq(Entries) /\ Len(v.calls) = Len(u.calls) - 1
           /\ \A i \in 1..Len(v.calls) : v.calls[i] = u.calls[i + 1] /\ i + 1 \in 2..Len(u.calls)
           /\ Loops(v) = Loops(u) \ {u.calls[1].dlg}
<1>1. /\ v.calls \in Seq(Entries) /\ Len(v.calls) = Len(u.calls) - 1 /\ Len(u.calls) >= 1
      /\ \A i \in 1..Len(v.calls) : v.calls[i] = u.calls[i + 1] /\ i + 1 \in 2..Len(u.calls)
      /\ \A i \in 2..Len(u.calls) : u.calls[i] = v.calls[i - 1] /\ i - 1 \in 1..Len(v.calls)
  BY Popping
<1>2. DOMAIN u.calls = 1..Len(u.calls) /\ DOMAIN v.calls = 1..Len(v.calls)
  BY <1>1
<1>3. ASSUME NEW d \in Loops(v) PROVE d \in Loops(u) \ {u.calls[1].dlg}
  <2>1. PICK i \in 1..Len(v.calls) : d = v.calls[i].dlg
    BY <1>2 DEF Loops
  <2>2. d = u.calls[i + 1].dlg /\ i + 1 \in 1..Len(u.calls) /\ i + 1 # 1 /\ 1 \in 1..Len(u.calls)
    BY <2>1, <1>1
  <2> QED BY <2>2, <1>2 DEF Loops
<1>4. ASSUME NEW d \in Loops(u) \ {u.calls[1].dlg} PROVE d \in Loops(v)
  <2>1. PICK i \in 1..Len(u.calls) : d = u.calls[i].dlg /\ i # 1
    BY <1>2 DEF Loops
  <2>2. i \in 2..Len(u.calls)
    BY <2>1
  <2> QED BY <2>1, <2>2, <1>1, <1>2 DEF Loops
<1> QED BY <1>1, <1>3, <1>4

\* h, of kind k, is run by by, and the dialogs of X are modal from now on.
Pushed(u, v, h, k, by, X) ==
    /\ v.st = [u.st EXCEPT ![h] = "active"] /\ v.kind = [u.kind EXCEPT ![h] = k]
    /\ v.modal = u.modal \cup X /\ v.changed = u.changed
    /\ v.top = <<h>> \o u.top /\ v.calls = <<[dlg |-> h, by |-> by]>> \o u.calls
    /\ v.list = u.list /\ v.cur = u.cur /\ v.pending = u.pending
    /\ v.dropped = u.dropped /\ v.asked = u.asked /\ v.phase = u.phase /\ ~v.fault

\* What the dialog that is run has to do with the one below, f, of kind below, where n
\* have a loop.
Modal(below, f, n, h, k, by, X) ==
    \/ by = "box" /\ k = "box" /\ below # "box" /\ X = {h}
    \/ by = "panels" /\ k \in {"edit", "view"} /\ below = "box" /\ n = 2 /\ X = {h}
    \/ by = "html" /\ k = "dom" /\ below = "box" /\ n = 2 /\ X = {h}
    \/ by = "diff" /\ k = "edit" /\ below = "diff" /\ X = {h, f}

Documents(u, v, h, k) ==
    IF k = "dom" THEN u.dom = 0 /\ v.dom = h /\ v.shown \in v.docs
    ELSE v.dom = u.dom /\ v.docs = u.docs /\ v.shown = u.shown

\* A modal loop over an active one.
LEMMA PushedModal ==
    ASSUME ScreensConstants, NEW u, Right(u), u.phase = "run",
           u.st[u.calls[1].dlg] = "active", NEW h \in Dialogs, u.st[h] = "none",
           NEW k, NEW by, NEW X, NEW v, v \in UiStates, Pushed(u, v, h, k, by, X),
           Modal(u.kind[u.calls[1].dlg], u.calls[1].dlg, Len(u.calls), h, k, by, X),
           Documents(u, v, h, k)
    PROVE  Right(v)
<1> DEFINE n == Len(u.calls)
           f == u.calls[1].dlg
           e == [dlg |-> h, by |-> by]
<1>1. /\ u \in UiStates /\ ~u.fault /\ Dropped(u)
      /\ Nested(u) /\ Placed(u) /\ Still(u) /\ Current(u) /\ Watched(u)
  BY LoopFacts
<1>n. n \in Nat /\ n >= 1 /\ n = Len(u.calls) /\ DOMAIN u.calls = 1..n
  BY LoopFacts
<1>m. n \in Nat /\ n >= 1
  BY LoopFacts
<1>c. u.calls \in Seq(Entries)
  BY LoopFacts
<1>d. \A i \in 1..n : u.calls[i].dlg \in Dialogs /\ u.calls[i].dlg \in Loops(u)
  BY LoopFacts
<1>l. /\ Listed(u) \in SUBSET Dialogs /\ Loops(u) \in SUBSET Dialogs /\ Panels \in Loops(u)
      /\ \A d \in Listed(u) \cup Loops(u) : u.st[d] # "none"
  BY LoopFacts
<1>2. h \notin Listed(u) \cup Loops(u) /\ h # Panels /\ h # f /\ h # 0
  BY <1>n, <1>d, <1>l, PanelsAreFirst
<1>3. by \in {"box", "panels", "html", "diff"} /\ k \in {"box", "edit", "view", "dom"}
      /\ e \in Entries /\ e.dlg = h /\ e.by = by
  BY DEF Modal, Entries
<1>f. f \in Dialogs /\ f \in Loops(u) /\ f = u.calls[1].dlg
  BY <1>n, <1>d
<1>v. v.calls = <<e>> \o u.calls
  BY DEF Pushed
<1> HIDE DEF n, e, f
<1>4. /\ Len(v.calls) = n + 1 /\ v.calls # <<>> /\ v.calls[1] = e
      /\ \A i \in 1..n : v.calls[i + 1] = u.calls[i]
      /\ \A i \in 2..(n + 1) : v.calls[i] = u.calls[i - 1] /\ i - 1 \in 1..n
      /\ Loops(v) = Loops(u) \cup {h}
  <2>1. /\ Len(v.calls) = Len(u.calls) + 1 /\ v.calls # <<>> /\ v.calls[1] = e
        /\ \A i \in 1..Len(u.calls) : v.calls[i + 1] = u.calls[i]
        /\ \A i \in 2..Len(v.calls) : v.calls[i] = u.calls[i - 1] /\ i - 1 \in 1..Len(u.calls)
        /\ Loops(v) = Loops(u) \cup {e.dlg}
    BY <1>c, <1>3, <1>v, LoopsPushed
  <2> QED BY <2>1, <1>3, <1>v, <1>n
<1>5. /\ Listed(v) = Listed(u) /\ v.list = u.list
      /\ \A d \in Dialogs \ {h} : v.st[d] = u.st[d] /\ v.kind[d] = u.kind[d]
      /\ v.st[h] = "active" /\ v.kind[h] = k /\ DOMAIN v.calls = 1..(n + 1)
      /\ v.modal = u.modal \cup X /\ v.phase = "run" /\ ~v.fault
  <2>1. u.st \in [Dialogs -> Going] /\ u.kind \in [Dialogs -> Kinds \cup {"", "panels"}]
        /\ v.calls \in Seq(Entries)
    BY <1>1, Fields
  <2>2. DOMAIN v.calls = 1..(n + 1)
    <3>1. DOMAIN v.calls = 1..Len(v.calls)
      BY <2>1, ToSetIn
    <3> QED BY <3>1, <1>4
  <2>3. /\ \A d \in Dialogs \ {h} : v.st[d] = u.st[d] /\ v.kind[d] = u.kind[d]
        /\ v.st[h] = "active" /\ v.kind[h] = k
    BY <2>1 DEF Pushed
  <2> QED BY <2>2, <2>3 DEF Pushed, Listed
<1>6. f \in Dialogs /\ f \in Loops(u) /\ h \in X /\ X \subseteq {h, f}
      /\ (f \in X => by = "diff" /\ u.kind[f] = "diff")
  BY <1>1, <1>n, <1>d, <1>l, <1>f, <1>2 DEF Modal
<1>7. \A d \in Loops(u) \cup Listed(u) : v.st[d] = u.st[d] /\ v.kind[d] = u.kind[d] /\ d # h
  BY <1>1, <1>n, <1>d, <1>l, <1>f, <1>2, <1>5
<1>8. Lies(v, 1)
  <2>1. v.calls[2].dlg = f /\ v.calls[1].dlg = h /\ v.calls[1].by = by
    <3>1. v.calls[1 + 1] = u.calls[1]
      BY <1>n, <1>4
    <3> QED BY <3>1, <1>3, <1>4, <1>f
  <2>4. v.kind[f] = u.kind[f]
    BY <1>7, <1>f
  <2>2. h \in v.modal /\ h \notin Listed(v) /\ (by = "diff" => f \in v.modal)
    BY <1>5, <1>2, <1>6, <1>f DEF Modal
  <2>5. by \in {"panels", "html"} => 1 + 2 = Top(v)
    <3>1. by \in {"panels", "html"} => n = 2
      BY <1>n DEF Modal
    <3>2. n = 2 => n + 1 = 1 + 2
      OBVIOUS
    <3> QED BY <3>1, <3>2, <1>4 DEF Top
  <2> QED BY <2>1, <2>2, <2>4, <2>5, <1>5, <1>f DEF Lies, Modal, Boxed, OnBox, OnDiff
<1>9. ASSUME NEW i \in 2..n PROVE Lies(v, i)
  <2>1. /\ i - 1 \in 1..(n - 1) /\ i - 1 \in 1..n /\ i \in 1..n /\ (i - 1) + 1 = i
        /\ i \in 2..(n + 1)
    BY <1>n
  <2>4. v.calls[i] = u.calls[i - 1] /\ v.calls[i + 1] = u.calls[i]
    BY <2>1, <1>4
  <2>2. Lies(u, i - 1)
    BY <1>1, <1>n, <2>1 DEF Nested, Top
  <2>3. /\ v.kind[v.calls[i].dlg] = u.kind[u.calls[i - 1].dlg]
        /\ v.kind[v.calls[i + 1].dlg] = u.kind[u.calls[i].dlg]
    BY <2>1, <2>4, <1>d, <1>7
  <2>5. (i - 1) + 2 = Top(u) => i + 2 = Top(v)
    BY <1>n, <1>4 DEF Top
  <2> QED BY <2>1, <2>2, <2>3, <2>4, <2>5, <1>5 DEF Lies, Boxed, OnPanels, OnBox, OnDiff
<1>10. Nested(v)
  <2>1. v.calls[n + 1] = [dlg |-> Panels, by |-> "main"]
    BY <1>1, <1>n, <1>4 DEF Nested, Top
  <2>2. \A i \in 1..n : Lies(v, i)
    BY <1>8, <1>9, <1>n
  <2>3. \A i, j \in 1..(n + 1) : v.calls[i].dlg = v.calls[j].dlg => i = j
    <3>1. \A i \in 2..(n + 1) : v.calls[i].dlg # h
      BY <1>d, <1>2, <1>4
    <3>2. v.calls[1].dlg = h
      BY <1>3, <1>4
    <3>3. ASSUME NEW i \in 2..(n + 1), NEW j \in 2..(n + 1), v.calls[i].dlg = v.calls[j].dlg
          PROVE  i = j
      <4>1. /\ i - 1 \in 1..n /\ v.calls[i] = u.calls[i - 1]
            /\ j - 1 \in 1..n /\ v.calls[j] = u.calls[j - 1]
        BY <1>4
      <4>2. i - 1 = j - 1
        BY <4>1, <3>3, <1>1, <1>n DEF Nested
      <4> QED BY <4>2
    <3>4. \A i \in 1..(n + 1) : i = 1 \/ i \in 2..(n + 1)
      BY <1>n
    <3> QED BY <3>1, <3>2, <3>3, <3>4
  <2>4. Len(v.top) = n + 1 /\ \A i \in 1..(n + 1) : v.top[i] = v.calls[i].dlg
    <3>1. u.top \in Seq(Dialogs) /\ Len(u.top) = n /\ \A i \in 1..n : u.top[i] = u.calls[i].dlg
      BY <1>1, <1>n, Fields DEF Nested, Top
    <3>2. /\ Len(v.top) = n + 1 /\ v.top[1] = h
          /\ \A i \in 2..(n + 1) : v.top[i] = u.top[i - 1]
      BY <3>1, Pushing DEF Pushed
    <3>3. \A i \in 1..(n + 1) : i = 1 \/ i \in 2..(n + 1)
      BY <1>n
    <3>4. ASSUME NEW i \in 2..(n + 1) PROVE v.top[i] = v.calls[i].dlg
      BY <3>1, <3>2, <1>4
    <3>5. v.top[1] = v.calls[1].dlg
      BY <3>2, <1>3, <1>4
    <3> QED BY <3>2, <3>3, <3>4, <3>5
  <2>5. v.modal \subseteq Loops(v) \ {Panels}
    <3>1. u.modal \subseteq Loops(u) \ {Panels} /\ (f \in X => f # Panels)
      BY <1>1, <1>6 DEF Nested, Placed
    <3> QED BY <3>1, <1>2, <1>4, <1>5, <1>6, <1>f
  <2>6. ASSUME NEW d \in v.modal \cap Listed(v) PROVE \E i \in 1..(n + 1) : v.calls[i].by = "diff"
    <3>1. CASE d \in X
      <4>1. v.calls[1].by = "diff"
        BY <3>1, <2>6, <1>2, <1>3, <1>4, <1>5, <1>6
      <4> QED BY <4>1, <1>n
    <3>2. CASE d \in u.modal
      <4>1. PICK i \in 1..n : u.calls[i].by = "diff"
        BY <3>2, <2>6, <1>1, <1>n, <1>5 DEF Nested
      <4>2. i + 1 \in 1..(n + 1) /\ v.calls[i + 1].by = "diff"
        BY <4>1, <1>n, <1>4
      <4> QED BY <4>2
    <3> QED BY <3>1, <3>2, <2>6, <1>5
  <2>7. Top(v) = n + 1 /\ Top(v) - 1 = n
    BY <1>4, <1>m DEF Top
  <2>8. v.calls # <<>> /\ DOMAIN v.calls = 1..(n + 1)
    BY <1>4, <1>5
  <2> QED BY <2>1, <2>2, <2>3, <2>4, <2>5, <2>6, <2>7, <2>8 DEF Nested
<1>s. Shown(v) = Shown(u)
  <2>1. CASE n = 1
    <3>1. v.calls[1].dlg \notin Listed(v)
      BY <1>2, <1>3, <1>4, <1>5
    <3>2. Len(v.calls) = 2 /\ Len(u.calls) = 1
      BY <2>1, <1>4, <1>n
    <3> QED BY <3>1, <3>2 DEF Shown, Top
  <2>2. CASE n > 1
    <3>1. n \in 2..(n + 1) /\ (n + 1) - 1 = n
      BY <2>2, <1>n
    <3>2. v.calls[n] = u.calls[n - 1]
      BY <3>1, <1>4
    <3>3. Shown(v) = IF v.calls[n].dlg \in Listed(v) THEN v.calls[n].dlg ELSE Panels
      BY <3>1, <2>2, <1>m, <1>4 DEF Shown, Top
    <3> QED BY <3>2, <3>3, <2>2, <1>n, <1>5 DEF Shown, Top
  <2>3. n = 1 \/ n > 1
    BY <1>m
  <2> QED BY <2>1, <2>2, <2>3
<1>11. Placed(v)
  <2>1. \A d \in Dialogs : v.st[d] # "none" <=> d \in Loops(v) \cup Listed(v)
    BY <1>1, <1>4, <1>5 DEF Placed
  <2>2. \A d \in Dialogs : v.st[d] # "construct" /\ (v.kind[d] = "panels" <=> d = Panels)
    BY <1>1, <1>2, <1>3, <1>5 DEF Placed
  <2>3. \A d \in Dialogs : v.kind[d] = "dom" <=> d = v.dom
    BY <1>1, <1>2, <1>5, PanelsAreFirst DEF Placed, Documents
  <2>4. v.dom # 0 => v.dom \in Loops(v)
    BY <1>1, <1>4 DEF Placed, Documents
  <2> QED BY <2>1, <2>2, <2>3, <2>4, <1>1, <1>l, <1>5 DEF Placed
<1>12. Still(v)
  <2>1. \A d \in Loops(v) \ {v.calls[1].dlg, Panels} : v.st[d] = "active"
    BY <1>1, <1>f, <1>3, <1>4, <1>7 DEF Still
  <2>2. \A d \in Listed(v) \ Loops(v) : v.st[d] = "suspended" /\ v.kind[d] \in Texts
    BY <1>1, <1>4, <1>5, <1>7 DEF Still
  <2>3. v.st[Panels] = u.st[Panels] /\ u.st[Panels] # "closed"
    <3>1. u.st[Panels] = "closed" => u.calls[1].dlg = Panels
      BY <1>1 DEF Still, Nested, Top
    <3> QED BY <3>1, <1>l, <1>7
  <2>4. v.st[Panels] = "suspended" => Shown(v) # Panels
    BY <2>3, <1>1, <1>s DEF Still
  <2> QED BY <2>1, <2>2, <2>3, <2>4 DEF Still
<1>13. Current(v)
  <2>1. ~Left(u) /\ ~Left(v) /\ ~v.pending /\ v.cur = u.cur
    <3>1. v.calls[1].dlg = h
      BY <1>3, <1>4
    <3> QED BY <3>1, <1>1, <1>f, <1>5 DEF Left, Current, Pushed
  <2> QED BY <2>1, <1>1, <1>s DEF Current
<1>14. Watched(v)
  <2>1. \A d \in v.changed : v.st[d] \in {"active", "suspended"} /\ v.kind[d] \in Texts
    <3>1. v.changed = u.changed /\ u.changed \subseteq Dialogs
      BY <1>1, Fields DEF Pushed
    <3>2. \A d \in u.changed : d # h
      BY <1>1 DEF Watched
    <3> QED BY <3>1, <3>2, <1>1, <1>5 DEF Watched
  <2>2. "file" \in v.docs => v.dom # 0 /\ v.st[v.dom] = "active"
    <3>1. CASE k = "dom"
      BY <3>1, <1>2, <1>5 DEF Documents
    <3>2. CASE k # "dom"
      BY <3>2, <1>1, <1>7 DEF Documents, Placed, Watched
    <3> QED BY <3>1, <3>2
  <2>3. v.dom # 0 /\ v.st[v.dom] = "active" => v.shown \in v.docs
    <3>1. CASE k = "dom"
      BY <3>1 DEF Documents
    <3>2. CASE k # "dom"
      BY <3>2, <1>1, <1>7 DEF Documents, Placed, Watched
    <3> QED BY <3>1, <3>2
  <2> QED BY <2>1, <2>2, <2>3 DEF Watched
<1>15. Dropped(v)
  BY <1>1 DEF Dropped, Pushed
<1> QED BY <1>5, <1>10, <1>11, <1>12, <1>13, <1>14, <1>15 DEF Right

-----------------------------------------------------------------------------
(* What the operators do. *)

\* The loops of a state may be any.
LEMMA SetCalls ==
    ASSUME NEW u \in UiStates, NEW s \in Seq(Entries)
    PROVE  [u EXCEPT !.calls = s] \in UiStates
  BY DEF UiStates

\* h is run by by, and modal.
EnteredModal(u, v, h, by) ==
    /\ v.st = [u.st EXCEPT ![h] = "active"] /\ v.kind = u.kind
    /\ v.modal = u.modal \cup {h} /\ v.changed = u.changed
    /\ v.top = <<h>> \o u.top /\ v.calls = <<[dlg |-> h, by |-> by]>> \o u.calls
    /\ v.list = u.list /\ v.cur = u.cur /\ v.pending = u.pending
    /\ v.dropped = u.dropped /\ v.asked = u.asked /\ v.phase = u.phase /\ ~v.fault
    /\ v.dom = u.dom /\ v.docs = u.docs /\ v.shown = u.shown

\* A dialog is run over a modal one, or is modal.
LEMMA RunModal ==
    ASSUME NEW u \in UiStates, NEW h \in Dialogs, ~u.fault,
           0 \notin Dialogs, u.st[h] = "construct",
           h \in u.modal \/ (u.top # <<>> /\ Head(u.top) \in u.modal),
           NEW by, [dlg |-> h, by |-> by] \in Entries, NEW v, v = Run(u, h, by)
    PROVE  v \in UiStates /\ EnteredModal(u, v, h, by)
<1> DEFINE modal == u.modal \cup {h}
           w == [u EXCEPT !.modal = modal, !.top = <<h>> \o @]
<1>1. <<h>> \o u.top \in Seq(Dialogs) /\ <<[dlg |-> h, by |-> by]>> \o u.calls \in Seq(Entries)
  <2>1. u.top \in Seq(Dialogs) /\ u.calls \in Seq(Entries)
    BY Fields
  <2> QED BY <2>1, Pushing
<1>2. [u.st EXCEPT ![h] = "active"] \in [Dialogs -> Going] /\ modal \in SUBSET Dialogs
  BY Fields DEF Going
<1>3. modal = IF u.top # <<>> /\ Head(u.top) \in u.modal THEN u.modal \cup {h} ELSE u.modal
  BY DEF modal
<1>4. DlgInit(u, h) = SetState(w, h, "active")
  BY <1>3 DEF DlgInit
<1>5. w.st = u.st
  BY DEF UiStates
<1>6. SetState(w, h, "active") = [w EXCEPT !.st[h] = "active"]
  BY <1>5 DEF SetState, Followed
<1>7. v = [[w EXCEPT !.st[h] = "active"] EXCEPT !.calls = <<[dlg |-> h, by |-> by]>> \o @]
  BY <1>4, <1>6 DEF Run
<1>8. v \in UiStates
  <2>1. w \in UiStates
    BY <1>1, <1>2 DEF UiStates
  <2> DEFINE x == [w EXCEPT !.st[h] = "active"]
  <2>2. x \in UiStates /\ x.calls = u.calls
    BY <2>1, <1>2, <1>5 DEF UiStates
  <2> HIDE DEF x
  <2> DEFINE s == <<[dlg |-> h, by |-> by]>> \o u.calls
  <2>3. v = [x EXCEPT !.calls = s]
    BY <1>7, <2>2 DEF x
  <2>4. s \in Seq(Entries)
    BY <1>1
  <2> HIDE DEF s
  <2> QED BY <2>2, <2>3, <2>4, SetCalls
<1> QED BY <1>7, <1>8 DEF UiStates, EnteredModal

\* h comes first of the screens, and is run by by.
Entered(u, v, h, by) ==
    /\ \A d \in Dialogs : v.st[d] = IF d = h THEN "active"
                                   ELSE IF d \in Listed(u) THEN "suspended" ELSE u.st[d]
    /\ v.kind = u.kind /\ v.modal = u.modal /\ v.changed = u.changed
    /\ v.top = <<h>> \o u.top /\ v.calls = <<[dlg |-> h, by |-> by]>> \o u.calls
    /\ v.list = <<h>> \o u.list /\ v.cur = h /\ v.pending = u.pending
    /\ v.dropped = u.dropped /\ v.asked = u.asked /\ v.phase = u.phase /\ ~v.fault
    /\ v.dom = u.dom /\ v.docs = u.docs /\ v.shown = u.shown

\* A new screen is run over what is not modal.
LEMMA RunScreen ==
    ASSUME NEW u \in UiStates, NEW h \in Dialogs, ~u.fault,
           ScreensConstants, u.st[h] = "construct",
           h \notin u.modal, u.top = <<>> \/ Head(u.top) \notin u.modal,
           h \notin Listed(u), \A d \in Listed(u) : u.st[d] # "none",
           NEW by, [dlg |-> h, by |-> by] \in Entries, NEW v, v = Run(u, h, by)
    PROVE  v \in UiStates /\ Entered(u, v, h, by)
<1> DEFINE st == [d \in Dialogs |-> IF d \in ToSet(u.list) \ {h} THEN "suspended" ELSE u.st[d]]
           t == [u EXCEPT !.modal = u.modal, !.top = <<h>> \o @]
           w == [t EXCEPT !.list = <<h>> \o u.list, !.cur = h, !.st = st, !.fault = FALSE]
           c == <<[dlg |-> h, by |-> by]>> \o u.calls
           x == [w EXCEPT !.st[h] = "active"]
<1>0. 0 \notin Dialogs /\ h \in 0..MaxDialogs
  BY PanelsAreFirst
<1>1. u.top \in Seq(Dialogs) /\ u.list \in Seq(Dialogs) /\ u.calls \in Seq(Entries)
  BY Fields
<1>2. <<h>> \o u.top \in Seq(Dialogs) /\ <<h>> \o u.list \in Seq(Dialogs) /\ c \in Seq(Entries)
  BY <1>1, Pushing
<1>3. st \in [Dialogs -> Going] /\ [st EXCEPT ![h] = "active"] \in [Dialogs -> Going]
  BY Fields DEF Going
<1>4. t \in UiStates /\ t.st = u.st /\ t.list = u.list /\ t.modal = u.modal /\ ~t.fault
      /\ t.calls = u.calls
  BY <1>2 DEF UiStates
<1>5. ~Contains(u.list, h) /\ ~\E d \in ToSet(u.list) : Followed(t, d)
  <2>1. h \notin ToSet(u.list) /\ DOMAIN u.list = 1..Len(u.list)
    BY <1>1, ToSetIn DEF Listed
  <2>2. \A d \in ToSet(u.list) : u.st[d] # "none" /\ d \in Dialogs
    BY <1>1, ToSetIn DEF Listed
  <2> QED BY <2>1, <2>2, <1>0, <1>4 DEF Contains, ToSet, Followed
<1>6. SwitchAdd(t, h) = w
  <2> HIDE DEF t
  <2> QED BY <1>4, <1>5 DEF SwitchAdd
<1>7. w \in UiStates /\ w.st = st /\ w.calls = u.calls /\ ~w.fault
  <2> HIDE DEF t, st
  <2> QED BY <1>0, <1>2, <1>3, <1>4 DEF UiStates
<1>8. DlgInit(u, h) = SetState(w, h, "active")
  <2>1. u.modal = IF u.top # <<>> /\ Head(u.top) \in u.modal THEN u.modal \cup {h} ELSE u.modal
    OBVIOUS
  <2> HIDE DEF w
  <2> QED BY <2>1, <1>4, <1>6 DEF DlgInit
<1>9. SetState(w, h, "active") = x
  <2>1. w.st[h] # "none" /\ h # 0
    BY <1>0, <1>7
  <2> HIDE DEF w
  <2> QED BY <2>1 DEF SetState, Followed
<1>10. x \in UiStates /\ x.calls = u.calls /\ x.st = [st EXCEPT ![h] = "active"]
  <2> HIDE DEF w, st
  <2> QED BY <1>3, <1>7 DEF UiStates
<1>11. v = [x EXCEPT !.calls = c]
  <2> HIDE DEF x
  <2> QED BY <1>8, <1>9, <1>10 DEF Run
<1>12. v \in UiStates
  <2> HIDE DEF x, c
  <2> QED BY <1>2, <1>10, <1>11, SetCalls
<1>13. \A d \in Dialogs : [st EXCEPT ![h] = "active"][d] =
           IF d = h THEN "active" ELSE IF d \in Listed(u) THEN "suspended" ELSE u.st[d]
  BY DEF Listed
<1>14. v.st = [st EXCEPT ![h] = "active"]
  <2> HIDE DEF x, st
  <2> QED BY <1>10, <1>11 DEF UiStates
<1>15. /\ v.kind = u.kind /\ v.modal = u.modal /\ v.changed = u.changed
       /\ v.top = <<h>> \o u.top /\ v.calls = <<[dlg |-> h, by |-> by]>> \o u.calls
       /\ v.list = <<h>> \o u.list /\ v.cur = h /\ v.pending = u.pending
       /\ v.dropped = u.dropped /\ v.asked = u.asked /\ v.phase = u.phase /\ ~v.fault
       /\ v.dom = u.dom /\ v.docs = u.docs /\ v.shown = u.shown
  <2> HIDE DEF st
  <2> QED BY <1>11 DEF UiStates
<1> QED BY <1>12, <1>13, <1>14, <1>15 DEF Entered

\* A screen of the list is run again.
LEMMA RunAgain ==
    ASSUME NEW u \in UiStates, NEW h \in Dialogs, ~u.fault, 0 \notin Dialogs,
           u.st[h] \notin {"none", "construct"},
           u.top = <<>> \/ Head(u.top) \notin u.modal,
           NEW by, [dlg |-> h, by |-> by] \in Entries, NEW v, v = Run(u, h, by)
    PROVE  /\ v \in UiStates
           /\ v.st = [u.st EXCEPT ![h] = "active"]
           /\ v.kind = u.kind /\ v.modal = u.modal /\ v.changed = u.changed
           /\ v.top = <<h>> \o u.top /\ v.calls = <<[dlg |-> h, by |-> by]>> \o u.calls
           /\ v.list = u.list /\ v.cur = u.cur /\ v.pending = u.pending
           /\ v.dropped = u.dropped /\ v.asked = u.asked /\ v.phase = u.phase /\ ~v.fault
           /\ v.dom = u.dom /\ v.docs = u.docs /\ v.shown = u.shown
<1> DEFINE t == [u EXCEPT !.modal = u.modal, !.top = <<h>> \o @]
           c == <<[dlg |-> h, by |-> by]>> \o u.calls
           x == [t EXCEPT !.st[h] = "active"]
<1>1. u.top \in Seq(Dialogs) /\ u.calls \in Seq(Entries)
  BY Fields
<1>2. <<h>> \o u.top \in Seq(Dialogs) /\ c \in Seq(Entries)
  BY <1>1, Pushing
<1>3. [u.st EXCEPT ![h] = "active"] \in [Dialogs -> Going]
  BY Fields DEF Going
<1>4. t \in UiStates /\ t.st = u.st /\ t.calls = u.calls
  BY <1>2 DEF UiStates
<1>5. DlgInit(u, h) = SetState(t, h, "active")
  <2>1. u.modal = IF u.top # <<>> /\ Head(u.top) \in u.modal THEN u.modal \cup {h} ELSE u.modal
    OBVIOUS
  <2> HIDE DEF t
  <2> QED BY <2>1, <1>4 DEF DlgInit, t
<1>6. SetState(t, h, "active") = x
  <2> HIDE DEF t
  <2> QED BY <1>4 DEF SetState, Followed
<1>7. x \in UiStates /\ x.calls = u.calls /\ x.st = [u.st EXCEPT ![h] = "active"]
  <2> HIDE DEF t
  <2> QED BY <1>3, <1>4 DEF UiStates
<1>8. v = [x EXCEPT !.calls = c]
  <2> HIDE DEF x
  <2> QED BY <1>5, <1>6, <1>7 DEF Run
<1>9. v \in UiStates
  <2> HIDE DEF x, c
  <2> QED BY <1>2, <1>7, <1>8, SetCalls
<1>10. v.st = x.st /\ v.calls = c
  <2> HIDE DEF x, c
  <2> QED BY <1>7, <1>8 DEF UiStates
<1>11. /\ v.kind = u.kind /\ v.modal = u.modal /\ v.changed = u.changed
       /\ v.top = <<h>> \o u.top /\ v.list = u.list /\ v.cur = u.cur
       /\ v.pending = u.pending /\ v.dropped = u.dropped /\ v.asked = u.asked
       /\ v.phase = u.phase /\ v.fault = u.fault /\ v.dom = u.dom /\ v.docs = u.docs
       /\ v.shown = u.shown
  BY <1>8 DEF UiStates
<1>12. v.st = [u.st EXCEPT ![h] = "active"]
  BY <1>7, <1>10
<1>13. ~v.fault
  BY <1>11
<1> QED BY <1>9, <1>10, <1>11, <1>12, <1>13

-----------------------------------------------------------------------------
(* The panels, and a screen over them. *)

Main == [dlg |-> Panels, by |-> "main"]

\* The panels have the only loop.
Alone(u) ==
    /\ u \in UiStates /\ ~u.fault /\ Dropped(u) /\ u.phase = "run"
    /\ u.calls = <<Main>> /\ u.top = <<Panels>> /\ u.modal = {} /\ u.dom = 0
    /\ Distinct(u.list) /\ Panels \in Listed(u)
    /\ \A d \in Dialogs : u.st[d] # "none" <=> d \in Listed(u)
    /\ \A d \in Dialogs : u.kind[d] = "panels" <=> d = Panels
    /\ \A d \in Dialogs : u.kind[d] # "dom"
    /\ \A d \in Listed(u) \ {Panels} : u.st[d] = "suspended" /\ u.kind[d] \in Texts
    /\ \A d \in u.changed : u.st[d] \in {"active", "suspended"} /\ u.kind[d] \in Texts
    /\ "file" \notin u.docs /\ u.st[Panels] # "construct"

\* The screen h has a loop, run by by, and the panels have the other.
OnScreen(u, h, by) ==
    /\ u \in UiStates /\ ~u.fault /\ Dropped(u) /\ u.phase = "run"
    /\ u.calls = <<[dlg |-> h, by |-> by], Main>> /\ u.top = <<h, Panels>> /\ u.modal = {}
    /\ Distinct(u.list) /\ Panels \in Listed(u) /\ h \in Listed(u) /\ h # Panels
    /\ \A d \in Dialogs : u.st[d] # "none" <=> d \in Listed(u)
    /\ \A d \in Dialogs : u.kind[d] = "panels" <=> d = Panels
    /\ \A d \in Dialogs : u.kind[d] = "dom" <=> d = u.dom
    /\ \A d \in Listed(u) \ {Panels, h} : u.st[d] = "suspended" /\ u.kind[d] \in Texts
    /\ \A d \in u.changed : u.st[d] \in {"active", "suspended"} /\ u.kind[d] \in Texts
    /\ u.st[Panels] \in {"active", "suspended"} /\ u.st[h] # "construct"
    /\ \/ u.dom = 0 /\ by \in {"panels", "pending"} /\ u.kind[h] \in Texts /\ "file" \notin u.docs
       \/ /\ u.dom = h /\ by \in {"html", "show"} /\ u.st[h] # "suspended"
          /\ IF u.st[h] = "active" THEN u.shown \in u.docs ELSE "file" \notin u.docs
    /\ u.st[h] # "suspended" => ~u.pending /\ u.cur = h
    /\ u.st[h] = "suspended" => IF u.pending THEN u.cur \in Listed(u) \ {h, Panels}
                                ELSE u.cur = Panels /\ u.st[Panels] = "active"

\* A stack of one loop.
LEMMA OneLoop ==
    ASSUME NEW u, NEW a, u.calls = <<a>>
    PROVE  /\ Len(u.calls) = 1 /\ u.calls[1] = a /\ Head(u.calls) = a /\ Tail(u.calls) = <<>>
           /\ DOMAIN u.calls = 1..1 /\ Loops(u) = {a.dlg} /\ u.calls # <<>>
<1>1. /\ Len(u.calls) = 1 /\ u.calls[1] = a /\ Head(u.calls) = a /\ Tail(u.calls) = <<>>
      /\ DOMAIN u.calls = 1..1 /\ u.calls # <<>>
  OBVIOUS
<1>2. Loops(u) = {a.dlg}
  BY <1>1 DEF Loops
<1> QED BY <1>1, <1>2

\* A stack of two loops.
LEMMA TwoLoops ==
    ASSUME NEW u, NEW a, NEW b, u.calls = <<a, b>>
    PROVE  /\ Len(u.calls) = 2 /\ u.calls[1] = a /\ u.calls[2] = b /\ Head(u.calls) = a
           /\ Tail(u.calls) = <<b>> /\ u.calls # <<>>
           /\ DOMAIN u.calls = 1..2 /\ Loops(u) = {a.dlg, b.dlg}
<1>1. /\ Len(u.calls) = 2 /\ u.calls[1] = a /\ u.calls[2] = b /\ Head(u.calls) = a
      /\ Tail(u.calls) = <<b>> /\ DOMAIN u.calls = 1..2 /\ u.calls # <<>>
  OBVIOUS
<1>2. Loops(u) = {a.dlg, b.dlg}
  BY <1>1 DEF Loops
<1> QED BY <1>1, <1>2

\* The panels with the only loop are right,
LEMMA AloneIsRight ==
    ASSUME ScreensConstants, NEW u, Alone(u), ~u.pending, u.cur = Panels,
           u.st[Panels] \in {"active", "closed"}, u.st[Panels] = "closed" => u.asked
    PROVE  Right(u)
<1>1. /\ Len(u.calls) = 1 /\ u.calls[1] = Main /\ DOMAIN u.calls = 1..1 /\ Loops(u) = {Panels}
      /\ u.calls # <<>>
  BY OneLoop DEF Alone, Main
<1>2. Listed(u) \in SUBSET Dialogs /\ u.changed \in SUBSET Dialogs
  BY Fields, ListedIn DEF Alone
<1>3. Nested(u)
  <2>1. Len(u.top) = 1 /\ u.top[1] = Panels
    BY DEF Alone
  <2> QED BY <1>1, <2>1 DEF Nested, Top, Alone, Main
<1>4. Placed(u)
  BY <1>1, <1>2, PanelsAreFirst DEF Placed, Alone
<1>5. Still(u)
  BY <1>1 DEF Still, Alone, Shown, Top, Main
<1>6. Current(u)
  BY <1>1 DEF Current, Left, Shown, Top, Main
<1>7. Watched(u)
  BY DEF Watched, Alone
<1> QED BY <1>3, <1>4, <1>5, <1>6, <1>7 DEF Right, Alone

\* and so is a screen over them.
LEMMA ScreenIsRight ==
    ASSUME ScreensConstants, NEW u, NEW h, NEW by, OnScreen(u, h, by)
    PROVE  Right(u)
<1> DEFINE e == [dlg |-> h, by |-> by]
<1>1. /\ Len(u.calls) = 2 /\ u.calls[1] = e /\ u.calls[2] = Main /\ DOMAIN u.calls = 1..2
      /\ Loops(u) = {h, Panels} /\ u.calls # <<>>
  <2>1. u.calls = <<e, Main>>
    BY DEF OnScreen
  <2>2. e.dlg = h /\ Main.dlg = Panels
    BY DEF Main
  <2> HIDE DEF e
  <2> QED BY <2>1, <2>2, TwoLoops
<1>2. Listed(u) \in SUBSET Dialogs /\ u.changed \in SUBSET Dialogs /\ h \in Dialogs /\ h # Panels
      /\ h \in Listed(u)
  <2>1. Listed(u) \in SUBSET Dialogs /\ u.changed \in SUBSET Dialogs
    BY Fields, ListedIn DEF OnScreen
  <2> QED BY <2>1 DEF OnScreen
<1>3. Shown(u) = h
  BY <1>1, <1>2 DEF Shown, Top
<1>4. Nested(u)
  <2>1. Len(u.top) = 2 /\ u.top[1] = h /\ u.top[2] = Panels
    BY DEF OnScreen
  <2>2. Lies(u, 1)
    BY <1>1, <1>2 DEF Lies, OnPanels, OnScreen, Main
  <2>3. \A i, j \in DOMAIN u.calls : u.calls[i].dlg = u.calls[j].dlg => i = j
    BY <1>1, <1>2 DEF Main
  <2>4. \A i \in 1..Top(u) : u.top[i] = u.calls[i].dlg
    BY <1>1, <2>1 DEF Main, Top
  <2> QED BY <1>1, <2>1, <2>2, <2>3, <2>4 DEF Nested, Top, OnScreen, Main
<1>5. Placed(u)
  <2>1. \A d \in Dialogs : u.st[d] # "construct"
    BY DEF OnScreen
  <2> QED BY <1>1, <1>2, <2>1 DEF Placed, OnScreen
<1>6. Still(u)
  BY <1>1, <1>2, <1>3 DEF Still, OnScreen
<1>7. Current(u)
  BY <1>1, <1>2, <1>3 DEF Current, Left, OnScreen, Top
<1>8. Watched(u)
  BY <1>2, PanelsAreFirst DEF Watched, OnScreen
<1> QED BY <1>4, <1>5, <1>6, <1>7, <1>8 DEF Right, OnScreen

\* The panels' loop is the only one.
LEMMA RightIsAlone ==
    ASSUME ScreensConstants, NEW u, Right(u), u.phase = "run", u.calls[1].dlg = Panels
    PROVE  /\ Alone(u) /\ ~u.pending /\ u.cur = Panels
           /\ u.st[Panels] \in {"active", "closed"} /\ (u.st[Panels] = "closed" => u.asked)
<1>1. /\ u \in UiStates /\ ~u.fault /\ Dropped(u)
      /\ Nested(u) /\ Placed(u) /\ Still(u) /\ Current(u) /\ Watched(u)
  BY DEF Right
<1>2. /\ u.calls \in Seq(Entries) /\ Len(u.calls) \in Nat /\ Len(u.calls) >= 1
      /\ DOMAIN u.calls = 1..Len(u.calls)
  BY LoopFacts
<1>3. u.calls[Len(u.calls)] = Main
  BY <1>1 DEF Nested, Top, Main
<1>4. Len(u.calls) = 1
  <2>1. Len(u.calls) \in 1..Len(u.calls) /\ 1 \in 1..Len(u.calls)
    BY <1>2
  <2>2. \A i, j \in 1..Len(u.calls) : u.calls[i].dlg = u.calls[j].dlg => i = j
    BY <1>1, <1>2 DEF Nested
  <2>3. u.calls[Len(u.calls)].dlg = u.calls[1].dlg
    BY <1>3 DEF Main
  <2> QED BY <2>1, <2>2, <2>3
<1>5. u.calls = <<Main>>
  BY <1>2, <1>3, <1>4
<1>6. Loops(u) = {Panels}
  BY <1>5, OneLoop DEF Main
<1>7. u.top = <<Panels>>
  <2>1. u.top \in Seq(Dialogs) /\ Len(u.top) = 1 /\ u.top[1] = Panels
    <3>1. u.top \in Seq(Dialogs)
      BY <1>1, Fields
    <3>2. 1 \in 1..1
      OBVIOUS
    <3> QED BY <3>1, <3>2, <1>1, <1>3, <1>4 DEF Nested, Top, Main
  <2> QED BY <2>1
<1>8. u.modal = {} /\ Shown(u) = Panels
  BY <1>1, <1>4, <1>6 DEF Nested, Shown, Top
<1>9. Panels \in Dialogs /\ 0 \notin Dialogs /\ u.dom \in 0..MaxDialogs
  BY <1>1, Fields, PanelsAreFirst
<1>10. u.dom = 0
  BY <1>1, <1>6, <1>9 DEF Placed
<1>11. u.st \in [Dialogs -> Going] /\ Listed(u) \in SUBSET Dialogs /\ u.changed \in SUBSET Dialogs
  BY <1>1, Fields, ListedIn
<1>12. u.st[Panels] \in {"active", "closed"} /\ (u.st[Panels] = "closed" => u.asked)
  BY <1>1, <1>6, <1>8, <1>9, <1>11 DEF Placed, Still, Going
<1>13. ~u.pending /\ u.cur = Panels
  BY <1>1, <1>8 DEF Current, Left
<1>14. Alone(u)
  <2>1. /\ Distinct(u.list) /\ Panels \in Listed(u) /\ "file" \notin u.docs
        /\ u.st[Panels] # "construct"
    BY <1>1, <1>9, <1>10 DEF Placed, Watched
  <2>2. \A d \in Dialogs : /\ u.st[d] # "none" <=> d \in Listed(u)
                           /\ u.kind[d] = "panels" <=> d = Panels
                           /\ u.kind[d] # "dom"
    BY <2>1, <1>1, <1>6, <1>9, <1>10 DEF Placed
  <2>3. \A d \in Listed(u) \ {Panels} : u.st[d] = "suspended" /\ u.kind[d] \in Texts
    BY <1>1, <1>6 DEF Still
  <2> QED BY <2>1, <2>2, <2>3, <1>1, <1>5, <1>7, <1>8, <1>10 DEF Alone, Watched
<1> QED BY <1>12, <1>13, <1>14

\* What is not modal and has a loop is a screen over the panels.
LEMMA RightIsOnScreen ==
    ASSUME ScreensConstants, NEW u, Right(u), u.phase = "run",
           u.calls[1].dlg # Panels, u.calls[1].dlg \notin u.modal
    PROVE  OnScreen(u, u.calls[1].dlg, u.calls[1].by)
<1> DEFINE n == Len(u.calls)
           h == u.calls[1].dlg
           by == u.calls[1].by
<1>1. /\ u \in UiStates /\ ~u.fault /\ Dropped(u)
      /\ Nested(u) /\ Placed(u) /\ Still(u) /\ Current(u) /\ Watched(u)
  BY DEF Right
<1>2. /\ u.calls \in Seq(Entries) /\ n \in Nat /\ n >= 1 /\ DOMAIN u.calls = 1..n
      /\ \A i \in 1..n : u.calls[i] \in Entries
  BY LoopFacts
<1>3. u.calls[n] = Main /\ \A i \in 1..(n - 1) : Lies(u, i)
  BY <1>1 DEF Nested, Top, Main
<1>4. n # 1
  BY <1>3 DEF Main
<1>5. Lies(u, 1) /\ 2 \in 1..n /\ n \in 1..n /\ 1 \in 1..n
  <2>1. 1 \in 1..(n - 1) /\ 2 \in 1..n /\ n \in 1..n /\ 1 \in 1..n
    <3>1. n \in Nat /\ n >= 1 /\ n # 1
      BY <1>2, <1>4
    <3> HIDE DEF n
    <3> QED BY <3>1
  <2> QED BY <2>1, <1>3
<1>6. OnPanels(u, u.calls[1]) /\ u.calls[2].dlg = Panels
  BY <1>5 DEF Lies, Boxed, OnBox, OnDiff
<1>7. n = 2
  <2>1. \A i, j \in 1..n : u.calls[i].dlg = u.calls[j].dlg => i = j
    BY <1>1, <1>2 DEF Nested
  <2>2. u.calls[n].dlg = u.calls[2].dlg
    BY <1>3, <1>6 DEF Main
  <2> QED BY <2>1, <2>2, <1>5
<1>8. u.calls = <<[dlg |-> h, by |-> by], Main>>
  <2>1. u.calls[1] = [dlg |-> h, by |-> by]
    BY <1>2, <1>5 DEF Entries
  <2>2. u.calls[2] = Main
    BY <1>3, <1>7
  <2> QED BY <2>1, <2>2, <1>2, <1>7
<1>9. Loops(u) = {h, Panels} /\ h \in Listed(u) /\ h # Panels
  <2>1. Loops(u) = {h, Main.dlg}
    BY <1>8, TwoLoops
  <2> QED BY <2>1, <1>6 DEF OnPanels, Main
<1>10. u.top = <<h, Panels>>
  <2>1. u.top \in Seq(Dialogs)
    BY <1>1, Fields
  <2>2. Len(u.top) = 2 /\ u.top[1] = h /\ u.top[2] = Panels
    BY <1>1, <1>5, <1>6, <1>7 DEF Nested, Top
  <2> QED BY <2>1, <2>2
<1>11. u.modal = {} /\ Shown(u) = h
  <2>1. u.modal = {}
    BY <1>1, <1>9 DEF Nested
  <2> QED BY <2>1, <1>7, <1>9 DEF Shown, Top
<1>12. Panels \in Dialogs /\ 0 \notin Dialogs /\ h \in Dialogs
  BY <1>1, <1>9, ListedIn, PanelsAreFirst
<1>13. u.st \in [Dialogs -> Going] /\ Listed(u) \in SUBSET Dialogs
  BY <1>1, Fields, ListedIn
<1>14. /\ Distinct(u.list) /\ Panels \in Listed(u)
       /\ \A d \in Dialogs : u.st[d] # "none" <=> d \in Listed(u)
       /\ \A d \in Dialogs : u.kind[d] = "panels" <=> d = Panels
       /\ \A d \in Dialogs : u.kind[d] = "dom" <=> d = u.dom
       /\ \A d \in Dialogs : u.st[d] # "construct"
  <2>1. Distinct(u.list) /\ Panels \in Listed(u)
    BY <1>1 DEF Placed
  <2> QED BY <2>1, <1>1, <1>9 DEF Placed
<1>15. u.st[Panels] \in {"active", "suspended"}
  BY <1>1, <1>7, <1>12, <1>13, <1>14 DEF Still, Top, Going
<1>16. \/ u.dom = 0 /\ by \in {"panels", "pending"} /\ u.kind[h] \in Texts /\ "file" \notin u.docs
       \/ /\ u.dom = h /\ by \in {"html", "show"} /\ u.st[h] # "suspended"
          /\ IF u.st[h] = "active" THEN u.shown \in u.docs ELSE "file" \notin u.docs
  <2>1. CASE by \in {"panels", "pending"} /\ u.kind[h] \in Texts
    <3>1. u.dom # h /\ u.dom # Panels
      BY <2>1, <1>12, <1>14 DEF Texts
    <3>2. u.dom = 0
      BY <3>1, <1>1, <1>9 DEF Placed
    <3> QED BY <2>1, <3>2, <1>1 DEF Watched
  <2>2. CASE by \in {"html", "show"} /\ u.kind[h] = "dom"
    <3>1. u.dom = h /\ h # 0
      BY <2>2, <1>12, <1>14
    <3>2. u.st[h] # "suspended"
      BY <2>2, <1>1, <1>9 DEF Current, Left
    <3> QED BY <2>2, <3>1, <3>2, <1>1 DEF Watched
  <2> QED BY <2>1, <2>2, <1>6 DEF OnPanels
<1>17. /\ u.st[h] # "suspended" => ~u.pending /\ u.cur = h
       /\ u.st[h] = "suspended" => IF u.pending THEN u.cur \in Listed(u) \ {h, Panels}
                                   ELSE u.cur = Panels /\ u.st[Panels] = "active"
  BY <1>1, <1>9, <1>11 DEF Current, Left
<1>18. \A d \in Listed(u) \ {Panels, h} : u.st[d] = "suspended" /\ u.kind[d] \in Texts
  BY <1>1, <1>9 DEF Still
<1>19. \A d \in u.changed : u.st[d] \in {"active", "suspended"} /\ u.kind[d] \in Texts
  BY <1>1 DEF Watched
<1> HIDE DEF h, by
<1> QED BY <1>1, <1>8, <1>9, <1>10, <1>11, <1>12, <1>14, <1>15, <1>16, <1>17, <1>18, <1>19
        DEF OnScreen

-----------------------------------------------------------------------------
(* Screens are opened. *)

\* Two in a sequence.
LEMMA Pair ==
    ASSUME NEW a, NEW b
    PROVE  <<a>> \o <<b>> = <<a, b>>
<1> DEFINE S == {a, b}
           s == <<a>>
           r == <<b>>
<1>1. s \in Seq(S) /\ r \in Seq(S) /\ Len(s) = 1 /\ Len(r) = 1 /\ s[1] = a /\ r[1] = b
  OBVIOUS
<1> HIDE DEF S, s, r
<1>2. /\ s \o r \in Seq(S) /\ Len(s \o r) = 2
      /\ (s \o r)[1] = a /\ (s \o r)[2] = b
  <2>1. /\ s \o r \in Seq(S) /\ Len(s \o r) = Len(s) + Len(r)
        /\ \A i \in 1..(Len(s) + Len(r)) : (s \o r)[i] = IF i <= Len(s) THEN s[i] ELSE r[i - Len(s)]
    BY <1>1, ConcatProperties
  <2> QED BY <2>1, <1>1
<1>3. ASSUME NEW x \in Seq(S), Len(x) = 2, x[1] = a, x[2] = b
      PROVE  x = <<a, b>>
  BY <1>3
<1>4. s \o r = <<a, b>>
  BY <1>2, <1>3
<1> QED BY <1>4 DEF s, r

\* h, of kind k, is run by by, over the panels.
Opened(u, v, h, k, by) ==
    /\ \A d \in Dialogs : v.st[d] = IF d = h THEN "active"
                                   ELSE IF d \in Listed(u) THEN "suspended" ELSE u.st[d]
    /\ v.kind = [u.kind EXCEPT ![h] = k] /\ v.modal = u.modal /\ v.changed = u.changed
    /\ v.top = <<h>> \o u.top /\ v.calls = <<[dlg |-> h, by |-> by]>> \o u.calls
    /\ v.list = <<h>> \o u.list /\ v.cur = h /\ ~v.pending /\ v.dropped = u.dropped
    /\ v.phase = u.phase /\ ~v.fault
    /\ \/ k \in Texts /\ by = "panels" /\ v.dom = 0 /\ v.docs = u.docs
       \/ k = "dom" /\ by \in {"html", "show"} /\ v.dom = h /\ v.shown \in v.docs

\* A new screen comes over the panels.
LEMMA NewScreen ==
    ASSUME ScreensConstants, NEW u, Alone(u), ~u.pending, u.st[Panels] = "active",
           NEW h \in Dialogs, h \notin Listed(u), NEW k, NEW by, NEW v, v \in UiStates,
           Opened(u, v, h, k, by)
    PROVE  OnScreen(v, h, by)
<1>1. /\ u \in UiStates /\ u.list \in Seq(Dialogs) /\ Listed(u) \in SUBSET Dialogs
      /\ u.kind \in [Dialogs -> Kinds \cup {"", "panels"}] /\ u.changed \in SUBSET Dialogs
  BY Fields, ListedIn DEF Alone
<1>2. Panels \in Dialogs /\ 0 \notin Dialogs /\ Panels \in Listed(u) /\ h # Panels /\ h # 0
  BY PanelsAreFirst DEF Alone
<1>3. v.calls = <<[dlg |-> h, by |-> by], Main>> /\ v.top = <<h, Panels>>
  BY Pair DEF Alone, Opened
<1>4. Listed(v) = Listed(u) \cup {h} /\ v.list = <<h>> \o u.list
  <2>1. v.list = <<h>> \o u.list
    BY DEF Opened
  <2>2. ASSUME NEW s \in Seq(Dialogs), NEW t, t = <<h>> \o s
        PROVE  ToSet(t) = ToSet(s) \cup {h}
    BY <2>2, PushingSet
  <2> QED BY <1>1, <2>1, <2>2 DEF Listed
<1>5. Distinct(v.list)
  <2>1. /\ Len(v.list) = Len(u.list) + 1 /\ v.list[1] = h /\ v.list \in Seq(Dialogs)
        /\ \A i \in 2..Len(v.list) : v.list[i] = u.list[i - 1] /\ i - 1 \in 1..Len(u.list)
    <3>1. u.list \in Seq(Dialogs) /\ v.list = <<h>> \o u.list
      BY <1>1, <1>4
    <3> QED BY <3>1, Pushing
  <2>2. /\ DOMAIN v.list = 1..Len(v.list) /\ DOMAIN u.list = 1..Len(u.list)
        /\ \A i \in 1..Len(u.list) : u.list[i] \in Listed(u)
    BY <1>1, <2>1, ToSetIn DEF Listed
  <2>3. \A i \in 1..Len(v.list) : i = 1 \/ i \in 2..Len(v.list)
    BY <2>1
  <2>4. \A i \in 2..Len(v.list) : v.list[i] # h
    BY <2>1, <2>2
  <2>5. ASSUME NEW i \in 2..Len(v.list), NEW j \in 2..Len(v.list), v.list[i] = v.list[j]
        PROVE  i = j
    <3>1. i - 1 \in 1..Len(u.list) /\ j - 1 \in 1..Len(u.list) /\ u.list[i - 1] = u.list[j - 1]
      BY <2>1, <2>5
    <3>2. i - 1 = j - 1
      BY <3>1, <2>2 DEF Alone, Distinct
    <3> QED BY <3>2
  <2>6. \A i, j \in 1..Len(v.list) : v.list[i] = v.list[j] => i = j
    BY <2>1, <2>3, <2>4, <2>5
  <2> QED BY <2>2, <2>6 DEF Distinct
<1>6. /\ \A d \in Dialogs : v.st[d] = IF d = h THEN "active"
                                      ELSE IF d \in Listed(u) THEN "suspended" ELSE u.st[d]
      /\ \A d \in Dialogs \ {h} : v.kind[d] = u.kind[d]
      /\ v.kind[h] = k
  BY <1>1 DEF Opened
<1>7. /\ \A d \in Dialogs : v.st[d] # "none" <=> d \in Listed(v)
      /\ \A d \in Listed(v) \ {Panels, h} : v.st[d] = "suspended" /\ v.kind[d] \in Texts
      /\ v.st[Panels] = "suspended" /\ v.st[h] = "active"
  <2>1. \A d \in Dialogs : v.st[d] # "none" <=> d \in Listed(v)
    BY <1>4, <1>6 DEF Alone
  <2>2. \A d \in Listed(v) \ {Panels, h} : v.st[d] = "suspended" /\ v.kind[d] \in Texts
    BY <1>1, <1>4, <1>6 DEF Alone
  <2> QED BY <2>1, <2>2, <1>2, <1>6
<1>8. k # "panels"
  BY DEF Texts, Opened
<1>9. \A d \in Dialogs : v.kind[d] = "panels" <=> d = Panels
  BY <1>2, <1>6, <1>8 DEF Alone
<1>10. \A d \in Dialogs : v.kind[d] = "dom" <=> d = v.dom
  BY <1>2, <1>6 DEF Alone, Texts, Opened
<1>11. \A d \in v.changed : v.st[d] \in {"active", "suspended"} /\ v.kind[d] \in Texts
  <2>1. \A d \in u.changed : d \in Dialogs /\ d # h /\ d \in Listed(u)
    BY <1>1 DEF Alone
  <2>2. v.changed = u.changed
    BY DEF Opened
  <2> QED BY <2>1, <2>2, <1>6 DEF Alone
<1>12. \/ v.dom = 0 /\ by \in {"panels", "pending"} /\ v.kind[h] \in Texts /\ "file" \notin v.docs
       \/ v.dom = h /\ by \in {"html", "show"} /\ v.shown \in v.docs
  BY <1>6 DEF Alone, Opened
<1>13. ~v.fault /\ Dropped(v) /\ v.phase = "run" /\ v.modal = {} /\ ~v.pending /\ v.cur = h
  BY DEF Alone, Dropped, Opened
<1> QED BY <1>2, <1>3, <1>4, <1>5, <1>7, <1>9, <1>10, <1>11, <1>12, <1>13 DEF OnScreen

\* The screen that was chosen is run over the panels.
LEMMA PendingIsRun ==
    ASSUME ScreensConstants, NEW u, Alone(u), u.pending, u.cur \in Listed(u) \ {Panels},
           u.st[Panels] \in {"active", "suspended"}, NEW v, v = ProcessPending(u)
    PROVE  OnScreen(v, u.cur, "pending")
<1> DEFINE h == u.cur
           t == [u EXCEPT !.pending = FALSE]
           w == [t EXCEPT !.st[h] = "suspended"]
<1>1. /\ u \in UiStates /\ u.list \in Seq(Dialogs) /\ Listed(u) \in SUBSET Dialogs
      /\ u.st \in [Dialogs -> Going]
  BY Fields, ListedIn DEF Alone
<1>2. Panels \in Dialogs /\ 0 \notin Dialogs /\ h \in Dialogs /\ h # Panels /\ h # 0
  BY <1>1, PanelsAreFirst
<1>3. t \in UiStates /\ t.st = u.st
  BY <1>1 DEF UiStates
<1>4. u.st[h] = "suspended" /\ u.kind[h] \in Texts
  BY DEF Alone
<1>5. SetState(t, h, "suspended") = w /\ w = t
  <2>1. t.st[h] = "suspended" /\ [t.st EXCEPT ![h] = "suspended"] = t.st
    BY <1>1, <1>2, <1>3, <1>4
  <2>2. SetState(t, h, "suspended") = w
    <3> HIDE DEF t
    <3> QED BY <1>2, <2>1 DEF SetState, Followed
  <2>3. w = t
    <3> HIDE DEF t
    <3> QED BY <1>3, <2>1 DEF UiStates
  <2> QED BY <2>2, <2>3
<1>6. v = Run(t, h, "pending")
  BY <1>2, <1>5 DEF ProcessPending
<1>7. /\ t.kind = u.kind /\ t.modal = u.modal /\ t.changed = u.changed /\ t.top = u.top
      /\ t.calls = u.calls /\ t.list = u.list /\ t.cur = u.cur /\ ~t.pending
      /\ t.dropped = u.dropped /\ t.phase = u.phase /\ t.fault = u.fault /\ t.dom = u.dom
      /\ t.docs = u.docs
  BY <1>1 DEF UiStates
<1> HIDE DEF h, t, w
<1>8. [dlg |-> h, by |-> "pending"] \in Entries
  BY <1>2 DEF Entries
<1>9. /\ v \in UiStates
      /\ v.st = [u.st EXCEPT ![h] = "active"] /\ v.kind = u.kind /\ v.modal = u.modal
      /\ v.changed = u.changed /\ v.top = <<h>> \o u.top
      /\ v.calls = <<[dlg |-> h, by |-> "pending"]>> \o u.calls
      /\ v.list = u.list /\ v.cur = u.cur /\ ~v.pending
      /\ v.dropped = u.dropped /\ v.phase = u.phase /\ ~v.fault
      /\ v.dom = u.dom /\ v.docs = u.docs
  <2>1. /\ ~t.fault /\ t.st[h] \notin {"none", "construct"}
        /\ t.top = <<>> \/ Head(t.top) \notin t.modal
    BY <1>3, <1>4, <1>7 DEF Alone
  <2>2. /\ v \in UiStates
        /\ v.st = [t.st EXCEPT ![h] = "active"] /\ v.kind = t.kind /\ v.modal = t.modal
        /\ v.changed = t.changed /\ v.top = <<h>> \o t.top
        /\ v.calls = <<[dlg |-> h, by |-> "pending"]>> \o t.calls
        /\ v.list = t.list /\ v.cur = t.cur /\ v.pending = t.pending
        /\ v.dropped = t.dropped /\ v.phase = t.phase /\ ~v.fault
        /\ v.dom = t.dom /\ v.docs = t.docs
    BY <1>2, <1>3, <1>6, <1>8, <2>1, RunAgain
  <2> QED BY <1>3, <1>7, <2>2
<1>10. v.calls = <<[dlg |-> h, by |-> "pending"], Main>> /\ v.top = <<h, Panels>>
  BY <1>9, Pair DEF Alone
<1>11. Listed(v) = Listed(u) /\ h \in Listed(u) /\ h = u.cur
  BY <1>9 DEF Listed, h
<1>12. v.st[h] = "active" /\ \A d \in Dialogs \ {h} : v.st[d] = u.st[d]
  BY <1>1, <1>2, <1>9
<1>13. \A d \in Dialogs : v.st[d] # "none" <=> d \in Listed(v)
  BY <1>11, <1>12 DEF Alone
<1>14. \A d \in Listed(v) \ {Panels, h} : v.st[d] = "suspended" /\ v.kind[d] \in Texts
  BY <1>1, <1>9, <1>11, <1>12 DEF Alone
<1>15. \A d \in v.changed : v.st[d] \in {"active", "suspended"} /\ v.kind[d] \in Texts
  <2>1. u.changed \in SUBSET Dialogs
    BY <1>1, Fields
  <2> QED BY <2>1, <1>9, <1>12 DEF Alone
<1>16. \A d \in Dialogs : (v.kind[d] = "panels" <=> d = Panels) /\ (v.kind[d] = "dom" <=> d = v.dom)
  BY <1>2, <1>9 DEF Alone
<1>17. v.st[Panels] \in {"active", "suspended"}
  BY <1>2, <1>12
<1>18. ~v.fault /\ Dropped(v) /\ v.phase = "run" /\ v.modal = {} /\ Distinct(v.list)
  BY <1>9 DEF Alone, Dropped
<1>19. v.dom = 0 /\ v.kind[h] \in Texts /\ "file" \notin v.docs
  BY <1>4, <1>9 DEF Alone, h
<1>20. Panels \in Listed(v) /\ v.cur = h /\ ~v.pending /\ v \in UiStates
  BY <1>9, <1>11 DEF Alone
<1>21. OnScreen(v, h, "pending")
  BY <1>2, <1>10, <1>11, <1>12, <1>13, <1>14, <1>15, <1>16, <1>17, <1>18, <1>19, <1>20
     DEF OnScreen
<1> QED BY <1>21 DEF h

\* The least number that is free.
LEMMA NewIs ==
    ASSUME ScreensConstants, Right(ui), ui.phase = "run", Unused # {}
    PROVE  /\ New \in Dialogs /\ ui.st[New] = "none"
           /\ New \notin Listed(ui) /\ New \notin Loops(ui) /\ New # Panels /\ New # 0
<1>1. Unused \in SUBSET Nat /\ Unused \subseteq Dialogs
  BY DEF Unused, Dialogs
<1>2. Min(Unused) \in Unused /\ \A n \in Unused : Min(Unused) <= n
  BY <1>1, Least
<1>3. New \in Unused
  BY <1>2 DEF New
<1>4. New \in Dialogs /\ ui.st[New] = "none"
  BY <1>3 DEF Unused
<1>5. New \notin Listed(ui) \cup Loops(ui) /\ Panels \in Loops(ui)
  BY <1>4, LoopFacts
<1> QED BY <1>4, <1>5, PanelsAreFirst

\* It is allocated, for a dialog of kind k.
Allotted(u, c, k) ==
    /\ c.st = [u.st EXCEPT ![New] = "construct"] /\ c.kind = [u.kind EXCEPT ![New] = k]
    /\ c.changed = u.changed /\ c.top = u.top /\ c.calls = u.calls /\ c.list = u.list
    /\ c.cur = u.cur /\ c.pending = u.pending /\ c.dropped = u.dropped /\ c.asked = u.asked
    /\ c.phase = u.phase /\ c.fault = u.fault

\* What dlg_create returns.
LEMMA CreatedIs ==
    ASSUME NEW u \in UiStates, New \in Dialogs, NEW kind \in Kinds, NEW c, c = Created(u, kind)
    PROVE  /\ c \in UiStates /\ Allotted(u, c, kind)
           /\ c.modal = u.modal /\ c.dom = u.dom /\ c.docs = u.docs /\ c.shown = u.shown
<1> DEFINE st == [u.st EXCEPT ![New] = "construct"]
           kinds == [u.kind EXCEPT ![New] = kind]
<1>1. st \in [Dialogs -> Going] /\ kinds \in [Dialogs -> Kinds \cup {"", "panels"}]
  BY Fields DEF Going
<1>2. c = [u EXCEPT !.st = st, !.kind = kinds]
  BY DEF Created
<1> HIDE DEF st, kinds
<1>3. c.st = st /\ c.kind = kinds
  BY <1>2 DEF UiStates
<1>4. c \in UiStates
  <2>1. [u EXCEPT !.st = st] \in UiStates
    BY <1>1 DEF UiStates
  <2>2. ASSUME NEW w \in UiStates PROVE [w EXCEPT !.kind = kinds] \in UiStates
    BY <1>1 DEF UiStates
  <2>3. c = [[u EXCEPT !.st = st] EXCEPT !.kind = kinds]
    BY <1>2
  <2> QED BY <2>1, <2>2, <2>3
<1> QED BY <1>2, <1>3, <1>4 DEF UiStates, st, kinds, Allotted

\* A screen is opened from the panels.
LEMMA OpenedFromPanels ==
    ASSUME ScreensConstants, Right(ui), ui.phase = "run", Unused # {},
           Runs(Loop.dlg), Loop.dlg = Panels,
           NEW c \in UiStates, NEW k \in Kinds, NEW by, NEW v, v = Run(c, New, by),
           Allotted(ui, c, k), c.modal = ui.modal,
           \/ k \in Texts /\ by = "panels" /\ c.dom = ui.dom /\ c.docs = ui.docs
           \/ k = "dom" /\ by \in {"html", "show"} /\ c.dom = New /\ c.shown \in c.docs
    PROVE  Right(v)
<1> DEFINE h == New
<1>1. /\ h \in Dialogs /\ ui.st[h] = "none"
      /\ h \notin Listed(ui) /\ h \notin Loops(ui) /\ h # Panels /\ h # 0
  BY NewIs
<1>2. Loop = ui.calls[1] /\ ui \in UiStates /\ ~ui.fault
  BY LoopFacts DEF Loop
<1>3. Alone(ui) /\ ~ui.pending /\ ui.st[Panels] = "active"
  BY <1>2, RightIsAlone DEF Runs
<1> HIDE DEF h
<1>4. [dlg |-> h, by |-> by] \in Entries
  BY <1>1 DEF Entries
<1>5. v = Run(c, h, by)
  BY DEF h
<1>6. c.st[h] = "construct" /\ \A d \in Dialogs \ {h} : c.st[d] = ui.st[d]
  <2>1. ui.st \in [Dialogs -> Going]
    BY <1>2, Fields
  <2> QED BY <2>1, <1>1 DEF h, Allotted
<1>7. Listed(c) = Listed(ui) /\ \A d \in Listed(c) : c.st[d] # "none"
  <2>1. Listed(c) = Listed(ui) /\ Listed(ui) \in SUBSET Dialogs
    BY <1>2, ListedIn DEF Listed, Allotted
  <2> QED BY <2>1, <1>1, <1>3, <1>6 DEF Alone
<1>8. h \notin c.modal /\ Head(c.top) \notin c.modal /\ ~c.fault
  BY <1>2, <1>3 DEF Alone, Allotted
<1>10. /\ v \in UiStates
       /\ \A d \in Dialogs : v.st[d] = IF d = h THEN "active"
                                      ELSE IF d \in Listed(c) THEN "suspended" ELSE c.st[d]
       /\ v.kind = c.kind /\ v.modal = c.modal /\ v.changed = c.changed
       /\ v.top = <<h>> \o c.top /\ v.calls = <<[dlg |-> h, by |-> by]>> \o c.calls
       /\ v.list = <<h>> \o c.list /\ v.cur = h /\ v.pending = c.pending
       /\ v.dropped = c.dropped /\ v.phase = c.phase /\ ~v.fault
       /\ v.dom = c.dom /\ v.docs = c.docs /\ v.shown = c.shown
  <2>1. h \notin Listed(c) /\ h \in Dialogs /\ c.st[h] = "construct"
    BY <1>1, <1>6, <1>7
  <2>2. c.top = <<>> \/ Head(c.top) \notin c.modal
    BY <1>8
  <2>3. \A d \in Listed(c) : c.st[d] # "none"
    BY <1>7
  <2>4. v \in UiStates /\ Entered(c, v, h, by)
    BY <1>4, <1>5, <1>8, <2>1, <2>2, <2>3, RunScreen
  <2> QED BY <2>4 DEF Entered
<1>11. \A d \in Dialogs : v.st[d] = IF d = h THEN "active"
                                    ELSE IF d \in Listed(ui) THEN "suspended" ELSE ui.st[d]
  BY <1>6, <1>7, <1>10
<1>12. Opened(ui, v, h, k, by)
  BY <1>3, <1>10, <1>11 DEF Opened, Alone, Allotted, h
<1>13. OnScreen(v, h, by)
  BY <1>1, <1>3, <1>10, <1>12, NewScreen
<1> QED BY <1>13, ScreenIsRight

\* Something modal is opened.
LEMMA OpenedModal ==
    ASSUME ScreensConstants, Right(ui), ui.phase = "run", Unused # {}, Runs(Loop.dlg),
           NEW c \in UiStates, NEW k \in Kinds, NEW by, NEW X, NEW v, v = Run(c, New, by),
           Modal(ui.kind[Loop.dlg], Loop.dlg, Len(ui.calls), New, k, by, X),
           Allotted(ui, c, k), c.modal \cup {New} = ui.modal \cup X,
           New \in c.modal \/ Loop.dlg \in c.modal, Documents(ui, c, New, k)
    PROVE  Right(v)
<1> DEFINE h == New
<1>1. /\ h \in Dialogs /\ ui.st[h] = "none" /\ 0 \notin Dialogs
  BY NewIs, PanelsAreFirst
<1>2. Loop = ui.calls[1] /\ ui \in UiStates /\ ~ui.fault /\ ui.top # <<>> /\ Head(ui.top) = Loop.dlg
  BY LoopFacts DEF Loop
<1>3. ui.st[Loop.dlg] = "active"
  BY DEF Runs
<1>4. [dlg |-> h, by |-> by] \in Entries
  BY <1>1 DEF Entries, Modal
<1>5. c.st[h] = "construct"
  <2>1. ui.st \in [Dialogs -> Going]
    BY <1>2, Fields
  <2> QED BY <2>1, <1>1 DEF Allotted
<1>6. /\ v \in UiStates
      /\ v.st = [c.st EXCEPT ![h] = "active"] /\ v.kind = c.kind
      /\ v.modal = c.modal \cup {h} /\ v.changed = c.changed
      /\ v.top = <<h>> \o c.top /\ v.calls = <<[dlg |-> h, by |-> by]>> \o c.calls
      /\ v.list = c.list /\ v.cur = c.cur /\ v.pending = c.pending
      /\ v.dropped = c.dropped /\ v.asked = c.asked /\ v.phase = c.phase /\ ~v.fault
      /\ v.dom = c.dom /\ v.docs = c.docs /\ v.shown = c.shown
  <2>1. v = Run(c, h, by) /\ ~c.fault
    BY <1>2 DEF h, Allotted
  <2>2. h \in c.modal \/ (c.top # <<>> /\ Head(c.top) \in c.modal)
    BY <1>2 DEF h, Allotted
  <2> HIDE DEF h
  <2>3. v \in UiStates /\ EnteredModal(c, v, h, by)
    BY <1>1, <1>4, <1>5, <2>1, <2>2, RunModal
  <2> QED BY <2>3 DEF EnteredModal
<1>7. Pushed(ui, v, h, k, by, X)
  <2>1. [[ui.st EXCEPT ![h] = "construct"] EXCEPT ![h] = "active"] = [ui.st EXCEPT ![h] = "active"]
    OBVIOUS
  <2> QED BY <1>6, <2>1 DEF Pushed, Allotted
<1>8. Documents(ui, v, h, k)
  BY <1>6 DEF Documents
<1> HIDE DEF h
<1>9. Modal(ui.kind[ui.calls[1].dlg], ui.calls[1].dlg, Len(ui.calls), h, k, by, X)
  BY <1>2 DEF h
<1> QED BY <1>1, <1>2, <1>3, <1>6, <1>7, <1>8, <1>9, PushedModal

-----------------------------------------------------------------------------
(* What happens in the innermost loop. *)

\* Who has the innermost loop.
LEMMA TopKind ==
    ASSUME ScreensConstants, NEW u, Right(u), u.phase = "run"
    PROVE  /\ u.calls[1].dlg # Panels => Lies(u, 1) /\ Len(u.calls) > 1
           /\ u.kind[u.calls[1].dlg] = "panels" <=> u.calls[1].dlg = Panels
           /\ u.kind[u.calls[1].dlg] = "box" => u.calls[1].dlg \in u.modal
           /\ u.kind[u.calls[1].dlg] \in Texts \cup {"dom", "box", "panels"}
<1> DEFINE n == Len(u.calls)
           f == u.calls[1].dlg
<1>1. Nested(u) /\ Placed(u)
  BY DEF Right
<1>2. n \in Nat /\ n >= 1
  BY LoopFacts
<1>3. f \in Dialogs /\ (u.kind[f] = "panels" <=> f = Panels)
  <2>1. f \in Dialogs
    BY <1>2, LoopFacts
  <2> QED BY <1>1, <2>1 DEF Placed
<1>4. ASSUME f # Panels PROVE Lies(u, 1) /\ n > 1
  <2>1. u.calls[n].dlg = Panels
    BY <1>1 DEF Nested, Top
  <2>2. n # 1
    BY <1>4, <2>1
  <2>3. 1 \in 1..(n - 1) /\ n > 1
    <3> HIDE DEF n
    <3> QED BY <1>2, <2>2
  <2> QED BY <1>1, <2>3 DEF Nested, Top
<1>5. ASSUME f # Panels
      PROVE  u.kind[f] \in Texts \cup {"dom", "box"} /\ (u.kind[f] = "box" => f \in u.modal)
  <2>1. Lies(u, 1)
    BY <1>4, <1>5
  <2> QED BY <2>1 DEF Lies, Boxed, OnPanels, OnBox, OnDiff, Texts
<1> QED BY <1>3, <1>4, <1>5

\* Unless a box is over it, the DOM viewer has the innermost loop.
LEMMA DomOnTop ==
    ASSUME ScreensConstants, NEW u, Right(u), u.phase = "run",
           u.dom # 0, u.kind[u.calls[1].dlg] # "box"
    PROVE  u.dom = u.calls[1].dlg
<1> DEFINE n == Len(u.calls)
<1>1. Nested(u) /\ Placed(u)
  BY DEF Right
<1>2. n \in Nat /\ n >= 1 /\ DOMAIN u.calls = 1..n
  BY LoopFacts
<1>3. \A i \in 1..n : u.calls[i].dlg \in Dialogs
  BY LoopFacts
<1>4. PICK j \in 1..n : u.calls[j].dlg = u.dom
  BY <1>1, <1>2 DEF Placed, Loops
<1>5. /\ u.kind[u.dom] = "dom" /\ Top(u) = n
      /\ u.kind[Panels] = "panels" /\ u.calls[n].dlg = Panels
      /\ \A i \in 1..(n - 1) : Lies(u, i)
  <2>1. u.calls[n].dlg = Panels /\ \A i \in 1..(n - 1) : Lies(u, i)
    BY <1>1 DEF Nested, Top
  <2>2. u.calls[n].dlg \in Dialogs
    BY <1>2, <1>3
  <2> QED BY <2>1, <2>2, <1>1, <1>3, <1>4 DEF Placed, Top
<1> HIDE DEF n
<1>6. j # n
  BY <1>4, <1>5
<1>7. CASE j = 1
  BY <1>4, <1>7
<1>8. CASE j = 2
  <2>1. 1 \in 1..(n - 1) /\ 1 + 1 = j
    BY <1>2, <1>4, <1>6, <1>8
  <2>2. Lies(u, 1)
    BY <1>5, <2>1
  <2> QED BY <2>1, <2>2, <1>4, <1>5 DEF Lies, Boxed, OnPanels, OnBox, OnDiff
<1>9. CASE j > 2
  <2>1. /\ j - 1 \in 1..(n - 1) /\ (j - 1) + 1 = j
        /\ j - 2 \in 1..(n - 1) /\ (j - 2) + 1 = j - 1 /\ (j - 2) + 2 = j
    BY <1>2, <1>4, <1>6, <1>9
  <2>2. Lies(u, j - 1) /\ Lies(u, j - 2)
    BY <1>5, <2>1
  <2>5. u.kind[u.calls[(j - 1) + 1].dlg] = "dom" /\ u.calls[(j - 1) + 1].dlg # Panels
    BY <2>1, <1>4, <1>5
  <2>3. u.kind[u.calls[j - 1].dlg] = "box"
    BY <2>2, <2>5 DEF Lies, Boxed, OnPanels, OnBox, OnDiff
  <2>4. (j - 2) + 2 = Top(u)
    BY <2>1, <2>2, <2>3, <1>5 DEF Lies, Boxed, OnPanels, OnBox, OnDiff
  <2> QED BY <2>1, <2>4, <1>5, <1>6
<1> QED BY <1>4, <1>7, <1>8, <1>9

\* What it changes by itself.
Inside(u, v, s) ==
    /\ v.st = [u.st EXCEPT ![u.calls[1].dlg] = s] /\ v.kind = u.kind /\ v.modal = u.modal
    /\ v.top = u.top /\ v.list = u.list /\ v.cur = u.cur /\ v.pending = u.pending
    /\ v.calls = u.calls /\ v.dom = u.dom /\ v.phase = u.phase /\ ~v.fault
    /\ u.asked => v.asked
    /\ s = "active" \/ (s = "closed" /\ (u.calls[1].dlg = Panels => v.asked))
    /\ v.changed \subseteq u.changed \cup {u.calls[1].dlg}
    /\ u.calls[1].dlg \in v.changed => s = "active" /\ u.kind[u.calls[1].dlg] \in Texts
    /\ "file" \in v.docs => v.dom # 0 /\ v.st[v.dom] = "active"
    /\ v.dom # 0 /\ v.st[v.dom] = "active" => v.shown \in v.docs

\* Then everything is still right.
LEMMA InsideIsRight ==
    ASSUME ScreensConstants, NEW u, Right(u), u.phase = "run", u.st[u.calls[1].dlg] = "active",
           NEW v, v \in UiStates, NEW s, Inside(u, v, s), Dropped(v)
    PROVE  Right(v)
<1> DEFINE f == u.calls[1].dlg
<1>1. /\ u \in UiStates /\ Nested(u) /\ Placed(u) /\ Still(u) /\ Current(u) /\ Watched(u)
  BY DEF Right
<1>2. f \in Dialogs /\ f \in Loops(u)
  <2>1. Len(u.calls) \in Nat /\ Len(u.calls) >= 1
    BY LoopFacts
  <2> QED BY <2>1, LoopFacts
<1>3. /\ Loops(v) = Loops(u) /\ Listed(v) = Listed(u) /\ Top(v) = Top(u) /\ Shown(v) = Shown(u)
      /\ v.calls = u.calls
  BY DEF Inside, Loops, Listed, Top, Shown
<1>4. u.st \in [Dialogs -> Going] /\ Listed(u) \in SUBSET Dialogs /\ Loops(u) \in SUBSET Dialogs
  BY LoopFacts, Fields
<1>5. v.st[f] = s /\ s \in {"active", "closed"} /\ \A d \in Dialogs \ {f} : v.st[d] = u.st[d]
  BY <1>2, <1>4 DEF Inside
<1>6. u.st[f] = "active"
  OBVIOUS
<1> HIDE DEF f
<1>7. Nested(v)
  BY <1>1, <1>3 DEF Nested, Inside, Lies, Boxed, OnPanels, OnBox, OnDiff
<1>8. Placed(v)
  <2>1. \A d \in Dialogs : (v.st[d] # "none" <=> u.st[d] # "none") /\ v.st[d] # "construct"
    BY <1>1, <1>2, <1>5, <1>6 DEF Placed
  <2> QED BY <2>1, <1>1, <1>3 DEF Placed, Inside
<1>9. Still(v)
  <2>1. \A d \in Loops(v) \ {v.calls[1].dlg, Panels} : v.st[d] = "active"
    BY <1>1, <1>3, <1>4, <1>5 DEF Still, f
  <2>2. \A d \in Listed(v) \ Loops(v) : v.st[d] = "suspended" /\ v.kind[d] \in Texts
    BY <1>1, <1>2, <1>3, <1>4, <1>5 DEF Still, Inside
  <2>3. CASE f = Panels
    <3>1. Top(u) = 1
      BY <2>3, RightIsAlone, OneLoop DEF Alone, Top, f
    <3> QED BY <2>1, <2>2, <2>3, <3>1, <1>3, <1>5 DEF Still, Inside, f
  <2>4. CASE f # Panels
    <3>1. v.st[Panels] = u.st[Panels]
      BY <2>4, <1>4, <1>5, PanelsAreFirst
    <3> QED BY <2>1, <2>2, <3>1, <1>1, <1>3 DEF Still, Inside
  <2> QED BY <2>3, <2>4
<1>10. Current(v)
  <2>1. ~Left(u) /\ ~Left(v)
    BY <1>3, <1>5, <1>6 DEF Left, f
  <2> QED BY <2>1, <1>1, <1>3 DEF Current, Inside
<1>11. Watched(v)
  <2>1. ASSUME NEW d \in v.changed PROVE v.st[d] \in {"active", "suspended"} /\ v.kind[d] \in Texts
    <3>1. CASE d = f
      BY <3>1, <2>1, <1>5 DEF Inside, f
    <3>2. CASE d # f
      <4>1. d \in u.changed /\ d \in Dialogs
        BY <3>2, <2>1, <1>1, Fields DEF Inside, f
      <4> QED BY <4>1, <3>2, <1>1, <1>5 DEF Watched, Inside
    <3> QED BY <3>1, <3>2
  <2> QED BY <2>1 DEF Watched, Inside
<1> QED BY <1>7, <1>8, <1>9, <1>10, <1>11 DEF Right, Inside

\* view_file_at_line, edit_file_at_line and diff_view_cmd.
LEMMA OpenScreenIsRight ==
    ASSUME ScreensConstants, ScreenLapses = {}, Right(ui), ui.phase = "run",
           NEW kind \in Kinds, NEW by \in {"panels", "force"}, OpenScreen(kind, by)
    PROVE  Right(ui')
<1> DEFINE c == Created(ui, kind)
<1>1. /\ kind \in Texts /\ by = "panels" /\ MayOpen(kind) /\ Unused # {}
      /\ ui' = Run(c, New, by)
  BY DEF OpenScreen, Ways, Texts, ScreensConstants
<1>2. Loop = ui.calls[1] /\ ui \in UiStates
  BY LoopFacts DEF Loop
<1>3. New \in Dialogs
  BY <1>1, NewIs
<1>4. /\ c \in UiStates /\ Allotted(ui, c, kind)
      /\ c.modal = ui.modal /\ c.dom = ui.dom /\ c.docs = ui.docs /\ c.shown = ui.shown
  BY <1>2, <1>3, CreatedIs
<1> HIDE DEF c
<1>5. Runs(Loop.dlg)
  BY <1>1 DEF MayOpen
<1>6. CASE ui.kind[Loop.dlg] = "panels"
  <2>1. Loop.dlg = Panels
    BY <1>2, <1>6, TopKind
  <2> QED BY <2>1, <1>1, <1>4, <1>5, OpenedFromPanels
<1>7. CASE ui.kind[Loop.dlg] = "box" /\ Len(ui.calls) = 2 /\ kind # "diff"
  <2>1. Loop.dlg \in ui.modal
    BY <1>2, <1>7, TopKind
  <2>2. Modal(ui.kind[Loop.dlg], Loop.dlg, Len(ui.calls), New, kind, by, {New})
    BY <1>1, <1>7 DEF Modal, Texts
  <2>3. Documents(ui, c, New, kind)
    BY <1>1, <1>4 DEF Documents, Texts
  <2> QED BY <2>1, <2>2, <2>3, <1>1, <1>4, <1>5, OpenedModal
<1> QED BY <1>1, <1>6, <1>7 DEF MayOpen

\* dview_edit.
LEMMA EditFromDiffIsRight ==
    ASSUME ScreensConstants, Right(ui), ui.phase = "run", EditFromDiff
    PROVE  Right(ui')
<1> DEFINE f == Loop.dlg
           b == Created(ui, "edit")
           c == [b EXCEPT !.modal = @ \cup {f}]
<1>1. /\ Runs(f) /\ ui.kind[f] = "diff" /\ "edit" \in Kinds /\ Unused # {}
      /\ ui' = Run(c, New, "diff")
  BY DEF EditFromDiff
<1>2. Loop = ui.calls[1] /\ ui \in UiStates
  BY LoopFacts DEF Loop
<1>3. New \in Dialogs /\ f \in Dialogs
  <2>1. Len(ui.calls) \in Nat /\ Len(ui.calls) >= 1
    BY LoopFacts
  <2> QED BY <2>1, <1>1, <1>2, NewIs, LoopFacts
<1>4. /\ b \in UiStates /\ Allotted(ui, b, "edit")
      /\ b.modal = ui.modal /\ b.dom = ui.dom /\ b.docs = ui.docs /\ b.shown = ui.shown
  BY <1>1, <1>2, <1>3, CreatedIs
<1> HIDE DEF b
<1>5. /\ c \in UiStates /\ Allotted(ui, c, "edit")
      /\ c.modal = ui.modal \cup {f} /\ c.dom = ui.dom /\ c.docs = ui.docs
      /\ c.shown = ui.shown
  BY <1>3, <1>4 DEF UiStates, Allotted
<1> HIDE DEF c, f
<1>6. Modal(ui.kind[Loop.dlg], Loop.dlg, Len(ui.calls), New, "edit", "diff", {New, f})
  BY <1>1 DEF Modal, f
<1>7. Documents(ui, c, New, "edit")
  BY <1>4, <1>5 DEF Documents
<1>8. c.modal \cup {New} = ui.modal \cup {New, f} /\ Loop.dlg \in c.modal
  BY <1>5 DEF f
<1> QED BY <1>1, <1>5, <1>6, <1>7, <1>8, OpenedModal DEF f

\* A modal dialog is opened.
LEMMA OpenBoxIsRight ==
    ASSUME ScreensConstants, Right(ui), ui.phase = "run", OpenBox
    PROVE  Right(ui')
<1> DEFINE b == Created(ui, "box")
           c == [b EXCEPT !.modal = @ \cup {New}]
<1>1. /\ Runs(Loop.dlg) /\ ui.kind[Loop.dlg] # "box" /\ "box" \in Kinds /\ Unused # {}
      /\ ui' = Run(c, New, "box")
  BY DEF OpenBox
<1>2. ui \in UiStates
  BY LoopFacts
<1>3. New \in Dialogs
  BY <1>1, NewIs
<1>4. /\ b \in UiStates /\ Allotted(ui, b, "box")
      /\ b.modal = ui.modal /\ b.dom = ui.dom /\ b.docs = ui.docs /\ b.shown = ui.shown
  BY <1>1, <1>2, <1>3, CreatedIs
<1> HIDE DEF b
<1>5. /\ c \in UiStates /\ Allotted(ui, c, "box")
      /\ c.modal = ui.modal \cup {New} /\ c.dom = ui.dom /\ c.docs = ui.docs
      /\ c.shown = ui.shown
  BY <1>3, <1>4 DEF UiStates, Allotted
<1> HIDE DEF c
<1>6. Modal(ui.kind[Loop.dlg], Loop.dlg, Len(ui.calls), New, "box", "box", {New})
  BY <1>1 DEF Modal
<1>7. Documents(ui, c, New, "box")
  BY <1>4, <1>5 DEF Documents
<1>8. c.modal \cup {New} = ui.modal \cup {New} /\ New \in c.modal
  BY <1>5
<1> QED BY <1>1, <1>5, <1>6, <1>7, <1>8, OpenedModal

\* The DOM viewer's dialog is allocated.
LEMMA DomCreated ==
    ASSUME ScreensConstants, NEW u \in UiStates, New \in Dialogs, "dom" \in Kinds
    PROVE  \A c : c = [Created(u, "dom") EXCEPT !.dom = New] =>
               /\ c \in UiStates /\ Allotted(u, c, "dom") /\ c.modal = u.modal
               /\ c.dom = New /\ c.docs = u.docs /\ c.shown = u.shown
<1>1. New \in 0..MaxDialogs
  BY PanelsAreFirst
<1>2. \A b : b = Created(u, "dom") =>
          /\ b \in UiStates /\ Allotted(u, b, "dom")
          /\ b.modal = u.modal /\ b.dom = u.dom /\ b.docs = u.docs /\ b.shown = u.shown
  BY CreatedIs
<1>3. ASSUME NEW b \in UiStates, Allotted(u, b, "dom"), NEW c, c = [b EXCEPT !.dom = New]
      PROVE  /\ c \in UiStates /\ Allotted(u, c, "dom")
             /\ c.dom = New /\ c.modal = b.modal /\ c.docs = b.docs /\ c.shown = b.shown
  <2>1. c \in UiStates
    BY <1>1, <1>3 DEF UiStates
  <2>2. c.dom = New /\ c.modal = b.modal /\ c.docs = b.docs /\ c.shown = b.shown
    BY <1>3 DEF UiStates
  <2>3. Allotted(u, c, "dom")
    BY <1>3 DEF UiStates, Allotted
  <2> QED BY <2>1, <2>2, <2>3
<1> QED BY <1>2, <1>3

\* The documents are others, or another is shown.
Documented(u, v, docs, shown) ==
    /\ v.st = u.st /\ v.kind = u.kind /\ v.modal = u.modal /\ v.changed = u.changed
    /\ v.top = u.top /\ v.cur = u.cur /\ v.calls = u.calls /\ v.list = u.list
    /\ v.pending = u.pending /\ v.dropped = u.dropped /\ v.phase = u.phase
    /\ v.fault = u.fault /\ v.asked = u.asked /\ v.dom = u.dom
    /\ v.docs = docs /\ v.shown = shown

\* The documents of the map are others.
LEMMA DocumentedIs ==
    ASSUME NEW u \in UiStates, NEW docs \in SUBSET {"file", "window"},
           NEW shown \in {"", "file", "window"}
    PROVE  \A v : v = [u EXCEPT !.docs = docs, !.shown = shown] =>
               v \in UiStates /\ Documented(u, v, docs, shown)
<1> SUFFICES ASSUME NEW v, v = [u EXCEPT !.docs = docs, !.shown = shown]
             PROVE  v \in UiStates /\ Documented(u, v, docs, shown)
  OBVIOUS
<1>1. v \in UiStates
  BY DEF UiStates
<1>2. Documented(u, v, docs, shown)
  BY DEF UiStates, Documented
<1> QED BY <1>1, <1>2

\* The present viewer is told, or nothing.
LEMMA ToldIsRight ==
    ASSUME ScreensConstants, Right(ui), ui.phase = "run", Runs(Loop.dlg),
           NEW docs \in SUBSET {"file", "window"}, NEW shown \in {"", "file", "window"},
           NEW v, v = [ui EXCEPT !.docs = docs, !.shown = shown],
           "file" \in docs => ui.dom # 0 /\ ui.st[ui.dom] = "active",
           ui.dom # 0 /\ ui.st[ui.dom] = "active" => shown \in docs
    PROVE  Right(v)
<1>1. ui \in UiStates /\ ~ui.fault /\ Dropped(ui) /\ Watched(ui) /\ Loop = ui.calls[1]
  BY LoopFacts DEF Loop
<1>2. v \in UiStates /\ Documented(ui, v, docs, shown)
  BY <1>1, DocumentedIs
<1>3. ui.st[ui.calls[1].dlg] = "active"
  BY <1>1 DEF Runs
<1>4. [ui.st EXCEPT ![ui.calls[1].dlg] = "active"] = ui.st
  <2>1. ui.st \in [Dialogs -> Going]
    BY <1>1, Fields
  <2> QED BY <2>1, <1>3
<1>5. ui.calls[1].dlg \in ui.changed => ui.kind[ui.calls[1].dlg] \in Texts
  BY <1>1 DEF Watched
<1>6. Inside(ui, v, "active")
  BY <1>1, <1>2, <1>4, <1>5 DEF Inside, Documented
<1>7. Dropped(v)
  BY <1>1, <1>2 DEF Dropped, Documented
<1> QED BY <1>2, <1>3, <1>6, <1>7, InsideIsRight

\* The dialog of the DOM viewer is there.
LEMMA DomIsThere ==
    ASSUME ScreensConstants, Right(ui), ui.phase = "run"
    PROVE  ui.dom # 0 => ui.dom \in Dialogs /\ ui.st[ui.dom] # "none"
<1>1. /\ Placed(ui) /\ Loops(ui) \in SUBSET Dialogs
      /\ \A d \in Listed(ui) \cup Loops(ui) : ui.st[d] # "none"
  BY LoopFacts
<1> QED BY <1>1 DEF Placed

\* domview_load_html.
LEMMA OpenHtmlIsRight ==
    ASSUME ScreensConstants, Right(ui), ui.phase = "run", OpenHtml
    PROVE  Right(ui')
<1> DEFINE docs == ui.docs \cup {"file"}
           shown == IF "file" \in ui.docs THEN ui.shown ELSE "file"
           u == [ui EXCEPT !.docs = docs, !.shown = shown]
           c == [Created(u, "dom") EXCEPT !.dom = New]
<1>1. /\ "dom" \in Kinds /\ MayOpen("dom") /\ (ui.dom = 0 => Unused # {})
      /\ ui' = ShowDom(u, "html") /\ Runs(Loop.dlg)
  BY DEF OpenHtml, MayOpen
<1>2. Loop = ui.calls[1] /\ ui \in UiStates /\ Watched(ui) /\ ~ui.fault
  BY LoopFacts DEF Loop
<1>3. docs \in SUBSET {"file", "window"} /\ shown \in {"", "file", "window"}
  BY <1>2, Fields
<1>4. /\ u.dom = ui.dom /\ u.st = ui.st /\ u.fault = ui.fault
  BY <1>2 DEF UiStates
<1>5. CASE ui.dom # 0
  <2>1. ~Followed(u, u.dom)
    BY <1>4, <1>5, DomIsThere DEF Followed
  <2>2. ui' = [u EXCEPT !.fault = FALSE]
    <3> HIDE DEF u
    <3> QED BY <1>1, <1>2, <1>4, <1>5, <2>1 DEF ShowDom
  <2>3. ui' = u
    <3>1. ui.fault = FALSE
      BY <1>2, Fields
    <3> QED BY <2>2, <3>1, <1>2 DEF UiStates
  <2>4. ui.dom # 0 /\ ui.st[ui.dom] = "active" => shown \in docs
    BY <1>2 DEF Watched
  <2>5. ui.st[ui.dom] = "active"
    <3>1. ui.kind[Loop.dlg] \in {"panels", "box"}
      BY <1>1 DEF MayOpen
    <3>2. ui.dom \in Loops(ui) /\ ui.kind[ui.dom] = "dom" /\ Still(ui)
      BY <1>5, LoopFacts, DomIsThere DEF Placed
    <3>3. ui.dom # Loop.dlg /\ ui.dom # Panels
      BY <3>1, <3>2, <1>5, DomIsThere, LoopFacts DEF Placed
    <3> QED BY <3>2, <3>3, <1>2 DEF Still
  <2> HIDE DEF docs, shown
  <2> QED BY <1>1, <1>3, <1>5, <2>3, <2>4, <2>5, ToldIsRight
<1>6. CASE ui.dom = 0
  <2>1. Unused # {} /\ New \in Dialogs
    BY <1>1, <1>6, NewIs
  <2>2. ui' = Run(c, New, "html")
    BY <1>1, <1>4, <1>6 DEF ShowDom
  <2>3. shown \in docs
    BY <1>2, <1>6 DEF Watched
  <2> HIDE DEF docs, shown
  <2>4. /\ c \in UiStates /\ Allotted(ui, c, "dom") /\ c.modal = ui.modal
        /\ c.dom = New /\ c.docs = docs /\ c.shown = shown
    <3>1. u \in UiStates /\ Documented(ui, u, docs, shown)
      BY <1>2, <1>3, DocumentedIs
    <3>2. c = [Created(u, "dom") EXCEPT !.dom = New]
      OBVIOUS
    <3> HIDE DEF u, c
    <3>3. /\ c \in UiStates /\ Allotted(u, c, "dom") /\ c.modal = u.modal
          /\ c.dom = New /\ c.docs = u.docs /\ c.shown = u.shown
      BY <1>1, <2>1, <3>1, <3>2, DomCreated
    <3> QED BY <3>1, <3>3 DEF Allotted, Documented
  <2> HIDE DEF c
  <2>5. CASE ui.kind[Loop.dlg] = "panels"
    <3>1. Loop.dlg = Panels
      BY <1>2, <2>5, TopKind
    <3> QED BY <3>1, <1>1, <2>1, <2>2, <2>3, <2>4, OpenedFromPanels
  <2>6. CASE ui.kind[Loop.dlg] = "box" /\ Len(ui.calls) = 2
    <3>1. Loop.dlg \in ui.modal
      BY <1>2, <2>6, TopKind
    <3>2. Modal(ui.kind[Loop.dlg], Loop.dlg, Len(ui.calls), New, "dom", "html", {New})
      BY <2>6 DEF Modal
    <3>3. Documents(ui, c, New, "dom")
      BY <1>6, <2>3, <2>4 DEF Documents
    <3> QED BY <3>1, <3>2, <3>3, <1>1, <2>1, <2>2, <2>4, OpenedModal
  <2> QED BY <2>5, <2>6, <1>1 DEF MayOpen
<1> QED BY <1>5, <1>6

\* domview_show.
LEMMA DomviewShowIsRight ==
    ASSUME ScreensConstants, Right(ui), ui.phase = "run", DomviewShow
    PROVE  Right(ui')
<1> DEFINE shown == First(ui.docs)
           u == [ui EXCEPT !.shown = shown]
           c == [Created(u, "dom") EXCEPT !.dom = New]
<1>1. /\ Runs(Panels) /\ "dom" \in Kinds /\ ui.dom = 0 /\ ui.docs # {} /\ Unused # {}
      /\ ui' = ShowDom(u, "show")
  BY DEF DomviewShow
<1>2. ui \in UiStates /\ Loop.dlg = Panels
  BY <1>1, LoopFacts DEF Runs
<1>3. ui.docs \in SUBSET {"file", "window"} /\ shown \in {"", "file", "window"}
  BY <1>2, Fields DEF First
<1>4. shown \in ui.docs
  BY <1>1, <1>3 DEF First
<1>5. New \in Dialogs
  BY <1>1, NewIs
<1>6. u.dom = 0 /\ u = [ui EXCEPT !.docs = ui.docs, !.shown = shown]
  BY <1>1, <1>2 DEF UiStates
<1>7. ui' = Run(c, New, "show")
  BY <1>1, <1>6 DEF ShowDom
<1> HIDE DEF shown
<1>8. /\ c \in UiStates /\ Allotted(ui, c, "dom") /\ c.modal = ui.modal
      /\ c.dom = New /\ c.docs = ui.docs /\ c.shown = shown
  <2>1. c = [Created(u, "dom") EXCEPT !.dom = New]
    OBVIOUS
  <2> HIDE DEF u, c
  <2>2. u \in UiStates /\ Documented(ui, u, ui.docs, shown)
    BY <1>2, <1>3, <1>6, DocumentedIs
  <2>3. /\ c \in UiStates /\ Allotted(u, c, "dom") /\ c.modal = u.modal
        /\ c.dom = New /\ c.docs = u.docs /\ c.shown = u.shown
    BY <1>1, <1>5, <2>1, <2>2, DomCreated
  <2> QED BY <2>2, <2>3 DEF Allotted, Documented
<1> HIDE DEF c
<1> QED BY <1>1, <1>2, <1>4, <1>7, <1>8, OpenedFromPanels

\* domview_attach_window_dom.
LEMMA AttachIsRight ==
    ASSUME ScreensConstants, Right(ui), ui.phase = "run", Attach
    PROVE  Right(ui')
<1> DEFINE docs == ui.docs \cup {"window"}
<1>1. /\ Runs(Loop.dlg)
      /\ ui' = [ui EXCEPT !.docs = docs, !.fault = @ \/ (ui.dom # 0 /\ Followed(ui, ui.dom))]
  BY DEF Attach, IdleHook
<1>2. ui \in UiStates /\ Watched(ui) /\ ~ui.fault
  BY LoopFacts
<1>3. docs \in SUBSET {"file", "window"} /\ ui.shown \in {"", "file", "window"}
  BY <1>2, Fields
<1>4. ~(ui.dom # 0 /\ Followed(ui, ui.dom))
  BY DomIsThere DEF Followed
<1>5. ui' = [ui EXCEPT !.docs = docs, !.shown = ui.shown]
  <2>1. ui.fault = FALSE
    BY <1>2, Fields
  <2>2. ui' = [ui EXCEPT !.docs = docs, !.fault = FALSE]
    BY <1>1, <1>4, <2>1
  <2> QED BY <2>1, <2>2, <1>2 DEF UiStates
<1>6. /\ "file" \in docs => ui.dom # 0 /\ ui.st[ui.dom] = "active"
      /\ ui.dom # 0 /\ ui.st[ui.dom] = "active" => ui.shown \in docs
  BY <1>2 DEF Watched
<1> HIDE DEF docs
<1> QED BY <1>1, <1>3, <1>5, <1>6, ToldIsRight

-----------------------------------------------------------------------------
(* What is closed. *)

\* d is in state s from now on.
Marked(u, v, d, s) ==
    /\ v.st = [u.st EXCEPT ![d] = s] /\ v.kind = u.kind /\ v.modal = u.modal
    /\ v.changed = u.changed /\ v.top = u.top /\ v.cur = u.cur /\ v.calls = u.calls
    /\ v.list = u.list /\ v.pending = u.pending /\ v.dropped = u.dropped
    /\ v.phase = u.phase /\ v.fault = u.fault /\ v.asked = u.asked /\ v.dom = u.dom
    /\ v.docs = u.docs /\ v.shown = u.shown

\* widget_set_state of a dialog that is there.
LEMMA MarkedIs ==
    ASSUME NEW u \in UiStates, NEW d \in Dialogs, 0 \notin Dialogs, u.st[d] # "none",
           NEW s \in Going
    PROVE  \A v : v = SetState(u, d, s) => v \in UiStates /\ Marked(u, v, d, s)
<1> SUFFICES ASSUME NEW v, v = SetState(u, d, s)
             PROVE  v \in UiStates /\ Marked(u, v, d, s)
  OBVIOUS
<1>1. v = [u EXCEPT !.st[d] = s]
  BY DEF SetState, Followed
<1>2. [u.st EXCEPT ![d] = s] \in [Dialogs -> Going]
  BY Fields
<1>3. v \in UiStates
  BY <1>1, <1>2 DEF UiStates
<1>4. Marked(u, v, d, s)
  BY <1>1 DEF UiStates, Marked
<1> QED BY <1>3, <1>4

\* Whether it may be closed: what is changed no more was saved, or given up as it may be.
Exited(u, v, h, ok) ==
    /\ v.st = u.st /\ v.kind = u.kind /\ v.modal = u.modal
    /\ v.changed \subseteq u.changed /\ v.top = u.top /\ v.cur = u.cur /\ v.calls = u.calls
    /\ v.list = u.list /\ v.pending = u.pending
    /\ v.phase = u.phase /\ v.fault = u.fault /\ v.asked = u.asked /\ v.dom = u.dom
    /\ v.docs = u.docs /\ v.shown = u.shown
    /\ ok => h \notin v.changed
    /\ u.phase # "run" => ok

\* A text is thrown away as NoneLost allows.
LEMMA DropIs ==
    ASSUME NEW u \in UiStates, Dropped(u), NEW h \in Dialogs, u.kind[h] \in Kinds,
           NEW said \in Answers \ {"esc"},
           said = "no" \/ (u.kind[h] = "diff" /\ (u.phase # "run" \/ said = "fail"))
                       \/ (u.phase # "run" /\ said = "fail"),
           NEW ok \in BOOLEAN, ok
    PROVE  \A v : v = Drop(u, h, said) => v \in UiStates /\ Exited(u, v, h, ok) /\ Dropped(v)
<1> DEFINE x == [kind |-> u.kind[h], said |-> said, late |-> u.phase # "run"]
           some == IF said = "no" THEN u.dropped ELSE u.dropped \cup {x}
           rest == u.changed \ {h}
<1> SUFFICES ASSUME NEW v, v = Drop(u, h, said)
             PROVE  v \in UiStates /\ Exited(u, v, h, ok) /\ Dropped(v)
  OBVIOUS
<1>1. v = [u EXCEPT !.changed = rest, !.dropped = some]
  BY DEF Drop
<1>2. some \in SUBSET Drops /\ rest \in SUBSET Dialogs
  <2>1. u.dropped \in SUBSET Drops /\ u.changed \in SUBSET Dialogs
    BY Fields
  <2>2. said # "no" => x \in Drops
    BY DEF Drops, Answers
  <2> HIDE DEF x
  <2> QED BY <2>1, <2>2
<1>3. \A y \in some : \/ y.said = "fail" /\ (y.late \/ y.kind = "diff")
                      \/ y.kind = "diff" /\ y.late /\ y.said # "unasked"
  <2>1. said # "no" => \/ x.said = "fail" /\ (x.late \/ x.kind = "diff")
                       \/ x.kind = "diff" /\ x.late /\ x.said # "unasked"
    BY DEF Answers
  <2> HIDE DEF x
  <2> QED BY <2>1 DEF Dropped
<1>4. h \notin rest /\ rest \subseteq u.changed
  OBVIOUS
<1> HIDE DEF some, rest
<1>5. v \in UiStates
  BY <1>1, <1>2 DEF UiStates
<1>6. v.dropped = some /\ v.changed = rest
  BY <1>1 DEF UiStates
<1>7. Exited(u, v, h, ok)
  <2>1. /\ v.st = u.st /\ v.kind = u.kind /\ v.modal = u.modal /\ v.top = u.top
        /\ v.cur = u.cur /\ v.calls = u.calls /\ v.list = u.list /\ v.pending = u.pending
        /\ v.phase = u.phase /\ v.fault = u.fault /\ v.asked = u.asked /\ v.dom = u.dom
        /\ v.docs = u.docs /\ v.shown = u.shown
    BY <1>1 DEF UiStates
  <2> QED BY <2>1, <1>4, <1>6 DEF Exited
<1> QED BY <1>3, <1>5, <1>6, <1>7 DEF Dropped

\* edit_ok_to_exit, mcview_ok_to_quit and dview_ok_to_exit.
LEMMA OkToExitIs ==
    ASSUME NEW u \in UiStates, Dropped(u), NEW h \in Dialogs, u.kind[h] \in Texts,
           NEW said \in Answers
    PROVE  \A r : r = OkToExit(u, h, said) =>
               r.u \in UiStates /\ Exited(u, r.u, h, r.ok) /\ Dropped(r.u) /\ r.ok \in BOOLEAN
<1> DEFINE Fine(r) ==
               r.u \in UiStates /\ Exited(u, r.u, h, r.ok) /\ Dropped(r.u) /\ r.ok \in BOOLEAN
           kept == [u EXCEPT !.changed = u.changed \ {h}]
<1>1. u.kind[h] \in Kinds
  <2>1. u.kind \in [Dialogs -> Kinds \cup {"", "panels"}]
    BY Fields
  <2> QED BY <2>1 DEF Texts
<1>2. ASSUME h \notin u.changed
      PROVE  Fine([ok |-> TRUE, u |-> u])
  BY <1>2 DEF Exited
<1>3. Fine([ok |-> TRUE, u |-> kept])
  <2>1. kept \in UiStates /\ Dropped(kept)
    <3>1. u.changed \ {h} \in SUBSET Dialogs
      BY Fields
    <3> QED BY <3>1 DEF UiStates, Dropped
  <2>2. Exited(u, kept, h, TRUE)
    BY DEF UiStates, Exited
  <2> HIDE DEF kept
  <2> QED BY <2>1, <2>2
<1>4. ASSUME u.phase = "run"
      PROVE  Fine([ok |-> FALSE, u |-> u])
  BY <1>4 DEF Exited
<1>5. ASSUME NEW word \in Answers \ {"esc"},
             \/ word = "no"
             \/ u.kind[h] = "diff" /\ (u.phase # "run" \/ word = "fail")
             \/ u.phase # "run" /\ word = "fail"
      PROVE  Fine([ok |-> TRUE, u |-> Drop(u, h, word)])
  <2>1. \A v : v = Drop(u, h, word) => v \in UiStates /\ Exited(u, v, h, TRUE) /\ Dropped(v)
    BY <1>1, <1>5, DropIs
  <2>2. /\ Drop(u, h, word) \in UiStates /\ Exited(u, Drop(u, h, word), h, TRUE)
        /\ Dropped(Drop(u, h, word))
    BY <2>1
  <2> QED BY <2>2
<1> HIDE DEF kept, Fine
<1>6. Fine(OkToExit(u, h, said))
  <2>1. CASE h \notin u.changed
    BY <1>2, <2>1 DEF OkToExit
  <2>2. CASE h \in u.changed /\ u.kind[h] = "diff"
    <3>1. CASE u.phase # "run" \/ said \in {"no", "esc", "fail"}
      <4>1. OkToExit(u, h, said) =
              [ok |-> TRUE, u |-> Drop(u, h, IF said = "esc" THEN "no" ELSE said)]
        BY <2>2, <3>1 DEF OkToExit
      <4> DEFINE word == IF said = "esc" THEN "no" ELSE said
      <4>2. /\ word \in Answers \ {"esc"}
            /\ \/ word = "no"
               \/ u.kind[h] = "diff" /\ (u.phase # "run" \/ word = "fail")
        BY <2>2, <3>1 DEF Answers
      <4>3. OkToExit(u, h, said) = [ok |-> TRUE, u |-> Drop(u, h, word)]
        BY <4>1
      <4> HIDE DEF word
      <4> QED BY <4>2, <4>3, <1>5
    <3>2. CASE ~(u.phase # "run" \/ said \in {"no", "esc", "fail"})
      BY <2>2, <3>2, <1>3 DEF OkToExit, kept
    <3> QED BY <3>1, <3>2
  <2>3. CASE h \in u.changed /\ u.kind[h] # "diff"
    <3>1. CASE said = "yes"
      BY <2>3, <3>1, <1>3 DEF OkToExit, kept
    <3>2. CASE said = "no" \/ (u.phase # "run" /\ said \in {"esc", "fail"})
      <4> DEFINE word == IF said = "esc" THEN "no" ELSE said
      <4>1. OkToExit(u, h, said) = [ok |-> TRUE, u |-> Drop(u, h, word)]
        BY <2>3, <3>2 DEF OkToExit
      <4>2. word \in Answers \ {"esc"} /\ (word = "no" \/ (u.phase # "run" /\ word = "fail"))
        BY <3>2 DEF Answers
      <4> HIDE DEF word
      <4> QED BY <4>1, <4>2, <1>5
    <3>3. CASE said # "yes" /\ said # "no" /\ u.phase = "run"
      BY <2>3, <3>3, <1>4 DEF OkToExit
    <3> QED BY <3>1, <3>2, <3>3 DEF Answers
  <2> QED BY <2>1, <2>2, <2>3
<1> QED BY <1>6 DEF Fine

\* domview_detach_window_dom.
LEMMA DetachIsRight ==
    ASSUME ScreensConstants, ScreenLapses = {}, Right(ui), ui.phase = "run", Detach
    PROVE  Right(ui')
<1> DEFINE f == ui.calls[1].dlg
           docs == ui.docs \ {"window"}
           u == [ui EXCEPT !.docs = docs]
<1>1. /\ Runs(Loop.dlg) /\ (ui.kind[Loop.dlg] = "box" => ui.dom = 0)
      /\ ui' = IF ui.dom = 0 THEN u
               ELSE IF Followed(ui, ui.dom) \/ ui.shown = "" THEN [u EXCEPT !.fault = TRUE]
               ELSE IF ui.shown = "file" THEN u
               ELSE IF docs = {} THEN SetState([u EXCEPT !.shown = ""], ui.dom, "closed")
               ELSE [u EXCEPT !.shown = First(docs)]
  BY DEF Detach, IdleHook
<1>2. /\ ui \in UiStates /\ Watched(ui) /\ ~ui.fault /\ Dropped(ui) /\ Loop.dlg = f
  BY LoopFacts DEF Loop
<1>3. /\ docs \in SUBSET {"file", "window"} /\ ui.docs \in SUBSET {"file", "window"}
      /\ ui.shown \in {"", "file", "window"}
  BY <1>2, Fields
<1>4. u = [ui EXCEPT !.docs = docs, !.shown = ui.shown]
  BY <1>2 DEF UiStates
<1>5. CASE ui.dom = 0
  <2>1. ui' = [ui EXCEPT !.docs = docs, !.shown = ui.shown]
    BY <1>1, <1>4, <1>5
  <2>2. "file" \notin docs
    BY <1>2, <1>5 DEF Watched
  <2> HIDE DEF docs, u
  <2> QED BY <2>1, <2>2, <1>1, <1>3, <1>5, ToldIsRight
<1>6. CASE ui.dom # 0
  <2>1. ui.dom = f /\ ui.st[f] = "active" /\ ui.dom \in Dialogs
    BY <1>1, <1>2, <1>6, DomOnTop, DomIsThere DEF Runs
  <2>2. ui.shown \in ui.docs /\ ui.shown # ""
    BY <1>2, <1>3, <1>6, <2>1 DEF Watched
  <2>3. ~Followed(ui, ui.dom)
    BY <1>6, <2>1 DEF Followed
  <2>4. CASE ui.shown = "file"
    <3>1. ui' = [ui EXCEPT !.docs = docs, !.shown = ui.shown]
      BY <1>1, <1>4, <1>6, <2>2, <2>3, <2>4
    <3>2. ui.shown \in docs
      BY <2>2, <2>4
    <3> HIDE DEF docs, u
    <3> QED BY <3>1, <3>2, <2>1, <1>1, <1>3, <1>6, ToldIsRight
  <2>5. CASE ui.shown # "file" /\ docs # {}
    <3> DEFINE shown == First(docs)
    <3>1. ui' = [ui EXCEPT !.docs = docs, !.shown = shown]
      BY <1>1, <1>2, <1>6, <2>2, <2>3, <2>5
    <3>2. shown \in docs
      BY <2>5, <1>3 DEF First
    <3> HIDE DEF docs, u, shown
    <3> QED BY <3>1, <3>2, <2>1, <1>1, <1>3, <1>6, ToldIsRight
  <2>6. CASE ui.shown # "file" /\ docs = {}
    <3> DEFINE w == [ui EXCEPT !.docs = docs, !.shown = ""]
    <3>1. ui' = SetState(w, f, "closed")
      BY <1>1, <1>2, <1>6, <2>1, <2>2, <2>3, <2>6
    <3> HIDE DEF docs, u
    <3>2. w \in UiStates /\ Documented(ui, w, docs, "")
      BY <1>2, <1>3, DocumentedIs
    <3> HIDE DEF w, f
    <3>3. w.st[f] # "none"
      BY <3>2, <2>1 DEF Documented
    <3>4. ui' \in UiStates /\ Marked(w, ui', f, "closed")
      <4>1. 0 \notin Dialogs /\ "closed" \in Going /\ f \in Dialogs
        BY <2>1, PanelsAreFirst DEF Going
      <4> QED BY <4>1, <3>1, <3>2, <3>3, MarkedIs
    <3>5. f # Panels /\ f \notin ui.changed
      <4>1. ui.kind[f] = "dom" /\ (ui.kind[f] = "panels" <=> f = Panels)
        BY <1>6, <2>1, LoopFacts DEF Placed
      <4> QED BY <4>1, <1>2 DEF Watched, Texts
    <3>6. ui'.st[f] = "closed" /\ ui'.dom = f /\ ui'.docs = {} /\ ui'.changed = ui.changed
      <4>1. w.st \in [Dialogs -> Going]
        BY <3>2, Fields
      <4> QED BY <4>1, <3>2, <3>4, <2>1, <2>6 DEF Marked, Documented
    <3>7. Inside(ui, ui', "closed")
      BY <3>2, <3>4, <3>5, <3>6, <1>2, <1>6, <2>1 DEF Inside, Marked, Documented, f
    <3>8. Dropped(ui')
      BY <3>2, <3>4, <1>2 DEF Dropped, Marked, Documented
    <3> QED BY <3>4, <3>7, <3>8, <2>1, InsideIsRight DEF f
  <2> QED BY <2>4, <2>5, <2>6
<1> QED BY <1>5, <1>6

\* CK_Quit in the DOM viewer.
LEMMA DomviewQuitIsRight ==
    ASSUME ScreensConstants, Right(ui), ui.phase = "run", DomviewQuit
    PROVE  Right(ui')
<1> DEFINE f == ui.calls[1].dlg
           docs == ui.docs \ {"file"}
           shown == First(docs)
           w == [ui EXCEPT !.docs = docs, !.shown = shown]
<1>1. /\ Runs(Loop.dlg) /\ ui.kind[Loop.dlg] = "dom"
      /\ ui' = SetState(w, ui.dom, "closed")
  BY DEF DomviewQuit
<1>2. /\ ui \in UiStates /\ Watched(ui) /\ Placed(ui) /\ ~ui.fault /\ Dropped(ui)
      /\ Loop.dlg = f /\ Loops(ui) \in SUBSET Dialogs
  BY LoopFacts DEF Loop
<1>3. f \in Dialogs
  <2>1. Len(ui.calls) \in Nat /\ Len(ui.calls) >= 1
    BY LoopFacts
  <2> QED BY <2>1, LoopFacts
<1>4. ui.dom = f /\ ui.st[f] = "active" /\ f # Panels /\ f \notin ui.changed
  BY <1>1, <1>2, <1>3 DEF Placed, Runs, Watched, Texts
<1>5. docs \in SUBSET {"file", "window"} /\ shown \in {"", "file", "window"}
  BY <1>2, Fields DEF First
<1>6. "file" \notin docs
  OBVIOUS
<1> HIDE DEF docs, shown
<1>7. w \in UiStates /\ Documented(ui, w, docs, shown)
  BY <1>2, <1>5, DocumentedIs
<1> HIDE DEF w, f
<1>8. w.st[f] # "none"
  BY <1>4, <1>7 DEF Documented
<1>9. ui' \in UiStates /\ Marked(w, ui', f, "closed")
  <2>1. 0 \notin Dialogs /\ "closed" \in Going
    BY PanelsAreFirst DEF Going
  <2> QED BY <2>1, <1>1, <1>3, <1>4, <1>7, <1>8, MarkedIs
<1>10. ui'.st[f] = "closed" /\ ui'.dom = f /\ ui'.docs = docs /\ ui'.changed = ui.changed
  <2>1. w.st \in [Dialogs -> Going]
    BY <1>7, Fields
  <2> QED BY <2>1, <1>3, <1>4, <1>7, <1>9 DEF Marked, Documented
<1>11. Inside(ui, ui', "closed")
  BY <1>2, <1>4, <1>6, <1>7, <1>9, <1>10 DEF Inside, Marked, Documented, f
<1>12. Dropped(ui')
  BY <1>2, <1>7, <1>9 DEF Dropped, Marked, Documented
<1> QED BY <1>4, <1>9, <1>11, <1>12, InsideIsRight DEF f

\* The innermost loop's dialog.
LEMMA Innermost ==
    ASSUME ScreensConstants, Right(ui), ui.phase = "run", Runs(Loop.dlg)
    PROVE  /\ Loop.dlg = ui.calls[1].dlg /\ Loop.dlg \in Dialogs /\ ui.st[Loop.dlg] = "active"
           /\ 0 \notin Dialogs /\ Head(ui.top) = Loop.dlg
           /\ ui \in UiStates /\ Watched(ui) /\ Placed(ui) /\ ~ui.fault /\ Dropped(ui)
<1>1. Len(ui.calls) \in Nat /\ Len(ui.calls) >= 1 /\ Loop.dlg = ui.calls[1].dlg
  BY LoopFacts DEF Loop
<1>2. Loop.dlg \in Dialogs
  BY <1>1, LoopFacts
<1> QED BY <1>1, <1>2, LoopFacts, PanelsAreFirst DEF Runs

\* A key that changes the text.
LEMMA ModifyIsRight ==
    ASSUME ScreensConstants, Right(ui), ui.phase = "run", Modify
    PROVE  Right(ui')
<1> DEFINE f == Loop.dlg
           changed == ui.changed \cup {f}
<1>1. Runs(f) /\ ui.kind[f] \in Texts /\ ui' = [ui EXCEPT !.changed = changed]
  BY DEF Modify, Texts
<1>2. /\ f = ui.calls[1].dlg /\ f \in Dialogs /\ ui.st[f] = "active"
      /\ ui \in UiStates /\ Watched(ui) /\ ~ui.fault /\ Dropped(ui)
  BY <1>1, Innermost
<1>3. changed \in SUBSET Dialogs
  BY <1>2, Fields
<1>4. [ui.st EXCEPT ![f] = "active"] = ui.st
  <2>1. ui.st \in [Dialogs -> Going]
    BY <1>2, Fields
  <2> QED BY <2>1, <1>2
<1>5. ui' \in UiStates /\ ui'.changed = changed
  <2> HIDE DEF changed
  <2> QED BY <1>1, <1>2, <1>3 DEF UiStates
<1>6. /\ ui'.st = ui.st /\ ui'.kind = ui.kind /\ ui'.modal = ui.modal
      /\ ui'.top = ui.top /\ ui'.list = ui.list /\ ui'.cur = ui.cur /\ ui'.pending = ui.pending
      /\ ui'.calls = ui.calls /\ ui'.dom = ui.dom /\ ui'.phase = ui.phase /\ ui'.fault = ui.fault
      /\ ui'.asked = ui.asked /\ ui'.dropped = ui.dropped
      /\ ui'.docs = ui.docs /\ ui'.shown = ui.shown
  <2> HIDE DEF changed
  <2> QED BY <1>1, <1>2 DEF UiStates
<1>7. changed \subseteq ui.changed \cup {f}
  OBVIOUS
<1> HIDE DEF changed, f
<1>8. Inside(ui, ui', "active")
  BY <1>1, <1>2, <1>4, <1>5, <1>6, <1>7 DEF Inside, Watched
<1>9. Dropped(ui')
  BY <1>2, <1>6 DEF Dropped
<1> QED BY <1>2, <1>5, <1>8, <1>9, InsideIsRight

\* A box is closed.
LEMMA CloseBoxIsRight ==
    ASSUME ScreensConstants, Right(ui), ui.phase = "run", CloseBox
    PROVE  Right(ui')
<1> DEFINE f == Loop.dlg
<1>1. Runs(f) /\ ui.kind[f] = "box" /\ ui' = SetState(ui, f, "closed")
  BY DEF CloseBox
<1>2. /\ f = ui.calls[1].dlg /\ f \in Dialogs /\ ui.st[f] = "active" /\ 0 \notin Dialogs
      /\ ui \in UiStates /\ Watched(ui) /\ Placed(ui) /\ ~ui.fault /\ Dropped(ui)
  BY <1>1, Innermost
<1> HIDE DEF f
<1>3. ui' \in UiStates /\ Marked(ui, ui', f, "closed")
  <2>1. "closed" \in Going
    BY DEF Going
  <2> QED BY <2>1, <1>1, <1>2, MarkedIs
<1>4. f # Panels /\ f \notin ui.changed /\ f # ui.dom
  BY <1>1, <1>2 DEF Placed, Watched, Texts
<1>5. ui.dom # 0 => ui.dom \in Dialogs /\ ui'.st[ui.dom] = ui.st[ui.dom]
  <2>1. ui.st \in [Dialogs -> Going] /\ (ui.dom # 0 => ui.dom \in Dialogs)
    BY <1>2, Fields, DomIsThere
  <2> QED BY <2>1, <1>3, <1>4 DEF Marked
<1>6. Inside(ui, ui', "closed")
  BY <1>2, <1>3, <1>4, <1>5 DEF Inside, Marked, Watched
<1>7. Dropped(ui')
  BY <1>2, <1>3 DEF Dropped, Marked
<1> QED BY <1>2, <1>3, <1>6, <1>7, InsideIsRight

\* CK_Quit in a screen, and MSG_VALIDATE.
LEMMA CloseScreenIsRight ==
    ASSUME ScreensConstants, Right(ui), ui.phase = "run",
           NEW said \in Answers, CloseScreen(said)
    PROVE  Right(ui')
<1> DEFINE f == Loop.dlg
           a == SetState(ui, f, "closed")
           b == SetState(a, f, "active")
           r == OkToExit(b, f, said)
<1>1. Runs(f) /\ ui.kind[f] \in Texts /\ ui' = Validate(a, f, said)
  BY DEF CloseScreen, Texts
<1>2. /\ f = ui.calls[1].dlg /\ f \in Dialogs /\ ui.st[f] = "active" /\ 0 \notin Dialogs
      /\ ui \in UiStates /\ Watched(ui) /\ Placed(ui) /\ ~ui.fault /\ Dropped(ui)
      /\ ui.st \in [Dialogs -> Going]
  BY <1>1, Innermost, Fields
<1> HIDE DEF f
<1>3. a \in UiStates /\ Marked(ui, a, f, "closed")
  BY <1>2, MarkedIs DEF Going
<1> HIDE DEF a
<1>4. b \in UiStates /\ Marked(a, b, f, "active")
  <2>1. a.st[f] # "none"
    BY <1>2, <1>3 DEF Marked
  <2> QED BY <2>1, <1>2, <1>3, MarkedIs DEF Going
<1> HIDE DEF b
<1>5. Marked(ui, b, f, "active") /\ b.st = ui.st
  <2>1. [[ui.st EXCEPT ![f] = "closed"] EXCEPT ![f] = "active"] = ui.st
    BY <1>2
  <2>2. [ui.st EXCEPT ![f] = "active"] = ui.st
    BY <1>2
  <2> QED BY <2>1, <2>2, <1>3, <1>4 DEF Marked
<1>6. r.u \in UiStates /\ Exited(b, r.u, f, r.ok) /\ Dropped(r.u) /\ r.ok \in BOOLEAN
  <2>1. Dropped(b) /\ b.kind[f] \in Texts
    BY <1>1, <1>2, <1>5 DEF Dropped, Marked
  <2> QED BY <2>1, <1>2, <1>4, OkToExitIs
<1>7. ui' = IF r.ok THEN SetState(r.u, f, "closed") ELSE r.u
  BY <1>1, <1>3, <1>5 DEF Validate, Marked, Texts, b
<1> HIDE DEF r
<1>8. f # Panels /\ f # ui.dom
  BY <1>1, <1>2 DEF Placed, Texts
<1>9. CASE ~r.ok
  <2>1. Inside(ui, r.u, "active")
    BY <1>1, <1>2, <1>5, <1>6 DEF Inside, Exited, Marked, Watched
  <2> QED BY <2>1, <1>2, <1>6, <1>7, <1>9, InsideIsRight
<1>10. CASE r.ok
  <2>1. ui' \in UiStates /\ Marked(r.u, ui', f, "closed")
    <3>1. r.u.st[f] # "none"
      BY <1>2, <1>5, <1>6 DEF Exited
    <3> QED BY <3>1, <1>2, <1>6, <1>7, <1>10, MarkedIs DEF Going
  <2>2. ui'.st = [ui.st EXCEPT ![f] = "closed"] /\ ui'.changed = r.u.changed
    BY <2>1, <1>5, <1>6 DEF Marked, Exited
  <2>3. f \notin ui'.changed /\ ui'.changed \subseteq ui.changed
    BY <2>2, <1>5, <1>6, <1>10 DEF Exited, Marked
  <2>4. ui.dom # 0 => ui.dom \in Dialogs /\ ui'.st[ui.dom] = ui.st[ui.dom]
    BY <2>2, <1>2, <1>8, DomIsThere
  <2>5. Inside(ui, ui', "closed")
    BY <2>1, <2>2, <2>3, <2>4, <1>2, <1>5, <1>6, <1>8 DEF Inside, Exited, Marked, Watched
  <2>6. Dropped(ui')
    BY <2>1, <1>6 DEF Dropped, Marked
  <2> QED BY <2>1, <2>5, <2>6, <1>2, InsideIsRight
<1> QED BY <1>6, <1>9, <1>10

\* stop_dialogs.
LEMMA StopDialogsIsRight ==
    ASSUME ScreensConstants, ScreenLapses = {}, Right(ui), ui.phase = "run",
           NEW said \in Answers, StopDialogs(said)
    PROVE  Right(ui')
<1> DEFINE f == Loop.dlg
           w == [ui EXCEPT !.asked = TRUE]
           a == SetState(w, Panels, "closed")
<1>1. Runs(f) /\ f = Panels
      /\ ui' = Validate(SetState(a, Head(ui.top), "closed"), f, said)
  BY DEF StopDialogs
<1>2. /\ f = ui.calls[1].dlg /\ f \in Dialogs /\ ui.st[f] = "active" /\ 0 \notin Dialogs
      /\ ui \in UiStates /\ Watched(ui) /\ Placed(ui) /\ ~ui.fault /\ Dropped(ui)
      /\ ui.st \in [Dialogs -> Going] /\ Head(ui.top) = f
  BY <1>1, Innermost, Fields
<1> HIDE DEF f
<1>3. w \in UiStates /\ w.asked
  BY <1>2 DEF UiStates
<1>4. /\ w.st = ui.st /\ w.kind = ui.kind /\ w.modal = ui.modal /\ w.changed = ui.changed
      /\ w.top = ui.top /\ w.list = ui.list /\ w.cur = ui.cur /\ w.pending = ui.pending
      /\ w.calls = ui.calls /\ w.dom = ui.dom /\ w.phase = ui.phase /\ w.fault = ui.fault
      /\ w.dropped = ui.dropped /\ w.docs = ui.docs /\ w.shown = ui.shown
  BY <1>2 DEF UiStates
<1> HIDE DEF w
<1>5. a \in UiStates /\ Marked(w, a, f, "closed")
  BY <1>1, <1>2, <1>3, <1>4, MarkedIs DEF Going
<1> HIDE DEF a
<1> DEFINE b == SetState(a, f, "closed")
<1>6. b \in UiStates /\ Marked(a, b, f, "closed")
  <2>1. a.st[f] # "none"
    BY <1>2, <1>4, <1>5 DEF Marked
  <2> QED BY <2>1, <1>2, <1>5, MarkedIs DEF Going
<1>7. b.kind[f] = "panels"
  BY <1>1, <1>2, <1>4, <1>5, <1>6 DEF Marked, Placed
<1>8. ui' = b
  <2>1. ui' = Validate(b, f, said)
    BY <1>1, <1>2
  <2> HIDE DEF b
  <2> QED BY <2>1, <1>7 DEF Validate
<1> HIDE DEF b
<1>9. ui'.st = [ui.st EXCEPT ![f] = "closed"]
  <2>1. [[ui.st EXCEPT ![f] = "closed"] EXCEPT ![f] = "closed"] = [ui.st EXCEPT ![f] = "closed"]
    OBVIOUS
  <2> QED BY <2>1, <1>4, <1>5, <1>6, <1>8 DEF Marked
<1>10. ui.kind[f] = "panels" /\ f # ui.dom /\ f \notin ui.changed
  BY <1>1, <1>2 DEF Placed, Watched, Texts
<1>11. ui.dom # 0 => ui.dom \in Dialogs /\ ui'.st[ui.dom] = ui.st[ui.dom]
  BY <1>2, <1>9, <1>10, DomIsThere
<1>12. /\ ui'.kind = ui.kind /\ ui'.modal = ui.modal /\ ui'.changed = ui.changed
       /\ ui'.top = ui.top /\ ui'.list = ui.list /\ ui'.cur = ui.cur
       /\ ui'.pending = ui.pending /\ ui'.calls = ui.calls /\ ui'.dom = ui.dom
       /\ ui'.phase = ui.phase /\ ui'.fault = ui.fault /\ ui'.dropped = ui.dropped
       /\ ui'.docs = ui.docs /\ ui'.shown = ui.shown /\ ui'.asked
  BY <1>3, <1>4, <1>5, <1>6, <1>8 DEF Marked
<1>13. Inside(ui, ui', "closed")
  BY <1>2, <1>9, <1>10, <1>11, <1>12 DEF Inside, Watched
<1>14. Dropped(ui')
  BY <1>2, <1>12 DEF Dropped
<1> QED BY <1>2, <1>6, <1>8, <1>13, <1>14, InsideIsRight

-----------------------------------------------------------------------------
(* Another screen is chosen. *)

\* Everything but where the user goes.
Aside(u, v) ==
    /\ v.kind = u.kind /\ v.modal = u.modal /\ v.changed = u.changed /\ v.top = u.top
    /\ v.calls = u.calls /\ v.list = u.list /\ v.dropped = u.dropped
    /\ v.phase = u.phase /\ v.fault = u.fault /\ v.asked = u.asked /\ v.dom = u.dom
    /\ v.docs = u.docs /\ v.shown = u.shown

\* The screen to go to is noted,
LEMMA Heading ==
    ASSUME NEW u \in UiStates, NEW d \in 0..MaxDialogs, NEW v, v = [u EXCEPT !.cur = d]
    PROVE  v \in UiStates /\ Aside(u, v) /\ v.st = u.st /\ v.cur = d /\ v.pending = u.pending
<1>1. v \in UiStates
  BY DEF UiStates
<1>2. Aside(u, v) /\ v.st = u.st /\ v.cur = d /\ v.pending = u.pending
  BY DEF UiStates, Aside
<1> QED BY <1>1, <1>2

\* and that there is one.
LEMMA HeadingLater ==
    ASSUME NEW u \in UiStates, NEW v, v = [u EXCEPT !.pending = TRUE]
    PROVE  v \in UiStates /\ Aside(u, v) /\ v.st = u.st /\ v.cur = u.cur /\ v.pending
<1>1. v \in UiStates
  BY DEF UiStates
<1>2. Aside(u, v) /\ v.st = u.st /\ v.cur = u.cur /\ v.pending
  BY DEF UiStates, Aside
<1> QED BY <1>1, <1>2

\* The present screen is suspended.
LEMMA TurnedAway ==
    ASSUME ScreensConstants, NEW u, NEW h, NEW by, OnScreen(u, h, by),
           u.st[h] = "active", u.kind[h] # "dom",
           NEW v \in UiStates, Aside(u, v), v.st[h] = "suspended",
           v.st[Panels] \in {"active", "suspended"},
           \A d \in Dialogs \ {h, Panels} : v.st[d] = u.st[d],
           IF v.pending THEN v.cur \in Listed(u) \ {h, Panels}
           ELSE v.cur = Panels /\ v.st[Panels] = "active"
    PROVE  OnScreen(v, h, by)
<1>1. /\ u \in UiStates /\ ~u.fault /\ Dropped(u) /\ u.phase = "run"
      /\ u.calls = <<[dlg |-> h, by |-> by], Main>> /\ u.top = <<h, Panels>> /\ u.modal = {}
      /\ Distinct(u.list) /\ Panels \in Listed(u) /\ h \in Listed(u) /\ h # Panels
      /\ \A d \in Dialogs : u.st[d] # "none" <=> d \in Listed(u)
      /\ \A d \in Dialogs : u.kind[d] = "panels" <=> d = Panels
      /\ \A d \in Dialogs : u.kind[d] = "dom" <=> d = u.dom
      /\ \A d \in Listed(u) \ {Panels, h} : u.st[d] = "suspended" /\ u.kind[d] \in Texts
      /\ \A d \in u.changed : u.st[d] \in {"active", "suspended"} /\ u.kind[d] \in Texts
  BY DEF OnScreen
<1>2. Listed(v) = Listed(u) /\ Listed(u) \in SUBSET Dialogs /\ u.changed \in SUBSET Dialogs
  BY <1>1, ListedIn, Fields DEF Listed, Aside
<1>3. \A d \in Dialogs : v.st[d] # "none" <=> d \in Listed(v)
  BY <1>1, <1>2
<1>4. \A d \in Listed(v) \ {Panels, h} : v.st[d] = "suspended" /\ v.kind[d] \in Texts
  BY <1>1, <1>2 DEF Aside
<1>5. \A d \in v.changed : v.st[d] \in {"active", "suspended"} /\ v.kind[d] \in Texts
  BY <1>1, <1>2 DEF Aside
<1>6. u.dom = 0 /\ by \in {"panels", "pending"} /\ u.kind[h] \in Texts /\ "file" \notin u.docs
  <2>1. h \in Dialogs
    BY <1>1, <1>2
  <2>2. u.dom # h
    BY <1>1, <2>1
  <2> QED BY <2>2 DEF OnScreen
<1>7. ~v.fault /\ Dropped(v) /\ v.phase = "run" /\ v.modal = {} /\ Distinct(v.list)
  BY <1>1 DEF Aside, Dropped
<1>8. v.calls = <<[dlg |-> h, by |-> by], Main>> /\ v.top = <<h, Panels>>
  BY <1>1 DEF Aside
<1>9. \A d \in Dialogs : (v.kind[d] = "panels" <=> d = Panels) /\ (v.kind[d] = "dom" <=> d = v.dom)
  BY <1>1 DEF Aside
<1>10. v.dom = 0 /\ v.kind[h] \in Texts /\ "file" \notin v.docs
  BY <1>6 DEF Aside
<1> QED BY <1>1, <1>2, <1>3, <1>4, <1>5, <1>6, <1>7, <1>8, <1>9, <1>10 DEF OnScreen

\* dialog_switch_goto.
LEMMA SwitchIsRight ==
    ASSUME ScreensConstants, ScreenLapses = {}, Right(ui), ui.phase = "run",
           NEW d \in Dialogs, Switch(d)
    PROVE  Right(ui')
<1> DEFINE h == Loop.dlg
           w == [ui EXCEPT !.cur = d]
           x == [w EXCEPT !.pending = TRUE]
<1>1. /\ Runs(h) /\ h \notin ui.modal /\ d \in Listed(ui) /\ d # ui.cur
      /\ ui.kind[h] # "dom" /\ ui' = SwitchGoto(ui, d)
  BY DEF Switch, Listed
<1>2. /\ h = ui.calls[1].dlg /\ h \in Dialogs /\ ui.st[h] = "active" /\ 0 \notin Dialogs
      /\ ui \in UiStates /\ ~ui.fault /\ ui.st \in [Dialogs -> Going]
  BY <1>1, Innermost, Fields
<1> HIDE DEF h
<1>3. /\ w \in UiStates /\ Aside(ui, w) /\ w.st = ui.st /\ w.cur = d /\ w.pending = ui.pending
      /\ x \in UiStates /\ Aside(ui, x) /\ x.st = ui.st /\ x.cur = d /\ x.pending
  <2>1. d \in 0..MaxDialogs
    BY PanelsAreFirst
  <2>2. w \in UiStates /\ Aside(ui, w) /\ w.st = ui.st /\ w.cur = d /\ w.pending = ui.pending
    BY <2>1, <1>2, Heading
  <2> HIDE DEF w
  <2>3. x \in UiStates /\ Aside(w, x) /\ x.st = w.st /\ x.cur = w.cur /\ x.pending
    BY <2>2, HeadingLater
  <2> HIDE DEF x
  <2> QED BY <2>2, <2>3 DEF Aside
<1>4. CASE h = Panels
  <2>1. Alone(ui) /\ ui.cur = Panels
    BY <1>2, <1>4, RightIsAlone
  <2>2. ui' = ProcessPending(x)
    BY <1>1, <2>1 DEF SwitchGoto
  <2>3. x \in UiStates /\ Aside(ui, x) /\ x.st = ui.st /\ x.cur = d /\ x.pending
    BY <1>3
  <2> HIDE DEF x
  <2>4. Alone(x)
    <3>1. Listed(x) = Listed(ui) /\ (Dropped(ui) => Dropped(x))
      BY <2>3 DEF Aside, Dropped, Listed
    <3> QED BY <2>1, <2>3, <3>1 DEF Alone, Aside
  <2>5. d \in Listed(x) \ {Panels} /\ x.st[Panels] \in {"active", "suspended"}
    BY <1>1, <1>2, <1>4, <2>1, <2>3 DEF Aside, Listed
  <2>6. OnScreen(ui', x.cur, "pending")
    BY <2>2, <2>3, <2>4, <2>5, PendingIsRun
  <2> QED BY <2>6, ScreenIsRight
<1>5. CASE h # Panels
  <2> DEFINE by == ui.calls[1].by
  <2>1. OnScreen(ui, h, by)
    BY <1>1, <1>2, <1>5, RightIsOnScreen
  <2>2. ui.cur = h /\ ~ui.pending /\ ui.pending \in BOOLEAN
        /\ Panels \in Listed(ui) /\ Panels \in Dialogs /\ ui.st[Panels] \in {"active", "suspended"}
    BY <1>2, <2>1, Fields, PanelsAreFirst DEF OnScreen
  <2> HIDE DEF by
  <2>3. CASE d = Panels
    <3> DEFINE a == SetState(w, h, "suspended")
    <3>1. ui' = SetState(a, Panels, "active")
      BY <1>1, <1>5, <2>2, <2>3 DEF SwitchGoto
    <3>2. w \in UiStates /\ Aside(ui, w) /\ w.st = ui.st /\ w.cur = d /\ ~w.pending
      BY <1>3, <2>2
    <3> HIDE DEF w
    <3>3. a \in UiStates /\ Marked(w, a, h, "suspended")
      <4>1. w.st[h] # "none"
        BY <3>2, <1>2
      <4> QED BY <4>1, <3>2, <1>2, MarkedIs DEF Going
    <3> HIDE DEF a
    <3>4. ui' \in UiStates /\ Marked(a, ui', Panels, "active")
      <4>1. a.st[Panels] # "none"
        BY <3>2, <3>3, <1>2, <1>5, <2>2 DEF Marked
      <4> QED BY <4>1, <3>1, <3>3, <1>2, <2>2, MarkedIs DEF Going
    <3>5. Aside(ui, ui') /\ ui'.cur = Panels /\ ~ui'.pending
      BY <3>2, <3>3, <3>4, <2>3 DEF Marked, Aside
    <3>6. /\ ui'.st[h] = "suspended" /\ ui'.st[Panels] = "active"
          /\ \A e \in Dialogs \ {h, Panels} : ui'.st[e] = ui.st[e]
      BY <3>2, <3>3, <3>4, <1>2, <1>5, <2>2 DEF Marked
    <3>7. OnScreen(ui', h, by)
      BY <3>4, <3>5, <3>6, <2>1, <1>1, <1>2, TurnedAway
    <3> QED BY <3>7, ScreenIsRight
  <2>4. CASE d # Panels
    <3>1. ui' = SetState(x, h, "suspended")
      BY <1>1, <1>5, <2>2, <2>4 DEF SwitchGoto
    <3>2. x \in UiStates /\ Aside(ui, x) /\ x.st = ui.st /\ x.cur = d /\ x.pending
      BY <1>3
    <3> HIDE DEF x
    <3>3. ui' \in UiStates /\ Marked(x, ui', h, "suspended")
      <4>1. x.st[h] # "none"
        BY <3>2, <1>2
      <4> QED BY <4>1, <3>1, <3>2, <1>2, MarkedIs DEF Going
    <3>4. Aside(ui, ui') /\ ui'.cur = d /\ ui'.pending
      BY <3>2, <3>3 DEF Marked, Aside
    <3>5. ui'.st[h] = "suspended" /\ \A e \in Dialogs \ {h} : ui'.st[e] = ui.st[e]
      BY <3>2, <3>3, <1>2 DEF Marked
    <3>6. OnScreen(ui', h, by)
      BY <3>3, <3>4, <3>5, <2>1, <2>2, <2>4, <1>1, <1>2, <1>5, TurnedAway
    <3> QED BY <3>6, ScreenIsRight
  <2> QED BY <2>3, <2>4
<1> QED BY <1>4, <1>5

-----------------------------------------------------------------------------
(* A loop comes back. *)

\* h is freed.
Destroyed(u, v, h) ==
    /\ v.st = [u.st EXCEPT ![h] = "none"] /\ v.kind = [u.kind EXCEPT ![h] = ""]
    /\ v.modal = u.modal \ {h} /\ v.changed = u.changed /\ v.top = u.top /\ v.cur = u.cur
    /\ v.calls = u.calls /\ v.list = u.list /\ v.pending = u.pending /\ v.dropped = u.dropped
    /\ v.phase = u.phase /\ v.fault = u.fault /\ v.asked = u.asked /\ v.dom = u.dom
    /\ v.docs = u.docs /\ v.shown = u.shown

\* What has no changes may be.
LEMMA DestroyedIs ==
    ASSUME NEW u \in UiStates, NEW h \in Dialogs, 0 \notin Dialogs, u.st[h] # "none",
           h \notin u.changed, NEW v, v = Destroy(u, h)
    PROVE  v \in UiStates /\ Destroyed(u, v, h)
<1> DEFINE st == [u.st EXCEPT ![h] = "none"]
           kinds == [u.kind EXCEPT ![h] = ""]
           modal == u.modal \ {h}
           changed == u.changed \ {h}
<1>1. v = [[[[u EXCEPT !.st = st] EXCEPT !.kind = kinds] EXCEPT !.modal = modal]
           EXCEPT !.changed = changed]
  <2>1. v = [u EXCEPT !.st = st, !.kind = kinds, !.modal = modal, !.changed = changed,
                      !.dropped = u.dropped]
    BY DEF Destroy, Followed
  <2> HIDE DEF st, kinds, modal, changed
  <2> QED BY <2>1 DEF UiStates
<1>2. changed = u.changed
  OBVIOUS
<1>3. /\ st \in [Dialogs -> Going] /\ kinds \in [Dialogs -> Kinds \cup {"", "panels"}]
      /\ modal \in SUBSET Dialogs /\ changed \in SUBSET Dialogs
  <2>1. /\ u.st \in [Dialogs -> Going] /\ u.kind \in [Dialogs -> Kinds \cup {"", "panels"}]
        /\ u.modal \in SUBSET Dialogs /\ u.changed \in SUBSET Dialogs
    BY Fields
  <2> QED BY <2>1 DEF Going
<1> HIDE DEF st, kinds, modal, changed
<1>4. v \in UiStates
  <2>1. [u EXCEPT !.st = st] \in UiStates
    BY <1>3 DEF UiStates
  <2>2. ASSUME NEW w \in UiStates
        PROVE  /\ [w EXCEPT !.kind = kinds] \in UiStates
               /\ [w EXCEPT !.modal = modal] \in UiStates
               /\ [w EXCEPT !.changed = changed] \in UiStates
    BY <1>3 DEF UiStates
  <2> QED BY <2>1, <2>2, <1>1
<1>5. v.st = st /\ v.kind = kinds /\ v.modal = modal /\ v.changed = u.changed
  BY <1>1, <1>2 DEF UiStates
<1>6. /\ v.top = u.top /\ v.cur = u.cur /\ v.calls = u.calls /\ v.list = u.list
      /\ v.pending = u.pending /\ v.dropped = u.dropped /\ v.phase = u.phase
      /\ v.fault = u.fault /\ v.asked = u.asked /\ v.dom = u.dom
      /\ v.docs = u.docs /\ v.shown = u.shown
  BY <1>1 DEF UiStates
<1> QED BY <1>4, <1>5, <1>6 DEF Destroyed, st, kinds, modal

\* h is no screen any more, b is the present one.
Switched(u, v, h, b) ==
    /\ v.list = RemoveFirst(u.list, h) /\ v.cur = b
    /\ \A d \in Dialogs : v.st[d] = IF d = b THEN "active" ELSE u.st[d]
    /\ v.kind = u.kind /\ v.modal = u.modal /\ v.changed = u.changed /\ v.top = u.top
    /\ v.calls = u.calls /\ v.pending = u.pending /\ v.dropped = u.dropped
    /\ v.phase = u.phase /\ v.fault = u.fault /\ v.asked = u.asked /\ v.dom = u.dom
    /\ v.docs = u.docs /\ v.shown = u.shown

\* dialog_switch_remove.
LEMMA SwitchedIs ==
    ASSUME ScreensConstants, NEW u \in UiStates, NEW h \in Listed(u), Distinct(u.list),
           u.cur # 0, ~u.fault, \A d \in Listed(u) : u.st[d] # "none",
           NEW b, b \in {0} \cup (Listed(u) \ {h}),
           \/ u.top = <<Panels>> /\ b = Panels
           \/ u.top = <<>> /\ b = IF RemoveFirst(u.list, h) = <<>> THEN 0
                                  ELSE Head(RemoveFirst(u.list, h)),
           NEW v, v = SwitchRemove(u, h)
    PROVE  v \in UiStates /\ Switched(u, v, h, b)
<1> DEFINE list == RemoveFirst(u.list, h)
           w == [u EXCEPT !.list = list]
           x == [u EXCEPT !.list = list, !.cur = b, !.fault = FALSE]
<1>1. u.list \in Seq(Dialogs) /\ u.st \in [Dialogs -> Going] /\ u.fault = FALSE
  BY Fields
<1>2. list \in Seq(Dialogs) /\ ToSet(list) = Listed(u) \ {h}
  BY <1>1, RemovingOne DEF Listed
<1>3. Listed(u) \in SUBSET Dialogs /\ 0 \notin Dialogs /\ b \in 0..MaxDialogs
      /\ Panels # 0
  <2>1. Listed(u) \in SUBSET Dialogs /\ 0 \notin Dialogs /\ Panels \in Dialogs
    BY ListedIn, PanelsAreFirst
  <2>2. 0 \in 0..MaxDialogs
    BY DEF ScreensConstants
  <2>3. \A d \in Dialogs : d \in 0..MaxDialogs
    BY PanelsAreFirst
  <2> QED BY <2>1, <2>2, <2>3
<1> DEFINE below == IF u.top # <<>> THEN Find(w, Head(u.top))
                    ELSE IF list # <<>> THEN Head(list) ELSE 0
<1>4. below = b
  <2>1. CASE u.top = <<Panels>> /\ b = Panels
    <3>1. u.top # <<>> /\ Head(u.top) = Panels
      BY <2>1
    <3>2. w.list = list
      <4> HIDE DEF list
      <4> QED BY DEF UiStates
    <3>3. Panels \in ToSet(w.list)
      BY <2>1, <3>2, <1>2, <1>3
    <3> HIDE DEF w, list
    <3> QED BY <2>1, <3>1, <3>3 DEF Find
  <2>2. CASE u.top = <<>> /\ b = IF list = <<>> THEN 0 ELSE Head(list)
    <3> HIDE DEF w, list
    <3> QED BY <2>2
  <2> QED BY <2>1, <2>2
<1>5. v = IF below = 0 THEN [u EXCEPT !.list = list, !.cur = below, !.fault = @ \/ u.cur = 0]
          ELSE SetState([u EXCEPT !.list = list, !.cur = below, !.fault = @ \/ u.cur = 0],
                        below, "active")
  BY DEF SwitchRemove
<1>6. v = IF b = 0 THEN x ELSE SetState(x, b, "active")
  <2> HIDE DEF below, list
  <2>1. (u.fault \/ u.cur = 0) = FALSE
    BY <1>1
  <2> QED BY <2>1, <1>4, <1>5
<1> HIDE DEF list, below, w
<1>7. x \in UiStates
  BY <1>2, <1>3 DEF UiStates
<1>8. x.list = list /\ x.cur = b /\ x.fault = u.fault
  BY <1>1, <1>7 DEF UiStates
<1>9. /\ x.st = u.st /\ x.kind = u.kind /\ x.modal = u.modal /\ x.changed = u.changed
      /\ x.top = u.top /\ x.calls = u.calls /\ x.pending = u.pending
      /\ x.dropped = u.dropped /\ x.phase = u.phase /\ x.asked = u.asked /\ x.dom = u.dom
      /\ x.docs = u.docs /\ x.shown = u.shown
  BY DEF UiStates
<1> HIDE DEF x
<1>10. CASE b = 0
  <2>1. v = x /\ v \in UiStates
    BY <1>6, <1>7, <1>10
  <2>2. \A d \in Dialogs : v.st[d] = IF d = b THEN "active" ELSE u.st[d]
    BY <2>1, <1>3, <1>9, <1>10
  <2>3. v.list = RemoveFirst(u.list, h)
    BY <2>1, <1>8 DEF list
  <2> QED BY <2>1, <2>2, <2>3, <1>8, <1>9 DEF Switched
<1>11. CASE b # 0
  <2>1. b \in Dialogs /\ x.st[b] # "none"
    BY <1>3, <1>9, <1>11
  <2>2. v \in UiStates /\ Marked(x, v, b, "active")
    BY <2>1, <1>3, <1>6, <1>7, <1>11, MarkedIs DEF Going
  <2>3. \A d \in Dialogs : v.st[d] = IF d = b THEN "active" ELSE u.st[d]
    BY <2>1, <2>2, <1>1, <1>9 DEF Marked
  <2>4. v.list = RemoveFirst(u.list, h)
    BY <2>2, <1>8 DEF list, Marked
  <2> QED BY <2>2, <2>3, <2>4, <1>8, <1>9 DEF Switched, Marked
<1> QED BY <1>10, <1>11

\* The innermost loop is taken off, and its dialog off the stack of dialogs.
Popped(u, v) ==
    /\ v.calls = Tail(u.calls) /\ v.top = Tail(u.top)
    /\ v.st = u.st /\ v.kind = u.kind /\ v.modal = u.modal /\ v.changed = u.changed
    /\ v.list = u.list /\ v.cur = u.cur /\ v.pending = u.pending /\ v.dropped = u.dropped
    /\ v.phase = u.phase /\ v.fault = u.fault /\ v.asked = u.asked /\ v.dom = u.dom
    /\ v.docs = u.docs /\ v.shown = u.shown

\* dlg_run returns.
LEMMA PoppedIs ==
    ASSUME NEW u \in UiStates, u.calls # <<>>, u.top # <<>>, NEW h, h = Head(u.top), NEW v,
           v = [[u EXCEPT !.calls = Tail(@)] EXCEPT !.top = RemoveFirst(@, h)]
    PROVE  v \in UiStates /\ Popped(u, v)
<1> DEFINE calls == Tail(u.calls)
           top == Tail(u.top)
           w == [u EXCEPT !.calls = calls]
<1>1. u.calls \in Seq(Entries) /\ u.top \in Seq(Dialogs)
  BY Fields
<1>2. calls \in Seq(Entries) /\ top \in Seq(Dialogs) /\ h = u.top[1]
  BY <1>1
<1>3. RemoveFirst(u.top, h) = top
  BY <1>1, <1>2, RemovingHead
<1> HIDE DEF calls, top
<1>4. w \in UiStates /\ w.top = u.top
  BY <1>2 DEF UiStates
<1>5. v = [w EXCEPT !.top = top]
  BY <1>3, <1>4 DEF calls
<1>6. v \in UiStates
  <2>1. ASSUME NEW y \in UiStates PROVE [y EXCEPT !.top = top] \in UiStates
    BY <1>2 DEF UiStates
  <2> HIDE DEF w
  <2> QED BY <2>1, <1>4, <1>5
<1>7. v.calls = calls /\ v.top = top
  BY <1>5 DEF UiStates
<1>8. /\ v.st = u.st /\ v.kind = u.kind /\ v.modal = u.modal /\ v.changed = u.changed
      /\ v.list = u.list /\ v.cur = u.cur /\ v.pending = u.pending /\ v.dropped = u.dropped
      /\ v.phase = u.phase /\ v.fault = u.fault /\ v.asked = u.asked /\ v.dom = u.dom
      /\ v.docs = u.docs /\ v.shown = u.shown
  BY <1>5 DEF UiStates
<1> QED BY <1>6, <1>7, <1>8 DEF Popped, calls, top

\* The loop of h, that ended.
LEMMA RunDoneIs ==
    ASSUME NEW u \in UiStates, u.calls # <<>>, u.top # <<>>, NEW h, h = Head(u.top),
           0 \notin Dialogs, h \in Dialogs, u.st[h] # "none"
    PROVE  \E w : /\ w \in UiStates /\ Popped(u, w)
                  /\ RunDone([u EXCEPT !.calls = Tail(@)], h) =
                        IF u.st[h] = "closed" /\ h \notin u.modal THEN SwitchRemove(w, h) ELSE w
<1> DEFINE c == [u EXCEPT !.calls = Tail(@)]
           w == [c EXCEPT !.top = RemoveFirst(@, h)]
<1>1. w \in UiStates /\ Popped(u, w)
  BY PoppedIs
<1>2. c.st = u.st
  BY DEF UiStates
<1>3. RunDone(c, h) = IF Followed(c, h) THEN [w EXCEPT !.fault = TRUE]
                      ELSE IF w.st[h] = "closed" /\ h \notin w.modal THEN SwitchRemove(w, h) ELSE w
  <2> HIDE DEF c
  <2> QED BY DEF RunDone
<1>4. ~Followed(c, h)
  <2> HIDE DEF c
  <2> QED BY <1>2 DEF Followed
<1>5. w.st = u.st /\ w.modal = u.modal
  BY <1>1 DEF Popped
<1> HIDE DEF w
<1>6. RunDone(c, h) = IF u.st[h] = "closed" /\ h \notin u.modal THEN SwitchRemove(w, h) ELSE w
  BY <1>3, <1>4, <1>5
<1> QED BY <1>1, <1>6

\* The phase is another.
LEMMA PhaseIs ==
    ASSUME NEW u \in UiStates, NEW p \in {"run", "shutdown", "ended"}, NEW v,
           v = [u EXCEPT !.phase = p]
    PROVE  /\ v \in UiStates /\ v.phase = p
           /\ v.st = u.st /\ v.kind = u.kind /\ v.modal = u.modal /\ v.changed = u.changed
           /\ v.top = u.top /\ v.calls = u.calls /\ v.list = u.list /\ v.cur = u.cur
           /\ v.pending = u.pending /\ v.dropped = u.dropped /\ v.fault = u.fault
           /\ v.asked = u.asked /\ v.dom = u.dom /\ v.docs = u.docs /\ v.shown = u.shown
<1>1. v \in UiStates
  BY DEF UiStates
<1> QED BY <1>1 DEF UiStates

\* What is next when a screen is closed at shutdown: the first of the others.
LEMMA NextScreen ==
    ASSUME ScreensConstants, NEW u \in UiStates, NEW h \in Listed(u), Distinct(u.list),
           NEW list, list = RemoveFirst(u.list, h),
           NEW b, b = IF list = <<>> THEN 0 ELSE Head(list)
    PROVE  /\ b \in {0} \cup (Listed(u) \ {h}) /\ Distinct(list)
           /\ ToSet(list) = Listed(u) \ {h} /\ (list # <<>> => b # 0)
<1>1. u.list \in Seq(Dialogs) /\ 0 \notin Dialogs
  BY Fields, PanelsAreFirst
<1>2. list \in Seq(Dialogs) /\ Distinct(list) /\ ToSet(list) = ToSet(u.list) \ {h}
  BY <1>1, RemovingOne DEF Listed
<1>3. ASSUME list # <<>> PROVE b \in ToSet(list) /\ b # 0
  <2>1. b = list[1] /\ 1 \in 1..Len(list)
    BY <1>2, <1>3
  <2>2. \A i \in 1..Len(list) : list[i] \in ToSet(list) /\ list[i] \in Dialogs
    BY <1>2, ToSetIn
  <2> QED BY <2>1, <2>2, <1>1
<1>4. list = <<>> => b = 0
  OBVIOUS
<1> QED BY <1>2, <1>3, <1>4 DEF Listed

\* The loop of the panels ends: shutdown begins.
LEMMA LeavePanelsIsRight ==
    ASSUME ScreensConstants, Right(ui), ui.phase = "run", Leave, Loop.dlg = Panels
    PROVE  Right(ui')
<1> DEFINE r == RunDone([ui EXCEPT !.calls = Tail(@)], Panels)
<1>1. ui.st[Panels] # "active" /\ ui' = After(r, Panels, Loop.by)
  BY DEF Leave
<1>2. Loop = ui.calls[1] /\ ui \in UiStates
  BY LoopFacts DEF Loop
<1>3. Alone(ui) /\ ~ui.pending /\ ui.cur = Panels /\ ui.st[Panels] = "closed" /\ ui.asked
  BY <1>1, <1>2, RightIsAlone
<1>4. Loop.by = "main" /\ Tail(ui.calls) = <<>> /\ ui.calls # <<>>
  BY <1>2, <1>3, OneLoop DEF Alone, Main
<1>5. ui.top # <<>> /\ Head(ui.top) = Panels /\ Tail(ui.top) = <<>>
  BY <1>3 DEF Alone
<1>6. Panels \in Dialogs /\ 0 \notin Dialogs /\ Panels # 0
  BY PanelsAreFirst
<1>7. PICK w : w \in UiStates /\ Popped(ui, w) /\ r = SwitchRemove(w, Panels)
  <2>1. Panels \notin ui.modal
    BY <1>3 DEF Alone
  <2> QED BY <2>1, <1>2, <1>3, <1>4, <1>5, <1>6, RunDoneIs
<1> HIDE DEF r
<1> DEFINE list == RemoveFirst(w.list, Panels)
           b == IF list = <<>> THEN 0 ELSE Head(list)
<1>8. /\ Listed(w) = Listed(ui) /\ Panels \in Listed(w) /\ Distinct(w.list) /\ w.cur # 0 /\ ~w.fault
      /\ \A d \in Listed(w) : w.st[d] # "none"
  <2>1. Listed(w) = Listed(ui) /\ w.list = ui.list
    BY <1>7 DEF Popped, Listed
  <2>2. Listed(ui) \in SUBSET Dialogs
    BY <1>2, ListedIn
  <2> QED BY <2>1, <2>2, <1>3, <1>6, <1>7 DEF Alone, Popped
<1>9. /\ b \in {0} \cup (Listed(w) \ {Panels}) /\ Distinct(list)
      /\ ToSet(list) = Listed(w) \ {Panels} /\ (list # <<>> => b # 0)
  BY <1>7, <1>8, NextScreen
<1>10. w.top = <<>>
  BY <1>5, <1>7 DEF Popped
<1>11. r \in UiStates /\ Switched(w, r, Panels, b)
  <2>1. w.top = <<>> /\ b = IF RemoveFirst(w.list, Panels) = <<>> THEN 0
                            ELSE Head(RemoveFirst(w.list, Panels))
    BY <1>10
  <2>2. r = SwitchRemove(w, Panels) /\ w \in UiStates
    BY <1>7
  <2> HIDE DEF b
  <2> QED BY <2>1, <2>2, <1>8, <1>9, SwitchedIs
<1> HIDE DEF b
<1>12. r.list = list
  BY <1>11 DEF Switched
<1> HIDE DEF list
<1>13. ui' = [r EXCEPT !.phase = "shutdown"]
  BY <1>1, <1>4 DEF After
<1>14. /\ ui' \in UiStates /\ ui'.phase = "shutdown"
       /\ ui'.st = r.st /\ ui'.kind = r.kind /\ ui'.modal = r.modal /\ ui'.changed = r.changed
       /\ ui'.top = r.top /\ ui'.calls = r.calls /\ ui'.list = r.list /\ ui'.cur = r.cur
       /\ ui'.pending = r.pending /\ ui'.dropped = r.dropped /\ ui'.fault = r.fault
       /\ ui'.asked = r.asked /\ ui'.dom = r.dom
  BY <1>11, <1>13, PhaseIs
<1>15. /\ ui'.calls = <<>> /\ ui'.top = <<>> /\ ui'.modal = {} /\ ui'.dom = 0 /\ ~ui'.pending
       /\ ui'.asked /\ ~ui'.fault /\ ui'.kind = ui.kind /\ ui'.changed = ui.changed
       /\ ui'.dropped = ui.dropped /\ ui'.list = list /\ ui'.cur = b
       /\ \A d \in Dialogs : ui'.st[d] = IF d = b THEN "active" ELSE ui.st[d]
  BY <1>3, <1>4, <1>7, <1>10, <1>11, <1>12, <1>14 DEF Alone, Popped, Switched
<1>16. Listed(ui') = Listed(ui) \ {Panels} /\ Listed(ui) \in SUBSET Dialogs
       /\ ui.changed \in SUBSET Dialogs
  BY <1>2, <1>8, <1>9, <1>15, ListedIn, Fields DEF Listed
<1>17. ui'.changed \subseteq Listed(ui')
  <2>1. \A d \in ui.changed : d \in Listed(ui) /\ d # Panels
    BY <1>3, <1>6, <1>16 DEF Alone, Texts
  <2> QED BY <2>1, <1>15, <1>16
<1>18. \A d \in Dialogs : ui'.st[d] # "none" <=> d \in Listed(ui') \/ d = Panels
  <2>1. b \in Listed(ui') \/ b = 0
    BY <1>8, <1>9, <1>16
  <2> QED BY <2>1, <1>3, <1>6, <1>15, <1>16 DEF Alone
<1>19. \A d \in Listed(ui') : ui'.st[d] \in {"active", "suspended"} /\ ui'.kind[d] \in Texts
  BY <1>3, <1>15, <1>16 DEF Alone
<1>20. Stopped(ui')
  BY <1>9, <1>14, <1>15, <1>16, <1>17, <1>18, <1>19 DEF Stopped
<1>21. Dropped(ui')
  BY <1>3, <1>15 DEF Alone, Dropped
<1> QED BY <1>14, <1>15, <1>20, <1>21 DEF Right

\* A modal loop is no screen, and is not left.
LEMMA ModalLoop ==
    ASSUME ScreensConstants, NEW u, Right(u), u.phase = "run", NEW h, h = u.calls[1].dlg,
           h \in u.modal
    PROVE  h # Panels /\ Lies(u, 1) /\ h \notin Listed(u) /\ ~Left(u)
<1> DEFINE n == Len(u.calls)
<1>1. Nested(u) /\ Placed(u) /\ Current(u)
  BY LoopFacts
<1>2. n \in Nat /\ n >= 1 /\ DOMAIN u.calls = 1..n
  BY LoopFacts
<1>3. h # Panels /\ Lies(u, 1) /\ n > 1
  <2>1. h # Panels
    BY <1>1 DEF Nested
  <2> QED BY <2>1, TopKind
<1>m. n \in Nat /\ n > 1
  BY <1>2, <1>3
<1>4. u.calls[n].dlg = Panels
  BY <1>1 DEF Nested, Top
<1>5. \A i, j \in 1..n : u.calls[i].dlg = u.calls[j].dlg => i = j
  BY <1>1, <1>2 DEF Nested
<1> HIDE DEF n
<1>6. 2 \in 1..n /\ n \in 1..n
  BY <1>m
<1>7. h \notin Listed(u)
  <2>1. CASE h \in Listed(u)
    <3>1. OnPanels(u, u.calls[1]) /\ u.calls[2].dlg = Panels
      BY <2>1, <1>3 DEF Lies, Boxed, OnBox, OnDiff
    <3>2. n = 2
      BY <3>1, <1>4, <1>5, <1>6
    <3>3. PICK i \in 1..n : u.calls[i].by = "diff"
      BY <2>1, <1>1, <1>2 DEF Nested
    <3>4. i = 1 \/ i = n
      BY <3>2, <1>m
    <3>5. u.calls[n].by = "main" /\ u.calls[1].by # "diff"
      BY <3>1, <1>1 DEF OnPanels, Nested, Top, n
    <3> QED BY <3>3, <3>4, <3>5
  <2> QED BY <2>1
<1>8. ~Left(u)
  <2>1. CASE Left(u)
    <3>1. n = 2 /\ u.calls[1].by \in {"panels", "pending"}
      BY <2>1, <1>1 DEF Current, Top, n
    <3>2. u.calls[2].dlg = Panels
      BY <3>1, <1>4
    <3>3. u.kind[Panels] = "panels"
      BY <1>1, PanelsAreFirst DEF Placed
    <3> QED BY <3>1, <3>2, <3>3, <1>3, <1>7 DEF Lies, Boxed, OnPanels, OnBox, OnDiff
  <2> QED BY <2>1
<1> QED BY <1>3, <1>7, <1>8

\* The innermost loop came back, its dialog, which was modal, is freed, and X are not modal
\* any more.
Unstacked(u, v, h, X) ==
    /\ v.calls = Tail(u.calls) /\ v.top = Tail(u.top)
    /\ v.st = [u.st EXCEPT ![h] = "none"] /\ v.kind = [u.kind EXCEPT ![h] = ""]
    /\ v.modal = u.modal \ X /\ v.changed = u.changed
    /\ v.list = u.list /\ v.cur = u.cur /\ v.pending = u.pending /\ v.dropped = u.dropped
    /\ v.phase = u.phase /\ v.fault = u.fault /\ v.docs = u.docs /\ v.shown = u.shown
    /\ v.dom = IF u.dom = h THEN 0 ELSE u.dom

\* A modal loop that ended leaves the others as they were.
LEMMA UnstackedIsRight ==
    ASSUME ScreensConstants, NEW u, Right(u), u.phase = "run", NEW h, h = u.calls[1].dlg,
           h \in u.modal, u.st[h] # "active", NEW X,
           X = IF u.calls[1].by = "diff" THEN {h, u.calls[2].dlg} ELSE {h},
           NEW v, v \in UiStates, Unstacked(u, v, h, X)
    PROVE  Right(v)
<1> DEFINE n == Len(u.calls)
<1>1. /\ u \in UiStates /\ ~u.fault /\ Dropped(u)
      /\ Nested(u) /\ Placed(u) /\ Still(u) /\ Current(u) /\ Watched(u)
  BY LoopFacts
<1>2. /\ n \in Nat /\ n >= 1 /\ DOMAIN u.calls = 1..n /\ u.calls \in Seq(Entries)
      /\ \A i \in 1..n : u.calls[i].dlg \in Dialogs /\ u.calls[i].dlg \in Loops(u)
      /\ Listed(u) \in SUBSET Dialogs /\ Loops(u) \in SUBSET Dialogs
  BY LoopFacts
<1>3. h # Panels /\ Lies(u, 1) /\ n > 1
  <2>1. h # Panels
    BY <1>1 DEF Nested
  <2> QED BY <2>1, TopKind
<1>m. n \in Nat /\ n > 1
  BY <1>2, <1>3
<1>4. u.calls[n].dlg = Panels /\ \A i \in 1..(n - 1) : Lies(u, i)
  BY <1>1 DEF Nested, Top
<1>5. \A i, j \in 1..n : u.calls[i].dlg = u.calls[j].dlg => i = j
  BY <1>1, <1>2 DEF Nested
<1> HIDE DEF n
<1>6. 1 \in 1..n /\ 2 \in 1..n /\ n \in 1..n /\ h \in Dialogs /\ h \in Loops(u)
  <2>1. 1 \in 1..n /\ 2 \in 1..n /\ n \in 1..n
    BY <1>m
  <2> QED BY <2>1, <1>2
<1>7. h \notin Listed(u) /\ ~Left(u)
  BY ModalLoop
<1>9. h \notin u.changed /\ u.st[h] \notin {"active", "suspended"}
  <2>1. u.st[h] # "suspended"
    BY <1>3, <1>7 DEF Left
  <2> QED BY <2>1, <1>1 DEF Watched
<1>10. /\ v.calls \in Seq(Entries) /\ Len(v.calls) = n - 1 /\ DOMAIN v.calls = 1..(n - 1)
       /\ \A i \in 1..(n - 1) : v.calls[i] = u.calls[i + 1] /\ i + 1 \in 2..n
       /\ Loops(v) = Loops(u) \ {h}
  <2>1. u.calls # <<>> /\ \A i, j \in DOMAIN u.calls : u.calls[i].dlg = u.calls[j].dlg => i = j
    BY <1>1 DEF Nested
  <2>2. /\ v.calls \in Seq(Entries) /\ Len(v.calls) = Len(u.calls) - 1
        /\ \A i \in 1..Len(v.calls) : v.calls[i] = u.calls[i + 1] /\ i + 1 \in 2..Len(u.calls)
        /\ Loops(v) = Loops(u) \ {u.calls[1].dlg}
    <3>1. v.calls = Tail(u.calls)
      BY DEF Unstacked
    <3> QED BY <2>1, <3>1, <1>2, LoopsPopped
  <2>3. DOMAIN v.calls = 1..Len(v.calls)
    BY <2>2, ToSetIn
  <2> QED BY <2>2, <2>3 DEF n
<1>11. /\ v.st[h] = "none" /\ v.kind[h] = ""
       /\ \A d \in Dialogs \ {h} : v.st[d] = u.st[d] /\ v.kind[d] = u.kind[d]
  <2>1. u.st \in [Dialogs -> Going] /\ u.kind \in [Dialogs -> Kinds \cup {"", "panels"}]
    BY <1>1, Fields
  <2> QED BY <2>1, <1>6 DEF Unstacked
<1>12. Listed(v) = Listed(u) /\ v.list = u.list /\ v.modal = u.modal \ X /\ v.changed = u.changed
  BY DEF Unstacked, Listed
<1>13. \A i \in 2..n : u.calls[i].dlg # h /\ i \in 1..n
  <2>1. \A i \in 2..n : i \in 1..n /\ i # 1
    OBVIOUS
  <2> QED BY <2>1, <1>5, <1>6
<1>14. ASSUME u.calls[1].by = "diff"
       PROVE  n = 3 /\ u.calls[2].dlg \in Listed(u) /\ u.modal \subseteq {h, u.calls[2].dlg}
  <2>1. u.kind[u.calls[2].dlg] = "diff"
    BY <1>3, <1>14 DEF Lies, Boxed, OnPanels, OnBox, OnDiff
  <2>2. n # 2
    <3>1. u.kind[Panels] = "panels"
      BY <1>1, PanelsAreFirst DEF Placed
    <3> QED BY <2>1, <3>1, <1>4
  <2>3. 2 \in 1..(n - 1) /\ 3 \in 1..n
    BY <2>2, <1>m
  <2>4. Lies(u, 2)
    BY <2>3, <1>4
  <2>5. OnPanels(u, u.calls[2]) /\ u.calls[3].dlg = Panels
    BY <2>1, <2>4 DEF Lies, Boxed, OnBox, OnDiff
  <2>6. n = 3
    BY <2>3, <2>5, <1>4, <1>5, <1>6
  <2>7. \A d \in Loops(u) \ {Panels} : d = h \/ d = u.calls[2].dlg
    <3>1. \A i \in 1..n : i = 1 \/ i = 2 \/ i = n
      BY <2>6
    <3> QED BY <3>1, <1>2, <1>4 DEF Loops
  <2> QED BY <2>5, <2>6, <2>7, <1>1 DEF OnPanels, Nested
<1>15. ASSUME NEW i \in 1..((n - 1) - 1) PROVE Lies(v, i)
  <2>1. /\ i \in 1..(n - 1) /\ i + 1 \in 1..(n - 1) /\ (i + 1) + 1 \in 2..n /\ i + 1 \in 2..n
        /\ (i + 1) + 1 \in 1..n /\ i + 1 # 1 /\ (i + 1) + 1 # 2
    BY <1>m
  <2>2. v.calls[i] = u.calls[i + 1] /\ v.calls[i + 1] = u.calls[(i + 1) + 1]
    BY <2>1, <1>10
  <2>3. Lies(u, i + 1)
    BY <2>1, <1>4
  <2> DEFINE e == u.calls[i + 1].dlg
             f == u.calls[(i + 1) + 1].dlg
  <2>4. e # h /\ f # h /\ e \in Dialogs /\ f \in Dialogs
    BY <2>1, <1>2, <1>13
  <2>5. v.kind[e] = u.kind[e] /\ v.kind[f] = u.kind[f]
    BY <2>4, <1>11
  <2>6. CASE u.calls[1].by = "diff"
    <3>1. n = 3 /\ u.calls[2].dlg \in Listed(u)
      BY <2>6, <1>14
    <3>2. i + 1 = 2
      BY <3>1
    <3>3. OnPanels(u, u.calls[i + 1]) /\ f = Panels
      BY <3>1, <3>2, <2>3 DEF Lies, Boxed, OnBox, OnDiff
    <3> QED BY <3>3, <2>2, <2>5, <1>12 DEF Lies, OnPanels
  <2>7. CASE u.calls[1].by # "diff"
    <3>1. X = {h}
      BY <2>7
    <3>2. (e \in v.modal <=> e \in u.modal) /\ (f \in v.modal <=> f \in u.modal)
      BY <3>1, <2>4, <1>12
    <3>3. (i + 1) + 2 = Top(u) => i + 2 = Top(v)
      BY <1>m, <1>10 DEF Top, n
    <3> QED BY <3>2, <3>3, <2>2, <2>3, <2>5, <1>12
            DEF Lies, Boxed, OnPanels, OnBox, OnDiff
  <2> QED BY <2>6, <2>7
<1>16. Nested(v)
  <2>1. v.calls # <<>> /\ Top(v) = n - 1 /\ n - 1 \in 1..(n - 1)
    BY <1>m, <1>10 DEF Top
  <2>2. v.calls[n - 1] = [dlg |-> Panels, by |-> "main"]
    <3>1. v.calls[n - 1] = u.calls[(n - 1) + 1] /\ (n - 1) + 1 = n
      BY <2>1, <1>m, <1>10
    <3> QED BY <3>1, <1>1 DEF Nested, Top, n
  <2>3. ASSUME NEW i \in 1..(n - 1), NEW j \in 1..(n - 1), v.calls[i].dlg = v.calls[j].dlg
        PROVE  i = j
    <3>1. /\ i + 1 \in 1..n /\ j + 1 \in 1..n
          /\ v.calls[i] = u.calls[i + 1] /\ v.calls[j] = u.calls[j + 1]
      BY <1>10, <1>13
    <3>2. i + 1 = j + 1
      BY <3>1, <2>3, <1>5
    <3> QED BY <3>2
  <2>4. Len(v.top) = n - 1 /\ \A i \in 1..(n - 1) : v.top[i] = v.calls[i].dlg
    <3>1. /\ u.top \in Seq(Dialogs) /\ Len(u.top) = n /\ \A i \in 1..n : u.top[i] = u.calls[i].dlg
          /\ u.top # <<>> /\ v.top = Tail(u.top)
      BY <1>1, LoopFacts, Fields DEF Nested, Top, n, Unstacked
    <3>2. Len(v.top) = n - 1 /\ \A i \in 1..(n - 1) : v.top[i] = u.top[i + 1]
      BY <3>1, Popping
    <3> QED BY <3>1, <3>2, <1>10, <1>13
  <2>5. v.modal \subseteq Loops(v) \ {Panels}
    <3>1. u.modal \subseteq Loops(u) \ {Panels} /\ h \in X
      BY <1>1 DEF Nested
    <3> QED BY <3>1, <1>10, <1>12
  <2>6. ASSUME NEW d \in v.modal \cap Listed(v) PROVE \E i \in 1..(n - 1) : v.calls[i].by = "diff"
    <3>1. u.calls[1].by # "diff"
      BY <2>6, <1>12, <1>14
    <3>2. PICK j \in 1..n : u.calls[j].by = "diff"
      BY <2>6, <1>1, <1>2, <1>12 DEF Nested
    <3>3. j # 1
      BY <3>1, <3>2
    <3>4. j - 1 \in 1..(n - 1) /\ (j - 1) + 1 = j
      BY <3>3, <1>m
    <3>5. v.calls[j - 1] = u.calls[j]
      BY <3>4, <1>10
    <3> QED BY <3>2, <3>4, <3>5
  <2> QED BY <2>1, <2>2, <2>3, <2>4, <2>5, <2>6, <1>10, <1>15 DEF Nested
<1>17. Shown(v) = Shown(u)
  <2>1. CASE n = 2
    <3>1. Shown(u) = Panels
      BY <2>1, <1>7 DEF Shown, Top, n
    <3>2. Shown(v) = Panels
      BY <2>1, <1>10 DEF Shown, Top
    <3> QED BY <3>1, <3>2
  <2>2. CASE n > 2
    <3>1. n - 1 > 1 /\ (n - 1) - 1 \in 1..(n - 1) /\ ((n - 1) - 1) + 1 = n - 1
      BY <2>2, <1>m
    <3>2. v.calls[(n - 1) - 1] = u.calls[n - 1]
      BY <3>1, <1>10
    <3> QED BY <3>1, <3>2, <1>3, <1>10, <1>12 DEF Shown, Top, n
  <2>3. n = 2 \/ n > 2
    BY <1>m
  <2> QED BY <2>1, <2>2, <2>3
<1>l. Loops(v) = Loops(u) \ {h} /\ Listed(v) = Listed(u)
  BY <1>10, <1>12
<1>18. Placed(v)
  <2>1. ASSUME NEW d \in Dialogs PROVE v.st[d] # "none" <=> d \in Loops(v) \cup Listed(v)
    <3>1. CASE d = h
      BY <3>1, <1>7, <1>11, <1>l
    <3>2. CASE d # h
      <4>1. v.st[d] = u.st[d]
        BY <3>2, <1>11
      <4>2. u.st[d] # "none" <=> d \in Loops(u) \cup Listed(u)
        BY <1>1 DEF Placed
      <4> QED BY <3>2, <4>1, <4>2, <1>l
    <3> QED BY <3>1, <3>2
  <2>2. \A d \in Dialogs : v.st[d] # "construct" /\ (v.kind[d] = "panels" <=> d = Panels)
    BY <1>1, <1>3, <1>11 DEF Placed
  <2>3. 0 \notin Dialogs /\ v.dom = IF u.dom = h THEN 0 ELSE u.dom
    BY PanelsAreFirst DEF Unstacked
  <2>4. ASSUME NEW d \in Dialogs PROVE v.kind[d] = "dom" <=> d = v.dom
    <3>1. CASE d = h
      BY <2>3, <3>1, <1>11
    <3>2. CASE d # h
      <4>1. v.kind[d] = u.kind[d]
        BY <3>2, <1>11
      <4>2. u.kind[d] = "dom" <=> d = u.dom
        BY <1>1 DEF Placed
      <4> QED BY <2>3, <3>2, <4>1, <4>2
    <3> QED BY <3>1, <3>2
  <2>5. v.dom # 0 => v.dom \in Loops(v)
    BY <2>3, <1>1, <1>10 DEF Placed
  <2> QED BY <2>1, <2>2, <2>4, <2>5, <1>1, <1>12 DEF Placed
<1>19. Still(v)
  <2>1. \A d \in Loops(v) \ {Panels} : v.st[d] = "active"
    BY <1>1, <1>2, <1>10, <1>11 DEF Still
  <2>2. ASSUME NEW d \in Listed(v) \ Loops(v)
        PROVE  v.st[d] = "suspended" /\ v.kind[d] \in Texts
    <3>1. d \in Listed(u) \ Loops(u) /\ d # h /\ d \in Dialogs
      BY <1>2, <1>7, <1>l
    <3>2. v.st[d] = u.st[d] /\ v.kind[d] = u.kind[d]
      BY <3>1, <1>11
    <3> QED BY <3>1, <3>2, <1>1 DEF Still
  <2>3. v.st[Panels] = u.st[Panels]
    BY <1>3, <1>11, PanelsAreFirst
  <2>4. u.st[Panels] # "closed"
    BY <1>1, <1>3 DEF Still, Top, n
  <2> QED BY <2>1, <2>2, <2>3, <2>4, <1>1, <1>17 DEF Still
<1>20. Current(v)
  <2>1. ~Left(v)
    <3>1. v.calls[1].dlg \in Loops(v)
      <4>1. 1 \in 1..(n - 1)
        BY <1>m
      <4> QED BY <4>1, <1>10 DEF Loops
    <3>2. \A d \in Loops(v) \ {Panels} : v.st[d] = "active"
      BY <1>1, <1>2, <1>10, <1>11 DEF Still
    <3> QED BY <3>1, <3>2 DEF Left
  <2>2. v.pending = u.pending /\ v.cur = u.cur
    BY DEF Unstacked
  <2> QED BY <2>1, <2>2, <1>1, <1>7, <1>17 DEF Current
<1>21. Watched(v)
  <2>1. \A d \in v.changed : v.st[d] \in {"active", "suspended"} /\ v.kind[d] \in Texts
    <3>1. u.changed \subseteq Dialogs \ {h}
      BY <1>1, <1>9, Fields
    <3> QED BY <3>1, <1>1, <1>11, <1>12 DEF Watched
  <2>2. v.docs = u.docs /\ v.shown = u.shown /\ v.dom = IF u.dom = h THEN 0 ELSE u.dom
    BY DEF Unstacked
  <2>3. u.dom # 0 => u.dom \in Dialogs
    BY <1>1, <1>2 DEF Placed
  <2> QED BY <2>1, <2>2, <2>3, <1>1, <1>6, <1>9, <1>11 DEF Watched
<1>22. ~v.fault /\ Dropped(v) /\ v.phase = "run"
  BY <1>1 DEF Dropped, Unstacked
<1> QED BY <1>16, <1>18, <1>19, <1>20, <1>21, <1>22 DEF Right

\* A box, an editor of a diff viewer, or a screen over a box is left.
LEMMA LeaveModalIsRight ==
    ASSUME ScreensConstants, Right(ui), ui.phase = "run", Leave, Loop.dlg \in ui.modal
    PROVE  Right(ui')
<1> DEFINE h == Loop.dlg
           by == Loop.by
           r == RunDone([ui EXCEPT !.calls = Tail(@)], h)
<1>1. ui.st[h] # "active" /\ ui' = After(r, h, by)
  BY DEF Leave
<1>2. /\ Loop = ui.calls[1] /\ h = ui.calls[1].dlg /\ by = ui.calls[1].by
      /\ ui \in UiStates /\ Watched(ui) /\ Placed(ui) /\ Current(ui) /\ ~ui.fault
      /\ ui.calls # <<>> /\ ui.top # <<>> /\ Head(ui.top) = h /\ ui.calls \in Seq(Entries)
  BY LoopFacts DEF Loop, Nested
<1>3. h \in Dialogs /\ ui.st[h] # "none" /\ 0 \notin Dialogs
  <2>1. Len(ui.calls) \in Nat /\ Len(ui.calls) >= 1
    BY LoopFacts
  <2>2. h \in Dialogs /\ h \in Loops(ui)
    BY <2>1, <1>2, LoopFacts
  <2> QED BY <2>2, LoopFacts, PanelsAreFirst
<1>4. h # Panels /\ Lies(ui, 1) /\ h \notin Listed(ui) /\ ~Left(ui)
  BY <1>2, ModalLoop
<1>5. ui.st[h] = "closed" /\ h \notin ui.changed /\ ~ui.pending
  <2>1. ui.st \in [Dialogs -> Going]
    BY <1>2, Fields
  <2>2. ui.st[h] # "suspended" /\ ui.st[h] # "construct" /\ ~ui.pending
    BY <1>2, <1>3, <1>4 DEF Left, Placed, Current
  <2> QED BY <2>1, <2>2, <1>1, <1>2, <1>3 DEF Going, Watched
<1>6. PICK w : w \in UiStates /\ Popped(ui, w) /\ r = w
  BY <1>2, <1>3, RunDoneIs
<1> HIDE DEF r
<1> DEFINE x == Destroy(w, h)
<1>7. x \in UiStates /\ Destroyed(w, x, h)
  BY <1>3, <1>5, <1>6, DestroyedIs DEF Popped
<1>8. DestroyClosed(w, h) = x
  BY <1>5, <1>6 DEF DestroyClosed, Popped
<1>9. ~x.pending /\ x.dom = ui.dom
  BY <1>5, <1>6, <1>7 DEF Destroyed, Popped
<1> HIDE DEF x
<1>10. /\ x.calls = Tail(ui.calls) /\ x.top = Tail(ui.top)
       /\ x.st = [ui.st EXCEPT ![h] = "none"] /\ x.kind = [ui.kind EXCEPT ![h] = ""]
       /\ x.modal = ui.modal \ {h} /\ x.changed = ui.changed
       /\ x.list = ui.list /\ x.cur = ui.cur /\ x.pending = ui.pending /\ x.dropped = ui.dropped
       /\ x.phase = ui.phase /\ x.fault = ui.fault /\ x.docs = ui.docs /\ x.shown = ui.shown
       /\ x.dom = ui.dom
  BY <1>6, <1>7 DEF Destroyed, Popped
<1>11. ProcessPending(x) = x
  BY <1>9 DEF ProcessPending
<1> HIDE DEF h, by
<1>12. CASE by = "box" \/ (by = "panels" /\ ui.kind[h] # "dom")
  <2>1. ui' = x
    BY <1>1, <1>6, <1>8, <1>11, <1>12 DEF After, AfterScreen, x
  <2>2. ui.dom # h
    BY <1>2, <1>3, <1>4, <1>12 DEF Lies, Boxed, OnPanels, OnBox, OnDiff, Placed
  <2>3. Unstacked(ui, x, h, {h})
    BY <2>2, <1>10 DEF Unstacked
  <2>4. {h} = IF ui.calls[1].by = "diff" THEN {h, ui.calls[2].dlg} ELSE {h}
    BY <1>2, <1>12
  <2>5. h \in ui.modal
    BY DEF h
  <2> QED BY <2>1, <2>3, <2>4, <2>5, <1>1, <1>2, <1>7, UnstackedIsRight
<1>13. CASE by = "html"
  <2> DEFINE y == [x EXCEPT !.dom = 0]
  <2>1. ui.dom = h /\ w.dom = h /\ h # 0
    BY <1>2, <1>3, <1>4, <1>6, <1>13 DEF Lies, Boxed, OnPanels, OnBox, OnDiff, Placed, Popped
  <2>2. AfterDom(w) = y
    BY <2>1, <1>3, <1>5, <1>6 DEF AfterDom, Followed, Popped, x
  <2>3. y \in UiStates /\ y.dom = 0
    <3>1. 0 \in 0..MaxDialogs
      BY DEF ScreensConstants
    <3> QED BY <3>1, <1>7 DEF UiStates
  <2>4. /\ y.calls = x.calls /\ y.top = x.top /\ y.st = x.st /\ y.kind = x.kind
        /\ y.modal = x.modal /\ y.changed = x.changed /\ y.list = x.list /\ y.cur = x.cur
        /\ y.pending = x.pending /\ y.dropped = x.dropped /\ y.phase = x.phase
        /\ y.fault = x.fault /\ y.docs = x.docs /\ y.shown = x.shown
    BY <1>7 DEF UiStates
  <2> HIDE DEF y
  <2>5. ui' = y
    BY <2>2, <2>4, <1>1, <1>6, <1>9, <1>13 DEF After, ProcessPending
  <2>6. Unstacked(ui, y, h, {h})
    BY <2>1, <2>3, <2>4, <1>10 DEF Unstacked
  <2>7. {h} = IF ui.calls[1].by = "diff" THEN {h, ui.calls[2].dlg} ELSE {h}
    BY <1>2, <1>13
  <2>8. h \in ui.modal
    BY DEF h
  <2> QED BY <2>3, <2>5, <2>6, <2>7, <2>8, <1>1, <1>2, UnstackedIsRight
<1>14. CASE by = "diff"
  <2> DEFINE f == ui.calls[2].dlg
             modal == x.modal \ {f}
             y == [x EXCEPT !.modal = modal]
  <2>1. w.calls[1].dlg = f
    <3>1. Len(ui.calls) > 1 /\ w.calls = Tail(ui.calls)
      BY <1>2, <1>4, <1>6, TopKind DEF Popped
    <3>2. 1 \in 1..Len(w.calls) /\ w.calls[1] = ui.calls[1 + 1]
      BY <3>1, <1>2, Popping
    <3> QED BY <3>2
  <2>2. ui' = y
    BY <2>1, <1>1, <1>6, <1>8, <1>11, <1>14 DEF After, AfterDiff, AfterScreen
  <2>3. modal \in SUBSET Dialogs /\ modal = ui.modal \ {h, f}
    BY <1>7, <1>10, Fields
  <2> HIDE DEF modal, f
  <2>4. y \in UiStates /\ y.modal = modal
    BY <2>3, <1>7 DEF UiStates
  <2>5. /\ y.calls = x.calls /\ y.top = x.top /\ y.st = x.st /\ y.kind = x.kind
        /\ y.dom = x.dom /\ y.changed = x.changed /\ y.list = x.list /\ y.cur = x.cur
        /\ y.pending = x.pending /\ y.dropped = x.dropped /\ y.phase = x.phase
        /\ y.fault = x.fault /\ y.docs = x.docs /\ y.shown = x.shown
    BY <1>7 DEF UiStates
  <2> HIDE DEF y
  <2>6. ui.dom # h
    BY <1>2, <1>3, <1>4, <1>14 DEF Lies, Boxed, OnPanels, OnBox, OnDiff, Placed
  <2>7. Unstacked(ui, y, h, {h, f})
    BY <2>3, <2>4, <2>5, <2>6, <1>10 DEF Unstacked
  <2>8. {h, f} = IF ui.calls[1].by = "diff" THEN {h, ui.calls[2].dlg} ELSE {h}
    BY <1>2, <1>14 DEF f
  <2>9. h \in ui.modal
    BY DEF h
  <2> QED BY <2>2, <2>4, <2>7, <2>8, <2>9, <1>1, <1>2, UnstackedIsRight
<1> QED BY <1>2, <1>4, <1>12, <1>13, <1>14 DEF Lies, Boxed, OnPanels, OnBox, OnDiff

\* A screen that was closed is gone, and the panels are there again.
Gone(u, v, h) ==
    /\ v.calls = Tail(u.calls) /\ v.top = Tail(u.top)
    /\ \A d \in Dialogs : v.st[d] = IF d = h THEN "none"
                                    ELSE IF d = Panels THEN "active" ELSE u.st[d]
    /\ v.kind = [u.kind EXCEPT ![h] = ""] /\ v.modal = u.modal \ {h}
    /\ v.changed = u.changed /\ v.list = RemoveFirst(u.list, h) /\ v.cur = Panels
    /\ v.pending = u.pending /\ v.dropped = u.dropped /\ v.phase = u.phase
    /\ v.fault = u.fault /\ v.docs = u.docs /\ v.dom = 0

\* The panels are alone then.
LEMMA GoneIsRight ==
    ASSUME ScreensConstants, NEW u, NEW h, NEW by, OnScreen(u, h, by), u.st[h] = "closed",
           NEW v \in UiStates, Gone(u, v, h)
    PROVE  Right(v)
<1>1. /\ u \in UiStates /\ ~u.fault /\ Dropped(u) /\ u.phase = "run"
      /\ u.calls = <<[dlg |-> h, by |-> by], Main>> /\ u.top = <<h, Panels>> /\ u.modal = {}
      /\ Distinct(u.list) /\ Panels \in Listed(u) /\ h \in Listed(u) /\ h # Panels
      /\ \A d \in Dialogs : u.st[d] # "none" <=> d \in Listed(u)
      /\ \A d \in Dialogs : u.kind[d] = "panels" <=> d = Panels
      /\ \A d \in Dialogs : u.kind[d] = "dom" <=> d = u.dom
      /\ \A d \in Listed(u) \ {Panels, h} : u.st[d] = "suspended" /\ u.kind[d] \in Texts
      /\ \A d \in u.changed : u.st[d] \in {"active", "suspended"} /\ u.kind[d] \in Texts
      /\ ~u.pending
  BY DEF OnScreen
<1>2. /\ u.list \in Seq(Dialogs) /\ Listed(u) \in SUBSET Dialogs /\ u.changed \in SUBSET Dialogs
      /\ u.kind \in [Dialogs -> Kinds \cup {"", "panels"}]
  BY <1>1, ListedIn, Fields
<1>3. h \in Dialogs /\ Panels \in Dialogs /\ 0 \notin Dialogs
  BY <1>1, <1>2, PanelsAreFirst
<1>4. Distinct(v.list) /\ Listed(v) = Listed(u) \ {h}
  <2>1. /\ v.list = RemoveFirst(u.list, h) /\ h \in ToSet(u.list)
        /\ u.list \in Seq(Dialogs) /\ Distinct(u.list)
    BY <1>1, <1>2 DEF Gone, Listed
  <2>2. Distinct(v.list) /\ ToSet(v.list) = ToSet(u.list) \ {h}
    BY <2>1, RemovingOne
  <2> QED BY <2>2 DEF Listed
<1>5. v.calls = <<Main>> /\ v.top = <<Panels>>
  <2>1. Tail(u.calls) = <<Main>>
    BY <1>1, TwoLoops
  <2>2. Tail(u.top) = <<Panels>>
    BY <1>1
  <2> QED BY <2>1, <2>2 DEF Gone
<1>6. /\ v.st[h] = "none" /\ v.st[Panels] = "active" /\ v.kind[h] = ""
      /\ \A d \in Dialogs \ {h} : v.kind[d] = u.kind[d]
      /\ \A d \in Dialogs \ {h, Panels} : v.st[d] = u.st[d]
  BY <1>1, <1>2, <1>3 DEF Gone
<1>7. ASSUME NEW d \in Dialogs
      PROVE  /\ v.st[d] # "none" <=> d \in Listed(v)
             /\ v.kind[d] = "panels" <=> d = Panels
             /\ v.kind[d] # "dom"
  <2>1. CASE d = h
    BY <2>1, <1>1, <1>4, <1>6
  <2>2. CASE d = Panels
    BY <2>2, <1>1, <1>3, <1>4, <1>6
  <2>3. CASE d # h /\ d # Panels
    <3>1. v.st[d] = u.st[d] /\ v.kind[d] = u.kind[d]
      BY <2>3, <1>6
    <3>2. d # u.dom
      BY <2>3, <1>3 DEF OnScreen
    <3> QED BY <2>3, <3>1, <3>2, <1>1, <1>4
  <2> QED BY <2>1, <2>2, <2>3
<1>8. \A d \in Listed(v) \ {Panels} : v.st[d] = "suspended" /\ v.kind[d] \in Texts
  BY <1>1, <1>2, <1>4, <1>6
<1>9. \A d \in v.changed : v.st[d] \in {"active", "suspended"} /\ v.kind[d] \in Texts
  <2>1. \A d \in u.changed : d \in Dialogs /\ d # h /\ d # Panels
    BY <1>1, <1>2, <1>3 DEF Texts
  <2>2. v.changed = u.changed
    BY DEF Gone
  <2> QED BY <2>1, <2>2, <1>1, <1>6
<1>10. "file" \notin v.docs
  BY DEF OnScreen, Gone
<1>11. ~v.fault /\ Dropped(v) /\ v.phase = "run" /\ v.modal = {} /\ v.dom = 0 /\ v.cur = Panels
       /\ ~v.pending
  BY <1>1 DEF Gone, Dropped
<1>12. Alone(v)
  BY <1>1, <1>4, <1>5, <1>6, <1>7, <1>8, <1>9, <1>10, <1>11 DEF Alone
<1> QED BY <1>6, <1>11, <1>12, AloneIsRight

\* A screen is left: closed, or for another one, which the caller then runs.
LEMMA LeaveScreenIsRight ==
    ASSUME ScreensConstants, Right(ui), ui.phase = "run", Leave,
           Loop.dlg # Panels, Loop.dlg \notin ui.modal
    PROVE  Right(ui')
<1> DEFINE h == Loop.dlg
           by == Loop.by
           r == RunDone([ui EXCEPT !.calls = Tail(@)], h)
<1>1. ui.st[h] # "active" /\ ui' = After(r, h, by) /\ h # Panels /\ h \notin ui.modal
  BY DEF Leave
<1>2. /\ h = ui.calls[1].dlg /\ by = ui.calls[1].by
      /\ ui \in UiStates /\ ~ui.fault /\ ui.st \in [Dialogs -> Going]
      /\ ui.calls # <<>> /\ ui.top # <<>> /\ Head(ui.top) = h
  BY LoopFacts, Fields DEF Loop, Nested
<1> HIDE DEF by
<1>3. OnScreen(ui, h, by)
  BY <1>1, <1>2, RightIsOnScreen
<1>4. /\ h \in Listed(ui) /\ Panels \in Listed(ui) /\ h \in Dialogs /\ Panels \in Dialogs
      /\ 0 \notin Dialogs /\ ui.st[h] # "none" /\ Distinct(ui.list) /\ ui.cur # 0
      /\ Listed(ui) \in SUBSET Dialogs
  <2>1. Listed(ui) \in SUBSET Dialogs
    BY <1>2, ListedIn
  <2>2. 0 \notin Dialogs /\ Panels \in Dialogs
    BY PanelsAreFirst
  <2> QED BY <2>1, <2>2, <1>3 DEF OnScreen
<1>5. PICK w : /\ w \in UiStates /\ Popped(ui, w)
               /\ r = IF ui.st[h] = "closed" THEN SwitchRemove(w, h) ELSE w
  <2>1. \E w : /\ w \in UiStates /\ Popped(ui, w)
               /\ r = IF ui.st[h] = "closed" /\ h \notin ui.modal THEN SwitchRemove(w, h) ELSE w
    BY <1>2, <1>4, RunDoneIs
  <2> HIDE DEF r, h
  <2> QED BY <2>1, <1>1
<1> HIDE DEF r, h
<1>6. w.calls = <<Main>> /\ w.top = <<Panels>>
  BY <1>3, <1>5, TwoLoops DEF OnScreen, Popped
<1>7. CASE ui.st[h] = "closed"
  <2> DEFINE x == Destroy(r, h)
  <2>1. r \in UiStates /\ Switched(w, r, h, Panels)
    <3>1. Listed(w) = Listed(ui) /\ w.list = ui.list /\ w.cur = ui.cur /\ ~w.fault /\ w.st = ui.st
      BY <1>2, <1>5 DEF Popped, Listed
    <3>2. \A d \in Listed(w) : w.st[d] # "none"
      BY <3>1, <1>3, <1>4 DEF OnScreen
    <3>3. Panels \in {0} \cup (Listed(w) \ {h})
      BY <3>1, <1>1, <1>4
    <3>4. r = SwitchRemove(w, h)
      BY <1>5, <1>7
    <3> QED BY <3>1, <3>2, <3>3, <3>4, <1>4, <1>5, <1>6, SwitchedIs
  <2>2. h \notin ui.changed /\ ~ui.pending
    BY <1>3, <1>7 DEF OnScreen
  <2>3. r.st[h] = "closed" /\ r.st[h] # "none" /\ h \notin r.changed
    BY <2>1, <2>2, <1>1, <1>4, <1>5, <1>7 DEF Switched, Popped
  <2>4. x \in UiStates /\ Destroyed(r, x, h)
    BY <2>1, <2>3, <1>4, DestroyedIs
  <2>5. DestroyClosed(r, h) = x
    BY <2>3 DEF DestroyClosed
  <2> HIDE DEF x
  <2>6. /\ x.calls = Tail(ui.calls) /\ x.top = Tail(ui.top)
        /\ x.kind = [ui.kind EXCEPT ![h] = ""] /\ x.modal = ui.modal \ {h}
        /\ x.changed = ui.changed /\ x.list = RemoveFirst(ui.list, h) /\ x.cur = Panels
        /\ x.pending = ui.pending /\ x.dropped = ui.dropped /\ x.phase = ui.phase
        /\ x.fault = ui.fault /\ x.docs = ui.docs /\ x.dom = ui.dom
    <3>1. /\ r.calls = Tail(ui.calls) /\ r.top = Tail(ui.top)
          /\ r.kind = ui.kind /\ r.modal = ui.modal
          /\ r.changed = ui.changed /\ r.list = RemoveFirst(ui.list, h) /\ r.cur = Panels
          /\ r.pending = ui.pending /\ r.dropped = ui.dropped /\ r.phase = ui.phase
          /\ r.fault = ui.fault /\ r.docs = ui.docs /\ r.dom = ui.dom
      BY <2>1, <1>5 DEF Switched, Popped
    <3> QED BY <3>1, <2>4 DEF Destroyed
  <2>7. \A d \in Dialogs : x.st[d] = IF d = h THEN "none"
                                     ELSE IF d = Panels THEN "active" ELSE ui.st[d]
    <3>1. r.st \in [Dialogs -> Going]
      BY <2>1, Fields
    <3>2. \A d \in Dialogs : r.st[d] = IF d = Panels THEN "active" ELSE ui.st[d]
      BY <2>1, <1>5 DEF Switched, Popped
    <3>3. x.st = [r.st EXCEPT ![h] = "none"]
      BY <2>4 DEF Destroyed
    <3> QED BY <3>1, <3>2, <3>3, <1>4
  <2>8. ProcessPending(x) = x
    BY <2>2, <2>6 DEF ProcessPending
  <2>9. CASE by \in {"panels", "pending"}
    <3>1. ui.dom = 0
      BY <2>9, <1>3 DEF OnScreen
    <3>2. Gone(ui, x, h)
      BY <3>1, <2>6, <2>7 DEF Gone
    <3>3. CASE by = "panels"
      <4>1. ui' = x
        BY <3>3, <2>5, <2>8, <1>1 DEF After, AfterScreen
      <4> QED BY <4>1, <3>2, <2>4, <1>3, <1>7, GoneIsRight
    <3>4. CASE by = "pending"
      <4>1. Find(x, Panels) = Panels
        <5>1. ui.list \in Seq(Dialogs) /\ Panels \in ToSet(ui.list) \ {h} /\ h \in ToSet(ui.list)
          BY <1>1, <1>2, <1>4, Fields DEF Listed
        <5>2. x.list = RemoveFirst(ui.list, h) /\ Distinct(ui.list)
          BY <2>6, <1>4
        <5>3. ToSet(x.list) = ToSet(ui.list) \ {h}
          BY <5>1, <5>2, RemovingOne
        <5> QED BY <5>1, <5>3 DEF Find
      <4>2. [x EXCEPT !.cur = Panels] = x
        BY <2>4, <2>6 DEF UiStates
      <4>3. ui' = x
        BY <3>4, <4>1, <4>2, <2>3, <2>8, <1>1 DEF After, AfterPending, x
      <4> QED BY <4>3, <3>2, <2>4, <1>3, <1>7, GoneIsRight
    <3> QED BY <3>3, <3>4, <2>9
  <2>10. CASE by \in {"html", "show"}
    <3> DEFINE y == [x EXCEPT !.dom = 0]
    <3>1. ui.dom = h /\ h # 0
      BY <2>10, <1>3, <1>4 DEF OnScreen
    <3>2. r.dom = h
      BY <3>1, <2>1, <1>5 DEF Switched, Popped
    <3>3. AfterDom(r) = y
      BY <3>1, <3>2, <2>3 DEF AfterDom, Followed, x
    <3>4. y \in UiStates /\ y.dom = 0
      <4>1. 0 \in 0..MaxDialogs
        BY DEF ScreensConstants
      <4> QED BY <4>1, <2>4 DEF UiStates
    <3>5. /\ y.calls = x.calls /\ y.top = x.top /\ y.st = x.st /\ y.kind = x.kind
          /\ y.modal = x.modal /\ y.changed = x.changed /\ y.list = x.list /\ y.cur = x.cur
          /\ y.pending = x.pending /\ y.dropped = x.dropped /\ y.phase = x.phase
          /\ y.fault = x.fault /\ y.docs = x.docs
      BY <2>4 DEF UiStates
    <3> HIDE DEF y
    <3>6. ProcessPending(y) = y
      BY <3>5, <2>2, <2>6 DEF ProcessPending
    <3>7. ui' = y
      BY <3>3, <3>6, <2>10, <1>1 DEF After
    <3>8. Gone(ui, y, h)
      BY <3>4, <3>5, <2>6, <2>7 DEF Gone
    <3> QED BY <3>4, <3>7, <3>8, <1>3, <1>7, GoneIsRight
  <2> QED BY <2>9, <2>10, <1>3 DEF OnScreen
<1>8. CASE ui.st[h] = "suspended"
  <2>1. r = w
    BY <1>5, <1>8
  <2>2. ui.dom = 0 /\ by \in {"panels", "pending"}
    BY <1>3, <1>8 DEF OnScreen
  <2>3. ui' = ProcessPending(w)
    <3>1. w.st[h] = "suspended"
      BY <1>5, <1>8 DEF Popped
    <3> QED BY <3>1, <2>1, <2>2, <1>1 DEF After, AfterScreen, AfterPending, DestroyClosed
  <2>4. Listed(w) = Listed(ui) /\ w.st = ui.st /\ w.kind = ui.kind /\ w.pending = ui.pending
        /\ w.cur = ui.cur
    BY <1>5 DEF Popped, Listed
  <2>5. ui.kind[h] \in Texts /\ "file" \notin ui.docs
    BY <2>2, <1>3, <1>4 DEF OnScreen
  <2>6. \A d \in Listed(w) \ {Panels} : w.st[d] = "suspended" /\ w.kind[d] \in Texts
    BY <2>4, <2>5, <1>3, <1>8 DEF OnScreen
  <2>7. \A d \in Dialogs : /\ w.st[d] # "none" <=> d \in Listed(w)
                           /\ w.kind[d] = "panels" <=> d = Panels
                           /\ w.kind[d] # "dom"
    BY <2>2, <2>4, <1>3, <1>4 DEF OnScreen
  <2>8. /\ ~w.fault /\ Dropped(w) /\ w.phase = "run" /\ w.modal = {} /\ w.dom = 0
        /\ Distinct(w.list) /\ Panels \in Listed(w) /\ "file" \notin w.docs
        /\ w.st[Panels] \in {"active", "suspended"}
    BY <2>2, <2>4, <2>5, <1>3, <1>5 DEF OnScreen, Popped, Dropped
  <2>9. \A d \in w.changed : w.st[d] \in {"active", "suspended"} /\ w.kind[d] \in Texts
    BY <1>3, <1>5 DEF OnScreen, Popped
  <2>10. Alone(w)
    BY <2>6, <2>7, <2>8, <2>9, <1>5, <1>6 DEF Alone
  <2>11. CASE ui.pending
    <3>1. w.cur \in Listed(w) \ {Panels}
      BY <2>4, <2>11, <1>3, <1>8 DEF OnScreen
    <3>2. OnScreen(ui', w.cur, "pending")
      BY <3>1, <2>3, <2>4, <2>8, <2>10, <2>11, PendingIsRun
    <3> QED BY <3>2, ScreenIsRight
  <2>12. CASE ~ui.pending
    <3>1. ui' = w
      BY <2>3, <2>4, <2>12 DEF ProcessPending
    <3>2. w.cur = Panels /\ w.st[Panels] = "active"
      BY <2>4, <2>12, <1>3, <1>8 DEF OnScreen
    <3> QED BY <3>1, <3>2, <2>4, <2>10, <2>12, AloneIsRight
  <2> QED BY <2>11, <2>12
<1>9. ui.st[h] \in {"closed", "suspended"}
  <2>1. ui.st[h] # "construct"
    BY <1>3 DEF OnScreen
  <2> QED BY <2>1, <1>1, <1>2, <1>4 DEF Going
<1> QED BY <1>7, <1>8, <1>9

\* The innermost loop is left.
LEMMA LeaveIsRight ==
    ASSUME ScreensConstants, Right(ui), ui.phase = "run", Leave
    PROVE  Right(ui')
BY LeavePanelsIsRight, LeaveModalIsRight, LeaveScreenIsRight

-----------------------------------------------------------------------------
(* The program is left. *)

\* A screen of the list is taken up with no loop around it.
LEMMA TakenUp ==
    ASSUME NEW u \in UiStates, NEW h \in Dialogs, 0 \notin Dialogs,
           u.st[h] \notin {"none", "construct"}, u.top = <<>>, NEW v, v = DlgInit(u, h)
    PROVE  /\ v \in UiStates /\ v.st = [u.st EXCEPT ![h] = "active"] /\ v.top = <<h>>
           /\ v.kind = u.kind /\ v.modal = u.modal /\ v.changed = u.changed
           /\ v.calls = u.calls /\ v.list = u.list /\ v.cur = u.cur /\ v.pending = u.pending
           /\ v.dropped = u.dropped /\ v.asked = u.asked /\ v.phase = u.phase
           /\ v.fault = u.fault /\ v.dom = u.dom /\ v.docs = u.docs /\ v.shown = u.shown
<1> DEFINE top == <<h>> \o u.top
           t == [u EXCEPT !.modal = u.modal, !.top = top]
<1>1. top \in Seq(Dialogs) /\ top = <<h>>
  OBVIOUS
<1> HIDE DEF top
<1>2. t \in UiStates /\ t.st = u.st /\ t.top = top
  BY <1>1 DEF UiStates
<1>3. /\ t.kind = u.kind /\ t.modal = u.modal /\ t.changed = u.changed
      /\ t.calls = u.calls /\ t.list = u.list /\ t.cur = u.cur /\ t.pending = u.pending
      /\ t.dropped = u.dropped /\ t.asked = u.asked /\ t.phase = u.phase
      /\ t.fault = u.fault /\ t.dom = u.dom /\ t.docs = u.docs /\ t.shown = u.shown
  BY DEF UiStates
<1>4. v = SetState(t, h, "active")
  <2>1. u.modal = IF u.top # <<>> /\ Head(u.top) \in u.modal THEN u.modal \cup {h} ELSE u.modal
    OBVIOUS
  <2>2. t = [u EXCEPT !.modal = u.modal, !.top = <<h>> \o @]
    BY DEF top
  <2> HIDE DEF t
  <2> QED BY <2>1, <2>2, <1>2 DEF DlgInit
<1> HIDE DEF t
<1>5. v \in UiStates /\ Marked(t, v, h, "active")
  BY <1>2, <1>4, MarkedIs DEF Going
<1> QED BY <1>1, <1>2, <1>3, <1>5 DEF Marked

\* One screen of the list is closed, and the user asked about its changes.
LEMMA ShutdownNextIsRight ==
    ASSUME ScreensConstants, Right(ui), NEW said \in Answers, ShutdownNext(said)
    PROVE  Right(ui')
<1> DEFINE h == Head(ui.list)
           a == DlgInit(ui, h)
           b == SetState(a, h, "active")
           r == OkToExit(b, h, said)
           c == SetState(r.u, h, "closed")
           top == RemoveFirst(c.top, h)
           d == [c EXCEPT !.top = top]
           list == RemoveFirst(d.list, h)
           below == IF list = <<>> THEN 0 ELSE Head(list)
           e == SwitchRemove(d, h)
<1>1. ui.phase = "shutdown" /\ ui.list # <<>>
  BY DEF ShutdownNext
<1>2. ui \in UiStates /\ ~ui.fault /\ Dropped(ui) /\ Stopped(ui)
  BY <1>1 DEF Right
<1>3. /\ ui.list \in Seq(Dialogs) /\ ui.st \in [Dialogs -> Going] /\ Listed(ui) \in SUBSET Dialogs
      /\ 0 \notin Dialogs /\ Panels \in Dialogs
      /\ ui.kind \in [Dialogs -> Kinds \cup {"", "panels"}]
  BY <1>2, Fields, ListedIn, PanelsAreFirst
<1>4. h \in Listed(ui) /\ h \in Dialogs
  <2>1. h = ui.list[1] /\ 1 \in 1..Len(ui.list)
    <3>1. ui.list \in Seq(Dialogs)
      BY <1>3
    <3> QED BY <3>1, <1>1
  <2>2. \A i \in 1..Len(ui.list) : ui.list[i] \in ToSet(ui.list) /\ ui.list[i] \in Dialogs
    BY <1>3, ToSetIn
  <2> HIDE DEF h
  <2> QED BY <2>1, <2>2 DEF Listed
<1> HIDE DEF h
<1>5. ui.st[h] \in {"active", "suspended"} /\ ui.kind[h] \in Texts /\ h # Panels
  BY <1>2, <1>4 DEF Stopped
<1>6. ui' = Destroy(RunDone(Validate(a, h, said), h), h)
  BY <1>3, <1>4, <1>5 DEF ShutdownNext, Followed, h
<1>7. /\ a \in UiStates /\ a.st = [ui.st EXCEPT ![h] = "active"] /\ a.top = <<h>>
      /\ a.kind = ui.kind /\ a.modal = ui.modal /\ a.changed = ui.changed
      /\ a.calls = ui.calls /\ a.list = ui.list /\ a.cur = ui.cur /\ a.pending = ui.pending
      /\ a.dropped = ui.dropped /\ a.asked = ui.asked /\ a.phase = ui.phase
      /\ a.fault = ui.fault /\ a.dom = ui.dom /\ a.docs = ui.docs /\ a.shown = ui.shown
  <2>1. ui.st[h] \notin {"none", "construct"} /\ ui.top = <<>>
    BY <1>2, <1>5 DEF Stopped
  <2>2. ui \in UiStates /\ 0 \notin Dialogs
    BY <1>2, <1>3
  <2> QED BY <2>1, <2>2, <1>4, TakenUp
<1> HIDE DEF a
<1>8. b \in UiStates /\ Marked(a, b, h, "active")
  <2>1. a.st[h] # "none"
    BY <1>3, <1>4, <1>7
  <2> QED BY <2>1, <1>3, <1>4, <1>7, MarkedIs DEF Going
<1>9. Validate(a, h, said) = IF r.ok THEN c ELSE r.u
  BY <1>5, <1>7 DEF Validate, Texts
<1> HIDE DEF b
<1>10. b.kind = ui.kind /\ b.phase = "shutdown" /\ Dropped(b)
  BY <1>1, <1>2, <1>7, <1>8 DEF Marked, Dropped
<1>11. r.u \in UiStates /\ Exited(b, r.u, h, r.ok) /\ Dropped(r.u) /\ r.ok \in BOOLEAN
  BY <1>4, <1>5, <1>8, <1>10, OkToExitIs
<1> HIDE DEF r
<1>12. r.ok /\ h \notin r.u.changed
  BY <1>10, <1>11 DEF Exited
<1>13. c \in UiStates /\ Marked(r.u, c, h, "closed")
  <2>1. r.u.st[h] # "none"
    BY <1>3, <1>4, <1>7, <1>8, <1>11 DEF Exited, Marked
  <2> QED BY <2>1, <1>3, <1>4, <1>11, MarkedIs DEF Going
<1>14. Validate(a, h, said) = c
  BY <1>9, <1>12
<1> HIDE DEF c
<1>st. \A x \in Dialogs : c.st[x] = IF x = h THEN "closed" ELSE ui.st[x]
  <2>1. c.st = [[[ui.st EXCEPT ![h] = "active"] EXCEPT ![h] = "active"] EXCEPT ![h] = "closed"]
    BY <1>7, <1>8, <1>11, <1>13 DEF Marked, Exited
  <2> QED BY <2>1, <1>3, <1>4
<1>15. /\ c.top = <<h>> /\ c.kind = ui.kind
       /\ c.modal = {} /\ c.changed \subseteq ui.changed /\ h \notin c.changed
       /\ c.calls = <<>> /\ c.list = ui.list /\ c.cur = ui.cur /\ ~c.pending
       /\ c.dropped = r.u.dropped /\ c.asked /\ c.phase = "shutdown" /\ ~c.fault /\ c.dom = 0
  <2>2. /\ c.top = <<h>> /\ c.kind = ui.kind
        /\ c.modal = ui.modal /\ c.changed \subseteq ui.changed
        /\ c.calls = ui.calls /\ c.list = ui.list /\ c.cur = ui.cur /\ c.pending = ui.pending
    BY <1>7, <1>8, <1>11, <1>13 DEF Marked, Exited
  <2>3. /\ c.dropped = r.u.dropped /\ c.asked = ui.asked /\ c.phase = ui.phase
        /\ c.fault = ui.fault /\ c.dom = ui.dom /\ h \notin c.changed
    BY <1>7, <1>8, <1>11, <1>12, <1>13 DEF Marked, Exited
  <2> QED BY <2>2, <2>3, <1>1, <1>2 DEF Stopped
<1>16. top = <<>>
  <2>1. <<h>> \in Seq(Dialogs) /\ <<h>> # <<>> /\ <<h>>[1] = h /\ Tail(<<h>>) = <<>>
    BY <1>4
  <2> QED BY <2>1, <1>15, RemovingHead
<1> HIDE DEF top
<1>17. d \in UiStates /\ d.top = <<>>
  <2>1. c \in UiStates /\ top \in Seq(Dialogs)
    BY <1>13, <1>16
  <2>2. ASSUME NEW w \in UiStates, NEW t \in Seq(Dialogs)
        PROVE  [w EXCEPT !.top = t] \in UiStates /\ [w EXCEPT !.top = t].top = t
    BY DEF UiStates
  <2>3. d \in UiStates /\ d.top = top
    BY <2>1, <2>2
  <2> QED BY <2>3, <1>16
<1>cst. d.st = c.st
  OBVIOUS
<1>18. /\ d.kind = c.kind /\ d.modal = c.modal /\ d.changed = c.changed
       /\ d.calls = c.calls /\ d.list = c.list /\ d.cur = c.cur /\ d.pending = c.pending
       /\ d.dropped = c.dropped /\ d.asked = c.asked /\ d.phase = c.phase /\ d.fault = c.fault
       /\ d.dom = c.dom
  BY <1>13 DEF UiStates
<1>19. RunDone(c, h) = e
  <2>1. ~Followed(c, h) /\ d.st[h] = "closed" /\ h \notin d.modal
    <3>1. h # 0 /\ c.st[h] = "closed" /\ d.st[h] = "closed"
      BY <1>3, <1>4, <1>st, <1>cst
    <3>2. d.modal = {}
      BY <1>15, <1>18
    <3> QED BY <3>1, <3>2 DEF Followed
  <2>2. d = [c EXCEPT !.top = RemoveFirst(@, h)]
    BY DEF top
  <2> HIDE DEF d
  <2> QED BY <2>1, <2>2 DEF RunDone
<1> HIDE DEF d
<1>20. /\ Listed(d) = Listed(ui) /\ h \in Listed(d) /\ Distinct(d.list) /\ d.cur # 0 /\ ~d.fault
       /\ \A x \in Listed(d) : d.st[x] # "none"
  <2>1. d.list = ui.list /\ Listed(d) = Listed(ui) /\ d.cur = ui.cur /\ ~d.fault
    BY <1>15, <1>18 DEF Listed
  <2>2. \A x \in Listed(ui) : d.st[x] # "none"
    <3>1. \A x \in Listed(ui) : x \in Dialogs /\ ui.st[x] # "none"
      BY <1>2, <1>3 DEF Stopped
    <3> QED BY <3>1, <1>st, <1>cst
  <2> QED BY <2>1, <2>2, <1>1, <1>2, <1>4 DEF Stopped
<1>21. /\ below \in {0} \cup (Listed(d) \ {h}) /\ Distinct(list)
       /\ ToSet(list) = Listed(d) \ {h} /\ (list # <<>> => below # 0)
  BY <1>17, <1>20, NextScreen
<1>22. e \in UiStates /\ Switched(d, e, h, below)
  <2>1. d.top = <<>> /\ below = IF RemoveFirst(d.list, h) = <<>> THEN 0
                                ELSE Head(RemoveFirst(d.list, h))
    BY <1>17
  <2> HIDE DEF below
  <2> QED BY <2>1, <1>17, <1>20, <1>21, SwitchedIs
<1> HIDE DEF e, below
<1>23. e.list = list
  BY <1>22 DEF Switched
<1> HIDE DEF list
<1>24. /\ \A x \in Dialogs : e.st[x] = IF x = below THEN "active" ELSE d.st[x]
       /\ e.kind = d.kind /\ e.modal = d.modal /\ e.changed = d.changed /\ e.top = d.top
       /\ e.calls = d.calls /\ e.pending = d.pending /\ e.dropped = d.dropped
       /\ e.phase = d.phase /\ e.fault = d.fault /\ e.asked = d.asked /\ e.dom = d.dom
       /\ e.cur = below
  BY <1>22 DEF Switched
<1>25. below # h /\ e.st[h] # "none" /\ h \notin e.changed
  <2>1. below # h
    BY <1>3, <1>4, <1>21
  <2>2. e.st[h] = "closed"
    BY <2>1, <1>4, <1>st, <1>cst, <1>24
  <2>3. h \notin e.changed
    BY <1>15, <1>18, <1>24
  <2> QED BY <2>1, <2>2, <2>3
<1>26. ui' \in UiStates /\ Destroyed(e, ui', h)
  BY <1>3, <1>4, <1>6, <1>14, <1>19, <1>22, <1>25, DestroyedIs
<1>27. \A x \in Dialogs : /\ ui'.st[x] = IF x = h THEN "none"
                                         ELSE IF x = below THEN "active" ELSE ui.st[x]
                          /\ x # h => ui'.kind[x] = ui.kind[x]
  <2>1. e.st \in [Dialogs -> Going]
    BY <1>22, Fields
  <2>2. ui'.st = [e.st EXCEPT ![h] = "none"] /\ ui'.kind = [ui.kind EXCEPT ![h] = ""]
    <3>1. e.kind = ui.kind
      BY <1>15, <1>18, <1>24
    <3> QED BY <3>1, <1>26 DEF Destroyed
  <2>3. \A x \in Dialogs \ {h} : d.st[x] = ui.st[x]
    BY <1>st, <1>cst
  <2>4. \A x \in Dialogs : e.st[x] = IF x = below THEN "active" ELSE d.st[x]
    BY <1>24
  <2>5. /\ ui'.st \in [Dialogs -> Going]
        /\ \A x \in Dialogs : ui'.st[x] = IF x = h THEN "none" ELSE e.st[x]
    BY <2>1, <2>2, <1>4 DEF Going
  <2>6. \A x \in Dialogs \ {h} : ui'.kind[x] = ui.kind[x]
    BY <2>2, <1>3
  <2> QED BY <2>3, <2>4, <2>5, <2>6
<1>28. /\ ui'.modal = {} /\ ui'.changed = c.changed /\ ui'.top = <<>> /\ ui'.calls = <<>>
       /\ ~ui'.pending /\ ui'.dropped = r.u.dropped /\ ui'.phase = "shutdown" /\ ~ui'.fault
       /\ ui'.asked /\ ui'.dom = 0 /\ ui'.list = list /\ ui'.cur = below
  <2>1. /\ e.modal = {} /\ e.changed = c.changed /\ e.top = <<>> /\ e.calls = <<>>
        /\ ~e.pending /\ e.dropped = r.u.dropped /\ e.phase = "shutdown" /\ ~e.fault
        /\ e.asked /\ e.dom = 0 /\ e.list = list /\ e.cur = below
    BY <1>15, <1>17, <1>18, <1>23, <1>24
  <2> QED BY <2>1, <1>26 DEF Destroyed
<1>29. Listed(ui') = Listed(ui) \ {h} /\ Distinct(ui'.list)
  BY <1>20, <1>21, <1>28 DEF Listed
<1>30. \A x \in Dialogs : ui'.st[x] # "none" <=> x \in Listed(ui') \/ x = Panels
  <2>1. below \in Listed(ui') \/ below = 0
    BY <1>20, <1>21, <1>29
  <2>2. \A x \in Dialogs : ui.st[x] # "none" <=> x \in Listed(ui) \/ x = Panels
    BY <1>1, <1>2 DEF Stopped
  <2> QED BY <2>1, <2>2, <1>3, <1>5, <1>27, <1>29
<1>31. Panels \notin Listed(ui') /\ ui'.changed \subseteq Listed(ui')
  BY <1>2, <1>15, <1>28, <1>29 DEF Stopped
<1>32. \A x \in Listed(ui') : ui'.st[x] \in {"active", "suspended"} /\ ui'.kind[x] \in Texts
  BY <1>2, <1>3, <1>27, <1>29 DEF Stopped
<1>33. ui'.list # <<>> => ui'.cur # 0
  BY <1>21, <1>28
<1>34. Stopped(ui')
  BY <1>28, <1>29, <1>30, <1>31, <1>32, <1>33 DEF Stopped
<1>35. Dropped(ui')
  BY <1>11, <1>28 DEF Dropped
<1> QED BY <1>26, <1>28, <1>34, <1>35 DEF Right

\* The panels are last.
LEMMA ShutdownDoneIsRight ==
    ASSUME ScreensConstants, Right(ui), ShutdownDone
    PROVE  Right(ui')
<1> DEFINE v == Destroy(ui, Panels)
<1>1. ui.phase = "shutdown" /\ ui.list = <<>> /\ ui' = [v EXCEPT !.phase = "ended"]
  BY DEF ShutdownDone
<1>2. ui \in UiStates /\ ~ui.fault /\ Dropped(ui) /\ Stopped(ui)
  BY <1>1 DEF Right
<1>3. Panels \in Dialogs /\ 0 \notin Dialogs /\ ui.st \in [Dialogs -> Going]
  BY <1>2, PanelsAreFirst, Fields
<1>4. Listed(ui) = {}
  BY <1>1 DEF Listed, ToSet
<1>5. Panels \notin ui.changed /\ ui.st[Panels] # "none" /\ ui.changed = {}
  BY <1>1, <1>2, <1>3, <1>4 DEF Stopped
<1>6. v \in UiStates /\ Destroyed(ui, v, Panels)
  BY <1>2, <1>3, <1>5, DestroyedIs
<1> HIDE DEF v
<1>7. /\ ui' \in UiStates /\ ui'.phase = "ended"
      /\ ui'.st = v.st /\ ui'.modal = v.modal /\ ui'.changed = v.changed
      /\ ui'.top = v.top /\ ui'.calls = v.calls /\ ui'.list = v.list
      /\ ui'.pending = v.pending /\ ui'.dropped = v.dropped /\ ui'.fault = v.fault
      /\ ui'.asked = v.asked /\ ui'.dom = v.dom
  BY <1>1, <1>6, PhaseIs
<1>8. /\ ui'.modal = {} /\ ui'.changed = {} /\ ui'.top = <<>> /\ ui'.calls = <<>>
      /\ ui'.list = <<>> /\ ~ui'.pending /\ ui'.dropped = ui.dropped /\ ~ui'.fault
      /\ ui'.asked /\ ui'.dom = 0 /\ ui'.st = [ui.st EXCEPT ![Panels] = "none"]
  BY <1>1, <1>2, <1>5, <1>6, <1>7 DEF Destroyed, Stopped
<1>9. Listed(ui') = {} /\ Distinct(ui'.list)
  BY <1>1, <1>2, <1>4, <1>8 DEF Listed, Stopped
<1>10. \A x \in Dialogs : ui'.st[x] = "none"
  BY <1>1, <1>2, <1>3, <1>4, <1>8 DEF Stopped
<1>11. Stopped(ui')
  BY <1>7, <1>8, <1>9, <1>10 DEF Stopped
<1>12. Dropped(ui')
  BY <1>2, <1>8 DEF Dropped
<1> QED BY <1>7, <1>8, <1>11, <1>12 DEF Right

-----------------------------------------------------------------------------
(* The theorems. *)

\* Every step keeps it.
LEMMA StepIsRight ==
    ASSUME ScreensConstants, ScreenLapses = {}, Right(ui), [ScreensNext]_ui
    PROVE  Right(ui')
<1>1. CASE ui' = ui
  BY <1>1
<1>2. CASE Opens
  <2>1. CASE EditFromDiff
    <3>1. ui.phase = "run"
      BY <2>1 DEF EditFromDiff, Runs
    <3> QED BY <2>1, <3>1, EditFromDiffIsRight
  <2>2. CASE OpenBox
    <3>1. ui.phase = "run"
      BY <2>2 DEF OpenBox, Runs
    <3> QED BY <2>2, <3>1, OpenBoxIsRight
  <2>3. ASSUME NEW kind \in Kinds, NEW by \in {"panels", "force"}, OpenScreen(kind, by)
        PROVE  Right(ui')
    <3>1. ui.phase = "run"
      BY <2>3 DEF OpenScreen, MayOpen, Runs
    <3> QED BY <2>3, <3>1, OpenScreenIsRight
  <2> QED BY <1>2, <2>1, <2>2, <2>3 DEF Opens
<1>3. CASE Doms
  <2>1. CASE OpenHtml
    <3>1. ui.phase = "run"
      BY <2>1 DEF OpenHtml, MayOpen, Runs
    <3> QED BY <2>1, <3>1, OpenHtmlIsRight
  <2>2. CASE DomviewShow
    <3>1. ui.phase = "run"
      BY <2>2 DEF DomviewShow, Runs
    <3> QED BY <2>2, <3>1, DomviewShowIsRight
  <2>3. CASE DomviewQuit
    <3>1. ui.phase = "run"
      BY <2>3 DEF DomviewQuit, Runs
    <3> QED BY <2>3, <3>1, DomviewQuitIsRight
  <2>4. CASE Attach
    <3>1. ui.phase = "run"
      BY <2>4 DEF Attach, IdleHook, Runs
    <3> QED BY <2>4, <3>1, AttachIsRight
  <2>5. CASE Detach
    <3>1. ui.phase = "run"
      BY <2>5 DEF Detach, IdleHook, Runs
    <3> QED BY <2>5, <3>1, DetachIsRight
  <2> QED BY <1>3, <2>1, <2>2, <2>3, <2>4, <2>5 DEF Doms
<1>4. CASE Closes
  <2>1. ASSUME NEW said \in Answers, CloseScreen(said)
        PROVE  Right(ui')
    <3>1. ui.phase = "run"
      BY <2>1 DEF CloseScreen, Runs
    <3> QED BY <2>1, <3>1, CloseScreenIsRight
  <2>2. ASSUME NEW said \in Answers, StopDialogs(said)
        PROVE  Right(ui')
    <3>1. ui.phase = "run"
      BY <2>2 DEF StopDialogs, Runs
    <3> QED BY <2>2, <3>1, StopDialogsIsRight
  <2>3. CASE CloseBox
    <3>1. ui.phase = "run"
      BY <2>3 DEF CloseBox, Runs
    <3> QED BY <2>3, <3>1, CloseBoxIsRight
  <2> QED BY <1>4, <2>1, <2>2, <2>3 DEF Closes
<1>5. CASE Modify
  <2>1. ui.phase = "run"
    BY <1>5 DEF Modify, Runs
  <2> QED BY <1>5, <2>1, ModifyIsRight
<1>6. ASSUME NEW d \in Dialogs, Switch(d)
      PROVE  Right(ui')
  <2>1. ui.phase = "run"
    BY <1>6 DEF Switch, Runs
  <2> QED BY <1>6, <2>1, SwitchIsRight
<1>7. CASE Ends
  <2>1. CASE Leave
    <3>1. ui.phase = "run"
      BY <2>1 DEF Leave
    <3> QED BY <2>1, <3>1, LeaveIsRight
  <2>2. ASSUME NEW said \in Answers, ShutdownNext(said)
        PROVE  Right(ui')
    BY <2>2, ShutdownNextIsRight
  <2>3. CASE ShutdownDone
    BY <2>3, ShutdownDoneIsRight
  <2> QED BY <1>7, <2>1, <2>2, <2>3 DEF Ends
<1> QED BY <1>1, <1>2, <1>3, <1>4, <1>5, <1>6, <1>7 DEF ScreensNext

\* The panels are run.
LEMMA InitIsRight ==
    ASSUME ScreensConstants, ScreensInit
    PROVE  Right(ui)
<1> DEFINE st == [d \in Dialogs |-> IF d = Panels THEN "construct" ELSE "none"]
           kinds == [d \in Dialogs |-> IF d = Panels THEN "panels" ELSE ""]
           z == [st |-> st, kind |-> kinds,
                 modal |-> {}, changed |-> {}, top |-> <<>>, list |-> <<>>, cur |-> 0,
                 pending |-> FALSE, calls |-> <<>>, dom |-> 0, docs |-> {}, shown |-> "",
                 dropped |-> {}, asked |-> FALSE, phase |-> "run", fault |-> FALSE]
<1>1. ui = Run(z, Panels, "main")
  BY DEF ScreensInit
<1>2. Panels \in Dialogs /\ 0 \notin Dialogs /\ 0 \in 0..MaxDialogs
  <2>1. 0 \in 0..MaxDialogs
    BY DEF ScreensConstants
  <2> QED BY <2>1, PanelsAreFirst
<1>5. st \in [Dialogs -> Going] /\ kinds \in [Dialogs -> Kinds \cup {"", "panels"}]
  BY DEF Going
<1> HIDE DEF st, kinds
<1>6. z \in UiStates
  <2>1. ASSUME NEW a \in [Dialogs -> Going], NEW b \in [Dialogs -> Kinds \cup {"", "panels"}],
               NEW t \in Seq(Dialogs), NEW l \in Seq(Dialogs), NEW c \in Seq(Entries),
               NEW m \in SUBSET Dialogs, NEW x \in SUBSET Dialogs,
               NEW o \in SUBSET {"file", "window"}, NEW y \in SUBSET Drops
        PROVE  [st |-> a, kind |-> b, modal |-> m, changed |-> x, top |-> t, list |-> l, cur |-> 0,
                pending |-> FALSE, calls |-> c, dom |-> 0, docs |-> o, shown |-> "",
                dropped |-> y, asked |-> FALSE, phase |-> "run", fault |-> FALSE] \in UiStates
    BY <1>2 DEF UiStates
  <2>2. <<>> \in Seq(Dialogs) /\ <<>> \in Seq(Entries)
    OBVIOUS
  <2> QED BY <2>1, <2>2, <1>5
<1>7. /\ z.modal = {} /\ z.changed = {} /\ z.top = <<>> /\ z.list = <<>> /\ ~z.pending
      /\ z.calls = <<>> /\ z.dom = 0 /\ z.docs = {} /\ z.dropped = {} /\ ~z.asked
      /\ z.phase = "run" /\ ~z.fault /\ z.st = st /\ z.kind = kinds
  OBVIOUS
<1> HIDE DEF z
<1>8. [dlg |-> Panels, by |-> "main"] \in Entries
  BY <1>2 DEF Entries
<1>9. Listed(z) = {}
  BY <1>7 DEF Listed, ToSet
<1>10. ui \in UiStates /\ Entered(z, ui, Panels, "main")
  <2>1. z.st[Panels] = "construct"
    BY <1>2, <1>7 DEF st
  <2>2. z \in UiStates /\ ~z.fault /\ z.top = <<>> /\ Panels \notin z.modal /\ Listed(z) = {}
    BY <1>6, <1>7, <1>9
  <2>3. ui = Run(z, Panels, "main")
    BY <1>1
  <2> QED BY <2>1, <2>2, <2>3, <1>2, <1>8, RunScreen
<1>11. /\ ui.kind = kinds /\ ui.modal = {} /\ ui.changed = {} /\ ui.cur = Panels /\ ~ui.pending
       /\ ui.dropped = {} /\ ~ui.asked /\ ui.phase = "run" /\ ~ui.fault /\ ui.dom = 0
       /\ ui.docs = {}
  BY <1>7, <1>10 DEF Entered
<1>12. ui.top = <<Panels>> /\ ui.calls = <<Main>> /\ ui.list = <<Panels>>
  <2>1. ui.top = <<Panels>> \o <<>> /\ ui.calls = <<Main>> \o <<>> /\ ui.list = <<Panels>> \o <<>>
    BY <1>7, <1>10 DEF Entered, Main
  <2>2. ASSUME NEW x PROVE <<x>> \o <<>> = <<x>>
    OBVIOUS
  <2> QED BY <2>1, <2>2
<1>13. Listed(ui) = {Panels} /\ Distinct(ui.list)
  BY <1>12 DEF Listed, ToSet, Distinct
<1>14. \A d \in Dialogs : /\ ui.st[d] = IF d = Panels THEN "active" ELSE "none"
                          /\ ui.kind[d] = IF d = Panels THEN "panels" ELSE ""
  <2>1. \A d \in Dialogs : ui.st[d] = IF d = Panels THEN "active" ELSE z.st[d]
    BY <1>9, <1>10 DEF Entered
  <2>2. z.st = st /\ ui.kind = kinds
    BY <1>7, <1>11
  <2>3. \A d \in Dialogs : /\ st[d] = IF d = Panels THEN "construct" ELSE "none"
                           /\ kinds[d] = IF d = Panels THEN "panels" ELSE ""
    BY DEF st, kinds
  <2> QED BY <2>1, <2>2, <2>3
<1>15. Dropped(ui)
  BY <1>11 DEF Dropped
<1>16. Alone(ui)
  BY <1>2, <1>10, <1>11, <1>12, <1>13, <1>14, <1>15 DEF Alone
<1> QED BY <1>2, <1>11, <1>14, <1>16, AloneIsRight

\* As many dialogs have a loop as there are loops.
LEMMA LoopsCounted ==
    ASSUME NEW u, u.calls \in Seq(Entries),
           \A i, j \in DOMAIN u.calls : u.calls[i].dlg = u.calls[j].dlg => i = j
    PROVE  Cardinality(Loops(u)) = Len(u.calls)
<1> DEFINE n == Len(u.calls)
           L == Loops(u)
           F == [i \in 1..n |-> u.calls[i].dlg]
<1>1. n \in Nat /\ DOMAIN u.calls = 1..n
  OBVIOUS
<1>2. L = {u.calls[i].dlg : i \in 1..n}
  BY <1>1 DEF Loops
<1>3. F \in [1..n -> L]
  BY <1>2
<1>4. \A i, j \in 1..n : F[i] = F[j] => i = j
  BY <1>1
<1>5. \A d \in L : \E i \in 1..n : F[i] = d
  BY <1>2
<1> HIDE DEF F, L, n
<1>6. F \in Bijection(1..n, L)
  BY <1>3, <1>4, <1>5, Fun_IsBij
<1>7. Cardinality(L) = n
  BY <1>1, <1>6, FS_CountingElements, Fun_ExistsBij
<1> QED BY <1>7 DEF L, n

\* What the screens promise follows from it.
LEMMA RightIsSound ==
    ASSUME ScreensConstants, Right(ui)
    PROVE  ScreensTypeOK /\ ScreensSound /\ NoneLost
<1>1. ui \in UiStates /\ ~ui.fault /\ Dropped(ui)
  BY DEF Right
<1>2. ui.calls \in Seq(Entries) /\ ui.top \in Seq(Dialogs) /\ Listed(ui) \in SUBSET Dialogs
  BY <1>1, Fields, ListedIn
<1> DEFINE looped == Loops(ui)
           referred == ToSet(ui.list) \cup ToSet(ui.top) \cup looped \cup ({ui.dom} \ {0})
<1>3. CASE ui.phase = "run"
  <2>1. /\ Nested(ui) /\ Placed(ui) /\ Current(ui) /\ Watched(ui)
        /\ Loops(ui) \in SUBSET Dialogs /\ \A d \in Listed(ui) \cup Loops(ui) : ui.st[d] # "none"
        /\ Loop = ui.calls[1]
    BY <1>3, LoopFacts DEF Loop
  <2>2. ToSet(ui.top) \subseteq Loops(ui)
    <3>1. /\ Len(ui.top) = Len(ui.calls) /\ DOMAIN ui.calls = 1..Len(ui.calls)
          /\ \A i \in 1..Len(ui.calls) : ui.top[i] = ui.calls[i].dlg
      BY <2>1, <1>2 DEF Nested, Top
    <3>2. ASSUME NEW d \in ToSet(ui.top) PROVE d \in Loops(ui)
      <4>1. PICK i \in DOMAIN ui.top : ui.top[i] = d
        BY DEF ToSet
      <4>2. i \in 1..Len(ui.calls)
        BY <3>1, <1>2
      <4> QED BY <4>1, <4>2, <3>1 DEF Loops
    <3> QED BY <3>2
  <2>3. \A d \in referred : ui.st[d] # "none"
    BY <2>1, <2>2 DEF Placed, Listed
  <2>4. \A d \in Dialogs : ui.st[d] # "none" => d \in looped \cup ToSet(ui.list)
    BY <2>1 DEF Placed, Listed
  <2>5. Cardinality(looped) = Len(ui.calls)
    BY <2>1, <1>2, LoopsCounted DEF Nested
  <2>6. DialogsKept
    BY <2>3, <2>4, <2>5, <1>1 DEF DialogsKept, Loops
  <2>7. PanelsStay
    BY <2>1, <1>3 DEF PanelsStay, Current, Left
  <2>8. NoneLost
    BY <1>1, <1>3 DEF NoneLost, Dropped
  <2> QED BY <2>6, <2>7, <2>8, <1>1 DEF ScreensTypeOK, ScreensSound
<1>4. CASE ui.phase # "run"
  <2>1. Stopped(ui)
    BY <1>4 DEF Right
  <2>2. looped = {} /\ ToSet(ui.top) = {} /\ ui.dom = 0
    BY <2>1 DEF Stopped, Loops, ToSet
  <2>3. \A d \in referred : ui.st[d] # "none"
    BY <2>1, <2>2, <1>2 DEF Stopped, Listed
  <2>4. Cardinality(looped) = Len(ui.calls)
    <3>1. Cardinality({}) = 0 /\ Len(ui.calls) = 0
      BY <2>1, FS_EmptySet DEF Stopped
    <3> HIDE DEF looped
    <3> QED BY <2>2, <3>1
  <2>5. DialogsKept
    BY <2>3, <2>4, <1>1, <1>4 DEF DialogsKept, Loops
  <2>6. PanelsStay
    BY <2>1, <1>4 DEF PanelsStay, Stopped
  <2>7. ui.phase = "ended" => ui.changed = {}
    <3>1. ui.list = <<>> => Listed(ui) = {}
      BY DEF Listed, ToSet
    <3> QED BY <2>1, <3>1 DEF Stopped
  <2>8. NoneLost
    BY <2>7, <1>1 DEF NoneLost, Dropped
  <2> QED BY <2>5, <2>6, <2>8, <1>1 DEF ScreensTypeOK, ScreensSound
<1> QED BY <1>3, <1>4

\* The invariant holds: however loops are nested and left by the callers of dlg_run.
THEOREM ScreensAreRight ==
    ASSUME ScreensConstants, ScreenLapses = {}
    PROVE  ScreensSpec => []Right(ui)
<1>1. ScreensInit => Right(ui)
  BY InitIsRight
<1>2. Right(ui) /\ [ScreensNext]_ui => Right(ui)'
  BY StepIsRight
<1> QED BY <1>1, <1>2, PTL DEF ScreensSpec

\* ScreensTypeOK: the variable keeps its type.
THEOREM ScreensTypes ==
    ASSUME ScreensConstants, ScreenLapses = {}
    PROVE  ScreensSpec => []ScreensTypeOK
<1>1. Right(ui) => ScreensTypeOK
  BY RightIsSound
<1> QED BY <1>1, ScreensAreRight, PTL

\* ScreensSound: every dialog that is referred to is there, each has a loop or a place in
\* the list and at most one loop, and only the user ends the program.
THEOREM ScreensAreSound ==
    ASSUME ScreensConstants, ScreenLapses = {}
    PROVE  ScreensSpec => []ScreensSound
<1>1. Right(ui) => ScreensSound
  BY RightIsSound
<1> QED BY <1>1, ScreensAreRight, PTL

\* NoneLost: what the user changed is thrown away only after a no, or as said there.
THEOREM NothingIsLost ==
    ASSUME ScreensConstants, ScreenLapses = {}
    PROVE  ScreensSpec => []NoneLost
<1>1. Right(ui) => NoneLost
  BY RightIsSound
<1> QED BY <1>1, ScreensAreRight, PTL
=============================================================================
