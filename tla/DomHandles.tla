----------------------------- MODULE DomHandles -----------------------------
(***************************************************************************)
(* A document of a window and the map from handles to its elements: what   *)
(* the DOM requests of endpoint.c do through dom-ops.c to the tree of      *)
(* elements, to the sorted array that finds an element by the value of its *)
(* attribute hvml-handle, and to the tree on the screen.                   *)
(*                                                                         *)
(* The array is kept by walking the subtrees that come and go; nothing     *)
(* else ties it to the tree, so every operation must walk the right nodes  *)
(* at the right moment.                                                    *)
(***************************************************************************)
EXTENDS Integers, Sequences, SequencesExt, FiniteSetsExt

CONSTANTS
  N,          \* bound: the elements besides the document node, which is 0
  Handles,    \* values of hvml-handle, other than 0
  Once,       \* the handles the remote program gives to one element at a time
  None,
  Fragments,  \* what a request may hold: the elements in document order, each
              \* [h |-> its handle or None, up |-> its parent's place or 0]
  Lists,      \* the lists of handles (0 for the root element) of a request
  Lapses      \* what an instance allows: "attr", changing the handle of an
              \* element; "list", a list with an element twice or with one in
              \* another; "root", requests that remove the root element or put
              \* others beside it; "erase", erasing elements that are on the
              \* screen; "insert", several elements at once beside one

Constants ==
  /\ N \in Nat \ {0}
  /\ 0 \notin Handles /\ None \notin Handles \cup (0..N) /\ Once \subseteq Handles
  /\ \A f \in Fragments : \A i \in DOMAIN f :
       f[i].h \in Handles \cup {None} /\ f[i].up \in 0..(i - 1)
  /\ Lists \subseteq Seq(Handles \cup {0})
  /\ Lapses \subseteq {"attr", "list", "root", "erase", "insert"}

Nodes == 0..N
Root == 1     \* dom_doc->element

VARIABLE
  dom  \* live     the nodes that are allocated
       \* kids     [Nodes -> Seq(Nodes)]: the child elements in order
       \* handle   [Nodes -> Handles \cup {None}]: the attribute hvml-handle
       \* map      [Handles -> Nodes \cup {None}]: user->sa
       \* shown    the viewer shows this document
       \* seen     user->tree: it has been shown before
       \* entries  the nodes the tree on the screen points to
       \* fate     "ok", or "freed" once a freed node is followed

-----------------------------------------------------------------------------
(* The tree.                                                               *)

Kids(s, M) == UNION {Range(s.kids[n]) : n \in M}

Below(s, n) ==
  LET level[k \in Nodes] == IF k = 0 THEN Kids(s, {n}) ELSE level[k - 1] \cup Kids(s, level[k - 1])
  IN  level[N]

Parent(s, n) == CHOOSE p \in s.live : n \in Kids(s, {p})

Follow(s, n) == IF n \in s.live \/ s.fate # "ok" THEN s ELSE [s EXCEPT !.fate = "freed"]

\* pcdom_node_destroy_deep of nodes with all that is below them.
Free(s, D) ==
  [s EXCEPT !.live = @ \ D,
            !.kids = [n \in Nodes |-> IF n \in D THEN <<>>
                                      ELSE SelectSeq(s.kids[n], LAMBDA k : k \notin D)],
            !.handle = [n \in Nodes |-> IF n \in D THEN None ELSE s.handle[n]]]

\* Addresses for the elements of a fragment, in document order.
Spare(s) == (2..N) \ (s.live \cup {s.map[h] : h \in Handles} \cup s.entries)
Fits(s, frag) == Len(frag) <= Cardinality(Spare(s))
Places(s, frag) == SubSeq(SetToSortSeq(Spare(s), <), 1, Len(frag))

ChildrenAt(frag, at, up) ==
  LET js == SelectSeq([i \in DOMAIN frag |-> i], LAMBDA i : frag[i].up = up)
  IN  [j \in DOMAIN js |-> at[js[j]]]

\* dom_parse_fragment: the new elements, not in the tree yet.
Parse(s, frag, at) ==
  LET place(n) == CHOOSE i \in DOMAIN at : at[i] = n IN
  [s EXCEPT !.live = @ \cup Range(at),
            !.kids = [n \in Nodes |-> IF n \in Range(at) THEN ChildrenAt(frag, at, place(n)) ELSE @[n]],
            !.handle = [n \in Nodes |-> IF n \in Range(at) THEN frag[place(n)].h ELSE @[n]]]

-----------------------------------------------------------------------------
(* The map.  The walks leave out the node they start from.                 *)

\* A handle that is there already stays with its element.
Merge(s, M) ==
  [s EXCEPT !.map = [h \in Handles |->
     LET carriers == {n \in M : s.handle[n] = h} IN
     IF @[h] # None \/ carriers = {} THEN @[h] ELSE Min(carriers)]]

Subtract(s, M) ==
  [s EXCEPT !.map = [h \in Handles |-> IF \E n \in M : s.handle[n] = h THEN None ELSE @[h]]]

Lookup(s, h) == IF h = 0 THEN Root ELSE s.map[h]
Elements(s, hs) == SelectSeq([i \in DOMAIN hs |-> Lookup(s, hs[i])], LAMBDA n : n # None)

-----------------------------------------------------------------------------
(* dom-ops.c, on one element.                                              *)

\* Mutant: the map keeps the elements that go.
EmptyKeepsMap(s, e) == Free(Follow(s, e), Below(s, e))

\* Walk, then destroy, what is below an element.
Empty(s, e) == Free(Subtract(Follow(s, e), Below(s, e)), Below(s, e))

AppendTo(s, e, tops) == [s EXCEPT !.kids[e] = @ \o tops]

\* Mutant: the children are taken first to last.
PrependFirstToLast(s, e, tops) == [s EXCEPT !.kids[e] = Reverse(tops) \o @]

PrependTo(s, e, tops) == [s EXCEPT !.kids[e] = tops \o @]

\* Each child is put next to e: several end up in the reverse order.
InsertBeside(s, e, tops, after) ==
  LET p == Parent(s, e)
      i == CHOOSE j \in DOMAIN s.kids[p] : s.kids[p][j] = e
      k == IF after THEN i ELSE i - 1
  IN  [s EXCEPT !.kids[p] = SubSeq(@, 1, k) \o Reverse(tops) \o SubSeq(@, k + 1, Len(@))]

Displace(s, e, frag, at) ==
  AppendTo(Merge(Empty(Parse(s, frag, at), e), Range(at)), e, ChildrenAt(frag, at, 0))

\* dom_append_subtree_to_element and the like.
Put(op, s, e, frag, at) ==
  LET t == Merge(Parse(s, frag, at), Range(at))
      tops == ChildrenAt(frag, at, 0)
  IN  CASE op = "append" -> AppendTo(t, e, tops)
        [] op = "prepend" -> PrependTo(t, e, tops)
        [] op = "insertBefore" -> InsertBeside(t, e, tops, FALSE)
        [] op = "insertAfter" -> InsertBeside(t, e, tops, TRUE)
        [] op = "displace" -> Displace(s, e, frag, at)

\* dom_erase_element: its own handle after the subtree's.
Erase(s, e) == Free(Subtract(Empty(s, e), {e}), {e})

SetHandle(s, e, h) == LET t == Follow(s, e) IN IF e \in t.live THEN [t EXCEPT !.handle[e] = h] ELSE t

-----------------------------------------------------------------------------
(* The requests.  operate_dom_element finds the elements of the list       *)
(* first, then works on one after the other, then has the view reloaded    *)
(* with the first of them highlighted.                                     *)

\* domview_reload_window_dom, dom_tree_load, mark_ancestors_unfold.
Reload(s, e) == IF s.shown THEN [Follow(s, e) EXCEPT !.entries = s.live] ELSE s

Running == dom.fate = "ok"

Apart(s, els) ==
  \A i, j \in DOMAIN els : i # j => els[i] # els[j] /\ els[i] \notin Below(s, els[j])

\* What the remote program may still name when it puts `frag' somewhere.
Unused(frag, stay) ==
  \A i \in DOMAIN frag :
    frag[i].h \in Once => /\ \A n \in stay : dom.handle[n] # frag[i].h
                          /\ \A j \in DOMAIN frag : frag[j].h = frag[i].h => j = i

\* append, prepend, insertBefore, insertAfter, displace.
Insert ==
  \E op \in {"append", "prepend", "insertBefore", "insertAfter", "displace"},
     h \in Handles \cup {0}, frag \in {f \in Fragments : Fits(dom, f)} :
    LET e == Lookup(dom, h)
        beside == op \in {"insertBefore", "insertAfter"}
    IN  /\ Running
        /\ e # None
        /\ beside /\ e = Root => "root" \in Lapses
        /\ beside /\ Cardinality({i \in DOMAIN frag : frag[i].up = 0}) > 1 => "insert" \in Lapses
        /\ Unused(frag, dom.live \ (IF op = "displace" THEN Below(dom, e) ELSE {}))
        /\ dom' = Reload(IF e \in dom.live THEN Put(op, dom, e, frag, Places(dom, frag))
                                           ELSE Follow(dom, e), e)

\* The requests that take a list.
OnList(hs) ==
  /\ Running
  /\ Elements(dom, hs) # <<>>
  /\ "list" \in Lapses \/ Apart(dom, Elements(dom, hs))

\* clear, and update of textContent.
EmptyElements ==
  \E hs \in Lists : OnList(hs) /\ dom' = Reload(FoldLeft(Empty, dom, Elements(dom, hs)), Elements(dom, hs)[1])

EraseElements ==
  \E hs \in Lists :
    /\ OnList(hs)
    /\ Root \in Range(Elements(dom, hs)) => "root" \in Lapses
    /\ dom.shown => "erase" \in Lapses
    /\ dom' = Reload(FoldLeft(Erase, dom, Elements(dom, hs)), Elements(dom, hs)[1])

\* update, and erase, of attr.hvml-handle: the map is not told.  (Other
\* attributes are left out.)
ChangeHandles ==
  \E hs \in Lists, h \in (Handles \ Once) \cup {None} :
    /\ OnList(hs)
    /\ "attr" \in Lapses \/ \A e \in Range(Elements(dom, hs)) : e = Root
    /\ dom' = Reload(FoldLeft(LAMBDA s, e : SetHandle(s, e, h), dom, Elements(dom, hs)),
                     Elements(dom, hs)[1])

-----------------------------------------------------------------------------
(* The user.                                                               *)

Show ==
  /\ Running /\ ~dom.shown
  /\ dom' = [dom EXCEPT !.shown = TRUE, !.entries = dom.live]

Hide ==
  /\ Running /\ dom.shown
  /\ dom' = [dom EXCEPT !.shown = FALSE, !.entries = {}]

Init ==
  dom = [live |-> {0, Root}, kids |-> [n \in Nodes |-> IF n = 0 THEN <<Root>> ELSE <<>>],
         handle |-> [n \in Nodes |-> None], map |-> [h \in Handles |-> None],
         shown |-> FALSE, entries |-> {}, fate |-> "ok"]

Next == Insert \/ EmptyElements \/ EraseElements \/ ChangeHandles \/ Show \/ Hide

Spec == Init /\ [][Next]_dom

-----------------------------------------------------------------------------
(* Properties.                                                             *)

\* Every node that is allocated is in the tree, once: no operation loses a
\* subtree or puts one in two places.
TypeOK ==
  /\ dom.live \subseteq Nodes /\ dom.live = {0} \cup Below(dom, 0)
  /\ dom.kids \in [Nodes -> Seq(Nodes)] /\ dom.handle \in [Nodes -> Handles \cup {None}]
  /\ \A n \in Nodes : n \notin dom.live => dom.kids[n] = <<>>
  /\ \A n \in dom.live \ {0} :
       Cardinality({<<p, i>> \in Nodes \X (1..N) : i \in DOMAIN dom.kids[p] /\ dom.kids[p][i] = n}) = 1
  /\ dom.map \in [Handles -> Nodes \cup {None}]
  /\ dom.shown \in BOOLEAN /\ dom.entries \subseteq Nodes /\ dom.fate \in {"ok", "freed"}

\* What a handle finds is an element of the document that carries it, even
\* when several elements were given the same one.
MapAlive ==
  \A h \in Handles : dom.map[h] # None => dom.map[h] \in dom.live /\ dom.handle[dom.map[h]] = h

\* An element whose handle the remote program gave to no other one is found
\* by it, whatever was displaced, cleared or erased around it.
OnceMapped ==
  \A n \in dom.live : dom.handle[n] \in Once => dom.map[dom.handle[n]] = n

\* The tree on the screen points to no node that was destroyed.
ScreenAlive == dom.entries \subseteq dom.live

\* No request follows a pointer to a destroyed element.
NoFault == dom.fate = "ok"

\* Elements that stay keep the order among their siblings, and new ones stand
\* in the order they have in the fragment (of which addresses are given in
\* that order, see Places).
OrderKept ==
  [][\A p \in dom.live \cap dom'.live :
       LET stay(ks) == SelectSeq(ks, LAMBDA n : n \in dom.live /\ n \in dom'.live)
           new == SelectSeq(dom'.kids[p], LAMBDA n : n \notin dom.live)
       IN  /\ stay(dom.kids[p]) = stay(dom'.kids[p])
           /\ \A i, j \in DOMAIN new : i < j => new[i] < new[j]]_dom
=============================================================================
