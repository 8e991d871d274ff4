------------------------------ MODULE EditUndo ------------------------------
(***************************************************************************)
(* The text of an editor window and its two stacks of reverse actions      *)
(* (editor/edit.c, editor/editbuffer.c).  The text is kept as the bytes    *)
(* before the cursor and the bytes after it.  Each stack is a ring of      *)
(* codes: a repeated code is stored once, with a negative count above it;  *)
(* KEY_PRESS parts the commands; a full ring forgets its oldest command.   *)
(*                                                                         *)
(* Not modelled: marks and bookmarks, multibyte characters, the position   *)
(* of the display (KEY_PRESS carries none), a ring that grows              *)
(* (option_max_undo is the size it starts with) and option_group_undo.     *)
(***************************************************************************)
EXTENDS Integers, Sequences, SequencesExt

CONSTANTS
    FirstText,      \* the file as loaded, the cursor before it
    Letters,        \* bytes the user types
    Size,           \* undo_stack_size, a power of two
    MaxText,        \* bound: length of the text
    MaxKeys         \* bound: commands

NL == 10
CURS_LEFT == 601
CURS_RIGHT == 602
DELCHAR == 603
BACKSPACE == 604
DELCHAR_BR == 610
BACKSPACE_BR == 611
KEY_PRESS == 1500
STACK_BOTTOM == 9999

Constants ==
    /\ FirstText \in Seq(1..255) /\ Letters \subseteq 1..255
    /\ Size \in {2^k : k \in 3..10} /\ MaxText \in Nat /\ MaxKeys \in Nat

VARIABLES
    ed,         \* the WEdit: text, line counters, both stacks
    past,       \* history: the text and cursor before each command
    keys        \* commands so far

vars == <<ed, past, keys>>

EmptyRing == [a |-> [i \in 0..(Size - 1) |-> 0], sp |-> 0, bottom |-> 0]
Lines(s) == Len(SelectSeq(s, LAMBDA c : c = NL))

Init ==
    /\ ed = [s1 |-> <<>>, s2 |-> FirstText, lines |-> Lines(FirstText), curs_line |-> 0,
             undo |-> EmptyRing, redo |-> EmptyRing, reset |-> FALSE, disable |-> FALSE]
    /\ past = <<>>
    /\ keys = 0

-----------------------------------------------------------------------------
(* The rings.                                                              *)

In(i) == i % Size

(* bottom goes forward one command when the top comes close to it, and     *)
(* both start over when one command has filled the ring.                   *)
Forget(r) ==
    LET near == {In(r.sp + 2), In(r.sp + 3)}
        next == CHOOSE k \in 1..Size :
                  LET Stop(j) == r.a[In(r.bottom + j)] >= KEY_PRESS \/ In(r.bottom + j) = r.sp
                  IN  Stop(k) /\ \A j \in 1..(k - 1) : ~Stop(j)
        b == IF r.bottom \in near THEN In(r.bottom + next) ELSE r.bottom
    IN  IF r.sp # b /\ r.a[b] < KEY_PRESS THEN [r EXCEPT !.sp = 0, !.bottom = 0]
        ELSE [r EXCEPT !.bottom = b]

(* A code equal to the one on top is counted, a KEY_PRESS dropped.         *)
Push(r, c) ==
    LET sp1 == In(r.sp - 1)
        sp2 == In(r.sp - 2)
        deep == r.bottom \notin {r.sp, sp1, sp2}
        Put(v) == Forget([r EXCEPT !.a[r.sp] = v, !.sp = In(r.sp + 1)])
    IN  IF deep /\ r.a[sp1] < 0 /\ r.a[sp2] = c
        THEN IF c < KEY_PRESS THEN [r EXCEPT !.a[sp1] = @ - 1] ELSE r
        ELSE IF deep /\ r.a[sp1] = c
        THEN IF c >= KEY_PRESS THEN r ELSE Put(-2)
        ELSE Put(c)

\* Mutant: a code that is counted is taken once, however often it stands.
PopUncounted(r) ==
    LET sp1 == In(r.sp - 1)
        sp2 == In(sp1 - 1)
    IN  IF r.sp = r.bottom THEN <<STACK_BOTTOM, r>>
        ELSE IF r.a[sp1] >= 0 THEN <<r.a[sp1], [r EXCEPT !.sp = sp1]>>
        ELSE IF sp1 = r.bottom THEN <<STACK_BOTTOM, r>>
        ELSE <<r.a[sp2], [r EXCEPT !.sp = sp2]>>

(* <<the code on top, the ring without it>>.                               *)
Pop(r) ==
    LET sp1 == In(r.sp - 1)
        c == r.a[In(sp1 - 1)]
    IN  IF r.sp = r.bottom THEN <<STACK_BOTTOM, r>>
        ELSE IF r.a[sp1] >= 0 THEN <<r.a[sp1], [r EXCEPT !.sp = sp1]>>
        ELSE IF sp1 = r.bottom THEN <<STACK_BOTTOM, r>>
        ELSE IF r.a[sp1] = -2 THEN <<c, [r EXCEPT !.sp = sp1]>>
        ELSE <<c, [r EXCEPT !.a[sp1] = @ + 1]>>

(* edit_push_undo_action: while an undo runs, its reverse goes to the redo *)
(* stack; otherwise a new command drops what could be redone.              *)
Record(e, c) ==
    IF e.disable THEN [e EXCEPT !.redo = Push(Push(@, KEY_PRESS), c)]
    ELSE [e EXCEPT !.undo = Push(@, c),
                   !.redo = IF e.reset THEN [@ EXCEPT !.sp = 0, !.bottom = 0] ELSE @]

-----------------------------------------------------------------------------
(* The elementary changes, each recording its reverse.                     *)

IsNL(c) == IF c = NL THEN 1 ELSE 0

Insert(e, c) ==
    LET f == Record(e, IF c > 32 THEN BACKSPACE ELSE BACKSPACE_BR)
    IN  [f EXCEPT !.s1 = Append(@, c), !.lines = @ + IsNL(c), !.curs_line = @ + IsNL(c)]

InsertAhead(e, c) ==
    LET f == Record(e, IF c > 32 THEN DELCHAR ELSE DELCHAR_BR)
    IN  [f EXCEPT !.s2 = <<c>> \o @, !.lines = @ + IsNL(c)]

Delete(e) ==
    IF e.s2 = <<>> THEN e
    ELSE LET c == Head(e.s2)
             f == Record(e, c + 256)
         IN  [f EXCEPT !.s2 = Tail(@), !.lines = @ - IsNL(c)]

Backspace(e) ==
    IF e.s1 = <<>> THEN e
    ELSE LET c == Last(e.s1)
             f == Record(e, c)
         IN  [f EXCEPT !.s1 = Front(@), !.lines = @ - IsNL(c), !.curs_line = @ - IsNL(c)]

Left(e) ==
    IF e.s1 = <<>> THEN e
    ELSE LET f == Record(e, CURS_RIGHT)
         IN  [f EXCEPT !.s1 = Front(@), !.s2 = <<Last(e.s1)>> \o @,
                       !.curs_line = @ - IsNL(Last(e.s1))]

Right(e) ==
    IF e.s2 = <<>> THEN e
    ELSE LET f == Record(e, CURS_LEFT)
         IN  [f EXCEPT !.s1 = Append(@, Head(e.s2)), !.s2 = Tail(@),
                       !.curs_line = @ + IsNL(Head(e.s2))]

(* edit_delete_to_line_begin. *)
RECURSIVE DeleteToHome(_)
DeleteToHome(e) ==
    IF e.s1 = <<>> THEN e
    ELSE IF Last(e.s1) = NL THEN e ELSE DeleteToHome(Backspace(e))

-----------------------------------------------------------------------------
(* Undo takes codes up to the next KEY_PRESS, redo too - but redo knows no *)
(* reverse of a blank.                                                     *)

\* Mutant: a redo puts back ahead of the cursor what was typed.
PerformAhead(e, c, isRedo) ==
    CASE c = CURS_RIGHT -> Right(e)
      [] c = CURS_LEFT -> Left(e)
      [] c = BACKSPACE \/ (c = BACKSPACE_BR /\ ~isRedo) -> Backspace(e)
      [] c = DELCHAR \/ (c = DELCHAR_BR /\ ~isRedo) -> Delete(e)
      [] c \in 256..511 -> InsertAhead(e, c - 256)
      [] c \in 0..255 /\ isRedo -> InsertAhead(e, c)
      [] c \in 0..255 /\ ~isRedo -> Insert(e, c)
      [] OTHER -> e

Perform(e, c, isRedo) ==
    CASE c = CURS_RIGHT -> Right(e)
      [] c = CURS_LEFT -> Left(e)
      [] c = BACKSPACE \/ (c = BACKSPACE_BR /\ ~isRedo) -> Backspace(e)
      [] c = DELCHAR \/ (c = DELCHAR_BR /\ ~isRedo) -> Delete(e)
      [] c \in 256..511 -> InsertAhead(e, c - 256)
      [] c \in 0..255 -> Insert(e, c)
      [] OTHER -> e

RECURSIVE DoUndo(_)
DoUndo(e) ==
    LET top == Pop(e.undo)
        f == [e EXCEPT !.undo = top[2]]
    IN  IF top[1] >= KEY_PRESS THEN f ELSE DoUndo(Perform(f, top[1], FALSE))

RECURSIVE DoRedo(_)
DoRedo(e) ==
    LET top == Pop(e.redo)
        f == [e EXCEPT !.redo = top[2]]
    IN  IF top[1] >= KEY_PRESS THEN f ELSE DoRedo(Perform(f, top[1], TRUE))

(* CK_Undo, and CK_Redo, before which a KEY_PRESS is pushed as well. *)
AfterUndo(e) ==
    [DoUndo([e EXCEPT !.reset = FALSE, !.disable = TRUE]) EXCEPT !.disable = FALSE]
AfterRedo(e) == DoRedo([Record(e, KEY_PRESS) EXCEPT !.reset = FALSE])

-----------------------------------------------------------------------------
Place(e) == <<e.s1, e.s2>>
Room(n) == Len(ed.s1) + Len(ed.s2) + n <= MaxText

(* edit_execute_key_command: every command but undo begins with KEY_PRESS. *)
Key == /\ keys < MaxKeys /\ keys' = keys + 1
Ordinary(Do(_)) ==
    /\ Key
    /\ ed' = Do([Record(ed, KEY_PRESS) EXCEPT !.reset = TRUE])
    /\ past' = Append(past, Place(ed))

Type == \E c \in Letters : Room(1) /\ Ordinary(LAMBDA e : Insert(e, c))
BackspaceKey == Ordinary(Backspace)
DeleteKey == Ordinary(Delete)
LeftKey == Ordinary(Left)
RightKey == Ordinary(Right)
HomeKey == Ordinary(DeleteToHome)

(* The history forgets the commands that the undo went back over.          *)
Undo ==
    /\ Key
    /\ ed' = AfterUndo(ed)
    /\ LET back == {i \in 1..Len(past) : past[i] = Place(ed')}
       IN  past' = IF back = {} THEN past
                   ELSE SubSeq(past, 1, (CHOOSE i \in back : \A j \in back : j <= i) - 1)

Redo ==
    /\ Key
    /\ ed' = AfterRedo(ed)
    /\ past' = Append(past, Place(ed))

Next == \/ Type \/ BackspaceKey \/ DeleteKey \/ LeftKey \/ RightKey \/ HomeKey \/ Undo \/ Redo

Spec == Init /\ [][Next]_vars

-----------------------------------------------------------------------------
(* Properties.                                                             *)

RingOK(r) == r.a \in [0..(Size - 1) -> Int] /\ r.sp \in 0..(Size - 1) /\ r.bottom \in 0..(Size - 1)
TypeOK ==
    /\ ed.s1 \in Seq(1..255) /\ ed.s2 \in Seq(1..255)
    /\ RingOK(ed.undo) /\ RingOK(ed.redo)
    /\ ed.reset \in BOOLEAN /\ ed.disable = FALSE
    /\ keys \in 0..MaxKeys

(* The line counters agree with the text, whichever way it was changed.    *)
LinesCounted ==
    ed.lines = Lines(ed.s1 \o ed.s2) /\ ed.curs_line = Lines(ed.s1)

(* Undo brings back text and cursor exactly as they were before the last   *)
(* command that changed them, or leaves them alone when the ring has       *)
(* nothing more: it never stops half way in a command nor skips one.       *)
UndoGoesBackOne ==
    [][Undo => \/ Place(ed') = Place(ed)
               \/ \E i \in 1..Len(past) :
                     /\ past[i] = Place(ed')
                     /\ \A j \in (i + 1)..Len(past) : past[j] = Place(ed)]_vars

(* An undo can be taken back: redo, as often as it does something, leads   *)
(* to the text and cursor before the undo - when the ring had room for     *)
(* every part of it and no part of it took a blank away, whose reverse     *)
(* redo does not know.                                                     *)
RECURSIVE RedoAll(_)
RedoAll(e) == IF e.redo.sp = e.redo.bottom THEN e ELSE RedoAll(AfterRedo(e))
RedoGivesBack ==
    LET e == AfterUndo(ed)
        taken == {e.redo.a[i] : i \in 0..(e.redo.sp - 1)}
    IN  /\ ed.redo.sp = ed.redo.bottom /\ ~ed.disable
        /\ e.redo.bottom = 0 /\ e.redo.sp \in 1..(Size - 4)
        /\ taken \cap {BACKSPACE_BR, DELCHAR_BR} = {}
        => Place(RedoAll(e)) = Place(ed)
=============================================================================
