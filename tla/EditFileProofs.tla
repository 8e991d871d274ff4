--------------------------- MODULE EditFileProofs ---------------------------
(***************************************************************************)
(* What EditFile promises, for any number of processes, windows and names: *)
(* a window that believes it holds a lock does hold it (LockIsOwn), and a  *)
(* save that is not a quick one keeps a complete text at every step        *)
(* (TextKept).                                                             *)
(*                                                                         *)
(* The argument for the locks: of a name whose link nobody has shaken, at  *)
(* most one window believes that it holds the lock; while a save holds it  *)
(* for a moment no window does; and a process that is about to remove the  *)
(* link has no window that counts on it (LockSound).  For the texts: until *)
(* it is renamed, only the save itself knows the new file (Kept).          *)
(***************************************************************************)
EXTENDS EditFile, FiniteSetTheorems, TLAPS

-----------------------------------------------------------------------------
(* The inductive invariant.                                                *)

Locking == {"readlink", "ask", "unlink", "symlink"}
Saving == {"check", "confirm", "create", "write", "restat", "backup", "rename"}
Writing == {"write", "restat", "backup", "rename"}
Unlocking == {"unstat", "unread", "remove"}

WEdits == [file : Names \cup {NoName}, buf : SUBSET Edits,
           modified : BOOLEAN, locked : BOOLEAN, stat : Stamps \cup {0},
           delete_file : BOOLEAN, told : BOOLEAN]
Ops == [pc : Pcs, w : Windows \cup {Idle.w}, f : Names \cup {NoName},
        why : {"none", "modify", "save", "saveas"}, held : BOOLEAN,
        mode : {"quick", "safe", "backup"}, ino : Inodes \cup {0}, todo : Seq(Names),
        then : {"idle", "saveas", "close", "delete"}, closing : BOOLEAN]
Disks == [Inodes -> [data : SUBSET Edits, time : Stamps, torn : BOOLEAN]]

(* The types of all but the windows and the commands. *)
Typed ==
    /\ dir \in [Names -> Inodes \cup {0}] /\ bak \in [Names -> Inodes \cup {0}]
    /\ inode \in Disks
    /\ lock \in [Names -> Procs \cup {NoLock, Dead}]
    /\ used \in [Windows -> Nat] /\ (\A w \in Windows : used[w] \in 0..Budget[w])
    /\ faults \in 0..MaxFaults
    /\ shaken \subseteq Names /\ bare \subseteq Names /\ silent \in BOOLEAN

(* A window d to which n commands were given. *)
WinFits(d, n) ==
    /\ d \in WEdits
    /\ d.locked => d.file # NoName
    /\ d.modified \/ d.delete_file => n # 0

(* Process p in command o, when the windows are ws and us commands were    *)
(* given to them.                                                          *)
OpFits(p, o, ws, us) ==
    /\ o \in Ops
    /\ o.pc = "idle" => o = Idle
    /\ o.pc # "idle" => /\ o.w \in Windows /\ Owner[o.w] = p
                        /\ ws[o.w].file \in Names /\ us[o.w] # 0
    /\ o.pc \in {"read"} \cup Locking \cup Saving => o.f \in Names
    /\ o.pc \in Locking /\ o.why = "modify" => o.f = ws[o.w].file
    /\ o.pc \in Unlocking <=> o.todo # <<>>
    /\ o.pc \in Writing <=> o.ino # 0
    /\ o.then = "delete" => o.pc \in Unlocking \cup {"delete"}

InStep ==
    /\ win \in [Windows -> WEdits] /\ \A w \in Windows : WinFits(win[w], used[w])
    /\ op \in [Procs -> Ops] /\ \A p \in Procs : OpFits(p, op[p], win, used)

(* Window w believes that it has name f locked; process p holds f for a    *)
(* save; process p is about to unlock f.                                   *)
Claims(w, f) == win[w].locked /\ win[w].file = f /\ ~Closing(w)
Holds(p, f) == op[p].held /\ op[p].f = f /\ op[p].pc \in Saving
Owes(p, f) == \E i \in 1..Len(op[p].todo) : op[p].todo[i] = f

LockSound(f) ==
    /\ \A w \in Windows : Claims(w, f) => lock[f] = Owner[w]
    /\ \A w, v \in Windows : Claims(w, f) /\ Claims(v, f) => w = v
    /\ \A p \in Procs : Holds(p, f) => lock[f] = p /\ \A w \in Windows : ~Claims(w, f)
    /\ \A p \in Procs, w \in Windows : Owes(p, f) /\ Owner[w] = p => ~Claims(w, f)
LocksSound == \A f \in Names \ shaken : LockSound(f)

(* Until it is renamed, nobody but p leads to the inode of a save of p     *)
(* that is not a quick one; once it is written, it holds the whole text.   *)
Aside(p) == op[p].mode # "quick" /\ op[p].pc \in {"write", "backup", "rename"}
Kept(p) ==
    /\ \A f \in Names : dir[f] # op[p].ino /\ bak[f] # op[p].ino
    /\ \A q \in Procs : q # p => op[q].ino # op[p].ino
    /\ op[p].pc # "write" =>
         inode[op[p].ino].data = Win(p).buf /\ ~inode[op[p].ino].torn
QuickOnly(p) ==
    /\ op[p].pc = "restat" => op[p].mode = "quick"
    /\ op[p].pc \in {"backup", "rename"} => op[p].mode # "quick"
    /\ op[p].pc \in {"idle", "read", "delete"} \cup Locking \/ op[p].then = "delete"
         => op[p].mode = "quick"
AsideKept == \A p \in Procs : QuickOnly(p) /\ (Aside(p) => Kept(p))

IInv == Typed /\ InStep /\ LocksSound /\ AsideKept

-----------------------------------------------------------------------------
(* There is always an inode and a time stamp to take.                      *)

\* A function's values are no more than its arguments.
LEMMA ValuesBounded ==
  ASSUME NEW S, IsFiniteSet(S), NEW T, NEW g \in [S -> T]
  PROVE  /\ IsFiniteSet({g[x] : x \in S}) /\ Cardinality({g[x] : x \in S}) \in Nat
         /\ Cardinality({g[x] : x \in S}) <= Cardinality(S)
<1> DEFINE V == {g[x] : x \in S}
<1>1. g \in Surjection(S, V)
  BY DEF Surjection
<1>2. IsFiniteSet(V) /\ Cardinality(V) <= Cardinality(S)
  <2> HIDE DEF V
  <2> QED BY <1>1, FS_Surjection
<1> QED
  BY <1>2, FS_CardinalityType

\* The union of two sets is no larger than both together.
LEMMA UnionBounded ==
  ASSUME NEW S, NEW T, IsFiniteSet(S), IsFiniteSet(T)
  PROVE  /\ IsFiniteSet(S \cup T) /\ Cardinality(S \cup T) \in Nat
         /\ Cardinality(S \cup T) <= Cardinality(S) + Cardinality(T)
<1>1. IsFiniteSet(S \cap T) /\ Cardinality(S \cap T) \in Nat
  BY FS_Intersection, FS_CardinalityType
<1>2. Cardinality(S) \in Nat /\ Cardinality(T) \in Nat
  BY FS_CardinalityType
<1>3. IsFiniteSet(S \cup T) /\ Cardinality(S \cup T) \in Nat
  BY FS_Union, FS_CardinalityType
<1>4. Cardinality(S \cup T) = Cardinality(S) + Cardinality(T) - Cardinality(S \cap T)
  BY FS_Union
<1> QED
  BY <1>1, <1>2, <1>3, <1>4

\* A larger set has something that a smaller one lacks.
LEMMA OneLeft ==
  ASSUME NEW S, NEW T, IsFiniteSet(S), IsFiniteSet(T), Cardinality(S) < Cardinality(T)
  PROVE  \E t \in T : t \notin S
<1> SUFFICES ASSUME T \in SUBSET S
             PROVE  FALSE
  OBVIOUS
<1>1. Cardinality(T) <= Cardinality(S)
  BY FS_Subset
<1> QED
  BY <1>1, FS_CardinalityType

\* The bounds on inodes and time stamps are numbers.
LEMMA Sizes ==
  ASSUME Constants
  PROVE  /\ Cardinality(Names) \in Nat /\ Cardinality(Procs) \in Nat
         /\ Cardinality(Windows) \in Nat
         /\ IsFiniteSet(Inodes) /\ Inodes \subseteq Nat \ {0}
         /\ Cardinality(Inodes) = 2 * Cardinality(Names) + Cardinality(Procs)
         /\ IsFiniteSet(Stamps) /\ Stamps \subseteq Nat \ {0} /\ 1 \in Stamps
         /\ Cardinality(Stamps) = Cardinality(Inodes) + Cardinality(Windows) + 1
<1> DEFINE n == 2 * Cardinality(Names) + Cardinality(Procs)
<1>1. /\ Cardinality(Names) \in Nat /\ Cardinality(Procs) \in Nat
      /\ Cardinality(Windows) \in Nat
  BY FS_CardinalityType DEF Constants
<1>2. n \in Nat /\ 1 \in Int
  BY <1>1
<1>3. IsFiniteSet(1..n) /\ Cardinality(1..n) = n
  <2> HIDE DEF n
  <2> QED BY <1>2, FS_Interval
<1>4. IsFiniteSet(Inodes) /\ Cardinality(Inodes) = n
  BY <1>3 DEF Inodes
<1> DEFINE m == Cardinality(Inodes) + Cardinality(Windows) + 1
<1>5. m \in Nat /\ m >= 1
  BY <1>1, <1>2, <1>4
<1>6. IsFiniteSet(1..m) /\ Cardinality(1..m) = m
  <2> HIDE DEF m
  <2> QED BY <1>5, FS_Interval
<1>7. Stamps = 1..m
  BY DEF Stamps
<1> HIDE DEF m
<1> QED
  BY <1>1, <1>4, <1>5, <1>6, <1>7 DEF Inodes, m

\* NextStamps takes a time stamp that nobody knows.
LEMMA FreshStampIs ==
  ASSUME Constants, Typed, InStep
  PROVE  /\ FreshStamp \in Stamps
         /\ \A i \in Inodes : inode[i].time # FreshStamp
         /\ \A w \in Windows : win[w].stat # FreshStamp
<1> DEFINE times == [i \in Inodes |-> inode[i].time]
           stats == [w \in Windows |-> win[w].stat]
           A == {times[i] : i \in Inodes}
           B == {stats[w] : w \in Windows}
<1>1. IsFiniteSet(Inodes) /\ IsFiniteSet(Windows)
  BY Sizes DEF Constants
<1>2. times \in [Inodes -> Stamps] /\ stats \in [Windows -> Stamps \cup {0}]
  BY DEF Typed, InStep, Disks, WEdits
<1>3. IsFiniteSet(A) /\ Cardinality(A) \in Nat /\ Cardinality(A) <= Cardinality(Inodes)
  <2> HIDE DEF times
  <2> QED BY <1>1, <1>2, ValuesBounded
<1>4. IsFiniteSet(B) /\ Cardinality(B) \in Nat /\ Cardinality(B) <= Cardinality(Windows)
  <2> HIDE DEF stats
  <2> QED BY <1>1, <1>2, ValuesBounded
<1>5. /\ IsFiniteSet(A \cup B) /\ Cardinality(A \cup B) \in Nat
      /\ Cardinality(A \cup B) <= Cardinality(A) + Cardinality(B)
  <2> HIDE DEF A, B
  <2> QED BY <1>3, <1>4, UnionBounded
<1>6. Cardinality(A \cup B) < Cardinality(Stamps)
  <2> HIDE DEF A, B
  <2> QED BY <1>3, <1>4, <1>5, Sizes
<1>7. PICK t \in Stamps : t \notin A \cup B
  <2> HIDE DEF A, B
  <2> QED BY <1>5, <1>6, Sizes, OneLeft
<1>8. /\ \A i \in Inodes : inode[i].time # t
      /\ \A w \in Windows : win[w].stat # t
  BY <1>7
<1> QED
  BY <1>8 DEF FreshStamp

\* What FreeInode takes belongs to nobody; p has no inode in its hands.
LEMMA FreeInodeIs ==
  ASSUME Constants, Typed, InStep, NEW p \in Procs, op[p].ino = 0
  PROVE  /\ FreeInode \in Inodes
         /\ \A f \in Names : dir[f] # FreeInode /\ bak[f] # FreeInode
         /\ \A q \in Procs : op[q].ino # FreeInode
<1> DEFINE inos == [q \in Procs \ {p} |-> op[q].ino]
           A == {dir[f] : f \in Names}
           B == {bak[f] : f \in Names}
           C == {inos[q] : q \in Procs \ {p}}
<1>1. /\ IsFiniteSet(Names) /\ IsFiniteSet(Procs \ {p})
      /\ Cardinality(Procs \ {p}) = Cardinality(Procs) - 1
  BY FS_RemoveElement DEF Constants
<1>2. /\ dir \in [Names -> Inodes \cup {0}] /\ bak \in [Names -> Inodes \cup {0}]
      /\ inos \in [Procs \ {p} -> Inodes \cup {0}]
  BY DEF Typed, InStep, Ops
<1>3. IsFiniteSet(A) /\ Cardinality(A) \in Nat /\ Cardinality(A) <= Cardinality(Names)
  <2>1. IsFiniteSet(Names) /\ dir \in [Names -> Inodes \cup {0}]
    BY <1>1, <1>2
  <2> QED BY ONLY <2>1, ValuesBounded
<1>4. IsFiniteSet(B) /\ Cardinality(B) \in Nat /\ Cardinality(B) <= Cardinality(Names)
  <2>1. IsFiniteSet(Names) /\ bak \in [Names -> Inodes \cup {0}]
    BY <1>1, <1>2
  <2> QED BY ONLY <2>1, ValuesBounded
<1>5. IsFiniteSet(C) /\ Cardinality(C) \in Nat /\ Cardinality(C) <= Cardinality(Procs) - 1
  <2> HIDE DEF inos
  <2>1. IsFiniteSet(Procs \ {p}) /\ inos \in [Procs \ {p} -> Inodes \cup {0}]
    BY <1>1, <1>2
  <2>2. IsFiniteSet(C) /\ Cardinality(C) \in Nat /\ Cardinality(C) <= Cardinality(Procs \ {p})
    BY ONLY <2>1, ValuesBounded
  <2> QED BY <2>2, <1>1
<1>6. /\ IsFiniteSet(A \cup B) /\ Cardinality(A \cup B) \in Nat
      /\ Cardinality(A \cup B) <= Cardinality(A) + Cardinality(B)
  <2> HIDE DEF A, B
  <2> QED BY <1>3, <1>4, UnionBounded
<1>7. /\ IsFiniteSet((A \cup B) \cup C) /\ Cardinality((A \cup B) \cup C) \in Nat
      /\ Cardinality((A \cup B) \cup C) <= Cardinality(A \cup B) + Cardinality(C)
  <2> HIDE DEF A, B, C
  <2> QED BY <1>5, <1>6, UnionBounded
<1>8. Cardinality((A \cup B) \cup C) < Cardinality(Inodes)
  <2> HIDE DEF A, B, C
  <2> QED BY <1>3, <1>4, <1>5, <1>6, <1>7, Sizes
<1>9. PICK i \in Inodes : i \notin (A \cup B) \cup C
  <2> HIDE DEF A, B, C
  <2> QED BY <1>7, <1>8, Sizes, OneLeft
<1>10. /\ \A f \in Names : dir[f] # i /\ bak[f] # i
       /\ \A q \in Procs \ {p} : op[q].ino # i
  BY <1>9
<1>11. op[p].ino # i
  BY Sizes
<1> QED
  BY <1>10, <1>11 DEF FreeInode

-----------------------------------------------------------------------------
(* Commands: what they are made of.                                        *)

\* What a process at rest has in its hands.
LEMMA IdleIs ==
  /\ Idle.pc = "idle" /\ Idle.f = NoName /\ Idle.why = "none" /\ Idle.held = FALSE
  /\ Idle.mode = "quick" /\ Idle.ino = 0 /\ Idle.todo = <<>> /\ Idle.then = "idle"
  /\ Idle.closing = FALSE /\ Idle \in Ops
BY DEF Idle, Ops, Pcs

\* A closed window has no file, no lock and no changes.
LEMMA ClosedIs ==
  /\ Closed.file = NoName /\ ~Closed.locked /\ ~Closed.modified /\ ~Closed.delete_file
  /\ Closed \in WEdits
BY DEF Closed, WEdits

\* A command with a window of p to work on and no file in its hands.
Working(p, o, ws, us) ==
    /\ o \in Ops /\ o.w \in Windows /\ Owner[o.w] = p
    /\ ws[o.w].file \in Names /\ us[o.w] # 0 /\ o.ino = 0

\* What command o becomes when it has the locks of todo still to take down.
Unlocks(N, p, o, todo, ws, us) ==
    /\ N \in Ops /\ OpFits(p, N, ws, us)
    /\ N.pc \in Unlocking \cup {"idle", "saveas", "close", "delete"}
    /\ N.ino = 0 /\ N.todo = todo
    /\ o.then = "delete" => N.then = "delete" /\ N.w = o.w
    /\ N.then = "delete" \/ N.pc = "delete" => o.then = "delete"
    /\ N = Idle \/ (N.mode = o.mode /\ N.then = o.then)

\* Where an unlocking goes on to.
LEMMA ThenIs ==
  ASSUME NEW p, NEW o, NEW todo \in Seq(Names), NEW ws, NEW us, Working(p, o, ws, us)
  PROVE  Unlocks(Then(o, todo), p, o, todo, ws, us)
<1> USE DEF Working, Unlocks
<1>1. CASE todo # <<>>
  <2> DEFINE N == [o EXCEPT !.pc = "unstat", !.todo = todo]
  <2>1. Then(o, todo) = N
    BY <1>1 DEF Then
  <2>2. /\ N \in Ops /\ N.pc = "unstat" /\ N.todo = todo /\ N.w = o.w /\ N.f = o.f
        /\ N.ino = 0 /\ N.then = o.then /\ N.mode = o.mode
    BY DEF Ops, Pcs
  <2> HIDE DEF N
  <2> QED
    BY <1>1, <2>1, <2>2 DEF OpFits, Unlocking, Locking, Saving, Writing
<1>2. CASE todo = <<>> /\ o.then = "idle"
  BY <1>2, IdleIs DEF Then, OpFits, Unlocking, Locking, Saving, Writing
<1>3. CASE todo = <<>> /\ o.then # "idle"
  <2> DEFINE N == [o EXCEPT !.pc = o.then, !.todo = <<>>]
  <2>1. Then(o, todo) = N
    BY <1>3 DEF Then
  <2>2. o.then \in {"saveas", "close", "delete"} /\ o.then \in Pcs
    BY <1>3 DEF Ops, Pcs
  <2>3. /\ N \in Ops /\ N.pc = o.then /\ N.todo = <<>> /\ N.w = o.w /\ N.f = o.f
        /\ N.ino = 0 /\ N.then = o.then /\ N.mode = o.mode
    <3>1. <<>> \in Seq(Names)
      OBVIOUS
    <3> QED
      BY <2>2, <3>1 DEF Ops
  <2> HIDE DEF N
  <2> QED
    BY <1>3, <2>1, <2>2, <2>3 DEF OpFits, Unlocking, Locking, Saving, Writing
<1> QED
  BY <1>1, <1>2, <1>3

-----------------------------------------------------------------------------
(* What a step of one process leaves alone.                                *)

Apart(p) ==
    /\ \A q \in Procs : q # p => op'[q] = op[q]
    /\ \A w \in Windows : Owner[w] # p => win'[w] = win[w] /\ used'[w] = used[w]

\* A step of p that leaves what is not p's alone keeps everybody in step.
LEMMA StepInStep ==
  ASSUME InStep, NEW p \in Procs, Apart(p),
         op' \in [Procs -> Ops], win' \in [Windows -> WEdits],
         \A w \in Windows : Owner[w] = p => WinFits(win'[w], used'[w]),
         OpFits(p, op'[p], win', used')
  PROVE  InStep'
<1>1. ASSUME NEW w \in Windows
      PROVE  WinFits(win'[w], used'[w])
  <2>1. CASE Owner[w] = p
    BY <2>1
  <2>2. CASE Owner[w] # p
    BY <2>2 DEF InStep, Apart
  <2> QED
    BY <2>1, <2>2
<1>2. ASSUME NEW q \in Procs
      PROVE  OpFits(q, op'[q], win', used')
  <2>1. CASE q = p
    BY <2>1
  <2>2. CASE q # p
    <3>1. OpFits(q, op[q], win, used) /\ op'[q] = op[q]
      BY <2>2 DEF InStep, Apart
    <3>2. op[q].pc # "idle" =>
             /\ op[q].w \in Windows /\ Owner[op[q].w] # p
             /\ win'[op[q].w] = win[op[q].w] /\ used'[op[q].w] = used[op[q].w]
      BY <2>2, <3>1 DEF Apart, OpFits
    <3>3. op[q].pc \in Locking => op[q].pc # "idle"
      BY DEF Locking
    <3> QED
      BY <3>1, <3>2, <3>3 DEF OpFits
  <2> QED
    BY <2>1, <2>2
<1> QED
  BY <1>1, <1>2 DEF InStep

OpStep(p, N) == op' = [op EXCEPT ![p] = N]
WinStep(w, M) == win' = [win EXCEPT ![w] = M]

\* One command and one window change.
LEMMA StepWin ==
  ASSUME InStep, NEW p \in Procs, NEW N \in Ops, NEW w \in Windows, Owner[w] = p,
         NEW M \in WEdits, WinFits(M, used[w]),
         OpStep(p, N), WinStep(w, M), used' = used,
         OpFits(p, N, win', used')
  PROVE  InStep' /\ Apart(p) /\ op'[p] = N /\ win'[w] = M
<1>1. op' \in [Procs -> Ops] /\ win' \in [Windows -> WEdits] /\ op'[p] = N /\ win'[w] = M
  BY DEF InStep, OpStep, WinStep
<1>2. Apart(p)
  BY DEF Apart, InStep, OpStep, WinStep
<1>3. ASSUME NEW v \in Windows, Owner[v] = p
      PROVE  WinFits(win'[v], used'[v])
  <2>1. CASE v = w
    BY <1>1, <2>1
  <2>2. CASE v # w
    BY <2>2 DEF InStep, WinStep
  <2> QED
    BY <2>1, <2>2
<1> QED
  BY <1>1, <1>2, <1>3, StepInStep

\* Only one command changes.
LEMMA StepOp ==
  ASSUME InStep, NEW p \in Procs, NEW N \in Ops,
         OpStep(p, N), win' = win, used' = used,
         OpFits(p, N, win, used)
  PROVE  InStep' /\ Apart(p) /\ op'[p] = N
<1>1. op' \in [Procs -> Ops] /\ win' \in [Windows -> WEdits] /\ op'[p] = N
  BY DEF InStep, OpStep
<1>2. Apart(p)
  BY DEF Apart, InStep, OpStep
<1>3. \A v \in Windows : WinFits(win'[v], used'[v])
  BY DEF InStep
<1>4. OpFits(p, op'[p], win', used')
  BY <1>1
<1> QED
  BY <1>1, <1>2, <1>3, <1>4, StepInStep

\* Nobody believes in the lock of f or holds it.
Unused(f) == (\A w \in Windows : ~Claims(w, f)) /\ \A q \in Procs : ~Holds(q, f)

\* Nothing new is believed, held or about to be unlocked, and the links that are used stay.
LEMMA Calm ==
  ASSUME LocksSound, shaken \subseteq shaken',
         \A f \in Names \ shaken' :
            /\ lock'[f] = lock[f] \/ Unused(f)
            /\ \A w \in Windows : Claims(w, f)' => Claims(w, f)
            /\ \A q \in Procs : Holds(q, f)' => Holds(q, f)
            /\ \A q \in Procs : Owes(q, f)' =>
                  Owes(q, f) \/ \A w \in Windows : Owner[w] = q => ~Claims(w, f)'
  PROVE  LocksSound'
<1> SUFFICES ASSUME NEW f \in Names \ shaken'
             PROVE  LockSound(f)'
  BY DEF LocksSound
<1>1. LockSound(f)
  BY DEF LocksSound
<1> QED
  BY <1>1 DEF LockSound, Unused

\* The same of a step of one process.
LEMMA CalmStep ==
  ASSUME Constants, LocksSound, NEW p \in Procs, Apart(p), shaken \subseteq shaken',
         \A f \in Names \ shaken' :
            /\ lock'[f] = lock[f] \/ Unused(f)
            /\ \A w \in Windows : Owner[w] = p /\ Claims(w, f)' => Claims(w, f)
            /\ Holds(p, f)' => Holds(p, f)
            /\ Owes(p, f)' =>
                  Owes(p, f) \/ \A w \in Windows : Owner[w] = p => ~Claims(w, f)'
  PROVE  LocksSound'
<1> SUFFICES ASSUME NEW f \in Names \ shaken'
             PROVE  /\ lock'[f] = lock[f] \/ Unused(f)
                    /\ \A w \in Windows : Claims(w, f)' => Claims(w, f)
                    /\ \A q \in Procs : Holds(q, f)' => Holds(q, f)
                    /\ \A q \in Procs : Owes(q, f)' =>
                          Owes(q, f) \/ \A w \in Windows : Owner[w] = q => ~Claims(w, f)'
  BY Calm
<1>1. ASSUME NEW w \in Windows, Owner[w] # p
      PROVE  Claims(w, f)' <=> Claims(w, f)
  <2>1. win'[w] = win[w] /\ op'[Owner[w]] = op[Owner[w]]
    BY <1>1 DEF Apart, Constants
  <2> QED
    BY <2>1 DEF Claims, Closing
<1>2. ASSUME NEW q \in Procs, q # p
      PROVE  (Holds(q, f)' <=> Holds(q, f)) /\ (Owes(q, f)' <=> Owes(q, f))
  <2>1. op'[q] = op[q]
    BY <1>2 DEF Apart
  <2> QED
    BY <2>1 DEF Holds, Owes
<1> QED
  BY <1>1, <1>2

\* A step that leaves the files alone, of a process that writes none.
LEMMA QuietDisk ==
  ASSUME AsideKept, InStep, NEW p \in Procs, Apart(p), UNCHANGED disk,
         op'[p].ino = 0, QuickOnly(p)', ~Aside(p)'
  PROVE  AsideKept'
<1> SUFFICES ASSUME NEW q \in Procs
             PROVE  QuickOnly(q)' /\ (Aside(q)' => Kept(q)')
  BY DEF AsideKept
<1>1. CASE q = p
  BY <1>1
<1>2. CASE q # p
  <2>1. op'[q] = op[q]
    BY <1>2 DEF Apart
  <2>2. QuickOnly(q)' /\ (Aside(q)' <=> Aside(q))
    BY <2>1 DEF AsideKept, QuickOnly, Aside
  <2>3. ASSUME Aside(q)
        PROVE  Kept(q)'
    <3>1. op[q].ino # 0 /\ op[q].w \in Windows /\ Owner[op[q].w] = q
      BY <2>3 DEF InStep, OpFits, Aside, Writing
    <3>2. win'[op[q].w] = win[op[q].w]
      BY <1>2, <3>1 DEF Apart
    <3>3. \A r \in Procs : r # q => op'[r].ino # op[q].ino
      <4> SUFFICES ASSUME NEW r \in Procs, r # q
                   PROVE  op'[r].ino # op[q].ino
        OBVIOUS
      <4>1. CASE r = p
        BY <4>1, <3>1
      <4>2. CASE r # p
        BY <4>2, <2>3 DEF AsideKept, Kept, Apart
      <4> QED
        BY <4>1, <4>2
    <3> QED
      BY <2>1, <2>3, <3>2, <3>3 DEF AsideKept, Kept, Win, disk
  <2> QED
    BY <2>2, <2>3
<1> QED
  BY <1>1, <1>2

-----------------------------------------------------------------------------
(* Steps that take no lock and write no file.                              *)

\* A process in a command, and its window.
LEMMA Busy ==
  ASSUME Constants, InStep, NEW p \in Procs, op[p].pc # "idle"
  PROVE  /\ op[p] \in Ops /\ op[p].w \in Windows /\ Owner[op[p].w] = p
         /\ win[op[p].w] \in WEdits /\ win[op[p].w].file \in Names
         /\ win[op[p].w].file # NoName
         /\ used[op[p].w] # 0 /\ WinFits(win[op[p].w], used[op[p].w])
         /\ OpFits(p, op[p], win, used)
BY DEF InStep, OpFits, Constants

\* A command just begun, or over.
Fresh(o) ==
    /\ o.ino = 0 /\ o.todo = <<>> /\ o.then = "idle" /\ ~o.held /\ o.mode = "quick"
    /\ o.pc \in {"idle", "read", "saveas", "check"} \cup Locking

\* A step into a fresh command, or into one with no more in its hands than before, in
\* which the windows of p believe no more than before.
Lighter(p) ==
    /\ op'[p].ino = 0 /\ op'[p].pc \notin Writing
    /\ op'[p].mode = op[p].mode \/ Fresh(op'[p])
    /\ op'[p].pc \in Locking => Fresh(op'[p]) \/ op[p].pc \in Locking
    /\ op'[p].then # "idle" => op'[p].mode = op[p].mode /\ op'[p].then = op[p].then
    /\ op'[p].pc \in {"read", "delete"} =>
          Fresh(op'[p]) \/ (op[p].then = "delete" /\ op'[p].mode = op[p].mode)
    /\ op[p].then = "delete" => op'[p].then = "delete" /\ op'[p].w = op[p].w
    /\ op'[p].held /\ op'[p].pc \in Saving =>
          op[p].held /\ op[p].pc \in Saving /\ op[p].f = op'[p].f
    /\ \A f \in Names : Owes(p, f)' => Owes(p, f)
    /\ \A w \in Windows : Owner[w] = p /\ win'[w].locked =>
          win[w].locked /\ win[w].file = win'[w].file

\* A step by which p claims, holds and owes no more than before, on the same disk.
LEMMA LighterStep ==
  ASSUME Constants, IInv, NEW p \in Procs, Apart(p), Typed', InStep', Lighter(p),
         UNCHANGED disk, shaken \subseteq shaken',
         \A f \in Names \ shaken' : lock'[f] = lock[f] \/ Unused(f)
  PROVE  IInv'
<1>1. LocksSound'
  <2>1. ASSUME NEW f \in Names, NEW w \in Windows, Owner[w] = p, Claims(w, f)'
        PROVE  Claims(w, f)
    BY <2>1 DEF Claims, Closing, Lighter
  <2>2. ASSUME NEW f \in Names, Holds(p, f)'
        PROVE  Holds(p, f)
    BY <2>2 DEF Holds, Lighter
  <2>3. \A f \in Names : Owes(p, f)' => Owes(p, f)
    BY DEF Lighter
  <2> QED
    BY <2>1, <2>2, <2>3, CalmStep DEF IInv
<1>2. AsideKept'
  <2>1. op'[p].ino = 0 /\ ~Aside(p)' /\ op'[p].pc \notin Writing
    BY DEF Lighter, Aside, Writing
  <2>2. QuickOnly(p)'
    <3>1. op'[p].pc \notin {"restat", "backup", "rename"}
      BY <2>1 DEF Writing
    <3>2. op'[p].pc = "idle" => op'[p].mode = "quick"
      BY IdleIs DEF InStep, OpFits
    <3>3. op'[p].pc \in Locking => op'[p].mode = "quick"
      BY DEF Lighter, Fresh, QuickOnly, IInv, AsideKept
    <3>4. op'[p].pc \in {"read", "delete"} => op'[p].mode = "quick"
      BY DEF Lighter, Fresh, QuickOnly, IInv, AsideKept
    <3>5. op'[p].then = "delete" => op'[p].mode = "quick"
      BY DEF Lighter, QuickOnly, IInv, AsideKept
    <3> QED
      BY <3>1, <3>2, <3>3, <3>4, <3>5 DEF QuickOnly
  <2> QED
    BY <2>1, <2>2, QuietDisk DEF IInv
<1> QED
  BY <1>1, <1>2 DEF IInv

\* Action Read preserves the invariant.
LEMMA ReadStep ==
  ASSUME Constants, IInv, NEW p \in Procs, Read(p)
  PROVE  IInv'
<1> DEFINE w == op[p].w
           i == dir[op[p].f]
           M == IF i = 0 THEN Closed ELSE [win[w] EXCEPT !.buf = inode[i].data]
<1>1. op[p].pc = "read" /\ op[p].f \in Names /\ op[p].then # "delete"
  BY DEF Read, At, IInv, InStep, OpFits, Unlocking
<1>2. /\ w \in Windows /\ Owner[w] = p /\ win[w] \in WEdits /\ WinFits(win[w], used[w])
  BY <1>1, Busy DEF IInv
<1>3. /\ OpStep(p, Idle) /\ WinStep(w, M)
      /\ UNCHANGED <<disk, lock, history>> /\ used' = used
  BY <1>1 DEF Read, W, history, OpStep, WinStep
<1>4. i # 0 => inode[i].data \in SUBSET Edits
  BY <1>1 DEF IInv, Typed, Disks
<1>5. /\ M \in WEdits /\ WinFits(M, used[w])
      /\ M.locked => win[w].locked /\ M.file = win[w].file
  BY <1>2, <1>4, ClosedIs DEF WEdits, WinFits
<1> HIDE DEF M, i
<1>6. OpFits(p, Idle, win', used')
  BY IdleIs DEF OpFits, Unlocking, Locking, Saving, Writing
<1>7. InStep' /\ Apart(p) /\ op'[p] = Idle /\ win'[w] = M
  <2>1. InStep /\ Idle \in Ops
    BY IdleIs DEF IInv
  <2> HIDE DEF w
  <2> QED BY <1>2, <1>3, <1>5, <1>6, <2>1, StepWin
<1>8. Lighter(p)
  <2>1. \A v \in Windows : Owner[v] = p /\ win'[v].locked =>
          win[v].locked /\ win[v].file = win'[v].file
    BY <1>3, <1>5, <1>2 DEF IInv, InStep, WinStep
  <2>2. Fresh(op'[p]) /\ \A f \in Names : ~Owes(p, f)'
    BY <1>7, IdleIs DEF Fresh, Owes
  <2> QED
    BY <1>1, <1>7, <2>1, <2>2, IdleIs DEF Lighter, Writing, Locking, Saving
<1> QED
  BY <1>3, <1>7, <1>8, LighterStep DEF IInv, Typed, disk, history

-----------------------------------------------------------------------------
(* lock_file.                                                              *)

\* A process that looks for a link, reads it, asks, removes it or makes it.
LEMMA AtLock ==
  ASSUME Constants, IInv, NEW p \in Procs, op[p].pc \in Locking
  PROVE  /\ op[p].f \in Names /\ op[p].ino = 0 /\ op[p].todo = <<>>
         /\ op[p].then # "delete" /\ op[p].mode = "quick"
         /\ op[p].why = "modify" => op[p].f = win[op[p].w].file
         /\ \A f \in Names : ~Owes(p, f) /\ ~Holds(p, f)
<1>1. /\ op[p].pc \notin Unlocking \cup Writing \cup Saving \cup {"delete"}
  BY DEF Locking, Unlocking, Writing, Saving
<1>2. OpFits(p, op[p], win, used) /\ QuickOnly(p)
  BY DEF IInv, InStep, AsideKept
<1>3. op[p].todo = <<>> /\ op[p].ino = 0 /\ op[p].then # "delete"
  BY <1>1, <1>2 DEF OpFits
<1> QED
  BY <1>1, <1>2, <1>3 DEF OpFits, QuickOnly, Owes, Holds

Moved(N, o, pc) == N = [o EXCEPT !.pc = pc]
Back(N, o, got) ==
    N = IF o.why = "modify" THEN Idle ELSE [o EXCEPT !.held = got, !.pc = "check"]

\* The process goes on to another of these system calls.
LEMMA LockOn ==
  ASSUME Constants, IInv, NEW p \in Procs, op[p].pc \in Locking, NEW pc \in Locking,
         NEW N, Moved(N, op[p], pc), OpStep(p, N), used' = used,
         NEW M \in WEdits, WinStep(op[p].w, M),
         M.file = win[op[p].w].file, M.locked = win[op[p].w].locked,
         WinFits(M, used[op[p].w])
  PROVE  InStep' /\ Apart(p) /\ Lighter(p)
<1> DEFINE w == op[p].w
<1>1. op[p].pc # "idle" /\ pc # "idle" /\ pc \in Pcs
  BY DEF Locking, Pcs
<1>2. /\ op[p] \in Ops /\ w \in Windows /\ Owner[w] = p /\ win[w].file \in Names
      /\ used[w] # 0 /\ InStep
  BY <1>1, Busy DEF IInv
<1>3. /\ N \in Ops /\ N.pc = pc /\ N.w = w /\ N.f = op[p].f /\ N.why = op[p].why
      /\ N.ino = op[p].ino /\ N.todo = op[p].todo /\ N.then = op[p].then
      /\ N.mode = op[p].mode /\ N.held = op[p].held
  BY <1>1, <1>2 DEF Ops, Moved
<1>4. win'[w] = M /\ used'[w] = used[w]
  BY <1>2 DEF InStep, WinStep
<1> HIDE DEF w
<1>5. OpFits(p, N, win', used')
  BY <1>2, <1>3, <1>4, AtLock DEF OpFits, Locking, Unlocking, Saving, Writing, w
<1>6. InStep' /\ Apart(p) /\ op'[p] = N
  <2>1. WinStep(w, M) /\ WinFits(M, used[w])
    BY DEF w
  <2> QED
    BY <2>1, <1>2, <1>3, <1>5, StepWin
<1>7. \A v \in Windows : Owner[v] = p /\ win'[v].locked =>
        win[v].locked /\ win[v].file = win'[v].file
  BY <1>4, <1>2 DEF InStep, WinStep, w
<1>8. \A f \in Names : ~Owes(p, f)'
  BY <1>3, <1>6, AtLock DEF Owes
<1>9. Lighter(p)
  BY <1>3, <1>6, <1>7, <1>8, AtLock DEF Lighter, Locking, Writing, Saving
<1> QED
  BY <1>6, <1>9

\* lock_file has returned got: to edit->locked, or to save_lock.
LEMMA LockBack ==
  ASSUME Constants, IInv, NEW p \in Procs, op[p].pc \in Locking, NEW got \in BOOLEAN,
         NEW N, Back(N, op[p], got), OpStep(p, N), used' = used,
         NEW M \in WEdits, WinFits(M, used[op[p].w]), M.file = win[op[p].w].file,
         M.locked = IF op[p].why = "modify" THEN got ELSE win[op[p].w].locked,
         WinStep(op[p].w, M)
  PROVE  /\ InStep' /\ Apart(p) /\ op'[p] = N /\ win'[op[p].w] = M
         /\ N.ino = 0 /\ N.mode = "quick" /\ N.todo = <<>> /\ N.then # "delete"
         /\ IF op[p].why = "modify" THEN N = Idle
            ELSE N.pc = "check" /\ N.held = got /\ N.f = op[p].f /\ N.w = op[p].w
         /\ ~got => Lighter(p)
<1> DEFINE w == op[p].w
           o == op[p]
<1>1. o.pc # "idle"
  BY DEF Locking
<1>2. /\ o \in Ops /\ w \in Windows /\ Owner[w] = p /\ win[w].file \in Names
      /\ used[w] # 0 /\ InStep
  BY <1>1, Busy DEF IInv
<1>3. /\ o.f \in Names /\ o.ino = 0 /\ o.todo = <<>> /\ o.then # "delete" /\ o.mode = "quick"
  BY AtLock
<1>4. CASE o.why = "modify"
  <2>1. N = Idle /\ N \in Ops
    BY <1>4, IdleIs DEF Back
  <2>2. OpFits(p, N, win', used')
    BY <2>1, IdleIs DEF OpFits, Unlocking, Locking, Saving, Writing
  <2>3. InStep' /\ Apart(p) /\ op'[p] = N /\ win'[w] = M
    BY <1>2, <2>1, <2>2, StepWin
  <2>4. ASSUME ~got
        PROVE  Lighter(p)
    <3>1. \A v \in Windows : Owner[v] = p /\ win'[v].locked =>
            win[v].locked /\ win[v].file = win'[v].file
      BY <1>2, <1>4, <2>4 DEF InStep, WinStep
    <3>2. Fresh(op'[p]) /\ \A f \in Names : ~Owes(p, f)'
      BY <2>1, <2>3, IdleIs DEF Fresh, Owes
    <3> QED
      BY <1>3, <2>1, <2>3, <3>1, <3>2, IdleIs DEF Lighter, Writing, Locking, Saving
  <2> QED
    BY <1>4, <2>1, <2>3, <2>4, IdleIs
<1>5. CASE o.why # "modify"
  <2>2. /\ N \in Ops /\ N.pc = "check" /\ N.held = got /\ N.f = o.f /\ N.w = o.w
        /\ N.ino = 0 /\ N.mode = "quick" /\ N.todo = <<>> /\ N.then = o.then
    BY <1>2, <1>3, <1>5 DEF Ops, Pcs, Back
  <2>3. win'[w] = M /\ used'[w] = used[w]
    BY <1>2 DEF InStep, WinStep
  <2>4. OpFits(p, N, win', used')
    BY <1>2, <1>3, <2>2, <2>3 DEF OpFits, Locking, Unlocking, Saving, Writing
  <2>5. InStep' /\ Apart(p) /\ op'[p] = N /\ win'[w] = M
    BY <1>2, <2>2, <2>4, StepWin
  <2>6. ASSUME ~got
        PROVE  Lighter(p)
    <3>1. \A v \in Windows : Owner[v] = p /\ win'[v].locked =>
            win[v].locked /\ win[v].file = win'[v].file
      BY <1>2, <1>5, <2>3 DEF InStep, WinStep
    <3>2. \A f \in Names : ~Owes(p, f)'
      BY <2>2, <2>5 DEF Owes
    <3> QED
      BY <1>3, <2>2, <2>5, <2>6, <3>1, <3>2 DEF Lighter, Writing, Locking, Saving
  <2> QED
    BY <1>3, <1>5, <2>2, <2>5, <2>6
<1> QED
  BY <1>4, <1>5

\* The window with one more change.
LEMMA ChangedIs ==
  ASSUME Constants, IInv, NEW w \in Windows, win[w].file \in Names, used[w] # 0,
         NEW l \in BOOLEAN
  PROVE  /\ Changed(w, l) \in WEdits /\ WinFits(Changed(w, l), used[w])
         /\ Changed(w, l).file = win[w].file /\ Changed(w, l).locked = l
         /\ [Changed(w, l) EXCEPT !.told = TRUE] \in WEdits
         /\ WinFits([Changed(w, l) EXCEPT !.told = TRUE], used[w])
         /\ [Changed(w, l) EXCEPT !.told = TRUE].file = win[w].file
         /\ [Changed(w, l) EXCEPT !.told = TRUE].locked = l
<1>1. win[w] \in WEdits /\ win[w].file # NoName
  BY DEF IInv, InStep, Constants
<1>2. used[w] \in 1..Budget[w]
  BY DEF IInv, Typed, Constants
<1>3. <<w, used[w]>> \in Edits
  BY <1>2 DEF Edits
<1> QED
  BY <1>1, <1>3 DEF Changed, WEdits, WinFits

\* A window whose user was told something.
LEMMA ToldIs ==
  ASSUME NEW w \in Windows, NEW n, win[w] \in WEdits, WinFits(win[w], n)
  PROVE  /\ [win[w] EXCEPT !.told = TRUE] \in WEdits
         /\ WinFits([win[w] EXCEPT !.told = TRUE], n)
         /\ [win[w] EXCEPT !.told = TRUE].file = win[w].file
         /\ [win[w] EXCEPT !.told = TRUE].locked = win[w].locked
BY DEF WEdits, WinFits

\* Action LockRead preserves the invariant.
LEMMA LockReadStep ==
  ASSUME Constants, IInv, NEW p \in Procs, LockRead(p)
  PROVE  IInv'
<1> DEFINE w == op[p].w
<1>1. op[p].pc \in Locking /\ op[p].pc # "idle" /\ UNCHANGED <<disk, lock, used, faults, bare, silent>>
  BY DEF LockRead, At, Locking
<1>2. /\ w \in Windows /\ win[w] \in WEdits /\ WinFits(win[w], used[w])
      /\ win[w].file \in Names /\ used[w] # 0
  BY <1>1, Busy DEF IInv
<1>3. op[p].f \in Names
  BY <1>1, AtLock
<1>4. CASE lock[op[p].f] = NoLock
  <2> DEFINE M == IF op[p].why = "modify" THEN Changed(w, FALSE) ELSE win[w]
             N == IF op[p].why = "modify" THEN Idle
                  ELSE [op[p] EXCEPT !.held = FALSE, !.pc = "check"]
  <2>1. /\ OpStep(p, N) /\ WinStep(w, M) /\ Back(N, op[p], FALSE)
        /\ shaken' = shaken \cup {op[p].f}
    BY <1>4, <1>2 DEF LockRead, LockDone, W, IInv, InStep, OpStep, WinStep, Back
  <2>2. /\ M \in WEdits /\ WinFits(M, used[w]) /\ M.file = win[w].file
        /\ M.locked = IF op[p].why = "modify" THEN FALSE ELSE win[w].locked
    BY <1>2, ChangedIs
  <2> HIDE DEF M, N
  <2>3. InStep' /\ Apart(p) /\ Lighter(p)
    BY <1>1, <2>1, <2>2, LockBack
  <2>4. Typed'
    BY <1>1, <1>3, <2>1 DEF IInv, Typed, disk
  <2> QED
    BY <1>1, <2>1, <2>3, <2>4, LighterStep DEF disk
<1>5. CASE lock[op[p].f] # NoLock
  <2> DEFINE pc == IF lock[op[p].f] = Dead THEN "unlink" ELSE "ask"
             N == [op[p] EXCEPT !.pc = pc]
  <2>1. /\ OpStep(p, N) /\ WinStep(w, win[w]) /\ Moved(N, op[p], pc)
        /\ shaken' = shaken
    BY <1>5, <1>2 DEF LockRead, Goto, IInv, InStep, OpStep, WinStep, Moved
  <2>2. pc \in Locking
    BY DEF Locking
  <2> HIDE DEF pc, N
  <2>3. InStep' /\ Apart(p) /\ Lighter(p)
    BY <1>1, <1>2, <2>1, <2>2, LockOn
  <2>4. Typed'
    BY <1>1, <1>3, <2>1 DEF IInv, Typed, disk
  <2> QED
    BY <1>1, <2>1, <2>3, <2>4, LighterStep DEF disk
<1> QED
  BY <1>4, <1>5

\* Action LockAsk preserves the invariant.
LEMMA LockAskStep ==
  ASSUME Constants, IInv, NEW p \in Procs, LockAsk(p)
  PROVE  IInv'
<1> DEFINE w == op[p].w
<1>1. /\ op[p].pc \in Locking /\ op[p].pc # "idle" /\ UNCHANGED <<disk, lock, history>>
      /\ used' = used /\ shaken' = shaken
  BY DEF LockAsk, At, Locking, history
<1>2. /\ w \in Windows /\ win[w] \in WEdits /\ WinFits(win[w], used[w])
      /\ win[w].file \in Names /\ used[w] # 0
  BY <1>1, Busy DEF IInv
<1>3. Typed'
  BY <1>1 DEF IInv, Typed, disk, history
<1>4. CASE Goto(p, "unlink") /\ win' = [win EXCEPT ![W(p)].told = TRUE]
  <2> DEFINE M == [win[w] EXCEPT !.told = TRUE]
             N == [op[p] EXCEPT !.pc = "unlink"]
  <2>1. OpStep(p, N) /\ WinStep(w, M) /\ Moved(N, op[p], "unlink")
    BY <1>4 DEF Goto, W, OpStep, WinStep, Moved
  <2>2. "unlink" \in Locking
    BY DEF Locking
  <2>3. M \in WEdits /\ WinFits(M, used[w]) /\ M.file = win[w].file /\ M.locked = win[w].locked
    BY <1>2, ToldIs
  <2> HIDE DEF M, N
  <2>4. InStep' /\ Apart(p) /\ Lighter(p)
    BY <1>1, <2>1, <2>2, <2>3, LockOn
  <2> QED
    BY <1>1, <1>3, <2>4, LighterStep DEF disk
<1>5. CASE IF op[p].why = "modify"
           THEN /\ win' = [win EXCEPT ![W(p)] = [Changed(W(p), FALSE) EXCEPT !.told = TRUE]]
                /\ op' = [op EXCEPT ![p] = Idle]
           ELSE /\ win' = [win EXCEPT ![W(p)].told = TRUE]
                /\ op' = [op EXCEPT ![p].held = FALSE, ![p].pc = "check"]
  <2> DEFINE M == IF op[p].why = "modify" THEN [Changed(w, FALSE) EXCEPT !.told = TRUE]
                  ELSE [win[w] EXCEPT !.told = TRUE]
             N == IF op[p].why = "modify" THEN Idle
                  ELSE [op[p] EXCEPT !.held = FALSE, !.pc = "check"]
  <2>1. OpStep(p, N) /\ WinStep(w, M) /\ Back(N, op[p], FALSE)
    BY <1>5 DEF W, IInv, InStep, OpStep, WinStep, Back
  <2>2. /\ M \in WEdits /\ WinFits(M, used[w]) /\ M.file = win[w].file
        /\ M.locked = IF op[p].why = "modify" THEN FALSE ELSE win[w].locked
    BY <1>2, ChangedIs, ToldIs
  <2> HIDE DEF M, N
  <2>3. InStep' /\ Apart(p) /\ Lighter(p)
    BY <1>1, <2>1, <2>2, LockBack
  <2> QED
    BY <1>1, <1>3, <2>3, LighterStep DEF disk
<1> QED
  BY <1>4, <1>5 DEF LockAsk

\* Action LockUnlink preserves the invariant.
LEMMA LockUnlinkStep ==
  ASSUME Constants, IInv, NEW p \in Procs, LockUnlink(p)
  PROVE  IInv'
<1> DEFINE w == op[p].w
           f == op[p].f
           N == [op[p] EXCEPT !.pc = "symlink"]
<1>1. /\ op[p].pc \in Locking /\ op[p].pc # "idle"
      /\ UNCHANGED <<disk, win, used, faults, bare, silent>>
      /\ lock' = [lock EXCEPT ![f] = NoLock]
      /\ shaken' = IF lock[f] = NoLock THEN shaken ELSE shaken \cup {f}
      /\ OpStep(p, N) /\ Moved(N, op[p], "symlink")
  BY DEF LockUnlink, At, Locking, Goto, OpStep, Moved
<1>2. /\ w \in Windows /\ win[w] \in WEdits /\ WinFits(win[w], used[w])
  BY <1>1, Busy DEF IInv
<1>3. f \in Names
  BY <1>1, AtLock
<1>4. WinStep(w, win[w])
  BY <1>1, <1>2 DEF WinStep, IInv, InStep
<1>5. "symlink" \in Locking
  BY DEF Locking
<1> HIDE DEF N
<1>6. InStep' /\ Apart(p) /\ Lighter(p)
  BY <1>1, <1>2, <1>4, <1>5, LockOn
<1>7. Typed'
  BY <1>1, <1>3 DEF IInv, Typed, disk
<1>8. shaken \subseteq shaken' /\ \A g \in Names \ shaken' : lock'[g] = lock[g]
  BY <1>1, <1>3 DEF IInv, Typed
<1> QED
  BY <1>1, <1>6, <1>7, <1>8, LighterStep DEF disk

\* After the step p is about to unlock nothing, holds f at most, and has at most one new
\* window that believes in a lock: that of f, which p does not hold besides.
OnlyGets(p, f) ==
    /\ \A g \in Names : ~Owes(p, g)'
    /\ \A g \in Names : Holds(p, g)' => g = f
    /\ \A w \in Windows, g \in Names : Owner[w] = p /\ Claims(w, g)' =>
          Claims(w, g) \/ (g = f /\ w = op[p].w /\ \A h \in Names : ~Holds(p, h)')

\* A link made where there was none belongs to its maker alone.
LEMMA LinkMade ==
  ASSUME Constants, IInv, NEW p \in Procs, op[p].pc \in Locking, Apart(p), Typed',
         NEW f \in Names, lock[f] = NoLock, lock' = [lock EXCEPT ![f] = p],
         shaken' = shaken, OnlyGets(p, f)
  PROVE  LocksSound'
<1> SUFFICES ASSUME NEW g \in Names \ shaken
             PROVE  LockSound(g)'
  BY DEF LocksSound
<1>1. LockSound(g)
  BY DEF LocksSound, IInv
<1>2. ASSUME NEW w \in Windows, Owner[w] # p
      PROVE  Claims(w, g)' <=> Claims(w, g)
  BY <1>2 DEF Claims, Closing, Apart, Constants
<1>3. ASSUME NEW q \in Procs, q # p
      PROVE  (Holds(q, g)' <=> Holds(q, g)) /\ (Owes(q, g)' <=> Owes(q, g))
  BY <1>3 DEF Holds, Owes, Apart
<1>4. lock \in [Names -> Procs \cup {NoLock, Dead}] /\ NoLock \notin Procs
  BY DEF IInv, Typed, Constants
<1>5. CASE g # f
  <2>1. lock'[g] = lock[g]
    BY <1>4, <1>5
  <2>2. \A w \in Windows : Claims(w, g)' => Claims(w, g)
    BY <1>2, <1>5 DEF OnlyGets
  <2>3. \A q \in Procs : (Holds(q, g)' => Holds(q, g)) /\ (Owes(q, g)' => Owes(q, g))
    BY <1>3, <1>5 DEF OnlyGets
  <2> QED
    BY <1>1, <2>1, <2>2, <2>3 DEF LockSound
<1>6. CASE g = f
  <2>1. /\ \A w \in Windows : ~Claims(w, f)
        /\ \A q \in Procs : ~Holds(q, f)
    BY <1>1, <1>4, <1>6 DEF LockSound, Constants
  <2>2. lock'[f] = p
    BY <1>4
  <2>3. \A w \in Windows : Claims(w, f)' =>
          Owner[w] = p /\ w = op[p].w /\ \A h \in Names : ~Holds(p, h)'
    BY <1>2, <1>6, <2>1 DEF OnlyGets
  <2>4. \A q \in Procs : Holds(q, f)' => q = p
    BY <1>3, <1>6, <2>1
  <2>5. ~Owes(p, f)'
    BY DEF OnlyGets
  <2>6. \A w \in Windows : Claims(w, f)' => lock'[f] = Owner[w]
    BY <2>2, <2>3
  <2>7. \A w, v \in Windows : Claims(w, f)' /\ Claims(v, f)' => w = v
    BY <2>3
  <2>8. \A q \in Procs : Holds(q, f)' => lock'[f] = q /\ \A w \in Windows : ~Claims(w, f)'
    BY <2>2, <2>3, <2>4
  <2>9. \A q \in Procs, w \in Windows : Owes(q, f)' /\ Owner[w] = q => ~Claims(w, f)'
    BY <2>3, <2>5
  <2> QED
    BY <1>6, <2>6, <2>7, <2>8, <2>9 DEF LockSound
<1> QED
  BY <1>5, <1>6

\* Action LockLink preserves the invariant.
LEMMA LockLinkStep ==
  ASSUME Constants, IInv, NEW p \in Procs, LockLink(p)
  PROVE  IInv'
<1> DEFINE w == op[p].w
           f == op[p].f
           free == lock[f] = NoLock
           M == IF op[p].why = "modify" THEN Changed(w, free) ELSE win[w]
           N == IF op[p].why = "modify" THEN Idle
                ELSE [op[p] EXCEPT !.held = free, !.pc = "check"]
<1>1. /\ op[p].pc \in Locking /\ op[p].pc # "idle"
      /\ UNCHANGED <<disk, used, faults, bare, silent>>
      /\ lock' = IF free THEN [lock EXCEPT ![f] = p] ELSE lock
      /\ shaken' = IF free THEN shaken ELSE shaken \cup {f}
      /\ LockDone(p, free)
  BY DEF LockLink, At, Locking
<1>2. /\ w \in Windows /\ win[w] \in WEdits /\ WinFits(win[w], used[w])
      /\ win[w].file \in Names /\ used[w] # 0 /\ Owner[w] = p
  BY <1>1, Busy DEF IInv
<1>3. f \in Names /\ free \in BOOLEAN
  BY <1>1, AtLock
<1>4. OpStep(p, N) /\ WinStep(w, M) /\ Back(N, op[p], free)
  BY <1>1, <1>2 DEF LockDone, W, IInv, InStep, OpStep, WinStep, Back
<1>5. /\ M \in WEdits /\ WinFits(M, used[w]) /\ M.file = win[w].file
      /\ M.locked = IF op[p].why = "modify" THEN free ELSE win[w].locked
  BY <1>2, <1>3, ChangedIs
<1>6. Typed'
  BY <1>1, <1>3 DEF IInv, Typed, disk
<1> HIDE DEF M, N, free
<1>7. /\ InStep' /\ Apart(p) /\ op'[p] = N /\ win'[w] = M
      /\ N.ino = 0 /\ N.mode = "quick" /\ N.todo = <<>> /\ N.then # "delete"
      /\ IF op[p].why = "modify" THEN N = Idle
         ELSE N.pc = "check" /\ N.held = free /\ N.f = op[p].f /\ N.w = op[p].w
      /\ ~free => Lighter(p)
  BY <1>1, <1>3, <1>4, <1>5, LockBack
<1>8. CASE ~free
  <2>1. shaken \subseteq shaken' /\ \A g \in Names \ shaken' : lock'[g] = lock[g]
    BY <1>1, <1>8
  <2> QED
    BY <1>1, <1>6, <1>7, <1>8, <2>1, LighterStep DEF disk
<1>9. CASE free
  <2>1. LocksSound'
    <3>1. \A g \in Names : ~Owes(p, g)'
      BY <1>7 DEF Owes
    <3>2. \A g \in Names : Holds(p, g)' => g = f /\ op[p].why # "modify"
      BY <1>7, IdleIs DEF Holds, Saving
    <3>3. ASSUME NEW v \in Windows, NEW g \in Names, Owner[v] = p, Claims(v, g)'
          PROVE  Claims(v, g) \/ (g = f /\ v = op[p].w /\ \A h \in Names : ~Holds(p, h)')
      <4>1. CASE v = w /\ op[p].why = "modify"
        BY <4>1, <3>2, <3>3, <1>1, <1>5, <1>7, AtLock DEF Claims
      <4>2. CASE v = w /\ op[p].why # "modify"
        BY <4>2, <3>3, <1>1, <1>5, <1>7, AtLock DEF Claims, Closing
      <4>3. CASE v # w
        <5>1. win'[v] = win[v] /\ op[p].then # "delete"
          BY <1>1, <1>2, <1>4, <4>3, AtLock DEF WinStep, IInv, InStep
        <5> QED
          BY <3>3, <5>1 DEF Claims, Closing
      <4> QED
        BY <4>1, <4>2, <4>3
    <3>4. lock[f] = NoLock /\ lock' = [lock EXCEPT ![f] = p] /\ shaken' = shaken
      BY <1>1, <1>9 DEF free
    <3>5. OnlyGets(p, f)
      BY <3>1, <3>2, <3>3 DEF OnlyGets
    <3> HIDE DEF f, w
    <3> QED
      BY <1>1, <1>3, <1>6, <1>7, <3>4, <3>5, LinkMade
  <2>2. AsideKept'
    <3>1. op'[p].ino = 0 /\ op'[p].mode = "quick" /\ op'[p].pc \notin Writing
      BY <1>7, IdleIs DEF Writing
    <3>2. QuickOnly(p)' /\ ~Aside(p)'
      BY <3>1 DEF QuickOnly, Aside, Writing
    <3> QED
      BY <1>1, <1>7, <3>1, <3>2, QuietDisk DEF IInv
  <2> QED
    BY <1>6, <1>7, <2>1, <2>2 DEF IInv
<1> QED
  BY <1>8, <1>9

-----------------------------------------------------------------------------
(* unlock_file.                                                            *)

\* What a process in unlock_file has in its hands.
LEMMA AtUnlock ==
  ASSUME Constants, IInv, NEW p \in Procs, op[p].pc \in Unlocking
  PROVE  /\ op[p].ino = 0 /\ op[p].todo # <<>> /\ op[p].todo \in Seq(Names)
         /\ Head(op[p].todo) \in Names /\ Owes(p, Head(op[p].todo))
         /\ Tail(op[p].todo) \in Seq(Names)
         /\ \A f \in Names :
              (\E i \in 1..Len(Tail(op[p].todo)) : Tail(op[p].todo)[i] = f) => Owes(p, f)
<1> DEFINE s == op[p].todo
<1>1. op[p].pc \notin Writing \cup {"idle"}
  BY DEF Unlocking, Writing
<1>2. s # <<>> /\ op[p].ino = 0 /\ s \in Seq(Names)
  BY <1>1 DEF IInv, InStep, OpFits, Ops
<1> HIDE DEF s
<1>3. /\ Len(s) \in Nat /\ Len(s) >= 1 /\ Head(s) = s[1] /\ s[1] \in Names
      /\ Tail(s) \in Seq(Names) /\ Len(Tail(s)) = Len(s) - 1
      /\ \A i \in 1..Len(Tail(s)) : Tail(s)[i] = s[i + 1]
  BY <1>2
<1>4. 1 \in 1..Len(s) /\ \A i \in 1..Len(Tail(s)) : i + 1 \in 1..Len(s)
  BY <1>3
<1>5. \A f : Owes(p, f) <=> \E i \in 1..Len(s) : s[i] = f
  BY DEF Owes, s
<1>6. Owes(p, Head(s))
  BY <1>3, <1>4, <1>5
<1>7. ASSUME NEW f \in Names, NEW i \in 1..Len(Tail(s)), Tail(s)[i] = f
      PROVE  Owes(p, f)
  BY <1>3, <1>4, <1>5, <1>7
<1>8. \A f \in Names : (\E i \in 1..Len(Tail(s)) : Tail(s)[i] = f) => Owes(p, f)
  BY <1>7
<1> QED
  BY <1>2, <1>3, <1>6, <1>8 DEF s

\* The lock at the head of todo has been dealt with.
LEMMA UnlockedOne ==
  ASSUME Constants, IInv, NEW p \in Procs, op[p].pc \in Unlocking,
         NEW N, N = Then(op[p], Tail(op[p].todo)), OpStep(p, N), win' = win, used' = used
  PROVE  InStep' /\ Apart(p) /\ Lighter(p)
<1>1. op[p].pc # "idle"
  BY DEF Unlocking
<1>2. /\ op[p] \in Ops /\ op[p].w \in Windows /\ Owner[op[p].w] = p
      /\ win[op[p].w].file \in Names /\ used[op[p].w] # 0 /\ InStep
  BY <1>1, Busy DEF IInv
<1> DEFINE o == op[p]
           t == Tail(op[p].todo)
<1>3. /\ o.ino = 0 /\ t \in Seq(Names) /\ N = Then(o, t)
      /\ \A f \in Names : (\E i \in 1..Len(t) : t[i] = f) => Owes(p, f)
  BY AtUnlock
<1>4. Unlocks(N, p, o, t, win, used)
  <2>1. Working(p, o, win, used)
    BY <1>2, <1>3 DEF Working
  <2> HIDE DEF o, t
  <2> QED BY ONLY <2>1, <1>3, ThenIs
<1>5. InStep' /\ Apart(p) /\ op'[p] = N
  BY <1>2, <1>4, StepOp DEF Unlocks
<1>6. \A f \in Names : Owes(p, f)' => Owes(p, f)
  <2>1. op'[p].todo = t
    BY <1>4, <1>5 DEF Unlocks
  <2> HIDE DEF t
  <2>2. \A f : Owes(p, f)' <=> \E i \in 1..Len(t) : t[i] = f
    BY <2>1 DEF Owes
  <2> QED
    BY <1>3, <2>2
<1>7. N = Idle => Fresh(N)
  BY IdleIs DEF Fresh
<1>8. N.pc \notin Writing \cup Locking \cup Saving \cup {"read"}
  BY <1>4 DEF Unlocks, Unlocking, Writing, Locking, Saving
<1>9. N.mode = op[p].mode \/ Fresh(N)
  BY <1>4, <1>7 DEF Unlocks
<1>10. N.then # "idle" => N.mode = op[p].mode /\ N.then = op[p].then
  BY <1>4, IdleIs DEF Unlocks
<1>11. N.pc = "delete" => op[p].then = "delete" /\ N.mode = op[p].mode
  BY <1>4, IdleIs DEF Unlocks
<1> QED
  BY <1>4, <1>5, <1>6, <1>8, <1>9, <1>10, <1>11 DEF Lighter, Unlocks

\* unlock_file goes on with the same lock.
LEMMA UnlockOn ==
  ASSUME Constants, IInv, NEW p \in Procs, op[p].pc \in Unlocking, NEW pc \in Unlocking,
         NEW N, Moved(N, op[p], pc), OpStep(p, N), win' = win, used' = used
  PROVE  InStep' /\ Apart(p) /\ Lighter(p)
<1>1. op[p].pc # "idle" /\ pc # "idle" /\ pc \in Pcs
  BY DEF Unlocking, Pcs
<1>2. /\ op[p] \in Ops /\ op[p].w \in Windows /\ Owner[op[p].w] = p
      /\ win[op[p].w].file \in Names /\ used[op[p].w] # 0 /\ InStep
  BY <1>1, Busy DEF IInv
<1>3. op[p].ino = 0 /\ op[p].todo # <<>>
  BY AtUnlock
<1>4. /\ N \in Ops /\ N.pc = pc /\ N.w = op[p].w /\ N.ino = 0 /\ N.todo = op[p].todo
      /\ N.then = op[p].then /\ N.mode = op[p].mode
  BY <1>1, <1>2, <1>3 DEF Ops, Moved
<1>5. OpFits(p, N, win, used)
  BY <1>1, <1>2, <1>3, <1>4 DEF OpFits, Unlocking, Locking, Saving, Writing
<1>6. InStep' /\ Apart(p) /\ op'[p] = N
  BY <1>2, <1>4, <1>5, StepOp
<1>7. \A f \in Names : Owes(p, f)' => Owes(p, f)
  BY <1>4, <1>6 DEF Owes
<1> QED
  BY <1>4, <1>6, <1>7 DEF Lighter, Unlocking, Locking, Saving, Writing

\* Action UnlockLook preserves the invariant.
LEMMA UnlockLookStep ==
  ASSUME Constants, IInv, NEW p \in Procs, UnlockStat(p) \/ UnlockRead(p)
  PROVE  IInv'
<1>1. op[p].pc \in Unlocking /\ UNCHANGED <<disk, lock, win, history>> /\ used' = used
  BY DEF UnlockStat, UnlockRead, At, Unlocking, history
<1>2. Typed' /\ UNCHANGED <<disk, lock, shaken>>
  BY <1>1 DEF IInv, Typed, disk, history
<1> DEFINE done == Then(op[p], Tail(op[p].todo))
           more == [op[p] EXCEPT !.pc = IF At(p, "unstat") THEN "unread" ELSE "remove"]
<1>3. \/ OpStep(p, done)
      \/ OpStep(p, more) /\ \E pc \in Unlocking : Moved(more, op[p], pc)
  BY DEF UnlockStat, UnlockRead, At, OpStep, Moved, Unlocking
<1>4. done = Then(op[p], Tail(op[p].todo))
  OBVIOUS
<1> HIDE DEF done, more
<1>5. InStep' /\ Apart(p) /\ Lighter(p)
  BY <1>1, <1>3, <1>4, UnlockedOne, UnlockOn
<1> QED
  BY <1>2, <1>5, LighterStep

\* Action UnlockRemove preserves the invariant.
LEMMA UnlockRemoveStep ==
  ASSUME Constants, IInv, NEW p \in Procs, UnlockRemove(p)
  PROVE  IInv'
<1> DEFINE f == Head(op[p].todo)
           N == Then(op[p], Tail(op[p].todo))
<1>1. /\ op[p].pc \in Unlocking /\ op[p].pc \notin Saving
      /\ UNCHANGED <<disk, win, used, faults, bare, silent>>
      /\ lock' = [lock EXCEPT ![f] = NoLock]
      /\ shaken' = IF lock[f] \in {NoLock, p} THEN shaken ELSE shaken \cup {f}
      /\ OpStep(p, N)
  BY DEF UnlockRemove, At, Unlocking, Saving, OpStep
<1>2. f \in Names /\ Owes(p, f)
  BY <1>1, AtUnlock
<1>3. Typed'
  BY <1>1, <1>2 DEF IInv, Typed, disk
<1>4. InStep' /\ Apart(p) /\ Lighter(p)
  <2> HIDE DEF f
  <2> QED BY <1>1, UnlockedOne
<1>5. shaken \subseteq shaken'
  BY <1>1
<1>6. ASSUME NEW g \in Names \ shaken'
      PROVE  lock'[g] = lock[g] \/ Unused(g)
  <2>1. CASE g # f \/ lock[f] = NoLock
    BY <1>1, <1>2, <2>1 DEF IInv, Typed
  <2>2. CASE g = f /\ lock[f] = p /\ p # NoLock
    <3>1. LockSound(f)
      BY <1>1, <2>2 DEF IInv, LocksSound
    <3>2. ASSUME NEW w \in Windows, Claims(w, f)
          PROVE  FALSE
      BY <1>2, <2>2, <3>1, <3>2 DEF LockSound
    <3>3. ASSUME NEW q \in Procs, Holds(q, f)
          PROVE  FALSE
      BY <1>1, <2>2, <3>1, <3>3 DEF LockSound, Holds
    <3> QED
      BY <2>2, <3>2, <3>3 DEF Unused
  <2> QED
    BY <1>1, <2>1, <2>2
<1> QED
  BY <1>1, <1>3, <1>4, <1>5, <1>6, LighterStep DEF disk

-----------------------------------------------------------------------------
(* What commands begin with.                                               *)

Begun(N, pc, w, f, why, closing) ==
    N = [Idle EXCEPT !.pc = pc, !.w = w, !.f = f, !.why = why, !.closing = closing]

\* Window w has a file, and f is what the lock is about.
OnFile(w, f, why, ws, us) ==
    ws[w].file \in Names /\ us[w] # 0 /\ (why = "modify" => f = ws[w].file)

Starts(N, p, w, ws, us) == N \in Ops /\ OpFits(p, N, ws, us) /\ Fresh(N) /\ N.w = w

\* A command that has just begun fits its window.
LEMMA BegunIs ==
  ASSUME Constants, NEW p, NEW N, NEW pc \in {"read", "check"} \cup Locking,
         NEW w \in Windows, Owner[w] = p, NEW f \in Names,
         NEW why \in {"none", "modify", "save", "saveas"}, NEW closing \in BOOLEAN,
         NEW ws, NEW us, OnFile(w, f, why, ws, us), Begun(N, pc, w, f, why, closing)
  PROVE  Starts(N, p, w, ws, us)
<1>1. pc \in Pcs /\ pc # "idle"
  BY DEF Pcs, Locking
<1>2. /\ N \in Ops /\ N.pc = pc /\ N.w = w /\ N.f = f /\ N.why = why /\ N.held = FALSE
      /\ N.mode = "quick" /\ N.ino = 0 /\ N.todo = <<>> /\ N.then = "idle"
  BY <1>1, IdleIs DEF Begun, Ops
<1>3. Fresh(N)
  BY <1>2 DEF Fresh
<1> QED
  BY <1>1, <1>2, <1>3 DEF OnFile, Starts, OpFits, Unlocking, Locking, Saving, Writing

\* lock_file begins.
LEMMA LockFileIs ==
  ASSUME Constants, NEW p, NEW w \in Windows, Owner[w] = p, NEW f \in Names,
         NEW why \in {"none", "modify", "save", "saveas"}, NEW closing \in BOOLEAN,
         NEW ws, NEW us, OnFile(w, f, why, ws, us), LockFile(p, w, f, why, closing)
  PROVE  \E N : OpStep(p, N) /\ Starts(N, p, w, ws, us)
<1> DEFINE pc == IF lock[f] = NoLock THEN "symlink" ELSE "readlink"
           N == [Idle EXCEPT !.pc = pc, !.w = w, !.f = f, !.why = why, !.closing = closing]
<1>1. OpStep(p, N) /\ Begun(N, pc, w, f, why, closing)
  BY DEF LockFile, OpStep, Begun
<1>2. pc \in {"read", "check"} \cup Locking
  BY DEF Locking
<1> HIDE DEF N, pc
<1> QED
  BY <1>1, <1>2, BegunIs

\* A save begins.
LEMMA SaveStartIs ==
  ASSUME Constants, NEW p, NEW w \in Windows, Owner[w] = p, NEW f \in Names,
         NEW why \in {"save", "saveas"}, NEW closing \in BOOLEAN,
         NEW ws, NEW us, OnFile(w, f, why, ws, us), SaveStart(p, w, f, why, closing)
  PROVE  \E N : OpStep(p, N) /\ Starts(N, p, w, ws, us)
<1> DEFINE N == [Idle EXCEPT !.pc = "check", !.w = w, !.f = f, !.why = why,
                             !.closing = closing]
<1>1. \/ LockFile(p, w, f, why, closing)
      \/ OpStep(p, N) /\ Begun(N, "check", w, f, why, closing)
  BY DEF SaveStart, OpStep, Begun
<1>2. "check" \in {"read", "check"} \cup Locking
      /\ why \in {"none", "modify", "save", "saveas"}
  OBVIOUS
<1> HIDE DEF N
<1> QED
  BY <1>1, <1>2, BegunIs, LockFileIs

\* The command that closes window w.
Closes(N, p, w, us) ==
    /\ N \in Ops /\ OpFits(p, N, win, us) /\ N.w = w /\ N.then = "delete"
    /\ N.mode = "quick" /\ N.ino = 0 /\ N.pc \in {"unstat", "delete"}
    /\ N.todo = IF win[w].locked THEN <<win[w].file, win[w].file>> ELSE <<>>

\* A window begins to close.
LEMMA CloseIs ==
  ASSUME Constants, NEW p, NEW w \in Windows, Owner[w] = p, NEW yes \in BOOLEAN,
         NEW us, OnFile(w, win[w].file, "save", win, us), NEW N, N = Close(w, yes)
  PROVE  Closes(N, p, w, us)
<1> USE DEF Closes, OnFile
<1> DEFINE pc == IF win[w].locked THEN "unstat" ELSE "delete"
           todo == IF win[w].locked THEN <<win[w].file, win[w].file>> ELSE <<>>
<1>1. N = [Idle EXCEPT !.pc = pc, !.w = w, !.closing = yes, !.todo = todo, !.then = "delete"]
  BY DEF Close
<1>2. pc \in Pcs /\ pc \in {"unstat", "delete"} /\ todo \in Seq(Names)
      /\ (pc = "unstat" <=> todo # <<>>)
  BY DEF Pcs
<1> HIDE DEF pc, todo
<1>3. /\ N \in Ops /\ N.pc = pc /\ N.w = w /\ N.todo = todo /\ N.then = "delete"
      /\ N.mode = "quick" /\ N.ino = 0
  BY <1>1, <1>2, IdleIs DEF Ops
<1>4. OpFits(p, N, win, us)
  BY <1>2, <1>3 DEF OpFits, Unlocking, Locking, Saving, Writing
<1> QED
  BY <1>2, <1>3, <1>4 DEF todo

\* The window that closes is the one that believed in the lock it gives up.
LEMMA CloseStep ==
  ASSUME Constants, IInv, NEW p \in Procs, NEW w \in Windows, Owner[w] = p,
         op[p].then # "delete", win' = win, Apart(p), Typed', InStep', op'[p].w = w,
         op'[p].then = "delete", op'[p].mode = "quick", op'[p].ino = 0,
         op'[p].pc \in {"unstat", "delete"},
         op'[p].todo = IF win[w].locked THEN <<win[w].file, win[w].file>> ELSE <<>>,
         UNCHANGED <<disk, lock>>, shaken' = shaken
  PROVE  IInv'
<1>1. \A f \in Names : ~Holds(p, f)'
  BY DEF Holds, Saving
<1>2. \A f \in Names, v \in Windows : Owner[v] = p /\ Claims(v, f)' => Claims(v, f) /\ v # w
  BY DEF Claims, Closing
<1>3. \A f \in Names : Owes(p, f)' => win[w].locked /\ win[w].file = f
  BY DEF Owes
<1>4. ASSUME NEW f \in Names \ shaken, Owes(p, f)', NEW v \in Windows, Owner[v] = p,
             Claims(v, f)'
      PROVE  FALSE
  <2>1. Claims(w, f) /\ Claims(v, f) /\ v # w
    BY <1>2, <1>3, <1>4 DEF Claims, Closing
  <2> QED
    BY <2>1 DEF IInv, LocksSound, LockSound
<1>5. LocksSound'
  BY <1>1, <1>2, <1>4, CalmStep DEF IInv
<1>6. AsideKept'
  BY QuietDisk DEF IInv, QuickOnly, Aside, disk
<1> QED
  BY <1>5, <1>6 DEF IInv

-----------------------------------------------------------------------------
(* The commands of the user.                                               *)

\* A process with a fresh command claims, holds and owes no more than before.
LEMMA FreshLighter ==
  ASSUME NEW p \in Procs, op[p].then # "delete", Fresh(op'[p]),
         \A w \in Windows : Owner[w] = p /\ win'[w].locked =>
            win[w].locked /\ win[w].file = win'[w].file
  PROVE  Lighter(p)
<1>1. op'[p].pc \notin Writing \cup {"delete"}
  BY DEF Fresh, Writing, Locking
<1>2. \A f \in Names : ~Owes(p, f)'
  BY DEF Fresh, Owes
<1> QED
  BY <1>1, <1>2 DEF Fresh, Lighter

Given(w) ==
    /\ Free(w)
    /\ used' = [used EXCEPT ![w] = @ + 1]
    /\ UNCHANGED <<faults, shaken, bare, silent>>

\* A command is given to a window whose process is idle, within its budget.
LEMMA GivenIs ==
  ASSUME Constants, IInv, NEW w \in Windows, Given(w)
  PROVE  /\ Owner[w] \in Procs /\ op[Owner[w]] = Idle /\ used' \in [Windows -> Nat]
         /\ \A v \in Windows : used'[v] \in 0..Budget[v]
         /\ used'[w] # 0 /\ \A v \in Windows : v # w => used'[v] = used[v]
<1>1. Owner[w] \in Procs /\ Budget \in [Windows -> Nat]
  BY DEF Constants
<1>2. op[Owner[w]] = Idle
  BY <1>1 DEF Given, Free, At, IInv, InStep, OpFits
<1>3. used \in [Windows -> Nat] /\ used[w] < Budget[w] /\ \A v \in Windows : used[v] <= Budget[v]
  BY <1>1 DEF Given, Free, IInv, Typed
<1>4. used' \in [Windows -> Nat] /\ used'[w] = used[w] + 1
      /\ \A v \in Windows : v # w => used'[v] = used[v]
  BY <1>3 DEF Given
<1>5. \A v \in Windows : used'[v] <= Budget[v]
  BY <1>1, <1>3, <1>4
<1> QED
  BY <1>1, <1>2, <1>3, <1>4, <1>5

\* A command that begins with N and leaves the window as M.
LEMMA CommandStep ==
  ASSUME Constants, IInv, NEW w \in Windows, Given(w), NEW N \in Ops, NEW M \in WEdits,
         OpStep(Owner[w], N), WinStep(w, M), OpFits(Owner[w], N, win', used'),
         WinFits(M, used'[w])
  PROVE  InStep' /\ Apart(Owner[w]) /\ op'[Owner[w]] = N /\ win'[w] = M
<1> DEFINE p == Owner[w]
<1>1. p \in Procs /\ used' \in [Windows -> Nat] /\ \A v \in Windows : v # w => used'[v] = used[v]
  BY GivenIs
<1>2. /\ op' \in [Procs -> Ops] /\ win' \in [Windows -> WEdits] /\ op'[p] = N /\ win'[w] = M
      /\ \A v \in Windows : v # w => win'[v] = win[v]
      /\ \A q \in Procs : q # p => op'[q] = op[q]
  BY <1>1 DEF IInv, InStep, OpStep, WinStep
<1> HIDE DEF p
<1>3. Apart(p)
  BY <1>1, <1>2 DEF Apart, p
<1>4. ASSUME NEW v \in Windows
      PROVE  WinFits(win'[v], used'[v])
  <2>1. CASE v = w
    BY <1>2, <2>1
  <2>2. CASE v # w
    BY <1>1, <1>2, <2>2 DEF IInv, InStep
  <2> QED
    BY <2>1, <2>2
<1>5. InStep
  BY DEF IInv
<1>6. OpFits(p, op'[p], win', used')
  BY <1>2 DEF p
<1>7. InStep'
  BY <1>1, <1>2, <1>3, <1>4, <1>5, <1>6, StepInStep
<1> QED
  BY <1>2, <1>3, <1>7 DEF p

\* A command after which its process has a fresh one and its window believes no more.
LEMMA FreshCommand ==
  ASSUME Constants, IInv, NEW w \in Windows, Given(w), NEW N, NEW M \in WEdits,
         OpStep(Owner[w], N), WinStep(w, M), N \in Ops, Fresh(N),
         OpFits(Owner[w], N, win', used'), WinFits(M, used'[w]),
         M.locked => win[w].locked /\ M.file = win[w].file,
         UNCHANGED <<disk, lock>>
  PROVE  IInv'
<1> DEFINE p == Owner[w]
<1>1. p \in Procs /\ op[p] = Idle
  BY GivenIs
<1>2. InStep' /\ Apart(p) /\ op'[p] = N /\ win'[w] = M
  BY CommandStep
<1>3. \A v \in Windows : v # w => win'[v] = win[v]
  BY DEF WinStep, IInv, InStep
<1>4. \A v \in Windows : Owner[v] = p /\ win'[v].locked =>
        win[v].locked /\ win[v].file = win'[v].file
  BY <1>2, <1>3
<1>5. Typed'
  BY GivenIs DEF IInv, Typed, Given, disk
<1> HIDE DEF p
<1>6. Lighter(p)
  BY <1>1, <1>2, <1>4, IdleIs, FreshLighter
<1>7. shaken' = shaken /\ lock' = lock /\ UNCHANGED disk
  BY DEF Given
<1> QED
  BY <1>1, <1>2, <1>5, <1>6, <1>7, LighterStep

\* Action Change preserves the invariant.
LEMMA ChangeStep ==
  ASSUME Constants, IInv, NEW w \in Windows, Given(w), Change(w)
  PROVE  IInv'
<1> DEFINE p == Owner[w]
<1>1. /\ p \in Procs /\ op[p] = Idle /\ used'[w] # 0 /\ win[w].file # NoName
      /\ win[w] \in WEdits /\ WinFits(win[w], used[w]) /\ win[w].file \in Names
      /\ UNCHANGED <<disk, lock>>
  BY GivenIs DEF Change, IInv, InStep, WEdits
<1>2. CASE ~win[w].modified /\ ~win[w].delete_file
  <2>1. LockFile(p, w, win[w].file, "modify", FALSE) /\ win' = win
    BY <1>2 DEF Change
  <2>2. OnFile(w, win[w].file, "modify", win, used')
    BY <1>1 DEF OnFile
  <2>3. PICK N : OpStep(p, N) /\ Starts(N, p, w, win, used')
    <3> HIDE DEF p
    <3>1. Owner[w] = p /\ "modify" \in {"none", "modify", "save", "saveas"}
      BY DEF p
    <3> QED
      BY <1>1, <2>1, <2>2, <3>1, LockFileIs
  <2>4. WinStep(w, win[w]) /\ WinFits(win[w], used'[w])
    BY <1>1, <2>1 DEF WinStep, IInv, InStep, WinFits
  <2> QED
    BY <1>1, <2>1, <2>3, <2>4, FreshCommand DEF Starts
<1>3. CASE ~(~win[w].modified /\ ~win[w].delete_file)
  <2> DEFINE M == Changed(w, win[w].locked)
  <2>1. win' = [win EXCEPT ![w] = M] /\ op' = op
    BY <1>3 DEF Change
  <2>2. used[w] # 0 /\ win[w].locked \in BOOLEAN
    BY <1>1, <1>3 DEF WinFits, WEdits
  <2>3. /\ M \in WEdits /\ WinFits(M, used[w]) /\ M.file = win[w].file
        /\ M.locked = win[w].locked
    BY <1>1, <2>2, ChangedIs
  <2>4. WinStep(w, M) /\ OpStep(p, Idle)
    BY <1>1, <2>1 DEF WinStep, OpStep, IInv, InStep
  <2> HIDE DEF M
  <2>5. WinFits(M, used'[w])
    BY <1>1, <2>3 DEF WinFits
  <2>6. Idle \in Ops /\ OpFits(p, Idle, win', used') /\ Fresh(Idle)
    BY IdleIs DEF OpFits, Fresh, Unlocking, Locking, Saving, Writing
  <2> QED
    BY <1>1, <2>3, <2>4, <2>5, <2>6, FreshCommand
<1> QED
  BY <1>2, <1>3

\* F2 and save-as preserve the invariant.
LEMMA SaveCmdStep ==
  ASSUME Constants, IInv, NEW w \in Windows, Given(w), Save(w) \/ SaveAsCmd(w)
  PROVE  IInv'
<1> DEFINE p == Owner[w]
           S == [Idle EXCEPT !.pc = "saveas", !.w = w]
<1>1. /\ p \in Procs /\ used'[w] # 0 /\ win[w].file # NoName
      /\ win[w] \in WEdits /\ WinFits(win[w], used[w]) /\ win[w].file \in Names
      /\ UNCHANGED <<disk, lock>> /\ win' = win
  BY GivenIs DEF Save, SaveAsCmd, IInv, InStep, WEdits
<1>2. WinStep(w, win[w]) /\ WinFits(win[w], used'[w])
  BY <1>1 DEF WinStep, IInv, InStep, WinFits
<1>3. \E N : OpStep(p, N) /\ Starts(N, p, w, win, used')
  <2>1. CASE Save(w)
    <3>1. SaveStart(p, w, win[w].file, "save", FALSE)
      BY <2>1 DEF Save
    <3>2. OnFile(w, win[w].file, "save", win, used')
      BY <1>1 DEF OnFile
    <3> HIDE DEF p
    <3>3. Owner[w] = p /\ "save" \in {"save", "saveas"}
      BY DEF p
    <3> QED
      BY <1>1, <3>1, <3>2, <3>3, SaveStartIs
  <2>2. CASE SaveAsCmd(w)
    <3>1. OpStep(p, S)
      BY <2>2 DEF SaveAsCmd, OpStep
    <3>2. /\ S \in Ops /\ S.pc = "saveas" /\ S.w = w /\ S.held = FALSE /\ S.mode = "quick"
          /\ S.ino = 0 /\ S.todo = <<>> /\ S.then = "idle"
      BY IdleIs DEF Ops, Pcs
    <3> HIDE DEF S
    <3>3. OpFits(p, S, win, used')
      BY <1>1, <3>2 DEF OpFits, Unlocking, Locking, Saving, Writing
    <3> QED
      BY <3>1, <3>2, <3>3 DEF Starts, Fresh
  <2> QED
    BY <2>1, <2>2
<1> QED
  BY <1>1, <1>2, <1>3, FreshCommand DEF Starts

\* Action CloseCmd preserves the invariant.
LEMMA CloseCmdStep ==
  ASSUME Constants, IInv, NEW w \in Windows, Given(w), CloseCmd(w)
  PROVE  IInv'
<1> DEFINE p == Owner[w]
<1>1. /\ p \in Procs /\ used'[w] # 0 /\ win[w].file # NoName /\ op[p] = Idle
      /\ win[w] \in WEdits /\ WinFits(win[w], used[w]) /\ win[w].file \in Names
      /\ UNCHANGED <<disk, lock>> /\ win' = win
  BY GivenIs DEF CloseCmd, IInv, InStep, WEdits
<1>2. WinStep(w, win[w]) /\ WinFits(win[w], used'[w])
  BY <1>1 DEF WinStep, IInv, InStep, WinFits
<1>3. CASE op' = [op EXCEPT ![p] = Close(w, FALSE)]
  <2> DEFINE N == Close(w, FALSE)
  <2>1. OpStep(p, N)
    BY <1>3 DEF OpStep
  <2>2. Closes(N, p, w, used')
    <3>1. OnFile(w, win[w].file, "save", win, used')
      BY <1>1 DEF OnFile
    <3> HIDE DEF N
    <3>2. N = Close(w, FALSE)
      BY DEF N
    <3> QED
      BY <1>1, <3>1, <3>2, CloseIs
  <2> HIDE DEF N
  <2>3. InStep' /\ Apart(p) /\ op'[p] = N
    BY <1>1, <1>2, <2>1, <2>2, CommandStep DEF Closes
  <2>4. Typed'
    BY <1>1, GivenIs DEF IInv, Typed, Given, disk
  <2> QED
    BY <1>1, <2>2, <2>3, <2>4, IdleIs, CloseStep DEF Given, Closes
<1>4. CASE SaveStart(p, w, win[w].file, "save", TRUE)
  <2>1. OnFile(w, win[w].file, "save", win, used')
    BY <1>1 DEF OnFile
  <2>2. PICK N : OpStep(p, N) /\ Starts(N, p, w, win, used')
    <3> HIDE DEF p
    <3>1. Owner[w] = p /\ "save" \in {"save", "saveas"}
      BY DEF p
    <3> QED
      BY <1>1, <1>4, <2>1, <3>1, SaveStartIs
  <2> QED
    BY <1>1, <1>2, <2>2, FreshCommand DEF Starts
<1> QED
  BY <1>3, <1>4 DEF CloseCmd

-----------------------------------------------------------------------------
(* Between commands.                                                       *)

\* A step from one part of a command to another, with nothing in its hands.
LEMMA FreshStep ==
  ASSUME Constants, IInv, NEW p \in Procs, op[p].pc # "idle", op[p].then # "delete",
         NEW N \in Ops, Fresh(N), OpStep(p, N), NEW M \in WEdits, WinStep(op[p].w, M),
         WinFits(M, used[op[p].w]), OpFits(p, N, win', used'),
         M.locked => win[op[p].w].locked /\ M.file = win[op[p].w].file,
         UNCHANGED <<disk, lock, history>>
  PROVE  IInv'
<1> DEFINE w == op[p].w
<1>1. w \in Windows /\ Owner[w] = p /\ InStep
  BY Busy DEF IInv
<1>2. UNCHANGED <<disk, lock, shaken>> /\ used' = used /\ Typed'
  BY DEF IInv, Typed, disk, history
<1>3. InStep' /\ Apart(p) /\ op'[p] = N /\ win'[w] = M
  <2> HIDE DEF w
  <2>1. WinStep(w, M) /\ WinFits(M, used[w])
    BY DEF w
  <2> QED BY <1>1, <1>2, <2>1, StepWin
<1>4. \A v \in Windows : Owner[v] = p /\ win'[v].locked =>
        win[v].locked /\ win[v].file = win'[v].file
  BY <1>3 DEF WinStep, IInv, InStep
<1>5. Lighter(p)
  BY <1>3, <1>4, FreshLighter
<1> QED
  BY <1>2, <1>3, <1>5, LighterStep

\* Action SaveAs preserves the invariant.
LEMMA SaveAsStep ==
  ASSUME Constants, IInv, NEW p \in Procs, SaveAs(p)
  PROVE  IInv'
<1> DEFINE w == op[p].w
<1>1. /\ op[p].pc = "saveas" /\ UNCHANGED <<disk, lock, history>> /\ used' = used
  BY DEF SaveAs, At, history
<1>2. /\ op[p] \in Ops /\ w \in Windows /\ Owner[w] = p /\ win[w] \in WEdits
      /\ win[w].file \in Names /\ used[w] # 0 /\ WinFits(win[w], used[w])
  BY <1>1, Busy DEF IInv
<1>3. op[p].closing \in BOOLEAN /\ op[p].then # "delete"
  BY <1>1, <1>2 DEF Ops, IInv, InStep, OpFits, Unlocking
<1> DEFINE T == [win[w] EXCEPT !.told = TRUE]
<1>4. T \in WEdits /\ WinFits(T, used[w]) /\ T.file = win[w].file /\ T.locked = win[w].locked
  BY <1>2, ToldIs
<1>5. CASE op' = [op EXCEPT ![p] = Idle] /\ UNCHANGED win
  <2>1. OpStep(p, Idle) /\ WinStep(w, win[w])
    BY <1>2, <1>5 DEF OpStep, WinStep, IInv, InStep
  <2>2. Idle \in Ops /\ Fresh(Idle) /\ OpFits(p, Idle, win', used')
    BY IdleIs DEF Fresh, OpFits, Unlocking, Locking, Saving, Writing
  <2> QED
    BY <1>1, <1>2, <1>3, <2>1, <2>2, FreshStep
<1>6. CASE SaveStart(p, w, win[w].file, "saveas", op[p].closing) /\ UNCHANGED win
  <2>1. OnFile(w, win[w].file, "saveas", win, used)
    BY <1>2 DEF OnFile
  <2>2. PICK N : OpStep(p, N) /\ Starts(N, p, w, win, used)
    <3> HIDE DEF w
    <3>1. "saveas" \in {"save", "saveas"}
      OBVIOUS
    <3> QED
      BY <1>2, <1>3, <1>6, <2>1, <3>1, SaveStartIs
  <2>3. WinStep(w, win[w])
    BY <1>2, <1>6 DEF WinStep, IInv, InStep
  <2> QED
    BY <1>1, <1>2, <1>3, <1>6, <2>2, <2>3, FreshStep DEF Starts
<1>7. ASSUME NEW f \in Names, LockFile(p, w, f, "saveas", op[p].closing),
             win' = IF dir[f] = 0 THEN win ELSE [win EXCEPT ![w].told = TRUE]
      PROVE  IInv'
  <2> DEFINE M == IF dir[f] = 0 THEN win[w] ELSE T
  <2>1. WinStep(w, M)
    BY <1>2, <1>7 DEF WinStep, IInv, InStep
  <2>2. /\ M \in WEdits /\ WinFits(M, used[w]) /\ M.file = win[w].file
        /\ M.locked = win[w].locked
    BY <1>2, <1>4
  <2> HIDE DEF M
  <2>3. win'[w].file \in Names
    BY <1>2, <2>1, <2>2 DEF WinStep, IInv, InStep
  <2>4. OnFile(w, f, "saveas", win', used')
    BY <1>1, <1>2, <2>3 DEF OnFile
  <2>5. PICK N : OpStep(p, N) /\ Starts(N, p, w, win', used')
    <3> HIDE DEF w
    <3>1. "saveas" \in {"none", "modify", "save", "saveas"}
      OBVIOUS
    <3> QED
      BY <1>2, <1>3, <1>7, <2>4, <3>1, LockFileIs
  <2> QED
    BY <1>1, <1>2, <1>3, <2>1, <2>2, <2>5, FreshStep DEF Starts
<1> QED
  BY <1>5, <1>6, <1>7 DEF SaveAs, W

\* Action SaveClose preserves the invariant.
LEMMA SaveCloseStep ==
  ASSUME Constants, IInv, NEW p \in Procs, SaveClose(p)
  PROVE  IInv'
<1> DEFINE w == op[p].w
           N == Close(w, TRUE)
<1>1. /\ op[p].pc = "close" /\ UNCHANGED <<disk, lock, win, history>> /\ used' = used
      /\ OpStep(p, N)
  BY DEF SaveClose, At, W, history, OpStep
<1>2. /\ w \in Windows /\ Owner[w] = p /\ win[w] \in WEdits
      /\ win[w].file \in Names /\ used[w] # 0 /\ WinFits(win[w], used[w]) /\ InStep
  BY <1>1, Busy DEF IInv
<1>3. op[p].then # "delete"
  BY <1>1 DEF IInv, InStep, OpFits, Unlocking
<1>4. Closes(N, p, w, used)
  <2>1. OnFile(w, win[w].file, "save", win, used)
    BY <1>2 DEF OnFile
  <2>2. N = Close(w, TRUE)
    OBVIOUS
  <2> HIDE DEF N, w
  <2> QED
    BY <1>2, <2>1, <2>2, CloseIs
<1> HIDE DEF N
<1>5. InStep' /\ Apart(p) /\ op'[p] = N
  BY <1>1, <1>2, <1>4, StepOp DEF Closes
<1>6. Typed' /\ UNCHANGED <<disk, lock, shaken>> /\ win' = win
  BY <1>1 DEF IInv, Typed, disk, history
<1> QED
  BY <1>2, <1>3, <1>4, <1>5, <1>6, CloseStep DEF Closes

-----------------------------------------------------------------------------
(* edit_save_file: what it decides, and how it ends.                       *)

\* A process in a save.
LEMMA AtSave ==
  ASSUME Constants, IInv, NEW p \in Procs, op[p].pc \in Saving
  PROVE  /\ op[p].f \in Names /\ op[p].todo = <<>> /\ op[p].then # "delete"
         /\ op[p].pc # "idle" /\ OpFits(p, op[p], win, used)
         /\ \A w \in Windows : Owner[w] = p => ~Closing(w)
<1>1. op[p].pc \notin Unlocking \cup {"idle", "delete"}
  BY DEF Saving, Unlocking
<1>2. OpFits(p, op[p], win, used) /\ op[p].then # "delete"
  BY <1>1 DEF IInv, InStep, OpFits
<1> QED
  BY <1>1, <1>2 DEF OpFits, Closing

\* The save goes on: with another mode, or with an inode in its hands.
Goes(N, o, pc, mode, ino) == N = [o EXCEPT !.pc = pc, !.mode = mode, !.ino = ino]

\* A save that goes on to its next step.
LEMMA SaveOn ==
  ASSUME Constants, IInv, NEW p \in Procs, op[p].pc \in Saving, NEW pc \in Saving,
         NEW mode \in {"quick", "safe", "backup"}, NEW ino \in Inodes \cup {0},
         pc \in Writing <=> ino # 0,
         NEW N, Goes(N, op[p], pc, mode, ino), OpStep(p, N), used' = used,
         NEW M \in WEdits, WinStep(op[p].w, M), WinFits(M, used[op[p].w]),
         M.file = win[op[p].w].file, M.locked = win[op[p].w].locked,
         UNCHANGED <<lock, shaken>>
  PROVE  /\ InStep' /\ Apart(p) /\ op'[p] = N /\ LocksSound' /\ win'[op[p].w] = M
         /\ N.pc = pc /\ N.mode = mode /\ N.ino = ino /\ N.w = op[p].w
         /\ N.then = op[p].then /\ N.then # "delete"
<1> DEFINE w == op[p].w
<1>1. /\ op[p] \in Ops /\ w \in Windows /\ Owner[w] = p /\ win[w] \in WEdits
      /\ win[w].file \in Names /\ used[w] # 0 /\ WinFits(win[w], used[w]) /\ InStep
  BY AtSave, Busy DEF IInv
<1>2. op[p].f \in Names /\ op[p].todo = <<>> /\ op[p].then # "delete"
  BY AtSave
<1>3. pc \in Pcs
  BY DEF Saving, Pcs
<1>4. /\ N \in Ops /\ N.pc = pc /\ N.mode = mode /\ N.ino = ino /\ N.w = w
      /\ N.f = op[p].f /\ N.todo = <<>> /\ N.then = op[p].then /\ N.held = op[p].held
  BY <1>1, <1>2, <1>3 DEF Ops, Goes
<1>5. win'[w] = M /\ \A v \in Windows : v # w => win'[v] = win[v]
  BY <1>1 DEF WinStep, InStep
<1>6. OpFits(p, N, win', used')
  BY <1>1, <1>2, <1>4, <1>5 DEF OpFits, Unlocking, Locking, Saving, Writing
<1>7. InStep' /\ Apart(p) /\ op'[p] = N
  <2>1. WinStep(w, M) /\ WinFits(M, used[w])
    OBVIOUS
  <2> HIDE DEF w
  <2> QED
    BY <1>1, <1>4, <1>6, <2>1, StepWin
<1>8. LocksSound'
  <2>1. ASSUME NEW f \in Names
        PROVE  ~Owes(p, f)' /\ (Holds(p, f)' <=> Holds(p, f))
    BY <1>4, <1>7 DEF Owes, Holds
  <2>2. ASSUME NEW f \in Names, NEW v \in Windows, Owner[v] = p, Claims(v, f)'
        PROVE  Claims(v, f)
    BY <2>2, <1>5, AtSave DEF Claims
  <2> QED
    BY <1>7, <2>1, <2>2, CalmStep DEF IInv
<1> QED
  BY <1>2, <1>4, <1>5, <1>7, <1>8

\* Action SaveCheck preserves the invariant.
LEMMA SaveCheckStep ==
  ASSUME Constants, IInv, NEW p \in Procs, SaveCheck(p)
  PROVE  IInv'
<1> DEFINE mode == IF dir[op[p].f] = 0 THEN "quick" ELSE Mode[p]
           pc == IF Stale(p) THEN "confirm" ELSE "create"
           N == [op[p] EXCEPT !.pc = pc, !.mode = mode, !.ino = 0]
           w == op[p].w
<1>1. /\ op[p].pc \in Saving /\ op[p].pc \notin Writing
      /\ UNCHANGED <<disk, lock, win, history>> /\ used' = used
      /\ op' = [op EXCEPT ![p].mode = mode, ![p].pc = pc]
  BY DEF SaveCheck, At, Saving, Writing, history
<1>2. /\ op[p] \in Ops /\ w \in Windows /\ win[w] \in WEdits /\ WinFits(win[w], used[w])
  BY <1>1, AtSave, Busy DEF IInv
<1>3. op[p].ino = 0
  BY <1>1, AtSave DEF OpFits
<1>4. mode \in {"quick", "safe", "backup"} /\ pc \in Saving /\ pc \notin Writing
      /\ pc \in {"confirm", "create"}
  BY DEF Constants, Saving, Writing
<1> HIDE DEF mode, pc
<1>5. [op[p] EXCEPT !.mode = mode, !.pc = pc] = N
  BY <1>2, <1>3 DEF Ops
<1>6. OpStep(p, N) /\ Goes(N, op[p], pc, mode, 0)
  BY <1>1, <1>5 DEF OpStep, Goes, IInv, InStep
<1>7. WinStep(w, win[w]) /\ UNCHANGED <<lock, shaken>>
  BY <1>1, <1>2 DEF WinStep, IInv, InStep, history
<1> HIDE DEF N
<1>8. /\ InStep' /\ Apart(p) /\ op'[p] = N /\ LocksSound'
      /\ N.pc = pc /\ N.mode = mode /\ N.ino = 0 /\ N.then # "delete"
  <2>1. 0 \in Inodes \cup {0} /\ (pc \in Writing <=> 0 # 0)
    BY <1>4
  <2>2. op[p].pc \in Saving /\ used' = used /\ pc \in Saving /\ UNCHANGED <<lock, shaken>>
    BY <1>1, <1>4, <1>7
  <2> QED
    BY ONLY Constants, IInv, p \in Procs, <1>2, <1>4, <1>6, <1>7, <2>1, <2>2, SaveOn
<1>9. AsideKept'
  <2>1. QuickOnly(p)' /\ ~Aside(p)'
    BY <1>4, <1>8 DEF QuickOnly, Aside, Locking
  <2> QED
    BY <1>1, <1>8, <2>1, QuietDisk DEF IInv
<1>10. Typed'
  BY <1>1 DEF IInv, Typed, disk, history
<1> QED
  BY <1>8, <1>9, <1>10 DEF IInv

\* What a save leaves: the window, the locks to take down, and what is done then.
LEMMA SaveLeaves ==
  ASSUME Constants, IInv, NEW p \in Procs, op[p].pc \in Saving, NEW res \in {-1, 0, 1},
         NEW stat \in Stamps \cup {0}, SaveDone(p, res, stat)
  PROVE  \E D \in Ops, M \in WEdits, todo \in Seq(Names) :
            /\ OpStep(p, Then(D, todo)) /\ WinStep(op[p].w, M)
            /\ WinFits(M, used[op[p].w])
            /\ D.w = op[p].w /\ D.ino = 0 /\ D.then # "delete"
            /\ M.file = IF res = 1 THEN op[p].f ELSE Win(p).file
            /\ M.locked => res # 1 /\ Win(p).locked
            /\ \A f : (\E i \in 1..Len(todo) : todo[i] = f) =>
                 \/ op[p].held /\ f = op[p].f
                 \/ res = 1 /\ Win(p).locked /\ f = Win(p).file
<1> DEFINE o == op[p]
           d == Win(p)
           held == IF o.held THEN <<o.f>> ELSE <<>>
           mine == IF d.locked THEN <<d.file>> ELSE <<>>
           todo == IF res # 1 THEN held
                   ELSE IF o.f # d.file THEN held \o mine
                   ELSE IF d.locked THEN mine ELSE held
           then == IF res # 1 /\ o.why = "saveas" THEN "idle"
                   ELSE IF res = 0 THEN "saveas"
                   ELSE IF o.closing THEN "close" ELSE "idle"
           saved == [d EXCEPT !.file = o.f, !.modified = FALSE, !.locked = FALSE,
                              !.delete_file = FALSE, !.told = FALSE, !.stat = stat]
           D == [o EXCEPT !.then = then, !.ino = 0]
           M == IF res = 1 THEN saved ELSE [d EXCEPT !.stat = stat]
<1>1. OpStep(p, Then(D, todo)) /\ WinStep(o.w, M)
  BY DEF SaveDone, OpStep, WinStep
<1>2. /\ o \in Ops /\ d \in WEdits /\ d.file \in Names /\ WinFits(d, used[o.w]) /\ o.f \in Names
  BY AtSave, Busy DEF IInv, Win
<1>3. then \in {"idle", "saveas", "close", "delete"} /\ then # "delete"
  OBVIOUS
<1>4. /\ held \in Seq(Names) /\ Len(held) = (IF o.held THEN 1 ELSE 0)
      /\ (o.held => held[1] = o.f)
  BY <1>2
<1>5. /\ mine \in Seq(Names) /\ Len(mine) = (IF d.locked THEN 1 ELSE 0)
      /\ (d.locked => mine[1] = d.file)
  BY <1>2
<1> HIDE DEF held, mine
<1>6. todo \in Seq(Names)
  BY <1>4, <1>5
<1>7. ASSUME NEW f, NEW i \in 1..Len(todo), todo[i] = f
      PROVE  \/ o.held /\ f = o.f
             \/ res = 1 /\ d.locked /\ f = d.file
  <2>1. CASE todo = held
    BY <1>4, <1>7, <2>1
  <2>2. CASE res = 1 /\ todo = mine
    BY <1>5, <1>7, <2>2
  <2>3. CASE res = 1 /\ todo = held \o mine
    <3>1. /\ Len(todo) = Len(held) + Len(mine)
          /\ todo[i] = IF i <= Len(held) THEN held[i] ELSE mine[i - Len(held)]
      <4> HIDE DEF todo
      <4>1. i \in 1..Len(todo) /\ todo = held \o mine
        BY <1>7, <2>3
      <4>2. held \in Seq(Names) /\ mine \in Seq(Names)
        BY <1>4, <1>5
      <4> QED
        BY ONLY <4>1, <4>2
    <3>2. i \in Nat /\ i >= 1 /\ i <= Len(held) + Len(mine)
      BY <1>4, <1>5, <3>1
    <3>3. CASE i <= Len(held)
      BY <1>4, <1>7, <3>1, <3>2, <3>3
    <3>4. CASE ~(i <= Len(held))
      <4>1. d.locked /\ i - Len(held) = 1
        BY <1>4, <1>5, <3>2, <3>4
      <4> QED
        BY <1>5, <1>7, <2>3, <3>1, <3>4, <4>1
    <3> QED
      BY <3>3, <3>4
  <2> QED
    BY <2>1, <2>2, <2>3
<1> HIDE DEF todo, then
<1>8. D \in Ops /\ D.w = o.w /\ D.ino = 0 /\ D.then = then
  BY <1>2, <1>3 DEF Ops
<1>9. /\ M \in WEdits /\ WinFits(M, used[o.w])
      /\ M.file = (IF res = 1 THEN o.f ELSE d.file)
      /\ M.locked => res # 1 /\ d.locked
  BY <1>2 DEF WEdits, WinFits, Constants
<1> HIDE DEF D, M
<1>10. \A f : (\E i \in 1..Len(todo) : todo[i] = f) =>
         \/ o.held /\ f = o.f
         \/ res = 1 /\ d.locked /\ f = d.file
  BY <1>7
<1> QED
  BY <1>1, <1>3, <1>6, <1>8, <1>9, <1>10

\* What edit_save_cmd leaves when a save has ended.
LEMMA SaveDoneIs ==
  ASSUME Constants, IInv, NEW p \in Procs, op[p].pc \in Saving, NEW res \in {-1, 0, 1},
         NEW stat \in Stamps \cup {0}, SaveDone(p, res, stat), used' = used,
         UNCHANGED <<lock, shaken>>
  PROVE  /\ InStep' /\ Apart(p) /\ LocksSound'
         /\ op'[p].ino = 0 /\ QuickOnly(p)' /\ ~Aside(p)'
<1> DEFINE w == op[p].w
<1>1. PICK D \in Ops, M \in WEdits, todo \in Seq(Names) :
            /\ OpStep(p, Then(D, todo)) /\ WinStep(op[p].w, M)
            /\ WinFits(M, used[op[p].w])
            /\ D.w = op[p].w /\ D.ino = 0 /\ D.then # "delete"
            /\ M.file = IF res = 1 THEN op[p].f ELSE Win(p).file
            /\ M.locked => res # 1 /\ Win(p).locked
            /\ \A f : (\E i \in 1..Len(todo) : todo[i] = f) =>
                 \/ op[p].held /\ f = op[p].f
                 \/ res = 1 /\ Win(p).locked /\ f = Win(p).file
  BY SaveLeaves
<1>2. /\ w \in Windows /\ Owner[w] = p /\ win[w].file \in Names /\ used[w] # 0 /\ InStep
      /\ op[p].f \in Names
  BY AtSave, Busy DEF IInv
<1>3. win'[w] = M /\ \A v \in Windows : v # w => win'[v] = win[v]
  BY <1>1, <1>2 DEF WinStep, InStep
<1>4. M.file \in Names
  BY <1>1, <1>2 DEF Win
<1>5. Working(p, D, win', used')
  BY <1>1, <1>2, <1>3, <1>4 DEF Working
<1> DEFINE N == Then(D, todo)
<1>6. Unlocks(N, p, D, todo, win', used')
  <2>1. todo \in Seq(Names)
    BY <1>1
  <2> QED
    BY ONLY <1>5, <2>1, ThenIs
<1>7. /\ WinFits(M, used[w]) /\ OpStep(p, N) /\ WinStep(w, M) /\ M \in WEdits
  BY <1>1
<1> HIDE DEF N, w
<1>8. InStep' /\ Apart(p) /\ op'[p] = N
  BY <1>2, <1>6, <1>7, StepWin DEF Unlocks
<1>9. N.pc \notin Saving \cup Locking \cup {"read", "delete"} /\ N.then # "delete"
  BY <1>1, <1>6 DEF Unlocks, Saving, Locking, Unlocking
<1>10. \A f \in Names : ~Holds(p, f)'
  BY <1>8, <1>9 DEF Holds
<1>11. ASSUME NEW f \in Names, NEW v \in Windows, Owner[v] = p, Claims(v, f)'
       PROVE  Claims(v, f) /\ ~(res = 1 /\ v = w)
  <2>1. ~Closing(v)
    BY <1>11, AtSave
  <2>2. CASE v = w
    BY <1>1, <1>3, <1>11, <2>1, <2>2 DEF Claims, Win, w
  <2>3. CASE v # w
    BY <1>3, <1>11, <2>1, <2>3 DEF Claims
  <2> QED
    BY <2>2, <2>3
<1>12. ASSUME NEW f \in Names \ shaken', Owes(p, f)', NEW v \in Windows, Owner[v] = p,
              Claims(v, f)'
       PROVE  FALSE
  <2>1. LockSound(f) /\ Claims(v, f) /\ ~(res = 1 /\ v = w)
    BY <1>11, <1>12 DEF IInv, LocksSound
  <2>2. \E i \in 1..Len(todo) : todo[i] = f
    BY <1>6, <1>8, <1>12 DEF Owes, Unlocks
  <2>3. CASE op[p].held /\ f = op[p].f
    BY <2>1, <2>3 DEF LockSound, Holds
  <2>4. CASE res = 1 /\ win[w].locked /\ f = win[w].file
    <3>1. Claims(w, f)
      BY <1>2, <2>4, AtSave DEF Claims
    <3> QED
      BY <1>2, <2>1, <2>4, <3>1 DEF LockSound
  <2> QED
    BY <1>1, <2>2, <2>3, <2>4 DEF Win, w
<1>13. LocksSound'
  BY <1>8, <1>10, <1>11, <1>12, CalmStep DEF IInv
<1>14. N.ino = 0 /\ (N.pc = "idle" => N.mode = "quick")
  BY <1>6, IdleIs DEF Unlocks, OpFits
<1>15. QuickOnly(p)' /\ ~Aside(p)'
  BY <1>8, <1>9, <1>14 DEF QuickOnly, Aside, Saving
<1> QED
  BY <1>8, <1>13, <1>14, <1>15

-----------------------------------------------------------------------------
(* What happens to the files.                                              *)

\* A step that changes files, but neither the ones another process has aside nor the
\* names that lead to them.
LEMMA AsideStep ==
  ASSUME AsideKept, InStep, NEW p \in Procs, Apart(p), QuickOnly(p)',
         Aside(p)' => Kept(p)',
         \A q \in Procs : q # p /\ Aside(q) =>
            /\ op'[p].ino # op[q].ino
            /\ \A f \in Names : dir'[f] # op[q].ino /\ bak'[f] # op[q].ino
            /\ inode'[op[q].ino] = inode[op[q].ino]
  PROVE  AsideKept'
<1> SUFFICES ASSUME NEW q \in Procs
             PROVE  QuickOnly(q)' /\ (Aside(q)' => Kept(q)')
  BY DEF AsideKept
<1>1. CASE q = p
  BY <1>1
<1>2. CASE q # p
  <2>1. op'[q] = op[q]
    BY <1>2 DEF Apart
  <2>2. QuickOnly(q)' /\ (Aside(q)' <=> Aside(q))
    BY <2>1 DEF AsideKept, QuickOnly, Aside
  <2>3. ASSUME Aside(q)
        PROVE  Kept(q)'
    <3>1. op[q].w \in Windows /\ Owner[op[q].w] = q
      BY <2>3 DEF InStep, OpFits, Aside
    <3>2. win'[op[q].w] = win[op[q].w]
      BY <1>2, <3>1 DEF Apart
    <3>3. Kept(q)
      BY <2>3 DEF AsideKept
    <3>4. \A r \in Procs : r # q => op'[r].ino # op[q].ino
      <4> SUFFICES ASSUME NEW r \in Procs, r # q
                   PROVE  op'[r].ino # op[q].ino
        OBVIOUS
      <4>1. CASE r = p
        BY <4>1, <1>2, <2>3
      <4>2. CASE r # p
        BY <4>2, <3>3 DEF Kept, Apart
      <4> QED
        BY <4>1, <4>2
    <3>5. /\ \A f \in Names : dir'[f] # op[q].ino /\ bak'[f] # op[q].ino
          /\ inode'[op[q].ino] = inode[op[q].ino]
      BY <1>2, <2>3
    <3> QED
      BY <2>1, <3>2, <3>3, <3>4, <3>5 DEF Kept, Win
  <2> QED
    BY <2>2, <2>3
<1> QED
  BY <1>1, <1>2

\* A process with a file aside.
LEMMA AtAside ==
  ASSUME IInv, NEW q \in Procs, Aside(q)
  PROVE  /\ op[q].ino \in Inodes /\ op[q].ino # 0
         /\ \A f \in Names : dir[f] # op[q].ino /\ bak[f] # op[q].ino
         /\ \A r \in Procs : r # q => op[r].ino # op[q].ino
BY DEF IInv, InStep, OpFits, Ops, Aside, Writing, AsideKept, Kept

\* SetDisk keeps what something leads to.
LEMMA SetDiskIs ==
  ASSUME Constants, NEW d, NEW b, NEW n \in Disks, SetDisk(d, b, n)
  PROVE  /\ dir' = d /\ bak' = b /\ inode' \in Disks
         /\ \A i \in Inodes :
              \/ \E f \in Names : d[f] = i \/ b[f] = i
              \/ \E q \in Procs : op'[q].ino = i
              => inode'[i] = n[i]
<1>1. Blank \in [data : SUBSET Edits, time : Stamps, torn : BOOLEAN]
  BY Sizes DEF Blank
<1> QED
  BY <1>1 DEF SetDisk, Disks

\* A process lets go of its file, and no name or file that something leads to changes.
LEMMA LetGo ==
  ASSUME Constants, IInv, NEW p \in Procs, Apart(p), QuickOnly(p)', ~Aside(p)',
         op'[p].ino = 0, SetDisk(dir, bak, inode)
  PROVE  AsideKept' /\ UNCHANGED <<dir, bak>> /\ inode' \in Disks
<1>1. /\ dir' = dir /\ bak' = bak /\ inode' \in Disks
      /\ \A i \in Inodes : (\E q \in Procs : op'[q].ino = i) => inode'[i] = inode[i]
  <2>1. inode \in Disks
    BY DEF IInv, Typed
  <2> QED
    BY <2>1, SetDiskIs
<1>2. ASSUME NEW q \in Procs, q # p, Aside(q)
      PROVE  /\ op'[p].ino # op[q].ino
             /\ \A f \in Names : dir'[f] # op[q].ino /\ bak'[f] # op[q].ino
             /\ inode'[op[q].ino] = inode[op[q].ino]
  <2>1. op'[q].ino = op[q].ino /\ op[q].ino \in Inodes
    BY <1>2, AtAside DEF Apart
  <2> QED
    BY <1>1, <1>2, <2>1, AtAside
<1>3. AsideKept'
  BY <1>2, AsideStep DEF IInv
<1> QED
  BY <1>1, <1>3

\* Failed calls stay within their bound.
LEMMA FaultIs ==
  ASSUME Constants, IInv, Fault
  PROVE  faults' \in 0..MaxFaults
BY DEF Constants, IInv, Typed, Fault

\* The history of overwrites keeps its types.
LEMMA OverwriteIs ==
  ASSUME IInv, NEW p, NEW f \in Names, NEW i, Overwrite(p, f, i)
  PROVE  bare' \subseteq Names /\ silent' \in BOOLEAN
BY DEF IInv, Typed, Overwrite

\* Action SaveConfirm preserves the invariant.
LEMMA SaveConfirmStep ==
  ASSUME Constants, IInv, NEW p \in Procs, SaveConfirm(p)
  PROVE  IInv'
<1> DEFINE w == op[p].w
<1>1. /\ op[p].pc \in Saving /\ op[p].pc \notin Writing
      /\ UNCHANGED <<disk, lock, history>> /\ used' = used /\ UNCHANGED <<lock, shaken>>
  BY DEF SaveConfirm, At, Saving, Writing, history
<1>2. /\ op[p] \in Ops /\ w \in Windows /\ win[w] \in WEdits /\ WinFits(win[w], used[w])
  BY <1>1, AtSave, Busy DEF IInv
<1>3. op[p].ino = 0
  BY <1>1, AtSave DEF OpFits
<1>4. Typed'
  BY <1>1 DEF IInv, Typed, disk, history
<1>5. CASE Goto(p, "create") /\ win' = [win EXCEPT ![W(p)].told = TRUE]
  <2> DEFINE M == [win[w] EXCEPT !.told = TRUE]
             N == [op[p] EXCEPT !.pc = "create", !.mode = op[p].mode, !.ino = 0]
             mode == op[p].mode
  <2>1. M \in WEdits /\ WinFits(M, used[w]) /\ M.file = win[w].file /\ M.locked = win[w].locked
    BY <1>2, ToldIs
  <2>2. [op[p] EXCEPT !.pc = "create"] = N
    BY <1>2, <1>3 DEF Ops
  <2>3. OpStep(p, N) /\ Goes(N, op[p], "create", mode, 0) /\ WinStep(w, M)
    BY <1>5, <2>2 DEF Goto, OpStep, Goes, WinStep, W
  <2>4. /\ 0 \in Inodes \cup {0} /\ ("create" \in Writing <=> 0 # 0) /\ "create" \in Saving
        /\ mode \in {"quick", "safe", "backup"}
    BY <1>2 DEF Writing, Saving, Ops
  <2> HIDE DEF M, N, mode, w
  <2>5. InStep' /\ Apart(p) /\ op'[p] = N /\ LocksSound' /\ N.pc = "create" /\ N.ino = 0
        /\ N.then # "delete"
    <3>1. WinStep(op[p].w, M) /\ WinFits(M, used[op[p].w])
          /\ M.file = win[op[p].w].file /\ M.locked = win[op[p].w].locked /\ M \in WEdits
      BY <2>1, <2>3 DEF w
    <3> QED
      BY ONLY Constants, IInv, p \in Procs, <1>1, <2>3, <2>4, <3>1, SaveOn
  <2>6. AsideKept'
    <3>1. QuickOnly(p)' /\ ~Aside(p)'
      BY <2>5 DEF QuickOnly, Aside, Locking
    <3> QED
      BY <1>1, <2>5, <3>1, QuietDisk DEF IInv
  <2> QED
    BY <1>4, <2>5, <2>6 DEF IInv
<1>6. CASE SaveDone(p, -1, Win(p).stat)
  <2>1. Win(p).stat \in Stamps \cup {0} /\ -1 \in {-1, 0, 1}
    BY <1>2 DEF Win, WEdits
  <2>2. /\ InStep' /\ Apart(p) /\ LocksSound'
        /\ op'[p].ino = 0 /\ QuickOnly(p)' /\ ~Aside(p)'
    BY <1>1, <1>6, <2>1, SaveDoneIs
  <2>3. AsideKept'
    BY <1>1, <2>2, QuietDisk DEF IInv
  <2> QED
    BY <1>4, <2>2, <2>3 DEF IInv
<1> QED
  BY <1>5, <1>6 DEF SaveConfirm

\* A save that fails, or ends without a change of the files.
LEMMA FailedIs ==
  ASSUME Constants, IInv, NEW p \in Procs, op[p].pc \in Saving, Failed(p), used' = used,
         UNCHANGED <<lock, shaken>>
  PROVE  /\ InStep' /\ Apart(p) /\ LocksSound'
         /\ op'[p].ino = 0 /\ QuickOnly(p)' /\ ~Aside(p)'
<1>1. Win(p).stat \in Stamps \cup {0} /\ 0 \in {-1, 0, 1}
  BY AtSave, Busy DEF IInv, Win, WEdits
<1> QED
  BY <1>1, SaveDoneIs DEF Failed

\* Action SaveRestat preserves the invariant.
LEMMA SaveRestatStep ==
  ASSUME Constants, IInv, NEW p \in Procs, SaveRestat(p)
  PROVE  IInv'
<1> DEFINE i == dir[op[p].f]
<1>1. /\ op[p].pc \in Saving /\ UNCHANGED <<disk, lock, history>> /\ used' = used
      /\ UNCHANGED <<lock, shaken>>
  BY DEF SaveRestat, At, Saving, history
<1>2. Typed'
  BY <1>1 DEF IInv, Typed, disk, history
<1>3. op[p].f \in Names
  BY <1>1, AtSave
<1>4. /\ InStep' /\ Apart(p) /\ LocksSound'
      /\ op'[p].ino = 0 /\ QuickOnly(p)' /\ ~Aside(p)'
  <2>1. CASE i = 0
    BY <1>1, <2>1, FailedIs DEF SaveRestat
  <2>2. CASE i # 0
    <3>1. inode[i].time \in Stamps \cup {0} /\ 1 \in {-1, 0, 1}
      BY <1>3, <2>2 DEF IInv, Typed, Disks
    <3>2. SaveDone(p, 1, inode[i].time)
      BY <2>2 DEF SaveRestat
    <3> HIDE DEF i
    <3> QED
      BY <1>1, <3>1, <3>2, SaveDoneIs
  <2> QED
    BY <2>1, <2>2
<1>5. AsideKept'
  BY <1>1, <1>4, QuietDisk DEF IInv
<1> QED
  BY <1>2, <1>4, <1>5 DEF IInv

-----------------------------------------------------------------------------
(* edit_save_file: its system calls on the files.                          *)

\* Action SaveCreate preserves the invariant.
LEMMA SaveCreateStep ==
  ASSUME Constants, IInv, NEW p \in Procs, SaveCreate(p)
  PROVE  IInv'
<1> DEFINE w == op[p].w
           f == op[p].f
           quick == op[p].mode = "quick"
           i == IF quick /\ dir[f] # 0 THEN dir[f] ELSE FreeInode
           mode == op[p].mode
           N == [op[p] EXCEPT !.pc = "write", !.mode = mode, !.ino = i]
<1>1. /\ op[p].pc = "create" /\ op[p].pc \in Saving /\ op[p].pc \notin Writing
      /\ UNCHANGED <<bak, lock, used, shaken>> /\ used' = used /\ UNCHANGED <<lock, shaken>>
  BY DEF SaveCreate, At, Saving, Writing
<1>2. /\ op[p] \in Ops /\ w \in Windows /\ win[w] \in WEdits /\ WinFits(win[w], used[w])
      /\ f \in Names /\ op[p].ino = 0
  BY <1>1, AtSave, Busy DEF IInv, OpFits
<1>3. CASE /\ op' = [op EXCEPT ![p].pc = "write", ![p].ino = i]
           /\ \E t \in NextStamps(f) :
                inode' = [inode EXCEPT ![i] = [data |-> {}, time |-> t, torn |-> TRUE]]
           /\ dir' = IF quick THEN [dir EXCEPT ![f] = i] ELSE dir
           /\ IF quick THEN Overwrite(p, f, dir[f]) ELSE UNCHANGED <<bare, silent>>
           /\ UNCHANGED <<win, faults>>
  <2>1. /\ FreeInode \in Inodes
        /\ \A g \in Names : dir[g] # FreeInode /\ bak[g] # FreeInode
        /\ \A q \in Procs : op[q].ino # FreeInode
    BY <1>2, FreeInodeIs DEF IInv
  <2>2. i \in Inodes /\ i # 0 /\ \A q \in Procs : Aside(q) => op[q].ino # i
    BY <1>2, <2>1, AtAside, Sizes DEF IInv, Typed
  <2>3. ~quick => /\ \A g \in Names : dir[g] # i /\ bak[g] # i
                  /\ \A q \in Procs : op[q].ino # i
    BY <2>1
  <2> HIDE DEF i
  <2>4. [op[p] EXCEPT !.pc = "write", !.ino = i] = N
    BY <1>2, <2>2 DEF Ops
  <2>5. OpStep(p, N) /\ Goes(N, op[p], "write", mode, i) /\ WinStep(w, win[w])
    BY <1>2, <1>3, <2>4 DEF OpStep, Goes, WinStep, IInv, InStep
  <2>6. /\ i \in Inodes \cup {0} /\ ("write" \in Writing <=> i # 0) /\ "write" \in Saving
        /\ mode \in {"quick", "safe", "backup"}
    BY <1>2, <2>2 DEF Writing, Saving, Ops
  <2> HIDE DEF N
  <2>7. InStep' /\ Apart(p) /\ op'[p] = N /\ LocksSound' /\ N.pc = "write" /\ N.ino = i
        /\ N.then # "delete" /\ N.mode = mode
    <3> HIDE DEF mode
    <3>1. WinStep(op[p].w, win[w]) /\ WinFits(win[w], used[op[p].w])
          /\ win[w].file = win[op[p].w].file /\ win[w].locked = win[op[p].w].locked
      BY <1>2, <2>5
    <3> HIDE DEF w
    <3> QED
      BY ONLY Constants, IInv, p \in Procs, <1>1, <1>2, <2>5, <2>6, <3>1, SaveOn
  <2>8. PICK t \in Stamps :
          inode' = [inode EXCEPT ![i] = [data |-> {}, time |-> t, torn |-> TRUE]]
    <3>1. NextStamps(f) \subseteq Stamps
      BY <1>2, FreshStampIs DEF NextStamps, IInv, Typed, Disks
    <3> QED
      BY <1>3, <3>1
  <2>9. inode' \in Disks /\ \A j \in Inodes : j # i => inode'[j] = inode[j]
    BY <2>2, <2>8 DEF IInv, Typed, Disks
  <2>10. /\ dir' \in [Names -> Inodes \cup {0}]
         /\ \A g \in Names : dir'[g] = dir[g] \/ (quick /\ dir'[g] = i)
    BY <1>2, <1>3, <2>2 DEF IInv, Typed
  <2>11. Typed'
    BY <1>1, <1>2, <1>3, <2>9, <2>10, OverwriteIs DEF IInv, Typed
  <2>12. AsideKept'
    <3>1. QuickOnly(p)'
      BY <2>7 DEF QuickOnly, Locking
    <3>2. Aside(p)' => Kept(p)'
      BY <1>1, <2>3, <2>7, <2>10 DEF Aside, Kept, Apart
    <3>3. ASSUME NEW q \in Procs, q # p, Aside(q)
          PROVE  /\ op'[p].ino # op[q].ino
                 /\ \A g \in Names : dir'[g] # op[q].ino /\ bak'[g] # op[q].ino
                 /\ inode'[op[q].ino] = inode[op[q].ino]
      BY <1>1, <2>2, <2>7, <2>9, <2>10, <3>3, AtAside
    <3> QED
      BY <2>7, <3>1, <3>2, <3>3, AsideStep DEF IInv
  <2> QED
    BY <2>7, <2>11, <2>12 DEF IInv
<1>4. CASE Fault /\ Failed(p) /\ UNCHANGED <<dir, inode, bare, silent>>
  <2>1. /\ InStep' /\ Apart(p) /\ LocksSound'
        /\ op'[p].ino = 0 /\ QuickOnly(p)' /\ ~Aside(p)'
    BY <1>1, <1>4, FailedIs
  <2>2. AsideKept'
    BY <1>1, <1>4, <2>1, QuietDisk DEF IInv, disk
  <2>3. Typed'
    BY <1>1, <1>4, FaultIs DEF IInv, Typed
  <2> QED
    BY <2>1, <2>2, <2>3 DEF IInv
<1> QED
  BY <1>3, <1>4 DEF SaveCreate

\* Action SaveWrite preserves the invariant.
LEMMA SaveWriteStep ==
  ASSUME Constants, IInv, NEW p \in Procs, SaveWrite(p)
  PROVE  IInv'
<1> DEFINE w == op[p].w
           i == op[p].ino
           mode == op[p].mode
<1>1. /\ op[p].pc = "write" /\ op[p].pc \in Saving /\ op[p].pc \in Writing
      /\ UNCHANGED <<lock, used, shaken, bare, silent>> /\ used' = used
      /\ UNCHANGED <<lock, shaken>>
  BY DEF SaveWrite, At, Saving, Writing
<1>2. /\ op[p] \in Ops /\ w \in Windows /\ win[w] \in WEdits /\ WinFits(win[w], used[w])
      /\ i \in Inodes /\ i # 0 /\ mode \in {"quick", "safe", "backup"}
  BY <1>1, AtSave, Busy DEF IInv, OpFits, Ops
<1>3. ASSUME NEW t \in {FreshStamp} \cup IF FineClock THEN {} ELSE {inode[i].time},
             Goto(p, CASE op[p].mode = "quick"  -> "restat"
                       [] op[p].mode = "safe"   -> "rename"
                       [] op[p].mode = "backup" -> "backup"),
             win' = IF op[p].mode = "quick" THEN win ELSE [win EXCEPT ![W(p)].stat = t],
             SetDisk(dir, bak, [inode EXCEPT ![i] = [data |-> Win(p).buf, time |-> t,
                                                     torn |-> FALSE]]),
             UNCHANGED faults
      PROVE  IInv'
  <2> DEFINE pc == IF mode = "quick" THEN "restat" ELSE IF mode = "safe" THEN "rename" ELSE "backup"
             N == [op[p] EXCEPT !.pc = pc, !.mode = mode, !.ino = i]
             M == IF mode = "quick" THEN win[w] ELSE [win[w] EXCEPT !.stat = t]
             n == [inode EXCEPT ![i] = [data |-> Win(p).buf, time |-> t, torn |-> FALSE]]
  <2>1. t \in Stamps
    BY <1>2, <1>3, FreshStampIs DEF IInv, Typed, Disks
  <2>2. /\ M \in WEdits /\ WinFits(M, used[w]) /\ M.file = win[w].file
        /\ M.locked = win[w].locked /\ M.buf = win[w].buf
    BY <1>2, <2>1 DEF WEdits, WinFits
  <2>3. WinStep(w, M)
    BY <1>2, <1>3 DEF WinStep, W, IInv, InStep
  <2>4. [op[p] EXCEPT !.pc = pc] = N
    BY <1>2 DEF Ops
  <2>5. OpStep(p, N) /\ Goes(N, op[p], pc, mode, i)
    BY <1>2, <1>3, <2>4 DEF OpStep, Goes, Goto
  <2>6. n \in Disks /\ n[i] = [data |-> win[w].buf, time |-> t, torn |-> FALSE]
        /\ \A j \in Inodes : j # i => n[j] = inode[j]
    BY <1>2, <2>1 DEF IInv, Typed, Disks, Win, WEdits
  <2>7. SetDisk(dir, bak, n)
    BY <1>3
  <2>8. /\ i \in Inodes \cup {0} /\ (pc \in Writing <=> i # 0) /\ pc \in Saving
        /\ pc # "write" /\ (pc = "restat" <=> mode = "quick")
    BY <1>2 DEF Writing, Saving
  <2> HIDE DEF M, N, n, pc
  <2>9. InStep' /\ Apart(p) /\ op'[p] = N /\ LocksSound' /\ N.pc = pc /\ N.ino = i
        /\ N.then # "delete" /\ N.mode = mode /\ win'[w] = M /\ N.w = w
    <3>1. WinStep(op[p].w, M) /\ WinFits(M, used[op[p].w])
          /\ M.file = win[op[p].w].file /\ M.locked = win[op[p].w].locked
      BY <1>2, <2>2, <2>3
    <3>2. /\ mode \in {"quick", "safe", "backup"} /\ M \in WEdits
          /\ Goes(N, op[p], pc, mode, i) /\ OpStep(p, N) /\ i \in Inodes \cup {0}
      BY <1>2, <2>2, <2>5, <2>8
    <3>3. (pc \in Writing <=> i # 0) /\ pc \in Saving
      BY <2>8
    <3>4. /\ InStep' /\ Apart(p) /\ op'[p] = N /\ LocksSound' /\ win'[op[p].w] = M
          /\ N.pc = pc /\ N.mode = mode /\ N.ino = i /\ N.w = op[p].w
          /\ N.then = op[p].then /\ N.then # "delete"
      <4> HIDE DEF mode, i, w
      <4> QED
        BY ONLY Constants, IInv, p \in Procs, <1>1, <3>1, <3>2, <3>3, SaveOn
    <3> QED
      BY <3>4
  <2>10. /\ dir' = dir /\ bak' = bak /\ inode' \in Disks /\ inode'[i] = n[i]
         /\ \A j \in Inodes : (\E q \in Procs : op'[q].ino = j) => inode'[j] = n[j]
    BY <1>2, <2>6, <2>7, <2>9, SetDiskIs
  <2>11. Typed'
    BY <1>1, <1>3, <2>10 DEF IInv, Typed
  <2>12. AsideKept'
    <3>1. QuickOnly(p)'
      BY <1>1, <2>8, <2>9 DEF QuickOnly, Locking, Saving
    <3>2. ASSUME Aside(p)'
          PROVE  Kept(p)'
      <4>1. Aside(p)
        BY <1>1, <2>9, <3>2 DEF Aside
      <4>2. /\ \A g \in Names : dir[g] # i /\ bak[g] # i
            /\ \A r \in Procs : r # p => op[r].ino # i
        BY <4>1, AtAside
      <4>3. inode'[i].data = win'[w].buf /\ ~inode'[i].torn
        BY <2>2, <2>6, <2>9, <2>10
      <4> QED
        BY <2>9, <2>10, <4>2, <4>3 DEF Kept, Apart, Win
    <3>3. ASSUME NEW q \in Procs, q # p, Aside(q)
          PROVE  /\ op'[p].ino # op[q].ino
                 /\ \A g \in Names : dir'[g] # op[q].ino /\ bak'[g] # op[q].ino
                 /\ inode'[op[q].ino] = inode[op[q].ino]
      <4>1. /\ op[q].ino \in Inodes /\ op[q].ino # i /\ op'[q].ino = op[q].ino
            /\ \A g \in Names : dir[g] # op[q].ino /\ bak[g] # op[q].ino
        BY <2>9, <3>3, AtAside DEF Apart
      <4> QED
        BY <2>6, <2>9, <2>10, <4>1
    <3> QED
      BY <2>9, <3>1, <3>2, <3>3, AsideStep DEF IInv
  <2> QED
    BY <2>9, <2>11, <2>12 DEF IInv
<1>4. CASE Fault /\ Failed(p) /\ SetDisk(dir, bak, inode)
  <2>1. /\ InStep' /\ Apart(p) /\ LocksSound'
        /\ op'[p].ino = 0 /\ QuickOnly(p)' /\ ~Aside(p)'
    BY <1>1, <1>4, FailedIs
  <2>2. AsideKept' /\ UNCHANGED <<dir, bak>> /\ inode' \in Disks
    BY <1>4, <2>1, LetGo
  <2>3. Typed'
    BY <1>1, <1>4, <2>2, FaultIs DEF IInv, Typed
  <2> QED
    BY <2>1, <2>2, <2>3 DEF IInv
<1> QED
  BY <1>3, <1>4 DEF SaveWrite

\* Action SaveBackup preserves the invariant.
LEMMA SaveBackupStep ==
  ASSUME Constants, IInv, NEW p \in Procs, SaveBackup(p)
  PROVE  IInv'
<1> DEFINE w == op[p].w
           f == op[p].f
           i == op[p].ino
           mode == op[p].mode
<1>1. /\ op[p].pc = "backup" /\ op[p].pc \in Saving /\ op[p].pc \in Writing
      /\ UNCHANGED <<lock, used, shaken>> /\ used' = used
      /\ UNCHANGED <<lock, shaken>>
  BY DEF SaveBackup, At, Saving, Writing
<1>2. /\ op[p] \in Ops /\ w \in Windows /\ win[w] \in WEdits /\ WinFits(win[w], used[w])
      /\ i \in Inodes /\ i # 0 /\ mode \in {"quick", "safe", "backup"} /\ f \in Names
  BY <1>1, AtSave, Busy DEF IInv, OpFits, Ops
<1>3. CASE /\ dir[f] # 0
           /\ Overwrite(p, f, dir[f])
           /\ Goto(p, "rename") /\ UNCHANGED win
           /\ SetDisk([dir EXCEPT ![f] = 0], [bak EXCEPT ![f] = dir[f]], inode)
           /\ UNCHANGED faults
  <2> DEFINE N == [op[p] EXCEPT !.pc = "rename", !.mode = mode, !.ino = i]
             d == [dir EXCEPT ![f] = 0]
             b == [bak EXCEPT ![f] = dir[f]]
  <2>1. [op[p] EXCEPT !.pc = "rename"] = N
    BY <1>2 DEF Ops
  <2>2. OpStep(p, N) /\ Goes(N, op[p], "rename", mode, i) /\ WinStep(w, win[w])
    BY <1>2, <1>3, <2>1 DEF OpStep, Goes, Goto, WinStep, IInv, InStep
  <2>3. /\ i \in Inodes \cup {0} /\ ("rename" \in Writing <=> i # 0) /\ "rename" \in Saving
    BY <1>2 DEF Writing, Saving
  <2>4. /\ d \in [Names -> Inodes \cup {0}] /\ b \in [Names -> Inodes \cup {0}]
        /\ \A g \in Names : d[g] \in {0, dir[g]} /\ b[g] \in {bak[g], dir[g]}
        /\ SetDisk(d, b, inode) /\ inode \in Disks
    BY <1>2, <1>3 DEF IInv, Typed
  <2> HIDE DEF N, d, b
  <2>5. InStep' /\ Apart(p) /\ op'[p] = N /\ LocksSound' /\ N.pc = "rename" /\ N.ino = i
        /\ N.then # "delete" /\ N.mode = mode /\ win'[w] = win[w] /\ N.w = w
    <3>1. WinStep(op[p].w, win[w]) /\ WinFits(win[w], used[op[p].w])
          /\ win[w].file = win[op[p].w].file /\ win[w].locked = win[op[p].w].locked
      BY <1>2, <2>2
    <3>2. /\ InStep' /\ Apart(p) /\ op'[p] = N /\ LocksSound' /\ win'[op[p].w] = win[w]
          /\ N.pc = "rename" /\ N.mode = mode /\ N.ino = i /\ N.w = op[p].w
          /\ N.then = op[p].then /\ N.then # "delete"
      <4> HIDE DEF mode, i, w
      <4> QED
        BY ONLY Constants, IInv, p \in Procs, <1>1, <1>2, <2>2, <2>3, <3>1, SaveOn
    <3> QED
      BY <3>2
  <2>6. /\ dir' = d /\ bak' = b /\ inode' \in Disks
        /\ \A j \in Inodes : (\E q \in Procs : op'[q].ino = j) => inode'[j] = inode[j]
    BY <2>4, SetDiskIs
  <2>7. Typed'
    BY <1>1, <1>2, <1>3, <2>4, <2>6, OverwriteIs DEF IInv, Typed
  <2>8. AsideKept'
    <3>1. Aside(p) /\ QuickOnly(p)' /\ Kept(p)
      BY <1>1, <2>5 DEF QuickOnly, Aside, IInv, AsideKept, Locking
    <3>2. /\ \A g \in Names : dir[g] # i /\ bak[g] # i
          /\ \A r \in Procs : r # p => op[r].ino # i
      BY <3>1, AtAside
    <3>3. Kept(p)'
      <4>1. \A g \in Names : d[g] # i /\ b[g] # i
        BY <1>2, <2>4, <3>2
      <4>2. inode'[i] = inode[i] /\ inode[i].data = win[w].buf /\ ~inode[i].torn
        BY <1>1, <1>2, <2>5, <2>6, <3>1 DEF Kept, Win
      <4> QED
        BY <2>5, <2>6, <3>2, <4>1, <4>2 DEF Kept, Apart, Win
    <3>4. ASSUME NEW q \in Procs, q # p, Aside(q)
          PROVE  /\ op'[p].ino # op[q].ino
                 /\ \A g \in Names : dir'[g] # op[q].ino /\ bak'[g] # op[q].ino
                 /\ inode'[op[q].ino] = inode[op[q].ino]
      <4>1. /\ op[q].ino \in Inodes /\ op[q].ino # i /\ op'[q].ino = op[q].ino /\ op[q].ino # 0
            /\ \A g \in Names : dir[g] # op[q].ino /\ bak[g] # op[q].ino
        BY <2>5, <3>4, AtAside DEF Apart
      <4> QED
        BY <2>4, <2>5, <2>6, <4>1
    <3> QED
      BY <2>5, <3>1, <3>3, <3>4, AsideStep DEF IInv
  <2> QED
    BY <2>5, <2>7, <2>8 DEF IInv
<1>4. CASE /\ IF dir[f] = 0 THEN UNCHANGED faults ELSE Fault
           /\ Failed(p) /\ SetDisk(dir, bak, inode) /\ UNCHANGED <<bare, silent>>
  <2>1. /\ InStep' /\ Apart(p) /\ LocksSound'
        /\ op'[p].ino = 0 /\ QuickOnly(p)' /\ ~Aside(p)'
    BY <1>1, <1>4, FailedIs
  <2>2. AsideKept' /\ UNCHANGED <<dir, bak>> /\ inode' \in Disks
    BY <1>4, <2>1, LetGo
  <2>3. faults' \in 0..MaxFaults
    BY <1>4, FaultIs DEF IInv, Typed
  <2>4. Typed'
    BY <1>1, <1>4, <2>2, <2>3 DEF IInv, Typed
  <2> QED
    BY <2>1, <2>2, <2>4 DEF IInv
<1> QED
  BY <1>3, <1>4 DEF SaveBackup

\* Action SaveRename preserves the invariant.
LEMMA SaveRenameStep ==
  ASSUME Constants, IInv, NEW p \in Procs, SaveRename(p)
  PROVE  IInv'
<1> DEFINE w == op[p].w
           f == op[p].f
           i == op[p].ino
<1>1. /\ op[p].pc = "rename" /\ op[p].pc \in Saving /\ op[p].pc \in Writing
      /\ UNCHANGED <<lock, used, shaken>> /\ used' = used
      /\ UNCHANGED <<lock, shaken>>
  BY DEF SaveRename, At, Saving, Writing
<1>2. /\ w \in Windows /\ win[w] \in WEdits /\ i \in Inodes /\ i # 0 /\ f \in Names
  BY <1>1, AtSave, Busy DEF IInv, OpFits, Ops
<1>3. CASE /\ Overwrite(p, f, dir[f])
           /\ SaveDone(p, 1, Win(p).stat)
           /\ SetDisk([dir EXCEPT ![f] = op[p].ino], bak, inode)
           /\ UNCHANGED faults
  <2> DEFINE d == [dir EXCEPT ![f] = i]
  <2>1. Win(p).stat \in Stamps \cup {0} /\ 1 \in {-1, 0, 1}
    BY <1>2 DEF Win, WEdits
  <2>2. /\ InStep' /\ Apart(p) /\ LocksSound'
        /\ op'[p].ino = 0 /\ QuickOnly(p)' /\ ~Aside(p)'
    BY <1>1, <1>3, <2>1, SaveDoneIs
  <2>3. /\ d \in [Names -> Inodes \cup {0}] /\ \A g \in Names : d[g] \in {i, dir[g]}
        /\ SetDisk(d, bak, inode) /\ inode \in Disks
    BY <1>2, <1>3 DEF IInv, Typed
  <2> HIDE DEF d
  <2>4. /\ dir' = d /\ bak' = bak /\ inode' \in Disks
        /\ \A j \in Inodes : (\E q \in Procs : op'[q].ino = j) => inode'[j] = inode[j]
    BY <2>3, SetDiskIs
  <2>5. Typed'
    BY <1>1, <1>2, <1>3, <2>3, <2>4, OverwriteIs DEF IInv, Typed
  <2>6. ASSUME NEW q \in Procs, q # p, Aside(q)
        PROVE  /\ op'[p].ino # op[q].ino
               /\ \A g \in Names : dir'[g] # op[q].ino /\ bak'[g] # op[q].ino
               /\ inode'[op[q].ino] = inode[op[q].ino]
    <3>1. /\ op[q].ino \in Inodes /\ op[q].ino # i /\ op'[q].ino = op[q].ino /\ op[q].ino # 0
          /\ \A g \in Names : dir[g] # op[q].ino /\ bak[g] # op[q].ino
      BY <2>2, <2>6, AtAside DEF Apart
    <3> QED
      BY <2>2, <2>3, <2>4, <3>1
  <2>7. AsideKept'
    BY <2>2, <2>6, AsideStep DEF IInv
  <2> QED
    BY <2>2, <2>5, <2>7 DEF IInv
<1>4. CASE Fault /\ Failed(p) /\ SetDisk(dir, bak, inode) /\ UNCHANGED <<bare, silent>>
  <2>1. /\ InStep' /\ Apart(p) /\ LocksSound'
        /\ op'[p].ino = 0 /\ QuickOnly(p)' /\ ~Aside(p)'
    BY <1>1, <1>4, FailedIs
  <2>2. AsideKept' /\ UNCHANGED <<dir, bak>> /\ inode' \in Disks
    BY <1>4, <2>1, LetGo
  <2>3. Typed'
    BY <1>1, <1>4, <2>2, FaultIs DEF IInv, Typed
  <2> QED
    BY <2>1, <2>2, <2>3 DEF IInv
<1> QED
  BY <1>3, <1>4 DEF SaveRename

-----------------------------------------------------------------------------
(* Opening, closing, and a kill.                                           *)

\* Action CloseDelete preserves the invariant.
LEMMA CloseDeleteStep ==
  ASSUME Constants, IInv, NEW p \in Procs, CloseDelete(p)
  PROVE  IInv'
<1> DEFINE w == op[p].w
           d == IF win[w].delete_file THEN [dir EXCEPT ![win[w].file] = 0] ELSE dir
<1>1. /\ op[p].pc = "delete" /\ UNCHANGED <<lock, history>> /\ used' = used
      /\ UNCHANGED <<lock, shaken>> /\ OpStep(p, Idle) /\ WinStep(w, Closed)
      /\ SetDisk(d, bak, inode)
  BY DEF CloseDelete, At, W, Win, OpStep, WinStep, history
<1>2. /\ w \in Windows /\ win[w] \in WEdits /\ win[w].file \in Names /\ Owner[w] = p /\ InStep
  BY <1>1, Busy DEF IInv
<1>3. /\ d \in [Names -> Inodes \cup {0}] /\ \A g \in Names : d[g] \in {0, dir[g]}
      /\ inode \in Disks
  BY <1>2 DEF IInv, Typed
<1> HIDE DEF d
<1>4. /\ dir' = d /\ bak' = bak /\ inode' \in Disks
      /\ \A j \in Inodes : (\E q \in Procs : op'[q].ino = j) => inode'[j] = inode[j]
  BY <1>1, <1>3, SetDiskIs
<1>5. InStep' /\ Apart(p) /\ op'[p] = Idle /\ win'[w] = Closed
  <2>1. Idle \in Ops /\ OpFits(p, Idle, win', used')
    BY IdleIs DEF OpFits, Unlocking, Locking, Saving, Writing
  <2>2. Closed \in WEdits /\ WinFits(Closed, used[w])
    BY ClosedIs DEF WinFits
  <2> HIDE DEF w
  <2> QED
    BY <1>1, <1>2, <2>1, <2>2, StepWin
<1>6. LocksSound'
  <2>1. \A f \in Names : ~Holds(p, f)' /\ ~Owes(p, f)'
    BY <1>5, IdleIs DEF Holds, Owes
  <2>2. ASSUME NEW f \in Names, NEW v \in Windows, Owner[v] = p, Claims(v, f)'
        PROVE  Claims(v, f)
    <3>1. v # w
      BY <1>5, <2>2, ClosedIs DEF Claims
    <3>2. win'[v] = win[v]
      BY <1>1, <3>1 DEF WinStep, IInv, InStep
    <3> QED
      BY <2>2, <3>1, <3>2 DEF Claims, Closing
  <2> QED
    BY <1>1, <1>5, <2>1, <2>2, CalmStep DEF IInv
<1>7. AsideKept'
  <2>1. QuickOnly(p)' /\ ~Aside(p)'
    BY <1>5, IdleIs DEF QuickOnly, Aside
  <2>2. ASSUME NEW q \in Procs, q # p, Aside(q)
        PROVE  /\ op'[p].ino # op[q].ino
               /\ \A g \in Names : dir'[g] # op[q].ino /\ bak'[g] # op[q].ino
               /\ inode'[op[q].ino] = inode[op[q].ino]
    <3>1. /\ op[q].ino \in Inodes /\ op'[q].ino = op[q].ino /\ op[q].ino # 0
          /\ \A g \in Names : dir[g] # op[q].ino /\ bak[g] # op[q].ino
      BY <1>5, <2>2, AtAside DEF Apart
    <3> QED
      BY <1>3, <1>4, <1>5, <3>1, IdleIs
  <2> QED
    BY <1>5, <2>1, <2>2, AsideStep DEF IInv
<1>8. Typed'
  BY <1>1, <1>3, <1>4 DEF IInv, Typed, history
<1> QED
  BY <1>5, <1>6, <1>7, <1>8 DEF IInv

\* Action Open preserves the invariant.
LEMMA OpenStep ==
  ASSUME Constants, IInv, NEW w \in Windows, Given(w), NEW f \in Names, Open(w, f)
  PROVE  IInv'
<1> DEFINE p == Owner[w]
           new == dir[f] = 0
           i == IF new THEN FreeInode ELSE dir[f]
           M == [Closed EXCEPT !.file = f, !.delete_file = new, !.stat = inode'[i].time]
           N == [Idle EXCEPT !.pc = "read", !.w = w, !.f = f]
<1>1. /\ p \in Procs /\ op[p] = Idle /\ op[p].ino = 0 /\ used'[w] # 0
  BY GivenIs, IdleIs
<1>2. /\ OpStep(p, N) /\ WinStep(w, M) /\ UNCHANGED <<bak, lock>>
      /\ dir' = [dir EXCEPT ![f] = i]
      /\ inode' = IF new THEN [inode EXCEPT ![i] = [data |-> {}, time |-> FreshStamp,
                                                    torn |-> FALSE]]
                  ELSE inode
  BY DEF Open, OpStep, WinStep
<1>3. /\ FreeInode \in Inodes
      /\ \A g \in Names : dir[g] # FreeInode /\ bak[g] # FreeInode
      /\ \A q \in Procs : op[q].ino # FreeInode
  BY <1>1, FreeInodeIs DEF IInv
<1>4. /\ i \in Inodes /\ (new => \A q \in Procs : op[q].ino # i)
      /\ dir' \in [Names -> Inodes \cup {0}]
      /\ \A g \in Names : dir'[g] \in {dir[g], i}
  BY <1>2, <1>3 DEF IInv, Typed
<1>5. inode' \in Disks /\ \A j \in Inodes : (new /\ j = i) \/ inode'[j] = inode[j]
  BY <1>2, <1>4, FreshStampIs DEF IInv, Typed, Disks
<1>6. /\ M \in WEdits /\ WinFits(M, used'[w]) /\ ~M.locked /\ M.file = f
  <2>1. inode'[i].time \in Stamps \cup {0}
    BY <1>4, <1>5 DEF Disks
  <2> HIDE DEF i
  <2> QED
    BY <1>1, <2>1 DEF Closed, WEdits, WinFits
<1>7. i # 0 /\ \A q \in Procs : Aside(q) => op[q].ino # i
  BY <1>3, <1>4, AtAside, Sizes
<1> HIDE DEF M, i
<1>8. /\ N \in Ops /\ N.pc = "read" /\ N.w = w /\ N.f = f /\ N.ino = 0 /\ N.todo = <<>>
      /\ N.then = "idle" /\ N.held = FALSE /\ N.mode = "quick"
  BY IdleIs DEF Ops, Pcs
<1> HIDE DEF N
<1>9. OpFits(p, N, win', used')
  <2>1. win'[w].file = f
    BY <1>2, <1>6 DEF WinStep, IInv, InStep
  <2> QED
    BY <1>1, <1>8, <2>1 DEF OpFits, Unlocking, Locking, Saving, Writing
<1>10. InStep' /\ Apart(p) /\ op'[p] = N /\ win'[w] = M
  BY <1>2, <1>6, <1>8, <1>9, CommandStep
<1> HIDE DEF p
<1>11. UNCHANGED <<lock, shaken>>
  BY <1>2 DEF Given
<1>12. LocksSound'
  <2>1. \A g \in Names : ~Holds(p, g)' /\ ~Owes(p, g)'
    BY <1>8, <1>10 DEF Holds, Owes
  <2>2. ASSUME NEW g \in Names, NEW v \in Windows, Owner[v] = p, Claims(v, g)'
        PROVE  Claims(v, g)
    <3>1. v # w
      BY <1>6, <1>10, <2>2 DEF Claims
    <3>2. win'[v] = win[v]
      BY <1>2, <3>1 DEF WinStep, IInv, InStep
    <3> QED
      BY <1>1, <2>2, <3>2, IdleIs DEF Claims, Closing
  <2> QED
    BY <1>1, <1>10, <1>11, <2>1, <2>2, CalmStep DEF IInv
<1>13. AsideKept'
  <2>1. QuickOnly(p)' /\ ~Aside(p)'
    BY <1>8, <1>10 DEF QuickOnly, Aside
  <2>2. ASSUME NEW q \in Procs, q # p, Aside(q)
        PROVE  /\ op'[p].ino # op[q].ino
               /\ \A g \in Names : dir'[g] # op[q].ino /\ bak'[g] # op[q].ino
               /\ inode'[op[q].ino] = inode[op[q].ino]
    <3>1. /\ op[q].ino \in Inodes /\ op[q].ino # 0 /\ op[q].ino # i
          /\ \A g \in Names : dir[g] # op[q].ino /\ bak[g] # op[q].ino
      BY <1>7, <2>2, AtAside
    <3> QED
      BY <1>2, <1>4, <1>5, <1>8, <1>10, <3>1
  <2> QED
    BY <1>1, <1>10, <2>1, <2>2, AsideStep DEF IInv
<1>14. Typed'
  BY <1>2, <1>4, <1>5, GivenIs DEF IInv, Typed, Given
<1> QED
  BY <1>10, <1>12, <1>13, <1>14 DEF IInv

\* Action Crash preserves the invariant.
LEMMA CrashStep ==
  ASSUME Constants, IInv, NEW p \in Procs, Crash(p)
  PROVE  IInv'
<1>1. /\ Fault /\ OpStep(p, Idle) /\ SetDisk(dir, bak, inode) /\ used' = used
      /\ win' = [w \in Windows |-> IF Owner[w] = p THEN Closed ELSE win[w]]
      /\ lock' = [f \in Names |-> IF lock[f] = p THEN Dead ELSE lock[f]]
      /\ UNCHANGED <<used, shaken, bare, silent>>
  BY DEF Crash, OpStep
<1>2. op' \in [Procs -> Ops] /\ op'[p] = Idle /\ \A q \in Procs : q # p => op'[q] = op[q]
  BY <1>1, IdleIs DEF OpStep, IInv, InStep
<1>3. win' \in [Windows -> WEdits] /\ Apart(p)
  BY <1>1, <1>2, ClosedIs DEF IInv, InStep, Apart
<1>4. InStep'
  <2>1. \A w \in Windows : Owner[w] = p => WinFits(win'[w], used'[w])
    BY <1>1, ClosedIs DEF WinFits
  <2>2. OpFits(p, op'[p], win', used')
    BY <1>2, IdleIs DEF OpFits, Unlocking, Locking, Saving, Writing
  <2>3. InStep
    BY DEF IInv
  <2> QED
    BY <1>2, <1>3, <2>1, <2>2, <2>3, StepInStep
<1>5. LocksSound'
  <2> SUFFICES ASSUME NEW f \in Names \ shaken
               PROVE  LockSound(f)'
    BY <1>1 DEF LocksSound
  <2>1. LockSound(f)
    BY DEF IInv, LocksSound
  <2>2. ASSUME NEW w \in Windows, Claims(w, f)'
        PROVE  Claims(w, f) /\ Owner[w] # p
    <3>1. Owner[w] # p
      BY <1>1, <2>2, ClosedIs DEF Claims
    <3> QED
      BY <1>3, <2>2, <3>1 DEF Claims, Closing, Apart, Constants
  <2>3. ~Holds(p, f)' /\ ~Owes(p, f)'
    BY <1>2, IdleIs DEF Holds, Owes
  <2>4. ASSUME NEW q \in Procs, q # p
        PROVE  (Holds(q, f)' <=> Holds(q, f)) /\ (Owes(q, f)' <=> Owes(q, f))
    BY <1>2, <2>4 DEF Holds, Owes
  <2>5. \A w \in Windows : Claims(w, f)' => lock'[f] = Owner[w]
    BY <1>1, <2>1, <2>2 DEF LockSound
  <2>6. \A w, v \in Windows : Claims(w, f)' /\ Claims(v, f)' => w = v
    BY <2>1, <2>2 DEF LockSound
  <2>7. \A q \in Procs : Holds(q, f)' => lock'[f] = q /\ \A w \in Windows : ~Claims(w, f)'
    BY <1>1, <2>1, <2>2, <2>3, <2>4 DEF LockSound
  <2>8. \A q \in Procs, w \in Windows : Owes(q, f)' /\ Owner[w] = q => ~Claims(w, f)'
    BY <2>1, <2>2, <2>3, <2>4 DEF LockSound
  <2> QED
    BY <2>5, <2>6, <2>7, <2>8 DEF LockSound
<1>6. op'[p].ino = 0 /\ QuickOnly(p)' /\ ~Aside(p)'
  BY <1>2, IdleIs DEF QuickOnly, Aside
<1>7. AsideKept' /\ UNCHANGED <<dir, bak>> /\ inode' \in Disks
  BY <1>1, <1>3, <1>6, LetGo
<1>8. Typed'
  BY <1>1, <1>7, FaultIs DEF IInv, Typed
<1> QED
  BY <1>4, <1>5, <1>7, <1>8 DEF IInv

-----------------------------------------------------------------------------
(* The invariant.                                                          *)

\* Finitely many names can be numbered.
LEMMA Numbered ==
  ASSUME Constants
  PROVE  LET number == CHOOSE n \in [Names -> 1..Cardinality(Names)] :
                          \A f, g \in Names : f # g => n[f] # n[g]
         IN  /\ number \in [Names -> 1..Cardinality(Names)]
             /\ \A f, g \in Names : f # g => number[f] # number[g]
<1> DEFINE m == Cardinality(Names)
<1>1. ExistsBijection(1..m, Names)
  BY FS_CardinalityType DEF Constants
<1>2. PICK b \in [1..m -> Names] : \A f \in Names : \E i \in 1..m : b[i] = f
  BY <1>1 DEF ExistsBijection, Bijection, Surjection
<1> HIDE DEF m
<1> DEFINE n == [f \in Names |-> CHOOSE i \in 1..m : b[i] = f]
<1>3. \A f \in Names : n[f] \in 1..m /\ b[n[f]] = f
  BY <1>2
<1>4. n \in [Names -> 1..m] /\ \A f, g \in Names : f # g => n[f] # n[g]
  BY <1>3
<1> HIDE DEF n
<1> QED
  BY <1>4 DEF m

\* The initial states satisfy the invariant.
LEMMA InitInv ==
  ASSUME Constants, Init
  PROVE  IInv
<1>1. Typed
  <2>1. dir \in [Names -> Inodes \cup {0}]
    <3> DEFINE number == CHOOSE n \in [Names -> 1..Cardinality(Names)] :
                            \A f, g \in Names : f # g => n[f] # n[g]
    <3>1. number \in [Names -> 1..Cardinality(Names)]
      BY Numbered
    <3>2. dir = [f \in Names |-> IF f \in FirstNames THEN number[f] ELSE 0]
      BY DEF Init
    <3> HIDE DEF number
    <3>3. 1..Cardinality(Names) \subseteq Inodes
      <4>1. \A a, b \in Nat : 1..a \subseteq 1..(2 * a + b)
        OBVIOUS
      <4> QED
        BY <4>1, Sizes DEF Inodes
    <3> QED
      BY <3>1, <3>2, <3>3
  <2>2. Blank \in [data : SUBSET Edits, time : Stamps, torn : BOOLEAN]
    BY Sizes DEF Blank
  <2>3. /\ bak = [f \in Names |-> 0] /\ inode = [i \in Inodes |-> Blank]
        /\ lock = [f \in Names |-> NoLock] /\ used = [w \in Windows |-> 0]
        /\ faults = 0 /\ shaken = {} /\ bare = {} /\ silent = FALSE
    BY DEF Init
  <2>4. bak \in [Names -> Inodes \cup {0}] /\ lock \in [Names -> Procs \cup {NoLock, Dead}]
    BY <2>3
  <2>5. inode \in [Inodes -> [data : SUBSET Edits, time : Stamps, torn : BOOLEAN]]
    BY <2>2, <2>3
  <2>6. used \in [Windows -> Nat] /\ \A w \in Windows : used[w] \in 0..Budget[w]
    BY <2>3 DEF Constants
  <2>7. faults \in 0..MaxFaults
    BY <2>3 DEF Constants
  <2> QED
    BY <2>1, <2>3, <2>4, <2>5, <2>6, <2>7 DEF Typed, Disks
<1>2. InStep
  <2>1. ASSUME NEW w \in Windows
        PROVE  win[w] \in WEdits /\ WinFits(win[w], used[w])
    <3>1. FirstFile[w] \in Names \cup {NoName} /\ 1 \in Stamps
      BY Sizes DEF Constants
    <3> QED
      BY <3>1 DEF Init, Closed, WEdits, WinFits
  <2>2. ASSUME NEW p \in Procs
        PROVE  op[p] \in Ops /\ OpFits(p, op[p], win, used)
    BY IdleIs DEF Init, OpFits, Unlocking, Locking, Saving, Writing
  <2>3. win \in [Windows -> WEdits] /\ op \in [Procs -> Ops]
    BY <2>1, <2>2 DEF Init
  <2> QED
    BY <2>1, <2>2, <2>3 DEF InStep
<1>3. LocksSound
  <2>1. \A w \in Windows, f \in Names : ~Claims(w, f)
    BY DEF Init, Claims, Closed
  <2>2. \A p \in Procs, f \in Names : ~Holds(p, f) /\ ~Owes(p, f)
    <3>1. \A p \in Procs : op[p] = Idle
      BY DEF Init
    <3> QED
      BY <3>1, IdleIs DEF Holds, Owes
  <2> QED
    BY <2>1, <2>2 DEF LocksSound, LockSound
<1>4. AsideKept
  BY IdleIs DEF Init, AsideKept, QuickOnly, Aside
<1> QED
  BY <1>1, <1>2, <1>3, <1>4 DEF IInv

\* Every step preserves the invariant.
LEMMA NextInv ==
  ASSUME Constants, IInv, [Next]_vars
  PROVE  IInv'
<1>1. ASSUME NEW w \in Windows, Command(w)
      PROVE  IInv'
  <2>1. Given(w)
    BY <1>1 DEF Command, Given, Change, Save, SaveAsCmd, CloseCmd, Open
  <2> QED
    BY <1>1, <2>1, ChangeStep, SaveCmdStep, CloseCmdStep, OpenStep DEF Command
<1>2. ASSUME NEW p \in Procs, Step(p)
      PROVE  IInv'
  <2>1. CASE LockStep(p)
    BY <2>1, LockReadStep, LockAskStep, LockUnlinkStep, LockLinkStep DEF LockStep
  <2>2. CASE UnlockStep(p)
    BY <2>2, UnlockLookStep, UnlockRemoveStep DEF UnlockStep
  <2>3. CASE SaveStep(p)
    BY <2>3, SaveCheckStep, SaveConfirmStep, SaveCreateStep, SaveWriteStep, SaveRestatStep,
       SaveBackupStep, SaveRenameStep, SaveAsStep, SaveCloseStep DEF SaveStep
  <2>4. CASE Read(p) \/ CloseDelete(p)
    BY <2>4, ReadStep, CloseDeleteStep
  <2> QED
    BY <1>2, <2>1, <2>2, <2>3, <2>4 DEF Step
<1>3. ASSUME NEW p \in Procs, Crash(p)
      PROVE  IInv'
  BY <1>3, CrashStep
<1>4. CASE UNCHANGED vars
  <2>1. Typed'
    BY <1>4 DEF vars, IInv, Typed
  <2>2. InStep'
    BY <1>4 DEF vars, IInv, InStep
  <2>3. LocksSound'
    BY <1>4 DEF vars, IInv, LocksSound, LockSound, Claims, Closing, Holds, Owes
  <2>4. AsideKept'
    BY <1>4 DEF vars, IInv, AsideKept, QuickOnly, Aside, Kept, Win
  <2> QED
    BY <2>1, <2>2, <2>3, <2>4 DEF IInv
<1> QED
  BY <1>1, <1>2, <1>3, <1>4 DEF Next

\* The invariant holds in every reachable state.
LEMMA AlwaysIInv ==
  ASSUME Constants
  PROVE  Spec => []IInv
<1>1. Init => IInv
  BY InitInv
<1>2. IInv /\ [Next]_vars => IInv'
  BY NextInv
<1> QED
  BY <1>1, <1>2, PTL DEF Spec

-----------------------------------------------------------------------------
(* What follows from it.                                                   *)

\* Every variable has its type, and a process works on a window of its own.
THEOREM TypeCorrect ==
  ASSUME Constants
  PROVE  Spec => []TypeOK
<1>1. IInv => TypeOK
  BY DEF IInv, Typed, InStep, OpFits, Ops, WEdits, Disks, TypeOK, W
<1> QED
  BY <1>1, AlwaysIInv, PTL

\* A window that believes it holds the lock of its file does hold it, unless somebody has
\* taken the link away or was refused one unasked (lock_file, unlock_file of lib/lock.c
\* with edit_save_cmd, edit_save_as_cmd, edit_close_cmd and edit_clean).
THEOREM LocksAreOwn ==
  ASSUME Constants
  PROVE  Spec => []LockIsOwn
<1>1. IInv => LockIsOwn
  <2> SUFFICES ASSUME IInv, NEW w \in Windows, win[w].locked,
                      win[w].file \notin shaken, ~Closing(w)
               PROVE  lock[win[w].file] = Owner[w]
    BY DEF LockIsOwn
  <2>1. win[w].file \in Names
    BY DEF IInv, InStep, WinFits, WEdits
  <2>2. Claims(w, win[w].file)
    BY DEF Claims
  <2> QED
    BY <2>1, <2>2 DEF IInv, LocksSound, LockSound
<1> QED
  BY <1>1, AlwaysIInv, PTL

-----------------------------------------------------------------------------
(* The texts.                                                              *)

\* A step of one process leaves the commands of the others alone; one that does not work
\* on files leaves them alone, and a command of the user finds its process idle.
LEMMA WhoseStep ==
  ASSUME Constants, IInv, Next, NEW p \in Procs, op'[p] # op[p], faults' = faults,
         op[p].mode # "quick"
  PROVE  Step(p)
<1>1. ASSUME NEW w \in Windows, Command(w)
      PROVE  FALSE
  <2>1. Given(w)
    BY <1>1 DEF Command, Given, Change, Save, SaveAsCmd, CloseCmd, Open
  <2>2. Owner[w] \in Procs /\ op[Owner[w]].mode = "quick" /\ Owner[w] # p
    BY <2>1, GivenIs, IdleIs
  <2>3. \/ op' = op
        \/ \E N : op' = [op EXCEPT ![Owner[w]] = N]
    BY <1>1 DEF Command, Change, Save, SaveAsCmd, CloseCmd, Open, SaveStart, LockFile
  <2> QED
    BY <2>2, <2>3 DEF IInv, InStep
<1>2. ASSUME NEW q \in Procs, Crash(q)
      PROVE  FALSE
  BY <1>2 DEF Crash, Fault, IInv, Typed, Constants
<1>3. ASSUME NEW q \in Procs, Step(q), q # p
      PROVE  FALSE
  <2>1. \E N : op' = [op EXCEPT ![q] = N]
    <3>1. CASE Read(q) \/ CloseDelete(q)
      BY <3>1 DEF Read, CloseDelete
    <3>2. CASE LockStep(q)
      BY <3>2 DEF LockStep, LockRead, LockAsk, LockUnlink, LockLink, LockDone, Goto
    <3>3. CASE UnlockStep(q)
      BY <3>3 DEF UnlockStep, UnlockStat, UnlockRead, UnlockRemove
    <3>4. CASE SaveStep(q)
      BY <3>4 DEF SaveStep, SaveCheck, SaveConfirm, SaveCreate, SaveWrite, SaveRestat,
         SaveBackup, SaveRename, SaveAs, SaveClose, Goto, Failed, SaveDone, SaveStart, LockFile
    <3> QED
      BY <1>3, <3>1, <3>2, <3>3, <3>4 DEF Step
  <2> QED
    BY <1>3, <2>1 DEF IInv, InStep
<1> QED
  BY <1>1, <1>2, <1>3 DEF Next

\* What TextKept says of one step, process and name.
Keeps(p, f) ==
    \/ dir'[f] = dir[f] /\ inode'[dir[f]] = inode[dir[f]]
    \/ dir'[f] = 0 /\ bak'[f] = dir[f]
    \/ dir'[f] # 0 /\ ~inode'[dir'[f]].torn /\ inode'[dir'[f]].data = Win(p).buf

\* Every step of a save that is not a quick one leaves the text of each name.
LEMMA TextStep ==
  ASSUME Constants, IInv, NEW p \in Procs, Step(p), op[p].mode # "quick",
         faults' = faults, NEW f \in Names, dir[f] # 0
  PROVE  Keeps(p, f)
<1> DEFINE i == op[p].ino
<1>1. dir[f] \in Inodes /\ inode \in Disks /\ ~Fault
  BY DEF IInv, Typed, Fault, Constants
<1>2. QuickOnly(p)
  BY DEF IInv, AsideKept
<1>3. CASE Read(p) \/ CloseDelete(p)
  BY <1>2, <1>3 DEF Read, CloseDelete, At, QuickOnly
<1>4. CASE UNCHANGED disk
  BY <1>4 DEF Keeps, disk
<1>5. CASE SaveCreate(p)
  <2>1. op[p].ino = 0
    BY <1>5, AtSave DEF SaveCreate, At, Saving, OpFits, Writing
  <2>2. \A g \in Names : dir[g] # FreeInode
    BY <2>1, FreeInodeIs DEF IInv
  <2>3. dir' = dir /\ inode'[dir[f]] = inode[dir[f]]
    BY <1>1, <1>5, <2>2 DEF SaveCreate, IInv, Typed, Disks
  <2> QED
    BY <2>3 DEF Keeps
<1>6. CASE SaveWrite(p)
  <2>1. Aside(p)
    BY <1>6 DEF SaveWrite, At, Aside
  <2>2. i \in Inodes /\ dir[f] # i
    BY <2>1, AtAside
  <2>3. PICK t : SetDisk(dir, bak, [inode EXCEPT ![i] = [data |-> Win(p).buf, time |-> t,
                                                          torn |-> FALSE]])
    BY <1>1, <1>6 DEF SaveWrite
  <2>4. dir' = dir /\ inode'[dir[f]] = inode[dir[f]]
    BY <1>1, <2>2, <2>3 DEF SetDisk, Disks
  <2> QED
    BY <2>4 DEF Keeps
<1>7. CASE SaveBackup(p)
  <2>1. CASE SetDisk([dir EXCEPT ![op[p].f] = 0], [bak EXCEPT ![op[p].f] = dir[op[p].f]], inode)
    <3>1. CASE f = op[p].f
      BY <2>1, <3>1 DEF SetDisk, Keeps, IInv, Typed
    <3>2. CASE f # op[p].f
      BY <1>1, <2>1, <3>2 DEF SetDisk, Keeps, IInv, Typed
    <3> QED
      BY <3>1, <3>2
  <2>2. CASE SetDisk(dir, bak, inode)
    BY <1>1, <2>2 DEF SetDisk, Keeps
  <2> QED
    BY <1>7, <2>1, <2>2 DEF SaveBackup
<1>8. CASE SaveRename(p)
  <2>1. Aside(p) /\ Kept(p) /\ op[p].pc = "rename"
    BY <1>8 DEF SaveRename, At, Aside, IInv, AsideKept
  <2>2. i \in Inodes /\ i # 0
    BY <2>1, AtAside
  <2>3. SetDisk([dir EXCEPT ![op[p].f] = i], bak, inode)
    BY <1>1, <1>8 DEF SaveRename
  <2>4. CASE f = op[p].f
    <3>1. dir'[f] = i /\ inode'[i] = inode[i]
      BY <2>2, <2>3, <2>4 DEF SetDisk, IInv, Typed
    <3> QED
      BY <2>1, <2>2, <3>1 DEF Keeps, Kept
  <2>5. CASE f # op[p].f
    BY <1>1, <2>3, <2>5 DEF SetDisk, Keeps, IInv, Typed
  <2> QED
    BY <2>4, <2>5
<1>9. CASE LockStep(p)
  BY <1>4, <1>9 DEF LockStep, LockRead, LockAsk, LockUnlink, LockLink
<1>10. CASE UnlockStep(p)
  BY <1>4, <1>10 DEF UnlockStep, UnlockStat, UnlockRead, UnlockRemove
<1>11. CASE SaveCheck(p) \/ SaveConfirm(p) \/ SaveRestat(p) \/ SaveAs(p) \/ SaveClose(p)
  BY <1>4, <1>11 DEF SaveCheck, SaveConfirm, SaveRestat, SaveAs, SaveClose
<1> QED
  BY <1>3, <1>5, <1>6, <1>7, <1>8, <1>9, <1>10, <1>11 DEF Step, SaveStep

\* A save that is not a quick one leaves, after each of its steps, the complete text that a
\* name had before: under the name or under its backup, or the new one in its place
\* (edit_save_file).
THEOREM TextsAreKept ==
  ASSUME Constants
  PROVE  Spec => TextKept
<1>1. ASSUME IInv, Next
      PROVE  \A p \in Procs, f \in Names :
                /\ op'[p] # op[p] /\ op[p].mode # "quick" /\ faults' = faults
                /\ dir[f] # 0 /\ ~inode[dir[f]].torn
                => \/ dir'[f] = dir[f] /\ inode'[dir[f]] = inode[dir[f]]
                   \/ dir'[f] = 0 /\ bak'[f] = dir[f]
                   \/ dir'[f] # 0 /\ ~inode'[dir'[f]].torn /\ inode'[dir'[f]].data = Win(p).buf
  BY <1>1, WhoseStep, TextStep DEF Keeps
<1> QED
  BY <1>1, AlwaysIInv, PTL DEF Spec, TextKept

-----------------------------------------------------------------------------
(***************************************************************************)
(* NoSilentOverwrite: with distinct time stamps, nobody's text is          *)
(* overwritten by a user who was not asked, as long as nobody takes a lock *)
(* away and nobody writes without one.                                     *)
(*                                                                         *)
(* A time stamp that a window remembers is never given to another text, so *)
(* a window whose stamp is that of a file has all that the file has        *)
(* (Seen); a save looks at the stamp when it has the lock, and while it    *)
(* has it nobody adds to the file (Warned).                                *)
(***************************************************************************)
(* The inductive invariant.                                                *)

There(f) == dir[f] # 0
Data(f) == inode[dir[f]].data
Time(f) == inode[dir[f]].time
AsideTime(p) == inode[op[p].ino].time

(* A quick save between its truncation of the file and its end, and a      *)
(* window that was opened and is not read yet.                             *)
InPlace(p) == op[p].mode = "quick" /\ op[p].pc \in {"write", "restat"}
Reading(w) == op[Owner[w]].pc = "read" /\ op[Owner[w]].w = w

(* No lock was taken from its holder, and nothing written without one.     *)
Clean == shaken = {} /\ bare = {}

(* No two names lead to one inode; a window with a file remembers a stamp; *)
(* a save in place writes to no other name.                                *)
Placed == \A f, g \in Names : There(f) /\ dir[f] = dir[g] => f = g
Stated == \A w \in Windows : win[w].file # NoName => win[w].stat # 0
InOwn == \A p \in Procs, f \in Names :
    InPlace(p) /\ There(f) /\ dir[f] = op[p].ino => f = op[p].f

(* A stamp belongs to one text, or to files that are empty; that of a file *)
(* put aside is known to its own window only.                              *)
Unique == \A f, g \in Names :
    f # g /\ There(f) /\ There(g) /\ Time(f) = Time(g) => Data(f) = {}
AsideNew == \A p \in Procs : Aside(p) =>
    /\ \A f \in Names : There(f) => Time(f) # AsideTime(p)
    /\ \A q \in Procs : q # p /\ Aside(q) => AsideTime(q) # AsideTime(p)
    /\ \A w \in Windows : w # op[p].w => win[w].stat # AsideTime(p)
Opened == \A w \in Windows, f \in Names :
    Reading(w) /\ f # op[Owner[w]].f /\ There(f) /\ Time(f) = win[w].stat => Data(f) = {}

(* A window has what the file with its stamp has.                          *)
Seen == \A w \in Windows, f \in Names :
    ~Reading(w) /\ There(f) /\ Time(f) = win[w].stat => Data(f) \subseteq win[w].buf

(* A save that has the lock and need not ask, or has truncated the file.   *)
Sure(p) == \/ InPlace(p)
           \/ op[p].pc \in {"create", "write", "backup", "rename"} /\ ~Win(p).told
Warned == \A p \in Procs :
    Sure(p) /\ lock[op[p].f] = p /\ There(op[p].f) => Data(op[p].f) \subseteq Win(p).buf
Locked == \A p \in Procs : InPlace(p) => lock[op[p].f] = p

Known == Seen /\ Warned /\ Locked /\ ~silent
CInv == /\ Placed /\ Stated /\ InOwn /\ Unique /\ AsideNew /\ Opened
        /\ Clean => Known

-----------------------------------------------------------------------------
(* What a step of one process is looked at for.                            *)

(* Name f keeps its file; or it has one that is new to all but process p   *)
(* and the windows S.                                                      *)
Steady(f) == dir'[f] = dir[f] /\ (There(f) => inode'[dir[f]] = inode[dir[f]])
Newly(p, S, f) ==
    /\ There(f)' /\ \/ dir'[f] = dir[f]
                    \/ /\ \A g \in Names : dir[g] # dir'[f]
                       /\ \A q \in Procs : q # p => op[q].ino # dir'[f]
    /\ \A g \in Names : g # f /\ There(g) => Time(g) # Time(f)'
    /\ \A q \in Procs : q # p /\ Aside(q) => AsideTime(q) # Time(f)'
    /\ \A w \in Windows : w \notin S => win[w].stat # Time(f)'
    /\ Clean' => Data(f)' = {} \/ lock[f] = p

(* The step is p's, on windows S, and at most name f changes.              *)
Alone(p, S, f) ==
    /\ \A q \in Procs : q # p => op'[q] = op[q]
    /\ \A w \in Windows : w \notin S => win'[w] = win[w]
    /\ op[p].pc = "read" => op[p].w \in S
    /\ op'[p].pc = "read" => op'[p].w \in S
    /\ shaken \subseteq shaken' /\ bare \subseteq bare'
    /\ Clean' => \A g \in Names, q \in Procs : q # p => (lock'[g] = q <=> lock[g] = q)
    /\ \A g \in Names : g # f => Steady(g)
    /\ f \in Names => dir'[f] = 0 \/ Steady(f) \/ Newly(p, S, f)
    /\ \A q \in Procs : q # p /\ Aside(q) => inode'[op[q].ino] = inode[op[q].ino]

(* What the step leaves to be said of window w, and of process p.          *)
WinGood(p, w) ==
    /\ win'[w].file # NoName => win'[w].stat # 0
    /\ \A q \in Procs : q # p /\ Aside(q) => win'[w].stat # AsideTime(q)
    /\ \A g \in Names : Reading(w)' /\ g # op'[p].f /\ There(g)' /\ Time(g)' = win'[w].stat
         => Data(g)' = {}
    /\ Clean' => \A g \in Names : ~Reading(w)' /\ There(g)' /\ Time(g)' = win'[w].stat
         => Data(g)' \subseteq win'[w].buf
ProcGood(p) ==
    /\ InPlace(p)' => \A g \in Names : There(g)' /\ dir'[g] = op'[p].ino => g = op'[p].f
    /\ Aside(p)' => /\ \A g \in Names : There(g)' => Time(g)' # AsideTime(p)'
                    /\ \A q \in Procs : q # p /\ Aside(q) => AsideTime(q) # AsideTime(p)'
                    /\ \A w \in Windows : w # op'[p].w => win'[w].stat # AsideTime(p)'
    /\ Clean' => /\ Sure(p)' /\ lock'[op'[p].f] = p /\ There(op[p].f)'
                      => Data(op[p].f)' \subseteq Win(p)'.buf
                 /\ InPlace(p)' => lock'[op'[p].f] = p
                 /\ ~silent'

\* The names, after a step that is looked at so.
LEMMA NamesAlone ==
  ASSUME Placed, Unique, InOwn, NEW p \in Procs, NEW S, NEW f, Alone(p, S, f), ProcGood(p)
  PROVE  Placed' /\ Unique' /\ InOwn'
<1>1. ASSUME NEW g \in Names, NEW h \in Names, There(g)', dir'[g] = dir'[h]
      PROVE  g = h
  <2>1. \A e \in Names : e # f => dir'[e] = dir[e]
    BY DEF Alone, Steady
  <2>2. ASSUME NEW e \in Names, e = f \/ e # f, There(e)'
        PROVE  dir'[e] = dir[e] \/ (e = f /\ \A d \in Names : dir[d] # dir'[e])
    BY <2>1, <2>2 DEF Alone, Steady, Newly, There
  <2> QED
    BY <1>1, <2>1, <2>2 DEF Placed, There
<1>2. ASSUME NEW g \in Names, NEW h \in Names, g # h, There(g)', There(h)',
             Time(g)' = Time(h)'
      PROVE  Data(g)' = {}
  <2>1. ASSUME NEW e \in Names, e # f, There(e)'
        PROVE  There(e) /\ Time(e)' = Time(e) /\ Data(e)' = Data(e)
    BY <2>1 DEF Alone, Steady, There, Time, Data
  <2>2. CASE g # f /\ h # f
    BY <1>2, <2>1, <2>2 DEF Unique
  <2>3. CASE (g = f \/ h = f) /\ Steady(f)
    <3>1. There(f)' => There(f) /\ Time(f)' = Time(f) /\ Data(f)' = Data(f)
      BY <2>3 DEF Steady, There, Time, Data
    <3> QED
      BY <1>2, <2>1, <2>3, <3>1 DEF Unique
  <2>4. CASE (g = f \/ h = f) /\ Newly(p, S, f)
    BY <1>2, <2>1, <2>4 DEF Newly
  <2> QED
    BY <1>2, <2>2, <2>3, <2>4 DEF Alone, There
<1>3. ASSUME NEW q \in Procs, NEW g \in Names, InPlace(q)', There(g)',
             dir'[g] = op'[q].ino
      PROVE  g = op'[q].f
  <2>1. CASE q = p
    BY <1>3, <2>1 DEF ProcGood
  <2>2. CASE q # p
    <3>1. op'[q] = op[q] /\ InPlace(q)
      BY <1>3, <2>2 DEF Alone, InPlace
    <3>2. CASE dir'[g] = dir[g]
      BY <1>3, <3>1, <3>2 DEF InOwn, There
    <3> QED
      BY <1>3, <2>2, <3>1, <3>2 DEF Alone, Newly, Steady, There
  <2> QED
    BY <2>1, <2>2
<1> QED
  BY <1>1, <1>2, <1>3 DEF Placed, Unique, InOwn

\* The stamps, after a step that is looked at so.
LEMMA StampsAlone ==
  ASSUME Constants, IInv, InStep', Typed', CInv, NEW p \in Procs, NEW S \in SUBSET Windows,
         \A w \in S : Owner[w] = p, NEW f, Alone(p, S, f),
         \A w \in S : WinGood(p, w), ProcGood(p)
  PROVE  Stated' /\ AsideNew' /\ Opened'
<1>1. Stated'
  BY DEF CInv, Stated, Alone, WinGood
<1>2. ASSUME NEW g \in Names, There(g)'
      PROVE  \/ Steady(g) /\ There(g) /\ Time(g)' = Time(g) /\ Data(g)' = Data(g)
             \/ g = f /\ Newly(p, S, f)
  BY <1>2 DEF Alone, Steady, There, Time, Data
<1>3. ASSUME NEW q \in Procs, q # p, Aside(q)'
      PROVE  /\ Aside(q) /\ op'[q] = op[q] /\ AsideTime(q)' = AsideTime(q)
             /\ op[q].w \notin S
  <2>1. op'[q] = op[q] /\ Aside(q) /\ inode'[op[q].ino] = inode[op[q].ino]
    BY <1>3 DEF Alone, Aside
  <2>2. op[q].pc # "idle"
    BY <2>1 DEF Aside
  <2>3. Owner[op[q].w] = q
    BY <2>2, Busy DEF IInv
  <2> QED
    BY <1>3, <2>1, <2>3 DEF AsideTime
<1>4. ASSUME NEW q \in Procs, Aside(q)'
      PROVE  /\ \A g \in Names : There(g)' => Time(g)' # AsideTime(q)'
             /\ \A r \in Procs : r # q /\ Aside(r)' => AsideTime(r)' # AsideTime(q)'
             /\ \A w \in Windows : w # op'[q].w => win'[w].stat # AsideTime(q)'
  <2>1. CASE q = p
    BY <1>3, <1>4, <2>1 DEF ProcGood
  <2>2. CASE q # p
    <3>1. /\ Aside(q) /\ op'[q] = op[q] /\ AsideTime(q)' = AsideTime(q)
          /\ op[q].w \notin S
      BY <1>3, <1>4, <2>2
    <3>2. \A g \in Names : There(g)' => Time(g)' # AsideTime(q)'
      BY <1>2, <2>2, <3>1 DEF CInv, AsideNew, Newly
    <3>3. ASSUME NEW r \in Procs, r # q, Aside(r)'
          PROVE  AsideTime(r)' # AsideTime(q)'
      <4>1. CASE r = p
        BY <2>2, <3>1, <3>3, <4>1 DEF ProcGood
      <4>2. CASE r # p
        BY <1>3, <2>2, <3>1, <3>3, <4>2 DEF CInv, AsideNew
      <4> QED
        BY <4>1, <4>2
    <3>4. ASSUME NEW w \in Windows, w # op'[q].w
          PROVE  win'[w].stat # AsideTime(q)'
      <4>1. CASE w \in S
        BY <2>2, <3>1, <4>1 DEF WinGood
      <4>2. CASE w \notin S
        BY <3>1, <3>4, <4>2 DEF CInv, AsideNew, Alone
      <4> QED
        BY <4>1, <4>2
    <3> QED
      BY <3>2, <3>3, <3>4
  <2> QED
    BY <2>1, <2>2
<1>5. AsideNew'
  BY <1>4 DEF AsideNew
<1>6. ASSUME NEW w \in Windows, NEW g \in Names, Reading(w)', g # op'[Owner[w]].f,
             There(g)', Time(g)' = win'[w].stat
      PROVE  Data(g)' = {}
  <2>1. CASE w \in S
    BY <1>6, <2>1 DEF WinGood
  <2>2. CASE w \notin S
    <3>1. Owner[w] \in Procs /\ Owner[w] # p
      BY <1>6, <2>2 DEF Constants, Reading, Alone
    <3>2. Reading(w) /\ op'[Owner[w]] = op[Owner[w]] /\ win'[w] = win[w]
      BY <1>6, <2>2, <3>1 DEF Alone, Reading
    <3>3. ~Newly(p, S, f) \/ g # f
      BY <1>6, <2>2, <3>2 DEF Newly
    <3> QED
      BY <1>2, <1>6, <3>2, <3>3 DEF CInv, Opened
  <2> QED
    BY <2>1, <2>2
<1>7. Opened'
  BY <1>6 DEF Opened
<1> QED
  BY <1>1, <1>5, <1>7

\* What windows and saves know, after a step that is looked at so.
LEMMA KnownAlone ==
  ASSUME Constants, IInv, InStep', Typed', CInv, NEW p \in Procs, NEW S \in SUBSET Windows,
         \A w \in S : Owner[w] = p, NEW f, Alone(p, S, f),
         \A w \in S : WinGood(p, w), ProcGood(p), Clean'
  PROVE  Known'
<1>1. Clean /\ Known
  BY DEF Clean, Alone, CInv
<1>2. ASSUME NEW g \in Names, There(g)'
      PROVE  \/ Steady(g) /\ There(g) /\ Time(g)' = Time(g) /\ Data(g)' = Data(g)
             \/ g = f /\ Newly(p, S, f)
  BY <1>2 DEF Alone, Steady, There, Time, Data
<1>3. ASSUME NEW w \in Windows, NEW g \in Names, ~Reading(w)', There(g)',
             Time(g)' = win'[w].stat
      PROVE  Data(g)' \subseteq win'[w].buf
  <2>1. CASE w \in S
    BY <1>3, <2>1 DEF WinGood
  <2>2. CASE w \notin S
    <3>1. win'[w] = win[w] /\ Owner[w] \in Procs
      BY <2>2 DEF Alone, Constants
    <3>2. ~Reading(w)
      <4>1. CASE Owner[w] = p
        BY <2>2, <4>1 DEF Alone, Reading
      <4>2. CASE Owner[w] # p
        BY <1>3, <3>1, <4>2 DEF Alone, Reading
      <4> QED
        BY <4>1, <4>2
    <3>3. ~Newly(p, S, f) \/ g # f
      BY <1>3, <2>2, <3>1 DEF Newly
    <3> QED
      BY <1>1, <1>2, <1>3, <3>1, <3>2, <3>3 DEF Known, Seen
  <2> QED
    BY <2>1, <2>2
<1>4. ASSUME NEW q \in Procs, q # p, op[q].pc # "idle"
      PROVE  op'[q] = op[q] /\ Win(q)' = Win(q)
  <2>1. op'[q] = op[q] /\ op[q].w \in Windows /\ Owner[op[q].w] = q
    BY <1>4, Busy DEF Alone, IInv
  <2>2. op[q].w \notin S
    BY <1>4, <2>1
  <2> QED
    BY <2>1, <2>2 DEF Alone, Win
<1>5. ASSUME NEW q \in Procs, Sure(q)', lock'[op'[q].f] = q, There(op[q].f)'
      PROVE  Data(op[q].f)' \subseteq Win(q)'.buf
  <2>1. CASE q = p
    BY <1>5, <2>1 DEF ProcGood
  <2>2. CASE q # p
    <3>1. op'[q] = op[q] /\ op[q].pc \in Saving
      BY <1>5, <2>2 DEF Alone, Sure, InPlace, Saving
    <3>2. Win(q)' = Win(q) /\ Sure(q)
      BY <1>4, <1>5, <2>2, <3>1 DEF Saving, Sure, InPlace
    <3>3. op[q].f \in Names
      BY <3>1, AtSave
    <3>4. lock[op[q].f] = q
      BY <1>5, <2>2, <3>1, <3>3 DEF Alone
    <3>5. CASE There(op[q].f) /\ Data(op[q].f)' = Data(op[q].f)
      BY <1>1, <3>1, <3>2, <3>4, <3>5 DEF Known, Warned
    <3>6. CASE op[q].f = f /\ Newly(p, S, f)
      <4>1. Data(f)' = {} \/ lock[f] = p
        BY <3>6 DEF Newly
      <4> QED
        BY <2>2, <3>1, <3>4, <3>6, <4>1
    <3> QED
      BY <1>2, <1>5, <3>1, <3>3, <3>5, <3>6
  <2> QED
    BY <2>1, <2>2
<1>6. ASSUME NEW q \in Procs, InPlace(q)'
      PROVE  lock'[op'[q].f] = q
  <2>1. CASE q = p
    BY <1>6, <2>1 DEF ProcGood
  <2>2. CASE q # p
    <3>1. op'[q] = op[q] /\ InPlace(q) /\ op[q].pc \in Saving
      BY <1>6, <2>2 DEF Alone, InPlace, Saving
    <3>2. op[q].f \in Names
      BY <3>1, AtSave
    <3> QED
      BY <1>1, <2>2, <3>1, <3>2 DEF Known, Locked, Alone
  <2> QED
    BY <2>1, <2>2
<1> QED
  BY <1>3, <1>5, <1>6 DEF Known, Seen, Warned, Locked, ProcGood

\* A step that is looked at so preserves the invariant.
LEMMA StepAlone ==
  ASSUME Constants, IInv, IInv', CInv, NEW p \in Procs, NEW S \in SUBSET Windows,
         \A w \in S : Owner[w] = p, NEW f, Alone(p, S, f),
         \A w \in S : WinGood(p, w), ProcGood(p)
  PROVE  CInv'
<1>1. Placed' /\ Unique' /\ InOwn'
  BY NamesAlone DEF CInv
<1>2. Stated' /\ AsideNew' /\ Opened'
  BY StampsAlone DEF IInv
<1>3. Clean' => Known'
  BY KnownAlone DEF IInv
<1> QED
  BY <1>1, <1>2, <1>3 DEF CInv

-----------------------------------------------------------------------------
(* Steps that leave the files alone.                                       *)

\* A window of p is not the one of another's save, and so has another stamp.
LEMMA StampApart ==
  ASSUME Constants, IInv, CInv, NEW p \in Procs, NEW w \in Windows, Owner[w] = p,
         NEW q \in Procs, q # p, Aside(q)
  PROVE  win[w].stat # AsideTime(q)
<1>1. op[q].pc # "idle"
  BY DEF Aside
<1>2. Owner[op[q].w] = q
  BY <1>1, Busy DEF IInv
<1> QED
  BY <1>2 DEF CInv, AsideNew

(* Process p takes a step on window w, which loses nothing.                *)
Rest(p, w) ==
    /\ \A q \in Procs : q # p => op'[q] = op[q]
    /\ \A v \in Windows : v # w => win'[v] = win[v]
Milder(w) ==
    win'[w].stat = win[w].stat /\ win'[w].file = win[w].file /\ win[w].buf \subseteq win'[w].buf
LocksOfOthers(p) ==
    Clean' => \A g \in Names, q \in Procs : q # p => (lock'[g] = q <=> lock[g] = q)
AllSteady(p) ==
    /\ \A g \in Names : Steady(g)
    /\ \A q \in Procs : q # p /\ Aside(q) => inode'[op[q].ino] = inode[op[q].ino]

\* A step by which the files stay and p gets no file in its hands.
LEMMA QuietStep ==
  ASSUME Constants, IInv, IInv', CInv, NEW p \in Procs, NEW w \in Windows, Owner[w] = p,
         Rest(p, w), Milder(w), LocksOfOthers(p), AllSteady(p), op[p].pc # "read",
         op'[p].pc \notin {"read"} \cup Writing,
         shaken \subseteq shaken', bare' = bare, silent' = silent,
         op'[p].pc = "create" => /\ op'[p].w = w
                                 /\ \/ win'[w].told
                                    \/ Clean /\ There(op'[p].f) =>
                                         Data(op'[p].f) \subseteq win[w].buf
  PROVE  CInv'
<1>1. Alone(p, {w}, NoName)
  BY DEF Alone, Rest, LocksOfOthers, AllSteady, Constants
<1>2. \A g \in Names : There(g)' => There(g) /\ Time(g)' = Time(g) /\ Data(g)' = Data(g)
  BY DEF AllSteady, Steady, There, Time, Data
<1>3. ~Reading(w) /\ ~Reading(w)'
  BY DEF Reading
<1>4. WinGood(p, w)
  <2>1. win'[w].file # NoName => win'[w].stat # 0
    BY DEF Milder, CInv, Stated
  <2>2. \A q \in Procs : q # p /\ Aside(q) => win'[w].stat # AsideTime(q)
    BY StampApart DEF Milder
  <2>3. ASSUME Clean', NEW g \in Names, There(g)', Time(g)' = win'[w].stat
        PROVE  Data(g)' \subseteq win'[w].buf
    <3>1. Clean
      BY <2>3 DEF Clean
    <3> QED
      BY <1>2, <1>3, <2>3, <3>1 DEF CInv, Known, Seen, Milder
  <2> QED
    BY <1>3, <2>1, <2>2, <2>3 DEF WinGood
<1>5. ProcGood(p)
  <2>1. ~InPlace(p)' /\ ~Aside(p)' /\ (Sure(p)' => op'[p].pc = "create" /\ ~Win(p)'.told)
    BY DEF InPlace, Aside, Sure, Writing
  <2>2. ASSUME Clean', Sure(p)', There(op[p].f)'
        PROVE  Data(op[p].f)' \subseteq Win(p)'.buf
    <3>1. op'[p].pc = "create" /\ op'[p].w = w /\ ~win'[w].told
      BY <2>1, <2>2 DEF Win
    <3>2. op'[p].f \in Names
      BY <3>1 DEF IInv, InStep, OpFits, Saving
    <3>3. Clean
      BY <2>2 DEF Clean
    <3>4. There(op'[p].f) /\ Data(op[p].f)' = Data(op'[p].f)
      <4> DEFINE g == op'[p].f
      <4>1. dir'[g] # 0 /\ g \in Names
        BY <2>2, <3>2 DEF There
      <4>2. dir[g] # 0 /\ dir'[g] = dir[g] /\ inode'[dir[g]] = inode[dir[g]]
        BY <4>1 DEF AllSteady, Steady, There
      <4> QED
        BY <4>2 DEF There, Data
    <3> QED
      BY <3>1, <3>3, <3>4 DEF Win, Milder
  <2>3. Clean' => ~silent'
    BY DEF Clean, CInv, Known
  <2> QED
    BY <2>1, <2>2, <2>3 DEF ProcGood
<1> QED
  BY <1>1, <1>4, <1>5, StepAlone

\* On an unchanged disk everything is steady.
LEMMA DiskSteady ==
  ASSUME NEW p, UNCHANGED disk
  PROVE  AllSteady(p)
BY DEF disk, AllSteady, Steady

\* Window w, with what it had and more.
Fuller(M, w) == M.stat = win[w].stat /\ M.file = win[w].file /\ win[w].buf \subseteq M.buf

\* A window that is changed, or told, has what it had.
LEMMA FullerIs ==
  ASSUME NEW w \in Windows, win[w] \in WEdits
  PROVE  /\ Fuller(win[w], w) /\ Fuller([win[w] EXCEPT !.told = TRUE], w)
         /\ \A b \in BOOLEAN : /\ Fuller(Changed(w, b), w)
                               /\ Fuller([Changed(w, b) EXCEPT !.told = TRUE], w)
BY DEF Fuller, WEdits, Changed

\* lock_file preserves the invariant.
LEMMA LockKnown ==
  ASSUME Constants, IInv, IInv', CInv, NEW p \in Procs, LockStep(p)
  PROVE  CInv'
<1> DEFINE w == op[p].w
<1>1. /\ op \in [Procs -> Ops] /\ win \in [Windows -> WEdits]
      /\ lock \in [Names -> Procs \cup {NoLock, Dead}]
  BY DEF IInv, InStep, Typed
<1>2. op[p].pc \in Locking /\ op[p].pc # "idle" /\ op[p].pc # "read"
  BY DEF LockStep, LockRead, LockAsk, LockUnlink, LockLink, At, Locking
<1>3. w \in Windows /\ Owner[w] = p /\ op[p].f \in Names
  BY <1>2, Busy, AtLock DEF IInv
<1>4. UNCHANGED disk /\ bare' = bare /\ silent' = silent /\ shaken \subseteq shaken'
  BY DEF LockStep, LockRead, LockAsk, LockUnlink, LockLink, history
<1>5. \E N : OpStep(p, N) /\ N.pc \in {"idle", "check", "unlink", "ask", "symlink"}
  <2>1. \/ OpStep(p, Idle)
        \/ \E b \in BOOLEAN : OpStep(p, [op[p] EXCEPT !.held = b, !.pc = "check"])
        \/ \E pc \in {"unlink", "ask", "symlink"} : OpStep(p, [op[p] EXCEPT !.pc = pc])
    BY <1>1 DEF LockStep, LockRead, LockAsk, LockUnlink, LockLink, LockDone, Goto, OpStep
  <2>2. op[p] \in Ops
    BY <1>1
  <2>3. \A b \in BOOLEAN : [op[p] EXCEPT !.held = b, !.pc = "check"].pc = "check"
    BY <2>2 DEF Ops
  <2>4. \A pc \in {"unlink", "ask", "symlink"} : [op[p] EXCEPT !.pc = pc].pc = pc
    BY <2>2 DEF Ops
  <2> QED
    BY <2>1, <2>3, <2>4, IdleIs
<1>6. \E M : WinStep(w, M) /\ Fuller(M, w)
  <2>1. \/ WinStep(w, win[w])
        \/ \E b \in BOOLEAN : \/ WinStep(w, Changed(w, b))
                              \/ WinStep(w, [Changed(w, b) EXCEPT !.told = TRUE])
        \/ WinStep(w, [win[w] EXCEPT !.told = TRUE])
    BY <1>1 DEF LockStep, LockRead, LockAsk, LockUnlink, LockLink, LockDone, W, WinStep
  <2> QED
    BY <1>1, <1>3, <2>1, FullerIs
<1> HIDE DEF w
<1>7. /\ \A q \in Procs : q # p => op'[q] = op[q]
      /\ op'[p].pc \in {"idle", "check", "unlink", "ask", "symlink"}
  BY <1>1, <1>5 DEF OpStep
<1>8. (\A v \in Windows : v # w => win'[v] = win[v]) /\ Milder(w)
  BY <1>1, <1>3, <1>6 DEF WinStep, Fuller, Milder
<1>9. LocksOfOthers(p)
  <2> SUFFICES ASSUME Clean'
               PROVE  \/ lock' = lock
                      \/ lock' = [lock EXCEPT ![op[p].f] = p] /\ lock[op[p].f] = NoLock
    BY <1>1, <1>3 DEF LocksOfOthers, Constants
  <2>1. CASE LockRead(p) \/ LockAsk(p)
    BY <2>1 DEF LockRead, LockAsk
  <2>2. CASE LockUnlink(p)
    BY <1>1, <1>3, <2>2 DEF LockUnlink, Clean
  <2>3. CASE LockLink(p)
    BY <2>3 DEF LockLink, Clean
  <2> QED
    BY <2>1, <2>2, <2>3 DEF LockStep
<1> QED
  BY <1>2, <1>3, <1>4, <1>7, <1>8, <1>9, DiskSteady, QuietStep DEF Rest, Writing

\* Where an unlocking goes on to.
LEMMA ThenGoes ==
  ASSUME NEW o \in Ops, NEW todo
  PROVE  Then(o, todo).pc \in {"unstat", "idle", "saveas", "close", "delete"}
<1>1. CASE todo # <<>>
  BY <1>1 DEF Then, Ops
<1>2. CASE todo = <<>>
  BY <1>2, IdleIs DEF Then, Ops
<1> QED
  BY <1>1, <1>2

\* unlock_file preserves the invariant.
LEMMA UnlockKnown ==
  ASSUME Constants, IInv, IInv', CInv, NEW p \in Procs, UnlockStep(p)
  PROVE  CInv'
<1> DEFINE w == op[p].w
<1>1. /\ op \in [Procs -> Ops] /\ win \in [Windows -> WEdits] /\ op[p] \in Ops
      /\ lock \in [Names -> Procs \cup {NoLock, Dead}]
  BY DEF IInv, InStep, Typed
<1>2. op[p].pc \in Unlocking /\ op[p].pc # "idle" /\ op[p].pc # "read"
  BY DEF UnlockStep, UnlockStat, UnlockRead, UnlockRemove, At, Unlocking
<1>3. w \in Windows /\ Owner[w] = p
  BY <1>2, Busy DEF IInv
<1>4. /\ UNCHANGED disk /\ bare' = bare /\ silent' = silent /\ shaken \subseteq shaken'
      /\ win' = win
  BY DEF UnlockStep, UnlockStat, UnlockRead, UnlockRemove, history
<1>5. \E N : OpStep(p, N) /\ N.pc \in {"unstat", "idle", "saveas", "close", "delete",
                                       "unread", "remove"}
  <2>1. \/ OpStep(p, Then(op[p], Tail(op[p].todo)))
        \/ \E pc \in {"unread", "remove"} : OpStep(p, [op[p] EXCEPT !.pc = pc])
    BY DEF UnlockStep, UnlockStat, UnlockRead, UnlockRemove, OpStep
  <2>2. \A pc \in {"unread", "remove"} : [op[p] EXCEPT !.pc = pc].pc = pc
    BY <1>1 DEF Ops
  <2> QED
    BY <1>1, <2>1, <2>2, ThenGoes
<1> HIDE DEF w
<1>6. /\ \A q \in Procs : q # p => op'[q] = op[q]
      /\ op'[p].pc \notin {"read", "create"} \cup Writing
  BY <1>1, <1>5 DEF OpStep, Writing
<1>7. Rest(p, w) /\ Milder(w)
  BY <1>4, <1>6 DEF Rest, Milder
<1>8. LocksOfOthers(p)
  <2> SUFFICES ASSUME Clean', UnlockRemove(p)
               PROVE  \A g \in Names, q \in Procs : q # p => (lock'[g] = q <=> lock[g] = q)
    BY DEF UnlockStep, UnlockStat, UnlockRead, LocksOfOthers
  <2>1. lock[Head(op[p].todo)] \in {NoLock, p}
    BY DEF UnlockRemove, Clean
  <2> QED
    BY <1>1, <2>1 DEF UnlockRemove, Constants
<1> QED
  BY <1>2, <1>3, <1>4, <1>6, <1>7, <1>8, DiskSteady, QuietStep

\* lock_file begins with a look at the link.
LEMMA LockFileGoes ==
  ASSUME NEW p, NEW w, NEW f, NEW why, NEW closing, LockFile(p, w, f, why, closing)
  PROVE  \E N : OpStep(p, N) /\ N.pc \in {"symlink", "readlink"}
<1> DEFINE pc == IF lock[f] = NoLock THEN "symlink" ELSE "readlink"
           N == [Idle EXCEPT !.pc = pc, !.w = w, !.f = f, !.why = why, !.closing = closing]
<1>1. OpStep(p, N)
  BY DEF LockFile, OpStep
<1>2. N.pc = pc
  BY DEF Idle
<1> HIDE DEF N
<1> QED
  BY <1>1, <1>2

\* The commands that begin no look at a file preserve the invariant: edit_modification, and
\* the beginnings of a save, a save-as and a close.
LEMMA CommandKnown ==
  ASSUME Constants, IInv, IInv', CInv, NEW w \in Windows, Given(w),
         Change(w) \/ Save(w) \/ SaveAsCmd(w) \/ CloseCmd(w)
  PROVE  CInv'
<1> DEFINE p == Owner[w]
<1>1. /\ op \in [Procs -> Ops] /\ win \in [Windows -> WEdits] /\ p \in Procs
      /\ op[p] = Idle
  BY GivenIs DEF IInv, InStep
<1>2. UNCHANGED <<disk, lock, bare, silent, shaken>>
  BY DEF Given, Change, Save, SaveAsCmd, CloseCmd, SaveStart
<1>3. \E N : OpStep(p, N) /\ N.pc \in {"idle", "symlink", "readlink", "check", "saveas",
                                       "unstat", "delete"}
  <2> DEFINE Checks(f, why, b) ==
               [Idle EXCEPT !.pc = "check", !.w = w, !.f = f, !.why = why, !.closing = b]
             Asks == [Idle EXCEPT !.pc = "saveas", !.w = w]
             Closing0 == Close(w, FALSE)
  <2>1. \/ OpStep(p, op[p])
        \/ \E f \in Names \cup {NoName}, why \in {"modify", "save"}, b \in BOOLEAN :
             LockFile(p, w, f, why, b) \/ OpStep(p, Checks(f, why, b))
        \/ OpStep(p, Asks)
        \/ OpStep(p, Closing0)
    <3>1. win[w].file \in Names \cup {NoName}
      BY <1>1 DEF WEdits
    <3>2. CASE Change(w)
      BY <1>1, <3>1, <3>2 DEF Change, OpStep
    <3>3. CASE Save(w) \/ CloseCmd(w)
      BY <3>1, <3>3 DEF Save, CloseCmd, SaveStart, OpStep
    <3>4. CASE SaveAsCmd(w)
      BY <3>4 DEF SaveAsCmd, OpStep
    <3> QED
      BY <3>2, <3>3, <3>4
  <2>2. \A f, why, b : LockFile(p, w, f, why, b) =>
          \E N : OpStep(p, N) /\ N.pc \in {"symlink", "readlink"}
    BY LockFileGoes
  <2>3. Closing0.pc \in {"unstat", "delete"}
    BY DEF Close, Idle
  <2>4. Asks.pc = "saveas"
    BY DEF Idle
  <2>5. \A f, why, b : Checks(f, why, b).pc = "check"
    BY DEF Idle
  <2> DEFINE Pcs0 == {"idle", "symlink", "readlink", "check", "saveas", "unstat", "delete"}
  <2>6. CASE OpStep(p, op[p]) \/ OpStep(p, Closing0)
             \/ OpStep(p, Asks)
    <3>1. op[p].pc \in Pcs0 /\ Closing0.pc \in Pcs0
          /\ Asks.pc \in Pcs0
      BY <1>1, <2>3, <2>4, IdleIs
    <3> HIDE DEF Pcs0, Asks, Closing0
    <3> QED
      BY <2>6, <3>1 DEF Pcs0
  <2>7. ASSUME NEW f, NEW why, NEW b, LockFile(p, w, f, why, b)
        PROVE  \E N : OpStep(p, N) /\ N.pc \in Pcs0
    BY <2>2, <2>7
  <2>8. ASSUME NEW f, NEW why, NEW b, OpStep(p, Checks(f, why, b))
        PROVE  \E N : OpStep(p, N) /\ N.pc \in Pcs0
    <3>1. Checks(f, why, b).pc \in Pcs0
      BY <2>5
    <3> HIDE DEF Checks, Pcs0
    <3> QED
      BY <2>8, <3>1
  <2> HIDE DEF Checks, Pcs0, Asks, Closing0
  <2>9. \E N : OpStep(p, N) /\ N.pc \in Pcs0
    <3>1. CASE \E f \in Names \cup {NoName}, why \in {"modify", "save"}, b \in BOOLEAN :
                 LockFile(p, w, f, why, b) \/ OpStep(p, Checks(f, why, b))
      <4>1. PICK f \in Names \cup {NoName}, why \in {"modify", "save"}, b \in BOOLEAN :
                   LockFile(p, w, f, why, b) \/ OpStep(p, Checks(f, why, b))
        BY <3>1
      <4>2. CASE LockFile(p, w, f, why, b)
        BY <4>2, <2>7
      <4>3. CASE OpStep(p, Checks(f, why, b))
        BY <4>3, <2>8
      <4> QED
        BY <4>1, <4>2, <4>3
    <3> QED
      BY ONLY <2>1, <2>6, <3>1 DEF Pcs0
  <2> QED
    BY <2>9 DEF Pcs0
<1>4. \E M : WinStep(w, M) /\ Fuller(M, w)
  <2>1. WinStep(w, win[w]) \/ \E b \in BOOLEAN : WinStep(w, Changed(w, b))
    BY <1>1 DEF Change, Save, SaveAsCmd, CloseCmd, WinStep, WEdits
  <2> QED
    BY <1>1, <2>1, FullerIs
<1> HIDE DEF p
<1>5. /\ \A q \in Procs : q # p => op'[q] = op[q]
      /\ op'[p].pc \notin {"read", "create"} \cup Writing
  BY <1>1, <1>3 DEF OpStep, Writing
<1>6. (\A v \in Windows : v # w => win'[v] = win[v]) /\ Milder(w)
  BY <1>1, <1>4 DEF WinStep, Milder, Fuller
<1>7. LocksOfOthers(p) /\ op[p].pc # "read" /\ Owner[w] = p
  BY <1>1, <1>2, IdleIs DEF LocksOfOthers, p
<1> QED
  BY <1>1, <1>2, <1>5, <1>6, <1>7, DiskSteady, QuietStep DEF Rest

\* The user's answer to "Save as" preserves the invariant.
LEMMA SaveAsKnown ==
  ASSUME Constants, IInv, IInv', CInv, NEW p \in Procs, SaveAs(p)
  PROVE  CInv'
<1> DEFINE w == op[p].w
           Later == {"idle", "check", "symlink", "readlink"}
<1>1. /\ op \in [Procs -> Ops] /\ win \in [Windows -> WEdits] /\ op[p].pc = "saveas"
      /\ UNCHANGED <<disk, lock, history>>
  BY DEF IInv, InStep, SaveAs, At
<1>2. w \in Windows /\ Owner[w] = p /\ win[w] \in WEdits
  BY <1>1, Busy DEF IInv
<1>3. \E N : OpStep(p, N) /\ N.pc \in Later
  <2>1. CASE op' = [op EXCEPT ![p] = Idle]
    BY <2>1, IdleIs DEF OpStep
  <2>2. CASE \E f, why, b : LockFile(p, w, f, why, b)
    BY <2>2, LockFileGoes
  <2>3. CASE SaveStart(p, w, win[w].file, "saveas", op[p].closing)
    <3> DEFINE N == [Idle EXCEPT !.pc = "check", !.w = w, !.f = win[w].file, !.why = "saveas",
                                 !.closing = op[p].closing]
    <3>1. N.pc = "check"
      BY DEF Idle
    <3>2. OpStep(p, N) \/ LockFile(p, w, win[w].file, "saveas", op[p].closing)
      BY <2>3 DEF SaveStart, OpStep
    <3> HIDE DEF N
    <3> QED
      BY <2>2, <3>1, <3>2
  <2> QED
    BY <2>1, <2>2, <2>3 DEF SaveAs, W
<1>4. \E M : WinStep(w, M) /\ Fuller(M, w)
  <2>1. WinStep(w, win[w]) \/ WinStep(w, [win[w] EXCEPT !.told = TRUE])
    BY <1>1 DEF SaveAs, W, WinStep
  <2> QED
    BY <1>2, <2>1, FullerIs
<1> HIDE DEF w
<1>5. /\ \A q \in Procs : q # p => op'[q] = op[q]
      /\ op'[p].pc \notin {"read", "create"} \cup Writing
  BY <1>1, <1>3 DEF OpStep, Writing
<1>6. (\A v \in Windows : v # w => win'[v] = win[v]) /\ Milder(w)
  BY <1>1, <1>2, <1>4 DEF WinStep, Milder, Fuller
<1> QED
  BY <1>1, <1>2, <1>5, <1>6, DiskSteady, QuietStep DEF Rest, history, LocksOfOthers

\* The close after a save preserves the invariant.
LEMMA SaveCloseKnown ==
  ASSUME Constants, IInv, IInv', CInv, NEW p \in Procs, SaveClose(p)
  PROVE  CInv'
<1> DEFINE w == op[p].w
           N == Close(w, TRUE)
<1>1. /\ op \in [Procs -> Ops] /\ op[p].pc = "close"
      /\ UNCHANGED <<disk, lock, win, history>> /\ OpStep(p, N)
  BY DEF IInv, InStep, SaveClose, At, W, OpStep
<1>2. w \in Windows /\ Owner[w] = p
  BY <1>1, Busy DEF IInv
<1>3. N.pc \in {"unstat", "delete"}
  BY DEF Close, Idle
<1> HIDE DEF w, N
<1>4. /\ \A q \in Procs : q # p => op'[q] = op[q]
      /\ op'[p].pc \notin {"read", "create"} \cup Writing
  BY <1>1, <1>3 DEF OpStep, Writing
<1>5. Rest(p, w) /\ Milder(w)
  BY <1>1, <1>4 DEF Rest, Milder
<1> QED
  BY <1>1, <1>2, <1>4, <1>5, DiskSteady, QuietStep DEF history, LocksOfOthers

-----------------------------------------------------------------------------
(* edit_save_file: what it decides, and how it fails.                      *)

\* A save looks at the time stamp: if it is that of the window, the window has the text.
LEMMA CheckKnown ==
  ASSUME Constants, IInv, IInv', CInv, NEW p \in Procs, SaveCheck(p)
  PROVE  CInv'
<1> DEFINE w == op[p].w
           f == op[p].f
           mode == IF dir[f] = 0 THEN "quick" ELSE Mode[p]
           pc == IF Stale(p) THEN "confirm" ELSE "create"
           N == [op[p] EXCEPT !.mode = mode, !.pc = pc]
<1>1. /\ op \in [Procs -> Ops] /\ op[p].pc = "check" /\ op[p].pc \in Saving
      /\ UNCHANGED <<disk, lock, win, history>> /\ OpStep(p, N)
  BY DEF IInv, InStep, SaveCheck, At, OpStep, Saving
<1>2. /\ w \in Windows /\ Owner[w] = p /\ win[w].file # NoName /\ f \in Names
      /\ op[p] \in Ops
  BY <1>1, Busy, AtSave DEF IInv
<1>3. N.pc = pc /\ N.f = f /\ N.w = w
  BY <1>2 DEF Ops
<1>4. pc = "create" /\ Clean /\ There(f) => Data(f) \subseteq win[w].buf
  <2> SUFFICES ASSUME ~Stale(p), Clean, There(f)
               PROVE  Data(f) \subseteq win[w].buf
    OBVIOUS
  <2>1. win[w].stat = Time(f)
    BY <1>2 DEF Stale, Win, There, Time, CInv, Stated
  <2>2. ~Reading(w)
    BY <1>1, <1>2 DEF Reading
  <2> QED
    BY <1>2, <2>1, <2>2 DEF CInv, Known, Seen
<1> HIDE DEF w, N, f, pc
<1>5. (\A q \in Procs : q # p => op'[q] = op[q]) /\ op'[p] = N
  BY <1>1 DEF OpStep
<1>6. op'[p].pc \notin {"read"} \cup Writing
  BY <1>3, <1>5 DEF pc, Writing
<1>7. Rest(p, w) /\ Milder(w)
  BY <1>1, <1>5 DEF Rest, Milder
<1> QED
  BY <1>1, <1>2, <1>3, <1>4, <1>5, <1>6, <1>7, DiskSteady, QuietStep
  DEF history, LocksOfOthers

\* The process goes on to what comes after a save, or after a window.
Over(p) == op'[p].pc \in {"unstat", "idle", "saveas", "close", "delete"}

\* Where a save ends.
LEMMA SaveEnds ==
  ASSUME Constants, IInv, NEW p \in Procs, op[p].pc \in Saving, NEW res \in {-1, 0, 1},
         NEW stat \in Stamps \cup {0}, SaveDone(p, res, stat)
  PROVE  Over(p) /\ Rest(p, op[p].w)
<1>1. /\ op \in [Procs -> Ops] /\ win \in [Windows -> WEdits]
  BY DEF IInv, InStep
<1>2. PICK D \in Ops, M \in WEdits, todo \in Seq(Names) :
         OpStep(p, Then(D, todo)) /\ WinStep(op[p].w, M)
  BY SaveLeaves
<1>3. Then(D, todo).pc \in {"unstat", "idle", "saveas", "close", "delete"}
  BY ThenGoes
<1>4. op'[p] = Then(D, todo) /\ \A q \in Procs : q # p => op'[q] = op[q]
  BY <1>1, <1>2 DEF OpStep
<1>5. \A v \in Windows : v # op[p].w => win'[v] = win[v]
  BY <1>1, <1>2 DEF WinStep
<1> QED
  BY <1>3, <1>4, <1>5 DEF Over, Rest

\* A save that ends without a change of the files preserves the invariant.
LEMMA FailKnown ==
  ASSUME Constants, IInv, IInv', CInv, NEW p \in Procs, op[p].pc \in Saving,
         NEW res \in {-1, 0}, SaveDone(p, res, Win(p).stat), AllSteady(p),
         UNCHANGED <<lock, shaken, bare, silent>>
  PROVE  CInv'
<1> DEFINE w == op[p].w
           M == [win[w] EXCEPT !.stat = win[w].stat]
<1>1. /\ win \in [Windows -> WEdits] /\ op[p].pc # "idle" /\ op[p].pc # "read"
  BY DEF IInv, InStep, Saving
<1>2. w \in Windows /\ Owner[w] = p /\ win[w] \in WEdits
  BY <1>1, Busy DEF IInv
<1>3. WinStep(w, M) /\ Fuller(M, w)
  <2>1. WinStep(w, M)
    <3>1. \E s : win' = [win EXCEPT ![op[p].w] = IF res = 1 THEN s ELSE M]
      BY Zenon DEF SaveDone, Win
    <3>2. res # 1
      OBVIOUS
    <3> QED
      BY ONLY <3>1, <3>2 DEF WinStep, w
  <2>2. Fuller(M, w)
    BY <1>2 DEF Fuller, WEdits
  <2> QED
    BY <2>1, <2>2
<1>4. Over(p) /\ Rest(p, w)
  <2>1. Win(p).stat \in Stamps \cup {0}
    BY <1>2 DEF Win, WEdits
  <2>2. res \in {-1, 0, 1}
    OBVIOUS
  <2> QED
    BY <2>1, <2>2, SaveEnds
<1> HIDE DEF M, w
<1>5. Milder(w)
  BY <1>1, <1>2, <1>3 DEF WinStep, Fuller, Milder
<1>6. op'[p].pc \notin {"read", "create"} \cup Writing
  BY <1>4 DEF Over, Writing
<1> QED
  BY <1>1, <1>2, <1>4, <1>5, <1>6, QuietStep DEF LocksOfOthers

\* The question of a save, and both of its answers, preserve the invariant.
LEMMA ConfirmKnown ==
  ASSUME Constants, IInv, IInv', CInv, NEW p \in Procs, SaveConfirm(p)
  PROVE  CInv'
<1> DEFINE w == op[p].w
           M == [win[w] EXCEPT !.told = TRUE]
           N == [op[p] EXCEPT !.pc = "create"]
<1>1. /\ op \in [Procs -> Ops] /\ win \in [Windows -> WEdits]
      /\ op[p].pc = "confirm" /\ op[p].pc \in Saving
      /\ UNCHANGED <<disk, lock, history>>
  BY DEF IInv, InStep, SaveConfirm, At, Saving
<1>2. w \in Windows /\ Owner[w] = p /\ op[p] \in Ops /\ win[w] \in WEdits
  BY <1>1, Busy DEF IInv
<1>3. CASE SaveDone(p, -1, Win(p).stat)
  BY <1>1, <1>3, DiskSteady, FailKnown DEF history
<1>4. CASE Goto(p, "create") /\ win' = [win EXCEPT ![W(p)].told = TRUE]
  <2>1. WinStep(w, M) /\ OpStep(p, N)
    BY <1>4 DEF W, WinStep, OpStep, Goto
  <2>2. Fuller(M, w) /\ M.told
    BY <1>2, FullerIs DEF WEdits
  <2>3. N.pc = "create" /\ N.w = w
    BY <1>2 DEF Ops
  <2> HIDE DEF w, M, N
  <2>4. op'[p] = N /\ win'[w] = M /\ Rest(p, w)
    BY <1>1, <1>2, <2>1 DEF OpStep, WinStep, Rest
  <2>5. Milder(w)
    BY <2>2, <2>4 DEF Milder, Fuller
  <2>6. op'[p].pc \notin {"read"} \cup Writing
    BY <2>3, <2>4 DEF Writing
  <2> QED
    BY <1>1, <1>2, <2>2, <2>3, <2>4, <2>5, <2>6, DiskSteady, QuietStep
    DEF history, LocksOfOthers
<1> QED
  BY <1>3, <1>4 DEF SaveConfirm

-----------------------------------------------------------------------------
(* Reading, opening, and the end of a save in place.                       *)

\* Time stamps are not 0.
LEMMA TimesAre ==
  ASSUME Constants, Typed
  PROVE  /\ \A f \in Names : There(f) => Time(f) \in Stamps /\ dir[f] \in Inodes
         /\ 0 \notin Stamps /\ 0 \notin Inodes
<1>1. 0 \notin Stamps /\ 0 \notin Inodes
  BY Sizes
<1> QED
  BY <1>1 DEF Typed, There, Time, Disks

\* The stamp of a file put aside is not 0.
LEMMA AsideTimeIs ==
  ASSUME Constants, IInv, NEW q \in Procs, Aside(q)
  PROVE  AsideTime(q) \in Stamps
BY AtAside DEF IInv, Typed, AsideTime, Disks

\* Of a window that is gone there is nothing to say.
LEMMA ClosedGood ==
  ASSUME Constants, IInv, IInv', NEW p \in Procs, NEW w \in Windows, win'[w] = Closed,
         ~Reading(w)'
  PROVE  WinGood(p, w)
<1>1. win'[w].stat = 0 /\ win'[w].file = NoName
  BY DEF Closed
<1>2. (\A f \in Names : There(f)' => Time(f)' \in Stamps) /\ 0 \notin Stamps
  <2>1. Typed'
    BY DEF IInv
  <2>2. dir' \in [Names -> Inodes \cup {0}] /\ inode' \in Disks
    BY <2>1 DEF Typed
  <2> QED
    BY <2>2, Sizes DEF There, Time, Disks
<1>3. \A q \in Procs : Aside(q) => AsideTime(q) # 0
  BY <1>2, AsideTimeIs
<1> QED
  BY <1>1, <1>2, <1>3 DEF WinGood

\* Of a process that has no file in its hands there is nothing to say.
LEMMA OverGood ==
  ASSUME NEW p \in Procs, op'[p].pc \notin {"create"} \cup Writing, Clean' => ~silent'
  PROVE  ProcGood(p)
BY DEF ProcGood, InPlace, Aside, Sure, Writing

\* Reading gives a window what the file has.
LEMMA ReadKnown ==
  ASSUME Constants, IInv, IInv', CInv, NEW p \in Procs, Read(p)
  PROVE  CInv'
<1>1. /\ op \in [Procs -> Ops] /\ win \in [Windows -> WEdits] /\ op[p].pc = "read"
      /\ UNCHANGED <<disk, lock, history>> /\ OpStep(p, Idle)
  BY DEF IInv, InStep, Read, At, OpStep
<1>2. PICK w \in Windows, f \in Names :
         w = op[p].w /\ f = op[p].f /\ Owner[w] = p /\ win[w] \in WEdits
  BY <1>1, Busy DEF IInv, OpFits
<1>3. (\A q \in Procs : q # p => op'[q] = op[q]) /\ op'[p].pc = "idle"
  BY <1>1, IdleIs DEF OpStep
<1>4. Clean' => Clean /\ ~silent'
  BY <1>1 DEF Clean, history, CInv, Known
<1>5. \A g \in Names : Steady(g)
  BY <1>1 DEF disk, Steady
<1>6. Alone(p, {w}, NoName)
  <2>1. \A v \in Windows : v # w => win'[v] = win[v]
    BY <1>1, <1>2 DEF Read, W
  <2>2. UNCHANGED <<lock, shaken, bare, inode>> /\ NoName \notin Names
    BY <1>1 DEF history, disk, Constants
  <2>3. \A v \in Windows : v \notin {w} => win'[v] = win[v]
    BY <2>1
  <2> QED
    BY <1>2, <1>3, <1>5, <2>2, <2>3 DEF Alone
<1>7. ~Reading(w)' /\ Reading(w)
  BY <1>1, <1>2, <1>3 DEF Reading
<1>8. CASE dir[f] = 0
  <2>1. win'[w] = Closed
    BY <1>1, <1>2, <1>8 DEF Read, W
  <2>2. WinGood(p, w)
    BY <1>2, <1>7, <2>1, ClosedGood
  <2>3. ProcGood(p)
    BY <1>3, <1>4, OverGood DEF Writing
  <2> QED
    BY <1>2, <1>6, <2>2, <2>3, StepAlone
<1>9. CASE dir[f] # 0
  <2> DEFINE M == [win[w] EXCEPT !.buf = inode[dir[f]].data]
  <2>1. win'[w] = M
    BY <1>1, <1>2, <1>9 DEF Read, W
  <2>2. M.file = win[w].file /\ M.stat = win[w].stat /\ M.buf = Data(f)
    BY <1>2 DEF WEdits, Data
  <2> HIDE DEF M
  <2>3. \A g \in Names : There(g)' => There(g) /\ Time(g)' = Time(g) /\ Data(g)' = Data(g)
    BY <1>1 DEF disk, There, Time, Data
  <2>4. WinGood(p, w)
    <3>1. win'[w].file # NoName => win'[w].stat # 0
      BY <1>2, <2>1, <2>2 DEF CInv, Stated
    <3>2. \A q \in Procs : q # p /\ Aside(q) => win'[w].stat # AsideTime(q)
      BY <1>2, <2>1, <2>2, StampApart
    <3>3. ASSUME NEW g \in Names, There(g)', Time(g)' = win'[w].stat
          PROVE  Data(g)' \subseteq win'[w].buf
      <4>1. CASE g = f
        BY <2>1, <2>2, <2>3, <3>3, <4>1
      <4>2. CASE g # f
        BY <1>2, <1>7, <2>1, <2>2, <2>3, <3>3, <4>2 DEF CInv, Opened
      <4> QED
        BY <4>1, <4>2
    <3> QED
      BY <1>7, <3>1, <3>2, <3>3 DEF WinGood
  <2>5. ProcGood(p)
    BY <1>3, <1>4, OverGood DEF Writing
  <2> QED
    BY <1>2, <1>6, <2>4, <2>5, StepAlone
<1> QED
  BY <1>8, <1>9

\* Opening takes the stamp of the file, or makes a new file with a stamp of its own.
LEMMA OpenKnown ==
  ASSUME Constants, IInv, IInv', CInv, NEW w \in Windows, Given(w), NEW f \in Names,
         Open(w, f)
  PROVE  CInv'
<1> DEFINE p == Owner[w]
           i == IF dir[f] = 0 THEN FreeInode ELSE dir[f]
           N == [Idle EXCEPT !.pc = "read", !.w = w, !.f = f]
           M == [Closed EXCEPT !.file = f, !.delete_file = (dir[f] = 0),
                               !.stat = inode'[i].time]
<1>1. /\ op \in [Procs -> Ops] /\ win \in [Windows -> WEdits] /\ p \in Procs
      /\ op[p] = Idle /\ Typed /\ InStep /\ Typed'
  BY GivenIs DEF IInv, InStep
<1>2. /\ dir' = [dir EXCEPT ![f] = i] /\ OpStep(p, N) /\ WinStep(w, M)
      /\ UNCHANGED <<bak, lock, bare, silent, shaken>>
  BY DEF Open, OpStep, WinStep, Given
<1>3. /\ N.pc = "read" /\ N.w = w /\ N.f = f
      /\ M.stat = inode'[i].time /\ M.file = f
  BY DEF Idle, Closed
<1> HIDE DEF N, M
<1>4. /\ \A q \in Procs : q # p => op'[q] = op[q]
      /\ \A v \in Windows : v # w => win'[v] = win[v]
      /\ op'[p] = N /\ win'[w] = M
  BY <1>1, <1>2 DEF OpStep, WinStep
<1>5. /\ FreeInode \in Inodes /\ (\A g \in Names : dir[g] # FreeInode)
      /\ \A q \in Procs : op[q].ino # FreeInode
  <2>1. op[p].ino = 0
    BY <1>1, IdleIs
  <2> QED
    BY <1>1, <2>1, FreeInodeIs
<1>6. /\ FreshStamp \in Stamps /\ (\A j \in Inodes : inode[j].time # FreshStamp)
      /\ \A v \in Windows : win[v].stat # FreshStamp
  BY <1>1, FreshStampIs
<1>7. /\ dir \in [Names -> Inodes \cup {0}] /\ inode \in Disks /\ 0 \notin Inodes
      /\ dir' \in [Names -> Inodes \cup {0}] /\ inode' \in Disks /\ 0 \notin Stamps
  BY <1>1, Sizes DEF Typed
<1>8. dir'[f] = i /\ i \in Inodes /\ There(f)' /\ \A g \in Names : g # f => dir'[g] = dir[g]
  BY <1>2, <1>5, <1>7 DEF There
<1>9. /\ \A g \in Names : g # f => Steady(g)
      /\ \A q \in Procs : q # p /\ Aside(q) => inode'[op[q].ino] = inode[op[q].ino]
      /\ dir[f] # 0 => Steady(f)
  <2>1. CASE dir[f] # 0
    BY <1>7, <1>8, <2>1 DEF Open, Steady
  <2>2. CASE dir[f] = 0
    <3>1. \A j : j # FreeInode => inode'[j] = inode[j]
      BY <1>7, <2>2 DEF Open, Disks
    <3> QED
      BY <1>5, <1>8, <2>2, <3>1 DEF Steady
  <2> QED
    BY <2>1, <2>2
<1>10. ASSUME dir[f] = 0
       PROVE  Time(f)' = FreshStamp /\ Data(f)' = {} /\ Newly(p, {w}, f)
  <2>1. inode'[FreeInode] = [data |-> {}, time |-> FreshStamp, torn |-> FALSE]
    BY <1>5, <1>7, <1>10 DEF Open, Disks
  <2>2. Time(f)' = FreshStamp /\ Data(f)' = {}
    BY <1>8, <1>10, <2>1 DEF Time, Data
  <2>3. \A g \in Names : There(g) => Time(g) # FreshStamp
    BY <1>6, <1>7 DEF There, Time
  <2>4. \A q \in Procs : Aside(q) => AsideTime(q) # FreshStamp
    BY <1>6, AtAside DEF AsideTime
  <2> QED
    BY <1>5, <1>6, <1>8, <1>10, <2>2, <2>3, <2>4 DEF Newly
<1>11. Alone(p, {w}, f)
  BY <1>1, <1>2, <1>3, <1>4, <1>9, <1>10, IdleIs DEF Alone
<1>12. Time(f)' = win'[w].stat
  BY <1>3, <1>4, <1>8 DEF Time
<1>13. WinGood(p, w)
  <2>1. win'[w].stat # 0
    BY <1>7, <1>8, <1>12 DEF Time, Disks
  <2>2. ASSUME NEW q \in Procs, q # p, Aside(q)
        PROVE  win'[w].stat # AsideTime(q)
    <3>1. CASE dir[f] = 0
      BY <1>10, <1>12, <2>2, <3>1 DEF Newly
    <3>2. CASE dir[f] # 0
      <4>1. Time(f)' = Time(f) /\ There(f)
        BY <1>9, <3>2 DEF Steady, There, Time
      <4> QED
        BY <1>12, <2>2, <4>1 DEF CInv, AsideNew
    <3> QED
      BY <3>1, <3>2
  <2>3. ASSUME NEW g \in Names, g # f, There(g)', Time(g)' = Time(f)'
        PROVE  Data(g)' = {}
    <3>1. There(g) /\ Time(g)' = Time(g) /\ Data(g)' = Data(g)
      BY <1>9, <2>3 DEF Steady, There, Time, Data
    <3>2. CASE dir[f] = 0
      BY <1>10, <2>3, <3>1, <3>2 DEF Newly
    <3>3. CASE dir[f] # 0
      <4>1. Time(f)' = Time(f) /\ There(f)
        BY <1>9, <3>3 DEF Steady, There, Time
      <4> QED
        BY <2>3, <3>1, <4>1 DEF CInv, Unique
    <3> QED
      BY <3>2, <3>3
  <2>4. Reading(w)' /\ op'[p].f = f
    BY <1>3, <1>4 DEF Reading
  <2> QED
    BY <1>12, <2>1, <2>2, <2>3, <2>4 DEF WinGood
<1>14. ProcGood(p)
  <2>1. Clean' => ~silent'
    BY <1>2 DEF Clean, CInv, Known
  <2>2. op'[p].pc = "read"
    BY <1>3, <1>4
  <2> QED
    BY <1>1, <2>1, <2>2, OverGood DEF Writing
<1> HIDE DEF p
<1>15. {w} \in SUBSET Windows /\ \A v \in {w} : Owner[v] = p
  BY DEF p
<1> QED
  BY <1>1, <1>11, <1>13, <1>14, <1>15, StepAlone

\* What SetDisk leaves of the files, and of what other saves have put aside.
LEMMA SetDiskKeeps ==
  ASSUME Constants, IInv, NEW p \in Procs, \A q \in Procs : q # p => op'[q] = op[q],
         NEW d \in [Names -> Inodes \cup {0}], NEW b, NEW n \in Disks, SetDisk(d, b, n)
  PROVE  /\ dir' = d /\ \A g \in Names : d[g] # 0 => inode'[d[g]] = n[d[g]]
         /\ \A q \in Procs : q # p /\ Aside(q) => inode'[op[q].ino] = n[op[q].ino]
         /\ op'[p].ino \in Inodes => inode'[op'[p].ino] = n[op'[p].ino]
<1>1. /\ dir' = d
      /\ \A i \in Inodes :
           \/ \E f \in Names : d[f] = i \/ b[f] = i
           \/ \E q \in Procs : op'[q].ino = i
           => inode'[i] = n[i]
  BY SetDiskIs
<1>2. \A q \in Procs : q # p /\ Aside(q) => op[q].ino \in Inodes /\ op'[q].ino = op[q].ino
  BY AtAside
<1> QED
  BY <1>1, <1>2

\* When nothing is changed on the disk but that p lets its file go, everything is steady.
LEMMA LetGoSteady ==
  ASSUME Constants, IInv, NEW p \in Procs, \A q \in Procs : q # p => op'[q] = op[q],
         SetDisk(dir, bak, inode)
  PROVE  AllSteady(p)
<1>1. dir \in [Names -> Inodes \cup {0}] /\ inode \in Disks
  BY DEF IInv, Typed
<1> QED
  BY <1>1, SetDiskKeeps DEF AllSteady, Steady, There

\* A save that fails lets its file go, and knows no more than before.
LEMMA FailedKnown ==
  ASSUME Constants, IInv, IInv', CInv, NEW p \in Procs, op[p].pc \in Saving, Failed(p),
         SetDisk(dir, bak, inode), UNCHANGED <<lock, shaken, bare, silent>>
  PROVE  CInv'
<1>1. Win(p).stat \in Stamps \cup {0}
  <2>1. op[p].pc # "idle"
    BY DEF Saving
  <2> QED
    BY <2>1, Busy DEF Win, WEdits, IInv
<1>2. Rest(p, op[p].w)
  BY <1>1, SaveEnds DEF Failed
<1>3. AllSteady(p)
  BY <1>2, LetGoSteady DEF Rest
<1> QED
  BY <1>3, FailKnown DEF Failed

\* The stamp that a save in place reads at its end is that of its own text: it has the lock.
LEMMA RestatKnown ==
  ASSUME Constants, IInv, IInv', CInv, NEW p \in Procs, SaveRestat(p)
  PROVE  CInv'
<1>1. /\ op[p].pc = "restat" /\ op[p].pc \in Saving
      /\ UNCHANGED <<disk, lock, history>>
  BY DEF SaveRestat, At, Saving
<1>2. PICK w \in Windows, f \in Names :
         /\ w = op[p].w /\ f = op[p].f /\ Owner[w] = p /\ win[w] \in WEdits
         /\ win \in [Windows -> WEdits] /\ Typed
  BY <1>1, Busy, AtSave DEF IInv, InStep
<1>3. CASE dir[f] = 0
  <2>1. Failed(p) /\ UNCHANGED <<lock, shaken, bare, silent>> /\ AllSteady(p)
    BY <1>1, <1>2, <1>3, DiskSteady DEF SaveRestat, history
  <2> QED
    BY <1>1, <2>1, FailKnown DEF Failed
<1>4. CASE dir[f] # 0
  <2>1. SaveDone(p, 1, Time(f)) /\ Time(f) \in Stamps /\ Time(f) # 0 /\ There(f)
    BY <1>2, <1>4, TimesAre DEF SaveRestat, Time, There
  <2>2. Over(p) /\ Rest(p, w)
    <3>1. 1 \in {-1, 0, 1} /\ Time(f) \in Stamps \cup {0}
      BY <2>1
    <3> QED
      BY <1>1, <1>2, <2>1, <3>1, SaveEnds
  <2> DEFINE M == [win[w] EXCEPT !.file = f, !.modified = FALSE, !.locked = FALSE,
                             !.delete_file = FALSE, !.told = FALSE, !.stat = Time(f)]
  <2>3. win'[w] = M
    <3>1. win' = [win EXCEPT ![w] = M]
      BY <1>2, <2>1 DEF SaveDone, Win
    <3> HIDE DEF M
    <3> QED
      BY <1>2, <3>1
  <2>4. M.stat = Time(f) /\ M.buf = win[w].buf
    BY <1>2 DEF WEdits
  <2> HIDE DEF M
  <2>5. InPlace(p) /\ Sure(p)
    BY <1>1 DEF InPlace, Sure, IInv, AsideKept, QuickOnly
  <2>6. Clean' => Clean /\ Known /\ Data(f) \subseteq win[w].buf
    BY <1>1, <1>2, <2>1, <2>5 DEF Clean, history, CInv, Known, Locked, Warned, Win
  <2>7. \A g \in Names : There(g)' => There(g) /\ Time(g)' = Time(g) /\ Data(g)' = Data(g)
    BY <1>1 DEF disk, There, Time, Data
  <2>8. op'[p].pc \notin {"read", "create"} \cup Writing /\ ~Reading(w)'
    BY <1>2, <2>2 DEF Over, Writing, Reading
  <2>9. Alone(p, {w}, NoName)
    <3>1. UNCHANGED <<lock, shaken, bare>> /\ NoName \notin Names /\ AllSteady(p)
      BY <1>1, DiskSteady DEF history, Constants
    <3> QED
      BY <1>1, <2>2, <2>8, <3>1 DEF Alone, AllSteady, Rest
  <2>10. WinGood(p, w)
    <3>1. \A q \in Procs : Aside(q) => Time(f) # AsideTime(q)
      BY <2>1 DEF CInv, AsideNew
    <3>2. ASSUME Clean', NEW g \in Names, There(g)', Time(g)' = Time(f)
          PROVE  Data(g)' \subseteq win[w].buf
      BY <2>1, <2>6, <2>7, <3>2 DEF CInv, Unique
    <3> QED
      BY <2>1, <2>3, <2>4, <2>8, <3>1, <3>2 DEF WinGood
  <2>11. ProcGood(p)
    BY <1>1, <2>6, <2>8, OverGood DEF Known, history
  <2> QED
    BY <1>2, <2>9, <2>10, <2>11, StepAlone
<1> QED
  BY <1>3, <1>4

\* A window that is closed may take its file with it.
LEMMA CloseDeleteKnown ==
  ASSUME Constants, IInv, IInv', CInv, NEW p \in Procs, CloseDelete(p)
  PROVE  CInv'
<1>1. /\ op[p].pc = "delete" /\ UNCHANGED <<lock, shaken, bare, silent>>
      /\ OpStep(p, Idle) /\ op \in [Procs -> Ops] /\ dir \in [Names -> Inodes \cup {0}]
      /\ inode \in Disks
  BY DEF CloseDelete, At, history, OpStep, IInv, InStep, Typed
<1>2. PICK w \in Windows, f \in Names :
         /\ w = op[p].w /\ f = win[w].file /\ Owner[w] = p
         /\ win \in [Windows -> WEdits]
  BY <1>1, Busy DEF IInv, InStep
<1>3. /\ \A q \in Procs : q # p => op'[q] = op[q]
      /\ op'[p].pc = "idle" /\ WinStep(w, Closed)
  BY <1>1, <1>2, IdleIs DEF OpStep, CloseDelete, W, WinStep
<1>4. win'[w] = Closed /\ \A v \in Windows : v # w => win'[v] = win[v]
  BY <1>2, <1>3 DEF WinStep
<1>5. PICK d \in [Names -> Inodes \cup {0}] :
         SetDisk(d, bak, inode) /\ (d[f] = 0 \/ d[f] = dir[f])
         /\ \A g \in Names : g # f => d[g] = dir[g]
  <2> DEFINE e == [dir EXCEPT ![f] = 0]
  <2>1. e \in [Names -> Inodes \cup {0}] /\ e[f] = 0 /\ \A g \in Names : g # f => e[g] = dir[g]
    BY <1>1
  <2>2. SetDisk(e, bak, inode) \/ SetDisk(dir, bak, inode)
    <3>1. SetDisk(IF win[w].delete_file THEN e ELSE dir, bak, inode)
      BY <1>2 DEF CloseDelete, Win
    <3> HIDE DEF e
    <3> QED
      BY <3>1
  <2> HIDE DEF e
  <2> QED
    BY <1>1, <2>1, <2>2
<1>6. /\ dir' = d /\ \A g \in Names : d[g] # 0 => inode'[d[g]] = inode[d[g]]
      /\ \A q \in Procs : q # p /\ Aside(q) => inode'[op[q].ino] = inode[op[q].ino]
  BY <1>1, <1>3, <1>5, SetDiskKeeps
<1>7. Alone(p, {w}, f)
  <2>1. \A g \in Names : g # f => Steady(g)
    BY <1>5, <1>6 DEF Steady, There
  <2>2. dir'[f] = 0 \/ Steady(f)
    BY <1>5, <1>6 DEF Steady, There
  <2> QED
    BY <1>1, <1>3, <1>4, <1>6, <2>1, <2>2 DEF Alone
<1>8. ~Reading(w)'
  BY <1>2, <1>3 DEF Reading
<1>9. WinGood(p, w)
  BY <1>4, <1>8, ClosedGood
<1>10. ProcGood(p)
  BY <1>1, <1>3, OverGood DEF Writing, Clean, CInv, Known
<1> QED
  BY <1>2, <1>7, <1>9, <1>10, StepAlone

\* A process that is killed takes its windows with it.
LEMMA CrashKnown ==
  ASSUME Constants, IInv, IInv', CInv, NEW p \in Procs, Crash(p)
  PROVE  CInv'
<1> DEFINE S == {v \in Windows : Owner[v] = p}
<1>1. /\ UNCHANGED <<shaken, bare, silent>> /\ OpStep(p, Idle)
      /\ op \in [Procs -> Ops] /\ InStep /\ SetDisk(dir, bak, inode)
      /\ Typed
  BY DEF Crash, OpStep, IInv, InStep
<1>2. (\A q \in Procs : q # p => op'[q] = op[q]) /\ op'[p].pc = "idle"
  BY <1>1, IdleIs DEF OpStep
<1>3. /\ \A v \in S : win'[v] = Closed
      /\ \A v \in Windows : v \notin S => win'[v] = win[v]
  BY DEF Crash
<1>4. AllSteady(p)
  BY <1>1, <1>2, LetGoSteady
<1>5. \A g \in Names, q \in Procs : q # p => (lock'[g] = q <=> lock[g] = q)
  BY <1>1 DEF Crash, Constants, Typed
<1>6. Alone(p, S, NoName)
  <2>1. op[p].pc = "read" => op[p].w \in S
    BY <1>1, Busy
  <2> QED
    BY <1>1, <1>2, <1>3, <1>4, <1>5, <2>1 DEF Alone, AllSteady, Constants
<1>7. ASSUME NEW v \in S
      PROVE  WinGood(p, v)
  <2>1. ~Reading(v)'
    BY <1>2 DEF Reading
  <2> QED
    BY <1>3, <2>1, ClosedGood
<1>8. ProcGood(p)
  BY <1>1, <1>2, OverGood DEF Writing, Clean, CInv, Known
<1> QED
  BY <1>6, <1>7, <1>8, StepAlone

-----------------------------------------------------------------------------
(* edit_save_file: its changes of the disk.                                *)

\* Who overwrites a file under its lock, without a question, has what the file has.
LEMMA OverwriteKnown ==
  ASSUME CInv, NEW p \in Procs, NEW f \in Names, f = op[p].f,
         op[p].pc \in {"create", "write", "backup", "rename"},
         Overwrite(p, f, dir[f]), shaken' = shaken
  PROVE  /\ Clean' => lock[f] = p /\ Clean /\ Known /\ ~silent'
         /\ bare \subseteq bare'
<1>1. bare' = IF lock[f] = p THEN bare ELSE bare \cup {f}
  BY DEF Overwrite
<1>2. Clean' => lock[f] = p /\ Clean /\ Known
  BY <1>1 DEF Clean, CInv
<1>3. Clean' => ~silent'
  BY <1>2 DEF Known, Warned, Sure, Overwrite, There, Data
<1> QED
  BY <1>1, <1>2, <1>3

\* A process at a save that changes the disk.
LEMMA AtWrite ==
  ASSUME Constants, IInv, CInv, NEW p \in Procs, op[p].pc \in Saving
  PROVE  \E w \in Windows, f \in Names :
           /\ w = op[p].w /\ f = op[p].f /\ Owner[w] = p /\ win[w] \in WEdits
           /\ win[w].stat # 0 /\ Typed /\ InStep /\ op[p] \in Ops
           /\ \A q \in Procs : q # p /\ Aside(q) => win[w].stat # AsideTime(q)
<1>1. op[p].pc # "idle"
  BY DEF Saving
<1>2. /\ op[p].w \in Windows /\ op[p].f \in Names /\ Owner[op[p].w] = p
      /\ win[op[p].w] \in WEdits /\ win[op[p].w].file # NoName /\ Typed /\ InStep
      /\ op[p] \in Ops
  BY <1>1, Busy, AtSave DEF IInv
<1>3. win[op[p].w].stat # 0
  BY <1>2 DEF CInv, Stated
<1> QED
  BY <1>2, <1>3, StampApart

\* A quick save truncates the file, or makes it, with a stamp that nobody knows.
LEMMA CreateInPlaceKnown ==
  ASSUME Constants, FineClock, IInv, IInv', CInv, NEW p \in Procs, op[p].pc = "create",
         op[p].mode = "quick", NEW i, i = IF dir[op[p].f] # 0 THEN dir[op[p].f] ELSE FreeInode,
         op' = [op EXCEPT ![p].pc = "write", ![p].ino = i],
         inode' = [inode EXCEPT ![i] = [data |-> {}, time |-> FreshStamp, torn |-> TRUE]],
         dir' = [dir EXCEPT ![op[p].f] = i], Overwrite(p, op[p].f, dir[op[p].f]),
         UNCHANGED <<win, lock, shaken>>
  PROVE  CInv'
<1>1. op[p].pc \in Saving
  BY DEF Saving
<1>2. PICK w \in Windows, f \in Names :
         /\ w = op[p].w /\ f = op[p].f /\ Owner[w] = p /\ win[w] \in WEdits
         /\ win[w].stat # 0 /\ Typed /\ InStep /\ op[p] \in Ops
         /\ \A q \in Procs : q # p /\ Aside(q) => win[w].stat # AsideTime(q)
  BY <1>1, AtWrite
<1>3. /\ FreeInode \in Inodes /\ (\A g \in Names : dir[g] # FreeInode)
      /\ \A q \in Procs : op[q].ino # FreeInode
  <2>1. op[p].ino = 0
    BY <1>2 DEF InStep, OpFits, Writing
  <2> QED
    BY <1>2, <2>1, FreeInodeIs
<1>4. /\ FreshStamp \in Stamps /\ (\A j \in Inodes : inode[j].time # FreshStamp)
      /\ \A v \in Windows : win[v].stat # FreshStamp
  BY <1>2, FreshStampIs
<1>5. /\ dir \in [Names -> Inodes \cup {0}] /\ inode \in Disks /\ op \in [Procs -> Ops]
      /\ i \in Inodes /\ i # 0
  BY <1>2, <1>3, Sizes DEF Typed, InStep
<1>6. /\ \A q \in Procs : q # p => op'[q] = op[q]
      /\ op'[p].pc = "write" /\ op'[p].ino = i /\ op'[p].f = f /\ op'[p].w = w
      /\ op'[p].mode = "quick"
  BY <1>2, <1>5 DEF Ops
<1>7. /\ dir'[f] = i /\ There(f)' /\ Time(f)' = FreshStamp /\ Data(f)' = {}
      /\ \A j \in Inodes : j # i => inode'[j] = inode[j]
      /\ \A g \in Names : g # f => dir'[g] = dir[g]
  <2>1. dir'[f] = i /\ \A g \in Names : g # f => dir'[g] = dir[g]
    BY <1>2, <1>5
  <2>2. inode'[i] = [data |-> {}, time |-> FreshStamp, torn |-> TRUE]
    BY <1>5 DEF Disks
  <2>3. \A j \in Inodes : j # i => inode'[j] = inode[j]
    BY <1>5 DEF Disks
  <2> QED
    BY <1>5, <2>1, <2>2, <2>3 DEF There, Time, Data
<1>8. \A g \in Names : g # f => dir'[g] # i /\ Steady(g)
  <2> SUFFICES ASSUME NEW g \in Names, g # f
               PROVE  dir[g] # i
    BY <1>5, <1>7 DEF Steady, There
  <2> QED
    BY <1>2, <1>3 DEF CInv, Placed, There
<1>9. \A q \in Procs : q # p /\ Aside(q) => inode'[op[q].ino] = inode[op[q].ino]
  BY <1>2, <1>3, <1>7, AtAside
<1>10. (Clean' => lock[f] = p /\ Clean /\ Known /\ ~silent') /\ bare \subseteq bare'
  BY <1>2, OverwriteKnown
<1>11. Newly(p, {w}, f)
  <2>1. \A g \in Names : There(g) => Time(g) # FreshStamp
    BY <1>4, <1>5 DEF There, Time
  <2>2. \A q \in Procs : Aside(q) => AsideTime(q) # FreshStamp
    BY <1>4, AtAside DEF AsideTime
  <2>3. dir'[f] = dir[f] \/ i = FreeInode
    BY <1>2, <1>7
  <2> QED
    BY <1>3, <1>4, <1>7, <2>1, <2>2, <2>3 DEF Newly
<1>12. Alone(p, {w}, f)
  BY <1>6, <1>8, <1>9, <1>10, <1>11 DEF Alone
<1>13. ~Reading(w)' /\ ~Reading(w)
  BY <1>2, <1>6 DEF Reading
<1>14. WinGood(p, w)
  <2>1. ASSUME Clean', NEW g \in Names, There(g)', Time(g)' = win[w].stat
        PROVE  Data(g)' \subseteq win[w].buf
    <3>1. g # f
      BY <1>4, <1>7, <2>1
    <3>2. There(g) /\ Time(g)' = Time(g) /\ Data(g)' = Data(g)
      BY <1>8, <2>1, <3>1 DEF Steady, There, Time, Data
    <3> QED
      BY <1>10, <1>13, <2>1, <3>2 DEF Known, Seen
  <2> QED
    BY <1>2, <1>13, <2>1 DEF WinGood
<1>15. ProcGood(p)
  <2>1. \A g \in Names : dir'[g] = i => g = f
    BY <1>8
  <2>2. ~Aside(p)'
    BY <1>6 DEF Aside
  <2>3. Data(op[p].f)' = {}
    BY <1>2, <1>6, <1>7 DEF Data
  <2> QED
    BY <1>6, <1>10, <1>2, <2>1, <2>2, <2>3 DEF ProcGood
<1> QED
  BY <1>2, <1>12, <1>14, <1>15, StepAlone

\* The other saves put a new file aside, with a stamp that nobody knows.
LEMMA CreateAsideKnown ==
  ASSUME Constants, FineClock, IInv, IInv', CInv, NEW p \in Procs, op[p].pc = "create",
         op[p].mode # "quick", NEW i, i = FreeInode,
         op' = [op EXCEPT ![p].pc = "write", ![p].ino = i],
         inode' = [inode EXCEPT ![i] = [data |-> {}, time |-> FreshStamp, torn |-> TRUE]],
         UNCHANGED <<dir, win, lock, shaken, bare, silent>>
  PROVE  CInv'
<1>1. op[p].pc \in Saving
  BY DEF Saving
<1>2. PICK w \in Windows, f \in Names :
         /\ w = op[p].w /\ f = op[p].f /\ Owner[w] = p /\ win[w] \in WEdits
         /\ win[w].stat # 0 /\ Typed /\ InStep /\ op[p] \in Ops
         /\ \A q \in Procs : q # p /\ Aside(q) => win[w].stat # AsideTime(q)
  BY <1>1, AtWrite
<1>3. /\ i \in Inodes /\ (\A g \in Names : dir[g] # i)
      /\ \A q \in Procs : op[q].ino # i
  <2>1. op[p].ino = 0
    BY <1>2 DEF InStep, OpFits, Writing
  <2> QED
    BY <1>2, <2>1, FreeInodeIs
<1>4. /\ FreshStamp \in Stamps /\ (\A j \in Inodes : inode[j].time # FreshStamp)
      /\ \A v \in Windows : win[v].stat # FreshStamp
  BY <1>2, FreshStampIs
<1>5. /\ dir \in [Names -> Inodes \cup {0}] /\ inode \in Disks /\ op \in [Procs -> Ops]
  BY <1>2 DEF Typed, InStep
<1>6. /\ \A q \in Procs : q # p => op'[q] = op[q]
      /\ op'[p].pc = "write" /\ op'[p].ino = i /\ op'[p].f = f /\ op'[p].w = w
      /\ op'[p].mode = op[p].mode
  BY <1>2, <1>5 DEF Ops
<1>7. inode'[i].time = FreshStamp /\ \A j \in Inodes : j # i => inode'[j] = inode[j]
  BY <1>3, <1>5 DEF Disks
<1>8. AllSteady(p)
  <2>1. \A g \in Names : There(g) => dir[g] \in Inodes /\ dir[g] # i
    BY <1>3, <1>5 DEF There
  <2>2. \A q \in Procs : Aside(q) => op[q].ino \in Inodes /\ op[q].ino # i
    BY <1>3, AtAside
  <2> QED
    BY <1>7, <2>1, <2>2 DEF AllSteady, Steady
<1>9. \A g \in Names : There(g)' => There(g) /\ Time(g)' = Time(g) /\ Data(g)' = Data(g)
  BY <1>8 DEF AllSteady, Steady, There, Time, Data
<1>10. Clean' => Clean /\ Known
  BY DEF Clean, CInv
<1>11. Alone(p, {w}, NoName)
  BY <1>6, <1>8 DEF Alone, AllSteady, Constants
<1>12. ~Reading(w)' /\ ~Reading(w)
  BY <1>2, <1>6 DEF Reading
<1>13. WinGood(p, w)
  <2>1. Clean' => \A g \in Names : There(g)' /\ Time(g)' = win[w].stat
          => Data(g)' \subseteq win[w].buf
    BY <1>9, <1>10, <1>12 DEF Known, Seen
  <2> QED
    BY <1>2, <1>12, <2>1 DEF WinGood
<1>14. ProcGood(p)
  <2>1. AsideTime(p)' = FreshStamp
    BY <1>6, <1>7 DEF AsideTime
  <2>2. \A g \in Names : There(g)' => Time(g)' # FreshStamp
    BY <1>4, <1>5, <1>9 DEF There, Time
  <2>3. \A q \in Procs : Aside(q) => AsideTime(q) # FreshStamp
    BY <1>4, AtAside DEF AsideTime
  <2>4. ~InPlace(p)' /\ (Sure(p)' => Sure(p))
    BY <1>2, <1>6 DEF InPlace, Sure, Win
  <2>5. Clean' /\ Sure(p)' /\ lock'[op'[p].f] = p /\ There(op[p].f)'
          => Data(op[p].f)' \subseteq Win(p)'.buf
    <3>1. There(op[p].f)' = There(f)' /\ Data(op[p].f)' = Data(f)'
      BY <1>2, <1>6 DEF There, Data
    <3>2. Clean' /\ Sure(p)' /\ lock[f] = p /\ There(f)' => Data(f)' \subseteq win[w].buf
      BY <1>2, <1>9, <1>10, <2>4 DEF Known, Warned, Win
    <3>3. lock'[op'[p].f] = lock[f] /\ Win(p)' = win[w]
      BY <1>2, <1>6 DEF Win
    <3> QED
      BY <3>1, <3>2, <3>3
  <2> QED
    BY <1>4, <1>10, <2>1, <2>2, <2>3, <2>4, <2>5 DEF ProcGood, Known
<1> QED
  BY <1>2, <1>11, <1>13, <1>14, StepAlone

\* Action SaveCreate preserves the invariant.
LEMMA CreateKnown ==
  ASSUME Constants, FineClock, IInv, IInv', CInv, NEW p \in Procs, SaveCreate(p)
  PROVE  CInv'
<1> DEFINE i == IF op[p].mode = "quick" /\ dir[op[p].f] # 0 THEN dir[op[p].f] ELSE FreeInode
<1>1. op[p].pc = "create" /\ op[p].pc \in Saving /\ UNCHANGED <<bak, lock, shaken>>
  BY DEF SaveCreate, At, Saving
<1>2. CASE Failed(p) /\ UNCHANGED <<dir, inode, bare, silent>>
  <2>1. AllSteady(p)
    BY <1>2 DEF AllSteady, Steady
  <2> QED
    BY <1>1, <1>2, <2>1, FailKnown DEF Failed
<1>3. CASE /\ op' = [op EXCEPT ![p].pc = "write", ![p].ino = i]
           /\ \E t \in NextStamps(op[p].f) :
                inode' = [inode EXCEPT ![i] = [data |-> {}, time |-> t, torn |-> TRUE]]
           /\ dir' = IF op[p].mode = "quick" THEN [dir EXCEPT ![op[p].f] = i] ELSE dir
           /\ IF op[p].mode = "quick" THEN Overwrite(p, op[p].f, dir[op[p].f])
              ELSE UNCHANGED <<bare, silent>>
           /\ UNCHANGED win
  <2>1. inode' = [inode EXCEPT ![i] = [data |-> {}, time |-> FreshStamp, torn |-> TRUE]]
    BY <1>3 DEF NextStamps
  <2>2. CASE op[p].mode = "quick"
    BY <1>1, <1>3, <2>1, <2>2, CreateInPlaceKnown
  <2>3. CASE op[p].mode # "quick"
    BY <1>1, <1>3, <2>1, <2>3, CreateAsideKnown
  <2> QED
    BY <2>2, <2>3
<1> QED
  BY <1>1, <1>2, <1>3 DEF SaveCreate

\* A quick save writes the text into the file it truncated, if that is still there.
LEMMA WriteInPlaceKnown ==
  ASSUME Constants, FineClock, IInv, IInv', CInv, NEW p \in Procs, op[p].pc = "write",
         op[p].mode = "quick", NEW i, i = op[p].ino, OpStep(p, [op[p] EXCEPT !.pc = "restat"]),
         SetDisk(dir, bak, [inode EXCEPT ![i] = [data |-> Win(p).buf, time |-> FreshStamp,
                                                 torn |-> FALSE]]),
         UNCHANGED <<win, lock, shaken, bare, silent>>
  PROVE  CInv'
<1>1. op[p].pc \in Saving
  BY DEF Saving
<1>2. PICK w \in Windows, f \in Names :
         /\ w = op[p].w /\ f = op[p].f /\ Owner[w] = p /\ win[w] \in WEdits
         /\ win[w].stat # 0 /\ Typed /\ InStep /\ op[p] \in Ops
         /\ \A q \in Procs : q # p /\ Aside(q) => win[w].stat # AsideTime(q)
  BY <1>1, AtWrite
<1>3. i \in Inodes
  <2>1. i # 0 /\ i \in Inodes \cup {0}
    BY <1>2 DEF InStep, OpFits, Writing, Ops
  <2> QED
    BY <2>1
<1>4. /\ FreshStamp \in Stamps /\ (\A j \in Inodes : inode[j].time # FreshStamp)
      /\ \A v \in Windows : win[v].stat # FreshStamp
  BY <1>2, FreshStampIs
<1>5. /\ dir \in [Names -> Inodes \cup {0}] /\ inode \in Disks /\ op \in [Procs -> Ops]
  BY <1>2 DEF Typed, InStep
<1>6. /\ \A q \in Procs : q # p => op'[q] = op[q]
      /\ op'[p].pc = "restat" /\ op'[p].ino = i /\ op'[p].f = f /\ op'[p].w = w
      /\ op'[p].mode = "quick"
  BY <1>2, <1>5 DEF Ops, OpStep
<1> DEFINE n == [inode EXCEPT ![i] = [data |-> Win(p).buf, time |-> FreshStamp, torn |-> FALSE]]
<1>7. /\ n[i].time = FreshStamp /\ n[i].data = win[w].buf
      /\ (\A j \in Inodes : j # i => n[j] = inode[j]) /\ n \in Disks
  BY <1>2, <1>3, <1>4, <1>5 DEF Disks, Win, WEdits
<1> HIDE DEF n
<1>8. /\ dir' = dir /\ \A g \in Names : dir[g] # 0 => inode'[dir[g]] = n[dir[g]]
      /\ \A q \in Procs : q # p /\ Aside(q) => inode'[op[q].ino] = n[op[q].ino]
  <2>1. SetDisk(dir, bak, n)
    BY DEF n
  <2> QED
    BY <1>5, <1>6, <1>7, <2>1, SetDiskKeeps
<1>9. InPlace(p) /\ Sure(p) /\ InPlace(p)'
  BY <1>6 DEF InPlace, Sure
<1>10. \A g \in Names : dir[g] # i => Steady(g)
  BY <1>5, <1>7, <1>8 DEF Steady, There
<1>11. \A g \in Names : dir[g] = i => g = f
  BY <1>2, <1>3, <1>9, Sizes DEF CInv, InOwn, There
<1>12. \A q \in Procs : q # p /\ Aside(q) => inode'[op[q].ino] = inode[op[q].ino]
  BY <1>7, <1>8, AtAside
<1>13. Clean' => Clean /\ Known /\ lock[f] = p
  BY <1>2, <1>9 DEF Clean, CInv, Known, Locked
<1>14. ASSUME dir[f] = i
       PROVE  Time(f)' = FreshStamp /\ Data(f)' = win[w].buf /\ Newly(p, {w}, f)
  <2>1. Time(f)' = FreshStamp /\ Data(f)' = win[w].buf /\ There(f)'
    BY <1>3, <1>7, <1>8, <1>14, Sizes DEF Time, Data, There
  <2>2. \A g \in Names : There(g) => Time(g) # FreshStamp
    BY <1>4, <1>5 DEF There, Time
  <2>3. \A q \in Procs : Aside(q) => AsideTime(q) # FreshStamp
    BY <1>4, AtAside DEF AsideTime
  <2> QED
    BY <1>4, <1>8, <1>13, <2>1, <2>2, <2>3 DEF Newly
<1>15. Alone(p, {w}, f)
  BY <1>6, <1>10, <1>11, <1>12, <1>14 DEF Alone
<1>16. \A g \in Names : There(g)' =>
         \/ There(g) /\ Time(g)' = Time(g) /\ Data(g)' = Data(g)
         \/ g = f /\ Time(g)' = FreshStamp /\ Data(g)' = win[w].buf
  BY <1>10, <1>11, <1>14 DEF Steady, There, Time, Data
<1>17. ~Reading(w)' /\ ~Reading(w)
  BY <1>2, <1>6 DEF Reading
<1>18. WinGood(p, w)
  <2>1. Clean' => \A g \in Names : There(g)' /\ Time(g)' = win[w].stat
          => Data(g)' \subseteq win[w].buf
    BY <1>4, <1>13, <1>16, <1>17 DEF Known, Seen
  <2> QED
    BY <1>2, <1>17, <2>1 DEF WinGood
<1>19. ProcGood(p)
  <2>1. Clean' /\ There(f)' => Data(f)' \subseteq win[w].buf
    BY <1>2, <1>9, <1>13, <1>16 DEF Known, Warned, Win
  <2>2. There(op[p].f)' = There(f)' /\ Data(op[p].f)' = Data(f)' /\ Win(p)' = win[w]
    BY <1>2, <1>6 DEF There, Data, Win
  <2>3. ~Aside(p)'
    BY <1>6 DEF Aside
  <2>4. \A g \in Names : dir'[g] = op'[p].ino => g = op'[p].f
    BY <1>6, <1>8, <1>11
  <2> QED
    BY <1>6, <1>13, <2>1, <2>2, <2>3, <2>4 DEF ProcGood, Known
<1> QED
  BY <1>2, <1>15, <1>18, <1>19, StepAlone

\* The other saves write the text into the file put aside, and look at its stamp.
LEMMA WriteAsideKnown ==
  ASSUME Constants, FineClock, IInv, IInv', CInv, NEW p \in Procs, op[p].pc = "write",
         op[p].mode # "quick", NEW i, i = op[p].ino, NEW pc \in {"rename", "backup"},
         OpStep(p, [op[p] EXCEPT !.pc = pc]),
         WinStep(op[p].w, [win[op[p].w] EXCEPT !.stat = FreshStamp]),
         SetDisk(dir, bak, [inode EXCEPT ![i] = [data |-> Win(p).buf, time |-> FreshStamp,
                                                 torn |-> FALSE]]),
         UNCHANGED <<lock, shaken, bare, silent>>
  PROVE  CInv'
<1>1. op[p].pc \in Saving
  BY DEF Saving
<1>2. PICK w \in Windows, f \in Names :
         /\ w = op[p].w /\ f = op[p].f /\ Owner[w] = p /\ win[w] \in WEdits
         /\ win[w].stat # 0 /\ Typed /\ InStep /\ op[p] \in Ops
         /\ \A q \in Procs : q # p /\ Aside(q) => win[w].stat # AsideTime(q)
  BY <1>1, AtWrite
<1>3. Aside(p) /\ i \in Inodes /\ \A g \in Names : dir[g] # i
  <2>1. Aside(p)
    BY DEF Aside
  <2> QED
    BY <2>1, AtAside
<1>4. /\ FreshStamp \in Stamps /\ (\A j \in Inodes : inode[j].time # FreshStamp)
      /\ \A v \in Windows : win[v].stat # FreshStamp
  BY <1>2, FreshStampIs
<1>5. /\ dir \in [Names -> Inodes \cup {0}] /\ inode \in Disks /\ op \in [Procs -> Ops]
      /\ win \in [Windows -> WEdits]
  BY <1>2 DEF Typed, InStep
<1>6. /\ \A q \in Procs : q # p => op'[q] = op[q]
      /\ op'[p].pc = pc /\ op'[p].ino = i /\ op'[p].f = f /\ op'[p].w = w
      /\ op'[p].mode = op[p].mode
  BY <1>2, <1>5 DEF Ops, OpStep
<1>7. /\ \A v \in Windows : v # w => win'[v] = win[v]
      /\ win'[w].stat = FreshStamp /\ win'[w].buf = win[w].buf /\ win'[w].told = win[w].told
  BY <1>2, <1>5 DEF WEdits, WinStep
<1> DEFINE n == [inode EXCEPT ![i] = [data |-> Win(p).buf, time |-> FreshStamp, torn |-> FALSE]]
<1>8. /\ n[i].time = FreshStamp
      /\ (\A j \in Inodes : j # i => n[j] = inode[j]) /\ n \in Disks
  BY <1>2, <1>3, <1>4, <1>5 DEF Disks, Win, WEdits
<1> HIDE DEF n
<1>9. /\ dir' = dir /\ \A g \in Names : dir[g] # 0 => inode'[dir[g]] = n[dir[g]]
      /\ \A q \in Procs : q # p /\ Aside(q) => inode'[op[q].ino] = n[op[q].ino]
      /\ inode'[i] = n[i]
  <2>1. SetDisk(dir, bak, n)
    BY DEF n
  <2> QED
    BY <1>3, <1>5, <1>6, <1>8, <2>1, SetDiskKeeps
<1>10. AllSteady(p)
  <2>1. \A g \in Names : Steady(g)
    BY <1>3, <1>5, <1>8, <1>9 DEF Steady, There
  <2>2. \A q \in Procs : q # p /\ Aside(q) => inode'[op[q].ino] = inode[op[q].ino]
    BY <1>8, <1>9, AtAside
  <2> QED
    BY <2>1, <2>2 DEF AllSteady
<1>11. \A g \in Names : There(g)' => There(g) /\ Time(g)' = Time(g) /\ Data(g)' = Data(g)
  BY <1>10 DEF AllSteady, Steady, There, Time, Data
<1>12. Clean' => Clean /\ Known
  BY DEF Clean, CInv
<1>13. Alone(p, {w}, NoName)
  BY <1>6, <1>7, <1>10 DEF Alone, AllSteady, Constants
<1>14. ~Reading(w)'
  BY <1>2, <1>6 DEF Reading
<1>15. /\ \A g \in Names : There(g)' => Time(g)' # FreshStamp
       /\ \A q \in Procs : Aside(q) => AsideTime(q) # FreshStamp
  <2>1. \A g \in Names : There(g)' => Time(g)' # FreshStamp
    BY <1>4, <1>5, <1>11 DEF There, Time
  <2>2. \A q \in Procs : Aside(q) => AsideTime(q) # FreshStamp
    BY <1>4, AtAside DEF AsideTime
  <2> QED
    BY <2>1, <2>2
<1>16. WinGood(p, w)
  <2>1. FreshStamp # 0
    BY <1>4, Sizes
  <2> QED
    BY <1>7, <1>14, <1>15, <2>1 DEF WinGood
<1>17. ProcGood(p)
  <2>1. AsideTime(p)' = FreshStamp
    BY <1>6, <1>8, <1>9 DEF AsideTime
  <2>2. ~InPlace(p)' /\ (Sure(p)' => Sure(p))
    BY <1>2, <1>6, <1>7 DEF InPlace, Sure, Win
  <2>3. Clean' /\ Sure(p)' /\ lock[f] = p /\ There(f)' => Data(f)' \subseteq win'[w].buf
    BY <1>2, <1>7, <1>11, <1>12, <2>2 DEF Known, Warned, Win
  <2>4. /\ There(op[p].f)' = There(f)' /\ Data(op[p].f)' = Data(f)' /\ Win(p)' = win'[w]
        /\ lock'[op'[p].f] = lock[f]
    BY <1>2, <1>6 DEF There, Data, Win
  <2>5. \A v \in Windows : v # w => win'[v].stat # FreshStamp
    BY <1>4, <1>7
  <2>6. Clean' => ~silent'
    BY <1>12 DEF Known
  <2> QED
    BY <1>6, <1>15, <2>1, <2>2, <2>3, <2>4, <2>5, <2>6 DEF ProcGood
<1> QED
  BY <1>2, <1>13, <1>16, <1>17, StepAlone

\* Action SaveWrite preserves the invariant.
LEMMA WriteKnown ==
  ASSUME Constants, FineClock, IInv, IInv', CInv, NEW p \in Procs, SaveWrite(p)
  PROVE  CInv'
<1> DEFINE i == op[p].ino
           pc == CASE op[p].mode = "quick"  -> "restat"
                   [] op[p].mode = "safe"   -> "rename"
                   [] op[p].mode = "backup" -> "backup"
<1>1. /\ op[p].pc = "write" /\ op[p].pc \in Saving /\ UNCHANGED <<lock, shaken, bare, silent>>
      /\ op[p].pc # "idle"
  BY DEF SaveWrite, At, Saving
<1>2. op[p].mode \in {"quick", "safe", "backup"} /\ win \in [Windows -> WEdits]
  BY <1>1, Busy DEF Ops, IInv, InStep
<1>3. CASE Failed(p) /\ SetDisk(dir, bak, inode)
  BY <1>1, <1>3, FailedKnown
<1>4. ASSUME NEW t \in {FreshStamp} \cup IF FineClock THEN {} ELSE {inode[i].time},
             Goto(p, pc),
             win' = IF op[p].mode = "quick" THEN win ELSE [win EXCEPT ![W(p)].stat = t],
             SetDisk(dir, bak, [inode EXCEPT ![i] = [data |-> Win(p).buf, time |-> t,
                                                     torn |-> FALSE]])
      PROVE  CInv'
  <2>1. t = FreshStamp
    OBVIOUS
  <2>2. CASE op[p].mode = "quick"
    <3>1. OpStep(p, [op[p] EXCEPT !.pc = "restat"]) /\ win' = win
      BY <1>4, <2>2 DEF Goto, OpStep
    <3> QED
      BY <1>1, <1>4, <2>1, <2>2, <3>1, WriteInPlaceKnown
  <2>3. CASE op[p].mode # "quick"
    <3>1. pc \in {"rename", "backup"}
      BY <1>2, <2>3
    <3>2. OpStep(p, [op[p] EXCEPT !.pc = pc])
      BY <1>4 DEF Goto, OpStep
    <3>3. WinStep(op[p].w, [win[op[p].w] EXCEPT !.stat = FreshStamp])
      BY <1>4, <2>1, <2>3 DEF WinStep, W
    <3> HIDE DEF pc
    <3> QED
      BY <1>1, <1>4, <2>1, <2>3, <3>1, <3>2, <3>3, WriteAsideKnown
  <2> QED
    BY <2>2, <2>3
<1> QED
  BY <1>3, <1>4 DEF SaveWrite

\* A save with a backup takes the name away, under its lock.
LEMMA BackupKnown ==
  ASSUME Constants, IInv, IInv', CInv, NEW p \in Procs, SaveBackup(p)
  PROVE  CInv'
<1>1. op[p].pc = "backup" /\ op[p].pc \in Saving /\ UNCHANGED <<lock, shaken>>
  BY DEF SaveBackup, At, Saving
<1>2. PICK w \in Windows, f \in Names :
         /\ w = op[p].w /\ f = op[p].f /\ Owner[w] = p /\ win[w] \in WEdits
         /\ win[w].stat # 0 /\ Typed /\ InStep /\ op[p] \in Ops
         /\ \A q \in Procs : q # p /\ Aside(q) => win[w].stat # AsideTime(q)
  BY <1>1, AtWrite
<1>3. CASE Failed(p) /\ SetDisk(dir, bak, inode) /\ UNCHANGED <<bare, silent>>
  BY <1>1, <1>3, FailedKnown
<1>4. CASE /\ dir[f] # 0 /\ Overwrite(p, f, dir[f]) /\ Goto(p, "rename") /\ win' = win
           /\ SetDisk([dir EXCEPT ![f] = 0], [bak EXCEPT ![f] = dir[f]], inode)
  <2>1. /\ dir \in [Names -> Inodes \cup {0}] /\ inode \in Disks /\ op \in [Procs -> Ops]
    BY <1>2 DEF Typed, InStep
  <2>2. Aside(p) /\ op[p].ino \in Inodes
    <3>1. Aside(p)
      BY <1>1 DEF Aside, IInv, AsideKept, QuickOnly
    <3> QED
      BY <3>1, AtAside
  <2>3. /\ \A q \in Procs : q # p => op'[q] = op[q]
        /\ op'[p].pc = "rename" /\ op'[p].ino = op[p].ino /\ op'[p].f = f /\ op'[p].w = w
        /\ op'[p].mode = op[p].mode
    BY <1>2, <1>4, <2>1 DEF Ops, Goto
  <2> DEFINE d == [dir EXCEPT ![f] = 0]
  <2>4. d \in [Names -> Inodes \cup {0}] /\ d[f] = 0 /\ \A g \in Names : g # f => d[g] = dir[g]
    BY <2>1
  <2>5. SetDisk(d, [bak EXCEPT ![f] = dir[f]], inode)
    BY <1>4
  <2> HIDE DEF d
  <2>6. /\ dir' = d /\ \A g \in Names : d[g] # 0 => inode'[d[g]] = inode[d[g]]
        /\ \A q \in Procs : q # p /\ Aside(q) => inode'[op[q].ino] = inode[op[q].ino]
        /\ inode'[op[p].ino] = inode[op[p].ino]
    BY <2>1, <2>2, <2>3, <2>4, <2>5, SetDiskKeeps
  <2>7. ~There(f)' /\ \A g \in Names : g # f => Steady(g)
    BY <2>4, <2>6 DEF There, Steady
  <2>8. (Clean' => lock[f] = p /\ Clean /\ Known /\ ~silent') /\ bare \subseteq bare'
    BY <1>1, <1>2, <1>4, OverwriteKnown
  <2>9. Alone(p, {w}, f)
    BY <1>1, <1>4, <2>3, <2>4, <2>6, <2>7, <2>8 DEF Alone
  <2>10. \A g \in Names : There(g)' => There(g) /\ Time(g)' = Time(g) /\ Data(g)' = Data(g)
    BY <2>7 DEF Steady, There, Time, Data
  <2>11. ~Reading(w)' /\ ~Reading(w)
    BY <1>1, <1>2, <2>3 DEF Reading
  <2>12. WinGood(p, w)
    <3>1. Clean' => \A g \in Names : There(g)' /\ Time(g)' = win[w].stat
            => Data(g)' \subseteq win[w].buf
      BY <2>8, <2>10, <2>11 DEF Known, Seen
    <3> QED
      BY <1>2, <1>4, <2>11, <3>1 DEF WinGood
  <2>13. ProcGood(p)
    <3>1. AsideTime(p)' = AsideTime(p)
      BY <2>3, <2>6 DEF AsideTime
    <3>2. ~InPlace(p)'
      BY <2>2, <2>3 DEF InPlace, Aside
    <3>3. ~There(op[p].f)'
      BY <1>2, <2>3, <2>7 DEF There
    <3>4. /\ \A g \in Names : There(g)' => Time(g)' # AsideTime(p)
          /\ \A q \in Procs : q # p /\ Aside(q) => AsideTime(q) # AsideTime(p)
          /\ \A v \in Windows : v # w => win'[v].stat # AsideTime(p)
      BY <1>2, <1>4, <2>2, <2>10 DEF CInv, AsideNew
    <3> QED
      BY <2>3, <2>8, <3>1, <3>2, <3>3, <3>4 DEF ProcGood
  <2> QED
    BY <1>2, <2>9, <2>12, <2>13, StepAlone
<1> QED
  BY <1>2, <1>3, <1>4 DEF SaveBackup

\* The new text gets its name, and its window keeps the stamp that nobody else knew.
LEMMA RenameKnown ==
  ASSUME Constants, IInv, IInv', CInv, NEW p \in Procs, SaveRename(p)
  PROVE  CInv'
<1>1. op[p].pc = "rename" /\ op[p].pc \in Saving /\ UNCHANGED <<lock, shaken>>
  BY DEF SaveRename, At, Saving
<1>2. PICK w \in Windows, f \in Names :
         /\ w = op[p].w /\ f = op[p].f /\ Owner[w] = p /\ win[w] \in WEdits
         /\ win[w].stat # 0 /\ Typed /\ InStep /\ op[p] \in Ops
         /\ \A q \in Procs : q # p /\ Aside(q) => win[w].stat # AsideTime(q)
  BY <1>1, AtWrite
<1>3. CASE Failed(p) /\ SetDisk(dir, bak, inode) /\ UNCHANGED <<bare, silent>>
  BY <1>1, <1>3, FailedKnown
<1>4. CASE /\ Overwrite(p, f, dir[f]) /\ SaveDone(p, 1, Win(p).stat)
           /\ SetDisk([dir EXCEPT ![f] = op[p].ino], bak, inode)
  <2>1. /\ dir \in [Names -> Inodes \cup {0}] /\ inode \in Disks /\ win \in [Windows -> WEdits]
    BY <1>2 DEF Typed, InStep
  <2>2. PICK i \in Inodes :
           /\ i = op[p].ino /\ i # 0 /\ Aside(p) /\ inode[i].data = win[w].buf
           /\ (\A g \in Names : dir[g] # i) /\ \A q \in Procs : q # p => op[q].ino # i
    <3>1. Aside(p)
      BY <1>1 DEF Aside, IInv, AsideKept, QuickOnly
    <3>2. inode[op[p].ino].data = win[w].buf
      BY <1>1, <1>2, <3>1 DEF IInv, AsideKept, Kept, Win
    <3> QED
      BY <3>1, <3>2, AtAside
  <2>3. Over(p) /\ Rest(p, w)
    <3>1. 1 \in {-1, 0, 1} /\ Win(p).stat \in Stamps \cup {0}
      BY <1>2 DEF Win, WEdits
    <3> QED
      BY <1>1, <1>2, <1>4, <3>1, SaveEnds
  <2> DEFINE M == [win[w] EXCEPT !.file = f, !.modified = FALSE, !.locked = FALSE,
                             !.delete_file = FALSE, !.told = FALSE, !.stat = win[w].stat]
  <2>4. win'[w] = M
    <3>1. win' = [win EXCEPT ![w] = M]
      BY <1>2, <1>4 DEF SaveDone, Win
    <3> HIDE DEF M
    <3> QED
      BY <1>2, <2>1, <3>1
  <2>5. M.stat = win[w].stat /\ M.buf = win[w].buf
    BY <1>2 DEF WEdits
  <2> HIDE DEF M
  <2> DEFINE d == [dir EXCEPT ![f] = i]
  <2>6. d \in [Names -> Inodes \cup {0}] /\ d[f] = i /\ \A g \in Names : g # f => d[g] = dir[g]
    BY <2>1
  <2>7. SetDisk(d, bak, inode)
    BY <1>4, <2>2
  <2> HIDE DEF d
  <2>8. /\ dir' = d /\ \A g \in Names : d[g] # 0 => inode'[d[g]] = inode[d[g]]
        /\ \A q \in Procs : q # p /\ Aside(q) => inode'[op[q].ino] = inode[op[q].ino]
    <3>1. \A q \in Procs : q # p => op'[q] = op[q]
      BY <2>3 DEF Rest
    <3> QED
      BY <2>1, <2>6, <2>7, <3>1, SetDiskKeeps
  <2>9. /\ \A g \in Names : g # f => Steady(g)
        /\ There(f)' /\ Time(f)' = AsideTime(p) /\ Data(f)' = win[w].buf
    BY <2>2, <2>6, <2>8 DEF There, Steady, Time, Data, AsideTime
  <2>10. (Clean' => lock[f] = p /\ Clean /\ Known /\ ~silent') /\ bare \subseteq bare'
    BY <1>1, <1>2, <1>4, OverwriteKnown
  <2>11. Newly(p, {w}, f)
    <3>1. /\ \A g \in Names : There(g) => Time(g) # AsideTime(p)
          /\ \A q \in Procs : q # p /\ Aside(q) => AsideTime(q) # AsideTime(p)
          /\ \A v \in Windows : v # w => win[v].stat # AsideTime(p)
      BY <1>2, <2>2 DEF CInv, AsideNew
    <3> QED
      BY <2>2, <2>6, <2>8, <2>9, <2>10, <3>1 DEF Newly
  <2>12. op'[p].pc \notin {"read", "create"} \cup Writing /\ ~Reading(w)' /\ ~Reading(w)
    BY <1>1, <1>2, <2>3 DEF Over, Writing, Reading
  <2>13. Alone(p, {w}, f)
    BY <1>1, <2>3, <2>8, <2>9, <2>10, <2>11, <2>12 DEF Alone, Rest
  <2>14. WinGood(p, w)
    <3>1. ASSUME Clean', NEW g \in Names, There(g)', Time(g)' = win[w].stat
          PROVE  Data(g)' \subseteq win[w].buf
      <4>1. CASE g = f
        BY <2>9, <4>1
      <4>2. CASE g # f
        <5>1. There(g) /\ Time(g)' = Time(g) /\ Data(g)' = Data(g)
          BY <2>9, <3>1, <4>2 DEF Steady, There, Time, Data
        <5> QED
          BY <2>10, <2>12, <3>1, <5>1 DEF Known, Seen
      <4> QED
        BY <4>1, <4>2
    <3> QED
      BY <1>2, <2>4, <2>5, <2>12, <3>1 DEF WinGood
  <2>15. ProcGood(p)
    BY <2>10, <2>12, OverGood
  <2> QED
    BY <1>2, <2>13, <2>14, <2>15, StepAlone
<1> QED
  BY <1>2, <1>3, <1>4 DEF SaveRename

-----------------------------------------------------------------------------
(* The theorem.                                                            *)

\* At the start every file is empty, and has the stamp that its windows remember.
LEMMA InitKnown ==
  ASSUME Constants, Init
  PROVE  CInv
<1>1. \A p \in Procs : op[p].pc = "idle"
  BY IdleIs DEF Init
<1>2. dir \in [Names -> Inodes \cup {0}] /\ \A i \in Inodes : inode[i].data = {}
  <2>1. dir \in [Names -> Inodes \cup {0}]
    BY InitInv DEF IInv, Typed
  <2> QED
    BY <2>1 DEF Init, Blank
<1>3. \A f \in Names : There(f) => Data(f) = {}
  BY <1>2 DEF There, Data
<1>4. Placed
  <2> DEFINE number == CHOOSE n \in [Names -> 1..Cardinality(Names)] :
                          \A f, g \in Names : f # g => n[f] # n[g]
  <2>1. \A f, g \in Names : f # g => number[f] # number[g]
    BY Numbered
  <2>2. dir = [f \in Names |-> IF f \in FirstNames THEN number[f] ELSE 0]
    BY DEF Init
  <2> HIDE DEF number
  <2> QED
    BY <2>1, <2>2 DEF Placed, There
<1>5. Stated
  <2> SUFFICES ASSUME NEW w \in Windows, win[w].file # NoName
               PROVE  win[w].stat # 0
    BY DEF Stated
  <2>1. win[w] = [Closed EXCEPT !.file = FirstFile[w],
                                !.stat = IF FirstFile[w] = NoName THEN 0 ELSE 1]
    BY DEF Init
  <2>2. win[w].file = FirstFile[w] /\ win[w].stat = IF FirstFile[w] = NoName THEN 0 ELSE 1
    BY <2>1 DEF Closed
  <2> QED
    BY <2>2
<1>6. \A p \in Procs : ~InPlace(p) /\ ~Aside(p) /\ ~Sure(p)
  BY <1>1 DEF InPlace, Aside, Sure
<1>7. Unique /\ Opened /\ Seen
  BY <1>3 DEF Unique, Opened, Seen
<1>8. InOwn /\ AsideNew /\ Warned /\ Locked /\ ~silent
  BY <1>6 DEF InOwn, AsideNew, Warned, Locked, Init
<1> QED
  BY <1>4, <1>5, <1>7, <1>8 DEF CInv, Known

\* Every step preserves the invariant.
LEMMA NextKnown ==
  ASSUME Constants, FineClock, IInv, CInv, [Next]_vars
  PROVE  CInv'
<1>1. IInv'
  BY NextInv
<1>2. ASSUME NEW w \in Windows, Command(w)
      PROVE  CInv'
  <2>1. Given(w)
    BY <1>2 DEF Command, Given, Change, Save, SaveAsCmd, CloseCmd, Open
  <2> QED
    BY <1>1, <1>2, <2>1, CommandKnown, OpenKnown DEF Command
<1>3. ASSUME NEW p \in Procs, Step(p)
      PROVE  CInv'
  <2>1. CASE LockStep(p) \/ UnlockStep(p)
    BY <1>1, <2>1, LockKnown, UnlockKnown
  <2>2. CASE SaveStep(p)
    BY <1>1, <2>2, CheckKnown, ConfirmKnown, CreateKnown, WriteKnown, RestatKnown,
       BackupKnown, RenameKnown, SaveAsKnown, SaveCloseKnown DEF SaveStep
  <2>3. CASE Read(p) \/ CloseDelete(p)
    BY <1>1, <2>3, ReadKnown, CloseDeleteKnown
  <2> QED
    BY <1>3, <2>1, <2>2, <2>3 DEF Step
<1>4. ASSUME NEW p \in Procs, Crash(p)
      PROVE  CInv'
  BY <1>1, <1>4, CrashKnown
<1>5. CASE UNCHANGED vars
  <2>1. Placed' /\ Stated' /\ InOwn' /\ Unique'
    BY <1>5 DEF CInv, vars, Placed, Stated, InOwn, Unique, There, InPlace, Time, Data
  <2>2. AsideNew' /\ Opened'
    BY <1>5 DEF CInv, vars, AsideNew, Opened, There, Aside, AsideTime, Reading, Time, Data
  <2>3. Clean' => Clean /\ Known
    BY <1>5 DEF CInv, vars, Clean
  <2>4. Known => Known'
    BY <1>5 DEF vars, Known, Seen, Warned, Locked, Reading, There, Time, Data, Sure, InPlace, Win
  <2> QED
    BY <2>1, <2>2, <2>3, <2>4 DEF CInv
<1> QED
  BY <1>2, <1>3, <1>4, <1>5 DEF Next

\* With distinct time stamps nobody's text is overwritten by a user who was not asked
\* (the comparison of st_mtime in edit_save_file, with lock_file and unlock_file around
\* it), unless a lock was taken from its holder, or a name was written without its lock.
THEOREM NothingOverwrittenUnasked ==
  ASSUME Constants
  PROVE  Spec => []NoSilentOverwrite
<1>1. CASE FineClock
  <2>1. Init => IInv /\ CInv
    BY InitInv, InitKnown
  <2>2. IInv /\ CInv /\ [Next]_vars => IInv' /\ CInv'
    BY <1>1, NextInv, NextKnown
  <2>3. CInv => NoSilentOverwrite
    BY DEF CInv, Clean, Known, NoSilentOverwrite
  <2> QED
    BY <2>1, <2>2, <2>3, PTL DEF Spec
<1>2. CASE ~FineClock
  <2>1. NoSilentOverwrite
    BY <1>2 DEF NoSilentOverwrite
  <2> QED
    BY <2>1, PTL
<1> QED
  BY <1>1, <1>2

=============================================================================
