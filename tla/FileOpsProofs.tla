---------------------------- MODULE FileOpsProofs ----------------------------
(***************************************************************************)
(* What FileOps promises, for any number of files, linked in any way, of   *)
(* any length, and however many calls fail: no text is lost (NothingLost), *)
(* no target is touched, or appended to, against the user's word           *)
(* (TargetKept), and a file that lost its mark is done (UnmarkedIsDone).   *)
(*                                                                         *)
(* The argument: what leaves the source, the list of what is to be erased  *)
(* and the marks was covered (Covered), that is whole at the target, or an *)
(* error of it passed over, or linked to the target of the name that its   *)
(* inode was first copied under, which was not itself linked to another.   *)
(* While a file is copied, its target ends with what was read (Begun).     *)
(***************************************************************************)
EXTENDS FileOps, FiniteSetTheorems, SequenceTheorems, WellFoundedInduction, TLAPS

-----------------------------------------------------------------------------
(* The inductive invariant.                                                *)

Asks == {"move", "look", "links"}
Opens == {"open", "create"}
Writes == {"copy", "close", "closing", "closed"}
Working == Asks \cup Opens \cup Writes
After == {"returned", "moved", "remove"}
Ends == {"next", "end", "erase"}

Contexts == [skipAll : BOOLEAN, doAppend : BOOLEAN, reget : {0, 1}, replace : Replaces]
Jobs == [at : Working \cup After \cup Ends, f : 0..Cardinality(Names),
         rs : {"cont", "retry", "skip", "skipall", "abort"}, exists : BOOLEAN,
         appending : BOOLEAN, status : {"none", "short", "full"}, pos : 0..FileLen,
         reads : BOOLEAN, writes : BOOLEAN]

\* The types, and which part of the code runs for which operation.
Typed ==
    /\ op \in {"copy", "move", "dir"} /\ sameFs \in BOOLEAN /\ budget \in Budgets
    /\ src \subseteq Names /\ marked \subseteq Names /\ spoilt \subseteq Names
    /\ ctx \in Contexts
    /\ linklist \in [Names -> Names \cup {None}]
    /\ job \in Jobs
    /\ eraseList \in Seq(Names)
    /\ answer \in [Names -> (Replaces \ {"no", "none"}) \cup {"again", None}]
    /\ dst \in [Names -> Texts \cup {None}] /\ first \in [Names -> Texts \cup {None}]
    /\ leftover \in BOOLEAN
    /\ faults \in Nat /\ presses \in Nat /\ others \in Nat

Placed ==
    /\ job.at \in Working \cup After => job.f \in Names
    /\ job.at \in {"move", "moved", "remove"} => op = "move"
    /\ job.at = "erase" => op = "dir"
    /\ op = "copy" \/ (op = "dir" /\ job.at \notin {"erase", "end"}) => src = Names

\* The files still to be erased are there, in the order of the directory.
Erasing ==
    /\ op # "dir" => eraseList = <<>>
    /\ \A i \in 1..Len(eraseList) : eraseList[i] \in src
    /\ \A i, j \in 1..Len(eraseList) : i < j => eraseList[i] < eraseList[j]

Listed(n) == \E i \in 1..Len(eraseList) : eraseList[i] = n

\* A file that was not worked on yet, and one whose target was not opened yet.
Untried(n) == n > job.f \/ (n = job.f /\ job.at \in Working)
Untouched(n) == n > job.f \/ (n = job.f /\ job.at \in Asks \cup Opens)

Ahead ==
    \A n \in Names :
        /\ Untried(n) => n \in src /\ (op # "dir" => n \in marked) /\ ~Listed(n)
        /\ Untouched(n) => dst[n] = first[n]
        /\ n > job.f => answer[n] = None /\ n \notin spoilt
        /\ n = job.f /\ job.at \in After => ~Listed(n)

\* What a target had is remembered, and is one block.
Firsts ==
    \A n \in Names :
        /\ first[n] \in {None, Old(n), Foreign(n)}
        /\ dst[n] = None /\ n \notin spoilt => first[n] = None /\ answer[n] = None
        /\ answer[n] \in {"reget", "again"} => first[n] # None /\ FileLen >= 2 /\ op = "copy"

\* The name an inode was first copied under: not by an append.
Leading ==
    \A i \in Names : linklist[i] # None =>
        /\ linklist[i] <= job.f /\ Inode(linklist[i]) = i /\ answer[linklist[i]] \notin {"reget", "again"}
        /\ linklist[i] = job.f => job.at \notin Asks

\* The text of n ends the target, or the part of it that a reget had to fetch, whether
\* it was asked for or taken once more.
Done(n) ==
    LET k == FileLen - IF answer[n] \in {"reget", "again"} THEN Len(first[n]) ELSE 0
    IN  dst[n] # None /\ Len(dst[n]) >= k /\ Last(dst[n], k) = Last(Whole(n), k)

LinkedTo(n, m) ==
    m # None /\ m < n /\ dst[n] # None /\ dst[n] = dst[m] /\ answer[n] \notin {"reget", "again"}
Covered(n) == Done(n) \/ n \in spoilt \/ LinkedTo(n, linklist[Inode(n)])

\* The file under way was copied.
Succeeded ==
    \/ job.at \in {"returned", "moved"} /\ job.rs = "cont"
    \/ job.at = "remove"

\* What gave up its place in the source, among the marks, or is about to.
Yields(n) ==
    \/ n \notin src \/ Listed(n) \/ (op # "dir" /\ n \notin marked)
    \/ Succeeded /\ n = job.f
Covers == \A n \in Names : Yields(n) => Covered(n)

Kept(n) ==
    \/ first[n] = None \/ answer[n] \in Replaces \ {"append", "reget"} \/ n \in spoilt
    \/ op = "move" /\ first[n] = Foreign(n)
    \/ dst[n] # None /\ IsPrefixOf(first[n], dst[n])

\* ctx->do_append, and what the user said.
Appends ==
    /\ ctx.doAppend => \/ leftover
                       \/ /\ job.status = "none" /\ job.f \in Names
                          /\ answer[job.f] \in {"append", "reget", "again"}
    /\ job.appending => answer[job.f] \in {"append", "reget", "again"} \/ leftover
    /\ ctx.replace = "reget" => FileLen >= 2 /\ op = "copy"

\* The call before the target is open.
Asking ==
    LET n == job.f IN
    /\ job.at \in Asks \cup {"open"} => n \notin spoilt
    /\ job.at \in Asks \cup Opens => job.status = "none" /\ ~job.writes /\ ~job.appending
    /\ job.at = "move" \/ (job.at = "look" /\ op # "move") => answer[n] = None
    /\ job.at = "look" /\ op = "move" /\ dst[n] # None =>
           answer[n] # None \/ first[n] = Foreign(n)
    /\ job.at \in {"look", "links"} \cup Opens /\ answer[n] \in {"append", "reget", "again"} =>
           ctx.doAppend \/ n \in spoilt
    /\ job.at \in {"links"} \cup Opens =>
           /\ job.exists => dst[n] # None
                            /\ (answer[n] # None \/ (op = "move" /\ first[n] = Foreign(n)))
           /\ ~job.exists => job.rs # "cont"
           /\ answer[n] \notin {"reget", "again"} => ctx.reget = 0
           /\ answer[n] \in {"reget", "again"} => ctx.reget = 1 \/ n \in spoilt

\* The text so far.
Begun(n) ==
    /\ dst[n] # None /\ job.pos >= ctx.reget /\ Len(dst[n]) <= job.pos + 1
    /\ n \notin spoilt =>
         LET k == job.pos - ctx.reget IN
         /\ Len(dst[n]) >= k /\ Last(dst[n], k) = SubSeq(Whole(n), ctx.reget + 1, job.pos)
         /\ ctx.reget = IF answer[n] \in {"reget", "again"} THEN 1 ELSE 0

Copying ==
    LET n == job.f IN
    /\ job.at = "copy" => Begun(n) /\ job.rs = "cont" /\ job.status = "short"
    /\ job.at \in {"copy", "close", "closing"} /\ job.writes => dst[n] # None
    /\ job.at \in {"close", "closing", "closed"} =>
           /\ job.rs = "cont" => job.status = "full"
           /\ job.status = "full" => Done(n) \/ n \in spoilt

IInv == /\ Typed /\ Placed /\ Erasing /\ Ahead /\ Firsts /\ Leading /\ Covers
        /\ Appends /\ Asking /\ Copying
        /\ \A n \in Names : Kept(n)

-----------------------------------------------------------------------------
(* Sequences.                                                              *)

\* One element more.
LEMMA SubSeqOne ==
  ASSUME NEW B, NEW w \in Seq(B), NEW a \in Nat \ {0}, NEW p \in Nat, a <= p + 1, p + 1 <= Len(w)
  PROVE  SubSeq(w, a, p + 1) = Append(SubSeq(w, a, p), w[p + 1])
<1>1. SubSeq(w, a, p) \in Seq(B) /\ Len(SubSeq(w, a, p)) = p - a + 1
  OBVIOUS
<1>2. SubSeq(w, a, p + 1) \in Seq(B) /\ Len(SubSeq(w, a, p + 1)) = p - a + 2
  OBVIOUS
<1>3. \A i \in 1..(p - a + 2) : SubSeq(w, a, p + 1)[i] = Append(SubSeq(w, a, p), w[p + 1])[i]
  OBVIOUS
<1> QED
  BY <1>1, <1>2, <1>3, SeqEqual

\* The end of a sequence to which something is appended.
LEMMA AppendLast ==
  ASSUME NEW B, NEW t \in Seq(B), NEW k \in Nat, k <= Len(t), NEW b \in B
  PROVE  Last(Append(t, b), k + 1) = Append(Last(t, k), b)
<1> DEFINE u == Append(t, b)
<1>1. u \in Seq(B) /\ Len(u) = Len(t) + 1 /\ u[Len(t) + 1] = b /\ \A i \in 1..Len(t) : u[i] = t[i]
  OBVIOUS
<1>2. Last(u, k + 1) \in Seq(B) /\ Len(Last(u, k + 1)) = k + 1
      /\ \A i \in 1..(k + 1) : Last(u, k + 1)[i] = u[Len(t) - k + i]
  <2> HIDE DEF u
  <2> QED BY <1>1 DEF Last
<1>3. Last(t, k) \in Seq(B) /\ Len(Last(t, k)) = k /\ \A i \in 1..k : Last(t, k)[i] = t[Len(t) - k + i]
  BY DEF Last
<1> DEFINE l == Last(t, k)
<1> HIDE DEF u, l
<1>4. /\ Append(l, b) \in Seq(B) /\ Len(Append(l, b)) = k + 1
      /\ Append(l, b)[k + 1] = b /\ \A i \in 1..k : Append(l, b)[i] = l[i]
  BY <1>3 DEF l
<1>5. \A i \in 1..(k + 1) : Last(u, k + 1)[i] = Append(l, b)[i]
  <2>1. \A i \in 1..(k + 1) : i = k + 1 \/ i \in 1..k
    OBVIOUS
  <2>2. ASSUME NEW i \in 1..k
        PROVE  Last(u, k + 1)[i] = l[i]
    <3>1. Len(t) - k + i \in 1..Len(t) /\ i \in 1..(k + 1)
      OBVIOUS
    <3>2. Last(u, k + 1)[i] = u[Len(t) - k + i] /\ l[i] = t[Len(t) - k + i]
      BY <1>2, <1>3, <3>1 DEF l
    <3> QED
      BY <1>1, <3>1, <3>2
  <2>3. Last(u, k + 1)[k + 1] = b
    BY <1>1, <1>2
  <2> QED
    BY <1>4, <2>1, <2>2, <2>3
<1> QED
  BY <1>2, <1>4, <1>5, SeqEqual DEF u, l

\* A sequence begins with itself, and still does when something is appended.
LEMMA PrefixSelf ==
  ASSUME NEW B, NEW t \in Seq(B)
  PROVE  IsPrefixOf(t, t)
<1>1. SubSeq(t, 1, Len(t)) \in Seq(B) /\ Len(SubSeq(t, 1, Len(t))) = Len(t)
      /\ \A i \in 1..Len(t) : SubSeq(t, 1, Len(t))[i] = t[i]
  OBVIOUS
<1> QED BY <1>1, SeqEqual DEF IsPrefixOf

LEMMA PrefixAppend ==
  ASSUME NEW B, NEW s \in Seq(B), NEW t \in Seq(B), NEW b \in B, IsPrefixOf(s, t)
  PROVE  IsPrefixOf(s, Append(t, b))
<1> DEFINE u == Append(t, b)
<1>1. u \in Seq(B) /\ Len(u) = Len(t) + 1 /\ \A i \in 1..Len(t) : u[i] = t[i]
  OBVIOUS
<1> HIDE DEF u
<1>2. Len(s) \in Nat /\ Len(s) <= Len(t) /\ SubSeq(t, 1, Len(s)) = s
  BY DEF IsPrefixOf
<1>3. /\ SubSeq(u, 1, Len(s)) \in Seq(B) /\ Len(SubSeq(u, 1, Len(s))) = Len(s)
      /\ \A i \in 1..Len(s) : SubSeq(u, 1, Len(s))[i] = u[i]
  BY <1>1, <1>2
<1>4. \A i \in 1..Len(s) : s[i] = t[i]
  BY <1>2
<1> QED BY <1>1, <1>2, <1>3, <1>4, SeqEqual DEF IsPrefixOf, u

Blocks == Names \X (0..FileLen + 1)

\* The texts are the short sequences of blocks.
LEMMA TextsAre ==
  ASSUME Constants
  PROVE  /\ \A t \in Texts : t \in Seq(Blocks) /\ Len(t) \in 0..(FileLen + 1) /\ t # None
         /\ \A t \in Seq(Blocks) : Len(t) <= FileLen + 1 => t \in Texts
<1>1. FileLen \in Nat
  BY DEF Constants
<1>2. ASSUME NEW t \in Texts
      PROVE  t \in Seq(Blocks) /\ Len(t) \in 0..(FileLen + 1)
  <2>1. PICK k \in 0..FileLen + 1 : t \in [1..k -> Blocks]
    BY DEF Texts, Blocks
  <2>2. k \in Nat /\ t \in Seq(Blocks) /\ Len(t) = k
    <3> HIDE DEF Blocks
    <3> QED BY <1>1, <2>1
  <2> QED
    BY <1>1, <2>1, <2>2
<1>3. ASSUME NEW t \in Seq(Blocks), Len(t) <= FileLen + 1
      PROVE  t \in Texts
  <2>1. Len(t) \in 0..FileLen + 1 /\ t \in [1..Len(t) -> Blocks]
    BY <1>1, <1>3
  <2> QED
    BY <2>1 DEF Texts, Blocks
<1>4. \A t \in Texts : t # None
  BY DEF Constants
<1> QED
  BY <1>2, <1>3, <1>4

\* A set of numbers has a least one.
LEMMA Least ==
  ASSUME NEW S \in SUBSET Nat, S # {}
  PROVE  \E l \in S : \A k \in S : l <= k
<1> DEFINE R == {r \in Nat \X Nat : r[1] < r[2]}
<1>1. IsWellFoundedOn(R, Nat)
  BY NatLessThanWellFounded DEF OpToRel
<1>2. PICK l \in S : \A k \in S : ~(<<k, l>> \in R)
  <2> HIDE DEF R
  <2> QED BY <1>1, WFMin
<1>3. \A k \in S : l \in Nat /\ k \in Nat /\ (<<k, l>> \in R <=> k < l)
  OBVIOUS
<1>4. ASSUME NEW k \in S
      PROVE  l <= k
  <2>1. l \in Nat /\ k \in Nat /\ ~(k < l)
    <3> HIDE DEF R
    <3> QED BY <1>2, <1>3
  <2> QED BY <2>1
<1> QED
  BY <1>4

\* The names and their inodes are numbers.
LEMMA NamesAre ==
  ASSUME Constants
  PROVE  /\ Cardinality(Names) \in Nat /\ Names = 1..Cardinality(Names)
         /\ FileLen \in Nat /\ FileLen >= 1
         /\ \A n \in Names : n \in Nat /\ n >= 1 /\ n # None
                            /\ Inode(n) \in Names /\ Inode(Inode(n)) = Inode(n)
<1>1. Cardinality(Names) \in Nat /\ Names = 1..Cardinality(Names) /\ FileLen \in Nat /\ FileLen >= 1
  BY FS_CardinalityType DEF Constants
<1>2. \A n \in Names : n \in Nat /\ n >= 1 /\ n # None
  BY <1>1 DEF Constants
<1>3. ASSUME NEW n \in Names
      PROVE  Inode(n) \in Names /\ Inode(Inode(n)) = Inode(n)
  <2> DEFINE L == CHOOSE l \in Linked : \A k \in Linked : l <= k
  <2>1. CASE n \notin Linked
    BY <2>1 DEF Inode
  <2>2. CASE n \in Linked
    <3>1. Linked \in SUBSET Nat /\ Linked # {} /\ Linked \subseteq Names
      BY <1>1, <2>2 DEF Constants
    <3>2. \E l \in Linked : \A k \in Linked : l <= k
      BY <3>1, Least
    <3>3. L \in Linked
      BY <3>2
    <3>4. \A l \in Linked : Inode(l) = L
      BY DEF Inode
    <3> HIDE DEF L
    <3> QED
      BY <2>2, <3>1, <3>3, <3>4
  <2> QED
    BY <2>1, <2>2
<1> QED
  BY <1>1, <1>2, <1>3

\* The texts of a file, of a target before and of another program's file.
LEMMA TextIs ==
  ASSUME Constants, NEW n \in Names
  PROVE  /\ Whole(n) \in Texts /\ Whole(n) \in Seq(Blocks) /\ Len(Whole(n)) = FileLen
         /\ Old(n) \in Texts /\ Len(Old(n)) = 1 /\ Foreign(n) \in Texts /\ Len(Foreign(n)) = 1
         /\ <<>> \in Texts
         /\ \A i \in 1..FileLen : Whole(n)[i] \in Blocks
<1>1. FileLen \in Nat /\ FileLen >= 1 /\ Inode(n) \in Names
  BY NamesAre
<1>2. \A i \in 1..FileLen : <<Inode(n), i>> \in Blocks
  BY <1>1 DEF Blocks
<1>3. <<n, 0>> \in Blocks /\ <<n, FileLen + 1>> \in Blocks
  BY <1>1 DEF Blocks
<1>4. Whole(n) \in Seq(Blocks) /\ Len(Whole(n)) = FileLen
  <2> HIDE DEF Blocks
  <2> QED BY <1>1, <1>2 DEF Whole
<1>5. Old(n) \in Seq(Blocks) /\ Len(Old(n)) = 1 /\ Foreign(n) \in Seq(Blocks) /\ Len(Foreign(n)) = 1
      /\ <<>> \in Seq(Blocks) /\ Len(<<>>) = 0
  BY <1>3 DEF Old, Foreign
<1>6. 1 <= FileLen + 1 /\ FileLen <= FileLen + 1 /\ 0 <= FileLen + 1
  BY <1>1
<1> QED
  BY <1>2, <1>4, <1>5, <1>6, TextsAre DEF Whole

-----------------------------------------------------------------------------
(* What a step leaves alone stays as it was.                               *)

\* A file whose target and answer are untouched is as complete as it was.
LEMMA CompleteSame ==
  ASSUME NEW n, dst'[n] = dst[n], first'[n] = first[n], answer'[n] = answer[n]
  PROVE  Done(n)' <=> Done(n)
BY DEF Done, Last

\* A target that is untouched is kept as it was.
LEMMA KeptSame ==
  ASSUME NEW n, dst'[n] = dst[n], first'[n] = first[n], answer'[n] = answer[n],
         n \in spoilt => n \in spoilt', op' = op, Kept(n)
  PROVE  Kept(n)'
BY DEF Kept, IsPrefixOf

\* A file that is covered stays so while no target there is and no answer is changed,
\* neither its own nor that of a name in front of it.
LEMMA CoveredSame ==
  ASSUME Constants, IInv, NEW n \in Names, Covered(n), linklist'[Inode(n)] = linklist[Inode(n)],
         \A m \in Names : m <= n /\ dst[m] # None => dst'[m] = dst[m],
         dst[n] # None => first'[n] = first[n] /\ answer'[n] = answer[n],
         n \in spoilt => n \in spoilt'
  PROVE  Covered(n)'
<1> DEFINE m == linklist[Inode(n)]
<1>1. n <= n /\ Inode(n) \in Names
  BY NamesAre
<1>2. CASE Done(n)
  <2>1. dst[n] # None
    BY <1>2 DEF Done
  <2> QED
    BY <1>1, <1>2, <2>1, CompleteSame DEF Covered
<1>3. CASE n \in spoilt
  BY <1>3 DEF Covered
<1>4. CASE LinkedTo(n, m)
  <2>1. m \in Names /\ m <= n
    <3>1. m \in Names \cup {None}
      BY <1>1 DEF IInv, Typed
    <3> QED
      BY <1>4, <3>1, NamesAre DEF LinkedTo
  <2> QED
    BY <1>1, <1>4, <2>1 DEF Covered, LinkedTo
<1> QED
  BY <1>2, <1>3, <1>4 DEF Covered

\* A step of the call under way, which may change the target of its own file and the
\* answer about it, or remove its source.
LEMMA StepOn ==
  ASSUME Constants, IInv, UNCHANGED <<op, first, marked, eraseList, linklist>>,
         \/ src' = src
         \/ /\ src' = src \ {job.f} /\ eraseList = <<>> /\ job'.at \notin Working
            /\ Covered(job.f)',
         job'.f = job.f, spoilt \subseteq spoilt',
         \A n \in Names : n # job.f => /\ dst'[n] = dst[n] /\ answer'[n] = answer[n]
                                       /\ n \in spoilt' => n \in spoilt,
         job.at \in Working \/ UNCHANGED <<dst, answer, spoilt>>,
         job.at \in Asks \/ answer' = answer,
         job'.at \in Working => job.at \in Working,
         job'.at \in Working \cup After => job.at \in Working \cup After,
         job'.at \in Asks => job.at \in Asks,
         job'.at \in Asks \cup Opens => job.at \in Asks \cup Opens /\ dst' = dst,
         job.f \in Names =>
           /\ dst'[job.f] = None /\ job.f \notin spoilt' => first[job.f] = None /\ answer'[job.f] = None
           /\ answer'[job.f] \in {"reget", "again"} => first[job.f] # None /\ FileLen >= 2 /\ op = "copy"
           /\ Kept(job.f)' /\ (Succeeded' => Covered(job.f)')
  PROVE  Erasing' /\ Ahead' /\ Firsts' /\ Leading' /\ Covers' /\ \A n \in Names : Kept(n)'
<1> DEFINE f == job.f
<1> USE NamesAre
<1>1. f \in Nat /\ linklist \in [Names -> Names \cup {None}]
  BY DEF IInv, Typed, Jobs
<1>2. Erasing' /\ \A n : Listed(n)' <=> Listed(n)
  <2>1. \A i \in 1..Len(eraseList) : eraseList[i] \in src'
    <3>1. CASE src' = src
      BY <3>1 DEF IInv, Erasing
    <3>2. CASE eraseList = <<>>
      BY <3>2
    <3> QED
      BY <3>1, <3>2
  <2> QED
    BY <2>1 DEF IInv, Erasing, Listed
<1>3. \A n : Untried(n)' => Untried(n)
  BY DEF Untried
<1>4. Ahead'
  <2> SUFFICES ASSUME NEW n \in Names
               PROVE  /\ Untried(n)' => n \in src' /\ (op # "dir" => n \in marked) /\ ~Listed(n)
                      /\ Untouched(n)' => dst'[n] = first[n]
                      /\ n > f => answer'[n] = None /\ n \notin spoilt'
                      /\ n = f /\ job'.at \in After => ~Listed(n)
    BY <1>2 DEF Ahead
  <2>1. Untried(n)' => n \in src' /\ (op # "dir" => n \in marked) /\ ~Listed(n)
    <3> SUFFICES ASSUME Untried(n)'
                 PROVE  n \in src'
      BY <1>3 DEF IInv, Ahead
    <3>1. n \in src /\ (job'.at \notin Working => n # f)
      BY <1>1, <1>3 DEF IInv, Ahead, Untried
    <3> QED
      BY <3>1
  <2>2. n > f => answer'[n] = None /\ n \notin spoilt' /\ dst'[n] = first[n]
    BY <1>1 DEF IInv, Ahead, Untouched
  <2>3. Untouched(n)' => dst'[n] = first[n]
    BY <2>2 DEF IInv, Ahead, Untouched
  <2>4. n = f /\ job'.at \in After => ~Listed(n)
    BY DEF IInv, Ahead, Untried
  <2> QED
    BY <2>1, <2>2, <2>3, <2>4
<1>5. Firsts'
  <2> SUFFICES ASSUME NEW n \in Names
               PROVE  /\ first[n] \in {None, Old(n), Foreign(n)}
                      /\ dst'[n] = None /\ n \notin spoilt' => first[n] = None /\ answer'[n] = None
                      /\ answer'[n] \in {"reget", "again"} => first[n] # None /\ FileLen >= 2 /\ op = "copy"
    BY DEF Firsts
  <2> QED
    BY DEF IInv, Firsts
<1>6. Leading'
  <2> SUFFICES ASSUME NEW i \in Names, linklist[i] # None
               PROVE  /\ linklist[i] <= f /\ Inode(linklist[i]) = i /\ answer'[linklist[i]] \notin {"reget", "again"}
                      /\ linklist[i] = f => job'.at \notin Asks
    BY DEF Leading
  <2>1. /\ linklist[i] <= f /\ Inode(linklist[i]) = i /\ answer[linklist[i]] \notin {"reget", "again"}
        /\ linklist[i] = f => job.at \notin Asks
    BY DEF IInv, Leading
  <2>2. linklist[i] \in Names
    BY <1>1
  <2> QED
    BY <2>1, <2>2
<1>7. ASSUME NEW n \in Names, n < f \/ (n = f /\ UNCHANGED <<dst, answer, spoilt>>), Covered(n)
      PROVE  Covered(n)'
  <2>1. \A m \in Names : m <= n => dst'[m] = dst[m]
    BY <1>1, <1>7
  <2>2. answer'[n] = answer[n] /\ n \in spoilt => n \in spoilt'
    BY <1>7, <1>1
  <2>3. answer'[n] = answer[n] /\ first'[n] = first[n] /\ linklist'[Inode(n)] = linklist[Inode(n)]
    BY <1>7, <1>1
  <2> QED
    BY <1>7, <2>1, <2>2, <2>3, CoveredSame
<1>8. Covers'
  <2> SUFFICES ASSUME NEW n \in Names, Yields(n)'
               PROVE  Covered(n)'
    BY DEF Covers
  <2>1. CASE (Succeeded' \/ n \in src \ src') /\ n = f
    BY <2>1
  <2>2. CASE n \notin src \/ Listed(n) \/ (op # "dir" /\ n \notin marked)
    <3>1. Covered(n) /\ ~Untried(n)
      BY <2>2 DEF IInv, Covers, Ahead, Yields
    <3>2. n < f \/ (n = f /\ UNCHANGED <<dst, answer, spoilt>>)
      BY <1>1, <3>1 DEF Untried
    <3> QED
      BY <1>7, <3>1, <3>2
  <2> QED
    BY <1>2, <2>1, <2>2 DEF Yields
<1>9. ASSUME NEW n \in Names
      PROVE  Kept(n)'
  <2>1. CASE n = f
    BY <2>1
  <2>2. CASE n # f
    <3>1. Kept(n)
      BY DEF IInv
    <3> QED
      BY <2>2, <3>1, KeptSame
  <2> QED
    BY <2>1, <2>2
<1> QED
  BY <1>2, <1>4, <1>5, <1>6, <1>8, <1>9

-----------------------------------------------------------------------------
(* Steps that leave the targets alone.                                     *)

\* The counters of what comes from outside stay numbers.
LEMMA CountsStay ==
  ASSUME IInv
  PROVE  /\ Works \/ Fails => faults' \in Nat
         /\ \A r : Button(r) => presses' \in Nat /\ r \in {"cont", "skip", "abort"}
         /\ faults \in Nat /\ presses \in Nat /\ others \in Nat
BY DEF IInv, Typed, Works, Fails, Button

\* The call goes on, and no target and no answer is changed.
LEMMA Quiet ==
  ASSUME Constants, IInv, Typed', Placed', Appends', Asking', Copying',
         UNCHANGED <<op, first, src, marked, eraseList, linklist, dst, answer, spoilt>>,
         job'.f = job.f,
         job'.at \in Working => job.at \in Working,
         job'.at \in Working \cup After => job.at \in Working \cup After,
         job'.at \in Asks => job.at \in Asks,
         job'.at \in Asks \cup Opens => job.at \in Asks \cup Opens,
         Succeeded' => job.f \in Names /\ Covered(job.f)
  PROVE  IInv'
<1>1. ASSUME job.f \in Names
      PROVE  Kept(job.f)' /\ (Succeeded' => Covered(job.f)')
  <2>1. Kept(job.f)
    BY <1>1 DEF IInv
  <2>2. Kept(job.f)'
    BY <2>1, KeptSame
  <2> QED
    BY <1>1, <2>2, CoveredSame
<1>2. job.f \in Names =>
           /\ dst'[job.f] = None /\ job.f \notin spoilt' => first[job.f] = None /\ answer'[job.f] = None
           /\ answer'[job.f] \in {"reget", "again"} => first[job.f] # None /\ FileLen >= 2 /\ op = "copy"
           /\ Kept(job.f)' /\ (Succeeded' => Covered(job.f)')
  BY <1>1 DEF IInv, Firsts
<1>3. Erasing' /\ Ahead' /\ Firsts' /\ Leading' /\ Covers' /\ \A n \in Names : Kept(n)'
  BY <1>2, StepOn
<1> QED
  BY <1>3 DEF IInv

\* n_read = 0.
LEMMA EndOfFileStep ==
  ASSUME Constants, IInv, UNCHANGED plan, EndOfFile
  PROVE  IInv'
<1> DEFINE n == job.f
<1>1. /\ job.at = "copy" /\ job.pos >= FileLen /\ job \in Jobs /\ n \in Names
      /\ Begun(n) /\ job.rs = "cont"
  BY DEF EndOfFile, IInv, Typed, Placed, Copying, After, Working, Writes
<1>2. job' = [job EXCEPT !.at = "close", !.status = "full"]
      /\ UNCHANGED <<src, dst, ctx, linklist, eraseList, marked, faults, presses, others, first,
                     answer, spoilt, leftover, op, sameFs, budget>>
  BY DEF EndOfFile, counts, history, plan
<1>3. /\ job' \in Jobs /\ job'.at = "close" /\ job'.f = n /\ job'.status = "full"
      /\ job'.rs = job.rs /\ job'.writes = job.writes /\ job'.appending = job.appending
  BY <1>1, <1>2 DEF Jobs, Working, Writes
<1>4. Done(n) \/ n \in spoilt
  <2> SUFFICES ASSUME n \notin spoilt
               PROVE  Done(n)
    OBVIOUS
  <2>1. job.pos = FileLen /\ FileLen \in Nat /\ FileLen >= 1
    BY <1>1, NamesAre DEF Jobs
  <2>2. ctx.reget \in {0, 1} /\ ctx.reget = IF answer[n] \in {"reget", "again"} THEN 1 ELSE 0
    BY <1>1 DEF Begun, IInv, Typed, Contexts
  <2>3. answer[n] \in {"reget", "again"} => Len(first[n]) = 1
    BY <1>1, TextIs DEF IInv, Firsts
  <2>4. /\ Len(Whole(n)) = FileLen /\ dst[n] # None /\ Len(dst[n]) >= FileLen - ctx.reget
        /\ Last(dst[n], FileLen - ctx.reget) = SubSeq(Whole(n), ctx.reget + 1, FileLen)
    BY <1>1, <2>1, TextIs DEF Begun
  <2>5. ctx.reget + 1 = FileLen - (FileLen - ctx.reget) + 1
    BY <2>1, <2>2
  <2>6. Last(Whole(n), FileLen - ctx.reget) = SubSeq(Whole(n), ctx.reget + 1, FileLen)
    BY <2>4, <2>5 DEF Last
  <2> QED
    BY <2>2, <2>3, <2>4, <2>6 DEF Done
<1>5. Typed'
  BY <1>2, <1>3 DEF IInv, Typed
<1>6. Placed'
  BY <1>1, <1>2, <1>3 DEF IInv, Placed
<1>7. Appends'
  BY <1>1, <1>2, <1>3 DEF IInv, Appends, Copying
<1>8. Asking'
  BY <1>3 DEF Asking, Asks, Opens
<1>9. Copying'
  <2>1. Done(n)' \/ n \in spoilt'
    BY <1>2, <1>4, CompleteSame
  <2> QED
    BY <1>1, <1>2, <1>3, <2>1 DEF IInv, Copying
<1> QED
  BY <1>1, <1>2, <1>3, <1>5, <1>6, <1>7, <1>8, <1>9, Quiet
     DEF Succeeded, Asks, Opens, Working, Writes

\* What a process asked for the next name may answer.
LEMMA ChoiceIs ==
  ASSUME Constants, IInv, NEW n \in Names, dst[n] # None, dst[n] = first[n],
         NEW c \in ReplaceChoices(n)
  PROVE  /\ c.rs \in {"cont", "skip", "abort"} /\ c.by \in Replaces \cup {"abort"}
         /\ c.by = "abort" => c.rs = "abort"
         /\ c.rs = "cont" => c.by \in Replaces \ {"no", "none"}
         /\ c.by \in {"append", "reget"} => c.rs = "cont"
         /\ c.by = "reget" => FileLen >= 2 /\ op = "copy"
         /\ Len(dst[n]) = 1
<1>1. Len(dst[n]) = 1
  BY TextIs DEF IInv, Firsts
<1>2. ctx.replace \in Replaces /\ (ctx.replace = "reget" => FileLen >= 2 /\ op = "copy")
  BY DEF IInv, Typed, Contexts, Appends
<1>3. PICK b \in Replaces \cup {"abort"} :
         /\ c = [by |-> b, rs |-> IF b = "abort" THEN "abort"
                                  ELSE IF b \in {"no", "none"} THEN "skip" ELSE "cont"]
            \/ (c = [by |-> b, rs |-> "skip"] /\ b = "update")
         /\ b = "reget" => FileLen >= 2 /\ op = "copy"
  <2> DEFINE asked == IF ctx.replace \in {"yes", "no", "append"}
                      THEN (Replaces \ {"reget"}) \cup {"abort"}
                           \cup (IF op = "copy" /\ dst[n] # <<>> /\ Len(dst[n]) < FileLen
                                     THEN {"reget"} ELSE {})
                      ELSE {ctx.replace}
  <2>1. FileLen \in Nat
    BY NamesAre
  <2>2. \A b \in asked : b \in Replaces \cup {"abort"} /\ (b = "reget" => FileLen >= 2 /\ op = "copy")
    BY <1>1, <1>2, <2>1 DEF Replaces
  <2> HIDE DEF asked
  <2>3. ReplaceChoices(n) =
          {[by |-> b, rs |-> IF b = "abort" THEN "abort"
                             ELSE IF b \in {"no", "none"} THEN "skip" ELSE "cont"] : b \in asked}
          \cup {[by |-> b, rs |-> "skip"] : b \in asked \cap {"update"}}
    BY DEF asked, ReplaceChoices
  <2> QED
    BY <2>2, <2>3
<1>4. c.by = b
  BY <1>3
<1> QED
  BY <1>1, <1>3, <1>4 DEF Replaces

\* What query_replace leaves in the flags.
LEMMA QueryIs ==
  ASSUME Constants, IInv, NEW n \in Names, dst[n] # None, dst[n] = first[n],
         NEW c \in ReplaceChoices(n), NEW reget \in {0, 1}, Query(n, c, reget)
  PROVE  /\ ctx' \in Contexts /\ answer' \in [Names -> (Replaces \ {"no", "none"}) \cup {"again", None}]
         /\ c.rs # "cont" => answer'[n] = None
         /\ \A m \in Names : m # n => answer'[m] = answer[m]
         /\ ctx'.doAppend <=> ctx.doAppend \/ answer'[n] \in {"append", "reget", "again"}
         /\ answer'[n] \in {"reget", "again"} => FileLen >= 2 /\ op = "copy"
         /\ ctx'.replace = "reget" => FileLen >= 2 /\ op = "copy"
         /\ ctx'.reget = IF answer'[n] \in {"reget", "again"} THEN 1 ELSE reget
         /\ c.rs = "cont" => answer'[n] # None
<1> DEFINE b == IF c.by = "abort" THEN ctx.replace ELSE c.by
<1>1. /\ c.rs \in {"cont", "skip", "abort"} /\ c.by \in Replaces \cup {"abort"}
      /\ c.by = "abort" => c.rs = "abort"
      /\ c.rs = "cont" => c.by \in Replaces \ {"no", "none"}
      /\ c.by \in {"append", "reget"} => c.rs = "cont"
      /\ c.by = "reget" => FileLen >= 2 /\ op = "copy"
      /\ Len(dst[n]) = 1
  BY ChoiceIs
<1>2. ctx \in Contexts /\ answer \in [Names -> (Replaces \ {"no", "none"}) \cup {"again", None}]
      /\ (ctx.replace = "reget" => FileLen >= 2 /\ op = "copy")
  BY DEF IInv, Typed, Appends
<1>3. /\ ctx' = [ctx EXCEPT !.replace = b,
                           !.doAppend = @ \/ c.by \in {"append", "reget"},
                           !.reget = IF c.by = "reget" THEN 1 ELSE reget]
      /\ answer' = [answer EXCEPT ![n] = Said(c)]
  BY <1>1 DEF Query
<1>4. b \in Replaces /\ (b = "reget" => FileLen >= 2 /\ op = "copy")
  BY <1>1, <1>2 DEF Contexts
<1> DEFINE said == Said(c)
<1>6. /\ said = None \/ said \in (Replaces \ {"no", "none"}) \cup {"again"}
      /\ c.rs # "cont" => said = None
      /\ c.rs = "cont" => said # None
      /\ said \in {"append", "reget", "again"} <=> c.by \in {"append", "reget"}
      /\ said \in {"reget", "again"} <=> c.by = "reget"
  <2>1. None \notin Replaces \cup {"again"}
    BY DEF Constants
  <2>2. CASE c.rs # "cont"
    BY <1>1, <2>1, <2>2 DEF Said, Replaces
  <2>3. CASE c.rs = "cont" /\ c.by = "reget"
    BY <2>1, <2>3 DEF Said, Replaces
  <2>4. CASE c.rs = "cont" /\ c.by # "reget"
    BY <1>1, <2>1, <2>4 DEF Said, Replaces
  <2> QED
    BY <2>2, <2>3, <2>4
<1> HIDE DEF said
<1>5. /\ answer' \in [Names -> (Replaces \ {"no", "none"}) \cup {"again", None}]
      /\ answer'[n] = said
      /\ \A m \in Names : m # n => answer'[m] = answer[m]
  BY <1>2, <1>3, <1>6 DEF said
<1> HIDE DEF b
<1>7. /\ ctx' \in Contexts /\ ctx'.replace = b
      /\ ctx'.doAppend <=> ctx.doAppend \/ c.by \in {"append", "reget"}
      /\ ctx'.reget = IF c.by = "reget" THEN 1 ELSE reget
  BY <1>2, <1>3, <1>4 DEF Contexts
<1> QED
  BY <1>1, <1>4, <1>5, <1>7, <1>6

\* The call returns, or goes to the closing of the files, with something other than
\* FILE_CONT.
LEMMA GivesUp ==
  ASSUME Constants, IInv, job.at \in Asks \cup Opens \cup {"copy"},
         job' \in Jobs, job'.f = job.f, job'.at \in {"returned", "moved", "close"},
         job'.at = "moved" => op = "move", job'.rs # "cont", job'.status = job.status,
         job'.appending = job.appending, job'.writes = job.writes,
         ctx' \in Contexts, ctx'.doAppend => ctx.doAppend, ctx'.replace = ctx.replace,
         faults' \in Nat, presses' \in Nat,
         UNCHANGED <<op, sameFs, budget, src, dst, linklist, eraseList, marked, others, first,
                     answer, spoilt, leftover>>
  PROVE  IInv'
<1>1. job.f \in Names /\ (op = "dir" => src = Names)
  BY DEF IInv, Placed, Working, Writes, After, Asks, Opens
<1>2. /\ job.status # "full" /\ (job.writes => dst[job.f] # None)
  BY DEF IInv, Asking, Copying, Asks, Opens
<1>3. Typed' /\ Placed'
  BY <1>1 DEF IInv, Typed, Placed
<1>4. Appends'
  BY DEF IInv, Appends
<1>5. Asking'
  BY DEF Asking, Asks, Opens
<1>6. Copying'
  BY <1>2 DEF Copying
<1> QED
  BY <1>3, <1>4, <1>5, <1>6, Quiet DEF Succeeded, Asks, Opens, Working, Writes

\* What is known of a call before its target is open.
LEMMA AtAsk ==
  ASSUME Constants, IInv, job.at \in Asks \cup Opens
  PROVE  /\ job \in Jobs /\ job.f \in Names /\ ctx \in Contexts
         /\ dst[job.f] = first[job.f] /\ dst[job.f] \in Texts \cup {None}
         /\ job.at # "create" => job.f \notin spoilt
         /\ job.status = "none" /\ ~job.writes /\ ~job.appending
         /\ op = "dir" => src = Names
         /\ job.f \in src /\ op \in {"copy", "move", "dir"}
<1>1. job.f \in Names /\ (op = "dir" => src = Names)
  BY DEF IInv, Placed, Working, Writes, After, Asks, Opens
<1>2. Untried(job.f) /\ Untouched(job.f)
  BY DEF Untried, Untouched, Working
<1> QED
  BY <1>1, <1>2 DEF IInv, Typed, Ahead, Asking, Asks, Opens

\* copy_file_file up to the look for hard links.
LEMMA ExamineStep ==
  ASSUME Constants, IInv, UNCHANGED plan, Examine
  PROVE  IInv'
<1> DEFINE n == job.f
<1>1. /\ job.at = "look" /\ job \in Jobs /\ n \in Names /\ ctx \in Contexts
      /\ dst[n] = first[n] /\ n \notin spoilt /\ dst[n] \in Texts \cup {None}
      /\ job.status = "none" /\ ~job.writes /\ ~job.appending
      /\ (op = "dir" => src = Names) /\ (op # "move" => answer[n] = None)
  BY AtAsk DEF Examine, Asks, IInv, Asking
<1>2. UNCHANGED <<op, sameFs, budget, src, dst, linklist, eraseList, marked, others, first,
                  spoilt, leftover>>
  BY DEF Examine, plan
<1>3. ASSUME NEW a \in {"skip", "skipall", "abort"}, Return("returned", a), ctx' \in Contexts,
             ctx'.doAppend = ctx.doAppend, ctx'.replace = ctx.replace,
             faults' \in Nat, presses' \in Nat, answer' = answer
      PROVE  IInv'
  <2>1. /\ job' \in Jobs /\ job'.f = n /\ job'.at = "returned" /\ job'.rs # "cont"
        /\ job'.status = job.status /\ job'.appending = job.appending /\ job'.writes = job.writes
    BY <1>1, <1>3 DEF Return, Jobs, After
  <2> QED
    BY <1>1, <1>2, <1>3, <2>1, GivesUp DEF Asks
<1>4. CASE Button("abort") /\ Works /\ Return("returned", "abort")
           /\ ctx' = [ctx EXCEPT !.reget = 0] /\ UNCHANGED answer
  <2>1. ctx' \in Contexts /\ ctx'.doAppend = ctx.doAppend /\ ctx'.replace = ctx.replace
    BY <1>1, <1>4 DEF Contexts
  <2> QED
    BY <1>3, <1>4, <2>1, CountsStay
<1>5. ASSUME NEW a \in Refusals, Button("cont"), Fails,
             ctx' = [ctx EXCEPT !.reget = 0, !.skipAll = SkipAll(a)],
             Return("returned", a), UNCHANGED answer
      PROVE  IInv'
  <2>1. SkipAll(a) \in BOOLEAN
    BY <1>1 DEF SkipAll, Contexts
  <2>2. ctx' \in Contexts /\ ctx'.doAppend = ctx.doAppend /\ ctx'.replace = ctx.replace
    BY <1>1, <1>5, <2>1 DEF Contexts
  <2> QED
    BY <1>3, <1>5, <2>2, CountsStay DEF Refusals
<1>6. CASE /\ Button("cont") /\ Works /\ (dst[n] = None \/ op = "move")
           /\ ctx' = [ctx EXCEPT !.reget = 0]
           /\ job' = [job EXCEPT !.at = "links", !.rs = "retry", !.exists = dst[n] # None]
           /\ UNCHANGED answer
  <2>1. /\ ctx' \in Contexts /\ ctx'.doAppend = ctx.doAppend /\ ctx'.replace = ctx.replace
        /\ ctx'.reget = 0
    BY <1>1, <1>6 DEF Contexts
  <2>2. /\ job' \in Jobs /\ job'.f = n /\ job'.at = "links" /\ job'.rs = "retry"
        /\ job'.status = job.status /\ job'.appending = job.appending /\ job'.writes = job.writes
        /\ job'.exists <=> dst[n] # None
    BY <1>1, <1>6 DEF Jobs, Working, Asks
  <2>3. Typed' /\ Placed'
    BY <1>1, <1>2, <1>6, <2>1, <2>2, CountsStay DEF IInv, Typed, Placed
  <2>4. Appends'
    BY <1>1, <1>2, <1>6, <2>1, <2>2 DEF IInv, Appends
  <2>5. Asking'
    <3>1. answer[n] \notin {"reget", "again"}
      <4>1. CASE op = "move"
        BY <1>1, <4>1 DEF IInv, Firsts
      <4>2. CASE op # "move"
        BY <1>1, <4>2 DEF Constants, Replaces
      <4> QED
        BY <4>1, <4>2
    <3>2. dst[n] # None => answer[n] # None \/ (op = "move" /\ first[n] = Foreign(n))
      BY <1>1, <1>6 DEF IInv, Asking
    <3>3. answer[n] \in {"append", "reget", "again"} => ctx.doAppend
      BY <1>1 DEF IInv, Asking
    <3> QED
      BY <1>1, <1>2, <1>6, <2>1, <2>2, <3>1, <3>2, <3>3 DEF Asking, Asks, Opens
  <2>6. Copying'
    BY <2>2 DEF Copying
  <2> QED
    BY <1>1, <1>2, <1>6, <2>2, <2>3, <2>4, <2>5, <2>6, Quiet
       DEF Succeeded, Asks, Opens, Working, Writes
<1>7. ASSUME Button("cont"), Works, dst[n] # None, op # "move", NEW c \in ReplaceChoices(n),
             Query(n, c, 0),
             job' = [job EXCEPT !.at = IF c.rs = "cont" THEN "links" ELSE "returned",
                                !.rs = c.rs, !.exists = TRUE]
      PROVE  IInv'
  <2>1. /\ ctx' \in Contexts /\ answer' \in [Names -> (Replaces \ {"no", "none"}) \cup {"again", None}]
        /\ \A m \in Names : m # n => answer'[m] = answer[m]
        /\ ctx'.doAppend <=> ctx.doAppend \/ answer'[n] \in {"append", "reget", "again"}
        /\ answer'[n] \in {"reget", "again"} => FileLen >= 2 /\ op = "copy"
        /\ ctx'.replace = "reget" => FileLen >= 2 /\ op = "copy"
        /\ ctx'.reget = IF answer'[n] \in {"reget", "again"} THEN 1 ELSE 0
        /\ c.rs = "cont" => answer'[n] # None
    BY <1>1, <1>7, QueryIs
  <2>2. c.rs \in {"cont", "skip", "abort"}
    BY <1>1, <1>7, ChoiceIs
  <2>3. /\ job' \in Jobs /\ job'.f = n /\ job'.rs = c.rs
        /\ job'.at = IF c.rs = "cont" THEN "links" ELSE "returned"
        /\ job'.status = job.status /\ job'.appending = job.appending /\ job'.writes = job.writes
        /\ job'.exists
    BY <1>1, <1>7, <2>2 DEF Jobs, Working, Asks, After
  <2>4. Typed' /\ Placed'
    BY <1>1, <1>2, <1>7, <2>1, <2>3, CountsStay DEF IInv, Typed, Placed
  <2>5. Appends'
    <3>1. ctx.doAppend => leftover
      BY <1>1, <1>7 DEF IInv, Appends, Constants, Replaces
    <3> QED
      BY <1>1, <1>2, <2>1, <2>3, <3>1 DEF Appends
  <2>6. Asking'
    BY <1>1, <1>2, <1>7, <2>1, <2>3 DEF Asking, Asks, Opens
  <2>7. Copying'
    BY <2>3 DEF Copying
  <2>8. Kept(n)'
    <3>1. IsPrefixOf(dst[n], dst[n])
      BY <1>1, <1>7, TextsAre, PrefixSelf
    <3> QED
      BY <1>1, <1>2, <1>7, <3>1 DEF Kept, IsPrefixOf
  <2>9. Erasing' /\ Ahead' /\ Firsts' /\ Leading' /\ Covers' /\ \A m \in Names : Kept(m)'
    BY <1>1, <1>2, <1>7, <2>1, <2>2, <2>3, <2>8, StepOn
       DEF Succeeded, Asks, Opens, Working, Writes
  <2> QED
    BY <2>4, <2>5, <2>6, <2>7, <2>9 DEF IInv
<1> QED
  BY <1>4, <1>5, <1>6, <1>7 DEF Examine

-----------------------------------------------------------------------------
(* move_file_file.                                                         *)

\* A target that is the whole file.
LEMMA WholeIs ==
  ASSUME Constants, NEW n \in Names, dst'[n] = Whole(n),
         answer'[n] \in {"reget", "again"} => Len(first'[n]) = 1
  PROVE  Done(n)'
<1> DEFINE k == FileLen - IF answer'[n] \in {"reget", "again"} THEN Len(first'[n]) ELSE 0
<1>1. Whole(n) # None /\ Len(Whole(n)) = FileLen /\ FileLen \in Nat /\ FileLen >= 1
  BY TextIs, TextsAre, NamesAre
<1>2. k <= FileLen
  BY <1>1
<1> QED
  BY <1>1, <1>2 DEF Done

\* A target that was renamed to.
LEMMA RenamedStep ==
  ASSUME Constants, IInv, UNCHANGED plan, job.at = "move", Renamed(job.f), ~ctx'.doAppend,
         UNCHANGED <<linklist, eraseList, marked, others, first, spoilt, leftover>>, Works,
         ctx' \in Contexts, ctx'.replace # "reget",
         answer' \in [Names -> (Replaces \ {"no", "none"}) \cup {"again", None}],
         \A n \in Names : n # job.f => answer'[n] = answer[n],
         answer'[job.f] \notin {"reget", "again"},
         answer'[job.f] \in {None, "append"} => first[job.f] = None
  PROVE  IInv'
<1> DEFINE n == job.f
<1>1. /\ job \in Jobs /\ n \in Names /\ op = "move" /\ n \in src /\ eraseList = <<>>
      /\ job.status = "none" /\ ~job.writes /\ ~job.appending
  BY AtAsk DEF Asks, IInv, Placed, Erasing
<1>2. PICK r \in {"cont", "skip", "abort"} :
         /\ src' = src \ {n} /\ dst' = [dst EXCEPT ![n] = Whole(n)]
         /\ Button(r) /\ job' = [job EXCEPT !.at = "moved", !.rs = r]
  BY DEF Renamed, Return
<1>3. /\ job' \in Jobs /\ job'.f = n /\ job'.at = "moved" /\ job'.status = "none"
      /\ ~job'.writes /\ ~job'.appending
  BY <1>1, <1>2 DEF Jobs, After
<1>4. dst' \in [Names -> Texts \cup {None}] /\ dst'[n] = Whole(n) /\ dst'[n] # None
      /\ \A m \in Names : m # n => dst'[m] = dst[m]
  BY <1>1, <1>2, TextIs, TextsAre DEF IInv, Typed
<1>5. Covered(n)'
  <2>1. Done(n)'
    BY <1>1, <1>3, <1>4, WholeIs
  <2> QED
    BY <2>1 DEF Covered
<1>6. Kept(n)'
  <2>1. answer'[n] \in (Replaces \ {"no", "none"}) \cup {"again", None}
    BY <1>1
  <2>2. first'[n] = None \/ answer'[n] \in Replaces \ {"append", "reget"}
    BY <1>1, <2>1
  <2> QED
    BY <1>3, <2>2 DEF Kept
<1>7. Typed' /\ Placed'
  BY <1>1, <1>2, <1>3, <1>4, CountsStay DEF IInv, Typed, Placed, plan
<1>8. Appends' /\ Asking' /\ Copying'
  BY <1>3 DEF Appends, Asking, Copying, Asks, Opens
<1>9. Erasing' /\ Ahead' /\ Firsts' /\ Leading' /\ Covers' /\ \A m \in Names : Kept(m)'
  BY <1>1, <1>2, <1>3, <1>4, <1>5, <1>6, StepOn DEF plan, Asks, Opens, Working, Writes
<1> QED
  BY <1>7, <1>8, <1>9 DEF IInv

\* A file that is copied, because it cannot be renamed.
LEMMA LooksStep ==
  ASSUME Constants, IInv, UNCHANGED plan, job.at = "move", Go("look"),
         UNCHANGED <<src, dst, linklist, eraseList, marked, others, first, spoilt, leftover>>,
         faults' \in Nat, presses' \in Nat,
         ctx' \in Contexts, ctx'.replace # "reget",
         ctx'.doAppend <=> ctx.doAppend \/ answer'[job.f] \in {"append", "reget", "again"},
         answer' \in [Names -> (Replaces \ {"no", "none"}) \cup {"again", None}],
         \A n \in Names : n # job.f => answer'[n] = answer[n],
         answer'[job.f] \notin {"reget", "again"},
         answer'[job.f] = None <=> dst[job.f] = None
  PROVE  IInv'
<1> DEFINE n == job.f
<1>1. /\ job \in Jobs /\ n \in Names /\ op = "move" /\ n \in src
      /\ dst[n] = first[n] /\ n \notin spoilt /\ dst[n] \in Texts \cup {None}
      /\ job.status = "none" /\ ~job.writes /\ ~job.appending
  BY AtAsk DEF Asks, IInv, Placed
<1>2. /\ job' \in Jobs /\ job'.f = n /\ job'.at = "look" /\ job'.rs = job.rs /\ job'.status = "none"
      /\ ~job'.writes /\ ~job'.appending
  BY <1>1 DEF Jobs, Go, Working, Asks
<1>3. Kept(n)'
  <2>1. dst[n] # None => IsPrefixOf(dst[n], dst[n])
    BY <1>1, TextsAre, PrefixSelf
  <2> QED
    BY <1>1, <1>2, <2>1 DEF Kept, IsPrefixOf, plan
<1>4. Typed' /\ Placed'
  BY <1>1, <1>2 DEF IInv, Typed, Placed, plan
<1>5. Appends'
  <2>1. ctx.doAppend => leftover
    BY <1>1 DEF IInv, Appends, Asking, Constants, Replaces
  <2> QED
    BY <1>1, <1>2, <2>1 DEF Appends
<1>6. Asking'
  BY <1>1, <1>2 DEF Asking, Asks, Opens, plan
<1>7. Copying'
  BY <1>2 DEF Copying
<1>8. Erasing' /\ Ahead' /\ Firsts' /\ Leading' /\ Covers' /\ \A m \in Names : Kept(m)'
  BY <1>1, <1>2, <1>3, StepOn DEF plan, Asks, Opens, Working, Succeeded
<1> QED
  BY <1>4, <1>5, <1>6, <1>7, <1>8 DEF IInv

\* move_file_file up to the copy.
LEMMA MoveFileStep ==
  ASSUME Constants, IInv, UNCHANGED plan, MoveFile
  PROVE  IInv'
<1> DEFINE n == job.f
<1>1. /\ job.at = "move" /\ job \in Jobs /\ n \in Names /\ ctx \in Contexts /\ op = "move"
      /\ dst[n] = first[n] /\ n \notin spoilt /\ dst[n] \in Texts \cup {None}
      /\ job.status = "none" /\ ~job.writes /\ ~job.appending
      /\ answer[n] = None /\ answer \in [Names -> (Replaces \ {"no", "none"}) \cup {"again", None}]
      /\ ctx.replace # "reget"
  BY AtAsk DEF MoveFile, Asks, IInv, Asking, Placed, Typed, Appends
<1>2. UNCHANGED <<op, sameFs, budget, linklist, eraseList, marked, others, first, spoilt, leftover>>
  BY DEF MoveFile, plan
<1>3. ASSUME NEW a \in {"skip", "skipall", "abort"}, Return("moved", a), ctx' \in Contexts,
             ctx'.doAppend = ctx.doAppend, ctx'.replace = ctx.replace,
             faults' \in Nat, presses' \in Nat, UNCHANGED <<src, dst, answer>>
      PROVE  IInv'
  <2>1. /\ job' \in Jobs /\ job'.f = n /\ job'.at = "moved" /\ job'.rs # "cont"
        /\ job'.status = job.status /\ job'.appending = job.appending /\ job'.writes = job.writes
    BY <1>1, <1>3 DEF Return, Jobs, After
  <2> QED
    BY <1>1, <1>2, <1>3, <2>1, GivesUp DEF Asks
<1>4. CASE Button("abort") /\ Works /\ Return("moved", "abort") /\ UNCHANGED <<src, dst, ctx, answer>>
  BY <1>1, <1>3, <1>4, CountsStay
<1>5. CASE dst[n] = None /\ Rename(n, ctx.doAppend) /\ UNCHANGED <<ctx, answer>>
  <2>1. CASE Works /\ sameFs /\ ~ctx.doAppend /\ Renamed(n)
    BY <1>1, <1>2, <1>5, <2>1, RenamedStep DEF Constants, Replaces
  <2>2. CASE /\ IF sameFs /\ ~ctx.doAppend THEN Fails ELSE Works
             /\ Button("cont") /\ Go("look") /\ UNCHANGED <<src, dst>>
    <3>1. faults' \in Nat /\ presses' \in Nat
      BY <2>2, CountsStay
    <3> QED
      BY <1>1, <1>2, <1>5, <2>2, <3>1, LooksStep DEF Constants, Replaces
  <2> QED
    BY <1>5, <2>1, <2>2 DEF Rename
<1>6. ASSUME dst[n] # None, NEW c \in ReplaceChoices(n), Query(n, c, ctx.reget),
             IF c.rs = "cont" THEN Rename(n, ctx'.doAppend)
             ELSE Button("cont") /\ Works /\ Return("moved", c.rs) /\ UNCHANGED <<src, dst>>
      PROVE  IInv'
  <2>1. /\ ctx' \in Contexts /\ answer' \in [Names -> (Replaces \ {"no", "none"}) \cup {"again", None}]
        /\ c.rs # "cont" => answer'[n] = None
        /\ \A m \in Names : m # n => answer'[m] = answer[m]
        /\ ctx'.doAppend <=> ctx.doAppend \/ answer'[n] \in {"append", "reget", "again"}
        /\ answer'[n] \notin {"reget", "again"} /\ ctx'.replace # "reget"
        /\ c.rs = "cont" => answer'[n] # None
    BY <1>1, <1>6, QueryIs DEF Contexts
  <2>2. c.rs \in {"cont", "skip", "abort"}
    BY <1>1, <1>6, ChoiceIs
  <2>3. CASE c.rs # "cont"
    <3>1. answer' = answer
      BY <1>1, <2>1, <2>3
    <3>2. /\ job' \in Jobs /\ job'.f = n /\ job'.at = "moved" /\ job'.rs # "cont"
          /\ job'.status = job.status /\ job'.appending = job.appending /\ job'.writes = job.writes
      BY <1>1, <1>6, <2>2, <2>3 DEF Return, Jobs, After
    <3>3. Typed' /\ Placed'
      BY <1>1, <1>2, <1>6, <2>1, <2>3, <3>1, <3>2, CountsStay DEF IInv, Typed, Placed
    <3>4. Appends'
      BY <1>1, <1>2, <2>1, <3>1, <3>2 DEF IInv, Appends, Constants, Replaces
    <3>5. Asking' /\ Copying'
      BY <3>2 DEF Asking, Copying, Asks, Opens
    <3> QED
      BY <1>1, <1>2, <1>6, <2>3, <3>1, <3>2, <3>3, <3>4, <3>5, Quiet
         DEF Succeeded, Asks, Opens, Working, Writes
  <2>4. CASE c.rs = "cont" /\ Works /\ sameFs /\ ~ctx'.doAppend /\ Renamed(n)
    BY <1>1, <1>2, <2>1, <2>4, RenamedStep
  <2>5. CASE c.rs = "cont" /\ Button("cont") /\ Go("look") /\ UNCHANGED <<src, dst>> /\ (Works \/ Fails)
    <3>1. faults' \in Nat /\ presses' \in Nat
      BY <2>5, CountsStay
    <3> QED
      BY <1>1, <1>2, <1>6, <2>1, <2>5, <3>1, LooksStep
  <2> QED
    BY <1>6, <2>3, <2>4, <2>5 DEF Rename
<1>7. ASSUME NEW a \in Refusals, Button("cont"), Fails, ctx' = [ctx EXCEPT !.skipAll = SkipAll(a)],
             Return("moved", a), UNCHANGED <<src, dst, answer>>
      PROVE  IInv'
  <2>1. SkipAll(a) \in BOOLEAN
    BY <1>1 DEF SkipAll, Contexts
  <2>2. ctx' \in Contexts /\ ctx'.doAppend = ctx.doAppend /\ ctx'.replace = ctx.replace
    BY <1>1, <1>7, <2>1 DEF Contexts
  <2> QED
    BY <1>3, <1>7, <2>2, CountsStay DEF Refusals
<1> QED
  BY <1>4, <1>5, <1>6, <1>7 DEF MoveFile

-----------------------------------------------------------------------------
(* copy_file_file.                                                         *)

\* check_hardlinks.
LEMMA LinksStep ==
  ASSUME Constants, IInv, UNCHANGED plan, Links
  PROVE  IInv'
<1> DEFINE n == job.f
           i == Inode(n)
           known == linklist[i]
<1>1. /\ job.at = "links" /\ job \in Jobs /\ n \in Names /\ ctx \in Contexts /\ n \in src
      /\ dst[n] = first[n] /\ n \notin spoilt /\ dst[n] \in Texts \cup {None}
      /\ job.status = "none" /\ ~job.writes /\ ~job.appending /\ (op = "dir" => src = Names)
  BY AtAsk DEF Links, Asks
<1>2. UNCHANGED <<op, sameFs, budget, src, eraseList, marked, presses, others, first, answer,
                  spoilt, leftover>>
  BY DEF Links, plan, history
<1>3. /\ i \in Names /\ known \in Names \cup {None} /\ n # None /\ n \in Nat
      /\ linklist \in [Names -> Names \cup {None}]
  BY <1>1, NamesAre DEF IInv, Typed
<1>4. ASSUME Go("open"), ctx' \in Contexts, ctx'.doAppend = ctx.doAppend, ctx'.reget = ctx.reget,
             ctx'.replace = ctx.replace, faults' \in Nat, dst' = dst,
             linklist' \in [Names -> Names \cup {None}]
      PROVE  /\ job' \in Jobs /\ job'.f = n /\ job'.at = "open"
             /\ Typed' /\ Placed' /\ Appends' /\ Asking' /\ Copying'
  <2>1. /\ job' \in Jobs /\ job'.f = n /\ job'.at = "open" /\ job'.rs = job.rs
        /\ job'.status = job.status /\ job'.exists = job.exists
        /\ ~job'.appending /\ ~job'.writes
    BY <1>1, <1>4 DEF Go, Jobs, Working, Opens
  <2>2. Typed' /\ Placed'
    BY <1>1, <1>2, <1>4, <2>1 DEF IInv, Typed, Placed
  <2>3. Appends'
    BY <1>1, <1>2, <1>4, <2>1 DEF IInv, Appends
  <2>4. Asking'
    BY <1>1, <1>2, <1>4, <2>1 DEF IInv, Asking, Asks, Opens
  <2>5. Copying'
    BY <2>1 DEF Copying
  <2> QED
    BY <2>1, <2>2, <2>3, <2>4, <2>5
<1>5. ASSUME Go("open"), ctx' \in Contexts, ctx'.doAppend = ctx.doAppend, ctx'.reget = ctx.reget,
             ctx'.replace = ctx.replace, faults' \in Nat, dst' = dst, linklist' = linklist
      PROVE  IInv'
  BY <1>1, <1>2, <1>3, <1>4, <1>5, Quiet DEF Succeeded, Asks, Opens, Working, Writes
<1>6. CASE Works /\ Go("open") /\ UNCHANGED <<dst, ctx, linklist>>
  BY <1>1, <1>5, <1>6, CountsStay
<1>7. CASE /\ ~ctx.doAppend /\ known = None /\ linklist' = [linklist EXCEPT ![i] = n]
           /\ Works /\ Go("open") /\ UNCHANGED <<dst, ctx>>
  <2>1. linklist' \in [Names -> Names \cup {None}] /\ linklist'[i] = n
        /\ \A j \in Names : j # i => linklist'[j] = linklist[j]
    BY <1>1, <1>3, <1>7
  <2>2. /\ job' \in Jobs /\ job'.f = n /\ job'.at = "open"
        /\ Typed' /\ Placed' /\ Appends' /\ Asking' /\ Copying'
    BY <1>1, <1>4, <1>7, <2>1, CountsStay
  <2>3. answer[n] \notin {"reget", "again"}
    BY <1>1, <1>7 DEF IInv, Asking
  <2>4. Erasing' /\ Ahead' /\ Firsts'
    BY <1>1, <1>2, <1>7, <2>2
       DEF IInv, Erasing, Ahead, Firsts, Untried, Untouched, Listed, Asks, Opens, Working, After
  <2>5. Leading'
    <3> SUFFICES ASSUME NEW j \in Names, linklist'[j] # None
                 PROVE  /\ linklist'[j] <= n /\ Inode(linklist'[j]) = j
                        /\ answer[linklist'[j]] \notin {"reget", "again"}
      BY <1>2, <2>2 DEF Leading, Asks
    <3>1. CASE j = i
      BY <1>3, <2>1, <2>3, <3>1
    <3>2. CASE j # i
      BY <2>1, <3>2 DEF IInv, Leading
    <3> QED
      BY <3>1, <3>2
  <2>6. Covers'
    <3> SUFFICES ASSUME NEW m \in Names, Yields(m)'
                 PROVE  Covered(m)'
      BY DEF Covers
    <3>1. Covered(m)
      BY <1>1, <1>2, <2>2 DEF IInv, Covers, Yields, Succeeded, Listed
    <3>2. CASE Inode(m) # i
      <4>1. linklist'[Inode(m)] = linklist[Inode(m)]
        BY <2>1, <3>2, NamesAre
      <4> QED
        BY <1>2, <1>7, <3>1, <4>1, CoveredSame
    <3>3. CASE Inode(m) = i
      <4>1. Done(m) \/ m \in spoilt
        BY <1>7, <3>1, <3>3 DEF Covered, LinkedTo
      <4>2. Done(m)' <=> Done(m)
        BY <1>2, <1>7, CompleteSame
      <4> QED
        BY <1>2, <4>1, <4>2 DEF Covered
    <3> QED
      BY <3>2, <3>3
  <2>7. \A m \in Names : Kept(m)'
    BY <1>2, <1>7, KeptSame DEF IInv
  <2> QED
    BY <2>2, <2>4, <2>5, <2>6, <2>7 DEF IInv
<1>8. CASE /\ Works /\ known # None /\ dst[known] # None /\ dst[n] = None
           /\ dst' = [dst EXCEPT ![n] = dst[known]]
           /\ Return("returned", "cont") /\ UNCHANGED <<ctx, linklist>>
  <2>1. known \in Names /\ known < n /\ known \in Nat
    BY <1>1, <1>3, <1>8, NamesAre DEF IInv, Leading, Asks
  <2>2. /\ dst' \in [Names -> Texts \cup {None}] /\ dst'[n] = dst[known] /\ dst'[known] = dst[known]
        /\ \A m \in Names : m # n => dst'[m] = dst[m]
    BY <1>1, <1>8, <2>1 DEF IInv, Typed
  <2>3. /\ job' \in Jobs /\ job'.f = n /\ job'.at = "returned" /\ job'.status = "none"
        /\ ~job'.appending /\ ~job'.writes /\ job'.rs = "cont"
    BY <1>1, <1>8 DEF Return, Jobs, After
  <2>4. Typed' /\ Placed'
    BY <1>1, <1>2, <1>8, <2>2, <2>3, CountsStay DEF IInv, Typed, Placed
  <2>5. Appends'
    BY <1>1, <1>2, <1>8, <2>3 DEF IInv, Appends
  <2>6. Asking' /\ Copying'
    BY <2>3 DEF Asking, Copying, Asks, Opens
  <2>7. answer[n] = None /\ first[n] = None
    BY <1>1, <1>8 DEF IInv, Firsts
  <2>8. Covered(n)'
    <3>1. LinkedTo(n, known)'
      BY <1>1, <1>2, <1>3, <1>8, <2>1, <2>2, <2>3, <2>7 DEF LinkedTo, Constants, Replaces
    <3> QED
      BY <1>8, <2>3, <3>1 DEF Covered
  <2>9. Kept(n)'
    BY <1>2, <2>3, <2>7 DEF Kept
  <2>10. dst'[n] # None /\ (answer'[n] \in {"reget", "again"} => FALSE)
    BY <1>2, <1>8, <2>2, <2>7 DEF Constants, Replaces
  <2>11. Erasing' /\ Ahead' /\ Firsts' /\ Leading' /\ Covers' /\ \A m \in Names : Kept(m)'
    BY <1>1, <1>2, <1>8, <2>2, <2>3, <2>8, <2>9, <2>10, StepOn DEF Asks, Opens, Working, Writes
  <2> QED
    BY <2>4, <2>5, <2>6, <2>11 DEF IInv
<1>9. ASSUME NEW a \in Refusals, ctx' = [ctx EXCEPT !.skipAll = SkipAll(a)], Works \/ Fails,
             UNCHANGED <<dst, linklist>>,
             IF a = "abort" THEN Return("returned", "abort") ELSE Go("open")
      PROVE  IInv'
  <2>1. SkipAll(a) \in BOOLEAN
    BY <1>1 DEF SkipAll, Contexts
  <2>2. ctx' \in Contexts /\ ctx'.doAppend = ctx.doAppend /\ ctx'.replace = ctx.replace
        /\ ctx'.reget = ctx.reget
    BY <1>1, <1>9, <2>1 DEF Contexts
  <2>3. faults' \in Nat /\ presses' \in Nat
    BY <1>2, <1>9, CountsStay
  <2>4. CASE a = "abort"
    <3>1. /\ job' \in Jobs /\ job'.f = n /\ job'.at = "returned" /\ job'.rs # "cont"
          /\ job'.status = job.status /\ job'.appending = job.appending /\ job'.writes = job.writes
      BY <1>1, <1>9, <2>4 DEF Return, Jobs, After
    <3> QED
      BY <1>1, <1>2, <1>9, <2>2, <2>3, <3>1, GivesUp DEF Asks
  <2>5. CASE a # "abort"
    BY <1>5, <1>9, <2>2, <2>3, <2>5
  <2> QED
    BY <2>4, <2>5
<1> QED
  BY <1>6, <1>7, <1>8, <1>9 DEF Links

\* Opening the source.
LEMMA OpenSourceStep ==
  ASSUME Constants, IInv, UNCHANGED plan, OpenSource
  PROVE  IInv'
<1> DEFINE n == job.f
<1>1. /\ job.at = "open" /\ job \in Jobs /\ n \in Names /\ ctx \in Contexts /\ n \in src
      /\ dst[n] = first[n] /\ n \notin spoilt /\ dst[n] \in Texts \cup {None}
      /\ job.status = "none" /\ ~job.writes /\ ~job.appending /\ (op = "dir" => src = Names)
  BY AtAsk DEF OpenSource, Opens
<1>2. UNCHANGED <<op, sameFs, budget, src, dst, linklist, eraseList, marked, presses, others, first,
                  answer, leftover>>
  BY DEF OpenSource, plan
<1>3. CASE /\ Works /\ UNCHANGED <<ctx, spoilt>>
           /\ job' = [job EXCEPT !.at = "create", !.reads = TRUE]
  <2>1. /\ job' \in Jobs /\ job'.f = n /\ job'.at = "create" /\ job'.rs = job.rs
        /\ job'.status = job.status /\ job'.exists = job.exists
        /\ ~job'.appending /\ ~job'.writes
    BY <1>1, <1>3 DEF Jobs, Working, Opens
  <2>2. Typed' /\ Placed'
    BY <1>1, <1>2, <1>3, <2>1, CountsStay DEF IInv, Typed, Placed
  <2>3. Appends'
    BY <1>1, <1>2, <1>3, <2>1 DEF IInv, Appends
  <2>4. Asking'
    BY <1>1, <1>2, <1>3, <2>1 DEF IInv, Asking, Asks, Opens
  <2>5. Copying'
    BY <2>1 DEF Copying
  <2> QED
    BY <1>1, <1>2, <1>3, <2>1, <2>2, <2>3, <2>4, <2>5, Quiet
       DEF Succeeded, Asks, Opens, Working, Writes
<1>4. CASE /\ Fails /\ spoilt' = spoilt \cup {n}
           /\ ctx' = [ctx EXCEPT !.reget = 0, !.doAppend = FALSE]
           /\ job' = [job EXCEPT !.at = "create", !.reads = TRUE]
  <2>1. /\ job' \in Jobs /\ job'.f = n /\ job'.at = "create" /\ job'.rs = job.rs
        /\ job'.status = job.status /\ job'.exists = job.exists
        /\ ~job'.appending /\ ~job'.writes
    BY <1>1, <1>4 DEF Jobs, Working, Opens
  <2>2. ctx' \in Contexts /\ ctx'.doAppend = FALSE /\ ctx'.replace = ctx.replace /\ ctx'.reget = 0
    BY <1>1, <1>4 DEF Contexts
  <2>3. Typed' /\ Placed'
    BY <1>1, <1>2, <1>4, <2>1, <2>2, CountsStay DEF IInv, Typed, Placed
  <2>4. Appends'
    BY <1>1, <1>2, <1>4, <2>1, <2>2 DEF IInv, Appends
  <2>5. Asking'
    BY <1>1, <1>2, <1>4, <2>1, <2>2 DEF IInv, Asking, Asks, Opens
  <2>6. Copying'
    BY <2>1 DEF Copying
  <2>7. Kept(n)' /\ n \in spoilt'
    BY <1>2, <1>4, <2>1 DEF Kept
  <2>8. answer'[n] \in {"reget", "again"} => first[n] # None /\ FileLen >= 2 /\ op = "copy"
    BY <1>1, <1>2 DEF IInv, Firsts
  <2>9. \A m \in Names : m # n => dst'[m] = dst[m] /\ answer'[m] = answer[m] /\ (m \in spoilt' => m \in spoilt)
    BY <1>2, <1>4
  <2>10. Erasing' /\ Ahead' /\ Firsts' /\ Leading' /\ Covers' /\ \A m \in Names : Kept(m)'
    BY <1>1, <1>2, <1>4, <2>1, <2>7, <2>8, <2>9, StepOn DEF Succeeded, Asks, Opens, Working
  <2> QED
    BY <2>3, <2>4, <2>5, <2>6, <2>10 DEF IInv
<1>5. ASSUME NEW a \in Refusals, NEW opened \in BOOLEAN, Fails, UNCHANGED spoilt,
             ctx' = [ctx EXCEPT !.skipAll = SkipAll(a),
                                !.doAppend = ctx.skipAll /\ (opened \/ ctx.reget = 0) /\ @,
                                !.reget = IF opened THEN @ ELSE 0],
             job' = [job EXCEPT !.at = "close", !.rs = a, !.reads = opened]
      PROVE  IInv'
  <2>1. SkipAll(a) \in BOOLEAN
    BY <1>1 DEF SkipAll, Contexts
  <2>2. ctx' \in Contexts /\ (ctx'.doAppend => ctx.doAppend) /\ ctx'.replace = ctx.replace
    BY <1>1, <1>5, <2>1 DEF Contexts
  <2>3. /\ job' \in Jobs /\ job'.f = n /\ job'.at = "close" /\ job'.rs # "cont"
        /\ job'.status = job.status /\ job'.appending = job.appending /\ job'.writes = job.writes
    BY <1>1, <1>5 DEF Jobs, Working, Writes, Refusals
  <2> QED
    BY <1>1, <1>2, <1>5, <2>2, <2>3, GivesUp, CountsStay DEF Opens
<1>6. ASSUME NEW a \in {"skipall", "abort"}, Fails, UNCHANGED spoilt,
             ctx' = [ctx EXCEPT !.skipAll = SkipAll(a), !.doAppend = FALSE],
             Return("returned", a)
      PROVE  IInv'
  <2>1. SkipAll(a) \in BOOLEAN
    BY <1>1 DEF SkipAll, Contexts
  <2>2. ctx' \in Contexts /\ (ctx'.doAppend => ctx.doAppend) /\ ctx'.replace = ctx.replace
    BY <1>1, <1>6, <2>1 DEF Contexts
  <2>3. /\ job' \in Jobs /\ job'.f = n /\ job'.at = "returned" /\ job'.rs # "cont"
        /\ job'.status = job.status /\ job'.appending = job.appending /\ job'.writes = job.writes
    BY <1>1, <1>6 DEF Return, Jobs, After
  <2> QED
    BY <1>1, <1>2, <1>6, <2>2, <2>3, GivesUp, CountsStay DEF Opens
<1> QED
  BY <1>3, <1>4, <1>5, <1>6 DEF OpenSource

\* Closing the source.
LEMMA CloseSourceStep ==
  ASSUME Constants, IInv, UNCHANGED plan, CloseSource
  PROVE  IInv'
<1> DEFINE n == job.f
<1>1. /\ job.at = "close" /\ job \in Jobs /\ n \in Names /\ ctx \in Contexts
      /\ (op = "dir" => src = Names)
  BY DEF CloseSource, IInv, Typed, Placed, Working, Writes
<1>2. UNCHANGED <<op, sameFs, budget, src, dst, linklist, eraseList, marked, presses, others, first,
                  answer, spoilt, leftover>>
  BY DEF CloseSource, plan, history
<1>3. ASSUME NEW rs \in {job.rs, "abort"}, Return("closing", rs), ctx' \in Contexts,
             ctx'.doAppend = ctx.doAppend, ctx'.replace = ctx.replace, Works \/ Fails
      PROVE  IInv'
  <2>1. /\ job' \in Jobs /\ job'.f = n /\ job'.at = "closing" /\ job'.rs = rs
        /\ job'.status = job.status /\ job'.appending = job.appending /\ job'.writes = job.writes
    <3>1. rs \in {"cont", "retry", "skip", "skipall", "abort"}
      BY <1>1 DEF Jobs
    <3> QED
      BY <1>1, <1>3, <3>1 DEF Return, Jobs, Working, Writes
  <2>2. Typed' /\ Placed'
    BY <1>1, <1>2, <1>3, <2>1, CountsStay DEF IInv, Typed, Placed
  <2>3. Appends'
    BY <1>1, <1>2, <1>3, <2>1 DEF IInv, Appends
  <2>4. Asking'
    BY <2>1 DEF Asking, Asks, Opens
  <2>5. Copying'
    <3>1. /\ job.writes => dst[n] # None
          /\ job.rs = "cont" => job.status = "full"
          /\ job.status = "full" => Done(n) \/ n \in spoilt
      BY <1>1 DEF IInv, Copying
    <3>2. Done(n)' <=> Done(n)
      BY <1>2, <2>1, CompleteSame
    <3> QED
      BY <1>2, <2>1, <3>1, <3>2 DEF Copying
  <2> QED
    BY <1>1, <1>2, <2>1, <2>2, <2>3, <2>4, <2>5, Quiet
       DEF Succeeded, Asks, Opens, Working, Writes
<1>4. CASE Go("closing") /\ UNCHANGED ctx /\ (Works \/ Fails)
  <2>1. Return("closing", job.rs)
    BY <1>1, <1>4 DEF Go, Return, Jobs
  <2> QED
    BY <1>1, <1>3, <1>4, <2>1
<1>5. ASSUME NEW a \in Refusals, Fails, ctx' = [ctx EXCEPT !.skipAll = SkipAll(a)],
             Return("closing", IF a = "abort" THEN a ELSE job.rs)
      PROVE  IInv'
  <2>1. SkipAll(a) \in BOOLEAN
    BY <1>1 DEF SkipAll, Contexts
  <2>2. ctx' \in Contexts /\ ctx'.doAppend = ctx.doAppend /\ ctx'.replace = ctx.replace
    BY <1>1, <1>5, <2>1 DEF Contexts
  <2> QED
    BY <1>3, <1>5, <2>2
<1> QED
  BY <1>4, <1>5 DEF CloseSource

\* The dialog's Retry.
LEMMA RetryStep ==
  ASSUME Constants, IInv, UNCHANGED plan, RetryCall
  PROVE  IInv'
<1>1. UNCHANGED <<op, sameFs, budget, src, dst, ctx, linklist, job, eraseList, marked, presses,
                  others, first, answer, spoilt, leftover>> /\ faults' \in Nat
  BY CountsStay DEF RetryCall, Retry, plan, history
<1>2. \A n : Done(n)' <=> Done(n)
  BY <1>1, CompleteSame
<1>3. Typed' /\ Placed' /\ Erasing' /\ Ahead' /\ Firsts' /\ Leading'
  BY <1>1 DEF IInv, Typed, Placed, Erasing, Ahead, Firsts, Leading, Listed, Untried, Untouched
<1>4. Appends' /\ Asking'
  BY <1>1 DEF IInv, Appends, Asking
<1>5. Copying'
  BY <1>1, <1>2 DEF IInv, Copying, Begun, Last
<1>6. \A n \in Names : Kept(n)'
  BY <1>1, KeptSame DEF IInv
<1>7. Covers'
  BY <1>1, <1>2 DEF IInv, Covers, Covered, Yields, LinkedTo, Listed, Succeeded
<1> QED
  BY <1>3, <1>4, <1>5, <1>6, <1>7 DEF IInv

\* What a call that opened its target leaves, whichever way it goes on.
LEMMA OpenedStep ==
  ASSUME Constants, IInv, UNCHANGED plan, job.at = "create",
         UNCHANGED <<src, linklist, eraseList, marked, others, first, answer, leftover>>,
         job' \in Jobs, job'.f = job.f, job'.at \in {"copy", "close"},
         job'.appending = ctx.doAppend, job'.status # "none" \/ job.f \in spoilt',
         job'.status \in {"full", "short", "none"}, job'.writes => dst'[job.f] # None,
         ctx' \in Contexts, ~ctx'.doAppend, ctx'.replace = ctx.replace,
         faults' \in Nat, presses' \in Nat,
         dst' \in [Names -> Texts \cup {None}], \A m \in Names : m # job.f => dst'[m] = dst[m],
         spoilt \subseteq spoilt', spoilt' \subseteq spoilt \cup {job.f},
         dst'[job.f] = None => job.f \in spoilt',
         job'.at = "copy" => Begun(job.f)' /\ job'.rs = "cont" /\ job'.status = "short",
         job'.at = "close" => /\ job'.rs = "cont" => job'.status = "full"
                              /\ job'.status = "full" => Done(job.f)',
         Kept(job.f)'
  PROVE  IInv'
<1> DEFINE n == job.f
<1>1. /\ job \in Jobs /\ n \in Names /\ ctx \in Contexts /\ n \in src /\ (op = "dir" => src = Names)
      /\ job.status = "none"
  BY AtAsk DEF Opens
<1>2. Typed' /\ Placed'
  BY <1>1 DEF IInv, Typed, Placed, plan
<1>3. Appends'
  BY <1>1 DEF IInv, Appends, plan
<1>4. Asking'
  BY DEF Asking, Asks, Opens
<1>5. Copying'
  BY DEF Copying
<1>6. answer'[n] \in {"reget", "again"} => first[n] # None /\ FileLen >= 2 /\ op = "copy"
  BY <1>1 DEF IInv, Firsts
<1>7. \A m \in Names : m # n => dst'[m] = dst[m] /\ answer'[m] = answer[m] /\ (m \in spoilt' => m \in spoilt)
  OBVIOUS
<1>8. Erasing' /\ Ahead' /\ Firsts' /\ Leading' /\ Covers' /\ \A m \in Names : Kept(m)'
  BY <1>1, <1>6, <1>7, StepOn DEF Succeeded, Asks, Opens, Working, Writes, plan
<1> QED
  BY <1>2, <1>3, <1>4, <1>5, <1>8 DEF IInv

\* Opening the target.
LEMMA OpenTargetStep ==
  ASSUME Constants, IInv, UNCHANGED plan, OpenTarget
  PROVE  IInv'
<1> DEFINE n == job.f
           kept == IF ctx.doAppend /\ dst[n] # None THEN dst[n] ELSE <<>>
           free == \/ first[n] = None \/ answer[n] \in Replaces \ {"append", "reget"}
                   \/ n \in spoilt \/ (op = "move" /\ first[n] = Foreign(n))
<1>1. /\ job.at = "create" /\ job \in Jobs /\ n \in Names /\ ctx \in Contexts /\ n \in src
      /\ dst[n] = first[n] /\ dst[n] \in Texts \cup {None}
      /\ job.status = "none" /\ ~job.writes /\ ~job.appending /\ (op = "dir" => src = Names)
  BY AtAsk DEF OpenTarget, Opens
<1>2. UNCHANGED <<op, sameFs, budget, src, linklist, eraseList, marked, others, first, answer, leftover>>
  BY DEF OpenTarget, plan
<1>3. /\ job.exists => dst[n] # None /\ (answer[n] # None \/ (op = "move" /\ first[n] = Foreign(n)))
      /\ ~job.exists => job.rs # "cont"
      /\ answer[n] \in {"append", "reget", "again"} => ctx.doAppend \/ n \in spoilt
      /\ answer[n] \notin {"reget", "again"} => ctx.reget = 0
      /\ answer[n] \in {"reget", "again"} => ctx.reget = 1 \/ n \in spoilt
      /\ answer[n] \in Replaces \cup {"again", None} /\ dst \in [Names -> Texts \cup {None}]
  BY <1>1 DEF IInv, Asking, Typed, Asks, Opens
<1>4. /\ first[n] # None => Len(first[n]) = 1
      /\ ctx.reget \in {0, 1} /\ FileLen \in Nat /\ FileLen >= 1
  BY <1>1, TextIs, NamesAre DEF IInv, Firsts, Contexts
<1>5. CASE Exists(n) /\ Works /\ Go("close") /\ UNCHANGED <<dst, ctx, presses, spoilt>>
  <2>1. job.rs # "cont"
    BY <1>3, <1>5 DEF Exists
  <2>2. /\ job' \in Jobs /\ job'.f = n /\ job'.at = "close" /\ job'.rs # "cont"
        /\ job'.status = job.status /\ job'.appending = job.appending /\ job'.writes = job.writes
    BY <1>1, <1>5, <2>1 DEF Go, Jobs, Working, Writes
  <2> QED
    BY <1>1, <1>2, <1>5, <2>2, GivesUp, CountsStay DEF Opens
<1>6. ASSUME NEW a \in Refusals, Fails, UNCHANGED <<dst, presses, spoilt>>,
             ctx' = [ctx EXCEPT !.skipAll = SkipAll(a), !.doAppend = ctx.skipAll /\ @],
             Return("close", a)
      PROVE  IInv'
  <2>1. SkipAll(a) \in BOOLEAN
    BY <1>1 DEF SkipAll, Contexts
  <2>2. ctx' \in Contexts /\ (ctx'.doAppend => ctx.doAppend) /\ ctx'.replace = ctx.replace
    BY <1>1, <1>6, <2>1 DEF Contexts
  <2>3. /\ job' \in Jobs /\ job'.f = n /\ job'.at = "close" /\ job'.rs # "cont"
        /\ job'.status = job.status /\ job'.appending = job.appending /\ job'.writes = job.writes
    BY <1>1, <1>6 DEF Return, Jobs, Working, Writes, Refusals
  <2> QED
    BY <1>1, <1>2, <1>6, <2>2, <2>3, GivesUp, CountsStay DEF Opens
<1>7. CASE ~Exists(n) /\ Opened(n)
  <2>1. ctx.doAppend \/ free
    BY <1>1, <1>3, <1>7 DEF Exists
  <2>2. first[n] # None /\ ~free => ctx.doAppend /\ dst[n] # None
    BY <1>1, <2>1
  <2>3. /\ kept \in Texts /\ kept # None /\ Len(kept) <= 1 /\ kept \in Seq(Blocks)
        /\ Len(kept) \in Nat
        /\ free \/ IsPrefixOf(first[n], kept)
    <3>1. <<>> \in Texts /\ Len(<<>>) = 0
      BY <1>1, TextIs
    <3>2. CASE ctx.doAppend /\ dst[n] # None
      <4>1. kept = first[n] /\ first[n] \in Texts
        BY <1>1, <3>2
      <4>2. first[n] \in Seq(Blocks) /\ Len(first[n]) = 1 /\ first[n] # None
        BY <1>1, <1>4, <3>2, <4>1, TextsAre
      <4>3. IsPrefixOf(first[n], first[n])
        <5> HIDE DEF n
        <5> QED BY <4>2, PrefixSelf
      <4> HIDE DEF kept, free
      <4> QED
        BY <4>1, <4>2, <4>3
    <3>3. CASE ~(ctx.doAppend /\ dst[n] # None)
      <4>1. kept = <<>> /\ free
        BY <1>1, <2>1, <3>3
      <4> QED
        BY <3>1, <4>1, TextsAre
    <3> QED
      BY <3>2, <3>3
  <2>4. ASSUME job'.f = n, free \/ (dst'[n] = kept /\ n \in Names), spoilt \subseteq spoilt'
        PROVE  Kept(n)'
    <3>1. CASE free
      BY <1>2, <2>4, <3>1 DEF Kept
    <3>2. CASE ~free
      <4>1. dst'[n] # None /\ IsPrefixOf(first[n], dst'[n])
        BY <2>3, <2>4, <3>2
      <4> QED
        BY <1>2, <2>4, <4>1 DEF Kept, IsPrefixOf
    <3> QED
      BY <3>1, <3>2
  <2> DEFINE begun == [job EXCEPT !.at = "copy", !.status = "short", !.appending = ctx.doAppend,
                                  !.writes = TRUE, !.pos = ctx.reget]
  <2>5. /\ begun \in Jobs /\ begun.f = n /\ begun.at = "copy" /\ begun.status = "short"
        /\ begun.appending = ctx.doAppend /\ begun.writes /\ begun.pos = ctx.reget
    <3>1. ctx.reget \in 0..FileLen /\ ctx.doAppend \in BOOLEAN
      BY <1>1, <1>4 DEF Contexts
    <3> QED
      BY <1>1, <3>1 DEF Jobs, Working, Writes
  <2>6. /\ Forget(ctx) \in Contexts /\ ~Forget(ctx).doAppend /\ Forget(ctx).replace = ctx.replace
        /\ Forget(ctx).reget = ctx.reget
    BY <1>1 DEF Forget, Contexts
  <2>7. [dst EXCEPT ![n] = IF ctx.doAppend /\ @ # None THEN @ ELSE <<>>] = [dst EXCEPT ![n] = kept]
    OBVIOUS
  <2> HIDE DEF kept, free, begun
  <2>8. CASE /\ Works /\ sameFs /\ ~ctx.doAppend /\ UNCHANGED <<presses, spoilt>>
             /\ ctx' = Forget(ctx) /\ dst' = [dst EXCEPT ![n] = Whole(n)]
             /\ job' = [begun EXCEPT !.at = "close", !.status = "full", !.rs = "cont"]
    <3>1. /\ job' \in Jobs /\ job'.f = n /\ job'.at = "close" /\ job'.status = "full"
          /\ job'.appending = ctx.doAppend /\ job'.rs = "cont"
      BY <2>5, <2>8 DEF Jobs, Working, Writes
    <3>2. /\ dst' \in [Names -> Texts \cup {None}] /\ dst'[n] = Whole(n) /\ dst'[n] # None
          /\ \A m \in Names : m # n => dst'[m] = dst[m]
      BY <1>1, <1>3, <2>8, TextIs, TextsAre
    <3>3. answer'[n] \in {"reget", "again"} => Len(first'[n]) = 1
      BY <1>1, <1>2, <1>4 DEF IInv, Firsts
    <3>4. Done(n)'
      BY <1>1, <3>1, <3>2, <3>3, WholeIs
    <3>5. Kept(n)'
      BY <2>1, <2>4, <2>8, <3>1
    <3>6. faults' \in Nat /\ presses' \in Nat
      BY <2>8, CountsStay
    <3> QED
      BY <1>1, <1>2, <2>6, <2>8, <3>1, <3>2, <3>4, <3>5, <3>6, OpenedStep
  <2>9. ASSUME NEW a \in Refusals, Fails, UNCHANGED <<presses, spoilt>>,
               ctx' = [Forget(ctx) EXCEPT !.skipAll = SkipAll(a)], dst' = [dst EXCEPT ![n] = kept],
               job' = [begun EXCEPT !.at = "close", !.rs = a]
        PROVE  IInv'
    <3>1. /\ job' \in Jobs /\ job'.f = n /\ job'.at = "close" /\ job'.status = "short"
          /\ job'.appending = ctx.doAppend /\ job'.rs # "cont"
      BY <2>5, <2>9 DEF Jobs, Working, Writes, Refusals
    <3>2. SkipAll(a) \in BOOLEAN
      BY <1>1 DEF SkipAll, Contexts
    <3>3. ctx' \in Contexts /\ ~ctx'.doAppend /\ ctx'.replace = ctx.replace
      BY <2>6, <2>9, <3>2 DEF Contexts
    <3>4. /\ dst' \in [Names -> Texts \cup {None}] /\ dst'[n] = kept /\ dst'[n] # None
          /\ \A m \in Names : m # n => dst'[m] = dst[m]
      BY <1>1, <1>3, <2>3, <2>9
    <3>5. Kept(n)'
      BY <1>1, <2>4, <2>9, <3>1, <3>4
    <3>6. faults' \in Nat /\ presses' \in Nat
      BY <2>9, CountsStay
    <3> QED
      BY <1>1, <1>2, <2>9, <3>1, <3>3, <3>4, <3>5, <3>6, OpenedStep
  <2>10. CASE /\ Fails /\ UNCHANGED presses
              /\ ctx' = Forget(ctx) /\ dst' = [dst EXCEPT ![n] = None] /\ spoilt' = spoilt \cup {n}
              /\ job' = [begun EXCEPT !.at = "close", !.rs = "abort", !.status = "none",
                                      !.writes = FALSE]
    <3>1. /\ job' \in Jobs /\ job'.f = n /\ job'.at = "close" /\ job'.status = "none"
          /\ job'.appending = ctx.doAppend /\ job'.rs = "abort" /\ ~job'.writes
      BY <2>5, <2>10 DEF Jobs, Working, Writes
    <3>2. /\ dst' \in [Names -> Texts \cup {None}]
          /\ \A m \in Names : m # n => dst'[m] = dst[m]
      BY <1>1, <1>3, <2>10
    <3>3. Kept(n)'
      BY <2>10, <3>1 DEF Kept
    <3>4. faults' \in Nat /\ presses' \in Nat
      BY <2>10, CountsStay
    <3> QED
      BY <1>1, <1>2, <2>6, <2>10, <3>1, <3>2, <3>3, <3>4, OpenedStep
  <2>11. ASSUME NEW a \in {"none", "skip", "skipall"}, NEW r \in {"cont", "skip", "abort"},
                Works \/ Fails, Button(r), UNCHANGED spoilt,
                ctx' = [Forget(ctx) EXCEPT !.skipAll = SkipAll(a)], dst' = [dst EXCEPT ![n] = kept],
                job' = [begun EXCEPT !.at = IF r = "cont" THEN "copy" ELSE "close", !.rs = r]
         PROVE  IInv'
    <3>1. /\ job' \in Jobs /\ job'.f = n /\ job'.at = (IF r = "cont" THEN "copy" ELSE "close")
          /\ job'.status = "short" /\ job'.appending = ctx.doAppend /\ job'.rs = r
          /\ job'.pos = ctx.reget
      BY <2>5, <2>11 DEF Jobs, Working, Writes
    <3>2. SkipAll(a) \in BOOLEAN
      BY <1>1 DEF SkipAll, Contexts
    <3>3. ctx' \in Contexts /\ ~ctx'.doAppend /\ ctx'.replace = ctx.replace /\ ctx'.reget = ctx.reget
      BY <2>6, <2>11, <3>2 DEF Contexts
    <3>4. /\ dst' \in [Names -> Texts \cup {None}] /\ dst'[n] = kept /\ dst'[n] # None
          /\ \A m \in Names : m # n => dst'[m] = dst[m]
      BY <1>1, <1>3, <2>3, <2>11
    <3>5. Kept(n)'
      BY <1>1, <2>4, <2>11, <3>1, <3>4
    <3>6. Begun(n)'
      <4>1. Last(kept, 0) = <<>>
        BY <2>3 DEF Last
      <4>2. SubSeq(Whole(n), ctx.reget + 1, ctx.reget) = <<>>
        <5>1. Whole(n) \in Seq(Blocks)
          BY <1>1, TextIs
        <5> QED
          BY <1>4, <5>1
      <4>3. job'.pos - ctx'.reget = 0 /\ Len(dst'[n]) <= job'.pos + 1 /\ job'.pos >= ctx'.reget
        BY <1>4, <2>3, <3>1, <3>3, <3>4
      <4>4. n \notin spoilt => ctx.reget = IF answer[n] \in {"reget", "again"} THEN 1 ELSE 0
        BY <1>3
      <4>5. Last(dst[n], 0)' = <<>>
        BY <3>1, <3>4, <4>1 DEF Last
      <4>6. /\ (SubSeq(Whole(n), ctx.reget + 1, job.pos))' = <<>>
        BY <3>1, <3>3, <4>2
      <4>7. dst'[n] # None /\ Len(dst'[n]) >= 0
        BY <2>3, <3>4
      <4>8. n \notin spoilt' => ctx'.reget = IF answer'[n] \in {"reget", "again"} THEN 1 ELSE 0
        BY <1>2, <2>11, <3>3, <4>4
      <4>9. (Last(dst[n], job.pos - ctx.reget) = SubSeq(Whole(n), ctx.reget + 1, job.pos))'
        BY <4>3, <4>5, <4>6
      <4>10. job'.f = n
        BY <3>1
      <4> QED
        BY ONLY <4>3, <4>7, <4>8, <4>9, <4>10 DEF Begun
    <3>7. faults' \in Nat /\ presses' \in Nat
      BY <2>11, CountsStay
    <3> QED
      BY <1>1, <1>2, <2>11, <3>1, <3>3, <3>4, <3>5, <3>6, <3>7, OpenedStep
  <2> QED
    BY <1>7, <2>7, <2>8, <2>9, <2>10, <2>11 DEF Opened, begun
<1> QED
  BY <1>5, <1>6, <1>7 DEF OpenTarget

\* One more block: what the text so far was, it is still.
LEMMA BegunOn ==
  ASSUME Constants, IInv, NEW n \in Names, n = job.f, job.at = "copy", job.pos < FileLen,
         job'.f = n, job'.pos = job.pos + 1, ctx'.reget = ctx.reget, answer' = answer,
         spoilt' = spoilt, dst'[n] = Append(dst[n], Whole(n)[job.pos + 1])
  PROVE  Begun(n)' /\ dst'[n] \in Texts
<1> DEFINE b == Whole(n)[job.pos + 1]
           k == job.pos - ctx.reget
           t == dst[n]
           w == Whole(n)
           p == job.pos
           g == ctx.reget
<1>1. /\ t # None /\ p >= g /\ Len(t) <= p + 1
      /\ n \notin spoilt =>
           /\ Len(t) >= p - g /\ Last(t, p - g) = SubSeq(w, g + 1, p)
           /\ g = IF answer[n] \in {"reget", "again"} THEN 1 ELSE 0
  BY DEF IInv, Copying, Begun
<1>2. p \in Nat /\ p < FileLen /\ g \in {0, 1} /\ FileLen \in Nat
  BY NamesAre DEF IInv, Typed, Jobs, Contexts
<1>3. t \in Seq(Blocks) /\ Len(t) \in Nat
  BY <1>1, TextsAre DEF IInv, Typed
<1>4. w \in Seq(Blocks) /\ Len(w) = FileLen /\ b \in Blocks
  BY <1>2, TextIs
<1> DEFINE u == dst'[n]
<1>5. b = w[p + 1] /\ u = Append(t, b) /\ job'.pos = p + 1 /\ ctx'.reget = g
  OBVIOUS
<1> HIDE DEF b, t, w, p, g, k, u
<1>6. u \in Seq(Blocks) /\ Len(u) = Len(t) + 1
  BY <1>3, <1>4, <1>5
<1>7. u \in Texts /\ u # None
  BY <1>1, <1>2, <1>3, <1>6, TextsAre
<1>8. ASSUME n \notin spoilt
      PROVE  /\ Len(u) >= (p + 1) - g /\ Last(u, (p + 1) - g) = SubSeq(w, g + 1, p + 1)
  <2>1. p - g \in Nat /\ p - g <= Len(t) /\ (p + 1) - g = (p - g) + 1
    BY <1>1, <1>2, <1>3, <1>8
  <2>2. Last(Append(t, b), (p - g) + 1) = Append(Last(t, p - g), b)
    BY <1>3, <1>4, <2>1, AppendLast
  <2>3. SubSeq(w, g + 1, p + 1) = Append(SubSeq(w, g + 1, p), w[p + 1])
    <3>1. g + 1 \in Nat \ {0} /\ g + 1 <= p + 1 /\ p + 1 <= Len(w)
      BY <1>1, <1>2, <1>4
    <3> QED
      BY <1>2, <1>4, <3>1, SubSeqOne
  <2>4. Last(u, (p + 1) - g) = SubSeq(w, g + 1, p + 1)
    BY <1>1, <1>5, <1>8, <2>1, <2>2, <2>3
  <2> QED
    BY <1>6, <2>1, <2>4
<1>9. p + 1 >= g /\ Len(u) <= (p + 1) + 1
  BY <1>1, <1>2, <1>3, <1>6
<1>10. Whole(n) = w /\ dst'[n] = u /\ (spoilt' = spoilt) /\ answer'[n] = answer[n]
  BY DEF w, u
<1>11. job'.f = n
  OBVIOUS
<1> QED
  BY ONLY <1>1, <1>5, <1>7, <1>8, <1>9, <1>10, <1>11 DEF Begun

\* A block was read and written, or passed over.
LEMMA GoesOn ==
  ASSUME Constants, IInv, UNCHANGED plan, job.at = "copy", job.pos < FileLen,
         UNCHANGED <<src, linklist, eraseList, marked, others, first, answer, leftover>>,
         NEW r \in {"cont", "skip", "abort"}, Button(r), Works \/ Fails,
         NEW p \in {job.pos, job.pos + 1},
         job' = [job EXCEPT !.at = IF r = "cont" THEN "copy" ELSE "close", !.rs = r, !.pos = p],
         ctx' = ctx, dst' \in [Names -> Texts \cup {None}],
         \A m \in Names : m # job.f => dst'[m] = dst[m],
         spoilt \subseteq spoilt', spoilt' \subseteq spoilt \cup {job.f},
         dst'[job.f] # None, Begun(job.f)', Kept(job.f)'
  PROVE  IInv'
<1> DEFINE n == job.f
<1>1. /\ job \in Jobs /\ n \in Names /\ ctx \in Contexts /\ (op = "dir" => src = Names)
      /\ job.status = "short" /\ job.pos \in Nat /\ FileLen \in Nat
  BY NamesAre DEF IInv, Typed, Placed, Copying, Working, Writes, Jobs
<1>2. /\ job' \in Jobs /\ job'.f = n /\ job'.at = (IF r = "cont" THEN "copy" ELSE "close")
      /\ job'.rs = r /\ job'.status = "short" /\ job'.appending = job.appending
  <2>1. p \in 0..FileLen
    BY <1>1
  <2> QED
    BY <1>1, <2>1 DEF Jobs, Working, Writes
<1>3. Typed' /\ Placed'
  BY <1>1, <1>2, CountsStay DEF IInv, Typed, Placed, plan
<1>4. Appends'
  BY <1>1, <1>2 DEF IInv, Appends, plan
<1>5. Asking'
  BY <1>2 DEF Asking, Asks, Opens
<1>6. Copying'
  BY <1>2 DEF Copying
<1>7. answer'[n] \in {"reget", "again"} => first[n] # None /\ FileLen >= 2 /\ op = "copy"
  BY <1>1 DEF IInv, Firsts
<1>8. \A m \in Names : m # n => dst'[m] = dst[m] /\ answer'[m] = answer[m] /\ (m \in spoilt' => m \in spoilt)
  OBVIOUS
<1>9. Erasing' /\ Ahead' /\ Firsts' /\ Leading' /\ Covers' /\ \A m \in Names : Kept(m)'
  BY <1>1, <1>2, <1>7, <1>8, StepOn DEF Succeeded, Asks, Opens, Working, Writes, plan
<1> QED
  BY <1>3, <1>4, <1>5, <1>6, <1>9 DEF IInv

\* One turn of the loop.
LEMMA CopyBlockStep ==
  ASSUME Constants, IInv, UNCHANGED plan, CopyBlock
  PROVE  IInv'
<1> DEFINE n == job.f
<1>1. /\ job.at = "copy" /\ job \in Jobs /\ n \in Names /\ ctx \in Contexts /\ job.pos < FileLen
      /\ dst \in [Names -> Texts \cup {None}] /\ dst[n] # None /\ Begun(n) /\ Kept(n)
      /\ job.pos \in Nat /\ FileLen \in Nat
  BY NamesAre DEF CopyBlock, IInv, Typed, Placed, Working, Writes, Copying, Begun, Jobs
<1>2. UNCHANGED <<op, sameFs, budget, src, linklist, eraseList, marked, others, first, answer, leftover>>
  BY DEF CopyBlock, plan
<1>3. ASSUME NEW a \in Refusals, Fails, UNCHANGED <<dst, presses, spoilt>>,
             ctx' = [ctx EXCEPT !.skipAll = SkipAll(a)], Return("close", a)
      PROVE  IInv'
  <2>1. SkipAll(a) \in BOOLEAN
    BY <1>1 DEF SkipAll, Contexts
  <2>2. ctx' \in Contexts /\ (ctx'.doAppend => ctx.doAppend) /\ ctx'.replace = ctx.replace
    BY <1>1, <1>3, <2>1 DEF Contexts
  <2>3. /\ job' \in Jobs /\ job'.f = n /\ job'.at = "close" /\ job'.rs # "cont"
        /\ job'.status = job.status /\ job'.appending = job.appending /\ job'.writes = job.writes
    BY <1>1, <1>3 DEF Return, Jobs, Working, Writes, Refusals
  <2> QED
    BY <1>1, <1>2, <1>3, <2>2, <2>3, GivesUp, CountsStay
<1>4. ASSUME NEW r \in {"cont", "skip", "abort"}, Works, Button(r), UNCHANGED <<ctx, spoilt>>,
             job' = [job EXCEPT !.at = IF r = "cont" THEN "copy" ELSE "close",
                                !.rs = r, !.pos = @ + 1],
             dst' = [dst EXCEPT ![n] = Append(@, Whole(n)[job.pos + 1])]
      PROVE  IInv'
  <2>1. job'.f = n /\ job'.pos = job.pos + 1
    BY <1>1, <1>4 DEF Jobs
  <2>2. dst'[n] = Append(dst[n], Whole(n)[job.pos + 1])
    BY <1>1, <1>4
  <2>3. Begun(n)' /\ dst'[n] \in Texts
    BY <1>1, <1>2, <1>4, <2>1, <2>2, BegunOn
  <2>4. dst' \in [Names -> Texts \cup {None}] /\ \A m \in Names : m # n => dst'[m] = dst[m]
    <3>1. dst' \in [Names -> Texts \cup {None}]
      <4>1. dst' = [dst EXCEPT ![n] = dst'[n]]
        BY <1>1, <1>4
      <4> QED
        BY <1>1, <2>3, <4>1
    <3>2. \A m \in Names : m # n => dst'[m] = dst[m]
      BY <1>1, <1>4
    <3> QED
      BY <3>1, <3>2
  <2>5. Kept(n)'
    <3>1. CASE dst[n] # None /\ IsPrefixOf(first[n], dst[n]) /\ first[n] # None
      <4>1. dst[n] \in Seq(Blocks) /\ first[n] \in Seq(Blocks)
        BY <1>1, <3>1, TextIs, TextsAre DEF IInv, Firsts
      <4>2. Whole(n)[job.pos + 1] \in Blocks
        BY <1>1, TextIs
      <4>3. IsPrefixOf(first[n], dst'[n])
        BY <2>2, <3>1, <4>1, <4>2, PrefixAppend
      <4>4. dst'[n] # None
        BY <2>3, TextsAre
      <4> QED
        BY <1>2, <2>1, <4>3, <4>4 DEF Kept, IsPrefixOf
    <3>2. CASE \/ first[n] = None \/ answer[n] \in Replaces \ {"append", "reget"} \/ n \in spoilt
               \/ op = "move" /\ first[n] = Foreign(n)
      BY <1>2, <1>4, <2>1, <3>2 DEF Kept
    <3> QED
      BY <1>1, <3>1, <3>2 DEF Kept
  <2>6. dst'[n] # None
    BY <2>3, TextsAre
  <2>7. job' = [job EXCEPT !.at = IF r = "cont" THEN "copy" ELSE "close", !.rs = r, !.pos = job.pos + 1]
    BY <1>4
  <2> QED
    BY <1>1, <1>2, <1>4, <2>1, <2>3, <2>4, <2>5, <2>6, <2>7, GoesOn DEF plan
<1>5. ASSUME NEW r \in {"cont", "skip", "abort"}, Fails, Button(r), UNCHANGED <<dst, ctx, spoilt>>,
             Return(IF r = "cont" THEN "copy" ELSE "close", r)
      PROVE  IInv'
  <2>1. job' = [job EXCEPT !.at = IF r = "cont" THEN "copy" ELSE "close", !.rs = r, !.pos = job.pos]
    BY <1>1, <1>5 DEF Return, Jobs
  <2>2. job'.f = n /\ job'.pos = job.pos
    BY <1>1, <2>1 DEF Jobs
  <2>3. Begun(n)'
    BY <1>1, <1>2, <1>5, <2>2 DEF Begun, Last
  <2>4. Kept(n)'
    BY <1>1, <1>2, <1>5, <2>2, KeptSame
  <2> QED
    BY <1>1, <1>2, <1>5, <2>1, <2>2, <2>3, <2>4, GoesOn DEF plan
<1>6. ASSUME NEW r \in {"cont", "skip", "abort"}, Fails, Button(r), UNCHANGED <<dst, ctx>>,
             job' = [job EXCEPT !.at = IF r = "cont" THEN "copy" ELSE "close",
                                !.rs = r, !.pos = @ + 1],
             spoilt' = spoilt \cup {n}
      PROVE  IInv'
  <2>1. job' = [job EXCEPT !.at = IF r = "cont" THEN "copy" ELSE "close", !.rs = r, !.pos = job.pos + 1]
    BY <1>6
  <2>2. job'.f = n /\ job'.pos = job.pos + 1
    BY <1>1, <2>1 DEF Jobs
  <2>3. Begun(n)'
    <3>1. dst[n] # None /\ job.pos >= ctx.reget /\ Len(dst[n]) <= job.pos + 1
      BY <1>1 DEF Begun
    <3>2. Len(dst[n]) \in Nat /\ ctx.reget \in Nat
      BY <1>1, <3>1, TextsAre DEF Contexts
    <3>3. job.pos + 1 >= ctx.reget /\ Len(dst[n]) <= (job.pos + 1) + 1
      BY <1>1, <3>1, <3>2
    <3> QED
      BY <1>6, <2>2, <3>1, <3>3 DEF Begun
  <2>4. Kept(n)'
    BY <1>6, <2>2 DEF Kept
  <2> QED
    BY <1>1, <1>2, <1>6, <2>1, <2>2, <2>3, <2>4, GoesOn DEF plan
<1> QED
  BY <1>3, <1>4, <1>5, <1>6 DEF CopyBlock

\* Closing the target.
LEMMA CloseTargetStep ==
  ASSUME Constants, IInv, UNCHANGED plan, CloseTarget
  PROVE  IInv'
<1> DEFINE n == job.f
           cut == IF dst[n] = <<>> THEN <<>> ELSE SubSeq(dst[n], 1, Len(dst[n]) - 1)
<1>1. /\ job.at = "closing" /\ job \in Jobs /\ n \in Names /\ ctx \in Contexts
      /\ dst \in [Names -> Texts \cup {None}] /\ (op = "dir" => src = Names)
      /\ (job.writes => dst[n] # None)
      /\ (job.rs = "cont" => job.status = "full")
      /\ (job.status = "full" => Done(n) \/ n \in spoilt)
  BY DEF CloseTarget, IInv, Typed, Placed, Working, Writes, Copying
<1>2. UNCHANGED <<op, sameFs, budget, src, linklist, eraseList, marked, presses, others, first, answer,
                  leftover>>
  BY DEF CloseTarget, plan
<1>3. CASE Works /\ Go("closed") /\ UNCHANGED <<dst, ctx, spoilt>>
  <2>1. /\ job' \in Jobs /\ job'.f = n /\ job'.at = "closed" /\ job'.rs = job.rs
        /\ job'.status = job.status /\ job'.appending = job.appending
    BY <1>1, <1>3 DEF Go, Jobs, Working, Writes
  <2>2. Typed' /\ Placed'
    BY <1>1, <1>2, <1>3, <2>1, CountsStay DEF IInv, Typed, Placed
  <2>3. Appends'
    BY <1>1, <1>2, <1>3, <2>1 DEF IInv, Appends
  <2>4. Asking'
    BY <2>1 DEF Asking, Asks, Opens
  <2>5. Copying'
    <3>1. Done(n)' <=> Done(n)
      BY <1>2, <1>3, <2>1, CompleteSame
    <3> QED
      BY <1>1, <1>3, <2>1, <3>1 DEF Copying
  <2> QED
    BY <1>1, <1>2, <1>3, <2>1, <2>2, <2>3, <2>4, <2>5, Quiet
       DEF Succeeded, Asks, Opens, Working, Writes
<1>4. ASSUME Fails, job.writes, dst' = [dst EXCEPT ![n] = IF job.pos > ctx.reget THEN cut ELSE @],
             spoilt' = spoilt \cup {n}, NEW rs \in {job.rs} \cup Refusals, Return("closed", rs),
             ctx' \in Contexts, ctx'.doAppend = ctx.doAppend, ctx'.replace = ctx.replace
      PROVE  IInv'
  <2>1. /\ job' \in Jobs /\ job'.f = n /\ job'.at = "closed" /\ job'.rs = rs
        /\ job'.status = job.status /\ job'.appending = job.appending
    <3>1. rs \in {"cont", "retry", "skip", "skipall", "abort"}
      BY <1>1 DEF Jobs, Refusals
    <3> QED
      BY <1>1, <1>4, <3>1 DEF Return, Jobs, Working, Writes
  <2>2. cut \in Texts /\ cut # None
    <3>1. dst[n] \in Seq(Blocks) /\ Len(dst[n]) \in 0..(FileLen + 1) /\ FileLen \in Nat
      BY <1>1, <1>4, TextsAre, NamesAre
    <3>2. CASE dst[n] = <<>>
      BY <1>1, <3>2, TextIs, TextsAre
    <3>3. CASE dst[n] # <<>>
      <4> DEFINE s == SubSeq(dst[n], 1, Len(dst[n]) - 1)
      <4>1. s \in Seq(Blocks) /\ Len(s) = Len(dst[n]) - 1
        BY <3>1, <3>3
      <4>2. Len(s) <= FileLen + 1 /\ cut = s
        BY <3>1, <3>3, <4>1
      <4> HIDE DEF s
      <4> QED
        BY <4>1, <4>2, TextsAre
    <3> QED
      BY <3>2, <3>3
  <2> HIDE DEF cut
  <2>3. /\ dst' \in [Names -> Texts \cup {None}] /\ dst'[n] # None
        /\ \A m \in Names : m # n => dst'[m] = dst[m]
    BY <1>1, <1>4, <2>2
  <2>4. Typed' /\ Placed'
    BY <1>1, <1>2, <1>4, <2>1, <2>3, CountsStay DEF IInv, Typed, Placed
  <2>5. Appends'
    BY <1>1, <1>2, <1>4, <2>1 DEF IInv, Appends
  <2>6. Asking'
    BY <2>1 DEF Asking, Asks, Opens
  <2>7. Copying'
    BY <1>1, <1>4, <2>1 DEF Copying, Refusals
  <2>8. Kept(n)'
    BY <1>4, <2>1 DEF Kept
  <2>9. answer'[n] \in {"reget", "again"} => first[n] # None /\ FileLen >= 2 /\ op = "copy"
    BY <1>1, <1>2 DEF IInv, Firsts
  <2>10. \A m \in Names : m # n => dst'[m] = dst[m] /\ answer'[m] = answer[m] /\ (m \in spoilt' => m \in spoilt)
    BY <1>2, <1>4, <2>3
  <2>11. Erasing' /\ Ahead' /\ Firsts' /\ Leading' /\ Covers' /\ \A m \in Names : Kept(m)'
    BY <1>1, <1>2, <1>4, <2>1, <2>3, <2>8, <2>9, <2>10, StepOn
       DEF Succeeded, Asks, Opens, Working, Writes
  <2> QED
    BY <2>4, <2>5, <2>6, <2>7, <2>11 DEF IInv
<1>5. ASSUME Go("closed"), UNCHANGED ctx
      PROVE  Return("closed", job.rs)
  BY <1>1, <1>5 DEF Go, Return, Jobs
<1>6. ASSUME NEW a \in Refusals, ctx' = [ctx EXCEPT !.skipAll = SkipAll(a)]
      PROVE  ctx' \in Contexts /\ ctx'.doAppend = ctx.doAppend /\ ctx'.replace = ctx.replace
  <2>1. SkipAll(a) \in BOOLEAN
    BY <1>1 DEF SkipAll, Contexts
  <2> QED
    BY <1>1, <1>6, <2>1 DEF Contexts
<1>7. CASE /\ Fails /\ job.writes
           /\ dst' = [dst EXCEPT ![n] = IF job.pos > ctx.reget THEN cut ELSE @]
           /\ spoilt' = spoilt \cup {n}
           /\ \/ ctx.skipAll /\ Go("closed") /\ UNCHANGED ctx
              \/ \E a \in Refusals :
                   /\ ~ctx.skipAll
                   /\ ctx' = [ctx EXCEPT !.skipAll = SkipAll(a)]
                   /\ Return("closed", a)
  <2> HIDE DEF cut
  <2>1. CASE Go("closed") /\ UNCHANGED ctx
    BY <1>1, <1>4, <1>5, <1>7, <2>1
  <2>2. ASSUME NEW a \in Refusals, ctx' = [ctx EXCEPT !.skipAll = SkipAll(a)], Return("closed", a)
        PROVE  IInv'
    BY <1>4, <1>6, <1>7, <2>2
  <2> QED
    BY <1>7, <2>1, <2>2
<1> QED
  BY <1>3, <1>7 DEF CloseTarget

\* The end of copy_file_file.
LEMMA FinishStep ==
  ASSUME Constants, IInv, UNCHANGED plan, Finish
  PROVE  IInv'
<1> DEFINE n == job.f
           Update(rs) ==
             \/ rs # "cont" /\ UNCHANGED presses /\ Return("returned", rs)
             \/ \E r \in {"cont", "skip", "abort"} :
                  rs = "cont" /\ Button(r) /\ Return("returned", r)
<1>1. /\ job.at = "closed" /\ job \in Jobs /\ n \in Names /\ ctx \in Contexts
      /\ dst \in [Names -> Texts \cup {None}] /\ (op = "dir" => src = Names)
      /\ (job.rs = "cont" => job.status = "full")
      /\ (job.status = "full" => Done(n) \/ n \in spoilt)
  BY DEF Finish, IInv, Typed, Placed, Working, Writes, Copying
<1>2. UNCHANGED <<op, sameFs, budget, src, linklist, eraseList, marked, others, first, answer, leftover>>
  BY DEF Finish, plan
<1>3. ASSUME NEW rs \in {"cont", "retry", "skip", "skipall", "abort"}, Update(rs)
      PROVE  \E r \in {"cont", "retry", "skip", "skipall", "abort"} :
                Return("returned", r) /\ presses' \in Nat /\ (r = "cont" => rs = "cont")
  <2>1. presses \in Nat
    BY CountsStay
  <2>2. CASE rs # "cont" /\ UNCHANGED presses /\ Return("returned", rs)
    BY <2>1, <2>2
  <2>3. ASSUME NEW r \in {"cont", "skip", "abort"}, rs = "cont", Button(r), Return("returned", r)
        PROVE  Return("returned", r) /\ presses' \in Nat
    BY <2>3, CountsStay
  <2> QED
    BY <1>3, <2>2, <2>3
<1>4. ASSUME NEW r \in {"cont", "retry", "skip", "skipall", "abort"}, Return("returned", r)
      PROVE  /\ job' \in Jobs /\ job'.f = n /\ job'.at = "returned" /\ job'.rs = r
             /\ job'.status = job.status /\ job'.appending = job.appending
  BY <1>1, <1>4 DEF Return, Jobs, After
<1>5. ASSUME NEW rs \in {"cont", "retry", "skip", "skipall", "abort"}, Update(rs), Works \/ Fails,
             ctx' \in Contexts, ctx'.doAppend = ctx.doAppend, ctx'.replace = ctx.replace,
             UNCHANGED <<dst, spoilt>>, rs = "cont" => job.status = "full"
      PROVE  IInv'
  <2>1. PICK r \in {"cont", "retry", "skip", "skipall", "abort"} :
            Return("returned", r) /\ presses' \in Nat /\ (r = "cont" => rs = "cont")
    <3> HIDE DEF Update
    <3> QED BY <1>3, <1>5
  <2> HIDE DEF Update
  <2>2. /\ job' \in Jobs /\ job'.f = n /\ job'.at = "returned" /\ job'.rs = r
        /\ job'.status = job.status /\ job'.appending = job.appending
    BY <1>4, <2>1
  <2>3. Typed' /\ Placed'
    BY <1>1, <1>2, <1>5, <2>1, <2>2, CountsStay DEF IInv, Typed, Placed
  <2>4. Appends'
    BY <1>1, <1>2, <1>5, <2>2 DEF IInv, Appends
  <2>5. Asking' /\ Copying'
    BY <2>2 DEF Asking, Copying, Asks, Opens
  <2>6. job'.rs = "cont" => Covered(n)
    BY <1>1, <1>5, <2>1, <2>2 DEF Covered
  <2> QED
    BY <1>1, <1>2, <1>5, <2>2, <2>3, <2>4, <2>5, <2>6, Quiet
       DEF Succeeded, Asks, Opens, Working, Writes
<1>6. CASE /\ job.status = "short" /\ Works /\ UNCHANGED ctx
           /\ dst' = [dst EXCEPT ![n] = None] /\ spoilt' = spoilt \cup {n} /\ Update(job.rs)
  <2>1. PICK r \in {"cont", "retry", "skip", "skipall", "abort"} :
            Return("returned", r) /\ presses' \in Nat /\ (r = "cont" => job.rs = "cont")
    <3>1. job.rs \in {"cont", "retry", "skip", "skipall", "abort"}
      BY <1>1 DEF Jobs
    <3> HIDE DEF Update
    <3> QED BY <1>3, <1>6, <3>1
  <2>2. /\ job' \in Jobs /\ job'.f = n /\ job'.at = "returned" /\ job'.rs = r /\ r # "cont"
        /\ job'.status = job.status /\ job'.appending = job.appending
    BY <1>1, <1>4, <1>6, <2>1
  <2> HIDE DEF Update
  <2>3. /\ dst' \in [Names -> Texts \cup {None}]
        /\ \A m \in Names : m # n => dst'[m] = dst[m]
    BY <1>1, <1>6
  <2>4. Typed' /\ Placed'
    BY <1>1, <1>2, <1>6, <2>1, <2>2, <2>3, CountsStay DEF IInv, Typed, Placed
  <2>5. Appends'
    BY <1>1, <1>2, <1>6, <2>2 DEF IInv, Appends
  <2>6. Asking' /\ Copying'
    BY <2>2 DEF Asking, Copying, Asks, Opens
  <2>7. Kept(n)' /\ Covered(n)'
    BY <1>6, <2>2 DEF Kept, Covered
  <2>8. answer'[n] \in {"reget", "again"} => first[n] # None /\ FileLen >= 2 /\ op = "copy"
    BY <1>1, <1>2 DEF IInv, Firsts
  <2>9. \A m \in Names : m # n => dst'[m] = dst[m] /\ answer'[m] = answer[m] /\ (m \in spoilt' => m \in spoilt)
    BY <1>2, <1>6, <2>3
  <2>10. Erasing' /\ Ahead' /\ Firsts' /\ Leading' /\ Covers' /\ \A m \in Names : Kept(m)'
    BY <1>1, <1>2, <1>6, <2>2, <2>7, <2>8, <2>9, StepOn DEF Asks, Opens, Working, Writes
  <2> QED
    BY <2>4, <2>5, <2>6, <2>10 DEF IInv
<1>7. CASE Works /\ UNCHANGED <<dst, ctx, spoilt>> /\ Update(job.rs)
  <2> HIDE DEF Update
  <2>1. job.rs \in {"cont", "retry", "skip", "skipall", "abort"}
    BY <1>1 DEF Jobs
  <2> QED
    BY <1>1, <1>5, <1>7, <2>1
<1>8. ASSUME NEW a \in Refusals, job.status = "full", Fails, UNCHANGED <<dst, spoilt>>,
             IF ctx.skipAll THEN UNCHANGED ctx ELSE ctx' = [ctx EXCEPT !.skipAll = SkipAll(a)],
             Update(IF ctx.skipAll \/ a = "abort" THEN job.rs ELSE "cont")
      PROVE  IInv'
  <2> HIDE DEF Update
  <2>1. SkipAll(a) \in BOOLEAN
    BY <1>1 DEF SkipAll, Contexts
  <2>2. ctx' \in Contexts /\ ctx'.doAppend = ctx.doAppend /\ ctx'.replace = ctx.replace
    BY <1>1, <1>8, <2>1 DEF Contexts
  <2>3. job.rs \in {"cont", "retry", "skip", "skipall", "abort"}
    BY <1>1 DEF Jobs
  <2>4. CASE ctx.skipAll \/ a = "abort"
    BY <1>5, <1>8, <2>2, <2>3, <2>4
  <2>5. CASE ~(ctx.skipAll \/ a = "abort")
    BY <1>5, <1>8, <2>2, <2>5
  <2> QED
    BY <2>4, <2>5
<1> QED
  BY <1>6, <1>7, <1>8 DEF Finish

-----------------------------------------------------------------------------
(* The loop over the files, and the removal of the sources.                *)

\* The next file of the loop: nothing was done about it yet.
LEMMA NextFileStep ==
  ASSUME Constants, IInv, UNCHANGED plan, NextFile
  PROVE  IInv'
<1> DEFINE n == job.f + 1
<1>1. /\ job.at = "next" /\ job \in Jobs /\ job.f < Cardinality(Names) /\ job.f \in Nat
      /\ ctx \in Contexts /\ n \in Names /\ n \in Nat /\ n > job.f
  BY NamesAre DEF NextFile, IInv, Typed, Jobs
<1>2. UNCHANGED <<op, sameFs, budget, src, dst, ctx, linklist, eraseList, marked, faults, presses,
                  others, first, answer, spoilt>>
      /\ leftover' = ctx.doAppend
  BY DEF NextFile, plan, counts
<1>3. /\ job' \in Jobs /\ job'.f = n /\ job'.at = (IF op = "move" THEN "move" ELSE "look")
      /\ job'.status = "none" /\ ~job'.appending /\ ~job'.writes /\ ~job'.exists /\ job'.rs = "cont"
  <2>1. n \in 0..Cardinality(Names) /\ 0 \in 0..FileLen
    BY <1>1, NamesAre
  <2> QED
    BY <1>1, <2>1 DEF NextFile, Idle, Jobs, Working, Asks
<1>4. (op # "move" => src = Names) /\ leftover' \in BOOLEAN
  BY <1>1, <1>2 DEF IInv, Typed, Placed, Contexts
<1>5. Typed' /\ Placed'
  BY <1>1, <1>2, <1>3, <1>4 DEF IInv, Typed, Placed
<1>6. \A m \in Names : m \in Nat /\ (m > n \/ m = n => m > job.f)
  BY <1>1, NamesAre
<1>7. Erasing' /\ Ahead' /\ Firsts'
  BY <1>1, <1>2, <1>3, <1>6
     DEF IInv, Erasing, Ahead, Firsts, Untried, Untouched, Listed, After
<1>8. Leading'
  <2>1. \A l \in Names : l <= job.f => l <= n /\ l # n
    BY <1>1, NamesAre
  <2>2. \A i \in Names : linklist[i] # None => linklist[i] \in Names
    BY DEF IInv, Typed
  <2> QED
    BY <1>2, <1>3, <2>1, <2>2 DEF IInv, Leading
<1>9. Covers'
  <2>1. \A m \in Names : Yields(m)' => Yields(m)
    BY <1>2, <1>3 DEF Yields, Listed, Succeeded
  <2>2. \A m \in Names : Covered(m) => Covered(m)'
    BY <1>2, CoveredSame, NamesAre
  <2> QED
    BY <2>1, <2>2 DEF IInv, Covers
<1>10. Appends'
  BY <1>1, <1>2, <1>3 DEF IInv, Appends
<1>11. Asking'
  <2>1. n \notin spoilt /\ answer[n] = None
    BY <1>1 DEF IInv, Ahead
  <2>2. None \notin {"append", "reget", "again"}
    BY DEF Constants, Replaces
  <2>3. answer'[n] = None /\ n \notin spoilt'
    BY <1>2, <2>1
  <2>4. job'.at \in {"move", "look"} /\ (job'.at = "look" => op' # "move")
    BY <1>2, <1>3
  <2> QED
    BY <1>3, <2>2, <2>3, <2>4 DEF Asking, Asks, Opens
<1>12. Copying'
  BY <1>3 DEF Copying
<1>13. \A m \in Names : Kept(m)'
  BY <1>2, KeptSame DEF IInv
<1> QED
  BY <1>5, <1>7, <1>8, <1>9, <1>10, <1>11, <1>12, <1>13 DEF IInv

\* A step that copies nothing, and may unmark, forget or append to the list of what is
\* to be erased, or erase.
LEMMA Between ==
  ASSUME Constants, IInv, UNCHANGED plan,
         UNCHANGED <<dst, linklist, others, first, answer, spoilt, leftover>>,
         job' \in Jobs, job'.f = job.f, job'.at \in {"next", "end", "erase"},
         job'.at = "erase" => op = "dir",
         op = "copy" \/ (op = "dir" /\ job'.at = "next") => src' = Names,
         job'.status = job.status, job'.appending = job.appending,
         ctx' \in Contexts, ctx'.doAppend = ctx.doAppend, ctx'.replace = ctx.replace,
         faults' \in Nat, presses' \in Nat, src' \subseteq Names, marked' \subseteq Names,
         eraseList' \in Seq(Names), op # "dir" => eraseList' = <<>>,
         \A i \in 1..Len(eraseList') : eraseList'[i] \in src',
         \A i, j \in 1..Len(eraseList') : i < j => eraseList'[i] < eraseList'[j],
         \A n \in Names : Yields(n)' => Covered(n),
         \A n \in Names : n > job.f => n \in src' /\ (op # "dir" => n \in marked') /\ ~Listed(n)'
  PROVE  IInv'
<1>1. Typed' /\ Placed'
  BY DEF IInv, Typed, Placed, plan, Working, Writes, After, Asks, Opens
<1>2. Erasing'
  BY DEF Erasing, plan
<1>3. Ahead'
  <2>1. job'.at \notin Working /\ job'.at \notin Asks \cup Opens /\ job'.at \notin After
    BY DEF Working, Writes, After, Asks, Opens
  <2>2. \A n \in Names : n > job.f => dst[n] = first[n] /\ answer[n] = None /\ n \notin spoilt
    BY DEF IInv, Ahead, Untouched
  <2>3. op' = op
    BY DEF plan
  <2> QED
    BY <2>1, <2>2, <2>3 DEF Ahead, Untried, Untouched
<1>4. Firsts'
  BY DEF IInv, Firsts, plan
<1>5. Leading'
  BY DEF IInv, Leading, Asks
<1>6. Covers'
  BY CoveredSame, NamesAre DEF Covers
<1>7. Appends'
  BY DEF IInv, Appends, plan
<1>8. Asking' /\ Copying'
  BY DEF Asking, Copying, Asks, Opens
<1>9. \A n \in Names : Kept(n)'
  BY KeptSame DEF IInv, plan
<1> QED
  BY <1>1, <1>2, <1>3, <1>4, <1>5, <1>6, <1>7, <1>8, <1>9 DEF IInv

\* What the steps below start from.
LEMMA Known ==
  ASSUME Constants, IInv
  PROVE  /\ job \in Jobs /\ ctx \in Contexts /\ src \subseteq Names /\ marked \subseteq Names
         /\ eraseList \in Seq(Names) /\ (op # "dir" => eraseList = <<>>)
         /\ \A i \in 1..Len(eraseList) : eraseList[i] \in src
         /\ \A i, j \in 1..Len(eraseList) : i < j => eraseList[i] < eraseList[j]
         /\ \A n \in Names : Yields(n) => Covered(n)
         /\ \A n \in Names : n > job.f => n \in src /\ (op # "dir" => n \in marked) /\ ~Listed(n)
         /\ faults \in Nat /\ presses \in Nat /\ job.f \in Nat
         /\ op = "copy" \/ (op = "dir" /\ job.at \notin {"erase", "end"}) => src = Names
BY DEF IInv, Typed, Placed, Erasing, Ahead, Covers, Untried, Jobs

\* panel_operate after a file.
LEMMA OneFileDoneStep ==
  ASSUME Constants, IInv, UNCHANGED plan, OneFileDone
  PROVE  IInv'
<1>1. /\ op # "dir" /\ job.at \in {"returned", "moved"} /\ marked' = Unmark(job.rs)
      /\ UNCHANGED <<src, dst, ctx, linklist, eraseList, faults, others, first, answer, spoilt, leftover>>
  BY DEF OneFileDone, history
<1>2. PICK at \in {"next", "end"}, rs \in {job.rs, "abort"} :
         Return(at, rs) /\ presses' \in Nat /\ (job.rs = "abort" => at = "end")
  BY CountsStay DEF OneFileDone
<1>3. /\ job' \in Jobs /\ job'.f = job.f /\ job'.at = at
      /\ job'.status = job.status /\ job'.appending = job.appending
  <2>1. job \in Jobs
    BY Known
  <2> QED
    BY <1>2, <2>1 DEF Return, Jobs, Ends
<1>4. ASSUME NEW n \in Names, Yields(n)'
      PROVE  Covered(n)
  <2>1. Yields(n)
    BY <1>1, <1>3, <1>4 DEF Yields, Listed, Succeeded, Unmark, plan
  <2> QED
    BY <2>1, Known
<1>5. ASSUME NEW n \in Names, n > job.f
      PROVE  n \in src' /\ n \in marked' /\ ~Listed(n)'
  BY <1>1, <1>5, Known DEF Unmark, Listed
<1>6. marked' \subseteq Names
  BY <1>1, Known DEF Unmark
<1> QED
  BY <1>1, <1>2, <1>3, <1>4, <1>5, <1>6, Known, Between

\* The loop is at its end.
LEMMA AllDoneStep ==
  ASSUME Constants, IInv, UNCHANGED plan, AllDone
  PROVE  IInv'
<1>1. /\ op # "dir" /\ job.at = "next" /\ Go("end")
      /\ UNCHANGED <<src, dst, ctx, linklist, eraseList, marked, faults, presses, others, first,
                     answer, spoilt, leftover>>
  BY DEF AllDone, history, counts
<1>2. /\ job' \in Jobs /\ job'.f = job.f /\ job'.at = "end"
      /\ job'.status = job.status /\ job'.appending = job.appending
  BY <1>1, Known DEF Go, Jobs, Ends
<1>3. \A n \in Names : (Yields(n)' => Yields(n)) /\ (Listed(n)' <=> Listed(n))
  BY <1>1, <1>2 DEF Yields, Listed, Succeeded, plan
<1> QED
  BY <1>1, <1>2, <1>3, Known, Between

\* copy_dir_dir after a file.
LEMMA ChildDoneStep ==
  ASSUME Constants, IInv, UNCHANGED plan, ChildDone
  PROVE  IInv'
<1> DEFINE f == job.f
<1>1. /\ op = "dir" /\ job.at = "returned" /\ Go("next")
      /\ eraseList' = (IF job.rs = "cont" THEN Append(eraseList, f) ELSE eraseList)
      /\ UNCHANGED <<src, dst, ctx, linklist, marked, faults, presses, others, first,
                     answer, spoilt, leftover>>
  BY DEF ChildDone, history, counts
<1>2. /\ job' \in Jobs /\ job'.f = f /\ job'.at = "next"
      /\ job'.status = job.status /\ job'.appending = job.appending
  BY <1>1, Known DEF Go, Jobs, Ends
<1>3. f \in Names /\ src = Names /\ f \in Nat /\ ~Listed(f)
  BY <1>1, NamesAre DEF IInv, Placed, After, Ahead
<1>4. eraseList \in Seq(Names) /\ \A i \in 1..Len(eraseList) : eraseList[i] \in Nat /\ eraseList[i] < f
  <2>1. eraseList \in Seq(Names)
    BY Known
  <2>2. ASSUME NEW i \in 1..Len(eraseList)
        PROVE  eraseList[i] \in Nat /\ eraseList[i] < f
    <3>1. eraseList[i] \in Names /\ eraseList[i] \in Nat
      BY <2>1, NamesAre
    <3>2. Listed(eraseList[i])
      BY DEF Listed
    <3>3. ~(eraseList[i] > f) /\ eraseList[i] # f
      BY <1>3, <3>1, <3>2, Known
    <3> QED
      BY <1>3, <3>1, <3>3
  <2> QED
    BY <2>1, <2>2
<1>5. /\ eraseList' \in Seq(Names)
      /\ \A i \in 1..Len(eraseList') : eraseList'[i] \in src'
      /\ \A i, j \in 1..Len(eraseList') : i < j => eraseList'[i] < eraseList'[j]
      /\ \A n : Listed(n)' => Listed(n) \/ (n = f /\ job.rs = "cont")
  <2>1. CASE job.rs # "cont"
    BY <1>1, <2>1, Known DEF Listed
  <2>2. CASE job.rs = "cont"
    <3>1. /\ eraseList' \in Seq(Names) /\ Len(eraseList') = Len(eraseList) + 1
          /\ eraseList'[Len(eraseList) + 1] = f
          /\ \A i \in 1..Len(eraseList) : eraseList'[i] = eraseList[i]
      BY <1>1, <1>3, <1>4, <2>2
    <3>2. Len(eraseList) \in Nat /\ \A i \in 1..Len(eraseList') : i \in 1..Len(eraseList) \/ i = Len(eraseList) + 1
      BY <1>4, <3>1
    <3>3. \A i \in 1..Len(eraseList') : eraseList'[i] \in src'
      BY <1>1, <1>3, <3>1, <3>2, Known
    <3>4. ASSUME NEW i \in 1..Len(eraseList'), NEW j \in 1..Len(eraseList'), i < j
          PROVE  eraseList'[i] < eraseList'[j]
      <4>1. i \in 1..Len(eraseList)
        BY <3>1, <3>2, <3>4
      <4> QED
        BY <1>4, <3>1, <3>2, <3>4, <4>1, Known
    <3>5. \A n : Listed(n)' => Listed(n) \/ n = f
      BY <3>1, <3>2 DEF Listed
    <3> QED
      BY <2>2, <3>1, <3>3, <3>4, <3>5
  <2> QED
    BY <2>1, <2>2
<1>6. ASSUME NEW n \in Names, Yields(n)'
      PROVE  Covered(n)
  <2>1. Yields(n)
    BY <1>1, <1>2, <1>5, <1>6 DEF Yields, Succeeded, plan
  <2> QED
    BY <2>1, Known
<1>7. \A n \in Names : n > f => n \in src' /\ ~Listed(n)'
  BY <1>1, <1>3, <1>5, Known
<1> QED
  BY <1>1, <1>2, <1>3, <1>5, <1>6, <1>7, Known, Between DEF plan

\* The end of copy_dir_dir.
LEMMA DirCopiedStep ==
  ASSUME Constants, IInv, UNCHANGED plan, DirCopied
  PROVE  IInv'
<1>1. /\ op = "dir" /\ job.at = "next"
      /\ UNCHANGED <<src, dst, ctx, linklist, marked, faults, others, first, answer, spoilt, leftover>>
  BY DEF DirCopied, history
<1>2. PICK at \in {"erase", "end"}, rs \in {job.rs, "cont", "skip", "abort"} :
         Return(at, rs) /\ presses' \in Nat /\ eraseList' \in {eraseList, <<>>}
  <2>1. CASE job.rs # "cont" /\ UNCHANGED presses /\ eraseList' = <<>> /\ Go("end")
    <3>1. Return("end", job.rs)
      BY <2>1, Known DEF Go, Return, Jobs
    <3> QED
      BY <2>1, <3>1, Known
  <2>2. ASSUME NEW r \in {"cont", "skip", "abort"}, Button(r),
               eraseList' = IF r = "cont" THEN eraseList ELSE <<>>,
               Return(IF r = "cont" THEN "erase" ELSE "end", r)
        PROVE  /\ Return(IF r = "cont" THEN "erase" ELSE "end", r) /\ presses' \in Nat
               /\ eraseList' \in {eraseList, <<>>}
    BY <2>2, CountsStay
  <2> QED
    BY <2>1, <2>2 DEF DirCopied
<1>3. /\ job' \in Jobs /\ job'.f = job.f /\ job'.at = at
      /\ job'.status = job.status /\ job'.appending = job.appending
  <2>1. job \in Jobs
    BY Known
  <2> QED
    BY <1>2, <2>1 DEF Return, Jobs, Ends
<1>4. /\ eraseList' \in Seq(Names)
      /\ \A i \in 1..Len(eraseList') : eraseList'[i] \in src'
      /\ \A i, j \in 1..Len(eraseList') : i < j => eraseList'[i] < eraseList'[j]
      /\ \A n : Listed(n)' => Listed(n)
  <2>1. CASE eraseList' = eraseList
    BY <1>1, <2>1, Known DEF Listed
  <2>2. CASE eraseList' = <<>>
    BY <2>2 DEF Listed
  <2> QED
    BY <1>2, <2>1, <2>2
<1>5. \A n \in Names : Yields(n)' => Yields(n)
  BY <1>1, <1>3, <1>4 DEF Yields, Succeeded, plan
<1> QED
  BY <1>1, <1>2, <1>3, <1>4, <1>5, Known, Between DEF plan

\* erase_dir_after_copy, one entry.
LEMMA EraseNextStep ==
  ASSUME Constants, IInv, UNCHANGED plan, EraseNext
  PROVE  IInv'
<1> DEFINE h == Head(eraseList)
<1>1. /\ job.at = "erase" /\ eraseList # <<>> /\ eraseList' = Tail(eraseList) /\ op = "dir"
      /\ UNCHANGED <<dst, linklist, marked, others, first, answer, spoilt, leftover>>
  BY DEF EraseNext, history, IInv, Placed
<1>2. PICK rs \in {"cont", "skip", "skipall", "abort"} :
         /\ Return("erase", rs) /\ presses' \in Nat /\ faults' \in Nat /\ src' \in {src, src \ {h}}
         /\ ctx' = ctx \/ \E a \in Refusals : ctx' = [ctx EXCEPT !.skipAll = SkipAll(a)]
  <2> HIDE DEF h
  <2>1. CASE Works /\ Button("abort") /\ Return("erase", "abort") /\ UNCHANGED <<src, ctx>>
    BY <2>1, CountsStay
  <2>2. ASSUME NEW r \in {"skip", "cont", "abort"}, Works, Button(r), src' = src \ {h},
               Return("erase", r), UNCHANGED ctx
        PROVE  Return("erase", r) /\ presses' \in Nat /\ faults' \in Nat
    BY <2>2, CountsStay
  <2>3. ASSUME NEW a \in Refusals, NEW r \in {"skip", "cont", "abort"}, Fails, Button(r),
               Return("erase", IF a = "abort" THEN a ELSE r)
        PROVE  presses' \in Nat /\ faults' \in Nat
    BY <2>3, CountsStay
  <2> QED
    BY <2>1, <2>2, <2>3 DEF EraseNext, h
<1>3. /\ job' \in Jobs /\ job'.f = job.f /\ job'.at = "erase"
      /\ job'.status = job.status /\ job'.appending = job.appending
  <2>1. job \in Jobs
    BY Known
  <2> HIDE DEF h
  <2> QED
    BY <1>2, <2>1 DEF Return, Jobs, Ends
<1>4. ctx' \in Contexts /\ ctx'.doAppend = ctx.doAppend /\ ctx'.replace = ctx.replace
  <2>1. \A a : SkipAll(a) \in BOOLEAN
    BY Known DEF SkipAll, Contexts
  <2> HIDE DEF h
  <2> QED
    BY <1>2, <2>1, Known DEF Contexts
<1> DEFINE e == eraseList
           t == eraseList'
<1>5. /\ e \in Seq(Names) /\ e # <<>> /\ t = Tail(e) /\ h = e[1]
      /\ \A i \in 1..Len(e) : e[i] \in src /\ e[i] \in Nat
      /\ \A i, j \in 1..Len(e) : i < j => e[i] < e[j]
  <2>1. e \in Seq(Names) /\ \A i \in 1..Len(e) : e[i] \in Names
    BY Known
  <2> QED
    BY <1>1, <2>1, Known, NamesAre
<1> HIDE DEF h
<1>6. t \in Seq(Names) /\ Len(e) \in Nat /\ Len(e) >= 1 /\ Len(t) = Len(e) - 1
      /\ \A i \in 1..Len(t) : t[i] = e[i + 1]
  <2> HIDE DEF e, t
  <2> QED BY <1>5
<1>7. /\ \A i \in 1..Len(t) : i \in Nat /\ i + 1 \in 1..Len(e) /\ 1 < i + 1
      /\ 1 \in 1..Len(e)
  <2> HIDE DEF e, t
  <2> QED BY <1>6
<1>8. \A i \in 1..Len(t) : t[i] \in src'
  <2> SUFFICES ASSUME NEW i \in 1..Len(t)
               PROVE  t[i] \in src'
    OBVIOUS
  <2>1. e[1] < e[i + 1] /\ e[1] \in Nat /\ e[i + 1] \in Nat /\ e[i + 1] \in src
    <3> HIDE DEF e, t
    <3> QED BY <1>5, <1>7
  <2>2. t[i] \in src /\ t[i] # h
    <3> HIDE DEF e, t
    <3> QED BY <1>5, <1>6, <2>1
  <2> QED
    BY <1>2, <2>2
<1>9. \A i, j \in 1..Len(t) : i < j => t[i] < t[j]
  <2> SUFFICES ASSUME NEW i \in 1..Len(t), NEW j \in 1..Len(t), i < j
               PROVE  t[i] < t[j]
    OBVIOUS
  <2>1. i + 1 \in 1..Len(e) /\ j + 1 \in 1..Len(e) /\ i + 1 < j + 1
    <3> HIDE DEF e, t
    <3> QED BY <1>7
  <2> HIDE DEF e, t
  <2> QED
    BY <1>5, <1>6, <2>1
<1>10. \A n : Listed(n)' => Listed(n)
  <2> SUFFICES ASSUME NEW n, NEW i \in 1..Len(t), t[i] = n
               PROVE  \E j \in 1..Len(e) : e[j] = n
    BY DEF Listed
  <2> HIDE DEF e, t
  <2> QED
    BY <1>6, <1>7
<1>11. Listed(h)
  <2>1. \E j \in 1..Len(e) : e[j] = h
    <3> HIDE DEF e, t
    <3> QED BY <1>5, <1>7
  <2> QED
    BY <2>1 DEF Listed
<1>12. ASSUME NEW n \in Names, Yields(n)'
       PROVE  Covered(n)
  <2>1. Yields(n)
    <3>1. n \notin src' => n \notin src \/ n = h
      BY <1>2
    <3>2. ~Succeeded'
      BY <1>3 DEF Succeeded
    <3> QED
      BY <1>1, <1>10, <1>11, <1>12, <3>1, <3>2 DEF Yields, plan
  <2> QED
    BY <2>1, Known
<1>13. \A n \in Names : n > job.f => n \in src' /\ ~Listed(n)'
  <2> SUFFICES ASSUME NEW n \in Names, n > job.f
               PROVE  n \in src' /\ ~Listed(n)'
    OBVIOUS
  <2>1. n \in src /\ ~Listed(n)
    BY Known
  <2>2. n # h
    BY <1>11, <2>1
  <2> QED
    BY <1>2, <1>10, <2>1, <2>2
<1>14. src' \subseteq Names
  BY <1>2, Known
<1>15. presses' \in Nat /\ faults' \in Nat
  BY <1>2
<1>16. t \in Seq(Names)
  BY <1>6
<1> QED
  BY <1>1, <1>3, <1>4, <1>8, <1>9, <1>12, <1>13, <1>14, <1>15, <1>16, Known, Between DEF plan

\* The end of do_move_dir_dir.
LEMMA DirMovedStep ==
  ASSUME Constants, IInv, UNCHANGED plan, DirMoved
  PROVE  IInv'
<1>1. /\ op = "dir" /\ marked' \in {{}, marked} /\ eraseList' = <<>> /\ Go("end")
      /\ UNCHANGED <<src, dst, ctx, linklist, faults, presses, others, first, answer, spoilt, leftover>>
  BY DEF DirMoved, history, counts, IInv, Placed
<1>2. /\ job' \in Jobs /\ job'.f = job.f /\ job'.at = "end"
      /\ job'.status = job.status /\ job'.appending = job.appending
  BY <1>1, Known DEF Go, Jobs, Ends
<1>3. /\ \A n : ~Listed(n)'
      /\ eraseList' \in Seq(Names) /\ Len(eraseList') = 0
  BY <1>1 DEF Listed
<1>4. \A n \in Names : Yields(n)' => Yields(n)
  BY <1>1, <1>2, <1>3 DEF Yields, Succeeded, plan
<1>5. marked' \subseteq Names
  BY <1>1, Known
<1> QED
  BY <1>1, <1>2, <1>3, <1>4, <1>5, Known, Between

\* move_file_file after copy_file_file.
LEMMA MoveCopiedStep ==
  ASSUME Constants, IInv, UNCHANGED plan, MoveCopied
  PROVE  IInv'
<1> DEFINE f == job.f
<1>1. /\ op = "move" /\ job.at = "returned" /\ job \in Jobs /\ f \in Names
      /\ UNCHANGED <<src, dst, ctx, linklist, eraseList, marked, faults, others, first, answer,
                     spoilt, leftover>>
  BY Known DEF MoveCopied, history, IInv, Placed, After
<1>2. PICK at \in {"remove", "moved"}, rs \in {"cont", "retry", "skip", "skipall", "abort"} :
         /\ Return(at, rs) /\ presses' \in Nat
         /\ at = "remove" \/ rs = "cont" => job.rs = "cont"
  <2>1. CASE job.rs # "cont" /\ Go("moved") /\ UNCHANGED presses
    <3>1. Return("moved", job.rs) /\ job.rs \in {"cont", "retry", "skip", "skipall", "abort"}
      BY <1>1, <2>1 DEF Go, Return, Jobs
    <3> QED
      BY <2>1, <3>1, Known
  <2>2. ASSUME NEW r \in {"cont", "skip", "abort"}, job.rs = "cont", Button(r),
               Return(IF r = "cont" THEN "remove" ELSE "moved", r)
        PROVE  presses' \in Nat
    BY <2>2, CountsStay
  <2> QED
    BY <2>1, <2>2 DEF MoveCopied
<1>3. /\ job' \in Jobs /\ job'.f = f /\ job'.at = at /\ job'.rs = rs
      /\ job'.status = job.status /\ job'.appending = job.appending
  BY <1>1, <1>2 DEF Return, Jobs, After
<1>4. Succeeded' => Covered(f)
  <2> SUFFICES ASSUME Succeeded'
               PROVE  Covered(f)
    OBVIOUS
  <2>1. Yields(f)
    BY <1>1, <1>2, <1>3 DEF Succeeded, Yields
  <2> QED
    BY <1>1, <2>1, Known
<1>5. Typed' /\ Placed'
  BY <1>1, <1>2, <1>3 DEF IInv, Typed, Placed, plan
<1>6. Appends'
  BY <1>1, <1>2, <1>3 DEF IInv, Appends, plan
<1>7. Asking' /\ Copying'
  BY <1>2, <1>3 DEF Asking, Copying, Asks, Opens
<1> QED
  BY <1>1, <1>2, <1>3, <1>4, <1>5, <1>6, <1>7, Quiet DEF Asks, Opens, Working, Writes, After, plan

\* try_remove_file.
LEMMA RemoveSourceStep ==
  ASSUME Constants, IInv, UNCHANGED plan, RemoveSource
  PROVE  IInv'
<1> DEFINE f == job.f
<1>1. /\ op = "move" /\ job.at = "remove" /\ job \in Jobs /\ f \in Names /\ eraseList = <<>>
      /\ UNCHANGED <<dst, linklist, eraseList, marked, presses, others, first, answer, spoilt, leftover>>
  BY Known DEF RemoveSource, history, IInv, Placed, After
<1>2. PICK rs \in {"cont", "skip", "skipall", "abort"} :
         /\ Return("moved", rs) /\ faults' \in Nat /\ src' \in {src, src \ {f}}
         /\ ctx' = ctx \/ \E a \in Refusals : ctx' = [ctx EXCEPT !.skipAll = SkipAll(a)]
  BY CountsStay DEF RemoveSource, Refusals
<1>3. /\ job' \in Jobs /\ job'.f = f /\ job'.at = "moved" /\ job'.rs = rs
      /\ job'.status = job.status /\ job'.appending = job.appending
  BY <1>1, <1>2 DEF Return, Jobs, After
<1>4. ctx' \in Contexts /\ ctx'.doAppend = ctx.doAppend /\ ctx'.replace = ctx.replace
  <2>1. \A a : SkipAll(a) \in BOOLEAN
    BY Known DEF SkipAll, Contexts
  <2> QED
    BY <1>2, <2>1, Known DEF Contexts
<1>5. Covered(f) /\ Covered(f)'
  <2>1. Yields(f)
    BY <1>1 DEF Succeeded, Yields
  <2>2. Covered(f)
    BY <1>1, <2>1, Known
  <2>3. Covered(f)'
    BY <1>1, <1>3, <2>2, CoveredSame
  <2> QED
    BY <2>2, <2>3
<1>6. Typed' /\ Placed'
  BY <1>1, <1>2, <1>3, <1>4 DEF IInv, Typed, Placed, plan
<1>7. Appends'
  BY <1>1, <1>3, <1>4 DEF IInv, Appends, plan
<1>8. Asking' /\ Copying'
  BY <1>3 DEF Asking, Copying, Asks, Opens
<1>9. Kept(f)'
  <2>1. Kept(f)
    BY <1>1 DEF IInv
  <2> QED
    BY <1>1, <1>3, <2>1, KeptSame DEF plan
<1>10. /\ dst'[f] = None /\ f \notin spoilt' => first[f] = None /\ answer'[f] = None
       /\ answer'[f] \in {"reget", "again"} => first[f] # None /\ FileLen >= 2 /\ op = "copy"
  BY <1>1 DEF IInv, Firsts
<1>11. Erasing' /\ Ahead' /\ Firsts' /\ Leading' /\ Covers' /\ \A m \in Names : Kept(m)'
  BY <1>1, <1>2, <1>3, <1>5, <1>9, <1>10, StepOn DEF Asks, Opens, Working, Writes, After, plan
<1> QED
  BY <1>6, <1>7, <1>8, <1>11 DEF IInv

\* Another program makes a target.
LEMMA OtherCreatesStep ==
  ASSUME Constants, IInv, UNCHANGED plan, NEW n \in Names, OtherCreates(n)
  PROVE  IInv'
<1>1. /\ dst[n] = None /\ n \notin spoilt /\ others' = others + 1
      /\ dst' = [dst EXCEPT ![n] = Foreign(n)] /\ first' = [first EXCEPT ![n] = Foreign(n)]
      /\ UNCHANGED <<op, sameFs, budget, src, ctx, linklist, job, eraseList, marked, faults, presses,
                     answer, spoilt, leftover>>
  BY DEF OtherCreates, plan
<1>2. /\ dst \in [Names -> Texts \cup {None}] /\ first \in [Names -> Texts \cup {None}]
      /\ others \in Nat /\ job \in Jobs
  BY DEF IInv, Typed
<1>3. /\ Foreign(n) \in Texts /\ Foreign(n) # None /\ dst'[n] = Foreign(n) /\ first'[n] = Foreign(n)
      /\ dst' \in [Names -> Texts \cup {None}] /\ first' \in [Names -> Texts \cup {None}]
      /\ \A m \in Names : m # n => dst'[m] = dst[m] /\ first'[m] = first[m]
      /\ first[n] = None /\ answer[n] = None
  BY <1>1, <1>2, TextIs, TextsAre DEF IInv, Firsts
<1>4. Typed' /\ Placed' /\ Erasing'
  BY <1>1, <1>2, <1>3 DEF IInv, Typed, Placed, Erasing
<1>5. Ahead'
  <2>1. \A m \in Names : dst[m] = first[m] => dst'[m] = first'[m]
    BY <1>3
  <2>2. \A m : (Listed(m)' <=> Listed(m)) /\ (Untried(m)' <=> Untried(m)) /\ (Untouched(m)' <=> Untouched(m))
    BY <1>1 DEF Listed, Untried, Untouched
  <2> QED
    BY <1>1, <2>1, <2>2 DEF IInv, Ahead
<1>6. Firsts'
  <2> SUFFICES ASSUME NEW m \in Names
               PROVE  /\ first'[m] \in {None, Old(m), Foreign(m)}
                      /\ dst'[m] = None /\ m \notin spoilt => first'[m] = None /\ answer[m] = None
                      /\ answer[m] \in {"reget", "again"} => first'[m] # None /\ FileLen >= 2 /\ op = "copy"
    BY <1>1 DEF Firsts
  <2>1. CASE m = n
    BY <1>3, <2>1 DEF Constants, Replaces
  <2>2. CASE m # n
    BY <1>3, <2>2 DEF IInv, Firsts
  <2> QED
    BY <2>1, <2>2
<1>7. Leading'
  BY <1>1 DEF IInv, Leading
<1>8. \A m \in Names : Covered(m) => Covered(m)'
  <2>1. \A m \in Names : dst[m] # None => m # n
    BY <1>1
  <2> QED
    BY <1>1, <1>3, <2>1, CoveredSame, NamesAre
<1>9. Covers'
  <2>1. \A m : Yields(m)' <=> Yields(m)
    BY <1>1 DEF Yields, Listed, Succeeded
  <2> QED
    BY <1>8, <2>1 DEF IInv, Covers
<1>10. Appends'
  BY <1>1 DEF IInv, Appends
<1>11. Asking'
  <2>1. job.at \in Asks \cup Opens => job.f \in Names
    BY DEF IInv, Placed, Working
  <2>2. CASE job.f = n
    BY <1>1, <1>3, <2>2 DEF IInv, Asking
  <2>3. CASE job.f \in Names /\ job.f # n
    BY <1>1, <1>3, <2>3 DEF IInv, Asking
  <2>4. CASE job.at \notin Asks \cup Opens
    BY <1>1, <2>4 DEF Asking, Asks, Opens
  <2> QED
    BY <2>1, <2>2, <2>3, <2>4
<1>12. Copying'
  <2>1. CASE job.at \notin Writes
    BY <1>1, <2>1 DEF Copying, Writes
  <2>2. CASE job.at \in Writes
    <3> DEFINE f == job.f
    <3>1. f \in Names /\ job'.f = f
      BY <1>1, <2>2 DEF IInv, Placed, Working
    <3>2. job.at = "copy" => Begun(f)'
      <4> SUFFICES ASSUME job.at = "copy"
                   PROVE  Begun(f)'
        OBVIOUS
      <4>1. Begun(f)
        BY DEF IInv, Copying
      <4>2. dst'[f] = dst[f]
        BY <1>1, <1>3, <3>1, <4>1 DEF Begun
      <4> QED
        BY <1>1, <3>1, <4>1, <4>2 DEF Begun, Last
    <3>3. Done(f) => Done(f)'
      <4> SUFFICES ASSUME Done(f)
                   PROVE  Done(f)'
        OBVIOUS
      <4>1. dst[f] # None
        BY DEF Done
      <4>2. dst'[f] = dst[f] /\ first'[f] = first[f] /\ answer'[f] = answer[f]
        BY <1>1, <1>3, <3>1, <4>1
      <4> QED
        BY <3>1, <4>2, CompleteSame
    <3>4. dst[f] # None => dst'[f] # None
      BY <1>1, <1>3, <3>1
    <3> QED
      BY <1>1, <3>1, <3>2, <3>3, <3>4 DEF IInv, Copying
  <2> QED
    BY <2>1, <2>2
<1>13. ASSUME NEW m \in Names
       PROVE  Kept(m)'
  <2>1. CASE m = n
    <3>1. IsPrefixOf(Foreign(n), Foreign(n))
      BY <1>3, TextsAre, PrefixSelf
    <3>2. dst'[n] # None /\ IsPrefixOf(first'[n], dst'[n])
      BY <1>3, <3>1
    <3> QED
      BY <2>1, <3>2 DEF Kept, IsPrefixOf
  <2>2. CASE m # n
    <3>1. Kept(m)
      BY DEF IInv
    <3> QED
      BY <1>1, <1>3, <2>2, <3>1, KeptSame
  <2> QED
    BY <2>1, <2>2
<1> QED
  BY <1>4, <1>5, <1>6, <1>7, <1>9, <1>10, <1>11, <1>12, <1>13 DEF IInv

-----------------------------------------------------------------------------
(* The invariant holds in every behaviour.                                 *)

\* At first nothing is touched.
LEMMA InitInv ==
  ASSUME Constants, Init
  PROVE  IInv
<1>1. PICK T \in SUBSET Names : dst = [n \in Names |-> IF n \in T THEN Old(n) ELSE None]
  BY DEF Init
<1>2. /\ dst \in [Names -> Texts \cup {None}]
      /\ \A n \in Names : dst[n] \in {None, Old(n)}
  BY <1>1, TextIs
<1>3. /\ src = Names /\ marked = Names /\ eraseList = <<>> /\ spoilt = {} /\ first = dst
      /\ linklist = [n \in Names |-> None] /\ answer = [n \in Names |-> None]
      /\ ctx = [skipAll |-> FALSE, doAppend |-> FALSE, reget |-> 1, replace |-> "yes"]
      /\ op \in {"copy", "move", "dir"} /\ sameFs \in BOOLEAN /\ budget \in Budgets
      /\ job = Idle /\ faults = 0 /\ presses = 0 /\ others = 0 /\ leftover = FALSE
  BY DEF Init
<1>4. /\ job \in Jobs /\ job.at = "next" /\ job.f = 0 /\ ~job.appending
  <2>1. 0 \in 0..Cardinality(Names) /\ 0 \in 0..FileLen
    BY NamesAre
  <2> QED
    BY <1>3, <2>1 DEF Idle, Jobs, Ends
<1>5. ctx \in Contexts
  BY <1>3 DEF Contexts, Replaces
<1>6. Typed
  <2>1. linklist \in [Names -> Names \cup {None}]
        /\ answer \in [Names -> (Replaces \ {"no", "none"}) \cup {"again", None}]
    BY <1>3
  <2>2. eraseList \in Seq(Names) /\ first \in [Names -> Texts \cup {None}]
    BY <1>2, <1>3
  <2>3. src \subseteq Names /\ marked \subseteq Names /\ spoilt \subseteq Names
    BY <1>3
  <2> QED
    BY <1>2, <1>3, <1>4, <1>5, <2>1, <2>2, <2>3 DEF Typed
<1>7. Placed
  BY <1>3, <1>4 DEF Placed, Working, Writes, After, Asks, Opens
<1>8. Len(eraseList) = 0 /\ \A n : ~Listed(n)
  BY <1>3 DEF Listed
<1>9. Erasing
  BY <1>3, <1>8 DEF Erasing
<1>10. Ahead
  BY <1>3, <1>4, <1>8 DEF Ahead, After
<1>11. Firsts
  BY <1>2, <1>3 DEF Firsts, Constants, Replaces
<1>12. Leading
  BY <1>3 DEF Leading
<1>13. Covers
  BY <1>3, <1>4, <1>8 DEF Covers, Yields, Succeeded
<1>14. Appends
  BY <1>3, <1>4 DEF Appends
<1>15. Asking /\ Copying
  BY <1>4 DEF Asking, Copying, Asks, Opens
<1>16. ASSUME NEW n \in Names
       PROVE  Kept(n)
  <2>1. dst[n] # None => IsPrefixOf(dst[n], dst[n])
    <3>1. dst[n] # None => dst[n] \in Seq(Blocks)
      BY <1>2, TextsAre
    <3> QED
      BY <3>1, PrefixSelf
  <2> QED
    BY <1>3, <2>1 DEF Kept
<1> QED
  BY <1>6, <1>7, <1>9, <1>10, <1>11, <1>12, <1>13, <1>14, <1>15, <1>16 DEF IInv

\* Every step keeps the invariant.
LEMMA NextInv ==
  ASSUME Constants, IInv, [Next]_vars
  PROVE  IInv'
<1>1. CASE UNCHANGED vars
  <2>1. UNCHANGED <<op, sameFs, budget, src, dst, ctx, linklist, job, eraseList, marked, faults,
                    presses, others, first, answer, spoilt, leftover>>
    BY <1>1 DEF vars
  <2>2. \A n : Done(n)' <=> Done(n)
    BY <2>1, CompleteSame
  <2>3. Typed' /\ Placed' /\ Erasing' /\ Ahead' /\ Firsts' /\ Leading'
    BY <2>1 DEF IInv, Typed, Placed, Erasing, Ahead, Firsts, Leading, Listed, Untried, Untouched
  <2>4. Appends' /\ Asking'
    BY <2>1 DEF IInv, Appends, Asking
  <2>5. Copying'
    BY <2>1, <2>2 DEF IInv, Copying, Begun, Last
  <2>6. \A n \in Names : Kept(n)'
    BY <2>1, KeptSame DEF IInv
  <2>7. Covers'
    BY <2>1, <2>2 DEF IInv, Covers, Covered, Yields, LinkedTo, Listed, Succeeded
  <2> QED
    BY <2>3, <2>4, <2>5, <2>6, <2>7 DEF IInv
<1>2. CASE Next
  <2>1. UNCHANGED plan
    BY <1>2 DEF Next
  <2>2. ASSUME Step
        PROVE  IInv'
    BY <2>1, <2>2, NextFileStep, OneFileDoneStep, AllDoneStep, ChildDoneStep, DirCopiedStep,
       EraseNextStep, DirMovedStep, MoveFileStep, MoveCopiedStep, RemoveSourceStep, ExamineStep,
       LinksStep, OpenSourceStep, OpenTargetStep, CopyBlockStep, EndOfFileStep, CloseSourceStep,
       CloseTargetStep, FinishStep, RetryStep DEF Step
  <2>3. ASSUME NEW n \in Names, OtherCreates(n)
        PROVE  IInv'
    BY <2>1, <2>3, OtherCreatesStep
  <2> QED
    BY <1>2, <2>2, <2>3 DEF Next
<1> QED
  BY <1>1, <1>2

\* So it holds in every behaviour.
LEMMA AlwaysIInv ==
  ASSUME Constants
  PROVE  Spec => []IInv
<1>1. Init => IInv
  BY InitInv
<1>2. IInv /\ [Next]_vars => IInv'
  BY NextInv
<1> QED
  BY <1>1, <1>2, PTL DEF Spec

-----------------------------------------------------------------------------
(* The theorems.                                                           *)

\* The variables have their types, and a file that is still to be erased is there.
THEOREM TypeCorrect ==
  ASSUME Constants
  PROVE  Spec => []TypeOK
<1>1. IInv => TypeOK
  <2> SUFFICES ASSUME IInv
               PROVE  TypeOK
    OBVIOUS
  <2>1. Typed /\ \A i \in 1..Len(eraseList) : eraseList[i] \in src
    BY DEF IInv, Erasing
  <2> QED
    BY <2>1 DEF TypeOK, Typed, Contexts, Jobs
<1> QED
  BY <1>1, AlwaysIInv, PTL

\* A name that is linked to one whose text is whole at the target is whole there.
LEMMA LinkedIsComplete ==
  ASSUME Constants, IInv, NEW n \in Names, LinkedTo(n, linklist[Inode(n)])
  PROVE  LET m == linklist[Inode(n)] IN
         /\ m \in Names /\ m # n /\ Inode(m) = Inode(n) /\ (Done(m) => Done(n))
         /\ ~LinkedTo(m, linklist[Inode(m)])
<1> DEFINE m == linklist[Inode(n)]
<1>1. m # None /\ m < n /\ dst[n] = dst[m] /\ answer[n] \notin {"reget", "again"} /\ Inode(n) \in Names
  BY NamesAre DEF LinkedTo
<1>2. m \in Names /\ Inode(m) = Inode(n) /\ answer[m] \notin {"reget", "again"} /\ m \in Nat /\ n \in Nat
  BY <1>1, NamesAre DEF IInv, Typed, Leading
<1> HIDE DEF m
<1>3. Whole(m) = Whole(n)
  BY <1>2 DEF Whole
<1>4. Done(m) => Done(n)
  BY <1>1, <1>2, <1>3 DEF Done
<1>5. m # n /\ ~(m < m)
  BY <1>1, <1>2
<1>6. linklist[Inode(m)] = m
  BY <1>2 DEF m
<1> QED
  BY <1>2, <1>4, <1>5, <1>6 DEF m, LinkedTo

\* What is done is complete, but for the end of a file that a Reget given for another
\* put behind what was at its target; its source is still there.
LEMMA DoneIs ==
  ASSUME IInv, NEW n \in Names
  PROVE  /\ answer[n] # "again" => (Done(n) <=> Complete(n))
         /\ answer[n] = "again" => n \in src
<1>1. answer[n] # "again" => (Done(n) <=> Complete(n))
  BY DEF Done, Complete
<1>2. answer[n] = "again" => n \in src
  BY DEF IInv, Firsts, Placed
<1> QED
  BY <1>1, <1>2

\* Whenever the process dies, the text of every file is in the source or whole at the
\* target, but for those of which an error was passed over.
THEOREM NothingIsLost ==
  ASSUME Constants
  PROVE  Spec => []NothingLost
<1>1. IInv => NothingLost
  <2> SUFFICES ASSUME IInv, NEW n \in Names
               PROVE  \/ Done(n) \/ \E m \in src : Inode(m) = Inode(n)
                      \/ \E m \in spoilt : Inode(m) = Inode(n)
    BY DoneIs DEF NothingLost
  <2>1. \A k \in Names : k \in src \/ Done(k) \/ k \in spoilt \/ LinkedTo(k, linklist[Inode(k)])
    BY DEF IInv, Covers, Covered, Yields
  <2>2. CASE LinkedTo(n, linklist[Inode(n)])
    <3> DEFINE m == linklist[Inode(n)]
    <3>1. /\ m \in Names /\ Inode(m) = Inode(n) /\ (Done(m) => Done(n))
          /\ ~LinkedTo(m, linklist[Inode(m)])
      BY <2>2, LinkedIsComplete
    <3> HIDE DEF m
    <3> QED
      BY <2>1, <3>1
  <2> QED
    BY <2>1, <2>2
<1> QED
  BY <1>1, AlwaysIInv, PTL

\* What a target had before stays at its beginning, unless the user said to replace it.  It
\* is appended to only at the user's word for it; or when an append asked for an earlier
\* file was never begun, or a Reget given for one was taken once more.
THEOREM TargetsAreKept ==
  ASSUME Constants
  PROVE  Spec => []TargetKept
<1>1. IInv => TargetUnharmed
  BY DEF IInv, Kept, TargetUnharmed
<1>2. IInv => AppendIsAsked
  BY DEF IInv, Appends, AppendIsAsked, WasAsked
<1>3. IInv => TargetKept
  BY <1>1, <1>2 DEF TargetKept
<1> QED
  BY <1>3, AlwaysIInv, PTL

\* A file that lost its mark is whole at the target, or an error of it was passed over,
\* or it is linked to the target of a name whose own copy failed, or nobody was asked
\* before its end was put behind what was at the target.
THEOREM UnmarkedAreDone ==
  ASSUME Constants
  PROVE  Spec => []UnmarkedIsDone
<1>1. IInv => UnmarkedIsDone
  <2> SUFFICES ASSUME IInv, NEW n \in Names \ marked, op # "dir"
               PROVE  \/ Done(n) \/ n \in spoilt
                      \/ LET m == linklist[Inode(n)] IN m \notin {None, n} /\ ~Complete(m)
    BY DoneIs DEF UnmarkedIsDone
  <2>1. Done(n) \/ n \in spoilt \/ LinkedTo(n, linklist[Inode(n)])
    BY DEF IInv, Covers, Covered, Yields
  <2>2. CASE LinkedTo(n, linklist[Inode(n)])
    <3> DEFINE m == linklist[Inode(n)]
    <3>1. m # None /\ m # n /\ m \in Names /\ (Done(m) => Done(n))
      BY <2>2, LinkedIsComplete DEF LinkedTo
    <3>2. answer[m] # "again"
      BY <2>2, <3>1, NamesAre DEF IInv, Leading
    <3> HIDE DEF m
    <3>3. Complete(m) => Done(n)
      BY <3>1, <3>2, DoneIs
    <3> QED
      BY <3>1, <3>3 DEF m
  <2> QED
    BY <2>1, <2>2
<1> QED
  BY <1>1, AlwaysIInv, PTL
=============================================================================
