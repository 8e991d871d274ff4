------------------------------ MODULE UsWriter ------------------------------
(***************************************************************************)
(* The sending half of a Unix socket client (renderer/unixsocket.c): the   *)
(* list of blocks the kernel would not take, its byte count, the throttle, *)
(* the status bits, and the EPOLLOUT branch of check_server_on_idle that   *)
(* works the list off.  One client; a packet is a sequence of us_write     *)
(* calls, a header and a payload for each frame, and a byte is the pair of *)
(* its call and its place in the caller's buffer.                          *)
(***************************************************************************)
EXTENDS Integers, Sequences, SequencesExt

CONSTANTS
  HeaderLen,    \* sizeof (USFrameHeader)
  FrameMax,     \* PCRDR_MAX_FRAME_PAYLOAD_SIZE
  PacketSizes,  \* sizes of the packets sent
  Threshold,    \* SOCK_THROTTLE_THLD
  Capacity,     \* bytes the kernel holds for a peer that does not read
  MayFail,      \* malloc may fail in us_queue_data
  MaxCalls      \* bound: calls of us_write

\* What the constants must be; the modules that instantiate this one assume it.
Constants ==
  /\ HeaderLen \in Nat \ {0} /\ FrameMax \in Nat \ {0} /\ PacketSizes \subseteq Nat \ {0}
  /\ Threshold \in Nat \ {0} /\ Capacity \in Nat \ {0} /\ MaxCalls \in Nat
  /\ MayFail \in BOOLEAN

VARIABLES
  link,       \* the USClient and the socket under it
  life,       \* "open" or "freed"
  usedFreed   \* the event loop has read the client after it was freed

vars == <<link, life, usedFreed>>

-----------------------------------------------------------------------------
Bits == {"ERR", "CLOSE", "SENDING", "THROTTLING"}

\* A queued block: the bytes from..to of the buffer of one call.
BlockLen(b) == b.to - b.from + 1
BytesOf(b, n) == [j \in 1..n |-> <<b.call, b.from + j - 1>>]
AllBytes(b) == BytesOf(b, BlockLen(b))

Fresh == [status |-> {}, pending |-> <<>>, szPending |-> 0, armed |-> FALSE,
          calls |-> <<>>, failed |-> FALSE, wire |-> <<>>, room |-> Capacity, up |-> TRUE]

Init == link = Fresh /\ life = "open" /\ usedFreed = FALSE

\* The kernel takes n bytes of a block.
Take(s, b, n) == [s EXCEPT !.room = @ - n, !.wire = @ \o BytesOf(b, n)]
Broken(s) == [s EXCEPT !.status = {"ERR", "CLOSE"}, !.failed = TRUE]

-----------------------------------------------------------------------------
(* us_queue_data, us_write_data, us_write_pending, us_write: the sets of   *)
(* clients they may leave.                                                 *)

\* Mutant: the new block is taken off the count.
EnqueueSubtracts(s, b) ==
  {[s EXCEPT !.pending = Append(@, b), !.szPending = @ - BlockLen(b),
             !.status = @ \cup {"SENDING"}]}

Enqueue(s, b) ==
  LET sz == s.szPending + BlockLen(b)
  IN  {[s EXCEPT !.pending = Append(@, b), !.szPending = sz,
                 !.status = @ \cup {"SENDING"}
                              \cup {x \in {"THROTTLING"} : sz >= Threshold}]}
      \cup {f \in {[Broken(s) EXCEPT !.pending = <<>>, !.szPending = 0,
                                     !.failed = s.failed]} : MayFail}

\* on_pending asks epoll for EPOLLOUT.
Arm(s) == [s EXCEPT !.armed = @ \/ "SENDING" \in s.status]

\* Mutant: the whole buffer is queued, whatever was sent of it.
WriteDataAgain(s, b) ==
  LET n == IF BlockLen(b) < s.room THEN BlockLen(b) ELSE s.room
  IN  IF ~s.up THEN {Broken(s)}
      ELSE IF n = BlockLen(b) THEN {Take(s, b, n)}
      ELSE {Arm(q) : q \in Enqueue([Take(s, b, n) EXCEPT !.failed = n = 0], b)}

\* Mutant: nobody watches for room.
WriteDataUnwatched(s, b) ==
  LET n == IF BlockLen(b) < s.room THEN BlockLen(b) ELSE s.room
      rest == [b EXCEPT !.from = IF n = 0 THEN @ - 1 ELSE @ + n]
  IN  IF ~s.up THEN {Broken(s)}
      ELSE IF n = BlockLen(b) THEN {Take(s, b, n)}
      ELSE Enqueue([Take(s, b, n) EXCEPT !.failed = n = 0], rest)

\* One write(2).  EAGAIN makes bytes -1, and buffer + bytes, len - bytes name
\* one byte more than the caller gave, the one in front of the buffer.
WriteData(s, b) ==
  LET n == IF BlockLen(b) < s.room THEN BlockLen(b) ELSE s.room
      rest == [b EXCEPT !.from = IF n = 0 THEN @ - 1 ELSE @ + n]
  IN  IF ~s.up THEN {Broken(s)}
      ELSE IF n = BlockLen(b) THEN {Take(s, b, n)}
      ELSE {Arm(q) : q \in Enqueue([Take(s, b, n) EXCEPT !.failed = n = 0], rest)}

\* One turn of the loop of us_write_pending.  A block sent in part ends the
\* loop before its bytes are taken off sz_pending.
FlushBlock(acc, b) ==
  LET s == acc.s
      n == IF BlockLen(b) < s.room THEN BlockLen(b) ELSE s.room
  IN  IF ~acc.go THEN [acc EXCEPT !.s.pending = Append(@, b)]
      ELSE IF ~s.up THEN [s |-> [Broken(s) EXCEPT !.pending = Append(@, b)], go |-> FALSE]
      ELSE IF n = BlockLen(b)
           THEN [acc EXCEPT !.s = [Take(s, b, n) EXCEPT !.szPending = @ - n]]
      ELSE [s |-> [Take(s, b, n) EXCEPT !.pending = Append(@, [b EXCEPT !.from = @ + n]),
                                        !.failed = n = 0],
            go |-> FALSE]

WritePending(s) ==
  FoldLeft(FlushBlock, [s |-> [s EXCEPT !.pending = <<>>, !.failed = FALSE], go |-> TRUE],
           s.pending).s

\* us_write.  At the threshold the queue is flushed and the new data is dropped.
UsWrite(s, call) ==
  LET t == [s EXCEPT !.calls = Append(@, call), !.failed = FALSE]
      b == [call |-> Len(t.calls), from |-> 1, to |-> call.len]
  IN  IF s.pending = <<>> THEN WriteData(t, b)
      ELSE IF s.szPending < Threshold THEN Enqueue(t, b)
      ELSE {WritePending(t)}

Header == [kind |-> "header", len |-> HeaderLen]
Payload(n) == [kind |-> "payload", len |-> n]

\* The calls that us_send_packet makes for a packet of sz bytes.
PacketCalls(sz) ==
  LET frames == (sz + FrameMax - 1) \div FrameMax
      size(i) == IF i < frames THEN FrameMax ELSE sz - (frames - 1) * FrameMax
  IN  [j \in 1..(2 * frames) |->
         IF j % 2 = 1 THEN Header ELSE Payload(size(j \div 2))]

SendPacket(s, sz) ==
  FoldLeft(LAMBDA S, call : UNION {UsWrite(q, call) : q \in S}, {s}, PacketCalls(sz))

-----------------------------------------------------------------------------
(* What an event does to a client: the client left, and whether it is.     *)

Open(s) == [s |-> s, life |-> "open"]
Freed(s) == [s |-> [s EXCEPT !.pending = <<>>, !.szPending = 0], life |-> "freed"]

Room(s, calls) == Len(s.calls) + Len(calls) <= MaxCalls

\* us_handle_reads: nothing to answer, a request that is answered, a ping, or
\* an input that ends the connection, announced by on_error or not.
HandleReads(s) ==
  {Open(s), Freed(s)}
  \cup UNION {{IF "ERR" \in q.status THEN Freed(q) ELSE Open(q) : q \in SendPacket(s, sz)} :
                sz \in {z \in PacketSizes : Room(s, PacketCalls(z))}}
  \cup UNION {{Freed(q) : q \in SendPacket(s, sz)} :
                sz \in {z \in PacketSizes : Room(s, PacketCalls(z))}}
  \cup {IF q.failed THEN Freed(q) ELSE Open(q) :
          q \in UNION {UsWrite(s, h) : h \in {x \in {Header} : Room(s, <<x>>)}}}

\* Mutant: US_SENDING is never cleared.
HandleWritesKeepsSending(s) ==
  LET f == WritePending(s)
  IN  IF "CLOSE" \in f.status /\ "SENDING" \notin f.status THEN Freed(f) ELSE Open(f)

\* us_handle_writes, then EPOLL_CTL_MOD when nothing is left to send.
HandleWrites(s) ==
  LET f == WritePending(s)
      status == f.status \ {x \in {"SENDING"} : f.pending = <<>>}
      left == [f EXCEPT !.status = status]
  IN  IF "CLOSE" \in status /\ "SENDING" \notin status THEN Freed(left)
      ELSE Open([left EXCEPT !.armed = "SENDING" \in status \/ "CLOSE" \in status])

Writable == link.armed /\ (link.room > 0 \/ ~link.up)

\* One epoll event of the client, with EPOLLIN, EPOLLOUT or both.  Whatever
\* frees the client, the rest of the branch goes on with it.
Event(in) ==
  /\ life = "open"
  /\ in \/ Writable
  /\ \E r \in (IF in THEN HandleReads(link) ELSE {Open(link)}) :
       IF r.life = "freed" \/ ~Writable
       THEN /\ link' = r.s /\ life' = r.life
            /\ usedFreed' = (usedFreed \/ (r.life = "freed" /\ Writable))
       ELSE LET w == HandleWrites(r.s)
            IN  /\ link' = w.s /\ life' = w.life
                /\ usedFreed' = (usedFreed \/ w.life = "freed")

\* us_ping_client by check_no_responding_endpoints, which ignores its result.
Ping ==
  /\ life = "open"
  /\ Room(link, <<Header>>)
  /\ link' \in UsWrite(link, Header)
  /\ UNCHANGED <<life, usedFreed>>

\* A timer or the shutdown removes the client.
Drop ==
  /\ life = "open"
  /\ link' = Freed(link).s /\ life' = "freed"
  /\ UNCHANGED usedFreed

PeerReads ==
  /\ life = "open" /\ link.up
  /\ \E n \in 1..(Capacity - link.room) : link' = [link EXCEPT !.room = @ + n]
  /\ UNCHANGED <<life, usedFreed>>

PeerLeaves ==
  /\ life = "open" /\ link.up
  /\ link' = [link EXCEPT !.up = FALSE]
  /\ UNCHANGED <<life, usedFreed>>

Next == (\E in \in BOOLEAN : Event(in)) \/ Ping \/ Drop \/ PeerReads \/ PeerLeaves

Spec == Init /\ [][Next]_vars

\* epoll reports a writable descriptor until it is served; the peer reads on.
FairSpec == Spec /\ WF_vars(Event(FALSE)) /\ WF_vars(PeerReads)

-----------------------------------------------------------------------------
Block == [call : 1..MaxCalls, from : 0..(HeaderLen + FrameMax),
          to : 1..(HeaderLen + FrameMax)]

\* The types of the client's fields.
TypeOK ==
  /\ link.status \subseteq Bits
  /\ \A i \in DOMAIN link.pending : link.pending[i] \in Block
  /\ link.szPending \in Nat
  /\ link.armed \in BOOLEAN /\ link.up \in BOOLEAN /\ link.failed \in BOOLEAN
  /\ link.room \in 0..Capacity
  /\ life \in {"open", "freed"} /\ usedFreed \in BOOLEAN

Unsent(s) == FlattenSeq([i \in DOMAIN s.pending |-> AllBytes(s.pending[i])])
Stream(s) == s.wire \o Unsent(s)
Healthy == life = "open" /\ "ERR" \notin link.status

\* Each call is sent or queued whole and in its place, or dropped whole: in what
\* was sent and what waits, no byte of a buffer is missing, repeated or out of
\* order (the byte in front of a buffer, number 0, is allowed here).
WholeInOrder ==
  LET stream == Stream(link)
      calls == {stream[i][1] : i \in DOMAIN stream}
  IN  Healthy =>
        /\ \A i \in 1..(Len(stream) - 1) :
             LET x == stream[i]
                 y == stream[i + 1]
             IN  \/ y[1] = x[1] /\ y[2] = x[2] + 1
                 \/ y[1] > x[1] /\ y[2] \in {0, 1} /\ x[2] = link.calls[x[1]].len
        /\ stream # <<>> => /\ stream[1][2] \in {0, 1}
                            /\ Last(stream)[2] = link.calls[Last(stream)[1]].len

\* Data that waits is watched for: EPOLLOUT is asked for and US_SENDING is set,
\* or the connection is about to end.
QueuedIsWatched ==
  Healthy /\ link.pending # <<>> => link.armed /\ "SENDING" \in link.status

\* sz_pending, a size_t, never falls below the bytes that wait: it cannot wrap.
CountCovers == life = "open" => link.szPending >= Len(Unsent(link))

\* What waits is sent and epoll is told to stop asking, if the peer keeps reading.
AllSent == (~link.armed /\ link.pending = <<>>) \/ life = "freed" \/ ~link.up
Drained == link.armed ~> AllSent

-----------------------------------------------------------------------------
(* What the comments of unixsocket.c say and the code does not do.         *)

\* us_write_data: "did not send all of it... buffer it for a later attempt".
OnlyGivenBytes == \A i \in DOMAIN link.wire : link.wire[i][2] # 0

\* us_handle_writes: "<0: socket closed".
FreedNotUsed == ~usedFreed
=============================================================================
