------------------------------ MODULE UsReader ------------------------------
(***************************************************************************)
(* The receiving half of a Unix socket client (us_handle_reads and         *)
(* try_to_read_payload of renderer/unixsocket.c): frames are taken from a  *)
(* socket that never blocks, their payloads put together to packets, and   *)
(* packets handed to on_packet.  A frame is a header and its payload; in   *)
(* the stream, <<n, 0>> is the header of the n-th frame and <<n, i>> the   *)
(* i-th byte of its payload.                                               *)
(***************************************************************************)
EXTENDS Integers, Sequences, SequencesExt, FiniteSetsExt

CONSTANTS
  Frames,     \* the frames a peer may send: [op, frag, len]
  MaxFrames,  \* bound: frames the peer sends
  MaxPacket,  \* PCRDR_MAX_INMEM_PAYLOAD_SIZE
  Pieces,     \* a payload may arrive in several pieces
  MayFail     \* malloc, on_packet or the answer to a ping may fail

\* What the constants must be; the modules that instantiate this one assume it.
Constants ==
  /\ MaxFrames \in Nat /\ MaxPacket \in Nat /\ Pieces \in BOOLEAN /\ MayFail \in BOOLEAN
  /\ Frames \subseteq [op : {"text", "bin", "cont", "end", "ping", "pong", "close", "other"},
                       frag : Nat, len : Nat]

VARIABLES
  frames,     \* what the peer has sent, frame by frame
  flight,     \* the part of it that has not arrived
  kernel,     \* the part that has arrived and was not read
  eof,        \* the peer has closed its end
  life,       \* "open" or "closed"
  waiting,    \* US_WATING_FOR_PAYLOAD
  header,     \* the header of the frame being read
  packet,     \* the first sz_read bytes of the packet being read
  szPacket,   \* the size of its buffer; 0 when packet is NULL
  delivered   \* what on_packet was given

vars == <<frames, flight, kernel, eof, life, waiting, header, packet, szPacket, delivered>>
reader == <<waiting, header, packet, szPacket, delivered>>

-----------------------------------------------------------------------------
Data == {"text", "bin"}
NoHeader == [op |-> "none", frag |-> 0, len |-> 0]

Init ==
  /\ frames = <<>> /\ flight = <<>> /\ kernel = <<>> /\ eof = FALSE
  /\ life = "open" /\ waiting = FALSE /\ header = NoHeader
  /\ packet = <<>> /\ szPacket = 0 /\ delivered = <<>>

-----------------------------------------------------------------------------
(* The peer and the kernel.                                                *)

Bytes(n, f) == [i \in 1..(f.len + 1) |-> <<n, i - 1>>]

PeerSends(f) ==
  /\ life = "open" /\ ~eof /\ Len(frames) < MaxFrames
  /\ frames' = Append(frames, f)
  /\ flight' = flight \o Bytes(Len(frames'), f)
  /\ UNCHANGED <<kernel, eof, life, reader>>

PeerLeaves ==
  /\ life = "open" /\ ~eof
  /\ eof' = TRUE
  /\ UNCHANGED <<frames, flight, kernel, life, reader>>

\* A header arrives whole, and so does a payload unless Pieces.
Boundary(i) == i = Len(flight) \/ flight[i][2] = 0 \/ flight[i + 1][2] = 0

Arrive ==
  /\ life = "open"
  /\ \E i \in {j \in 1..Len(flight) : Pieces \/ Boundary(j)} :
       /\ kernel' = kernel \o SubSeq(flight, 1, i)
       /\ flight' = SubSeq(flight, i + 1, Len(flight))
  /\ UNCHANGED <<frames, eof, life, reader>>

-----------------------------------------------------------------------------
(* try_to_read_payload: one read of as many bytes as the payload has.      *)

Readable == life = "open" /\ (kernel # <<>> \/ (eof /\ flight = <<>>))

Got(h, k) == IF Len(k) < h.len THEN k ELSE SubSeq(k, 1, h.len)
Rest(h, k) == SubSeq(k, Len(Got(h, k)) + 1, Len(k))

\* Mutant: a continuation is read to the start of the buffer.
FilledFromStart(h, k) == Got(h, k)

\* What is in the packet once the payload is added to it.
Filled(h, k) == IF h.op \in Data THEN Got(h, k) ELSE packet \o Got(h, k)

\* A continuation needs a packet, and room in it.
Fits(h, sz) == h.op \in Data \/ (sz # 0 /\ Len(packet) + h.len <= sz)

\* The packet is whole.
Whole(h) == h.op = "end" \/ (h.op \in Data /\ h.frag = 0)

\* us_cleanup_client.
Close == life' = "closed" /\ UNCHANGED reader

\* on_packet, then the packet is freed; the client as well if it fails.
Deliver(bytes, h) ==
  /\ delivered' = Append(delivered, bytes)
  /\ life' \in {"open"} \cup {x \in {"closed"} : MayFail}
  /\ packet' = <<>> /\ szPacket' = 0 /\ waiting' = FALSE /\ header' = h

\* The payload of h is all there, for a buffer of sz bytes.
AddPayload(h, sz, k) ==
  /\ kernel' = Rest(h, k)
  /\ IF Whole(h) THEN Deliver(Filled(h, k), h)
     ELSE /\ packet' = Filled(h, k) /\ szPacket' = sz /\ waiting' = FALSE /\ header' = h
          /\ UNCHANGED <<life, delivered>>

\* It is not: what was read of it is counted nowhere.
AwaitPayload(h, sz, k) ==
  /\ kernel' = Rest(h, k)
  /\ waiting' = TRUE /\ header' = h /\ szPacket' = sz
  /\ packet' = IF h.op \in Data THEN <<>> ELSE packet
  /\ UNCHANGED <<life, delivered>>

-----------------------------------------------------------------------------
(* us_handle_reads.                                                        *)

\* The header that the next bytes are taken for, whatever they are.
Headers == IF kernel[1][2] = 0 THEN {frames[kernel[1][1]]} ELSE Frames

ReadHeader(h) ==
  /\ Readable /\ ~waiting /\ kernel # <<>> /\ h \in Headers
  /\ UNCHANGED <<frames, flight, eof>>

\* The size of the buffer of a packet that begins with h.
Size(h) == IF h.frag > h.len THEN h.frag ELSE h.len

\* The size of the buffer the payload of h goes to.
Buffer(h) == IF h.op \in Data THEN Size(h) ELSE szPacket

Acceptable(h) ==
  /\ h.len > 0
  /\ h.op \in Data => Size(h) <= MaxPacket
  /\ Fits(h, Buffer(h))

ReadFrame(h) ==
  /\ ReadHeader(h)
  /\ h.op \in Data \cup {"cont", "end"} /\ Acceptable(h)
  /\ IF Len(Tail(kernel)) >= h.len THEN AddPayload(h, Buffer(h), Tail(kernel))
                                   ELSE AwaitPayload(h, Buffer(h), Tail(kernel))

ReadControl(h) ==
  /\ ReadHeader(h)
  /\ h.op \in {"ping", "pong"}
  /\ kernel' = Tail(kernel) /\ header' = h
  /\ UNCHANGED <<life, waiting, packet, szPacket, delivered>>

\* A frame that ends the connection: refused, a close, an opcode nobody knows,
\* no memory for the packet, a ping that cannot be answered at once.
ReadBadFrame(h) ==
  /\ ReadHeader(h)
  /\ \/ h.op \in {"close", "other"}
     \/ h.op \in Data \cup {"cont", "end"} /\ ~Acceptable(h)
     \/ MayFail /\ h.op \in Data \cup {"ping"}
  /\ kernel' = Tail(kernel)
  /\ Close

\* The payload that was waited for.
ReadPayload ==
  /\ Readable /\ waiting
  /\ UNCHANGED <<frames, flight, eof>>
  /\ IF Len(kernel) >= header.len /\ Fits(header, szPacket)
     THEN AddPayload(header, szPacket, kernel)
     ELSE kernel' = Rest(header, kernel) /\ Close

\* End of file where a header should be.
ReadEnd ==
  /\ Readable /\ ~waiting /\ kernel = <<>>
  /\ UNCHANGED <<frames, flight, kernel, eof>>
  /\ Close

Next ==
  \/ \E f \in Frames : PeerSends(f) \/ ReadFrame(f) \/ ReadControl(f) \/ ReadBadFrame(f)
  \/ PeerLeaves \/ Arrive \/ ReadPayload \/ ReadEnd

Spec == Init /\ [][Next]_vars

-----------------------------------------------------------------------------
(* The reference: the packets that a sequence of frames stands for.        *)

Carriers == Data \cup {"cont", "end"}

\* Frames i..j are one packet.
Spans(i, j) ==
  /\ frames[i].op \in Data /\ i <= j
  /\ IF frames[i].frag = 0 THEN i = j ELSE i < j /\ frames[j].op = "end"
  /\ \A k \in (i + 1)..(j - 1) : frames[k].op \notin Data \cup {"end"}

PacketEnds == {j \in DOMAIN frames : \E i \in 1..j : Spans(i, j)}

PayloadOf(n) == IF frames[n].op \in Carriers THEN Tail(Bytes(n, frames[n])) ELSE <<>>

PacketAt(j) ==
  LET first == CHOOSE i \in 1..j : Spans(i, j)
  IN  FlattenSeq([k \in 1..(j - first + 1) |-> PayloadOf(first + k - 1)])

Expected ==
  LET ends == SetToSortSeq(PacketEnds, <)
  IN  [i \in DOMAIN ends |-> PacketAt(ends[i])]

-----------------------------------------------------------------------------
\* The types of the client's fields; the payload of a packet never runs over its
\* buffer, and the buffer never over the limit.
TypeOK ==
  /\ life \in {"open", "closed"} /\ waiting \in BOOLEAN /\ eof \in BOOLEAN
  /\ header \in Frames \cup {NoHeader}
  /\ szPacket \in 0..MaxPacket
  /\ Len(packet) <= szPacket

\* on_packet is given the packets the peer sent, in order, byte for byte (true
\* when each payload arrives in one piece).
PacketsAsSent == IsPrefix(delivered, Expected)

\* Once everything is read, every packet has been handed on: none waits for
\* input that is not needed.
NothingHeldBack ==
  life = "open" /\ kernel = <<>> /\ flight = <<>> => ~waiting /\ delivered = Expected

=============================================================================
