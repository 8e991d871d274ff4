------------------------------- MODULE WsLink -------------------------------
(***************************************************************************)
(* One web socket client after its handshake (renderer/websocket.c): the   *)
(* queue of bytes the kernel would not take, the frames and messages read  *)
(* from the peer, and the status word that both halves write, with the     *)
(* epoll branch of check_server_on_idle.                                   *)
(*                                                                         *)
(* The peer keeps to RFC 6455.  A frame arrives as two header units and    *)
(* its payload, a unit at a time; the status constant WS_OK is the empty   *)
(* set.  Not modelled: TLS, the handshake, masks, frames of the wrong form *)
(* or size and invalid UTF-8 (all of them set WS_ERR | WS_CLOSE), and      *)
(* failing allocations.                                                    *)
(***************************************************************************)
EXTENDS Integers, Sequences, SequencesExt

CONSTANTS
    Sizes,          \* sizes of the frames the server sends
    Threshold,      \* SOCK_THROTTLE_THLD
    Capacity,       \* units the kernel holds for a peer that does not read
    MaxSends,       \* bound: frames sent by the server on its own
    MaxFrames,      \* bound: frames sent by the peer
    MaxQueue        \* bound: bytes queued, which a stream cut off within a payload adds to

Constants ==
    /\ Sizes \subseteq Nat \ {0} /\ Threshold \in Nat /\ Capacity \in Nat \ {0}
    /\ MaxSends \in Nat /\ MaxFrames \in Nat
    /\ MaxQueue \in Nat

VARIABLES
    c,          \* the WSClient and the server's side of its socket
    peer,       \* the peer: units under way, messages sent, what it has done
    sends       \* frames the server has sent on its own

vars == <<c, peer, sends>>

NoFrame == [got |-> 0, reading |-> TRUE, op |-> "none", fin |-> TRUE, len |-> 0]
NoMsg == [fragmented |-> FALSE, data |-> <<>>, buflen |-> 0]

(* frame and message are sequences of at most one record: <<>> is NULL.    *)
Init ==
    /\ c = [status |-> {}, queue |-> <<>>, armed |-> FALSE, room |-> Capacity,
            inp |-> <<>>, frame |-> <<>>, message |-> <<>>, open |-> TRUE,
            wire |-> <<>>, taken |-> <<>>, packets |-> <<>>]
    /\ peer = [air |-> <<>>, frames |-> 0, within |-> FALSE, said |-> <<>>, pong |-> FALSE,
               shut |-> FALSE, eof |-> FALSE]
    /\ sends = 0

Bytes(n, size) == [i \in 1..size |-> <<n, i>>]
SetStatus(d, s) == [d EXCEPT !.status = s]
Less(a, b) == IF a < b THEN a ELSE b

-----------------------------------------------------------------------------
(* ws_respond and what it calls.                                           *)

(* Nothing waits: send, and queue what is left; on_pending asks epoll for  *)
(* EPOLLOUT.  A peer that is gone breaks the pipe.                         *)
Broken(d) == SetStatus(d, {"ERR", "CLOSE"})
RespondData(d, b) ==
    LET n == Less(Len(b), d.room)
        rest == SubSeq(b, n + 1, Len(b))
        sent == [d EXCEPT !.room = @ - n, !.wire = @ \o SubSeq(b, 1, n), !.taken = @ \o b]
    IN  IF peer.eof THEN Broken(d)
        ELSE IF rest = <<>> THEN sent
        ELSE [sent EXCEPT !.queue = rest, !.status = @ \cup {"SENDING"}, !.armed = TRUE]

ClearQueue(d) ==
    LET s == d.status \ {"THROTTLING"}
    IN  [d EXCEPT !.queue = <<>>, !.status = IF {"CLOSE", "SENDING"} \subseteq s THEN {"CLOSE"} ELSE s]

RespondCache(d) ==
    LET n == Less(Len(d.queue), d.room)
        sent == [d EXCEPT !.room = @ - n, !.wire = @ \o SubSeq(d.queue, 1, n),
                          !.queue = SubSeq(@, n + 1, Len(@))]
    IN  IF peer.eof THEN Broken(d)
        ELSE IF sent.queue = <<>> THEN ClearQueue(sent) ELSE sent

ReallocSendBuf(d, b) ==
    [d EXCEPT !.queue = @ \o b, !.taken = @ \o b,
              !.status = @ \cup {x \in {"THROTTLING"} : Len(d.queue \o b) >= Threshold}]

(* A throttled client's new frame is dropped, and the queue tried instead. *)
Respond(d, b) ==
    IF d.queue = <<>> THEN RespondData(d, b)
    ELSE IF b # <<>> /\ "THROTTLING" \notin d.status THEN ReallocSendBuf(d, b)
    ELSE RespondCache(d)

(* ws_send_frame, for a control frame and for ws_error. *)
Control(d) == Respond(d, <<"control">>)

-----------------------------------------------------------------------------
(* Reading.  Recv gives the number of units read, 0 at the end of the      *)
(* stream and -1 when there is none yet, with the status it sets.          *)

Avail(d, need) == Less(need, Len(d.inp))
Recv(d, need) ==
    IF d.inp # <<>> THEN <<Avail(d, need), [d EXCEPT !.inp = SubSeq(@, Avail(d, need) + 1, Len(@))]>>
    ELSE IF peer.eof THEN <<0, SetStatus(d, {"ERR", "CLOSE"})>>
    ELSE <<-1, SetStatus(d, {"READING"})>>

FreeMessage(d) == [d EXCEPT !.message = <<>>]

(* ws_handle_text_bin: the fragments are joined; on_packet gets the whole, *)
(* and its result is not looked at.                                        *)
TextBin(d) ==
    LET f == d.frame[1]
        m == d.message[1]
    IN  IF m.fragmented /\ f.op # "cont" THEN Broken(d)
        ELSE IF ~f.fin THEN [d EXCEPT !.message = <<[m EXCEPT !.buflen = 0, !.fragmented = TRUE]>>]
        ELSE FreeMessage([d EXCEPT !.packets = Append(@, m.data)])

Ping(d) ==
    LET f == d.frame[1]
        m == d.message[1]
        answered == Control(d)
    IN  IF f.len = 0 THEN answered
        ELSE IF ~m.fragmented THEN FreeMessage(answered)
        ELSE [answered EXCEPT !.message = <<[m EXCEPT !.buflen = 0,
                                 !.data = SubSeq(@, 1, Len(@) - f.len)]>>]

Opcode(d) ==
    LET f == d.frame[1]
    IN  CASE f.op = "cont" -> IF d.message[1].fragmented THEN TextBin(d) ELSE Broken(d)
          [] f.op = "text" -> TextBin(d)
          [] f.op = "ping" -> Ping(d)
          [] f.op = "pong" -> FreeMessage(d)
          [] f.op = "close" -> Control(Broken(d))

(* ws_get_frm_payload.  The end of the stream counts as a short read here. *)
GetPayload(e) ==
    LET d == IF e.message = <<>> THEN [e EXCEPT !.message = <<NoMsg>>] ELSE e
        f == d.frame[1]
        m == d.message[1]
        need == f.len - m.buflen
        got == Recv(d, need)
        n == got[1]
        units == SubSeq(d.inp, 1, n)
        more == [got[2] EXCEPT !.message = <<[m EXCEPT !.buflen = @ + n, !.data = @ \o units]>>]
        Managed(x) == [Opcode(x) EXCEPT !.frame = <<>>]
    IN  IF need = 0 THEN Managed(d)
        ELSE IF n < 0 THEN got[2]
        ELSE IF n = 0 THEN SetStatus(Control(got[2]), {"READING"})
        ELSE IF n # need THEN SetStatus(more, {"READING"})
        ELSE Managed(more)

(* ws_get_frm_header: two units, the second of which tells what it is.     *)
GetHeader(e) ==
    LET d == IF e.frame = <<>> THEN [e EXCEPT !.frame = <<NoFrame>>] ELSE e
        f == d.frame[1]
        need == 2 - f.got
        got == Recv(d, need)
        n == got[1]
        last == d.inp[n]
    IN  IF n = -1 THEN got[2]
        ELSE IF n = 0 THEN Control(got[2])
        ELSE IF n # need
        THEN SetStatus([got[2] EXCEPT !.frame = <<[f EXCEPT !.got = @ + n]>>], {"READING"})
        ELSE SetStatus([got[2] EXCEPT !.frame = <<[last EXCEPT !.reading = FALSE]>>], {})

GetMessage(d) ==
    IF d.frame # <<>> /\ ~d.frame[1].reading THEN GetPayload(d)
    ELSE LET h == GetHeader(d)
         IN  IF h.frame # <<>> /\ ~h.frame[1].reading THEN GetPayload(h) ELSE h

-----------------------------------------------------------------------------
(* The event loop.                                                         *)

(* ws_cleanup_client. *)
Cleanup(d) == [d EXCEPT !.open = FALSE, !.armed = FALSE]

(* EPOLLIN: ws_handle_reads; a close waits while the client is SENDING.    *)
ReadEvent ==
    /\ c.open /\ (c.inp # <<>> \/ peer.eof) /\ Len(c.queue) < MaxQueue
    /\ LET d == GetMessage(c)
       IN  c' = IF "CLOSE" \in d.status /\ "SENDING" \notin d.status THEN Cleanup(d) ELSE d
    /\ UNCHANGED <<peer, sends>>

(* EPOLLOUT: ws_handle_writes, and epoll is asked no more for EPOLLOUT     *)
(* when the status is not SENDING.                                         *)
WriteEvent ==
    /\ c.open /\ c.armed /\ (c.room > 0 \/ peer.eof)
    /\ LET r == IF c.queue = <<>> THEN RespondData(c, <<>>) ELSE RespondCache(c)
           d == IF r.queue = <<>> THEN SetStatus(r, r.status \ {"SENDING"}) ELSE r
       IN  c' = IF "SENDING" \in d.status THEN d
                ELSE IF "CLOSE" \in d.status THEN Cleanup(d)
                ELSE [d EXCEPT !.armed = FALSE]
    /\ UNCHANGED <<peer, sends>>

(* ws_send_packet, by the server's own business. *)
SendPacket ==
    /\ c.open /\ sends < MaxSends
    /\ sends' = sends + 1
    /\ \E size \in Sizes : c' = Respond(c, Bytes(sends + 1, size))
    /\ UNCHANGED peer

-----------------------------------------------------------------------------
(* The peer.                                                               *)

Header(op, fin, len) ==
    [got |-> 2, reading |-> TRUE, op |-> op, fin |-> fin, len |-> len]
Send(op, fin, len) ==
    LET n == peer.frames + 1
        payload == [i \in 1..len |-> <<n, i>>]
        open == IF peer.within /\ op = "cont" THEN Last(peer.said) ELSE <<>>
        said == IF op = "text" THEN Append(peer.said, payload)
                ELSE IF op = "cont" THEN Append(Front(peer.said), open \o payload) ELSE peer.said
    IN  peer' = [peer EXCEPT !.air = @ \o <<"half", Header(op, fin, len)>> \o payload,
                             !.frames = n, !.said = said,
                             !.within = IF op \in {"text", "cont"} THEN ~fin ELSE @,
                             !.pong = @ \/ (op = "pong" /\ peer.within),
                             !.shut = op = "close"]

PeerSends ==
    /\ peer.frames < MaxFrames /\ ~peer.shut /\ ~peer.eof
    /\ \/ \E fin \in BOOLEAN, len \in {0, 2} :
             Send(IF peer.within THEN "cont" ELSE "text", fin, len)
       \/ \E op \in {"ping", "pong"}, len \in {0, 1} : Send(op, TRUE, len)
       \/ ~peer.within /\ Send("close", TRUE, 0)
    /\ UNCHANGED <<c, sends>>

Arrives ==
    /\ c.open /\ peer.air # <<>>
    /\ c' = [c EXCEPT !.inp = Append(@, Head(peer.air))]
    /\ peer' = [peer EXCEPT !.air = Tail(@)]
    /\ UNCHANGED sends

PeerReads ==
    /\ c.room < Capacity /\ ~peer.eof
    /\ c' = [c EXCEPT !.room = @ + 1]
    /\ UNCHANGED <<peer, sends>>

(* The peer goes away, with what it has not got out yet. *)
PeerCloses ==
    /\ ~peer.eof
    /\ peer' = [peer EXCEPT !.eof = TRUE, !.air = <<>>]
    /\ UNCHANGED <<c, sends>>

Next == \/ ReadEvent \/ WriteEvent \/ SendPacket
        \/ PeerSends \/ Arrives \/ PeerReads \/ PeerCloses

Spec == /\ Init /\ [][Next]_vars
        /\ WF_vars(ReadEvent) /\ WF_vars(WriteEvent) /\ WF_vars(PeerReads)

-----------------------------------------------------------------------------
(* Properties.                                                             *)

Bits == {"ERR", "CLOSE", "READING", "SENDING", "THROTTLING"}
TypeOK ==
    /\ c.status \subseteq Bits /\ c.room \in 0..Capacity
    /\ c.armed \in BOOLEAN /\ c.open \in BOOLEAN /\ Len(c.frame) <= 1 /\ Len(c.message) <= 1
    /\ (c.frame # <<>> => c.frame[1].got \in 0..2 /\ c.frame[1].len \in 0..2)
    /\ sends \in 0..MaxSends

(* What went over the wire and what waits is, byte for byte and in order,  *)
(* every frame that was taken: the status words that get lost never cut a  *)
(* frame or mix two.                                                       *)
FramesWhole == c.wire \o c.queue = c.taken

(* on_packet gets each message once, in order and with its fragments and   *)
(* nothing else, whatever control frames came between them and however the *)
(* stream was cut.                                                         *)
PacketsAsSent ==
    \A i \in 1..Len(c.packets) : i <= Len(peer.said) /\ c.packets[i] = peer.said[i]

(* The server gives up a peer that keeps to the protocol only after the    *)
(* peer closed or left, or sent a pong between two fragments.              *)
KeptUp == "CLOSE" \in c.status \/ ~c.open => peer.eof \/ peer.pong \/ peer.shut

(* A peer that has gone is noticed, unless it went within a payload.       *)
HasGone == peer.eof /\ c.open
Noticed == ~c.open \/ (c.frame # <<>> /\ ~c.frame[1].reading)
GoneIsNoticed == HasGone ~> Noticed

(* Bytes that wait are sent when the peer makes room: EPOLLOUT is asked    *)
(* for as long as there are any.                                           *)
QueuedIsWatched == c.open /\ c.queue # <<>> => c.armed

(* A connection that ended within a payload is closed like any other.      *)
EndIsNoticed == (peer.eof /\ c.open) ~> ~c.open
=============================================================================
