----------------------------- MODULE MCRenderer -----------------------------
(***************************************************************************)
(* The links and the documents of the renderer for TLC: the two halves of  *)
(* a Unix socket client; a web socket client, where "frames" has the       *)
(* frames of its peer, "answers" those of the server, "gone" a little of   *)
(* both; the windows of two clients and a file (RdrSession); the elements  *)
(* of one document (DomHandles); and the client purcsex (Purcsex).         *)
(* RdrSession and Purcsex are extended, so that the run checks their own   *)
(* properties.  The parts share nothing, so that each behaviour exercises  *)
(* one of them, and the states of a run are those of its parts, one after  *)
(* the other; an invariant of another part is looked at where that part    *)
(* moves.                                                                  *)
(***************************************************************************)
EXTENDS RdrSession, Purcsex

CONSTANTS HeaderLen, FrameMax, PacketSizes, Threshold, Capacity, MayFail, MaxCalls,
          MaxFrames, MaxPacket, Pieces, MaxQueue, x1, x2, x3, x4

VARIABLES link, life, usedFreed
VARIABLES frames, flight, kernel, eof, life2, waiting, header, packet, szPacket, delivered
VARIABLES c1, peer1, sends1, c2, peer2, sends2, c3, peer3, sends3
VARIABLE dom
VARIABLE part

writer == <<link, life, usedFreed>>
reader == <<frames, flight, kernel, eof, life2, waiting, header, packet, szPacket, delivered>>
frame == <<c1, peer1, sends1>>
answer == <<c2, peer2, sends2>>
gone == <<c3, peer3, sends3>>
links == <<writer, reader, frame, answer, gone>>
mcVars == <<links, vars, dom, purcsexVars, part>>

PeerFrame(op, frag, len) == [op |-> op, frag |-> frag, len |-> len]

\* Packets of one frame, packets in fragments, control frames, and the frames
\* that are refused: empty, too large, beyond the announced size, unknown.
AllFrames ==
  {PeerFrame("text", 0, 1), PeerFrame("bin", 0, 2), PeerFrame("text", 3, 2), PeerFrame("text", 0, 0),
   PeerFrame("bin", 0, 5), PeerFrame("cont", 0, 1), PeerFrame("end", 0, 1), PeerFrame("end", 0, 2),
   PeerFrame("ping", 0, 0), PeerFrame("other", 0, 0)}

Writer == INSTANCE UsWriter
Reader == INSTANCE UsReader WITH life <- life2, Frames <- AllFrames

Frames == INSTANCE WsLink WITH
    c <- c1, peer <- peer1, sends <- sends1, Sizes <- {1}, MaxSends <- 0, MaxFrames <- 3
Answers == INSTANCE WsLink WITH
    c <- c2, peer <- peer2, sends <- sends2, Sizes <- {1, 3}, Capacity <- 2, MaxSends <- 2,
    MaxFrames <- 1
Gone == INSTANCE WsLink WITH
    c <- c3, peer <- peer3, sends <- sends3, Sizes <- {1, 3}, Capacity <- 2, MaxSends <- 1,
    MaxFrames <- 1

\* Window 4 is x2's, the others x1's.
OwnerOf == [w \in Wins |-> IF w = 4 THEN x2 ELSE x1]

\* One element, two siblings, one in another that has no handle.
Shapes == {<<[h |-> h, up |-> 0]>> : h \in {x1, x2}}
            \cup {<<[h |-> x1, up |-> 0], [h |-> x2, up |-> 0]>>,
                  <<[h |-> None, up |-> 0], [h |-> x3, up |-> 1]>>,
                  <<[h |-> x2, up |-> 0], [h |-> x3, up |-> 1]>>}

ListsOf == {<<0>>, <<x1>>, <<x2>>, <<x3>>, <<x1, x3>>, <<x2, x1>>, <<x3, x2>>}

Dom == INSTANCE DomHandles WITH
    N <- 5, Handles <- {x1, x2, x3}, Once <- {x1, x2}, Fragments <- Shapes, Lists <- ListsOf,
    Lapses <- {}

\* x1 is a window, x2 a widget, and each takes a document.
TargetOf == [d \in {x3, x4} |-> IF d = x3 THEN x1 ELSE x2]

ASSUME WriterAssumption == Writer!Constants
ASSUME ReaderAssumption == Reader!Constants
ASSUME FramesAssumption == Frames!Constants
ASSUME AnswersAssumption == Answers!Constants
ASSUME GoneAssumption == Gone!Constants
ASSUME SessionAssumption == Constants
ASSUME DomAssumption == Dom!Constants
ASSUME ClientAssumption == PurcsexConstants

\* The renderer of a client that does not run.
Unused ==
    [inp |-> <<>>, out |-> <<>>, win |-> [w \in Windows |-> Null],
     doc |-> [w \in Windows |-> Null], parses |-> {}, events |-> 0]

MCInit ==
        /\ Writer!Init /\ Reader!Init /\ Frames!Init /\ Answers!Init /\ Gone!Init
        /\ Init /\ Dom!Init
        /\ \/ /\ part \in {"writer", "reader", "frames", "answers", "gone", "session", "lapses", "dom"}
              /\ cl = Blank /\ srv = Unused /\ hurt = [how |-> {}, docs |-> {}, whole |-> {}]
           \/ part = "client" /\ PurcsexInit

WriterStep == part = "writer" /\ Writer!Next
              /\ UNCHANGED <<reader, frame, answer, gone, vars, dom, purcsexVars, part>>
ReaderStep == part = "reader" /\ Reader!Next
              /\ UNCHANGED <<writer, frame, answer, gone, vars, dom, purcsexVars, part>>
FramesStep == part = "frames" /\ Frames!Next
              /\ UNCHANGED <<writer, reader, answer, gone, vars, dom, purcsexVars, part>>
AnswersStep == part = "answers" /\ Answers!Next
               /\ UNCHANGED <<writer, reader, frame, gone, vars, dom, purcsexVars, part>>
GoneStep == part = "gone" /\ Gone!Next
            /\ UNCHANGED <<writer, reader, frame, answer, vars, dom, purcsexVars, part>>
\* The windows without the lapses; and one window of each client with one lapse in each
\* behaviour, where the second is given whole documents only, and no file is open when a
\* request comes in between.
SessionStep == part = "session" /\ Next /\ slips' \cap Lapses = {}
               /\ UNCHANGED <<links, dom, purcsexVars, part>>
LapsesStep == part = "lapses" /\ Next /\ rdr'.has \subseteq {2, 4} /\ rdr'.parser[4] = None
              /\ ("box" \in slips' => \A f \in Files : rdr'.map[f] = None)
              /\ Cardinality(slips' \cap Lapses) <= 1
              /\ UNCHANGED <<links, dom, purcsexVars, part>>
DomStep == part = "dom" /\ Dom!Next /\ UNCHANGED <<links, vars, purcsexVars, part>>
ClientStep == part = "client" /\ PurcsexNext /\ UNCHANGED <<links, vars, dom, part>>

MCNext == WriterStep \/ ReaderStep \/ FramesStep \/ AnswersStep \/ GoneStep \/ SessionStep
          \/ LapsesStep \/ DomStep \/ ClientStep

\* What UsWriter's FairSpec assumes of epoll and the peer.
Flush == part = "writer" /\ Writer!Event(FALSE)
         /\ UNCHANGED <<reader, frame, answer, gone, vars, dom, purcsexVars, part>>
PeerReads == part = "writer" /\ Writer!PeerReads
             /\ UNCHANGED <<reader, frame, answer, gone, vars, dom, purcsexVars, part>>

\* What WsLink's Spec assumes.
Served == part = "gone" /\ Gone!ReadEvent
          /\ UNCHANGED <<writer, reader, frame, answer, vars, dom, purcsexVars, part>>
Written == part = "gone" /\ Gone!WriteEvent
           /\ UNCHANGED <<writer, reader, frame, answer, vars, dom, purcsexVars, part>>

\* What Purcsex's Spec assumes of the renderer and of the client's loop.
Serves == part = "client" /\ (Serve \/ Refuse) /\ UNCHANGED <<links, vars, dom, part>>
Takes == part = "client" /\ (Response \/ Event) /\ UNCHANGED <<links, vars, dom, part>>

\* A behaviour stays in its part, so that what one part assumes goes with what others do.
MCSpec ==
        /\ MCInit /\ [][MCNext]_mcVars
        /\ WF_mcVars(Flush \/ Served \/ Serves) /\ WF_mcVars(PeerReads \/ Written \/ Takes)

\* The types, see the modules.
TypesOK ==
    /\ part = "writer" => Writer!TypeOK
    /\ part = "reader" => Reader!TypeOK
    /\ part = "frames" => Frames!TypeOK
    /\ part = "answers" => Answers!TypeOK
    /\ part = "gone" => Gone!TypeOK
    /\ part \in {"session", "lapses"} => TypeOK
    /\ part = "dom" => Dom!TypeOK
    /\ part = "client" => PurcsexTypeOK

\* Calls and frames go out whole and in order, see UsWriter and WsLink.
WholeInOrder ==
    /\ part = "writer" => Writer!WholeInOrder
    /\ part = "frames" => Frames!FramesWhole
    /\ part = "answers" => Answers!FramesWhole

\* What waits is watched for, and the count covers it, see UsWriter.
QueuedIsWatched == part = "writer" => Writer!QueuedIsWatched /\ Writer!CountCovers

\* on_packet is given each packet and each message once and complete, no packet waits for
\* input that is not needed, see UsReader, and no peer that keeps to the protocol is given
\* up, see WsLink.
PacketsAsSent ==
    /\ part = "reader" => Reader!PacketsAsSent /\ Reader!NothingHeldBack
    /\ part = "frames" => Frames!PacketsAsSent /\ Frames!KeptUp
    /\ part = "answers" => Answers!PacketsAsSent /\ Answers!KeptUp

\* What waits is sent in the end, see UsWriter, and a peer that has gone is noticed, see
\* WsLink.  A behaviour stays in its part, so that one formula says both.
Drained ==
    \/ part = "writer" /\ link.armed
    \/ part = "gone" /\ Gone!HasGone
    ~>
    \/ part = "writer" /\ Writer!AllSent
    \/ part = "gone" /\ Gone!Noticed

\* Handles lead to elements that exist and carry them, every element with a handle of its
\* own is found, nothing freed is followed, and the entries on the screen are those of
\* elements that exist, see DomHandles.
MapSound == part = "dom" => Dom!MapAlive /\ Dom!OnceMapped /\ Dom!NoFault /\ Dom!ScreenAlive

\* Siblings keep their order, see DomHandles.
OrderKept == Dom!OrderKept
=============================================================================
