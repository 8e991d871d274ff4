---------------------------- MODULE NameRegistry ----------------------------
(***************************************************************************)
(* What the renderer promises its clients about endpoint names, with no    *)
(* sockets, lists, trees or counters: a name such as @localhost/app/runner *)
(* is held by at most one connected client, a client holds at most one     *)
(* name, and a name passes from one client to another only by being free   *)
(* in between.  RdrServer implements this specification.                   *)
(***************************************************************************)
CONSTANTS Names, Clients, None

VARIABLES
  connected,  \* the clients the renderer talks to
  holder      \* [Names -> Clients \cup {None}]: who holds each name

vars == <<connected, holder>>

HeldBy(c) == {n \in Names : holder[n] = c}

Init == connected = {} /\ holder = [n \in Names |-> None]

Join(c) ==
  /\ c \notin connected
  /\ connected' = connected \cup {c}
  /\ UNCHANGED holder

\* A connected client that holds nothing takes a free name.
Claim(c, n) ==
  /\ c \in connected
  /\ HeldBy(c) = {}
  /\ holder[n] = None
  /\ holder' = [holder EXCEPT ![n] = c]
  /\ UNCHANGED connected

\* Clients leave (or are dropped) and give up what they hold, at once.
Leave(C) ==
  /\ C # {} /\ C \subseteq connected
  /\ connected' = connected \ C
  /\ holder' = [n \in Names |-> IF holder[n] \in C THEN None ELSE holder[n]]

Next ==
  \/ \E c \in Clients : Join(c)
  \/ \E c \in Clients, n \in Names : Claim(c, n)
  \/ \E C \in SUBSET Clients : Leave(C)

Spec == Init /\ [][Next]_vars

TypeOK ==
  /\ connected \subseteq Clients
  /\ holder \in [Names -> Clients \cup {None}]

\* Only a connected client holds a name, and it holds no second one.
HoldersConnected ==
  /\ \A n \in Names : holder[n] # None => holder[n] \in connected
  /\ \A c \in Clients : \A m, n \in HeldBy(c) : m = n
=============================================================================
