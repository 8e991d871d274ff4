--------------------------- MODULE RdrServerProofs ---------------------------
(***************************************************************************)
(* Proofs about RdrServer: the types, the pointers and tables, the         *)
(* counters, the timer that pings and drops, and the refinement of         *)
(* NameRegistry.                                                           *)
(***************************************************************************)
EXTENDS RdrServer, FiniteSetTheorems, FunctionTheorems, TLAPS

-----------------------------------------------------------------------------
(* The dangling list has at most one element, so the list operations of    *)
(* RdrServer are settled by two cases.                                     *)

LEMMA KeepNone == ASSUME NEW S PROVE Keep(<<>>, S) = <<>>
<1> DEFINE kept == {i \in DOMAIN <<>> : <<>>[i] \in S}
<1>1. kept = {}
  OBVIOUS
<1>2. Cardinality(kept) = 0
  BY <1>1, FS_EmptySet
<1>3. QED
  BY <1>2 DEF Keep

LEMMA KeepOne ==
  ASSUME NEW d, NEW S
  PROVE  Keep(<<d>>, S) = IF d \in S THEN <<d>> ELSE <<>>
<1> DEFINE s == <<d>>
           kept == {i \in DOMAIN s : s[i] \in S}
           Nth(k) == CHOOSE i \in kept : Cardinality({j \in kept : j <= i}) = k
<1>0. DOMAIN s = {1} /\ s[1] = d
  OBVIOUS
<1>1. CASE d \in S
  <2>1. kept = {1}
    BY <1>0, <1>1
  <2>2. Cardinality(kept) = 1
    BY <2>1, FS_Singleton
  <2>3. {j \in kept : j <= 1} = {1}
    BY <2>1
  <2>4. Cardinality({j \in kept : j <= 1}) = 1
    BY <2>3, FS_Singleton
  <2>5. Nth(1) = 1
    BY <2>1, <2>4
  <2>6. Keep(s, S) = [k \in 1..1 |-> s[Nth(k)]]
    BY <2>2 DEF Keep
  <2> HIDE DEF Nth, kept
  <2>7. Keep(s, S) = [k \in {1} |-> d]
    BY <2>5, <2>6, <1>0
  <2>8. QED
    BY <2>7, <1>1
<1>2. CASE d \notin S
  <2>1. kept = {}
    BY <1>0, <1>2
  <2>2. Cardinality(kept) = 0
    BY <2>1, FS_EmptySet
  <2>3. Keep(s, S) = [k \in 1..0 |-> s[CHOOSE i \in kept : Cardinality({j \in kept : j <= i}) = k]]
    BY <2>2 DEF Keep
  <2>4. QED
    BY <2>3, <1>2
<1>3. QED
  BY <1>1, <1>2

\* Storing always discards the old head, so the list never has two elements.
DanglingShort == Len(dangling) <= 1

LEMMA ZeroOrOne == \A n \in Nat : n <= 1 => n = 0 \/ n = 1
OBVIOUS

LEMMA DanglingCases ==
  ASSUME dangling \in Seq(Endpoints), DanglingShort
  PROVE  dangling = <<>> \/ \E d \in Endpoints : dangling = <<d>>
<1>1. CASE Len(dangling) = 0
  BY <1>1
<1>2. CASE Len(dangling) = 1
  <2>1. dangling[1] \in Endpoints /\ dangling = <<dangling[1]>>
    BY <1>2
  <2>2. QED
    BY <2>1
<1>3. Len(dangling) \in Nat
  OBVIOUS
<1>4. Len(dangling) = 0 \/ Len(dangling) = 1
  BY <1>3, ZeroOrOne DEF DanglingShort
<1>5. QED
  BY <1>1, <1>2, <1>4

LEMMA Empty ==
  ASSUME dangling = <<>>
  PROVE  dangling \in Seq(Endpoints) /\ DanglingShort /\ \A e : ~InDangling(e)
<1>1. dangling \in Seq(Endpoints)
  OBVIOUS
<1>2. DanglingShort
  BY DEF DanglingShort
<1>3. \A e : ~InDangling(e)
  BY DEF InDangling
<1>4. QED
  BY <1>1, <1>2, <1>3

LEMMA Single ==
  ASSUME NEW x \in Endpoints, dangling = <<x>>
  PROVE  dangling \in Seq(Endpoints) /\ DanglingShort /\ \A e : InDangling(e) <=> e = x
<1>1. dangling \in Seq(Endpoints)
  OBVIOUS
<1>2. DanglingShort
  BY DEF DanglingShort
<1>3. DOMAIN dangling = {1} /\ dangling[1] = x
  OBVIOUS
<1>4. \A e : InDangling(e) <=> e = x
  BY <1>3 DEF InDangling
<1>5. QED
  BY <1>1, <1>2, <1>4

LEMMA EmptyNext ==
  ASSUME dangling' = <<>>
  PROVE  dangling' \in Seq(Endpoints) /\ DanglingShort' /\ \A e : ~InDangling(e)'
<1>1. dangling' \in Seq(Endpoints)
  OBVIOUS
<1>2. DanglingShort'
  BY DEF DanglingShort
<1>3. \A e : ~InDangling(e)'
  BY DEF InDangling
<1>4. QED
  BY <1>1, <1>2, <1>3

LEMMA SingleNext ==
  ASSUME NEW x \in Endpoints, dangling' = <<x>>
  PROVE  dangling' \in Seq(Endpoints) /\ DanglingShort' /\ \A e : InDangling(e)' <=> e = x
<1>1. dangling' \in Seq(Endpoints)
  OBVIOUS
<1>2. DanglingShort'
  BY DEF DanglingShort
<1>3. DOMAIN dangling' = {1} /\ dangling'[1] = x
  OBVIOUS
<1>4. \A e : InDangling(e)' <=> e = x
  BY <1>3 DEF InDangling
<1>5. QED
  BY <1>1, <1>2, <1>4

LEMMA AfterKeep ==
  ASSUME dangling \in Seq(Endpoints), DanglingShort,
         NEW S, dangling' = Keep(dangling, S)
  PROVE  /\ dangling' \in Seq(Endpoints) /\ DanglingShort'
         /\ \A e : InDangling(e)' <=> InDangling(e) /\ e \in S
<1>1. CASE dangling = <<>>
  <2>1. dangling' = <<>>
    BY <1>1, KeepNone
  <2>2. QED
    BY <1>1, <2>1, Empty, EmptyNext
<1>2. ASSUME NEW d \in Endpoints, dangling = <<d>>
      PROVE  /\ dangling' \in Seq(Endpoints) /\ DanglingShort'
             /\ \A e : InDangling(e)' <=> InDangling(e) /\ e \in S
  <2>1. dangling' = IF d \in S THEN <<d>> ELSE <<>>
    BY <1>2, KeepOne
  <2>2. \A e : InDangling(e) <=> e = d
    BY <1>2, Single
  <2>3. CASE d \in S
    BY <2>1, <2>2, <2>3, SingleNext
  <2>4. CASE d \notin S
    BY <2>1, <2>2, <2>4, EmptyNext
  <2>5. QED
    BY <2>3, <2>4
<1>3. QED
  BY <1>1, <1>2, DanglingCases

LEMMA AfterStore ==
  ASSUME dangling \in Seq(Endpoints), DanglingShort,
         NEW x \in Endpoints, dangling' = StoreDangling(dangling, x)
  PROVE  /\ dangling' \in Seq(Endpoints) /\ DanglingShort'
         /\ \A e : InDangling(e)' <=> e = x
<1>1. CASE dangling = <<>>
  BY <1>1, SingleNext DEF StoreDangling
<1>2. ASSUME NEW d \in Endpoints, dangling = <<d>> PROVE dangling' = <<x>>
  <2>1. Tail(dangling) = <<>> /\ dangling # <<>>
    BY <1>2
  <2>2. dangling' = <<x>> \o <<>>
    BY <2>1 DEF StoreDangling
  <2>3. QED
    BY <2>2
<1>3. QED
  BY <1>1, <1>2, DanglingCases, SingleNext

LEMMA AfterTail ==
  ASSUME dangling \in Seq(Endpoints), DanglingShort,
         dangling' = IF dangling = <<>> THEN <<>> ELSE Tail(dangling)
  PROVE  /\ dangling' \in Seq(Endpoints) /\ DanglingShort'
         /\ \A e : ~InDangling(e)'
<1>1. ASSUME NEW d \in Endpoints, dangling = <<d>> PROVE dangling' = <<>>
  BY <1>1
<1>2. dangling' = <<>>
  BY <1>1, DanglingCases
<1>3. QED
  BY <1>2, EmptyNext

LEMMA SameDangling ==
  ASSUME dangling \in Seq(Endpoints), DanglingShort, UNCHANGED dangling
  PROVE  /\ dangling' \in Seq(Endpoints) /\ DanglingShort'
         /\ \A e : InDangling(e)' <=> InDangling(e)
BY DEF InDangling, DanglingShort

-----------------------------------------------------------------------------
(* Types.                                                                  *)

LEMMA ClientSetFinite ==
  ASSUME NEW C \in SUBSET (Clients \cup {None}), NEW D \in SUBSET C
  PROVE  IsFiniteSet(D) /\ Cardinality(D) \in Nat
<1>1. IsFiniteSet(Clients \cup {None})
  BY ClientsAssumption, FS_AddElement
<1>2. IsFiniteSet(D)
  BY <1>1, FS_Subset
<1>3. QED
  BY <1>2, FS_CardinalityType

LEMMA EndpointSetFinite ==
  ASSUME NEW E \in SUBSET Endpoints
  PROVE  IsFiniteSet(E) /\ Cardinality(E) \in Nat
<1>1. IsFiniteSet(E)
  BY EndpointsAssumption, FS_Subset
<1>2. QED
  BY <1>1, FS_CardinalityType

LEMMA NameSetFinite ==
  ASSUME NEW N \in SUBSET Names
  PROVE  IsFiniteSet(N) /\ Cardinality(N) \in Nat
<1>1. IsFiniteSet(N)
  BY EndpointsAssumption, FS_Subset
<1>2. QED
  BY <1>1, FS_CardinalityType

LEMMA HangUpTypes ==
  ASSUME ClientTypes, NEW C \in SUBSET (Clients \cup {None}), HangUp(C)
  PROVE  ClientTypes'
<1>1. \A k \in Kinds : Cardinality({c \in C : KindOf(c) = k}) \in Nat
  BY ClientSetFinite
<1>2. nrClients' \in [Kinds -> Int]
  BY <1>1 DEF HangUp, ClientTypes
<1>3. QED
  BY <1>2 DEF HangUp, ClientTypes, Msgs

LEMMA ForgetTypes ==
  ASSUME EndpointTypes, NEW E \in SUBSET Endpoints, Forget(E), pinged' \subseteq Endpoints
  PROVE  EndpointTypes'
<1>1. age' \in [Endpoints -> 0..MaxAge]
  BY TimesAssumption DEF Forget, EndpointTypes, MaxAge
<1>2. QED
  BY <1>1 DEF Forget, EndpointTypes

LEMMA NewEndpointTypes ==
  ASSUME TypeOK, DanglingShort, NEW c \in Clients, NEW e \in Endpoints, NewEndpoint(c, e)
  PROVE  EndpointTypes' /\ TableTypes' /\ DanglingShort'
         /\ entity' \in [Clients -> Endpoints \cup {None}]
<1>1. age' \in [Endpoints -> 0..MaxAge]
  BY TimesAssumption DEF NewEndpoint, TypeOK, EndpointTypes, MaxAge
<1>2. EndpointTypes'
  BY <1>1 DEF NewEndpoint, TypeOK, EndpointTypes
<1>3. dangling' \in Seq(Endpoints) /\ DanglingShort'
  BY AfterStore DEF NewEndpoint, TypeOK, TableTypes
<1>4. TableTypes'
  BY <1>3 DEF NewEndpoint, TypeOK, TableTypes
<1>5. QED
  BY <1>2, <1>3, <1>4 DEF NewEndpoint, TypeOK, ClientTypes

LEMMA TouchTypes ==
  ASSUME EndpointTypes, NEW c \in Clients, Touch(c)
  PROVE  age' \in [Endpoints -> 0..MaxAge] /\ pinged' \subseteq Endpoints
BY TimesAssumption DEF Touch, EndpointTypes, MaxAge

LEMMA ConsumeTypes ==
  ASSUME ClientTypes, NEW c \in Clients, Consume(c)
  PROVE  inbox' \in [Clients -> Msgs]
BY DEF Consume, ClientTypes, Msgs

LEMMA DisconnectTypes ==
  ASSUME TypeOK, DanglingShort, NEW c \in Clients, Disconnect(c)
  PROVE  TypeOK' /\ DanglingShort'
<1> DEFINE E == {entity[c]} \ {None}
<1>0. E \in SUBSET Endpoints
  BY DEF TypeOK, ClientTypes
<1>1. ClientTypes'
  BY HangUpTypes DEF Disconnect, TypeOK
<1>2. pinged' \subseteq Endpoints
  BY DEF Disconnect, TypeOK, EndpointTypes
<1>3. EndpointTypes'
  BY <1>0, <1>2, ForgetTypes DEF Disconnect, TypeOK
<1>4. dangling' \in Seq(Endpoints) /\ DanglingShort'
  BY AfterKeep DEF Disconnect, TypeOK, TableTypes
<1>5. Cardinality(NamesOf(E)) \in Nat
  BY NameSetFinite DEF NamesOf
<1>6. nrEndpoints' \in Int
  BY <1>5 DEF Disconnect, TypeOK, TableTypes
<1>7. TableTypes'
  BY <1>0, <1>4, <1>6 DEF Disconnect, Unlist, Forget, TypeOK, TableTypes
<1>8. QED
  BY <1>1, <1>3, <1>4, <1>7 DEF Disconnect, TypeOK, clockVars

LEMMA StartTypes ==
  ASSUME TypeOK, DanglingShort, NEW c \in Clients, StartSession(c),
         EndpointTypes', TableTypes', DanglingShort'
  PROVE  TypeOK' /\ DanglingShort'
<1>1. ClientTypes'
  BY ConsumeTypes DEF StartSession, TypeOK, ClientTypes
<1>2. QED
  BY <1>1 DEF StartSession, TypeOK, clockVars

LEMMA AcceptTypes ==
  ASSUME TypeOK, DanglingShort, NEW c \in Clients, Accept(c)
  PROVE  TypeOK' /\ DanglingShort'
<1> USE DEF TypeOK, ClientTypes
<1>1. CASE Refuse(c)
  BY <1>1, SameDangling DEF Refuse, Msgs, EndpointTypes, TableTypes,
     endpointVars, tableVars, clockVars
<1>2. CASE AcceptDeadUS(c)
  <2>1. dangling' \in Seq(Endpoints) /\ DanglingShort'
    BY <1>2, AfterTail DEF AcceptDeadUS, TableTypes
  <2>2. QED
    BY <1>2, <2>1 DEF AcceptDeadUS, Msgs, EndpointTypes, TableTypes,
       endpointVars, clockVars
<1>3. CASE AcceptWS(c)
  BY <1>3, SameDangling DEF AcceptWS, Kinds, EndpointTypes, TableTypes,
     endpointVars, tableVars, clockVars
<1>4. ASSUME NEW e \in Endpoints, AcceptUS(c, e) PROVE TypeOK' /\ DanglingShort'
  <2>1. EndpointTypes' /\ TableTypes' /\ DanglingShort'
        /\ entity' \in [Clients -> Endpoints \cup {None}]
    BY <1>4, NewEndpointTypes DEF AcceptUS
  <2>2. nrClients' \in [Kinds -> Int]
    <3>1. nrClients' = [nrClients EXCEPT !["us"] = @ + 1]
      BY <1>4 DEF AcceptUS
    <3>2. nrClients["us"] + 1 \in Int
      BY DEF Kinds
    <3>3. QED
      BY <3>1, <3>2
  <2>3. conn' \in [Clients -> {"closed", "backlog", "open"}]
    BY <1>4 DEF AcceptUS
  <2>4. QED
    BY <1>4, <2>1, <2>2, <2>3 DEF AcceptUS, clockVars
<1>5. QED
  BY <1>1, <1>2, <1>3, <1>4 DEF Accept

LEMMA ReadTypes ==
  ASSUME TypeOK, DanglingShort, NEW c \in Clients, Read(c)
  PROVE  TypeOK' /\ DanglingShort'
<1>1. CASE UpgradeNoEndpoint(c)
  <2>1. inbox' \in [Clients -> Msgs]
    BY <1>1, ConsumeTypes DEF UpgradeNoEndpoint, TypeOK
  <2>2. QED
    BY <1>1, <2>1, SameDangling DEF UpgradeNoEndpoint, TypeOK, ClientTypes, EndpointTypes,
       TableTypes, endpointVars, tableVars, clockVars
<1>2. ASSUME NEW e \in Endpoints, Upgrade(c, e) PROVE TypeOK' /\ DanglingShort'
  <2>1. EndpointTypes' /\ TableTypes' /\ DanglingShort'
        /\ entity' \in [Clients -> Endpoints \cup {None}]
    BY <1>2, NewEndpointTypes DEF Upgrade
  <2>2. inbox' \in [Clients -> Msgs]
    BY <1>2, ConsumeTypes DEF Upgrade, TypeOK
  <2>3. ClientTypes'
    BY <1>2, <2>1, <2>2 DEF Upgrade, TypeOK, ClientTypes
  <2>4. QED
    BY <1>2, <2>1, <2>3 DEF Upgrade, TypeOK, clockVars
<1>3. CASE StartRefused(c)
  <2>1. age' \in [Endpoints -> 0..MaxAge] /\ pinged' \subseteq Endpoints
    BY <1>3, TouchTypes DEF StartRefused, TypeOK
  <2>2. EndpointTypes'
    BY <1>3, <2>1 DEF StartRefused, StartSession, TypeOK, EndpointTypes
  <2>3. TableTypes' /\ DanglingShort'
    BY <1>3, SameDangling DEF StartRefused, TypeOK, TableTypes, tableVars
  <2>4. QED
    BY <1>3, <2>2, <2>3, StartTypes DEF StartRefused
<1>4. ASSUME NEW n \in Names, StartAccepted(c, n) PROVE TypeOK' /\ DanglingShort'
  <2>0. entity[c] \in Endpoints
    BY <1>4 DEF StartAccepted, StartSession, Bound, TypeOK, ClientTypes
  <2>1. dangling' \in Seq(Endpoints) /\ DanglingShort'
    BY <1>4, AfterKeep DEF StartAccepted, TypeOK, TableTypes
  <2>2. TableTypes'
    BY <1>4, <2>0, <2>1 DEF StartAccepted, TypeOK, TableTypes
  <2>3. sess' \in [Endpoints -> BOOLEAN]
    BY <1>4 DEF StartAccepted, TypeOK, EndpointTypes
  <2>4. age' \in [Endpoints -> 0..MaxAge]
    <3>1. age' = [age EXCEPT ![entity[c]] = 0] /\ age \in [Endpoints -> 0..MaxAge]
      BY <1>4 DEF StartAccepted, TypeOK, EndpointTypes
    <3>2. 0 \in 0..MaxAge
      BY TimesAssumption DEF MaxAge
    <3>3. QED
      BY <3>1, <3>2
  <2>5. EndpointTypes'
    BY <1>4, <2>0, <2>3, <2>4 DEF StartAccepted, StartSession, TypeOK, EndpointTypes
  <2>6. QED
    BY <1>4, <2>1, <2>2, <2>5, StartTypes DEF StartAccepted
<1>5. CASE StartNotStored(c)
  <2>1. dangling' \in Seq(Endpoints) /\ DanglingShort'
    BY <1>5, AfterKeep DEF StartNotStored, TypeOK, TableTypes
  <2>2. TableTypes'
    BY <1>5, <2>1 DEF StartNotStored, TypeOK, TableTypes
  <2>3. EndpointTypes'
    BY <1>5 DEF StartNotStored, StartSession, TypeOK, EndpointTypes
  <2>4. QED
    BY <1>5, <2>1, <2>2, <2>3, StartTypes DEF StartNotStored
<1>6. CASE EndSession(c)
  <2>1. age' \in [Endpoints -> 0..MaxAge] /\ pinged' \subseteq Endpoints
    BY <1>6, TouchTypes DEF EndSession, TypeOK
  <2>2. inbox' \in [Clients -> Msgs]
    BY <1>6, ConsumeTypes DEF EndSession, TypeOK
  <2>3. QED
    BY <1>6, <2>1, <2>2, SameDangling DEF EndSession, TypeOK, ClientTypes, EndpointTypes,
       TableTypes, tableVars, clockVars
<1>7. CASE OtherMessage(c)
  <2>1. age' \in [Endpoints -> 0..MaxAge] /\ pinged' \subseteq Endpoints
    BY <1>7, TouchTypes DEF OtherMessage, TypeOK
  <2>2. inbox' \in [Clients -> Msgs]
    BY <1>7, ConsumeTypes DEF OtherMessage, TypeOK
  <2>3. QED
    BY <1>7, <2>1, <2>2, SameDangling DEF OtherMessage, TypeOK, ClientTypes, EndpointTypes,
       TableTypes, tableVars, clockVars
<1>8. CASE WindowWithoutSession(c) \/ PacketWithoutEntity(c)
  BY <1>8, SameDangling DEF WindowWithoutSession, PacketWithoutEntity, TypeOK, ClientTypes,
     EndpointTypes, TableTypes, clientVars, endpointVars, tableVars, clockVars
<1>9. CASE ReadEnds(c)
  BY <1>9, DisconnectTypes DEF ReadEnds
<1>10. QED
  BY <1>1, <1>2, <1>3, <1>4, <1>5, <1>6, <1>7, <1>8, <1>9 DEF Read

LEMMA IdlePollTypes ==
  ASSUME TypeOK, DanglingShort, IdlePoll
  PROVE  TypeOK' /\ DanglingShort'
<1>1. CASE CheckNoResponding
  <2> DEFINE E == {e \in living : age[e] > NoRespTime}
             P == {e \in living \ E : age[e] > PingTime}
  <2>0. E \in SUBSET Endpoints /\ P \in SUBSET Endpoints
    BY DEF TypeOK, TableTypes
  <2>1. {client[e] : e \in E} \in SUBSET (Clients \cup {None})
    BY <2>0 DEF TypeOK, EndpointTypes
  <2>2. ClientTypes'
    BY <1>1, <2>1, HangUpTypes DEF CheckNoResponding, TypeOK
  <2>3. pinged' \subseteq Endpoints
    BY <1>1, <2>0 DEF CheckNoResponding, TypeOK, EndpointTypes
  <2>4. EndpointTypes'
    BY <1>1, <2>0, <2>3, ForgetTypes DEF CheckNoResponding, TypeOK
  <2>5. Cardinality(E) \in Nat
    BY <2>0, EndpointSetFinite
  <2>6. nrEndpoints' \in Int
    BY <1>1, <2>5 DEF CheckNoResponding, TypeOK, TableTypes
  <2>7. dangling' \in Seq(Endpoints) /\ DanglingShort'
    BY <1>1, SameDangling DEF CheckNoResponding, TypeOK, TableTypes
  <2>8. TableTypes'
    BY <1>1, <2>6, <2>7 DEF CheckNoResponding, Unlist, Forget, TypeOK, TableTypes
  <2>9. QED
    BY <1>1, <2>2, <2>4, <2>7, <2>8 DEF CheckNoResponding, TypeOK
<1>2. CASE CheckDangling
  <2> DEFINE E == {e \in Endpoints : InDangling(e) /\ age[e] > NoRespTime}
  <2>1. {client[e] : e \in E} \in SUBSET (Clients \cup {None})
    BY DEF TypeOK, EndpointTypes
  <2>2. ClientTypes'
    BY <1>2, <2>1, HangUpTypes DEF CheckDangling, TypeOK
  <2>3. pinged' \subseteq Endpoints
    BY <1>2 DEF CheckDangling, TypeOK, EndpointTypes
  <2>4. EndpointTypes'
    BY <1>2, <2>3, ForgetTypes DEF CheckDangling, TypeOK
  <2>5. dangling' \in Seq(Endpoints) /\ DanglingShort'
    BY <1>2, AfterKeep DEF CheckDangling, TypeOK, TableTypes
  <2>6. TableTypes'
    BY <1>2, <2>5 DEF CheckDangling, Forget, TypeOK, TableTypes
  <2>7. QED
    BY <1>2, <2>2, <2>4, <2>5, <2>6 DEF CheckDangling, TypeOK
<1>3. CASE CheckNothing
  BY <1>3, SameDangling DEF CheckNothing, TypeOK, ClientTypes, EndpointTypes, TableTypes,
     clientVars, endpointVars, tableVars
<1>4. QED
  BY <1>1, <1>2, <1>3 DEF IdlePoll

LEMMA ShutdownTypes ==
  ASSUME TypeOK, DanglingShort, Shutdown
  PROVE  TypeOK' /\ DanglingShort'
<1> DEFINE L == {list[n] : n \in Names} \ {None}
           D == {e \in Endpoints : InDangling(e)}
<1>0. L \cup D \in SUBSET Endpoints
  BY DEF TypeOK, TableTypes
<1>1. {client[e] : e \in L \cup D} \ {None} \in SUBSET (Clients \cup {None})
  BY <1>0 DEF TypeOK, EndpointTypes
<1>2. ClientTypes'
  BY <1>1, HangUpTypes DEF Shutdown, TypeOK
<1>3. EndpointTypes'
  BY <1>0, ForgetTypes DEF Shutdown, TypeOK
<1>4. Cardinality({n \in Names : list[n] # None}) \in Nat
  BY NameSetFinite
<1>5. nrEndpoints' \in Int
  BY <1>4 DEF Shutdown, TypeOK, TableTypes
<1>6. dangling' \in Seq(Endpoints) /\ DanglingShort'
  BY EmptyNext DEF Shutdown
<1>7. TableTypes'
  BY <1>5, <1>6 DEF Shutdown, Forget, TypeOK, TableTypes
<1>8. srv' \in {"stopped", "leftover"}
  BY DEF Shutdown
<1>9. QED
  BY <1>2, <1>3, <1>6, <1>7, <1>8 DEF Shutdown, TypeOK, clockVars

LEMMA OutsideTypes ==
  ASSUME TypeOK, DanglingShort,
         \/ \E c \in Clients : Connect(c) \/ PeerClose(c)
         \/ \E c \in Clients, m \in Msgs : Send(c, m)
         \/ Tick
         \/ UNCHANGED vars
  PROVE  TypeOK' /\ DanglingShort'
<1> USE SameDangling
    DEF TypeOK, ClientTypes, EndpointTypes, TableTypes,
        clientVars, endpointVars, tableVars, clockVars
<1>1. ASSUME NEW c \in Clients, Connect(c) PROVE TypeOK' /\ DanglingShort'
  BY <1>1 DEF Connect
<1>2. ASSUME NEW c \in Clients, PeerClose(c) PROVE TypeOK' /\ DanglingShort'
  BY <1>2 DEF PeerClose
<1>3. ASSUME NEW c \in Clients, NEW m \in Msgs, Send(c, m) PROVE TypeOK' /\ DanglingShort'
  BY <1>3 DEF Send
<1>4. CASE Tick
  <2>1. age' \in [Endpoints -> 0..MaxAge]
    BY <1>4, TimesAssumption DEF Tick, MaxAge
  <2>2. phase' \in 0..(NoRespEvery - 1)
    BY <1>4, TimesAssumption DEF Tick
  <2>3. QED
    BY <1>4, <2>1, <2>2 DEF Tick
<1>5. CASE UNCHANGED vars
  BY <1>5 DEF vars
<1>6. QED
  BY <1>1, <1>2, <1>3, <1>4, <1>5

LEMMA TypesInit == Init => TypeOK /\ DanglingShort
<1> SUFFICES ASSUME Init PROVE TypeOK /\ DanglingShort
  OBVIOUS
<1>1. dangling \in Seq(Endpoints) /\ DanglingShort
  BY Empty DEF Init
<1>2. ClientTypes
  BY DEF Init, ClientTypes, Msgs
<1>3. EndpointTypes /\ TableTypes
  BY <1>1, TimesAssumption DEF Init, EndpointTypes, TableTypes, MaxAge
<1>4. QED
  BY <1>1, <1>2, <1>3, TimesAssumption DEF Init, TypeOK

LEMMA TypesStep ==
  ASSUME TypeOK, DanglingShort, [Next]_vars
  PROVE  TypeOK' /\ DanglingShort'
BY AcceptTypes, ReadTypes, IdlePollTypes, ShutdownTypes, OutsideTypes DEF Next

\* Every variable keeps its type, and the list of endpoints waiting for
\* authentication never has a second element: storing an endpoint forgets the
\* one that was at its head (store_dangling_endpoint).
THEOREM TypesAlwaysRight == Spec => [](TypeOK /\ DanglingShort)
<1>1. TypeOK /\ DanglingShort /\ [Next]_vars => (TypeOK /\ DanglingShort)'
  BY TypesStep
<1>2. QED
  BY TypesInit, <1>1, PTL DEF Spec

-----------------------------------------------------------------------------
(* Pointers and tables.                                                    *)

Registered == PointersSound /\ TablesAgree

LEMMA NeutralStep ==
  ASSUME Registered,
         UNCHANGED <<entity, alloc, client, name, list, living>>,
         \A e : InDangling(e)' => InDangling(e),
         \A c \in Clients : entity[c] # None => conn'[c] = conn[c]
  PROVE  Registered'
BY DEF Registered, PointersSound, TablesAgree

LEMMA NewEndpointStep ==
  ASSUME TypeOK, DanglingShort, Registered,
         NEW c \in Clients, NEW e \in Endpoints, NewEndpoint(c, e),
         conn' = [conn EXCEPT ![c] = "open"],
         entity[c] # None => name[entity[c]] = None
  PROVE  Registered'
<1>1. \A x : InDangling(x)' <=> x = e
  BY AfterStore DEF NewEndpoint, TypeOK, TableTypes
<1>2. e \notin living /\ name[e] = None
  BY DEF NewEndpoint, Registered, PointersSound, TablesAgree
<1>3. \A x \in living : x # e /\ client[x] # c
  BY <1>2, NoneAssumption DEF Registered, PointersSound, TablesAgree
<1>4. PointersSound'
  <2>1. ASSUME NEW d \in Clients, entity'[d] # None
        PROVE  conn'[d] = "open" /\ entity'[d] \in alloc' /\ client'[entity'[d]] = d
    <3>1. CASE d = c
      BY <2>1, <3>1 DEF NewEndpoint, TypeOK, ClientTypes, EndpointTypes
    <3>2. CASE d # c
      BY <2>1, <3>2 DEF NewEndpoint, TypeOK, ClientTypes, EndpointTypes, Registered,
         PointersSound
    <3>3. QED
      BY <3>1, <3>2
  <2>2. ASSUME NEW x \in Endpoints,
               InDangling(x)' \/ x \in living' \/ (\E n \in Names : list'[n] = x)
        PROVE  x \in alloc' /\ client'[x] # None /\ entity'[client'[x]] = x
    <3>1. CASE x = e
      BY <3>1, NoneAssumption DEF NewEndpoint, TypeOK, ClientTypes, EndpointTypes
    <3>2. CASE x # e
      <4>1. x \in living
        BY <1>1, <2>2, <3>2, NoneAssumption DEF NewEndpoint, Registered, TablesAgree
      <4>2. client[x] # c /\ client[x] \in Clients
        BY <4>1, <1>3 DEF TypeOK, EndpointTypes, Registered, PointersSound
      <4>3. QED
        BY <3>2, <4>1, <4>2 DEF NewEndpoint, TypeOK, ClientTypes, EndpointTypes, Registered,
           PointersSound
    <3>3. QED
      BY <3>1, <3>2
  <2>3. QED
    BY <2>1, <2>2 DEF PointersSound
<1>5. TablesAgree'
  BY <1>1, <1>2 DEF NewEndpoint, Registered, TablesAgree
<1>6. QED
  BY <1>4, <1>5 DEF Registered

LEMMA AcceptedStep ==
  ASSUME TypeOK, DanglingShort, Registered,
         NEW c \in Clients, NEW n \in Names, StartAccepted(c, n)
  PROVE  Registered'
<1> DEFINE e == entity[c]
<1>0. e \in Endpoints /\ InDangling(e) /\ list[n] = None
  BY DEF StartAccepted, StartSession, Bound, TypeOK, ClientTypes
<1>1. \A x : InDangling(x)' <=> InDangling(x) /\ x \in Endpoints \ {e}
  BY AfterKeep DEF StartAccepted, TypeOK, TableTypes
<1>2. e \in alloc /\ client[e] = c /\ name[e] = None /\ e \notin living
  BY <1>0 DEF StartAccepted, StartSession, Bound, Registered, PointersSound, TablesAgree
<1>3. /\ list' = [list EXCEPT ![n] = e] /\ living' = living \cup {e}
      /\ name' = [name EXCEPT ![e] = n]
      /\ UNCHANGED <<conn, entity, alloc, client>>
  BY DEF StartAccepted, StartSession
<1> HIDE DEF e
<1>4. PointersSound'
  <2>1. \A x \in Endpoints :
          InDangling(x)' \/ x \in living' \/ (\E m \in Names : list'[m] = x) =>
            x = e \/ InDangling(x) \/ x \in living \/ (\E m \in Names : list[m] = x)
    BY <1>1, <1>3 DEF TypeOK, TableTypes
  <2>2. e \in alloc /\ client[e] # None /\ entity[client[e]] = e
    BY <1>0, <1>2 DEF Registered, PointersSound
  <2>3. QED
    BY <1>3, <2>1, <2>2 DEF Registered, PointersSound
<1>5. TablesAgree'
  <2>1. \A x \in Endpoints, m \in Names : name'[x] = m <=> list'[m] = x
    <3> SUFFICES ASSUME NEW x \in Endpoints, NEW m \in Names
                 PROVE  name'[x] = m <=> list'[m] = x
      OBVIOUS
    <3>1. name[x] = m <=> list[m] = x
      BY DEF Registered, TablesAgree
    <3>2. name[e] # m
      BY <1>2, NoneAssumption
    <3>3. list[n] # x
      BY <1>0, NoneAssumption
    <3>4. CASE x = e
      BY <1>0, <1>3, <3>1, <3>2, <3>4 DEF TypeOK, EndpointTypes, TableTypes
    <3>5. CASE x # e
      BY <1>0, <1>3, <3>1, <3>3, <3>5 DEF TypeOK, EndpointTypes, TableTypes
    <3>6. QED
      BY <3>4, <3>5
  <2>2. living' = {x \in Endpoints : name'[x] # None}
    BY <1>0, <1>3, NoneAssumption DEF Registered, TablesAgree, TypeOK, EndpointTypes
  <2>3. \A x \in living' : ~InDangling(x)'
    BY <1>1, <1>3 DEF Registered, TablesAgree
  <2>4. QED
    BY <2>1, <2>2, <2>3 DEF TablesAgree
<1>6. QED
  BY <1>4, <1>5 DEF Registered

\* Whatever set of bound endpoints is dropped together with its clients, its
\* names and its places in the list, the rest stays consistent.
LEMMA DropStep ==
  ASSUME TypeOK, Registered,
         NEW E \in SUBSET Endpoints, NEW C,
         C = {client[e] : e \in E},
         \A e \in E : client[e] \in Clients /\ entity[client[e]] = e,
         HangUp(C), Forget(E),
         list' = [n \in Names |-> IF \E e \in E : name[e] = n THEN None ELSE list[n]],
         \A e : InDangling(e)' <=> InDangling(e) /\ e \in Endpoints \ E
  PROVE  Registered'
<1>1. \A c \in Clients : entity'[c] = IF c \in C THEN None ELSE entity[c]
  BY DEF HangUp
<1>2. \A c \in Clients : c \notin C => entity[c] \notin E
  BY NoneAssumption DEF Registered, PointersSound
<1>3. \A x \in Endpoints : x \notin E => client'[x] = client[x] /\ name'[x] = name[x]
  BY DEF Forget
<1>4. \A x \in Endpoints : x \in E => client'[x] = None /\ name'[x] = None
  BY DEF Forget
<1>5. PointersSound'
  <2>1. ASSUME NEW c \in Clients, entity'[c] # None
        PROVE  conn'[c] = "open" /\ entity'[c] \in alloc' /\ client'[entity'[c]] = c
    <3>1. c \notin C /\ entity'[c] = entity[c] /\ entity[c] \notin E
      BY <2>1, <1>1, <1>2
    <3>2. entity[c] \in alloc /\ client[entity[c]] = c /\ conn[c] = "open"
      BY <2>1, <3>1 DEF Registered, PointersSound
    <3>3. client'[entity[c]] = client[entity[c]]
      BY <3>1, <3>2, <1>3 DEF TypeOK, EndpointTypes
    <3>4. QED
      BY <3>1, <3>2, <3>3 DEF HangUp, Forget
  <2>2. ASSUME NEW x \in Endpoints,
               InDangling(x)' \/ x \in living' \/ (\E n \in Names : list'[n] = x)
        PROVE  x \in alloc' /\ client'[x] # None /\ entity'[client'[x]] = x
    <3>1. x \notin E
      <4>1. ASSUME NEW n \in Names, list'[n] = x PROVE x \notin E
        BY <4>1, NoneAssumption DEF Registered, TablesAgree
      <4>2. QED
        BY <2>2, <4>1 DEF Forget
    <3>2. InDangling(x) \/ x \in living \/ (\E n \in Names : list[n] = x)
      BY <2>2, NoneAssumption DEF Forget
    <3>3. x \in alloc /\ client[x] # None /\ entity[client[x]] = x
      BY <3>2 DEF Registered, PointersSound
    <3>4. client[x] \in Clients /\ client[x] \notin C
      BY <3>1, <3>3 DEF TypeOK, EndpointTypes
    <3>5. QED
      BY <3>1, <3>3, <3>4, <1>1, <1>3 DEF Forget
  <2>3. QED
    BY <2>1, <2>2 DEF PointersSound
<1>6. TablesAgree'
  <2>1. ASSUME NEW x \in Endpoints, NEW m \in Names
        PROVE  name'[x] = m <=> list'[m] = x
    <3>1. name[x] = m <=> list[m] = x
      BY DEF Registered, TablesAgree
    <3>2. CASE x \in E
      BY <3>1, <3>2, <1>4, NoneAssumption
    <3>3. CASE x \notin E
      <4>1. name'[x] = name[x]
        BY <3>3, <1>3
      <4>2. CASE \E e \in E : name[e] = m
        <5>1. PICK y \in E : name[y] = m
          BY <4>2
        <5>2. list[m] = y
          BY <5>1 DEF Registered, TablesAgree
        <5>3. list'[m] = None
          BY <4>2
        <5>4. QED
          BY <3>1, <3>3, <4>1, <5>2, <5>3, NoneAssumption
      <4>3. CASE ~(\E e \in E : name[e] = m)
        BY <3>1, <4>1, <4>3
      <4>4. QED
        BY <4>2, <4>3
    <3>4. QED
      BY <3>2, <3>3
  <2>2. living' = {x \in Endpoints : name'[x] # None}
    BY <1>3, <1>4 DEF Forget, Registered, TablesAgree
  <2>3. \A x \in living' : ~InDangling(x)'
    BY DEF Forget, Registered, TablesAgree
  <2>4. QED
    BY <2>1, <2>2, <2>3 DEF TablesAgree
<1>7. QED
  BY <1>5, <1>6 DEF Registered

LEMMA DisconnectStep ==
  ASSUME TypeOK, DanglingShort, Registered, NEW c \in Clients, Disconnect(c)
  PROVE  Registered'
<1> DEFINE E == {entity[c]} \ {None}
<1>0. /\ HangUp({c}) /\ Forget(E) /\ Unlist(E)
      /\ dangling' = Keep(dangling, Endpoints \ {e \in E : name[e] = None})
  BY DEF Disconnect
<1>1. \A x : InDangling(x)' <=>
        InDangling(x) /\ x \in Endpoints \ {e \in E : name[e] = None}
  BY <1>0, AfterKeep DEF TypeOK, TableTypes
<1>2. \A x : InDangling(x)' <=> InDangling(x) /\ x \in Endpoints \ E
  <2>1. \A x \in E : InDangling(x) => name[x] = None
    BY DEF TypeOK, ClientTypes, Registered, TablesAgree
  <2>2. QED
    BY <1>1, <2>1
<1>3. CASE entity[c] = None
  <2>1. E = {}
    BY <1>3
  <2>2. UNCHANGED <<entity, alloc, client, name, list, living>>
    BY <1>0, <1>3, <2>1 DEF HangUp, Forget, Unlist, NamesOf, TypeOK, ClientTypes,
       EndpointTypes, TableTypes
  <2>3. \A d \in Clients : entity[d] # None => conn'[d] = conn[d]
    BY <1>0, <1>3 DEF HangUp
  <2>4. QED
    BY <1>2, <2>2, <2>3, NeutralStep
<1>4. CASE entity[c] # None
  <2>1. E = {entity[c]} /\ E \in SUBSET Endpoints
    BY <1>4 DEF TypeOK, ClientTypes
  <2>2. client[entity[c]] = c
    BY <1>4 DEF Registered, PointersSound
  <2>3. {c} = {client[e] : e \in E}
    BY <2>1, <2>2
  <2>4. list' = [n \in Names |-> IF \E e \in E : name[e] = n THEN None ELSE list[n]]
    <3>1. \A n \in Names : n \in NamesOf(E) <=> \E e \in E : name[e] = n
      BY <2>1, NoneAssumption DEF NamesOf, Registered, TablesAgree
    <3>2. QED
      BY <1>0, <3>1 DEF Unlist
  <2>5. QED
    BY <1>0, <1>2, <2>1, <2>2, <2>3, <2>4, DropStep
<1>5. QED
  BY <1>3, <1>4

LEMMA NoRespondingStep ==
  ASSUME TypeOK, DanglingShort, Registered, CheckNoResponding
  PROVE  Registered'
<1> DEFINE E == {e \in living : age[e] > NoRespTime}
<1>0. /\ HangUp({client[e] : e \in E}) /\ Forget(E) /\ Unlist(E) /\ UNCHANGED dangling
  BY DEF CheckNoResponding
<1>1. E \in SUBSET Endpoints
  BY DEF TypeOK, TableTypes
<1>2. \A e \in E : client[e] \in Clients /\ entity[client[e]] = e
  BY <1>1 DEF TypeOK, EndpointTypes, Registered, PointersSound
<1>3. \A n \in Names : n \in NamesOf(E) <=> \E e \in E : name[e] = n
  BY <1>1, NoneAssumption DEF NamesOf, Registered, TablesAgree
<1>4. list' = [n \in Names |-> IF \E e \in E : name[e] = n THEN None ELSE list[n]]
  BY <1>0, <1>3 DEF Unlist
<1>5. \A e : InDangling(e)' <=> InDangling(e) /\ e \in Endpoints \ E
  <2>1. \A e : InDangling(e)' <=> InDangling(e)
    BY <1>0, SameDangling DEF TypeOK, TableTypes
  <2>2. \A e : InDangling(e) => e \in Endpoints
    BY DEF InDangling, TypeOK, TableTypes
  <2>3. \A e : InDangling(e) => e \notin E
    BY DEF Registered, TablesAgree
  <2>4. QED
    BY <2>1, <2>2, <2>3
<1> HIDE DEF E
<1>6. QED
  BY <1>0, <1>1, <1>2, <1>4, <1>5, DropStep

LEMMA CheckDanglingStep ==
  ASSUME TypeOK, DanglingShort, Registered, CheckDangling
  PROVE  Registered'
<1> DEFINE E == {e \in Endpoints : InDangling(e) /\ age[e] > NoRespTime}
<1>0. /\ HangUp({client[e] : e \in E}) /\ Forget(E) /\ UNCHANGED list
      /\ dangling' = Keep(dangling, Endpoints \ E)
  BY DEF CheckDangling
<1>1. \A e \in E : client[e] \in Clients /\ entity[client[e]] = e
  BY DEF TypeOK, EndpointTypes, Registered, PointersSound
<1>2. \A e \in E : name[e] = None
  BY DEF Registered, TablesAgree
<1>3. list' = [n \in Names |-> IF \E e \in E : name[e] = n THEN None ELSE list[n]]
  BY <1>0, <1>2, NoneAssumption DEF TypeOK, TableTypes
<1>4. \A e : InDangling(e)' <=> InDangling(e) /\ e \in Endpoints \ E
  BY <1>0, AfterKeep DEF TypeOK, TableTypes
<1>5. E \in SUBSET Endpoints
  OBVIOUS
<1> HIDE DEF E
<1>6. QED
  BY <1>0, <1>1, <1>3, <1>4, <1>5, DropStep

LEMMA ShutdownStep ==
  ASSUME TypeOK, DanglingShort, Registered, Shutdown
  PROVE  Registered'
<1> DEFINE L == {list[n] : n \in Names} \ {None}
           D == {e \in Endpoints : InDangling(e)}
           E == L \cup D
<1>0. /\ HangUp({client[e] : e \in E} \ {None}) /\ Forget(E)
      /\ list' = [n \in Names |-> None] /\ dangling' = <<>>
  BY DEF Shutdown
<1>1. E \in SUBSET Endpoints
  BY DEF TypeOK, TableTypes
<1>2. \A e \in E : client[e] \in Clients /\ entity[client[e]] = e
  BY <1>1 DEF TypeOK, EndpointTypes, TableTypes, Registered, PointersSound
<1>3. {client[e] : e \in E} \ {None} = {client[e] : e \in E}
  BY <1>2, NoneAssumption
<1>4. list' = [n \in Names |-> IF \E e \in E : name[e] = n THEN None ELSE list[n]]
  <2>1. ASSUME NEW n \in Names, list[n] # None PROVE \E e \in E : name[e] = n
    <3>1. list[n] \in E /\ list[n] \in Endpoints
      BY <2>1, <1>1
    <3>2. name[list[n]] = n
      BY <3>1 DEF Registered, TablesAgree
    <3>3. QED
      BY <3>1, <3>2
  <2>2. QED
    BY <1>0, <2>1
<1>5. \A e : InDangling(e)' <=> InDangling(e) /\ e \in Endpoints \ E
  <2>1. \A e : ~InDangling(e)'
    BY <1>0, EmptyNext
  <2>2. QED
    BY <2>1
<1> HIDE DEF E
<1>6. QED
  BY <1>0, <1>1, <1>2, <1>3, <1>4, <1>5, DropStep

-----------------------------------------------------------------------------
(* The upgrade request precedes the frames.                                *)

\* The upgrade request of a web socket client comes before its frames, and its
\* endpoint is not authenticated while the request is being read: the endpoint
\* that on_accepted replaces at the next piece is never a listed one.
UpgradeFirst ==
  \A c \in Clients :
    /\ inbox[c].op \in HsOps => c \in WSClients /\ ~hs[c]
    /\ c \in WSClients /\ ~hs[c] =>
         /\ inbox[c].op \in HsOps \cup {"none"}
         /\ entity[c] # None => name[entity[c]] = None

LEMMA UpgradeFirstStep ==
  ASSUME TypeOK, DanglingShort, Registered, UpgradeFirst, [Next]_vars
  PROVE  UpgradeFirst'
<1> USE DEF UpgradeFirst, TypeOK, ClientTypes, EndpointTypes, NoMsg, HsOps
<1>1. ASSUME NEW c \in Clients, Connect(c) \/ PeerClose(c) PROVE UpgradeFirst'
  BY <1>1 DEF Connect, PeerClose, endpointVars
<1>2. ASSUME NEW c \in Clients, NEW m \in Msgs, Send(c, m) PROVE UpgradeFirst'
  BY <1>2 DEF Send, endpointVars, HsMsgs, StartMsgs, OtherMsgs
<1>3. CASE Tick \/ CheckNothing \/ UNCHANGED vars
  BY <1>3 DEF Tick, CheckNothing, vars, clientVars, endpointVars
<1>4. ASSUME NEW c \in Clients, Refuse(c) \/ AcceptDeadUS(c) \/ AcceptWS(c) PROVE UpgradeFirst'
  <2>1. CASE AcceptWS(c)
    BY <2>1 DEF AcceptWS, endpointVars
  <2>2. CASE Refuse(c) \/ AcceptDeadUS(c)
    <3>1. inbox' = [inbox EXCEPT ![c] = NoMsg] /\ UNCHANGED <<hs, entity, name>>
      BY <2>2 DEF Refuse, AcceptDeadUS, endpointVars
    <3>2. QED
      BY <3>1
  <2>3. QED
    BY <1>4, <2>1, <2>2
<1>5. ASSUME NEW c \in Clients, NEW e \in Endpoints, AcceptUS(c, e) PROVE UpgradeFirst'
  BY <1>5 DEF AcceptUS, NewEndpoint
<1>6. ASSUME NEW c \in Clients, NEW e \in Endpoints, Upgrade(c, e) PROVE UpgradeFirst'
  <2>1. name[e] = None
    BY <1>6 DEF Upgrade, NewEndpoint, Registered, PointersSound, TablesAgree
  <2>2. QED
    BY <1>6, <2>1 DEF Upgrade, NewEndpoint, Consume, HasMsg
<1>7. ASSUME NEW c \in Clients, UpgradeNoEndpoint(c) PROVE UpgradeFirst'
  BY <1>7 DEF UpgradeNoEndpoint, Consume, HasMsg, endpointVars
<1>8. ASSUME NEW c \in Clients, StartRefused(c) \/ StartNotStored(c) PROVE UpgradeFirst'
  BY <1>8 DEF StartRefused, StartNotStored, StartSession, Consume
<1>9. ASSUME NEW c \in Clients, NEW n \in Names, StartAccepted(c, n) PROVE UpgradeFirst'
  <2>1. client[entity[c]] = c
    BY <1>9 DEF StartAccepted, StartSession, Bound, Registered, PointersSound
  <2>2. ASSUME NEW d \in Clients, d # c, entity[d] # None PROVE entity[d] # entity[c]
    BY <2>1, <2>2 DEF Registered, PointersSound
  <2>3. c \in WSClients => hs[c]
    BY <1>9 DEF StartAccepted, StartSession, HasMsg
  <2>4. /\ inbox' = [inbox EXCEPT ![c] = NoMsg] /\ UNCHANGED <<hs, entity>>
        /\ name' = [name EXCEPT ![entity[c]] = n]
    BY <1>9 DEF StartAccepted, StartSession, Consume
  <2>5. QED
    BY <2>2, <2>3, <2>4
<1>10. ASSUME NEW c \in Clients, EndSession(c) \/ OtherMessage(c) PROVE UpgradeFirst'
  BY <1>10 DEF EndSession, OtherMessage, Consume
<1>11. ASSUME NEW c \in Clients, WindowWithoutSession(c) \/ PacketWithoutEntity(c)
       PROVE  UpgradeFirst'
  BY <1>11 DEF WindowWithoutSession, PacketWithoutEntity, clientVars, endpointVars
<1>12. ASSUME NEW C, NEW E, HangUp(C), Forget(E) PROVE UpgradeFirst'
  BY <1>12 DEF HangUp, Forget
<1>13. ASSUME NEW c \in Clients, ReadEnds(c) PROVE UpgradeFirst'
  BY <1>12, <1>13 DEF ReadEnds, Disconnect
<1>14. CASE CheckNoResponding \/ CheckDangling \/ Shutdown
  BY <1>12, <1>14 DEF CheckNoResponding, CheckDangling, Shutdown
<1>15. QED
  BY <1>1, <1>2, <1>3, <1>4, <1>5, <1>6, <1>7, <1>8, <1>9, <1>10, <1>11, <1>13, <1>14
     DEF Next, Accept, Read, IdlePoll

-----------------------------------------------------------------------------
(* The registry's inductive invariant.                                     *)

Consistent == TypeOK /\ DanglingShort /\ Registered /\ UpgradeFirst

LEMMA RegisteredStep ==
  ASSUME Consistent, [Next]_vars
  PROVE  Registered'
<1> USE DEF Consistent
<1>0. UNCHANGED dangling => \A e : InDangling(e)' => InDangling(e)
  BY SameDangling DEF TypeOK, TableTypes
<1>1. ASSUME NEW c \in Clients, Connect(c) \/ PeerClose(c) \/ Refuse(c) \/ AcceptWS(c)
      PROVE  Registered'
  <2>1. conn[c] # "open" \/ UNCHANGED conn
    BY <1>1 DEF Connect, PeerClose, Refuse, AcceptWS
  <2>2. \A d \in Clients : entity[d] # None => conn'[d] = conn[d]
    BY <1>1, <2>1 DEF Connect, PeerClose, Refuse, AcceptWS, TypeOK, ClientTypes,
       Registered, PointersSound
  <2>3. UNCHANGED <<entity, alloc, client, name, list, living, dangling>>
    BY <1>1 DEF Connect, PeerClose, Refuse, AcceptWS, endpointVars, tableVars
  <2>4. QED
    BY <1>0, <2>2, <2>3, NeutralStep
<1>2. ASSUME NEW c \in Clients, AcceptDeadUS(c) PROVE Registered'
  <2>1. \A e : ~InDangling(e)'
    BY <1>2, AfterTail DEF AcceptDeadUS, TypeOK, TableTypes
  <2>2. \A d \in Clients : entity[d] # None => conn'[d] = conn[d]
    BY <1>2 DEF AcceptDeadUS, TypeOK, ClientTypes, Registered, PointersSound
  <2>3. UNCHANGED <<entity, alloc, client, name, list, living>>
    BY <1>2 DEF AcceptDeadUS, endpointVars
  <2>4. QED
    BY <2>1, <2>2, <2>3, NeutralStep
<1>3. ASSUME NEW c \in Clients, NEW e \in Endpoints, AcceptUS(c, e) PROVE Registered'
  <2>1. entity[c] = None
    BY <1>3 DEF AcceptUS, Registered, PointersSound
  <2>2. QED
    BY <1>3, <2>1, NewEndpointStep DEF AcceptUS
<1>4. ASSUME NEW c \in Clients, NEW e \in Endpoints, Upgrade(c, e) PROVE Registered'
  <2>1. entity[c] # None => name[entity[c]] = None
    BY <1>4 DEF Upgrade, HasMsg, UpgradeFirst, HsOps
  <2>2. conn' = [conn EXCEPT ![c] = "open"]
    BY <1>4 DEF Upgrade, HasMsg, TypeOK, ClientTypes
  <2>3. QED
    BY <1>4, <2>1, <2>2, NewEndpointStep DEF Upgrade
<1>5. ASSUME NEW c \in Clients, UpgradeNoEndpoint(c) \/ StartRefused(c) \/ EndSession(c)
                                \/ OtherMessage(c) \/ WindowWithoutSession(c)
                                \/ PacketWithoutEntity(c)
      PROVE  Registered'
  <2>1. UNCHANGED <<conn, entity, alloc, client, name, list, living, dangling>>
    BY <1>5 DEF UpgradeNoEndpoint, StartRefused, StartSession, EndSession, OtherMessage,
       WindowWithoutSession, PacketWithoutEntity, clientVars, endpointVars, tableVars
  <2>2. QED
    BY <1>0, <2>1, NeutralStep
<1>6. ASSUME NEW c \in Clients, StartNotStored(c) PROVE Registered'
  <2>1. UNCHANGED <<conn, entity, alloc, client, name, list, living>>
    BY <1>6 DEF StartNotStored, StartSession
  <2>2. \A e : InDangling(e)' => InDangling(e)
    BY <1>6, AfterKeep DEF StartNotStored, TypeOK, TableTypes
  <2>3. QED
    BY <2>1, <2>2, NeutralStep
<1>7. ASSUME NEW c \in Clients, NEW n \in Names, StartAccepted(c, n) PROVE Registered'
  BY <1>7, AcceptedStep
<1>8. ASSUME NEW c \in Clients, ReadEnds(c) PROVE Registered'
  BY <1>8, DisconnectStep DEF ReadEnds
<1>9. ASSUME NEW c \in Clients, NEW m \in Msgs, Send(c, m) PROVE Registered'
  <2>1. UNCHANGED <<conn, entity, alloc, client, name, list, living, dangling>>
    BY <1>9 DEF Send, endpointVars, tableVars
  <2>2. QED
    BY <1>0, <2>1, NeutralStep
<1>10. CASE Tick \/ CheckNothing \/ UNCHANGED vars
  <2>1. UNCHANGED <<conn, entity, alloc, client, name, list, living, dangling>>
    BY <1>10 DEF Tick, CheckNothing, vars, clientVars, endpointVars, tableVars
  <2>2. QED
    BY <1>0, <2>1, NeutralStep
<1>11. CASE CheckNoResponding
  BY <1>11, NoRespondingStep
<1>12. CASE CheckDangling
  BY <1>12, CheckDanglingStep
<1>13. CASE Shutdown
  BY <1>13, ShutdownStep
<1>14. QED
  BY <1>1, <1>2, <1>3, <1>4, <1>5, <1>6, <1>7, <1>8, <1>9, <1>10, <1>11, <1>12, <1>13
     DEF Next, Accept, Read, IdlePoll

LEMMA ConsistentInit == Init => Consistent
<1> SUFFICES ASSUME Init PROVE Consistent
  OBVIOUS
<1>1. TypeOK /\ DanglingShort
  BY TypesInit
<1>2. \A e : ~InDangling(e)
  BY Empty DEF Init
<1>3. PointersSound
  BY <1>2, NoneAssumption DEF Init, PointersSound
<1>4. TablesAgree
  BY NoneAssumption DEF Init, TablesAgree
<1>5. UpgradeFirst
  BY DEF Init, UpgradeFirst, NoMsg, HsOps
<1>6. QED
  BY <1>1, <1>3, <1>4, <1>5 DEF Consistent, Registered

LEMMA ConsistentStep == Consistent /\ [Next]_vars => Consistent'
BY TypesStep, RegisteredStep, UpgradeFirstStep DEF Consistent

\* The inductive invariant of the registry: types, at most one dangling endpoint,
\* sound pointers, agreeing tables, upgrade requests before frames.
THEOREM AlwaysConsistent == Spec => []Consistent
BY ConsistentInit, ConsistentStep, PTL DEF Spec

\* No pointer that the timers, the name table or a connection holds is stale,
\* whatever clients connect, upgrade in pieces, authenticate, fall silent or leave.
THEOREM PointersAlwaysSound == Spec => []PointersSound
<1>1. Consistent => PointersSound
  BY DEF Consistent, Registered
<1>2. QED
  BY <1>1, AlwaysConsistent, PTL

\* endpoint_list, the endpoints' names and living_avl agree in every state.
THEOREM TablesAlwaysAgree == Spec => []TablesAgree
<1>1. Consistent => TablesAgree
  BY DEF Consistent, Registered
<1>2. QED
  BY <1>1, AlwaysConsistent, PTL

-----------------------------------------------------------------------------
(* The counters nr_clients and nr_endpoints.                               *)

Open(k) == {c \in Clients : conn[c] = "open" /\ KindOf(c) = k}

ClientsCounted ==
  \A k \in Kinds : nrClients[k] = Cardinality(Open(k)) /\ nrClients[k] <= MaxClients

EndpointsCounted == nrEndpoints = Cardinality(living)

LEMMA KindIsKind == \A c : KindOf(c) \in Kinds
BY DEF KindOf, Kinds

LEMMA OpenFinite ==
  ASSUME NEW S \in SUBSET Clients
  PROVE  IsFiniteSet(S) /\ Cardinality(S) \in Nat
BY ClientSetFinite

\* Clients hung up were open: the counter of their kind loses exactly them.
LEMMA HangUpCounts ==
  ASSUME TypeOK, ClientsCounted, NEW C \in SUBSET Clients,
         \A c \in C : conn[c] = "open", HangUp(C)
  PROVE  ClientsCounted'
<1> SUFFICES ASSUME NEW k \in Kinds
             PROVE  nrClients'[k] = Cardinality(Open(k)') /\ nrClients'[k] <= MaxClients
  BY DEF ClientsCounted
<1> DEFINE X == {c \in C : KindOf(c) = k}
<1>1. Open(k)' = Open(k) \ X
  BY DEF Open, HangUp
<1>2. Open(k) \cap X = X
  BY DEF Open
<1>3. IsFiniteSet(Open(k)) /\ Cardinality(Open(k)) \in Nat
  BY OpenFinite DEF Open
<1>4. Cardinality(X) \in Nat
  BY OpenFinite
<1>5. Cardinality(Open(k) \ X) = Cardinality(Open(k)) - Cardinality(Open(k) \cap X)
  BY <1>3, FS_Difference
<1>6. nrClients'[k] = nrClients[k] - Cardinality(X)
  BY DEF HangUp
<1>7. nrClients[k] = Cardinality(Open(k)) /\ nrClients[k] <= MaxClients
  BY DEF ClientsCounted
<1> HIDE DEF X
<1>8. Cardinality(Open(k)') = nrClients[k] - Cardinality(X)
  BY <1>1, <1>2, <1>5, <1>7
<1>9. QED
  BY <1>3, <1>4, <1>6, <1>7, <1>8, TimesAssumption

\* A client accepted within the limit is counted.
LEMMA AcceptedCounts ==
  ASSUME TypeOK, ClientsCounted, NEW c \in Clients, conn[c] = "backlog",
         nrClients[KindOf(c)] + 1 <= MaxClients,
         conn' = [conn EXCEPT ![c] = "open"],
         nrClients' = [nrClients EXCEPT ![KindOf(c)] = @ + 1]
  PROVE  ClientsCounted'
<1> SUFFICES ASSUME NEW k \in Kinds
             PROVE  nrClients'[k] = Cardinality(Open(k)') /\ nrClients'[k] <= MaxClients
  BY DEF ClientsCounted
<1> USE DEF TypeOK, ClientTypes
<1>1. nrClients[k] = Cardinality(Open(k)) /\ nrClients[k] <= MaxClients
  BY DEF ClientsCounted
<1>2. CASE KindOf(c) = k
  <2>1. Open(k)' = Open(k) \cup {c} /\ c \notin Open(k)
    BY <1>2 DEF Open
  <2>2. IsFiniteSet(Open(k))
    BY OpenFinite DEF Open
  <2>3. Cardinality(Open(k)') = Cardinality(Open(k)) + 1
    BY <2>1, <2>2, FS_AddElement
  <2>4. nrClients'[k] = nrClients[k] + 1
    BY <1>2
  <2>5. QED
    BY <1>1, <1>2, <2>3, <2>4
<1>3. CASE KindOf(c) # k
  <2>1. Open(k)' = Open(k)
    BY <1>3 DEF Open
  <2>2. nrClients'[k] = nrClients[k]
    BY <1>3
  <2>3. QED
    BY <1>1, <2>1, <2>2
<1>4. QED
  BY <1>2, <1>3

\* Nothing is opened or closed.
LEMMA SameOpenCounts ==
  ASSUME ClientsCounted, UNCHANGED nrClients,
         \A c \in Clients : conn'[c] = "open" <=> conn[c] = "open"
  PROVE  ClientsCounted'
<1>1. \A k : Open(k)' = Open(k)
  BY DEF Open
<1>2. QED
  BY <1>1 DEF ClientsCounted

-----------------------------------------------------------------------------
(* nr_endpoints.                                                           *)

LEMMA LivingFinite ==
  ASSUME TypeOK
  PROVE  IsFiniteSet(living) /\ Cardinality(living) \in Nat
BY EndpointSetFinite DEF TypeOK, TableTypes

\* As many names are taken as endpoints are living: each leads to the other.
LEMMA NamesMatchLiving ==
  ASSUME TypeOK, Registered, NEW E \in SUBSET living
  PROVE  Cardinality({n \in Names : \E e \in E : name[e] = n}) = Cardinality(E)
<1> DEFINE N == {n \in Names : \E e \in E : name[e] = n}
           F == [e \in E |-> name[e]]
<1>1. \A e \in E : e \in Endpoints /\ name[e] \in Names
  BY DEF TypeOK, EndpointTypes, TableTypes, Registered, TablesAgree
<1>2. \A d, e \in E : name[d] = name[e] => d = e
  BY <1>1 DEF Registered, TablesAgree
<1>3. F \in [E -> N]
  BY <1>1
<1>4. \A d, e \in E : F[d] = F[e] => d = e
  BY <1>2
<1>5. \A n \in N : \E e \in E : F[e] = n
  OBVIOUS
<1> HIDE DEF F, N
<1>6. F \in Bijection(E, N)
  BY <1>3, <1>4, <1>5, Fun_IsBij
<1>7. IsFiniteSet(E)
  BY LivingFinite, FS_Subset
<1>8. Cardinality(N) = Cardinality(E)
  BY <1>6, <1>7, FS_Bijection, Fun_ExistsBij
<1>9. QED
  BY <1>8 DEF N

LEMMA LivingLess ==
  ASSUME TypeOK, NEW E, E \subseteq living
  PROVE  /\ Cardinality(E) \in Nat
         /\ Cardinality(living \ E) = Cardinality(living) - Cardinality(E)
<1>1. living \cap E = E
  OBVIOUS
<1>2. Cardinality(living \ E) = Cardinality(living) - Cardinality(living \cap E)
  BY LivingFinite, FS_Difference
<1>3. Cardinality(E) \in Nat
  BY EndpointSetFinite DEF TypeOK, TableTypes
<1>4. QED
  BY <1>1, <1>2, <1>3

\* on_close counts down when, and only when, a living endpoint goes.
LEMMA DisconnectEndpoints ==
  ASSUME TypeOK, Registered, EndpointsCounted, NEW c \in Clients, Disconnect(c)
  PROVE  EndpointsCounted'
<1> DEFINE E == {entity[c]} \ {None}
<1>1. E \subseteq Endpoints
  BY DEF TypeOK, ClientTypes
<1>2. NamesOf(E) = {n \in Names : \E e \in E \cap living : name[e] = n}
  BY <1>1, NoneAssumption DEF NamesOf, Registered, TablesAgree
<1>3. Cardinality(NamesOf(E)) = Cardinality(E \cap living)
  BY <1>2, NamesMatchLiving
<1>4. living' = living \ (E \cap living)
  BY DEF Disconnect, Forget
<1>5. /\ Cardinality(E \cap living) \in Nat
      /\ Cardinality(living') = Cardinality(living) - Cardinality(E \cap living)
  BY <1>4, LivingLess
<1>6. nrEndpoints' = nrEndpoints - Cardinality(NamesOf(E))
  BY DEF Disconnect
<1>7. QED
  BY <1>3, <1>5, <1>6 DEF EndpointsCounted

\* deinit_server counts down once for every entry of the table.
LEMMA ShutdownEndpoints ==
  ASSUME TypeOK, Registered, EndpointsCounted, Shutdown
  PROVE  EndpointsCounted' /\ srv' = "stopped"
<1> DEFINE L == {list[n] : n \in Names} \ {None}
           D == {e \in Endpoints : InDangling(e)}
           T == {n \in Names : list[n] # None}
<1>1. living \subseteq L
  <2>1. ASSUME NEW e \in living PROVE e \in L
    <3>1. e \in Endpoints /\ name[e] \in Names
      BY DEF TypeOK, EndpointTypes, TableTypes, Registered, TablesAgree
    <3>2. list[name[e]] = e /\ e # None
      BY <3>1, NoneAssumption DEF Registered, TablesAgree
    <3>3. QED
      BY <3>1, <3>2
  <2>2. QED
    BY <2>1
<1>2. T = {n \in Names : \E e \in living : name[e] = n}
  BY NoneAssumption DEF TypeOK, TableTypes, Registered, TablesAgree
<1>3. Cardinality(T) = Cardinality(living)
  BY <1>2, NamesMatchLiving
<1>4. nrEndpoints' = nrEndpoints - Cardinality(T)
      /\ srv' = IF nrEndpoints - Cardinality(T) = 0 THEN "stopped" ELSE "leftover"
  BY DEF Shutdown
<1>5. living' = {}
  BY <1>1 DEF Shutdown, Forget
<1>6. Cardinality(living) \in Nat
  BY LivingFinite
<1> HIDE DEF T
<1>7. nrEndpoints - Cardinality(T) = 0
  BY <1>3, <1>6 DEF EndpointsCounted
<1>8. QED
  BY <1>4, <1>5, <1>7, FS_EmptySet DEF EndpointsCounted

-----------------------------------------------------------------------------
(* The invariant.                                                          *)

Counted == ClientsCounted /\ EndpointsCounted /\ ShutdownClean

\* The clients of a set of bound endpoints are open.
LEMMA BoundOpen ==
  ASSUME Registered, NEW C, NEW E \in SUBSET Endpoints,
         \A c \in C : \E e \in E : c = client[e],
         \A e \in E : InDangling(e) \/ e \in living \/ (\E n \in Names : list[n] = e),
         TypeOK
  PROVE  C \in SUBSET Clients /\ \A c \in C : conn[c] = "open"
<1>1. ASSUME NEW c \in C PROVE c \in Clients /\ conn[c] = "open"
  <2>1. PICK e \in E : c = client[e]
    OBVIOUS
  <2>2. client[e] \in Clients /\ entity[client[e]] = e
    BY DEF Registered, PointersSound, TypeOK, EndpointTypes
  <2>3. QED
    BY <2>1, <2>2, NoneAssumption DEF Registered, PointersSound
<1>2. QED
  BY <1>1

LEMMA AcceptCounted ==
  ASSUME Consistent, Counted, NEW c \in Clients, Accept(c)
  PROVE  Counted'
<1> USE DEF Consistent, Counted, ShutdownClean
<1>1. EndpointsCounted' /\ UNCHANGED srv
  BY DEF Accept, Refuse, AcceptDeadUS, AcceptWS, AcceptUS, NewEndpoint, tableVars,
     EndpointsCounted
<1>2. CASE Refuse(c) \/ AcceptDeadUS(c)
  <2>1. /\ conn[c] = "backlog" /\ conn' = [conn EXCEPT ![c] = "closed"]
        /\ UNCHANGED nrClients
    BY <1>2 DEF Refuse, AcceptDeadUS
  <2>2. \A d \in Clients : conn'[d] = "open" <=> conn[d] = "open"
    BY <2>1 DEF TypeOK, ClientTypes
  <2>3. QED
    BY <1>1, <2>1, <2>2, SameOpenCounts
<1>3. CASE AcceptWS(c) \/ \E e \in Endpoints : AcceptUS(c, e)
  <2>1. /\ conn[c] = "backlog" /\ conn' = [conn EXCEPT ![c] = "open"]
        /\ nrClients[KindOf(c)] + 1 <= MaxClients
        /\ nrClients' = [nrClients EXCEPT ![KindOf(c)] = @ + 1]
    BY <1>3 DEF AcceptWS, AcceptUS, KindOf
  <2>2. QED
    BY <1>1, <2>1, AcceptedCounts
<1>4. QED
  BY <1>2, <1>3 DEF Accept

LEMMA ReadCounted ==
  ASSUME Consistent, Counted, NEW c \in Clients, Read(c)
  PROVE  Counted'
<1> USE DEF Consistent, Counted, ShutdownClean
<1>1. CASE ReadEnds(c)
  <2>1. EndpointsCounted' /\ UNCHANGED srv
    BY <1>1, DisconnectEndpoints DEF ReadEnds, Disconnect
  <2>2. ClientsCounted'
    BY <1>1, HangUpCounts DEF ReadEnds, Disconnect
  <2>3. QED
    BY <2>1, <2>2
<1>2. ASSUME NEW n \in Names, StartAccepted(c, n) PROVE Counted'
  <2>1. entity[c] \in Endpoints /\ InDangling(entity[c])
    BY <1>2 DEF StartAccepted, StartSession, Bound, TypeOK, ClientTypes
  <2>2. entity[c] \notin living
    BY <2>1 DEF Registered, TablesAgree
  <2>3. Cardinality(living') = Cardinality(living) + 1
    BY <1>2, <2>2, LivingFinite, FS_AddElement DEF StartAccepted
  <2>4. EndpointsCounted'
    BY <1>2, <2>3 DEF StartAccepted, EndpointsCounted
  <2>5. UNCHANGED <<srv, conn, nrClients>>
    BY <1>2 DEF StartAccepted, StartSession
  <2>6. QED
    BY <2>4, <2>5, SameOpenCounts
<1>3. ASSUME \/ UpgradeNoEndpoint(c)
             \/ \E e \in Endpoints : Upgrade(c, e)
             \/ StartRefused(c) \/ StartNotStored(c)
             \/ EndSession(c) \/ OtherMessage(c)
             \/ WindowWithoutSession(c) \/ PacketWithoutEntity(c)
      PROVE  Counted'
  <2>1. UNCHANGED <<conn, nrClients, living, nrEndpoints>>
    BY <1>3 DEF UpgradeNoEndpoint, Upgrade, NewEndpoint, StartRefused, StartNotStored,
       StartSession, EndSession, OtherMessage, WindowWithoutSession, PacketWithoutEntity,
       clientVars, tableVars
  <2>2. srv' # "leftover"
    BY <1>3 DEF UpgradeNoEndpoint, Upgrade, StartRefused, StartNotStored, StartSession,
       EndSession, OtherMessage, WindowWithoutSession, PacketWithoutEntity
  <2>3. QED
    BY <2>1, <2>2, SameOpenCounts DEF EndpointsCounted
<1>4. QED
  BY <1>1, <1>2, <1>3 DEF Read

LEMMA IdlePollCounted ==
  ASSUME Consistent, Counted, IdlePoll
  PROVE  Counted'
<1> USE DEF Consistent, Counted, ShutdownClean
<1>1. CASE CheckNoResponding
  <2> DEFINE E == {e \in living : age[e] > NoRespTime}
             C == {client[e] : e \in E}
  <2>1. HangUp(C) /\ Forget(E) /\ nrEndpoints' = nrEndpoints - Cardinality(E) /\ UNCHANGED srv
    BY <1>1 DEF CheckNoResponding
  <2>2. E \in SUBSET Endpoints /\ E \subseteq living
    BY DEF TypeOK, TableTypes
  <2>3. \A c \in C : \E e \in E : c = client[e]
    OBVIOUS
  <2> HIDE DEF E, C
  <2>4. C \in SUBSET Clients /\ \A c \in C : conn[c] = "open"
    BY <2>2, <2>3, BoundOpen
  <2>5. ClientsCounted'
    BY <2>1, <2>4, HangUpCounts
  <2>6. Cardinality(living') = Cardinality(living) - Cardinality(E)
    BY <2>1, <2>2, LivingLess DEF Forget
  <2>7. QED
    BY <2>1, <2>5, <2>6 DEF EndpointsCounted
<1>2. CASE CheckDangling
  <2> DEFINE E == {e \in Endpoints : InDangling(e) /\ age[e] > NoRespTime}
             C == {client[e] : e \in E}
  <2>1. HangUp(C) /\ Forget(E) /\ UNCHANGED <<srv, nrEndpoints>>
    BY <1>2 DEF CheckDangling
  <2>2. \A c \in C : \E e \in E : c = client[e]
    OBVIOUS
  <2>3. E \in SUBSET Endpoints /\ \A e \in E : InDangling(e)
    OBVIOUS
  <2>4. living' = living
    BY <2>1, <2>3 DEF Forget, Registered, TablesAgree
  <2> HIDE DEF E, C
  <2>5. C \in SUBSET Clients /\ \A c \in C : conn[c] = "open"
    BY <2>2, <2>3, BoundOpen
  <2>6. QED
    BY <2>1, <2>4, <2>5, HangUpCounts DEF EndpointsCounted
<1>3. CASE CheckNothing
  BY <1>3, SameOpenCounts DEF CheckNothing, clientVars, tableVars, EndpointsCounted
<1>4. QED
  BY <1>1, <1>2, <1>3 DEF IdlePoll

LEMMA ShutdownCounted ==
  ASSUME Consistent, Counted, Shutdown
  PROVE  Counted'
<1> USE DEF Consistent, Counted, ShutdownClean
<1> DEFINE E == ({list[n] : n \in Names} \ {None}) \cup {e \in Endpoints : InDangling(e)}
           C == {client[e] : e \in E} \ {None}
<1>1. HangUp(C)
  BY DEF Shutdown
<1>2. \A c \in C : \E e \in E : c = client[e]
  OBVIOUS
<1>3. /\ E \in SUBSET Endpoints
      /\ \A e \in E : InDangling(e) \/ \E n \in Names : list[n] = e
  BY DEF TypeOK, TableTypes
<1> HIDE DEF E, C
<1>4. C \in SUBSET Clients /\ \A c \in C : conn[c] = "open"
  BY <1>2, <1>3, BoundOpen
<1>5. ClientsCounted'
  BY <1>1, <1>4, HangUpCounts
<1>6. QED
  BY <1>5, ShutdownEndpoints

LEMMA CountedInit == Init => Counted
<1> SUFFICES ASSUME Init PROVE Counted
  OBVIOUS
<1>1. \A k : Open(k) = {}
  BY DEF Init, Open
<1>2. ClientsCounted
  <2>1. \A k \in Kinds : nrClients[k] = 0 /\ Cardinality(Open(k)) = 0
    BY <1>1, FS_EmptySet DEF Init
  <2>2. QED
    BY <2>1, TimesAssumption DEF ClientsCounted
<1>3. EndpointsCounted
  BY FS_EmptySet DEF Init, EndpointsCounted
<1>4. QED
  BY <1>2, <1>3 DEF Init, Counted, ShutdownClean

LEMMA CountedStep ==
  ASSUME Consistent, Counted, [Next]_vars
  PROVE  Counted'
<1> USE DEF Consistent
<1>1. ASSUME \/ \E c \in Clients : Connect(c) \/ PeerClose(c)
             \/ \E c \in Clients, m \in Msgs : Send(c, m)
             \/ Tick
             \/ UNCHANGED vars
      PROVE  Counted'
  <2>1. UNCHANGED <<srv, nrClients, living, nrEndpoints>>
    BY <1>1 DEF Connect, PeerClose, Send, Tick, vars, clientVars, tableVars
  <2>2. \A d \in Clients : conn'[d] = "open" <=> conn[d] = "open"
    BY <1>1 DEF Connect, PeerClose, Send, Tick, vars, clientVars, TypeOK, ClientTypes
  <2>3. QED
    BY <2>1, <2>2, SameOpenCounts DEF Counted, EndpointsCounted, ShutdownClean
<1>2. QED
  BY <1>1, AcceptCounted, ReadCounted, IdlePollCounted, ShutdownCounted DEF Next

\* The registry is consistent and its counters right, in every state: the
\* inductive invariant behind the two theorems that follow.
THEOREM AlwaysCounted == Spec => []Counted
BY CountedInit, CountedStep, ConsistentInit, ConsistentStep, AlwaysConsistent, PTL DEF Spec

\* nr_endpoints is the number of authenticated endpoints and nr_clients that of
\* the open connections of each kind, never above MAX_CLIENTS_EACH.
THEOREM CountsAlwaysRight == Spec => []CountsRight
<1>1. Counted => CountsRight
  BY DEF Counted, ClientsCounted, EndpointsCounted, CountsRight, Open
<1>2. QED
  BY <1>1, AlwaysCounted, PTL

\* The assertion at the end of deinit_server never fails.
THEOREM ShutdownAlwaysClean == Spec => []ShutdownClean
<1>1. Counted => ShutdownClean
  BY DEF Counted
<1>2. QED
  BY <1>1, AlwaysCounted, PTL

-----------------------------------------------------------------------------
(* RdrServer implements NameRegistry: the clients it keeps open, and the   *)
(* clients its table of names leads to, behave as the registry allows.     *)

\* The refinement mapping of RdrServer.
Connected == {c \in Clients : conn[c] = "open"}
Holder == [n \in Names |-> IF list[n] = None THEN None ELSE client[list[n]]]

LEMMA StutterForm ==
  ASSUME Connected' = Connected, Holder' = Holder
  PROVE  UNCHANGED Registry!vars
BY DEF Registry!vars, Connected, Holder

LEMMA JoinForm ==
  ASSUME NEW c \in Clients, c \notin Connected,
         Connected' = Connected \cup {c}, Holder' = Holder
  PROVE  Registry!Next
BY DEF Registry!Next, Registry!Join, Connected, Holder

LEMMA ClaimForm ==
  ASSUME NEW c \in Clients, NEW n \in Names, c \in Connected,
         Holder[n] = None, \A m \in Names : Holder[m] # c,
         Holder' = [Holder EXCEPT ![n] = c], Connected' = Connected
  PROVE  Registry!Next
<1>1. Registry!Claim(c, n)
  BY DEF Registry!Claim, Registry!HeldBy, Connected, Holder
<1>2. QED
  BY <1>1 DEF Registry!Next

LEMMA LeaveForm ==
  ASSUME NEW C, C \subseteq Connected,
         Connected' = Connected \ C,
         Holder' = [n \in Names |-> IF Holder[n] \in C THEN None ELSE Holder[n]]
  PROVE  [Registry!Next]_Registry!vars
<1>1. CASE C = {}
  <2>1. Connected' = Connected
    BY <1>1
  <2>2. Holder' = Holder
    BY <1>1 DEF Holder
  <2>3. QED
    BY <2>1, <2>2, StutterForm
<1>2. CASE C # {}
  <2>1. C \in SUBSET Clients
    BY DEF Connected
  <2>2. Registry!Leave(C)
    BY <1>2 DEF Registry!Leave, Connected, Holder
  <2>3. QED
    BY <2>1, <2>2 DEF Registry!Next
<1>3. QED
  BY <1>1, <1>2

-----------------------------------------------------------------------------
(* The steps that leave the registry alone.                                *)

LEMMA SameForm ==
  ASSUME UNCHANGED <<list, client>>,
         \A c \in Clients : conn'[c] = "open" <=> conn[c] = "open"
  PROVE  UNCHANGED Registry!vars
BY StutterForm DEF Connected, Holder

\* What the table of names leads to is not an endpoint in a client's hands yet.
LEMMA UnlistedClient ==
  ASSUME TypeOK, Registered, NEW e \in Endpoints, NEW c \in Clients,
         e \notin alloc, client' = [client EXCEPT ![e] = c], UNCHANGED list
  PROVE  Holder' = Holder
<1>1. \A n \in Names : list[n] # e
  BY DEF Registered, PointersSound
<1>2. \A n \in Names : list[n] # None => client'[list[n]] = client[list[n]]
  BY <1>1 DEF TypeOK, EndpointTypes, TableTypes
<1>3. QED
  BY <1>2 DEF Holder

-----------------------------------------------------------------------------
(* The steps that take clients away.                                       *)

\* Dropping the endpoints of E with their clients is leaving for these clients.
LEMMA DropForm ==
  ASSUME TypeOK, Registered, NEW E \in SUBSET Endpoints, Forget(E),
         \A e \in E : client[e] \in Clients /\ entity[client[e]] = e,
         HangUp({client[e] : e \in E}),
         list' = [n \in Names |-> IF \E e \in E : name[e] = n THEN None ELSE list[n]]
  PROVE  [Registry!Next]_Registry!vars
<1> DEFINE C == {client[e] : e \in E}
<1>1. C \subseteq Connected
  BY NoneAssumption DEF Connected, Registered, PointersSound
<1>2. Connected' = Connected \ C
  BY DEF Connected, HangUp
<1>3. ASSUME NEW n \in Names
      PROVE  Holder'[n] = IF Holder[n] \in C THEN None ELSE Holder[n]
  <2>0. Holder'[n] = IF list'[n] = None THEN None ELSE client'[list'[n]]
    BY DEF Holder
  <2>1. CASE list[n] = None
    <3>1. Holder[n] = None /\ None \notin C
      BY <2>1, NoneAssumption DEF Holder
    <3>2. list'[n] = None
      BY <2>1
    <3>3. QED
      BY <2>0, <3>1, <3>2
  <2>2. CASE list[n] # None
    <3>1. /\ list[n] \in Endpoints /\ name[list[n]] = n
          /\ entity[client[list[n]]] = list[n]
          /\ Holder[n] = client[list[n]]
      BY <2>2 DEF Holder, TypeOK, TableTypes, Registered, PointersSound, TablesAgree
    <3>2. \A e \in E : name[e] = n => list[n] = e
      BY DEF Registered, TablesAgree
    <3>3. CASE list[n] \in E
      <4>1. Holder[n] \in C /\ list'[n] = None
        BY <3>1, <3>3
      <4>2. QED
        BY <2>0, <4>1
    <3>4. CASE list[n] \notin E
      <4>1. Holder[n] \notin C
        BY <3>1, <3>4
      <4>2. list'[n] = list[n]
        BY <3>2, <3>4
      <4>3. client'[list[n]] = client[list[n]]
        BY <3>1, <3>4 DEF Forget
      <4>4. QED
        BY <2>0, <2>2, <3>1, <4>1, <4>2, <4>3
    <3>5. QED
      BY <3>3, <3>4
  <2>3. QED
    BY <2>1, <2>2
<1>4. Holder' = [n \in Names |-> IF Holder[n] \in C THEN None ELSE Holder[n]]
  BY <1>3 DEF Holder
<1> HIDE DEF C
<1>5. QED
  BY <1>1, <1>2, <1>4, LeaveForm

LEMMA DisconnectForm ==
  ASSUME TypeOK, DanglingShort, Registered, NEW c \in Clients,
         conn[c] = "open", Disconnect(c)
  PROVE  [Registry!Next]_Registry!vars
<1> DEFINE E == {entity[c]} \ {None}
<1>0. HangUp({c}) /\ Forget(E) /\ Unlist(E)
  BY DEF Disconnect
<1>1. CASE entity[c] = None
  <2>1. E = {}
    BY <1>1
  <2>2. UNCHANGED <<client, list>>
    BY <1>0, <2>1 DEF Forget, Unlist, NamesOf, TypeOK, EndpointTypes, TableTypes
  <2>3. {c} \subseteq Connected /\ Connected' = Connected \ {c}
    BY <1>0 DEF Connected, HangUp
  <2>4. \A n \in Names : Holder[n] # c
    BY <1>1, NoneAssumption DEF Holder, TypeOK, TableTypes, Registered, PointersSound
  <2>5. Holder' = [n \in Names |-> IF Holder[n] \in {c} THEN None ELSE Holder[n]]
    BY <2>2, <2>4 DEF Holder
  <2>6. QED
    BY <2>3, <2>5, LeaveForm
<1>2. CASE entity[c] # None
  <2>1. E = {entity[c]} /\ E \in SUBSET Endpoints
    BY <1>2 DEF TypeOK, ClientTypes
  <2>2. client[entity[c]] = c
    BY <1>2 DEF Registered, PointersSound
  <2>3. {c} = {client[e] : e \in E}
    BY <2>1, <2>2
  <2>4. \A n \in Names : n \in NamesOf(E) <=> \E e \in E : name[e] = n
    BY <2>1, NoneAssumption DEF NamesOf, Registered, TablesAgree
  <2>5. list' = [n \in Names |-> IF \E e \in E : name[e] = n THEN None ELSE list[n]]
    BY <1>0, <2>4 DEF Unlist
  <2>6. QED
    BY <1>0, <2>1, <2>2, <2>3, <2>5, DropForm
<1>3. QED
  BY <1>1, <1>2

LEMMA NoRespondingForm ==
  ASSUME TypeOK, DanglingShort, Registered, CheckNoResponding
  PROVE  [Registry!Next]_Registry!vars
<1> DEFINE E == {e \in living : age[e] > NoRespTime}
<1>0. HangUp({client[e] : e \in E}) /\ Forget(E) /\ Unlist(E)
  BY DEF CheckNoResponding
<1>1. E \in SUBSET Endpoints
  BY DEF TypeOK, TableTypes
<1>2. \A e \in E : client[e] \in Clients /\ entity[client[e]] = e
  BY <1>1 DEF TypeOK, EndpointTypes, Registered, PointersSound
<1>3. \A n \in Names : n \in NamesOf(E) <=> \E e \in E : name[e] = n
  BY <1>1, NoneAssumption DEF NamesOf, Registered, TablesAgree
<1>4. list' = [n \in Names |-> IF \E e \in E : name[e] = n THEN None ELSE list[n]]
  BY <1>0, <1>3 DEF Unlist
<1> HIDE DEF E
<1>5. QED
  BY <1>0, <1>1, <1>2, <1>4, DropForm

LEMMA CheckDanglingForm ==
  ASSUME TypeOK, DanglingShort, Registered, CheckDangling
  PROVE  [Registry!Next]_Registry!vars
<1> DEFINE E == {e \in Endpoints : InDangling(e) /\ age[e] > NoRespTime}
<1>0. HangUp({client[e] : e \in E}) /\ Forget(E) /\ UNCHANGED list
  BY DEF CheckDangling
<1>1. \A e \in E : client[e] \in Clients /\ entity[client[e]] = e
  BY DEF TypeOK, EndpointTypes, Registered, PointersSound
<1>2. \A e \in E : name[e] = None
  BY DEF Registered, TablesAgree
<1>3. list' = [n \in Names |-> IF \E e \in E : name[e] = n THEN None ELSE list[n]]
  BY <1>0, <1>2, NoneAssumption DEF TypeOK, TableTypes
<1>4. E \in SUBSET Endpoints
  OBVIOUS
<1> HIDE DEF E
<1>5. QED
  BY <1>0, <1>1, <1>3, <1>4, DropForm

LEMMA ShutdownForm ==
  ASSUME TypeOK, DanglingShort, Registered, Shutdown
  PROVE  [Registry!Next]_Registry!vars
<1> DEFINE L == {list[n] : n \in Names} \ {None}
           D == {e \in Endpoints : InDangling(e)}
           E == L \cup D
<1>0. /\ HangUp({client[e] : e \in E} \ {None}) /\ Forget(E)
      /\ list' = [n \in Names |-> None]
  BY DEF Shutdown
<1>1. E \in SUBSET Endpoints
  BY DEF TypeOK, TableTypes
<1>2. \A e \in E : client[e] \in Clients /\ entity[client[e]] = e
  BY <1>1 DEF TypeOK, EndpointTypes, TableTypes, Registered, PointersSound
<1>3. {client[e] : e \in E} \ {None} = {client[e] : e \in E}
  BY <1>2, NoneAssumption
<1>4. \A n \in Names : list[n] # None => list[n] \in E /\ name[list[n]] = n
  BY DEF TypeOK, TableTypes, Registered, TablesAgree
<1>5. list' = [n \in Names |-> IF \E e \in E : name[e] = n THEN None ELSE list[n]]
  BY <1>0, <1>4
<1> HIDE DEF E
<1>6. QED
  BY <1>0, <1>1, <1>2, <1>3, <1>5, DropForm

-----------------------------------------------------------------------------
(* The step that takes a name.                                             *)

LEMMA AcceptedForm ==
  ASSUME TypeOK, DanglingShort, Registered, NEW c \in Clients, NEW n \in Names,
         StartAccepted(c, n)
  PROVE  Registry!Next
<1> DEFINE e == entity[c]
<1>1. /\ e \in Endpoints /\ InDangling(e) /\ list[n] = None
      /\ list' = [list EXCEPT ![n] = e]
      /\ UNCHANGED <<conn, client>>
  BY DEF StartAccepted, StartSession, Bound, TypeOK, ClientTypes
<1>2. client[e] = c /\ conn[c] = "open" /\ e # None
  BY DEF StartAccepted, StartSession, Bound, Registered, PointersSound
<1>3. c \in Connected /\ Connected' = Connected
  BY <1>1, <1>2 DEF Connected
<1>4. Holder[n] = None
  BY <1>1 DEF Holder
<1>5. ASSUME NEW m \in Names, Holder[m] = c PROVE FALSE
  <2>1. list[m] # None /\ client[list[m]] = c
    BY <1>5, NoneAssumption DEF Holder
  <2>2. list[m] \in Endpoints /\ entity[c] = list[m]
    BY <2>1 DEF TypeOK, TableTypes, Registered, PointersSound
  <2>3. name[e] = m
    BY <2>2 DEF Registered, TablesAgree
  <2>4. e \in living
    BY <2>3, <1>1, NoneAssumption DEF Registered, TablesAgree
  <2>5. QED
    BY <2>4, <1>1 DEF Registered, TablesAgree
<1>6. Holder' = [Holder EXCEPT ![n] = c]
  <2>1. list'[n] = e /\ \A m \in Names : m # n => list'[m] = list[m]
    BY <1>1 DEF TypeOK, TableTypes
  <2>2. ASSUME NEW m \in Names PROVE Holder'[m] = IF m = n THEN c ELSE Holder[m]
    BY <1>1, <1>2, <2>1 DEF Holder
  <2>3. QED
    BY <2>2 DEF Holder
<1>7. QED
  BY <1>3, <1>4, <1>5, <1>6, ClaimForm

-----------------------------------------------------------------------------
(* The implementation.                                                     *)

LEMMA RegistryInit == Init => Registry!Init
BY DEF Init, Registry!Init

LEMMA RegistryStep ==
  ASSUME Consistent, [Next]_vars
  PROVE  [Registry!Next]_Registry!vars
<1> USE DEF Consistent
<1>1. ASSUME NEW c \in Clients,
             Connect(c) \/ PeerClose(c) \/ Refuse(c) \/ AcceptDeadUS(c)
      PROVE  UNCHANGED Registry!vars
  BY <1>1, SameForm DEF Connect, PeerClose, Refuse, AcceptDeadUS, endpointVars, tableVars,
     TypeOK, ClientTypes
<1>2. ASSUME NEW c \in Clients, NEW m \in Msgs, Send(c, m) PROVE UNCHANGED Registry!vars
  BY <1>2, SameForm DEF Send, endpointVars, tableVars
<1>3. CASE Tick \/ CheckNothing \/ UNCHANGED vars
  BY <1>3, SameForm DEF Tick, CheckNothing, vars, clientVars, endpointVars, tableVars
<1>4. ASSUME NEW c \in Clients, AcceptWS(c) PROVE Registry!Next
  <2>1. c \notin Connected /\ Connected' = Connected \cup {c}
    BY <1>4 DEF AcceptWS, Connected, TypeOK, ClientTypes
  <2>2. Holder' = Holder
    BY <1>4 DEF AcceptWS, Holder, endpointVars, tableVars
  <2>3. QED
    BY <2>1, <2>2, JoinForm
<1>5. ASSUME NEW c \in Clients, NEW e \in Endpoints, AcceptUS(c, e) PROVE Registry!Next
  <2>1. c \notin Connected /\ Connected' = Connected \cup {c}
    BY <1>5 DEF AcceptUS, Connected, TypeOK, ClientTypes
  <2>2. Holder' = Holder
    BY <1>5, UnlistedClient DEF AcceptUS, NewEndpoint
  <2>3. QED
    BY <2>1, <2>2, JoinForm
<1>6. ASSUME NEW c \in Clients, NEW e \in Endpoints, Upgrade(c, e)
      PROVE  UNCHANGED Registry!vars
  <2>1. Connected' = Connected
    BY <1>6 DEF Upgrade, Connected
  <2>2. Holder' = Holder
    BY <1>6, UnlistedClient DEF Upgrade, NewEndpoint
  <2>3. QED
    BY <2>1, <2>2, StutterForm
<1>7. ASSUME NEW c \in Clients,
             \/ UpgradeNoEndpoint(c) \/ StartRefused(c) \/ StartNotStored(c)
             \/ EndSession(c) \/ OtherMessage(c)
             \/ WindowWithoutSession(c) \/ PacketWithoutEntity(c)
      PROVE  UNCHANGED Registry!vars
  <2>1. UNCHANGED <<list, client, conn>>
    BY <1>7 DEF UpgradeNoEndpoint, StartRefused, StartNotStored, StartSession, EndSession,
       OtherMessage, WindowWithoutSession, PacketWithoutEntity, clientVars, endpointVars,
       tableVars
  <2>2. QED
    BY <2>1, SameForm
<1>8. ASSUME NEW c \in Clients, NEW n \in Names, StartAccepted(c, n) PROVE Registry!Next
  BY <1>8, AcceptedForm
<1>9. ASSUME NEW c \in Clients, ReadEnds(c) PROVE [Registry!Next]_Registry!vars
  BY <1>9, DisconnectForm DEF ReadEnds
<1>10. CASE CheckNoResponding
  BY <1>10, NoRespondingForm
<1>11. CASE CheckDangling
  BY <1>11, CheckDanglingForm
<1>12. CASE Shutdown
  BY <1>12, ShutdownForm
<1>13. QED
  BY <1>1, <1>2, <1>3, <1>4, <1>5, <1>6, <1>7, <1>8, <1>9, <1>10, <1>11, <1>12
     DEF Next, Accept, Read, IdlePoll

\* The renderer's server implements the registry of names: a name is held by one
\* connected client, who holds no other, and passes on only after being free.
THEOREM RefinesNameRegistry == Spec => RegistrySpec
<1>1. Spec => []Consistent
  BY AlwaysConsistent
<1>2. Consistent /\ [Next]_vars => [Registry!Next]_Registry!vars
  BY RegistryStep
<1>3. QED
  BY <1>1, <1>2, RegistryInit, PTL DEF Spec, RegistrySpec, Registry!Spec

-----------------------------------------------------------------------------
(* Who is dropped was pinged.  The sweep of check_no_responding_endpoints  *)
(* is the only one that pings; between two of them the ages grow by the    *)
(* seconds that have passed, which phase counts.                           *)

\* The seconds since the last sweep; at a sweep that is due they are a whole period.
SinceSweep == IF phase = 0 /\ ~checked THEN NoRespEvery ELSE phase
PingedInTime == \A e \in living : e \in pinged \/ age[e] <= PingTime + SinceSweep

LEMMA SinceSweepNat == TypeOK => SinceSweep \in Nat
BY TimesAssumption DEF TypeOK, SinceSweep

\* A step that leaves the clock alone pings nobody and makes nobody older; those it takes
\* for alive, or stops to take for pinged, it has just heard.
LEMMA HeardStep ==
  ASSUME TypeOK, PingedInTime, UNCHANGED clockVars,
         \A e \in living' :
            \/ e \in living /\ (e \in pinged => e \in pinged') /\ age'[e] = age[e]
            \/ age'[e] = 0
  PROVE  PingedInTime'
<1> SUFFICES ASSUME NEW e \in living', e \notin pinged'
             PROVE  age'[e] <= PingTime + SinceSweep'
  BY DEF PingedInTime
<1>1. SinceSweep' = SinceSweep /\ SinceSweep \in Nat
  BY SinceSweepNat DEF SinceSweep, clockVars
<1>2. CASE age'[e] = 0
  BY <1>1, <1>2, TimesAssumption
<1>3. CASE e \in living /\ e \notin pinged /\ age'[e] = age[e]
  BY <1>1, <1>3 DEF PingedInTime
<1>4. QED
  BY <1>2, <1>3

LEMMA ReadPinged ==
  ASSUME TypeOK, PingedInTime, NEW c \in Clients, Accept(c) \/ Read(c)
  PROVE  PingedInTime'
<1> USE DEF TypeOK, EndpointTypes, TableTypes, endpointVars, tableVars
<1>1. CASE UNCHANGED <<age, pinged, living, clockVars>>
  BY <1>1, HeardStep
<1>2. ASSUME NEW e \in Endpoints, NewEndpoint(c, e), UNCHANGED clockVars
      PROVE  PingedInTime'
  BY <1>2, HeardStep DEF NewEndpoint
<1>3. CASE Touch(c) /\ UNCHANGED <<living, clockVars>>
  BY <1>3, HeardStep DEF Touch
<1>4. ASSUME NEW n \in Names, StartAccepted(c, n)
      PROVE  PingedInTime'
  <2>1. entity[c] \in Endpoints
    BY <1>4 DEF StartAccepted, StartSession, Bound, ClientTypes
  <2>2. living' = living \cup {entity[c]} /\ age' = [age EXCEPT ![entity[c]] = 0]
        /\ UNCHANGED <<pinged, clockVars>>
    BY <1>4 DEF StartAccepted, StartSession
  <2>3. QED
    BY <2>1, <2>2, HeardStep
<1>5. CASE ReadEnds(c)
  BY <1>5, HeardStep DEF ReadEnds, Disconnect, Forget
<1>6. CASE Accept(c)
  BY <1>1, <1>2, <1>6 DEF Accept, Refuse, AcceptDeadUS, AcceptWS, AcceptUS
<1>7. CASE Read(c)
  <2>1. CASE UpgradeNoEndpoint(c) \/ WindowWithoutSession(c) \/ PacketWithoutEntity(c)
             \/ StartNotStored(c)
    BY <1>1, <2>1 DEF UpgradeNoEndpoint, WindowWithoutSession, PacketWithoutEntity,
       StartNotStored, StartSession
  <2>2. CASE \E e \in Endpoints : Upgrade(c, e)
    BY <1>2, <2>2 DEF Upgrade
  <2>3. CASE StartRefused(c) \/ EndSession(c) \/ OtherMessage(c)
    BY <1>3, <2>3 DEF StartRefused, StartSession, EndSession, OtherMessage
  <2>4. QED
    BY <1>4, <1>5, <1>7, <2>1, <2>2, <2>3 DEF Read
<1>8. QED
  BY <1>6, <1>7

\* A second may pass only when the one before was looked at: the age grows with the phase.
LEMMA TickPinged ==
  ASSUME IdleEverySecond, TypeOK, PingedInTime, Tick
  PROVE  PingedInTime'
<1>1. checked /\ ~checked' /\ SinceSweep = phase
  BY DEF Tick, SinceSweep, TypeOK
<1>2. SinceSweep' = phase + 1
  <2>1. CASE phase + 1 = NoRespEvery
    BY <1>1, <2>1, TimesAssumption DEF Tick, SinceSweep, TypeOK
  <2>2. CASE phase + 1 # NoRespEvery
    BY <1>1, <2>2, TimesAssumption DEF Tick, SinceSweep, TypeOK
  <2>3. QED
    BY <2>1, <2>2
<1>3. \A e \in living : age'[e] <= age[e] + 1
  BY TimesAssumption DEF Tick, TypeOK, EndpointTypes, TableTypes, MaxAge
<1>4. living' = living /\ pinged' = pinged
  BY DEF Tick, tableVars
<1>5. \A e \in living : age[e] \in Nat /\ age'[e] \in Nat
  BY TimesAssumption DEF Tick, TypeOK, EndpointTypes, TableTypes, MaxAge
<1>6. QED
  BY <1>1, <1>2, <1>3, <1>4, <1>5, TimesAssumption DEF PingedInTime, TypeOK

LEMMA IdlePollPinged ==
  ASSUME TypeOK, PingedInTime, IdlePoll
  PROVE  PingedInTime'
<1>1. CASE CheckNoResponding
  <2> DEFINE E == {e \in living : age[e] > NoRespTime}
             P == {e \in living \ E : age[e] > PingTime}
  <2> SUFFICES ASSUME NEW e \in living', e \notin pinged'
               PROVE  age'[e] <= PingTime + SinceSweep'
    BY DEF PingedInTime
  <2>1. SinceSweep' = 0
    BY <1>1 DEF CheckNoResponding, Idle, SinceSweep
  <2>2. e \in living /\ e \notin E /\ e \notin P
    BY <1>1 DEF CheckNoResponding, Forget
  <2>3. age'[e] = age[e]
    BY <1>1, <2>2 DEF CheckNoResponding, Forget, TypeOK, TableTypes
  <2>4. age[e] \in Nat
    BY <2>2, TimesAssumption DEF TypeOK, EndpointTypes, TableTypes, MaxAge
  <2>5. QED
    BY <2>1, <2>2, <2>3, <2>4, TimesAssumption
<1>2. CASE CheckDangling \/ CheckNothing
  <2> SUFFICES ASSUME NEW e \in living', e \notin pinged'
               PROVE  age'[e] <= PingTime + SinceSweep'
    BY DEF PingedInTime
  <2>1. SinceSweep' = SinceSweep /\ SinceSweep \in Nat
    BY <1>2, SinceSweepNat DEF CheckDangling, CheckNothing, SinceSweep
  <2>2. e \in living /\ e \notin pinged
    BY <1>2 DEF CheckDangling, CheckNothing, Forget, endpointVars, tableVars
  <2>3. age'[e] = age[e]
    BY <1>2, <2>2 DEF CheckDangling, CheckNothing, Forget, endpointVars, tableVars, TypeOK,
       TableTypes
  <2>4. QED
    BY <2>1, <2>2, <2>3 DEF PingedInTime
<1>3. QED
  BY <1>1, <1>2 DEF IdlePoll

LEMMA PingedStep ==
  ASSUME IdleEverySecond, TypeOK, TablesAgree, PingedInTime, [Next]_vars
  PROVE  PingedInTime'
<1>1. ASSUME NEW c \in Clients, Connect(c) \/ PeerClose(c)
      PROVE  PingedInTime'
  BY <1>1, HeardStep DEF Connect, PeerClose, endpointVars, tableVars
<1>2. ASSUME NEW c \in Clients, NEW m \in Msgs, Send(c, m)
      PROVE  PingedInTime'
  BY <1>2, HeardStep DEF Send, endpointVars, tableVars
<1>3. CASE Shutdown
  <2>1. \A e \in living : \E n \in Names : list[n] = e
    BY DEF TablesAgree, TypeOK, EndpointTypes, TableTypes
  <2>2. living \subseteq {list[n] : n \in Names} \ {None}
    BY <2>1, NoneAssumption DEF TypeOK, TableTypes
  <2>3. living' = {}
    BY <1>3, <2>2 DEF Shutdown, Forget
  <2>4. QED
    BY <2>3 DEF PingedInTime
<1>4. CASE UNCHANGED vars
  BY <1>4, HeardStep DEF vars, endpointVars, tableVars
<1>5. QED
  BY <1>1, <1>2, <1>3, <1>4, ReadPinged, TickPinged, IdlePollPinged DEF Next

\* An endpoint that check_no_responding_endpoints drops was pinged since it was last heard,
\* whatever was read and swept in between - if the interface is idle in every second, and
\* the time between the limits is not shorter than the period of the sweep.
THEOREM DroppedArePinged ==
  ASSUME IdleEverySecond, PingTime + NoRespEvery <= NoRespTime
  PROVE  Spec => DroppedWasPinged
<1>1. Init => PingedInTime
  BY DEF Init, PingedInTime
<1>2. TypeOK /\ TablesAgree /\ PingedInTime /\ [Next]_vars => PingedInTime'
  BY PingedStep
<1>3. TypeOK /\ PingedInTime /\ [Next]_vars
        => [\A e \in living : CheckNoResponding /\ e \notin living' => e \in pinged]_vars
  <2> SUFFICES ASSUME TypeOK, PingedInTime, CheckNoResponding, NEW e \in living,
                      e \notin living'
               PROVE  e \in pinged
    OBVIOUS
  <2>1. age[e] > NoRespTime
    BY DEF CheckNoResponding, Forget
  <2>2. SinceSweep = NoRespEvery
    BY DEF CheckNoResponding, Idle, SinceSweep
  <2>3. age[e] \in Nat
    BY TimesAssumption DEF TypeOK, EndpointTypes, TableTypes, MaxAge
  <2>4. QED
    BY <2>1, <2>2, <2>3, TimesAssumption DEF PingedInTime
<1>4. QED
  BY <1>1, <1>2, <1>3, TypesAlwaysRight, TablesAlwaysAgree, PTL DEF Spec, DroppedWasPinged

=============================================================================
