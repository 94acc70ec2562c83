--------------------------- MODULE OverlapServerProofs ---------------------------
(***************************************************************************)
(* Theorems about OverlapServer, for every number of channels and every    *)
(* bound.                                                                  *)
(***************************************************************************)
EXTENDS OverlapServer, WellFoundedInduction, TLAPS

\* WaitForMultipleObjects returns one of the events that are set.
LEMMA FirstFacts ==
  ASSUME NEW handles \in SUBSET Channels, handles # {}
  PROVE  First(handles) \in handles
<1>1. handles \subseteq Nat
  BY DEF Channels
<1>2. PICK i \in handles : \A j \in handles : ~(<<j, i>> \in OpToRel(<, Nat))
  BY <1>1, WFMin, NatLessThanWellFounded
<1>3. \A j \in handles : ~(j < i)
  BY <1>1, <1>2 DEF OpToRel
<1>4. \A j \in handles : i <= j
  BY <1>1, <1>3
<1> QED
  BY <1>2, <1>4 DEF First

\* The numbers of the channels begin at 1.
LEMMA ChannelFacts ==
  /\ 1 \in Channels
  /\ \A i \in Channels : i \in Nat /\ ~(i < 1) /\ i <= ChannelCount
  /\ \A i \in Channels : i < ChannelCount => i + 1 \in Channels
BY OverlapAssumption DEF Channels

\* Before Start there is no pipe.
LEMMA InitInv == Init => IInv
BY ChannelFacts DEF Init, IInv, TypeOK, ReadersArmed, ListeningInv, AwaitingInv, Started, Ahead,
   NothingDelivered

(***************************************************************************)
(* Every step keeps the types.                                             *)
(***************************************************************************)

\* The loops over messages and writers (Tick).
LEMMA NextWriterFacts ==
  ASSUME TypeOK, pc = "writes", NextWriter
  PROVE  /\ channel' \in Channels
         /\ copy' \in Seq({"short", "long"})
         /\ pc' \in {"idle", "writes"}
         /\ pc' = "writes" <=> copy' # <<>>
<1>1. copy \in Seq({"short", "long"}) /\ copy # <<>> /\ channel \in Channels
  BY DEF TypeOK
<1>2. CASE channel < ChannelCount
  BY <1>1, <1>2, ChannelFacts DEF NextWriter
<1>3. CASE ~(channel < ChannelCount)
  <2>1. channel' = 1 /\ copy' = Tail(copy) /\ pc' = IF Len(copy) = 1 THEN "idle" ELSE "writes"
    BY <1>3 DEF NextWriter
  <2>2. Tail(copy) \in Seq({"short", "long"}) /\ Len(Tail(copy)) = Len(copy) - 1
        /\ Len(copy) \in Nat
    BY <1>1
  <2>3. Tail(copy) = <<>> <=> Len(copy) = 1
    BY <2>2
  <2> QED
    BY <2>1, <2>2, <2>3, ChannelFacts
<1> QED
  BY <1>2, <1>3

\* The type invariant is inductive on its own.
LEMMA TypeStep ==
  ASSUME TypeOK, [Next]_vars
  PROVE  TypeOK'
<1> USE DEF TypeOK, pipeVars, eventVars, boxVars
<1>1. CASE Create
  BY <1>1 DEF Create
<1>15. CASE CreateFails
  <2>1. channel' \in Channels /\ pc' \in {"create", "idle"}
    BY <1>15, ChannelFacts DEF CreateFails, NextChannel
  <2> QED
    BY <1>15, <2>1 DEF CreateFails
<1>2. CASE ConnectReader
  BY <1>2 DEF ConnectReader, ConnectToNewClient, EventAfterConnect, AwaitingAfterConnect
<1>3. CASE ConnectWriter
  BY <1>3, ChannelFacts DEF ConnectWriter, ConnectToNewClient, EventAfterConnect,
     AwaitingAfterConnect, NextChannel
<1>4. CASE Tick
  BY <1>4 DEF Tick
<1>5. CASE ReadNext
  <2>1. PICK i \in Channels : i = First(ReadHandles)
    BY <1>5, FirstFacts DEF ReadNext
  <2>2. unread[i] > 0 => unread[i] - 1 \in Nat
    OBVIOUS
  <2> QED
    BY <1>5, <2>1, <2>2 DEF ReadNext
<1>6. CASE ReadsTimeOut \/ WaitFails
  BY <1>6 DEF ReadsTimeOut, WaitFails
<1>7. CASE AwaitNext
  BY <1>7 DEF AwaitNext
<1>8. CASE AwaitsTimeOut
  BY <1>8, ChannelFacts DEF AwaitsTimeOut
<1>9. CASE SkipWriter
  BY <1>9, NextWriterFacts DEF SkipWriter
<1>10. CASE CopyFails
  BY <1>10 DEF CopyFails
<1>11. CASE WriteNext
  BY <1>11, NextWriterFacts DEF WriteNext
<1>12. CASE Write
  BY <1>12 DEF Write
<1>13. CASE ClientStep
  <2>1. PICK i \in Channels : ClientConnect(i) \/ ClientSend(i) \/ ClientHangUp(i)
    BY <1>13 DEF ClientStep
  <2>2. UNCHANGED <<boxVars, pc, channel>>
    BY <1>13 DEF ClientStep
  <2>3. CASE ClientConnect(i)
    BY <2>2, <2>3 DEF ClientConnect
  <2>4. CASE ClientSend(i)
    BY <2>2, <2>4 DEF ClientSend
  <2>5. CASE ClientHangUp(i)
    BY <2>2, <2>5 DEF ClientHangUp
  <2> QED
    BY <2>1, <2>3, <2>4, <2>5
<1>14. CASE UNCHANGED vars
  BY <1>14 DEF vars
<1> QED
  BY <1>1, <1>2, <1>3, <1>4, <1>5, <1>6, <1>7, <1>8, <1>9, <1>10, <1>11, <1>12, <1>13, <1>14,
     <1>15 DEF Next, ServerStep

(***************************************************************************)
(* Readers.                                                                *)
(***************************************************************************)

\* Whoever is connected stays armed: a Reader's event is set before its client can
\* come, reset only while a ConnectNamedPipe or a ReadFile is outstanding, and set
\* again when that completes.
LEMMA ReadersStep ==
  ASSUME TypeOK, ReadersArmed, ListeningInv, [Next]_vars
  PROVE  ReadersArmed' /\ ListeningInv'
<1> USE DEF TypeOK, ReadersArmed, ListeningInv
<1>1. CASE Create
  BY <1>1 DEF Create
<1>8. CASE CreateFails
  BY <1>8, ChannelFacts DEF CreateFails, NextChannel, pipeVars, eventVars
<1>2. CASE ConnectReader
  BY <1>2 DEF ConnectReader, ConnectToNewClient, EventAfterConnect
<1>3. CASE ConnectWriter
  BY <1>3, ChannelFacts DEF ConnectWriter, ConnectToNewClient, NextChannel
<1>4. CASE ReadNext
  <2>1. PICK i \in Channels : i = First(ReadHandles)
    BY <1>4, FirstFacts DEF ReadNext
  <2>2. /\ UNCHANGED <<state, connecting, pc, channel>>
        /\ pc = "reads"
        /\ unread' = IF unread[i] > 0 THEN [unread EXCEPT ![i] = @ - 1] ELSE unread
        /\ ReadHandles' = IF unread[i] > 0 THEN ReadHandles ELSE ReadHandles \ {i}
        /\ reading' = IF unread[i] = 0 /\ state[i] = "connected" THEN reading \union {i}
                                                                 ELSE reading
    BY <1>4, <2>1 DEF ReadNext
  <2> QED
    BY <2>1, <2>2
<1>5. CASE Tick \/ WaitFails \/ ReadsTimeOut \/ AwaitNext \/ AwaitsTimeOut \/ CopyFails \/ Write
           \/ UNCHANGED vars
  BY <1>5 DEF Tick, WaitFails, ReadsTimeOut, AwaitNext, AwaitsTimeOut, CopyFails, Write, vars, pipeVars,
     eventVars
<1>6. CASE SkipWriter \/ WriteNext
  <2>1. pc = "writes" /\ UNCHANGED <<state, unread, connecting, reading, ReadHandles>>
    BY <1>6 DEF SkipWriter, WriteNext, pipeVars, eventVars
  <2>2. pc' # "reader"
    BY <1>6, NextWriterFacts DEF SkipWriter, WriteNext
  <2> QED
    BY <2>1, <2>2
<1>7. CASE ClientStep
  <2>1. PICK i \in Channels : ClientConnect(i) \/ ClientSend(i) \/ ClientHangUp(i)
    BY <1>7 DEF ClientStep
  <2>2. UNCHANGED <<pc, channel>>
    BY <1>7 DEF ClientStep
  <2>3. CASE ClientConnect(i)
    BY <2>2, <2>3 DEF ClientConnect
  <2>4. CASE ClientSend(i)
    BY <2>2, <2>4 DEF ClientSend
  <2>5. CASE ClientHangUp(i)
    BY <2>2, <2>5 DEF ClientHangUp
  <2> QED
    BY <2>1, <2>3, <2>4, <2>5
<1> QED
  BY <1>1, <1>2, <1>3, <1>4, <1>5, <1>6, <1>7, <1>8 DEF Next, ServerStep

(***************************************************************************)
(* Writers.                                                                *)
(***************************************************************************)

\* A Writer that neither awaits nor has its event set belongs to a client that has
\* left, so that Tick never writes to one that is there.
LEMMA WritersStep ==
  ASSUME TypeOK, AwaitingInv, NothingDelivered, [Next]_vars
  PROVE  AwaitingInv' /\ NothingDelivered'
<1> USE DEF TypeOK, AwaitingInv, NothingDelivered, Started, Ahead
<1>1. CASE Create
  BY <1>1, ChannelFacts DEF Create, boxVars
<1>10. CASE CreateFails
  <2>1. /\ UNCHANGED <<state, delivered, writeAwaits, WriteHandles>>
        /\ pc = "create" /\ pc' \in {"create", "idle"}
    BY <1>10 DEF CreateFails, NextChannel, pipeVars, eventVars, boxVars
  <2>2. \A i \in Channels : Started(i)' => i < channel \/ i = channel
    <3>1. channel \in Nat /\ ChannelCount \in Nat /\ channel <= ChannelCount
      BY ChannelFacts, OverlapAssumption
    <3>2. \/ channel' = channel + 1 /\ pc' = "create"
          \/ channel = ChannelCount
      BY <1>10, <3>1 DEF CreateFails, NextChannel
    <3>3. \A i \in Channels : i \in Nat /\ i <= ChannelCount
      BY ChannelFacts
    <3> QED
      BY <3>1, <3>2, <3>3
  <2>3. state[channel] = "none"
    BY <2>1, ChannelFacts
  <2>4. \A i \in Channels : Ahead(i)' => i > channel
    <3>1. channel \in Nat /\ \A i \in Channels : i \in Nat
      BY ChannelFacts
    <3>2. pc' = "create" => channel' = channel + 1
      BY <1>10 DEF CreateFails, NextChannel
    <3> QED
      BY <2>1, <3>1, <3>2
  <2> QED
    BY <2>1, <2>2, <2>3, <2>4
<1>2. CASE ConnectReader
  BY <1>2 DEF ConnectReader, boxVars
<1>3. CASE ConnectWriter
  <2>1. /\ UNCHANGED <<state, delivered>>
        /\ pc = "writer" /\ pc' \in {"create", "idle"}
        /\ writeAwaits \subseteq writeAwaits'
        /\ WriteHandles \ {channel} \subseteq WriteHandles'
        /\ state[channel] = "listening" => channel \in writeAwaits'
        /\ state[channel] = "connected" => channel \in WriteHandles'
        /\ state[channel] # "none"
    BY <1>3 DEF ConnectWriter, EventAfterConnect, AwaitingAfterConnect, NextChannel, boxVars
  <2>2. state[channel] = "broken" \/ channel \in writeAwaits' \union WriteHandles'
    BY <2>1
  <2>3. \A i \in Channels : i < channel => state[i] \in {"none", "broken"} \/ i \in writeAwaits' \union WriteHandles'
    BY <2>1, ChannelFacts
  <2>4. \A i \in Channels : Started(i)' => i < channel \/ i = channel
    <3>1. channel \in Nat /\ ChannelCount \in Nat /\ channel <= ChannelCount
      BY ChannelFacts, OverlapAssumption
    <3>2. \/ channel' = channel + 1 /\ pc' = "create"
          \/ channel = ChannelCount
      BY <1>3, <3>1 DEF ConnectWriter, NextChannel
    <3>3. \A i \in Channels : i \in Nat /\ i <= ChannelCount
      BY ChannelFacts
    <3> QED
      BY <3>1, <3>2, <3>3
  <2>5. \A i \in Channels : Ahead(i)' => i > channel
    <3>1. channel \in Nat /\ \A i \in Channels : i \in Nat
      BY ChannelFacts
    <3>2. pc' = "create" => channel' = channel + 1
      BY <1>3 DEF ConnectWriter, NextChannel
    <3> QED
      BY <2>1, <3>1, <3>2
  <2> QED
    BY <2>1, <2>2, <2>3, <2>4, <2>5
<1>4. CASE \/ Tick \/ WaitFails \/ ReadNext \/ ReadsTimeOut \/ CopyFails \/ Write
           \/ UNCHANGED vars
  BY <1>4 DEF Tick, WaitFails, ReadNext, ReadsTimeOut, CopyFails, Write, vars, pipeVars, eventVars, boxVars
<1>8. CASE AwaitNext
  <2>1. First(WriteHandles) \in WriteHandles
    BY <1>8, FirstFacts DEF AwaitNext
  <2> QED
    BY <1>8, <2>1 DEF AwaitNext, pipeVars, boxVars
<1>9. CASE AwaitsTimeOut
  BY <1>9 DEF AwaitsTimeOut, pipeVars, eventVars
<1>5. CASE SkipWriter
  BY <1>5, NextWriterFacts DEF SkipWriter, pipeVars, eventVars
<1>6. CASE WriteNext
  BY <1>6, NextWriterFacts DEF WriteNext, pipeVars
<1>7. CASE ClientStep
  <2>1. PICK i \in Channels : ClientConnect(i) \/ ClientSend(i) \/ ClientHangUp(i)
    BY <1>7 DEF ClientStep
  <2>2. UNCHANGED <<pc, channel, delivered>>
    BY <1>7 DEF ClientStep, boxVars
  <2> QED
    BY <2>1, <2>2 DEF ClientConnect, ClientSend, ClientHangUp
<1> QED
  BY <1>1, <1>2, <1>3, <1>4, <1>5, <1>6, <1>7, <1>8, <1>9, <1>10 DEF Next, ServerStep

(***************************************************************************)
(* The theorems.                                                           *)
(***************************************************************************)

\* The inductive invariant holds in every run of the server and its clients.
THEOREM Invariance == Spec => []IInv
<1>1. IInv /\ [Next]_vars => IInv'
  BY TypeStep, ReadersStep, WritersStep DEF IInv
<1> QED
  BY <1>1, InitInv, PTL DEF Spec

\* Every variable keeps its type, and the server is in its last loops exactly while
\* there is a message to write (OverlapPipeServer).
THEOREM TypeCorrect == Spec => []TypeOK
<1>1. IInv => TypeOK
  BY DEF IInv
<1> QED
  BY <1>1, Invariance, PTL

\* With any number of channels, and clients that come at any point of Start, the first
\* loop of Tick ends only when everything was read that those sent who are connected
\* then (ConnectToNewClient, Tick).
THEOREM FirstLoopReads == Spec => FirstLoopReadsAll
<1>1. IInv /\ [Next]_vars =>
        [pc = "reads" /\ pc' = "awaits" =>
           \A i \in Channels : state[i] = "connected" => i \in reading /\ unread[i] = 0]_vars
  <2> SUFFICES ASSUME IInv, Next, pc = "reads", pc' = "awaits",
                      NEW i \in Channels, state[i] = "connected"
               PROVE  i \in reading /\ unread[i] = 0
    OBVIOUS
  <2>1. ReadHandles = {}
    BY DEF Next, ServerStep, ClientStep, CreateFails, Create, ConnectReader, ConnectWriter, Tick,
       WaitFails, ReadNext, ReadsTimeOut, AwaitNext, AwaitsTimeOut, SkipWriter, CopyFails,
       WriteNext, Write
  <2> QED
    BY <2>1 DEF IInv, ReadersArmed
<1> QED
  BY <1>1, Invariance, PTL DEF Spec, FirstLoopReadsAll

\* With any number of channels no client is ever sent a message (Tick).
THEOREM NobodyServed == Spec => []NothingDelivered
<1>1. IInv => NothingDelivered
  BY DEF IInv
<1> QED
  BY <1>1, Invariance, PTL
================================================================================
