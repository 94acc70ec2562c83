----------------------------- MODULE OverlapServer -----------------------------
(***************************************************************************)
(* OverlapPipeServer (OverlapServer.cpp, BaseNamedPipe.h): one thread that *)
(* serves a fixed number of pipe instances, each with a manual-reset event *)
(* for its Reader and one for its Writer.  pc says where the thread is:    *)
(*   "create", "reader", "writer"  in Start, before CreateNamedPipe and    *)
(*                                 the two ConnectToNewClient of channel   *)
(*   "idle"                        between two calls of the application    *)
(*   "reads", "awaits"             in the first and the second loop of Tick *)
(*   "writes"                      in its last loops, at Writers[channel]  *)
(*   "crashed"                     the process is gone                     *)
(* Stop does nothing.  HandleAwait keeps the number of bytes to itself, so *)
(* MessageSize is 0 after every read and OnRequest is never called: a      *)
(* message that is read is gone.                                           *)
(***************************************************************************)
EXTENDS Naturals, Sequences

CONSTANTS ChannelCount,
          MaxUnread,  \* bound: messages queued unread on one pipe
          MaxSends,   \* bound: messages all clients send together
          MaxWrites   \* bound: messages the application writes

ASSUME OverlapAssumption ==
  /\ ChannelCount \in Nat \ {0}
  /\ {MaxUnread, MaxSends, MaxWrites} \subseteq Nat

VARIABLES
  state,       \* of each pipe
  unread,      \* messages sent on it and not read
  connecting,  \* its ConnectNamedPipes outstanding: of "reader", of "writer"
  reading,     \* the pipes with a ReadFile outstanding
  ReadHandles,   \* the channels whose read event is set
  WriteHandles,  \* the channels whose write event is set
  readAwaits,    \* the channels whose Reader has AwaitingIo
  writeAwaits,   \* the channels whose Writer has AwaitingIo
  pc,
  channel,
  Outbox,      \* messages posted: "short", or too "long" for Message
  copy,        \* the copy of it Tick is writing
  delivered,   \* history: the channels whose client was sent a message
  sends,       \* messages sent by clients so far
  posted       \* messages posted so far

pipeVars  == <<state, unread, connecting, reading>>
eventVars == <<ReadHandles, WriteHandles, readAwaits, writeAwaits>>
boxVars   == <<Outbox, copy, delivered, posted>>
vars      == <<pipeVars, eventVars, boxVars, pc, channel, sends>>

Channels == 1 .. ChannelCount

TypeOK ==
  /\ state \in [Channels -> {"none", "listening", "connected", "broken"}]
  /\ unread \in [Channels -> Nat]
  /\ connecting \in [Channels -> SUBSET {"reader", "writer"}]
  /\ {reading, ReadHandles, WriteHandles, readAwaits, writeAwaits, delivered} \subseteq SUBSET Channels
  /\ pc \in {"create", "reader", "writer", "idle", "reads", "awaits", "writes", "crashed"}
  /\ channel \in Channels
  /\ {Outbox, copy} \subseteq Seq({"short", "long"})
  /\ pc = "writes" <=> copy # <<>>
  /\ sends \in Nat
  /\ posted \in Nat

Init ==
  /\ state = [i \in Channels |-> "none"]
  /\ unread = [i \in Channels |-> 0]
  /\ connecting = [i \in Channels |-> {}]
  /\ reading = {}
  /\ ReadHandles = {}
  /\ WriteHandles = {}
  /\ readAwaits = {}
  /\ writeAwaits = {}
  /\ pc = "create"
  /\ channel = 1
  /\ Outbox = <<>>
  /\ copy = <<>>
  /\ delivered = {}
  /\ sends = 0
  /\ posted = 0

--------------------------------------------------------------------------------
(* Start.                                                                  *)

\* Start goes on with the next channel.
NextChannel ==
  IF channel < ChannelCount
    THEN channel' = channel + 1 /\ pc' = "create"
    ELSE channel' = 1 /\ pc' = "idle"

\* CreateNamedPipe fails, and the channel is left with no pipe and no events.
CreateFails ==
  /\ pc = "create"
  /\ NextChannel
  /\ UNCHANGED <<pipeVars, eventVars, boxVars, sends>>

\* CreateNamedPipe; both events are created set.
Create ==
  /\ pc = "create"
  /\ state' = [state EXCEPT ![channel] = "listening"]
  /\ ReadHandles' = ReadHandles \union {channel}
  /\ WriteHandles' = WriteHandles \union {channel}
  /\ pc' = "reader"
  /\ UNCHANGED <<unread, connecting, reading, readAwaits, writeAwaits, boxVars,
                 channel, sends>>

\* ConnectNamedPipe of one side resets its event; it stays outstanding, or a
\* client was first (ERROR_PIPE_CONNECTED), or one was and has gone.
ConnectToNewClient(side) ==
  connecting' = IF state[channel] = "listening"
                  THEN [connecting EXCEPT ![channel] = @ \union {side}]
                  ELSE connecting

\* Mutant: ERROR_PIPE_CONNECTED is treated as any other error.
EventAfterConnectReset(handles) == handles \ {channel}

EventAfterConnect(handles) ==
  IF state[channel] = "connected" THEN handles ELSE handles \ {channel}

AwaitingAfterConnect(awaits) ==
  IF state[channel] = "listening" THEN awaits \union {channel} ELSE awaits

ConnectReader ==
  /\ pc = "reader"
  /\ ConnectToNewClient("reader")
  /\ ReadHandles' = EventAfterConnect(ReadHandles)
  /\ readAwaits' = AwaitingAfterConnect(readAwaits)
  /\ pc' = "writer"
  /\ UNCHANGED <<state, unread, reading, WriteHandles, writeAwaits, boxVars,
                 channel, sends>>

ConnectWriter ==
  /\ pc = "writer"
  /\ ConnectToNewClient("writer")
  /\ WriteHandles' = EventAfterConnect(WriteHandles)
  /\ writeAwaits' = AwaitingAfterConnect(writeAwaits)
  /\ NextChannel
  /\ UNCHANGED <<state, unread, reading, ReadHandles, readAwaits, boxVars, sends>>

--------------------------------------------------------------------------------
(* Tick.                                                                   *)

Tick ==
  /\ pc = "idle"
  /\ pc' = "reads"
  /\ UNCHANGED <<pipeVars, eventVars, boxVars, channel, sends>>

AllCreated == \A i \in Channels : state[i] # "none"

\* With a null event WaitForMultipleObjects returns WAIT_FAILED, and Readers has
\* nothing at that index.
WaitFails ==
  /\ pc = "reads"
  /\ ~AllCreated
  /\ pc' = "crashed"
  /\ UNCHANGED <<pipeVars, eventVars, boxVars, channel, sends>>

\* WaitForMultipleObjects: the first of the events that are set.
First(handles) == CHOOSE i \in handles : \A j \in handles : i <= j

\* HandleAwait and ReadFile, which resets the event; it is set again if the read
\* completes at once, and not if the read fails.
ReadNext ==
  LET i == First(ReadHandles) IN
  /\ pc = "reads"
  /\ AllCreated
  /\ ReadHandles # {}
  /\ readAwaits' = readAwaits \ {i}
  /\ ReadHandles' = IF unread[i] > 0 THEN ReadHandles ELSE ReadHandles \ {i}
  /\ unread' = IF unread[i] > 0 THEN [unread EXCEPT ![i] = @ - 1] ELSE unread
  /\ reading' = IF unread[i] = 0 /\ state[i] = "connected" THEN reading \union {i} ELSE reading
  /\ UNCHANGED <<state, connecting, WriteHandles, writeAwaits, boxVars, pc,
                 channel, sends>>

ReadsTimeOut ==
  /\ pc = "reads"
  /\ AllCreated
  /\ ReadHandles = {}
  /\ pc' = "awaits"
  /\ UNCHANGED <<pipeVars, eventVars, boxVars, channel, sends>>

\* Mutant: the write events reset themselves.
AwaitNextAutoReset ==
  /\ pc = "awaits"
  /\ WriteHandles # {}
  /\ writeAwaits' = writeAwaits \ {First(WriteHandles)}
  /\ WriteHandles' = WriteHandles \ {First(WriteHandles)}
  /\ UNCHANGED <<pipeVars, ReadHandles, readAwaits, boxVars, pc, channel, sends>>

\* HandleAwait of a Writer; nothing resets its event.
AwaitNext ==
  /\ pc = "awaits"
  /\ WriteHandles # {}
  /\ writeAwaits' = writeAwaits \ {First(WriteHandles)}
  /\ UNCHANGED <<pipeVars, ReadHandles, WriteHandles, readAwaits, boxVars, pc,
                 channel, sends>>

\* The Outbox is copied and cleared.
AwaitsTimeOut ==
  /\ pc = "awaits"
  /\ WriteHandles = {}
  /\ copy' = Outbox
  /\ Outbox' = <<>>
  /\ channel' = 1
  /\ pc' = IF Outbox = <<>> THEN "idle" ELSE "writes"
  /\ UNCHANGED <<pipeVars, eventVars, delivered, posted, sends>>

\* Mutant: the second of the two loops is left too early.
NextWriterTooEarly ==
  /\ copy' = Tail(copy)
  /\ channel' = 1
  /\ pc' = "idle"

\* The two loops of Tick go on, to the next writer or to the next message.
NextWriter ==
  IF channel < ChannelCount
    THEN channel' = channel + 1 /\ UNCHANGED <<copy, pc>>
    ELSE /\ channel' = 1
         /\ copy' = Tail(copy)
         /\ pc' = IF Len(copy) = 1 THEN "idle" ELSE "writes"

SkipWriter ==
  /\ pc = "writes"
  /\ channel \in writeAwaits
  /\ NextWriter
  /\ UNCHANGED <<pipeVars, eventVars, Outbox, delivered, posted, sends>>

\* strcpy_s into a Message of BufferSize.
CopyFails ==
  /\ pc = "writes"
  /\ channel \notin writeAwaits
  /\ Head(copy) = "long"
  /\ copy' = <<>>
  /\ pc' = "crashed"
  /\ UNCHANGED <<pipeVars, eventVars, Outbox, delivered, posted, channel, sends>>

\* WriteFile resets the event and fails, or sets it again.
WriteNext ==
  /\ pc = "writes"
  /\ channel \notin writeAwaits
  /\ Head(copy) = "short"
  /\ IF state[channel] = "connected"
       THEN /\ delivered' = delivered \union {channel}
            /\ WriteHandles' = WriteHandles \union {channel}
       ELSE /\ WriteHandles' = WriteHandles \ {channel}
            /\ UNCHANGED delivered
  /\ writeAwaits' = writeAwaits \union {channel}
  /\ NextWriter
  /\ UNCHANGED <<pipeVars, ReadHandles, readAwaits, Outbox, posted, sends>>

Write ==
  /\ pc = "idle"
  /\ posted < MaxWrites
  /\ posted' = posted + 1
  /\ \E message \in {"short", "long"} : Outbox' = Append(Outbox, message)
  /\ UNCHANGED <<pipeVars, eventVars, copy, delivered, pc, channel, sends>>

--------------------------------------------------------------------------------
(* The clients.                                                            *)

\* Both ConnectNamedPipes complete.
ClientConnect(i) ==
  /\ state[i] = "listening"
  /\ state' = [state EXCEPT ![i] = "connected"]
  /\ connecting' = [connecting EXCEPT ![i] = {}]
  /\ ReadHandles' = IF "reader" \in connecting[i] THEN ReadHandles \union {i} ELSE ReadHandles
  /\ WriteHandles' = IF "writer" \in connecting[i] THEN WriteHandles \union {i} ELSE WriteHandles
  /\ UNCHANGED <<unread, reading, readAwaits, writeAwaits, sends>>

ClientSend(i) ==
  /\ state[i] = "connected"
  /\ sends < MaxSends
  /\ unread[i] < MaxUnread
  /\ sends' = sends + 1
  /\ IF i \in reading
       THEN /\ reading' = reading \ {i}
            /\ ReadHandles' = ReadHandles \union {i}
            /\ UNCHANGED unread
       ELSE /\ unread' = [unread EXCEPT ![i] = @ + 1]
            /\ UNCHANGED <<reading, ReadHandles>>
  /\ UNCHANGED <<state, connecting, WriteHandles, readAwaits, writeAwaits>>

ClientHangUp(i) ==
  /\ state[i] = "connected"
  /\ state' = [state EXCEPT ![i] = "broken"]
  /\ reading' = reading \ {i}
  /\ ReadHandles' = IF i \in reading THEN ReadHandles \union {i} ELSE ReadHandles
  /\ UNCHANGED <<unread, connecting, WriteHandles, readAwaits, writeAwaits, sends>>

ClientStep ==
  /\ \E i \in Channels : ClientConnect(i) \/ ClientSend(i) \/ ClientHangUp(i)
  /\ UNCHANGED <<boxVars, pc, channel>>

--------------------------------------------------------------------------------
ServerStep ==
  \/ CreateFails
  \/ Create
  \/ ConnectReader
  \/ ConnectWriter
  \/ Tick
  \/ WaitFails
  \/ ReadNext
  \/ ReadsTimeOut
  \/ AwaitNext
  \/ AwaitsTimeOut
  \/ SkipWriter
  \/ CopyFails
  \/ WriteNext

Next ==
  \/ ServerStep
  \/ Write
  \/ ClientStep

Spec == Init /\ [][Next]_vars

\* The application ticks in a loop.
LiveSpec == Spec /\ WF_vars(ServerStep)
--------------------------------------------------------------------------------
(* What holds.                                                             *)

\* When the first loop of Tick ends, every client that is there has been read:
\* nothing it sent is left in the pipe, and a read is outstanding for what it sends
\* next, whether it came before the first ConnectNamedPipe of its channel, between
\* the two, or later (ConnectToNewClient, "Read from all channels").  Whoever comes
\* or sends after that is read by the next Tick, if there is one.
FirstLoopReadsAll ==
  [][pc = "reads" /\ pc' = "awaits" =>
       \A i \in Channels : state[i] = "connected" => i \in reading /\ unread[i] = 0]_vars

\* No client is ever sent a message, whenever it comes (Tick).
NothingDelivered == delivered = {}

--------------------------------------------------------------------------------
(* The inductive invariant.                                                *)

\* A client that is there has set the event of its Reader or has a read
\* outstanding, and then nothing it sent is left.
ReadersArmed ==
  \A i \in Channels :
    /\ state[i] = "connected" => i \in ReadHandles \union reading
    /\ i \in reading => unread[i] = 0

\* A pipe that listens has the ConnectNamedPipe of its Reader outstanding, and
\* the event of a Reader is set before that.
ListeningInv ==
  /\ pc = "reader" => channel \in ReadHandles
  /\ \A i \in Channels :
       state[i] = "listening" /\ ~(i = channel /\ pc = "reader") =>
         "reader" \in connecting[i]

\* Start is done with channel i, or has not come to it.
Started(i) == pc \in {"create", "reader", "writer"} => i < channel

Ahead(i) ==
  \/ pc = "create" /\ i >= channel
  \/ pc \in {"reader", "writer"} /\ i > channel

\* A Writer awaits, or its event is set, which keeps the second loop of Tick from
\* ending; so in the last loops every Writer that has or may get a client awaits.
AwaitingInv ==
  /\ \A i \in Channels : Ahead(i) => state[i] = "none"
  /\ pc \in {"reader", "writer"} => channel \in WriteHandles /\ state[channel] # "none"
  /\ \A i \in Channels :
       Started(i) => state[i] \in {"none", "broken"} \/ i \in writeAwaits \union WriteHandles
  /\ pc = "writes" =>
       \A i \in Channels : state[i] \in {"listening", "connected"} => i \in writeAwaits

IInv ==
  /\ TypeOK
  /\ ReadersArmed
  /\ ListeningInv
  /\ AwaitingInv
  /\ NothingDelivered

--------------------------------------------------------------------------------
(* Liveness.                                                               *)

\* Once the event of a Writer is set after Start, which a client does that
\* connects, the server ends in the second loop of Tick and stays there, since
\* nothing resets it, unless the process ends first, in strcpy_s or because a channel
\* has no pipe; and nothing was delivered on the way (CreateEvent, "Write to all
\* channels").
StuckBeforeWriting ==
  (WriteHandles # {} /\ pc \notin {"create", "reader", "writer"}) ~>
    ([](pc = "awaits" /\ delivered = {}) \/ pc = "crashed")
================================================================================
