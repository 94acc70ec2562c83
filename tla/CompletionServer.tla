---------------------------- MODULE CompletionServer ----------------------------
(***************************************************************************)
(* CompletionPipeServer (CompletionServer.cpp, BaseNamedPipe.h) as         *)
(* ServerMain.cpp uses it: the first version of the tick server.  It reads *)
(* with completion routines, writes in a loop to every listener, and never *)
(* closes a pipe because of a write.  One thread starts the server once,   *)
(* ticks, and may stop it; a request that the application accepts makes it *)
(* call Write.  pc says where the thread is, as in NamedPipesServer, but a *)
(* Tick with nothing to write is in WaitForSingleObjectEx from "idle" on.  *)
(***************************************************************************)
EXTENDS Win32Pipe

VARIABLES
  pc,
  ClosedHandles,  \* handle values DisconnectAndClose has closed
  WriteHandles,   \* the pipes of the listeners
  Messages,       \* the server's Outbox: what Write pushes
  Outbox,         \* the Outbox of this source file: how many it holds
  posted,         \* messages pushed to Messages so far
  listenPipe,     \* NewConnectionMessage.Pipe
  AwaitingIo,     \* NewConnectionMessage.AwaitingIo
  reader,         \* the pipe of HandleNewConnection's reader, or None
  msgIx,          \* the message WriteAllMessages is at
  writerIx        \* i of its inner loop, from 1; 0 once it is done

listenVars == <<listenPipe, AwaitingIo, reader>>
boxVars    == <<Messages, Outbox, posted>>
loopVars   == <<msgIx, writerIx>>
serverVars == <<pc, ClosedHandles, WriteHandles, boxVars, listenVars, loopVars>>
vars       == <<winVars, serverVars>>

ServerTypeOK ==
  /\ pc \in {"new", "idle", "flush", "blocked", "wait", "apc", "connect",
             "firstRead", "stopping", "deleting", "stopped"}
  /\ ClosedHandles \subseteq Handles
  /\ WriteHandles \in Seq(Handles)
  /\ Messages \in Seq(Nat)
  /\ Outbox \in Nat
  /\ posted \in Nat
  /\ listenPipe \in Handles \union {INVALID}
  /\ AwaitingIo \in BOOLEAN
  /\ reader \in Handles \union {INVALID, None}
  /\ msgIx \in DOMAIN Messages \union {1}
  /\ writerIx \in 0 .. Len(WriteHandles)

TypeOK == WinTypeOK /\ ServerTypeOK

ServerInit ==
  /\ pc = "new"
  /\ ClosedHandles = {}
  /\ WriteHandles = <<>>
  /\ Messages = <<>>
  /\ Outbox = 0
  /\ posted = 0
  /\ listenPipe = INVALID
  /\ AwaitingIo = FALSE
  /\ reader = None
  /\ msgIx = 1
  /\ writerIx = 0

Init == WinInit /\ ServerInit

--------------------------------------------------------------------------------
(* Reading.                                                                *)

\* Mutant: the last writer is dropped without being moved.
RemoveWriterDropsLast(i) == SubSeq(WriteHandles, 1, Len(WriteHandles) - 1)

RemoveWriter(i) ==
  SubSeq([WriteHandles EXCEPT ![i] = WriteHandles[Len(WriteHandles)]],
         1, Len(WriteHandles) - 1)

\* IsPipeClosed erases nothing: it has overwritten the handle it looks for.
IsPipeClosed(p) == p \in ClosedHandles

\* DisconnectAndClose of a Message on p, with q the completions queued.
DisconnectAndClose(p, q) ==
  IF Open(p)
    THEN /\ Close(p, q)
         /\ ClosedHandles' = ClosedHandles \union {p}
    ELSE /\ apcs' = q
         /\ UNCHANGED <<pipeVars, reading, evVars, ClosedHandles>>

\* HandleRead from the request on.  HandleRequest of ServerMain.cpp answers an
\* accepted request with Write; the text of a rejection goes to an Outbox that
\* no one reads.
Dispatch(p, request) ==
  /\ WriteHandles' = IF request = "listener" THEN Append(WriteHandles, p) ELSE WriteHandles
  /\ Outbox' = IF request = "rejected" THEN Outbox + 1 ELSE Outbox
  /\ IF request = "accepted"
       THEN Messages' = Append(Messages, posted + 1) /\ posted' = posted + 1
       ELSE UNCHANGED <<Messages, posted>>

\* Mutant: a read that failed is not the end of the connection.
HandleReadIgnoresErrors(p, err, request, q) ==
  /\ apcs' = q
  /\ UNCHANGED <<pipeVars, reading, evVars, sends, ClosedHandles, WriteHandles,
                 boxVars, listenPipe, AwaitingIo, loopVars>>

HandleRead(p, err, request, q) ==
  /\ IF err
       THEN /\ DisconnectAndClose(p, q)
            /\ UNCHANGED <<WriteHandles, boxVars>>
       ELSE /\ Dispatch(p, request)
            /\ IF Readable(p)
                 THEN ReadFileEx(p, q) /\ UNCHANGED ClosedHandles
                 ELSE DisconnectAndClose(p, q)
  /\ UNCHANGED <<sends, listenPipe, AwaitingIo, loopVars>>

--------------------------------------------------------------------------------
(* Start, Stop, and accepting.                                             *)

\* ListenForNewConnection up to ConnectToNewClient.
ListenForNewConnection(next) ==
  \/ \E h \in Handles :
       /\ CreateNamedPipe(h)
       /\ listenPipe' = h
       /\ pc' = "connect"
  \/ /\ \A h \in Handles : ~Creatable(h)
     /\ listenPipe' = INVALID
     /\ pc' = next
     /\ UNCHANGED pipeVars

Start ==
  /\ pc = "new"
  /\ signaled' = TRUE
  /\ ListenForNewConnection("idle")
  /\ UNCHANGED <<ioVars, connecting, sends, ClosedHandles, WriteHandles, boxVars,
                 AwaitingIo, reader, loopVars>>

\* ConnectNamedPipe resets the event and stays outstanding, or a client was
\* first (ERROR_PIPE_CONNECTED: SetEvent), or one was and has gone.
ConnectToNewClient ==
  /\ pc = "connect"
  /\ AwaitingIo' = (state[listenPipe] = "listening")
  /\ connecting' = IF AwaitingIo' THEN listenPipe ELSE connecting
  /\ signaled' = (state[listenPipe] = "connected")
  /\ pc' = IF reader = None THEN "idle" ELSE "firstRead"
  /\ UNCHANGED <<pipeVars, ioVars, sends, ClosedHandles, WriteHandles, boxVars,
                 listenPipe, reader, loopVars>>

Stop ==
  /\ pc = "idle"
  /\ pc' = "stopping"
  /\ UNCHANGED <<winVars, ClosedHandles, WriteHandles, boxVars, listenVars, loopVars>>

StopWriter ==
  /\ pc = "stopping"
  /\ WriteHandles # <<>>
  /\ DisconnectAndClose(Head(WriteHandles), apcs)
  /\ WriteHandles' = Tail(WriteHandles)
  /\ UNCHANGED <<sends, pc, boxVars, listenVars, loopVars>>

StopListening ==
  /\ pc = "stopping"
  /\ WriteHandles = <<>>
  /\ pc' = "deleting"
  /\ IF Open(listenPipe)
       THEN Close(listenPipe, apcs)
       ELSE UNCHANGED <<pipeVars, ioVars, evVars>>
  /\ listenPipe' = INVALID
  /\ UNCHANGED <<sends, ClosedHandles, WriteHandles, boxVars, AwaitingIo, reader,
                 loopVars>>

\* StopServer deletes the server with its Messages.
Delete ==
  /\ pc = "deleting"
  /\ pc' = "stopped"
  /\ Messages' = <<>>
  /\ UNCHANGED <<winVars, ClosedHandles, WriteHandles, Outbox, posted, listenVars,
                 loopVars>>

--------------------------------------------------------------------------------
(* Tick: WriteAllMessages.                                                 *)

NothingToWrite == Messages = <<>> \/ WriteHandles = <<>>

Tick ==
  /\ pc = "idle"
  /\ ~NothingToWrite
  /\ pc' = "flush"
  /\ msgIx' = 1
  /\ writerIx' = Len(WriteHandles)
  /\ UNCHANGED <<winVars, ClosedHandles, WriteHandles, boxVars, listenVars>>

Writer == WriteHandles[writerIx]

AtWriter == pc = "flush" /\ writerIx > 0

\* Mutant: the writer is left in its place, and the index with it.
SkipClosedInPlace ==
  /\ AtWriter
  /\ IsPipeClosed(Writer)
  /\ UNCHANGED vars

SkipClosed ==
  /\ AtWriter
  /\ IsPipeClosed(Writer)
  /\ WriteHandles' = RemoveWriter(writerIx)
  /\ writerIx' = writerIx - 1
  /\ UNCHANGED <<winVars, pc, ClosedHandles, boxVars, listenVars, msgIx>>

\* WriteFile on a pipe with a client writes at once, or is left pending.
WriteMessage ==
  /\ AtWriter
  /\ ~IsPipeClosed(Writer)
  /\ state[Writer] = "connected"
  /\ \/ /\ Deliver(Writer, Messages[msgIx])
        /\ writerIx' = writerIx - 1
        /\ UNCHANGED pc
     \/ /\ pc' = "blocked"
        /\ UNCHANGED <<pipeVars, writerIx>>
  /\ UNCHANGED <<ioVars, evVars, sends, ClosedHandles, WriteHandles, boxVars,
                 listenVars, msgIx>>

WriteCompletes ==
  /\ pc = "blocked"
  /\ state[Writer] = "connected"
  /\ Deliver(Writer, Messages[msgIx])
  /\ pc' = "flush"
  /\ writerIx' = writerIx - 1
  /\ UNCHANGED <<ioVars, evVars, sends, ClosedHandles, WriteHandles, boxVars,
                 listenVars, msgIx>>

\* The client is gone: nothing is written, and the loop tries again.
WriteFails ==
  /\ \/ AtWriter /\ ~IsPipeClosed(Writer)
     \/ pc = "blocked"
  /\ state[Writer] # "connected"
  /\ pc' = "flush"
  /\ UNCHANGED <<winVars, ClosedHandles, WriteHandles, boxVars, listenVars, loopVars>>

\* Mutant: the outer loop goes one too far.
NextMessageTooFar ==
  /\ pc = "flush"
  /\ writerIx = 0
  /\ msgIx <= Len(Messages)
  /\ msgIx' = msgIx + 1
  /\ writerIx' = Len(WriteHandles)
  /\ UNCHANGED <<winVars, pc, ClosedHandles, WriteHandles, boxVars, listenVars>>

NextMessage ==
  /\ pc = "flush"
  /\ writerIx = 0
  /\ msgIx < Len(Messages)
  /\ msgIx' = msgIx + 1
  /\ writerIx' = Len(WriteHandles)
  /\ UNCHANGED <<winVars, pc, ClosedHandles, WriteHandles, boxVars, listenVars>>

FinishFlush ==
  /\ pc = "flush"
  /\ writerIx = 0
  /\ msgIx = Len(Messages)
  /\ Messages' = <<>>
  /\ msgIx' = 1
  /\ pc' = "wait"
  /\ UNCHANGED <<winVars, ClosedHandles, WriteHandles, Outbox, posted, listenVars,
                 writerIx>>

--------------------------------------------------------------------------------
(* Tick: WaitForSingleObjectEx.  When the event is set and completion      *)
(* routines are queued Windows does not say which comes first.             *)

Waiting == pc = "wait" \/ (pc = "idle" /\ NothingToWrite)

WaitTimesOut ==
  /\ pc = "wait"
  /\ ~signaled
  /\ apcs = <<>>
  /\ pc' = "idle"
  /\ UNCHANGED <<winVars, ClosedHandles, WriteHandles, boxVars, listenVars, loopVars>>

\* HandleNewConnection up to ConnectToNewClient.
HandleNewConnection ==
  /\ Waiting
  /\ signaled
  /\ IF AwaitingIo /\ connecting = listenPipe
       THEN /\ pc' = "idle"
            /\ UNCHANGED <<pipeVars, listenPipe, reader>>
       ELSE /\ reader' = listenPipe
            /\ ListenForNewConnection("firstRead")
  /\ UNCHANGED <<ioVars, evVars, sends, ClosedHandles, WriteHandles, boxVars,
                 AwaitingIo, loopVars>>

FirstRead ==
  /\ pc = "firstRead"
  /\ HandleRead(reader, FALSE, "blank", apcs)
  /\ reader' = None
  /\ pc' = "idle"

\* The wait runs every completion routine queued, and Tick returns.
RunApc ==
  /\ Waiting \/ pc = "apc"
  /\ apcs # <<>>
  /\ HandleRead(Head(apcs).Pipe, Head(apcs).err, Head(apcs).request, Tail(apcs))
  /\ pc' = IF apcs' = <<>> THEN "idle" ELSE "apc"
  /\ UNCHANGED reader

--------------------------------------------------------------------------------
ServerStep ==
  \/ ConnectToNewClient
  \/ StopWriter
  \/ StopListening
  \/ Delete
  \/ Tick
  \/ SkipClosed
  \/ WriteMessage
  \/ WriteCompletes
  \/ WriteFails
  \/ NextMessage
  \/ FinishFlush
  \/ WaitTimesOut
  \/ HandleNewConnection
  \/ FirstRead
  \/ RunApc

\* A client says nothing after "listener", as Program.cs of
\* NamedPipeClientListener does: one that says it twice is sent everything twice,
\* and a message being written while its reader completes is written again.
Send(h, r) ==
  /\ ~asked[h]
  /\ ClientSend(h, r)

ClientStep ==
  /\ \E h \in Handles :
       \/ ClientConnect(h)
       \/ \E r \in Requests : Send(h, r)
       \/ ClientHangUp(h)
  /\ UNCHANGED serverVars

Next ==
  \/ Start
  \/ Stop
  \/ ServerStep
  \/ ClientStep

Spec == Init /\ [][Next]_vars

\* ServerMain.cpp ticks in a loop without conditions, and a listener keeps
\* reading.
LiveSpec == Spec /\ WF_vars(ServerStep)
--------------------------------------------------------------------------------
(* Safety.                                                                 *)

\* A connection the server has accepted and not closed always has a read
\* outstanding or a completion to be handled, whatever its handle value was
\* before ("Start listening to incoming messages", HandleNewConnection).
EveryConnectionRead ==
  \A h \in Handles :
    state[h] \in {"connected", "broken"} =>
      \/ h \in {listenPipe, reader}
      \/ h \in reading
      \/ \E i \in DOMAIN apcs : apcs[i].Pipe = h

--------------------------------------------------------------------------------
(* The feed of the listeners: ListenerFeed, where a subscriber is a client *)
(* that is there, has a writer, and whose handle value was never closed.   *)

Subscribed(h) ==
  /\ state[h] = "connected"
  /\ ~IsPipeClosed(h)
  /\ Has(WriteHandles, {h})

Feed == INSTANCE ListenerFeed WITH
  Listeners  <- Handles,
  retired    <- posted - Len(Messages),
  present    <- {h \in Handles : state[h] = "connected"},
  subscribed <- {h \in Handles : Subscribed(h)},
  feed       <- [h \in Handles |-> IF Subscribed(h) THEN feed[h] ELSE <<>>]

\* What one client's request makes the server write, every listener gets, in
\* order and once, from the backlog at its registration on, while its client
\* is there (WriteAllMessages, HandleRequest).
FeedGapless == Feed!FeedSpec

--------------------------------------------------------------------------------
(* The inductive invariants.                                               *)

Flushing == pc \in {"flush", "blocked"}
Stopping == pc \in {"stopping", "deleting", "stopped"}

\* The loop indices are at rest outside WriteAllMessages.
LoopInv ==
  /\ ~Flushing => msgIx = 1 /\ writerIx = 0
  /\ Flushing => Messages # <<>>
  /\ pc = "blocked" => writerIx > 0 /\ ~IsPipeClosed(Writer)
  /\ pc \in {"deleting", "stopped"} => WriteHandles = <<>>

\* A pipe that listens is the one HandleNewConnection accepts next, or has just
\* taken for accepted; nothing can be read from a pipe without a client.
ListeningInv ==
  /\ pc = "new" => listenPipe = INVALID
  /\ pc = "connect" => listenPipe \in Handles
  /\ reader # None => pc \in {"connect", "firstRead"}
  /\ \A h \in Handles :
       /\ state[h] = "listening" => h \in {listenPipe, reader}
       /\ state[h] \notin {"connected", "broken"} => unread[h] = <<>> /\ ~asked[h]

IInv ==
  /\ TypeOK
  /\ LoopInv
  /\ ListeningInv
  /\ EveryConnectionRead

\* The client of h wishes to listen once: its wish waits in the pipe, or is being
\* handled, or has made it a writer.
WishesOnce(h) ==
  /\ Once(unread[h], {"listener"}) /\ Once(apcs, Wishes(h)) /\ Once(WriteHandles, {h})
  /\ Has(unread[h], {"listener"}) =>
       asked[h] /\ ~Has(apcs, Wishes(h)) /\ ~Has(WriteHandles, {h})
  /\ Has(apcs, Wishes(h)) => asked[h] /\ ~Has(WriteHandles, {h})
  /\ Has(WriteHandles, {h}) => asked[h]

\* That is so as long as the handle value is new.
WishInv == \A h \in Handles \ ClosedHandles : WishesOnce(h)

\* The number of the message the client of h is to be sent next.
NextFor(h) ==
  IF feed[h] = <<>> THEN posted - Len(Messages) + 1 ELSE feed[h][Len(feed[h])] + 1

\* The number of the message that the loop sends to writer i next.
Due(i) ==
  posted - Len(Messages) + msgIx + (IF Flushing /\ i > writerIx THEN 1 ELSE 0)

\* The messages are numbered on from those that were retired.
NumberInv ==
  /\ Len(Messages) <= posted
  /\ \A k \in DOMAIN Messages : Messages[k] = posted - Len(Messages) + k

\* A subscriber is due the message that the loop will send it.
DueInv ==
  \A i \in DOMAIN WriteHandles :
    Subscribed(WriteHandles[i]) => NextFor(WriteHandles[i]) = Due(i)

\* Nothing was sent to who is no writer.
UnsentInv ==
  ~Stopping =>
    \A h \in Handles \ ClosedHandles : ~Has(WriteHandles, {h}) => feed[h] = <<>>

FeedInv ==
  /\ IInv
  /\ pc \notin {"deleting", "stopped"} => WishInv
  /\ NumberInv
  /\ DueInv
  /\ UnsentInv

--------------------------------------------------------------------------------
(* Liveness.                                                               *)

\* With listeners that read for as long as they stay, a flush ends unless the client
\* of one hangs up before it is written to; then it never does, and the server
\* accepts and reads no one again (the loop of WriteMessage).
FlushEndsUnlessHungUp ==
  pc = "flush" ~>
    pc = "wait" \/ \E i \in DOMAIN WriteHandles : state[WriteHandles[i]] = "broken"
================================================================================
