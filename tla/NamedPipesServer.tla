---------------------------- MODULE NamedPipesServer ----------------------------
(***************************************************************************)
(* NamedPipeServer of NamedPipes.cpp: one thread calls Start, then Tick in *)
(* a loop, then Stop.  A Tick writes the Outbox to every listener, accepts *)
(* at most one connection and runs the completion routines of its reads.   *)
(*                                                                         *)
(* Every action is at most one system call of that thread, so the clients  *)
(* of Win32Pipe move between any two calls.  pc says where the thread is:  *)
(*   "stopped"   before StartServer, after StopServer                      *)
(*   "idle"      between two calls of the application                      *)
(*   "flush"     in the loops of WriteAllMessages                          *)
(*   "blocked"   in GetOverlappedResult of WriteMessage, waiting           *)
(*   "woken"     there too, woken by a read on the same pipe               *)
(*   "wait"      in WaitForSingleObjectEx of Tick                          *)
(*   "apc"       there too, running completion routines                    *)
(*   "connect"   before ConnectNamedPipe of ConnectToPipe                  *)
(*   "firstRead" before HandleRead(0, 0, reader) of HandleNewConnection    *)
(*   "stopping"  in Stop                                                   *)
(*   "crashed"   the process is gone                                       *)
(***************************************************************************)
EXTENDS Win32Pipe

CONSTANTS QuietListeners, \* clients send nothing after "listener"
          ForeignWrites,  \* Write is also called by other threads
          MaxWrites       \* bound: messages the application writes

ASSUME ServerAssumption ==
  /\ QuietListeners \in BOOLEAN
  /\ ForeignWrites \in BOOLEAN
  /\ MaxWrites \in Nat

VARIABLES
  pc,
  ClosedHandles,  \* handle values DisconnectAndClose has closed
  WriteHandles,   \* the listeners: their pipe, and was the Message deleted
  Outbox,         \* messages to write, numbered in the order of posting
  posted,         \* messages posted so far
  listenPipe,     \* NewConnectionMessage.Pipe
  AwaitingIo,     \* NewConnectionMessage.AwaitingIo
  reader,         \* the pipe of HandleNewConnection's reader, or None
  batch,          \* length of the Outbox when the outer loop began
  msgIx,          \* position in the Outbox of the message being written
  writerIx        \* i of the inner loop, from 1; 0 once it is done

loopVars   == <<batch, msgIx, writerIx>>
listenVars == <<listenPipe, AwaitingIo, reader>>
boxVars    == <<Outbox, posted>>
serverVars == <<pc, ClosedHandles, WriteHandles, boxVars, listenVars, loopVars>>
vars       == <<winVars, serverVars>>

PCs == {"stopped", "idle", "flush", "blocked", "woken", "wait", "apc",
        "connect", "firstRead", "stopping", "crashed"}

Writers == [Pipe : Handles, freed : BOOLEAN]

ServerTypeOK ==
  /\ pc \in PCs
  /\ ClosedHandles \subseteq Handles
  /\ WriteHandles \in Seq(Writers)
  /\ Outbox \in Seq(Nat)
  /\ posted \in Nat
  /\ listenPipe \in Handles \union {INVALID}
  /\ AwaitingIo \in BOOLEAN
  /\ reader \in Handles \union {INVALID, None}
  /\ batch \in Nat
  /\ msgIx \in Nat \ {0}
  /\ writerIx \in 0 .. Len(WriteHandles)

TypeOK == WinTypeOK /\ ServerTypeOK

ServerInit ==
  /\ pc = "stopped"
  /\ ClosedHandles = {}
  /\ WriteHandles = <<>>
  /\ Outbox = <<>>
  /\ posted = 0
  /\ listenPipe = INVALID
  /\ AwaitingIo = FALSE
  /\ reader = None
  /\ batch = 0
  /\ msgIx = 1
  /\ writerIx = 0

Init == WinInit /\ ServerInit

--------------------------------------------------------------------------------
(* Helpers.                                                                *)

\* Mutant: the last writer is dropped without being moved.
RemoveWriterDropsLast(i) == SubSeq(WriteHandles, 1, Len(WriteHandles) - 1)

\* RemoveWriter: the last writer takes the place of writer i.
RemoveWriter(i) ==
  SubSeq([WriteHandles EXCEPT ![i] = WriteHandles[Len(WriteHandles)]],
         1, Len(WriteHandles) - 1)

\* Mutant: the handle that was found is erased.
ErasedFound(p) == ClosedHandles \ {p}

\* What IsPipeClosed leaves in ClosedHandles when it finds p there: it has
\* overwritten message->Pipe before it erases it.
Erased(p) == ClosedHandles \ {INVALID}

IsPipeClosed(p) == p \in ClosedHandles

\* Mutant: the handle value is not remembered.
DisconnectAndForget(p, q) ==
  IF Open(p)
    THEN Close(p, q) /\ UNCHANGED ClosedHandles
    ELSE /\ apcs' = q
         /\ UNCHANGED <<pipeVars, reading, evVars, ClosedHandles>>

\* DisconnectAndClose of a Message on p, with q the completions queued.
DisconnectAndClose(p, q) ==
  IF Open(p)
    THEN /\ Close(p, q)
         /\ ClosedHandles' = ClosedHandles \union {p}
    ELSE /\ apcs' = q
         /\ UNCHANGED <<pipeVars, reading, evVars, ClosedHandles>>

\* The three outcomes of a request that was read.
Dispatch(p, request) ==
  /\ WriteHandles' = IF request = "listener"
                       THEN Append(WriteHandles, [Pipe |-> p, freed |-> FALSE])
                       ELSE WriteHandles
  /\ IF request = "rejected"
       THEN Outbox' = Append(Outbox, posted + 1) /\ posted' = posted + 1
       ELSE UNCHANGED boxVars

\* HandleRead(err, readBytes, message) for a message on p.
HandleRead(p, err, request, q) ==
  /\ IF IsPipeClosed(p)
       THEN /\ ClosedHandles' = Erased(p)
            /\ apcs' = q
            /\ UNCHANGED <<pipeVars, reading, evVars, WriteHandles, boxVars>>
     ELSE IF err
       THEN /\ DisconnectAndClose(p, q)
            /\ UNCHANGED <<WriteHandles, boxVars>>
     ELSE /\ Dispatch(p, request)
          /\ IF Readable(p)
               THEN ReadFileEx(p, q) /\ UNCHANGED ClosedHandles
               ELSE DisconnectAndClose(p, q)
  /\ UNCHANGED <<sends, listenPipe, AwaitingIo, loopVars>>

\* ListenForNewConnection up to ConnectToPipe; next is where the thread goes
\* when no pipe is created.
ListenForNewConnection(next) ==
  \/ \E h \in Handles :
       /\ CreateNamedPipe(h)
       /\ listenPipe' = h
       /\ pc' = "connect"
  \/ /\ \A h \in Handles : ~Creatable(h)
     /\ listenPipe' = INVALID
     /\ pc' = next
     /\ UNCHANGED pipeVars

--------------------------------------------------------------------------------
(* Start and Stop.                                                         *)

\* StartServer.  When CreateEvent fails the server stays as it was: a Tick then has
\* no writer, and its wait fails at once, as if the server were stopped.
Start ==
  /\ pc = "stopped"
  /\ signaled' = TRUE
  /\ AwaitingIo' = FALSE
  /\ ListenForNewConnection("idle")
  /\ UNCHANGED <<ioVars, connecting, sends, ClosedHandles, WriteHandles,
                 boxVars, reader, loopVars>>

\* Mutant: ERROR_PIPE_CONNECTED is treated as any other error.
SetsEventNever(p) == FALSE

\* A client was there before ConnectNamedPipe (ERROR_PIPE_CONNECTED).
SetsEvent(p) == state[p] = "connected"

\* ConnectNamedPipe on the new pipe resets the event; then it stays
\* outstanding, or a client was first, or one was and has gone.
ConnectToPipe ==
  /\ pc = "connect"
  /\ AwaitingIo' = (state[listenPipe] = "listening")
  /\ connecting' = IF state[listenPipe] = "listening" THEN listenPipe
                                                      ELSE connecting
  /\ signaled' = SetsEvent(listenPipe)
  /\ pc' = IF reader = None THEN "idle" ELSE "firstRead"
  /\ UNCHANGED <<pipeVars, ioVars, sends, ClosedHandles, WriteHandles,
                 boxVars, listenPipe, reader, loopVars>>

Stop ==
  /\ pc = "idle"
  /\ pc' = "stopping"
  /\ UNCHANGED <<winVars, ClosedHandles, WriteHandles, boxVars, listenVars,
                 loopVars>>

StopWriter ==
  /\ pc = "stopping"
  /\ WriteHandles # <<>>
  /\ WriteHandles' = Tail(WriteHandles)
  /\ IF Head(WriteHandles).freed
       THEN /\ pc' = "crashed"
            /\ UNCHANGED <<pipeVars, ioVars, evVars, ClosedHandles>>
       ELSE /\ UNCHANGED pc
            /\ DisconnectAndClose(Head(WriteHandles).Pipe, apcs)
  /\ UNCHANGED <<sends, boxVars, listenVars, loopVars>>

\* The accepting pipe is closed and its handle not remembered.
StopListening ==
  /\ pc = "stopping"
  /\ WriteHandles = <<>>
  /\ pc' = "stopped"
  /\ IF Open(listenPipe)
       THEN Close(listenPipe, apcs)
       ELSE UNCHANGED <<pipeVars, ioVars, evVars>>
  /\ listenPipe' = INVALID
  /\ UNCHANGED <<sends, ClosedHandles, WriteHandles, boxVars, AwaitingIo,
                 reader, loopVars>>

--------------------------------------------------------------------------------
(* Tick: WriteAllMessages.                                                 *)

Tick ==
  /\ pc = "idle"
  /\ IF Outbox = <<>> \/ WriteHandles = <<>>
       THEN pc' = "wait" /\ UNCHANGED loopVars
       ELSE /\ pc' = "flush"
            /\ batch' = Len(Outbox)
            /\ msgIx' = 1
            /\ writerIx' = Len(WriteHandles)
  /\ UNCHANGED <<winVars, ClosedHandles, WriteHandles, boxVars, listenVars>>

\* The writer the inner loop has come to.
Writer == WriteHandles[writerIx]

AtWriter ==
  /\ pc = "flush"
  /\ writerIx > 0

\* Mutant: the inner loop goes up.
NextWriterUp == writerIx' = writerIx + 1

\* The inner loop goes down, so that RemoveWriter moves only writers it has
\* already passed.
NextWriter == writerIx' = writerIx - 1

SkipClosed ==
  /\ AtWriter
  /\ ~Writer.freed
  /\ IsPipeClosed(Writer.Pipe)
  /\ ClosedHandles' = Erased(Writer.Pipe)
  /\ WriteHandles' = RemoveWriter(writerIx)
  /\ NextWriter
  /\ UNCHANGED <<winVars, pc, boxVars, listenVars, batch, msgIx>>

\* WriteFile on a pipe with a client writes at once, or is left pending.
WriteMessage ==
  /\ AtWriter
  /\ ~Writer.freed
  /\ ~IsPipeClosed(Writer.Pipe)
  /\ state[Writer.Pipe] = "connected"
  /\ \/ /\ Deliver(Writer.Pipe, Outbox[msgIx])
        /\ NextWriter
        /\ UNCHANGED pc
     \/ /\ pc' = "blocked"
        /\ UNCHANGED <<pipeVars, writerIx>>
  /\ UNCHANGED <<ioVars, evVars, sends, ClosedHandles, WriteHandles, boxVars,
                 listenVars, batch, msgIx>>

\* The client makes room, and the pending write completes.
WriteCompletes ==
  /\ pc = "blocked"
  /\ state[Writer.Pipe] = "connected"
  /\ Deliver(Writer.Pipe, Outbox[msgIx])
  /\ pc' = "flush"
  /\ NextWriter
  /\ UNCHANGED <<ioVars, evVars, sends, ClosedHandles, WriteHandles, boxVars,
                 listenVars, batch, msgIx>>

\* The client hangs up, nothing was written, and the loop tries again.
WriteAborts ==
  /\ pc = "blocked"
  /\ state[Writer.Pipe] # "connected"
  /\ pc' = "flush"
  /\ UNCHANGED <<winVars, ClosedHandles, WriteHandles, boxVars, listenVars,
                 loopVars>>

\* The write is still pending when the wait ends.  No byte of it is counted,
\* so that it stays in the pipe and the loop writes the message again.
WriteWoken ==
  /\ pc = "woken"
  /\ IF state[Writer.Pipe] = "connected"
       THEN Deliver(Writer.Pipe, Outbox[msgIx])
       ELSE UNCHANGED pipeVars
  /\ pc' = "flush"
  /\ UNCHANGED <<ioVars, evVars, sends, ClosedHandles, WriteHandles, boxVars,
                 listenVars, loopVars>>

\* Mutant: the loop tries again after a WriteFile that failed, as it does after
\* a write that was aborted.
WriteFailsRetries ==
  /\ AtWriter
  /\ ~Writer.freed
  /\ ~IsPipeClosed(Writer.Pipe)
  /\ state[Writer.Pipe] # "connected"
  /\ UNCHANGED vars

\* WriteFile fails: DisconnectAndClose deletes the writer the loop goes on
\* to use.  Either the heap notices the second delete, or MessageSize reads as
\* some large number and the loop ends with the pointer still in WriteHandles.
WriteFails ==
  /\ AtWriter
  /\ ~Writer.freed
  /\ ~IsPipeClosed(Writer.Pipe)
  /\ state[Writer.Pipe] # "connected"
  /\ DisconnectAndClose(Writer.Pipe, apcs)
  /\ WriteHandles' = [WriteHandles EXCEPT ![writerIx].freed = TRUE]
  /\ pc' \in {"flush", "crashed"}
  /\ NextWriter
  /\ UNCHANGED <<sends, boxVars, listenVars, batch, msgIx>>

\* A deleted writer is written to: no handle is in it, WriteFile fails, and
\* it is deleted again.
WriteFreed ==
  /\ AtWriter
  /\ Writer.freed
  /\ pc' = "crashed"
  /\ UNCHANGED <<winVars, ClosedHandles, WriteHandles, boxVars, listenVars,
                 loopVars>>

NextMessage ==
  /\ pc = "flush"
  /\ writerIx = 0
  /\ msgIx < batch
  /\ msgIx' = msgIx + 1
  /\ writerIx' = Len(WriteHandles)
  /\ UNCHANGED <<winVars, pc, ClosedHandles, WriteHandles, boxVars, listenVars,
                 batch>>

FinishFlush ==
  /\ pc = "flush"
  /\ writerIx = 0
  /\ msgIx = batch
  /\ Outbox' = <<>>
  /\ pc' = "wait"
  /\ batch' = 0
  /\ msgIx' = 1
  /\ UNCHANGED <<winVars, ClosedHandles, WriteHandles, posted, listenVars,
                 writerIx>>

--------------------------------------------------------------------------------
(* Tick: WaitForSingleObjectEx.  Windows does not say which comes first    *)
(* when the event is set and completion routines are queued.               *)

WaitTimesOut ==
  /\ pc = "wait"
  /\ ~signaled
  /\ apcs = <<>>
  /\ pc' = "idle"
  /\ UNCHANGED <<winVars, ClosedHandles, WriteHandles, boxVars, listenVars,
                 loopVars>>

\* HandleNewConnection up to ConnectToPipe.
HandleNewConnection ==
  /\ pc = "wait"
  /\ signaled
  /\ IF AwaitingIo /\ connecting = listenPipe
       THEN /\ pc' = "idle"
            /\ UNCHANGED <<pipeVars, listenPipe, reader>>
       ELSE /\ reader' = listenPipe
            /\ ListenForNewConnection("firstRead")
  /\ UNCHANGED <<ioVars, evVars, sends, ClosedHandles, WriteHandles, boxVars,
                 AwaitingIo, loopVars>>

\* Mutant: the reader is made but not started.
FirstReadForgotten ==
  /\ pc = "firstRead"
  /\ reader' = None
  /\ pc' = "idle"
  /\ UNCHANGED <<winVars, ClosedHandles, WriteHandles, boxVars, listenPipe,
                 AwaitingIo, loopVars>>

FirstRead ==
  /\ pc = "firstRead"
  /\ HandleRead(reader, FALSE, "blank", apcs)
  /\ reader' = None
  /\ pc' = "idle"

\* Mutant: the wait is not alertable.
StartApcsNever ==
  /\ pc = "wait"
  /\ apcs # <<>>
  /\ pc' = "idle"
  /\ UNCHANGED <<winVars, ClosedHandles, WriteHandles, boxVars, listenVars,
                 loopVars>>

StartApcs ==
  /\ pc = "wait"
  /\ apcs # <<>>
  /\ pc' = "apc"
  /\ UNCHANGED <<winVars, ClosedHandles, WriteHandles, boxVars, listenVars,
                 loopVars>>

RunApc ==
  /\ pc = "apc"
  /\ apcs # <<>>
  /\ HandleRead(Head(apcs).Pipe, Head(apcs).err, Head(apcs).request, Tail(apcs))
  /\ UNCHANGED <<pc, reader>>

EndApcs ==
  /\ pc = "apc"
  /\ apcs = <<>>
  /\ pc' = "idle"
  /\ UNCHANGED <<winVars, ClosedHandles, WriteHandles, boxVars, listenVars,
                 loopVars>>

--------------------------------------------------------------------------------
(* The application: NamedPipes::Write pushes to the Outbox.  A push while   *)
(* WriteAllMessages iterates may move the vector under the loop.            *)

Blocked == pc \in {"blocked", "woken"}

Flushing == pc = "flush" \/ Blocked

Write ==
  /\ posted < MaxWrites
  /\ pc # "crashed"
  /\ pc \in {"stopped", "idle"} \/ ForeignWrites
  /\ Outbox' = Append(Outbox, posted + 1)
  /\ posted' = posted + 1
  /\ pc' \in {pc} \union (IF Flushing THEN {"crashed"} ELSE {})
  /\ UNCHANGED <<winVars, ClosedHandles, WriteHandles, listenVars, loopVars>>

\* The process is gone.
Crashed == pc = "crashed" /\ UNCHANGED vars

--------------------------------------------------------------------------------
ServerStep ==
  \/ ConnectToPipe
  \/ StopWriter
  \/ StopListening
  \/ Tick
  \/ SkipClosed
  \/ WriteMessage
  \/ WriteCompletes
  \/ WriteAborts
  \/ WriteWoken
  \/ WriteFails
  \/ WriteFreed
  \/ NextMessage
  \/ FinishFlush
  \/ WaitTimesOut
  \/ HandleNewConnection
  \/ FirstRead
  \/ StartApcs
  \/ RunApc
  \/ EndApcs

AppStep ==
  \/ Start
  \/ Stop
  \/ Write

Send(h, r) ==
  /\ QuietListeners => ~asked[h]
  /\ ClientSend(h, r)

\* A pending write has no event of its own, so GetOverlappedResult waits for
\* the pipe: a read of it that completes ends the wait.
Wake(h) ==
  /\ pc' = IF pc = "blocked" /\ h = Writer.Pipe /\ h \in reading THEN "woken"
                                                                 ELSE pc
  /\ UNCHANGED <<ClosedHandles, WriteHandles, boxVars, listenVars, loopVars>>

ClientStep ==
  \E h \in Handles :
    \/ ClientConnect(h) /\ UNCHANGED serverVars
    \/ \E r \in Requests : Send(h, r) /\ Wake(h)
    \/ ClientHangUp(h) /\ UNCHANGED serverVars

Next ==
  \/ ServerStep
  \/ AppStep
  \/ ClientStep
  \/ Crashed

Spec == Init /\ [][Next]_vars

\* What the thread does by itself: whether a pending write completes is up to the
\* client that is to read it.
ThreadStep == ServerStep /\ ~WriteCompletes

\* The thread keeps ticking, and in WaitForSingleObjectEx a set event is not
\* passed over for ever.  Nothing is assumed of clients.
Fairness ==
  /\ WF_vars(ThreadStep)
  /\ SF_vars(HandleNewConnection)

LiveSpec == Spec /\ Fairness
--------------------------------------------------------------------------------
(* Safety.                                                                 *)

\* Only a client that sent "listener" on its present connection is ever
\* written to, however handle values are reused and however late a writer
\* is found closed (WriteAllMessages, IsPipeClosed).
OnlyListenersFed ==
  \A h \in Handles : feed[h] # <<>> => asked[h]

\* WriteFile is never given a handle that is closed, or that stands for
\* another connection by now: a writer that is neither deleted nor known to be
\* closed has an open pipe, not the accepting one, and its client asked to
\* listen (WriteAllMessages, DisconnectAndClose).
Accepted(h) ==
  /\ state[h] \in {"connected", "broken"}
  /\ h # listenPipe

WriterLive(w) ==
  ~w.freed /\ ~IsPipeClosed(w.Pipe) => Accepted(w.Pipe) /\ asked[w.Pipe]

WritersLive == \A i \in DOMAIN WriteHandles : WriterLive(WriteHandles[i])

\* Outside Stop the server closes the pipe of a client that is still there
\* only when it has just failed to read an oversized request from it: neither a
\* late completion for an older connection on the same handle value, nor a
\* failed write, ends a healthy one (HandleRead, DisconnectAndClose).
NoHealthyDisconnect ==
  [][\A h \in Handles :
        state[h] = "connected" /\ state'[h] = "closed" =>
          \/ pc = "stopping"
          \/ pc = "apc" /\ Head(apcs) = Completed(h, "oversized")]_vars

\* A connection the server has accepted and not closed always has a read
\* outstanding or completed and waiting to be handled, so that no client is left
\* talking to nobody; the one exception is a connection whose handle value is still
\* in ClosedHandles from an earlier one, which its own first completion may be
\* taken for ("Start the reader", HandleNewConnection, HandleRead).
EveryConnectionRead ==
  \A h \in Handles :
    state[h] \in {"connected", "broken"} /\ ~IsPipeClosed(h) =>
      \/ h \in {listenPipe, reader}
      \/ h \in reading
      \/ \E i \in DOMAIN apcs : apcs[i].Pipe = h

\* Between two ticks the running server will notice the next client, its event
\* being set or a ConnectNamedPipe outstanding; the only way to lose the
\* accepting pipe is a client that hung up before ConnectNamedPipe was called on
\* it (ListenForNewConnection, ConnectToPipe's default case).
DeafOnlyByHangUp ==
  pc = "idle" =>
    \/ signaled
    \/ connecting = listenPipe
    \/ listenPipe \in Handles /\ state[listenPipe] = "broken"

--------------------------------------------------------------------------------
(* The inductive invariant.  ClosedHandles never loses a handle, so it     *)
(* separates the handle values whose bookkeeping may be out of date from   *)
(* those of which everything below is true.                                *)

\* What the positions in the loops of WriteAllMessages point at.
LoopInv ==
  /\ Flushing => msgIx <= batch /\ batch <= Len(Outbox)
  /\ Flushing \/ pc = "crashed" \/ writerIx = 0
  /\ Blocked =>
       writerIx > 0 /\ ~Writer.freed /\ ~IsPipeClosed(Writer.Pipe)

\* Where the new pipe, its event and its reader stand.
AcceptInv ==
  /\ pc = "stopped" => listenPipe = INVALID
  /\ pc \notin {"connect", "firstRead"} => reader = None
  /\ pc = "connect" => listenPipe \in Handles /\ Open(listenPipe)
  /\ pc \notin {"connect", "stopping", "crashed"} /\ signaled /\ listenPipe \in Handles =>
       state[listenPipe] \in {"connected", "broken"}
  /\ reader \in Handles /\ ~IsPipeClosed(reader) => Accepted(reader)
  /\ connecting # None =>
       connecting = listenPipe /\ state[connecting] = "listening"

\* Reads are outstanding on accepted connections only.
ReadingInv ==
  \A h \in reading :
    ~IsPipeClosed(h) /\ state[h] = "connected" /\ h # listenPipe

\* A completion that is not stale belongs to an accepted connection.
ApcLive(a) ==
  ~IsPipeClosed(a.Pipe) =>
    /\ Accepted(a.Pipe)
    /\ a.request = "listener" => asked[a.Pipe]
    /\ a.err => a.request = "oversized" \/ state[a.Pipe] = "broken"

ApcInv == \A i \in DOMAIN apcs : ApcLive(apcs[i])

\* No "listener" is waiting to be read that was not sent.
UnreadInv ==
  \A h \in Handles : \A i \in DOMAIN unread[h] :
    unread[h][i] = "listener" => asked[h]

IInv ==
  /\ TypeOK
  /\ LoopInv
  /\ AcceptInv
  /\ ReadingInv
  /\ ApcInv
  /\ UnreadInv
  /\ WritersLive
  /\ OnlyListenersFed

\* What DeafOnlyByHangUp and EveryConnectionRead need besides IInv.

\* Only the accepting pipe has no client yet, so a client that connects is not
\* yet owed a read.
ListeningInv ==
  \A h \in Handles : state[h] = "listening" => h = listenPipe

\* The server notices the next client from ConnectNamedPipe on, not only
\* between two ticks.
NoticingInv ==
  pc \notin {"stopped", "connect", "stopping", "crashed"} =>
    \/ signaled
    \/ connecting = listenPipe
    \/ listenPipe \in Handles /\ state[listenPipe] = "broken"

ServedInv ==
  /\ ListeningInv
  /\ NoticingInv
  /\ EveryConnectionRead

--------------------------------------------------------------------------------
(* The feed of the listeners: ListenerFeed, where a subscriber is a client *)
(* that is there, has a writer, and whose handle value was never closed;   *)
(* the messages of the Outbox are those not yet retired.                   *)

\* The writers of the client of h.
WritersOf(h) == [Pipe : {h}, freed : BOOLEAN]

Subscribed(h) ==
  /\ state[h] = "connected"
  /\ ~IsPipeClosed(h)
  /\ Has(WriteHandles, WritersOf(h))

Feed == INSTANCE ListenerFeed WITH
  Listeners  <- Handles,
  retired    <- posted - Len(Outbox),
  present    <- {h \in Handles : state[h] = "connected"},
  subscribed <- {h \in Handles : Subscribed(h)},
  feed       <- [h \in Handles |-> IF Subscribed(h) THEN feed[h] ELSE <<>>]

\* Every listener gets every message from the backlog at its registration
\* on, in order and once, for as long as its client is there, while other
\* listeners come, hang up and are removed from the middle of the list
\* (WriteAllMessages, RemoveWriter).
FeedGapless == Feed!FeedSpec

(* What the feed rests on besides IInv, when listeners are quiet and no    *)
(* other thread writes.                                                    *)

\* The client of h wishes to listen once: its wish waits in the pipe, or is being
\* handled, or has made it a writer.
WishesOnce(h) ==
  /\ Once(unread[h], {"listener"}) /\ Once(apcs, Wishes(h)) /\ Once(WriteHandles, WritersOf(h))
  /\ Has(unread[h], {"listener"}) =>
       asked[h] /\ ~Has(apcs, Wishes(h)) /\ ~Has(WriteHandles, WritersOf(h))
  /\ Has(apcs, Wishes(h)) => asked[h] /\ ~Has(WriteHandles, WritersOf(h))
  /\ Has(WriteHandles, WritersOf(h)) => asked[h]

\* That is so as long as the handle value is new.
WishInv == \A h \in Handles \ ClosedHandles : WishesOnce(h)

\* A deleted writer's handle is closed; no request of a listener ends the wait of a
\* write; nothing is posted during a flush.
CalmInv ==
  /\ \A i \in DOMAIN WriteHandles :
       WriteHandles[i].freed => IsPipeClosed(WriteHandles[i].Pipe)
  /\ pc # "woken"
  /\ Flushing => batch = Len(Outbox)
  /\ Flushing \/ pc = "crashed" \/ msgIx = 1

\* The messages are numbered on from those that were retired.
Retired == posted - Len(Outbox)

NumberInv ==
  /\ Retired \in Nat
  /\ \A k \in DOMAIN Outbox : Outbox[k] = Retired + k

\* The number of the message the client of h is to be sent next.
NextFor(h) ==
  IF feed[h] = <<>> THEN Retired + 1 ELSE feed[h][Len(feed[h])] + 1

\* The number of the message that the loop sends to writer i next.
Due(i) == Retired + msgIx + (IF Flushing /\ i > writerIx THEN 1 ELSE 0)

\* A subscriber is due the message that the loop will send it.
DueInv ==
  pc # "crashed" =>
    \A i \in DOMAIN WriteHandles :
      Subscribed(WriteHandles[i].Pipe) => NextFor(WriteHandles[i].Pipe) = Due(i)

\* Nothing was sent to who is no writer.
UnsentInv ==
  \A h \in Handles \ ClosedHandles : ~Has(WriteHandles, WritersOf(h)) => feed[h] = <<>>

FeedInv ==
  /\ IInv
  /\ CalmInv
  /\ WishInv
  /\ NumberInv
  /\ DueInv
  /\ UnsentInv

--------------------------------------------------------------------------------
(* Liveness.                                                               *)

\* The thread waits in GetOverlappedResult for a listener that is there and does
\* not read ("note: blocking call", WriteMessage).
HeldUp ==
  /\ pc = "blocked"
  /\ state[Writer.Pipe] = "connected"

\* A flush ends, however its listeners come, hang up or fail, unless one stays
\* for ever and never reads: nothing else holds WriteAllMessages up.
FlushEndsUnlessHeldUp ==
  pc = "flush" ~> pc \in {"wait", "crashed"} \/ []HeldUp

\* A client that stays on the accepting pipe is accepted, unless a listener holds
\* the thread up for ever (Tick).
ClientAccepted ==
  \A h \in Handles :
    state[h] = "connected" /\ h = listenPipe ~>
      \/ h # listenPipe
      \/ state[h] # "connected"
      \/ pc = "crashed"
      \/ []HeldUp

\* A completed read is handled in the end, unless the server stops, a listener
\* holds it up for ever, or it has run into the limit on instances, where the event
\* stays set (Tick).
ReadsHandled ==
  apcs # <<>> /\ pc = "idle" ~>
    \/ pc \in {"apc", "stopped", "crashed"}
    \/ listenPipe = INVALID
    \/ []HeldUp
================================================================================
