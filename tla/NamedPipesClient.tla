---------------------------- MODULE NamedPipesClient ----------------------------
(***************************************************************************)
(* NamedPipeClient of NamedPipes.cpp: one thread calls Start and then Tick *)
(* in a loop, any thread calls Write, and the server at the other end of   *)
(* the pipe reads, sends and goes away as it likes.  pc says where the     *)
(* client's thread is:                                                     *)
(*   "new"        before StartClient                                       *)
(*   "connecting" in the loop of Start that waits for a server             *)
(*   "open"       before HandleRead(0, 0, &Reader) of Start                *)
(*   "idle"       between two ticks, or in WaitForSingleObjectEx           *)
(*   "apc"        there, running completion routines                       *)
(*   "write"      there, done with them                                    *)
(*   "flush"      in the loop of WriteAllMessages                          *)
(*   "blocked"    in GetOverlappedResult of WriteMessage                   *)
(*   "stopped"    after Stop                                               *)
(*   "crashed"    the process is gone                                      *)
(*                                                                         *)
(* A message is its number, and the constants say which of the server's    *)
(* are no requests.  DisconnectNamedPipe fails on a client's handle, so no *)
(* handle is ever closed and nothing ever enters ClosedHandles.            *)
(***************************************************************************)
EXTENDS Naturals, Sequences, SequencesExt

CONSTANTS Room,      \* messages the pipe takes before WriteFile is pending
          Listeners, \* messages of the server: those that say "listener",
          Blank,     \* those that are empty once trimmed,
          Oversized, \* those longer than Reader.Message,
          Rejected,  \* and those that OnRequest rejects
          MaxWrites, \* bound: calls of Write
          MaxSends   \* bound: messages the server sends

ASSUME ClientAssumption ==
  /\ {Room, MaxWrites, MaxSends} \subseteq Nat
  /\ {Listeners, Blank, Oversized, Rejected} \subseteq SUBSET Nat

VARIABLES
  server,    \* "absent", "listening", "connected" or "gone"
  toServer,  \* messages on their way to the server, those of pending writes last
  toClient,  \* messages on their way to the client
  reading,   \* is a ReadFileEx of Reader outstanding
  apcs,      \* its completion routines queued: did the read fail
  buffer,    \* Reader.Message: what was read last
  status,    \* the OVERLAPPED of Writer: "none", "pending", "done" or "failed"
  signaled,  \* the pipe handle, which GetOverlappedResult waits for
  pc,
  Outbox,
  posted,    \* messages pushed to the Outbox so far
  WriteHandles, \* how many Messages are in it, all of Reader's pipe
  batch,     \* length of the Outbox when the loop of WriteAllMessages began
  msgIx,     \* the message it is at
  sent,      \* history: messages the server has sent
  handled,   \* history: how many of them HandleRead has taken
  heard,     \* history: messages OnRequest was called with
  written,   \* history: messages of the WriteFiles that were accepted
  arrived,   \* history: messages the server has read
  late,      \* history: messages posted during a flush
  woken      \* history: reads that completed while a pending write was waited for

pipeVars   == <<server, toServer, toClient>>
readVars   == <<reading, apcs, buffer>>
ioVars     == <<status, signaled>>
boxVars    == <<Outbox, posted, WriteHandles>>
loopVars   == <<batch, msgIx>>
history    == <<sent, handled, heard, written, arrived, late, woken>>
vars       == <<pipeVars, readVars, ioVars, pc, boxVars, loopVars, history>>

\* What a message has become when its memory was freed under a pending write.
Garbage == 0

Flushing == pc \in {"flush", "blocked"}

TypeOK ==
  /\ server \in {"absent", "listening", "connected", "gone"}
  /\ {toServer, toClient, Outbox, sent, heard, written, arrived} \subseteq Seq(Nat)
  /\ reading \in BOOLEAN
  /\ apcs \in Seq(BOOLEAN)
  /\ buffer \in Nat
  /\ status \in {"none", "pending", "done", "failed"}
  /\ signaled \in BOOLEAN
  /\ pc \in {"new", "connecting", "open", "idle", "apc", "write", "flush",
             "blocked", "stopped", "crashed"}
  /\ {posted, WriteHandles, handled, woken} \subseteq Nat
  /\ batch \in Nat
  /\ msgIx \in 1 .. batch + 1
  /\ pc = "blocked" => msgIx <= batch /\ batch <= Len(Outbox)
  /\ late \subseteq 1 .. posted

Init ==
  /\ server = "absent"
  /\ toServer = <<>>
  /\ toClient = <<>>
  /\ reading = FALSE
  /\ apcs = <<>>
  /\ buffer = Garbage
  /\ status = "none"
  /\ signaled = FALSE
  /\ pc = "new"
  /\ Outbox = <<>>
  /\ posted = 0
  /\ WriteHandles = 0
  /\ batch = 0
  /\ msgIx = 1
  /\ sent = <<>>
  /\ handled = 0
  /\ heard = <<>>
  /\ written = <<>>
  /\ arrived = <<>>
  /\ late = {}
  /\ woken = 0

\* The writes that are pending.
Pending == IF Len(toServer) > Room THEN Len(toServer) - Room ELSE 0

--------------------------------------------------------------------------------
(* The server at the other end.                                            *)

ServerListen ==
  /\ server = "absent"
  /\ server' = "listening"
  /\ UNCHANGED <<toServer, toClient, readVars, ioVars, pc, boxVars, loopVars, history>>

\* An outstanding read of the client completes, and ends the wait for a write.  Of
\* a message that does not fit, the rest stays in the pipe and the read fails.
ServerSend ==
  /\ server = "connected"
  /\ Len(sent) < MaxSends
  /\ sent' = Append(sent, Len(sent) + 1)
  /\ IF reading
       THEN /\ reading' = FALSE
            /\ buffer' = Len(sent) + 1
            /\ IF Len(sent) + 1 \in Oversized
                 THEN apcs' = Append(apcs, TRUE) /\ toClient' = Append(toClient, Len(sent) + 1)
                 ELSE apcs' = Append(apcs, FALSE) /\ UNCHANGED toClient
            /\ signaled' = TRUE
            /\ woken' = IF pc = "blocked" /\ status = "pending" THEN woken + 1 ELSE woken
       ELSE /\ toClient' = Append(toClient, Len(sent) + 1)
            /\ UNCHANGED <<readVars, signaled, woken>>
  /\ UNCHANGED <<server, toServer, status, pc, boxVars, loopVars, handled, heard,
                 written, arrived, late>>

\* The server reads, and the oldest pending write completes.
ServerRead ==
  /\ server = "connected"
  /\ toServer # <<>>
  /\ arrived' = Append(arrived, Head(toServer))
  /\ toServer' = Tail(toServer)
  /\ IF Pending > 0
       THEN status' = "done" /\ signaled' = TRUE
       ELSE UNCHANGED ioVars
  /\ UNCHANGED <<server, toClient, readVars, pc, boxVars, loopVars, sent, handled,
                 heard, written, late, woken>>

\* The server closes its end, with DisconnectNamedPipe or without: what is
\* outstanding at the client fails.
ServerGo ==
  /\ server = "connected"
  /\ server' = "gone"
  /\ toServer' = <<>>
  /\ toClient' \in {toClient, <<>>}
  /\ status' = IF Pending > 0 THEN "failed" ELSE status
  /\ signaled' = (signaled \/ reading \/ Pending > 0)
  /\ reading' = FALSE
  /\ apcs' = IF reading THEN Append(apcs, TRUE) ELSE apcs
  /\ UNCHANGED <<buffer, pc, boxVars, loopVars, history>>

--------------------------------------------------------------------------------
(* Reading.                                                                *)

\* DisconnectAndClose of Reader or Writer: DisconnectNamedPipe fails, and a
\* member that was never allocated is deleted.
DisconnectAndClose(next) == pc' \in {next, "crashed"}

\* ReadFileEx into Reader; q are the completion routines queued.  The read of a
\* message that does not fit completes with ERROR_MORE_DATA.
ReadFileEx(q, next) ==
  \/ /\ toClient # <<>>
     /\ buffer' = Head(toClient)
     /\ IF Head(toClient) \in Oversized
          THEN apcs' = Append(q, TRUE) /\ UNCHANGED toClient
          ELSE apcs' = Append(q, FALSE) /\ toClient' = Tail(toClient)
     /\ signaled' = TRUE
     /\ pc' = next
     /\ UNCHANGED reading
  \/ /\ toClient = <<>>
     /\ server = "connected"
     /\ reading' = TRUE
     /\ signaled' = FALSE
     /\ apcs' = q
     /\ pc' = next
     /\ UNCHANGED <<toClient, buffer>>
  \/ /\ toClient = <<>>
     /\ server # "connected"
     /\ apcs' = q
     /\ DisconnectAndClose(next)
     /\ UNCHANGED <<toClient, reading, buffer, signaled>>

IsRequest(m) == m \notin Listeners \union Blank

\* HandleRead of message m: a writer for "listener", nothing for a blank, else
\* OnRequest, whose errors are posted.
Dispatch(m) ==
  /\ handled' = handled + 1
  /\ WriteHandles' = IF m \in Listeners THEN WriteHandles + 1 ELSE WriteHandles
  /\ heard' = IF IsRequest(m) THEN Append(heard, m) ELSE heard
  /\ IF IsRequest(m) /\ m \in Rejected
       THEN Outbox' = Append(Outbox, posted + 1) /\ posted' = posted + 1
       ELSE UNCHANGED <<Outbox, posted>>

\* Mutant: the next read is started before the message is taken.
HandleReadNextFirst(err, q, next) ==
  IF err
    THEN /\ apcs' = q
         /\ DisconnectAndClose(next)
         /\ UNCHANGED <<toClient, reading, buffer, signaled, handled, heard, boxVars>>
    ELSE ReadFileEx(q, next) /\ Dispatch(buffer')

HandleRead(err, q, next) ==
  IF err
    THEN /\ apcs' = q
         /\ DisconnectAndClose(next)
         /\ UNCHANGED <<toClient, reading, buffer, signaled, handled, heard, boxVars>>
    ELSE Dispatch(buffer) /\ ReadFileEx(q, next)

--------------------------------------------------------------------------------
(* Start and Stop.                                                         *)

Start ==
  /\ pc = "new"
  /\ pc' = "connecting"
  /\ UNCHANGED <<pipeVars, readVars, ioVars, boxVars, loopVars, history>>

\* CreateFile finds an instance that listens.
Connect ==
  /\ pc = "connecting"
  /\ server = "listening"
  /\ server' = "connected"
  /\ pc' = "open"
  /\ UNCHANGED <<toServer, toClient, readVars, ioVars, boxVars, loopVars, history>>

FirstRead ==
  /\ pc = "open"
  /\ ReadFileEx(apcs, "idle")
  /\ UNCHANGED <<server, toServer, status, boxVars, loopVars, history>>

\* Both Messages are deleted and the pipe stays open.
Stop ==
  /\ pc = "idle"
  /\ DisconnectAndClose("stopped")
  /\ UNCHANGED <<pipeVars, readVars, ioVars, boxVars, loopVars, history>>

--------------------------------------------------------------------------------
(* Tick: WaitForSingleObjectEx.  Nothing ever resets Reader's event, so the *)
(* wait is over at once, and the completion routines are run or are not.   *)

RunApc ==
  /\ pc \in {"idle", "apc"}
  /\ apcs # <<>>
  /\ HandleRead(Head(apcs), Tail(apcs), "apc")
  /\ UNCHANGED <<server, toServer, status, loopVars, sent, written, arrived, late, woken>>

EndApcs ==
  /\ pc = "apc"
  /\ apcs = <<>>
  /\ pc' = "write"
  /\ UNCHANGED <<pipeVars, readVars, ioVars, boxVars, loopVars, history>>

--------------------------------------------------------------------------------
(* Tick: WriteAllMessages.                                                 *)

\* Mutant: a tick whose wait ran no completion routine is over.
WriteAllMessagesAfterApc ==
  /\ pc = "write"
  /\ IF Outbox = <<>>
       THEN pc' = "idle" /\ UNCHANGED loopVars
       ELSE pc' = "flush" /\ batch' = Len(Outbox) /\ msgIx' = 1
  /\ UNCHANGED <<pipeVars, readVars, ioVars, boxVars, history>>

WriteAllMessages ==
  /\ pc \in {"idle", "write"}
  /\ IF Outbox = <<>>
       THEN pc' = "idle" /\ UNCHANGED loopVars
       ELSE pc' = "flush" /\ batch' = Len(Outbox) /\ msgIx' = 1
  /\ UNCHANGED <<pipeVars, readVars, ioVars, boxVars, history>>

AtMessage == pc = "flush" /\ msgIx <= batch

\* WriteFile is done at once, or is left pending.
WriteMessage ==
  /\ AtMessage
  /\ server = "connected"
  /\ toServer' = Append(toServer, Outbox[msgIx])
  /\ written' = Append(written, Outbox[msgIx])
  /\ IF Len(toServer) < Room
       THEN /\ msgIx' = msgIx + 1
            /\ status' = "done"
            /\ signaled' = TRUE
            /\ UNCHANGED pc
       ELSE /\ pc' = "blocked"
            /\ status' = "pending"
            /\ signaled' = FALSE
            /\ UNCHANGED msgIx
  /\ UNCHANGED <<server, toClient, readVars, boxVars, batch, sent, handled, heard,
                 arrived, late, woken>>

\* Mutant: the bytes of a write that was pending are not counted.
GetOverlappedResultUncounted ==
  /\ pc = "blocked"
  /\ status # "pending" \/ signaled
  /\ pc' = "flush"
  /\ UNCHANGED <<pipeVars, readVars, ioVars, boxVars, loopVars, history>>

\* Mutant: the loop waits once more after the message was written.
GetOverlappedResultTwice ==
  /\ pc = "blocked"
  /\ status # "pending" \/ signaled
  /\ pc' = IF status = "done" THEN "blocked" ELSE "flush"
  /\ msgIx' = IF status = "done" THEN msgIx + 1 ELSE msgIx
  /\ UNCHANGED <<pipeVars, readVars, ioVars, boxVars, batch, history>>

\* Writer has no event, so this waits for the pipe handle, which a read that
\* completes sets too.  Then nothing was written, and the message is written
\* again from the same OVERLAPPED.
GetOverlappedResult ==
  /\ pc = "blocked"
  /\ status # "pending" \/ signaled
  /\ pc' = "flush"
  /\ msgIx' = IF status = "done" THEN msgIx + 1 ELSE msgIx
  /\ UNCHANGED <<pipeVars, readVars, ioVars, boxVars, batch, history>>

\* Mutant: the message is given up.
WriteFailsGivesUp ==
  /\ AtMessage
  /\ server # "connected"
  /\ msgIx' = msgIx + 1
  /\ DisconnectAndClose("flush")
  /\ UNCHANGED <<pipeVars, readVars, ioVars, boxVars, batch, history>>

\* The server is gone: Writer is deleted, and the loop tries again.
WriteFails ==
  /\ AtMessage
  /\ server # "connected"
  /\ DisconnectAndClose("flush")
  /\ UNCHANGED <<pipeVars, readVars, ioVars, boxVars, loopVars, history>>

\* Clearing the Outbox frees the memory of writes that are still pending.
Spoilt(n) ==
  {[i \in DOMAIN toServer |-> IF i \in spoilt THEN Garbage ELSE toServer[i]] :
     spoilt \in SUBSET (n + 1 .. Len(toServer))}

FinishFlush ==
  /\ pc = "flush"
  /\ msgIx > batch
  /\ toServer' \in Spoilt(Len(toServer) - Pending)
  /\ Outbox' = <<>>
  /\ pc' = "idle"
  /\ batch' = 0
  /\ msgIx' = 1
  /\ UNCHANGED <<server, toClient, readVars, ioVars, posted, WriteHandles, history>>

\* Write, from any thread: a push may move the vector under the loop.
Write ==
  /\ posted < MaxWrites
  /\ pc # "crashed"
  /\ Outbox' = Append(Outbox, posted + 1)
  /\ posted' = posted + 1
  /\ late' = IF Flushing THEN late \union {posted + 1} ELSE late
  /\ pc' \in {pc} \union (IF Flushing THEN {"crashed"} ELSE {})
  /\ UNCHANGED <<pipeVars, readVars, ioVars, loopVars, WriteHandles, sent, handled,
                 heard, written, arrived, woken>>

--------------------------------------------------------------------------------
ClientStep ==
  \/ Connect
  \/ FirstRead
  \/ RunApc
  \/ EndApcs
  \/ WriteAllMessages
  \/ WriteMessage
  \/ GetOverlappedResult
  \/ WriteFails
  \/ FinishFlush

ServerStep ==
  \/ ServerListen
  \/ ServerSend
  \/ ServerRead
  \/ ServerGo

Next ==
  \/ Start
  \/ Write
  \/ Stop
  \/ ClientStep
  \/ ServerStep

Spec == Init /\ [][Next]_vars

\* The client ticks in a loop, and a server that is there reads.
LiveSpec == Spec /\ WF_vars(ClientStep) /\ WF_vars(ServerRead)
--------------------------------------------------------------------------------
(* Safety.                                                                 *)

\* OnRequest is called with the requests the server sent, in that order, each once
\* and none left out before the last it was called with: Reader has one buffer, no
\* read is started into it before its message was handled, and none at all after
\* a message that does not fit (HandleRead).
HeardInOrder ==
  /\ \A i \in 1 .. Len(heard) - 1 : heard[i] < heard[i + 1]
  /\ \A m \in ToSet(heard) :
       /\ m <= Len(sent) /\ IsRequest(m)
       /\ \A k \in 1 .. m :
            k \notin Oversized /\ (IsRequest(k) => k \in ToSet(heard))

Repeats == Len(written) - Cardinality(ToSet(written))

\* Messages are written in the order they were posted, each once and from memory
\* that is still there, unless a read completes while the loop waits for a pending
\* write: for each such read one message at most is written once more, and its
\* memory may be freed before the server reads it (WriteAllMessages,
\* GetOverlappedResult of a Writer without an event).
WrittenOnce ==
  /\ \A i \in 1 .. Len(written) - 1 : written[i] <= written[i + 1]
  /\ Repeats <= woken
  /\ Garbage \in ToSet(arrived) => Repeats > 0

\* A message that has left the Outbox was written, unless it was posted while
\* the loop was running (WriteAllMessages, Write).
LostOnlyLate ==
  1 .. posted \subseteq ToSet(Outbox) \union ToSet(written) \union late

--------------------------------------------------------------------------------
(* The inductive invariant.                                                *)

\* The messages k + 1, k + 2, ... in their order.
Numbered(s, k) == \A i \in 1 .. Len(s) : s[i] = k + i

\* The one read that has completed and not been handled.
Succeeded == <<FALSE>>
Failed    == <<TRUE>>

\* The messages taken from the pipe: those handled and the one in the buffer.
Taken == handled + (IF apcs = Succeeded THEN 1 ELSE 0)

\* Handled, in the buffer and on their way are the messages sent, in order; the
\* last ones may be missing when the server is gone.  One read is outstanding or
\* completed at most, and none is while a message waits in the pipe.
ReadInv ==
  /\ Numbered(sent, 0)
  /\ Numbered(toClient, Taken)
  /\ Taken + Len(toClient) <= Len(sent)
  /\ server # "gone" => Taken + Len(toClient) = Len(sent)
  /\ apcs \in {<<>>, Succeeded, Failed}
  /\ apcs = Succeeded => buffer = Taken
  /\ reading => apcs = <<>> /\ toClient = <<>> /\ server = "connected"
  /\ pc \in {"new", "connecting", "open"} => ~reading /\ apcs = <<>>
  /\ \A k \in 1 .. Taken : k \notin Oversized

\* Of the messages handled, OnRequest heard those that are requests.
HeardInv ==
  /\ \A i \in 1 .. Len(heard) - 1 : heard[i] < heard[i + 1]
  /\ ToSet(heard) = {m \in 1 .. handled : IsRequest(m)}

\* The Outbox ends with the message posted last.  Of the batch, those before msgIx
\* are written, and those after it were posted during the flush.
OutboxInv ==
  /\ Len(Outbox) <= posted
  /\ Numbered(Outbox, posted - Len(Outbox))
  /\ Flushing =>
       /\ batch <= Len(Outbox)
       /\ \A i \in 1 .. msgIx - 1 : Outbox[i] \in ToSet(written)
       /\ \A i \in batch + 1 .. Len(Outbox) : Outbox[i] \in late
  /\ pc = "blocked" => msgIx <= batch /\ Outbox[msgIx] \in ToSet(written)

\* Nothing is written before the messages that were posted before it.
WrittenInv ==
  /\ ToSet(written) \subseteq 1 .. posted
  /\ pc # "crashed" =>
       \A i \in DOMAIN written :
         written[i] <= posted - Len(Outbox) + (IF Flushing THEN msgIx ELSE 0)
  /\ \A i \in 1 .. Len(written) - 1 : written[i] <= written[i + 1]

\* The message at msgIx will be written again.
Again ==
  /\ pc = "flush"
  /\ msgIx <= batch
  /\ Outbox[msgIx] \in ToSet(written)

\* Each repetition was paid for by a read that completed during the wait for a write.
RepeatInv ==
  /\ Repeats \in 0 .. woken
  /\ server = "connected" /\ Again => Repeats < woken
  /\ server = "connected" /\ pc = "blocked" /\ signaled /\ status = "pending" =>
       Repeats < woken
  /\ pc = "blocked" => status # "none"
  /\ status = "failed" => server = "gone"

\* A write that nobody waits for is pending, or its memory gone, only after a
\* repetition.
PendingInv ==
  /\ server # "connected" => toServer = <<>>
  /\ Garbage \in ToSet(toServer) \union ToSet(arrived) => Repeats > 0
  /\ Repeats = 0 /\ Pending > 0 =>
       \/ Again
       \/ pc = "blocked" /\ status = "pending" /\ Pending = 1
       \/ pc = "crashed"

IInv ==
  /\ TypeOK
  /\ ReadInv
  /\ HeardInv
  /\ OutboxInv
  /\ WrittenInv
  /\ RepeatInv
  /\ PendingInv
  /\ LostOnlyLate

--------------------------------------------------------------------------------
(* Liveness.                                                               *)

\* A message posted between two ticks reaches the server, or something in its
\* place, unless the server goes, or the client is stopped or crashes (Tick).
PostedArrives ==
  \A m \in 1 .. MaxWrites + MaxSends :
    pc = "idle" /\ m \in ToSet(Outbox) ~>
      \/ {m, Garbage} \intersect ToSet(arrived) # {}
      \/ server = "gone"
      \/ pc \in {"stopped", "crashed"}
================================================================================
