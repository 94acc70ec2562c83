# A verification project for NamedPipes

The repository holds several versions of one thing: a library by which a Windows program serves a
named pipe, answers the messages clients send on it, and writes messages of its own to the clients
that listen. This directory models those versions in TLA+, checks the models with TLC on small
instances, and proves with TLAPS, for every value of the constants, the safety properties the runs
check but one (`LostUnlessCarried`): of all the servers, of the client, of Np2, of the programs over `iocp.h`
and of the options. Paths below are relative to the repository's root, `src/`.

Contents: [the system](#the-system), [the modules](#the-modules), one section per module from
[NamedPipesServer](#namedpipesserver-the-tick-server) on, [the runs](#the-runs),
[what the models say about the code](#what-the-models-say-about-the-code), [the proofs](#the-proofs),
[limits](#limits-of-the-models), [not modelled](#not-modelled), [the plan](#the-plan).

## The system

### Inventory

| Component | Source | State it keeps | Operations |
|---|---|---|---|
| Tick server | `NamedPipesCpp/NamedPipesLib/src/NamedPipes.cpp` 1-242, 361-389 (same file in `NamedPipesIocp`) | `WriteHandles`, `Outbox`, `ClosedHandles`, `OnRequest`, one accepting pipe with an event | `StartServer`, `Tick`, `Write`, `StopServer` |
| Tick client | the same file, 244-359, 391-397 | a `Reader` and a `Writer` on one pipe, the same `Outbox` | `StartClient`, `Tick`, `Write`, `Stop` |
| Completion port library | `NamedPipesCpp/NamedPipesLib/inc/iocp.h` and two other copies | a completion port; a pipe handle; operations in flight | `run`, `async_accept/connect/read/write` |
| Np2 | `NamedPipesCpp/NamedPipesLib/src/Np2.cpp` | one `Pipe`, `Listeners` or a `Client`, a thread, `Stopping` | `StartServer/Client`, `Write`, `StopServer/Client` |
| ToolServer, tool_server | `.../src/ToolServer.cpp`, `.../src/tool_server.cpp` and a copy | a vector of listeners, a thread | constructor, `SendToClients`, `Stop` |
| First generation servers | `NamedPipeServer/src/{Completion,Overlap,Multithreaded}Server.cpp`, `inc/BaseNamedPipe.h` | as the tick server; ten event pairs; two threads a client | `Start`, `Tick`, `Write`, `Stop` |
| Options | `NamedPipeServer/src/Options.cpp`, `inc/Options.h` | the options declared, what was parsed | `TryParseArgs`, `ToParsableArgs` |
| NamedPipeOstream | `NamedPipeServer/src/NamedPipeOstream.cpp` | a string buffer | `sync` |
| Programs | `*/ServerMain.cpp`, `*/ClientMain.cpp`, `*/Program.cs` | none | the loops that use the above |

### How the parts interact

The kernel stands between all of them. A server creates one pipe *instance* per client and a client
opens whichever instance listens. The tick server hears from the kernel in two ways: an event that
its accepting pipe sets, and completion routines the kernel queues to the thread and runs inside its
alertable wait. Np2 hears through a completion port that a thread of its own waits on, and its main
thread and callbacks both write. The application calls `Write` from any thread; the callback
`OnRequest`/`OnMessage` calls it too. The global containers are shared by all of this without locks.

### What is hard about it

Handle values are reused by Windows while the program still keeps lists of them; clients come and go
between any two system calls; a completion may be delivered after its connection has been closed;
writes block on one listener with all the others waiting; `delete` is called on objects still in a
list; `StopX` waits for a thread that waits for another process; a start and the one before share
static state. `PROJECT.json` lists each of these hazards at its line with the properties aimed at it, or,
where the code has no defence and a property can only name the case as its exception, with a note.

### What makes each component correct

- **Tick server.** Only clients that asked are written to; each gets every message once and in order
  while others leave the list; a healthy connection is never closed; each accepted connection is
  read; the next client can always get in; a flush ends unless a listener that stays never reads.
- **Tick client.** It handles the requests the server sends once and in order; what it writes is repeated or
  lost only through two races that can be named; what is posted between two ticks arrives.
- **Np2 and the completion port library.** The bytes written arrive in order; there is one read on a
  buffer at a time and always one while the peer is there; `StopX` returns.
- **ToolServer, tool_server, the loops of the Iocp programs.** One operation per loop, neither lost nor
  doubled, whether it is done at once, later, or fails; `run()` harms no process while its peer lives.
- **CompletionPipeServer.** The promises of the tick server, as far as this first version keeps them.
- **OverlapPipeServer.** The first loop of `Tick` reads from every client that is there when it ends. Nothing
  better holds: with the first client `Tick` ends up in its second loop for good, nobody is written to or read
  from again, and `OnRequest` is never called.
- **MultithreadedPipeServer.** Whoever is accepted has its requests read. No answer is ever sent.
- **Options.** What is parsed is what was said; what `ToParsableArgs` prints parses to the same values exactly
  if text carries them (admissible, not empty, without blanks or `=`, printed in full); what is parsed without
  an error passed the validator.

## The modules

| Module | What it is | Extends |
|---|---|---|
| `Win32Pipe` | the kernel's side of the two tick servers and the clients at the far ends (external) | |
| `NamedPipesServer` | the tick server, its properties, its inductive invariant, its liveness | `Win32Pipe` |
| `ListenerFeed` | abstract: what listeners are promised; two servers implement it | |
| `MCNamedPipesServer` | symmetry of the handles for TLC | `NamedPipesServer` |
| `NamedPipesServerProofs` | the theorems about `NamedPipesServer` | `NamedPipesServer`, `TLAPS` |
| `NamedPipesClient` | the tick client, with the server at the other end as environment | `SequencesExt` |
| `NamedPipesClientProofs` | the theorems about `NamedPipesClient` | `NamedPipesClient`, `TLAPS` |
| `CompletionServer` | `CompletionPipeServer` as `ServerMain.cpp` uses it | `Win32Pipe` |
| `CompletionServerProofs` | the theorems about `CompletionServer` | `CompletionServer`, `TLAPS` |
| `OverlapServer` | `OverlapPipeServer`: ten channels, twenty events, one thread | |
| `OverlapServerProofs` | the theorems about `OverlapServer` | `OverlapServer`, `TLAPS` |
| `MultithreadedServer` | `MtPipeServer`: two threads a client | `SequencesExt` |
| `MultithreadedServerProofs` | the theorems about `MultithreadedServer` | `MultithreadedServer`, `TLAPS` |
| `BeamIocp` | `iocp.h` with the kernel's byte pipes and ports | `SequencesExt` |
| `Np2` | `Np2.cpp` in several processes, its properties | `BeamIocp` |
| `MCNp2` | symmetry of pipes and clients for TLC | `Np2` |
| `Np2Proofs` | the inductive invariant of `Np2`, what follows from it, and why `OnMessage` is given the messages in order | `Np2`, `TLAPS` |
| `BeamPrograms` | the programs over the two other copies of `iocp.h`, `tool_server` and `ToolServer` | `SequencesExt` |
| `BeamProgramsProofs` | the theorems about `BeamPrograms` | `BeamPrograms`, `TLAPS` |
| `Options` | `OptionCollection` with its parsers, and a reference definition of parsing | `SequencesExt` |
| `MCOptions` | the options, arguments and tables of texts of one instance | `Options` |
| `OptionsProofs` | the theorems about `Options` | `Options`, `TLAPS` |

Each definition is tied to its lines by `map` in `PROJECT.json`. Operators preceded by a comment
`Mutant:` are deliberately wrong variants of the definition below them; no specification uses them.
They are there so that each property can be seen to fail when the code is changed in that way.

## NamedPipesServer: the tick server

**State.** The globals `ClosedHandles`, `WriteHandles` and `Outbox` are variables of those names.
`WriteHandles` keeps of each `Message*` its pipe and whether the object has been deleted. The members
of `NewConnectionMessage` are `listenPipe`, `AwaitingIo` and, in `Win32Pipe`, the event `signaled` and
the outstanding `connecting`. A reader `Message` has no variable: it is on its way (`reader`), in a
`ReadFileEx` (`reading`) or in a queued completion routine (`apcs`). Where the one thread is, is `pc`;
where it is in the two loops of `WriteAllMessages` is `batch` (the end the outer loop fixed when it
began), `msgIx` and `writerIx`. The Outbox holds the numbers of its messages in order of posting.

**Actions.** One system call each, so clients move between any two.

| Code | Actions |
|---|---|
| `StartServer`, `Start` | `Start`, then `ConnectToPipe` |
| `Tick` | `Tick`, the flush, then one of `HandleNewConnection`, `StartApcs`, `WaitTimesOut` |
| `WriteAllMessages`, `WriteMessage` | `SkipClosed`, `WriteMessage`, `WriteCompletes`, `WriteAborts`, `WriteWoken`, `WriteFails`, `WriteFreed`, `NextMessage`, `FinishFlush` |
| `HandleNewConnection`, `ListenForNewConnection`, `ConnectToPipe` | `HandleNewConnection`, `ConnectToPipe`, `FirstRead` |
| `HandleRead`, `IsPipeClosed`, `DisconnectAndClose` | `RunApc`, `EndApcs`, and the operators of those names |
| `StopServer`, `Stop` | `Stop`, `StopWriter`, `StopListening` |
| `NamedPipes::Write` | `Write` |

Undefined behaviour is a choice: after `WriteMessage` has used a `Message` that it deleted, the
process is gone or the loop ends with the pointer still in the list; a push during a flush may move
the vector under the loop. `IsPipeClosed` is modelled as it is: it overwrites `message->Pipe` before
it erases it, so that nothing is erased (`Erased`). The writer has no event of its own, so
`GetOverlappedResult` waits for the pipe handle: a request of the same client that completes a read
meanwhile ends the wait with nothing counted as written, and the message is written again (`Wake`,
`WriteWoken`). A read is started again only by a completion routine, so this happens at most once per
listener and flush, and `FlushEndsUnlessHeldUp` holds with it.

**Data abstracted.** A request is one of five kinds `HandleRead` tells apart; the text of a message is
its number; a read longer than the buffer is a read that fails.

**Environment.** `Win32Pipe` states what the code relies on: `CreateNamedPipe` fails at the limit on
instances; `ConnectNamedPipe` is left pending, or finds a client, or finds one that has gone;
`ReadFileEx` fails on a broken pipe with nothing unread; closing a handle cancels its read; a closed
handle value may be given out again (`Recycle`) or never is. A client behaves as `Program.cs` of
`NamedPipeClientListener`, which says "listener" and no more (`QuietListeners`), or worse: it may
register twice, send too much, or leave at any moment.

**Fairness.** `WF_vars(ThreadStep)`: the examples call `Tick` in a loop without conditions. `ThreadStep` is every
step of the thread but `WriteCompletes`, which is up to the listener that reads: none need ever read. One
that stays and does not is `HeldUp`, and each liveness property says "unless `[]HeldUp`": the call is blocking,
as its comment says, and everybody waits for that listener. `SF_vars` of `HandleNewConnection`: when the event is
set and completion routines are queued Windows chooses, and it does not pass over a set event for ever.
Nothing is assumed of clients, or of the application between two ticks.

## NamedPipesClient: the tick client

**State.** `Reader` is an outstanding `ReadFileEx` (`reading`), its queued completion routines (`apcs`)
and its one `buffer`. `Writer` is the `status` of its `OVERLAPPED`, beside which the pipe handle itself is
`signaled`, as it is what `GetOverlappedResult` waits for. `Outbox`, `batch` and `msgIx` are as in the
server; of `WriteHandles` only the length is kept. `sent`, `handled`, `heard`, `written`, `arrived`, `late` and `woken`
are history: `handled` counts the messages `HandleRead` took, `heard` has those `OnRequest` was given, and `woken`
counts the reads that completed while a pending write was waited for.

**Messages of the server.** `HandleRead` is the server's, and so the constants say which messages are which:
`Listeners` say "listener" and add a writer to `WriteHandles`, `Blank` ones are dropped, `Oversized` ones fail the read
and end the reading, and of the requests, which are the others, `OnRequest` rejects those in `Rejected` and the error is
posted (`Dispatch`, `ReadFileEx`, `ServerSend`).

**Actions.** `Start`, `Connect` and `FirstRead` for `StartClient`; `RunApc` and `EndApcs` for the wait of `Tick`,
which here comes before the writing; `WriteAllMessages`, `WriteMessage`, `GetOverlappedResult`, `WriteFails` and
`FinishFlush` for the rest of it; `Write` from any thread, in the middle of a flush too, where the vector may
move under the loop; `Stop`. Nothing resets the event `Reader` has, so the wait is over at once and
Windows may or may not run the completion routines.

**Environment.** `ServerListen`, `ServerSend`, `ServerRead`, `ServerGo`: a server that comes late or never, reads and
sends what it likes and goes away at any moment. The pipe takes `Room` messages before a `WriteFile` is
left pending; a read that completes sets the handle as well.

**Fairness.** `WF_vars(ClientStep)`: `ClientMain.cpp` ticks in a loop. `WF_vars(ServerRead)`: a server that is
there reads, which the tick server does for the connections it accepts (`EveryConnectionRead`, `ReadsHandled`).

## CompletionServer: the first tick server

**State and actions** are named as in `NamedPipesServer`, and so is `pc`. What is different is the code:
`WriteMessage` has no way out when `WriteFile` fails, `HandleRead` does not look into `ClosedHandles`, each request
goes to `HandleRequest` of `ServerMain.cpp`, which calls `Write`, and there are two Outboxes: `Messages`, which
`Write` pushes to and a Tick writes, and the `Outbox` of the anonymous namespace in `BaseNamedPipe.h`, to
which a rejection goes and from which nobody reads. The server is started once, may be stopped, and
is deleted with its `Messages` (`Delete`). Its clients say nothing after "listener".

**Fairness.** `WF_vars(ServerStep)`, from the loop of `ServerMain.cpp`. `WriteCompletes` is one of
its steps, so this assumes that listeners which stay do read, as `Program.cs` of `NamedPipeClientListener` does.

## OverlapServer: events

**State.** Each of `ChannelCount` channels has a pipe (`state`, `unread`, `connecting`, `reading`), the manual-reset
events of its Reader and Writer (`ReadHandles`, `WriteHandles`), and their `AwaitingIo` flags (`readAwaits`,
`writeAwaits`). `pc` and `channel` say where `Start` or the loops of `Tick` are.

**Actions.** `Start` makes a pipe and connects it twice per channel (`Create`, `ConnectReader`, `ConnectWriter`), or
goes on to the next channel without one (`CreateFails`). Then `WaitForMultipleObjects` is given null events, fails, and
`Tick` uses a Reader that is not there (`WaitFails`). Else the
first loop of `Tick` is `ReadNext` until `ReadsTimeOut`, the second `AwaitNext` until `AwaitsTimeOut`, which also copies
the Outbox, and the last two are `SkipWriter`, `CopyFails` and `WriteNext`. A message longer than the buffer ends
the process in `strcpy_s`. `DisconnectAndReconnect` is called by nobody and has no action.

**Fairness.** `WF_vars(ServerStep)`: the application ticks in a loop.

## MultithreadedServer: threads

**State.** `pc` is the application's thread and `ReadTick` each client's read thread, which has so many answers `due` to
the request it is at. A `push_back` into the shared vector is two steps, its start (`Write`) and its end (`Push`), so
two of them may overlap; both threads are then `racing`, and the process may end (`crashed`). What is in that vector is
no variable, since nobody reads it: the write threads watch another Outbox, and no answer is ever sent.

**Actions.** `Tick`, `ConnectNamedPipe` and `Accept` for the application's tick; `ReadRequest`, then `Write` and `Push` for
each of any number of answers, `Answered` and `ReadEnds` for `ReadTick`; `Stop`, `JoinReader` and `StopReturns` for the
joins. A write thread watches an Outbox to which nobody pushes, so it has no step, and its join never returns.

**Fairness.** Weak fairness of the application's tick loop and of each read thread.

## Np2: the port server

**State.** `BeamIocp` has the instances of the one pipe name (`phase`, `end`: which process has each
end open), the bytes on their way to each end (`wire`), the operations outstanding (`reading`,
`accepts`; the writes beyond `Quota` are pending), and for each process its `port` and the `buffer`
it reads into. `Np2` has for each process its main thread (`pc`, `handle`), its port thread
(`worker`, the completion it `got`), `Stopping` and the `Active` flags of `Listeners`. `written` and
`heard` are history. A process starts once, as the programs do.

**Actions.** `Start` then `AcceptConnection` or `ConnectAsync` (or `ConnectThrows`) for
`StartServer`/`StartClient`; `MainWrite`; `Stop` and `Joined` for `StopServer`/`StopClient`; `Exit`
and `CloseOnExit` for a process that ends or is killed; `CheckStopping` and `GetCompletion` for the
thread and `run()`; `OnAccept`, `OnConnect`, `OnRead`, `ReadAsync` for the callbacks, the server's
`OnMessage` being the echo of `ServerMain.cpp`.

**What it rests on.** A message is a sequence of numbered pieces, which stand for some of its bytes each. A pipe in byte
mode keeps no message boundaries and the buffer has 1024 bytes, so a read takes the front of
whatever is there, in any amount: several writes, or some pieces of one, the rest of which stays (`Cuts`). An operation that fails at once posts nothing to the port. Closing
an end cancels the closer's operations and fails those of the other end. A client's `CreateFile`
opens any listening instance, its own included: nothing in the code or in Windows keeps it from that.
A pending `WriteFile` reads memory that `Np2::Write` has given back, so its bytes may be `Garbage`.
Completions whose callbacks do nothing (successful writes, null packets) are left out. The several
writes of one `Np2::Write` are one step.

**Fairness.** A thread that can go on does; `join()` returns once the thread has ended; `StartX` goes
through; the kernel closes the handles of a dead process. Nothing is assumed of what users type.

## BeamPrograms: the other copies of iocp.h

**State.** A `program` is chosen at the start: the loops of the Iocp `ServerMain.cpp` and `ClientMain.cpp`, `tool_server`
with the client of `inc/main.cpp`, or `ToolServer`. Each process has a main thread (`pc`), an end of an instance
(`handle`), a completion `port`, what the callback that runs has still to issue (`todo`), and whether
`run()` holds an operation it has deleted (`deleted`). The wire counts writes.

**Actions.** `NewPipe`, `Accept`, `ClientStarts`, `AsyncConnect` and `ConnectThrows` for the set-up; `GetCompletion`, with the
`Callback` of the operation, and `Issue`, which is `AsyncRead` or `AsyncWrite`, for the loops; `GoesOn`, `SecondCallback`
and `Crash` for `run()` after a failed operation, which two of the copies call back, delete, complete and
delete again; `SendToClients`; `Kill` and `CloseOnExit` at any point.

**Fairness.** Threads that can go on do, the server comes to accept, and the kernel closes the
handles of a process that ended.

## Options: parsing

**State.** `field` is the `BackingField` of each option and `Populated` the flag of that name; `args` and `result`
are those of the last call. An argument is the sequence of its pieces between the `=` signs, and a text is
one of a small set whose readings are tables (`ToLower`, `Number`, `Printed`) given by `MCOptions`. `Printed` has the values
that do not come back as one piece: what is read of a value with a `=` or a blank in it, or with more digits than a
stream prints.

**Actions.** `TryParseArgs` does `ParseNext` for one argument after the other and then checks the required
options; `Assign` is the application writing to a field. `ToParsableArgs` is an operator, and so is parsing its
output. The loops of the source (`Split`, `ParseNamedArguments`, `ParseEach`) are recursive functions of the place
reached, which can be proved about where a fold with an operator cannot.
Reading past the end of the split argument is the result `"undefined"`, after which nothing is said.

## The runs

All bounds are CONSTANTS of the modules: `MaxSends`, `MaxUnread`, `MaxWrites`, `MaxAnswers`, `MaxArgs`, `MaxCalls`, and the
sizes of `Handles`, `Pipes`, `Procs` and `Clients`. They bound inputs and never what the program does with them.

| Run | Instance | Shows |
|---|---|---|
| `reuse` | 3 handles, reused; 3 client messages incl. oversized; repeated registration; 2 writes from any thread | `TypeOK`, `OnlyListenersFed`, `WritersLive`, `NoHealthyDisconnect`, `DeafOnlyByHangUp`, `EveryConnectionRead` |
| `feed` | 4 handles, not reused; 3 client messages; quiet listeners; 2 writes between calls | `FeedGapless` (refines `ListenerFeed`) |
| `live` | 3 handles, not reused; listeners that send again and may never read; fair | `FlushEndsUnlessHeldUp`, `ClientAccepted`, `ReadsHandled` |
| `client` | room for 1 message, 3 writes, 5 messages of the server: a listener, one rejected, a blank, a request, an oversized; fair | `TypeOK`, `HeardInOrder`, `WrittenOnce`, `LostOnlyLate`, `PostedArrives` |
| `completion` | 2 handles, reused; 4 client messages of 4 kinds; fair | `TypeOK`, `EveryConnectionRead`, `FeedGapless`, `FlushEndsUnlessHungUp` |
| `overlap` | 3 channels, any of which may fail to be made, 2 client messages, 2 writes; fair | `TypeOK`, `FirstLoopReadsAll`, `StuckBeforeWriting` |
| `multithreaded` | 3 pipes, 2 client messages, up to 2 answers to each; fair | `TypeOK`, `ServedUnlessEarly`, `RequestsRead` |
| `np2` | a server, a client, 3 pieces in messages of 1 to 3, pipes with room for 1 write | `InOrder`, `RunNeedsPeerGone` |
| `np2_two` | a server, 2 clients, 1 piece | `TypeOK`, `ReadChained`; a client finds no instance to connect to (`ConnectThrows`) |
| `np2_live` | a server, a client, 2 pieces; fair | `StopAfterFailure`, `WriteIsRead` |
| `programs` | each of the 3 programs, a server and 2 clients, room for 1 write, 1 `SendToClients`; fair | `TypeOK`, `OneOperation`, `DeletedOnlyAfterPeer`, `ServedUnlessEarly`, `WritesGoOn` |
| `options` | 2 calls with up to 2 of 13 arguments; assignments of values text does not carry | `ParseMeetsReference`, `RoundTrip`, `LostUnlessCarried`, `InvalidOnlyByFailure` |

*Why these bounds suffice.* Three handles are the accepting pipe, a connection and one more whose
handle value is a reused one, so in `reuse` a value can be closed, handed out and found closed again
while another connection lives. `feed` needs four: a swap-removal from the middle of the list moves
a writer only with three listeners, and the fourth is accepting. Two messages make the outer loop go
round. In `client` one message fills the pipe, the second is pending, and a third is
posted while it is; the messages of the server are one of each kind, of which several may complete a read under
a pending write, or wait already. Two handles are enough in `completion`,
whose handle values are reused from the third connection on. In `overlap` three channels are
one that the loops have passed, one they are at and one to come; in `multithreaded` two overlapping pushes
need two clients, and the third may come too early; a request with two answers is pushed twice. In Np2 two messages to a
pipe with room for one make a write pending, and three pieces give a read that merges two messages with one waiting, one
that ends inside a message of two or three, and one that takes the rest of it with the message that follows. With two clients one write is
enough in `np2_two`: what is added is who connects to which instance. In `programs` the second client
is there to take or to lose the server's instance. In `options` one call of two arguments has every
pair, and the second call finds what the first left; the values assigned have a blank, a `=`, both, nothing but a `=`,
too many digits, nothing at all, or are refused by the validator or the valid values.

*Preconditions.* `feed` gives every connection a new handle value, has listeners that send nothing
after they have registered, as the one in the repository does, and lets no other thread write during a
tick. A listener that sends again may get a message twice, and a push during a flush may be lost. With reuse a
listener may be taken for closed; such a listener is no subscriber of `ListenerFeed`, and the theorem holds with
reuse too, so new values only make the instance smaller. `live` keeps the first and the last, and each of its
properties excepts a listener that stays and never reads. `EveryConnectionRead` of the
tick server excepts handle values still in `ClosedHandles`; `ReadsHandled` excepts the limit on
instances, where the event stays set.

Deadlock is checked for the tick server, which can always tick. The other systems may really stop: a
client that has stopped, a process that has ended, a server joined for ever, or no more input.

## What the models say about the code

The properties above are what holds. Several name the one exception the code has, and these exceptions
are worth a reader's attention. Paths are in `NamedPipesCpp/NamedPipesLib/src` unless said otherwise.

- *Tick server.* A client that leaves between `CreateNamedPipe` and `ConnectNamedPipe` leaves nothing to wake
  the server, which accepts nobody any more (`NamedPipes.cpp:61`, the exception of `DeafOnlyByHangUp`).
  `ClosedHandles` never forgets, so a reused handle value is taken for closed and its client is not read
  (`:77`, the exception of `EveryConnectionRead`). A message pushed during a flush is cleared unsent
  (`:218`). At the limit on instances each tick accepts `INVALID_HANDLE_VALUE`, until one is freed (`:177`).
- *Tick client.* A read that completes while a write is pending makes `GetOverlappedResult` return early
  (`:315`): the message is written again, and its memory may be freed before the kernel is done with it
  (the exception of `WrittenOnce`). After the server has gone the flush never ends (`:319`). `DisconnectNamedPipe` fails on
  a client's handle, so no handle is closed, and `DisconnectAndClose` is given members that were never
  allocated with `new`.
- *Np2.* `ERROR_PIPE_CONNECTED` is taken for a failure (`inc/iocp.h:164`), and that client is never read. `run()` is
  left only after the other process has closed the pipe (`RunNeedsPeerGone`), so a server without a client,
  or two processes told to exit together, wait in `Thread.join()` for ever. `StartClient` makes a listening
  instance of its own and may connect to it.
- *The other copies of `iocp.h`.* `run()` calls back and deletes a failed operation twice. In
  `NamedPipesIocp/NamedPipesLib/inc/iocp.h` `PostQueuedCompletionStatus` is given the pipe instead of the port, fails,
  and thereby keeps an operation that was done at once from completing twice (`OneOperation` breaks if it
  is given the port). `tool_server` and `ToolServer` never call the function they are given for messages.
- *CompletionPipeServer.* A listener that hangs up leaves `WriteMessage` in its loop for ever
  (`NamedPipeServer/src/CompletionServer.cpp:19`, the exception of `FlushEndsUnlessHungUp`), and rejections go to an Outbox nobody reads.
- *OverlapPipeServer.* Nothing resets the events of the writers, so once a client is there `Tick` does not
  return and nobody is ever sent a message (`StuckBeforeWriting`), nor read from by another `Tick`; `OnRequest` is
  never called. If one channel cannot be made, `Tick` uses an element its vector does not have (`OverlapServer.cpp:31`).
- *MultithreadedPipeServer.* A client that comes before `ConnectNamedPipe` is not served
  (`MultithreadedServer.cpp:64`). Answers go to an Outbox that no thread sends from, and two threads that push to it at
  once may end the process, which is all that race can do. `Stop` joins threads that do not end.
- *Options.* An argument such as `a=` is read past its end, and a field is written before its validator
  is asked (`Options.h:45`). `ToParsableArgs` prints a value as it is, so that one with a `=` in it is read back
  without what follows the sign, or past its end (`LostUnlessCarried`).

## The proofs

Each theorem holds for every value of the constants: any set of handles, reused or not; any number of
channels, pipes, processes and clients; any room in a pipe; any options and arguments; any bound on the
inputs. One has hypotheses on two constants, which are explained [below](#namedpipesserver).

| Module | Theorem | States |
|---|---|---|
| `NamedPipesServerProofs` | `TypeCorrect` | `Spec => []TypeOK` |
| | `FeedsOnlyListeners` | `Spec => []OnlyListenersFed` |
| | `WritesToLivePipes` | `Spec => []WritersLive` |
| | `HealthyConnectionsLast` | `Spec => NoHealthyDisconnect` |
| | `ConnectionsRead` | `Spec => []EveryConnectionRead` |
| | `NextClientNoticed` | `Spec => []DeafOnlyByHangUp` |
| | `FeedsGapless` | with `QuietListeners` and without `ForeignWrites`, `Spec => FeedGapless`: it implements `ListenerFeed` |
| `NamedPipesClientProofs` | `TypeCorrect` | `Spec => []TypeOK` |
| | `HearsInOrder` | `Spec => []HeardInOrder` |
| | `WritesOnce` | `Spec => []WrittenOnce` |
| | `LosesOnlyLate` | `Spec => []LostOnlyLate` |
| `CompletionServerProofs` | `TypeCorrect` | `Spec => []TypeOK` |
| | `ConnectionsRead` | `Spec => []EveryConnectionRead` |
| | `FeedsGapless` | `Spec => FeedGapless`: it implements `ListenerFeed` |
| `OverlapServerProofs` | `TypeCorrect` | `Spec => []TypeOK` |
| | `FirstLoopReads` | `Spec => FirstLoopReadsAll` |
| | `NobodyServed` | `Spec => []NothingDelivered` |
| `MultithreadedServerProofs` | `TypeCorrect` | `Spec => []TypeOK` |
| | `ClientsServed` | `Spec => []ServedUnlessEarly` |
| `Np2Proofs` | `TypeCorrect` | `Spec => []TypeOK` |
| | `ReadsChained` | `Spec => []ReadChained` |
| | `RunReturnsLate` | `Spec => RunNeedsPeerGone` |
| | `OneOperation` | `Spec => []OneAtATime` |
| | `MessagesInOrder` | `Spec => []InOrder` |
| `BeamProgramsProofs` | `TypeCorrect` | `Spec => []TypeOK` |
| | `OperationsOne` | `Spec => []OneOperation` |
| | `DeletesLate` | `Spec => []DeletedOnlyAfterPeer` |
| | `ClientServed` | `Spec => []ServedUnlessEarly` |
| `OptionsProofs` | `ParsesAsReference` | `Spec => ParseMeetsReference` |
| | `ParsableArgsRoundTrip` | `Spec => []RoundTrip` |
| | `FieldsAdmitted` | `Spec => []InvalidOnlyByFailure` |

*Assumptions.* `PipeAssumption`, `ServerAssumption`, `ClientAssumption`, `OverlapAssumption`,
`MultithreadedAssumption`, `IocpAssumption`, `Np2Assumption`, `ProgramsAssumption`, `OptionsAssumption` and
`TextsAssumption`. They say what kind of thing each constant is: a bound is a natural number, `None` and `INVALID` are
none of the things they stand in for, the server is not a client. Options have different names, not empty and in
lowercase, as `OPTION` and the constructor of `OptionWrapper` make them, and the text that names a value is read
as that value. None says how many of anything there are.

*The form.* The theorems of a module rest on one inductive invariant, `IInv` of the component's module,
whose conjuncts are named for what they say; TLC checked each of them before it was proved, and a strengthening
a proof asked for was checked again. There is a lemma for each action, or for each action and part of
the invariant, and lemmas about the calls that several actions share. The step properties follow from
`IInv` and the step.

### NamedPipesServer

`OnlyListenersFed` is not inductive: a stale writer whose handle value now names a
stranger's pipe would break it in one step. What prevents that is an accident of `IsPipeClosed`:
`ClosedHandles` only grows. So it splits the handle values into those closed at some time, on which
bookkeeping may be out of date but whose writers and completions are thrown away unused, and those
never closed, on which everything is exact. `IInv` says what "exact" is, part by part, of values not
in `ClosedHandles`: a writer in the list has an open, accepted pipe whose client asked (`WritersLive`);
a queued completion belongs to an accepted connection, carries `"listener"` only if it was sent, and
an error only if the request was oversized or the client has gone (`ApcInv`); a read is outstanding
only on a connected pipe (`ReadingInv`); unread requests were sent (`UnreadInv`). `AcceptInv` keeps the
accepting pipe, the one handle closed without being remembered, out of all this, and `LoopInv` keeps the
loop positions inside their sequences. Actions that call `HandleRead` or
`DisconnectAndClose` share the lemmas about these two, and the three ways a message gets written share
`WritingInv`. A mutant in which the handle *is* erased (what `IsPipeClosed` was evidently meant to do) breaks
`OnlyListenersFed`: the two defects hide each other.

`ServedInv` is inductive on top of `IInv`. `EveryConnectionRead` speaks of accepted clients, and a client
becomes one in the kernel, between two steps of the server; that it is not yet owed a read then is
`ListeningInv`: only the accepting pipe listens. `DeafOnlyByHangUp` speaks of the moments between two
ticks; `NoticingInv` says the same from `ConnectNamedPipe` on.

`FeedsGapless` is about two nested loops over two lists, of which the inner loop removes entries by moving the
last writer to the place of the one removed. It shows that each step is a step of `ListenerFeed` or a stutter, from
`FeedInv`. `DueInv` says that what a subscriber is to be sent next is what the loop will send it: the message at
`msgIx` if the loop has yet to pass its writer, the one after if it has passed it. The loop goes from the end of
the list to its front, so the writer that a removal moves is one it has passed already, to a place it has passed or
is at, and nobody is skipped or served twice. `NumberInv` says that the Outbox holds the numbers that follow
those retired, so clearing it retires what every subscriber has; `UnsentInv`, that who is no writer was sent nothing,
and `WishInv`, that a client's wish to listen is in the pipe, or in a completion, or has made one writer, and never in two of
these, as long as its handle value is new. The hypotheses enter through `CalmInv`: no read completes
under a pending write when listeners are quiet, as the one in the repository is, and the Outbox does not grow
during a flush when `Write` is called from the thread that ticks. Without either the property is
false, and TLC finds it so.

### NamedPipesClient

`ReadInv`: what was handled, what is in the buffer and what is on its way are, in this order, what was sent,
no message waits in the pipe while a read is outstanding, and nothing oversized was taken. `HeardInv`: of what was
handled, `OnRequest` was given exactly the requests, in order; the two together give `HeardInOrder`. `OutboxInv` says what of the batch is written
and what was posted during the flush, so `LostOnlyLate` holds when the vector is cleared; `WrittenInv`, that
nothing is written before what was posted before it. `WrittenOnce` needs each repetition to be paid for by a read that
completed while a pending write was waited for, which is what `woken` counts and no other read does: `RepeatInv` counts
the repetitions against it (`Again` is the one that is certain to come), and `PendingInv` says that a write nobody waits for is left only by one of them.
The counting is of finite sets of positions.

### CompletionServer

`EveryConnectionRead` needs `ListeningInv`, as above, and is inductive with it and `LoopInv`. `FeedsGapless` shows that
the first state maps to a first state of `ListenerFeed`, and every step to a step of it or a stutter. What the
mapping is worth depends on where the loops are: `DueInv` says that a subscriber is due the message that
the loop will send to its writer next, `NumberInv` that `Messages` holds the numbers that follow those retired,
`UnsentInv` that who is no writer was sent nothing, and `WishInv` that a client's wish to listen, on its way through pipe, read
and completion, is in one place and so makes one writer, as long as its handle value is new.

### OverlapServer

`ReadersArmed`: a client that is there has set its Reader's event, or has a read outstanding and nothing unread. It needs
`ListeningInv`, for the client that comes between the two `ConnectNamedPipe`s of its channel. The first loop ends when no
Reader's event is set, and so `FirstLoopReadsAll` follows. That nobody is served needs `AwaitingInv`: the second loop ends only once no Writer's
event is set, and nothing resets one, so in the loops that write every Writer that has or may get a
client still awaits, and is skipped.

### MultithreadedServer

`ThreadsInv`: a read thread was started once, and for a pipe that was made. `ListeningInv`: only the pipe of this tick
listens, so a client that comes is waited for or `early`, and `ServedUnlessEarly` is inductive with the two.

### Np2

`IInv` ties the processes to the kernel: `PipesInv` and `HandlesInv` say which end each process holds,
`OperationsInv` and `PortsInv` whose the operations and completions are, `ThreadInv` where a thread can be for each
state of the main thread, and `LengthsInv` that what a completion says was read is in the buffer. `ReadChained` is
inductive with these.

`InOrder` has an invariant of its own, in two parts. A buffer is overwritten by the next read, so there must be one
operation at most that can still succeed: outstanding, completed, or in its callback (`OneAtATime`). Then what
was heard at an end, what was taken into the buffer and what is on the wire are together what was written to
that end, but for pending writes that are lost with their process, and `Garbage` in the place of a write whose memory was
given back (`OrderInv`). The wire is cut into reads in any way, so this is about `FlattenSeq` of a sequence
of writes; the lemmas on it (of a sequence and one more, of a front and a rest) are proved from its definition by a least
counterexample. A read that ends in a write leaves the wire with that write in two (`Cuts`), and `CutsFlatten` says that
it still carries the same pieces; what is left on the wire is then a rest of that.

### BeamPrograms

`OneOperation` fails to be inductive because an operation is passed on: it is outstanding, then its completion is
in the port, then the callback has the next to issue, and the first of all comes of an accept or a connect. `One` says
that whatever leads to the next operation of a loop is in one place only, and `GoesOnInv` that it is in
one as long as the other end is open; `LoopsInv` and `WireInv` say which loops a process has and that each write on the wire is one of
them. A step of one process touches another only through the pipe. So the proof shows once that a step leaves
each loop of another process where it was, or turns exactly the operation it waited for into a completion
(`Met`), and that this keeps all parts; what is left is the step of a process on its own. `EarlyInv` gives
`ServedUnlessEarly`.

### Options

The proofs are inductions over the loops. For each loop a lemma shows that the function it is exists, and that the
operator is its last value; what holds after each turn is then shown by induction on the turn (`SoFar` for
`TryParseArgs`, `NamedSoFar` for `ParseNamedArguments`). `SoFar` says that the loop goes on exactly as long as the
arguments are declared and admissible, that the fields named hold what was said last, and that the others are
untouched. That needs `ParseFacts`: whether a text parses, and as what, does not depend on the field, although a
failed parse may leave something in it. `IInv` has one conjunct for the types of fields and `FieldsInv`, which is
preserved by every turn, failed ones included: a field whose value is neither default nor admissible is `tainted`. The
round trip follows from what the loop does and from `PrintedFacts`, which says which arguments `ToParsableArgs` prints of
values that text carries. Its converse, `LostUnlessCarried`, depends on what the texts are (`Printed` might give a value
back), and is checked for those of `MCOptions`.

The library's induction theorems take an operator as a parameter, which the provers do not accept. `Induction`, in
`OptionsProofs` and in `Np2Proofs`, takes a set of numbers instead, and is proved from the well-foundedness of `<`.

### Only model-checked

- Liveness (`FlushEndsUnlessHeldUp`, `ClientAccepted`, `ReadsHandled`, `PostedArrives`, `FlushEndsUnlessHungUp`,
  `StuckBeforeWriting`, `RequestsRead`, `StopAfterFailure`, `WriteIsRead`, `WritesGoOn`), which this prover does not
  prove: it needs fairness and `ENABLED`. Of `StuckBeforeWriting` the safety half is `NobodyServed`.
- `LostUnlessCarried`, an invariant that rests on the tables of texts.

## Limits of the models

- `StartServer` on a running server, which would destroy an `OVERLAPPED` still in use, is not
  modelled; nothing in the repository does it.
- A request that completes while a write is pending wakes the writer; one that completed between the
  last wait and `WriteFile` does not, as `WriteFile` resets the handle. The first write then counts as
  in the pipe, in front of the second.
- What a deleted object's memory holds is reduced to two outcomes: the process is gone, or it goes on.
- `BeamIocp` is the copy of `iocp.h` Np2 is built with; what the others do differently is in `BeamPrograms`. Np2 is not
  started twice in a process: a callback left over from the first start would use a `Listener` that
  is gone, and no program does it.
- What the tick client writes is taken to be of one length, as `Room` counts messages.
- `CreateEvent` and the allocation of memory are taken to succeed. Where `CreateEvent` fails in `Start` of the tick
  server the server stays as it was before `StartServer`, which is a state the model has.
- What follows the failed wait of `OverlapServer` with a channel that could not be made is undefined; in the model the
  process ends.
- The two files `NamedPipes.cpp` are identical. The definitions of `NamedPipesServer` are tied to the one in
  `NamedPipesCpp`, those of `NamedPipesClient` to the one in `NamedPipesIocp`.
- In the pushes of `MultithreadedServer` a race ends the process or does not; that it may lose an entry makes no
  difference, as nobody reads them.
- `Options` leaves out the parsers for `string_view` and `vector`, which no option of the repository uses, the
  text of messages, and a `ValidateParsedArgs` other than the default.

## Not modelled

- `NamedPipeOstream`, a stream buffer that hands its text to `Write`: a conversion without state between
  calls, whose only user is not called.
- Build files, and the timing output, text and reconnecting of the example programs; the loops of these
  programs, and what their callbacks do, are actions of the modules above.

## The plan

What exists: the modules above, twelve runs, and the proofs of all safety properties the runs check but
`LostUnlessCarried`. What is next:

1. A composition of `NamedPipesServer` with `NamedPipesClient` in place of the clients of `Win32Pipe`.
