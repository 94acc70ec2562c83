---------------------------------- MODULE Np2 ----------------------------------
(***************************************************************************)
(* Np2.cpp as ServerMain.cpp and ClientMain.cpp use it: processes that are *)
(* each a server or a client of one pipe name.  In each of them            *)
(*   - the main thread starts, writes and stops; pc says where it is:      *)
(*       "new"      before StartX                                          *)
(*       "created"  in StartX, the Pipe made but not accepting/connecting  *)
(*       "up"       between StartX and StopX                               *)
(*       "joining"  in StopX, in Thread.join()                             *)
(*       "stopped"  after StopX                                            *)
(*       "exiting"  the process is ending, its handles being closed        *)
(*   - Thread runs Context.run(); worker says where it is:                 *)
(*       "none"     not started, or joined                                 *)
(*       "check"    at while (!Stopping)                                   *)
(*       "run"      in GetQueuedCompletionStatus of run()                  *)
(*       "callback" about to call back for the completion it got           *)
(*       "rearm"    in a callback, about to call ReadAsync                 *)
(*       "ended"    returned                                               *)
(* Each process starts once, as the programs do.                           *)
(***************************************************************************)
EXTENDS BeamIocp

CONSTANTS Servers,   \* the processes that call StartServer; the others StartClient
          MaxWrites  \* bound: pieces of messages the main threads write

ASSUME Np2Assumption ==
  /\ Servers \subseteq Procs
  /\ MaxWrites \in Nat

VARIABLES
  pc,
  worker,
  Stopping,
  handle,     \* Pipe: the end of its handle_, or None
  got,        \* the completion run() is working on
  Listeners,  \* the Active flag of each Listener of a server
  sends       \* pieces of messages the main threads have written

mainVars   == <<pc, handle, sends>>
threadVars == <<worker, got, Stopping, Listeners>>
vars       == <<iocpVars, mainVars, threadVars>>

Clients == Procs \ Servers

Np2TypeOK ==
  /\ pc \in [Procs -> {"new", "created", "up", "joining", "stopped", "exiting"}]
  /\ worker \in [Procs -> {"none", "check", "run", "callback", "rearm", "ended"}]
  /\ Stopping \in [Procs -> BOOLEAN]
  /\ handle \in [Procs -> Ends \union {None}]
  /\ \A p \in Procs : pc[p] # "exiting" => (handle[p] = None <=> pc[p] \in {"new", "stopped"})
  /\ got \in [Procs -> Completions \union {None}]
  /\ Listeners \in [Procs -> Seq(BOOLEAN)]
  /\ sends \in Nat

TypeOK == IocpTypeOK /\ Np2TypeOK

Np2Init ==
  /\ pc = [p \in Procs |-> "new"]
  /\ worker = [p \in Procs |-> "none"]
  /\ Stopping = [p \in Procs |-> FALSE]
  /\ handle = [p \in Procs |-> None]
  /\ got = [p \in Procs |-> None]
  /\ Listeners = [p \in Procs |-> <<>>]
  /\ sends = 0

Init == IocpInit /\ Np2Init

--------------------------------------------------------------------------------
(* StartServer, StartClient.                                               *)

\* The common beginning: both make an instance of the pipe name.
Start(p) ==
  /\ pc[p] = "new"
  /\ NewPipe(p)
  /\ handle' = [handle EXCEPT ![p] = <<p, "server">>]
  /\ Stopping' = [Stopping EXCEPT ![p] = FALSE]
  /\ pc' = [pc EXCEPT ![p] = "created"]
  /\ UNCHANGED <<worker, got, Listeners, sends>>

\* AcceptConnection, and the thread of StartServer.
AcceptConnection(p) ==
  /\ p \in Servers
  /\ pc[p] = "created"
  /\ AsyncAccept(handle[p][1])
  /\ Listeners' = [Listeners EXCEPT ![p] = Append(@, FALSE)]
  /\ worker' = [worker EXCEPT ![p] = "check"]
  /\ pc' = [pc EXCEPT ![p] = "up"]
  /\ UNCHANGED <<endVars, portVars, history, got, Stopping, handle, sends>>

\* ConnectAsync, and the thread of StartClient.  CreateFile takes any instance
\* that listens, the client's own one too, whose handle is lost.
ConnectAsync(p) ==
  /\ p \in Clients
  /\ pc[p] = "created"
  /\ \E i \in Pipes :
       /\ Connectable(i)
       /\ AsyncConnect(p, i)
       /\ handle' = [handle EXCEPT ![p] = <<i, "client">>]
  /\ worker' = [worker EXCEPT ![p] = "check"]
  /\ pc' = [pc EXCEPT ![p] = "up"]
  /\ UNCHANGED <<got, Stopping, Listeners, sends>>

\* No instance listens: connect throws, and nobody catches it.
ConnectThrows(p) ==
  /\ p \in Clients
  /\ pc[p] = "created"
  /\ \A i \in Pipes : ~Connectable(i)
  /\ pc' = [pc EXCEPT ![p] = "exiting"]
  /\ UNCHANGED <<iocpVars, handle, sends, threadVars>>

--------------------------------------------------------------------------------
(* Write, from the main thread or from OnMessage.                          *)

\* The writes of Np2::Write: one for the Client, or one for each listener that
\* is Active, all to the one Pipe.
Writes(p, w) ==
  IF p \in Servers
    THEN [n \in 1 .. Cardinality({l \in DOMAIN Listeners[p] : Listeners[p][l]}) |-> w]
    ELSE <<w>>

Write(p, w) == AsyncWrites(handle[p][1], Other(handle[p][2]), Writes(p, w))

\* The main thread writes a message of one piece or more.
MainWrite(p) ==
  /\ pc[p] = "up"
  /\ \E n \in 1 .. MaxWrites - sends :
       /\ sends' = sends + n
       /\ Write(p, [k \in 1 .. n |-> sends + k])
  /\ UNCHANGED <<endVars, heard, pc, handle, threadVars>>

--------------------------------------------------------------------------------
(* StopServer, StopClient, and the end of the process.                     *)

Stop(p) ==
  /\ pc[p] = "up"
  /\ pc' = [pc EXCEPT ![p] = "joining"]
  /\ Stopping' = [Stopping EXCEPT ![p] = TRUE]
  /\ UNCHANGED <<iocpVars, handle, sends, worker, got, Listeners>>

\* Mutant: Pipe is not reset.
JoinedOnly(p) ==
  /\ pc[p] = "joining"
  /\ worker[p] = "ended"
  /\ worker' = [worker EXCEPT ![p] = "none"]
  /\ pc' = [pc EXCEPT ![p] = "stopped"]
  /\ UNCHANGED <<iocpVars, handle, sends, got, Stopping, Listeners>>

\* Thread.join() returns, and Pipe is reset.
Joined(p) ==
  /\ pc[p] = "joining"
  /\ worker[p] = "ended"
  /\ Close(p, handle[p][1], handle[p][2])
  /\ handle' = [handle EXCEPT ![p] = None]
  /\ worker' = [worker EXCEPT ![p] = "none"]
  /\ pc' = [pc EXCEPT ![p] = "stopped"]
  /\ UNCHANGED <<sends, got, Stopping, Listeners>>

\* The process ends, after StopX or killed at any time.
Exit(p) ==
  /\ pc[p] \notin {"new", "exiting"}
  /\ pc' = [pc EXCEPT ![p] = "exiting"]
  /\ UNCHANGED <<iocpVars, handle, sends, threadVars>>

\* The kernel closes the handles it still has, the lost ones too.
CloseOnExit(p) ==
  /\ pc[p] = "exiting"
  /\ \E i \in Pipes, s \in Sides :
       /\ end[i][s] = p
       /\ Close(p, i, s)
  /\ UNCHANGED <<mainVars, threadVars>>

--------------------------------------------------------------------------------
(* The thread: while (!Stopping) Context.run().                            *)

Running(p) == pc[p] \in {"up", "joining"}

CheckStopping(p) ==
  /\ Running(p)
  /\ worker[p] = "check"
  /\ worker' = [worker EXCEPT ![p] = IF Stopping[p] THEN "ended" ELSE "run"]
  /\ UNCHANGED <<iocpVars, mainVars, got, Stopping, Listeners>>

\* Mutant: run goes on after an operation that failed.
GetCompletionGoesOn(p) ==
  /\ Running(p)
  /\ worker[p] = "run"
  /\ port[p] # <<>>
  /\ got' = [got EXCEPT ![p] = Head(port[p])]
  /\ port' = [port EXCEPT ![p] = Tail(@)]
  /\ worker' = [worker EXCEPT ![p] = IF Head(port[p]).op = "fail" THEN "run" ELSE "callback"]
  /\ UNCHANGED <<endVars, opVars, buffer, history, mainVars, Stopping, Listeners>>

\* Mutant: run ends after every operation.
GetCompletionBreaks(p) ==
  /\ Running(p)
  /\ worker[p] = "run"
  /\ port[p] # <<>>
  /\ got' = [got EXCEPT ![p] = Head(port[p])]
  /\ port' = [port EXCEPT ![p] = Tail(@)]
  /\ worker' = [worker EXCEPT ![p] = "check"]
  /\ UNCHANGED <<endVars, opVars, buffer, history, mainVars, Stopping, Listeners>>

\* GetQueuedCompletionStatus returns.  The callback of an operation that failed
\* does nothing, and run() ends.
GetCompletion(p) ==
  /\ Running(p)
  /\ worker[p] = "run"
  /\ port[p] # <<>>
  /\ got' = [got EXCEPT ![p] = Head(port[p])]
  /\ port' = [port EXCEPT ![p] = Tail(@)]
  /\ worker' = [worker EXCEPT ![p] = IF Head(port[p]).op = "fail" THEN "check" ELSE "callback"]
  /\ UNCHANGED <<endVars, opVars, buffer, history, mainVars, Stopping, Listeners>>

Calls(p, op) ==
  /\ Running(p)
  /\ worker[p] = "callback"
  /\ got[p].op = op

\* Mutant: the callback makes the listener Active and does not read.
OnAcceptOnly(p) ==
  /\ Calls(p, "accept")
  /\ Listeners' = [Listeners EXCEPT ![p][Len(Listeners[p])] = TRUE]
  /\ worker' = [worker EXCEPT ![p] = "run"]
  /\ UNCHANGED <<iocpVars, mainVars, got, Stopping>>

\* The callback of AcceptConnection, up to ReadAsync.
OnAccept(p) ==
  /\ Calls(p, "accept")
  /\ Listeners' = [Listeners EXCEPT ![p][Len(Listeners[p])] = TRUE]
  /\ worker' = [worker EXCEPT ![p] = "rearm"]
  /\ UNCHANGED <<iocpVars, mainVars, got, Stopping>>

\* The callback of StartClient, up to ReadAsync.
OnConnect(p) ==
  /\ Calls(p, "connect")
  /\ worker' = [worker EXCEPT ![p] = "rearm"]
  /\ UNCHANGED <<iocpVars, mainVars, got, Stopping, Listeners>>

\* Mutant: the message is all there is in the Buffer.
ReceivedAll(p) == buffer[p]

\* The message of the read callback: the first msgLength of the Buffer.
Received(p) == SubSeq(buffer[p], 1, got[p].len)

\* OnMessage: the server echoes, the client prints.
OnMessage(p, w) ==
  IF p \in Servers THEN Write(p, w) ELSE UNCHANGED <<opVars, portVars, written>>

\* Mutant: the callback does not read again.
OnReadOnly(p) ==
  /\ Calls(p, "read")
  /\ heard' = [heard EXCEPT ![handle[p][1]][handle[p][2]] = @ \o Received(p)]
  /\ OnMessage(p, Received(p))
  /\ worker' = [worker EXCEPT ![p] = "run"]
  /\ UNCHANGED <<endVars, mainVars, got, Stopping, Listeners>>

\* The callback of ReadAsync, up to the next ReadAsync.
OnRead(p) ==
  /\ Calls(p, "read")
  /\ heard' = [heard EXCEPT ![handle[p][1]][handle[p][2]] = @ \o Received(p)]
  /\ OnMessage(p, Received(p))
  /\ worker' = [worker EXCEPT ![p] = "rearm"]
  /\ UNCHANGED <<endVars, mainVars, got, Stopping, Listeners>>

\* ReadAsync.  If the read fails at once its callback is called on the spot and
\* returns; either way run() goes on.
ReadAsync(p) ==
  /\ Running(p)
  /\ worker[p] = "rearm"
  /\ AsyncRead(p, handle[p][1], handle[p][2])
  /\ worker' = [worker EXCEPT ![p] = "run"]
  /\ UNCHANGED <<endVars, history, mainVars, got, Stopping, Listeners>>

--------------------------------------------------------------------------------
Thread(p) ==
  \/ CheckStopping(p)
  \/ GetCompletion(p)
  \/ OnAccept(p)
  \/ OnConnect(p)
  \/ OnRead(p)
  \/ ReadAsync(p)

Main(p) ==
  \/ Start(p)
  \/ AcceptConnection(p)
  \/ ConnectAsync(p)
  \/ ConnectThrows(p)
  \/ MainWrite(p)
  \/ Stop(p)
  \/ Joined(p)

Next ==
  \E p \in Procs :
    \/ Main(p)
    \/ Thread(p)
    \/ Exit(p)
    \/ CloseOnExit(p)

Spec == Init /\ [][Next]_vars

\* A thread that can go on does, Thread.join() returns once it can, StartX goes
\* through, and the kernel closes the handles of a process that ended.
Fairness ==
  \A p \in Procs :
    /\ WF_vars(Thread(p))
    /\ WF_vars(Joined(p))
    /\ WF_vars(AcceptConnection(p) \/ ConnectAsync(p))
    /\ WF_vars(CloseOnExit(p))

LiveSpec == Spec /\ Fairness
--------------------------------------------------------------------------------
(* Safety.                                                                 *)

\* The process at the other end of p's pipe has closed it.
PeerGone(p) ==
  LET i == handle[p][1] IN
  phase[i] = "connected" /\ end[i][Other(handle[p][2])] = None

\* OnMessage is given what was written to its end in the order it was written, no
\* piece twice and none left out, but cut up as the reads end; only what a WriteFile
\* that was pending held may have been overwritten by its sender.  It rests
\* on the one Buffer of a Listener being read into only between two callbacks.
InOrder ==
  \A i \in Pipes, s \in Sides :
    /\ Len(heard[i][s]) <= Len(written[i][s])
    /\ \A n \in DOMAIN heard[i][s] : heard[i][s][n] \in {written[i][s][n], Garbage}

\* run() returns only once the process at the other end of the pipe is gone.  So
\* a StopX that finds the thread inside run() waits for the other process, and
\* two that stop together wait for ever (run, Thread.join).
RunNeedsPeerGone ==
  [][\A p \in Procs :
       worker[p] = "run" /\ worker'[p] = "check" => PeerGone(p)]_vars

\* A process that reads, a client or a server that has become Active, has a
\* read outstanding or a completion to come from, for as long as the process at
\* the other end is there (ReadAsync).
Reads(p) == Running(p) /\ (p \in Clients \/ Last(Listeners[p]))

ReadChained ==
  \A p \in Procs :
    Reads(p) =>
      \/ PeerGone(p)
      \/ worker[p] \in {"callback", "rearm"}
      \/ handle[p] \in reading
      \/ \E n \in DOMAIN port[p] : port[p][n].op # "fail"

--------------------------------------------------------------------------------
(* The inductive invariant.                                                *)

\* An instance is made by the process it is named after, and has a client once it is
\* connected.
PipesInv ==
  \A i \in Pipes :
    /\ end[i]["server"] \in {i, None}
    /\ pc[i] = "new" => phase[i] = "unused"
    /\ phase[i] = "unused" => end[i]["server"] = None
    /\ phase[i] # "connected" => end[i]["client"] = None

\* Until it stops or ends, a process has the end open that its Pipe is: a server
\* that of the instance it made, a client that of one it connected to.
HandlesInv ==
  \A p \in Procs :
    /\ pc[p] = "created" => handle[p] = <<p, "server">>
    /\ pc[p] \in {"created", "up", "joining"} => end[handle[p][1]][handle[p][2]] = p
    /\ p \in Servers /\ handle[p] # None => handle[p] = <<p, "server">>
    /\ p \in Clients /\ Running(p) =>
         handle[p][2] = "client" /\ phase[handle[p][1]] = "connected"

\* The process that has end s of i open has it for its Pipe.
Owned(i, s) ==
  /\ end[i][s] # None
  /\ handle[end[i][s]] = <<i, s>>
  /\ pc[end[i][s]] \notin {"new", "created"}

\* Only a process's own Pipe has operations outstanding, a ReadFile or ConnectNamedPipe
\* only while it can still complete.
OperationsInv ==
  \A i \in Pipes, s \in Sides :
    /\ <<i, s>> \in reading =>
         /\ Owned(i, s) /\ phase[i] = "connected" /\ end[i][Other(s)] # None
         /\ wire[i][s] = <<>>
    /\ Pending(i, Other(s)) > 0 => Owned(i, s)
    /\ i \in accepts => Owned(i, "server") /\ phase[i] = "listening"
    /\ wire[i][s] # <<>> => phase[i] = "connected" /\ end[i][s] # None

\* The thread is there from StartX to StopX, with the one Listener a server has.
ThreadInv ==
  \A p \in Procs :
    /\ worker[p] # "none" => pc[p] \in {"up", "joining", "exiting"}
    /\ pc[p] \in {"new", "created"} => port[p] = <<>> /\ Listeners[p] = <<>>
    /\ p \in Servers /\ Running(p) => Len(Listeners[p]) = 1
    /\ Len(Listeners[p]) <= 1

\* Only a pipe that is connected completes an operation of its process, and one fails
\* only after the process at the other end has closed it.
PortsInv ==
  \A p \in Procs : Running(p) =>
    /\ worker[p] \in {"callback", "rearm"} => phase[handle[p][1]] = "connected"
    /\ \A n \in DOMAIN port[p] :
         IF port[p][n].op = "fail" THEN PeerGone(p) ELSE phase[handle[p][1]] = "connected"

\* What a completion says was read is in the buffer.
LengthsInv ==
  \A p \in Procs :
    /\ \A n \in DOMAIN port[p] : port[p][n].len <= Len(buffer[p])
    /\ worker[p] = "callback" => got[p] \in Completions /\ got[p].len <= Len(buffer[p])

IInv ==
  /\ TypeOK
  /\ PipesInv
  /\ HandlesInv
  /\ OperationsInv
  /\ ThreadInv
  /\ PortsInv
  /\ LengthsInv
  /\ ReadChained

\* A process has one operation at most that can still succeed: a ReadFile or
\* ConnectNamedPipe outstanding, its completion, or the callback of that one.
Succeeded(p) == {n \in DOMAIN port[p] : port[p][n].op # "fail"}

Busy(p) == worker[p] \in {"callback", "rearm"}

Waiting(p) ==
  \E i \in Pipes, s \in Sides :
    /\ end[i][s] = p
    /\ <<i, s>> \in reading \/ (s = "server" /\ i \in accepts)

One(p) ==
  /\ \A m, n \in Succeeded(p) : m = n
  /\ Succeeded(p) # {} => ~Busy(p) /\ ~Waiting(p)
  /\ ~(Busy(p) /\ Waiting(p))

OneAtATime == \A p \in Procs : One(p)

\* What a read of p has taken off the wire and no callback was given yet.
Taken(p) ==
  {SubSeq(buffer[p], 1, port[p][n].len) : n \in {n \in DOMAIN port[p] : port[p][n].op = "read"}}
  \union (IF worker[p] = "callback" /\ got[p].op = "read" THEN {Received(p)} ELSE {})

Used(i, s) == end[i][s] # None /\ handle[end[i][s]] = <<i, s>>

TakenAt(i, s) ==
  IF Used(i, s) /\ Taken(end[i][s]) # {} THEN Taken(end[i][s]) ELSE {<<>>}

\* t is the front of u, but for pieces that were overwritten.
Fits(t, u) ==
  /\ Len(t) <= Len(u)
  /\ \A n \in 1 .. Len(t) : t[n] = u[n] \/ t[n] = Garbage

\* What was written to an end is, in that order, what was heard there, what a read has
\* taken, and what is on the wire; it is all of it while both ends are open.
Line(i, s, w) == (heard[i][s] \o w) \o FlattenSeq(wire[i][s])

InLine(i, s, w) ==
  /\ Fits(Line(i, s, w), written[i][s])
  /\ end[i][s] # None /\ end[i][Other(s)] # None
       => Len(Line(i, s, w)) = Len(written[i][s])

Ordered(i, s) ==
  /\ phase[i] # "connected" => written[i][s] = <<>>
  /\ \A w \in TakenAt(i, s) : InLine(i, s, w)

OrderInv == \A i \in Pipes, s \in Sides : Ordered(i, s)

--------------------------------------------------------------------------------
(* Liveness.                                                               *)

\* A StopX returns once an operation of its process has failed (run).
StopAfterFailure ==
  \A p \in Procs :
    pc[p] = "joining" /\ (\E n \in DOMAIN port[p] : port[p][n].op = "fail")
      ~> pc[p] # "joining"

\* What was written to a process that reads is taken by a ReadFile, unless the
\* process stops (ReadAsync).
WriteIsRead ==
  \A p \in Procs, i \in Pipes, s \in Sides :
    Reads(p) /\ handle[p] = <<i, s>> /\ wire[i][s] # <<>>
      ~> wire[i][s] = <<>> \/ pc[p] # "up"
================================================================================
