------------------------------- MODULE BeamPrograms -------------------------------
(***************************************************************************)
(* The programs built on the other copies of iocp.h, one server and some   *)
(* clients of one pipe name:                                               *)
(*   "loops"        NamedPipesIocp/NamedPipesServer and NamedPipesClient:  *)
(*                  the server reads and writes, the client reads          *)
(*   "tool_server"  NamedPipesIocp/src/tool_server.cpp and the client of   *)
(*                  inc/main.cpp: the server reads, the client writes      *)
(*   "ToolServer"   NamedPipesCpp/NamedPipesLib/src/ToolServer.cpp, which  *)
(*                  nothing uses, with the client of inc/main.cpp          *)
(* Each loop has one operation outstanding, which its own callback issues  *)
(* again.  In the first two programs run() goes on with an operation it    *)
(* has deleted after it failed; ToolServer's copy breaks, and is run again.*)
(*                                                                         *)
(* A process is a pc of its main thread, "new", "created" once it has made *)
(* a pipe, "up", "exiting" and "gone", and run(), one callback at a time.  *)
(* The wire counts writes, which all are of one length.  Null packets and  *)
(* the completions of SendToClients, whose callback does nothing, are left *)
(* out.                                                                    *)
(***************************************************************************)
EXTENDS Naturals, Sequences, FiniteSets, SequencesExt

CONSTANTS Server,   \* the server process
          Clients,  \* the client processes
          None,     \* no process, no handle
          Quota,    \* writes the kernel buffers before WriteFile is pending
          MaxSends  \* bound: calls of SendToClients

Programs == {"loops", "tool_server", "ToolServer"}
Procs    == {Server} \union Clients

\* The instances of the pipe name: a process makes one at most, named after it.
Pipes == Procs

ASSUME ProgramsAssumption ==
  /\ Server \notin Clients
  /\ None \notin Procs \union (Procs \X {"server", "client"})
  /\ Quota \in Nat
  /\ MaxSends \in Nat

VARIABLES
  program,
  pc,
  phase,    \* of each instance
  end,      \* the process that has each end of an instance open
  handle,   \* the end each process works on, or None
  wire,     \* the writes on their way to each end
  reading,  \* the processes with a ReadFile outstanding
  accepts,  \* the instances with a ConnectNamedPipe outstanding
  port,     \* each process's completion port
  todo,     \* what the callback that runs has still to issue
  deleted,  \* run() holds an operation it has deleted
  started,  \* history: the loops each process has begun
  early,    \* history: instances opened before ConnectNamedPipe
  sends     \* calls of SendToClients

endVars  == <<phase, end, early>>
opVars   == <<wire, reading, accepts>>
runVars  == <<todo, deleted, started>>
vars     == <<program, pc, endVars, handle, opVars, port, runVars, sends>>

Sides == {"server", "client"}
Loops == {"read", "write"}

Other(s) == IF s = "server" THEN "client" ELSE "server"

\* overlapped_op: what it was issued for, and how it ended.
Operations == [op : {"accept", "connect", "read", "write"}, ok : BOOLEAN]

Succeeded(op) == [op |-> op, ok |-> TRUE]
Failed(op)    == [op |-> op, ok |-> FALSE]

TypeOK ==
  /\ program \in Programs
  /\ pc \in [Procs -> {"new", "created", "up", "exiting", "gone"}]
  /\ phase \in [Pipes -> {"unused", "listening", "connected"}]
  /\ end \in [Pipes -> [Sides -> Procs \union {None}]]
  /\ handle \in [Procs -> (Pipes \X Sides) \union {None}]
  /\ \A p \in Procs : pc[p] = "up" => handle[p] # None
  /\ wire \in [Pipes -> [Sides -> 0 .. Quota + 1 + MaxSends]]
  /\ \A i \in Pipes : wire[i]["server"] <= Quota + 1
  /\ reading \subseteq Procs
  /\ accepts \subseteq Pipes
  /\ port \in [Procs -> Seq(Operations)]
  /\ todo \in [Procs -> Seq(Loops)]
  /\ deleted \in [Procs -> BOOLEAN]
  /\ started \in [Procs -> SUBSET Loops]
  /\ early \subseteq Pipes
  /\ sends \in 0 .. MaxSends

Init ==
  /\ program \in Programs
  /\ pc = [p \in Procs |-> "new"]
  /\ phase = [i \in Pipes |-> "unused"]
  /\ end = [i \in Pipes |-> [s \in Sides |-> None]]
  /\ handle = [p \in Procs |-> None]
  /\ wire = [i \in Pipes |-> [s \in Sides |-> 0]]
  /\ reading = {}
  /\ accepts = {}
  /\ port = [p \in Procs |-> <<>>]
  /\ todo = [p \in Procs |-> <<>>]
  /\ deleted = [p \in Procs |-> FALSE]
  /\ started = [p \in Procs |-> {}]
  /\ early = {}
  /\ sends = 0

\* The end p works on, and the process at the other end of it.
Near(p) == handle[p][2]
Far(p)  == Other(Near(p))
Peer(p) == end[handle[p][1]][Far(p)]

\* The process at the other end of p's pipe has closed it.
PeerGone(p) == phase[handle[p][1]] = "connected" /\ Peer(p) = None

--------------------------------------------------------------------------------
(* Starting up.                                                            *)

\* pipe::pipe(name): of a server, and of the client in inc/main.cpp, which makes
\* an instance it never accepts on.
NewPipe(p) ==
  /\ pc[p] = "new"
  /\ p = Server \/ program # "loops"
  /\ phase' = [phase EXCEPT ![p] = "listening"]
  /\ end' = [end EXCEPT ![p]["server"] = p]
  /\ handle' = [handle EXCEPT ![p] = <<p, "server">>]
  /\ pc' = [pc EXCEPT ![p] = "created"]
  /\ UNCHANGED <<program, opVars, port, runVars, early, sends>>

\* async_accept: ConnectNamedPipe fails at once if a client is there or has been,
\* and the callback of that error returns.
AsyncAccept(i) ==
  accepts' = IF phase[i] = "listening" THEN accepts \union {i} ELSE accepts

\* do_server and async_accept_next, from async_accept on.
Accept ==
  /\ pc[Server] = "created"
  /\ AsyncAccept(handle[Server][1])
  /\ pc' = [pc EXCEPT ![Server] = "up"]
  /\ UNCHANGED <<program, endVars, handle, wire, reading, port, runVars, sends>>

Connectable(i) == phase[i] = "listening" /\ end[i]["server"] # None

\* CreateFile of an instance: its outstanding ConnectNamedPipe completes.
Connect(p, i) ==
  /\ Connectable(i)
  /\ phase' = [phase EXCEPT ![i] = "connected"]
  /\ end' = [end EXCEPT ![i]["client"] = p]
  /\ handle' = [handle EXCEPT ![p] = <<i, "client">>]
  /\ early' = IF i \in accepts THEN early ELSE early \union {i}
  /\ accepts' = accepts \ {i}

Accepted(i) ==
  IF i \in accepts THEN [port EXCEPT ![end[i]["server"]] = Append(@, Succeeded("accept"))]
                   ELSE port

\* do_client of ClientMain.cpp: connect, then the read loop.
ClientStarts(p) ==
  /\ p \in Clients /\ program = "loops" /\ pc[p] = "new"
  /\ \E i \in Pipes : Connect(p, i) /\ port' = Accepted(i)
  /\ todo' = [todo EXCEPT ![p] = <<"read">>]
  /\ pc' = [pc EXCEPT ![p] = "up"]
  /\ UNCHANGED <<program, wire, reading, deleted, started, sends>>

\* do_client of inc/main.cpp: async_connect, to any instance that listens, the
\* process's own one too.
AsyncConnect(p) ==
  /\ p \in Clients /\ pc[p] = "created"
  /\ \E i \in Pipes :
       /\ Connect(p, i)
       /\ port' = [Accepted(i) EXCEPT ![p] = Append(@, Succeeded("connect"))]
  /\ pc' = [pc EXCEPT ![p] = "up"]
  /\ UNCHANGED <<program, wire, reading, runVars, sends>>

\* No instance listens: connect throws, and nobody catches it.
ConnectThrows(p) ==
  /\ p \in Clients
  /\ pc[p] = IF program = "loops" THEN "new" ELSE "created"
  /\ \A i \in Pipes : ~Connectable(i)
  /\ pc' = [pc EXCEPT ![p] = "exiting"]
  /\ UNCHANGED <<program, endVars, handle, opVars, port, runVars, sends>>
--------------------------------------------------------------------------------
(* Reading and writing.                                                    *)

\* The completions a step adds to the ports, as sequences by process.
Completes(at) == port' = [p \in Procs |-> port[p] \o at[p]]

Quiet == [p \in Procs |-> <<>>]

\* ReadFile of n of the writes that are there: a write that was pending for want
\* of room completes too.  Only a loop waits for its completion.
TakeWrites(p, n) ==
  LET i == handle[p][1]
      left == wire[i][Near(p)] - n
      unblocked == wire[i][Near(p)] > Quota /\ left <= Quota
                     /\ Peer(p) # None /\ "write" \in started[Peer(p)]
      read == [Quiet EXCEPT ![p] = <<Succeeded("read")>>]
  IN  /\ wire' = [wire EXCEPT ![i][Near(p)] = left]
      /\ Completes(IF unblocked THEN [read EXCEPT ![Peer(p)] = @ \o <<Succeeded("write")>>]
                                ELSE read)
      /\ UNCHANGED reading

\* Mutant: the completion that PostQueuedCompletionStatus is asked for comes too.
AsyncReadPostsToo(p) ==
  IF wire[handle[p][1]][Near(p)] > 0
    THEN /\ wire' = [wire EXCEPT ![handle[p][1]][Near(p)] = 0]
         /\ Completes([Quiet EXCEPT ![p] = <<Succeeded("read"), Succeeded("read")>>])
         /\ UNCHANGED reading
    ELSE /\ reading' = IF PeerGone(p) THEN reading ELSE reading \union {p}
         /\ UNCHANGED <<wire, port>>

\* async_read: some of the writes that are there; else it is outstanding, or fails
\* at once since the other end is closed, and the callback of the error returns.
AsyncRead(p) ==
  LET there == wire[handle[p][1]][Near(p)] IN
  IF there > 0
    THEN \E n \in 1 .. there : TakeWrites(p, n)
    ELSE /\ reading' = IF PeerGone(p) THEN reading ELSE reading \union {p}
         /\ UNCHANGED <<wire, port>>

\* Mutant: the completion that PostQueuedCompletionStatus is asked for comes too.
AsyncWritePostsToo(p) ==
  LET i == handle[p][1] IN
  IF PeerGone(p) THEN UNCHANGED <<wire, reading, port>>
  ELSE /\ wire' = [wire EXCEPT ![i][Far(p)] = @ + 1]
       /\ Completes(IF wire[i][Far(p)] < Quota
                      THEN [Quiet EXCEPT ![p] = <<Succeeded("write"), Succeeded("write")>>]
                      ELSE Quiet)
       /\ UNCHANGED reading

\* async_write: into the outstanding read of the other end; else into the buffer
\* of the pipe, pending if there is no room; or it fails at once.
AsyncWrite(p) ==
  LET i == handle[p][1]
      wrote == [Quiet EXCEPT ![p] = <<Succeeded("write")>>]
  IN  IF PeerGone(p) THEN UNCHANGED <<wire, reading, port>>
      ELSE IF Peer(p) \in reading /\ handle[Peer(p)] = <<i, Far(p)>>
        THEN /\ reading' = reading \ {Peer(p)}
             /\ Completes([wrote EXCEPT ![Peer(p)] = @ \o <<Succeeded("read")>>])
             /\ UNCHANGED wire
        ELSE /\ wire' = [wire EXCEPT ![i][Far(p)] = @ + 1]
             /\ Completes(IF wire[i][Far(p)] < Quota THEN wrote ELSE Quiet)
             /\ UNCHANGED reading

\* A write of p's loop is pending.
Blocked(p) == "write" \in started[p] /\ wire[handle[p][1]][Far(p)] > Quota

--------------------------------------------------------------------------------
(* run().                                                                  *)

\* The accept callbacks: of async_accept_next, and of do_server.
ToolAccepted   == <<"read">>
ServerAccepted == <<"read", "write">>

\* async_read_loop, async_write_loop and tool_listener::async_read.
ReadLoop  == <<"read">>
WriteLoop == <<"write">>

\* Mutant: the callback of a read does not read again.
CallbackReadsOnce(p, op) ==
  CASE op = "accept"  -> IF program = "loops" THEN ServerAccepted ELSE ToolAccepted
    [] op = "connect" -> WriteLoop
    [] op = "read"    -> <<>>
    [] op = "write"   -> WriteLoop

\* Mutant: the callback of async_accept does nothing.
CallbackAcceptsOnly(p, op) ==
  CASE op = "accept"  -> <<>>
    [] op = "connect" -> WriteLoop
    [] op = "read"    -> ReadLoop
    [] op = "write"   -> WriteLoop

\* What the callback of an operation that succeeded issues.
Callback(p, op) ==
  CASE op = "accept"  -> IF program = "loops" THEN ServerAccepted ELSE ToolAccepted
    [] op = "connect" -> WriteLoop
    [] op = "read"    -> ReadLoop
    [] op = "write"   -> WriteLoop

Idle(p) == pc[p] = "up" /\ todo[p] = <<>> /\ ~deleted[p]

\* Mutant: no copy of run breaks after an operation that failed.
GoesOnAlways(p) == TRUE

\* run() goes on with an operation it deleted, the copy of ToolServer excepted.
GoesOn(p) == program # "ToolServer" \/ p # Server

\* GetQueuedCompletionStatus returns.  The callback of an operation that failed
\* returns; then it is deleted.
GetCompletion(p) ==
  LET c == Head(port[p]) IN
  /\ Idle(p)
  /\ port[p] # <<>>
  /\ port' = [port EXCEPT ![p] = Tail(@)]
  /\ todo' = [todo EXCEPT ![p] = IF c.ok THEN Callback(p, c.op) ELSE <<>>]
  /\ deleted' = [deleted EXCEPT ![p] = ~c.ok /\ GoesOn(p)]
  /\ UNCHANGED <<program, pc, endVars, handle, opVars, started, sends>>

\* The callback issues its next operation.
Issue(p) ==
  /\ pc[p] = "up"
  /\ todo[p] # <<>>
  /\ IF Head(todo[p]) = "read" THEN AsyncRead(p) ELSE AsyncWrite(p)
  /\ started' = [started EXCEPT ![p] = @ \union {Head(todo[p])}]
  /\ todo' = [todo EXCEPT ![p] = Tail(@)]
  /\ UNCHANGED <<program, pc, endVars, handle, accepts, deleted, sends>>

\* run() completes the deleted operation, now as one that succeeded, and deletes
\* it again.  That is undefined: nothing may happen, or the callback comes again
\* and fails to read or write, ...
SecondCallback(p) ==
  /\ pc[p] = "up"
  /\ deleted[p]
  /\ deleted' = [deleted EXCEPT ![p] = FALSE]
  /\ UNCHANGED <<program, pc, endVars, handle, opVars, port, todo, started, sends>>

\* ... or the process crashes.
Crash(p) ==
  /\ pc[p] = "up"
  /\ deleted[p]
  /\ pc' = [pc EXCEPT ![p] = "exiting"]
  /\ UNCHANGED <<program, endVars, handle, opVars, port, runVars, sends>>

\* ToolServer::SendToClients, from another thread: to its listener, whether or not
\* anybody is there.
SendToClients ==
  LET i == handle[Server][1] IN
  /\ program = "ToolServer"
  /\ pc[Server] = "up"
  /\ sends < MaxSends
  /\ sends' = sends + 1
  /\ wire' = IF end[i]["client"] = None THEN wire
                                        ELSE [wire EXCEPT ![i]["client"] = @ + 1]
  /\ UNCHANGED <<program, pc, endVars, handle, reading, accepts, port, runVars>>

--------------------------------------------------------------------------------
(* The end of a process.                                                   *)

\* main does not return by itself: the process is killed.
Kill(p) ==
  /\ pc[p] \in {"created", "up"}
  /\ pc' = [pc EXCEPT ![p] = "exiting"]
  /\ UNCHANGED <<program, endVars, handle, opVars, port, runVars, sends>>

\* The operations of q that fail when the other end of <<i, s>> is closed.
Failing(q, i, s) ==
  IF q = None \/ handle[q] # <<i, s>> THEN <<>>
  ELSE (IF q \in reading THEN <<Failed("read")>> ELSE <<>>)
       \o (IF Blocked(q) THEN <<Failed("write")>> ELSE <<>>)

\* The kernel closes one handle of a process that ends: what was written to it is
\* lost, what it wrote can still be read.
CloseOnExit(p) ==
  /\ pc[p] = "exiting"
  /\ \E i \in Pipes, s \in Sides :
       LET q == end[i][Other(s)] IN
       /\ end[i][s] = p
       /\ end' = [end EXCEPT ![i][s] = None]
       /\ port' = IF q \in Procs \ {p}
                    THEN [port EXCEPT ![q] = @ \o Failing(q, i, Other(s))]
                    ELSE port
       /\ reading' = {r \in reading : handle[r] \notin {<<i, s>>, <<i, Other(s)>>}}
       /\ wire' = [wire EXCEPT ![i][s] = 0,
                               ![i][Other(s)] = IF @ > Quota THEN Quota ELSE @]
       /\ accepts' = accepts \ {i}
  /\ UNCHANGED <<program, pc, phase, early, handle, runVars, sends>>

\* All its handles are closed, and its memory is gone.
Ended(p) ==
  /\ pc[p] = "exiting"
  /\ \A i \in Pipes, s \in Sides : end[i][s] # p
  /\ pc' = [pc EXCEPT ![p] = "gone"]
  /\ handle' = [handle EXCEPT ![p] = None]
  /\ port' = [port EXCEPT ![p] = <<>>]
  /\ todo' = [todo EXCEPT ![p] = <<>>]
  /\ deleted' = [deleted EXCEPT ![p] = FALSE]
  /\ started' = [started EXCEPT ![p] = {}]
  /\ UNCHANGED <<program, endVars, opVars, sends>>

--------------------------------------------------------------------------------
Thread(p) ==
  \/ GetCompletion(p)
  \/ Issue(p)
  \/ SecondCallback(p)
  \/ Crash(p)

Main(p) ==
  \/ NewPipe(p)
  \/ ClientStarts(p)
  \/ AsyncConnect(p)
  \/ ConnectThrows(p)

Next ==
  \/ Accept
  \/ SendToClients
  \/ \E p \in Procs :
       \/ Main(p)
       \/ Thread(p)
       \/ Kill(p)
       \/ CloseOnExit(p)
       \/ Ended(p)

\* A thread that can go on does, the server comes to accept, and the kernel
\* closes the handles of a process that ended.
Fairness ==
  /\ WF_vars(Accept)
  /\ \A p \in Procs : WF_vars(Thread(p)) /\ WF_vars(CloseOnExit(p))

Spec == Init /\ [][Next]_vars /\ Fairness
--------------------------------------------------------------------------------
(* What the loops promise.                                                 *)

Completed(p, op) == {n \in DOMAIN port[p] : port[p][n].op = op}
Due(p, op)       == {n \in DOMAIN todo[p] : todo[p][n] = op}

Outstanding(p, op) ==
  \/ op = "read" /\ p \in reading
  \/ op = "write" /\ Blocked(p)

\* The operations of a loop: completed, about to be issued again, or outstanding.
Live(p, op) ==
  Cardinality(Completed(p, op)) + Cardinality(Due(p, op))
    + (IF Outstanding(p, op) THEN 1 ELSE 0)

\* A loop never has two operations on its one buffer, and it does not end before
\* the process at the other end has: there is exactly one until then, whether the
\* operation completes at once, later, or fails (async_read_loop,
\* async_write_loop, tool_listener::async_read).
OneOperation ==
  \A p \in Procs : pc[p] = "up" =>
    \A op \in Loops :
      /\ Live(p, op) <= 1
      /\ op \in started[p] /\ ~PeerGone(p) => Live(p, op) = 1

\* run() works with an operation it has deleted only after the process at the
\* other end is gone, so that no process ends another while it lives; and in the
\* copy ToolServer uses it never does.
DeletedOnlyAfterPeer ==
  \A p \in Procs : deleted[p] /\ pc[p] = "up" =>
    PeerGone(p) /\ (program = "ToolServer" => p # Server)

\* A server that is up serves the client it has, unless that client was there
\* before ConnectNamedPipe (async_accept).
ServedUnlessEarly ==
  LET i == handle[Server][1] IN
  pc[Server] = "up" /\ end[i]["client"] # None /\ i \notin early =>
    "read" \in started[Server] \union {todo[Server][n] : n \in DOMAIN todo[Server]}
      \/ \E n \in DOMAIN port[Server] : port[Server][n].op = "accept"

--------------------------------------------------------------------------------
(* The inductive invariant.                                                *)

\* The loops of a process.
LoopsOf(p) ==
  CASE p = Server /\ program = "loops" -> {"read", "write"}
    [] p = Server /\ program # "loops" -> {"read"}
    [] p # Server /\ program = "loops" -> {"read"}
    [] OTHER                           -> {"write"}

\* An instance is made by the process it is named after, and has a client only once
\* it is connected.
PipesInv ==
  \A i \in Pipes :
    /\ end[i]["server"] \in {i, None} /\ end[i]["client"] \in Clients \union {None}
    /\ pc[i] = "new" => phase[i] = "unused"
    /\ phase[i] = "unused" => end[i]["server"] = None
    /\ phase[i] # "connected" => end[i]["client"] = None
    /\ program = "loops" /\ i # Server => phase[i] = "unused"

\* A process that runs has the end open it works on: the server that of its own
\* instance, a client that of one it connected to.
HandlesInv ==
  \A p \in Procs :
    /\ pc[p] = "created" => handle[p] = <<p, "server">>
    /\ pc[p] \in {"created", "up"} => end[handle[p][1]][handle[p][2]] = p
    /\ p = Server /\ handle[p] # None => handle[p] = <<p, "server">>
    /\ p # Server /\ pc[p] = "up" =>
         handle[p][2] = "client" /\ phase[handle[p][1]] = "connected"

\* Reads and accepts are outstanding only where they can still complete.
OperationsInv ==
  /\ \A p \in reading :
       /\ pc[p] \in {"up", "exiting"}
       /\ handle[p] # None
       /\ end[handle[p][1]][handle[p][2]] = p
       /\ phase[handle[p][1]] = "connected"
       /\ "read" \in started[p]
  /\ \A i \in accepts :
       /\ i = Server
       /\ pc[i] \in {"up", "exiting"}
       /\ phase[i] = "listening"
       /\ end[i]["server"] = i

\* What is on the wire was written by the one loop that writes to that end, or by
\* SendToClients; after a write that is pending comes no other.
WireInv ==
  \A i \in Pipes :
    /\ wire[i]["server"] <= Quota + 1
    /\ wire[i]["client"] <= IF program = "ToolServer" THEN sends ELSE Quota + 1
    /\ \A s \in Sides : wire[i][s] > 0 =>
         /\ phase[i] = "connected" /\ end[i][s] # None
         /\ end[i][Other(s)] # None =>
              /\ handle[end[i][Other(s)]] = <<i, Other(s)>>
              /\ \/ "write" \in started[end[i][Other(s)]]
                 \/ program = "ToolServer" /\ end[i][Other(s)] = Server

\* A completion is that of a loop or leads to one, and what failed did so since the
\* other end was closed.
Expected(p, c) ==
  /\ \/ c.op \in LoopsOf(p)
     \/ c.op = "accept" /\ p = Server
     \/ c.op = "connect" /\ p # Server /\ program # "loops"
  /\ ~c.ok => PeerGone(p)

\* A process has nothing to do before it is up, and then only what its loops do, on a
\* pipe that is connected.
LoopsInv ==
  \A p \in Procs :
    /\ pc[p] \in {"new", "created"} =>
         port[p] = <<>> /\ todo[p] = <<>> /\ started[p] = {} /\ ~deleted[p]
    /\ todo[p] \in {<<>>, <<"read">>, <<"write">>, <<"read", "write">>}
    /\ started[p] \subseteq LoopsOf(p)
    /\ \A n \in DOMAIN todo[p] : todo[p][n] \in LoopsOf(p)
    /\ pc[p] = "up" =>
         /\ todo[p] # <<>> \/ port[p] # <<>> \/ started[p] # {} => phase[handle[p][1]] = "connected"
         /\ \A n \in DOMAIN port[p] : Expected(p, port[p][n])

\* What leads to the next operation of a loop is in one place only.
Steps(p, op) == {n \in DOMAIN port[p] : port[p][n].op \in {op, "accept", "connect"}}

Waits(p, op) == Outstanding(p, op) \/ p \in accepts

One(p, op) ==
  /\ \A m, n \in Steps(p, op) : m = n
  /\ Steps(p, op) # {} => Due(p, op) = {} /\ ~Waits(p, op)
  /\ Due(p, op) # {} => ~Waits(p, op)

\* A loop goes on until the other end is closed.
GoesOnInv(p, op) ==
  op \in started[p] /\ ~PeerGone(p) =>
    Completed(p, op) # {} \/ Due(p, op) # {} \/ Outstanding(p, op)

OneInv ==
  \A p \in Procs, op \in Loops : pc[p] = "up" => One(p, op) /\ GoesOnInv(p, op)

\* The server that accepts too late finds a client that was early.
EarlyInv ==
  pc[Server] = "created" /\ phase[Server] = "connected" => Server \in early

IInv ==
  /\ TypeOK
  /\ PipesInv
  /\ HandlesInv
  /\ OperationsInv
  /\ WireInv
  /\ LoopsInv
  /\ OneInv
  /\ EarlyInv
  /\ DeletedOnlyAfterPeer
  /\ ServedUnlessEarly

--------------------------------------------------------------------------------
(* Liveness.                                                               *)

\* A write that is pending for want of room completes, as long as both processes
\* stay and the other one has begun to read.
WritesGoOn ==
  \A p \in Procs :
    pc[p] = "up" /\ Blocked(p) /\ Peer(p) # None /\ Peer(p) # p
         /\ "read" \in started[Peer(p)]
      ~> pc[p] # "up" \/ ~Blocked(p) \/ PeerGone(p) \/ pc[Peer(p)] # "up"
================================================================================
