-------------------------------- MODULE BeamIocp --------------------------------
(***************************************************************************)
(* beam::iocp and beam::pipe (iocp.h) for the processes that use one pipe  *)
(* name: the instances of that name as the kernel keeps them, the          *)
(* overlapped operations outstanding on them, and each process's           *)
(* completion port.                                                        *)
(*                                                                         *)
(* An instance has a server end, made by CreateNamedPipe, and a client     *)
(* end, made by CreateFile.  It carries bytes: what several WriteFiles     *)
(* wrote may come out of one ReadFile.  A message is a sequence of pieces, *)
(* numbers that stand for some of its bytes each.  A WriteFile puts a      *)
(* message on the wire, and a ReadFile takes the front of what is there,   *)
(* as far as its buffer goes: it may end in the middle of a message.       *)
(*                                                                         *)
(* Completions whose callbacks do nothing are left out: those of writes    *)
(* that succeed, and the null packets run() skips.                         *)
(***************************************************************************)
EXTENDS Naturals, Sequences, SequencesExt

CONSTANTS Procs,   \* the processes
          None,    \* no process, no handle
          Quota    \* writes the kernel buffers before WriteFile is pending

ASSUME IocpAssumption ==
  /\ None \notin Procs \union (Procs \X {"server", "client"})
  /\ Quota \in Nat

VARIABLES
  phase,    \* of each instance
  end,      \* the process that has each end of an instance open
  wire,     \* the writes on their way to each end
  reading,  \* ends with a ReadFile outstanding
  accepts,  \* instances with a ConnectNamedPipe outstanding
  port,     \* each process's completion port
  buffer,   \* the buffer each process reads into
  written,  \* history: the pieces of the messages written to each end
  heard     \* history: those the callback was given at each end

endVars  == <<phase, end>>
opVars   == <<wire, reading, accepts>>
portVars == <<port, buffer>>
history  == <<written, heard>>
iocpVars == <<endVars, opVars, portVars, history>>

Sides == {"server", "client"}

Other(s) == IF s = "server" THEN "client" ELSE "server"

\* What a piece has become when its sender reused the memory too early.
Garbage == 0

\* The instances of the pipe name: each process makes one at most, which is
\* named after it.
Pipes == Procs

Ends == Pipes \X Sides

\* A completion: its operation, or "fail" for any that failed, and the number of
\* pieces read, which is bt in run().
Completions == [op : {"fail", "accept", "connect", "read"}, len : Nat]

Completion(op, len) == [op |-> op, len |-> len]

IocpTypeOK ==
  /\ phase \in [Pipes -> {"unused", "listening", "connected"}]
  /\ end \in [Pipes -> [Sides -> Procs \union {None}]]
  /\ wire \in [Pipes -> [Sides -> Seq(Seq(Nat))]]
  /\ reading \subseteq Ends
  /\ accepts \subseteq Pipes
  /\ port \in [Procs -> Seq(Completions)]
  /\ buffer \in [Procs -> Seq(Nat)]
  /\ written \in [Pipes -> [Sides -> Seq(Nat)]]
  /\ heard \in [Pipes -> [Sides -> Seq(Nat)]]

Nothing == [i \in Pipes |-> [s \in Sides |-> <<>>]]

IocpInit ==
  /\ phase = [i \in Pipes |-> "unused"]
  /\ end = [i \in Pipes |-> [s \in Sides |-> None]]
  /\ wire = Nothing
  /\ reading = {}
  /\ accepts = {}
  /\ port = [p \in Procs |-> <<>>]
  /\ buffer = [p \in Procs |-> <<>>]
  /\ written = Nothing
  /\ heard = Nothing

--------------------------------------------------------------------------------
(* Making, opening and closing an end.                                     *)

\* pipe::pipe.
NewPipe(p) ==
  /\ phase' = [phase EXCEPT ![p] = "listening"]
  /\ end' = [end EXCEPT ![p]["server"] = p]
  /\ UNCHANGED <<opVars, portVars, history>>

\* async_accept: ConnectNamedPipe is left outstanding, unless a client is there
\* or has been, which makes it fail at once.
AsyncAccept(i) ==
  /\ accepts' = IF phase[i] = "listening" THEN accepts \union {i} ELSE accepts
  /\ UNCHANGED <<wire, reading>>

\* CreateFile opens an instance that has no client yet.
Connectable(i) == phase[i] = "listening" /\ end[i]["server"] # None

\* async_connect: an outstanding ConnectNamedPipe completes, and the port is
\* told that the client is connected.
AsyncConnect(p, i) ==
  LET q == end[i]["server"]
      accepted == IF i \in accepts THEN [port EXCEPT ![q] = Append(@, Completion("accept", 0))]
                                   ELSE port
  IN  /\ phase' = [phase EXCEPT ![i] = "connected"]
      /\ end' = [end EXCEPT ![i]["client"] = p]
      /\ accepts' = accepts \ {i}
      /\ port' = [accepted EXCEPT ![p] = Append(@, Completion("connect", 0))]
      /\ UNCHANGED <<wire, reading, buffer, history>>

\* The WriteFiles to an end that are pending.
Pending(i, s) == IF Len(wire[i][s]) > Quota THEN Len(wire[i][s]) - Quota ELSE 0

\* The operations outstanding on end s of i.
Outstanding(i, s) ==
  Pending(i, Other(s)) + (IF <<i, s>> \in reading THEN 1 ELSE 0)
                       + (IF s = "server" /\ i \in accepts THEN 1 ELSE 0)

\* CloseHandle: p's operations on the end are cancelled, those of the process
\* at the other end fail, and what was written to p is lost.
Close(p, i, s) ==
  LET Fails(q) == (IF q = p THEN Outstanding(i, s) ELSE 0)
                + (IF q = end[i][Other(s)] THEN Outstanding(i, Other(s)) ELSE 0)
  IN  /\ end' = [end EXCEPT ![i][s] = None]
      /\ port' = [q \in Procs |->
                    port[q] \o [n \in 1 .. Fails(q) |-> Completion("fail", 0)]]
      /\ wire' = [wire EXCEPT ![i][s] = <<>>,
                              ![i][Other(s)] = SubSeq(@, 1, Len(@) - Pending(i, Other(s)))]
      /\ reading' = reading \ {<<i, "server">>, <<i, "client">>}
      /\ accepts' = accepts \ {i}
      /\ UNCHANGED <<phase, buffer, history>>

--------------------------------------------------------------------------------
(* Writing and reading.                                                    *)

\* The writes ws as they come to lie behind those queued to end s of i: memory
\* that a pending WriteFile still reads may have been reused by its caller.
Queued(i, s, ws) ==
  {[n \in DOMAIN ws |-> IF n \in spoilt THEN [m \in DOMAIN ws[n] |-> Garbage]
                                          ELSE ws[n]] :
     spoilt \in SUBSET {n \in DOMAIN ws : Len(wire[i][s]) + n > Quota}}

\* A read of w into the start of the buffer b.
Overlay(w, b) == w \o SubSeq(b, Len(w) + 1, Len(b))

\* What q's port and buffer become when a read of its w completes.
ReadCompletes(q, w) ==
  /\ port' = [port EXCEPT ![q] = Append(@, Completion("read", Len(w)))]
  /\ buffer' = [buffer EXCEPT ![q] = Overlay(w, @)]

\* The writes ws, of which the n-th may be cut in two.
Cuts(ws, n) ==
  {ws} \union
  {SubSeq(ws, 1, n - 1)
     \o <<SubSeq(ws[n], 1, k), SubSeq(ws[n], k + 1, Len(ws[n]))>>
     \o SubSeq(ws, n + 1, Len(ws)) : k \in 1 .. Len(ws[n]) - 1}

\* async_write of each of ws to end s of i.  An outstanding read there takes the first,
\* or what its buffer holds of it; without a process at that end they fail at once.
AsyncWrites(i, s, ws) ==
  IF phase[i] # "connected" \/ end[i][s] = None \/ ws = <<>>
    THEN UNCHANGED <<opVars, portVars, written>>
    ELSE /\ written' = [written EXCEPT ![i][s] = @ \o FlattenSeq(ws)]
         /\ UNCHANGED accepts
         /\ IF <<i, s>> \in reading
              THEN /\ reading' = reading \ {<<i, s>>}
                   /\ \E cut \in Cuts(ws, 1) :
                        /\ ReadCompletes(end[i][s], Head(cut))
                        /\ \E rest \in Queued(i, s, Tail(cut)) :
                             wire' = [wire EXCEPT ![i][s] = rest]
              ELSE /\ \E all \in Queued(i, s, ws) :
                        wire' = [wire EXCEPT ![i][s] = @ \o all]
                   /\ UNCHANGED <<reading, portVars>>

\* async_read of p on end s of i: it takes some of what is there, up to anywhere in
\* a write, or is left outstanding, or fails at once since the other end is closed.
AsyncRead(p, i, s) ==
  /\ IF wire[i][s] # <<>>
       THEN /\ \E n \in DOMAIN wire[i][s] : \E ws \in Cuts(wire[i][s], n) :
                 /\ ReadCompletes(p, FlattenSeq(SubSeq(ws, 1, n)))
                 /\ wire' = [wire EXCEPT ![i][s] = SubSeq(ws, n + 1, Len(ws))]
            /\ UNCHANGED reading
       ELSE /\ reading' = IF phase[i] = "connected" /\ end[i][Other(s)] # None
                            THEN reading \union {<<i, s>>}
                            ELSE reading
            /\ UNCHANGED <<wire, portVars>>
  /\ UNCHANGED accepts
================================================================================
