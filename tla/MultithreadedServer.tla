-------------------------- MODULE MultithreadedServer --------------------------
(***************************************************************************)
(* MtPipeServer (MultithreadedServer.cpp): the application's thread makes  *)
(* a pipe and waits for a client in each Tick, and every client gets a     *)
(* read thread (ReadTick) and a write thread (WriteTick).  pc says where   *)
(* the application's thread is:                                            *)
(*   "idle"     between two calls                                          *)
(*   "created"  in Tick, before ConnectNamedPipe                           *)
(*   "waiting"  in ConnectNamedPipe                                        *)
(*   "joining"  in Stop                                                    *)
(*   "stopped"  after Stop                                                 *)
(* and ReadTick where each read thread is: "none" before it is started,    *)
(* "read" in ReadSync, "request" in OnRequest, "push" there too, in the    *)
(* push_back of Write, "ended".                                            *)
(*                                                                         *)
(* A write thread looks at the Outbox of its source file, where nobody     *)
(* puts anything, so that it has no step to take and never ends.  What the *)
(* read threads push goes to the Outbox of the server, which nobody reads: *)
(* no answer is ever sent, and all that matters of that Outbox is whether  *)
(* two threads are in its push_back at once.  No pipe is ever closed.      *)
(***************************************************************************)
EXTENDS Naturals, Sequences, SequencesExt

CONSTANTS Pipes,      \* the ChannelCount instances of the pipe
          None,       \* no pipe
          MaxUnread,  \* bound: messages queued unread on one pipe
          MaxSends,   \* bound: messages all clients send together
          MaxAnswers  \* bound: answers written to one request

ASSUME MultithreadedAssumption ==
  /\ None \notin Pipes
  /\ {MaxUnread, MaxSends, MaxAnswers} \subseteq Nat

VARIABLES
  state,     \* of each pipe
  unread,    \* requests sent on it and not read
  pc,
  ListenPipe,
  ReadTick,  \* where the read thread of each pipe is
  ClientThreads,  \* the pipes whose two threads were started, in that order
  joined,    \* threads Stop has joined
  due,       \* answers each read thread has yet to write to its request
  racing,    \* read threads whose push_back another one has overlapped with
  crashed,   \* has the process ended because of it
  early,     \* history: clients that came before ConnectNamedPipe
  sends

pipeVars   == <<state, unread, sends>>
threadVars == <<ReadTick, due, racing, crashed>>
mainVars   == <<pc, ListenPipe, ClientThreads, joined>>
vars       == <<pipeVars, threadVars, mainVars, early>>

RequestKinds == {"request", "blank", "oversized"}

TypeOK ==
  /\ state \in [Pipes -> {"none", "listening", "connected", "broken"}]
  /\ unread \in [Pipes -> Seq(RequestKinds)]
  /\ pc \in {"idle", "created", "waiting", "joining", "stopped"}
  /\ ListenPipe \in Pipes \union {None}
  /\ ReadTick \in [Pipes -> {"none", "read", "request", "push", "ended"}]
  /\ ClientThreads \in Seq(Pipes) /\ IsInjective(ClientThreads)
  /\ joined \in 0 .. 2 * Len(ClientThreads)
  /\ due \in [Pipes -> 0 .. MaxAnswers]
  /\ {racing, early} \subseteq SUBSET Pipes
  /\ crashed \in BOOLEAN
  /\ sends \in Nat

Init ==
  /\ state = [p \in Pipes |-> "none"]
  /\ unread = [p \in Pipes |-> <<>>]
  /\ pc = "idle"
  /\ ListenPipe = None
  /\ ReadTick = [p \in Pipes |-> "none"]
  /\ ClientThreads = <<>>
  /\ joined = 0
  /\ due = [p \in Pipes |-> 0]
  /\ racing = {}
  /\ crashed = FALSE
  /\ early = {}
  /\ sends = 0

--------------------------------------------------------------------------------
(* The application's thread.                                               *)

\* CreateNamedPipe of Tick; once every instance is made it fails for ever.
Tick ==
  /\ pc = "idle"
  /\ \E p \in Pipes :
       /\ state[p] = "none"
       /\ state' = [state EXCEPT ![p] = "listening"]
       /\ ListenPipe' = p
  /\ pc' = "created"
  /\ UNCHANGED <<unread, sends, threadVars, ClientThreads, joined, early>>

\* ConnectNamedPipe waits, or returns FALSE because of a client that is there
\* or has been, and whom nobody will serve.
ConnectNamedPipe ==
  /\ pc = "created"
  /\ pc' = IF state[ListenPipe] = "listening" THEN "waiting" ELSE "idle"
  /\ UNCHANGED <<pipeVars, threadVars, ListenPipe, ClientThreads, joined, early>>

\* Mutant: a client is taken for the error it once was.
AcceptNobody ==
  /\ pc = "waiting"
  /\ state[ListenPipe] # "listening"
  /\ pc' = "idle"
  /\ UNCHANGED <<pipeVars, threadVars, ListenPipe, ClientThreads, joined, early>>

\* Mutant: the pipe is waited for again.
AcceptAgain ==
  /\ pc = "waiting"
  /\ state[ListenPipe] # "listening"
  /\ ReadTick' = [ReadTick EXCEPT ![ListenPipe] = "read"]
  /\ ClientThreads' = Append(ClientThreads, ListenPipe)
  /\ UNCHANGED <<pipeVars, due, racing, crashed, pc, ListenPipe, joined, early>>

\* It returns TRUE, and the two threads of the client are started.
Accept ==
  /\ pc = "waiting"
  /\ state[ListenPipe] # "listening"
  /\ ReadTick' = [ReadTick EXCEPT ![ListenPipe] = "read"]
  /\ ClientThreads' = Append(ClientThreads, ListenPipe)
  /\ pc' = "idle"
  /\ UNCHANGED <<pipeVars, due, racing, crashed, ListenPipe, joined, early>>

Stop ==
  /\ pc = "idle"
  /\ pc' = "joining"
  /\ UNCHANGED <<pipeVars, threadVars, ListenPipe, ClientThreads, joined, early>>

\* The thread to join next is the read thread of a client, not the write thread
\* that follows it.
ReaderNext == joined < 2 * Len(ClientThreads) /\ joined % 2 = 0

JoinReader ==
  /\ pc = "joining"
  /\ ReaderNext
  /\ ReadTick[ClientThreads[joined \div 2 + 1]] = "ended"
  /\ joined' = joined + 1
  /\ UNCHANGED <<pipeVars, threadVars, pc, ListenPipe, ClientThreads, early>>

StopReturns ==
  /\ pc = "joining"
  /\ joined = 2 * Len(ClientThreads)
  /\ pc' = "stopped"
  /\ UNCHANGED <<pipeVars, threadVars, ListenPipe, ClientThreads, joined, early>>

--------------------------------------------------------------------------------
(* The read threads.                                                       *)

\* The other threads that are in push_back.
Pushing(p) == {q \in Pipes \ {p} : ReadTick[q] = "push"}

\* ReadSync returns a request and OnRequest is called, which answers with as many
\* Writes as it likes, or rejects it and leaves one to ReadTick.
ReadRequest(p) ==
  /\ ReadTick[p] = "read"
  /\ unread[p] # <<>>
  /\ Head(unread[p]) = "request"
  /\ unread' = [unread EXCEPT ![p] = Tail(@)]
  /\ \E answers \in 0 .. MaxAnswers : due' = [due EXCEPT ![p] = answers]
  /\ ReadTick' = [ReadTick EXCEPT ![p] = "request"]
  /\ UNCHANGED <<state, sends, racing, crashed, mainVars, early>>

\* Write begins its push_back.
Write(p) ==
  /\ ReadTick[p] = "request"
  /\ due[p] > 0
  /\ due' = [due EXCEPT ![p] = @ - 1]
  /\ racing' = IF Pushing(p) = {} THEN racing ELSE racing \union Pushing(p) \union {p}
  /\ ReadTick' = [ReadTick EXCEPT ![p] = "push"]
  /\ UNCHANGED <<pipeVars, crashed, mainVars, early>>

\* The push_back is done, or ends the process if another one came between.
Push(p) ==
  /\ ReadTick[p] = "push"
  /\ ReadTick' = [ReadTick EXCEPT ![p] = "request"]
  /\ crashed' \in BOOLEAN
  /\ crashed' => p \in racing
  /\ racing' = racing \ {p}
  /\ UNCHANGED <<pipeVars, due, mainVars, early>>

Answered(p) ==
  /\ ReadTick[p] = "request"
  /\ due[p] = 0
  /\ ReadTick' = [ReadTick EXCEPT ![p] = "read"]
  /\ UNCHANGED <<pipeVars, due, racing, crashed, mainVars, early>>

\* Mutant: a read that failed is tried again.
ReadEndsNever(p) ==
  /\ ReadTick[p] = "read"
  /\ unread[p] # <<>> /\ Head(unread[p]) # "request"
  /\ UNCHANGED vars

\* ReadSync returns false: nothing was read, or more than fits the buffer, or the
\* client has gone.
ReadEnds(p) ==
  /\ ReadTick[p] = "read"
  /\ IF unread[p] = <<>>
       THEN state[p] = "broken"
       ELSE Head(unread[p]) \in {"blank", "oversized"}
  /\ ReadTick' = [ReadTick EXCEPT ![p] = "ended"]
  /\ UNCHANGED <<pipeVars, due, racing, crashed, mainVars, early>>

--------------------------------------------------------------------------------
(* The clients.                                                            *)

ClientConnect(p) ==
  /\ state[p] = "listening"
  /\ state' = [state EXCEPT ![p] = "connected"]
  /\ early' = IF pc = "created" /\ p = ListenPipe THEN early \union {p} ELSE early
  /\ UNCHANGED <<unread, sends>>

ClientSend(p) ==
  /\ state[p] = "connected"
  /\ sends < MaxSends
  /\ Len(unread[p]) < MaxUnread
  /\ sends' = sends + 1
  /\ \E request \in RequestKinds : unread' = [unread EXCEPT ![p] = Append(@, request)]
  /\ UNCHANGED <<state, early>>

ClientHangUp(p) ==
  /\ state[p] = "connected"
  /\ state' = [state EXCEPT ![p] = "broken"]
  /\ UNCHANGED <<unread, sends, early>>

ClientStep ==
  /\ \E p \in Pipes : ClientConnect(p) \/ ClientSend(p) \/ ClientHangUp(p)
  /\ UNCHANGED <<threadVars, mainVars>>

--------------------------------------------------------------------------------
MainStep ==
  \/ Tick
  \/ ConnectNamedPipe
  \/ Accept
  \/ JoinReader
  \/ StopReturns

ReadStep(p) ==
  \/ ReadRequest(p)
  \/ Write(p)
  \/ Push(p)
  \/ Answered(p)
  \/ ReadEnds(p)

Next ==
  \/ ClientStep
  \/ /\ ~crashed
     /\ \/ MainStep
        \/ Stop
        \/ \E p \in Pipes : ReadStep(p)

Spec == Init /\ [][Next]_vars

\* The application ticks in a loop, and each thread that can go on does.
LiveSpec ==
  /\ Spec
  /\ WF_vars(~crashed /\ MainStep)
  /\ \A p \in Pipes : WF_vars(~crashed /\ ReadStep(p))
--------------------------------------------------------------------------------
(* What holds.                                                             *)

\* A client that is there is being read, or about to be, unless it was so early
\* that ConnectNamedPipe reported it as an error, or sent an empty or an
\* oversized message, which ends its thread (Tick, ReadTick, ReadSync).
ServedUnlessEarly ==
  \A p \in Pipes :
    state[p] = "connected" =>
      \/ ReadTick[p] \in {"read", "request", "push"}
      \/ pc = "waiting" /\ p = ListenPipe
      \/ p \in early
      \/ ReadTick[p] = "ended" /\ unread[p] # <<>> /\ Head(unread[p]) # "request"

--------------------------------------------------------------------------------
(* The inductive invariant.                                                *)

\* Only the pipe of this Tick listens, and only until ConnectNamedPipe returns.
ListeningInv ==
  /\ \A p \in Pipes :
       state[p] = "listening" => p = ListenPipe /\ pc \in {"created", "waiting"}
  /\ pc \in {"created", "waiting"} =>
       /\ ListenPipe \in Pipes
       /\ state[ListenPipe] # "none"
       /\ ReadTick[ListenPipe] = "none"

\* A read thread was started once, and for a pipe that was made.
ThreadsInv ==
  \A p \in Pipes :
    /\ ReadTick[p] # "none" <=> p \in ToSet(ClientThreads)
    /\ ReadTick[p] # "none" => state[p] \in {"connected", "broken"}

IInv ==
  /\ TypeOK
  /\ ListeningInv
  /\ ThreadsInv
  /\ ServedUnlessEarly

--------------------------------------------------------------------------------
(* Liveness.                                                               *)

\* What a client that is served sends is read in the end, however many clients
\* there are, unless one of its messages has ended its thread (ReadTick).
RequestsRead ==
  \A p \in Pipes :
    ReadTick[p] # "none" /\ unread[p] # <<>> ~>
      unread[p] = <<>> \/ ReadTick[p] = "ended" \/ crashed
================================================================================
