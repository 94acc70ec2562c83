------------------------------- MODULE Win32Pipe -------------------------------
(***************************************************************************)
(* The environment of the servers of this repository: the named pipe       *)
(* instances of one pipe name as the Windows kernel keeps them, the I/O of *)
(* the one server thread on them, and the client at the far end of each.   *)
(*                                                                         *)
(* None of this is code under src/.  It is what the code there relies on:  *)
(* the outcomes of CreateNamedPipe, ConnectNamedPipe, ReadFileEx,          *)
(* WriteFile, DisconnectNamedPipe and CloseHandle that NamedPipes.cpp      *)
(* tests for, and the completion routines it is called back through.       *)
(*                                                                         *)
(* A handle value names an instance while it is open.  When Recycle holds  *)
(* the kernel may give the value of a closed handle to a new instance,     *)
(* which is what Windows does; otherwise every instance has a new value.   *)
(***************************************************************************)
EXTENDS Naturals, Sequences, FiniteSets

CONSTANTS Handles,       \* the handle values the kernel hands out
          INVALID,       \* INVALID_HANDLE_VALUE
          None,          \* no pipe at all (nullptr)
          Requests,      \* the kinds of message clients send
          MaxInstances,  \* nMaxInstances of CreateNamedPipe
          Recycle,       \* may a closed handle value be given out again
          MaxUnread,     \* bound: messages queued unread on one pipe
          MaxSends       \* bound: messages all clients send together

(***************************************************************************)
(* The kinds of request HandleRead tells apart: the word "listener", a     *)
(* request that the application's OnRequest accepts or rejects, an empty   *)
(* one, and one longer than the server's buffer, whose read fails.         *)
(***************************************************************************)
RequestKinds == {"listener", "accepted", "rejected", "blank", "oversized"}

ASSUME PipeAssumption ==
  /\ INVALID \notin Handles
  /\ None \notin Handles
  /\ INVALID # None
  /\ Requests \subseteq RequestKinds
  /\ Recycle \in BOOLEAN
  /\ MaxInstances \in Nat
  /\ MaxUnread \in Nat
  /\ MaxSends \in Nat

VARIABLES
  state,       \* state of each instance
  unread,      \* requests sent on each instance and not yet read
  asked,       \* has the client of each instance sent "listener"
  feed,        \* messages each client has been sent, oldest first
  reading,     \* instances with a ReadFileEx outstanding
  apcs,        \* completion routines queued to the server's thread
  connecting,  \* instance with a ConnectNamedPipe outstanding, or None
  signaled,    \* the manual-reset event of that ConnectNamedPipe
  sends        \* messages sent so far

pipeVars == <<state, unread, asked, feed>>
ioVars   == <<reading, apcs>>
evVars   == <<connecting, signaled>>
winVars  == <<pipeVars, ioVars, evVars, sends>>

PipeStates == {"fresh", "listening", "connected", "broken", "closed"}

Apcs == [Pipe : Handles, err : BOOLEAN, request : RequestKinds]

WinTypeOK ==
  /\ state \in [Handles -> PipeStates]
  /\ unread \in [Handles -> Seq(RequestKinds)]
  /\ asked \in [Handles -> BOOLEAN]
  /\ feed \in [Handles -> Seq(Nat)]
  /\ reading \subseteq Handles
  /\ apcs \in Seq(Apcs)
  /\ connecting \in Handles \union {None}
  /\ signaled \in BOOLEAN
  /\ sends \in Nat

WinInit ==
  /\ state = [h \in Handles |-> "fresh"]
  /\ unread = [h \in Handles |-> <<>>]
  /\ asked = [h \in Handles |-> FALSE]
  /\ feed = [h \in Handles |-> <<>>]
  /\ reading = {}
  /\ apcs = <<>>
  /\ connecting = None
  /\ signaled = FALSE
  /\ sends = 0

\* A handle the kernel accepts: DisconnectNamedPipe succeeds on it.
Open(p) == p \in Handles /\ state[p] \in {"listening", "connected", "broken"}

\* A read of p is accepted: there is a client, or something it sent first.
Readable(p) ==
  /\ p \in Handles
  /\ state[p] = "connected" \/ unread[p] # <<>>

\* CreateNamedPipe may return h.
Creatable(h) ==
  /\ state[h] = "fresh" \/ (Recycle /\ state[h] = "closed")
  /\ Cardinality({g \in Handles : Open(g)}) < MaxInstances

\* The completion of a read of request r, and of a read that failed.
Completed(h, r) == [Pipe |-> h, err |-> (r = "oversized"), request |-> r]
Failed(h)       == [Pipe |-> h, err |-> TRUE, request |-> "blank"]

\* The wish of the client of h to listen, read and not handled yet.
Wishes(h) == [Pipe : {h}, err : BOOLEAN, request : {"listener"}]

\* Some element of s is one of X; no two of them are.
Has(s, X)  == \E i \in DOMAIN s : s[i] \in X
Once(s, X) == \A i, j \in DOMAIN s : s[i] \in X /\ s[j] \in X => i = j

--------------------------------------------------------------------------------
(* What the server's calls do.  q is the queue of completion routines left *)
(* when the call is made.                                                  *)

CreateNamedPipe(h) ==
  /\ Creatable(h)
  /\ state' = [state EXCEPT ![h] = "listening"]
  /\ UNCHANGED <<unread, asked, feed>>

\* ReadFileEx on a readable pipe: a waiting message completes at once.
ReadFileEx(h, q) ==
  /\ IF unread[h] # <<>>
       THEN /\ apcs' = Append(q, Completed(h, Head(unread[h])))
            /\ unread' = [unread EXCEPT ![h] = Tail(@)]
            /\ UNCHANGED reading
       ELSE /\ apcs' = q
            /\ reading' = reading \union {h}
            /\ UNCHANGED unread
  /\ UNCHANGED <<state, asked, feed, evVars>>

\* DisconnectNamedPipe and CloseHandle: an outstanding read is cancelled.
Close(h, q) ==
  /\ state' = [state EXCEPT ![h] = "closed"]
  /\ unread' = [unread EXCEPT ![h] = <<>>]
  /\ asked' = [asked EXCEPT ![h] = FALSE]
  /\ feed' = [feed EXCEPT ![h] = <<>>]
  /\ apcs' = IF h \in reading THEN Append(q, Failed(h)) ELSE q
  /\ reading' = reading \ {h}
  /\ connecting' = IF connecting = h THEN None ELSE connecting
  /\ UNCHANGED signaled

\* WriteFile, once the client has room for message m.
Deliver(h, m) ==
  /\ feed' = [feed EXCEPT ![h] = Append(@, m)]
  /\ UNCHANGED <<state, unread, asked>>

--------------------------------------------------------------------------------
(* The clients.                                                            *)

\* A client opens the pipe: an outstanding ConnectNamedPipe completes.
ClientConnect(h) ==
  /\ state[h] = "listening"
  /\ state' = [state EXCEPT ![h] = "connected"]
  /\ IF connecting = h
       THEN connecting' = None /\ signaled' = TRUE
       ELSE UNCHANGED evVars
  /\ UNCHANGED <<unread, asked, feed, ioVars, sends>>

\* A client sends a message: an outstanding read of it completes.
ClientSend(h, r) ==
  /\ state[h] = "connected"
  /\ sends < MaxSends
  /\ Len(unread[h]) < MaxUnread
  /\ sends' = sends + 1
  /\ asked' = [asked EXCEPT ![h] = @ \/ r = "listener"]
  /\ IF h \in reading
       THEN /\ reading' = reading \ {h}
            /\ apcs' = Append(apcs, Completed(h, r))
            /\ UNCHANGED unread
       ELSE /\ unread' = [unread EXCEPT ![h] = Append(@, r)]
            /\ UNCHANGED ioVars
  /\ UNCHANGED <<state, feed, evVars>>

\* A client closes its end: an outstanding read fails.
ClientHangUp(h) ==
  /\ state[h] = "connected"
  /\ state' = [state EXCEPT ![h] = "broken"]
  /\ IF h \in reading
       THEN /\ reading' = reading \ {h}
            /\ apcs' = Append(apcs, Failed(h))
       ELSE UNCHANGED ioVars
  /\ UNCHANGED <<unread, asked, feed, evVars, sends>>
================================================================================
