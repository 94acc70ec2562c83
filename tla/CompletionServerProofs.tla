------------------------- MODULE CompletionServerProofs -------------------------
(***************************************************************************)
(* Theorems about CompletionServer, for every set of handles, whether they *)
(* are given out again or not, and every bound.                            *)
(***************************************************************************)
EXTENDS CompletionServer, TLAPS

(***************************************************************************)
(* Facts about sequences and about the calls the actions are built from.   *)
(***************************************************************************)

\* What Append leaves where it is, and what it adds.
LEMMA AppendFacts ==
  ASSUME NEW S, NEW s \in Seq(S), NEW x \in S
  PROVE  /\ Append(s, x) \in Seq(S)
         /\ Len(s) \in Nat
         /\ DOMAIN s = 1 .. Len(s)
         /\ DOMAIN Append(s, x) = 1 .. Len(s) + 1
         /\ Len(Append(s, x)) = Len(s) + 1
         /\ \A i \in DOMAIN s : i \in DOMAIN Append(s, x) /\ Append(s, x)[i] = s[i]
         /\ Append(s, x)[Len(s) + 1] = x
         /\ \A i \in DOMAIN Append(s, x) : i \in DOMAIN s \/ i = Len(s) + 1
OBVIOUS

\* The rest of a queue that is not empty.
LEMMA TailFacts ==
  ASSUME NEW S, NEW s \in Seq(S), s # <<>>
  PROVE  /\ Head(s) = s[1] /\ Head(s) \in S /\ 1 \in DOMAIN s
         /\ Tail(s) \in Seq(S)
         /\ Len(s) \in Nat \ {0}
         /\ Len(Tail(s)) = Len(s) - 1
         /\ \A i \in DOMAIN Tail(s) : i + 1 \in DOMAIN s /\ Tail(s)[i] = s[i + 1]
         /\ \A i \in DOMAIN s : i # 1 => i - 1 \in DOMAIN Tail(s) /\ Tail(s)[i - 1] = s[i]
OBVIOUS

\* RemoveWriter(i) moves the last writer to place i and drops its old place.
LEMMA RemoveWriterFacts ==
  ASSUME WriteHandles \in Seq(Handles),
         NEW i \in 1 .. Len(WriteHandles)
  PROVE  /\ RemoveWriter(i) \in Seq(Handles)
         /\ Len(RemoveWriter(i)) = Len(WriteHandles) - 1
         /\ \A j \in 1 .. Len(WriteHandles) - 1 :
              RemoveWriter(i)[j] = IF j = i THEN WriteHandles[Len(WriteHandles)] ELSE WriteHandles[j]
<1> DEFINE n == Len(WriteHandles)
           swapped == [WriteHandles EXCEPT ![i] = WriteHandles[n]]
<1>1. n \in Nat \ {0}
  OBVIOUS
<1>2. swapped \in Seq(Handles) /\ Len(swapped) = n
  OBVIOUS
<1>3. RemoveWriter(i) = SubSeq(swapped, 1, n - 1)
  BY DEF RemoveWriter
<1> HIDE DEF swapped
<1>4. /\ RemoveWriter(i) \in Seq(Handles)
      /\ Len(RemoveWriter(i)) = n - 1
      /\ \A j \in 1 .. n - 1 : RemoveWriter(i)[j] = swapped[j]
  BY <1>1, <1>2, <1>3
<1>5. \A j \in 1 .. n - 1 :
        swapped[j] = IF j = i THEN WriteHandles[n] ELSE WriteHandles[j]
  BY <1>1 DEF swapped
<1> QED
  BY <1>1, <1>4, <1>5

\* The pipes of two states have the same clients, requests and reads, but for p.
Alike(p) ==
  \A h \in Handles \ {p} :
    /\ state'[h] = state[h]
    /\ unread'[h] = unread[h]
    /\ asked'[h] = asked[h]
    /\ feed'[h] = feed[h]
    /\ h \in reading' <=> h \in reading

\* Closing a pipe ends its client, what it has sent and what it was sent, and no
\* other's; a read of it fails (DisconnectNamedPipe, CloseHandle).
LEMMA CloseFacts ==
  ASSUME WinTypeOK, NEW p \in Handles, NEW q \in Seq(Apcs), Close(p, q), sends' = sends
  PROVE  /\ WinTypeOK' /\ Alike(p)
         /\ state'[p] = "closed" /\ unread'[p] = <<>> /\ ~asked'[p] /\ feed'[p] = <<>>
         /\ apcs' = q \/ apcs' = Append(q, Failed(p))
         /\ p \notin reading'
<1>1. /\ state \in [Handles -> PipeStates]
      /\ unread \in [Handles -> Seq(RequestKinds)]
      /\ asked \in [Handles -> BOOLEAN]
      /\ feed \in [Handles -> Seq(Nat)]
      /\ reading \subseteq Handles
      /\ connecting \in Handles \union {None}
      /\ signaled \in BOOLEAN
      /\ sends \in Nat
  BY DEF WinTypeOK
<1>2. /\ state' = [state EXCEPT ![p] = "closed"]
      /\ unread' = [unread EXCEPT ![p] = <<>>]
      /\ asked' = [asked EXCEPT ![p] = FALSE]
      /\ feed' = [feed EXCEPT ![p] = <<>>]
      /\ reading' = reading \ {p}
      /\ connecting' \in {connecting, None}
      /\ signaled' = signaled
      /\ apcs' = q \/ apcs' = Append(q, Failed(p))
  BY DEF Close
<1>3. Failed(p) \in Apcs
  BY DEF Failed, Apcs, RequestKinds
<1>4. apcs' \in Seq(Apcs)
  BY <1>2, <1>3, AppendFacts
<1>5. /\ state' \in [Handles -> PipeStates]
      /\ unread' \in [Handles -> Seq(RequestKinds)]
      /\ feed' \in [Handles -> Seq(Nat)]
  BY <1>1, <1>2 DEF PipeStates
<1>6. asked' \in [Handles -> BOOLEAN]
  BY <1>1, <1>2
<1>7. WinTypeOK'
  BY <1>1, <1>2, <1>4, <1>5, <1>6 DEF WinTypeOK
<1>8. Alike(p)
  BY <1>1, <1>2 DEF Alike
<1> QED
  BY <1>1, <1>2, <1>7, <1>8

\* A pipe that is not open any more is left alone, and a pipe that was is listed as
\* closed (DisconnectAndClose).
LEMMA DisconnectAndCloseFacts ==
  ASSUME WinTypeOK, ClosedHandles \subseteq Handles, NEW p, NEW q \in Seq(Apcs),
         DisconnectAndClose(p, q), sends' = sends
  PROVE  /\ WinTypeOK' /\ Alike(p)
         /\ ClosedHandles' \subseteq Handles /\ ClosedHandles \subseteq ClosedHandles'
         /\ \/ /\ Open(p) /\ p \in Handles /\ ClosedHandles' = ClosedHandles \union {p}
               /\ state'[p] = "closed" /\ unread'[p] = <<>> /\ ~asked'[p] /\ feed'[p] = <<>>
            \/ /\ ~Open(p) /\ ClosedHandles' = ClosedHandles
               /\ UNCHANGED <<state, unread, asked, feed, reading>>
         /\ apcs' = q \/ apcs' = Append(q, Failed(p))
<1>1. CASE Open(p)
  <2>1. p \in Handles /\ Close(p, q) /\ ClosedHandles' = ClosedHandles \union {p}
    BY <1>1 DEF DisconnectAndClose, Open
  <2> QED
    BY <1>1, <2>1, CloseFacts
<1>2. CASE ~Open(p)
  <2>1. UNCHANGED <<pipeVars, reading, evVars, ClosedHandles>> /\ apcs' = q
    BY <1>2 DEF DisconnectAndClose
  <2> QED
    BY <1>2, <2>1 DEF WinTypeOK, Alike, pipeVars, evVars
<1> QED
  BY <1>1, <1>2

\* A read of a pipe takes the first message that waits in it, or stays outstanding.
LEMMA ReadFileExFacts ==
  ASSUME WinTypeOK, NEW p \in Handles, NEW q \in Seq(Apcs), ReadFileEx(p, q), sends' = sends
  PROVE  /\ WinTypeOK' /\ Alike(p)
         /\ UNCHANGED <<state, asked, feed>>
         /\ \/ /\ unread[p] # <<>> /\ unread'[p] = Tail(unread[p])
               /\ apcs' = Append(q, Completed(p, Head(unread[p])))
               /\ Completed(p, Head(unread[p])) \in Apcs
            \/ /\ UNCHANGED unread
               /\ apcs' = q
               /\ p \in reading'
<1>1. /\ state \in [Handles -> PipeStates]
      /\ unread \in [Handles -> Seq(RequestKinds)]
      /\ asked \in [Handles -> BOOLEAN]
      /\ feed \in [Handles -> Seq(Nat)]
      /\ reading \subseteq Handles
      /\ connecting \in Handles \union {None}
      /\ signaled \in BOOLEAN
      /\ sends \in Nat
      /\ unread[p] \in Seq(RequestKinds)
  BY DEF WinTypeOK
<1>2. UNCHANGED <<state, asked, feed, connecting, signaled>>
  BY DEF ReadFileEx, evVars
<1>3. CASE unread[p] # <<>>
  <2>1. /\ apcs' = Append(q, Completed(p, Head(unread[p])))
        /\ unread' = [unread EXCEPT ![p] = Tail(unread[p])]
        /\ reading' = reading
    BY <1>3 DEF ReadFileEx
  <2>2. Head(unread[p]) \in RequestKinds /\ Tail(unread[p]) \in Seq(RequestKinds)
    BY <1>1, <1>3
  <2>3. Completed(p, Head(unread[p])) \in Apcs
    BY <2>2 DEF Completed, Apcs
  <2>4. apcs' \in Seq(Apcs)
    BY <2>1, <2>3, AppendFacts
  <2>5. unread' \in [Handles -> Seq(RequestKinds)] /\ unread'[p] = Tail(unread[p])
    BY <1>1, <2>1, <2>2
  <2>6. \A h \in Handles \ {p} : unread'[h] = unread[h]
    BY <1>1, <2>1
  <2> QED
    BY <1>1, <1>2, <1>3, <2>1, <2>3, <2>4, <2>5, <2>6 DEF WinTypeOK, Alike
<1>4. CASE unread[p] = <<>>
  BY <1>1, <1>2, <1>4 DEF ReadFileEx, WinTypeOK, Alike
<1> QED
  BY <1>3, <1>4

(***************************************************************************)
(* The types, the loop, who listens and who is read.                       *)
(***************************************************************************)

\* Before StartServer there is no pipe, and nothing is posted or queued.
LEMMA InitInv == Init => IInv
<1> SUFFICES ASSUME Init PROVE IInv
  OBVIOUS
<1> USE DEF Init, WinInit, ServerInit
<1>1. WinTypeOK
  <2>1. <<>> \in Seq(RequestKinds) /\ <<>> \in Seq(Nat) /\ <<>> \in Seq(Apcs)
    OBVIOUS
  <2> QED
    BY <2>1 DEF WinTypeOK, PipeStates
<1>2. ServerTypeOK
  <2>1. WriteHandles \in Seq(Handles) /\ Messages \in Seq(Nat)
    OBVIOUS
  <2>2. writerIx \in 0 .. Len(WriteHandles) /\ posted \in Nat /\ Outbox \in Nat
    OBVIOUS
  <2> QED
    BY <2>1, <2>2 DEF ServerTypeOK
<1>3. LoopInv /\ ListeningInv
  BY DEF LoopInv, ListeningInv, Flushing
<1>4. EveryConnectionRead
  BY DEF EveryConnectionRead
<1> QED
  BY <1>1, <1>2, <1>3, <1>4 DEF IInv, TypeOK

\* The steps that change neither a pipe, nor a read, nor the list of writers.
Quiet ==
  \/ Stop \/ Delete \/ Tick \/ WriteFails \/ NextMessage \/ FinishFlush \/ WaitTimesOut

\* Where these steps take the loop (Tick, WriteAllMessages).
LEMMA QuietInv ==
  ASSUME IInv, Quiet
  PROVE  IInv'
<1>1. UNCHANGED <<winVars, ClosedHandles, WriteHandles, listenVars, Outbox, posted>>
  BY DEF Quiet, Stop, Delete, Tick, WriteFails, NextMessage, FinishFlush, WaitTimesOut, boxVars
<1>2. /\ TypeOK /\ LoopInv /\ Len(WriteHandles) \in Nat /\ Len(Messages) \in Nat
      /\ Messages # <<>> => 1 \in DOMAIN Messages
      /\ DOMAIN Messages = 1 .. Len(Messages)
  BY DEF IInv, TypeOK, ServerTypeOK
<1>3. /\ pc' \in {"idle", "flush", "wait", "stopping", "stopped"}
      /\ Messages' \in Seq(Nat)
      /\ msgIx' \in DOMAIN Messages' \union {1}
      /\ writerIx' \in 0 .. Len(WriteHandles)
      /\ LoopInv'
  <2> USE DEF TypeOK, ServerTypeOK, LoopInv, Flushing, boxVars, loopVars
  <2>1. CASE Stop
    BY <1>2, <2>1 DEF Stop
  <2>2. CASE Delete
    BY <1>2, <2>2 DEF Delete
  <2>3. CASE Tick
    BY <1>2, <2>3 DEF Tick, NothingToWrite
  <2>4. CASE WriteFails
    BY <1>2, <2>4 DEF WriteFails, AtWriter
  <2>5. CASE NextMessage
    BY <1>2, <2>5 DEF NextMessage
  <2>6. CASE FinishFlush
    BY <1>2, <2>6 DEF FinishFlush
  <2>7. CASE WaitTimesOut
    BY <1>2, <2>7 DEF WaitTimesOut
  <2> QED
    BY <2>1, <2>2, <2>3, <2>4, <2>5, <2>6, <2>7 DEF Quiet
<1>4. TypeOK'
  BY <1>1, <1>2, <1>3 DEF TypeOK, WinTypeOK, ServerTypeOK, winVars, pipeVars, ioVars, evVars,
     listenVars
<1>5. pc \notin {"new", "connect", "firstRead"}
  BY DEF Quiet, Stop, Delete, Tick, WriteFails, NextMessage, FinishFlush, WaitTimesOut, AtWriter
<1>6. ListeningInv' /\ EveryConnectionRead'
  BY <1>1, <1>3, <1>5 DEF IInv, ListeningInv, EveryConnectionRead, winVars, pipeVars, ioVars,
     listenVars
<1> QED
  BY <1>3, <1>4, <1>6 DEF IInv

\* A writer that the loop has done is behind it, whether it was written to or
\* dropped (SkipClosed, WriteMessage).
LEMMA WriterInv ==
  ASSUME IInv, SkipClosed \/ WriteMessage \/ WriteCompletes
  PROVE  IInv'
<1>1. /\ UNCHANGED <<state, unread, asked, ioVars, evVars, sends, ClosedHandles, boxVars,
                     listenVars, msgIx>>
      /\ pc \in {"flush", "blocked"} /\ pc' \in {"flush", "blocked"}
      /\ writerIx > 0
  BY DEF SkipClosed, WriteMessage, WriteCompletes, Deliver, winVars, pipeVars, AtWriter, IInv,
     LoopInv
<1>2. /\ WriteHandles \in Seq(Handles) /\ writerIx \in 1 .. Len(WriteHandles)
      /\ Len(WriteHandles) \in Nat /\ Messages # <<>> /\ Messages \in Seq(Nat)
      /\ feed \in [Handles -> Seq(Nat)]
      /\ msgIx \in DOMAIN Messages
  BY <1>1 DEF IInv, TypeOK, WinTypeOK, ServerTypeOK, LoopInv, Flushing
<1>3. /\ WriteHandles' \in Seq(Handles) /\ writerIx' \in 0 .. Len(WriteHandles')
      /\ pc' = "blocked" => UNCHANGED <<writerIx, WriteHandles>> /\ ~IsPipeClosed(Writer)
  BY <1>2, RemoveWriterFacts DEF SkipClosed, WriteMessage, WriteCompletes, AtWriter
<1>4. feed' \in [Handles -> Seq(Nat)]
  <2>1. Messages[msgIx] \in Nat
    BY <1>2
  <2>2. WriteHandles[writerIx] \in Handles
    BY <1>2
  <2>3. Append(feed[WriteHandles[writerIx]], Messages[msgIx]) \in Seq(Nat)
    BY <1>2, <2>1, <2>2
  <2> QED
    BY <1>2, <2>3 DEF SkipClosed, WriteMessage, WriteCompletes, Deliver, winVars, pipeVars, Writer
<1>5. TypeOK'
  BY <1>1, <1>3, <1>4 DEF IInv, TypeOK, WinTypeOK, ServerTypeOK, boxVars, listenVars, ioVars,
     evVars
<1>6. LoopInv'
  BY <1>1, <1>2, <1>3 DEF LoopInv, Flushing, boxVars, IsPipeClosed, Writer
<1>7. ListeningInv' /\ EveryConnectionRead'
  BY <1>1 DEF IInv, ListeningInv, EveryConnectionRead, listenVars, ioVars
<1> QED
  BY <1>5, <1>6, <1>7 DEF IInv

\* ConnectNamedPipe changes no pipe (ConnectToNewClient).
LEMMA ConnectInv ==
  ASSUME IInv, ConnectToNewClient
  PROVE  IInv'
<1>1. /\ UNCHANGED <<pipeVars, ioVars, sends, ClosedHandles, WriteHandles, boxVars, listenPipe,
                     reader, loopVars>>
      /\ pc = "connect" /\ pc' = IF reader = None THEN "idle" ELSE "firstRead"
      /\ connecting' \in {connecting, listenPipe} /\ listenPipe \in Handles
      /\ AwaitingIo' \in BOOLEAN /\ signaled' \in BOOLEAN
  BY DEF ConnectToNewClient, IInv, ListeningInv
<1>2. TypeOK'
  BY <1>1 DEF IInv, TypeOK, WinTypeOK, ServerTypeOK, pipeVars, ioVars, boxVars, loopVars
<1>3. LoopInv'
  BY <1>1 DEF IInv, LoopInv, Flushing, boxVars, loopVars
<1>4. ListeningInv' /\ EveryConnectionRead'
  BY <1>1 DEF IInv, ListeningInv, EveryConnectionRead, pipeVars, ioVars
<1> QED
  BY <1>2, <1>3, <1>4 DEF IInv

\* The new pipe is the one accepted next; the one before it passes to the reader
\* (Start, HandleNewConnection).
LEMMA ListenInv ==
  ASSUME IInv, NEW next \in {"idle", "firstRead"}, ListenForNewConnection(next),
         UNCHANGED <<ioVars, connecting, sends, ClosedHandles, WriteHandles, boxVars, AwaitingIo,
                     loopVars>>,
         signaled' \in BOOLEAN, ~Flushing,
         reader = None, reader' \in {listenPipe, None},
         listenPipe \in {reader', INVALID},
         next = "idle" => reader' = None
  PROVE  IInv'
<1>1. PICK h \in Handles \union {INVALID} :
        /\ listenPipe' = h
        /\ \/ /\ h \in Handles /\ state[h] \in {"fresh", "closed"} /\ pc' = "connect"
              /\ state' = [state EXCEPT ![h] = "listening"]
           \/ /\ h = INVALID /\ state' = state /\ pc' = next
        /\ UNCHANGED <<unread, asked, feed>>
  BY DEF ListenForNewConnection, CreateNamedPipe, Creatable, pipeVars
<1>2. state \in [Handles -> PipeStates]
  BY DEF IInv, TypeOK, WinTypeOK
<1>3. TypeOK'
  BY <1>1, <1>2 DEF IInv, TypeOK, WinTypeOK, ServerTypeOK, ioVars, boxVars, loopVars, PipeStates
<1>4. LoopInv'
  BY <1>1 DEF IInv, LoopInv, Flushing, boxVars, loopVars
<1>5. ListeningInv'
  BY <1>1, <1>2, PipeAssumption DEF IInv, ListeningInv
<1>6. EveryConnectionRead'
  BY <1>1, <1>2, PipeAssumption DEF IInv, EveryConnectionRead, ioVars
<1> QED
  BY <1>3, <1>4, <1>5, <1>6 DEF IInv

\* StartServer and HandleNewConnection create the pipe that is accepted next.
LEMMA StartInv ==
  ASSUME IInv, Start \/ HandleNewConnection
  PROVE  IInv'
<1>1. reader = None /\ ~Flushing /\ (pc = "new" => listenPipe = INVALID)
  BY DEF Start, HandleNewConnection, Waiting, Flushing, IInv, ListeningInv
<1>2. CASE Start
  BY <1>1, <1>2, ListenInv DEF Start
<1>3. CASE HandleNewConnection /\ reader' = listenPipe /\ ListenForNewConnection("firstRead")
  <2>1. UNCHANGED <<ioVars, connecting, sends, ClosedHandles, WriteHandles, boxVars, AwaitingIo,
                    loopVars>> /\ signaled' \in BOOLEAN
    BY <1>3 DEF HandleNewConnection, evVars, IInv, TypeOK, WinTypeOK
  <2> QED
    BY <1>1, <1>3, <2>1, ListenInv
<1>4. CASE HandleNewConnection /\ pc' = "idle" /\ UNCHANGED <<pipeVars, listenPipe, reader>>
  <2>1. UNCHANGED <<ioVars, evVars, sends, ClosedHandles, WriteHandles, boxVars, AwaitingIo,
                    loopVars>>
    BY <1>4 DEF HandleNewConnection
  <2> QED
    BY <1>1, <1>4, <2>1 DEF IInv, TypeOK, WinTypeOK, ServerTypeOK, LoopInv, ListeningInv,
       EveryConnectionRead, Flushing, pipeVars, ioVars, evVars, boxVars, loopVars
<1> QED
  BY <1>2, <1>3, <1>4 DEF HandleNewConnection

\* Stop closes the pipes of the writers, then the one that listens.
LEMMA StopInv ==
  ASSUME IInv, StopWriter \/ StopListening
  PROVE  IInv'
<1>1. /\ TypeOK /\ WinTypeOK /\ ClosedHandles \subseteq Handles /\ apcs \in Seq(Apcs)
      /\ LoopInv /\ ListeningInv /\ EveryConnectionRead
      /\ reader = None
      /\ msgIx = 1 /\ writerIx = 0
  BY DEF IInv, TypeOK, WinTypeOK, ServerTypeOK, LoopInv, ListeningInv, Flushing, StopWriter,
     StopListening
<1>2. /\ UNCHANGED <<sends, boxVars, reader, loopVars, AwaitingIo>>
      /\ pc' \in {"stopping", "deleting"}
      /\ pc' = "deleting" => WriteHandles' = <<>>
      /\ WriteHandles' \in Seq(Handles)
      /\ listenPipe' \in {listenPipe, INVALID}
  <2>1. WriteHandles \in Seq(Handles) /\ pc = "stopping"
    BY <1>1 DEF TypeOK, ServerTypeOK, StopWriter, StopListening
  <2>2. CASE StopWriter
    <3>1. WriteHandles' \in Seq(Handles)
      BY <2>1, <2>2, TailFacts DEF StopWriter
    <3> QED
      BY <2>1, <2>2, <3>1 DEF StopWriter, listenVars
  <2>3. CASE StopListening
    BY <2>1, <2>3 DEF StopListening
  <2> QED
    BY <2>2, <2>3
<1>3. PICK p :
        /\ Alike(p) /\ WinTypeOK'
        /\ p \in Handles => state'[p] \notin {"listening", "connected", "broken"}
        /\ p \in Handles /\ state'[p] # state[p] => unread'[p] = <<>> /\ ~asked'[p]
        /\ p \in Handles /\ state'[p] = state[p] => unread'[p] = unread[p] /\ (asked'[p] <=> asked[p])
        /\ apcs' = apcs \/ apcs' = Append(apcs, Failed(p))
        /\ ClosedHandles' \subseteq Handles
        /\ listenPipe' = listenPipe \/ listenPipe = p \/ listenPipe \notin Handles
  <2>1. CASE StopWriter
    <3>1. DisconnectAndClose(Head(WriteHandles), apcs) /\ listenPipe' = listenPipe
      BY <2>1 DEF StopWriter, listenVars
    <3> QED
      BY <1>1, <1>2, <3>1, DisconnectAndCloseFacts DEF WinTypeOK, PipeStates, Open
  <2>2. CASE StopListening /\ Open(listenPipe)
    <3>1. listenPipe \in Handles /\ Close(listenPipe, apcs) /\ ClosedHandles' = ClosedHandles
      BY <2>2 DEF StopListening, Open
    <3>2. PICK p \in Handles : p = listenPipe
      BY <3>1
    <3>3. /\ Alike(p) /\ WinTypeOK' /\ state'[p] = "closed" /\ unread'[p] = <<>> /\ ~asked'[p]
          /\ apcs' = apcs \/ apcs' = Append(apcs, Failed(p))
      BY <1>1, <1>2, <3>1, <3>2, CloseFacts
    <3>4. state[p] # "closed"
      BY <2>2, <3>2 DEF Open
    <3> QED
      BY <1>1, <3>1, <3>2, <3>3, <3>4
  <2>3. CASE StopListening /\ ~Open(listenPipe)
    <3>1. UNCHANGED <<pipeVars, ioVars, evVars, sends>> /\ ClosedHandles' = ClosedHandles
      BY <2>3 DEF StopListening
    <3> QED
      BY <1>1, <2>3, <3>1 DEF WinTypeOK, Alike, Open, pipeVars, ioVars, evVars, PipeStates
  <2> QED
    BY <2>1, <2>2, <2>3
<1>4. TypeOK'
  BY <1>1, <1>2, <1>3 DEF TypeOK, ServerTypeOK, boxVars, loopVars
<1>5. LoopInv'
  BY <1>1, <1>2 DEF LoopInv, Flushing, loopVars
<1>6. ListeningInv'
  BY <1>1, <1>2, <1>3 DEF ListeningInv, Alike
<1>7. \A i \in DOMAIN apcs : i \in DOMAIN apcs' /\ apcs'[i] = apcs[i]
  <2>1. Failed(p) \in Apcs \/ p \notin Handles
    BY DEF Failed, Apcs, RequestKinds
  <2> QED
    BY <1>1, <1>3
<1>8. EveryConnectionRead'
  BY <1>1, <1>2, <1>3, <1>7 DEF EveryConnectionRead, Alike
<1> QED
  BY <1>4, <1>5, <1>6, <1>8 DEF IInv

\* A completion routine that handles a read, or fails, leaves its connection with a
\* read or without a pipe, and the others as they are (HandleRead).
LEMMA HandleReadInv ==
  ASSUME IInv, NEW p, NEW err, NEW request \in RequestKinds, NEW q \in Seq(Apcs),
         HandleRead(p, err, request, q),
         request = "listener" => p \in Handles,
         ~Flushing, pc \notin {"new", "connect", "deleting", "stopped"}, pc' \in {"idle", "apc"},
         reader \in {p, None}, reader' = None,
         \A h \in Handles \ {p} :
           (\E i \in DOMAIN apcs : apcs[i].Pipe = h) => \E i \in DOMAIN q : q[i].Pipe = h
  PROVE  IInv'
<1>1. /\ TypeOK /\ WinTypeOK /\ ClosedHandles \subseteq Handles
      /\ LoopInv /\ ListeningInv /\ EveryConnectionRead
      /\ msgIx = 1 /\ writerIx = 0
  BY DEF IInv, TypeOK, ServerTypeOK, LoopInv
<1>2. UNCHANGED <<sends, listenPipe, AwaitingIo, loopVars>>
  BY DEF HandleRead
<1>3. /\ WriteHandles' \in Seq(Handles)
      /\ Messages' \in Seq(Nat) /\ posted' \in Nat
      /\ Outbox' \in Nat
  <2>1. UNCHANGED <<WriteHandles, boxVars>> \/ Dispatch(p, request)
    BY DEF HandleRead
  <2>2. /\ WriteHandles \in Seq(Handles) /\ Messages \in Seq(Nat) /\ posted \in Nat
        /\ Outbox \in Nat /\ posted + 1 \in Nat /\ Outbox + 1 \in Nat
    BY <1>1 DEF TypeOK, ServerTypeOK
  <2>3. Append(Messages, posted + 1) \in Seq(Nat)
    BY <2>2
  <2>4. p \in Handles => Append(WriteHandles, p) \in Seq(Handles)
    BY <2>2
  <2> QED
    BY <2>1, <2>2, <2>3, <2>4 DEF Dispatch, boxVars
<1>4. /\ Alike(p) /\ WinTypeOK'
      /\ p \in Handles => \/ /\ state'[p] \notin {"listening", "connected", "broken"}
                             /\ unread'[p] = <<>> /\ ~asked'[p]
                          \/ /\ state'[p] \in {"connected", "broken"}
                             /\ p \in reading' \/ \E i \in DOMAIN apcs' : apcs'[i].Pipe = p
      /\ \A i \in DOMAIN q : i \in DOMAIN apcs' /\ apcs'[i] = q[i]
      /\ ClosedHandles' \subseteq Handles
  <2>1. CASE DisconnectAndClose(p, q)
    <3>1. /\ WinTypeOK' /\ Alike(p) /\ ClosedHandles' \subseteq Handles
          /\ p \in Handles => /\ state'[p] \notin {"listening", "connected", "broken"}
                              /\ unread'[p] = <<>> /\ ~asked'[p]
          /\ apcs' = q \/ apcs' = Append(q, Failed(p))
      BY <1>1, <1>2, <2>1, DisconnectAndCloseFacts DEF WinTypeOK, PipeStates, Open, ListeningInv
    <3>2. \A i \in DOMAIN q : i \in DOMAIN apcs' /\ apcs'[i] = q[i]
      BY <3>1
    <3> QED
      BY <3>1, <3>2
  <2>2. CASE p \in Handles /\ Readable(p) /\ ReadFileEx(p, q) /\ UNCHANGED ClosedHandles
    <3>1. state[p] \in {"connected", "broken"}
      BY <1>1, <2>2 DEF Readable, ListeningInv
    <3>2. /\ WinTypeOK' /\ Alike(p) /\ state' = state
          /\ \/ /\ apcs' = Append(q, Completed(p, Head(unread[p])))
                /\ Completed(p, Head(unread[p])) \in Apcs
             \/ apcs' = q /\ p \in reading'
      BY <1>1, <1>2, <2>2, ReadFileExFacts
    <3>3. \A i \in DOMAIN q : i \in DOMAIN apcs' /\ apcs'[i] = q[i]
      BY <3>2, AppendFacts
    <3>4. p \in reading' \/ \E i \in DOMAIN apcs' : apcs'[i].Pipe = p
      <4>1. Completed(p, Head(unread[p])).Pipe = p
        BY DEF Completed
      <4> QED
        BY <3>2, <4>1, AppendFacts
    <3> QED
      BY <1>1, <2>2, <3>1, <3>2, <3>3, <3>4
  <2> QED
    BY <2>1, <2>2 DEF HandleRead, Readable
<1>5. TypeOK'
  BY <1>1, <1>2, <1>3, <1>4 DEF TypeOK, ServerTypeOK, loopVars
<1>6. LoopInv'
  BY <1>1, <1>2 DEF LoopInv, Flushing, loopVars
<1>7. ListeningInv'
  BY <1>1, <1>2, <1>4 DEF ListeningInv, Alike
<1>8. EveryConnectionRead'
  BY <1>1, <1>2, <1>4 DEF EveryConnectionRead, Alike
<1> QED
  BY <1>5, <1>6, <1>7, <1>8 DEF IInv

\* The reader gets its first read, or the completion that is handled its next one.
LEMMA ReadsInv ==
  ASSUME IInv, FirstRead \/ RunApc
  PROVE  IInv'
<1>1. apcs \in Seq(Apcs)
  BY DEF IInv, TypeOK, WinTypeOK
<1>2. CASE FirstRead
  <2>1. /\ HandleRead(reader, FALSE, "blank", apcs)
        /\ ~Flushing /\ pc \notin {"new", "connect", "deleting", "stopped"} /\ pc' = "idle"
        /\ reader' = None /\ "blank" \in RequestKinds
    BY <1>2 DEF FirstRead, Flushing, RequestKinds
  <2>2. PICK p, q : p = reader /\ q = apcs
    OBVIOUS
  <2> QED
    BY <1>1, <2>1, <2>2, HandleReadInv
<1>3. CASE RunApc
  <2>1. PICK a \in Apcs, q \in Seq(Apcs) : a = Head(apcs) /\ q = Tail(apcs)
    BY <1>1, <1>3, TailFacts DEF RunApc
  <2>2. a.Pipe \in Handles /\ a.err \in BOOLEAN /\ a.request \in RequestKinds
    BY DEF Apcs
  <2>3. /\ HandleRead(a.Pipe, a.err, a.request, q)
        /\ ~Flushing /\ pc \notin {"new", "connect", "deleting", "stopped"} /\ pc' \in {"idle", "apc"}
        /\ reader = None /\ reader' = None
    BY <1>3, <2>1 DEF RunApc, Waiting, Flushing, IInv, ListeningInv
  <2>4. \A h \in Handles \ {a.Pipe} :
           (\E i \in DOMAIN apcs : apcs[i].Pipe = h) => \E i \in DOMAIN q : q[i].Pipe = h
    <3>1. /\ a = apcs[1]
          /\ \A i \in DOMAIN apcs : i # 1 => i - 1 \in DOMAIN q /\ q[i - 1] = apcs[i]
      BY <1>1, <1>3, <2>1, TailFacts DEF RunApc
    <3>2. ASSUME NEW h \in Handles \ {a.Pipe}, NEW i \in DOMAIN apcs, apcs[i].Pipe = h
          PROVE  \E j \in DOMAIN q : q[j].Pipe = h
      <4>1. i # 1
        BY <3>1, <3>2
      <4>2. i - 1 \in DOMAIN q /\ q[i - 1].Pipe = h
        BY <3>1, <3>2, <4>1
      <4> QED
        BY <4>2
    <3> QED
      BY <3>2
  <2>5. PICK p \in Handles, e \in BOOLEAN, r \in RequestKinds : p = a.Pipe /\ e = a.err /\ r = a.request
    BY <2>2
  <2>6. /\ HandleRead(p, e, r, q)
        /\ \A h \in Handles \ {p} :
             (\E i \in DOMAIN apcs : apcs[i].Pipe = h) => \E i \in DOMAIN q : q[i].Pipe = h
    BY <2>3, <2>4, <2>5
  <2> QED
    BY <2>3, <2>6, HandleReadInv
<1> QED
  BY <1>2, <1>3

\* What a client does changes its pipe alone, and completes a read of it at most
\* (ClientConnect, Send, ClientHangUp).
LEMMA ClientFacts ==
  ASSUME WinTypeOK, NEW p \in Handles,
         ClientConnect(p) \/ (\E r \in Requests : Send(p, r)) \/ ClientHangUp(p)
  PROVE  /\ WinTypeOK' /\ Alike(p) /\ feed' = feed
         /\ \/ apcs' = apcs /\ reading' = reading
            \/ \E a \in Apcs : a.Pipe = p /\ apcs' = Append(apcs, a)
         /\ \/ /\ state[p] = "listening" /\ state'[p] = "connected"
               /\ UNCHANGED <<unread, asked, reading, apcs>>
            \/ /\ state[p] = "connected" /\ state'[p] \in {"connected", "broken"}
<1>1. /\ state \in [Handles -> PipeStates]
      /\ unread \in [Handles -> Seq(RequestKinds)]
      /\ asked \in [Handles -> BOOLEAN]
      /\ feed \in [Handles -> Seq(Nat)]
      /\ reading \subseteq Handles
      /\ apcs \in Seq(Apcs)
      /\ connecting \in Handles \union {None}
      /\ signaled \in BOOLEAN
      /\ sends \in Nat
      /\ unread[p] \in Seq(RequestKinds)
  BY DEF WinTypeOK
<1>2. CASE ClientConnect(p)
  <2>1. /\ state' = [state EXCEPT ![p] = "connected"] /\ state[p] = "listening"
        /\ connecting' \in {connecting, None} /\ signaled' \in {signaled, TRUE}
        /\ UNCHANGED <<unread, asked, feed, reading, apcs, sends>>
    BY <1>2 DEF ClientConnect, ioVars, evVars
  <2> QED
    BY <1>1, <2>1 DEF WinTypeOK, Alike, PipeStates
<1>3. ASSUME NEW r \in Requests, Send(p, r)
      PROVE  /\ state[p] = "connected"
             /\ UNCHANGED <<state, feed, connecting, signaled>> /\ sends' \in Nat
             /\ asked' = [asked EXCEPT ![p] = @ \/ r = "listener"]
             /\ \/ /\ reading' = reading \ {p} /\ UNCHANGED unread
                   /\ \E a \in Apcs : a.Pipe = p /\ apcs' = Append(apcs, a)
                \/ UNCHANGED <<apcs, reading>> /\ unread' = [unread EXCEPT ![p] = Append(@, r)]
  <2>1. Completed(p, r) \in Apcs /\ Completed(p, r).Pipe = p
    BY PipeAssumption DEF Completed, Apcs
  <2>2. sends' \in Nat
    BY <1>1, <1>3 DEF Send, ClientSend
  <2> QED
    BY <1>3, <2>1, <2>2 DEF Send, ClientSend, evVars, ioVars
<1>4. CASE \E r \in Requests : Send(p, r)
  <2>1. PICK r \in Requests : Send(p, r)
    BY <1>4
  <2>2. r \in RequestKinds
    BY PipeAssumption
  <2>3. apcs' \in Seq(Apcs) /\ reading' \subseteq Handles
    <3>1. /\ apcs' = apcs \/ \E a \in Apcs : apcs' = Append(apcs, a)
          /\ reading' = reading \ {p} \/ reading' = reading
      BY <1>3, <2>1
    <3>2. apcs' \in Seq(Apcs)
      <4>1. \A a \in Apcs : Append(apcs, a) \in Seq(Apcs)
        BY <1>1
      <4> QED
        BY <1>1, <3>1, <4>1
    <3> QED
      BY <1>1, <3>1, <3>2
  <2>4. unread' \in [Handles -> Seq(RequestKinds)] /\ \A h \in Handles \ {p} : unread'[h] = unread[h]
    <3>1. Append(unread[p], r) \in Seq(RequestKinds)
      BY <1>1, <2>2
    <3> QED
      BY <1>1, <1>3, <2>1, <3>1
  <2>5. asked' \in [Handles -> BOOLEAN] /\ \A h \in Handles \ {p} : asked'[h] = asked[h]
    BY <1>1, <1>3, <2>1
  <2>6. WinTypeOK'
    BY <1>1, <1>3, <2>1, <2>3, <2>4, <2>5 DEF WinTypeOK
  <2>7. Alike(p)
    BY <1>3, <2>1, <2>4, <2>5 DEF Alike
  <2> QED
    BY <1>3, <2>1, <2>6, <2>7
<1>5. CASE ClientHangUp(p)
  <2>1. Failed(p) \in Apcs /\ Failed(p).Pipe = p
    BY DEF Failed, Apcs, RequestKinds
  <2>2. /\ state' = [state EXCEPT ![p] = "broken"] /\ state[p] = "connected"
        /\ UNCHANGED <<unread, asked, feed, connecting, signaled, sends>>
        /\ \/ reading' = reading \ {p} /\ apcs' = Append(apcs, Failed(p))
           \/ UNCHANGED <<reading, apcs>>
    BY <1>5 DEF ClientHangUp, ioVars, evVars
  <2>3. apcs' \in Seq(Apcs)
    <3>1. PICK a \in Apcs : a = Failed(p)
      BY <2>1
    <3>2. apcs' = apcs \/ apcs' = Append(apcs, a)
      BY <2>2, <3>1
    <3>3. Append(apcs, a) \in Seq(Apcs)
      BY <1>1
    <3> QED
      BY <1>1, <3>2, <3>3
  <2> QED
    BY <1>1, <2>1, <2>2, <2>3 DEF WinTypeOK, Alike, PipeStates
<1> QED
  BY <1>2, <1>4, <1>5

\* A client that comes is accepted next; one that sends or goes completes its read.
LEMMA ClientInv ==
  ASSUME IInv, ClientStep
  PROVE  IInv'
<1>1. PICK p \in Handles :
        ClientConnect(p) \/ (\E r \in Requests : Send(p, r)) \/ ClientHangUp(p)
  BY DEF ClientStep
<1>2. /\ WinTypeOK /\ TypeOK /\ LoopInv /\ ListeningInv /\ EveryConnectionRead
      /\ UNCHANGED <<pc, ClosedHandles, WriteHandles, Messages, Outbox, posted, listenPipe,
                     AwaitingIo, reader, msgIx, writerIx>>
  BY DEF IInv, TypeOK, ClientStep, serverVars, boxVars, listenVars, loopVars
<1>3. /\ WinTypeOK' /\ Alike(p)
      /\ \/ apcs' = apcs /\ reading' = reading
         \/ \E a \in Apcs : a.Pipe = p /\ apcs' = Append(apcs, a)
      /\ \/ /\ state[p] = "listening" /\ state'[p] = "connected"
            /\ UNCHANGED <<unread, asked, reading, apcs>>
         \/ /\ state[p] = "connected" /\ state'[p] \in {"connected", "broken"}
  BY <1>1, <1>2, ClientFacts
<1>4. TypeOK' /\ LoopInv' /\ ListeningInv'
  BY <1>2, <1>3 DEF TypeOK, ServerTypeOK, LoopInv, ListeningInv, Flushing, Alike, IsPipeClosed,
     Writer
<1>5. apcs \in Seq(Apcs)
  BY <1>2 DEF WinTypeOK
<1>6. \/ /\ apcs' = apcs
         /\ p \in reading' \/ p \in {listenPipe, reader} \/ \E i \in DOMAIN apcs' : apcs'[i].Pipe = p
      \/ /\ \A i \in DOMAIN apcs : i \in DOMAIN apcs' /\ apcs'[i] = apcs[i]
         /\ \E i \in DOMAIN apcs' : apcs'[i].Pipe = p
  <2>1. CASE \E a \in Apcs : a.Pipe = p /\ apcs' = Append(apcs, a)
    <3>1. PICK a \in Apcs : a.Pipe = p /\ apcs' = Append(apcs, a)
      BY <2>1
    <3> QED
      BY <1>5, <3>1, AppendFacts
  <2>2. CASE apcs' = apcs /\ reading' = reading
    BY <1>2, <1>3, <2>2 DEF EveryConnectionRead, ListeningInv
  <2> QED
    BY <1>3, <2>1, <2>2
<1>7. EveryConnectionRead'
  BY <1>2, <1>3, <1>6 DEF EveryConnectionRead, Alike
<1> QED
  BY <1>4, <1>7 DEF IInv

\* Every step keeps the types, the loop, who listens and who is read.
LEMMA NextInv ==
  ASSUME IInv, [Next]_vars
  PROVE  IInv'
<1>1. CASE Start \/ HandleNewConnection
  BY <1>1, StartInv
<1>2. CASE StopWriter \/ StopListening
  BY <1>2, StopInv
<1>3. CASE FirstRead \/ RunApc
  BY <1>3, ReadsInv
<1>4. CASE SkipClosed \/ WriteMessage \/ WriteCompletes
  BY <1>4, WriterInv
<1>5. CASE Quiet
  BY <1>5, QuietInv
<1>6. CASE UNCHANGED vars
  BY <1>6 DEF vars, winVars, pipeVars, ioVars, evVars, serverVars, boxVars, listenVars, loopVars,
     IInv, TypeOK, WinTypeOK, ServerTypeOK, LoopInv, ListeningInv, EveryConnectionRead, Flushing,
     IsPipeClosed, Writer
<1> QED
  BY <1>1, <1>2, <1>3, <1>4, <1>5, <1>6, ConnectInv, ClientInv DEF Next, ServerStep, Quiet

\* The inductive invariant holds in every state.
THEOREM Invariance == Spec => []IInv
<1>1. Init => IInv
  BY InitInv
<1>2. IInv /\ [Next]_vars => IInv'
  BY NextInv
<1> QED
  BY <1>1, <1>2, PTL DEF Spec

\* Every variable keeps its type.
THEOREM TypeCorrect == Spec => []TypeOK
<1>1. IInv => TypeOK
  BY DEF IInv
<1> QED
  BY <1>1, Invariance, PTL

\* A connection that was accepted and is not closed has a read outstanding or a
\* completion that waits (HandleNewConnection, HandleRead).
THEOREM ConnectionsRead == Spec => []EveryConnectionRead
<1>1. IInv => EveryConnectionRead
  BY DEF IInv
<1> QED
  BY <1>1, Invariance, PTL

(***************************************************************************)
(* The feed: CompletionServer implements ListenerFeed.                     *)
(***************************************************************************)

\* What is added to a sequence is all that is new in it.
LEMMA AppendHas ==
  ASSUME NEW S, NEW s \in Seq(S), NEW x \in S, NEW X
  PROVE  /\ Has(Append(s, x), X) <=> Has(s, X) \/ x \in X
         /\ Once(s, X) /\ (x \in X => ~Has(s, X)) => Once(Append(s, x), X)
<1>1. PICK t \in Seq(S) : t = Append(s, x)
  BY AppendFacts
<1>2. /\ Len(s) \in Nat
      /\ DOMAIN s = 1 .. Len(s)
      /\ \A i \in DOMAIN s : i \in DOMAIN t /\ t[i] = s[i]
      /\ Len(s) + 1 \in DOMAIN t /\ t[Len(s) + 1] = x
      /\ \A i \in DOMAIN t : i \in DOMAIN s \/ i = Len(s) + 1
  BY <1>1, AppendFacts
<1>3. Has(t, X) <=> Has(s, X) \/ x \in X
  BY <1>2 DEF Has
<1>4. Once(s, X) /\ (x \in X => ~Has(s, X)) => Once(t, X)
  BY <1>2 DEF Has, Once
<1> QED
  BY <1>1, <1>3, <1>4

\* Of a queue that is not empty, the head and the rest have all.
LEMMA TailHas ==
  ASSUME NEW S, NEW s \in Seq(S), s # <<>>, NEW X
  PROVE  /\ Has(s, X) <=> Head(s) \in X \/ Has(Tail(s), X)
         /\ Once(s, X) => Once(Tail(s), X) /\ (Head(s) \in X => ~Has(Tail(s), X))
<1>1. PICK t \in Seq(S) : t = Tail(s)
  BY TailFacts
<1>2. /\ Head(s) = s[1] /\ 1 \in DOMAIN s
      /\ \A i \in DOMAIN t : i + 1 \in DOMAIN s /\ t[i] = s[i + 1]
      /\ \A i \in DOMAIN s : i # 1 => i - 1 \in DOMAIN t /\ t[i - 1] = s[i]
      /\ \A i \in DOMAIN t : i \in Nat \ {0}
  BY <1>1, TailFacts
<1>3. Has(s, X) <=> s[1] \in X \/ Has(t, X)
  BY <1>2 DEF Has
<1>4. ASSUME Once(s, X)
      PROVE  Once(t, X)
  BY <1>2, <1>4 DEF Once
<1>5. ASSUME Once(s, X), s[1] \in X
      PROVE  ~Has(t, X)
  BY <1>2, <1>5 DEF Once, Has
<1> QED
  BY <1>1, <1>2, <1>3, <1>4, <1>5

\* A step of the server is one of the feed, or none.
Refines == Feed!FeedNext \/ UNCHANGED Feed!feedVars

\* The messages that are retired are not kept any more, those that are kept are due.
Retired == posted - Len(Messages)

\* h is a client before and after, and one who listens, or neither.
SameClient(h) ==
  /\ state'[h] = "connected" <=> state[h] = "connected"
  /\ Subscribed(h)' <=> Subscribed(h)
  /\ Subscribed(h) => feed'[h] = feed[h]

\* A step that changes no client and posts nothing is no step of the feed.
LEMMA Stutters ==
  ASSUME posted' = posted, Retired' = Retired, \A h \in Handles : SameClient(h)
  PROVE  Refines
<1>1. {h \in Handles : state[h] = "connected"}' = {h \in Handles : state[h] = "connected"}
  BY DEF SameClient
<1>2. {h \in Handles : Subscribed(h)}' = {h \in Handles : Subscribed(h)}
  BY DEF SameClient
<1>3. [h \in Handles |-> IF Subscribed(h) THEN feed[h] ELSE <<>>]'
        = [h \in Handles |-> IF Subscribed(h) THEN feed[h] ELSE <<>>]
  BY DEF SameClient
<1> QED
  BY <1>1, <1>2, <1>3 DEF Refines, Feed!feedVars, Retired

\* A message is pushed.
LEMMA Posts ==
  ASSUME posted' = posted + 1, Retired' = Retired, \A h \in Handles : SameClient(h)
  PROVE  Refines
<1>1. {h \in Handles : state[h] = "connected"}' = {h \in Handles : state[h] = "connected"}
  BY DEF SameClient
<1>2. {h \in Handles : Subscribed(h)}' = {h \in Handles : Subscribed(h)}
  BY DEF SameClient
<1>3. [h \in Handles |-> IF Subscribed(h) THEN feed[h] ELSE <<>>]'
        = [h \in Handles |-> IF Subscribed(h) THEN feed[h] ELSE <<>>]
  BY DEF SameClient
<1>4. Feed!Post
  BY <1>1, <1>2, <1>3 DEF Feed!Post, Retired
<1> QED
  BY <1>4 DEF Refines, Feed!FeedNext

\* A pipe loses its client, if it had one.
LEMMA Leaves ==
  ASSUME NEW p \in Handles, posted' = posted, Retired' = Retired,
         state'[p] # "connected", \A h \in Handles \ {p} : SameClient(h)
  PROVE  Refines
<1>1. CASE state[p] # "connected"
  BY <1>1, Stutters DEF SameClient, Subscribed
<1>2. CASE state[p] = "connected"
  <2>1. {h \in Handles : state[h] = "connected"}' = {h \in Handles : state[h] = "connected"} \ {p}
    BY DEF SameClient
  <2>2. {h \in Handles : Subscribed(h)}' = {h \in Handles : Subscribed(h)} \ {p}
    BY DEF SameClient, Subscribed
  <2>3. [h \in Handles |-> IF Subscribed(h) THEN feed[h] ELSE <<>>]'
          = [[h \in Handles |-> IF Subscribed(h) THEN feed[h] ELSE <<>>] EXCEPT ![p] = <<>>]
    BY DEF SameClient, Subscribed
  <2>4. Feed!Leave(p)
    BY <1>2, <2>1, <2>2, <2>3 DEF Feed!Leave, Retired
  <2> QED
    BY <2>4 DEF Refines, Feed!FeedNext
<1> QED
  BY <1>1, <1>2

\* A pipe gets a client, which does not listen yet.
LEMMA Arrives ==
  ASSUME NEW p \in Handles, posted' = posted, Retired' = Retired,
         state[p] # "connected", state'[p] = "connected", ~Subscribed(p)',
         \A h \in Handles \ {p} : SameClient(h)
  PROVE  Refines
<1>1. {h \in Handles : state[h] = "connected"}' = {h \in Handles : state[h] = "connected"} \union {p}
  BY DEF SameClient
<1>2. {h \in Handles : Subscribed(h)}' = {h \in Handles : Subscribed(h)}
  BY DEF SameClient, Subscribed
<1>3. [h \in Handles |-> IF Subscribed(h) THEN feed[h] ELSE <<>>]'
        = [h \in Handles |-> IF Subscribed(h) THEN feed[h] ELSE <<>>]
  BY DEF SameClient, Subscribed
<1>4. Feed!Arrive(p)
  BY <1>1, <1>2, <1>3 DEF Feed!Arrive, Retired
<1> QED
  BY <1>4 DEF Refines, Feed!FeedNext

\* A client starts to listen, and nothing was sent to it.
LEMMA Subscribes ==
  ASSUME NEW p \in Handles, posted' = posted, Retired' = Retired,
         state[p] = "connected", state'[p] = "connected", ~Subscribed(p), Subscribed(p)',
         feed'[p] = <<>>,
         \A h \in Handles \ {p} : SameClient(h)
  PROVE  Refines
<1>1. {h \in Handles : state[h] = "connected"}' = {h \in Handles : state[h] = "connected"}
  BY DEF SameClient
<1>2. {h \in Handles : Subscribed(h)}' = {h \in Handles : Subscribed(h)} \union {p}
  BY DEF SameClient
<1>3. [h \in Handles |-> IF Subscribed(h) THEN feed[h] ELSE <<>>]'
        = [h \in Handles |-> IF Subscribed(h) THEN feed[h] ELSE <<>>]
  BY DEF SameClient
<1>4. Feed!Subscribe(p)
  BY <1>1, <1>2, <1>3 DEF Feed!Subscribe, Retired
<1> QED
  BY <1>4 DEF Refines, Feed!FeedNext

\* A client that listens is sent the message it is due.
LEMMA Sends ==
  ASSUME NEW p \in Handles, posted' = posted, Retired' = Retired,
         state'[p] = "connected", Subscribed(p), Subscribed(p)',
         NextFor(p) <= posted, feed'[p] = Append(feed[p], NextFor(p)),
         \A h \in Handles \ {p} : SameClient(h)
  PROVE  Refines
<1>1. {h \in Handles : state[h] = "connected"}' = {h \in Handles : state[h] = "connected"}
  BY DEF SameClient, Subscribed
<1>2. {h \in Handles : Subscribed(h)}' = {h \in Handles : Subscribed(h)}
  BY DEF SameClient
<1>3. [h \in Handles |-> IF Subscribed(h) THEN feed[h] ELSE <<>>]'
        = [[h \in Handles |-> IF Subscribed(h) THEN feed[h] ELSE <<>>]
             EXCEPT ![p] = Append(feed[p], NextFor(p))]
  BY DEF SameClient
<1>4. [h \in Handles |-> IF Subscribed(h) THEN feed[h] ELSE <<>>][p] = feed[p]
  OBVIOUS
<1>5. Feed!NextFor(p) = NextFor(p)
  BY <1>4 DEF Feed!NextFor, NextFor
<1>6. Feed!SendNext(p)
  BY <1>1, <1>2, <1>3, <1>4, <1>5 DEF Feed!SendNext, Retired
<1> QED
  BY <1>6 DEF Refines, Feed!FeedNext

\* Every client that listens has all messages, and they are dropped.
LEMMA Retires ==
  ASSUME posted' = posted, Retired' = posted, \A h \in Handles : SameClient(h),
         \A h \in Handles : Subscribed(h) => NextFor(h) = posted + 1
  PROVE  Refines
<1>1. {h \in Handles : state[h] = "connected"}' = {h \in Handles : state[h] = "connected"}
  BY DEF SameClient
<1>2. {h \in Handles : Subscribed(h)}' = {h \in Handles : Subscribed(h)}
  BY DEF SameClient
<1>3. [h \in Handles |-> IF Subscribed(h) THEN feed[h] ELSE <<>>]'
        = [h \in Handles |-> IF Subscribed(h) THEN feed[h] ELSE <<>>]
  BY DEF SameClient
<1>4. ASSUME NEW h \in Handles, Subscribed(h)
      PROVE  Feed!NextFor(h) = posted + 1
  <2>1. [g \in Handles |-> IF Subscribed(g) THEN feed[g] ELSE <<>>][h] = feed[h]
    BY <1>4
  <2> QED
    BY <1>4, <2>1 DEF Feed!NextFor, NextFor
<1>5. Feed!Retire
  BY <1>1, <1>2, <1>3, <1>4 DEF Feed!Retire, Retired
<1> QED
  BY <1>5 DEF Refines, Feed!FeedNext

\* A step that changes neither a client, nor a wish, nor what is due, keeps all.
LEMMA CalmFeed ==
  ASSUME FeedInv, IInv',
         UNCHANGED <<WriteHandles, ClosedHandles, Messages, posted, unread, asked, feed, apcs>>,
         \A h \in Handles : state'[h] = "connected" <=> state[h] = "connected",
         \A i \in DOMAIN WriteHandles : Due(i)' = Due(i),
         pc \notin {"deleting", "stopped"}, Stopping => Stopping'
  PROVE  FeedInv' /\ Refines
<1>1. \A h \in Handles : SameClient(h)
  BY DEF SameClient, Subscribed, IsPipeClosed, Has
<1>2. Refines
  BY <1>1, Stutters DEF Retired
<1>3. WishInv'
  BY DEF FeedInv, WishInv, WishesOnce, Has, Once
<1>4. NumberInv'
  BY DEF FeedInv, NumberInv
<1>5. DueInv'
  <2>1. ASSUME NEW i \in DOMAIN WriteHandles, Subscribed(WriteHandles[i])'
        PROVE  NextFor(WriteHandles[i])' = Due(i)'
    <3>1. PICK h \in Handles : h = WriteHandles[i]
      BY DEF FeedInv, IInv, TypeOK, ServerTypeOK
    <3>2. Subscribed(h)
      BY <1>1, <2>1, <3>1 DEF SameClient, Subscribed, IsPipeClosed
    <3>3. NextFor(h) = Due(i)
      BY <3>1, <3>2 DEF FeedInv, DueInv
    <3>4. NextFor(h)' = NextFor(h)
      BY DEF NextFor
    <3> QED
      BY <3>1, <3>3, <3>4 DEF NextFor
  <2> QED
    BY <2>1 DEF DueInv
<1>6. UnsentInv'
  BY DEF FeedInv, UnsentInv, Has
<1> QED
  BY <1>2, <1>3, <1>4, <1>5, <1>6 DEF FeedInv

\* The types of what is counted.
LEMMA FeedTypes ==
  ASSUME FeedInv
  PROVE  /\ WriteHandles \in Seq(Handles) /\ Len(WriteHandles) \in Nat
         /\ DOMAIN WriteHandles = 1 .. Len(WriteHandles)
         /\ Messages \in Seq(Nat) /\ Len(Messages) \in Nat /\ posted \in Nat
         /\ DOMAIN Messages = 1 .. Len(Messages)
         /\ Len(Messages) <= posted
         /\ msgIx \in Nat /\ writerIx \in Nat /\ writerIx <= Len(WriteHandles)
         /\ feed \in [Handles -> Seq(Nat)]
         /\ apcs \in Seq(Apcs)
         /\ WinTypeOK /\ ClosedHandles \subseteq Handles
<1>1. TypeOK /\ NumberInv
  BY DEF FeedInv, IInv
<1> QED
  BY <1>1 DEF TypeOK, WinTypeOK, ServerTypeOK, NumberInv

\* Accepting, starting a flush, the next message of it, and its ends are calm.
LEMMA CalmSteps ==
  ASSUME FeedInv, IInv',
         \/ Start \/ ConnectToNewClient \/ HandleNewConnection
         \/ Stop \/ Tick \/ WriteFails \/ NextMessage \/ WaitTimesOut
  PROVE  FeedInv' /\ Refines
<1>1. /\ UNCHANGED <<WriteHandles, ClosedHandles, Messages, posted, unread, asked, feed, apcs>>
      /\ pc \notin {"deleting", "stopped"} /\ (Stopping => Stopping')
  BY DEF Start, ConnectToNewClient, HandleNewConnection, ListenForNewConnection, CreateNamedPipe,
     Stop, Tick, WriteFails, NextMessage, WaitTimesOut, Stopping, Waiting, AtWriter, winVars,
     pipeVars, ioVars, boxVars
<1>2. \A h \in Handles : state'[h] = "connected" <=> state[h] = "connected"
  <2>1. state' = state \/ \E h \in Handles : CreateNamedPipe(h)
    BY DEF Start, ConnectToNewClient, HandleNewConnection, ListenForNewConnection, Stop, Tick,
       WriteFails, NextMessage, WaitTimesOut, winVars, pipeVars
  <2> QED
    BY <2>1, FeedTypes DEF CreateNamedPipe, Creatable, WinTypeOK
<1>3. /\ pc' \in {"idle", "firstRead", "connect", "stopping", "flush"}
      /\ ~Flushing => msgIx = 1 /\ writerIx = 0
      /\ \/ ~Flushing /\ ~Flushing' /\ UNCHANGED <<msgIx, writerIx>>
         \/ Flushing /\ Flushing' /\ UNCHANGED <<msgIx, writerIx>>
         \/ ~Flushing /\ msgIx' = msgIx /\ writerIx' = Len(WriteHandles)
         \/ Flushing /\ Flushing' /\ writerIx = 0 /\ msgIx' = msgIx + 1 /\ writerIx' = Len(WriteHandles)
  <2>1. /\ LoopInv /\ LoopInv'
    BY DEF FeedInv, IInv
  <2> QED
    BY <2>1 DEF LoopInv, Flushing, Start, ConnectToNewClient, HandleNewConnection,
       ListenForNewConnection, Stop, Tick, WriteFails, NextMessage, WaitTimesOut, Waiting,
       AtWriter, loopVars
<1>4. \A i \in DOMAIN WriteHandles : Due(i)' = Due(i)
  <2>1. ASSUME NEW i \in DOMAIN WriteHandles, NEW n \in Nat, n = posted - Len(Messages)
        PROVE  Due(i)' = Due(i)
    <3>1. /\ Due(i) = n + msgIx + (IF Flushing /\ i > writerIx THEN 1 ELSE 0)
          /\ Due(i)' = n + msgIx' + (IF Flushing' /\ i > writerIx' THEN 1 ELSE 0)
      BY <1>1, <2>1 DEF Due
    <3> QED
      BY <1>3, <3>1, FeedTypes
  <2> QED
    BY <2>1, FeedTypes
<1> QED
  BY <1>1, <1>2, <1>4, CalmFeed

\* A message that the loop writes is the one its reader is due, and makes the next
\* one due (WriteMessage).
LEMMA WriteFeed ==
  ASSUME FeedInv, IInv', WriteMessage \/ WriteCompletes
  PROVE  FeedInv' /\ Refines
<1>1. PICK p \in Handles :
        /\ p = WriteHandles[writerIx] /\ writerIx \in DOMAIN WriteHandles
        /\ ~IsPipeClosed(p) /\ state[p] = "connected"
  BY FeedTypes DEF FeedInv, IInv, LoopInv, WriteMessage, WriteCompletes, AtWriter, Writer
<1>2. /\ UNCHANGED <<state, unread, asked, apcs, ClosedHandles, WriteHandles, Messages, posted, msgIx>>
      /\ Flushing /\ ~Stopping /\ Flushing' /\ ~Stopping'
  BY DEF WriteMessage, WriteCompletes, Deliver, AtWriter, Flushing, Stopping, ioVars, boxVars, pipeVars
<1>3. CASE UNCHANGED <<feed, writerIx>>
  <2>1. \A i \in DOMAIN WriteHandles : Due(i)' = Due(i)
    BY <1>2, <1>3 DEF Due
  <2> QED
    BY <1>2, <1>3, <2>1, CalmFeed DEF Flushing
<1>4. CASE feed' = [feed EXCEPT ![p] = Append(@, Messages[msgIx])] /\ writerIx' = writerIx - 1
  <2>1. PICK n \in Nat : n = posted - Len(Messages)
    BY FeedTypes
  <2>2. /\ \A i \in DOMAIN WriteHandles : Due(i) = n + msgIx + (IF i > writerIx THEN 1 ELSE 0)
        /\ \A i \in DOMAIN WriteHandles : Due(i)' = n + msgIx + (IF i > writerIx - 1 THEN 1 ELSE 0)
    BY <1>2, <1>4, <2>1 DEF Due
  <2>3. Subscribed(p)
    BY <1>1 DEF Subscribed, Has
  <2>4. msgIx \in DOMAIN Messages
    <3>1. Messages # <<>>
      BY <1>2 DEF FeedInv, IInv, LoopInv
    <3> QED
      BY <3>1, FeedTypes DEF FeedInv, IInv, TypeOK, ServerTypeOK
  <2>5. Messages[msgIx] = n + msgIx /\ n + msgIx <= posted
    <3>1. msgIx <= Len(Messages)
      BY <2>4, FeedTypes
    <3> QED
      BY <2>1, <2>4, <3>1, FeedTypes DEF FeedInv, NumberInv
  <2>6. NextFor(p) = n + msgIx
    <3>1. NextFor(p) = Due(writerIx)
      BY <1>1, <2>3 DEF FeedInv, DueInv
    <3>2. Due(writerIx) = n + msgIx
      BY <1>1, <2>2, FeedTypes
    <3> QED
      BY <3>1, <3>2
  <2>7. /\ \A h \in Handles : Subscribed(h)' <=> Subscribed(h)
        /\ \A h \in Handles \ {p} : feed'[h] = feed[h]
        /\ feed'[p] = Append(feed[p], n + msgIx)
    BY <1>2, <1>4, <2>5, FeedTypes DEF Subscribed, IsPipeClosed, Has
  <2>8. Refines
    <3>1. \A h \in Handles \ {p} : SameClient(h)
      BY <1>2, <2>7 DEF SameClient
    <3>2. Retired' = Retired
      BY <1>2 DEF Retired
    <3> QED
      BY <1>1, <1>2, <2>3, <2>5, <2>6, <2>7, <3>1, <3>2, Sends
  <2>9. WishInv' /\ NumberInv'
    BY <1>2 DEF FeedInv, WishInv, WishesOnce, Has, Once, NumberInv, Flushing
  <2>10. DueInv'
    <3>1. ASSUME NEW i \in DOMAIN WriteHandles, Subscribed(WriteHandles[i])'
          PROVE  NextFor(WriteHandles[i])' = Due(i)'
      <4>1. PICK h \in Handles : h = WriteHandles[i]
        BY <3>1, FeedTypes
      <4>2. Subscribed(h)
        BY <1>2, <2>7, <3>1, <4>1 DEF Subscribed, IsPipeClosed
      <4>3. NextFor(h) = Due(i)
        BY <4>1, <4>2 DEF FeedInv, DueInv
      <4>4. NextFor(h)' = IF feed'[h] = <<>> THEN n + 1 ELSE feed'[h][Len(feed'[h])] + 1
        BY <1>2, <2>1 DEF NextFor
      <4>5. NextFor(h) = IF feed[h] = <<>> THEN n + 1 ELSE feed[h][Len(feed[h])] + 1
        BY <2>1 DEF NextFor
      <4>6. CASE h = p
        <5>1. Once(WriteHandles, {p})
          BY <1>1, <1>2 DEF FeedInv, WishInv, WishesOnce, Flushing, IsPipeClosed
        <5>2. i = writerIx
          BY <1>1, <4>1, <4>6, <5>1 DEF Once
        <5>3. Due(i)' = n + msgIx + 1
          BY <1>1, <2>2, <5>2, FeedTypes
        <5>4. feed'[p] # <<>> /\ feed'[p][Len(feed'[p])] = n + msgIx
          <6>1. feed[p] \in Seq(Nat) /\ n + msgIx \in Nat
            BY FeedTypes
          <6> QED
            BY <2>7, <6>1
        <5> QED
          BY <4>1, <4>4, <4>6, <5>3, <5>4, <1>2 DEF NextFor
      <4>7. CASE h # p
        <5>1. i # writerIx
          BY <1>1, <4>1, <4>7
        <5>2. Due(i)' = Due(i)
          <6>1. i \in Nat /\ writerIx \in Nat
            BY FeedTypes
          <6>2. i > writerIx <=> i > writerIx - 1
            BY <5>1, <6>1
          <6> QED
            BY <2>2, <6>2
        <5>3. NextFor(h)' = NextFor(h)
          BY <2>7, <4>4, <4>5, <4>7
        <5> QED
          BY <1>2, <4>1, <4>3, <5>2, <5>3 DEF NextFor
      <4> QED
        BY <4>6, <4>7
    <3> QED
      BY <1>2, <3>1 DEF DueInv
  <2>11. UnsentInv'
    <3>1. Has(WriteHandles, {p})
      BY <1>1 DEF Has
    <3> QED
      BY <1>2, <2>7, <3>1 DEF FeedInv, UnsentInv, Has
  <2> QED
    BY <2>8, <2>9, <2>10, <2>11 DEF FeedInv
<1> QED
  BY <1>1, <1>3, <1>4 DEF WriteMessage, WriteCompletes, Deliver, pipeVars, Writer

\* A writer whose handle was closed is no subscriber: dropping it takes nothing from
\* any, and the last one, which takes its place, has been written to (SkipClosed).
LEMMA SkipFeed ==
  ASSUME FeedInv, IInv', SkipClosed
  PROVE  FeedInv' /\ Refines
<1> DEFINE L == Len(WriteHandles)
<1>1. /\ UNCHANGED <<state, unread, asked, feed, apcs, pc, ClosedHandles, Messages, posted, msgIx>>
      /\ WriteHandles' = RemoveWriter(writerIx)
      /\ writerIx' = writerIx - 1
      /\ Flushing /\ ~Stopping /\ Flushing' /\ ~Stopping'
      /\ pc' \notin {"deleting", "stopped"}
  BY DEF SkipClosed, AtWriter, Flushing, Stopping, winVars, pipeVars, ioVars, boxVars
<1>2. /\ L \in Nat \ {0} /\ writerIx \in 1 .. L /\ DOMAIN WriteHandles = 1 .. L
      /\ WriteHandles \in Seq(Handles)
      /\ WriteHandles[writerIx] \in ClosedHandles
  BY FeedTypes DEF SkipClosed, AtWriter, IsPipeClosed, Writer
<1>3. /\ DOMAIN WriteHandles' = 1 .. L - 1
      /\ \A j \in 1 .. L - 1 :
           WriteHandles'[j] = IF j = writerIx THEN WriteHandles[L] ELSE WriteHandles[j]
  <2>1. PICK w \in Nat : w = writerIx /\ w \in 1 .. Len(WriteHandles)
    BY <1>2
  <2>2. /\ RemoveWriter(w) \in Seq(Handles)
        /\ Len(RemoveWriter(w)) = L - 1
        /\ \A j \in 1 .. L - 1 :
             RemoveWriter(w)[j] = IF j = w THEN WriteHandles[L] ELSE WriteHandles[j]
    BY <1>2, <2>1, RemoveWriterFacts
  <2>3. DOMAIN RemoveWriter(w) = 1 .. L - 1
    BY <2>2
  <2> QED
    BY <1>1, <2>1, <2>2, <2>3
<1> HIDE DEF L
<1>4. ASSUME NEW h \in Handles \ ClosedHandles
      PROVE  /\ Has(WriteHandles', {h}) <=> Has(WriteHandles, {h})
             /\ Once(WriteHandles, {h}) => Once(WriteHandles', {h})
  <2>1. ASSUME NEW j \in DOMAIN WriteHandles', WriteHandles'[j] \in {h}
        PROVE  Has(WriteHandles, {h})
    BY <1>2, <1>3, <2>1 DEF Has
  <2>2. ASSUME NEW j \in DOMAIN WriteHandles, WriteHandles[j] \in {h}
        PROVE  Has(WriteHandles', {h})
    <3>1. j # writerIx
      BY <1>2, <1>4, <2>2
    <3>2. CASE j = L
      <4>1. writerIx \in 1 .. L - 1
        BY <1>2, <3>1, <3>2
      <4>2. WriteHandles'[writerIx] \in {h}
        BY <1>3, <2>2, <3>2, <4>1
      <4> QED
        BY <1>3, <4>1, <4>2 DEF Has
    <3>3. CASE j # L
      <4>1. j \in 1 .. L - 1 /\ WriteHandles'[j] \in {h}
        BY <1>2, <1>3, <2>2, <3>1, <3>3
      <4> QED
        BY <1>3, <4>1 DEF Has
    <3> QED
      BY <3>2, <3>3
  <2>3. ASSUME Once(WriteHandles, {h}), NEW i \in 1 .. L - 1, NEW j \in 1 .. L - 1,
               WriteHandles'[i] \in {h}, WriteHandles'[j] \in {h}
        PROVE  i = j
    <3>1. /\ i = writerIx => WriteHandles[L] \in {h}
          /\ i # writerIx => WriteHandles[i] \in {h}
          /\ j = writerIx => WriteHandles[L] \in {h}
          /\ j # writerIx => WriteHandles[j] \in {h}
      BY <1>3, <2>3
    <3>2. L \in DOMAIN WriteHandles /\ i \in DOMAIN WriteHandles /\ j \in DOMAIN WriteHandles
          /\ i # L /\ j # L
      BY <1>2
    <3> QED
      BY <2>3, <3>1, <3>2 DEF Once
  <2> QED
    BY <1>3, <2>1, <2>2, <2>3 DEF Has, Once
<1>5. \A h \in Handles : SameClient(h)
  BY <1>1, <1>4 DEF SameClient, Subscribed, IsPipeClosed
<1>6. Refines
  BY <1>1, <1>5, Stutters DEF Retired
<1>7. WishInv'
  <2>1. WishInv
    BY <1>1 DEF FeedInv, Flushing
  <2> QED
    BY <1>1, <1>4, <2>1 DEF WishInv, WishesOnce, Has, Once
<1>8. NumberInv' /\ UnsentInv'
  BY <1>1, <1>4 DEF FeedInv, NumberInv, UnsentInv
<1>9. DueInv'
  <2>1. PICK n \in Nat : n = posted - Len(Messages)
    BY FeedTypes
  <2>2. ASSUME NEW j \in 1 .. L - 1, Subscribed(WriteHandles[j])'
        PROVE  NextFor(WriteHandles[j])' = Due(j)'
    <3>1. PICK i \in 1 .. L : /\ WriteHandles'[j] = WriteHandles[i]
                              /\ (i > writerIx <=> j > writerIx - 1)
      <4>1. CASE j = writerIx
        BY <1>2, <1>3, <4>1
      <4>2. CASE j # writerIx
        BY <1>2, <1>3, <4>2
      <4> QED
        BY <4>1, <4>2
    <3>2. PICK h \in Handles : h = WriteHandles[i] /\ h = WriteHandles'[j]
      BY <1>2, <3>1
    <3>3. Subscribed(h)
      <4>1. Subscribed(h)'
        BY <2>2, <3>2 DEF Subscribed, IsPipeClosed, Has
      <4> QED
        BY <1>5, <4>1 DEF SameClient
    <3>4. NextFor(h) = Due(i)
      BY <1>2, <3>1, <3>2, <3>3 DEF FeedInv, DueInv
    <3>5. Due(i) = n + msgIx + (IF i > writerIx THEN 1 ELSE 0)
      BY <1>1, <2>1 DEF Due
    <3>6. Due(j)' = n + msgIx + (IF j > writerIx - 1 THEN 1 ELSE 0)
      BY <1>1, <2>1 DEF Due
    <3>7. Due(j)' = Due(i)
      BY <3>1, <3>5, <3>6
    <3>8. NextFor(WriteHandles[j])' = NextFor(h)
      BY <1>1, <3>2 DEF NextFor
    <3> QED
      BY <3>4, <3>7, <3>8
  <2> QED
    BY <1>3, <2>2 DEF DueInv
<1> QED
  BY <1>1, <1>6, <1>7, <1>8, <1>9 DEF FeedInv

\* The messages are dropped when every subscriber has them: at the end of a flush, or
\* with the server, when there is none (WriteAllMessages, StopServer).
LEMMA DropFeed ==
  ASSUME FeedInv, IInv', FinishFlush \/ Delete
  PROVE  FeedInv' /\ Refines
<1>1. /\ UNCHANGED <<state, unread, asked, feed, apcs, ClosedHandles, WriteHandles, posted>>
      /\ Messages' = <<>>
      /\ Stopping => Stopping'
      /\ ~Flushing' /\ msgIx' = 1
      /\ pc \in {"flush", "deleting"} /\ pc' \in {"wait", "stopped"}
      /\ pc = "deleting" => WriteHandles = <<>> /\ pc' = "stopped"
      /\ pc = "flush" => writerIx = 0 /\ msgIx = Len(Messages) /\ Messages # <<>>
  BY DEF FinishFlush, Delete, FeedInv, IInv, LoopInv, Flushing, Stopping, winVars, pipeVars, ioVars,
     loopVars
<1>2. Len(Messages') = 0
  BY <1>1
<1>3. \A h \in Handles : SameClient(h)
  BY <1>1 DEF SameClient, Subscribed, IsPipeClosed, Has
<1>4. ASSUME NEW i \in DOMAIN WriteHandles, NEW h \in Handles, h = WriteHandles[i], Subscribed(h)
      PROVE  NextFor(h) = posted + 1 /\ NextFor(h)' = posted + 1
  <2>1. pc = "flush"
    BY <1>1, <1>4
  <2>2. PICK n \in Nat : n = posted - Len(Messages) /\ n + Len(Messages) = posted
    <3>1. posted \in Nat /\ Len(Messages) \in Nat /\ Len(Messages) <= posted
      BY FeedTypes
    <3>2. posted - Len(Messages) \in Nat /\ (posted - Len(Messages)) + Len(Messages) = posted
      BY <3>1
    <3> QED
      BY <3>2
  <2>3. Len(Messages) \in Nat \ {0}
    BY <1>1, <2>1, FeedTypes
  <2>4. Due(i) = n + msgIx + (IF Flushing /\ i > writerIx THEN 1 ELSE 0)
    BY <2>2 DEF Due
  <2>5. Due(i) = posted + 1
    <3>1. Flushing /\ i > writerIx
      BY <1>1, <2>1, FeedTypes DEF Flushing
    <3> QED
      BY <1>1, <2>1, <2>2, <2>4, <3>1
  <2>6. NextFor(h) = posted + 1
    BY <1>4, <2>5 DEF FeedInv, DueInv
  <2>7. NextFor(h) = IF feed[h] = <<>> THEN n + 1 ELSE feed[h][Len(feed[h])] + 1
    BY <2>2 DEF NextFor
  <2>8. feed[h] # <<>>
    BY <2>2, <2>3, <2>6, <2>7
  <2>9. NextFor(h)' = feed[h][Len(feed[h])] + 1
    BY <1>1, <2>8 DEF NextFor
  <2> QED
    BY <2>6, <2>7, <2>8, <2>9
<1>5. Refines
  <2>1. Retired' = posted
    BY <1>1, <1>2, FeedTypes DEF Retired
  <2>2. \A h \in Handles : Subscribed(h) => NextFor(h) = posted + 1
    BY <1>4 DEF Subscribed, Has
  <2> QED
    BY <1>1, <1>3, <2>1, <2>2, Retires
<1>6. pc' \notin {"deleting", "stopped"} => WishInv'
  BY <1>1 DEF FeedInv, WishInv, WishesOnce, Has, Once
<1>7. NumberInv'
  <2>1. DOMAIN Messages' = {} /\ 0 <= posted
    BY <1>1, FeedTypes
  <2> QED
    BY <1>1, <1>2, <2>1 DEF NumberInv
<1>8. DueInv'
  <2>1. ASSUME NEW i \in DOMAIN WriteHandles, Subscribed(WriteHandles[i])'
        PROVE  NextFor(WriteHandles[i])' = Due(i)'
    <3>1. PICK h \in Handles : h = WriteHandles[i]
      BY <2>1, FeedTypes
    <3>2. Subscribed(h)
      BY <1>3, <2>1, <1>1, <3>1 DEF SameClient, Subscribed, IsPipeClosed
    <3>3. NextFor(h)' = posted + 1
      BY <1>4, <3>1, <3>2
    <3>4. Due(i)' = posted + 1
      BY <1>1, <1>2, FeedTypes DEF Due
    <3>5. NextFor(WriteHandles[i])' = NextFor(h)'
      BY <1>1, <3>1 DEF NextFor
    <3> QED
      BY <3>3, <3>4, <3>5
  <2> QED
    BY <1>1, <2>1 DEF DueInv
<1>9. UnsentInv'
  BY <1>1 DEF FeedInv, UnsentInv, Has, Stopping
<1> QED
  BY <1>5, <1>6, <1>7, <1>8, <1>9 DEF FeedInv

\* Between two flushes every subscriber is due the oldest message that is kept.
LEMMA DueAtRest ==
  ASSUME FeedInv, ~Flushing, NEW h \in Handles, Subscribed(h)
  PROVE  NextFor(h) = Retired + 1
<1>1. PICK i \in DOMAIN WriteHandles : WriteHandles[i] = h
  BY DEF Subscribed, Has
<1>2. NextFor(h) = Due(i)
  BY <1>1 DEF FeedInv, DueInv
<1>3. msgIx = 1
  BY DEF FeedInv, IInv, LoopInv
<1>4. Retired \in Nat
  BY FeedTypes DEF Retired
<1>5. Due(i) = Retired + 1
  BY <1>3, <1>4 DEF Due, Retired
<1> QED
  BY <1>2, <1>5

\* And that is enough.
LEMMA DueAfter ==
  ASSUME IInv', ~Flushing', Retired' \in Nat,
         \A h \in Handles : Subscribed(h)' => NextFor(h)' = Retired' + 1
  PROVE  DueInv'
<1>1. /\ msgIx' = 1
      /\ WriteHandles' \in Seq(Handles)
  BY DEF IInv, LoopInv, TypeOK, ServerTypeOK
<1>2. ASSUME NEW i \in DOMAIN WriteHandles', Subscribed(WriteHandles[i])'
      PROVE  NextFor(WriteHandles[i])' = Due(i)'
  <2>1. PICK h \in Handles : h = WriteHandles'[i]
    BY <1>1
  <2>2. Subscribed(h)'
    BY <1>2, <2>1 DEF Subscribed, IsPipeClosed, Has
  <2>3. NextFor(h)' = Retired' + 1
    BY <2>2
  <2>4. Due(i)' = Retired' + 1
    BY <1>1 DEF Due, Retired
  <2>5. NextFor(WriteHandles[i])' = NextFor(h)'
    BY <2>1 DEF NextFor
  <2> QED
    BY <2>3, <2>4, <2>5
<1> QED
  BY <1>2 DEF DueInv

\* What is no wish of the client of h makes none when it is queued.
LEMMA NoWish ==
  ASSUME NEW h, NEW q \in Seq(Apcs),
         apcs' = q \/ \E x \in Apcs : x \notin Wishes(h) /\ apcs' = Append(q, x)
  PROVE  /\ Has(apcs', Wishes(h)) => Has(q, Wishes(h))
         /\ Once(q, Wishes(h)) => Once(apcs', Wishes(h))
<1>1. ASSUME NEW x \in Apcs, x \notin Wishes(h)
      PROVE  /\ Has(Append(q, x), Wishes(h)) => Has(q, Wishes(h))
             /\ Once(q, Wishes(h)) => Once(Append(q, x), Wishes(h))
  <2>1. PICK X : X = Wishes(h)
    OBVIOUS
  <2>2. /\ Has(Append(q, x), X) <=> Has(q, X) \/ x \in X
        /\ Once(q, X) /\ (x \in X => ~Has(q, X)) => Once(Append(q, x), X)
    BY AppendHas
  <2> QED
    BY <1>1, <2>1, <2>2
<1> QED
  BY <1>1

\* Nor is what is queued for one pipe a wish of another's client, or a read that failed.
LEMMA WishesOfOthers ==
  ASSUME NEW p \in Handles, NEW h \in Handles
  PROVE  /\ Failed(p) \in Apcs /\ Failed(p) \notin Wishes(h)
         /\ \A x \in Apcs : x.Pipe # h => x \notin Wishes(h)
  BY DEF Failed, Apcs, RequestKinds, Wishes

\* A step that adds nothing to what the client of h wishes keeps its wish.
LEMMA WishKept ==
  ASSUME NEW h \in Handles, WishesOnce(h),
         unread'[h] = unread[h], asked'[h] = asked[h],
         Has(apcs', Wishes(h)) => Has(apcs, Wishes(h)),
         Once(apcs, Wishes(h)) => Once(apcs', Wishes(h)),
         Has(WriteHandles', {h}) => Has(WriteHandles, {h}),
         Once(WriteHandles, {h}) => Once(WriteHandles', {h})
  PROVE  WishesOnce(h)'
<1>1. /\ Has(unread[h], {"listener"})' <=> Has(unread[h], {"listener"})
      /\ Once(unread[h], {"listener"})' <=> Once(unread[h], {"listener"})
      /\ Has(apcs, Wishes(h))' <=> Has(apcs', Wishes(h))
      /\ Once(apcs, Wishes(h))' <=> Once(apcs', Wishes(h))
      /\ Has(WriteHandles, {h})' <=> Has(WriteHandles', {h})
      /\ Once(WriteHandles, {h})' <=> Once(WriteHandles', {h})
  BY DEF Has, Once, Wishes
<1> QED
  BY <1>1 DEF WishesOnce

\* Stop lets every client go; a server that stops is at rest.
LEMMA StopFeed ==
  ASSUME FeedInv, IInv', StopWriter \/ StopListening
  PROVE  FeedInv' /\ Refines
<1>1. /\ UNCHANGED <<posted, Messages, sends, msgIx>>
      /\ pc = "stopping" /\ pc' \in {"stopping", "deleting"} /\ ~Flushing /\ ~Flushing'
      /\ Stopping'
      /\ Retired' = Retired /\ Retired \in Nat
  BY FeedTypes DEF StopWriter, StopListening, Flushing, Stopping, boxVars, loopVars, Retired
<1>2. WishInv
  BY <1>1 DEF FeedInv
<1>3. CASE StopWriter
  <2>1. PICK p \in Handles : p = Head(WriteHandles) /\ DisconnectAndClose(p, apcs)
    BY <1>3, FeedTypes, TailFacts DEF StopWriter
  <2>2. /\ WriteHandles # <<>> /\ WriteHandles' = Tail(WriteHandles) /\ pc' = pc
    BY <1>3 DEF StopWriter
  <2>3. /\ Alike(p) /\ ClosedHandles \subseteq ClosedHandles'
        /\ ClosedHandles' = ClosedHandles \/ ClosedHandles' = ClosedHandles \union {p}
        /\ \/ state'[p] = "closed" /\ p \in ClosedHandles'
           \/ ~Open(p) /\ UNCHANGED <<state, unread, asked, feed>>
        /\ apcs' = apcs \/ apcs' = Append(apcs, Failed(p))
    BY <1>1, <2>1, FeedTypes, DisconnectAndCloseFacts
  <2>4. state'[p] # "connected"
    BY <2>1, <2>3 DEF Open
  <2>6. \A h \in Handles :
          /\ Has(WriteHandles', {h}) => Has(WriteHandles, {h})
          /\ Once(WriteHandles, {h}) => Once(WriteHandles', {h})
          /\ h # p /\ Has(WriteHandles, {h}) => Has(WriteHandles', {h})
    BY <2>1, <2>2, FeedTypes, TailHas
  <2>7. \A h \in Handles \ {p} : SameClient(h)
    BY <2>3, <2>6 DEF SameClient, Subscribed, IsPipeClosed, Alike
  <2>8. Refines
    BY <1>1, <2>4, <2>7, Leaves
  <2>9. ASSUME NEW h \in Handles \ ClosedHandles'
        PROVE  WishesOnce(h)'
    <3>1. WishesOnce(h)
      BY <1>2, <2>3, <2>9 DEF WishInv
    <3>2. unread'[h] = unread[h] /\ asked'[h] = asked[h]
      BY <2>3, <2>9 DEF Alike
    <3>3. /\ Has(apcs', Wishes(h)) => Has(apcs, Wishes(h))
          /\ Once(apcs, Wishes(h)) => Once(apcs', Wishes(h))
      BY <2>3, <2>9, FeedTypes, WishesOfOthers, NoWish
    <3> QED
      BY <2>6, <3>1, <3>2, <3>3, WishKept
  <2>10. WishInv'
    BY <2>9 DEF WishInv
  <2>11. ASSUME NEW h \in Handles, Subscribed(h)'
         PROVE  NextFor(h)' = Retired' + 1
    <3>1. h # p
      BY <2>4, <2>11 DEF Subscribed
    <3>2. Subscribed(h) /\ feed'[h] = feed[h]
      BY <2>3, <2>7, <2>11, <3>1 DEF SameClient
    <3>3. NextFor(h) = Retired + 1
      BY <1>1, <3>2, DueAtRest
    <3> QED
      BY <1>1, <3>2, <3>3 DEF NextFor
  <2>12. DueInv'
    BY <1>1, <2>11, DueAfter
  <2>13. NumberInv' /\ UnsentInv'
    BY <1>1 DEF FeedInv, NumberInv, UnsentInv
  <2> QED
    BY <2>8, <2>10, <2>12, <2>13 DEF FeedInv
<1>4. CASE StopListening
  <2>1. /\ WriteHandles = <<>> /\ WriteHandles' = <<>> /\ pc' = "deleting"
        /\ ClosedHandles' = ClosedHandles
    BY <1>4 DEF StopListening
  <2>2. \A h : ~Subscribed(h) /\ ~Subscribed(h)'
    BY <2>1 DEF Subscribed, Has
  <2>3. Refines
    <3>1. CASE Open(listenPipe)
      <4>1. PICK p \in Handles : p = listenPipe /\ Close(p, apcs)
        BY <1>4, <3>1 DEF StopListening, Open
      <4>2. Alike(p) /\ state'[p] = "closed"
        BY <1>1, <4>1, FeedTypes, CloseFacts
      <4>3. \A h \in Handles \ {p} : SameClient(h)
        BY <2>2, <4>2 DEF SameClient, Alike
      <4> QED
        BY <1>1, <4>2, <4>3, Leaves
    <3>2. CASE ~Open(listenPipe)
      BY <1>1, <1>4, <2>2, <3>2, Stutters DEF StopListening, SameClient, pipeVars
    <3> QED
      BY <3>1, <3>2
  <2>4. DueInv'
    BY <1>1, <2>2, DueAfter
  <2>5. NumberInv' /\ UnsentInv'
    BY <1>1 DEF FeedInv, NumberInv, UnsentInv
  <2> QED
    BY <2>1, <2>3, <2>4, <2>5 DEF FeedInv
<1> QED
  BY <1>3, <1>4

\* A client comes and does not listen yet, sends, or goes.
LEMMA ClientFeed ==
  ASSUME FeedInv, IInv', ClientStep
  PROVE  FeedInv' /\ Refines
<1>1. PICK p \in Handles :
        ClientConnect(p) \/ (\E r \in Requests : Send(p, r)) \/ ClientHangUp(p)
  BY DEF ClientStep
<1>2. /\ UNCHANGED <<pc, ClosedHandles, WriteHandles, Messages, posted, msgIx, writerIx>>
      /\ Retired' = Retired /\ Retired \in Nat
  BY FeedTypes DEF ClientStep, serverVars, boxVars, loopVars, Retired
<1>3. /\ Alike(p) /\ feed' = feed
      /\ apcs' = apcs \/ \E x \in Apcs : x.Pipe = p /\ apcs' = Append(apcs, x)
      /\ \/ /\ state[p] = "listening" /\ state'[p] = "connected"
            /\ UNCHANGED <<unread, asked, apcs>>
         \/ /\ state[p] = "connected" /\ state'[p] \in {"connected", "broken"}
  BY <1>1, FeedTypes, ClientFacts
<1>4. \A h \in Handles \ {p} : SameClient(h)
  BY <1>2, <1>3 DEF SameClient, Alike, Subscribed, IsPipeClosed, Has
<1>5. state[p] = "listening" => ~Subscribed(p)'
  <2>1. ASSUME state[p] = "listening", Subscribed(p)'
        PROVE  FALSE
    <3>1. p \notin ClosedHandles /\ Has(WriteHandles, {p})
      BY <1>2, <2>1 DEF Subscribed, IsPipeClosed, Has
    <3>2. ~asked[p]
      BY <2>1 DEF FeedInv, IInv, ListeningInv
    <3>3. WriteHandles # <<>>
      BY <3>1 DEF Has
    <3>4. WishInv
      BY <3>3 DEF FeedInv, IInv, LoopInv
    <3> QED
      BY <3>1, <3>2, <3>4 DEF WishInv, WishesOnce
  <2> QED
    BY <2>1
<1>6. Subscribed(p)' => Subscribed(p)
  BY <1>2, <1>3, <1>5 DEF Subscribed, IsPipeClosed, Has
<1>7. Refines
  <2>1. CASE state[p] = "listening"
    BY <1>2, <1>3, <1>4, <1>5, <2>1, Arrives
  <2>2. CASE state[p] = "connected" /\ state'[p] = "connected"
    <3>1. SameClient(p)
      BY <1>2, <1>3, <2>2 DEF SameClient, Subscribed, IsPipeClosed, Has
    <3> QED
      BY <1>2, <1>4, <3>1, Stutters
  <2>3. CASE state'[p] = "broken"
    BY <1>2, <1>4, <2>3, Leaves
  <2> QED
    BY <1>3, <2>1, <2>2, <2>3
<1>8. NumberInv' /\ UnsentInv'
  BY <1>2, <1>3 DEF FeedInv, NumberInv, UnsentInv, Stopping, Has
<1>9. DueInv'
  <2>1. ASSUME NEW i \in DOMAIN WriteHandles, Subscribed(WriteHandles[i])'
        PROVE  NextFor(WriteHandles[i])' = Due(i)'
    <3>1. PICK h \in Handles : h = WriteHandles[i]
      BY <2>1, FeedTypes
    <3>2. Subscribed(h)
      <4>1. Subscribed(h)'
        BY <1>2, <2>1, <3>1 DEF Subscribed, IsPipeClosed
      <4> QED
        BY <1>4, <1>6, <4>1 DEF SameClient
    <3>3. NextFor(h) = Due(i)
      BY <3>1, <3>2 DEF FeedInv, DueInv
    <3>4. NextFor(WriteHandles[i])' = NextFor(h)
      BY <1>2, <1>3, <3>1 DEF NextFor
    <3>5. Due(i)' = Due(i)
      BY <1>2 DEF Due, Flushing
    <3> QED
      BY <3>3, <3>4, <3>5
  <2> QED
    BY <1>2, <2>1 DEF DueInv
<1>10. ASSUME WishInv
       PROVE  WishInv'
  <2>1. ASSUME NEW h \in Handles \ ClosedHandles, h # p
        PROVE  WishesOnce(h)'
    <3>1. unread'[h] = unread[h] /\ asked'[h] = asked[h]
      BY <1>3, <2>1 DEF Alike
    <3>2. /\ Has(apcs', Wishes(h)) => Has(apcs, Wishes(h))
          /\ Once(apcs, Wishes(h)) => Once(apcs', Wishes(h))
      BY <1>3, <2>1, FeedTypes, WishesOfOthers, NoWish
    <3> QED
      BY <1>2, <1>10, <2>1, <3>1, <3>2, WishKept DEF WishInv
  <2>2. ASSUME p \notin ClosedHandles
        PROVE  WishesOnce(p)'
    <3>1. WishesOnce(p)
      BY <1>10, <2>2 DEF WishInv
    <3>2. CASE ClientConnect(p)
      BY <1>2, <3>1, <3>2, WishKept DEF ClientConnect, ioVars
    <3>3. CASE ClientHangUp(p)
      <4>2. unread' = unread /\ asked' = asked /\ (apcs' = apcs \/ apcs' = Append(apcs, Failed(p)))
        BY <3>3 DEF ClientHangUp, ioVars
      <4>3. /\ Has(apcs', Wishes(p)) => Has(apcs, Wishes(p))
            /\ Once(apcs, Wishes(p)) => Once(apcs', Wishes(p))
        BY <4>2, FeedTypes, WishesOfOthers, NoWish
      <4> QED
        BY <1>2, <3>1, <4>2, <4>3, WishKept
    <3>4. ASSUME NEW r \in Requests, Send(p, r)
          PROVE  WishesOnce(p)'
      <4>1. /\ ~asked[p]
            /\ asked'[p] = (r = "listener")
            /\ \/ unread' = unread /\ apcs' = Append(apcs, Completed(p, r))
               \/ apcs' = apcs /\ unread'[p] = Append(unread[p], r)
        BY <3>4, FeedTypes DEF Send, ClientSend, ioVars, WinTypeOK
      <4>2. ~Has(unread[p], {"listener"}) /\ ~Has(apcs, Wishes(p)) /\ ~Has(WriteHandles, {p})
        BY <3>1, <4>1 DEF WishesOnce
      <4>3. Completed(p, r) \in Apcs /\ (Completed(p, r) \in Wishes(p) <=> r = "listener")
        BY PipeAssumption DEF Completed, Apcs, Wishes
      <4>4. r \in RequestKinds /\ unread[p] \in Seq(RequestKinds)
        BY PipeAssumption, FeedTypes DEF WinTypeOK
      <4>5. /\ Has(WriteHandles, {p})' <=> Has(WriteHandles, {p})
            /\ Once(WriteHandles, {p})'
            /\ Wishes(p)' = Wishes(p)
        BY <1>2, <3>1 DEF WishesOnce, Has, Once, Wishes
      <4>6. CASE unread' = unread /\ apcs' = Append(apcs, Completed(p, r))
        <5>1. /\ Has(apcs', Wishes(p)) <=> r = "listener"
              /\ Once(apcs', Wishes(p))
          BY <3>1, <4>2, <4>3, <4>6, FeedTypes, AppendHas DEF WishesOnce
        <5> QED
          BY <3>1, <4>1, <4>2, <4>5, <4>6, <5>1 DEF WishesOnce
      <4>7. CASE apcs' = apcs /\ unread'[p] = Append(unread[p], r)
        <5>1. /\ Has(unread'[p], {"listener"}) <=> r = "listener"
              /\ Once(unread'[p], {"listener"})
          BY <3>1, <4>2, <4>4, <4>7, AppendHas DEF WishesOnce
        <5> QED
          BY <3>1, <4>1, <4>2, <4>5, <4>7, <5>1 DEF WishesOnce
      <4> QED
        BY <4>1, <4>6, <4>7
    <3> QED
      BY <1>1, <3>2, <3>3, <3>4
  <2> QED
    BY <1>2, <2>1, <2>2 DEF WishInv
<1> QED
  BY <1>2, <1>7, <1>8, <1>9, <1>10 DEF FeedInv

\* Handling a request posts a message, makes a listener of one who asked once, or
\* closes the pipe of a client that is gone (HandleRead).
LEMMA HandleReadFeed ==
  ASSUME FeedInv, IInv', NEW p \in Handles, NEW err, NEW request \in RequestKinds,
         NEW q \in Seq(Apcs), HandleRead(p, err, request, q),
         ~Flushing, ~Stopping, ~Flushing', ~Stopping',
         \A h \in Handles : /\ Has(q, Wishes(h)) => Has(apcs, Wishes(h))
                            /\ Once(apcs, Wishes(h)) => Once(q, Wishes(h)),
         ~err /\ request = "listener" =>
           /\ Has(apcs, Wishes(p))
           /\ Once(apcs, Wishes(p)) => ~Has(q, Wishes(p))
  PROVE  FeedInv' /\ Refines
<1>1. /\ WishInv /\ ListeningInv /\ WinTypeOK /\ sends' = sends
      /\ Retired \in Nat
  BY FeedTypes DEF FeedInv, IInv, HandleRead, Stopping, Retired
<1>2. \/ err /\ DisconnectAndClose(p, q) /\ UNCHANGED <<WriteHandles, Messages, posted>>
      \/ ~err /\ Dispatch(p, request) /\ ReadFileEx(p, q) /\ UNCHANGED ClosedHandles
      \/ ~err /\ Dispatch(p, request) /\ DisconnectAndClose(p, q) /\ state[p] # "connected"
  BY DEF HandleRead, Readable, boxVars
<1>3. \/ UNCHANGED <<Messages, posted>>
      \/ Messages' = Append(Messages, posted + 1) /\ posted' = posted + 1
  BY <1>2 DEF Dispatch
<1>4. Retired' = Retired /\ NumberInv'
  <2>1. CASE UNCHANGED <<Messages, posted>>
    BY <2>1 DEF FeedInv, NumberInv, Retired
  <2>2. CASE Messages' = Append(Messages, posted + 1) /\ posted' = posted + 1
    <3>1. PICK m \in Nat, n \in Nat : m = Len(Messages) /\ n = posted /\ m <= n
      BY FeedTypes
    <3>2. /\ Len(Messages') = m + 1 /\ DOMAIN Messages' = 1 .. m + 1
          /\ Messages'[m + 1] = n + 1
          /\ \A k \in 1 .. m : Messages'[k] = Messages[k]
      BY <2>2, <3>1, FeedTypes
    <3>3. \A k \in 1 .. m : Messages[k] = n - m + k
      BY <3>1, FeedTypes DEF FeedInv, NumberInv
    <3>4. \A k \in 1 .. m + 1 : Messages'[k] = (n + 1) - (m + 1) + k
      BY <3>1, <3>2, <3>3
    <3>5. NumberInv'
      BY <2>2, <3>1, <3>2, <3>4 DEF NumberInv
    <3> QED
      BY <2>2, <3>1, <3>2, <3>5 DEF Retired
  <2> QED
    BY <1>3, <2>1, <2>2
<1>5. \/ WriteHandles' = WriteHandles
      \/ /\ ~err /\ request = "listener"
         /\ WriteHandles' = Append(WriteHandles, p)
  BY <1>2 DEF Dispatch
<1> DEFINE Added == WriteHandles' # WriteHandles
<1>a. ASSUME NEW h \in Handles
      PROVE  /\ Has(WriteHandles', {h}) <=> Has(WriteHandles, {h}) \/ (h = p /\ Added)
             /\ Once(WriteHandles, {h}) /\ (h = p /\ Added => ~Has(WriteHandles, {h}))
                  => Once(WriteHandles', {h})
  <2>1. CASE Added
    <3>1. WriteHandles' = Append(WriteHandles, p) /\ WriteHandles \in Seq(Handles)
      BY <1>5, <2>1, FeedTypes
    <3>2. /\ Has(Append(WriteHandles, p), {h}) <=> Has(WriteHandles, {h}) \/ p \in {h}
          /\ Once(WriteHandles, {h}) /\ (p \in {h} => ~Has(WriteHandles, {h}))
               => Once(Append(WriteHandles, p), {h})
      BY <3>1, AppendHas
    <3> QED
      BY <2>1, <3>1, <3>2
  <2>2. CASE ~Added
    BY <2>2
  <2> QED
    BY <2>1, <2>2
<1>6. \A h \in Handles \ {p} :
        /\ Has(WriteHandles', {h}) <=> Has(WriteHandles, {h})
        /\ Once(WriteHandles, {h}) => Once(WriteHandles', {h})
  BY <1>a
<1>7. WriteHandles' # WriteHandles => Has(apcs, Wishes(p)) /\ ~err /\ request = "listener"
  BY <1>5
<1>8. /\ Alike(p) /\ ClosedHandles' \subseteq ClosedHandles \union {p}
      /\ ClosedHandles \subseteq ClosedHandles'
      /\ apcs' = q \/ \E x \in Apcs : x.Pipe = p /\ apcs' = Append(q, x)
      /\ \/ /\ p \in ClosedHandles' /\ state'[p] # "connected"
            /\ err \/ state[p] # "connected"
         \/ UNCHANGED <<state, unread, asked, feed>> /\ apcs' = q /\ ~Open(p)
         \/ ~err /\ ReadFileEx(p, q) /\ UNCHANGED <<state, asked, feed>>
  <2>1. CASE DisconnectAndClose(p, q) /\ (err \/ state[p] # "connected")
    <3>1. Failed(p) \in Apcs /\ Failed(p).Pipe = p
      BY DEF Failed, Apcs, RequestKinds
    <3>2. CASE Open(p)
      <4>1. /\ Alike(p) /\ ClosedHandles' = ClosedHandles \union {p} /\ state'[p] = "closed"
            /\ apcs' = q \/ apcs' = Append(q, Failed(p))
        BY <1>1, <2>1, <3>2, FeedTypes, DisconnectAndCloseFacts
      <4> QED
        BY <2>1, <3>1, <4>1
    <3>3. CASE ~Open(p)
      BY <2>1, <3>3 DEF DisconnectAndClose, Alike, pipeVars
    <3> QED
      BY <3>2, <3>3
  <2>2. CASE ~err /\ ReadFileEx(p, q) /\ UNCHANGED ClosedHandles
    <3>1. /\ Alike(p) /\ UNCHANGED <<state, asked, feed>>
          /\ \/ /\ apcs' = Append(q, Completed(p, Head(unread[p])))
                /\ Completed(p, Head(unread[p])) \in Apcs
             \/ apcs' = q
      BY <1>1, <2>2, ReadFileExFacts
    <3>2. Completed(p, Head(unread[p])).Pipe = p
      BY DEF Completed
    <3> QED
      BY <2>2, <3>1, <3>2
  <2> QED
    BY <1>2, <2>1, <2>2
<1>9. \A h \in Handles \ {p} : SameClient(h)
  BY <1>6, <1>8 DEF SameClient, Alike, Subscribed, IsPipeClosed
<1>10. ASSUME NEW h \in Handles \ ClosedHandles', h # p
       PROVE  WishesOnce(h)'
  <2>1. WishesOnce(h)
    BY <1>1, <1>8, <1>10 DEF WishInv
  <2>2. /\ Has(apcs', Wishes(h)) => Has(q, Wishes(h))
        /\ Once(q, Wishes(h)) => Once(apcs', Wishes(h))
    BY <1>8, <1>10, WishesOfOthers, NoWish
  <2>3. unread'[h] = unread[h] /\ asked'[h] = asked[h]
    BY <1>8, <1>10 DEF Alike
  <2> QED
    BY <1>6, <1>10, <2>1, <2>2, <2>3, WishKept
<1>11. ASSUME p \notin ClosedHandles'
       PROVE  WishesOnce(p)'
  <2>1. WishesOnce(p) /\ (Has(apcs, Wishes(p)) => asked[p])
    BY <1>1, <1>8, <1>11 DEF WishInv, WishesOnce
  <2>2. CASE UNCHANGED <<state, unread, asked, feed>> /\ apcs' = q /\ ~Open(p)
    <3>1. ~asked[p]
      BY <1>1, <2>2 DEF Open, ListeningInv
    <3>2. WriteHandles' = WriteHandles
      BY <1>7, <2>1, <3>1
    <3> QED
      BY <2>1, <2>2, <3>2, WishKept
  <2>3. CASE ~err /\ ReadFileEx(p, q) /\ UNCHANGED <<state, asked, feed>>
    <3>1. unread[p] \in Seq(RequestKinds)
      BY <1>1 DEF WinTypeOK
    <3>2. PICK u, v, w : /\ u = Has(unread[p], {"listener"})
                         /\ v = Has(apcs, Wishes(p))
                         /\ w = Has(WriteHandles, {p})
      OBVIOUS
    <3>3. /\ Once(WriteHandles', {p})
          /\ Has(WriteHandles', {p}) => asked[p] /\ ~Has(unread[p], {"listener"}) /\ ~Has(q, Wishes(p))
      <4>1. CASE WriteHandles' = WriteHandles
        BY <2>1, <4>1 DEF WishesOnce
      <4>2. CASE WriteHandles' # WriteHandles
        <5>1. /\ ~Has(q, Wishes(p)) /\ asked[p] /\ ~Has(WriteHandles, {p})
              /\ ~Has(unread[p], {"listener"})
          BY <1>7, <2>1, <4>2 DEF WishesOnce
        <5>2. Once(WriteHandles', {p})
          BY <1>a, <2>1, <5>1 DEF WishesOnce
        <5> QED
          BY <5>1, <5>2
      <4> QED
        BY <4>1, <4>2
    <3>4. CASE unread[p] # <<>> /\ unread'[p] = Tail(unread[p])
               /\ apcs' = Append(q, Completed(p, Head(unread[p])))
               /\ Completed(p, Head(unread[p])) \in Apcs
      <4>1. PICK x \in Apcs, r \in RequestKinds :
              r = Head(unread[p]) /\ x = Completed(p, r) /\ apcs' = Append(q, x)
        BY <3>1, <3>4
      <4>2. x \in Wishes(p) <=> r = "listener"
        BY <4>1 DEF Completed, Wishes
      <4>3. /\ Has(unread[p], {"listener"}) <=> r = "listener" \/ Has(unread'[p], {"listener"})
            /\ Once(unread'[p], {"listener"})
            /\ r = "listener" => ~Has(unread'[p], {"listener"})
        BY <2>1, <3>1, <3>4, <4>1, TailHas DEF WishesOnce
      <4>4. /\ Has(apcs', Wishes(p)) <=> Has(q, Wishes(p)) \/ r = "listener"
            /\ Once(q, Wishes(p)) /\ (r = "listener" => ~Has(q, Wishes(p))) => Once(apcs', Wishes(p))
        <5>1. PICK X : X = Wishes(p)
          OBVIOUS
        <5>2. /\ Has(Append(q, x), X) <=> Has(q, X) \/ x \in X
              /\ Once(q, X) /\ (x \in X => ~Has(q, X)) => Once(Append(q, x), X)
          BY AppendHas
        <5> QED
          BY <4>1, <4>2, <5>1, <5>2
      <4>5. /\ r = "listener" => asked[p] /\ ~Has(q, Wishes(p)) /\ ~Has(WriteHandles', {p})
            /\ Has(unread'[p], {"listener"}) =>
                 asked[p] /\ ~Has(q, Wishes(p)) /\ ~Has(WriteHandles', {p}) /\ r # "listener"
            /\ Has(q, Wishes(p)) => asked[p] /\ ~Has(WriteHandles', {p})
            /\ Once(q, Wishes(p))
        BY <2>1, <3>3, <4>3 DEF WishesOnce
      <4>6. /\ Once(unread'[p], {"listener"}) /\ Once(apcs', Wishes(p)) /\ Once(WriteHandles', {p})
            /\ Has(unread'[p], {"listener"}) =>
                 asked'[p] /\ ~Has(apcs', Wishes(p)) /\ ~Has(WriteHandles', {p})
            /\ Has(apcs', Wishes(p)) => asked'[p] /\ ~Has(WriteHandles', {p})
            /\ Has(WriteHandles', {p}) => asked'[p]
        BY <2>3, <3>3, <4>3, <4>4, <4>5
      <4> QED
        BY <4>6 DEF WishesOnce, Has, Once, Wishes
    <3>5. CASE unread' = unread /\ apcs' = q
      <4>1. /\ Once(unread'[p], {"listener"}) /\ Once(apcs', Wishes(p)) /\ Once(WriteHandles', {p})
            /\ Has(unread'[p], {"listener"}) =>
                 asked'[p] /\ ~Has(apcs', Wishes(p)) /\ ~Has(WriteHandles', {p})
            /\ Has(apcs', Wishes(p)) => asked'[p] /\ ~Has(WriteHandles', {p})
            /\ Has(WriteHandles', {p}) => asked'[p]
        BY <2>1, <2>3, <3>3, <3>5 DEF WishesOnce
      <4> QED
        BY <4>1 DEF WishesOnce, Has, Once, Wishes
    <3> QED
      BY <1>1, <2>3, <3>4, <3>5, ReadFileExFacts
  <2> QED
    BY <1>8, <1>11, <2>2, <2>3
<1>12. WishInv'
  BY <1>10, <1>11 DEF WishInv
<1>13. ASSUME Subscribed(p)'
       PROVE  /\ state[p] = "connected" /\ feed'[p] = feed[p] /\ ~err
              /\ p \notin ClosedHandles /\ p \notin ClosedHandles'
              /\ ~Subscribed(p) => feed[p] = <<>>
  <2>1. p \notin ClosedHandles' /\ state'[p] = "connected"
    BY <1>13 DEF Subscribed, IsPipeClosed
  <2>2. ~err /\ state[p] = "connected" /\ feed'[p] = feed[p]
    BY <1>8, <2>1 DEF Open
  <2>3. ~Subscribed(p) => ~Has(WriteHandles, {p})
    BY <1>8, <2>1, <2>2 DEF Subscribed, IsPipeClosed
  <2> QED
    BY <1>8, <2>1, <2>2, <2>3 DEF FeedInv, UnsentInv
<1>14. DueInv'
  <2>1. ASSUME NEW h \in Handles, Subscribed(h)'
        PROVE  NextFor(h)' = Retired' + 1
    <3>1. CASE Subscribed(h)
      <4>1. NextFor(h) = Retired + 1
        BY <3>1, DueAtRest
      <4>2. feed'[h] = feed[h]
        BY <1>9, <1>13, <2>1, <3>1 DEF SameClient
      <4>3. NextFor(h)' = NextFor(h)
        BY <1>4, <4>2 DEF NextFor, Retired
      <4> QED
        BY <1>4, <4>1, <4>3
    <3>2. CASE ~Subscribed(h)
      <4>1. feed'[h] = <<>>
        BY <1>9, <1>13, <2>1, <3>2 DEF SameClient
      <4> QED
        BY <1>4, <4>1 DEF NextFor, Retired
    <3> QED
      BY <3>1, <3>2
  <2> QED
    BY <1>1, <1>4, <2>1, DueAfter
<1>15. UnsentInv'
  <2>1. ASSUME NEW h \in Handles \ ClosedHandles', ~Has(WriteHandles', {h})
        PROVE  feed'[h] = <<>>
    <3>1. h \notin ClosedHandles /\ feed'[h] = feed[h]
      BY <1>8, <2>1 DEF Alike
    <3>2. ~Has(WriteHandles, {h})
      <4>1. CASE h # p
        BY <1>6, <2>1, <4>1
      <4>2. CASE h = p
        BY <1>a, <2>1, <4>2
      <4> QED
        BY <4>1, <4>2
    <3> QED
      BY <3>1, <3>2 DEF FeedInv, UnsentInv
  <2>2. \A h \in Handles \ ClosedHandles' : ~Has(WriteHandles', {h}) => feed'[h] = <<>>
    BY <2>1
  <2> QED
    BY <2>2 DEF UnsentInv, Has
<1>16. Refines
  <2>1. CASE posted' = posted /\ state'[p] # "connected"
    BY <1>4, <1>9, <2>1, Leaves
  <2>2. CASE posted' = posted /\ state'[p] = "connected" /\ Subscribed(p)' /\ ~Subscribed(p)
    <3>1. state[p] = "connected" /\ feed'[p] = <<>>
      BY <1>13, <2>2
    <3> QED
      BY <1>4, <1>9, <2>2, <3>1, Subscribes
  <2>3. ASSUME \/ posted' # posted
               \/ state'[p] = "connected" /\ ~(Subscribed(p)' /\ ~Subscribed(p))
        PROVE  SameClient(p)
    <3>1. CASE posted' # posted
      <4>1. ~err /\ request = "accepted" /\ WriteHandles' = WriteHandles
        BY <1>2, <3>1 DEF Dispatch
      <4>2. state'[p] = "connected" <=> state[p] = "connected"
        BY <1>8, <4>1
      <4>3. state[p] = "connected" => feed'[p] = feed[p] /\ (p \in ClosedHandles' <=> p \in ClosedHandles)
        BY <1>2, <1>8, <4>1, <4>2 DEF Open
      <4> QED
        BY <4>1, <4>2, <4>3 DEF SameClient, Subscribed, IsPipeClosed
    <3>2. CASE state'[p] = "connected" /\ ~(Subscribed(p)' /\ ~Subscribed(p))
      <4>1. /\ state[p] = "connected" /\ feed'[p] = feed[p]
            /\ ClosedHandles' = ClosedHandles
        BY <1>2, <1>8, <3>2 DEF Open, DisconnectAndClose, Close
      <4>2. Subscribed(p) => Subscribed(p)'
        BY <1>a, <3>2, <4>1 DEF Subscribed, IsPipeClosed
      <4> QED
        BY <3>2, <4>1, <4>2 DEF SameClient
    <3> QED
      BY <2>3, <3>1, <3>2
  <2>4. CASE posted' = posted + 1 /\ SameClient(p)
    BY <1>4, <1>9, <2>4, Posts
  <2>5. CASE posted' = posted /\ SameClient(p)
    BY <1>4, <1>9, <2>5, Stutters
  <2>6. posted' = posted \/ (posted' = posted + 1 /\ posted' # posted)
    BY <1>3, FeedTypes
  <2> QED
    BY <2>1, <2>2, <2>3, <2>4, <2>5, <2>6
<1> QED
  BY <1>4, <1>12, <1>14, <1>15, <1>16 DEF FeedInv

\* The first read of an accepted pipe, and the completions.
LEMMA ReadsFeed ==
  ASSUME FeedInv, IInv', FirstRead \/ RunApc
  PROVE  FeedInv' /\ Refines
<1>1. apcs \in Seq(Apcs)
  BY FeedTypes
<1>2. /\ ~Flushing /\ ~Stopping /\ ~Flushing' /\ ~Stopping'
      /\ pc \notin {"deleting", "stopped"} /\ pc' \notin {"deleting", "stopped"}
  BY DEF FirstRead, RunApc, Waiting, Flushing, Stopping
<1>3. CASE FirstRead /\ reader \in Handles
  <2>1. HandleRead(reader, FALSE, "blank", apcs) /\ "blank" \in RequestKinds
    BY <1>3 DEF FirstRead, RequestKinds
  <2>2. PICK p \in Handles, e \in BOOLEAN, q \in Seq(Apcs) : p = reader /\ q = apcs /\ e = FALSE
    BY <1>1, <1>3
  <2>3. HandleRead(p, e, "blank", q)
    BY <2>1, <2>2
  <2> QED
    BY <1>1, <1>2, <2>1, <2>2, <2>3, HandleReadFeed
<1>4. CASE FirstRead /\ reader \notin Handles
  <2>1. UNCHANGED <<WriteHandles, ClosedHandles, Messages, posted, state, unread, asked, feed, apcs, msgIx>>
    BY <1>4 DEF FirstRead, HandleRead, Dispatch, Readable, DisconnectAndClose, Open, pipeVars, loopVars
  <2>2. \A i \in DOMAIN WriteHandles : Due(i)' = Due(i)
    BY <1>2, <2>1 DEF Due
  <2> QED
    BY <1>2, <2>1, <2>2, CalmFeed
<1>5. CASE RunApc
  <2>1. PICK a \in Apcs, q \in Seq(Apcs) : a = Head(apcs) /\ q = Tail(apcs)
    BY <1>1, <1>5, TailFacts DEF RunApc
  <2>2. PICK p \in Handles, e \in BOOLEAN, r \in RequestKinds : p = a.Pipe /\ e = a.err /\ r = a.request
    BY DEF Apcs
  <2>3. HandleRead(p, e, r, q)
    BY <1>5, <2>1, <2>2 DEF RunApc
  <2>4. apcs # <<>>
    BY <1>5 DEF RunApc
  <2>5. ASSUME NEW h \in Handles
        PROVE  /\ Has(apcs, Wishes(h)) <=> a \in Wishes(h) \/ Has(q, Wishes(h))
               /\ Once(apcs, Wishes(h)) => Once(q, Wishes(h)) /\ (a \in Wishes(h) => ~Has(q, Wishes(h)))
    <3>1. PICK X : X = Wishes(h)
      OBVIOUS
    <3>2. /\ Has(apcs, X) <=> Head(apcs) \in X \/ Has(Tail(apcs), X)
          /\ Once(apcs, X) => Once(Tail(apcs), X) /\ (Head(apcs) \in X => ~Has(Tail(apcs), X))
      BY <1>1, <2>4, TailHas
    <3> QED
      BY <2>1, <3>1, <3>2
  <2>6. r = "listener" => a \in Wishes(p)
    BY <2>2 DEF Apcs, Wishes
  <2> QED
    BY <1>2, <2>3, <2>5, <2>6, HandleReadFeed
<1> QED
  BY <1>3, <1>4, <1>5

\* Every step keeps what the feed rests on, and is one of ListenerFeed, or none.
LEMMA FeedStep ==
  ASSUME FeedInv, [Next]_vars
  PROVE  FeedInv' /\ Refines
<1>1. IInv'
  BY NextInv DEF FeedInv
<1>2. CASE UNCHANGED vars
  <2>1. UNCHANGED <<pc, WriteHandles, ClosedHandles, Messages, posted, state, unread, asked, feed,
                    apcs, msgIx, writerIx>>
    BY <1>2 DEF vars, winVars, pipeVars, ioVars, serverVars, boxVars, loopVars
  <2>2. Refines
    BY <2>1, Stutters DEF SameClient, Subscribed, IsPipeClosed, Has, Retired
  <2>3. (pc \notin {"deleting", "stopped"} => WishInv)'
    BY <2>1 DEF FeedInv, WishInv, WishesOnce, Has, Once
  <2>4. NumberInv' /\ UnsentInv'
    BY <2>1 DEF FeedInv, NumberInv, UnsentInv, Stopping, Has
  <2>5. DueInv'
    BY <2>1 DEF FeedInv, DueInv, Subscribed, IsPipeClosed, Has, NextFor, Due, Flushing
  <2> QED
    BY <1>1, <2>2, <2>3, <2>4, <2>5 DEF FeedInv
<1>3. CASE FirstRead \/ RunApc
  BY <1>1, <1>3, ReadsFeed
<1>4. CASE StopWriter \/ StopListening
  BY <1>1, <1>4, StopFeed
<1>5. CASE WriteMessage \/ WriteCompletes
  BY <1>1, <1>5, WriteFeed
<1>6. CASE FinishFlush \/ Delete
  BY <1>1, <1>6, DropFeed
<1>7. CASE \/ Start \/ ConnectToNewClient \/ HandleNewConnection
           \/ Stop \/ Tick \/ WriteFails \/ NextMessage \/ WaitTimesOut
  BY <1>1, <1>7, CalmSteps
<1> QED
  BY <1>1, <1>2, <1>3, <1>4, <1>5, <1>6, <1>7, SkipFeed, ClientFeed DEF Next, ServerStep

\* At first nobody is there and nothing is posted.
LEMMA FeedStart ==
  ASSUME Init
  PROVE  FeedInv /\ Feed!FeedInit
<1>1. /\ IInv
      /\ WriteHandles = <<>> /\ Messages = <<>> /\ posted = 0 /\ apcs = <<>>
      /\ \A h \in Handles : unread[h] = <<>> /\ feed[h] = <<>> /\ state[h] = "fresh"
  BY InitInv DEF Init, WinInit, ServerInit
<1>2. Len(Messages) = 0
  BY <1>1
<1>3. FeedInv
  BY <1>1, <1>2 DEF FeedInv, WishInv, WishesOnce, NumberInv, DueInv, UnsentInv, Has, Once
<1>4. \A h \in Handles : state[h] # "connected" /\ ~Subscribed(h)
  BY <1>1 DEF Subscribed
<1>5. /\ {h \in Handles : state[h] = "connected"} = {}
      /\ {h \in Handles : Subscribed(h)} = {}
      /\ [h \in Handles |-> IF Subscribed(h) THEN feed[h] ELSE <<>>] = [h \in Handles |-> <<>>]
  <2>1. {h \in Handles : state[h] = "connected"} = {}
    BY <1>4
  <2>2. {h \in Handles : Subscribed(h)} = {}
    BY <1>4
  <2>3. \A h \in Handles : (IF Subscribed(h) THEN feed[h] ELSE <<>>) = <<>>
    BY <1>4
  <2> QED
    BY <2>1, <2>2, <2>3
<1>6. posted = 0 /\ posted - Len(Messages) = 0
  <2>1. posted = 0
    BY <1>1
  <2> QED
    BY <1>2, <2>1
<1>7. Feed!FeedInit
  BY <1>5, <1>6 DEF Feed!FeedInit
<1> QED
  BY <1>3, <1>7

\* What one client's request makes the server write, every listener gets, in order
\* and once, from the backlog at its registration on, as long as its client is there
\* (WriteAllMessages, HandleRequest): every step is one of ListenerFeed, or none.
THEOREM FeedsGapless == Spec => FeedGapless
<1>1. Init => FeedInv /\ Feed!FeedInit
  BY FeedStart
<1>2. FeedInv /\ [Next]_vars => FeedInv' /\ [Feed!FeedNext]_(Feed!feedVars)
  BY FeedStep DEF Refines
<1> QED
  BY <1>1, <1>2, PTL DEF Spec, FeedGapless, Feed!FeedSpec
================================================================================
