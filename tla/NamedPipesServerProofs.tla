------------------------- MODULE NamedPipesServerProofs -------------------------
(***************************************************************************)
(* Theorems about NamedPipesServer, for every set of handles and every     *)
(* bound.                                                                  *)
(***************************************************************************)
EXTENDS NamedPipesServer, SequenceTheorems, TLAPS

(***************************************************************************)
(* Facts about the operators the actions are built from.                   *)
(***************************************************************************)

\* RemoveWriter(i) keeps every writer but the i-th and adds none
\* (RemoveWriter swaps writer i with the last one and pops).
LEMMA RemoveWriterFacts ==
  ASSUME WriteHandles \in Seq(Writers),
         NEW i \in 1 .. Len(WriteHandles)
  PROVE  /\ RemoveWriter(i) \in Seq(Writers)
         /\ Len(RemoveWriter(i)) = Len(WriteHandles) - 1
         /\ \A j \in DOMAIN RemoveWriter(i) :
              \E k \in DOMAIN WriteHandles : RemoveWriter(i)[j] = WriteHandles[k]
         /\ \A j \in 1 .. Len(WriteHandles) - 1 :
              RemoveWriter(i)[j] = IF j = i THEN WriteHandles[Len(WriteHandles)] ELSE WriteHandles[j]
<1> DEFINE n == Len(WriteHandles)
           swapped == [WriteHandles EXCEPT ![i] = WriteHandles[n]]
<1>1. n \in Nat \ {0}
  OBVIOUS
<1>2. swapped \in Seq(Writers) /\ Len(swapped) = n
  OBVIOUS
<1>3. RemoveWriter(i) = SubSeq(swapped, 1, n - 1)
  BY DEF RemoveWriter
<1> HIDE DEF swapped
<1>4. /\ RemoveWriter(i) \in Seq(Writers)
      /\ Len(RemoveWriter(i)) = n - 1
      /\ \A j \in 1 .. n - 1 : RemoveWriter(i)[j] = swapped[j]
  BY <1>1, <1>2, <1>3
<1>5. \A j \in 1 .. n - 1 :
        swapped[j] = IF j = i THEN WriteHandles[n] ELSE WriteHandles[j]
  BY <1>1 DEF swapped
<1> QED
  BY <1>1, <1>4, <1>5

(***************************************************************************)
(* The invariant holds at the start, and each action preserves it.         *)
(***************************************************************************)

\* Before StartServer there is no pipe, no reader and no routine queued.
LEMMA InitInv == Init => IInv
<1> SUFFICES ASSUME Init PROVE IInv
  OBVIOUS
<1> USE DEF Init, WinInit, ServerInit
<1>1. TypeOK
  <2>1. /\ <<>> \in Seq(RequestKinds)
        /\ <<>> \in Seq(Nat)
        /\ <<>> \in Seq(Apcs)
        /\ <<>> \in Seq(Writers)
    OBVIOUS
  <2>3. WinTypeOK
    BY <2>1 DEF WinTypeOK, PipeStates
  <2>2. /\ writerIx \in 0 .. Len(WriteHandles)
        /\ batch \in Nat
        /\ msgIx \in Nat \ {0}
        /\ posted \in Nat
    OBVIOUS
  <2>4. WriteHandles \in Seq(Writers) /\ Outbox \in Seq(Nat)
    BY <2>1
  <2>5. /\ pc \in PCs
        /\ ClosedHandles \subseteq Handles
        /\ listenPipe \in Handles \union {INVALID}
        /\ AwaitingIo \in BOOLEAN
        /\ reader \in Handles \union {INVALID, None}
    BY DEF PCs
  <2> QED
    BY <2>2, <2>3, <2>4, <2>5 DEF TypeOK, ServerTypeOK
<1>2. LoopInv /\ AcceptInv
  BY PipeAssumption DEF LoopInv, AcceptInv, Flushing, Blocked
<1>3. ReadingInv /\ ApcInv /\ UnreadInv /\ WritersLive /\ OnlyListenersFed
  BY DEF ReadingInv, ApcInv, UnreadInv, WritersLive, OnlyListenersFed
<1> QED
  BY <1>1, <1>2, <1>3 DEF IInv

\* The steps of the server's thread that change where it is and nothing the
\* invariant relates to it.
LEMMA QuietInv ==
  ASSUME IInv,
         Tick \/ Stop \/ WriteAborts \/ WriteFreed \/ NextMessage \/ FinishFlush
           \/ WaitTimesOut \/ StartApcs \/ EndApcs \/ Write \/ Crashed
  PROVE  IInv'
<1> USE DEF winVars, pipeVars, ioVars, evVars, listenVars, boxVars
<1>1. UNCHANGED <<winVars, ClosedHandles, WriteHandles, listenVars>>
  BY DEF Tick, Stop, WriteAborts, WriteFreed, NextMessage, FinishFlush,
         WaitTimesOut, StartApcs, EndApcs, Write, Crashed, vars, serverVars
<1>2. (ReadingInv /\ ApcInv /\ UnreadInv /\ WritersLive /\ OnlyListenersFed)'
  BY <1>1 DEF IInv, ReadingInv, ApcInv, UnreadInv, WritersLive,
              OnlyListenersFed, Accepted, IsPipeClosed,
              WriterLive, ApcLive
<1>3. /\ pc' \in PCs
      /\ Outbox' \in Seq(Nat)
      /\ posted' \in Nat
      /\ batch' \in Nat
      /\ msgIx' \in Nat \ {0}
      /\ writerIx' \in 0 .. Len(WriteHandles)
  <2> USE DEF IInv, TypeOK, ServerTypeOK, PCs, loopVars, vars, serverVars, Flushing, Blocked
  <2>1. CASE Tick
    BY <2>1 DEF Tick
  <2>2. CASE Stop \/ WriteAborts \/ WriteFreed \/ WaitTimesOut \/ StartApcs \/ EndApcs \/ Crashed
    BY <2>2 DEF Stop, WriteAborts, WriteFreed, WaitTimesOut, StartApcs, EndApcs, Crashed
  <2>3. CASE NextMessage
    BY <2>3 DEF NextMessage
  <2>4. CASE FinishFlush
    BY <2>4 DEF FinishFlush
  <2>5. CASE Write
    BY <2>5 DEF Write
  <2> QED
    BY <2>1, <2>2, <2>3, <2>4, <2>5
<1>6. TypeOK'
  BY <1>1, <1>3 DEF IInv, TypeOK, ServerTypeOK, WinTypeOK
<1>4. LoopInv'
  BY <1>1 DEF IInv, TypeOK, ServerTypeOK, LoopInv, Flushing, Blocked, PCs, loopVars, vars, serverVars, Writer, IsPipeClosed,
      AtWriter, Tick, Stop, WriteAborts, WriteFreed, NextMessage, FinishFlush,
         WaitTimesOut, StartApcs, EndApcs, Write, Crashed
<1>5. AcceptInv'
  BY <1>1 DEF IInv, TypeOK, ServerTypeOK, AcceptInv, PCs, Accepted, IsPipeClosed, Open, Flushing, Blocked,
     AtWriter, vars, serverVars,
       Tick, Stop, WriteAborts, WriteFreed, NextMessage, FinishFlush,
         WaitTimesOut, StartApcs, EndApcs, Write, Crashed
<1> QED
  BY <1>2, <1>4, <1>5, <1>6 DEF IInv

\* The server's knowledge of a connection it has not closed outlives a step.
Keeps ==
  /\ ClosedHandles \subseteq ClosedHandles'
  /\ \A h \in Handles \ ClosedHandles' :
       Accepted(h) =>
         /\ Accepted(h)'
         /\ asked[h] => asked'[h]
         /\ state[h] = "broken" => state'[h] = "broken"

\* A step that keeps it keeps what is said of each completion and writer.
LEMMA KeepsLive ==
  ASSUME Keeps
  PROVE  /\ \A a \in Apcs : ApcLive(a) => ApcLive(a)'
         /\ \A w \in Writers : WriterLive(w) => WriterLive(w)'
BY DEF Keeps, Apcs, Writers, ApcLive, WriterLive, IsPipeClosed

\* StartServer: the first pipe is fresh, so nothing refers to it.
LEMMA StartInv ==
  ASSUME IInv, Start
  PROVE  IInv'
<1> USE PipeAssumption DEF winVars, pipeVars, ioVars, evVars, listenVars, boxVars, Start, ListenForNewConnection, CreateNamedPipe, Creatable, Open
<1>1. WinTypeOK'
  BY DEF IInv, TypeOK, ServerTypeOK, WinTypeOK, PipeStates
<1>2. ServerTypeOK'
  BY DEF IInv, TypeOK, ServerTypeOK, WinTypeOK, PCs, loopVars
<1>3. Keeps
  BY DEF IInv, TypeOK, ServerTypeOK, WinTypeOK, Keeps, Accepted
<1>4. LoopInv'
  BY DEF IInv, TypeOK, ServerTypeOK, WinTypeOK, LoopInv, Flushing, Blocked, Writer, Writers, IsPipeClosed, loopVars
<1>5. AcceptInv'
  BY DEF IInv, TypeOK, ServerTypeOK, WinTypeOK, AcceptInv, Accepted, IsPipeClosed, PCs
<1>6. ReadingInv'
  BY DEF IInv, TypeOK, ServerTypeOK, WinTypeOK, ReadingInv, IsPipeClosed
<1>7. ApcInv'
  BY <1>3, KeepsLive DEF IInv, TypeOK, ServerTypeOK, WinTypeOK, ApcInv
<1>8. UnreadInv'
  BY DEF IInv, TypeOK, ServerTypeOK, WinTypeOK, UnreadInv
<1>9. WritersLive'
  BY <1>3, KeepsLive DEF IInv, TypeOK, ServerTypeOK, WinTypeOK, WritersLive
<1>10. OnlyListenersFed'
  BY DEF IInv, TypeOK, ServerTypeOK, WinTypeOK, OnlyListenersFed
<1> QED
  BY <1>1, <1>2, <1>4, <1>5, <1>6, <1>7, <1>8, <1>9, <1>10 DEF IInv, TypeOK

\* ConnectNamedPipe: the event is set just when a client is there.
LEMMA ConnectToPipeInv ==
  ASSUME IInv, ConnectToPipe
  PROVE  IInv'
<1> USE PipeAssumption DEF winVars, pipeVars, ioVars, evVars, listenVars, boxVars, ConnectToPipe, SetsEvent, Open
<1>1. WinTypeOK'
  BY DEF IInv, TypeOK, ServerTypeOK, WinTypeOK, AcceptInv, PipeStates
<1>2. ServerTypeOK'
  BY DEF IInv, TypeOK, ServerTypeOK, WinTypeOK, PCs, loopVars
<1>3. Keeps
  BY DEF IInv, TypeOK, ServerTypeOK, WinTypeOK, Keeps, Accepted
<1>4. LoopInv'
  BY DEF IInv, TypeOK, ServerTypeOK, WinTypeOK, LoopInv, Flushing, Blocked, Writer, Writers, IsPipeClosed, loopVars
<1>5. AcceptInv'
  BY DEF IInv, TypeOK, ServerTypeOK, WinTypeOK, AcceptInv, Accepted, IsPipeClosed, PCs
<1>6. ReadingInv'
  BY DEF IInv, TypeOK, ServerTypeOK, WinTypeOK, ReadingInv, IsPipeClosed
<1>7. ApcInv'
  BY <1>3, KeepsLive DEF IInv, TypeOK, ServerTypeOK, WinTypeOK, ApcInv
<1>8. UnreadInv'
  BY DEF IInv, TypeOK, ServerTypeOK, WinTypeOK, UnreadInv
<1>9. WritersLive'
  BY <1>3, KeepsLive DEF IInv, TypeOK, ServerTypeOK, WinTypeOK, WritersLive
<1>10. OnlyListenersFed'
  BY DEF IInv, TypeOK, ServerTypeOK, WinTypeOK, OnlyListenersFed
<1> QED
  BY <1>1, <1>2, <1>4, <1>5, <1>6, <1>7, <1>8, <1>9, <1>10 DEF IInv, TypeOK

\* A closed writer is removed: the others are those there were.
LEMMA SkipClosedInv ==
  ASSUME IInv, SkipClosed
  PROVE  IInv'
<1> USE PipeAssumption DEF winVars, pipeVars, ioVars, evVars, listenVars, boxVars, SkipClosed, AtWriter, NextWriter, Erased
<1>r. /\ WriteHandles' \in Seq(Writers)
      /\ Len(WriteHandles') = Len(WriteHandles) - 1
      /\ \A j \in DOMAIN WriteHandles' :
           \E k \in DOMAIN WriteHandles : WriteHandles'[j] = WriteHandles[k]
  BY RemoveWriterFacts DEF IInv, TypeOK, ServerTypeOK
<1>1. WinTypeOK'
  BY DEF IInv, TypeOK, ServerTypeOK, WinTypeOK, PipeStates
<1>2. ServerTypeOK'
  BY <1>r DEF IInv, TypeOK, ServerTypeOK, WinTypeOK, PCs, loopVars
<1>3. Keeps
  BY DEF IInv, TypeOK, ServerTypeOK, WinTypeOK, Keeps, Accepted
<1>4. LoopInv'
  BY DEF IInv, TypeOK, ServerTypeOK, WinTypeOK, LoopInv, Flushing, Blocked, Writer, Writers, IsPipeClosed, loopVars
<1>5. AcceptInv'
  BY DEF IInv, TypeOK, ServerTypeOK, WinTypeOK, AcceptInv, Accepted, IsPipeClosed, PCs
<1>6. ReadingInv'
  BY DEF IInv, TypeOK, ServerTypeOK, WinTypeOK, ReadingInv, IsPipeClosed
<1>7. ApcInv'
  BY <1>3, KeepsLive DEF IInv, TypeOK, ServerTypeOK, WinTypeOK, ApcInv
<1>8. UnreadInv'
  BY DEF IInv, TypeOK, ServerTypeOK, WinTypeOK, UnreadInv
<1>9. WritersLive'
  <2> SUFFICES ASSUME NEW j \in DOMAIN WriteHandles'
               PROVE  WriterLive(WriteHandles[j])'
    BY DEF WritersLive
  <2>1. PICK k \in DOMAIN WriteHandles : WriteHandles'[j] = WriteHandles[k]
    BY <1>r
  <2>2. WriteHandles[k] \in Writers /\ WriterLive(WriteHandles[k])
    BY DEF IInv, TypeOK, ServerTypeOK, WritersLive
  <2> QED
    BY <1>3, <2>1, <2>2, KeepsLive DEF WriterLive, IsPipeClosed, Accepted
<1>10. OnlyListenersFed'
  BY DEF IInv, TypeOK, ServerTypeOK, WinTypeOK, OnlyListenersFed
<1> QED
  BY <1>1, <1>2, <1>4, <1>5, <1>6, <1>7, <1>8, <1>9, <1>10 DEF IInv, TypeOK

\* Writing a message, waiting to write it, and having waited change no more than
\* the feed of a listener that is there (WriteMessage).
LEMMA WritingInv ==
  ASSUME IInv,
         Flushing, writerIx > 0, ~Writer.freed, ~IsPipeClosed(Writer.Pipe),
         Deliver(Writer.Pipe, Outbox[msgIx]) \/ UNCHANGED pipeVars,
         \/ pc' = "flush" /\ writerIx' \in {writerIx, writerIx - 1}
         \/ pc' = "blocked" /\ writerIx' = writerIx,
         UNCHANGED <<ioVars, evVars, sends, ClosedHandles, WriteHandles, boxVars,
                     listenVars, batch, msgIx>>
  PROVE  IInv'
<1> USE PipeAssumption DEF pipeVars, ioVars, evVars, listenVars, boxVars, Deliver
<1>w. /\ Writer.Pipe \in Handles
      /\ Outbox[msgIx] \in Nat
      /\ asked[Writer.Pipe]
  <2>1. msgIx \in 1 .. Len(Outbox)
    BY DEF IInv, TypeOK, ServerTypeOK, LoopInv
  <2>2. writerIx \in DOMAIN WriteHandles /\ Writer \in Writers
    BY DEF IInv, TypeOK, ServerTypeOK, Writer
  <2>3. WriterLive(Writer)
    BY <2>2 DEF Writer, IInv, WritersLive
  <2> QED
    BY <2>1, <2>2, <2>3 DEF IInv, TypeOK, ServerTypeOK, Writers, WriterLive
<1>1. WinTypeOK'
  <2>1. WinTypeOK
    BY DEF IInv, TypeOK
  <2>2. Append(feed[Writer.Pipe], Outbox[msgIx]) \in Seq(Nat)
    BY <1>w, <2>1 DEF WinTypeOK
  <2> QED
    BY <2>1, <2>2 DEF WinTypeOK
<1>2. ServerTypeOK'
  BY DEF IInv, TypeOK, ServerTypeOK, WinTypeOK, LoopInv, PCs
<1>3. Keeps
  BY DEF IInv, TypeOK, ServerTypeOK, WinTypeOK, Keeps, Accepted
<1>4. LoopInv'
  BY DEF IInv, LoopInv, Flushing, Blocked, Writer, IsPipeClosed
<1>5. AcceptInv'
  BY DEF IInv, TypeOK, ServerTypeOK, WinTypeOK, AcceptInv, Accepted, IsPipeClosed,
         PCs, Flushing, Blocked
<1>6. ReadingInv'
  BY DEF IInv, TypeOK, ServerTypeOK, WinTypeOK, ReadingInv, IsPipeClosed
<1>7. ApcInv'
  BY <1>3, KeepsLive DEF IInv, TypeOK, ServerTypeOK, WinTypeOK, ApcInv
<1>8. UnreadInv'
  BY DEF IInv, TypeOK, ServerTypeOK, WinTypeOK, UnreadInv
<1>9. WritersLive'
  BY <1>3, KeepsLive DEF IInv, TypeOK, ServerTypeOK, WinTypeOK, WritersLive
<1>10. OnlyListenersFed'
  BY <1>w DEF IInv, TypeOK, ServerTypeOK, WinTypeOK, OnlyListenersFed
<1> QED
  BY <1>1, <1>2, <1>4, <1>5, <1>6, <1>7, <1>8, <1>9, <1>10 DEF IInv, TypeOK

\* So each of the three actions of WriteMessage keeps the invariant.
LEMMA WriteMessageInv ==
  ASSUME IInv, WriteMessage \/ WriteCompletes \/ WriteWoken
  PROVE  IInv'
<1>0. /\ writerIx \in Nat
      /\ Blocked => writerIx > 0 /\ ~Writer.freed /\ ~IsPipeClosed(Writer.Pipe)
  BY DEF IInv, TypeOK, ServerTypeOK, LoopInv
<1>1. CASE WriteMessage
  BY <1>1, WritingInv DEF WriteMessage, AtWriter, NextWriter, Flushing, pipeVars
<1>2. CASE WriteCompletes
  BY <1>0, <1>2, WritingInv DEF WriteCompletes, NextWriter, Flushing, Blocked
<1>3. CASE WriteWoken
  BY <1>0, <1>3, WritingInv DEF WriteWoken, Flushing, Blocked, loopVars
<1> QED
  BY <1>1, <1>2, <1>3

\* Appending an element keeps the others where they are.
LEMMA AppendKeeps ==
  ASSUME NEW S, NEW q \in Seq(S), NEW x \in S
  PROVE  /\ Append(q, x) \in Seq(S)
         /\ \A i \in DOMAIN Append(q, x) :
              (i \in DOMAIN q /\ Append(q, x)[i] = q[i]) \/ Append(q, x)[i] = x
OBVIOUS

\* Closing a pipe keeps what is known of every other handle, forgets what was
\* known of this one, and its handle value is remembered (DisconnectAndClose).
LEMMA DisconnectAndCloseFacts ==
  ASSUME WinTypeOK, ReadingInv, UnreadInv, OnlyListenersFed,
         ClosedHandles \subseteq Handles,
         NEW p, NEW q \in Seq(Apcs),
         DisconnectAndClose(p, q), listenPipe' = listenPipe, sends' = sends
  PROVE  /\ WinTypeOK'
         /\ ClosedHandles' \subseteq Handles
         /\ Keeps
         /\ ReadingInv'
         /\ UnreadInv'
         /\ OnlyListenersFed'
         /\ \A i \in DOMAIN apcs' :
              apcs'[i].Pipe \in ClosedHandles' \/ (i \in DOMAIN q /\ apcs'[i] = q[i])
         /\ \A h \in Handles \ {p} : state'[h] = state[h]
         /\ signaled' = signaled
         /\ connecting' # None => connecting' = connecting /\ state'[connecting] = state[connecting]
<1>1. CASE Open(p)
  <2> USE <1>1 DEF DisconnectAndClose, Close
  <2>1. p \in Handles /\ Failed(p) \in Apcs
    BY DEF Open, Failed, Apcs, RequestKinds
  <2>2. apcs' \in Seq(Apcs)
    BY <2>1
  <2>3. \A i \in DOMAIN apcs' :
          apcs'[i].Pipe \in ClosedHandles' \/ (i \in DOMAIN q /\ apcs'[i] = q[i])
    <3>1. Failed(p).Pipe = p /\ p \in ClosedHandles'
      BY <2>1 DEF Failed
    <3>2. apcs' = Append(q, Failed(p)) \/ apcs' = q
      OBVIOUS
    <3>3. \A i \in DOMAIN apcs' :
            (i \in DOMAIN q /\ apcs'[i] = q[i]) \/ apcs'[i] = Failed(p)
      BY ONLY <2>1, <3>2, AppendKeeps
    <3> QED
      BY ONLY <3>1, <3>3
  <2>4. WinTypeOK'
    <3>1. <<>> \in Seq(RequestKinds) /\ <<>> \in Seq(Nat)
      OBVIOUS
    <3> QED
      BY <2>1, <2>2, <3>1 DEF WinTypeOK, PipeStates
  <2>5. Keeps
    BY <2>1 DEF Keeps, Accepted, WinTypeOK
  <2>6. ReadingInv' /\ UnreadInv' /\ OnlyListenersFed'
    <3>1. ReadingInv'
      BY <2>1 DEF ReadingInv, IsPipeClosed, WinTypeOK
    <3>2. UnreadInv'
      <4>1. \A h \in Handles \ {p} : unread'[h] = unread[h] /\ asked'[h] = asked[h]
        BY <2>1 DEF WinTypeOK
      <4>2. unread'[p] = <<>> /\ DOMAIN <<>> = {}
        BY <2>1 DEF WinTypeOK
      <4> QED
        BY <4>1, <4>2 DEF UnreadInv
    <3>3. OnlyListenersFed'
      BY <2>1 DEF OnlyListenersFed, WinTypeOK
    <3> QED
      BY <3>1, <3>2, <3>3
  <2>7. connecting' # None => connecting' = connecting /\ state'[connecting] = state[connecting]
    BY <2>1 DEF WinTypeOK
  <2>8. \A h \in Handles \ {p} : state'[h] = state[h]
    BY <2>1 DEF WinTypeOK
  <2> QED
    BY <2>1, <2>3, <2>4, <2>5, <2>6, <2>7, <2>8
<1>2. CASE ~Open(p)
  <2> USE <1>2 DEF DisconnectAndClose, pipeVars, evVars
  <2>1. WinTypeOK' /\ Keeps
    BY DEF WinTypeOK, Keeps, Accepted
  <2>2. ReadingInv' /\ UnreadInv' /\ OnlyListenersFed'
    BY DEF ReadingInv, UnreadInv, OnlyListenersFed, IsPipeClosed
  <2> QED
    BY <2>1, <2>2
<1> QED
  BY <1>1, <1>2

\* A failed write closes the writer's pipe and leaves a deleted writer.
LEMMA WriteFailsInv ==
  ASSUME IInv, WriteFails
  PROVE  IInv'
<1> USE DEF WriteFails, AtWriter, NextWriter, listenVars, boxVars
<1>1. /\ writerIx \in DOMAIN WriteHandles
      /\ Writer \in Writers
      /\ Accepted(Writer.Pipe)
  BY DEF IInv, TypeOK, ServerTypeOK, Writer, WritersLive, WriterLive
<1>2. /\ WinTypeOK
      /\ apcs \in Seq(Apcs)
      /\ ClosedHandles \subseteq Handles
      /\ WriteHandles \in Seq(Writers)
  BY DEF IInv, TypeOK, ServerTypeOK, WinTypeOK
<1>3. /\ WinTypeOK'
      /\ ClosedHandles' \subseteq Handles
      /\ Keeps
      /\ ReadingInv' /\ UnreadInv' /\ OnlyListenersFed'
      /\ \A i \in DOMAIN apcs' :
           apcs'[i].Pipe \in ClosedHandles' \/ (i \in DOMAIN apcs /\ apcs'[i] = apcs[i])
      /\ \A h \in Handles \ {Writer.Pipe} : state'[h] = state[h]
      /\ signaled' = signaled
      /\ connecting' # None => connecting' = connecting /\ state'[connecting] = state[connecting]
  BY <1>2, DisconnectAndCloseFacts DEF IInv
<1>4. /\ WriteHandles' \in Seq(Writers)
      /\ Len(WriteHandles') = Len(WriteHandles)
      /\ \A i \in DOMAIN WriteHandles' :
           WriteHandles'[i].freed \/ WriteHandles'[i] = WriteHandles[i]
  <2> DEFINE w == [Writer EXCEPT !.freed = TRUE]
             s == WriteHandles
  <2>1. w \in Writers /\ w.freed
    BY <1>1 DEF Writers
  <2>2. s' = [s EXCEPT ![writerIx] = w]
    BY DEF Writer
  <2>3. writerIx \in 1 .. Len(s) /\ s \in Seq(Writers)
    BY <1>1, <1>2
  <2> HIDE DEF w
  <2>4. /\ [s EXCEPT ![writerIx] = w] \in Seq(Writers)
        /\ Len([s EXCEPT ![writerIx] = w]) = Len(s)
        /\ \A i \in 1 .. Len(s) :
             [s EXCEPT ![writerIx] = w][i] = IF i = writerIx THEN w ELSE s[i]
    BY ONLY <2>1, <2>3, ExceptSeq
  <2> QED
    BY <2>1, <2>2, <2>4
<1>5. ServerTypeOK'
  BY <1>2, <1>3, <1>4 DEF IInv, TypeOK, ServerTypeOK, PCs
<1>6. LoopInv'
  BY DEF IInv, LoopInv, Flushing, Blocked
<1>7. AcceptInv'
  BY <1>1, <1>3, PipeAssumption
     DEF IInv, TypeOK, ServerTypeOK, AcceptInv, Accepted, Writers
<1>8. ApcInv'
  BY <1>2, <1>3, KeepsLive DEF IInv, ApcInv, ApcLive, IsPipeClosed
<1>9. WritersLive'
  BY <1>2, <1>3, <1>4, KeepsLive DEF IInv, WritersLive, WriterLive
<1> QED
  BY <1>3, <1>5, <1>6, <1>7, <1>8, <1>9 DEF IInv, TypeOK

\* Stop takes the writers one by one and closes their pipes.
LEMMA StopWriterInv ==
  ASSUME IInv, StopWriter
  PROVE  IInv'
<1> DEFINE w == Head(WriteHandles)
<1> USE DEF StopWriter, listenVars, boxVars
<1>1. /\ WinTypeOK
      /\ apcs \in Seq(Apcs)
      /\ ClosedHandles \subseteq Handles
      /\ WriteHandles \in Seq(Writers)
  BY DEF IInv, TypeOK, ServerTypeOK, WinTypeOK
<1>2. /\ WriteHandles' \in Seq(Writers)
      /\ \A i \in DOMAIN WriteHandles' : WriteHandles'[i] = WriteHandles[i + 1]
      /\ \A i \in DOMAIN WriteHandles' : i + 1 \in DOMAIN WriteHandles
  BY <1>1
<1>3. /\ WinTypeOK'
      /\ ClosedHandles' \subseteq Handles
      /\ Keeps
      /\ ReadingInv' /\ UnreadInv' /\ OnlyListenersFed'
      /\ \A i \in DOMAIN apcs' :
           apcs'[i].Pipe \in ClosedHandles' \/ (i \in DOMAIN apcs /\ apcs'[i] = apcs[i])
      /\ connecting' # None => connecting' = connecting /\ state'[connecting] = state[connecting]
  <2>1. CASE w.freed
    BY <2>1, <1>1 DEF IInv, WinTypeOK, Keeps, Accepted, ReadingInv, UnreadInv,
       OnlyListenersFed, IsPipeClosed, pipeVars, ioVars, evVars
  <2>2. CASE ~w.freed
    BY <2>2, <1>1, DisconnectAndCloseFacts DEF IInv
  <2> QED
    BY <2>1, <2>2
<1>4. ServerTypeOK'
  BY <1>2, <1>3 DEF IInv, TypeOK, ServerTypeOK, LoopInv, Flushing, Blocked, PCs, loopVars
<1>5. LoopInv'
  BY DEF IInv, LoopInv, Flushing, Blocked, loopVars
<1>6. AcceptInv'
  BY <1>3, PipeAssumption DEF IInv, AcceptInv
<1>7. ApcInv'
  BY <1>1, <1>3, KeepsLive DEF IInv, ApcInv, ApcLive, IsPipeClosed
<1>8. WritersLive'
  BY <1>1, <1>2, <1>3, KeepsLive DEF IInv, WritersLive, WriterLive
<1> QED
  BY <1>3, <1>4, <1>5, <1>6, <1>7, <1>8 DEF IInv, TypeOK

\* Stop closes the accepting pipe, which nothing else refers to.
LEMMA StopListeningInv ==
  ASSUME IInv, StopListening
  PROVE  IInv'
<1> USE PipeAssumption DEF winVars, pipeVars, ioVars, evVars, listenVars, boxVars, StopListening, Open, Close
<1>a. apcs' = apcs
  BY DEF IInv, ReadingInv
<1>e. <<>> \in Seq(RequestKinds) /\ <<>> \in Seq(Nat) /\ DOMAIN <<>> = {}
  OBVIOUS
<1>1. WinTypeOK'
  <2>1. WinTypeOK
    BY DEF IInv, TypeOK
  <2>2. CASE listenPipe \in Handles
    <3>1. /\ state' \in [Handles -> PipeStates]
          /\ asked' \in [Handles -> BOOLEAN]
      BY <2>1, <2>2 DEF WinTypeOK, PipeStates
    <3>2. /\ unread' \in [Handles -> Seq(RequestKinds)]
          /\ feed' \in [Handles -> Seq(Nat)]
      BY <1>e, <2>1, <2>2, ZenonT(30) DEF WinTypeOK
    <3> QED
      BY <1>a, <2>1, <3>1, <3>2 DEF WinTypeOK
  <2>3. CASE listenPipe \notin Handles
    BY <2>1, <2>3 DEF WinTypeOK
  <2> QED
    BY <2>2, <2>3
<1>2. ServerTypeOK'
  BY DEF IInv, TypeOK, ServerTypeOK, WinTypeOK, PCs, loopVars
<1>3. Keeps
  BY DEF IInv, TypeOK, ServerTypeOK, WinTypeOK, Keeps, Accepted
<1>4. LoopInv'
  BY DEF IInv, TypeOK, ServerTypeOK, WinTypeOK, LoopInv, Flushing, Blocked, Writer, Writers, IsPipeClosed, loopVars
<1>5. AcceptInv'
  BY DEF IInv, TypeOK, ServerTypeOK, WinTypeOK, AcceptInv, Accepted, IsPipeClosed, PCs
<1>6. ReadingInv'
  BY DEF IInv, TypeOK, ServerTypeOK, WinTypeOK, ReadingInv, IsPipeClosed
<1>7. ApcInv'
  BY <1>3, <1>a, KeepsLive DEF IInv, TypeOK, ServerTypeOK, WinTypeOK, ApcInv
<1>8. UnreadInv'
  <2>1. \A g \in Handles \ {listenPipe} : unread'[g] = unread[g] /\ asked'[g] = asked[g]
    BY DEF IInv, TypeOK, WinTypeOK
  <2>2. listenPipe \in Handles => unread'[listenPipe] \in {<<>>, unread[listenPipe]}
    BY DEF IInv, TypeOK, WinTypeOK
  <2>3. listenPipe \in Handles => unread'[listenPipe] = <<>> \/ asked'[listenPipe] = asked[listenPipe]
    BY DEF IInv, TypeOK, WinTypeOK
  <2> QED
    BY <1>e, <2>1, <2>2, <2>3 DEF IInv, UnreadInv
<1>9. WritersLive'
  BY <1>3, KeepsLive DEF IInv, TypeOK, ServerTypeOK, WinTypeOK, WritersLive
<1>10. OnlyListenersFed'
  BY DEF IInv, TypeOK, ServerTypeOK, WinTypeOK, OnlyListenersFed
<1> QED
  BY <1>1, <1>2, <1>4, <1>5, <1>6, <1>7, <1>8, <1>9, <1>10 DEF IInv, TypeOK

\* The accepted pipe becomes the reader's, and another takes its place.
LEMMA HandleNewConnectionInv ==
  ASSUME IInv, HandleNewConnection
  PROVE  IInv'
<1> USE PipeAssumption DEF winVars, pipeVars, ioVars, evVars, listenVars, boxVars, HandleNewConnection, ListenForNewConnection, CreateNamedPipe, Creatable, Open, loopVars
<1>1. WinTypeOK'
  BY DEF IInv, TypeOK, ServerTypeOK, WinTypeOK, PipeStates
<1>2. ServerTypeOK'
  BY DEF IInv, TypeOK, ServerTypeOK, WinTypeOK, PCs, loopVars
<1>3. Keeps
  BY DEF IInv, TypeOK, ServerTypeOK, WinTypeOK, Keeps, Accepted
<1>4. LoopInv'
  BY DEF IInv, TypeOK, ServerTypeOK, WinTypeOK, LoopInv, Flushing, Blocked, Writer, Writers, IsPipeClosed, loopVars
<1>5. AcceptInv'
  BY DEF IInv, TypeOK, ServerTypeOK, WinTypeOK, AcceptInv, Accepted, IsPipeClosed, PCs
<1>6. ReadingInv'
  BY DEF IInv, TypeOK, ServerTypeOK, WinTypeOK, ReadingInv, IsPipeClosed
<1>7. ApcInv'
  BY <1>3, KeepsLive DEF IInv, TypeOK, ServerTypeOK, WinTypeOK, ApcInv
<1>8. UnreadInv'
  BY DEF IInv, TypeOK, ServerTypeOK, WinTypeOK, UnreadInv
<1>9. WritersLive'
  BY <1>3, KeepsLive DEF IInv, TypeOK, ServerTypeOK, WinTypeOK, WritersLive
<1>10. OnlyListenersFed'
  BY DEF IInv, TypeOK, ServerTypeOK, WinTypeOK, OnlyListenersFed
<1> QED
  BY <1>1, <1>2, <1>4, <1>5, <1>6, <1>7, <1>8, <1>9, <1>10 DEF IInv, TypeOK

\* A client that connects finds a pipe nothing refers to yet.
LEMMA ClientConnectInv ==
  ASSUME IInv, NEW h \in Handles, ClientConnect(h), UNCHANGED serverVars
  PROVE  IInv'
<1> USE PipeAssumption DEF winVars, pipeVars, ioVars, evVars, listenVars, boxVars, serverVars, ClientConnect, Open
<1>1. WinTypeOK'
  BY DEF IInv, TypeOK, ServerTypeOK, WinTypeOK, PipeStates
<1>2. ServerTypeOK'
  BY DEF IInv, TypeOK, ServerTypeOK, WinTypeOK, PCs, loopVars
<1>3. Keeps
  BY DEF IInv, TypeOK, ServerTypeOK, WinTypeOK, Keeps, Accepted
<1>4. LoopInv'
  BY DEF IInv, TypeOK, ServerTypeOK, WinTypeOK, LoopInv, Flushing, Blocked, Writer, Writers, IsPipeClosed, loopVars
<1>5. AcceptInv'
  BY DEF IInv, TypeOK, ServerTypeOK, WinTypeOK, AcceptInv, Accepted, IsPipeClosed, PCs
<1>6. ReadingInv'
  BY DEF IInv, TypeOK, ServerTypeOK, WinTypeOK, ReadingInv, IsPipeClosed
<1>7. ApcInv'
  BY <1>3, KeepsLive DEF IInv, TypeOK, ServerTypeOK, WinTypeOK, ApcInv
<1>8. UnreadInv'
  BY DEF IInv, TypeOK, ServerTypeOK, WinTypeOK, UnreadInv
<1>9. WritersLive'
  BY <1>3, KeepsLive DEF IInv, TypeOK, ServerTypeOK, WinTypeOK, WritersLive
<1>10. OnlyListenersFed'
  BY DEF IInv, TypeOK, ServerTypeOK, WinTypeOK, OnlyListenersFed
<1> QED
  BY <1>1, <1>2, <1>4, <1>5, <1>6, <1>7, <1>8, <1>9, <1>10 DEF IInv, TypeOK

\* A completion for "listener" comes after its client asked.
LEMMA ClientSendInv ==
  ASSUME IInv, NEW h \in Handles, NEW r \in Requests, ClientSend(h, r), Wake(h)
  PROVE  IInv'
<1> USE PipeAssumption DEF winVars, pipeVars, ioVars, evVars, listenVars, boxVars, ClientSend, Completed, Open
<1>a. /\ apcs' \in Seq(Apcs)
      /\ \A i \in DOMAIN apcs' :
           \/ i \in DOMAIN apcs /\ apcs'[i] = apcs[i]
           \/ h \in reading /\ apcs'[i] = Completed(h, r)
  <2>1. Completed(h, r) \in Apcs /\ apcs \in Seq(Apcs)
    BY DEF IInv, TypeOK, WinTypeOK, Apcs, RequestKinds
  <2>2. CASE h \in reading
    BY <2>1, <2>2
  <2>3. CASE h \notin reading
    BY <2>1, <2>3
  <2> QED
    BY <2>2, <2>3
<1>u. r \in RequestKinds /\ Append(unread[h], r) \in Seq(RequestKinds)
  BY DEF IInv, TypeOK, WinTypeOK
<1>k. /\ UNCHANGED <<ClosedHandles, WriteHandles, boxVars, listenVars, loopVars>>
      /\ pc' = pc \/ (pc = "blocked" /\ pc' = "woken")
  BY DEF Wake
<1> USE <1>k
<1>1. WinTypeOK'
  <2>1. WinTypeOK
    BY DEF IInv, TypeOK
  <2>2. unread' \in [Handles -> Seq(RequestKinds)]
    BY <1>u, <2>1 DEF WinTypeOK
  <2>3. asked' \in [Handles -> BOOLEAN] /\ reading' \subseteq Handles /\ sends' \in Nat
    BY <2>1 DEF WinTypeOK
  <2> QED
    BY <1>a, <2>1, <2>2, <2>3 DEF WinTypeOK, PipeStates
<1>2. ServerTypeOK'
  BY DEF IInv, TypeOK, ServerTypeOK, WinTypeOK, PCs, loopVars
<1>3. Keeps
  BY DEF IInv, TypeOK, ServerTypeOK, WinTypeOK, Keeps, Accepted
<1>4. LoopInv'
  BY DEF IInv, TypeOK, ServerTypeOK, WinTypeOK, LoopInv, Flushing, Blocked, Writer, Writers, IsPipeClosed, loopVars
<1>5. AcceptInv'
  BY DEF IInv, TypeOK, ServerTypeOK, WinTypeOK, AcceptInv, Accepted, IsPipeClosed, PCs
<1>6. ReadingInv'
  BY DEF IInv, TypeOK, ServerTypeOK, WinTypeOK, ReadingInv, IsPipeClosed
<1>7. ApcInv'
  <2>1. \A i \in DOMAIN apcs : apcs[i] \in Apcs
    BY DEF IInv, TypeOK, WinTypeOK
  <2>2. h \in reading => ApcLive(Completed(h, r))'
    BY DEF IInv, TypeOK, WinTypeOK, ReadingInv, ApcLive, Accepted, IsPipeClosed
  <2> QED
    BY <1>3, <1>a, <2>1, <2>2, KeepsLive DEF IInv, ApcInv, ApcLive, Accepted, IsPipeClosed
<1>8. UnreadInv'
  <2>1. \A g \in Handles \ {h} : unread'[g] = unread[g] /\ asked'[g] = asked[g]
    BY DEF IInv, TypeOK, WinTypeOK
  <2>2. \A i \in DOMAIN unread'[h] :
          (i \in DOMAIN unread[h] /\ unread'[h][i] = unread[h][i]) \/ unread'[h][i] = r
    <3>1. unread[h] \in Seq(RequestKinds)
      BY DEF IInv, TypeOK, WinTypeOK
    <3>2. unread'[h] \in {unread[h], Append(unread[h], r)}
      BY DEF IInv, TypeOK, WinTypeOK
    <3> QED
      BY ONLY <3>1, <3>2
  <2>3. asked'[h] = (asked[h] \/ r = "listener")
    BY DEF IInv, TypeOK, WinTypeOK
  <2>4. UnreadInv
    BY DEF IInv
  <2> QED
    BY ONLY <2>1, <2>2, <2>3, <2>4 DEF UnreadInv
<1>9. WritersLive'
  BY <1>3, KeepsLive DEF IInv, TypeOK, ServerTypeOK, WinTypeOK, WritersLive
<1>10. OnlyListenersFed'
  BY DEF IInv, TypeOK, ServerTypeOK, WinTypeOK, OnlyListenersFed
<1> QED
  BY <1>1, <1>2, <1>4, <1>5, <1>6, <1>7, <1>8, <1>9, <1>10 DEF IInv, TypeOK

\* A client that hangs up fails its own read only.
LEMMA ClientHangUpInv ==
  ASSUME IInv, NEW h \in Handles, ClientHangUp(h), UNCHANGED serverVars
  PROVE  IInv'
<1> USE PipeAssumption DEF winVars, pipeVars, ioVars, evVars, listenVars, boxVars, serverVars, ClientHangUp, Failed, Open
<1>a. /\ apcs' \in Seq(Apcs)
      /\ \A i \in DOMAIN apcs' :
           \/ i \in DOMAIN apcs /\ apcs'[i] = apcs[i]
           \/ h \in reading /\ apcs'[i] = Failed(h)
  <2>1. Failed(h) \in Apcs /\ apcs \in Seq(Apcs)
    BY DEF IInv, TypeOK, WinTypeOK, Apcs, RequestKinds
  <2>2. CASE h \in reading
    BY <2>1, <2>2
  <2>3. CASE h \notin reading
    BY <2>1, <2>3
  <2> QED
    BY <2>2, <2>3
<1>1. WinTypeOK'
  <2>1. WinTypeOK
    BY DEF IInv, TypeOK
  <2> QED
    BY <1>a, <2>1 DEF WinTypeOK, PipeStates
<1>2. ServerTypeOK'
  BY DEF IInv, TypeOK, ServerTypeOK, WinTypeOK, PCs, loopVars
<1>3. Keeps
  BY DEF IInv, TypeOK, ServerTypeOK, WinTypeOK, Keeps, Accepted
<1>4. LoopInv'
  BY DEF IInv, TypeOK, ServerTypeOK, WinTypeOK, LoopInv, Flushing, Blocked, Writer, Writers, IsPipeClosed, loopVars
<1>5. AcceptInv'
  BY DEF IInv, TypeOK, ServerTypeOK, WinTypeOK, AcceptInv, Accepted, IsPipeClosed, PCs
<1>6. ReadingInv'
  BY DEF IInv, TypeOK, ServerTypeOK, WinTypeOK, ReadingInv, IsPipeClosed
<1>7. ApcInv'
  <2>1. \A i \in DOMAIN apcs : apcs[i] \in Apcs
    BY DEF IInv, TypeOK, WinTypeOK
  <2>2. h \in reading => ApcLive(Failed(h))'
    BY DEF IInv, TypeOK, WinTypeOK, ReadingInv, ApcLive, Accepted, IsPipeClosed
  <2> QED
    BY <1>3, <1>a, <2>1, <2>2, KeepsLive DEF IInv, ApcInv, ApcLive, Accepted, IsPipeClosed
<1>8. UnreadInv'
  BY DEF IInv, TypeOK, ServerTypeOK, WinTypeOK, UnreadInv
<1>9. WritersLive'
  BY <1>3, KeepsLive DEF IInv, TypeOK, ServerTypeOK, WinTypeOK, WritersLive
<1>10. OnlyListenersFed'
  BY DEF IInv, TypeOK, ServerTypeOK, WinTypeOK, OnlyListenersFed
<1> QED
  BY <1>1, <1>2, <1>4, <1>5, <1>6, <1>7, <1>8, <1>9, <1>10 DEF IInv, TypeOK

\* HandleRead of a completion that is not stale registers a client that asked,
\* and either leaves a read outstanding or completed, or closes the pipe.
LEMMA HandleReadInv ==
  ASSUME IInv,
         NEW p, NEW err \in BOOLEAN, NEW request \in RequestKinds,
         NEW q \in Seq(Apcs),
         HandleRead(p, err, request, q),
         p \in Handles /\ ~IsPipeClosed(p) =>
           Accepted(p) /\ (request = "listener" => asked[p]),
         request = "listener" => p \in Handles,
         \A i \in DOMAIN q : ApcLive(q[i]),
         \/ pc = "apc" /\ pc' = "apc" /\ reader' = reader
         \/ pc = "firstRead" /\ pc' = "idle" /\ reader' = None
  PROVE  IInv'
<1> USE DEF HandleRead, boxVars, listenVars
<1> DEFINE new == [Pipe |-> p, freed |-> FALSE]
           AddsWriter == \/ WriteHandles' = WriteHandles
                         \/ /\ request = "listener"
                            /\ WriteHandles' = Append(WriteHandles, new)
<1>1. /\ WinTypeOK
      /\ ClosedHandles \subseteq Handles
      /\ WriteHandles \in Seq(Writers)
      /\ Outbox \in Seq(Nat)
      /\ posted \in Nat
      /\ \A i \in DOMAIN q : q[i] \in Apcs
  BY DEF IInv, TypeOK, ServerTypeOK
<1>2. /\ AddsWriter
      /\ Outbox' \in Seq(Nat)
      /\ posted' \in Nat
  <2>1. AddsWriter
    BY DEF Dispatch
  <2>2. (Outbox' = Outbox /\ posted' = posted)
          \/ (Outbox' = Append(Outbox, posted + 1) /\ posted' = posted + 1)
    BY DEF Dispatch
  <2>3. posted + 1 \in Nat /\ Append(Outbox, posted + 1) \in Seq(Nat)
    BY <1>1
  <2> QED
    BY <1>1, <2>1, <2>2, <2>3
<1>3. /\ WinTypeOK'
      /\ ClosedHandles' \subseteq Handles
      /\ Keeps
      /\ ReadingInv' /\ UnreadInv' /\ OnlyListenersFed'
      /\ \A i \in DOMAIN apcs' :
           \/ apcs'[i].Pipe \in ClosedHandles'
           \/ i \in DOMAIN q /\ apcs'[i] = q[i]
           \/ ApcLive(apcs[i])'
      /\ p \in ClosedHandles' \/ WriteHandles' = WriteHandles \/ WriterLive(new)'
      /\ \A h \in Handles \ {p} : state'[h] = state[h]
      /\ p \in Handles /\ p = listenPipe => p \in ClosedHandles
      /\ p \in ClosedHandles => state' = state
      /\ signaled' = signaled
      /\ connecting' # None => connecting' = connecting /\ state'[connecting] = state[connecting]
  <2>0. listenPipe' = listenPipe /\ sends' = sends
    OBVIOUS
  <2>1. CASE IsPipeClosed(p)
    <3>1. /\ UNCHANGED <<state, unread, asked, feed, reading, connecting, signaled>>
          /\ ClosedHandles' \subseteq ClosedHandles /\ ClosedHandles \subseteq ClosedHandles'
          /\ apcs' = q
      BY <1>1, <2>1, PipeAssumption DEF Erased, pipeVars, evVars
    <3>2. WinTypeOK' /\ Keeps
      BY <1>1, <2>0, <3>1 DEF WinTypeOK, Keeps, Accepted
    <3>3. ReadingInv' /\ UnreadInv' /\ OnlyListenersFed'
      BY <2>0, <3>1 DEF IInv, ReadingInv, UnreadInv, OnlyListenersFed, IsPipeClosed
    <3> QED
      BY <1>1, <1>2, <2>1, <3>1, <3>2, <3>3 DEF IsPipeClosed
  <2>2. CASE ~IsPipeClosed(p) /\ DisconnectAndClose(p, q)
    <3>1. /\ WinTypeOK'
          /\ ClosedHandles' \subseteq Handles
          /\ Keeps
          /\ ReadingInv' /\ UnreadInv' /\ OnlyListenersFed'
          /\ \A i \in DOMAIN apcs' :
               apcs'[i].Pipe \in ClosedHandles' \/ (i \in DOMAIN q /\ apcs'[i] = q[i])
          /\ \A h \in Handles \ {p} : state'[h] = state[h]
          /\ signaled' = signaled
          /\ connecting' # None => connecting' = connecting /\ state'[connecting] = state[connecting]
      BY <1>1, <2>0, <2>2, DisconnectAndCloseFacts DEF IInv
    <3>2. p \in Handles => p \in ClosedHandles'
      BY <2>2 DEF Accepted, DisconnectAndClose, Open
    <3>3. p \in Handles => p # listenPipe
      BY <2>2 DEF Accepted
    <3>4. WriteHandles' # WriteHandles => p \in Handles
      BY <1>2
    <3> QED
      BY <1>2, <2>2, <3>1, <3>2, <3>3, <3>4 DEF WriterLive, IsPipeClosed
  <2>3. CASE ~IsPipeClosed(p) /\ Readable(p) /\ ReadFileEx(p, q) /\ UNCHANGED ClosedHandles
    <3> USE <2>3 DEF ReadFileEx, evVars
    <3>1. /\ p \in Handles
          /\ Accepted(p)
          /\ request = "listener" => asked[p]
      BY DEF Readable
    <3>2. Keeps
      BY <2>0 DEF Keeps, Accepted
    <3>3. WriteHandles' = WriteHandles \/ WriterLive(new)'
      BY <2>0, <3>1, <1>2 DEF WriterLive, Accepted, IsPipeClosed
    <3>4. OnlyListenersFed'
      BY DEF IInv, OnlyListenersFed
    <3>5. CASE unread[p] # <<>>
      <4>0. PICK r : r = Head(unread[p])
        OBVIOUS
      <4>1. /\ Head(unread[p]) \in RequestKinds
            /\ Head(unread[p]) = "listener" => asked[p]
            /\ Tail(unread[p]) \in Seq(RequestKinds)
            /\ \A i \in DOMAIN Tail(unread[p]) :
                 i + 1 \in DOMAIN unread[p] /\ Tail(unread[p])[i] = unread[p][i + 1]
        BY <1>1, <3>1, <3>5 DEF WinTypeOK, IInv, UnreadInv
      <4>2. Completed(p, r) \in Apcs
        BY <3>1, <4>0, <4>1 DEF Completed, Apcs
      <4>3. WinTypeOK'
        <5>1. apcs' \in Seq(Apcs)
          BY <3>5, <4>0, <4>2
        <5>2. unread' \in [Handles -> Seq(RequestKinds)]
          BY <1>1, <3>5, <4>1 DEF WinTypeOK
        <5> QED
          BY <1>1, <2>0, <3>5, <5>1, <5>2 DEF WinTypeOK
      <4>4. ReadingInv' /\ UnreadInv'
        <5>1. ReadingInv'
          BY <2>0, <3>5 DEF IInv, ReadingInv, IsPipeClosed
        <5>2. \A h \in Handles \ {p} : unread'[h] = unread[h]
          BY <1>1, <3>5 DEF WinTypeOK
        <5>3. unread'[p] = Tail(unread[p]) /\ asked' = asked
          BY <1>1, <3>1, <3>5 DEF WinTypeOK
        <5>4. UnreadInv'
          BY <3>1, <4>1, <5>2, <5>3 DEF IInv, UnreadInv
        <5> QED
          BY <5>1, <5>4
      <4>5. ApcLive(Completed(p, r))'
        BY <2>0, <3>1, <4>0, <4>1 DEF ApcLive, Completed, Accepted, IsPipeClosed
      <4>6. \A i \in DOMAIN apcs' :
              (i \in DOMAIN q /\ apcs'[i] = q[i]) \/ apcs'[i] = Completed(p, r)
        BY <3>5, <4>0, <4>2
      <4>7. \A i \in DOMAIN apcs' :
              (i \in DOMAIN q /\ apcs'[i] = q[i]) \/ ApcLive(apcs[i])'
        BY <4>5, <4>6 DEF ApcLive, Accepted, IsPipeClosed
      <4> QED
        BY <1>1, <1>2, <3>1, <3>2, <3>3, <3>4, <3>5, <4>3, <4>4, <4>7 DEF Accepted
    <3>6. CASE unread[p] = <<>>
      <4>1. WinTypeOK' /\ UnreadInv'
        BY <1>1, <2>0, <3>1, <3>6 DEF WinTypeOK, IInv, UnreadInv
      <4>2. ReadingInv'
        BY <2>0, <3>1, <3>6 DEF IInv, ReadingInv, IsPipeClosed, Accepted, Readable
      <4> QED
        BY <1>1, <1>2, <3>1, <3>2, <3>3, <3>4, <3>6, <4>1, <4>2 DEF Accepted
    <3> QED
      BY <3>5, <3>6
  <2> QED
    BY <2>1, <2>2, <2>3
<1>4. /\ WriteHandles' \in Seq(Writers)
      /\ \A i \in DOMAIN WriteHandles' :
           \/ i \in DOMAIN WriteHandles /\ WriteHandles'[i] = WriteHandles[i]
           \/ WriteHandles' # WriteHandles /\ WriteHandles'[i] = new
      /\ Len(WriteHandles) <= Len(WriteHandles')
  <2>1. request = "listener" => new \in Writers
    BY DEF Writers
  <2>2. /\ WriteHandles \in Seq(Writers)
        /\ AddsWriter
    BY <1>1, <1>2
  <2> HIDE DEF new
  <2>3. CASE WriteHandles' = WriteHandles
    BY ONLY <2>2, <2>3
  <2>4. CASE request = "listener" /\ WriteHandles' = Append(WriteHandles, new)
    BY ONLY <2>1, <2>2, <2>4
  <2> QED
    BY <2>2, <2>3, <2>4
<1>5. ServerTypeOK'
  BY <1>1, <1>2, <1>3, <1>4 DEF IInv, TypeOK, ServerTypeOK, LoopInv, Flushing, Blocked, PCs, loopVars
<1>6. LoopInv'
  BY DEF IInv, LoopInv, Flushing, Blocked, loopVars
<1>7. AcceptInv'
  BY <1>3, PipeAssumption DEF IInv, TypeOK, ServerTypeOK, AcceptInv, Accepted, Keeps, IsPipeClosed
<1>8. ApcInv'
  BY <1>1, <1>3, KeepsLive DEF ApcInv, ApcLive, IsPipeClosed
<1>9. WritersLive'
  <2>1. \A i \in DOMAIN WriteHandles : WriterLive(WriteHandles[i]) /\ WriteHandles[i] \in Writers
    BY <1>1 DEF IInv, WritersLive
  <2>2. WriteHandles' # WriteHandles => WriterLive(new)'
    BY <1>3 DEF WriterLive, IsPipeClosed
  <2> QED
    BY <1>3, <1>4, <2>1, <2>2, KeepsLive DEF WritersLive, WriterLive, Accepted, IsPipeClosed
<1> QED
  BY <1>3, <1>5, <1>6, <1>7, <1>8, <1>9 DEF IInv, TypeOK

\* The first read of a reader, and the read after each completion.
LEMMA FirstReadInv ==
  ASSUME IInv, FirstRead
  PROVE  IInv'
<1>1. /\ HandleRead(reader, FALSE, "blank", apcs)
      /\ apcs \in Seq(Apcs)
      /\ reader \in Handles /\ ~IsPipeClosed(reader) => Accepted(reader)
      /\ \A i \in DOMAIN apcs : ApcLive(apcs[i])
      /\ pc = "firstRead" /\ pc' = "idle" /\ reader' = None
  BY DEF FirstRead, IInv, TypeOK, WinTypeOK, AcceptInv, ApcInv
<1>2. "blank" \in RequestKinds /\ FALSE \in BOOLEAN
  BY DEF RequestKinds
<1>3. PICK p, q : p = reader /\ q = apcs
  OBVIOUS
<1> QED
  BY <1>1, <1>2, <1>3, HandleReadInv

\* A completion routine that runs is the one of a reader that is there.
LEMMA RunApcInv ==
  ASSUME IInv, RunApc
  PROVE  IInv'
<1>1. PICK a, q : a = Head(apcs) /\ q = Tail(apcs)
  OBVIOUS
<1>2. apcs \in Seq(Apcs) /\ apcs # <<>> /\ ApcInv
  BY DEF RunApc, IInv, TypeOK, WinTypeOK
<1>3. /\ a \in Apcs
      /\ ApcLive(a)
      /\ q \in Seq(Apcs)
      /\ \A i \in DOMAIN q : ApcLive(q[i])
  <2>1. a = apcs[1] /\ 1 \in DOMAIN apcs /\ a \in Apcs
    BY <1>1, <1>2
  <2>2. /\ q \in Seq(Apcs)
        /\ \A i \in DOMAIN q : i + 1 \in DOMAIN apcs /\ q[i] = apcs[i + 1]
    BY <1>1, <1>2
  <2> QED
    BY <1>2, <2>1, <2>2 DEF ApcInv
<1>4. /\ HandleRead(a.Pipe, a.err, a.request, q)
      /\ pc = "apc" /\ pc' = "apc" /\ reader' = reader
  BY <1>1 DEF RunApc
<1>5. a.Pipe \in Handles /\ a.err \in BOOLEAN /\ a.request \in RequestKinds
  BY <1>3 DEF Apcs
<1> QED
  BY <1>3, <1>4, <1>5, HandleReadInv, ZenonT(30) DEF ApcLive

(***************************************************************************)
(* The theorems.                                                           *)
(***************************************************************************)

\* Every step of the server, the application or a client keeps the invariant.
LEMMA NextInv ==
  ASSUME IInv, [Next]_vars
  PROVE  IInv'
<1>1. CASE ServerStep
  BY <1>1, ConnectToPipeInv, StopWriterInv, StopListeningInv, QuietInv,
     SkipClosedInv, WriteMessageInv, WriteFailsInv,
     HandleNewConnectionInv, FirstReadInv, RunApcInv
     DEF ServerStep
<1>2. CASE AppStep
  BY <1>2, StartInv, QuietInv DEF AppStep
<1>3. CASE ClientStep
  BY <1>3, ClientConnectInv, ClientSendInv, ClientHangUpInv DEF ClientStep, Send
<1>4. CASE Crashed \/ UNCHANGED vars
  <2>1. UNCHANGED vars
    BY <1>4 DEF Crashed
  <2> QED
    BY <2>1 DEF vars, serverVars, winVars, pipeVars, ioVars, evVars, listenVars,
      boxVars, loopVars, IInv, TypeOK, WinTypeOK, ServerTypeOK, LoopInv, AcceptInv,
      ReadingInv, ApcInv, ApcLive, UnreadInv, WritersLive, WriterLive,
      OnlyListenersFed, Accepted, Open, IsPipeClosed, Flushing, Blocked, Writer
<1> QED
  BY <1>1, <1>2, <1>3, <1>4 DEF Next

\* The inductive invariant holds in every run of the server and its clients.
THEOREM Invariance == Spec => []IInv
BY InitInv, NextInv, PTL DEF Spec

\* Every variable keeps its type (NamedPipeServer::Impl and its globals).
THEOREM TypeCorrect == Spec => []TypeOK
<1>1. IInv => TypeOK
  BY DEF IInv
<1> QED
  BY <1>1, Invariance, PTL

\* Only clients that asked are written to, for any number of pipes, reuse of
\* handle values and restarts of the server (WriteAllMessages).
THEOREM FeedsOnlyListeners == Spec => []OnlyListenersFed
<1>1. IInv => OnlyListenersFed
  BY DEF IInv
<1> QED
  BY <1>1, Invariance, PTL

\* A write never goes to a closed handle or to another connection
\* (WriteMessage, IsPipeClosed).
THEOREM WritesToLivePipes == Spec => []WritersLive
<1>1. IInv => WritersLive
  BY DEF IInv
<1> QED
  BY <1>1, Invariance, PTL

\* A step that closes the pipe of a client that is there is a step of Stop, or
\* handles the failed read of an oversized request.
LEMMA HealthyStep ==
  ASSUME IInv, Next,
         NEW h \in Handles, state[h] = "connected", state'[h] = "closed"
  PROVE  \/ pc = "stopping"
         \/ pc = "apc" /\ Head(apcs) = Completed(h, "oversized")
<1>1. state \in [Handles -> PipeStates] /\ apcs \in Seq(Apcs) /\ ApcInv
  BY DEF IInv, TypeOK, WinTypeOK
<1>2. ASSUME NEW p, NEW q, NEW err, NEW request, HandleRead(p, err, request, q)
      PROVE  h = p /\ err /\ ~IsPipeClosed(p)
  BY <1>1, <1>2 DEF HandleRead, ReadFileEx, DisconnectAndClose, Close, Readable,
                    Open, pipeVars
<1>3. CASE ServerStep
  <2>1. CASE StopWriter \/ StopListening
    BY <2>1 DEF StopWriter, StopListening
  <2>2. CASE WriteFails
    BY <1>1, <2>2 DEF WriteFails, DisconnectAndClose, Close, pipeVars
  <2>3. CASE FirstRead
    BY <1>2, <2>3 DEF FirstRead
  <2>4. CASE RunApc
    <3>1. /\ Head(apcs) \in Apcs
          /\ ApcLive(Head(apcs))
      BY <1>1, <2>4 DEF RunApc, ApcInv
    <3>2. /\ pc = "apc"
          /\ Head(apcs).Pipe = h
          /\ Head(apcs).err
          /\ ~IsPipeClosed(Head(apcs).Pipe)
      BY <1>2, <2>4 DEF RunApc
    <3>3. Head(apcs).request = "oversized"
      BY <3>1, <3>2 DEF ApcLive
    <3> QED
      BY <3>1, <3>2, <3>3 DEF Apcs, Completed
  <2>5. CASE HandleNewConnection
    BY <1>1, <2>5 DEF HandleNewConnection, ListenForNewConnection, CreateNamedPipe,
                      pipeVars
  <2>6. CASE \/ ConnectToPipe \/ Tick \/ SkipClosed \/ WriteMessage
             \/ WriteCompletes \/ WriteAborts \/ WriteWoken \/ WriteFreed
             \/ NextMessage \/ FinishFlush \/ WaitTimesOut \/ StartApcs \/ EndApcs
    BY <2>6 DEF ConnectToPipe, Tick, SkipClosed, WriteMessage, WriteCompletes,
                WriteAborts, WriteWoken, WriteFreed, NextMessage, FinishFlush,
                WaitTimesOut, StartApcs, EndApcs, Deliver, winVars, pipeVars
  <2> QED
    BY <1>3, <2>1, <2>2, <2>3, <2>4, <2>5, <2>6 DEF ServerStep
<1>4. CASE AppStep \/ Crashed
  BY <1>1, <1>4 DEF AppStep, Crashed, Start, Stop, Write, ListenForNewConnection,
                    CreateNamedPipe, vars, winVars, pipeVars
<1>5. CASE ClientStep
  BY <1>1, <1>5 DEF ClientStep, ClientConnect, Send, ClientSend, ClientHangUp
<1> QED
  BY <1>3, <1>4, <1>5 DEF Next

\* No healthy connection is ever ended by a late completion for an older one on
\* the same handle value, or by a write (HandleRead, DisconnectAndClose).
THEOREM HealthyConnectionsLast == Spec => NoHealthyDisconnect
<1> DEFINE Healthy ==
      \A h \in Handles :
        state[h] = "connected" /\ state'[h] = "closed" =>
          \/ pc = "stopping"
          \/ pc = "apc" /\ Head(apcs) = Completed(h, "oversized")
<1>1. IInv /\ [Next]_vars => [Healthy]_vars
  BY HealthyStep
<1>2. Spec => [][Healthy]_vars
  BY <1>1, Invariance, PTL DEF Spec
<1> QED
  BY <1>2 DEF NoHealthyDisconnect

(***************************************************************************)
(* Every connection is read, and the next client will be noticed.          *)
(***************************************************************************)

\* A server that has not started owes nothing to anyone.
LEMMA InitServed == Init => ServedInv
BY PipeAssumption DEF Init, WinInit, ServerInit, ServedInv, ListeningInv, NoticingInv,
   EveryConnectionRead

\* The steps that touch neither a pipe's state, nor a read, nor the event.
LEMMA QuietServed ==
  ASSUME IInv, ServedInv,
         \/ Tick \/ Stop \/ WriteAborts \/ WriteFreed \/ NextMessage \/ FinishFlush
         \/ WaitTimesOut \/ StartApcs \/ EndApcs \/ Write \/ Crashed
         \/ SkipClosed \/ WriteMessage \/ WriteCompletes \/ WriteWoken
  PROVE  ServedInv'
<1> USE DEF winVars, pipeVars, ioVars, evVars, listenVars, boxVars
<1>1. UNCHANGED <<state, ioVars, evVars, listenPipe, reader>>
  BY DEF Tick, Stop, WriteAborts, WriteFreed, NextMessage, FinishFlush,
         WaitTimesOut, StartApcs, EndApcs, Write, Crashed, vars, serverVars,
         SkipClosed, WriteMessage, WriteCompletes, WriteWoken, Deliver
<1>2. ClosedHandles' = ClosedHandles
  BY PipeAssumption
     DEF IInv, TypeOK, ServerTypeOK, Erased, Tick, Stop, WriteAborts, WriteFreed,
         NextMessage, FinishFlush, WaitTimesOut, StartApcs, EndApcs, Write, Crashed,
         vars, serverVars, SkipClosed, WriteMessage, WriteCompletes, WriteWoken, Deliver
<1>3. \/ pc' = pc
      \/ pc' \in {"stopping", "crashed"}
      \/ pc \notin {"stopped", "connect", "stopping", "crashed"}
  BY DEF Tick, Stop, WriteAborts, WriteFreed, NextMessage, FinishFlush,
         WaitTimesOut, StartApcs, EndApcs, Write, Crashed, vars, serverVars,
         SkipClosed, WriteMessage, WriteCompletes, WriteWoken, Deliver, AtWriter
<1> QED
  BY <1>1, <1>2, <1>3 DEF ServedInv, ListeningInv, NoticingInv, EveryConnectionRead,
                         IsPipeClosed

\* Closing the pipe of a connection ends what is owed to it, and to no other.
LEMMA ClosingServed ==
  ASSUME WinTypeOK, NEW p, NEW q \in Seq(Apcs),
         DisconnectAndClose(p, q)
  PROVE  /\ \A h \in Handles :
              h # p => /\ state'[h] = state[h]
                       /\ h \in reading => h \in reading'
         /\ p \in Handles => state'[p] \notin {"listening", "connected", "broken"}
         /\ \A i \in DOMAIN q : i \in DOMAIN apcs' /\ apcs'[i] = q[i]
         /\ ClosedHandles \subseteq ClosedHandles'
         /\ signaled' = signaled
         /\ connecting' = connecting \/ connecting = p
<1>1. /\ \A h \in Handles : h # p => state'[h] = state[h] /\ (h \in reading => h \in reading')
      /\ p \in Handles => state'[p] \notin {"listening", "connected", "broken"}
      /\ ClosedHandles \subseteq ClosedHandles'
      /\ signaled' = signaled
      /\ connecting' = connecting \/ connecting = p
  BY DEF WinTypeOK, DisconnectAndClose, Close, Open, PipeStates, pipeVars, evVars
<1>2. apcs' = q \/ apcs' = Append(q, Failed(p))
  BY DEF DisconnectAndClose, Close
<1>3. \A i \in DOMAIN q : i \in DOMAIN apcs' /\ apcs'[i] = q[i]
  BY <1>2
<1> QED
  BY <1>1, <1>3

\* StartServer: the pipe it creates is the only one without a client.
LEMMA StartServed ==
  ASSUME IInv, ServedInv, Start
  PROVE  ServedInv'
<1>1. /\ listenPipe = INVALID
      /\ state \in [Handles -> PipeStates]
  BY DEF Start, IInv, TypeOK, WinTypeOK, AcceptInv
<1>2. /\ UNCHANGED <<ioVars, ClosedHandles, reader>>
      /\ signaled'
  BY DEF Start
<1>3. \A h \in Handles : state[h] # "listening"
  BY <1>1, PipeAssumption DEF ServedInv, ListeningInv
<1> USE DEF ServedInv, ListeningInv, NoticingInv, EveryConnectionRead, IsPipeClosed,
            ioVars
<1>4. CASE UNCHANGED pipeVars
  BY PipeAssumption, <1>1, <1>2, <1>3, <1>4 DEF pipeVars
<1>5. ASSUME NEW h \in Handles, CreateNamedPipe(h), listenPipe' = h
      PROVE  ServedInv'
  BY PipeAssumption, <1>1, <1>2, <1>3, <1>5 DEF CreateNamedPipe, Creatable
<1> QED
  BY <1>4, <1>5 DEF Start, ListenForNewConnection

\* ConnectNamedPipe: outstanding, or the event is set, or the client has gone.
LEMMA ConnectToPipeServed ==
  ASSUME IInv, ServedInv, ConnectToPipe
  PROVE  ServedInv'
<1>1. listenPipe \in Handles /\ state[listenPipe] \in {"listening", "connected", "broken"}
  BY DEF IInv, AcceptInv, ConnectToPipe, Open
<1> QED
  BY <1>1 DEF ConnectToPipe, SetsEvent, ServedInv, ListeningInv, NoticingInv,
       EveryConnectionRead, IsPipeClosed, ioVars, pipeVars

\* A failed write closes an accepted pipe, not the one that is accepting.
LEMMA WriteFailsServed ==
  ASSUME IInv, ServedInv, WriteFails
  PROVE  ServedInv'
<1>1. WinTypeOK /\ apcs \in Seq(Apcs) /\ DisconnectAndClose(Writer.Pipe, apcs)
  BY DEF IInv, TypeOK, WinTypeOK, WriteFails
<1>2. /\ Writer.Pipe \in Handles
      /\ Accepted(Writer.Pipe)
      /\ connecting # Writer.Pipe
  <2>1. writerIx \in DOMAIN WriteHandles /\ Writer \in Writers
    BY DEF WriteFails, AtWriter, IInv, TypeOK, ServerTypeOK, Writer
  <2>2. WriterLive(Writer)
    BY <2>1 DEF Writer, IInv, WritersLive
  <2>3. Writer.Pipe \in Handles /\ Accepted(Writer.Pipe)
    BY <2>1, <2>2 DEF WriteFails, Writers, WriterLive
  <2> QED
    BY <2>3, PipeAssumption DEF IInv, AcceptInv, Accepted
<1>3. PICK p : p = Writer.Pipe
  OBVIOUS
<1>4. /\ \A h \in Handles :
           h # p => state'[h] = state[h] /\ (h \in reading => h \in reading')
      /\ state'[p] \notin {"listening", "connected", "broken"}
      /\ \A i \in DOMAIN apcs : i \in DOMAIN apcs' /\ apcs'[i] = apcs[i]
      /\ ClosedHandles \subseteq ClosedHandles'
      /\ signaled' = signaled
      /\ connecting' = connecting
  BY <1>1, <1>2, <1>3, ClosingServed
<1>5. /\ UNCHANGED <<listenPipe, reader>>
      /\ pc = "flush"
      /\ p # listenPipe
  BY <1>2, <1>3 DEF WriteFails, AtWriter, listenVars, Accepted
<1> QED
  BY <1>4, <1>5 DEF ServedInv, ListeningInv, NoticingInv, EveryConnectionRead, IsPipeClosed

\* Stop owes nothing to the connection it closes.
LEMMA StopWriterServed ==
  ASSUME IInv, ServedInv, StopWriter
  PROVE  ServedInv'
<1>1. WinTypeOK /\ apcs \in Seq(Apcs)
  BY DEF IInv, TypeOK, WinTypeOK
<1>2. PICK p : p = Head(WriteHandles).Pipe
  OBVIOUS
<1>3. /\ UNCHANGED <<listenPipe, reader>>
      /\ pc' \in {"stopping", "crashed"}
  BY DEF StopWriter, listenVars
<1>4. CASE DisconnectAndClose(p, apcs)
  <2>1. /\ \A h \in Handles :
           h # p => state'[h] = state[h] /\ (h \in reading => h \in reading')
        /\ p \in Handles => state'[p] \notin {"listening", "connected", "broken"}
        /\ \A i \in DOMAIN apcs : i \in DOMAIN apcs' /\ apcs'[i] = apcs[i]
        /\ ClosedHandles \subseteq ClosedHandles'
    BY <1>1, <1>4, ClosingServed
  <2> QED
    BY <1>3, <2>1 DEF ServedInv, ListeningInv, NoticingInv, EveryConnectionRead, IsPipeClosed
<1>5. CASE UNCHANGED <<pipeVars, ioVars, evVars, ClosedHandles>>
  BY <1>3, <1>5 DEF ServedInv, ListeningInv, NoticingInv, EveryConnectionRead,
                    IsPipeClosed, pipeVars, ioVars
<1> QED
  BY <1>2, <1>4, <1>5 DEF StopWriter

\* Afterwards no pipe is waiting for a client.
LEMMA StopListeningServed ==
  ASSUME IInv, ServedInv, StopListening
  PROVE  ServedInv'
BY PipeAssumption, ZenonT(30)
   DEF IInv, TypeOK, WinTypeOK, PipeStates, ServedInv, ListeningInv, NoticingInv, EveryConnectionRead,
       StopListening, Close, Open, IsPipeClosed, pipeVars, ioVars, ReadingInv

\* The pipe that is accepted passes to the reader; the new one has no client.
LEMMA HandleNewConnectionServed ==
  ASSUME IInv, ServedInv, HandleNewConnection
  PROVE  ServedInv'
<1>1. /\ reader = None
      /\ state \in [Handles -> PipeStates]
      /\ listenPipe \in Handles => state[listenPipe] \in {"connected", "broken"}
  BY DEF IInv, TypeOK, WinTypeOK, AcceptInv, HandleNewConnection
<1>2. /\ UNCHANGED <<ioVars, evVars, ClosedHandles>>
      /\ signaled
  BY DEF HandleNewConnection
<1> USE DEF ServedInv, ListeningInv, NoticingInv, EveryConnectionRead, IsPipeClosed,
            ioVars, evVars
<1>3. CASE UNCHANGED <<pipeVars, listenPipe, reader>>
  BY <1>2, <1>3 DEF pipeVars, HandleNewConnection
<1>4. CASE reader' = listenPipe /\ ListenForNewConnection("firstRead")
  <2>1. CASE UNCHANGED pipeVars
    BY PipeAssumption, <1>1, <1>2, <1>4, <2>1 DEF pipeVars, ListenForNewConnection
  <2>2. ASSUME NEW h \in Handles, CreateNamedPipe(h), listenPipe' = h, pc' = "connect"
        PROVE  ServedInv'
    BY PipeAssumption, <1>1, <1>2, <1>4, <2>2 DEF CreateNamedPipe, Creatable
  <2> QED
    BY <1>4, <2>1, <2>2 DEF ListenForNewConnection
<1> QED
  BY <1>3, <1>4 DEF HandleNewConnection

\* The accepting pipe is the only one a client can open, and its event is set.
LEMMA ClientConnectServed ==
  ASSUME IInv, ServedInv, NEW h \in Handles, ClientConnect(h), UNCHANGED serverVars
  PROVE  ServedInv'
BY PipeAssumption
   DEF IInv, TypeOK, WinTypeOK, ServedInv, ListeningInv, NoticingInv, EveryConnectionRead,
       ClientConnect, IsPipeClosed, ioVars, evVars, serverVars, listenVars

\* The read that a message completes moves to the queue of completions.
LEMMA ClientSendServed ==
  ASSUME IInv, ServedInv, NEW h \in Handles, NEW r \in Requests, ClientSend(h, r), Wake(h)
  PROVE  ServedInv'
<1>1. /\ UNCHANGED <<state, evVars, listenPipe, reader, ClosedHandles>>
      /\ pc' = pc \/ (pc = "blocked" /\ pc' = "woken")
  BY DEF ClientSend, Wake, listenVars
<1>2. /\ \A g \in reading : g \in reading' \/ g = h
      /\ \A i \in DOMAIN apcs : i \in DOMAIN apcs' /\ apcs'[i] = apcs[i]
      /\ h \in reading => \E i \in DOMAIN apcs' : apcs'[i].Pipe = h
  <2>1. CASE h \in reading
    <3>1. apcs \in Seq(Apcs) /\ apcs' = Append(apcs, Completed(h, r))
      BY <2>1 DEF ClientSend, IInv, TypeOK, WinTypeOK
    <3>2. Len(apcs) + 1 \in DOMAIN apcs' /\ apcs'[Len(apcs) + 1] = Completed(h, r)
      BY <3>1
    <3> QED
      BY <2>1, <3>1, <3>2 DEF ClientSend, Completed
  <2>2. CASE h \notin reading
    BY <2>2 DEF ClientSend, ioVars
  <2> QED
    BY <2>1, <2>2
<1> QED
  BY <1>1, <1>2 DEF evVars, ServedInv, ListeningInv, NoticingInv, EveryConnectionRead, IsPipeClosed

\* So does the read that fails when the client hangs up.
LEMMA ClientHangUpServed ==
  ASSUME IInv, ServedInv, NEW h \in Handles, ClientHangUp(h), UNCHANGED serverVars
  PROVE  ServedInv'
<1>1. /\ UNCHANGED <<pc, evVars, listenPipe, reader, ClosedHandles>>
      /\ state \in [Handles -> PipeStates]
      /\ state[h] = "connected"
      /\ state' = [state EXCEPT ![h] = "broken"]
  BY DEF ClientHangUp, serverVars, listenVars, IInv, TypeOK, WinTypeOK
<1>2. /\ \A g \in reading : g \in reading' \/ g = h
      /\ \A i \in DOMAIN apcs : i \in DOMAIN apcs' /\ apcs'[i] = apcs[i]
      /\ h \in reading => \E i \in DOMAIN apcs' : apcs'[i].Pipe = h
  <2>1. CASE h \in reading
    <3>1. apcs \in Seq(Apcs) /\ apcs' = Append(apcs, Failed(h))
      BY <2>1 DEF ClientHangUp, IInv, TypeOK, WinTypeOK
    <3>2. Len(apcs) + 1 \in DOMAIN apcs' /\ apcs'[Len(apcs) + 1] = Failed(h)
      BY <3>1
    <3> QED
      BY <2>1, <3>1, <3>2 DEF ClientHangUp, Failed
  <2>2. CASE h \notin reading
    BY <2>2 DEF ClientHangUp, ioVars
  <2> QED
    BY <2>1, <2>2
<1> QED
  BY <1>1, <1>2 DEF evVars, ServedInv, ListeningInv, NoticingInv, EveryConnectionRead, IsPipeClosed

\* HandleRead of the next completion, or as the first read, leaves the connection
\* it is for with a read, or closes it.
LEMMA HandleReadServed ==
  ASSUME IInv, ServedInv,
         NEW p, NEW err \in BOOLEAN, NEW request \in RequestKinds,
         NEW q \in Seq(Apcs),
         HandleRead(p, err, request, q),
         p \in Handles /\ ~IsPipeClosed(p) => Accepted(p),
         \A h \in Handles \ {p} :
           h \in {listenPipe, reader} \/ h \in reading \/ (\E i \in DOMAIN apcs : apcs[i].Pipe = h)
             => h \in {listenPipe, reader'} \/ h \in reading \/ (\E i \in DOMAIN q : q[i].Pipe = h),
         \/ pc = "apc" /\ pc' = "apc"
         \/ pc = "firstRead" /\ pc' = "idle"
  PROVE  ServedInv'
<1>1. WinTypeOK /\ ClosedHandles \subseteq Handles /\ AcceptInv
  BY DEF IInv, TypeOK, ServerTypeOK
<1>2. listenPipe' = listenPipe
  BY DEF HandleRead
<1>3. CASE IsPipeClosed(p)
  <2>1. ClosedHandles' = ClosedHandles /\ UNCHANGED <<state, reading, connecting, signaled>>
        /\ apcs' = q
    BY <1>1, <1>3, PipeAssumption DEF HandleRead, Erased, pipeVars, evVars
  <2> QED
    BY <1>2, <1>3, <2>1 DEF ServedInv, ListeningInv, NoticingInv, EveryConnectionRead, IsPipeClosed
<1>4. CASE ~IsPipeClosed(p) /\ DisconnectAndClose(p, q)
  <2>1. /\ \A h \in Handles :
              h # p => state'[h] = state[h] /\ (h \in reading => h \in reading')
        /\ p \in Handles => state'[p] \notin {"listening", "connected", "broken"}
        /\ \A i \in DOMAIN q : i \in DOMAIN apcs' /\ apcs'[i] = q[i]
        /\ ClosedHandles \subseteq ClosedHandles'
        /\ signaled' = signaled
        /\ connecting' = connecting \/ connecting = p
    BY <1>1, <1>4, ClosingServed
  <2>2. connecting' = connecting
    <3>1. CASE p \in Handles
      BY <1>1, <1>4, <2>1, <3>1, PipeAssumption DEF AcceptInv, Accepted, WinTypeOK
    <3>2. CASE p \notin Handles
      BY <1>4, <3>2 DEF DisconnectAndClose, Open, evVars
    <3> QED
      BY <3>1, <3>2
  <2>3. listenPipe \in Handles => listenPipe # p
    BY <1>4 DEF Accepted
  <2> QED
    BY <1>2, <2>1, <2>2, <2>3 DEF ServedInv, ListeningInv, NoticingInv, EveryConnectionRead, IsPipeClosed
<1>5. CASE ReadFileEx(p, q) /\ UNCHANGED ClosedHandles
  <2>1. /\ UNCHANGED <<state, connecting, signaled>>
        /\ reading \subseteq reading'
        /\ apcs' \in {q, Append(q, Completed(p, Head(unread[p])))}
        /\ p \in reading' \/ apcs' = Append(q, Completed(p, Head(unread[p])))
    BY <1>5 DEF ReadFileEx, evVars
  <2>2. \A i \in DOMAIN q : i \in DOMAIN apcs' /\ apcs'[i] = q[i]
    BY <2>1
  <2>3. p \in reading' \/ \E i \in DOMAIN apcs' : apcs'[i].Pipe = p
    <3>1. CASE apcs' = Append(q, Completed(p, Head(unread[p])))
      <4>1. Len(q) + 1 \in DOMAIN apcs' /\ apcs'[Len(q) + 1] = Completed(p, Head(unread[p]))
        BY <3>1
      <4> QED
        BY <4>1 DEF Completed
    <3> QED
      BY <2>1, <3>1
  <2> QED
    BY <1>2, <1>5, <2>1, <2>2, <2>3
       DEF ServedInv, ListeningInv, NoticingInv, EveryConnectionRead, IsPipeClosed
<1> QED
  BY <1>3, <1>4, <1>5 DEF HandleRead

\* The reader's connection gets its read when the reader is forgotten.
LEMMA FirstReadServed ==
  ASSUME IInv, ServedInv, FirstRead
  PROVE  ServedInv'
<1>1. /\ HandleRead(reader, FALSE, "blank", apcs)
      /\ apcs \in Seq(Apcs)
      /\ reader \in Handles /\ ~IsPipeClosed(reader) => Accepted(reader)
      /\ pc = "firstRead" /\ pc' = "idle"
  BY DEF FirstRead, IInv, TypeOK, WinTypeOK, AcceptInv
<1>2. "blank" \in RequestKinds /\ FALSE \in BOOLEAN
  BY DEF RequestKinds
<1>3. PICK p, q : p = reader /\ q = apcs
  OBVIOUS
<1> QED
  BY <1>1, <1>2, <1>3, HandleReadServed

\* The connection of the completion that is handled gets its next read.
LEMMA RunApcServed ==
  ASSUME IInv, ServedInv, RunApc
  PROVE  ServedInv'
<1>1. PICK a, q : a = Head(apcs) /\ q = Tail(apcs)
  OBVIOUS
<1>2. apcs \in Seq(Apcs) /\ apcs # <<>> /\ ApcInv
  BY DEF RunApc, IInv, TypeOK, WinTypeOK
<1>3. a = apcs[1] /\ 1 \in DOMAIN apcs /\ a \in Apcs /\ ApcLive(a)
  BY <1>1, <1>2 DEF ApcInv
<1>4. /\ q \in Seq(Apcs)
      /\ \A i \in DOMAIN apcs : i # 1 => i - 1 \in DOMAIN q /\ q[i - 1] = apcs[i]
  BY <1>1, <1>2
<1>5. /\ HandleRead(a.Pipe, a.err, a.request, q)
      /\ pc = "apc" /\ pc' = "apc" /\ reader' = reader
  BY <1>1 DEF RunApc
<1>6. a.Pipe \in Handles /\ a.err \in BOOLEAN /\ a.request \in RequestKinds
  BY <1>3 DEF Apcs
<1>7. \A h \in Handles \ {a.Pipe} :
         (\E i \in DOMAIN apcs : apcs[i].Pipe = h) => \E i \in DOMAIN q : q[i].Pipe = h
  BY <1>3, <1>4
<1>8. \A h \in Handles \ {a.Pipe} :
         h \in {listenPipe, reader} \/ h \in reading \/ (\E i \in DOMAIN apcs : apcs[i].Pipe = h)
           => h \in {listenPipe, reader'} \/ h \in reading \/ (\E i \in DOMAIN q : q[i].Pipe = h)
  BY <1>5, <1>7
<1>9. ~IsPipeClosed(a.Pipe) => Accepted(a.Pipe)
  BY <1>3 DEF ApcLive
<1>10. PICK p \in Handles, e \in BOOLEAN, r \in RequestKinds :
           p = a.Pipe /\ e = a.err /\ r = a.request
  BY <1>6
<1>11. /\ HandleRead(p, e, r, q)
       /\ ~IsPipeClosed(p) => Accepted(p)
       /\ \A h \in Handles \ {p} :
            h \in {listenPipe, reader} \/ h \in reading \/ (\E i \in DOMAIN apcs : apcs[i].Pipe = h)
              => h \in {listenPipe, reader'} \/ h \in reading \/ (\E i \in DOMAIN q : q[i].Pipe = h)
  BY <1>5, <1>8, <1>9, <1>10
<1> QED
  BY <1>4, <1>5, <1>11, HandleReadServed

\* Every step of the server, the application or a client keeps both.
LEMMA NextServed ==
  ASSUME IInv, ServedInv, [Next]_vars
  PROVE  ServedInv'
<1>1. CASE ServerStep
  BY <1>1, ConnectToPipeServed, StopWriterServed, StopListeningServed, QuietServed,
     WriteFailsServed, HandleNewConnectionServed, FirstReadServed, RunApcServed
     DEF ServerStep
<1>2. CASE AppStep
  BY <1>2, StartServed, QuietServed DEF AppStep
<1>3. CASE ClientStep
  BY <1>3, ClientConnectServed, ClientSendServed, ClientHangUpServed DEF ClientStep, Send
<1>4. CASE Crashed \/ UNCHANGED vars
  <2>1. UNCHANGED vars
    BY <1>4 DEF Crashed
  <2> QED
    BY <2>1 DEF vars, serverVars, winVars, pipeVars, ioVars, evVars, listenVars,
       ServedInv, ListeningInv, NoticingInv, EveryConnectionRead, IsPipeClosed
<1> QED
  BY <1>1, <1>2, <1>3, <1>4 DEF Next

\* What is owed to connections and to the next client is never forgotten.
LEMMA ServedInvariance == Spec => []ServedInv
BY InitServed, NextServed, Invariance, PTL DEF Spec

\* No client the server has accepted is left talking to nobody, unless its handle
\* value is still listed as closed (HandleNewConnection, HandleRead).
THEOREM ConnectionsRead == Spec => []EveryConnectionRead
<1>1. ServedInv => EveryConnectionRead
  BY DEF ServedInv
<1> QED
  BY <1>1, ServedInvariance, PTL

\* Between two ticks a running server has its event set or a ConnectNamedPipe
\* outstanding, unless a client hung up first (ConnectToPipe).
THEOREM NextClientNoticed == Spec => []DeafOnlyByHangUp
<1>1. ServedInv => DeafOnlyByHangUp
  BY DEF ServedInv, NoticingInv, DeafOnlyByHangUp
<1> QED
  BY <1>1, ServedInvariance, PTL
(***************************************************************************)
(* The feed: NamedPipesServer implements ListenerFeed.                     *)
(***************************************************************************)

\* What Append leaves where it is, and what it adds.
LEMMA AppendFacts ==
  ASSUME NEW S, NEW s \in Seq(S), NEW x \in S
  PROVE  /\ Append(s, x) \in Seq(S)
         /\ Len(s) \in Nat
         /\ DOMAIN s = 1 .. Len(s)
         /\ DOMAIN Append(s, x) = 1 .. Len(s) + 1
         /\ Len(Append(s, x)) = Len(s) + 1
         /\ \A i \in DOMAIN s : i \in DOMAIN Append(s, x) /\ Append(s, x)[i] = s[i]
         /\ Append(s, x)[Len(s) + 1] = x
         /\ \A i \in DOMAIN Append(s, x) : i \in DOMAIN s \/ i = Len(s) + 1
OBVIOUS

\* The rest of a queue that is not empty.
LEMMA TailFacts ==
  ASSUME NEW S, NEW s \in Seq(S), s # <<>>
  PROVE  /\ Head(s) = s[1] /\ Head(s) \in S /\ 1 \in DOMAIN s
         /\ Tail(s) \in Seq(S)
         /\ Len(s) \in Nat \ {0}
         /\ Len(Tail(s)) = Len(s) - 1
         /\ \A i \in DOMAIN Tail(s) : i + 1 \in DOMAIN s /\ Tail(s)[i] = s[i + 1]
         /\ \A i \in DOMAIN s : i # 1 => i - 1 \in DOMAIN Tail(s) /\ Tail(s)[i - 1] = s[i]
OBVIOUS

\* What is added to a sequence is all that is new in it.
LEMMA AppendHas ==
  ASSUME NEW S, NEW s \in Seq(S), NEW x \in S, NEW X
  PROVE  /\ Has(Append(s, x), X) <=> Has(s, X) \/ x \in X
         /\ Once(s, X) /\ (x \in X => ~Has(s, X)) => Once(Append(s, x), X)
<1>1. PICK t \in Seq(S) : t = Append(s, x)
  BY AppendFacts
<1>2. /\ Len(s) \in Nat
      /\ DOMAIN s = 1 .. Len(s)
      /\ \A i \in DOMAIN s : i \in DOMAIN t /\ t[i] = s[i]
      /\ Len(s) + 1 \in DOMAIN t /\ t[Len(s) + 1] = x
      /\ \A i \in DOMAIN t : i \in DOMAIN s \/ i = Len(s) + 1
  BY <1>1, AppendFacts
<1>3. Has(t, X) <=> Has(s, X) \/ x \in X
  BY <1>2 DEF Has
<1>4. Once(s, X) /\ (x \in X => ~Has(s, X)) => Once(t, X)
  BY <1>2 DEF Has, Once
<1> QED
  BY <1>1, <1>3, <1>4

\* Of a queue that is not empty, the head and the rest have all.
LEMMA TailHas ==
  ASSUME NEW S, NEW s \in Seq(S), s # <<>>, NEW X
  PROVE  /\ Has(s, X) <=> Head(s) \in X \/ Has(Tail(s), X)
         /\ Once(s, X) => Once(Tail(s), X) /\ (Head(s) \in X => ~Has(Tail(s), X))
<1>1. PICK t \in Seq(S) : t = Tail(s)
  BY TailFacts
<1>2. /\ Head(s) = s[1] /\ 1 \in DOMAIN s
      /\ \A i \in DOMAIN t : i + 1 \in DOMAIN s /\ t[i] = s[i + 1]
      /\ \A i \in DOMAIN s : i # 1 => i - 1 \in DOMAIN t /\ t[i - 1] = s[i]
      /\ \A i \in DOMAIN t : i \in Nat \ {0}
  BY <1>1, TailFacts
<1>3. Has(s, X) <=> s[1] \in X \/ Has(t, X)
  BY <1>2 DEF Has
<1>4. ASSUME Once(s, X)
      PROVE  Once(t, X)
  BY <1>2, <1>4 DEF Once
<1>5. ASSUME Once(s, X), s[1] \in X
      PROVE  ~Has(t, X)
  BY <1>2, <1>5 DEF Once, Has
<1> QED
  BY <1>1, <1>2, <1>3, <1>4, <1>5

\* What is no wish of the client of h makes none when it is queued.
LEMMA NoWish ==
  ASSUME NEW h, NEW q \in Seq(Apcs),
         apcs' = q \/ \E x \in Apcs : x \notin Wishes(h) /\ apcs' = Append(q, x)
  PROVE  /\ Has(apcs', Wishes(h)) => Has(q, Wishes(h))
         /\ Once(q, Wishes(h)) => Once(apcs', Wishes(h))
<1>1. ASSUME NEW x \in Apcs, x \notin Wishes(h)
      PROVE  /\ Has(Append(q, x), Wishes(h)) => Has(q, Wishes(h))
             /\ Once(q, Wishes(h)) => Once(Append(q, x), Wishes(h))
  <2>1. PICK X : X = Wishes(h)
    OBVIOUS
  <2>2. /\ Has(Append(q, x), X) <=> Has(q, X) \/ x \in X
        /\ Once(q, X) /\ (x \in X => ~Has(q, X)) => Once(Append(q, x), X)
    BY AppendHas
  <2> QED
    BY <1>1, <2>1, <2>2
<1> QED
  BY <1>1

\* Nor is what is queued for one pipe a wish of another's client, or a read that failed.
LEMMA WishesOfOthers ==
  ASSUME NEW p \in Handles, NEW h \in Handles
  PROVE  /\ Failed(p) \in Apcs /\ Failed(p) \notin Wishes(h)
         /\ \A x \in Apcs : x.Pipe # h => x \notin Wishes(h)
  BY DEF Failed, Apcs, RequestKinds, Wishes

\* The pipes of two states have the same clients, requests and reads, but for p.
Alike(p) ==
  \A h \in Handles \ {p} :
    /\ state'[h] = state[h]
    /\ unread'[h] = unread[h]
    /\ asked'[h] = asked[h]
    /\ feed'[h] = feed[h]
    /\ h \in reading' <=> h \in reading

\* Closing a pipe ends its client, what it has sent and what it was sent, and no
\* other's; a read of it fails (DisconnectNamedPipe, CloseHandle).
LEMMA CloseFacts ==
  ASSUME WinTypeOK, NEW p \in Handles, NEW q \in Seq(Apcs), Close(p, q), sends' = sends
  PROVE  /\ WinTypeOK' /\ Alike(p)
         /\ state'[p] = "closed" /\ unread'[p] = <<>> /\ ~asked'[p] /\ feed'[p] = <<>>
         /\ apcs' = q \/ apcs' = Append(q, Failed(p))
         /\ p \notin reading'
<1>1. /\ state \in [Handles -> PipeStates]
      /\ unread \in [Handles -> Seq(RequestKinds)]
      /\ asked \in [Handles -> BOOLEAN]
      /\ feed \in [Handles -> Seq(Nat)]
      /\ reading \subseteq Handles
      /\ connecting \in Handles \union {None}
      /\ signaled \in BOOLEAN
      /\ sends \in Nat
  BY DEF WinTypeOK
<1>2. /\ state' = [state EXCEPT ![p] = "closed"]
      /\ unread' = [unread EXCEPT ![p] = <<>>]
      /\ asked' = [asked EXCEPT ![p] = FALSE]
      /\ feed' = [feed EXCEPT ![p] = <<>>]
      /\ reading' = reading \ {p}
      /\ connecting' \in {connecting, None}
      /\ signaled' = signaled
      /\ apcs' = q \/ apcs' = Append(q, Failed(p))
  BY DEF Close
<1>3. Failed(p) \in Apcs
  BY DEF Failed, Apcs, RequestKinds
<1>4. apcs' \in Seq(Apcs)
  BY <1>2, <1>3, AppendFacts
<1>5. /\ state' \in [Handles -> PipeStates]
      /\ unread' \in [Handles -> Seq(RequestKinds)]
      /\ feed' \in [Handles -> Seq(Nat)]
  BY <1>1, <1>2 DEF PipeStates
<1>6. asked' \in [Handles -> BOOLEAN]
  BY <1>1, <1>2
<1>7. WinTypeOK'
  BY <1>1, <1>2, <1>4, <1>5, <1>6 DEF WinTypeOK
<1>8. Alike(p)
  BY <1>1, <1>2 DEF Alike
<1> QED
  BY <1>1, <1>2, <1>7, <1>8

\* A pipe that is not open any more is left alone, and a pipe that was is listed as
\* closed (DisconnectAndClose).
LEMMA ClosingFacts ==
  ASSUME WinTypeOK, ClosedHandles \subseteq Handles, NEW p, NEW q \in Seq(Apcs),
         DisconnectAndClose(p, q), sends' = sends
  PROVE  /\ WinTypeOK' /\ Alike(p)
         /\ ClosedHandles' \subseteq Handles /\ ClosedHandles \subseteq ClosedHandles'
         /\ \/ /\ Open(p) /\ p \in Handles /\ ClosedHandles' = ClosedHandles \union {p}
               /\ state'[p] = "closed" /\ unread'[p] = <<>> /\ ~asked'[p] /\ feed'[p] = <<>>
            \/ /\ ~Open(p) /\ ClosedHandles' = ClosedHandles
               /\ UNCHANGED <<state, unread, asked, feed, reading>>
         /\ apcs' = q \/ apcs' = Append(q, Failed(p))
<1>1. CASE Open(p)
  <2>1. p \in Handles /\ Close(p, q) /\ ClosedHandles' = ClosedHandles \union {p}
    BY <1>1 DEF DisconnectAndClose, Open
  <2> QED
    BY <1>1, <2>1, CloseFacts
<1>2. CASE ~Open(p)
  <2>1. UNCHANGED <<pipeVars, reading, evVars, ClosedHandles>> /\ apcs' = q
    BY <1>2 DEF DisconnectAndClose
  <2> QED
    BY <1>2, <2>1 DEF WinTypeOK, Alike, pipeVars, evVars
<1> QED
  BY <1>1, <1>2

\* A read of a pipe takes the first message that waits in it, or stays outstanding.
LEMMA ReadFileExFacts ==
  ASSUME WinTypeOK, NEW p \in Handles, NEW q \in Seq(Apcs), ReadFileEx(p, q), sends' = sends
  PROVE  /\ WinTypeOK' /\ Alike(p)
         /\ UNCHANGED <<state, asked, feed>>
         /\ \/ /\ unread[p] # <<>> /\ unread'[p] = Tail(unread[p])
               /\ apcs' = Append(q, Completed(p, Head(unread[p])))
               /\ Completed(p, Head(unread[p])) \in Apcs
            \/ /\ UNCHANGED unread
               /\ apcs' = q
               /\ p \in reading'
<1>1. /\ state \in [Handles -> PipeStates]
      /\ unread \in [Handles -> Seq(RequestKinds)]
      /\ asked \in [Handles -> BOOLEAN]
      /\ feed \in [Handles -> Seq(Nat)]
      /\ reading \subseteq Handles
      /\ connecting \in Handles \union {None}
      /\ signaled \in BOOLEAN
      /\ sends \in Nat
      /\ unread[p] \in Seq(RequestKinds)
  BY DEF WinTypeOK
<1>2. UNCHANGED <<state, asked, feed, connecting, signaled>>
  BY DEF ReadFileEx, evVars
<1>3. CASE unread[p] # <<>>
  <2>1. /\ apcs' = Append(q, Completed(p, Head(unread[p])))
        /\ unread' = [unread EXCEPT ![p] = Tail(unread[p])]
        /\ reading' = reading
    BY <1>3 DEF ReadFileEx
  <2>2. Head(unread[p]) \in RequestKinds /\ Tail(unread[p]) \in Seq(RequestKinds)
    BY <1>1, <1>3
  <2>3. Completed(p, Head(unread[p])) \in Apcs
    BY <2>2 DEF Completed, Apcs
  <2>4. apcs' \in Seq(Apcs)
    BY <2>1, <2>3, AppendFacts
  <2>5. unread' \in [Handles -> Seq(RequestKinds)] /\ unread'[p] = Tail(unread[p])
    BY <1>1, <2>1, <2>2
  <2>6. \A h \in Handles \ {p} : unread'[h] = unread[h]
    BY <1>1, <2>1
  <2> QED
    BY <1>1, <1>2, <1>3, <2>1, <2>3, <2>4, <2>5, <2>6 DEF WinTypeOK, Alike
<1>4. CASE unread[p] = <<>>
  BY <1>1, <1>2, <1>4 DEF ReadFileEx, WinTypeOK, Alike
<1> QED
  BY <1>3, <1>4

\* A step of the server is one of the feed, or none.
Refines == Feed!FeedNext \/ UNCHANGED Feed!feedVars

\* h is a client before and after, and one who listens, or neither.
SameClient(h) ==
  /\ state'[h] = "connected" <=> state[h] = "connected"
  /\ Subscribed(h)' <=> Subscribed(h)
  /\ Subscribed(h) => feed'[h] = feed[h]

\* A step that changes no client and posts nothing is no step of the feed.
LEMMA Stutters ==
  ASSUME posted' = posted, Retired' = Retired, \A h \in Handles : SameClient(h)
  PROVE  Refines
<1>1. {h \in Handles : state[h] = "connected"}' = {h \in Handles : state[h] = "connected"}
  BY DEF SameClient
<1>2. {h \in Handles : Subscribed(h)}' = {h \in Handles : Subscribed(h)}
  BY DEF SameClient
<1>3. [h \in Handles |-> IF Subscribed(h) THEN feed[h] ELSE <<>>]'
        = [h \in Handles |-> IF Subscribed(h) THEN feed[h] ELSE <<>>]
  BY DEF SameClient
<1> QED
  BY <1>1, <1>2, <1>3 DEF Refines, Feed!feedVars, Retired

\* A message is pushed.
LEMMA Posts ==
  ASSUME posted' = posted + 1, Retired' = Retired, \A h \in Handles : SameClient(h)
  PROVE  Refines
<1>1. {h \in Handles : state[h] = "connected"}' = {h \in Handles : state[h] = "connected"}
  BY DEF SameClient
<1>2. {h \in Handles : Subscribed(h)}' = {h \in Handles : Subscribed(h)}
  BY DEF SameClient
<1>3. [h \in Handles |-> IF Subscribed(h) THEN feed[h] ELSE <<>>]'
        = [h \in Handles |-> IF Subscribed(h) THEN feed[h] ELSE <<>>]
  BY DEF SameClient
<1>4. Feed!Post
  BY <1>1, <1>2, <1>3 DEF Feed!Post, Retired
<1> QED
  BY <1>4 DEF Refines, Feed!FeedNext

\* A pipe loses its client, if it had one.
LEMMA Leaves ==
  ASSUME NEW p \in Handles, posted' = posted, Retired' = Retired,
         state'[p] # "connected", \A h \in Handles \ {p} : SameClient(h)
  PROVE  Refines
<1>1. CASE state[p] # "connected"
  BY <1>1, Stutters DEF SameClient, Subscribed
<1>2. CASE state[p] = "connected"
  <2>1. {h \in Handles : state[h] = "connected"}' = {h \in Handles : state[h] = "connected"} \ {p}
    BY DEF SameClient
  <2>2. {h \in Handles : Subscribed(h)}' = {h \in Handles : Subscribed(h)} \ {p}
    BY DEF SameClient, Subscribed
  <2>3. [h \in Handles |-> IF Subscribed(h) THEN feed[h] ELSE <<>>]'
          = [[h \in Handles |-> IF Subscribed(h) THEN feed[h] ELSE <<>>] EXCEPT ![p] = <<>>]
    BY DEF SameClient, Subscribed
  <2>4. Feed!Leave(p)
    BY <1>2, <2>1, <2>2, <2>3 DEF Feed!Leave, Retired
  <2> QED
    BY <2>4 DEF Refines, Feed!FeedNext
<1> QED
  BY <1>1, <1>2

\* A pipe gets a client, which does not listen yet.
LEMMA Arrives ==
  ASSUME NEW p \in Handles, posted' = posted, Retired' = Retired,
         state[p] # "connected", state'[p] = "connected", ~Subscribed(p)',
         \A h \in Handles \ {p} : SameClient(h)
  PROVE  Refines
<1>1. {h \in Handles : state[h] = "connected"}' = {h \in Handles : state[h] = "connected"} \union {p}
  BY DEF SameClient
<1>2. {h \in Handles : Subscribed(h)}' = {h \in Handles : Subscribed(h)}
  BY DEF SameClient, Subscribed
<1>3. [h \in Handles |-> IF Subscribed(h) THEN feed[h] ELSE <<>>]'
        = [h \in Handles |-> IF Subscribed(h) THEN feed[h] ELSE <<>>]
  BY DEF SameClient, Subscribed
<1>4. Feed!Arrive(p)
  BY <1>1, <1>2, <1>3 DEF Feed!Arrive, Retired
<1> QED
  BY <1>4 DEF Refines, Feed!FeedNext

\* A client starts to listen, and nothing was sent to it.
LEMMA Subscribes ==
  ASSUME NEW p \in Handles, posted' = posted, Retired' = Retired,
         state[p] = "connected", state'[p] = "connected", ~Subscribed(p), Subscribed(p)',
         feed'[p] = <<>>,
         \A h \in Handles \ {p} : SameClient(h)
  PROVE  Refines
<1>1. {h \in Handles : state[h] = "connected"}' = {h \in Handles : state[h] = "connected"}
  BY DEF SameClient
<1>2. {h \in Handles : Subscribed(h)}' = {h \in Handles : Subscribed(h)} \union {p}
  BY DEF SameClient
<1>3. [h \in Handles |-> IF Subscribed(h) THEN feed[h] ELSE <<>>]'
        = [h \in Handles |-> IF Subscribed(h) THEN feed[h] ELSE <<>>]
  BY DEF SameClient
<1>4. Feed!Subscribe(p)
  BY <1>1, <1>2, <1>3 DEF Feed!Subscribe, Retired
<1> QED
  BY <1>4 DEF Refines, Feed!FeedNext

\* A client that listens is sent the message it is due.
LEMMA Sends ==
  ASSUME NEW p \in Handles, posted' = posted, Retired' = Retired,
         state'[p] = "connected", Subscribed(p), Subscribed(p)',
         NextFor(p) <= posted, feed'[p] = Append(feed[p], NextFor(p)),
         \A h \in Handles \ {p} : SameClient(h)
  PROVE  Refines
<1>1. {h \in Handles : state[h] = "connected"}' = {h \in Handles : state[h] = "connected"}
  BY DEF SameClient, Subscribed
<1>2. {h \in Handles : Subscribed(h)}' = {h \in Handles : Subscribed(h)}
  BY DEF SameClient
<1>3. [h \in Handles |-> IF Subscribed(h) THEN feed[h] ELSE <<>>]'
        = [[h \in Handles |-> IF Subscribed(h) THEN feed[h] ELSE <<>>]
             EXCEPT ![p] = Append(feed[p], NextFor(p))]
  BY DEF SameClient
<1>4. [h \in Handles |-> IF Subscribed(h) THEN feed[h] ELSE <<>>][p] = feed[p]
  OBVIOUS
<1>5. Feed!NextFor(p) = NextFor(p)
  BY <1>4 DEF Feed!NextFor, NextFor, Retired
<1>6. Feed!SendNext(p)
  BY <1>1, <1>2, <1>3, <1>4, <1>5 DEF Feed!SendNext, Retired
<1> QED
  BY <1>6 DEF Refines, Feed!FeedNext

\* Every client that listens has all messages, and they are dropped.
LEMMA Retires ==
  ASSUME posted' = posted, Retired' = posted, \A h \in Handles : SameClient(h),
         \A h \in Handles : Subscribed(h) => NextFor(h) = posted + 1
  PROVE  Refines
<1>1. {h \in Handles : state[h] = "connected"}' = {h \in Handles : state[h] = "connected"}
  BY DEF SameClient
<1>2. {h \in Handles : Subscribed(h)}' = {h \in Handles : Subscribed(h)}
  BY DEF SameClient
<1>3. [h \in Handles |-> IF Subscribed(h) THEN feed[h] ELSE <<>>]'
        = [h \in Handles |-> IF Subscribed(h) THEN feed[h] ELSE <<>>]
  BY DEF SameClient
<1>4. ASSUME NEW h \in Handles, Subscribed(h)
      PROVE  Feed!NextFor(h) = posted + 1
  <2>1. [g \in Handles |-> IF Subscribed(g) THEN feed[g] ELSE <<>>][h] = feed[h]
    BY <1>4
  <2> QED
    BY <1>4, <2>1 DEF Feed!NextFor, NextFor, Retired
<1>5. Feed!Retire
  BY <1>1, <1>2, <1>3, <1>4 DEF Feed!Retire, Retired
<1> QED
  BY <1>5 DEF Refines, Feed!FeedNext

\* The types of what is counted.
LEMMA FeedTypes ==
  ASSUME FeedInv
  PROVE  /\ WriteHandles \in Seq(Writers) /\ Len(WriteHandles) \in Nat
         /\ DOMAIN WriteHandles = 1 .. Len(WriteHandles)
         /\ \A i \in DOMAIN WriteHandles :
              WriteHandles[i] \in Writers /\ WriteHandles[i].Pipe \in Handles
         /\ Outbox \in Seq(Nat) /\ Len(Outbox) \in Nat /\ posted \in Nat
         /\ DOMAIN Outbox = 1 .. Len(Outbox)
         /\ Retired \in Nat /\ posted = Retired + Len(Outbox)
         /\ batch \in Nat /\ msgIx \in Nat \ {0}
         /\ writerIx \in Nat /\ writerIx <= Len(WriteHandles)
         /\ feed \in [Handles -> Seq(Nat)]
         /\ apcs \in Seq(Apcs)
         /\ WinTypeOK /\ ClosedHandles \subseteq Handles
<1>1. TypeOK /\ NumberInv
  BY DEF FeedInv, IInv
<1>2. /\ WriteHandles \in Seq(Writers) /\ Outbox \in Seq(Nat) /\ posted \in Nat
      /\ batch \in Nat /\ msgIx \in Nat \ {0} /\ writerIx \in 0 .. Len(WriteHandles)
  BY <1>1 DEF TypeOK, ServerTypeOK
<1>3. \A i \in DOMAIN WriteHandles :
        WriteHandles[i] \in Writers /\ WriteHandles[i].Pipe \in Handles
  <2>1. \A i \in DOMAIN WriteHandles : WriteHandles[i] \in Writers
    BY <1>2
  <2> QED
    BY <2>1 DEF Writers
<1>4. Len(WriteHandles) \in Nat /\ DOMAIN WriteHandles = 1 .. Len(WriteHandles)
  BY <1>2
<1>5. Len(Outbox) \in Nat /\ DOMAIN Outbox = 1 .. Len(Outbox)
  BY <1>2
<1>6. Retired \in Nat /\ posted = Retired + Len(Outbox)
  BY <1>1, <1>2, <1>5 DEF NumberInv, Retired
<1> QED
  BY <1>1, <1>2, <1>3, <1>4, <1>5, <1>6 DEF TypeOK, WinTypeOK, ServerTypeOK

\* A writer is of the client whose pipe it has.
LEMMA WriterOf ==
  ASSUME NEW w \in Writers, NEW h
  PROVE  w \in WritersOf(h) <=> w.Pipe = h
<1>1. \A v \in Writers : v = [Pipe |-> v.Pipe, freed |-> v.freed] /\ v.freed \in BOOLEAN
  BY DEF Writers
<1> QED
  BY <1>1 DEF WritersOf

\* So a client has a writer if one of them has its pipe, and one if no two have.
LEMMA HasWriter ==
  ASSUME NEW s \in Seq(Writers), NEW h
  PROVE  /\ Has(s, WritersOf(h)) <=> \E i \in DOMAIN s : s[i].Pipe = h
         /\ Once(s, WritersOf(h)) <=>
              \A i, j \in DOMAIN s : s[i].Pipe = h /\ s[j].Pipe = h => i = j
<1>1. \A i \in DOMAIN s : s[i] \in Writers
  OBVIOUS
<1>2. \A i \in DOMAIN s : s[i] \in WritersOf(h) <=> s[i].Pipe = h
  BY <1>1, WriterOf
<1> QED
  BY <1>2 DEF Has, Once

\* A pipe that was not closed and has a writer is open, and its client asked.
LEMMA WriterOpen ==
  ASSUME FeedInv, NEW h \in Handles, ~IsPipeClosed(h), Has(WriteHandles, WritersOf(h))
  PROVE  Accepted(h) /\ asked[h]
<1>1. PICK i \in DOMAIN WriteHandles : WriteHandles[i].Pipe = h
  BY FeedTypes, HasWriter
<1>2. ~WriteHandles[i].freed
  BY <1>1 DEF FeedInv, CalmInv
<1>3. WriterLive(WriteHandles[i])
  BY DEF FeedInv, IInv, WritersLive
<1> QED
  BY <1>1, <1>2, <1>3 DEF WriterLive

\* A step that adds nothing to what the client of h wishes keeps its wish.
LEMMA WishKept ==
  ASSUME NEW h \in Handles, WishesOnce(h),
         unread'[h] = unread[h], asked'[h] = asked[h],
         Has(apcs', Wishes(h)) => Has(apcs, Wishes(h)),
         Once(apcs, Wishes(h)) => Once(apcs', Wishes(h)),
         Has(WriteHandles', WritersOf(h)) => Has(WriteHandles, WritersOf(h)),
         Once(WriteHandles, WritersOf(h)) => Once(WriteHandles', WritersOf(h))
  PROVE  WishesOnce(h)'
<1>1. /\ Has(unread[h], {"listener"})' <=> Has(unread[h], {"listener"})
      /\ Once(unread[h], {"listener"})' <=> Once(unread[h], {"listener"})
      /\ Has(apcs, Wishes(h))' <=> Has(apcs', Wishes(h))
      /\ Once(apcs, Wishes(h))' <=> Once(apcs', Wishes(h))
      /\ Has(WriteHandles, WritersOf(h))' <=> Has(WriteHandles', WritersOf(h))
      /\ Once(WriteHandles, WritersOf(h))' <=> Once(WriteHandles', WritersOf(h))
  BY DEF Has, Once, Wishes, WritersOf
<1> QED
  BY <1>1 DEF WishesOnce

\* A step that changes neither a client, nor a wish, nor what is due, keeps all.
LEMMA CalmFeed ==
  ASSUME FeedInv, IInv', CalmInv',
         UNCHANGED <<WriteHandles, ClosedHandles, Outbox, posted, unread, asked, feed, apcs>>,
         \A h \in Handles : state'[h] = "connected" <=> state[h] = "connected",
         pc' # "crashed" =>
           pc # "crashed" /\ \A i \in DOMAIN WriteHandles : Due(i)' = Due(i)
  PROVE  FeedInv' /\ Refines
<1>1. \A h \in Handles : SameClient(h)
  BY DEF SameClient, Subscribed, IsPipeClosed, Has, WritersOf
<1>2. Retired' = Retired
  BY DEF Retired
<1>3. Refines
  BY <1>1, <1>2, Stutters
<1>4. WishInv'
  BY DEF FeedInv, WishInv, WishesOnce, Has, Once, Wishes, WritersOf
<1>5. NumberInv'
  BY <1>2 DEF FeedInv, NumberInv
<1>6. DueInv'
  <2>1. ASSUME pc' # "crashed", NEW i \in DOMAIN WriteHandles, Subscribed(WriteHandles[i].Pipe)'
        PROVE  NextFor(WriteHandles[i].Pipe)' = Due(i)'
    <3>1. PICK h \in Handles : h = WriteHandles[i].Pipe
      BY FeedTypes
    <3>2. Subscribed(h)
      BY <1>1, <2>1, <3>1 DEF SameClient, Subscribed, IsPipeClosed
    <3>3. NextFor(h) = Due(i)
      BY <2>1, <3>1, <3>2 DEF FeedInv, DueInv
    <3>4. NextFor(h)' = NextFor(h)
      BY <1>2 DEF NextFor
    <3> QED
      BY <2>1, <3>1, <3>3, <3>4 DEF NextFor
  <2> QED
    BY <2>1 DEF DueInv
<1>7. UnsentInv'
  BY DEF FeedInv, UnsentInv, Has, WritersOf
<1> QED
  BY <1>3, <1>4, <1>5, <1>6, <1>7 DEF FeedInv

\* Accepting, starting a flush, the next message of it, and waiting are calm.
LEMMA CalmSteps ==
  ASSUME FeedInv, IInv',
         \/ Start \/ ConnectToPipe \/ HandleNewConnection \/ Stop \/ Tick \/ WriteAborts
         \/ WriteFreed \/ NextMessage \/ WaitTimesOut \/ StartApcs \/ EndApcs
         \/ UNCHANGED vars
  PROVE  FeedInv' /\ Refines
<1>1. UNCHANGED <<WriteHandles, ClosedHandles, Outbox, posted, unread, asked, feed, apcs>>
  BY DEF Start, ConnectToPipe, HandleNewConnection, ListenForNewConnection, CreateNamedPipe,
     Stop, Tick, WriteAborts, WriteFreed, NextMessage, WaitTimesOut, StartApcs, EndApcs,
     vars, serverVars, winVars, pipeVars, ioVars, boxVars
<1>2. \A h \in Handles : state'[h] = "connected" <=> state[h] = "connected"
  <2>1. state' = state \/ \E h \in Handles : CreateNamedPipe(h)
    BY DEF Start, ConnectToPipe, HandleNewConnection, ListenForNewConnection, Stop, Tick,
       WriteAborts, WriteFreed, NextMessage, WaitTimesOut, StartApcs, EndApcs, vars, winVars,
       pipeVars
  <2> QED
    BY <2>1, FeedTypes DEF CreateNamedPipe, Creatable, WinTypeOK
<1>3. /\ pc' # "woken"
      /\ \/ pc' = "crashed"
         \/ /\ ~Flushing /\ ~Flushing' /\ pc # "crashed" /\ msgIx = 1 /\ msgIx' = 1
         \/ /\ Flushing /\ Flushing' /\ UNCHANGED <<batch, msgIx, writerIx>>
         \/ /\ ~Flushing /\ pc # "crashed" /\ Flushing' /\ msgIx = 1
            /\ batch' = Len(Outbox) /\ msgIx' = 1 /\ writerIx' = Len(WriteHandles)
         \/ /\ Flushing /\ Flushing' /\ batch' = batch /\ writerIx = 0
            /\ msgIx' = msgIx + 1 /\ writerIx' = Len(WriteHandles)
  <2>1. CalmInv
    BY DEF FeedInv
  <2> QED
    BY <2>1 DEF CalmInv, Flushing, Blocked, Start, ConnectToPipe, HandleNewConnection,
       ListenForNewConnection, Stop, Tick, WriteAborts, WriteFreed, NextMessage, WaitTimesOut,
       StartApcs, EndApcs, loopVars, vars, serverVars
<1>4. CalmInv'
  <2>1. CalmInv
    BY DEF FeedInv
  <2>2. pc' = "crashed" => ~Flushing'
    BY DEF Flushing, Blocked
  <2> QED
    BY <1>1, <1>3, <2>1, <2>2 DEF CalmInv, IsPipeClosed
<1>5. ASSUME pc' # "crashed"
      PROVE  pc # "crashed" /\ \A i \in DOMAIN WriteHandles : Due(i)' = Due(i)
  <2>1. pc # "crashed"
    BY <1>3, <1>5 DEF Flushing, Blocked
  <2>2. ASSUME NEW i \in DOMAIN WriteHandles, NEW n \in Nat, n = Retired
        PROVE  Due(i)' = Due(i)
    <3>1. /\ Due(i) = n + msgIx + (IF Flushing /\ i > writerIx THEN 1 ELSE 0)
          /\ Due(i)' = n + msgIx' + (IF Flushing' /\ i > writerIx' THEN 1 ELSE 0)
      BY <1>1, <2>2 DEF Due, Retired
    <3>2. /\ i \in Nat /\ i <= Len(WriteHandles) /\ i > 0 /\ Len(WriteHandles) \in Nat
          /\ msgIx \in Nat /\ writerIx \in Nat
      BY FeedTypes
    <3>3. CASE ~Flushing /\ ~Flushing' /\ msgIx' = msgIx
      BY <3>1, <3>3
    <3>4. CASE Flushing /\ Flushing' /\ UNCHANGED <<msgIx, writerIx>>
      BY <3>1, <3>4
    <3>5. CASE ~Flushing /\ Flushing' /\ msgIx' = msgIx /\ writerIx' = Len(WriteHandles)
      BY <3>1, <3>2, <3>5
    <3>6. CASE Flushing /\ Flushing' /\ writerIx = 0 /\ msgIx' = msgIx + 1 /\ writerIx' = Len(WriteHandles)
      BY <3>1, <3>2, <3>6, <2>2
    <3> QED
      BY <1>3, <1>5, <3>3, <3>4, <3>5, <3>6
  <2> QED
    BY <2>1, <2>2, FeedTypes
<1> QED
  BY <1>1, <1>2, <1>4, <1>5, CalmFeed

\* A message that the loop writes is the one its reader is due, and makes the next
\* one due (WriteMessage).
LEMMA WriteFeed ==
  ASSUME FeedInv, IInv', WriteMessage \/ WriteCompletes
  PROVE  FeedInv' /\ Refines
<1>1. PICK p \in Handles :
        /\ p = WriteHandles[writerIx].Pipe /\ writerIx \in DOMAIN WriteHandles
        /\ ~IsPipeClosed(p) /\ state[p] = "connected"
  BY FeedTypes DEF FeedInv, IInv, LoopInv, WriteMessage, WriteCompletes, AtWriter, Writer, Blocked
<1>2. /\ UNCHANGED <<state, unread, asked, apcs, ClosedHandles, WriteHandles, Outbox, posted, batch,
                     msgIx>>
      /\ Flushing /\ Flushing' /\ pc # "crashed" /\ pc' # "woken"
  BY DEF WriteMessage, WriteCompletes, Deliver, AtWriter, Flushing, Blocked, ioVars, boxVars, pipeVars
<1>3. CalmInv' /\ Retired' = Retired
  BY <1>2 DEF FeedInv, CalmInv, IsPipeClosed, Retired
<1>4. CASE UNCHANGED <<feed, writerIx>>
  <2>1. \A i \in DOMAIN WriteHandles : Due(i)' = Due(i)
    BY <1>2, <1>3, <1>4 DEF Due
  <2> QED
    BY <1>2, <1>3, <1>4, <2>1, CalmFeed
<1>5. CASE feed' = [feed EXCEPT ![p] = Append(@, Outbox[msgIx])] /\ writerIx' = writerIx - 1
  <2>1. PICK n \in Nat : n = Retired
    BY FeedTypes
  <2>2. /\ \A i \in DOMAIN WriteHandles : Due(i) = n + msgIx + (IF i > writerIx THEN 1 ELSE 0)
        /\ \A i \in DOMAIN WriteHandles : Due(i)' = n + msgIx + (IF i > writerIx - 1 THEN 1 ELSE 0)
    BY <1>2, <1>3, <1>5, <2>1 DEF Due
  <2>3. Has(WriteHandles, WritersOf(p)) /\ Subscribed(p)
    BY <1>1, FeedTypes, HasWriter DEF Subscribed
  <2>4. msgIx \in DOMAIN Outbox
    BY <1>2, FeedTypes DEF FeedInv, IInv, LoopInv
  <2>5. Outbox[msgIx] = n + msgIx /\ n + msgIx <= posted
    <3>1. msgIx <= Len(Outbox)
      BY <2>4, FeedTypes
    <3> QED
      BY <2>1, <2>4, <3>1, FeedTypes DEF FeedInv, NumberInv
  <2>6. NextFor(p) = n + msgIx
    <3>1. NextFor(p) = Due(writerIx)
      BY <1>1, <1>2, <2>3 DEF FeedInv, DueInv
    <3>2. Due(writerIx) = n + msgIx
      BY <1>1, <2>2, FeedTypes
    <3> QED
      BY <3>1, <3>2
  <2>7. /\ \A h \in Handles : Subscribed(h)' <=> Subscribed(h)
        /\ \A h \in Handles \ {p} : feed'[h] = feed[h]
        /\ feed'[p] = Append(feed[p], n + msgIx)
    BY <1>2, <1>5, <2>5, FeedTypes DEF Subscribed, IsPipeClosed, Has, WritersOf
  <2>8. Refines
    <3>1. \A h \in Handles \ {p} : SameClient(h)
      BY <1>2, <2>7 DEF SameClient
    <3> QED
      BY <1>1, <1>2, <1>3, <2>3, <2>5, <2>6, <2>7, <3>1, Sends
  <2>9. WishInv' /\ NumberInv'
    BY <1>2, <1>3 DEF FeedInv, WishInv, WishesOnce, Has, Once, Wishes, WritersOf, NumberInv
  <2>10. DueInv'
    <3>1. ASSUME NEW i \in DOMAIN WriteHandles, Subscribed(WriteHandles[i].Pipe)'
          PROVE  NextFor(WriteHandles[i].Pipe)' = Due(i)'
      <4>1. PICK h \in Handles : h = WriteHandles[i].Pipe
        BY FeedTypes
      <4>2. Subscribed(h)
        BY <1>2, <2>7, <3>1, <4>1 DEF Subscribed, IsPipeClosed
      <4>3. NextFor(h) = Due(i)
        BY <1>2, <4>1, <4>2 DEF FeedInv, DueInv
      <4>4. NextFor(h)' = IF feed'[h] = <<>> THEN n + 1 ELSE feed'[h][Len(feed'[h])] + 1
        BY <1>3, <2>1 DEF NextFor
      <4>5. NextFor(h) = IF feed[h] = <<>> THEN n + 1 ELSE feed[h][Len(feed[h])] + 1
        BY <2>1 DEF NextFor
      <4>6. CASE h = p
        <5>1. Once(WriteHandles, WritersOf(p))
          BY <1>1 DEF FeedInv, WishInv, WishesOnce, IsPipeClosed
        <5>2. \A j, k \in DOMAIN WriteHandles :
                WriteHandles[j].Pipe = p /\ WriteHandles[k].Pipe = p => j = k
          BY <5>1, FeedTypes, HasWriter
        <5>5. i = writerIx
          BY <1>1, <4>1, <4>6, <5>2
        <5>3. Due(i)' = n + msgIx + 1
          BY <1>1, <2>2, <5>5, FeedTypes
        <5>4. feed'[p] # <<>> /\ feed'[p][Len(feed'[p])] = n + msgIx
          <6>1. feed[p] \in Seq(Nat) /\ n + msgIx \in Nat
            BY FeedTypes
          <6> QED
            BY <2>7, <6>1
        <5> QED
          BY <4>1, <4>4, <4>6, <5>3, <5>4, <1>2 DEF NextFor
      <4>7. CASE h # p
        <5>1. i # writerIx
          BY <1>1, <4>1, <4>7
        <5>2. Due(i)' = Due(i)
          <6>1. i \in Nat /\ writerIx \in Nat
            BY FeedTypes
          <6>2. i > writerIx <=> i > writerIx - 1
            BY <5>1, <6>1
          <6> QED
            BY <2>2, <6>2
        <5>3. NextFor(h)' = NextFor(h)
          BY <2>7, <4>4, <4>5, <4>7
        <5> QED
          BY <1>2, <4>1, <4>3, <5>2, <5>3 DEF NextFor
      <4> QED
        BY <4>6, <4>7
    <3> QED
      BY <1>2, <3>1 DEF DueInv
  <2>11. UnsentInv'
    BY <1>2, <2>3, <2>7 DEF FeedInv, UnsentInv, Has, WritersOf
  <2> QED
    BY <1>3, <2>8, <2>9, <2>10, <2>11 DEF FeedInv
<1> QED
  BY <1>1, <1>4, <1>5 DEF WriteMessage, WriteCompletes, Deliver, pipeVars, Writer, NextWriter


\* What the invariants of the feed say of the next state.
LEMMA FeedPrimed ==
  /\ \A h : Subscribed(h)' <=> /\ state'[h] = "connected" /\ h \notin ClosedHandles'
                               /\ Has(WriteHandles', WritersOf(h))
  /\ UnsentInv' <=> \A h \in Handles \ ClosedHandles' :
                      ~Has(WriteHandles', WritersOf(h)) => feed'[h] = <<>>
<1>1. ASSUME NEW h
      PROVE  /\ WritersOf(h)' = WritersOf(h)
             /\ Has(WriteHandles, WritersOf(h))' <=> Has(WriteHandles', WritersOf(h))
  BY DEF Has, WritersOf
<1> QED
  BY <1>1 DEF Subscribed, IsPipeClosed, UnsentInv

\* Once the loop has passed writer i, what it owes the others is unchanged, wherever
\* they are moved to.
LEMMA DueKept ==
  ASSUME FeedInv, Flushing, pc # "crashed", Flushing',
         UNCHANGED <<Outbox, posted, msgIx>>,
         writerIx' = writerIx - 1, writerIx \in DOMAIN WriteHandles,
         WriteHandles' \in Seq(Writers),
         \A j \in DOMAIN WriteHandles' :
           Subscribed(WriteHandles[j].Pipe)' =>
             \E i \in DOMAIN WriteHandles :
               /\ WriteHandles[i].Pipe = WriteHandles'[j].Pipe
               /\ Subscribed(WriteHandles[i].Pipe)
               /\ feed'[WriteHandles[i].Pipe] = feed[WriteHandles[i].Pipe]
               /\ i > writerIx <=> j > writerIx - 1
  PROVE  DueInv'
<1>1. PICK n \in Nat : n = Retired /\ n = Retired'
  BY FeedTypes DEF Retired
<1>2. ASSUME NEW j \in DOMAIN WriteHandles', Subscribed(WriteHandles[j].Pipe)'
      PROVE  NextFor(WriteHandles[j].Pipe)' = Due(j)'
  <2>1. PICK i \in DOMAIN WriteHandles :
          /\ WriteHandles[i].Pipe = WriteHandles'[j].Pipe
          /\ Subscribed(WriteHandles[i].Pipe)
          /\ feed'[WriteHandles[i].Pipe] = feed[WriteHandles[i].Pipe]
          /\ i > writerIx <=> j > writerIx - 1
    BY <1>2
  <2>2. PICK h \in Handles : h = WriteHandles[i].Pipe /\ h = WriteHandles'[j].Pipe
    BY <2>1, FeedTypes
  <2>3. NextFor(h) = Due(i)
    BY <2>1, <2>2 DEF FeedInv, DueInv
  <2>4. Due(i) = n + msgIx + (IF i > writerIx THEN 1 ELSE 0)
    BY <1>1 DEF Due
  <2>5. Due(j)' = n + msgIx + (IF j > writerIx - 1 THEN 1 ELSE 0)
    BY <1>1 DEF Due
  <2>6. Due(j)' = Due(i)
    BY <2>1, <2>4, <2>5
  <2>7. NextFor(WriteHandles[j].Pipe)' = NextFor(h)
    BY <1>1, <2>1, <2>2 DEF NextFor
  <2> QED
    BY <2>3, <2>6, <2>7
<1> QED
  BY <1>2 DEF DueInv

\* A write fails on a pipe whose client is gone, and its writer gets nothing more
\* (WriteMessage, DisconnectAndClose).
LEMMA WriteFailsFeed ==
  ASSUME FeedInv, IInv', WriteFails
  PROVE  FeedInv' /\ Refines
<1>1. /\ UNCHANGED <<posted, Outbox, msgIx, batch, sends>>
      /\ Flushing /\ pc # "crashed" /\ pc' \in {"flush", "crashed"} /\ writerIx' = writerIx - 1
      /\ Retired' = Retired
      /\ WriteHandles' = [WriteHandles EXCEPT ![writerIx].freed = TRUE]
  BY DEF WriteFails, AtWriter, NextWriter, Flushing, boxVars, Retired
<1>2. PICK p \in Handles :
        /\ p = WriteHandles[writerIx].Pipe /\ writerIx \in DOMAIN WriteHandles
        /\ p \notin ClosedHandles /\ state[p] # "connected" /\ DisconnectAndClose(p, apcs)
  BY FeedTypes DEF WriteFails, AtWriter, Writer, IsPipeClosed
<1>3. /\ WriteHandles' \in Seq(Writers) /\ DOMAIN WriteHandles' = DOMAIN WriteHandles
      /\ \A i \in DOMAIN WriteHandles :
           /\ WriteHandles'[i].Pipe = WriteHandles[i].Pipe
           /\ i # writerIx => WriteHandles'[i] = WriteHandles[i]
  <2>1. PICK w \in Writers : w = [WriteHandles[writerIx] EXCEPT !.freed = TRUE] /\ w.Pipe = p
    <3>1. WriteHandles[writerIx] \in Writers
      BY <1>2, FeedTypes
    <3>2. \A v \in Writers :
            [v EXCEPT !.freed = TRUE] \in Writers /\ [v EXCEPT !.freed = TRUE].Pipe = v.Pipe
      BY DEF Writers
    <3> QED
      BY <1>2, <3>1, <3>2
  <2>2. WriteHandles' = [WriteHandles EXCEPT ![writerIx] = w]
    BY <1>1, <2>1
  <2>3. writerIx \in 1 .. Len(WriteHandles) /\ WriteHandles \in Seq(Writers)
    BY <1>2, FeedTypes
  <2>4. /\ [WriteHandles EXCEPT ![writerIx] = w] \in Seq(Writers)
        /\ Len([WriteHandles EXCEPT ![writerIx] = w]) = Len(WriteHandles)
        /\ \A i \in 1 .. Len(WriteHandles) :
             [WriteHandles EXCEPT ![writerIx] = w][i] = IF i = writerIx THEN w ELSE WriteHandles[i]
    BY ONLY <2>1, <2>3, ExceptSeq
  <2> QED
    BY <1>2, <2>1, <2>2, <2>3, <2>4
<1>4. ASSUME NEW h \in Handles
      PROVE  /\ Has(WriteHandles', WritersOf(h)) <=> Has(WriteHandles, WritersOf(h))
             /\ Once(WriteHandles', WritersOf(h)) <=> Once(WriteHandles, WritersOf(h))
  <2>1. /\ Has(WriteHandles, WritersOf(h)) <=> \E i \in DOMAIN WriteHandles : WriteHandles[i].Pipe = h
        /\ Once(WriteHandles, WritersOf(h)) <=>
             \A i, j \in DOMAIN WriteHandles :
               WriteHandles[i].Pipe = h /\ WriteHandles[j].Pipe = h => i = j
    BY FeedTypes, HasWriter
  <2>2. /\ Has(WriteHandles', WritersOf(h)) <=> \E i \in DOMAIN WriteHandles' : WriteHandles'[i].Pipe = h
        /\ Once(WriteHandles', WritersOf(h)) <=>
             \A i, j \in DOMAIN WriteHandles' :
               WriteHandles'[i].Pipe = h /\ WriteHandles'[j].Pipe = h => i = j
    BY <1>3, HasWriter
  <2> QED
    BY <1>3, <2>1, <2>2
<1>5. Has(WriteHandles, WritersOf(p))
  BY <1>2, FeedTypes, HasWriter
<1>6. Open(p)
  BY <1>2, <1>5, WriterOpen DEF Accepted, Open, IsPipeClosed
<1>7. /\ Alike(p) /\ ClosedHandles' = ClosedHandles \union {p} /\ state'[p] = "closed"
      /\ apcs' = apcs \/ apcs' = Append(apcs, Failed(p))
  BY <1>1, <1>2, <1>6, FeedTypes, ClosingFacts
<1>8. \A h \in Handles : SameClient(h)
  BY <1>2, <1>4, <1>7, FeedPrimed DEF SameClient, Alike, Subscribed, IsPipeClosed
<1>9. Refines
  BY <1>1, <1>8, Stutters
<1>10. CalmInv'
  <2>1. ASSUME NEW i \in DOMAIN WriteHandles', WriteHandles'[i].freed
        PROVE  WriteHandles'[i].Pipe \in ClosedHandles'
    BY <1>2, <1>3, <1>7, <2>1 DEF FeedInv, CalmInv, IsPipeClosed
  <2>2. Flushing' \/ pc' = "crashed"
    BY <1>1 DEF Flushing
  <2> QED
    BY <1>1, <2>1, <2>2 DEF FeedInv, CalmInv, IsPipeClosed
<1>11. WishInv'
  <2>1. ASSUME NEW h \in Handles \ ClosedHandles'
        PROVE  WishesOnce(h)'
    <3>1. WishesOnce(h) /\ unread'[h] = unread[h] /\ asked'[h] = asked[h]
      BY <1>7, <2>1 DEF FeedInv, WishInv, Alike
    <3>2. /\ Has(apcs', Wishes(h)) => Has(apcs, Wishes(h))
          /\ Once(apcs, Wishes(h)) => Once(apcs', Wishes(h))
      BY <1>7, <2>1, FeedTypes, WishesOfOthers, NoWish
    <3> QED
      BY <1>4, <3>1, <3>2, WishKept
  <2> QED
    BY <2>1 DEF WishInv
<1>12. NumberInv'
  BY <1>1 DEF FeedInv, NumberInv
<1>13. DueInv'
  <2>1. ASSUME NEW i \in DOMAIN WriteHandles', Subscribed(WriteHandles[i].Pipe)'
        PROVE  /\ i \in DOMAIN WriteHandles
               /\ WriteHandles[i].Pipe = WriteHandles'[i].Pipe
               /\ Subscribed(WriteHandles[i].Pipe)
               /\ feed'[WriteHandles[i].Pipe] = feed[WriteHandles[i].Pipe]
               /\ i > writerIx <=> i > writerIx - 1
    <3>1. PICK h \in Handles :
            h = WriteHandles[i].Pipe /\ h = WriteHandles'[i].Pipe /\ i \in DOMAIN WriteHandles
      BY <1>3, <2>1, FeedTypes
    <3>2. Subscribed(h)'
      BY <2>1, <3>1, FeedPrimed
    <3>3. h # p /\ feed'[h] = feed[h] /\ Subscribed(h)
      BY <1>7, <1>8, <3>2, FeedPrimed DEF SameClient
    <3>4. i > writerIx <=> i > writerIx - 1
      <4>1. i # writerIx
        BY <1>2, <3>1, <3>3
      <4>2. i \in Nat /\ writerIx \in Nat
        BY <3>1, FeedTypes
      <4> QED
        BY <4>1, <4>2
    <3> QED
      BY <3>1, <3>3, <3>4
  <2>2. CASE pc' = "crashed"
    BY <2>2 DEF DueInv
  <2>3. CASE pc' = "flush"
    BY <1>1, <1>2, <1>3, <2>1, <2>3, DueKept DEF Flushing
  <2> QED
    BY <1>1, <2>2, <2>3
<1>14. UnsentInv'
  <2>1. ASSUME NEW h \in Handles \ ClosedHandles', ~Has(WriteHandles', WritersOf(h))
        PROVE  feed'[h] = <<>>
    BY <1>4, <1>7, <2>1 DEF FeedInv, UnsentInv, Alike
  <2> QED
    BY <2>1, FeedPrimed
<1> QED
  BY <1>9, <1>10, <1>11, <1>12, <1>13, <1>14 DEF FeedInv

\* A writer whose pipe is closed is removed; the one moved into its place is one the
\* loop has passed, and stays so (WriteAllMessages, RemoveWriter).
LEMMA SkipFeed ==
  ASSUME FeedInv, IInv', SkipClosed
  PROVE  FeedInv' /\ Refines
<1> DEFINE L == Len(WriteHandles)
<1>1. /\ UNCHANGED <<state, unread, asked, feed, apcs, pc, Outbox, posted, batch, msgIx>>
      /\ WriteHandles' = RemoveWriter(writerIx)
      /\ writerIx' = writerIx - 1
      /\ Flushing /\ Flushing' /\ pc # "crashed" /\ pc' # "crashed"
      /\ ClosedHandles' = ClosedHandles
  <2>1. ClosedHandles' = ClosedHandles \ {INVALID} /\ ClosedHandles \subseteq Handles
    BY FeedTypes DEF SkipClosed, Erased
  <2> QED
    BY <2>1, PipeAssumption
       DEF SkipClosed, AtWriter, NextWriter, Flushing, Blocked, winVars, pipeVars, ioVars, boxVars
<1>2. /\ L \in Nat \ {0} /\ writerIx \in 1 .. L /\ DOMAIN WriteHandles = 1 .. L
      /\ WriteHandles \in Seq(Writers)
      /\ WriteHandles[writerIx].Pipe \in ClosedHandles
  BY FeedTypes DEF SkipClosed, AtWriter, IsPipeClosed, Writer
<1>3. /\ WriteHandles' \in Seq(Writers)
      /\ DOMAIN WriteHandles' = 1 .. L - 1
      /\ \A j \in 1 .. L - 1 :
           WriteHandles'[j] = IF j = writerIx THEN WriteHandles[L] ELSE WriteHandles[j]
  <2>1. PICK w \in Nat : w = writerIx /\ w \in 1 .. Len(WriteHandles)
    BY <1>2
  <2> HIDE DEF L
  <2>2. WriteHandles \in Seq(Writers) /\ L = Len(WriteHandles)
    BY <1>2 DEF L
  <2>3. /\ RemoveWriter(w) \in Seq(Writers)
        /\ Len(RemoveWriter(w)) = L - 1
        /\ \A j \in 1 .. L - 1 :
             RemoveWriter(w)[j] = IF j = w THEN WriteHandles[L] ELSE WriteHandles[j]
    BY ONLY <2>1, <2>2, RemoveWriterFacts
  <2>4. DOMAIN RemoveWriter(w) = 1 .. L - 1
    BY <2>3
  <2> QED
    BY <1>1, <2>1, <2>3, <2>4
<1> HIDE DEF L
<1>4. ASSUME NEW h \in Handles \ ClosedHandles
      PROVE  /\ Has(WriteHandles', WritersOf(h)) <=> Has(WriteHandles, WritersOf(h))
             /\ Once(WriteHandles, WritersOf(h)) => Once(WriteHandles', WritersOf(h))
  <2>1. WriteHandles[writerIx].Pipe # h
    BY <1>2, <1>4
  <2>2. PICK X : X = WritersOf(h)
    OBVIOUS
  <2>3. WriteHandles[writerIx] \notin X
    BY <1>2, <2>1, <2>2, WriterOf
  <2>4. ASSUME NEW j \in DOMAIN WriteHandles', WriteHandles'[j] \in X
        PROVE  Has(WriteHandles, X)
    BY <1>2, <1>3, <2>4 DEF Has
  <2>5. ASSUME NEW j \in DOMAIN WriteHandles, WriteHandles[j] \in X
        PROVE  Has(WriteHandles', X)
    <3>1. j # writerIx
      BY <2>3, <2>5
    <3>2. CASE j = L
      <4>1. writerIx \in 1 .. L - 1
        BY <1>2, <3>1, <3>2
      <4>2. WriteHandles'[writerIx] \in X
        BY <1>3, <2>5, <3>2, <4>1
      <4> QED
        BY <1>3, <4>1, <4>2 DEF Has
    <3>3. CASE j # L
      <4>1. j \in 1 .. L - 1 /\ WriteHandles'[j] \in X
        BY <1>2, <1>3, <2>5, <3>1, <3>3
      <4> QED
        BY <1>3, <4>1 DEF Has
    <3> QED
      BY <3>2, <3>3
  <2>6. ASSUME Once(WriteHandles, X), NEW i \in 1 .. L - 1, NEW j \in 1 .. L - 1,
               WriteHandles'[i] \in X, WriteHandles'[j] \in X
        PROVE  i = j
    <3>1. /\ i = writerIx => WriteHandles[L] \in X
          /\ i # writerIx => WriteHandles[i] \in X
          /\ j = writerIx => WriteHandles[L] \in X
          /\ j # writerIx => WriteHandles[j] \in X
      BY <1>3, <2>6
    <3>2. L \in DOMAIN WriteHandles /\ i \in DOMAIN WriteHandles /\ j \in DOMAIN WriteHandles
          /\ i # L /\ j # L
      BY <1>2
    <3> QED
      BY <2>6, <3>1, <3>2 DEF Once
  <2>7. Has(WriteHandles', X) <=> Has(WriteHandles, X)
    BY <2>4, <2>5 DEF Has
  <2>8. Once(WriteHandles, X) => Once(WriteHandles', X)
    BY <1>3, <2>6 DEF Once
  <2> QED
    BY <2>2, <2>7, <2>8
<1>5. \A h \in Handles : SameClient(h)
  BY <1>1, <1>4, FeedPrimed DEF SameClient, Subscribed, IsPipeClosed
<1>6. Refines
  BY <1>1, <1>5, Stutters DEF Retired
<1>7. CalmInv'
  <2>1. ASSUME NEW j \in DOMAIN WriteHandles', WriteHandles'[j].freed
        PROVE  WriteHandles'[j].Pipe \in ClosedHandles'
    <3>1. PICK i \in DOMAIN WriteHandles : WriteHandles'[j] = WriteHandles[i]
      BY <1>2, <1>3
    <3> QED
      BY <1>1, <2>1, <3>1 DEF FeedInv, CalmInv, IsPipeClosed
  <2> QED
    BY <1>1, <2>1 DEF FeedInv, CalmInv, IsPipeClosed
<1>8. WishInv'
  <2>1. ASSUME NEW h \in Handles \ ClosedHandles
        PROVE  WishesOnce(h)'
    BY <1>1, <1>4, WishKept DEF FeedInv, WishInv
  <2> QED
    BY <1>1, <2>1 DEF WishInv
<1>9. NumberInv'
  BY <1>1 DEF FeedInv, NumberInv, Retired
<1>10. DueInv'
  <2>1. ASSUME NEW j \in DOMAIN WriteHandles', Subscribed(WriteHandles[j].Pipe)'
        PROVE  \E i \in DOMAIN WriteHandles :
                 /\ WriteHandles[i].Pipe = WriteHandles'[j].Pipe
                 /\ Subscribed(WriteHandles[i].Pipe)
                 /\ feed'[WriteHandles[i].Pipe] = feed[WriteHandles[i].Pipe]
                 /\ i > writerIx <=> j > writerIx - 1
    <3>1. j \in 1 .. L - 1
      BY <1>3
    <3>2. PICK i \in 1 .. L : /\ WriteHandles'[j] = WriteHandles[i]
                              /\ i > writerIx <=> j > writerIx - 1
      <4>1. CASE j = writerIx
        <5>1. WriteHandles'[j] = WriteHandles[L] /\ L > writerIx /\ j > writerIx - 1
          BY <1>2, <1>3, <3>1, <4>1
        <5> QED
          BY <1>2, <5>1
      <4>2. CASE j # writerIx
        <5>1. WriteHandles'[j] = WriteHandles[j] /\ j \in 1 .. L
          BY <1>2, <1>3, <3>1, <4>2
        <5>2. j > writerIx <=> j > writerIx - 1
          BY <1>2, <3>1, <4>2
        <5> QED
          BY <5>1, <5>2
      <4> QED
        BY <4>1, <4>2
    <3>3. PICK h \in Handles : h = WriteHandles[i].Pipe /\ h = WriteHandles'[j].Pipe
      BY <1>2, <3>2, FeedTypes
    <3>4. Subscribed(h)'
      BY <2>1, <3>3, FeedPrimed
    <3>5. Subscribed(h)
      BY <1>5, <3>4 DEF SameClient
    <3> QED
      BY <1>1, <1>2, <3>2, <3>3, <3>5
  <2> QED
    BY <1>1, <1>2, <1>3, <2>1, DueKept
<1>11. UnsentInv'
  <2>1. ASSUME NEW h \in Handles \ ClosedHandles', ~Has(WriteHandles', WritersOf(h))
        PROVE  feed'[h] = <<>>
    BY <1>1, <1>4, <2>1 DEF FeedInv, UnsentInv
  <2> QED
    BY <2>1, FeedPrimed
<1> QED
  BY <1>6, <1>7, <1>8, <1>9, <1>10, <1>11 DEF FeedInv

\* The messages are dropped when every subscriber has them (WriteAllMessages).
LEMMA DropFeed ==
  ASSUME FeedInv, IInv', FinishFlush
  PROVE  FeedInv' /\ Refines
<1>1. /\ UNCHANGED <<state, unread, asked, feed, apcs, ClosedHandles, WriteHandles, posted>>
      /\ Outbox' = <<>>
      /\ Flushing /\ ~Flushing' /\ msgIx' = 1 /\ pc # "crashed" /\ pc' = "wait"
      /\ writerIx = 0 /\ msgIx = Len(Outbox)
  BY DEF FinishFlush, FeedInv, CalmInv, Flushing, Blocked, winVars, pipeVars, ioVars
<1>2. Len(Outbox') = 0
  BY <1>1
<1>3. \A h \in Handles : SameClient(h)
  BY <1>1, FeedPrimed DEF SameClient, Subscribed, IsPipeClosed
<1>4. ASSUME NEW i \in DOMAIN WriteHandles, NEW h \in Handles, h = WriteHandles[i].Pipe, Subscribed(h)
      PROVE  NextFor(h) = posted + 1 /\ NextFor(h)' = posted + 1
  <2>1. PICK n \in Nat : n = Retired /\ n + Len(Outbox) = posted
    BY FeedTypes
  <2>2. Len(Outbox) \in Nat \ {0} /\ posted \in Nat
    BY <1>1, FeedTypes
  <2>3. Due(i) = posted + 1
    <3>1. i > writerIx
      BY <1>1, FeedTypes
    <3>2. Due(i) = n + msgIx + 1
      BY <1>1, <2>1, <3>1 DEF Due
    <3> QED
      BY <1>1, <2>1, <2>2, <3>2
  <2>4. NextFor(h) = posted + 1
    BY <1>1, <1>4, <2>3 DEF FeedInv, DueInv
  <2>5. NextFor(h) = IF feed[h] = <<>> THEN n + 1 ELSE feed[h][Len(feed[h])] + 1
    BY <2>1 DEF NextFor
  <2>6. feed[h] # <<>>
    BY <2>1, <2>2, <2>4, <2>5
  <2>7. NextFor(h)' = feed[h][Len(feed[h])] + 1
    BY <1>1, <2>6 DEF NextFor
  <2> QED
    BY <2>4, <2>5, <2>6, <2>7
<1>5. Retired' = posted /\ Retired' \in Nat
  BY <1>1, <1>2, FeedTypes DEF Retired
<1>6. Refines
  <2>1. ASSUME NEW h \in Handles, Subscribed(h)
        PROVE  NextFor(h) = posted + 1
    <3>1. PICK i \in DOMAIN WriteHandles : WriteHandles[i].Pipe = h
      BY <2>1, FeedTypes, HasWriter DEF Subscribed
    <3> QED
      BY <1>4, <2>1, <3>1
  <2> QED
    BY <1>1, <1>3, <1>5, <2>1, Retires
<1>7. CalmInv' /\ WishInv'
  BY <1>1 DEF FeedInv, CalmInv, IsPipeClosed, WishInv, WishesOnce, Has, Once, Wishes, WritersOf
<1>8. NumberInv'
  <2>1. DOMAIN Outbox' = {}
    BY <1>1
  <2> QED
    BY <1>5, <2>1 DEF NumberInv
<1>9. DueInv'
  <2>1. ASSUME NEW i \in DOMAIN WriteHandles, Subscribed(WriteHandles[i].Pipe)'
        PROVE  NextFor(WriteHandles[i].Pipe)' = Due(i)'
    <3>1. PICK h \in Handles : h = WriteHandles[i].Pipe
      BY <2>1, FeedTypes
    <3>2. Subscribed(h)'
      BY <1>1, <2>1, <3>1, FeedPrimed
    <3>3. NextFor(h)' = posted + 1
      BY <1>3, <1>4, <3>1, <3>2 DEF SameClient
    <3>4. Due(i)' = posted + 1
      BY <1>1, <1>5, FeedTypes DEF Due
    <3>5. NextFor(WriteHandles[i].Pipe)' = NextFor(h)'
      BY <1>1, <3>1 DEF NextFor
    <3> QED
      BY <3>3, <3>4, <3>5
  <2> QED
    BY <1>1, <2>1 DEF DueInv
<1>10. UnsentInv'
  BY <1>1, FeedPrimed DEF FeedInv, UnsentInv
<1> QED
  BY <1>6, <1>7, <1>8, <1>9, <1>10 DEF FeedInv

\* A message that is pushed gets the next number.
LEMMA Numbered ==
  ASSUME FeedInv, \/ UNCHANGED <<Outbox, posted>>
                  \/ Outbox' = Append(Outbox, posted + 1) /\ posted' = posted + 1
  PROVE  Retired' = Retired /\ Retired \in Nat /\ NumberInv'
<1>1. CASE UNCHANGED <<Outbox, posted>>
  BY <1>1, FeedTypes DEF FeedInv, NumberInv, Retired
<1>2. CASE Outbox' = Append(Outbox, posted + 1) /\ posted' = posted + 1
  <2>1. PICK m \in Nat, n \in Nat : m = Len(Outbox) /\ n = Retired /\ posted = n + m
    <3>1. Len(Outbox) \in Nat /\ Retired \in Nat /\ posted = Retired + Len(Outbox)
      BY FeedTypes
    <3> QED
      BY <3>1
  <2>2. /\ Len(Outbox') = m + 1 /\ DOMAIN Outbox' = 1 .. m + 1
        /\ Outbox'[m + 1] = n + m + 1
        /\ \A k \in 1 .. m : Outbox'[k] = Outbox[k]
    BY <1>2, <2>1, FeedTypes
  <2>3. \A k \in 1 .. m : Outbox[k] = n + k
    BY <2>1, FeedTypes DEF FeedInv, NumberInv
  <2>4. \A k \in 1 .. m + 1 : Outbox'[k] = n + k
    BY <2>1, <2>2, <2>3
  <2>5. Retired' = n
    BY <1>2, <2>1, <2>2 DEF Retired
  <2> QED
    BY <2>1, <2>2, <2>4, <2>5 DEF NumberInv
<1> QED
  BY <1>1, <1>2

\* Between two flushes every subscriber is due the oldest message that is kept.
LEMMA DueAtRest ==
  ASSUME FeedInv, ~Flushing, pc # "crashed", NEW h \in Handles, Subscribed(h)
  PROVE  NextFor(h) = Retired + 1
<1>1. PICK i \in DOMAIN WriteHandles : WriteHandles[i].Pipe = h
  BY FeedTypes, HasWriter DEF Subscribed
<1>2. NextFor(h) = Due(i)
  BY <1>1 DEF FeedInv, DueInv
<1>3. msgIx = 1 /\ Retired \in Nat
  BY FeedTypes DEF FeedInv, CalmInv
<1>4. Due(i) = Retired + 1
  BY <1>3 DEF Due
<1> QED
  BY <1>2, <1>4

\* And that is enough.
LEMMA DueAfter ==
  ASSUME IInv', CalmInv', ~Flushing', pc' # "crashed", Retired' \in Nat,
         \A h \in Handles : Subscribed(h)' => NextFor(h)' = Retired' + 1
  PROVE  DueInv'
<1>1. /\ msgIx' = 1
      /\ \A i \in DOMAIN WriteHandles' : WriteHandles'[i].Pipe \in Handles
  <2>1. \A i \in DOMAIN WriteHandles' : WriteHandles'[i] \in Writers
    <3>1. WriteHandles' \in Seq(Writers)
      BY DEF IInv, TypeOK, ServerTypeOK, Writers
    <3> QED
      BY <3>1
  <2>2. \A w \in Writers : w.Pipe \in Handles
    BY DEF Writers
  <2> QED
    BY <2>1, <2>2 DEF CalmInv
<1>2. ASSUME NEW i \in DOMAIN WriteHandles', Subscribed(WriteHandles[i].Pipe)'
      PROVE  NextFor(WriteHandles[i].Pipe)' = Due(i)'
  <2>1. PICK h \in Handles : h = WriteHandles'[i].Pipe
    BY <1>1
  <2>2. Subscribed(h)'
    BY <1>2, <2>1, FeedPrimed
  <2>3. NextFor(h)' = Retired' + 1
    BY <2>2
  <2>4. Due(i)' = Retired' + 1
    BY <1>1 DEF Due
  <2>5. NextFor(WriteHandles[i].Pipe)' = NextFor(h)'
    BY <2>1 DEF NextFor
  <2> QED
    BY <2>3, <2>4, <2>5
<1> QED
  BY <1>2 DEF DueInv

\* The application posts a message, never during a flush.
LEMMA PostFeed ==
  ASSUME FeedInv, IInv', Write, ~ForeignWrites
  PROVE  FeedInv' /\ Refines
<1>1. /\ UNCHANGED <<pc, state, unread, asked, feed, apcs, ClosedHandles, WriteHandles, msgIx, writerIx>>
      /\ Outbox' = Append(Outbox, posted + 1) /\ posted' = posted + 1
      /\ ~Flushing /\ ~Flushing' /\ pc # "crashed"
  BY DEF Write, Flushing, Blocked, winVars, pipeVars, ioVars, loopVars
<1>2. Retired' = Retired /\ Retired \in Nat /\ NumberInv'
  BY <1>1, Numbered
<1>3. \A h \in Handles : SameClient(h)
  BY <1>1, FeedPrimed DEF SameClient, Subscribed, IsPipeClosed
<1>4. Refines
  BY <1>1, <1>2, <1>3, Posts
<1>5. CalmInv' /\ WishInv' /\ UnsentInv'
  BY <1>1 DEF FeedInv, CalmInv, IsPipeClosed, WishInv, WishesOnce, Has, Once, Wishes, WritersOf, UnsentInv
<1>6. ASSUME NEW h \in Handles, Subscribed(h)'
      PROVE  NextFor(h)' = Retired' + 1
  <2>1. Subscribed(h) /\ feed'[h] = feed[h]
    BY <1>3, <1>6 DEF SameClient
  <2>2. NextFor(h)' = NextFor(h)
    BY <1>2, <2>1 DEF NextFor
  <2> QED
    BY <1>1, <1>2, <2>1, <2>2, DueAtRest
<1>7. DueInv'
  BY <1>1, <1>2, <1>5, <1>6, DueAfter
<1> QED
  BY <1>2, <1>4, <1>5, <1>7 DEF FeedInv

\* Stop lets every client that listens go (StopServer).
LEMMA StopWriterFeed ==
  ASSUME FeedInv, IInv', StopWriter
  PROVE  FeedInv' /\ Refines
<1>1. /\ UNCHANGED <<posted, Outbox, sends, msgIx>>
      /\ ~Flushing /\ ~Flushing' /\ pc # "crashed"
      /\ WriteHandles # <<>> /\ WriteHandles' = Tail(WriteHandles)
      /\ Retired' = Retired /\ Retired \in Nat /\ NumberInv'
  BY FeedTypes, Numbered DEF StopWriter, Flushing, Blocked, boxVars, loopVars
<1>2. PICK w \in Writers, p \in Handles :
        /\ w = Head(WriteHandles) /\ p = w.Pipe
        /\ w = WriteHandles[1] /\ 1 \in DOMAIN WriteHandles
  BY <1>1, FeedTypes, TailFacts
<1>3. /\ WinTypeOK' /\ Alike(p) /\ ClosedHandles \subseteq ClosedHandles'
      /\ ClosedHandles' = ClosedHandles \union {p}
      /\ apcs' = apcs \/ apcs' = Append(apcs, Failed(p))
      /\ p \notin ClosedHandles => state'[p] # "connected" /\ pc' # "crashed"
  <2>1. CASE w.freed
    <3>1. p \in ClosedHandles
      BY <1>2, <2>1 DEF FeedInv, CalmInv, IsPipeClosed
    <3> QED
      BY <1>1, <1>2, <2>1, <3>1, FeedTypes DEF StopWriter, Alike, WinTypeOK, pipeVars, ioVars, evVars
  <2>2. CASE ~w.freed
    <3>1. DisconnectAndClose(p, apcs) /\ pc' = pc
      BY <1>2, <2>2 DEF StopWriter
    <3>2. p \notin ClosedHandles => Open(p)
      <4>1. Has(WriteHandles, WritersOf(p))
        BY <1>2, FeedTypes, HasWriter
      <4> QED
        BY <4>1, WriterOpen DEF Accepted, Open, IsPipeClosed
    <3> QED
      BY <1>1, <3>1, <3>2, FeedTypes, ClosingFacts
  <2> QED
    BY <2>1, <2>2
<1>4. \A h \in Handles :
        /\ Has(WriteHandles', WritersOf(h)) => Has(WriteHandles, WritersOf(h))
        /\ Once(WriteHandles, WritersOf(h)) => Once(WriteHandles', WritersOf(h))
        /\ h # p /\ Has(WriteHandles, WritersOf(h)) => Has(WriteHandles', WritersOf(h))
  <2>1. ASSUME NEW h \in Handles, NEW X, X = WritersOf(h)
        PROVE  /\ Has(WriteHandles', X) => Has(WriteHandles, X)
               /\ Once(WriteHandles, X) => Once(WriteHandles', X)
               /\ h # p /\ Has(WriteHandles, X) => Has(WriteHandles', X)
    <3>1. /\ Has(WriteHandles, X) <=> w \in X \/ Has(WriteHandles', X)
          /\ Once(WriteHandles, X) => Once(WriteHandles', X)
      BY <1>1, <1>2, FeedTypes, TailHas
    <3>2. w \in X <=> h = p
      BY <1>2, <2>1, WriterOf
    <3> QED
      BY <3>1, <3>2
  <2> QED
    BY <2>1
<1>5. \A h \in Handles \ {p} : SameClient(h)
  BY <1>3, <1>4, FeedPrimed DEF SameClient, Subscribed, IsPipeClosed, Alike
<1>6. Refines
  <2>1. CASE state'[p] # "connected"
    BY <1>1, <1>5, <2>1, Leaves
  <2>2. CASE state'[p] = "connected"
    <3>1. SameClient(p)
      <4>1. p \in ClosedHandles
        BY <1>3, <2>2
      <4>2. state[p] = "connected"
        BY <1>1, <1>2, <2>2, <4>1, FeedTypes, ClosingFacts DEF StopWriter, pipeVars
      <4> QED
        BY <1>3, <2>2, <4>1, <4>2, FeedPrimed DEF SameClient, Subscribed, IsPipeClosed
    <3> QED
      BY <1>1, <1>5, <3>1, Stutters
  <2> QED
    BY <2>1, <2>2
<1>7. CalmInv'
  <2>1. ASSUME NEW j \in DOMAIN WriteHandles', WriteHandles'[j].freed
        PROVE  WriteHandles'[j].Pipe \in ClosedHandles'
    <3>1. PICK i \in DOMAIN WriteHandles : WriteHandles'[j] = WriteHandles[i]
      BY <1>1, FeedTypes, TailFacts
    <3> QED
      BY <1>3, <2>1, <3>1 DEF FeedInv, CalmInv, IsPipeClosed
  <2> QED
    BY <1>1, <2>1 DEF StopWriter, FeedInv, CalmInv, IsPipeClosed
<1>8. WishInv'
  <2>1. ASSUME NEW h \in Handles \ ClosedHandles'
        PROVE  WishesOnce(h)'
    <3>1. WishesOnce(h) /\ unread'[h] = unread[h] /\ asked'[h] = asked[h]
      BY <1>3, <2>1 DEF FeedInv, WishInv, Alike
    <3>2. /\ Has(apcs', Wishes(h)) => Has(apcs, Wishes(h))
          /\ Once(apcs, Wishes(h)) => Once(apcs', Wishes(h))
      BY <1>3, <2>1, FeedTypes, WishesOfOthers, NoWish
    <3> QED
      BY <1>4, <2>1, <3>1, <3>2, WishKept
  <2> QED
    BY <2>1 DEF WishInv
<1>9. DueInv'
  <2>1. ASSUME NEW h \in Handles, Subscribed(h)'
        PROVE  NextFor(h)' = Retired' + 1
    <3>1. Subscribed(h) /\ feed'[h] = feed[h]
      BY <1>3, <1>5, <2>1, FeedPrimed DEF SameClient
    <3>2. NextFor(h)' = NextFor(h)
      BY <1>1, <3>1 DEF NextFor
    <3> QED
      BY <1>1, <3>1, <3>2, DueAtRest
  <2>2. CASE pc' = "crashed"
    BY <2>2 DEF DueInv
  <2> QED
    BY <1>1, <1>7, <2>1, <2>2, DueAfter
<1>10. UnsentInv'
  <2>1. ASSUME NEW h \in Handles \ ClosedHandles', ~Has(WriteHandles', WritersOf(h))
        PROVE  feed'[h] = <<>>
    BY <1>3, <1>4, <2>1 DEF FeedInv, UnsentInv, Alike
  <2> QED
    BY <2>1, FeedPrimed
<1> QED
  BY <1>1, <1>6, <1>7, <1>8, <1>9, <1>10 DEF FeedInv

\* The accepting pipe is closed: nothing was read from its client yet, and nothing sent
\* to it (StopServer).
LEMMA StopListeningFeed ==
  ASSUME FeedInv, IInv', StopListening
  PROVE  FeedInv' /\ Refines
<1>1. /\ UNCHANGED <<posted, Outbox, sends, msgIx, ClosedHandles, WriteHandles>>
      /\ ~Flushing /\ ~Flushing' /\ pc # "crashed" /\ pc' = "stopped"
      /\ WriteHandles = <<>>
      /\ Retired' = Retired /\ Retired \in Nat /\ NumberInv'
  BY FeedTypes, Numbered DEF StopListening, Flushing, Blocked, boxVars, loopVars
<1>2. \A h : ~Subscribed(h) /\ ~Subscribed(h)'
  BY <1>1 DEF Subscribed, Has
<1>3. CalmInv'
  BY <1>1 DEF FeedInv, CalmInv
<1>4. DueInv'
  BY <1>1, <1>2, <1>3, DueAfter
<1>5. CASE Open(listenPipe)
  <2>1. PICK p \in Handles : p = listenPipe /\ Close(p, apcs)
    BY <1>1, <1>5 DEF StopListening, Open
  <2>2. /\ Alike(p) /\ state'[p] = "closed" /\ unread'[p] = <<>> /\ feed'[p] = <<>>
        /\ apcs' = apcs \/ apcs' = Append(apcs, Failed(p))
    BY <1>1, <2>1, FeedTypes, CloseFacts
  <2>3. \A h \in Handles \ {p} : SameClient(h)
    BY <1>2, <2>2 DEF SameClient, Alike
  <2>4. Refines
    BY <1>1, <2>2, <2>3, Leaves
  <2>5. ASSUME NEW h \in Handles \ ClosedHandles
        PROVE  WishesOnce(h)'
    <3>1. WishesOnce(h)
      BY <2>5 DEF FeedInv, WishInv
    <3>2. /\ Has(apcs', Wishes(h)) => Has(apcs, Wishes(h))
          /\ Once(apcs, Wishes(h)) => Once(apcs', Wishes(h))
      BY <2>2, FeedTypes, WishesOfOthers, NoWish
    <3>3. CASE h # p
      BY <1>1, <2>2, <3>1, <3>2, <3>3, WishKept DEF Alike
    <3>4. CASE h = p
      <4>1. ~Has(apcs, Wishes(p))
        <5>1. ASSUME NEW i \in DOMAIN apcs, apcs[i] \in Wishes(p)
              PROVE  FALSE
          <6>1. apcs[i].Pipe = p
            BY <5>1 DEF Wishes
          <6>2. ApcLive(apcs[i])
            BY DEF FeedInv, IInv, ApcInv
          <6> QED
            BY <2>1, <2>5, <3>4, <6>1, <6>2 DEF ApcLive, IsPipeClosed, Accepted
        <5> QED
          BY <5>1 DEF Has
      <4>2. ~Has(apcs', Wishes(p)) /\ Once(apcs', Wishes(p))
        BY <3>1, <3>2, <3>4, <4>1 DEF WishesOnce
      <4>3. /\ ~Has(WriteHandles', WritersOf(p)) /\ Once(WriteHandles', WritersOf(p))
            /\ ~Has(unread'[p], {"listener"}) /\ Once(unread'[p], {"listener"})
        BY <1>1, <2>2 DEF Has, Once
      <4> QED
        BY <3>4, <4>2, <4>3 DEF WishesOnce, Has, Once, Wishes, WritersOf
    <3> QED
      BY <3>3, <3>4
  <2>6. WishInv'
    BY <1>1, <2>5 DEF WishInv
  <2>7. UnsentInv'
    <3>1. ASSUME NEW h \in Handles \ ClosedHandles', ~Has(WriteHandles', WritersOf(h))
          PROVE  feed'[h] = <<>>
      BY <1>1, <2>2, <3>1 DEF FeedInv, UnsentInv, Alike
    <3> QED
      BY <3>1, FeedPrimed
  <2> QED
    BY <1>1, <1>3, <1>4, <2>4, <2>6, <2>7 DEF FeedInv
<1>6. CASE ~Open(listenPipe)
  <2>1. UNCHANGED <<state, unread, asked, feed, apcs>>
    BY <1>6 DEF StopListening, pipeVars, ioVars
  <2>2. \A i \in DOMAIN WriteHandles : Due(i)' = Due(i)
    BY <1>1 DEF Due
  <2> QED
    BY <1>1, <1>3, <2>1, <2>2, CalmFeed
<1> QED
  BY <1>5, <1>6

\* A client comes, sends or goes, and nothing else changes; what it sends completes a
\* read of its pipe or waits there.
LEMMA ClientFacts ==
  ASSUME FeedInv, NEW p \in Handles,
         ClientConnect(p) \/ (\E r \in Requests : ClientSend(p, r)) \/ ClientHangUp(p)
  PROVE  /\ Alike(p) /\ feed' = feed
         /\ apcs' = apcs \/ \E x \in Apcs : x.Pipe = p /\ apcs' = Append(apcs, x)
         /\ \/ /\ state[p] = "listening" /\ state'[p] = "connected"
               /\ UNCHANGED <<unread, asked, apcs>>
            \/ /\ state[p] = "connected" /\ state'[p] \in {"connected", "broken"}
<1>1. /\ state \in [Handles -> PipeStates]
      /\ unread \in [Handles -> Seq(RequestKinds)]
      /\ asked \in [Handles -> BOOLEAN]
  BY FeedTypes DEF WinTypeOK
<1>2. CASE ClientConnect(p)
  BY <1>1, <1>2 DEF ClientConnect, ioVars, Alike
<1>3. CASE \E r \in Requests : ClientSend(p, r)
  <2>1. PICK r \in Requests : ClientSend(p, r)
    BY <1>3
  <2>2. Completed(p, r) \in Apcs /\ Completed(p, r).Pipe = p
    BY PipeAssumption DEF Completed, Apcs
  <2>3. Alike(p)
    BY <1>1, <2>1 DEF ClientSend, ioVars, Alike
  <2> QED
    BY <2>1, <2>2, <2>3 DEF ClientSend, ioVars
<1>4. CASE ClientHangUp(p)
  <2>1. Failed(p) \in Apcs /\ Failed(p).Pipe = p
    BY DEF Failed, Apcs, RequestKinds
  <2>2. Alike(p)
    BY <1>1, <1>4 DEF ClientHangUp, ioVars, Alike
  <2> QED
    BY <1>1, <1>4, <2>1, <2>2 DEF ClientHangUp, ioVars
<1> QED
  BY <1>2, <1>3, <1>4

\* A client that has not asked to listen yet makes one wish.
LEMMA SendWishes ==
  ASSUME FeedInv, NEW p \in Handles, NEW r \in Requests, ClientSend(p, r), ~asked[p],
         WishesOnce(p), WriteHandles' = WriteHandles
  PROVE  WishesOnce(p)'
<1>1. /\ asked'[p] <=> r = "listener"
      /\ \/ unread' = unread /\ apcs' = Append(apcs, Completed(p, r))
         \/ apcs' = apcs /\ unread'[p] = Append(unread[p], r)
  BY FeedTypes DEF ClientSend, ioVars, WinTypeOK
<1>2. ~Has(unread[p], {"listener"}) /\ ~Has(apcs, Wishes(p)) /\ ~Has(WriteHandles, WritersOf(p))
  BY DEF WishesOnce
<1>3. Completed(p, r) \in Apcs /\ (Completed(p, r) \in Wishes(p) <=> r = "listener")
  BY PipeAssumption DEF Completed, Apcs, Wishes
<1>4. r \in RequestKinds /\ unread[p] \in Seq(RequestKinds)
  BY PipeAssumption, FeedTypes DEF WinTypeOK
<1>5. /\ Has(WriteHandles, WritersOf(p))' <=> Has(WriteHandles, WritersOf(p))
      /\ Once(WriteHandles, WritersOf(p))'
      /\ Wishes(p)' = Wishes(p)
  BY DEF WishesOnce, Has, Once, Wishes, WritersOf
<1>6. CASE unread' = unread /\ apcs' = Append(apcs, Completed(p, r))
  <2>1. /\ Has(apcs', Wishes(p)) <=> r = "listener"
        /\ Once(apcs', Wishes(p))
    BY <1>2, <1>3, <1>6, FeedTypes, AppendHas DEF WishesOnce
  <2> QED
    BY <1>1, <1>2, <1>5, <1>6, <2>1 DEF WishesOnce
<1>7. CASE apcs' = apcs /\ unread'[p] = Append(unread[p], r)
  <2>1. /\ Has(unread'[p], {"listener"}) <=> r = "listener"
        /\ Once(unread'[p], {"listener"})
    BY <1>2, <1>4, <1>7, AppendHas DEF WishesOnce
  <2> QED
    BY <1>1, <1>2, <1>5, <1>7, <2>1 DEF WishesOnce
<1> QED
  BY <1>1, <1>6, <1>7

\* A client comes and does not listen yet, sends, or goes; a listener sends nothing
\* that could wake the server from a write to it.
LEMMA ClientFeed ==
  ASSUME FeedInv, IInv', ClientStep, QuietListeners
  PROVE  FeedInv' /\ Refines
<1>1. PICK p \in Handles :
        \/ (ClientConnect(p) \/ ClientHangUp(p)) /\ UNCHANGED serverVars
        \/ \E r \in Requests : Send(p, r) /\ Wake(p)
  BY DEF ClientStep
<1>2. /\ UNCHANGED <<ClosedHandles, WriteHandles, Outbox, posted, batch, msgIx, writerIx>>
      /\ Retired' = Retired
  BY <1>1 DEF serverVars, boxVars, loopVars, Wake, Retired
<1>3. /\ Alike(p) /\ feed' = feed
      /\ apcs' = apcs \/ \E x \in Apcs : x.Pipe = p /\ apcs' = Append(apcs, x)
      /\ \/ /\ state[p] = "listening" /\ state'[p] = "connected"
            /\ UNCHANGED <<unread, asked, apcs>>
         \/ /\ state[p] = "connected" /\ state'[p] \in {"connected", "broken"}
  BY <1>1, ClientFacts DEF Send
<1>4. pc' = pc
  <2>1. ASSUME NEW r \in Requests, Send(p, r), Wake(p), pc = "blocked", p = Writer.Pipe
        PROVE  FALSE
    <3>1. ~asked[p]
      BY <2>1 DEF Send
    <3>2. writerIx \in DOMAIN WriteHandles /\ ~IsPipeClosed(p)
      BY <2>1, FeedTypes DEF FeedInv, IInv, LoopInv, Blocked
    <3>3. Has(WriteHandles, WritersOf(p))
      BY <2>1, <3>2, FeedTypes, HasWriter DEF Writer
    <3> QED
      BY <3>1, <3>2, <3>3, WriterOpen
  <2> QED
    BY <1>1, <2>1 DEF serverVars, Wake
<1>5. \A h \in Handles \ {p} : SameClient(h)
  BY <1>2, <1>3, FeedPrimed DEF SameClient, Alike, Subscribed, IsPipeClosed
<1>6. Subscribed(p)' => Subscribed(p)
  <2>1. ASSUME Subscribed(p)', state[p] = "listening"
        PROVE  FALSE
    BY <1>2, <2>1, FeedPrimed, WriterOpen DEF Accepted, IsPipeClosed
  <2> QED
    BY <1>2, <1>3, <2>1, FeedPrimed DEF Subscribed, IsPipeClosed
<1>7. Refines
  <2>1. CASE state[p] = "listening"
    BY <1>2, <1>3, <1>5, <1>6, <2>1, Arrives DEF Subscribed
  <2>2. CASE state[p] = "connected" /\ state'[p] = "connected"
    <3>1. SameClient(p)
      BY <1>2, <1>3, <2>2, FeedPrimed DEF SameClient, Subscribed, IsPipeClosed
    <3> QED
      BY <1>2, <1>5, <3>1, Stutters
  <2>3. CASE state'[p] = "broken"
    BY <1>2, <1>5, <2>3, Leaves
  <2> QED
    BY <1>3, <2>1, <2>2, <2>3
<1>8. CalmInv' /\ NumberInv' /\ UnsentInv'
  BY <1>2, <1>3, <1>4 DEF FeedInv, CalmInv, IsPipeClosed, Flushing, Blocked, NumberInv, UnsentInv,
     Has, WritersOf
<1>9. DueInv'
  <2>1. ASSUME pc' # "crashed", NEW i \in DOMAIN WriteHandles, Subscribed(WriteHandles[i].Pipe)'
        PROVE  NextFor(WriteHandles[i].Pipe)' = Due(i)'
    <3>1. PICK h \in Handles : h = WriteHandles[i].Pipe
      BY <2>1, FeedTypes
    <3>2. Subscribed(h)
      <4>1. Subscribed(h)'
        BY <1>2, <2>1, <3>1, FeedPrimed
      <4> QED
        BY <1>5, <1>6, <4>1 DEF SameClient
    <3>3. NextFor(h) = Due(i)
      BY <1>4, <2>1, <3>1, <3>2 DEF FeedInv, DueInv
    <3>4. NextFor(WriteHandles[i].Pipe)' = NextFor(h)
      BY <1>2, <1>3, <3>1 DEF NextFor
    <3>5. Due(i)' = Due(i)
      BY <1>2, <1>4 DEF Due, Flushing, Blocked
    <3> QED
      BY <3>3, <3>4, <3>5
  <2> QED
    BY <1>2, <2>1 DEF DueInv
<1>10. WishInv'
  <2>1. ASSUME NEW h \in Handles \ ClosedHandles, h # p
        PROVE  WishesOnce(h)'
    <3>1. WishesOnce(h) /\ unread'[h] = unread[h] /\ asked'[h] = asked[h]
      BY <1>3, <2>1 DEF FeedInv, WishInv, Alike
    <3>2. /\ Has(apcs', Wishes(h)) => Has(apcs, Wishes(h))
          /\ Once(apcs, Wishes(h)) => Once(apcs', Wishes(h))
      BY <1>3, <2>1, FeedTypes, WishesOfOthers, NoWish
    <3> QED
      BY <1>2, <3>1, <3>2, WishKept
  <2>2. ASSUME p \notin ClosedHandles
        PROVE  WishesOnce(p)'
    <3>1. WishesOnce(p)
      BY <2>2 DEF FeedInv, WishInv
    <3>2. CASE ClientConnect(p)
      BY <1>2, <3>1, <3>2, WishKept DEF ClientConnect, ioVars
    <3>3. CASE ClientHangUp(p)
      <4>1. unread' = unread /\ asked' = asked /\ (apcs' = apcs \/ apcs' = Append(apcs, Failed(p)))
        BY <3>3 DEF ClientHangUp, ioVars
      <4>2. /\ Has(apcs', Wishes(p)) => Has(apcs, Wishes(p))
            /\ Once(apcs, Wishes(p)) => Once(apcs', Wishes(p))
        BY <4>1, FeedTypes, WishesOfOthers, NoWish
      <4> QED
        BY <1>2, <3>1, <4>1, <4>2, WishKept
    <3>4. ASSUME NEW r \in Requests, Send(p, r)
          PROVE  WishesOnce(p)'
      BY <1>2, <3>1, <3>4, SendWishes DEF Send
    <3> QED
      BY <1>1, <3>2, <3>3, <3>4
  <2> QED
    BY <1>2, <2>1, <2>2 DEF WishInv
<1> QED
  BY <1>7, <1>8, <1>9, <1>10 DEF FeedInv

\* A completion for a handle that was closed changes nothing (IsPipeClosed).
LEMMA StaleReadFeed ==
  ASSUME FeedInv, IInv', NEW p \in Handles, NEW err, NEW request, NEW q \in Seq(Apcs),
         HandleRead(p, err, request, q), IsPipeClosed(p),
         ~Flushing, ~Flushing', pc # "crashed", pc' # "crashed",
         \A h \in Handles : /\ Has(q, Wishes(h)) => Has(apcs, Wishes(h))
                            /\ Once(apcs, Wishes(h)) => Once(q, Wishes(h))
  PROVE  FeedInv' /\ Refines
<1>1. /\ UNCHANGED <<state, unread, asked, feed, ClosedHandles, WriteHandles, Outbox, posted, msgIx>>
      /\ apcs' = q
  <2>1. ClosedHandles' = ClosedHandles \ {INVALID} /\ ClosedHandles \subseteq Handles
    BY FeedTypes DEF HandleRead, Erased
  <2> QED
    BY <2>1, PipeAssumption DEF HandleRead, pipeVars, boxVars, loopVars
<1>2. \A h \in Handles : SameClient(h)
  BY <1>1, FeedPrimed DEF SameClient, Subscribed, IsPipeClosed
<1>3. Retired' = Retired /\ Retired \in Nat /\ NumberInv'
  BY <1>1, Numbered
<1>4. Refines
  BY <1>1, <1>2, <1>3, Stutters
<1>5. CalmInv' /\ UnsentInv'
  BY <1>1 DEF FeedInv, CalmInv, IsPipeClosed, Flushing, Blocked, UnsentInv, Has, WritersOf
<1>6. WishInv'
  <2>1. ASSUME NEW h \in Handles \ ClosedHandles
        PROVE  WishesOnce(h)'
    BY <1>1, WishKept DEF FeedInv, WishInv
  <2> QED
    BY <1>1, <2>1 DEF WishInv
<1>7. ASSUME NEW h \in Handles, Subscribed(h)'
      PROVE  NextFor(h)' = Retired' + 1
  <2>1. Subscribed(h) /\ NextFor(h)' = NextFor(h)
    BY <1>1, <1>2, <1>3, <1>7 DEF SameClient, NextFor
  <2> QED
    BY <1>3, <2>1, DueAtRest
<1>8. DueInv'
  BY <1>3, <1>5, <1>7, DueAfter
<1> QED
  BY <1>3, <1>4, <1>5, <1>6, <1>8 DEF FeedInv

\* A read of p moves a wish of its client from the pipe to the queue, and handling it
\* makes it a writer: it stays one wish (ReadFileEx, HandleRead).
LEMMA ReadWishes ==
  ASSUME WinTypeOK, sends' = sends, NEW p \in Handles, NEW q \in Seq(Apcs), ReadFileEx(p, q),
         WishesOnce(p),
         Has(q, Wishes(p)) => Has(apcs, Wishes(p)),
         Once(apcs, Wishes(p)) => Once(q, Wishes(p)),
         \/ WriteHandles' = WriteHandles
         \/ /\ ~Has(q, Wishes(p)) /\ Has(apcs, Wishes(p))
            /\ Once(WriteHandles, WritersOf(p)) /\ ~Has(WriteHandles, WritersOf(p))
                 => Once(WriteHandles', WritersOf(p))
  PROVE  WishesOnce(p)'
<1>1. unread[p] \in Seq(RequestKinds) /\ asked' = asked
  BY DEF WinTypeOK, ReadFileEx
<1>2. /\ Once(WriteHandles', WritersOf(p))
      /\ Has(WriteHandles', WritersOf(p)) =>
           asked[p] /\ ~Has(unread[p], {"listener"}) /\ ~Has(q, Wishes(p))
  <2>1. CASE WriteHandles' = WriteHandles
    BY <2>1 DEF WishesOnce
  <2>2. CASE WriteHandles' # WriteHandles
    BY <2>2 DEF WishesOnce
  <2> QED
    BY <2>1, <2>2
<1>3. CASE unread[p] # <<>> /\ unread'[p] = Tail(unread[p])
           /\ apcs' = Append(q, Completed(p, Head(unread[p])))
           /\ Completed(p, Head(unread[p])) \in Apcs
  <2>1. PICK x \in Apcs, r \in RequestKinds :
          r = Head(unread[p]) /\ x = Completed(p, r) /\ apcs' = Append(q, x)
    BY <1>1, <1>3
  <2>2. x \in Wishes(p) <=> r = "listener"
    BY <2>1 DEF Completed, Wishes
  <2>3. /\ Has(unread[p], {"listener"}) <=> r = "listener" \/ Has(unread'[p], {"listener"})
        /\ Once(unread'[p], {"listener"})
        /\ r = "listener" => ~Has(unread'[p], {"listener"})
    BY <1>1, <1>3, <2>1, TailHas DEF WishesOnce
  <2>4. /\ Has(apcs', Wishes(p)) <=> Has(q, Wishes(p)) \/ r = "listener"
        /\ Once(q, Wishes(p)) /\ (r = "listener" => ~Has(q, Wishes(p))) => Once(apcs', Wishes(p))
    <3>1. PICK X : X = Wishes(p)
      OBVIOUS
    <3>2. /\ Has(Append(q, x), X) <=> Has(q, X) \/ x \in X
          /\ Once(q, X) /\ (x \in X => ~Has(q, X)) => Once(Append(q, x), X)
      BY AppendHas
    <3> QED
      BY <2>1, <2>2, <3>1, <3>2
  <2>5. /\ r = "listener" => asked[p] /\ ~Has(q, Wishes(p)) /\ ~Has(WriteHandles', WritersOf(p))
        /\ Has(unread'[p], {"listener"}) =>
             asked[p] /\ ~Has(q, Wishes(p)) /\ ~Has(WriteHandles', WritersOf(p)) /\ r # "listener"
        /\ Has(q, Wishes(p)) => asked[p] /\ ~Has(WriteHandles', WritersOf(p))
        /\ Once(q, Wishes(p))
    BY <1>2, <2>3 DEF WishesOnce
  <2>6. /\ Once(unread'[p], {"listener"}) /\ Once(apcs', Wishes(p)) /\ Once(WriteHandles', WritersOf(p))
        /\ Has(unread'[p], {"listener"}) =>
             asked'[p] /\ ~Has(apcs', Wishes(p)) /\ ~Has(WriteHandles', WritersOf(p))
        /\ Has(apcs', Wishes(p)) => asked'[p] /\ ~Has(WriteHandles', WritersOf(p))
        /\ Has(WriteHandles', WritersOf(p)) => asked'[p]
    BY <1>1, <1>2, <2>3, <2>4, <2>5
  <2> QED
    BY <2>6 DEF WishesOnce, Has, Once, Wishes, WritersOf
<1>4. CASE unread' = unread /\ apcs' = q
  <2>1. /\ Once(unread'[p], {"listener"}) /\ Once(apcs', Wishes(p)) /\ Once(WriteHandles', WritersOf(p))
        /\ Has(unread'[p], {"listener"}) =>
             asked'[p] /\ ~Has(apcs', Wishes(p)) /\ ~Has(WriteHandles', WritersOf(p))
        /\ Has(apcs', Wishes(p)) => asked'[p] /\ ~Has(WriteHandles', WritersOf(p))
        /\ Has(WriteHandles', WritersOf(p)) => asked'[p]
    BY <1>1, <1>2, <1>4 DEF WishesOnce
  <2> QED
    BY <2>1 DEF WishesOnce, Has, Once, Wishes, WritersOf
<1> QED
  BY <1>3, <1>4, ReadFileExFacts

\* Handling a request posts a message, makes a listener of one who asked once, or
\* closes the pipe of a client that is gone or sent too much (HandleRead).
LEMMA HandleReadFeed ==
  ASSUME FeedInv, IInv', NEW p \in Handles, NEW err, NEW request \in RequestKinds,
         NEW q \in Seq(Apcs), HandleRead(p, err, request, q), ~IsPipeClosed(p), Accepted(p),
         ~Flushing, ~Flushing', pc # "crashed", pc' # "crashed",
         \A h \in Handles : /\ Has(q, Wishes(h)) => Has(apcs, Wishes(h))
                            /\ Once(apcs, Wishes(h)) => Once(q, Wishes(h)),
         ~err /\ request = "listener" =>
           /\ Has(apcs, Wishes(p))
           /\ Once(apcs, Wishes(p)) => ~Has(q, Wishes(p))
  PROVE  FeedInv' /\ Refines
<1> DEFINE new == [Pipe |-> p, freed |-> FALSE]
           Added == WriteHandles' # WriteHandles
<1>1. /\ WinTypeOK /\ sends' = sends /\ msgIx' = msgIx
      /\ p \notin ClosedHandles
  BY FeedTypes DEF HandleRead, IsPipeClosed, loopVars
<1>2. \/ err /\ DisconnectAndClose(p, q) /\ UNCHANGED <<WriteHandles, Outbox, posted>>
      \/ ~err /\ Dispatch(p, request) /\ ReadFileEx(p, q) /\ UNCHANGED ClosedHandles
      \/ ~err /\ Dispatch(p, request) /\ DisconnectAndClose(p, q) /\ state[p] # "connected"
  BY DEF HandleRead, Readable, boxVars
<1>3. \/ UNCHANGED <<Outbox, posted>>
      \/ /\ Outbox' = Append(Outbox, posted + 1) /\ posted' = posted + 1
         /\ ~err /\ request = "rejected" /\ WriteHandles' = WriteHandles
  BY <1>2 DEF Dispatch, boxVars
<1>4. Retired' = Retired /\ Retired \in Nat /\ NumberInv'
  BY <1>3, Numbered
<1>5. \/ WriteHandles' = WriteHandles
      \/ /\ ~err /\ request = "listener"
         /\ WriteHandles' = Append(WriteHandles, new)
  BY <1>2 DEF Dispatch
<1>6. ASSUME NEW h \in Handles
      PROVE  /\ Has(WriteHandles', WritersOf(h)) <=> Has(WriteHandles, WritersOf(h)) \/ (h = p /\ Added)
             /\ Once(WriteHandles, WritersOf(h)) /\ (h = p /\ Added => ~Has(WriteHandles, WritersOf(h)))
                  => Once(WriteHandles', WritersOf(h))
  <2>1. CASE Added
    <3>1. PICK w \in Writers : w = new /\ w.Pipe = p
      <4>1. new \in Writers /\ new.Pipe = p
        BY DEF Writers
      <4> HIDE DEF new
      <4> QED
        BY <4>1
    <3>2. PICK X : X = WritersOf(h)
      OBVIOUS
    <3>3. w \in X <=> h = p
      BY <3>1, <3>2, WriterOf
    <3>4. /\ Has(Append(WriteHandles, w), X) <=> Has(WriteHandles, X) \/ w \in X
          /\ Once(WriteHandles, X) /\ (w \in X => ~Has(WriteHandles, X))
               => Once(Append(WriteHandles, w), X)
      BY FeedTypes, AppendHas
    <3>5. WriteHandles' = Append(WriteHandles, w)
      BY <1>5, <2>1, <3>1
    <3> QED
      BY <2>1, <3>3, <3>4, <3>5, <3>2
  <2>2. CASE ~Added
    BY <2>2
  <2> QED
    BY <2>1, <2>2
<1>7. Added => ~err /\ request = "listener"
  BY <1>5
<1>8. /\ Alike(p) /\ ClosedHandles' \subseteq ClosedHandles \union {p}
      /\ ClosedHandles \subseteq ClosedHandles'
      /\ apcs' = q \/ \E x \in Apcs : x.Pipe = p /\ apcs' = Append(q, x)
      /\ \/ /\ p \in ClosedHandles' /\ state'[p] # "connected"
            /\ err \/ state[p] # "connected"
         \/ /\ ~err /\ ReadFileEx(p, q)
            /\ UNCHANGED <<state, asked, feed, ClosedHandles>>
  <2>1. CASE DisconnectAndClose(p, q) /\ (err \/ state[p] # "connected")
    <3>1. Failed(p) \in Apcs /\ Failed(p).Pipe = p
      BY DEF Failed, Apcs, RequestKinds
    <3>2. Open(p)
      BY DEF Accepted, Open
    <3>3. /\ Alike(p) /\ ClosedHandles' = ClosedHandles \union {p} /\ state'[p] = "closed"
          /\ apcs' = q \/ apcs' = Append(q, Failed(p))
      BY <1>1, <2>1, <3>2, FeedTypes, ClosingFacts
    <3> QED
      BY <2>1, <3>1, <3>3
  <2>2. CASE ~err /\ ReadFileEx(p, q) /\ UNCHANGED ClosedHandles
    <3>1. /\ Alike(p) /\ UNCHANGED <<state, asked, feed>>
          /\ \/ /\ apcs' = Append(q, Completed(p, Head(unread[p])))
                /\ Completed(p, Head(unread[p])) \in Apcs
             \/ apcs' = q
      BY <1>1, <2>2, ReadFileExFacts
    <3>2. Completed(p, Head(unread[p])).Pipe = p
      BY DEF Completed
    <3> QED
      BY <2>2, <3>1, <3>2
  <2> QED
    BY <1>2, <2>1, <2>2
<1>9. \A h \in Handles \ {p} : SameClient(h)
  BY <1>6, <1>8, FeedPrimed DEF SameClient, Alike, Subscribed, IsPipeClosed
<1>10. ASSUME NEW h \in Handles \ ClosedHandles', h # p
       PROVE  WishesOnce(h)'
  <2>1. WishesOnce(h)
    BY <1>8, <1>10 DEF FeedInv, WishInv
  <2>2. /\ Has(apcs', Wishes(h)) => Has(q, Wishes(h))
        /\ Once(q, Wishes(h)) => Once(apcs', Wishes(h))
    BY <1>8, <1>10, WishesOfOthers, NoWish
  <2>3. unread'[h] = unread[h] /\ asked'[h] = asked[h]
    BY <1>8, <1>10 DEF Alike
  <2> QED
    BY <1>6, <1>10, <2>1, <2>2, <2>3, WishKept
<1>11. ASSUME p \notin ClosedHandles'
       PROVE  WishesOnce(p)'
  <2>1. WishesOnce(p)
    BY <1>1 DEF FeedInv, WishInv
  <2>2. ReadFileEx(p, q)
    BY <1>8, <1>11
  <2>3. \/ WriteHandles' = WriteHandles
        \/ /\ ~Has(q, Wishes(p)) /\ Has(apcs, Wishes(p))
           /\ Once(WriteHandles, WritersOf(p)) /\ ~Has(WriteHandles, WritersOf(p))
                => Once(WriteHandles', WritersOf(p))
    <3>1. Once(apcs, Wishes(p))
      BY <2>1 DEF WishesOnce
    <3> QED
      BY <1>6, <1>7, <3>1
  <2> QED
    BY <1>1, <2>1, <2>2, <2>3, ReadWishes
<1>12. WishInv'
  BY <1>10, <1>11 DEF WishInv
<1>13. ASSUME Subscribed(p)'
       PROVE  /\ state[p] = "connected" /\ feed'[p] = feed[p] /\ ~err
              /\ ~Subscribed(p) => feed[p] = <<>>
  <2>1. p \notin ClosedHandles' /\ state'[p] = "connected"
    BY <1>13, FeedPrimed
  <2>2. ~err /\ state[p] = "connected" /\ feed'[p] = feed[p]
    BY <1>8, <2>1
  <2>3. ~Subscribed(p) => ~Has(WriteHandles, WritersOf(p))
    BY <2>2 DEF Subscribed
  <2> QED
    BY <1>1, <2>2, <2>3 DEF FeedInv, UnsentInv
<1>14. CalmInv'
  <2>1. ASSUME NEW i \in DOMAIN WriteHandles', WriteHandles'[i].freed
        PROVE  WriteHandles'[i].Pipe \in ClosedHandles'
    <3>1. WriteHandles'[i] = new \/ (i \in DOMAIN WriteHandles /\ WriteHandles'[i] = WriteHandles[i])
      <4>1. new \in Writers
        BY DEF Writers
      <4>2. CASE WriteHandles' = Append(WriteHandles, new)
        BY <4>1, <4>2, FeedTypes, AppendKeeps
      <4> QED
        BY <1>5, <4>2
    <3> QED
      BY <1>8, <2>1, <3>1 DEF FeedInv, CalmInv, IsPipeClosed
  <2>2. pc' # "woken"
    BY DEF Flushing, Blocked
  <2>3. msgIx' = 1
    BY <1>1 DEF FeedInv, CalmInv
  <2> QED
    BY <2>1, <2>2, <2>3 DEF CalmInv, IsPipeClosed
<1>15. DueInv'
  <2>1. ASSUME NEW h \in Handles, Subscribed(h)'
        PROVE  NextFor(h)' = Retired' + 1
    <3>1. CASE Subscribed(h)
      <4>1. NextFor(h) = Retired + 1
        BY <3>1, DueAtRest
      <4>2. feed'[h] = feed[h]
        BY <1>9, <1>13, <2>1, <3>1 DEF SameClient
      <4>3. NextFor(h)' = NextFor(h)
        BY <1>4, <4>2 DEF NextFor
      <4> QED
        BY <1>4, <4>1, <4>3
    <3>2. CASE ~Subscribed(h)
      <4>1. feed'[h] = <<>>
        BY <1>9, <1>13, <2>1, <3>2 DEF SameClient
      <4> QED
        BY <4>1 DEF NextFor
    <3> QED
      BY <3>1, <3>2
  <2> QED
    BY <1>4, <1>14, <2>1, DueAfter
<1>16. UnsentInv'
  <2>1. ASSUME NEW h \in Handles \ ClosedHandles', ~Has(WriteHandles', WritersOf(h))
        PROVE  feed'[h] = <<>>
    <3>1. h \notin ClosedHandles /\ feed'[h] = feed[h]
      BY <1>8, <2>1 DEF Alike
    <3>2. ~Has(WriteHandles, WritersOf(h))
      BY <1>6, <2>1
    <3> QED
      BY <3>1, <3>2 DEF FeedInv, UnsentInv
  <2> QED
    BY <2>1, FeedPrimed
<1>17. Refines
  <2>1. CASE posted' = posted /\ state'[p] # "connected"
    BY <1>4, <1>9, <2>1, Leaves
  <2>2. CASE posted' = posted /\ state'[p] = "connected" /\ Subscribed(p)' /\ ~Subscribed(p)
    <3>1. state[p] = "connected" /\ feed'[p] = <<>>
      BY <1>13, <2>2
    <3> QED
      BY <1>4, <1>9, <2>2, <3>1, Subscribes
  <2>3. ASSUME \/ posted' # posted
               \/ state'[p] = "connected" /\ ~(Subscribed(p)' /\ ~Subscribed(p))
        PROVE  SameClient(p)
    <3>1. CASE posted' # posted
      <4>1. ~err /\ WriteHandles' = WriteHandles
        BY <1>3, <3>1
      <4> QED
        BY <1>8, <4>1, FeedPrimed DEF SameClient, Subscribed, IsPipeClosed
    <3>2. CASE state'[p] = "connected" /\ ~(Subscribed(p)' /\ ~Subscribed(p))
      <4>1. /\ state[p] = "connected" /\ feed'[p] = feed[p]
            /\ ClosedHandles' = ClosedHandles
        BY <1>8, <3>2
      <4>2. Subscribed(p) => Subscribed(p)'
        BY <1>6, <3>2, <4>1, FeedPrimed DEF Subscribed, IsPipeClosed
      <4> QED
        BY <3>2, <4>1, <4>2 DEF SameClient
    <3> QED
      BY <2>3, <3>1, <3>2
  <2>4. CASE posted' = posted + 1 /\ SameClient(p)
    BY <1>4, <1>9, <2>4, Posts
  <2>5. CASE posted' = posted /\ SameClient(p)
    BY <1>4, <1>9, <2>5, Stutters
  <2>6. posted' = posted \/ (posted' = posted + 1 /\ posted' # posted)
    BY <1>3, FeedTypes
  <2> QED
    BY <2>1, <2>2, <2>3, <2>4, <2>5, <2>6
<1> QED
  BY <1>4, <1>12, <1>14, <1>15, <1>16, <1>17 DEF FeedInv

\* The first read of an accepted pipe, and the completions.
LEMMA ReadsFeed ==
  ASSUME FeedInv, IInv', FirstRead \/ RunApc
  PROVE  FeedInv' /\ Refines
<1>1. apcs \in Seq(Apcs)
  BY FeedTypes
<1>2. ~Flushing /\ ~Flushing' /\ pc # "crashed" /\ pc' # "crashed"
  BY DEF FirstRead, RunApc, Flushing, Blocked
<1>3. CASE FirstRead /\ reader \in Handles
  <2>1. HandleRead(reader, FALSE, "blank", apcs) /\ "blank" \in RequestKinds
    BY <1>3 DEF FirstRead, RequestKinds
  <2>2. PICK p \in Handles, e \in BOOLEAN, r \in RequestKinds, q \in Seq(Apcs) :
          p = reader /\ q = apcs /\ e = FALSE /\ r = "blank"
    BY <1>1, <1>3, <2>1
  <2>3. HandleRead(p, e, r, q)
    BY <2>1, <2>2
  <2>4. ~IsPipeClosed(p) => Accepted(p)
    BY <2>2 DEF FeedInv, IInv, AcceptInv
  <2> QED
    BY <1>2, <2>2, <2>3, <2>4, HandleReadFeed, StaleReadFeed
<1>4. CASE FirstRead /\ reader \notin Handles
  <2>1. ClosedHandles \subseteq Handles
    BY FeedTypes
  <2>2. UNCHANGED <<WriteHandles, ClosedHandles, Outbox, posted, state, unread, asked, feed, apcs,
                    batch, msgIx>>
    BY <1>4, <2>1 DEF FirstRead, HandleRead, IsPipeClosed, Dispatch, Readable, DisconnectAndClose, Open,
       pipeVars, boxVars, loopVars
  <2>3. \A i \in DOMAIN WriteHandles : Due(i)' = Due(i)
    BY <1>2, <2>2 DEF Due, Retired
  <2>4. CalmInv'
    BY <1>2, <2>2 DEF FeedInv, CalmInv, IsPipeClosed, Flushing, Blocked
  <2> QED
    BY <1>2, <2>2, <2>3, <2>4, CalmFeed
<1>5. CASE RunApc
  <2>1. PICK a \in Apcs, q \in Seq(Apcs) : a = Head(apcs) /\ q = Tail(apcs)
    BY <1>1, <1>5, TailFacts DEF RunApc
  <2>2. PICK p \in Handles, e \in BOOLEAN, r \in RequestKinds : p = a.Pipe /\ e = a.err /\ r = a.request
    BY DEF Apcs
  <2>3. HandleRead(p, e, r, q) /\ apcs # <<>>
    BY <1>5, <2>1, <2>2 DEF RunApc
  <2>4. ~IsPipeClosed(p) => Accepted(p)
    <3>1. a = apcs[1] /\ 1 \in DOMAIN apcs
      BY <1>1, <2>1, <2>3, TailFacts
    <3>2. ApcLive(a)
      BY <3>1 DEF FeedInv, IInv, ApcInv
    <3> QED
      BY <2>2, <3>2 DEF ApcLive
  <2>5. ASSUME NEW h \in Handles
        PROVE  /\ Has(apcs, Wishes(h)) <=> a \in Wishes(h) \/ Has(q, Wishes(h))
               /\ Once(apcs, Wishes(h)) => Once(q, Wishes(h)) /\ (a \in Wishes(h) => ~Has(q, Wishes(h)))
    <3>1. PICK X : X = Wishes(h)
      OBVIOUS
    <3>2. /\ Has(apcs, X) <=> Head(apcs) \in X \/ Has(Tail(apcs), X)
          /\ Once(apcs, X) => Once(Tail(apcs), X) /\ (Head(apcs) \in X => ~Has(Tail(apcs), X))
      BY <1>1, <2>3, TailHas
    <3> QED
      BY <2>1, <3>1, <3>2
  <2>6. r = "listener" => a \in Wishes(p)
    BY <2>2 DEF Apcs, Wishes
  <2> QED
    BY <1>2, <2>3, <2>4, <2>5, <2>6, HandleReadFeed, StaleReadFeed
<1> QED
  BY <1>3, <1>4, <1>5

\* Every step keeps what the feed rests on, and is one of ListenerFeed, or none.
LEMMA FeedStep ==
  ASSUME FeedInv, [Next]_vars, QuietListeners, ~ForeignWrites
  PROVE  FeedInv' /\ Refines
<1>1. IInv'
  BY NextInv DEF FeedInv
<1>2. CASE FirstRead \/ RunApc
  BY <1>1, <1>2, ReadsFeed
<1>3. CASE StopWriter \/ StopListening
  BY <1>1, <1>3, StopWriterFeed, StopListeningFeed
<1>4. CASE WriteMessage \/ WriteCompletes
  BY <1>1, <1>4, WriteFeed
<1>5. CASE SkipClosed \/ WriteFails \/ FinishFlush
  BY <1>1, <1>5, SkipFeed, WriteFailsFeed, DropFeed
<1>6. CASE WriteWoken
  BY <1>6 DEF WriteWoken, FeedInv, CalmInv
<1>7. CASE Write
  BY <1>1, <1>7, PostFeed
<1>8. CASE ClientStep
  BY <1>1, <1>8, ClientFeed
<1>9. CASE \/ Start \/ ConnectToPipe \/ HandleNewConnection \/ Stop \/ Tick \/ WriteAborts
           \/ WriteFreed \/ NextMessage \/ WaitTimesOut \/ StartApcs \/ EndApcs
           \/ UNCHANGED vars
  BY <1>1, <1>9, CalmSteps
<1> QED
  BY <1>2, <1>3, <1>4, <1>5, <1>6, <1>7, <1>8, <1>9 DEF Next, ServerStep, AppStep, Crashed

\* At first nobody is there and nothing is posted.
LEMMA FeedStart ==
  ASSUME Init
  PROVE  FeedInv /\ Feed!FeedInit
<1>1. /\ IInv
      /\ WriteHandles = <<>> /\ Outbox = <<>> /\ posted = 0 /\ apcs = <<>>
      /\ pc = "stopped" /\ msgIx = 1
      /\ \A h \in Handles : unread[h] = <<>> /\ feed[h] = <<>> /\ state[h] = "fresh"
  BY InitInv DEF Init, WinInit, ServerInit
<1>2. Retired = 0 /\ DOMAIN Outbox = {}
  <2>1. posted = 0 /\ Len(Outbox) = 0 /\ DOMAIN Outbox = {}
    BY <1>1
  <2> QED
    BY ONLY <2>1 DEF Retired
<1>3. FeedInv
  BY <1>1, <1>2 DEF FeedInv, CalmInv, Flushing, Blocked, WishInv, WishesOnce, NumberInv, DueInv,
     UnsentInv, Has, Once
<1>4. \A h \in Handles : state[h] # "connected" /\ ~Subscribed(h)
  BY <1>1 DEF Subscribed
<1>5. /\ {h \in Handles : state[h] = "connected"} = {}
      /\ {h \in Handles : Subscribed(h)} = {}
      /\ [h \in Handles |-> IF Subscribed(h) THEN feed[h] ELSE <<>>] = [h \in Handles |-> <<>>]
  <2>1. {h \in Handles : state[h] = "connected"} = {}
    BY <1>4
  <2>2. {h \in Handles : Subscribed(h)} = {}
    BY <1>4
  <2>3. \A h \in Handles : (IF Subscribed(h) THEN feed[h] ELSE <<>>) = <<>>
    BY <1>4
  <2> QED
    BY <2>1, <2>2, <2>3
<1>6. Feed!FeedInit
  BY <1>1, <1>2, <1>5 DEF Feed!FeedInit, Retired
<1> QED
  BY <1>3, <1>6

\* When listeners send nothing more and Write is called only between two ticks, every
\* listener gets every message from the backlog at its registration on, in order and
\* once, as long as its client is there and whatever the others do: every step is one
\* of ListenerFeed, or none (WriteAllMessages, RemoveWriter).
THEOREM FeedsGapless ==
  ASSUME QuietListeners, ~ForeignWrites
  PROVE  Spec => FeedGapless
<1>1. Init => FeedInv /\ Feed!FeedInit
  BY FeedStart
<1>2. FeedInv /\ [Next]_vars => FeedInv' /\ [Feed!FeedNext]_(Feed!feedVars)
  BY FeedStep DEF Refines
<1> QED
  BY <1>1, <1>2, PTL DEF Spec, FeedGapless, Feed!FeedSpec
================================================================================
