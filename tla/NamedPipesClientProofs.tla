-------------------------- MODULE NamedPipesClientProofs --------------------------
(***************************************************************************)
(* Theorems about NamedPipesClient, for every size of the pipe, every set  *)
(* of rejected messages and every bound.                                   *)
(***************************************************************************)
EXTENDS NamedPipesClient, FiniteSetTheorems, TLAPS

(***************************************************************************)
(* Facts about sequences.                                                  *)
(***************************************************************************)

\* What Append leaves where it is, and what it adds (ReadFileEx, WriteFile, Write).
LEMMA AppendFacts ==
  ASSUME NEW S, NEW s \in Seq(S), NEW x \in S
  PROVE  /\ Append(s, x) \in Seq(S)
         /\ Len(Append(s, x)) = Len(s) + 1
         /\ \A i \in 1 .. Len(s) : Append(s, x)[i] = s[i]
         /\ Append(s, x)[Len(s) + 1] = x
         /\ ToSet(Append(s, x)) = ToSet(s) \union {x}
<1>1. /\ Append(s, x) \in Seq(S)
      /\ Len(Append(s, x)) = Len(s) + 1
      /\ DOMAIN Append(s, x) = 1 .. Len(s) + 1
      /\ DOMAIN s = 1 .. Len(s)
      /\ \A i \in 1 .. Len(s) : Append(s, x)[i] = s[i]
      /\ Append(s, x)[Len(s) + 1] = x
      /\ Len(s) \in Nat
  OBVIOUS
<1> DEFINE t == Append(s, x)
<1> HIDE DEF t
<1>2. ToSet(t) = ToSet(s) \union {x}
  <2>1. ASSUME NEW y \in ToSet(t) PROVE y \in ToSet(s) \union {x}
    BY <1>1, <2>1 DEF ToSet, t
  <2>2. ASSUME NEW y \in ToSet(s) \union {x} PROVE y \in ToSet(t)
    BY <1>1, <2>2 DEF ToSet, t
  <2> QED
    BY <2>1, <2>2
<1> QED
  BY <1>1, <1>2 DEF t

\* The rest of a queue that is not empty.
LEMMA TailFacts ==
  ASSUME NEW S, NEW s \in Seq(S), s # <<>>
  PROVE  /\ Head(s) = s[1]
         /\ Head(s) \in S
         /\ Tail(s) \in Seq(S)
         /\ Len(Tail(s)) = Len(s) - 1
         /\ Len(s) > 0
         /\ \A i \in 1 .. Len(Tail(s)) : Tail(s)[i] = s[i + 1]
         /\ ToSet(Tail(s)) \subseteq ToSet(s)
         /\ Head(s) \in ToSet(s)
<1>1. /\ Head(s) = s[1]
      /\ Head(s) \in S
      /\ Tail(s) \in Seq(S)
      /\ Len(Tail(s)) = Len(s) - 1
      /\ Len(s) > 0
      /\ Len(s) \in Nat
      /\ DOMAIN Tail(s) = 1 .. Len(s) - 1
      /\ DOMAIN s = 1 .. Len(s)
      /\ \A i \in 1 .. Len(Tail(s)) : Tail(s)[i] = s[i + 1]
  OBVIOUS
<1>2. ToSet(Tail(s)) \subseteq ToSet(s) /\ Head(s) \in ToSet(s)
  BY <1>1 DEF ToSet
<1> QED
  BY <1>1, <1>2

\* Taking the first of a numbered queue, and adding the next one, leaves it numbered.
LEMMA NumberedFacts ==
  ASSUME NEW s \in Seq(Nat), NEW k \in Nat, Numbered(s, k)
  PROVE  /\ Append(s, k + Len(s) + 1) \in Seq(Nat)
         /\ Len(Append(s, k + Len(s) + 1)) = Len(s) + 1
         /\ Numbered(Append(s, k + Len(s) + 1), k)
         /\ s # <<>> => /\ Head(s) = k + 1
                        /\ Tail(s) \in Seq(Nat)
                        /\ Len(Tail(s)) + 1 = Len(s)
                        /\ Numbered(Tail(s), k + 1)
BY SMTT(30) DEF Numbered

\* Nothing on its way is in order from any number on.
LEMMA NumberedEmpty == \A k : Len(<<>>) = 0 /\ Numbered(<<>>, k)
BY DEF Numbered

(***************************************************************************)
(* The invariant holds at first, and every step keeps the types.           *)
(***************************************************************************)

\* Before StartClient nothing is read, posted or written.
LEMMA InitInv == Init => IInv
<1> SUFFICES ASSUME Init PROVE IInv
  OBVIOUS
<1> USE DEF Init
<1>1. <<>> \in Seq(Nat) /\ <<>> \in Seq(BOOLEAN) /\ Len(<<>>) = 0 /\ DOMAIN <<>> = {}
  OBVIOUS
<1>2. ToSet(<<>>) = {}
  BY <1>1 DEF ToSet
<1>3. Repeats = 0 /\ Taken = 0 /\ Pending = 0 /\ handled = 0
  <2>1. <<>> # Succeeded
    BY DEF Succeeded
  <2>2. Repeats = 0
    BY <1>1, <1>2, FS_EmptySet DEF Repeats
  <2>3. Pending = 0
    BY <1>1, ClientAssumption DEF Pending
  <2> QED
    BY <1>1, <2>1, <2>2, <2>3 DEF Taken
<1>4. TypeOK
  <2>1. /\ toServer \in Seq(Nat) /\ toClient \in Seq(Nat) /\ Outbox \in Seq(Nat)
        /\ sent \in Seq(Nat) /\ heard \in Seq(Nat) /\ written \in Seq(Nat)
        /\ arrived \in Seq(Nat) /\ apcs \in Seq(BOOLEAN)
    BY <1>1
  <2>2. /\ buffer \in Nat /\ posted \in Nat /\ batch \in Nat
        /\ msgIx \in 1 .. batch + 1
        /\ late \subseteq 1 .. posted
        /\ WriteHandles \in Nat /\ handled \in Nat /\ woken \in Nat
    BY DEF Garbage
  <2>3. reading \in BOOLEAN /\ signaled \in BOOLEAN
    OBVIOUS
  <2> QED
    BY <2>1, <2>2, <2>3 DEF TypeOK
<1>5. ReadInv /\ HeardInv
  <2>1. 1 .. 0 = {}
    OBVIOUS
  <2>2. ReadInv
    BY <1>1, <1>3, <2>1, NumberedEmpty DEF ReadInv, Taken
  <2>3. HeardInv
    BY <1>1, <1>2, <1>3, <2>1 DEF HeardInv
  <2> QED
    BY <2>2, <2>3
<1>6. OutboxInv /\ WrittenInv /\ LostOnlyLate
  BY <1>1, <1>2, NumberedEmpty DEF OutboxInv, WrittenInv, LostOnlyLate, Flushing
<1>7. RepeatInv /\ PendingInv
  BY <1>1, <1>2, <1>3 DEF RepeatInv, PendingInv, Again
<1> QED
  BY <1>4, <1>5, <1>6, <1>7 DEF IInv

\* Every variable keeps its type.
LEMMA TypeStep ==
  ASSUME IInv, [Next]_vars
  PROVE  TypeOK'
<1> DEFINE Sequences ==
             /\ toServer \in Seq(Nat) /\ toClient \in Seq(Nat) /\ Outbox \in Seq(Nat)
             /\ sent \in Seq(Nat) /\ heard \in Seq(Nat) /\ written \in Seq(Nat)
             /\ arrived \in Seq(Nat) /\ apcs \in Seq(BOOLEAN)
           Scalars ==
             /\ server \in {"absent", "listening", "connected", "gone"}
             /\ reading \in BOOLEAN
             /\ buffer \in Nat
             /\ status \in {"none", "pending", "done", "failed"}
             /\ signaled \in BOOLEAN
             /\ pc \in {"new", "connecting", "open", "idle", "apc", "write", "flush",
                        "blocked", "stopped", "crashed"}
             /\ posted \in Nat /\ WriteHandles \in Nat /\ handled \in Nat /\ woken \in Nat
             /\ batch \in Nat
             /\ msgIx \in 1 .. batch + 1
             /\ late \subseteq 1 .. posted
           Blocking == pc = "blocked" => msgIx <= batch /\ batch <= Len(Outbox)
<1>0. Sequences /\ Scalars /\ Blocking /\ OutboxInv
  BY DEF IInv, TypeOK
<1>1. /\ <<>> \in Seq(Nat)
      /\ \A s \in Seq(Nat) : \A x \in Nat : Append(s, x) \in Seq(Nat) /\ Len(Append(s, x)) = Len(s) + 1
      /\ \A s \in Seq(Nat) : s # <<>> => Head(s) \in Nat /\ Tail(s) \in Seq(Nat)
      /\ \A s \in Seq(Nat) : Len(s) \in Nat /\ \A i \in 1 .. Len(s) : s[i] \in Nat
      /\ \A s \in Seq(BOOLEAN) : \A x \in BOOLEAN : Append(s, x) \in Seq(BOOLEAN)
      /\ \A s \in Seq(BOOLEAN) : s # <<>> => Tail(s) \in Seq(BOOLEAN)
  OBVIOUS
<1>2. posted + 1 \in Nat /\ TRUE \in BOOLEAN /\ FALSE \in BOOLEAN
  BY <1>0
<1>3. CASE UNCHANGED vars
  BY <1>0, <1>3 DEF vars, pipeVars, readVars, ioVars, boxVars, loopVars, history, TypeOK
<1>4. CASE Start \/ Stop \/ Connect \/ EndApcs \/ ServerListen \/ WriteFails
  <2>1. Sequences'
    BY <1>0, <1>4 DEF Start, Stop, Connect, EndApcs, ServerListen, WriteFails,
       pipeVars, readVars, ioVars, boxVars, loopVars, history
  <2>2. Scalars' /\ Blocking'
    BY <1>0, <1>4 DEF Start, Stop, Connect, EndApcs, ServerListen, WriteFails,
       DisconnectAndClose, pipeVars, readVars, ioVars, boxVars, loopVars, history
  <2> QED
    BY <2>1, <2>2 DEF TypeOK
<1>5. CASE Write
  <2>1. Sequences' /\ Blocking'
    BY <1>0, <1>1, <1>2, <1>5 DEF Write, pipeVars, readVars, ioVars, loopVars
  <2>2. Scalars'
    BY <1>0, <1>5 DEF Write, pipeVars, readVars, ioVars, loopVars
  <2> QED
    BY <2>1, <2>2 DEF TypeOK
<1>6. CASE FirstRead \/ RunApc
  <2>1. PICK q \in Seq(BOOLEAN), next \in {"idle", "apc"} :
          \/ ReadFileEx(q, next)
          \/ /\ apcs' = q /\ DisconnectAndClose(next)
             /\ UNCHANGED <<toClient, reading, buffer, signaled, handled, heard, boxVars>>
    <3>1. CASE FirstRead
      BY <1>0, <3>1 DEF FirstRead
    <3>2. CASE RunApc
      <4>1. Tail(apcs) \in Seq(BOOLEAN)
        BY <1>0, <1>1, <3>2 DEF RunApc
      <4> QED
        BY <3>2, <4>1 DEF RunApc, HandleRead
    <3> QED
      BY <1>6, <3>1, <3>2
  <2>2. /\ toClient' \in Seq(Nat) /\ apcs' \in Seq(BOOLEAN)
        /\ reading' \in BOOLEAN /\ buffer' \in Nat /\ signaled' \in BOOLEAN
        /\ pc' \in {next, "crashed"}
    BY <1>0, <1>1, <1>2, <2>1 DEF ReadFileEx, DisconnectAndClose
  <2>3. /\ heard' \in Seq(Nat) /\ Outbox' \in Seq(Nat)
        /\ posted' \in Nat /\ posted <= posted'
        /\ WriteHandles' \in Nat /\ handled' \in Nat
    <3>1. UNCHANGED <<handled, heard, Outbox, posted, WriteHandles>> \/ Dispatch(buffer)
      BY <1>6 DEF FirstRead, RunApc, HandleRead, boxVars, history
    <3>2. /\ Append(heard, buffer) \in Seq(Nat)
          /\ Append(Outbox, posted + 1) \in Seq(Nat)
      BY <1>0, <1>1, <1>2
    <3>3. /\ heard \in Seq(Nat) /\ Outbox \in Seq(Nat) /\ posted \in Nat
          /\ WriteHandles \in Nat /\ handled \in Nat
      BY <1>0
    <3>4. (Outbox' = Outbox /\ posted' = posted)
            \/ (Outbox' = Append(Outbox, posted + 1) /\ posted' = posted + 1)
      BY <3>1 DEF Dispatch
    <3>5. heard' \in {heard, Append(heard, buffer)}
      BY <3>1 DEF Dispatch
    <3>6. Outbox' \in Seq(Nat)
      BY <3>2, <3>3, <3>4
    <3>7. posted' \in Nat /\ posted <= posted'
      BY <3>3, <3>4
    <3>8. WriteHandles' \in {WriteHandles, WriteHandles + 1} /\ handled' \in {handled, handled + 1}
      BY <3>1 DEF Dispatch
    <3>9. heard' \in Seq(Nat)
      BY <3>2, <3>3, <3>5
    <3>10. WriteHandles' \in Nat /\ handled' \in Nat
      BY <3>3, <3>8
    <3> QED
      BY <3>6, <3>7, <3>9, <3>10
  <2>4. UNCHANGED <<server, toServer, status, loopVars, sent, written, arrived, late, woken>>
    BY <1>6 DEF FirstRead, RunApc, history
  <2> QED
    BY <1>0, <2>2, <2>3, <2>4 DEF loopVars, TypeOK
<1>7. CASE WriteAllMessages \/ GetOverlappedResult
  <2>1. Sequences'
    BY <1>0, <1>7 DEF WriteAllMessages, GetOverlappedResult, pipeVars, readVars, boxVars, history
  <2>2. Len(Outbox) \in Nat
    BY <1>0
  <2>3. Scalars' /\ Blocking'
    <3>1. CASE WriteAllMessages
      BY <1>0, <2>2, <3>1 DEF WriteAllMessages, pipeVars, readVars, ioVars, boxVars, history,
         loopVars
    <3>2. CASE GetOverlappedResult
      BY <1>0, <2>2, <3>2 DEF GetOverlappedResult, pipeVars, readVars, ioVars, boxVars, history
    <3> QED
      BY <1>7, <3>1, <3>2
  <2> QED
    BY <2>1, <2>3 DEF TypeOK
<1>8. CASE WriteMessage
  <2>1. msgIx \in 1 .. Len(Outbox) /\ batch <= Len(Outbox)
    BY <1>0, <1>1, <1>8 DEF WriteMessage, AtMessage, OutboxInv, Flushing
  <2>2. Sequences'
    BY <1>0, <1>1, <1>8, <2>1 DEF WriteMessage, readVars, boxVars
  <2>3. /\ msgIx' \in {msgIx, msgIx + 1} /\ msgIx <= batch
        /\ pc' \in {"flush", "blocked"}
        /\ msgIx' # msgIx => pc' = "flush"
        /\ status' \in {"done", "pending"}
        /\ signaled' \in BOOLEAN
        /\ UNCHANGED <<server, reading, buffer, posted, Outbox, WriteHandles, batch, late,
                       handled, woken>>
    BY <1>8 DEF WriteMessage, AtMessage, readVars, boxVars
  <2>4. Scalars'
    BY <1>0, <2>3
  <2>5. Blocking'
    BY <2>1, <2>3
  <2> QED
    BY <2>2, <2>4, <2>5 DEF TypeOK
<1>9. CASE FinishFlush
  <2>1. toServer' \in Seq(Nat)
    <3>1. PICK spoilt :
            toServer' = [i \in DOMAIN toServer |-> IF i \in spoilt THEN Garbage ELSE toServer[i]]
      BY <1>9 DEF FinishFlush, Spoilt
    <3>2. DOMAIN toServer = 1 .. Len(toServer) /\ Len(toServer) \in Nat
      BY <1>0
    <3>3. \A i \in 1 .. Len(toServer) : (IF i \in spoilt THEN Garbage ELSE toServer[i]) \in Nat
      BY <1>0 DEF Garbage
    <3> QED
      BY <3>1, <3>2, <3>3
  <2>2. Sequences'
    BY <1>0, <1>1, <1>9, <2>1 DEF FinishFlush, readVars, history
  <2>3. Scalars' /\ Blocking'
    BY <1>0, <1>9 DEF FinishFlush, readVars, ioVars, history
  <2> QED
    BY <2>2, <2>3 DEF TypeOK
<1>10. CASE ServerSend \/ ServerRead \/ ServerGo
  <2>1. UNCHANGED <<pc, boxVars, loopVars, handled, heard, written, late>>
    BY <1>10 DEF ServerSend, ServerRead, ServerGo, history
  <2>2. sent' \in Seq(Nat) /\ arrived' \in Seq(Nat) /\ toServer' \in Seq(Nat)
        /\ toClient' \in Seq(Nat) /\ apcs' \in Seq(BOOLEAN)
        /\ reading' \in BOOLEAN /\ buffer' \in Nat
        /\ server' \in {"connected", "gone"}
        /\ status' \in {status, "done", "failed"}
        /\ signaled' \in BOOLEAN
        /\ woken' \in Nat
    <3>1. Len(sent) + 1 \in Nat
      BY <1>0
    <3>2. CASE ServerSend
      <4>1. /\ Append(sent, Len(sent) + 1) \in Seq(Nat)
            /\ Append(toClient, Len(sent) + 1) \in Seq(Nat)
            /\ Append(apcs, FALSE) \in Seq(BOOLEAN)
            /\ Append(apcs, TRUE) \in Seq(BOOLEAN)
        BY <1>0, <1>1, <1>2, <3>1
      <4>2. sent' \in Seq(Nat) /\ toClient' \in Seq(Nat) /\ apcs' \in Seq(BOOLEAN)
        BY <1>0, <3>2, <4>1 DEF ServerSend, readVars
      <4>3. woken' \in Nat /\ buffer' \in Nat /\ reading' \in BOOLEAN /\ signaled' \in BOOLEAN
        <5>1. CASE reading
          <6>1. /\ reading' = FALSE /\ buffer' = Len(sent) + 1 /\ signaled' = TRUE
                /\ woken' = woken \/ woken' = woken + 1
            BY <3>2, <5>1 DEF ServerSend
          <6>2. woken + 1 \in Nat /\ woken \in Nat
            BY <1>0
          <6> QED
            BY <3>1, <6>1, <6>2
        <5>2. CASE ~reading
          <6>1. UNCHANGED <<reading, buffer, signaled, woken>>
            BY <3>2, <5>2 DEF ServerSend, readVars
          <6> QED
            BY <1>0, <6>1
        <5> QED
          BY <5>1, <5>2
      <4>4. UNCHANGED <<server, arrived, toServer, status>> /\ server = "connected"
        BY <3>2 DEF ServerSend
      <4>5. arrived' \in Seq(Nat) /\ toServer' \in Seq(Nat) /\ status' = status
        BY <1>0, <4>4
      <4> QED
        BY <4>2, <4>3, <4>4, <4>5
    <3>3. CASE ServerRead
      <4>1. /\ Append(arrived, Head(toServer)) \in Seq(Nat)
            /\ Tail(toServer) \in Seq(Nat)
        BY <1>0, <1>1, <3>3 DEF ServerRead
      <4> QED
        BY <1>0, <3>3, <4>1 DEF ServerRead, readVars, ioVars
    <3>4. CASE ServerGo
      <4>1. Append(apcs, TRUE) \in Seq(BOOLEAN)
        BY <1>0, <1>1, <1>2
      <4> QED
        BY <1>0, <1>1, <3>4, <4>1 DEF ServerGo, history
    <3> QED
      BY <1>10, <3>2, <3>3, <3>4
  <2> QED
    BY <1>0, <2>1, <2>2 DEF TypeOK, boxVars, loopVars
<1> QED
  BY <1>3, <1>4, <1>5, <1>6, <1>7, <1>8, <1>9, <1>10 DEF Next, ClientStep, ServerStep

\* What is known of the client's reads.  The steps that take no part in reading
\* leave it be.
LEMMA ReadQuiet ==
  ASSUME TypeOK, ReadInv, HeardInv,
         \/ Start \/ Stop \/ Connect \/ EndApcs \/ ServerListen \/ WriteFails \/ Write
         \/ WriteAllMessages \/ GetOverlappedResult \/ WriteMessage \/ FinishFlush
         \/ ServerRead \/ UNCHANGED vars
  PROVE  ReadInv' /\ HeardInv'
<1>1. /\ UNCHANGED <<sent, handled, heard, toClient, readVars>>
      /\ server' = server \/ (server' # "gone" /\ server \notin {"connected", "gone"})
      /\ pc' \in {"new", "connecting", "open"} => pc \in {"new", "connecting", "open"}
  BY DEF Start, Stop, Connect, EndApcs, ServerListen, WriteFails, Write, AtMessage,
     DisconnectAndClose, WriteAllMessages, GetOverlappedResult, WriteMessage, FinishFlush,
     ServerRead, vars, pipeVars, readVars, history
<1> QED
  BY <1>1 DEF ReadInv, HeardInv, Taken, readVars

\* The queue of completions holds one at most, so that what remains of it is empty.
LEMMA ApcsFacts ==
  /\ Succeeded # <<>> /\ Failed # <<>> /\ Succeeded # Failed
  /\ Tail(Succeeded) = <<>> /\ Tail(Failed) = <<>>
  /\ Head(Succeeded) = FALSE /\ Head(Failed) = TRUE
  /\ Append(<<>>, FALSE) = Succeeded /\ Append(<<>>, TRUE) = Failed
<1>1. ASSUME NEW S, NEW x \in S PROVE Head(<<x>>) = x
  OBVIOUS
<1>2. FALSE \in BOOLEAN /\ TRUE \in BOOLEAN
  OBVIOUS
<1>3. Head(Succeeded) = FALSE
  BY <1>1, <1>2, Zenon DEF Succeeded
<1>4. Head(Failed) = TRUE
  BY <1>1, <1>2, Zenon DEF Failed
<1>5. /\ Succeeded # <<>> /\ Failed # <<>>
      /\ Tail(Succeeded) = <<>> /\ Tail(Failed) = <<>>
      /\ Append(<<>>, FALSE) = Succeeded /\ Append(<<>>, TRUE) = Failed
  BY DEF Succeeded, Failed
<1>6. Succeeded # Failed
  BY <1>3, <1>4
<1> QED
  BY <1>3, <1>4, <1>5, <1>6, Zenon

\* ReadFileEx takes the next message of the pipe, fails to read one that is too long,
\* waits for one, or finds the pipe broken.
LEMMA ReadFileExReads ==
  ASSUME TypeOK, NEW next \in {"idle", "apc"},
         ReadFileEx(<<>>, next),
         sent' = sent, server' = server, ~reading,
         Numbered(sent, 0), handled' \in Nat,
         Numbered(toClient, handled'),
         handled' + Len(toClient) <= Len(sent),
         server # "gone" => handled' + Len(toClient) = Len(sent),
         \A k \in 1 .. handled' : k \notin Oversized
  PROVE  ReadInv'
<1>1. PICK n \in Nat : n = handled'
  OBVIOUS
<1>2. toClient \in Seq(Nat) /\ Len(toClient) \in Nat /\ Len(sent) \in Nat
  BY SMTT(30) DEF TypeOK
<1>3. Succeeded # <<>> /\ Failed # <<>> /\ Succeeded # Failed
  BY ApcsFacts
<1>4. pc' \notin {"new", "connecting", "open"}
  BY DEF ReadFileEx, DisconnectAndClose
<1>5. Taken' = handled' + (IF apcs' = Succeeded THEN 1 ELSE 0)
  BY DEF Taken
<1>6. apcs' # Succeeded => Taken' = n
  <2>1. apcs' # Succeeded => (IF apcs' = Succeeded THEN 1 ELSE 0) = 0
    OBVIOUS
  <2>2. apcs' # Succeeded => Taken' = handled' + 0
    BY <1>5, <2>1
  <2>3. \A m \in Nat : m + 0 = m
    OBVIOUS
  <2> QED
    BY <1>1, <2>2, <2>3, Zenon
<1>7. /\ Numbered(toClient, n) /\ n + Len(toClient) <= Len(sent)
      /\ server # "gone" => n + Len(toClient) = Len(sent)
      /\ \A k \in 1 .. n : k \notin Oversized
  BY <1>1
<1>8. CASE toClient # <<>>
  <2>1. /\ Head(toClient) = n + 1
        /\ Tail(toClient) \in Seq(Nat)
        /\ Len(Tail(toClient)) + 1 = Len(toClient)
        /\ Len(Tail(toClient)) \in Nat
        /\ Numbered(Tail(toClient), n + 1)
    <3>1. Numbered(toClient, n)
      BY <1>1
    <3>2. /\ Head(toClient) = n + 1
          /\ Tail(toClient) \in Seq(Nat)
          /\ Len(Tail(toClient)) + 1 = Len(toClient)
          /\ Numbered(Tail(toClient), n + 1)
      BY <1>2, <1>8, <3>1, NumberedFacts
    <3> QED
      BY <3>2
  <2>2. buffer' = n + 1 /\ reading' = reading
    BY <1>8, <2>1 DEF ReadFileEx
  <2>3. CASE n + 1 \notin Oversized
    <3>1. toClient' = Tail(toClient) /\ apcs' = Succeeded
      BY ApcsFacts, <1>8, <2>1, <2>3 DEF ReadFileEx
    <3>2. Taken' = n + 1
      BY <1>1, <1>5, <3>1
    <3>3. /\ Taken' + Len(toClient') <= Len(sent)
          /\ server # "gone" => Taken' + Len(toClient') = Len(sent)
      <4>1. PICK k \in Nat : k = Len(toClient') /\ k + 1 = Len(toClient)
        BY <2>1, <3>1
      <4>2. /\ n + Len(toClient) <= Len(sent)
            /\ server # "gone" => n + Len(toClient) = Len(sent)
        BY <1>1
      <4> QED
        BY <1>2, <3>2, <4>1, <4>2
    <3>4. \A k \in 1 .. Taken' : k \notin Oversized
      <4>1. \A k \in 1 .. n + 1 : k \in 1 .. n \/ k = n + 1
        OBVIOUS
      <4> QED
        BY <1>1, <2>3, <3>2, <4>1
    <3> QED
      BY <1>4, <2>1, <2>2, <3>1, <3>2, <3>3, <3>4 DEF ReadInv
  <2>4. CASE n + 1 \in Oversized
    <3>1. toClient' = toClient /\ apcs' = Failed
      BY ApcsFacts, <1>8, <2>1, <2>4 DEF ReadFileEx
    <3>2. Taken' = n
      BY <1>3, <1>6, <3>1
    <3>3. ~reading'
      BY <2>2
    <3> QED
      BY <1>3, <1>4, <1>7, <3>1, <3>2, <3>3 DEF ReadInv
  <2> QED
    BY <2>3, <2>4
<1>9. CASE toClient = <<>>
  <2>1. /\ apcs' = <<>> /\ toClient' = <<>>
        /\ reading' => server = "connected"
    BY <1>9 DEF ReadFileEx
  <2>2. Taken' = n
    BY <1>3, <1>6, <2>1
  <2>3. Len(toClient') = 0 /\ Len(toClient) = 0 /\ Numbered(toClient', n)
    BY <1>9, <2>1, NumberedEmpty
  <2>4. ReadInv'
    BY <1>2, <1>3, <1>4, <1>7, <2>1, <2>2, <2>3 DEF ReadInv
  <2> QED
    BY <2>4
<1> QED
  BY <1>8, <1>9

\* OnRequest is called with the message handled if it is a request.
LEMMA DispatchHears ==
  ASSUME TypeOK, HeardInv, Dispatch(buffer), buffer = handled + 1
  PROVE  HeardInv'
<1>1. /\ handled' = handled + 1 /\ handled \in Nat
      /\ heard \in Seq(Nat) /\ Len(heard) \in Nat /\ buffer \in Nat
  BY DEF Dispatch, TypeOK
<1>2. \A m : m \in 1 .. handled + 1 <=> m \in 1 .. handled \/ m = handled + 1
  BY <1>1
<1>3. CASE ~IsRequest(buffer)
  <2>1. heard' = heard
    BY <1>3 DEF Dispatch
  <2>2. {m \in 1 .. handled' : IsRequest(m)} = {m \in 1 .. handled : IsRequest(m)}
    BY <1>1, <1>2, <1>3
  <2> QED
    BY <2>1, <2>2 DEF HeardInv
<1>4. CASE IsRequest(buffer)
  <2>1. heard' = Append(heard, buffer)
    BY <1>4 DEF Dispatch
  <2>2. /\ Len(heard') = Len(heard) + 1
        /\ \A i \in 1 .. Len(heard) : heard'[i] = heard[i]
        /\ heard'[Len(heard) + 1] = handled + 1
        /\ ToSet(heard') = ToSet(heard) \union {handled + 1}
    BY <1>1, <2>1, AppendFacts
  <2>3. ToSet(heard') = {m \in 1 .. handled' : IsRequest(m)}
    BY <1>1, <1>2, <1>4, <2>2 DEF HeardInv
  <2>4. \A i \in 1 .. Len(heard) : heard[i] \in Nat /\ heard[i] <= handled
    <3>1. \A i \in 1 .. Len(heard) : heard[i] \in ToSet(heard)
      BY <1>1 DEF ToSet
    <3> QED
      BY <1>1, <3>1 DEF HeardInv
  <2>5. \A i \in 1 .. Len(heard') - 1 : heard'[i] < heard'[i + 1]
    <3> SUFFICES ASSUME NEW i \in 1 .. Len(heard') - 1
                 PROVE  heard'[i] < heard'[i + 1]
      OBVIOUS
    <3>1. i \in 1 .. Len(heard) /\ (i \in 1 .. Len(heard) - 1 \/ i = Len(heard))
      BY <1>1, <2>2
    <3>2. CASE i \in 1 .. Len(heard) - 1
      <4>1. i + 1 \in 1 .. Len(heard)
        BY <1>1, <3>2
      <4> QED
        BY <2>2, <3>1, <3>2, <4>1 DEF HeardInv
    <3>3. CASE i = Len(heard)
      BY <1>1, <2>2, <2>4, <3>1, <3>3
    <3> QED
      BY <3>1, <3>2, <3>3
  <2> QED
    BY <2>3, <2>5 DEF HeardInv
<1> QED
  BY <1>3, <1>4

\* Handled, in the buffer and on their way stay the messages sent, in order, and
\* heard are the requests among those handled.
LEMMA ReadStep ==
  ASSUME TypeOK, ReadInv, HeardInv, [Next]_vars
  PROVE  ReadInv' /\ HeardInv'
<1>1. /\ toClient \in Seq(Nat) /\ sent \in Seq(Nat) /\ handled \in Nat
      /\ Len(toClient) \in Nat /\ Len(sent) \in Nat
      /\ Taken \in Nat
  BY DEF TypeOK, Taken
<1>2. /\ apcs # <<>> => Tail(apcs) = <<>>
      /\ apcs # <<>> /\ Head(apcs) => apcs = Failed
      /\ apcs # <<>> /\ ~Head(apcs) => apcs = Succeeded
      /\ apcs = <<>> => Append(apcs, FALSE) = Succeeded /\ Append(apcs, TRUE) = Failed
  BY ApcsFacts DEF ReadInv
<1>a. Succeeded # <<>> /\ Failed # <<>> /\ Succeeded # Failed
  BY ApcsFacts
<1>b. Taken = handled + (IF apcs = Succeeded THEN 1 ELSE 0)
  BY DEF Taken
<1>c. Taken' = handled' + (IF apcs' = Succeeded THEN 1 ELSE 0)
  BY DEF Taken
<1>3. CASE FirstRead
  <2>1. /\ ~reading /\ apcs = <<>>
        /\ ReadFileEx(<<>>, "idle")
        /\ UNCHANGED <<sent, handled, heard, server>>
    BY <1>3 DEF FirstRead, ReadInv, history
  <2>2. Taken = handled
    BY <1>1, <1>a, <1>b, <2>1
  <2>3. ReadInv'
    BY <1>1, <2>1, <2>2, ReadFileExReads DEF ReadInv
  <2>4. HeardInv'
    BY <2>1 DEF HeardInv
  <2> QED
    BY <2>3, <2>4
<1>4. CASE RunApc
  <2>1. /\ ~reading /\ apcs # <<>>
        /\ HandleRead(Head(apcs), <<>>, "apc")
        /\ UNCHANGED <<sent, server>>
    BY <1>2, <1>4 DEF RunApc, ReadInv
  <2>2. CASE Head(apcs)
    <3>1. /\ apcs = Failed /\ apcs' = <<>>
          /\ UNCHANGED <<toClient, reading, buffer, handled, heard>>
          /\ pc' \notin {"new", "connecting", "open"}
      BY <1>2, <2>1, <2>2 DEF HandleRead, DisconnectAndClose
    <3>2. Taken = handled /\ Taken' = handled
      BY <1>1, <1>a, <1>b, <1>c, <3>1
    <3>3. ReadInv'
      BY <1>a, <2>1, <3>1, <3>2 DEF ReadInv
    <3>4. HeardInv'
      BY <3>1 DEF HeardInv
    <3> QED
      BY <3>3, <3>4
  <2>3. CASE ~Head(apcs)
    <3>1. /\ apcs = Succeeded
          /\ Dispatch(buffer)
          /\ ReadFileEx(<<>>, "apc")
      BY <1>2, <2>1, <2>3 DEF HandleRead
    <3>2. Taken = handled + 1 /\ buffer = handled + 1
      BY <1>1, <3>1 DEF Taken, ReadInv
    <3>3. handled' = Taken
      BY <3>1, <3>2 DEF Dispatch
    <3>4. ReadInv'
      BY <1>1, <2>1, <3>1, <3>3, ReadFileExReads DEF ReadInv
    <3> QED
      BY <3>1, <3>2, <3>4, DispatchHears
  <2> QED
    BY <2>2, <2>3
<1>5. CASE ServerSend
  <2>1. /\ sent' = Append(sent, 0 + Len(sent) + 1)
        /\ server = "connected"
        /\ UNCHANGED <<server, pc, handled, heard>>
    BY <1>1, <1>5 DEF ServerSend
  <2>2. Len(sent') = Len(sent) + 1 /\ Numbered(sent', 0)
    BY <1>1, <2>1, NumberedFacts DEF ReadInv
  <2>3. HeardInv'
    BY <2>1 DEF HeardInv
  <2>4. Taken + Len(toClient) = Len(sent) /\ Numbered(toClient, Taken)
    BY <2>1 DEF ReadInv
  <2>5. /\ Len(Append(toClient, Len(sent) + 1)) = Len(toClient) + 1
        /\ Numbered(Append(toClient, Len(sent) + 1), Taken)
    <3>1. Len(sent) + 1 = Taken + Len(toClient) + 1
      BY <1>1, <2>4
    <3> QED
      BY <1>1, <2>4, <3>1, NumberedFacts
  <2>6. CASE reading /\ Len(sent) + 1 \notin Oversized
    <3>1. /\ apcs = <<>> /\ toClient = <<>>
          /\ pc \notin {"new", "connecting", "open"}
      BY <2>6 DEF ReadInv
    <3>2. /\ apcs' = Succeeded /\ ~reading' /\ buffer' = Len(sent) + 1
          /\ toClient' = <<>>
      BY <1>2, <1>5, <2>6, <3>1 DEF ServerSend
    <3>3. Len(toClient) = 0 /\ Len(toClient') = 0 /\ Numbered(toClient', Taken')
      BY <3>1, <3>2, NumberedEmpty
    <3>4. Taken = Len(sent) /\ Taken' = Len(sent) + 1
      BY <1>1, <1>a, <1>b, <1>c, <2>1, <2>4, <3>1, <3>2, <3>3
    <3>5. Taken' + Len(toClient') = Len(sent')
      BY <1>1, <2>2, <3>3, <3>4
    <3>6. \A k \in 1 .. Taken' : k \notin Oversized
      BY <1>1, <2>6, <3>4 DEF ReadInv
    <3>7. ReadInv'
      BY <1>1, <2>1, <2>2, <3>1, <3>2, <3>3, <3>4, <3>5, <3>6 DEF ReadInv
    <3> QED
      BY <2>3, <3>7
  <2>7. CASE reading /\ Len(sent) + 1 \in Oversized
    <3>1. /\ apcs = <<>> /\ pc \notin {"new", "connecting", "open"}
      BY <2>7 DEF ReadInv
    <3>2. /\ apcs' = Failed /\ ~reading'
          /\ toClient' = Append(toClient, Len(sent) + 1)
      BY <1>2, <1>5, <2>7, <3>1 DEF ServerSend
    <3>3. Taken' = Taken
      BY <1>1, <1>a, <1>b, <1>c, <2>1, <3>1, <3>2
    <3>4. Taken' + Len(toClient') = Len(sent')
      BY <1>1, <2>2, <2>4, <2>5, <3>2, <3>3
    <3>5. Numbered(toClient', Taken') /\ \A k \in 1 .. Taken' : k \notin Oversized
      BY <2>5, <3>2, <3>3 DEF ReadInv
    <3>6. Len(sent') \in Nat /\ Taken' + Len(toClient') <= Len(sent')
      BY <1>1, <2>2, <3>4
    <3>7. ReadInv'
      BY <1>a, <2>1, <2>2, <3>1, <3>2, <3>4, <3>5, <3>6 DEF ReadInv
    <3> QED
      BY <2>3, <3>7
  <2>8. CASE ~reading
    <3>1. /\ toClient' = Append(toClient, Len(sent) + 1)
          /\ UNCHANGED readVars
      BY <1>5, <2>8 DEF ServerSend
    <3>2. Taken' = Taken
      BY <2>1, <3>1, <1>b, <1>c DEF readVars
    <3>3. ReadInv'
      BY <1>1, <2>1, <2>2, <2>4, <2>5, <2>8, <3>1, <3>2 DEF ReadInv, readVars
    <3> QED
      BY <2>3, <3>3
  <2> QED
    BY <2>6, <2>7, <2>8
<1>6. CASE ServerGo
  <2>1. /\ server = "connected" /\ server' = "gone" /\ ~reading'
        /\ toClient' = toClient \/ toClient' = <<>>
        /\ apcs' = (IF reading THEN Append(apcs, TRUE) ELSE apcs)
        /\ UNCHANGED <<buffer, pc, sent, handled, heard>>
    BY <1>6 DEF ServerGo, history
  <2>2. reading => apcs = <<>> /\ apcs' = Failed /\ pc \notin {"new", "connecting", "open"}
    BY <1>2, <2>1 DEF ReadInv
  <2>3. Taken' = Taken
    BY <1>a, <1>b, <1>c, <2>1, <2>2
  <2>4. Numbered(toClient', Taken) /\ Taken + Len(toClient') <= Len(sent)
    BY <1>1, <2>1, NumberedEmpty DEF ReadInv
  <2>5. ReadInv'
    BY <1>a, <2>1, <2>2, <2>3, <2>4 DEF ReadInv
  <2>6. HeardInv'
    BY <2>1 DEF HeardInv
  <2> QED
    BY <2>5, <2>6
<1> QED
  BY <1>3, <1>4, <1>5, <1>6, ReadQuiet DEF Next, ClientStep, ServerStep

(***************************************************************************)
(* The Outbox and what is written from it.                                 *)
(***************************************************************************)

BoxInv == OutboxInv /\ WrittenInv /\ LostOnlyLate

\* A message is pushed to the end of the Outbox (Write, Dispatch).
LEMMA PushFacts ==
  ASSUME TypeOK, OutboxInv, Outbox' = Append(Outbox, posted + 1), posted' = posted + 1
  PROVE  /\ Len(Outbox) \in Nat /\ Len(Outbox') = Len(Outbox) + 1
         /\ Len(Outbox') <= posted'
         /\ posted' - Len(Outbox') = posted - Len(Outbox)
         /\ Numbered(Outbox', posted' - Len(Outbox'))
         /\ \A i \in 1 .. Len(Outbox) : Outbox'[i] = Outbox[i]
         /\ Outbox'[Len(Outbox) + 1] = posted + 1
         /\ ToSet(Outbox') = ToSet(Outbox) \union {posted + 1}
<1>1. /\ Outbox \in Seq(Nat) /\ posted \in Nat /\ posted + 1 \in Nat
      /\ Len(Outbox) \in Nat
  BY DEF TypeOK
<1>2. Len(Outbox) <= posted /\ Numbered(Outbox, posted - Len(Outbox))
  BY DEF OutboxInv
<1>3. PICK k \in Nat : k = posted - Len(Outbox)
  <2>1. Len(Outbox) <= posted
    BY <1>2
  <2>2. posted - Len(Outbox) \in Nat
    BY <1>1, <2>1
  <2> QED
    BY <2>2
<1>4. posted + 1 = k + Len(Outbox) + 1
  BY <1>1, <1>3
<1>5. Len(Outbox') = Len(Outbox) + 1 /\ Numbered(Outbox', k)
  BY <1>1, <1>2, <1>3, <1>4, NumberedFacts
<1>6. posted' - Len(Outbox') = k /\ Len(Outbox') <= posted'
  BY <1>1, <1>2, <1>3, <1>5
<1>7. /\ \A i \in 1 .. Len(Outbox) : Outbox'[i] = Outbox[i]
      /\ Outbox'[Len(Outbox) + 1] = posted + 1
      /\ ToSet(Outbox') = ToSet(Outbox) \union {posted + 1}
  BY <1>1, AppendFacts
<1> QED
  BY <1>1, <1>3, <1>5, <1>6, <1>7

\* The steps that neither push, nor write, nor move the loop.
LEMMA BoxQuiet ==
  ASSUME BoxInv,
         UNCHANGED <<Outbox, posted, loopVars, written, late>>,
         \/ pc' = pc
         \/ pc' = "crashed"
         \/ ~Flushing /\ pc # "crashed" /\ pc' \notin {"flush", "blocked"}
  PROVE  BoxInv'
<1>1. UNCHANGED <<Outbox, posted, batch, msgIx, written, late>>
  BY DEF loopVars
<1>2. OutboxInv'
  BY <1>1 DEF BoxInv, OutboxInv, Flushing
<1>3. WrittenInv'
  BY <1>1 DEF BoxInv, WrittenInv, Flushing
<1>4. LostOnlyLate'
  BY <1>1 DEF BoxInv, LostOnlyLate
<1> QED
  BY <1>2, <1>3, <1>4 DEF BoxInv

\* A push outside a flush, or during one, which counts as late.
LEMMA BoxPush ==
  ASSUME TypeOK, BoxInv,
         Outbox' = Append(Outbox, posted + 1), posted' = posted + 1,
         UNCHANGED <<loopVars, written>>,
         late' = IF Flushing THEN late \union {posted + 1} ELSE late,
         \/ pc' = pc
         \/ pc' = "crashed"
         \/ ~Flushing /\ pc # "crashed" /\ pc' \notin {"flush", "blocked"}
  PROVE  BoxInv'
<1>1. /\ Len(Outbox) \in Nat /\ Len(Outbox') = Len(Outbox) + 1
      /\ Len(Outbox') <= posted'
      /\ posted' - Len(Outbox') = posted - Len(Outbox)
      /\ Numbered(Outbox', posted' - Len(Outbox'))
      /\ \A i \in 1 .. Len(Outbox) : Outbox'[i] = Outbox[i]
      /\ Outbox'[Len(Outbox) + 1] = posted + 1
      /\ ToSet(Outbox') = ToSet(Outbox) \union {posted + 1}
  BY PushFacts DEF BoxInv
<1>2. UNCHANGED <<batch, msgIx, written>> /\ late \subseteq late'
  BY DEF loopVars
<1>3. batch \in Nat /\ msgIx \in 1 .. batch + 1 /\ posted \in Nat
  BY DEF TypeOK
<1>4. CASE Flushing'
  <2>1. Flushing /\ pc' = pc
    BY <1>4 DEF Flushing
  <2>2. /\ batch <= Len(Outbox)
        /\ \A i \in 1 .. msgIx - 1 : Outbox[i] \in ToSet(written)
        /\ \A i \in batch + 1 .. Len(Outbox) : Outbox[i] \in late
        /\ pc = "blocked" => msgIx <= batch /\ Outbox[msgIx] \in ToSet(written)
    BY <2>1 DEF BoxInv, OutboxInv
  <2>3. \A i \in batch + 1 .. Len(Outbox') : Outbox'[i] \in late'
    <3>1. posted + 1 \in late'
      BY <2>1
    <3> QED
      BY <1>1, <1>2, <1>3, <2>2, <3>1
  <2>4. \A i \in 1 .. msgIx - 1 : Outbox'[i] \in ToSet(written)
    BY <1>1, <1>3, <2>2
  <2>5. pc = "blocked" => msgIx <= batch /\ Outbox'[msgIx] \in ToSet(written)
    BY <1>1, <1>3, <2>2
  <2>6. batch <= Len(Outbox')
    BY <1>1, <1>3, <2>2
  <2>7. OutboxInv'
    BY <1>1, <1>2, <2>1, <2>3, <2>4, <2>5, <2>6 DEF OutboxInv
  <2>8. WrittenInv'
    BY <1>1, <1>2, <1>3, <2>1 DEF BoxInv, WrittenInv, Flushing
  <2> QED
    BY <1>1, <1>2, <1>3, <2>7, <2>8 DEF BoxInv, LostOnlyLate
<1>5. CASE ~Flushing'
  <2>1. OutboxInv'
    BY <1>1, <1>5 DEF OutboxInv, Flushing
  <2>2. (~Flushing /\ pc # "crashed") \/ pc' = "crashed"
    BY <1>5 DEF Flushing
  <2>3. WrittenInv'
    BY <1>1, <1>2, <1>3, <1>5, <2>2 DEF BoxInv, WrittenInv, Flushing
  <2> QED
    BY <1>1, <1>2, <1>3, <2>1, <2>3 DEF BoxInv, LostOnlyLate
<1> QED
  BY <1>4, <1>5

\* WriteAllMessages begins at the first message, which is newer than all that were
\* written.
LEMMA BoxBegin ==
  ASSUME TypeOK, BoxInv, WriteAllMessages
  PROVE  BoxInv'
<1>1. CASE Outbox = <<>>
  BY <1>1, BoxQuiet DEF WriteAllMessages, history, boxVars, loopVars, Flushing
<1>2. CASE Outbox # <<>>
  <2>1. /\ pc' = "flush" /\ batch' = Len(Outbox) /\ msgIx' = 1
        /\ UNCHANGED <<Outbox, posted, written, late>>
        /\ ~Flushing /\ pc # "crashed"
    BY <1>2 DEF WriteAllMessages, boxVars, history, Flushing
  <2>2. Len(Outbox) \in Nat /\ posted \in Nat /\ written \in Seq(Nat)
    BY DEF TypeOK
  <2>3. OutboxInv'
    BY <2>1, <2>2 DEF BoxInv, OutboxInv
  <2>4. WrittenInv'
    BY <2>1, <2>2 DEF BoxInv, WrittenInv, Flushing
  <2> QED
    BY <2>1, <2>3, <2>4 DEF BoxInv, LostOnlyLate
<1> QED
  BY <1>1, <1>2

\* WriteFile writes the message of its turn.
LEMMA BoxWrite ==
  ASSUME TypeOK, BoxInv, WriteMessage
  PROVE  BoxInv'
<1>1. /\ Outbox \in Seq(Nat) /\ posted \in Nat /\ written \in Seq(Nat)
      /\ batch \in Nat /\ msgIx \in 1 .. batch + 1 /\ Len(Outbox) \in Nat /\ Len(written) \in Nat
  BY DEF TypeOK
<1>2. /\ pc = "flush" /\ msgIx <= batch
      /\ written' = Append(written, Outbox[msgIx])
      /\ UNCHANGED <<Outbox, posted, batch, late>>
      /\ \/ msgIx' = msgIx + 1 /\ pc' = "flush"
         \/ msgIx' = msgIx /\ pc' = "blocked"
  BY DEF WriteMessage, AtMessage, boxVars
<1>3. /\ batch <= Len(Outbox)
      /\ \A i \in 1 .. msgIx - 1 : Outbox[i] \in ToSet(written)
      /\ \A i \in batch + 1 .. Len(Outbox) : Outbox[i] \in late
      /\ Len(Outbox) <= posted
      /\ Numbered(Outbox, posted - Len(Outbox))
  BY <1>2 DEF BoxInv, OutboxInv, Flushing
<1>4. PICK x \in Nat : x = Outbox[msgIx]
  BY <1>1, <1>2, <1>3
<1>5. x = posted - Len(Outbox) + msgIx /\ x \in 1 .. posted
  BY <1>1, <1>2, <1>3, <1>4 DEF Numbered
<1>6. /\ Len(written') = Len(written) + 1
      /\ \A i \in 1 .. Len(written) : written'[i] = written[i]
      /\ written'[Len(written) + 1] = x
      /\ ToSet(written') = ToSet(written) \union {x}
      /\ DOMAIN written = 1 .. Len(written)
      /\ DOMAIN written' = 1 .. Len(written) + 1
  BY <1>1, <1>2, <1>4, AppendFacts
<1>7. OutboxInv'
  <2>1. \A i \in 1 .. msgIx' - 1 : Outbox[i] \in ToSet(written')
    BY <1>1, <1>2, <1>3, <1>4, <1>6
  <2>2. Outbox[msgIx] \in ToSet(written')
    BY <1>4, <1>6
  <2> QED
    BY <1>2, <1>3, <2>1, <2>2 DEF OutboxInv, Flushing
<1>8. WrittenInv'
  <2>1. /\ ToSet(written) \subseteq 1 .. posted
        /\ \A i \in 1 .. Len(written) : written[i] <= x
        /\ \A i \in 1 .. Len(written) - 1 : written[i] <= written[i + 1]
    BY <1>2, <1>5, <1>6 DEF BoxInv, WrittenInv, Flushing
  <2>2. ToSet(written') \subseteq 1 .. posted
    BY <1>5, <1>6, <2>1
  <2>3. \A i \in 1 .. Len(written') : written'[i] <= x
    <3> SUFFICES ASSUME NEW i \in 1 .. Len(written')
                 PROVE  written'[i] <= x
      OBVIOUS
    <3>1. i \in 1 .. Len(written) \/ i = Len(written) + 1
      BY <1>1, <1>6
    <3>2. CASE i \in 1 .. Len(written)
      BY <1>6, <2>1, <3>2
    <3>3. CASE i = Len(written) + 1
      BY <1>4, <1>6, <3>3
    <3> QED
      BY <3>1, <3>2, <3>3
  <2>4. \A i \in 1 .. Len(written') - 1 : written'[i] <= written'[i + 1]
    <3> SUFFICES ASSUME NEW i \in 1 .. Len(written') - 1
                 PROVE  written'[i] <= written'[i + 1]
      OBVIOUS
    <3>1. /\ i \in 1 .. Len(written)
          /\ i \in 1 .. Len(written) - 1 \/ i + 1 = Len(written) + 1
      BY <1>1, <1>6
    <3>2. CASE i \in 1 .. Len(written) - 1
      <4>1. i + 1 \in 1 .. Len(written)
        BY <1>1, <3>2
      <4> QED
        BY <1>6, <2>1, <3>1, <3>2, <4>1
    <3>3. CASE i + 1 = Len(written) + 1
      BY <1>6, <2>1, <3>1, <3>3
    <3> QED
      BY <3>1, <3>2, <3>3
  <2>5. /\ Flushing' /\ pc' # "crashed"
        /\ \A i \in DOMAIN written' : written'[i] <= posted - Len(Outbox) + msgIx'
    <3>1. \A i \in DOMAIN written' : written'[i] \in Nat
      BY <1>1, <1>4, <1>6
    <3> QED
      BY <1>1, <1>2, <1>5, <1>6, <2>3, <3>1 DEF Flushing
  <2> QED
    BY <1>2, <2>2, <2>4, <2>5 DEF WrittenInv
<1>9. LostOnlyLate'
  BY <1>2, <1>6 DEF BoxInv, LostOnlyLate
<1> QED
  BY <1>7, <1>8, <1>9 DEF BoxInv

\* After a wait the loop goes on with the same message or, if it was written, with
\* the next.
LEMMA BoxWaited ==
  ASSUME TypeOK, BoxInv, GetOverlappedResult
  PROVE  BoxInv'
<1>1. /\ pc = "blocked" /\ pc' = "flush" /\ msgIx' \in {msgIx, msgIx + 1}
      /\ UNCHANGED <<Outbox, posted, batch, written, late>>
  BY DEF GetOverlappedResult, boxVars, history
<1>2. /\ written \in Seq(Nat) /\ msgIx \in Nat /\ Len(Outbox) \in Nat /\ posted \in Nat
      /\ \A i \in DOMAIN written : written[i] \in Nat
  BY DEF TypeOK
<1>3. OutboxInv'
  <2>1. /\ \A i \in 1 .. msgIx - 1 : Outbox[i] \in ToSet(written)
        /\ Outbox[msgIx] \in ToSet(written)
        /\ batch <= Len(Outbox)
        /\ \A i \in batch + 1 .. Len(Outbox) : Outbox[i] \in late
        /\ Len(Outbox) <= posted /\ Numbered(Outbox, posted - Len(Outbox))
    BY <1>1 DEF BoxInv, OutboxInv, Flushing
  <2>2. \A i \in 1 .. msgIx' - 1 : Outbox[i] \in ToSet(written)
    <3> SUFFICES ASSUME NEW i \in 1 .. msgIx' - 1 PROVE Outbox[i] \in ToSet(written)
      OBVIOUS
    <3>2. msgIx \in Nat /\ (msgIx' = msgIx \/ msgIx' = msgIx + 1)
      BY <1>1, <1>2
    <3>3. i \in Int /\ 1 <= i /\ i <= msgIx
      BY <3>2
    <3>1. i \in 1 .. msgIx - 1 \/ i = msgIx
      BY <3>2, <3>3
    <3> QED
      BY <2>1, <3>1
  <2> QED
    BY <1>1, <2>1, <2>2 DEF OutboxInv
<1>4. WrittenInv'
  BY <1>1, <1>2 DEF BoxInv, WrittenInv, Flushing
<1> QED
  BY <1>1, <1>3, <1>4 DEF BoxInv, LostOnlyLate

\* The Outbox is cleared when all of it is written or late.
LEMMA BoxFinish ==
  ASSUME TypeOK, BoxInv, FinishFlush
  PROVE  BoxInv'
<1>1. /\ pc = "flush" /\ msgIx > batch /\ Outbox' = <<>>
      /\ pc' = "idle" /\ batch' = 0 /\ msgIx' = 1
      /\ UNCHANGED <<posted, written, late>>
  BY DEF FinishFlush, history
<1>2. /\ written \in Seq(Nat) /\ posted \in Nat /\ batch \in Nat /\ msgIx \in Nat
      /\ Outbox \in Seq(Nat) /\ DOMAIN Outbox = 1 .. Len(Outbox)
  BY DEF TypeOK
<1>3. ToSet(Outbox) \subseteq ToSet(written) \union late
  BY <1>1, <1>2 DEF BoxInv, OutboxInv, Flushing, ToSet
<1>4. Len(Outbox') = 0 /\ \A k : Numbered(Outbox', k)
  BY <1>1, NumberedEmpty
<1>5. OutboxInv'
  BY <1>1, <1>2, <1>4 DEF OutboxInv, Flushing
<1>6. WrittenInv'
  <2>1. \A i \in DOMAIN written : written[i] \in 1 .. posted
    BY DEF BoxInv, WrittenInv, ToSet
  <2> QED
    BY <1>1, <1>2, <1>4, <2>1 DEF BoxInv, WrittenInv, Flushing
<1> QED
  BY <1>1, <1>3, <1>5, <1>6 DEF BoxInv, LostOnlyLate

\* Every step keeps what is said of the Outbox and of the order of the writes
\* (Write, WriteAllMessages).
LEMMA BoxStep ==
  ASSUME TypeOK, BoxInv, [Next]_vars
  PROVE  BoxInv'
<1>1. CASE Start \/ Stop \/ Connect \/ FirstRead \/ EndApcs \/ WriteFails \/ ServerStep
  <2>1. UNCHANGED <<Outbox, posted, loopVars, written, late>>
    BY <1>1 DEF Start, Stop, Connect, FirstRead, EndApcs, WriteFails, ServerStep,
       ServerListen, ServerSend, ServerRead, ServerGo, boxVars, history
  <2>2. \/ pc' = pc
        \/ pc' = "crashed"
        \/ ~Flushing /\ pc # "crashed" /\ pc' \notin {"flush", "blocked"}
    BY <1>1 DEF Start, Stop, Connect, FirstRead, EndApcs, WriteFails, ServerStep, ReadFileEx,
       ServerListen, ServerSend, ServerRead, ServerGo, AtMessage, DisconnectAndClose, Flushing
  <2> QED
    BY <2>1, <2>2, BoxQuiet
<1>2. CASE RunApc
  <2>1. /\ UNCHANGED <<loopVars, written, late>>
        /\ ~Flushing /\ pc # "crashed" /\ pc' \notin {"flush", "blocked"}
    BY <1>2 DEF RunApc, HandleRead, ReadFileEx, DisconnectAndClose, Flushing
  <2>2. \/ UNCHANGED <<Outbox, posted>>
        \/ Outbox' = Append(Outbox, posted + 1) /\ posted' = posted + 1
    BY <1>2 DEF RunApc, HandleRead, Dispatch, boxVars
  <2> QED
    BY <2>1, <2>2, BoxQuiet, BoxPush
<1>3. CASE Write
  <2>1. /\ Outbox' = Append(Outbox, posted + 1) /\ posted' = posted + 1
        /\ UNCHANGED <<loopVars, written>>
        /\ late' = IF Flushing THEN late \union {posted + 1} ELSE late
        /\ pc' = pc \/ pc' = "crashed"
    BY <1>3 DEF Write
  <2> QED
    BY <2>1, BoxPush
<1>4. CASE UNCHANGED vars
  BY <1>4, BoxQuiet DEF vars, boxVars, history
<1> QED
  BY <1>1, <1>2, <1>3, <1>4, BoxBegin, BoxWrite, BoxWaited, BoxFinish
     DEF Next, ClientStep

(***************************************************************************)
(* Every repetition is paid for by a read.                                 *)
(***************************************************************************)

PaidInv == RepeatInv /\ PendingInv

\* The count of reads that ended a wait never falls, and each of them is counted.
LEMMA WokenStep ==
  ASSUME TypeOK, [Next]_vars
  PROVE  /\ woken \in Nat /\ woken' \in Nat /\ woken <= woken'
         /\ ServerSend /\ reading /\ pc = "blocked" /\ status = "pending" => woken < woken'
<1>1. woken \in Nat
  BY DEF TypeOK
<1>2. CASE ServerSend
  <2>1. woken' = IF reading /\ pc = "blocked" /\ status = "pending" THEN woken + 1 ELSE woken
    BY <1>2 DEF ServerSend
  <2> QED
    BY <1>1, <2>1
<1>3. CASE ~ServerSend
  <2>1. woken' = woken
    BY <1>3 DEF Next, ClientStep, ServerStep, Start, Write, Stop, Connect, FirstRead, RunApc,
       EndApcs, WriteAllMessages, WriteMessage, GetOverlappedResult, WriteFails, FinishFlush,
       ServerListen, ServerRead, ServerGo, history, vars
  <2> QED
    BY <1>1, <1>3, <2>1
<1> QED
  BY <1>2, <1>3

\* What a write does to the number of repetitions.
LEMMA RepeatsFacts ==
  ASSUME written \in Seq(Nat), posted \in Nat, ToSet(written) \subseteq 1 .. posted,
         NEW x \in Nat, written' = Append(written, x), Repeats \in Nat
  PROVE  /\ x \in ToSet(written) => Repeats' = Repeats + 1
         /\ x \notin ToSet(written) => Repeats' = Repeats
<1>1. IsFiniteSet(ToSet(written)) /\ Cardinality(ToSet(written)) \in Nat
  <2>1. IsFiniteSet(1 .. posted)
    BY FS_Interval
  <2> QED
    BY <2>1, FS_Subset, FS_CardinalityType
<1>2. ToSet(written') = ToSet(written) \union {x} /\ Len(written') = Len(written) + 1
  BY AppendFacts
<1>3. Cardinality(ToSet(written')) =
        IF x \in ToSet(written) THEN Cardinality(ToSet(written))
                                ELSE Cardinality(ToSet(written)) + 1
  BY <1>1, <1>2, FS_AddElement
<1>4. Len(written) \in Nat
  OBVIOUS
<1>5. /\ Repeats = Len(written) - Cardinality(ToSet(written))
      /\ Repeats' = Len(written') - Cardinality(ToSet(written'))
  BY DEF Repeats
<1> QED
  BY <1>1, <1>2, <1>3, <1>4, <1>5

\* A message that comes after the one of the loop is not written yet.
LEMMA NotAgain ==
  ASSUME TypeOK, BoxInv, NEW i \in 1 .. Len(Outbox),
         NEW j \in Nat, j < i, \A m \in ToSet(written) : m <= posted - Len(Outbox) + j
  PROVE  Outbox[i] \notin ToSet(written)
<1>1. Outbox[i] = posted - Len(Outbox) + i
  BY DEF BoxInv, OutboxInv, Numbered
<1>2. Len(Outbox) \in Nat /\ posted \in Nat
  BY DEF TypeOK
<1> QED
  BY <1>1, <1>2

\* Steps away from the writes: what was paid for stays paid for.
LEMMA PaidQuiet ==
  ASSUME TypeOK, ReadInv, PaidInv, [Next]_vars,
         UNCHANGED <<written, arrived, toServer>>,
         \/ server' = server
         \/ server # "gone" /\ toServer = <<>> /\ (server' = "connected" => ~Flushing),
         \/ pc' = "crashed"
         \/ ~Flushing /\ pc # "crashed" /\ pc' \notin {"flush", "blocked"}
         \/ UNCHANGED <<pc, msgIx, batch, signaled>> /\ (Again' <=> Again),
         status' = status
  PROVE  PaidInv'
<1>1. /\ woken \in Nat /\ woken' \in Nat /\ woken <= woken'
      /\ Repeats' = Repeats /\ Pending' = Pending
  BY WokenStep DEF Repeats, Pending
<1>2. Repeats \in Nat /\ Repeats <= woken
  BY <1>1 DEF PaidInv, RepeatInv
<1>3. Repeats' \in 0 .. woken'
  BY <1>1, <1>2
<1>4. server' = "connected" /\ (pc' = pc /\ Flushing) => server = "connected"
  OBVIOUS
<1>5. RepeatInv'
  <2>1. server' = "connected" /\ Again' => Repeats' < woken'
    <3>1. server' = "connected" /\ Again' => server = "connected" /\ Again
      BY DEF Again, Flushing
    <3> QED
      BY <1>1, <1>2, <3>1 DEF PaidInv, RepeatInv
  <2>2. server' = "connected" /\ pc' = "blocked" /\ signaled' /\ status' = "pending"
          => Repeats' < woken'
    <3>1. server' = "connected" /\ pc' = "blocked" /\ signaled'
            => server = "connected" /\ pc = "blocked" /\ signaled
      BY DEF Flushing
    <3> QED
      BY <1>1, <1>2, <3>1 DEF PaidInv, RepeatInv
  <2>3. /\ pc' = "blocked" => status' # "none"
        /\ status' = "failed" => server' = "gone"
    BY DEF PaidInv, RepeatInv
  <2> QED
    BY <1>3, <2>1, <2>2, <2>3 DEF RepeatInv
<1>6. PendingInv'
  <2>1. /\ server' # "connected" => toServer' = <<>>
        /\ Garbage \in ToSet(toServer') \union ToSet(arrived') => Repeats' > 0
    BY <1>1 DEF PaidInv, PendingInv
  <2>2. Repeats = 0 /\ Pending > 0 =>
          \/ Again
          \/ pc = "blocked" /\ status = "pending" /\ Pending = 1
          \/ pc = "crashed"
    BY DEF PaidInv, PendingInv
  <2>3. ~Flushing => ~Again /\ pc # "blocked"
    BY DEF Again, Flushing
  <2>4. Repeats' = 0 /\ Pending' > 0 =>
          \/ Again'
          \/ pc' = "blocked" /\ status' = "pending" /\ Pending' = 1
          \/ pc' = "crashed"
    BY <1>1, <2>2, <2>3
  <2> QED
    BY <2>1, <2>4 DEF PendingInv
<1> QED
  BY <1>5, <1>6 DEF PaidInv

\* A push moves no message of the batch.
LEMMA AgainPush ==
  ASSUME TypeOK, BoxInv, Write, pc' = pc
  PROVE  Again' <=> Again
<1>1. /\ Outbox' = Append(Outbox, posted + 1) /\ posted' = posted + 1
      /\ UNCHANGED <<msgIx, batch, written>>
      /\ pc' \in {pc, "crashed"}
  BY DEF Write, loopVars
<1>2. pc = "flush" => batch <= Len(Outbox)
  BY DEF BoxInv, OutboxInv, Flushing
<1>3. batch \in Nat /\ msgIx \in 1 .. batch + 1 /\ Len(Outbox) \in Nat
  BY DEF TypeOK
<1>4. \A i \in 1 .. Len(Outbox) : Outbox'[i] = Outbox[i]
  BY <1>1, PushFacts DEF BoxInv
<1>5. pc = "flush" /\ msgIx <= batch => Outbox'[msgIx] = Outbox[msgIx]
  BY <1>2, <1>3, <1>4
<1> QED
  BY <1>1, <1>5 DEF Again

\* A read that completes pays for the repetition it may cause.
LEMMA PaidServerSend ==
  ASSUME TypeOK, ReadInv, PaidInv, ServerSend
  PROVE  PaidInv'
<1>1. /\ UNCHANGED <<server, toServer, status, pc, Outbox, batch, msgIx, written, arrived>>
      /\ ~reading => UNCHANGED signaled
  BY DEF ServerSend, boxVars, loopVars
<1>2. /\ woken \in Nat /\ woken' \in Nat /\ woken <= woken'
      /\ reading /\ pc = "blocked" /\ status = "pending" => woken < woken'
  BY WokenStep DEF Next, ServerStep
<1>3. Repeats' = Repeats /\ Pending' = Pending /\ Again' = Again
  BY <1>1 DEF Repeats, Pending, Again
<1>4. Repeats \in Nat /\ Repeats <= woken
  BY <1>2 DEF PaidInv, RepeatInv
<1>5. RepeatInv'
  <2>1. Repeats' \in 0 .. woken'
    BY <1>2, <1>3, <1>4
  <2>2. server' = "connected" /\ Again' => Repeats' < woken'
    BY <1>1, <1>2, <1>3, <1>4 DEF PaidInv, RepeatInv
  <2>3. server' = "connected" /\ pc' = "blocked" /\ signaled' /\ status' = "pending"
          => Repeats' < woken'
    <3>1. CASE reading
      <4>1. pc' = "blocked" /\ status' = "pending" => woken < woken'
        BY <1>1, <1>2, <3>1
      <4> QED
        BY <1>2, <1>3, <1>4, <4>1
    <3>2. CASE ~reading
      <4>1. /\ server' = server /\ pc' = pc /\ status' = status
            /\ signaled' <=> signaled
        BY <1>1, <3>2
      <4>2. server = "connected" /\ pc = "blocked" /\ signaled /\ status = "pending"
              => Repeats < woken
        BY DEF PaidInv, RepeatInv
      <4>3. server' = "connected" /\ pc' = "blocked" /\ signaled' /\ status' = "pending"
              => Repeats < woken
        BY <4>1, <4>2
      <4>4. Repeats < woken => Repeats' < woken'
        BY <1>2, <1>3, <1>4
      <4> QED
        BY <4>3, <4>4
    <3> QED
      BY <3>1, <3>2
  <2> QED
    BY <1>1, <2>1, <2>2, <2>3 DEF PaidInv, RepeatInv
<1>6. PendingInv'
  BY <1>1, <1>3 DEF PaidInv, PendingInv
<1> QED
  BY <1>5, <1>6 DEF PaidInv

\* The oldest pending write completes when the server reads.
LEMMA PaidServerRead ==
  ASSUME TypeOK, ReadInv, PaidInv, ServerRead
  PROVE  PaidInv'
<1>1. /\ UNCHANGED <<server, pc, Outbox, batch, msgIx, written>>
      /\ server = "connected"
      /\ toServer # <<>>
      /\ arrived' = Append(arrived, Head(toServer))
      /\ toServer' = Tail(toServer)
      /\ \/ Pending > 0 /\ status' = "done"
         \/ ~(Pending > 0) /\ UNCHANGED <<status, signaled>>
  BY DEF ServerRead, boxVars, loopVars, ioVars
<1>2. woken \in Nat /\ woken' \in Nat /\ woken <= woken'
  BY WokenStep DEF Next, ServerStep
<1>3. Repeats' = Repeats /\ Again' = Again
  BY <1>1 DEF Repeats, Again
<1>4. Repeats \in Nat /\ Repeats <= woken
  BY <1>2 DEF PaidInv, RepeatInv
<1>5. RepeatInv'
  <2>1. Repeats' \in 0 .. woken'
    BY <1>2, <1>3, <1>4
  <2>2. server' = "connected" /\ Again' => Repeats' < woken'
    BY <1>1, <1>2, <1>3, <1>4 DEF PaidInv, RepeatInv
  <2>3. server' = "connected" /\ pc' = "blocked" /\ signaled' /\ status' = "pending"
          => Repeats' < woken'
    <3>1. /\ server' = server /\ pc' = pc
          /\ status' = "pending" => status = "pending" /\ (signaled' <=> signaled)
      BY <1>1
    <3>2. server = "connected" /\ pc = "blocked" /\ signaled /\ status = "pending"
            => Repeats < woken
      BY DEF PaidInv, RepeatInv
    <3>3. server' = "connected" /\ pc' = "blocked" /\ signaled' /\ status' = "pending"
            => Repeats < woken
      BY <3>1, <3>2
    <3>4. Repeats < woken => Repeats' < woken'
      BY <1>2, <1>3, <1>4
    <3> QED
      BY <3>3, <3>4
  <2> QED
    BY <1>1, <2>1, <2>2, <2>3 DEF PaidInv, RepeatInv
<1>6. toServer \in Seq(Nat) /\ arrived \in Seq(Nat) /\ Room \in Nat
  BY ClientAssumption DEF TypeOK
<1>7. /\ ToSet(toServer') \subseteq ToSet(toServer)
      /\ Head(toServer) \in ToSet(toServer) /\ Head(toServer) \in Nat
      /\ Len(Tail(toServer)) = Len(toServer) - 1 /\ Len(toServer) > 0
  BY <1>1, <1>6, TailFacts
<1>8. ToSet(arrived') = ToSet(arrived) \union {Head(toServer)}
  BY <1>1, <1>6, <1>7, AppendFacts
<1>9. Pending \in Nat /\ Pending' \in Nat /\ (Pending > 0 => Pending' = Pending - 1)
      /\ (Pending = 0 => Pending' = 0)
  <2>1. /\ Pending = IF Len(toServer) > Room THEN Len(toServer) - Room ELSE 0
        /\ Pending' = IF Len(toServer') > Room THEN Len(toServer') - Room ELSE 0
    BY DEF Pending
  <2>2. Len(toServer') = Len(toServer) - 1
    BY <1>1, <1>7
  <2>3. Len(toServer) \in Nat
    BY <1>6
  <2> QED
    BY <1>6, <1>7, <2>1, <2>2, <2>3
<1>10. PendingInv'
  <2>1. Garbage \in ToSet(toServer') \union ToSet(arrived') => Repeats > 0
    BY <1>7, <1>8 DEF PaidInv, PendingInv
  <2>2. Repeats = 0 /\ Pending' > 0 => Again \/ pc = "crashed"
    BY <1>9 DEF PaidInv, PendingInv
  <2> QED
    BY <1>1, <1>3, <2>1, <2>2 DEF PaidInv, PendingInv
<1> QED
  BY <1>5, <1>10 DEF PaidInv

\* When the server goes nothing is pending.
LEMMA PaidServerGo ==
  ASSUME TypeOK, ReadInv, PaidInv, ServerGo
  PROVE  PaidInv'
<1>1. /\ UNCHANGED <<pc, written, arrived>>
      /\ server' = "gone" /\ toServer' = <<>>
      /\ status' \in {status, "failed"}
  BY DEF ServerGo, history
<1>2. woken \in Nat /\ woken' \in Nat /\ woken <= woken'
  BY WokenStep DEF Next, ServerStep
<1>3. Repeats' = Repeats
  BY <1>1 DEF Repeats
<1>4. Repeats' \in 0 .. woken'
  BY <1>2, <1>3 DEF PaidInv, RepeatInv
<1>5. RepeatInv'
  BY <1>1, <1>4 DEF PaidInv, RepeatInv
<1>6. Pending' = 0 /\ ToSet(toServer') = {}
  <2>1. Len(<<>>) = 0 /\ Room \in Nat
    BY ClientAssumption
  <2> QED
    BY <1>1, <2>1 DEF Pending, ToSet
<1> QED
  BY <1>1, <1>3, <1>5, <1>6 DEF PaidInv, PendingInv

\* The first message of a batch is not written yet.
LEMMA PaidBegin ==
  ASSUME TypeOK, ReadInv, BoxInv, PaidInv, WriteAllMessages
  PROVE  PaidInv'
<1>1. UNCHANGED <<server, toServer, status, signaled, written, arrived>>
  BY DEF WriteAllMessages, pipeVars, ioVars, history
<1>2. CASE Outbox = <<>>
  <2>1. ~Flushing /\ pc # "crashed" /\ pc' \notin {"flush", "blocked"}
    BY <1>2 DEF WriteAllMessages, Flushing
  <2>2. [Next]_vars
    BY DEF Next, ClientStep
  <2>3. UNCHANGED <<written, arrived, toServer>> /\ server' = server /\ status' = status
    BY <1>1
  <2> QED
    BY <2>1, <2>2, <2>3, PaidQuiet
<1>3. CASE Outbox # <<>>
  <2>1. /\ pc' = "flush" /\ msgIx' = 1 /\ Outbox' = Outbox /\ batch' = Len(Outbox)
        /\ ~Flushing /\ pc # "crashed"
    BY <1>3 DEF WriteAllMessages, Flushing, boxVars
  <2>2. Outbox \in Seq(Nat) /\ Len(Outbox) \in Nat /\ 1 <= Len(Outbox) /\ posted \in Nat
    BY <1>3 DEF TypeOK
  <2>3. \A m \in ToSet(written) : m <= posted - Len(Outbox) + 0
    BY <2>1, <2>2 DEF BoxInv, WrittenInv, ToSet
  <2>4. Outbox[1] \notin ToSet(written)
    BY <2>2, <2>3, NotAgain
  <2>5. ~Again' /\ ~Again
    BY <1>1, <2>1, <2>4 DEF Again, Flushing
  <2>6. Repeats' = Repeats /\ Pending' = Pending
    BY <1>1 DEF Repeats, Pending
  <2>7. woken \in Nat /\ woken' \in Nat /\ woken <= woken'
    BY WokenStep DEF Next, ClientStep
  <2>8. Repeats' \in 0 .. woken'
    BY <2>6, <2>7 DEF PaidInv, RepeatInv
  <2>9. RepeatInv'
    BY <1>1, <2>1, <2>5, <2>8 DEF PaidInv, RepeatInv
  <2>10. PendingInv'
    BY <1>1, <2>1, <2>5, <2>6 DEF PaidInv, PendingInv, Flushing
  <2> QED
    BY <2>9, <2>10 DEF PaidInv
<1> QED
  BY <1>2, <1>3

\* A message is written again only at the cost of a read, and left pending only
\* when nothing else is, or after a repetition.
LEMMA PaidWrite ==
  ASSUME TypeOK, ReadInv, BoxInv, PaidInv, WriteMessage
  PROVE  PaidInv'
<1>1. /\ pc = "flush" /\ msgIx <= batch /\ server = "connected"
      /\ toServer' = Append(toServer, Outbox[msgIx])
      /\ written' = Append(written, Outbox[msgIx])
      /\ UNCHANGED <<server, Outbox, posted, batch, arrived>>
      /\ \/ /\ Len(toServer) < Room /\ msgIx' = msgIx + 1 /\ status' = "done" /\ pc' = "flush"
         \/ /\ ~(Len(toServer) < Room) /\ msgIx' = msgIx /\ status' = "pending" /\ pc' = "blocked"
            /\ ~signaled'
  BY DEF WriteMessage, AtMessage, boxVars
<1>2. /\ written \in Seq(Nat) /\ posted \in Nat /\ toServer \in Seq(Nat)
      /\ Outbox \in Seq(Nat) /\ Len(Outbox) \in Nat /\ batch \in Nat /\ msgIx \in 1 .. batch + 1
      /\ Room \in Nat /\ Len(toServer) \in Nat
  BY ClientAssumption DEF TypeOK
<1>3. batch <= Len(Outbox) /\ ToSet(written) \subseteq 1 .. posted /\ Len(Outbox) <= posted
  BY <1>1 DEF BoxInv, OutboxInv, WrittenInv, Flushing
<1>4. PICK x \in Nat : x = Outbox[msgIx]
  BY <1>1, <1>2, <1>3
<1>5. x # Garbage
  <2>1. Outbox[msgIx] = posted - Len(Outbox) + msgIx
    BY <1>1, <1>2, <1>3 DEF BoxInv, OutboxInv, Numbered
  <2>2. msgIx \in Nat /\ msgIx >= 1
    BY <1>2
  <2> QED
    BY <1>2, <1>3, <1>4, <2>1, <2>2 DEF Garbage
<1>6. /\ woken \in Nat /\ woken' \in Nat /\ woken <= woken'
      /\ Repeats \in Nat /\ Repeats <= woken
  <2>1. woken \in Nat /\ woken' \in Nat /\ woken <= woken'
    BY WokenStep DEF Next, ClientStep
  <2> QED
    BY <2>1 DEF PaidInv, RepeatInv
<1>7. /\ x \in ToSet(written) => Again /\ Repeats' = Repeats + 1
      /\ x \notin ToSet(written) => ~Again /\ Repeats' = Repeats
  BY <1>1, <1>2, <1>3, <1>4, <1>6, RepeatsFacts DEF Again
<1>8. Repeats' \in 0 .. woken' /\ (Again => Repeats' > 0)
  BY <1>1, <1>6, <1>7 DEF PaidInv, RepeatInv
<1>9. ~Again'
  <2>1. CASE pc' = "blocked"
    BY <2>1 DEF Again
  <2>2. CASE pc' = "flush" /\ msgIx' <= batch
    <3>1. msgIx' = msgIx + 1 /\ msgIx' \in 1 .. Len(Outbox)
      BY <1>1, <1>2, <1>3, <2>2
    <3>2. \A m \in ToSet(written') : m <= posted' - Len(Outbox') + msgIx
      <4>1. BoxInv'
        BY BoxWrite
      <4>2. OutboxInv /\ WrittenInv
        BY DEF BoxInv
      <4>3. \A m \in ToSet(written) : m <= posted - Len(Outbox) + msgIx
        BY <1>1, <4>2 DEF WrittenInv, Flushing, ToSet
      <4>4. x = posted - Len(Outbox) + msgIx
        BY <1>1, <1>2, <1>3, <1>4, <4>2 DEF OutboxInv, Numbered
      <4>5. ToSet(written') = ToSet(written) \union {x}
        BY <1>1, <1>2, <1>4, AppendFacts
      <4> QED
        BY <1>1, <1>2, <1>4, <4>3, <4>4, <4>5
    <3>3. Outbox[msgIx + 1] = posted - Len(Outbox) + (msgIx + 1)
      BY <1>1, <1>2, <3>1 DEF BoxInv, OutboxInv, Numbered
    <3>4. Outbox'[msgIx'] \notin ToSet(written')
      BY <1>1, <1>2, <3>1, <3>2, <3>3
    <3> QED
      BY <3>4 DEF Again
  <2>3. CASE pc' = "flush" /\ ~(msgIx' <= batch)
    BY <1>1, <2>3 DEF Again
  <2> QED
    BY <1>1, <2>1, <2>2, <2>3
<1>10. RepeatInv'
  BY <1>1, <1>8, <1>9 DEF RepeatInv
<1>11. ToSet(toServer') = ToSet(toServer) \union {x}
  BY <1>1, <1>2, <1>4, AppendFacts
<1>12. Garbage \in ToSet(toServer') \union ToSet(arrived') => Repeats' > 0
  BY <1>1, <1>5, <1>6, <1>7, <1>11 DEF PaidInv, PendingInv
<1>13. Repeats' = 0 /\ Pending' > 0 => pc' = "blocked" /\ status' = "pending" /\ Pending' = 1
  <2>1. Repeats' = 0 => ~Again /\ Repeats = 0
    BY <1>6, <1>7
  <2>2. Repeats' = 0 => ~(Pending > 0)
    BY <1>1, <2>1 DEF PaidInv, PendingInv
  <2>3. Repeats' = 0 => Len(toServer) <= Room
    BY <1>2, <2>2 DEF Pending
  <2>4. Pending' = IF Len(toServer) + 1 > Room THEN Len(toServer) + 1 - Room ELSE 0
    <3>1. Pending' = IF Len(toServer') > Room THEN Len(toServer') - Room ELSE 0
      BY DEF Pending
    <3>2. Len(toServer') = Len(toServer) + 1
      BY <1>1, <1>2, <1>4
    <3>3. CASE Len(toServer') > Room
      BY <1>2, <3>1, <3>2, <3>3
    <3>4. CASE ~(Len(toServer') > Room)
      BY <1>2, <3>1, <3>2, <3>4
    <3> QED
      BY <3>3, <3>4
  <2>5. Repeats' = 0 /\ Pending' > 0 => ~(Len(toServer) < Room) /\ Pending' = 1
    BY <1>2, <2>3, <2>4
  <2> QED
    BY <1>1, <2>5
<1>14. PendingInv'
  BY <1>1, <1>12, <1>13 DEF PendingInv
<1> QED
  BY <1>10, <1>14 DEF PaidInv

\* A wait that ends too soon makes the loop write again, and was paid for.
LEMMA PaidWaited ==
  ASSUME TypeOK, ReadInv, BoxInv, PaidInv, GetOverlappedResult
  PROVE  PaidInv'
<1>1. /\ pc = "blocked" /\ pc' = "flush"
      /\ status # "pending" \/ signaled
      /\ msgIx' = IF status = "done" THEN msgIx + 1 ELSE msgIx
      /\ UNCHANGED <<server, toServer, status, signaled, Outbox, posted, batch, written, arrived>>
  BY DEF GetOverlappedResult, pipeVars, ioVars, boxVars, history
<1>2. /\ written \in Seq(Nat) /\ posted \in Nat
      /\ Outbox \in Seq(Nat) /\ Len(Outbox) \in Nat /\ batch \in Nat /\ msgIx \in 1 .. batch + 1
      /\ status \in {"none", "pending", "done", "failed"}
  BY DEF TypeOK
<1>3. batch <= Len(Outbox) /\ msgIx <= batch /\ Outbox[msgIx] \in ToSet(written)
  BY <1>1 DEF BoxInv, OutboxInv, Flushing
<1>4. woken \in Nat /\ woken' \in Nat /\ woken <= woken'
  BY WokenStep DEF Next, ClientStep
<1>5. Repeats' = Repeats /\ Pending' = Pending
  BY <1>1 DEF Repeats, Pending
<1>6. Repeats \in 0 .. woken /\ Repeats' \in 0 .. woken'
  BY <1>4, <1>5 DEF PaidInv, RepeatInv
<1>7. CASE status = "done"
  <2>1. ~Again'
    <3>1. \A m \in ToSet(written) : m <= posted - Len(Outbox) + msgIx
      BY <1>1 DEF BoxInv, WrittenInv, Flushing, ToSet
    <3>2. msgIx + 1 <= batch => Outbox[msgIx + 1] \notin ToSet(written)
      BY <1>2, <1>3, <3>1, NotAgain
    <3> QED
      BY <1>1, <1>7, <3>2 DEF Again
  <2>2. RepeatInv'
    BY <1>1, <1>6, <1>7, <2>1 DEF RepeatInv
  <2>3. PendingInv'
    BY <1>1, <1>5, <1>7 DEF PaidInv, PendingInv, Again
  <2> QED
    BY <2>2, <2>3 DEF PaidInv
<1>8. CASE status # "done"
  <2>1. msgIx' = msgIx /\ Again'
    BY <1>1, <1>3, <1>8 DEF Again
  <2>2. server = "connected" => Repeats < woken
    <3>1. server = "connected" => status = "pending" /\ signaled
      BY <1>1, <1>2, <1>8 DEF PaidInv, RepeatInv
    <3> QED
      BY <1>1, <3>1 DEF PaidInv, RepeatInv
  <2>3. server' = "connected" => Repeats' < woken'
    BY <1>1, <1>4, <1>5, <1>6, <2>2
  <2>4. RepeatInv'
    BY <1>1, <1>6, <2>3 DEF PaidInv, RepeatInv
  <2>5. PendingInv'
    BY <1>1, <1>5, <2>1 DEF PaidInv, PendingInv
  <2> QED
    BY <2>4, <2>5 DEF PaidInv
<1> QED
  BY <1>7, <1>8

\* Memory is freed under a pending write only after a repetition.
LEMMA PaidFinish ==
  ASSUME TypeOK, ReadInv, PaidInv, FinishFlush
  PROVE  PaidInv'
<1>1. /\ pc = "flush" /\ msgIx > batch /\ pc' = "idle"
      /\ UNCHANGED <<server, status, signaled, written, arrived>>
  BY DEF FinishFlush, ioVars, history
<1>2. PICK spoilt \in SUBSET (Len(toServer) - Pending + 1 .. Len(toServer)) :
        toServer' = [i \in DOMAIN toServer |-> IF i \in spoilt THEN Garbage ELSE toServer[i]]
  BY DEF FinishFlush, Spoilt
<1>3. /\ toServer \in Seq(Nat) /\ Len(toServer) \in Nat /\ DOMAIN toServer = 1 .. Len(toServer)
      /\ Room \in Nat /\ batch \in Nat /\ msgIx \in Nat
  BY ClientAssumption DEF TypeOK
<1>4. Pending \in Nat /\ Pending <= Len(toServer)
  BY <1>3 DEF Pending
<1>5. /\ ToSet(toServer') \subseteq ToSet(toServer) \union {Garbage}
      /\ Pending = 0 => toServer' = toServer
      /\ toServer = <<>> => toServer' = <<>>
  <2>1. ToSet(toServer') \subseteq ToSet(toServer) \union {Garbage}
    BY <1>2, <1>3 DEF ToSet
  <2>2. Pending = 0 => spoilt = {}
    BY <1>2, <1>3, <1>4
  <2>3. Pending = 0 => toServer' = toServer
    BY <1>2, <1>3, <2>2
  <2>4. toServer = <<>> => Pending = 0
    BY <1>3 DEF Pending
  <2> QED
    BY <2>1, <2>3, <2>4
<1>6. Len(toServer') = Len(toServer) /\ Pending' = Pending
  <2>1. toServer' \in Seq(Nat) /\ DOMAIN toServer' = DOMAIN toServer
    <3>1. \A i \in 1 .. Len(toServer) : (IF i \in spoilt THEN Garbage ELSE toServer[i]) \in Nat
      BY <1>3 DEF Garbage
    <3> QED
      BY <1>2, <1>3, <3>1
  <2>2. Len(toServer') = Len(toServer)
    BY <1>3, <2>1
  <2> QED
    BY <2>2 DEF Pending
<1>7. ~Again /\ ~Again'
  BY <1>1, <1>3 DEF Again
<1>8. /\ woken \in Nat /\ woken' \in Nat /\ woken <= woken'
      /\ Repeats' = Repeats
  BY <1>1, WokenStep DEF Next, ClientStep, Repeats
<1>9. Repeats \in 0 .. woken /\ Repeats' \in 0 .. woken'
  BY <1>8 DEF PaidInv, RepeatInv
<1>10. RepeatInv'
  BY <1>1, <1>7, <1>9 DEF PaidInv, RepeatInv
<1>11. Pending > 0 => Repeats > 0
  <2>1. Pending > 0 => Repeats # 0
    BY <1>1, <1>7 DEF PaidInv, PendingInv
  <2> QED
    BY <1>8, <1>9, <2>1
<1>12. PendingInv'
  <2>1. Garbage \in ToSet(toServer') \union ToSet(arrived) => Repeats > 0
    <3>1. CASE Pending = 0
      BY <1>5, <3>1 DEF PaidInv, PendingInv
    <3>2. CASE Pending > 0
      BY <1>11, <3>2
    <3> QED
      BY <1>4, <3>1, <3>2
  <2>2. Repeats' = 0 => ~(Pending' > 0)
    BY <1>6, <1>8, <1>9, <1>11
  <2> QED
    BY <1>1, <1>5, <1>8, <2>1, <2>2 DEF PaidInv, PendingInv
<1> QED
  BY <1>10, <1>12 DEF PaidInv

\* Every step keeps the account of reads and repetitions (GetOverlappedResult).
LEMMA PaidStep ==
  ASSUME TypeOK, ReadInv, BoxInv, PaidInv, [Next]_vars
  PROVE  PaidInv'
<1>1. CASE Start \/ Stop \/ Connect \/ FirstRead \/ RunApc \/ EndApcs \/ ServerListen
             \/ WriteFails \/ Write \/ UNCHANGED vars
  <2>1. UNCHANGED <<written, arrived, toServer, status>>
    BY <1>1 DEF Start, Stop, Connect, FirstRead, RunApc, EndApcs, ServerListen, WriteFails,
       Write, vars, pipeVars, ioVars, history
  <2>2. \/ server' = server
        \/ server # "gone" /\ toServer = <<>> /\ (server' = "connected" => ~Flushing)
    <3>1. CASE Connect
      BY <3>1 DEF Connect, PaidInv, PendingInv, Flushing
    <3>2. CASE ServerListen
      BY <3>2 DEF ServerListen, PaidInv, PendingInv
    <3> QED
      BY <1>1, <3>1, <3>2 DEF Start, Stop, FirstRead, RunApc, EndApcs, WriteFails,
         Write, vars, pipeVars
  <2>3. \/ pc' = "crashed"
        \/ ~Flushing /\ pc # "crashed" /\ pc' \notin {"flush", "blocked"}
        \/ UNCHANGED <<pc, msgIx, batch, signaled>> /\ (Again' <=> Again)
    <3>1. CASE Write
      BY <3>1, AgainPush DEF Write, ioVars, loopVars
    <3>2. CASE WriteFails \/ ServerListen \/ UNCHANGED vars
      <4>1. UNCHANGED <<msgIx, batch, signaled, Outbox, written>> /\ pc' \in {pc, "crashed"}
        BY <3>2 DEF WriteFails, AtMessage, DisconnectAndClose, ServerListen, vars, ioVars,
           loopVars, boxVars, history
      <4> QED
        BY <4>1 DEF Again
    <3>3. CASE Start \/ Stop \/ Connect \/ FirstRead \/ RunApc \/ EndApcs
      BY <3>3 DEF Start, Stop, Connect, FirstRead, RunApc, HandleRead, ReadFileEx, EndApcs,
         DisconnectAndClose, Flushing
    <3> QED
      BY <1>1, <3>1, <3>2, <3>3
  <2> QED
    BY <2>1, <2>2, <2>3, PaidQuiet
<1> QED
  BY <1>1, PaidServerSend, PaidServerRead, PaidServerGo, PaidBegin, PaidWrite, PaidWaited,
     PaidFinish DEF Next, ClientStep, ServerStep

(***************************************************************************)
(* The theorems.                                                           *)
(***************************************************************************)

\* Every step of the client, its application or the server keeps the invariant.
LEMMA NextInv ==
  ASSUME IInv, [Next]_vars
  PROVE  IInv'
<1>1. TypeOK /\ ReadInv /\ HeardInv /\ BoxInv /\ PaidInv
  BY DEF IInv, BoxInv, PaidInv
<1>2. TypeOK' /\ ReadInv' /\ HeardInv' /\ BoxInv' /\ PaidInv'
  BY <1>1, TypeStep, ReadStep, BoxStep, PaidStep
<1> QED
  BY <1>2 DEF IInv, BoxInv, PaidInv

\* The inductive invariant holds in every run of the client, its application and
\* the server.
THEOREM Invariance == Spec => []IInv
BY InitInv, NextInv, PTL DEF Spec

\* Every variable keeps its type (NamedPipeClient::Impl and its globals).
THEOREM TypeCorrect == Spec => []TypeOK
<1>1. IInv => TypeOK
  BY DEF IInv
<1> QED
  BY <1>1, Invariance, PTL

\* Whatever the server sends, and whenever, OnRequest hears its requests in order,
\* each once and none left out before the last it heard; nothing after a message
\* that does not fit is heard (HandleRead, ReadFileEx).
THEOREM HearsInOrder == Spec => []HeardInOrder
<1>1. IInv => HeardInOrder
  <2> SUFFICES ASSUME IInv PROVE HeardInOrder
    OBVIOUS
  <2>1. /\ sent \in Seq(Nat) /\ toClient \in Seq(Nat) /\ handled \in Nat
        /\ Len(sent) \in Nat /\ Len(toClient) \in Nat
    BY DEF IInv, TypeOK
  <2>2. handled <= Taken /\ Taken \in Nat
    BY <2>1 DEF Taken
  <2>3. /\ Taken + Len(toClient) <= Len(sent)
        /\ \A k \in 1 .. Taken : k \notin Oversized
    BY DEF IInv, ReadInv
  <2>4. /\ \A i \in 1 .. Len(heard) - 1 : heard[i] < heard[i + 1]
        /\ ToSet(heard) = {m \in 1 .. handled : IsRequest(m)}
    BY DEF IInv, HeardInv
  <2>5. ASSUME NEW m \in ToSet(heard)
        PROVE  /\ m <= Len(sent) /\ IsRequest(m)
               /\ \A k \in 1 .. m : k \notin Oversized /\ (IsRequest(k) => k \in ToSet(heard))
    <3>1. m \in 1 .. handled /\ IsRequest(m)
      BY <2>4
    <3>2. m <= Len(sent)
      BY <2>1, <2>2, <2>3, <3>1
    <3>3. \A k \in 1 .. m : k \in 1 .. handled /\ k \in 1 .. Taken
      BY <2>1, <2>2, <3>1
    <3> QED
      BY <2>3, <2>4, <3>1, <3>2, <3>3
  <2> QED
    BY <2>4, <2>5 DEF HeardInOrder
<1> QED
  BY <1>1, Invariance, PTL

\* Nothing that left the Outbox is lost but what was posted during a flush
\* (WriteAllMessages, Write).
THEOREM LosesOnlyLate == Spec => []LostOnlyLate
<1>1. IInv => LostOnlyLate
  BY DEF IInv
<1> QED
  BY <1>1, Invariance, PTL

\* Messages are written in order; each repetition has its own read that completed
\* while the loop waited for a pending write, and freed memory reaches the server
\* only after a repetition (GetOverlappedResult).
THEOREM WritesOnce == Spec => []WrittenOnce
<1>1. IInv => WrittenOnce
  <2> SUFFICES ASSUME IInv PROVE WrittenOnce
    OBVIOUS
  <2>1. \A i \in 1 .. Len(written) - 1 : written[i] <= written[i + 1]
    BY DEF IInv, WrittenInv
  <2>2. Repeats <= woken
    <3>1. Repeats \in 0 .. woken /\ woken \in Nat
      BY DEF IInv, TypeOK, RepeatInv
    <3> QED
      BY <3>1
  <2>3. Garbage \in ToSet(arrived) => Repeats > 0
    BY DEF IInv, PendingInv
  <2> QED
    BY <2>1, <2>2, <2>3 DEF WrittenOnce
<1> QED
  BY <1>1, Invariance, PTL
================================================================================
