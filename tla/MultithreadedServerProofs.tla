------------------------ MODULE MultithreadedServerProofs ------------------------
(***************************************************************************)
(* Theorems about MultithreadedServer, for every set of pipes and every    *)
(* bound.                                                                  *)
(***************************************************************************)
EXTENDS MultithreadedServer, TLAPS

(***************************************************************************)
(* Facts about sequences.                                                  *)
(***************************************************************************)

\* What Append adds (push_back of ClientThreads).
LEMMA AppendFacts ==
  ASSUME NEW S, NEW s \in Seq(S), NEW x \in S
  PROVE  /\ Append(s, x) \in Seq(S)
         /\ Len(Append(s, x)) = Len(s) + 1
         /\ ToSet(Append(s, x)) = ToSet(s) \union {x}
<1>1. /\ Append(s, x) \in Seq(S)
      /\ Len(Append(s, x)) = Len(s) + 1 /\ Len(s) \in Nat
      /\ \A i \in 1 .. Len(s) : Append(s, x)[i] = s[i]
      /\ Append(s, x)[Len(s) + 1] = x
      /\ DOMAIN s = 1 .. Len(s)
      /\ DOMAIN Append(s, x) = 1 .. Len(s) + 1
  OBVIOUS
<1>2. ToSet(Append(s, x)) \subseteq ToSet(s) \union {x}
  BY <1>1 DEF ToSet
<1>3. ToSet(s) \subseteq ToSet(Append(s, x))
  BY <1>1 DEF ToSet
<1>4. x \in ToSet(Append(s, x))
  BY <1>1 DEF ToSet
<1> QED
  BY <1>1, <1>2, <1>3, <1>4

\* A queue that ends with a new entry has no entry twice if it had none.
LEMMA InjectiveAppend ==
  ASSUME NEW S, NEW s \in Seq(S), IsInjective(s), NEW x \in S, x \notin ToSet(s)
  PROVE  IsInjective(Append(s, x))
<1>1. /\ Len(s) \in Nat
      /\ \A i \in 1 .. Len(s) : Append(s, x)[i] = s[i]
      /\ Append(s, x)[Len(s) + 1] = x
      /\ DOMAIN s = 1 .. Len(s)
      /\ DOMAIN Append(s, x) = 1 .. Len(s) + 1
  OBVIOUS
<1>2. \A i \in 1 .. Len(s) : Append(s, x)[i] # x
  BY <1>1 DEF ToSet
<1> QED
  BY <1>1, <1>2 DEF IsInjective

\* Before the first Tick there is no pipe, and no thread but the application's.
LEMMA InitInv == Init => IInv
<1> SUFFICES ASSUME Init PROVE IInv
  OBVIOUS
<1>1. ToSet(<<>>) = {} /\ IsInjective(<<>>)
  BY DEF ToSet, IsInjective
<1>2. TypeOK
  <2>1. unread \in [Pipes -> Seq(RequestKinds)]
    BY DEF Init
  <2>2. due \in [Pipes -> 0 .. MaxAnswers]
    BY MultithreadedAssumption DEF Init
  <2>3. ClientThreads \in Seq(Pipes) /\ Len(ClientThreads) = 0
    BY DEF Init
  <2>4. joined \in 0 .. 2 * Len(ClientThreads)
    BY <2>3 DEF Init
  <2> QED
    BY <1>1, <2>1, <2>2, <2>3, <2>4 DEF Init, TypeOK
<1>3. ListeningInv /\ ThreadsInv
  BY <1>1 DEF Init, ListeningInv, ThreadsInv
<1>4. ServedUnlessEarly
  BY DEF Init, ServedUnlessEarly
<1> QED
  BY <1>2, <1>3, <1>4 DEF IInv

(***************************************************************************)
(* Every step keeps the types.                                             *)
(***************************************************************************)

\* The steps of the application's thread keep the types: no pipe gets threads
\* twice.
LEMMA MainTypeStep ==
  ASSUME TypeOK, ListeningInv, ThreadsInv, MainStep \/ Stop
  PROVE  TypeOK'
<1> USE DEF TypeOK, pipeVars, threadVars, mainVars
<1>1. CASE Tick
  BY <1>1 DEF Tick
<1>2. CASE ConnectNamedPipe
  BY <1>2 DEF ConnectNamedPipe
<1>3. CASE Accept
  <2>1. ListenPipe \in Pipes /\ ListenPipe \notin ToSet(ClientThreads)
    BY <1>3 DEF Accept, ListeningInv, ThreadsInv
  <2>2. /\ ClientThreads' = Append(ClientThreads, ListenPipe)
        /\ UNCHANGED <<state, unread, sends, due, racing, crashed, ListenPipe, joined, early>>
        /\ pc' = "idle"
        /\ ReadTick' = [ReadTick EXCEPT ![ListenPipe] = "read"]
    BY <1>3 DEF Accept
  <2>3. ClientThreads \in Seq(Pipes) /\ IsInjective(ClientThreads)
    OBVIOUS
  <2>4. ClientThreads' \in Seq(Pipes) /\ IsInjective(ClientThreads')
        /\ Len(ClientThreads') = Len(ClientThreads) + 1
    BY <2>1, <2>2, <2>3, AppendFacts, InjectiveAppend
  <2>5. joined' \in 0 .. 2 * Len(ClientThreads')
    BY <2>2, <2>3, <2>4
  <2> QED
    BY <2>1, <2>2, <2>4, <2>5
<1>4. CASE JoinReader
  <2>1. Len(ClientThreads) \in Nat
    OBVIOUS
  <2>2. joined' = joined + 1 /\ joined < 2 * Len(ClientThreads)
        /\ ClientThreads' = ClientThreads
    BY <1>4 DEF JoinReader, ReaderNext
  <2>3. joined' \in 0 .. 2 * Len(ClientThreads')
    BY <2>1, <2>2
  <2> QED
    BY <1>4, <2>3 DEF JoinReader
<1>5. CASE StopReturns
  BY <1>5 DEF StopReturns
<1>6. CASE Stop
  BY <1>6 DEF Stop
<1> QED
  BY <1>1, <1>2, <1>3, <1>4, <1>5, <1>6 DEF MainStep

\* The steps of a read thread and of a client keep the types.
LEMMA OtherTypeStep ==
  ASSUME TypeOK, ClientStep \/ (\E p \in Pipes : ReadStep(p)) \/ UNCHANGED vars
  PROVE  TypeOK'
<1> USE DEF TypeOK, pipeVars, threadVars, mainVars
<1>1. ASSUME NEW p \in Pipes, ReadRequest(p)
      PROVE  TypeOK'
  <2>1. unread[p] \in Seq(RequestKinds) /\ unread[p] # <<>>
    BY <1>1 DEF ReadRequest
  <2>2. Tail(unread[p]) \in Seq(RequestKinds)
    BY <2>1
  <2>3. unread' = [unread EXCEPT ![p] = Tail(unread[p])]
    BY <1>1 DEF ReadRequest
  <2>4. unread' \in [Pipes -> Seq(RequestKinds)]
    BY <2>2, <2>3
  <2>5. PICK answers \in 0 .. MaxAnswers : due' = [due EXCEPT ![p] = answers]
    BY <1>1 DEF ReadRequest
  <2>6. due' \in [Pipes -> 0 .. MaxAnswers]
    BY <2>5
  <2>7. /\ ReadTick' = [ReadTick EXCEPT ![p] = "request"]
        /\ UNCHANGED <<state, sends, racing, crashed, mainVars, early>>
    BY <1>1 DEF ReadRequest
  <2> QED
    BY <2>4, <2>6, <2>7
<1>2. ASSUME NEW p \in Pipes, Write(p)
      PROVE  TypeOK'
  <2>1. due[p] - 1 \in 0 .. MaxAnswers /\ due' = [due EXCEPT ![p] = due[p] - 1]
    BY <1>2, MultithreadedAssumption DEF Write
  <2>2. racing' \subseteq Pipes
    BY <1>2 DEF Write, Pushing
  <2>3. /\ ReadTick' = [ReadTick EXCEPT ![p] = "push"]
        /\ UNCHANGED <<pipeVars, crashed, mainVars, early>>
    BY <1>2 DEF Write
  <2> QED
    BY <2>1, <2>2, <2>3
<1>6. ASSUME NEW p \in Pipes, Push(p) \/ Answered(p)
      PROVE  TypeOK'
  BY <1>6 DEF Push, Answered
<1>3. ASSUME NEW p \in Pipes, ReadEnds(p)
      PROVE  TypeOK'
  BY <1>3 DEF ReadEnds
<1>4. CASE ClientStep
  <2>1. PICK p \in Pipes : ClientConnect(p) \/ ClientSend(p) \/ ClientHangUp(p)
    BY <1>4 DEF ClientStep
  <2>2. UNCHANGED <<threadVars, mainVars>>
    BY <1>4 DEF ClientStep
  <2>3. CASE ClientConnect(p)
    BY <2>2, <2>3 DEF ClientConnect
  <2>4. CASE ClientSend(p)
    BY <2>2, <2>4 DEF ClientSend
  <2>5. CASE ClientHangUp(p)
    BY <2>2, <2>5 DEF ClientHangUp
  <2> QED
    BY <2>1, <2>3, <2>4, <2>5
<1>5. CASE UNCHANGED vars
  BY <1>5 DEF vars
<1> QED
  BY <1>1, <1>2, <1>3, <1>4, <1>5, <1>6 DEF ReadStep

(***************************************************************************)
(* Clients.                                                                *)
(***************************************************************************)

\* Only the pipe of this Tick has a client whom no thread serves.
LEMMA ClientsStep ==
  ASSUME TypeOK, ListeningInv, ThreadsInv, ServedUnlessEarly, [Next]_vars
  PROVE  ListeningInv' /\ ThreadsInv' /\ ServedUnlessEarly'
<1> USE DEF ListeningInv, ThreadsInv, ServedUnlessEarly
<1>1. /\ state \in [Pipes -> {"none", "listening", "connected", "broken"}]
      /\ ReadTick \in [Pipes -> {"none", "read", "request", "push", "ended"}]
      /\ unread \in [Pipes -> Seq(RequestKinds)]
      /\ ClientThreads \in Seq(Pipes)
  BY DEF TypeOK
<1>2. CASE Tick
  <2>1. PICK p \in Pipes : /\ state[p] = "none"
                           /\ state' = [state EXCEPT ![p] = "listening"]
                           /\ ListenPipe' = p
    BY <1>2 DEF Tick
  <2>2. /\ pc = "idle" /\ pc' = "created"
        /\ UNCHANGED <<unread, ReadTick, ClientThreads, early>>
    BY <1>2 DEF Tick, threadVars
  <2> QED
    BY <1>1, <2>1, <2>2
<1>3. CASE ConnectNamedPipe
  BY <1>3 DEF ConnectNamedPipe, pipeVars, threadVars
<1>4. CASE Accept
  <2>1. /\ pc = "waiting" /\ pc' = "idle" /\ state[ListenPipe] # "listening"
        /\ ReadTick' = [ReadTick EXCEPT ![ListenPipe] = "read"]
        /\ ClientThreads' = Append(ClientThreads, ListenPipe)
        /\ UNCHANGED <<state, unread, ListenPipe, early>>
    BY <1>4 DEF Accept, pipeVars
  <2>2. ToSet(ClientThreads') = ToSet(ClientThreads) \union {ListenPipe}
    BY <1>1, <2>1, AppendFacts
  <2>3. ListenPipe \in Pipes /\ ReadTick[ListenPipe] = "none" /\ state[ListenPipe] # "none"
    BY <2>1
  <2>4. ListeningInv'
    BY <1>1, <2>1, <2>3
  <2>5. ServedUnlessEarly'
    BY <1>1, <2>1, <2>3
  <2>6. ThreadsInv'
    BY <1>1, <2>1, <2>2, <2>3
  <2> QED
    BY <2>4, <2>5, <2>6
<1>5. CASE JoinReader \/ StopReturns \/ Stop \/ UNCHANGED vars
  BY <1>5 DEF JoinReader, StopReturns, Stop, vars, pipeVars, threadVars, mainVars
<1>6. ASSUME NEW p \in Pipes, ReadRequest(p)
      PROVE  ListeningInv' /\ ThreadsInv' /\ ServedUnlessEarly'
  <2>1. /\ ReadTick[p] = "read" /\ ReadTick' = [ReadTick EXCEPT ![p] = "request"]
        /\ \A q \in Pipes \ {p} : unread'[q] = unread[q]
        /\ UNCHANGED <<state, pc, ListenPipe, ClientThreads, early>>
    BY <1>1, <1>6 DEF ReadRequest, mainVars
  <2> QED
    BY <1>1, <2>1
<1>7. ASSUME NEW p \in Pipes, Write(p) \/ Push(p) \/ Answered(p)
      PROVE  ListeningInv' /\ ThreadsInv' /\ ServedUnlessEarly'
  <2>1. /\ ReadTick[p] \in {"request", "push"}
        /\ \E there \in {"read", "request", "push"} : ReadTick' = [ReadTick EXCEPT ![p] = there]
        /\ UNCHANGED <<state, unread, pc, ListenPipe, ClientThreads, early>>
    BY <1>7 DEF Write, Push, Answered, pipeVars, mainVars
  <2> QED
    BY <1>1, <2>1
<1>8. ASSUME NEW p \in Pipes, ReadEnds(p)
      PROVE  ListeningInv' /\ ThreadsInv' /\ ServedUnlessEarly'
  <2>1. /\ ReadTick[p] = "read" /\ ReadTick' = [ReadTick EXCEPT ![p] = "ended"]
        /\ state[p] = "broken" \/ (unread[p] # <<>> /\ Head(unread[p]) # "request")
        /\ UNCHANGED <<state, unread, pc, ListenPipe, ClientThreads, early>>
    BY <1>8 DEF ReadEnds, pipeVars, mainVars
  <2> QED
    BY <1>1, <2>1
<1>9. CASE ClientStep
  <2>1. PICK p \in Pipes : ClientConnect(p) \/ ClientSend(p) \/ ClientHangUp(p)
    BY <1>9 DEF ClientStep
  <2>2. UNCHANGED <<ReadTick, pc, ListenPipe, ClientThreads>>
    BY <1>9 DEF ClientStep, threadVars, mainVars
  <2>3. CASE ClientConnect(p)
    BY <1>1, <2>2, <2>3 DEF ClientConnect
  <2>4. CASE ClientSend(p)
    <3>1. PICK request \in RequestKinds :
            unread' = [unread EXCEPT ![p] = Append(unread[p], request)]
      BY <2>4 DEF ClientSend
    <3>2. unread[p] # <<>> =>
            Append(unread[p], request) # <<>> /\ Head(Append(unread[p], request)) = Head(unread[p])
      <4>1. unread[p] \in Seq(RequestKinds)
        BY <1>1
      <4> QED
        BY <4>1
    <3>3. UNCHANGED <<state, early>>
      BY <2>4 DEF ClientSend
    <3> QED
      BY <1>1, <2>2, <3>1, <3>2, <3>3
  <2>5. CASE ClientHangUp(p)
    BY <1>1, <2>2, <2>5 DEF ClientHangUp
  <2> QED
    BY <2>1, <2>3, <2>4, <2>5
<1> QED
  BY <1>2, <1>3, <1>4, <1>5, <1>6, <1>7, <1>8, <1>9 DEF Next, MainStep, ReadStep

(***************************************************************************)
(* The theorems.                                                           *)
(***************************************************************************)

\* The inductive invariant holds in every run of the server and its clients.
THEOREM Invariance == Spec => []IInv
<1>1. IInv /\ [Next]_vars => IInv'
  <2> SUFFICES ASSUME IInv, [Next]_vars PROVE IInv'
    OBVIOUS
  <2>1. TypeOK /\ ListeningInv /\ ThreadsInv /\ ServedUnlessEarly
    BY DEF IInv
  <2>2. TypeOK'
    BY <2>1, MainTypeStep, OtherTypeStep DEF Next
  <2>3. ListeningInv' /\ ThreadsInv' /\ ServedUnlessEarly'
    BY <2>1, ClientsStep
  <2> QED
    BY <2>2, <2>3 DEF IInv
<1> QED
  BY <1>1, InitInv, PTL DEF Spec

\* Every variable keeps its type, and no pipe gets its threads twice (MtPipeServer).
THEOREM TypeCorrect == Spec => []TypeOK
<1>1. IInv => TypeOK
  BY DEF IInv
<1> QED
  BY <1>1, Invariance, PTL

\* With any number of clients, who is there is read unless it came too early or has
\* ended its own thread (Tick, ReadTick).
THEOREM ClientsServed == Spec => []ServedUnlessEarly
<1>1. IInv => ServedUnlessEarly
  BY DEF IInv
<1> QED
  BY <1>1, Invariance, PTL
================================================================================
