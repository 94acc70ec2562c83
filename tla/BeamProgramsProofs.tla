--------------------------- MODULE BeamProgramsProofs ---------------------------
(***************************************************************************)
(* What BeamPrograms promises, for any number of clients, any room in a    *)
(* pipe and any number of sends.                                           *)
(***************************************************************************)
EXTENDS BeamPrograms, FiniteSetTheorems, TLAPS

\* The types of the variables, one by one.
LEMMA Types ==
  ASSUME TypeOK
  PROVE  /\ program \in Programs
         /\ pc \in [Procs -> {"new", "created", "up", "exiting", "gone"}]
         /\ phase \in [Pipes -> {"unused", "listening", "connected"}]
         /\ end \in [Pipes -> [Sides -> Procs \union {None}]]
         /\ handle \in [Procs -> (Pipes \X Sides) \union {None}]
         /\ \A p \in Procs : pc[p] = "up" => handle[p] # None
         /\ wire \in [Pipes -> [Sides -> Nat]]
         /\ reading \subseteq Procs /\ accepts \subseteq Pipes
         /\ port \in [Procs -> Seq(Operations)]
         /\ todo \in [Procs -> Seq(Loops)]
         /\ deleted \in [Procs -> BOOLEAN]
         /\ started \in [Procs -> SUBSET Loops]
         /\ early \subseteq Pipes
         /\ sends \in Nat
         /\ Pipes = Procs /\ Server \in Procs /\ Clients \subseteq Procs
         /\ None \notin Procs /\ None \notin Pipes \X Sides /\ Server \notin Clients
         /\ Quota \in Nat /\ MaxSends \in Nat
<1>1. wire \in [Pipes -> [Sides -> Nat]]
  <2>1. 0 .. Quota + 1 + MaxSends \subseteq Nat
    BY ProgramsAssumption
  <2>2. wire \in [Pipes -> [Sides -> 0 .. Quota + 1 + MaxSends]]
    BY DEF TypeOK
  <2> QED
    BY <2>1, <2>2
<1>2. sends \in Nat
  BY ProgramsAssumption DEF TypeOK
<1> QED
  BY <1>1, <1>2, ProgramsAssumption DEF TypeOK, Pipes, Procs, Sides

\* The types of what a step that opens or closes an end changes.
LEMMA EndTypes ==
  ASSUME TypeOK
  PROVE  /\ pc \in [Procs -> {"new", "created", "up", "exiting", "gone"}]
         /\ phase \in [Pipes -> {"unused", "listening", "connected"}]
         /\ end \in [Pipes -> [Sides -> Procs \union {None}]]
         /\ handle \in [Procs -> (Pipes \X Sides) \union {None}]
         /\ started \in [Procs -> SUBSET Loops]
         /\ Pipes = Procs /\ Server \in Procs /\ Clients \subseteq Procs
         /\ None \notin Procs /\ None \notin Pipes \X Sides /\ Server \notin Clients
BY Types

\* The types of what reads and writes change on the wire.
LEMMA WireTypes ==
  ASSUME TypeOK
  PROVE  wire \in [Pipes -> [Sides -> Nat]] /\ Quota \in Nat /\ sends \in Nat
BY Types

\* The two ends of a pipe are each other's other.
LEMMA Ends == \A s \in Sides : Other(s) \in Sides /\ Other(s) # s /\ Other(Other(s)) = s
BY DEF Sides, Other

\* The end that a process has made or works on.
LEMMA Holds ==
  ASSUME TypeOK, HandlesInv, NEW p \in Procs, pc[p] \in {"created", "up"}
  PROVE  \E i \in Pipes, s \in Sides : handle[p] = <<i, s>> /\ end[i][s] = p
<1>1. handle[p] \in Pipes \X Sides
  <2>1. CASE pc[p] = "created"
    <3>1. handle[p] = <<p, "server">> /\ p \in Pipes /\ "server" \in Sides
      BY <2>1, Types DEF HandlesInv, Sides
    <3> QED
      BY <3>1
  <2>2. CASE pc[p] = "up"
    BY <2>2, Types
  <2> QED
    BY <2>1, <2>2
<1> QED
  BY <1>1 DEF HandlesInv

\* What a process that runs works on.
LEMMA Works ==
  ASSUME IInv, NEW p \in Procs, pc[p] = "up"
  PROVE  \E i \in Pipes, s \in Sides :
           /\ handle[p] = <<i, s>> /\ handle[p][1] = i /\ Near(p) = s /\ Far(p) = Other(s)
           /\ end[i][s] = p /\ Peer(p) = end[i][Other(s)]
           /\ PeerGone(p) <=> phase[i] = "connected" /\ end[i][Other(s)] = None
<1>1. TypeOK /\ HandlesInv
  BY DEF IInv
<1>3. PICK i \in Pipes, s \in Sides : handle[p] = <<i, s>>
  BY <1>1, Holds
<1>4. handle[p][1] = i /\ handle[p][2] = s
  BY <1>3
<1>5. end[i][s] = p
  BY <1>1, <1>4 DEF HandlesInv
<1> QED
  BY <1>3, <1>4, <1>5 DEF Near, Far, Peer, PeerGone

\* No two processes that run work on one end.
LEMMA WorksAlone ==
  ASSUME IInv, NEW p \in Procs, NEW q \in Procs, pc[p] = "up", pc[q] = "up",
         handle[p] = handle[q]
  PROVE  p = q
BY DEF IInv, HandlesInv

\* Before the first step nothing is there.
LEMMA InitInv == Init => IInv
<1> SUFFICES ASSUME Init PROVE IInv
  OBVIOUS
<1> USE ProgramsAssumption
<1>1. TypeOK
  <2>1. 0 \in 0 .. Quota + 1 + MaxSends
    OBVIOUS
  <2>2. /\ <<>> \in Seq(Operations) /\ <<>> \in Seq(Loops)
    OBVIOUS
  <2>3. /\ pc \in [Procs -> {"new", "created", "up", "exiting", "gone"}]
        /\ phase \in [Pipes -> {"unused", "listening", "connected"}]
        /\ end \in [Pipes -> [Sides -> Procs \union {None}]]
        /\ handle \in [Procs -> (Pipes \X Sides) \union {None}]
        /\ wire \in [Pipes -> [Sides -> 0 .. Quota + 1 + MaxSends]]
        /\ port \in [Procs -> Seq(Operations)] /\ todo \in [Procs -> Seq(Loops)]
        /\ deleted \in [Procs -> BOOLEAN] /\ started \in [Procs -> SUBSET Loops]
    BY <2>1, <2>2 DEF Init
  <2>4. \A p \in Procs : pc[p] = "new"
    BY DEF Init
  <2>5. \A i \in Pipes : wire[i]["server"] <= Quota + 1
    BY DEF Init, Sides
  <2>6. /\ program \in Programs /\ reading = {} /\ accepts = {} /\ early = {}
        /\ sends \in 0 .. MaxSends
    BY DEF Init
  <2> QED
    BY <2>3, <2>4, <2>5, <2>6 DEF TypeOK
<1>2. Server \in Procs /\ Pipes = Procs
  BY DEF Procs, Pipes
<1>3. \A p \in Procs : pc[p] = "new" /\ handle[p] = None /\ port[p] = <<>> /\ todo[p] = <<>>
        /\ started[p] = {} /\ ~deleted[p]
  BY DEF Init
<1>4. \A i \in Pipes, s \in Sides : end[i][s] = None /\ wire[i][s] = 0 /\ phase[i] = "unused"
  BY DEF Init
<1>5. DOMAIN <<>> = {}
  OBVIOUS
<1>6. PipesInv /\ HandlesInv
  BY <1>2, <1>3, <1>4 DEF PipesInv, HandlesInv, Sides
<1>7. OperationsInv
  BY <1>3 DEF Init, OperationsInv
<1>8. WireInv
  BY <1>1, <1>4, Types DEF WireInv, Sides
<1>9. LoopsInv
  BY <1>3, <1>5 DEF LoopsInv
<1>10. OneInv /\ EarlyInv /\ DeletedOnlyAfterPeer /\ ServedUnlessEarly
  BY <1>2, <1>3 DEF OneInv, EarlyInv, DeletedOnlyAfterPeer, ServedUnlessEarly
<1> QED
  BY <1>1, <1>6, <1>7, <1>8, <1>9, <1>10 DEF IInv

(***************************************************************************)
(* Which ends are open, and who works on them.                             *)
(***************************************************************************)

\* A process makes its instance.
LEMMA NewPipeEnds ==
  ASSUME IInv, NEW p \in Procs, NewPipe(p)
  PROVE  PipesInv' /\ HandlesInv' /\ EarlyInv'
<1>1. TypeOK /\ PipesInv /\ HandlesInv /\ EarlyInv
  BY DEF IInv
<1>2. /\ pc[p] = "new" /\ pc' = [pc EXCEPT ![p] = "created"]
      /\ p = Server \/ program # "loops"
      /\ phase' = [phase EXCEPT ![p] = "listening"]
      /\ end' = [end EXCEPT ![p]["server"] = p]
      /\ handle' = [handle EXCEPT ![p] = <<p, "server">>]
      /\ early' = early /\ program' = program
  BY DEF NewPipe
<1>3. phase[p] = "unused" /\ end[p]["server"] = None /\ end[p]["client"] = None
  BY <1>1, <1>2, Types DEF PipesInv
<1>4. /\ \A i \in Pipes, s \in Sides : end'[i][s] = IF i = p /\ s = "server" THEN p ELSE end[i][s]
      /\ \A i \in Pipes : phase'[i] = IF i = p THEN "listening" ELSE phase[i]
      /\ \A q \in Procs : /\ handle'[q] = IF q = p THEN <<p, "server">> ELSE handle[q]
                          /\ pc'[q] = IF q = p THEN "created" ELSE pc[q]
  BY <1>1, <1>2, Types DEF Sides
<1>5. PipesInv'
  BY <1>1, <1>2, <1>3, <1>4, Types DEF PipesInv, Sides
<1>6. HandlesInv'
  <2> SUFFICES ASSUME NEW q \in Procs
               PROVE  /\ pc'[q] = "created" => handle'[q] = <<q, "server">>
                      /\ pc'[q] \in {"created", "up"} => end'[handle'[q][1]][handle'[q][2]] = q
                      /\ q = Server /\ handle'[q] # None => handle'[q] = <<q, "server">>
                      /\ q # Server /\ pc'[q] = "up" =>
                           handle'[q][2] = "client" /\ phase'[handle'[q][1]] = "connected"
    BY DEF HandlesInv
  <2>1. CASE q = p
    BY <1>1, <1>4, <2>1, Types DEF Sides
  <2>2. CASE q # p
    <3>1. handle'[q] = handle[q] /\ pc'[q] = pc[q]
      BY <1>4, <2>2
    <3>2. ASSUME pc[q] \in {"created", "up"}
          PROVE  \E i \in Pipes, s \in Sides : handle[q] = <<i, s>> /\ end[i][s] = q
      BY <1>1, <3>2, Holds
    <3>3. ASSUME pc[q] \in {"created", "up"}
          PROVE  end'[handle'[q][1]][handle'[q][2]] = q
      <4>1. PICK i \in Pipes, s \in Sides : handle[q] = <<i, s>> /\ end[i][s] = q
        BY <3>2, <3>3
      <4>2. end'[i][s] = q
        BY <1>1, <1>3, <1>4, <4>1, EndTypes
      <4> QED
        BY <3>1, <4>1, <4>2
    <3>4. q # Server /\ pc[q] = "up" => phase'[handle'[q][1]] = "connected"
      <4>1. ASSUME q # Server, pc[q] = "up" PROVE phase'[handle'[q][1]] = "connected"
        <5>1. PICK i \in Pipes, s \in Sides : handle[q] = <<i, s>> /\ end[i][s] = q
          BY <3>2, <4>1
        <5>2. phase[i] = "connected"
          BY <1>1, <4>1, <5>1 DEF HandlesInv
        <5> QED
          BY <1>3, <1>4, <3>1, <5>1, <5>2
      <4> QED
        BY <4>1
    <3> QED
      BY <1>1, <3>1, <3>3, <3>4 DEF HandlesInv
  <2> QED
    BY <2>1, <2>2
<1>7. EarlyInv'
  BY <1>1, <1>2, <1>4, Types DEF EarlyInv
<1> QED
  BY <1>5, <1>6, <1>7

\* A client opens an instance that listens.
LEMMA ConnectEnds ==
  ASSUME IInv, NEW p \in Clients, NEW i \in Pipes, Connect(p, i),
         pc[p] \in {"new", "created"}, pc' = [pc EXCEPT ![p] = "up"], program' = program,
         program = "loops" \/ pc[p] = "created"
  PROVE  PipesInv' /\ HandlesInv' /\ EarlyInv'
<1>1. TypeOK /\ PipesInv /\ HandlesInv /\ EarlyInv /\ OperationsInv
  BY DEF IInv
<1>2. /\ phase[i] = "listening" /\ end[i]["server"] # None
      /\ phase' = [phase EXCEPT ![i] = "connected"]
      /\ end' = [end EXCEPT ![i]["client"] = p]
      /\ handle' = [handle EXCEPT ![p] = <<i, "client">>]
      /\ early' = IF i \in accepts THEN early ELSE early \union {i}
  BY DEF Connect, Connectable
<1>3. end[i]["client"] = None /\ end[i]["server"] = i /\ p \in Procs /\ p # Server
  BY <1>1, <1>2, Types DEF PipesInv
<1>4. /\ \A j \in Pipes, s \in Sides : end'[j][s] = IF j = i /\ s = "client" THEN p ELSE end[j][s]
      /\ \A j \in Pipes : phase'[j] = IF j = i THEN "connected" ELSE phase[j]
      /\ \A q \in Procs : /\ handle'[q] = IF q = p THEN <<i, "client">> ELSE handle[q]
                          /\ pc'[q] = IF q = p THEN "up" ELSE pc[q]
  <2>1. \A j \in Pipes, s \in Sides : end'[j][s] = IF j = i /\ s = "client" THEN p ELSE end[j][s]
    BY <1>1, <1>2, EndTypes DEF Sides
  <2>2. \A j \in Pipes : phase'[j] = IF j = i THEN "connected" ELSE phase[j]
    BY <1>1, <1>2, EndTypes
  <2>3. \A q \in Procs : /\ handle'[q] = IF q = p THEN <<i, "client">> ELSE handle[q]
                         /\ pc'[q] = IF q = p THEN "up" ELSE pc[q]
    BY <1>1, <1>2, <1>3, EndTypes
  <2> QED
    BY <2>1, <2>2, <2>3
<1>5. PipesInv'
  BY <1>1, <1>2, <1>3, <1>4, EndTypes DEF PipesInv, Sides
<1>6. HandlesInv'
  <2> SUFFICES ASSUME NEW q \in Procs
               PROVE  /\ pc'[q] = "created" => handle'[q] = <<q, "server">>
                      /\ pc'[q] \in {"created", "up"} => end'[handle'[q][1]][handle'[q][2]] = q
                      /\ q = Server /\ handle'[q] # None => handle'[q] = <<q, "server">>
                      /\ q # Server /\ pc'[q] = "up" =>
                           handle'[q][2] = "client" /\ phase'[handle'[q][1]] = "connected"
    BY DEF HandlesInv
  <2>1. CASE q = p
    <3>1. handle'[q][1] = i /\ handle'[q][2] = "client" /\ end'[i]["client"] = p
      BY <1>4, <2>1 DEF Sides
    <3> QED
      BY <1>3, <1>4, <2>1, <3>1
  <2>2. CASE q # p
    <3>1. handle'[q] = handle[q] /\ pc'[q] = pc[q]
      BY <1>4, <2>2
    <3>2. ASSUME pc[q] \in {"created", "up"}
          PROVE  \E j \in Pipes, s \in Sides : handle[q] = <<j, s>> /\ end[j][s] = q
      BY <1>1, <3>2, Holds
    <3>3. ASSUME pc[q] \in {"created", "up"}
          PROVE  end'[handle'[q][1]][handle'[q][2]] = q
      <4>1. PICK j \in Pipes, s \in Sides : handle[q] = <<j, s>> /\ end[j][s] = q
        BY <3>2, <3>3
      <4>2. j # i \/ s # "client"
        BY <1>1, <1>3, <4>1, <2>2, Types
      <4>3. end'[j][s] = q
        BY <1>4, <4>1, <4>2
      <4> QED
        BY <3>1, <4>1, <4>3
    <3>4. q # Server /\ pc[q] = "up" => phase'[handle'[q][1]] = "connected"
      <4>1. ASSUME q # Server, pc[q] = "up" PROVE phase'[handle'[q][1]] = "connected"
        <5>1. PICK j \in Pipes, s \in Sides : handle[q] = <<j, s>> /\ end[j][s] = q
          BY <3>2, <4>1
        <5>2. phase[j] = "connected"
          BY <1>1, <4>1, <5>1 DEF HandlesInv
        <5> QED
          BY <1>3, <1>4, <3>1, <5>1, <5>2
      <4> QED
        BY <4>1
    <3> QED
      BY <1>1, <3>1, <3>3, <3>4 DEF HandlesInv
  <2> QED
    BY <2>1, <2>2
<1>7. EarlyInv'
  <2>1. pc[Server] = "created" => Server \notin accepts
    BY <1>1 DEF OperationsInv
  <2> QED
    BY <1>1, <1>2, <1>3, <1>4, <2>1, Types DEF EarlyInv
<1> QED
  BY <1>5, <1>6, <1>7

\* The kernel closes an end of a process: what it changes, end by end and process by
\* process.
LEMMA CloseFacts ==
  ASSUME TypeOK, NEW p \in Procs, CloseOnExit(p)
  PROVE  \E i \in Pipes, s \in Sides :
           /\ end[i][s] = p
           /\ \A j \in Pipes, t \in Sides :
                end'[j][t] = IF j = i /\ t = s THEN None ELSE end[j][t]
           /\ \A q \in Procs :
                port'[q] = IF q = end[i][Other(s)] /\ q # p
                             THEN port[q] \o Failing(q, i, Other(s)) ELSE port[q]
           /\ reading' = {r \in reading : handle[r] \notin {<<i, s>>, <<i, Other(s)>>}}
           /\ wire'[i][s] = 0
           /\ wire'[i][Other(s)] = IF wire[i][Other(s)] > Quota THEN Quota ELSE wire[i][Other(s)]
           /\ \A j \in Pipes, t \in Sides : j # i => wire'[j][t] = wire[j][t]
           /\ accepts' = accepts \ {i}
<1>1. PICK i \in Pipes, s \in Sides :
        LET q == end[i][Other(s)] IN
        /\ end[i][s] = p
        /\ end' = [end EXCEPT ![i][s] = None]
        /\ port' = IF q \in Procs \ {p}
                     THEN [port EXCEPT ![q] = @ \o Failing(q, i, Other(s))]
                     ELSE port
        /\ reading' = {r \in reading : handle[r] \notin {<<i, s>>, <<i, Other(s)>>}}
        /\ wire' = [wire EXCEPT ![i][s] = 0,
                                ![i][Other(s)] = IF @ > Quota THEN Quota ELSE @]
        /\ accepts' = accepts \ {i}
  BY DEF CloseOnExit
<1>2. \A j \in Pipes, t \in Sides :
        end'[j][t] = IF j = i /\ t = s THEN None ELSE end[j][t]
  BY <1>1, Types
<1>3. \A q \in Procs :
        port'[q] = IF q = end[i][Other(s)] /\ q # p
                     THEN port[q] \o Failing(q, i, Other(s)) ELSE port[q]
  BY <1>1, Types
<1>4. /\ wire'[i][s] = 0
      /\ wire'[i][Other(s)] = IF wire[i][Other(s)] > Quota THEN Quota ELSE wire[i][Other(s)]
      /\ \A j \in Pipes, t \in Sides : j # i => wire'[j][t] = wire[j][t]
  <2>1. Other(s) \in Sides /\ Other(s) # s
    BY Ends
  <2>2. wire' = [wire EXCEPT ![i][s] = 0,
                             ![i][Other(s)] = IF @ > Quota THEN Quota ELSE @]
    BY <1>1
  <2>3. wire \in [Pipes -> [Sides -> Nat]]
    BY Types
  <2> QED
    BY <2>1, <2>2, <2>3
<1> QED
  BY <1>1, <1>2, <1>3, <1>4

\* An end is closed.
LEMMA CloseEnds ==
  ASSUME IInv, NEW p \in Procs, CloseOnExit(p)
  PROVE  PipesInv' /\ HandlesInv' /\ EarlyInv'
<1>1. TypeOK /\ PipesInv /\ HandlesInv /\ EarlyInv
  BY DEF IInv
<1>2. pc[p] = "exiting" /\ UNCHANGED <<program, pc, phase, early, handle>>
  BY DEF CloseOnExit
<1>3. PICK i \in Pipes, s \in Sides :
        /\ end[i][s] = p
        /\ \A j \in Pipes, t \in Sides :
             end'[j][t] = IF j = i /\ t = s THEN None ELSE end[j][t]
  BY <1>1, CloseFacts
<1>4. PipesInv'
  BY <1>1, <1>2, <1>3 DEF PipesInv, Sides
<1>5. HandlesInv'
  <2>1. ASSUME NEW q \in Procs, pc[q] \in {"created", "up"}
        PROVE  end'[handle[q][1]][handle[q][2]] = q
    <3>1. PICK j \in Pipes, t \in Sides : handle[q] = <<j, t>> /\ end[j][t] = q
      BY <1>1, <2>1, Holds
    <3>2. q # p
      BY <1>2, <2>1
    <3>3. end'[j][t] = q
      BY <1>3, <3>1, <3>2
    <3> QED
      BY <3>1, <3>3
  <2> QED
    BY <1>1, <1>2, <2>1 DEF HandlesInv
<1>6. EarlyInv'
  BY <1>1, <1>2 DEF EarlyInv
<1> QED
  BY <1>4, <1>5, <1>6

\* Every step keeps the ends in order.
LEMMA EndsStep ==
  ASSUME IInv, Next
  PROVE  PipesInv' /\ HandlesInv' /\ EarlyInv'
<1>1. TypeOK /\ PipesInv /\ HandlesInv /\ EarlyInv
  BY DEF IInv
<1>2. ASSUME UNCHANGED <<program, pc, phase, end, handle, early>>
      PROVE  PipesInv' /\ HandlesInv' /\ EarlyInv'
  BY <1>1, <1>2 DEF PipesInv, HandlesInv, EarlyInv
<1>3. ASSUME NEW p \in Procs, NEW l,
             UNCHANGED <<program, phase, end, early>>, pc' = [pc EXCEPT ![p] = l],
             l \in {"exiting", "gone"},
             handle' = handle \/ handle' = [handle EXCEPT ![p] = None]
      PROVE  PipesInv' /\ HandlesInv' /\ EarlyInv'
  <2>1. \A q \in Procs : pc'[q] = IF q = p THEN l ELSE pc[q]
    BY <1>1, <1>3, Types
  <2>2. \A q \in Procs : handle'[q] = handle[q] \/ (q = p /\ handle'[q] = None)
    BY <1>1, <1>3, Types
  <2>3. PipesInv'
    BY <1>1, <1>3, <2>1, Types DEF PipesInv
  <2>4. HandlesInv'
    BY <1>1, <1>3, <2>1, <2>2 DEF HandlesInv
  <2>5. EarlyInv'
    BY <1>1, <1>3, <2>1, Types DEF EarlyInv
  <2> QED
    BY <2>3, <2>4, <2>5
<1>4. CASE Accept
  <2>1. /\ pc[Server] = "created" /\ pc' = [pc EXCEPT ![Server] = "up"]
        /\ UNCHANGED <<program, phase, end, handle, early>>
    BY <1>4 DEF Accept, endVars
  <2>2. \A q \in Procs : pc'[q] = IF q = Server THEN "up" ELSE pc[q]
    BY <1>1, <2>1, Types
  <2>3. PipesInv' /\ EarlyInv'
    BY <1>1, <2>1, <2>2, Types DEF PipesInv, EarlyInv
  <2>4. HandlesInv'
    BY <1>1, <2>1, <2>2, Types DEF HandlesInv
  <2> QED
    BY <2>3, <2>4
<1>5. CASE SendToClients
  BY <1>2, <1>5 DEF SendToClients, endVars
<1>6. ASSUME NEW p \in Procs, NewPipe(p)
      PROVE  PipesInv' /\ HandlesInv' /\ EarlyInv'
  BY <1>6, NewPipeEnds
<1>7. ASSUME NEW p \in Procs, ClientStarts(p) \/ AsyncConnect(p)
      PROVE  PipesInv' /\ HandlesInv' /\ EarlyInv'
  <2>1. PICK i \in Pipes : Connect(p, i)
    BY <1>7 DEF ClientStarts, AsyncConnect
  <2>2. /\ p \in Clients /\ pc[p] \in {"new", "created"} /\ pc' = [pc EXCEPT ![p] = "up"]
        /\ program' = program /\ (program = "loops" \/ pc[p] = "created")
    BY <1>7 DEF ClientStarts, AsyncConnect
  <2> QED
    BY <2>1, <2>2, ConnectEnds
<1>8. ASSUME NEW p \in Procs, ConnectThrows(p) \/ Crash(p) \/ Kill(p)
      PROVE  PipesInv' /\ HandlesInv' /\ EarlyInv'
  <2>1. UNCHANGED <<program, phase, end, early, handle>> /\ pc' = [pc EXCEPT ![p] = "exiting"]
    BY <1>8 DEF ConnectThrows, Crash, Kill, endVars
  <2> QED
    BY <1>3, <2>1
<1>9. ASSUME NEW p \in Procs, GetCompletion(p) \/ Issue(p) \/ SecondCallback(p)
      PROVE  PipesInv' /\ HandlesInv' /\ EarlyInv'
  BY <1>2, <1>9 DEF GetCompletion, Issue, SecondCallback, endVars
<1>10. ASSUME NEW p \in Procs, CloseOnExit(p)
       PROVE  PipesInv' /\ HandlesInv' /\ EarlyInv'
  BY <1>10, CloseEnds
<1>11. ASSUME NEW p \in Procs, Ended(p)
       PROVE  PipesInv' /\ HandlesInv' /\ EarlyInv'
  <2>1. UNCHANGED <<program, phase, end, early>> /\ pc' = [pc EXCEPT ![p] = "gone"]
    BY <1>11 DEF Ended, endVars
  <2>2. handle' = [handle EXCEPT ![p] = None]
    BY <1>11 DEF Ended
  <2> QED
    BY <1>3, <2>1, <2>2
<1> QED
  BY <1>4, <1>5, <1>6, <1>7, <1>8, <1>9, <1>10, <1>11 DEF Next, Main, Thread

(***************************************************************************)
(* What a ReadFile and a WriteFile change, end by end and process by       *)
(* process.                                                                *)
(***************************************************************************)

\* Completions are added to the ports.
LEMMA CompletesFacts ==
  ASSUME TypeOK, NEW at \in [Procs -> Seq(Operations)], Completes(at)
  PROVE  \A q \in Procs :
           /\ port'[q] = port[q] \o at[q]
           /\ at[q] = <<>> => port'[q] = port[q]
BY Types DEF Completes

\* The completions that reads and writes of loops post.
LEMMA CompletionTypes ==
  /\ \A op \in {"accept", "connect", "read", "write"} :
       /\ Succeeded(op) \in Operations /\ Failed(op) \in Operations
       /\ Succeeded(op).op = op /\ Succeeded(op).ok
       /\ Failed(op).op = op /\ ~Failed(op).ok
  /\ Quiet \in [Procs -> Seq(Operations)]
  /\ \A q \in Procs : Quiet[q] = <<>>
<1>1. <<>> \in Seq(Operations)
  OBVIOUS
<1> QED
  BY <1>1 DEF Succeeded, Failed, Operations, Quiet

\* p reads at end s of i and leaves the given number of writes there.  A write that was
\* pending completes if there is room for it now.
ReadNow(p, i, s, left) ==
  /\ reading' = reading
  /\ left < wire[i][s] /\ wire'[i][s] = left
  /\ \A j \in Pipes, t \in Sides : j # i \/ t # s => wire'[j][t] = wire[j][t]
  /\ port'[p] = port[p] \o <<Succeeded("read")>>
  /\ \A q \in Procs \ {p} :
       port'[q] = IF /\ q = end[i][Other(s)] /\ "write" \in started[q]
                     /\ wire[i][s] > Quota /\ left <= Quota
                    THEN port[q] \o <<Succeeded("write")>> ELSE port[q]

\* p finds nothing to read.
ReadLater(p) ==
  /\ UNCHANGED <<wire, port>>
  /\ reading' = IF PeerGone(p) THEN reading ELSE reading \union {p}

\* p writes into the read of v at the other end.
WriteInto(p, v, i, s) ==
  /\ v # p /\ v \in reading /\ v = end[i][Other(s)] /\ handle[v] = <<i, Other(s)>>
  /\ reading' = reading \ {v} /\ wire' = wire
  /\ port'[p] = port[p] \o <<Succeeded("write")>>
  /\ port'[v] = port[v] \o <<Succeeded("read")>>
  /\ \A q \in Procs \ {p, v} : port'[q] = port[q]

\* p writes into the buffer of the pipe, where it is pending if there is no room.
WriteAhead(p, i, s) ==
  /\ ~PeerGone(p) /\ reading' = reading
  /\ wire'[i][Other(s)] = wire[i][Other(s)] + 1
  /\ \A j \in Pipes, t \in Sides : j # i \/ t # Other(s) => wire'[j][t] = wire[j][t]
  /\ port'[p] = IF wire[i][Other(s)] < Quota
                  THEN port[p] \o <<Succeeded("write")>> ELSE port[p]
  /\ \A q \in Procs \ {p} : port'[q] = port[q]

\* A process reads what is there, which may complete the pending write of the process
\* at the other end, or its read is outstanding.
LEMMA ReadFacts ==
  ASSUME IInv, NEW p \in Procs, pc[p] = "up", AsyncRead(p)
  PROVE  \E i \in Pipes, s \in Sides :
           /\ handle[p] = <<i, s>> /\ end[i][s] = p
           /\ ReadLater(p) \/ \E left \in Nat : ReadNow(p, i, s, left)
<1>1. TypeOK /\ WireInv
  BY DEF IInv
<1>2. PICK i \in Pipes, s \in Sides :
        /\ handle[p] = <<i, s>> /\ handle[p][1] = i /\ Near(p) = s
        /\ end[i][s] = p /\ Peer(p) = end[i][Other(s)]
  BY Works
<1>3. CASE wire[handle[p][1]][Near(p)] > 0
  <2>1. wire[i][s] \in Nat /\ wire[i][s] > 0
    BY <1>1, <1>2, <1>3, Types
  <2>2. PICK n \in 1 .. wire[i][s] : TakeWrites(p, n)
    BY <1>2, <1>3 DEF AsyncRead
  <2>3. PICK left \in Nat : left = wire[i][s] - n /\ left < wire[i][s]
    BY <2>1
  <2> DEFINE w == end[i][Other(s)]
             unblocked == /\ wire[i][s] > Quota /\ left <= Quota
                          /\ w # None /\ "write" \in started[w]
             read == [Quiet EXCEPT ![p] = <<Succeeded("read")>>]
             at == IF unblocked THEN [read EXCEPT ![w] = @ \o <<Succeeded("write")>>] ELSE read
  <2>4. /\ wire' = [wire EXCEPT ![i][s] = left]
        /\ Completes(at)
        /\ reading' = reading
    BY <1>2, <2>2, <2>3 DEF TakeWrites
  <2>5. unblocked => w \in Procs \ {p}
    <3> SUFFICES ASSUME unblocked PROVE w \in Procs \ {p}
      OBVIOUS
    <3>1. w \in Procs /\ Other(s) \in Sides /\ Other(s) # s
      BY <1>1, EndTypes, Ends
    <3>2. handle[w] = <<i, Other(s)>>
      BY <1>1, <2>1 DEF WireInv
    <3> QED
      BY <1>2, <3>1, <3>2
  <2>6. /\ read \in [Procs -> Seq(Operations)]
        /\ read[p] = <<Succeeded("read")>>
        /\ \A q \in Procs \ {p} : read[q] = <<>>
    BY CompletionTypes
  <2>7. <<>> \o <<Succeeded("write")>> = <<Succeeded("write")>>
    OBVIOUS
  <2>8. <<Succeeded("write")>> \in Seq(Operations)
    BY CompletionTypes
  <2>9. /\ at \in [Procs -> Seq(Operations)]
        /\ at[p] = <<Succeeded("read")>>
        /\ \A q \in Procs \ {p} :
             at[q] = IF unblocked /\ q = w THEN <<Succeeded("write")>> ELSE <<>>
    <3> HIDE DEF read
    <3>1. CASE unblocked
      <4>1. read[w] = <<>>
        BY <2>5, <2>6, <3>1
      <4>2. at = [read EXCEPT ![w] = <<Succeeded("write")>>]
        BY <2>6, <2>7, <3>1, <4>1
      <4> QED
        BY <2>5, <2>6, <2>8, <3>1, <4>2
    <3>2. CASE ~unblocked
      BY <2>6, <3>2
    <3> QED
      BY <3>1, <3>2
  <2> HIDE DEF at
  <2>10. /\ port'[p] = port[p] \o <<Succeeded("read")>>
         /\ \A q \in Procs \ {p} :
              port'[q] = IF unblocked /\ q = w THEN port[q] \o <<Succeeded("write")>> ELSE port[q]
    <3>1. \A q \in Procs : /\ port'[q] = port[q] \o at[q]
                           /\ at[q] = <<>> => port'[q] = port[q]
      BY <1>1, <2>4, <2>9, CompletesFacts
    <3> QED
      BY <2>9, <3>1
  <2>11. \A q \in Procs : (unblocked /\ q = w) <=>
           /\ q = end[i][Other(s)] /\ "write" \in started[q]
           /\ wire[i][s] > Quota /\ left <= Quota
    BY <1>1, Types
  <2>12. /\ wire'[i][s] = left
         /\ \A j \in Pipes, t \in Sides : j # i \/ t # s => wire'[j][t] = wire[j][t]
    BY <1>1, <2>4, Types
  <2> QED
    BY <1>2, <2>3, <2>4, <2>10, <2>11, <2>12 DEF ReadNow
<1>4. CASE ~(wire[handle[p][1]][Near(p)] > 0)
  BY <1>2, <1>4 DEF AsyncRead, ReadLater
<1> QED
  BY <1>3, <1>4

\* A process writes into the read at the other end, or into the buffer of the pipe,
\* pending if there is no room, or its write fails.
LEMMA WriteFacts ==
  ASSUME IInv, NEW p \in Procs, pc[p] = "up", AsyncWrite(p)
  PROVE  \E i \in Pipes, s \in Sides :
           /\ handle[p] = <<i, s>> /\ end[i][s] = p
           /\ \/ PeerGone(p) /\ UNCHANGED <<wire, reading, port>>
              \/ \E v \in Procs : WriteInto(p, v, i, s)
              \/ WriteAhead(p, i, s)
<1>1. TypeOK
  BY DEF IInv
<1>2. PICK i \in Pipes, s \in Sides :
        /\ handle[p] = <<i, s>> /\ handle[p][1] = i /\ Near(p) = s /\ Far(p) = Other(s)
        /\ end[i][s] = p /\ Peer(p) = end[i][Other(s)]
  BY Works
<1> DEFINE wrote == [Quiet EXCEPT ![p] = <<Succeeded("write")>>]
<1>3. /\ wrote \in [Procs -> Seq(Operations)]
      /\ wrote[p] = <<Succeeded("write")>>
      /\ \A q \in Procs \ {p} : wrote[q] = <<>>
  BY CompletionTypes
<1>4. Other(s) \in Sides /\ Other(s) # s
  BY Ends
<1>5. CASE PeerGone(p)
  BY <1>2, <1>5 DEF AsyncWrite
<1>6. CASE ~PeerGone(p) /\ Peer(p) \in reading /\ handle[Peer(p)] = <<i, Far(p)>>
  <2>1. PICK v \in Procs : v = Peer(p)
    BY <1>1, <1>6, Types
  <2>2. v # p /\ v \in reading /\ v = end[i][Other(s)] /\ handle[v] = <<i, Other(s)>>
    BY <1>2, <1>4, <1>6, <2>1
  <2> DEFINE at == [wrote EXCEPT ![v] = @ \o <<Succeeded("read")>>]
  <2>3. reading' = reading \ {v} /\ wire' = wire /\ Completes(at)
    BY <1>2, <1>6, <2>1 DEF AsyncWrite
  <2>4. <<>> \o <<Succeeded("read")>> = <<Succeeded("read")>>
    OBVIOUS
  <2>5. <<Succeeded("read")>> \in Seq(Operations)
    BY CompletionTypes
  <2>6. /\ at \in [Procs -> Seq(Operations)] /\ at[p] = <<Succeeded("write")>>
        /\ at[v] = <<Succeeded("read")>> /\ \A q \in Procs \ {p, v} : at[q] = <<>>
    <3> HIDE DEF wrote
    <3>1. at = [wrote EXCEPT ![v] = <<Succeeded("read")>>]
      BY <1>3, <2>2, <2>4
    <3> QED
      BY <1>3, <2>2, <2>5, <3>1
  <2> HIDE DEF at
  <2>7. /\ port'[p] = port[p] \o <<Succeeded("write")>>
        /\ port'[v] = port[v] \o <<Succeeded("read")>>
        /\ \A q \in Procs \ {p, v} : port'[q] = port[q]
    BY <1>1, <2>3, <2>6, CompletesFacts
  <2> QED
    BY <1>2, <2>2, <2>3, <2>7 DEF WriteInto
<1>7. CASE ~PeerGone(p) /\ ~(Peer(p) \in reading /\ handle[Peer(p)] = <<i, Far(p)>>)
  <2>1. /\ wire' = [wire EXCEPT ![i][Other(s)] = @ + 1] /\ reading' = reading
        /\ Completes(IF wire[i][Other(s)] < Quota THEN wrote ELSE Quiet)
    BY <1>2, <1>7 DEF AsyncWrite
  <2>2. /\ wire'[i][Other(s)] = wire[i][Other(s)] + 1
        /\ \A j \in Pipes, t \in Sides : j # i \/ t # Other(s) => wire'[j][t] = wire[j][t]
    BY <1>1, <1>4, <2>1, Types
  <2>3. /\ port'[p] = IF wire[i][Other(s)] < Quota
                        THEN port[p] \o <<Succeeded("write")>> ELSE port[p]
        /\ \A q \in Procs \ {p} : port'[q] = port[q]
    <3> HIDE DEF wrote
    <3>1. CASE wire[i][Other(s)] < Quota
      BY <1>1, <1>3, <2>1, <3>1, CompletesFacts
    <3>2. CASE ~(wire[i][Other(s)] < Quota)
      BY <1>1, <2>1, <3>2, CompletesFacts, CompletionTypes
    <3> QED
      BY <3>1, <3>2
  <2> QED
    BY <1>2, <1>7, <2>1, <2>2, <2>3 DEF WriteAhead
<1> QED
  BY <1>5, <1>6, <1>7

(***************************************************************************)
(* What is on the wire.                                                    *)
(***************************************************************************)

\* The operations a process has still to issue are those of its loops.
LEMMA DueLoops ==
  ASSUME IInv, NEW p \in Procs, todo[p] # <<>>
  PROVE  /\ Head(todo[p]) \in LoopsOf(p) /\ Head(todo[p]) \in {"read", "write"}
         /\ Head(todo[p]) = todo[p][1] /\ 1 \in DOMAIN todo[p]
         /\ Tail(todo[p]) \in {<<>>, <<"write">>}
         /\ pc[p] = "up" => phase[handle[p][1]] = "connected"
<1>1. /\ todo[p] \in {<<"read">>, <<"write">>, <<"read", "write">>}
      /\ \A n \in DOMAIN todo[p] : todo[p][n] \in LoopsOf(p)
      /\ pc[p] = "up" => phase[handle[p][1]] = "connected"
  BY DEF IInv, LoopsInv
<1>2. CASE todo[p] = <<"read">>
  BY <1>1, <1>2
<1>3. CASE todo[p] = <<"write">>
  BY <1>1, <1>3
<1>4. CASE todo[p] = <<"read", "write">>
  <2>1. Tail(<<"read", "write">>) = <<"write">>
    OBVIOUS
  <2> QED
    BY <1>1, <1>4, <2>1
<1> QED
  BY <1>1, <1>2, <1>3, <1>4

\* The one process that may write to an end of a pipe.
Writes(i, s) ==
  /\ handle[end[i][Other(s)]] = <<i, Other(s)>>
  /\ \/ "write" \in started[end[i][Other(s)]]
     \/ program = "ToolServer" /\ end[i][Other(s)] = Server

\* What is on the wire was written there.
LEMMA WireWritten ==
  ASSUME WireInv, NEW i \in Pipes, NEW s \in Sides, wire[i][s] > 0
  PROVE  /\ phase[i] = "connected" /\ end[i][s] # None
         /\ end[i][Other(s)] # None => Writes(i, s)
BY DEF WireInv, Writes

\* A process issues an operation of a loop.
LEMMA IssueWire ==
  ASSUME IInv, NEW p \in Procs, Issue(p)
  PROVE  WireInv'
<1>1. TypeOK /\ PipesInv /\ HandlesInv /\ WireInv /\ LoopsInv /\ OneInv
  BY DEF IInv
<1>2. /\ pc[p] = "up" /\ todo[p] # <<>>
      /\ IF Head(todo[p]) = "read" THEN AsyncRead(p) ELSE AsyncWrite(p)
      /\ started' = [started EXCEPT ![p] = @ \union {Head(todo[p])}]
      /\ UNCHANGED <<program, pc, phase, end, handle, sends>>
  BY DEF Issue, endVars
<1>3. /\ Head(todo[p]) \in LoopsOf(p) /\ Head(todo[p]) = todo[p][1] /\ 1 \in DOMAIN todo[p]
      /\ Head(todo[p]) \in {"read", "write"} /\ phase[handle[p][1]] = "connected"
  BY <1>2, DueLoops
<1>4. \A q \in Procs : started[q] \subseteq started'[q] /\ (q = p => Head(todo[p]) \in started'[q])
  BY <1>1, <1>2, Types
<1>5. ASSUME NEW i \in Pipes, NEW s \in Sides,
             wire[i][s] > 0, wire'[i][s] > 0
      PROVE  /\ phase[i] = "connected" /\ end[i][s] # None
             /\ end[i][Other(s)] # None => Writes(i, s)'
  <2>1. /\ phase[i] = "connected" /\ end[i][s] # None
        /\ end[i][Other(s)] # None => Writes(i, s)
    BY <1>1, <1>5, WireWritten
  <2>2. end[i][Other(s)] # None => end[i][Other(s)] \in Procs
    BY <1>1, Ends, Types
  <2> QED
    BY <1>2, <1>4, <2>1, <2>2 DEF Writes
<1>6. \A i \in Pipes, s \in Sides : wire[i][s] \in Nat
  BY <1>1, Types
<1>7. CASE Head(todo[p]) = "read"
  <2>1. \A i \in Pipes, s \in Sides : wire'[i][s] \in Nat /\ wire'[i][s] <= wire[i][s]
    <3>1. AsyncRead(p)
      BY <1>2, <1>7
    <3>2. PICK i \in Pipes, s \in Sides :
            \/ /\ \E left \in Nat : left < wire[i][s] /\ wire'[i][s] = left
               /\ \A j \in Pipes, t \in Sides : j # i \/ t # s => wire'[j][t] = wire[j][t]
            \/ wire' = wire
      BY <1>2, <3>1, ReadFacts DEF ReadNow, ReadLater
    <3> QED
      BY <1>6, <3>2
  <2>2. \A i \in Pipes, s \in Sides : wire'[i][s] > 0 => wire[i][s] > 0
    BY <1>6, <2>1
  <2>3. \A i \in Pipes : /\ wire'[i]["server"] <= Quota + 1
                         /\ wire'[i]["client"] <= IF program = "ToolServer" THEN sends ELSE Quota + 1
    <3> SUFFICES ASSUME NEW i \in Pipes
                 PROVE  /\ wire'[i]["server"] <= Quota + 1
                        /\ wire'[i]["client"] <= IF program = "ToolServer" THEN sends ELSE Quota + 1
      OBVIOUS
    <3>1. /\ wire[i]["server"] <= Quota + 1
          /\ wire[i]["client"] <= IF program = "ToolServer" THEN sends ELSE Quota + 1
      BY <1>1 DEF WireInv
    <3>2. \A s \in {"server", "client"} : /\ wire'[i][s] \in Nat /\ wire[i][s] \in Nat
                                          /\ wire'[i][s] <= wire[i][s]
      BY <1>6, <2>1 DEF Sides
    <3>3. sends \in Nat /\ Quota \in Nat
      BY <1>1, Types
    <3> QED
      BY <3>1, <3>2, <3>3
  <2> QED
    BY <1>2, <1>5, <2>2, <2>3 DEF WireInv, Writes
<1>8. CASE Head(todo[p]) = "write"
  <2>1. AsyncWrite(p)
    BY <1>2, <1>8
  <2>2. PICK i \in Pipes, s \in Sides :
          /\ handle[p] = <<i, s>> /\ handle[p][1] = i /\ handle[p][2] = s /\ Far(p) = Other(s)
          /\ end[i][s] = p
          /\ PeerGone(p) <=> phase[i] = "connected" /\ end[i][Other(s)] = None
    BY <1>2, Works DEF Near
  <2>3. \/ wire' = wire
        \/ /\ ~PeerGone(p)
           /\ wire'[i][Other(s)] = wire[i][Other(s)] + 1
           /\ \A j \in Pipes, t \in Sides : j # i \/ t # Other(s) => wire'[j][t] = wire[j][t]
    <3>1. PICK k \in Pipes, r \in Sides :
            /\ handle[p] = <<k, r>>
            /\ \/ wire' = wire
               \/ /\ ~PeerGone(p)
                  /\ wire'[k][Other(r)] = wire[k][Other(r)] + 1
                  /\ \A j \in Pipes, t \in Sides : j # k \/ t # Other(r) => wire'[j][t] = wire[j][t]
      BY <1>2, <2>1, WriteFacts DEF WriteInto, WriteAhead
    <3>2. k = i /\ r = s
      BY <2>2, <3>1
    <3> QED
      BY <3>1, <3>2
  <2>4. CASE wire' = wire
    BY <1>1, <1>2, <1>5, <2>4 DEF WireInv, Writes
  <2>5. CASE /\ ~PeerGone(p)
             /\ wire'[i][Other(s)] = wire[i][Other(s)] + 1
             /\ \A j \in Pipes, t \in Sides : j # i \/ t # Other(s) => wire'[j][t] = wire[j][t]
    <3>1. Other(s) \in Sides /\ Other(Other(s)) = s /\ phase[i] = "connected" /\ end[i][Other(s)] # None
      BY <1>3, <2>2, <2>5, Ends
    <3>2. "write" \in started'[p]
      BY <1>4, <1>8
    <3>3. wire[i][Other(s)] <= Quota
      <4>1. wire[i][Other(s)] > 0 => "write" \in started[p]
        <5> SUFFICES ASSUME wire[i][Other(s)] > 0 PROVE "write" \in started[p]
          OBVIOUS
        <5>1. PICK t \in Sides : t = Other(s) /\ Other(t) = s /\ wire[i][t] > 0
          BY <3>1
        <5>2. end[i][Other(t)] = p /\ p # None
          BY <1>1, <2>2, <5>1, Types
        <5>3. Writes(i, t)
          BY <1>1, <5>1, <5>2, WireWritten
        <5>4. "write" \in started[p] \/ (program = "ToolServer" /\ p = Server)
          BY <5>2, <5>3 DEF Writes
        <5> QED
          BY <1>3, <1>8, <5>4 DEF LoopsOf
      <4>2. ~(wire[i][Other(s)] > Quota /\ "write" \in started[p])
        <5>1. One(p, "write")
          BY <1>1, <1>2 DEF OneInv, Loops
        <5>2. Due(p, "write") # {}
          BY <1>3, <1>8 DEF Due
        <5> QED
          BY <2>2, <5>1, <5>2 DEF One, Waits, Outstanding, Blocked
      <4> QED
        BY <1>1, <1>6, <3>1, <4>1, <4>2, WireTypes
    <3>4. Other(s) = "client" => program # "ToolServer"
      <4>1. Other(s) = "client" => s = "server"
        BY DEF Other, Sides
      <4>2. s = "server" => p = Server
        BY <1>1, <1>2, <2>2 DEF HandlesInv
      <4> QED
        BY <1>3, <1>8, <4>1, <4>2 DEF LoopsOf
    <3>5. ASSUME NEW j \in Pipes
          PROVE  /\ wire'[j]["server"] <= Quota + 1
                 /\ wire'[j]["client"] <= IF program = "ToolServer" THEN sends ELSE Quota + 1
      <4>1. /\ wire[j]["server"] <= Quota + 1
            /\ wire[j]["client"] <= IF program = "ToolServer" THEN sends ELSE Quota + 1
        BY <1>1 DEF WireInv
      <4>2. wire'[i][Other(s)] <= Quota + 1
        BY <1>1, <1>6, <2>5, <3>1, <3>3, WireTypes
      <4>3. \A t \in {"server", "client"} : wire'[j][t] = wire[j][t] \/ (j = i /\ t = Other(s))
        BY <2>5 DEF Sides
      <4> QED
        BY <3>4, <4>1, <4>2, <4>3
    <3>6. ASSUME NEW j \in Pipes, NEW t \in Sides, wire'[j][t] > 0
          PROVE  /\ phase[j] = "connected" /\ end[j][t] # None
                 /\ end[j][Other(t)] # None => Writes(j, t)'
      <4>1. CASE j = i /\ t = Other(s)
        BY <1>2, <2>2, <3>1, <3>2, <4>1 DEF Writes
      <4>2. CASE j # i \/ t # Other(s)
        BY <1>5, <2>5, <3>6, <4>2
      <4> QED
        BY <4>1, <4>2
    <3> QED
      BY <1>2, <3>5, <3>6 DEF WireInv, Writes
  <2> QED
    BY <2>3, <2>4, <2>5
<1> QED
  BY <1>3, <1>7, <1>8

\* Nothing more comes on the wire, and who wrote what is there still works on its end.
LEMMA WireKept ==
  ASSUME TypeOK, WireInv, UNCHANGED <<program, sends>>,
         \A i \in Pipes, s \in Sides : wire'[i][s] \in Nat /\ wire'[i][s] <= wire[i][s],
         \A i \in Pipes, s \in Sides : wire'[i][s] > 0 =>
           /\ phase'[i] = phase[i] /\ end'[i][s] = end[i][s]
           /\ end'[i][Other(s)] \in {end[i][Other(s)], None},
         \A i \in Pipes, s \in Sides : wire'[i][s] > 0 /\ end'[i][Other(s)] # None =>
           /\ handle'[end[i][Other(s)]] = handle[end[i][Other(s)]]
           /\ started[end[i][Other(s)]] \subseteq started'[end[i][Other(s)]]
  PROVE  WireInv'
<1>1. ASSUME NEW i \in Pipes
      PROVE  /\ wire'[i]["server"] <= Quota + 1
             /\ wire'[i]["client"] <= IF program = "ToolServer" THEN sends ELSE Quota + 1
  <2>1. /\ wire[i]["server"] <= Quota + 1
        /\ wire[i]["client"] <= IF program = "ToolServer" THEN sends ELSE Quota + 1
    BY DEF WireInv
  <2>2. \A s \in {"server", "client"} : /\ wire'[i][s] \in Nat /\ wire[i][s] \in Nat
                                        /\ wire'[i][s] <= wire[i][s]
    BY Types DEF Sides
  <2>3. sends \in Nat /\ Quota \in Nat
    BY Types
  <2> QED
    BY <2>1, <2>2, <2>3
<1>2. ASSUME NEW i \in Pipes, NEW s \in Sides, wire'[i][s] > 0
      PROVE  /\ phase'[i] = "connected" /\ end'[i][s] # None
             /\ end'[i][Other(s)] # None => Writes(i, s)'
  <2>1. wire[i][s] > 0
    BY <1>2, Types
  <2>2. /\ phase[i] = "connected" /\ end[i][s] # None
        /\ end[i][Other(s)] # None => Writes(i, s)
    BY <2>1, WireWritten
  <2>3. end'[i][Other(s)] # None =>
          /\ end'[i][Other(s)] = end[i][Other(s)]
          /\ handle'[end[i][Other(s)]] = handle[end[i][Other(s)]]
          /\ started[end[i][Other(s)]] \subseteq started'[end[i][Other(s)]]
    BY <1>2
  <2> QED
    BY <1>2, <2>2, <2>3 DEF Writes
<1> QED
  BY <1>1, <1>2 DEF WireInv, Writes

\* A process that has not begun has written nothing.
LEMMA WritesBegun ==
  ASSUME IInv, NEW p \in Procs, pc[p] \in {"new", "created"}, p # Server \/ pc[p] = "new",
         NEW i \in Pipes, NEW s \in Sides, wire[i][s] > 0
  PROVE  end[i][Other(s)] # p /\ (pc[p] = "new" => i # p) /\ phase[i] = "connected"
<1>1. TypeOK /\ WireInv /\ PipesInv /\ HandlesInv /\ LoopsInv
  BY DEF IInv
<1>2. phase[i] = "connected" /\ (end[i][Other(s)] # None => Writes(i, s))
  BY <1>1, WireWritten
<1>3. pc[p] = "new" => i # p
  BY <1>1, <1>2 DEF PipesInv
<1>4. ASSUME end[i][Other(s)] = p PROVE FALSE
  <2>1. p \in Procs /\ p # None /\ started[p] = {}
    BY <1>1, Types DEF LoopsInv
  <2>2. p = Server /\ pc[p] = "new"
    BY <1>2, <1>4, <2>1 DEF Writes
  <2>3. CASE Other(s) = "server"
    BY <1>1, <1>3, <1>4, <2>1, <2>2, <2>3 DEF PipesInv
  <2>4. CASE Other(s) = "client"
    BY <1>1, <1>4, <2>1, <2>2, <2>4, Types DEF PipesInv
  <2> QED
    BY <2>3, <2>4 DEF Other
<1> QED
  BY <1>2, <1>3, <1>4

\* Every step keeps what is on the wire in order.
LEMMA WireStep ==
  ASSUME IInv, Next
  PROVE  WireInv'
<1>1. TypeOK /\ PipesInv /\ HandlesInv /\ WireInv /\ LoopsInv
  BY DEF IInv
<1>2. \A i \in Pipes, s \in Sides : wire[i][s] \in Nat
  BY <1>1, Types
<1>3. ASSUME UNCHANGED <<program, phase, end, handle, wire, started, sends>>
      PROVE  WireInv'
  BY <1>1, <1>2, <1>3, WireKept
<1>4. CASE Accept
  BY <1>3, <1>4 DEF Accept, endVars, runVars
<1>5. CASE SendToClients
  <2>1. /\ program = "ToolServer" /\ pc[Server] = "up" /\ sends' = sends + 1
        /\ UNCHANGED <<program, phase, end, handle, started>>
    BY <1>5 DEF SendToClients, endVars, runVars
  <2>2. /\ handle[Server][1] = Server /\ handle[Server] = <<Server, "server">>
        /\ end[Server]["server"] = Server
    <3>1. handle[Server] = <<Server, "server">> /\ end[handle[Server][1]][handle[Server][2]] = Server
      BY <1>1, <2>1, Types DEF HandlesInv
    <3> QED
      BY <3>1
  <2>3. wire' = IF end[Server]["client"] = None THEN wire
                                             ELSE [wire EXCEPT ![Server]["client"] = @ + 1]
    BY <1>5, <2>2 DEF SendToClients
  <2>4. /\ \A i \in Pipes : wire'[i]["server"] = wire[i]["server"]
        /\ \A i \in Pipes : wire'[i]["client"] =
             IF i = Server /\ end[i]["client"] # None THEN wire[i]["client"] + 1 ELSE wire[i]["client"]
    BY <1>1, <2>3, Types DEF Sides
  <2>5. ASSUME NEW i \in Pipes
        PROVE  wire'[i]["server"] <= Quota + 1 /\ wire'[i]["client"] <= sends'
    <3>1. wire[i]["server"] <= Quota + 1 /\ wire[i]["client"] <= sends
      BY <1>1, <2>1 DEF WireInv
    <3>2. wire[i]["client"] \in Nat /\ sends \in Nat
      BY <1>1, Types DEF Sides
    <3> QED
      BY <2>1, <2>4, <3>1, <3>2
  <2>6. ASSUME NEW i \in Pipes, NEW s \in Sides, wire'[i][s] > 0
        PROVE  /\ phase[i] = "connected" /\ end[i][s] # None
               /\ end[i][Other(s)] # None => Writes(i, s)'
    <3>1. CASE wire[i][s] > 0
      BY <2>1, <3>1, <1>1, WireWritten DEF Writes
    <3>2. CASE ~(wire[i][s] > 0)
      <4>1. i = Server /\ s = "client" /\ end[i]["client"] # None
        BY <2>4, <2>6, <3>2 DEF Sides
      <4>2. phase[i] = "connected"
        BY <1>1, <4>1 DEF PipesInv
      <4>3. Other(s) = "server"
        BY <4>1 DEF Other
      <4> QED
        BY <2>1, <2>2, <4>1, <4>2, <4>3 DEF Writes
    <3> QED
      BY <3>1, <3>2
  <2> QED
    BY <2>1, <2>5, <2>6 DEF WireInv, Writes
<1>6. ASSUME NEW p \in Procs, NewPipe(p)
      PROVE  WireInv'
  <2>1. /\ pc[p] = "new" /\ UNCHANGED <<program, wire, started, sends>>
        /\ phase' = [phase EXCEPT ![p] = "listening"]
        /\ end' = [end EXCEPT ![p]["server"] = p]
        /\ handle' = [handle EXCEPT ![p] = <<p, "server">>]
    BY <1>6 DEF NewPipe, opVars, runVars
  <2>2. ASSUME NEW i \in Pipes, NEW s \in Sides, wire[i][s] > 0
        PROVE  /\ phase'[i] = phase[i] /\ end'[i] = end[i]
               /\ handle'[end[i][Other(s)]] = handle[end[i][Other(s)]]
    <3>1. end[i][Other(s)] # p /\ i # p
      BY <2>1, <2>2, WritesBegun
    <3>2. phase'[i] = phase[i] /\ end'[i] = end[i]
      BY <1>1, <2>1, <3>1, Types
    <3>3. handle'[end[i][Other(s)]] = handle[end[i][Other(s)]]
      BY <2>1, <3>1
    <3> QED
      BY <3>2, <3>3
  <2> QED
    BY <1>1, <1>2, <2>1, <2>2, WireKept
<1>7. ASSUME NEW p \in Procs, ClientStarts(p) \/ AsyncConnect(p)
      PROVE  WireInv'
  <2>1. PICK k \in Pipes : Connect(p, k)
    BY <1>7 DEF ClientStarts, AsyncConnect
  <2>2. /\ p \in Clients /\ pc[p] \in {"new", "created"}
        /\ UNCHANGED <<program, wire, started, sends>>
    BY <1>7 DEF ClientStarts, AsyncConnect, runVars
  <2>3. /\ phase[k] = "listening"
        /\ phase' = [phase EXCEPT ![k] = "connected"]
        /\ end' = [end EXCEPT ![k]["client"] = p]
        /\ handle' = [handle EXCEPT ![p] = <<k, "client">>]
    BY <2>1 DEF Connect, Connectable
  <2>4. ASSUME NEW i \in Pipes, NEW s \in Sides, wire[i][s] > 0
        PROVE  /\ phase'[i] = phase[i] /\ end'[i] = end[i]
               /\ handle'[end[i][Other(s)]] = handle[end[i][Other(s)]]
    <3>1. end[i][Other(s)] # p /\ phase[i] = "connected"
      BY <1>1, <2>2, <2>4, WritesBegun, Types
    <3>2. phase'[i] = phase[i] /\ end'[i] = end[i]
      BY <1>1, <2>3, <3>1, Types
    <3>3. handle'[end[i][Other(s)]] = handle[end[i][Other(s)]]
      BY <2>3, <3>1
    <3> QED
      BY <3>2, <3>3
  <2> QED
    BY <1>1, <1>2, <2>2, <2>4, WireKept
<1>8. ASSUME NEW p \in Procs,
             ConnectThrows(p) \/ Crash(p) \/ Kill(p) \/ GetCompletion(p) \/ SecondCallback(p)
      PROVE  WireInv'
  BY <1>3, <1>8 DEF ConnectThrows, Crash, Kill, GetCompletion, SecondCallback, endVars, opVars, runVars
<1>9. ASSUME NEW p \in Procs, Issue(p)
      PROVE  WireInv'
  BY <1>9, IssueWire
<1>10. ASSUME NEW p \in Procs, CloseOnExit(p)
       PROVE  WireInv'
  <2>1. UNCHANGED <<program, phase, handle, started, sends>>
    BY <1>10 DEF CloseOnExit, runVars
  <2>2. PICK i \in Pipes, s \in Sides :
          /\ \A j \in Pipes, t \in Sides : end'[j][t] = IF j = i /\ t = s THEN None ELSE end[j][t]
          /\ wire'[i][s] = 0
          /\ wire'[i][Other(s)] = IF wire[i][Other(s)] > Quota THEN Quota ELSE wire[i][Other(s)]
          /\ \A j \in Pipes, t \in Sides : j # i => wire'[j][t] = wire[j][t]
    BY <1>1, <1>10, CloseFacts
  <2>3. Quota \in Nat /\ \A t \in Sides : t = s \/ t = Other(s)
    BY <1>1, Types DEF Sides, Other
  <2>4. \A j \in Pipes, t \in Sides : wire'[j][t] \in Nat /\ wire'[j][t] <= wire[j][t]
    <3> SUFFICES ASSUME NEW j \in Pipes, NEW t \in Sides
                 PROVE  wire'[j][t] \in Nat /\ wire'[j][t] <= wire[j][t]
      OBVIOUS
    <3>1. wire[j][t] \in Nat
      BY <1>2
    <3> QED
      BY <2>2, <2>3, <3>1
  <2>5. \A j \in Pipes, t \in Sides : wire'[j][t] > 0 =>
          end'[j][t] = end[j][t] /\ end'[j][Other(t)] \in {end[j][Other(t)], None}
    BY <2>2, Ends
  <2> QED
    BY <1>1, <2>1, <2>4, <2>5, WireKept
<1>11. ASSUME NEW p \in Procs, Ended(p)
       PROVE  WireInv'
  <2>1. /\ UNCHANGED <<program, phase, end, wire, sends>>
        /\ \A i \in Pipes, s \in Sides : end[i][s] # p
        /\ handle' = [handle EXCEPT ![p] = None] /\ started' = [started EXCEPT ![p] = {}]
    BY <1>11 DEF Ended, endVars, opVars
  <2>2. \A i \in Pipes, s \in Sides : end[i][Other(s)] # None =>
          /\ handle'[end[i][Other(s)]] = handle[end[i][Other(s)]]
          /\ started'[end[i][Other(s)]] = started[end[i][Other(s)]]
    BY <1>1, <2>1, Ends, EndTypes
  <2> QED
    BY <1>1, <1>2, <2>1, <2>2, WireKept
<1> QED
  BY <1>4, <1>5, <1>6, <1>7, <1>8, <1>9, <1>10, <1>11 DEF Next, Main, Thread

(***************************************************************************)
(* The types.                                                              *)
(***************************************************************************)

\* The bound on what is on the wire is that of WireInv.
LEMMA WireBound ==
  ASSUME NEW n \in 0 .. MaxSends, NEW w \in [Pipes -> [Sides -> Nat]],
         \A i \in Pipes : w[i]["server"] <= Quota + 1 /\ (w[i]["client"] <= n \/ w[i]["client"] <= Quota + 1)
  PROVE  w \in [Pipes -> [Sides -> 0 .. Quota + 1 + MaxSends]]
<1>1. Quota \in Nat /\ MaxSends \in Nat /\ n \in Nat /\ n <= MaxSends
  BY ProgramsAssumption
<1>2. ASSUME NEW i \in Pipes, NEW s \in Sides
      PROVE  w[i][s] \in 0 .. Quota + 1 + MaxSends
  <2>1. w[i][s] \in Nat /\ (s = "server" \/ s = "client")
    BY DEF Sides
  <2> QED
    BY <1>1, <2>1
<1> QED
  BY <1>2

\* What a read or write of a loop does to the wire and the ports.
LEMMA IssueTypes ==
  ASSUME IInv, NEW p \in Procs, Issue(p)
  PROVE  /\ wire' \in [Pipes -> [Sides -> Nat]]
         /\ port' \in [Procs -> Seq(Operations)]
         /\ reading' \subseteq Procs
<1>1. TypeOK
  BY DEF IInv
<1>2. /\ pc[p] = "up" /\ (AsyncRead(p) \/ AsyncWrite(p))
  BY DEF Issue
<1>3. <<Succeeded("read")>> \in Seq(Operations) /\ <<Succeeded("write")>> \in Seq(Operations)
  BY CompletionTypes
<1>4. port' = port \/ port' = [q \in Procs |-> port'[q]]
  <2>1. ASSUME NEW at, Completes(at)
        PROVE  port' = [q \in Procs |-> port'[q]]
    BY <2>1 DEF Completes
  <2>2. CASE AsyncRead(p)
    BY <2>1, <2>2 DEF AsyncRead, TakeWrites
  <2>3. CASE AsyncWrite(p)
    BY <2>1, <2>3 DEF AsyncWrite
  <2> QED
    BY <1>2, <2>2, <2>3
<1>5. \A i \in Pipes, s \in Sides : wire[i][s] \in Nat
  BY <1>1, Types
<1>6. \/ wire' = wire
      \/ \E i \in Pipes, t \in Sides : \E n : wire' = [wire EXCEPT ![i][t] = n]
  <2>1. PICK i \in Pipes, s \in Sides :
          /\ handle[p][1] = i /\ Near(p) = s /\ Far(p) = Other(s)
    BY <1>2, Works
  <2> QED
    BY <1>2, <2>1, Ends DEF AsyncRead, TakeWrites, AsyncWrite
<1> DEFINE Change ==
             /\ reading' \subseteq Procs
             /\ \A j \in Pipes, t \in Sides : wire'[j][t] \in Nat
             /\ \A q \in Procs : \/ port'[q] = port[q]
                                \/ port'[q] = port[q] \o <<Succeeded("read")>>
                                \/ port'[q] = port[q] \o <<Succeeded("write")>>
<1>7. ASSUME AsyncRead(p) PROVE Change
  <2>1. PICK i \in Pipes, s \in Sides : ReadLater(p) \/ \E left \in Nat : ReadNow(p, i, s, left)
    BY <1>2, <1>7, ReadFacts
  <2>2. \A q \in Procs : \/ port'[q] = port[q]
                        \/ port'[q] = port[q] \o <<Succeeded("read")>>
                        \/ port'[q] = port[q] \o <<Succeeded("write")>>
    BY <2>1 DEF ReadNow, ReadLater
  <2>3. \A j \in Pipes, t \in Sides : wire'[j][t] \in Nat
    BY <1>5, <2>1 DEF ReadNow, ReadLater
  <2>4. reading' \subseteq Procs
    BY <1>1, <2>1, Types DEF ReadNow, ReadLater
  <2> QED
    BY <2>2, <2>3, <2>4
<1>8. ASSUME AsyncWrite(p) PROVE Change
  <2>1. PICK i \in Pipes, s \in Sides :
           \/ PeerGone(p) /\ UNCHANGED <<wire, reading, port>>
           \/ \E v \in Procs : WriteInto(p, v, i, s)
           \/ WriteAhead(p, i, s)
    BY <1>2, <1>8, WriteFacts
  <2>2. \A q \in Procs : \/ port'[q] = port[q]
                        \/ port'[q] = port[q] \o <<Succeeded("read")>>
                        \/ port'[q] = port[q] \o <<Succeeded("write")>>
    BY <2>1 DEF WriteInto, WriteAhead
  <2>3. \A j \in Pipes, t \in Sides : wire'[j][t] \in Nat
    BY <1>5, <2>1, Ends DEF WriteInto, WriteAhead
  <2>4. reading' \subseteq Procs
    BY <1>1, <2>1, Types DEF WriteInto, WriteAhead
  <2> QED
    BY <2>2, <2>3, <2>4
<1>9. Change
  BY <1>2, <1>7, <1>8
<1>10. \A q \in Procs : port'[q] \in Seq(Operations)
  <2> SUFFICES ASSUME NEW q \in Procs PROVE port'[q] \in Seq(Operations)
    OBVIOUS
  <2>1. PICK x \in Seq(Operations) : x = port[q]
    BY <1>1, Types
  <2>2. /\ x \o <<Succeeded("read")>> \in Seq(Operations)
        /\ x \o <<Succeeded("write")>> \in Seq(Operations)
    BY <1>3
  <2> QED
    BY <1>9, <2>1, <2>2
<1>11. port' \in [Procs -> Seq(Operations)]
  BY <1>1, <1>4, <1>10, Types
<1>12. wire' \in [Pipes -> [Sides -> Nat]]
  <2>1. CASE wire' = wire
    BY <1>1, <2>1, Types
  <2>2. ASSUME NEW i \in Pipes, NEW t \in Sides, NEW n, wire' = [wire EXCEPT ![i][t] = n]
        PROVE  wire' \in [Pipes -> [Sides -> Nat]]
    <3>1. n = wire'[i][t]
      BY <1>1, <2>2, Types
    <3>2. n \in Nat
      BY <1>9, <3>1
    <3> QED
      BY <1>1, <2>2, <3>2, Types
  <2> QED
    BY <1>6, <2>1, <2>2
<1> QED
  BY <1>9, <1>11, <1>12

\* The operations that fail when the other end is closed: a read, a pending write, or
\* both.
LEMMA FailingCases ==
  ASSUME NEW q, NEW i, NEW s
  PROVE  /\ Failing(q, i, s) \in Seq(Operations)
         /\ IF q # None /\ handle[q] = <<i, s>>
              THEN Failing(q, i, s) =
                     IF q \in reading
                       THEN IF Blocked(q) THEN <<Failed("read")>> \o <<Failed("write")>> ELSE <<Failed("read")>>
                       ELSE IF Blocked(q) THEN <<Failed("write")>> ELSE <<>>
              ELSE Failing(q, i, s) = <<>>
<1> DEFINE r == Failed("read")
           w == Failed("write")
<1>1. r \in Operations /\ w \in Operations
  BY CompletionTypes
<1> HIDE DEF r, w
<1>2. /\ <<r>> \o <<>> = <<r>>
      /\ <<>> \o <<w>> = <<w>> /\ <<>> \o <<>> = <<>>
  BY <1>1
<1>3. IF q # None /\ handle[q] = <<i, s>>
        THEN Failing(q, i, s) =
               IF q \in reading THEN IF Blocked(q) THEN <<r>> \o <<w>> ELSE <<r>>
                                ELSE IF Blocked(q) THEN <<w>> ELSE <<>>
        ELSE Failing(q, i, s) = <<>>
  BY <1>2 DEF Failing, r, w
<1>4. /\ <<r>> \o <<w>> \in Seq(Operations) /\ <<r>> \in Seq(Operations)
      /\ <<w>> \in Seq(Operations) /\ <<>> \in Seq(Operations)
  BY <1>1
<1> QED
  BY <1>3, <1>4 DEF r, w

\* Every step keeps the types.
LEMMA TypeStep ==
  ASSUME IInv, Next
  PROVE  TypeOK'
<1>1. TypeOK /\ LoopsInv /\ PipesInv
  BY DEF IInv
<1>2. WireInv'
  BY WireStep
<1> DEFINE PipesType ==
             /\ program \in Programs
             /\ pc \in [Procs -> {"new", "created", "up", "exiting", "gone"}]
             /\ phase \in [Pipes -> {"unused", "listening", "connected"}]
             /\ end \in [Pipes -> [Sides -> Procs \union {None}]]
             /\ handle \in [Procs -> (Pipes \X Sides) \union {None}]
             /\ \A p \in Procs : pc[p] = "up" => handle[p] # None
             /\ early \subseteq Pipes
           RunType ==
             /\ todo \in [Procs -> Seq(Loops)]
             /\ deleted \in [Procs -> BOOLEAN]
             /\ started \in [Procs -> SUBSET Loops]
             /\ sends \in 0 .. MaxSends
           OpType ==
             /\ wire \in [Pipes -> [Sides -> Nat]]
             /\ reading \subseteq Procs
             /\ accepts \subseteq Pipes
             /\ port \in [Procs -> Seq(Operations)]
<1>3. PipesType /\ RunType /\ OpType
  BY <1>1, Types DEF TypeOK
<1>4. ASSUME PipesType', RunType', OpType'
      PROVE  TypeOK'
  <2>1. /\ wire' \in [Pipes -> [Sides -> 0 .. Quota + 1 + MaxSends]]
        /\ \A i \in Pipes : wire'[i]["server"] <= Quota + 1
    <3>1. \A i \in Pipes : /\ wire'[i]["server"] <= Quota + 1
                           /\ wire'[i]["client"] <= sends' \/ wire'[i]["client"] <= Quota + 1
      BY <1>2 DEF WireInv
    <3> QED
      BY <1>4, <3>1, WireBound
  <2> QED
    BY <1>4, <2>1 DEF TypeOK
<1>5. <<>> \in Seq(Loops) /\ <<"read">> \in Seq(Loops) /\ <<"write">> \in Seq(Loops)
      /\ <<"read", "write">> \in Seq(Loops) /\ <<>> \in Seq(Operations)
  BY DEF Loops
<1>6. ASSUME NEW s \in Seq(Operations), NEW op \in {"accept", "connect"}
      PROVE  Append(s, Succeeded(op)) \in Seq(Operations)
  BY CompletionTypes
<1>7. CASE Accept
  <2>1. pc' = [pc EXCEPT ![Server] = "up"] /\ pc[Server] = "created" /\ AsyncAccept(handle[Server][1])
        /\ UNCHANGED <<program, phase, end, early, handle, wire, reading, port, todo, deleted, started, sends>>
    BY <1>7 DEF Accept, endVars, runVars
  <2>2. handle[Server] = <<Server, "server">> /\ handle[Server] # None
    <3>1. handle[Server] = <<Server, "server">>
      BY <1>1, <2>1, Types DEF IInv, HandlesInv
    <3>2. <<Server, "server">> \in Pipes \X Sides
      BY <1>1, Types DEF Sides
    <3>3. None \notin Pipes \X Sides
      BY <1>1, Types
    <3> QED
      BY <3>1, <3>2, <3>3, Zenon
  <2>3. accepts' \subseteq Pipes
    <3>1. handle[Server][1] = Server /\ Server \in Pipes
      BY <1>1, <2>2, Types
    <3> QED
      BY <1>3, <2>1, <3>1 DEF AsyncAccept
  <2>4. Server \in Procs
    BY <1>1, Types
  <2> QED
    BY <1>3, <1>4, <2>1, <2>2, <2>3, <2>4
<1>8. CASE SendToClients
  <2>1. /\ UNCHANGED <<program, pc, phase, end, early, handle, reading, accepts, port, todo, deleted, started>>
        /\ sends < MaxSends /\ sends' = sends + 1
        /\ wire' = wire \/ wire' = [wire EXCEPT ![handle[Server][1]]["client"] = @ + 1]
    BY <1>8 DEF SendToClients, endVars, runVars
  <2>2. wire' \in [Pipes -> [Sides -> Nat]]
    <3>1. PICK i : i = handle[Server][1]
      OBVIOUS
    <3>2. CASE wire' = [wire EXCEPT ![i]["client"] = @ + 1]
      <4>1. i \in Pipes => wire[i] \in [Sides -> Nat] /\ wire[i]["client"] + 1 \in Nat
        BY <1>3 DEF Sides
      <4> QED
        BY <1>3, <3>2, <4>1
    <3> QED
      BY <1>3, <2>1, <3>1, <3>2
  <2>3. sends' \in 0 .. MaxSends
    BY <1>3, <2>1, ProgramsAssumption
  <2> QED
    BY <1>3, <1>4, <2>1, <2>2, <2>3
<1>9. ASSUME NEW p \in Procs, NewPipe(p)
      PROVE  TypeOK'
  <2>1. /\ UNCHANGED <<program, wire, reading, accepts, port, todo, deleted, started, early, sends>>
        /\ phase' = [phase EXCEPT ![p] = "listening"]
        /\ end' = [end EXCEPT ![p]["server"] = p]
        /\ handle' = [handle EXCEPT ![p] = <<p, "server">>]
        /\ pc' = [pc EXCEPT ![p] = "created"]
    BY <1>9 DEF NewPipe, opVars, runVars
  <2>2. <<p, "server">> \in Pipes \X Sides /\ p \in Pipes
    BY <1>1, Types DEF Sides
  <2> QED
    BY <1>3, <1>4, <2>1, <2>2 DEF Sides
<1>10. ASSUME NEW p \in Procs, ClientStarts(p) \/ AsyncConnect(p)
       PROVE  TypeOK'
  <2>1. PICK i \in Pipes : /\ Connect(p, i)
                           /\ \/ port' = Accepted(i)
                              \/ port' = [Accepted(i) EXCEPT ![p] = Append(@, Succeeded("connect"))]
    BY <1>10 DEF ClientStarts, AsyncConnect
  <2>2. /\ UNCHANGED <<program, wire, reading, deleted, started, sends>>
        /\ todo' = todo \/ todo' = [todo EXCEPT ![p] = <<"read">>]
        /\ pc' = [pc EXCEPT ![p] = "up"]
    BY <1>10 DEF ClientStarts, AsyncConnect, runVars
  <2>3. /\ phase' = [phase EXCEPT ![i] = "connected"]
        /\ end' = [end EXCEPT ![i]["client"] = p]
        /\ handle' = [handle EXCEPT ![p] = <<i, "client">>]
        /\ early' = early \/ early' = early \union {i}
        /\ accepts' = accepts \ {i}
    BY <2>1 DEF Connect
  <2>4. <<i, "client">> \in Pipes \X Sides /\ <<i, "client">> # None
    BY <1>1, Types DEF Sides
  <2>5. Accepted(i) \in [Procs -> Seq(Operations)]
    <3>1. \A q \in Procs : Append(port[q], Succeeded("accept")) \in Seq(Operations)
      BY <1>3, <1>6
    <3> QED
      BY <1>3, <3>1 DEF Accepted
  <2>6. port' \in [Procs -> Seq(Operations)]
    <3>1. Append(Accepted(i)[p], Succeeded("connect")) \in Seq(Operations)
      BY <1>6, <2>5
    <3> QED
      BY <2>1, <2>5, <3>1
  <2>7. PipesType'
    BY <1>3, <2>2, <2>3, <2>4 DEF Sides
  <2>8. RunType' /\ OpType'
    BY <1>3, <1>5, <2>2, <2>3, <2>6
  <2> QED
    BY <1>4, <2>7, <2>8
<1>11. ASSUME NEW p \in Procs, ConnectThrows(p) \/ Crash(p) \/ Kill(p)
       PROVE  TypeOK'
  <2>1. /\ UNCHANGED <<program, phase, end, early, handle, wire, reading, accepts, port, todo, deleted, started, sends>>
        /\ pc' = [pc EXCEPT ![p] = "exiting"]
    BY <1>11 DEF ConnectThrows, Crash, Kill, endVars, opVars, runVars
  <2> QED
    BY <1>3, <1>4, <2>1
<1>12. ASSUME NEW p \in Procs, GetCompletion(p)
       PROVE  TypeOK'
  <2>1. /\ UNCHANGED <<program, pc, phase, end, early, handle, wire, reading, accepts, started, sends>>
        /\ port[p] # <<>> /\ port' = [port EXCEPT ![p] = Tail(@)]
        /\ \/ todo' = [todo EXCEPT ![p] = Callback(p, Head(port[p]).op)]
           \/ todo' = [todo EXCEPT ![p] = <<>>]
        /\ deleted' = [deleted EXCEPT ![p] = ~Head(port[p]).ok /\ GoesOn(p)]
    BY <1>12 DEF GetCompletion, endVars, opVars
  <2>2. Tail(port[p]) \in Seq(Operations) /\ Head(port[p]) \in Operations
    <3>1. PICK x \in Seq(Operations) : x = port[p]
      BY <1>3
    <3> QED
      BY <2>1, <3>1
  <2>3. Callback(p, Head(port[p]).op) \in Seq(Loops)
    <3>1. Head(port[p]).op \in {"accept", "connect", "read", "write"}
      BY <2>2 DEF Operations
    <3> QED
      BY <1>5, <3>1 DEF Callback, ServerAccepted, ToolAccepted, WriteLoop, ReadLoop
  <2>4. OpType' /\ PipesType'
    BY <1>3, <2>1, <2>2
  <2>5. todo' \in [Procs -> Seq(Loops)]
    BY <1>3, <1>5, <2>1, <2>3
  <2>6. (~Head(port[p]).ok /\ GoesOn(p)) \in BOOLEAN
    OBVIOUS
  <2>7. deleted' \in [Procs -> BOOLEAN]
    BY <1>3, <2>1, <2>6
  <2> QED
    BY <1>3, <1>4, <2>1, <2>4, <2>5, <2>7
<1>13. ASSUME NEW p \in Procs, Issue(p)
       PROVE  TypeOK'
  <2>1. /\ UNCHANGED <<program, pc, phase, end, early, handle, accepts, deleted, sends>>
        /\ todo[p] # <<>> /\ todo' = [todo EXCEPT ![p] = Tail(@)]
        /\ started' = [started EXCEPT ![p] = @ \union {Head(todo[p])}]
    BY <1>13 DEF Issue, endVars
  <2>2. Tail(todo[p]) \in Seq(Loops) /\ Head(todo[p]) \in Loops
    BY <1>5, <2>1, DueLoops DEF Loops
  <2>3. RunType' /\ PipesType'
    BY <1>3, <2>1, <2>2
  <2>4. OpType'
    BY <1>3, <1>13, <2>1, IssueTypes
  <2> QED
    BY <1>4, <2>3, <2>4
<1>14. ASSUME NEW p \in Procs, SecondCallback(p)
       PROVE  TypeOK'
  <2>1. /\ UNCHANGED <<program, pc, phase, end, early, handle, wire, reading, accepts, port, todo, started, sends>>
        /\ deleted' = [deleted EXCEPT ![p] = FALSE]
    BY <1>14 DEF SecondCallback, endVars, opVars
  <2> QED
    BY <1>3, <1>4, <2>1
<1>15. ASSUME NEW p \in Procs, CloseOnExit(p)
       PROVE  TypeOK'
  <2>1. UNCHANGED <<program, pc, phase, early, handle, todo, deleted, started, sends>>
    BY <1>15 DEF CloseOnExit, runVars
  <2>2. PICK i \in Pipes, s \in Sides :
          LET q == end[i][Other(s)] IN
          /\ end' = [end EXCEPT ![i][s] = None]
          /\ port' = IF q \in Procs \ {p}
                       THEN [port EXCEPT ![q] = @ \o Failing(q, i, Other(s))]
                       ELSE port
          /\ reading' = {r \in reading : handle[r] \notin {<<i, s>>, <<i, Other(s)>>}}
          /\ wire' = [wire EXCEPT ![i][s] = 0,
                                  ![i][Other(s)] = IF @ > Quota THEN Quota ELSE @]
          /\ accepts' = accepts \ {i}
    BY <1>15 DEF CloseOnExit
  <2>3. \A q \in Procs : Failing(q, i, Other(s)) \in Seq(Operations)
    BY <1>5, FailingCases
  <2>4. port' \in [Procs -> Seq(Operations)]
    <3>1. \A q \in Procs : port[q] \o Failing(q, i, Other(s)) \in Seq(Operations)
      BY <1>3, <2>3
    <3> QED
      BY <1>3, <2>2, <3>1
  <2>5. wire' \in [Pipes -> [Sides -> Nat]]
    <3>1. Quota \in Nat
      BY ProgramsAssumption
    <3> QED
      BY <1>3, <2>2, <3>1, Ends
  <2>6. end' \in [Pipes -> [Sides -> Procs \union {None}]]
    BY <1>3, <2>2
  <2>7. reading' \subseteq Procs /\ accepts' \subseteq Pipes
    BY <1>3, <2>2
  <2> QED
    BY <1>3, <1>4, <2>1, <2>4, <2>5, <2>6, <2>7
<1>16. ASSUME NEW p \in Procs, Ended(p)
       PROVE  TypeOK'
  <2>1. /\ UNCHANGED <<program, phase, end, early, wire, reading, accepts, sends>>
        /\ pc' = [pc EXCEPT ![p] = "gone"]
        /\ handle' = [handle EXCEPT ![p] = None]
        /\ port' = [port EXCEPT ![p] = <<>>] /\ todo' = [todo EXCEPT ![p] = <<>>]
        /\ deleted' = [deleted EXCEPT ![p] = FALSE] /\ started' = [started EXCEPT ![p] = {}]
    BY <1>16 DEF Ended, endVars, opVars
  <2> QED
    BY <1>3, <1>4, <1>5, <2>1
<1> HIDE DEF PipesType, RunType, OpType
<1> QED
  BY <1>7, <1>8, <1>9, <1>10, <1>11, <1>12, <1>13, <1>14, <1>15, <1>16 DEF Next, Main, Thread

(***************************************************************************)
(* The operations that are outstanding.                                    *)
(***************************************************************************)

\* An outstanding read is that of the process that has its end open.
LEMMA ReadingAt ==
  ASSUME IInv, NEW q \in reading
  PROVE  \E i \in Pipes, s \in Sides :
           /\ q \in Procs /\ handle[q] = <<i, s>> /\ end[i][s] = q /\ phase[i] = "connected"
           /\ pc[q] \in {"up", "exiting"} /\ "read" \in started[q]
<1>1. TypeOK /\ OperationsInv
  BY DEF IInv
<1>2. q \in Procs /\ handle[q] \in Pipes \X Sides
  BY <1>1, Types DEF OperationsInv
<1>3. PICK i \in Pipes, s \in Sides : handle[q] = <<i, s>>
  BY <1>2
<1> QED
  BY <1>1, <1>2, <1>3 DEF OperationsInv

\* What was outstanding stays so or is done.
LEMMA OperationsKept ==
  ASSUME IInv, reading' \subseteq reading, accepts' \subseteq accepts,
         \A q \in reading' : /\ pc'[q] \in {pc[q], "exiting"} /\ handle'[q] = handle[q]
                             /\ started[q] \subseteq started'[q],
         \A i \in Pipes, s \in Sides : \A q \in reading' :
           handle[q] = <<i, s>> => end'[i][s] = end[i][s] /\ phase'[i] = phase[i],
         \A i \in accepts' : /\ pc'[i] \in {pc[i], "exiting"} /\ phase'[i] = phase[i]
                             /\ end'[i]["server"] = end[i]["server"]
  PROVE  OperationsInv'
<1>1. ASSUME NEW q \in reading'
      PROVE  /\ pc'[q] \in {"up", "exiting"} /\ handle'[q] # None
             /\ end'[handle'[q][1]][handle'[q][2]] = q
             /\ phase'[handle'[q][1]] = "connected" /\ "read" \in started'[q]
  <2>1. q \in reading
    OBVIOUS
  <2>2. PICK i \in Pipes, s \in Sides :
          /\ handle[q] = <<i, s>> /\ end[i][s] = q /\ phase[i] = "connected"
          /\ pc[q] \in {"up", "exiting"} /\ "read" \in started[q]
    BY <2>1, ReadingAt
  <2>3. end'[i][s] = q /\ phase'[i] = "connected" /\ handle'[q] = <<i, s>>
    BY <2>2
  <2>4. handle'[q] # None
    BY <2>1 DEF IInv, OperationsInv
  <2> QED
    BY <2>2, <2>3, <2>4
<1>2. \A i \in accepts' : /\ i = Server /\ pc'[i] \in {"up", "exiting"}
                          /\ phase'[i] = "listening" /\ end'[i]["server"] = i
  BY DEF IInv, OperationsInv
<1> QED
  BY <1>1, <1>2 DEF OperationsInv

\* Every step keeps the outstanding operations where they can complete.
LEMMA OperationsStep ==
  ASSUME IInv, Next
  PROVE  OperationsInv'
<1>1. TypeOK /\ PipesInv /\ HandlesInv /\ OperationsInv /\ LoopsInv
  BY DEF IInv
<1>2. /\ reading \subseteq Procs /\ accepts \subseteq Procs
      /\ \A i \in accepts : i = Server /\ pc[i] \in {"up", "exiting"} /\ phase[i] = "listening"
  BY <1>1, Types DEF OperationsInv
<1>3. ASSUME UNCHANGED <<phase, end, handle, reading, accepts>>,
             NEW p \in Procs, pc' = pc \/ pc' = [pc EXCEPT ![p] = "exiting"],
             started' = started
      PROVE  OperationsInv'
  <2>1. \A q \in Procs : pc'[q] \in {pc[q], "exiting"}
    BY <1>1, <1>3, Types
  <2> QED
    BY <1>2, <1>3, <2>1, OperationsKept
<1>4. CASE Accept
  <2>1. /\ pc[Server] = "created" /\ pc' = [pc EXCEPT ![Server] = "up"]
        /\ AsyncAccept(handle[Server][1])
        /\ UNCHANGED <<phase, end, handle, reading, started>>
    BY <1>4 DEF Accept, endVars, runVars
  <2>2. handle[Server][1] = Server /\ Server \in Procs /\ end[Server]["server"] = Server
    <3>1. handle[Server] = <<Server, "server">>
      BY <1>1, <2>1, Types DEF HandlesInv
    <3>2. handle[Server][1] = Server /\ handle[Server][2] = "server"
      BY <3>1
    <3> QED
      BY <1>1, <2>1, <3>2, Types DEF HandlesInv
  <2>3. \A q \in Procs : pc'[q] = IF q = Server THEN "up" ELSE pc[q]
    BY <1>1, <2>1, Types
  <2>4. \A q \in reading : pc'[q] = pc[q]
    BY <1>1, <1>2, <2>1, <2>3 DEF OperationsInv
  <2>5. accepts' = IF phase[Server] = "listening" THEN accepts \union {Server} ELSE accepts
    BY <2>1, <2>2 DEF AsyncAccept
  <2>6. \A i \in accepts' : /\ i = Server /\ pc'[i] \in {"up", "exiting"}
                            /\ phase[i] = "listening" /\ end[i]["server"] = i
    BY <1>1, <2>2, <2>3, <2>5 DEF OperationsInv
  <2> QED
    BY <1>1, <2>1, <2>4, <2>6 DEF OperationsInv
<1>5. CASE SendToClients
  BY <1>1, <1>3, <1>5, Types DEF SendToClients, endVars, runVars
<1>6. ASSUME NEW p \in Procs, NewPipe(p)
      PROVE  OperationsInv'
  <2>1. /\ pc[p] = "new" /\ UNCHANGED <<reading, accepts, started>>
        /\ phase' = [phase EXCEPT ![p] = "listening"]
        /\ end' = [end EXCEPT ![p]["server"] = p]
        /\ handle' = [handle EXCEPT ![p] = <<p, "server">>]
        /\ pc' = [pc EXCEPT ![p] = "created"]
    BY <1>6 DEF NewPipe, opVars, runVars
  <2>2. p \notin reading /\ p \notin accepts /\ phase[p] = "unused"
    BY <1>1, <2>1, Types DEF OperationsInv, PipesInv
  <2>3. \A q \in Procs \ {p} : pc'[q] = pc[q] /\ handle'[q] = handle[q] /\ phase'[q] = phase[q] /\ end'[q] = end[q]
    BY <1>1, <2>1, Types
  <2>4. ASSUME NEW q \in reading, NEW i \in Pipes, NEW s \in Sides, handle[q] = <<i, s>>
        PROVE  end'[i][s] = end[i][s] /\ phase'[i] = phase[i]
    <3>1. phase[i] = "connected"
      BY <2>4, ReadingAt
    <3> QED
      BY <1>1, <2>2, <2>3, <3>1, Types
  <2> QED
    BY <1>2, <2>1, <2>2, <2>3, <2>4, OperationsKept
<1>7. ASSUME NEW p \in Procs, ClientStarts(p) \/ AsyncConnect(p)
      PROVE  OperationsInv'
  <2>1. PICK k \in Pipes : Connect(p, k)
    BY <1>7 DEF ClientStarts, AsyncConnect
  <2>2. /\ p \in Clients /\ pc[p] \in {"new", "created"} /\ pc' = [pc EXCEPT ![p] = "up"]
        /\ UNCHANGED <<reading, started>>
    BY <1>7 DEF ClientStarts, AsyncConnect, runVars
  <2>3. /\ phase[k] = "listening"
        /\ phase' = [phase EXCEPT ![k] = "connected"]
        /\ end' = [end EXCEPT ![k]["client"] = p]
        /\ handle' = [handle EXCEPT ![p] = <<k, "client">>]
        /\ accepts' = accepts \ {k}
    BY <2>1 DEF Connect, Connectable
  <2>4. p \notin reading /\ p # Server
    BY <1>1, <2>2, Types DEF OperationsInv
  <2>5. \A q \in Procs \ {p} : pc'[q] = pc[q] /\ handle'[q] = handle[q]
    BY <1>1, <2>2, <2>3, Types
  <2>6. \A i \in Pipes \ {k} : phase'[i] = phase[i] /\ end'[i] = end[i]
    BY <1>1, <2>3, Types
  <2>7. ASSUME NEW q \in reading, NEW i \in Pipes, NEW s \in Sides, handle[q] = <<i, s>>
        PROVE  end'[i][s] = end[i][s] /\ phase'[i] = phase[i]
    <3>1. phase[i] = "connected"
      BY <2>7, ReadingAt
    <3> QED
      BY <2>3, <2>6, <3>1
  <2>8. \A i \in accepts' : i \in Pipes \ {k} /\ i = Server
    BY <1>1, <1>2, <2>3, Types
  <2>9. accepts' \subseteq accepts /\ Server \in Procs
    BY <1>1, <2>3, Types
  <2> QED
    BY <1>2, <2>2, <2>4, <2>5, <2>6, <2>7, <2>8, <2>9, OperationsKept
<1>8. ASSUME NEW p \in Procs, ConnectThrows(p) \/ Crash(p) \/ Kill(p) \/ GetCompletion(p) \/ SecondCallback(p)
      PROVE  OperationsInv'
  BY <1>3, <1>8 DEF ConnectThrows, Crash, Kill, GetCompletion, SecondCallback, endVars, opVars, runVars
<1>9. ASSUME NEW p \in Procs, Issue(p)
      PROVE  OperationsInv'
  <2>1. /\ pc[p] = "up" /\ todo[p] # <<>>
        /\ IF Head(todo[p]) = "read" THEN AsyncRead(p) ELSE AsyncWrite(p)
        /\ started' = [started EXCEPT ![p] = @ \union {Head(todo[p])}]
        /\ UNCHANGED <<pc, phase, end, handle, accepts>>
    BY <1>9 DEF Issue, endVars
  <2>2. \A q \in Procs : started[q] \subseteq started'[q] /\ (q = p => Head(todo[p]) \in started'[q])
    BY <1>1, <2>1, Types
  <2>3. \/ reading' \subseteq reading
        \/ Head(todo[p]) = "read" /\ reading' = reading \union {p}
    BY <2>1, ReadFacts, WriteFacts DEF ReadNow, ReadLater, WriteInto, WriteAhead
  <2>4. CASE reading' \subseteq reading
    <3>1. \A q \in reading' : q \in Procs
      BY <1>2, <2>4
    <3> QED
      BY <1>2, <2>1, <2>2, <2>4, <3>1, OperationsKept
  <2>5. CASE Head(todo[p]) = "read" /\ reading' = reading \union {p}
    <3>1. phase[handle[p][1]] = "connected" /\ handle[p] # None /\ end[handle[p][1]][handle[p][2]] = p
      BY <1>1, <2>1, DueLoops, Types DEF HandlesInv
    <3>2. \A q \in reading' :
            /\ pc[q] \in {"up", "exiting"} /\ handle[q] # None
            /\ end[handle[q][1]][handle[q][2]] = q
            /\ phase[handle[q][1]] = "connected" /\ "read" \in started'[q]
      BY <1>1, <1>2, <2>1, <2>2, <2>5, <3>1 DEF OperationsInv
    <3> QED
      BY <1>1, <2>1, <3>2 DEF OperationsInv
  <2> QED
    BY <2>3, <2>4, <2>5
<1>10. ASSUME NEW p \in Procs, CloseOnExit(p)
       PROVE  OperationsInv'
  <2>1. UNCHANGED <<pc, phase, handle, started>>
    BY <1>10 DEF CloseOnExit, runVars
  <2>2. PICK i \in Pipes, s \in Sides :
          /\ \A j \in Pipes, t \in Sides : end'[j][t] = IF j = i /\ t = s THEN None ELSE end[j][t]
          /\ reading' = {r \in reading : handle[r] \notin {<<i, s>>, <<i, Other(s)>>}}
          /\ accepts' = accepts \ {i}
    BY <1>1, <1>10, CloseFacts
  <2>3. \A j \in Pipes, t \in Sides : \A q \in reading' :
          handle[q] = <<j, t>> => end'[j][t] = end[j][t]
    BY <2>2
  <2>4. \A j \in accepts' : j \in Pipes /\ end'[j]["server"] = end[j]["server"]
    BY <1>1, <1>2, <2>2, Types DEF Sides
  <2> QED
    BY <2>1, <2>2, <2>3, <2>4, OperationsKept
<1>11. ASSUME NEW p \in Procs, Ended(p)
       PROVE  OperationsInv'
  <2>1. /\ UNCHANGED <<phase, end, reading, accepts>>
        /\ \A i \in Pipes, s \in Sides : end[i][s] # p
        /\ pc' = [pc EXCEPT ![p] = "gone"]
        /\ handle' = [handle EXCEPT ![p] = None] /\ started' = [started EXCEPT ![p] = {}]
    BY <1>11 DEF Ended, endVars, opVars
  <2>2. p \notin reading
    BY <2>1, ReadingAt
  <2>3. p \notin accepts
    BY <1>1, <2>1, Types DEF OperationsInv, Sides
  <2>4. \A q \in Procs \ {p} : pc'[q] = pc[q] /\ handle'[q] = handle[q] /\ started'[q] = started[q]
    BY <1>1, <2>1, Types
  <2> QED
    BY <1>2, <2>1, <2>2, <2>3, <2>4, OperationsKept
<1> QED
  BY <1>4, <1>5, <1>6, <1>7, <1>8, <1>9, <1>10, <1>11 DEF Next, Main, Thread

(***************************************************************************)
(* What a step does to a process that does not take it.                    *)
(***************************************************************************)

\* A process that goes on keeps its end, its pipe stays connected, and who is gone at
\* the other end stays gone.
LEMMA PeerStays ==
  ASSUME IInv, Next, NEW q \in Procs, pc[q] = "up", pc'[q] = "up"
  PROVE  /\ handle'[q] = handle[q]
         /\ phase[handle[q][1]] = "connected" => phase'[handle'[q][1]] = "connected"
         /\ PeerGone(q) => PeerGone(q)'
<1>1. TypeOK /\ PipesInv
  BY DEF IInv
<1>2. PICK i \in Pipes, s \in Sides :
        /\ handle[q] = <<i, s>> /\ handle[q][1] = i /\ handle[q][2] = s
        /\ PeerGone(q) <=> phase[i] = "connected" /\ end[i][Other(s)] = None
  BY Works DEF Near
<1>3. Other(s) \in Sides
  BY Ends
<1>4. ASSUME handle'[q] = handle[q], phase[i] = "connected" => phase'[i] = "connected",
             phase[i] = "connected" /\ end[i][Other(s)] = None => end'[i][Other(s)] = None
      PROVE  /\ handle'[q] = handle[q]
             /\ phase[handle[q][1]] = "connected" => phase'[handle'[q][1]] = "connected"
             /\ PeerGone(q) => PeerGone(q)'
  BY <1>2, <1>4 DEF PeerGone, Peer, Far, Near
<1>5. CASE UNCHANGED <<phase, end, handle>>
  BY <1>4, <1>5
<1>6. CASE Accept \/ SendToClients
  BY <1>5, <1>6 DEF Accept, SendToClients, endVars
<1>7. ASSUME NEW p \in Procs, ConnectThrows(p) \/ Thread(p) \/ Kill(p)
      PROVE  UNCHANGED <<phase, end, handle>>
  BY <1>7 DEF ConnectThrows, Thread, GetCompletion, Issue, SecondCallback, Crash, Kill, endVars
<1>8. ASSUME NEW p \in Procs, NewPipe(p)
      PROVE  /\ handle'[q] = handle[q] /\ (phase[i] = "connected" => phase'[i] = "connected")
             /\ phase[i] = "connected" /\ end[i][Other(s)] = None => end'[i][Other(s)] = None
  <2>1. /\ pc[p] = "new" /\ phase' = [phase EXCEPT ![p] = "listening"]
        /\ end' = [end EXCEPT ![p]["server"] = p]
        /\ handle' = [handle EXCEPT ![p] = <<p, "server">>]
    BY <1>8 DEF NewPipe
  <2>2. p # q /\ phase[p] = "unused"
    BY <1>1, <2>1, Types DEF PipesInv
  <2> QED
    BY <1>1, <1>3, <2>1, <2>2, Types
<1>9. ASSUME NEW p \in Procs, ClientStarts(p) \/ AsyncConnect(p)
      PROVE  /\ handle'[q] = handle[q] /\ (phase[i] = "connected" => phase'[i] = "connected")
             /\ phase[i] = "connected" /\ end[i][Other(s)] = None => end'[i][Other(s)] = None
  <2>1. PICK k \in Pipes : Connect(p, k)
    BY <1>9 DEF ClientStarts, AsyncConnect
  <2>2. pc[p] \in {"new", "created"}
    BY <1>9 DEF ClientStarts, AsyncConnect
  <2>3. /\ phase[k] = "listening"
        /\ phase' = [phase EXCEPT ![k] = "connected"]
        /\ end' = [end EXCEPT ![k]["client"] = p]
        /\ handle' = [handle EXCEPT ![p] = <<k, "client">>]
    BY <2>1 DEF Connect, Connectable
  <2> QED
    BY <1>1, <1>3, <2>2, <2>3, Types
<1>10. ASSUME NEW p \in Procs, CloseOnExit(p)
       PROVE  /\ handle'[q] = handle[q] /\ phase' = phase
              /\ end[i][Other(s)] = None => end'[i][Other(s)] = None
  <2>1. phase' = phase /\ handle' = handle
    BY <1>10 DEF CloseOnExit
  <2> QED
    BY <1>1, <1>3, <1>10, <2>1, CloseFacts
<1>11. ASSUME NEW p \in Procs, Ended(p)
       PROVE  handle'[q] = handle[q] /\ UNCHANGED <<phase, end>>
  <2>1. UNCHANGED <<phase, end>> /\ pc[p] = "exiting" /\ handle' = [handle EXCEPT ![p] = None]
    BY <1>11 DEF Ended, endVars
  <2> QED
    BY <1>1, <2>1, Types
<1>12. \/ Accept \/ SendToClients
       \/ \E p \in Procs : \/ ConnectThrows(p) \/ Thread(p) \/ Kill(p)
                           \/ NewPipe(p)
                           \/ ClientStarts(p) \/ AsyncConnect(p)
                           \/ CloseOnExit(p)
                           \/ Ended(p)
  BY DEF Next, Main
<1> QED
  BY <1>4, <1>5, <1>6, <1>7, <1>8, <1>9, <1>10, <1>11, <1>12

\* Completions arrive at q, whose callback does nothing meanwhile.
Added(q, at) ==
  /\ at \in Seq(Operations)
  /\ port'[q] = port[q] \o at
  /\ todo'[q] = todo[q] /\ started'[q] = started[q]

\* Nothing happened to a loop.
Unmoved(q, op, at) ==
  /\ \A n \in DOMAIN at : at[n].op \notin {op, "accept", "connect"}
  /\ Outstanding(q, op)' => Outstanding(q, op)
  /\ Outstanding(q, op) => Outstanding(q, op)' \/ PeerGone(q)'
  /\ q \in accepts' => q \in accepts

\* What a loop waited for completed.
Finished(q, op, at) ==
  /\ Waits(q, op) /\ ~Waits(q, op)'
  /\ \E n \in DOMAIN at :
       /\ at[n].op \in {op, "accept", "connect"}
       /\ at[n].op = op \/ op \notin started[q]
       /\ \A m \in DOMAIN at : at[m].op \in {op, "accept", "connect"} => m = n

\* Completions without a place are none.
LEMMA NoneThere ==
  ASSUME NEW at \in Seq(Operations), DOMAIN at = {}
  PROVE  at = <<>>
<1>1. Len(at) \in Nat /\ DOMAIN at = 1 .. Len(at)
  OBVIOUS
<1>2. Len(at) = 0
  BY <1>1
<1> QED
  BY <1>2

\* The places in the port after completions were added.
LEMMA AddedPlaces ==
  ASSUME TypeOK, NEW q \in Procs, NEW at \in Seq(Operations), port'[q] = port[q] \o at
  PROVE  /\ Len(port[q]) \in Nat /\ Len(at) \in Nat
         /\ DOMAIN port[q] = 1 .. Len(port[q]) /\ DOMAIN at = 1 .. Len(at)
         /\ DOMAIN port'[q] = 1 .. Len(port[q]) + Len(at)
         /\ \A n \in DOMAIN port[q] : port'[q][n] = port[q][n]
         /\ \A n \in DOMAIN at : port'[q][Len(port[q]) + n] = at[n]
         /\ \A n \in DOMAIN port'[q] \ DOMAIN port[q] :
              n - Len(port[q]) \in DOMAIN at /\ port'[q][n] = at[n - Len(port[q])]
<1>1. PICK x \in Seq(Operations) : x = port[q]
  BY Types
<1>2. PICK y \in Seq(Operations) : y = x \o at
  <2>1. x \o at \in Seq(Operations)
    OBVIOUS
  <2> QED
    BY <2>1
<1>3. /\ Len(x) \in Nat /\ Len(at) \in Nat /\ DOMAIN x = 1 .. Len(x) /\ DOMAIN at = 1 .. Len(at)
      /\ DOMAIN y = 1 .. Len(x) + Len(at)
      /\ \A n \in 1 .. Len(x) : y[n] = x[n]
      /\ \A n \in 1 .. Len(at) : y[Len(x) + n] = at[n]
  BY <1>2
<1>4. \A n \in DOMAIN y \ DOMAIN x : n - Len(x) \in DOMAIN at /\ y[n] = at[n - Len(x)]
  <2> SUFFICES ASSUME NEW n \in DOMAIN y, n \notin DOMAIN x
               PROVE  n - Len(x) \in DOMAIN at /\ y[n] = at[n - Len(x)]
    OBVIOUS
  <2>1. n - Len(x) \in 1 .. Len(at) /\ Len(x) + (n - Len(x)) = n
    BY <1>3
  <2>2. PICK k \in 1 .. Len(at) : k = n - Len(x) /\ n = Len(x) + k
    BY <2>1
  <2> QED
    BY <1>3, <2>2
<1> QED
  BY <1>1, <1>2, <1>3, <1>4

\* One operation per loop, before and after.
LEMMA OneAdded ==
  ASSUME TypeOK, NEW q \in Procs, NEW op \in Loops, NEW at \in Seq(Operations),
         port'[q] = port[q] \o at, Due(q, op) = {} <=> Due(q, op)' = {},
         op \in started'[q] => op \in started[q],
         PeerGone(q) => PeerGone(q)', One(q, op), GoesOnInv(q, op),
         Unmoved(q, op, at) \/ Finished(q, op, at)
  PROVE  One(q, op)' /\ GoesOnInv(q, op)'
<1> DEFINE R == {op, "accept", "connect"}
<1>1. port'[q] = port[q] \o at
  OBVIOUS
<1>2. /\ Due(q, op)' = {} <=> Due(q, op) = {}
      /\ op \in R
  OBVIOUS
<1>3. /\ Len(port[q]) \in Nat /\ DOMAIN port[q] = 1 .. Len(port[q])
      /\ DOMAIN port'[q] = 1 .. Len(port[q]) + Len(at)
      /\ \A n \in DOMAIN port[q] : n \in DOMAIN port'[q] /\ port'[q][n] = port[q][n]
      /\ \A n \in DOMAIN at : Len(port[q]) + n \in DOMAIN port'[q] /\ port'[q][Len(port[q]) + n] = at[n]
      /\ \A n \in DOMAIN port'[q] \ DOMAIN port[q] :
           n - Len(port[q]) \in DOMAIN at /\ port'[q][n] = at[n - Len(port[q])]
  <2>1. /\ Len(port[q]) \in Nat /\ Len(at) \in Nat
        /\ DOMAIN port[q] = 1 .. Len(port[q]) /\ DOMAIN at = 1 .. Len(at)
        /\ DOMAIN port'[q] = 1 .. Len(port[q]) + Len(at)
        /\ \A n \in DOMAIN port[q] : port'[q][n] = port[q][n]
        /\ \A n \in DOMAIN at : port'[q][Len(port[q]) + n] = at[n]
        /\ \A n \in DOMAIN port'[q] \ DOMAIN port[q] :
             n - Len(port[q]) \in DOMAIN at /\ port'[q][n] = at[n - Len(port[q])]
    BY <1>1, AddedPlaces
  <2>2. /\ \A n \in DOMAIN port[q] : n \in DOMAIN port'[q]
        /\ \A n \in DOMAIN at : Len(port[q]) + n \in DOMAIN port'[q]
    BY <2>1
  <2> QED
    BY <2>1, <2>2
<1>4. CASE Unmoved(q, op, at)
  <2>1. Steps(q, op)' = Steps(q, op)
    BY <1>3, <1>4 DEF Steps, Unmoved
  <2>2. Waits(q, op)' => Waits(q, op)
    BY <1>4 DEF Unmoved, Waits
  <2>3. One(q, op)'
    BY <1>2, <2>1, <2>2 DEF One
  <2>4. Completed(q, op) # {} => Completed(q, op)' # {}
    BY <1>3 DEF Completed
  <2>5. GoesOnInv(q, op)'
    BY <1>1, <1>2, <1>4, <2>4 DEF GoesOnInv, Unmoved
  <2> QED
    BY <2>3, <2>5
<1>5. CASE Finished(q, op, at)
  <2>1. PICK n \in DOMAIN at :
          /\ at[n].op \in R
          /\ at[n].op = op \/ op \notin started[q]
          /\ \A m \in DOMAIN at : at[m].op \in R => m = n
    BY <1>5 DEF Finished
  <2>2. Waits(q, op) /\ ~Waits(q, op)'
    BY <1>5 DEF Finished
  <2>3. Steps(q, op) = {} /\ Due(q, op) = {}
    BY <2>2 DEF One
  <2>4. \A m \in DOMAIN port'[q] : port'[q][m].op \in R => m = Len(port[q]) + n
    <3> SUFFICES ASSUME NEW m \in DOMAIN port'[q], port'[q][m].op \in R
                 PROVE  m = Len(port[q]) + n
      OBVIOUS
    <3>1. m \notin DOMAIN port[q]
      BY <1>3, <2>3 DEF Steps
    <3>2. m - Len(port[q]) = n
      BY <1>3, <2>1, <3>1
    <3>3. m \in Int /\ n \in Int
      <4>1. Len(at) \in Nat /\ DOMAIN at = 1 .. Len(at)
        OBVIOUS
      <4> QED
        BY <1>3, <4>1
    <3> QED
      BY <1>3, <3>2, <3>3
  <2>5. One(q, op)'
    BY <1>2, <2>2, <2>3, <2>4 DEF One, Steps
  <2>6. GoesOnInv(q, op)'
    BY <1>1, <1>3, <2>1 DEF GoesOnInv, Completed
  <2> QED
    BY <2>5, <2>6
<1> QED
  BY <1>4, <1>5

(***************************************************************************)
(* Who waits for something is met by its completion.                       *)
(***************************************************************************)

\* What a step of another process or of the kernel does to q: it goes on as before, and
\* the completions that arrive are those it waited for.
Met(q, at) ==
  /\ Added(q, at)
  /\ pc'[q] = pc[q]
  /\ pc[q] # "up" => at = <<>>
  /\ pc[q] = "up" =>
       /\ at # <<>> => phase'[handle'[q][1]] = "connected"
       /\ \A n \in DOMAIN at : Expected(q, at[n])'
       /\ \A op \in Loops : Unmoved(q, op, at) \/ Finished(q, op, at)

\* Nothing arrives.
LEMMA MetNothing ==
  ASSUME IInv, NEW q \in Procs, pc'[q] = pc[q],
         port'[q] = port[q], todo'[q] = todo[q], started'[q] = started[q],
         q \in reading' <=> q \in reading, q \in accepts' => q \in accepts,
         pc[q] = "up" => (Blocked(q)' <=> Blocked(q))
  PROVE  \E at \in Seq(Operations) : Met(q, at)
<1>1. PICK at \in Seq(Operations) : at = <<>>
  BY CompletionTypes
<1>2. port[q] \o at = port[q] /\ DOMAIN at = {}
  <2>1. PICK x \in Seq(Operations) : x = port[q]
    BY Types DEF IInv
  <2>2. x \o <<>> = x /\ DOMAIN <<>> = {}
    OBVIOUS
  <2> QED
    BY <1>1, <2>1, <2>2
<1>3. Added(q, at)
  BY <1>2 DEF Added
<1>4. ASSUME pc[q] = "up", NEW op \in Loops
      PROVE  Unmoved(q, op, at)
  BY <1>2, <1>4 DEF Unmoved, Outstanding
<1> QED
  BY <1>1, <1>2, <1>3, <1>4 DEF Met

\* A pending write in terms of the end it was made at.
LEMMA BlockedAt ==
  ASSUME NEW q, NEW i, NEW s, handle[q] = <<i, s>>
  PROVE  Blocked(q) <=> "write" \in started[q] /\ wire[i][Other(s)] > Quota
BY DEF Blocked, Far, Near

\* Whoever has begun a loop or waits for a completion has a pipe that is connected, and
\* does not accept any more.
LEMMA BegunConnected ==
  ASSUME IInv, NEW q \in Procs, pc[q] = "up", started[q] # {}
  PROVE  phase[handle[q][1]] = "connected" /\ q \notin accepts
<1>1. phase[handle[q][1]] = "connected"
  BY DEF IInv, LoopsInv
<1>2. TypeOK /\ HandlesInv /\ OperationsInv
  BY DEF IInv
<1>3. ASSUME q \in accepts PROVE FALSE
  <2>1. q = Server /\ phase[q] = "listening"
    BY <1>2, <1>3 DEF OperationsInv
  <2>2. handle[q] = <<q, "server">>
    BY <1>2, <2>1, Types DEF HandlesInv
  <2> QED
    BY <1>1, <2>1, <2>2
<1> QED
  BY <1>1, <1>3

\* A read or a write that was outstanding completes.
LEMMA MetFinished ==
  ASSUME IInv, NEW q \in Procs, pc[q] = "up", pc'[q] = "up", handle'[q] = handle[q],
         phase' = phase, program' = program,
         todo'[q] = todo[q], started'[q] = started[q], q \in accepts' => q \in accepts,
         NEW c \in Operations, c.op \in Loops, port'[q] = port[q] \o <<c>>,
         ~c.ok => PeerGone(q)',
         Outstanding(q, c.op), ~Outstanding(q, c.op)',
         \A op \in Loops \ {c.op} : Outstanding(q, op)' <=> Outstanding(q, op)
  PROVE  \E at \in Seq(Operations) : Met(q, at)
<1>1. PICK at \in Seq(Operations) : at = <<c>>
  <2>1. <<c>> \in Seq(Operations)
    OBVIOUS
  <2> QED
    BY <2>1
<1>2. DOMAIN at = {1} /\ at[1] = c /\ Len(at) = 1
  BY <1>1
<1>3. Added(q, at)
  BY <1>1 DEF Added
<1>4. c.op \in started[q] /\ c.op \in LoopsOf(q)
  <2>1. c.op \in started[q]
    BY DEF Outstanding, Blocked, IInv, OperationsInv
  <2> QED
    BY <2>1 DEF IInv, LoopsInv
<1>5. phase[handle[q][1]] = "connected" /\ q \notin accepts
  BY <1>4, BegunConnected
<1>6. \A n \in DOMAIN at : Expected(q, at[n])'
  BY <1>2, <1>4 DEF Expected, LoopsOf
<1>7. Finished(q, c.op, at)
  BY <1>2, <1>5 DEF Finished, Waits
<1>8. ASSUME NEW op \in Loops \ {c.op}
      PROVE  Unmoved(q, op, at)
  BY <1>2, <1>8 DEF Unmoved, Loops
<1> QED
  BY <1>3, <1>5, <1>6, <1>7, <1>8 DEF Met

\* An operation of p completes that of the process at the other end, or nobody's.
LEMMA IssueMeets ==
  ASSUME IInv, NEW p \in Procs, Issue(p), NEW q \in Procs \ {p},
         pc[q] \in {"new", "created", "up"}
  PROVE  \E at \in Seq(Operations) : Met(q, at)
<1>1. TypeOK /\ HandlesInv /\ WireInv /\ LoopsInv /\ OperationsInv
  BY DEF IInv
<1>2. /\ pc[p] = "up"
      /\ IF Head(todo[p]) = "read" THEN AsyncRead(p) ELSE AsyncWrite(p)
      /\ UNCHANGED <<program, pc, phase, end, handle, accepts>>
      /\ todo'[q] = todo[q] /\ started'[q] = started[q]
  BY <1>1, Types DEF Issue, endVars
<1>3. PICK i \in Pipes, s \in Sides :
        /\ handle[p] = <<i, s>> /\ end[i][s] = p
        /\ \/ PeerGone(p) /\ UNCHANGED <<wire, reading, port>>
           \/ \E v \in Procs : WriteInto(p, v, i, s)
           \/ WriteAhead(p, i, s)
           \/ ReadLater(p)
           \/ \E left \in Nat : ReadNow(p, i, s, left)
  BY <1>2, ReadFacts, WriteFacts
<1>4. Other(s) \in Sides /\ Other(s) # s /\ Other(Other(s)) = s
  BY Ends
<1>5. ASSUME pc[q] = "up"
      PROVE  \E j \in Pipes, t \in Sides :
               /\ handle[q] = <<j, t>> /\ end[j][t] = q /\ ~(j = i /\ t = s)
               /\ Other(t) \in Sides /\ (Other(t) = s => t = Other(s))
               /\ Blocked(q) <=> "write" \in started[q] /\ wire[j][Other(t)] > Quota
               /\ Blocked(q)' <=> "write" \in started[q] /\ wire'[j][Other(t)] > Quota
  <2>1. PICK j \in Pipes, t \in Sides : handle[q] = <<j, t>> /\ end[j][t] = q
    BY <1>5, Works
  <2>2. handle'[q][1] = j /\ handle'[q][2] = t
    BY <1>2, <2>1
  <2>3. Blocked(q)' <=> "write" \in started[q] /\ wire'[j][Other(t)] > Quota
    BY <1>2, <2>2 DEF Blocked, Far, Near
  <2> QED
    BY <1>3, <2>1, <2>3, BlockedAt, Ends
<1>6. ASSUME port'[q] = port[q], q \in reading' <=> q \in reading,
             pc[q] = "up" => (Blocked(q)' <=> Blocked(q))
      PROVE  \E at \in Seq(Operations) : Met(q, at)
  BY <1>2, <1>6, MetNothing
<1>7. CASE PeerGone(p) /\ UNCHANGED <<wire, reading, port>>
  <2>1. pc[q] = "up" => (Blocked(q)' <=> Blocked(q))
    BY <1>5, <1>7
  <2> QED
    BY <1>6, <1>7, <2>1
<1>8. CASE ReadLater(p)
  <2>1. pc[q] = "up" => (Blocked(q)' <=> Blocked(q))
    BY <1>5, <1>8 DEF ReadLater
  <2> QED
    BY <1>6, <1>8, <2>1 DEF ReadLater
<1>9. CASE WriteAhead(p, i, s)
  <2>1. pc[q] = "up" => (Blocked(q)' <=> Blocked(q))
    <3> SUFFICES ASSUME pc[q] = "up" PROVE Blocked(q)' <=> Blocked(q)
      OBVIOUS
    <3>1. PICK j \in Pipes, t \in Sides :
            /\ ~(j = i /\ t = s)
            /\ Other(t) \in Sides
            /\ Blocked(q) <=> "write" \in started[q] /\ wire[j][Other(t)] > Quota
            /\ Blocked(q)' <=> "write" \in started[q] /\ wire'[j][Other(t)] > Quota
      BY <1>5
    <3>2. j # i \/ Other(t) # Other(s)
      BY <3>1, Ends
    <3>3. wire'[j][Other(t)] = wire[j][Other(t)]
      BY <1>9, <3>1, <3>2 DEF WriteAhead
    <3> QED
      BY <3>1, <3>3
  <2> QED
    BY <1>6, <1>9, <2>1 DEF WriteAhead
<1>10. ASSUME NEW v \in Procs, WriteInto(p, v, i, s)
       PROVE  \E at \in Seq(Operations) : Met(q, at)
  <2>1. pc[q] = "up" => (Blocked(q)' <=> Blocked(q))
    BY <1>5, <1>10 DEF WriteInto
  <2>2. CASE q # v
    BY <1>6, <1>10, <2>1, <2>2 DEF WriteInto
  <2>3. CASE q = v
    <3>1. q \in reading /\ q \notin reading' /\ port'[q] = port[q] \o <<Succeeded("read")>>
      BY <1>10, <2>3 DEF WriteInto
    <3>2. pc[q] = "up"
      BY <1>1, <3>1 DEF OperationsInv
    <3>3. Outstanding(q, "read") /\ ~Outstanding(q, "read")'
      BY <3>1 DEF Outstanding
    <3>4. Outstanding(q, "write")' <=> Outstanding(q, "write")
      BY <2>1, <3>2 DEF Outstanding
    <3>5. Succeeded("read") \in Operations /\ Succeeded("read").op = "read" /\ Succeeded("read").ok
      BY CompletionTypes
    <3> QED
      BY <1>2, <3>1, <3>2, <3>3, <3>4, <3>5, MetFinished DEF Loops
  <2> QED
    BY <2>2, <2>3
<1>11. ASSUME NEW left \in Nat, ReadNow(p, i, s, left)
       PROVE  \E at \in Seq(Operations) : Met(q, at)
  <2>1. /\ reading' = reading /\ left < wire[i][s] /\ wire'[i][s] = left
        /\ \A j \in Pipes, t \in Sides : j # i \/ t # s => wire'[j][t] = wire[j][t]
    BY <1>11 DEF ReadNow
  <2>2. wire[i][s] \in Nat /\ wire[i][s] > 0 /\ Quota \in Nat
    BY <1>1, <2>1, Types
  <2>3. CASE /\ q = end[i][Other(s)] /\ "write" \in started[q]
             /\ wire[i][s] > Quota /\ left <= Quota
    <3>1. port'[q] = port[q] \o <<Succeeded("write")>>
      BY <1>11, <2>3 DEF ReadNow
    <3>2. handle[q] = <<i, Other(s)>>
      <4>1. end[i][Other(s)] # None
        BY <1>1, <2>3, Types
      <4> QED
        BY <1>1, <2>2, <2>3, <4>1, WireWritten DEF Writes
    <3>3. pc[q] = "up"
      BY <1>1, <2>3 DEF LoopsInv
    <3>4. Blocked(q) /\ ~Blocked(q)'
      <4>1. handle'[q][1] = i /\ handle'[q][2] = Other(s)
        BY <1>2, <3>2
      <4>2. Blocked(q)
        BY <1>4, <2>3, <3>2, BlockedAt
      <4>3. ~(wire'[i][s] > Quota)
        BY <2>1, <2>2, <2>3
      <4> QED
        BY <1>4, <4>1, <4>2, <4>3 DEF Blocked, Far, Near
    <3>5. Outstanding(q, "write") /\ ~Outstanding(q, "write")'
      BY <3>4 DEF Outstanding
    <3>6. Outstanding(q, "read")' <=> Outstanding(q, "read")
      BY <2>1 DEF Outstanding
    <3>7. Succeeded("write") \in Operations /\ Succeeded("write").op = "write" /\ Succeeded("write").ok
      BY CompletionTypes
    <3> QED
      BY <1>2, <3>1, <3>3, <3>5, <3>6, <3>7, MetFinished DEF Loops
  <2>4. CASE ~(/\ q = end[i][Other(s)] /\ "write" \in started[q]
               /\ wire[i][s] > Quota /\ left <= Quota)
    <3>1. port'[q] = port[q]
      BY <1>11, <2>4 DEF ReadNow
    <3>2. ASSUME pc[q] = "up" PROVE Blocked(q)' <=> Blocked(q)
      <4>1. PICK j \in Pipes, t \in Sides :
              /\ end[j][t] = q /\ Other(t) \in Sides /\ (Other(t) = s => t = Other(s))
              /\ Blocked(q) <=> "write" \in started[q] /\ wire[j][Other(t)] > Quota
              /\ Blocked(q)' <=> "write" \in started[q] /\ wire'[j][Other(t)] > Quota
        BY <1>5, <3>2
      <4>2. CASE j = i /\ Other(t) = s
        <5>1. "write" \in started[q] => (wire'[i][s] > Quota <=> wire[i][s] > Quota)
          BY <2>1, <2>2, <2>4, <4>1, <4>2
        <5> QED
          BY <4>1, <4>2, <5>1
      <4>3. CASE j # i \/ Other(t) # s
        BY <2>1, <4>1, <4>3
      <4> QED
        BY <4>2, <4>3
    <3> QED
      BY <1>6, <2>1, <3>1, <3>2
  <2> QED
    BY <2>3, <2>4
<1> QED
  BY <1>3, <1>7, <1>8, <1>9, <1>10, <1>11

\* A client that connects completes the accept of the server.
LEMMA ConnectMeets ==
  ASSUME IInv, NEW p \in Procs, ClientStarts(p) \/ AsyncConnect(p), NEW q \in Procs \ {p},
         pc[q] \in {"new", "created", "up"}
  PROVE  \E at \in Seq(Operations) : Met(q, at)
<1>1. TypeOK /\ PipesInv /\ HandlesInv /\ LoopsInv /\ OperationsInv
  BY DEF IInv
<1>2. PICK k \in Pipes : Connect(p, k) /\ \A v \in Procs \ {p} : port'[v] = Accepted(k)[v]
  <2>1. CASE ClientStarts(p)
    <3>1. PICK k \in Pipes : Connect(p, k) /\ port' = Accepted(k)
      BY <2>1 DEF ClientStarts
    <3> QED
      BY <3>1
  <2>2. CASE AsyncConnect(p)
    <3>1. PICK k \in Pipes :
            Connect(p, k) /\ port' = [Accepted(k) EXCEPT ![p] = Append(@, Succeeded("connect"))]
      BY <2>2 DEF AsyncConnect
    <3>2. DOMAIN Accepted(k) = Procs
      BY <1>1, Types DEF Accepted
    <3> QED
      BY <3>1, <3>2
  <2> QED
    BY <2>1, <2>2
<1>3. /\ UNCHANGED <<program, wire, reading, started>>
      /\ todo'[q] = todo[q] /\ pc'[q] = pc[q]
  BY <1>1, Types DEF ClientStarts, AsyncConnect, runVars
<1>4. /\ phase[k] = "listening" /\ end[k]["server"] # None
      /\ phase' = [phase EXCEPT ![k] = "connected"]
      /\ handle' = [handle EXCEPT ![p] = <<k, "client">>]
      /\ accepts' = accepts \ {k}
  BY <1>2 DEF Connect, Connectable
<1>5. handle'[q] = handle[q]
  BY <1>1, <1>4, Types
<1>6. Blocked(q)' <=> Blocked(q)
  BY <1>3, <1>5 DEF Blocked, Far, Near
<1>7. CASE ~(k \in accepts /\ q = end[k]["server"])
  <2>1. port'[q] = port[q]
    BY <1>1, <1>2, <1>7, Types DEF Accepted
  <2> QED
    BY <1>3, <1>4, <1>6, <2>1, MetNothing
<1>8. CASE k \in accepts /\ q = end[k]["server"]
  <2>1. k = Server /\ q = Server
    BY <1>1, <1>8 DEF OperationsInv
  <2>2. pc[q] = "up"
    BY <1>1, <1>8, <2>1 DEF OperationsInv
  <2>3. handle[q] = <<Server, "server">> /\ handle'[q] = <<Server, "server">>
    BY <1>1, <1>5, <2>1, <2>2, Types DEF HandlesInv
  <2>4. started[q] = {}
    BY <1>4, <2>1, <2>2, <2>3, BegunConnected
  <2>5. \A op \in Loops : ~Outstanding(q, op) /\ ~Outstanding(q, op)'
    BY <1>1, <1>3, <1>6, <2>4 DEF Outstanding, Blocked, OperationsInv
  <2>6. PICK at \in Seq(Operations) : at = <<Succeeded("accept")>>
    <3>1. <<Succeeded("accept")>> \in Seq(Operations)
      BY CompletionTypes
    <3> QED
      BY <3>1
  <2>7. DOMAIN at = {1} /\ at[1] = Succeeded("accept")
    BY <2>6
  <2>8. port'[q] = port[q] \o at
    <3>1. port'[q] = Append(port[q], Succeeded("accept"))
      BY <1>1, <1>2, <1>8, Types DEF Accepted
    <3>2. Append(port[q], Succeeded("accept")) = port[q] \o <<Succeeded("accept")>>
      <4>1. PICK x \in Seq(Operations), c \in Operations : x = port[q] /\ c = Succeeded("accept")
        BY <1>1, Types, CompletionTypes
      <4>2. Append(x, c) = x \o <<c>>
        OBVIOUS
      <4> QED
        BY <4>1, <4>2
    <3> QED
      BY <2>6, <3>1, <3>2
  <2>9. Added(q, at)
    BY <1>3, <2>8 DEF Added
  <2>10. phase'[handle'[q][1]] = "connected"
    <3>1. handle'[q][1] = Server
      BY <2>3
    <3> QED
      BY <1>1, <1>4, <2>1, <3>1, Types
  <2>11. \A n \in DOMAIN at : Expected(q, at[n])'
    BY <2>1, <2>7, CompletionTypes DEF Expected
  <2>12. ASSUME NEW op \in Loops
         PROVE  Finished(q, op, at)
    BY <1>4, <1>8, <2>1, <2>4, <2>5, <2>7, CompletionTypes DEF Finished, Waits
  <2> QED
    BY <1>3, <2>2, <2>9, <2>10, <2>11, <2>12 DEF Met
<1> QED
  BY <1>7, <1>8

\* One failure of each operation that was outstanding.
Failures(q, at) ==
  /\ \A n \in DOMAIN at : ~at[n].ok /\ at[n].op \in Loops /\ Outstanding(q, at[n].op)
  /\ \A m, n \in DOMAIN at : at[m].op = at[n].op => m = n
  /\ \A op \in Loops : Outstanding(q, op) => \E n \in DOMAIN at : at[n].op = op

\* What fails when the other end of a pipe is closed.
LEMMA FailingPlaces ==
  ASSUME NEW q \in Procs, NEW i \in Pipes, NEW s \in Sides, q # None, handle[q] = <<i, s>>
  PROVE  Failures(q, Failing(q, i, s))
<1> SUFFICES ASSUME NEW at, at = Failing(q, i, s)
             PROVE  /\ \A n \in DOMAIN at : ~at[n].ok /\ at[n].op \in Loops /\ Outstanding(q, at[n].op)
                    /\ \A m, n \in DOMAIN at : at[m].op = at[n].op => m = n
                    /\ \A op \in Loops : Outstanding(q, op) => \E n \in DOMAIN at : at[n].op = op
  BY DEF Failures
<1> DEFINE r == Failed("read")
           w == Failed("write")
<1>1. /\ r \in Operations /\ w \in Operations
      /\ r.op = "read" /\ ~r.ok /\ w.op = "write" /\ ~w.ok
  BY CompletionTypes
<1>2. at = IF q \in reading
             THEN IF Blocked(q) THEN <<r>> \o <<w>> ELSE <<r>>
             ELSE IF Blocked(q) THEN <<w>> ELSE <<>>
  BY FailingCases
<1>3. \A op \in Loops : Outstanding(q, op) <=>
        (op = "read" /\ q \in reading) \/ (op = "write" /\ Blocked(q))
  BY DEF Outstanding
<1> HIDE DEF r, w
<1>4. CASE q \in reading /\ Blocked(q)
  <2>1. DOMAIN (<<r>> \o <<w>>) = {1, 2} /\ (<<r>> \o <<w>>)[1] = r /\ (<<r>> \o <<w>>)[2] = w
    BY <1>1
  <2>2. DOMAIN at = {1, 2} /\ at[1] = r /\ at[2] = w
    BY <1>2, <1>4, <2>1
  <2> QED
    BY <1>1, <1>3, <1>4, <2>2 DEF Loops
<1>5. CASE q \in reading /\ ~Blocked(q)
  <2>1. DOMAIN at = {1} /\ at[1] = r
    BY <1>2, <1>5
  <2> QED
    BY <1>1, <1>3, <1>5, <2>1 DEF Loops
<1>6. CASE q \notin reading /\ Blocked(q)
  <2>1. DOMAIN at = {1} /\ at[1] = w
    BY <1>2, <1>6
  <2> QED
    BY <1>1, <1>3, <1>6, <2>1 DEF Loops
<1>7. CASE q \notin reading /\ ~Blocked(q)
  <2>1. DOMAIN at = {}
    BY <1>2, <1>7
  <2> QED
    BY <1>3, <1>7, <2>1
<1> QED
  BY <1>4, <1>5, <1>6, <1>7

\* Whoever works at the other end of the one that is closed is met by its failures.
LEMMA CloseMeets ==
  ASSUME IInv, NEW p \in Procs, CloseOnExit(p), NEW q \in Procs,
         pc[q] \in {"new", "created", "up"}
  PROVE  \E at \in Seq(Operations) : Met(q, at)
<1>1. TypeOK /\ PipesInv /\ HandlesInv /\ LoopsInv /\ OperationsInv
  BY DEF IInv
<1>2. pc[p] = "exiting" /\ UNCHANGED <<program, pc, phase, handle, todo, started>>
  BY DEF CloseOnExit, runVars
<1>3. PICK i \in Pipes, s \in Sides :
        /\ end[i][s] = p
        /\ \A j \in Pipes, t \in Sides :
             end'[j][t] = IF j = i /\ t = s THEN None ELSE end[j][t]
        /\ \A v \in Procs :
             port'[v] = IF v = end[i][Other(s)] /\ v # p
                          THEN port[v] \o Failing(v, i, Other(s)) ELSE port[v]
        /\ reading' = {r \in reading : handle[r] \notin {<<i, s>>, <<i, Other(s)>>}}
        /\ wire'[i][s] = 0
        /\ wire'[i][Other(s)] = IF wire[i][Other(s)] > Quota THEN Quota ELSE wire[i][Other(s)]
        /\ \A j \in Pipes, t \in Sides : j # i => wire'[j][t] = wire[j][t]
        /\ accepts' = accepts \ {i}
  BY <1>1, CloseFacts
<1>4. Other(s) \in Sides /\ Other(s) # s /\ Other(Other(s)) = s /\ q # p
  BY <1>2, Ends
<1>5. CASE handle[q] # <<i, Other(s)>> \/ q # end[i][Other(s)]
  <2>1. port'[q] = port[q]
    <3>1. CASE q # end[i][Other(s)]
      BY <1>3, <3>1
    <3>2. CASE handle[q] # <<i, Other(s)>>
      <4>1. PICK x \in Seq(Operations) : x = port[q]
        BY <1>1, Types
      <4>2. x \o <<>> = x
        OBVIOUS
      <4>3. Failing(q, i, Other(s)) = <<>>
        BY <3>2, FailingCases
      <4> QED
        BY <1>3, <4>1, <4>2, <4>3
    <3> QED
      BY <1>5, <3>1, <3>2
  <2>2. q \in reading' <=> q \in reading
    <3>1. ASSUME q \in reading PROVE handle[q] \notin {<<i, s>>, <<i, Other(s)>>}
      <4>1. PICK j \in Pipes, t \in Sides : handle[q] = <<j, t>> /\ end[j][t] = q
        BY <3>1, ReadingAt
      <4> QED
        BY <1>3, <1>4, <1>5, <4>1
    <3> QED
      BY <1>3, <3>1
  <2>3. ASSUME pc[q] = "up" PROVE Blocked(q)' <=> Blocked(q)
    <3>1. PICK j \in Pipes, t \in Sides : handle[q] = <<j, t>> /\ end[j][t] = q
      BY <2>3, Works
    <3>2. j # i /\ Other(t) \in Sides
      BY <1>3, <1>4, <1>5, <3>1 DEF Sides, Other
    <3>3. handle'[q][1] = j /\ handle'[q][2] = t
      BY <1>2, <3>1
    <3> QED
      BY <1>2, <1>3, <3>1, <3>2, <3>3, BlockedAt DEF Blocked, Far, Near
  <2> QED
    BY <1>2, <1>3, <2>1, <2>2, <2>3, MetNothing
<1>6. CASE handle[q] = <<i, Other(s)>> /\ q = end[i][Other(s)]
  <2>1. handle[q][1] = i /\ handle[q][2] = Other(s) /\ q # None
    BY <1>1, <1>6, Types
  <2>2. PICK at \in Seq(Operations) : at = Failing(q, i, Other(s))
    BY FailingCases
  <2>3. /\ \A n \in DOMAIN at : ~at[n].ok /\ at[n].op \in Loops /\ Outstanding(q, at[n].op)
        /\ \A m, n \in DOMAIN at : at[m].op = at[n].op => m = n
        /\ \A op \in Loops : Outstanding(q, op) => \E n \in DOMAIN at : at[n].op = op
    <3>1. PICK t \in Sides : t = Other(s)
      BY <1>4
    <3>2. handle[q] = <<i, t>> /\ at = Failing(q, i, t)
      BY <1>6, <2>2, <3>1
    <3>3. Failures(q, Failing(q, i, t))
      BY <2>1, <3>2, FailingPlaces
    <3> QED
      BY <3>2, <3>3 DEF Failures
  <2>4. Added(q, at)
    BY <1>2, <1>3, <1>4, <1>6, <2>2 DEF Added
  <2>5. q \notin reading' /\ ~Blocked(q)'
    <3>1. q \notin reading'
      BY <1>3, <1>6
    <3>2. ~(wire'[i][s] > Quota)
      BY <1>1, <1>3, Types
    <3> QED
      BY <1>2, <1>4, <2>1, <3>1, <3>2 DEF Blocked, Far, Near
  <2>6. CASE pc[q] # "up"
    <3>1. started[q] = {}
      BY <1>1, <2>6 DEF LoopsInv
    <3>2. \A op \in Loops : ~Outstanding(q, op)
      BY <1>1, <3>1 DEF OperationsInv, Blocked, Outstanding
    <3>3. at = <<>>
      BY <2>3, <3>2, NoneThere
    <3> QED
      BY <1>2, <2>4, <2>6, <3>3 DEF Met
  <2>7. CASE pc[q] = "up"
    <3>1. \A op \in Loops : ~Outstanding(q, op)' /\ (Outstanding(q, op) => op \in started[q])
      BY <1>1, <2>5 DEF Outstanding, Blocked, OperationsInv
    <3>2. ASSUME DOMAIN at # {}
          PROVE  phase[i] = "connected" /\ PeerGone(q)'
      <4>1. phase[i] = "connected"
        BY <2>1, <2>7, <2>3, <3>1, <3>2, BegunConnected
      <4>2. end'[i][s] = None /\ phase'[i] = "connected"
        BY <1>2, <1>3, <4>1
      <4> QED
        BY <1>2, <1>4, <2>1, <4>1, <4>2 DEF PeerGone, Peer, Far, Near
    <3>3. at # <<>> => DOMAIN at # {}
      BY NoneThere
    <3>4. \A n \in DOMAIN at : Expected(q, at[n])'
      <4> SUFFICES ASSUME NEW n \in DOMAIN at PROVE Expected(q, at[n])'
        OBVIOUS
      <4>1. at[n].op \in LoopsOf(q)
        BY <1>1, <2>3, <3>1 DEF LoopsInv
      <4>2. PeerGone(q)'
        BY <3>2
      <4> QED
        BY <1>2, <4>1, <4>2 DEF Expected, LoopsOf
    <3>5. ASSUME NEW op \in Loops
          PROVE  Unmoved(q, op, at) \/ Finished(q, op, at)
      <4>1. \A n \in DOMAIN at : at[n].op \in {op, "accept", "connect"} => at[n].op = op
        BY <2>3 DEF Loops
      <4>2. CASE Outstanding(q, op)
        <5>1. PICK n \in DOMAIN at : at[n].op = op
          BY <2>3, <4>2
        <5>2. q \notin accepts
          BY <2>7, <3>1, <4>2, BegunConnected
        <5>3. Waits(q, op) /\ ~Waits(q, op)'
          BY <1>3, <3>1, <4>2, <5>2 DEF Waits
        <5> QED
          BY <2>3, <4>1, <5>1, <5>3 DEF Finished
      <4>3. CASE ~Outstanding(q, op)
        BY <1>3, <2>3, <3>1, <4>1, <4>3 DEF Unmoved
      <4> QED
        BY <4>2, <4>3
    <3>6. handle'[q][1] = i /\ phase' = phase
      BY <1>2, <2>1
    <3> QED
      BY <1>2, <2>4, <2>7, <3>2, <3>3, <3>4, <3>5, <3>6 DEF Met
  <2> QED
    BY <2>6, <2>7
<1> QED
  BY <1>5, <1>6

\* The steps of q's own that make it go on.
Own(q) ==
  \/ q = Server /\ Accept
  \/ NewPipe(q) \/ ClientStarts(q) \/ AsyncConnect(q)
  \/ GetCompletion(q) \/ Issue(q)

\* Every step stops a process, is one of its own, or meets it with what it waited for.
LEMMA StepMeets ==
  ASSUME IInv, Next, NEW q \in Procs, pc[q] \in {"new", "created", "up"}
  PROVE  pc'[q] = "exiting" \/ Own(q) \/ \E at \in Seq(Operations) : Met(q, at)
<1>1. TypeOK /\ PipesInv /\ HandlesInv /\ LoopsInv
  BY DEF IInv
<1>2. CASE Accept
  <2> SUFFICES ASSUME q # Server PROVE \E at \in Seq(Operations) : Met(q, at)
    BY <1>2 DEF Own
  <2>1. handle[Server][1] = Server
    <3>1. handle[Server] = <<Server, "server">>
      BY <1>1, <1>2, Types DEF HandlesInv, Accept
    <3> QED
      BY <3>1
  <2>2. /\ pc'[q] = pc[q] /\ UNCHANGED <<port, todo, started, reading, wire, handle>>
        /\ accepts' \subseteq accepts \union {Server}
    BY <1>1, <1>2, <2>1, Types DEF Accept, AsyncAccept, runVars
  <2>3. Blocked(q)' <=> Blocked(q)
    BY <2>2 DEF Blocked, Far, Near
  <2> QED
    BY <2>2, <2>3, MetNothing
<1>3. CASE SendToClients
  <2>1. /\ program = "ToolServer" /\ pc[Server] = "up"
        /\ UNCHANGED <<pc, port, todo, started, reading, accepts, handle>>
        /\ wire' = IF end[handle[Server][1]]["client"] = None THEN wire
                   ELSE [wire EXCEPT ![handle[Server][1]]["client"] = @ + 1]
    BY <1>3 DEF SendToClients, runVars
  <2>2. ASSUME pc[q] = "up" PROVE Blocked(q)' <=> Blocked(q)
    <3>1. PICK j \in Pipes, t \in Sides : handle[q] = <<j, t>>
      BY <2>2, Works
    <3>2. handle'[q][1] = j /\ handle'[q][2] = t /\ handle[q][2] = t
      BY <2>1, <3>1
    <3>3. CASE q = Server
      <4>1. "write" \notin started[q]
        BY <1>1, <2>1, <3>3 DEF LoopsInv, LoopsOf
      <4> QED
        BY <2>1, <4>1 DEF Blocked
    <3>4. CASE q # Server
      <4>1. Other(t) = "server"
        BY <1>1, <2>2, <3>2, <3>4 DEF HandlesInv, Other
      <4>2. wire'[j]["server"] = wire[j]["server"]
        BY <1>1, <2>1, Types DEF Sides
      <4>3. Blocked(q) <=> "write" \in started[q] /\ wire[j][Other(t)] > Quota
        BY <3>1, BlockedAt
      <4> QED
        BY <2>1, <3>2, <4>1, <4>2, <4>3 DEF Blocked, Far, Near
    <3> QED
      BY <3>3, <3>4
  <2> QED
    BY <2>1, <2>2, MetNothing
<1>4. ASSUME NEW p \in Procs, NewPipe(p)
      PROVE  Own(q) \/ \E at \in Seq(Operations) : Met(q, at)
  <2> SUFFICES ASSUME q # p PROVE \E at \in Seq(Operations) : Met(q, at)
    BY <1>4 DEF Own
  <2>1. /\ UNCHANGED <<port, todo, started, reading, accepts, wire>>
        /\ pc'[q] = pc[q] /\ handle'[q] = handle[q]
    BY <1>1, <1>4, Types DEF NewPipe, opVars, runVars
  <2>2. Blocked(q)' <=> Blocked(q)
    BY <2>1 DEF Blocked, Far, Near
  <2> QED
    BY <2>1, <2>2, MetNothing
<1>5. ASSUME NEW p \in Procs, ClientStarts(p) \/ AsyncConnect(p)
      PROVE  Own(q) \/ \E at \in Seq(Operations) : Met(q, at)
  BY <1>5, ConnectMeets DEF Own
<1>6. ASSUME NEW p \in Procs, ConnectThrows(p) \/ Crash(p) \/ Kill(p)
      PROVE  pc'[q] = "exiting" \/ \E at \in Seq(Operations) : Met(q, at)
  <2> SUFFICES ASSUME q # p PROVE \E at \in Seq(Operations) : Met(q, at)
    BY <1>1, <1>6, Types DEF ConnectThrows, Crash, Kill
  <2>1. UNCHANGED <<port, todo, started, reading, accepts, wire, handle>> /\ pc'[q] = pc[q]
    BY <1>1, <1>6, Types DEF ConnectThrows, Crash, Kill, opVars, runVars
  <2>2. Blocked(q)' <=> Blocked(q)
    BY <2>1 DEF Blocked, Far, Near
  <2> QED
    BY <2>1, <2>2, MetNothing
<1>7. ASSUME NEW p \in Procs, GetCompletion(p) \/ SecondCallback(p)
      PROVE  Own(q) \/ \E at \in Seq(Operations) : Met(q, at)
  <2> SUFFICES ASSUME q # p \/ SecondCallback(p) PROVE \E at \in Seq(Operations) : Met(q, at)
    BY <1>7 DEF Own
  <2>1. /\ UNCHANGED <<started, reading, accepts, wire, handle, pc>>
        /\ port'[q] = port[q] /\ todo'[q] = todo[q]
    BY <1>1, <1>7, Types DEF GetCompletion, SecondCallback, opVars
  <2>2. Blocked(q)' <=> Blocked(q)
    BY <2>1 DEF Blocked, Far, Near
  <2> QED
    BY <2>1, <2>2, MetNothing
<1>8. ASSUME NEW p \in Procs, Issue(p)
      PROVE  Own(q) \/ \E at \in Seq(Operations) : Met(q, at)
  BY <1>8, IssueMeets DEF Own
<1>9. ASSUME NEW p \in Procs, CloseOnExit(p)
      PROVE  \E at \in Seq(Operations) : Met(q, at)
  BY <1>9, CloseMeets
<1>10. ASSUME NEW p \in Procs, Ended(p)
       PROVE  \E at \in Seq(Operations) : Met(q, at)
  <2>1. q # p
    BY <1>10 DEF Ended
  <2>2. /\ UNCHANGED <<reading, accepts, wire>>
        /\ pc'[q] = pc[q] /\ handle'[q] = handle[q] /\ port'[q] = port[q]
        /\ todo'[q] = todo[q] /\ started'[q] = started[q]
    BY <1>1, <1>10, <2>1, Types DEF Ended, opVars
  <2>3. Blocked(q)' <=> Blocked(q)
    BY <2>2 DEF Blocked, Far, Near
  <2> QED
    BY <2>2, <2>3, MetNothing
<1> QED
  BY <1>2, <1>3, <1>4, <1>5, <1>6, <1>7, <1>8, <1>9, <1>10 DEF Next, Main, Thread

\* A program does not change, and only a completion that failed leaves a deleted
\* operation behind.
LEMMA ProgramKept ==
  ASSUME IInv, Next
  PROVE  /\ program' = program
         /\ \A q \in Procs : deleted'[q] => deleted[q] \/ GetCompletion(q)
<1>1. TypeOK
  BY DEF IInv
<1>2. CASE Accept \/ SendToClients
  BY <1>2 DEF Accept, SendToClients, runVars
<1>3. ASSUME NEW p \in Procs, Main(p) \/ Kill(p) \/ CloseOnExit(p) \/ Crash(p) \/ Issue(p)
      PROVE  program' = program /\ deleted' = deleted
  BY <1>3 DEF Main, NewPipe, ClientStarts, AsyncConnect, ConnectThrows, Kill, CloseOnExit, Crash,
              Issue, runVars
<1>4. ASSUME NEW p \in Procs, Ended(p) \/ SecondCallback(p)
      PROVE  program' = program /\ \A q \in Procs : deleted'[q] => deleted[q]
  BY <1>1, <1>4, Types DEF Ended, SecondCallback
<1>5. ASSUME NEW p \in Procs, GetCompletion(p)
      PROVE  program' = program /\ \A q \in Procs : q = p \/ deleted'[q] = deleted[q]
  BY <1>1, <1>5, Types DEF GetCompletion
<1> QED
  BY <1>2, <1>3, <1>4, <1>5 DEF Next, Thread

(***************************************************************************)
(* The loops of one process.                                               *)
(***************************************************************************)

\* LoopsInv and OneInv of one process.
LoopsAt(p) ==
  /\ pc[p] \in {"new", "created"} =>
       port[p] = <<>> /\ todo[p] = <<>> /\ started[p] = {} /\ ~deleted[p]
  /\ todo[p] \in {<<>>, <<"read">>, <<"write">>, <<"read", "write">>}
  /\ started[p] \subseteq LoopsOf(p)
  /\ \A n \in DOMAIN todo[p] : todo[p][n] \in LoopsOf(p)
  /\ pc[p] = "up" =>
       /\ todo[p] # <<>> \/ port[p] # <<>> \/ started[p] # {} => phase[handle[p][1]] = "connected"
       /\ \A n \in DOMAIN port[p] : Expected(p, port[p][n])

OneAt(p) == pc[p] = "up" => \A op \in Loops : One(p, op) /\ GoesOnInv(p, op)

\* The invariants of all loops are those of each process.
LEMMA LoopsParts ==
  /\ LoopsInv <=> \A p \in Procs : LoopsAt(p)
  /\ OneInv <=> \A p \in Procs : OneAt(p)
BY DEF LoopsInv, LoopsAt, OneInv, OneAt

\* A process that has not come up has nothing to do and waits for nothing, but the
\* server for a client.
LEMMA NotBegun ==
  ASSUME IInv, NEW p \in Procs, pc[p] \in {"new", "created"}
  PROVE  /\ port[p] = <<>> /\ todo[p] = <<>> /\ started[p] = {} /\ ~deleted[p]
         /\ p \notin reading /\ p \notin accepts
BY DEF IInv, LoopsInv, OperationsInv

\* A process that is met by completions keeps its loops in order.
LEMMA MetKeeps ==
  ASSUME IInv, Next, NEW q \in Procs, pc[q] \in {"new", "created", "up"},
         deleted'[q] => deleted[q], NEW at \in Seq(Operations), Met(q, at)
  PROVE  LoopsAt(q)' /\ OneAt(q)'
<1>1. TypeOK /\ LoopsAt(q) /\ OneAt(q) /\ program' = program
  BY LoopsParts, ProgramKept DEF IInv
<1>2. /\ port'[q] = port[q] \o at /\ todo'[q] = todo[q] /\ started'[q] = started[q]
      /\ pc'[q] = pc[q]
  BY DEF Met, Added
<1>3. LoopsOf(q)' = LoopsOf(q)
  BY <1>1 DEF LoopsOf
<1>4. CASE pc[q] # "up"
  <2>1. port'[q] = <<>>
    <3>1. at = <<>> /\ port[q] = <<>>
      BY <1>4, NotBegun DEF Met
    <3>2. <<>> \o <<>> = <<>>
      OBVIOUS
    <3> QED
      BY <1>2, <3>1, <3>2
  <2>2. LoopsAt(q)'
    BY <1>1, <1>2, <1>3, <1>4, <2>1 DEF LoopsAt
  <2> QED
    BY <1>2, <1>4, <2>2 DEF OneAt
<1>5. CASE pc[q] = "up"
  <2>1. /\ handle'[q] = handle[q]
        /\ phase[handle[q][1]] = "connected" => phase'[handle'[q][1]] = "connected"
        /\ PeerGone(q) => PeerGone(q)'
    BY <1>2, <1>5, PeerStays
  <2>2. /\ DOMAIN port'[q] = 1 .. Len(port[q]) + Len(at)
        /\ \A n \in DOMAIN port[q] : port'[q][n] = port[q][n]
        /\ \A n \in DOMAIN port'[q] \ DOMAIN port[q] :
             n - Len(port[q]) \in DOMAIN at /\ port'[q][n] = at[n - Len(port[q])]
    BY <1>1, <1>2, AddedPlaces
  <2>3. \A n \in DOMAIN port'[q] : Expected(q, port[q][n])'
    <3> SUFFICES ASSUME NEW n \in DOMAIN port'[q] PROVE Expected(q, port[q][n])'
      OBVIOUS
    <3>1. CASE n \in DOMAIN port[q]
      <4>1. Expected(q, port[q][n])
        BY <1>1, <1>5, <3>1 DEF LoopsAt
      <4>2. port'[q][n] = port[q][n]
        BY <2>2, <3>1
      <4> QED
        BY <1>1, <1>3, <2>1, <4>1, <4>2 DEF Expected
    <3>2. CASE n \notin DOMAIN port[q]
      <4>1. PICK k \in DOMAIN at : port'[q][n] = at[k]
        BY <2>2, <3>2
      <4>2. Expected(q, at[k])'
        BY <1>5 DEF Met
      <4> QED
        BY <4>1, <4>2 DEF Expected
    <3> QED
      BY <3>1, <3>2
  <2>4. todo'[q] # <<>> \/ port'[q] # <<>> \/ started'[q] # {} => phase'[handle'[q][1]] = "connected"
    <3>1. CASE at = <<>>
      <4>1. PICK x \in Seq(Operations) : x = port[q]
        BY <1>1, Types
      <4>2. x \o <<>> = x
        OBVIOUS
      <4>3. port'[q] = port[q]
        BY <1>2, <3>1, <4>1, <4>2
      <4> QED
        BY <1>1, <1>2, <1>5, <2>1, <4>3 DEF LoopsAt
    <3>2. CASE at # <<>>
      BY <1>5, <3>2 DEF Met
    <3> QED
      BY <3>1, <3>2
  <2>5. LoopsAt(q)'
    BY <1>1, <1>2, <1>3, <1>5, <2>3, <2>4 DEF LoopsAt
  <2>6. ASSUME NEW op \in Loops PROVE One(q, op)' /\ GoesOnInv(q, op)'
    <3>1. One(q, op) /\ GoesOnInv(q, op)
      BY <1>1, <1>5 DEF OneAt
    <3>2. Due(q, op) = Due(q, op)'
      BY <1>2 DEF Due
    <3>3. Unmoved(q, op, at) \/ Finished(q, op, at)
      BY <1>5 DEF Met
    <3> QED
      BY <1>1, <1>2, <2>1, <3>1, <3>2, <3>3, OneAdded
  <2> QED
    BY <2>5, <2>6 DEF OneAt
<1> QED
  BY <1>4, <1>5

\* A process that stops or has stopped begins nothing more.
LEMMA StoppedKeeps ==
  ASSUME IInv, Next, NEW q \in Procs, pc'[q] \in {"exiting", "gone"}
  PROVE  LoopsAt(q)' /\ OneAt(q)'
<1>1. TypeOK /\ LoopsAt(q) /\ program' = program
  BY LoopsParts, ProgramKept DEF IInv
<1>2. LoopsOf(q)' = LoopsOf(q)
  BY <1>1 DEF LoopsOf
<1>3. ASSUME todo'[q] = todo[q], started'[q] = started[q]
      PROVE  LoopsAt(q)'
  BY <1>1, <1>2, <1>3 DEF LoopsAt
<1>4. ASSUME todo'[q] = <<>>, started'[q] = {}
      PROVE  LoopsAt(q)'
  <2>1. DOMAIN <<>> = {}
    OBVIOUS
  <2> QED
    BY <1>4, <2>1 DEF LoopsAt
<1>5. ASSUME Accept \/ SendToClients
      PROVE  todo' = todo /\ started' = started
  BY <1>5 DEF Accept, SendToClients, runVars
<1>6. ASSUME NEW p \in Procs, NewPipe(p) \/ ConnectThrows(p) \/ Kill(p) \/ CloseOnExit(p) \/ Crash(p)
                              \/ SecondCallback(p)
      PROVE  todo' = todo /\ started' = started
  BY <1>6 DEF NewPipe, ConnectThrows, Kill, CloseOnExit, Crash, SecondCallback, runVars
<1>7. ASSUME NEW p \in Procs, ClientStarts(p) \/ AsyncConnect(p) \/ GetCompletion(p) \/ Issue(p)
      PROVE  todo'[q] = todo[q] /\ started'[q] = started[q]
  <2>1. q # p
    BY <1>1, <1>7, Types DEF ClientStarts, AsyncConnect, GetCompletion, Idle, Issue
  <2> QED
    BY <1>1, <1>7, <2>1, Types DEF ClientStarts, AsyncConnect, GetCompletion, Issue, runVars
<1>8. ASSUME NEW p \in Procs, Ended(p)
      PROVE  \/ todo'[q] = todo[q] /\ started'[q] = started[q]
             \/ todo'[q] = <<>> /\ started'[q] = {}
  BY <1>1, <1>8, Types DEF Ended
<1>9. LoopsAt(q)'
  BY <1>3, <1>4, <1>5, <1>6, <1>7, <1>8 DEF Next, Main, Thread
<1> QED
  BY <1>9 DEF OneAt

\* An operation is issued, which completes at once, is outstanding, or fails since the
\* other end is closed.
LEMMA OneIssued ==
  ASSUME TypeOK, NEW q \in Procs, NEW op \in Loops, One(q, op), Due(q, op) # {},
         Due(q, op)' = {}, NEW at \in Seq(Operations), port'[q] = port[q] \o at,
         \/ at = <<Succeeded(op)>> /\ ~Waits(q, op)'
         \/ at = <<>> /\ (Waits(q, op)' => Outstanding(q, op)') /\ (Outstanding(q, op)' \/ PeerGone(q)')
  PROVE  One(q, op)' /\ GoesOnInv(q, op)'
<1>1. Steps(q, op) = {}
  BY DEF One
<1>2. /\ Len(port[q]) \in Nat /\ Len(at) \in Nat
      /\ DOMAIN port'[q] = 1 .. Len(port[q]) + Len(at)
      /\ \A n \in DOMAIN port[q] : port'[q][n] = port[q][n]
      /\ \A n \in DOMAIN at : port'[q][Len(port[q]) + n] = at[n]
      /\ \A n \in DOMAIN port'[q] \ DOMAIN port[q] :
           n - Len(port[q]) \in DOMAIN at /\ port'[q][n] = at[n - Len(port[q])]
  BY AddedPlaces
<1>3. \A n \in DOMAIN port'[q] : n \in Int /\ (n \in Steps(q, op)' => n - Len(port[q]) \in DOMAIN at)
  <2>1. \A n \in DOMAIN port'[q] : n \in Int
    BY <1>2
  <2>2. \A n \in DOMAIN port'[q] : n \in Steps(q, op)' => n \notin DOMAIN port[q]
    BY <1>1, <1>2 DEF Steps
  <2> QED
    BY <1>2, <2>1, <2>2
<1>4. Steps(q, op)' \subseteq DOMAIN port'[q]
  BY DEF Steps
<1>5. CASE at = <<Succeeded(op)>> /\ ~Waits(q, op)'
  <2>1. DOMAIN at = {1} /\ Len(at) = 1 /\ at[1] = Succeeded(op)
    BY <1>5
  <2>2. \A n \in Steps(q, op)' : n = Len(port[q]) + 1
    BY <1>2, <1>3, <1>4, <2>1
  <2>3. One(q, op)'
    BY <1>5, <2>2 DEF One
  <2>4. Len(port[q]) + 1 \in DOMAIN port'[q] /\ port'[q][Len(port[q]) + 1].op = op
    BY <1>2, <2>1 DEF Succeeded
  <2>5. Completed(q, op)' # {}
    BY <2>4 DEF Completed
  <2> QED
    BY <2>3, <2>5 DEF GoesOnInv
<1>6. CASE at = <<>> /\ (Waits(q, op)' => Outstanding(q, op)') /\ (Outstanding(q, op)' \/ PeerGone(q)')
  <2>1. DOMAIN at = {}
    BY <1>6
  <2>2. Steps(q, op)' = {}
    BY <1>3, <1>4, <2>1
  <2>3. One(q, op)'
    BY <2>2 DEF One
  <2> QED
    BY <1>6, <2>3 DEF GoesOnInv
<1> QED
  BY <1>5, <1>6

\* What is still to issue, in a callback of one operation or of two.
LEMMA DueTail ==
  ASSUME TypeOK, NEW p \in Procs, todo[p] # <<>>,
         todo[p] \in {<<>>, <<"read">>, <<"write">>, <<"read", "write">>},
         todo'[p] = Tail(todo[p]), NEW head, head = Head(todo[p])
  PROVE  /\ head \in Loops /\ Due(p, head) # {} /\ Due(p, head)' = {}
         /\ \A op \in Loops \ {head} : Due(p, op) = {} <=> Due(p, op)' = {}
         /\ todo'[p] \in {<<>>, <<"write">>}
         /\ \A n \in DOMAIN todo'[p] : todo'[p][n] = "write" /\ \E m \in DOMAIN todo[p] : todo[p][m] = "write"
<1>1. DOMAIN <<>> = {}
  OBVIOUS
<1>2. CASE todo[p] \in {<<"read">>, <<"write">>}
  <2>1. PICK o \in Loops : todo[p] = <<o>>
    BY <1>2 DEF Loops
  <2>2. head = o /\ DOMAIN todo[p] = {1} /\ todo[p][1] = o
    BY <2>1
  <2>3. todo'[p] = <<>>
    <3>1. Tail(<<o>>) = <<>>
      OBVIOUS
    <3> QED
      BY <2>1, <3>1
  <2>4. \A op \in Loops : Due(p, op)' = {}
    BY <1>1, <2>3 DEF Due
  <2>5. \A op \in Loops : Due(p, op) # {} <=> op = o
    BY <2>2 DEF Due
  <2>6. \A n \in DOMAIN todo'[p] : todo'[p][n] = "write" /\ \E m \in DOMAIN todo[p] : todo[p][m] = "write"
    BY <1>1, <2>3
  <2>7. Due(p, o) # {} /\ Due(p, o)' = {} /\ \A op \in Loops \ {o} : Due(p, op) = {} <=> Due(p, op)' = {}
    BY <2>4, <2>5
  <2> QED
    BY <2>2, <2>3, <2>6, <2>7
<1>3. CASE todo[p] = <<"read", "write">>
  <2>1. head = "read" /\ DOMAIN todo[p] = {1, 2} /\ todo[p][1] = "read" /\ todo[p][2] = "write"
    BY <1>3
  <2>2. todo'[p] = <<"write">>
    <3>1. Tail(<<"read", "write">>) = <<"write">>
      OBVIOUS
    <3> QED
      BY <1>3, <3>1
  <2>3. DOMAIN todo'[p] = {1} /\ todo'[p][1] = "write"
    <3>1. PICK w \in Loops : w = "write"
      BY DEF Loops
    <3>2. DOMAIN <<w>> = {1} /\ <<w>>[1] = w
      OBVIOUS
    <3> QED
      BY <2>2, <3>1, <3>2
  <2>4. Due(p, "read") # {} /\ Due(p, "write") # {}
    BY <2>1 DEF Due
  <2>5. Due(p, "read")' = {} /\ Due(p, "write")' # {}
    BY <2>3 DEF Due
  <2>6. \A op \in Loops \ {"read"} : Due(p, op) = {} <=> Due(p, op)' = {}
    BY <2>4, <2>5 DEF Loops
  <2>7. \A n \in DOMAIN todo'[p] : todo'[p][n] = "write" /\ \E m \in DOMAIN todo[p] : todo[p][m] = "write"
    BY <2>1, <2>3
  <2> QED
    BY <2>1, <2>2, <2>4, <2>5, <2>6, <2>7 DEF Loops
<1> QED
  BY <1>2, <1>3

\* A loop that is about to write has no write pending: there is room at the other end.
LEMMA RoomToWrite ==
  ASSUME IInv, NEW p \in Procs, pc[p] = "up", Due(p, "write") # {}, "write" \in LoopsOf(p),
         NEW i \in Pipes, NEW s \in Sides, handle[p] = <<i, s>>, end[i][s] = p
  PROVE  wire[i][Other(s)] \in Nat /\ wire[i][Other(s)] <= Quota
<1>1. TypeOK /\ WireInv /\ OneInv
  BY DEF IInv
<1>2. PICK t \in Sides : t = Other(s) /\ Other(t) = s
  BY Ends
<1>3. wire[i][t] \in Nat /\ Quota \in Nat
  BY <1>1, Types
<1>4. ~Blocked(p)
  BY <1>1 DEF OneInv, One, Waits, Outstanding, Loops
<1>5. wire[i][t] > Quota => "write" \notin started[p]
  BY <1>2, <1>4, BlockedAt
<1>6. ASSUME wire[i][t] > 0 PROVE "write" \in started[p]
  <2>1. p # None
    BY <1>1, Types
  <2>2. Writes(i, t)
    BY <1>1, <1>2, <1>6, <2>1, WireWritten
  <2> QED
    BY <1>2, <2>2 DEF Writes, LoopsOf
<1> QED
  BY <1>2, <1>3, <1>5, <1>6

\* What an operation that is issued does to the process that issues it.
LEMMA IssueDone ==
  ASSUME IInv, NEW p \in Procs, Issue(p), NEW o, o = Head(todo[p])
  PROVE  \E at \in Seq(Operations) :
           /\ port'[p] = port[p] \o at
           /\ \/ at = <<Succeeded(o)>> /\ ~Outstanding(p, o)'
              \/ at = <<>> /\ (Outstanding(p, o)' \/ PeerGone(p)')
           /\ \A op \in Loops \ {o} : Outstanding(p, op)' <=> Outstanding(p, op)
<1>1. TypeOK /\ LoopsInv /\ OneInv
  BY DEF IInv
<1>2. /\ pc[p] = "up" /\ todo[p] # <<>>
      /\ IF o = "read" THEN AsyncRead(p) ELSE AsyncWrite(p)
      /\ UNCHANGED <<program, pc, phase, end, handle, accepts>>
      /\ started'[p] = started[p] \union {o}
      /\ todo'[p] = Tail(todo[p])
  BY <1>1, Types DEF Issue, endVars
<1>3. o \in Loops /\ o \in LoopsOf(p) /\ Due(p, o) # {}
  BY <1>1, <1>2, DueLoops, DueTail DEF LoopsInv
<1>4. ~Outstanding(p, o)
  BY <1>1, <1>2, <1>3 DEF OneInv, One, Waits
<1>5. PICK i \in Pipes, s \in Sides :
        /\ handle[p] = <<i, s>> /\ handle[p][1] = i /\ handle[p][2] = s /\ end[i][s] = p
  BY <1>2, Works DEF Near
<1>6. Other(s) \in Sides /\ Other(s) # s
  BY Ends
<1>7. /\ Blocked(p) <=> "write" \in started[p] /\ wire[i][Other(s)] > Quota
      /\ Blocked(p)' <=> "write" \in started'[p] /\ wire'[i][Other(s)] > Quota
  <2>1. handle'[p][1] = i /\ handle'[p][2] = s
    BY <1>2, <1>5
  <2> QED
    BY <1>5, <2>1, BlockedAt DEF Blocked, Far, Near
<1>8. PeerGone(p)' <=> PeerGone(p)
  BY <1>2 DEF PeerGone, Peer, Far, Near
<1>9. /\ <<>> \in Seq(Operations) /\ port[p] \o <<>> = port[p]
      /\ <<Succeeded(o)>> \in Seq(Operations)
  <2>1. PICK x \in Seq(Operations), c \in Operations : x = port[p] /\ c = Succeeded(o)
    BY <1>1, <1>3, Types, CompletionTypes DEF Loops
  <2>2. <<>> \in Seq(Operations) /\ x \o <<>> = x /\ <<c>> \in Seq(Operations)
    OBVIOUS
  <2> QED
    BY <2>1, <2>2
<1>10. CASE o = "read"
  <2>1. PICK k \in Pipes, r \in Sides :
          /\ handle[p] = <<k, r>>
          /\ ReadLater(p) \/ \E left \in Nat : ReadNow(p, k, r, left)
    BY <1>2, <1>10, ReadFacts
  <2>2. k = i /\ r = s
    BY <1>5, <2>1
  <2>3. "write" \in started'[p] <=> "write" \in started[p]
    BY <1>2, <1>10
  <2>4. p \notin reading
    BY <1>4, <1>10 DEF Outstanding
  <2>5. CASE ReadLater(p)
    <3>1. port'[p] = port[p] \o <<>> /\ wire' = wire
      BY <1>9, <2>5 DEF ReadLater
    <3>2. Outstanding(p, "read")' \/ PeerGone(p)'
      BY <1>8, <2>5 DEF ReadLater, Outstanding
    <3>3. Outstanding(p, "write")' <=> Outstanding(p, "write")
      BY <1>7, <2>3, <3>1 DEF Outstanding
    <3> QED
      BY <1>9, <1>10, <3>1, <3>2, <3>3 DEF Loops
  <2>6. CASE \E left \in Nat : ReadNow(p, k, r, left)
    <3>1. /\ port'[p] = port[p] \o <<Succeeded("read")>> /\ reading' = reading
          /\ wire'[i][Other(s)] = wire[i][Other(s)]
      BY <1>6, <2>2, <2>6 DEF ReadNow
    <3>2. ~Outstanding(p, "read")'
      BY <2>4, <3>1 DEF Outstanding
    <3>3. Outstanding(p, "write")' <=> Outstanding(p, "write")
      BY <1>7, <2>3, <3>1 DEF Outstanding
    <3> QED
      BY <1>9, <1>10, <3>1, <3>2, <3>3 DEF Loops
  <2> QED
    BY <2>1, <2>5, <2>6
<1>11. CASE o = "write"
  <2>1. PICK k \in Pipes, r \in Sides :
          /\ handle[p] = <<k, r>>
          /\ \/ PeerGone(p) /\ UNCHANGED <<wire, reading, port>>
             \/ \E v \in Procs : WriteInto(p, v, k, r)
             \/ WriteAhead(p, k, r)
    BY <1>2, <1>11, WriteFacts
  <2>2. k = i /\ r = s
    BY <1>5, <2>1
  <2>3. wire[i][Other(s)] \in Nat /\ wire[i][Other(s)] <= Quota /\ Quota \in Nat
    BY <1>1, <1>2, <1>3, <1>5, <1>11, RoomToWrite, Types
  <2>4. "write" \in started'[p]
    BY <1>2, <1>11
  <2>5. CASE PeerGone(p) /\ UNCHANGED <<wire, reading, port>>
    <3>1. port'[p] = port[p] \o <<>>
      BY <1>9, <2>5
    <3>2. Outstanding(p, "read")' <=> Outstanding(p, "read")
      BY <2>5 DEF Outstanding
    <3> QED
      BY <1>8, <1>9, <1>11, <2>5, <3>1, <3>2 DEF Loops
  <2>6. CASE \E v \in Procs : WriteInto(p, v, k, r)
    <3>1. /\ port'[p] = port[p] \o <<Succeeded("write")>> /\ wire' = wire
          /\ p \in reading' <=> p \in reading
      BY <2>6 DEF WriteInto
    <3>2. ~Outstanding(p, "write")'
      BY <1>7, <2>3, <3>1 DEF Outstanding
    <3>3. Outstanding(p, "read")' <=> Outstanding(p, "read")
      BY <3>1 DEF Outstanding
    <3> QED
      BY <1>9, <1>11, <3>1, <3>2, <3>3 DEF Loops
  <2>7. CASE WriteAhead(p, k, r)
    <3>1. /\ reading' = reading /\ wire'[i][Other(s)] = wire[i][Other(s)] + 1
          /\ port'[p] = IF wire[i][Other(s)] < Quota
                          THEN port[p] \o <<Succeeded("write")>> ELSE port[p]
      BY <2>2, <2>7 DEF WriteAhead
    <3>2. Outstanding(p, "read")' <=> Outstanding(p, "read")
      BY <3>1 DEF Outstanding
    <3>3. CASE wire[i][Other(s)] < Quota
      <4>1. ~(wire'[i][Other(s)] > Quota)
        BY <2>3, <3>1, <3>3
      <4>2. ~Outstanding(p, "write")'
        BY <1>7, <4>1 DEF Outstanding
      <4> QED
        BY <1>9, <1>11, <3>1, <3>2, <3>3, <4>2 DEF Loops
    <3>4. CASE ~(wire[i][Other(s)] < Quota)
      <4>1. wire'[i][Other(s)] > Quota
        BY <2>3, <3>1, <3>4
      <4>2. Outstanding(p, "write")'
        BY <1>7, <2>4, <4>1 DEF Outstanding
      <4> QED
        BY <1>9, <1>11, <3>1, <3>2, <3>4, <4>2 DEF Loops
    <3> QED
      BY <3>3, <3>4
  <2> QED
    BY <2>1, <2>5, <2>6, <2>7
<1> QED
  BY <1>3, <1>10, <1>11 DEF Loops

\* A process that issues an operation keeps its loops in order.
LEMMA IssueKeeps ==
  ASSUME IInv, Next, NEW p \in Procs, Issue(p)
  PROVE  LoopsAt(p)' /\ OneAt(p)'
<1>1. TypeOK /\ LoopsAt(p) /\ OneAt(p) /\ program' = program
  BY LoopsParts, ProgramKept DEF IInv
<1>2. PICK o : o = Head(todo[p])
  OBVIOUS
<1>3. /\ pc[p] = "up" /\ todo[p] # <<>>
      /\ UNCHANGED <<pc, phase, end, handle, accepts>>
      /\ started'[p] = started[p] \union {o}
      /\ todo'[p] = Tail(todo[p])
  BY <1>1, <1>2, Types DEF Issue, endVars
<1>4. todo[p] \in {<<>>, <<"read">>, <<"write">>, <<"read", "write">>}
  BY <1>1 DEF LoopsAt
<1>5. /\ o \in Loops /\ Due(p, o) # {} /\ Due(p, o)' = {}
      /\ \A op \in Loops \ {o} : Due(p, op) = {} <=> Due(p, op)' = {}
      /\ todo'[p] \in {<<>>, <<"write">>}
      /\ \A n \in DOMAIN todo'[p] : todo'[p][n] = "write" /\ \E m \in DOMAIN todo[p] : todo[p][m] = "write"
  BY <1>1, <1>2, <1>3, <1>4, DueTail
<1>6. o \in LoopsOf(p) /\ phase[handle[p][1]] = "connected"
  BY <1>2, <1>3, DueLoops
<1>7. PICK at \in Seq(Operations) :
        /\ port'[p] = port[p] \o at
        /\ \/ at = <<Succeeded(o)>> /\ ~Outstanding(p, o)'
           \/ at = <<>> /\ (Outstanding(p, o)' \/ PeerGone(p)')
        /\ \A op \in Loops \ {o} : Outstanding(p, op)' <=> Outstanding(p, op)
  BY <1>2, IssueDone
<1>8. \A n \in DOMAIN at : at[n] = Succeeded(o)
  BY <1>7
<1>9. /\ LoopsOf(p)' = LoopsOf(p)
      /\ PeerGone(p)' <=> PeerGone(p)
  BY <1>1, <1>3 DEF LoopsOf, PeerGone, Peer, Far, Near
<1>10. One(p, o) /\ p \notin accepts
  <2>1. One(p, o)
    BY <1>1, <1>3, <1>5 DEF OneAt
  <2> QED
    BY <1>5, <2>1 DEF One, Waits
<1>11. /\ DOMAIN port'[p] = 1 .. Len(port[p]) + Len(at)
       /\ \A n \in DOMAIN port[p] : port'[p][n] = port[p][n]
       /\ \A n \in DOMAIN port'[p] \ DOMAIN port[p] :
            n - Len(port[p]) \in DOMAIN at /\ port'[p][n] = at[n - Len(port[p])]
  BY <1>1, <1>7, AddedPlaces
<1>12. \A n \in DOMAIN port'[p] : Expected(p, port[p][n])'
  <2> SUFFICES ASSUME NEW n \in DOMAIN port'[p] PROVE Expected(p, port[p][n])'
    OBVIOUS
  <2>1. CASE n \in DOMAIN port[p]
    <3>1. Expected(p, port[p][n]) /\ port'[p][n] = port[p][n]
      BY <1>1, <1>3, <1>11, <2>1 DEF LoopsAt
    <3> QED
      BY <1>1, <1>9, <3>1 DEF Expected
  <2>2. CASE n \notin DOMAIN port[p]
    <3>1. port'[p][n] = Succeeded(o)
      BY <1>8, <1>11, <2>2
    <3>2. port'[p][n].op = o /\ port'[p][n].ok
      BY <3>1 DEF Succeeded
    <3> QED
      BY <1>6, <1>9, <3>2 DEF Expected
  <2> QED
    BY <2>1, <2>2
<1>13. started'[p] \subseteq LoopsOf(p)
  BY <1>1, <1>3, <1>6 DEF LoopsAt
<1>14. \A n \in DOMAIN todo'[p] : todo'[p][n] \in LoopsOf(p)
  BY <1>1, <1>5 DEF LoopsAt
<1>15. LoopsAt(p)'
  BY <1>3, <1>5, <1>6, <1>9, <1>12, <1>13, <1>14 DEF LoopsAt
<1>16. One(p, o)' /\ GoesOnInv(p, o)'
  <2>1. Waits(p, o)' => Outstanding(p, o)'
    BY <1>3, <1>10 DEF Waits
  <2> QED
    BY <1>1, <1>5, <1>7, <1>10, <2>1, OneIssued
<1>17. ASSUME NEW op \in Loops \ {o}
       PROVE  One(p, op)' /\ GoesOnInv(p, op)'
  <2>1. One(p, op) /\ GoesOnInv(p, op)
    BY <1>1, <1>3 DEF OneAt
  <2>2. Unmoved(p, op, at)
    <3>1. \A n \in DOMAIN at : at[n].op \notin {op, "accept", "connect"}
      BY <1>5, <1>8 DEF Succeeded, Loops
    <3> QED
      BY <1>3, <1>7, <3>1 DEF Unmoved
  <2>3. op \in started'[p] => op \in started[p]
    BY <1>3
  <2> QED
    BY <1>1, <1>5, <1>7, <1>9, <2>1, <2>2, <2>3, OneAdded
<1> QED
  BY <1>15, <1>16, <1>17 DEF OneAt

\* The loops that the callback of a completion begins or goes on with.
LEMMA CallbackLoops ==
  ASSUME NEW p \in Procs, NEW c \in Operations, program \in Programs, Expected(p, c)
  PROVE  /\ Callback(p, c.op) \in {<<"read">>, <<"write">>, <<"read", "write">>}
         /\ \A n \in DOMAIN Callback(p, c.op) : Callback(p, c.op)[n] \in LoopsOf(p)
         /\ c.op \in Loops => Callback(p, c.op) = <<c.op>>
         /\ p = Server /\ c.op = "accept" => 1 \in DOMAIN Callback(p, c.op) /\ Callback(p, c.op)[1] = "read"
<1>1. c.op \in {"accept", "connect", "read", "write"}
  BY DEF Operations
<1>2. CASE c.op = "accept"
  <2>1. p = Server
    BY <1>2 DEF Expected, LoopsOf
  <2>2. Callback(p, c.op) = IF program = "loops" THEN <<"read", "write">> ELSE <<"read">>
    BY <1>2 DEF Callback, ServerAccepted, ToolAccepted
  <2> QED
    BY <1>2, <2>1, <2>2 DEF LoopsOf, Loops
<1>3. CASE c.op = "connect"
  <2>1. p # Server /\ program # "loops"
    BY <1>3 DEF Expected, LoopsOf
  <2>2. Callback(p, c.op) = <<"write">>
    BY <1>3 DEF Callback, WriteLoop
  <2> QED
    BY <1>3, <2>1, <2>2 DEF LoopsOf, Loops
<1>4. CASE c.op \in {"read", "write"}
  <2>1. c.op \in LoopsOf(p)
    BY <1>4 DEF Expected
  <2>2. Callback(p, c.op) = <<c.op>>
    BY <1>4 DEF Callback, WriteLoop, ReadLoop
  <2> QED
    BY <1>4, <2>1, <2>2
<1> QED
  BY <1>1, <1>2, <1>3, <1>4

\* The places in the port after the first completion was taken.
LEMMA TailPlaces ==
  ASSUME NEW x \in Seq(Operations), x # <<>>
  PROVE  /\ 1 \in DOMAIN x /\ Head(x) = x[1] /\ Head(x) \in Operations
         /\ \A n \in DOMAIN x : n \in Int
         /\ \A n \in DOMAIN Tail(x) : n \in Int /\ n + 1 # 1 /\ n + 1 \in DOMAIN x /\ Tail(x)[n] = x[n + 1]
         /\ \A m \in DOMAIN x \ {1} : m - 1 \in DOMAIN Tail(x) /\ Tail(x)[m - 1] = x[m]
<1>1. /\ Len(x) \in Nat /\ DOMAIN x = 1 .. Len(x) /\ Head(x) = x[1]
      /\ Tail(x) \in Seq(Operations) /\ Len(Tail(x)) = Len(x) - 1
      /\ \A n \in 1 .. Len(x) - 1 : Tail(x)[n] = x[n + 1]
  OBVIOUS
<1>2. DOMAIN Tail(x) = 1 .. Len(x) - 1
  BY <1>1
<1>3. Len(x) # 0
  OBVIOUS
<1>4. 1 \in DOMAIN x /\ x[1] \in Operations
  BY <1>1, <1>3
<1>5. \A n \in 1 .. Len(x) - 1 : n \in Int /\ n + 1 # 1 /\ n + 1 \in 1 .. Len(x)
  BY <1>1
<1>6. \A m \in (1 .. Len(x)) \ {1} : m - 1 \in 1 .. Len(x) - 1 /\ (m - 1) + 1 = m
  BY <1>1
<1>7. \A m \in DOMAIN x \ {1} : m - 1 \in DOMAIN Tail(x) /\ Tail(x)[m - 1] = x[m]
  BY <1>1, <1>2, <1>6
<1>8. \A n \in DOMAIN Tail(x) : n \in Int /\ n + 1 # 1 /\ n + 1 \in DOMAIN x /\ Tail(x)[n] = x[n + 1]
  BY <1>1, <1>2, <1>5
<1>9. \A n \in DOMAIN x : n \in Int
  BY <1>1
<1> QED
  BY <1>1, <1>4, <1>7, <1>8, <1>9

\* A process that takes a completion keeps its loops in order.
LEMMA CompletionKeeps ==
  ASSUME IInv, Next, NEW p \in Procs, GetCompletion(p)
  PROVE  LoopsAt(p)' /\ OneAt(p)'
<1>1. TypeOK /\ LoopsAt(p) /\ OneAt(p) /\ program' = program
  BY LoopsParts, ProgramKept DEF IInv
<1>2. PICK x \in Seq(Operations) : x = port[p] /\ x # <<>>
  BY <1>1, Types DEF GetCompletion
<1>3. /\ 1 \in DOMAIN x /\ Head(x) = x[1] /\ Head(x) \in Operations
      /\ \A n \in DOMAIN x : n \in Int
      /\ \A n \in DOMAIN Tail(x) : n \in Int /\ n + 1 # 1 /\ n + 1 \in DOMAIN x /\ Tail(x)[n] = x[n + 1]
      /\ \A m \in DOMAIN x \ {1} : m - 1 \in DOMAIN Tail(x) /\ Tail(x)[m - 1] = x[m]
  BY <1>2, TailPlaces
<1>4. PICK c \in Operations : c = x[1]
  BY <1>3
<1>5. /\ pc[p] = "up" /\ todo[p] = <<>> /\ port'[p] = Tail(x)
      /\ todo'[p] = IF c.ok THEN Callback(p, c.op) ELSE <<>>
      /\ UNCHANGED <<pc, phase, end, handle, wire, reading, accepts, started>>
  BY <1>1, <1>2, <1>3, <1>4, Types DEF GetCompletion, Idle, endVars, opVars
<1>6. /\ LoopsOf(p)' = LoopsOf(p)
      /\ PeerGone(p)' <=> PeerGone(p)
      /\ \A op \in Loops : /\ Outstanding(p, op)' <=> Outstanding(p, op)
                           /\ Waits(p, op)' <=> Waits(p, op)
  BY <1>1, <1>5 DEF LoopsOf, PeerGone, Peer, Far, Near, Outstanding, Waits, Blocked
<1>7. Expected(p, c) /\ phase[handle[p][1]] = "connected"
  BY <1>1, <1>2, <1>3, <1>4, <1>5 DEF LoopsAt
<1>8. /\ Callback(p, c.op) \in {<<"read">>, <<"write">>, <<"read", "write">>}
      /\ \A n \in DOMAIN Callback(p, c.op) : Callback(p, c.op)[n] \in LoopsOf(p)
      /\ c.op \in Loops => Callback(p, c.op) = <<c.op>>
  BY <1>1, <1>7, CallbackLoops, Types
<1>9. DOMAIN <<>> = {}
  OBVIOUS
<1>10. LoopsAt(p)'
  <2>1. /\ todo'[p] \in {<<>>, <<"read">>, <<"write">>, <<"read", "write">>}
        /\ \A n \in DOMAIN todo'[p] : todo'[p][n] \in LoopsOf(p)
    BY <1>5, <1>8, <1>9
  <2>2. \A n \in DOMAIN port'[p] : Expected(p, port[p][n])'
    <3> SUFFICES ASSUME NEW n \in DOMAIN port'[p] PROVE Expected(p, port[p][n])'
      OBVIOUS
    <3>1. n + 1 \in DOMAIN x /\ port'[p][n] = x[n + 1]
      BY <1>3, <1>5
    <3>2. Expected(p, x[n + 1])
      BY <1>1, <1>2, <1>5, <3>1 DEF LoopsAt
    <3> QED
      BY <1>1, <1>6, <3>1, <3>2 DEF Expected
  <2>3. started'[p] \subseteq LoopsOf(p)
    BY <1>1, <1>5 DEF LoopsAt
  <2> QED
    BY <1>5, <1>6, <1>7, <2>1, <2>2, <2>3 DEF LoopsAt
<1>11. ASSUME NEW op \in Loops
       PROVE  One(p, op)' /\ GoesOnInv(p, op)'
  <2> DEFINE R == {op, "accept", "connect"}
  <2>1. One(p, op) /\ GoesOnInv(p, op)
    BY <1>1, <1>5, <1>11 DEF OneAt
  <2>2. Due(p, op) = {}
    BY <1>5, <1>9 DEF Due
  <2>3. \A n \in DOMAIN x : n \in Steps(p, op) <=> x[n].op \in R
    BY <1>2 DEF Steps
  <2>4. \A n : n \in Steps(p, op)' <=> n \in DOMAIN Tail(x) /\ Tail(x)[n].op \in R
    BY <1>5 DEF Steps
  <2>5. \A n \in Steps(p, op)' : n \in Int /\ n + 1 # 1 /\ n + 1 \in Steps(p, op)
    BY <1>3, <2>3, <2>4
  <2>6. CASE c.op \in R
    <3>1. 1 \in Steps(p, op)
      BY <1>3, <1>4, <2>3, <2>6
    <3>2. ~Waits(p, op)
      BY <2>1, <3>1 DEF One
    <3>3. Steps(p, op)' = {}
      BY <2>1, <2>5, <3>1 DEF One
    <3>4. One(p, op)'
      BY <1>6, <1>11, <3>2, <3>3 DEF One
    <3>5. ASSUME op \in started[p], ~PeerGone(p)
          PROVE  Due(p, op)' # {}
      <4>1. Completed(p, op) # {}
        BY <2>1, <2>2, <3>2, <3>5 DEF GoesOnInv, Waits
      <4>2. PICK n \in DOMAIN x : x[n].op = op
        BY <1>2, <4>1 DEF Completed
      <4>3. n = 1
        BY <2>1, <2>3, <3>1, <4>2 DEF One
      <4>4. c.op = op /\ c.ok
        BY <1>4, <1>7, <3>5, <4>2, <4>3 DEF Expected
      <4>5. todo'[p] = <<op>>
        BY <1>5, <1>8, <1>11, <4>4
      <4>6. DOMAIN todo'[p] = {1} /\ todo'[p][1] = op
        BY <4>5
      <4> QED
        BY <4>6 DEF Due
    <3>6. GoesOnInv(p, op)'
      BY <1>5, <1>6, <3>5 DEF GoesOnInv
    <3> QED
      BY <3>4, <3>6
  <2>7. CASE c.op \notin R
    <3>1. c.op \in Loops /\ c.op # op
      BY <2>7 DEF Operations, Loops
    <3>2. Due(p, op)' = {}
      <4>1. todo'[p] = <<>> \/ todo'[p] = <<c.op>>
        BY <1>5, <1>8, <3>1
      <4>2. \A n \in DOMAIN todo'[p] : todo'[p][n] = c.op
        <5>1. DOMAIN <<c.op>> = {1} /\ <<c.op>>[1] = c.op
          OBVIOUS
        <5> QED
          BY <1>9, <4>1, <5>1
      <4> QED
        BY <3>1, <4>2 DEF Due
    <3>3. \A m, n \in Steps(p, op)' : m = n
      <4> SUFFICES ASSUME NEW m \in Steps(p, op)', NEW n \in Steps(p, op)'
                   PROVE  m = n
        OBVIOUS
      <4>1. m \in Int /\ n \in Int /\ m + 1 = n + 1
        BY <2>1, <2>5 DEF One
      <4> QED
        BY <4>1
    <3>4. Steps(p, op)' # {} => ~Waits(p, op)'
      BY <1>6, <1>11, <2>1, <2>5 DEF One
    <3>5. One(p, op)'
      BY <3>2, <3>3, <3>4 DEF One
    <3>6. Completed(p, op) # {} => Completed(p, op)' # {}
      <4> SUFFICES ASSUME NEW m \in DOMAIN x, x[m].op = op
                   PROVE  Completed(p, op)' # {}
        BY <1>2 DEF Completed
      <4>1. m # 1
        BY <1>4, <3>1
      <4>2. m - 1 \in DOMAIN port'[p] /\ port'[p][m - 1].op = op
        BY <1>3, <1>5, <4>1
      <4> QED
        BY <4>2 DEF Completed
    <3>7. GoesOnInv(p, op)'
      BY <1>5, <1>6, <1>11, <2>1, <2>2, <3>6 DEF GoesOnInv
    <3> QED
      BY <3>5, <3>7
  <2> QED
    BY <2>6, <2>7
<1> QED
  BY <1>10, <1>11 DEF OneAt

\* A client that comes up has one thing to do for its one loop: to read, or to handle
\* its own connection.
LEMMA ClientKeeps ==
  ASSUME IInv, Next, NEW p \in Procs, ClientStarts(p) \/ AsyncConnect(p)
  PROVE  LoopsAt(p)' /\ OneAt(p)'
<1>1. TypeOK /\ PipesInv /\ HandlesInv /\ OperationsInv /\ program' = program
  BY ProgramKept DEF IInv
<1>2. PICK k \in Pipes : Connect(p, k) /\ \/ ClientStarts(p) /\ port' = Accepted(k)
                                          \/ AsyncConnect(p) /\ port' = [Accepted(k) EXCEPT ![p] = Append(@, Succeeded("connect"))]
  BY DEF ClientStarts, AsyncConnect
<1>3. /\ p \in Clients /\ p # Server /\ pc[p] \in {"new", "created"} /\ pc'[p] = "up"
      /\ UNCHANGED <<wire, reading, started>>
  BY <1>1, Types DEF ClientStarts, AsyncConnect, runVars
<1>4. /\ phase' = [phase EXCEPT ![k] = "connected"]
      /\ handle' = [handle EXCEPT ![p] = <<k, "client">>]
      /\ accepts' = accepts \ {k}
  BY <1>2 DEF Connect
<1>5. phase'[handle'[p][1]] = "connected"
  <2>1. handle'[p] = <<k, "client">>
    BY <1>1, <1>4, Types
  <2>2. handle'[p][1] = k
    BY <2>1
  <2> QED
    BY <1>1, <1>4, <2>2, Types
<1>6. /\ port[p] = <<>> /\ todo[p] = <<>> /\ started'[p] = {}
      /\ p \notin reading' /\ p \notin accepts'
  BY <1>3, <1>4, NotBegun
<1>7. \A op \in Loops : ~Waits(p, op)' /\ (GoesOnInv(p, op)' <=> TRUE)
  BY <1>6 DEF Waits, Outstanding, Blocked, GoesOnInv
<1>8. /\ DOMAIN Accepted(k) = Procs
      /\ Accepted(k)[p] = <<>>
  <2>1. k \in accepts => end[k]["server"] # p
    BY <1>1, <1>3 DEF OperationsInv
  <2> QED
    BY <1>1, <1>6, <2>1, Types DEF Accepted
<1>9. DOMAIN <<>> = {}
  OBVIOUS
<1>10. CASE ClientStarts(p) /\ port' = Accepted(k)
  <2>1. program = "loops" /\ todo'[p] = <<"read">> /\ port'[p] = <<>>
    BY <1>1, <1>8, <1>10, Types DEF ClientStarts
  <2>2. DOMAIN todo'[p] = {1} /\ todo'[p][1] = "read"
    <3>1. PICK r \in Loops : r = "read"
      BY DEF Loops
    <3>2. DOMAIN <<r>> = {1} /\ <<r>>[1] = r
      OBVIOUS
    <3> QED
      BY <2>1, <3>1, <3>2
  <2>3. LoopsOf(p)' = {"read"}
    BY <1>1, <1>3, <2>1 DEF LoopsOf
  <2>4. LoopsAt(p)'
    BY <1>3, <1>5, <1>6, <1>9, <2>1, <2>2, <2>3 DEF LoopsAt
  <2>5. ASSUME NEW op \in Loops PROVE One(p, op)'
    BY <1>7, <1>9, <2>1 DEF One, Steps
  <2> QED
    BY <1>7, <2>4, <2>5 DEF OneAt
<1>11. CASE AsyncConnect(p) /\ port' = [Accepted(k) EXCEPT ![p] = Append(@, Succeeded("connect"))]
  <2>1. todo'[p] = <<>> /\ port'[p] = Append(<<>>, Succeeded("connect"))
    BY <1>6, <1>8, <1>11 DEF AsyncConnect, runVars
  <2>2. DOMAIN port'[p] = {1} /\ port'[p][1] = Succeeded("connect")
    <3>1. PICK c \in Operations : c = Succeeded("connect")
      BY CompletionTypes
    <3>2. DOMAIN Append(<<>>, c) = {1} /\ Append(<<>>, c)[1] = c
      OBVIOUS
    <3> QED
      BY <2>1, <3>1, <3>2
  <2>3. program # "loops"
    <3>1. end[p]["server"] = p
      <4>1. handle[p] = <<p, "server">>
        BY <1>1, <1>11 DEF HandlesInv, AsyncConnect
      <4>2. handle[p][1] = p /\ handle[p][2] = "server"
        BY <4>1
      <4> QED
        BY <1>1, <1>11, <4>2 DEF HandlesInv, AsyncConnect
    <3> QED
      BY <1>1, <1>3, <3>1, Types DEF PipesInv
  <2>4. \A n \in DOMAIN port'[p] : Expected(p, port[p][n])'
    BY <1>1, <1>3, <2>2, <2>3, CompletionTypes DEF Expected
  <2>5. LoopsAt(p)'
    BY <1>3, <1>5, <1>6, <1>9, <2>1, <2>4 DEF LoopsAt
  <2>6. ASSUME NEW op \in Loops PROVE One(p, op)'
    <3>1. \A n \in Steps(p, op)' : n = 1
      BY <2>2 DEF Steps
    <3>2. Due(p, op)' = {}
      BY <1>9, <2>1 DEF Due
    <3> QED
      BY <1>7, <3>1, <3>2 DEF One
  <2> QED
    BY <1>7, <2>5, <2>6 DEF OneAt
<1> QED
  BY <1>2, <1>10, <1>11

\* A process that makes its pipe, or accepts on it, has nothing to do yet.
LEMMA StartKeeps ==
  ASSUME IInv, Next, NEW p \in Procs, NewPipe(p) \/ (p = Server /\ Accept)
  PROVE  LoopsAt(p)' /\ OneAt(p)'
<1>1. TypeOK
  BY DEF IInv
<1>2. /\ pc[p] \in {"new", "created"} /\ pc'[p] \in {"created", "up"}
      /\ UNCHANGED <<port, todo, started, deleted>>
  BY <1>1, Types DEF NewPipe, Accept, runVars
<1>3. port'[p] = <<>> /\ todo'[p] = <<>> /\ started'[p] = {} /\ ~deleted'[p]
  BY <1>2, NotBegun
<1>4. DOMAIN <<>> = {}
  OBVIOUS
<1>5. LoopsAt(p)'
  BY <1>3, <1>4 DEF LoopsAt
<1>6. ASSUME NEW op \in Loops PROVE One(p, op)' /\ GoesOnInv(p, op)'
  <2>1. Steps(p, op)' = {} /\ Due(p, op)' = {}
    BY <1>3, <1>4 DEF Steps, Due
  <2> QED
    BY <1>3, <2>1 DEF One, GoesOnInv
<1> QED
  BY <1>5, <1>6 DEF OneAt

\* A process that stops does not come back.
LEMMA StoppedStays ==
  ASSUME TypeOK, Next, NEW q \in Procs, pc[q] \in {"exiting", "gone"}
  PROVE  pc'[q] \in {"exiting", "gone"}
<1>1. pc[q] \in {"exiting", "gone"}
  OBVIOUS
<1>2. ASSUME NEW p \in Procs, Main(p) \/ Thread(p) \/ Kill(p)
      PROVE  pc'[q] = pc[q]
  BY <1>1, <1>2, Types DEF Main, NewPipe, ClientStarts, AsyncConnect, ConnectThrows, Thread,
       GetCompletion, Idle, Issue, SecondCallback, Crash, Kill
<1>3. ASSUME NEW p \in Procs, CloseOnExit(p) \/ Ended(p)
      PROVE  pc'[q] \in {pc[q], "gone"}
  BY <1>1, <1>3, Types DEF CloseOnExit, Ended
<1>4. CASE Accept \/ SendToClients
  BY <1>1, <1>4, Types DEF Accept, SendToClients
<1> QED
  BY <1>1, <1>2, <1>3, <1>4 DEF Next

\* Every step keeps the loops in order.
LEMMA LoopsStep ==
  ASSUME IInv, Next
  PROVE  LoopsInv' /\ OneInv'
<1>1. TypeOK /\ TypeOK'
  BY TypeStep DEF IInv
<1>2. ASSUME NEW q \in Procs
      PROVE  LoopsAt(q)' /\ OneAt(q)'
  <2>1. pc[q] \in {"new", "created", "up", "exiting", "gone"}
    BY <1>1, Types
  <2>2. CASE pc[q] \in {"exiting", "gone"}
    <3>1. pc'[q] \in {"exiting", "gone"}
      BY <1>1, <2>2, StoppedStays
    <3> QED
      BY <3>1, StoppedKeeps
  <2>3. CASE pc[q] \in {"new", "created", "up"}
    <3>1. CASE pc'[q] = "exiting"
      BY <3>1, StoppedKeeps
    <3>2. CASE Own(q)
      BY <3>2, StartKeeps, ClientKeeps, CompletionKeeps, IssueKeeps DEF Own
    <3>3. ASSUME ~Own(q), NEW at \in Seq(Operations), Met(q, at)
          PROVE  LoopsAt(q)' /\ OneAt(q)'
      <4>1. deleted'[q] => deleted[q]
        BY <3>3, ProgramKept DEF Own
      <4> QED
        BY <2>3, <3>3, <4>1, MetKeeps
    <3> QED
      BY <2>3, <3>1, <3>2, <3>3, StepMeets
  <2> QED
    BY <2>1, <2>2, <2>3
<1>3. /\ LoopsInv' <=> \A p \in Procs : LoopsAt(p)'
      /\ OneInv' <=> \A p \in Procs : OneAt(p)'
  BY DEF LoopsInv, LoopsAt, OneInv, OneAt
<1> QED
  BY <1>2, <1>3

(***************************************************************************)
(* What the loops promise.                                                 *)
(***************************************************************************)

\* Every step keeps DeletedOnlyAfterPeer.
LEMMA DeletedStep ==
  ASSUME IInv, Next
  PROVE  DeletedOnlyAfterPeer'
<1>1. TypeOK /\ DeletedOnlyAfterPeer /\ LoopsInv /\ program' = program
  BY ProgramKept DEF IInv
<1> SUFFICES ASSUME NEW p \in Procs, deleted'[p], pc'[p] = "up"
             PROVE  PeerGone(p)' /\ (program' = "ToolServer" => p # Server)
  BY DEF DeletedOnlyAfterPeer
<1>2. CASE deleted[p]
  <2>1. pc[p] = "up"
    <3>1. pc[p] \in {"new", "created", "up", "exiting", "gone"}
      BY <1>1, Types
    <3>2. pc[p] \notin {"new", "created"}
      BY <1>2, NotBegun
    <3>3. pc[p] \notin {"exiting", "gone"}
      BY <1>1, StoppedStays
    <3> QED
      BY <3>1, <3>2, <3>3
  <2> QED
    BY <1>1, <1>2, <2>1, PeerStays DEF DeletedOnlyAfterPeer
<1>3. CASE GetCompletion(p)
  <2>1. PICK x \in Seq(Operations) : x = port[p] /\ x # <<>>
    BY <1>1, <1>3, Types DEF GetCompletion
  <2>2. 1 \in DOMAIN x /\ Head(x) = x[1]
    BY <2>1, TailPlaces
  <2>3. /\ ~x[1].ok /\ GoesOn(p) /\ pc[p] = "up"
        /\ UNCHANGED <<phase, end, handle>>
    BY <1>1, <1>3, <2>1, <2>2, Types DEF GetCompletion, Idle, endVars
  <2>4. PeerGone(p)
    BY <1>1, <2>1, <2>2, <2>3 DEF LoopsInv, Expected
  <2> QED
    BY <1>1, <2>3, <2>4 DEF GoesOn, PeerGone, Peer, Far, Near
<1> QED
  BY <1>2, <1>3, ProgramKept

\* A client that comes to the server's instance completes its accept, or is early.
LEMMA ClientArrives ==
  ASSUME IInv, Next
  PROVE  /\ early \subseteq early'
         /\ end[Server]["client"] = None /\ end'[Server]["client"] # None /\ Server \notin early' =>
              \E n \in DOMAIN port'[Server] : port'[Server][n].op = "accept"
<1>1. TypeOK /\ PipesInv
  BY DEF IInv
<1>2. CASE Accept \/ SendToClients
  BY <1>2 DEF Accept, SendToClients, endVars
<1>3. ASSUME NEW p \in Procs, NewPipe(p)
      PROVE  early' = early /\ end'[Server]["client"] = end[Server]["client"]
  BY <1>1, <1>3, Types DEF NewPipe, Sides
<1>4. ASSUME NEW p \in Procs, ClientStarts(p) \/ AsyncConnect(p)
      PROVE  /\ early \subseteq early'
             /\ end[Server]["client"] = None /\ end'[Server]["client"] # None /\ Server \notin early' =>
                  \E n \in DOMAIN port'[Server] : port'[Server][n].op = "accept"
  <2>1. PICK k \in Pipes : Connect(p, k) /\ \/ port' = Accepted(k)
                                            \/ port' = [Accepted(k) EXCEPT ![p] = Append(@, Succeeded("connect"))]
    BY <1>4 DEF ClientStarts, AsyncConnect
  <2>2. /\ end[k]["server"] # None /\ end' = [end EXCEPT ![k]["client"] = p]
        /\ early' = IF k \in accepts THEN early ELSE early \union {k}
    BY <2>1 DEF Connect, Connectable
  <2>3. early \subseteq early' /\ p # Server
    BY <1>1, <1>4, <2>2, Types DEF ClientStarts, AsyncConnect
  <2>4. ASSUME end[Server]["client"] = None, end'[Server]["client"] # None, Server \notin early'
        PROVE  \E n \in DOMAIN port'[Server] : port'[Server][n].op = "accept"
    <3>1. k = Server /\ k \in accepts
      BY <1>1, <2>2, <2>4, Types
    <3>2. end[k]["server"] = Server
      BY <1>1, <2>2, <3>1 DEF PipesInv
    <3>3. port'[Server] = Append(port[Server], Succeeded("accept"))
      <4>1. Accepted(k) = [port EXCEPT ![Server] = Append(@, Succeeded("accept"))]
        BY <3>1, <3>2 DEF Accepted
      <4> QED
        BY <1>1, <2>1, <2>3, <4>1, Types
    <3>4. PICK x \in Seq(Operations), c \in Operations : x = port[Server] /\ c = Succeeded("accept") /\ c.op = "accept"
      BY <1>1, Types, CompletionTypes
    <3>5. Len(x) + 1 \in DOMAIN Append(x, c) /\ Append(x, c)[Len(x) + 1] = c
      OBVIOUS
    <3> QED
      BY <3>3, <3>4, <3>5
  <2> QED
    BY <2>3, <2>4
<1>5. ASSUME NEW p \in Procs, ConnectThrows(p) \/ Thread(p) \/ Kill(p) \/ Ended(p)
      PROVE  UNCHANGED <<end, early>>
  BY <1>5 DEF ConnectThrows, Thread, GetCompletion, Issue, SecondCallback, Crash, Kill, Ended, endVars
<1>6. ASSUME NEW p \in Procs, CloseOnExit(p)
      PROVE  early' = early /\ end'[Server]["client"] \in {end[Server]["client"], None}
  <2>1. early' = early
    BY <1>6 DEF CloseOnExit
  <2> QED
    BY <1>1, <1>6, <2>1, CloseFacts, Types DEF Sides
<1> QED
  BY <1>2, <1>3, <1>4, <1>5, <1>6 DEF Next, Main

\* The server reads, is about to, or has a client to accept.
Serves ==
  \/ "read" \in started[Server] \union {todo[Server][n] : n \in DOMAIN todo[Server]}
  \/ \E n \in DOMAIN port[Server] : port[Server][n].op = "accept"

\* The server goes on serving the client it has.
LEMMA ServesStep ==
  ASSUME IInv, Next, pc[Server] = "up", pc'[Server] = "up", Serves, ~PeerGone(Server)
  PROVE  Serves'
<1>1. TypeOK /\ LoopsInv /\ Server \in Procs
  BY Types DEF IInv
<1>2. ASSUME NEW at \in Seq(Operations), port'[Server] = port[Server] \o at,
             NEW n \in DOMAIN port[Server], port[Server][n].op = "accept"
      PROVE  Serves'
  <2>1. n \in DOMAIN port'[Server] /\ port'[Server][n] = port[Server][n]
    BY <1>1, <1>2, AddedPlaces
  <2> QED
    BY <1>2, <2>1 DEF Serves
<1>3. ASSUME NEW at \in Seq(Operations), Met(Server, at)
      PROVE  Serves'
  <2>1. port'[Server] = port[Server] \o at /\ todo'[Server] = todo[Server] /\ started'[Server] = started[Server]
    BY <1>3 DEF Met, Added
  <2> QED
    BY <1>2, <2>1 DEF Serves
<1>4. CASE Issue(Server)
  <2>1. /\ todo[Server] # <<>> /\ started'[Server] = started[Server] \union {Head(todo[Server])}
    BY <1>1, <1>4, Types DEF Issue
  <2>2. ASSUME NEW n \in DOMAIN todo[Server], todo[Server][n] = "read"
        PROVE  Head(todo[Server]) = "read"
    <3>1. todo[Server] \in {<<"read">>, <<"write">>, <<"read", "write">>}
      BY <1>1, <2>1 DEF LoopsInv
    <3>2. todo[Server] # <<"write">>
      BY <2>2
    <3> QED
      BY <3>1, <3>2
  <2>3. PICK at \in Seq(Operations) : port'[Server] = port[Server] \o at
    BY <1>1, <1>4, IssueDone
  <2> QED
    BY <1>2, <2>1, <2>2, <2>3 DEF Serves
<1>5. CASE GetCompletion(Server)
  <2>1. PICK x \in Seq(Operations) : x = port[Server] /\ x # <<>>
    BY <1>1, <1>5, Types DEF GetCompletion
  <2>2. /\ 1 \in DOMAIN x /\ Head(x) = x[1] /\ x[1] \in Operations
        /\ \A m \in DOMAIN x \ {1} : m - 1 \in DOMAIN Tail(x) /\ Tail(x)[m - 1] = x[m]
    BY <2>1, TailPlaces
  <2>3. /\ todo[Server] = <<>> /\ port'[Server] = Tail(x) /\ started' = started
        /\ todo'[Server] = IF x[1].ok THEN Callback(Server, x[1].op) ELSE <<>>
    BY <1>1, <1>5, <2>1, <2>2, Types DEF GetCompletion, Idle
  <2>4. CASE "read" \in started[Server]
    BY <2>3, <2>4 DEF Serves
  <2>5. ASSUME NEW n \in DOMAIN x, x[n].op = "accept"
        PROVE  Serves'
    <3>1. CASE n # 1
      <4>1. n - 1 \in DOMAIN port'[Server] /\ port'[Server][n - 1].op = "accept"
        BY <2>2, <2>3, <2>5, <3>1
      <4> QED
        BY <4>1 DEF Serves
    <3>2. CASE n = 1
      <4>1. Expected(Server, x[1])
        BY <1>1, <2>1, <2>2 DEF LoopsInv
      <4>2. x[1].ok
        BY <4>1 DEF Expected
      <4>3. 1 \in DOMAIN todo'[Server] /\ todo'[Server][1] = "read"
        BY <1>1, <2>2, <2>3, <2>5, <3>2, <4>1, <4>2, CallbackLoops, Types
      <4> QED
        BY <4>3 DEF Serves
    <3> QED
      BY <3>1, <3>2
  <2>6. DOMAIN todo[Server] = {}
    BY <2>3
  <2> QED
    BY <2>1, <2>4, <2>5, <2>6 DEF Serves
<1>6. ~(NewPipe(Server) \/ Accept \/ ClientStarts(Server) \/ AsyncConnect(Server))
  BY DEF NewPipe, Accept, ClientStarts, AsyncConnect
<1> QED
  BY <1>1, <1>3, <1>4, <1>5, <1>6, StepMeets DEF Own

\* Every step keeps ServedUnlessEarly.
LEMMA ServedStep ==
  ASSUME IInv, Next
  PROVE  ServedUnlessEarly'
<1>1. TypeOK /\ PipesInv /\ HandlesInv /\ EarlyInv /\ ServedUnlessEarly /\ Server \in Procs
  BY Types DEF IInv
<1> SUFFICES ASSUME pc'[Server] = "up", end'[handle'[Server][1]]["client"] # None,
                    handle'[Server][1] \notin early'
             PROVE  Serves'
  BY DEF ServedUnlessEarly, Serves
<1>2. CASE pc[Server] = "up"
  <2>1. handle'[Server] = handle[Server]
    BY <1>1, <1>2, PeerStays
  <2>2. PICK i \in Pipes, s \in Sides :
          /\ handle[Server] = <<i, s>>
          /\ PeerGone(Server) <=> phase[i] = "connected" /\ end[i][Other(s)] = None
    BY <1>1, <1>2, Works
  <2>3. handle[Server] = <<Server, "server">>
    BY <1>1, <1>2, Types DEF HandlesInv
  <2>4. i = Server /\ s = "server" /\ Other(s) = "client"
    BY <2>2, <2>3 DEF Other
  <2>5. handle[Server][1] = Server /\ handle'[Server][1] = Server
    BY <2>1, <2>3
  <2>6. CASE end[Server]["client"] = None
    BY <2>5, <2>6, ClientArrives DEF Serves
  <2>7. CASE end[Server]["client"] # None
    <3>1. Server \notin early
      BY <2>5, ClientArrives
    <3>2. Serves
      BY <1>1, <1>2, <2>5, <2>7, <3>1 DEF ServedUnlessEarly, Serves
    <3>3. ~PeerGone(Server)
      BY <2>2, <2>4, <2>7
    <3> QED
      BY <1>2, <3>2, <3>3, ServesStep
  <2> QED
    BY <2>6, <2>7
<1>3. CASE pc[Server] # "up"
  <2>1. pc[Server] \in {"new", "created"}
    BY <1>1, <1>3, StoppedStays, Types
  <2>2. Own(Server)
    BY <1>1, <1>3, <2>1, StepMeets DEF Met
  <2>3. Accept
    <3>1. Server \notin Clients
      BY <1>1, Types
    <3>2. ~NewPipe(Server)
      BY <1>1, Types DEF NewPipe
    <3> QED
      BY <1>3, <2>2, <3>1, <3>2 DEF Own, ClientStarts, AsyncConnect, GetCompletion, Idle, Issue
  <2>4. handle'[Server][1] = Server /\ end' = end /\ early' = early /\ pc[Server] = "created"
    <3>1. handle[Server] = <<Server, "server">>
      BY <1>1, <2>3 DEF HandlesInv, Accept
    <3> QED
      BY <2>3, <3>1 DEF Accept, endVars
  <2>5. phase[Server] = "connected"
    BY <1>1, <2>4, Types DEF PipesInv
  <2> QED
    BY <1>1, <2>4, <2>5 DEF EarlyInv
<1> QED
  BY <1>2, <1>3

\* A step keeps the inductive invariant.
LEMMA NextInv ==
  ASSUME IInv, [Next]_vars
  PROVE  IInv'
<1>1. CASE Next
  BY <1>1, TypeStep, EndsStep, WireStep, OperationsStep, LoopsStep, DeletedStep, ServedStep DEF IInv
<1>2. CASE UNCHANGED vars
  <2>1. UNCHANGED <<program, pc, phase, end, early, handle, wire, reading, accepts, port, todo,
                    deleted, started, sends>>
    BY <1>2 DEF vars, endVars, opVars, runVars
  <2>2. TypeOK' /\ PipesInv' /\ HandlesInv' /\ OperationsInv' /\ EarlyInv'
    BY <2>1 DEF IInv, TypeOK, PipesInv, HandlesInv, OperationsInv, EarlyInv
  <2>3. WireInv' /\ DeletedOnlyAfterPeer' /\ ServedUnlessEarly'
    BY <2>1 DEF IInv, WireInv, DeletedOnlyAfterPeer, ServedUnlessEarly, PeerGone, Peer, Far, Near
  <2>4. LoopsInv'
    BY <2>1 DEF IInv, LoopsInv, LoopsOf, Expected, PeerGone, Peer, Far, Near
  <2>5. OneInv'
    BY <2>1 DEF IInv, OneInv, One, GoesOnInv, Steps, Due, Completed, Waits, Outstanding, Blocked,
                PeerGone, Peer, Far, Near
  <2> QED
    BY <2>2, <2>3, <2>4, <2>5 DEF IInv
<1> QED
  BY <1>1, <1>2

\* The inductive invariant holds, of the programs with any number of clients.
THEOREM Invariance == Spec => []IInv
<1>1. Init => IInv
  BY InitInv
<1>2. IInv /\ [Next]_vars => IInv'
  BY NextInv
<1> QED
  BY <1>1, <1>2, PTL DEF Spec

\* The types of the variables (TypeOK).
THEOREM TypeCorrect == Spec => []TypeOK
<1>1. IInv => TypeOK
  BY DEF IInv
<1> QED
  BY <1>1, Invariance, PTL

\* run() works with an operation it has deleted only after the process at the other end
\* is gone (run of the copies of iocp.h).
THEOREM DeletesLate == Spec => []DeletedOnlyAfterPeer
<1>1. IInv => DeletedOnlyAfterPeer
  BY DEF IInv
<1> QED
  BY <1>1, Invariance, PTL

\* A server that is up serves the client it has, unless that came before
\* ConnectNamedPipe (async_accept).
THEOREM ClientServed == Spec => []ServedUnlessEarly
<1>1. IInv => ServedUnlessEarly
  BY DEF IInv
<1> QED
  BY <1>1, Invariance, PTL

\* The number of elements of a set that has one at most.
LEMMA OneAtMost ==
  ASSUME NEW S, \A m, n \in S : m = n
  PROVE  Cardinality(S) = IF S = {} THEN 0 ELSE 1
<1>1. CASE S = {}
  BY <1>1, FS_EmptySet
<1>2. CASE S # {}
  <2>1. PICK n \in S : S = {n}
    BY <1>2
  <2> QED
    BY <1>2, <2>1, FS_Singleton
<1> QED
  BY <1>1, <1>2

\* A callback issues an operation of a loop once.
LEMMA DueOnce ==
  ASSUME LoopsInv, NEW p \in Procs, NEW op, NEW m \in Due(p, op), NEW n \in Due(p, op)
  PROVE  m = n
<1>1. todo[p] \in {<<>>, <<"read">>, <<"write">>, <<"read", "write">>}
  BY DEF LoopsInv
<1>2. m \in DOMAIN todo[p] /\ n \in DOMAIN todo[p] /\ todo[p][m] = todo[p][n]
  BY DEF Due
<1>3. CASE todo[p] \in {<<>>, <<"read">>, <<"write">>}
  BY <1>2, <1>3
<1>4. CASE todo[p] = <<"read", "write">>
  BY <1>2, <1>4
<1> QED
  BY <1>1, <1>3, <1>4

\* A loop has one operation at most, and one until the process at the other end is gone
\* (async_read_loop, async_write_loop, tool_listener::async_read).
THEOREM OperationsOne == Spec => []OneOperation
<1>1. IInv => OneOperation
  <2> SUFFICES ASSUME IInv, NEW p \in Procs, pc[p] = "up", NEW op \in Loops
               PROVE  /\ Live(p, op) <= 1
                      /\ op \in started[p] /\ ~PeerGone(p) => Live(p, op) = 1
    BY DEF OneOperation
  <2>1. One(p, op) /\ GoesOnInv(p, op)
    BY DEF IInv, OneInv
  <2>2. Completed(p, op) \subseteq Steps(p, op)
    BY DEF Completed, Steps
  <2>3. Cardinality(Completed(p, op)) = IF Completed(p, op) = {} THEN 0 ELSE 1
    BY <2>1, <2>2, OneAtMost DEF One
  <2>4. Cardinality(Due(p, op)) = IF Due(p, op) = {} THEN 0 ELSE 1
    BY OneAtMost, DueOnce DEF IInv
  <2>5. /\ Completed(p, op) # {} => Due(p, op) = {} /\ ~Outstanding(p, op)
        /\ Due(p, op) # {} => ~Outstanding(p, op)
    BY <2>1, <2>2 DEF One, Waits
  <2>6. Live(p, op) = Cardinality(Completed(p, op)) + Cardinality(Due(p, op))
                        + (IF Outstanding(p, op) THEN 1 ELSE 0)
    BY DEF Live
  <2>7. Live(p, op) <= 1
    BY <2>3, <2>4, <2>5, <2>6
  <2>8. op \in started[p] /\ ~PeerGone(p) => Live(p, op) = 1
    BY <2>1, <2>3, <2>4, <2>5, <2>6 DEF GoesOnInv
  <2> QED
    BY <2>7, <2>8
<1> QED
  BY <1>1, Invariance, PTL
================================================================================
