-------------------------------- MODULE Np2Proofs --------------------------------
(***************************************************************************)
(* Theorems about Np2, for every set of processes, servers and clients,    *)
(* every buffer of the kernel and every number of messages.                *)
(***************************************************************************)
EXTENDS Np2, TLAPS, WellFoundedInduction, FiniteSetTheorems

(***************************************************************************)
(* Sequences.                                                              *)
(***************************************************************************)

\* What a concatenation is made of.
LEMMA ConcatFacts ==
  ASSUME NEW S, NEW a \in Seq(S), NEW b \in Seq(S)
  PROVE  /\ a \o b \in Seq(S)
         /\ Len(a) \in Nat /\ Len(b) \in Nat
         /\ Len(a \o b) = Len(a) + Len(b)
         /\ \A n \in 1 .. Len(a) : (a \o b)[n] = a[n]
         /\ \A n \in 1 .. Len(b) : (a \o b)[Len(a) + n] = b[n]
OBVIOUS

\* Two sequences of one length with the same members are the same.
LEMMA SeqEqual ==
  ASSUME NEW S, NEW a \in Seq(S), NEW b \in Seq(S), Len(a) = Len(b),
         \A n \in 1 .. Len(a) : a[n] = b[n]
  PROVE  a = b
OBVIOUS

\* The front of a sequence.
LEMMA SeqFront ==
  ASSUME NEW S, NEW v \in Seq(S), NEW k \in 0 .. Len(v)
  PROVE  /\ SubSeq(v, 1, k) \in Seq(S)
         /\ Len(SubSeq(v, 1, k)) = k
         /\ \A n \in 1 .. k : SubSeq(v, 1, k)[n] = v[n]
OBVIOUS

\* The rest of a sequence.
LEMMA SeqRest ==
  ASSUME NEW S, NEW v \in Seq(S), NEW m \in Nat, m = Len(v), NEW k \in 0 .. m
  PROVE  /\ SubSeq(v, k + 1, m) \in Seq(S)
         /\ Len(SubSeq(v, k + 1, m)) = m - k
         /\ \A n \in 1 .. m - k : SubSeq(v, k + 1, m)[n] = v[k + n]
<1>1. k \in Nat /\ k <= m
  OBVIOUS
<1>2. SubSeq(v, k + 1, m) \in Seq(S)
  BY <1>1
<1>3. Len(SubSeq(v, k + 1, m)) = m - k
  BY <1>1
<1>4. \A n \in 1 .. m - k : SubSeq(v, k + 1, m)[n] = v[k + n]
  BY <1>1
<1> QED
  BY <1>2, <1>3, <1>4

\* A sequence is its front and its rest.
LEMMA SeqSplit ==
  ASSUME NEW S, NEW v \in Seq(S), NEW k \in 0 .. Len(v)
  PROVE  SubSeq(v, 1, k) \o SubSeq(v, k + 1, Len(v)) = v
<1>1. PICK m \in Nat : m = Len(v) /\ k \in Nat /\ k <= m
  <2>1. Len(v) \in Nat
    OBVIOUS
  <2> QED
    BY <2>1
<1>2. PICK x \in Seq(S) : x = SubSeq(v, 1, k) /\ Len(x) = k /\ \A n \in 1 .. k : x[n] = v[n]
  BY SeqFront
<1>3. PICK y \in Seq(S) :
        /\ y = SubSeq(v, k + 1, m) /\ Len(y) = m - k
        /\ \A n \in 1 .. m - k : y[n] = v[k + n]
  <2>1. /\ SubSeq(v, k + 1, m) \in Seq(S)
        /\ Len(SubSeq(v, k + 1, m)) = m - k
        /\ \A n \in 1 .. m - k : SubSeq(v, k + 1, m)[n] = v[k + n]
    BY <1>1, SeqRest
  <2> QED
    BY <2>1
<1>4. PICK z \in Seq(S) : z = x \o y
  <2>1. x \o y \in Seq(S)
    OBVIOUS
  <2> QED
    BY <2>1
<1>5. Len(z) = m
  <2>1. Len(z) = Len(x) + Len(y)
    BY <1>4, ConcatFacts
  <2>2. k + (m - k) = m
    BY <1>1
  <2> QED
    BY <1>2, <1>3, <2>1, <2>2
<1>6. ASSUME NEW n \in 1 .. m
      PROVE  z[n] = v[n]
  <2>1. CASE n <= k
    <3>1. n \in 1 .. k /\ n \in 1 .. Len(x)
      BY <1>1, <1>2, <2>1
    <3>2. z[n] = x[n]
      BY <1>4, <3>1, ConcatFacts
    <3> QED
      BY <1>2, <3>1, <3>2
  <2>2. CASE ~(n <= k)
    <3>1. PICK j \in 1 .. m - k : n = k + j
      <4>1. n - k \in 1 .. m - k /\ n = k + (n - k)
        BY <1>1, <2>2
      <4> QED
        BY <4>1
    <3>2. z[k + j] = y[j]
      <4>1. \A l \in 1 .. Len(y) : (x \o y)[Len(x) + l] = y[l]
        BY ConcatFacts
      <4>2. j \in 1 .. Len(y)
        BY <1>3
      <4> QED
        BY <1>2, <1>4, <4>1, <4>2
    <3> QED
      BY <1>3, <3>1, <3>2
  <2> QED
    BY <2>1, <2>2
<1>7. z = v
  BY <1>1, <1>5, <1>6, SeqEqual
<1> QED
  BY <1>1, <1>2, <1>3, <1>4, <1>7

\* The rest of a sequence is its first element and the rest of that.
LEMMA HeadRest ==
  ASSUME NEW S, NEW v \in Seq(S), NEW n \in 1 .. Len(v)
  PROVE  SubSeq(v, n, Len(v)) = <<v[n]>> \o SubSeq(v, n + 1, Len(v))
<1>1. PICK m \in Nat : m = Len(v) /\ n \in Nat /\ 1 <= n /\ n <= m
  <2>1. Len(v) \in Nat
    OBVIOUS
  <2> QED
    BY <2>1
<1>2. PICK e \in S : e = v[n]
  BY <1>1
<1>3. PICK c \in Seq(S) :
        /\ c = SubSeq(v, n + 1, m) /\ Len(c) = m - n
        /\ \A l \in 1 .. m - n : c[l] = v[n + l]
  <2>1. n \in 0 .. m
    BY <1>1
  <2>2. /\ SubSeq(v, n + 1, m) \in Seq(S)
        /\ Len(SubSeq(v, n + 1, m)) = m - n
        /\ \A l \in 1 .. m - n : SubSeq(v, n + 1, m)[l] = v[n + l]
    BY <1>1, <2>1, SeqRest
  <2> QED
    BY <2>2
<1>4. PICK k \in 0 .. m : k + 1 = n /\ k \in Nat
  <2>1. n - 1 \in 0 .. m /\ (n - 1) + 1 = n /\ n - 1 \in Nat
    BY <1>1
  <2> QED
    BY <2>1
<1>5. PICK b \in Seq(S) :
        /\ b = SubSeq(v, k + 1, m) /\ Len(b) = m - k
        /\ \A l \in 1 .. m - k : b[l] = v[k + l]
  <2>1. /\ SubSeq(v, k + 1, m) \in Seq(S)
        /\ Len(SubSeq(v, k + 1, m)) = m - k
        /\ \A l \in 1 .. m - k : SubSeq(v, k + 1, m)[l] = v[k + l]
    BY <1>1, SeqRest
  <2> QED
    BY <2>1
<1>6. PICK o \in Seq(S) : o = <<e>> /\ Len(o) = 1 /\ o[1] = e
  <2>1. <<e>> \in Seq(S)
    OBVIOUS
  <2> QED
    BY <2>1
<1>7. PICK d \in Seq(S) : d = o \o c
  <2>1. o \o c \in Seq(S)
    OBVIOUS
  <2> QED
    BY <2>1
<1>8. Len(d) = m - k
  <2>1. Len(d) = Len(o) + Len(c)
    BY <1>7, ConcatFacts
  <2>2. Len(d) = 1 + (m - n)
    BY <1>3, <1>6, <2>1
  <2>3. 1 + (m - n) = m - k
    <3>1. k \in Nat /\ m \in Nat /\ n = k + 1
      BY <1>4
    <3>2. 1 + (m - (k + 1)) = m - k
      BY <3>1
    <3> QED
      BY <3>1, <3>2
  <2> QED
    BY <2>2, <2>3
<1>9. d[1] = e
  <2>1. \A j \in 1 .. Len(o) : (o \o c)[j] = o[j]
    BY ConcatFacts
  <2> QED
    BY <1>6, <1>7, <2>1
<1>10. ASSUME NEW l \in 1 .. m - n
       PROVE  d[1 + l] = c[l]
  <2>1. \A j \in 1 .. Len(c) : (o \o c)[Len(o) + j] = c[j]
    BY ConcatFacts
  <2>2. l \in 1 .. Len(c)
    BY <1>3
  <2>3. (o \o c)[Len(o) + l] = c[l]
    BY <2>1, <2>2
  <2> QED
    BY <1>6, <1>7, <2>3
<1>11. ASSUME NEW l \in 1 .. m - k
      PROVE  d[l] = b[l]
  <2>1. CASE l = 1
    <3>1. b[1] = v[k + 1]
      BY <1>5, <2>1
    <3> QED
      BY <1>2, <1>4, <1>9, <2>1, <3>1
  <2>2. CASE l # 1
    <3>1. PICK j \in 1 .. m - n : l = 1 + j /\ j \in Nat
      <4>1. l - 1 \in 1 .. m - n /\ l = 1 + (l - 1) /\ l - 1 \in Nat
        BY <1>1, <1>4, <2>2
      <4> QED
        BY <4>1
    <3>2. d[l] = c[j]
      BY <1>10, <3>1
    <3>3. c[j] = v[n + j]
      BY <1>3
    <3>4. b[l] = v[k + l] /\ k + l = n + j
      BY <1>1, <1>4, <1>5, <3>1
    <3> QED
      BY <3>2, <3>3, <3>4
  <2> QED
    BY <2>1, <2>2
<1>12. m - k \in Nat
  BY <1>1, <1>4
<1>13. d = b
  BY <1>5, <1>11, <1>12, <1>8, SeqEqual
<1> QED
  BY <1>1, <1>2, <1>3, <1>4, <1>5, <1>6, <1>7, <1>13

(***************************************************************************)
(* FlattenSeq.                                                             *)
(***************************************************************************)

\* Induction: a set of numbers with 0 and the next of each of them has all.
LEMMA Induction ==
  ASSUME NEW T, 0 \in T, \A n \in Nat : n \in T => n + 1 \in T
  PROVE  Nat \subseteq T
<1>1. SUFFICES ASSUME Nat \ T # {} PROVE FALSE
  OBVIOUS
<1>2. PICK R : R = OpToRel(<, Nat)
  OBVIOUS
<1>3. IsWellFoundedOn(R, Nat)
  BY <1>2, NatLessThanWellFounded
<1>4. PICK x \in Nat \ T : \A y \in Nat \ T : <<y, x>> \notin R
  BY <1>1, <1>3, WFMin
<1>5. x # 0 /\ x - 1 \in Nat \ T
  BY <1>4
<1>6. <<x - 1, x>> \in R
  BY <1>2, <1>4, <1>5 DEF OpToRel
<1> QED
  BY <1>4, <1>5, <1>6

\* One step of the recursion of FlattenSeq.
Flattened(ws, f, i) == IF i = 1 THEN ws[i] ELSE f[i - 1] \o ws[i]

\* The function FlattenSeq defines by recursion exists.
LEMMA FlattenDef ==
  ASSUME NEW ws \in Seq(Seq(Nat)), Len(ws) # 0
  PROVE  \E f : /\ \A i \in 1 .. Len(ws) : f[i] = Flattened(ws, f, i)
                /\ FlattenSeq(ws) = f[Len(ws)]
<1> DEFINE T == {n \in Nat : \E f : f = [i \in 1 .. n |-> Flattened(ws, f, i)]}
<1>1. 0 \in T
  <2>1. \A f : f = [i \in 1 .. 0 |-> <<>>] => f = [i \in 1 .. 0 |-> Flattened(ws, f, i)]
    OBVIOUS
  <2>2. \E f : f = [i \in 1 .. 0 |-> Flattened(ws, f, i)]
    BY <2>1
  <2> QED
    BY <2>2 DEF T
<1>2. ASSUME NEW n \in Nat, n \in T
      PROVE  n + 1 \in T
  <2>1. PICK f : f = [i \in 1 .. n |-> Flattened(ws, f, i)]
    BY <1>2
  <2> DEFINE g == [i \in 1 .. n + 1 |-> IF i = n + 1 THEN Flattened(ws, f, i) ELSE f[i]]
  <2>2. \A i \in 1 .. n + 1 : g[i] = Flattened(ws, g, i)
    <3>1. ASSUME NEW i \in 1 .. n + 1
          PROVE  g[i] = Flattened(ws, f, i)
      <4>1. CASE i = n + 1
        BY <4>1
      <4>2. CASE i # n + 1
        <5>1. i \in 1 .. n
          BY <4>2
        <5>2. f[i] = Flattened(ws, f, i)
          BY <2>1, <5>1
        <5> QED
          BY <4>2, <5>2
      <4> QED
        BY <4>1, <4>2
    <3>2. ASSUME NEW i \in 1 .. n + 1
          PROVE  Flattened(ws, f, i) = Flattened(ws, g, i)
      <4>1. i = 1 \/ i - 1 \in 1 .. n
        OBVIOUS
      <4>2. CASE i - 1 \in 1 .. n
        <5>1. g[i - 1] = f[i - 1]
          BY <4>2
        <5> QED
          BY <5>1 DEF Flattened
      <4> QED
        BY <4>1, <4>2 DEF Flattened
    <3> QED
      BY <3>1, <3>2
  <2>3. g = [i \in 1 .. n + 1 |-> g[i]]
    OBVIOUS
  <2> HIDE DEF g
  <2>4. g = [i \in 1 .. n + 1 |-> Flattened(ws, g, i)]
    BY <2>2, <2>3
  <2> QED
    BY <2>4 DEF T
<1> HIDE DEF T
<1>3. Nat \subseteq T
  BY <1>1, <1>2, Induction
<1>4. \E f : f = [i \in 1 .. Len(ws) |-> Flattened(ws, f, i)]
  BY <1>3 DEF T
<1>5. \E f : /\ f = [i \in 1 .. Len(ws) |-> Flattened(ws, f, i)]
            /\ FlattenSeq(ws) = f[Len(ws)]
  BY <1>4 DEF FlattenSeq, Flattened
<1> QED
  BY <1>5

\* What is flattened are messages.
LEMMA FlattenType ==
  ASSUME NEW ws \in Seq(Seq(Nat))
  PROVE  FlattenSeq(ws) \in Seq(Nat)
<1>1. CASE Len(ws) = 0
  BY <1>1 DEF FlattenSeq
<1>2. CASE Len(ws) # 0
  <2>1. PICK f : /\ \A i \in 1 .. Len(ws) : f[i] = Flattened(ws, f, i)
                 /\ FlattenSeq(ws) = f[Len(ws)]
    BY <1>2, FlattenDef
  <2> DEFINE T == {n \in Nat : n \in 1 .. Len(ws) => f[n] \in Seq(Nat)}
  <2>2. 0 \in T
    OBVIOUS
  <2>3. ASSUME NEW n \in Nat, n \in T, n + 1 \in 1 .. Len(ws)
        PROVE  f[n + 1] \in Seq(Nat)
    <3>1. PICK m \in 1 .. Len(ws) : m = n + 1
      BY <2>3
    <3>2. ws[m] \in Seq(Nat)
      OBVIOUS
    <3>3. f[m] = IF m = 1 THEN ws[m] ELSE f[m - 1] \o ws[m]
      BY <2>1 DEF Flattened
    <3>4. m # 1 => f[m - 1] \in Seq(Nat)
      BY <2>3, <3>1
    <3> QED
      BY <3>1, <3>2, <3>3, <3>4
  <2> HIDE DEF T
  <2>4. Nat \subseteq T
    <3>1. \A n \in Nat : n \in T => n + 1 \in T
      BY <2>3, SMTT(30) DEF T
    <3> QED
      BY <2>2, <3>1, Induction
  <2>5. Len(ws) \in Nat /\ Len(ws) \in 1 .. Len(ws)
    BY <1>2
  <2> QED
    BY <2>1, <2>4, <2>5 DEF T
<1> QED
  BY <1>1, <1>2

\* A write that is put behind others comes last.
LEMMA FlattenAppend ==
  ASSUME NEW ws \in Seq(Seq(Nat)), NEW w \in Seq(Nat)
  PROVE  FlattenSeq(Append(ws, w)) = FlattenSeq(ws) \o w
<1>1. PICK vs \in Seq(Seq(Nat)), n \in Nat :
        /\ vs = Append(ws, w) /\ n = Len(ws) /\ Len(vs) = n + 1
        /\ vs[n + 1] = w
        /\ \A i \in 1 .. n : vs[i] = ws[i]
  <2>1. PICK vs : vs = Append(ws, w)
    OBVIOUS
  <2>2. PICK n : n = Len(ws)
    OBVIOUS
  <2>3. vs \in Seq(Seq(Nat)) /\ n \in Nat
    BY <2>1, <2>2
  <2>4. /\ Len(vs) = n + 1
        /\ vs[n + 1] = w
    BY <2>1, <2>2
  <2>5. \A i \in 1 .. n : vs[i] = ws[i]
    BY <2>1, <2>2
  <2> QED
    BY <2>1, <2>2, <2>3, <2>4, <2>5
<1>2. PICK g : /\ \A i \in 1 .. n + 1 : g[i] = Flattened(vs, g, i)
               /\ FlattenSeq(vs) = g[n + 1]
  <2>1. Len(vs) # 0
    BY <1>1
  <2> QED
    BY <1>1, <2>1, FlattenDef
<1>3. CASE n = 0
  <2>1. FlattenSeq(vs) = w
    BY <1>1, <1>2, <1>3 DEF Flattened
  <2>2. FlattenSeq(ws) = <<>>
    BY <1>1, <1>3 DEF FlattenSeq
  <2> QED
    BY <1>1, <2>1, <2>2
<1>4. CASE n # 0
  <2>1. PICK f : /\ \A i \in 1 .. n : f[i] = Flattened(ws, f, i)
                 /\ FlattenSeq(ws) = f[n]
    BY <1>1, <1>4, FlattenDef
  <2> DEFINE T == {k \in Nat : k \in 1 .. n => g[k] = f[k]}
  <2>2. 0 \in T
    OBVIOUS
  <2>3. ASSUME NEW k \in Nat, k \in T, k + 1 \in 1 .. n
        PROVE  g[k + 1] = f[k + 1]
    <3>1. PICK m \in 1 .. n : m = k + 1 /\ m \in 1 .. n + 1
      BY <2>3
    <3>2. /\ f[m] = IF m = 1 THEN ws[m] ELSE f[m - 1] \o ws[m]
          /\ g[m] = IF m = 1 THEN vs[m] ELSE g[m - 1] \o vs[m]
      BY <1>2, <2>1, <3>1 DEF Flattened
    <3>3. m # 1 => g[m - 1] = f[m - 1]
      BY <2>3, <3>1
    <3>4. vs[m] = ws[m]
      BY <1>1
    <3> QED
      BY <3>1, <3>2, <3>3, <3>4
  <2> HIDE DEF T
  <2>4. Nat \subseteq T
    <3>1. ASSUME NEW k \in Nat, k \in T
          PROVE  k + 1 \in T
      <4>1. k + 1 \in Nat
        OBVIOUS
      <4>2. k + 1 \in 1 .. n => g[k + 1] = f[k + 1]
        BY <2>3, <3>1
      <4> QED
        BY <4>1, <4>2 DEF T
    <3> QED
      BY <2>2, <3>1, Induction
  <2>5. g[n] = f[n]
    <3>1. n \in T /\ n \in 1 .. n
      BY <1>4, <2>4
    <3> QED
      BY <3>1 DEF T
  <2>6. g[n + 1] = g[n] \o w
    <3>1. g[n + 1] = IF n + 1 = 1 THEN vs[n + 1] ELSE g[(n + 1) - 1] \o vs[n + 1]
      BY <1>2 DEF Flattened
    <3>2. n + 1 # 1 /\ (n + 1) - 1 = n
      BY <1>4
    <3> QED
      BY <1>1, <3>1, <3>2
  <2> QED
    BY <1>1, <1>2, <2>1, <2>5, <2>6
<1> QED
  BY <1>3, <1>4

(***************************************************************************)
(* What the operators of BeamIocp change.                                  *)
(***************************************************************************)

\* Changing one end of an instance leaves the others.
LEMMA EndExcept ==
  ASSUME NEW S, NEW f \in [Pipes -> [Sides -> S]], NEW g,
         NEW i \in Pipes, NEW s \in Sides, NEW x \in S,
         g = [f EXCEPT ![i][s] = x]
  PROVE  /\ g \in [Pipes -> [Sides -> S]]
         /\ g[i][s] = x
         /\ \A j \in Pipes, t \in Sides : j # i \/ t # s => g[j][t] = f[j][t]
  OBVIOUS

\* The other end.
LEMMA Others ==
  ASSUME NEW s \in Sides
  PROVE  Other(s) \in Sides /\ Other(s) # s /\ Other(Other(s)) = s
         /\ \A t \in Sides : t = s \/ t = Other(s)
  BY DEF Sides, Other

\* A completion that is put in a port comes behind the others.
LEMMA PortAppend ==
  ASSUME NEW S, NEW f \in [Procs -> Seq(S)], NEW q \in Procs, NEW x \in S, NEW g,
         g = [f EXCEPT ![q] = Append(@, x)]
  PROVE  /\ g \in [Procs -> Seq(S)]
         /\ \A p \in Procs : p # q => g[p] = f[p]
         /\ DOMAIN g[q] = DOMAIN f[q] \union {Len(f[q]) + 1}
         /\ Len(f[q]) \in Nat /\ Len(f[q]) + 1 \notin DOMAIN f[q]
         /\ g[q][Len(f[q]) + 1] = x
         /\ \A n \in DOMAIN f[q] : g[q][n] = f[q][n]
<1>1. g[q] = Append(f[q], x) /\ f[q] \in Seq(S)
  OBVIOUS
<1>2. PICK a \in Seq(S) : a = f[q]
  BY <1>1
<1>3. /\ DOMAIN Append(a, x) = DOMAIN a \union {Len(a) + 1}
      /\ Len(a) \in Nat /\ Len(a) + 1 \notin DOMAIN a
      /\ Append(a, x)[Len(a) + 1] = x
      /\ \A n \in DOMAIN a : Append(a, x)[n] = a[n]
  OBVIOUS
<1>4. g \in [Procs -> Seq(S)] /\ \A p \in Procs : p # q => g[p] = f[p]
  OBVIOUS
<1> QED
  BY <1>1, <1>2, <1>3, <1>4

\* What is queued on a wire are writes.
LEMMA QueuedType ==
  ASSUME NEW i, NEW s, NEW ws \in Seq(Seq(Nat)), NEW vs \in Queued(i, s, ws)
  PROVE  /\ vs \in Seq(Seq(Nat))
         /\ Len(vs) = Len(ws)
         /\ \A n \in DOMAIN ws : vs[n] = ws[n] \/ vs[n] = [m \in DOMAIN ws[n] |-> Garbage]
<1>1. PICK spoilt : vs = [n \in DOMAIN ws |-> IF n \in spoilt THEN [m \in DOMAIN ws[n] |-> Garbage]
                                                             ELSE ws[n]]
  BY DEF Queued
<1>2. \A n \in DOMAIN ws : vs[n] = ws[n] \/ vs[n] = [m \in DOMAIN ws[n] |-> Garbage]
  BY <1>1
<1>3. ASSUME NEW n \in DOMAIN ws
      PROVE  vs[n] \in Seq(Nat)
  <2>1. PICK w \in Seq(Nat) : w = ws[n]
    OBVIOUS
  <2>2. PICK k \in Nat : k = Len(w) /\ DOMAIN w = 1 .. k
    BY <2>1
  <2>3. [m \in 1 .. k |-> Garbage] \in Seq(Nat)
    BY DEF Garbage
  <2> QED
    BY <1>2, <2>1, <2>2, <2>3
<1>4. PICK k \in Nat : k = Len(ws) /\ DOMAIN ws = 1 .. k
  OBVIOUS
<1>5. vs = [n \in 1 .. k |-> vs[n]]
  BY <1>1, <1>4
<1>6. vs \in Seq(Seq(Nat)) /\ Len(vs) = k
  BY <1>3, <1>4, <1>5
<1> QED
  BY <1>2, <1>4, <1>6

\* A read never makes the buffer shorter.
LEMMA OverlayType ==
  ASSUME NEW w \in Seq(Nat), NEW b \in Seq(Nat)
  PROVE  /\ Overlay(w, b) \in Seq(Nat)
         /\ Len(w) <= Len(Overlay(w, b))
         /\ Len(b) <= Len(Overlay(w, b))
         /\ \A n \in 1 .. Len(w) : Overlay(w, b)[n] = w[n]
<1>1. PICK c : c = SubSeq(b, Len(w) + 1, Len(b))
  OBVIOUS
<1>2. PICK k \in Nat, m \in Nat : k = Len(w) /\ m = Len(b)
  OBVIOUS
<1>3. c \in Seq(Nat) /\ Len(c) = IF k + 1 <= m THEN m - k ELSE 0
  BY <1>1, <1>2
<1>4. /\ w \o c \in Seq(Nat)
      /\ Len(w \o c) = Len(w) + Len(c)
      /\ \A n \in 1 .. Len(w) : (w \o c)[n] = w[n]
  <2>1. w \in Seq(Nat) /\ c \in Seq(Nat)
    BY <1>3
  <2> QED
    BY <2>1
<1> QED
  BY <1>1, <1>2, <1>3, <1>4 DEF Overlay

\* Close: an end of an instance is closed, what was written to it is lost, and what
\* is pending to the other end; no operation is left on either end.  The ports of its
\* process and of the one at the other end get completions that say they failed.
LEMMA CloseFacts ==
  ASSUME IocpTypeOK, NEW p \in Procs, NEW i \in Pipes, NEW s \in Sides, Close(p, i, s)
  PROVE  /\ IocpTypeOK'
         /\ end'[i][s] = None
         /\ \A j \in Pipes, t \in Sides : j # i \/ t # s => end'[j][t] = end[j][t]
         /\ wire'[i][s] = <<>>
         /\ \E k \in 0 .. Len(wire[i][Other(s)]) :
              k <= Quota /\ wire'[i][Other(s)] = SubSeq(wire[i][Other(s)], 1, k)
         /\ \A j \in Pipes, t \in Sides : j # i => wire'[j][t] = wire[j][t]
         /\ reading' = reading \ {<<i, "server">>, <<i, "client">>}
         /\ accepts' = accepts \ {i}
         /\ UNCHANGED <<phase, buffer, written, heard>>
<1> USE DEF Pipes
<1>1. /\ end' = [end EXCEPT ![i][s] = None]
      /\ wire' = [wire EXCEPT ![i][s] = <<>>,
                              ![i][Other(s)] = SubSeq(@, 1, Len(@) - Pending(i, Other(s)))]
      /\ reading' = reading \ {<<i, "server">>, <<i, "client">>}
      /\ accepts' = accepts \ {i}
      /\ UNCHANGED <<phase, buffer, written, heard>>
  BY DEF Close, history
<1>2. /\ end \in [Pipes -> [Sides -> Procs \union {None}]]
      /\ wire \in [Pipes -> [Sides -> Seq(Seq(Nat))]]
      /\ port \in [Procs -> Seq(Completions)]
  BY DEF IocpTypeOK
<1>3. /\ end' \in [Pipes -> [Sides -> Procs \union {None}]]
      /\ end'[i][s] = None
      /\ \A j \in Pipes, t \in Sides : j # i \/ t # s => end'[j][t] = end[j][t]
  <2>1. None \in Procs \union {None}
    OBVIOUS
  <2> QED
    BY <1>1, <1>2, <2>1, EndExcept
<1>4. PICK o \in Sides : o = Other(s) /\ o # s
  BY Others
<1>5. PICK w \in Seq(Seq(Nat)) : w = wire[i][o]
  BY <1>2
<1>6. PICK k \in 0 .. Len(w) : k <= Quota /\ k = Len(w) - Pending(i, o)
  <2>1. Len(w) \in Nat /\ Quota \in Nat
    BY IocpAssumption
  <2>2. Pending(i, o) = IF Len(w) > Quota THEN Len(w) - Quota ELSE 0
    BY <1>5 DEF Pending
  <2>3. Len(w) - Pending(i, o) \in 0 .. Len(w) /\ Len(w) - Pending(i, o) <= Quota
    BY <2>1, <2>2
  <2> QED
    BY <2>3
<1>7. PICK v \in Seq(Seq(Nat)) : v = SubSeq(w, 1, k)
  <2>1. SubSeq(w, 1, k) \in Seq(Seq(Nat))
    BY <1>6
  <2> QED
    BY <2>1
<1>8. PICK f : f = [wire EXCEPT ![i][s] = <<>>]
  OBVIOUS
<1>9. /\ f \in [Pipes -> [Sides -> Seq(Seq(Nat))]]
      /\ f[i][s] = <<>>
      /\ \A j \in Pipes, t \in Sides : j # i \/ t # s => f[j][t] = wire[j][t]
  <2>1. <<>> \in Seq(Seq(Nat))
    OBVIOUS
  <2> QED
    BY <1>2, <1>8, <2>1, EndExcept
<1>10. wire' = [f EXCEPT ![i][o] = v]
  <2>1. f[i][o] = w
    BY <1>4, <1>5, <1>9
  <2>2. wire' = [f EXCEPT ![i][o] = SubSeq(@, 1, Len(@) - Pending(i, o))]
    BY <1>1, <1>4, <1>8
  <2> QED
    BY <1>6, <1>7, <2>1, <2>2
<1>11. /\ wire' \in [Pipes -> [Sides -> Seq(Seq(Nat))]]
       /\ wire'[i][o] = v
       /\ \A j \in Pipes, t \in Sides : j # i \/ t # o => wire'[j][t] = f[j][t]
  BY <1>9, <1>10, EndExcept
<1>12. port' \in [Procs -> Seq(Completions)]
  <2> DEFINE Fails(q) == (IF q = p THEN Outstanding(i, s) ELSE 0)
                       + (IF q = end[i][Other(s)] THEN Outstanding(i, Other(s)) ELSE 0)
  <2>1. port' = [q \in Procs |-> port[q] \o [n \in 1 .. Fails(q) |-> Completion("fail", 0)]]
    BY DEF Close
  <2>2. ASSUME NEW t \in Sides
        PROVE  Outstanding(i, t) \in Nat
    <3>1. PICK u \in Sides : u = Other(t)
      BY Others
    <3>2. Len(wire[i][u]) \in Nat /\ Quota \in Nat
      BY <1>2, IocpAssumption
    <3>3. Pending(i, u) \in Nat
      BY <3>2 DEF Pending
    <3> QED
      BY <3>1, <3>3 DEF Outstanding
  <2>3. ASSUME NEW q \in Procs
        PROVE  Fails(q) \in Nat
    <3>1. Outstanding(i, s) \in Nat /\ Outstanding(i, Other(s)) \in Nat
      BY <2>2, Others
    <3> QED
      BY <3>1
  <2> HIDE DEF Fails
  <2>4. Completion("fail", 0) \in Completions
    BY DEF Completion, Completions
  <2>5. ASSUME NEW q \in Procs
        PROVE  port'[q] \in Seq(Completions)
    <3>1. PICK n \in Nat : n = Fails(q)
      BY <2>3
    <3>2. [m \in 1 .. n |-> Completion("fail", 0)] \in Seq(Completions)
      BY <2>4
    <3>3. port[q] \in Seq(Completions)
      BY <1>2
    <3>4. port'[q] = port[q] \o [m \in 1 .. n |-> Completion("fail", 0)]
      BY <2>1, <3>1
    <3> QED
      BY <3>2, <3>3, <3>4
  <2> QED
    BY <2>1, <2>5
<1>13. IocpTypeOK'
  <2>1. /\ phase' \in [Pipes -> {"unused", "listening", "connected"}]
        /\ buffer' \in [Procs -> Seq(Nat)]
        /\ written' \in [Pipes -> [Sides -> Seq(Nat)]]
        /\ heard' \in [Pipes -> [Sides -> Seq(Nat)]]
    BY <1>1 DEF IocpTypeOK
  <2>2. reading' \subseteq Ends /\ accepts' \subseteq Pipes
    BY <1>1 DEF IocpTypeOK
  <2> QED
    BY <1>3, <1>11, <1>12, <2>1, <2>2 DEF IocpTypeOK
<1>14. wire'[i][s] = <<>>
  BY <1>4, <1>9, <1>11
<1>15. \A j \in Pipes, t \in Sides : j # i => wire'[j][t] = wire[j][t]
  BY <1>9, <1>11
<1>16. \E l \in 0 .. Len(wire[i][Other(s)]) :
         l <= Quota /\ wire'[i][Other(s)] = SubSeq(wire[i][Other(s)], 1, l)
  BY <1>4, <1>5, <1>6, <1>7, <1>11
<1> QED
  BY <1>1, <1>3, <1>13, <1>14, <1>15, <1>16

\* What Close puts in a port comes behind what is there, and only says that something
\* failed: of the operations of p, or of the process at the other end.
LEMMA ClosePorts ==
  ASSUME IocpTypeOK, NEW p \in Procs, NEW i \in Pipes, NEW s \in Sides, Close(p, i, s),
         NEW q \in Procs
  PROVE  /\ DOMAIN port[q] \subseteq DOMAIN port'[q]
         /\ \A n \in DOMAIN port[q] : port'[q][n] = port[q][n]
         /\ \A n \in DOMAIN port'[q] \ DOMAIN port[q] :
              /\ port'[q][n] = Completion("fail", 0)
              /\ q = p \/ (q = end[i][Other(s)] /\ Outstanding(i, Other(s)) > 0)
<1> DEFINE Fails == (IF q = p THEN Outstanding(i, s) ELSE 0)
                  + (IF q = end[i][Other(s)] THEN Outstanding(i, Other(s)) ELSE 0)
<1>1. port'[q] = port[q] \o [n \in 1 .. Fails |-> Completion("fail", 0)]
  BY DEF Close
<1>2. ASSUME NEW t \in Sides
      PROVE  Outstanding(i, t) \in Nat
  <2>1. PICK u \in Sides : u = Other(t)
    BY Others
  <2>2. Len(wire[i][u]) \in Nat /\ Quota \in Nat
    BY IocpAssumption DEF IocpTypeOK
  <2>3. Pending(i, u) \in Nat
    BY <2>2 DEF Pending
  <2> QED
    BY <2>1, <2>3 DEF Outstanding
<1>3. Outstanding(i, s) \in Nat /\ Outstanding(i, Other(s)) \in Nat
  BY <1>2, Others
<1>4. PICK k \in Nat : k = Fails
  BY <1>3
<1>5. k > 0 => q = p \/ (q = end[i][Other(s)] /\ Outstanding(i, Other(s)) > 0)
  BY <1>3, <1>4
<1> HIDE DEF Fails
<1>6. PICK c \in Completions : c = Completion("fail", 0)
  <2>1. Completion("fail", 0) \in Completions
    BY DEF Completion, Completions
  <2> QED
    BY <2>1
<1>7. PICK a \in Seq(Completions) : a = port[q]
  BY DEF IocpTypeOK
<1>8. PICK b \in Seq(Completions) : b = [n \in 1 .. k |-> c] /\ Len(b) = k
  <2>1. [n \in 1 .. k |-> c] \in Seq(Completions) /\ Len([n \in 1 .. k |-> c]) = k
    OBVIOUS
  <2> QED
    BY <2>1
<1>9. PICK m \in Nat : m = Len(a) /\ DOMAIN a = 1 .. m
  OBVIOUS
<1>10. /\ DOMAIN (a \o b) = 1 .. m + k
       /\ \A n \in 1 .. m : (a \o b)[n] = a[n]
       /\ \A n \in m + 1 .. m + k : (a \o b)[n] = b[n - m]
  BY <1>8, <1>9
<1>11. \A n \in m + 1 .. m + k : n - m \in 1 .. k
  OBVIOUS
<1>12. \A n \in m + 1 .. m + k : (a \o b)[n] = c
  BY <1>8, <1>10, <1>11
<1>13. port'[q] = a \o b
  BY <1>1, <1>4, <1>6, <1>7, <1>8
<1>14. \A n \in DOMAIN port'[q] \ DOMAIN port[q] : n \in m + 1 .. m + k /\ k > 0
  BY <1>7, <1>9, <1>10, <1>13
<1>15. DOMAIN port[q] \subseteq DOMAIN port'[q]
  BY <1>7, <1>9, <1>10, <1>13
<1>16. \A n \in DOMAIN port[q] : port'[q][n] = port[q][n]
  BY <1>7, <1>9, <1>10, <1>13
<1>17. \A n \in DOMAIN port'[q] \ DOMAIN port[q] : port'[q][n] = Completion("fail", 0)
  BY <1>6, <1>12, <1>13, <1>14
<1> QED
  BY <1>5, <1>14, <1>15, <1>16, <1>17

\* ReadCompletes: one more completion in q's port, for what is now in q's buffer.
LEMMA ReadCompletesFacts ==
  ASSUME IocpTypeOK, NEW q \in Procs, NEW w \in Seq(Nat), ReadCompletes(q, w)
  PROVE  /\ port' \in [Procs -> Seq(Completions)]
         /\ buffer' \in [Procs -> Seq(Nat)]
         /\ \A p \in Procs : p # q => port'[p] = port[p] /\ buffer'[p] = buffer[p]
         /\ \E n \in Nat :
              /\ n \notin DOMAIN port[q] /\ DOMAIN port'[q] = DOMAIN port[q] \union {n}
              /\ port'[q][n] = Completion("read", Len(w))
         /\ \A n \in DOMAIN port[q] : port'[q][n] = port[q][n]
         /\ Len(w) <= Len(buffer'[q])
         /\ Len(buffer[q]) <= Len(buffer'[q])
         /\ \A n \in 1 .. Len(w) : buffer'[q][n] = w[n]
<1>1. PICK c \in Completions : c = Completion("read", Len(w))
  <2>1. Completion("read", Len(w)) \in Completions
    BY DEF Completion, Completions
  <2> QED
    BY <2>1
<1>2. /\ port' = [port EXCEPT ![q] = Append(@, c)]
      /\ buffer' = [buffer EXCEPT ![q] = Overlay(w, @)]
  BY <1>1 DEF ReadCompletes
<1>3. /\ port \in [Procs -> Seq(Completions)]
      /\ buffer \in [Procs -> Seq(Nat)]
  BY DEF IocpTypeOK
<1>4. /\ port' \in [Procs -> Seq(Completions)]
      /\ \A p \in Procs : p # q => port'[p] = port[p]
      /\ DOMAIN port'[q] = DOMAIN port[q] \union {Len(port[q]) + 1}
      /\ Len(port[q]) \in Nat /\ Len(port[q]) + 1 \notin DOMAIN port[q]
      /\ port'[q][Len(port[q]) + 1] = c
      /\ \A n \in DOMAIN port[q] : port'[q][n] = port[q][n]
  BY <1>2, <1>3, PortAppend
<1>5. PICK b \in Seq(Nat) : b = buffer[q]
  BY <1>3
<1>6. PICK o \in Seq(Nat) : o = Overlay(w, b)
  BY OverlayType
<1>7. Len(w) <= Len(o) /\ Len(b) <= Len(o) /\ \A n \in 1 .. Len(w) : o[n] = w[n]
  BY <1>6, OverlayType
<1>8. buffer' = [buffer EXCEPT ![q] = o]
  BY <1>2, <1>5, <1>6
<1>9. /\ buffer' \in [Procs -> Seq(Nat)]
      /\ buffer'[q] = o
      /\ \A p \in Procs : p # q => buffer'[p] = buffer[p]
  BY <1>3, <1>8
<1>10. \E n \in Nat :
         /\ n \notin DOMAIN port[q] /\ DOMAIN port'[q] = DOMAIN port[q] \union {n}
         /\ port'[q][n] = Completion("read", Len(w))
  <2>1. Len(port[q]) + 1 \in Nat
    BY <1>4
  <2> QED
    BY <1>1, <1>4, <2>1
<1> QED
  BY <1>4, <1>5, <1>7, <1>9, <1>10

\* Cutting a write in two makes one write more at most.
LEMMA CutsFacts ==
  ASSUME NEW ws \in Seq(Seq(Nat)), NEW n \in 1 .. Len(ws), NEW cut \in Cuts(ws, n)
  PROVE  /\ cut \in Seq(Seq(Nat))
         /\ Len(cut) \in {Len(ws), Len(ws) + 1}
<1>1. CASE cut = ws
  BY <1>1
<1>2. CASE cut # ws
  <2>1. PICK v \in Seq(Nat) : v = ws[n]
    OBVIOUS
  <2>2. PICK k \in 1 .. Len(v) - 1 :
          cut = SubSeq(ws, 1, n - 1) \o <<SubSeq(v, 1, k), SubSeq(v, k + 1, Len(v))>>
                                     \o SubSeq(ws, n + 1, Len(ws))
    BY <1>2, <2>1 DEF Cuts
  <2>3. PICK x \in Seq(Nat) : x = SubSeq(v, 1, k)
    <3>1. SubSeq(v, 1, k) \in Seq(Nat)
      OBVIOUS
    <3> QED
      BY <3>1
  <2>4. PICK y \in Seq(Nat) : y = SubSeq(v, k + 1, Len(v))
    <3>1. SubSeq(v, k + 1, Len(v)) \in Seq(Nat)
      OBVIOUS
    <3> QED
      BY <3>1
  <2>5. PICK m \in Nat : m = Len(ws) /\ n \in Nat /\ 1 <= n /\ n <= m
    <3>1. Len(ws) \in Nat
      OBVIOUS
    <3> QED
      BY <3>1
  <2>6. PICK a \in Seq(Seq(Nat)) : a = SubSeq(ws, 1, n - 1) /\ Len(a) = n - 1
    <3>1. n - 1 \in 0 .. Len(ws)
      BY <2>5
    <3>2. SubSeq(ws, 1, n - 1) \in Seq(Seq(Nat)) /\ Len(SubSeq(ws, 1, n - 1)) = n - 1
      BY <3>1, SeqFront
    <3> QED
      BY <3>2
  <2>7. PICK c \in Seq(Seq(Nat)) : c = SubSeq(ws, n + 1, m) /\ Len(c) = m - n
    <3>1. n \in 0 .. m
      BY <2>5
    <3>2. SubSeq(ws, n + 1, m) \in Seq(Seq(Nat)) /\ Len(SubSeq(ws, n + 1, m)) = m - n
      BY <2>5, <3>1, SeqRest
    <3> QED
      BY <3>2
  <2>8. PICK b \in Seq(Seq(Nat)) : b = <<x, y>> /\ Len(b) = 2
    <3>1. <<x, y>> \in Seq(Seq(Nat)) /\ Len(<<x, y>>) = 2
      OBVIOUS
    <3> QED
      BY <3>1
  <2>9. PICK d \in Seq(Seq(Nat)) : d = a \o b /\ Len(d) = n + 1
    <3>1. a \o b \in Seq(Seq(Nat)) /\ Len(a \o b) = Len(a) + Len(b)
      OBVIOUS
    <3>2. (n - 1) + 2 = n + 1
      BY <2>5
    <3> QED
      BY <2>6, <2>8, <3>1, <3>2
  <2>10. d \o c \in Seq(Seq(Nat)) /\ Len(d \o c) = Len(d) + Len(c)
    OBVIOUS
  <2>11. (n + 1) + (m - n) = m + 1
    BY <2>5
  <2>12. cut = d \o c
    BY <2>2, <2>3, <2>4, <2>6, <2>7, <2>8, <2>9, <2>5
  <2> QED
    BY <2>7, <2>9, <2>10, <2>11, <2>12, <2>5
<1> QED
  BY <1>1, <1>2

\* AsyncWrites: writes that succeed only concern the end they are written to, and the
\* read outstanding there, if there is one, takes the first or the front of it.
LEMMA AsyncWritesFacts ==
  ASSUME IocpTypeOK, NEW i \in Pipes, NEW s \in Sides, NEW ws \in Seq(Seq(Nat)),
         AsyncWrites(i, s, ws)
  PROVE  \/ UNCHANGED <<wire, reading, accepts, port, buffer, written>>
         \/ /\ phase[i] = "connected" /\ end[i][s] \in Procs /\ ws # <<>>
            /\ wire' \in [Pipes -> [Sides -> Seq(Seq(Nat))]]
            /\ \A j \in Pipes, t \in Sides : j # i \/ t # s => wire'[j][t] = wire[j][t]
            /\ written' \in [Pipes -> [Sides -> Seq(Nat)]]
            /\ written'[i][s] = written[i][s] \o FlattenSeq(ws)
            /\ \A j \in Pipes, t \in Sides : j # i \/ t # s => written'[j][t] = written[j][t]
            /\ UNCHANGED accepts
            /\ \/ /\ <<i, s>> \in reading
                  /\ reading' = reading \ {<<i, s>>}
                  /\ \E cut \in Cuts(ws, 1), w \in Seq(Nat) :
                       /\ w = Head(cut)
                       /\ ReadCompletes(end[i][s], w)
                       /\ wire'[i][s] \in Queued(i, s, Tail(cut))
               \/ /\ <<i, s>> \notin reading
                  /\ UNCHANGED <<reading, port, buffer>>
                  /\ \E all \in Queued(i, s, ws) : wire'[i][s] = wire[i][s] \o all
<1>1. CASE phase[i] # "connected" \/ end[i][s] = None \/ ws = <<>>
  BY <1>1 DEF AsyncWrites, opVars, portVars
<1>2. CASE ~(phase[i] # "connected" \/ end[i][s] = None \/ ws = <<>>)
  <2>1. phase[i] = "connected" /\ end[i][s] \in Procs /\ ws # <<>>
    BY <1>2 DEF IocpTypeOK
  <2>2. /\ written' = [written EXCEPT ![i][s] = @ \o FlattenSeq(ws)]
        /\ UNCHANGED accepts
        /\ IF <<i, s>> \in reading
             THEN /\ reading' = reading \ {<<i, s>>}
                  /\ \E cut \in Cuts(ws, 1) :
                       /\ ReadCompletes(end[i][s], Head(cut))
                       /\ \E rest \in Queued(i, s, Tail(cut)) :
                            wire' = [wire EXCEPT ![i][s] = rest]
             ELSE /\ \E all \in Queued(i, s, ws) :
                       wire' = [wire EXCEPT ![i][s] = @ \o all]
                  /\ UNCHANGED <<reading, port, buffer>>
    BY <1>2 DEF AsyncWrites, portVars
  <2>3. /\ wire \in [Pipes -> [Sides -> Seq(Seq(Nat))]]
        /\ written \in [Pipes -> [Sides -> Seq(Nat)]]
    BY DEF IocpTypeOK
  <2>4. PICK fs \in Seq(Nat) : fs = FlattenSeq(ws)
    BY FlattenType
  <2>5. PICK v \in Seq(Nat) : v = written[i][s] \o fs
    <3>1. PICK a \in Seq(Nat) : a = written[i][s]
      BY <2>3
    <3>2. a \o fs \in Seq(Nat)
      OBVIOUS
    <3> QED
      BY <3>1, <3>2
  <2>6. written' = [written EXCEPT ![i][s] = v]
    BY <2>2, <2>4, <2>5
  <2>7. /\ written' \in [Pipes -> [Sides -> Seq(Nat)]]
        /\ written'[i][s] = v
        /\ \A j \in Pipes, t \in Sides : j # i \/ t # s => written'[j][t] = written[j][t]
    BY <2>3, <2>6, EndExcept
  <2>8. CASE <<i, s>> \in reading
    <3>1. PICK cut \in Cuts(ws, 1) :
            /\ ReadCompletes(end[i][s], Head(cut))
            /\ \E rest \in Queued(i, s, Tail(cut)) : wire' = [wire EXCEPT ![i][s] = rest]
      BY <2>2, <2>8
    <3>2. PICK rest \in Queued(i, s, Tail(cut)) : wire' = [wire EXCEPT ![i][s] = rest]
      BY <3>1
    <3>3. cut \in Seq(Seq(Nat)) /\ cut # <<>>
      <4>1. Len(ws) \in Nat /\ 1 \in 1 .. Len(ws)
        BY <2>1
      <4>2. cut \in Seq(Seq(Nat)) /\ Len(cut) \in {Len(ws), Len(ws) + 1}
        BY <4>1, CutsFacts
      <4> QED
        BY <4>1, <4>2
    <3>4. PICK w \in Seq(Nat) : w = Head(cut)
      BY <3>3
    <3>5. Tail(cut) \in Seq(Seq(Nat))
      BY <3>3
    <3>6. rest \in Seq(Seq(Nat))
      BY <3>5, QueuedType
    <3>7. /\ wire' \in [Pipes -> [Sides -> Seq(Seq(Nat))]]
          /\ wire'[i][s] = rest
          /\ \A j \in Pipes, t \in Sides : j # i \/ t # s => wire'[j][t] = wire[j][t]
      BY <2>3, <3>2, <3>6, EndExcept
    <3>8. \E c \in Cuts(ws, 1), front \in Seq(Nat) :
            /\ front = Head(c)
            /\ ReadCompletes(end[i][s], front)
            /\ wire'[i][s] \in Queued(i, s, Tail(c))
      BY <3>1, <3>4, <3>7
    <3> QED
      BY <2>1, <2>2, <2>4, <2>5, <2>7, <2>8, <3>7, <3>8
  <2>9. CASE <<i, s>> \notin reading
    <3>1. PICK all \in Queued(i, s, ws) : wire' = [wire EXCEPT ![i][s] = @ \o all]
      BY <2>2, <2>9
    <3>2. all \in Seq(Seq(Nat))
      BY QueuedType
    <3>3. PICK x \in Seq(Seq(Nat)) : x = wire[i][s] \o all
      <4>1. PICK a \in Seq(Seq(Nat)) : a = wire[i][s]
        BY <2>3
      <4>2. a \o all \in Seq(Seq(Nat))
        BY <3>2
      <4> QED
        BY <4>1, <4>2
    <3>4. wire' = [wire EXCEPT ![i][s] = x]
      BY <3>1, <3>3
    <3>5. /\ wire' \in [Pipes -> [Sides -> Seq(Seq(Nat))]]
          /\ wire'[i][s] = x
          /\ \A j \in Pipes, t \in Sides : j # i \/ t # s => wire'[j][t] = wire[j][t]
      BY <2>3, <3>3, <3>4, EndExcept
    <3> QED
      BY <2>1, <2>2, <2>4, <2>5, <2>7, <2>9, <3>3, <3>5
  <2> QED
    BY <2>8, <2>9
<1> QED
  BY <1>1, <1>2

\* AsyncRead: p gets some of what is there, or its read is left outstanding, unless the
\* other end is closed.
LEMMA AsyncReadFacts ==
  ASSUME IocpTypeOK, NEW p \in Procs, NEW i \in Pipes, NEW s \in Sides, AsyncRead(p, i, s)
  PROVE  /\ UNCHANGED accepts
         /\ \/ /\ wire[i][s] # <<>>
               /\ UNCHANGED reading
               /\ wire' \in [Pipes -> [Sides -> Seq(Seq(Nat))]]
               /\ \A j \in Pipes, t \in Sides : j # i \/ t # s => wire'[j][t] = wire[j][t]
               /\ /\ Len(wire'[i][s]) <= Len(wire[i][s])
                  /\ Len(wire[i][s]) \in Nat /\ Len(wire'[i][s]) \in Nat
               /\ \E n \in 1 .. Len(wire[i][s]), ws \in Seq(Seq(Nat)) :
                    LET w == FlattenSeq(SubSeq(ws, 1, n))
                    IN  /\ ws \in Cuts(wire[i][s], n)
                        /\ n \in DOMAIN ws
                        /\ w \in Seq(Nat)
                        /\ ReadCompletes(p, w)
                        /\ wire'[i][s] = SubSeq(ws, n + 1, Len(ws))
            \/ /\ UNCHANGED <<wire, port, buffer>>
               /\ wire[i][s] = <<>>
               /\ \/ /\ phase[i] = "connected" /\ end[i][Other(s)] # None
                     /\ reading' = reading \union {<<i, s>>}
                  \/ /\ ~(phase[i] = "connected" /\ end[i][Other(s)] # None)
                     /\ UNCHANGED reading
<1>1. CASE wire[i][s] # <<>>
  <2>1. PICK n \in DOMAIN wire[i][s] : \E ws \in Cuts(wire[i][s], n) :
          /\ ReadCompletes(p, FlattenSeq(SubSeq(ws, 1, n)))
          /\ wire' = [wire EXCEPT ![i][s] = SubSeq(ws, n + 1, Len(ws))]
    BY <1>1 DEF AsyncRead
  <2>2. UNCHANGED <<reading, accepts>>
    BY <1>1 DEF AsyncRead
  <2>3. wire \in [Pipes -> [Sides -> Seq(Seq(Nat))]]
    BY DEF IocpTypeOK
  <2>4. PICK v \in Seq(Seq(Nat)) : v = wire[i][s]
    BY <2>3
  <2>5. PICK l \in Nat : l = Len(v) /\ n \in 1 .. l
    <3>1. n \in DOMAIN v
      BY <2>4
    <3>2. Len(v) \in Nat /\ DOMAIN v = 1 .. Len(v)
      OBVIOUS
    <3> QED
      BY <3>1, <3>2
  <2>6. PICK ws \in Cuts(v, n) :
          /\ ReadCompletes(p, FlattenSeq(SubSeq(ws, 1, n)))
          /\ wire' = [wire EXCEPT ![i][s] = SubSeq(ws, n + 1, Len(ws))]
    BY <2>1, <2>4
  <2>7. ws \in Seq(Seq(Nat)) /\ Len(ws) \in {l, l + 1}
    BY <2>5, <2>6, CutsFacts
  <2>8. PICK m \in Nat : m = Len(ws) /\ m \in {l, l + 1} /\ n \in 1 .. m /\ n \in DOMAIN ws
    <3>1. PICK k \in Nat : k = Len(ws) /\ DOMAIN ws = 1 .. k
      BY <2>7
    <3>2. k \in {l, l + 1}
      BY <2>7, <3>1
    <3>3. n \in 1 .. k
      <4>1. n \in 1 .. l
        BY <2>5
      <4> QED
        BY <3>2, <4>1
    <3> QED
      BY <3>1, <3>2, <3>3
  <2>9. SubSeq(ws, 1, n) \in Seq(Seq(Nat)) /\ SubSeq(ws, n + 1, m) \in Seq(Seq(Nat))
    BY <2>7, <2>8
  <2>10. PICK x \in Seq(Seq(Nat)) : x = SubSeq(ws, n + 1, m) /\ Len(x) <= l
    <3>1. Len(SubSeq(ws, n + 1, m)) = IF n + 1 <= m THEN m - n ELSE 0
      BY <2>7, <2>8
    <3>2. (IF n + 1 <= m THEN m - n ELSE 0) <= l
      BY <2>5, <2>8
    <3> QED
      BY <2>9, <3>1, <3>2
  <2>11. wire' = [wire EXCEPT ![i][s] = x]
    BY <2>6, <2>8, <2>10
  <2>12. /\ wire' \in [Pipes -> [Sides -> Seq(Seq(Nat))]]
         /\ wire'[i][s] = x
         /\ \A j \in Pipes, t \in Sides : j # i \/ t # s => wire'[j][t] = wire[j][t]
    BY <2>3, <2>11, EndExcept
  <2>13. FlattenSeq(SubSeq(ws, 1, n)) \in Seq(Nat)
    BY <2>9, FlattenType
  <2>14. /\ Len(wire'[i][s]) <= Len(wire[i][s])
         /\ Len(wire[i][s]) \in Nat /\ Len(wire'[i][s]) \in Nat
    BY <2>4, <2>5, <2>10, <2>12
  <2>15. \E k \in 1 .. Len(wire[i][s]), c \in Seq(Seq(Nat)) :
           LET w == FlattenSeq(SubSeq(c, 1, k))
           IN  /\ c \in Cuts(wire[i][s], k)
               /\ k \in DOMAIN c
               /\ w \in Seq(Nat)
               /\ ReadCompletes(p, w)
               /\ wire'[i][s] = SubSeq(c, k + 1, Len(c))
    BY <2>4, <2>5, <2>6, <2>7, <2>8, <2>10, <2>12, <2>13
  <2> QED
    BY <1>1, <2>2, <2>12, <2>14, <2>15
<1>2. CASE wire[i][s] = <<>>
  BY <1>2 DEF AsyncRead, portVars
<1> QED
  BY <1>1, <1>2

(***************************************************************************)
(* Invariance: what each step keeps.                                       *)
(***************************************************************************)

\* The types one at a time.
LEMMA Types ==
  ASSUME IInv
  PROVE  /\ phase \in [Pipes -> {"unused", "listening", "connected"}]
         /\ end \in [Pipes -> [Sides -> Procs \union {None}]]
         /\ wire \in [Pipes -> [Sides -> Seq(Seq(Nat))]]
         /\ reading \subseteq Ends
         /\ accepts \subseteq Pipes
         /\ port \in [Procs -> Seq(Completions)]
         /\ buffer \in [Procs -> Seq(Nat)]
         /\ pc \in [Procs -> {"new", "created", "up", "joining", "stopped", "exiting"}]
         /\ worker \in [Procs -> {"none", "check", "run", "callback", "rearm", "ended"}]
         /\ Stopping \in [Procs -> BOOLEAN]
         /\ handle \in [Procs -> Ends \union {None}]
         /\ got \in [Procs -> Completions \union {None}]
         /\ Listeners \in [Procs -> Seq(BOOLEAN)]
         /\ sends \in Nat
         /\ IocpTypeOK /\ Np2TypeOK
  BY DEF IInv, TypeOK, IocpTypeOK, Np2TypeOK

\* A process that has its Pipe has the end open that it is.
LEMMA HandleEnd ==
  ASSUME IInv, NEW p \in Procs, pc[p] \in {"created", "up", "joining"}
  PROVE  \E i \in Pipes, s \in Sides :
           handle[p] = <<i, s>> /\ end[i][s] = p
<1>1. handle[p] # None /\ handle[p] \in Ends \union {None}
  BY Types DEF Np2TypeOK
<1>2. end[handle[p][1]][handle[p][2]] = p
  BY DEF IInv, HandlesInv
<1> QED
  BY <1>1, <1>2 DEF Ends

\* A step of a thread that leaves the instances alone leaves the operations too.
LEMMA OperationsKept ==
  ASSUME OperationsInv, UNCHANGED <<phase, end, wire, reading, accepts, pc, handle>>
  PROVE  OperationsInv'
<1>1. \A i \in Pipes, s \in Sides : Owned(i, s) => Owned(i, s)'
  BY DEF Owned
<1>2. \A i \in Pipes, s \in Sides : Pending(i, Other(s))' = Pending(i, Other(s))
  BY DEF Pending
<1>3. "server" \in Sides
  BY DEF Sides
<1> QED
  BY <1>1, <1>2, <1>3 DEF OperationsInv

\* A step of the main thread that only moves pc on.
LEMMA PcKeeps ==
  ASSUME IInv, NEW p \in Procs, NEW x,
         pc' = [pc EXCEPT ![p] = x],
         \/ pc[p] = "up" /\ x = "joining"
         \/ pc[p] # "new" /\ x = "exiting",
         UNCHANGED <<iocpVars, handle, sends, worker, got, Listeners>>,
         Stopping' \in [Procs -> BOOLEAN]
  PROVE  IInv'
<1>1. UNCHANGED <<phase, end, wire, reading, accepts, port, buffer, written, heard, handle, sends,
                  worker, got, Listeners>>
  BY DEF iocpVars, endVars, opVars, portVars, history
<1>2. /\ pc' \in [Procs -> {"new", "created", "up", "joining", "stopped", "exiting"}]
      /\ pc'[p] = x
      /\ \A q \in Procs : q # p => pc'[q] = pc[q]
  BY Types
<1>3. TypeOK'
  <2>1. IocpTypeOK'
    BY <1>1, Types DEF IocpTypeOK
  <2>2. \A q \in Procs : pc'[q] # "exiting" => (handle'[q] = None <=> pc'[q] \in {"new", "stopped"})
    BY <1>1, <1>2, Types DEF Np2TypeOK
  <2>3. Np2TypeOK'
    BY <1>1, <1>2, <2>2, Types DEF Np2TypeOK
  <2> QED
    BY <2>1, <2>3 DEF TypeOK
<1>4. PipesInv'
  BY <1>1, <1>2 DEF IInv, PipesInv, Pipes
<1>5. \A q \in Procs : Running(q)' => Running(q)
  BY <1>1, <1>2 DEF Running
<1>6. HandlesInv'
  BY <1>1, <1>2, <1>5 DEF IInv, HandlesInv
<1>7. OperationsInv'
  <2>1. ASSUME NEW i \in Pipes, NEW s \in Sides, Owned(i, s)
        PROVE  Owned(i, s)'
    <3>1. end[i][s] \in Procs
      BY <2>1, Types DEF Owned
    <3> QED
      BY <1>1, <1>2, <2>1, <3>1 DEF Owned
  <2>2. \A i \in Pipes, s \in Sides : Pending(i, Other(s))' = Pending(i, Other(s))
    BY <1>1 DEF Pending
  <2>3. "server" \in Sides
    BY DEF Sides
  <2> QED
    BY <1>1, <2>1, <2>2, <2>3 DEF IInv, OperationsInv
<1>8. ThreadInv'
  BY <1>1, <1>2, <1>5 DEF IInv, ThreadInv
<1>9. \A q \in Procs : PeerGone(q)' <=> PeerGone(q)
  BY <1>1 DEF PeerGone
<1>10. PortsInv'
  BY <1>1, <1>5, <1>9 DEF IInv, PortsInv
<1>11. LengthsInv'
  BY <1>1 DEF IInv, LengthsInv
<1>12. ReadChained'
  <2>1. \A q \in Procs : Reads(q)' => Reads(q)
    BY <1>1, <1>5 DEF Reads
  <2> QED
    BY <1>1, <1>9, <2>1 DEF IInv, ReadChained
<1> QED
  BY <1>3, <1>4, <1>6, <1>7, <1>8, <1>10, <1>11, <1>12 DEF IInv

\* A step of the thread that touches nothing but worker, got and Listeners, and takes
\* completions from its port.
LEMMA ThreadKeeps ==
  ASSUME IInv, NEW p \in Procs, Running(p), worker[p] # "none",
         UNCHANGED <<endVars, opVars, buffer, history, mainVars, Stopping>>,
         \A q \in Procs : q # p => /\ worker'[q] = worker[q]
                                   /\ got'[q] = got[q]
                                   /\ port'[q] = port[q]
                                   /\ Listeners'[q] = Listeners[q],
         worker' \in [Procs -> {"check", "run", "callback", "rearm", "ended", "none"}],
         got' \in [Procs -> Completions \union {None}],
         port' \in [Procs -> Seq(Completions)],
         Listeners' \in [Procs -> Seq(BOOLEAN)],
         worker'[p] \in {"callback", "rearm"} => phase[handle[p][1]] = "connected",
         worker'[p] = "callback" => got'[p] \in Completions /\ got'[p].len <= Len(buffer[p]),
         \A n \in DOMAIN port'[p] : \E m \in DOMAIN port[p] : port'[p][n] = port[p][m],
         Len(Listeners'[p]) = Len(Listeners[p]),
         ReadChained'
  PROVE  IInv'
<1>1. UNCHANGED <<phase, end, wire, reading, accepts, buffer, written, heard, pc, handle, sends,
                  Stopping>>
  BY DEF endVars, opVars, history, mainVars
<1>2. TypeOK'
  <2>1. IocpTypeOK'
    BY <1>1, Types DEF IocpTypeOK
  <2>2. Np2TypeOK'
    BY <1>1, Types DEF Np2TypeOK
  <2> QED
    BY <2>1, <2>2 DEF TypeOK
<1>3. PipesInv'
  BY <1>1 DEF IInv, PipesInv
<1>4. \A q \in Procs : Running(q)' <=> Running(q)
  BY <1>1 DEF Running
<1>5. HandlesInv'
  BY <1>1, <1>4 DEF IInv, HandlesInv
<1>6. OperationsInv'
  BY <1>1, OperationsKept DEF IInv
<1>7. ThreadInv'
  <2>1. \A q \in Procs : Len(Listeners'[q]) = Len(Listeners[q])
    OBVIOUS
  <2>2. \A q \in Procs : pc[q] \in {"new", "created"} => q # p
    BY DEF Running
  <2>3. \A q \in Procs : worker'[q] # "none" => worker[q] # "none"
    OBVIOUS
  <2> QED
    BY <1>1, <1>4, <2>1, <2>2, <2>3 DEF IInv, ThreadInv
<1>8. \A q \in Procs : PeerGone(q)' <=> PeerGone(q)
  BY <1>1 DEF PeerGone
<1>9. PortsInv'
  <2>1. ASSUME NEW q \in Procs, Running(q)
        PROVE  worker'[q] \in {"callback", "rearm"} => phase[handle[q][1]] = "connected"
    BY <2>1 DEF IInv, PortsInv
  <2>2. ASSUME NEW q \in Procs, Running(q), NEW n \in DOMAIN port'[q]
        PROVE  IF port'[q][n].op = "fail" THEN PeerGone(q) ELSE phase[handle[q][1]] = "connected"
    <3>1. PICK m \in DOMAIN port[q] : port'[q][n] = port[q][m]
      <4>1. CASE q = p
        BY <4>1
      <4>2. CASE q # p
        BY <4>2
      <4> QED
        BY <4>1, <4>2
    <3> QED
      BY <2>2, <3>1 DEF IInv, PortsInv
  <2> QED
    BY <1>1, <1>4, <1>8, <2>1, <2>2 DEF PortsInv
<1>10. LengthsInv'
  <2>1. ASSUME NEW q \in Procs, NEW n \in DOMAIN port'[q]
        PROVE  port'[q][n].len <= Len(buffer[q])
    <3>1. PICK m \in DOMAIN port[q] : port'[q][n] = port[q][m]
      <4>1. CASE q = p
        BY <4>1
      <4>2. CASE q # p
        BY <4>2
      <4> QED
        BY <4>1, <4>2
    <3> QED
      BY <3>1 DEF IInv, LengthsInv
  <2>2. ASSUME NEW q \in Procs, worker'[q] = "callback"
        PROVE  got'[q] \in Completions /\ got'[q].len <= Len(buffer[q])
    BY <2>2 DEF IInv, LengthsInv
  <2> QED
    BY <1>1, <2>1, <2>2 DEF LengthsInv
<1> QED
  BY <1>2, <1>3, <1>5, <1>6, <1>7, <1>9, <1>10 DEF IInv

\* Stop only moves pc on.
LEMMA StopKeeps ==
  ASSUME IInv, NEW p \in Procs, Stop(p)
  PROVE  IInv'
<1>1. /\ pc[p] = "up" /\ pc' = [pc EXCEPT ![p] = "joining"]
      /\ UNCHANGED <<iocpVars, handle, sends, worker, got, Listeners>>
  BY DEF Stop
<1>2. Stopping' \in [Procs -> BOOLEAN]
  BY Types DEF Stop
<1> QED
  BY <1>1, <1>2, PcKeeps

\* So does the exception of connect.
LEMMA ConnectThrowsKeeps ==
  ASSUME IInv, NEW p \in Procs, ConnectThrows(p)
  PROVE  IInv'
<1>1. /\ pc[p] = "created" /\ pc' = [pc EXCEPT ![p] = "exiting"]
      /\ UNCHANGED <<iocpVars, handle, sends, worker, got, Listeners>>
  BY DEF ConnectThrows, threadVars
<1>2. Stopping' \in [Procs -> BOOLEAN]
  BY Types DEF ConnectThrows, threadVars
<1> QED
  BY <1>1, <1>2, PcKeeps

\* And the end of a process, which leaves everything for the kernel to close.
LEMMA ExitKeeps ==
  ASSUME IInv, NEW p \in Procs, Exit(p)
  PROVE  IInv'
<1>1. /\ pc[p] # "new" /\ pc' = [pc EXCEPT ![p] = "exiting"]
      /\ UNCHANGED <<iocpVars, handle, sends, worker, got, Listeners>>
  BY DEF Exit, threadVars
<1>2. Stopping' \in [Procs -> BOOLEAN]
  BY Types DEF Exit, threadVars
<1> QED
  BY <1>1, <1>2, PcKeeps

\* A step of p's thread leaves alone what keeps another process's reads going.
LEMMA ReadsOfOthers ==
  ASSUME IInv, NEW p \in Procs, NEW q \in Procs, q # p,
         UNCHANGED <<phase, end, reading, pc, handle>>,
         worker'[q] = worker[q], port'[q] = port[q], Listeners'[q] = Listeners[q],
         Reads(q)'
  PROVE  \/ PeerGone(q)'
         \/ worker'[q] \in {"callback", "rearm"}
         \/ handle'[q] \in reading'
         \/ \E n \in DOMAIN port'[q] : port'[q][n].op # "fail"
<1>1. Reads(q)
  BY DEF Reads, Running
<1>2. PeerGone(q) => PeerGone(q)'
  BY DEF PeerGone
<1> QED
  BY <1>1, <1>2 DEF IInv, ReadChained

\* The thread goes into run(), or ends.
LEMMA CheckStoppingKeeps ==
  ASSUME IInv, NEW p \in Procs, CheckStopping(p)
  PROVE  IInv'
<1>1. /\ Running(p) /\ worker[p] = "check"
      /\ worker' = [worker EXCEPT ![p] = IF Stopping[p] THEN "ended" ELSE "run"]
      /\ UNCHANGED <<endVars, opVars, buffer, history, mainVars, Stopping, port, got, Listeners>>
  BY DEF CheckStopping, iocpVars, portVars
<1>2. /\ worker' \in [Procs -> {"check", "run", "callback", "rearm", "ended", "none"}]
      /\ worker'[p] \in {"ended", "run"}
      /\ \A q \in Procs : q # p => worker'[q] = worker[q]
  BY <1>1, Types
<1>3. UNCHANGED <<phase, end, reading, pc, handle, port, Listeners>>
  BY <1>1 DEF endVars, opVars, mainVars
<1>4. ReadChained'
  <2>1. ASSUME NEW q \in Procs, Reads(q)'
        PROVE  \/ PeerGone(q)'
               \/ worker'[q] \in {"callback", "rearm"}
               \/ handle'[q] \in reading'
               \/ \E n \in DOMAIN port'[q] : port'[q][n].op # "fail"
    <3>1. CASE q # p
      BY <1>2, <1>3, <2>1, <3>1, ReadsOfOthers
    <3>2. CASE q = p
      <4>1. Reads(p)
        BY <1>3, <2>1, <3>2 DEF Reads, Running
      <4>2. PeerGone(p) => PeerGone(p)'
        BY <1>3 DEF PeerGone
      <4> QED
        BY <1>1, <1>3, <3>2, <4>1, <4>2 DEF IInv, ReadChained
    <3> QED
      BY <3>1, <3>2
  <2> QED
    BY <2>1 DEF ReadChained
<1>5. /\ got' \in [Procs -> Completions \union {None}]
      /\ port' \in [Procs -> Seq(Completions)]
      /\ Listeners' \in [Procs -> Seq(BOOLEAN)]
  BY <1>1, Types
<1>6. \A n \in DOMAIN port'[p] : \E m \in DOMAIN port[p] : port'[p][n] = port[p][m]
  BY <1>1
<1> QED
  BY <1>1, <1>2, <1>4, <1>5, <1>6, ThreadKeeps

\* The completion that is taken, and those that are left.
LEMMA PortTail ==
  ASSUME NEW f \in [Procs -> Seq(Completions)], NEW p \in Procs, f[p] # <<>>, NEW g,
         g = [f EXCEPT ![p] = Tail(@)]
  PROVE  /\ g \in [Procs -> Seq(Completions)]
         /\ \A q \in Procs : q # p => g[q] = f[q]
         /\ 1 \in DOMAIN f[p] /\ Head(f[p]) = f[p][1] /\ f[p][1] \in Completions
         /\ \A n \in DOMAIN g[p] : n + 1 \in DOMAIN f[p] /\ n # 0 /\ g[p][n] = f[p][n + 1]
         /\ \A n \in DOMAIN f[p] : n # 1 => n - 1 \in DOMAIN g[p]
<1>1. PICK a \in Seq(Completions) : a = f[p]
  OBVIOUS
<1>2. PICK b : b = Tail(a)
  OBVIOUS
<1>3. a # <<>>
  BY <1>1
<1>4. /\ b \in Seq(Completions)
      /\ 1 \in DOMAIN a /\ Head(a) = a[1] /\ a[1] \in Completions
      /\ \A n \in DOMAIN b : n + 1 \in DOMAIN a /\ n # 0 /\ b[n] = a[n + 1]
      /\ \A n \in DOMAIN a : n # 1 => n - 1 \in DOMAIN b
  BY <1>2, <1>3
<1>5. g[p] = b /\ \A q \in Procs : q # p => g[q] = f[q]
  BY <1>1, <1>2
<1>6. g \in [Procs -> Seq(Completions)]
  BY <1>1, <1>2, <1>4
<1> QED
  BY <1>1, <1>4, <1>5, <1>6

\* The completion that run() gets is one that was in the port.
LEMMA GetCompletionKeeps ==
  ASSUME IInv, NEW p \in Procs, GetCompletion(p)
  PROVE  IInv'
<1>1. /\ Running(p) /\ worker[p] = "run" /\ port[p] # <<>>
      /\ got' = [got EXCEPT ![p] = Head(port[p])]
      /\ port' = [port EXCEPT ![p] = Tail(@)]
      /\ worker' = [worker EXCEPT ![p] = IF Head(port[p]).op = "fail" THEN "check" ELSE "callback"]
      /\ UNCHANGED <<endVars, opVars, buffer, history, mainVars, Stopping, Listeners>>
  BY DEF GetCompletion
<1>2. /\ port' \in [Procs -> Seq(Completions)]
      /\ \A q \in Procs : q # p => port'[q] = port[q]
      /\ 1 \in DOMAIN port[p] /\ Head(port[p]) = port[p][1] /\ port[p][1] \in Completions
      /\ \A n \in DOMAIN port'[p] : n + 1 \in DOMAIN port[p] /\ port'[p][n] = port[p][n + 1]
  BY <1>1, Types, PortTail
<1>3. PICK c \in Completions : c = port[p][1] /\ c = Head(port[p])
  BY <1>2
<1>4. /\ worker' \in [Procs -> {"check", "run", "callback", "rearm", "ended", "none"}]
      /\ worker'[p] = IF c.op = "fail" THEN "check" ELSE "callback"
      /\ \A q \in Procs : q # p => worker'[q] = worker[q]
  BY <1>1, <1>3, Types
<1>5. /\ got' \in [Procs -> Completions \union {None}]
      /\ got'[p] = c
      /\ \A q \in Procs : q # p => got'[q] = got[q]
  BY <1>1, <1>3, Types
<1>6. UNCHANGED <<phase, end, reading, pc, handle, Listeners>>
  BY <1>1 DEF endVars, opVars, mainVars
<1>7. IF c.op = "fail" THEN PeerGone(p) ELSE phase[handle[p][1]] = "connected"
  BY <1>1, <1>2, <1>3 DEF IInv, PortsInv
<1>8. c.len <= Len(buffer[p])
  BY <1>2, <1>3 DEF IInv, LengthsInv
<1>9. ReadChained'
  <2>1. ASSUME NEW q \in Procs, Reads(q)'
        PROVE  \/ PeerGone(q)'
               \/ worker'[q] \in {"callback", "rearm"}
               \/ handle'[q] \in reading'
               \/ \E n \in DOMAIN port'[q] : port'[q][n].op # "fail"
    <3>1. CASE q # p
      BY <1>2, <1>4, <1>6, <2>1, <3>1, ReadsOfOthers
    <3>2. CASE q = p
      <4>1. PeerGone(p) => PeerGone(p)'
        BY <1>6 DEF PeerGone
      <4> QED
        BY <1>4, <1>7, <3>2, <4>1
    <3> QED
      BY <3>1, <3>2
  <2> QED
    BY <2>1 DEF ReadChained
<1>10. Listeners' \in [Procs -> Seq(BOOLEAN)] /\ Listeners' = Listeners
  BY <1>1, Types
<1>11. \A n \in DOMAIN port'[p] : \E m \in DOMAIN port[p] : port'[p][n] = port[p][m]
  BY <1>2
<1>12. worker'[p] \in {"callback", "rearm"} => phase[handle[p][1]] = "connected"
  BY <1>4, <1>7
<1>13. worker'[p] = "callback" => got'[p] \in Completions /\ got'[p].len <= Len(buffer[p])
  BY <1>5, <1>8
<1> QED
  BY <1>1, <1>2, <1>4, <1>5, <1>9, <1>10, <1>11, <1>12, <1>13, ThreadKeeps

\* The one Listener becomes Active, and its read is about to be called.
LEMMA OnAcceptKeeps ==
  ASSUME IInv, NEW p \in Procs, OnAccept(p)
  PROVE  IInv'
<1>1. /\ Running(p) /\ worker[p] = "callback"
      /\ Listeners' = [Listeners EXCEPT ![p][Len(Listeners[p])] = TRUE]
      /\ worker' = [worker EXCEPT ![p] = "rearm"]
      /\ UNCHANGED <<endVars, opVars, buffer, history, mainVars, Stopping, port, got>>
  BY DEF OnAccept, Calls, iocpVars, portVars
<1>2. /\ worker' \in [Procs -> {"check", "run", "callback", "rearm", "ended", "none"}]
      /\ worker'[p] = "rearm"
      /\ \A q \in Procs : q # p => worker'[q] = worker[q]
  BY <1>1, Types
<1>3. PICK l \in Seq(BOOLEAN) : l = Listeners[p]
  BY Types
<1>4. PICK k \in Nat : k = Len(l)
  OBVIOUS
<1>5. PICK m : m = [l EXCEPT ![k] = TRUE]
  OBVIOUS
<1>6. m \in Seq(BOOLEAN) /\ Len(m) = k
  <2>1. l \in [1 .. k -> BOOLEAN]
    BY <1>4
  <2>2. m \in [1 .. k -> BOOLEAN]
    BY <1>5, <2>1, Zenon
  <2> QED
    BY <1>4, <2>2
<1>7. /\ Listeners' \in [Procs -> Seq(BOOLEAN)]
      /\ Len(Listeners'[p]) = Len(Listeners[p])
      /\ \A q \in Procs : q # p => Listeners'[q] = Listeners[q]
  <2>1. Listeners' = [Listeners EXCEPT ![p] = m]
    BY <1>1, <1>3, <1>4, <1>5
  <2> QED
    BY <1>3, <1>4, <1>6, <2>1, Types
<1>8. UNCHANGED <<phase, end, reading, pc, handle, port>>
  BY <1>1 DEF endVars, opVars, mainVars
<1>9. ReadChained'
  <2>1. ASSUME NEW q \in Procs, Reads(q)'
        PROVE  \/ PeerGone(q)'
               \/ worker'[q] \in {"callback", "rearm"}
               \/ handle'[q] \in reading'
               \/ \E n \in DOMAIN port'[q] : port'[q][n].op # "fail"
    <3>1. CASE q # p
      BY <1>2, <1>7, <1>8, <2>1, <3>1, ReadsOfOthers
    <3>2. CASE q = p
      BY <1>2, <3>2
    <3> QED
      BY <3>1, <3>2
  <2> QED
    BY <2>1 DEF ReadChained
<1>10. got' \in [Procs -> Completions \union {None}] /\ port' \in [Procs -> Seq(Completions)]
  BY <1>1, Types
<1>11. \A n \in DOMAIN port'[p] : \E i \in DOMAIN port[p] : port'[p][n] = port[p][i]
  BY <1>1
<1>12. phase[handle[p][1]] = "connected"
  BY <1>1 DEF IInv, PortsInv
<1> QED
  BY <1>1, <1>2, <1>7, <1>9, <1>10, <1>11, <1>12, ThreadKeeps

\* A client's first read is about to be called.
LEMMA OnConnectKeeps ==
  ASSUME IInv, NEW p \in Procs, OnConnect(p)
  PROVE  IInv'
<1>1. /\ Running(p) /\ worker[p] = "callback"
      /\ worker' = [worker EXCEPT ![p] = "rearm"]
      /\ UNCHANGED <<endVars, opVars, buffer, history, mainVars, Stopping, port, got, Listeners>>
  BY DEF OnConnect, Calls, iocpVars, portVars
<1>2. /\ worker' \in [Procs -> {"check", "run", "callback", "rearm", "ended", "none"}]
      /\ worker'[p] = "rearm"
      /\ \A q \in Procs : q # p => worker'[q] = worker[q]
  BY <1>1, Types
<1>3. UNCHANGED <<phase, end, reading, pc, handle, port, Listeners>>
  BY <1>1 DEF endVars, opVars, mainVars
<1>4. ReadChained'
  <2>1. ASSUME NEW q \in Procs, Reads(q)'
        PROVE  \/ PeerGone(q)'
               \/ worker'[q] \in {"callback", "rearm"}
               \/ handle'[q] \in reading'
               \/ \E n \in DOMAIN port'[q] : port'[q][n].op # "fail"
    <3>1. CASE q # p
      BY <1>2, <1>3, <2>1, <3>1, ReadsOfOthers
    <3>2. CASE q = p
      BY <1>2, <3>2
    <3> QED
      BY <3>1, <3>2
  <2> QED
    BY <2>1 DEF ReadChained
<1>5. /\ got' \in [Procs -> Completions \union {None}]
      /\ port' \in [Procs -> Seq(Completions)]
      /\ Listeners' \in [Procs -> Seq(BOOLEAN)]
  BY <1>1, Types
<1>6. \A n \in DOMAIN port'[p] : \E i \in DOMAIN port[p] : port'[p][n] = port[p][i]
  BY <1>1
<1>7. phase[handle[p][1]] = "connected"
  BY <1>1 DEF IInv, PortsInv
<1> QED
  BY <1>1, <1>2, <1>4, <1>5, <1>6, <1>7, ThreadKeeps

\* A new instance has its server end open, and nothing else.
LEMMA StartKeeps ==
  ASSUME IInv, NEW p \in Procs, Start(p)
  PROVE  IInv'
<1> USE DEF Pipes
<1>1. /\ pc[p] = "new"
      /\ phase' = [phase EXCEPT ![p] = "listening"]
      /\ end' = [end EXCEPT ![p]["server"] = p]
      /\ UNCHANGED <<wire, reading, accepts, port, buffer, written, heard>>
      /\ handle' = [handle EXCEPT ![p] = <<p, "server">>]
      /\ Stopping' = [Stopping EXCEPT ![p] = FALSE]
      /\ pc' = [pc EXCEPT ![p] = "created"]
      /\ UNCHANGED <<worker, got, Listeners, sends>>
  BY DEF Start, NewPipe, opVars, portVars, history
<1>2. /\ phase' \in [Pipes -> {"unused", "listening", "connected"}]
      /\ phase'[p] = "listening"
      /\ \A i \in Pipes : i # p => phase'[i] = phase[i]
  BY <1>1, Types
<1>3. "server" \in Sides /\ "client" \in Sides /\ "client" # "server"
  BY DEF Sides
<1>4. /\ end' \in [Pipes -> [Sides -> Procs \union {None}]]
      /\ end'[p]["server"] = p
      /\ \A i \in Pipes, s \in Sides : i # p \/ s # "server" => end'[i][s] = end[i][s]
  <2>1. p \in Procs \union {None} /\ end \in [Pipes -> [Sides -> Procs \union {None}]]
    BY Types
  <2> QED
    BY <1>1, <1>3, <2>1, EndExcept
<1>5. /\ pc' \in [Procs -> {"new", "created", "up", "joining", "stopped", "exiting"}]
      /\ pc'[p] = "created"
      /\ \A q \in Procs : q # p => pc'[q] = pc[q]
  BY <1>1, Types
<1>6. /\ handle' \in [Procs -> Ends \union {None}]
      /\ handle'[p] = <<p, "server">>
      /\ \A q \in Procs : q # p => handle'[q] = handle[q]
  BY <1>1, <1>3, Types DEF Ends
<1>7. phase[p] = "unused" /\ end[p]["server"] = None /\ end[p]["client"] = None
  BY <1>1 DEF IInv, PipesInv
<1>8. None # p /\ None \notin Procs /\ None \notin Ends
  BY IocpAssumption DEF Ends, Sides
<1>9. TypeOK'
  <2>1. IocpTypeOK'
    BY <1>1, <1>2, <1>4, Types DEF IocpTypeOK
  <2>2. \A q \in Procs : pc'[q] # "exiting" => (handle'[q] = None <=> pc'[q] \in {"new", "stopped"})
    <3>1. handle'[p] \in Ends
      BY <1>3, <1>6 DEF Ends
    <3>2. handle'[p] # None /\ pc'[p] = "created"
      BY <1>5, <1>8, <3>1
    <3>3. \A q \in Procs : pc[q] # "exiting" => (handle[q] = None <=> pc[q] \in {"new", "stopped"})
      BY Types DEF Np2TypeOK
    <3> QED
      BY <1>5, <1>6, <3>2, <3>3
  <2>3. Stopping' \in [Procs -> BOOLEAN]
    BY <1>1, Types
  <2>4. Np2TypeOK'
    BY <1>1, <1>5, <1>6, <2>2, <2>3, Types DEF Np2TypeOK
  <2> QED
    BY <2>1, <2>4 DEF TypeOK
<1>10. PipesInv'
  BY <1>2, <1>3, <1>4, <1>5, <1>7 DEF IInv, PipesInv
<1>11. \A q \in Procs : Running(q)' => Running(q) /\ q # p
  BY <1>5 DEF Running
<1>12. ASSUME NEW q \in Procs, q # p, pc[q] \in {"created", "up", "joining"}
       PROVE  \E i \in Pipes, s \in Sides :
                /\ handle[q] = <<i, s>> /\ end[i][s] = q
                /\ i # p \/ s # "server"
                /\ end'[i][s] = q
  BY <1>4, <1>7, <1>8, <1>12, HandleEnd
<1>13. HandlesInv'
  <2>1. ASSUME NEW q \in Procs
        PROVE  /\ pc'[q] = "created" => handle'[q] = <<q, "server">>
               /\ pc'[q] \in {"created", "up", "joining"} => end'[handle'[q][1]][handle'[q][2]] = q
               /\ q \in Servers /\ handle'[q] # None => handle'[q] = <<q, "server">>
    <3>1. CASE q = p
      BY <1>4, <1>6, <3>1
    <3>2. CASE q # p
      BY <1>5, <1>6, <1>12, <3>2 DEF IInv, HandlesInv
    <3> QED
      BY <3>1, <3>2
  <2>2. ASSUME NEW q \in Procs, q \in Clients, Running(q)'
        PROVE  handle'[q][2] = "client" /\ phase'[handle'[q][1]] = "connected"
    <3>1. Running(q) /\ q # p
      BY <1>11, <2>2
    <3>2. handle[q][2] = "client" /\ phase[handle[q][1]] = "connected"
      BY <2>2, <3>1 DEF IInv, HandlesInv
    <3>3. handle[q][1] \in Pipes
      BY <3>1, HandleEnd DEF Running
    <3> QED
      BY <1>2, <1>6, <1>7, <3>1, <3>2, <3>3
  <2> QED
    BY <2>1, <2>2 DEF HandlesInv
<1>14. OperationsInv'
  <2>1. ASSUME NEW i \in Pipes, NEW s \in Sides, Owned(i, s)
        PROVE  Owned(i, s)' /\ (i # p \/ s # "server")
    <3>1. end[i][s] # None /\ end[i][s] # p
      BY <1>1, <2>1 DEF Owned
    <3>2. end[i][s] \in Procs
      BY <3>1, Types
    <3>3. i # p \/ s # "server"
      BY <1>7, <3>1
    <3> QED
      BY <1>4, <1>5, <1>6, <2>1, <3>1, <3>2, <3>3 DEF Owned
  <2>2. \A i \in Pipes, s \in Sides : Pending(i, Other(s))' = Pending(i, Other(s))
    BY <1>1 DEF Pending
  <2>3. \A i \in Pipes, s \in Sides : end[i][s] # None => end'[i][s] # None
    BY <1>4, <1>8
  <2>4. \A i \in Pipes : phase[i] # "unused" => phase'[i] = phase[i]
    BY <1>2, <1>7
  <2>5. \A s \in Sides : Other(s) \in Sides
    BY Others
  <2>6. OperationsInv
    BY DEF IInv
  <2> QED
    BY <1>1, <1>3, <2>1, <2>2, <2>3, <2>4, <2>5, <2>6 DEF OperationsInv
<1>15. ThreadInv'
  <2>1. worker[p] = "none" /\ port[p] = <<>> /\ Listeners[p] = <<>>
    BY <1>1 DEF IInv, ThreadInv
  <2>2. \A q \in Procs : worker'[q] # "none" => pc'[q] \in {"up", "joining", "exiting"}
    BY <1>1, <1>5, <2>1 DEF IInv, ThreadInv
  <2>3. \A q \in Procs : pc'[q] \in {"new", "created"} => port'[q] = <<>> /\ Listeners'[q] = <<>>
    BY <1>1, <1>5, <2>1 DEF IInv, ThreadInv
  <2> QED
    BY <1>1, <1>11, <2>2, <2>3 DEF IInv, ThreadInv
<1>16. ASSUME NEW q \in Procs, Running(q)'
       PROVE  /\ handle'[q] = handle[q]
              /\ phase[handle[q][1]] = "connected" => phase'[handle[q][1]] = "connected"
              /\ PeerGone(q) => PeerGone(q)'
  <2>1. Running(q) /\ q # p
    BY <1>11, <1>16
  <2>2. PICK i \in Pipes, s \in Sides : handle[q] = <<i, s>>
    BY <2>1, HandleEnd DEF Running
  <2>3. handle'[q] = <<i, s>>
    BY <1>6, <2>1, <2>2
  <2>4. phase[i] = "connected" =>
          /\ phase'[i] = "connected"
          /\ \A t \in Sides : end'[i][t] = end[i][t]
    BY <1>2, <1>4, <1>7
  <2>5. Other(s) \in Sides
    BY Others
  <2> QED
    BY <2>2, <2>3, <2>4, <2>5 DEF PeerGone
<1>17. PortsInv'
  BY <1>1, <1>11, <1>16 DEF IInv, PortsInv
<1>18. LengthsInv'
  BY <1>1 DEF IInv, LengthsInv
<1>19. ReadChained'
  <2>1. \A q \in Procs : Reads(q)' => Reads(q) /\ Running(q)'
    BY <1>1, <1>11 DEF Reads
  <2> QED
    BY <1>1, <1>16, <2>1 DEF IInv, ReadChained
<1> QED
  BY <1>9, <1>10, <1>13, <1>14, <1>15, <1>17, <1>18, <1>19 DEF IInv

\* A ConnectNamedPipe is outstanding, unless a client is there already.
LEMMA AcceptConnectionKeeps ==
  ASSUME IInv, NEW p \in Procs, AcceptConnection(p)
  PROVE  IInv'
<1> USE DEF Pipes
<1>1. /\ p \in Servers /\ pc[p] = "created"
      /\ AsyncAccept(handle[p][1])
      /\ Listeners' = [Listeners EXCEPT ![p] = Append(@, FALSE)]
      /\ worker' = [worker EXCEPT ![p] = "check"]
      /\ pc' = [pc EXCEPT ![p] = "up"]
      /\ UNCHANGED <<phase, end, port, buffer, written, heard, got, Stopping, handle, sends>>
  BY DEF AcceptConnection, endVars, portVars, history
<1>2. handle[p] = <<p, "server">> /\ end[p]["server"] = p
  BY <1>1, HandleEnd DEF IInv, HandlesInv
<1>3. /\ accepts' = IF phase[p] = "listening" THEN accepts \union {p} ELSE accepts
      /\ UNCHANGED <<wire, reading>>
  BY <1>1, <1>2 DEF AsyncAccept
<1>4. /\ pc' \in [Procs -> {"new", "created", "up", "joining", "stopped", "exiting"}]
      /\ pc'[p] = "up"
      /\ \A q \in Procs : q # p => pc'[q] = pc[q]
  BY <1>1, Types
<1>5. /\ worker' \in [Procs -> {"none", "check", "run", "callback", "rearm", "ended"}]
      /\ worker'[p] = "check"
      /\ \A q \in Procs : q # p => worker'[q] = worker[q]
  BY <1>1, Types
<1>6. port[p] = <<>> /\ Listeners[p] = <<>>
  BY <1>1 DEF IInv, ThreadInv
<1>7. /\ Listeners' \in [Procs -> Seq(BOOLEAN)]
      /\ Len(Listeners'[p]) = 1 /\ ~Last(Listeners'[p])
      /\ \A q \in Procs : q # p => Listeners'[q] = Listeners[q]
  <2>1. Listeners' = [Listeners EXCEPT ![p] = <<FALSE>>]
    BY <1>1, <1>6
  <2>2. <<FALSE>> \in Seq(BOOLEAN)
    OBVIOUS
  <2>3. Len(<<FALSE>>) = 1 /\ ~Last(<<FALSE>>)
    BY DEF Last
  <2> QED
    BY <2>1, <2>2, <2>3, Types
<1>8. TypeOK'
  <2>1. IocpTypeOK'
    BY <1>1, <1>3, Types DEF IocpTypeOK
  <2>2. \A q \in Procs : pc'[q] # "exiting" => (handle'[q] = None <=> pc'[q] \in {"new", "stopped"})
    BY <1>1, <1>4, Types DEF Np2TypeOK
  <2>3. Np2TypeOK'
    BY <1>1, <1>4, <1>5, <1>7, <2>2, Types DEF Np2TypeOK
  <2> QED
    BY <2>1, <2>3 DEF TypeOK
<1>9. PipesInv'
  BY <1>1, <1>4 DEF IInv, PipesInv
<1>10. \A q \in Procs : Running(q)' => (Running(q) /\ pc'[q] = pc[q]) \/ q = p
  BY <1>4 DEF Running
<1>11. p \notin Clients
  BY <1>1 DEF Clients
<1>12. HandlesInv'
  <2>1. \A q \in Procs : pc'[q] = "created" => pc[q] = "created"
    BY <1>4
  <2>2. \A q \in Procs : pc'[q] \in {"created", "up", "joining"} => pc[q] \in {"created", "up", "joining"}
    BY <1>1, <1>4
  <2>3. \A q \in Procs : q \in Clients /\ Running(q)' => Running(q)
    BY <1>10, <1>11
  <2> QED
    BY <1>1, <2>1, <2>2, <2>3 DEF IInv, HandlesInv
<1>13. OperationsInv'
  <2>1. ASSUME NEW i \in Pipes, NEW s \in Sides, Owned(i, s)
        PROVE  Owned(i, s)'
    <3>1. end[i][s] # None /\ end[i][s] # p
      BY <1>1, <2>1 DEF Owned
    <3>2. end[i][s] \in Procs
      BY <3>1, Types
    <3> QED
      BY <1>1, <1>4, <2>1, <3>1, <3>2 DEF Owned
  <2>2. Owned(p, "server")'
    <3>1. end'[p]["server"] = p /\ handle'[p] = <<p, "server">> /\ p # None
      BY <1>1, <1>2, IocpAssumption
    <3> QED
      BY <1>4, <3>1 DEF Owned
  <2>3. \A i \in Pipes, s \in Sides : Pending(i, Other(s))' = Pending(i, Other(s))
    BY <1>3 DEF Pending
  <2>4. \A i \in Pipes : i \in accepts' => i \in accepts \/ (i = p /\ phase[p] = "listening")
    BY <1>3
  <2>5. "server" \in Sides
    BY DEF Sides
  <2>6. OperationsInv
    BY DEF IInv
  <2> QED
    BY <1>1, <1>3, <2>1, <2>2, <2>3, <2>4, <2>5, <2>6, ZenonT(30) DEF OperationsInv
<1>14. ThreadInv'
  <2>1. \A q \in Procs : worker'[q] # "none" => pc'[q] \in {"up", "joining", "exiting"}
    BY <1>4, <1>5 DEF IInv, ThreadInv
  <2>2. \A q \in Procs : pc'[q] \in {"new", "created"} => q # p /\ pc[q] \in {"new", "created"}
    BY <1>4
  <2>3. \A q \in Procs : pc'[q] \in {"new", "created"} => port'[q] = <<>> /\ Listeners'[q] = <<>>
    BY <1>1, <1>7, <2>2 DEF IInv, ThreadInv
  <2>4. \A q \in Procs : q \in Servers /\ Running(q)' => Len(Listeners'[q]) = 1
    BY <1>7, <1>10 DEF IInv, ThreadInv
  <2>5. ASSUME NEW q \in Procs
        PROVE  Len(Listeners'[q]) <= 1
    <3>1. CASE q = p
      <4>1. Len(Listeners'[q]) = 1
        BY <1>7, <3>1
      <4> QED
        BY <4>1
    <3>2. CASE q # p
      <4>1. Listeners'[q] = Listeners[q]
        BY <1>7, <3>2
      <4> QED
        BY <4>1 DEF IInv, ThreadInv
    <3> QED
      BY <3>1, <3>2
  <2> QED
    BY <2>1, <2>3, <2>4, <2>5 DEF ThreadInv
<1>15. \A q \in Procs : PeerGone(q)' <=> PeerGone(q)
  BY <1>1 DEF PeerGone
<1>16. PortsInv'
  <2>1. ASSUME NEW q \in Procs, Running(q)'
        PROVE  /\ worker'[q] \in {"callback", "rearm"} => phase'[handle'[q][1]] = "connected"
               /\ \A n \in DOMAIN port'[q] :
                    IF port'[q][n].op = "fail" THEN PeerGone(q)'
                                               ELSE phase'[handle'[q][1]] = "connected"
    <3>1. CASE q = p
      BY <1>1, <1>5, <1>6, <3>1
    <3>2. CASE q # p
      <4>1. Running(q)
        BY <1>10, <2>1, <3>2
      <4> QED
        BY <1>1, <1>5, <1>15, <3>2, <4>1 DEF IInv, PortsInv
    <3> QED
      BY <3>1, <3>2
  <2> QED
    BY <2>1 DEF PortsInv
<1>17. LengthsInv'
  <2>1. \A q \in Procs : worker'[q] = "callback" => worker[q] = "callback"
    BY <1>5
  <2> QED
    BY <1>1, <2>1 DEF IInv, LengthsInv
<1>18. ReadChained'
  <2>1. ASSUME NEW q \in Procs, Reads(q)'
        PROVE  q # p /\ Reads(q)
    <3>1. q # p
      BY <1>7, <1>11, <2>1 DEF Reads
    <3> QED
      BY <1>7, <1>10, <2>1, <3>1 DEF Reads
  <2> QED
    BY <1>1, <1>3, <1>5, <1>15, <2>1 DEF IInv, ReadChained
<1> QED
  BY <1>8, <1>9, <1>12, <1>13, <1>14, <1>16, <1>17, <1>18 DEF IInv

\* AsyncConnect: p's port is told that it is connected, and that of the server if its
\* ConnectNamedPipe was outstanding.
LEMMA ConnectPorts ==
  ASSUME port \in [Procs -> Seq(Completions)], NEW p \in Procs, NEW i \in Pipes,
         end[i]["server"] = i, AsyncConnect(p, i)
  PROVE  /\ port' \in [Procs -> Seq(Completions)]
         /\ \E n \in DOMAIN port'[p] : port'[p][n] = Completion("connect", 0)
         /\ i \in accepts =>
              \E n \in DOMAIN port'[i] : port'[i][n] = Completion("accept", 0)
         /\ \A q \in Procs :
              /\ \A n \in DOMAIN port[q] : n \in DOMAIN port'[q] /\ port'[q][n] = port[q][n]
              /\ \A n \in DOMAIN port'[q] \ DOMAIN port[q] :
                   \/ q = p /\ port'[q][n] = Completion("connect", 0)
                   \/ q = i /\ i \in accepts /\ port'[q][n] = Completion("accept", 0)
              /\ q # p /\ q # i => port'[q] = port[q]
              /\ q # p /\ i \notin accepts => port'[q] = port[q]
         /\ p # i \/ i \notin accepts =>
              \A q \in Procs : \A m, n \in DOMAIN port'[q] \ DOMAIN port[q] : m = n
<1> USE DEF Pipes
<1>1. PICK a \in Completions, c \in Completions :
        a = Completion("accept", 0) /\ c = Completion("connect", 0)
  <2>1. Completion("accept", 0) \in Completions /\ Completion("connect", 0) \in Completions
    BY DEF Completion, Completions
  <2> QED
    BY <2>1
<1>2. PICK f : f = IF i \in accepts THEN [port EXCEPT ![i] = Append(@, a)] ELSE port
  OBVIOUS
<1>3. port' = [f EXCEPT ![p] = Append(@, c)]
  BY <1>1, <1>2 DEF AsyncConnect
<1>4. /\ f \in [Procs -> Seq(Completions)]
      /\ \A q \in Procs : q # i => f[q] = port[q]
      /\ i \notin accepts => f = port
      /\ \A n \in DOMAIN port[i] : n \in DOMAIN f[i] /\ f[i][n] = port[i][n]
      /\ \A n \in DOMAIN f[i] \ DOMAIN port[i] : i \in accepts /\ f[i][n] = a
      /\ i \in accepts => \E n \in DOMAIN f[i] : f[i][n] = a
      /\ \A m, n \in DOMAIN f[i] \ DOMAIN port[i] : m = n
  <2>1. CASE i \in accepts
    <3>1. f = [port EXCEPT ![i] = Append(@, a)]
      BY <1>2, <2>1
    <3>2. /\ f \in [Procs -> Seq(Completions)]
          /\ \A q \in Procs : q # i => f[q] = port[q]
          /\ DOMAIN f[i] = DOMAIN port[i] \union {Len(port[i]) + 1}
          /\ f[i][Len(port[i]) + 1] = a
          /\ \A n \in DOMAIN port[i] : f[i][n] = port[i][n]
      BY <3>1, PortAppend
    <3> QED
      BY <2>1, <3>2
  <2>2. CASE i \notin accepts
    BY <1>2, <2>2
  <2> QED
    BY <2>1, <2>2
<1>5. /\ port' \in [Procs -> Seq(Completions)]
      /\ \A q \in Procs : q # p => port'[q] = f[q]
      /\ DOMAIN port'[p] = DOMAIN f[p] \union {Len(f[p]) + 1}
      /\ port'[p][Len(f[p]) + 1] = c
      /\ \A n \in DOMAIN f[p] : port'[p][n] = f[p][n]
  BY <1>3, <1>4, PortAppend
<1>6. /\ \A n \in DOMAIN f[p] : n \in DOMAIN port'[p] /\ port'[p][n] = f[p][n]
      /\ \A n \in DOMAIN port'[p] \ DOMAIN f[p] : port'[p][n] = c
      /\ \E n \in DOMAIN port'[p] : port'[p][n] = c
  BY <1>5
<1>7. i \in accepts => \E n \in DOMAIN port'[i] : port'[i][n] = a
  <2>1. CASE i = p
    BY <1>4, <1>6, <2>1
  <2>2. CASE i # p
    BY <1>4, <1>5, <2>2
  <2> QED
    BY <2>1, <2>2
<1>8. ASSUME NEW q \in Procs
      PROVE  /\ \A n \in DOMAIN port[q] : n \in DOMAIN port'[q] /\ port'[q][n] = port[q][n]
             /\ \A n \in DOMAIN port'[q] \ DOMAIN port[q] :
                  \/ q = p /\ port'[q][n] = c
                  \/ q = i /\ i \in accepts /\ port'[q][n] = a
             /\ q # p /\ q # i => port'[q] = port[q]
             /\ q # p /\ i \notin accepts => port'[q] = port[q]
  <2>1. CASE q = p /\ q = i
    BY <1>4, <1>6, <2>1
  <2>2. CASE q = p /\ q # i
    BY <1>4, <1>6, <2>2
  <2>3. CASE q # p /\ q = i
    BY <1>4, <1>5, <2>3
  <2>4. CASE q # p /\ q # i
    BY <1>4, <1>5, <2>4
  <2> QED
    BY <2>1, <2>2, <2>3, <2>4
<1>9. ASSUME NEW q \in Procs, p # i \/ i \notin accepts
      PROVE  \A m, n \in DOMAIN port'[q] \ DOMAIN port[q] : m = n
  <2>1. CASE q = p
    <3>1. f[p] = port[p]
      BY <1>4, <1>9
    <3> QED
      BY <1>5, <2>1, <3>1
  <2>2. CASE q # p
    <3>1. port'[q] = f[q]
      BY <1>5, <2>2
    <3> QED
      BY <1>4, <3>1
  <2> QED
    BY <2>1, <2>2
<1> QED
  BY <1>1, <1>5, <1>6, <1>7, <1>8, <1>9

\* A client has its end open, and both ports are told.
LEMMA ConnectAsyncKeeps ==
  ASSUME IInv, NEW p \in Procs, ConnectAsync(p)
  PROVE  IInv'
<1> USE DEF Pipes
<1>1. PICK i \in Pipes :
        /\ Connectable(i)
        /\ AsyncConnect(p, i)
        /\ handle' = [handle EXCEPT ![p] = <<i, "client">>]
  BY DEF ConnectAsync
<1>2. /\ p \in Clients /\ pc[p] = "created"
      /\ worker' = [worker EXCEPT ![p] = "check"]
      /\ pc' = [pc EXCEPT ![p] = "up"]
      /\ UNCHANGED <<got, Stopping, Listeners, sends>>
  BY DEF ConnectAsync
<1>3. /\ phase' = [phase EXCEPT ![i] = "connected"]
      /\ end' = [end EXCEPT ![i]["client"] = p]
      /\ accepts' = accepts \ {i}
      /\ UNCHANGED <<wire, reading, buffer, written, heard>>
  BY <1>1 DEF AsyncConnect, history
<1>4. "server" \in Sides /\ "client" \in Sides /\ "client" # "server"
  BY DEF Sides
<1>5. phase[i] = "listening" /\ end[i]["server"] = i /\ end[i]["client"] = None
  <2>1. phase[i] = "listening" /\ end[i]["server"] # None
    BY <1>1 DEF Connectable
  <2> QED
    BY <2>1 DEF IInv, PipesInv
<1>6. /\ phase' \in [Pipes -> {"unused", "listening", "connected"}]
      /\ phase'[i] = "connected"
      /\ \A j \in Pipes : j # i => phase'[j] = phase[j]
  BY <1>3, Types
<1>7. /\ end' \in [Pipes -> [Sides -> Procs \union {None}]]
      /\ end'[i]["client"] = p
      /\ \A j \in Pipes, s \in Sides : j # i \/ s # "client" => end'[j][s] = end[j][s]
  <2>1. p \in Procs \union {None} /\ end \in [Pipes -> [Sides -> Procs \union {None}]]
    BY Types
  <2> QED
    BY <1>3, <1>4, <2>1, EndExcept
<1>8. /\ pc' \in [Procs -> {"new", "created", "up", "joining", "stopped", "exiting"}]
      /\ pc'[p] = "up"
      /\ \A q \in Procs : q # p => pc'[q] = pc[q]
  BY <1>2, Types
<1>9. /\ handle' \in [Procs -> Ends \union {None}]
      /\ handle'[p] = <<i, "client">>
      /\ \A q \in Procs : q # p => handle'[q] = handle[q]
  BY <1>1, <1>4, Types DEF Ends
<1>10. /\ worker' \in [Procs -> {"none", "check", "run", "callback", "rearm", "ended"}]
       /\ worker'[p] = "check"
       /\ \A q \in Procs : q # p => worker'[q] = worker[q]
  BY <1>2, Types
<1>11. None # p /\ None \notin Procs /\ None \notin Ends
  BY IocpAssumption DEF Ends, Sides
<1>12. /\ port' \in [Procs -> Seq(Completions)]
       /\ \E n \in DOMAIN port'[p] : port'[p][n] = Completion("connect", 0)
       /\ \A q \in Procs :
            /\ \A n \in DOMAIN port[q] : n \in DOMAIN port'[q] /\ port'[q][n] = port[q][n]
            /\ \A n \in DOMAIN port'[q] \ DOMAIN port[q] :
                 \/ q = p /\ port'[q][n] = Completion("connect", 0)
                 \/ q = i /\ i \in accepts /\ port'[q][n] = Completion("accept", 0)
            /\ q # p /\ q # i => port'[q] = port[q]
            /\ q # p /\ i \notin accepts => port'[q] = port[q]
  BY <1>1, <1>5, Types, ConnectPorts
<1>13. i \in accepts => handle[i] = <<i, "server">> /\ pc[i] \notin {"new", "created"} /\ i # p
  <2>1. i \in accepts => Owned(i, "server")
    BY <1>4 DEF IInv, OperationsInv
  <2> QED
    BY <1>2, <1>5, <2>1 DEF Owned
<1>14. port[p] = <<>>
  BY <1>2 DEF IInv, ThreadInv
<1>15. TypeOK'
  <2>1. IocpTypeOK'
    BY <1>3, <1>6, <1>7, <1>12, Types DEF IocpTypeOK
  <2>2. \A q \in Procs : pc'[q] # "exiting" => (handle'[q] = None <=> pc'[q] \in {"new", "stopped"})
    <3>1. handle'[p] \in Ends
      BY <1>4, <1>9 DEF Ends
    <3>2. handle'[p] # None /\ pc'[p] = "up"
      BY <1>8, <1>11, <3>1
    <3>3. \A q \in Procs : pc[q] # "exiting" => (handle[q] = None <=> pc[q] \in {"new", "stopped"})
      BY Types DEF Np2TypeOK
    <3> QED
      BY <1>8, <1>9, <3>2, <3>3
  <2>3. Np2TypeOK'
    BY <1>2, <1>8, <1>9, <1>10, <2>2, Types DEF Np2TypeOK
  <2> QED
    BY <2>1, <2>3 DEF TypeOK
<1>16. PipesInv'
  BY <1>4, <1>5, <1>6, <1>7, <1>8, <1>11 DEF IInv, PipesInv
<1>17. \A q \in Procs : Running(q)' => Running(q) \/ q = p
  BY <1>8 DEF Running
<1>18. ASSUME NEW q \in Procs, pc[q] \in {"created", "up", "joining"}
       PROVE  \E j \in Pipes, s \in Sides :
                /\ handle[q] = <<j, s>> /\ end[j][s] = q
                /\ j # i \/ s # "client"
                /\ end'[j][s] = q
  BY <1>5, <1>7, <1>11, <1>18, HandleEnd
<1>19. HandlesInv'
  <2>1. ASSUME NEW q \in Procs
        PROVE  /\ pc'[q] = "created" => handle'[q] = <<q, "server">>
               /\ pc'[q] \in {"created", "up", "joining"} => end'[handle'[q][1]][handle'[q][2]] = q
               /\ q \in Servers /\ handle'[q] # None => handle'[q] = <<q, "server">>
    <3>1. CASE q = p
      BY <1>2, <1>7, <1>8, <1>9, <3>1 DEF Clients
    <3>2. CASE q # p
      BY <1>8, <1>9, <1>18, <3>2 DEF IInv, HandlesInv
    <3> QED
      BY <3>1, <3>2
  <2>2. ASSUME NEW q \in Procs, q \in Clients, Running(q)'
        PROVE  handle'[q][2] = "client" /\ phase'[handle'[q][1]] = "connected"
    <3>1. CASE q = p
      BY <1>6, <1>9, <3>1
    <3>2. CASE q # p
      <4>1. Running(q)
        BY <1>17, <2>2, <3>2
      <4>2. handle[q][2] = "client" /\ phase[handle[q][1]] = "connected"
        BY <2>2, <4>1 DEF IInv, HandlesInv
      <4>3. handle[q][1] \in Pipes
        BY <4>1, HandleEnd DEF Running
      <4> QED
        BY <1>6, <1>9, <3>2, <4>2, <4>3
    <3> QED
      BY <3>1, <3>2
  <2> QED
    BY <2>1, <2>2 DEF HandlesInv
<1>20. OperationsInv'
  <2>1. ASSUME NEW j \in Pipes, NEW s \in Sides, Owned(j, s)
        PROVE  Owned(j, s)'
    <3>1. end[j][s] # None /\ end[j][s] # p
      BY <1>2, <2>1 DEF Owned
    <3>2. end[j][s] \in Procs
      BY <3>1, Types
    <3>3. j # i \/ s # "client"
      BY <1>5, <3>1
    <3> QED
      BY <1>7, <1>8, <1>9, <2>1, <3>1, <3>2, <3>3 DEF Owned
  <2>2. \A j \in Pipes, s \in Sides : Pending(j, Other(s))' = Pending(j, Other(s))
    BY <1>3 DEF Pending
  <2>3. \A j \in Pipes, s \in Sides : end[j][s] # None => end'[j][s] # None
    BY <1>7, <1>11
  <2>4. \A j \in Pipes : phase[j] = "connected" => phase'[j] = "connected"
    BY <1>6
  <2>5. \A s \in Sides : Other(s) \in Sides
    BY Others
  <2>6. OperationsInv
    BY DEF IInv
  <2>7. \A j \in Pipes : j \in accepts' => j \in accepts /\ phase'[j] = phase[j]
    BY <1>3, <1>6
  <2>8. ASSUME NEW j \in Pipes, NEW s \in Sides
        PROVE  /\ <<j, s>> \in reading =>
                    /\ Owned(j, s)' /\ phase'[j] = "connected" /\ end'[j][Other(s)] # None
                    /\ wire[j][s] = <<>>
               /\ Pending(j, Other(s)) > 0 => Owned(j, s)'
               /\ wire[j][s] # <<>> => phase'[j] = "connected" /\ end'[j][s] # None
    BY <2>1, <2>3, <2>4, <2>5, <2>6 DEF OperationsInv
  <2>9. \A j \in Pipes : j \in accepts' => Owned(j, "server")' /\ phase'[j] = "listening"
    BY <1>4, <2>1, <2>6, <2>7 DEF OperationsInv
  <2> QED
    BY <1>3, <2>2, <2>8, <2>9 DEF OperationsInv
<1>21. ThreadInv'
  <2>1. \A q \in Procs : worker'[q] # "none" => pc'[q] \in {"up", "joining", "exiting"}
    BY <1>8, <1>10 DEF IInv, ThreadInv
  <2>2. \A q \in Procs : pc'[q] \in {"new", "created"} => port'[q] = <<>> /\ Listeners'[q] = <<>>
    <3>1. \A q \in Procs : pc'[q] \in {"new", "created"} => q # p /\ pc[q] \in {"new", "created"}
      BY <1>8
    <3>2. \A q \in Procs : pc'[q] \in {"new", "created"} => port'[q] = port[q]
      BY <1>12, <1>13, <3>1
    <3> QED
      BY <1>2, <3>1, <3>2 DEF IInv, ThreadInv
  <2>3. p \notin Servers
    BY <1>2 DEF Clients
  <2> QED
    BY <1>2, <1>17, <2>1, <2>2, <2>3 DEF IInv, ThreadInv
<1>22. ASSUME NEW q \in Procs, Running(q), q # p
       PROVE  /\ handle'[q] = handle[q]
              /\ phase[handle[q][1]] = "connected" => phase'[handle[q][1]] = "connected"
              /\ PeerGone(q) => PeerGone(q)'
  <2>1. PICK j \in Pipes, s \in Sides : handle[q] = <<j, s>>
    BY <1>22, HandleEnd DEF Running
  <2>2. handle'[q] = <<j, s>>
    BY <1>9, <1>22, <2>1
  <2>3. phase[j] = "connected" =>
          /\ phase'[j] = "connected"
          /\ \A t \in Sides : end'[j][t] = end[j][t]
    BY <1>5, <1>6, <1>7
  <2>4. Other(s) \in Sides
    BY Others
  <2> QED
    BY <2>1, <2>2, <2>3, <2>4 DEF PeerGone
<1>23. PortsInv'
  <2>1. ASSUME NEW q \in Procs, Running(q)'
        PROVE  /\ worker'[q] \in {"callback", "rearm"} => phase'[handle'[q][1]] = "connected"
               /\ \A n \in DOMAIN port'[q] :
                    IF port'[q][n].op = "fail" THEN PeerGone(q)'
                                               ELSE phase'[handle'[q][1]] = "connected"
    <3>1. CASE q = p
      <4>1. DOMAIN port[p] = {}
        BY <1>14
      <4>2. \A n \in DOMAIN port'[p] : port'[p][n] = Completion("connect", 0)
        BY <1>12, <1>13, <4>1
      <4> QED
        BY <1>6, <1>9, <1>10, <3>1, <4>2 DEF Completion
    <3>2. CASE q # p
      <4>1. Running(q)
        BY <1>17, <2>1, <3>2
      <4>2. worker[q] \in {"callback", "rearm"} => phase[handle[q][1]] = "connected"
        BY <4>1 DEF IInv, PortsInv
      <4>3. \A n \in DOMAIN port[q] :
              IF port[q][n].op = "fail" THEN PeerGone(q) ELSE phase[handle[q][1]] = "connected"
        BY <4>1 DEF IInv, PortsInv
      <4>4. \A n \in DOMAIN port'[q] \ DOMAIN port[q] :
              port'[q][n].op # "fail" /\ phase'[handle'[q][1]] = "connected"
        <5>1. \A n \in DOMAIN port'[q] \ DOMAIN port[q] :
                q = i /\ i \in accepts /\ port'[q][n] = Completion("accept", 0)
          BY <1>12, <3>2
        <5>2. \A n \in DOMAIN port'[q] \ DOMAIN port[q] : handle'[q] = <<i, "server">>
          BY <1>9, <1>13, <3>2, <5>1
        <5> QED
          BY <1>6, <5>1, <5>2 DEF Completion
      <4>5. /\ \A n \in DOMAIN port[q] : n \in DOMAIN port'[q] /\ port'[q][n] = port[q][n]
            /\ worker'[q] = worker[q]
        BY <1>10, <1>12, <3>2
      <4> QED
        BY <1>22, <3>2, <4>1, <4>2, <4>3, <4>4, <4>5
    <3> QED
      BY <3>1, <3>2
  <2> QED
    BY <2>1 DEF PortsInv
<1>24. LengthsInv'
  <2>1. ASSUME NEW q \in Procs, NEW n \in DOMAIN port'[q]
        PROVE  port'[q][n].len <= Len(buffer[q])
    <3>1. CASE n \in DOMAIN port[q]
      BY <1>12, <3>1 DEF IInv, LengthsInv
    <3>2. CASE n \notin DOMAIN port[q]
      <4>1. port'[q][n].len = 0
        BY <1>12, <3>2 DEF Completion
      <4>2. Len(buffer[q]) \in Nat
        BY Types
      <4> QED
        BY <4>1, <4>2
    <3> QED
      BY <3>1, <3>2
  <2>2. \A q \in Procs : worker'[q] = "callback" => worker[q] = "callback"
    BY <1>10
  <2> QED
    BY <1>2, <1>3, <2>1, <2>2 DEF IInv, LengthsInv
<1>25. ReadChained'
  <2>1. ASSUME NEW q \in Procs, Reads(q)'
        PROVE  \/ PeerGone(q)'
               \/ worker'[q] \in {"callback", "rearm"}
               \/ handle'[q] \in reading'
               \/ \E n \in DOMAIN port'[q] : port'[q][n].op # "fail"
    <3>1. CASE q = p
      BY <1>12, <3>1 DEF Completion
    <3>2. CASE q # p
      <4>1. Reads(q) /\ Running(q)
        BY <1>2, <1>17, <2>1, <3>2 DEF Reads
      <4>2. (\E n \in DOMAIN port[q] : port[q][n].op # "fail")
              => \E n \in DOMAIN port'[q] : port'[q][n].op # "fail"
        BY <1>12
      <4> QED
        BY <1>3, <1>10, <1>22, <3>2, <4>1, <4>2 DEF IInv, ReadChained
    <3> QED
      BY <3>1, <3>2
  <2> QED
    BY <2>1 DEF ReadChained
<1> QED
  BY <1>15, <1>16, <1>19, <1>20, <1>21, <1>23, <1>24, <1>25 DEF IInv

\* A step that opens and closes nothing leaves who has what.
LEMMA EndsKept ==
  ASSUME IInv, UNCHANGED <<phase, end, pc, handle>>
  PROVE  /\ PipesInv' /\ HandlesInv'
         /\ \A q \in Procs : (Running(q)' <=> Running(q)) /\ (PeerGone(q)' <=> PeerGone(q))
         /\ \A i \in Pipes, s \in Sides : Owned(i, s) => Owned(i, s)'
<1>1. \A q \in Procs : Running(q)' <=> Running(q)
  BY DEF Running
<1>2. \A q \in Procs : PeerGone(q)' <=> PeerGone(q)
  BY DEF PeerGone
<1>3. PipesInv'
  BY DEF IInv, PipesInv
<1>4. HandlesInv'
  BY <1>1 DEF IInv, HandlesInv
<1>5. \A i \in Pipes, s \in Sides : Owned(i, s) => Owned(i, s)'
  BY DEF Owned
<1> QED
  BY <1>1, <1>2, <1>3, <1>4, <1>5

\* A read completes only in the port of the process whose Pipe the end is.
LEMMA WritePorts ==
  ASSUME IInv, NEW i \in Pipes, NEW s \in Sides, NEW ws \in Seq(Seq(Nat)),
         \/ AsyncWrites(i, s, ws)
         \/ UNCHANGED <<wire, reading, accepts, port, buffer, written>>
  PROVE  /\ IocpTypeOK' \/ phase' # phase \/ end' # end \/ heard' \notin [Pipes -> [Sides -> Seq(Nat)]]
         /\ accepts' = accepts
         /\ reading' \subseteq reading
         /\ \A j \in Pipes, t \in Sides : <<j, t>> \in reading' => wire'[j][t] = wire[j][t]
         /\ \A q \in Procs : /\ Len(buffer[q]) <= Len(buffer'[q])
                             /\ Len(buffer[q]) \in Nat /\ Len(buffer'[q]) \in Nat
         /\ \A q \in Procs : \A n \in DOMAIN port[q] : n \in DOMAIN port'[q] /\ port'[q][n] = port[q][n]
         /\ \A q \in Procs : \A n \in DOMAIN port'[q] : n \notin DOMAIN port[q] =>
              /\ handle[q] = <<i, s>> /\ phase[i] = "connected"
              /\ pc[q] \notin {"new", "created"}
              /\ port'[q][n].op = "read" /\ port'[q][n].len <= Len(buffer'[q])
              /\ end[i][s] = q /\ <<i, s>> \in reading /\ <<i, s>> \notin reading'
         /\ \A q \in Procs : \A m, n \in DOMAIN port'[q] \ DOMAIN port[q] : m = n
         /\ \A j \in Pipes, t \in Sides : j # i \/ t # s => wire'[j][t] = wire[j][t]
         /\ wire'[i][s] # wire[i][s] => phase[i] = "connected" /\ end[i][s] # None
         /\ \A q \in Procs : handle[q] \in reading /\ end[i][s] = q /\ handle[q] = <<i, s>> =>
              handle[q] \in reading' \/ \E n \in DOMAIN port'[q] : port'[q][n].op # "fail"
         /\ \A x \in reading : x # <<i, s>> => x \in reading'
<1>1. CASE UNCHANGED <<wire, reading, accepts, port, buffer, written>>
  <2>1. IocpTypeOK' \/ phase' # phase \/ end' # end \/ heard' \notin [Pipes -> [Sides -> Seq(Nat)]]
    BY <1>1, Types DEF IocpTypeOK
  <2>2. \A q \in Procs : Len(buffer[q]) \in Nat /\ Len(buffer[q]) <= Len(buffer[q])
    BY Types
  <2> QED
    BY <1>1, <2>1, <2>2
<1>2. CASE ~ UNCHANGED <<wire, reading, accepts, port, buffer, written>>
  <2>1. IocpTypeOK
    BY Types
  <2>2. /\ phase[i] = "connected" /\ end[i][s] \in Procs /\ ws # <<>>
        /\ wire' \in [Pipes -> [Sides -> Seq(Seq(Nat))]]
        /\ \A j \in Pipes, t \in Sides : j # i \/ t # s => wire'[j][t] = wire[j][t]
        /\ written' \in [Pipes -> [Sides -> Seq(Nat)]]
        /\ UNCHANGED accepts
        /\ \/ /\ <<i, s>> \in reading
              /\ reading' = reading \ {<<i, s>>}
              /\ \E w \in Seq(Nat) : ReadCompletes(end[i][s], w)
           \/ /\ <<i, s>> \notin reading
              /\ UNCHANGED <<reading, port, buffer>>
    BY <1>2, <2>1, AsyncWritesFacts
  <2>3. end[i][s] # None
    BY <2>2, IocpAssumption
  <2>4. CASE <<i, s>> \in reading
    <3>1. PICK q \in Procs : q = end[i][s]
      BY <2>2
    <3>2. PICK w \in Seq(Nat) : ReadCompletes(q, w)
      BY <2>2, <2>4, <3>1
    <3>3. reading' = reading \ {<<i, s>>} /\ ReadCompletes(q, w)
      BY <2>2, <2>4, <3>2
    <3>4. /\ port' \in [Procs -> Seq(Completions)]
          /\ buffer' \in [Procs -> Seq(Nat)]
          /\ \A p \in Procs : p # q => port'[p] = port[p] /\ buffer'[p] = buffer[p]
          /\ \E n \in Nat :
               /\ n \notin DOMAIN port[q] /\ DOMAIN port'[q] = DOMAIN port[q] \union {n}
               /\ port'[q][n] = Completion("read", Len(w))
          /\ \A n \in DOMAIN port[q] : port'[q][n] = port[q][n]
          /\ Len(w) <= Len(buffer'[q])
          /\ Len(buffer[q]) <= Len(buffer'[q])
      BY <2>1, <3>3, ReadCompletesFacts
    <3>5. handle[q] = <<i, s>> /\ pc[q] \notin {"new", "created"}
      <4>1. Owned(i, s)
        BY <2>4 DEF IInv, OperationsInv
      <4> QED
        BY <3>1, <4>1 DEF Owned
    <3>6. PICK n \in Nat :
               /\ n \notin DOMAIN port[q] /\ DOMAIN port'[q] = DOMAIN port[q] \union {n}
               /\ port'[q][n] = Completion("read", Len(w))
      BY <3>4
    <3>7. port'[q][n].op = "read" /\ port'[q][n].len = Len(w)
      BY <3>6 DEF Completion
    <3>8. IocpTypeOK' \/ phase' # phase \/ end' # end \/ heard' \notin [Pipes -> [Sides -> Seq(Nat)]]
      <4>1. reading' \subseteq Ends /\ accepts' \subseteq Pipes
        BY <2>2, <3>3, Types
      <4> QED
        BY <2>2, <3>4, <4>1, Types DEF IocpTypeOK
    <3>9. \A p \in Procs : /\ Len(buffer[p]) <= Len(buffer'[p])
                           /\ Len(buffer[p]) \in Nat /\ Len(buffer'[p]) \in Nat
      <4>1. ASSUME NEW p \in Procs
            PROVE  Len(buffer[p]) \in Nat /\ Len(buffer'[p]) \in Nat
        BY <3>4, Types
      <4>2. ASSUME NEW p \in Procs
            PROVE  Len(buffer[p]) <= Len(buffer'[p])
        <5>1. CASE p = q
          BY <3>4, <5>1
        <5>2. CASE p # q
          <6>1. Len(buffer'[p]) = Len(buffer[p])
            BY <3>4, <5>2
          <6> QED
            BY <4>1, <6>1
        <5> QED
          BY <5>1, <5>2
      <4> QED
        BY <4>1, <4>2
    <3>10. \A p \in Procs : \A m \in DOMAIN port[p] : m \in DOMAIN port'[p] /\ port'[p][m] = port[p][m]
      BY <3>4, <3>6
    <3>11. \A p \in Procs : \A m \in DOMAIN port'[p] : m \notin DOMAIN port[p] => p = q /\ m = n
      BY <3>4, <3>6
    <3>12. \A p \in Procs : \A m \in DOMAIN port'[p] : m \notin DOMAIN port[p] =>
              /\ handle[p] = <<i, s>> /\ phase[i] = "connected"
              /\ pc[p] \notin {"new", "created"}
              /\ port'[p][m].op = "read" /\ port'[p][m].len <= Len(buffer'[p])
              /\ end[i][s] = p /\ <<i, s>> \in reading /\ <<i, s>> \notin reading'
      <4>1. phase[i] = "connected" /\ end[i][s] = q
        BY <2>2, <3>1
      <4>2. <<i, s>> \in reading /\ <<i, s>> \notin reading'
        BY <2>4, <3>3
      <4>3. port'[q][n].op = "read" /\ port'[q][n].len <= Len(buffer'[q])
        BY <3>4, <3>7
      <4> QED
        BY <3>5, <3>11, <4>1, <4>2, <4>3
    <3>13. \A j \in Pipes, t \in Sides : <<j, t>> \in reading' => wire'[j][t] = wire[j][t]
      BY <2>2, <3>3
    <3>14. \E m \in DOMAIN port'[q] : port'[q][m].op # "fail"
      BY <3>6, <3>7
    <3>15. \A p \in Procs : \A l, m \in DOMAIN port'[p] \ DOMAIN port[p] : l = m
      BY <3>11
    <3> QED
      BY <2>2, <2>3, <3>1, <3>3, <3>8, <3>9, <3>10, <3>12, <3>13, <3>14, <3>15
  <2>5. CASE <<i, s>> \notin reading
    <3>1. UNCHANGED <<reading, port, buffer>>
      BY <2>2, <2>5
    <3>2. IocpTypeOK' \/ phase' # phase \/ end' # end \/ heard' \notin [Pipes -> [Sides -> Seq(Nat)]]
      BY <2>2, <3>1, Types DEF IocpTypeOK
    <3>3. \A q \in Procs : Len(buffer[q]) \in Nat /\ Len(buffer[q]) <= Len(buffer[q])
      BY Types
    <3> QED
      BY <2>2, <2>3, <2>5, <3>1, <3>2, <3>3
  <2> QED
    BY <2>4, <2>5
<1> QED
  BY <1>1, <1>2

\* A write, or none, by the main thread or from OnMessage.
LEMMA WriteKeeps ==
  ASSUME IInv, NEW p \in Procs, Running(p), NEW i \in Pipes, NEW s \in Sides,
         handle[p] = <<i, s>>, NEW ws \in Seq(Seq(Nat)),
         \/ AsyncWrites(i, Other(s), ws)
         \/ UNCHANGED <<wire, reading, accepts, port, buffer, written>>,
         UNCHANGED <<phase, end, pc, handle, got, Stopping, Listeners>>,
         sends' \in Nat, heard' \in [Pipes -> [Sides -> Seq(Nat)]],
         \/ worker' = worker
         \/ worker[p] = "callback" /\ worker' = [worker EXCEPT ![p] = "rearm"]
  PROVE  IInv'
<1>1. PICK o \in Sides : o = Other(s) /\ o # s /\ s = Other(o) /\ \A t \in Sides : t = s \/ t = o
  BY Others
<1>2. /\ IocpTypeOK' \/ phase' # phase \/ end' # end \/ heard' \notin [Pipes -> [Sides -> Seq(Nat)]]
      /\ accepts' = accepts
      /\ reading' \subseteq reading
      /\ \A j \in Pipes, t \in Sides : <<j, t>> \in reading' => wire'[j][t] = wire[j][t]
      /\ \A q \in Procs : /\ Len(buffer[q]) <= Len(buffer'[q])
                          /\ Len(buffer[q]) \in Nat /\ Len(buffer'[q]) \in Nat
      /\ \A q \in Procs : \A n \in DOMAIN port[q] : n \in DOMAIN port'[q] /\ port'[q][n] = port[q][n]
      /\ \A q \in Procs : \A n \in DOMAIN port'[q] : n \notin DOMAIN port[q] =>
           /\ handle[q] = <<i, o>> /\ phase[i] = "connected"
           /\ pc[q] \notin {"new", "created"}
           /\ port'[q][n].op = "read" /\ port'[q][n].len <= Len(buffer'[q])
      /\ \A j \in Pipes, t \in Sides : j # i \/ t # o => wire'[j][t] = wire[j][t]
      /\ wire'[i][o] # wire[i][o] => phase[i] = "connected" /\ end[i][o] # None
      /\ \A q \in Procs : handle[q] \in reading /\ end[i][o] = q /\ handle[q] = <<i, o>> =>
           handle[q] \in reading' \/ \E n \in DOMAIN port'[q] : port'[q][n].op # "fail"
      /\ \A x \in reading : x # <<i, o>> => x \in reading'
  <2>1. \/ AsyncWrites(i, o, ws)
        \/ UNCHANGED <<wire, reading, accepts, port, buffer, written>>
    BY <1>1
  <2> QED
    BY <2>1, WritePorts, ZenonT(60)
<1>3. /\ worker' \in [Procs -> {"none", "check", "run", "callback", "rearm", "ended"}]
      /\ \A q \in Procs : worker'[q] = worker[q] \/ (worker[q] = "callback" /\ worker'[q] = "rearm")
  BY Types
<1>4. /\ PipesInv' /\ HandlesInv'
      /\ \A q \in Procs : (Running(q)' <=> Running(q)) /\ (PeerGone(q)' <=> PeerGone(q))
      /\ \A j \in Pipes, t \in Sides : Owned(j, t) => Owned(j, t)'
  BY EndsKept
<1>5. TypeOK'
  <2>1. IocpTypeOK'
    BY <1>2
  <2>2. Np2TypeOK'
    BY <1>3, Types DEF Np2TypeOK
  <2> QED
    BY <2>1, <2>2 DEF TypeOK
<1>6. OperationsInv'
  <2>1. Owned(i, s)
    <3>1. end[i][s] = p
      BY HandleEnd DEF Running
    <3> QED
      BY <3>1, IocpAssumption DEF Owned, Running
  <2>2. ASSUME NEW j \in Pipes, NEW t \in Sides
        PROVE  /\ <<j, t>> \in reading' =>
                    /\ Owned(j, t)' /\ phase'[j] = "connected" /\ end'[j][Other(t)] # None
                    /\ wire'[j][t] = <<>>
               /\ wire'[j][t] # <<>> => phase'[j] = "connected" /\ end'[j][t] # None
    <3>1. /\ <<j, t>> \in reading =>
               /\ Owned(j, t) /\ phase[j] = "connected" /\ end[j][Other(t)] # None
               /\ wire[j][t] = <<>>
          /\ wire[j][t] # <<>> => phase[j] = "connected" /\ end[j][t] # None
      BY DEF IInv, OperationsInv
    <3>2. wire'[j][t] = wire[j][t] \/ (phase[j] = "connected" /\ end[j][t] # None)
      BY <1>2
    <3>3. <<j, t>> \in reading' => <<j, t>> \in reading /\ wire'[j][t] = wire[j][t]
      BY <1>2
    <3> QED
      BY <1>4, <3>1, <3>2, <3>3
  <2>3. ASSUME NEW j \in Pipes, NEW t \in Sides
        PROVE  Pending(j, Other(t))' > 0 => Owned(j, t)'
    <3>1. CASE j = i /\ t = s
      BY <1>4, <2>1, <3>1
    <3>2. CASE ~(j = i /\ t = s)
      <4>1. Other(t) \in Sides /\ (j # i \/ Other(t) # o)
        BY <1>1, <3>2, Others
      <4>2. Pending(j, Other(t))' = Pending(j, Other(t))
        BY <1>2, <4>1 DEF Pending
      <4>3. Pending(j, Other(t)) > 0 => Owned(j, t)
        BY DEF IInv, OperationsInv
      <4> QED
        BY <1>4, <4>2, <4>3
    <3> QED
      BY <3>1, <3>2
  <2>4. ASSUME NEW j \in Pipes, j \in accepts'
        PROVE  Owned(j, "server")' /\ phase'[j] = "listening"
    <3>1. "server" \in Sides
      BY DEF Sides
    <3> QED
      BY <1>2, <1>4, <2>4, <3>1 DEF IInv, OperationsInv
  <2> QED
    BY <2>2, <2>3, <2>4 DEF OperationsInv
<1>7. ThreadInv'
  <2>1. \A q \in Procs : pc[q] \in {"new", "created"} => port'[q] = <<>>
    <3>1. ASSUME NEW q \in Procs, pc[q] \in {"new", "created"}
          PROVE  port'[q] = <<>>
      <4>1. DOMAIN port[q] = {}
        BY <3>1 DEF IInv, ThreadInv
      <4>2. DOMAIN port'[q] = {}
        BY <1>2, <3>1, <4>1
      <4>3. port' \in [Procs -> Seq(Completions)]
        BY <1>5 DEF TypeOK, IocpTypeOK
      <4>4. PICK a \in Seq(Completions) : a = port'[q]
        BY <4>3
      <4>5. DOMAIN a = {}
        BY <4>2, <4>4
      <4>6. Len(a) = 0
        BY <4>5
      <4> QED
        BY <4>4, <4>6
    <3> QED
      BY <3>1
  <2>2. \A q \in Procs : worker'[q] # "none" => worker[q] # "none"
    BY <1>3
  <2> QED
    BY <1>4, <2>1, <2>2 DEF IInv, ThreadInv
<1>8. PortsInv'
  <2>1. ASSUME NEW q \in Procs, Running(q)
        PROVE  /\ worker'[q] \in {"callback", "rearm"} => phase[handle[q][1]] = "connected"
               /\ \A n \in DOMAIN port'[q] :
                    IF port'[q][n].op = "fail" THEN PeerGone(q)
                                               ELSE phase[handle[q][1]] = "connected"
    <3>1. worker'[q] \in {"callback", "rearm"} => phase[handle[q][1]] = "connected"
      BY <1>3, <2>1 DEF IInv, PortsInv
    <3>2. \A n \in DOMAIN port'[q] : n \in DOMAIN port[q] =>
            IF port'[q][n].op = "fail" THEN PeerGone(q) ELSE phase[handle[q][1]] = "connected"
      BY <1>2, <2>1 DEF IInv, PortsInv
    <3>3. \A n \in DOMAIN port'[q] : n \notin DOMAIN port[q] =>
            port'[q][n].op # "fail" /\ phase[handle[q][1]] = "connected"
      BY <1>2
    <3> QED
      BY <3>1, <3>2, <3>3
  <2> QED
    BY <1>4, <2>1 DEF PortsInv
<1>9. LengthsInv'
  <2>1. ASSUME NEW q \in Procs, NEW n \in DOMAIN port'[q]
        PROVE  port'[q][n].len <= Len(buffer'[q])
    <3>1. CASE n \in DOMAIN port[q]
      <4>1. port[q][n].len <= Len(buffer[q]) /\ port'[q][n].len = port[q][n].len
        BY <1>2, <3>1 DEF IInv, LengthsInv
      <4>2. port[q][n].len \in Nat
        <5>1. port[q] \in Seq(Completions)
          BY Types
        <5>2. port[q][n] \in Completions
          BY <3>1, <5>1
        <5> QED
          BY <5>2 DEF Completions
      <4>3. /\ Len(buffer[q]) <= Len(buffer'[q])
            /\ Len(buffer[q]) \in Nat /\ Len(buffer'[q]) \in Nat
        BY <1>2
      <4> QED
        BY <4>1, <4>2, <4>3
    <3>2. CASE n \notin DOMAIN port[q]
      BY <1>2, <3>2
    <3> QED
      BY <3>1, <3>2
  <2>2. ASSUME NEW q \in Procs, worker'[q] = "callback"
        PROVE  got[q] \in Completions /\ got[q].len <= Len(buffer'[q])
    <3>1. worker[q] = "callback"
      BY <1>3, <2>2
    <3>2. got[q] \in Completions /\ got[q].len <= Len(buffer[q])
      BY <3>1 DEF IInv, LengthsInv
    <3>3. got[q].len \in Nat
      BY <3>2 DEF Completions
    <3>4. /\ Len(buffer[q]) <= Len(buffer'[q])
          /\ Len(buffer[q]) \in Nat /\ Len(buffer'[q]) \in Nat
      BY <1>2
    <3> QED
      BY <3>2, <3>3, <3>4
  <2> QED
    BY <2>1, <2>2 DEF LengthsInv
<1>10. ReadChained'
  <2>1. ASSUME NEW q \in Procs, Reads(q)'
        PROVE  \/ PeerGone(q)'
               \/ worker'[q] \in {"callback", "rearm"}
               \/ handle'[q] \in reading'
               \/ \E n \in DOMAIN port'[q] : port'[q][n].op # "fail"
    <3>1. Reads(q) /\ Running(q)
      BY <1>4, <2>1 DEF Reads
    <3>2. handle[q] \in reading =>
            handle[q] \in reading' \/ \E n \in DOMAIN port'[q] : port'[q][n].op # "fail"
      <4>1. CASE handle[q] = <<i, o>>
        <5>1. end[i][o] = q
          BY <3>1, <4>1, HandleEnd DEF Running
        <5> QED
          BY <1>2, <4>1, <5>1
      <4>2. CASE handle[q] # <<i, o>>
        BY <1>2, <4>2
      <4> QED
        BY <4>1, <4>2
    <3>3. (\E n \in DOMAIN port[q] : port[q][n].op # "fail")
            => \E n \in DOMAIN port'[q] : port'[q][n].op # "fail"
      BY <1>2
    <3> QED
      BY <1>3, <1>4, <3>1, <3>2, <3>3 DEF IInv, ReadChained
  <2> QED
    BY <2>1 DEF ReadChained
<1> QED
  BY <1>4, <1>5, <1>6, <1>7, <1>8, <1>9, <1>10 DEF IInv

\* What is written to a process's listeners is a number of times the message.
LEMMA WritesType ==
  ASSUME IInv, NEW p \in Procs, NEW w \in Seq(Nat)
  PROVE  Writes(p, w) \in Seq(Seq(Nat))
<1>1. CASE p \in Servers
  <2>1. PICK l \in Seq(BOOLEAN) : l = Listeners[p]
    BY Types
  <2>2. PICK k \in Nat : k = Len(l) /\ DOMAIN l = 1 .. k
    OBVIOUS
  <2>3. PICK A : A = {n \in DOMAIN Listeners[p] : Listeners[p][n]}
    OBVIOUS
  <2>4. A \subseteq 1 .. k
    BY <2>1, <2>2, <2>3
  <2>5. IsFiniteSet(1 .. k)
    BY <2>2, FS_Interval
  <2>6. PICK m \in Nat : m = Cardinality(A)
    BY <2>4, <2>5, FS_Subset, FS_CardinalityType
  <2>7. Writes(p, w) = [n \in 1 .. m |-> w]
    BY <1>1, <2>3, <2>6 DEF Writes
  <2>8. [n \in 1 .. m |-> w] \in Seq(Seq(Nat))
    OBVIOUS
  <2> QED
    BY <2>7, <2>8
<1>2. CASE p \notin Servers
  <2>1. <<w>> \in Seq(Seq(Nat))
    OBVIOUS
  <2> QED
    BY <1>2, <2>1 DEF Writes
<1> QED
  BY <1>1, <1>2

\* The main thread writes a message, whatever its length.
LEMMA MainWriteFacts ==
  ASSUME IInv, NEW p \in Procs, MainWrite(p)
  PROVE  \E w \in Seq(Nat) :
           /\ pc[p] = "up"
           /\ sends' \in Nat
           /\ Write(p, w)
           /\ UNCHANGED <<phase, end, heard, pc, handle, worker, got, Stopping, Listeners>>
<1>1. PICK n \in 1 .. MaxWrites - sends :
        /\ pc[p] = "up"
        /\ sends' = sends + n
        /\ Write(p, [k \in 1 .. n |-> sends + k])
        /\ UNCHANGED <<phase, end, heard, pc, handle, worker, got, Stopping, Listeners>>
  BY DEF MainWrite, endVars, threadVars
<1>2. n \in Nat /\ sends \in Nat
  BY Types
<1>3. [k \in 1 .. n |-> sends + k] \in Seq(Nat)
  BY <1>2
<1> QED
  BY <1>1, <1>2, <1>3

\* A write of the main thread.
LEMMA MainWriteKeeps ==
  ASSUME IInv, NEW p \in Procs, MainWrite(p)
  PROVE  IInv'
<1>1. PICK w \in Seq(Nat) :
        /\ pc[p] = "up"
        /\ sends' \in Nat
        /\ Write(p, w)
        /\ UNCHANGED <<phase, end, heard, pc, handle, worker, got, Stopping, Listeners>>
  BY MainWriteFacts
<1>2. PICK i \in Pipes, s \in Sides : handle[p] = <<i, s>>
  BY <1>1, HandleEnd
<1>4. PICK ws \in Seq(Seq(Nat)) : ws = Writes(p, w)
  BY WritesType
<1>5. AsyncWrites(i, Other(s), ws)
  BY <1>1, <1>2, <1>4 DEF Write
<1>6. Running(p)
  BY <1>1 DEF Running
<1>7. sends' \in Nat /\ heard' \in [Pipes -> [Sides -> Seq(Nat)]]
  BY <1>1, Types DEF IocpTypeOK
<1> QED
  BY <1>1, <1>2, <1>5, <1>6, <1>7, WriteKeeps

\* The message of a read callback is what its completion says was read.
LEMMA ReceivedType ==
  ASSUME IInv, NEW p \in Procs, worker[p] = "callback"
  PROVE  Received(p) \in Seq(Nat)
<1>1. got[p] \in Completions /\ got[p].len <= Len(buffer[p])
  BY DEF IInv, LengthsInv
<1>2. PICK k \in Nat : k = got[p].len
  BY <1>1 DEF Completions
<1>3. PICK b \in Seq(Nat) : b = buffer[p]
  BY Types
<1>4. SubSeq(b, 1, k) \in Seq(Nat)
  BY <1>1, <1>2, <1>3
<1> QED
  BY <1>2, <1>3, <1>4 DEF Received

\* A write of OnMessage, in a callback that reads again.
LEMMA OnReadKeeps ==
  ASSUME IInv, NEW p \in Procs, OnRead(p)
  PROVE  IInv'
<1>1. /\ Running(p) /\ worker[p] = "callback"
      /\ heard' = [heard EXCEPT ![handle[p][1]][handle[p][2]] = @ \o Received(p)]
      /\ OnMessage(p, Received(p))
      /\ worker' = [worker EXCEPT ![p] = "rearm"]
      /\ UNCHANGED <<phase, end, pc, handle, sends, got, Stopping, Listeners>>
  BY DEF OnRead, Calls, endVars, mainVars
<1>2. PICK i \in Pipes, s \in Sides : handle[p] = <<i, s>>
  BY <1>1, HandleEnd DEF Running
<1>3. PICK w \in Seq(Nat) : w = Received(p)
  BY <1>1, ReceivedType
<1>4. PICK ws \in Seq(Seq(Nat)) : ws = Writes(p, w)
  BY WritesType
<1>5. \/ AsyncWrites(i, Other(s), ws)
      \/ UNCHANGED <<wire, reading, accepts, port, buffer, written>>
  BY <1>1, <1>2, <1>3, <1>4 DEF OnMessage, Write, opVars, portVars
<1>6. heard' \in [Pipes -> [Sides -> Seq(Nat)]]
  <2>1. PICK h \in Seq(Nat) : h = heard[i][s]
    BY Types DEF IocpTypeOK
  <2>2. PICK x \in Seq(Nat) : x = h \o w
    <3>1. h \o w \in Seq(Nat)
      OBVIOUS
    <3> QED
      BY <3>1
  <2>3. heard' = [heard EXCEPT ![i][s] = x]
    BY <1>1, <1>2, <1>3, <2>1, <2>2
  <2>4. heard \in [Pipes -> [Sides -> Seq(Nat)]]
    BY Types DEF IocpTypeOK
  <2> QED
    BY <2>3, <2>4, EndExcept
<1>7. sends' \in Nat
  BY <1>1, Types
<1> QED
  BY <1>1, <1>2, <1>5, <1>6, <1>7, WriteKeeps

\* The read either completes, or waits, or fails as the other process is gone.
LEMMA ReadAsyncKeeps ==
  ASSUME IInv, NEW p \in Procs, ReadAsync(p)
  PROVE  IInv'
<1>1. /\ Running(p) /\ worker[p] = "rearm"
      /\ AsyncRead(p, handle[p][1], handle[p][2])
      /\ worker' = [worker EXCEPT ![p] = "run"]
      /\ UNCHANGED <<phase, end, written, heard, pc, handle, sends, got, Stopping, Listeners>>
  BY DEF ReadAsync, endVars, history, mainVars
<1>2. PICK i \in Pipes, s \in Sides : handle[p] = <<i, s>> /\ end[i][s] = p
  BY <1>1, HandleEnd DEF Running
<1>3. PICK o \in Sides : o = Other(s) /\ o # s /\ s = Other(o) /\ \A t \in Sides : t = s \/ t = o
  BY Others
<1>4. phase[i] = "connected"
  BY <1>1, <1>2 DEF IInv, PortsInv
<1>5. Owned(i, s)
  BY <1>1, <1>2, IocpAssumption DEF Owned, Running
<1>6. IocpTypeOK /\ AsyncRead(p, i, s)
  BY <1>1, <1>2, Types
<1>7. /\ worker' \in [Procs -> {"none", "check", "run", "callback", "rearm", "ended"}]
      /\ worker'[p] = "run"
      /\ \A q \in Procs : q # p => worker'[q] = worker[q]
  BY <1>1, Types
<1>8. /\ PipesInv' /\ HandlesInv'
      /\ \A q \in Procs : (Running(q)' <=> Running(q)) /\ (PeerGone(q)' <=> PeerGone(q))
      /\ \A j \in Pipes, t \in Sides : Owned(j, t) => Owned(j, t)'
  BY <1>1, EndsKept
<1>9. CASE wire[i][s] # <<>>
  <2>1. PICK w \in Seq(Nat) : ReadCompletes(p, w)
    BY <1>6, <1>9, AsyncReadFacts
  <2>2. /\ UNCHANGED <<accepts, reading>>
        /\ wire' \in [Pipes -> [Sides -> Seq(Seq(Nat))]]
        /\ \A j \in Pipes, t \in Sides : j # i \/ t # s => wire'[j][t] = wire[j][t]
    BY <1>6, <1>9, AsyncReadFacts
  <2>3. /\ port' \in [Procs -> Seq(Completions)]
        /\ buffer' \in [Procs -> Seq(Nat)]
        /\ \A q \in Procs : q # p => port'[q] = port[q] /\ buffer'[q] = buffer[q]
        /\ \A m \in DOMAIN port[p] : port'[p][m] = port[p][m]
        /\ Len(w) <= Len(buffer'[p])
        /\ Len(buffer[p]) <= Len(buffer'[p])
    BY <1>6, <2>1, ReadCompletesFacts
  <2>4. PICK k \in Nat :
          /\ k \notin DOMAIN port[p] /\ DOMAIN port'[p] = DOMAIN port[p] \union {k}
          /\ port'[p][k] = Completion("read", Len(w))
    BY <1>6, <2>1, ReadCompletesFacts
  <2>5. port'[p][k].op = "read" /\ port'[p][k].len = Len(w)
    BY <2>4 DEF Completion
  <2>6. TypeOK'
    <3>1. IocpTypeOK'
      BY <1>1, <2>2, <2>3, Types DEF IocpTypeOK
    <3>2. Np2TypeOK'
      BY <1>1, <1>7, Types DEF Np2TypeOK
    <3> QED
      BY <3>1, <3>2 DEF TypeOK
  <2>7. OperationsInv'
    <3>1. /\ Len(wire'[i][s]) <= Len(wire[i][s])
          /\ Len(wire[i][s]) \in Nat /\ Len(wire'[i][s]) \in Nat
      BY <1>6, <1>9, AsyncReadFacts
    <3>2. ASSUME NEW j \in Pipes, NEW t \in Sides
          PROVE  /\ <<j, t>> \in reading' =>
                      /\ Owned(j, t)' /\ phase'[j] = "connected" /\ end'[j][Other(t)] # None
                      /\ wire'[j][t] = <<>>
                 /\ wire'[j][t] # <<>> => phase'[j] = "connected" /\ end'[j][t] # None
      <4>1. /\ <<j, t>> \in reading =>
                 /\ Owned(j, t) /\ phase[j] = "connected" /\ end[j][Other(t)] # None
                 /\ wire[j][t] = <<>>
            /\ wire[j][t] # <<>> => phase[j] = "connected" /\ end[j][t] # None
        BY DEF IInv, OperationsInv
      <4>2. wire'[j][t] = wire[j][t] \/ (j = i /\ t = s)
        BY <2>2
      <4> QED
        BY <1>1, <1>4, <1>8, <1>9, <2>2, <4>1, <4>2
    <3>3. ASSUME NEW j \in Pipes, NEW t \in Sides
          PROVE  Pending(j, Other(t))' > 0 => Owned(j, t)'
      <4>1. Pending(j, Other(t)) > 0 => Owned(j, t)
        BY DEF IInv, OperationsInv
      <4>2. CASE j = i /\ Other(t) = s
        <5>1. Pending(i, s)' > 0 => Pending(i, s) > 0
          BY <3>1, IocpAssumption DEF Pending
        <5> QED
          BY <1>8, <4>1, <4>2, <5>1
      <4>3. CASE ~(j = i /\ Other(t) = s)
        <5>1. Pending(j, Other(t))' = Pending(j, Other(t))
          BY <2>2, <4>3, Others DEF Pending
        <5> QED
          BY <1>8, <4>1, <5>1
      <4> QED
        BY <4>2, <4>3
    <3>4. ASSUME NEW j \in Pipes, j \in accepts'
          PROVE  Owned(j, "server")' /\ phase'[j] = "listening"
      <4>1. "server" \in Sides
        BY DEF Sides
      <4> QED
        BY <1>1, <1>8, <2>2, <3>4, <4>1 DEF IInv, OperationsInv
    <3> QED
      BY <3>2, <3>3, <3>4 DEF OperationsInv
  <2>8. ThreadInv'
    <3>1. \A q \in Procs : pc[q] \in {"new", "created"} => q # p
      BY <1>1 DEF Running
    <3>2. \A q \in Procs : worker'[q] # "none" => worker[q] # "none"
      BY <1>1, <1>7
    <3> QED
      BY <1>1, <1>8, <2>3, <3>1, <3>2 DEF IInv, ThreadInv
  <2>9. PortsInv'
    <3>1. ASSUME NEW q \in Procs, Running(q)
          PROVE  /\ worker'[q] \in {"callback", "rearm"} => phase[handle[q][1]] = "connected"
                 /\ \A m \in DOMAIN port'[q] :
                      IF port'[q][m].op = "fail" THEN PeerGone(q)
                                                 ELSE phase[handle[q][1]] = "connected"
      <4>1. worker'[q] \in {"callback", "rearm"} => phase[handle[q][1]] = "connected"
        BY <1>7, <3>1 DEF IInv, PortsInv
      <4>2. \A m \in DOMAIN port[q] :
              IF port[q][m].op = "fail" THEN PeerGone(q) ELSE phase[handle[q][1]] = "connected"
        BY <3>1 DEF IInv, PortsInv
      <4>3. CASE q = p
        BY <1>2, <1>4, <2>3, <2>4, <2>5, <4>1, <4>2, <4>3, SMTT(30)
      <4>4. CASE q # p
        <5>1. port'[q] = port[q]
          BY <2>3, <4>4
        <5> QED
          BY <4>1, <4>2, <5>1
      <4> QED
        BY <4>3, <4>4
    <3> QED
      BY <1>1, <1>8, <3>1 DEF PortsInv
  <2>10. LengthsInv'
    <3>1. ASSUME NEW q \in Procs
          PROVE  /\ Len(buffer[q]) <= Len(buffer'[q])
                 /\ Len(buffer[q]) \in Nat /\ Len(buffer'[q]) \in Nat
      <4>1. Len(buffer[q]) \in Nat /\ Len(buffer'[q]) \in Nat
        BY <2>3, Types
      <4>2. CASE q = p
        BY <2>3, <4>1, <4>2
      <4>3. CASE q # p
        <5>1. Len(buffer'[q]) = Len(buffer[q])
          BY <2>3, <4>3
        <5> QED
          BY <4>1, <5>1
      <4> QED
        BY <4>2, <4>3
    <3>2. ASSUME NEW q \in Procs, NEW m \in DOMAIN port[q]
          PROVE  port[q][m].len <= Len(buffer'[q])
      <4>1. port[q][m].len <= Len(buffer[q])
        BY DEF IInv, LengthsInv
      <4>2. port[q] \in Seq(Completions)
        BY Types
      <4>3. port[q][m] \in Completions
        BY <4>2
      <4>4. port[q][m].len \in Nat
        BY <4>3 DEF Completions
      <4> QED
        BY <3>1, <4>1, <4>4
    <3>3. ASSUME NEW q \in Procs, NEW m \in DOMAIN port'[q]
          PROVE  port'[q][m].len <= Len(buffer'[q])
      <4>1. CASE q = p /\ m = k
        BY <2>3, <2>5, <4>1
      <4>2. CASE ~(q = p /\ m = k)
        <5>1. m \in DOMAIN port[q] /\ port'[q][m] = port[q][m]
          BY <2>3, <2>4, <4>2
        <5> QED
          BY <3>2, <5>1
      <4> QED
        BY <4>1, <4>2
    <3>4. ASSUME NEW q \in Procs, worker'[q] = "callback"
          PROVE  got[q] \in Completions /\ got[q].len <= Len(buffer'[q])
      <4>1. worker[q] = "callback"
        BY <1>7, <3>4
      <4>2. got[q] \in Completions /\ got[q].len <= Len(buffer[q])
        BY <4>1 DEF IInv, LengthsInv
      <4>3. got[q].len \in Nat
        BY <4>2 DEF Completions
      <4> QED
        BY <3>1, <4>2, <4>3
    <3> QED
      BY <1>1, <3>3, <3>4 DEF LengthsInv
  <2>11. ReadChained'
    <3>1. ASSUME NEW q \in Procs, Reads(q)'
          PROVE  \/ PeerGone(q)'
                 \/ worker'[q] \in {"callback", "rearm"}
                 \/ handle'[q] \in reading'
                 \/ \E m \in DOMAIN port'[q] : port'[q][m].op # "fail"
      <4>1. CASE q = p
        BY <2>4, <2>5, <4>1
      <4>2. CASE q # p
        <5>1. Reads(q)
          BY <1>1, <1>8, <3>1 DEF Reads
        <5>2. port'[q] = port[q] /\ worker'[q] = worker[q] /\ handle'[q] = handle[q]
          BY <1>1, <1>7, <2>3, <4>2
        <5>3. \/ PeerGone(q)
              \/ worker[q] \in {"callback", "rearm"}
              \/ handle[q] \in reading
              \/ \E m \in DOMAIN port[q] : port[q][m].op # "fail"
          BY <5>1 DEF IInv, ReadChained
        <5> QED
          BY <1>8, <2>2, <5>2, <5>3
      <4> QED
        BY <4>1, <4>2
    <3> QED
      BY <3>1 DEF ReadChained
  <2> QED
    BY <1>8, <2>6, <2>7, <2>8, <2>9, <2>10, <2>11 DEF IInv
<1>10. CASE wire[i][s] = <<>>
  <2>1. /\ UNCHANGED <<wire, port, buffer, accepts>>
        /\ \/ end[i][o] # None /\ reading' = reading \union {<<i, s>>}
           \/ end[i][o] = None /\ UNCHANGED reading
    BY <1>3, <1>4, <1>6, <1>10, AsyncReadFacts
  <2>2. TypeOK'
    <3>1. reading' \subseteq Ends
      BY <2>1, Types DEF Ends
    <3>2. IocpTypeOK'
      BY <1>1, <2>1, <3>1, Types DEF IocpTypeOK
    <3>3. Np2TypeOK'
      BY <1>1, <1>7, Types DEF Np2TypeOK
    <3> QED
      BY <3>2, <3>3 DEF TypeOK
  <2>3. OperationsInv'
    <3>1. \A j \in Pipes, t \in Sides : Pending(j, Other(t))' = Pending(j, Other(t))
      BY <2>1 DEF Pending
    <3>2. \A j \in Pipes, t \in Sides : <<j, t>> \in reading' =>
            <<j, t>> \in reading \/ (j = i /\ t = s /\ end[i][Other(s)] # None)
      BY <1>3, <2>1
    <3>3. "server" \in Sides
      BY DEF Sides
    <3>4. OperationsInv
      BY DEF IInv
    <3>5. ASSUME NEW j \in Pipes, NEW t \in Sides
          PROVE  /\ <<j, t>> \in reading' =>
                      /\ Owned(j, t)' /\ phase'[j] = "connected" /\ end'[j][Other(t)] # None
                      /\ wire'[j][t] = <<>>
                 /\ wire'[j][t] # <<>> => phase'[j] = "connected" /\ end'[j][t] # None
      BY <1>1, <1>4, <1>5, <1>8, <1>10, <2>1, <3>2, <3>4 DEF OperationsInv
    <3>6. \A j \in Pipes, t \in Sides : Pending(j, Other(t))' > 0 => Owned(j, t)'
      BY <1>8, <3>1, <3>4 DEF OperationsInv
    <3>7. \A j \in Pipes : j \in accepts' => Owned(j, "server")' /\ phase'[j] = "listening"
      BY <1>1, <1>8, <2>1, <3>3, <3>4 DEF OperationsInv
    <3> QED
      BY <3>5, <3>6, <3>7 DEF OperationsInv
  <2>4. ThreadInv'
    <3>1. \A q \in Procs : worker'[q] # "none" => worker[q] # "none"
      BY <1>1, <1>7
    <3> QED
      BY <1>1, <1>8, <2>1, <3>1 DEF IInv, ThreadInv
  <2>5. PortsInv'
    <3>1. \A q \in Procs : worker'[q] \in {"callback", "rearm"} => worker[q] \in {"callback", "rearm"}
      BY <1>7
    <3> QED
      BY <1>1, <1>8, <2>1, <3>1 DEF IInv, PortsInv
  <2>6. LengthsInv'
    <3>1. \A q \in Procs : worker'[q] = "callback" => worker[q] = "callback"
      BY <1>7
    <3> QED
      BY <1>1, <2>1, <3>1 DEF IInv, LengthsInv
  <2>7. ReadChained'
    <3>1. ASSUME NEW q \in Procs, Reads(q)'
          PROVE  \/ PeerGone(q)'
                 \/ worker'[q] \in {"callback", "rearm"}
                 \/ handle'[q] \in reading'
                 \/ \E m \in DOMAIN port'[q] : port'[q][m].op # "fail"
      <4>1. CASE q = p
        <5>1. end[i][o] = None => PeerGone(p)
          BY <1>2, <1>3, <1>4 DEF PeerGone
        <5> QED
          BY <1>1, <1>2, <1>8, <2>1, <4>1, <5>1
      <4>2. CASE q # p
        <5>1. Reads(q)
          BY <1>1, <1>8, <3>1 DEF Reads
        <5> QED
          BY <1>1, <1>7, <1>8, <2>1, <4>2, <5>1 DEF IInv, ReadChained
      <4> QED
        BY <4>1, <4>2
    <3> QED
      BY <3>1 DEF ReadChained
  <2> QED
    BY <1>8, <2>2, <2>3, <2>4, <2>5, <2>6, <2>7 DEF IInv
<1> QED
  BY <1>9, <1>10

\* An end that a process has open, and no longer uses, is closed.
LEMMA CloseKeeps ==
  ASSUME IInv, NEW p \in Procs, NEW i \in Pipes, NEW s \in Sides, end[i][s] = p,
         Close(p, i, s),
         UNCHANGED <<got, Stopping, Listeners, sends>>,
         \A q \in Procs : q # p => /\ pc'[q] = pc[q]
                                   /\ worker'[q] = worker[q]
                                   /\ handle'[q] = handle[q],
         pc' \in [Procs -> {"new", "created", "up", "joining", "stopped", "exiting"}],
         worker' \in [Procs -> {"none", "check", "run", "callback", "rearm", "ended"}],
         handle' \in [Procs -> Ends \union {None}],
         \/ /\ handle[p] = <<i, s>>
            /\ pc'[p] = "stopped" /\ handle'[p] = None /\ worker'[p] = "none"
            /\ pc[p] = "joining"
         \/ /\ pc[p] = "exiting"
            /\ pc'[p] = "exiting" /\ handle'[p] = handle[p] /\ worker'[p] = worker[p]
  PROVE  IInv'
<1>1. PICK o \in Sides : o = Other(s) /\ o # s /\ s = Other(o) /\ \A t \in Sides : t = s \/ t = o
  BY Others
<1>2. IocpTypeOK
  BY Types
<1>3. /\ IocpTypeOK'
      /\ end'[i][s] = None
      /\ \A j \in Pipes, t \in Sides : j # i \/ t # s => end'[j][t] = end[j][t]
      /\ wire'[i][s] = <<>>
      /\ \E k \in 0 .. Len(wire[i][Other(s)]) :
           k <= Quota /\ wire'[i][Other(s)] = SubSeq(wire[i][Other(s)], 1, k)
      /\ \A j \in Pipes, t \in Sides : j # i => wire'[j][t] = wire[j][t]
      /\ reading' = reading \ {<<i, "server">>, <<i, "client">>}
      /\ accepts' = accepts \ {i}
      /\ UNCHANGED <<phase, buffer, written, heard>>
  BY <1>2, CloseFacts
<1>4. PICK k \in 0 .. Len(wire[i][o]) : k <= Quota /\ wire'[i][o] = SubSeq(wire[i][o], 1, k)
  BY <1>1, <1>3
<1>5. /\ \A j \in Pipes, t \in Sides : end'[j][t] = end[j][t] \/ end'[j][t] = None
      /\ \A j \in Pipes, t \in Sides : end[j][t] # None /\ end'[j][t] = None => j = i /\ t = s
  BY <1>3
<1>6. \A q \in Procs : Running(q)' => Running(q) /\ q # p
  BY DEF Running
<1>7. TypeOK'
  <2>1. ASSUME NEW q \in Procs, pc'[q] # "exiting"
        PROVE  handle'[q] = None <=> pc'[q] \in {"new", "stopped"}
    <3>1. CASE q = p
      BY <2>1, <3>1
    <3>2. CASE q # p
      <4>1. pc'[q] = pc[q] /\ handle'[q] = handle[q]
        BY <3>2
      <4>2. pc[q] # "exiting" => (handle[q] = None <=> pc[q] \in {"new", "stopped"})
        BY Types DEF Np2TypeOK
      <4> QED
        BY <2>1, <4>1, <4>2
    <3> QED
      BY <3>1, <3>2
  <2>2. Np2TypeOK'
    BY <2>1, Types DEF Np2TypeOK
  <2> QED
    BY <1>3, <2>2 DEF TypeOK
<1>8. PipesInv'
  <2>1. "server" \in Sides /\ "client" \in Sides
    BY DEF Sides
  <2>2. \A j \in Pipes : pc'[j] = "new" => pc[j] = "new"
    BY DEF Pipes
  <2> QED
    BY <1>3, <1>5, <2>1, <2>2 DEF IInv, PipesInv
<1>9. ASSUME NEW q \in Procs, q # p, pc[q] \in {"created", "up", "joining"}
      PROVE  \E j \in Pipes, t \in Sides :
               /\ handle[q] = <<j, t>> /\ end[j][t] = q
               /\ j # i \/ t # s
               /\ end'[j][t] = q
  BY <1>3, <1>9, HandleEnd
<1>10. HandlesInv'
  <2>1. ASSUME NEW q \in Procs
        PROVE  /\ pc'[q] = "created" => handle'[q] = <<q, "server">>
               /\ pc'[q] \in {"created", "up", "joining"} => end'[handle'[q][1]][handle'[q][2]] = q
               /\ q \in Servers /\ handle'[q] # None => handle'[q] = <<q, "server">>
               /\ q \in Clients /\ Running(q)' =>
                    handle'[q][2] = "client" /\ phase'[handle'[q][1]] = "connected"
    <3>1. CASE q = p
      <4>1. pc'[p] \in {"stopped", "exiting"} /\ ~Running(p)'
        BY <1>6
      <4>2. handle'[p] # None => handle'[p] = handle[p]
        OBVIOUS
      <4> QED
        BY <3>1, <4>1, <4>2 DEF IInv, HandlesInv
    <3>2. CASE q # p
      <4>1. pc'[q] = pc[q] /\ handle'[q] = handle[q] /\ (Running(q)' => Running(q))
        BY <1>6, <3>2
      <4>2. pc[q] \in {"created", "up", "joining"} => end'[handle[q][1]][handle[q][2]] = q
        BY <1>9, <3>2
      <4> QED
        BY <1>3, <4>1, <4>2 DEF IInv, HandlesInv
    <3> QED
      BY <3>1, <3>2
  <2> QED
    BY <2>1 DEF HandlesInv
<1>11. OperationsInv'
  <2>1. ASSUME NEW j \in Pipes, NEW t \in Sides, Owned(j, t), j # i
        PROVE  Owned(j, t)'
    <3>1. end[j][t] \in Procs
      BY <2>1, Types DEF Owned
    <3>2. CASE end[j][t] = p
      <4>1. handle[p] = <<j, t>>
        BY <2>1, <3>2 DEF Owned
      <4>2. pc[p] = "exiting" /\ pc'[p] = "exiting" /\ handle'[p] = handle[p]
        BY <2>1, <4>1
      <4>3. end'[j][t] = end[j][t]
        BY <1>3, <2>1
      <4> QED
        BY <2>1, <3>2, <4>1, <4>2, <4>3 DEF Owned
    <3>3. CASE end[j][t] # p
      <4>1. end'[j][t] = end[j][t]
        BY <1>3, <2>1
      <4> QED
        BY <2>1, <3>1, <3>3, <4>1 DEF Owned
    <3> QED
      BY <3>2, <3>3
  <2>2. ASSUME NEW t \in Sides
        PROVE  /\ <<i, t>> \notin reading'
               /\ ~(Pending(i, t)' > 0)
               /\ wire'[i][t] # <<>> => phase'[i] = "connected" /\ end'[i][t] # None
    <3>1. <<i, t>> \notin reading'
      BY <1>3 DEF Sides
    <3>2. CASE t = s
      <4>1. Len(<<>>) = 0
        OBVIOUS
      <4>2. Pending(i, s)' = 0
        BY <1>3, <4>1, IocpAssumption DEF Pending
      <4> QED
        BY <1>3, <3>1, <3>2, <4>2
    <3>3. CASE t = o
      <4>1. PICK v \in Seq(Seq(Nat)) : v = wire[i][o]
        BY Types
      <4>2. k \in Nat /\ k <= Len(v) /\ Len(v) \in Nat
        BY <1>4, <4>1
      <4>3. Len(SubSeq(v, 1, k)) = k
        BY <4>2
      <4>4. Len(wire'[i][o]) = k
        BY <1>4, <4>1, <4>3
      <4>5. Pending(i, o)' = 0
        BY <1>4, <4>2, <4>4, IocpAssumption DEF Pending
      <4>6. wire'[i][o] # <<>> => wire[i][o] # <<>>
        BY <1>4, <4>1, <4>2
      <4>7. wire[i][o] # <<>> => phase[i] = "connected" /\ end[i][o] # None
        BY DEF IInv, OperationsInv
      <4> QED
        BY <1>1, <1>3, <3>1, <3>3, <4>5, <4>6, <4>7
    <3> QED
      BY <1>1, <3>2, <3>3
  <2>3. ASSUME NEW j \in Pipes, NEW t \in Sides
        PROVE  /\ <<j, t>> \in reading' =>
                    /\ Owned(j, t)' /\ phase'[j] = "connected" /\ end'[j][Other(t)] # None
                    /\ wire'[j][t] = <<>>
               /\ Pending(j, Other(t))' > 0 => Owned(j, t)'
               /\ wire'[j][t] # <<>> => phase'[j] = "connected" /\ end'[j][t] # None
    <3>1. Other(t) \in Sides
      BY Others
    <3>2. CASE j = i
      BY <2>2, <3>1, <3>2
    <3>3. CASE j # i
      <4>1. /\ <<j, t>> \in reading =>
                 /\ Owned(j, t) /\ phase[j] = "connected" /\ end[j][Other(t)] # None
                 /\ wire[j][t] = <<>>
            /\ Pending(j, Other(t)) > 0 => Owned(j, t)
            /\ wire[j][t] # <<>> => phase[j] = "connected" /\ end[j][t] # None
        BY DEF IInv, OperationsInv
      <4>2. /\ wire'[j][t] = wire[j][t] /\ end'[j][t] = end[j][t] /\ end'[j][Other(t)] = end[j][Other(t)]
            /\ <<j, t>> \in reading' => <<j, t>> \in reading
        BY <1>3, <3>1, <3>3
      <4>3. Pending(j, Other(t))' = Pending(j, Other(t))
        BY <1>3, <3>1, <3>3 DEF Pending
      <4> QED
        BY <1>3, <2>1, <3>3, <4>1, <4>2, <4>3
    <3> QED
      BY <3>2, <3>3
  <2>4. ASSUME NEW j \in Pipes, j \in accepts'
        PROVE  Owned(j, "server")' /\ phase'[j] = "listening"
    <3>1. "server" \in Sides /\ j \in accepts /\ j # i
      BY <1>3, <2>4 DEF Sides
    <3> QED
      BY <1>3, <2>1, <3>1 DEF IInv, OperationsInv
  <2> QED
    BY <2>3, <2>4 DEF OperationsInv
<1>12. ASSUME NEW q \in Procs
       PROVE  /\ DOMAIN port[q] \subseteq DOMAIN port'[q]
              /\ \A n \in DOMAIN port[q] : port'[q][n] = port[q][n]
              /\ \A n \in DOMAIN port'[q] \ DOMAIN port[q] :
                   /\ port'[q][n].op = "fail" /\ port'[q][n].len = 0
                   /\ q # p => /\ handle[q] = <<i, o>> /\ pc[q] \notin {"new", "created"}
                               /\ phase[i] = "connected"
  <2>1. /\ DOMAIN port[q] \subseteq DOMAIN port'[q]
        /\ \A n \in DOMAIN port[q] : port'[q][n] = port[q][n]
        /\ \A n \in DOMAIN port'[q] \ DOMAIN port[q] :
             /\ port'[q][n] = Completion("fail", 0)
             /\ q = p \/ (q = end[i][o] /\ Outstanding(i, o) > 0)
    BY <1>1, <1>2, ClosePorts
  <2>2. ASSUME q = end[i][o], Outstanding(i, o) > 0
        PROVE  /\ handle[q] = <<i, o>> /\ pc[q] \notin {"new", "created"}
               /\ phase[i] = "connected"
    <3>1. \/ Pending(i, s) > 0
          \/ <<i, o>> \in reading
          \/ o = "server" /\ i \in accepts
      <4>1. Len(wire[i][s]) \in Nat /\ Quota \in Nat
        BY Types, IocpAssumption
      <4>2. Pending(i, s) \in Nat
        BY <4>1 DEF Pending
      <4> QED
        BY <1>1, <2>2, <4>2 DEF Outstanding
    <3>2. "server" \in Sides
      BY DEF Sides
    <3>3. Owned(i, o)
      BY <1>1, <3>1, <3>2 DEF IInv, OperationsInv
    <3>4. phase[i] = "connected"
      <4>1. CASE Pending(i, s) > 0
        <5>1. wire[i][s] # <<>>
          <6>1. Len(<<>>) = 0
            OBVIOUS
          <6>2. Quota \in Nat
            BY IocpAssumption
          <6> QED
            BY <4>1, <6>1, <6>2 DEF Pending
        <5> QED
          BY <5>1 DEF IInv, OperationsInv
      <4>2. CASE <<i, o>> \in reading
        BY <4>2 DEF IInv, OperationsInv
      <4>3. CASE o = "server" /\ i \in accepts
        <5>1. phase[i] = "listening"
          BY <3>2, <4>3 DEF IInv, OperationsInv
        <5>2. end[i]["client"] = None
          BY <5>1 DEF IInv, PipesInv
        <5>3. s = "client"
          BY <1>1, <4>3 DEF Sides
        <5> QED
          BY <5>2, <5>3, IocpAssumption
      <4> QED
        BY <3>1, <4>1, <4>2, <4>3
    <3> QED
      BY <2>2, <3>3, <3>4 DEF Owned
  <2>3. Completion("fail", 0).op = "fail" /\ Completion("fail", 0).len = 0
    BY DEF Completion
  <2> QED
    BY <2>1, <2>2, <2>3
<1>13. ThreadInv'
  <2>1. ASSUME NEW q \in Procs, pc'[q] \in {"new", "created"}
        PROVE  port'[q] = <<>> /\ Listeners'[q] = <<>>
    <3>1. q # p /\ pc[q] \in {"new", "created"}
      BY <2>1
    <3>2. port[q] = <<>> /\ Listeners[q] = <<>>
      BY <3>1 DEF IInv, ThreadInv
    <3>3. DOMAIN port'[q] = {}
      <4>1. DOMAIN port[q] = {}
        BY <3>2
      <4> QED
        BY <1>12, <3>1, <4>1
    <3>4. PICK a \in Seq(Completions) : a = port'[q]
      BY <1>3 DEF IocpTypeOK
    <3>5. Len(a) = 0
      <4>1. DOMAIN a = {}
        BY <3>3, <3>4
      <4> QED
        BY <4>1
    <3> QED
      BY <3>2, <3>4, <3>5
  <2>2. \A q \in Procs : worker'[q] # "none" => pc'[q] \in {"up", "joining", "exiting"}
    BY DEF IInv, ThreadInv
  <2>3. \A q \in Procs : q \in Servers /\ Running(q)' => Len(Listeners[q]) = 1
    BY <1>6 DEF IInv, ThreadInv
  <2>4. \A q \in Procs : Len(Listeners[q]) <= 1
    BY DEF IInv, ThreadInv
  <2> QED
    BY <2>1, <2>2, <2>3, <2>4 DEF ThreadInv
<1>14. ASSUME NEW q \in Procs, Running(q), q # p
       PROVE  PeerGone(q) => PeerGone(q)'
  <2>1. PICK j \in Pipes, t \in Sides : handle[q] = <<j, t>>
    BY <1>14, HandleEnd DEF Running
  <2>2. handle'[q] = <<j, t>> /\ phase'[j] = phase[j]
    BY <1>3, <1>14, <2>1
  <2>3. Other(t) \in Sides
    BY Others
  <2>4. end[j][Other(t)] = None => end'[j][Other(t)] = None
    BY <1>5, <2>3
  <2> QED
    BY <2>1, <2>2, <2>4 DEF PeerGone
<1>15. ASSUME NEW q \in Procs, Running(q), q # p, handle[q] = <<i, o>>, phase[i] = "connected"
       PROVE  PeerGone(q)'
  <2>1. handle'[q] = <<i, o>> /\ phase'[i] = "connected"
    BY <1>3, <1>15
  <2> QED
    BY <1>1, <1>3, <2>1 DEF PeerGone
<1>16. PortsInv'
  <2>1. ASSUME NEW q \in Procs, Running(q)'
        PROVE  /\ worker'[q] \in {"callback", "rearm"} => phase'[handle'[q][1]] = "connected"
               /\ \A n \in DOMAIN port'[q] :
                    IF port'[q][n].op = "fail" THEN PeerGone(q)'
                                               ELSE phase'[handle'[q][1]] = "connected"
    <3>1. Running(q) /\ q # p
      BY <1>6, <2>1
    <3>2. /\ worker[q] \in {"callback", "rearm"} => phase[handle[q][1]] = "connected"
          /\ \A n \in DOMAIN port[q] :
               IF port[q][n].op = "fail" THEN PeerGone(q) ELSE phase[handle[q][1]] = "connected"
      BY <3>1 DEF IInv, PortsInv
    <3>3. ASSUME NEW n \in DOMAIN port'[q]
          PROVE  IF port'[q][n].op = "fail" THEN PeerGone(q)'
                                            ELSE phase'[handle'[q][1]] = "connected"
      <4>1. CASE n \in DOMAIN port[q]
        <5>1. port'[q][n] = port[q][n]
          BY <1>12, <4>1
        <5> QED
          BY <1>3, <1>14, <3>1, <3>2, <4>1, <5>1
      <4>2. CASE n \notin DOMAIN port[q]
        <5>1. port'[q][n].op = "fail" /\ handle[q] = <<i, o>> /\ phase[i] = "connected"
          BY <1>12, <3>1, <4>2
        <5> QED
          BY <1>15, <3>1, <5>1
      <4> QED
        BY <4>1, <4>2
    <3> QED
      BY <1>3, <3>1, <3>2, <3>3
  <2> QED
    BY <2>1 DEF PortsInv
<1>17. LengthsInv'
  <2>1. ASSUME NEW q \in Procs, NEW n \in DOMAIN port'[q]
        PROVE  port'[q][n].len <= Len(buffer[q])
    <3>1. CASE n \in DOMAIN port[q]
      <4>1. port'[q][n] = port[q][n]
        BY <1>12, <3>1
      <4> QED
        BY <3>1, <4>1 DEF IInv, LengthsInv
    <3>2. CASE n \notin DOMAIN port[q]
      <4>1. port'[q][n].len = 0
        BY <1>12, <3>2
      <4>2. Len(buffer[q]) \in Nat
        BY Types
      <4> QED
        BY <4>1, <4>2
    <3> QED
      BY <3>1, <3>2
  <2>2. \A q \in Procs : worker'[q] = "callback" => worker[q] = "callback"
    OBVIOUS
  <2> QED
    BY <1>3, <2>1, <2>2 DEF IInv, LengthsInv
<1>18. ReadChained'
  <2>1. ASSUME NEW q \in Procs, Reads(q)'
        PROVE  \/ PeerGone(q)'
               \/ worker'[q] \in {"callback", "rearm"}
               \/ handle'[q] \in reading'
               \/ \E n \in DOMAIN port'[q] : port'[q][n].op # "fail"
    <3>1. Running(q) /\ q # p /\ Reads(q)
      BY <1>6, <2>1 DEF Reads
    <3>2. PICK j \in Pipes, t \in Sides : handle[q] = <<j, t>> /\ (j # i \/ t # s)
      BY <1>9, <3>1 DEF Running
    <3>3. CASE handle[q] \in reading
      <4>1. CASE j = i
        <5>1. t = o
          BY <1>1, <3>2, <4>1
        <5>2. phase[i] = "connected"
          BY <3>2, <3>3, <4>1 DEF IInv, OperationsInv
        <5> QED
          BY <1>15, <3>1, <3>2, <4>1, <5>1, <5>2
      <4>2. CASE j # i
        BY <1>3, <3>1, <3>2, <3>3, <4>2
      <4> QED
        BY <4>1, <4>2
    <3>4. CASE \E n \in DOMAIN port[q] : port[q][n].op # "fail"
      BY <1>12, <3>4
    <3>5. CASE PeerGone(q) \/ worker[q] \in {"callback", "rearm"}
      BY <1>14, <3>1, <3>5
    <3> QED
      BY <3>1, <3>3, <3>4, <3>5 DEF IInv, ReadChained
  <2> QED
    BY <2>1 DEF ReadChained
<1> QED
  BY <1>7, <1>8, <1>10, <1>11, <1>13, <1>16, <1>17, <1>18 DEF IInv

\* The Pipe is closed once the thread has ended.
LEMMA JoinedKeeps ==
  ASSUME IInv, NEW p \in Procs, Joined(p)
  PROVE  IInv'
<1>1. /\ pc[p] = "joining"
      /\ Close(p, handle[p][1], handle[p][2])
      /\ handle' = [handle EXCEPT ![p] = None]
      /\ worker' = [worker EXCEPT ![p] = "none"]
      /\ pc' = [pc EXCEPT ![p] = "stopped"]
      /\ UNCHANGED <<sends, got, Stopping, Listeners>>
  BY DEF Joined
<1>2. PICK i \in Pipes, s \in Sides : handle[p] = <<i, s>> /\ end[i][s] = p
  BY <1>1, HandleEnd
<1>3. Close(p, i, s)
  BY <1>1, <1>2
<1>4. /\ pc' \in [Procs -> {"new", "created", "up", "joining", "stopped", "exiting"}]
      /\ pc'[p] = "stopped"
      /\ \A q \in Procs : q # p => pc'[q] = pc[q]
  BY <1>1, Types
<1>5. /\ worker' \in [Procs -> {"none", "check", "run", "callback", "rearm", "ended"}]
      /\ worker'[p] = "none"
      /\ \A q \in Procs : q # p => worker'[q] = worker[q]
  BY <1>1, Types
<1>6. /\ handle' \in [Procs -> Ends \union {None}]
      /\ handle'[p] = None
      /\ \A q \in Procs : q # p => handle'[q] = handle[q]
  BY <1>1, Types
<1> QED
  BY <1>1, <1>2, <1>3, <1>4, <1>5, <1>6, CloseKeeps

\* The kernel closes an end of a process that has ended.
LEMMA CloseOnExitKeeps ==
  ASSUME IInv, NEW p \in Procs, CloseOnExit(p)
  PROVE  IInv'
<1>1. /\ pc[p] = "exiting"
      /\ UNCHANGED <<pc, handle, sends, worker, got, Stopping, Listeners>>
  BY DEF CloseOnExit, mainVars, threadVars
<1>2. PICK i \in Pipes, s \in Sides : end[i][s] = p /\ Close(p, i, s)
  BY DEF CloseOnExit
<1>3. /\ pc' \in [Procs -> {"new", "created", "up", "joining", "stopped", "exiting"}]
      /\ worker' \in [Procs -> {"none", "check", "run", "callback", "rearm", "ended"}]
      /\ handle' \in [Procs -> Ends \union {None}]
  BY <1>1, Types
<1> QED
  BY <1>1, <1>2, <1>3, CloseKeeps

\* The invariant holds at first.
LEMMA InitIInv == Init => IInv
<1> SUFFICES ASSUME Init PROVE IInv
  OBVIOUS
<1> USE DEF Init, IocpInit, Np2Init, Nothing
<1>1. "server" \in Sides /\ "client" \in Sides
  BY DEF Sides
<1>2. TypeOK
  <2>1. /\ wire \in [Pipes -> [Sides -> Seq(Seq(Nat))]]
        /\ written \in [Pipes -> [Sides -> Seq(Nat)]]
        /\ heard \in [Pipes -> [Sides -> Seq(Nat)]]
    OBVIOUS
  <2>2. /\ port \in [Procs -> Seq(Completions)]
        /\ buffer \in [Procs -> Seq(Nat)]
    OBVIOUS
  <2>3. Listeners \in [Procs -> Seq(BOOLEAN)]
    OBVIOUS
  <2>4. IocpTypeOK
    BY <2>1, <2>2 DEF IocpTypeOK
  <2>5. Np2TypeOK
    BY <2>3 DEF Np2TypeOK
  <2> QED
    BY <2>4, <2>5 DEF TypeOK
<1>3. PipesInv
  BY <1>1 DEF PipesInv, Pipes
<1>4. HandlesInv
  BY DEF HandlesInv, Running
<1>5. OperationsInv
  <2>1. ASSUME NEW i \in Pipes, NEW s \in Sides
        PROVE  ~(Pending(i, Other(s)) > 0) /\ wire[i][s] = <<>>
    <3>1. Other(s) \in Sides
      BY Others
    <3>2. wire[i][Other(s)] = <<>> /\ Len(<<>>) = 0
      BY <3>1
    <3> QED
      BY <3>2, IocpAssumption DEF Pending
  <2> QED
    BY <2>1 DEF OperationsInv
<1>6. ThreadInv
  BY DEF ThreadInv, Running
<1>7. PortsInv
  BY DEF PortsInv, Running
<1>8. LengthsInv
  BY DEF LengthsInv
<1>9. ReadChained
  BY DEF ReadChained, Reads, Running
<1> QED
  BY <1>2, <1>3, <1>4, <1>5, <1>6, <1>7, <1>8, <1>9 DEF IInv

\* It holds on when nothing happens.
LEMMA StutterKeeps ==
  ASSUME IInv, UNCHANGED vars
  PROVE  IInv'
<1>1. UNCHANGED <<phase, end, wire, reading, accepts, port, buffer, written, heard, pc, handle,
                  sends, worker, got, Stopping, Listeners>>
  BY DEF vars, iocpVars, endVars, opVars, portVars, history, mainVars, threadVars
<1>2. /\ PipesInv' /\ HandlesInv'
      /\ \A q \in Procs : (Running(q)' <=> Running(q)) /\ (PeerGone(q)' <=> PeerGone(q))
  BY <1>1, EndsKept
<1>3. TypeOK'
  BY <1>1 DEF IInv, TypeOK, IocpTypeOK, Np2TypeOK
<1>4. OperationsInv'
  BY <1>1, OperationsKept DEF IInv
<1>5. ThreadInv'
  BY <1>1, <1>2 DEF IInv, ThreadInv
<1>6. PortsInv'
  BY <1>1, <1>2 DEF IInv, PortsInv
<1>7. LengthsInv'
  BY <1>1 DEF IInv, LengthsInv
<1>8. ReadChained'
  BY <1>1, <1>2 DEF IInv, ReadChained, Reads
<1> QED
  BY <1>2, <1>3, <1>4, <1>5, <1>6, <1>7, <1>8 DEF IInv

\* Every step keeps it.
LEMMA NextIInv == IInv /\ [Next]_vars => IInv'
<1> SUFFICES ASSUME IInv, [Next]_vars PROVE IInv'
  OBVIOUS
<1>1. CASE UNCHANGED vars
  BY <1>1, StutterKeeps
<1>2. CASE Next
  <2>1. PICK p \in Procs : Main(p) \/ Thread(p) \/ Exit(p) \/ CloseOnExit(p)
    BY <1>2 DEF Next
  <2>2. CASE Main(p)
    BY <2>2, StartKeeps, AcceptConnectionKeeps, ConnectAsyncKeeps, ConnectThrowsKeeps,
       MainWriteKeeps, StopKeeps, JoinedKeeps DEF Main
  <2>3. CASE Thread(p)
    BY <2>3, CheckStoppingKeeps, GetCompletionKeeps, OnAcceptKeeps, OnConnectKeeps, OnReadKeeps,
       ReadAsyncKeeps DEF Thread
  <2>4. CASE Exit(p)
    BY <2>4, ExitKeeps
  <2>5. CASE CloseOnExit(p)
    BY <2>5, CloseOnExitKeeps
  <2> QED
    BY <2>1, <2>2, <2>3, <2>4, <2>5
<1> QED
  BY <1>1, <1>2

(***************************************************************************)
(* The theorems.                                                           *)
(***************************************************************************)

\* The inductive invariant holds in every state.
THEOREM Invariance == Spec => []IInv
BY InitIInv, NextIInv, PTL DEF Spec

\* Every variable keeps its type, and a process that runs has a Pipe.
THEOREM TypeCorrect == Spec => []TypeOK
<1>1. IInv => TypeOK
  BY DEF IInv
<1> QED
  BY <1>1, Invariance, PTL

\* The chain of reads never breaks: a process that reads has a read outstanding, a
\* completion to come, or is in the callback that reads next, until the process at the
\* other end is gone (ReadAsync).
THEOREM ReadsChained == Spec => []ReadChained
<1>1. IInv => ReadChained
  BY DEF IInv
<1> QED
  BY <1>1, Invariance, PTL

\* What run() returns for has come from the other end: the process there has closed it.
\* Only GetCompletion leaves run() for the loop, with a completion that failed.
THEOREM RunReturnsLate == Spec => RunNeedsPeerGone
<1> DEFINE A == \A p \in Procs : worker[p] = "run" /\ worker'[p] = "check" => PeerGone(p)
<1>1. IInv /\ [Next]_vars => [A]_vars
  <2> SUFFICES ASSUME IInv, Next, NEW q \in Procs, worker[q] = "run", worker'[q] = "check"
               PROVE  PeerGone(q)
    OBVIOUS
  <2>1. worker \in [Procs -> {"none", "check", "run", "callback", "rearm", "ended"}]
    BY Types
  <2>2. PICK p \in Procs : Main(p) \/ Thread(p) \/ Exit(p) \/ CloseOnExit(p)
    BY DEF Next
  <2>3. CASE GetCompletion(p)
    <3>1. /\ Running(p) /\ port[p] # <<>>
          /\ worker' = [worker EXCEPT ![p] = IF Head(port[p]).op = "fail" THEN "check" ELSE "callback"]
      BY <2>3 DEF GetCompletion
    <3>2. q = p /\ Head(port[p]).op = "fail"
      BY <2>1, <3>1
    <3>3. 1 \in DOMAIN port[p] /\ Head(port[p]) = port[p][1]
      <4>1. PICK a \in Seq(Completions) : a = port[p]
        BY Types
      <4>2. a # <<>>
        BY <3>1, <4>1
      <4> QED
        BY <4>1, <4>2
    <3> QED
      BY <3>1, <3>2, <3>3 DEF IInv, PortsInv
  <2>4. CASE Main(p)
    <3>1. worker' = worker \/ worker' = [worker EXCEPT ![p] = "none"]
             \/ (pc[p] = "created" /\ worker' = [worker EXCEPT ![p] = "check"])
      BY <2>4 DEF Main, Start, AcceptConnection, ConnectAsync, ConnectThrows, MainWrite, Stop,
                  Joined, threadVars
    <3>2. pc[p] = "created" => worker[p] = "none"
      BY <2>1 DEF IInv, ThreadInv
    <3> QED
      BY <2>1, <3>1, <3>2
  <2>5. CASE Thread(p) /\ ~GetCompletion(p)
    <3>1. \/ worker[p] # "run" /\ \E x : worker' = [worker EXCEPT ![p] = x]
      BY <2>5 DEF Thread, CheckStopping, OnAccept, OnConnect, OnRead, ReadAsync, Calls
    <3> QED
      BY <2>1, <3>1
  <2>6. CASE Exit(p) \/ CloseOnExit(p)
    BY <2>6 DEF Exit, CloseOnExit, threadVars
  <2> QED
    BY <2>2, <2>3, <2>4, <2>5, <2>6
<1> QED
  BY <1>1, Invariance, PTL DEF Spec, RunNeedsPeerGone

--------------------------------------------------------------------------------
(***************************************************************************)
(* Why OnMessage is given the messages in order.  A process has one        *)
(* operation at most that can still succeed (OneAtATime), so its Buffer    *)
(* holds one message at most that no callback was given yet; what was      *)
(* heard at an end, that message and what is on the wire are then, in this *)
(* order, what was written to it (OrderInv).                               *)
(***************************************************************************)

(***************************************************************************)
(* One operation at a time.                                                *)
(***************************************************************************)

\* A process none of whose operations or completions are new.
LEMMA OneKept ==
  ASSUME NEW q \in Procs, One(q), Succeeded(q)' \subseteq Succeeded(q),
         Busy(q)' => Busy(q), Waiting(q)' => Waiting(q)
  PROVE  One(q)'
BY DEF One

\* What waits belongs to a Pipe in use.
LEMMA WaitingOwned ==
  ASSUME IInv, NEW q \in Procs, Waiting(q)
  PROVE  \E i \in Pipes, s \in Sides :
           /\ end[i][s] = q /\ handle[q] = <<i, s>> /\ pc[q] \notin {"new", "created"}
           /\ \/ <<i, s>> \in reading /\ phase[i] = "connected"
              \/ s = "server" /\ i \in accepts /\ phase[i] = "listening"
<1>1. PICK i \in Pipes, s \in Sides :
        /\ end[i][s] = q
        /\ <<i, s>> \in reading \/ (s = "server" /\ i \in accepts)
  BY DEF Waiting
<1>2. CASE <<i, s>> \in reading
  <2>1. Owned(i, s) /\ phase[i] = "connected"
    BY <1>2 DEF IInv, OperationsInv
  <2> QED
    BY <1>1, <1>2, <2>1 DEF Owned
<1>3. CASE s = "server" /\ i \in accepts
  <2>1. Owned(i, "server") /\ phase[i] = "listening"
    BY <1>3 DEF IInv, OperationsInv
  <2> QED
    BY <1>1, <1>3, <2>1 DEF Owned
<1> QED
  BY <1>1, <1>2, <1>3

\* A step that adds no operation and no completion.
LEMMA OneQuiet ==
  ASSUME OneAtATime,
         UNCHANGED port,
         \A q \in Procs : (Busy(q)' => Busy(q)) /\ (Waiting(q)' => Waiting(q))
  PROVE  OneAtATime'
<1>1. ASSUME NEW q \in Procs
      PROVE  One(q)'
  <2>1. Succeeded(q)' \subseteq Succeeded(q)
    BY DEF Succeeded
  <2> QED
    BY <2>1, OneKept DEF OneAtATime
<1> QED
  BY <1>1 DEF OneAtATime

\* A process that starts has no operation yet.
LEMMA OneStart ==
  ASSUME IInv, OneAtATime, NEW p \in Procs, Start(p)
  PROVE  OneAtATime'
<1> USE DEF Pipes
<1>1. /\ pc[p] = "new"
      /\ end' = [end EXCEPT ![p]["server"] = p]
      /\ UNCHANGED <<reading, accepts, port, worker>>
  BY DEF Start, NewPipe, opVars, portVars
<1>2. "server" \in Sides
  BY DEF Sides
<1>3. /\ end'[p]["server"] = p
      /\ \A i \in Pipes, s \in Sides : i # p \/ s # "server" => end'[i][s] = end[i][s]
  <2>1. p \in Procs \union {None} /\ end \in [Pipes -> [Sides -> Procs \union {None}]]
    BY Types
  <2> QED
    BY <1>1, <1>2, <2>1, EndExcept
<1>4. phase[p] = "unused"
  BY <1>1 DEF IInv, PipesInv
<1>5. <<p, "server">> \notin reading /\ p \notin accepts
  BY <1>2, <1>4 DEF IInv, OperationsInv
<1>6. \A q \in Procs : Busy(q)' => Busy(q)
  BY <1>1 DEF Busy
<1>7. \A q \in Procs : Waiting(q)' => Waiting(q)
  BY <1>1, <1>3, <1>5 DEF Waiting
<1> QED
  BY <1>1, <1>6, <1>7, OneQuiet

\* ConnectNamedPipe is the first operation of a server.
LEMMA OneAcceptConnection ==
  ASSUME IInv, OneAtATime, NEW p \in Procs, AcceptConnection(p)
  PROVE  OneAtATime'
<1> USE DEF Pipes
<1>1. /\ p \in Servers /\ pc[p] = "created"
      /\ AsyncAccept(handle[p][1])
      /\ worker' = [worker EXCEPT ![p] = "check"]
      /\ UNCHANGED <<end, port>>
  BY DEF AcceptConnection, endVars, portVars
<1>2. handle[p] = <<p, "server">> /\ end[p]["server"] = p
  BY <1>1, HandleEnd DEF IInv, HandlesInv
<1>3. reading' = reading /\ accepts' \subseteq accepts \union {p}
  BY <1>1, <1>2 DEF AsyncAccept
<1>4. worker'[p] = "check" /\ \A q \in Procs : q # p => worker'[q] = worker[q]
  BY <1>1, Types
<1>5. ASSUME NEW q \in Procs
      PROVE  One(q)'
  <2>1. CASE q = p
    <3>1. Succeeded(p)' = {}
      <4>1. port'[p] = <<>>
        BY <1>1 DEF IInv, ThreadInv
      <4>2. DOMAIN port'[p] = {}
        BY <4>1
      <4> QED
        BY <4>2 DEF Succeeded
    <3>2. ~Busy(p)'
      BY <1>4 DEF Busy
    <3> QED
      BY <2>1, <3>1, <3>2 DEF One
  <2>2. CASE q # p
    <3>1. Succeeded(q)' \subseteq Succeeded(q)
      BY <1>1 DEF Succeeded
    <3>2. Busy(q)' => Busy(q)
      BY <1>4, <2>2 DEF Busy
    <3>3. Waiting(q)' => Waiting(q)
      BY <1>1, <1>2, <1>3, <2>2 DEF Waiting
    <3> QED
      BY <3>1, <3>2, <3>3, OneKept DEF OneAtATime
  <2> QED
    BY <2>1, <2>2
<1> QED
  BY <1>5 DEF OneAtATime

\* A connection completes the one operation of the server, and is that of the client.
LEMMA OneConnectAsync ==
  ASSUME IInv, OneAtATime, NEW p \in Procs, ConnectAsync(p)
  PROVE  OneAtATime'
<1> USE DEF Pipes
<1>1. PICK i \in Pipes : Connectable(i) /\ AsyncConnect(p, i)
  BY DEF ConnectAsync
<1>2. /\ pc[p] = "created"
      /\ worker' = [worker EXCEPT ![p] = "check"]
  BY DEF ConnectAsync
<1>3. /\ end' = [end EXCEPT ![i]["client"] = p]
      /\ accepts' = accepts \ {i}
      /\ UNCHANGED reading
  BY <1>1 DEF AsyncConnect
<1>4. "server" \in Sides /\ "client" \in Sides /\ "client" # "server"
  BY DEF Sides
<1>5. phase[i] = "listening" /\ end[i]["server"] = i
  <2>1. phase[i] = "listening" /\ end[i]["server"] # None
    BY <1>1 DEF Connectable
  <2> QED
    BY <2>1 DEF IInv, PipesInv
<1>6. /\ end'[i]["client"] = p
      /\ \A j \in Pipes, s \in Sides : j # i \/ s # "client" => end'[j][s] = end[j][s]
  <2>1. p \in Procs \union {None} /\ end \in [Pipes -> [Sides -> Procs \union {None}]]
    BY Types
  <2> QED
    BY <1>3, <1>4, <2>1, EndExcept
<1>7. worker'[p] = "check" /\ \A q \in Procs : q # p => worker'[q] = worker[q]
  BY <1>2, Types
<1>8. i \in accepts => i # p /\ Waiting(i)
  <2>1. i \in accepts => Owned(i, "server")
    BY <1>4 DEF IInv, OperationsInv
  <2> QED
    BY <1>2, <1>4, <1>5, <2>1 DEF Owned, Waiting
<1>9. /\ \A q \in Procs :
           /\ \A n \in DOMAIN port[q] : n \in DOMAIN port'[q] /\ port'[q][n] = port[q][n]
           /\ \A n \in DOMAIN port'[q] \ DOMAIN port[q] :
                \/ q = p /\ port'[q][n] = Completion("connect", 0)
                \/ q = i /\ i \in accepts /\ port'[q][n] = Completion("accept", 0)
           /\ q # p /\ q # i => port'[q] = port[q]
           /\ q # p /\ i \notin accepts => port'[q] = port[q]
      /\ \A q \in Procs : \A m, n \in DOMAIN port'[q] \ DOMAIN port[q] : m = n
  BY <1>1, <1>5, <1>8, Types, ConnectPorts
<1>10. ASSUME NEW q \in Procs
       PROVE  Waiting(q)' => Waiting(q) /\ (q # i \/ i \notin accepts)
  <2>1. SUFFICES ASSUME Waiting(q)' PROVE Waiting(q) /\ (q # i \/ i \notin accepts)
    OBVIOUS
  <2>2. PICK j \in Pipes, s \in Sides :
          /\ end'[j][s] = q
          /\ <<j, s>> \in reading' \/ (s = "server" /\ j \in accepts')
    BY <2>1 DEF Waiting
  <2>3. <<j, s>> \in reading => j # i
    BY <1>5 DEF IInv, OperationsInv
  <2>4. j # i
    BY <1>3, <2>2, <2>3
  <2>5. end[j][s] = q /\ (<<j, s>> \in reading \/ (s = "server" /\ j \in accepts))
    BY <1>3, <1>6, <2>2, <2>4
  <2>6. Owned(j, s)
    BY <1>4, <2>5 DEF IInv, OperationsInv
  <2>7. i \in accepts => Owned(i, "server")
    BY <1>4 DEF IInv, OperationsInv
  <2> QED
    BY <1>5, <2>4, <2>5, <2>6, <2>7 DEF Waiting, Owned
<1>11. ASSUME NEW q \in Procs
       PROVE  One(q)'
  <2>1. CASE q = p
    <3>1. DOMAIN port[p] = {}
      BY <1>2 DEF IInv, ThreadInv
    <3>2. \A m, n \in Succeeded(p)' : m = n
      BY <1>9, <3>1 DEF Succeeded
    <3>3. ~Busy(p)'
      BY <1>7 DEF Busy
    <3>4. ~Waiting(p)
      BY <1>2, WaitingOwned
    <3> QED
      BY <1>10, <2>1, <3>2, <3>3, <3>4 DEF One
  <2>2. CASE q # p /\ q = i /\ i \in accepts
    <3>1. Succeeded(q) = {} /\ ~Busy(q)
      BY <1>8, <2>2 DEF OneAtATime, One
    <3>2. \A n \in DOMAIN port[q] : n \notin Succeeded(q)'
      BY <1>9, <3>1 DEF Succeeded
    <3>3. \A m, n \in Succeeded(q)' : m = n
      <4>1. Succeeded(q)' \subseteq DOMAIN port'[q]
        BY DEF Succeeded
      <4> QED
        BY <1>9, <3>2, <4>1
    <3>4. ~Busy(q)'
      BY <1>7, <2>2, <3>1 DEF Busy
    <3> QED
      BY <1>10, <2>2, <3>3, <3>4 DEF One
  <2>3. CASE q # p /\ ~(q = i /\ i \in accepts)
    <3>1. port'[q] = port[q]
      BY <1>9, <2>3
    <3>2. Succeeded(q)' \subseteq Succeeded(q)
      BY <3>1 DEF Succeeded
    <3>3. Busy(q)' => Busy(q)
      BY <1>7, <2>3 DEF Busy
    <3> QED
      BY <1>10, <3>2, <3>3, OneKept DEF OneAtATime
  <2> QED
    BY <2>1, <2>2, <2>3
<1> QED
  BY <1>11 DEF OneAtATime

\* The completion that run() takes out of the port is the one there was.
LEMMA OneGetCompletion ==
  ASSUME IInv, OneAtATime, NEW p \in Procs, GetCompletion(p)
  PROVE  OneAtATime'
<1>1. /\ worker[p] = "run" /\ port[p] # <<>>
      /\ port' = [port EXCEPT ![p] = Tail(@)]
      /\ worker' = [worker EXCEPT ![p] = IF Head(port[p]).op = "fail" THEN "check" ELSE "callback"]
      /\ UNCHANGED <<end, reading, accepts>>
  BY DEF GetCompletion, endVars, opVars
<1>2. /\ \A q \in Procs : q # p => port'[q] = port[q]
      /\ 1 \in DOMAIN port[p] /\ Head(port[p]) = port[p][1]
      /\ \A n \in DOMAIN port'[p] : n + 1 \in DOMAIN port[p] /\ n # 0 /\ port'[p][n] = port[p][n + 1]
  BY <1>1, Types, PortTail
<1>3. /\ worker'[p] = IF port[p][1].op = "fail" THEN "check" ELSE "callback"
      /\ \A q \in Procs : q # p => worker'[q] = worker[q]
  BY <1>1, <1>2, Types
<1>4. \A q \in Procs : Waiting(q)' => Waiting(q)
  BY <1>1 DEF Waiting
<1>5. ASSUME NEW q \in Procs
      PROVE  One(q)'
  <2>1. CASE q = p
    <3>1. One(p)
      BY DEF OneAtATime
    <3>2. \A n \in Succeeded(p)' : n + 1 \in Succeeded(p) /\ n # 0 /\ n \in Nat
      <4>1. DOMAIN port'[p] \subseteq Nat
        <5>1. PICK a \in Seq(Completions) : a = port'[p]
          <6>1. port' \in [Procs -> Seq(Completions)]
            BY <1>1, Types, PortTail
          <6> QED
            BY <6>1
        <5>2. DOMAIN a \subseteq Nat
          OBVIOUS
        <5> QED
          BY <5>1, <5>2
      <4>2. \A n \in Succeeded(p)' : n \in DOMAIN port'[p] /\ port'[p][n].op # "fail"
        BY DEF Succeeded
      <4>3. \A n \in DOMAIN port'[p] : port'[p][n].op # "fail" => n + 1 \in Succeeded(p) /\ n # 0
        BY <1>2 DEF Succeeded
      <4> QED
        BY <4>1, <4>2, <4>3
    <3>3. \A m, n \in Succeeded(p)' : m = n
      <4>1. \A m, n \in Succeeded(p)' : m + 1 = n + 1 /\ m \in Nat /\ n \in Nat
        BY <3>1, <3>2 DEF One
      <4> QED
        BY <4>1
    <3>4. CASE port[p][1].op = "fail"
      <4>1. ~Busy(p)'
        BY <1>3, <3>4 DEF Busy
      <4> QED
        BY <1>4, <2>1, <3>1, <3>2, <3>3, <4>1 DEF One
    <3>5. CASE port[p][1].op # "fail"
      <4>1. 1 \in Succeeded(p)
        BY <1>2, <3>5 DEF Succeeded
      <4>2. \A n \in Succeeded(p)' : n + 1 = 1 /\ n # 0 /\ n \in Nat
        BY <3>1, <3>2, <4>1 DEF One
      <4>3. Succeeded(p)' = {}
        BY <4>2
      <4>4. ~Waiting(p)
        BY <3>1, <4>1 DEF One
      <4> QED
        BY <1>4, <2>1, <4>3, <4>4 DEF One
    <3> QED
      BY <3>4, <3>5
  <2>2. CASE q # p
    <3>1. Succeeded(q)' \subseteq Succeeded(q)
      BY <1>2, <2>2 DEF Succeeded
    <3>2. Busy(q)' => Busy(q)
      BY <1>3, <2>2 DEF Busy
    <3> QED
      BY <1>4, <3>1, <3>2, OneKept DEF OneAtATime
  <2> QED
    BY <2>1, <2>2
<1> QED
  BY <1>5 DEF OneAtATime

\* A write lets a read complete that was waiting.
LEMMA OneWrite ==
  ASSUME IInv, OneAtATime, NEW i \in Pipes, NEW s \in Sides, NEW ws \in Seq(Seq(Nat)),
         \/ AsyncWrites(i, s, ws)
         \/ UNCHANGED <<wire, reading, accepts, port, buffer, written>>,
         UNCHANGED end,
         \A q \in Procs : Busy(q)' => Busy(q)
  PROVE  OneAtATime'
<1>1. /\ accepts' = accepts
      /\ reading' \subseteq reading
      /\ \A q \in Procs : \A n \in DOMAIN port[q] : n \in DOMAIN port'[q] /\ port'[q][n] = port[q][n]
      /\ \A q \in Procs : \A n \in DOMAIN port'[q] : n \notin DOMAIN port[q] =>
           /\ handle[q] = <<i, s>> /\ phase[i] = "connected"
           /\ end[i][s] = q /\ <<i, s>> \in reading /\ <<i, s>> \notin reading'
      /\ \A q \in Procs : \A m, n \in DOMAIN port'[q] \ DOMAIN port[q] : m = n
  BY WritePorts
<1>2. \A q \in Procs : Waiting(q)' => Waiting(q)
  BY <1>1 DEF Waiting
<1>3. ASSUME NEW q \in Procs
      PROVE  One(q)'
  <2>1. CASE DOMAIN port'[q] \subseteq DOMAIN port[q]
    <3>1. Succeeded(q)' \subseteq Succeeded(q)
      BY <1>1, <2>1 DEF Succeeded
    <3> QED
      BY <1>2, <3>1, OneKept DEF OneAtATime
  <2>2. CASE ~(DOMAIN port'[q] \subseteq DOMAIN port[q])
    <3>1. /\ handle[q] = <<i, s>> /\ phase[i] = "connected"
          /\ end[i][s] = q /\ <<i, s>> \in reading /\ <<i, s>> \notin reading'
      BY <1>1, <2>2
    <3>2. Waiting(q)
      BY <3>1 DEF Waiting
    <3>3. Succeeded(q) = {} /\ ~Busy(q)
      BY <3>2 DEF OneAtATime, One
    <3>4. \A n \in DOMAIN port[q] : n \notin Succeeded(q)'
      BY <1>1, <3>3 DEF Succeeded
    <3>5. \A m, n \in Succeeded(q)' : m = n
      <4>1. Succeeded(q)' \subseteq DOMAIN port'[q]
        BY DEF Succeeded
      <4> QED
        BY <1>1, <3>4, <4>1
    <3>6. ~Waiting(q)'
      <4>1. SUFFICES ASSUME Waiting(q)' PROVE FALSE
        OBVIOUS
      <4>2. PICK j \in Pipes, t \in Sides :
              /\ end[j][t] = q
              /\ <<j, t>> \in reading' \/ (t = "server" /\ j \in accepts)
        BY <1>1, <4>1 DEF Waiting
      <4>3. CASE <<j, t>> \in reading'
        <5>1. Owned(j, t)
          BY <1>1, <4>3 DEF IInv, OperationsInv
        <5> QED
          BY <3>1, <4>2, <4>3, <5>1 DEF Owned
      <4>4. CASE t = "server" /\ j \in accepts
        <5>1. Owned(j, t) /\ phase[j] = "listening"
          BY <4>4 DEF IInv, OperationsInv
        <5> QED
          BY <3>1, <4>2, <5>1 DEF Owned
      <4> QED
        BY <4>2, <4>3, <4>4
    <3> QED
      BY <3>3, <3>5, <3>6 DEF One
  <2> QED
    BY <2>1, <2>2
<1> QED
  BY <1>3 DEF OneAtATime

\* A ReadFile is called only in a callback, when there is no other operation.
LEMMA OneReadAsync ==
  ASSUME IInv, OneAtATime, NEW p \in Procs, ReadAsync(p)
  PROVE  OneAtATime'
<1>1. /\ Running(p) /\ worker[p] = "rearm"
      /\ AsyncRead(p, handle[p][1], handle[p][2])
      /\ worker' = [worker EXCEPT ![p] = "run"]
      /\ UNCHANGED end
  BY DEF ReadAsync, endVars
<1>2. PICK i \in Pipes, s \in Sides : handle[p] = <<i, s>> /\ end[i][s] = p
  BY <1>1, HandleEnd DEF Running
<1>3. IocpTypeOK /\ AsyncRead(p, i, s)
  BY <1>1, <1>2, Types
<1>4. worker'[p] = "run" /\ \A q \in Procs : q # p => worker'[q] = worker[q]
  BY <1>1, Types
<1>5. \A q \in Procs : Busy(q)' => Busy(q) /\ q # p
  BY <1>4 DEF Busy
<1>6. Succeeded(p) = {} /\ ~Waiting(p)
  BY <1>1 DEF OneAtATime, One, Busy
<1>7. CASE wire[i][s] # <<>>
  <2>1. PICK w \in Seq(Nat) : ReadCompletes(p, w)
    BY <1>3, <1>7, AsyncReadFacts
  <2>2. UNCHANGED <<accepts, reading>>
    BY <1>3, <1>7, AsyncReadFacts
  <2>3. /\ \A q \in Procs : q # p => port'[q] = port[q]
        /\ \E n \in Nat :
             n \notin DOMAIN port[p] /\ DOMAIN port'[p] = DOMAIN port[p] \union {n}
        /\ \A n \in DOMAIN port[p] : port'[p][n] = port[p][n]
    BY <1>3, <2>1, ReadCompletesFacts
  <2>4. \A q \in Procs : Waiting(q)' => Waiting(q)
    BY <1>1, <2>2 DEF Waiting
  <2>5. ASSUME NEW q \in Procs
        PROVE  One(q)'
    <3>1. CASE q = p
      <4>1. PICK k : DOMAIN port'[p] = DOMAIN port[p] \union {k}
        BY <2>3
      <4>2. \A n \in DOMAIN port[p] : port'[p][n].op = "fail"
        BY <1>6, <2>3 DEF Succeeded
      <4>3. Succeeded(p)' \subseteq {k}
        BY <4>1, <4>2 DEF Succeeded
      <4>4. ~Busy(p)' /\ ~Waiting(p)'
        BY <1>5, <1>6, <2>4
      <4> QED
        BY <3>1, <4>3, <4>4 DEF One
    <3>2. CASE q # p
      <4>1. Succeeded(q)' \subseteq Succeeded(q)
        BY <2>3, <3>2 DEF Succeeded
      <4> QED
        BY <1>5, <2>4, <4>1, OneKept DEF OneAtATime
    <3> QED
      BY <3>1, <3>2
  <2> QED
    BY <2>5 DEF OneAtATime
<1>8. CASE wire[i][s] = <<>>
  <2>1. UNCHANGED <<port, accepts>> /\ reading' \subseteq reading \union {<<i, s>>}
    BY <1>3, <1>8, AsyncReadFacts
  <2>2. ASSUME NEW q \in Procs
        PROVE  One(q)'
    <3>1. Succeeded(q)' \subseteq Succeeded(q)
      BY <2>1 DEF Succeeded
    <3>2. CASE q = p
      BY <1>5, <1>6, <3>1, <3>2 DEF One
    <3>3. CASE q # p
      <4>1. Waiting(q)' => Waiting(q)
        BY <1>1, <1>2, <2>1, <3>3 DEF Waiting
      <4> QED
        BY <1>5, <3>1, <4>1, OneKept DEF OneAtATime
    <3> QED
      BY <3>2, <3>3
  <2> QED
    BY <2>2 DEF OneAtATime
<1> QED
  BY <1>7, <1>8

\* What Close puts in the ports has failed.
LEMMA OneClose ==
  ASSUME IInv, OneAtATime, NEW p \in Procs, NEW i \in Pipes, NEW s \in Sides,
         Close(p, i, s),
         \A q \in Procs : Busy(q)' => Busy(q)
  PROVE  OneAtATime'
<1>1. IocpTypeOK
  BY Types
<1>2. /\ end'[i][s] = None
      /\ \A j \in Pipes, t \in Sides : j # i \/ t # s => end'[j][t] = end[j][t]
      /\ reading' \subseteq reading /\ accepts' \subseteq accepts
  BY <1>1, CloseFacts
<1>3. ASSUME NEW q \in Procs
      PROVE  One(q)'
  <2>1. Waiting(q)' => Waiting(q)
    BY <1>2, IocpAssumption DEF Waiting
  <2>2. /\ \A n \in DOMAIN port[q] : port'[q][n] = port[q][n]
        /\ \A n \in DOMAIN port'[q] \ DOMAIN port[q] : port'[q][n] = Completion("fail", 0)
    BY <1>1, ClosePorts
  <2>3. Completion("fail", 0).op = "fail"
    BY DEF Completion
  <2>4. Succeeded(q)' \subseteq Succeeded(q)
    BY <2>2, <2>3 DEF Succeeded
  <2> QED
    BY <2>1, <2>4, OneKept DEF OneAtATime
<1> QED
  BY <1>3 DEF OneAtATime

\* Every step keeps the processes at one operation each.
LEMMA OneNext == IInv /\ OneAtATime /\ [Next]_vars => OneAtATime'
<1> SUFFICES ASSUME IInv, OneAtATime, [Next]_vars PROVE OneAtATime'
  OBVIOUS
<1>1. ASSUME UNCHANGED <<iocpVars, worker>>
      PROVE  OneAtATime'
  <2>1. UNCHANGED <<end, reading, accepts, port, worker>>
    BY <1>1 DEF iocpVars, endVars, opVars, portVars
  <2>2. \A q \in Procs : (Busy(q)' => Busy(q)) /\ (Waiting(q)' => Waiting(q))
    BY <2>1 DEF Busy, Waiting
  <2> QED
    BY <2>1, <2>2, OneQuiet
<1>2. CASE UNCHANGED vars
  BY <1>1, <1>2 DEF vars, threadVars
<1>3. ASSUME NEW p \in Procs, Running(p), worker' = [worker EXCEPT ![p] = "rearm"], worker[p] = "callback"
      PROVE  \A q \in Procs : Busy(q)' => Busy(q)
  BY <1>3, Types DEF Busy
<1>4. ASSUME NEW p \in Procs, NEW x \in {"check", "run", "ended", "none"},
             worker' = [worker EXCEPT ![p] = x]
      PROVE  \A q \in Procs : Busy(q)' => Busy(q)
  BY <1>4, Types DEF Busy
<1>5. CASE Next
  <2>1. PICK p \in Procs : Main(p) \/ Thread(p) \/ Exit(p) \/ CloseOnExit(p)
    BY <1>5 DEF Next
  <2>2. CASE ConnectThrows(p) \/ Stop(p) \/ Exit(p)
    <3>1. UNCHANGED <<iocpVars, worker>>
      BY <2>2 DEF ConnectThrows, Stop, Exit, threadVars
    <3> QED
      BY <1>1, <3>1
  <2>3. CASE CheckStopping(p) \/ OnAccept(p) \/ OnConnect(p)
    <3>1. UNCHANGED iocpVars
      BY <2>3 DEF CheckStopping, OnAccept, OnConnect
    <3>2. UNCHANGED <<end, reading, accepts, port>>
      BY <3>1 DEF iocpVars, endVars, opVars, portVars
    <3>3. \A q \in Procs : Waiting(q)' => Waiting(q)
      BY <3>2 DEF Waiting
    <3>4. \A q \in Procs : Busy(q)' => Busy(q)
      <4>1. CASE CheckStopping(p)
        BY <1>4, <4>1 DEF CheckStopping
      <4>2. CASE OnAccept(p) \/ OnConnect(p)
        BY <1>3, <4>2 DEF OnAccept, OnConnect, Calls
      <4> QED
        BY <2>3, <4>1, <4>2
    <3> QED
      BY <3>2, <3>3, <3>4, OneQuiet
  <2>4. CASE Start(p)
    BY <2>4, OneStart
  <2>5. CASE AcceptConnection(p)
    BY <2>5, OneAcceptConnection
  <2>6. CASE ConnectAsync(p)
    BY <2>6, OneConnectAsync
  <2>7. CASE MainWrite(p)
    <3>1. PICK w \in Seq(Nat) : pc[p] = "up" /\ Write(p, w) /\ UNCHANGED <<end, worker>>
      BY <2>7, MainWriteFacts
    <3>2. PICK i \in Pipes, s \in Sides : handle[p] = <<i, s>>
      BY <3>1, HandleEnd
    <3>3. PICK ws \in Seq(Seq(Nat)) : ws = Writes(p, w)
      BY WritesType
    <3>4. AsyncWrites(i, Other(s), ws) /\ Other(s) \in Sides
      BY <3>1, <3>2, <3>3, Others DEF Write
    <3>5. \A q \in Procs : Busy(q)' => Busy(q)
      BY <3>1 DEF Busy
    <3> QED
      BY <3>1, <3>4, <3>5, OneWrite
  <2>8. CASE OnRead(p)
    <3>1. /\ Running(p) /\ worker[p] = "callback"
          /\ OnMessage(p, Received(p))
          /\ worker' = [worker EXCEPT ![p] = "rearm"]
          /\ UNCHANGED end
      BY <2>8 DEF OnRead, Calls, endVars
    <3>2. PICK i \in Pipes, s \in Sides : handle[p] = <<i, s>>
      BY <3>1, HandleEnd DEF Running
    <3>3. PICK w \in Seq(Nat) : w = Received(p)
      BY <3>1, ReceivedType
    <3>4. PICK ws \in Seq(Seq(Nat)) : ws = Writes(p, w)
      BY WritesType
    <3>5. /\ \/ AsyncWrites(i, Other(s), ws)
             \/ UNCHANGED <<wire, reading, accepts, port, buffer, written>>
          /\ Other(s) \in Sides
      BY <3>1, <3>2, <3>3, <3>4, Others DEF OnMessage, Write, opVars, portVars
    <3> QED
      BY <1>3, <3>1, <3>5, OneWrite
  <2>9. CASE GetCompletion(p)
    BY <2>9, OneGetCompletion
  <2>10. CASE ReadAsync(p)
    BY <2>10, OneReadAsync
  <2>11. CASE Joined(p)
    <3>1. /\ pc[p] = "joining" /\ Close(p, handle[p][1], handle[p][2])
          /\ worker' = [worker EXCEPT ![p] = "none"]
      BY <2>11 DEF Joined
    <3>2. PICK i \in Pipes, s \in Sides : handle[p] = <<i, s>>
      BY <3>1, HandleEnd
    <3>3. \A q \in Procs : Busy(q)' => Busy(q)
      BY <1>4, <3>1
    <3>4. Close(p, i, s)
      BY <3>1, <3>2
    <3> QED
      BY <3>3, <3>4, OneClose
  <2>12. CASE CloseOnExit(p)
    <3>1. PICK i \in Pipes, s \in Sides : Close(p, i, s)
      BY <2>12 DEF CloseOnExit
    <3>2. \A q \in Procs : Busy(q)' => Busy(q)
      BY <2>12 DEF CloseOnExit, threadVars, Busy
    <3> QED
      BY <3>1, <3>2, OneClose
  <2> QED
    BY <2>1, <2>2, <2>3, <2>4, <2>5, <2>6, <2>7, <2>8, <2>9, <2>10, <2>11, <2>12 DEF Main, Thread
<1> QED
  BY <1>2, <1>5

\* At first there is no operation.
LEMMA InitOne == Init => OneAtATime
<1> SUFFICES ASSUME Init, NEW p \in Procs PROVE One(p)
  BY DEF OneAtATime
<1>1. DOMAIN port[p] = {} /\ worker[p] = "none"
  BY DEF Init, IocpInit, Np2Init
<1>2. Succeeded(p) = {} /\ ~Busy(p)
  BY <1>1 DEF Succeeded, Busy
<1> QED
  BY <1>2 DEF One

\* A process has one operation at a time that can succeed, and so reads into the one
\* Buffer of its Listener only between two callbacks.
THEOREM OneOperation == Spec => []OneAtATime
BY InitOne, OneNext, Invariance, PTL DEF Spec

(***************************************************************************)
(* Sequences of messages.                                                  *)
(***************************************************************************)

\* Concatenation is associative.
LEMMA ConcatAssoc ==
  ASSUME NEW S, NEW a \in Seq(S), NEW b \in Seq(S), NEW c \in Seq(S)
  PROVE  (a \o b) \o c = a \o (b \o c)
<1>1. PICK x \in Seq(S), y \in Seq(S) : x = a \o b /\ y = b \o c
  <2>1. a \o b \in Seq(S) /\ b \o c \in Seq(S)
    OBVIOUS
  <2> QED
    BY <2>1
<1>2. PICK k \in Nat, l \in Nat, m \in Nat : k = Len(a) /\ l = Len(b) /\ m = Len(c)
  OBVIOUS
<1>3. Len(x) = k + l /\ Len(y) = l + m
  BY <1>1, <1>2
<1>4. PICK u \in Seq(S), v \in Seq(S) : u = x \o c /\ v = a \o y
  <2>1. x \o c \in Seq(S) /\ a \o y \in Seq(S)
    OBVIOUS
  <2> QED
    BY <2>1
<1>5. Len(u) = k + l + m /\ Len(v) = k + l + m
  <2>1. Len(x \o c) = Len(x) + Len(c) /\ Len(a \o y) = Len(a) + Len(y)
    OBVIOUS
  <2>2. Len(u) = (k + l) + m /\ Len(v) = k + (l + m)
    BY <1>2, <1>3, <1>4, <2>1
  <2>3. k + (l + m) = k + l + m
    OBVIOUS
  <2> QED
    BY <2>2, <2>3
<1>6. ASSUME NEW n \in 1 .. k + l + m
      PROVE  u[n] = v[n]
  <2>1. CASE n <= k
    <3>1. u[n] = x[n] /\ x[n] = a[n]
      BY <1>1, <1>2, <1>3, <1>4, <2>1
    <3>2. v[n] = a[n]
      BY <1>2, <1>4, <2>1
    <3> QED
      BY <3>1, <3>2
  <2>2. CASE n > k /\ n <= k + l
    <3>1. u[n] = x[n] /\ x[n] = b[n - k]
      BY <1>1, <1>2, <1>3, <1>4, <2>2
    <3>2. v[n] = y[n - k] /\ y[n - k] = b[n - k]
      BY <1>1, <1>2, <1>3, <1>4, <2>2
    <3> QED
      BY <3>1, <3>2
  <2>3. CASE n > k + l
    <3>1. u[n] = c[n - (k + l)]
      <4>1. PICK j \in 1 .. m : n = (k + l) + j
        <5>1. n - (k + l) \in 1 .. m /\ n = (k + l) + (n - (k + l))
          BY <2>3
        <5> QED
          BY <5>1
      <4>2. u[(k + l) + j] = c[j]
        BY <1>2, <1>3, <1>4, ConcatFacts, SMTT(30)
      <4>3. n - (k + l) = j
        BY <4>1
      <4> QED
        BY <4>1, <4>2, <4>3
    <3>2. v[n] = y[n - k] /\ y[n - k] = c[(n - k) - l]
      BY <1>1, <1>2, <1>3, <1>4, <2>3
    <3>3. n - (k + l) = (n - k) - l
      BY <1>2
    <3> QED
      BY <3>1, <3>2, <3>3
  <2> QED
    BY <2>1, <2>2, <2>3
<1>7. u = v
  BY <1>5, <1>6
<1> QED
  BY <1>1, <1>4, <1>7

\* The same for messages, to cite of any three.
LEMMA NatAssoc ==
  \A a, b, c \in Seq(Nat) : (a \o b) \o c = a \o (b \o c)
BY ConcatAssoc

\* No write holds no message.
LEMMA FlattenEmpty == FlattenSeq(<<>>) = <<>>
BY DEF FlattenSeq

\* One write holds its own messages.
LEMMA FlattenOne ==
  ASSUME NEW w \in Seq(Nat)
  PROVE  FlattenSeq(<<w>>) = w
<1>1. PICK e \in Seq(Seq(Nat)) : e = <<>>
  <2>1. <<>> \in Seq(Seq(Nat))
    OBVIOUS
  <2> QED
    BY <2>1
<1>2. FlattenSeq(Append(e, w)) = FlattenSeq(e) \o w
  BY FlattenAppend
<1>3. Append(e, w) = <<w>>
  BY <1>1
<1>4. <<>> \o w = w
  OBVIOUS
<1> QED
  BY <1>1, <1>2, <1>3, <1>4, FlattenEmpty

\* The last write of a wire, and those before it.
LEMMA SplitLast ==
  ASSUME NEW S, NEW b \in Seq(S), NEW n \in Nat, Len(b) = n + 1
  PROVE  \E c \in Seq(S), x \in S : b = Append(c, x) /\ Len(c) = n
<1>1. PICK c \in Seq(S) : c = SubSeq(b, 1, n) /\ Len(c) = n
  <2>1. SubSeq(b, 1, n) \in Seq(S) /\ Len(SubSeq(b, 1, n)) = n
    OBVIOUS
  <2> QED
    BY <2>1
<1>2. PICK x \in S : x = b[n + 1]
  OBVIOUS
<1>3. PICK d \in Seq(S) : d = Append(c, x)
  <2>1. Append(c, x) \in Seq(S)
    OBVIOUS
  <2> QED
    BY <2>1
<1>4. Len(d) = n + 1
  BY <1>1, <1>3
<1>5. ASSUME NEW m \in 1 .. n + 1
      PROVE  d[m] = b[m]
  <2>1. CASE m = n + 1
    BY <1>1, <1>2, <1>3, <2>1
  <2>2. CASE m # n + 1
    <3>1. m \in 1 .. n
      BY <2>2
    <3>2. d[m] = c[m]
      BY <1>1, <1>3, <3>1
    <3>3. c[m] = b[m]
      BY <1>1, <3>1
    <3> QED
      BY <3>2, <3>3
  <2> QED
    BY <2>1, <2>2
<1>6. d = b
  BY <1>4, <1>5
<1> QED
  BY <1>1, <1>3, <1>6

\* The writes of two wires, one behind the other.
LEMMA FlattenConcat ==
  ASSUME NEW a \in Seq(Seq(Nat)), NEW b \in Seq(Seq(Nat))
  PROVE  FlattenSeq(a \o b) = FlattenSeq(a) \o FlattenSeq(b)
<1> DEFINE T == {n \in Nat : \A c \in Seq(Seq(Nat)) :
                   Len(c) = n => FlattenSeq(a \o c) = FlattenSeq(a) \o FlattenSeq(c)}
<1>1. 0 \in T
  <2>1. ASSUME NEW c \in Seq(Seq(Nat)), Len(c) = 0
        PROVE  FlattenSeq(a \o c) = FlattenSeq(a) \o FlattenSeq(c)
    <3>1. c = <<>> /\ a \o c = a
      BY <2>1
    <3>2. PICK f \in Seq(Nat) : f = FlattenSeq(a)
      BY FlattenType
    <3>3. f \o <<>> = f
      OBVIOUS
    <3> QED
      BY <3>1, <3>2, <3>3, FlattenEmpty
  <2> QED
    BY <2>1
<1>2. ASSUME NEW n \in Nat, n \in T
      PROVE  n + 1 \in T
  <2>1. ASSUME NEW c \in Seq(Seq(Nat)), Len(c) = n + 1
        PROVE  FlattenSeq(a \o c) = FlattenSeq(a) \o FlattenSeq(c)
    <3>1. PICK d \in Seq(Seq(Nat)), x \in Seq(Nat) : c = Append(d, x) /\ Len(d) = n
      BY <2>1, SplitLast
    <3>2. PICK ad \in Seq(Seq(Nat)) : ad = a \o d
      <4>1. a \o d \in Seq(Seq(Nat))
        OBVIOUS
      <4> QED
        BY <4>1
    <3>3. a \o c = Append(ad, x)
      BY <3>1, <3>2
    <3>4. PICK fa \in Seq(Nat), fd \in Seq(Nat) : fa = FlattenSeq(a) /\ fd = FlattenSeq(d)
      BY FlattenType
    <3>5. FlattenSeq(ad) = fa \o fd
      BY <1>2, <3>1, <3>2, <3>4
    <3>6. FlattenSeq(a \o c) = (fa \o fd) \o x
      BY <3>3, <3>5, FlattenAppend
    <3>7. FlattenSeq(c) = fd \o x
      BY <3>1, <3>4, FlattenAppend
    <3>8. (fa \o fd) \o x = fa \o (fd \o x)
      BY NatAssoc
    <3> QED
      BY <3>4, <3>6, <3>7, <3>8
  <2>2. n + 1 \in Nat
    OBVIOUS
  <2> QED
    BY <2>1, <2>2
<1> HIDE DEF T
<1>3. Nat \subseteq T
  BY <1>1, <1>2, Induction
<1>4. Len(b) \in Nat
  OBVIOUS
<1> QED
  BY <1>3, <1>4 DEF T

\* The front of a wire that a read takes.
LEMMA WireSplit ==
  ASSUME NEW v \in Seq(Seq(Nat)), NEW n \in 0 .. Len(v)
  PROVE  /\ FlattenSeq(SubSeq(v, 1, n)) \in Seq(Nat)
         /\ FlattenSeq(SubSeq(v, n + 1, Len(v))) \in Seq(Nat)
         /\ FlattenSeq(v) = FlattenSeq(SubSeq(v, 1, n)) \o FlattenSeq(SubSeq(v, n + 1, Len(v)))
<1>1. PICK m \in Nat : m = Len(v) /\ n \in 0 .. m
  <2>1. Len(v) \in Nat
    OBVIOUS
  <2> QED
    BY <2>1
<1>2. PICK a \in Seq(Seq(Nat)) : a = SubSeq(v, 1, n)
  BY SeqFront
<1>3. PICK b \in Seq(Seq(Nat)) : b = SubSeq(v, n + 1, m)
  <2>1. SubSeq(v, n + 1, m) \in Seq(Seq(Nat))
    BY <1>1, SeqRest
  <2> QED
    BY <2>1
<1>4. a \o b = v
  BY <1>1, <1>2, <1>3, SeqSplit
<1>5. FlattenSeq(a \o b) = FlattenSeq(a) \o FlattenSeq(b)
  BY FlattenConcat
<1> QED
  BY <1>1, <1>2, <1>3, <1>4, <1>5, FlattenType

\* Two sequences of one element each.
LEMMA PairOfOnes ==
  ASSUME NEW S, NEW x \in S, NEW y \in S
  PROVE  <<x>> \o <<y>> = <<x, y>>
<1>1. PICK a \in Seq(S), b \in Seq(S) : a = <<x>> /\ b = <<y>>
  <2>1. <<x>> \in Seq(S) /\ <<y>> \in Seq(S)
    OBVIOUS
  <2> QED
    BY <2>1
<1>2. Len(a) = 1 /\ Len(b) = 1 /\ a[1] = x /\ b[1] = y
  BY <1>1
<1>3. PICK c \in Seq(S) : c = a \o b
  BY ConcatFacts
<1>4. PICK d \in Seq(S) : d = <<x, y>>
  <2>1. <<x, y>> \in Seq(S)
    OBVIOUS
  <2> QED
    BY <2>1
<1>5. Len(c) = 2 /\ c[1] = x /\ c[2] = y
  <2>1. /\ Len(c) = Len(a) + Len(b)
        /\ \A n \in 1 .. Len(a) : c[n] = a[n]
        /\ \A n \in 1 .. Len(b) : c[Len(a) + n] = b[n]
    BY <1>3, ConcatFacts
  <2> QED
    BY <1>2, <2>1
<1>6. Len(d) = 2 /\ d[1] = x /\ d[2] = y
  BY <1>4
<1>7. \A n \in 1 .. 2 : c[n] = d[n]
  BY <1>5, <1>6
<1>8. c = d
  BY <1>5, <1>6, <1>7, SeqEqual
<1> QED
  BY <1>1, <1>3, <1>4, <1>8

\* Cutting a write in two changes nothing of what there is to read.
LEMMA CutsFlatten ==
  ASSUME NEW ws \in Seq(Seq(Nat)), NEW n \in 1 .. Len(ws), NEW cut \in Cuts(ws, n)
  PROVE  FlattenSeq(cut) = FlattenSeq(ws)
<1>1. CASE cut = ws
  BY <1>1
<1>2. CASE cut # ws
  <2>1. PICK v \in Seq(Nat) : v = ws[n]
    OBVIOUS
  <2>2. PICK k \in 1 .. Len(v) - 1 :
          cut = SubSeq(ws, 1, n - 1) \o <<SubSeq(v, 1, k), SubSeq(v, k + 1, Len(v))>>
                                     \o SubSeq(ws, n + 1, Len(ws))
    BY <1>2, <2>1 DEF Cuts
  <2>3. PICK m \in Nat : m = Len(ws) /\ n \in Nat /\ n >= 1 /\ n <= m
    <3>1. Len(ws) \in Nat
      OBVIOUS
    <3> QED
      BY <3>1
  <2>4. PICK x \in Seq(Nat), y \in Seq(Nat) :
          x = SubSeq(v, 1, k) /\ y = SubSeq(v, k + 1, Len(v)) /\ x \o y = v
    <3>1. SubSeq(v, 1, k) \in Seq(Nat) /\ SubSeq(v, k + 1, Len(v)) \in Seq(Nat)
      OBVIOUS
    <3>2. SubSeq(v, 1, k) \o SubSeq(v, k + 1, Len(v)) = v
      <4>1. k \in 0 .. Len(v)
        OBVIOUS
      <4> QED
        BY <4>1, SeqSplit
    <3> QED
      BY <3>1, <3>2
  <2>5. PICK a \in Seq(Seq(Nat)) : a = SubSeq(ws, 1, n - 1)
    <3>1. SubSeq(ws, 1, n - 1) \in Seq(Seq(Nat))
      BY <2>3
    <3> QED
      BY <3>1
  <2>6. PICK b \in Seq(Seq(Nat)), c \in Seq(Seq(Nat)) :
          b = SubSeq(ws, n, m) /\ c = SubSeq(ws, n + 1, m)
    <3>1. SubSeq(ws, n, m) \in Seq(Seq(Nat)) /\ SubSeq(ws, n + 1, m) \in Seq(Seq(Nat))
      BY <2>3
    <3> QED
      BY <3>1
  <2>7. b = <<v>> \o c
    BY <2>1, <2>3, <2>6, HeadRest
  <2>8. PICK fa \in Seq(Nat), fc \in Seq(Nat) : fa = FlattenSeq(a) /\ fc = FlattenSeq(c)
    BY FlattenType
  <2>9. FlattenSeq(ws) = fa \o (v \o fc)
    <3>1. FlattenSeq(ws) = fa \o FlattenSeq(b)
      <4>1. n - 1 \in 0 .. Len(ws) /\ (n - 1) + 1 = n
        BY <2>3
      <4>2. FlattenSeq(ws) = FlattenSeq(SubSeq(ws, 1, n - 1))
                               \o FlattenSeq(SubSeq(ws, (n - 1) + 1, Len(ws)))
        BY <4>1, WireSplit
      <4>3. FlattenSeq(ws) = FlattenSeq(a) \o FlattenSeq(b)
        BY <2>3, <2>5, <2>6, <4>1, <4>2
      <4> QED
        BY <2>8, <4>3
    <3>2. FlattenSeq(b) = v \o fc
      <4>1. PICK o \in Seq(Seq(Nat)) : o = <<v>>
        <5>1. <<v>> \in Seq(Seq(Nat))
          OBVIOUS
        <5> QED
          BY <5>1
      <4>2. FlattenSeq(o \o c) = FlattenSeq(o) \o FlattenSeq(c)
        BY FlattenConcat
      <4> QED
        BY <2>7, <2>8, <4>1, <4>2, FlattenOne
    <3> QED
      BY <3>1, <3>2
  <2>10. FlattenSeq(cut) = (fa \o v) \o fc
    <3>1. PICK o \in Seq(Seq(Nat)), r \in Seq(Seq(Nat)) : o = <<x>> /\ r = <<y>>
      <4>1. <<x>> \in Seq(Seq(Nat)) /\ <<y>> \in Seq(Seq(Nat))
        OBVIOUS
      <4> QED
        BY <4>1
    <3>2. PICK d \in Seq(Seq(Nat)) : d = o \o r
      <4>1. o \o r \in Seq(Seq(Nat))
        OBVIOUS
      <4> QED
        BY <4>1
    <3>3. d = <<x, y>>
      BY <3>1, <3>2, PairOfOnes
    <3>4. FlattenSeq(d) = v
      <4>1. FlattenSeq(d) = FlattenSeq(o) \o FlattenSeq(r)
        BY <3>2, FlattenConcat
      <4> QED
        BY <2>4, <3>1, <4>1, FlattenOne
    <3>5. PICK e \in Seq(Seq(Nat)) : e = a \o d
      <4>1. a \o d \in Seq(Seq(Nat))
        OBVIOUS
      <4> QED
        BY <4>1
    <3>6. FlattenSeq(e) = fa \o v
      BY <2>8, <3>4, <3>5, FlattenConcat
    <3>7. cut = e \o c
      BY <2>2, <2>3, <2>4, <2>5, <2>6, <3>3, <3>5
    <3>8. FlattenSeq(e \o c) = FlattenSeq(e) \o FlattenSeq(c)
      BY FlattenConcat
    <3> QED
      BY <2>8, <3>6, <3>7, <3>8
  <2>11. (fa \o v) \o fc = fa \o (v \o fc)
    BY NatAssoc
  <2> QED
    BY <2>9, <2>10, <2>11
<1> QED
  BY <1>1, <1>2

\* What fits stays so in front of what is written after.
LEMMA FitsAppend ==
  ASSUME NEW t \in Seq(Nat), NEW u \in Seq(Nat), NEW x \in Seq(Nat), NEW y \in Seq(Nat),
         Fits(t, u), Len(t) = Len(u), Fits(x, y), Len(x) = Len(y)
  PROVE  Fits(t \o x, u \o y) /\ Len(t \o x) = Len(u \o y)
<1>1. PICK k \in Nat, l \in Nat : k = Len(t) /\ l = Len(x)
  OBVIOUS
<1>2. PICK a \in Seq(Nat), b \in Seq(Nat) : a = t \o x /\ b = u \o y
  <2>1. t \o x \in Seq(Nat) /\ u \o y \in Seq(Nat)
    OBVIOUS
  <2> QED
    BY <2>1
<1>3. Len(a) = k + l /\ Len(b) = k + l
  <2>1. Len(a) = Len(t) + Len(x)
    BY <1>2, ConcatFacts
  <2>2. Len(b) = Len(u) + Len(y)
    BY <1>2, ConcatFacts
  <2> QED
    BY <1>1, <2>1, <2>2
<1>4. ASSUME NEW n \in 1 .. k + l
      PROVE  a[n] = b[n] \/ a[n] = Garbage
  <2>1. CASE n \in 1 .. k
    <3>1. a[n] = t[n] /\ b[n] = u[n]
      BY <1>1, <1>2, <2>1
    <3> QED
      BY <1>1, <2>1, <3>1 DEF Fits
  <2>2. CASE n \notin 1 .. k
    <3>1. n - k \in 1 .. l
      BY <2>2
    <3>2. a[n] = x[n - k] /\ b[n] = y[n - k]
      BY <1>1, <1>2, <2>2
    <3> QED
      BY <1>1, <3>1, <3>2 DEF Fits
  <2> QED
    BY <2>1, <2>2
<1> QED
  BY <1>2, <1>3, <1>4 DEF Fits

\* The front of what fits does.
LEMMA FitsFront ==
  ASSUME NEW a \in Seq(Nat), NEW b \in Seq(Nat), NEW u \in Seq(Nat), Fits(a \o b, u)
  PROVE  Fits(a, u)
<1>1. PICK c \in Seq(Nat) : c = a \o b
  <2>1. a \o b \in Seq(Nat)
    OBVIOUS
  <2> QED
    BY <2>1
<1>2. /\ Len(a) \in Nat /\ Len(b) \in Nat /\ Len(u) \in Nat
      /\ Len(c) = Len(a) + Len(b)
      /\ \A n \in 1 .. Len(a) : c[n] = a[n]
  BY <1>1, ConcatFacts
<1>3. Len(c) <= Len(u) /\ \A n \in 1 .. Len(c) : c[n] = u[n] \/ c[n] = Garbage
  BY <1>1 DEF Fits
<1>4. \A n \in 1 .. Len(a) : n \in 1 .. Len(c)
  BY <1>2
<1>5. Len(a) <= Len(u)
  BY <1>2, <1>3
<1> QED
  BY <1>2, <1>3, <1>4, <1>5 DEF Fits

\* Every sequence fits itself.
LEMMA FitsSelf ==
  ASSUME NEW t \in Seq(Nat)
  PROVE  Fits(t, t)
<1>1. Len(t) \in Nat
  OBVIOUS
<1> QED
  BY <1>1 DEF Fits

\* What is queued fits what is written.
LEMMA FlattenQueued ==
  ASSUME NEW ws \in Seq(Seq(Nat)), NEW vs \in Seq(Seq(Nat)), Len(vs) = Len(ws),
         \A n \in DOMAIN ws : vs[n] = ws[n] \/ vs[n] = [m \in DOMAIN ws[n] |-> Garbage]
  PROVE  Fits(FlattenSeq(vs), FlattenSeq(ws)) /\ Len(FlattenSeq(vs)) = Len(FlattenSeq(ws))
<1> DEFINE Q(x, y) == x = y \/ x = [m \in DOMAIN y |-> Garbage]
           Good(v, w) == /\ Fits(FlattenSeq(v), FlattenSeq(w))
                         /\ Len(FlattenSeq(v)) = Len(FlattenSeq(w))
           T == {n \in Nat : \A v, w \in Seq(Seq(Nat)) :
                   Len(v) = n /\ Len(w) = n /\ (\A k \in 1 .. n : Q(v[k], w[k])) => Good(v, w)}
<1>1. 0 \in T
  <2>1. ASSUME NEW v \in Seq(Seq(Nat)), NEW w \in Seq(Seq(Nat)), Len(v) = 0, Len(w) = 0
        PROVE  Good(v, w)
    <3>1. v = w
      BY <2>1
    <3>2. FlattenSeq(v) \in Seq(Nat)
      BY FlattenType
    <3> QED
      BY <3>1, <3>2, FitsSelf
  <2> QED
    BY <2>1
<1>2. ASSUME NEW n \in Nat, n \in T
      PROVE  n + 1 \in T
  <2>1. ASSUME NEW v \in Seq(Seq(Nat)), NEW w \in Seq(Seq(Nat)), Len(v) = n + 1, Len(w) = n + 1,
               \A k \in 1 .. n + 1 : Q(v[k], w[k])
        PROVE  Good(v, w)
    <3>1. PICK c \in Seq(Seq(Nat)), x \in Seq(Nat) : v = Append(c, x) /\ Len(c) = n
      BY <2>1, SplitLast
    <3>2. PICK d \in Seq(Seq(Nat)), y \in Seq(Nat) : w = Append(d, y) /\ Len(d) = n
      BY <2>1, SplitLast
    <3>3. ASSUME NEW k \in 1 .. n
          PROVE  Q(c[k], d[k])
      <4>1. v[k] = c[k]
        BY <3>1
      <4>2. w[k] = d[k]
        BY <3>2
      <4>3. k \in 1 .. n + 1
        OBVIOUS
      <4> QED
        BY <2>1, <4>1, <4>2, <4>3
    <3>4. Good(c, d)
      BY <1>2, <3>1, <3>2, <3>3
    <3>5. Q(x, y)
      <4>1. v[n + 1] = x
        BY <3>1
      <4>2. w[n + 1] = y
        BY <3>2
      <4>3. n + 1 \in 1 .. n + 1
        OBVIOUS
      <4> QED
        BY <2>1, <4>1, <4>2, <4>3
    <3>6. Fits(x, y) /\ Len(x) = Len(y)
      <4>1. CASE x = y
        BY <4>1, FitsSelf
      <4>2. CASE x = [m \in DOMAIN y |-> Garbage]
        <5>1. PICK l \in Nat : l = Len(y) /\ DOMAIN y = 1 .. l
          <6>1. Len(y) \in Nat /\ DOMAIN y = 1 .. Len(y)
            OBVIOUS
          <6> QED
            BY <6>1
        <5>2. x = [m \in 1 .. l |-> Garbage]
          BY <4>2, <5>1
        <5>3. Len(x) = l /\ \A m \in 1 .. l : x[m] = Garbage
          BY <5>2
        <5> QED
          BY <5>1, <5>3 DEF Fits
      <4> QED
        BY <3>5, <4>1, <4>2
    <3>7. PICK fc \in Seq(Nat), fd \in Seq(Nat) : fc = FlattenSeq(c) /\ fd = FlattenSeq(d)
      BY FlattenType
    <3>8. Fits(fc, fd) /\ Len(fc) = Len(fd)
      BY <3>4, <3>7
    <3>9. Fits(fc \o x, fd \o y) /\ Len(fc \o x) = Len(fd \o y)
      BY <3>6, <3>8, FitsAppend
    <3>10. FlattenSeq(v) = fc \o x /\ FlattenSeq(w) = fd \o y
      BY <3>1, <3>2, <3>7, FlattenAppend
    <3> QED
      BY <3>9, <3>10
  <2> HIDE DEF Q, Good
  <2>2. n + 1 \in Nat
    OBVIOUS
  <2> QED
    BY <2>1, <2>2
<1> HIDE DEF T
<1>3. Nat \subseteq T
  BY <1>1, <1>2, Induction
<1>4. PICK k \in Nat : k = Len(ws) /\ DOMAIN ws = 1 .. k
  OBVIOUS
<1>5. k \in T
  BY <1>3
<1>6. \A n \in 1 .. k : Q(vs[n], ws[n])
  BY <1>4
<1> HIDE DEF Q, Good
<1>7. Good(vs, ws)
  BY <1>4, <1>5, <1>6 DEF T
<1> QED
  BY <1>7 DEF Good

(***************************************************************************)
(* The order of the messages.                                              *)
(***************************************************************************)

\* The messages at an end, by name.
LEMMA LineTypes ==
  ASSUME IInv, NEW i \in Pipes, NEW s \in Sides
  PROVE  /\ heard[i][s] \in Seq(Nat) /\ written[i][s] \in Seq(Nat)
         /\ wire[i][s] \in Seq(Seq(Nat)) /\ FlattenSeq(wire[i][s]) \in Seq(Nat)
<1>1. /\ heard \in [Pipes -> [Sides -> Seq(Nat)]] /\ written \in [Pipes -> [Sides -> Seq(Nat)]]
      /\ wire \in [Pipes -> [Sides -> Seq(Seq(Nat))]]
  BY DEF IInv, TypeOK, IocpTypeOK
<1>2. /\ heard[i][s] \in Seq(Nat) /\ written[i][s] \in Seq(Nat)
      /\ wire[i][s] \in Seq(Seq(Nat))
  BY <1>1
<1> QED
  BY <1>2, FlattenType

\* What was taken is a sequence of messages, since the buffer is as long as the completion says.
LEMMA TakenType ==
  ASSUME IInv, NEW i \in Pipes, NEW s \in Sides, NEW w \in TakenAt(i, s)
  PROVE  w \in Seq(Nat)
<1>1. CASE w = <<>>
  <2>1. <<>> \in Seq(Nat)
    OBVIOUS
  <2> QED
    BY <1>1, <2>1
<1>2. CASE w # <<>>
  <2>1. Used(i, s) /\ w \in Taken(end[i][s])
    BY <1>2 DEF TakenAt
  <2>2. PICK q \in Procs : q = end[i][s]
    BY <2>1, Types DEF Used
  <2>3. PICK b \in Seq(Nat) : b = buffer[q]
    BY Types
  <2>4. \/ \E n \in DOMAIN port[q] : w = SubSeq(b, 1, port[q][n].len)
        \/ worker[q] = "callback" /\ w = SubSeq(b, 1, got[q].len)
    BY <2>1, <2>2, <2>3 DEF Taken, Received
  <2>5. PICK l : w = SubSeq(b, 1, l) /\ l \in Nat /\ l <= Len(b)
    <3>1. ASSUME NEW n \in DOMAIN port[q]
          PROVE  port[q][n].len \in Nat /\ port[q][n].len <= Len(b)
      <4>1. PICK a \in Seq(Completions) : a = port[q]
        BY Types
      <4>2. a[n] \in Completions
        BY <4>1
      <4>3. port[q][n].len \in Nat
        BY <4>1, <4>2 DEF Completions
      <4>4. port[q][n].len <= Len(buffer[q])
        BY DEF IInv, LengthsInv
      <4> QED
        BY <2>3, <4>3, <4>4
    <3>2. worker[q] = "callback" => got[q].len \in Nat /\ got[q].len <= Len(b)
      BY <2>3 DEF IInv, LengthsInv, Completions
    <3> QED
      BY <2>4, <3>1, <3>2
  <2> QED
    BY <2>5
<1> QED
  BY <1>1, <1>2

\* What a process has taken stays so while no read of it completes.
LEMMA TakenKept ==
  ASSUME NEW q \in Procs, buffer'[q] = buffer[q], got'[q] = got[q],
         worker'[q] = "callback" <=> worker[q] = "callback",
         \A n \in DOMAIN port[q] : n \in DOMAIN port'[q] /\ port'[q][n] = port[q][n],
         \A n \in DOMAIN port'[q] \ DOMAIN port[q] : port'[q][n].op # "read"
  PROVE  Taken(q)' = Taken(q)
<1>1. {n \in DOMAIN port'[q] : port'[q][n].op = "read"} = {n \in DOMAIN port[q] : port[q][n].op = "read"}
  OBVIOUS
<1>2. \A n \in {n \in DOMAIN port[q] : port[q][n].op = "read"} : port'[q][n] = port[q][n]
  OBVIOUS
<1>3. Received(q)' = Received(q)
  BY DEF Received
<1> QED
  BY <1>1, <1>2, <1>3 DEF Taken

\* An end nobody else begins or ceases to use.
LEMMA TakenAtKept ==
  ASSUME NEW j \in Pipes, NEW t \in Sides,
         Used(j, t)' <=> Used(j, t),
         Used(j, t) => end'[j][t] = end[j][t] /\ Taken(end[j][t])' = Taken(end[j][t])
  PROVE  TakenAt(j, t)' = TakenAt(j, t)
BY DEF TakenAt

\* An end where nothing is written, moved or given to a callback.
LEMMA OrderedKept ==
  ASSUME IInv, NEW j \in Pipes, NEW t \in Sides, Ordered(j, t),
         TakenAt(j, t)' = TakenAt(j, t),
         heard'[j][t] = heard[j][t], wire'[j][t] = wire[j][t], written'[j][t] = written[j][t],
         phase[j] = "connected" => phase'[j] = "connected",
         end'[j][t] # None /\ end'[j][Other(t)] # None =>
           (end[j][t] # None /\ end[j][Other(t)] # None) \/ phase[j] # "connected"
  PROVE  Ordered(j, t)'
<1>1. ASSUME NEW w \in TakenAt(j, t)
      PROVE  InLine(j, t, w)'
  <2>1. InLine(j, t, w)
    BY DEF Ordered
  <2>2. PICK l \in Seq(Nat), u \in Seq(Nat) : l = Line(j, t, w) /\ u = written[j][t]
    <3>1. PICK a \in Seq(Nat), c \in Seq(Nat), u \in Seq(Nat), b \in Seq(Nat) :
            /\ a = heard[j][t] /\ c = FlattenSeq(wire[j][t]) /\ u = written[j][t] /\ b = w
      BY LineTypes, TakenType
    <3>2. (a \o b) \o c \in Seq(Nat)
      OBVIOUS
    <3> QED
      BY <3>1, <3>2 DEF Line
  <2>3. Line(j, t, w)' = l /\ written'[j][t] = u
    BY <2>2 DEF Line
  <2>4. Fits(l, u)
    BY <2>1, <2>2 DEF InLine
  <2>5. end[j][t] # None /\ end[j][Other(t)] # None => Len(l) = Len(u)
    BY <2>1, <2>2 DEF InLine
  <2>6. phase[j] # "connected" => Len(l) = Len(u)
    <3>1. ASSUME phase[j] # "connected"
          PROVE  Len(l) = Len(u)
      <4>1. u = <<>>
        BY <2>2, <3>1 DEF Ordered
      <4>2. Len(u) = 0
        BY <4>1
      <4>3. Len(l) <= Len(u) /\ Len(l) \in Nat
        BY <2>4 DEF Fits
      <4> QED
        BY <4>2, <4>3
    <3> QED
      BY <3>1
  <2> QED
    BY <2>3, <2>4, <2>5, <2>6 DEF InLine
<1> QED
  BY <1>1 DEF Ordered

\* A process that waits, or is in another callback, has taken nothing.
LEMMA TakenNone ==
  ASSUME NEW q \in Procs, One(q), Waiting(q) \/ worker[q] = "rearm"
  PROVE  Taken(q) = {} /\ worker[q] # "callback"
<1>1. Succeeded(q) = {}
  BY DEF One, Busy
<1>2. worker[q] # "callback"
  BY DEF One, Busy
<1>3. {n \in DOMAIN port[q] : port[q][n].op = "read"} = {}
  BY <1>1 DEF Succeeded
<1> QED
  BY <1>2, <1>3 DEF Taken, One, Busy

\* A process in the callback of a read has taken what the callback is given.
LEMMA TakenReceived ==
  ASSUME NEW q \in Procs, One(q), worker[q] = "callback", got[q].op = "read"
  PROVE  Taken(q) = {Received(q)}
<1>1. Succeeded(q) = {}
  BY DEF One, Busy
<1>2. {n \in DOMAIN port[q] : port[q][n].op = "read"} = {}
  BY <1>1 DEF Succeeded
<1> QED
  BY <1>2 DEF Taken

\* A process whose read of w completes has taken w.
LEMMA TakenRead ==
  ASSUME IInv, NEW q \in Procs, NEW w \in Seq(Nat), Taken(q) = {}, ReadCompletes(q, w),
         worker[q] # "callback", worker'[q] # "callback"
  PROVE  Taken(q)' = {w}
<1>1. IocpTypeOK
  BY Types
<1>2. PICK b \in Seq(Nat) : b = buffer'[q]
  BY <1>1, ReadCompletesFacts
<1>3. PICK n \in Nat :
        /\ n \notin DOMAIN port[q] /\ DOMAIN port'[q] = DOMAIN port[q] \union {n}
        /\ port'[q][n] = Completion("read", Len(w))
  BY <1>1, ReadCompletesFacts
<1>4. \A m \in DOMAIN port[q] : port'[q][m] = port[q][m]
  BY <1>1, ReadCompletesFacts
<1>5. \A m \in DOMAIN port[q] : port[q][m].op # "read"
  BY DEF Taken
<1>6. port'[q][n].op = "read" /\ port'[q][n].len = Len(w)
  BY <1>3 DEF Completion
<1>7. {m \in DOMAIN port'[q] : port'[q][m].op = "read"} = {n}
  BY <1>3, <1>4, <1>5, <1>6
<1>8. Taken(q)' = {SubSeq(b, 1, Len(w))}
  <2>1. Taken(q)' = {SubSeq(buffer'[q], 1, port'[q][m].len) : m \in {n}} \union {}
    BY <1>7 DEF Taken
  <2> QED
    BY <1>2, <1>6, <2>1
<1>9. SubSeq(b, 1, Len(w)) = w
  <2>1. Len(w) <= Len(b) /\ \A m \in 1 .. Len(w) : b[m] = w[m]
    BY <1>1, <1>2, ReadCompletesFacts
  <2>2. PICK k \in Nat : k = Len(w)
    OBVIOUS
  <2>3. PICK c \in Seq(Nat) : c = SubSeq(b, 1, k) /\ Len(c) = k
    <3>1. SubSeq(b, 1, k) \in Seq(Nat) /\ Len(SubSeq(b, 1, k)) = k
      BY <2>1, <2>2
    <3> QED
      BY <3>1
  <2>4. \A m \in 1 .. k : c[m] = b[m]
    BY <2>3
  <2>5. \A m \in 1 .. Len(c) : c[m] = w[m]
    BY <2>1, <2>2, <2>3, <2>4
  <2>6. c = w
    BY <2>2, <2>3, <2>5, SeqEqual
  <2> QED
    BY <2>2, <2>3, <2>6
<1> QED
  BY <1>8, <1>9

\* A write that a waiting read takes the first part of.
LEMMA WriteRead ==
  ASSUME NEW h \in Seq(Nat), NEW u \in Seq(Nat), NEW ws \in Seq(Seq(Nat)), ws # <<>>,
         NEW cut \in Cuts(ws, 1),
         NEW k \in Pipes, NEW r \in Sides, NEW rest \in Queued(k, r, Tail(cut)),
         Fits(h, u), Len(h) = Len(u)
  PROVE  LET l == (h \o Head(cut)) \o FlattenSeq(rest)
             v == u \o FlattenSeq(ws)
         IN  Fits(l, v) /\ Len(l) = Len(v)
<1>1. PICK c \in Seq(Seq(Nat)) : c = cut /\ c # <<>> /\ FlattenSeq(c) = FlattenSeq(ws)
  <2>1. Len(ws) \in Nat /\ 1 \in 1 .. Len(ws)
    OBVIOUS
  <2>2. cut \in Seq(Seq(Nat)) /\ Len(cut) \in {Len(ws), Len(ws) + 1}
    BY <2>1, CutsFacts
  <2>3. FlattenSeq(cut) = FlattenSeq(ws)
    BY <2>1, CutsFlatten
  <2> QED
    BY <2>1, <2>2, <2>3
<1>2. PICK w \in Seq(Nat), ts \in Seq(Seq(Nat)) : w = Head(c) /\ ts = Tail(c)
  <2>1. Head(c) \in Seq(Nat) /\ Tail(c) \in Seq(Seq(Nat))
    BY <1>1
  <2> QED
    BY <2>1
<1>3. c = <<w>> \o ts
  BY <1>1, <1>2
<1>4. rest \in Seq(Seq(Nat))
  BY <1>1, <1>2, QueuedType
<1>5. PICK fr \in Seq(Nat), ft \in Seq(Nat) : fr = FlattenSeq(rest) /\ ft = FlattenSeq(ts)
  BY <1>4, FlattenType
<1>6. FlattenSeq(ws) = w \o ft
  <2>1. <<w>> \in Seq(Seq(Nat))
    OBVIOUS
  <2>2. FlattenSeq(<<w>> \o ts) = FlattenSeq(<<w>>) \o FlattenSeq(ts)
    BY <2>1, FlattenConcat
  <2>3. FlattenSeq(<<w>>) = w
    BY FlattenOne
  <2> QED
    BY <1>1, <1>3, <1>5, <2>2, <2>3
<1>7. Fits(fr, ft) /\ Len(fr) = Len(ft)
  <2>1. /\ Len(rest) = Len(ts)
        /\ \A n \in DOMAIN ts : rest[n] = ts[n] \/ rest[n] = [m \in DOMAIN ts[n] |-> Garbage]
    <3>1. rest \in Queued(k, r, ts)
      BY <1>1, <1>2
    <3> HIDE <1>2
    <3> QED
      BY <3>1, QueuedType
  <2> QED
    BY <1>4, <1>5, <2>1, FlattenQueued
<1>8. PICK x \in Seq(Nat), y \in Seq(Nat) : x = w \o fr /\ y = w \o ft
  <2>1. w \o fr \in Seq(Nat) /\ w \o ft \in Seq(Nat)
    OBVIOUS
  <2> QED
    BY <2>1
<1>9. Fits(x, y) /\ Len(x) = Len(y)
  BY <1>7, <1>8, FitsSelf, FitsAppend, SMTT(30)
<1>10. Fits(h \o x, u \o y) /\ Len(h \o x) = Len(u \o y)
  BY <1>9, FitsAppend
<1>11. (h \o w) \o fr = h \o x
  <2>1. \A b1, b2 \in Seq(Nat) : (h \o b1) \o b2 = h \o (b1 \o b2)
    BY NatAssoc
  <2>2. (h \o w) \o fr = h \o (w \o fr)
    BY <2>1
  <2> QED
    BY <1>8, <2>2
<1> QED
  BY <1>1, <1>2, <1>5, <1>6, <1>8, <1>10, <1>11

\* A write that is put behind those on the wire.
LEMMA WriteQueued ==
  ASSUME NEW h \in Seq(Nat), NEW v \in Seq(Seq(Nat)), NEW u \in Seq(Nat), NEW ws \in Seq(Seq(Nat)),
         NEW k, NEW r, NEW all \in Queued(k, r, ws),
         Fits(h \o FlattenSeq(v), u), Len(h \o FlattenSeq(v)) = Len(u)
  PROVE  LET l == h \o FlattenSeq(v \o all)
             x == u \o FlattenSeq(ws)
         IN  Fits(l, x) /\ Len(l) = Len(x)
<1>1. /\ all \in Seq(Seq(Nat)) /\ Len(all) = Len(ws)
      /\ \A n \in DOMAIN ws : all[n] = ws[n] \/ all[n] = [m \in DOMAIN ws[n] |-> Garbage]
  BY QueuedType
<1>2. PICK fv \in Seq(Nat), fa \in Seq(Nat), fw \in Seq(Nat) :
        fv = FlattenSeq(v) /\ fa = FlattenSeq(all) /\ fw = FlattenSeq(ws)
  BY <1>1, FlattenType
<1>3. Fits(fa, fw) /\ Len(fa) = Len(fw)
  BY <1>1, <1>2, FlattenQueued
<1>4. FlattenSeq(v \o all) = fv \o fa
  BY <1>1, <1>2, FlattenConcat
<1>5. PICK a \in Seq(Nat) : a = h \o fv
  <2>1. h \o fv \in Seq(Nat)
    OBVIOUS
  <2> QED
    BY <2>1
<1>6. Fits(a, u) /\ Len(a) = Len(u)
  BY <1>2, <1>5
<1>7. Fits(a \o fa, u \o fw) /\ Len(a \o fa) = Len(u \o fw)
  BY <1>3, <1>6, FitsAppend
<1>8. a \o fa = h \o (fv \o fa)
  <2>1. (h \o fv) \o fa = h \o (fv \o fa)
    BY NatAssoc, SMTT(30)
  <2> QED
    BY <1>5, <2>1
<1> QED
  BY <1>2, <1>4, <1>7, <1>8

\* A write of the process that has the other end open.
LEMMA WriteOrders ==
  ASSUME IInv, OneAtATime, NEW i \in Pipes, NEW s \in Sides, NEW ws \in Seq(Seq(Nat)),
         \/ AsyncWrites(i, s, ws)
         \/ UNCHANGED <<wire, reading, accepts, port, buffer, written>>,
         end[i][Other(s)] # None, UNCHANGED <<phase, end, handle>>,
         NEW j \in Pipes, NEW t \in Sides, Ordered(j, t), heard'[j][t] = heard[j][t],
         Used(j, t) => /\ worker'[end[j][t]] = worker[end[j][t]]
                       /\ got'[end[j][t]] = got[end[j][t]]
  PROVE  Ordered(j, t)'
<1>1. Used(j, t)' <=> Used(j, t)
  BY DEF Used
<1>2. ASSUME Used(j, t), buffer'[end[j][t]] = buffer[end[j][t]], port'[end[j][t]] = port[end[j][t]]
      PROVE  Taken(end[j][t])' = Taken(end[j][t])
  <2>1. PICK q \in Procs : q = end[j][t]
    BY <1>2, Types DEF Used
  <2>2. buffer'[q] = buffer[q] /\ got'[q] = got[q] /\ worker'[q] = worker[q] /\ port'[q] = port[q]
    BY <1>2, <2>1
  <2>3. Taken(q)' = Taken(q)
    BY <2>2, TakenKept
  <2>4. \A x : x = end[j][t] => x' = end'[j][t]
    OBVIOUS
  <2> QED
    BY <2>1, <2>3
<1>3. CASE UNCHANGED <<wire, reading, accepts, port, buffer, written>>
  <2>1. TakenAt(j, t)' = TakenAt(j, t)
    BY <1>1, <1>2, <1>3, TakenAtKept
  <2> QED
    BY <1>3, <2>1, OrderedKept
<1>4. CASE AsyncWrites(i, s, ws) /\ ~ UNCHANGED <<wire, reading, accepts, port, buffer, written>>
  <2>1. /\ phase[i] = "connected" /\ end[i][s] \in Procs /\ ws # <<>>
        /\ \A k \in Pipes, r \in Sides : k # i \/ r # s =>
             wire'[k][r] = wire[k][r] /\ written'[k][r] = written[k][r]
        /\ written'[i][s] = written[i][s] \o FlattenSeq(ws)
        /\ \/ /\ <<i, s>> \in reading
              /\ \E cut \in Cuts(ws, 1), w \in Seq(Nat) :
                   /\ w = Head(cut)
                   /\ ReadCompletes(end[i][s], w)
                   /\ wire'[i][s] \in Queued(i, s, Tail(cut))
           \/ /\ UNCHANGED <<port, buffer>>
              /\ \E all \in Queued(i, s, ws) : wire'[i][s] = wire[i][s] \o all
    <3>1. IocpTypeOK /\ AsyncWrites(i, s, ws)
      BY <1>4, Types
    <3> HIDE <1>4
    <3>2. \/ UNCHANGED <<wire, reading, accepts, port, buffer, written>>
          \/ /\ phase[i] = "connected" /\ end[i][s] \in Procs /\ ws # <<>>
             /\ \A k \in Pipes, r \in Sides : k # i \/ r # s => wire'[k][r] = wire[k][r]
             /\ \A k \in Pipes, r \in Sides : k # i \/ r # s => written'[k][r] = written[k][r]
             /\ written'[i][s] = written[i][s] \o FlattenSeq(ws)
             /\ \/ /\ <<i, s>> \in reading
                   /\ \E cut \in Cuts(ws, 1), w \in Seq(Nat) :
                        /\ w = Head(cut)
                        /\ ReadCompletes(end[i][s], w)
                        /\ wire'[i][s] \in Queued(i, s, Tail(cut))
                \/ /\ UNCHANGED <<port, buffer>>
                   /\ \E all \in Queued(i, s, ws) : wire'[i][s] = wire[i][s] \o all
      BY <3>1, AsyncWritesFacts, ZenonT(30)
    <3> QED
      BY <1>4, <3>2, Zenon
  <2>2. PICK q \in Procs : q = end[i][s]
    BY <2>1
  <2>3. CASE j # i \/ t # s
    <3>1. TakenAt(j, t)' = TakenAt(j, t)
      <4>1. ASSUME Used(j, t)
            PROVE  buffer'[end[j][t]] = buffer[end[j][t]] /\ port'[end[j][t]] = port[end[j][t]]
        <5>1. CASE UNCHANGED <<port, buffer>>
          BY <5>1
        <5>2. CASE <<i, s>> \in reading /\ \E w \in Seq(Nat) : ReadCompletes(end[i][s], w)
          <6>1. Owned(i, s)
            BY <5>2 DEF IInv, OperationsInv
          <6>2. end[j][t] # end[i][s] /\ end[j][t] \in Procs
            BY <2>3, <4>1, <6>1, Types DEF Used, Owned
          <6> QED
            BY <2>1, <5>2, <6>2, Types, ReadCompletesFacts
        <5> QED
          BY <2>1, <5>1, <5>2
      <4> QED
        BY <1>1, <1>2, <4>1, TakenAtKept
    <3> QED
      BY <2>1, <2>3, <3>1, OrderedKept
  <2>4. CASE j = i /\ t = s
    <3>1. PICK h \in Seq(Nat), u \in Seq(Nat), v \in Seq(Seq(Nat)), f \in Seq(Nat) :
            h = heard[i][s] /\ u = written[i][s] /\ v = wire[i][s] /\ f = FlattenSeq(v)
      BY LineTypes
    <3>2. phase'[i] = "connected" /\ heard'[i][s] = h /\ written'[i][s] = u \o FlattenSeq(ws)
      BY <2>1, <2>4, <3>1
    <3>3. ASSUME NEW w \in TakenAt(i, s)
          PROVE  /\ w \in Seq(Nat)
                 /\ Fits((h \o w) \o f, u) /\ Len((h \o w) \o f) = Len(u)
      <4>1. InLine(i, s, w)
        BY <2>4 DEF Ordered
      <4> QED
        BY <2>2, <3>1, <4>1, TakenType, IocpAssumption DEF InLine, Line
    <3>4. ASSUME <<i, s>> \in reading, NEW cut \in Cuts(ws, 1), NEW x \in Seq(Nat),
                 x = Head(cut), ReadCompletes(end[i][s], x),
                 wire'[i][s] \in Queued(i, s, Tail(cut))
          PROVE  Ordered(j, t)'
      <4>1. Owned(i, s) /\ v = <<>>
        BY <3>1, <3>4 DEF IInv, OperationsInv
      <4>2. Waiting(q)
        BY <2>2, <3>4 DEF Waiting
      <4>3. Taken(q) = {} /\ worker[q] # "callback" /\ worker'[q] # "callback"
        BY <2>2, <2>4, <4>1, <4>2, TakenNone DEF OneAtATime, Used, Owned
      <4>4. Tail(cut) \in Seq(Seq(Nat))
        <5>1. Len(ws) \in Nat /\ 1 \in 1 .. Len(ws)
          BY <2>1
        <5>2. cut \in Seq(Seq(Nat)) /\ Len(cut) \in {Len(ws), Len(ws) + 1}
          BY <5>1, CutsFacts
        <5> QED
          BY <5>1, <5>2
      <4>5. Taken(q)' = {x}
        BY <2>2, <3>4, <4>3, TakenRead
      <4>6. TakenAt(i, s) = {<<>>}
        BY <2>2, <4>3 DEF TakenAt
      <4>7. TakenAt(i, s)' = {x}
        <5>1. Used(i, s)'
          BY <4>1 DEF Used, Owned
        <5>2. end'[i][s] = q
          BY <2>2
        <5> QED
          BY <4>5, <5>1, <5>2 DEF TakenAt
      <4>8. Fits(h, u) /\ Len(h) = Len(u)
        <5>1. f = <<>>
          BY <3>1, <4>1, FlattenEmpty
        <5>2. (h \o <<>>) \o <<>> = h
          OBVIOUS
        <5> QED
          BY <3>3, <4>6, <5>1, <5>2
      <4>9. PICK rest \in Queued(i, s, Tail(cut)) : rest = wire'[i][s]
        BY <3>4
      <4>10. LET l == (h \o Head(cut)) \o FlattenSeq(rest)
                 y == u \o FlattenSeq(ws)
             IN  Fits(l, y) /\ Len(l) = Len(y)
        <5>1. ws # <<>>
          BY <2>1
        <5> QED
          BY <4>8, <5>1, WriteRead, SMTT(30)
      <4>11. InLine(i, s, x)'
        BY <3>2, <3>4, <4>9, <4>10 DEF InLine, Line
      <4> QED
        BY <2>4, <3>2, <4>7, <4>11 DEF Ordered
    <3>5. CASE UNCHANGED <<port, buffer>> /\ \E all \in Queued(i, s, ws) : wire'[i][s] = wire[i][s] \o all
      <4>1. TakenAt(i, s)' = TakenAt(i, s)
        <5>1. Used(i, s) => Taken(end[i][s])' = Taken(end[i][s])
          BY <1>2, <2>4, <3>5
        <5> QED
          BY <1>1, <2>4, <5>1, TakenAtKept
      <4>2. PICK all \in Queued(i, s, ws) : wire'[i][s] = v \o all
        BY <3>1, <3>5
      <4>3. ASSUME NEW w \in TakenAt(i, s)
            PROVE  InLine(i, s, w)'
        <5>1. PICK g \in Seq(Nat) : g = h \o w
          <6>1. w \in Seq(Nat)
            BY <3>3
          <6>2. h \o w \in Seq(Nat)
            BY <6>1
          <6> QED
            BY <6>2
        <5>2. Fits(g \o FlattenSeq(v), u) /\ Len(g \o FlattenSeq(v)) = Len(u)
          BY <3>1, <3>3, <5>1
        <5>3. LET l == g \o FlattenSeq(v \o all)
                  y == u \o FlattenSeq(ws)
              IN  Fits(l, y) /\ Len(l) = Len(y)
          BY <5>2, WriteQueued
        <5> QED
          BY <3>2, <4>2, <5>1, <5>3 DEF InLine, Line
      <4> QED
        BY <2>4, <3>2, <4>1, <4>3 DEF Ordered
    <3> QED
      BY <2>1, <3>4, <3>5
  <2> QED
    BY <2>3, <2>4
<1> QED
  BY <1>3, <1>4

\* A ReadFile takes the front of the wire, or is left waiting.
LEMMA ReadOrders ==
  ASSUME IInv, OneAtATime, OrderInv, NEW p \in Procs, ReadAsync(p)
  PROVE  OrderInv'
<1>1. /\ Running(p) /\ worker[p] = "rearm"
      /\ AsyncRead(p, handle[p][1], handle[p][2])
      /\ worker' = [worker EXCEPT ![p] = "run"]
      /\ UNCHANGED <<phase, end, written, heard, handle, got>>
  BY DEF ReadAsync, endVars, history, mainVars
<1>2. PICK i \in Pipes, s \in Sides : handle[p] = <<i, s>> /\ end[i][s] = p
  BY <1>1, HandleEnd DEF Running
<1>3. IocpTypeOK /\ AsyncRead(p, i, s)
  BY <1>1, <1>2, Types
<1>4. worker'[p] = "run" /\ \A q \in Procs : q # p => worker'[q] = worker[q]
  BY <1>1, Types
<1>5. \A j \in Pipes, t \in Sides : Used(j, t)' <=> Used(j, t)
  BY <1>1 DEF Used
<1>6. Taken(p) = {} /\ worker[p] # "callback" /\ worker'[p] # "callback"
  BY <1>1, <1>4, TakenNone DEF OneAtATime
<1>7. ASSUME NEW j \in Pipes, NEW t \in Sides, Used(j, t),
             buffer'[end[j][t]] = buffer[end[j][t]], port'[end[j][t]] = port[end[j][t]]
      PROVE  Taken(end[j][t])' = Taken(end[j][t])
  <2>1. PICK q \in Procs : q = end[j][t]
    BY <1>7, Types DEF Used
  <2>2. buffer'[q] = buffer[q] /\ got'[q] = got[q] /\ port'[q] = port[q]
    BY <1>1, <1>7, <2>1
  <2>3. worker'[q] = "callback" <=> worker[q] = "callback"
    BY <1>4, <1>6
  <2>4. Taken(q)' = Taken(q)
    BY <2>2, <2>3, TakenKept
  <2> QED
    BY <1>1, <2>1, <2>4
<1>8. CASE wire[i][s] = <<>>
  <2>1. UNCHANGED <<wire, port, buffer>>
    BY <1>3, <1>8, AsyncReadFacts
  <2>2. ASSUME NEW j \in Pipes, NEW t \in Sides
        PROVE  Ordered(j, t)'
    <3>1. TakenAt(j, t)' = TakenAt(j, t)
      BY <1>1, <1>5, <1>7, <2>1, TakenAtKept
    <3>2. Ordered(j, t)
      BY DEF OrderInv
    <3> QED
      BY <1>1, <2>1, <3>1, <3>2, OrderedKept
  <2> QED
    BY <2>2 DEF OrderInv
<1>9. CASE wire[i][s] # <<>>
  <2>1. /\ \A j \in Pipes, t \in Sides : j # i \/ t # s => wire'[j][t] = wire[j][t]
        /\ \E n \in 1 .. Len(wire[i][s]), ws \in Seq(Seq(Nat)) :
             /\ ws \in Cuts(wire[i][s], n) /\ n \in DOMAIN ws
             /\ ReadCompletes(p, FlattenSeq(SubSeq(ws, 1, n)))
             /\ wire'[i][s] = SubSeq(ws, n + 1, Len(ws))
    BY <1>3, <1>9, AsyncReadFacts
  <2>2. PICK h \in Seq(Nat), u \in Seq(Nat), v \in Seq(Seq(Nat)) :
          h = heard[i][s] /\ u = written[i][s] /\ v = wire[i][s]
    BY LineTypes
  <2>3. PICK n \in 1 .. Len(v), ws \in Seq(Seq(Nat)) :
          /\ ws \in Cuts(v, n) /\ n \in DOMAIN ws
          /\ ReadCompletes(p, FlattenSeq(SubSeq(ws, 1, n)))
          /\ wire'[i][s] = SubSeq(ws, n + 1, Len(ws))
    BY <2>1, <2>2
  <2>4. n \in 0 .. Len(ws) /\ FlattenSeq(ws) = FlattenSeq(v)
    BY <2>3, CutsFlatten
  <2>5. PICK w \in Seq(Nat), f \in Seq(Nat) :
          /\ w = FlattenSeq(SubSeq(ws, 1, n)) /\ f = FlattenSeq(SubSeq(ws, n + 1, Len(ws)))
          /\ FlattenSeq(v) = w \o f
    BY <2>4, WireSplit
  <2>6. ASSUME NEW j \in Pipes, NEW t \in Sides
        PROVE  Ordered(j, t)'
    <3>1. Ordered(j, t)
      BY DEF OrderInv
    <3>2. CASE j # i \/ t # s
      <4>1. Used(j, t) => end[j][t] # p /\ end[j][t] \in Procs
        BY <1>2, <3>2, Types DEF Used
      <4>2. \A q \in Procs : q # p => port'[q] = port[q] /\ buffer'[q] = buffer[q]
        BY <1>3, <2>3, <2>5, ReadCompletesFacts
      <4>3. TakenAt(j, t)' = TakenAt(j, t)
        BY <1>1, <1>5, <1>7, <4>1, <4>2, TakenAtKept
      <4> QED
        BY <1>1, <2>1, <3>1, <3>2, <4>3, OrderedKept
    <3>3. CASE j = i /\ t = s
      <4>1. TakenAt(i, s) = {<<>>}
        BY <1>2, <1>6 DEF TakenAt
      <4>2. Taken(p)' = {w}
        BY <1>6, <2>3, <2>5, TakenRead
      <4>3. TakenAt(i, s)' = {w}
        <5>1. end'[i][s] = p /\ Used(i, s)'
          BY <1>1, <1>2, IocpAssumption DEF Used
        <5> QED
          BY <4>2, <5>1 DEF TakenAt
      <4>4. InLine(i, s, <<>>)
        BY <3>1, <3>3, <4>1 DEF Ordered
      <4>5. Line(i, s, <<>>) = Line(i, s, w)'
        <5>1. Line(i, s, <<>>) = (h \o <<>>) \o (w \o f)
          BY <2>2, <2>5 DEF Line
        <5>2. Line(i, s, w)' = (h \o w) \o f
          BY <1>1, <2>2, <2>3, <2>5 DEF Line
        <5>3. h \o <<>> = h
          OBVIOUS
        <5>4. \A b, c \in Seq(Nat) : (h \o b) \o c = h \o (b \o c)
          BY NatAssoc
        <5>5. (h \o w) \o f = h \o (w \o f)
          BY <5>4
        <5> QED
          BY <5>1, <5>2, <5>3, <5>5
      <4>6. InLine(i, s, w)'
        BY <1>1, <4>4, <4>5 DEF InLine
      <4> QED
        BY <1>1, <3>1, <3>3, <4>3, <4>6 DEF Ordered
    <3> QED
      BY <3>2, <3>3
  <2> QED
    BY <2>6 DEF OrderInv
<1> QED
  BY <1>8, <1>9

\* Whatever closes, and whatever else it leaves alone.
LEMMA CloseOrders ==
  ASSUME IInv, OrderInv, NEW p \in Procs, NEW i \in Pipes, NEW s \in Sides,
         Close(p, i, s), end[i][s] = p, UNCHANGED got,
         \A q \in Procs : worker'[q] = "callback" <=> worker[q] = "callback",
         \A j \in Pipes, t \in Sides : j # i \/ t # s => (Used(j, t)' <=> Used(j, t))
  PROVE  OrderInv'
<1>1. IocpTypeOK
  BY Types
<1>2. /\ end'[i][s] = None
      /\ \A j \in Pipes, t \in Sides : j # i \/ t # s => end'[j][t] = end[j][t]
      /\ wire'[i][s] = <<>>
      /\ \E k \in 0 .. Len(wire[i][Other(s)]) :
           wire'[i][Other(s)] = SubSeq(wire[i][Other(s)], 1, k)
      /\ \A j \in Pipes, t \in Sides : j # i => wire'[j][t] = wire[j][t]
      /\ UNCHANGED <<phase, buffer, written, heard>>
  BY <1>1, CloseFacts
<1>3. \A q \in Procs : Taken(q)' = Taken(q)
  <2>1. ASSUME NEW q \in Procs
        PROVE  Taken(q)' = Taken(q)
    <3>1. /\ \A n \in DOMAIN port[q] : n \in DOMAIN port'[q] /\ port'[q][n] = port[q][n]
          /\ \A n \in DOMAIN port'[q] \ DOMAIN port[q] : port'[q][n] = Completion("fail", 0)
      BY <1>1, ClosePorts
    <3>2. Completion("fail", 0).op # "read"
      BY DEF Completion
    <3> QED
      BY <1>2, <3>1, <3>2, TakenKept
  <2> QED
    BY <2>1
<1>4. ASSUME NEW j \in Pipes, NEW t \in Sides
      PROVE  Ordered(j, t)'
  <2>1. Ordered(j, t)
    BY DEF OrderInv
  <2>2. PICK h \in Seq(Nat), u \in Seq(Nat), v \in Seq(Seq(Nat)) :
          h = heard[j][t] /\ u = written[j][t] /\ v = wire[j][t]
    BY LineTypes
  <2>3. CASE j = i /\ t = s
    <3>1. TakenAt(i, s)' = {<<>>}
      BY <1>2 DEF TakenAt, Used
    <3>2. Used(i, s) \/ ~Used(i, s)
      OBVIOUS
    <3>3. PICK w : w \in TakenAt(i, s)
      BY DEF TakenAt
    <3>4. w \in Seq(Nat)
      BY <3>3, TakenType
    <3>5. PICK f \in Seq(Nat) : f = FlattenSeq(v)
      BY FlattenType
    <3>6. Fits((h \o w) \o f, u)
      BY <2>1, <2>2, <2>3, <3>3, <3>5 DEF Ordered, InLine, Line
    <3>7. Fits(h \o w, u)
      <4>1. h \o w \in Seq(Nat)
        BY <3>4
      <4> QED
        BY <3>6, <4>1, FitsFront
    <3>8. Fits(h, u)
      BY <3>4, <3>7, FitsFront
    <3>9. Line(i, s, <<>>)' = h
      <4>1. Line(i, s, <<>>)' = (h \o <<>>) \o <<>>
        BY <1>2, <2>2, <2>3, FlattenEmpty DEF Line
      <4>2. (h \o <<>>) \o <<>> = h
        OBVIOUS
      <4> QED
        BY <4>1, <4>2
    <3>10. InLine(i, s, <<>>)'
      BY <1>2, <2>2, <2>3, <3>8, <3>9 DEF InLine
    <3> QED
      BY <1>2, <2>1, <2>3, <3>1, <3>10 DEF Ordered
  <2>4. CASE j # i \/ t # s
    <3>1. end'[j][t] = end[j][t]
      BY <1>2, <2>4
    <3>2. TakenAt(j, t)' = TakenAt(j, t)
      <4>1. Used(j, t) => Taken(end[j][t])' = Taken(end[j][t])
        <5>1. ASSUME Used(j, t)
              PROVE  Taken(end[j][t])' = Taken(end[j][t])
          <6>1. PICK q \in Procs : q = end[j][t]
            BY <5>1, Types DEF Used
          <6> QED
            BY <1>3, <3>1, <6>1
        <5> QED
          BY <5>1
      <4>2. Used(j, t)' <=> Used(j, t)
        BY <2>4
      <4> QED
        BY <3>1, <4>1, <4>2, TakenAtKept
    <3>3. CASE j # i
      <4>1. end'[j][Other(t)] = end[j][Other(t)] /\ wire'[j][t] = wire[j][t]
        BY <1>2, <3>3, Others
      <4> QED
        BY <1>2, <2>1, <3>1, <3>2, <4>1, OrderedKept
    <3>4. CASE j = i /\ t = Other(s)
      <4>1. end'[j][Other(t)] = None
        BY <1>2, <3>4, Others
      <4>2. PICK k \in 0 .. Len(v) : wire'[j][t] = SubSeq(v, 1, k)
        BY <1>2, <2>2, <3>4
      <4>3. PICK f \in Seq(Nat), g \in Seq(Nat) :
              f = FlattenSeq(SubSeq(v, 1, k)) /\ FlattenSeq(v) = f \o g
        BY WireSplit
      <4>4. ASSUME NEW w \in TakenAt(j, t)
            PROVE  InLine(j, t, w)'
        <5>1. w \in Seq(Nat)
          BY TakenType
        <5>2. PICK a \in Seq(Nat) : a = h \o w
          <6>1. h \o w \in Seq(Nat)
            BY <5>1
          <6> QED
            BY <6>1
        <5>3. Fits(a \o (f \o g), u)
          BY <2>1, <2>2, <4>3, <5>2 DEF Ordered, InLine, Line
        <5>4. (a \o f) \o g = a \o (f \o g)
          <6>1. \A b, c \in Seq(Nat) : (a \o b) \o c = a \o (b \o c)
            BY NatAssoc
          <6> QED
            BY <6>1
        <5>5. Fits(a \o f, u)
          <6>1. a \o f \in Seq(Nat)
            OBVIOUS
          <6> QED
            BY <5>3, <5>4, <6>1, FitsFront
        <5>6. Line(j, t, w)' = a \o f
          BY <1>2, <2>2, <4>2, <4>3, <5>2 DEF Line
        <5> QED
          BY <1>2, <2>2, <4>1, <5>5, <5>6 DEF InLine
      <4> QED
        BY <1>2, <2>1, <3>2, <4>4 DEF Ordered
    <3> QED
      BY <2>4, <3>3, <3>4, Others
  <2> QED
    BY <2>3, <2>4
<1> QED
  BY <1>4 DEF OrderInv

\* A step that gives nobody anything and moves nothing.
LEMMA OrderSame ==
  ASSUME IInv, OrderInv, UNCHANGED <<phase, end, wire, written, heard, handle>>,
         \A q \in Procs : Taken(q)' = Taken(q)
  PROVE  OrderInv'
<1>1. ASSUME NEW j \in Pipes, NEW t \in Sides
      PROVE  Ordered(j, t)'
  <2>1. Ordered(j, t)
    BY DEF OrderInv
  <2>2. TakenAt(j, t)' = TakenAt(j, t)
    <3>1. Used(j, t)' <=> Used(j, t)
      BY DEF Used
    <3>2. Used(j, t) => Taken(end[j][t])' = Taken(end[j][t])
      <4>1. ASSUME Used(j, t)
            PROVE  Taken(end[j][t])' = Taken(end[j][t])
        <5>1. PICK q \in Procs : q = end[j][t]
          BY <4>1, Types DEF Used
        <5>2. Taken(q)' = Taken(q)
          OBVIOUS
        <5> QED
          BY <5>1, <5>2
      <4> QED
        BY <4>1
    <3> QED
      BY <3>1, <3>2, TakenAtKept
  <2> QED
    BY <2>1, <2>2, OrderedKept
<1> QED
  BY <1>1 DEF OrderInv

\* A process that has not started has taken nothing.
LEMMA TakenNew ==
  ASSUME IInv, NEW p \in Procs, pc[p] \in {"new", "created"}
  PROVE  Taken(p) = {} /\ worker[p] = "none"
<1>1. port[p] = <<>> /\ worker[p] = "none"
  BY Types DEF IInv, ThreadInv
<1>2. DOMAIN port[p] = {}
  BY <1>1
<1> QED
  BY <1>1, <1>2 DEF Taken

\* Which end a process uses changes, when neither has anything of it.
LEMMA TakenAtMoves ==
  ASSUME IInv, NEW p \in Procs, Taken(p) = {}, Taken(p)' = {},
         \A q \in Procs : q # p => Taken(q)' = Taken(q) /\ handle'[q] = handle[q],
         NEW j \in Pipes, NEW t \in Sides,
         end'[j][t] = end[j][t] \/ (end[j][t] = None /\ end'[j][t] = p)
  PROVE  TakenAt(j, t)' = TakenAt(j, t)
<1>1. end[j][t] \in Procs \union {None} /\ end'[j][t] \in Procs \union {None}
  BY Types
<1>2. CASE end[j][t] = p /\ end'[j][t] = p
  <2>1. TakenAt(j, t) = {<<>>}
    BY <1>2 DEF TakenAt
  <2>2. TakenAt(j, t)' = {<<>>}
    BY <1>2 DEF TakenAt
  <2> QED
    BY <2>1, <2>2
<1>3. CASE end[j][t] = None
  <2>1. TakenAt(j, t) = {<<>>}
    BY <1>3 DEF TakenAt, Used
  <2>2. TakenAt(j, t)' = {<<>>}
    <3>1. CASE end'[j][t] = None
      BY <3>1 DEF TakenAt, Used
    <3>2. CASE end'[j][t] = p
      BY <3>2 DEF TakenAt
    <3> QED
      BY <1>3, <3>1, <3>2
  <2> QED
    BY <2>1, <2>2
<1>4. CASE end[j][t] \in Procs \ {p} /\ end'[j][t] = end[j][t]
  <2>1. PICK q \in Procs : q = end[j][t] /\ q # p
    BY <1>4
  <2>2. Taken(q)' = Taken(q) /\ handle'[q] = handle[q] /\ end'[j][t] = q
    BY <1>4, <2>1
  <2>3. Used(j, t)' <=> Used(j, t)
    BY <2>1, <2>2 DEF Used
  <2> QED
    BY <2>1, <2>2, <2>3, TakenAtKept
<1> QED
  BY <1>1, <1>2, <1>3, <1>4

\* A new instance has carried nothing.
LEMMA StartOrders ==
  ASSUME IInv, OrderInv, NEW p \in Procs, Start(p)
  PROVE  OrderInv'
<1> USE DEF Pipes
<1>1. /\ pc[p] = "new"
      /\ phase' = [phase EXCEPT ![p] = "listening"]
      /\ end' = [end EXCEPT ![p]["server"] = p]
      /\ handle' = [handle EXCEPT ![p] = <<p, "server">>]
      /\ UNCHANGED <<wire, port, buffer, written, heard, worker, got>>
  BY DEF Start, NewPipe, opVars, portVars, history
<1>2. "server" \in Sides
  BY DEF Sides
<1>3. /\ end'[p]["server"] = p
      /\ \A i \in Pipes, s \in Sides : i # p \/ s # "server" => end'[i][s] = end[i][s]
  <2>1. p \in Procs \union {None} /\ end \in [Pipes -> [Sides -> Procs \union {None}]]
    BY Types
  <2> QED
    BY <1>1, <1>2, <2>1, EndExcept
<1>4. phase[p] = "unused" /\ end[p]["server"] = None
  BY <1>1 DEF IInv, PipesInv
<1>5. \A q \in Procs : Taken(q)' = Taken(q)
  BY <1>1, TakenKept
<1>6. \A q \in Procs : q # p => handle'[q] = handle[q]
  BY <1>1, Types
<1>7. Taken(p) = {}
  BY <1>1, TakenNew
<1>8. ASSUME NEW j \in Pipes, NEW t \in Sides
      PROVE  Ordered(j, t)'
  <2>1. Ordered(j, t)
    BY DEF OrderInv
  <2>2. TakenAt(j, t)' = TakenAt(j, t)
    <3>1. end'[j][t] = end[j][t] \/ (end[j][t] = None /\ end'[j][t] = p)
      BY <1>3, <1>4
    <3> QED
      BY <1>5, <1>6, <1>7, <3>1, TakenAtMoves
  <2>3. phase[j] = "connected" => phase'[j] = "connected"
    BY <1>1, <1>4, Types
  <2>4. end'[j][t] # None /\ end'[j][Other(t)] # None =>
           (end[j][t] # None /\ end[j][Other(t)] # None) \/ phase[j] # "connected"
    BY <1>3, <1>4, Others
  <2> QED
    BY <1>1, <2>1, <2>2, <2>3, <2>4, OrderedKept
<1> QED
  BY <1>8 DEF OrderInv

\* Neither has one that connects.
LEMMA ConnectOrders ==
  ASSUME IInv, OrderInv, NEW p \in Procs, ConnectAsync(p)
  PROVE  OrderInv'
<1> USE DEF Pipes
<1>1. PICK i \in Pipes : /\ Connectable(i)
                         /\ AsyncConnect(p, i)
                         /\ handle' = [handle EXCEPT ![p] = <<i, "client">>]
  BY DEF ConnectAsync
<1>2. /\ pc[p] = "created" /\ worker' = [worker EXCEPT ![p] = "check"] /\ UNCHANGED got
  BY DEF ConnectAsync
<1>3. /\ phase' = [phase EXCEPT ![i] = "connected"]
      /\ end' = [end EXCEPT ![i]["client"] = p]
      /\ UNCHANGED <<wire, buffer, written, heard>>
  BY <1>1 DEF AsyncConnect, history
<1>4. "server" \in Sides /\ "client" \in Sides
  BY DEF Sides
<1>5. phase[i] = "listening" /\ end[i]["server"] = i /\ end[i]["client"] = None
  <2>1. phase[i] = "listening" /\ end[i]["server"] # None
    BY <1>1 DEF Connectable
  <2> QED
    BY <2>1 DEF IInv, PipesInv
<1>6. /\ end'[i]["client"] = p
      /\ \A j \in Pipes, s \in Sides : j # i \/ s # "client" => end'[j][s] = end[j][s]
  <2>1. p \in Procs \union {None} /\ end \in [Pipes -> [Sides -> Procs \union {None}]]
    BY Types
  <2> QED
    BY <1>3, <1>4, <2>1, EndExcept
<1>7. Taken(p) = {} /\ worker[p] = "none"
  BY <1>2, TakenNew
<1>8. \A q \in Procs : worker'[q] = "callback" <=> worker[q] = "callback"
  BY <1>2, <1>7, Types
<1>9. \A q \in Procs :
        /\ \A n \in DOMAIN port[q] : n \in DOMAIN port'[q] /\ port'[q][n] = port[q][n]
        /\ \A n \in DOMAIN port'[q] \ DOMAIN port[q] : port'[q][n].op # "read"
  <2>1. \A q \in Procs :
          /\ \A n \in DOMAIN port[q] : n \in DOMAIN port'[q] /\ port'[q][n] = port[q][n]
          /\ \A n \in DOMAIN port'[q] \ DOMAIN port[q] :
               port'[q][n] = Completion("connect", 0) \/ port'[q][n] = Completion("accept", 0)
    BY <1>1, <1>5, Types, ConnectPorts, SMTT(30)
  <2>2. Completion("connect", 0).op # "read" /\ Completion("accept", 0).op # "read"
    BY DEF Completion
  <2> QED
    BY <2>1, <2>2
<1>10. \A q \in Procs : Taken(q)' = Taken(q)
  BY <1>2, <1>3, <1>8, <1>9, TakenKept
<1>11. \A q \in Procs : q # p => handle'[q] = handle[q]
  BY <1>1, Types
<1>12. ASSUME NEW j \in Pipes, NEW t \in Sides
       PROVE  Ordered(j, t)'
  <2>1. Ordered(j, t)
    BY DEF OrderInv
  <2>2. TakenAt(j, t)' = TakenAt(j, t)
    <3>1. end'[j][t] = end[j][t] \/ (end[j][t] = None /\ end'[j][t] = p)
      BY <1>5, <1>6
    <3> QED
      BY <1>7, <1>10, <1>11, <3>1, TakenAtMoves
  <2>3. phase[j] = "connected" => phase'[j] = "connected"
    BY <1>3, Types
  <2>4. end'[j][t] # None /\ end'[j][Other(t)] # None =>
           (end[j][t] # None /\ end[j][Other(t)] # None) \/ phase[j] # "connected"
    BY <1>5, <1>6, Others
  <2> QED
    BY <1>3, <2>1, <2>2, <2>3, <2>4, OrderedKept
<1> QED
  BY <1>12 DEF OrderInv

\* What was read passes from the port to the callback.
LEMMA GetCompletionOrders ==
  ASSUME IInv, OrderInv, NEW p \in Procs, GetCompletion(p)
  PROVE  OrderInv'
<1>1. /\ worker[p] = "run" /\ port[p] # <<>>
      /\ got' = [got EXCEPT ![p] = Head(port[p])]
      /\ port' = [port EXCEPT ![p] = Tail(@)]
      /\ worker' = [worker EXCEPT ![p] = IF Head(port[p]).op = "fail" THEN "check" ELSE "callback"]
      /\ UNCHANGED <<phase, end, wire, written, heard, handle, buffer>>
  BY DEF GetCompletion, endVars, opVars, history, mainVars
<1>2. /\ \A q \in Procs : q # p => port'[q] = port[q]
      /\ 1 \in DOMAIN port[p] /\ Head(port[p]) = port[p][1]
      /\ \A n \in DOMAIN port'[p] : n + 1 \in DOMAIN port[p] /\ n # 0 /\ port'[p][n] = port[p][n + 1]
      /\ \A n \in DOMAIN port[p] : n # 1 => n - 1 \in DOMAIN port'[p]
  BY <1>1, Types, PortTail
<1>3. /\ worker'[p] = IF port[p][1].op = "fail" THEN "check" ELSE "callback"
      /\ got'[p] = port[p][1]
      /\ \A q \in Procs : q # p => worker'[q] = worker[q] /\ got'[q] = got[q]
  BY <1>1, <1>2, Types
<1>4. ASSUME NEW q \in Procs
      PROVE  Taken(q)' = Taken(q)
  <2>1. CASE q # p
    <3>1. port'[q] = port[q] /\ buffer'[q] = buffer[q] /\ worker'[q] = worker[q] /\ got'[q] = got[q]
      BY <1>1, <1>2, <1>3, <2>1
    <3> QED
      BY <3>1, TakenKept
  <2>2. CASE q = p
    <3> DEFINE R(n) == SubSeq(buffer[p], 1, port[p][n].len)
               D == {n \in DOMAIN port[p] : port[p][n].op = "read"}
               E == {n \in DOMAIN port'[p] : port'[p][n].op = "read"}
               S == {SubSeq(buffer[p], 1, port'[p][n].len) : n \in E}
    <3>1. Taken(p) = {R(n) : n \in D}
      BY <1>1 DEF Taken
    <3>2. Taken(p)' = S \union (IF port[p][1].op = "read" THEN {R(1)} ELSE {})
      <4>1. (worker'[p] = "callback" /\ got'[p].op = "read") <=> port[p][1].op = "read"
        BY <1>3
      <4>2. Received(p)' = R(1)
        BY <1>1, <1>3 DEF Received
      <4> QED
        BY <1>1, <4>1, <4>2 DEF Taken
    <3>3. \A n \in E : n + 1 \in D /\ SubSeq(buffer[p], 1, port'[p][n].len) = R(n + 1)
      BY <1>2
    <3>4. \A n \in D : n = 1 \/ (n - 1 \in E /\ SubSeq(buffer[p], 1, port'[p][n - 1].len) = R(n))
      <4>1. DOMAIN port[p] \subseteq Nat
        <5>1. PICK a \in Seq(Completions) : a = port[p]
          BY Types
        <5>2. DOMAIN a \subseteq Nat
          OBVIOUS
        <5> QED
          BY <5>1, <5>2
      <4>2. ASSUME NEW n \in D, n # 1
            PROVE  n - 1 \in E /\ SubSeq(buffer[p], 1, port'[p][n - 1].len) = R(n)
        <5>1. n \in Nat /\ (n - 1) + 1 = n
          BY <4>1
        <5>2. n - 1 \in DOMAIN port'[p]
          BY <1>2, <4>2
        <5>3. port'[p][n - 1] = port[p][n]
          BY <1>2, <5>1, <5>2
        <5> QED
          BY <5>2, <5>3
      <4> QED
        BY <4>2
    <3>5. 1 \in D <=> port[p][1].op = "read"
      BY <1>2
    <3> HIDE DEF R, D, E
    <3>6. S \subseteq {R(n) : n \in D}
      BY <3>3
    <3>7. \A x \in {R(n) : n \in D} : x \in S \/ (1 \in D /\ x = R(1))
      BY <3>4
    <3> HIDE DEF S
    <3>8. Taken(p)' = Taken(p)
      BY <3>1, <3>2, <3>5, <3>6, <3>7
    <3> QED
      BY <2>2, <3>8
  <2> QED
    BY <2>1, <2>2
<1> QED
  BY <1>1, <1>4, OrderSame

\* A write completes reads only of the process that has the end for its Pipe.
LEMMA WritesAdd ==
  ASSUME IInv, NEW i \in Pipes, NEW s \in Sides, NEW ws \in Seq(Seq(Nat)),
         \/ AsyncWrites(i, s, ws)
         \/ UNCHANGED <<wire, reading, accepts, port, buffer, written>>
  PROVE  /\ \A q \in Procs : \A n \in DOMAIN port[q] : n \in DOMAIN port'[q] /\ port'[q][n] = port[q][n]
         /\ \A q \in Procs : \A n \in DOMAIN port'[q] : n \notin DOMAIN port[q] => handle[q] = <<i, s>>
<1>1. /\ \A q \in Procs : \A n \in DOMAIN port[q] : n \in DOMAIN port'[q] /\ port'[q][n] = port[q][n]
      /\ \A q \in Procs : \A n \in DOMAIN port'[q] : n \notin DOMAIN port[q] =>
           /\ handle[q] = <<i, s>> /\ phase[i] = "connected"
           /\ pc[q] \notin {"new", "created"}
           /\ port'[q][n].op = "read" /\ port'[q][n].len <= Len(buffer'[q])
           /\ end[i][s] = q /\ <<i, s>> \in reading /\ <<i, s>> \notin reading'
  BY WritePorts
<1> QED
  BY <1>1

\* The callback is given what was read, and the server writes it.
LEMMA OnReadOrders ==
  ASSUME IInv, OneAtATime, OrderInv, NEW p \in Procs, OnRead(p)
  PROVE  OrderInv'
<1>1. /\ Running(p) /\ worker[p] = "callback" /\ got[p].op = "read"
      /\ heard' = [heard EXCEPT ![handle[p][1]][handle[p][2]] = @ \o Received(p)]
      /\ OnMessage(p, Received(p))
      /\ worker' = [worker EXCEPT ![p] = "rearm"]
      /\ UNCHANGED <<phase, end, handle, got>>
  BY DEF OnRead, Calls, endVars, mainVars
<1>2. PICK i \in Pipes, s \in Sides : handle[p] = <<i, s>> /\ end[i][s] = p
  BY <1>1, HandleEnd DEF Running
<1>3. PICK w \in Seq(Nat) : w = Received(p)
  BY <1>1, ReceivedType
<1>4. PICK h \in Seq(Nat), u \in Seq(Nat), f \in Seq(Nat) :
        h = heard[i][s] /\ u = written[i][s] /\ f = FlattenSeq(wire[i][s])
  BY LineTypes
<1>5. /\ heard'[i][s] = h \o w
      /\ \A j \in Pipes, t \in Sides : j # i \/ t # s => heard'[j][t] = heard[j][t]
  <2>1. PICK x \in Seq(Nat) : x = h \o w
    <3>1. h \o w \in Seq(Nat)
      OBVIOUS
    <3> QED
      BY <3>1
  <2>2. heard \in [Pipes -> [Sides -> Seq(Nat)]]
    BY DEF IInv, TypeOK, IocpTypeOK
  <2>3. heard' = [heard EXCEPT ![i][s] = x]
    BY <1>1, <1>2, <1>3, <1>4, <2>1
  <2> QED
    BY <2>1, <2>2, <2>3, EndExcept
<1>6. worker'[p] = "rearm" /\ \A q \in Procs : q # p => worker'[q] = worker[q]
  BY <1>1, Types
<1>7. PICK ws \in Seq(Seq(Nat)), o \in Sides : ws = Writes(p, w) /\ o = Other(s)
  BY WritesType, Others
<1>8. \/ AsyncWrites(i, o, ws)
      \/ UNCHANGED <<wire, reading, accepts, port, buffer, written>>
  BY <1>1, <1>2, <1>3, <1>7 DEF OnMessage, Write, opVars, portVars
<1>9. end[i][Other(o)] # None /\ o # s
  BY <1>2, <1>7, Others, IocpAssumption
<1>10. ASSUME NEW j \in Pipes, NEW t \in Sides, j # i \/ t # s
       PROVE  Ordered(j, t)'
  <2>1. Ordered(j, t) /\ heard'[j][t] = heard[j][t]
    BY <1>5, <1>10 DEF OrderInv
  <2>2. Used(j, t) => end[j][t] # p /\ end[j][t] \in Procs
    BY <1>2, <1>10, Types DEF Used
  <2>3. Used(j, t) => /\ worker'[end[j][t]] = worker[end[j][t]]
                      /\ got'[end[j][t]] = got[end[j][t]]
    BY <1>1, <1>6, <2>2
  <2> QED
    BY <1>1, <1>8, <1>9, <2>1, <2>3, WriteOrders
<1>11. Ordered(i, s)'
  <2>1. Taken(p) = {w}
    BY <1>1, <1>3, TakenReceived DEF OneAtATime
  <2>2. TakenAt(i, s) = {w}
    BY <1>2, <2>1, IocpAssumption DEF TakenAt, Used
  <2>3. InLine(i, s, w)
    BY <2>2 DEF OrderInv, Ordered
  <2>4. wire'[i][s] = wire[i][s] /\ written'[i][s] = u
    <3>1. CASE UNCHANGED <<wire, reading, accepts, port, buffer, written>>
      BY <1>4, <3>1
    <3>2. CASE AsyncWrites(i, o, ws)
      <4>1. IocpTypeOK
        BY Types
      <4>2. \/ UNCHANGED <<wire, written>>
            \/ /\ \A k \in Pipes, r \in Sides : k # i \/ r # o => wire'[k][r] = wire[k][r]
               /\ \A k \in Pipes, r \in Sides : k # i \/ r # o => written'[k][r] = written[k][r]
        <5>1. \/ UNCHANGED <<wire, reading, accepts, port, buffer, written>>
              \/ /\ \A k \in Pipes, r \in Sides : k # i \/ r # o => wire'[k][r] = wire[k][r]
                 /\ \A k \in Pipes, r \in Sides : k # i \/ r # o => written'[k][r] = written[k][r]
          BY <3>2, <4>1, AsyncWritesFacts, Zenon
        <5> QED
          BY <5>1
      <4> QED
        BY <1>4, <1>9, <4>2
    <3> QED
      BY <1>8, <3>1, <3>2
  <2>5. TakenAt(i, s)' = {<<>>}
    <3>1. Succeeded(p) = {}
      BY <1>1 DEF OneAtATime, One, Busy
    <3>9. /\ \A q \in Procs : \A n \in DOMAIN port[q] : n \in DOMAIN port'[q] /\ port'[q][n] = port[q][n]
          /\ \A q \in Procs : \A n \in DOMAIN port'[q] : n \notin DOMAIN port[q] => handle[q] = <<i, o>>
      BY <1>8, WritesAdd
    <3>2. \A n \in DOMAIN port[p] : port'[p][n] = port[p][n]
      BY <3>9
    <3>3. \A n \in DOMAIN port'[p] : n \in DOMAIN port[p]
      BY <1>2, <1>9, <3>9
    <3>4. {n \in DOMAIN port'[p] : port'[p][n].op = "read"} = {}
      BY <3>1, <3>2, <3>3 DEF Succeeded
    <3>5. Taken(p)' = {}
      BY <1>6, <3>4 DEF Taken
    <3>6. end'[i][s] = p
      BY <1>1, <1>2
    <3> QED
      BY <3>5, <3>6 DEF TakenAt
  <2>6. Line(i, s, <<>>)' = Line(i, s, w)
    <3>1. Line(i, s, <<>>)' = ((h \o w) \o <<>>) \o f
      BY <1>4, <1>5, <2>4 DEF Line
    <3>2. Line(i, s, w) = (h \o w) \o f
      BY <1>4 DEF Line
    <3>3. (h \o w) \o <<>> = h \o w
      OBVIOUS
    <3> QED
      BY <3>1, <3>2, <3>3
  <2>7. InLine(i, s, <<>>)'
    BY <1>1, <1>4, <2>3, <2>4, <2>6 DEF InLine
  <2>8. phase'[i] # "connected" => written'[i][s] = <<>>
    BY <1>1, <1>4, <2>4 DEF OrderInv, Ordered
  <2> QED
    BY <2>5, <2>7, <2>8 DEF Ordered
<1> QED
  BY <1>10, <1>11 DEF OrderInv

\* Every step keeps the order.
LEMMA OrderNext == IInv /\ OneAtATime /\ OrderInv /\ [Next]_vars => OrderInv'
<1> SUFFICES ASSUME IInv, OneAtATime, OrderInv, [Next]_vars PROVE OrderInv'
  OBVIOUS
<1>1. ASSUME UNCHANGED <<iocpVars, handle, worker, got>>
      PROVE  OrderInv'
  <2>1. UNCHANGED <<phase, end, wire, written, heard, handle, port, buffer, worker, got>>
    BY <1>1 DEF iocpVars, endVars, opVars, portVars, history
  <2>2. \A q \in Procs : Taken(q)' = Taken(q)
    BY <2>1, TakenKept
  <2> QED
    BY <2>1, <2>2, OrderSame
<1>2. CASE UNCHANGED vars
  BY <1>1, <1>2 DEF vars, mainVars, threadVars
<1>3. CASE Next
  <2>1. PICK p \in Procs : Main(p) \/ Thread(p) \/ Exit(p) \/ CloseOnExit(p)
    BY <1>3 DEF Next
  <2>2. CASE ConnectThrows(p) \/ Stop(p) \/ Exit(p)
    <3>1. UNCHANGED <<iocpVars, handle, worker, got>>
      BY <2>2 DEF ConnectThrows, Stop, Exit, threadVars
    <3> QED
      BY <1>1, <3>1
  <2>3. CASE CheckStopping(p) \/ OnAccept(p) \/ OnConnect(p)
    <3>1. UNCHANGED <<iocpVars, handle, got>>
      BY <2>3 DEF CheckStopping, OnAccept, OnConnect, mainVars
    <3>2. UNCHANGED <<phase, end, wire, written, heard, handle, port, buffer, got>>
      BY <3>1 DEF iocpVars, endVars, opVars, portVars, history
    <3>3. \A q \in Procs : q # p => worker'[q] = worker[q]
      BY <2>3, Types DEF CheckStopping, OnAccept, OnConnect
    <3>4. /\ ~(worker[p] = "callback" /\ got[p].op = "read")
          /\ ~(worker'[p] = "callback" /\ got'[p].op = "read")
      <4>1. CASE CheckStopping(p)
        BY <4>1, Types DEF CheckStopping
      <4>2. CASE OnAccept(p)
        BY <4>2, Types DEF OnAccept, Calls
      <4>3. CASE OnConnect(p)
        BY <4>3, Types DEF OnConnect, Calls
      <4> QED
        BY <2>3, <4>1, <4>2, <4>3
    <3>5. Taken(p)' = Taken(p)
      BY <3>2, <3>4 DEF Taken
    <3>6. \A q \in Procs : q # p => Taken(q)' = Taken(q)
      BY <3>2, <3>3, TakenKept
    <3> QED
      BY <3>2, <3>5, <3>6, OrderSame
  <2>4. CASE Start(p)
    BY <2>4, StartOrders
  <2>5. CASE AcceptConnection(p)
    <3>1. /\ pc[p] = "created" /\ worker' = [worker EXCEPT ![p] = "check"]
          /\ UNCHANGED <<phase, end, wire, written, heard, handle, port, buffer, got>>
      BY <2>5 DEF AcceptConnection, AsyncAccept, endVars, portVars, history
    <3>2. worker[p] = "none"
      BY <3>1, TakenNew
    <3>3. \A q \in Procs : worker'[q] = "callback" <=> worker[q] = "callback"
      BY <3>1, <3>2, Types
    <3>4. \A q \in Procs : Taken(q)' = Taken(q)
      BY <3>1, <3>3, TakenKept
    <3> QED
      BY <3>1, <3>4, OrderSame
  <2>6. CASE ConnectAsync(p)
    BY <2>6, ConnectOrders
  <2>7. CASE MainWrite(p)
    <3>1. PICK w \in Seq(Nat) : /\ pc[p] = "up" /\ Write(p, w)
                                /\ UNCHANGED <<phase, end, heard, handle, worker, got>>
      BY <2>7, MainWriteFacts
    <3>2. PICK i \in Pipes, s \in Sides : handle[p] = <<i, s>> /\ end[i][s] = p
      BY <3>1, HandleEnd
    <3>3. PICK ws \in Seq(Seq(Nat)), o \in Sides : ws = Writes(p, w) /\ o = Other(s)
      BY WritesType, Others
    <3>4. AsyncWrites(i, o, ws)
      BY <3>1, <3>2, <3>3 DEF Write
    <3>5. end[i][Other(o)] # None
      BY <3>2, <3>3, Others, IocpAssumption
    <3>6. ASSUME NEW j \in Pipes, NEW t \in Sides
          PROVE  Ordered(j, t)'
      <4>1. Ordered(j, t) /\ heard'[j][t] = heard[j][t]
        BY <3>1 DEF OrderInv
      <4>2. worker'[end[j][t]] = worker[end[j][t]] /\ got'[end[j][t]] = got[end[j][t]]
        BY <3>1
      <4> QED
        BY <3>1, <3>4, <3>5, <4>1, <4>2, WriteOrders
    <3> QED
      BY <3>6 DEF OrderInv
  <2>8. CASE OnRead(p)
    BY <2>8, OnReadOrders
  <2>9. CASE GetCompletion(p)
    BY <2>9, GetCompletionOrders
  <2>10. CASE ReadAsync(p)
    BY <2>10, ReadOrders
  <2>11. CASE Joined(p)
    <3>1. /\ pc[p] = "joining" /\ worker[p] = "ended"
          /\ Close(p, handle[p][1], handle[p][2])
          /\ handle' = [handle EXCEPT ![p] = None]
          /\ worker' = [worker EXCEPT ![p] = "none"]
          /\ UNCHANGED got
      BY <2>11 DEF Joined
    <3>2. PICK i \in Pipes, s \in Sides : handle[p] = <<i, s>> /\ end[i][s] = p
      BY <3>1, HandleEnd
    <3>3. Close(p, i, s)
      BY <3>1, <3>2
    <3>4. \A q \in Procs : worker'[q] = "callback" <=> worker[q] = "callback"
      BY <3>1, Types
    <3>5. ASSUME NEW j \in Pipes, NEW t \in Sides, j # i \/ t # s
          PROVE  Used(j, t)' <=> Used(j, t)
      <4>1. end'[j][t] = end[j][t]
        BY <3>3, <3>5, Types, CloseFacts
      <4>2. CASE end[j][t] = p
        <5>1. ~Used(j, t)
          BY <3>2, <3>5, <4>2 DEF Used
        <5>2. handle'[p] = None /\ None # <<j, t>>
          BY <3>1, Types, IocpAssumption DEF Sides, Pipes
        <5> QED
          BY <4>1, <4>2, <5>1, <5>2 DEF Used
      <4>3. CASE end[j][t] # p
        <5>1. end[j][t] # None => handle'[end[j][t]] = handle[end[j][t]]
          BY <3>1, <4>3, Types
        <5> QED
          BY <4>1, <5>1 DEF Used
      <4> QED
        BY <4>2, <4>3
    <3> QED
      BY <3>1, <3>2, <3>3, <3>4, <3>5, CloseOrders
  <2>12. CASE CloseOnExit(p)
    <3>1. PICK i \in Pipes, s \in Sides : end[i][s] = p /\ Close(p, i, s)
      BY <2>12 DEF CloseOnExit
    <3>2. UNCHANGED <<handle, worker, got>>
      BY <2>12 DEF CloseOnExit, mainVars, threadVars
    <3>3. ASSUME NEW j \in Pipes, NEW t \in Sides, j # i \/ t # s
          PROVE  Used(j, t)' <=> Used(j, t)
      <4>1. end'[j][t] = end[j][t]
        BY <3>1, <3>3, Types, CloseFacts
      <4> QED
        BY <3>2, <4>1 DEF Used
    <3> QED
      BY <3>1, <3>2, <3>3, CloseOrders
  <2> QED
    BY <2>1, <2>2, <2>3, <2>4, <2>5, <2>6, <2>7, <2>8, <2>9, <2>10, <2>11, <2>12 DEF Main, Thread
<1> QED
  BY <1>2, <1>3

\* At first nothing was written.
LEMMA InitOrder == Init => OrderInv
<1> SUFFICES ASSUME Init, NEW i \in Pipes, NEW s \in Sides PROVE Ordered(i, s)
  BY DEF OrderInv
<1>1. /\ heard[i][s] = <<>> /\ wire[i][s] = <<>> /\ written[i][s] = <<>> /\ end[i][s] = None
  BY DEF Init, IocpInit, Nothing
<1>2. TakenAt(i, s) = {<<>>}
  BY <1>1 DEF TakenAt, Used
<1>3. Line(i, s, <<>>) = <<>>
  <2>1. Line(i, s, <<>>) = (<<>> \o <<>>) \o <<>>
    BY <1>1, FlattenEmpty DEF Line
  <2>2. (<<>> \o <<>>) \o <<>> = <<>>
    OBVIOUS
  <2> QED
    BY <2>1, <2>2
<1>4. Fits(<<>>, <<>>)
  <2>1. <<>> \in Seq(Nat)
    OBVIOUS
  <2> QED
    BY <2>1, FitsSelf
<1> QED
  BY <1>1, <1>2, <1>3, <1>4 DEF Ordered, InLine

\* What is heard is the front of what was written.
LEMMA OrderSuffices == IInv /\ OrderInv => InOrder
<1> SUFFICES ASSUME IInv, OrderInv, NEW i \in Pipes, NEW s \in Sides
             PROVE  /\ Len(heard[i][s]) <= Len(written[i][s])
                    /\ \A n \in DOMAIN heard[i][s] : heard[i][s][n] \in {written[i][s][n], Garbage}
  BY DEF InOrder
<1>1. PICK h \in Seq(Nat), u \in Seq(Nat), f \in Seq(Nat) :
        h = heard[i][s] /\ u = written[i][s] /\ f = FlattenSeq(wire[i][s])
  BY LineTypes
<1>2. PICK w : w \in TakenAt(i, s)
  BY DEF TakenAt
<1>3. w \in Seq(Nat)
  BY <1>2, TakenType
<1>4. Fits((h \o w) \o f, u)
  BY <1>1, <1>2 DEF OrderInv, Ordered, InLine, Line
<1>5. Fits(h \o w, u)
  <2>1. h \o w \in Seq(Nat)
    BY <1>3
  <2> QED
    BY <1>4, <2>1, FitsFront
<1>6. Fits(h, u)
  BY <1>3, <1>5, FitsFront
<1>7. DOMAIN h = 1 .. Len(h)
  OBVIOUS
<1> QED
  BY <1>1, <1>6, <1>7 DEF Fits

\* OnMessage is given the messages written to its end in the order they were written,
\* however many processes there are and however the kernel cuts the bytes up.
THEOREM MessagesInOrder == Spec => []InOrder
BY InitOne, OneNext, InitOrder, OrderNext, OrderSuffices, Invariance, PTL DEF Spec
================================================================================
