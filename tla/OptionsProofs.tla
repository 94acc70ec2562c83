------------------------------ MODULE OptionsProofs ------------------------------
(***************************************************************************)
(* Theorems about Options, for every list of declared options, every set   *)
(* of arguments and values, and every number of arguments and calls.       *)
(***************************************************************************)
EXTENDS Options, WellFoundedInduction, TLAPS

(***************************************************************************)
(* The loops of the source are recursive functions of the place reached.   *)
(***************************************************************************)

\* Induction: a set of numbers with 0 and the next of each of them has all.
LEMMA Induction ==
  ASSUME NEW T, 0 \in T, \A n \in Nat : n \in T => n + 1 \in T
  PROVE  Nat \subseteq T
<1>1. SUFFICES ASSUME Nat \ T # {} PROVE FALSE
  OBVIOUS
<1>2. PICK R : R = OpToRel(<, Nat)
  OBVIOUS
<1>3. IsWellFoundedOn(R, Nat)
  BY <1>2, NatLessThanWellFounded
<1>4. PICK x \in Nat \ T : \A y \in Nat \ T : <<y, x>> \notin R
  BY <1>1, <1>3, WFMin
<1>5. x # 0 /\ x - 1 \in Nat \ T
  BY <1>4
<1>6. <<x - 1, x>> \in R
  BY <1>2, <1>4, <1>5 DEF OpToRel
<1> QED
  BY <1>4, <1>5, <1>6

\* One turn of the loop of Split.
Kept(arg, f, i) ==
  IF i = 0 THEN <<>>
  ELSE IF arg[i] = Empty THEN f[i - 1] ELSE Append(f[i - 1], arg[i])

\* Split is what the last turn leaves.
LEMMA SplitDef ==
  ASSUME NEW arg, Len(arg) \in Nat
  PROVE  \E f : /\ f = [i \in 0 .. Len(arg) |-> Kept(arg, f, i)]
                /\ Split(arg) = f[Len(arg)]
<1> DEFINE T == {n \in Nat : \E f : f = [i \in 0 .. n |-> Kept(arg, f, i)]}
<1>1. 0 \in T
  <2> DEFINE g == [i \in 0 .. 0 |-> Kept(arg, <<>>, i)]
  <2>1. \A i \in 0 .. 0 : Kept(arg, <<>>, i) = Kept(arg, g, i)
    BY DEF Kept
  <2>2. g = [i \in 0 .. 0 |-> Kept(arg, g, i)]
    BY <2>1
  <2> QED
    BY <2>2 DEF T
<1>2. ASSUME NEW n \in Nat, n \in T
      PROVE  n + 1 \in T
  <2>1. PICK f : f = [i \in 0 .. n |-> Kept(arg, f, i)]
    BY <1>2
  <2> DEFINE g == [i \in 0 .. n + 1 |-> IF i = n + 1 THEN Kept(arg, f, i) ELSE f[i]]
  <2>2. \A i \in 0 .. n + 1 : g[i] = Kept(arg, f, i)
    <3> SUFFICES ASSUME NEW i \in 0 .. n + 1, i # n + 1
                 PROVE  f[i] = Kept(arg, f, i)
      OBVIOUS
    <3>1. i \in 0 .. n
      OBVIOUS
    <3> QED
      BY <2>1, <3>1
  <2>3. \A i \in 0 .. n + 1 : Kept(arg, f, i) = Kept(arg, g, i)
    <3> SUFFICES ASSUME NEW i \in 0 .. n + 1, i # 0
                 PROVE  Kept(arg, f, i) = Kept(arg, g, i)
      BY DEF Kept
    <3>1. i - 1 \in 0 .. n
      OBVIOUS
    <3>2. g[i - 1] = f[i - 1]
      BY <3>1
    <3> QED
      BY <3>2 DEF Kept
  <2>4. g = [i \in 0 .. n + 1 |-> g[i]]
    OBVIOUS
  <2> HIDE DEF g
  <2>5. g = [i \in 0 .. n + 1 |-> Kept(arg, g, i)]
    BY <2>2, <2>3, <2>4
  <2> QED
    BY <2>5 DEF T
<1> HIDE DEF T
<1>3. Nat \subseteq T
  BY <1>1, <1>2, Induction
<1>4. \E f : f = [i \in 0 .. Len(arg) |-> Kept(arg, f, i)]
  BY <1>3 DEF T
<1> QED
  BY <1>4 DEF Split, Kept

\* One turn of the loop of ParseNamedArguments.
NamedUpTo(argv, f, i) ==
  IF i = 0 THEN <<>>
  ELSE IF Len(argv[i]) > 1 THEN Append(f[i - 1], Param(argv[i])) ELSE f[i - 1]

\* ParseNamedArguments is what the last turn leaves.
LEMMA NamedDef ==
  ASSUME NEW argv, Len(argv) \in Nat
  PROVE  \E f : /\ f = [i \in 0 .. Len(argv) |-> NamedUpTo(argv, f, i)]
                /\ ParseNamedArguments(argv) = f[Len(argv)]
<1> DEFINE T == {n \in Nat : \E f : f = [i \in 0 .. n |-> NamedUpTo(argv, f, i)]}
<1>1. 0 \in T
  <2> DEFINE g == [i \in 0 .. 0 |-> NamedUpTo(argv, <<>>, i)]
  <2>1. \A i \in 0 .. 0 : NamedUpTo(argv, <<>>, i) = NamedUpTo(argv, g, i)
    BY DEF NamedUpTo
  <2>2. g = [i \in 0 .. 0 |-> NamedUpTo(argv, g, i)]
    BY <2>1
  <2> QED
    BY <2>2 DEF T
<1>2. ASSUME NEW n \in Nat, n \in T
      PROVE  n + 1 \in T
  <2>1. PICK f : f = [i \in 0 .. n |-> NamedUpTo(argv, f, i)]
    BY <1>2
  <2> DEFINE g == [i \in 0 .. n + 1 |-> IF i = n + 1 THEN NamedUpTo(argv, f, i) ELSE f[i]]
  <2>2. \A i \in 0 .. n + 1 : g[i] = NamedUpTo(argv, f, i)
    <3> SUFFICES ASSUME NEW i \in 0 .. n + 1, i # n + 1
                 PROVE  f[i] = NamedUpTo(argv, f, i)
      OBVIOUS
    <3>1. i \in 0 .. n
      OBVIOUS
    <3> QED
      BY <2>1, <3>1
  <2>3. \A i \in 0 .. n + 1 : NamedUpTo(argv, f, i) = NamedUpTo(argv, g, i)
    <3> SUFFICES ASSUME NEW i \in 0 .. n + 1, i # 0
                 PROVE  NamedUpTo(argv, f, i) = NamedUpTo(argv, g, i)
      BY DEF NamedUpTo
    <3>1. i - 1 \in 0 .. n
      OBVIOUS
    <3>2. g[i - 1] = f[i - 1]
      BY <3>1
    <3> QED
      BY <3>2 DEF NamedUpTo
  <2>4. g = [i \in 0 .. n + 1 |-> g[i]]
    OBVIOUS
  <2> HIDE DEF g
  <2>5. g = [i \in 0 .. n + 1 |-> NamedUpTo(argv, g, i)]
    BY <2>2, <2>3, <2>4
  <2> QED
    BY <2>5 DEF T
<1> HIDE DEF T
<1>3. Nat \subseteq T
  BY <1>1, <1>2, Induction
<1>4. \E f : f = [i \in 0 .. Len(argv) |-> NamedUpTo(argv, f, i)]
  BY <1>3 DEF T
<1> QED
  BY <1>4 DEF ParseNamedArguments, NamedUpTo

\* One turn of the loop of TryParseArgs.
AfterNext(c, params, f, i) ==
  IF i = 0 THEN c ELSE ParseNext(f[i - 1], params[i])

\* ParseEach is what the last turn leaves.
LEMMA EachDef ==
  ASSUME NEW c, NEW params, Len(params) \in Nat
  PROVE  \E f : /\ f = [i \in 0 .. Len(params) |-> AfterNext(c, params, f, i)]
                /\ ParseEach(c, params) = f[Len(params)]
<1> DEFINE T == {n \in Nat : \E f : f = [i \in 0 .. n |-> AfterNext(c, params, f, i)]}
<1>1. 0 \in T
  <2> DEFINE g == [i \in 0 .. 0 |-> AfterNext(c, params, <<>>, i)]
  <2>1. \A i \in 0 .. 0 : AfterNext(c, params, <<>>, i) = AfterNext(c, params, g, i)
    BY DEF AfterNext
  <2>2. g = [i \in 0 .. 0 |-> AfterNext(c, params, g, i)]
    BY <2>1
  <2> QED
    BY <2>2 DEF T
<1>2. ASSUME NEW n \in Nat, n \in T
      PROVE  n + 1 \in T
  <2>1. PICK f : f = [i \in 0 .. n |-> AfterNext(c, params, f, i)]
    BY <1>2
  <2> DEFINE g == [i \in 0 .. n + 1 |-> IF i = n + 1 THEN AfterNext(c, params, f, i) ELSE f[i]]
  <2>2. \A i \in 0 .. n + 1 : g[i] = AfterNext(c, params, f, i)
    <3> SUFFICES ASSUME NEW i \in 0 .. n + 1, i # n + 1
                 PROVE  f[i] = AfterNext(c, params, f, i)
      OBVIOUS
    <3>1. i \in 0 .. n
      OBVIOUS
    <3> QED
      BY <2>1, <3>1
  <2>3. \A i \in 0 .. n + 1 : AfterNext(c, params, f, i) = AfterNext(c, params, g, i)
    <3> SUFFICES ASSUME NEW i \in 0 .. n + 1, i # 0
                 PROVE  AfterNext(c, params, f, i) = AfterNext(c, params, g, i)
      BY DEF AfterNext
    <3>1. i - 1 \in 0 .. n
      OBVIOUS
    <3>2. g[i - 1] = f[i - 1]
      BY <3>1
    <3> QED
      BY <3>2 DEF AfterNext
  <2>4. g = [i \in 0 .. n + 1 |-> g[i]]
    OBVIOUS
  <2> HIDE DEF g
  <2>5. g = [i \in 0 .. n + 1 |-> AfterNext(c, params, g, i)]
    BY <2>2, <2>3, <2>4
  <2> QED
    BY <2>5 DEF T
<1> HIDE DEF T
<1>3. Nat \subseteq T
  BY <1>1, <1>2, Induction
<1>4. \E f : f = [i \in 0 .. Len(params) |-> AfterNext(c, params, f, i)]
  BY <1>3 DEF T
<1> QED
  BY <1>4 DEF ParseEach, AfterNext

\* One turn of FlattenSeq.
Flattened(ws, f, i) ==
  IF i = 1 THEN ws[i] ELSE f[i - 1] \o ws[i]

\* FlattenSeq is what the last turn leaves.
LEMMA FlattenDef ==
  ASSUME NEW ws, Len(ws) \in Nat, Len(ws) # 0
  PROVE  \E f : /\ f = [i \in 1 .. Len(ws) |-> Flattened(ws, f, i)]
                /\ FlattenSeq(ws) = f[Len(ws)]
<1> DEFINE T == {n \in Nat : \E f : f = [i \in 1 .. n |-> Flattened(ws, f, i)]}
<1>1. 0 \in T
  <2> DEFINE g == [i \in 1 .. 0 |-> Flattened(ws, <<>>, i)]
  <2>1. \A i \in 1 .. 0 : Flattened(ws, <<>>, i) = Flattened(ws, g, i)
    BY DEF Flattened
  <2>2. g = [i \in 1 .. 0 |-> Flattened(ws, g, i)]
    BY <2>1
  <2> QED
    BY <2>2 DEF T
<1>2. ASSUME NEW n \in Nat, n \in T
      PROVE  n + 1 \in T
  <2>1. PICK f : f = [i \in 1 .. n |-> Flattened(ws, f, i)]
    BY <1>2
  <2> DEFINE g == [i \in 1 .. n + 1 |-> IF i = n + 1 THEN Flattened(ws, f, i) ELSE f[i]]
  <2>2. \A i \in 1 .. n + 1 : g[i] = Flattened(ws, f, i)
    <3> SUFFICES ASSUME NEW i \in 1 .. n + 1, i # n + 1
                 PROVE  f[i] = Flattened(ws, f, i)
      OBVIOUS
    <3>1. i \in 1 .. n
      OBVIOUS
    <3> QED
      BY <2>1, <3>1
  <2>3. \A i \in 1 .. n + 1 : Flattened(ws, f, i) = Flattened(ws, g, i)
    <3> SUFFICES ASSUME NEW i \in 1 .. n + 1, i # 1
                 PROVE  Flattened(ws, f, i) = Flattened(ws, g, i)
      BY DEF Flattened
    <3>1. i - 1 \in 1 .. n
      OBVIOUS
    <3>2. g[i - 1] = f[i - 1]
      BY <3>1
    <3> QED
      BY <3>2 DEF Flattened
  <2>4. g = [i \in 1 .. n + 1 |-> g[i]]
    OBVIOUS
  <2> HIDE DEF g
  <2>5. g = [i \in 1 .. n + 1 |-> Flattened(ws, g, i)]
    BY <2>2, <2>3, <2>4
  <2> QED
    BY <2>5 DEF T
<1> HIDE DEF T
<1>3. Nat \subseteq T
  BY <1>1, <1>2, Induction
<1>4. \E f : f = [i \in 1 .. Len(ws) |-> Flattened(ws, f, i)]
  BY <1>3 DEF T
<1> QED
  BY <1>4 DEF FlattenSeq, Flattened

(***************************************************************************)
(* The arguments of a call.                                                *)
(***************************************************************************)

\* An argument of two pieces, none of them empty, is split into the two.
LEMMA SplitPair ==
  ASSUME NEW a, NEW b, a # Empty, b # Empty
  PROVE  Split(<<a, b>>) = <<a, b>>
<1> DEFINE arg == <<a, b>>
<1>1. Len(arg) = 2 /\ arg[1] = a /\ arg[2] = b
  OBVIOUS
<1> HIDE DEF arg
<1>2. PICK f : /\ f = [i \in 0 .. 2 |-> Kept(arg, f, i)]
               /\ Split(arg) = f[2]
  BY <1>1, SplitDef
<1>3. f[0] = Kept(arg, f, 0) /\ f[1] = Kept(arg, f, 1) /\ f[2] = Kept(arg, f, 2)
  BY <1>2
<1>4. f[0] = <<>>
  BY <1>3 DEF Kept
<1>5. f[1] = Append(f[0], a)
  <2>1. 1 # 0 /\ 1 - 1 = 0
    OBVIOUS
  <2>2. Kept(arg, f, 1) = IF arg[1] = Empty THEN f[0] ELSE Append(f[0], arg[1])
    BY <2>1, Zenon DEF Kept
  <2> QED
    BY <1>1, <1>3, <2>2
<1>6. f[2] = Append(f[1], b)
  BY <1>1, <1>3 DEF Kept
<1> QED
  BY <1>2, <1>4, <1>5, <1>6 DEF arg

\* What the loop of ParseNamedArguments has after n arguments: no more than n
\* parameters, and as many only if none of the arguments was passed over.
NamedSoFar(argv, f, n) ==
  /\ f[n] \in Seq({Param(argv[i]) : i \in 1 .. Len(argv)})
  /\ Len(f[n]) <= n
  /\ (\E i \in 1 .. n : ~(Len(argv[i]) > 1)) => Len(f[n]) < n
  /\ (\A i \in 1 .. n : Len(argv[i]) > 1) =>
       Len(f[n]) = n /\ \A i \in 1 .. n : f[n][i] = Param(argv[i])

\* ParseNamedArguments returns as many parameters as there are arguments exactly
\* if each of these has a '=', and then the parameters are those of the arguments.
LEMMA NamedFacts ==
  ASSUME NEW argv, Len(argv) \in Nat
  PROVE  LET params == ParseNamedArguments(argv) IN
         /\ Len(params) \in Nat
         /\ Len(params) = Len(argv) <=> \A i \in 1 .. Len(argv) : Len(argv[i]) > 1
         /\ Len(params) = Len(argv) => \A i \in 1 .. Len(argv) : params[i] = Param(argv[i])
<1>1. PICK f : /\ f = [i \in 0 .. Len(argv) |-> NamedUpTo(argv, f, i)]
               /\ ParseNamedArguments(argv) = f[Len(argv)]
  BY NamedDef
<1> DEFINE T == {n \in Nat : n <= Len(argv) => NamedSoFar(argv, f, n)}
<1>2. 0 \in T
  <2>1. f[0] = <<>>
    BY <1>1 DEF NamedUpTo
  <2>2. \A S : f[0] \in Seq(S)
    BY <2>1
  <2>3. f[0] \in Seq({Param(argv[i]) : i \in 1 .. Len(argv)})
    BY <2>2
  <2>4. Len(f[0]) = 0 /\ 1 .. 0 = {}
    BY <2>1
  <2>5. NamedSoFar(argv, f, 0)
    BY <2>3, <2>4 DEF NamedSoFar
  <2> QED
    BY <2>5
<1>3. ASSUME NEW n \in Nat, n \in T
      PROVE  n + 1 \in T
  <2> SUFFICES ASSUME n + 1 <= Len(argv)
               PROVE  NamedSoFar(argv, f, n + 1)
    OBVIOUS
  <2>1. NamedSoFar(argv, f, n)
    BY <1>3
  <2>2. f[n + 1] = IF Len(argv[n + 1]) > 1 THEN Append(f[n], Param(argv[n + 1])) ELSE f[n]
    <3>1. n + 1 \in 0 .. Len(argv) /\ n + 1 # 0 /\ (n + 1) - 1 = n
      OBVIOUS
    <3>2. f[n + 1] = NamedUpTo(argv, f, n + 1)
      BY <1>1, <3>1
    <3> QED
      BY <3>1, <3>2 DEF NamedUpTo
  <2>3. CASE Len(argv[n + 1]) > 1
    <3> DEFINE S == {Param(argv[i]) : i \in 1 .. Len(argv)}
    <3>1. Param(argv[n + 1]) \in S /\ f[n] \in Seq(S)
      BY <2>1 DEF NamedSoFar
    <3>2. f[n + 1] = Append(f[n], Param(argv[n + 1]))
      BY <2>2, <2>3
    <3> HIDE DEF S
    <3>3. /\ f[n + 1] \in Seq(S)
          /\ Len(f[n + 1]) = Len(f[n]) + 1
          /\ \A i \in 1 .. Len(f[n]) : f[n + 1][i] = f[n][i]
          /\ f[n + 1][Len(f[n]) + 1] = Param(argv[n + 1])
      BY <3>1, <3>2
    <3>4. Len(f[n]) \in Nat
      BY <3>1
    <3>5. (\E i \in 1 .. n + 1 : ~(Len(argv[i]) > 1)) => \E i \in 1 .. n : ~(Len(argv[i]) > 1)
      BY <2>3
    <3>6. Len(f[n + 1]) <= n + 1 /\
          ((\E i \in 1 .. n + 1 : ~(Len(argv[i]) > 1)) => Len(f[n + 1]) < n + 1)
      BY <2>1, <3>3, <3>4, <3>5 DEF NamedSoFar
    <3>7. ASSUME \A i \in 1 .. n + 1 : Len(argv[i]) > 1
          PROVE  Len(f[n + 1]) = n + 1 /\ \A i \in 1 .. n + 1 : f[n + 1][i] = Param(argv[i])
      <4>1. Len(f[n]) = n /\ \A i \in 1 .. n : f[n][i] = Param(argv[i])
        BY <2>1, <3>7 DEF NamedSoFar
      <4> QED
        BY <3>3, <4>1
    <3> QED
      BY <3>3, <3>6, <3>7 DEF NamedSoFar, S
  <2>4. CASE ~(Len(argv[n + 1]) > 1)
    <3>1. f[n + 1] = f[n]
      BY <2>2, <2>4
    <3>2. ~ \A i \in 1 .. n + 1 : Len(argv[i]) > 1
      BY <2>4
    <3>3. Len(f[n]) \in Nat /\ Len(f[n]) <= n
      BY <2>1 DEF NamedSoFar
    <3> QED
      BY <2>1, <3>1, <3>2, <3>3 DEF NamedSoFar
  <2> QED
    BY <2>3, <2>4
<1> HIDE DEF T
<1>4. Nat \subseteq T
  BY <1>2, <1>3, Induction
<1>5. NamedSoFar(argv, f, Len(argv))
  BY <1>4 DEF T
<1> QED
  BY <1>1, <1>5 DEF NamedSoFar

(***************************************************************************)
(* One option.                                                             *)
(***************************************************************************)

\* The option a name stands for.
LEMMA NamedOption ==
  ASSUME NEW i \in DOMAIN Declared
  PROVE  /\ Option(i) \in OptionWrapper
         /\ Option(i).Name \in Names
         /\ Named(Option(i).Name) = Option(i)
<1>1. Option(i) \in OptionWrapper /\ Option(i).Name \in Names
  BY OptionsAssumption DEF Option, Names
<1>2. \A j \in DOMAIN Declared : Option(j).Name = Option(i).Name => j = i
  BY OptionsAssumption
<1>3. (CHOOSE j \in DOMAIN Declared : Option(j).Name = Option(i).Name) = i
  BY <1>2
<1> QED
  BY <1>1, <1>3 DEF Named

LEMMA NamedFor ==
  ASSUME NEW n \in Names
  PROVE  /\ Named(n) \in OptionWrapper
         /\ Named(n).Name = n
<1>1. PICK i \in DOMAIN Declared : n = Option(i).Name
  BY DEF Names
<1> QED
  BY <1>1, NamedOption

\* Whether a text parses, and as what, does not depend on the field; what is
\* then in the field is a value of the type.
LEMMA ParseFacts ==
  ASSUME NEW T \in Types, NEW t, NEW old
  PROVE  /\ Parse(T, t, old).ok \in BOOLEAN
         /\ Parse(T, t, old).ok = Parse(T, t, Empty).ok
         /\ Parse(T, t, Empty).ok => Parse(T, t, old).value = Parse(T, t, Empty).value
         /\ ValueOf(T, old) => ValueOf(T, Parse(T, t, old).value)
BY TextsAssumption
   DEF Types, Parse, ParseBool, ParseFloat, ParseChar, ParseString, Outcome, ValueOf, Floats

\* The text of a value that parses is parsed as that value.
LEMMA ParseItself ==
  ASSUME NEW T \in Types, NEW v, ValueOf(T, v), Parse(T, v, Empty).ok
  PROVE  Parse(T, v, Empty).value = v
BY TextsAssumption
   DEF Types, Parse, ParseBool, ParseFloat, ParseChar, ParseString, Outcome, ValueOf

\* A field starts with a value of its type.
LEMMA DefaultValue ==
  ASSUME NEW o \in OptionWrapper
  PROVE  ValueOf(o.T, Default(o))
BY DEF OptionWrapper, Types, Default, ValueOf, Floats

(***************************************************************************)
(* The loop of TryParseArgs.                                               *)
(***************************************************************************)

Collection(c) ==
  /\ DOMAIN c = {"field", "Populated", "tainted", "ok"}
  /\ c.ok \in BOOLEAN
  /\ c.field = [n \in Names |-> c.field[n]]

\* A parameter that is declared and admissible.
Good(p) == p.name \in Names /\ Admissible(Named(p.name), p.value)

\* What one turn of the loop does.
LEMMA NextFacts ==
  ASSUME NEW c, NEW p, Collection(c)
  PROVE  LET d == ParseNext(c, p) IN
         /\ Collection(d)
         /\ FieldsInv(c.field, c.tainted) => FieldsInv(d.field, d.tainted)
         /\ d.ok <=> c.ok /\ Good(p)
         /\ d.ok => /\ d.Populated = c.Populated \union {p.name}
                    /\ \A n \in Names :
                         d.field[n] = IF n = p.name THEN Parse(Named(n).T, p.value, Empty).value
                                                    ELSE c.field[n]
<1> DEFINE d == ParseNext(c, p)
<1>1. CASE ~c.ok
  BY <1>1 DEF ParseNext
<1>2. CASE c.ok /\ (p.name \notin Names \/ ~CheckValidValues(Named(p.name), p.value))
  <2>1. d = [c EXCEPT !.ok = FALSE]
    BY <1>2 DEF ParseNext
  <2>2. /\ DOMAIN d = DOMAIN c
        /\ d.ok = FALSE
        /\ d.field = c.field /\ d.Populated = c.Populated /\ d.tainted = c.tainted
    BY <2>1 DEF Collection
  <2>3. ~Good(p)
    BY <1>2 DEF Good, Admissible
  <2> HIDE DEF d
  <2>4. Collection(d) /\ (FieldsInv(c.field, c.tainted) => FieldsInv(d.field, d.tainted))
    BY <2>2 DEF Collection
  <2> QED
    BY <2>2, <2>3, <2>4 DEF d
<1>3. CASE c.ok /\ p.name \in Names /\ CheckValidValues(Named(p.name), p.value)
  <2> DEFINE o == Named(p.name)
             r == TryParse(o, p.value, c.field[p.name])
             q == Parse(o.T, p.value, c.field[p.name])
  <2>1. o \in OptionWrapper /\ o.T \in Types
    BY <1>3, NamedFor DEF OptionWrapper
  <2>2. /\ d.field = [c.field EXCEPT ![p.name] = r.value]
        /\ d.Populated = IF r.ok THEN c.Populated \union {p.name} ELSE c.Populated
        /\ d.tainted = IF r.ok THEN c.tainted \ {p.name}
                       ELSE IF r.value = c.field[p.name] THEN c.tainted
                       ELSE c.tainted \union {p.name}
        /\ d.ok = r.ok
        /\ DOMAIN d = {"field", "Populated", "tainted", "ok"}
    BY <1>3 DEF ParseNext
  <2>3. r.ok = (q.ok /\ Validates(o, q.value)) /\ r.value = q.value
    BY DEF TryParse, Outcome
  <2> HIDE DEF d, r
  <2>4. /\ q.ok \in BOOLEAN
        /\ q.ok = Parse(o.T, p.value, Empty).ok
        /\ q.ok => q.value = Parse(o.T, p.value, Empty).value
        /\ ValueOf(o.T, c.field[p.name]) => ValueOf(o.T, q.value)
    BY <2>1, ParseFacts
  <2> HIDE DEF o, q
  <2>5. r.ok \in BOOLEAN /\ (r.ok <=> Good(p))
    BY <1>3, <2>3, <2>4 DEF Good, Admissible, o
  <2>6. \A n \in Names : d.field[n] = IF n = p.name THEN r.value ELSE c.field[n]
    BY <2>2 DEF Collection
  <2>7. Collection(d)
    BY <2>2, <2>5 DEF Collection
  <2>8. ASSUME FieldsInv(c.field, c.tainted)
        PROVE  FieldsInv(d.field, d.tainted)
    <3> SUFFICES ASSUME NEW n \in Names
                 PROVE  /\ ValueOf(Named(n).T, d.field[n])
                        /\ n \in d.tainted \/ d.field[n] = Default(Named(n))
                             \/ Validates(Named(n), d.field[n])
      BY DEF FieldsInv
    <3>1. CASE n = p.name
      <4>1. ValueOf(Named(n).T, d.field[n])
        BY <2>3, <2>4, <2>6, <2>8, <3>1 DEF FieldsInv, o
      <4>2. CASE r.ok
        BY <2>3, <2>6, <3>1, <4>1, <4>2 DEF o
      <4>3. CASE ~r.ok /\ r.value = c.field[p.name]
        BY <2>2, <2>6, <2>8, <3>1, <4>1, <4>3 DEF FieldsInv
      <4>4. CASE ~r.ok /\ r.value # c.field[p.name]
        BY <2>2, <3>1, <4>1, <4>4
      <4> QED
        BY <4>2, <4>3, <4>4
    <3>2. CASE n # p.name
      BY <2>2, <2>6, <2>8, <3>2 DEF FieldsInv
    <3> QED
      BY <3>1, <3>2
  <2> QED
    BY <1>3, <2>2, <2>3, <2>4, <2>5, <2>6, <2>7, <2>8 DEF d, o
<1> QED
  BY <1>1, <1>2, <1>3 DEF Collection

\* The collection d after the first k of the parameters, when c was the one before.
SoFar(c, params, d, k) ==
  /\ Collection(d)
  /\ FieldsInv(c.field, c.tainted) => FieldsInv(d.field, d.tainted)
  /\ d.ok <=> \A i \in 1 .. k : Good(params[i])
  /\ d.ok =>
       /\ d.Populated = c.Populated \union {params[i].name : i \in 1 .. k}
       /\ \A n \in Names :
            (\A i \in 1 .. k : params[i].name # n) => d.field[n] = c.field[n]
       /\ \A i \in 1 .. k :
            (\A j \in 1 .. k : j > i => params[j].name # params[i].name) =>
              d.field[params[i].name] =
                Parse(Named(params[i].name).T, params[i].value, Empty).value

\* One more parameter.
LEMMA OneMore ==
  ASSUME NEW c, NEW params, NEW d, NEW k \in Nat, SoFar(c, params, d, k)
  PROVE  SoFar(c, params, ParseNext(d, params[k + 1]), k + 1)
<1> DEFINE p == params[k + 1]
           e == ParseNext(d, p)
<1>1. Collection(d)
  BY DEF SoFar
<1>2. /\ Collection(e)
      /\ FieldsInv(d.field, d.tainted) => FieldsInv(e.field, e.tainted)
      /\ e.ok <=> d.ok /\ Good(p)
      /\ e.ok => /\ e.Populated = d.Populated \union {p.name}
                 /\ \A n \in Names :
                      e.field[n] = IF n = p.name THEN Parse(Named(n).T, p.value, Empty).value
                                                 ELSE d.field[n]
  BY <1>1, NextFacts
<1> HIDE DEF e
<1>3. 1 .. k + 1 = 1 .. k \union {k + 1}
  OBVIOUS
<1>4. e.ok <=> \A i \in 1 .. k + 1 : Good(params[i])
  BY <1>2, <1>3 DEF SoFar
<1>5. ASSUME e.ok
      PROVE  e.Populated = c.Populated \union {params[i].name : i \in 1 .. k + 1}
  <2>1. {params[i].name : i \in 1 .. k + 1} = {params[i].name : i \in 1 .. k} \union {p.name}
    BY <1>3
  <2>2. d.ok /\ d.Populated = c.Populated \union {params[i].name : i \in 1 .. k}
    BY <1>2, <1>5 DEF SoFar
  <2> QED
    BY <1>2, <1>5, <2>1, <2>2
<1>6. ASSUME e.ok, NEW n \in Names, \A i \in 1 .. k + 1 : params[i].name # n
      PROVE  e.field[n] = c.field[n]
  <2>1. d.ok /\ e.field[n] = d.field[n]
    BY <1>2, <1>3, <1>6
  <2>2. \A i \in 1 .. k : params[i].name # n
    BY <1>3, <1>6
  <2> QED
    BY <2>1, <2>2 DEF SoFar
<1>7. ASSUME e.ok, NEW i \in 1 .. k + 1,
             \A j \in 1 .. k + 1 : j > i => params[j].name # params[i].name
      PROVE  e.field[params[i].name] =
               Parse(Named(params[i].name).T, params[i].value, Empty).value
  <2>1. params[i].name \in Names
    BY <1>4, <1>7 DEF Good
  <2>2. CASE i = k + 1
    BY <1>2, <1>7, <2>1, <2>2
  <2>3. CASE i # k + 1
    <3>1. i \in 1 .. k /\ k + 1 > i
      BY <2>3
    <3>2. p.name # params[i].name
      BY <1>7, <3>1
    <3>3. d.ok /\ e.field[params[i].name] = d.field[params[i].name]
      BY <1>2, <1>7, <2>1, <3>2
    <3>4. \A j \in 1 .. k : j > i => params[j].name # params[i].name
      BY <1>3, <1>7
    <3>5. d.field[params[i].name] = Parse(Named(params[i].name).T, params[i].value, Empty).value
      BY <3>1, <3>3, <3>4 DEF SoFar
    <3> QED
      BY <3>3, <3>5
  <2> QED
    BY <2>2, <2>3
<1>8. FieldsInv(c.field, c.tainted) => FieldsInv(e.field, e.tainted)
  BY <1>2 DEF SoFar
<1> QED
  BY <1>2, <1>4, <1>5, <1>6, <1>7, <1>8 DEF SoFar, e

\* What the loop does.
LEMMA EachFacts ==
  ASSUME NEW c, NEW params, Len(params) \in Nat, Collection(c), c.ok
  PROVE  SoFar(c, params, ParseEach(c, params), Len(params))
<1>1. PICK f : /\ f = [i \in 0 .. Len(params) |-> AfterNext(c, params, f, i)]
               /\ ParseEach(c, params) = f[Len(params)]
  BY EachDef
<1> DEFINE T == {n \in Nat : n <= Len(params) => SoFar(c, params, f[n], n)}
<1>2. 0 \in T
  <2>1. f[0] = AfterNext(c, params, f, 0)
    BY <1>1
  <2>2. f[0] = c
    BY <2>1 DEF AfterNext
  <2>3. 1 .. 0 = {}
    OBVIOUS
  <2>4. {params[i].name : i \in 1 .. 0} = {}
    BY <2>3
  <2>5. SoFar(c, params, c, 0)
    BY <2>3, <2>4 DEF SoFar
  <2> QED
    BY <2>2, <2>5
<1>3. ASSUME NEW n \in Nat, n \in T
      PROVE  n + 1 \in T
  <2> SUFFICES ASSUME n + 1 <= Len(params)
               PROVE  SoFar(c, params, f[n + 1], n + 1)
    OBVIOUS
  <2>1. SoFar(c, params, f[n], n)
    BY <1>3
  <2>2. n + 1 \in 0 .. Len(params) /\ n + 1 # 0 /\ (n + 1) - 1 = n
    OBVIOUS
  <2>3. f[n + 1] = AfterNext(c, params, f, n + 1)
    BY <1>1, <2>2
  <2>4. f[n + 1] = ParseNext(f[n], params[n + 1])
    BY <2>2, <2>3 DEF AfterNext
  <2> QED
    BY <2>1, <2>4, OneMore
<1> HIDE DEF T
<1>4. Nat \subseteq T
  BY <1>2, <1>3, Induction
<1>5. SoFar(c, params, f[Len(params)], Len(params))
  BY <1>4 DEF T
<1> QED
  BY <1>1, <1>5

(***************************************************************************)
(* TryParseArgs.                                                           *)
(***************************************************************************)

\* An argument TryParseArgs can make something of.
Accepted(arg) == Len(arg) > 1 /\ Good(Param(arg))

\* Each required option is populated, by this call or an earlier one.
Complete(populated, argv) ==
  \A n \in Names : Named(n).IsRequired =>
    n \in populated \/ \E i \in 1 .. Len(argv) : Param(argv[i]).name = n

\* What a call does.
LEMMA ArgsFacts ==
  ASSUME NEW c, NEW argv, Len(argv) \in Nat, Collection(c), c.ok
  PROVE  LET d == ParseArgs(c, argv) IN
         /\ Collection(d)
         /\ FieldsInv(c.field, c.tainted) => FieldsInv(d.field, d.tainted)
         /\ d.ok <=> /\ \A i \in 1 .. Len(argv) : Accepted(argv[i])
                     /\ Complete(c.Populated, argv)
         /\ d.ok =>
              /\ \A n \in Names :
                   (\A i \in 1 .. Len(argv) : Param(argv[i]).name # n) => d.field[n] = c.field[n]
              /\ \A i \in 1 .. Len(argv) :
                   (\A j \in 1 .. Len(argv) : j > i => Param(argv[j]).name # Param(argv[i]).name)
                   => d.field[Param(argv[i]).name] =
                        Parse(Named(Param(argv[i]).name).T, Param(argv[i]).value, Empty).value
<1> DEFINE d == ParseArgs(c, argv)
           params == ParseNamedArguments(argv)
           parsed == ParseEach(c, params)
           L == 1 .. Len(argv)
<1>1. /\ Len(params) \in Nat
      /\ Len(params) = Len(argv) <=> \A i \in L : Len(argv[i]) > 1
      /\ Len(params) = Len(argv) => \A i \in L : params[i] = Param(argv[i])
  BY NamedFacts
<1>2. d = IF Len(params) # Len(argv) THEN [c EXCEPT !.ok = FALSE]
          ELSE [parsed EXCEPT !.ok = @ /\ CheckRequiredValues(parsed.Populated)]
  BY DEF ParseArgs
<1>3. SoFar(c, params, parsed, Len(params))
  BY <1>1, EachFacts
<1> HIDE DEF d, params, parsed
<1>4. CASE Len(params) # Len(argv)
  <2>1. ~ \A i \in L : Accepted(argv[i])
    BY <1>1, <1>4 DEF Accepted
  <2>2. d.ok = FALSE /\ d.field = c.field /\ d.tainted = c.tainted /\ DOMAIN d = DOMAIN c
    BY <1>2, <1>4 DEF Collection
  <2>3. Collection(d)
    BY <2>2 DEF Collection
  <2> QED
    BY <2>1, <2>2, <2>3 DEF d
<1>5. CASE Len(params) = Len(argv)
  <2>1. /\ d.ok = (parsed.ok /\ CheckRequiredValues(parsed.Populated))
        /\ d.field = parsed.field /\ d.tainted = parsed.tainted /\ DOMAIN d = DOMAIN parsed
    BY <1>2, <1>3, <1>5 DEF SoFar, Collection
  <2>2. Collection(d)
    BY <1>3, <2>1 DEF SoFar, Collection, CheckRequiredValues
  <2>3. FieldsInv(c.field, c.tainted) => FieldsInv(d.field, d.tainted)
    BY <1>3, <2>1 DEF SoFar
  <2>4. \A i \in L : Len(argv[i]) > 1 /\ params[i] = Param(argv[i])
    BY <1>1, <1>5
  <2>5. parsed.ok <=> \A i \in L : Accepted(argv[i])
    BY <1>3, <1>5, <2>4 DEF SoFar, Accepted
  <2>6. ASSUME parsed.ok
        PROVE  CheckRequiredValues(parsed.Populated) <=> Complete(c.Populated, argv)
    <3>1. \A n : n \in parsed.Populated <=>
                   n \in c.Populated \/ \E i \in L : Param(argv[i]).name = n
      BY <1>3, <1>5, <2>4, <2>6 DEF SoFar
    <3>2. CheckRequiredValues(parsed.Populated) <=>
            \A n \in Names : Named(n).IsRequired => n \in parsed.Populated
      <4>1. ASSUME CheckRequiredValues(parsed.Populated), NEW n \in Names, Named(n).IsRequired
            PROVE  n \in parsed.Populated
        <5>1. PICK i \in DOMAIN Declared : n = Option(i).Name
          BY DEF Names
        <5>2. Option(i).IsRequired
          BY <4>1, <5>1, NamedOption
        <5> QED
          BY <4>1, <5>1, <5>2 DEF CheckRequiredValues
      <4>2. ASSUME \A n \in Names : Named(n).IsRequired => n \in parsed.Populated,
                   NEW i \in DOMAIN Declared, Option(i).IsRequired
            PROVE  Option(i).Name \in parsed.Populated
        BY <4>2, NamedOption
      <4> QED
        BY <4>1, <4>2 DEF CheckRequiredValues
    <3> QED
      BY <3>1, <3>2 DEF Complete
  <2>7. d.ok <=> (\A i \in L : Accepted(argv[i])) /\ Complete(c.Populated, argv)
    BY <2>1, <2>5, <2>6
  <2>8. ASSUME d.ok
        PROVE  /\ \A n \in Names :
                    (\A i \in L : Param(argv[i]).name # n) => d.field[n] = c.field[n]
               /\ \A i \in L :
                    (\A j \in L : j > i => Param(argv[j]).name # Param(argv[i]).name)
                    => d.field[Param(argv[i]).name] =
                         Parse(Named(Param(argv[i]).name).T, Param(argv[i]).value, Empty).value
    <3>1. parsed.ok
      BY <2>1, <2>8
    <3>2. /\ \A n \in Names :
                (\A i \in L : params[i].name # n) => parsed.field[n] = c.field[n]
          /\ \A i \in L :
                (\A j \in L : j > i => params[j].name # params[i].name) =>
                  parsed.field[params[i].name] =
                    Parse(Named(params[i].name).T, params[i].value, Empty).value
      BY <1>3, <1>5, <3>1 DEF SoFar
    <3> QED
      BY <2>1, <2>4, <3>2
  <2> QED
    BY <2>2, <2>3, <2>7, <2>8 DEF d
<1> QED
  BY <1>4, <1>5

(***************************************************************************)
(* The collection.                                                         *)
(***************************************************************************)

\* The collection a call starts with.
LEMMA StartFacts ==
  ASSUME NEW f, NEW populated, NEW t, f = [n \in Names |-> f[n]]
  PROVE  LET c == Start(f, populated, t) IN
         /\ Collection(c) /\ c.ok
         /\ c.field = f /\ c.Populated = populated /\ c.tainted = t
BY DEF Start, Collection

LEMMA InitInv == Init => IInv
<1> SUFFICES ASSUME Init
             PROVE  IInv
  OBVIOUS
<1>1. field = [n \in Names |-> Default(Named(n))]
  BY DEF Init, Fresh, Start
<1>2. \A n \in Names : field[n] = Default(Named(n)) /\ ValueOf(Named(n).T, Default(Named(n)))
  BY <1>1, NamedFor, DefaultValue
<1> QED
  BY <1>1, <1>2 DEF IInv, FieldsInv

LEMMA NextInv == IInv /\ [Next]_vars => IInv'
<1> SUFFICES ASSUME IInv, [Next]_vars
             PROVE  IInv'
  OBVIOUS
<1>1. ASSUME TryParseArgs
      PROVE  IInv'
  <2>1. PICK n \in 0 .. MaxArgs : \E argv \in [1 .. n -> Arguments] :
          TryParseOverruns(argv) \/ TryParseDefined(argv)
    BY <1>1, Zenon DEF TryParseArgs
  <2>2. PICK argv \in [1 .. n -> Arguments] : TryParseOverruns(argv) \/ TryParseDefined(argv)
    BY <2>1
  <2>3. CASE TryParseOverruns(argv)
    BY <2>3 DEF TryParseOverruns, IInv
  <2>4. CASE TryParseDefined(argv)
    <3> DEFINE c == Start(field, Populated, tainted)
               d == ParseArgs(c, argv)
    <3>1. Collection(c) /\ c.ok /\ c.field = field /\ c.tainted = tainted
      BY StartFacts DEF IInv
    <3>2. Len(argv) \in Nat
      BY OptionsAssumption
    <3>3. field' = d.field /\ tainted' = d.tainted
      BY <2>4 DEF TryParseDefined
    <3> HIDE DEF c
    <3>4. Collection(d) /\ (FieldsInv(c.field, c.tainted) => FieldsInv(d.field, d.tainted))
      BY <3>1, <3>2, ArgsFacts
    <3> HIDE DEF d
    <3>5. FieldsInv(field', tainted') /\ field' = [m \in Names |-> field'[m]]
      BY <3>1, <3>3, <3>4 DEF IInv, Collection
    <3> QED
      BY <3>5 DEF IInv, FieldsInv
  <2> QED
    BY <2>2, <2>3, <2>4
<1>2. ASSUME NEW n \in Names, NEW value \in Values[Named(n).T], Assign(n, value)
      PROVE  IInv'
  <2>1. ValueOf(Named(n).T, value)
    BY TextsAssumption DEF ValueOf, Floats
  <2>2. field' = [field EXCEPT ![n] = value] /\ tainted' = tainted \union {n}
    BY <1>2 DEF Assign
  <2>3. \A m \in Names : field'[m] = IF m = n THEN value ELSE field[m]
    BY <2>2 DEF IInv
  <2>4. field' = [m \in Names |-> field'[m]]
    BY <2>2 DEF IInv
  <2> QED
    BY <2>1, <2>2, <2>3, <2>4 DEF IInv, FieldsInv
<1>3. CASE UNCHANGED vars
  BY <1>3 DEF IInv, FieldsInv, vars
<1> QED
  BY <1>1, <1>2, <1>3 DEF Next

LEMMA Invariance == Spec => []IInv
BY InitInv, NextInv, PTL DEF Spec

\* Once a call has returned true, a field holds a value its option does not admit
\* only by default, by assignment or by a call that failed, however many options
\* and calls there are and whatever the arguments (Option::TryParse).
THEOREM FieldsAdmitted == Spec => []InvalidOnlyByFailure
<1>1. IInv => InvalidOnlyByFailure
  <2> SUFFICES ASSUME IInv, NEW n \in Names
               PROVE  n \in tainted \/ HasDefaultValue(Named(n), field)
                        \/ Validates(Named(n), field[n])
    BY DEF InvalidOnlyByFailure
  <2>1. Named(n).Name = n
    BY NamedFor
  <2> QED
    BY <2>1 DEF IInv, FieldsInv, HasDefaultValue
<1> QED
  BY <1>1, Invariance, PTL

(***************************************************************************)
(* The reference of TryParseArgs.                                          *)
(***************************************************************************)

\* The last of some places.
LEMMA LastOne ==
  ASSUME NEW n \in Nat, NEW S \in SUBSET (1 .. n), S # {}
  PROVE  \E m \in S : \A j \in S : j <= m
<1> DEFINE T == {k \in Nat : \A R \in SUBSET (1 .. k) :
                               R # {} => \E m \in R : \A j \in R : j <= m}
<1>1. 0 \in T
  <2>1. 1 .. 0 = {}
    OBVIOUS
  <2>2. \A R \in SUBSET (1 .. 0) : R = {}
    BY <2>1
  <2> QED
    BY <2>2
<1>2. ASSUME NEW k \in Nat, k \in T
      PROVE  k + 1 \in T
  <2> SUFFICES ASSUME NEW R \in SUBSET (1 .. k + 1), R # {}
               PROVE  \E m \in R : \A j \in R : j <= m
    OBVIOUS
  <2>1. CASE k + 1 \in R
    BY <2>1
  <2>2. CASE k + 1 \notin R
    <3>1. R \in SUBSET (1 .. k)
      BY <2>2
    <3> QED
      BY <1>2, <3>1
  <2> QED
    BY <2>1, <2>2
<1> HIDE DEF T
<1>3. Nat \subseteq T
  BY <1>1, <1>2, Induction
<1> QED
  BY <1>3 DEF T

\* A call that returns does what the reference says.
LEMMA CallMeetsReference ==
  ASSUME IInv, NEW n \in Nat, NEW argv \in [1 .. n -> Arguments], TryParseDefined(argv)
  PROVE  /\ result' = "true" <=>
              /\ \A i \in DOMAIN argv :
                   /\ Len(argv[i]) > 1
                   /\ Param(argv[i]).name \in Names
                   /\ Admissible(Named(Param(argv[i]).name), Param(argv[i]).value)
              /\ \A m \in Names : Named(m).IsRequired =>
                   m \in Populated \/ Naming(m, argv) # {}
         /\ result' = "true" =>
              \A m \in Names :
                field'[m] = IF Naming(m, argv) = {} THEN field[m] ELSE Said(m, argv)
<1> DEFINE c == Start(field, Populated, tainted)
           d == ParseArgs(c, argv)
<1>1. Collection(c) /\ c.ok /\ c.field = field /\ c.Populated = Populated
  BY StartFacts DEF IInv
<1>2. Len(argv) = n /\ DOMAIN argv = 1 .. n
  OBVIOUS
<1>3. field' = d.field /\ result' = IF d.ok THEN "true" ELSE "false"
  BY DEF TryParseDefined
<1> HIDE DEF c
<1>4. /\ Collection(d)
      /\ d.ok <=> /\ \A i \in 1 .. n : Accepted(argv[i])
                  /\ Complete(c.Populated, argv)
      /\ d.ok =>
           /\ \A m \in Names :
                (\A i \in 1 .. n : Param(argv[i]).name # m) => d.field[m] = c.field[m]
           /\ \A i \in 1 .. n :
                (\A j \in 1 .. n : j > i => Param(argv[j]).name # Param(argv[i]).name)
                => d.field[Param(argv[i]).name] =
                     Parse(Named(Param(argv[i]).name).T, Param(argv[i]).value, Empty).value
  BY <1>1, <1>2, ArgsFacts
<1> HIDE DEF d
<1>5. result' = "true" <=> d.ok
  BY <1>3, <1>4 DEF Collection
<1>6. ASSUME \A i \in 1 .. n : Accepted(argv[i]), NEW m
      PROVE  Naming(m, argv) = {i \in 1 .. n : Param(argv[i]).name = m}
  BY <1>2, <1>6 DEF Naming, Accepted
<1>7. (\A i \in 1 .. n : Accepted(argv[i])) <=>
        \A i \in DOMAIN argv :
          /\ Len(argv[i]) > 1
          /\ Param(argv[i]).name \in Names
          /\ Admissible(Named(Param(argv[i]).name), Param(argv[i]).value)
  BY <1>2 DEF Accepted, Good
<1>8. ASSUME \A i \in 1 .. n : Accepted(argv[i])
      PROVE  Complete(c.Populated, argv) <=>
               \A m \in Names : Named(m).IsRequired => m \in Populated \/ Naming(m, argv) # {}
  <2>1. \A m : (Naming(m, argv) # {}) <=> \E i \in 1 .. n : Param(argv[i]).name = m
    BY <1>6, <1>8
  <2> QED
    BY <1>1, <1>2, <2>1 DEF Complete
<1>9. ASSUME d.ok, NEW m \in Names
      PROVE  field'[m] = IF Naming(m, argv) = {} THEN field[m] ELSE Said(m, argv)
  <2>1. Naming(m, argv) = {i \in 1 .. n : Param(argv[i]).name = m}
    BY <1>4, <1>6, <1>9
  <2>2. CASE Naming(m, argv) = {}
    <3>1. \A i \in 1 .. n : Param(argv[i]).name # m
      BY <2>1, <2>2
    <3> QED
      BY <1>1, <1>3, <1>4, <1>9, <2>2, <3>1
  <2>3. CASE Naming(m, argv) # {}
    <3> DEFINE last == CHOOSE i \in Naming(m, argv) : \A j \in Naming(m, argv) : j <= i
    <3>1. \E i \in Naming(m, argv) : \A j \in Naming(m, argv) : j <= i
      BY <2>1, <2>3, LastOne
    <3>2. last \in Naming(m, argv) /\ \A j \in Naming(m, argv) : j <= last
      BY <3>1
    <3>3. Said(m, argv) = Parse(Named(m).T, Param(argv[last]).value, Empty).value
      BY DEF Said
    <3> HIDE DEF last
    <3>4. last \in 1 .. n /\ Param(argv[last]).name = m
      BY <2>1, <3>2
    <3>5. \A j \in 1 .. n : j > last => Param(argv[j]).name # Param(argv[last]).name
      BY <2>1, <3>2, <3>4
    <3>6. d.field[m] = Parse(Named(m).T, Param(argv[last]).value, Empty).value
      BY <1>4, <1>9, <3>4, <3>5
    <3> QED
      BY <1>3, <2>3, <3>3, <3>6
  <2> QED
    BY <2>2, <2>3
<1> QED
  BY <1>4, <1>5, <1>7, <1>8, <1>9

\* TryParseArgs returns true exactly if every argument is of a declared option and
\* admissible and no required option is missing, and then each field holds what the
\* last argument for it says: for any options, arguments and number of arguments.
THEOREM ParsesAsReference == Spec => ParseMeetsReference
<1> DEFINE Reference ==
      calls' # calls /\ result' # "undefined" =>
       /\ result' = "true" <=>
            /\ \A i \in DOMAIN args' :
                 /\ Len(args'[i]) > 1
                 /\ Param(args'[i]).name \in Names
                 /\ Admissible(Named(Param(args'[i]).name), Param(args'[i]).value)
            /\ \A n \in Names : Named(n).IsRequired =>
                 n \in Populated \/ Naming(n, args') # {}
       /\ result' = "true" =>
            \A n \in Names :
              field'[n] = IF Naming(n, args') = {} THEN field[n] ELSE Said(n, args')
<1>1. IInv /\ [Next]_vars => [Reference]_vars
  <2> SUFFICES ASSUME IInv, Next, calls' # calls, result' # "undefined"
               PROVE  Reference
    BY DEF Reference
  <2>1. TryParseArgs
    BY DEF Next, Assign
  <2>2. PICK n \in 0 .. MaxArgs : \E argv \in [1 .. n -> Arguments] :
          args' = argv /\ (TryParseOverruns(argv) \/ TryParseDefined(argv))
    BY <2>1, Zenon DEF TryParseArgs
  <2>3. PICK argv \in [1 .. n -> Arguments] :
          args' = argv /\ (TryParseOverruns(argv) \/ TryParseDefined(argv))
    BY <2>2
  <2>4. TryParseDefined(argv)
    BY <2>3 DEF TryParseOverruns
  <2>5. n \in Nat
    BY OptionsAssumption
  <2> QED
    BY <2>3, <2>4, <2>5, CallMeetsReference
<1> HIDE DEF Reference
<1>2. Spec => [][Reference]_vars
  BY <1>1, Invariance, PTL DEF Spec
<1> QED
  BY <1>2 DEF ParseMeetsReference, Reference

(***************************************************************************)
(* ToParsableArgs, read back.                                              *)
(***************************************************************************)

Elements(s) == {s[i] : i \in 1 .. Len(s)}

\* What is flattened has the elements of the sequences, and no other.
LEMMA FlattenElements ==
  ASSUME NEW S, NEW ws \in Seq(Seq(S))
  PROVE  /\ FlattenSeq(ws) \in Seq(S)
         /\ Elements(FlattenSeq(ws)) = UNION {Elements(ws[i]) : i \in 1 .. Len(ws)}
<1>1. CASE Len(ws) = 0
  <2>1. FlattenSeq(ws) = ws
    BY <1>1 DEF FlattenSeq
  <2>2. ws = <<>> /\ 1 .. Len(ws) = {}
    BY <1>1
  <2>3. ws \in Seq(S)
    BY <2>2
  <2>4. Elements(ws) = {} /\ UNION {Elements(ws[i]) : i \in 1 .. Len(ws)} = {}
    BY <2>2 DEF Elements
  <2> QED
    BY <2>1, <2>3, <2>4
<1>2. CASE Len(ws) # 0
  <2>1. PICK f : /\ f = [i \in 1 .. Len(ws) |-> Flattened(ws, f, i)]
                 /\ FlattenSeq(ws) = f[Len(ws)]
    BY <1>2, FlattenDef
  <2> DEFINE E(n) == UNION {Elements(ws[i]) : i \in 1 .. n}
             T == {n \in Nat : n \in 1 .. Len(ws) => f[n] \in Seq(S) /\ Elements(f[n]) = E(n)}
  <2>2. 0 \in T
    OBVIOUS
  <2>3. ASSUME NEW n \in Nat, n \in T
        PROVE  n + 1 \in T
    <3> SUFFICES ASSUME n + 1 \in 1 .. Len(ws)
                 PROVE  f[n + 1] \in Seq(S) /\ Elements(f[n + 1]) = E(n + 1)
      OBVIOUS
    <3>1. f[n + 1] = Flattened(ws, f, n + 1)
      BY <2>1
    <3>2. ws[n + 1] \in Seq(S)
      OBVIOUS
    <3>3. CASE n = 0
      <4>1. f[1] = ws[1]
        BY <3>1, <3>3 DEF Flattened
      <4>2. 1 .. 1 = {1}
        OBVIOUS
      <4>3. E(1) = Elements(ws[1])
        BY <4>2
      <4> QED
        BY <3>2, <3>3, <4>1, <4>3
    <3>4. CASE n # 0
      <4>1. n \in 1 .. Len(ws) /\ (n + 1) - 1 = n /\ n + 1 # 1
        BY <3>4
      <4>2. f[n + 1] = f[n] \o ws[n + 1]
        BY <3>1, <4>1 DEF Flattened
      <4>3. f[n] \in Seq(S) /\ Elements(f[n]) = E(n)
        BY <2>3, <4>1
      <4>4. Elements(f[n] \o ws[n + 1]) = Elements(f[n]) \union Elements(ws[n + 1])
        <5> DEFINE s == f[n]
                   t == ws[n + 1]
        <5>1. s \in Seq(S) /\ t \in Seq(S)
          BY <3>2, <4>3
        <5> HIDE DEF s, t
        <5>2. /\ Len(s \o t) = Len(s) + Len(t)
              /\ \A i \in 1 .. Len(s) : (s \o t)[i] = s[i] /\ i \in 1 .. Len(s \o t)
              /\ \A i \in 1 .. Len(t) : (s \o t)[Len(s) + i] = t[i] /\ Len(s) + i \in 1 .. Len(s \o t)
              /\ \A i \in 1 .. Len(s \o t) : i \in 1 .. Len(s) \/ i - Len(s) \in 1 .. Len(t)
              /\ Len(s) \in Nat
          BY <5>1
        <5>3. \A i \in 1 .. Len(s \o t) :
                (s \o t)[i] \in Elements(s) \union Elements(t)
          <6> SUFFICES ASSUME NEW i \in 1 .. Len(s \o t), i \notin 1 .. Len(s)
                       PROVE  (s \o t)[i] \in Elements(t)
            BY <5>2 DEF Elements
          <6>1. i - Len(s) \in 1 .. Len(t) /\ Len(s) + (i - Len(s)) = i
            BY <5>2
          <6>2. (s \o t)[i] = t[i - Len(s)]
            BY <5>2, <6>1
          <6> QED
            BY <6>1, <6>2 DEF Elements
        <5>4. Elements(s) \subseteq Elements(s \o t)
          BY <5>2 DEF Elements
        <5>5. Elements(t) \subseteq Elements(s \o t)
          BY <5>2 DEF Elements
        <5>6. Elements(s \o t) \subseteq Elements(s) \union Elements(t)
          BY <5>3 DEF Elements
        <5> QED
          BY <5>4, <5>5, <5>6 DEF s, t
      <4>5. 1 .. n + 1 = 1 .. n \union {n + 1}
        OBVIOUS
      <4>6. E(n + 1) = E(n) \union Elements(ws[n + 1])
        BY <4>5
      <4> QED
        BY <3>2, <4>2, <4>3, <4>4, <4>6
    <3> QED
      BY <3>3, <3>4
  <2> HIDE DEF T
  <2>4. Nat \subseteq T
    BY <2>2, <2>3, Induction
  <2>5. Len(ws) \in T /\ Len(ws) \in 1 .. Len(ws)
    BY <1>2, <2>4
  <2> QED
    BY <2>1, <2>5 DEF T
<1> QED
  BY <1>1, <1>2

\* What ToParsableArgs prints of an option when it is one argument of two pieces.
Pair(i) == <<Option(i).Name, field[Option(i).Name]>>

\* When text carries what is printed, the arguments are those of the options printed.
LEMMA PrintedFacts ==
  ASSUME \A i \in DOMAIN Declared : Shown(i) => Carried(Option(i))
  PROVE  LET argv == ToParsableArgs(field) IN
         /\ Len(argv) \in Nat /\ DOMAIN argv = 1 .. Len(argv)
         /\ \A j \in 1 .. Len(argv) : \E i \in DOMAIN Declared : Shown(i) /\ argv[j] = Pair(i)
         /\ \A i \in DOMAIN Declared : Shown(i) => \E j \in 1 .. Len(argv) : argv[j] = Pair(i)
<1> DEFINE S == {Pair(i) : i \in DOMAIN Declared}
           ws == [i \in DOMAIN Declared |->
                    IF Option(i).IsRequired \/ ~HasDefaultValue(Option(i), field)
                      THEN AppendParsableArg(Option(i), field) ELSE <<>>]
           argv == ToParsableArgs(field)
<1>1. argv = FlattenSeq(ws)
  BY DEF ToParsableArgs
<1>2. \A i \in DOMAIN Declared :
        (Shown(i) => ws[i] = <<Pair(i)>>) /\ (~Shown(i) => ws[i] = <<>>)
  BY DEF Carried, AppendParsableArg, Shown, Pair
<1>3. DOMAIN Declared = 1 .. Len(Declared) /\ Len(Declared) \in Nat
  BY OptionsAssumption
<1>4. \A i \in DOMAIN Declared : Pair(i) \in S
  OBVIOUS
<1>5. DOMAIN ws = DOMAIN Declared
  OBVIOUS
<1>6. ws = [i \in 1 .. Len(Declared) |-> ws[i]]
  BY <1>3
<1> HIDE DEF ws, S, argv
<1>7. \A x \in S : <<x>> \in Seq(S) /\ Len(<<x>>) = 1 /\ <<x>>[1] = x
  OBVIOUS
<1>8. \A i \in 1 .. Len(Declared) : ws[i] \in Seq(S)
  <2> SUFFICES ASSUME NEW i \in DOMAIN Declared
               PROVE  ws[i] \in Seq(S)
    BY <1>3
  <2>1. CASE Shown(i)
    BY <1>2, <1>4, <1>7, <2>1
  <2>2. CASE ~Shown(i)
    <3>1. ws[i] = <<>> /\ <<>> \in Seq(S)
      BY <1>2, <2>2
    <3> QED
      BY <3>1
  <2> QED
    BY <2>1, <2>2
<1>9. ws \in Seq(Seq(S)) /\ Len(ws) = Len(Declared)
  BY <1>3, <1>6, <1>8
<1>10. /\ argv \in Seq(S)
      /\ Elements(argv) = UNION {Elements(ws[i]) : i \in 1 .. Len(ws)}
  BY <1>1, <1>9, FlattenElements
<1>11. \A i \in DOMAIN Declared : Elements(ws[i]) = IF Shown(i) THEN {Pair(i)} ELSE {}
  <2> SUFFICES ASSUME NEW i \in DOMAIN Declared
               PROVE  Elements(ws[i]) = IF Shown(i) THEN {Pair(i)} ELSE {}
    OBVIOUS
  <2>1. 1 .. 1 = {1} /\ 1 .. 0 = {}
    OBVIOUS
  <2>2. CASE Shown(i)
    <3>1. Len(ws[i]) = 1 /\ ws[i][1] = Pair(i)
      BY <1>2, <1>4, <1>7, <2>2
    <3> QED
      BY <2>1, <2>2, <3>1 DEF Elements
  <2>3. CASE ~Shown(i)
    <3>1. Len(ws[i]) = 0
      BY <1>2, <2>3
    <3> QED
      BY <2>1, <2>3, <3>1 DEF Elements
  <2> QED
    BY <2>2, <2>3
<1>12. ASSUME NEW j \in 1 .. Len(argv)
       PROVE  \E i \in DOMAIN Declared : Shown(i) /\ argv[j] = Pair(i)
  <2>1. argv[j] \in Elements(argv)
    BY DEF Elements
  <2>2. PICK i \in DOMAIN Declared : argv[j] \in Elements(ws[i])
    BY <1>3, <1>9, <1>10, <2>1
  <2> QED
    BY <1>11, <2>2
<1>13. ASSUME NEW i \in DOMAIN Declared, Shown(i)
       PROVE  \E j \in 1 .. Len(argv) : argv[j] = Pair(i)
  <2>1. Pair(i) \in Elements(ws[i])
    BY <1>11, <1>13
  <2>2. Pair(i) \in Elements(argv)
    BY <1>3, <1>9, <1>10, <2>1
  <2> QED
    BY <2>2 DEF Elements
<1> QED
  BY <1>10, <1>12, <1>13 DEF argv

\* An argument printed is read as the option's name and value.
LEMMA PairFacts ==
  ASSUME IInv, NEW i \in DOMAIN Declared, Carried(Option(i))
  PROVE  /\ Param(Pair(i)).name = Option(i).Name
         /\ Param(Pair(i)).value = field[Option(i).Name]
         /\ ~Overruns(Pair(i))
         /\ Accepted(Pair(i))
         /\ Parse(Option(i).T, field[Option(i).Name], Empty).value = field[Option(i).Name]
<1> DEFINE o == Option(i)
           v == field[o.Name]
<1>1. o \in OptionWrapper /\ o.Name \in Names /\ Named(o.Name) = o
  BY NamedOption
<1>2. o.Name # Empty /\ v # Empty /\ Lower(o.Name) = o.Name
  BY <1>1, OptionsAssumption DEF OptionWrapper, Carried
<1>3. Split(Pair(i)) = Pair(i)
  BY <1>2, SplitPair DEF Pair
<1>4. Pair(i)[1] = o.Name /\ Pair(i)[2] = v /\ Len(Pair(i)) = 2
  BY DEF Pair
<1>5. Param(Pair(i)).name = o.Name /\ Param(Pair(i)).value = v
  BY <1>2, <1>3, <1>4 DEF Param
<1>6. Admissible(o, v)
  BY DEF Carried
<1>9. ~Overruns(Pair(i))
  BY <1>3, <1>4 DEF Overruns
<1>7. Accepted(Pair(i))
  BY <1>1, <1>4, <1>5, <1>6 DEF Accepted, Good
<1>8. ValueOf(o.T, v) /\ o.T \in Types /\ Parse(o.T, v, Empty).ok
  BY <1>1, <1>6 DEF IInv, FieldsInv, OptionWrapper, Admissible
<1> QED
  BY <1>5, <1>7, <1>8, <1>9, ParseItself

\* What ToParsableArgs prints, parsed into a new collection, gives every field its
\* value again whenever text carries the values printed: whatever the options are
\* and whatever calls and assignments came before.
THEOREM ParsableArgsRoundTrip == Spec => []RoundTrip
<1>1. IInv => RoundTrip
  <2> DEFINE argv == ToParsableArgs(field)
             again == ParseArgs(Fresh, argv)
  <2> SUFFICES ASSUME IInv, \A i \in DOMAIN Declared : Shown(i) => Carried(Option(i))
               PROVE  /\ \A j \in DOMAIN argv : ~Overruns(argv[j])
                      /\ again.ok
                      /\ again.field = field
    BY DEF RoundTrip, ReadBack
  <2>1. \A i \in DOMAIN Declared : Shown(i) => Carried(Option(i))
    OBVIOUS
  <2>2. /\ Len(argv) \in Nat /\ DOMAIN argv = 1 .. Len(argv)
        /\ \A j \in 1 .. Len(argv) : \E i \in DOMAIN Declared : Shown(i) /\ argv[j] = Pair(i)
        /\ \A i \in DOMAIN Declared : Shown(i) => \E j \in 1 .. Len(argv) : argv[j] = Pair(i)
    BY <2>1, PrintedFacts
  <2>3. /\ Collection(Fresh) /\ Fresh.ok /\ Fresh.Populated = {}
        /\ \A n \in Names : Fresh.field[n] = Default(Named(n))
    BY DEF Fresh, Start, Collection
  <2> HIDE DEF argv
  <2>4. \A j \in 1 .. Len(argv) : \E i \in DOMAIN Declared :
          /\ Shown(i) /\ argv[j] = Pair(i) /\ Accepted(argv[j]) /\ ~Overruns(argv[j])
          /\ Param(argv[j]).name = Option(i).Name
          /\ Param(argv[j]).value = field[Option(i).Name]
          /\ Parse(Option(i).T, field[Option(i).Name], Empty).value = field[Option(i).Name]
    BY <2>1, <2>2, PairFacts
  <2>5. Complete(Fresh.Populated, argv)
    <3> SUFFICES ASSUME NEW n \in Names, Named(n).IsRequired
                 PROVE  \E j \in 1 .. Len(argv) : Param(argv[j]).name = n
      BY DEF Complete
    <3>1. PICK i \in DOMAIN Declared : n = Option(i).Name
      BY DEF Names
    <3>2. Shown(i)
      BY <3>1, NamedOption DEF Shown
    <3>3. PICK j \in 1 .. Len(argv) : argv[j] = Pair(i)
      BY <2>2, <3>2
    <3> QED
      BY <2>1, <3>1, <3>2, <3>3, PairFacts
  <2>6. /\ Collection(again)
        /\ again.ok <=> /\ \A j \in 1 .. Len(argv) : Accepted(argv[j])
                        /\ Complete(Fresh.Populated, argv)
        /\ again.ok =>
             /\ \A n \in Names :
                  (\A j \in 1 .. Len(argv) : Param(argv[j]).name # n) =>
                    again.field[n] = Fresh.field[n]
             /\ \A j \in 1 .. Len(argv) :
                  (\A k \in 1 .. Len(argv) : k > j => Param(argv[k]).name # Param(argv[j]).name)
                  => again.field[Param(argv[j]).name] =
                       Parse(Named(Param(argv[j]).name).T, Param(argv[j]).value, Empty).value
    <3>1. Len(argv) \in Nat /\ Collection(Fresh) /\ Fresh.ok
      BY <2>2, <2>3
    <3> QED
      BY <3>1, ArgsFacts
  <2> HIDE DEF again
  <2>7. again.ok
    BY <2>4, <2>5, <2>6
  <2>8. ASSUME NEW n \in Names
        PROVE  again.field[n] = field[n]
    <3> DEFINE Q == {j \in 1 .. Len(argv) : Param(argv[j]).name = n}
    <3>1. CASE Q = {}
      <4>1. again.field[n] = Default(Named(n))
        BY <2>3, <2>6, <2>7, <3>1
      <4>2. PICK i \in DOMAIN Declared : n = Option(i).Name
        BY DEF Names
      <4>3. Named(n) = Option(i)
        BY <4>2, NamedOption
      <4>4. ~Shown(i)
        BY <2>1, <2>2, <3>1, <4>2, PairFacts
      <4> QED
        BY <4>1, <4>2, <4>3, <4>4 DEF Shown, HasDefaultValue
    <3>2. CASE Q # {}
      <4>1. PICK j \in Q : \A k \in Q : k <= j
        BY <2>2, <3>2, LastOne
      <4>2. PICK i \in DOMAIN Declared :
              /\ Param(argv[j]).name = Option(i).Name
              /\ Param(argv[j]).value = field[Option(i).Name]
              /\ Parse(Option(i).T, field[Option(i).Name], Empty).value = field[Option(i).Name]
        BY <2>4, <4>1
      <4>3. n = Option(i).Name /\ Named(n) = Option(i)
        BY <4>1, <4>2, NamedOption
      <4>4. \A k \in 1 .. Len(argv) : k > j => Param(argv[k]).name # Param(argv[j]).name
        BY <2>2, <4>1
      <4> QED
        BY <2>6, <2>7, <4>1, <4>2, <4>3, <4>4
    <3> QED
      BY <3>1, <3>2
  <2>9. again.field = [n \in Names |-> again.field[n]] /\ field = [n \in Names |-> field[n]]
    BY <2>6 DEF Collection, IInv
  <2> QED
    BY <2>2, <2>4, <2>7, <2>8, <2>9
<1> QED
  BY <1>1, Invariance, PTL
================================================================================
