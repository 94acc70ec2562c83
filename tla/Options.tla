---------------------------------- MODULE Options ----------------------------------
(***************************************************************************)
(* OptionCollection (Options.cpp, Options.h, ArgParse.h): a collection of  *)
(* declared options, the arguments parsed into their fields, and the text  *)
(* ToParsableArgs prints them back as.                                     *)
(*                                                                         *)
(* A text is a member of a small set.  An argument is the sequence of its  *)
(* pieces between the '=' signs, empty ones included: <<"a", "1">> is      *)
(* "a=1", <<"a", "">> is "a=", <<"a">> has no '=' at all.  A value of any  *)
(* type is named by the shortest text that stands for it; for a bool that  *)
(* is "1" or "0", which is also how a stream prints it.                    *)
(***************************************************************************)
EXTENDS Naturals, Sequences, SequencesExt

CONSTANTS Declared,   \* the options, in the order OPTION registers them
          ToLower,    \* StringUtils::ToLower, of the texts with capitals
          Number,     \* what from_chars reads at the front of a text
          Printed,    \* what is read of the values not printed in one whole piece
          Characters, \* the texts of one character
          Arguments,  \* the arguments the application is started with
          Values,     \* the values the application assigns to fields
          MaxArgs,    \* bound: arguments of one call
          MaxCalls    \* bound: calls of TryParseArgs

VARIABLES
  field,      \* BackingField of each option
  Populated,  \* the options with Populated set
  args,       \* the arguments of the last call
  result,     \* of the last call: "none", "true", "false", or "undefined"
  calls,      \* calls of TryParseArgs so far
  tainted     \* history: fields last written by a parse that then failed

vars == <<field, Populated, args, result, calls, tainted>>

Empty == ""  \* the empty text

Option(i) == Declared[i]
Names     == {Option(i).Name : i \in DOMAIN Declared}
Named(n)  == Option(CHOOSE i \in DOMAIN Declared : Option(i).Name = n)

Types == {"bool", "float", "char", "string"}

Lower(t) == IF t \in DOMAIN ToLower THEN ToLower[t] ELSE t

Default(o) ==
  CASE o.T = "bool"   -> "0"
    [] o.T = "float"  -> "0"
    [] o.T = "char"   -> "NUL"
    [] o.T = "string" -> Empty

\* An option: its Name, which the constructor makes lowercase, its type T,
\* IsRequired, the values of GetValidValuesFunc (limited) and those
\* ValueValidator accepts (checked).
OptionWrapper ==
  [Name : STRING \ {Empty}, T : Types, IsRequired : BOOLEAN, limited : BOOLEAN,
   valid : SUBSET STRING, checked : BOOLEAN, validator : SUBSET STRING]

\* The values a float is given: it starts with one, from_chars stores one, or
\* the application assigns one.
Floats == {"0"} \union {Number[t].value : t \in DOMAIN Number} \union Values["float"]

ASSUME OptionsAssumption ==
  /\ Declared \in Seq(OptionWrapper)
  /\ \A i, j \in DOMAIN Declared : Option(i).Name = Option(j).Name => i = j
  /\ \A i \in DOMAIN Declared : Lower(Option(i).Name) = Option(i).Name
  /\ \A arg \in Arguments : arg # <<>>
  /\ {MaxArgs, MaxCalls} \subseteq Nat

\* The text that names a value stands for that value.
ASSUME TextsAssumption ==
  /\ Values["bool"] \subseteq {"0", "1"}
  /\ \A v \in Floats : v \in DOMAIN Number => Number[v].value = v
  /\ \A t \in DOMAIN Number : Number[t].all \in BOOLEAN

--------------------------------------------------------------------------------
(* ArgParse::TryParse: does the text parse, and what is then in the field. *)

Outcome(ok, value) == [ok |-> ok, value |-> value]

ParseBool(t, old) ==
  IF t \in {"true", "1", "on", "t"} THEN Outcome(TRUE, "1")
  ELSE IF t \in {"false", "0", "off", "f"} THEN Outcome(TRUE, "0")
  ELSE Outcome(FALSE, old)

\* from_chars has stored the number it found before the rest is looked at.
ParseFloat(t, old) ==
  IF t \in DOMAIN Number THEN Outcome(Number[t].all, Number[t].value)
                         ELSE Outcome(FALSE, old)

ParseChar(t, old) ==
  IF t \in Characters THEN Outcome(TRUE, t) ELSE Outcome(FALSE, old)

ParseString(t) == Outcome(TRUE, t)

Parse(T, t, old) ==
  CASE T = "bool"   -> ParseBool(t, old)
    [] T = "float"  -> ParseFloat(t, old)
    [] T = "char"   -> ParseChar(t, old)
    [] T = "string" -> ParseString(t)

\* ValueValidator, if there is one.
Validates(o, value) == o.checked => value \in o.validator

\* Mutant: the verdict of the validator is not returned.
TryParseUnchecked(o, t, old) == Parse(o.T, t, old)

\* Option::TryParse: the field is written before the validator is asked.
TryParse(o, t, old) ==
  LET parsed == Parse(o.T, t, old)
  IN  Outcome(parsed.ok /\ Validates(o, parsed.value), parsed.value)

--------------------------------------------------------------------------------
(* OptionCollection::TryParseArgs.                                         *)

\* StringUtils::Split, which keeps no empty pieces.
Split(arg) ==
  LET kept[i \in 0 .. Len(arg)] ==
        IF i = 0 THEN <<>>
        ELSE IF arg[i] = Empty THEN kept[i - 1] ELSE Append(kept[i - 1], arg[i])
  IN  kept[Len(arg)]

\* ParseNamedArguments reads past the end of what Split returned.
Overruns(arg) == Len(arg) > 1 /\ Len(Split(arg)) < 2

Param(arg) == [name |-> Lower(Split(arg)[1]), value |-> Split(arg)[2]]

\* An argument without a '=' is passed over.
ParseNamedArguments(as) ==
  LET named[i \in 0 .. Len(as)] ==
        IF i = 0 THEN <<>>
        ELSE IF Len(as[i]) > 1 THEN Append(named[i - 1], Param(as[i])) ELSE named[i - 1]
  IN  named[Len(as)]

\* CheckValidValues: the valid values are made lowercase, the value is not.
CheckValidValues(o, value) ==
  o.limited => value \in {Lower(v) : v \in o.valid}

CheckRequiredValues(populated) ==
  \A i \in DOMAIN Declared : Option(i).IsRequired => Option(i).Name \in populated

\* A collection in the middle of TryParseArgs.
Start(f, populated, t) ==
  [field |-> f, Populated |-> populated, tainted |-> t, ok |-> TRUE]

\* Mutant: an option that does not parse is passed over.
ParseNextGoesOn(c, param) ==
  LET o == Named(param.name)
      r == TryParse(o, param.value, c.field[param.name])
  IN  IF param.name \notin Names \/ ~CheckValidValues(o, param.value) \/ ~r.ok
        THEN c
        ELSE [c EXCEPT !.field[param.name] = r.value, !.Populated = @ \union {param.name}]

\* The loop body of TryParseArgs, for one parameter.  Nothing is undone when it
\* returns false.
ParseNext(c, param) ==
  IF ~c.ok THEN c
  ELSE IF param.name \notin Names \/ ~CheckValidValues(Named(param.name), param.value)
    THEN [c EXCEPT !.ok = FALSE]
  ELSE LET r == TryParse(Named(param.name), param.value, c.field[param.name])
       IN  [field     |-> [c.field EXCEPT ![param.name] = r.value],
            Populated |-> IF r.ok THEN c.Populated \union {param.name} ELSE c.Populated,
            tainted   |-> IF r.ok THEN c.tainted \ {param.name}
                          ELSE IF r.value = c.field[param.name] THEN c.tainted
                          ELSE c.tainted \union {param.name},
            ok        |-> r.ok]

\* The loop.
ParseEach(c, params) ==
  LET after[i \in 0 .. Len(params)] ==
        IF i = 0 THEN c ELSE ParseNext(after[i - 1], params[i])
  IN  after[Len(params)]

\* TryParseArgs of arguments that do not overrun.
ParseArgs(c, as) ==
  LET params == ParseNamedArguments(as)
      parsed == ParseEach(c, params)
  IN  IF Len(params) # Len(as) THEN [c EXCEPT !.ok = FALSE]
      ELSE [parsed EXCEPT !.ok = @ /\ CheckRequiredValues(parsed.Populated)]

Fresh == Start([n \in Names |-> Default(Named(n))], {}, {})

--------------------------------------------------------------------------------
(* OptionCollection::ToParsableArgs, as the caller splits it at blanks.    *)

HasDefaultValue(o, f) == f[o.Name] = Default(o)

\* Option::AppendParsableArg prints the name, a '=' and the value, as it is.  A value
\* falls into several arguments at its blanks, each into several pieces at its '=',
\* and a stream does not print every number in full: Printed gives the arguments
\* that are read of such a value, the first of which follows the name.
AppendParsableArg(o, f) ==
  IF f[o.Name] \in DOMAIN Printed
    THEN LET read == Printed[f[o.Name]]
         IN  <<<<o.Name>> \o Head(read)>> \o Tail(read)
    ELSE <<<<o.Name, f[o.Name]>>>>

\* Mutant: an option with its default value is left out though it is required.
ToParsableArgsShort(f) ==
  FlattenSeq([i \in DOMAIN Declared |->
    IF ~HasDefaultValue(Option(i), f) THEN AppendParsableArg(Option(i), f) ELSE <<>>])

ToParsableArgs(f) ==
  FlattenSeq([i \in DOMAIN Declared |->
    IF Option(i).IsRequired \/ ~HasDefaultValue(Option(i), f)
      THEN AppendParsableArg(Option(i), f)
      ELSE <<>>])

--------------------------------------------------------------------------------
(* One collection, as an application uses it.                              *)

Init ==
  /\ field = Fresh.field
  /\ Populated = {}
  /\ args = <<>>
  /\ result = "none"
  /\ calls = 0
  /\ tainted = {}

\* A call that reads past the end of a split argument is undefined.
TryParseOverruns(as) ==
  /\ \E i \in DOMAIN as : Overruns(as[i])
  /\ result' = "undefined"
  /\ UNCHANGED <<field, Populated, tainted>>

TryParseDefined(as) ==
  LET c == ParseArgs(Start(field, Populated, tainted), as) IN
  /\ \A i \in DOMAIN as : ~Overruns(as[i])
  /\ field' = c.field
  /\ Populated' = c.Populated
  /\ tainted' = c.tainted
  /\ result' = IF c.ok THEN "true" ELSE "false"

TryParseArgs ==
  /\ result # "undefined"
  /\ calls < MaxCalls
  /\ calls' = calls + 1
  /\ \E n \in 0 .. MaxArgs : \E as \in [1 .. n -> Arguments] :
       /\ args' = as
       /\ TryParseOverruns(as) \/ TryParseDefined(as)

\* The fields are public members that the application also assigns to.
Assign(n, value) ==
  /\ result \in {"none", "true"}
  /\ field' = [field EXCEPT ![n] = value]
  /\ tainted' = tainted \union {n}
  /\ UNCHANGED <<Populated, args, result, calls>>

Next ==
  \/ TryParseArgs
  \/ \E n \in Names : \E value \in Values[Named(n).T] : Assign(n, value)

Spec == Init /\ [][Next]_vars
--------------------------------------------------------------------------------
(* What the collection promises.                                           *)

Admissible(o, t) ==
  /\ CheckValidValues(o, t)
  /\ Parse(o.T, t, Empty).ok
  /\ Validates(o, Parse(o.T, t, Empty).value)

\* The arguments of a call that name option n, and what the last of them says.
Naming(n, as) == {i \in DOMAIN as : Len(as[i]) > 1 /\ Param(as[i]).name = n}

Said(n, as) ==
  LET last == CHOOSE i \in Naming(n, as) : \A j \in Naming(n, as) : j <= i
  IN  Parse(Named(n).T, Param(as[last]).value, Empty).value

\* TryParseArgs returns true exactly if every argument has a '=', names a
\* declared option and gives it an admissible value, and each required option
\* is given one, in this call or an earlier one; then every field named holds
\* what the last argument for it says, and the others are as they were.
ParseMeetsReference ==
  [][calls' # calls /\ result' # "undefined" =>
       /\ result' = "true" <=>
            /\ \A i \in DOMAIN args' :
                 /\ Len(args'[i]) > 1
                 /\ Param(args'[i]).name \in Names
                 /\ Admissible(Named(Param(args'[i]).name), Param(args'[i]).value)
            /\ \A n \in Names : Named(n).IsRequired =>
                 n \in Populated \/ Naming(n, args') # {}
       /\ result' = "true" =>
            \A n \in Names :
              field'[n] = IF Naming(n, args') = {} THEN field[n] ELSE Said(n, args')]_vars

\* A value that text carries: admissible, not empty, with neither a blank nor a '='
\* in it, and printed in full.
Carried(o) ==
  /\ field[o.Name] \notin {Empty} \union DOMAIN Printed
  /\ Admissible(o, field[o.Name])

\* The options that ToParsableArgs prints.
Shown(i) == Option(i).IsRequired \/ ~HasDefaultValue(Option(i), field)

\* TryParseArgs of a new collection takes what is printed, without reading past the
\* end of any of it, and then has every field as it is here.
ReadBack ==
  LET printed == ToParsableArgs(field)
      again   == ParseArgs(Fresh, printed)
  IN  /\ \A j \in DOMAIN printed : ~Overruns(printed[j])
      /\ again.ok
      /\ again.field = field

\* What ToParsableArgs prints, parsed into a new collection, gives every field
\* its value again, whenever text carries the values of the options it prints.
RoundTrip == (\A i \in DOMAIN Declared : Shown(i) => Carried(Option(i))) => ReadBack

\* Otherwise it does not: one value printed that is empty, has a blank or a '=' in
\* it, is not printed in full or not admissible is enough for the call to fail, to
\* read past the end of an argument or to leave another value in the field; what is
\* printed of the other options never makes up for it (ParseNamedArguments).
LostUnlessCarried == (\E i \in DOMAIN Declared : Shown(i) /\ ~Carried(Option(i))) => ~ReadBack

\* Once a call has returned true, a field holds a value that its validator does
\* not accept only if that is its default, or if the application put it there, or if
\* a call that returned false did and nothing overwrote it (Option::TryParse).
InvalidOnlyByFailure ==
  result = "true" =>
    \A n \in Names :
      n \in tainted \/ HasDefaultValue(Named(n), field) \/ Validates(Named(n), field[n])

--------------------------------------------------------------------------------
(* The inductive invariant.                                                *)

\* The values a field of the type may have.
ValueOf(T, v) ==
  /\ T = "bool" => v \in {"0", "1"}
  /\ T = "float" => v \in Floats

\* Every field has a value of its type, and one its validator does not accept
\* only if it is the default or tainted.
FieldsInv(f, t) ==
  \A n \in Names :
    /\ ValueOf(Named(n).T, f[n])
    /\ n \in t \/ f[n] = Default(Named(n)) \/ Validates(Named(n), f[n])

\* Each field is there, with such a value.
IInv ==
  /\ field = [n \in Names |-> field[n]]
  /\ FieldsInv(field, tainted)
================================================================================
