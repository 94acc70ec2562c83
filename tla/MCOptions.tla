-------------------------------- MODULE MCOptions --------------------------------
(***************************************************************************)
(* The options of the requests in Options.test.cpp in one collection, with *)
(* a string beside them.                                                   *)
(***************************************************************************)
EXTENDS Options, TLC

Plain(name, T, required) ==
  [Name |-> name, T |-> T, IsRequired |-> required,
   limited |-> FALSE, valid |-> {}, checked |-> FALSE, validator |-> {}]

MCDeclared ==
  << Plain("somebool", "bool", TRUE),
     [Plain("examplefloat", "float", FALSE) EXCEPT !.checked = TRUE, !.validator = {"0", "0.5", "0.123457", "0.1234567"}],
     [Plain("limitedchar", "char", FALSE) EXCEPT !.limited = TRUE, !.valid = {"a", "B"}],
     Plain("label", "string", TRUE) >>

MCToLower == [SomeBool |-> "somebool", exampleFloat |-> "examplefloat",
              B |-> "b", True |-> "true"]

MCNumber ==
  ("0.5" :> [value |-> "0.5", all |-> TRUE]) @@ ("1.5" :> [value |-> "1.5", all |-> TRUE]) @@
  ("0.5x" :> [value |-> "0.5", all |-> FALSE]) @@ ("0" :> [value |-> "0", all |-> TRUE]) @@
  ("0.123457" :> [value |-> "0.123457", all |-> TRUE])

MCPrinted ==
  ("0.1234567"    :> << <<"0.123457">> >>) @@
  ("x=y"          :> << <<"x", "y">> >>) @@
  ("="            :> << <<"", "">> >>) @@
  ("a b"          :> << <<"a">>, <<"b">> >>) @@
  ("a somebool=1" :> << <<"a">>, <<"somebool", "1">> >>)

MCArguments ==
  { <<"SomeBool", "true">>, <<"somebool", "True">>, <<"SomeBool">>,
    <<"somebool", "">>, <<"", "somebool", "t">>,
    <<"exampleFloat", "0.5">>, <<"examplefloat", "1.5">>, <<"examplefloat", "0.5x">>,
    <<"limitedchar", "a">>, <<"limitedchar", "B">>, <<"limitedchar", "b">>,
    <<"label", "a", "b">>, <<"other", "a">> }

MCValues ==
  [bool |-> {"0"}, float |-> {"1.5", "0.1234567"}, char |-> {"B"},
   string |-> {"", "x=y", "=", "a b", "a somebool=1"}]
================================================================================
