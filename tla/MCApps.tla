------------------------------- MODULE MCApps -------------------------------
(* An instance of Apps for TLC: a package and a text.                        *)
EXTENDS Apps

Radio == [name |-> <<"r", "a", "d", "i", "o">> \o Suffix,
          short |-> <<"R", "A", "D", "I", "O", "~", "1", ".", "P", "P", "A">>]
Read == [name |-> <<"r", "e", "a", "d", ".", "t", "x", "t">>,
         short |-> <<"R", "E", "A", "D", ".", "T", "X", "T">>]
Present == {Radio, Read}
=============================================================================
