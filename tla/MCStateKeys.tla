----------------------------- MODULE MCStateKeys ------------------------------
(* Instances of StateKeys and NamespaceKeys for TLC. *)
EXTENDS NamespaceKeys

Symbols ==
    Kinds \cup {Digits[i] : i \in 1 .. 10} \cup {"|", "a", ":", "UNSPECIFIED"}
        \cup Range(LabelOf)

(* The empty id and one with a separator in it, which validate_id refuses,  *)
(* and ids it accepts that hold a word of the keys, with "|" before or      *)
(* after it, so that two agents may have one key, or with the word of a     *)
(* label after it.                                                          *)
BarsAndLabels ==
    {<<>>, <<"conv", "|", "|", "conv">>,
     <<"conv">>, <<"|", "conv">>, <<"conv", "|">>, <<"conv", "PUBLIC">>}

(* Tenants one of which is the other and, behind ":", a level and a type.   *)
ColonTenants == {<<"a">>, <<"a", ":", "PUBLIC", ":", "0">>}

(* Agent types: empty, the word of a label, and one with ":" and both.      *)
Types == {<<>>, <<"0">>, <<"PUBLIC">>, <<"0", ":", "PUBLIC", ":", "0">>}

TwoDigits == {<<"0", "1">>, <<"1", "0">>}
==============================================================================
