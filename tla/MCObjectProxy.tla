----------------------------- MODULE MCObjectProxy -----------------------------
(***************************************************************************)
(* Three names: "pop" is a method of dict as well, and "aa" is inherited,  *)
(* and has two letters.                                                    *)
(***************************************************************************)
EXTENDS ObjectProxy

CONSTANT Inherited    \* a function of the prototype

MCPrototype == [k \in {"aa"} |-> Inherited]
MCLetters == [k \in Names |-> CASE k = "a" -> <<"a">>
                                [] k = "aa" -> <<"a", "a">>
                                [] k = "pop" -> <<"p", "o", "p">>]
================================================================================
