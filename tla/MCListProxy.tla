------------------------------ MODULE MCListProxy ------------------------------
(***************************************************************************)
(* Bounds for ListProxy: a number, None, and a container that holds        *)
(* another, empty one twice.                                               *)
(***************************************************************************)
EXTENDS ListProxy

CONSTANTS number, outer, inner

MCContents == (outer :> <<inner, inner>>) @@ (inner :> <<>>)
MCRank == (number :> 1) @@ (outer :> 2) @@ (inner :> 3) @@ (None :> 4)
MCEditCalls == {<<"pop", <<>>>>, <<"push", <<number>>>>, <<"reverse", <<>>>>}
==============================================================================
