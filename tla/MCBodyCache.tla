----------------------------- MODULE MCBodyCache -----------------------------
(***************************************************************************)
(* A build for BodyCache: a dependency and its build script, a library and *)
(* an application that are both under analysis, and a crate none of them   *)
(* uses.  From its first version to its second, a crate gives up the body  *)
(* of one function and gains another.                                      *)
(***************************************************************************)
EXTENDS BodyCache

Chain == [dep |-> {}, mid |-> {"dep"}, libmain |-> {"dep", "mid"}]
Fork == [script |-> {}, dep |-> {}, util |-> {}, app |-> {"dep", "util"}]
Pair == [libc |-> {}, app |-> {"libc"}]

Changing == <<<<"f", "g">>, <<"g">>>>
ChainBodies == [dep |-> Changing, mid |-> <<<<"f">>, <<"g">>>>, libmain |-> <<<<"f">>, <<"f">>>>]
ForkBodies == [c \in DOMAIN Fork |-> IF c = "dep" THEN Changing ELSE <<<<"f">>, <<"g">>>>]
PairBodies == [c \in DOMAIN Pair |-> Changing]

=============================================================================
