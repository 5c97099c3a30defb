--------------------------- MODULE MCAiluaEngine ---------------------------
(***************************************************************************)
(* Finite worlds for AiluaEngine.                                          *)
(***************************************************************************)
EXTENDS AiluaEngine

MCKey == {"t", "f", "m", ":f"}

\* One value of each kind the engine tells apart; "lib" is a module table
\* with a method m, "meta" a metatable is_erl_boxer left on the stack.
MCKind == [nil |-> "nil", num |-> "num", str |-> "str", fn |-> "func",
           lib |-> "list", map |-> "map", obj |-> "obj", meta |-> "list"]
MCValue == DOMAIN MCKind
MCField == [v \in MCValue |->
              [k \in MCKey |-> IF v = "lib" /\ k = "m" THEN "fn" ELSE "nil"]]

NoEffect == [k \in {} |-> "nil"]
MCEffects == {NoEffect, [t |-> "lib", f |-> "fn"], [t |-> "num"]}

NamePlain == {[table |-> "none", sep |-> "", key |-> "f"]}
NameInTable == {[table |-> "t", sep |-> ".", key |-> "m"],
                [table |-> "t", sep |-> ":", key |-> "m"],
                [table |-> "t", sep |-> ".", key |-> "f"]}
NameBareColon == {[table |-> "none", sep |-> ":", key |-> ":f"]}

\* Names of the forms the README documents, and names with a leading ':'.
DocumentedNames == NamePlain \cup NameInTable \cup {Unreadable}
AllNames == DocumentedNames \cup NameBareColon

MCPushed == [int |-> "num", proplist |-> "lib", tupleList |-> "refused",
             nilKeyMap |-> "raises"]
MCTerm == DOMAIN MCPushed
MCScratch == [int |-> 0, proplist |-> 1, tupleList |-> 1, nilKeyMap |-> 3]
MCArgLists == {<<>>, <<"int">>, <<"int", "tupleList">>, <<"nilKeyMap">>,
               <<"proplist", "int", "int">>, Improper}

ScalarResults == {<<>>, <<"str", "num">>}
TableResults == {<<"map">>, <<"num", "map">>, <<"map", "num">>,
                 <<"map", "str">>, <<"obj">>, <<"fn", "num">>, <<"fn">>}
AllResults == ScalarResults \cup TableResults
MCFileResults == {<<>>, <<"lib">>, <<"num", "fn">>}
MCErrors == {"str", "lib"}
=============================================================================
