------------------------------ MODULE LuaValues ------------------------------
(***************************************************************************)
(* Lua values as far as ailua tells them apart, and the Erlang terms       *)
(* lua_to_erlang (c_src/ailua_coder.c) makes of them.                      *)
(***************************************************************************)
EXTENDS Integers, Sequences

CONSTANTS
    Value, \* the Lua values of the model
    Kind   \* Value -> Kinds

(* "map" is a table marked by to_erl_map, "obj" a table with a metatable    *)
(* that bears no mark, "list" a table without metatable, "other" what       *)
(* lua_to_erlang has no case for besides functions: coroutines, userdata.   *)
Kinds == {"nil", "bool", "num", "str", "list", "map", "obj", "func", "other"}

IsTable(v) == Kind[v] \in {"list", "map", "obj"}
HasMetatable(v) == Kind[v] \in {"map", "obj"}
Unsupported(v) == Kind[v] \in {"func", "other"}

\* lua_tostring succeeds on strings and numbers only, else it returns NULL.
HasText(v) == Kind[v] \in {"str", "num"}

\* The Erlang term made of v: as a map if the mark was found, else a table is
\* a list.
ErlTerm(v, markFound) ==
    [v |-> v, as |-> IF markFound THEN "map"
                     ELSE IF IsTable(v) THEN "list" ELSE "scalar"]

\* Each value converted by itself: a marked table reads as a map.
Exact(results) ==
    [i \in 1..Len(results) |-> ErlTerm(results[i], Kind[results[i]] = "map")]
=============================================================================
