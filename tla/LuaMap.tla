------------------------------- MODULE LuaMap -------------------------------
(***************************************************************************)
(* What a Lua table promises: a map from keys to values in which an        *)
(* assignment changes the one key, and nothing else changes anything.      *)
(***************************************************************************)
CONSTANTS Key, Value, Nil

VARIABLE content

Init == content = [k \in Key |-> Nil]

Assign(k, v) == content' = [content EXCEPT ![k] = v]

Next == \E k \in Key, v \in Value \cup {Nil} : Assign(k, v)

Spec == Init /\ [][Next]_content
=============================================================================
