---------------------------- MODULE MCNodeMemory ----------------------------
(***************************************************************************)
(* Four nodes; the second's template does not parse, the third's read a    *)
(* key the first may have written and share a source with it, the fourth's *)
(* is too long; there are more sources than the cache has room for.        *)
(***************************************************************************)
EXTENDS NodeMemory

MCSources == [n \in 0 .. Nodes |->
  CASE n = 0 -> <<"var", "system">>
    [] n = 1 -> <<"prompt", "system">>
    [] n = 2 -> <<"var", "broken">>
    [] n = 3 -> <<"system", "read">>
    [] OTHER -> <<"huge">>]

MCReads == [s \in {"var", "prompt", "system", "read", "broken", "huge"} |->
  IF s = "read" THEN {[node |-> 1, key |-> "k"]} ELSE {}]
=============================================================================
