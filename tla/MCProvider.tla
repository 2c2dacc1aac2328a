------------------------------ MODULE MCProvider ------------------------------
(***************************************************************************)
(* Two members, two calls, and workloads that stress one part each.      *)
(***************************************************************************)
EXTENDS Provider

MCMembers == <<"a", "b">>
MCModels == {"x", "y"}

Lists(x, y) == [members |-> [m \in MCModels |-> IF m = "x" THEN x ELSE y], alike |-> TRUE]
MCListings == {Lists({"a", "b"}, {"a", "b"}), Lists({"a", "b"}, {"a"}), Lists({"a"}, {"b"})}

MCRouteOf == [a \in {"a", "b"} |-> "p"]
Credential(n, type, expires) == [type |-> type, provider |-> "p", grant |-> n, token |-> n, expires |-> expires]
Keys   == [a \in {"a", "b"} |-> Credential(IF a = "a" THEN 1 ELSE 2, "api_key", 0)]
Tokens == [a \in {"a", "b"} |-> IF a = "a" THEN Credential(1, "oauth", 1) ELSE Credential(2, "oauth", 2)]
Single == [a \in {"a", "b"} |-> IF a = "a" THEN Credential(1, "oauth", 1) ELSE NoCredential]

Load(begin, asks, calls, polls, commands, moments) ==
  [store |-> begin, asks |-> asks, calls |-> calls, polls |-> polls, commands |-> commands, moments |-> moments]

\* Pooled calls while catalogues come and go; direct calls while accounts
\* change; pooled calls of accounts that change.
MCWorkloads == {Load(Keys, {"x", "y"}, 2, 1, 0, 1), Load(Single, {"a", "b"}, 2, 0, 1, 1), Load(Tokens, {"x"}, 1, 0, 1, 1)}
Symmetric == Permutations(Requests)
==============================================================================
