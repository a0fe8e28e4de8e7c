---------------------------- MODULE MCTokenStore ----------------------------
EXTENDS TokenStore

T(b, l, tok, f, t, i) == [block |-> b, log |-> l, token |-> tok, from |-> f, to |-> t, id |-> i,
                          multi |-> tok = "multi"]

MCContractType == [a \in {"coin", "art", "multi"} |->
  IF a = "coin" THEN "ERC20" ELSE IF a = "art" THEN "ERC721" ELSE "ERC1155"]

(* A coin and an id move in every block; the id is burnt in the last one.  *)
(* Two ids of one contract move in one block; one of them is minted again. *)
MCChain == {T(1, 0, "coin", "zero", "a", 0), T(1, 1, "art", "zero", "a", 1),
            T(2, 0, "coin", "a", "b", 0),    T(2, 1, "art", "a", "b", 1),
            T(2, 2, "multi", "zero", "a", 1), T(2, 3, "multi", "zero", "a", 2),
            T(3, 0, "art", "b", "zero", 1),  T(3, 1, "multi", "a", "b", 1),
            T(3, 2, "multi", "zero", "b", 1)}
MCFrom == [m \in {"old", "new"} |-> IF m = "old" THEN 1 ELSE 2]
MCTo   == [m \in {"old", "new"} |-> 3]

MCSmallChain == {T(1, 0, "coin", "zero", "a", 0), T(2, 0, "coin", "a", "b", 0)}
MCSmallContractType == [a \in {"coin"} |-> "ERC20"]
MCOneFrom == [m \in {"old"} |-> 1]
MCOneTo   == [m \in {"old"} |-> 2]
=============================================================================
