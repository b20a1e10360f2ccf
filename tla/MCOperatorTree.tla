--------------------------- MODULE MCOperatorTree ----------------------------
(* Instances of OperatorTree for TLC: every operator tree of up to MaxNodes  *)
(* nodes, as the list of the kinds of its nodes in the order of construction *)
(* (left subtree, right subtree, node).                                      *)
EXTENDS OperatorTree, FiniteSets, FiniteSetsExt

CONSTANT MaxNodes

Arity(kind) == CASE kind = "Scan" -> 0
                 [] kind \in {"Filter", "Sort"} -> 1
                 [] OTHER -> 2

\* Trees that the kinds from position i to position n make.
Forest(kinds, i, n) == MapThenSumSet(LAMBDA k : 1 - Arity(kinds[k]), i .. n)

IsTree(kinds, n) ==
    /\ \A i \in 1 .. n : Forest(kinds, 1, i) >= 1
    /\ Forest(kinds, 1, n) = 1

\* First node of the subtree whose root is n.
FirstOf(kinds, n) == Max({i \in 1 .. n : Forest(kinds, i, n) = 1})

PlanOf(kinds, n) ==
    [size |-> n, kind |-> kinds,
     left |-> [k \in 1 .. n |-> CASE Arity(kinds[k]) = 0 -> 0
                                  [] Arity(kinds[k]) = 1 -> k - 1
                                  [] OTHER -> FirstOf(kinds, k - 1) - 1],
     right |-> [k \in 1 .. n |-> IF Arity(kinds[k]) = 2 THEN k - 1 ELSE 0]]

MCPlans ==
    UNION {{PlanOf(kinds, n) : kinds \in {ks \in [1 .. n -> Kinds] : IsTree(ks, n)}} :
               n \in 1 .. MaxNodes}
=============================================================================
