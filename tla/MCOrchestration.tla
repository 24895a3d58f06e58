-------------------------- MODULE MCOrchestration --------------------------
\* Every graph of depends_on over three nodes, with an edge that may repeat one of
\* them, cycles included, without a budget and with one that two nodes exhaust; and a chain of three.
EXTENDS Orchestration, TLC

CONSTANTS a, b, c

MCWorkflows == [edges : SUBSET {<<a, b>>}, deps : [Nodes -> SUBSET Nodes], budget : {0, 3}]
MCChain == {[edges |-> {<<a, b>>}, deps |-> a :> {} @@ b :> {} @@ c :> {b},
             budget |-> 9]}
MCCost == a :> 1 @@ b :> 2 @@ c :> 1
=============================================================================
