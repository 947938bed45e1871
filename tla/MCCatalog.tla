----------------------------- MODULE MCCatalog -----------------------------
(* Small instances of Catalog for TLC. *)
EXTENDS Catalog, SequencesExt

node(n) == [kind |-> "node", name |-> n]
relation(n) == [kind |-> "relation", name |-> n]
edge(s, d, r) == [kind |-> "edge", source |-> s, destination |-> d, relation |-> r]
confirmed(i) == <<"confirmed", i>>
local(i) == <<"batch", i>>

\* Single candidates, a batch with local references (one of them forward), an
\* edge between confirmed records, one that mixes both, and refused batches.
SmallBatches ==
    {<<>>,
     <<node("a")>>,
     <<relation("b")>>,
     <<edge(local(2), local(2), local(3)), node("a"), relation("a")>>,
     <<edge(confirmed(1), confirmed(1), confirmed(1))>>,
     <<edge(local(2), confirmed(1), confirmed(1)), node("b")>>,
     <<edge(local(1), confirmed(1), confirmed(1))>>,
     <<node("a"), node("a"), node("a"), node("a")>>}

CandidateIds == 1 .. 5

SmallSelections ==
    {<<>>, <<1, 1>>} \cup {<<c>> : c \in CandidateIds}
        \cup UNION {SetToSeqs(S) : S \in {T \in SUBSET CandidateIds :
                                            Cardinality(T) \in 2 .. 3}}

SmallLastId == [candidate |-> 6, node |-> 4, relation |-> 3, edge |-> 3]
=============================================================================
