---------------------------- MODULE RoutingView ----------------------------
(***************************************************************************)
(* What publication promises a caller, with no bundle, directory or stage: *)
(* the graph moves from version to version, each commit withdraws the view *)
(* routes are admitted to until a view of that version is published, and a *)
(* route reads one version, the one that was confirmed when it started.    *)
(***************************************************************************)
EXTENDS Naturals

CONSTANTS Routes, NoView, MaxGraph

VARIABLES
    graph,   \* version of the confirmed graph
    view,    \* the version new routes read, or NoView
    reads    \* the version each running route reads, or NoView

vars == <<graph, view, reads>>

Init ==
    /\ graph = 0
    /\ view = NoView
    /\ reads = [r \in Routes |-> NoView]

\* The routes of S return: on their own, or because the process died.
Returned(S) == reads' = [r \in Routes |-> IF r \in S THEN NoView ELSE reads[r]]

Commit ==
    /\ graph < MaxGraph
    /\ graph' = graph + 1
    /\ view' = NoView
    /\ UNCHANGED reads

Publish ==
    /\ view' = graph
    /\ \E S \in SUBSET Routes : Returned(S)
    /\ UNCHANGED graph

Withdraw ==
    /\ view' = NoView
    /\ \E S \in SUBSET Routes : Returned(S)
    /\ UNCHANGED graph

Start(r) ==
    /\ view = graph
    /\ reads[r] = NoView
    /\ reads' = [reads EXCEPT ![r] = graph]
    /\ UNCHANGED <<graph, view>>

Return(r) ==
    /\ Returned({r})
    /\ UNCHANGED <<graph, view>>

Next ==
    \/ Commit \/ Publish \/ Withdraw
    \/ \E r \in Routes : Start(r) \/ Return(r)

Spec == Init /\ [][Next]_vars
=============================================================================
