---------------------------- MODULE WorkflowGraph ----------------------------
(***************************************************************************)
(* The step graph of a Workflow (schema/workflow-asset.ts) and what the    *)
(* frontier computation of workflow/workflow-run.ts derives from it.       *)
(*                                                                         *)
(* Steps are numbered by their place in the author's list; step 1 is the   *)
(* entry.  A graph is a constant: a run keeps the one it was created with. *)
(***************************************************************************)
EXTENDS Integers, FiniteSets

CONSTANTS N,            \* how many steps the Workflow has
          Following,    \* [Step -> the step's `next`, or END]
          Parallel,     \* [Step -> the steps its `parallel` names]
          Arms,         \* [Step -> the targets of its `branches`; {} without]
          Policy,       \* [Step -> its failurePolicy]
          MaxAttempts   \* [Step -> its maxAttempts]

Step == 1..N
END == 0
Target == Step \union {END}

Policies == {"abort", "continue", "retry"}

Successors(s) == (({Following[s]} \union Arms[s]) \ {END}) \union Parallel[s]

\* transitiveDescendants: the target and everything reachable from it, the least
\* set of steps that has the target and all successors of its members.
Descendants ==
  [t \in Target |->
     {s \in Step : \A A \in SUBSET Step :
        t \in A \union {END} /\ (\A p \in A : Successors(p) \subseteq A) => s \in A}]

\* validateGraph: targets exist, no cycle, every step reachable from the entry,
\* and no branch step may be skipped over by `continue`.
GraphAssumption ==
  /\ N \in Nat \ {0}
  /\ Following \in [Step -> Target]
  /\ Parallel \in [Step -> SUBSET Step]
  /\ Arms \in [Step -> SUBSET Target]
  /\ Policy \in [Step -> Policies]
  /\ MaxAttempts \in [Step -> 1..8]
  /\ \A s \in Step : \A t \in Successors(s) : s \notin Descendants[t]
  /\ Step = Descendants[1]
  /\ \A s \in Step : Arms[s] # {} => Policy[s] # "continue"


\* computeMaxConcurrency: the longest `parallel` list, at least 1 and at most 8.
Width ==
  LET sizes == {1} \union {Cardinality(Parallel[s]) : s \in Step}
  IN IF \E n \in sizes : n >= 8 THEN 8
     ELSE CHOOSE w \in sizes : \A n \in sizes : n <= w

Predecessors == [t \in Step |-> {s \in Step : t \in Successors(s)}]

\* The steps a completed branch step b gives up by choosing one arm: what the
\* other arms reach and the chosen one does not, minus every step that some
\* predecessor outside this set, other than b, can still feed.  The code removes
\* such steps until nothing changes; what remains is the largest set closed
\* under predecessors.
Abandoned ==
  [b \in Step |-> [chosen \in Target |->
     LET candidates == (UNION {Descendants[t] : t \in Arms[b] \ {chosen}})
                         \ Descendants[chosen]
     IN UNION {A \in SUBSET candidates :
                 \A d \in A : Predecessors[d] \ {b} \subseteq A}]]

=============================================================================
