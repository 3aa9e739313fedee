------------------------------ MODULE Resolver ------------------------------
(***************************************************************************)
(* The installation preview of the marketplace                             *)
(* (marketplace_experience_service.py, preview_installation) and the       *)
(* resolver it asks for a plan (marketplace_resolver.py).  A manifest is   *)
(* the sequence of agents its depends_on names; the version constraint     *)
(* after a name is cut off and never compared, and a name with a           *)
(* constraint the resolver does not cut ("<", ">") is one no package has.  *)
(***************************************************************************)
EXTENDS Naturals, Sequences, FiniteSets, SequencesExt, Relation

CONSTANTS
  Agent,                    \* names of agents
  Absent,
  MaxDeps                   \* bound: entries of depends_on

VARIABLES
  manifests,                \* what the catalogue offers under each name
  plan                      \* the InstallationPlan of the last preview

resolverVars == <<manifests, plan>>

Deps(a) == IF manifests[a] = Absent THEN <<>> ELSE manifests[a]

-----------------------------------------------------------------------------
(* build_dependency_graph: the agents a search from the root visits.       *)
RECURSIVE Visited(_, _)
Visited(a, visited) ==
  IF a \in visited
    THEN visited
    ELSE FoldLeft(LAMBDA seen, dep : Visited(dep, seen), visited \cup {a}, Deps(a))

(* detect_cycles: a neighbour on the path closes a cycle, one finished     *)
(* before does not.                                                        *)
ClosesCycle(n, search) == n \in Range(search.path)

CycleTo(n, path) ==
  SubSeq(path, SelectInSeq(path, LAMBDA x : x = n), Len(path)) \o <<n>>

\* mutant
FinishOnPath(a, search) == [search EXCEPT !.finished = @ \cup {a}]

Finish(a, search) ==
  [search EXCEPT !.path = Front(@), !.finished = @ \cup {a}]

RECURSIVE Search(_, _)
Search(a, search) ==
  LET step(s, n) ==
        IF ClosesCycle(n, s) THEN [s EXCEPT !.cycles = @ \cup {CycleTo(n, s.path)}]
        ELSE IF n \in s.finished THEN s
        ELSE Search(n, s)
  IN  Finish(a, FoldLeft(step, [search EXCEPT !.path = Append(@, a)], Deps(a)))

Unsearched == [path |-> <<>>, finished |-> {}, cycles |-> {}]

(* The nodes are a set: they are searched in any order.                    *)
Cycles(nodes) ==
  FoldLeft(LAMBDA s, a : IF a \in s.finished THEN s ELSE Search(a, s),
           Unsearched, nodes).cycles

(* resolve_versions: only the lack of a manifest is a failure.             *)
Missing(nodes) == {a \in nodes : manifests[a] = Absent}

(* topo_sort: an agent follows what it depends on.                         *)
RECURSIVE Sorted(_, _)
Sorted(a, sort) ==
  IF a \in sort.visited
    THEN sort
    ELSE LET after == FoldLeft(LAMBDA s, dep : Sorted(dep, s),
                               [sort EXCEPT !.visited = @ \cup {a}], Deps(a))
         IN  [after EXCEPT !.order = Append(@, a)]

(* generate_installation_plan, with the nodes searched in the order given. *)
Plan(root, nodes) ==
  LET cycles == Cycles(nodes)
      missing == Missing(Range(nodes))
  IN  [root |-> root,
       executable |-> cycles = {} /\ missing = {},
       order |-> Sorted(root, [visited |-> {}, order |-> <<>>]).order,
       cycles |-> cycles,
       missing |-> missing]

-----------------------------------------------------------------------------
(* Any packages may have been uploaded and published.                      *)
ResolverInit ==
  /\ manifests \in [Agent -> BoundedSeq(Agent, MaxDeps) \cup {Absent}]
  /\ plan = Absent

(* preview_installation of a package: its own manifest is among those the  *)
(* resolver gets, published or not.                                        *)
Preview(root) ==
  /\ plan = Absent
  /\ manifests[root] # Absent
  /\ \E nodes \in SetToSeqs(Visited(root, {})) : plan' = Plan(root, nodes)
  /\ UNCHANGED manifests

ResolverNext == \E root \in Agent : Preview(root)

-----------------------------------------------------------------------------
(* What the plans must be, told without a search: who needs whom, directly *)
(* or through others.                                                      *)
Names == [a, b \in Agent |-> b \in Range(Deps(a))]
Needs == TransitiveClosure(Names, Agent)

(* A plan that may be executed installs every agent the root needs, each   *)
(* of them once, with a manifest and after everything it names, and no     *)
(* circle among them was missed, wherever the search began.  A reason      *)
(* against a plan is a real one: a cycle leads from an agent back to it,   *)
(* each naming the next, and what is missing is needed and has no manifest *)
(* (marketplace_resolver.py, generate_installation_plan).  Versions are    *)
(* not compared, so the property claims nothing of them.                   *)
PlansInstall ==
  plan # Absent =>
    LET needed == {plan.root} \cup {b \in Agent : Needs[plan.root, b]}
        Before(a, b) ==
          \E i, j \in DOMAIN plan.order :
             i < j /\ plan.order[i] = a /\ plan.order[j] = b
    IN  /\ plan.executable =>
             /\ \A a \in needed : manifests[a] # Absent /\ ~Needs[a, a]
             /\ Range(plan.order) = needed
             /\ IsInjective(plan.order)
             /\ \A a, b \in needed : Names[a, b] => Before(b, a)
        /\ \A c \in plan.cycles :
             /\ Len(c) > 1 /\ c[1] = Last(c)
             /\ \A i \in 1 .. Len(c) - 1 : Names[c[i], c[i + 1]]
        /\ plan.missing \subseteq {a \in needed : manifests[a] = Absent}
=============================================================================
