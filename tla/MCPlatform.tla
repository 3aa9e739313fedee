---------------------------- MODULE MCPlatform ----------------------------
(* The job platform with its event bus, the governance of decisions and the *)
(* plans of the marketplace, on small instances. They share no state: a     *)
(* behaviour is one of the three.                                           *)
EXTENDS JobPlatform, Governance, Resolver, TLC

VARIABLE part               \* the one that moves

vars == <<jobVars, governanceVars, resolverVars, part>>

Init ==
  /\ JobsInit
  /\ GovernanceInit
  /\ ResolverInit
  /\ part \in {"jobs", "governance", "marketplace"}
  /\ part # "marketplace" => manifests = [a \in Agent |-> Absent]

JobsStep ==
  part = "jobs" /\ JobsNext /\ UNCHANGED <<governanceVars, resolverVars, part>>

GovernanceStep ==
  /\ part = "governance"
  /\ GovernanceNext
  /\ UNCHANGED <<jobVars, resolverVars, part>>

ResolverStep ==
  /\ part = "marketplace"
  /\ ResolverNext
  /\ UNCHANGED <<jobVars, governanceVars, part>>

Spec == Init /\ [][JobsStep \/ GovernanceStep \/ ResolverStep]_vars

(* No behaviour has both sessions and clients in it: with two of each, the *)
(* ones are swapped when the others are.                                   *)
Swapped ==
  {f @@ g : <<f, g>> \in {fg \in Permutations(Session) \X Permutations(Client) :
                            (\A s \in Session : fg[1][s] = s)
                              <=> (\A c \in Client : fg[2][c] = c)}}

Symmetry == Permutations(Job) \cup Permutations(Subscription) \cup Swapped
=============================================================================
