---------------------------- MODULE Governance ----------------------------
(* Decisions on actions of agents (governance/, governance_service.py):     *)
(* versioned policies of one organization, read in one step, and a cache of *)
(* decisions in memory, used in a later one. What a policy says and the     *)
(* verdict that follows are functions of its row, which stands for them.    *)
EXTENDS Integers, Sequences

CONSTANTS Client,            \* requests that ask for a decision or set a policy
          Action,            \* what the cache is keyed by
          CacheTTL,          \* ticks that a decision is cached for
          MaxDelay           \* ticks from a read of the policy to its use

CONSTANTS MaxClock, MaxPolicies   \* bounds

ASSUME TimesAssumption ==
  CacheTTL \in Nat \ {0} /\ MaxDelay \in Nat /\ MaxClock \in Nat

VARIABLES
  policy,      \* rows by their commits, the default pack first
  cache,       \* the decision cached for each action
  ask,         \* what each request has read
  decision,    \* the last decision given to each request
  clock

governanceVars == <<policy, cache, ask, decision, clock>>

NotYet == -1               \* no time at all

Policy == [version : Nat, until : Nat \cup {NotYet}]

NotAsking == [at |-> "idle"]

SettingPolicy == [at : {"publishing"}, version : Nat]

Asking == [at : {"asking"}, action : Action, row : Nat \ {0}, since : Nat]

PolicyRow == 1 .. Len(policy)

(* Of the rows with the greatest version get_policy returns any. *)
Latest ==
  {i \in PolicyRow : \A k \in PolicyRow : policy[k].version <= policy[i].version}

GovernanceInit ==
  /\ policy = <<[version |-> 0, until |-> NotYet]>>
  /\ cache = [a \in Action |-> [row |-> 0, expires |-> 0]]
  /\ ask = [c \in Client |-> NotAsking]
  /\ decision = [c \in Client |-> [row |-> 0, at |-> 0]]
  /\ clock = 0

(* PUT /policies: the next version is that of the row read plus one. *)
\* mutant
CountRows(i) == Len(policy)

NextVersion(i) == policy[i].version + 1

ReadVersion(c) ==
  /\ ask[c] = NotAsking
  /\ Len(policy) <= MaxPolicies
  /\ \E i \in Latest :
       ask' = [ask EXCEPT ![c] = [at |-> "publishing", version |-> NextVersion(i)]]
  /\ UNCHANGED <<policy, cache, decision, clock>>

(* A policy is in force until one with a greater version is. *)
Retired(v) ==
  [i \in PolicyRow |->
     IF policy[i].until = NotYet /\ policy[i].version < v
       THEN [policy[i] EXCEPT !.until = clock] ELSE policy[i]]

Published(v) ==
  [version |-> v,
   until |-> IF \E i \in PolicyRow : policy[i].version > v THEN clock ELSE NotYet]

PublishPolicy(c) ==
  /\ ask[c].at = "publishing"
  /\ policy' = Append(Retired(ask[c].version), Published(ask[c].version))
  /\ ask' = [ask EXCEPT ![c] = NotAsking]
  /\ UNCHANGED <<cache, decision, clock>>

(* evaluate_and_persist reads the policy first, even if it then finds a     *)
(* cached decision.                                                         *)
ReadPolicy(c, a) ==
  /\ ask[c] = NotAsking
  /\ \E i \in Latest :
       ask' = [ask EXCEPT ![c] = [at |-> "asking", action |-> a, row |-> i,
                                  since |-> clock]]
  /\ UNCHANGED <<policy, cache, decision, clock>>

Cached(a) == cache[a].row # 0 /\ clock < cache[a].expires

(* What the cache holds after a hit. *)
\* mutant
ExpiresLater(a) == [cache EXCEPT ![a].expires = clock + CacheTTL]

AfterHit(a) == cache

Decided(c, row) == decision' = [decision EXCEPT ![c] = [row |-> row, at |-> clock]]

(* The verdict of the engine, from the cache or from the row read. *)
Hit(c) ==
  /\ ask[c].at = "asking"
  /\ Cached(ask[c].action)
  /\ Decided(c, cache[ask[c].action].row)
  /\ cache' = AfterHit(ask[c].action)
  /\ ask' = [ask EXCEPT ![c] = NotAsking]
  /\ UNCHANGED <<policy, clock>>

Evaluate(c) ==
  /\ ask[c].at = "asking"
  /\ ~Cached(ask[c].action)
  /\ Decided(c, ask[c].row)
  /\ cache' = [cache EXCEPT ![ask[c].action] =
                 [row |-> ask[c].row, expires |-> clock + CacheTTL]]
  /\ ask' = [ask EXCEPT ![c] = NotAsking]
  /\ UNCHANGED <<policy, clock>>

(* A request that fails is rolled back; the cache keeps what it holds. *)
GiveUp(c) ==
  /\ ask[c] # NotAsking
  /\ ask' = [ask EXCEPT ![c] = NotAsking]
  /\ UNCHANGED <<policy, cache, decision, clock>>

(* The process starts again with an empty cache. *)
RestartServer ==
  /\ cache' = [a \in Action |-> [row |-> 0, expires |-> 0]]
  /\ ask' = [c \in Client |-> NotAsking]
  /\ UNCHANGED <<policy, decision, clock>>

(* Time passes; a request uses what it has read within MaxDelay. *)
Tick ==
  /\ clock < MaxClock
  /\ \A c \in Client : ask[c].at = "asking" => clock < ask[c].since + MaxDelay
  /\ clock' = clock + 1
  /\ UNCHANGED <<policy, cache, ask, decision>>

GovernanceNext ==
  \/ \E c \in Client :
       \/ ReadVersion(c)
       \/ PublishPolicy(c)
       \/ \E a \in Action : ReadPolicy(c, a)
       \/ Hit(c)
       \/ Evaluate(c)
       \/ GiveUp(c)
  \/ RestartServer
  \/ Tick

GovernanceSpec == GovernanceInit /\ [][GovernanceNext]_governanceVars

(***************************************************************************)
(* What holds.                                                             *)
(***************************************************************************)

(* Types. The versions of an organization are numbered from 1 on without a  *)
(* gap, those that overlapping owners have published twice included         *)
(* (router.py, update_governance_policy).                                   *)
GovernanceTypeOK ==
  /\ policy \in Seq(Policy)
  /\ \A i \in PolicyRow : \A v \in 0 .. policy[i].version :
       \E k \in PolicyRow : policy[k].version = v
  /\ cache \in [Action -> [row : Nat, expires : Nat]]
  /\ ask \in [Client -> {NotAsking} \cup SettingPolicy \cup Asking]
  /\ decision \in [Client -> [row : Nat, at : Nat]]
  /\ clock \in Nat
  /\ \A c \in Client : decision[c].row \in PolicyRow \cup {0}

(* A decision, cached or not, follows a policy that was in force less than  *)
(* the life of a cache entry and one delay ago, however requests and        *)
(* changes of the policy overlap (governance_engine.py, evaluate).          *)
DecisionsFresh ==
  \A c \in Client : decision[c].row # 0 =>
    LET until == policy[decision[c].row].until IN
      until # NotYet => decision[c].at < until + CacheTTL + MaxDelay
=============================================================================
