-------------------------- MODULE GovernanceProofs --------------------------
(***************************************************************************)
(* Decisions and policies for any number of requests and actions, any life *)
(* of the cache and any delay, and however long the system runs.           *)
(***************************************************************************)
EXTENDS Governance, TLAPS

Tables ==
  /\ policy \in Seq(Policy)
  /\ cache \in [Action -> [row : Nat, expires : Nat]]
  /\ ask \in [Client -> {NotAsking} \cup SettingPolicy \cup Asking]
  /\ decision \in [Client -> [row : Nat, at : Nat]]
  /\ clock \in Nat

HasVersion(v) == \E k \in PolicyRow : policy[k].version = v

(* Versions have no gap, also once a row that is being made is there. *)
Numbered ==
  /\ \A i \in PolicyRow : \A v \in 0 .. policy[i].version : HasVersion(v)
  /\ \A c \in Client : ask[c].at = "publishing" =>
       ask[c].version - 1 \in Nat /\ HasVersion(ask[c].version - 1)

(* What get_policy returns is in force. *)
InForce == \A i \in Latest : policy[i].until = NotYet

(* Row i was in force at time t, or later. *)
InForceAt(i, t) ==
  /\ i \in PolicyRow
  /\ policy[i].until # NotYet => t <= policy[i].until

AsksFresh ==
  \A c \in Client : ask[c].at = "asking" =>
    /\ ask[c].since <= clock
    /\ clock <= ask[c].since + MaxDelay
    /\ InForceAt(ask[c].row, ask[c].since)

(* A decision found now in the cache is fresh whenever it expires. *)
CacheFresh ==
  \A a \in Action : cache[a].row # 0 =>
    /\ cache[a].expires <= clock + CacheTTL
    /\ InForceAt(cache[a].row, cache[a].expires - CacheTTL - MaxDelay)

Decisions ==
  \A c \in Client : decision[c].row # 0 =>
    /\ decision[c].at <= clock
    /\ InForceAt(decision[c].row, decision[c].at + 1 - CacheTTL - MaxDelay)

Fresh == AsksFresh /\ CacheFresh /\ Decisions

GInv == Tables /\ Numbered /\ InForce /\ Fresh

(***************************************************************************)
(* What a new row does to the others.                                      *)
(***************************************************************************)

LEMMA Rows ==
  ASSUME Tables
  PROVE  /\ Len(policy) \in Nat
         /\ \A i \in PolicyRow : policy[i] \in Policy
BY DEF Tables, PolicyRow

(* What a request holds depends on what it is doing. *)
LEMMA Kinds ==
  ASSUME Tables, NEW c \in Client
  PROVE  /\ ask[c].at = "publishing" => ask[c] \in SettingPolicy /\ ask[c].version \in Nat
         /\ ask[c].at = "asking" =>
              /\ ask[c] \in Asking
              /\ ask[c].action \in Action
              /\ ask[c].row \in Nat \ {0}
              /\ ask[c].since \in Nat
PROOF
<1>1. ask[c] \in {NotAsking} \cup SettingPolicy \cup Asking
  BY DEF Tables
<1>2. CASE ask[c] = NotAsking
  BY <1>2 DEF NotAsking
<1>3. CASE ask[c] \in SettingPolicy
  BY <1>3 DEF SettingPolicy
<1>4. CASE ask[c] \in Asking
  BY <1>4 DEF Asking
<1> QED
  BY <1>1, <1>2, <1>3, <1>4

(* A published row comes last; the others keep their versions, and end now  *)
(* or when they did.                                                        *)
LEMMA Publishes ==
  ASSUME Tables, NEW c \in Client, PublishPolicy(c)
  PROVE  /\ ask[c].version \in Nat
         /\ policy' \in Seq(Policy)
         /\ PolicyRow' = PolicyRow \cup {Len(policy) + 1}
         /\ policy'[Len(policy) + 1].version = ask[c].version
         /\ (\A i \in PolicyRow : policy[i].version <= ask[c].version) =>
              policy'[Len(policy) + 1].until = NotYet
         /\ \A i \in PolicyRow :
              /\ policy'[i].version = policy[i].version
              /\ policy'[i].until =
                   IF policy[i].until = NotYet /\ policy[i].version < ask[c].version
                     THEN clock ELSE policy[i].until
PROOF
<1> DEFINE v == ask[c].version
           n == Len(policy)
<1>0. n \in Nat /\ \A i \in PolicyRow : policy[i] \in Policy
  BY Rows
<1>1. v \in Nat
  BY Kinds DEF PublishPolicy
<1>2. clock \in Nat
  BY DEF Tables
<1>3. \A i \in PolicyRow : Retired(v)[i] \in Policy
  BY <1>0, <1>1, <1>2 DEF Retired, Policy
<1>4. Retired(v) \in Seq(Policy) /\ Len(Retired(v)) = n
  <2>1. Retired(v) \in [1 .. n -> Policy]
    BY <1>3 DEF Retired, PolicyRow
  <2> QED
    BY <2>1, <1>0
<1>5. Published(v) \in Policy
  BY <1>1, <1>2 DEF Published, Policy
<1>6. policy' = Append(Retired(v), Published(v))
  BY DEF PublishPolicy
<1>7. /\ policy' \in Seq(Policy)
      /\ Len(policy') = n + 1
      /\ policy'[n + 1] = Published(v)
      /\ \A i \in 1 .. n : policy'[i] = Retired(v)[i]
  BY <1>0, <1>4, <1>5, <1>6
<1>8. PolicyRow' = PolicyRow \cup {n + 1}
  BY <1>0, <1>7 DEF PolicyRow
<1>9. \A i \in PolicyRow :
        /\ policy'[i].version = policy[i].version
        /\ policy'[i].until =
             IF policy[i].until = NotYet /\ policy[i].version < v
               THEN clock ELSE policy[i].until
  <2> TAKE i \in PolicyRow
  <2>1. policy'[i] = IF policy[i].until = NotYet /\ policy[i].version < v
                       THEN [policy[i] EXCEPT !.until = clock] ELSE policy[i]
    BY <1>7 DEF Retired, PolicyRow
  <2>2. policy[i] \in Policy
    BY <1>0
  <2> QED
    BY <2>1, <2>2 DEF Policy
<1>10. policy'[n + 1].version = v
  BY <1>7 DEF Published
<1>11. ASSUME \A i \in PolicyRow : policy[i].version <= v
       PROVE  policy'[n + 1].until = NotYet
  <2>1. ~ \E i \in PolicyRow : policy[i].version > v
    BY <1>0, <1>1, <1>11 DEF Policy
  <2> QED
    BY <1>7, <2>1 DEF Published
<1> QED
  BY <1>1, <1>7, <1>8, <1>9, <1>10, <1>11

(* A row that was in force at a time that is not in the future stays one    *)
(* that was.                                                                *)
LEMMA StillInForce ==
  ASSUME Tables, NEW c \in Client, PublishPolicy(c),
         NEW i, NEW t \in Int, InForceAt(i, t), t <= clock
  PROVE  InForceAt(i, t)'
PROOF
<1>1. i \in PolicyRow /\ i \in PolicyRow'
  BY Publishes DEF InForceAt
<1>2. policy'[i].until = policy[i].until \/ policy'[i].until = clock
  BY <1>1, Publishes
<1> QED
  BY <1>1, <1>2 DEF InForceAt

(***************************************************************************)
(* The steps.                                                              *)
(***************************************************************************)

LEMMA InitHolds == GovernanceInit => GInv
PROOF
<1> SUFFICES ASSUME GovernanceInit PROVE GInv
  OBVIOUS
<1> USE DEF GovernanceInit
<1>1. policy[1] = [version |-> 0, until |-> NotYet] /\ Len(policy) = 1
  OBVIOUS
<1>2. PolicyRow = {1}
  BY <1>1 DEF PolicyRow
<1>3. Tables
  <2>1. [version |-> 0, until |-> NotYet] \in Policy
    BY DEF Policy
  <2>2. policy \in Seq(Policy)
    BY <2>1
  <2> QED
    BY <2>2 DEF Tables
<1>4. Numbered
  BY <1>1, <1>2 DEF Numbered, HasVersion, NotAsking
<1>5. InForce
  BY <1>1, <1>2 DEF InForce, Latest
<1>6. Fresh
  BY DEF Fresh, AsksFresh, CacheFresh, Decisions, NotAsking
<1> QED
  BY <1>3, <1>4, <1>5, <1>6 DEF GInv

LEMMA TablesKept ==
  ASSUME Tables, GovernanceNext
  PROVE  Tables'
PROOF
<1> USE TimesAssumption
<1>0. Len(policy) \in Nat /\ \A i \in PolicyRow : policy[i] \in Policy
  BY Rows
<1>1. ASSUME NEW c \in Client, ReadVersion(c) PROVE Tables'
  <2>1. PICK i \in Latest :
          ask' = [ask EXCEPT ![c] = [at |-> "publishing", version |-> NextVersion(i)]]
    BY <1>1 DEF ReadVersion
  <2>2. NextVersion(i) \in Nat
    BY <1>0 DEF NextVersion, Latest, Policy
  <2>3. [at |-> "publishing", version |-> NextVersion(i)] \in SettingPolicy
    BY <2>2 DEF SettingPolicy
  <2> QED
    BY <1>1, <2>1, <2>3 DEF ReadVersion, Tables
<1>2. ASSUME NEW c \in Client, PublishPolicy(c) PROVE Tables'
  <2>1. policy' \in Seq(Policy)
    BY <1>2, Publishes
  <2> QED
    BY <1>2, <2>1 DEF PublishPolicy, Tables
<1>3. ASSUME NEW c \in Client, NEW a \in Action, ReadPolicy(c, a) PROVE Tables'
  <2>1. PICK i \in Latest :
          ask' = [ask EXCEPT ![c] = [at |-> "asking", action |-> a, row |-> i,
                                     since |-> clock]]
    BY <1>3 DEF ReadPolicy
  <2>2. i \in Nat \ {0} /\ clock \in Nat
    BY <1>0 DEF Latest, PolicyRow, Tables
  <2>3. [at |-> "asking", action |-> a, row |-> i, since |-> clock] \in Asking
    BY <2>2 DEF Asking
  <2> QED
    BY <1>3, <2>1, <2>3 DEF ReadPolicy, Tables
<1>4. ASSUME NEW c \in Client, Hit(c) PROVE Tables'
  <2>1. ask[c].action \in Action
    BY <1>4, Kinds DEF Hit
  <2>2. cache[ask[c].action].row \in Nat
    BY <2>1 DEF Tables
  <2>3. decision' \in [Client -> [row : Nat, at : Nat]]
    BY <1>4, <2>2 DEF Hit, Decided, Tables
  <2> QED
    BY <1>4, <2>3 DEF Hit, AfterHit, Tables
<1>5. ASSUME NEW c \in Client, Evaluate(c) PROVE Tables'
  <2>1. ask[c].action \in Action /\ ask[c].row \in Nat
    BY <1>5, Kinds DEF Evaluate
  <2>2. decision' \in [Client -> [row : Nat, at : Nat]]
    BY <1>5, <2>1 DEF Evaluate, Decided, Tables
  <2>3. clock + CacheTTL \in Nat
    BY DEF Tables
  <2>4. cache' \in [Action -> [row : Nat, expires : Nat]]
    BY <1>5, <2>1, <2>3 DEF Evaluate, Tables
  <2> QED
    BY <1>5, <2>2, <2>4 DEF Evaluate, Tables
<1>6. ASSUME NEW c \in Client, GiveUp(c) PROVE Tables'
  BY <1>6 DEF GiveUp, Tables
<1>7. CASE RestartServer
  BY <1>7 DEF RestartServer, Tables
<1>8. CASE Tick
  BY <1>8 DEF Tick, Tables
<1> QED
  BY <1>1, <1>2, <1>3, <1>4, <1>5, <1>6, <1>7, <1>8 DEF GovernanceNext

(* The policies change by publications only. *)
LEMMA PoliciesKept ==
  ASSUME GovernanceNext
  PROVE  policy' = policy \/ \E c \in Client : PublishPolicy(c)
BY DEF GovernanceNext, ReadVersion, ReadPolicy, Hit, Evaluate, GiveUp, RestartServer, Tick

LEMMA NumberedKept ==
  ASSUME GInv, GovernanceNext
  PROVE  Numbered'
PROOF
<1> USE DEF GInv
<1>0. Len(policy) \in Nat /\ \A i \in PolicyRow : policy[i] \in Policy
  BY Rows
<1>1. \A i \in PolicyRow : i \in PolicyRow' /\ policy'[i].version = policy[i].version
  <2>1. CASE policy' = policy
    BY <2>1 DEF PolicyRow
  <2>2. ASSUME NEW c \in Client, PublishPolicy(c)
        PROVE  \A i \in PolicyRow : i \in PolicyRow' /\ policy'[i].version = policy[i].version
    BY <2>2, Publishes
  <2> QED
    BY <2>1, <2>2, PoliciesKept
<1>2. \A i \in PolicyRow' : \A v \in 0 .. policy'[i].version :
        \E k \in PolicyRow' : policy'[k].version = v
  <2>1. CASE policy' = policy
    BY <2>1 DEF Numbered, HasVersion, PolicyRow
  <2>2. ASSUME NEW c \in Client, PublishPolicy(c),
               NEW i \in PolicyRow', NEW v \in 0 .. policy'[i].version
        PROVE  \E k \in PolicyRow' : policy'[k].version = v
    <3>1. CASE i \in PolicyRow
      <4>1. PICK k \in PolicyRow : policy[k].version = v
        BY <1>1, <3>1 DEF Numbered, HasVersion
      <4> QED
        BY <1>1, <4>1
    <3>2. CASE i = Len(policy) + 1
      <4> DEFINE w == ask[c].version
      <4>1. w - 1 \in Nat /\ HasVersion(w - 1)
        BY <2>2 DEF Numbered, PublishPolicy
      <4>2. policy'[i].version = w /\ w \in Nat
        BY <2>2, <3>2, Publishes
      <4>3. CASE v = w
        BY <4>2, <4>3
      <4>4. CASE v # w
        <5>1. PICK k \in PolicyRow : policy[k].version = w - 1
          BY <4>1 DEF HasVersion
        <5>2. v \in 0 .. policy[k].version
          BY <4>1, <4>2, <4>4, <5>1
        <5>3. PICK l \in PolicyRow : policy[l].version = v
          BY <5>2 DEF Numbered, HasVersion
        <5> QED
          BY <5>3, <1>1
      <4> QED
        BY <4>3, <4>4
    <3> QED
      BY <2>2, <3>1, <3>2, Publishes
  <2> QED
    BY <2>1, <2>2, PoliciesKept
<1>3. ASSUME NEW d \in Client, ask'[d].at = "publishing"
      PROVE  /\ ask'[d].version - 1 \in Nat
             /\ \E k \in PolicyRow' : policy'[k].version = ask'[d].version - 1
  <2>1. CASE ask'[d] = ask[d]
    <3>1. ask[d].version - 1 \in Nat /\ HasVersion(ask[d].version - 1)
      BY <1>3, <2>1 DEF Numbered
    <3>2. PICK k \in PolicyRow : policy[k].version = ask[d].version - 1
      BY <3>1 DEF HasVersion
    <3> QED
      BY <1>1, <2>1, <3>1, <3>2
  <2>2. ASSUME NEW c \in Client, ReadVersion(c), ask'[d] # ask[d]
        PROVE  /\ ask'[d].version - 1 \in Nat
               /\ \E k \in PolicyRow' : policy'[k].version = ask'[d].version - 1
    <3>1. PICK i \in Latest :
            ask' = [ask EXCEPT ![c] = [at |-> "publishing", version |-> NextVersion(i)]]
      BY <2>2 DEF ReadVersion
    <3>2. ask'[d].version = policy[i].version + 1
      BY <2>2, <3>1 DEF Tables, NextVersion
    <3>3. policy[i].version \in Nat /\ i \in PolicyRow
      BY <1>0 DEF Latest, Policy
    <3>4. ask'[d].version - 1 = policy[i].version
      BY <3>2, <3>3
    <3> QED
      BY <1>1, <3>3, <3>4
  <2>3. ask'[d] = ask[d] \/ \E c \in Client : ReadVersion(c)
    <3>1. ASSUME NEW c \in Client, NEW a \in Action, ReadPolicy(c, a) PROVE ask'[d] = ask[d]
      <4>1. \E i \in Latest : ask' = [ask EXCEPT ![c] =
               [at |-> "asking", action |-> a, row |-> i, since |-> clock]]
        BY <3>1 DEF ReadPolicy
      <4>2. d = c => ask'[d].at = "asking"
        BY <4>1 DEF Tables
      <4> QED
        BY <1>3, <4>1, <4>2 DEF Tables
    <3>2. ASSUME NEW c \in Client, PublishPolicy(c) \/ Hit(c) \/ Evaluate(c) \/ GiveUp(c)
          PROVE  ask'[d] = ask[d]
      <4>1. ask' = [ask EXCEPT ![c] = NotAsking]
        BY <3>2 DEF PublishPolicy, Hit, Evaluate, GiveUp
      <4> QED
        BY <1>3, <4>1 DEF Tables, NotAsking
    <3>3. CASE RestartServer
      BY <1>3, <3>3 DEF RestartServer, NotAsking
    <3>4. CASE Tick
      BY <3>4 DEF Tick
    <3> QED
      BY <3>1, <3>2, <3>3, <3>4 DEF GovernanceNext
  <2> QED
    BY <2>1, <2>2, <2>3
<1> QED
  BY <1>2, <1>3 DEF Numbered, HasVersion

LEMMA InForceKept ==
  ASSUME GInv, GovernanceNext
  PROVE  InForce'
PROOF
<1> USE DEF GInv
<1>0. Len(policy) \in Nat /\ \A i \in PolicyRow : policy[i] \in Policy
  BY Rows
<1>1. CASE policy' = policy
  BY <1>1 DEF InForce, Latest, PolicyRow
<1>2. ASSUME NEW c \in Client, PublishPolicy(c) PROVE InForce'
  <2> DEFINE v == ask[c].version
             n == Len(policy)
  <2> SUFFICES ASSUME NEW i \in Latest' PROVE policy'[i].until = NotYet
    BY DEF InForce
  <2>1. /\ i \in PolicyRow \cup {n + 1}
        /\ \A k \in PolicyRow \cup {n + 1} : policy'[k].version <= policy'[i].version
    BY <1>2, Publishes DEF Latest
  <2>2. v \in Nat /\ policy'[n + 1].version = v
    BY <1>2, Publishes
  <2>3. CASE i \in PolicyRow
    <3>1. policy'[i].version = policy[i].version /\ policy[i].version \in Nat
      BY <1>0, <1>2, <2>3, Publishes DEF Policy
    <3>2. ~(policy[i].version < v)
      BY <2>1, <2>2, <3>1
    <3>3. i \in Latest
      BY <1>2, <2>1, <2>3, <3>1, Publishes DEF Latest
    <3> QED
      BY <1>2, <2>3, <3>2, <3>3, Publishes DEF InForce
  <2>4. CASE i = n + 1
    <3>1. \A k \in PolicyRow : policy[k].version <= v
      BY <1>2, <2>1, <2>2, <2>4, Publishes
    <3> QED
      BY <1>2, <2>4, <3>1, Publishes
  <2> QED
    BY <2>1, <2>3, <2>4
<1> QED
  BY <1>1, <1>2, PoliciesKept

LEMMA FreshKept ==
  ASSUME GInv, GovernanceNext
  PROVE  Fresh'
PROOF
<1> USE TimesAssumption DEF GInv
<1>0. /\ Len(policy) \in Nat
      /\ \A i \in PolicyRow : policy[i] \in Policy
      /\ clock \in Nat
  BY Rows DEF Tables
<1>1. ASSUME NEW c \in Client, ReadVersion(c) PROVE Fresh'
  <2>1. \A d \in Client : ask'[d] = ask[d] \/ ask'[d].at = "publishing"
    BY <1>1 DEF ReadVersion, Tables
  <2> QED
    BY <1>1, <2>1 DEF ReadVersion, Fresh, AsksFresh, CacheFresh, Decisions, InForceAt, PolicyRow
<1>2. ASSUME NEW c \in Client, PublishPolicy(c) PROVE Fresh'
  <2>1. AsksFresh'
    <3> SUFFICES ASSUME NEW d \in Client, ask'[d].at = "asking"
                 PROVE  /\ ask'[d].since <= clock'
                        /\ clock' <= ask'[d].since + MaxDelay
                        /\ InForceAt(ask[d].row, ask[d].since)'
                        /\ ask'[d] = ask[d]
      BY DEF AsksFresh
    <3>1. ask'[d] = ask[d] /\ clock' = clock
      BY <1>2 DEF PublishPolicy, Tables, NotAsking
    <3>2. ask[d].since \in Int
      BY <3>1, Kinds
    <3> QED
      BY <1>2, <3>1, <3>2, StillInForce DEF Fresh, AsksFresh
  <2>2. CacheFresh'
    <3> SUFFICES ASSUME NEW a \in Action, cache[a].row # 0
                 PROVE  /\ cache[a].expires <= clock + CacheTTL
                        /\ InForceAt(cache[a].row, cache[a].expires - CacheTTL - MaxDelay)'
      BY <1>2 DEF CacheFresh, PublishPolicy
    <3>1. cache[a].expires - CacheTTL - MaxDelay \in Int /\ cache[a].expires \in Nat
      BY DEF Tables
    <3>2. cache[a].expires <= clock + CacheTTL
      BY DEF Fresh, CacheFresh
    <3>3. cache[a].expires - CacheTTL - MaxDelay <= clock
      BY <1>0, <3>1, <3>2
    <3>4. InForceAt(cache[a].row, cache[a].expires - CacheTTL - MaxDelay)
      BY DEF Fresh, CacheFresh
    <3>5. InForceAt(cache[a].row, cache[a].expires - CacheTTL - MaxDelay)'
      <4> DEFINE t == cache[a].expires - CacheTTL - MaxDelay
                 i == cache[a].row
      <4>1. t \in Int /\ t <= clock /\ InForceAt(i, t)
        BY <3>1, <3>3, <3>4
      <4>2. i \in PolicyRow /\ i \in PolicyRow'
        BY <1>2, <4>1, Publishes DEF InForceAt
      <4>3. policy'[i].until = policy[i].until \/ policy'[i].until = clock
        BY <1>2, <4>2, Publishes
      <4>4. cache' = cache
        BY <1>2 DEF PublishPolicy
      <4>5. policy'[i].until # NotYet => t <= policy'[i].until
        BY <4>1, <4>3 DEF InForceAt
      <4> QED
        BY <4>2, <4>4, <4>5 DEF InForceAt
    <3> QED
      BY <3>2, <3>5
  <2>3. Decisions'
    <3> SUFFICES ASSUME NEW d \in Client, decision[d].row # 0
                 PROVE  /\ decision[d].at <= clock
                        /\ InForceAt(decision[d].row, decision[d].at + 1 - CacheTTL - MaxDelay)'
      BY <1>2 DEF Decisions, PublishPolicy
    <3> DEFINE t == decision[d].at + 1 - CacheTTL - MaxDelay
               i == decision[d].row
    <3>1. decision[d].at <= clock /\ InForceAt(i, t)
      BY DEF Fresh, Decisions
    <3>2. decision[d].at \in Nat
      BY DEF Tables
    <3>3. t \in Int /\ t <= clock
      BY <1>0, <3>1, <3>2
    <3>4. i \in PolicyRow /\ i \in PolicyRow'
      BY <1>2, <3>1, Publishes DEF InForceAt
    <3>5. policy'[i].until = policy[i].until \/ policy'[i].until = clock
      BY <1>2, <3>4, Publishes
    <3>6. decision' = decision
      BY <1>2 DEF PublishPolicy
    <3>7. policy'[i].until # NotYet => t <= policy'[i].until
      BY <3>1, <3>3, <3>5 DEF InForceAt
    <3> QED
      BY <3>1, <3>4, <3>6, <3>7 DEF InForceAt
  <2> QED
    BY <2>1, <2>2, <2>3 DEF Fresh
<1>3. ASSUME NEW c \in Client, NEW a \in Action, ReadPolicy(c, a) PROVE Fresh'
  <2>1. PICK i \in Latest :
          ask' = [ask EXCEPT ![c] = [at |-> "asking", action |-> a, row |-> i,
                                     since |-> clock]]
    BY <1>3 DEF ReadPolicy
  <2>2. InForceAt(i, clock)
    BY DEF InForce, InForceAt, Latest
  <2>3. AsksFresh'
    <3> SUFFICES ASSUME NEW d \in Client, ask'[d].at = "asking"
                 PROVE  /\ ask'[d].since <= clock
                        /\ clock <= ask'[d].since + MaxDelay
                        /\ InForceAt(ask'[d].row, ask'[d].since)
      BY <1>3 DEF AsksFresh, ReadPolicy, InForceAt, PolicyRow
    <3>1. CASE d = c
      <4>1. ask'[d].since = clock /\ ask'[d].row = i
        BY <2>1, <3>1 DEF Tables
      <4> QED
        BY <1>0, <2>2, <4>1
    <3>2. CASE d # c
      <4>1. ask'[d] = ask[d]
        BY <2>1, <3>2 DEF Tables
      <4> QED
        BY <4>1 DEF Fresh, AsksFresh
    <3> QED
      BY <3>1, <3>2
  <2> QED
    BY <1>3, <2>3 DEF ReadPolicy, Fresh, CacheFresh, Decisions, InForceAt, PolicyRow
<1>4. ASSUME NEW c \in Client, Hit(c) PROVE Fresh'
  <2> DEFINE a == ask[c].action
             i == cache[a].row
  <2>1. a \in Action
    BY <1>4, Kinds DEF Hit
  <2>2. i # 0 /\ clock < cache[a].expires
    BY <1>4 DEF Hit, Cached
  <2>3. cache[a].expires \in Nat
    BY <2>1 DEF Tables
  <2>4. InForceAt(i, clock + 1 - CacheTTL - MaxDelay)
    <3>1. InForceAt(i, cache[a].expires - CacheTTL - MaxDelay)
      BY <2>1, <2>2 DEF Fresh, CacheFresh
    <3>2. policy[i] \in Policy
      BY <1>0, <3>1 DEF InForceAt
    <3>3. policy[i].until \in Int
      BY <3>2 DEF Policy, NotYet
    <3>4. clock + 1 - CacheTTL - MaxDelay <= cache[a].expires - CacheTTL - MaxDelay
      BY <1>0, <2>2, <2>3
    <3>5. policy[i].until # NotYet => clock + 1 - CacheTTL - MaxDelay <= policy[i].until
      <4>1. policy[i].until # NotYet => cache[a].expires - CacheTTL - MaxDelay <= policy[i].until
        BY <3>1 DEF InForceAt
      <4> HIDE DEF i, a
      <4> QED
        BY <1>0, <2>3, <3>3, <3>4, <4>1
    <3> QED
      BY <3>1, <3>5 DEF InForceAt
  <2>5. Decisions'
    <3> SUFFICES ASSUME NEW d \in Client, decision'[d].row # 0
                 PROVE  /\ decision'[d].at <= clock
                        /\ InForceAt(decision'[d].row,
                                     decision'[d].at + 1 - CacheTTL - MaxDelay)
      BY <1>4 DEF Decisions, Hit, InForceAt, PolicyRow
    <3>1. CASE d = c
      <4>1. decision'[d] = [row |-> i, at |-> clock]
        BY <1>4, <3>1 DEF Hit, Decided, Tables
      <4> QED
        BY <1>0, <2>4, <4>1
    <3>2. CASE d # c
      <4>1. decision'[d] = decision[d]
        BY <1>4, <3>2 DEF Hit, Decided, Tables
      <4> QED
        BY <4>1 DEF Fresh, Decisions
    <3> QED
      BY <3>1, <3>2
  <2>6. AsksFresh'
    <3>1. \A d \in Client : ask'[d] = ask[d] \/ ask'[d] = NotAsking
      BY <1>4 DEF Hit, Tables
    <3> QED
      BY <1>4, <3>1 DEF Hit, Fresh, AsksFresh, InForceAt, PolicyRow, NotAsking
  <2>7. CacheFresh'
    BY <1>4 DEF Hit, AfterHit, Fresh, CacheFresh, InForceAt, PolicyRow
  <2> QED
    BY <2>5, <2>6, <2>7 DEF Fresh
<1>5. ASSUME NEW c \in Client, Evaluate(c) PROVE Fresh'
  <2> DEFINE b == ask[c].action
             i == ask[c].row
  <2>1. b \in Action /\ ask[c].since \in Nat
    BY <1>5, Kinds DEF Evaluate
  <2>2. clock <= ask[c].since + MaxDelay /\ InForceAt(i, ask[c].since)
    BY <1>5 DEF Evaluate, Fresh, AsksFresh
  <2>3. policy[i].until \in Int
    <3>1. policy[i] \in Policy
      BY <1>0, <2>2 DEF InForceAt
    <3> QED
      BY <3>1 DEF Policy, NotYet
  <2>4. InForceAt(i, clock - MaxDelay)
    BY <1>0, <2>1, <2>2, <2>3 DEF InForceAt
  <2>5. InForceAt(i, clock + 1 - CacheTTL - MaxDelay)
    BY <1>0, <2>3, <2>4 DEF InForceAt
  <2>6. InForceAt(i, (clock + CacheTTL) - CacheTTL - MaxDelay)
    <3>1. (clock + CacheTTL) - CacheTTL - MaxDelay = clock - MaxDelay
      BY <1>0
    <3> QED
      BY <2>4, <3>1
  <2>7. Decisions'
    <3> SUFFICES ASSUME NEW d \in Client, decision'[d].row # 0
                 PROVE  /\ decision'[d].at <= clock
                        /\ InForceAt(decision'[d].row,
                                     decision'[d].at + 1 - CacheTTL - MaxDelay)
      BY <1>5 DEF Decisions, Evaluate, InForceAt, PolicyRow
    <3>1. CASE d = c
      <4>1. decision'[d] = [row |-> i, at |-> clock]
        BY <1>5, <3>1 DEF Evaluate, Decided, Tables
      <4> QED
        BY <1>0, <2>5, <4>1
    <3>2. CASE d # c
      <4>1. decision'[d] = decision[d]
        BY <1>5, <3>2 DEF Evaluate, Decided, Tables
      <4> QED
        BY <4>1 DEF Fresh, Decisions
    <3> QED
      BY <3>1, <3>2
  <2>8. AsksFresh'
    <3>1. \A d \in Client : ask'[d] = ask[d] \/ ask'[d] = NotAsking
      BY <1>5 DEF Evaluate, Tables
    <3> QED
      BY <1>5, <3>1 DEF Evaluate, Fresh, AsksFresh, InForceAt, PolicyRow, NotAsking
  <2>9. CacheFresh'
    <3> SUFFICES ASSUME NEW a \in Action, cache'[a].row # 0
                 PROVE  /\ cache'[a].expires <= clock + CacheTTL
                        /\ InForceAt(cache'[a].row,
                                     cache'[a].expires - CacheTTL - MaxDelay)
      BY <1>5 DEF CacheFresh, Evaluate, InForceAt, PolicyRow
    <3>1. CASE a = b
      <4>1. cache'[a] = [row |-> i, expires |-> clock + CacheTTL]
        BY <1>5, <3>1 DEF Evaluate, Tables
      <4> QED
        BY <1>0, <2>6, <4>1
    <3>2. CASE a # b
      <4>1. cache'[a] = cache[a]
        BY <1>5, <3>2 DEF Evaluate, Tables
      <4> QED
        BY <4>1 DEF Fresh, CacheFresh
    <3> QED
      BY <3>1, <3>2
  <2> QED
    BY <2>7, <2>8, <2>9 DEF Fresh
<1>6. ASSUME NEW c \in Client, GiveUp(c) PROVE Fresh'
  <2>1. \A d \in Client : ask'[d] = ask[d] \/ ask'[d] = NotAsking
    BY <1>6 DEF GiveUp, Tables
  <2> QED
    BY <1>6, <2>1 DEF GiveUp, Fresh, AsksFresh, CacheFresh, Decisions, InForceAt, PolicyRow, NotAsking
<1>7. CASE RestartServer
  BY <1>7 DEF RestartServer, Fresh, AsksFresh, CacheFresh, Decisions, InForceAt, PolicyRow, NotAsking
<1>8. CASE Tick
  <2> USE <1>8 DEF Tick
  <2>1. AsksFresh'
    <3> SUFFICES ASSUME NEW d \in Client, ask[d].at = "asking"
                 PROVE  ask[d].since <= clock + 1 /\ clock + 1 <= ask[d].since + MaxDelay
                        /\ InForceAt(ask[d].row, ask[d].since)
      BY DEF AsksFresh, InForceAt, PolicyRow
    <3>1. ask[d].since \in Nat
      BY Kinds
    <3> QED
      BY <1>0, <3>1 DEF Fresh, AsksFresh
  <2>2. CacheFresh'
    <3> SUFFICES ASSUME NEW a \in Action, cache[a].row # 0
                 PROVE  /\ cache[a].expires <= clock + 1 + CacheTTL
                        /\ InForceAt(cache[a].row, cache[a].expires - CacheTTL - MaxDelay)
      BY DEF CacheFresh, InForceAt, PolicyRow
    <3>1. cache[a].expires \in Nat
      BY DEF Tables
    <3> QED
      BY <1>0, <3>1 DEF Fresh, CacheFresh
  <2>3. Decisions'
    <3> SUFFICES ASSUME NEW d \in Client, decision[d].row # 0
                 PROVE  /\ decision[d].at <= clock + 1
                        /\ InForceAt(decision[d].row, decision[d].at + 1 - CacheTTL - MaxDelay)
      BY DEF Decisions, InForceAt, PolicyRow
    <3>1. decision[d].at \in Nat
      BY DEF Tables
    <3> QED
      BY <1>0, <3>1 DEF Fresh, Decisions
  <2> QED
    BY <2>1, <2>2, <2>3 DEF Fresh
<1> QED
  BY <1>1, <1>2, <1>3, <1>4, <1>5, <1>6, <1>7, <1>8 DEF GovernanceNext

(***************************************************************************)
(* The theorems.                                                           *)
(***************************************************************************)

(* GInv is inductive: what was read, cached and decided was in force        *)
(* recently enough (governance_engine.py, evaluate).                        *)
THEOREM GovernanceInvariance == GovernanceSpec => []GInv
PROOF
<1>1. GInv /\ [GovernanceNext]_governanceVars => GInv'
  <2> SUFFICES ASSUME GInv, [GovernanceNext]_governanceVars PROVE GInv'
    OBVIOUS
  <2>1. CASE GovernanceNext
    <3>1. Tables'
      BY <2>1, TablesKept DEF GInv
    <3>2. Numbered' /\ InForce' /\ Fresh'
      BY <2>1, NumberedKept, InForceKept, FreshKept
    <3> QED
      BY <3>1, <3>2 DEF GInv
  <2>2. CASE UNCHANGED governanceVars
    BY <2>2 DEF governanceVars, GInv, Tables, Numbered, HasVersion, InForce, Latest, Fresh,
       AsksFresh, CacheFresh, Decisions, InForceAt, PolicyRow
  <2> QED
    BY <2>1, <2>2
<1> QED
  BY <1>1, InitHolds, PTL DEF GovernanceSpec

(* Types, and versions without a gap (router.py, update_governance_policy). *)
THEOREM GovernanceTypes == GovernanceSpec => []GovernanceTypeOK
PROOF
<1>1. GInv => GovernanceTypeOK
  BY DEF GInv, Tables, Numbered, HasVersion, Fresh, Decisions, InForceAt, GovernanceTypeOK
<1> QED
  BY <1>1, GovernanceInvariance, PTL

(* No decision follows a policy that was replaced longer ago than the cache *)
(* and a request may keep it (governance_engine.py, evaluate).              *)
THEOREM FreshDecisions == GovernanceSpec => []DecisionsFresh
PROOF
<1>1. GInv => DecisionsFresh
  <2> SUFFICES ASSUME GInv, NEW c \in Client, decision[c].row # 0,
                      policy[decision[c].row].until # NotYet
               PROVE  decision[c].at < policy[decision[c].row].until + CacheTTL + MaxDelay
    BY DEF DecisionsFresh
  <2> DEFINE i == decision[c].row
  <2>1. i \in PolicyRow /\ decision[c].at + 1 - CacheTTL - MaxDelay <= policy[i].until
    BY DEF GInv, Fresh, Decisions, InForceAt
  <2>2. policy[i] \in Policy
    BY <2>1, Rows DEF GInv
  <2>3. policy[i].until \in Int /\ decision[c].at \in Nat
    BY <2>2 DEF Policy, NotYet, GInv, Tables
  <2> QED
    BY <2>1, <2>3, TimesAssumption
<1> QED
  BY <1>1, GovernanceInvariance, PTL
=============================================================================
