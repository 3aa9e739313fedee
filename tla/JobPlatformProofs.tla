------------------------- MODULE JobPlatformProofs -------------------------
(***************************************************************************)
(* Jobs and their events for any number of jobs, sessions and subscribers, *)
(* and however long the system runs.                                       *)
(***************************************************************************)
EXTENDS FiniteSetTheorems, JobPlatform, TLAPS

(* A session works on a job whose row it has read. *)
Refers(s) ==
  call[s].at \notin {"idle", "submitting", "done"} => job[call[s].job] # None

TInv ==
  /\ JobsTypeOK
  /\ \A s \in Session : Refers(s)

(***************************************************************************)
(* Records and bags.                                                       *)
(***************************************************************************)

LEMMA Kinds ==
  ASSUME JobsTypeOK, NEW s \in Session
  PROVE  /\ call[s].at \in {"claiming", "cancelling", "retrying", "replaying"} =>
              call[s].job \in Job /\ call[s].read \in JobRow
         /\ call[s].at \in {"running", "broken"} => call[s].job \in Job
         /\ call[s].at = "publishing" =>
              /\ call[s] \in Publishing
              /\ call[s].job \in Job
              /\ call[s].draft \in EventOf(Job)
         /\ call[s].at = "done" =>
              /\ call[s].job \in Job
              /\ call[s].row \in JobRow
              /\ call[s].result \in Seq({"COMPLETED", "FAILED"})
              /\ call[s].event \in Seq(EventOf(Job))
PROOF
<1>1. call[s] \in Calls
  BY DEF JobsTypeOK
<1>2. CASE call[s] = Idle
  BY <1>2 DEF Idle
<1>3. CASE call[s] \in [at : {"submitting"}]
  BY <1>3
<1>4. CASE call[s] \in Reading
  BY <1>4 DEF Reading
<1>5. CASE call[s] \in Running
  BY <1>5 DEF Running
<1>6. CASE call[s] \in Publishing
  BY <1>6 DEF Publishing
<1>7. CASE call[s] \in Done
  BY <1>7 DEF Done
<1> QED
  BY <1>1, <1>2, <1>3, <1>4, <1>5, <1>6, <1>7 DEF Calls

LEMMA Rows ==
  ASSUME JobsTypeOK, NEW j \in Job, job[j] # None, NEW status \in JobStatus
  PROVE  /\ job[j] \in JobRow
         /\ [job[j] EXCEPT !.status = status] \in JobRow
PROOF
<1>1. job[j] \in JobRow
  BY DEF JobsTypeOK
<1> QED
  BY <1>1 DEF JobRow

LEMMA Drafts ==
  ASSUME JobsTypeOK, NEW j \in Job, NextNumber \in Nat
  PROVE  Draft(j) \in EventOf(Job)
PROOF
<1>1. Len(outbox) \in Nat
  BY DEF JobsTypeOK
<1>2. [s \in Subscription |-> "PENDING"] \in [Subscription -> DeliveryStatus]
  BY DEF DeliveryStatus
<1> QED
  BY <1>1, <1>2 DEF Draft, EventOf

(* A queue is a bag of jobs. *)
Items(B) == IsABag(B) /\ BagToSet(B) \subseteq Job

LEMMA ItemAdded ==
  ASSUME NEW B, Items(B), NEW j \in Job
  PROVE  Items(B (+) SetToBag({j}))
PROOF
<1> DEFINE P == {n \in Nat : n > 0}
           T == SetToBag({j})
           Count(e) == (IF e \in DOMAIN B THEN B[e] ELSE 0)
                         + (IF e \in DOMAIN T THEN T[e] ELSE 0)
<1>1. \A e \in DOMAIN B : B[e] \in P
  BY DEF Items, IsABag
<1>2. DOMAIN T = {j} /\ T[j] = 1
  BY DEF SetToBag
<1>3. B (+) T = [e \in DOMAIN B \cup {j} |-> Count(e)]
  BY <1>2 DEF (+)
<1>4. \A e \in DOMAIN B \cup {j} : Count(e) \in P
  BY <1>1, <1>2
<1> HIDE DEF T, Count
<1>5. Items(B (+) T)
  BY <1>3, <1>4 DEF Items, IsABag, BagToSet
<1> QED
  BY <1>5 DEF T

LEMMA ItemRemoved ==
  ASSUME NEW B, Items(B), NEW j
  PROVE  Items(B (-) SetToBag({j}))
PROOF
<1> DEFINE P == {n \in Nat : n > 0}
           T == SetToBag({j})
           D == [e \in DOMAIN B |-> IF e \in DOMAIN T THEN B[e] - T[e] ELSE B[e]]
<1>1. \A e \in DOMAIN B : B[e] \in P
  BY DEF Items, IsABag
<1>2. DOMAIN T = {j} /\ T[j] = 1
  BY DEF SetToBag
<1>3. B (-) T = [e \in {d \in DOMAIN D : D[d] > 0} |-> D[e]]
  BY DEF (-)
<1>4. DOMAIN D = DOMAIN B /\ \A e \in DOMAIN D : D[e] \in Nat
  BY <1>1, <1>2
<1> HIDE DEF T, D
<1>5. Items(B (-) T)
  BY <1>3, <1>4 DEF Items, IsABag, BagToSet
<1> QED
  BY <1>5 DEF T

(***************************************************************************)
(* Numbers.                                                                *)
(***************************************************************************)

(* Numbers have a greatest one, which the next one exceeds by one. *)
Counted ==
  outbox # << >> => \E n \in Numbers : \A m \in Numbers : m <= n

LEMMA Next ==
  ASSUME JobsTypeOK, Counted
  PROVE  /\ NextNumber \in Nat \ {0}
         /\ \A m \in Numbers : m < NextNumber
         /\ outbox # << >> => NextNumber - 1 \in Numbers
         /\ outbox = << >> => NextNumber = 1
PROOF
<1>1. Len(outbox) \in Nat /\ \A i \in 1 .. Len(outbox) : outbox[i].number \in Nat
  <2>1. Len(outbox) \in Nat /\ \A i \in 1 .. Len(outbox) : outbox[i] \in EventOf(Job)
    BY DEF JobsTypeOK
  <2> QED
    BY <2>1 DEF EventOf
<1>2. Numbers \subseteq Nat
  BY <1>1 DEF Numbers
<1>3. CASE outbox = << >>
  <2>1. Numbers = {}
    BY <1>3 DEF Numbers
  <2> QED
    BY <1>3, <2>1 DEF NextNumber
<1>4. CASE outbox # << >>
  <2> DEFINE top == CHOOSE n \in Numbers : \A m \in Numbers : m <= n
  <2>1. top \in Numbers /\ \A m \in Numbers : m <= top
    BY <1>4 DEF Counted
  <2>2. NextNumber = top + 1
    BY <1>4 DEF NextNumber
  <2> HIDE DEF top
  <2> QED
    BY <1>2, <1>4, <2>1, <2>2
<1> QED
  BY <1>3, <1>4

(***************************************************************************)
(* Types.                                                                  *)
(***************************************************************************)

(* What a session that is neither committing nor ending goes on with. *)
LEMMA Moved ==
  ASSUME JobsTypeOK, NEW s \in Session, NEW c \in Calls, Moves(s, c)
  PROVE  /\ call' \in [Session -> Calls]
         /\ call'[s] = c
         /\ \A t \in Session \ {s} : call'[t] = call[t]
BY DEF JobsTypeOK, Moves

LEMMA Queued ==
  ASSUME JobsTypeOK, NEW q \in QueueName, NEW j \in Job, Enqueued(q, j)
  PROVE  DOMAIN queue' = QueueName /\ \A p \in QueueName : Items(queue'[p])
PROOF
<1>1. DOMAIN queue = QueueName /\ \A p \in QueueName : Items(queue[p])
  BY DEF JobsTypeOK, Items
<1>2. Items(queue[q] (+) SetToBag({j}))
  BY <1>1, ItemAdded
<1> QED
  BY <1>1, <1>2 DEF Enqueued

(* The types of a step that commits nothing. *)
LEMMA Uncommitted ==
  ASSUME JobsTypeOK, UNCHANGED <<job, result, outbox>>,
         call' \in [Session -> Calls],
         DOMAIN queue' = QueueName, \A p \in QueueName : Items(queue'[p]),
         flight' \subseteq Job
  PROVE  JobsTypeOK'
BY DEF JobsTypeOK, Items

LEMMA TypeOfSteps ==
  ASSUME TInv, Counted, JobsNext
  PROVE  JobsTypeOK'
PROOF
<1> USE DEF TInv
<1>0. /\ flight \subseteq Job
      /\ DOMAIN queue = QueueName /\ \A p \in QueueName : Items(queue[p])
      /\ call \in [Session -> Calls]
  BY DEF JobsTypeOK, Items
<1>q. "DEFAULT" \in QueueName /\ "RETRY" \in QueueName /\ "DEAD_LETTER" \in QueueName
  BY DEF QueueName
<1>1. ASSUME NEW s \in Session, Submit(s) PROVE JobsTypeOK'
  <2>1. [at |-> "submitting"] \in Calls
    BY DEF Calls
  <2>2. call' \in [Session -> Calls]
    BY <1>1, <2>1, Moved DEF Submit
  <2> QED
    BY <1>0, <1>1, <2>2, Uncommitted DEF Submit
<1>2. ASSUME NEW s \in Session, NEW j \in Job, NEW row \in JobRow, Written(s, j, row)
      PROVE  call' \in [Session -> Calls]
  <2> DEFINE c == [at |-> "done", job |-> j, row |-> row, result |-> << >>, event |-> << >>]
  <2>1. c \in Calls
    BY DEF Calls, Done
  <2>2. Moves(s, c)
    BY <1>2 DEF Written
  <2> HIDE DEF c
  <2> QED
    BY <2>1, <2>2, Moved
<1>3. ASSUME NEW s \in Session, NEW j \in Job, Insert(s, j) PROVE JobsTypeOK'
  <2>1. [status |-> "QUEUED", retries |-> 0] \in JobRow
    BY RetriesAssumption DEF JobRow, JobStatus
  <2>2. call' \in [Session -> Calls]
    BY <1>2, <1>3, <2>1 DEF Insert
  <2>3. DOMAIN queue' = QueueName /\ \A p \in QueueName : Items(queue'[p])
    BY <1>3, <1>q, Queued DEF Insert
  <2> QED
    BY <1>0, <1>3, <2>2, <2>3, Uncommitted DEF Insert
<1>4. ASSUME NEW s \in Session, NEW j \in Job, job[j] # None,
             NEW at \in {"claiming", "cancelling", "retrying", "replaying"}, Reads(s, j, at)
      PROVE  call' \in [Session -> Calls]
  <2> DEFINE c == [at |-> at, job |-> j, read |-> job[j]]
  <2>1. job[j] \in JobRow
    BY <1>4 DEF JobsTypeOK
  <2>2. c \in Calls
    BY <2>1 DEF Calls, Reading
  <2>3. Moves(s, c)
    BY <1>4 DEF Reads
  <2> HIDE DEF c
  <2> QED
    BY <2>2, <2>3, Moved
<1>5. ASSUME NEW s \in Session, NEW q \in QueueName, NEW j \in Job, Take(s, q, j)
      PROVE  JobsTypeOK'
  <2>1. Items(queue[q] (-) SetToBag({j}))
    BY <1>0, ItemRemoved
  <2>2. DOMAIN queue' = QueueName /\ \A p \in QueueName : Items(queue'[p])
    BY <1>0, <1>5, <2>1 DEF Take
  <2>3. CASE job[j] # None /\ job[j].status = "QUEUED"
    <3>1. Reads(s, j, "claiming") /\ flight' = flight \cup {j}
      BY <1>5, <2>3 DEF Take
    <3>2. call' \in [Session -> Calls]
      BY <1>4, <2>3, <3>1
    <3> QED
      BY <1>0, <1>5, <2>2, <3>1, <3>2, Uncommitted DEF Take
  <2>4. CASE ~(job[j] # None /\ job[j].status = "QUEUED")
    <3>1. call' = call /\ flight' = flight \ {j}
      BY <1>5, <2>4 DEF Take
    <3> QED
      BY <1>0, <1>5, <2>2, <3>1, Uncommitted DEF Take
  <2> QED
    BY <2>3, <2>4
<1>6. ASSUME NEW s \in Session, Claim(s) PROVE JobsTypeOK'
  <2>1. call[s].job \in Job
    BY <1>6, Kinds DEF Claim
  <2>2. [at |-> "running", job |-> call[s].job] \in Calls
    BY <2>1 DEF Calls, Running
  <2>3. call' \in [Session -> Calls]
    BY <1>6, <2>2, Moved DEF Claim
  <2> QED
    BY <1>0, <1>6, <2>3, Uncommitted DEF Claim
<1>7. ASSUME NEW s \in Session, NEW status \in {"COMPLETED", "FAILED"},
             NEW event \in Seq(EventOf(Job)), call[s].at \in {"running", "publishing"},
             RunEnds(s, status, event)
      PROVE  JobsTypeOK'
  <2>1. call[s].job \in Job /\ job[call[s].job] # None
    BY <1>7, Kinds DEF Refers
  <2>2. [job[call[s].job] EXCEPT !.status = status] \in JobRow
    BY <2>1, Rows DEF JobStatus
  <2> DEFINE c == [at |-> "done", job |-> call[s].job,
                   row |-> [job[call[s].job] EXCEPT !.status = status],
                   result |-> <<status>>, event |-> event]
  <2>3. c \in Calls
    BY <2>1, <2>2 DEF Calls, Done
  <2>4. Moves(s, c) /\ flight' \subseteq flight
    BY <1>7 DEF RunEnds
  <2> HIDE DEF c
  <2>5. call' \in [Session -> Calls]
    BY <2>3, <2>4, Moved
  <2> QED
    BY <1>0, <1>7, <2>4, <2>5, Uncommitted DEF RunEnds
<1>8. ASSUME NEW s \in Session, Fail(s) PROVE JobsTypeOK'
  <2>1. << >> \in Seq(EventOf(Job))
    OBVIOUS
  <2>2. RunEnds(s, "FAILED", << >>) /\ call[s].at = "running"
    BY <1>8 DEF Fail
  <2> QED
    BY <1>7, <2>1, <2>2
<1>9. ASSUME NEW s \in Session, Emit(s) PROVE JobsTypeOK'
  <2> DEFINE c == [at |-> "publishing", job |-> call[s].job, draft |-> Draft(call[s].job)]
  <2>1. call[s].job \in Job
    BY <1>9, Kinds DEF Emit
  <2>2. Draft(call[s].job) \in EventOf(Job)
    BY <2>1, Drafts, Next
  <2>3. c \in Calls
    BY <2>1, <2>2 DEF Calls, Publishing
  <2>4. Moves(s, c)
    BY <1>9 DEF Emit
  <2> HIDE DEF c
  <2>5. call' \in [Session -> Calls]
    BY <2>3, <2>4, Moved
  <2> QED
    BY <1>0, <1>9, <2>5, Uncommitted DEF Emit
<1>10. ASSUME NEW s \in Session, NEW sub \in Subscription, NEW o \in Outcome, Deliver(s, sub, o)
       PROVE  JobsTypeOK'
  <2>1. call[s] \in Publishing /\ call[s].draft \in EventOf(Job)
    BY <1>10, Kinds DEF Deliver
  <2>2. Handled(call[s].draft, sub, o) \in EventOf(Job)
    BY <2>1 DEF Handled, EventOf, Outcome, DeliveryStatus
  <2>3. [call[s] EXCEPT !.draft = Handled(call[s].draft, sub, o)] \in Publishing
    BY <2>1, <2>2 DEF Publishing
  <2>4. call' = [call EXCEPT ![s] = [call[s] EXCEPT !.draft = Handled(call[s].draft, sub, o)]]
    BY <1>10 DEF Deliver
  <2>5. call' \in [Session -> Calls]
    BY <1>0, <2>3, <2>4 DEF Calls
  <2> QED
    BY <1>0, <1>10, <2>5, Uncommitted DEF Deliver
<1>11. ASSUME NEW s \in Session, Break(s) PROVE JobsTypeOK'
  <2>1. call[s].job \in Job
    BY <1>11, Kinds DEF Break
  <2>2. [at |-> "broken", job |-> call[s].job] \in Calls
    BY <2>1 DEF Calls, Running
  <2>3. call' \in [Session -> Calls]
    BY <1>11, <2>2, Moved DEF Break
  <2> QED
    BY <1>0, <1>11, <2>3, Uncommitted DEF Break
<1>12. ASSUME NEW s \in Session, Complete(s) PROVE JobsTypeOK'
  <2>1. call[s].draft \in EventOf(Job)
    BY <1>12, Kinds DEF Complete
  <2>2. <<call[s].draft>> \in Seq(EventOf(Job))
    BY <2>1
  <2> QED
    BY <1>7, <1>12, <2>2 DEF Complete
<1>13. ASSUME NEW s \in Session, NEW j \in Job, Cancel(s, j) \/ Retry(s, j) \/ Replay(s, j)
       PROVE  JobsTypeOK'
  <2>1. call' \in [Session -> Calls]
    BY <1>4, <1>13 DEF Cancel, Retry, Replay, Known
  <2> QED
    BY <1>0, <1>13, <2>1, Uncommitted DEF Cancel, Retry, Replay
<1>14. ASSUME NEW s \in Session, WriteCancel(s) PROVE JobsTypeOK'
  <2>1. call[s].job \in Job /\ job[call[s].job] # None
    BY <1>14, Kinds DEF Refers, WriteCancel
  <2>2. [job[call[s].job] EXCEPT !.status = "CANCELLED"] \in JobRow
    BY <2>1, Rows DEF JobStatus
  <2>3. call' \in [Session -> Calls]
    BY <1>2, <1>14, <2>1, <2>2 DEF WriteCancel
  <2> QED
    BY <1>0, <1>14, <2>3, Uncommitted DEF WriteCancel
<1>15. ASSUME NEW s \in Session, WriteRetry(s) PROVE JobsTypeOK'
  <2> DEFINE j == call[s].job
             read == call[s].read
             q == IF Spent(read) THEN "DEAD_LETTER" ELSE "RETRY"
             row == IF Spent(read) THEN [job[j] EXCEPT !.status = "DEAD_LETTER"]
                    ELSE [status |-> "RETRYING", retries |-> read.retries + 1]
  <2>1. j \in Job /\ read \in JobRow /\ job[j] # None
    BY <1>15, Kinds DEF Refers, WriteRetry
  <2>2. row \in JobRow
    <3>1. CASE Spent(read)
      BY <2>1, <3>1, Rows DEF JobStatus
    <3>2. CASE ~Spent(read)
      <4>1. read.retries \in 0 .. MaxRetries
        BY <2>1 DEF JobRow
      <4>2. read.retries + 1 \in 0 .. MaxRetries
        BY <3>2, <4>1, RetriesAssumption DEF Spent
      <4> QED
        BY <3>2, <4>2 DEF JobRow, JobStatus
    <3> QED
      BY <3>1, <3>2
  <2>3. q \in QueueName
    BY <1>q
  <2>4. Written(s, j, row) /\ Enqueued(q, j) /\ flight' \subseteq flight
    BY <1>15 DEF WriteRetry
  <2>5. UNCHANGED <<job, result, outbox>>
    BY <1>15 DEF WriteRetry
  <2> HIDE DEF j, q, row
  <2>6. call' \in [Session -> Calls]
    BY <1>2, <2>1, <2>2, <2>4
  <2>7. DOMAIN queue' = QueueName /\ \A p \in QueueName : Items(queue'[p])
    BY <2>1, <2>3, <2>4, Queued
  <2> QED
    BY <1>0, <2>4, <2>5, <2>6, <2>7, Uncommitted
<1>16. ASSUME NEW s \in Session, WriteReplay(s) PROVE JobsTypeOK'
  <2>1. call[s].job \in Job
    BY <1>16, Kinds DEF WriteReplay
  <2>2. [status |-> "QUEUED", retries |-> 0] \in JobRow
    BY RetriesAssumption DEF JobRow, JobStatus
  <2>3. call' \in [Session -> Calls]
    BY <1>2, <1>16, <2>1, <2>2 DEF WriteReplay
  <2>4. DOMAIN queue' = QueueName /\ \A p \in QueueName : Items(queue'[p])
    BY <1>16, <1>q, <2>1, Queued DEF WriteReplay
  <2> QED
    BY <1>0, <1>16, <2>3, <2>4, Uncommitted DEF WriteReplay
<1>17. ASSUME NEW j \in Job, NEW q \in QueueName, Redeliver(j, q) PROVE JobsTypeOK'
  <2>1. DOMAIN queue' = QueueName /\ \A p \in QueueName : Items(queue'[p])
    BY <1>17, Queued DEF Redeliver
  <2> QED
    BY <1>0, <1>17, <2>1, Uncommitted DEF Redeliver
<1>18. ASSUME NEW s \in Session, Commit(s) PROVE JobsTypeOK'
  <2> DEFINE c == call[s]
  <2>1. /\ c.job \in Job
        /\ c.row \in JobRow
        /\ c.result \in Seq({"COMPLETED", "FAILED"})
        /\ c.event \in Seq(EventOf(Job))
    BY <1>18, Kinds DEF Commit
  <2>2. job' \in [Job -> JobRow \cup {None}]
    BY <1>18, <2>1 DEF Commit, JobsTypeOK
  <2>3. result' \in [Job -> Seq({"COMPLETED", "FAILED"})]
    <3>1. result[c.job] \o c.result \in Seq({"COMPLETED", "FAILED"})
      BY <2>1 DEF JobsTypeOK
    <3> QED
      BY <1>18, <2>1, <3>1 DEF Commit, JobsTypeOK
  <2>4. outbox' \in Seq(EventOf(Job))
    BY <1>18, <2>1 DEF Commit, JobsTypeOK
  <2>5. Idle \in Calls
    BY DEF Calls
  <2>6. call' \in [Session -> Calls]
    BY <1>18, <2>5, Moved DEF Commit
  <2>7. queue' = queue /\ flight' = flight
    BY <1>18 DEF Commit
  <2> QED
    BY <2>2, <2>3, <2>4, <2>6, <2>7 DEF JobsTypeOK
<1>19. ASSUME NEW s \in Session, Rollback(s) PROVE JobsTypeOK'
  <2>1. Idle \in Calls
    BY DEF Calls
  <2>2. call' \in [Session -> Calls]
    BY <1>19, <2>1, Moved DEF Rollback
  <2> QED
    BY <1>0, <1>19, <2>2, Uncommitted DEF Rollback
<1>20. CASE Restart
  <2>1. call' \in [Session -> Calls]
    BY <1>20 DEF Restart, Calls
  <2>2. Items(EmptyBag)
    BY DEF Items, IsABag, BagToSet, EmptyBag, SetToBag
  <2>3. DOMAIN queue' = QueueName /\ \A p \in QueueName : Items(queue'[p])
    BY <1>20, <2>2 DEF Restart
  <2> QED
    BY <1>20, <2>1, <2>3, Uncommitted DEF Restart
<1> QED
  BY <1>1, <1>3, <1>5, <1>6, <1>8, <1>9, <1>10, <1>11, <1>12, <1>13, <1>14, <1>15, <1>16,
     <1>17, <1>18, <1>19, <1>20 DEF JobsNext, Requests, Runs

(* Rows that a session has read are still there. *)
LEMMA RowsStay ==
  ASSUME JobsTypeOK, JobsNext, NEW j \in Job, job[j] # None
  PROVE  job'[j] # None
PROOF
<1>1. ASSUME NEW s \in Session, Commit(s) PROVE job'[j] # None
  <2>1. call[s].row \in JobRow
    BY <1>1, Kinds DEF Commit
  <2>2. job'[j] = job[j] \/ job'[j] = call[s].row
    BY <1>1 DEF Commit, JobsTypeOK
  <2> QED
    BY <2>1, <2>2, NoneAssumption
<1>2. CASE job' = job
  BY <1>2
<1>3. job' = job \/ \E s \in Session : Commit(s)
  BY DEF JobsNext, Requests, Runs, Submit, Insert, Take, Claim, Fail, RunEnds, Emit, Deliver,
     Break, Complete, Cancel, WriteCancel, Retry, WriteRetry, Replay, WriteReplay, Redeliver,
     Rollback, Restart
<1> QED
  BY <1>1, <1>2, <1>3

LEMMA RefersKept ==
  ASSUME TInv, JobsNext
  PROVE  \A t \in Session : Refers(t)'
PROOF
<1> USE DEF TInv
<1> DEFINE Quiet == {"idle", "submitting", "done"}
           Kept(t) == call'[t].at \in Quiet
                      \/ /\ call[t].at \notin Quiet
                         /\ call'[t].job = call[t].job
                      \/ /\ call'[t].job \in Job
                         /\ job[call'[t].job] # None
<1>1. ASSUME NEW t \in Session, Kept(t) PROVE Refers(t)'
  <2>1. CASE call'[t].at \in Quiet
    BY <2>1 DEF Refers
  <2>2. CASE call[t].at \notin Quiet /\ call'[t].job = call[t].job
    <3>1. call[t].job \in Job
      <4>1. call[t] \in Calls
        BY DEF JobsTypeOK
      <4> QED
        BY <2>2, <4>1 DEF Calls, Idle, Reading, Running, Publishing, Done
    <3>2. job'[call[t].job] # None
      BY <2>2, <3>1, RowsStay DEF Refers
    <3> QED
      BY <2>2, <3>2 DEF Refers
  <2>3. CASE call'[t].job \in Job /\ job[call'[t].job] # None
    <3>1. job'[call'[t].job] # None
      BY <2>3, RowsStay
    <3> QED
      BY <3>1 DEF Refers
  <2> QED
    BY <1>1, <2>1, <2>2, <2>3
<1>2. ASSUME NEW t \in Session, call'[t] = call[t] PROVE Refers(t)'
  <2>1. CASE call[t].at \in Quiet
    BY <1>1, <1>2, <2>1
  <2>2. CASE call[t].at \notin Quiet
    BY <1>1, <1>2, <2>2
  <2> QED
    BY <2>1, <2>2
<1>3. ASSUME NEW s \in Session, NEW c, Moves(s, c),
             \/ c.at \in Quiet
             \/ call[s].at \notin Quiet /\ c.job = call[s].job
             \/ c.job \in Job /\ job[c.job] # None
      PROVE  \A t \in Session : Refers(t)'
  <2>1. call'[s] = c /\ \A t \in Session \ {s} : call'[t] = call[t]
    BY <1>3 DEF Moves, JobsTypeOK
  <2>2. Refers(s)'
    BY <1>1, <1>3, <2>1
  <2>3. \A t \in Session \ {s} : Refers(t)'
    BY <1>2, <2>1
  <2> QED
    BY <2>2, <2>3
<1> HIDE DEF Kept
<1>4. ASSUME NEW s \in Session, Submit(s) PROVE \A t \in Session : Refers(t)'
  BY <1>3, <1>4 DEF Submit
<1>5. ASSUME NEW s \in Session, NEW j, NEW row, Written(s, j, row)
      PROVE  \A t \in Session : Refers(t)'
  BY <1>3, <1>5 DEF Written
<1>6. ASSUME NEW s \in Session, NEW j \in Job, job[j] # None, NEW at, Reads(s, j, at)
      PROVE  \A t \in Session : Refers(t)'
  BY <1>3, <1>6 DEF Reads
<1>7. ASSUME NEW s \in Session, NEW q \in QueueName, NEW j \in Job, Take(s, q, j)
      PROVE  \A t \in Session : Refers(t)'
  <2>1. CASE job[j] # None /\ job[j].status = "QUEUED"
    BY <1>6, <1>7, <2>1 DEF Take
  <2>2. CASE ~(job[j] # None /\ job[j].status = "QUEUED")
    BY <1>2, <1>7, <2>2 DEF Take
  <2> QED
    BY <2>1, <2>2
<1>8. ASSUME NEW s \in Session, Claim(s) PROVE \A t \in Session : Refers(t)'
  BY <1>3, <1>8 DEF Claim
<1>9. ASSUME NEW s \in Session, Fail(s) \/ Complete(s) PROVE \A t \in Session : Refers(t)'
  <2>1. PICK c : Moves(s, c) /\ c.at = "done"
    BY <1>9 DEF Fail, Complete, RunEnds
  <2> QED
    BY <1>3, <2>1
<1>10. ASSUME NEW s \in Session, Emit(s) \/ Break(s) PROVE \A t \in Session : Refers(t)'
  <2>1. PICK c : Moves(s, c) /\ call[s].at \notin Quiet /\ c.job = call[s].job
    BY <1>10 DEF Emit, Break
  <2> QED
    BY <1>3, <2>1
<1>11. ASSUME NEW s \in Session, NEW sub \in Subscription, NEW o \in Outcome, Deliver(s, sub, o)
       PROVE  \A t \in Session : Refers(t)'
  <2>1. call[s] \in Publishing
    BY <1>11, Kinds DEF Deliver
  <2>2. Moves(s, [call[s] EXCEPT !.draft = Handled(call[s].draft, sub, o)])
    BY <1>11 DEF Deliver, Moves
  <2>3. call[s].at \notin Quiet
    BY <1>11 DEF Deliver
  <2>4. [call[s] EXCEPT !.draft = Handled(call[s].draft, sub, o)].job = call[s].job
    BY <2>1 DEF Publishing
  <2> QED
    BY <1>3, <2>2, <2>3, <2>4
<1>12. ASSUME NEW s \in Session, NEW j \in Job, Cancel(s, j) \/ Retry(s, j) \/ Replay(s, j)
       PROVE  \A t \in Session : Refers(t)'
  BY <1>6, <1>12 DEF Cancel, Retry, Replay, Known
<1>13. ASSUME NEW s \in Session, NEW j \in Job,
              Insert(s, j) \/ WriteCancel(s) \/ WriteRetry(s) \/ WriteReplay(s)
       PROVE  \A t \in Session : Refers(t)'
  BY <1>5, <1>13 DEF Insert, WriteCancel, WriteRetry, WriteReplay
<1>14. ASSUME NEW s \in Session, Commit(s) \/ Rollback(s) PROVE \A t \in Session : Refers(t)'
  BY <1>3, <1>14 DEF Commit, Rollback, Idle
<1>15. ASSUME NEW j \in Job, NEW q \in QueueName, Redeliver(j, q)
       PROVE  \A t \in Session : Refers(t)'
  BY <1>2, <1>15 DEF Redeliver
<1>16. CASE Restart
  BY <1>16 DEF Restart, Refers, Idle
<1>17. ASSUME NEW s \in Session, WriteCancel(s) \/ WriteRetry(s) \/ WriteReplay(s)
       PROVE  \A t \in Session : Refers(t)'
  BY <1>5, <1>17 DEF WriteCancel, WriteRetry, WriteReplay
<1> QED
  BY <1>4, <1>7, <1>8, <1>9, <1>10, <1>11, <1>12, <1>13, <1>14, <1>15, <1>16, <1>17
     DEF JobsNext, Requests, Runs

(***************************************************************************)
(* The bus.                                                                *)
(***************************************************************************)

(* A draft fits behind a log: every smaller number is there, and its own is *)
(* the one after the greatest that was there when it was drawn.             *)
Fits(d, log) ==
  /\ d \in EventOf(Job)
  /\ \A n \in 1 .. d.number - 1 : \E i \in 1 .. Len(log) : log[i].number = n
  /\ d.after <= Len(log)
  /\ \A i \in 1 .. d.after : log[i].number < d.number
  /\ d.number = 1 \/ \E i \in 1 .. d.after : d.number = log[i].number + 1

BusInv ==
  /\ outbox \in Seq(EventOf(Job))
  /\ Counted
  /\ SequenceFollowsCommits
  /\ EachSubscriberTried
  /\ \A k \in 1 .. Len(outbox) : outbox[k].after <= Len(outbox)

LEMMA DraftFits ==
  ASSUME JobsTypeOK, BusInv, NEW j \in Job
  PROVE  Fits(Draft(j), outbox)
PROOF
<1> DEFINE d == Draft(j)
<1>1. NextNumber \in Nat /\ \A m \in Numbers : m < NextNumber
  BY Next DEF BusInv
<1>2. d \in EventOf(Job) /\ d.number = NextNumber /\ d.after = Len(outbox)
  BY <1>1, Drafts DEF Draft
<1>3. Len(outbox) \in Nat /\ \A i \in 1 .. Len(outbox) : outbox[i].number \in Nat
  <2>1. Len(outbox) \in Nat /\ \A i \in 1 .. Len(outbox) : outbox[i] \in EventOf(Job)
    BY DEF BusInv
  <2> QED
    BY <2>1 DEF EventOf
<1>4. ASSUME NEW n \in 1 .. NextNumber - 1 PROVE n \in Numbers
  <2>1. outbox # << >>
    BY <1>4, Next DEF BusInv
  <2>2. NextNumber - 1 \in Numbers
    BY <2>1, Next DEF BusInv
  <2>3. PICK i \in 1 .. Len(outbox) : outbox[i].number = NextNumber - 1
    BY <2>2 DEF Numbers
  <2> QED
    BY <1>4, <2>3 DEF BusInv, SequenceFollowsCommits
<1>5. \A i \in 1 .. Len(outbox) : outbox[i].number < NextNumber
  BY <1>1 DEF Numbers
<1> HIDE DEF d
<1>6. \A n \in 1 .. d.number - 1 : \E i \in 1 .. Len(outbox) : outbox[i].number = n
  BY <1>2, <1>4 DEF Numbers
<1>7. d.after <= Len(outbox) /\ \A i \in 1 .. d.after : outbox[i].number < d.number
  BY <1>2, <1>3, <1>5
<1>8. d.number = 1 \/ \E i \in 1 .. d.after : d.number = outbox[i].number + 1
  <2>1. CASE outbox = << >>
    BY <1>2, <2>1, Next DEF BusInv
  <2>2. CASE outbox # << >>
    <3>1. NextNumber - 1 \in Numbers
      BY <2>2, Next DEF BusInv
    <3>2. PICK i \in 1 .. Len(outbox) : outbox[i].number = NextNumber - 1
      BY <3>1 DEF Numbers
    <3> QED
      BY <1>1, <1>2, <1>3, <3>2
  <2> QED
    BY <2>1, <2>2
<1>9. Fits(d, outbox)
  BY <1>2, <1>6, <1>7, <1>8 DEF Fits
<1> QED
  BY <1>9 DEF d

(* What an event that is appended to the outbox does to it. *)
LEMMA Appended ==
  ASSUME BusInv, NEW d, Fits(d, outbox), Dispatched(d), outbox' = outbox \o <<d>>
  PROVE  BusInv' /\ \A e : Fits(e, outbox) => Fits(e, outbox')
PROOF
<1> DEFINE n == Len(outbox)
<1>1. n \in Nat /\ \A i \in 1 .. n : outbox[i] \in EventOf(Job)
  BY DEF BusInv
<1>2. d \in EventOf(Job)
  BY DEF Fits
<1>3. /\ outbox' \in Seq(EventOf(Job))
      /\ Len(outbox') = n + 1
      /\ \A i \in 1 .. n : outbox'[i] = outbox[i]
      /\ outbox'[n + 1] = d
  BY <1>2 DEF BusInv
<1>4. \A i \in 1 .. n : outbox[i].number \in Nat /\ outbox[i].after \in Nat
  BY <1>1 DEF EventOf
<1>5. d.number \in Nat /\ d.after \in Nat
  BY <1>2 DEF EventOf
<1> HIDE DEF n
<1>6. \A i \in 1 .. n + 1 : i \in 1 .. n \/ i = n + 1
  BY <1>1
<1>7. Numbers' = Numbers \cup {d.number}
  <2>1. Numbers = {outbox[i].number : i \in 1 .. n}
    BY DEF Numbers, n
  <2>2. Numbers' = {outbox'[i].number : i \in 1 .. n + 1}
    BY <1>3 DEF Numbers
  <2>3. Numbers' \subseteq Numbers \cup {d.number}
    BY <1>3, <1>6, <2>1, <2>2
  <2>4. Numbers \subseteq Numbers'
    <3>1. ASSUME NEW i \in 1 .. n PROVE outbox[i].number \in Numbers'
      BY <1>1, <1>3, <2>2
    <3> QED
      BY <2>1, <3>1
  <2>5. d.number \in Numbers'
    BY <1>1, <1>3, <2>2
  <2> QED
    BY <2>3, <2>4, <2>5
<1>8. Numbers \subseteq Nat
  BY <1>4 DEF Numbers, n
<1>9. Counted'
  <2>1. CASE outbox = << >>
    <3>1. Numbers = {}
      BY <2>1 DEF Numbers
    <3> QED
      BY <1>5, <1>7, <3>1 DEF Counted
  <2>2. CASE outbox # << >>
    <3>1. PICK top \in Numbers : \A m \in Numbers : m <= top
      BY <2>2 DEF BusInv, Counted
    <3>2. CASE d.number <= top
      BY <1>7, <3>1, <3>2 DEF Counted
    <3>3. CASE ~(d.number <= top)
      <4>1. \A m \in Numbers' : m <= d.number
        BY <1>5, <1>7, <1>8, <3>1, <3>3
      <4>2. d.number \in Numbers'
        BY <1>7
      <4> QED
        BY <4>1, <4>2 DEF Counted
    <3> QED
      BY <3>2, <3>3
  <2> QED
    BY <2>1, <2>2
<1>10. SequenceFollowsCommits'
  <2>1. ASSUME NEW i \in 1 .. n + 1, NEW m \in 1 .. outbox'[i].number
        PROVE  m \in Numbers'
    <3>1. CASE i \in 1 .. n
      BY <1>3, <1>7, <2>1, <3>1 DEF BusInv, SequenceFollowsCommits, n
    <3>2. CASE i = n + 1
      <4>1. m \in 1 .. d.number
        BY <1>3, <3>2
      <4>2. m = d.number \/ m \in 1 .. d.number - 1
        BY <1>5, <4>1
      <4> QED
        BY <1>7, <4>2 DEF Fits, Numbers
    <3> QED
      BY <1>6, <3>1, <3>2
  <2>2. ASSUME NEW i \in 1 .. n + 1, NEW k \in 1 .. n + 1, i <= outbox'[k].after
        PROVE  outbox'[i].number < outbox'[k].number
    <3>1. CASE k \in 1 .. n
      <4>1. outbox'[k] = outbox[k] /\ outbox[k].after <= n
        BY <1>3, <3>1 DEF BusInv, n
      <4>2. outbox[k].after \in Nat /\ i <= outbox[k].after
        BY <1>4, <2>2, <3>1, <4>1
      <4>3. i \in 1 .. n
        BY <1>1, <4>1, <4>2
      <4> QED
        BY <1>3, <3>1, <4>1, <4>2, <4>3 DEF BusInv, SequenceFollowsCommits, n
    <3>2. CASE k = n + 1
      <4>1. outbox'[k] = d /\ d.after <= n
        BY <1>3, <3>2 DEF Fits, n
      <4>2. i <= d.after
        BY <2>2, <4>1
      <4>3. i \in 1 .. n /\ i \in 1 .. d.after
        BY <1>1, <1>5, <4>1, <4>2
      <4> QED
        BY <1>3, <4>1, <4>3 DEF Fits
    <3> QED
      BY <1>6, <3>1, <3>2
  <2> QED
    BY <1>3, <2>1, <2>2 DEF SequenceFollowsCommits
<1>11. EachSubscriberTried'
  <2>1. ASSUME NEW i \in 1 .. n + 1 PROVE Undelivered(outbox'[i]) = {}
    <3>1. CASE i \in 1 .. n
      BY <1>3, <3>1 DEF BusInv, EachSubscriberTried, n
    <3>2. CASE i = n + 1
      BY <1>3, <3>2 DEF Dispatched
    <3> QED
      BY <1>6, <3>1, <3>2
  <2> QED
    BY <1>3, <2>1 DEF EachSubscriberTried
<1>12. \A k \in 1 .. n + 1 : outbox'[k].after <= n + 1
  <2>1. \A k \in 1 .. n : outbox[k].after <= n
    BY DEF BusInv, n
  <2>2. d.after <= n
    BY DEF Fits, n
  <2> QED
    BY <1>1, <1>3, <1>4, <1>5, <1>6, <2>1, <2>2
<1>13. BusInv'
  BY <1>3, <1>9, <1>10, <1>11, <1>12 DEF BusInv
<1>14. ASSUME NEW e, Fits(e, outbox) PROVE Fits(e, outbox')
  <2>1. e \in EventOf(Job) /\ e.after <= n /\ \A i \in 1 .. e.after : outbox[i].number < e.number
    BY <1>14 DEF Fits, n
  <2>2. e.after \in Nat
    BY <2>1 DEF EventOf
  <2>3. \A i \in 1 .. e.after : outbox'[i].number < e.number
    BY <1>1, <1>3, <2>1, <2>2
  <2>4. ASSUME NEW m \in 1 .. e.number - 1
        PROVE  \E i \in 1 .. n + 1 : outbox'[i].number = m
    <3>1. PICK i \in 1 .. n : outbox[i].number = m
      BY <1>14 DEF Fits, n
    <3> QED
      BY <1>1, <1>3, <3>1
  <2>5. e.after <= Len(outbox')
    BY <1>1, <1>3, <2>1, <2>2
  <2>6. e.number = 1 \/ \E i \in 1 .. e.after : e.number = outbox'[i].number + 1
    <3>1. e.number = 1 \/ \E i \in 1 .. e.after : e.number = outbox[i].number + 1
      BY <1>14 DEF Fits
    <3>2. \A i \in 1 .. e.after : outbox'[i] = outbox[i]
      BY <1>1, <1>3, <2>1, <2>2
    <3> QED
      BY <3>1, <3>2
  <2> QED
    BY <1>3, <2>1, <2>3, <2>4, <2>5, <2>6 DEF Fits
<1> QED
  BY <1>13, <1>14

(***************************************************************************)
(* Counting.                                                               *)
(***************************************************************************)

(* The places of a sequence that hold a member of V, and one more element. *)
Places(s, V) == {i \in 1 .. Len(s) : s[i] \in V}

LEMMA OneMorePlace ==
  ASSUME NEW S, NEW s \in Seq(S), NEW e \in S, NEW V
  PROVE  /\ Cardinality(Places(s, V)) \in Nat
         /\ Cardinality(Places(s \o <<e>>, V))
              = Cardinality(Places(s, V)) + (IF e \in V THEN 1 ELSE 0)
PROOF
<1> DEFINE t == s \o <<e>>
           n == Len(s)
<1>1. n \in Nat /\ Len(t) = n + 1 /\ t[n + 1] = e /\ \A i \in 1 .. n : t[i] = s[i]
  OBVIOUS
<1>2. Places(s, V) = {i \in 1 .. n : s[i] \in V}
  BY DEF Places
<1>3. Places(t, V) = {i \in 1 .. n + 1 : t[i] \in V}
  BY <1>1 DEF Places
<1> HIDE DEF t, n
<1>4. IsFiniteSet(1 .. n)
  BY <1>1, FS_Interval
<1>5. IsFiniteSet(Places(s, V)) /\ Cardinality(Places(s, V)) \in Nat
  <2>1. Places(s, V) \in SUBSET (1 .. n)
    BY <1>2
  <2> QED
    BY <1>4, <2>1, FS_Subset, FS_CardinalityType
<1>6. CASE e \in V
  <2>1. Places(t, V) = Places(s, V) \cup {n + 1}
    BY <1>1, <1>2, <1>3, <1>6
  <2>2. n + 1 \notin Places(s, V)
    BY <1>1, <1>2
  <2> QED
    BY <1>5, <1>6, <2>1, <2>2, FS_AddElement DEF t
<1>7. CASE e \notin V
  <2>1. Places(t, V) = Places(s, V)
    BY <1>1, <1>2, <1>3, <1>7
  <2> QED
    BY <1>5, <1>7, <2>1 DEF t
<1> QED
  BY <1>5, <1>6, <1>7 DEF t

(***************************************************************************)
(* The invariant.                                                          *)
(***************************************************************************)

(* What a session is about to commit: a row alone, a run that failed, or a *)
(* run that completed with its event.                                      *)
Ended == {"COMPLETED", "FAILED"}

Reports(c, log) ==
  \/ c.event = << >> /\ c.result = << >> /\ c.row.status \notin Ended
  \/ c.event = << >> /\ c.result = <<"FAILED">> /\ c.row.status = "FAILED"
  \/ \E d : /\ c.event = <<d>> /\ d.about = c.job
            /\ Fits(d, log) /\ Dispatched(d)
            /\ c.result = <<"COMPLETED">> /\ c.row.status = "COMPLETED"

Sound(c, log) ==
  /\ c.at = "publishing" => Fits(c.draft, log) /\ c.draft.about = c.job
  /\ c.at = "done" => Reports(c, log)

JInv ==
  /\ TInv
  /\ BusInv
  /\ OutboxTellsRuns
  /\ \A s \in Session : Sound(call[s], outbox)

(* A step that commits nothing leaves the tables alone; a committed session *)
(* leaves what it reported.                                                 *)
LEMMA Steps ==
  ASSUME JobsNext
  PROVE  (UNCHANGED <<job, result, outbox>>) \/ \E s \in Session : Commit(s)
PROOF
<1>1. ASSUME NEW s \in Session, Requests(s) PROVE UNCHANGED <<job, result, outbox>>
  BY <1>1 DEF Requests, Submit, Insert, Cancel, WriteCancel, Retry, WriteRetry, Replay, WriteReplay
<1>2. ASSUME NEW s \in Session, Runs(s) PROVE UNCHANGED <<job, result, outbox>>
  BY <1>2 DEF Runs, Take, Claim, Fail, RunEnds, Emit, Deliver, Break, Complete
<1>3. ASSUME NEW s \in Session, Rollback(s) PROVE UNCHANGED <<job, result, outbox>>
  BY <1>3 DEF Rollback
<1>4. ASSUME NEW j, NEW q, Redeliver(j, q) PROVE UNCHANGED <<job, result, outbox>>
  BY <1>4 DEF Redeliver
<1>5. CASE Restart
  BY <1>5 DEF Restart
<1> QED
  BY <1>1, <1>2, <1>3, <1>4, <1>5 DEF JobsNext

LEMMA SameBus ==
  ASSUME BusInv, outbox' = outbox
  PROVE  BusInv'
PROOF
<1>1. Counted'
  BY DEF BusInv, Counted, Numbers
<1>2. SequenceFollowsCommits'
  BY DEF BusInv, SequenceFollowsCommits, Numbers
<1>3. EachSubscriberTried'
  BY DEF BusInv, EachSubscriberTried
<1> QED
  BY <1>1, <1>2, <1>3 DEF BusInv

LEMMA BusKept ==
  ASSUME JInv, JobsNext
  PROVE  BusInv' /\ \A e : Fits(e, outbox) => Fits(e, outbox')
PROOF
<1>1. CASE outbox' = outbox
  BY <1>1, SameBus DEF JInv
<1>2. ASSUME NEW s \in Session, Commit(s)
      PROVE  BusInv' /\ \A e : Fits(e, outbox) => Fits(e, outbox')
  <2>1. Reports(call[s], outbox) /\ outbox' = outbox \o call[s].event
    BY <1>2 DEF Commit, JInv, Sound
  <2>2. CASE call[s].event = << >>
    BY <1>1, <2>1, <2>2 DEF JInv, BusInv
  <2>3. CASE \E d : call[s].event = <<d>> /\ Fits(d, outbox) /\ Dispatched(d)
    BY <2>1, <2>3, Appended DEF JInv
  <2> QED
    BY <2>1, <2>2, <2>3 DEF Reports
<1> QED
  BY <1>1, <1>2, Steps

LEMMA SoundKept ==
  ASSUME JInv, JobsNext
  PROVE  \A t \in Session : Sound(call'[t], outbox')
PROOF
<1>0. JobsTypeOK
  BY DEF JInv, TInv
<1>1. ASSUME NEW c, Sound(c, outbox) PROVE Sound(c, outbox')
  <2>1. \A e : Fits(e, outbox) => Fits(e, outbox')
    BY BusKept
  <2> QED
    BY <1>1, <2>1 DEF Sound, Reports
<1>2. \A t \in Session : Sound(call[t], outbox')
  BY <1>1 DEF JInv
<1>3. ASSUME NEW s \in Session, NEW c, Moves(s, c), Sound(c, outbox)
      PROVE  \A t \in Session : Sound(call'[t], outbox')
  BY <1>0, <1>1, <1>2, <1>3 DEF Moves, JobsTypeOK
<1>4. ASSUME NEW c, c.at \notin {"publishing", "done"} PROVE Sound(c, outbox)
  BY <1>4 DEF Sound
<1>5. ASSUME NEW s \in Session, Submit(s) PROVE \A t \in Session : Sound(call'[t], outbox')
  BY <1>3, <1>4, <1>5 DEF Submit
<1>6. ASSUME NEW s \in Session, NEW j, NEW row, row.status \notin Ended, Written(s, j, row)
      PROVE  \A t \in Session : Sound(call'[t], outbox')
  <2> DEFINE c == [at |-> "done", job |-> j, row |-> row, result |-> << >>, event |-> << >>]
  <2>1. Sound(c, outbox)
    BY <1>6 DEF Sound, Reports
  <2>2. Moves(s, c)
    BY <1>6 DEF Written
  <2> HIDE DEF c
  <2> QED
    BY <1>3, <2>1, <2>2
<1>7. ASSUME NEW s \in Session, NEW j, NEW at, at \notin {"publishing", "done"}, Reads(s, j, at)
      PROVE  \A t \in Session : Sound(call'[t], outbox')
  BY <1>3, <1>4, <1>7 DEF Reads
<1>8. ASSUME NEW s \in Session, NEW j \in Job, Insert(s, j)
      PROVE  \A t \in Session : Sound(call'[t], outbox')
  BY <1>6, <1>8 DEF Insert, Ended
<1>9. ASSUME NEW s \in Session, NEW q \in QueueName, NEW j \in Job, Take(s, q, j)
      PROVE  \A t \in Session : Sound(call'[t], outbox')
  <2>1. CASE call' = call
    BY <1>2, <2>1
  <2>2. CASE Reads(s, j, "claiming")
    BY <1>7, <2>2
  <2> QED
    BY <1>9, <2>1, <2>2 DEF Take
<1>10. ASSUME NEW s \in Session, Claim(s) \/ Break(s)
       PROVE  \A t \in Session : Sound(call'[t], outbox')
  BY <1>3, <1>4, <1>10 DEF Claim, Break
<1>11. ASSUME NEW s \in Session, NEW status, NEW event, RunEnds(s, status, event),
              call[s].job \in Job, job[call[s].job] # None, status \in Ended,
              \/ event = << >> /\ status = "FAILED"
              \/ \E d : /\ event = <<d>> /\ d.about = call[s].job /\ Fits(d, outbox)
                        /\ Dispatched(d) /\ status = "COMPLETED"
       PROVE  \A t \in Session : Sound(call'[t], outbox')
  <2> DEFINE row == [job[call[s].job] EXCEPT !.status = status]
             c == [at |-> "done", job |-> call[s].job, row |-> row,
                   result |-> <<status>>, event |-> event]
  <2>1. row.status = status
    <3>1. job[call[s].job] \in JobRow
      BY <1>0, <1>11 DEF JobsTypeOK
    <3> QED
      BY <3>1 DEF JobRow
  <2>2. c.at = "done" /\ c.job = call[s].job /\ c.row.status = status
        /\ c.result = <<status>> /\ c.event = event
    BY <2>1
  <2>3. Moves(s, c)
    BY <1>11 DEF RunEnds
  <2> HIDE DEF c
  <2>4. Sound(c, outbox)
    BY <1>11, <2>2 DEF Sound, Reports
  <2> QED
    BY <1>3, <2>3, <2>4
<1>12. ASSUME NEW s \in Session, Fail(s) PROVE \A t \in Session : Sound(call'[t], outbox')
  <2>1. call[s].job \in Job /\ job[call[s].job] # None
    BY <1>0, <1>12, Kinds DEF Fail, JInv, TInv, Refers
  <2> QED
    BY <1>11, <1>12, <2>1 DEF Fail, Ended
<1>13. ASSUME NEW s \in Session, Complete(s)
       PROVE  \A t \in Session : Sound(call'[t], outbox')
  <2>1. call[s].job \in Job /\ job[call[s].job] # None
    BY <1>0, <1>13, Kinds DEF Complete, JInv, TInv, Refers
  <2>2. Fits(call[s].draft, outbox) /\ call[s].draft.about = call[s].job
    BY <1>13 DEF Complete, JInv, Sound
  <2> QED
    BY <1>11, <1>13, <2>1, <2>2 DEF Complete, Ended
<1>14. ASSUME NEW s \in Session, Emit(s) PROVE \A t \in Session : Sound(call'[t], outbox')
  <2> DEFINE c == [at |-> "publishing", job |-> call[s].job, draft |-> Draft(call[s].job)]
  <2>1. call[s].job \in Job
    BY <1>0, <1>14, Kinds DEF Emit
  <2>2. Fits(Draft(call[s].job), outbox)
    BY <1>0, <2>1, DraftFits DEF JInv
  <2>3. Draft(call[s].job).about = call[s].job
    BY DEF Draft
  <2>4. Sound(c, outbox)
    BY <2>2, <2>3 DEF Sound
  <2>5. Moves(s, c)
    BY <1>14 DEF Emit
  <2> HIDE DEF c
  <2> QED
    BY <1>3, <2>4, <2>5
<1>15. ASSUME NEW s \in Session, NEW sub \in Subscription, NEW o \in Outcome, Deliver(s, sub, o)
       PROVE  \A t \in Session : Sound(call'[t], outbox')
  <2> DEFINE d == Handled(call[s].draft, sub, o)
             c == [call[s] EXCEPT !.draft = d]
  <2>1. call[s] \in Publishing /\ call[s].draft \in EventOf(Job)
    BY <1>0, <1>15, Kinds DEF Deliver
  <2>2. Fits(call[s].draft, outbox) /\ call[s].draft.about = call[s].job
    BY <1>15 DEF Deliver, JInv, Sound
  <2>3. /\ d \in EventOf(Job)
        /\ d.about = call[s].draft.about
        /\ d.number = call[s].draft.number
        /\ d.after = call[s].draft.after
    BY <2>1 DEF Handled, EventOf, Outcome, DeliveryStatus
  <2>4. Moves(s, c)
    BY <1>15 DEF Deliver, Moves
  <2> HIDE DEF d
  <2>5. Fits(d, outbox)
    BY <2>2, <2>3 DEF Fits
  <2>6. c.at = "publishing" /\ c.draft = d /\ c.job = call[s].job
    BY <2>1 DEF Publishing
  <2> HIDE DEF c
  <2>7. Sound(c, outbox)
    BY <2>2, <2>3, <2>5, <2>6 DEF Sound
  <2> QED
    BY <1>3, <2>4, <2>7
<1>16. ASSUME NEW s \in Session, NEW j \in Job, Cancel(s, j) \/ Retry(s, j) \/ Replay(s, j)
       PROVE  \A t \in Session : Sound(call'[t], outbox')
  BY <1>7, <1>16 DEF Cancel, Retry, Replay
<1>17. ASSUME NEW s \in Session, WriteCancel(s) \/ WriteRetry(s) \/ WriteReplay(s)
       PROVE  \A t \in Session : Sound(call'[t], outbox')
  <2>1. call[s].job \in Job /\ job[call[s].job] \in JobRow
    <3>1. call[s].job \in Job /\ job[call[s].job] # None
      BY <1>0, <1>17, Kinds DEF WriteCancel, WriteRetry, WriteReplay, JInv, TInv, Refers
    <3> QED
      BY <1>0, <3>1 DEF JobsTypeOK
  <2>2. \A status \in JobStatus :
          [job[call[s].job] EXCEPT !.status = status].status = status
    BY <2>1 DEF JobRow
  <2>3. PICK row : Written(s, call[s].job, row) /\ row.status \notin Ended
    <3>1. CASE WriteCancel(s)
      BY <2>2, <3>1 DEF WriteCancel, Ended, JobStatus
    <3>2. CASE WriteRetry(s) /\ Spent(call[s].read)
      BY <2>2, <3>2 DEF WriteRetry, Ended, JobStatus
    <3>3. CASE WriteRetry(s) /\ ~Spent(call[s].read)
      BY <3>3 DEF WriteRetry, Ended
    <3>4. CASE WriteReplay(s)
      BY <3>4 DEF WriteReplay, Ended
    <3> QED
      BY <1>17, <3>1, <3>2, <3>3, <3>4
  <2> QED
    BY <1>6, <2>3
<1>18. ASSUME NEW s \in Session, Commit(s) \/ Rollback(s)
       PROVE  \A t \in Session : Sound(call'[t], outbox')
  BY <1>3, <1>4, <1>18 DEF Commit, Rollback, Idle
<1>19. ASSUME NEW j \in Job, NEW q \in QueueName, Redeliver(j, q)
       PROVE  \A t \in Session : Sound(call'[t], outbox')
  BY <1>2, <1>19 DEF Redeliver
<1>20. CASE Restart
  BY <1>20 DEF Restart, Sound, Idle
<1> QED
  BY <1>5, <1>8, <1>9, <1>10, <1>12, <1>13, <1>14, <1>15, <1>16, <1>17, <1>18, <1>19, <1>20
     DEF JobsNext, Requests, Runs

LEMMA OutboxKept ==
  ASSUME JInv, JobsNext
  PROVE  OutboxTellsRuns'
PROOF
<1> DEFINE About(j) == {e \in EventOf(Job) : e.about = j}
           Good == {"COMPLETED"}
<1>1. \A j \in Job : Told(j) = Places(outbox, About(j)) /\ Completed(j) = Places(result[j], Good)
  BY DEF Told, Completed, Places, JInv, BusInv
<1>2. \A j \in Job : Told(j)' = Places(outbox', About(j)) /\ Completed(j)' = Places(result'[j], Good)
  BY BusKept DEF Told, Completed, Places, BusInv
<1>3. \A j \in Job : result[j] \in Seq(Ended)
  BY DEF JInv, TInv, JobsTypeOK, Ended
<1>4. outbox \in Seq(EventOf(Job))
  BY DEF JInv, BusInv
<1> DEFINE Tells(j) == Cardinality(Places(outbox', About(j))) = Cardinality(Places(result'[j], Good))
           Last(j) == (job'[j] # None /\ job'[j].status \in Ended) =>
                         /\ result'[j] # << >>
                         /\ job'[j].status = result'[j][Len(result'[j])]
<1>5. ASSUME NEW j \in Job
      PROVE  /\ Cardinality(Places(outbox, About(j))) = Cardinality(Places(result[j], Good))
             /\ (job[j] # None /\ job[j].status \in Ended) =>
                   result[j] # << >> /\ job[j].status = result[j][Len(result[j])]
  BY <1>1 DEF JInv, OutboxTellsRuns, Ended
<1>6. ASSUME \A j \in Job : Tells(j) /\ Last(j) PROVE OutboxTellsRuns'
  <2>1. ASSUME NEW j \in Job PROVE Cardinality(Told(j)') = Cardinality(Completed(j)')
    BY <1>2, <1>6
  <2> QED
    BY <1>6, <2>1 DEF OutboxTellsRuns, Ended
<1>7. CASE UNCHANGED <<job, result, outbox>>
  BY <1>5, <1>6, <1>7
<1>8. ASSUME NEW s \in Session, Commit(s) PROVE OutboxTellsRuns'
  <2> DEFINE c == call[s]
  <2>1. Reports(c, outbox) /\ c.job \in Job
    BY <1>8, Kinds DEF Commit, JInv, TInv, Sound
  <2>2. /\ outbox' = outbox \o c.event
        /\ result'[c.job] = result[c.job] \o c.result
        /\ job'[c.job] = c.row
        /\ \A j \in Job \ {c.job} : result'[j] = result[j] /\ job'[j] = job[j]
    BY <1>8, <2>1 DEF Commit, JInv, TInv, JobsTypeOK
  <2> HIDE DEF c
  <2>3. ASSUME NEW j \in Job \ {c.job} PROVE Tells(j) /\ Last(j)
    <3>1. Cardinality(Places(outbox', About(j))) = Cardinality(Places(outbox, About(j)))
      <4>1. CASE c.event = << >>
        BY <1>4, <2>2, <4>1
      <4>2. ASSUME NEW d, c.event = <<d>>, d.about = c.job, Fits(d, outbox)
            PROVE  Cardinality(Places(outbox', About(j))) = Cardinality(Places(outbox, About(j)))
        <5>1. d \in EventOf(Job) /\ d \notin About(j)
          BY <2>3, <4>2 DEF Fits
        <5> HIDE DEF About
        <5> QED
          BY <1>4, <2>2, <4>2, <5>1, OneMorePlace
      <4> QED
        BY <2>1, <4>1, <4>2 DEF Reports
    <3> QED
      BY <1>5, <2>2, <2>3, <3>1
  <2> DEFINE r == result[c.job]
  <2>4. r \in Seq(Ended)
    BY <1>3, <2>1
  <2>5. ASSUME NEW status \in Ended, c.result = <<status>>, c.row.status = status PROVE Last(c.job)
    BY <2>2, <2>4, <2>5
  <2>6. ASSUME c.event = << >>, c.result = << >>, c.row.status \notin Ended
        PROVE  Tells(c.job) /\ Last(c.job)
    <3>1. outbox' = outbox /\ result'[c.job] = r
      BY <1>4, <2>2, <2>4, <2>6
    <3>2. Last(c.job)
      BY <2>2, <2>6
    <3>3. Tells(c.job)
      BY <1>5, <2>1, <3>1 DEF r
    <3> QED
      BY <3>2, <3>3
  <2>7. ASSUME c.event = << >>, c.result = <<"FAILED">>, c.row.status = "FAILED"
        PROVE  Tells(c.job) /\ Last(c.job)
    <3>1. outbox' = outbox
      BY <1>4, <2>2, <2>7
    <3>2. "FAILED" \in Ended /\ "FAILED" \notin Good
      BY DEF Ended
    <3> HIDE DEF Good, r
    <3>3. Cardinality(Places(r \o <<"FAILED">>, Good)) = Cardinality(Places(r, Good))
      BY <2>4, <3>2, OneMorePlace
    <3>4. Last(c.job)
      BY <2>5, <2>7, <3>2
    <3>5. Tells(c.job)
      BY <1>5, <2>1, <2>2, <2>7, <3>1, <3>3 DEF r
    <3> QED
      BY <3>4, <3>5
  <2>8. ASSUME NEW d, c.event = <<d>>, d.about = c.job, Fits(d, outbox),
               c.result = <<"COMPLETED">>, c.row.status = "COMPLETED"
        PROVE  Tells(c.job) /\ Last(c.job)
    <3>1. d \in EventOf(Job) /\ d \in About(c.job)
      BY <2>8 DEF Fits
    <3>2. "COMPLETED" \in Ended /\ "COMPLETED" \in Good
      BY DEF Ended
    <3>3. Last(c.job)
      BY <2>5, <2>8, <3>2
    <3> HIDE DEF Good, r, About, Last
    <3>4. Cardinality(Places(r \o <<"COMPLETED">>, Good)) = Cardinality(Places(r, Good)) + 1
      BY <2>4, <3>2, OneMorePlace
    <3>5. Cardinality(Places(outbox \o <<d>>, About(c.job))) = Cardinality(Places(outbox, About(c.job))) + 1
      BY <1>4, <3>1, OneMorePlace
    <3>6. Tells(c.job)
      BY <1>5, <2>1, <2>2, <2>8, <3>4, <3>5 DEF r
    <3> QED
      BY <3>3, <3>6
  <2> HIDE DEF Tells, Last
  <2>9. Tells(c.job) /\ Last(c.job)
    BY <2>1, <2>6, <2>7, <2>8 DEF Reports
  <2> QED
    BY <1>6, <2>3, <2>9
<1> QED
  BY <1>7, <1>8, Steps

LEMMA Initially ==
  ASSUME JobsInit
  PROVE  JInv
PROOF
<1> USE DEF JobsInit, BusInit
<1>1. Items(EmptyBag)
  BY DEF Items, IsABag, BagToSet, EmptyBag, SetToBag
<1>2. JobsTypeOK
  BY <1>1 DEF JobsTypeOK, Calls, Items
<1>3. \A s \in Session : Refers(s) /\ Sound(call[s], outbox)
  BY DEF Refers, Sound, Idle
<1>4. BusInv
  BY DEF BusInv, Counted, SequenceFollowsCommits, EachSubscriberTried
<1>5. OutboxTellsRuns
  <2>1. ASSUME NEW j \in Job PROVE Told(j) = Completed(j)
    <3>1. Told(j) = {} /\ Completed(j) = {}
      BY DEF Told, Completed
    <3> QED
      BY <3>1
  <2> QED
    BY <2>1 DEF OutboxTellsRuns
<1> QED
  BY <1>2, <1>3, <1>4, <1>5 DEF JInv, TInv

(* The invariant holds: types, the budget of retries, the outbox and what   *)
(* every session is about to add to it.                                     *)
THEOREM JobsInvariance == JobsSpec => []JInv
PROOF
<1>1. JobsInit => JInv
  BY Initially
<1>2. ASSUME JInv, [JobsNext]_jobVars PROVE JInv'
  <2>1. CASE JobsNext
    <3>1. TInv'
      BY <1>2, <2>1, TypeOfSteps, RefersKept DEF JInv, BusInv, TInv
    <3>2. \A t \in Session : Sound(call[t], outbox)'
      BY <1>2, <2>1, SoundKept
    <3> QED
      BY <1>2, <2>1, <3>1, <3>2, BusKept, OutboxKept DEF JInv
  <2>2. CASE UNCHANGED jobVars
    <3>1. TInv'
      BY <1>2, <2>2 DEF jobVars, JInv, TInv, JobsTypeOK, Refers
    <3>2. BusInv'
      BY <1>2, <2>2, SameBus DEF jobVars, JInv
    <3>3. OutboxTellsRuns'
      BY <1>2, <2>2 DEF jobVars, JInv, OutboxTellsRuns, Told, Completed
    <3>4. \A t \in Session : Sound(call[t], outbox)'
      BY <1>2, <2>2 DEF jobVars, JInv
    <3> QED
      BY <3>1, <3>2, <3>3, <3>4 DEF JInv
  <2> QED
    BY <1>2, <2>1, <2>2
<1> QED
  BY <1>1, <1>2, PTL DEF JobsSpec

(* Rows, queues, calls and events have their types, and no job is retried   *)
(* more often than its budget (retry_manager.py, process_failure).          *)
THEOREM JobsTypes == JobsSpec => []JobsTypeOK
PROOF
<1>1. JInv => JobsTypeOK
  BY DEF JInv, TInv
<1> QED
  BY <1>1, JobsInvariance, PTL

(* Sequence numbers have no gaps and follow the commits that a publisher    *)
(* could see (event_store.py, _next_sequence_number).                       *)
THEOREM NumbersFollowCommits == JobsSpec => []SequenceFollowsCommits
PROOF
<1>1. JInv => SequenceFollowsCommits
  BY DEF JInv, BusInv
<1> QED
  BY <1>1, JobsInvariance, PTL

(* Every subscription had its try at every committed event                  *)
(* (event_dispatcher.py, _process_delivery).                                *)
THEOREM SubscribersTried == JobsSpec => []EachSubscriberTried
PROOF
<1>1. JInv => EachSubscriberTried
  BY DEF JInv, BusInv
<1> QED
  BY <1>1, JobsInvariance, PTL

(* The outbox holds one event for each run that completed, and no other     *)
(* (job_executor.py, execute_job; event_store.py, append).                  *)
THEOREM TransactionalOutbox == JobsSpec => []OutboxTellsRuns
PROOF
<1>1. JInv => OutboxTellsRuns
  BY DEF JInv
<1> QED
  BY <1>1, JobsInvariance, PTL

(***************************************************************************)
(* The ledger.                                                             *)
(***************************************************************************)

Ends == [j \in Job |-> HowEnded(j)]

(* A job whose row is written ends as the row says. *)
LEMMA EndedAs ==
  ASSUME JobsTypeOK, NEW j \in Job, NEW row \in JobRow, job' = [job EXCEPT ![j] = row]
  PROVE  Ends' = [Ends EXCEPT ![j] = IF row.status \in Ended THEN row.status ELSE "open"]
PROOF
<1>1. job'[j] = row /\ \A k \in Job \ {j} : job'[k] = job[k]
  BY DEF JobsTypeOK
<1>2. row # None
  BY NoneAssumption
<1>3. HowEnded(j)' = IF row.status \in Ended THEN row.status ELSE "open"
  BY <1>1, <1>2 DEF HowEnded, Ended
<1>4. \A k \in Job \ {j} : HowEnded(k)' = HowEnded(k)
  BY <1>1 DEF HowEnded
<1> QED
  BY <1>3, <1>4 DEF Ends

(* The number of an event that fits is one the ledger can give it. *)
LEMMA Numbered ==
  ASSUME NEW d, outbox \in Seq(EventOf(Job)), Fits(d, outbox)
  PROVE  /\ d.after \in 0 .. Len(outbox)
         /\ d.number \in Ledger!Numbers
         /\ Ledger!Follows(d.number, d.after)
PROOF
<1>1. Len(outbox) \in Nat /\ d.after \in Nat
  BY DEF Fits, EventOf
<1>2. d.after <= Len(outbox)
  BY DEF Fits
<1>3. \A i \in 1 .. d.after : i \in 1 .. Len(outbox)
  BY <1>1, <1>2
<1>4. d.number = 1 \/ \E i \in 1 .. d.after : d.number = outbox[i].number + 1
  BY DEF Fits
<1>5. d.number \in Ledger!Numbers
  BY <1>3, <1>4 DEF Ledger!Numbers
<1> QED
  BY <1>1, <1>2, <1>4, <1>5 DEF Fits, Ledger!Follows

(* Every delivery of an event that was dispatched was tried. *)
LEMMA Tried ==
  ASSUME NEW d \in EventOf(Job), Dispatched(d)
  PROVE  d.delivery \in [Subscription -> {"DELIVERED", "RETRYING"}]
BY DEF Dispatched, Undelivered, EventOf, DeliveryStatus

(* A commit is a run that ends, a job that is opened, or nothing. *)
LEMMA CommitsEnd ==
  ASSUME JInv, NEW s \in Session, Commit(s)
  PROVE  Ledger!Next \/ (UNCHANGED <<outbox, result>> /\ Ends' = Ends)
PROOF
<1> DEFINE c == call[s]
<1>1. Reports(c, outbox) /\ c.job \in Job /\ c.row \in JobRow
  BY Kinds DEF Commit, JInv, TInv, Sound
<1>2. /\ outbox' = outbox \o c.event
      /\ result' = [result EXCEPT ![c.job] = @ \o c.result]
      /\ job' = [job EXCEPT ![c.job] = c.row]
  BY DEF Commit
<1>3. /\ outbox \in Seq(EventOf(Job))
      /\ result \in [Job -> Seq({"COMPLETED", "FAILED"})]
      /\ JobsTypeOK
  BY DEF JInv, TInv, JobsTypeOK
<1> HIDE DEF c
<1>4. Ends' = [Ends EXCEPT ![c.job] = IF c.row.status \in Ended THEN c.row.status ELSE "open"]
  BY <1>1, <1>2, <1>3, EndedAs
<1>5. CASE c.event = << >> /\ c.result = << >> /\ c.row.status \notin Ended
  <2>1. outbox' = outbox /\ result' = result
    BY <1>1, <1>2, <1>3, <1>5
  <2>2. Ends' = [Ends EXCEPT ![c.job] = "open"]
    BY <1>4, <1>5
  <2>3. CASE Ends[c.job] = "open"
    BY <2>1, <2>2, <2>3 DEF Ends
  <2>4. CASE Ends[c.job] # "open"
    BY <1>1, <2>1, <2>2, <2>4 DEF Ledger!Next, Ledger!Open, Ends
  <2> QED
    BY <2>3, <2>4
<1>6. ASSUME NEW outcome \in Ended, c.result = <<outcome>>, c.row.status = outcome
      PROVE  Ledger!Ends(c.job, outcome)
  <2>1. Ends' = [Ends EXCEPT ![c.job] = outcome]
    BY <1>4, <1>6
  <2>2. result[c.job] \o <<outcome>> = Append(result[c.job], outcome)
    BY <1>1, <1>3
  <2>3. result' = [result EXCEPT ![c.job] = Append(@, outcome)]
    BY <1>2, <1>6, <2>2
  <2> QED
    BY <2>1, <2>3 DEF Ledger!Ends, Ends
<1>7. CASE c.event = << >> /\ c.result = <<"FAILED">> /\ c.row.status = "FAILED"
  <2>1. Ledger!Ends(c.job, "FAILED")
    BY <1>6, <1>7 DEF Ended
  <2>2. outbox' = outbox
    BY <1>2, <1>3, <1>7
  <2> QED
    BY <1>1, <2>1, <2>2 DEF Ledger!Next, Ledger!Fail
<1>8. ASSUME NEW d, c.event = <<d>>, d.about = c.job, Fits(d, outbox), Dispatched(d),
             c.result = <<"COMPLETED">>, c.row.status = "COMPLETED"
      PROVE  Ledger!Next
  <2>1. Ledger!Ends(c.job, "COMPLETED")
    BY <1>6, <1>8 DEF Ended
  <2>2. d \in EventOf(Job)
    BY <1>8 DEF Fits
  <2>3. d = [about |-> c.job, number |-> d.number, after |-> d.after, delivery |-> d.delivery]
    BY <1>8, <2>2 DEF EventOf
  <2>4. outbox' = Append(outbox, d)
    BY <1>2, <1>3, <1>8, <2>2
  <2>5. d.delivery \in [Subscription -> {"DELIVERED", "RETRYING"}]
    BY <1>8, <2>2, Tried
  <2>6. /\ d.after \in 0 .. Len(outbox)
        /\ d.number \in Ledger!Numbers
        /\ Ledger!Follows(d.number, d.after)
    BY <1>3, <1>8, Numbered
  <2>7. outbox' = Append(outbox, [about |-> c.job, number |-> d.number, after |-> d.after,
                                  delivery |-> d.delivery])
    BY <2>3, <2>4
  <2>8. Ledger!Complete(c.job)
    BY <2>1, <2>5, <2>6, <2>7 DEF Ledger!Complete
  <2> QED
    BY <1>1, <2>8 DEF Ledger!Next
<1> QED
  BY <1>1, <1>5, <1>7, <1>8 DEF Reports

(* The job platform and its bus implement the ledger of runs: an outcome,  *)
(* the status of the job and the event that tells of it appear at one      *)
(* instant, and the event is numbered and was offered to every subscriber  *)
(* (job_executor.py, execute_job; event_publisher.py, publish).            *)
THEOREM LedgerImplemented == JobsSpec => LedgerSpec
PROOF
<1>1. JobsInit => Ledger!Init
  BY DEF JobsInit, BusInit, Ledger!Init, HowEnded
<1>2. ASSUME JInv, [JobsNext]_jobVars
      PROVE  Ledger!Next \/ UNCHANGED <<outbox, result, Ends>>
  <2>1. CASE UNCHANGED <<job, result, outbox>>
    BY <2>1 DEF Ends, HowEnded
  <2>2. ASSUME NEW s \in Session, Commit(s)
        PROVE  Ledger!Next \/ UNCHANGED <<outbox, result, Ends>>
    BY <1>2, <2>2, CommitsEnd
  <2>3. CASE UNCHANGED jobVars
    BY <2>1, <2>3 DEF jobVars
  <2> QED
    BY <1>2, <2>1, <2>2, <2>3, Steps
<1> QED
  BY <1>1, <1>2, JobsInvariance, PTL DEF JobsSpec, LedgerSpec, Ledger!Spec, Ends
=============================================================================
