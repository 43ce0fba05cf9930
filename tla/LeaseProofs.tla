----------------------------- MODULE LeaseProofs -----------------------------
(* Theorems about Lease.                                                   *)
EXTENDS Lease, TLAPS

\* The constants, without the product.
LEMMA Times ==
  /\ ClaimTime \in Nat /\ UrlTime \in Nat /\ Interval \in Nat
  /\ RequestTime \in Nat /\ MaxMissed \in Nat /\ Timeout \in Nat
  /\ SweepPeriod \in Nat
  /\ SleepAge \in Nat /\ ClaimTime + UrlTime <= SleepAge /\ RequestTime <= SleepAge
  /\ Null \notin Worker /\ Null \notin Id
BY LeaseAssumption DEF SleepAge

\* As long as no more than MaxMissed heartbeats failed there is room for one
\* more, and what is left after that one is the grace.
LEMMA RoomToMiss ==
  /\ Room(0) = 0
  /\ \A m \in 0..MaxMissed :
       /\ Room(m) \in Nat
       /\ Room(m + 1) = Room(m) + Interval + RequestTime
       /\ SleepAge + Room(m) + Interval + RequestTime <= Timeout
       /\ Grace(m) \in Nat
       /\ SleepAge + Room(m + 1) + Grace(m) = Timeout
<1>1. Room(0) = 0
  BY Times DEF Room
<1>2. ASSUME NEW m \in 0..MaxMissed
      PROVE /\ Room(m) \in Nat
            /\ Room(m + 1) = Room(m) + Interval + RequestTime
            /\ SleepAge + Room(m) + Interval + RequestTime <= Timeout
            /\ Grace(m) \in Nat
            /\ SleepAge + Room(m + 1) + Grace(m) = Timeout
  <2>1. Room(m) \in Nat /\ Room(MaxMissed + 1) \in Nat
    BY Times DEF Room
  <2>2. Room(m + 1) = Room(m) + Interval + RequestTime
    BY Times DEF Room
  <2>3. Room(m + 1) <= Room(MaxMissed + 1)
    <3> DEFINE d == MaxMissed - m
               p == Interval + RequestTime
    <3>1. d \in Nat /\ p \in Nat /\ MaxMissed = m + d
      BY Times
    <3>2. d * p \in Nat
      BY <3>1
    <3>3. (m + 1 + d) * p = (m + 1) * p + d * p
      BY <3>1
    <3>4. Room(MaxMissed + 1) = Room(m + 1) + d * p
      BY <3>1, <3>3 DEF Room
    <3> QED
      BY <2>1, <2>2, <3>2, <3>4, Times
  <2>4. SleepAge + Room(MaxMissed + 1) <= Timeout
    BY LeaseAssumption DEF LeaseAssumption
  <2>5. SleepAge + Room(m) + Interval + RequestTime <= Timeout
    BY <2>1, <2>2, <2>3, <2>4, Times
  <2>6. /\ Grace(m) \in Nat
        /\ SleepAge + Room(m + 1) + Grace(m) = Timeout
    BY <2>1, <2>2, <2>5, Times DEF Grace
  <2> QED
    BY <2>1, <2>2, <2>5, <2>6
<1> QED
  BY <1>1, <1>2

\* The five together are inductive: an agent keeps the lease because its row
\* is running since its claim and not yet stale, and nobody else can claim it
\* meanwhile.
IInv ==
  /\ TypeOK /\ OneHolder /\ RecoveredInTime /\ HoldersHaveTheLease
  /\ EndingIsCovered

LEMMA InitIInv == Init => IInv
BY Times DEF Init, IInv, TypeOK, OneHolder, RecoveredInTime,
   HoldersHaveTheLease, EndingIsCovered, Holding

LEMMA StepKeepsIInv == IInv /\ [Next]_vars => IInv'
<1> SUFFICES ASSUME IInv, [Next]_vars PROVE IInv'
  OBVIOUS
<1> USE DEF IInv
<1>1. ASSUME NEW w \in Worker, Claim(w) PROVE IInv'
  <2>1. TypeOK'
    BY <1>1, Times DEF Claim, TypeOK, Holding, Enter
  <2>2. OneHolder'
    BY <1>1 DEF Claim, Enter, OneHolder, HoldersHaveTheLease
  <2>3. RecoveredInTime'
    BY <1>1, Times DEF Claim, TypeOK, RecoveredInTime
  <2>4. HoldersHaveTheLease'
    BY <1>1, Times DEF Claim, TypeOK, Enter, HoldersHaveTheLease,
       LeaseCovers, Limit
  <2>5. EndingIsCovered'
    BY <1>1 DEF Claim, Enter, EndingIsCovered
  <2> QED
    BY <2>1, <2>2, <2>3, <2>4, <2>5
<1>2. ASSUME NEW w \in Worker, ClaimReply(w) PROVE IInv'
  <2>1. TypeOK'
    BY <1>2 DEF ClaimReply, TypeOK, Holding, row, Enter
  <2>2. OneHolder'
    BY <1>2 DEF ClaimReply, TypeOK, Enter, OneHolder
  <2>3. RecoveredInTime'
    BY <1>2 DEF ClaimReply, row, RecoveredInTime
  <2>4. HoldersHaveTheLease'
    BY <1>2, Times DEF ClaimReply, TypeOK, row, Enter,
       HoldersHaveTheLease, LeaseCovers, Limit
  <2>5. EndingIsCovered'
    BY <1>2 DEF ClaimReply, row, Enter, EndingIsCovered
  <2> QED
    BY <2>1, <2>2, <2>3, <2>4, <2>5
<1>3. ASSUME NEW w \in Worker, GiveUp(w) PROVE IInv'
  <2>1. TypeOK'
    BY <1>3 DEF GiveUp, TypeOK, row, Enter
  <2>2. OneHolder'
    BY <1>3 DEF GiveUp, TypeOK, Enter, OneHolder
  <2>3. RecoveredInTime'
    BY <1>3 DEF GiveUp, row, RecoveredInTime
  <2>4. HoldersHaveTheLease'
    BY <1>3 DEF GiveUp, TypeOK, Holding, row, Enter,
       HoldersHaveTheLease
  <2>5. EndingIsCovered'
    BY <1>3 DEF GiveUp, row, Enter, EndingIsCovered
  <2> QED
    BY <2>1, <2>2, <2>3, <2>4, <2>5
<1>4. ASSUME NEW w \in Worker, FetchBundle(w) PROVE IInv'
  <2>1. TypeOK'
    BY <1>4 DEF FetchBundle, TypeOK, Holding, row, Enter
  <2>2. OneHolder'
    BY <1>4 DEF FetchBundle, TypeOK, Enter, OneHolder
  <2>3. RecoveredInTime'
    BY <1>4 DEF FetchBundle, row, RecoveredInTime
  <2>4. HoldersHaveTheLease'
    BY <1>4, Times, RoomToMiss DEF FetchBundle, TypeOK, Holding, row, Enter,
       HoldersHaveTheLease, LeaseCovers, Limit
  <2>5. EndingIsCovered'
    BY <1>4, Times, RoomToMiss DEF FetchBundle, TypeOK, row, Enter,
       HoldersHaveTheLease, LeaseCovers, Limit, EndingIsCovered
  <2> QED
    BY <2>1, <2>2, <2>3, <2>4, <2>5
<1>5. ASSUME NEW w \in Worker, Beat(w) PROVE IInv'
  <2>1. TypeOK'
    BY <1>5 DEF Beat, TypeOK, Holding, row, Enter
  <2>2. OneHolder'
    BY <1>5 DEF Beat, TypeOK, Enter, OneHolder
  <2>3. RecoveredInTime'
    BY <1>5 DEF Beat, row, RecoveredInTime
  <2>4. HoldersHaveTheLease'
    BY <1>5, Times, RoomToMiss DEF Beat, TypeOK, row, Enter,
       HoldersHaveTheLease, LeaseCovers, Limit
  <2>5. EndingIsCovered'
    BY <1>5 DEF Beat, row, Enter, EndingIsCovered
  <2> QED
    BY <2>1, <2>2, <2>3, <2>4, <2>5
<1>6. ASSUME NEW w \in Worker, Land(w) PROVE IInv'
  <2>1. TypeOK'
    BY <1>6, Times DEF Land, TypeOK, Holding, row, Renewed
  <2>2. OneHolder'
    BY <1>6 DEF Land, TypeOK, OneHolder
  <2>3. RecoveredInTime'
    BY <1>6, Times DEF Land, TypeOK, row, Renewed, RecoveredInTime
  <2>4. HoldersHaveTheLease'
    BY <1>6 DEF Land, TypeOK, row, Renewed,
       HoldersHaveTheLease, LeaseCovers, Limit
  <2>5. EndingIsCovered'
    BY <1>6, Times, RoomToMiss DEF Land, TypeOK, row, Renewed, EndingIsCovered
  <2> QED
    BY <2>1, <2>2, <2>3, <2>4, <2>5
<1>7. ASSUME NEW w \in Worker, Answer(w) PROVE IInv'
  <2>1. TypeOK'
    BY <1>7 DEF Answer, TypeOK, Holding, row, Enter
  <2>2. OneHolder'
    BY <1>7 DEF Answer, TypeOK, Enter, OneHolder
  <2>3. RecoveredInTime'
    BY <1>7 DEF Answer, row, RecoveredInTime
  <2>4. HoldersHaveTheLease'
    BY <1>7, Times, RoomToMiss DEF Answer, TypeOK, row, Enter,
       HoldersHaveTheLease, LeaseCovers, Limit
  <2>5. EndingIsCovered'
    BY <1>7 DEF Answer, row, Enter, EndingIsCovered
  <2> QED
    BY <2>1, <2>2, <2>3, <2>4, <2>5
<1>8. ASSUME NEW w \in Worker, Miss(w) PROVE IInv'
  <2>1. TypeOK'
    BY <1>8, Times DEF Miss, TypeOK, Holding, row, Enter, Abandon
  <2>2. OneHolder'
    BY <1>8 DEF Miss, TypeOK, Enter, OneHolder
  <2>3. RecoveredInTime'
    BY <1>8 DEF Miss, row, RecoveredInTime
  <2>4. HoldersHaveTheLease'
    BY <1>8, Times, RoomToMiss DEF Miss, TypeOK, row, Enter,
       HoldersHaveTheLease, LeaseCovers, Limit
  <2>5. EndingIsCovered'
    BY <1>8 DEF Miss, row, Enter, EndingIsCovered
  <2> QED
    BY <2>1, <2>2, <2>3, <2>4, <2>5
<1>9. ASSUME NEW w \in Worker, LandLate(w) PROVE IInv'
  <2>1. TypeOK'
    BY <1>9, Times DEF LandLate, TypeOK, row, Renewed
  <2>2. OneHolder'
    BY <1>9 DEF LandLate, OneHolder
  <2>3. RecoveredInTime'
    BY <1>9, Times DEF LandLate, TypeOK, row, Renewed, RecoveredInTime
  <2>4. HoldersHaveTheLease'
    BY <1>9, Times, RoomToMiss DEF LandLate, TypeOK, row, Renewed,
       HoldersHaveTheLease, LeaseCovers
  <2>5. EndingIsCovered'
    BY <1>9, Times, RoomToMiss DEF LandLate, TypeOK, row, Renewed,
       EndingIsCovered
  <2> QED
    BY <2>1, <2>2, <2>3, <2>4, <2>5
<1>10. ASSUME NEW w \in Worker, Finish(w) PROVE IInv'
  <2>1. TypeOK'
    BY <1>10 DEF Finish, TypeOK, row, Enter, Abandon
  <2>2. OneHolder'
    BY <1>10 DEF Finish, TypeOK, Enter, OneHolder
  <2>3. RecoveredInTime'
    BY <1>10 DEF Finish, row, RecoveredInTime
  <2>4. HoldersHaveTheLease'
    BY <1>10 DEF Finish, TypeOK, Holding, row, Enter,
       HoldersHaveTheLease
  <2>5. EndingIsCovered'
    BY <1>10, Times, RoomToMiss DEF Finish, TypeOK, row, Enter,
       HoldersHaveTheLease, LeaseCovers, Limit, EndingIsCovered
  <2> QED
    BY <2>1, <2>2, <2>3, <2>4, <2>5
<1>11. ASSUME NEW w \in Worker, Report(w) PROVE IInv'
  <2>1. TypeOK'
    BY <1>11 DEF Report, TypeOK, Enter
  <2>2. OneHolder'
    BY <1>11 DEF Report, Holding, Enter, OneHolder
  <2>3. RecoveredInTime'
    BY <1>11 DEF Report, RecoveredInTime
  <2>4. HoldersHaveTheLease'
    BY <1>11 DEF Report, HoldersHaveTheLease
  <2>5. EndingIsCovered'
    BY <1>11 DEF Report, EndingIsCovered
  <2> QED
    BY <2>1, <2>2, <2>3, <2>4, <2>5
<1>12. ASSUME NEW w \in Worker, Die(w) PROVE IInv'
  <2>1. TypeOK'
    BY <1>12 DEF Die, TypeOK, row, Enter, Abandon
  <2>2. OneHolder'
    BY <1>12 DEF Die, Holding, Enter, OneHolder
  <2>3. RecoveredInTime'
    BY <1>12 DEF Die, row, RecoveredInTime
  <2>4. HoldersHaveTheLease'
    BY <1>12 DEF Die, TypeOK, Holding, row, Enter,
       HoldersHaveTheLease, LeaseCovers
  <2>5. EndingIsCovered'
    BY <1>12 DEF Die, TypeOK, row, Enter, EndingIsCovered
  <2> QED
    BY <2>1, <2>2, <2>3, <2>4, <2>5
<1>13. CASE Sweep
  <2>1. ASSUME NEW v \in Worker, pc[v] \in Holding, status = "running"
        PROVE  ~Stale
    <3> SUFFICES age <= Timeout
      BY Times DEF Stale, TypeOK
    <3>1. /\ timer[v] \in Nat /\ missed[v] \in 0..MaxMissed /\ age \in Nat
          /\ LeaseCovers(v)
      BY <2>1 DEF TypeOK, HoldersHaveTheLease
    <3>2. timer[v] <= Limit[pc[v]]
      BY <3>1 DEF LeaseCovers
    <3> DEFINE m == missed[v]
    <3>3. Room(m) \in Nat /\ SleepAge + Room(m) + Interval + RequestTime <= Timeout
      BY <3>1, RoomToMiss
    <3>4. CASE pc[v] \in {"assign", "bundle", "landed"}
      BY <3>1, <3>2, <3>3, <3>4, Times DEF LeaseCovers, Limit
    <3>5. CASE pc[v] = "sleep"
      <4>1. age <= SleepAge + Room(m) + timer[v] /\ timer[v] <= Interval
        BY <3>1, <3>2, <3>5 DEF LeaseCovers, Limit
      <4> QED
        BY <3>1, <3>3, <4>1, Times
    <3>6. CASE pc[v] = "beat"
      <4>1. /\ age <= SleepAge + Room(m) + Interval + timer[v]
            /\ timer[v] <= RequestTime
        BY <3>1, <3>2, <3>6 DEF LeaseCovers, Limit
      <4> QED
        BY <3>1, <3>3, <4>1, Times
    <3> QED
      BY <2>1, <3>4, <3>5, <3>6 DEF Holding
  <2>2. TypeOK'
    BY <1>13, Times DEF Sweep, TypeOK, row, agents
  <2>3. OneHolder' /\ RecoveredInTime'
    BY <1>13, Times DEF Sweep, Stale, TypeOK, row, agents, OneHolder,
       RecoveredInTime
  <2>4. HoldersHaveTheLease'
    BY <1>13, <2>1 DEF Sweep, row, agents, HoldersHaveTheLease, LeaseCovers
  <2>5. ASSUME NEW v \in Worker, pc[v] = "ending", timer[v] <= Grace(missed[v]),
               status = "running"
        PROVE  ~Stale
    <3> DEFINE m == missed[v]
    <3>1. timer[v] \in Nat /\ m \in 0..MaxMissed /\ age \in Nat
      BY DEF TypeOK
    <3>2. /\ Grace(m) \in Nat /\ Room(m + 1) \in Nat
          /\ SleepAge + Room(m + 1) + Grace(m) = Timeout
      BY <3>1, RoomToMiss, Times
    <3>3. age <= SleepAge + Room(m + 1) + timer[v]
      BY <2>5 DEF EndingIsCovered
    <3>4. age <= Timeout
      BY <2>5, <3>1, <3>2, <3>3, Times
    <3> QED
      BY <3>1, <3>4, Times DEF Stale
  <2>6. EndingIsCovered'
    BY <1>13, <2>5 DEF Sweep, row, agents, EndingIsCovered
  <2> QED
    BY <2>2, <2>3, <2>4, <2>6
<1>14. CASE Tick
  <2>1. TypeOK'
    <3>1. age' <= Timeout + SweepPeriod /\ age' \in Nat
      BY <1>14, Times DEF Tick, TypeOK, RecoveredInTime
    <3> QED
      BY <1>14, <3>1, Times DEF Tick, TypeOK, row
  <2>2. OneHolder'
    BY <1>14 DEF Tick, OneHolder
  <2>3. RecoveredInTime'
    BY <1>14, Times DEF Tick, TypeOK, row, RecoveredInTime
  <2>4. ASSUME NEW w \in Worker, pc[w] \in Holding, LeaseCovers(w)
        PROVE  LeaseCovers(w)'
    <3>1. timer[w] \in Nat /\ age \in Nat /\ Room(missed[w]) \in Nat
      BY RoomToMiss DEF TypeOK
    <3>2. /\ timer'[w] = timer[w] + 1 /\ timer[w] < Limit[pc[w]]
          /\ age' \in {age, age + 1} /\ pc' = pc /\ missed' = missed
      BY <1>14, <2>4 DEF Tick, Timed
    <3>3. Limit[pc[w]] \in Nat
      BY <2>4, Times DEF Limit, Holding
    <3> QED
      BY <2>4, <3>1, <3>2, <3>3, Times DEF LeaseCovers
  <2>5. HoldersHaveTheLease'
    BY <1>14, <2>4 DEF Tick, row, HoldersHaveTheLease
  <2>6. ASSUME NEW w \in Worker, pc[w] = "ending",
               timer'[w] <= Grace(missed[w]), status = "running"
        PROVE  /\ timer[w] <= Grace(missed[w])
               /\ age <= SleepAge + Room(missed[w] + 1) + timer[w]
                  => age' <= SleepAge + Room(missed[w] + 1) + timer'[w]
    <3> DEFINE m == missed[w]
    <3>1. /\ timer[w] \in Nat /\ age \in Nat /\ Grace(m) \in Nat
          /\ Room(m + 1) \in Nat
      BY Times, RoomToMiss DEF TypeOK
    <3>2. /\ timer'[w] = IF timer[w] <= Grace(m) THEN timer[w] + 1 ELSE timer[w]
          /\ age' = age + 1
      BY <1>14, <2>6 DEF Tick, Timed, Holding
    <3>3. timer[w] <= Grace(m)
      BY <2>6, <3>1, <3>2
    <3> QED
      BY <3>1, <3>2, <3>3, Times
  <2>7. EndingIsCovered'
    <3> SUFFICES ASSUME NEW w \in Worker, (pc[w] = "ending")',
                        (timer[w] <= Grace(missed[w]))', status' # "settled"
                 PROVE  (/\ status = "running" /\ holder = w /\ worker_id = id[w]
                         /\ age <= SleepAge + Room(missed[w] + 1) + timer[w])'
      BY DEF EndingIsCovered
    <3>1. /\ UNCHANGED <<status, worker_id, holder, pc, missed, id>>
          /\ timer[w] \in Nat /\ Grace(missed[w]) \in Nat
      BY <1>14, RoomToMiss DEF Tick, row, TypeOK
    <3>2. pc[w] = "ending" /\ timer'[w] <= Grace(missed[w]) /\ status # "settled"
      BY <3>1
    <3>3. timer[w] <= Grace(missed[w])
      BY <1>14, <3>1, <3>2 DEF Tick
    <3>4. /\ status = "running" /\ holder = w /\ worker_id = id[w]
          /\ age <= SleepAge + Room(missed[w] + 1) + timer[w]
      BY <3>2, <3>3 DEF EndingIsCovered
    <3>5. age' <= SleepAge + Room(missed[w] + 1) + timer'[w]
      BY <2>6, <3>2, <3>4
    <3> QED
      BY <3>1, <3>4, <3>5 DEF Room
  <2> QED
    BY <2>1, <2>2, <2>3, <2>5, <2>7
<1>15. CASE UNCHANGED vars
  BY <1>15 DEF vars, row, agents, TypeOK, Holding, OneHolder,
     RecoveredInTime, HoldersHaveTheLease, LeaseCovers, Limit, EndingIsCovered
<1> QED
  BY <1>1, <1>2, <1>3, <1>4, <1>5, <1>6, <1>7, <1>8, <1>9, <1>10, <1>11,
     <1>12, <1>13, <1>14, <1>15 DEF Next

\* Init, the step and what the properties need of them.
THEOREM InvariantHolds == Spec => []IInv
BY InitIInv, StepKeepsIInv, PTL DEF Spec

\* The types, for any agents, ids and times that leave room.
THEOREM LeaseTypeCorrect == Spec => []TypeOK
BY InvariantHolds, PTL DEF IInv

\* With times that leave room for MaxMissed lost heartbeats, no two agents run
\* the job at a time.
THEOREM LeaseIsExclusive == Spec => []OneHolder
BY InvariantHolds, PTL DEF IInv

\* An abandoned job is taken back within the timeout and one round.
THEOREM RecoveryIsPrompt == Spec => []RecoveredInTime
BY InvariantHolds, PTL DEF IInv

\* An agent whose execution is over has Grace(m) units of time, m of its last
\* heartbeats having failed, in which what it reports is about its own job.
THEOREM EndIsCovered == Spec => []EndingIsCovered
BY InvariantHolds, PTL DEF IInv

\* An agent that runs the job has its lease.
THEOREM LeaseIsHeld == Spec => []HoldersHaveTheLease
BY InvariantHolds, PTL DEF IInv
=============================================================================
