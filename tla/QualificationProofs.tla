------------------------ MODULE QualificationProofs ------------------------
(***************************************************************************)
(* Qualification for any number of assignments, threads and generations:   *)
(* what is handed out was probed with its present credentials, and no      *)
(* verdict overtakes a later one.                                          *)
(***************************************************************************)
EXTENDS Qualification, TLAPS

\* A thread at work has a row.
HasRow ==
    \A t \in Threads :
        pc[t] \in {"claimed", "probe", "judge", "write"} => row[t] \in Rows

\* Types.
LEMMA TypeInit == Init => TypeOK
BY QualAssumption DEF Init, TypeOK, Rows, Verdicts, Results, NoResult, Plans, NoPlan

\* What a thread that ends leaves behind.
LEMMA DoneTypes ==
  ASSUME TypeOK, NEW t \in Threads, Done(t)
  PROVE  /\ pc' \in [Threads -> {"idle", "claimed", "probe", "judge", "write",
                           "readall", "flags"}]
         /\ row' \in [Threads -> Rows \cup {None}]
         /\ readGen' \in [Threads -> 0 .. MaxGen]
         /\ readDash' \in [Threads -> BOOLEAN]
         /\ result' \in [Threads -> Results]
         /\ plan' \in [Threads -> Plans]
         /\ overtaken' \in [Threads -> BOOLEAN]
BY QualAssumption DEF TypeOK, Done, Forgets, Results, NoResult, Verdicts, Plans, NoPlan

\* The faults stay within their bound.
LEMMA FaultType ==
  ASSUME TypeOK, Fault PROVE faults' \in 0 .. MaxFaults
BY QualAssumption DEF TypeOK, Fault

\* A reconciliation decides on a plan, whatever it read.
LEMMA DecideType ==
  ASSUME NEW ips PROVE Decide(ips) \in Plans
BY DEF Decide, Plans

\* Writing a plan writes flags.
LEMMA FlagTypes ==
  ASSUME TypeOK, NEW p \in Plans, SetFlags(p)
  PROVE  dup' \in [Rows -> BOOLEAN] /\ dist' \in [Rows -> BOOLEAN]
<1>1. \A r \in Rows : (r \in p.dup) \in BOOLEAN /\ (r \in p.dist) \in BOOLEAN
  OBVIOUS
<1> QED BY <1>1, Zenon DEF TypeOK, SetFlags

\* Writing a failure leaves the columns in their ranges.
LEMMA FailTypes ==
  ASSUME TypeOK, NEW r \in Rows, Fails(r)
  PROVE  /\ verdict' \in [Rows -> Verdicts]
         /\ dist' \in [Rows -> BOOLEAN] /\ due' \in [Rows -> BOOLEAN]
         /\ token' \in [Rows -> Threads \cup {None}]
         /\ left' \in [Rows -> 0 .. LEASE]
<1>1. verdict' = [verdict EXCEPT ![r] = "unfit"]
  BY DEF Fails
<1>2. verdict' \in [Rows -> Verdicts]
  BY <1>1 DEF TypeOK, Verdicts
<1>3. dist' \in [Rows -> BOOLEAN] /\ due' \in [Rows -> BOOLEAN]
  BY DEF Fails, TypeOK
<1>4. token' \in [Rows -> Threads \cup {None}]
  BY DEF Fails, TypeOK
<1>5. left' \in [Rows -> 0 .. LEASE]
  BY QualAssumption DEF Fails, TypeOK
<1> QED BY <1>2, <1>3, <1>4, <1>5

LEMMA TypeStep == TypeOK /\ HasRow /\ [Next]_vars => TypeOK'
<1> SUFFICES ASSUME TypeOK, HasRow, [Next]_vars PROVE TypeOK'
  OBVIOUS
<1> USE QualAssumption
<1>1. ASSUME NEW r \in Rows, StoreChanged(r) PROVE TypeOK'
  BY <1>1 DEF StoreChanged, TypeOK, local, Verdicts
<1>2. ASSUME NEW r \in Rows, StoreSame(r) PROVE TypeOK'
  BY <1>2 DEF StoreSame, TypeOK, local
<1>3. ASSUME NEW r \in Rows, MarkMissing(r) PROVE TypeOK'
  BY <1>3, FaultType DEF MarkMissing, TypeOK, local
<1>4. ASSUME NEW r \in Rows, NextCheck(r) PROVE TypeOK'
  BY <1>4 DEF NextCheck, TypeOK, local
<1>5. ASSUME NEW S \in SUBSET Rows, Snapshot(S) PROVE TypeOK'
  BY <1>5 DEF Snapshot, TypeOK, local
<1>6. ASSUME NEW ip \in Exits, UserExit(ip) PROVE TypeOK'
  BY <1>6, FlagTypes, DecideType DEF UserExit, TypeOK, local
<1>7. CASE DashAges
  BY <1>7 DEF DashAges, TypeOK, local
<1>8. CASE Tick
  BY <1>8, FaultType DEF Tick, TypeOK, local
<1>9. ASSUME NEW t \in Threads, Read(t) PROVE TypeOK'
  <2>1. row[t] \in Rows
    BY <1>9 DEF Read, HasRow
  <2>2. CASE present[row[t]] /\ token[row[t]] = t
    BY <1>9, <2>1, <2>2 DEF Read, TypeOK, asg
  <2>3. CASE ~(present[row[t]] /\ token[row[t]] = t)
    BY <1>9, <2>3, DoneTypes DEF Read, TypeOK, asg
  <2> QED BY <2>2, <2>3
<1>10. ASSUME NEW t \in Threads, Probe(t) PROVE TypeOK'
  <2>1. PICK v \in Outcomes, ip \in Exits \cup {None} :
           result' = [result EXCEPT ![t] =
                  [verdict |-> v, exit |-> ip, dup |-> FALSE]]
    BY <1>10 DEF Probe
  <2>2. [verdict |-> v, exit |-> ip, dup |-> FALSE] \in Results
    BY DEF Results, Verdicts
  <2>3. result' \in [Threads -> Results]
    BY <2>1, <2>2 DEF TypeOK
  <2> QED BY <1>10, <2>3 DEF Probe, TypeOK, asg
<1>11. ASSUME NEW t \in Threads, Judge(t) PROVE TypeOK'
  <2>1. row[t] \in Rows
    BY <1>11 DEF Judge, HasRow
  <2>2. CASE present[row[t]] /\ gen[row[t]] = readGen[t]
    <3> DEFINE d == /\ IsLive(result[t].verdict)
                    /\ DuplicateEgress(row[t], result[t].exit)
    <3>1. result' = [result EXCEPT ![t].dup = d]
      BY <1>11, <2>2 DEF Judge
    <3>2. d \in BOOLEAN
      OBVIOUS
    <3> HIDE DEF d
    <3>3. [result[t] EXCEPT !.dup = d] \in Results
      <4>1. result[t] \in Results
        BY DEF TypeOK
      <4> QED BY <3>2, <4>1 DEF Results
    <3>4. result' = [result EXCEPT ![t] = [result[t] EXCEPT !.dup = d]]
      BY <3>1 DEF TypeOK
    <3>5. result' \in [Threads -> Results]
      BY <3>3, <3>4 DEF TypeOK
    <3> QED BY <1>11, <2>2, <3>5 DEF Judge, TypeOK, asg
  <2>3. CASE ~(present[row[t]] /\ gen[row[t]] = readGen[t])
    BY <1>11, <2>3, DoneTypes DEF Judge, TypeOK, asg
  <2> QED BY <2>2, <2>3
<1>12. ASSUME NEW t \in Threads, Write(t) PROVE TypeOK'
  <2>1. row[t] \in Rows
    BY <1>12 DEF Write, HasRow
  <2>2. CASE Fenced(t)
    <3>1. /\ result[t].verdict \in Verdicts /\ result[t].dup \in BOOLEAN
          /\ result[t].exit \in Exits \cup {None}
      BY DEF TypeOK, Results
    <3>2. /\ verdict' = [verdict EXCEPT ![row[t]] = result[t].verdict]
          /\ exit' = [exit EXCEPT ![row[t]] = result[t].exit]
          /\ dup' = [dup EXCEPT ![row[t]] = result[t].dup]
          /\ dist' = [dist EXCEPT ![row[t]] =
                  result[t].verdict = "allow" /\ ~result[t].dup /\ readDash[t]]
          /\ due' = [due EXCEPT ![row[t]] = FALSE]
          /\ token' = [token EXCEPT ![row[t]] = None]
          /\ left' = [left EXCEPT ![row[t]] = 0]
          /\ probed' = [probed EXCEPT ![row[t]] = readGen[t]]
          /\ pc' = [pc EXCEPT ![t] = "readall"]
          /\ Forgets(t) /\ Overtake(t)
          /\ UNCHANGED <<gen, present, active, dash, plan, userIps, faults>>
      BY <1>12, <2>2 DEF Write
    <3>3. verdict' \in [Rows -> Verdicts]
      BY <2>1, <3>1, <3>2 DEF TypeOK
    <3>4. exit' \in [Rows -> Exits \cup {None}]
      BY <2>1, <3>1, <3>2 DEF TypeOK
    <3>5. dup' \in [Rows -> BOOLEAN]
      BY <2>1, <3>1, <3>2 DEF TypeOK
    <3>6. dist' \in [Rows -> BOOLEAN]
      BY <2>1, <3>1, <3>2 DEF TypeOK
    <3>7. /\ due' \in [Rows -> BOOLEAN]
          /\ token' \in [Rows -> Threads \cup {None}]
          /\ left' \in [Rows -> 0 .. LEASE]
          /\ probed' \in [Rows -> 0 .. MaxGen]
      BY <2>1, <3>2 DEF TypeOK
    <3>8. overtaken' \in [Threads -> BOOLEAN]
      BY <3>2 DEF Overtake, TypeOK
    <3>9. result' \in [Threads -> Results]
      BY <3>2 DEF Forgets, TypeOK, NoResult, Results, Verdicts
    <3>10. /\ row' \in [Threads -> Rows \cup {None}]
           /\ readGen' \in [Threads -> 0 .. MaxGen]
           /\ readDash' \in [Threads -> BOOLEAN]
      BY <3>2 DEF Forgets, TypeOK
    <3> QED
      BY <3>2, <3>3, <3>4, <3>5, <3>6, <3>7, <3>8, <3>9, <3>10 DEF TypeOK
  <2>3. CASE ~Fenced(t)
    BY <1>12, <2>3, DoneTypes DEF Write, TypeOK, asg
  <2> QED BY <2>2, <2>3
<1>13. ASSUME NEW t \in Threads, ReadAll(t) PROVE TypeOK'
  BY <1>13, DecideType DEF ReadAll, TypeOK, asg
<1>14. ASSUME NEW t \in Threads, Flags(t) PROVE TypeOK'
  BY <1>14, FlagTypes, DoneTypes DEF Flags, TypeOK
<1>15. ASSUME NEW t \in Threads, Release(t) PROVE TypeOK'
  BY <1>15, FaultType, DoneTypes DEF Release, TypeOK
<1>16. ASSUME NEW t \in Threads, ProbeError(t) PROVE TypeOK'
  <2>1. row[t] \in Rows
    BY <1>16 DEF ProbeError, HasRow
  <2>2. /\ verdict' \in [Rows -> Verdicts]
        /\ dist' \in [Rows -> BOOLEAN] /\ due' \in [Rows -> BOOLEAN]
        /\ token' \in [Rows -> Threads \cup {None}]
        /\ left' \in [Rows -> 0 .. LEASE]
    <3>1. Fails(row[t]) \/ UNCHANGED <<verdict, dist, due, token, left>>
      BY <1>16 DEF ProbeError
    <3>2. CASE Fails(row[t])
      BY <2>1, <3>2, FailTypes
    <3>3. CASE UNCHANGED <<verdict, dist, due, token, left>>
      BY <3>3 DEF TypeOK
    <3> QED BY <3>1, <3>2, <3>3
  <2> QED BY <1>16, <2>2, FaultType, DoneTypes DEF ProbeError, TypeOK
<1>17. ASSUME NEW t \in Threads, WorkerError(t) PROVE TypeOK'
  <2>1. row[t] \in Rows
    BY <1>17 DEF WorkerError, HasRow
  <2>2. /\ verdict' \in [Rows -> Verdicts]
        /\ dist' \in [Rows -> BOOLEAN] /\ due' \in [Rows -> BOOLEAN]
        /\ token' \in [Rows -> Threads \cup {None}]
        /\ left' \in [Rows -> 0 .. LEASE]
    <3>1. Fails(row[t]) \/ UNCHANGED <<verdict, dist, due, token, left>>
      BY <1>17 DEF WorkerError
    <3>2. CASE Fails(row[t])
      BY <2>1, <3>2, FailTypes
    <3>3. CASE UNCHANGED <<verdict, dist, due, token, left>>
      BY <3>3 DEF TypeOK
    <3> QED BY <3>1, <3>2, <3>3
  <2> QED BY <1>17, <2>2, FaultType, DoneTypes DEF WorkerError, TypeOK
<1>18. ASSUME NEW t \in Threads, Crash(t) PROVE TypeOK'
  BY <1>18, FaultType, DoneTypes DEF Crash, TypeOK, asg
<1>19. ASSUME NEW t \in Threads, NEW r \in Rows, Claim(t, r) PROVE TypeOK'
  BY <1>19 DEF Claim, TypeOK
<1>20. CASE UNCHANGED vars
  BY <1>20 DEF vars, asg, local, TypeOK
<1> QED
  BY <1>1, <1>2, <1>3, <1>4, <1>5, <1>6, <1>7, <1>8, <1>9, <1>10, <1>11, <1>12,
     <1>13, <1>14, <1>15, <1>16, <1>17, <1>18, <1>19, <1>20 DEF Next, Go

\* Threads keep their row until they are done.
LEMMA RowStep == TypeOK /\ HasRow /\ [Next]_vars => HasRow'
<1> SUFFICES ASSUME TypeOK, HasRow, [Next]_vars PROVE HasRow'
  OBVIOUS
<1>1. ASSUME NEW t \in Threads, Done(t) PROVE HasRow'
  BY <1>1 DEF Done, Forgets, TypeOK, HasRow
<1>2. CASE UNCHANGED local
  BY <1>2 DEF local, HasRow
<1>3. ASSUME NEW r \in Rows,
             StoreChanged(r) \/ StoreSame(r) \/ MarkMissing(r) \/ NextCheck(r)
      PROVE HasRow'
  BY <1>2, <1>3 DEF StoreChanged, StoreSame, MarkMissing, NextCheck
<1>4. ASSUME NEW S \in SUBSET Rows, Snapshot(S) PROVE HasRow'
  BY <1>2, <1>4 DEF Snapshot
<1>5. ASSUME NEW ip \in Exits, UserExit(ip) PROVE HasRow'
  BY <1>2, <1>5 DEF UserExit
<1>6. CASE DashAges \/ Tick
  BY <1>2, <1>6 DEF DashAges, Tick
<1>7. ASSUME NEW t \in Threads, Read(t) PROVE HasRow'
  BY <1>1, <1>7 DEF Read, HasRow, TypeOK
<1>8. ASSUME NEW t \in Threads, Probe(t) PROVE HasRow'
  BY <1>8 DEF Probe, HasRow, TypeOK
<1>9. ASSUME NEW t \in Threads, Judge(t) PROVE HasRow'
  BY <1>1, <1>9 DEF Judge, HasRow, TypeOK
<1>10. ASSUME NEW t \in Threads, Write(t) PROVE HasRow'
  BY <1>1, <1>10 DEF Write, Forgets, HasRow, TypeOK
<1>11. ASSUME NEW t \in Threads, ReadAll(t) PROVE HasRow'
  BY <1>11 DEF ReadAll, HasRow, TypeOK
<1>12. ASSUME NEW t \in Threads,
              Flags(t) \/ Release(t) \/ ProbeError(t) \/ WorkerError(t)
                 \/ Crash(t)
       PROVE HasRow'
  BY <1>1, <1>12 DEF Flags, Release, ProbeError, WorkerError, Crash
<1>13. ASSUME NEW t \in Threads, NEW r \in Rows, Claim(t, r) PROVE HasRow'
  BY <1>13 DEF Claim, HasRow, TypeOK
<1>14. CASE UNCHANGED vars
  BY <1>2, <1>14 DEF vars, local
<1> QED
  BY <1>3, <1>4, <1>5, <1>6, <1>7, <1>8, <1>9, <1>10, <1>11, <1>12, <1>13,
     <1>14 DEF Next, Go

---------------------------------------------------------------------------
(* What is handed out.                                                     *)

\* What is live was found so by a probe of the present credentials.
Current == \A r \in Rows : IsLive(verdict[r]) => probed[r] = gen[r]

\* A change of credentials takes the verdict away, and a verdict is written
\* behind the generation it was probed with.
LEMMA CurrentStep ==
  TypeOK /\ HasRow /\ Current /\ [Next]_vars => Current'
<1> SUFFICES ASSUME TypeOK, HasRow, Current, [Next]_vars PROVE Current'
  OBVIOUS
<1>1. CASE UNCHANGED <<verdict, probed, gen>>
  BY <1>1 DEF Current
<1>2. ASSUME NEW r \in Rows, StoreChanged(r) PROVE Current'
  BY <1>2 DEF StoreChanged, Current, TypeOK, IsLive
<1>3. ASSUME NEW r \in Rows,
             StoreSame(r) \/ MarkMissing(r) \/ NextCheck(r)
      PROVE Current'
  BY <1>1, <1>3 DEF StoreSame, MarkMissing, NextCheck
<1>4. ASSUME NEW S \in SUBSET Rows, Snapshot(S) PROVE Current'
  BY <1>1, <1>4 DEF Snapshot
<1>5. ASSUME NEW ip \in Exits, UserExit(ip) PROVE Current'
  BY <1>1, <1>5 DEF UserExit
<1>6. CASE DashAges \/ Tick
  BY <1>1, <1>6 DEF DashAges, Tick
<1>7. ASSUME NEW t \in Threads,
             Read(t) \/ Probe(t) \/ Judge(t) \/ ReadAll(t) \/ Crash(t)
      PROVE Current'
  BY <1>1, <1>7 DEF Read, Probe, Judge, ReadAll, Crash, asg
<1>8. ASSUME NEW t \in Threads, Flags(t) \/ Release(t) PROVE Current'
  BY <1>1, <1>8 DEF Flags, Release
<1>9. ASSUME NEW t \in Threads, Write(t) PROVE Current'
  <2>1. row[t] \in Rows
    BY <1>9 DEF Write, HasRow
  <2>2. CASE Fenced(t)
    <3>1. /\ probed' = [probed EXCEPT ![row[t]] = readGen[t]]
          /\ verdict' = [verdict EXCEPT ![row[t]] = result[t].verdict]
          /\ gen' = gen /\ gen[row[t]] = readGen[t]
      BY <1>9, <2>2 DEF Write, Fenced
    <3> QED BY <2>1, <3>1 DEF Current, TypeOK
  <2>3. CASE ~Fenced(t)
    BY <1>1, <1>9, <2>3 DEF Write, asg
  <2> QED BY <2>2, <2>3
<1>10. ASSUME NEW t \in Threads, ProbeError(t) \/ WorkerError(t)
       PROVE Current'
  <2>1. row[t] \in Rows /\ UNCHANGED <<probed, gen>>
    BY <1>10 DEF ProbeError, WorkerError, HasRow
  <2>2. \/ UNCHANGED verdict
        \/ verdict' = [verdict EXCEPT ![row[t]] = "unfit"]
    BY <1>10 DEF ProbeError, WorkerError, Fails
  <2> QED BY <1>1, <2>1, <2>2 DEF Current, TypeOK, IsLive
<1>11. ASSUME NEW t \in Threads, NEW r \in Rows, Claim(t, r) PROVE Current'
  BY <1>1, <1>11 DEF Claim
<1>12. CASE UNCHANGED vars
  BY <1>1, <1>12 DEF vars, asg
<1> QED
  BY <1>2, <1>3, <1>4, <1>5, <1>6, <1>7, <1>8, <1>9, <1>10, <1>11, <1>12
  DEF Next, Go

---------------------------------------------------------------------------
(* Late verdicts.                                                          *)

\* A thread whose row got another verdict since it read it has lost the
\* claim, and claims nothing before it is done.
Behind ==
    \A t \in Threads :
        overtaken[t] => /\ pc[t] \in {"probe", "judge", "write"}
                        /\ token[row[t]] # t

\* A claim is taken by an idle thread only, and an overtaken one is at work.
LEMMA BehindStep ==
  TypeOK /\ HasRow /\ Behind /\ [Next]_vars => Behind'
<1> SUFFICES ASSUME TypeOK, HasRow, Behind, [Next]_vars PROVE Behind'
  OBVIOUS
<1> USE QualAssumption
<1>1. CASE UNCHANGED <<overtaken, pc, row, token>>
  BY <1>1 DEF Behind
\* A thread that ends leaves the others behind where they were; tokens are
\* only ever taken away.
<1>2. ASSUME NEW t \in Threads, Done(t),
             \/ UNCHANGED token
             \/ \E r \in Rows : token' = [token EXCEPT ![r] = None]
      PROVE Behind'
  <2> SUFFICES ASSUME NEW u \in Threads, overtaken'[u]
               PROVE  /\ pc'[u] \in {"probe", "judge", "write"}
                      /\ token'[row'[u]] # u
    BY DEF Behind
  <2>1. u # t /\ overtaken[u] /\ pc'[u] = pc[u] /\ row'[u] = row[u]
    BY <1>2 DEF Done, Forgets, TypeOK
  <2>2. row[u] \in Rows /\ pc[u] \in {"probe", "judge", "write"}
        /\ token[row[u]] # u
    BY <2>1 DEF Behind, HasRow
  <2>3. u # None
    OBVIOUS
  <2> QED BY <1>2, <2>1, <2>2, <2>3 DEF TypeOK
<1>3. ASSUME NEW r \in Rows, StoreChanged(r) PROVE Behind'
  BY <1>3 DEF StoreChanged, local, Behind, HasRow, TypeOK
<1>4. ASSUME NEW r \in Rows,
             StoreSame(r) \/ MarkMissing(r) \/ NextCheck(r)
      PROVE Behind'
  BY <1>1, <1>4 DEF StoreSame, MarkMissing, NextCheck, local
<1>5. ASSUME NEW S \in SUBSET Rows, Snapshot(S) PROVE Behind'
  BY <1>1, <1>5 DEF Snapshot, local
<1>6. ASSUME NEW ip \in Exits, UserExit(ip) PROVE Behind'
  BY <1>1, <1>6 DEF UserExit, local
<1>7. CASE DashAges \/ Tick
  BY <1>1, <1>7 DEF DashAges, Tick, local
<1>8. ASSUME NEW t \in Threads, Read(t) PROVE Behind'
  BY <1>2, <1>8 DEF Read, asg, Behind, TypeOK
<1>9. ASSUME NEW t \in Threads, Probe(t) PROVE Behind'
  BY <1>9 DEF Probe, asg, Behind, TypeOK
<1>10. ASSUME NEW t \in Threads, Judge(t) PROVE Behind'
  BY <1>2, <1>10 DEF Judge, asg, Behind, TypeOK
<1>11. ASSUME NEW t \in Threads, Write(t) PROVE Behind'
  <2>1. CASE Fenced(t)
    <3>1. /\ token' = [token EXCEPT ![row[t]] = None]
          /\ pc' = [pc EXCEPT ![t] = "readall"]
          /\ row' = [row EXCEPT ![t] = None]
          /\ Overtake(t) /\ row[t] \in Rows
      BY <1>11, <2>1 DEF Write, Forgets, HasRow
    <3> SUFFICES ASSUME NEW u \in Threads, overtaken'[u]
                 PROVE  /\ pc'[u] \in {"probe", "judge", "write"}
                        /\ token'[row'[u]] # u
      BY DEF Behind
    <3>2. u # t
      BY <3>1 DEF Overtake
    <3>3. /\ pc[u] \in {"probe", "judge", "write"}
          /\ row[u] = row[t] \/ token[row[u]] # u
      BY <3>1, <3>2 DEF Overtake, Behind
    <3>4. row[u] \in Rows
      BY <3>3 DEF HasRow
    <3> QED BY <3>1, <3>2, <3>3, <3>4 DEF TypeOK
  <2>2. CASE ~Fenced(t)
    BY <1>2, <1>11, <2>2 DEF Write, asg
  <2> QED BY <2>1, <2>2
<1>12. ASSUME NEW t \in Threads, ReadAll(t) PROVE Behind'
  BY <1>12 DEF ReadAll, asg, Behind, TypeOK
<1>13. ASSUME NEW t \in Threads, Flags(t) \/ Crash(t) PROVE Behind'
  BY <1>2, <1>13 DEF Flags, Crash, asg
<1>14. ASSUME NEW t \in Threads,
              Release(t) \/ ProbeError(t) \/ WorkerError(t)
       PROVE Behind'
  <2>1. row[t] \in Rows /\ Done(t)
    BY <1>14 DEF Release, ProbeError, WorkerError, HasRow
  <2>2. \/ UNCHANGED token
        \/ token' = [token EXCEPT ![row[t]] = None]
    BY <1>14 DEF Release, ProbeError, WorkerError, Fails
  <2> QED BY <1>2, <2>1, <2>2
<1>15. ASSUME NEW t \in Threads, NEW r \in Rows, Claim(t, r) PROVE Behind'
  BY <1>15 DEF Claim, Behind, HasRow, TypeOK
<1>16. CASE UNCHANGED vars
  BY <1>1, <1>16 DEF vars, local, asg
<1> QED
  BY <1>3, <1>4, <1>5, <1>6, <1>7, <1>8, <1>9, <1>10, <1>11, <1>12, <1>13,
     <1>14, <1>15, <1>16 DEF Next, Go

---------------------------------------------------------------------------
(* Results.                                                                *)

QualInv == TypeOK /\ HasRow /\ Current /\ Behind

LEMMA QualInvariant == Spec => []QualInv
<1>1. Init => QualInv
  <2>1. Init => HasRow /\ Current /\ Behind
    BY DEF Init, HasRow, Current, Behind, IsLive
  <2> QED BY <2>1, TypeInit DEF QualInv
<1>2. QualInv /\ [Next]_vars => QualInv'
  BY TypeStep, RowStep, CurrentStep, BehindStep DEF QualInv
<1> QED BY <1>1, <1>2, PTL DEF Spec

\* The columns of the assignments and what the threads keep stay within
\* their ranges, for any number of rows, threads and generations.
THEOREM QualTypeCorrect == Spec => []TypeOK
BY QualInvariant, PTL DEF QualInv

\* Whatever syncs, snapshots, probes and reconciliations interleave, the feed
\* hands out only what a probe found with the present credentials.
THEOREM QualOfferedIsCurrent == Spec => []OfferedIsCurrent
<1>1. QualInv => OfferedIsCurrent
  BY DEF QualInv, Current, OfferedIsCurrent, Offered, IsLive
<1> QED BY <1>1, QualInvariant, PTL

\* A probe that was overtaken by another's verdict never writes its own.
THEOREM QualVerdictInOrder == Spec => VerdictInOrder
<1>1. QualInv /\ [Next]_vars =>
        [\A t \in Threads :
            overtaken[t] => ~(pc[t] = "write" /\ pc'[t] = "readall")]_vars
  <2> SUFFICES ASSUME QualInv, Next, NEW t \in Threads, overtaken[t],
                      pc[t] = "write", pc'[t] = "readall"
               PROVE  FALSE
    BY DEF vars
  <2> USE DEF QualInv
  <2>1. token[row[t]] # t
    BY DEF Behind
  <2>2. ASSUME NEW u \in Threads, Done(u) PROVE FALSE
    BY <2>2 DEF Done, TypeOK
  <2>3. ASSUME UNCHANGED local PROVE FALSE
    BY <2>3 DEF local
  <2>4. ASSUME NEW r \in Rows,
               StoreChanged(r) \/ StoreSame(r) \/ MarkMissing(r)
                  \/ NextCheck(r)
        PROVE FALSE
    BY <2>3, <2>4 DEF StoreChanged, StoreSame, MarkMissing, NextCheck
  <2>5. ASSUME NEW S \in SUBSET Rows, Snapshot(S) PROVE FALSE
    BY <2>3, <2>5 DEF Snapshot
  <2>6. ASSUME NEW ip \in Exits, UserExit(ip) PROVE FALSE
    BY <2>3, <2>6 DEF UserExit
  <2>7. CASE DashAges \/ Tick
    BY <2>3, <2>7 DEF DashAges, Tick
  <2>8. ASSUME NEW u \in Threads, Read(u) \/ Probe(u) \/ Judge(u)
                                     \/ ReadAll(u) \/ Flags(u)
        PROVE FALSE
    BY <2>2, <2>8 DEF Read, Probe, Judge, ReadAll, Flags, TypeOK
  <2>9. ASSUME NEW u \in Threads, Write(u) PROVE FALSE
    BY <2>1, <2>2, <2>9 DEF Write, Fenced, TypeOK
  <2>10. ASSUME NEW u \in Threads,
                Release(u) \/ ProbeError(u) \/ WorkerError(u) \/ Crash(u)
         PROVE FALSE
    BY <2>2, <2>10 DEF Release, ProbeError, WorkerError, Crash
  <2>11. ASSUME NEW u \in Threads, NEW r \in Rows, Claim(u, r) PROVE FALSE
    BY <2>11 DEF Claim, TypeOK
  <2> QED
    BY <2>4, <2>5, <2>6, <2>7, <2>8, <2>9, <2>10, <2>11 DEF Next, Go
<1> QED BY <1>1, QualInvariant, PTL DEF Spec, VerdictInOrder
=============================================================================
