----------------------------- MODULE JobsProofs -----------------------------
(***************************************************************************)
(* Proofs about the job runner, for every set of ids, runs and waiters and *)
(* every clock, window and pool size, and about the task centre that shows *)
(* its jobs, for every number of jobs, commands and broken streams.        *)
(***************************************************************************)
EXTENDS Jobs, TaskCentre, TLAPS

-----------------------------------------------------------------------------
(* Type correctness.  RecordTerminal writes the outcome into the registry, *)
(* so the type invariant needs to know that an outcome is there by then.   *)

TypeInv == TypeOK /\ OutcomeKnown

\* A prune only removes entries.
LEMMA PrunedType ==
    ASSUME TypeOK
    PROVE  Pruned \in [Ids -> JobEntry \cup {Absent}]
  BY DEF TypeOK, Pruned

\* The record an emitter writes keeps the registry well formed.
LEMMA WithProgressType ==
    ASSUME TypeOK, NEW r \in Runs, pc[r] # "new", NEW n \in 0 .. MaxReports
    PROVE  WithProgress(r, n) \in [Ids -> JobEntry \cup {Absent}]
<1>1. runId[r] \in Ids
  BY DEF TypeOK
<1>2. CASE Present(runId[r])
  <2>1. jobs[runId[r]] \in JobEntry
    BY <1>1, <1>2 DEF TypeOK, Present
  <2>2. [jobs[runId[r]] EXCEPT !.progress = n] \in JobEntry
    BY <2>1 DEF JobEntry
  <2> QED BY <1>1, <1>2, <2>2 DEF TypeOK, WithProgress
<1>3. CASE ~Present(runId[r])
  BY <1>3 DEF TypeOK, WithProgress
<1> QED BY <1>2, <1>3

\* Marking an entry keeps the registry well formed, whoever owns the entry.
LEMMA MarkedType ==
    ASSUME TypeOK, NEW i \in Ids
    PROVE  MarkedCancelling(i) \in [Ids -> JobEntry \cup {Absent}]
<1>1. CASE Present(i) /\ jobs[i].state = "running"
  <2>1. jobs[i] \in JobEntry
    BY <1>1 DEF TypeOK, Present
  <2>2. [jobs[i] EXCEPT !.state = "cancelling"] \in JobEntry
    BY <2>1 DEF JobEntry, JobState
  <2> QED BY <1>1, <2>2 DEF TypeOK, MarkedCancelling
<1>2. CASE ~(Present(i) /\ jobs[i].state = "running")
  BY <1>2 DEF TypeOK, MarkedCancelling
<1> QED BY <1>1, <1>2

\* A delivery appends an event or sets the token, and moves on.
LEMMA DeliverType ==
    ASSUME TypeOK, NEW r \in Runs, NEW e \in Events, NEW s \in Locs, NEW f \in Locs,
           Deliver(r, e, s, f)
    PROVE  /\ log' \in [Runs -> Seq(Events)]
           /\ token' \in [Runs -> BOOLEAN]
           /\ \E to \in {s, f} : pc' = [pc EXCEPT ![r] = to]
<1>1. CASE sinkOpen[r]
  <2>1. log' = [log EXCEPT ![r] = Append(@, e)] /\ token' = token
    BY <1>1 DEF Deliver
  <2>2. Append(log[r], e) \in Seq(Events)
    BY DEF TypeOK
  <2>3. pc' = [pc EXCEPT ![r] = s]
    BY <1>1 DEF Deliver
  <2> QED BY <2>1, <2>2, <2>3 DEF TypeOK
<1>2. CASE ~sinkOpen[r]
  <2>1. log' = log /\ token' = [token EXCEPT ![r] = TRUE]
    BY <1>2 DEF Deliver
  <2>2. pc' = [pc EXCEPT ![r] = f]
    BY <1>2 DEF Deliver
  <2> QED BY <2>1, <2>2 DEF TypeOK
<1> QED BY <1>1, <1>2

\* A step of one run's program counter that keeps the outcomes and ids.
LEMMA MoveType ==
    ASSUME TypeInv, NEW r \in Runs, NEW to \in Locs \ {"new"}, pc[r] # "new",
           pc' = [pc EXCEPT ![r] = to], runId' = runId, outcome' = outcome,
           to \in Ending => pc[r] \in Ending
    PROVE  /\ pc' \in [Runs -> Locs]
           /\ \A x \in Runs : pc'[x] # "new" => runId'[x] \in Ids
           /\ OutcomeKnown'
  BY DEF TypeInv, TypeOK, OutcomeKnown

\* The strengthened type invariant holds in every state.
LEMMA TypeInvHolds == Spec => []TypeInv
<1>1. Init => TypeInv
  BY JobsAssumption DEF Init, TypeInv, TypeOK, OutcomeKnown, Ending, Times, NoTime, Locs,
                        NotStarted, WaiterLocs, Answers
<1>2. TypeInv /\ [Next]_vars => TypeInv'
  <2> SUFFICES ASSUME TypeInv, [Next]_vars PROVE TypeInv'
    OBVIOUS
  <2> USE DEF regVars, emitVars, sinkVars
  <2>0. TypeOK /\ OutcomeKnown
    BY DEF TypeInv
  <2>1. ASSUME NEW r \in Runs, NEW i \in Ids, Spawn(r, i) PROVE TypeInv'
    <3>1. [state |-> "running", cancel |-> r, finishedAt |-> NoTime, progress |-> 0,
           terminal |-> "none"] \in JobEntry
      BY JobsAssumption DEF JobEntry, JobState, NoTime
    <3>2. jobs' \in [Ids -> JobEntry \cup {Absent}]
      BY <2>0, <2>1, <3>1, PrunedType DEF Spawn
    <3>3. CASE Pruned[i] = Absent
      <4>1. /\ pc' = [pc EXCEPT ![r] = "sendStarted"]
            /\ runId' = [runId EXCEPT ![r] = i]
        BY <2>1, <3>3 DEF Spawn
      <4> QED BY <2>0, <2>1, <3>2, <4>1 DEF Spawn, TypeInv, TypeOK, OutcomeKnown, Locs, Ending
    <3>4. CASE Pruned[i] # Absent
      <4>1. pc' = pc /\ runId' = runId
        BY <2>1, <3>4 DEF Spawn
      <4> QED BY <2>0, <2>1, <3>2, <4>1 DEF Spawn, TypeInv, TypeOK, OutcomeKnown
    <3> QED BY <3>3, <3>4
  <2>2. ASSUME NEW r \in Runs,
               \/ SendStarted(r) \/ SendReport(r) \/ Flush(r) \/ SendTerminal(r)
        PROVE  TypeInv'
    <3>1. /\ Event("started", 0) \in Events
          /\ Event("progress", current[r]) \in Events
      BY <2>0, JobsAssumption DEF Event, Events, TypeOK
    <3>2. pc[r] = "sendTerminal" => Event(outcome[r], 0) \in Events
      BY <2>0, JobsAssumption DEF Event, Events, OutcomeKnown, Ending
    <3>3. PICK e \in Events, s \in Locs \ {"new"}, f \in Locs \ {"new"} :
             /\ Deliver(r, e, s, f)
             /\ pc[r] # "new"
             /\ s \in Ending \/ f \in Ending => pc[r] \in Ending
      BY <2>2, <3>1, <3>2 DEF SendStarted, SendReport, Flush, SendTerminal, Locs, OnThread, Ending
    <3>4. PICK to \in {s, f} : pc' = [pc EXCEPT ![r] = to]
      BY <2>0, <3>3, DeliverType
    <3>5. UNCHANGED <<runner, now, regVars, emitVars, runId, sinkOpen, waiter>>
      BY <2>2 DEF SendStarted, SendReport, Flush, SendTerminal
    <3>6. log' \in [Runs -> Seq(Events)] /\ token' \in [Runs -> BOOLEAN]
      BY <2>0, <3>3, DeliverType
    <3>7. /\ pc' \in [Runs -> Locs]
          /\ \A x \in Runs : pc'[x] # "new" => runId'[x] \in Ids
          /\ OutcomeKnown'
      BY <3>3, <3>4, <3>5, MoveType
    <3> QED BY <2>0, <3>5, <3>6, <3>7 DEF TypeInv, TypeOK
  <2>3. ASSUME NEW r \in Runs,
               \/ MarkStarted(r) \/ MarkReport(r) \/ MarkFlush(r) \/ MarkTerminal(r)
        PROVE  TypeInv'
    <3>1. PICK from \in Locs \ {"new"}, to \in Locs \ {"new"} :
             MarkRefused(r, from, to) /\ (to \in Ending => from \in Ending)
      <4>1. CASE MarkStarted(r)
        BY <4>1 DEF MarkStarted, Locs, OnThread, Ending
      <4>2. CASE MarkReport(r)
        BY <4>2 DEF MarkReport, Locs, OnThread, Ending
      <4>3. CASE MarkFlush(r)
        BY <4>3 DEF MarkFlush, Locs, OnThread, Ending
      <4>4. CASE MarkTerminal(r)
        BY <4>4 DEF MarkTerminal, Locs, OnThread, Ending
      <4> QED
        BY <2>3, <4>1, <4>2, <4>3, <4>4
    <3>2. runId[r] \in Ids
      BY <2>0, <3>1 DEF MarkRefused, TypeOK
    <3>3. jobs' \in [Ids -> JobEntry \cup {Absent}]
      BY <2>0, <3>1, <3>2, MarkedType DEF MarkRefused
    <3>4. /\ pc' \in [Runs -> Locs]
          /\ \A x \in Runs : pc'[x] # "new" => runId'[x] \in Ids
          /\ OutcomeKnown'
      BY <3>1, MoveType DEF MarkRefused
    <3> QED BY <2>0, <3>1, <3>3, <3>4 DEF MarkRefused, TypeInv, TypeOK
  <2>4. ASSUME NEW r \in Runs, Schedule(r) \/ StartWork(r) PROVE TypeInv'
    <3>1. \E to \in {"queued", "working"} :
             pc[r] # "new" /\ pc' = [pc EXCEPT ![r] = to]
      BY <2>4 DEF Schedule, StartWork
    <3>2. UNCHANGED <<runner, now, regVars, emitVars, runId, token, sinkVars, waiter>>
      BY <2>4 DEF Schedule, StartWork
    <3>3. /\ pc' \in [Runs -> Locs]
          /\ \A x \in Runs : pc'[x] # "new" => runId'[x] \in Ids
          /\ OutcomeKnown'
      BY <3>1, <3>2, MoveType DEF Locs, OnThread, Ending
    <3> QED BY <2>0, <3>2, <3>3 DEF TypeInv, TypeOK
  <2>5. ASSUME NEW r \in Runs, NEW n \in 1 .. MaxReports, HoldReport(r, n) PROVE TypeInv'
    BY <2>0, <2>5 DEF HoldReport, Reported, TypeInv, TypeOK, OutcomeKnown
  <2>6. ASSUME NEW r \in Runs, NEW n \in 1 .. MaxReports, OfferReport(r, n) PROVE TypeInv'
    <3>1. pc[r] = "working" /\ pc' = [pc EXCEPT ![r] = "sendReport"]
      BY <2>6 DEF OfferReport, Reported
    <3>2. jobs' \in [Ids -> JobEntry \cup {Absent}]
      BY <2>0, <2>6, <3>1, WithProgressType DEF OfferReport
    <3>3. /\ pc' \in [Runs -> Locs]
          /\ \A x \in Runs : pc'[x] # "new" => runId'[x] \in Ids
          /\ OutcomeKnown'
      BY <2>6, <3>1, MoveType DEF OfferReport, Locs, OnThread, Ending
    <3> QED BY <2>0, <2>6, <3>2, <3>3, JobsAssumption DEF OfferReport, Reported, TypeInv, TypeOK
  <2>7. ASSUME NEW r \in Runs, NEW o \in TerminalStates, Return(r, o) PROVE TypeInv'
    <3>0. pc[r] = "working" /\ pending[r] \in 0 .. MaxReports
      BY <2>0, <2>7 DEF Return, TypeOK
    <3>1. jobs' \in [Ids -> JobEntry \cup {Absent}]
      <4>1. CASE pending[r] = 0
        BY <2>0, <2>7, <4>1 DEF Return, TypeOK
      <4>2. CASE pending[r] # 0
        <5>1. jobs' = WithProgress(r, pending[r])
          BY <2>7, <4>2 DEF Return
        <5> QED BY <2>0, <3>0, <5>1, WithProgressType
      <4> QED BY <4>1, <4>2
    <3>2. \E to \in {"record", "flush"} : pc' = [pc EXCEPT ![r] = to]
      BY <2>7 DEF Return
    <3>3. /\ pc' \in [Runs -> Locs]
          /\ \A x \in Runs : pc'[x] # "new" => runId'[x] \in Ids
      BY <2>0, <2>7, <3>2 DEF Return, TypeOK, Locs, OnThread
    <3>4. OutcomeKnown' /\ outcome' \in [Runs -> TerminalStates \cup {"none"}]
      BY <2>0, <2>7, <3>2 DEF Return, TypeOK, OutcomeKnown
    <3>5. current' \in [Runs -> 0 .. MaxReports]
      <4>1. current' = current \/ current' = [current EXCEPT ![r] = pending[r]]
        BY <2>7 DEF Return
      <4> QED BY <2>0, <3>0, <4>1 DEF TypeOK
    <3> QED BY <2>0, <2>7, <3>1, <3>3, <3>4, <3>5, JobsAssumption DEF Return, TypeInv, TypeOK
  <2>8. ASSUME NEW r \in Runs, RecordTerminal(r) PROVE TypeInv'
    <3>1. runId[r] \in Ids /\ outcome[r] \in TerminalStates
      BY <2>0, <2>8 DEF RecordTerminal, TypeOK, OutcomeKnown, Ending
    <3>2. ASSUME Present(runId[r])
          PROVE  [jobs[runId[r]] EXCEPT !.state = outcome[r], !.finishedAt = now,
                                        !.terminal = outcome[r]] \in JobEntry
      <4>1. jobs[runId[r]] \in JobEntry
        BY <2>0, <3>1, <3>2 DEF TypeOK, Present
      <4> QED BY <2>0, <3>1, <4>1 DEF TypeOK, JobEntry, JobState
    <3>3. jobs' \in [Ids -> JobEntry \cup {Absent}]
      BY <2>0, <2>8, <3>1, <3>2 DEF RecordTerminal, TypeOK
    <3>4. /\ pc' \in [Runs -> Locs]
          /\ \A x \in Runs : pc'[x] # "new" => runId'[x] \in Ids
          /\ OutcomeKnown'
      BY <2>8, MoveType DEF RecordTerminal, Locs, OnThread, Ending
    <3> QED BY <2>0, <2>8, <3>3, <3>4 DEF RecordTerminal, TypeInv, TypeOK
  <2>9. ASSUME NEW r \in Runs, Notify(r) PROVE TypeInv'
    <3>1. /\ pc' \in [Runs -> Locs]
          /\ \A x \in Runs : pc'[x] # "new" => runId'[x] \in Ids
          /\ OutcomeKnown'
      BY <2>9, MoveType DEF Notify, Locs, OnThread, Ending
    <3>2. waiter' \in [Waiters -> [at : WaiterLocs, target : Ids \cup {Idle}, answer : Answers]]
      BY <2>0, <2>9 DEF Notify, TypeOK, WaiterLocs
    <3> QED BY <2>0, <2>9, <3>1, <3>2 DEF Notify, TypeInv, TypeOK
  <2>10. ASSUME NEW i \in Ids, Cancel(i) PROVE TypeInv'
    <3>1. Pruned[i] # Absent => [Pruned[i] EXCEPT !.state = "cancelling"] \in JobEntry
      BY <2>0, PrunedType DEF JobEntry, JobState
    <3>2. jobs' \in [Ids -> JobEntry \cup {Absent}]
      BY <2>0, <2>10, <3>1, PrunedType DEF Cancel
    <3>3. token' \in [Runs -> BOOLEAN]
      BY <2>0, <2>10 DEF Cancel, TypeOK
    <3> QED BY <2>0, <2>10, <3>2, <3>3 DEF Cancel, TypeInv, TypeOK, OutcomeKnown
  <2>11. ASSUME CancelledAll
         PROVE  /\ jobs' \in [Ids -> JobEntry \cup {Absent}]
                /\ token' \in [Runs -> BOOLEAN]
    <3>1. ASSUME NEW i \in Ids, Stopping(jobs[i])
          PROVE  [jobs[i] EXCEPT !.state = "cancelling"] \in JobEntry
      <4>1. jobs[i] \in JobEntry
        BY <2>0, <3>1 DEF TypeOK, Stopping
      <4> QED BY <4>1 DEF JobEntry, JobState
    <3>2. jobs' \in [Ids -> JobEntry \cup {Absent}]
      BY <2>0, <2>11, <3>1 DEF CancelledAll, TypeOK
    <3>3. token' \in [Runs -> BOOLEAN]
      BY <2>0, <2>11 DEF CancelledAll, TypeOK
    <3> QED BY <3>2, <3>3
  <2>12. CASE CancelAll
    BY <2>0, <2>11, <2>12 DEF CancelAll, TypeInv, TypeOK, OutcomeKnown
  <2>13. CASE BeginDrop
    BY <2>0, <2>11, <2>13 DEF BeginDrop, TypeInv, TypeOK, OutcomeKnown
  <2>14. CASE FinishDrop
    BY <2>0, <2>14 DEF FinishDrop, TypeInv, TypeOK, OutcomeKnown, Locs, Ending
  <2>15. CASE Status
    BY <2>0, <2>15, PrunedType DEF Status, TypeInv, TypeOK, OutcomeKnown
  <2>16. ASSUME NEW w \in Waiters, NEW t \in Ids \cup {Idle}, BeginWait(w, t) PROVE TypeInv'
    BY <2>0, <2>16 DEF BeginWait, TypeInv, TypeOK, OutcomeKnown, WaiterLocs
  <2>17. ASSUME NEW w \in Waiters, CheckOrSleep(w) \/ TimeOut(w) PROVE TypeInv'
    <3>1. \A t \in Ids \cup {Idle} : Answer(t) \in Answers
      BY <2>0 DEF Answer, Answers, TypeOK, JobEntry, Present
    <3>2. \E at \in WaiterLocs, a \in Answers :
             waiter' = [waiter EXCEPT ![w].at = at, ![w].answer = a]
      <4>1. waiter[w].target \in Ids \cup {Idle}
        BY <2>0 DEF TypeOK
      <4>2. Answer(waiter[w].target) \in Answers
        BY <3>1, <4>1
      <4>3. CASE CheckOrSleep(w)
        BY <4>2, <4>3 DEF CheckOrSleep, WaiterLocs
      <4>4. CASE TimeOut(w)
        BY <4>2, <4>4 DEF TimeOut, WaiterLocs, Answers
      <4> QED BY <2>17, <4>3, <4>4
    <3>3. UNCHANGED <<runner, now, regVars, emitVars, pc, runId, token, sinkVars>>
      BY <2>17 DEF CheckOrSleep, TimeOut
    <3> QED BY <2>0, <3>2, <3>3 DEF TypeInv, TypeOK, OutcomeKnown
  <2>18. CASE SetClock
    BY <2>0, <2>18 DEF SetClock, TypeInv, TypeOK, OutcomeKnown
  <2>19. ASSUME NEW r \in Runs, DropSink(r) PROVE TypeInv'
    BY <2>0, <2>19 DEF DropSink, TypeInv, TypeOK, OutcomeKnown
  <2>20. CASE UNCHANGED vars
    BY <2>0, <2>20 DEF vars, TypeInv, TypeOK, OutcomeKnown
  <2> QED BY <2>1, <2>2, <2>3, <2>4, <2>5, <2>6, <2>7, <2>8, <2>9, <2>10, <2>12, <2>13, <2>14,
             <2>15, <2>16, <2>17, <2>18, <2>19, <2>20 DEF Next, RunStep
<1> QED BY <1>1, <1>2, PTL DEF Spec

\* Every state of the runner is well typed.
THEOREM TypeCorrect == Spec => []TypeOK
<1>1. TypeInv => TypeOK
  BY DEF TypeInv
<1> QED BY <1>1, TypeInvHolds, PTL

-----------------------------------------------------------------------------
(* Ownership of a registry entry.  An entry's end time, terminal event and *)
(* terminal state appear together (EntryShape), so a prune, which looks at *)
(* the end time only, removes ended entries only; and a spawn under an id  *)
(* in use is refused.  Hence a run keeps its entry until it records its    *)
(* own end.                                                                *)

EntryShape == \A i \in Ids : Present(i) =>
    /\ IsTerminal(jobs[i]) <=> jobs[i].terminal # "none"
    /\ IsTerminal(jobs[i]) <=> jobs[i].finishedAt # NoTime
    /\ pc[jobs[i].cancel] # "new"

OwnInv == EntryShape /\ LiveRunOwnsEntry

\* A prune keeps an entry as it is or removes it, and never removes one that
\* has not ended.
LEMMA PrunedKeeps ==
    ASSUME TypeOK, NEW i \in Ids
    PROVE  /\ Pruned[i] = jobs[i] \/ Pruned[i] = Absent
           /\ Present(i) /\ jobs[i].finishedAt = NoTime => Pruned[i] = jobs[i]
           /\ Pruned[i] # Absent => Present(i)
  BY DEF Pruned, Kept, Present, TypeOK

\* A registry that keeps, marks as cancelling or removes ended entries keeps
\* the invariant, when no run starts or ends.
LEMMA OwnStep ==
    ASSUME TypeInv, OwnInv,
           \A r \in Runs : pc'[r] \in Unrecorded => pc[r] \in Unrecorded,
           \A r \in Runs : pc'[r] = "new" => pc[r] = "new",
           runId' = runId,
           \A i \in Ids :
              \/ jobs'[i] = jobs[i]
              \/ jobs'[i] = Absent /\ (Present(i) => jobs[i].finishedAt # NoTime)
              \/ /\ Present(i) /\ jobs'[i] # Absent
                 /\ \E s \in JobState, n \in 0 .. MaxReports :
                       /\ jobs'[i] = [jobs[i] EXCEPT !.state = s, !.progress = n]
                       /\ s \notin TerminalStates /\ ~IsTerminal(jobs[i])
    PROVE  OwnInv'
<1>0. TypeOK
  BY DEF TypeInv
<1>1. EntryShape'
  <2> SUFFICES ASSUME NEW i \in Ids, Present(i)'
               PROVE  /\ IsTerminal(jobs'[i]) <=> jobs'[i].terminal # "none"
                      /\ IsTerminal(jobs'[i]) <=> jobs'[i].finishedAt # NoTime
                      /\ pc'[jobs'[i].cancel] # "new"
    BY DEF EntryShape, Present, IsTerminal
  <2>1. CASE jobs'[i] = jobs[i]
    <3>1. Present(i) /\ jobs[i] \in JobEntry
      BY <1>0, <2>1 DEF Present, TypeOK
    <3>2. jobs[i].cancel \in Runs /\ pc[jobs[i].cancel] # "new"
      BY <3>1 DEF OwnInv, EntryShape, JobEntry
    <3> QED BY <2>1, <3>1, <3>2 DEF OwnInv, EntryShape, IsTerminal
  <2>2. CASE jobs'[i] = Absent
    BY <2>2 DEF Present
  <2>3. CASE jobs'[i] # Absent /\ jobs'[i] # jobs[i]
    <3>1. PICK s \in JobState, n \in 0 .. MaxReports :
             /\ jobs'[i] = [jobs[i] EXCEPT !.state = s, !.progress = n]
             /\ s \notin TerminalStates /\ ~IsTerminal(jobs[i])
      BY <2>3
    <3>2. Present(i) /\ jobs[i] \in JobEntry
      BY <1>0, <2>3 DEF TypeOK, Present
    <3>3. /\ jobs'[i].state = s
          /\ jobs'[i].terminal = jobs[i].terminal
          /\ jobs'[i].finishedAt = jobs[i].finishedAt
          /\ jobs'[i].cancel = jobs[i].cancel /\ jobs[i].cancel \in Runs
      BY <3>1, <3>2 DEF JobEntry
    <3>4. pc'[jobs'[i].cancel] # "new"
      <4>1. pc[jobs[i].cancel] # "new"
        BY <3>2 DEF OwnInv, EntryShape
      <4>2. pc'[jobs[i].cancel] # "new"
        BY <3>3, <4>1
      <4> QED BY <3>3, <4>2
    <3> QED BY <3>1, <3>2, <3>3, <3>4 DEF OwnInv, EntryShape, IsTerminal
  <2> QED BY <2>1, <2>2, <2>3
<1>2. LiveRunOwnsEntry'
  <2> SUFFICES ASSUME NEW r \in Runs, pc'[r] \in Unrecorded
               PROVE  /\ jobs'[runId[r]] # Absent
                      /\ jobs'[runId[r]].cancel = r
                      /\ jobs'[runId[r]].state \notin TerminalStates
                      /\ jobs'[runId[r]].finishedAt = NoTime
    BY DEF LiveRunOwnsEntry, Present, IsTerminal
  <2>1. runId[r] \in Ids
    BY <1>0 DEF TypeOK, Unrecorded
  <2>2. /\ Present(runId[r]) /\ jobs[runId[r]].cancel = r
        /\ ~IsTerminal(jobs[runId[r]]) /\ jobs[runId[r]].finishedAt = NoTime
    BY DEF OwnInv, LiveRunOwnsEntry
  <2>3. CASE jobs'[runId[r]] = jobs[runId[r]]
    BY <2>2, <2>3 DEF Present, IsTerminal
  <2>4. CASE jobs'[runId[r]] # jobs[runId[r]]
    <3>1. PICK s \in JobState, n \in 0 .. MaxReports :
             /\ jobs'[runId[r]] = [jobs[runId[r]] EXCEPT !.state = s, !.progress = n]
             /\ s \notin TerminalStates /\ ~IsTerminal(jobs[runId[r]])
      BY <2>1, <2>2, <2>4
    <3>2. jobs[runId[r]] \in JobEntry /\ jobs'[runId[r]] # Absent
      BY <1>0, <2>1, <2>2, <2>4 DEF TypeOK, Present
    <3>3. /\ jobs'[runId[r]].state = s
          /\ jobs'[runId[r]].cancel = jobs[runId[r]].cancel
          /\ jobs'[runId[r]].finishedAt = jobs[runId[r]].finishedAt
      BY <3>1, <3>2 DEF JobEntry
    <3> QED BY <2>2, <3>1, <3>2, <3>3
  <2> QED BY <2>3, <2>4
<1> QED BY <1>1, <1>2 DEF OwnInv

\* An entry whose progress or live state changed is one OwnStep allows.
LEMMA EntryUpdate ==
    ASSUME NEW e \in JobEntry, NEW s \in JobState, NEW n \in 0 .. MaxReports
    PROVE  /\ [e EXCEPT !.state = s] = [e EXCEPT !.state = s, !.progress = e.progress]
           /\ [e EXCEPT !.progress = n] = [e EXCEPT !.state = e.state, !.progress = n]
           /\ [e EXCEPT !.state = s, !.progress = n] \in JobEntry
           /\ e.progress \in 0 .. MaxReports /\ e.state \in JobState
  BY DEF JobEntry

\* Recording progress changes the progress of one entry.
LEMMA WithProgressEntry ==
    ASSUME TypeOK, NEW i \in Ids, NEW r \in Runs, NEW n \in 0 .. MaxReports,
           pc[r] # "new", WithProgress(r, n)[i] # jobs[i]
    PROVE  /\ Present(i) /\ WithProgress(r, n)[i] # Absent
           /\ WithProgress(r, n)[i] = [jobs[i] EXCEPT !.state = jobs[i].state, !.progress = n]
<1>1. runId[r] \in Ids
  BY DEF TypeOK
<1>2. CASE Present(i) /\ runId[r] = i
  <2>1. WithProgress(r, n)[i] = [jobs[i] EXCEPT !.progress = n]
    BY <1>2 DEF WithProgress, TypeOK
  <2>2. jobs[i] \in JobEntry
    BY <1>2 DEF TypeOK, Present
  <2>3. [jobs[i] EXCEPT !.progress = n] \in JobEntry
    BY <2>2 DEF JobEntry
  <2>4. [jobs[i] EXCEPT !.progress = n] = [jobs[i] EXCEPT !.state = jobs[i].state, !.progress = n]
    BY <2>2 DEF JobEntry
  <2> QED BY <1>2, <2>1, <2>3, <2>4, AbsentAssumption
<1>3. CASE ~(Present(i) /\ runId[r] = i)
  BY <1>1, <1>3 DEF WithProgress, TypeOK
<1> QED BY <1>2, <1>3

\* A cancel request turns a live entry into a cancelling one.
LEMMA CancellingEntry ==
    ASSUME TypeOK, NEW i \in Ids, Present(i)
    PROVE  /\ [jobs[i] EXCEPT !.state = "cancelling"] # Absent
           /\ [jobs[i] EXCEPT !.state = "cancelling"] =
                [jobs[i] EXCEPT !.state = "cancelling", !.progress = jobs[i].progress]
<1>1. jobs[i] \in JobEntry /\ "cancelling" \in JobState
  BY DEF TypeOK, Present, JobState
<1>2. [jobs[i] EXCEPT !.state = "cancelling"] \in JobEntry
  BY <1>1 DEF JobEntry
<1> QED BY <1>1, <1>2, AbsentAssumption, EntryUpdate

\* A refused delivery marks at most one entry, a running one.
LEMMA MarkedEntry ==
    ASSUME TypeOK, NEW i \in Ids, NEW k \in Ids, MarkedCancelling(k)[i] # jobs[i]
    PROVE  /\ Present(i) /\ ~IsTerminal(jobs[i])
           /\ MarkedCancelling(k)[i] = [jobs[i] EXCEPT !.state = "cancelling"]
<1>1. Present(i) /\ k = i /\ jobs[i].state = "running"
  BY DEF MarkedCancelling, TypeOK
<1>2. ~IsTerminal(jobs[i])
  BY <1>1 DEF IsTerminal, TerminalStates
<1> QED BY <1>1, <1>2 DEF MarkedCancelling, TypeOK

\* What a step that neither starts nor ends a run does to an entry.
Quietly(i) ==
    \/ jobs'[i] = jobs[i]
    \/ jobs'[i] = Absent /\ (Present(i) => jobs[i].finishedAt # NoTime)
    \/ /\ Present(i) /\ jobs'[i] # Absent
       /\ \E s \in JobState, n \in 0 .. MaxReports :
             /\ jobs'[i] = [jobs[i] EXCEPT !.state = s, !.progress = n]
             /\ s \notin TerminalStates /\ ~IsTerminal(jobs[i])
             /\ s \in {jobs[i].state, "cancelling"}

\* The registries such a step may leave behind.
QuietRegistry ==
    \/ jobs' = jobs
    \/ jobs' = Pruned
    \/ \E k \in Ids : jobs' = MarkedCancelling(k)
    \/ \E r \in Runs, n \in 0 .. MaxReports :
          pc[r] \in Unrecorded \ {"dropped"} /\ jobs' = WithProgress(r, n)
    \/ CancelledAll

\* An ended entry is out of reach of every such step.
LEMMA QuietEntries ==
    ASSUME TypeInv, OwnInv, QuietRegistry, NEW i \in Ids
    PROVE  Quietly(i)
<1>0. TypeOK /\ LiveRunOwnsEntry
  BY DEF TypeInv, OwnInv
<1> USE DEF Quietly
<1>1. "cancelling" \in JobState \ TerminalStates
  BY DEF JobState, TerminalStates
<1>2. Present(i) => jobs[i].state \in JobState /\ jobs[i].progress \in 0 .. MaxReports
  BY <1>0 DEF TypeOK, Present, JobEntry
<1>3. CASE jobs' = jobs
  BY <1>3
<1>4. CASE jobs' = Pruned
  BY <1>0, <1>4, PrunedKeeps
<1>5. ASSUME jobs'[i] = [jobs[i] EXCEPT !.state = "cancelling"], Present(i),
             ~IsTerminal(jobs[i])
      PROVE  Quietly(i)
  BY <1>0, <1>1, <1>2, <1>5, CancellingEntry
<1>6. CASE \E k \in Ids : jobs' = MarkedCancelling(k)
  <2>1. PICK k \in Ids : jobs' = MarkedCancelling(k)
    BY <1>6
  <2>2. CASE jobs'[i] # jobs[i]
    BY <1>0, <1>5, <2>1, <2>2, MarkedEntry
  <2> QED BY <2>2
<1>7. CASE \E r \in Runs, n \in 0 .. MaxReports :
              pc[r] \in Unrecorded \ {"dropped"} /\ jobs' = WithProgress(r, n)
  <2>1. PICK r \in Runs, n \in 0 .. MaxReports :
           pc[r] \in Unrecorded \ {"dropped"} /\ jobs' = WithProgress(r, n)
    BY <1>7
  <2>2. CASE jobs'[i] # jobs[i]
    <3>1. /\ Present(i) /\ jobs'[i] # Absent
          /\ jobs'[i] = [jobs[i] EXCEPT !.state = jobs[i].state, !.progress = n]
      <4>1. pc[r] # "new"
        BY <2>1 DEF Unrecorded
      <4> QED BY <1>0, <2>1, <2>2, <4>1, WithProgressEntry
    <3>2. runId[r] = i
      BY <1>0, <2>1, <2>2 DEF WithProgress, TypeOK, Unrecorded
    <3>3. jobs[i].state \notin TerminalStates
      BY <1>0, <2>1, <3>2 DEF LiveRunOwnsEntry, IsTerminal
    <3> QED BY <1>2, <3>1, <3>3 DEF IsTerminal
  <2> QED BY <2>2
<1>8. CASE CancelledAll
  <2>1. CASE Stopping(jobs[i])
    <3>1. /\ jobs'[i] = [jobs[i] EXCEPT !.state = "cancelling"]
          /\ Present(i) /\ ~IsTerminal(jobs[i])
      BY <1>8, <2>1 DEF CancelledAll, Stopping, Present
    <3> QED BY <1>5, <3>1
  <2>2. CASE ~Stopping(jobs[i])
    BY <1>8, <2>2 DEF CancelledAll
  <2> QED BY <2>1, <2>2
<1> QED BY <1>3, <1>4, <1>6, <1>7, <1>8 DEF QuietRegistry

\* OwnStep for those steps.
LEMMA OwnQuiet ==
    ASSUME TypeInv, OwnInv, runId' = runId, QuietRegistry,
           \A r \in Runs : pc'[r] \in Unrecorded => pc[r] \in Unrecorded,
           \A r \in Runs : pc'[r] = "new" => pc[r] = "new"
    PROVE  OwnInv'
<1>1. \A i \in Ids : Quietly(i)
  BY QuietEntries
<1> QED BY <1>1, OwnStep DEF Quietly

\* The invariant is inductive.
LEMMA OwnInvHolds == Spec => []OwnInv
<1>1. Init => OwnInv
  BY DEF Init, OwnInv, EntryShape, LiveRunOwnsEntry, Present, Unrecorded
<1>2. TypeInv /\ OwnInv /\ [Next]_vars => OwnInv'
  <2> SUFFICES ASSUME TypeInv, OwnInv, [Next]_vars PROVE OwnInv'
    OBVIOUS
  <2> USE DEF regVars, emitVars, sinkVars
  <2>0. TypeOK /\ OutcomeKnown /\ EntryShape /\ LiveRunOwnsEntry
    BY DEF TypeInv, OwnInv
  <2>1. ASSUME NEW r \in Runs, NEW i \in Ids, Spawn(r, i) PROVE OwnInv'
    <3>1. CASE Pruned[i] # Absent
      <4>1. /\ jobs' = Pruned /\ pc' = pc /\ runId' = runId
        BY <2>0, <2>1, <3>1, PrunedType DEF Spawn
      <4> QED BY <4>1, OwnQuiet DEF QuietRegistry
    <3>2. CASE Pruned[i] = Absent
      <4>1. /\ pc' = [pc EXCEPT ![r] = "sendStarted"]
            /\ runId' = [runId EXCEPT ![r] = i]
            /\ jobs' = [Pruned EXCEPT ![i] =
                          [state |-> "running", cancel |-> r, finishedAt |-> NoTime,
                           progress |-> 0, terminal |-> "none"]]
        BY <2>0, <2>1, <3>2, PrunedType DEF Spawn
      <4>2. [state |-> "running", cancel |-> r, finishedAt |-> NoTime, progress |-> 0,
             terminal |-> "none"] \in JobEntry
        BY JobsAssumption DEF JobEntry, JobState, NoTime
      <4>3. jobs'[i] # Absent /\ ~IsTerminal(jobs'[i]) /\ jobs'[i].cancel = r
            /\ jobs'[i].finishedAt = NoTime /\ jobs'[i].terminal = "none"
        BY <2>0, <4>1, <4>2, PrunedType, AbsentAssumption DEF IsTerminal, TerminalStates
      <4>4. \A k \in Ids \ {i} : jobs'[k] = Pruned[k]
        BY <2>0, <4>1, PrunedType
      <4>5. EntryShape'
        <5> SUFFICES ASSUME NEW k \in Ids, jobs'[k] # Absent
                     PROVE  /\ IsTerminal(jobs'[k]) <=> jobs'[k].terminal # "none"
                            /\ IsTerminal(jobs'[k]) <=> jobs'[k].finishedAt # NoTime
                            /\ pc'[jobs'[k].cancel] # "new"
          BY DEF EntryShape, Present, IsTerminal
        <5>1. CASE k = i
          BY <2>0, <4>1, <4>3, <5>1 DEF TypeOK
        <5>2. CASE k # i
          <6>1. jobs'[k] = jobs[k] /\ Present(k)
            BY <2>0, <4>4, <5>2, PrunedKeeps
          <6>2. jobs[k].cancel \in Runs /\ pc[jobs[k].cancel] # "new"
            BY <2>0, <6>1 DEF EntryShape, TypeOK, Present, JobEntry
          <6> QED BY <2>0, <4>1, <6>1, <6>2 DEF EntryShape, TypeOK
        <5> QED BY <5>1, <5>2
      <4>6. LiveRunOwnsEntry'
        <5> SUFFICES ASSUME NEW x \in Runs, pc'[x] \in Unrecorded
                     PROVE  /\ jobs'[runId'[x]] # Absent /\ jobs'[runId'[x]].cancel = x
                            /\ ~IsTerminal(jobs'[runId'[x]])
                            /\ jobs'[runId'[x]].finishedAt = NoTime
          BY DEF LiveRunOwnsEntry, Present, IsTerminal
        <5>1. CASE x = r
          BY <2>0, <4>1, <4>3, <5>1 DEF TypeOK
        <5>2. CASE x # r
          <6>1. pc[x] \in Unrecorded /\ runId'[x] = runId[x] /\ runId[x] \in Ids
            BY <2>0, <4>1, <5>2 DEF TypeOK, Unrecorded
          <6>2. Present(runId[x]) /\ jobs[runId[x]].finishedAt = NoTime
            BY <2>0, <6>1 DEF LiveRunOwnsEntry
          <6>3. Pruned[runId[x]] = jobs[runId[x]] /\ runId[x] # i
            BY <2>0, <3>2, <6>1, <6>2, PrunedKeeps DEF Present
          <6> QED BY <2>0, <4>4, <6>1, <6>2, <6>3 DEF LiveRunOwnsEntry, Present
        <5> QED BY <5>1, <5>2
      <4> QED BY <4>5, <4>6 DEF OwnInv
    <3> QED BY <3>1, <3>2
  <2>2. ASSUME NEW r \in Runs,
               \/ SendStarted(r) \/ SendReport(r) \/ Flush(r) \/ SendTerminal(r)
        PROVE  OwnInv'
    <3>1. jobs' = jobs /\ runId' = runId
      BY <2>2 DEF SendStarted, SendReport, Flush, SendTerminal
    <3>2. /\ \A x \in Runs : pc'[x] \in Unrecorded => pc[x] \in Unrecorded
          /\ \A x \in Runs : pc'[x] = "new" => pc[x] = "new"
      BY <2>0, <2>2 DEF SendStarted, SendReport, Flush, SendTerminal, Deliver, Unrecorded, TypeOK
    <3> QED BY <3>1, <3>2, OwnQuiet DEF QuietRegistry
  <2>3. ASSUME NEW r \in Runs,
               \/ MarkStarted(r) \/ MarkReport(r) \/ MarkFlush(r) \/ MarkTerminal(r)
        PROVE  OwnInv'
    <3>1. jobs' = MarkedCancelling(runId[r]) /\ runId' = runId /\ runId[r] \in Ids
      BY <2>0, <2>3 DEF MarkStarted, MarkReport, MarkFlush, MarkTerminal, MarkRefused, TypeOK
    <3>2. /\ \A x \in Runs : pc'[x] \in Unrecorded => pc[x] \in Unrecorded
          /\ \A x \in Runs : pc'[x] = "new" => pc[x] = "new"
      BY <2>0, <2>3 DEF MarkStarted, MarkReport, MarkFlush, MarkTerminal, MarkRefused,
                        Unrecorded, TypeOK
    <3> QED BY <3>1, <3>2, OwnQuiet DEF QuietRegistry
  <2>4. ASSUME NEW r \in Runs, Schedule(r) \/ StartWork(r) \/ Notify(r) \/ DropSink(r)
        PROVE  OwnInv'
    <3>1. jobs' = jobs /\ runId' = runId
      BY <2>4 DEF Schedule, StartWork, Notify, DropSink
    <3>2. /\ \A x \in Runs : pc'[x] \in Unrecorded => pc[x] \in Unrecorded
          /\ \A x \in Runs : pc'[x] = "new" => pc[x] = "new"
      BY <2>0, <2>4 DEF Schedule, StartWork, Notify, DropSink, Unrecorded, TypeOK
    <3> QED BY <3>1, <3>2, OwnQuiet DEF QuietRegistry
  <2>5. ASSUME NEW r \in Runs, NEW n \in 1 .. MaxReports, HoldReport(r, n) \/ OfferReport(r, n)
        PROVE  OwnInv'
    <3>1. /\ runId' = runId /\ pc[r] = "working" /\ n \in 0 .. MaxReports
          /\ jobs' = jobs \/ jobs' = WithProgress(r, n)
      BY <2>5, JobsAssumption DEF HoldReport, OfferReport, Reported
    <3>2. /\ \A x \in Runs : pc'[x] \in Unrecorded => pc[x] \in Unrecorded
          /\ \A x \in Runs : pc'[x] = "new" => pc[x] = "new"
      BY <2>0, <2>5 DEF HoldReport, OfferReport, Reported, Unrecorded, TypeOK
    <3> QED BY <3>1, <3>2, OwnQuiet DEF QuietRegistry, Unrecorded
  <2>6. ASSUME NEW r \in Runs, NEW o \in TerminalStates, Return(r, o) PROVE OwnInv'
    <3>1. /\ runId' = runId /\ pc[r] = "working" /\ pending[r] \in 0 .. MaxReports
          /\ jobs' = jobs \/ jobs' = WithProgress(r, pending[r])
      BY <2>0, <2>6 DEF Return, TypeOK
    <3>2. /\ \A x \in Runs : pc'[x] \in Unrecorded => pc[x] \in Unrecorded
          /\ \A x \in Runs : pc'[x] = "new" => pc[x] = "new"
      BY <2>0, <2>6 DEF Return, Unrecorded, TypeOK
    <3> QED BY <3>1, <3>2, OwnQuiet DEF QuietRegistry, Unrecorded
  <2>7. ASSUME NEW r \in Runs, RecordTerminal(r) PROVE OwnInv'
    <3>1. /\ pc[r] = "record" /\ runId[r] \in Ids /\ outcome[r] \in TerminalStates
          /\ Present(runId[r]) /\ jobs[runId[r]].cancel = r
          /\ jobs[runId[r]] \in JobEntry
      BY <2>0, <2>7 DEF RecordTerminal, TypeOK, OutcomeKnown, Ending, LiveRunOwnsEntry,
                        Unrecorded, Present
    <3>2. jobs' = [jobs EXCEPT ![runId[r]] =
                     [jobs[runId[r]] EXCEPT !.state = outcome[r], !.finishedAt = now,
                                            !.terminal = outcome[r]]]
      BY <2>0, <2>7, <3>1 DEF RecordTerminal, TypeOK
    <3>3. /\ IsTerminal(jobs'[runId[r]]) /\ jobs'[runId[r]].terminal # "none"
          /\ jobs'[runId[r]].finishedAt # NoTime
      BY <2>0, <3>1, <3>2, JobsAssumption DEF TypeOK, JobEntry, IsTerminal, TerminalStates,
                                              Times, NoTime
    <3>4. \A k \in Ids \ {runId[r]} : jobs'[k] = jobs[k]
      BY <2>0, <3>2 DEF TypeOK
    <3>5. EntryShape'
      <4> SUFFICES ASSUME NEW k \in Ids, jobs'[k] # Absent
                   PROVE  /\ IsTerminal(jobs'[k]) <=> jobs'[k].terminal # "none"
                          /\ IsTerminal(jobs'[k]) <=> jobs'[k].finishedAt # NoTime
                          /\ pc'[jobs'[k].cancel] # "new"
        BY DEF EntryShape, Present, IsTerminal
      <4>1. /\ pc' = [pc EXCEPT ![r] = "sendTerminal"]
        BY <2>7 DEF RecordTerminal
      <4>2. CASE k = runId[r]
        <5>1. jobs'[k].cancel = r
          BY <2>0, <3>1, <3>2, <4>2 DEF TypeOK, JobEntry
        <5> QED BY <2>0, <3>3, <4>1, <4>2, <5>1 DEF TypeOK
      <4>3. CASE k # runId[r]
        <5>1. jobs'[k] = jobs[k] /\ Present(k)
          BY <3>4, <4>3 DEF Present
        <5>2. jobs[k].cancel \in Runs /\ pc[jobs[k].cancel] # "new"
          BY <2>0, <5>1 DEF EntryShape, TypeOK, Present, JobEntry
        <5> QED BY <2>0, <4>1, <5>1, <5>2 DEF EntryShape, TypeOK
      <4> QED BY <4>2, <4>3
    <3>6. ASSUME NEW x \in Runs, pc'[x] \in Unrecorded
          PROVE  pc[x] \in Unrecorded /\ runId'[x] = runId[x] /\ runId[x] \in Ids \ {runId[r]}
      <4>1. /\ pc' = [pc EXCEPT ![r] = "sendTerminal"] /\ runId' = runId
        BY <2>7 DEF RecordTerminal
      <4>2. x # r /\ pc[x] \in Unrecorded
        BY <2>0, <3>6, <4>1 DEF TypeOK, Unrecorded
      <4>3. jobs[runId[x]].cancel = x /\ runId[x] \in Ids
        BY <2>0, <4>2 DEF LiveRunOwnsEntry, TypeOK, Unrecorded
      <4> QED BY <3>1, <4>1, <4>2, <4>3
    <3>7. LiveRunOwnsEntry'
      BY <2>0, <3>4, <3>6 DEF LiveRunOwnsEntry, Present, IsTerminal
    <3> QED BY <3>5, <3>7 DEF OwnInv
  <2>8. ASSUME NEW i \in Ids, Cancel(i) PROVE OwnInv'
    <3> DEFINE stop == Pruned[i] # Absent /\ ~IsTerminal(Pruned[i])
    <3>1. CASE ~stop
      <4>1. jobs' = Pruned /\ pc' = pc /\ runId' = runId
        BY <2>8, <3>1 DEF Cancel
      <4> QED BY <4>1, OwnQuiet DEF QuietRegistry
    <3>2. CASE stop
      <4>1. /\ jobs' = [Pruned EXCEPT ![i].state = "cancelling"] /\ pc' = pc /\ runId' = runId
        BY <2>8, <3>2 DEF Cancel
      <4>2. Present(i) /\ Pruned[i] = jobs[i] /\ ~IsTerminal(jobs[i])
        BY <2>0, <3>2, PrunedKeeps
      <4>3. /\ jobs'[i] = [jobs[i] EXCEPT !.state = "cancelling", !.progress = jobs[i].progress]
            /\ jobs'[i] # Absent
        BY <2>0, <4>1, <4>2, PrunedType, CancellingEntry
      <4>4. \A k \in Ids \ {i} : jobs'[k] = Pruned[k]
        BY <2>0, <4>1, PrunedType
      <4>5. /\ "cancelling" \in JobState \ TerminalStates
            /\ jobs[i].progress \in 0 .. MaxReports
        BY <2>0, <4>2 DEF JobState, TerminalStates, TypeOK, Present, JobEntry
      <4>6. ASSUME NEW k \in Ids
            PROVE  \/ jobs'[k] = jobs[k]
                   \/ jobs'[k] = Absent /\ (Present(k) => jobs[k].finishedAt # NoTime)
                   \/ /\ Present(k) /\ jobs'[k] # Absent
                      /\ \E s \in JobState, n \in 0 .. MaxReports :
                            /\ jobs'[k] = [jobs[k] EXCEPT !.state = s, !.progress = n]
                            /\ s \notin TerminalStates /\ ~IsTerminal(jobs[k])
        <5>1. CASE k = i
          BY <4>2, <4>3, <4>5, <5>1
        <5>2. CASE k # i
          BY <2>0, <4>4, <5>2, PrunedKeeps
        <5> QED BY <5>1, <5>2
      <4> QED BY <4>1, <4>6, OwnStep
    <3> QED BY <3>1, <3>2
  <2>9. CASE CancelAll \/ BeginDrop
    <3>1. CancelledAll /\ pc' = pc /\ runId' = runId
      BY <2>9 DEF CancelAll, BeginDrop
    <3> QED BY <3>1, OwnQuiet DEF QuietRegistry
  <2>10. CASE FinishDrop
    <3>1. jobs' = jobs /\ runId' = runId
      BY <2>10 DEF FinishDrop
    <3>2. /\ \A x \in Runs : pc'[x] \in Unrecorded => pc[x] \in Unrecorded
          /\ \A x \in Runs : pc'[x] = "new" => pc[x] = "new"
      BY <2>0, <2>10 DEF FinishDrop, Unrecorded, TypeOK
    <3> QED BY <3>1, <3>2, OwnQuiet DEF QuietRegistry
  <2>11. CASE Status
    BY <2>11, OwnQuiet DEF QuietRegistry, Status
  <2>12. ASSUME NEW w \in Waiters,
                \/ \E t \in Ids \cup {Idle} : BeginWait(w, t)
                \/ CheckOrSleep(w) \/ TimeOut(w)
         PROVE  OwnInv'
    <3>1. jobs' = jobs /\ pc' = pc /\ runId' = runId
      BY <2>12 DEF BeginWait, CheckOrSleep, TimeOut
    <3> QED BY <3>1, OwnQuiet DEF QuietRegistry
  <2>13. CASE SetClock \/ UNCHANGED vars
    <3>1. jobs' = jobs /\ pc' = pc /\ runId' = runId
      BY <2>13 DEF SetClock, vars
    <3> QED BY <3>1, OwnQuiet DEF QuietRegistry
  <2> QED BY <2>1, <2>2, <2>3, <2>4, <2>5, <2>6, <2>7, <2>8, <2>9, <2>10, <2>11, <2>12, <2>13
          DEF Next, RunStep
<1> QED BY <1>1, <1>2, TypeInvHolds, PTL DEF Spec

\* A run that has not recorded its end owns the registry entry of its id.
THEOREM LiveRunOwnsItsEntry == Spec => []LiveRunOwnsEntry
<1>1. OwnInv => LiveRunOwnsEntry
  BY DEF OwnInv
<1> QED BY <1>1, OwnInvHolds, PTL

-----------------------------------------------------------------------------
(* Every step either is quiet, starts a run or ends one; the two theorems  *)
(* below follow from that.                                                 *)

\* The classification of the steps by what they do to the registry.
LEMMA StepKinds ==
    ASSUME TypeInv, OwnInv, [Next]_vars
    PROVE  \/ QuietRegistry
           \/ \E r \in Runs, i \in Ids : Spawn(r, i) /\ Pruned[i] = Absent
           \/ \E r \in Runs : RecordTerminal(r)
           \/ \E i \in Ids : Cancel(i) /\ Pruned[i] # Absent /\ ~IsTerminal(Pruned[i])
<1> USE DEF regVars, emitVars, sinkVars
<1>0. TypeOK
  BY DEF TypeInv
<1>1. ASSUME NEW r \in Runs, NEW i \in Ids, Spawn(r, i), Pruned[i] # Absent
      PROVE  QuietRegistry
  BY <1>0, <1>1, PrunedType DEF Spawn, QuietRegistry
<1>2. ASSUME NEW r \in Runs,
             \/ SendStarted(r) \/ SendReport(r) \/ Flush(r) \/ SendTerminal(r)
             \/ Schedule(r) \/ StartWork(r) \/ Notify(r) \/ DropSink(r)
      PROVE  QuietRegistry
  BY <1>2 DEF SendStarted, SendReport, Flush, SendTerminal, Schedule, StartWork, Notify,
              DropSink, QuietRegistry
<1>3. ASSUME NEW r \in Runs,
             \/ MarkStarted(r) \/ MarkReport(r) \/ MarkFlush(r) \/ MarkTerminal(r)
      PROVE  QuietRegistry
  <2>1. runId[r] \in Ids /\ jobs' = MarkedCancelling(runId[r])
    BY <1>0, <1>3 DEF MarkStarted, MarkReport, MarkFlush, MarkTerminal, MarkRefused, TypeOK
  <2> QED BY <2>1 DEF QuietRegistry
<1>4. ASSUME NEW r \in Runs, NEW n \in 1 .. MaxReports, HoldReport(r, n) \/ OfferReport(r, n)
      PROVE  QuietRegistry
  <2>1. /\ pc[r] = "working" /\ n \in 0 .. MaxReports
        /\ jobs' = jobs \/ jobs' = WithProgress(r, n)
    BY <1>4, JobsAssumption DEF HoldReport, OfferReport, Reported
  <2> QED BY <2>1 DEF QuietRegistry, Unrecorded
<1>5. ASSUME NEW r \in Runs, NEW o \in TerminalStates, Return(r, o) PROVE QuietRegistry
  <2>1. /\ pc[r] = "working" /\ pending[r] \in 0 .. MaxReports
        /\ jobs' = jobs \/ jobs' = WithProgress(r, pending[r])
    BY <1>0, <1>5 DEF Return, TypeOK
  <2> QED BY <2>1 DEF QuietRegistry, Unrecorded
<1>6. ASSUME NEW i \in Ids, Cancel(i), ~(Pruned[i] # Absent /\ ~IsTerminal(Pruned[i]))
      PROVE  QuietRegistry
  BY <1>6 DEF Cancel, QuietRegistry
<1>7. CASE \/ CancelAll \/ BeginDrop \/ FinishDrop \/ Status \/ SetClock \/ UNCHANGED vars
           \/ \E w \in Waiters, t \in Ids \cup {Idle} : BeginWait(w, t)
           \/ \E w \in Waiters : CheckOrSleep(w) \/ TimeOut(w)
  BY <1>7 DEF CancelAll, BeginDrop, FinishDrop, Status, SetClock, vars, BeginWait, CheckOrSleep,
              TimeOut, QuietRegistry
<1> QED BY <1>1, <1>2, <1>3, <1>4, <1>5, <1>6, <1>7 DEF Next, RunStep

\* A recorded end is final, for as long as the entry is there.
THEOREM EndIsFinal == Spec => EndedEntryIsFinal
<1>1. ASSUME TypeInv, OwnInv, [Next]_vars, NEW i \in Ids, Present(i), IsTerminal(jobs[i])
      PROVE  \/ jobs'[i] = jobs[i]
             \/ jobs'[i] = Absent
             \/ jobs'[i] # Absent /\ jobs'[i].cancel # jobs[i].cancel
  <2>0. TypeOK /\ EntryShape /\ LiveRunOwnsEntry
    BY <1>1 DEF TypeInv, OwnInv
  <2>1. CASE QuietRegistry
    <3>1. Quietly(i)
      BY <1>1, <2>1, QuietEntries
    <3> QED BY <1>1, <3>1 DEF Quietly
  <2>2. ASSUME NEW r \in Runs, NEW k \in Ids, Spawn(r, k), Pruned[k] = Absent
        PROVE  \/ jobs'[i] = jobs[i]
               \/ jobs'[i] = Absent
               \/ jobs'[i].cancel # jobs[i].cancel /\ jobs'[i] # Absent
    <3>1. /\ pc[r] = "new"
          /\ jobs' = [Pruned EXCEPT ![k] =
                        [state |-> "running", cancel |-> r, finishedAt |-> NoTime,
                         progress |-> 0, terminal |-> "none"]]
      BY <2>0, <2>2, PrunedType DEF Spawn
    <3>2. CASE k = i
      <4>1. jobs'[i] = [state |-> "running", cancel |-> r, finishedAt |-> NoTime,
                        progress |-> 0, terminal |-> "none"]
        BY <2>0, <3>1, <3>2, PrunedType
      <4>2. jobs'[i] \in JobEntry /\ jobs'[i].cancel = r
        BY <4>1, JobsAssumption DEF JobEntry, JobState, NoTime
      <4>3. pc[jobs[i].cancel] # "new"
        BY <1>1, <2>0 DEF EntryShape
      <4> QED BY <3>1, <4>2, <4>3, AbsentAssumption
    <3>3. CASE k # i
      BY <2>0, <3>1, <3>3, PrunedType, PrunedKeeps
    <3> QED BY <3>2, <3>3
  <2>3. ASSUME NEW r \in Runs, RecordTerminal(r) PROVE jobs'[i] = jobs[i]
    <3>1. /\ pc[r] = "record" /\ runId[r] \in Ids
          /\ ~IsTerminal(jobs[runId[r]])
      BY <2>0, <2>3 DEF RecordTerminal, TypeOK, LiveRunOwnsEntry, Unrecorded
    <3>2. i # runId[r]
      BY <1>1, <3>1
    <3> QED BY <2>0, <2>3, <3>1, <3>2 DEF RecordTerminal, TypeOK
  <2>4. ASSUME NEW k \in Ids, Cancel(k), Pruned[k] # Absent, ~IsTerminal(Pruned[k])
        PROVE  jobs'[i] = jobs[i] \/ jobs'[i] = Absent
    <3>1. jobs' = [Pruned EXCEPT ![k].state = "cancelling"]
      BY <2>4 DEF Cancel
    <3>2. k # i
      BY <1>1, <2>0, <2>4, PrunedKeeps
    <3> QED BY <2>0, <3>1, <3>2, PrunedType, PrunedKeeps
  <2> QED BY <1>1, <2>1, <2>2, <2>3, <2>4, StepKinds
<1>2. TypeInv /\ OwnInv /\ [Next]_vars =>
        [\A i \in Ids : Present(i) /\ IsTerminal(jobs[i]) =>
          \/ jobs'[i] = jobs[i]
          \/ jobs'[i] = Absent
          \/ jobs'[i] # Absent /\ jobs'[i].cancel # jobs[i].cancel]_vars
  BY <1>1
<1> QED BY <1>2, TypeInvHolds, OwnInvHolds, PTL DEF Spec, EndedEntryIsFinal

-----------------------------------------------------------------------------
(* No lost wakeup.  A waiter's answer appears in the registry only when a  *)
(* run records its end, and that run has its notify still to do.           *)

Settled(i) == ~Present(i) \/ IsTerminal(jobs[i])
Answerable(t) == IF t = Idle THEN \A i \in Ids : Settled(i) ELSE Settled(t)
Notifying == \E r \in Runs : pc[r] \in {"sendTerminal", "markTerminal", "notify"}
WakeInv == \A w \in Waiters :
    waiter[w].at = "asleep" /\ Answerable(waiter[w].target) => Notifying

\* The loop of a waiter answers exactly when its target is settled.
LEMMA AnswerIffAnswerable ==
    ASSUME TypeInv, OwnInv, NEW t \in Ids \cup {Idle}
    PROVE  Answer(t) # "unset" <=> Answerable(t)
<1>1. CASE t = Idle
  BY <1>1 DEF Answer, Answerable, AllTerminal, Settled
<1>2. CASE t # Idle /\ ~Present(t)
  BY <1>2 DEF Answer, Answerable, Settled
<1>3. CASE t # Idle /\ Present(t)
  <2>1. /\ jobs[t].terminal \in TerminalStates \cup {"none"}
        /\ IsTerminal(jobs[t]) <=> jobs[t].terminal # "none"
    BY <1>3 DEF TypeInv, TypeOK, OwnInv, EntryShape, Present, JobEntry
  <2> QED BY <1>3, <2>1 DEF Answer, Answerable, Settled, TerminalStates
<1> QED BY <1>1, <1>2, <1>3

\* Only RecordTerminal settles a job.
LEMMA SettlesOnlyAtEnd ==
    ASSUME TypeInv, OwnInv, [Next]_vars, ~\E r \in Runs : RecordTerminal(r), NEW i \in Ids,
           jobs'[i] = Absent \/ IsTerminal(jobs'[i])
    PROVE  Settled(i)
<1>0. TypeOK /\ EntryShape
  BY DEF TypeInv, OwnInv
<1>1. CASE QuietRegistry
  <2>1. Quietly(i)
    BY <1>1, QuietEntries
  <2>2. CASE jobs'[i] = jobs[i] \/ jobs'[i] = Absent
    BY <1>0, <2>1, <2>2 DEF Quietly, Settled, EntryShape, Present
  <2>3. CASE jobs'[i] # jobs[i] /\ jobs'[i] # Absent
    <3>1. PICK s \in JobState, n \in 0 .. MaxReports :
             /\ jobs'[i] = [jobs[i] EXCEPT !.state = s, !.progress = n]
             /\ s \notin TerminalStates /\ Present(i)
      BY <2>1, <2>3 DEF Quietly
    <3>2. jobs'[i].state = s
      BY <1>0, <3>1 DEF TypeOK, Present, JobEntry
    <3> QED BY <2>3, <3>1, <3>2 DEF IsTerminal
  <2> QED BY <2>2, <2>3
<1>2. ASSUME NEW r \in Runs, NEW k \in Ids, Spawn(r, k), Pruned[k] = Absent
      PROVE  Settled(i)
  <2>1. jobs' = [Pruned EXCEPT ![k] =
                   [state |-> "running", cancel |-> r, finishedAt |-> NoTime,
                    progress |-> 0, terminal |-> "none"]]
    BY <1>0, <1>2, PrunedType DEF Spawn
  <2>2. CASE k = i
    <3>1. jobs'[i] = [state |-> "running", cancel |-> r, finishedAt |-> NoTime,
                      progress |-> 0, terminal |-> "none"]
      BY <1>0, <2>1, <2>2, PrunedType
    <3>2. jobs'[i] \in JobEntry /\ ~IsTerminal(jobs'[i])
      BY <3>1, JobsAssumption DEF JobEntry, JobState, NoTime, IsTerminal, TerminalStates
    <3> QED BY <3>2, AbsentAssumption
  <2>3. CASE k # i
    <3>1. jobs'[i] = Pruned[i]
      BY <1>0, <2>1, <2>3, PrunedType
    <3> QED BY <1>0, <3>1, PrunedKeeps DEF Settled, EntryShape, Present
  <2> QED BY <2>2, <2>3
<1>3. ASSUME NEW k \in Ids, Cancel(k), Pruned[k] # Absent, ~IsTerminal(Pruned[k])
      PROVE  Settled(i)
  <2>1. jobs' = [Pruned EXCEPT ![k].state = "cancelling"]
    BY <1>3 DEF Cancel
  <2>2. CASE k = i
    <3>1. Pruned[i] \in JobEntry
      BY <1>0, <1>3, <2>2, PrunedType
    <3>2. jobs'[i] = [Pruned[i] EXCEPT !.state = "cancelling"]
      BY <1>0, <2>1, <2>2, PrunedType
    <3>3. jobs'[i] \in JobEntry /\ jobs'[i].state = "cancelling"
      BY <3>1, <3>2 DEF JobEntry, JobState
    <3> QED BY <3>3, AbsentAssumption DEF IsTerminal, TerminalStates
  <2>3. CASE k # i
    <3>1. jobs'[i] = Pruned[i]
      BY <1>0, <2>1, <2>3, PrunedType
    <3> QED BY <1>0, <3>1, PrunedKeeps DEF Settled, EntryShape, Present
  <2> QED BY <2>2, <2>3
<1> QED BY <1>1, <1>2, <1>3, StepKinds

\* A waiter never sleeps through its answer.
THEOREM NeverSleepsThroughAnswer == Spec => []NoLostWakeup
<1>1. Init => WakeInv
  BY DEF Init, WakeInv
<1>2. TypeInv /\ OwnInv /\ WakeInv /\ [Next]_vars => WakeInv'
  <2> SUFFICES ASSUME TypeInv, OwnInv, WakeInv, [Next]_vars, NEW w \in Waiters,
                      waiter'[w].at = "asleep", Answerable(waiter[w].target)'
               PROVE  Notifying'
    BY DEF WakeInv
  <2>0. TypeOK
    BY DEF TypeInv
  <2> USE DEF regVars, emitVars, sinkVars
  <2>1. CASE \E r \in Runs : RecordTerminal(r)
    BY <2>0, <2>1 DEF RecordTerminal, TypeOK, Notifying
  <2>2. CASE \E r \in Runs : Notify(r)
    BY <2>0, <2>2 DEF Notify, TypeOK
  <2>3. CASE /\ ~\E r \in Runs : RecordTerminal(r)
             /\ ~\E r \in Runs : Notify(r)
    <3>1. Notifying => Notifying'
      <4> SUFFICES ASSUME NEW r \in Runs, pc[r] \in {"sendTerminal", "markTerminal", "notify"}
                   PROVE  pc'[r] \in {"sendTerminal", "markTerminal", "notify"}
        BY DEF Notifying
      <4>1. ASSUME NEW x \in Runs, RunStep(x)
            PROVE  pc'[r] \in {"sendTerminal", "markTerminal", "notify"}
        <5>1. CASE x = r
          <6>1. SendTerminal(r) \/ MarkTerminal(r)
            BY <2>3, <4>1, <5>1 DEF RunStep, SendStarted, MarkStarted, Schedule, StartWork,
                 HoldReport, OfferReport, Reported, SendReport, MarkReport, Return, Flush,
                 MarkFlush, MarkRefused
          <6> QED BY <2>0, <6>1 DEF SendTerminal, MarkTerminal, MarkRefused, Deliver, TypeOK
        <5>2. CASE x # r
          <6>1. pc' = pc \/ \E to \in Locs : pc' = [pc EXCEPT ![x] = to]
            BY <4>1 DEF RunStep, SendStarted, MarkStarted, Schedule, StartWork,
                 HoldReport, OfferReport, Reported, SendReport, MarkReport, Return, Flush,
                 MarkFlush, MarkRefused, SendTerminal, MarkTerminal, RecordTerminal, Notify,
                 Deliver, Locs, OnThread
          <6> QED BY <2>0, <5>2, <6>1 DEF TypeOK
        <5> QED BY <5>1, <5>2
      <4>2. ASSUME NEW x \in Runs, NEW i \in Ids, Spawn(x, i) PROVE pc'[r] = pc[r]
        <5>1. pc' = pc \/ (pc[x] = "new" /\ pc' = [pc EXCEPT ![x] = "sendStarted"])
          BY <4>2 DEF Spawn
        <5> QED BY <2>0, <5>1 DEF TypeOK
      <4>3. CASE FinishDrop
        BY <2>0, <4>3 DEF FinishDrop, TypeOK
      <4>4. CASE \/ CancelAll \/ BeginDrop \/ Status \/ SetClock \/ UNCHANGED vars
                 \/ \E i \in Ids : Cancel(i)
                 \/ \E x \in Runs : DropSink(x)
                 \/ \E y \in Waiters, t \in Ids \cup {Idle} : BeginWait(y, t)
                 \/ \E y \in Waiters : CheckOrSleep(y) \/ TimeOut(y)
        BY <4>4 DEF CancelAll, BeginDrop, Status, SetClock, vars, Cancel, DropSink, BeginWait,
                    CheckOrSleep, TimeOut
      <4> QED BY <4>1, <4>2, <4>3, <4>4 DEF Next
    <3>2. ASSUME waiter'[w] = waiter[w] PROVE Notifying'
      <4>1. waiter[w].target \in Ids \cup {Idle}
        BY <2>0 DEF TypeOK
      <4>2. \A i \in Ids : Settled(i)' => Settled(i)
        BY <2>3, SettlesOnlyAtEnd DEF Settled, Present, IsTerminal
      <4>3. Answerable(waiter[w].target)
        BY <3>2, <4>1, <4>2 DEF Answerable
      <4> QED BY <3>1, <3>2, <4>3 DEF WakeInv
    <3>3. ASSUME waiter'[w] # waiter[w] PROVE FALSE
      <4>1. \/ \E y \in Waiters, t \in Ids \cup {Idle} : BeginWait(y, t)
            \/ \E y \in Waiters : CheckOrSleep(y) \/ TimeOut(y)
        BY <2>3, <3>3 DEF Next, RunStep, SendStarted, MarkStarted, Schedule, StartWork,
             HoldReport, OfferReport, SendReport, MarkReport, Return, Flush, MarkFlush,
             MarkRefused, SendTerminal, MarkTerminal, Spawn, DropSink, Cancel, CancelAll,
             Status, SetClock, BeginDrop, FinishDrop, vars
      <4>2. CASE \E y \in Waiters, t \in Ids \cup {Idle} : BeginWait(y, t)
        BY <2>0, <3>3, <4>2 DEF BeginWait, TypeOK
      <4>3. CASE \E y \in Waiters : TimeOut(y)
        BY <2>0, <3>3, <4>3 DEF TimeOut, TypeOK
      <4>4. CASE \E y \in Waiters : CheckOrSleep(y)
        <5>1. PICK y \in Waiters : CheckOrSleep(y)
          BY <4>4
        <5>2. y = w /\ Answer(waiter[w].target) = "unset"
          BY <2>0, <3>3, <5>1 DEF CheckOrSleep, TypeOK
        <5>3. waiter[w].target \in Ids \cup {Idle}
          BY <2>0 DEF TypeOK
        <5>4. ~Answerable(waiter[w].target)
          BY <5>2, <5>3, AnswerIffAnswerable
        <5>5. waiter'[w].target = waiter[w].target /\ jobs' = jobs
          BY <2>0, <5>1 DEF CheckOrSleep, TypeOK
        <5> QED BY <5>4, <5>5 DEF Answerable, Settled, Present, IsTerminal
      <4> QED BY <4>1, <4>2, <4>3, <4>4
    <3> QED BY <3>2, <3>3
  <2> QED BY <2>1, <2>2, <2>3
<1>3. TypeInv /\ OwnInv /\ WakeInv => NoLostWakeup
  <2> SUFFICES ASSUME TypeInv, OwnInv, WakeInv, NEW w \in Waiters,
                      waiter[w].at = "asleep", Answer(waiter[w].target) # "unset"
               PROVE  Notifying
    BY DEF NoLostWakeup, Notifying
  <2>1. waiter[w].target \in Ids \cup {Idle}
    BY DEF TypeInv, TypeOK
  <2> QED BY <2>1, AnswerIffAnswerable DEF WakeInv
<1> QED BY <1>1, <1>2, <1>3, TypeInvHolds, OwnInvHolds, PTL DEF Spec
-----------------------------------------------------------------------------
(* The sink.  While the receiver of a run is there, its log ends with the  *)
(* newest record the emitter sent, and a record the limiter holds back is  *)
(* newer; a refused delivery finds no receiver, now or later, so a         *)
(* terminal event that arrives has every earlier event before it.          *)

NotYetSent == {"new", "sendStarted", "markStarted"}
Refused == {"markStarted", "markReport", "markFlush", "markTerminal"}
UpToDate == {"schedule", "queued", "working", "record", "sendTerminal"}
Newer == {"sendReport", "flush"}

LogOf(r) ==
    /\ pc[r] \in {"new", "sendStarted"} => log[r] = <<>>
    /\ pc[r] \in NotYetSent \cup {"schedule", "queued"} => reports[r] = 0
    /\ pc[r] \in Refused => ~sinkOpen[r]
    /\ pending[r] # 0 => pc[r] = "working" /\ pending[r] = reports[r]
    /\ pc[r] \in Newer => current[r] = reports[r]
    /\ pc[r] \in UpToDate \cup Newer /\ sinkOpen[r] => log[r] # <<>>
    /\ pc[r] \in UpToDate /\ sinkOpen[r] /\ pending[r] = 0 => log[r][Len(log[r])].val = reports[r]
    /\ pc[r] \in UpToDate /\ sinkOpen[r] /\ pending[r] # 0 => log[r][Len(log[r])].val < reports[r]
    /\ pc[r] \in Newer /\ sinkOpen[r] => log[r][Len(log[r])].val < reports[r]
    /\ Delivered(r) => pc[r] \in {"notify", "done"} /\ log[r][Len(log[r]) - 1].val = reports[r]

LogInv == \A r \in Runs : LogOf(r)

LEMMA Appended ==
    ASSUME NEW s \in Seq(Events), NEW e \in Events
    PROVE  /\ Append(s, e) # <<>>
           /\ Append(s, e)[Len(Append(s, e))] = e
           /\ s # <<>> => Append(s, e)[Len(Append(s, e)) - 1] = s[Len(s)]
  OBVIOUS

\* A step of run r keeps the other runs' logs as they are.
LEMMA LogStep ==
    ASSUME LogInv, NEW r \in Runs, LogOf(r)',
           \A x \in Runs \ {r} : /\ pc'[x] = pc[x] /\ log'[x] = log[x] /\ reports'[x] = reports[x]
                                 /\ pending'[x] = pending[x] /\ current'[x] = current[x]
                                 /\ sinkOpen'[x] = sinkOpen[x]
    PROVE  LogInv'
<1>1. ASSUME NEW x \in Runs \ {r} PROVE LogOf(x)'
  <2>1. LogOf(x)
    BY DEF LogInv
  <2> QED
    BY <1>1, <2>1 DEF LogOf, Delivered
<1> QED
  BY <1>1 DEF LogInv

\* A send that arrives puts its event at the end; one that is refused finds the receiver gone.
LEMMA SendLog ==
    ASSUME TypeOK, NEW r \in Runs, NEW e \in Events, NEW s, NEW f, Deliver(r, e, s, f)
    PROVE  /\ \A x \in Runs \ {r} : pc'[x] = pc[x] /\ log'[x] = log[x]
           /\ \/ /\ sinkOpen[r] /\ pc'[r] = s /\ log'[r] = Append(log[r], e) /\ log'[r] # <<>>
                 /\ log'[r][Len(log'[r])] = e
                 /\ log[r] # <<>> => log'[r][Len(log'[r]) - 1] = log[r][Len(log[r])]
              \/ ~sinkOpen[r] /\ pc'[r] = f /\ log'[r] = log[r]
<1>1. CASE sinkOpen[r]
  <2>1. /\ log' = [log EXCEPT ![r] = Append(@, e)] /\ pc' = [pc EXCEPT ![r] = s]
    BY <1>1 DEF Deliver
  <2>2. log'[r] = Append(log[r], e) /\ log[r] \in Seq(Events)
    BY <2>1 DEF TypeOK
  <2> QED
    BY <1>1, <2>1, <2>2, Appended DEF TypeOK
<1>2. CASE ~sinkOpen[r]
  BY <1>2 DEF Deliver, TypeOK
<1> QED
  BY <1>1, <1>2

LEMMA SendsKeepLog ==
    ASSUME TypeInv, LogInv, NEW r \in Runs,
           SendStarted(r) \/ SendReport(r) \/ Flush(r) \/ SendTerminal(r)
    PROVE  LogInv'
<1> USE DEF regVars, emitVars, sinkVars
<1>0. /\ TypeOK /\ LogOf(r) /\ UNCHANGED <<sinkOpen, reports, pending, current>>
      /\ reports[r] \in Nat /\ pending[r] \in Nat /\ current[r] \in 0 .. MaxReports
  BY DEF TypeInv, LogInv, SendStarted, SendReport, Flush, SendTerminal, TypeOK
<1>1. ASSUME NEW e \in Events, NEW s, NEW f, Deliver(r, e, s, f), LogOf(r)'
      PROVE  LogInv'
  <2>1. \A x \in Runs \ {r} : pc'[x] = pc[x] /\ log'[x] = log[x]
    BY <1>0, <1>1, SendLog
  <2> QED
    BY <1>0, <1>1, <2>1, LogStep
<1>2. CASE SendStarted(r)
  <2>1. /\ pc[r] = "sendStarted" /\ Event("started", 0) \in Events
        /\ Deliver(r, Event("started", 0), "schedule", "markStarted")
    BY <1>2, JobsAssumption DEF SendStarted, Event, Events
  <2>2. LogOf(r)'
    <3>1. log[r] = <<>> /\ reports[r] = 0 /\ pending[r] = 0
      BY <1>0, <2>1 DEF LogOf, NotYetSent
    <3>2. ~IsEnd(Event("started", 0)) /\ Event("started", 0).val = 0
      BY DEF IsEnd, Event, TerminalStates
    <3>3. CASE /\ sinkOpen[r] /\ pc'[r] = "schedule" /\ log'[r] # <<>>
               /\ log'[r][Len(log'[r])] = Event("started", 0)
      BY <1>0, <3>1, <3>2, <3>3 DEF LogOf, Delivered, NotYetSent, Refused, UpToDate, Newer
    <3>4. CASE ~sinkOpen[r] /\ pc'[r] = "markStarted" /\ log'[r] = log[r]
      BY <1>0, <3>1, <3>4 DEF LogOf, Delivered, NotYetSent, Refused, UpToDate, Newer
    <3> QED
      BY <1>0, <2>1, <3>3, <3>4, SendLog
  <2> QED
    BY <1>1, <2>1, <2>2
<1>3. ASSUME NEW s \in {"working", "record"}, NEW f \in {"markReport", "markFlush"},
             pc[r] \in Newer, Deliver(r, Event("progress", current[r]), s, f)
      PROVE  LogInv'
  <2>1. Event("progress", current[r]) \in Events
    BY <1>0 DEF Event, Events
  <2>2. LogOf(r)'
    <3>1. current[r] = reports[r] /\ pending[r] = 0 /\ ~Delivered(r) /\ (sinkOpen[r] => log[r] # <<>>)
      BY <1>0, <1>3 DEF LogOf, Newer
    <3>2. ~IsEnd(Event("progress", current[r])) /\ Event("progress", current[r]).val = current[r]
      BY DEF IsEnd, Event, TerminalStates
    <3>3. CASE /\ sinkOpen[r] /\ pc'[r] = s /\ log'[r] # <<>>
               /\ log'[r][Len(log'[r])] = Event("progress", current[r])
      BY <1>0, <3>1, <3>2, <3>3 DEF LogOf, Delivered, NotYetSent, Refused, UpToDate, Newer
    <3>4. CASE ~sinkOpen[r] /\ pc'[r] = f /\ log'[r] = log[r]
      BY <1>0, <3>1, <3>4 DEF LogOf, Delivered, NotYetSent, Refused, UpToDate, Newer
    <3> QED
      BY <1>0, <1>3, <2>1, <3>3, <3>4, SendLog
  <2> QED
    BY <1>1, <1>3, <2>1, <2>2
<1>4. CASE SendTerminal(r)
  <2>1. /\ pc[r] = "sendTerminal" /\ Event(outcome[r], 0) \in Events
        /\ Deliver(r, Event(outcome[r], 0), "notify", "markTerminal")
    BY <1>4, JobsAssumption DEF SendTerminal, Event, Events, TypeInv, OutcomeKnown, Ending
  <2>2. LogOf(r)'
    <3>1. pending[r] = 0 /\ ~Delivered(r)
      BY <1>0, <2>1 DEF LogOf
    <3>2. sinkOpen[r] => log[r] # <<>> /\ log[r][Len(log[r])].val = reports[r]
      BY <1>0, <2>1, <3>1 DEF LogOf, UpToDate
    <3>3. CASE /\ sinkOpen[r] /\ pc'[r] = "notify" /\ log'[r] # <<>>
               /\ log'[r][Len(log'[r])] = Event(outcome[r], 0)
               /\ log'[r][Len(log'[r]) - 1] = log[r][Len(log[r])]
      BY <1>0, <3>1, <3>2, <3>3 DEF LogOf, Delivered, NotYetSent, Refused, UpToDate, Newer
    <3>4. CASE ~sinkOpen[r] /\ pc'[r] = "markTerminal" /\ log'[r] = log[r]
      BY <1>0, <3>1, <3>4 DEF LogOf, Delivered, NotYetSent, Refused, UpToDate, Newer
    <3> QED
      BY <1>0, <2>1, <3>2, <3>3, <3>4, SendLog
  <2> QED
    BY <1>1, <2>1, <2>2
<1> QED
  BY <1>2, <1>3, <1>4 DEF SendReport, Flush, Newer

\* A step that moves one run's thread and sends nothing, between points with the same view of the log.
LEMMA MoveKeepsLog ==
    ASSUME TypeInv, LogInv, NEW r \in Runs,
           \/ MarkStarted(r) \/ MarkReport(r) \/ MarkFlush(r) \/ MarkTerminal(r)
           \/ Schedule(r) \/ StartWork(r) \/ RecordTerminal(r) \/ Notify(r)
    PROVE  LogInv'
<1> USE DEF regVars, emitVars, sinkVars
<1>0. TypeOK /\ LogOf(r) /\ UNCHANGED <<sinkOpen, log, reports, pending, current>>
  BY DEF TypeInv, LogInv, MarkStarted, MarkReport, MarkFlush, MarkTerminal, MarkRefused, Schedule,
         StartWork, RecordTerminal, Notify
<1>1. PICK to \in Locs :
         /\ pc' = [pc EXCEPT ![r] = to]
         /\ <<pc[r], to>> \in
              {<<"markStarted", "schedule">>, <<"markReport", "working">>, <<"markFlush", "record">>,
               <<"markTerminal", "notify">>, <<"schedule", "queued">>, <<"queued", "working">>,
               <<"record", "sendTerminal">>, <<"notify", "done">>}
  BY Zenon DEF MarkStarted, MarkReport, MarkFlush, MarkTerminal, MarkRefused, Schedule, StartWork,
         RecordTerminal, Notify, Locs, OnThread
<1>2. pc'[r] = to /\ \A x \in Runs \ {r} : pc'[x] = pc[x]
  BY <1>0, <1>1 DEF TypeOK
<1>3. LogOf(r)'
  BY <1>0, <1>1, <1>2 DEF LogOf, Delivered, NotYetSent, Refused, UpToDate, Newer
<1> QED
  BY <1>0, <1>2, <1>3, LogStep

LEMMA ReportKeepsLog ==
    ASSUME TypeInv, LogInv, NEW r \in Runs, NEW n \in 1 .. MaxReports,
           HoldReport(r, n) \/ OfferReport(r, n)
    PROVE  LogInv'
<1> USE DEF regVars, emitVars, sinkVars
<1>0. /\ TypeOK /\ LogOf(r) /\ UNCHANGED <<sinkOpen, log>>
      /\ pc[r] = "working" /\ n = reports[r] + 1 /\ reports' = [reports EXCEPT ![r] = n]
      /\ reports[r] \in Nat /\ n \in Nat
  BY DEF TypeInv, LogInv, HoldReport, OfferReport, Reported, TypeOK
<1>1. ~Delivered(r) /\ (sinkOpen[r] => log[r] # <<>> /\ log[r][Len(log[r])].val < n)
  <2>1. sinkOpen[r] => log[r] # <<>>
    BY <1>0 DEF LogOf, UpToDate
  <2>2. ASSUME log[r] # <<>> PROVE log[r][Len(log[r])] \in Events
    BY <1>0, <2>2 DEF TypeOK
  <2>3. ASSUME sinkOpen[r] PROVE log[r][Len(log[r])].val < n
    <3>1. log[r][Len(log[r])].val \in Nat
      BY <2>1, <2>2, <2>3, JobsAssumption DEF Events
    <3>2. log[r][Len(log[r])].val = reports[r] \/ log[r][Len(log[r])].val < reports[r]
      BY <1>0, <2>3 DEF LogOf, UpToDate
    <3> QED
      BY <1>0, <3>1, <3>2
  <2> QED
    BY <1>0, <2>1, <2>3 DEF LogOf
<1>2. CASE HoldReport(r, n)
  <2>1. /\ pending' = [pending EXCEPT ![r] = n] /\ UNCHANGED <<pc, current>>
    BY <1>2 DEF HoldReport
  <2>2. LogOf(r)'
    BY <1>0, <1>1, <2>1 DEF TypeOK, LogOf, Delivered, NotYetSent, Refused, UpToDate, Newer
  <2> QED
    BY <1>0, <2>1, <2>2, LogStep DEF TypeOK
<1>3. CASE OfferReport(r, n)
  <2>1. /\ pending' = [pending EXCEPT ![r] = 0] /\ current' = [current EXCEPT ![r] = n]
        /\ pc' = [pc EXCEPT ![r] = "sendReport"]
    BY <1>3 DEF OfferReport
  <2>2. LogOf(r)'
    BY <1>0, <1>1, <2>1 DEF TypeOK, LogOf, Delivered, NotYetSent, Refused, UpToDate, Newer
  <2> QED
    BY <1>0, <2>1, <2>2, LogStep DEF TypeOK
<1> QED
  BY <1>2, <1>3

LEMMA ReturnKeepsLog ==
    ASSUME TypeInv, LogInv, NEW r \in Runs, NEW o \in TerminalStates, Return(r, o)
    PROVE  LogInv'
<1>0. /\ TypeOK /\ LogOf(r) /\ UNCHANGED <<sinkOpen, log, reports>> /\ pc[r] = "working"
      /\ pending' = [pending EXCEPT ![r] = 0]
  BY DEF TypeInv, LogInv, Return, sinkVars
<1>1. CASE pending[r] = 0
  <2>1. pc' = [pc EXCEPT ![r] = "record"] /\ current' = current
    BY <1>1 DEF Return
  <2>2. LogOf(r)'
    BY <1>0, <1>1, <2>1 DEF TypeOK, LogOf, Delivered, NotYetSent, Refused, UpToDate, Newer
  <2> QED
    BY <1>0, <2>1, <2>2, LogStep DEF TypeOK
<1>2. CASE pending[r] # 0
  <2>1. pc' = [pc EXCEPT ![r] = "flush"] /\ current' = [current EXCEPT ![r] = pending[r]]
    BY <1>2 DEF Return
  <2>2. LogOf(r)'
    BY <1>0, <1>2, <2>1 DEF TypeOK, LogOf, Delivered, NotYetSent, Refused, UpToDate, Newer
  <2> QED
    BY <1>0, <2>1, <2>2, LogStep DEF TypeOK
<1> QED
  BY <1>1, <1>2

LEMMA SpawnKeepsLog ==
    ASSUME TypeInv, LogInv, NEW r \in Runs, NEW i \in Ids, Spawn(r, i)
    PROVE  LogInv'
<1>0. /\ TypeOK /\ LogOf(r) /\ UNCHANGED <<sinkOpen, log, reports, pending, current>> /\ pc[r] = "new"
      /\ pc' = pc \/ pc' = [pc EXCEPT ![r] = "sendStarted"]
  BY DEF TypeInv, LogInv, Spawn, sinkVars, emitVars
<1>1. LogOf(r)' /\ \A x \in Runs \ {r} : pc'[x] = pc[x]
  BY <1>0 DEF TypeOK, LogOf, Delivered, NotYetSent, Refused, UpToDate, Newer
<1> QED
  BY <1>0, <1>1, LogStep

LEMMA SinkKeepsLog ==
    ASSUME TypeInv, LogInv, NEW r \in Runs, DropSink(r)
    PROVE  LogInv'
<1>0. /\ TypeOK /\ LogOf(r) /\ UNCHANGED <<pc, log, reports, pending, current>>
      /\ sinkOpen' = [sinkOpen EXCEPT ![r] = FALSE]
  BY DEF TypeInv, LogInv, DropSink, emitVars
<1>1. LogOf(r)' /\ \A x \in Runs \ {r} : sinkOpen'[x] = sinkOpen[x]
  BY <1>0 DEF TypeOK, LogOf, Delivered
<1> QED
  BY <1>0, <1>1, LogStep

\* Every other step leaves the sinks alone.
LEMMA RestKeepsLog ==
    ASSUME TypeInv, LogInv,
           \/ CancelAll \/ BeginDrop \/ FinishDrop \/ Status \/ SetClock \/ UNCHANGED vars
           \/ \E i \in Ids : Cancel(i)
           \/ \E w \in Waiters, t \in Ids \cup {Idle} : BeginWait(w, t)
           \/ \E w \in Waiters : CheckOrSleep(w) \/ TimeOut(w)
    PROVE  LogInv'
<1>1. /\ UNCHANGED <<sinkOpen, log, reports, pending, current>>
      /\ pc' = pc \/ pc' = [r \in Runs |-> IF pc[r] = "queued" THEN "dropped" ELSE pc[r]]
  BY DEF CancelAll, BeginDrop, FinishDrop, Status, SetClock, vars, Cancel, BeginWait, CheckOrSleep,
         TimeOut, emitVars, sinkVars
<1>2. ASSUME NEW r \in Runs PROVE LogOf(r)'
  <2>1. LogOf(r)
    BY DEF LogInv
  <2>2. pc'[r] = pc[r] \/ (pc[r] = "queued" /\ pc'[r] = "dropped")
    BY <1>1 DEF TypeInv, TypeOK
  <2> QED
    BY <1>1, <2>1, <2>2 DEF LogOf, Delivered, NotYetSent, Refused, UpToDate, Newer
<1> QED
  BY <1>2 DEF LogInv

LEMMA LogInvHolds == Spec => []LogInv
<1>1. Init => LogInv
  BY DEF Init, LogInv, LogOf, Delivered, Refused, UpToDate, Newer
<1>2. TypeInv /\ LogInv /\ [Next]_vars => LogInv'
  BY SendsKeepLog, MoveKeepsLog, ReportKeepsLog, ReturnKeepsLog, SpawnKeepsLog, SinkKeepsLog,
     RestKeepsLog DEF Next, RunStep
<1> QED
  BY <1>1, <1>2, TypeInvHolds, PTL DEF Spec

\* The newest record held back by the limiter reaches the sink before the terminal event.
THEOREM NewestRecordFlushed == Spec => []NewestProgressFlushed
<1>1. LogInv => NewestProgressFlushed
  BY DEF LogInv, LogOf, NewestProgressFlushed
<1> QED
  BY <1>1, LogInvHolds, PTL

-----------------------------------------------------------------------------
(* The promise.  Reg is what the registry says of a run; every step moves  *)
(* it as JobPromise allows, and every event that arrives is the one the    *)
(* promise expects next.                                                   *)

RegStates == {"none", "running", "cancelling", "gone"} \cup TerminalStates

LEMMA RegType ==
    ASSUME TypeOK, NEW r \in Runs
    PROVE  Reg(r) \in RegStates
<1>1. CASE pc[r] # "new" /\ Present(runId[r])
  <2>1. jobs[runId[r]] \in JobEntry
    BY <1>1 DEF TypeOK, Present
  <2> QED
    BY <2>1 DEF Reg, RegStates, JobEntry, JobState
<1> QED
  BY <1>1 DEF Reg, RegStates

\* Only a spawn gives a run its id.
LEMMA KeepsId ==
    ASSUME TypeOK, [Next]_vars, ~\E x \in Runs, i \in Ids : Spawn(x, i) /\ Pruned[i] = Absent,
           NEW r \in Runs
    PROVE  runId'[r] = runId[r] /\ (pc'[r] = "new" <=> pc[r] = "new")
<1> USE DEF regVars, emitVars, sinkVars
<1>1. ASSUME NEW x \in Runs, RunStep(x)
      PROVE  runId'[r] = runId[r] /\ (pc'[r] = "new" <=> pc[r] = "new")
  <2>1. runId' = runId
    BY <1>1 DEF RunStep, SendStarted, MarkStarted, Schedule, StartWork, HoldReport, OfferReport,
                SendReport, MarkReport, Return, Flush, MarkFlush, RecordTerminal, SendTerminal,
                MarkTerminal, MarkRefused, Notify
  <2>2. pc' = pc \/ (pc[x] # "new" /\ \E to \in Locs \ {"new"} : pc' = [pc EXCEPT ![x] = to])
    BY <1>1 DEF RunStep, SendStarted, MarkStarted, Schedule, StartWork, HoldReport, OfferReport,
                Reported, SendReport, MarkReport, Return, Flush, MarkFlush, RecordTerminal,
                SendTerminal, MarkTerminal, MarkRefused, Notify, Deliver, Locs, OnThread
  <2> QED
    BY <2>1, <2>2 DEF TypeOK
<1>2. ASSUME NEW x \in Runs, NEW i \in Ids, Spawn(x, i), Pruned[i] # Absent
      PROVE  runId'[r] = runId[r] /\ (pc'[r] = "new" <=> pc[r] = "new")
  BY <1>2 DEF Spawn
<1>3. CASE FinishDrop
  BY <1>3 DEF FinishDrop, TypeOK
<1>4. CASE \/ CancelAll \/ BeginDrop \/ Status \/ SetClock \/ UNCHANGED vars
           \/ \E i \in Ids : Cancel(i)
           \/ \E x \in Runs : DropSink(x)
           \/ \E w \in Waiters, t \in Ids \cup {Idle} : BeginWait(w, t)
           \/ \E w \in Waiters : CheckOrSleep(w) \/ TimeOut(w)
  BY <1>4 DEF CancelAll, BeginDrop, Status, SetClock, vars, Cancel, DropSink, BeginWait,
              CheckOrSleep, TimeOut
<1> QED
  BY <1>1, <1>2, <1>3, <1>4 DEF Next

\* What a step does to the registry's view of a run.
RegMove(r) ==
    \/ Reg(r)' = Reg(r)
    \/ Reg(r) = "none" /\ Reg(r)' = "running"
    \/ Reg(r) = "running" /\ Reg(r)' = "cancelling"
    \/ Reg(r) \in TerminalStates /\ Reg(r)' = "gone"
    \/ Reg(r) \in {"running", "cancelling"} /\ RecordTerminal(r) /\ Reg(r)' = outcome[r]

\* A step that moves the entry of a run as Quietly allows, or replaces an ended one.
LEMMA RegOfEntry ==
    ASSUME TypeOK, EntryShape, NEW r \in Runs, pc[r] # "new", pc'[r] # "new", runId'[r] = runId[r],
           Quietly(runId[r]) \/ (~(Present(runId[r]) /\ ~IsTerminal(jobs[runId[r]])) /\
                                 jobs'[runId[r]].cancel # r)
    PROVE  RegMove(r)
<1> DEFINE i == runId[r]
<1>0. i \in Ids
  BY DEF TypeOK
<1>1. CASE jobs'[i] = jobs[i]
  BY <1>1 DEF RegMove, Reg, Present
<1>2. CASE ~(Present(i) /\ jobs[i].cancel = r)
  <2>1. Reg(r) = "gone"
    BY <1>2 DEF Reg
  <2>2. ~(jobs'[i] # Absent /\ jobs'[i].cancel = r)
    <3>1. CASE Quietly(i) /\ Present(i) /\ jobs'[i] # jobs[i] /\ jobs'[i] # Absent
      <4>1. jobs[i] \in JobEntry
        BY <1>0, <3>1 DEF TypeOK, Present
      <4> QED
        BY <1>2, <3>1, <4>1 DEF Quietly, JobEntry
    <3> QED
      BY <1>2, <3>1 DEF Quietly, Present
  <2>3. Reg(r)' = "gone"
    BY <2>2 DEF Reg, Present
  <2> QED
    BY <2>1, <2>3 DEF RegMove
<1>3. CASE Present(i) /\ jobs[i].cancel = r /\ jobs'[i] # jobs[i]
  <2>0. jobs[i] \in JobEntry /\ Reg(r) = jobs[i].state
    BY <1>0, <1>3 DEF TypeOK, Present, Reg
  <2>1. CASE IsTerminal(jobs[i]) /\ (jobs'[i] = Absent \/ jobs'[i].cancel # r)
    <3>1. Reg(r)' = "gone"
      BY <2>1 DEF Reg, Present
    <3> QED
      BY <2>0, <2>1, <3>1 DEF RegMove, IsTerminal
  <2>2. CASE Quietly(i) /\ jobs'[i] = Absent
    <3>1. IsTerminal(jobs[i])
      BY <1>0, <1>3, <2>2 DEF Quietly, EntryShape, Present
    <3> QED
      BY <2>1, <2>2, <3>1
  <2>3. CASE Quietly(i) /\ jobs'[i] # Absent
    <3>1. PICK s \in JobState, n \in 0 .. MaxReports :
             /\ jobs'[i] = [jobs[i] EXCEPT !.state = s, !.progress = n]
             /\ s \notin TerminalStates /\ ~IsTerminal(jobs[i])
             /\ s \in {jobs[i].state, "cancelling"}
      BY <1>3, <2>3 DEF Quietly
    <3>2. jobs'[i].state = s /\ jobs'[i].cancel = r
      BY <1>3, <2>0, <3>1 DEF JobEntry
    <3>3. Reg(r)' = s
      BY <2>3, <3>2 DEF Reg, Present
    <3>4. jobs[i].state \in {"running", "cancelling"}
      BY <2>0, <3>1 DEF JobEntry, JobState, IsTerminal
    <3> QED
      BY <2>0, <3>1, <3>3, <3>4 DEF RegMove
  <2> QED
    BY <1>3, <2>1, <2>2, <2>3 DEF IsTerminal
<1> QED
  BY <1>1, <1>2, <1>3

LEMMA RegMoves ==
    ASSUME TypeInv, OwnInv, [Next]_vars, NEW r \in Runs
    PROVE  RegMove(r)
<1>0. TypeOK /\ EntryShape /\ LiveRunOwnsEntry
  BY DEF TypeInv, OwnInv
<1>1. ASSUME pc[r] = "new", pc'[r] = "new" PROVE RegMove(r)
  BY <1>1 DEF RegMove, Reg
<1>2. ASSUME pc[r] # "new", QuietRegistry, runId'[r] = runId[r], pc'[r] # "new" PROVE RegMove(r)
  <2>1. Quietly(runId[r])
    BY <1>0, <1>2, QuietEntries DEF TypeOK
  <2> QED
    BY <1>0, <1>2, <2>1, RegOfEntry
<1>3. ASSUME NEW x \in Runs, NEW i \in Ids, Spawn(x, i), Pruned[i] = Absent PROVE RegMove(r)
  <2>0. [state |-> "running", cancel |-> x, finishedAt |-> NoTime, progress |-> 0,
         terminal |-> "none"] \in JobEntry
    BY JobsAssumption DEF JobEntry, JobState, NoTime
  <2>1. /\ pc[x] = "new" /\ pc' = [pc EXCEPT ![x] = "sendStarted"] /\ runId' = [runId EXCEPT ![x] = i]
        /\ jobs'[i] # Absent /\ jobs'[i].state = "running" /\ jobs'[i].cancel = x
        /\ \A k \in Ids \ {i} : jobs'[k] = Pruned[k]
    BY <1>0, <1>3, <2>0, PrunedType, AbsentAssumption DEF Spawn
  <2>2. CASE r = x
    <3>1. Reg(r) = "none" /\ Reg(r)' = "running"
      BY <1>0, <2>1, <2>2 DEF Reg, Present, TypeOK
    <3> QED
      BY <3>1 DEF RegMove
  <2>3. CASE r # x /\ pc[r] # "new"
    <3>1. pc'[r] # "new" /\ runId'[r] = runId[r] /\ runId[r] \in Ids
      BY <1>0, <2>1, <2>3 DEF TypeOK
    <3>2. CASE runId[r] = i
      <4>1. ~(Present(i) /\ ~IsTerminal(jobs[i]))
        BY <1>0, <1>3, PrunedKeeps DEF EntryShape, Present
      <4> QED
        BY <1>0, <2>1, <2>3, <3>1, <3>2, <4>1, RegOfEntry
    <3>3. CASE runId[r] # i
      <4>1. Quietly(runId[r])
        BY <1>0, <2>1, <3>1, <3>3, PrunedKeeps DEF Quietly
      <4> QED
        BY <1>0, <2>3, <3>1, <4>1, RegOfEntry
    <3> QED
      BY <3>2, <3>3
  <2>4. CASE r # x /\ pc[r] = "new"
    BY <1>0, <1>1, <2>1, <2>4 DEF TypeOK
  <2> QED
    BY <2>2, <2>3, <2>4
<1>4. ASSUME NEW x \in Runs, RecordTerminal(x), pc[r] # "new", runId'[r] = runId[r], pc'[r] # "new"
      PROVE  RegMove(r)
  <2>0. /\ pc[x] = "record" /\ runId[x] \in Ids /\ Present(runId[x]) /\ jobs[runId[x]].cancel = x
        /\ ~IsTerminal(jobs[runId[x]]) /\ jobs[runId[x]] \in JobEntry
    BY <1>0, <1>4 DEF RecordTerminal, TypeOK, LiveRunOwnsEntry, Unrecorded, Present
  <2>1. /\ jobs' = [jobs EXCEPT ![runId[x]].state = outcome[x], ![runId[x]].finishedAt = now,
                                ![runId[x]].terminal = outcome[x]]
    BY <1>4, <2>0 DEF RecordTerminal
  <2>2. /\ jobs'[runId[x]].state = outcome[x] /\ jobs'[runId[x]].cancel = x
        /\ \A k \in Ids \ {runId[x]} : jobs'[k] = jobs[k]
    BY <1>0, <2>0, <2>1 DEF TypeOK, JobEntry
  <2>3. jobs'[runId[x]] # Absent
    <3>1. outcome[x] \in TerminalStates /\ now \in Times
      BY <1>0, <2>0 DEF TypeInv, TypeOK, OutcomeKnown, Ending
    <3>2. jobs'[runId[x]] \in JobEntry
      BY <1>0, <2>0, <2>1, <3>1 DEF TypeOK, JobEntry, JobState
    <3> QED
      BY <3>2, AbsentAssumption
  <2>4. CASE r = x
    <3>1. Reg(r) = jobs[runId[x]].state /\ Reg(r)' = outcome[x]
      BY <1>4, <2>0, <2>2, <2>3, <2>4 DEF Reg, Present
    <3>2. jobs[runId[x]].state \in {"running", "cancelling"}
      BY <2>0 DEF JobEntry, JobState, IsTerminal
    <3> QED
      BY <1>4, <2>4, <3>1, <3>2 DEF RegMove
  <2>5. CASE r # x /\ runId[r] = runId[x]
    <3>1. Reg(r) = "gone" /\ Reg(r)' = "gone"
      BY <1>4, <2>0, <2>2, <2>5 DEF Reg
    <3> QED
      BY <3>1 DEF RegMove
  <2>6. CASE r # x /\ runId[r] # runId[x]
    <3>1. jobs'[runId[r]] = jobs[runId[r]]
      BY <1>0, <1>4, <2>2, <2>6 DEF TypeOK
    <3> QED
      BY <1>4, <3>1 DEF RegMove, Reg, Present
  <2> QED
    BY <2>4, <2>5, <2>6
<1>5. ASSUME NEW i \in Ids, Cancel(i), Pruned[i] # Absent, ~IsTerminal(Pruned[i]), pc[r] # "new",
             runId'[r] = runId[r], pc'[r] # "new"
      PROVE  RegMove(r)
  <2>1. jobs' = [Pruned EXCEPT ![i].state = "cancelling"] /\ runId[r] \in Ids
    BY <1>0, <1>5 DEF Cancel, TypeOK
  <2>2. Present(i) /\ Pruned[i] = jobs[i] /\ jobs[i] \in JobEntry /\ ~IsTerminal(jobs[i])
    BY <1>0, <1>5, PrunedKeeps DEF TypeOK, Present
  <2>3. Quietly(runId[r])
    <3>1. CASE runId[r] = i
      <4>1. jobs'[i] = [jobs[i] EXCEPT !.state = "cancelling"]
        BY <1>0, <2>1, <2>2, PrunedType
      <4>2. "cancelling" \in JobState \ TerminalStates /\ jobs[i].progress \in 0 .. MaxReports
        BY <2>2 DEF JobState, TerminalStates, JobEntry
      <4> QED
        BY <1>0, <2>2, <3>1, <4>1, <4>2, CancellingEntry DEF Quietly
    <3>2. CASE runId[r] # i
      BY <1>0, <2>1, <3>2, PrunedType, PrunedKeeps DEF Quietly
    <3> QED
      BY <3>1, <3>2
  <2> QED
    BY <1>0, <1>5, <2>3, RegOfEntry
<1>6. CASE ~\E x \in Runs, i \in Ids : Spawn(x, i) /\ Pruned[i] = Absent
  <2>1. runId'[r] = runId[r] /\ (pc'[r] = "new" <=> pc[r] = "new")
    BY <1>0, <1>6, KeepsId
  <2> QED
    BY <1>1, <1>2, <1>4, <1>5, <1>6, <2>1, StepKinds
<1> QED
  BY <1>3, <1>6

\* What the registry holds of a run whose terminal event is on its way.
EndOf(r) ==
    pc[r] \in {"sendTerminal", "markTerminal", "notify", "done"} => Reg(r) \in {outcome[r], "gone"}
EndInv == \A r \in Runs : EndOf(r)

LEMMA EndKept ==
    ASSUME TypeInv, OwnInv, EndInv, [Next]_vars, NEW r \in Runs
    PROVE  EndOf(r)'
<1>0. TypeOK
  BY DEF TypeInv
<1>1. CASE RecordTerminal(r)
  <2>1. Reg(r) \in {"running", "cancelling"} /\ RegMove(r) /\ outcome' = outcome
    <3>1. pc[r] = "record" /\ outcome' = outcome
      BY <1>1 DEF RecordTerminal, emitVars
    <3>2. /\ runId[r] \in Ids /\ Present(runId[r]) /\ jobs[runId[r]].cancel = r
          /\ ~IsTerminal(jobs[runId[r]]) /\ jobs[runId[r]] \in JobEntry
      BY <1>0, <3>1 DEF TypeOK, OwnInv, LiveRunOwnsEntry, Unrecorded, Present
    <3> QED
      BY <3>1, <3>2, RegMoves DEF Reg, JobEntry, JobState, IsTerminal
  <2>2. Reg(r)' = outcome[r]
    <3>1. /\ pc[r] = "record" /\ pc'[r] = "sendTerminal" /\ runId' = runId /\ runId[r] \in Ids
          /\ Present(runId[r]) /\ jobs[runId[r]].cancel = r /\ jobs[runId[r]] \in JobEntry
      BY <1>0, <1>1 DEF RecordTerminal, TypeOK, OwnInv, LiveRunOwnsEntry, Unrecorded, Present
    <3>2. jobs'[runId[r]].state = outcome[r] /\ jobs'[runId[r]].cancel = r
      BY <1>0, <1>1, <3>1 DEF RecordTerminal, TypeOK, JobEntry
    <3>3. jobs'[runId[r]] \in JobEntry
      <4>1. outcome[r] \in TerminalStates /\ now \in Times
        BY <1>0, <3>1 DEF TypeInv, TypeOK, OutcomeKnown, Ending
      <4> QED
        BY <1>0, <1>1, <3>1, <4>1 DEF RecordTerminal, TypeOK, JobEntry, JobState
    <3> QED
      BY <3>1, <3>2, <3>3, AbsentAssumption DEF Reg, Present
  <2> QED
    BY <2>1, <2>2 DEF EndOf
<1>2. CASE ~RecordTerminal(r)
  <2>1. SUFFICES ASSUME pc'[r] \in {"sendTerminal", "markTerminal", "notify", "done"}
                 PROVE  Reg(r)' \in {outcome'[r], "gone"}
    BY DEF EndOf
  <2>2. pc[r] \in {"sendTerminal", "markTerminal", "notify", "done"} /\ outcome'[r] = outcome[r]
    <3> USE DEF regVars, emitVars, sinkVars
    <3>1. ASSUME NEW x \in Runs, RunStep(x)
          PROVE  pc[r] \in {"sendTerminal", "markTerminal", "notify", "done"} /\ outcome'[r] = outcome[r]
      <4>1. CASE x = r
        BY <1>0, <1>2, <2>1, <3>1, <4>1 DEF RunStep, SendStarted, MarkStarted, Schedule, StartWork,
           HoldReport, OfferReport, Reported, SendReport, MarkReport, Return, Flush, MarkFlush,
           SendTerminal, MarkTerminal, MarkRefused, Notify, Deliver, TypeOK
      <4>2. CASE x # r
        <5>1. pc'[r] = pc[r]
          <6>1. pc' = pc \/ \E to \in Locs : pc' = [pc EXCEPT ![x] = to]
            BY <3>1 DEF RunStep, SendStarted, MarkStarted, Schedule, StartWork,
               HoldReport, OfferReport, Reported, SendReport, MarkReport, Return, Flush, MarkFlush,
               SendTerminal, MarkTerminal, MarkRefused, RecordTerminal, Notify, Deliver, Locs, OnThread
          <6> QED
            BY <1>0, <4>2, <6>1 DEF TypeOK
        <5>2. outcome'[r] = outcome[r]
          BY <1>0, <3>1, <4>2 DEF RunStep, SendStarted, MarkStarted, Schedule, StartWork,
             HoldReport, OfferReport, Reported, SendReport, MarkReport, Return, Flush, MarkFlush,
             SendTerminal, MarkTerminal, MarkRefused, RecordTerminal, Notify, TypeOK
        <5> QED
          BY <2>1, <5>1, <5>2
      <4> QED
        BY <4>1, <4>2
    <3>2. ASSUME NEW x \in Runs, NEW i \in Ids, Spawn(x, i)
          PROVE  pc[r] \in {"sendTerminal", "markTerminal", "notify", "done"} /\ outcome'[r] = outcome[r]
      BY <1>0, <2>1, <3>2 DEF Spawn, TypeOK
    <3>3. CASE FinishDrop
      BY <1>0, <2>1, <3>3 DEF FinishDrop, TypeOK
    <3>4. CASE \/ CancelAll \/ BeginDrop \/ Status \/ SetClock \/ UNCHANGED vars
               \/ \E i \in Ids : Cancel(i)
               \/ \E x \in Runs : DropSink(x)
               \/ \E w \in Waiters, t \in Ids \cup {Idle} : BeginWait(w, t)
               \/ \E w \in Waiters : CheckOrSleep(w) \/ TimeOut(w)
      BY <2>1, <3>4 DEF CancelAll, BeginDrop, Status, SetClock, vars, Cancel, DropSink, BeginWait,
                  CheckOrSleep, TimeOut
    <3> QED
      BY <3>1, <3>2, <3>3, <3>4 DEF Next
  <2>3. outcome[r] \in TerminalStates /\ Reg(r) \in {outcome[r], "gone"}
    BY <2>2 DEF EndInv, EndOf, TypeInv, OutcomeKnown, Ending
  <2>4. RegMove(r)
    BY RegMoves
  <2> QED
    BY <1>2, <2>2, <2>3, <2>4 DEF RegMove, TerminalStates
<1> QED
  BY <1>1, <1>2

LEMMA EndInvHolds == Spec => []EndInv
<1>1. Init => EndInv
  BY DEF Init, EndInv, EndOf
<1>2. TypeInv /\ OwnInv /\ EndInv /\ [Next]_vars => EndInv'
  BY EndKept DEF EndInv
<1> QED
  BY <1>1, <1>2, TypeInvHolds, OwnInvHolds, PTL DEF Spec

\* The sends: what arrives is the event the promise expects.
LEMMA SendKeepsPromise ==
    ASSUME TypeInv, OwnInv, LogInv, EndInv, NEW r \in Runs,
           SendStarted(r) \/ SendReport(r) \/ Flush(r) \/ SendTerminal(r), log' # log,
           [q \in Runs |-> Reg(q)]' = [q \in Runs |-> Reg(q)]
    PROVE  Promise!Send(r)
<1> USE DEF regVars, emitVars, sinkVars
<1>0. TypeOK /\ LogOf(r) /\ EndOf(r) /\ sinkOpen[r] /\ log[r] \in Seq(Events) /\ pc[r] \in Locs
  BY DEF TypeInv, LogInv, EndInv, SendStarted, SendReport, Flush, SendTerminal, Deliver, TypeOK
<1>1. ~Delivered(r) /\ ~Promise!Ended(log[r])
  BY <1>0 DEF SendStarted, SendReport, Flush, SendTerminal, LogOf, Delivered, IsEnd, Promise!Ended
<1>2. pc[r] \in {"sendStarted", "sendReport", "flush"} => Reg(r) \in {"running", "cancelling"}
  <2> SUFFICES ASSUME pc[r] \in {"sendStarted", "sendReport", "flush"}
               PROVE  Reg(r) \in {"running", "cancelling"}
    OBVIOUS
  <2>1. /\ Present(runId[r]) /\ jobs[runId[r]].cancel = r /\ ~IsTerminal(jobs[runId[r]])
        /\ jobs[runId[r]] \in JobEntry
    BY <1>0 DEF OwnInv, LiveRunOwnsEntry, Unrecorded, TypeOK, Present
  <2> QED
    BY <2>1 DEF Reg, JobEntry, JobState, IsTerminal
<1>3. CASE SendStarted(r)
  <2>1. log[r] = <<>> /\ log' = [log EXCEPT ![r] = Append(@, Event("started", 0))]
    BY <1>0, <1>3 DEF SendStarted, Deliver, LogOf
  <2>2. Append(log[r], Event("started", 0)) = <<[kind |-> "started", val |-> 0]>>
    BY <2>1 DEF Event
  <2>3. log' = [log EXCEPT ![r] = <<[kind |-> "started", val |-> 0]>>]
    BY <2>1, <2>2
  <2> QED
    BY <1>1, <1>2, <1>3, <2>1, <2>3 DEF SendStarted, Promise!Send, Promise!Live
<1>4. CASE SendReport(r) \/ Flush(r)
  <2>1. /\ pc[r] \in Newer
        /\ log' = [log EXCEPT ![r] = Append(@, [kind |-> "progress", val |-> current[r]])]
    BY <1>0, <1>4 DEF SendReport, Flush, Deliver, Newer, Event
  <2>2. /\ log[r] # <<>> /\ current[r] = reports[r]
        /\ log[r][Len(log[r])].val < reports[r] /\ reports[r] \in 0 .. MaxReports
    BY <1>0, <2>1 DEF LogOf, Newer, TypeOK
  <2>3. log[r][Len(log[r])].val \in Nat
    <3>1. log[r][Len(log[r])] \in Events
      BY <1>0, <2>2
    <3> QED
      BY <3>1 DEF Events
  <2>4. current[r] \in 1 .. MaxReports /\ current[r] > log[r][Len(log[r])].val
    BY <2>2, <2>3, JobsAssumption
  <2> QED
    BY <1>1, <1>2, <2>1, <2>2, <2>4 DEF Newer, Promise!Send, Promise!Live
<1>5. CASE SendTerminal(r)
  <2>1. /\ pc[r] = "sendTerminal" /\ outcome[r] \in TerminalStates
        /\ log' = [log EXCEPT ![r] = Append(@, [kind |-> outcome[r], val |-> 0])]
    BY <1>0, <1>5 DEF SendTerminal, Deliver, Event, TypeInv, OutcomeKnown, Ending
  <2>2. log[r] # <<>> /\ Reg(r) \in {outcome[r], "gone"}
    BY <1>0, <2>1 DEF LogOf, UpToDate, EndOf
  <2> QED
    BY <1>1, <2>1, <2>2 DEF Promise!Send
<1> QED
  BY <1>3, <1>4, <1>5

\* Only a send writes to a sink.
LEMMA OnlySendsLog ==
    ASSUME [Next]_vars, log' # log
    PROVE  jobs' = jobs /\ runId' = runId /\
           \E r \in Runs : SendStarted(r) \/ SendReport(r) \/ Flush(r) \/ SendTerminal(r)
<1> USE DEF regVars, emitVars, sinkVars
<1>1. ASSUME NEW r \in Runs, RunStep(r)
      PROVE  SendStarted(r) \/ SendReport(r) \/ Flush(r) \/ SendTerminal(r)
  BY <1>1 DEF RunStep, MarkStarted, Schedule, StartWork, HoldReport, OfferReport, MarkReport,
              Return, MarkFlush, MarkTerminal, MarkRefused, RecordTerminal, Notify
<1>2. \E r \in Runs : RunStep(r)
  BY DEF Next, vars, Cancel, CancelAll, Status, BeginWait, CheckOrSleep, TimeOut, SetClock,
         BeginDrop, FinishDrop, DropSink, Spawn
<1> QED
  BY <1>1, <1>2 DEF SendStarted, SendReport, Flush, SendTerminal

\* The job runner keeps its promise: every step, seen through the registry and the sinks, is one of
\* JobPromise's or changes nothing there.
THEOREM RunnerKeepsPromise == Spec => KeepsPromise
<1>1. Init => Promise!Init
  <2> SUFFICES ASSUME Init PROVE Promise!Init
    OBVIOUS
  <2>1. \A r \in Runs : Reg(r) = "none"
    BY DEF Init, Reg
  <2> QED
    BY <2>1 DEF Init, Promise!Init
<1>2. TypeInv /\ OwnInv /\ LogInv /\ EndInv /\ [Next]_vars =>
        [Promise!Next]_<<[r \in Runs |-> Reg(r)], log>>
  <2> SUFFICES ASSUME TypeInv, OwnInv, LogInv, EndInv, [Next]_vars
               PROVE  Promise!Next \/ UNCHANGED <<[r \in Runs |-> Reg(r)], log>>
    OBVIOUS
  <2>0. TypeOK
    BY DEF TypeInv
  <2>1. CASE log' # log
    <3>1. PICK r \in Runs : SendStarted(r) \/ SendReport(r) \/ Flush(r) \/ SendTerminal(r)
      BY <2>1, OnlySendsLog
    <3>2. jobs' = jobs /\ runId' = runId /\ \A q \in Runs : pc'[q] = "new" <=> pc[q] = "new"
      BY <2>0, <2>1, <3>1, OnlySendsLog DEF SendStarted, SendReport, Flush, SendTerminal, Deliver, TypeOK
    <3>3. \A q \in Runs : Reg(q)' = Reg(q)
      BY <3>2 DEF Reg, Present
    <3>4. [q \in Runs |-> Reg(q)]' = [q \in Runs |-> Reg(q)]
      BY <3>3
    <3> QED
      BY <2>1, <3>1, <3>4, SendKeepsPromise DEF Promise!Next
  <2>2. CASE log' = log
    <3>1. \A r \in Runs : RecordTerminal(r) => outcome[r] \in TerminalStates
      BY DEF TypeInv, OutcomeKnown, Ending, RecordTerminal
    <3>2. \A r \in Runs : Reg(r)' \in RegStates
      BY <2>0, <3>1, RegMoves, RegType DEF RegMove, RegStates
    <3>3. ASSUME NEW r \in Runs PROVE Promise!RegStep(r)
      <4>1. RegMove(r)
        BY RegMoves
      <4> QED
        BY <3>1, <4>1 DEF RegMove, Promise!RegStep, Promise!Live
    <3>4. [r \in Runs |-> Reg(r)]' \in [Runs -> RegStates]
      BY <3>2
    <3> QED
      BY <2>2, <3>3, <3>4 DEF Promise!Next, Promise!Registry, RegStates
  <2> QED
    BY <2>1, <2>2
<1> QED
  BY <1>1, <1>2, TypeInvHolds, OwnInvHolds, LogInvHolds, EndInvHolds, PTL
     DEF Spec, KeepsPromise, Promise!Spec
-----------------------------------------------------------------------------
(* The task centre. An event binds the row of a call to the job it names, rightly or not, so rows say   *)
(* little before a job ends. After that the order of the one stream is enough: the last event of a job  *)
(* is the last one in the pipe, so once it is gone no event of the job is left to change its row, and   *)
(* an answer settles only rows that are still running.                                                  *)

\* An event and the state of its job: a last event tells how the job ended, another one was sent.
Truthful(e) ==
    /\ e.state \in Ends => stage[e.job] = e.state
    /\ e.state = "running" => progress[e.job] > 0

\* The last event of job n is still to be applied, or will never be.
Unheard(n) == n \in lost \/ \E i \in DOMAIN pipe : pipe[i] = [job |-> n, state |-> stage[n]]

PipeInv ==
    /\ \A i \in DOMAIN pipe : Truthful(pipe[i])
    /\ \A i, j \in DOMAIN pipe : i < j /\ pipe[i].state \in Ends => pipe[i].job # pipe[j].job

\* The state of job n on the backend and the rows of it and of its call.
RowInv(n) ==
    /\ progress[n] > 0 => stage[n] \in {"working"} \cup Ends
    /\ stage[n] = "unmade" => call[n] = "none"
    /\ bound[n] # NoJob => call[n] = "waiting"
    /\ local[n] = "running" => call[n] = "waiting" /\ bound[n] = NoJob
    /\ shown[n] = "running" => progress[n] > 0
    /\ stage[n] \in Ends /\ ~Unheard(n) =>
         /\ shown[n] \in {"absent", stage[n]}
         /\ \A i \in DOMAIN pipe : pipe[i].job # n

PageTypes ==
    /\ stage \in [Jobs -> {"unmade", "working", "refused"} \cup Ends]
    /\ progress \in [Jobs -> Nat]
    /\ call \in [Jobs -> {"none", "waiting", "back"}]
    /\ local \in [Jobs -> Rows] /\ shown \in [Jobs -> Rows]
    /\ bound \in [Jobs -> Jobs \cup {NoJob}]
    /\ pipe \in Seq(PageEvents)
    /\ lost \subseteq Jobs

PageInv == PageTypes /\ PipeInv /\ \A n \in Jobs : RowInv(n)

LEMMA PageInvInit == PageInit => PageInv
<1> SUFFICES ASSUME PageInit PROVE PageInv
  OBVIOUS
<1>1. PageTypes
  BY DEF PageInit, PageTypes, Rows, Ends, NoJob
<1>2. PipeInv
  BY DEF PageInit, PipeInv
<1>3. ASSUME NEW n \in Jobs PROVE RowInv(n)
  BY DEF PageInit, RowInv, NoJob, Ends
<1> QED
  BY <1>1, <1>2, <1>3 DEF PageInv

LEMMA EventAt ==
    ASSUME PageTypes, NEW i \in DOMAIN pipe
    PROVE  pipe[i] \in PageEvents /\ pipe[i].job \in Jobs
<1>1. pipe[i] \in PageEvents
  BY DEF PageTypes
<1> QED
  BY <1>1 DEF PageEvents

\* What a step does to the pipe, as far as a job m is concerned that it does not end.
Overhears(m) ==
    /\ Unheard(m) => Unheard(m)'
    /\ (\A i \in DOMAIN pipe : pipe[i].job # m) => (\A i \in DOMAIN pipe : pipe[i].job # m)'

LEMMA SamePipe ==
    ASSUME PageInv, pipe' = pipe, lost' = lost,
           \A m \in Jobs : stage[m] \in Ends => stage'[m] = stage[m],
           \A m \in Jobs : progress[m] > 0 => progress'[m] > 0
    PROVE  /\ PipeInv'
           /\ \A m \in Jobs : stage'[m] = stage[m] => Overhears(m)
<1>1. ASSUME NEW i \in DOMAIN pipe PROVE Truthful(pipe[i])'
  <2>1. Truthful(pipe[i]) /\ pipe[i].job \in Jobs
    BY EventAt DEF PageInv, PipeInv
  <2> QED
    BY <2>1 DEF Truthful
<1>2. PipeInv'
  BY <1>1 DEF PageInv, PipeInv
<1> QED
  BY <1>2 DEF Overhears, Unheard

\* An event of a working job is broadcast: it is the last one of the job when it ends it.
LEMMA BroadcastPipe ==
    ASSUME PageInv, NEW b \in Jobs, NEW s \in {"running"} \cup Ends,
           stage[b] = "working", Broadcast([job |-> b, state |-> s]),
           \A m \in Jobs \ {b} : stage'[m] = stage[m],
           \A m \in Jobs : progress[m] > 0 => progress'[m] > 0,
           s \in Ends => stage'[b] = s,
           s = "running" => progress'[b] > 0
    PROVE  /\ PipeInv' /\ (pipe \in Seq(PageEvents))' /\ (lost \subseteq Jobs)'
           /\ \A m \in Jobs \ {b} : Overhears(m)
           /\ s \in Ends => Unheard(b)'
<1>1. pipe \in Seq(PageEvents) /\ lost \subseteq Jobs /\ PipeInv
  BY DEF PageInv, PageTypes
<1>2. PICK e \in PageEvents : e = [job |-> b, state |-> s]
  BY DEF PageEvents
<1>3. e.job = b /\ e.state = s /\ Truthful(e)'
  BY <1>2 DEF Truthful
<1>4. ASSUME NEW i \in DOMAIN pipe, NEW f, f = pipe[i] PROVE Truthful(f)' /\ (f.state \in Ends => f.job # b)
  <2>1. Truthful(f) /\ f.job \in Jobs
    BY <1>4, EventAt DEF PageInv, PipeInv
  <2>2. f.state \in Ends => f.job # b
    BY <2>1 DEF Truthful, Ends
  <2> QED
    BY <2>1, <2>2 DEF Truthful
<1>5. CASE pipe' = Append(pipe, e) /\ lost' = lost
  <2>1. PICK q : q = pipe'
    OBVIOUS
  <2>2. /\ q \in Seq(PageEvents) /\ Len(q) = Len(pipe) + 1
        /\ DOMAIN q = DOMAIN pipe \cup {Len(q)} /\ Len(q) \notin DOMAIN pipe
        /\ \A i \in DOMAIN pipe : q[i] = pipe[i]
        /\ q[Len(q)] = e
    BY <1>1, <1>5, <2>1
  <2>3. ASSUME NEW i \in DOMAIN q, NEW f, f = q[i] PROVE Truthful(f)'
    BY <1>3, <1>4, <2>2, <2>3
  <2>4. ASSUME NEW i \in DOMAIN q, NEW j \in DOMAIN q, i < j, q[i].state \in Ends PROVE q[i].job # q[j].job
    <3>1. i \in DOMAIN pipe
      BY <1>1, <2>2, <2>4
    <3>2. CASE j \in DOMAIN pipe
      BY <1>1, <2>2, <2>4, <3>1, <3>2 DEF PipeInv
    <3>3. CASE j = Len(q)
      BY <1>3, <1>4, <2>2, <2>4, <3>1, <3>3
    <3> QED
      BY <2>2, <3>2, <3>3
  <2>5. PipeInv'
    <3>1. ASSUME NEW i \in DOMAIN pipe' PROVE Truthful(pipe[i])'
      BY <2>1, <2>3
    <3> QED
      BY <2>1, <2>4, <3>1 DEF PipeInv
  <2>6. ASSUME NEW m \in Jobs \ {b} PROVE Overhears(m)
    <3>1. ASSUME Unheard(m) PROVE Unheard(m)'
      BY <1>5, <2>1, <2>2, <3>1 DEF Unheard
    <3>2. ASSUME \A i \in DOMAIN pipe : pipe[i].job # m PROVE \A i \in DOMAIN q : q[i].job # m
      BY <1>3, <2>2, <3>2
    <3> QED
      BY <2>1, <3>1, <3>2 DEF Overhears
  <2>7. ASSUME s \in Ends PROVE Unheard(b)'
    BY <1>2, <2>1, <2>2, <2>7 DEF Unheard
  <2> QED
    BY <2>1, <1>1, <1>5, <2>2, <2>5, <2>6, <2>7
<1>6. CASE pipe' = pipe /\ lost' = IF e.state \in Ends THEN lost \cup {e.job} ELSE lost
  <2>1. PipeInv'
    <3>1. ASSUME NEW i \in DOMAIN pipe' PROVE Truthful(pipe[i])'
      BY <1>4, <1>6
    <3> QED
      BY <1>1, <1>6, <3>1 DEF PipeInv
  <2>2. ASSUME NEW m \in Jobs \ {b} PROVE Overhears(m)
    BY <1>6, <2>2 DEF Overhears, Unheard
  <2>3. ASSUME s \in Ends PROVE Unheard(b)'
    BY <1>3, <1>6, <2>3 DEF Unheard
  <2> QED
    BY <1>1, <1>3, <1>6, <2>1, <2>2, <2>3
<1> QED
  BY <1>2, <1>5, <1>6 DEF Broadcast

\* What is left of the pipe is a part of it without a gap: its first or its last event went, or it was cut.
LEMMA PartPipe ==
    ASSUME PageInv, NEW d \in Nat, NEW q \in Seq(PageEvents), pipe' = q,
           d + Len(q) <= Len(pipe), \A i \in DOMAIN q : q[i] = pipe[i + d],
           UNCHANGED <<stage, progress>>
    PROVE  /\ PipeInv'
           /\ \A m \in Jobs : (\A i \in DOMAIN pipe : pipe[i].job # m) => (\A i \in DOMAIN q : q[i].job # m)
<1>1. pipe \in Seq(PageEvents) /\ PipeInv
  BY DEF PageInv, PageTypes
<1>2. \A i \in DOMAIN q : i \in Nat /\ i + d \in DOMAIN pipe /\ q[i] = pipe[i + d]
  BY <1>1
<1>3. ASSUME NEW i \in DOMAIN q, NEW f, f = q[i] PROVE Truthful(f)'
  <2>1. Truthful(f)
    BY <1>1, <1>2, <1>3 DEF PipeInv
  <2> QED
    BY <2>1 DEF Truthful
<1>4. \A i, j \in DOMAIN q : i < j /\ q[i].state \in Ends => q[i].job # q[j].job
  <2> SUFFICES ASSUME NEW i \in DOMAIN q, NEW j \in DOMAIN q, i < j, q[i].state \in Ends
               PROVE  q[i].job # q[j].job
    OBVIOUS
  <2>1. i + d < j + d
    BY <1>2
  <2> QED
    BY <1>1, <1>2, <2>1 DEF PipeInv
<1>5. ASSUME NEW i \in DOMAIN pipe' PROVE Truthful(pipe[i])'
  BY <1>3
<1> QED
  BY <1>2, <1>4, <1>5 DEF PipeInv

\* A step that leaves alone what the backend did and the rows and the call of a job.
LEMMA RowKept ==
    ASSUME NEW m \in Jobs, RowInv(m), Overhears(m),
           stage'[m] = stage[m], progress'[m] = progress[m], call'[m] = call[m], bound'[m] = bound[m],
           local'[m] \in {local[m], "absent"}, shown'[m] \in {shown[m], "absent"}
    PROVE  RowInv(m)'
  BY DEF RowInv, Overhears, Ends

LEMMA BeginKeeps ==
    ASSUME PageInv, NEW n \in Jobs, StartHere(n) \/ StartElsewhere(n)
    PROVE  PageInv'
<1>1. /\ stage[n] = "unmade" /\ stage' = [stage EXCEPT ![n] = "working"]
      /\ UNCHANGED <<progress, shown, bound, pipe, lost>>
      /\ \/ call' = [call EXCEPT ![n] = "waiting"] /\ local' = [local EXCEPT ![n] = "running"]
         \/ UNCHANGED <<call, local>>
  BY DEF StartHere, StartElsewhere, Begin, stream
<1>2. PageTypes'
  BY <1>1 DEF PageInv, PageTypes, Rows
<1>3. \A m \in Jobs \ {n} : stage'[m] = stage[m] /\ call'[m] = call[m] /\ local'[m] = local[m]
  BY <1>1 DEF PageInv, PageTypes
<1>4. PipeInv' /\ \A m \in Jobs \ {n} : Overhears(m)
  BY <1>1, <1>3, SamePipe DEF Ends
<1>5. ASSUME NEW m \in Jobs \ {n} PROVE RowInv(m)'
  BY <1>1, <1>3, <1>4, RowKept DEF PageInv
<1>6. RowInv(n)'
  <2>1. RowInv(n) /\ progress[n] \in Nat /\ bound[n] = NoJob /\ call[n] = "none" /\ stage'[n] = "working"
    BY <1>1 DEF PageInv, PageTypes, RowInv
  <2>2. \/ call'[n] = "waiting" /\ local'[n] = "running"
        \/ call'[n] = call[n] /\ local'[n] = local[n]
    BY <1>1 DEF PageInv, PageTypes
  <2> QED
    BY <1>1, <2>1, <2>2 DEF RowInv, Ends
<1> QED
  BY <1>2, <1>4, <1>5, <1>6 DEF PageInv

LEMMA ReportKeeps ==
    ASSUME PageInv, NEW n \in Jobs, Report(n)
    PROVE  PageInv'
<1>1. /\ stage[n] = "working" /\ progress' = [progress EXCEPT ![n] = @ + 1]
      /\ Broadcast([job |-> n, state |-> "running"])
      /\ UNCHANGED <<stage, call, local, shown, bound>>
  BY DEF Report, page
<1>2. /\ progress' \in [Jobs -> Nat] /\ progress'[n] > 0
      /\ \A m \in Jobs \ {n} : progress'[m] = progress[m]
      /\ \A m \in Jobs : progress[m] > 0 => progress'[m] > 0
  BY <1>1 DEF PageInv, PageTypes
<1>3. /\ PipeInv' /\ (pipe \in Seq(PageEvents))' /\ (lost \subseteq Jobs)'
      /\ \A m \in Jobs \ {n} : Overhears(m)
  BY <1>1, <1>2, BroadcastPipe DEF Ends
<1>4. PageTypes'
  BY <1>1, <1>2, <1>3 DEF PageInv, PageTypes
<1>5. ASSUME NEW m \in Jobs \ {n} PROVE RowInv(m)'
  BY <1>1, <1>2, <1>3, RowKept DEF PageInv
<1>6. RowInv(n)'
  BY <1>1, <1>2 DEF PageInv, RowInv, Ends
<1> QED
  BY <1>3, <1>4, <1>5, <1>6 DEF PageInv

LEMMA EndKeeps ==
    ASSUME PageInv, NEW n \in Jobs, End(n)
    PROVE  PageInv'
<1>1. PICK s \in Ends : /\ stage' = [stage EXCEPT ![n] = s]
                        /\ Broadcast([job |-> n, state |-> s])
  BY DEF End
<1>2. stage[n] = "working" /\ UNCHANGED <<progress, call, local, shown, bound>>
  BY DEF End, page
<1>3. stage'[n] = s /\ \A m \in Jobs \ {n} : stage'[m] = stage[m]
  BY <1>1 DEF PageInv, PageTypes
<1>4. /\ PipeInv' /\ (pipe \in Seq(PageEvents))' /\ (lost \subseteq Jobs)'
      /\ \A m \in Jobs \ {n} : Overhears(m)
      /\ Unheard(n)'
  BY <1>1, <1>2, <1>3, BroadcastPipe DEF Ends
<1>5. PageTypes'
  BY <1>1, <1>2, <1>4 DEF PageInv, PageTypes
<1>6. ASSUME NEW m \in Jobs \ {n} PROVE RowInv(m)'
  BY <1>2, <1>3, <1>4, RowKept DEF PageInv
<1>7. RowInv(n)'
  BY <1>2, <1>3, <1>4 DEF PageInv, RowInv, Ends
<1> QED
  BY <1>4, <1>5, <1>6, <1>7 DEF PageInv

LEMMA RefuseKeeps ==
    ASSUME PageInv, NEW n \in Jobs, Refuse(n)
    PROVE  PageInv'
<1>1. /\ stage[n] = "working" /\ progress[n] = 0 /\ stage' = [stage EXCEPT ![n] = "refused"]
      /\ UNCHANGED <<progress, call, local, shown, bound, pipe, lost>>
  BY DEF Refuse, page, stream
<1>2. PageTypes'
  BY <1>1 DEF PageInv, PageTypes
<1>3. stage'[n] = "refused" /\ \A m \in Jobs \ {n} : stage'[m] = stage[m]
  BY <1>1 DEF PageInv, PageTypes
<1>4. PipeInv' /\ \A m \in Jobs \ {n} : Overhears(m)
  BY <1>1, <1>3, SamePipe DEF Ends
<1>5. ASSUME NEW m \in Jobs \ {n} PROVE RowInv(m)'
  BY <1>1, <1>3, <1>4, RowKept DEF PageInv
<1>6. RowInv(n)'
  BY <1>1, <1>3 DEF PageInv, RowInv, Ends
<1> QED
  BY <1>2, <1>4, <1>5, <1>6 DEF PageInv

\* Events that break off with the stream: a last one among them will never be applied.
LEMMA BreakKeeps ==
    ASSUME PageInv, Break
    PROVE  PageInv'
<1>1. pipe \in Seq(PageEvents) /\ lost \subseteq Jobs
  BY DEF PageInv, PageTypes
<1>2. PICK c \in 0..Len(pipe) :
         /\ pipe' = SubSeq(pipe, 1, c)
         /\ lost' = lost \cup {m \in Jobs : \E i \in c + 1..Len(pipe) :
                                              pipe[i].job = m /\ pipe[i].state \in Ends}
  BY DEF Break
<1>3. UNCHANGED <<stage, progress, call, local, shown, bound>>
  BY DEF Break, backend, page
<1>4. PICK q : q = SubSeq(pipe, 1, c)
  OBVIOUS
<1>5. q \in Seq(PageEvents) /\ Len(q) = c /\ \A i \in 1..c : q[i] = pipe[i]
  BY <1>1, <1>4
<1>6. /\ PipeInv'
      /\ \A m \in Jobs : (\A i \in DOMAIN pipe : pipe[i].job # m) => (\A i \in DOMAIN q : q[i].job # m)
  <2>1. PICK z \in Nat : z = 0
    OBVIOUS
  <2>2. z + Len(q) <= Len(pipe) /\ \A i \in DOMAIN q : q[i] = pipe[i + z]
    BY <1>1, <1>5, <2>1
  <2> QED
    BY <1>2, <1>3, <1>4, <1>5, <2>2, PartPipe
<1>7. ASSUME NEW m \in Jobs, Unheard(m), stage[m] \in Ends PROVE Unheard(m)'
  <2>1. CASE m \in lost
    BY <1>2, <2>1 DEF Unheard
  <2>2. CASE \E i \in DOMAIN pipe : pipe[i] = [job |-> m, state |-> stage[m]]
    <3>1. PICK i \in 1..Len(pipe) : pipe[i] = [job |-> m, state |-> stage[m]]
      BY <1>1, <2>2
    <3>2. CASE i <= c
      <4>1. i \in DOMAIN q /\ q[i] = pipe[i]
        BY <1>2, <1>5, <3>1, <3>2
      <4> QED
        BY <1>2, <1>3, <1>4, <3>1, <4>1 DEF Unheard
    <3>3. CASE i > c
      <4>1. i \in c + 1..Len(pipe) /\ pipe[i].job = m /\ pipe[i].state \in Ends
        BY <1>7, <3>1, <3>3
      <4> QED
        BY <1>2, <4>1 DEF Unheard
    <3> QED
      BY <3>2, <3>3
  <2> QED
    BY <1>7, <2>1, <2>2 DEF Unheard
<1>8. PageTypes'
  BY <1>2, <1>3, <1>4, <1>5 DEF PageInv, PageTypes
<1>9. ASSUME NEW m \in Jobs PROVE RowInv(m)'
  BY <1>2, <1>3, <1>4, <1>6, <1>7 DEF PageInv, RowInv
<1> QED
  BY <1>6, <1>8, <1>9 DEF PageInv

\* An event is applied: the row of its job shows it, and a waiting call may become bound to the job.
LEMMA ApplyKeeps ==
    ASSUME PageInv, Apply
    PROVE  PageInv'
<1>1. pipe \in Seq(PageEvents) /\ pipe # <<>>
  BY DEF PageInv, PageTypes, Apply
<1>2. PICK e \in PageEvents : e = pipe[1] /\ e = Head(pipe)
  BY <1>1
<1>3. /\ UNCHANGED <<stage, progress, call, lost>>
      /\ Resolve(e.job) /\ shown' = [shown EXCEPT ![e.job] = e.state]
      /\ pipe' = Tail(pipe)
  BY <1>1, <1>2 DEF Apply, backend
<1>4. PICK q : q = Tail(pipe)
  OBVIOUS
<1>5. /\ q \in Seq(PageEvents) /\ Len(pipe) = Len(q) + 1
      /\ \A i \in 1..Len(q) : q[i] = pipe[i + 1]
  BY <1>1, <1>4
<1>6. /\ PipeInv'
      /\ \A m \in Jobs : (\A i \in DOMAIN pipe : pipe[i].job # m) => (\A i \in DOMAIN q : q[i].job # m)
  <2>1. PICK z \in Nat : z = 1
    OBVIOUS
  <2>2. z + Len(q) <= Len(pipe) /\ \A i \in DOMAIN q : q[i] = pipe[i + z]
    BY <1>1, <1>5, <2>1
  <2> QED
    BY <1>3, <1>4, <1>5, <2>2, PartPipe
<1>7. e.job \in Jobs /\ e.state \in {"running"} \cup Ends /\ Truthful(e)
  BY <1>1, <1>2 DEF PageInv, PipeInv, PageEvents
<1>8. \/ UNCHANGED <<local, bound>>
      \/ \E w \in Jobs : local[w] = "running" /\ BindTo(w, e.job)
  BY <1>3 DEF Resolve, Waiting
<1>9. /\ bound' \in [Jobs -> Jobs \cup {NoJob}] /\ local' \in [Jobs -> Rows]
      /\ \A m \in Jobs : \/ bound'[m] = bound[m] /\ local'[m] = local[m]
                         \/ local[m] = "running" /\ local'[m] = "absent"
  BY <1>7, <1>8 DEF PageInv, PageTypes, BindTo, Rows
<1>10. shown' \in [Jobs -> Rows] /\ shown'[e.job] = e.state /\ \A m \in Jobs \ {e.job} : shown'[m] = shown[m]
  BY <1>3, <1>7 DEF PageInv, PageTypes, Rows
<1>11. PageTypes'
  BY <1>3, <1>4, <1>5, <1>9, <1>10 DEF PageInv, PageTypes
<1>12. ASSUME NEW m \in Jobs, Unheard(m), e.job # m \/ e.state # stage[m] PROVE Unheard(m)'
  <2>1. CASE m \in lost
    BY <1>3, <2>1 DEF Unheard
  <2>2. CASE \E i \in DOMAIN pipe : pipe[i] = [job |-> m, state |-> stage[m]]
    <3>1. PICK i \in 1..Len(pipe) : pipe[i] = [job |-> m, state |-> stage[m]]
      BY <1>1, <2>2
    <3>2. i # 1
      BY <1>2, <1>12, <3>1
    <3>3. i - 1 \in DOMAIN q /\ q[i - 1] = pipe[i]
      BY <1>5, <3>1, <3>2
    <3> QED
      BY <1>3, <1>4, <3>1, <3>3 DEF Unheard
  <2> QED
    BY <1>12, <2>1, <2>2 DEF Unheard
<1>13. ASSUME NEW m \in Jobs PROVE RowInv(m)'
  <2>1. RowInv(m) /\ stage'[m] = stage[m] /\ progress'[m] = progress[m] /\ call'[m] = call[m]
    BY <1>3 DEF PageInv
  <2>2. bound'[m] # NoJob => call[m] = "waiting"
    BY <1>9, <2>1 DEF RowInv
  <2>3. local'[m] = "running" => call[m] = "waiting" /\ bound'[m] = NoJob
    BY <1>9, <2>1 DEF RowInv
  <2>4. shown'[m] = "running" => progress[m] > 0
    BY <1>7, <1>10, <2>1 DEF RowInv, Truthful
  <2>5. ASSUME stage[m] \in Ends, ~Unheard(m)'
        PROVE  shown'[m] \in {"absent", stage[m]} /\ \A i \in DOMAIN q : q[i].job # m
    <3>1. CASE e.job = m /\ e.state = stage[m]
      <4>1. \A i \in DOMAIN q : i + 1 \in DOMAIN pipe /\ q[i] = pipe[i + 1] /\ 1 < i + 1 /\ 1 \in DOMAIN pipe
        BY <1>1, <1>5
      <4>2. \A i \in DOMAIN q : pipe[1].job # pipe[i + 1].job
        BY <1>2, <2>5, <3>1, <4>1 DEF PageInv, PipeInv
      <4> QED
        BY <1>2, <1>10, <3>1, <4>1, <4>2
    <3>2. CASE e.job # m \/ e.state # stage[m]
      <4>1. shown[m] \in {"absent", stage[m]} /\ \A i \in DOMAIN pipe : pipe[i].job # m
        BY <1>12, <2>1, <2>5, <3>2 DEF RowInv
      <4>2. e.job # m
        BY <1>1, <1>2, <4>1
      <4> QED
        BY <1>6, <1>10, <4>1, <4>2
    <3> QED
      BY <3>1, <3>2
  <2> QED
    BY <1>3, <1>4, <2>1, <2>2, <2>3, <2>4, <2>5 DEF RowInv
<1> QED
  BY <1>6, <1>11, <1>13 DEF PageInv

\* An answer comes back: it settles a row that is still running, which no job is that has ended for the page.
LEMMA FinishKeeps ==
    ASSUME PageInv, NEW n \in Jobs, NEW answer \in Ends, Finish(n, answer)
    PROVE  PageInv'
<1>1. /\ call[n] = "waiting" /\ call' = [call EXCEPT ![n] = "back"]
      /\ bound' = [bound EXCEPT ![n] = NoJob]
      /\ UNCHANGED <<stage, progress, pipe, lost>>
  BY DEF Finish, backend, stream
<1>2. /\ call' \in [Jobs -> {"none", "waiting", "back"}] /\ call'[n] = "back"
      /\ bound' \in [Jobs -> Jobs \cup {NoJob}] /\ bound'[n] = NoJob
      /\ \A m \in Jobs \ {n} : call'[m] = call[m] /\ bound'[m] = bound[m]
  BY <1>1 DEF PageInv, PageTypes
<1>3. /\ local' \in [Jobs -> Rows] /\ shown' \in [Jobs -> Rows]
      /\ local'[n] # "running" /\ \A m \in Jobs \ {n} : local'[m] = local[m]
      /\ \A m \in Jobs : shown'[m] = shown[m] \/ (shown[m] = "running" /\ shown'[m] = answer)
  <2>1. CASE bound[n] = NoJob
    <3>1. local' = [local EXCEPT ![n] = SettledRow(@, answer)] /\ shown' = shown
      BY <2>1 DEF Finish
    <3> QED
      BY <3>1 DEF PageInv, PageTypes, SettledRow, Rows, Ends
  <2>2. CASE bound[n] # NoJob
    <3>1. shown' = [shown EXCEPT ![bound[n]] = SettledRow(@, answer)] /\ local' = local
      BY <2>2 DEF Finish
    <3>2. bound[n] \in Jobs /\ local[n] # "running"
      BY <2>2 DEF PageInv, PageTypes, RowInv
    <3> QED
      BY <3>1, <3>2 DEF PageInv, PageTypes, SettledRow, Rows
  <2> QED
    BY <2>1, <2>2
<1>4. PageTypes'
  BY <1>1, <1>2, <1>3 DEF PageInv, PageTypes
<1>5. PipeInv' /\ \A m \in Jobs : Overhears(m)
  BY <1>1, SamePipe
<1>6. ASSUME NEW m \in Jobs PROVE RowInv(m)'
  <2>1. RowInv(m) /\ Overhears(m) /\ stage'[m] = stage[m] /\ progress'[m] = progress[m] /\ pipe' = pipe
    BY <1>1, <1>5 DEF PageInv
  <2>2. m = n => stage[m] # "unmade"
    BY <1>1, <2>1 DEF RowInv
  <2>3. /\ stage[m] = "unmade" => call'[m] = "none"
        /\ bound'[m] # NoJob => call'[m] = "waiting"
        /\ local'[m] = "running" => call'[m] = "waiting" /\ bound'[m] = NoJob
    BY <1>2, <1>3, <2>1, <2>2 DEF RowInv
  <2>4. shown'[m] = "running" => progress[m] > 0
    BY <1>3, <2>1 DEF RowInv, Ends
  <2>5. stage[m] \in Ends /\ ~Unheard(m) => shown'[m] \in {"absent", stage[m]}
    BY <1>3, <2>1 DEF RowInv, Ends
  <2> QED
    BY <2>1, <2>3, <2>4, <2>5 DEF RowInv, Overhears
<1> QED
  BY <1>4, <1>5, <1>6 DEF PageInv

\* Rows are taken off the list, the stream comes back, or nothing changes.
LEMMA ClearKeeps ==
    ASSUME PageInv, (\E n \in Jobs : Dismiss(n)) \/ ClearFinished \/ Connect \/ UNCHANGED pageVars
    PROVE  PageInv'
<1>1. UNCHANGED <<stage, progress, call, bound, pipe, lost>>
  BY DEF Dismiss, ClearFinished, Connect, pageVars, backend, stream, page
<1>2. /\ local' \in [Jobs -> Rows] /\ shown' \in [Jobs -> Rows]
      /\ \A m \in Jobs : local'[m] \in {local[m], "absent"} /\ shown'[m] \in {shown[m], "absent"}
  <2>1. CASE \E n \in Jobs : Dismiss(n)
    BY <2>1 DEF Dismiss, PageInv, PageTypes, Rows
  <2>2. CASE ClearFinished
    BY <2>2 DEF ClearFinished, Cleared, PageInv, PageTypes, Rows
  <2>3. CASE Connect \/ UNCHANGED pageVars
    BY <2>3 DEF Connect, pageVars, page, PageInv, PageTypes
  <2> QED
    BY <2>1, <2>2, <2>3
<1>3. PageTypes'
  BY <1>1, <1>2 DEF PageInv, PageTypes
<1>4. PipeInv' /\ \A m \in Jobs : Overhears(m)
  BY <1>1, SamePipe
<1>5. ASSUME NEW m \in Jobs PROVE RowInv(m)'
  BY <1>1, <1>2, <1>4, RowKept DEF PageInv
<1> QED
  BY <1>3, <1>4, <1>5 DEF PageInv

LEMMA PageInvStep == PageInv /\ [PageNext]_pageVars => PageInv'
<1> SUFFICES ASSUME PageInv, [PageNext]_pageVars PROVE PageInv'
  OBVIOUS
<1>1. ASSUME NEW n \in Jobs, AnswerCall(n) \/ Fail(n) PROVE PageInv'
  <2>1. \E answer \in Ends : Finish(n, answer)
    BY <1>1 DEF AnswerCall, Fail, Ends
  <2> QED
    BY <2>1, FinishKeeps
<1> QED
  BY <1>1, BeginKeeps, ReportKeeps, EndKeeps, RefuseKeeps, BreakKeeps, ApplyKeeps, ClearKeeps DEF PageNext

LEMMA PageInvAlways == PageSpec => []PageInv
  BY PageInvInit, PageInvStep, PTL DEF PageSpec

\* Whatever answers fall on its row, a job whose job-finished was applied is shown as it ended, for any
\* number of jobs of any commands, progress records, broken streams and failed requests.
THEOREM EndShown == PageSpec => []OutcomeShown
<1>1. PageInv => OutcomeShown
  <2> SUFFICES ASSUME PageInv, NEW n \in Jobs, Heard(n) PROVE shown[n] \in {"absent", stage[n]}
    BY DEF OutcomeShown
  <2>1. stage[n] \in Ends /\ ~Unheard(n)
    BY DEF Heard, Unheard
  <2> QED
    BY <2>1 DEF PageInv, RowInv
<1> QED
  BY <1>1, PageInvAlways, PTL

\* When all is over, only a job whose last event was lost with a stream is still shown as running.
THEOREM AllEnds == PageSpec => []NothingLeftRunning
<1>1. PageInv => NothingLeftRunning
  <2> SUFFICES ASSUME PageInv, pipe = <<>>, NEW n \in Jobs, stage[n] # "working", call[n] # "waiting"
               PROVE  local[n] # "running" /\ (shown[n] = "running" => n \in lost)
    BY DEF NothingLeftRunning
  <2>1. RowInv(n)
    BY DEF PageInv
  <2>2. ASSUME shown[n] = "running" PROVE n \in lost
    <3>1. stage[n] \in Ends
      BY <2>1, <2>2 DEF RowInv
    <3>2. Unheard(n)
      BY <2>1, <2>2, <3>1 DEF RowInv, Ends
    <3> QED
      BY <3>2 DEF Unheard
  <2> QED
    BY <2>1, <2>2 DEF RowInv
<1> QED
  BY <1>1, PageInvAlways, PTL
=============================================================================
