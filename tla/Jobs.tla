-------------------------------- MODULE Jobs --------------------------------
(***************************************************************************)
(* The job runner (crates/rimstudio-app/src/jobs.rs).  A job is spawned    *)
(* under an id the caller chose, runs once on a pool of blocking threads,  *)
(* reports progress through a rate limiter and ends with a terminal event. *)
(* The registry keeps one entry per id; an ended entry is kept for the     *)
(* retention window, measured on the wall clock, and pruned by the next    *)
(* caller.                                                                 *)
(*                                                                         *)
(* A run is one call of spawn with everything it creates: the emitter, the *)
(* cancel token, the sink and the thread of the work.  The emitter finds   *)
(* its registry entry by ID, its token by reference: a later run under the *)
(* same id has another token and the same entry key.  Each critical        *)
(* section of the registry mutex, each send to the sink and each notify is *)
(* a step of its own.  A run's emitter mutex is held from the first to the *)
(* last step of one report or of the terminal event, so one program        *)
(* counter per run is enough.                                              *)
(*                                                                         *)
(* Abstracted: labels, phases, messages, elapsed times; a progress record  *)
(* is its number in the order the emitter accepted them.  Not modelled:    *)
(* spawn on a runner whose runtime was taken (only Drop takes it, and Drop *)
(* excludes every other call) and id syntax.  The callers of the runner    *)
(* hold a reference to it, so Drop starts when no call is in progress.     *)
(***************************************************************************)
EXTENDS Naturals, Sequences, FiniteSets

CONSTANTS Ids,         \* job ids
          Runs,        \* calls of spawn that may happen
          Waiters,     \* threads in wait_terminal or wait_idle
          Idle,        \* the target of a wait_idle
          Absent,      \* no registry entry
          PoolSize,    \* blocking threads of the executor
          MaxNow,      \* bound: the wall clock shows 0 .. MaxNow
          Retention,   \* RETENTION_MS
          Interval,    \* PROGRESS_INTERVAL_MS
          MaxReports   \* bound: progress reports of one run

ASSUME JobsAssumption ==
    /\ Idle \notin Ids
    /\ PoolSize \in Nat \ {0}
    /\ MaxNow \in Nat /\ Retention \in Nat /\ Interval \in Nat
    /\ MaxReports \in Nat

VARIABLES
    runner,    \* the JobRunner: "up", "dropping" (in Drop) or "down"
    now,       \* the wall clock, which may be set forwards and backwards
    jobs,      \* Shared::jobs
    ended,     \* [Runs -> BOOLEAN]: Emitter terminal_sent
    pc,        \* where the thread of a run is
    runId,     \* the id a run was spawned with
    token,     \* the CancelToken of a run (sticky)
    lastSent,  \* RateLimiter::last_ms
    pending,   \* RateLimiter::pending (0: none)
    reports,   \* number of records the work has reported
    current,   \* the record being sent
    outcome,   \* the terminal state the work's return maps to
    sinkOpen,  \* the receiver of a run's sink still exists
    log,       \* the events the sink accepted
    waiter     \* the waiting threads

regVars  == <<jobs>>
emitVars == <<ended, lastSent, pending, reports, current, outcome>>
sinkVars == <<sinkOpen, log>>
vars == <<runner, now, jobs, ended, pc, runId, token, lastSent, pending, reports,
          current, outcome, sinkOpen, log, waiter>>

-----------------------------------------------------------------------------
TerminalStates == {"finished", "failed", "cancelled"}
JobState == {"running", "cancelling"} \cup TerminalStates
Times == 0 .. MaxNow
NoTime == MaxNow + 1

\* JobEntry; cancel names the run whose token the entry holds.
JobEntry == [state : JobState, cancel : Runs, finishedAt : Times \cup {NoTime},
             progress : 0 .. MaxReports, terminal : TerminalStates \cup {"none"}]

ASSUME AbsentAssumption == Absent \notin JobEntry

Events == [kind : {"started", "progress"} \cup TerminalStates, val : 0 .. MaxReports]
Event(kind, val) == [kind |-> kind, val |-> val]

\* u64::saturating_sub
Minus(a, b) == IF a > b THEN a - b ELSE 0

Present(i) == jobs[i] # Absent
IsTerminal(e) == e.state \in TerminalStates

\* Mutant of Kept: only ended entries survive a prune.
KeptEndedOnly(e) == e # Absent /\ e.finishedAt # NoTime /\ Minus(now, e.finishedAt) < Retention

\* Shared::prune: the registry without the entries whose retention is over.
Kept(e) == e # Absent /\ (e.finishedAt = NoTime \/ Minus(now, e.finishedAt) < Retention)
Pruned == [i \in Ids |-> IF Kept(jobs[i]) THEN jobs[i] ELSE Absent]

\* Emitter::record_progress for run r: the entry under r's id, whoever owns it.
WithProgress(r, n) ==
    IF Present(runId[r]) THEN [jobs EXCEPT ![runId[r]].progress = n] ELSE jobs

NotStarted == {"new"}
OnThread == {"working", "sendReport", "markReport", "flush", "markFlush",
             "record", "sendTerminal", "markTerminal", "notify"}
Locs == NotStarted \cup OnThread \cup
        {"sendStarted", "markStarted", "schedule", "queued", "done", "dropped"}

\* The blocking threads in use.
Busy == {r \in Runs : pc[r] \in OnThread}

WaiterLocs == {"idle", "check", "asleep", "returned"}
Answers == TerminalStates \cup {"none", "all-idle", "unset"}

TypeOK ==
    /\ runner \in {"up", "dropping", "down"}
    /\ now \in Times
    /\ jobs \in [Ids -> JobEntry \cup {Absent}]
    /\ ended \in [Runs -> BOOLEAN]
    /\ pc \in [Runs -> Locs]
    /\ runId \in [Runs -> Ids \cup {Idle}]
    /\ \A r \in Runs : pc[r] # "new" => runId[r] \in Ids
    /\ token \in [Runs -> BOOLEAN]
    /\ lastSent \in [Runs -> Times \cup {NoTime}]
    /\ pending \in [Runs -> 0 .. MaxReports]
    /\ reports \in [Runs -> 0 .. MaxReports]
    /\ current \in [Runs -> 0 .. MaxReports]
    /\ outcome \in [Runs -> TerminalStates \cup {"none"}]
    /\ sinkOpen \in [Runs -> BOOLEAN]
    /\ log \in [Runs -> Seq(Events)]
    /\ waiter \in [Waiters -> [at : WaiterLocs, target : Ids \cup {Idle}, answer : Answers]]

Init ==
    /\ runner = "up"
    /\ now = 0
    /\ jobs = [i \in Ids |-> Absent]
    /\ ended = [r \in Runs |-> FALSE]
    /\ pc = [r \in Runs |-> "new"]
    /\ runId = [r \in Runs |-> Idle]
    /\ token = [r \in Runs |-> FALSE]
    /\ lastSent = [r \in Runs |-> NoTime]
    /\ pending = [r \in Runs |-> 0]
    /\ reports = [r \in Runs |-> 0]
    /\ current = [r \in Runs |-> 0]
    /\ outcome = [r \in Runs |-> "none"]
    /\ sinkOpen = [r \in Runs |-> TRUE]
    /\ log = [r \in Runs |-> <<>>]
    /\ waiter = [w \in Waiters |-> [at |-> "idle", target |-> Idle, answer |-> "unset"]]

-----------------------------------------------------------------------------
(* The emitter's delivery, shared by the started, progress and terminal    *)
(* events.                                                                 *)

\* The send of Emitter::deliver: a dead receiver cancels the run's own token.
Deliver(r, event, sent, refused) ==
    \/ /\ sinkOpen[r]
       /\ log' = [log EXCEPT ![r] = Append(@, event)]
       /\ pc' = [pc EXCEPT ![r] = sent]
       /\ UNCHANGED token
    \/ /\ ~sinkOpen[r]
       /\ token' = [token EXCEPT ![r] = TRUE]
       /\ pc' = [pc EXCEPT ![r] = refused]
       /\ UNCHANGED log

\* Mutant of MarkedCancelling: the state of the entry is not looked at.
MarkedWhateverState(i) ==
    IF Present(i) THEN [jobs EXCEPT ![i].state = "cancelling"] ELSE jobs

\* The registry half of a refused delivery: the entry is looked up by id.
MarkedCancelling(i) ==
    IF Present(i) /\ jobs[i].state = "running"
    THEN [jobs EXCEPT ![i].state = "cancelling"] ELSE jobs

MarkRefused(r, from, to) ==
    /\ pc[r] = from
    /\ jobs' = MarkedCancelling(runId[r])
    /\ pc' = [pc EXCEPT ![r] = to]
    /\ UNCHANGED <<runner, now, emitVars, runId, token, sinkVars, waiter>>

-----------------------------------------------------------------------------
(* JobRunner::spawn                                                        *)

Spawn(r, i) ==
    /\ runner = "up"
    /\ pc[r] = "new"
    /\ jobs' = [Pruned EXCEPT ![i] =
                  IF @ = Absent
                  THEN [state |-> "running", cancel |-> r, finishedAt |-> NoTime,
                        progress |-> 0, terminal |-> "none"]
                  ELSE @]
    /\ IF Pruned[i] = Absent
       THEN /\ pc' = [pc EXCEPT ![r] = "sendStarted"]
            /\ runId' = [runId EXCEPT ![r] = i]
       ELSE UNCHANGED <<pc, runId>>   \* job.duplicate-id
    /\ UNCHANGED <<runner, now, emitVars, token, sinkVars, waiter>>

SendStarted(r) ==
    /\ pc[r] = "sendStarted"
    /\ Deliver(r, Event("started", 0), "schedule", "markStarted")
    /\ UNCHANGED <<runner, now, regVars, emitVars, runId, sinkOpen, waiter>>

MarkStarted(r) == MarkRefused(r, "markStarted", "schedule")

\* spawn_blocking: a job waits for a thread of the pool, cancelled or not.
Schedule(r) ==
    /\ pc[r] = "schedule"
    /\ pc' = [pc EXCEPT ![r] = "queued"]
    /\ UNCHANGED <<runner, now, regVars, emitVars, runId, token, sinkVars, waiter>>

\* Mutant of StartWork: a job cancelled in the queue is never started.
StartUncancelled(r) ==
    /\ pc[r] = "queued" /\ ~token[r]
    /\ Cardinality(Busy) < PoolSize
    /\ pc' = [pc EXCEPT ![r] = "working"]
    /\ UNCHANGED <<runner, now, regVars, emitVars, runId, token, sinkVars, waiter>>

StartWork(r) ==
    /\ pc[r] = "queued"
    /\ Cardinality(Busy) < PoolSize
    /\ pc' = [pc EXCEPT ![r] = "working"]
    /\ UNCHANGED <<runner, now, regVars, emitVars, runId, token, sinkVars, waiter>>

-----------------------------------------------------------------------------
(* Emitter::report and the rate limiter                                    *)

TooSoon(r) == lastSent[r] # NoTime /\ Minus(now, lastSent[r]) < Interval

\* The next report of the work; n is its number.
Reported(r, n) ==
    /\ pc[r] = "working"
    /\ ~ended[r]
    /\ reports[r] < MaxReports
    /\ n = reports[r] + 1
    /\ reports' = [reports EXCEPT ![r] = n]

\* RateLimiter::offer inside the window: the record replaces the pending one.
HoldReport(r, n) ==
    /\ Reported(r, n)
    /\ TooSoon(r)
    /\ pending' = [pending EXCEPT ![r] = n]
    /\ UNCHANGED <<runner, now, regVars, pc, ended, lastSent, current, outcome, runId, token,
                   sinkVars, waiter>>

\* RateLimiter::offer outside the window: the pending record is superseded.
OfferReport(r, n) ==
    /\ Reported(r, n)
    /\ ~TooSoon(r)
    /\ lastSent' = [lastSent EXCEPT ![r] = now]
    /\ pending' = [pending EXCEPT ![r] = 0]
    /\ current' = [current EXCEPT ![r] = n]
    /\ jobs' = WithProgress(r, n)
    /\ pc' = [pc EXCEPT ![r] = "sendReport"]
    /\ UNCHANGED <<runner, now, ended, outcome, runId, token, sinkVars, waiter>>

SendReport(r) ==
    /\ pc[r] = "sendReport"
    /\ Deliver(r, Event("progress", current[r]), "working", "markReport")
    /\ UNCHANGED <<runner, now, regVars, emitVars, runId, sinkOpen, waiter>>

MarkReport(r) == MarkRefused(r, "markReport", "working")

-----------------------------------------------------------------------------
(* run_job and Emitter::terminal                                           *)

\* Mutant of Return: an arm of run_job forgets its state.
ReturnWithoutOutcome(r, o) ==
    /\ pc[r] = "working"
    /\ ended' = [ended EXCEPT ![r] = TRUE]
    /\ pc' = [pc EXCEPT ![r] = "record"]
    /\ UNCHANGED <<runner, now, jobs, current, pending, outcome, lastSent, reports, runId,
                   token, sinkVars, waiter>>

\* Mutant of Return: the held back record is not flushed.
ReturnWithoutFlush(r, o) ==
    /\ pc[r] = "working"
    /\ o = "cancelled" => token[r]
    /\ ended' = [ended EXCEPT ![r] = TRUE]
    /\ outcome' = [outcome EXCEPT ![r] = o]
    /\ pc' = [pc EXCEPT ![r] = "record"]
    /\ UNCHANGED <<runner, now, jobs, current, pending, lastSent, reports, runId,
                   token, sinkVars, waiter>>

\* What the work's return is turned into: a cancelled output or error ends
\* "cancelled" (work stops that way only after it saw its token), a result
\* "finished", an error or a panic "failed".
Return(r, o) ==
    /\ pc[r] = "working"
    /\ ~ended[r]
    /\ o = "cancelled" => token[r]
    /\ ended' = [ended EXCEPT ![r] = TRUE]
    /\ outcome' = [outcome EXCEPT ![r] = o]
    /\ pending' = [pending EXCEPT ![r] = 0]
    /\ IF pending[r] = 0
       THEN /\ pc' = [pc EXCEPT ![r] = "record"]
            /\ UNCHANGED <<jobs, current>>
       ELSE /\ pc' = [pc EXCEPT ![r] = "flush"]
            /\ current' = [current EXCEPT ![r] = pending[r]]
            /\ jobs' = WithProgress(r, pending[r])
    /\ UNCHANGED <<runner, now, lastSent, reports, runId, token, sinkVars, waiter>>

Flush(r) ==
    /\ pc[r] = "flush"
    /\ Deliver(r, Event("progress", current[r]), "record", "markFlush")
    /\ UNCHANGED <<runner, now, regVars, emitVars, runId, sinkOpen, waiter>>

MarkFlush(r) == MarkRefused(r, "markFlush", "record")

\* Mutant of RecordTerminal: the event leaves before the registry knows.
RecordNothing(r) ==
    /\ pc[r] = "record"
    /\ pc' = [pc EXCEPT ![r] = "sendTerminal"]
    /\ UNCHANGED <<runner, now, regVars, emitVars, runId, token, sinkVars, waiter>>

\* The end is written into the registry before the event leaves.
RecordTerminal(r) ==
    LET i == runId[r] IN
    /\ pc[r] = "record"
    /\ jobs' = IF Present(i)
               THEN [jobs EXCEPT ![i].state = outcome[r], ![i].finishedAt = now,
                                 ![i].terminal = outcome[r]]
               ELSE jobs
    /\ pc' = [pc EXCEPT ![r] = "sendTerminal"]
    /\ UNCHANGED <<runner, now, emitVars, runId, token, sinkVars, waiter>>

SendTerminal(r) ==
    /\ pc[r] = "sendTerminal"
    /\ Deliver(r, Event(outcome[r], 0), "notify", "markTerminal")
    /\ UNCHANGED <<runner, now, regVars, emitVars, runId, sinkOpen, waiter>>

\* Mutant of MarkTerminal: a refused delivery returns before the notify.
MarkTerminalReturns(r) == MarkRefused(r, "markTerminal", "done")

MarkTerminal(r) == MarkRefused(r, "markTerminal", "notify")

\* Condvar::notify_all, without the registry lock.
Notify(r) ==
    /\ pc[r] = "notify"
    /\ waiter' = [w \in Waiters |->
                    IF waiter[w].at = "asleep" THEN [waiter[w] EXCEPT !.at = "check"]
                    ELSE waiter[w]]
    /\ pc' = [pc EXCEPT ![r] = "done"]
    /\ UNCHANGED <<runner, now, regVars, emitVars, runId, token, sinkVars>>

-----------------------------------------------------------------------------
(* The callers of the registry                                             *)

Cancel(i) ==
    LET stop == Pruned[i] # Absent /\ ~IsTerminal(Pruned[i]) IN
    /\ runner = "up"
    /\ jobs' = IF stop THEN [Pruned EXCEPT ![i].state = "cancelling"] ELSE Pruned
    /\ token' = IF stop THEN [token EXCEPT ![Pruned[i].cancel] = TRUE] ELSE token
    /\ UNCHANGED <<runner, now, emitVars, pc, runId, sinkVars, waiter>>

Stopping(e) == e # Absent /\ ~IsTerminal(e)
CancelledAll ==
    /\ jobs' = [i \in Ids |-> IF Stopping(jobs[i])
                              THEN [jobs[i] EXCEPT !.state = "cancelling"] ELSE jobs[i]]
    /\ token' = [r \in Runs |-> token[r] \/ \E i \in Ids :
                                    Stopping(jobs[i]) /\ jobs[i].cancel = r]

CancelAll ==
    /\ runner = "up"
    /\ CancelledAll
    /\ UNCHANGED <<runner, now, emitVars, pc, runId, sinkVars, waiter>>

\* JobRunner::status prunes as well.
Status ==
    /\ runner = "up"
    /\ jobs' = Pruned
    /\ UNCHANGED <<runner, now, emitVars, pc, runId, token, sinkVars, waiter>>

\* The caller of wait_terminal or wait_idle takes the lock for the first time.
BeginWait(w, t) ==
    /\ runner = "up"
    /\ waiter[w].at = "idle"
    /\ waiter' = [waiter EXCEPT ![w].at = "check", ![w].target = t]
    /\ UNCHANGED <<runner, now, regVars, emitVars, pc, runId, token, sinkVars>>

AllTerminal == \A i \in Ids : Present(i) => IsTerminal(jobs[i])

\* Mutant of Answer: an unknown id is waited for.
AnswerPatient(t) ==
    IF t = Idle THEN IF AllTerminal THEN "all-idle" ELSE "unset"
    ELSE IF Present(t) /\ jobs[t].terminal # "none" THEN jobs[t].terminal ELSE "unset"

\* What the loop answers under the lock; "unset" means it waits on.
Answer(t) ==
    IF t = Idle THEN IF AllTerminal THEN "all-idle" ELSE "unset"
    ELSE IF ~Present(t) THEN "none"
    ELSE IF jobs[t].terminal # "none" THEN jobs[t].terminal ELSE "unset"

\* One turn of the loop: answer, or release the lock and sleep in one step.
CheckOrSleep(w) ==
    LET a == Answer(waiter[w].target) IN
    /\ waiter[w].at = "check"
    /\ waiter' = [waiter EXCEPT ![w].at = IF a = "unset" THEN "asleep" ELSE "returned",
                                ![w].answer = a]
    /\ UNCHANGED <<runner, now, regVars, emitVars, pc, runId, token, sinkVars>>

\* The deadline passes or the wait ends spuriously; a timed-out waiter looks
\* once more and gives up when there is still no answer.
TimeOut(w) ==
    LET a == Answer(waiter[w].target) IN
    /\ waiter[w].at = "asleep"
    /\ waiter' = [waiter EXCEPT ![w].at = "returned",
                                ![w].answer = IF a = "unset" THEN "none" ELSE a]
    /\ UNCHANGED <<runner, now, regVars, emitVars, pc, runId, token, sinkVars>>

\* No call on the runner is in progress: every spawn has returned and no
\* thread is in wait_terminal or wait_idle.
NoCalls ==
    /\ \A w \in Waiters : waiter[w].at \in {"idle", "returned"}
    /\ \A r \in Runs : pc[r] \notin {"sendStarted", "markStarted", "schedule"}

\* Drop: cancel_all, then wait_idle with a deadline of its own.
BeginDrop ==
    /\ runner = "up"
    /\ NoCalls
    /\ runner' = "dropping"
    /\ CancelledAll
    /\ UNCHANGED <<now, emitVars, pc, runId, sinkVars, waiter>>

\* The wait ended, idle or not: shutdown_background discards the closures no
\* thread has taken and leaves the running ones alone.
FinishDrop ==
    /\ runner = "dropping"
    /\ runner' = "down"
    /\ pc' = [r \in Runs |-> IF pc[r] = "queued" THEN "dropped" ELSE pc[r]]
    /\ UNCHANGED <<now, regVars, emitVars, runId, token, sinkVars, waiter>>

-----------------------------------------------------------------------------
(* The environment                                                         *)

\* The wall clock runs on, or is set.
SetClock ==
    /\ now' \in Times \ {now}
    /\ UNCHANGED <<runner, regVars, emitVars, pc, runId, token, sinkVars, waiter>>

\* The receiver of a run's events goes away.
DropSink(r) ==
    /\ sinkOpen[r]
    /\ pc[r] \notin {"new", "done", "dropped"}
    /\ sinkOpen' = [sinkOpen EXCEPT ![r] = FALSE]
    /\ UNCHANGED <<runner, now, regVars, emitVars, pc, runId, token, log, waiter>>

-----------------------------------------------------------------------------
\* The steps of the run's own threads.
RunStep(r) ==
    \/ SendStarted(r) \/ MarkStarted(r) \/ Schedule(r) \/ StartWork(r)
    \/ \E n \in 1 .. MaxReports : HoldReport(r, n) \/ OfferReport(r, n)
    \/ SendReport(r) \/ MarkReport(r)
    \/ \E o \in TerminalStates : Return(r, o)
    \/ Flush(r) \/ MarkFlush(r) \/ RecordTerminal(r)
    \/ SendTerminal(r) \/ MarkTerminal(r) \/ Notify(r)

Next ==
    \/ \E r \in Runs : RunStep(r) \/ DropSink(r) \/ \E i \in Ids : Spawn(r, i)
    \/ \E i \in Ids : Cancel(i)
    \/ CancelAll
    \/ Status
    \/ \E w \in Waiters, t \in Ids \cup {Idle} : BeginWait(w, t)
    \/ \E w \in Waiters : CheckOrSleep(w) \/ TimeOut(w)
    \/ SetClock
    \/ BeginDrop \/ FinishDrop

Spec == Init /\ [][Next]_vars

\* Threads are scheduled by the operating system, the work of a job returns
\* (every job polls its token and is finite), and a woken waiter gets the
\* lock.  Nothing is assumed of clients, timeouts or the clock.
Fairness ==
    /\ \A r \in Runs : WF_vars(RunStep(r))
    /\ \A w \in Waiters : WF_vars(CheckOrSleep(w))
FairSpec == Spec /\ Fairness

-----------------------------------------------------------------------------
(* Properties                                                              *)

IsEnd(e) == e.kind \in TerminalStates
Delivered(r) == log[r] # <<>> /\ IsEnd(log[r][Len(log[r])])

\* The newest record the limiter held back reaches the sink before the
\* terminal event does.
NewestProgressFlushed == \A r \in Runs :
    Delivered(r) => \/ reports[r] = 0
                    \/ log[r][Len(log[r]) - 1].val = reports[r]

\* From the work's return on the outcome is known; RecordTerminal relies on it.
Ending == {"flush", "markFlush", "record", "sendTerminal", "markTerminal", "notify", "done"}
OutcomeKnown == \A r \in Runs : pc[r] \in Ending => outcome[r] \in TerminalStates

\* A run that has not recorded its end owns the entry of its id: pruning and
\* a second spawn under the same id never take it away, so a cancel by id
\* reaches the token of the run that is working.
Unrecorded == {"sendStarted", "markStarted", "schedule", "queued", "working", "sendReport",
               "markReport", "flush", "markFlush", "record", "dropped"}
LiveRunOwnsEntry == \A r \in Runs :
    pc[r] \in Unrecorded => /\ Present(runId[r])
                            /\ jobs[runId[r]].cancel = r
                            /\ ~IsTerminal(jobs[runId[r]])
                            /\ jobs[runId[r]].finishedAt = NoTime

\* An ended entry is final: no cancel, cancel_all or failed delivery touches
\* it, it can only leave the registry or be replaced by a later run.
EndedEntryIsFinal ==
    [][\A i \in Ids : Present(i) /\ IsTerminal(jobs[i]) =>
          \/ jobs'[i] = jobs[i]
          \/ jobs'[i] = Absent
          \/ jobs'[i] # Absent /\ jobs'[i].cancel # jobs[i].cancel]_vars

\* wait_terminal and wait_idle never sleep through their answer: whoever
\* sleeps while the answer is there (or the entry is gone) still has a
\* notification to come.
NoLostWakeup == \A w \in Waiters :
    waiter[w].at = "asleep" /\ Answer(waiter[w].target) # "unset" =>
        \E r \in Runs : pc[r] \in {"sendTerminal", "markTerminal", "notify"}

\* Every job that was registered ends, unless the runner itself is dropped
\* while it is still queued; whatever clients, clocks and cancels do.
EveryRunEnds == \A r \in Runs : pc[r] # "new" ~> pc[r] \in {"done", "dropped"}

\* A waiter gets its answer without the help of its timeout, as long as the
\* runner is not dropped.
EveryWaiterReturns == \A w \in Waiters :
    waiter[w].at = "asleep" ~> waiter[w].at = "returned" \/ runner # "up"

\* The registry's view of run r, and the promise kept under it.
Reg(r) ==
    IF pc[r] = "new" THEN "none"
    ELSE IF Present(runId[r]) /\ jobs[runId[r]].cancel = r THEN jobs[runId[r]].state
    ELSE "gone"

Promise == INSTANCE JobPromise WITH Kinds <- TerminalStates, Numbers <- 1 .. MaxReports,
                                    reg <- [r \in Runs |-> Reg(r)]
KeepsPromise == Promise!Spec
=============================================================================
