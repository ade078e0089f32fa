----------------------------- MODULE TaskCentre -----------------------------
(* The task centre of the user interface (shared/ipc jobs.ts, client.ts) and *)
(* what feeds it: the events of the jobs, through the hub and the stream of  *)
(* the development bridge (events.rs, server.rs) or the desktop shell, and   *)
(* the answers of the page's own calls (rpc.rs, dispatch_blocking_with).     *)
(* Events keep their order on the one stream; an answer travels beside it    *)
(* and may overtake events or be overtaken.  A job is one of this page or of *)
(* another one, which the stream does not tell apart.  Of a job's events the *)
(* start is not forwarded; what a row says beside its state is left out.     *)
EXTENDS Naturals, Sequences

CONSTANTS
    Commands,    \* the job commands
    MaxJobs,     \* bound: jobs started, on this page and elsewhere
    MaxProgress, \* bound: progress records of a job
    QueueSize,   \* QUEUE_SIZE: events a stream may have queued
    MaxUpsets    \* bound: broken streams and requests that fail on the way, together

ASSUME TaskAssumption ==
    MaxJobs \in Nat /\ MaxProgress \in Nat /\ QueueSize \in Nat /\ MaxUpsets \in Nat

Jobs == 1 .. MaxJobs    \* in the order they start; a local id carries its job's number
NoJob == 0
Ends == {"done", "failed"}    \* a cancelled job is shown as failed
Rows == {"absent", "running"} \cup Ends
PageEvents == [job : Jobs, state : {"running"} \cup Ends]    \* job-progress, job-finished with its `ok`

VARIABLES
    command,     \* the command of each job
    stage,       \* each job on the backend
    progress,    \* progress records it sent
    call,        \* the page's call of it, if it is the page's
    local,       \* the row of the call, until an event binds it to a job
    shown,       \* the row of the job
    bound,       \* the job whose event bound the call
    pipe,        \* events queued or on the way to the page
    subscribed,  \* the hub has a queue for the page
    lost,        \* jobs whose last event did not get into the pipe, or not out of it
    upsets

page == <<local, shown, bound>>
backend == <<command, stage, progress>>
stream == <<pipe, subscribed, lost>>
pageVars == <<backend, call, page, stream, upsets>>

PageInit ==
    /\ command \in [Jobs -> Commands]
    /\ stage = [n \in Jobs |-> "unmade"] /\ progress = [n \in Jobs |-> 0]
    /\ call = [n \in Jobs |-> "none"]
    /\ local = [n \in Jobs |-> "absent"] /\ shown = [n \in Jobs |-> "absent"]
    /\ bound = [n \in Jobs |-> NoJob]
    /\ pipe = <<>> /\ subscribed = FALSE /\ lost = {} /\ upsets = 0
-----------------------------------------------------------------------------
(* The backend. *)

Begin(n) ==
    /\ stage[n] = "unmade" /\ \A m \in Jobs : m < n => stage[m] # "unmade"
    /\ stage' = [stage EXCEPT ![n] = "working"]
    /\ UNCHANGED <<command, progress, shown, bound, stream, upsets>>

\* call() of a command known to be a job: trackCall puts a row before the request goes out.
StartHere(n) ==
    /\ Begin(n)
    /\ call' = [call EXCEPT ![n] = "waiting"]
    /\ local' = [local EXCEPT ![n] = "running"]

\* A job of another page or shell, or one called before the list of commands arrived.
StartElsewhere(n) == Begin(n) /\ UNCHANGED <<call, local>>

\* EventHub::broadcast: a stream whose queue is full is dropped.  The pipe also holds events that
\* left the queue, so a pipe of this length may still have room.
Broadcast(e) ==
    \/ /\ subscribed
       /\ pipe' = Append(pipe, e)
       /\ UNCHANGED <<subscribed, lost>>
    \/ /\ subscribed => Len(pipe) >= QueueSize
       /\ subscribed' = FALSE
       /\ lost' = IF e.state \in Ends THEN lost \cup {e.job} ELSE lost
       /\ UNCHANGED pipe

Report(n) ==
    /\ stage[n] = "working" /\ progress[n] < MaxProgress
    /\ progress' = [progress EXCEPT ![n] = @ + 1]
    /\ Broadcast([job |-> n, state |-> "running"])
    /\ UNCHANGED <<command, stage, call, page, upsets>>

\* The last event is broadcast before the call is answered.
End(n) ==
    /\ stage[n] = "working"
    /\ \E s \in Ends :
         /\ stage' = [stage EXCEPT ![n] = s]
         /\ Broadcast([job |-> n, state |-> s])
    /\ UNCHANGED <<command, progress, call, page, upsets>>

\* An unknown command, an invalid request or a full registry: no job, no event.
Refuse(n) ==
    /\ stage[n] = "working" /\ progress[n] = 0
    /\ stage' = [stage EXCEPT ![n] = "refused"]
    /\ UNCHANGED <<command, progress, call, page, stream, upsets>>
-----------------------------------------------------------------------------
(* The stream. *)

\* EventSource connects, for the first time or again after all that still came was read.
Connect ==
    /\ ~subscribed /\ pipe = <<>>
    /\ subscribed' = TRUE
    /\ UNCHANGED <<backend, call, page, pipe, lost, upsets>>

\* The connection breaks: a part of what was on the way still arrives.
Break ==
    /\ subscribed /\ upsets < MaxUpsets /\ upsets' = upsets + 1
    /\ subscribed' = FALSE
    /\ \E k \in 0 .. Len(pipe) :
         /\ pipe' = SubSeq(pipe, 1, k)
         /\ lost' = lost \cup {n \in Jobs : \E i \in k + 1 .. Len(pipe) :
                                              pipe[i].job = n /\ pipe[i].state \in Ends}
    /\ UNCHANGED <<backend, call, page>>
-----------------------------------------------------------------------------
(* The page.  Its handlers run one after the other. *)

\* findLocal: the rows an event of this command can be bound to.
Waiting(c) == {m \in Jobs : local[m] = "running" /\ command[m] = c}

\* resolveId: the oldest such row becomes the row of the job.
\* Mutant of BindTo: the local row is not taken out of the table.
BindBeside(m, n) == bound' = [bound EXCEPT ![m] = n] /\ UNCHANGED local
BindTo(m, n) ==
    /\ bound' = [bound EXCEPT ![m] = n]
    /\ local' = [local EXCEPT ![m] = "absent"]

Resolve(n) ==
    IF shown[n] = "absent" /\ Waiting(command[n]) # {}
    THEN \E m \in Waiting(command[n]) :
           (\A k \in Waiting(command[n]) : m <= k) /\ BindTo(m, n)
    ELSE UNCHANGED <<local, bound>>

\* applyEvent
Apply ==
    /\ pipe # <<>> /\ pipe' = Tail(pipe)
    /\ Resolve(Head(pipe).job)
    /\ shown' = [shown EXCEPT ![Head(pipe).job] = Head(pipe).state]
    /\ UNCHANGED <<backend, call, subscribed, lost, upsets>>

\* finish(): only a row that is still running takes the outcome of the answer.
\* Mutant of SettledRow: the answer has the last word on its row.
SettledRowAnyway(row, outcome) == IF row = "absent" THEN row ELSE outcome
SettledRow(row, outcome) == IF row = "running" THEN outcome ELSE row

Finish(n, outcome) ==
    /\ call[n] = "waiting" /\ call' = [call EXCEPT ![n] = "back"]
    /\ IF bound[n] = NoJob
       THEN local' = [local EXCEPT ![n] = SettledRow(@, outcome)] /\ UNCHANGED shown
       ELSE shown' = [shown EXCEPT ![bound[n]] = SettledRow(@, outcome)] /\ UNCHANGED local
    /\ bound' = [bound EXCEPT ![n] = NoJob]
    /\ UNCHANGED <<backend, stream>>

AnswerCall(n) ==
    /\ stage[n] \in Ends \cup {"refused"}
    /\ Finish(n, IF stage[n] = "done" THEN "done" ELSE "failed")
    /\ UNCHANGED upsets

\* The request fails on its way; the job goes on.
Fail(n) ==
    /\ upsets < MaxUpsets /\ upsets' = upsets + 1
    /\ Finish(n, "failed")

\* dismissJob: the button is there unless the row is running.
Dismiss(n) ==
    /\ \/ local[n] \in Ends /\ local' = [local EXCEPT ![n] = "absent"] /\ UNCHANGED shown
       \/ shown[n] \in Ends /\ shown' = [shown EXCEPT ![n] = "absent"] /\ UNCHANGED local
    /\ UNCHANGED <<backend, call, bound, stream, upsets>>

Cleared(rows) == [n \in Jobs |-> IF rows[n] = "running" THEN "running" ELSE "absent"]

ClearFinished ==
    /\ local' = Cleared(local) /\ shown' = Cleared(shown)
    /\ UNCHANGED <<backend, call, bound, stream, upsets>>

PageNext ==
    \/ \E n \in Jobs :
         \/ StartHere(n) \/ StartElsewhere(n) \/ Report(n) \/ End(n) \/ Refuse(n)
         \/ AnswerCall(n) \/ Fail(n) \/ Dismiss(n)
    \/ Connect \/ Break \/ Apply \/ ClearFinished

PageSpec == PageInit /\ [][PageNext]_pageVars
-----------------------------------------------------------------------------
\* The page has applied the job-finished of job n.
Heard(n) ==
    /\ stage[n] \in Ends /\ n \notin lost
    /\ \A i \in DOMAIN pipe : pipe[i].job = n => pipe[i].state \notin Ends

\* Once its job-finished was applied, the row of a job shows the outcome of that job as long as it is
\* listed, although the answers of calls that were bound to the wrong job still come in (jobs.ts:63-74
\* and 118-124).
OutcomeShown == \A n \in Jobs : Heard(n) => shown[n] \in {"absent", stage[n]}

\* When all jobs ended, all calls were answered and all events applied, nothing is shown as running,
\* except a job whose last event was dropped with a stream (events.rs:39-46).
NothingLeftRunning ==
    (pipe = <<>> /\ \A n \in Jobs : stage[n] # "working" /\ call[n] # "waiting") =>
        \A n \in Jobs : local[n] # "running" /\ (shown[n] = "running" => n \in lost)
=============================================================================
