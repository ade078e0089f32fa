----------------------------- MODULE JobPromise -----------------------------
(***************************************************************************)
(* What the job runner promises, run by run: the registry's view of a run  *)
(* and the events its sink receives.  A run is registered, may be marked   *)
(* as cancelling, and ends once; its entry disappears only after it ended. *)
(* The events are one "started", progress records that never go back, and  *)
(* at most one terminal event, which is the last and agrees with what the  *)
(* registry recorded before it was sent.                                   *)
(***************************************************************************)
EXTENDS Naturals, Sequences

CONSTANTS Runs,
          Kinds,     \* the terminal states
          Numbers    \* the numbers of progress records

VARIABLES reg,   \* [Runs -> {"none", "running", "cancelling", "gone"} \cup Kinds]
          log    \* [Runs -> Seq([kind, val])]

Init ==
    /\ reg = [r \in Runs |-> "none"]
    /\ log = [r \in Runs |-> <<>>]

Live == {"running", "cancelling"}

\* One step of the registry: registration, a cancel request, an end, a prune;
\* a prune of ended runs happens in the same step as a registration or cancel.
RegStep(r) ==
    \/ reg[r] = "none" /\ reg'[r] = "running"
    \/ reg[r] = "running" /\ reg'[r] = "cancelling"
    \/ reg[r] \in Live /\ reg'[r] \in Kinds
    \/ reg[r] \in Kinds /\ reg'[r] = "gone"
    \/ reg'[r] = reg[r]

Registry ==
    /\ reg' \in [Runs -> {"none", "running", "cancelling", "gone"} \cup Kinds]
    /\ \A r \in Runs : RegStep(r)
    /\ UNCHANGED log

Ended(s) == s # <<>> /\ s[Len(s)].kind \in Kinds

\* The one event that may come next.
Send(r) ==
    /\ UNCHANGED reg
    /\ ~Ended(log[r])
    /\ \/ /\ log[r] = <<>> /\ reg[r] \in Live
          /\ log' = [log EXCEPT ![r] = <<[kind |-> "started", val |-> 0]>>]
       \/ /\ log[r] # <<>> /\ reg[r] \in Live
          /\ \E n \in Numbers :
               /\ n > log[r][Len(log[r])].val
               /\ log' = [log EXCEPT ![r] = Append(@, [kind |-> "progress", val |-> n])]
       \/ /\ log[r] # <<>>
          /\ \E k \in Kinds :
               /\ reg[r] \in {k, "gone"}
               /\ log' = [log EXCEPT ![r] = Append(@, [kind |-> k, val |-> 0])]

Next == Registry \/ \E r \in Runs : Send(r)

Spec == Init /\ [][Next]_<<reg, log>>
=============================================================================
