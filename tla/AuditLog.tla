------------------------------ MODULE AuditLog ------------------------------
(***************************************************************************)
(* What the audit store promises those who use it beside each other: one   *)
(* log, which is only ever added to.  append works "atomically": a record  *)
(* reaches the log's end and its trace's index in the same instant, and    *)
(* none does while a verification reads.  A verification answers for the   *)
(* whole log of one moment, whose hash it names: it reports a violation    *)
(* only if something was altered by then, and reports none only if nothing *)
(* was altered when it began.  A hash stands for the records hashed into   *)
(* it, in their order.                                                     *)
(***************************************************************************)
EXTENDS Naturals, Sequences

CONSTANTS RecordIds, Traces, TraceOf, Verifiers

VARIABLES
  log,          \* the ids of the records, in the order they were appended
  index,        \* of each trace, the ids of its records
  altered,      \* the records that are not what was appended
  verification  \* of each call of verify_chain: how far it is, what was altered when it
                \* began, and, when it is done, its verdict and the log its hash stands for

logVars == <<log, index, altered, verification>>

Call(step, since, violation, upTo) ==
  [step |-> step, since |-> since, violation |-> violation, upTo |-> upTo]
NotBegun == Call("start", {}, FALSE, <<>>)

Init ==
  /\ log = <<>>
  /\ index = [t \in Traces |-> <<>>]
  /\ altered = {}
  /\ verification = [v \in Verifiers |-> NotBegun]

Reading(v) == verification[v].step = "scan"

Add(id) ==
  /\ \A i \in 1..Len(log) : log[i] # id
  /\ \A v \in Verifiers : ~Reading(v)
  /\ log' = Append(log, id)
  /\ index' = [index EXCEPT ![TraceOf[id]] = Append(@, id)]
  /\ UNCHANGED <<altered, verification>>

\* What update_raw_for_testing stands for; nothing is ever put right again.
Alter(id) ==
  /\ id \notin altered
  /\ altered' = altered \cup {id}
  /\ UNCHANGED <<log, index, verification>>

Begin(v) ==
  /\ verification[v].step = "start"
  /\ verification' = [verification EXCEPT ![v] = Call("scan", altered, FALSE, <<>>)]
  /\ UNCHANGED <<log, index, altered>>

Answer(v, violation) ==
  /\ Reading(v)
  /\ IF violation THEN altered # {} ELSE verification[v].since = {}
  /\ verification' = [verification EXCEPT ![v] = Call("done", @.since, violation, log)]
  /\ UNCHANGED <<log, index, altered>>

Next ==
  \/ \E id \in RecordIds : Add(id) \/ Alter(id)
  \/ \E v \in Verifiers : Begin(v) \/ \E violation \in BOOLEAN : Answer(v, violation)

Spec == Init /\ [][Next]_logVars
=============================================================================
