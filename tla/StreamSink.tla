----------------------------- MODULE StreamSink -----------------------------
(***************************************************************************)
(* What a Writer's Kafka stream promises (spec.md 4.5), one sink per      *)
(* producer: it is opened by configure, accepts copies of published       *)
(* payloads into a bounded queue, delivers them, and at teardown stops    *)
(* accepting publishes, flushes what is queued and only then is released. *)
(* WriterStream is checked to implement this specification.               *)
(***************************************************************************)
EXTENDS Naturals

CONSTANTS
    Sinks,   \* producer handles
    Cap      \* capacity of a sink's publish queue

VARIABLES
    sink,    \* "unused", "open", "closing" (no more publishes) or "released"
    pending  \* published, not yet delivered

svars == <<sink, pending>>

Init ==
    /\ sink = [s \in Sinks |-> "unused"]
    /\ pending = [s \in Sinks |-> 0]

Open(s) ==
    /\ sink[s] = "unused"
    /\ sink' = [sink EXCEPT ![s] = "open"]
    /\ UNCHANGED pending

(* A publish is accepted into a sink that is open and not full; a full    *)
(* queue rejects it (PublishError) and nothing changes.                   *)
Publish(s) ==
    /\ sink[s] = "open"
    /\ pending[s] < Cap
    /\ pending' = [pending EXCEPT ![s] = @ + 1]
    /\ UNCHANGED sink

Deliver(s) ==
    /\ sink[s] \in {"open", "closing"}
    /\ pending[s] > 0
    /\ pending' = [pending EXCEPT ![s] = @ - 1]
    /\ UNCHANGED sink

Close(s) ==
    /\ sink[s] = "open"
    /\ sink' = [sink EXCEPT ![s] = "closing"]
    /\ UNCHANGED pending

Release(s) ==
    /\ sink[s] = "closing"
    /\ pending[s] = 0
    /\ sink' = [sink EXCEPT ![s] = "released"]
    /\ UNCHANGED pending

Next == \E s \in Sinks :
           Open(s) \/ Publish(s) \/ Deliver(s) \/ Close(s) \/ Release(s)

(* Queued messages keep being delivered, and a flushed sink is released:  *)
(* teardown completes.                                                    *)
Spec == /\ Init /\ [][Next]_svars
        /\ \A s \in Sinks : SF_svars(Deliver(s)) /\ WF_svars(Release(s))

====
