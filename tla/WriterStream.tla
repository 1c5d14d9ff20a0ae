---------------------------- MODULE WriterStream ----------------------------
(***************************************************************************)
(* The Kafka side of hecuba's Writer (src/hecuba_core/src/Writer.cpp):     *)
(* the stream members topic_name / producer / topic of several Writer      *)
(* objects, how enable_stream, send_event, the copy constructor,           *)
(* operator= and the destructor change them, and the librdkafka producer   *)
(* queue they publish into.  The Cassandra side of the same objects is the *)
(* module Writer; here the destructor's wait_writes_completion is taken to *)
(* return (the Writer module checks that it does).                         *)
(***************************************************************************)
EXTENDS Naturals, FiniteSets, Sequences

CONSTANTS
    Objs,            \* Writer objects (storage for one Writer each)
    Handles,         \* producer handles rd_kafka_new may return
    Nil,
    QueueCap,        \* librdkafka queue.buffering.max.messages
    MaxEvents,       \* bound on send_event calls
    KafkaNamesSet,   \* the config map passed to enable_stream has kafka_names
    StreamCopies,    \* the application copy-constructs a streaming Writer
    StreamAssigns,   \* the application assigns to or from a streaming Writer
    BrokerRecovers,  \* a stalled broker always comes back
    EventRows        \* key and value rows send_event(key, value) may be given

VARIABLES
    obj,        \* lifetime of each Writer object
    topicName,  \* topic_name != nullptr
    prod,       \* the producer (and its topic) the object points to
    hstate,     \* each handle: "unused", "live" or "destroyed"
    topicLive,  \* rd_kafka_topic_destroy not yet called on the handle's topic
    queue,      \* messages queued in the producer, not yet delivered
    brokerUp,
    nevents,
    faults,     \* operations on a released handle (history)
    lastEvent   \* the rows of the last send_event(key, value), Nil before one

vars == <<obj, topicName, prod, hstate, topicLive, queue, brokerUp, nevents,
          faults, lastEvent>>

ObjStates == {"unborn", "live", "flushing", "dead"}

Codec == INSTANCE RowCodec

Init ==
    /\ obj = [o \in Objs |-> "unborn"]
    /\ topicName = [o \in Objs |-> FALSE]
    /\ prod = [o \in Objs |-> Nil]
    /\ hstate = [h \in Handles |-> "unused"]
    /\ topicLive = [h \in Handles |-> FALSE]
    /\ queue = [h \in Handles |-> 0]
    /\ brokerUp = TRUE
    /\ nevents = 0
    /\ faults = {}
    /\ lastEvent = Nil

(* Using handle h: a fault if it has been destroyed already.              *)
Use(h, f) == faults' = faults \cup (IF hstate[h] = "destroyed" THEN {f} ELSE {})

-----------------------------------------------------------------------------
(* Writer::Writer: the stream members start null.                         *)
Construct(o) ==
    /\ obj[o] = "unborn"
    /\ obj' = [obj EXCEPT ![o] = "live"]
    /\ topicName' = [topicName EXCEPT ![o] = FALSE]
    /\ prod' = [prod EXCEPT ![o] = Nil]
    /\ UNCHANGED <<hstate, topicLive, queue, brokerUp, nevents, faults, lastEvent>>

(* The stream part of operator=: the target's own topic_name is freed but  *)
(* its producer and topic are overwritten, not destroyed; the source's     *)
(* name is duplicated (strlen on the source after the free, which is the   *)
(* same buffer on a self-assignment) and its handles are shared.           *)
AssignStream(o, s) ==
    /\ topicName' = [topicName EXCEPT ![o] = topicName[s]]
    /\ prod' = [prod EXCEPT ![o] = IF topicName[s] THEN prod[s] ELSE Nil]
    /\ faults' = faults \cup
                 (IF o = s /\ topicName[o] THEN {"name_use_after_free"} ELSE {})

(* Writer::Writer(const Writer&): *this = src on a fresh object.          *)
Copy(o, s) ==
    /\ obj[o] = "unborn" /\ obj[s] = "live"
    /\ topicName[s] => StreamCopies
    /\ obj' = [obj EXCEPT ![o] = "live"]
    /\ AssignStream(o, s)
    /\ UNCHANGED <<hstate, topicLive, queue, brokerUp, nevents, lastEvent>>

(* Writer::operator= between two live objects, possibly the same one.     *)
Assign(o, s) ==
    /\ obj[o] = "live" /\ obj[s] = "live"
    /\ (topicName[o] \/ topicName[s]) => StreamAssigns
    /\ AssignStream(o, s)
    /\ UNCHANGED <<obj, hstate, topicLive, queue, brokerUp, nevents, lastEvent>>

(* create_stream_conf: throws ModuleException when kafka_names is absent,  *)
(* before enable_stream has changed anything.                             *)
CreateStreamConf == KafkaNamesSet

(* Writer::enable_stream: AlreadyStreaming if topic_name is set; otherwise *)
(* a new producer and topic (rd_kafka_new failing exits the process).     *)
EnableStream(o) ==
    /\ obj[o] = "live"
    /\ ~topicName[o]
    /\ CreateStreamConf
    /\ \E h \in Handles :
          /\ hstate[h] = "unused"
          /\ hstate' = [hstate EXCEPT ![h] = "live"]
          /\ topicLive' = [topicLive EXCEPT ![h] = TRUE]
          /\ prod' = [prod EXCEPT ![o] = h]
    /\ topicName' = [topicName EXCEPT ![o] = TRUE]
    /\ UNCHANGED <<obj, queue, brokerUp, nevents, faults, lastEvent>>

SendEventNoCap(o) ==
    /\ obj[o] = "live"
    /\ topicName[o]
    /\ nevents < MaxEvents
    /\ nevents' = nevents + 1
    /\ Use(prod[o], "produce_after_destroy")
    /\ queue' = [queue EXCEPT ![prod[o]] = @ + 1]
    /\ UNCHANGED <<obj, topicName, prod, hstate, topicLive, brokerUp>>

(* Writer::send_event(char*, size): NotStreaming without topic_name;      *)
(* rd_kafka_producev copies the payload into the producer queue, or fails *)
(* with queue-full, which is thrown as a PublishError.                    *)
SendEvent(o) ==
    /\ obj[o] = "live"
    /\ topicName[o]
    /\ nevents < MaxEvents
    /\ nevents' = nevents + 1
    /\ Use(prod[o], "produce_after_destroy")
    /\ queue' = [queue EXCEPT ![prod[o]] = IF @ < QueueCap THEN @ + 1 ELSE @]
    /\ UNCHANGED <<obj, topicName, prod, hstate, topicLive, brokerUp>>

(* Writer::send_event(key, value): build the event payload from the two  *)
(* rows (RowCodec) and publish it through send_event(char*, size).        *)
SendRow(o) ==
    \E e \in EventRows :
       /\ SendEvent(o)
       /\ lastEvent' = e

(* Writer::~Writer up to the flush loop: wait_writes_completion, free the *)
(* name and destroy the topic; a Writer without a stream is then gone.    *)
Destroy(o) ==
    /\ obj[o] = "live"
    /\ obj' = [obj EXCEPT ![o] = IF topicName[o] THEN "flushing" ELSE "dead"]
    /\ topicName' = [topicName EXCEPT ![o] = FALSE]
    /\ IF topicName[o]
          THEN /\ topicLive' = [topicLive EXCEPT ![prod[o]] = FALSE]
               /\ faults' = faults \cup
                     (IF topicLive[prod[o]] THEN {} ELSE {"topic_double_destroy"})
          ELSE UNCHANGED <<topicLive, faults, lastEvent>>
    /\ UNCHANGED <<prod, hstate, queue, brokerUp, nevents, lastEvent>>

FlushNeedsTopic(o) ==
    /\ obj[o] = "flushing"
    /\ queue[prod[o]] = 0
    /\ topicLive[prod[o]]
    /\ obj' = [obj EXCEPT ![o] = "dead"]
    /\ hstate' = [hstate EXCEPT ![prod[o]] = "destroyed"]
    /\ Use(prod[o], "producer_double_destroy")
    /\ prod' = [prod EXCEPT ![o] = Nil]
    /\ UNCHANGED <<topicName, topicLive, queue, brokerUp, nevents, lastEvent>>

FlushDoneEarly(o) ==
    /\ obj[o] = "flushing"
    /\ obj' = [obj EXCEPT ![o] = "dead"]
    /\ hstate' = [hstate EXCEPT ![prod[o]] = "destroyed"]
    /\ Use(prod[o], "producer_double_destroy")
    /\ prod' = [prod EXCEPT ![o] = Nil]
    /\ UNCHANGED <<topicName, topicLive, queue, brokerUp, nevents, lastEvent>>

(* The destructor's loop: rd_kafka_flush(producer, 500) is retried while  *)
(* it times out, i.e. while messages are queued; then rd_kafka_destroy.   *)
(* A timed-out try changes nothing, so only the final try is a step.      *)
FlushDone(o) ==
    /\ obj[o] = "flushing"
    /\ queue[prod[o]] = 0
    /\ obj' = [obj EXCEPT ![o] = "dead"]
    /\ hstate' = [hstate EXCEPT ![prod[o]] = "destroyed"]
    /\ Use(prod[o], "producer_double_destroy")
    /\ prod' = [prod EXCEPT ![o] = Nil]
    /\ UNCHANGED <<topicName, topicLive, queue, brokerUp, nevents, lastEvent>>

-----------------------------------------------------------------------------
(* The broker (librdkafka and Kafka, spec.md 4.5): queued messages are    *)
(* delivered while the broker answers; it may stall and come back.        *)
Deliver(h) ==
    /\ brokerUp /\ queue[h] > 0 /\ hstate[h] = "live"
    /\ queue' = [queue EXCEPT ![h] = @ - 1]
    /\ UNCHANGED <<obj, topicName, prod, hstate, topicLive, brokerUp, nevents,
                   faults, lastEvent>>

BrokerStall ==
    /\ brokerUp
    /\ brokerUp' = FALSE
    /\ UNCHANGED <<obj, topicName, prod, hstate, topicLive, queue, nevents,
                   faults, lastEvent>>

BrokerRecover ==
    /\ ~brokerUp
    /\ brokerUp' = TRUE
    /\ UNCHANGED <<obj, topicName, prod, hstate, topicLive, queue, nevents,
                   faults, lastEvent>>

(* Every Writer object is gone: the program has ended.                    *)
Terminated ==
    /\ \A o \in Objs : obj[o] = "dead"
    /\ UNCHANGED vars

Next ==
    \/ \E o \in Objs :
          \/ Construct(o) \/ EnableStream(o)
          \/ SendEvent(o) /\ UNCHANGED lastEvent
          \/ SendRow(o)
          \/ Destroy(o) \/ FlushDone(o)
          \/ \E s \in Objs : Copy(o, s) \/ Assign(o, s)
    \/ \E h \in Handles : Deliver(h)
    \/ BrokerStall \/ BrokerRecover
    \/ Terminated

(* The destructor's thread keeps running; a broker that answers again and *)
(* again delivers what is queued (strong fairness, as it may keep         *)
(* stalling); and, when BrokerRecovers, a stall ends.                     *)
Fairness ==
    /\ \A o \in Objs : WF_vars(FlushDone(o))
    /\ \A h \in Handles : SF_vars(Deliver(h))
    /\ BrokerRecovers => WF_vars(BrokerRecover)

Spec == Init /\ [][Next]_vars /\ Fairness

-----------------------------------------------------------------------------
TypeOK ==
    /\ obj \in [Objs -> ObjStates]
    /\ topicName \in [Objs -> BOOLEAN]
    /\ prod \in [Objs -> Handles \cup {Nil}]
    /\ hstate \in [Handles -> {"unused", "live", "destroyed"}]
    /\ topicLive \in [Handles -> BOOLEAN]
    /\ queue \in [Handles -> 0..QueueCap]
    /\ brokerUp \in BOOLEAN
    /\ nevents \in 0..MaxEvents
    /\ faults \subseteq {"name_use_after_free", "produce_after_destroy",
                         "topic_double_destroy", "producer_double_destroy"}
    /\ lastEvent \in EventRows \cup {Nil}

(* No handle is used after it has been released: the copy constructor and *)
(* operator= share producer and topic between Writers, and each           *)
(* destructor destroys them.                                              *)
HandlesUsedSafely == faults = {}

(* Teardown terminates: a destructor that reached the rd_kafka_flush loop *)
(* eventually destroys the producer and returns.                          *)
TeardownCompletes ==
    \A o \in Objs : obj[o] = "flushing" ~> obj[o] = "dead"

(* The sink a producer handle implements: enable_stream opens it, the    *)
(* destructor's rd_kafka_topic_destroy closes it to publishes, and        *)
(* rd_kafka_destroy releases it.                                          *)
SinkOf(h) == CASE hstate[h] = "unused"    -> "unused"
               [] hstate[h] = "destroyed" -> "released"
               [] topicLive[h]            -> "open"
               [] OTHER                   -> "closing"

Sink == INSTANCE StreamSink WITH Sinks <- Handles, Cap <- QueueCap,
            sink <- [h \in Handles |-> SinkOf(h)], pending <- queue

(* The Writers' producers behave as the StreamSinks of spec.md 4.5: no    *)
(* publish after the destructor closed the topic, nothing delivered after *)
(* rd_kafka_destroy, a producer destroyed only once its queue is flushed, *)
(* and every closed producer eventually released.                         *)
RefinesStreamSink == Sink!Spec

(* The event send_event(key, value) last published is exactly the wire   *)
(* format of spec.md section 6 (key bitmap and columns, then value bitmap *)
(* and columns, with no gap or overlap), and encoding it did not write    *)
(* past the row_size bytes it malloc'd.                                   *)
EventPayloadIsWireFormat ==
    lastEvent # Nil =>
        LET p == Codec!EventPayload(lastEvent.ks, lastEvent.kn,
                                    lastEvent.vs, lastEvent.vn)
        IN /\ p.bytes = Codec!WireFormat(lastEvent.ks, lastEvent.kn,
                                         lastEvent.vs, lastEvent.vn)
           /\ ~p.overflow

====
