------------------------------ MODULE EventHub ------------------------------
(***************************************************************************)
(* The hub of events/hub.py: publishers in worker threads, the fan-out on  *)
(* the event loop, a ring buffer for Last-Event-ID, and one generator      *)
(* stream() with a bounded queue per connected consumer.                   *)
(*                                                                         *)
(* An event is its sequence number; `base` counts what came before the     *)
(* current epoch, so base + seq names an event over restarts.  Everything  *)
(* on the event loop between two awaits is one step.  Signing, the payload,*)
(* heartbeat frames and metrics are left out.  One process: replicas have  *)
(* hubs of their own.                                                      *)
(*                                                                         *)
(* An operator that is defined and not used (AppendedUnbounded, ...) is a  *)
(* faulty variant of the definition after it; PROJECT.json says which      *)
(* property it breaks.                                                     *)
(*                                                                         *)
(* External: the connection carries frames in order and may break, which   *)
(* loses what was not read; the consumer keeps the id of the last event it *)
(* read and sends it when it reconnects.                                   *)
(***************************************************************************)
EXTENDS Integers, Sequences, FiniteSets

CONSTANTS
    Consumers,
    BufferSize,     \* EVENT_STREAM_BUFFER_SIZE
    MaxQueue,       \* EVENT_STREAM_MAX_QUEUE
    WireSize,       \* frames the connection holds
    EventMax,       \* bound on the events published
    RestartMax,     \* bound on the restarts of the issuer
    DropMax         \* bound on the connections that break, per consumer

ASSUME SizesAssumption ==
    BufferSize \in Nat \ {0} /\ MaxQueue \in Nat \ {0} /\ WireSize \in Nat \ {0}
ASSUME BoundsAssumption ==
    EventMax \in Nat /\ RestartMax \in Nat /\ DropMax \in Nat

VARIABLES
    epoch,      \* which start of the process
    seq,        \* events fanned out in this epoch
    buffer,     \* the ring buffer
    scheduled,  \* fan-outs handed to the loop (call_soon_threadsafe)
    closing,    \* close() has run
    sub,        \* the server's end of each consumer's connection
    client,     \* the consumer's end
    published,  \* events published so far
    base,       \* history: events and restarts before this epoch
    restarts,   \* history: which positions were restarts
    known,      \* history: up to where the consumer is informed
    gaps        \* history: how many gap frames the consumer read

hub == <<epoch, seq, buffer, scheduled, closing>>
counts == <<published, base, restarts>>
informed == <<known, gaps>>
vars == <<hub, sub, client, counts, informed>>

Frame == [kind : {"event", "gap", "close"}, seq : Nat]
EventFrame(n) == [kind |-> "event", seq |-> n]
GapFrame == [kind |-> "gap", seq |-> seq]       \* seq is for the history only
CloseFrame == [kind |-> "close", seq |-> 0]

Subscriber ==
    [pc : {"gone", "top", "get"},   \* at the head of the loop; in queue.get()
     first : Seq(Frame),            \* the gap frame or the replay still to send
     queue : Seq(Frame),
     overflow : BOOLEAN]
Gone == [pc |-> "gone", first |-> <<>>, queue |-> <<>>, overflow |-> FALSE]

(* `last` is <<epoch, seq>>; seq 0 when no event was read yet *)
Client == [up : BOOLEAN, last : Nat \X Nat, wire : Seq(Frame), drops : Nat]
Offline == [up |-> FALSE, last |-> <<0, 0>>, wire |-> <<>>, drops |-> 0]

Subscribed(c) == sub[c].pc # "gone"

AppendedUnbounded(b, n) == Append(b, n)
(* deque(maxlen) drops the oldest. *)
Appended(b, n) ==
    LET all == Append(b, n) IN
    IF Len(all) > BufferSize THEN Tail(all) ELSE all

-----------------------------------------------------------------------------
Init ==
    /\ epoch = 1 /\ seq = 0 /\ buffer = <<>> /\ scheduled = 0 /\ closing = FALSE
    /\ sub = [c \in Consumers |-> Gone]
    /\ client = [c \in Consumers |-> Offline]
    /\ published = 0 /\ base = 0 /\ restarts = {}
    /\ known = [c \in Consumers |-> 0]
    /\ gaps = [c \in Consumers |-> 0]

(* emit: the fan-out is scheduled from any thread. *)
Publish ==
    /\ published < EventMax
    /\ published' = published + 1
    /\ scheduled' = scheduled + 1
    /\ UNCHANGED <<epoch, seq, buffer, closing, sub, client, base, restarts, informed>>

(* put_nowait; a full queue marks the subscriber, and a marked one gets no  *)
(* more events.                                                             *)
OfferedDroppingOldest(s, f) ==
    IF Len(s.queue) < MaxQueue THEN [s EXCEPT !.queue = Append(@, f)]
    ELSE [s EXCEPT !.queue = Append(Tail(@), f)]

Offered(s, f) ==
    IF s.overflow THEN s
    ELSE IF Len(s.queue) < MaxQueue THEN [s EXCEPT !.queue = Append(@, f)]
    ELSE [s EXCEPT !.overflow = TRUE]

Fanout ==
    /\ scheduled > 0
    /\ scheduled' = scheduled - 1
    /\ seq' = seq + 1
    /\ buffer' = Appended(buffer, seq + 1)
    /\ sub' = [c \in Consumers |->
          IF Subscribed(c) THEN Offered(sub[c], EventFrame(seq + 1)) ELSE sub[c]]
    /\ UNCHANGED <<epoch, closing, client, counts, informed>>

NoLossSinceOffByOne(n) == buffer # <<>> /\ n + 2 >= buffer[1]

(* The buffer goes back to the event after n (or nothing was missed). *)
NoLossSince(n) == IF buffer = <<>> THEN n >= seq ELSE n + 1 >= buffer[1]

(* _resume, for a consumer whose last event was <<e, n>>. *)
ResumableInAnyEpoch(e, n) == n = 0 \/ NoLossSince(n)
Resumable(e, n) == n = 0 \/ (e = epoch /\ NoLossSince(n))

(* The buffered events after n: the buffer is in increasing order, so those *)
(* up to n come first.                                                      *)
Replayed(n) ==
    LET read == {i \in DOMAIN buffer : buffer[i] <= n} IN
    SubSeq(buffer, Cardinality(read) + 1, Len(buffer))

FirstFrames(e, n) ==
    IF n = 0 THEN <<>>
    ELSE IF ~ Resumable(e, n) THEN <<GapFrame>>
    ELSE [i \in 1 .. Len(Replayed(n)) |-> EventFrame(Replayed(n)[i])]

(* A request for the stream, up to the first yield of stream(). *)
Connect(c) ==
    /\ ~ client[c].up
    /\ ~ Subscribed(c)
    /\ ~ closing
    /\ client' = [client EXCEPT ![c].up = TRUE]
    /\ sub' = [sub EXCEPT ![c] =
          [Gone EXCEPT !.pc = "top",
                       !.first = FirstFrames(client[c].last[1], client[c].last[2])]]
    /\ UNCHANGED <<hub, counts, informed>>

HasRoom(c) == Len(client[c].wire) < WireSize

SendFirst(c) ==
    /\ Subscribed(c)
    /\ sub[c].first # <<>>
    /\ HasRoom(c)
    /\ client' = [client EXCEPT ![c].wire = Append(@, Head(sub[c].first))]
    /\ sub' = [sub EXCEPT ![c].first = Tail(@)]
    /\ UNCHANGED <<hub, counts, informed>>

(* At the head of the loop: give up a consumer that is too slow, or wait    *)
(* for the queue.                                                           *)
CutOff(c) ==
    /\ sub[c].pc = "top" /\ sub[c].first = <<>>
    /\ sub[c].overflow
    /\ sub' = [sub EXCEPT ![c] = Gone]
    /\ UNCHANGED <<hub, client, counts, informed>>

Await(c) ==
    /\ sub[c].pc = "top" /\ sub[c].first = <<>>
    /\ ~ sub[c].overflow
    /\ sub[c].queue = <<>>
    /\ sub' = [sub EXCEPT ![c].pc = "get"]
    /\ UNCHANGED <<hub, client, counts, informed>>

(* queue.get() returns.  A frame that was yielded is on the wire before the *)
(* loop goes on.                                                            *)
Take(c) ==
    /\ sub[c].pc = "get" \/ (sub[c].pc = "top" /\ ~ sub[c].overflow)
    /\ sub[c].first = <<>>
    /\ sub[c].queue # <<>>
    /\ IF Head(sub[c].queue) = CloseFrame
       THEN sub' = [sub EXCEPT ![c] = Gone] /\ UNCHANGED client
       ELSE /\ HasRoom(c)
            /\ client' = [client EXCEPT ![c].wire = Append(@, Head(sub[c].queue))]
            /\ sub' = [sub EXCEPT ![c].queue = Tail(@), ![c].pc = "top"]
    /\ UNCHANGED <<hub, counts, informed>>

(* The consumer reads a frame. *)
Receive(c) ==
    LET f == Head(client[c].wire) IN
    /\ client[c].wire # <<>>
    /\ client' = [client EXCEPT ![c].wire = Tail(@),
                      ![c].last = IF f.kind = "event" THEN <<epoch, f.seq>> ELSE @]
    /\ known' = [known EXCEPT ![c] = base + f.seq]
    /\ gaps' = IF f.kind = "gap" THEN [gaps EXCEPT ![c] = @ + 1] ELSE gaps
    /\ UNCHANGED <<hub, sub, counts>>

(* The connection breaks; stream(), if it has not ended by itself, ends and *)
(* drops its subscriber.  What was on the wire is lost.                     *)
Drop(c) ==
    /\ client[c].up
    /\ client[c].drops < DropMax
    /\ client' = [client EXCEPT ![c].up = FALSE, ![c].wire = <<>>, ![c].drops = @ + 1]
    /\ sub' = [sub EXCEPT ![c] = Gone]
    /\ UNCHANGED <<hub, counts, informed>>

(* The server has ended the response; the consumer reads what is left. *)
EndOfStream(c) ==
    /\ client[c].up
    /\ ~ Subscribed(c)
    /\ client[c].wire = <<>>
    /\ client' = [client EXCEPT ![c].up = FALSE]
    /\ UNCHANGED <<hub, sub, counts, informed>>

(* close(), at a graceful shutdown *)
Close ==
    /\ ~ closing
    /\ epoch <= RestartMax
    /\ closing' = TRUE
    /\ sub' = [c \in Consumers |->
          IF Subscribed(c) /\ Len(sub[c].queue) < MaxQueue
            THEN [sub[c] EXCEPT !.queue = Append(@, CloseFrame)] ELSE sub[c]]
    /\ UNCHANGED <<epoch, seq, buffer, scheduled, client, counts, informed>>

(* The process ends, after close() or by a crash, and starts again. *)
Restart ==
    /\ epoch <= RestartMax
    /\ epoch' = epoch + 1
    /\ seq' = 0 /\ buffer' = <<>> /\ scheduled' = 0 /\ closing' = FALSE
    /\ sub' = [c \in Consumers |-> Gone]
    /\ client' = [c \in Consumers |-> [client[c] EXCEPT !.up = FALSE, !.wire = <<>>]]
    /\ base' = base + seq + 1
    /\ restarts' = restarts \cup {base + seq + 1}
    /\ UNCHANGED <<published, informed>>

Stream(c) == SendFirst(c) \/ CutOff(c) \/ Await(c) \/ Take(c)

Next ==
    \/ Publish
    \/ Fanout
    \/ \E c \in Consumers :
          Connect(c) \/ Stream(c) \/ Receive(c) \/ Drop(c) \/ EndOfStream(c)
    \/ Close
    \/ Restart

Spec == Init /\ [][Next]_vars

(* The event loop runs what is ready; a consumer reads, and reconnects; a   *)
(* process that is shutting down is started again.                          *)
Fairness ==
    /\ WF_vars(Fanout)
    /\ \A c \in Consumers :
          /\ WF_vars(Connect(c))
          /\ WF_vars(Stream(c))
          /\ WF_vars(Receive(c))
          /\ WF_vars(EndOfStream(c))
    /\ WF_vars(closing /\ Restart)

FairSpec == Spec /\ Fairness

-----------------------------------------------------------------------------
(* Properties *)

(* Every variable has its type. *)
TypeOK ==
    /\ epoch \in 1 .. RestartMax + 1
    /\ seq \in Nat /\ buffer \in Seq(1 .. seq) /\ Len(buffer) <= BufferSize
    /\ scheduled \in Nat /\ closing \in BOOLEAN
    /\ sub \in [Consumers -> Subscriber]
    /\ client \in [Consumers -> Client]
    /\ published \in 0 .. EventMax
    /\ base \in Nat /\ restarts \subseteq 1 .. base
    /\ known \in [Consumers -> Nat] /\ gaps \in [Consumers -> Nat]

Bound(c) == client[c].last[2] # 0
position == [c \in Consumers |-> IF Bound(c) THEN known[c] ELSE -1]

(* "a still-buffered gap is replayed exactly, while an unresumable gap ...  *)
(* is signalled" (README:534): see EventFeed.                               *)
Feed == INSTANCE EventFeed WITH head <- base + seq
FeedSpec == Feed!Spec

InFlight(c) == client[c].wire \o sub[c].first \o sub[c].queue
OnlyCloses(s, i, j) == \A k \in i .. j : s[k] = CloseFrame

(* What a connected consumer has not read yet, from the wire to its queue,  *)
(* are consecutive events, the frame of close() left out: a queue that      *)
(* overflowed loses only a suffix, which ends the connection, and one that  *)
(* did not goes up to the last event.                                       *)
NoHoleInFlight ==
    \A c \in Consumers :
        LET s == InFlight(c)
            carried == {i \in DOMAIN s : s[i] # CloseFrame} IN
        /\ \A i, j \in carried :
              i < j /\ OnlyCloses(s, i + 1, j - 1) => s[j].seq = s[i].seq + 1
        /\ Subscribed(c) /\ ~ sub[c].overflow =>
              \A i \in carried : OnlyCloses(s, i + 1, Len(s)) => s[i].seq = seq

(* Back-pressure never blocks the emitter (README:541), and it never blocks *)
(* the consumer for good either: whenever the publishers pause (the bound   *)
(* on events makes them), every bound consumer comes to have read all that  *)
(* was fanned out, or the signal of a gap in its place.                     *)
EventuallyInformed ==
    []<>(\A c \in Consumers : Bound(c) => known[c] = base + seq)
=============================================================================
