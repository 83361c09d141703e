--------------------------- MODULE EventHub_proofs ---------------------------
(***************************************************************************)
(* Theorems about the event hub, for any consumers and any sizes of the    *)
(* buffer, the queues and the connection, over any number of events,       *)
(* broken connections and restarts: no hole is ever in flight, and the hub *)
(* implements EventFeed.                                                   *)
(***************************************************************************)
EXTENDS EventHub, FiniteSetTheorems, SequenceTheorems, TLAPS

-----------------------------------------------------------------------------
(* The inductive invariant *)

(* The ring buffer holds the last events of the epoch. *)
BufferInv ==
    /\ \A i \in 1 .. Len(buffer) : buffer[i] = seq - Len(buffer) + i
    /\ seq # 0 => buffer # <<>>

(* Frame g at place i of a queue that carries what follows event n, with    *)
(* close()'s frame at place p, or without it if p is 0.                     *)
Queued(g, i, n, p) ==
    /\ i = p => g = CloseFrame
    /\ i # p => g.kind = "event"
    /\ i # p /\ (p = 0 \/ i < p) => g.seq = n + i
    /\ p # 0 /\ p < i => g.seq = n + i - 1

(* Wire, first frames and queue w, f, q carry what follows event m, one by  *)
(* one.                                                                     *)
(* A gap signal is the first frame of all, if there is one.                 *)
Chained(w, f, q, m, p) ==
    /\ \A i \in 1 .. Len(w) : w[i].kind # "close" /\ w[i].seq = m + i
    /\ \A i \in 1 .. Len(w) : w[i].kind = "gap" => i = 1
    /\ \A i \in 1 .. Len(f) : f[i].kind # "close" /\ f[i].seq = m + Len(w) + i
    /\ \A i \in 1 .. Len(f) : f[i].kind = "gap" => i = 1 /\ w = <<>>
    /\ \A i \in 1 .. Len(q) : Queued(q[i], i, m + Len(w) + Len(f), p)

EndOf(w, f, q, m, p) ==
    IF p = 0 THEN m + Len(w) + Len(f) + Len(q)
    ELSE m + Len(w) + Len(f) + Len(q) - 1

GapPending(w, f) ==
    \/ w # <<>> /\ w[1].kind = "gap"
    \/ w = <<>> /\ f # <<>> /\ f[1].kind = "gap"

(* The consumer of k and s, informed up to n of this epoch if it is bound.  *)
Flow(k, s, n, m, p) ==
    /\ Chained(k.wire, s.first, s.queue, m, p)
    /\ EndOf(k.wire, s.first, s.queue, m, p) <= seq
    /\ s.pc # "gone" /\ ~ s.overflow => EndOf(k.wire, s.first, s.queue, m, p) = seq
    /\ p # 0 => closing
    /\ GapPending(k.wire, s.first) => k.last[2] # 0 /\ n <= m + 1
    /\ ~ GapPending(k.wire, s.first) =>
          m >= 0 /\ (k.up /\ k.last[2] # 0 => n = m)

(* The last event of a consumer can be resumed from. *)
Retained(k) == k.last[1] = epoch /\ NoLossSince(k.last[2])

ConsumerInv(k, s, n) ==
    /\ \E m \in -1 .. seq, p \in 0 .. Len(s.queue) : Flow(k, s, n, m, p)
    /\ ~ k.up => k.wire = <<>> /\ s.pc = "gone"
    /\ s.pc = "gone" => s.first = <<>> /\ s.queue = <<>>
    /\ k.last[1] <= epoch
    /\ k.last[1] = epoch => k.last[2] <= seq
    /\ n <= seq
    /\ k.last[2] # 0 /\ Retained(k) => n = k.last[2]
    /\ GapPending(k.wire, s.first) => ~ Retained(k)

IInv ==
    /\ TypeOK
    /\ BufferInv
    /\ \A c \in Consumers : ConsumerInv(client[c], sub[c], known[c] - base)

-----------------------------------------------------------------------------
(* Frames and what an operation on the queues does to their chain *)

LEMMA FrameFacts ==
  /\ CloseFrame \in Frame /\ CloseFrame.kind = "close" /\ CloseFrame.seq = 0
  /\ \A g \in Frame : g.kind \in {"event", "gap", "close"} /\ g.seq \in Nat
  /\ \A n \in Nat : /\ EventFrame(n) \in Frame
                    /\ EventFrame(n).kind = "event" /\ EventFrame(n).seq = n
  BY DEF Frame, CloseFrame, EventFrame

LEMMA NoLength ==
  ASSUME NEW s \in Seq(Frame)
  PROVE  Len(s) \in Nat /\ (s = <<>> <=> Len(s) = 0)
  BY EmptySeq

LEMMA EndAfterStart ==
  ASSUME NEW w \in Seq(Frame), NEW f \in Seq(Frame), NEW q \in Seq(Frame),
         NEW m \in Int, NEW p \in 0 .. Len(q)
  PROVE  EndOf(w, f, q, m, p) \in Int /\ m <= EndOf(w, f, q, m, p)
<1>1. Len(w) \in Nat /\ Len(f) \in Nat /\ Len(q) \in Nat
  BY NoLength
<1>2. p # 0 => Len(q) >= 1
  BY <1>1
<1> QED BY <1>1, <1>2 DEF EndOf

(* A frame of the replay, or the gap signal, goes on the wire. *)
LEMMA ChainedSend ==
  ASSUME NEW w \in Seq(Frame), NEW f \in Seq(Frame), NEW q \in Seq(Frame),
         NEW m \in Int, NEW p \in Nat, Chained(w, f, q, m, p), f # <<>>
  PROVE  /\ Append(w, Head(f)) \in Seq(Frame) /\ Tail(f) \in Seq(Frame)
         /\ Chained(Append(w, Head(f)), Tail(f), q, m, p)
         /\ EndOf(Append(w, Head(f)), Tail(f), q, m, p) = EndOf(w, f, q, m, p)
         /\ GapPending(Append(w, Head(f)), Tail(f)) <=> GapPending(w, f)
<1> DEFINE ww == Append(w, Head(f))
           ff == Tail(f)
<1>1. /\ Head(f) = f[1] /\ Head(f) \in Frame /\ ff \in Seq(Frame)
      /\ Len(ff) = Len(f) - 1 /\ Len(f) \in Nat \ {0}
      /\ \A i \in 1 .. Len(ff) : ff[i] = f[i + 1]
  BY HeadTailProperties
<1>2. /\ ww \in Seq(Frame) /\ Len(ww) = Len(w) + 1 /\ ww # <<>>
      /\ \A i \in 1 .. Len(w) : ww[i] = w[i]
      /\ ww[Len(w) + 1] = f[1]
  BY <1>1, AppendProperties
<1>3. Len(w) \in Nat /\ Len(q) \in Nat /\ (w = <<>> <=> Len(w) = 0)
  BY EmptySeq
<1> HIDE DEF ww, ff
<1>4. Chained(ww, ff, q, m, p)
  <2>1. ASSUME NEW i \in 1 .. Len(ww)
        PROVE  ww[i].kind # "close" /\ ww[i].seq = m + i
    <3>1. CASE i \in 1 .. Len(w)
      BY <1>2, <3>1 DEF Chained
    <3>2. CASE i = Len(w) + 1
      <4>1. 1 \in 1 .. Len(f) /\ m + Len(w) + 1 = m + i
        BY <1>1, <1>3, <3>2
      <4>2. f[1].kind # "close" /\ f[1].seq = m + Len(w) + 1
        BY <4>1 DEF Chained
      <4> QED BY <1>2, <3>2, <4>1, <4>2
    <3> QED BY <1>2, <1>3, <3>1, <3>2
  <2>2. ASSUME NEW i \in 1 .. Len(ww), ww[i].kind = "gap"
        PROVE  i = 1
    <3>1. CASE i \in 1 .. Len(w)
      BY <1>2, <2>2, <3>1 DEF Chained
    <3>2. CASE i = Len(w) + 1
      <4>1. 1 \in 1 .. Len(f) /\ f[1].kind = "gap"
        BY <1>1, <1>2, <2>2, <3>2
      <4>2. w = <<>>
        BY <4>1 DEF Chained
      <4> QED BY <1>3, <3>2, <4>2
    <3> QED BY <1>2, <1>3, <3>1, <3>2
  <2>3. ASSUME NEW i \in 1 .. Len(ff)
        PROVE  ff[i].kind # "close" /\ ff[i].seq = m + Len(ww) + i /\ ff[i].kind # "gap"
    <3>1. i + 1 \in 1 .. Len(f) /\ ff[i] = f[i + 1] /\ i + 1 # 1
      BY <1>1
    <3>2. f[i + 1].kind # "close" /\ f[i + 1].seq = m + Len(w) + (i + 1)
      BY <3>1 DEF Chained
    <3>3. f[i + 1].kind # "gap"
      BY <3>1 DEF Chained
    <3> QED BY <1>2, <1>3, <3>1, <3>2, <3>3
  <2>4. \A i \in 1 .. Len(ff) : ff[i].kind = "gap" => i = 1 /\ ww = <<>>
    BY <2>3
  <2>5. Len(ww) + Len(ff) = Len(w) + Len(f)
    BY <1>1, <1>2, <1>3
  <2>6. \A i \in 1 .. Len(q) : Queued(q[i], i, m + Len(ww) + Len(ff), p)
    <3>1. m + Len(ww) + Len(ff) = m + Len(w) + Len(f)
      BY <1>1, <1>2, <1>3, <2>5
    <3> QED BY <3>1 DEF Chained
  <2> QED BY <2>1, <2>2, <2>3, <2>4, <2>6, Zenon DEF Chained
<1>5. EndOf(ww, ff, q, m, p) = EndOf(w, f, q, m, p)
  BY <1>1, <1>2, <1>3 DEF EndOf
<1>6. GapPending(ww, ff) <=> GapPending(w, f)
  <2>1. CASE w = <<>>
    BY <1>1, <1>2, <1>3, <2>1 DEF GapPending
  <2>2. CASE w # <<>>
    <3>1. ww[1] = w[1]
      BY <1>2, <1>3, <2>2
    <3> QED BY <1>2, <2>2, <3>1, Zenon DEF GapPending
  <2> QED BY <2>1, <2>2
<1> QED BY <1>1, <1>2, <1>4, <1>5, <1>6 DEF ww, ff

(* A frame of the queue goes on the wire, once nothing is left to send      *)
(* before it.                                                               *)
LEMMA ChainedTake ==
  ASSUME NEW w \in Seq(Frame), NEW q \in Seq(Frame), NEW m \in Int, NEW p \in 0 .. Len(q),
         Chained(w, <<>>, q, m, p), q # <<>>, Head(q) # CloseFrame
  PROVE  \E r \in 0 .. Len(Tail(q)) :
           /\ Append(w, Head(q)) \in Seq(Frame) /\ Tail(q) \in Seq(Frame)
           /\ Chained(Append(w, Head(q)), <<>>, Tail(q), m, r)
           /\ EndOf(Append(w, Head(q)), <<>>, Tail(q), m, r) = EndOf(w, <<>>, q, m, p)
           /\ GapPending(Append(w, Head(q)), <<>>) <=> GapPending(w, <<>>)
           /\ r # 0 => p # 0
<1> DEFINE ww == Append(w, Head(q))
           qq == Tail(q)
           r == IF p = 0 THEN 0 ELSE p - 1
<1>1. /\ Head(q) = q[1] /\ Head(q) \in Frame /\ qq \in Seq(Frame)
      /\ Len(qq) = Len(q) - 1 /\ Len(q) \in Nat \ {0}
      /\ \A i \in 1 .. Len(qq) : qq[i] = q[i + 1]
  BY HeadTailProperties
<1>2. /\ ww \in Seq(Frame) /\ Len(ww) = Len(w) + 1 /\ ww # <<>>
      /\ \A i \in 1 .. Len(w) : ww[i] = w[i]
      /\ ww[Len(w) + 1] = q[1]
  BY <1>1, AppendProperties
<1>3. Len(w) \in Nat /\ (w = <<>> <=> Len(w) = 0) /\ Len(<<>>) = 0
  BY EmptySeq
<1>4. Queued(q[1], 1, m + Len(w) + Len(<<>>), p)
  BY <1>1 DEF Chained
<1>5. p # 1 /\ q[1].kind = "event" /\ q[1].seq = m + Len(w) + 1
  BY <1>1, <1>3, <1>4 DEF Queued
<1>6. r \in 0 .. Len(qq) /\ (p = 0 <=> r = 0)
  BY <1>1, <1>5
<1>7. p # 0 => r = p - 1
  OBVIOUS
<1> HIDE DEF ww, qq, r
<1>8. Chained(ww, <<>>, qq, m, r)
  <2>1. ASSUME NEW i \in 1 .. Len(ww)
        PROVE  ww[i].kind # "close" /\ ww[i].seq = m + i
    <3>1. CASE i \in 1 .. Len(w)
      BY <1>2, <3>1 DEF Chained
    <3>2. CASE i = Len(w) + 1
      BY <1>2, <1>3, <1>5, <3>2
    <3> QED BY <1>2, <1>3, <3>1, <3>2
  <2>2. ASSUME NEW i \in 1 .. Len(ww), ww[i].kind = "gap"
        PROVE  i = 1
    <3>1. CASE i \in 1 .. Len(w)
      BY <1>2, <2>2, <3>1 DEF Chained
    <3>2. CASE i = Len(w) + 1
      BY <1>2, <1>5, <2>2, <3>2
    <3> QED BY <1>2, <1>3, <3>1, <3>2
  <2>3. ASSUME NEW i \in 1 .. Len(qq)
        PROVE  Queued(qq[i], i, m + Len(ww) + Len(<<>>), r)
    <3>1. i + 1 \in 1 .. Len(q) /\ qq[i] = q[i + 1]
      BY <1>1
    <3>2. Queued(q[i + 1], i + 1, m + Len(w) + Len(<<>>), p)
      BY <3>1 DEF Chained
    <3>3. p \in Nat /\ r \in Nat /\ i \in Nat
      BY <1>1, <1>6
    <3> QED BY <1>2, <1>3, <1>6, <1>7, <3>1, <3>2, <3>3 DEF Queued
  <2> QED BY <1>3, <2>1, <2>2, <2>3 DEF Chained
<1>9. EndOf(ww, <<>>, qq, m, r) = EndOf(w, <<>>, q, m, p)
  BY <1>1, <1>2, <1>3, <1>6 DEF EndOf
<1>10. GapPending(ww, <<>>) <=> GapPending(w, <<>>)
  <2>1. CASE w = <<>>
    BY <1>2, <1>3, <1>5, <2>1 DEF GapPending
  <2>2. CASE w # <<>>
    BY <1>2, <1>3, <2>2 DEF GapPending
  <2> QED BY <2>1, <2>2
<1>11. r # 0 => p # 0
  BY <1>6
<1> QED BY <1>1, <1>2, <1>6, <1>8, <1>9, <1>10, <1>11 DEF ww, qq

(* The consumer reads the first frame of the wire. *)
LEMMA ChainedReceive ==
  ASSUME NEW w \in Seq(Frame), NEW f \in Seq(Frame), NEW q \in Seq(Frame),
         NEW m \in Int, NEW p \in Nat, Chained(w, f, q, m, p), w # <<>>
  PROVE  /\ Tail(w) \in Seq(Frame)
         /\ Chained(Tail(w), f, q, m + 1, p)
         /\ EndOf(Tail(w), f, q, m + 1, p) = EndOf(w, f, q, m, p)
         /\ ~ GapPending(Tail(w), f)
         /\ Head(w) \in Frame /\ Head(w).seq = m + 1
         /\ Head(w).kind = "gap" <=> GapPending(w, f)
         /\ Head(w).kind # "gap" => Head(w).kind = "event"
<1> DEFINE ww == Tail(w)
<1>1. /\ Head(w) = w[1] /\ Head(w) \in Frame /\ ww \in Seq(Frame)
      /\ Len(ww) = Len(w) - 1 /\ Len(w) \in Nat \ {0}
      /\ \A i \in 1 .. Len(ww) : ww[i] = w[i + 1]
  BY HeadTailProperties
<1>2. Len(f) \in Nat /\ Len(q) \in Nat /\ (ww = <<>> <=> Len(ww) = 0)
      /\ (f = <<>> <=> Len(f) = 0)
  BY <1>1, NoLength
<1> HIDE DEF ww
<1>3. Chained(ww, f, q, m + 1, p)
  <2>1. ASSUME NEW i \in 1 .. Len(ww)
        PROVE  ww[i].kind # "close" /\ ww[i].seq = m + 1 + i /\ ww[i].kind # "gap"
    <3>1. i + 1 \in 1 .. Len(w) /\ ww[i] = w[i + 1] /\ i + 1 # 1 /\ m + (i + 1) = m + 1 + i
      BY <1>1
    <3>2. w[i + 1].kind # "close" /\ w[i + 1].seq = m + (i + 1) /\ w[i + 1].kind # "gap"
      BY <3>1 DEF Chained
    <3> QED BY <3>1, <3>2
  <2>2. \A i \in 1 .. Len(ww) : ww[i].kind = "gap" => i = 1
    BY <2>1
  <2>3. \A i \in 1 .. Len(f) : f[i].kind # "close" /\ f[i].seq = m + 1 + Len(ww) + i
    BY <1>1, <1>2 DEF Chained
  <2>4. \A i \in 1 .. Len(f) : f[i].kind # "gap"
    BY <1>1, <1>2 DEF Chained
  <2>5. m + 1 + Len(ww) + Len(f) = m + Len(w) + Len(f)
    BY <1>1, <1>2
  <2>6. \A i \in 1 .. Len(q) : Queued(q[i], i, m + 1 + Len(ww) + Len(f), p)
    BY <2>5 DEF Chained
  <2> QED BY <2>1, <2>2, <2>3, <2>4, <2>6 DEF Chained
<1>4. EndOf(ww, f, q, m + 1, p) = EndOf(w, f, q, m, p)
  BY <1>1, <1>2 DEF EndOf
<1>5. ~ GapPending(ww, f)
  <2>1. CASE ww # <<>>
    <3>1. 2 \in 1 .. Len(w) /\ ww[1] = w[2]
      BY <1>1, <1>2, <2>1
    <3>2. w[2].kind # "gap"
      BY <3>1 DEF Chained
    <3> QED BY <2>1, <3>1, <3>2 DEF GapPending
  <2>2. CASE f # <<>>
    <3>1. 1 \in 1 .. Len(f)
      BY <1>2, <2>2
    <3>2. f[1].kind # "gap"
      BY <3>1 DEF Chained
    <3> QED BY <2>1, <3>2 DEF GapPending
  <2> QED BY <2>1, <2>2 DEF GapPending
<1>6. Head(w).seq = m + 1 /\ Head(w).kind # "close"
  BY <1>1 DEF Chained
<1>7. Head(w).kind = "gap" <=> GapPending(w, f)
  BY <1>1 DEF GapPending
<1> QED BY <1>1, <1>3, <1>4, <1>5, <1>6, <1>7, FrameFacts DEF ww

(* The next event enters the queue. *)
LEMMA ChainedOffer ==
  ASSUME NEW w \in Seq(Frame), NEW f \in Seq(Frame), NEW q \in Seq(Frame),
         NEW m \in Int, NEW p \in 0 .. Len(q), Chained(w, f, q, m, p),
         NEW n \in Nat, EndOf(w, f, q, m, p) = n
  PROVE  /\ Append(q, EventFrame(n + 1)) \in Seq(Frame)
         /\ Chained(w, f, Append(q, EventFrame(n + 1)), m, p)
         /\ EndOf(w, f, Append(q, EventFrame(n + 1)), m, p) = n + 1
         /\ p \in 0 .. Len(Append(q, EventFrame(n + 1)))
<1> DEFINE qq == Append(q, EventFrame(n + 1))
<1>1. /\ qq \in Seq(Frame) /\ Len(qq) = Len(q) + 1
      /\ \A i \in 1 .. Len(q) : qq[i] = q[i]
      /\ qq[Len(q) + 1] = EventFrame(n + 1)
  BY AppendProperties, FrameFacts
<1>2. Len(w) \in Nat /\ Len(f) \in Nat /\ Len(q) \in Nat
  OBVIOUS
<1>3. EventFrame(n + 1).kind = "event" /\ EventFrame(n + 1).seq = n + 1
  BY FrameFacts
<1> HIDE DEF qq
<1>4. \A i \in 1 .. Len(qq) : Queued(qq[i], i, m + Len(w) + Len(f), p)
  <2> SUFFICES ASSUME NEW i \in 1 .. Len(qq)
               PROVE  Queued(qq[i], i, m + Len(w) + Len(f), p)
    OBVIOUS
  <2>1. CASE i \in 1 .. Len(q)
    BY <1>1, <2>1 DEF Chained
  <2>2. CASE i = Len(q) + 1
    BY <1>1, <1>2, <1>3, <2>2 DEF EndOf, Queued
  <2> QED BY <1>1, <1>2, <2>1, <2>2
<1>5. Chained(w, f, qq, m, p)
  BY <1>4 DEF Chained
<1>6. EndOf(w, f, qq, m, p) = n + 1 /\ p \in 0 .. Len(qq)
  BY <1>1, <1>2 DEF EndOf
<1> QED BY <1>1, <1>5, <1>6 DEF qq

(* The frame of close() enters the queue. *)
LEMMA ChainedClose ==
  ASSUME NEW w \in Seq(Frame), NEW f \in Seq(Frame), NEW q \in Seq(Frame),
         NEW m \in Int, Chained(w, f, q, m, 0)
  PROVE  /\ Append(q, CloseFrame) \in Seq(Frame)
         /\ Chained(w, f, Append(q, CloseFrame), m, Len(q) + 1)
         /\ EndOf(w, f, Append(q, CloseFrame), m, Len(q) + 1) = EndOf(w, f, q, m, 0)
         /\ Len(q) + 1 \in 0 .. Len(Append(q, CloseFrame))
<1> DEFINE qq == Append(q, CloseFrame)
<1>1. /\ qq \in Seq(Frame) /\ Len(qq) = Len(q) + 1
      /\ \A i \in 1 .. Len(q) : qq[i] = q[i]
      /\ qq[Len(q) + 1] = CloseFrame
  BY AppendProperties, FrameFacts
<1>2. Len(w) \in Nat /\ Len(f) \in Nat /\ Len(q) \in Nat
  OBVIOUS
<1> HIDE DEF qq
<1>3. \A i \in 1 .. Len(qq) : Queued(qq[i], i, m + Len(w) + Len(f), Len(q) + 1)
  <2> SUFFICES ASSUME NEW i \in 1 .. Len(qq)
               PROVE  Queued(qq[i], i, m + Len(w) + Len(f), Len(q) + 1)
    OBVIOUS
  <2>1. CASE i = Len(q) + 1
    BY <1>1, <1>2, <2>1 DEF Queued
  <2>2. CASE i \in 1 .. Len(q)
    <3>1. Queued(q[i], i, m + Len(w) + Len(f), 0) /\ qq[i] = q[i]
      BY <1>1, <2>2 DEF Chained
    <3> QED BY <1>2, <2>2, <3>1 DEF Queued
  <2> QED BY <1>1, <1>2, <2>1, <2>2
<1>4. Chained(w, f, qq, m, Len(q) + 1)
  BY <1>3 DEF Chained
<1>5. EndOf(w, f, qq, m, Len(q) + 1) = EndOf(w, f, q, m, 0) /\ Len(q) + 1 \in 0 .. Len(qq)
  BY <1>1, <1>2 DEF EndOf
<1> QED BY <1>1, <1>4, <1>5 DEF qq

-----------------------------------------------------------------------------
(* What a step of one consumer's connection keeps, the hub being unchanged *)

LEMMA FieldFacts ==
  /\ \A s \in Subscriber :
       /\ s.pc \in {"gone", "top", "get"} /\ s.first \in Seq(Frame)
       /\ s.queue \in Seq(Frame) /\ s.overflow \in BOOLEAN
  /\ \A k \in Client :
       /\ k.up \in BOOLEAN /\ k.wire \in Seq(Frame) /\ k.drops \in Nat
       /\ k.last[1] \in Nat /\ k.last[2] \in Nat /\ k.last \in Nat \X Nat
  /\ Gone \in Subscriber /\ Offline \in Client
  /\ Gone.pc = "gone" /\ Gone.first = <<>> /\ Gone.queue = <<>>
  /\ Offline.up = FALSE /\ Offline.wire = <<>> /\ Offline.last = <<0, 0>>
<1>1. \A s \in Subscriber :
       /\ s.pc \in {"gone", "top", "get"} /\ s.first \in Seq(Frame)
       /\ s.queue \in Seq(Frame) /\ s.overflow \in BOOLEAN
  BY DEF Subscriber
<1>2. \A k \in Client :
       /\ k.up \in BOOLEAN /\ k.wire \in Seq(Frame) /\ k.drops \in Nat
       /\ k.last[1] \in Nat /\ k.last[2] \in Nat /\ k.last \in Nat \X Nat
  BY DEF Client
<1>3. <<>> \in Seq(Frame) /\ <<0, 0>> \in Nat \X Nat
  BY EmptySeq
<1>4. /\ Gone \in Subscriber
      /\ Gone.pc = "gone" /\ Gone.first = <<>> /\ Gone.queue = <<>>
  BY <1>3 DEF Gone, Subscriber
<1>5. /\ Offline \in Client
      /\ Offline.up = FALSE /\ Offline.wire = <<>> /\ Offline.last = <<0, 0>>
  BY <1>3 DEF Offline, Client
<1> QED BY <1>1, <1>2, <1>4, <1>5

LEMMA SendKeeps ==
  ASSUME NEW k \in Client, NEW s \in Subscriber, NEW n \in Int, ConsumerInv(k, s, n),
         NEW l \in Client, NEW t \in Subscriber, s.first # <<>>,
         l.up = k.up, l.last = k.last, l.wire = Append(k.wire, Head(s.first)),
         t.pc = s.pc, t.overflow = s.overflow, t.queue = s.queue, t.first = Tail(s.first)
  PROVE  ConsumerInv(l, t, n)
<1>1. PICK m \in -1 .. seq, p \in 0 .. Len(s.queue) : Flow(k, s, n, m, p)
  BY DEF ConsumerInv
<1>2. /\ Chained(l.wire, t.first, t.queue, m, p)
      /\ EndOf(l.wire, t.first, t.queue, m, p) = EndOf(k.wire, s.first, s.queue, m, p)
      /\ GapPending(l.wire, t.first) <=> GapPending(k.wire, s.first)
  BY SMTT(30), <1>1, ChainedSend, FieldFacts DEF Flow
<1>3. Flow(l, t, n, m, p)
  BY <1>1, <1>2 DEF Flow
<1>4. s.pc # "gone" /\ k.up
  BY DEF ConsumerInv
<1>5. Retained(l) <=> Retained(k)
  BY DEF Retained
<1> QED BY <1>2, <1>3, <1>4, <1>5 DEF ConsumerInv

LEMMA TakeKeeps ==
  ASSUME NEW k \in Client, NEW s \in Subscriber, NEW n \in Int, ConsumerInv(k, s, n),
         NEW l \in Client, NEW t \in Subscriber,
         s.first = <<>>, s.queue # <<>>, Head(s.queue) # CloseFrame,
         l.up = k.up, l.last = k.last, l.wire = Append(k.wire, Head(s.queue)),
         t.pc = "top", t.overflow = s.overflow, t.queue = Tail(s.queue), t.first = <<>>
  PROVE  ConsumerInv(l, t, n)
<1>1. PICK m \in -1 .. seq, p \in 0 .. Len(s.queue) : Flow(k, s, n, m, p)
  BY DEF ConsumerInv
<1>2. PICK r \in 0 .. Len(t.queue) :
        /\ Chained(l.wire, t.first, t.queue, m, r)
        /\ EndOf(l.wire, t.first, t.queue, m, r) = EndOf(k.wire, s.first, s.queue, m, p)
        /\ GapPending(l.wire, t.first) <=> GapPending(k.wire, s.first)
        /\ r # 0 => p # 0
  <2>1. k.wire \in Seq(Frame) /\ s.queue \in Seq(Frame)
    BY FieldFacts
  <2>2. Chained(k.wire, <<>>, s.queue, m, p)
    BY <1>1 DEF Flow
  <2> QED BY <2>1, <2>2, ChainedTake
<1>3. s.pc # "gone" /\ k.up
  BY DEF ConsumerInv
<1>4. Flow(l, t, n, m, r)
  BY <1>1, <1>2, <1>3 DEF Flow
<1>5. Retained(l) <=> Retained(k)
  BY DEF Retained
<1> QED BY <1>2, <1>3, <1>4, <1>5 DEF ConsumerInv

LEMMA AwaitKeeps ==
  ASSUME NEW k \in Client, NEW s \in Subscriber, NEW n \in Int, ConsumerInv(k, s, n),
         NEW t \in Subscriber, s.pc = "top", t.pc = "get",
         t.overflow = s.overflow, t.queue = s.queue, t.first = s.first
  PROVE  ConsumerInv(k, t, n)
<1>1. PICK m \in -1 .. seq, p \in 0 .. Len(s.queue) : Flow(k, s, n, m, p)
  BY DEF ConsumerInv
<1>2. Flow(k, t, n, m, p)
  BY <1>1 DEF Flow
<1> QED BY <1>2 DEF ConsumerInv

(* The server ends a stream whose first frames are sent. *)
LEMMA LeaveKeeps ==
  ASSUME NEW k \in Client, NEW s \in Subscriber, NEW n \in Int, ConsumerInv(k, s, n),
         s.first = <<>>, seq \in Nat
  PROVE  ConsumerInv(k, Gone, n)
<1>1. PICK m \in -1 .. seq, p \in 0 .. Len(s.queue) : Flow(k, s, n, m, p)
  BY DEF ConsumerInv
<1>2. /\ Gone.pc = "gone" /\ Gone.first = <<>> /\ Gone.queue = <<>> /\ Len(<<>>) = 0
      /\ Len(k.wire) \in Nat /\ Len(s.queue) \in Nat
  BY FieldFacts
<1>3. Chained(k.wire, <<>>, <<>>, m, 0)
  BY <1>1, <1>2 DEF Flow, Chained
<1>4. EndOf(k.wire, <<>>, <<>>, m, 0) <= seq
  BY <1>1, <1>2 DEF Flow, EndOf
<1>5. Flow(k, Gone, n, m, 0)
  BY <1>1, <1>2, <1>3, <1>4 DEF Flow
<1>6. 0 \in 0 .. Len(Gone.queue)
  BY <1>2
<1> QED BY <1>1, <1>2, <1>5, <1>6 DEF ConsumerInv, Flow

(* The connection is over, for both ends. *)
LEMMA OverKeeps ==
  ASSUME NEW k \in Client, NEW s \in Subscriber, NEW n \in Int, ConsumerInv(k, s, n),
         seq \in Nat, NEW l \in Client, l.up = FALSE, l.wire = <<>>, l.last = k.last,
         NEW t \in Subscriber, t.pc = "gone", t.first = <<>>, t.queue = <<>>
  PROVE  ConsumerInv(l, t, n)
<1>1. Len(<<>>) = 0
  OBVIOUS
<1>2. Chained(<<>>, <<>>, <<>>, 0, 0) /\ EndOf(<<>>, <<>>, <<>>, 0, 0) = 0
  BY <1>1 DEF Chained, EndOf
<1>3. ~ GapPending(<<>>, <<>>)
  BY DEF GapPending
<1>4. Flow(l, t, n, 0, 0) /\ 0 \in -1 .. seq /\ 0 \in 0 .. Len(t.queue)
  BY <1>1, <1>2, <1>3 DEF Flow
<1>5. Retained(l) <=> Retained(k)
  BY DEF Retained
<1> QED BY <1>1, <1>3, <1>4, <1>5 DEF ConsumerInv

(* The consumer reads a frame: an event it was due, or a gap signal. *)
LEMMA ReceiveKeeps ==
  ASSUME NEW k \in Client, NEW s \in Subscriber, NEW n \in Int, ConsumerInv(k, s, n),
         seq \in Nat, epoch \in Nat, NEW l \in Client, k.wire # <<>>,
         l.up = k.up, l.wire = Tail(k.wire),
         l.last = IF Head(k.wire).kind = "event" THEN <<epoch, Head(k.wire).seq>> ELSE k.last
  PROVE  /\ ConsumerInv(l, s, Head(k.wire).seq)
         /\ Head(k.wire).seq \in 0 .. seq
         /\ Head(k.wire).kind = "event" =>
              /\ Head(k.wire).seq >= 1
              /\ k.last[2] # 0 => n + 1 = Head(k.wire).seq
         /\ Head(k.wire).kind # "event" =>
              /\ Head(k.wire).kind = "gap" /\ k.last[2] # 0
              /\ n <= Head(k.wire).seq
<1> DEFINE g == Head(k.wire)
<1>1. PICK m \in -1 .. seq, p \in 0 .. Len(s.queue) : Flow(k, s, n, m, p)
  BY DEF ConsumerInv
<1>2. /\ Chained(l.wire, s.first, s.queue, m + 1, p)
      /\ EndOf(l.wire, s.first, s.queue, m + 1, p) = EndOf(k.wire, s.first, s.queue, m, p)
      /\ ~ GapPending(l.wire, s.first)
      /\ g.seq \in Nat /\ g.seq = m + 1
      /\ g.kind = "gap" <=> GapPending(k.wire, s.first)
      /\ g.kind # "gap" => g.kind = "event"
      /\ l.wire \in Seq(Frame)
  <2>1. /\ k.wire \in Seq(Frame) /\ s.first \in Seq(Frame) /\ s.queue \in Seq(Frame)
        /\ m \in Int /\ p \in Nat
    BY FieldFacts
  <2>2. Chained(k.wire, s.first, s.queue, m, p)
    BY <1>1 DEF Flow
  <2>3. /\ l.wire \in Seq(Frame)
        /\ Chained(l.wire, s.first, s.queue, m + 1, p)
        /\ EndOf(l.wire, s.first, s.queue, m + 1, p) = EndOf(k.wire, s.first, s.queue, m, p)
        /\ ~ GapPending(l.wire, s.first)
        /\ g \in Frame /\ g.seq = m + 1
        /\ g.kind = "gap" <=> GapPending(k.wire, s.first)
        /\ g.kind # "gap" => g.kind = "event"
    BY <2>1, <2>2, ChainedReceive
  <2>4. g.seq \in Nat
    BY <2>3, FrameFacts
  <2> QED BY <2>3, <2>4
<1> HIDE DEF g
<1>3. k.up
  BY DEF ConsumerInv
<1>4. m + 1 <= seq
  <2>1. EndOf(l.wire, s.first, s.queue, m + 1, p) <= seq
    BY <1>1, <1>2 DEF Flow
  <2>2. s.first \in Seq(Frame) /\ s.queue \in Seq(Frame)
    BY FieldFacts
  <2>3. /\ EndOf(l.wire, s.first, s.queue, m + 1, p) \in Int
        /\ m + 1 <= EndOf(l.wire, s.first, s.queue, m + 1, p)
    <3>1. m + 1 \in Int
      OBVIOUS
    <3>2. l.wire \in Seq(Frame)
      BY <1>2
    <3> QED BY <2>2, <3>1, <3>2, EndAfterStart
  <2> QED BY <2>1, <2>3
<1>5. g.kind = "gap" => m + 1 >= 0 /\ n <= m + 1 /\ k.last[2] # 0
  BY <1>1, <1>2 DEF Flow
<1>6. g.kind = "event" => m >= 0 /\ (k.last[2] # 0 => n = m)
  BY <1>1, <1>2, <1>3 DEF Flow
<1>7. Flow(l, s, g.seq, m + 1, p) /\ m + 1 \in -1 .. seq
  BY <1>1, <1>2, <1>4, <1>5, <1>6 DEF Flow
<1>8. CASE g.kind = "event"
  <2>1. l.last[1] = epoch /\ l.last[2] = g.seq
    BY <1>8 DEF g
  <2>2. ConsumerInv(l, s, g.seq)
    BY <1>1, <1>2, <1>3, <1>4, <1>7, <2>1 DEF ConsumerInv
  <2> QED BY <1>2, <1>4, <1>6, <1>8, <2>2 DEF g
<1>9. CASE g.kind = "gap"
  <2>1. l.last = k.last /\ ~ Retained(k)
    BY <1>2, <1>9 DEF g, ConsumerInv
  <2>2. ~ Retained(l)
    BY <2>1 DEF Retained
  <2>3. ConsumerInv(l, s, g.seq)
    BY <1>1, <1>2, <1>3, <1>4, <1>7, <2>1, <2>2 DEF ConsumerInv
  <2> QED BY <1>2, <1>4, <1>5, <1>9, <2>3 DEF g
<1> QED BY <1>2, <1>8, <1>9

-----------------------------------------------------------------------------
(* The ring buffer *)

LEMMA SeqFacts ==
  ASSUME TypeOK
  PROVE  /\ seq \in Nat /\ epoch \in Nat \ {0} /\ base \in Nat
         /\ buffer \in Seq(1 .. seq) /\ Len(buffer) \in Nat /\ Len(buffer) <= BufferSize
         /\ BufferSize \in Nat \ {0}
         /\ buffer = <<>> <=> Len(buffer) = 0
  BY SizesAssumption, BoundsAssumption, EmptySeq
     DEF TypeOK, SizesAssumption, BoundsAssumption

(* deque(maxlen) keeps the last events. *)
LEMMA AppendedFacts ==
  ASSUME TypeOK, BufferInv, NEW b, b = Appended(buffer, seq + 1)
  PROVE  /\ b \in Seq(1 .. seq + 1) /\ Len(b) <= BufferSize /\ b # <<>>
         /\ \A i \in 1 .. Len(b) : b[i] = seq + 1 - Len(b) + i
         /\ buffer # <<>> => buffer[1] <= b[1]
<1> DEFINE all == Append(buffer, seq + 1)
           L == Len(buffer)
<1>1. /\ seq \in Nat /\ L \in Nat /\ L <= BufferSize /\ BufferSize \in Nat \ {0}
      /\ buffer = <<>> <=> L = 0
  BY SeqFacts
<1>2. buffer \in Seq(1 .. seq + 1)
  <2>1. 1 .. seq \subseteq 1 .. seq + 1
    BY <1>1
  <2> QED BY <2>1, SeqFacts, SeqMonotonic
<1>3. /\ all \in Seq(1 .. seq + 1) /\ Len(all) = L + 1 /\ all # <<>>
      /\ \A i \in 1 .. L : all[i] = buffer[i]
      /\ all[L + 1] = seq + 1
  <2>1. seq + 1 \in 1 .. seq + 1
    BY <1>1
  <2> QED BY <1>2, <2>1, AppendProperties
<1>4. \A i \in 1 .. L : buffer[i] = seq - L + i
  BY DEF BufferInv
<1>5. b = IF L + 1 > BufferSize THEN Tail(all) ELSE all
  BY <1>3 DEF Appended
<1> HIDE DEF all, L
<1>6. \A i \in 1 .. L + 1 : all[i] = seq - L + i
  BY <1>1, <1>3, <1>4
<1>7. CASE L + 1 > BufferSize
  <2>1. /\ Tail(all) \in Seq(1 .. seq + 1) /\ Len(Tail(all)) = L
        /\ \A i \in 1 .. L : Tail(all)[i] = all[i + 1]
    BY <1>1, <1>3, HeadTailProperties
  <2>2. b = Tail(all) /\ Len(b) = L /\ L >= 1
    BY <1>1, <1>5, <1>7, <2>1
  <2>3. \A i \in 1 .. L : b[i] = seq + 1 - L + i
    <3> SUFFICES ASSUME NEW i \in 1 .. L
                 PROVE  b[i] = seq + 1 - L + i
      OBVIOUS
    <3>1. b[i] = all[i + 1]
      BY <2>1, <2>2
    <3>2. i + 1 \in 1 .. L + 1 /\ seq - L + (i + 1) = seq + 1 - L + i
      BY <1>1
    <3> QED BY <1>6, <3>1, <3>2
  <2>4. b # <<>>
    BY <2>2, EmptySeq
  <2>5. buffer[1] <= b[1]
    BY <1>1, <1>4, <2>2, <2>3
  <2> QED BY <1>1, <2>1, <2>2, <2>3, <2>4, <2>5
<1>8. CASE ~ (L + 1 > BufferSize)
  <2>1. b = all /\ Len(b) = L + 1
    BY <1>3, <1>5, <1>8
  <2>2. \A i \in 1 .. L + 1 : b[i] = seq + 1 - (L + 1) + i
    BY <1>1, <1>6, <2>1
  <2>3. buffer # <<>> => buffer[1] <= b[1]
    BY <1>1, <1>3, <1>4, <2>1
  <2>4. Len(b) <= BufferSize
    BY <1>1, <1>8, <2>1
  <2> QED BY <1>3, <2>1, <2>2, <2>3, <2>4
<1> QED BY <1>7, <1>8

(* What is replayed after a resumable event are the events since. *)
LEMMA ReplayedFacts ==
  ASSUME TypeOK, BufferInv, NEW v \in 1 .. seq, NoLossSince(v)
  PROVE  /\ Len(Replayed(v)) = seq - v
         /\ \A i \in 1 .. seq - v : Replayed(v)[i] = v + i
<1> DEFINE L == Len(buffer)
           c == v - seq + L
           read == {i \in DOMAIN buffer : buffer[i] <= v}
<1>1. seq \in Nat /\ L \in Nat /\ buffer \in Seq(1 .. seq) /\ (buffer = <<>> <=> L = 0)
  BY SeqFacts
<1>2. buffer # <<>> /\ L >= 1 /\ v \in Nat
  BY <1>1 DEF BufferInv
<1>3. \A i \in 1 .. L : buffer[i] = seq - L + i
  BY DEF BufferInv
<1>4. c \in 0 .. L
  BY <1>1, <1>2, <1>3 DEF NoLossSince
<1>5. read = 1 .. c
  <2>1. DOMAIN buffer = 1 .. L
    BY <1>1
  <2> QED BY <1>1, <1>2, <1>3, <1>4, <2>1
<1>6. Cardinality(read) = c
  <2>1. c \in Nat
    BY <1>1, <1>4
  <2> HIDE DEF c, read
  <2>2. Cardinality(1 .. c) = IF 1 > c THEN 0 ELSE c - 1 + 1
    BY <2>1, FS_Interval
  <2> QED BY <1>5, <2>1, <2>2
<1>7. Replayed(v) = SubSeq(buffer, c + 1, L)
  BY <1>6 DEF Replayed
<1>8. c \in Int /\ L \in Int
  BY <1>1, <1>4
<1>9. seq - v = L - c
  BY <1>1, <1>2
<1> HIDE DEF L, c, read
<1>10. /\ Len(SubSeq(buffer, c + 1, L)) = IF c + 1 <= L THEN L - (c + 1) + 1 ELSE 0
       /\ \A i \in 1 .. L - (c + 1) + 1 : SubSeq(buffer, c + 1, L)[i] = buffer[c + 1 + i - 1]
  <2>1. \A i \in c + 1 .. L : buffer[i] \in Int
    BY <1>1, <1>3, <1>4
  <2> QED BY <1>8, <2>1, SubSeqProperties
<1>11. Len(Replayed(v)) = L - c
  BY <1>1, <1>4, <1>7, <1>10
<1>12. \A i \in 1 .. L - c : Replayed(v)[i] = seq - L + (c + i)
  BY <1>1, <1>3, <1>4, <1>7, <1>10
<1>13. \A i \in 1 .. L - c : seq - L + (c + i) = v + i
  BY <1>1, <1>4, <1>9, <1>2
<1> QED BY <1>9, <1>11, <1>12, <1>13

(* A consumer connects: it resumes, is told of a gap, or starts afresh. *)
LEMMA ConnectKeeps ==
  ASSUME TypeOK, BufferInv, NEW k \in Client, NEW s \in Subscriber, NEW n \in Int,
         ConsumerInv(k, s, n), ~ k.up,
         NEW l \in Client, NEW t \in Subscriber,
         l.up = TRUE, l.last = k.last, l.wire = k.wire,
         t.pc = "top", t.overflow = FALSE, t.queue = <<>>,
         t.first = FirstFrames(k.last[1], k.last[2])
  PROVE  ConsumerInv(l, t, n)
<1>1. /\ l.wire = <<>> /\ Len(<<>>) = 0 /\ seq \in Nat /\ 0 \in 0 .. Len(t.queue)
      /\ k.last[2] \in Nat
  BY SeqFacts, FieldFacts DEF ConsumerInv
<1>2. Retained(l) <=> Retained(k)
  BY DEF Retained
<1>3. /\ k.last[1] <= epoch /\ (k.last[1] = epoch => k.last[2] <= seq) /\ n <= seq
      /\ (k.last[2] # 0 /\ Retained(k) => n = k.last[2])
  BY DEF ConsumerInv
<1>4. SUFFICES ASSUME NEW m \in -1 .. seq, NEW f, f = t.first,
                      Chained(<<>>, f, <<>>, m, 0), EndOf(<<>>, f, <<>>, m, 0) = seq,
                      GapPending(<<>>, f) => k.last[2] # 0 /\ n <= m + 1 /\ ~ Retained(k),
                      ~ GapPending(<<>>, f) => m >= 0 /\ (k.last[2] # 0 => n = m)
               PROVE  ConsumerInv(l, t, n)
  <2>1. CASE k.last[2] = 0
    <3>1. t.first = <<>>
      BY <2>1 DEF FirstFrames
    <3>2. /\ Chained(<<>>, <<>>, <<>>, seq, 0) /\ EndOf(<<>>, <<>>, <<>>, seq, 0) = seq
          /\ ~ GapPending(<<>>, <<>>)
      BY <1>1 DEF Chained, EndOf, GapPending
    <3>3. seq \in -1 .. seq /\ seq >= 0
      BY <1>1
    <3> QED BY <1>4, <2>1, <3>1, <3>2, <3>3
  <2>2. CASE k.last[2] # 0 /\ ~ Retained(k)
    <3>1. t.first = <<GapFrame>>
      BY <2>2 DEF FirstFrames, Resumable, Retained
    <3>2. GapFrame.kind = "gap" /\ GapFrame.seq = seq
      BY DEF GapFrame
    <3>3. Len(<<GapFrame>>) = 1 /\ <<GapFrame>>[1] = GapFrame /\ <<GapFrame>> # <<>>
      OBVIOUS
    <3>4. Chained(<<>>, <<GapFrame>>, <<>>, seq - 1, 0)
      BY <1>1, <3>2, <3>3 DEF Chained
    <3>5. EndOf(<<>>, <<GapFrame>>, <<>>, seq - 1, 0) = seq
      BY <1>1, <3>3 DEF EndOf
    <3>6. GapPending(<<>>, <<GapFrame>>)
      BY <3>2, <3>3 DEF GapPending
    <3>7. seq - 1 \in -1 .. seq /\ n <= seq - 1 + 1
      BY <1>1, <1>3
    <3> QED BY <1>4, <2>2, <3>1, <3>4, <3>5, <3>6, <3>7
  <2>3. CASE k.last[2] # 0 /\ Retained(k)
    <3> DEFINE v == k.last[2]
               f == [i \in 1 .. Len(Replayed(v)) |-> EventFrame(Replayed(v)[i])]
    <3>1. v \in 1 .. seq /\ NoLossSince(v) /\ n = v
      BY <1>1, <1>3, <2>3 DEF Retained
    <3>2. t.first = f
      BY <2>3 DEF FirstFrames, Resumable, Retained
    <3>3. Len(Replayed(v)) = seq - v /\ \A i \in 1 .. seq - v : Replayed(v)[i] = v + i
      BY <3>1, ReplayedFacts
    <3>4. seq - v \in Nat
      BY <1>1, <3>1
    <3>5. f = [i \in 1 .. seq - v |-> EventFrame(Replayed(v)[i])]
      BY <3>3
    <3> HIDE DEF f
    <3>6. Len(f) = seq - v /\ \A i \in 1 .. seq - v : f[i] = EventFrame(v + i)
      BY <3>3, <3>4, <3>5
    <3>7. ASSUME NEW i \in 1 .. Len(f)
          PROVE  f[i].kind = "event" /\ f[i].seq = v + i
      <4>1. v + i \in Nat
        BY <1>1, <3>1, <3>6
      <4> QED BY <3>6, <4>1, FrameFacts
    <3>8. Chained(<<>>, f, <<>>, v, 0)
      <4>1. v + Len(<<>>) = v
        BY <1>1
      <4>2. \A i \in 1 .. Len(f) : f[i].kind # "close" /\ f[i].seq = v + Len(<<>>) + i
        BY <3>7, <4>1
      <4>3. \A i \in 1 .. Len(f) : f[i].kind # "gap"
        BY <3>7
      <4> QED BY <1>1, <4>2, <4>3 DEF Chained
    <3>9. EndOf(<<>>, f, <<>>, v, 0) = seq
      BY <1>1, <3>1, <3>6 DEF EndOf
    <3>10. ~ GapPending(<<>>, f)
      <4>1. f # <<>> => 1 \in 1 .. Len(f)
        <5>1. f = <<>> \/ seq - v # 0
          BY <3>4, <3>5
        <5> QED BY <3>4, <3>6, <5>1
      <4> QED BY <3>7, <4>1 DEF GapPending
    <3>11. v \in -1 .. seq /\ v >= 0
      BY <1>1, <3>1
    <3> QED BY <1>4, <3>1, <3>2, <3>8, <3>9, <3>10, <3>11
  <2> QED BY <2>1, <2>2, <2>3
<1>5. Flow(l, t, n, m, 0)
  BY <1>1, <1>4 DEF Flow
<1> QED BY <1>1, <1>2, <1>3, <1>4, <1>5 DEF ConsumerInv

-----------------------------------------------------------------------------
(* What the steps of one consumer do to the two ends of its connection *)

OthersKept(c) ==
    \A d \in Consumers \ {c} : /\ client'[d] = client[d] /\ sub'[d] = sub[d]
                               /\ known'[d] = known[d]
Ends == client \in [Consumers -> Client] /\ sub \in [Consumers -> Subscriber]

LEMMA QueueFacts ==
  ASSUME NEW w \in Seq(Frame), NEW f \in Seq(Frame), f # <<>>
  PROVE  Append(w, Head(f)) \in Seq(Frame) /\ Tail(f) \in Seq(Frame)
  BY HeadTailProperties, AppendProperties

LEMMA ConnectDoes ==
  ASSUME TypeOK, BufferInv, NEW c \in Consumers, Connect(c),
         FirstFrames(client[c].last[1], client[c].last[2]) \in Seq(Frame)
  PROVE  /\ Ends' /\ OthersKept(c)
         /\ ~ client[c].up
         /\ client'[c].up = TRUE /\ client'[c].last = client[c].last
         /\ client'[c].wire = client[c].wire
         /\ sub'[c].pc = "top" /\ sub'[c].overflow = FALSE /\ sub'[c].queue = <<>>
         /\ sub'[c].first = FirstFrames(client[c].last[1], client[c].last[2])
<1> DEFINE F == FirstFrames(client[c].last[1], client[c].last[2])
<1>1. F \in Seq(Frame)
  OBVIOUS
<1> HIDE DEF F
<1>2. sub' = [sub EXCEPT ![c] = [Gone EXCEPT !.pc = "top", !.first = F]]
  BY DEF Connect, F
<1> DEFINE T == [Gone EXCEPT !.pc = "top", !.first = F]
<1>3. T.pc = "top" /\ T.first = F /\ T.queue = <<>> /\ T.overflow = FALSE
  BY DEF Gone
<1>4. T \in Subscriber
  BY <1>1, EmptySeq DEF Subscriber, Gone
<1> HIDE DEF T
<1>5. Ends' /\ OthersKept(c)
  <2>1. sub' = [sub EXCEPT ![c] = T]
    BY <1>2 DEF T
  <2>2. sub' \in [Consumers -> Subscriber] /\ \A d \in Consumers \ {c} : sub'[d] = sub[d]
    BY <1>4, <2>1 DEF TypeOK
  <2>3. /\ client' \in [Consumers -> Client]
        /\ \A d \in Consumers \ {c} : client'[d] = client[d]
    BY DEF Connect, TypeOK, Client
  <2>4. known' = known
    BY DEF Connect, informed
  <2> QED BY <2>2, <2>3, <2>4 DEF Ends, OthersKept
<1>6. sub'[c] = T
  BY <1>2 DEF TypeOK, T
<1>7. client'[c] = [client[c] EXCEPT !.up = TRUE] /\ ~ client[c].up
  BY DEF Connect, TypeOK
<1> QED BY <1>3, <1>5, <1>6, <1>7 DEF F, TypeOK, Client

(* The records a step of a connection writes.                               *)
LEMMA Rewritten ==
  /\ \A k \in Client, w \in Seq(Frame) :
        /\ [k EXCEPT !.wire = w] \in Client
        /\ \A d \in Nat : [k EXCEPT !.up = FALSE, !.wire = w, !.drops = d] \in Client
        /\ \A l \in Nat \X Nat : [k EXCEPT !.wire = w, !.last = l] \in Client
  /\ \A s \in Subscriber, q \in Seq(Frame) :
        [s EXCEPT !.queue = q, !.pc = "top"] \in Subscriber
<1>1. ASSUME NEW k \in Client, NEW w \in Seq(Frame)
      PROVE  [k EXCEPT !.wire = w] \in Client
  BY DEF Client
<1>2. ASSUME NEW k \in Client, NEW w \in Seq(Frame), NEW d \in Nat
      PROVE  [k EXCEPT !.up = FALSE, !.wire = w, !.drops = d] \in Client
  BY DEF Client
<1>3. ASSUME NEW k \in Client, NEW w \in Seq(Frame), NEW l \in Nat \X Nat
      PROVE  [k EXCEPT !.wire = w, !.last = l] \in Client
  BY DEF Client
<1>4. ASSUME NEW s \in Subscriber, NEW q \in Seq(Frame)
      PROVE  [s EXCEPT !.queue = q, !.pc = "top"] \in Subscriber
  BY DEF Subscriber
<1> QED BY <1>1, <1>2, <1>3, <1>4

LEMMA SendDoes ==
  ASSUME TypeOK, NEW c \in Consumers, SendFirst(c)
  PROVE  /\ Ends' /\ OthersKept(c)
         /\ sub[c].first # <<>>
         /\ client'[c].up = client[c].up /\ client'[c].last = client[c].last
         /\ client'[c].wire = Append(client[c].wire, Head(sub[c].first))
         /\ sub'[c].pc = sub[c].pc /\ sub'[c].overflow = sub[c].overflow
         /\ sub'[c].queue = sub[c].queue /\ sub'[c].first = Tail(sub[c].first)
<1>1. /\ Append(client[c].wire, Head(sub[c].first)) \in Seq(Frame)
      /\ Tail(sub[c].first) \in Seq(Frame)
  BY QueueFacts, FieldFacts DEF SendFirst, TypeOK
<1> QED BY ZenonT(40), <1>1 DEF SendFirst, TypeOK, Ends, OthersKept, Client, Subscriber, informed

LEMMA TakeDoes ==
  ASSUME TypeOK, NEW c \in Consumers, Take(c), Head(sub[c].queue) # CloseFrame
  PROVE  /\ Ends' /\ OthersKept(c)
         /\ sub[c].first = <<>> /\ sub[c].queue # <<>>
         /\ client'[c].up = client[c].up /\ client'[c].last = client[c].last
         /\ client'[c].wire = Append(client[c].wire, Head(sub[c].queue))
         /\ sub'[c].pc = "top" /\ sub'[c].overflow = sub[c].overflow
         /\ sub'[c].queue = Tail(sub[c].queue) /\ sub'[c].first = <<>>
<1>1. /\ Append(client[c].wire, Head(sub[c].queue)) \in Seq(Frame)
      /\ Tail(sub[c].queue) \in Seq(Frame)
  BY QueueFacts, FieldFacts DEF Take, TypeOK
<1>2. /\ sub[c].first = <<>> /\ sub[c].queue # <<>>
      /\ client' = [client EXCEPT ![c].wire = Append(client[c].wire, Head(sub[c].queue))]
      /\ sub' = [sub EXCEPT ![c].queue = Tail(sub[c].queue), ![c].pc = "top"]
      /\ known' = known
  BY DEF Take, TypeOK, informed
<1>3. Ends'
  <2>1. client[c] \in Client /\ sub[c] \in Subscriber
    BY DEF TypeOK
  <2>2. /\ [client[c] EXCEPT !.wire = Append(client[c].wire, Head(sub[c].queue))] \in Client
        /\ [sub[c] EXCEPT !.queue = Tail(sub[c].queue), !.pc = "top"] \in Subscriber
    BY <1>1, <2>1, Rewritten
  <2> QED BY <1>2, <2>2 DEF TypeOK, Ends
<1>4. OthersKept(c)
  BY <1>2 DEF TypeOK, OthersKept
<1>5. /\ client'[c].up = client[c].up /\ client'[c].last = client[c].last
      /\ client'[c].wire = Append(client[c].wire, Head(sub[c].queue))
  BY <1>2 DEF TypeOK, Client
<1>6. /\ sub'[c].pc = "top" /\ sub'[c].overflow = sub[c].overflow
      /\ sub'[c].queue = Tail(sub[c].queue) /\ sub'[c].first = <<>>
  BY <1>2 DEF TypeOK, Subscriber
<1> QED BY <1>2, <1>3, <1>4, <1>5, <1>6

LEMMA AwaitDoes ==
  ASSUME TypeOK, NEW c \in Consumers, Await(c)
  PROVE  /\ Ends' /\ OthersKept(c) /\ client' = client
         /\ sub[c].pc = "top" /\ sub'[c].pc = "get"
         /\ sub'[c].overflow = sub[c].overflow
         /\ sub'[c].queue = sub[c].queue /\ sub'[c].first = sub[c].first
  BY DEF Await, TypeOK, Ends, OthersKept, Client, Subscriber, informed

LEMMA LeaveDoes ==
  ASSUME TypeOK, NEW c \in Consumers,
         CutOff(c) \/ (Take(c) /\ Head(sub[c].queue) = CloseFrame)
  PROVE  /\ Ends' /\ OthersKept(c) /\ client' = client
         /\ sub[c].first = <<>> /\ sub'[c] = Gone
  BY FieldFacts DEF CutOff, Take, TypeOK, Ends, OthersKept, informed

LEMMA OverDoes ==
  ASSUME TypeOK, NEW c \in Consumers, Drop(c) \/ EndOfStream(c),
         sub[c].pc = "gone" => sub[c].first = <<>> /\ sub[c].queue = <<>>
  PROVE  /\ Ends' /\ OthersKept(c)
         /\ client'[c].up = FALSE /\ client'[c].wire = <<>>
         /\ client'[c].last = client[c].last
         /\ sub'[c].pc = "gone" /\ sub'[c].first = <<>> /\ sub'[c].queue = <<>>
<1>1. CASE Drop(c)
  <2>1. /\ client' = [client EXCEPT ![c].up = FALSE, ![c].wire = <<>>, ![c].drops = @ + 1]
        /\ sub' = [sub EXCEPT ![c] = Gone] /\ known' = known
    BY <1>1 DEF Drop, informed
  <2>2. client' \in [Consumers -> Client]
    <3> DEFINE d == client[c].drops + 1
    <3>1. client[c] \in Client
      BY DEF TypeOK
    <3>2. d \in Nat /\ <<>> \in Seq(Frame)
      BY <3>1, FieldFacts, EmptySeq
    <3>3. client' = [client EXCEPT ![c] =
                        [client[c] EXCEPT !.up = FALSE, !.wire = <<>>, !.drops = d]]
      BY <2>1
    <3> HIDE DEF d
    <3>4. [client[c] EXCEPT !.up = FALSE, !.wire = <<>>, !.drops = d] \in Client
      BY <3>1, <3>2, Rewritten
    <3> QED BY <3>3, <3>4 DEF TypeOK
  <2>3. sub' \in [Consumers -> Subscriber] /\ sub'[c] = Gone
    BY <2>1, FieldFacts DEF TypeOK
  <2>4. OthersKept(c)
    BY <2>1 DEF TypeOK, OthersKept
  <2>5. /\ client'[c].up = FALSE /\ client'[c].wire = <<>>
        /\ client'[c].last = client[c].last
    BY <2>1 DEF TypeOK, Client
  <2> QED BY <2>2, <2>3, <2>4, <2>5, FieldFacts DEF Ends
<1>2. CASE EndOfStream(c)
  BY ZenonT(40), <1>2, FieldFacts DEF EndOfStream, Subscribed, TypeOK, Ends, OthersKept, Client, informed
<1> QED BY <1>1, <1>2

LEMMA ReceiveDoes ==
  ASSUME TypeOK, NEW c \in Consumers, Receive(c)
  PROVE  /\ Ends' /\ OthersKept(c) /\ sub' = sub
         /\ client[c].wire # <<>> /\ Head(client[c].wire) \in Frame
         /\ client'[c].up = client[c].up /\ client'[c].wire = Tail(client[c].wire)
         /\ client'[c].last = IF Head(client[c].wire).kind = "event"
                              THEN <<epoch, Head(client[c].wire).seq>>
                              ELSE client[c].last
         /\ known' = [known EXCEPT ![c] = base + Head(client[c].wire).seq]
<1> DEFINE g == Head(client[c].wire)
           L == IF g.kind = "event" THEN <<epoch, g.seq>> ELSE client[c].last
<1>1. client[c] \in Client /\ client[c].wire \in Seq(Frame) /\ client[c].wire # <<>>
  BY FieldFacts DEF Receive, TypeOK
<1>2. g \in Frame /\ Tail(client[c].wire) \in Seq(Frame)
  BY <1>1, HeadTailProperties
<1>3. L \in Nat \X Nat
  <2>1. g.seq \in Nat /\ epoch \in Nat /\ client[c].last \in Nat \X Nat
    BY <1>1, <1>2, SeqFacts, FrameFacts, FieldFacts
  <2> QED BY <2>1
<1> HIDE DEF L
<1>4. client' = [client EXCEPT ![c].wire = Tail(client[c].wire), ![c].last = L]
  BY DEF Receive, L, TypeOK
<1>5. Ends' /\ OthersKept(c) /\ sub' = sub
  <2>1. client' \in [Consumers -> Client]
    <3>1. client[c] \in Client
      BY DEF TypeOK
    <3>2. [client[c] EXCEPT !.wire = Tail(client[c].wire), !.last = L] \in Client
      BY <1>2, <1>3, <3>1, Rewritten
    <3> QED BY <1>4, <3>2 DEF TypeOK
  <2>2. sub' = sub /\ sub \in [Consumers -> Subscriber]
    BY DEF Receive, TypeOK
  <2>3. \A d \in Consumers \ {c} : client'[d] = client[d] /\ known'[d] = known[d]
    BY <1>4 DEF Receive, TypeOK
  <2> QED BY <2>1, <2>2, <2>3 DEF Ends, OthersKept
<1>6. /\ client'[c].up = client[c].up /\ client'[c].wire = Tail(client[c].wire)
      /\ client'[c].last = L
  BY <1>4 DEF TypeOK, Client
<1>7. known' = [known EXCEPT ![c] = base + g.seq]
  BY DEF Receive
<1> QED BY <1>1, <1>2, <1>5, <1>6, <1>7 DEF L

-----------------------------------------------------------------------------
(* Every step keeps the invariant *)

(* FirstFrames are frames: needed before the connection's type is known.    *)
LEMMA FirstFramesTyped ==
  ASSUME TypeOK, BufferInv, NEW c \in Consumers,
         client[c].last[1] = epoch => client[c].last[2] <= seq
  PROVE  FirstFrames(client[c].last[1], client[c].last[2]) \in Seq(Frame)
<1> DEFINE v == client[c].last[2]
           e == client[c].last[1]
<1>1. v \in Nat /\ seq \in Nat
  BY SeqFacts, FieldFacts DEF TypeOK
<1>2. CASE v = 0
  BY <1>2, EmptySeq DEF FirstFrames
<1>3. CASE v # 0 /\ ~ Resumable(e, v)
  <2>1. GapFrame \in Frame
    BY <1>1 DEF GapFrame, Frame
  <2>2. FirstFrames(e, v) = <<GapFrame>>
    BY <1>3 DEF FirstFrames
  <2> QED BY <2>1, <2>2
<1>4. CASE v # 0 /\ Resumable(e, v)
  <2>1. v \in 1 .. seq /\ NoLossSince(v)
    BY <1>1, <1>4 DEF Resumable
  <2>2. Len(Replayed(v)) = seq - v /\ \A i \in 1 .. seq - v : Replayed(v)[i] = v + i
    BY <2>1, ReplayedFacts
  <2>3. FirstFrames(e, v) = [i \in 1 .. Len(Replayed(v)) |-> EventFrame(Replayed(v)[i])]
    BY <1>4 DEF FirstFrames
  <2>4. seq - v \in Nat
    BY <1>1, <2>1
  <2>5. \A i \in 1 .. seq - v : EventFrame(Replayed(v)[i]) \in Frame
    BY <1>1, <2>2, FrameFacts
  <2>6. FirstFrames(e, v) = [i \in 1 .. seq - v |-> EventFrame(Replayed(v)[i])]
    BY <2>2, <2>3
  <2> HIDE DEF v, e
  <2>7. [i \in 1 .. seq - v |-> EventFrame(Replayed(v)[i])] \in Seq(Frame)
    BY <2>4, <2>5, IsASeq
  <2> QED BY <2>6, <2>7 DEF v, e
<1> QED BY <1>2, <1>3, <1>4

(* A step that leaves the hub alone, for one consumer. *)
LEMMA OneConsumer ==
  ASSUME IInv, NEW c \in Consumers, UNCHANGED <<hub, counts>>, Ends', OthersKept(c),
         known' \in [Consumers -> Nat], gaps' \in [Consumers -> Nat],
         ConsumerInv(client'[c], sub'[c], known'[c] - base)
  PROVE  IInv'
<1>1. TypeOK'
  BY DEF IInv, TypeOK, Ends, hub, counts
<1>2. BufferInv'
  BY DEF IInv, BufferInv, hub
<1>3. ASSUME NEW d \in Consumers
      PROVE  ConsumerInv(client[d], sub[d], known[d] - base)'
  <2>1. ConsumerInv(client'[d], sub'[d], known'[d] - base)
    BY DEF IInv, OthersKept
  <2> QED BY <2>1 DEF ConsumerInv, Flow, Retained, NoLossSince, hub, counts
<1> QED BY <1>1, <1>2, <1>3 DEF IInv

LEMMA ConsumerTypes ==
  ASSUME IInv, NEW c \in Consumers
  PROVE  /\ client[c] \in Client /\ sub[c] \in Subscriber
         /\ known[c] \in Nat /\ known[c] - base \in Int /\ gaps[c] \in Nat
         /\ seq \in Nat /\ epoch \in Nat /\ base \in Nat
         /\ ConsumerInv(client[c], sub[c], known[c] - base)
         /\ known \in [Consumers -> Nat] /\ gaps \in [Consumers -> Nat]
         /\ TypeOK /\ BufferInv
<1>1. TypeOK
  BY DEF IInv
<1> QED BY <1>1, SeqFacts DEF IInv, TypeOK

LEMMA ConnectionSteps ==
  ASSUME IInv, NEW c \in Consumers,
         Connect(c) \/ Stream(c) \/ Drop(c) \/ EndOfStream(c)
  PROVE  IInv'
<1> DEFINE n == known[c] - base
<1>1. /\ client[c] \in Client /\ sub[c] \in Subscriber /\ n \in Int /\ seq \in Nat
      /\ ConsumerInv(client[c], sub[c], n) /\ TypeOK /\ BufferInv
      /\ known \in [Consumers -> Nat] /\ gaps \in [Consumers -> Nat]
  BY ConsumerTypes
<1>2. UNCHANGED <<hub, counts, informed>>
  BY DEF Connect, Stream, SendFirst, CutOff, Await, Take, Drop, EndOfStream
<1>3. SUFFICES /\ Ends' /\ OthersKept(c)
               /\ ConsumerInv(client'[c], sub'[c], n)
  <2>1. known' = known /\ gaps' = gaps
    BY <1>2 DEF informed
  <2> QED BY <1>1, <1>2, <2>1, OneConsumer
<1> HIDE DEF n
<1>4. CASE Connect(c)
  <2>1. client[c].last[1] = epoch => client[c].last[2] <= seq
    BY <1>1 DEF ConsumerInv
  <2>2. FirstFrames(client[c].last[1], client[c].last[2]) \in Seq(Frame)
    BY <1>1, <2>1, FirstFramesTyped
  <2>3. /\ Ends' /\ OthersKept(c) /\ ~ client[c].up
        /\ client'[c].up = TRUE /\ client'[c].last = client[c].last
        /\ client'[c].wire = client[c].wire
        /\ sub'[c].pc = "top" /\ sub'[c].overflow = FALSE /\ sub'[c].queue = <<>>
        /\ sub'[c].first = FirstFrames(client[c].last[1], client[c].last[2])
    BY <1>1, <1>4, <2>2, ConnectDoes
  <2>4. client'[c] \in Client /\ sub'[c] \in Subscriber
    BY <2>3 DEF Ends
  <2> QED BY <1>1, <2>3, <2>4, ConnectKeeps
<1>5. CASE SendFirst(c)
  <2>1. /\ Ends' /\ OthersKept(c) /\ sub[c].first # <<>>
        /\ client'[c].up = client[c].up /\ client'[c].last = client[c].last
        /\ client'[c].wire = Append(client[c].wire, Head(sub[c].first))
        /\ sub'[c].pc = sub[c].pc /\ sub'[c].overflow = sub[c].overflow
        /\ sub'[c].queue = sub[c].queue /\ sub'[c].first = Tail(sub[c].first)
    BY <1>1, <1>5, SendDoes
  <2>2. client'[c] \in Client /\ sub'[c] \in Subscriber
    BY <2>1 DEF Ends
  <2> QED BY <1>1, <2>1, <2>2, SendKeeps
<1>6. CASE CutOff(c) \/ (Take(c) /\ Head(sub[c].queue) = CloseFrame)
  <2>1. /\ Ends' /\ OthersKept(c) /\ client' = client
        /\ sub[c].first = <<>> /\ sub'[c] = Gone
    BY <1>1, <1>6, LeaveDoes
  <2> QED BY <1>1, <2>1, LeaveKeeps
<1>7. CASE Await(c)
  <2>1. /\ Ends' /\ OthersKept(c) /\ client' = client
        /\ sub[c].pc = "top" /\ sub'[c].pc = "get"
        /\ sub'[c].overflow = sub[c].overflow
        /\ sub'[c].queue = sub[c].queue /\ sub'[c].first = sub[c].first
    BY <1>1, <1>7, AwaitDoes
  <2>2. sub'[c] \in Subscriber
    BY <2>1 DEF Ends
  <2> QED BY <1>1, <2>1, <2>2, AwaitKeeps
<1>8. CASE Take(c) /\ Head(sub[c].queue) # CloseFrame
  <2>1. /\ Ends' /\ OthersKept(c)
        /\ sub[c].first = <<>> /\ sub[c].queue # <<>>
        /\ client'[c].up = client[c].up /\ client'[c].last = client[c].last
        /\ client'[c].wire = Append(client[c].wire, Head(sub[c].queue))
        /\ sub'[c].pc = "top" /\ sub'[c].overflow = sub[c].overflow
        /\ sub'[c].queue = Tail(sub[c].queue) /\ sub'[c].first = <<>>
    BY <1>1, <1>8, TakeDoes
  <2>2. client'[c] \in Client /\ sub'[c] \in Subscriber
    BY <2>1 DEF Ends
  <2> QED BY <1>1, <1>8, <2>1, <2>2, TakeKeeps
<1>9. CASE Drop(c) \/ EndOfStream(c)
  <2>1. sub[c].pc = "gone" => sub[c].first = <<>> /\ sub[c].queue = <<>>
    BY <1>1 DEF ConsumerInv
  <2>2. /\ Ends' /\ OthersKept(c)
        /\ client'[c].up = FALSE /\ client'[c].wire = <<>>
        /\ client'[c].last = client[c].last
        /\ sub'[c].pc = "gone" /\ sub'[c].first = <<>> /\ sub'[c].queue = <<>>
    BY <1>1, <1>9, <2>1, OverDoes
  <2>3. client'[c] \in Client /\ sub'[c] \in Subscriber
    BY <2>2 DEF Ends
  <2> QED BY <1>1, <2>2, <2>3, OverKeeps
<1> QED BY <1>4, <1>5, <1>6, <1>7, <1>8, <1>9 DEF Stream

LEMMA ReceiveStep ==
  ASSUME IInv, NEW c \in Consumers, Receive(c)
  PROVE  IInv'
<1> DEFINE n == known[c] - base
           g == Head(client[c].wire)
<1>1. /\ client[c] \in Client /\ sub[c] \in Subscriber /\ n \in Int
      /\ seq \in Nat /\ epoch \in Nat /\ base \in Nat
      /\ ConsumerInv(client[c], sub[c], n) /\ TypeOK /\ BufferInv
      /\ known \in [Consumers -> Nat] /\ gaps \in [Consumers -> Nat] /\ gaps[c] \in Nat
  BY ConsumerTypes
<1>2. /\ Ends' /\ OthersKept(c) /\ sub' = sub
      /\ client[c].wire # <<>> /\ g \in Frame
      /\ client'[c].up = client[c].up /\ client'[c].wire = Tail(client[c].wire)
      /\ client'[c].last = IF g.kind = "event" THEN <<epoch, g.seq>> ELSE client[c].last
      /\ known' = [known EXCEPT ![c] = base + g.seq]
  BY <1>1, ReceiveDoes
<1>3. client'[c] \in Client
  BY <1>2 DEF Ends
<1>4. ConsumerInv(client'[c], sub[c], g.seq) /\ g.seq \in 0 .. seq
  BY <1>1, <1>2, <1>3, ReceiveKeeps
<1>5. known' \in [Consumers -> Nat] /\ known'[c] - base = g.seq
  <2> HIDE DEF g, n
  <2>1. g.seq \in Nat /\ base + g.seq \in Nat
    BY <1>1, <1>4
  <2>2. known'[c] = base + g.seq /\ known' \in [Consumers -> Nat]
    BY <1>1, <1>2, <2>1
  <2> QED BY <1>1, <2>1, <2>2
<1>6. UNCHANGED <<hub, counts>> /\ gaps' \in [Consumers -> Nat]
  BY <1>1 DEF Receive
<1>7. ConsumerInv(client'[c], sub'[c], known'[c] - base)
  BY <1>2, <1>4, <1>5
<1> QED BY <1>2, <1>5, <1>6, <1>7, OneConsumer

(* A fan-out, for one consumer: its position in the buffer only ages. *)
LEMMA RetainedAges ==
  ASSUME IInv, NEW c \in Consumers, Fanout, client[c].last[2] # 0, Retained(client[c])'
  PROVE  Retained(client[c])
<1>1. /\ client[c] \in Client /\ seq \in Nat /\ TypeOK /\ BufferInv
      /\ ConsumerInv(client[c], sub[c], known[c] - base)
  BY ConsumerTypes
<1>2. client' = client /\ epoch' = epoch /\ seq' = seq + 1 /\ buffer' = Appended(buffer, seq + 1)
  BY DEF Fanout
<1>3. client[c].last[1] = epoch /\ client[c].last[2] \in Nat
  BY <1>1, <1>2, FieldFacts DEF Retained
<1>4. client[c].last[2] <= seq /\ buffer # <<>>
  BY <1>1, <1>3 DEF ConsumerInv, BufferInv
<1>5. buffer' # <<>> /\ buffer[1] <= buffer'[1] /\ buffer[1] \in Int /\ buffer'[1] \in Int
  <2>1. buffer' \in Seq(1 .. seq + 1) /\ buffer' # <<>> /\ buffer[1] <= buffer'[1]
    BY <1>1, <1>2, <1>4, AppendedFacts
  <2>2. buffer \in Seq(1 .. seq)
    BY <1>1, SeqFacts
  <2>3. 1 \in 1 .. Len(buffer) /\ 1 \in 1 .. Len(buffer')
    BY <1>4, <2>1, <2>2, EmptySeq
  <2>4. buffer[1] \in 1 .. seq /\ buffer'[1] \in 1 .. seq + 1
    BY <2>1, <2>2, <2>3, ElementOfSeq
  <2> QED BY <1>1, <2>1, <2>4
<1>6. client[c].last[2] + 1 >= buffer'[1]
  BY <1>2, <1>5 DEF Retained, NoLossSince
<1>7. client[c].last[2] + 1 >= buffer[1]
  BY <1>3, <1>5, <1>6
<1> QED BY <1>3, <1>4, <1>7 DEF Retained, NoLossSince

LEMMA OfferedFacts ==
  ASSUME NEW s \in Subscriber, NEW f \in Frame
  PROVE  /\ Offered(s, f) \in Subscriber
         /\ Offered(s, f).pc = s.pc /\ Offered(s, f).first = s.first
         /\ \/ /\ s.overflow = TRUE /\ Offered(s, f) = s
            \/ /\ s.overflow = FALSE /\ Offered(s, f).overflow = FALSE
               /\ Offered(s, f).queue = Append(s.queue, f)
            \/ /\ s.overflow = FALSE /\ Offered(s, f).overflow = TRUE
               /\ Offered(s, f).queue = s.queue
<1>1. s.overflow \in BOOLEAN /\ Append(s.queue, f) \in Seq(Frame)
  BY FieldFacts, AppendProperties
<1>2. CASE s.overflow = TRUE
  BY <1>2 DEF Offered
<1>3. CASE s.overflow = FALSE /\ Len(s.queue) < MaxQueue
  <2>1. Offered(s, f) = [s EXCEPT !.queue = Append(s.queue, f)]
    BY <1>3 DEF Offered
  <2> QED BY <1>1, <1>3, <2>1 DEF Subscriber
<1>4. CASE s.overflow = FALSE /\ ~ (Len(s.queue) < MaxQueue)
  <2>1. Offered(s, f) = [s EXCEPT !.overflow = TRUE]
    BY <1>4 DEF Offered
  <2> QED BY <1>4, <2>1 DEF Subscriber
<1> QED BY <1>1, <1>2, <1>3, <1>4

LEMMA FanoutStep ==
  ASSUME IInv, Fanout
  PROVE  IInv'
<1>1. TypeOK /\ BufferInv /\ seq \in Nat /\ base \in Nat
  BY SeqFacts DEF IInv
<1>2. /\ scheduled' = scheduled - 1 /\ seq' = seq + 1 /\ buffer' = Appended(buffer, seq + 1)
      /\ epoch' = epoch /\ closing' = closing /\ client' = client /\ scheduled > 0
      /\ published' = published /\ base' = base /\ restarts' = restarts
      /\ known' = known /\ gaps' = gaps
      /\ sub' = [c \in Consumers |->
            IF Subscribed(c) THEN Offered(sub[c], EventFrame(seq + 1)) ELSE sub[c]]
  BY DEF Fanout, counts, informed
<1>3. /\ buffer' \in Seq(1 .. seq + 1) /\ Len(buffer') <= BufferSize /\ buffer' # <<>>
      /\ \A i \in 1 .. Len(buffer') : buffer'[i] = seq + 1 - Len(buffer') + i
  BY <1>1, <1>2, AppendedFacts
<1>4. EventFrame(seq + 1) \in Frame
  BY <1>1, FrameFacts
<1>5. TypeOK'
  <2>1. sub' \in [Consumers -> Subscriber]
    BY <1>1, <1>2, <1>4, OfferedFacts DEF TypeOK
  <2>2. scheduled - 1 \in Nat
    BY <1>1, <1>2 DEF TypeOK
  <2> QED BY <1>1, <1>2, <1>3, <2>1, <2>2 DEF TypeOK
<1>6. BufferInv'
  <2>1. seq' = seq + 1
    BY <1>2
  <2>2. ASSUME NEW i \in 1 .. Len(buffer')
        PROVE  buffer'[i] = seq' - Len(buffer') + i
    <3>1. buffer'[i] = seq + 1 - Len(buffer') + i
      BY <1>3
    <3>2. Len(buffer') \in Nat /\ i \in Nat
      <4>1. buffer' \in Seq(1 .. seq + 1)
        BY <1>3
      <4> QED BY <4>1
    <3> QED BY <1>1, <2>1, <3>1, <3>2
  <2>3. buffer' # <<>>
    BY <1>3
  <2> QED BY <2>2, <2>3, Zenon DEF BufferInv
<1>7. ASSUME NEW c \in Consumers
      PROVE  ConsumerInv(client[c], sub[c], known[c] - base)'
  <2> DEFINE k == client[c]
             s == sub[c]
             t == sub'[c]
             n == known[c] - base
  <2>1. k \in Client /\ s \in Subscriber /\ n \in Int /\ ConsumerInv(k, s, n)
    BY ConsumerTypes
  <2>2. t \in Subscriber
    BY <1>5 DEF TypeOK
  <2>3. k.last[2] # 0 /\ Retained(k)' => Retained(k)
    BY RetainedAges
  <2>4. /\ t.pc = s.pc /\ t.first = s.first
        /\ \/ (s.pc = "gone" \/ s.overflow = TRUE) /\ t = s
           \/ /\ s.pc # "gone" /\ s.overflow = FALSE /\ t.overflow = FALSE
              /\ t.queue = Append(s.queue, EventFrame(seq + 1))
           \/ /\ s.pc # "gone" /\ s.overflow = FALSE /\ t.overflow = TRUE
              /\ t.queue = s.queue
    <3>1. CASE s.pc = "gone"
      BY <1>2, <3>1 DEF Subscribed
    <3>2. CASE s.pc # "gone"
      <4>1. t = Offered(s, EventFrame(seq + 1))
        BY <1>2, <3>2 DEF Subscribed
      <4>2. /\ t.pc = s.pc /\ t.first = s.first
            /\ \/ /\ s.overflow = TRUE /\ t = s
               \/ /\ s.overflow = FALSE /\ t.overflow = FALSE
                  /\ t.queue = Append(s.queue, EventFrame(seq + 1))
               \/ /\ s.overflow = FALSE /\ t.overflow = TRUE
                  /\ t.queue = s.queue
        <5>1. s \in Subscriber
          BY <2>1
        <5> HIDE DEF s, t
        <5> QED BY <1>4, <4>1, <5>1, OfferedFacts, Zenon
      <4> QED BY <3>2, <4>2, Zenon
    <3> QED BY <3>1, <3>2
  <2>5. PICK m \in -1 .. seq, p \in 0 .. Len(s.queue) : Flow(k, s, n, m, p)
    BY <2>1 DEF ConsumerInv
  <2>6. k.wire \in Seq(Frame) /\ s.first \in Seq(Frame) /\ s.queue \in Seq(Frame)
    BY <2>1, FieldFacts
  <2>7. m \in Int /\ m \in -1 .. seq + 1
    BY <1>1
  <2>8. EndOf(k.wire, s.first, s.queue, m, p) \in Int
    BY <2>6, <2>7, EndAfterStart
  <2> HIDE DEF k, s, t, n
  <2>9. /\ p \in 0 .. Len(t.queue)
        /\ Chained(k.wire, t.first, t.queue, m, p)
        /\ EndOf(k.wire, t.first, t.queue, m, p) <= seq + 1
        /\ t.pc # "gone" /\ ~ t.overflow => EndOf(k.wire, t.first, t.queue, m, p) = seq + 1
    <3>1. CASE (s.pc = "gone" \/ s.overflow = TRUE) /\ t = s
      BY <1>1, <2>5, <2>8, <3>1 DEF Flow
    <3>2. CASE /\ s.pc # "gone" /\ s.overflow = FALSE /\ t.overflow = FALSE
               /\ t.queue = Append(s.queue, EventFrame(seq + 1))
      <4>1. Chained(k.wire, s.first, s.queue, m, p) /\ EndOf(k.wire, s.first, s.queue, m, p) = seq
        BY <2>5, <3>2 DEF Flow
      <4>2. /\ Chained(k.wire, s.first, Append(s.queue, EventFrame(seq + 1)), m, p)
            /\ EndOf(k.wire, s.first, Append(s.queue, EventFrame(seq + 1)), m, p) = seq + 1
            /\ p \in 0 .. Len(Append(s.queue, EventFrame(seq + 1)))
        BY <1>1, <2>6, <2>7, <4>1, ChainedOffer
      <4> QED BY <1>1, <2>4, <3>2, <4>2
    <3>3. CASE /\ s.pc # "gone" /\ s.overflow = FALSE /\ t.overflow = TRUE
               /\ t.queue = s.queue
      BY <1>1, <2>4, <2>5, <2>8, <3>3 DEF Flow
    <3> QED BY <2>4, <3>1, <3>2, <3>3
  <2>10. /\ p # 0 => closing
         /\ GapPending(k.wire, t.first) => k.last[2] # 0 /\ n <= m + 1
         /\ ~ GapPending(k.wire, t.first) => m >= 0 /\ (k.up /\ k.last[2] # 0 => n = m)
    BY <2>4, <2>5 DEF Flow
  <2>11. /\ client'[c] = k /\ known'[c] - base' = n /\ seq' = seq + 1
         /\ closing' = closing /\ epoch' = epoch
    BY <1>2 DEF k, n
  <2>12. Flow(client[c], sub[c], known[c] - base, m, p)'
    BY <2>9, <2>10, <2>11 DEF Flow, t
  <2>13. /\ ~ k.up => k.wire = <<>> /\ t.pc = "gone"
         /\ t.pc = "gone" => t.first = <<>> /\ t.queue = <<>>
    BY <2>1, <2>4 DEF ConsumerInv
  <2>14. /\ k.last[1] <= epoch /\ n <= seq + 1
         /\ k.last[1] = epoch => k.last[2] <= seq + 1
    <3>1. k.last[2] \in Nat
      BY <2>1, FieldFacts
    <3> QED BY <1>1, <2>1, <3>1 DEF ConsumerInv
  <2>15. /\ k.last[2] # 0 /\ Retained(client[c])' => n = k.last[2]
         /\ GapPending(k.wire, t.first) => ~ Retained(client[c])'
    BY <2>1, <2>3, <2>4, <2>10 DEF ConsumerInv, k
  <2> QED BY <2>7, <2>9, <2>11, <2>12, <2>13, <2>14, <2>15 DEF ConsumerInv, t
<1> QED BY <1>5, <1>6, <1>7 DEF IInv

LEMMA CloseStep ==
  ASSUME IInv, Close
  PROVE  IInv'
<1>1. TypeOK /\ BufferInv /\ seq \in Nat /\ base \in Nat
  BY SeqFacts DEF IInv
<1>2. /\ scheduled' = scheduled /\ seq' = seq /\ buffer' = buffer /\ client' = client
      /\ epoch' = epoch /\ closing = FALSE /\ closing' = TRUE
      /\ published' = published /\ base' = base /\ restarts' = restarts
      /\ known' = known /\ gaps' = gaps
      /\ sub' = [c \in Consumers |->
            IF Subscribed(c) /\ Len(sub[c].queue) < MaxQueue
              THEN [sub[c] EXCEPT !.queue = Append(sub[c].queue, CloseFrame)] ELSE sub[c]]
  BY DEF Close, counts, informed, TypeOK
<1>3. ASSUME NEW s \in Subscriber
      PROVE  LET t == [s EXCEPT !.queue = Append(s.queue, CloseFrame)] IN
             /\ t \in Subscriber /\ t.queue = Append(s.queue, CloseFrame)
             /\ t.pc = s.pc /\ t.first = s.first /\ t.overflow = s.overflow
  <2>1. Append(s.queue, CloseFrame) \in Seq(Frame)
    BY FieldFacts, FrameFacts, AppendProperties
  <2> QED BY <2>1 DEF Subscriber
<1>4. TypeOK'
  <2>1. sub' \in [Consumers -> Subscriber]
    BY <1>1, <1>2, <1>3 DEF TypeOK
  <2> QED BY <1>1, <1>2, <2>1 DEF TypeOK
<1>5. BufferInv'
  BY <1>1, <1>2 DEF BufferInv
<1>6. ASSUME NEW c \in Consumers
      PROVE  ConsumerInv(client[c], sub[c], known[c] - base)'
  <2> DEFINE k == client[c]
             s == sub[c]
             t == sub'[c]
             n == known[c] - base
  <2>1. k \in Client /\ s \in Subscriber /\ n \in Int /\ ConsumerInv(k, s, n)
    BY ConsumerTypes
  <2>2. /\ t.pc = s.pc /\ t.first = s.first /\ t.overflow = s.overflow
        /\ \/ t.queue = s.queue
           \/ s.pc # "gone" /\ t.queue = Append(s.queue, CloseFrame)
    BY <1>2, <1>3, <2>1 DEF Subscribed
  <2>3. PICK m \in -1 .. seq, p \in 0 .. Len(s.queue) : Flow(k, s, n, m, p)
    BY <2>1 DEF ConsumerInv
  <2>4. k.wire \in Seq(Frame) /\ s.first \in Seq(Frame) /\ s.queue \in Seq(Frame)
    BY <2>1, FieldFacts
  <2>5. p = 0 /\ m \in Int
    BY <1>1, <1>2, <2>3 DEF Flow
  <2>6. Chained(k.wire, s.first, s.queue, m, 0)
    BY <2>3, <2>5 DEF Flow
  <2> HIDE DEF k, s, t, n
  <2>7. PICK r \in 0 .. Len(t.queue) :
          /\ Chained(k.wire, t.first, t.queue, m, r)
          /\ EndOf(k.wire, t.first, t.queue, m, r) = EndOf(k.wire, s.first, s.queue, m, p)
    <3>1. CASE t.queue = s.queue
      BY <2>2, <2>3, <2>5, <2>6, <3>1
    <3>2. CASE t.queue = Append(s.queue, CloseFrame)
      <4>1. /\ Chained(k.wire, s.first, Append(s.queue, CloseFrame), m, Len(s.queue) + 1)
            /\ EndOf(k.wire, s.first, Append(s.queue, CloseFrame), m, Len(s.queue) + 1)
                 = EndOf(k.wire, s.first, s.queue, m, 0)
            /\ Len(s.queue) + 1 \in 0 .. Len(Append(s.queue, CloseFrame))
        BY <2>4, <2>5, <2>6, ChainedClose
      <4> QED BY <2>2, <2>5, <3>2, <4>1
    <3> QED BY <2>2, <3>1, <3>2
  <2>8. Flow(client[c], sub[c], known[c] - base, m, r)'
    <3>1. /\ EndOf(k.wire, t.first, t.queue, m, r) <= seq
          /\ t.pc # "gone" /\ ~ t.overflow => EndOf(k.wire, t.first, t.queue, m, r) = seq
          /\ GapPending(k.wire, t.first) => k.last[2] # 0 /\ n <= m + 1
          /\ ~ GapPending(k.wire, t.first) => m >= 0 /\ (k.up /\ k.last[2] # 0 => n = m)
      BY <2>2, <2>3, <2>7 DEF Flow
    <3> QED BY <1>2, <2>7, <3>1 DEF Flow, k, t, n
  <2>9. Retained(client[c])' <=> Retained(k)
    BY <1>2 DEF Retained, NoLossSince, k
  <2>10. /\ ~ k.up => k.wire = <<>> /\ t.pc = "gone"
         /\ t.pc = "gone" => t.first = <<>> /\ t.queue = <<>>
         /\ k.last[1] <= epoch /\ n <= seq
         /\ k.last[1] = epoch => k.last[2] <= seq
         /\ k.last[2] # 0 /\ Retained(k) => n = k.last[2]
         /\ GapPending(k.wire, t.first) => ~ Retained(k)
    BY <2>1, <2>2 DEF ConsumerInv
  <2> QED BY <1>2, <2>7, <2>8, <2>9, <2>10 DEF ConsumerInv, k, t, n
<1> QED BY <1>4, <1>5, <1>6 DEF IInv

(* A new epoch: no connection is left, and no event can be resumed from. *)
LEMMA RestartStep ==
  ASSUME IInv, Restart
  PROVE  IInv'
<1>1. TypeOK /\ seq \in Nat /\ base \in Nat /\ epoch \in Nat /\ RestartMax \in Nat
  BY SeqFacts, BoundsAssumption DEF IInv, BoundsAssumption
<1>2. /\ sub' = [c \in Consumers |-> Gone]
      /\ client' = [c \in Consumers |-> [client[c] EXCEPT !.up = FALSE, !.wire = <<>>]]
  BY DEF Restart
<1>a. /\ epoch <= RestartMax /\ epoch' = epoch + 1 /\ seq' = 0 /\ base' = base + seq + 1
      /\ closing' = FALSE /\ scheduled' = 0 /\ published' = published
  BY DEF Restart
<1>b. /\ buffer' = <<>> /\ restarts' = restarts \cup {base + seq + 1}
      /\ known' = known /\ gaps' = gaps
  BY DEF Restart, informed
<1>3. ASSUME NEW k \in Client
      PROVE  LET l == [k EXCEPT !.up = FALSE, !.wire = <<>>] IN
             /\ l \in Client /\ l.up = FALSE /\ l.wire = <<>> /\ l.last = k.last
  <2>1. <<>> \in Seq(Frame)
    BY EmptySeq
  <2> QED BY <2>1 DEF Client
<1>4. TypeOK'
  <2>1. client' \in [Consumers -> Client]
    BY <1>1, <1>2, <1>3 DEF TypeOK
  <2>2. sub' \in [Consumers -> Subscriber]
    BY <1>2, FieldFacts
  <2>3. epoch + 1 \in 1 .. RestartMax + 1
    BY <1>1, <1>a, SeqFacts
  <2>4. restarts \cup {base + seq + 1} \subseteq 1 .. base + seq + 1
    BY <1>1 DEF TypeOK
  <2>5. <<>> \in Seq(1 .. 0) /\ Len(<<>>) <= BufferSize
    BY EmptySeq, SizesAssumption DEF SizesAssumption
  <2>6. /\ epoch' \in 1 .. RestartMax + 1 /\ seq' \in Nat /\ scheduled' \in Nat
        /\ closing' \in BOOLEAN /\ base' \in Nat
    <3>1. seq' \in Nat /\ scheduled' \in Nat /\ closing' \in BOOLEAN
      BY <1>a
    <3>2. base' \in Nat
      BY <1>1, <1>a
    <3>3. epoch' \in 1 .. RestartMax + 1
      BY <1>a, <2>3
    <3> QED BY <3>1, <3>2, <3>3
  <2>7. buffer' \in Seq(1 .. seq') /\ Len(buffer') <= BufferSize /\ restarts' \subseteq 1 .. base'
    BY <1>a, <1>b, <2>4, <2>5
  <2>8. /\ published' \in 0 .. EventMax
        /\ known' \in [Consumers -> Nat] /\ gaps' \in [Consumers -> Nat]
    BY <1>1, <1>a, <1>b DEF TypeOK
  <2> QED BY <2>1, <2>2, <2>6, <2>7, <2>8 DEF TypeOK
<1>5. BufferInv'
  <2>1. Len(buffer') = 0
    BY <1>b
  <2> QED BY <1>a, <2>1 DEF BufferInv
<1>6. ASSUME NEW c \in Consumers
      PROVE  ConsumerInv(client[c], sub[c], known[c] - base)'
  <2> DEFINE k == client[c]
             l == client'[c]
             n == known[c] - base
  <2>1. /\ k \in Client /\ n \in Int /\ known[c] \in Nat
        /\ k.last[1] <= epoch /\ n <= seq /\ k.last[1] \in Nat
    BY ConsumerTypes, FieldFacts DEF ConsumerInv
  <2>2. l.up = FALSE /\ l.wire = <<>> /\ l.last = k.last
    BY <1>2, <1>3, <2>1
  <2>3. sub'[c] = Gone /\ Gone.pc = "gone" /\ Gone.first = <<>> /\ Gone.queue = <<>>
    BY <1>2, FieldFacts
  <2>4. known'[c] - base' = n - seq - 1 /\ n - seq - 1 <= 0
    <3>1. known'[c] - base' = known[c] - (base + seq + 1)
      BY <1>a, <1>b
    <3> QED BY <1>1, <2>1, <3>1
  <2>5. l.last[1] < epoch'
    BY <1>1, <1>a, <2>1, <2>2
  <2> HIDE DEF k, l, n
  <2>6. /\ Chained(<<>>, <<>>, <<>>, 0, 0) /\ EndOf(<<>>, <<>>, <<>>, 0, 0) = 0
        /\ ~ GapPending(<<>>, <<>>) /\ Len(<<>>) = 0
    BY DEF Chained, EndOf, GapPending
  <2>7. Flow(client[c], sub[c], known[c] - base, 0, 0)'
    <3>1. /\ client'[c].wire = <<>> /\ client'[c].up = FALSE
          /\ sub'[c].first = <<>> /\ sub'[c].queue = <<>> /\ sub'[c].pc = "gone"
      BY <2>2, <2>3 DEF l
    <3> QED BY <1>a, <2>6, <3>1 DEF Flow
  <2>8. ~ Retained(client[c])' /\ l.last[1] # epoch' /\ l.last[1] <= epoch'
    <3>1. l.last[1] # epoch' /\ l.last[1] <= epoch'
      BY <1>1, <1>a, <2>1, <2>2, <2>5
    <3> QED BY <3>1 DEF Retained, l
  <2>9. 0 \in -1 .. seq' /\ 0 \in 0 .. Len(sub'[c].queue)
    BY <1>a, <2>3, <2>6
  <2>10. known'[c] - base' <= seq'
    BY <1>1, <1>a, <2>1, <2>4
  <2> QED BY <2>2, <2>3, <2>6, <2>7, <2>8, <2>9, <2>10 DEF ConsumerInv, l
<1> QED BY <1>4, <1>5, <1>6 DEF IInv

LEMMA PublishStep ==
  ASSUME IInv, Publish
  PROVE  IInv'
<1>1. /\ seq' = seq /\ buffer' = buffer /\ client' = client /\ sub' = sub
      /\ epoch' = epoch /\ closing' = closing /\ base' = base /\ restarts' = restarts
      /\ known' = known /\ gaps' = gaps /\ published < EventMax
      /\ published' = published + 1 /\ scheduled' = scheduled + 1
  BY DEF Publish, informed
<1>2. TypeOK'
  BY <1>1, BoundsAssumption DEF IInv, TypeOK, BoundsAssumption
<1>3. BufferInv'
  BY <1>1 DEF IInv, BufferInv
<1>4. \A c \in Consumers : ConsumerInv(client[c], sub[c], known[c] - base)'
  BY <1>1 DEF IInv, ConsumerInv, Flow, Retained, NoLossSince
<1> QED BY <1>2, <1>3, <1>4 DEF IInv

LEMMA StutterStep ==
  ASSUME IInv, UNCHANGED vars
  PROVE  IInv'
<1>1. /\ seq' = seq /\ buffer' = buffer /\ client' = client /\ sub' = sub
      /\ epoch' = epoch /\ closing' = closing /\ base' = base /\ restarts' = restarts
      /\ known' = known /\ gaps' = gaps /\ published' = published
      /\ scheduled' = scheduled
  BY DEF vars, hub, counts, informed
<1>2. TypeOK'
  BY <1>1 DEF IInv, TypeOK
<1>3. BufferInv'
  BY <1>1 DEF IInv, BufferInv
<1>4. \A c \in Consumers : ConsumerInv(client[c], sub[c], known[c] - base)'
  BY <1>1 DEF IInv, ConsumerInv, Flow, Retained, NoLossSince
<1> QED BY <1>2, <1>3, <1>4 DEF IInv

LEMMA InitHolds == Init => IInv
<1> SUFFICES ASSUME Init PROVE IInv
  OBVIOUS
<1>1. TypeOK
  <2>1. <<>> \in Seq(1 .. 0) /\ Len(<<>>) <= BufferSize
    BY EmptySeq, SizesAssumption DEF SizesAssumption
  <2>2. /\ epoch \in 1 .. RestartMax + 1 /\ seq \in Nat /\ scheduled \in Nat
        /\ closing \in BOOLEAN /\ base \in Nat /\ published \in 0 .. EventMax
    <3>1. /\ epoch = 1 /\ seq = 0 /\ scheduled = 0 /\ closing = FALSE
          /\ base = 0 /\ published = 0
      BY DEF Init
    <3>2. 1 \in 1 .. RestartMax + 1 /\ 0 \in 0 .. EventMax
      BY BoundsAssumption DEF BoundsAssumption
    <3> QED BY <3>1, <3>2
  <2>3. buffer \in Seq(1 .. seq) /\ Len(buffer) <= BufferSize /\ restarts \subseteq 1 .. base
    BY <2>1 DEF Init
  <2>4. sub \in [Consumers -> Subscriber] /\ client \in [Consumers -> Client]
    BY FieldFacts DEF Init
  <2>5. known \in [Consumers -> Nat] /\ gaps \in [Consumers -> Nat]
    BY DEF Init
  <2> QED BY <2>2, <2>3, <2>4, <2>5 DEF TypeOK
<1>2. BufferInv
  BY EmptySeq DEF Init, BufferInv
<1>3. ASSUME NEW c \in Consumers
      PROVE  ConsumerInv(client[c], sub[c], known[c] - base)
  <2>1. /\ client[c] = Offline /\ sub[c] = Gone /\ known[c] - base = 0
        /\ seq = 0 /\ epoch = 1
    BY <1>1 DEF Init
  <2>2. /\ Chained(<<>>, <<>>, <<>>, 0, 0) /\ EndOf(<<>>, <<>>, <<>>, 0, 0) = 0
        /\ ~ GapPending(<<>>, <<>>) /\ Len(<<>>) = 0
    BY DEF Chained, EndOf, GapPending
  <2>3. Offline.last[1] = 0 /\ Offline.last[2] = 0
    BY FieldFacts
  <2>4. Flow(Offline, Gone, 0, 0, 0)
    BY <2>1, <2>2, FieldFacts DEF Flow
  <2>5. 0 \in -1 .. seq /\ 0 \in 0 .. Len(Gone.queue)
    BY <2>1, <2>2, FieldFacts
  <2> QED BY <2>1, <2>2, <2>3, <2>4, <2>5, FieldFacts DEF ConsumerInv
<1> QED BY <1>1, <1>2, <1>3 DEF IInv

-----------------------------------------------------------------------------
(* Theorems *)

(* What is in flight to a consumer follows, event by event, what it is      *)
(* informed of, and its last event can be resumed from exactly as long as   *)
(* the buffer holds what came after (EventHub.stream, _fanout, _resume).    *)
THEOREM InvariantHolds == Spec => []IInv
<1>1. IInv /\ [Next]_vars => IInv'
  <2> SUFFICES ASSUME IInv, [Next]_vars PROVE IInv'
    OBVIOUS
  <2>1. CASE \E c \in Consumers : Connect(c) \/ Stream(c) \/ Drop(c) \/ EndOfStream(c)
    BY <2>1, ConnectionSteps
  <2>2. CASE \E c \in Consumers : Receive(c)
    BY <2>2, ReceiveStep
  <2>3. CASE Publish
    BY <2>3, PublishStep
  <2>4. CASE Fanout
    BY <2>4, FanoutStep
  <2>5. CASE Close
    BY <2>5, CloseStep
  <2>6. CASE Restart
    BY <2>6, RestartStep
  <2>7. CASE UNCHANGED vars
    BY <2>7, StutterStep
  <2> QED BY <2>1, <2>2, <2>3, <2>4, <2>5, <2>6, <2>7 DEF Next
<1> QED BY <1>1, InitHolds, PTL DEF Spec

(* Every variable keeps its type; the ring buffer never grows beyond its    *)
(* size (EventHub._fanout on a deque with maxlen).                          *)
THEOREM TypeCorrect == Spec => []TypeOK
<1>1. IInv => TypeOK
  BY DEF IInv
<1> QED BY <1>1, InvariantHolds, PTL

-----------------------------------------------------------------------------
(* No hole in flight *)

LEMMA InFlightFacts ==
  ASSUME NEW w \in Seq(Frame), NEW f \in Seq(Frame), NEW q \in Seq(Frame), NEW s,
         s = w \o f \o q
  PROVE  /\ s \in Seq(Frame) /\ Len(s) = Len(w) + Len(f) + Len(q)
         /\ \A i \in 1 .. Len(w) : s[i] = w[i]
         /\ \A i \in 1 .. Len(f) : s[Len(w) + i] = f[i]
         /\ \A i \in 1 .. Len(q) : s[Len(w) + Len(f) + i] = q[i]
<1> DEFINE wf == w \o f
<1>1. Len(w) \in Nat /\ Len(f) \in Nat /\ Len(q) \in Nat
  BY NoLength
<1>2. /\ wf \in Seq(Frame) /\ Len(wf) = Len(w) + Len(f)
      /\ \A i \in 1 .. Len(w) + Len(f) : wf[i] = IF i <= Len(w) THEN w[i] ELSE f[i - Len(w)]
  BY ConcatProperties
<1> HIDE DEF wf
<1>3. s = wf \o q
  BY DEF wf
<1>4. /\ s \in Seq(Frame) /\ Len(s) = Len(wf) + Len(q)
      /\ \A i \in 1 .. Len(wf) + Len(q) : s[i] = IF i <= Len(wf) THEN wf[i] ELSE q[i - Len(wf)]
  <2>1. /\ wf \o q \in Seq(Frame) /\ Len(wf \o q) = Len(wf) + Len(q)
        /\ \A i \in 1 .. Len(wf) + Len(q) :
              (wf \o q)[i] = IF i <= Len(wf) THEN wf[i] ELSE q[i - Len(wf)]
    BY <1>2, ConcatProperties
  <2> QED BY <1>3, <2>1
<1>5. \A i \in 1 .. Len(w) : s[i] = w[i]
  BY <1>1, <1>2, <1>4
<1>6. \A i \in 1 .. Len(f) : s[Len(w) + i] = f[i]
  BY <1>1, <1>2, <1>4
<1>7. \A i \in 1 .. Len(q) : s[Len(w) + Len(f) + i] = q[i]
  BY <1>1, <1>2, <1>4
<1> QED BY <1>1, <1>2, <1>4, <1>5, <1>6, <1>7

(* The chain of all three, as one queue s that ends with event e. *)
OneChain(s, m, r, e) ==
    /\ \A i \in 1 .. Len(s) :
          /\ s[i] = CloseFrame <=> i = r
          /\ s[i] # CloseFrame => s[i].seq = IF r # 0 /\ r < i THEN m + i - 1 ELSE m + i
    /\ e = IF r = 0 THEN m + Len(s) ELSE m + Len(s) - 1

LEMMA ChainIsOneQueue ==
  ASSUME NEW w \in Seq(Frame), NEW f \in Seq(Frame), NEW q \in Seq(Frame),
         NEW m \in Int, NEW p \in 0 .. Len(q), Chained(w, f, q, m, p)
  PROVE  \E r \in 0 .. Len(w \o f \o q) : OneChain(w \o f \o q, m, r, EndOf(w, f, q, m, p))
<1> DEFINE s == w \o f \o q
           a == Len(w)
           b == Len(f)
           r == IF p = 0 THEN 0 ELSE a + b + p
<1>1. a \in Nat /\ b \in Nat /\ Len(q) \in Nat
  BY NoLength
<1>2. /\ Len(s) = a + b + Len(q)
      /\ \A i \in 1 .. a : s[i] = w[i]
      /\ \A i \in 1 .. b : s[a + i] = f[i]
      /\ \A i \in 1 .. Len(q) : s[a + b + i] = q[i]
  BY InFlightFacts
<1>3. CloseFrame.kind = "close"
  BY FrameFacts
<1>4. \A i \in 1 .. a : w[i].kind # "close" /\ w[i].seq = m + i
  BY DEF Chained
<1>5. \A i \in 1 .. b : f[i].kind # "close" /\ f[i].seq = m + a + i
  BY DEF Chained
<1>6. \A i \in 1 .. Len(q) : Queued(q[i], i, m + a + b, p)
  BY DEF Chained
<1>7. EndOf(w, f, q, m, p) = IF p = 0 THEN m + a + b + Len(q) ELSE m + a + b + Len(q) - 1
  BY DEF EndOf
<1>8. r \in 0 .. Len(s) /\ (r = 0 <=> p = 0) /\ (p # 0 => r = a + b + p)
  BY <1>1, <1>2
<1> HIDE DEF a, b, r, s
<1>9. ASSUME NEW i \in 1 .. Len(s)
      PROVE  /\ s[i] = CloseFrame <=> i = r
             /\ s[i] # CloseFrame => s[i].seq = IF r # 0 /\ r < i THEN m + i - 1 ELSE m + i
  <2>1. CASE i \in 1 .. a
    <3>1. s[i] # CloseFrame /\ s[i].seq = m + i
      BY <1>2, <1>3, <1>4, <2>1
    <3>2. i # r /\ ~ (r # 0 /\ r < i)
      BY <1>1, <1>8, <2>1
    <3> QED BY <3>1, <3>2
  <2>2. CASE i - a \in 1 .. b
    <3>1. s[i] = f[i - a]
      BY <1>1, <1>2, <2>2
    <3>2. m + a + (i - a) = m + i
      BY <1>1
    <3>3. s[i] # CloseFrame /\ s[i].seq = m + i
      BY <1>3, <1>5, <2>2, <3>1, <3>2
    <3>4. i # r /\ ~ (r # 0 /\ r < i)
      BY <1>1, <1>8, <2>2
    <3> QED BY <3>3, <3>4
  <2>3. CASE i - a - b \in 1 .. Len(q)
    <3> DEFINE j == i - a - b
    <3>1. j \in 1 .. Len(q) /\ i = a + b + j
      BY <1>1, <2>3
    <3> HIDE DEF j
    <3>2. s[i] = q[j] /\ Queued(q[j], j, m + a + b, p)
      BY <1>2, <1>6, <3>1
    <3>3. j = p <=> i = r
      BY <1>1, <1>8, <3>1
    <3>4. (p # 0 /\ p < j) <=> (r # 0 /\ r < i)
      BY <1>1, <1>8, <3>1
    <3>5. m + a + b + j = m + i /\ m + a + b + j - 1 = m + i - 1
      BY <1>1, <3>1
    <3>6. CASE j = p
      BY <3>2, <3>3, <3>6 DEF Queued
    <3>7. CASE j # p
      <4>1. q[j] # CloseFrame
        BY <1>3, <3>2, <3>7 DEF Queued
      <4>2. p # 0 => p < j \/ j < p
        BY <1>1, <3>1, <3>7
      <4>3. q[j].seq = IF p # 0 /\ p < j THEN m + a + b + j - 1 ELSE m + a + b + j
        BY <3>2, <3>7, <4>2 DEF Queued
      <4> QED BY <3>2, <3>3, <3>4, <3>5, <3>7, <4>1, <4>3
    <3> QED BY <3>6, <3>7
  <2> QED BY <1>1, <1>2, <2>1, <2>2, <2>3
<1>10. EndOf(w, f, q, m, p) = IF r = 0 THEN m + Len(s) ELSE m + Len(s) - 1
  BY <1>1, <1>2, <1>7, <1>8
<1>11. OneChain(s, m, r, EndOf(w, f, q, m, p))
  BY <1>9, <1>10 DEF OneChain
<1> QED BY <1>8, <1>11 DEF s

(* A consumer's queue never has a hole: what is in flight are consecutive   *)
(* events up to the last one, or up to the overflow that ends the           *)
(* connection (EventHub._fanout, _Subscriber.overflow).                     *)
THEOREM NoHoles == Spec => []NoHoleInFlight
<1>1. IInv => NoHoleInFlight
  <2> SUFFICES ASSUME IInv, NEW c \in Consumers
               PROVE  LET s == InFlight(c)
                          carried == {i \in DOMAIN s : s[i] # CloseFrame} IN
                      /\ \A i, j \in carried :
                            i < j /\ OnlyCloses(s, i + 1, j - 1) => s[j].seq = s[i].seq + 1
                      /\ Subscribed(c) /\ ~ sub[c].overflow =>
                            \A i \in carried : OnlyCloses(s, i + 1, Len(s)) => s[i].seq = seq
    BY DEF NoHoleInFlight
  <2> DEFINE s == InFlight(c)
             k == client[c]
             u == sub[c]
             n == known[c] - base
  <2>1. /\ k \in Client /\ u \in Subscriber /\ n \in Int /\ seq \in Nat
        /\ ConsumerInv(k, u, n)
    BY ConsumerTypes
  <2>2. k.wire \in Seq(Frame) /\ u.first \in Seq(Frame) /\ u.queue \in Seq(Frame)
    BY <2>1, FieldFacts
  <2>3. s = k.wire \o u.first \o u.queue
    BY DEF InFlight
  <2>4. PICK m \in -1 .. seq, p \in 0 .. Len(u.queue) : Flow(k, u, n, m, p)
    BY <2>1 DEF ConsumerInv
  <2>5. Chained(k.wire, u.first, u.queue, m, p)
    BY <2>4 DEF Flow
  <2>6. Subscribed(c) /\ ~ u.overflow => EndOf(k.wire, u.first, u.queue, m, p) = seq
    BY <2>4 DEF Flow, Subscribed
  <2>7. m \in Int
    BY <2>1
  <2> HIDE DEF s, k, u, n
  <2>a. p \in 0 .. Len(u.queue)
    OBVIOUS
  <2>b. PICK r \in 0 .. Len(s) : OneChain(s, m, r, EndOf(k.wire, u.first, u.queue, m, p))
    <3>1. \E r \in 0 .. Len(k.wire \o u.first \o u.queue) :
            OneChain(k.wire \o u.first \o u.queue, m, r,
                     EndOf(k.wire, u.first, u.queue, m, p))
      BY <2>2, <2>5, <2>7, <2>a, ChainIsOneQueue
    <3> QED BY <2>3, <3>1
  <2>8. /\ \A i \in 1 .. Len(s) :
             /\ s[i] = CloseFrame <=> i = r
             /\ s[i] # CloseFrame => s[i].seq = IF r # 0 /\ r < i THEN m + i - 1 ELSE m + i
        /\ EndOf(k.wire, u.first, u.queue, m, p)
             = IF r = 0 THEN m + Len(s) ELSE m + Len(s) - 1
    BY <2>b DEF OneChain
  <2>9. DOMAIN s = 1 .. Len(s) /\ Len(s) \in Nat
    <3>1. s \in Seq(Frame)
      BY <2>2, <2>3, InFlightFacts
    <3> QED BY <3>1, LenProperties
  <2>10. ASSUME NEW i \in 1 .. Len(s), NEW j \in 1 .. Len(s), s[i] # CloseFrame,
                s[j] # CloseFrame, i < j, OnlyCloses(s, i + 1, j - 1)
         PROVE  s[j].seq = s[i].seq + 1
    <3>1. i # r /\ j # r
      BY <2>8, <2>10
    <3>2. \A h \in i + 1 .. j - 1 : h = r
      <4>1. ASSUME NEW h \in i + 1 .. j - 1 PROVE h = r
        <5>1. h \in 1 .. Len(s)
          BY <2>9
        <5>2. s[h] = CloseFrame
          BY <2>10 DEF OnlyCloses
        <5> QED BY <2>8, <5>1, <5>2
      <4> QED BY <4>1
    <3>3. \/ j = i + 1
          \/ j = i + 2 /\ r = i + 1
      <4>1. j - 1 >= i + 1 => i + 1 \in i + 1 .. j - 1 /\ j - 1 \in i + 1 .. j - 1
        BY <2>9
      <4>2. j - 1 >= i + 1 => i + 1 = r /\ j - 1 = r
        BY <3>2, <4>1
      <4>3. i \in Nat /\ j \in Nat /\ r \in Nat /\ i < j
        BY <2>9, <2>10
      <4> QED BY <4>2, <4>3
    <3>4. s[i].seq = (IF r # 0 /\ r < i THEN m + i - 1 ELSE m + i)
      BY <2>8, <2>10
    <3>5. s[j].seq = (IF r # 0 /\ r < j THEN m + j - 1 ELSE m + j)
      BY <2>8, <2>10
    <3>6. r \in Nat /\ i \in Nat /\ j \in Nat
      BY <2>9
    <3>7. CASE r # 0 /\ r < i
      <4>1. r < j /\ j = i + 1
        BY <3>3, <3>6, <3>7
      <4> QED BY <2>7, <3>4, <3>5, <3>6, <3>7, <4>1
    <3>8. CASE r # 0 /\ i < r /\ r < j
      <4>1. j = i + 2
        BY <3>3, <3>6, <3>8
      <4> QED BY <2>7, <3>4, <3>5, <3>6, <3>8, <4>1
    <3>9. CASE r = 0 \/ j < r
      <4>1. j = i + 1
        BY <3>3, <3>6, <3>9
      <4>2. s[i].seq = m + i /\ s[j].seq = m + j
        BY <3>4, <3>5, <3>6, <3>9, <4>1
      <4> QED BY <2>7, <3>6, <4>1, <4>2
    <3> QED BY <2>10, <3>1, <3>6, <3>7, <3>8, <3>9
  <2>11. ASSUME Subscribed(c), ~ sub[c].overflow, NEW i \in 1 .. Len(s),
                s[i] # CloseFrame, OnlyCloses(s, i + 1, Len(s))
         PROVE  s[i].seq = seq
    <3>1. (IF r = 0 THEN m + Len(s) ELSE m + Len(s) - 1) = seq
      BY <2>6, <2>8, <2>11 DEF u
    <3>2. i # r
      BY <2>8, <2>11
    <3>3. \A h \in i + 1 .. Len(s) : h = r
      <4>1. ASSUME NEW h \in i + 1 .. Len(s) PROVE h = r
        <5>1. h \in 1 .. Len(s)
          BY <2>9
        <5>2. s[h] = CloseFrame
          BY <2>11 DEF OnlyCloses
        <5> QED BY <2>8, <5>1, <5>2
      <4> QED BY <4>1
    <3>4. r \in Nat /\ i \in Nat
      BY <2>9
    <3>5. \/ i = Len(s)
          \/ i + 1 = Len(s) /\ r = Len(s)
      <4>1. Len(s) >= i + 1 => i + 1 \in i + 1 .. Len(s) /\ Len(s) \in i + 1 .. Len(s)
        BY <2>9
      <4>2. Len(s) >= i + 1 => i + 1 = r /\ Len(s) = r
        BY <3>3, <4>1
      <4>3. i \in Nat /\ Len(s) \in Nat /\ r \in Nat /\ i <= Len(s)
        BY <2>9
      <4> QED BY <4>2, <4>3
    <3>6. s[i].seq = (IF r # 0 /\ r < i THEN m + i - 1 ELSE m + i)
      BY <2>8, <2>11
    <3>7. r \in 0 .. Len(s)
      OBVIOUS
    <3>8. CASE r = 0
      <4>1. i = Len(s)
        BY <3>4, <3>5, <3>7, <3>8
      <4>2. m + Len(s) = seq /\ s[i].seq = m + i
        BY <3>1, <3>6, <3>8
      <4> QED BY <4>1, <4>2
    <3>9. CASE r # 0 /\ r < i
      <4>1. i = Len(s)
        BY <3>4, <3>5, <3>9
      <4> QED BY <2>7, <2>9, <3>1, <3>6, <3>9, <4>1
    <3>10. CASE r # 0 /\ ~ (r < i)
      <4>1. i + 1 = Len(s)
        BY <3>2, <3>4, <3>5, <3>7, <3>10
      <4> QED BY <2>7, <2>9, <3>1, <3>6, <3>10, <4>1
    <3> QED BY <3>8, <3>9, <3>10
  <2> QED BY <2>9, <2>10, <2>11 DEF s
<1> QED BY <1>1, InvariantHolds, PTL

-----------------------------------------------------------------------------
(* The hub implements the feed *)

(* What moves neither the head nor what the consumers know.                 *)
LEMMA QuietSteps ==
  ASSUME TypeOK, UNCHANGED <<seq, base, restarts, known, gaps>>,
         \A c \in Consumers : client'[c].last = client[c].last
  PROVE  UNCHANGED Feed!vars
<1>1. position' = position
  BY DEF position, Bound
<1> QED BY <1>1 DEF Feed!vars

LEMMA ConnectionsAreQuiet ==
  ASSUME IInv, NEW c \in Consumers,
         Connect(c) \/ Stream(c) \/ Drop(c) \/ EndOfStream(c)
  PROVE  UNCHANGED Feed!vars
<1>1. TypeOK
  BY DEF IInv
<1>2. UNCHANGED <<seq, base, restarts, known, gaps>>
  BY DEF Connect, Stream, SendFirst, CutOff, Await, Take, Drop, EndOfStream,
         hub, counts, informed
<1>3. \A d \in Consumers : client'[d].last = client[d].last
  <2>1. client \in [Consumers -> Client]
    BY <1>1 DEF TypeOK
  <2>2. CASE Connect(c)
    BY <2>1, <2>2 DEF Connect, Client
  <2>3. CASE SendFirst(c)
    BY <2>1, <2>3 DEF SendFirst, Client
  <2>4. CASE CutOff(c) \/ Await(c)
    BY <2>4 DEF CutOff, Await
  <2>5. CASE Take(c)
    <3>1. CASE Head(sub[c].queue) = CloseFrame
      BY <2>5, <3>1 DEF Take
    <3>2. CASE Head(sub[c].queue) # CloseFrame
      <4>1. client'[c].last = client[c].last /\ OthersKept(c)
        BY <1>1, <2>5, <3>2, TakeDoes
      <4> QED BY <4>1 DEF OthersKept
    <3> QED BY <3>1, <3>2
  <2>6. CASE Drop(c)
    BY <2>1, <2>6 DEF Drop, Client
  <2>7. CASE EndOfStream(c)
    BY <2>1, <2>7 DEF EndOfStream, Client
  <2> QED BY <2>2, <2>3, <2>4, <2>5, <2>6, <2>7 DEF Stream
<1> QED BY <1>1, <1>2, <1>3, QuietSteps

LEMMA FanoutIsEvent ==
  ASSUME IInv, Fanout
  PROVE  Feed!Event
<1>1. seq \in Nat /\ base \in Nat
  BY SeqFacts DEF IInv
<1>2. /\ seq' = seq + 1 /\ base' = base /\ restarts' = restarts
      /\ gaps' = gaps /\ known' = known /\ client' = client
  BY DEF Fanout, counts, informed
<1>3. position' = position
  BY <1>2 DEF position, Bound
<1>4. base' + seq' = base + seq + 1
  BY <1>1, <1>2
<1> QED BY <1>2, <1>3, <1>4 DEF Feed!Event

LEMMA RestartIsRestart ==
  ASSUME IInv, Restart
  PROVE  Feed!Restart
<1>1. seq \in Nat /\ base \in Nat /\ TypeOK
  BY SeqFacts DEF IInv
<1>2. /\ seq' = 0 /\ base' = base + seq + 1 /\ restarts' = restarts \cup {base + seq + 1}
      /\ gaps' = gaps /\ known' = known
  BY DEF Restart, informed
<1>3. \A c \in Consumers : client'[c].last = client[c].last
  BY <1>1 DEF Restart, TypeOK, Client
<1>4. position' = position
  BY <1>2, <1>3 DEF position, Bound
<1>5. base' + seq' = base + seq + 1
  BY <1>1, <1>2
<1> QED BY <1>2, <1>4, <1>5 DEF Feed!Restart

LEMMA ReceiveIsFeedStep ==
  ASSUME IInv, NEW c \in Consumers, Receive(c)
  PROVE  Feed!Bind(c) \/ Feed!Deliver(c) \/ Feed!Gap(c)
<1> DEFINE n == known[c] - base
           g == Head(client[c].wire)
<1>1. /\ client[c] \in Client /\ sub[c] \in Subscriber /\ n \in Int /\ known[c] \in Nat
      /\ seq \in Nat /\ epoch \in Nat /\ base \in Nat
      /\ ConsumerInv(client[c], sub[c], n) /\ TypeOK
      /\ known \in [Consumers -> Nat]
  BY ConsumerTypes
<1>2. /\ Ends' /\ OthersKept(c)
      /\ client[c].wire # <<>> /\ g \in Frame
      /\ client'[c].up = client[c].up /\ client'[c].wire = Tail(client[c].wire)
      /\ client'[c].last = IF g.kind = "event" THEN <<epoch, g.seq>> ELSE client[c].last
      /\ known' = [known EXCEPT ![c] = base + g.seq]
  BY <1>1, ReceiveDoes
<1>3. client'[c] \in Client
  BY <1>2 DEF Ends
<1>4. /\ g.seq \in 0 .. seq
      /\ g.kind = "event" =>
           /\ g.seq >= 1
           /\ client[c].last[2] # 0 => n + 1 = g.seq
      /\ g.kind # "event" => g.kind = "gap" /\ client[c].last[2] # 0 /\ n <= g.seq
  BY <1>1, <1>2, <1>3, ReceiveKeeps
<1>5. UNCHANGED <<seq, base, restarts>>
  BY DEF Receive, hub, counts
<1>6. gaps' = IF g.kind = "gap" THEN [gaps EXCEPT ![c] = @ + 1] ELSE gaps
  BY DEF Receive
<1>7. known[c] = base + n
  BY <1>1
<1> HIDE DEF g, n
<1>8. Bound(c)'
  <2>1. CASE g.kind = "event"
    BY <1>1, <1>2, <1>4, <2>1 DEF Bound
  <2>2. CASE g.kind # "event"
    BY <1>2, <1>4, <2>2 DEF Bound
  <2> QED BY <2>1, <2>2
<1>9. position' = [position EXCEPT ![c] = base + g.seq]
  <2>1. ASSUME NEW d \in Consumers, d # c
        PROVE  Bound(d)' = Bound(d) /\ known'[d] = known[d]
    BY <1>2, <2>1 DEF OthersKept, Bound
  <2>2. known'[c] = base + g.seq
    BY <1>1, <1>2
  <2>3. position' = [d \in Consumers |-> IF Bound(d)' THEN known'[d] ELSE -1]
    BY DEF position
  <2> QED BY <1>8, <2>1, <2>2, <2>3 DEF position
<1>10. position[c] = IF Bound(c) THEN base + n ELSE -1
  BY <1>7 DEF position
<1>11. Feed!vars = <<base + seq, restarts, position, gaps>>
  BY DEF Feed!vars
<1>12. (base + seq)' = base + seq
  BY <1>5
<1>13. g.seq \in Nat /\ base + g.seq \in Nat /\ base + g.seq <= base + seq
  BY <1>1, <1>4
<1>14. CASE g.kind = "event" /\ ~ Bound(c)
  <2>1. position[c] = -1 /\ base + g.seq \in 1 .. base + seq
    BY <1>1, <1>4, <1>10, <1>13, <1>14
  <2>2. gaps' = gaps
    BY <1>6, <1>14
  <2> QED BY <1>5, <1>9, <1>12, <2>1, <2>2 DEF Feed!Bind
<1>15. CASE g.kind = "event" /\ Bound(c)
  <2>1. position[c] = base + n /\ n + 1 = g.seq /\ g.seq >= 1
    BY <1>4, <1>10, <1>15 DEF Bound
  <2>2. position[c] + 1 = base + g.seq
    BY <1>1, <2>1
  <2>3. position[c] \in 0 .. (base + seq) - 1
    BY <1>1, <1>7, <1>13, <2>1, <2>2
  <2>4. position[c] + 1 \notin restarts
    <3>1. restarts \subseteq 1 .. base
      BY <1>1 DEF TypeOK
    <3>2. base + g.seq \notin 1 .. base
      BY <1>1, <1>13, <2>1
    <3> QED BY <2>2, <3>1, <3>2
  <2>5. gaps' = gaps
    BY <1>6, <1>15
  <2>6. position' = [position EXCEPT ![c] = position[c] + 1]
    BY <1>9, <2>2
  <2>7. restarts' = restarts
    BY <1>5
  <2> QED BY <1>5, <1>12, <2>3, <2>4, <2>5, <2>6, <2>7 DEF Feed!Deliver
<1>16. CASE g.kind # "event"
  <2>1. Bound(c) /\ g.kind = "gap" /\ n <= g.seq
    BY <1>4, <1>16 DEF Bound
  <2>2. position[c] = base + n /\ base + n >= 0
    BY <1>1, <1>7, <1>10, <2>1
  <2>3. base + g.seq \in position[c] .. base + seq
    BY <1>1, <1>13, <2>1, <2>2
  <2>4. gaps' = [gaps EXCEPT ![c] = @ + 1]
    BY <1>6, <2>1
  <2> QED BY <1>5, <1>9, <1>12, <2>2, <2>3, <2>4 DEF Feed!Gap
<1> QED BY <1>14, <1>15, <1>16

(* From the first event it has read on, a consumer gets each later event    *)
(* once and in order, over breaks, slow queues, evictions and restarts, or  *)
(* is told of a gap: the hub implements EventFeed (EventHub.stream,         *)
(* _resume).                                                                *)
THEOREM HubImplementsFeed == Spec => FeedSpec
<1>1. Init => Feed!Init
  <2> SUFFICES ASSUME Init PROVE Feed!Init
    OBVIOUS
  <2>1. \A c \in Consumers : ~ Bound(c)
    <3>1. \A c \in Consumers : client[c] = Offline
      BY DEF Init
    <3>2. Offline.last[2] = 0
      BY FieldFacts
    <3> QED BY <3>1, <3>2 DEF Bound
  <2>2. position = [c \in Consumers |-> -1]
    BY <2>1 DEF position
  <2>3. base + seq = 0
    BY DEF Init
  <2> QED BY <2>2, <2>3 DEF Init, Feed!Init
<1>2. IInv /\ [Next]_vars => [Feed!Next]_Feed!vars
  <2> SUFFICES ASSUME IInv, [Next]_vars
               PROVE  Feed!Next \/ UNCHANGED Feed!vars
    OBVIOUS
  <2>1. CASE \E c \in Consumers : Connect(c) \/ Stream(c) \/ Drop(c) \/ EndOfStream(c)
    BY <2>1, ConnectionsAreQuiet
  <2>2. CASE \E c \in Consumers : Receive(c)
    <3>1. PICK c \in Consumers : Receive(c)
      BY <2>2
    <3>2. Feed!Bind(c) \/ Feed!Deliver(c) \/ Feed!Gap(c)
      BY <3>1, ReceiveIsFeedStep
    <3> QED BY <3>2 DEF Feed!Next
  <2>3. CASE Fanout
    BY <2>3, FanoutIsEvent DEF Feed!Next
  <2>4. CASE Restart
    BY <2>4, RestartIsRestart DEF Feed!Next
  <2>5. CASE Publish \/ Close \/ UNCHANGED vars
    <3>1. UNCHANGED <<seq, base, restarts, known, gaps, client>>
      BY <2>5 DEF Publish, Close, vars, hub, counts, informed
    <3>2. TypeOK
      BY DEF IInv
    <3> QED BY <3>1, <3>2, QuietSteps
  <2> QED BY <2>1, <2>2, <2>3, <2>4, <2>5 DEF Next
<1>3. Spec => []IInv
  BY InvariantHolds
<1> QED BY <1>1, <1>2, <1>3, PTL DEF Spec, FeedSpec, Feed!Spec
=============================================================================
