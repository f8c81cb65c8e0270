------------------------ MODULE LiveProjectionProofs ------------------------
(* What a live projection shows, for every history, limit, size of batches  *)
(* and channels, and however the script, the store, the client and the      *)
(* clock behave.                                                            *)
EXTENDS LiveProjection, SequenceTheorems, TLAPS

-----------------------------------------------------------------------------
(* The request, and decoding *)

USE DEF Broken

LEMMA Request ==
  ASSUME TypeOK
  PROVE  /\ history \in Seq(Event) /\ limit \in Nat
         /\ Wanted \in Nat /\ Wanted <= Len(history)
<1>1. history \in Seq(Event) /\ limit \in Nat
  BY HistoriesAssumption DEF TypeOK
<1>2. Len(history) \in Nat
  BY <1>1, LenProperties
<1> QED
  BY <1>1, <1>2 DEF Wanted

LEMMA WantedSame == ASSUME UNCHANGED request PROVE Wanted' = Wanted
BY DEF Wanted, request

LEMMA LiftOne ==
  ASSUME TypeOK, NEW p \in 1..Wanted
  PROVE  /\ lift_event(p) \subseteq LiftedEvent
         /\ \A e \in lift_event(p) :
              e.pos = p /\ (history[p] = "plain" => e.data = "value")
         /\ lift_event(p) = {} <=> history[p] = "broken"
<1>1. history[p] \in Event
  BY Request, ElementOfSeq
<1>2. p \in Nat
  BY Request
<1>3. /\ decrypt_event_data["plain"] = {"value"}
      /\ decrypt_event_data["encrypted"] = {"value", "null"}
      /\ decrypt_event_data["shredded"] = {"null"}
      /\ decrypt_event_data["broken"] = {}
  BY DEF decrypt_event_data
<1>4. decrypt_event_data[history[p]] \subseteq {"value", "null"}
  BY <1>1, <1>3 DEF Event
<1>5. lift_event(p) \subseteq LiftedEvent
  BY <1>2, <1>4 DEF lift_event, LiftedEvent
<1>6. \A e \in lift_event(p) :
        e.pos = p /\ (history[p] = "plain" => e.data = "value")
  BY <1>3 DEF lift_event
<1>7. decrypt_event_data[history[p]] = {} <=> history[p] = "broken"
  BY <1>1, <1>3 DEF Event
<1>8. lift_event(p) = {} <=> decrypt_event_data[history[p]] = {}
  BY DEF lift_event
<1> QED
  BY <1>5, <1>6, <1>7, <1>8

LEMMA LiftType ==
  ASSUME TypeOK, NEW b \in Seq(1..Wanted), NEW s \in Liftings(b)
  PROVE  s \in Seq(LiftedEvent) /\ Len(s) <= Len(b)
<1> DEFINE events == UNION {lift_event(b[i]) : i \in DOMAIN b}
<1>1. Len(b) \in Nat /\ \A i \in DOMAIN b : b[i] \in 1..Wanted
  BY Request, LenProperties, ElementOfSeq
<1>2. events \subseteq LiftedEvent
  BY <1>1, LiftOne
<1>3. PICK n \in 0..Len(b) : s \in [1..n -> events]
  BY DEF Liftings
<1>4. n \in Nat /\ s \in [1..n -> LiftedEvent]
  BY <1>1, <1>2, <1>3
<1>5. s \in Seq(LiftedEvent) /\ Len(s) = n
  BY <1>4, IsASeq
<1> QED
  BY <1>1, <1>3, <1>5

LEMMA LiftCovers ==
  ASSUME TypeOK, NEW b \in Seq(1..Wanted), NEW s \in Liftings(b),
         NEW lo \in Nat, NEW hi \in Nat, Gathered(b, lo, hi)
  PROVE  Covers(history, s, lo, hi)
<1> DEFINE events == UNION {lift_event(b[i]) : i \in DOMAIN b}
<1>1. \A i \in DOMAIN b : b[i] \in 1..Wanted
  BY Request, LenProperties, ElementOfSeq
<1>2. /\ lo <= hi /\ DOMAIN b = 1..hi - lo
      /\ \A i \in 1..hi - lo : b[i] = lo + i - 1
  BY DEF Gathered
<1>3. \A e \in events : \E i \in DOMAIN b : e \in lift_event(b[i])
  OBVIOUS
<1>4. {e.pos : e \in events} = {p \in lo..hi - 1 : history[p] # "broken"}
  <2>1. ASSUME NEW e \in events
        PROVE  e.pos \in lo..hi - 1 /\ history[e.pos] # "broken"
    <3>1. PICK i \in DOMAIN b : e \in lift_event(b[i])
      BY <1>3
    <3>2. e.pos = b[i] /\ history[b[i]] # "broken"
      BY <1>1, <3>1, LiftOne
    <3> QED
      BY <1>2, <3>2
  <2>2. ASSUME NEW p \in lo..hi - 1, history[p] # "broken"
        PROVE  \E e \in events : e.pos = p
    <3>1. p - lo + 1 \in DOMAIN b /\ b[p - lo + 1] = p
      BY <1>2
    <3>2. PICK e \in lift_event(p) : TRUE
      BY <1>1, <2>2, <3>1, LiftOne
    <3>3. e.pos = p /\ e \in events
      BY <1>1, <3>1, <3>2, LiftOne
    <3> QED
      BY <3>3
  <2> QED
    BY <2>1, <2>2
<1>5. InOrder(s) /\ Positions(s) = {e.pos : e \in events}
  BY DEF Liftings
<1>6. \A i \in DOMAIN s : history[s[i].pos] = "plain" => s[i].data = "value"
  <2> SUFFICES ASSUME NEW i \in DOMAIN s, history[s[i].pos] = "plain"
               PROVE  s[i].data = "value"
    OBVIOUS
  <2>1. s[i] \in events
    BY DEF Liftings
  <2>2. PICK j \in DOMAIN b : s[i] \in lift_event(b[j])
    BY <1>3, <2>1
  <2> QED
    BY <1>1, <2>2, LiftOne
<1> QED
  BY <1>2, <1>4, <1>5, <1>6 DEF Covers

-----------------------------------------------------------------------------
(* Putting pieces of the history together *)

LEMMA CoversNothing ==
  ASSUME NEW h, NEW lo \in Nat PROVE Covers(h, <<>>, lo, lo)
BY DEF Covers, InOrder, Positions

LEMMA CoversConcat ==
  ASSUME NEW h, NEW s \in Seq(LiftedEvent), NEW t \in Seq(LiftedEvent),
         NEW lo \in Nat, NEW mid \in Nat, NEW hi \in Nat,
         Covers(h, s, lo, mid), Covers(h, t, mid, hi)
  PROVE  Covers(h, s \o t, lo, hi)
<1> DEFINE u == s \o t
<1>1. /\ Len(s) \in Nat /\ Len(t) \in Nat
      /\ DOMAIN s = 1..Len(s) /\ DOMAIN t = 1..Len(t)
      /\ DOMAIN u = 1..Len(s) + Len(t)
      /\ \A i \in 1..Len(s) : u[i] = s[i]
      /\ \A i \in 1..Len(t) : u[Len(s) + i] = t[i]
  BY LenProperties, ConcatProperties
<1> HIDE DEF u
<1>2. /\ \A i \in 1..Len(s) : s[i].pos \in lo..mid - 1 /\ h[s[i].pos] # "broken"
      /\ \A i \in 1..Len(t) : t[i].pos \in mid..hi - 1 /\ h[t[i].pos] # "broken"
  BY <1>1 DEF Covers, Positions
<1>3. \A i \in DOMAIN u : \/ i \in 1..Len(s)
                          \/ i - Len(s) \in 1..Len(t) /\ u[i] = t[i - Len(s)]
  BY <1>1
<1>4. InOrder(u)
  <2> SUFFICES ASSUME NEW i \in DOMAIN u, NEW j \in DOMAIN u, i < j
               PROVE  u[i].pos < u[j].pos
    BY DEF InOrder
  <2>1. CASE i \in 1..Len(s) /\ j \in 1..Len(s)
    BY <1>1, <2>1 DEF Covers, InOrder
  <2>2. CASE i \in 1..Len(s) /\ j \notin 1..Len(s)
    <3>1. u[i].pos \in lo..mid - 1 /\ u[j].pos \in mid..hi - 1
      BY <1>1, <1>2, <1>3, <2>2
    <3> QED
      BY <3>1
  <2>3. CASE i \notin 1..Len(s)
    <3>1. /\ i - Len(s) \in 1..Len(t) /\ u[i] = t[i - Len(s)]
          /\ j - Len(s) \in 1..Len(t) /\ u[j] = t[j - Len(s)]
          /\ i - Len(s) < j - Len(s)
      BY <1>1, <1>3, <2>3
    <3> QED
      BY <1>1, <3>1 DEF Covers, InOrder
  <2> QED
    BY <2>1, <2>2, <2>3
<1>5. Positions(u) = {p \in lo..hi - 1 : h[p] # "broken"}
  <2>1. ASSUME NEW i \in DOMAIN u
        PROVE  u[i].pos \in lo..hi - 1 /\ h[u[i].pos] # "broken"
    BY <1>1, <1>2, <1>3 DEF Covers
  <2>2. ASSUME NEW p \in lo..hi - 1, h[p] # "broken"
        PROVE  \E i \in DOMAIN u : u[i].pos = p
    <3>1. CASE p < mid
      <4>1. PICK i \in DOMAIN s : s[i].pos = p
        BY <2>2, <3>1 DEF Covers, Positions
      <4> QED
        BY <1>1, <4>1
    <3>2. CASE ~(p < mid)
      <4>1. PICK i \in DOMAIN t : t[i].pos = p
        BY <2>2, <3>2 DEF Covers, Positions
      <4>2. Len(s) + i \in DOMAIN u /\ u[Len(s) + i].pos = p
        BY <1>1, <4>1
      <4> QED
        BY <4>2
    <3> QED
      BY <3>1, <3>2
  <2> QED
    BY <2>1, <2>2 DEF Positions
<1>6. \A i \in DOMAIN u : h[u[i].pos] = "plain" => u[i].data = "value"
  BY <1>1, <1>3 DEF Covers
<1>7. lo <= hi
  BY DEF Covers
<1> QED
  BY <1>4, <1>5, <1>6, <1>7 DEF Covers, u

LEMMA GatheredNothing ==
  ASSUME NEW lo \in Nat PROVE Gathered(<<>>, lo, lo)
<1>1. [i \in 1..lo - lo |-> lo + i - 1] = <<>>
  BY SMT
<1> QED
  BY <1>1 DEF Gathered

LEMMA GatheredEmpty ==
  ASSUME NEW lo \in Nat, NEW hi \in Nat, Gathered(<<>>, lo, hi) PROVE lo = hi
<1>1. DOMAIN <<>> = 1..hi - lo
  BY DEF Gathered
<1>2. 1 \notin 1..hi - lo
  BY <1>1
<1> QED
  BY <1>2 DEF Gathered

LEMMA GatheredMore ==
  ASSUME NEW b \in Seq(Nat), NEW lo \in Nat, NEW hi \in Nat, Gathered(b, lo, hi)
  PROVE  Gathered(Append(b, hi), lo, hi + 1)
<1>1. Len(b) = hi - lo /\ lo <= hi
  BY LenProperties DEF Gathered
<1> DEFINE u == Append(b, hi)
           w == [i \in 1..hi + 1 - lo |-> lo + i - 1]
<1>2. /\ u \in Seq(Nat) /\ Len(u) = hi - lo + 1 /\ u[hi - lo + 1] = hi
      /\ \A i \in 1..hi - lo : u[i] = b[i]
  BY <1>1, AppendProperties
<1>3. w \in Seq(Nat) /\ Len(w) = hi + 1 - lo
  <2>1. hi + 1 - lo \in Nat /\ \A i \in 1..hi + 1 - lo : lo + i - 1 \in Nat
    BY <1>1
  <2> QED
    BY <2>1, IsASeq
<1>4. \A i \in 1..hi + 1 - lo : u[i] = w[i]
  BY <1>1, <1>2 DEF Gathered
<1> HIDE DEF u, w
<1>5. u = w
  BY <1>1, <1>2, <1>3, <1>4, SeqEqual
<1> QED
  BY <1>1, <1>5 DEF Gathered, u, w

\* Batches in a channel: one more at the end, the first one taken, none.
LEMMA CutsAppend ==
  ASSUME NEW S, NEW q \in Seq(S), NEW x \in S,
         NEW lo \in Nat \ {0}, NEW mid \in Nat, NEW hi \in Nat, mid <= hi,
         NEW c \in Cuts(q, lo, mid)
  PROVE  \E d \in Cuts(Append(q, x), lo, hi) :
           /\ \A i \in 1..Len(q) + 1 : d[i] = c[i]
           /\ d[Len(q) + 2] = hi
<1>1. Len(q) \in Nat /\ Len(Append(q, x)) = Len(q) + 1
  BY LenProperties, AppendProperties
<1> DEFINE n == Len(q) + 1
           d == [i \in 1..n + 1 |-> IF i \in 1..n THEN c[i] ELSE hi]
<1>2. n \in Nat \ {0} /\ c \in [1..n -> 1..mid] /\ c[1] = lo
  BY <1>1 DEF Cuts
<1>3. c[1] \in 1..mid
  BY <1>2
<1>4. d \in [1..n + 1 -> 1..hi] /\ d[1] = lo /\ d[n + 1] = hi
  BY <1>2, <1>3
<1>5. n + 1 = Len(q) + 2 /\ n + 1 = Len(Append(q, x)) + 1
  BY <1>1
<1>6. d \in Cuts(Append(q, x), lo, hi)
  BY <1>4, <1>5 DEF Cuts
<1> QED
  BY <1>4, <1>5, <1>6

LEMMA CutsTail ==
  ASSUME NEW S, NEW q \in Seq(S), q # <<>>,
         NEW lo \in Nat \ {0}, NEW hi \in Nat, NEW c \in Cuts(q, lo, hi)
  PROVE  /\ c[1] = lo /\ c[2] \in 1..hi
         /\ \E d \in Cuts(Tail(q), c[2], hi) : \A i \in 1..Len(q) : d[i] = c[i + 1]
<1>1. /\ Len(q) \in Nat \ {0} /\ Len(Tail(q)) = Len(q) - 1
  BY HeadTailProperties, LenProperties, EmptySeq
<1> DEFINE d == [i \in 1..Len(q) |-> c[i + 1]]
<1>2. c \in [1..Len(q) + 1 -> 1..hi] /\ c[1] = lo /\ c[Len(q) + 1] = hi
  BY DEF Cuts
<1>3. c[2] \in 1..hi
  BY <1>1, <1>2
<1>4. d \in [1..Len(q) -> 1..hi] /\ d[1] = c[2] /\ d[Len(q)] = hi
  BY <1>1, <1>2
<1>5. Len(Tail(q)) + 1 = Len(q)
  BY <1>1
<1>6. d \in Cuts(Tail(q), c[2], hi)
  BY <1>4, <1>5 DEF Cuts
<1> QED
  BY <1>2, <1>3, <1>6

LEMMA CutsNothing ==
  ASSUME NEW lo \in Nat \ {0}, NEW hi \in Nat
  PROVE  /\ Cuts(<<>>, lo, hi) # {} => lo = hi
         /\ \E c \in Cuts(<<>>, lo, lo) : TRUE
<1>1. Len(<<>>) = 0
  BY EmptySeq
<1>2. [i \in 1..1 |-> lo] \in Cuts(<<>>, lo, lo)
  BY <1>1 DEF Cuts
<1>3. \A c \in Cuts(<<>>, lo, hi) : lo = hi
  BY <1>1 DEF Cuts
<1> QED
  BY <1>2, <1>3

LEMMA RawAppend ==
  ASSUME NEW q \in Seq(Seq(Nat)), NEW b \in Seq(Nat),
         NEW lo \in Nat \ {0}, NEW mid \in Nat, NEW hi \in Nat,
         Raw(q, lo, mid), Gathered(b, mid, hi)
  PROVE  Raw(Append(q, b), lo, hi)
<1>1. PICK c \in Cuts(q, lo, mid) : \A i \in DOMAIN q : Gathered(q[i], c[i], c[i + 1])
  BY DEF Raw
<1>2. mid <= hi
  BY DEF Gathered
<1>3. PICK d \in Cuts(Append(q, b), lo, hi) :
        (\A i \in 1..Len(q) + 1 : d[i] = c[i]) /\ d[Len(q) + 2] = hi
  BY <1>2, CutsAppend
<1>4. /\ Len(q) \in Nat /\ DOMAIN q = 1..Len(q) /\ DOMAIN Append(q, b) = 1..Len(q) + 1
      /\ \A i \in 1..Len(q) : Append(q, b)[i] = q[i]
      /\ Append(q, b)[Len(q) + 1] = b
  BY LenProperties, AppendProperties
<1>5. c[Len(q) + 1] = mid
  BY DEF Cuts
<1>6. ASSUME NEW i \in DOMAIN Append(q, b)
      PROVE  Gathered(Append(q, b)[i], d[i], d[i + 1])
  <2>1. CASE i \in 1..Len(q)
    <3>1. i \in 1..Len(q) + 1 /\ i + 1 \in 1..Len(q) + 1
      BY <1>4, <2>1
    <3>2. d[i] = c[i] /\ d[i + 1] = c[i + 1] /\ Append(q, b)[i] = q[i]
      BY <1>3, <1>4, <2>1, <3>1
    <3> QED
      BY <1>1, <1>4, <2>1, <3>2
  <2>2. CASE i = Len(q) + 1
    <3>1. d[i] = mid /\ d[i + 1] = hi
      BY <1>3, <1>4, <1>5, <2>2
    <3> QED
      BY <1>4, <2>2, <3>1
  <2> QED
    BY <1>4, <2>1, <2>2
<1> QED
  BY <1>6 DEF Raw

LEMMA RawTail ==
  ASSUME NEW q \in Seq(Seq(Nat)), q # <<>>,
         NEW lo \in Nat \ {0}, NEW hi \in Nat, Raw(q, lo, hi)
  PROVE  \E mid \in 1..hi : Gathered(Head(q), lo, mid) /\ Raw(Tail(q), mid, hi)
<1>1. PICK c \in Cuts(q, lo, hi) : \A i \in DOMAIN q : Gathered(q[i], c[i], c[i + 1])
  BY DEF Raw
<1>2. c[1] = lo /\ c[2] \in 1..hi
  BY CutsTail
<1>3. PICK d \in Cuts(Tail(q), c[2], hi) : \A i \in 1..Len(q) : d[i] = c[i + 1]
  BY CutsTail
<1>4. /\ Len(q) \in Nat \ {0} /\ DOMAIN q = 1..Len(q) /\ Head(q) = q[1]
      /\ DOMAIN Tail(q) = 1..Len(q) - 1 /\ \A i \in 1..Len(q) - 1 : Tail(q)[i] = q[i + 1]
  BY HeadTailProperties, LenProperties, EmptySeq
<1>5. Gathered(Head(q), lo, c[2])
  <2>1. 1 \in DOMAIN q /\ 1 + 1 = 2
    BY <1>4
  <2> QED
    BY <1>1, <1>2, <1>4, <2>1
<1>6. ASSUME NEW i \in DOMAIN Tail(q) PROVE Gathered(Tail(q)[i], d[i], d[i + 1])
  <2>1. i \in 1..Len(q) /\ i + 1 \in 1..Len(q)
    BY <1>4
  <2>2. d[i] = c[i + 1] /\ d[i + 1] = c[i + 1 + 1] /\ Tail(q)[i] = q[i + 1]
    BY <1>3, <1>4, <2>1
  <2> QED
    BY <1>1, <1>4, <2>1, <2>2
<1>7. Raw(Tail(q), c[2], hi)
  BY <1>6 DEF Raw
<1> QED
  BY <1>2, <1>5, <1>7

LEMMA RawNothing ==
  ASSUME NEW lo \in Nat \ {0}, NEW hi \in Nat
  PROVE  (Raw(<<>>, lo, hi) => lo = hi) /\ Raw(<<>>, lo, lo)
<1>1. DOMAIN <<>> = {}
  BY EmptySeq
<1>2. Raw(<<>>, lo, hi) => lo = hi
  BY CutsNothing DEF Raw
<1>3. Raw(<<>>, lo, lo)
  BY <1>1, CutsNothing DEF Raw
<1> QED
  BY <1>2, <1>3

LEMMA ChannelAppend ==
  ASSUME NEW h, NEW q \in Seq(Seq(LiftedEvent)), NEW s \in Seq(LiftedEvent),
         NEW lo \in Nat \ {0}, NEW mid \in Nat, NEW hi \in Nat,
         Channel(h, q, lo, mid), Covers(h, s, mid, hi)
  PROVE  Channel(h, Append(q, s), lo, hi)
<1>1. PICK c \in Cuts(q, lo, mid) : \A i \in DOMAIN q : Covers(h, q[i], c[i], c[i + 1])
  BY DEF Channel
<1>2. mid <= hi
  BY DEF Covers
<1>3. PICK d \in Cuts(Append(q, s), lo, hi) :
        (\A i \in 1..Len(q) + 1 : d[i] = c[i]) /\ d[Len(q) + 2] = hi
  BY <1>2, CutsAppend
<1>4. /\ Len(q) \in Nat /\ DOMAIN q = 1..Len(q) /\ DOMAIN Append(q, s) = 1..Len(q) + 1
      /\ \A i \in 1..Len(q) : Append(q, s)[i] = q[i]
      /\ Append(q, s)[Len(q) + 1] = s
  BY LenProperties, AppendProperties
<1>5. c[Len(q) + 1] = mid
  BY DEF Cuts
<1>6. ASSUME NEW i \in DOMAIN Append(q, s)
      PROVE  Covers(h, Append(q, s)[i], d[i], d[i + 1])
  <2>1. CASE i \in 1..Len(q)
    <3>1. i \in 1..Len(q) + 1 /\ i + 1 \in 1..Len(q) + 1
      BY <1>4, <2>1
    <3>2. d[i] = c[i] /\ d[i + 1] = c[i + 1] /\ Append(q, s)[i] = q[i]
      BY <1>3, <1>4, <2>1, <3>1
    <3> QED
      BY <1>1, <1>4, <2>1, <3>2
  <2>2. CASE i = Len(q) + 1
    <3>1. d[i] = mid /\ d[i + 1] = hi
      BY <1>3, <1>4, <1>5, <2>2
    <3> QED
      BY <1>4, <2>2, <3>1
  <2> QED
    BY <1>4, <2>1, <2>2
<1> QED
  BY <1>6 DEF Channel

LEMMA ChannelTail ==
  ASSUME NEW h, NEW q \in Seq(Seq(LiftedEvent)), q # <<>>,
         NEW lo \in Nat \ {0}, NEW hi \in Nat, Channel(h, q, lo, hi)
  PROVE  \E mid \in 1..hi : Covers(h, Head(q), lo, mid) /\ Channel(h, Tail(q), mid, hi)
<1>1. PICK c \in Cuts(q, lo, hi) : \A i \in DOMAIN q : Covers(h, q[i], c[i], c[i + 1])
  BY DEF Channel
<1>2. c[1] = lo /\ c[2] \in 1..hi
  BY CutsTail
<1>3. PICK d \in Cuts(Tail(q), c[2], hi) : \A i \in 1..Len(q) : d[i] = c[i + 1]
  BY CutsTail
<1>4. /\ Len(q) \in Nat \ {0} /\ DOMAIN q = 1..Len(q) /\ Head(q) = q[1]
      /\ DOMAIN Tail(q) = 1..Len(q) - 1 /\ \A i \in 1..Len(q) - 1 : Tail(q)[i] = q[i + 1]
  BY HeadTailProperties, LenProperties, EmptySeq
<1>5. Covers(h, Head(q), lo, c[2])
  <2>1. 1 \in DOMAIN q /\ 1 + 1 = 2
    BY <1>4
  <2> QED
    BY <1>1, <1>2, <1>4, <2>1
<1>6. ASSUME NEW i \in DOMAIN Tail(q) PROVE Covers(h, Tail(q)[i], d[i], d[i + 1])
  <2>1. i \in 1..Len(q) /\ i + 1 \in 1..Len(q)
    BY <1>4
  <2>2. d[i] = c[i + 1] /\ d[i + 1] = c[i + 1 + 1] /\ Tail(q)[i] = q[i + 1]
    BY <1>3, <1>4, <2>1
  <2> QED
    BY <1>1, <1>4, <2>1, <2>2
<1>7. Channel(h, Tail(q), c[2], hi)
  BY <1>6 DEF Channel
<1> QED
  BY <1>2, <1>5, <1>7

LEMMA ChannelNothing ==
  ASSUME NEW h, NEW lo \in Nat \ {0}, NEW hi \in Nat
  PROVE  (Channel(h, <<>>, lo, hi) => lo = hi) /\ Channel(h, <<>>, lo, lo)
<1>1. DOMAIN <<>> = {}
  BY EmptySeq
<1>2. Channel(h, <<>>, lo, hi) => lo = hi
  BY CutsNothing DEF Channel
<1>3. Channel(h, <<>>, lo, lo)
  BY <1>1, CutsNothing DEF Channel
<1> QED
  BY <1>2, <1>3

-----------------------------------------------------------------------------
(* Types *)

LEMMA InitType == Init => TypeOK
<1> SUFFICES ASSUME Init PROVE TypeOK
  OBVIOUS
<1>1. history \in Seq(Event) /\ limit \in Nat /\ Len(history) \in Nat
  BY HistoriesAssumption, LenProperties DEF Init
<1>2. Wanted \in Nat
  BY <1>1 DEF Wanted
<1>3. /\ <<>> \in Seq(1..Wanted) /\ <<>> \in Seq(Seq(1..Wanted))
      /\ <<>> \in Seq(LiftedEvent) /\ <<>> \in Seq(Seq(LiftedEvent)) /\ Len(<<>>) = 0
  BY EmptySeq
<1>4. None \in Results(Seq(LiftedEvent), {"none", "script"})
      /\ None \in Results(Seq(LiftedEvent), {"none", "script", "store", "timeout", "internal", "exited"})
  BY DEF None, Results
<1>5. next \in 1..Wanted + 1
  BY <1>2 DEF Init
<1>6. Len(batch) = 0 /\ Len(raw) = 0 /\ Len(lifted) = 0 /\ Len(channel) = 0
      /\ Len(current) = 0 /\ DOMAIN raw = {} /\ DOMAIN channel = {}
  BY <1>3 DEF Init
<1>7. /\ batch \in Seq(1..Wanted) /\ raw \in Seq(Seq(1..Wanted))
      /\ lifted \in Seq(LiftedEvent) /\ current \in Seq(LiftedEvent)
      /\ state \in Seq(LiftedEvent) /\ channel \in Seq(Seq(LiftedEvent))
  BY <1>3 DEF Init
<1>8. /\ Len(batch) <= READ_BATCH /\ Len(raw) <= RAW_CHANNEL_CAP /\ Len(lifted) <= READ_BATCH
      /\ Len(channel) <= BATCH_CHANNEL_CAP /\ Len(current) <= READ_BATCH
      /\ \A i \in DOMAIN raw : Len(raw[i]) \in 1..READ_BATCH
      /\ \A i \in DOMAIN channel : Len(channel[i]) <= READ_BATCH
  BY <1>6, SizesAssumption
<1>9. /\ history \in Histories /\ limit \in Limits /\ reader = "none" /\ task = "waiting"
      /\ worker = "setup" /\ late = FALSE /\ outcome = None /\ answer = None
  BY DEF Init
<1> QED
  BY <1>4, <1>5, <1>7, <1>8, <1>9 DEF TypeOK

\* What the parties do to each other's end of a channel keeps its type.
LEMMA QueueType ==
  ASSUME NEW S, NEW q \in Seq(S), q # <<>>
  PROVE  /\ Head(q) \in S /\ Tail(q) \in Seq(S) /\ Len(Tail(q)) <= Len(q)
         /\ \E i \in DOMAIN q : Head(q) = q[i]
         /\ \A i \in DOMAIN Tail(q) : \E j \in DOMAIN q : Tail(q)[i] = q[j]
<1>1. /\ Len(q) \in Nat \ {0} /\ DOMAIN q = 1..Len(q) /\ Head(q) = q[1]
      /\ Head(q) \in S /\ Tail(q) \in Seq(S) /\ Len(Tail(q)) = Len(q) - 1
      /\ DOMAIN Tail(q) = 1..Len(q) - 1 /\ \A i \in 1..Len(q) - 1 : Tail(q)[i] = q[i + 1]
  BY HeadTailProperties, LenProperties, EmptySeq
<1>2. 1 \in DOMAIN q /\ \A i \in DOMAIN Tail(q) : i + 1 \in DOMAIN q
  BY <1>1
<1> QED
  BY <1>1, <1>2

LEMMA AppendType ==
  ASSUME NEW S, NEW q \in Seq(S), NEW x \in S
  PROVE  /\ Append(q, x) \in Seq(S) /\ Len(Append(q, x)) = Len(q) + 1
         /\ \A i \in DOMAIN Append(q, x) :
              Append(q, x)[i] = x \/ (i \in DOMAIN q /\ Append(q, x)[i] = q[i])
<1> DEFINE u == Append(q, x)
<1>1. /\ u \in Seq(S) /\ Len(u) = Len(q) + 1
      /\ \A i \in 1..Len(q) : u[i] = q[i]
      /\ u[Len(q) + 1] = x
  BY AppendProperties
<1> HIDE DEF u
<1>2. Len(q) \in Nat /\ DOMAIN q = 1..Len(q) /\ DOMAIN u = 1..Len(u)
  BY <1>1, LenProperties
<1>3. \A i \in DOMAIN u : u[i] = x \/ (i \in DOMAIN q /\ u[i] = q[i])
  <2> SUFFICES ASSUME NEW i \in DOMAIN u PROVE u[i] = x \/ (i \in DOMAIN q /\ u[i] = q[i])
    OBVIOUS
  <2>1. i \in 1..Len(q) \/ i = Len(q) + 1
    BY <1>1, <1>2
  <2> QED
    BY <1>1, <1>2, <2>1
<1> QED
  BY <1>1, <1>3 DEF u

LEMMA WorkerType == ASSUME TypeOK, Worker PROVE TypeOK'
<1> DEFINE views == Seq(LiftedEvent)
<1>1. /\ Err("script") \in Results(views, {"none", "script"})
      /\ state \in views /\ Ok(state) \in Results(views, {"none", "script"})
      /\ <<>> \in views /\ Len(<<>>) = 0
  BY EmptySeq DEF TypeOK, Err, Ok, Results
<1>2. Wanted' = Wanted
  BY WantedSame DEF Worker, setup, blocking_recv, runBatch, runBatch_fails, interrupt, finalize
<1> USE SizesAssumption
<1>3. CASE setup
  BY <1>1, <1>2, <1>3 DEF setup, TypeOK, request, reading, tasking
<1>4. CASE blocking_recv
  <2>1. /\ Head(channel) \in views /\ Tail(channel) \in Seq(views)
        /\ Len(Tail(channel)) <= Len(channel)
        /\ \E i \in DOMAIN channel : Head(channel) = channel[i]
        /\ \A i \in DOMAIN Tail(channel) : \E j \in DOMAIN channel : Tail(channel)[i] = channel[j]
    BY <1>4, QueueType DEF blocking_recv, TypeOK
  <2>2. Len(channel) \in Nat /\ Len(Tail(channel)) \in Nat
    BY <2>1, LenProperties DEF TypeOK
  <2>3. /\ Len(Head(channel)) <= READ_BATCH
        /\ \A i \in DOMAIN Tail(channel) : Len(Tail(channel)[i]) <= READ_BATCH
    BY <2>1 DEF TypeOK
  <2>4. /\ current' = Head(channel) /\ channel' = Tail(channel) /\ worker' = "folding"
        /\ UNCHANGED <<request, reading, raw, tasking, state, outcome, late>>
    BY <1>4 DEF blocking_recv
  <2>5. Len(channel') <= BATCH_CHANNEL_CAP
    BY <2>1, <2>2, <2>4 DEF TypeOK
  <2> QED
    BY <1>2, <2>1, <2>3, <2>4, <2>5 DEF TypeOK, request, reading, tasking
<1>5. CASE runBatch
  <2>1. state \o current \in views
    BY ConcatProperties DEF TypeOK
  <2> QED
    BY <1>1, <1>2, <1>5, <2>1 DEF runBatch, TypeOK, request, reading, tasking
<1>6. CASE runBatch_fails
  BY <1>1, <1>2, <1>6 DEF runBatch_fails, TypeOK, request, reading, tasking
<1>7. CASE interrupt
  BY <1>1, <1>2, <1>7 DEF interrupt, TypeOK, request, reading, tasking
<1>8. CASE finalize
  BY <1>1, <1>2, <1>8 DEF finalize, TypeOK, request, reading, tasking
<1> QED
  BY <1>3, <1>4, <1>5, <1>6, <1>7, <1>8 DEF Worker

LEMMA ReaderType == ASSUME TypeOK, Reader PROVE TypeOK'
<1>1. /\ Wanted \in Nat /\ Len(batch) \in Nat /\ Len(raw) \in Nat
      /\ <<>> \in Seq(1..Wanted) /\ Len(<<>>) = 0
  BY Request, LenProperties, EmptySeq DEF TypeOK
<1>2. Wanted' = Wanted
  BY WantedSame DEF Reader, reader_reads, reader_sends, reader_fails, reader_ends
<1>3. ASSUME Send, batch # <<>>, Len(raw) < RAW_CHANNEL_CAP
      PROVE  /\ raw' \in Seq(Seq(1..Wanted)) /\ Len(raw') <= RAW_CHANNEL_CAP
             /\ \A i \in DOMAIN raw' : Len(raw'[i]) \in 1..READ_BATCH
             /\ batch' \in Seq(1..Wanted) /\ Len(batch') <= READ_BATCH
  <2>1. raw' = Append(raw, batch) /\ batch' = <<>> /\ Len(batch) \in 1..READ_BATCH
    BY <1>1, <1>3, EmptySeq DEF Send, TypeOK
  <2>2. /\ Append(raw, batch) \in Seq(Seq(1..Wanted))
        /\ Len(Append(raw, batch)) = Len(raw) + 1
        /\ \A i \in DOMAIN Append(raw, batch) :
             \/ Append(raw, batch)[i] = batch
             \/ (i \in DOMAIN raw /\ Append(raw, batch)[i] = raw[i])
    BY AppendType DEF TypeOK
  <2>3. Len(raw') <= RAW_CHANNEL_CAP
    BY <1>1, <1>3, <2>1, <2>2, SizesAssumption
  <2>4. \A i \in DOMAIN raw' : Len(raw'[i]) \in 1..READ_BATCH
    BY <2>1, <2>2 DEF TypeOK
  <2>5. Len(batch') <= READ_BATCH
    BY <1>1, <2>1, SizesAssumption
  <2> QED
    BY <1>1, <2>1, <2>2, <2>3, <2>4, <2>5
<1>4. CASE reader_reads
  <2>1. next \in 1..Wanted /\ next + 1 \in 1..Wanted + 1
    BY <1>1, <1>4 DEF reader_reads, TypeOK
  <2>2. /\ Append(batch, next) \in Seq(1..Wanted)
        /\ Len(Append(batch, next)) = Len(batch) + 1
    BY <2>1, AppendType DEF TypeOK
  <2>3. Len(batch') <= READ_BATCH
    BY <1>1, <1>4, <2>2, SizesAssumption DEF reader_reads
  <2> QED
    BY <1>2, <1>4, <2>1, <2>2, <2>3 DEF reader_reads, TypeOK, request, tasking, running
<1>5. CASE reader_sends
  <2>1. batch # <<>> /\ UNCHANGED <<request, next, tasking, channel, running, late>>
    BY <1>1, <1>5, SizesAssumption DEF reader_sends
  <2>2. CASE Send /\ Len(raw) < RAW_CHANNEL_CAP /\ UNCHANGED reader
    BY <1>2, <1>3, <2>1, <2>2 DEF TypeOK, request, tasking, running
  <2>3. CASE reader' = "ok" /\ UNCHANGED <<raw, batch>>
    BY <1>2, <2>1, <2>3 DEF TypeOK, request, tasking, running
  <2> QED
    BY <1>5, <2>2, <2>3 DEF reader_sends
<1>6. CASE reader_fails
  BY <1>1, <1>2, <1>6, SizesAssumption DEF reader_fails, TypeOK, request, tasking, running
<1>7. CASE reader_ends
  <2>1. reader' = "ok" /\ UNCHANGED <<request, next, tasking, channel, running, late>>
    BY <1>7 DEF reader_ends
  <2>2. CASE Send /\ batch # <<>> /\ Len(raw) < RAW_CHANNEL_CAP
    BY <1>2, <1>3, <2>1, <2>2 DEF TypeOK, request, tasking, running
  <2>3. CASE UNCHANGED <<raw, batch>>
    BY <1>2, <2>1, <2>3 DEF TypeOK, request, tasking, running
  <2> QED
    BY <1>7, <2>2, <2>3 DEF reader_ends
<1> QED
  BY <1>4, <1>5, <1>6, <1>7 DEF Reader

LEMMA TaskType == ASSUME TypeOK, Task PROVE TypeOK'
<1> DEFINE views == Seq(LiftedEvent)
           kinds == {"none", "script", "store", "timeout", "internal", "exited"}
<1>1. /\ Err("script") \in Results(views, kinds) /\ Err("store") \in Results(views, kinds)
      /\ Err("internal") \in Results(views, kinds) /\ Err("exited") \in Results(views, kinds)
      /\ outcome \in Results(views, kinds)
      /\ <<>> \in views /\ Len(<<>>) = 0
  BY EmptySeq DEF TypeOK, Err, Results
<1>2. Wanted' = Wanted
  BY WantedSame DEF Task, setup_received, build_query_fails, setup_failed, task_decodes,
     task_sends, task_drained, task_joins, task_finishes, spawn_fails, encode_fails
<1> USE SizesAssumption
<1>3. CASE setup_received
  BY <1>2, <1>3 DEF setup_received, TypeOK, request, running
<1>4. CASE build_query_fails
  BY <1>1, <1>2, <1>4 DEF build_query_fails, TypeOK, request, reading, running
<1>5. CASE setup_failed
  BY <1>1, <1>2, <1>5 DEF setup_failed, TypeOK, request, reading, running
<1>6. CASE task_decodes
  <2>1. /\ Head(raw) \in Seq(1..Wanted) /\ Tail(raw) \in Seq(Seq(1..Wanted))
        /\ Len(Tail(raw)) <= Len(raw)
        /\ \E i \in DOMAIN raw : Head(raw) = raw[i]
        /\ \A i \in DOMAIN Tail(raw) : \E j \in DOMAIN raw : Tail(raw)[i] = raw[j]
    BY <1>6, QueueType DEF task_decodes, TypeOK
  <2>2. Len(raw) \in Nat /\ Len(Tail(raw)) \in Nat
    BY <2>1, LenProperties DEF TypeOK
  <2>3. /\ Len(Head(raw)) \in 1..READ_BATCH
        /\ \A i \in DOMAIN Tail(raw) : Len(Tail(raw)[i]) \in 1..READ_BATCH
    BY <2>1 DEF TypeOK
  <2>4. /\ lifted' \in Liftings(Head(raw)) /\ raw' = Tail(raw) /\ task' = "sending"
        /\ UNCHANGED <<request, reading, answer, channel, running, late>>
    BY <1>6 DEF task_decodes
  <2>5. lifted' \in views /\ Len(lifted') <= Len(Head(raw))
    BY <2>1, <2>4, LiftType
  <2>6. Len(raw') <= RAW_CHANNEL_CAP /\ Len(lifted') <= READ_BATCH
    <3>1. Len(lifted') \in Nat
      BY <2>5, LenProperties
    <3>2. Len(raw) <= RAW_CHANNEL_CAP
      BY DEF TypeOK
    <3> QED
      BY <2>1, <2>2, <2>3, <2>4, <2>5, <3>1, <3>2
  <2> QED
    BY <1>2, <2>1, <2>3, <2>4, <2>5, <2>6 DEF TypeOK, request, reading, running
<1>7. CASE task_sends
  <2>1. /\ lifted' = <<>> /\ task' \in {"receiving", "joining"}
        /\ UNCHANGED <<request, reading, raw, answer, running, late>>
    BY <1>7 DEF task_sends
  <2>2. CASE Len(channel) < BATCH_CHANNEL_CAP /\ channel' = Append(channel, lifted)
    <3>1. /\ channel' \in Seq(views) /\ Len(channel') = Len(channel) + 1
          /\ \A i \in DOMAIN channel' :
               channel'[i] = lifted \/ (i \in DOMAIN channel /\ channel'[i] = channel[i])
      BY <2>2, AppendType DEF TypeOK
    <3>2. Len(channel') <= BATCH_CHANNEL_CAP
      BY <2>2, <3>1, LenProperties DEF TypeOK
    <3>3. \A i \in DOMAIN channel' : Len(channel'[i]) <= READ_BATCH
      BY <3>1 DEF TypeOK
    <3> QED
      BY <1>1, <1>2, <2>1, <3>1, <3>2, <3>3 DEF TypeOK, request, reading, running
  <2>3. CASE UNCHANGED channel
    BY <1>1, <1>2, <2>1, <2>3 DEF TypeOK, request, reading, running
  <2> QED
    BY <1>7, <2>2, <2>3 DEF task_sends
<1>8. CASE task_drained
  BY <1>2, <1>8 DEF task_drained, TypeOK, request, reading, running
<1>9. CASE task_joins
  BY <1>1, <1>2, <1>9 DEF task_joins, TypeOK, request, reading, running
<1>10. CASE task_finishes
  BY <1>1, <1>2, <1>10 DEF task_finishes, TypeOK, request, reading, running
<1>11. CASE spawn_fails
  BY <1>1, <1>2, <1>11 DEF spawn_fails, TypeOK, request, reading
<1>12. CASE encode_fails
  BY <1>1, <1>2, <1>12 DEF encode_fails, TypeOK, request, reading, running
<1> QED
  BY <1>3, <1>4, <1>5, <1>6, <1>7, <1>8, <1>9, <1>10, <1>11, <1>12 DEF Task

LEMMA NextType == TypeOK /\ [Next]_vars => TypeOK'
<1> SUFFICES ASSUME TypeOK, [Next]_vars PROVE TypeOK'
  OBVIOUS
<1>1. CASE UNCHANGED vars
  <2>1. Wanted' = Wanted
    BY <1>1, WantedSame DEF vars
  <2> QED
    BY <1>1, <2>1 DEF TypeOK, vars, request, reading, tasking, running
<1>2. CASE deadline \/ timeout \/ hang_up
  <2>1. Wanted' = Wanted
    BY <1>2, WantedSame DEF deadline, timeout, hang_up
  <2>2. Err("timeout") \in Results(Seq(LiftedEvent),
                               {"none", "script", "store", "timeout", "internal", "exited"})
    BY DEF Err, Results
  <2>3. <<>> \in Seq(LiftedEvent) /\ Len(<<>>) = 0 /\ 0 <= READ_BATCH
    BY EmptySeq, SizesAssumption
  <2>4. CASE deadline
    BY <2>1, <2>4 DEF deadline, TypeOK, request, reading, tasking, running
  <2>5. CASE timeout
    BY <2>1, <2>2, <2>3, <2>5 DEF timeout, TypeOK, request, reading, running
  <2>6. CASE hang_up
    BY <2>1, <2>3, <2>6 DEF hang_up, TypeOK, request, reading, running
  <2> QED
    BY <1>2, <2>4, <2>5, <2>6
<1> QED
  BY <1>1, <1>2, WorkerType, ReaderType, TaskType DEF Next

\* Every reachable state has its declared shape, and the channels and batches hold no
\* more of the history than they are made for.
THEOREM TypeCorrect == Spec => []TypeOK
<1>1. TypeOK /\ [Next]_vars => TypeOK'
  BY NextType
<1> QED
  BY <1>1, InitType, PTL DEF Spec

-----------------------------------------------------------------------------
(* The invariant, party by party *)

Rest == Pipeline /\ Stages /\ Outcomes /\ OkIsWhole /\ TrueAnswer

\* Where the pieces of the history are while nobody has given up.
LEMMA Pieces ==
  ASSUME IInv, Flowing
  PROVE  \E k1, k2, k3, k4, k5 \in Nat \ {0} :
           /\ k1 <= next /\ k2 <= next /\ k3 <= next /\ k4 <= next /\ k5 <= next
           /\ next \in Nat
           /\ Covers(history, state, 1, k1)
           /\ Covers(history, current, k1, k2)
           /\ Channel(history, channel, k2, k3)
           /\ Covers(history, lifted, k3, k4)
           /\ Raw(raw, k4, k5)
           /\ Gathered(batch, k5, next)
<1>1. next \in Nat /\ 1..next \subseteq Nat \ {0} /\ \A k \in 1..next : k <= next
  BY Request DEF IInv, TypeOK
<1> QED
  BY <1>1 DEF IInv, Pipeline

\* Steps after which somebody has given up, or that leave all pieces where they are.
LEMMA SamePieces ==
  ASSUME IInv, UNCHANGED <<history, state, current, channel, lifted, raw, batch, next>>,
         Flowing' => Flowing
  PROVE  Pipeline'
BY DEF IInv, Pipeline

LEMMA AnswerSame ==
  ASSUME IInv, UNCHANGED <<answer, request>>, outcome' = outcome \/ answer.kind # "ok",
         reader' = reader \/ reader \notin {"ok", "failed"}, late' = late \/ late' = TRUE
  PROVE  OkIsWhole' /\ TrueAnswer'
<1>1. Wanted' = Wanted /\ history' = history
  BY WantedSame DEF request
<1>2. OkIsWhole'
  BY <1>1 DEF IInv, OkIsWhole
<1>3. TrueAnswer'
  BY DEF IInv, TrueAnswer
<1> QED
  BY <1>2, <1>3

LEMMA NoneKind == None.kind = "none" /\ \A kind : Err(kind).kind = kind
BY DEF None, Err

\* While the request is under way there is no answer yet.
LEMMA NoAnswerYet == ASSUME IInv, task # "returned" PROVE answer.kind = "none"
BY NoneKind DEF IInv, Outcomes

LEMMA DecodesInv == ASSUME IInv, task_decodes PROVE Rest'
<1>1. /\ task = "receiving" /\ raw # <<>> /\ task' = "sending"
      /\ lifted' \in Liftings(Head(raw)) /\ raw' = Tail(raw)
      /\ UNCHANGED <<request, reading, answer, channel, running, late>>
  BY DEF task_decodes
<1>2. lifted = <<>> /\ TypeOK
  BY <1>1 DEF IInv, Stages
<1>3. /\ raw \in Seq(Seq(Nat)) /\ Head(raw) \in Seq(1..Wanted) /\ Head(raw) \in Seq(Nat)
      /\ lifted' \in Seq(LiftedEvent)
  <2>1. Head(raw) \in Seq(1..Wanted)
    BY <1>1, <1>2, QueueType DEF TypeOK
  <2>2. 1..Wanted \subseteq Nat
    BY <1>2, Request
  <2>3. Seq(1..Wanted) \subseteq Seq(Nat) /\ Seq(Seq(1..Wanted)) \subseteq Seq(Seq(Nat))
    BY <2>2, SeqMonotonic
  <2>4. lifted' \in Seq(LiftedEvent)
    BY <1>1, <1>2, <2>1, LiftType
  <2> QED
    BY <1>2, <2>1, <2>3, <2>4 DEF TypeOK
<1>4. Pipeline'
  <2> SUFFICES ASSUME Flowing'
               PROVE  Pipeline'
    BY DEF Pipeline
  <2>1. Flowing
    BY <1>1 DEF Flowing, reading, running
  <2>2. PICK k1, k2, k3, k4, k5 \in Nat \ {0} :
           /\ k1 <= next /\ k2 <= next /\ k3 <= next /\ k4 <= next /\ k5 <= next
           /\ next \in Nat
           /\ Covers(history, state, 1, k1)
           /\ Covers(history, current, k1, k2)
           /\ Channel(history, channel, k2, k3)
           /\ Covers(history, lifted, k3, k4)
           /\ Raw(raw, k4, k5)
           /\ Gathered(batch, k5, next)
    BY <2>1, Pieces
  <2>3. PICK mid \in 1..k5 : Gathered(Head(raw), k4, mid) /\ Raw(Tail(raw), mid, k5)
    BY <1>1, <1>3, <2>2, RawTail
  <2>4. mid \in Nat /\ mid \in 1..next
    BY <2>2
  <2>5. Covers(history, lifted', k4, mid)
    BY <1>1, <1>2, <1>3, <2>2, <2>3, <2>4, LiftCovers
  <2>6. Covers(history, <<>> \o lifted', k3, mid)
    <3>1. <<>> \in Seq(LiftedEvent)
      BY EmptySeq
    <3> QED
      BY <1>2, <1>3, <2>2, <2>4, <2>5, <3>1, CoversConcat
  <2>7. Covers(history, lifted', k3, mid)
    BY <1>3, <2>6, ConcatEmptySeq
  <2>8. k1 \in 1..next /\ k2 \in 1..next /\ k3 \in 1..next /\ k5 \in 1..next
    BY <2>2
  <2> QED
    BY <1>1, <2>2, <2>3, <2>4, <2>7, <2>8 DEF Pipeline, request, reading, running
<1>5. Stages'
  BY <1>1, WantedSame DEF IInv, Stages, Drained, reading, running
<1>6. Outcomes'
  BY <1>1, WantedSame DEF IInv, Outcomes, TaskSends, running
<1>7. OkIsWhole' /\ TrueAnswer'
  BY <1>1, AnswerSame DEF reading, running
<1> QED
  BY <1>4, <1>5, <1>6, <1>7 DEF Rest

LEMMA SendsInv == ASSUME IInv, task_sends PROVE Rest'
<1>1. /\ task = "sending" /\ lifted' = <<>>
      /\ UNCHANGED <<request, reading, raw, answer, running, late>>
      /\ \/ /\ WorkerReceives
            /\ channel' = Append(channel, lifted)
            /\ task' = "receiving"
         \/ /\ ~WorkerReceives
            /\ task' = "joining"
            /\ UNCHANGED channel
  BY DEF task_sends
<1>2. TypeOK
  BY DEF IInv
<1>3. OkIsWhole' /\ TrueAnswer'
  BY <1>1, AnswerSame DEF reading, running
<1>4. CASE channel' = Append(channel, lifted) /\ task' = "receiving"
  <2>1. Pipeline'
    <3> SUFFICES ASSUME Flowing'
                 PROVE  Pipeline'
      BY DEF Pipeline
    <3>1. Flowing
      BY <1>1 DEF Flowing, reading, running
    <3>2. PICK k1, k2, k3, k4, k5 \in Nat \ {0} :
             /\ k1 <= next /\ k2 <= next /\ k3 <= next /\ k4 <= next /\ k5 <= next
             /\ next \in Nat
             /\ Covers(history, state, 1, k1)
             /\ Covers(history, current, k1, k2)
             /\ Channel(history, channel, k2, k3)
             /\ Covers(history, lifted, k3, k4)
             /\ Raw(raw, k4, k5)
             /\ Gathered(batch, k5, next)
      BY <3>1, Pieces
    <3>3. Channel(history, channel', k2, k4)
      <4>1. channel \in Seq(Seq(LiftedEvent)) /\ lifted \in Seq(LiftedEvent)
        BY <1>2 DEF TypeOK
      <4>2. Channel(history, Append(channel, lifted), k2, k4)
        BY <3>2, <4>1, ChannelAppend
      <4> QED
        BY <1>4, <4>2
    <3>4. Covers(history, lifted', k4, k4)
      BY <1>1, <3>2, CoversNothing
    <3>5. k1 \in 1..next /\ k2 \in 1..next /\ k4 \in 1..next /\ k5 \in 1..next
      BY <3>2
    <3> QED
      BY <1>1, <3>2, <3>3, <3>4, <3>5 DEF Pipeline, request, reading, running
  <2>2. Stages'
    BY <1>1, <1>4, WantedSame DEF IInv, Stages, Drained, reading, running
  <2>3. Outcomes'
    BY <1>1, <1>4, WantedSame DEF IInv, Outcomes, TaskSends, running
  <2> QED
    BY <1>3, <2>1, <2>2, <2>3 DEF Rest
<1>5. CASE ~WorkerReceives /\ task' = "joining" /\ UNCHANGED channel
  <2>1. worker = "done" /\ outcome.kind # "ok" /\ outcome # None
    BY <1>1, <1>2, <1>5 DEF IInv, WorkerReceives, TypeOK, Outcomes, TaskSends
  <2>2. Pipeline'
    BY <1>1, <2>1 DEF Pipeline, Flowing, running
  <2>3. Stages'
    BY <1>1, <1>5, <2>1, WantedSame DEF IInv, Stages, Drained, reading, running
  <2>4. Outcomes'
    BY <1>1, <1>5, <2>1, WantedSame DEF IInv, Outcomes, TaskSends, running
  <2> QED
    BY <1>3, <2>2, <2>3, <2>4 DEF Rest
<1> QED
  BY <1>1, <1>4, <1>5

\* The other steps of the request's task.
LEMMA TaskInv ==
  ASSUME IInv, \/ setup_received \/ build_query_fails \/ setup_failed
               \/ task_drained \/ task_joins \/ task_finishes
  PROVE  Rest'
<1>1. /\ task # "returned" /\ answer = None /\ answer.kind = "none"
      /\ UNCHANGED <<request, next, batch, raw, lifted, channel, running, late>>
  BY NoneKind DEF IInv, Outcomes, setup_received, build_query_fails, setup_failed,
     task_drained, task_joins, task_finishes, reading
<1>2. /\ Wanted' = Wanted /\ history' = history
      /\ UNCHANGED <<worker, current, state, outcome>>
  BY <1>1, WantedSame DEF request, running
<1>3. Pipeline'
  <2>1. Flowing' => Flowing
    BY <1>1, <1>2 DEF Flowing, IInv, Stages, reading, setup_received, build_query_fails,
       setup_failed, task_drained, task_joins, task_finishes
  <2> QED
    BY <1>1, <1>2, <2>1, SamePieces
<1>4. CASE setup_received \/ task_drained
  <2>1. answer' = answer /\ (reader' = reader \/ reader \notin {"ok", "failed"})
    BY <1>4 DEF IInv, Stages, setup_received, task_drained, reading
  <2>2. OkIsWhole' /\ TrueAnswer'
    BY <1>1, <1>2, <2>1, AnswerSame
  <2>3. Stages' /\ Outcomes'
    <3>1. CASE setup_received
      BY <1>1, <1>2, <3>1 DEF IInv, Stages, Outcomes, TaskSends, Drained, setup_received
    <3>2. CASE task_drained
      BY <1>1, <1>2, <3>2 DEF IInv, TypeOK, Stages, Outcomes, TaskSends, Drained, task_drained,
         reading, ReaderSends
    <3> QED
      BY <1>4, <3>1, <3>2
  <2> QED
    BY <1>3, <2>2, <2>3 DEF Rest
<1>5. CASE \/ build_query_fails \/ setup_failed
  <2>1. /\ task = "waiting" /\ task' = "returned" /\ UNCHANGED reading
        /\ answer' = Err("script") \/ (answer' = outcome /\ outcome # None)
    BY <1>1, <1>5 DEF build_query_fails, setup_failed, IInv, Outcomes
  <2>2. answer'.kind = "script"
    BY <2>1, NoneKind DEF IInv, TypeOK, Outcomes, TaskSends, Results, None
  <2>3. Stages' /\ Outcomes'
    BY <1>1, <1>2, <2>1 DEF IInv, Stages, Outcomes, TaskSends, Drained, reading
  <2>4. OkIsWhole' /\ TrueAnswer'
    BY <2>2 DEF OkIsWhole, TrueAnswer
  <2> QED
    BY <1>3, <2>3, <2>4 DEF Rest
<1>6. CASE task_joins
  <2>1. CASE reader = "ok" /\ task' = "finishing" /\ UNCHANGED answer
    <3>1. OkIsWhole' /\ TrueAnswer'
      BY <1>1, <1>2, <1>6, <2>1, AnswerSame DEF task_joins, reading
    <3>2. Stages' /\ Outcomes'
      BY <1>1, <1>2, <1>6, <2>1 DEF IInv, Stages, Outcomes, TaskSends, Drained, reading,
         task_joins
    <3> QED
      BY <1>3, <3>1, <3>2 DEF Rest
  <2>2. CASE reader = "failed" /\ task' = "returned" /\ answer' = Err("store")
    <3>1. OkIsWhole' /\ TrueAnswer'
      BY <1>6, <2>2, NoneKind DEF OkIsWhole, TrueAnswer, task_joins, reading
    <3>2. Stages' /\ Outcomes'
      BY <1>1, <1>2, <1>6, <2>2 DEF IInv, Stages, Outcomes, TaskSends, Drained, reading,
         task_joins
    <3> QED
      BY <1>3, <3>1, <3>2 DEF Rest
  <2>3. CASE reader = "panicked" /\ task' = "returned" /\ answer' = Err("internal")
    <3>1. OkIsWhole' /\ TrueAnswer'
      BY <2>3, NoneKind DEF OkIsWhole, TrueAnswer
    <3>2. Stages' /\ Outcomes'
      BY <1>1, <1>2, <1>6, <2>3 DEF IInv, Stages, Outcomes, TaskSends, Drained, reading,
         task_joins
    <3> QED
      BY <1>3, <3>1, <3>2 DEF Rest
  <2> QED
    BY <1>6, <2>1, <2>2, <2>3 DEF task_joins
<1>7. CASE task_finishes
  <2>1. /\ task = "finishing" /\ worker = "done" /\ task' = "returned"
        /\ answer' = outcome \/ answer' = Err("internal")
        /\ outcome # None /\ UNCHANGED reading /\ reader = "ok"
    BY <1>1, <1>7 DEF task_finishes, IInv, Outcomes, Stages
  <2>2. outcome.kind \in {"ok", "script"}
    BY <2>1 DEF IInv, TypeOK, Results, None
  <2>3. OkIsWhole' /\ TrueAnswer'
    BY <1>2, <2>1, <2>2, NoneKind DEF IInv, Outcomes, OkIsWhole, TrueAnswer, reading, Broken
  <2>4. Stages' /\ Outcomes'
    BY <1>1, <1>2, <2>1 DEF IInv, Stages, Outcomes, TaskSends, Drained, reading
  <2> QED
    BY <1>3, <2>3, <2>4 DEF Rest
<1> QED
  BY <1>4, <1>5, <1>6, <1>7

\* The script's thread never started, or a batch cannot be written.
LEMMA GivesUpInv == ASSUME IInv, spawn_fails \/ encode_fails PROVE Rest'
<1>1. /\ task' = "returned" /\ answer' = Err("internal")
      /\ UNCHANGED <<request, reading, raw, channel, current, state, outcome, late>>
      /\ \/ worker' = worker /\ task = "sending" /\ lifted' = <<>>
         \/ worker = "setup" /\ worker' = "done" /\ task = "waiting" /\ lifted' = lifted
  BY DEF spawn_fails, encode_fails, running
<1>2. Pipeline'
  BY <1>1 DEF Pipeline, Flowing
<1>3. Stages'
  <2>1. CASE worker' = worker
    BY <1>1, <2>1 DEF IInv, Stages, TypeOK
  <2>2. CASE worker = "setup" /\ worker' = "done" /\ task = "waiting" /\ lifted' = lifted
    BY <1>1, <2>2 DEF IInv, Stages, TypeOK
  <2> QED
    BY <1>1, <2>1, <2>2
<1>4. Outcomes'
  BY <1>1 DEF IInv, Stages, Outcomes, TaskSends, reading
<1>5. OkIsWhole' /\ TrueAnswer'
  BY <1>1, NoneKind DEF OkIsWhole, TrueAnswer
<1> QED
  BY <1>2, <1>3, <1>4, <1>5 DEF Rest

LEMMA ReceivesInv == ASSUME IInv, blocking_recv PROVE Rest'
<1>1. /\ worker = "ready" /\ channel # <<>> /\ worker' = "folding"
      /\ current' = Head(channel) /\ channel' = Tail(channel)
      /\ UNCHANGED <<request, reading, raw, tasking, state, outcome, late>>
  BY DEF blocking_recv
<1>2. TypeOK /\ current = <<>>
  BY <1>1 DEF IInv, Stages
<1>3. /\ channel \in Seq(Seq(LiftedEvent)) /\ Head(channel) \in Seq(LiftedEvent)
      /\ state \in Seq(LiftedEvent)
  BY <1>1, <1>2, QueueType DEF TypeOK
<1>4. Pipeline'
  <2> SUFFICES ASSUME Flowing'
               PROVE  Pipeline'
    BY DEF Pipeline
  <2>1. Flowing
    BY <1>1 DEF Flowing, reading, tasking
  <2>2. PICK k1, k2, k3, k4, k5 \in Nat \ {0} :
           /\ k1 <= next /\ k2 <= next /\ k3 <= next /\ k4 <= next /\ k5 <= next
           /\ next \in Nat
           /\ Covers(history, state, 1, k1)
           /\ Covers(history, current, k1, k2)
           /\ Channel(history, channel, k2, k3)
           /\ Covers(history, lifted, k3, k4)
           /\ Raw(raw, k4, k5)
           /\ Gathered(batch, k5, next)
    BY <2>1, Pieces
  <2>3. PICK mid \in 1..k3 :
          Covers(history, Head(channel), k2, mid) /\ Channel(history, Tail(channel), mid, k3)
    BY <1>1, <1>3, <2>2, ChannelTail
  <2>4. Covers(history, state \o <<>>, 1, k2)
    <3>1. <<>> \in Seq(LiftedEvent)
      BY EmptySeq
    <3> QED
      BY <1>2, <1>3, <2>2, <3>1, CoversConcat
  <2>5. Covers(history, state, 1, k2)
    BY <1>3, <2>4, ConcatEmptySeq
  <2>6. mid \in 1..next /\ k2 \in 1..next /\ k3 \in 1..next /\ k4 \in 1..next /\ k5 \in 1..next
    BY <2>2
  <2> QED
    BY <1>1, <2>2, <2>3, <2>5, <2>6 DEF Pipeline, request, reading, tasking
<1>5. Stages' /\ Outcomes'
  BY <1>1, WantedSame DEF IInv, Stages, Outcomes, Drained, TaskSends, request, reading,
     tasking
<1>6. OkIsWhole' /\ TrueAnswer'
  BY <1>1, AnswerSame DEF reading, tasking
<1> QED
  BY <1>4, <1>5, <1>6 DEF Rest

LEMMA FoldsInv == ASSUME IInv, runBatch PROVE Rest'
<1>1. /\ worker = "folding" /\ worker' = "ready"
      /\ state' = state \o current /\ current' = <<>>
      /\ UNCHANGED <<request, reading, raw, tasking, channel, outcome, late>>
  BY DEF runBatch
<1>2. TypeOK /\ state \in Seq(LiftedEvent) /\ current \in Seq(LiftedEvent)
  BY DEF IInv, TypeOK
<1>3. Pipeline'
  <2> SUFFICES ASSUME Flowing'
               PROVE  Pipeline'
    BY DEF Pipeline
  <2>1. Flowing
    BY <1>1 DEF Flowing, reading, tasking
  <2>2. PICK k1, k2, k3, k4, k5 \in Nat \ {0} :
           /\ k1 <= next /\ k2 <= next /\ k3 <= next /\ k4 <= next /\ k5 <= next
           /\ next \in Nat
           /\ Covers(history, state, 1, k1)
           /\ Covers(history, current, k1, k2)
           /\ Channel(history, channel, k2, k3)
           /\ Covers(history, lifted, k3, k4)
           /\ Raw(raw, k4, k5)
           /\ Gathered(batch, k5, next)
    BY <2>1, Pieces
  <2>3. Covers(history, state \o current, 1, k2)
    BY <1>2, <2>2, CoversConcat
  <2>4. Covers(history, current', k2, k2)
    BY <1>1, <2>2, CoversNothing
  <2>5. k2 \in 1..next /\ k3 \in 1..next /\ k4 \in 1..next /\ k5 \in 1..next
    BY <2>2
  <2> QED
    BY <1>1, <2>2, <2>3, <2>4, <2>5 DEF Pipeline, request, reading, tasking
<1>4. Stages' /\ Outcomes'
  BY <1>1, WantedSame DEF IInv, Stages, Outcomes, Drained, TaskSends, request, reading,
     tasking
<1>5. OkIsWhole' /\ TrueAnswer'
  BY <1>1, AnswerSame DEF reading, tasking
<1> QED
  BY <1>3, <1>4, <1>5 DEF Rest

\* A script that makes its view has been given everything, or the reader has failed.
LEMMA FinalizeInv == ASSUME IInv, finalize PROVE Rest'
<1>1. /\ worker = "ready" /\ channel = <<>> /\ ~TaskSends
      /\ \/ worker' = "done" /\ outcome' \in {Ok(state), Err("script")}
         \/ worker' = "looping" /\ outcome' = outcome
      /\ UNCHANGED <<request, reading, raw, tasking, channel, current, state, late>>
  BY DEF finalize
<1>2. TypeOK /\ current = <<>> /\ outcome = None
  BY <1>1 DEF IInv, Stages, Outcomes
<1>3. Pipeline'
  BY <1>1 DEF Pipeline, Flowing
<1>4. Stages'
  BY <1>1, WantedSame DEF IInv, Stages, Drained, reading, tasking
<1>5. OkIsWhole' /\ TrueAnswer'
  <2>1. answer.kind # "ok"
    BY <1>2, NoneKind DEF IInv, TrueAnswer
  <2> QED
    BY <1>1, <2>1, AnswerSame DEF reading, tasking
<1>6. /\ worker' = "looping" => outcome' = None
      /\ worker' = "done" => outcome' # None
      /\ outcome'.kind = "ok" => outcome'.state = state
  BY <1>1, <1>2 DEF Ok, Err, None
<1>7. ASSUME task \in {"joining", "finishing"}, reader \notin Broken
      PROVE  reader = "ok" /\ Covers(history, state, 1, Wanted + 1)
  <2>1. reader = "ok" /\ next = Wanted + 1 /\ batch = <<>> /\ raw = <<>> /\ lifted = <<>>
    BY <1>1, <1>7 DEF IInv, Stages, Drained
  <2>2. Flowing
    BY <1>1, <1>7 DEF Flowing
  <2>3. PICK k1, k2, k3, k4, k5 \in Nat \ {0} :
           /\ k1 <= next /\ k2 <= next /\ k3 <= next /\ k4 <= next /\ k5 <= next
           /\ next \in Nat
           /\ Covers(history, state, 1, k1)
           /\ Covers(history, current, k1, k2)
           /\ Channel(history, channel, k2, k3)
           /\ Covers(history, lifted, k3, k4)
           /\ Raw(raw, k4, k5)
           /\ Gathered(batch, k5, next)
    BY <2>2, Pieces
  <2>4. k2 = k3
    BY <1>1, <2>3, ChannelNothing
  <2>5. k4 = k5
    BY <2>1, <2>3, RawNothing
  <2>6. k5 = next
    BY <2>1, <2>3, GatheredEmpty
  <2>7. <<>> \in Seq(LiftedEvent) /\ state \in Seq(LiftedEvent)
    BY <1>2, EmptySeq DEF TypeOK
  <2>8. Covers(history, state \o <<>>, 1, k2)
    BY <1>2, <2>3, <2>7, CoversConcat
  <2>9. Covers(history, state, 1, k2)
    BY <2>7, <2>8, ConcatEmptySeq
  <2>10. Covers(history, state \o <<>>, 1, k4)
    BY <2>1, <2>3, <2>4, <2>7, <2>9, CoversConcat
  <2>11. Covers(history, state, 1, k4)
    BY <2>7, <2>10, ConcatEmptySeq
  <2> QED
    BY <2>1, <2>5, <2>6, <2>11
<1>8. Outcomes'
  <2>1. Wanted' = Wanted /\ UNCHANGED <<history, reader, task, answer>>
    BY <1>1, WantedSame DEF request, reading, tasking
  <2> QED
    BY <1>1, <1>6, <1>7, <2>1 DEF IInv, Outcomes, TaskSends
<1> QED
  BY <1>3, <1>4, <1>5, <1>8 DEF Rest

\* The other steps of the script's thread.
LEMMA WorkerInv ==
  ASSUME IInv, setup \/ runBatch_fails \/ interrupt
  PROVE  Rest'
<1>1. /\ worker # "done" /\ outcome = None
      /\ UNCHANGED <<request, reading, raw, tasking, channel, state, late>>
      /\ current' = IF worker = "folding" THEN <<>> ELSE current
  BY DEF setup, runBatch_fails, interrupt, IInv, Stages, Outcomes
<1>2. \/ worker' = "looping" /\ outcome' = None
      \/ worker' = "done" /\ outcome' = Err("script")
      \/ worker = "setup" /\ worker' = "ready" /\ task = "waiting" /\ outcome' = None
      \/ worker = "setup" /\ worker' = "done" /\ task = "returned" /\ outcome' = None
  BY <1>1 DEF setup, runBatch_fails, interrupt, IInv, Stages
<1>3. Pipeline'
  <2>1. CASE worker = "setup" /\ worker' = "ready"
    <3>1. Flowing' => Flowing
      BY <2>1, <1>1 DEF Flowing, reading, tasking
    <3> QED
      BY <1>1, <2>1, <3>1, SamePieces DEF request, reading, tasking
  <2>2. CASE worker' \in {"looping", "done"}
    BY <2>2 DEF Pipeline, Flowing
  <2> QED
    BY <1>2, <2>1, <2>2
<1>4. answer.kind # "ok"
  BY <1>1, NoneKind DEF IInv, TrueAnswer
<1>5. OkIsWhole' /\ TrueAnswer'
  BY <1>1, <1>4, AnswerSame DEF reading, tasking
<1>6. Stages'
  BY <1>1, <1>2, WantedSame DEF IInv, Stages, Drained, reading, tasking
<1>7. Outcomes'
  <2>1. outcome'.kind # "ok" /\ (outcome' = None <=> outcome'.kind = "none")
    BY <1>2 DEF Err, None
  <2> QED
    BY <1>1, <1>2, <2>1 DEF IInv, Outcomes, TaskSends, tasking, Err, None
<1> QED
  BY <1>3, <1>5, <1>6, <1>7 DEF Rest

LEMMA ReadsInv == ASSUME IInv, reader_reads PROVE Rest'
<1>1. /\ reader = "scanning" /\ next <= Wanted
      /\ batch' = Append(batch, next) /\ next' = next + 1
      /\ UNCHANGED <<request, reader, raw, tasking, channel, running, late>>
  BY DEF reader_reads
<1>2. TypeOK /\ batch \in Seq(Nat)
  <2>1. 1..Wanted \subseteq Nat
    BY Request DEF IInv
  <2> QED
    BY <2>1, SeqMonotonic DEF IInv, TypeOK
<1>3. Pipeline'
  <2> SUFFICES ASSUME Flowing'
               PROVE  Pipeline'
    BY DEF Pipeline
  <2>1. Flowing
    BY <1>1 DEF Flowing, tasking, running
  <2>2. PICK k1, k2, k3, k4, k5 \in Nat \ {0} :
           /\ k1 <= next /\ k2 <= next /\ k3 <= next /\ k4 <= next /\ k5 <= next
           /\ next \in Nat
           /\ Covers(history, state, 1, k1)
           /\ Covers(history, current, k1, k2)
           /\ Channel(history, channel, k2, k3)
           /\ Covers(history, lifted, k3, k4)
           /\ Raw(raw, k4, k5)
           /\ Gathered(batch, k5, next)
    BY <2>1, Pieces
  <2>3. Gathered(batch', k5, next')
    BY <1>1, <1>2, <2>2, GatheredMore
  <2>4. /\ k1 \in 1..next' /\ k2 \in 1..next' /\ k3 \in 1..next'
        /\ k4 \in 1..next' /\ k5 \in 1..next'
    BY <1>1, <2>2
  <2> QED
    BY <1>1, <2>2, <2>3, <2>4 DEF Pipeline, request, tasking, running
<1>4. Stages'
  BY <1>1, WantedSame DEF IInv, Stages, Drained, tasking, running
<1>5. Outcomes'
  BY <1>1, WantedSame DEF IInv, Outcomes, TaskSends, request, tasking, running
<1>6. OkIsWhole' /\ TrueAnswer'
  BY <1>1, AnswerSame DEF tasking, running
<1> QED
  BY <1>3, <1>4, <1>5, <1>6 DEF Rest

\* A batch that is sent is still of the history's pieces.
LEMMA SendPieces ==
  ASSUME IInv, Send, UNCHANGED <<request, next, task, lifted, channel, running>>,
         reader' \in {"scanning", "ok"}, reader = "scanning"
  PROVE  Pipeline'
<1>1. raw' = Append(raw, batch) /\ batch' = <<>>
  BY DEF Send
<1>2. batch \in Seq(Nat) /\ raw \in Seq(Seq(Nat))
  <2>1. 1..Wanted \subseteq Nat
    BY Request DEF IInv
  <2> QED
    BY <2>1, SeqMonotonic DEF IInv, TypeOK
<1> SUFFICES ASSUME Flowing'
             PROVE  Pipeline'
  BY DEF Pipeline
<1>3. Flowing
  BY DEF Flowing, running
<1>4. PICK k1, k2, k3, k4, k5 \in Nat \ {0} :
           /\ k1 <= next /\ k2 <= next /\ k3 <= next /\ k4 <= next /\ k5 <= next
           /\ next \in Nat
           /\ Covers(history, state, 1, k1)
           /\ Covers(history, current, k1, k2)
           /\ Channel(history, channel, k2, k3)
           /\ Covers(history, lifted, k3, k4)
           /\ Raw(raw, k4, k5)
           /\ Gathered(batch, k5, next)
  BY <1>3, Pieces
<1>5. Raw(Append(raw, batch), k4, next)
  BY <1>2, <1>4, RawAppend
<1>6. Gathered(batch', next, next)
  BY <1>1, <1>4, GatheredNothing
<1>7. /\ k1 \in 1..next /\ k2 \in 1..next /\ k3 \in 1..next /\ k4 \in 1..next
      /\ next \in 1..next
  BY <1>4
<1> QED
  BY <1>1, <1>4, <1>5, <1>6, <1>7 DEF Pipeline, request, running

LEMMA ReaderSendsInv == ASSUME IInv, reader_sends PROVE Rest'
<1>1. /\ reader = "scanning"
      /\ UNCHANGED <<request, next, tasking, channel, running, late>>
      /\ \/ TaskReceives /\ Send /\ UNCHANGED reader
         \/ ~TaskReceives /\ reader' = "ok" /\ UNCHANGED <<raw, batch>>
  BY DEF reader_sends
<1>2. OkIsWhole' /\ TrueAnswer'
  BY <1>1, AnswerSame DEF tasking, running
<1>3. CASE TaskReceives /\ Send /\ UNCHANGED reader
  <2>1. Pipeline'
    BY <1>1, <1>3, SendPieces DEF tasking
  <2>2. Stages'
    BY <1>1, <1>3, WantedSame DEF IInv, Stages, Drained, tasking, running, TaskReceives
  <2>3. Outcomes'
    BY <1>1, <1>3, WantedSame DEF IInv, Outcomes, TaskSends, request, tasking, running
  <2> QED
    BY <1>2, <2>1, <2>2, <2>3 DEF Rest
<1>4. CASE ~TaskReceives /\ reader' = "ok" /\ UNCHANGED <<raw, batch>>
  <2>1. Pipeline'
    <3>1. Flowing' => Flowing
      BY <1>1 DEF Flowing, tasking, running
    <3> QED
      BY <1>1, <1>4, <3>1, SamePieces DEF request, tasking, running
  <2>2. Stages'
    BY <1>1, <1>4, WantedSame DEF IInv, Stages, Drained, tasking, running, TaskReceives
  <2>3. Outcomes'
    BY <1>1, <1>4, WantedSame DEF IInv, Outcomes, TaskSends, request, tasking, running
  <2> QED
    BY <1>2, <2>1, <2>2, <2>3 DEF Rest
<1> QED
  BY <1>1, <1>3, <1>4

LEMMA ReaderFailsInv == ASSUME IInv, reader_fails PROVE Rest'
<1>1. /\ reader = "scanning" /\ reader' \in Broken
      /\ UNCHANGED <<request, next, raw, tasking, channel, running, late>>
  BY DEF reader_fails
<1>2. OkIsWhole' /\ TrueAnswer'
  BY <1>1, AnswerSame DEF tasking, running
<1>3. Pipeline'
  BY <1>1 DEF Pipeline, Flowing
<1>4. Stages'
  BY <1>1 DEF IInv, Stages, tasking, running
<1>5. Outcomes'
  BY <1>1 DEF IInv, Outcomes, TaskSends, tasking, running
<1> QED
  BY <1>2, <1>3, <1>4, <1>5 DEF Rest

LEMMA ReaderEndsInv == ASSUME IInv, reader_ends PROVE Rest'
<1>1. /\ reader = "scanning" /\ next > Wanted /\ reader' = "ok"
      /\ UNCHANGED <<request, next, tasking, channel, running, late>>
      /\ \/ TaskReceives /\ Send
         \/ (batch = <<>> \/ ~TaskReceives) /\ UNCHANGED <<raw, batch>>
  BY DEF reader_ends
<1>2. OkIsWhole' /\ TrueAnswer'
  BY <1>1, AnswerSame DEF tasking, running
<1>3. Outcomes'
  BY <1>1, WantedSame DEF IInv, Outcomes, TaskSends, request, tasking, running
<1>4. next = Wanted + 1
  BY <1>1, Request DEF IInv, TypeOK
<1>5. CASE TaskReceives /\ Send
  <2>1. Pipeline'
    BY <1>1, <1>5, SendPieces DEF tasking
  <2>2. Stages'
    BY <1>1, <1>4, <1>5, WantedSame DEF IInv, Stages, Drained, tasking, running, TaskReceives,
       Send
  <2> QED
    BY <1>2, <1>3, <2>1, <2>2 DEF Rest
<1>6. CASE (batch = <<>> \/ ~TaskReceives) /\ UNCHANGED <<raw, batch>>
  <2>1. Pipeline'
    <3>1. Flowing' => Flowing
      BY <1>1 DEF Flowing, tasking, running
    <3> QED
      BY <1>1, <1>6, <3>1, SamePieces DEF request, tasking, running
  <2>2. Stages'
    BY <1>1, <1>4, <1>6, WantedSame DEF IInv, Stages, Drained, tasking, running, TaskReceives
  <2> QED
    BY <1>2, <1>3, <2>1, <2>2 DEF Rest
<1> QED
  BY <1>1, <1>5, <1>6

\* The clock and the client.
LEMMA LeavesInv == ASSUME IInv, deadline \/ timeout \/ hang_up PROVE Rest'
<1>1. /\ UNCHANGED <<request, reading, raw, channel, running>>
      /\ late' = late \/ late' = TRUE
  BY DEF deadline, timeout, hang_up
<1>2. CASE deadline
  <2>1. UNCHANGED tasking
    BY <1>2 DEF deadline
  <2>2. Pipeline'
    <3>1. Flowing' => Flowing
      BY <1>1, <2>1 DEF Flowing, reading, tasking, running
    <3> QED
      BY <1>1, <2>1, <3>1, SamePieces DEF request, reading, tasking, running
  <2>3. OkIsWhole' /\ TrueAnswer'
    BY <1>1, <2>1, AnswerSame DEF reading, tasking, running
  <2>4. Stages'
    BY <1>1, <2>1, WantedSame DEF IInv, Stages, Drained, reading, tasking, running
  <2>5. Outcomes'
    BY <1>1, <2>1, WantedSame DEF IInv, Outcomes, TaskSends, request, reading, tasking, running
  <2> QED
    BY <2>2, <2>3, <2>4, <2>5 DEF Rest
<1>3. CASE timeout \/ hang_up
  <2>1. /\ task # "returned" /\ task' = "returned" /\ lifted' = <<>>
        /\ (answer' = Err("timeout") /\ late /\ late' = late) \/ UNCHANGED answer
    BY <1>3 DEF timeout, hang_up
  <2>2. answer.kind = "none"
    BY <2>1, NoAnswerYet
  <2>3. OkIsWhole' /\ TrueAnswer'
    BY <2>1, <2>2, NoneKind DEF OkIsWhole, TrueAnswer
  <2>4. Pipeline'
    BY <2>1 DEF Pipeline, Flowing
  <2>5. Stages' /\ Outcomes'
    BY <1>1, <2>1 DEF IInv, Stages, Outcomes, TaskSends, reading, running
  <2> QED
    BY <2>3, <2>4, <2>5 DEF Rest
<1> QED
  BY <1>2, <1>3

LEMMA InitInv == Init => IInv
<1> SUFFICES ASSUME Init PROVE IInv
  OBVIOUS
<1>1. TypeOK
  BY InitType
<1>2. Pipeline
  <2>1. /\ Covers(history, <<>>, 1, 1) /\ Channel(history, <<>>, 1, 1)
        /\ Raw(<<>>, 1, 1) /\ Gathered(<<>>, 1, 1) /\ 1 \in 1..1
    BY CoversNothing, ChannelNothing, RawNothing, GatheredNothing
  <2> QED
    BY <2>1 DEF Init, Pipeline
<1>3. Stages /\ Outcomes /\ OkIsWhole /\ TrueAnswer
  BY NoneKind DEF Init, Stages, Outcomes, OkIsWhole, TrueAnswer
<1> QED
  BY <1>1, <1>2, <1>3 DEF IInv

LEMMA NextInv == IInv /\ [Next]_vars => IInv'
<1> SUFFICES ASSUME IInv, [Next]_vars PROVE IInv'
  OBVIOUS
<1>1. TypeOK'
  BY NextType DEF IInv
<1>2. CASE UNCHANGED vars
  <2>1. Pipeline'
    <3>1. Flowing' => Flowing
      BY <1>2 DEF Flowing, vars, reading, tasking, running
    <3> QED
      BY <1>2, <3>1, SamePieces DEF vars, request, reading, tasking, running
  <2>2. OkIsWhole' /\ TrueAnswer'
    BY <1>2, AnswerSame DEF vars, reading, tasking, running
  <2>3. Stages' /\ Outcomes'
    BY <1>2, WantedSame DEF IInv, Stages, Outcomes, Drained, TaskSends, vars, request,
       reading, tasking, running
  <2> QED
    BY <1>1, <2>1, <2>2, <2>3 DEF IInv
<1>3. CASE Next
  <2>1. Rest'
    BY <1>3, DecodesInv, SendsInv, TaskInv, GivesUpInv, ReceivesInv, FoldsInv, FinalizeInv, WorkerInv,
       ReadsInv, ReaderSendsInv, ReaderFailsInv, ReaderEndsInv, LeavesInv
    DEF Next, Worker, Reader, Task
  <2> QED
    BY <1>1, <2>1 DEF Rest, IInv
<1> QED
  BY <1>2, <1>3

LEMMA Invariance == Spec => []IInv
BY InitInv, NextInv, PTL DEF Spec

-----------------------------------------------------------------------------
(* The theorems *)

\* A view that is shown as a success was made from all the events asked for, each once
\* and in the order of the store.
THEOREM SuccessIsWhole == Spec => []OkIsWhole
<1>1. IInv => OkIsWhole
  BY DEF IInv
<1> QED
  BY <1>1, Invariance, PTL

\* An error names the party that failed, and is never that a worker left without a word.
THEOREM AnswersAreTrue == Spec => []TrueAnswer
<1>1. IInv => TrueAnswer
  BY DEF IInv
<1> QED
  BY <1>1, Invariance, PTL

=============================================================================
