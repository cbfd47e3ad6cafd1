----------------------- MODULE ActivationOffloadProofs -----------------------
(***************************************************************************)
(* ActivationOffload for every number of layers and tensors and every      *)
(* number of passes: no access races with another one, two groups at most  *)
(* are on the device, and a pass leaves the handler as it found it.        *)
(***************************************************************************)
EXTENDS ActivationOffload, FiniteSetTheorems, TLAPS

-----------------------------------------------------------------------------
(* The inductive invariant.                                                *)

IsStamp(x) == x.on \in Streams /\ x.at \in Nat
IsSlot(x) == DOMAIN x = {"on", "key", "stamp"} /\ x.on \in {"gpu", "host"} /\ IsStamp(x.stamp)
IsClock(clk) == clk \in [Streams -> [Streams -> Nat]]

Types ==
    /\ layers \in LayerCounts
    /\ phase \in {"idle", "forward", "nograd", "backward", "raised"}
    /\ current \in Nat /\ count \in Nat
    /\ saved = [tag \in DOMAIN saved |-> saved[tag]]
    /\ \A tag \in DOMAIN saved : IsSlot(saved[tag])
    /\ mapping = [g \in DOMAIN mapping |-> mapping[g]]
    /\ \A g \in DOMAIN mapping : IsStamp(mapping[g].stamp)
    /\ IsClock(clock)
    /\ lastUse.on = "compute" /\ lastUse.at \in Nat

\* Stamps are of the past.
Stamps ==
    /\ \A tag \in DOMAIN saved : saved[tag].stamp.at <= clock[saved[tag].stamp.on][saved[tag].stamp.on]
    /\ \A g \in DOMAIN mapping : /\ mapping[g].stamp.on = "d2h"
                                 /\ mapping[g].stamp.at <= clock["d2h"]["d2h"]
    /\ lastUse.at <= clock["compute"]["compute"]

\* What is on the CPU was copied there with its storage.
Copied == \A tag \in DOMAIN saved :
    saved[tag].on = "host" => /\ tag[1] \in DOMAIN mapping
                              /\ saved[tag].key \in mapping[tag[1]].keys

\* In the forward pass every layer but the one that runs has been copied; the buffers
\* are those of this layer and of the one before it.
ForwardInv ==
    phase \in {"forward", "nograd"} /\ current < layers =>
      /\ count = IF current = 0 THEN 0 ELSE current - 1
      /\ DOMAIN mapping = 0 .. current - 1
      /\ \A tag \in DOMAIN saved : /\ tag[1] \in 0 .. current
                                   /\ saved[tag].on = "host" <=> tag[1] < current
                                   /\ saved[tag].stamp.on = "compute"
      /\ \A tag \in buf : tag[1] \in {current - 1, current} /\ tag[1] \in 0 .. layers - 2

\* In the backward pass the layer that runs is back, and so is the next one.
BackwardInv ==
    phase = "backward" =>
      /\ current <= layers
      /\ count = IF current >= 2 THEN current - 1 ELSE current
      /\ DOMAIN mapping = 0 .. current - 2
      /\ \A tag \in DOMAIN saved : /\ tag[1] \in 0 .. current
                                   /\ saved[tag].on = "host" <=> tag[1] < current - 1
                                   /\ saved[tag].stamp.on \in {"compute", "h2d"}
                                   /\ tag[1] = current =>
                                        saved[tag].stamp.at <= clock["compute"][saved[tag].stamp.on]
      /\ buf = {}
      /\ \A g \in DOMAIN mapping : mapping[g].stamp.at <= clock["compute"]["d2h"]

\* Between two passes nothing is left, or a pass without gradients has used up the
\* windows, so that the next commit raises.
RestInv ==
    /\ phase = "idle" /\ current < layers =>
         current = 0 /\ count = 0 /\ saved = <<>> /\ buf = {} /\ mapping = <<>>
    /\ phase \in {"idle", "forward", "nograd"} /\ current >= layers => ~paired /\ count = layers - 1
    /\ phase \in {"idle", "nograd"} => saved = <<>>
    /\ phase = "nograd" => ~paired
    /\ phase = "raised" => ~paired

OffloadInv ==
    /\ Types /\ Stamps /\ Copied /\ ForwardInv /\ BackwardInv /\ RestInv
    /\ raced = FALSE

-----------------------------------------------------------------------------
(* The window map and the streams.                                         *)

\* Three layers or more are cut into windows that end with layers 1, 2, 3 and so on.
LEMMA Windows ==
    ASSUME Types
    PROVE  /\ layers \in Nat /\ layers >= 3 /\ NumOffload = layers - 1
           /\ \A i \in Nat : LayerWindow(i) = i + 1
<1>1. layers \in Nat /\ layers >= 3
  BY LayerCountsAssumption DEF Types
<1>2. \A d \in Nat : d >= 2 => (d + 1) \div d = 1 /\ (d + 1) % d = 1
  OBVIOUS
<1>3. NumOffload = layers - 1 /\ NumOffload \in Nat /\ NumOffload >= 2 /\ layers = NumOffload + 1
  BY <1>1 DEF NumOffload
<1>4. layers \div NumOffload = 1 /\ layers % NumOffload = 1
  BY <1>2, <1>3
<1>5. \A i \in Nat : LayerWindow(i) = 1 * (i + 1) - 1 + (IF i < 1 THEN i + 1 ELSE 1)
  BY <1>4 DEF LayerWindow
<1>6. \A i \in Nat : 1 * (i + 1) - 1 + (IF i < 1 THEN i + 1 ELSE 1) = i + 1
  OBVIOUS
<1>7. QED
  BY <1>1, <1>3, <1>5, <1>6

\* Clocks only move on.
NotBefore(new, old) == \A s, t \in Streams : old[s][t] <= new[s][t]

LEMMA TickFacts ==
    ASSUME NEW clk, IsClock(clk), NEW s \in Streams
    PROVE  /\ IsClock(Tick(clk, s)) /\ NotBefore(Tick(clk, s), clk)
           /\ IsStamp(Stamp(Tick(clk, s), s))
           /\ Stamp(Tick(clk, s), s).on = s /\ Stamp(Tick(clk, s), s).at = Tick(clk, s)[s][s]
<1>1. clk[s] \in [Streams -> Nat] /\ clk[s][s] \in Nat
  BY DEF IsClock
<1>2. PICK row : row = [clk[s] EXCEPT ![s] = clk[s][s] + 1]
  OBVIOUS
<1>3. row \in [Streams -> Nat] /\ \A t \in Streams : clk[s][t] <= row[t]
  BY <1>1, <1>2
<1>4. Tick(clk, s) = [clk EXCEPT ![s] = row]
  BY <1>2 DEF Tick
<1>5. IsClock(Tick(clk, s))
  BY <1>3, <1>4 DEF IsClock
<1>6. NotBefore(Tick(clk, s), clk)
  BY <1>3, <1>4 DEF IsClock, NotBefore
<1>7. Tick(clk, s)[s][s] \in Nat
  BY <1>5 DEF IsClock
<1>8. QED
  BY <1>5, <1>6, <1>7 DEF Stamp, IsStamp

LEMMA WaitFacts ==
    ASSUME NEW clk, IsClock(clk), NEW s \in Streams, NEW t \in Streams
    PROVE  /\ IsClock(WaitStream(clk, s, t)) /\ NotBefore(WaitStream(clk, s, t), clk)
           /\ \A u \in Streams : clk[t][u] <= WaitStream(clk, s, t)[s][u]
<1>1. clk[s] \in [Streams -> Nat] /\ clk[t] \in [Streams -> Nat]
  BY DEF IsClock
<1>2. PICK row : row = [u \in Streams |-> Larger(clk[s][u], clk[t][u])]
  OBVIOUS
<1>3. row \in [Streams -> Nat] /\ \A u \in Streams : clk[s][u] <= row[u] /\ clk[t][u] <= row[u]
  BY <1>1, <1>2 DEF Larger
<1>4. WaitStream(clk, s, t) = [clk EXCEPT ![s] = row]
  BY <1>2 DEF WaitStream
<1>5. IsClock(WaitStream(clk, s, t))
  BY <1>3, <1>4 DEF IsClock
<1>6. NotBefore(WaitStream(clk, s, t), clk)
  BY <1>3, <1>4 DEF IsClock, NotBefore
<1>7. QED
  BY <1>3, <1>4, <1>5, <1>6 DEF IsClock

LEMMA NotBeforeTransitive ==
    ASSUME NEW a, NEW b, NEW c, IsClock(a), IsClock(b), IsClock(c), NotBefore(b, a), NotBefore(c, b)
    PROVE  NotBefore(c, a)
BY DEF IsClock, NotBefore

-----------------------------------------------------------------------------
(* The operations of the handler.                                          *)

IsHandler(h) ==
    /\ DOMAIN h = {"count", "saved", "buf", "mapping", "clock", "raced", "error"}
    /\ h.saved = [tag \in DOMAIN h.saved |-> h.saved[tag]]
    /\ \A tag \in DOMAIN h.saved : IsSlot(h.saved[tag])
    /\ h.mapping = [g \in DOMAIN h.mapping |-> h.mapping[g]]
    /\ \A g \in DOMAIN h.mapping : IsStamp(h.mapping[g].stamp)
    /\ IsClock(h.clock)
    /\ h.raced = FALSE /\ h.error = FALSE

LEMMA HandlerFacts ==
    ASSUME Types, raced = FALSE
    PROVE  /\ IsHandler(Handler) /\ Handler.count = count /\ Handler.saved = saved
           /\ Handler.buf = buf /\ Handler.mapping = mapping /\ Handler.clock = clock
BY DEF Handler, IsHandler, Types

\* Only the clock is replaced.
LEMMA ClockReplaced ==
    ASSUME NEW h, IsHandler(h), NEW clk, IsClock(clk), NEW n, n = [h EXCEPT !.clock = clk]
    PROVE  /\ IsHandler(n) /\ n.clock = clk /\ n.count = h.count /\ n.saved = h.saved
           /\ n.buf = h.buf /\ n.mapping = h.mapping
BY DEF IsHandler

\* A group none of which has been copied is copied after it was computed.
LEMMA OffloadFacts ==
    ASSUME NEW h, IsHandler(h), NEW g,
           \A tag \in OfGroup(h, g) :
             /\ h.saved[tag].on = "gpu"
             /\ h.saved[tag].stamp.at <= h.clock["d2h"][h.saved[tag].stamp.on]
    PROVE  LET n == BulkOffload(h, g)
           IN /\ IsHandler(n) /\ n.count = h.count /\ n.buf = h.buf
              /\ NotBefore(n.clock, h.clock)
              /\ DOMAIN n.saved = DOMAIN h.saved
              /\ \A tag \in DOMAIN h.saved :
                   /\ n.saved[tag].key = h.saved[tag].key /\ n.saved[tag].stamp = h.saved[tag].stamp
                   /\ n.saved[tag].on = IF tag[1] = g THEN "host" ELSE h.saved[tag].on
              /\ DOMAIN n.mapping = DOMAIN h.mapping \cup {g}
              /\ \A i \in DOMAIN h.mapping \ {g} : n.mapping[i] = h.mapping[i]
              /\ \A tag \in DOMAIN h.saved : tag[1] = g => h.saved[tag].key \in n.mapping[g].keys
              /\ n.mapping[g].stamp.on = "d2h" /\ n.mapping[g].stamp.at = n.clock["d2h"]["d2h"]
<1>1. PICK tags, clk, n : tags = OfGroup(h, g) /\ clk = Tick(h.clock, "d2h") /\ n = BulkOffload(h, g)
  OBVIOUS
<1>2. "d2h" \in Streams
  BY DEF Streams
<1>3. /\ IsClock(clk) /\ NotBefore(clk, h.clock) /\ IsStamp(Stamp(clk, "d2h"))
      /\ Stamp(clk, "d2h").on = "d2h" /\ Stamp(clk, "d2h").at = clk["d2h"]["d2h"]
  BY <1>1, <1>2, TickFacts DEF IsHandler
<1>4. PICK sv, mp :
        /\ sv = [tag \in DOMAIN h.saved |-> IF tag \in tags THEN [h.saved[tag] EXCEPT !.on = "host"]
                                             ELSE h.saved[tag]]
        /\ mp = [i \in DOMAIN h.mapping \cup {g} |->
                    IF i = g THEN [keys |-> {h.saved[tag].key : tag \in tags}, stamp |-> Stamp(clk, "d2h")]
                    ELSE h.mapping[i]]
  OBVIOUS
<1>5. /\ (h.error \/ \E tag \in tags : h.saved[tag].on = "host") = FALSE
      /\ (h.raced \/ \E tag \in tags : ~After(h.clock, "d2h", h.saved[tag].stamp)) = FALSE
  <2>1. ~\E tag \in tags : h.saved[tag].on = "host"
    BY <1>1
  <2>2. ~\E tag \in tags : ~After(h.clock, "d2h", h.saved[tag].stamp)
    <3>1. \A tag \in tags : /\ h.saved[tag].stamp.at \in Nat
                            /\ h.clock["d2h"][h.saved[tag].stamp.on] \in Nat
      BY <1>1, <1>2 DEF IsHandler, IsSlot, IsStamp, IsClock, OfGroup
    <3>2. QED
      BY <1>1, <3>1 DEF After
  <2>3. QED
    BY <2>1, <2>2 DEF IsHandler
<1>6. n = [h EXCEPT !.error = FALSE, !.raced = FALSE, !.saved = sv, !.mapping = mp, !.clock = clk]
  BY <1>1, <1>4, <1>5 DEF BulkOffload
<1>7. /\ DOMAIN n = {"count", "saved", "buf", "mapping", "clock", "raced", "error"}
      /\ n.count = h.count /\ n.buf = h.buf /\ n.saved = sv /\ n.mapping = mp /\ n.clock = clk
      /\ n.error = FALSE /\ n.raced = FALSE
  BY <1>6 DEF IsHandler
<1>8. \A tag \in DOMAIN h.saved : tag \in tags <=> tag[1] = g
  BY <1>1 DEF OfGroup
<1>9. ASSUME NEW tag \in DOMAIN h.saved
      PROVE  /\ IsSlot(sv[tag]) /\ sv[tag].key = h.saved[tag].key /\ sv[tag].stamp = h.saved[tag].stamp
             /\ sv[tag].on = IF tag[1] = g THEN "host" ELSE h.saved[tag].on
  <2>1. IsSlot(h.saved[tag])
    BY DEF IsHandler
  <2>2. CASE tag \in tags
    <3>1. sv[tag] = [h.saved[tag] EXCEPT !.on = "host"]
      BY <1>4, <2>2
    <3>2. QED
      BY <1>8, <2>1, <2>2, <3>1 DEF IsSlot
  <2>3. CASE tag \notin tags
    BY <1>4, <1>8, <2>1, <2>3
  <2>4. QED
    BY <2>2, <2>3
<1>10. /\ DOMAIN sv = DOMAIN h.saved /\ DOMAIN mp = DOMAIN h.mapping \cup {g}
       /\ sv = [tag \in DOMAIN sv |-> sv[tag]] /\ mp = [i \in DOMAIN mp |-> mp[i]]
       /\ \A i \in DOMAIN h.mapping \ {g} : mp[i] = h.mapping[i]
       /\ mp[g] = [keys |-> {h.saved[tag].key : tag \in tags}, stamp |-> Stamp(clk, "d2h")]
  BY <1>4
<1>11. \A i \in DOMAIN mp : IsStamp(mp[i].stamp)
  <2>1. \A i \in DOMAIN h.mapping \ {g} : IsStamp(mp[i].stamp)
    BY <1>10 DEF IsHandler
  <2>2. IsStamp(mp[g].stamp)
    BY <1>3, <1>10
  <2>3. QED
    BY <1>10, <2>1, <2>2
<1>12. IsHandler(n)
  BY <1>3, <1>7, <1>9, <1>10, <1>11 DEF IsHandler
<1>13. \A tag \in DOMAIN h.saved : tag[1] = g => h.saved[tag].key \in mp[g].keys
  BY <1>8, <1>10
<1>14. mp[g].stamp.on = "d2h" /\ mp[g].stamp.at = clk["d2h"]["d2h"]
  BY <1>3, <1>10
<1>15. QED
  BY <1>1, <1>3, <1>7, <1>9, <1>10, <1>12, <1>13, <1>14

\* The buffers of a group are dropped after its copy.
LEMMA FreeFacts ==
    ASSUME NEW h, IsHandler(h), NEW g,
           g \in DOMAIN h.mapping =>
             h.mapping[g].stamp.at <= h.clock["compute"][h.mapping[g].stamp.on]
    PROVE  LET n == FreeBuffers(h, g)
           IN /\ IsHandler(n) /\ n.count = h.count /\ n.saved = h.saved
              /\ n.mapping = h.mapping /\ n.clock = h.clock
              /\ n.buf = {tag \in h.buf : tag[1] # g}
<1>1. PICK n, b : n = FreeBuffers(h, g) /\ b = {tag \in h.buf : tag[1] # g}
  OBVIOUS
<1>2. (h.raced \/ (g \in DOMAIN h.mapping /\ ~After(h.clock, "compute", h.mapping[g].stamp))) = FALSE
  <2>1. g \in DOMAIN h.mapping => After(h.clock, "compute", h.mapping[g].stamp)
    <3>1. g \in DOMAIN h.mapping => /\ h.mapping[g].stamp.at \in Nat
                                    /\ h.clock["compute"][h.mapping[g].stamp.on] \in Nat
      BY DEF IsHandler, IsStamp, IsClock, Streams
    <3>2. QED
      BY <3>1 DEF After
  <2>2. QED
    BY <2>1 DEF IsHandler
<1>3. n = [h EXCEPT !.buf = b, !.raced = FALSE]
  BY <1>1, <1>2 DEF FreeBuffers
<1>4. /\ DOMAIN n = DOMAIN h /\ n.count = h.count /\ n.buf = b /\ n.saved = h.saved
      /\ n.mapping = h.mapping /\ n.clock = h.clock /\ n.error = h.error /\ n.raced = FALSE
  BY <1>3 DEF IsHandler
<1>5. IsHandler(n)
  BY <1>4 DEF IsHandler
<1>6. QED
  BY <1>1, <1>4, <1>5

\* The stamps of what waits to be copied, and of what was copied, are of the past.
StampsOf(h) ==
    /\ \A tag \in DOMAIN h.saved :
         h.saved[tag].stamp.at <= h.clock[h.saved[tag].stamp.on][h.saved[tag].stamp.on]
    /\ \A g \in DOMAIN h.mapping : /\ h.mapping[g].stamp.on = "d2h"
                                   /\ h.mapping[g].stamp.at <= h.clock["d2h"]["d2h"]

\* When c layers have been committed and the handler is h.
Committed(h, c) ==
    /\ IsHandler(h) /\ StampsOf(h)
    /\ DOMAIN h.mapping = {g \in 0 .. c - 1 : g <= layers - 2}
    /\ \A tag \in DOMAIN h.saved :
         /\ tag[1] \in 0 .. c
         /\ h.saved[tag].on = "host" <=> (tag[1] < c /\ tag[1] <= layers - 2)
         /\ h.saved[tag].stamp.on = "compute"
         /\ h.saved[tag].on = "host" => h.saved[tag].key \in h.mapping[tag[1]].keys

LEMMA ForwardStart ==
    ASSUME OffloadInv, phase \in {"forward", "nograd"}, current < layers
    PROVE  Committed(Handler, current)
<1>1. /\ IsHandler(Handler) /\ Handler.saved = saved /\ Handler.mapping = mapping /\ Handler.clock = clock
  BY HandlerFacts DEF OffloadInv
<1>2. layers \in Nat /\ current \in Nat
  BY Windows DEF OffloadInv, Types
<1>3. DOMAIN mapping = {g \in 0 .. current - 1 : g <= layers - 2}
  <2>1. DOMAIN mapping = 0 .. current - 1
    BY DEF OffloadInv, ForwardInv
  <2>2. \A g \in 0 .. current - 1 : g <= layers - 2
    BY <1>2
  <2>3. QED
    BY <2>1, <2>2
<1>4. \A tag \in DOMAIN saved :
         /\ tag[1] \in 0 .. current
         /\ saved[tag].on = "host" <=> (tag[1] < current /\ tag[1] <= layers - 2)
         /\ saved[tag].stamp.on = "compute"
         /\ saved[tag].on = "host" => saved[tag].key \in mapping[tag[1]].keys
  BY <1>2 DEF OffloadInv, ForwardInv, Copied
<1>5. StampsOf(Handler)
  BY <1>1 DEF OffloadInv, Stamps, StampsOf
<1>6. QED
  BY <1>1, <1>3, <1>4, <1>5 DEF Committed

\* The layer c is copied: it was the last one on the device only.
LEMMA OffloadLayer ==
    ASSUME Types, NEW h, NEW c \in Nat, c < layers - 1, Committed(h, c),
           h.clock["compute"]["compute"] <= h.clock["d2h"]["compute"],
           NEW n, n = BulkOffload(h, c)
    PROVE  /\ Committed(n, c + 1) /\ NotBefore(n.clock, h.clock)
           /\ n.count = h.count /\ n.buf = h.buf
           /\ DOMAIN n.saved = DOMAIN h.saved
<1>1. layers \in Nat /\ layers >= 3
  BY Windows
<1>2. IsHandler(h) /\ StampsOf(h) /\ IsClock(h.clock)
  BY DEF Committed, IsHandler
<1>3. ASSUME NEW tag \in OfGroup(h, c)
      PROVE  /\ h.saved[tag].on = "gpu"
             /\ h.saved[tag].stamp.at <= h.clock["d2h"][h.saved[tag].stamp.on]
  <2>1. tag \in DOMAIN h.saved /\ tag[1] = c
    BY DEF OfGroup
  <2>2. IsSlot(h.saved[tag]) /\ ~(tag[1] < c)
    BY <1>2, <2>1 DEF IsHandler
  <2>3. h.saved[tag].on = "gpu" /\ h.saved[tag].stamp.on = "compute"
    BY <2>1, <2>2 DEF Committed, IsSlot
  <2>4. h.saved[tag].stamp.at <= h.clock["compute"]["compute"]
    BY <1>2, <2>1, <2>3 DEF StampsOf
  <2>5. /\ h.saved[tag].stamp.at \in Nat /\ h.clock["compute"]["compute"] \in Nat
        /\ h.clock["d2h"]["compute"] \in Nat
    BY <1>2, <2>2 DEF IsSlot, IsStamp, IsClock, Streams
  <2>6. QED
    BY <2>3, <2>4, <2>5
<1>4. /\ IsHandler(n) /\ n.count = h.count /\ n.buf = h.buf
      /\ NotBefore(n.clock, h.clock)
      /\ DOMAIN n.saved = DOMAIN h.saved
      /\ \A tag \in DOMAIN h.saved :
           /\ n.saved[tag].key = h.saved[tag].key /\ n.saved[tag].stamp = h.saved[tag].stamp
           /\ n.saved[tag].on = IF tag[1] = c THEN "host" ELSE h.saved[tag].on
      /\ DOMAIN n.mapping = DOMAIN h.mapping \cup {c}
      /\ \A i \in DOMAIN h.mapping \ {c} : n.mapping[i] = h.mapping[i]
      /\ \A tag \in DOMAIN h.saved : tag[1] = c => h.saved[tag].key \in n.mapping[c].keys
      /\ n.mapping[c].stamp.on = "d2h" /\ n.mapping[c].stamp.at = n.clock["d2h"]["d2h"]
  BY <1>2, <1>3, OffloadFacts
<1>5. IsClock(n.clock)
  BY <1>4 DEF IsHandler
<1>6. StampsOf(n)
  <2>1. ASSUME NEW tag \in DOMAIN n.saved
        PROVE  n.saved[tag].stamp.at <= n.clock[n.saved[tag].stamp.on][n.saved[tag].stamp.on]
    <3>1. PICK x : x = h.saved[tag].stamp
      OBVIOUS
    <3>2. IsStamp(x) /\ x.at <= h.clock[x.on][x.on] /\ n.saved[tag].stamp = x
      BY <1>2, <1>4, <3>1 DEF StampsOf, IsHandler, IsSlot
    <3>3. h.clock[x.on][x.on] <= n.clock[x.on][x.on]
      BY <1>4, <3>2 DEF NotBefore, IsStamp
    <3>4. h.clock[x.on][x.on] \in Nat /\ n.clock[x.on][x.on] \in Nat /\ x.at \in Nat
      BY <1>2, <1>5, <3>2 DEF IsClock, IsStamp
    <3>5. QED
      BY <3>2, <3>3, <3>4
  <2>2. ASSUME NEW g \in DOMAIN n.mapping
        PROVE  n.mapping[g].stamp.on = "d2h" /\ n.mapping[g].stamp.at <= n.clock["d2h"]["d2h"]
    <3>1. h.clock["d2h"]["d2h"] \in Nat /\ n.clock["d2h"]["d2h"] \in Nat
          /\ h.clock["d2h"]["d2h"] <= n.clock["d2h"]["d2h"]
      BY <1>2, <1>4, <1>5 DEF IsClock, NotBefore, Streams
    <3>2. CASE g = c
      BY <1>4, <3>1, <3>2
    <3>3. CASE g # c
      <4>1. n.mapping[g] = h.mapping[g] /\ g \in DOMAIN h.mapping
        BY <1>4, <3>3
      <4>2. h.mapping[g].stamp.on = "d2h" /\ h.mapping[g].stamp.at <= h.clock["d2h"]["d2h"]
        BY <1>2, <4>1 DEF StampsOf
      <4>3. h.mapping[g].stamp.at \in Nat
        BY <1>2, <4>1 DEF IsHandler, IsStamp
      <4>4. QED
        BY <3>1, <4>1, <4>2, <4>3
    <3>4. QED
      BY <3>2, <3>3
  <2>3. QED
    BY <2>1, <2>2 DEF StampsOf
<1>7. DOMAIN n.mapping = {g \in 0 .. (c + 1) - 1 : g <= layers - 2}
  <2>1. DOMAIN h.mapping = {g \in 0 .. c - 1 : g <= layers - 2}
    BY DEF Committed
  <2>2. {g \in 0 .. c - 1 : g <= layers - 2} \cup {c} = {g \in 0 .. (c + 1) - 1 : g <= layers - 2}
    BY <1>1
  <2>3. QED
    BY <1>4, <2>1, <2>2
<1>8. ASSUME NEW tag \in DOMAIN n.saved
      PROVE  /\ tag[1] \in 0 .. c + 1
             /\ n.saved[tag].on = "host" <=> (tag[1] < c + 1 /\ tag[1] <= layers - 2)
             /\ n.saved[tag].stamp.on = "compute"
             /\ n.saved[tag].on = "host" => n.saved[tag].key \in n.mapping[tag[1]].keys
  <2>1. /\ tag \in DOMAIN h.saved /\ tag[1] \in 0 .. c
        /\ h.saved[tag].on = "host" <=> (tag[1] < c /\ tag[1] <= layers - 2)
        /\ h.saved[tag].stamp.on = "compute"
        /\ h.saved[tag].on = "host" => h.saved[tag].key \in h.mapping[tag[1]].keys
    BY <1>4 DEF Committed
  <2>2. /\ n.saved[tag].key = h.saved[tag].key /\ n.saved[tag].stamp = h.saved[tag].stamp
        /\ n.saved[tag].on = IF tag[1] = c THEN "host" ELSE h.saved[tag].on
    BY <1>4, <2>1
  <2>3. CASE tag[1] = c
    <3>1. n.saved[tag].on = "host" /\ tag[1] < c + 1 /\ tag[1] <= layers - 2 /\ tag[1] \in 0 .. c + 1
      BY <1>1, <2>2, <2>3
    <3>2. n.saved[tag].key \in n.mapping[tag[1]].keys
      BY <1>4, <2>1, <2>2, <2>3
    <3>3. QED
      BY <2>1, <2>2, <3>1, <3>2
  <2>4. CASE tag[1] # c
    <3>1. n.saved[tag].on = h.saved[tag].on
      BY <2>2, <2>4
    <3>2. tag[1] \in 0 .. c + 1 /\ (tag[1] < c <=> tag[1] < c + 1)
      BY <2>1, <2>4
    <3>3. h.saved[tag].on = "host" => tag[1] \in DOMAIN h.mapping \ {c}
      BY <2>1, <2>4 DEF Committed
    <3>4. h.saved[tag].on = "host" => n.saved[tag].key \in n.mapping[tag[1]].keys
      BY <1>4, <2>1, <2>2, <3>3
    <3>5. QED
      BY <2>1, <2>2, <3>1, <3>2, <3>4
  <2>5. QED
    BY <2>3, <2>4
<1>9. QED
  BY <1>4, <1>6, <1>7, <1>8 DEF Committed

LEMMA KeepCommitted ==
    ASSUME NEW h, NEW c, Committed(h, c), NEW n, IsHandler(n),
           n.saved = h.saved, n.mapping = h.mapping, NotBefore(n.clock, h.clock)
    PROVE  Committed(n, c)
<1>1. IsHandler(h) /\ StampsOf(h) /\ IsClock(h.clock) /\ IsClock(n.clock)
  BY DEF Committed, IsHandler
<1>2. ASSUME NEW x, IsStamp(x), x.at <= h.clock[x.on][x.on] PROVE x.at <= n.clock[x.on][x.on]
  BY <1>1, <1>2 DEF IsStamp, IsClock, NotBefore
<1>3. \A tag \in DOMAIN h.saved : IsStamp(h.saved[tag].stamp)
  BY <1>1 DEF IsHandler, IsSlot
<1>4. \A g \in DOMAIN h.mapping : IsStamp(h.mapping[g].stamp)
  BY <1>1 DEF IsHandler
<1>5. StampsOf(n)
  <2>1. \A tag \in DOMAIN n.saved :
          n.saved[tag].stamp.at <= n.clock[n.saved[tag].stamp.on][n.saved[tag].stamp.on]
    BY <1>1, <1>2, <1>3 DEF StampsOf
  <2>2. \A g \in DOMAIN n.mapping : /\ n.mapping[g].stamp.on = "d2h"
                                    /\ n.mapping[g].stamp.at <= n.clock["d2h"]["d2h"]
    BY <1>1, <1>2, <1>4 DEF StampsOf
  <2>3. QED
    BY <2>1, <2>2 DEF StampsOf
<1>6. QED
  BY <1>5 DEF Committed

\* The commit of a layer neither raises nor races; all layers but the last one are
\* on the CPU behind it, and only the buffers of this layer are left.
LEMMA ForwardCommit ==
    ASSUME OffloadInv, phase \in {"forward", "nograd"}, current < layers,
           NEW n, n = SynchronizeForward(Handler, current)
    PROVE  /\ Committed(n, current + 1) /\ NotBefore(n.clock, clock)
           /\ n.count = current
           /\ DOMAIN n.saved = DOMAIN saved
           /\ \A tag \in n.buf : tag[1] = current /\ tag[1] \in 0 .. layers - 2
           /\ current = layers - 1 =>
                \A g \in DOMAIN n.mapping : n.mapping[g].stamp.at <= n.clock["compute"]["d2h"]
<1>1. Types /\ layers \in Nat /\ layers >= 3 /\ current \in Nat /\ NumOffload = layers - 1
      /\ \A i \in Nat : LayerWindow(i) = i + 1
  BY Windows DEF OffloadInv, Types
<1>2. /\ IsHandler(Handler) /\ Handler.count = count /\ Handler.saved = saved
      /\ Handler.buf = buf /\ Handler.mapping = mapping /\ Handler.clock = clock /\ IsClock(clock)
  BY <1>1, HandlerFacts DEF OffloadInv, Types
<1>3. Committed(Handler, current)
  BY ForwardStart
<1>4. /\ count = IF current = 0 THEN 0 ELSE current - 1
      /\ \A tag \in buf : tag[1] \in {current - 1, current} /\ tag[1] \in 0 .. layers - 2
  BY DEF OffloadInv, ForwardInv
<1>5. count \in Nat /\ InWindowMap(count) /\ LayerWindow(count) = count + 1
  BY <1>1, <1>4 DEF InWindowMap
<1>6. "compute" \in Streams /\ "d2h" \in Streams
  BY DEF Streams
<1>7. CASE current = 0
  <2>1. PICK clk, w : clk = WaitStream(clock, "d2h", "compute") /\ w = [Handler EXCEPT !.clock = clk]
    OBVIOUS
  <2>2. /\ IsClock(clk) /\ NotBefore(clk, clock) /\ clock["compute"]["compute"] <= clk["d2h"]["compute"]
        /\ clk["compute"] = clock["compute"]
    BY <1>2, <1>6, <2>1, WaitFacts DEF WaitStream, IsClock, Streams
  <2>3. /\ IsHandler(w) /\ w.clock = clk /\ w.count = count /\ w.saved = saved
        /\ w.buf = buf /\ w.mapping = mapping
    BY <1>2, <2>1, <2>2, ClockReplaced
  <2>4. Committed(w, 0)
    BY <1>2, <1>3, <1>7, <2>2, <2>3, KeepCommitted
  <2>5. n = BulkOffload(w, 0)
    BY <1>2, <1>4, <1>5, <1>7, <2>1 DEF SynchronizeForward
  <2>6. /\ Committed(n, 0 + 1) /\ NotBefore(n.clock, clk)
        /\ n.count = count /\ n.buf = buf /\ DOMAIN n.saved = DOMAIN saved
    BY <1>1, <2>2, <2>3, <2>4, <2>5, OffloadLayer
  <2>7. NotBefore(n.clock, clock)
    BY <1>2, <2>2, <2>6, NotBeforeTransitive DEF Committed, IsHandler
  <2>8. \A tag \in buf : tag[1] = current
    BY <1>4, <1>7
  <2>9. QED
    BY <1>1, <1>4, <1>7, <2>6, <2>7, <2>8
<1>8. CASE current # 0
  <2>1. PICK clk1, clk, w : /\ clk1 = WaitStream(clock, "d2h", "compute")
                            /\ clk = WaitStream(clk1, "compute", "d2h")
                            /\ w = [Handler EXCEPT !.clock = clk]
    OBVIOUS
  <2>2. /\ IsClock(clk1) /\ NotBefore(clk1, clock) /\ IsClock(clk) /\ NotBefore(clk, clk1)
        /\ clock["compute"]["compute"] <= clk1["d2h"]["compute"]
        /\ clk1["d2h"]["d2h"] <= clk["compute"]["d2h"]
    BY <1>2, <1>6, <2>1, WaitFacts
  <2>3. NotBefore(clk, clock)
    BY <1>2, <2>2, NotBeforeTransitive
  <2>4. clk["compute"]["compute"] <= clk["d2h"]["compute"]
    <3>1. clk["d2h"] = clk1["d2h"] /\ clk["compute"]["compute"] = Larger(clk1["compute"]["compute"], clk1["d2h"]["compute"])
      BY <1>6, <2>1, <2>2 DEF WaitStream, IsClock
    <3>2. clk1["compute"] = clock["compute"]
      BY <1>2, <1>6, <2>1 DEF WaitStream, IsClock
    <3>3. clock["compute"]["compute"] \in Nat /\ clk1["d2h"]["compute"] \in Nat
      BY <1>2, <1>6, <2>2 DEF IsClock
    <3>4. QED
      BY <2>2, <3>1, <3>2, <3>3 DEF Larger
  <2>5. /\ IsHandler(w) /\ w.clock = clk /\ w.count = count /\ w.saved = saved
        /\ w.buf = buf /\ w.mapping = mapping
    BY <1>2, <2>1, <2>2, ClockReplaced
  <2>6. Committed(w, current)
    BY <1>2, <1>3, <2>3, <2>5, KeepCommitted
  <2>7. \A g \in DOMAIN mapping : mapping[g].stamp.on = "d2h" /\ mapping[g].stamp.at <= clk["compute"]["d2h"]
    <3>1. \A g \in DOMAIN mapping : /\ mapping[g].stamp.on = "d2h" /\ mapping[g].stamp.at \in Nat
                                    /\ mapping[g].stamp.at <= clock["d2h"]["d2h"]
      BY <1>1 DEF OffloadInv, Stamps, Types, IsStamp
    <3>2. clock["d2h"]["d2h"] <= clk1["d2h"]["d2h"]
      BY <1>6, <2>2 DEF NotBefore
    <3>3. clock["d2h"]["d2h"] \in Nat /\ clk1["d2h"]["d2h"] \in Nat /\ clk["compute"]["d2h"] \in Nat
      BY <1>2, <1>6, <2>2 DEF IsClock
    <3>4. QED
      BY <2>2, <3>1, <3>2, <3>3
  <2>8. PICK f : f = FreeBuffers(w, count)
    OBVIOUS
  <2>9. /\ IsHandler(f) /\ f.count = count /\ f.saved = saved /\ f.mapping = mapping /\ f.clock = clk
        /\ f.buf = {tag \in buf : tag[1] # count}
    BY <2>5, <2>7, <2>8, FreeFacts
  <2>10. Committed(f, current)
    <3>1. NotBefore(f.clock, w.clock)
      BY <2>2, <2>5, <2>9 DEF NotBefore, IsClock
    <3>2. QED
      BY <2>5, <2>6, <2>9, <3>1, KeepCommitted
  <2>11. \A tag \in f.buf : tag[1] = current /\ tag[1] \in 0 .. layers - 2
    BY <1>4, <1>8, <2>9
  <2>12. PICK next : next = IF count < NumOffload - 1 THEN BulkOffload(f, count + 1) ELSE f
    OBVIOUS
  <2>13. n = [next EXCEPT !.count = next.count + 1]
    <3>1. n = Window(Handler)
      BY <1>1, <1>2, <1>4, <1>5, <1>8 DEF SynchronizeForward
    <3>2. QED
      BY <1>2, <2>1, <2>8, <2>12, <3>1 DEF Window
  <2>14. /\ Committed(next, current + 1) /\ NotBefore(next.clock, clk)
         /\ next.count = count /\ next.buf = f.buf /\ DOMAIN next.saved = DOMAIN saved
         /\ current = layers - 1 => next = f
    <3>1. CASE current < layers - 1
      <4>1. count + 1 = current /\ count < NumOffload - 1
        BY <1>1, <1>4, <1>8, <3>1
      <4>2. next = BulkOffload(f, current)
        BY <2>12, <4>1
      <4>3. QED
        BY <1>1, <2>4, <2>9, <2>10, <3>1, <4>2, OffloadLayer
    <3>2. CASE ~(current < layers - 1)
      <4>1. current = layers - 1 /\ count = layers - 2 /\ next = f
        BY <1>1, <1>4, <1>8, <2>12, <3>2
      <4>2. {g \in 0 .. current - 1 : g <= layers - 2} = {g \in 0 .. (current + 1) - 1 : g <= layers - 2}
        BY <1>1, <4>1
      <4>3. Committed(f, current + 1)
        BY <1>1, <2>10, <4>1, <4>2 DEF Committed
      <4>4. NotBefore(clk, clk)
        BY <2>2 DEF NotBefore, IsClock
      <4>5. QED
        BY <2>9, <4>1, <4>3, <4>4
    <3>3. QED
      BY <3>1, <3>2
  <2>15. /\ n.count = count + 1 /\ n.saved = next.saved /\ n.buf = next.buf /\ n.mapping = next.mapping
         /\ n.clock = next.clock /\ IsHandler(n)
    BY <2>13, <2>14 DEF Committed, IsHandler
  <2>16. Committed(n, current + 1)
    <3>1. NotBefore(n.clock, next.clock)
      BY <2>15 DEF NotBefore, IsHandler, IsClock
    <3>2. QED
      BY <2>14, <2>15, <3>1, KeepCommitted
  <2>17. NotBefore(n.clock, clock)
    BY <1>2, <2>2, <2>3, <2>14, <2>15, NotBeforeTransitive DEF IsHandler
  <2>18. n.count = current
    BY <1>1, <1>4, <1>8, <2>15
  <2>19. current = layers - 1 =>
           \A g \in DOMAIN n.mapping : n.mapping[g].stamp.at <= n.clock["compute"]["d2h"]
    BY <2>7, <2>9, <2>14, <2>15
  <2>20. QED
    BY <2>11, <2>14, <2>15, <2>16, <2>17, <2>18, <2>19
<1>9. QED
  BY <1>7, <1>8

\* A copy comes back after it got to the CPU, and not over what compute used last.
LEMMA ReloadFacts ==
    ASSUME NEW h, IsHandler(h), NEW g \in DOMAIN h.mapping,
           \A tag \in OfGroup(h, g) :
             h.saved[tag].on = "host" => h.saved[tag].key \in h.mapping[g].keys,
           h.mapping[g].stamp.at <= h.clock["h2d"][h.mapping[g].stamp.on],
           lastUse.on = "compute", lastUse.at \in Nat, lastUse.at <= h.clock["h2d"]["compute"]
    PROVE  LET n == BulkReload(h, g)
           IN /\ IsHandler(n) /\ n.count = h.count /\ n.buf = h.buf
              /\ NotBefore(n.clock, h.clock) /\ n.clock["compute"] = h.clock["compute"]
              /\ DOMAIN n.saved = DOMAIN h.saved
              /\ \A tag \in DOMAIN h.saved :
                   IF tag[1] = g /\ h.saved[tag].on = "host"
                   THEN /\ n.saved[tag].on = "gpu" /\ n.saved[tag].stamp.on = "h2d"
                        /\ n.saved[tag].stamp.at = n.clock["h2d"]["h2d"]
                   ELSE n.saved[tag] = h.saved[tag]
              /\ DOMAIN n.mapping = DOMAIN h.mapping \ {g}
              /\ \A i \in DOMAIN n.mapping : n.mapping[i] = h.mapping[i]
<1>1. PICK tags, clk, n : tags = OfGroup(h, g) /\ clk = Tick(h.clock, "h2d") /\ n = BulkReload(h, g)
  OBVIOUS
<1>2. "h2d" \in Streams /\ "compute" \in Streams
  BY DEF Streams
<1>3. /\ IsClock(clk) /\ NotBefore(clk, h.clock) /\ IsStamp(Stamp(clk, "h2d"))
      /\ Stamp(clk, "h2d").on = "h2d" /\ Stamp(clk, "h2d").at = clk["h2d"]["h2d"]
      /\ clk["compute"] = h.clock["compute"]
  <2>1. IsClock(h.clock)
    BY DEF IsHandler
  <2>2. "compute" # "h2d" /\ "compute" \in DOMAIN h.clock
    BY <1>2, <2>1 DEF IsClock
  <2>3. clk["compute"] = h.clock["compute"]
    BY <1>1, <2>2 DEF Tick
  <2>4. QED
    BY <1>1, <1>2, <2>1, <2>3, TickFacts
<1>4. PICK sv, mp :
        /\ sv = [tag \in DOMAIN h.saved |->
                   IF tag \in tags /\ h.saved[tag].on = "host"
                   THEN [h.saved[tag] EXCEPT !.on = "gpu", !.stamp = Stamp(clk, "h2d")]
                   ELSE h.saved[tag]]
        /\ mp = Restrict(h.mapping, DOMAIN h.mapping \ {g})
  OBVIOUS
<1>5. /\ (h.error \/ \E tag \in tags : h.saved[tag].on = "host" /\ h.saved[tag].key \notin h.mapping[g].keys)
           = FALSE
      /\ (h.raced \/ ~After(h.clock, "h2d", h.mapping[g].stamp) \/ ~After(h.clock, "h2d", lastUse)) = FALSE
  <2>1. ~\E tag \in tags : h.saved[tag].on = "host" /\ h.saved[tag].key \notin h.mapping[g].keys
    BY <1>1
  <2>2. After(h.clock, "h2d", h.mapping[g].stamp) /\ After(h.clock, "h2d", lastUse)
    <3>1. /\ h.mapping[g].stamp.at \in Nat /\ h.clock["h2d"][h.mapping[g].stamp.on] \in Nat
          /\ h.clock["h2d"]["compute"] \in Nat
      BY <1>2 DEF IsHandler, IsStamp, IsClock
    <3>2. QED
      BY <3>1 DEF After
  <2>3. QED
    BY <2>1, <2>2 DEF IsHandler
<1>6. n = [h EXCEPT !.error = FALSE, !.raced = FALSE, !.saved = sv, !.mapping = mp, !.clock = clk]
  BY <1>1, <1>4, <1>5 DEF BulkReload
<1>7. /\ DOMAIN n = {"count", "saved", "buf", "mapping", "clock", "raced", "error"}
      /\ n.count = h.count /\ n.buf = h.buf /\ n.saved = sv /\ n.mapping = mp /\ n.clock = clk
      /\ n.error = FALSE /\ n.raced = FALSE
  BY <1>6 DEF IsHandler
<1>8. \A tag \in DOMAIN h.saved : tag \in tags <=> tag[1] = g
  BY <1>1 DEF OfGroup
<1>9. ASSUME NEW tag \in DOMAIN h.saved
      PROVE  /\ IsSlot(sv[tag])
             /\ IF tag[1] = g /\ h.saved[tag].on = "host"
                THEN /\ sv[tag].on = "gpu" /\ sv[tag].stamp.on = "h2d"
                     /\ sv[tag].stamp.at = clk["h2d"]["h2d"]
                ELSE sv[tag] = h.saved[tag]
  <2>1. IsSlot(h.saved[tag])
    BY DEF IsHandler
  <2>2. CASE tag \in tags /\ h.saved[tag].on = "host"
    <3>1. sv[tag] = [h.saved[tag] EXCEPT !.on = "gpu", !.stamp = Stamp(clk, "h2d")]
      BY <1>4, <2>2
    <3>2. DOMAIN sv[tag] = {"on", "key", "stamp"} /\ sv[tag].on = "gpu" /\ sv[tag].stamp = Stamp(clk, "h2d")
      BY <2>1, <3>1 DEF IsSlot
    <3>3. QED
      BY <1>3, <1>8, <2>2, <3>2 DEF IsSlot
  <2>3. CASE ~(tag \in tags /\ h.saved[tag].on = "host")
    BY <1>4, <1>8, <2>1, <2>3
  <2>4. QED
    BY <2>2, <2>3
<1>10. /\ DOMAIN sv = DOMAIN h.saved /\ DOMAIN mp = DOMAIN h.mapping \ {g}
       /\ sv = [tag \in DOMAIN sv |-> sv[tag]] /\ mp = [i \in DOMAIN mp |-> mp[i]]
       /\ \A i \in DOMAIN mp : mp[i] = h.mapping[i]
  BY <1>4 DEF Restrict
<1>11. \A i \in DOMAIN mp : IsStamp(mp[i].stamp)
  BY <1>10 DEF IsHandler
<1>12. IsHandler(n)
  BY <1>3, <1>7, <1>9, <1>10, <1>11 DEF IsHandler
<1>13. QED
  BY <1>1, <1>3, <1>7, <1>9, <1>10, <1>12

\* When backward has come down to layer c and the handler is h.
Returned(h, c) ==
    /\ IsHandler(h) /\ StampsOf(h)
    /\ DOMAIN h.mapping = 0 .. c - 2
    /\ h.buf = {}
    /\ \A tag \in DOMAIN h.saved :
         /\ tag[1] \in 0 .. c
         /\ h.saved[tag].on = "host" <=> tag[1] < c - 1
         /\ h.saved[tag].stamp.on \in {"compute", "h2d"}
         /\ tag[1] = c => h.saved[tag].stamp.at <= h.clock["compute"][h.saved[tag].stamp.on]
         /\ h.saved[tag].on = "host" => h.saved[tag].key \in h.mapping[tag[1]].keys
    /\ \A g \in DOMAIN h.mapping : h.mapping[g].stamp.at <= h.clock["compute"]["d2h"]

LEMMA BackwardStart ==
    ASSUME OffloadInv, phase = "backward"
    PROVE  Returned(Handler, current)
<1>1. /\ IsHandler(Handler) /\ Handler.saved = saved /\ Handler.mapping = mapping
      /\ Handler.clock = clock /\ Handler.buf = buf
  BY HandlerFacts DEF OffloadInv
<1>2. StampsOf(Handler)
  BY <1>1 DEF OffloadInv, Stamps, StampsOf
<1>3. \A tag \in DOMAIN saved : saved[tag].on = "host" => saved[tag].key \in mapping[tag[1]].keys
  BY DEF OffloadInv, Copied
<1>4. QED
  BY <1>1, <1>2, <1>3 DEF OffloadInv, BackwardInv, Returned

\* After the wait the layer below the one backward is through with may be used, and the
\* reload that is begun behind it is for the layer after that.
LEMMA BackwardCommit ==
    ASSUME OffloadInv, phase = "backward", current > 0, OfGroup(Handler, current) = {},
           NEW n, n = SynchronizeBackward(Handler, current - 1)
    PROVE  /\ Returned(n, current - 1) /\ NotBefore(n.clock, clock)
           /\ n.count = IF current - 1 >= 2 THEN current - 2 ELSE current - 1
<1>1. /\ Types /\ layers \in Nat /\ layers >= 3 /\ current \in Nat /\ NumOffload = layers - 1
      /\ current <= layers /\ \A i \in Nat : LayerWindow(i) = i + 1
  BY Windows DEF OffloadInv, Types, BackwardInv
<1>2. /\ IsHandler(Handler) /\ Handler.count = count /\ Handler.saved = saved
      /\ Handler.buf = buf /\ Handler.mapping = mapping /\ Handler.clock = clock /\ IsClock(clock)
  BY <1>1, HandlerFacts DEF OffloadInv, Types
<1>3. Returned(Handler, current)
  BY BackwardStart
<1>4. count = IF current >= 2 THEN current - 1 ELSE current
  BY DEF OffloadInv, BackwardInv
<1>5. count - 1 \in Nat /\ InWindowMap(count - 1) /\ LayerWindow(count - 1) = count
  BY <1>1, <1>4 DEF InWindowMap
<1>6. "compute" \in Streams /\ "d2h" \in Streams /\ "h2d" \in Streams
  BY DEF Streams
<1>7. lastUse.on = "compute" /\ lastUse.at \in Nat /\ lastUse.at <= clock["compute"]["compute"]
  BY DEF OffloadInv, Types, Stamps
<1>8. \A tag \in DOMAIN saved : /\ IsSlot(saved[tag]) /\ tag[1] \in 0 .. current - 1
                                /\ saved[tag].on = "host" <=> tag[1] < current - 1
                                /\ saved[tag].stamp.on \in {"compute", "h2d"}
                                /\ saved[tag].stamp.at <= clock[saved[tag].stamp.on][saved[tag].stamp.on]
  <2>1. SUFFICES ASSUME NEW tag \in DOMAIN saved
                 PROVE  /\ IsSlot(saved[tag]) /\ tag[1] \in 0 .. current - 1
                        /\ saved[tag].on = "host" <=> tag[1] < current - 1
                        /\ saved[tag].stamp.on \in {"compute", "h2d"}
                        /\ saved[tag].stamp.at <= clock[saved[tag].stamp.on][saved[tag].stamp.on]
    OBVIOUS
  <2>2. tag[1] # current
    BY <1>2 DEF OfGroup
  <2>3. /\ tag[1] \in 0 .. current /\ saved[tag].stamp.on \in {"compute", "h2d"}
        /\ saved[tag].on = "host" <=> tag[1] < current - 1
    BY <1>2, <1>3 DEF Returned
  <2>4. tag[1] \in 0 .. current - 1
    BY <1>1, <2>2, <2>3
  <2>5. IsSlot(saved[tag])
    BY <1>2 DEF IsHandler
  <2>6. saved[tag].stamp.at <= clock[saved[tag].stamp.on][saved[tag].stamp.on]
    BY <1>2, <1>3 DEF Returned, StampsOf
  <2>7. QED
    BY <2>3, <2>4, <2>5, <2>6
<1>9. \A g \in DOMAIN mapping : /\ mapping[g].stamp.on = "d2h" /\ mapping[g].stamp.at \in Nat
                                /\ mapping[g].stamp.at <= clock["d2h"]["d2h"]
                                /\ mapping[g].stamp.at <= clock["compute"]["d2h"]
  BY <1>2, <1>3 DEF Returned, StampsOf, IsHandler, IsStamp
<1>10. /\ DOMAIN mapping = 0 .. current - 2 /\ buf = {}
       /\ \A tag \in DOMAIN saved : saved[tag].on = "host" => saved[tag].key \in mapping[tag[1]].keys
  BY <1>2, <1>3 DEF Returned
<1>11. ASSUME NEW clk, IsClock(clk), NotBefore(clk, clock), clock["h2d"]["h2d"] <= clk["compute"]["h2d"],
              NEW x, IsStamp(x), x.on \in {"compute", "h2d"}, x.at <= clock[x.on][x.on]
       PROVE  x.at <= clk["compute"][x.on] /\ x.at <= clk[x.on][x.on]
  <2>1. /\ clock["compute"]["compute"] \in Nat /\ clk["compute"]["compute"] \in Nat
        /\ clock["h2d"]["h2d"] \in Nat /\ clk["compute"]["h2d"] \in Nat /\ clk["h2d"]["h2d"] \in Nat
        /\ clock["compute"]["compute"] <= clk["compute"]["compute"]
        /\ clock["h2d"]["h2d"] <= clk["h2d"]["h2d"] /\ x.at \in Nat
    BY <1>2, <1>6, <1>11 DEF IsClock, NotBefore, IsStamp
  <2>2. CASE x.on = "compute"
    BY <1>11, <2>1, <2>2
  <2>3. CASE x.on = "h2d"
    BY <1>11, <2>1, <2>3
  <2>4. QED
    BY <1>11, <2>2, <2>3
<1>12. ASSUME NEW clk, IsClock(clk), NotBefore(clk, clock), NEW g \in DOMAIN mapping
       PROVE  mapping[g].stamp.at <= clk["d2h"]["d2h"] /\ mapping[g].stamp.at <= clk["compute"]["d2h"]
  <2>1. /\ clock["d2h"]["d2h"] \in Nat /\ clk["d2h"]["d2h"] \in Nat /\ clock["d2h"]["d2h"] <= clk["d2h"]["d2h"]
        /\ clock["compute"]["d2h"] \in Nat /\ clk["compute"]["d2h"] \in Nat
        /\ clock["compute"]["d2h"] <= clk["compute"]["d2h"]
    BY <1>2, <1>6, <1>12 DEF IsClock, NotBefore
  <2>2. QED
    BY <1>9, <2>1
<1>13. CASE current = 1
  <2>1. PICK clk : clk = WaitStream(clock, "compute", "h2d")
    OBVIOUS
  <2>2. IsClock(clk) /\ NotBefore(clk, clock) /\ clock["h2d"]["h2d"] <= clk["compute"]["h2d"]
    BY <1>2, <1>6, <2>1, WaitFacts
  <2>3. n = LastGroup(Handler)
    BY <1>2, <1>4, <1>5, <1>13 DEF SynchronizeBackward
  <2>4. n = [Handler EXCEPT !.clock = clk, !.count = 0]
    BY <1>2, <2>1, <2>3 DEF LastGroup
  <2>5. /\ IsHandler(n) /\ n.saved = saved /\ n.mapping = mapping /\ n.buf = {}
        /\ n.clock = clk /\ n.count = 0
    BY <1>2, <1>10, <2>2, <2>4 DEF IsHandler
  <2>6. \A tag \in DOMAIN saved :
          /\ saved[tag].stamp.at <= clk["compute"][saved[tag].stamp.on]
          /\ saved[tag].stamp.at <= clk[saved[tag].stamp.on][saved[tag].stamp.on]
    BY <1>8, <1>11, <2>2 DEF IsSlot
  <2>7. \A g \in DOMAIN mapping : /\ mapping[g].stamp.on = "d2h" /\ mapping[g].stamp.at <= clk["d2h"]["d2h"]
                                  /\ mapping[g].stamp.at <= clk["compute"]["d2h"]
    BY <1>9, <1>12, <2>2
  <2>8. StampsOf(n)
    BY <2>5, <2>6, <2>7 DEF StampsOf
  <2>9. DOMAIN mapping = 0 .. (current - 1) - 2
    BY <1>10, <1>13
  <2>10. \A tag \in DOMAIN saved : /\ tag[1] \in 0 .. current - 1
                                   /\ saved[tag].on = "host" <=> tag[1] < (current - 1) - 1
    BY <1>8, <1>13
  <2>11. Returned(n, current - 1)
    <3>1. \A tag \in DOMAIN n.saved :
            /\ tag[1] \in 0 .. current - 1
            /\ n.saved[tag].on = "host" <=> tag[1] < (current - 1) - 1
            /\ n.saved[tag].stamp.on \in {"compute", "h2d"}
            /\ n.saved[tag].stamp.at <= n.clock["compute"][n.saved[tag].stamp.on]
            /\ n.saved[tag].on = "host" => n.saved[tag].key \in n.mapping[tag[1]].keys
      <4>1. SUFFICES ASSUME NEW tag \in DOMAIN saved
                     PROVE  /\ tag[1] \in 0 .. current - 1
                            /\ saved[tag].on = "host" <=> tag[1] < (current - 1) - 1
                            /\ saved[tag].stamp.on \in {"compute", "h2d"}
                            /\ saved[tag].stamp.at <= clk["compute"][saved[tag].stamp.on]
                            /\ saved[tag].on = "host" => saved[tag].key \in mapping[tag[1]].keys
        BY <2>5
      <4>2. saved[tag].stamp.on \in {"compute", "h2d"}
        BY <1>8
      <4>3. saved[tag].on = "host" => saved[tag].key \in mapping[tag[1]].keys
        BY <1>10
      <4>4. tag[1] \in 0 .. current - 1 /\ (saved[tag].on = "host" <=> tag[1] < (current - 1) - 1)
        BY <2>10
      <4>5. saved[tag].stamp.at <= clk["compute"][saved[tag].stamp.on]
        BY <2>6
      <4>6. QED
        BY <4>2, <4>3, <4>4, <4>5
    <3>2. DOMAIN n.mapping = 0 .. (current - 1) - 2 /\ n.buf = {}
      BY <2>5, <2>9
    <3>3. \A g \in DOMAIN n.mapping : n.mapping[g].stamp.at <= n.clock["compute"]["d2h"]
      BY <2>5, <2>7
    <3>4. QED
      BY <2>5, <2>8, <3>1, <3>2, <3>3 DEF Returned
  <2>12. QED
    BY <1>13, <2>2, <2>5, <2>11
<1>14. CASE current # 1
  <2>1. current >= 2 /\ count = current - 1
    BY <1>1, <1>4, <1>14
  <2>2. PICK clk1, clk, w : /\ clk1 = WaitStream(clock, "h2d", "compute")
                            /\ clk = WaitStream(clk1, "compute", "h2d")
                            /\ w = [Handler EXCEPT !.clock = clk]
    OBVIOUS
  <2>3. /\ IsClock(clk1) /\ NotBefore(clk1, clock) /\ IsClock(clk) /\ NotBefore(clk, clk1)
        /\ \A u \in Streams : clock["compute"][u] <= clk1["h2d"][u]
        /\ \A u \in Streams : clk1["h2d"][u] <= clk["compute"][u]
    BY <1>2, <1>6, <2>2, WaitFacts
  <2>4. NotBefore(clk, clock)
    BY <1>2, <2>3, NotBeforeTransitive
  <2>5. \A u \in Streams : /\ clock["compute"][u] <= clk["h2d"][u]
                           /\ clock["h2d"][u] <= clk["compute"][u]
    <3>1. \A u \in Streams : /\ clock["compute"][u] \in Nat /\ clk1["h2d"][u] \in Nat /\ clk["h2d"][u] \in Nat
                             /\ clock["h2d"][u] \in Nat /\ clk["compute"][u] \in Nat
                             /\ clk1["h2d"][u] <= clk["h2d"][u] /\ clock["h2d"][u] <= clk1["h2d"][u]
      BY <1>2, <1>6, <2>3 DEF IsClock, NotBefore
    <3>2. QED
      BY <2>3, <3>1
  <2>6. /\ IsHandler(w) /\ w.clock = clk /\ w.count = count /\ w.saved = saved
        /\ w.buf = buf /\ w.mapping = mapping
    BY <1>2, <2>2, <2>3, ClockReplaced
  <2>7. PICK m : m = BulkReload(w, current - 2)
    OBVIOUS
  <2>8. /\ IsHandler(m) /\ m.count = count /\ m.buf = {}
        /\ NotBefore(m.clock, clk) /\ m.clock["compute"] = clk["compute"]
        /\ DOMAIN m.saved = DOMAIN saved
        /\ \A tag \in DOMAIN saved :
             IF tag[1] = current - 2 /\ saved[tag].on = "host"
             THEN /\ m.saved[tag].on = "gpu" /\ m.saved[tag].stamp.on = "h2d"
                  /\ m.saved[tag].stamp.at = m.clock["h2d"]["h2d"]
             ELSE m.saved[tag] = saved[tag]
        /\ DOMAIN m.mapping = DOMAIN mapping \ {current - 2}
        /\ \A i \in DOMAIN m.mapping : m.mapping[i] = mapping[i]
    <3>1. current - 2 \in DOMAIN w.mapping
      <4>1. current - 2 \in 0 .. current - 2
        BY <1>1, <2>1
      <4>2. QED
        BY <1>10, <2>6, <4>1
    <3>2. \A tag \in OfGroup(w, current - 2) :
            w.saved[tag].on = "host" => w.saved[tag].key \in w.mapping[current - 2].keys
      BY <1>10, <2>6 DEF OfGroup
    <3>3. w.mapping[current - 2].stamp.at <= w.clock["h2d"][w.mapping[current - 2].stamp.on]
      <4>1. clock["compute"]["d2h"] <= clk["h2d"]["d2h"] /\ clock["compute"]["d2h"] \in Nat /\ clk["h2d"]["d2h"] \in Nat
        BY <1>2, <1>6, <2>3, <2>5 DEF IsClock
      <4>2. /\ mapping[current - 2].stamp.on = "d2h" /\ mapping[current - 2].stamp.at \in Nat
            /\ mapping[current - 2].stamp.at <= clock["compute"]["d2h"]
        BY <1>9, <2>6, <3>1
      <4>3. QED
        BY <2>6, <4>1, <4>2
    <3>4. lastUse.at <= w.clock["h2d"]["compute"]
      <4>1. /\ clock["compute"]["compute"] <= clk["h2d"]["compute"]
            /\ clock["compute"]["compute"] \in Nat /\ clk["h2d"]["compute"] \in Nat
        BY <1>2, <1>6, <2>3, <2>5 DEF IsClock
      <4>2. QED
        BY <1>7, <2>6, <4>1
    <3>5. QED
      BY <1>7, <1>10, <2>6, <2>7, <3>1, <3>2, <3>3, <3>4, ReloadFacts
  <2>9. n = [m EXCEPT !.count = IF m.count > 1 THEN m.count - 1 ELSE m.count]
    <3>1. count - 1 = current - 2 /\ count = current - 1 /\ current - 1 # 0
      BY <1>1, <2>1
    <3>2. QED
      BY <1>2, <1>5, <2>2, <2>7, <3>1 DEF SynchronizeBackward
  <2>10. /\ IsHandler(n) /\ n.saved = m.saved /\ n.mapping = m.mapping /\ n.buf = {} /\ n.clock = m.clock
         /\ n.count = IF count > 1 THEN count - 1 ELSE count
    BY <2>8, <2>9 DEF IsHandler
  <2>11. n.count = IF current - 1 >= 2 THEN current - 2 ELSE current - 1
    BY <1>1, <2>1, <2>10
  <2>12. IsClock(m.clock) /\ NotBefore(m.clock, clock) /\ clock["h2d"]["h2d"] <= m.clock["compute"]["h2d"]
    BY <1>2, <1>6, <2>3, <2>4, <2>5, <2>8, NotBeforeTransitive DEF IsHandler
  <2>13. DOMAIN m.mapping = 0 .. (current - 1) - 2
    <3>1. (0 .. current - 2) \ {current - 2} = 0 .. (current - 1) - 2
      BY <1>1, <2>1
    <3>2. QED
      BY <1>10, <2>8, <3>1
  <2>14. \A g \in DOMAIN m.mapping :
           /\ m.mapping[g].stamp.on = "d2h" /\ m.mapping[g].stamp.at <= m.clock["d2h"]["d2h"]
           /\ m.mapping[g].stamp.at <= m.clock["compute"]["d2h"]
    BY <1>9, <1>12, <2>8, <2>12
  <2>15. ASSUME NEW tag \in DOMAIN m.saved
         PROVE  /\ tag[1] \in 0 .. current - 1
                /\ m.saved[tag].on = "host" <=> tag[1] < (current - 1) - 1
                /\ m.saved[tag].stamp.on \in {"compute", "h2d"}
                /\ m.saved[tag].stamp.at <= m.clock[m.saved[tag].stamp.on][m.saved[tag].stamp.on]
                /\ tag[1] = current - 1 =>
                     m.saved[tag].stamp.at <= m.clock["compute"][m.saved[tag].stamp.on]
                /\ m.saved[tag].on = "host" => m.saved[tag].key \in m.mapping[tag[1]].keys
    <3>1. /\ tag \in DOMAIN saved /\ IsSlot(saved[tag]) /\ tag[1] \in 0 .. current - 1
          /\ saved[tag].on = "host" <=> tag[1] < current - 1
          /\ saved[tag].stamp.on \in {"compute", "h2d"}
          /\ saved[tag].stamp.at <= clock[saved[tag].stamp.on][saved[tag].stamp.on]
      BY <1>8, <2>8
    <3>2. CASE tag[1] = current - 2
      <4>1. saved[tag].on = "host"
        BY <1>1, <2>1, <3>1, <3>2
      <4>2. /\ m.saved[tag].on = "gpu" /\ m.saved[tag].stamp.on = "h2d"
            /\ m.saved[tag].stamp.at = m.clock["h2d"]["h2d"]
        BY <2>8, <3>1, <3>2, <4>1
      <4>3. m.clock["h2d"]["h2d"] \in Nat /\ tag[1] # current - 1 /\ ~(tag[1] < (current - 1) - 1)
        BY <1>1, <1>6, <2>12, <3>2 DEF IsClock
      <4>4. QED
        BY <3>1, <4>2, <4>3
    <3>3. CASE tag[1] # current - 2
      <4>1. m.saved[tag] = saved[tag]
        BY <2>8, <3>1, <3>3
      <4>2. /\ saved[tag].stamp.at <= m.clock["compute"][saved[tag].stamp.on]
            /\ saved[tag].stamp.at <= m.clock[saved[tag].stamp.on][saved[tag].stamp.on]
        BY <1>11, <2>12, <3>1 DEF IsSlot
      <4>3. tag[1] < current - 1 <=> tag[1] < (current - 1) - 1
        BY <1>1, <3>1, <3>3
      <4>4. saved[tag].on = "host" => tag[1] \in DOMAIN m.mapping
        <5>1. tag[1] < (current - 1) - 1 => tag[1] \in 0 .. (current - 1) - 2
          BY <1>1, <3>1
        <5>2. QED
          BY <2>13, <3>1, <4>3, <5>1
      <4>5. saved[tag].on = "host" => saved[tag].key \in m.mapping[tag[1]].keys
        BY <1>10, <2>8, <3>1, <4>4
      <4>6. QED
        BY <3>1, <4>1, <4>2, <4>3, <4>5
    <3>4. QED
      BY <3>2, <3>3
  <2>16. StampsOf(n)
    BY <2>10, <2>14, <2>15 DEF StampsOf
  <2>17. Returned(n, current - 1)
    BY <2>10, <2>13, <2>14, <2>15, <2>16 DEF Returned
  <2>18. QED
    BY <2>10, <2>11, <2>12, <2>17
<1>15. QED
  BY <1>13, <1>14

-----------------------------------------------------------------------------
(* The invariant is kept by every step.                                    *)

\* The passes begin with nothing on the device.
LEMMA OffloadInit ==
    ASSUME Init
    PROVE  OffloadInv
<1>1. /\ layers \in LayerCounts /\ phase = "idle" /\ current = 0 /\ count = 0 /\ saved = <<>> /\ buf = {}
      /\ mapping = <<>> /\ lastUse.on = "compute" /\ lastUse.at = 0 /\ raced = FALSE
  <2>1. layers \in LayerCounts /\ phase = "idle" /\ current = 0 /\ count = 0 /\ raced = FALSE
    BY DEF Init
  <2>2. saved = <<>> /\ buf = {} /\ mapping = <<>>
    BY DEF Init
  <2>3. lastUse.on = "compute" /\ lastUse.at = 0
    BY DEF Init, NoStamp
  <2>4. QED
    BY <2>1, <2>2, <2>3
<1>2. IsClock(clock) /\ clock["compute"]["compute"] = 0
  <2>1. clock = [s \in Streams |-> [t \in Streams |-> 0]]
    BY DEF Init
  <2>2. QED
    BY <2>1 DEF IsClock, Streams
<1>3. DOMAIN saved = {} /\ DOMAIN mapping = {}
  BY <1>1
<1>4. saved = [tag \in DOMAIN saved |-> saved[tag]] /\ mapping = [g \in DOMAIN mapping |-> mapping[g]]
  BY <1>1
<1>5. Types
  BY <1>1, <1>2, <1>3, <1>4 DEF Types
<1>6. layers \in Nat /\ layers >= 3
  BY <1>5, Windows
<1>7. Stamps /\ Copied
  BY <1>1, <1>2, <1>3 DEF Stamps, Copied
<1>8. ForwardInv /\ BackwardInv /\ RestInv
  BY <1>1, <1>6 DEF ForwardInv, BackwardInv, RestInv
<1>9. QED
  BY <1>1, <1>5, <1>7, <1>8 DEF OffloadInv

LEMMA BeginForwardKeeps ==
    ASSUME OffloadInv, BeginForward
    PROVE  OffloadInv'
<1>1. /\ phase = "idle" /\ phase' \in {"forward", "nograd"}
      /\ phase' = "nograd" => ~paired'
      /\ ~paired => ~paired'
      /\ UNCHANGED <<layers, current, count, saved, buf, mapping, clock, lastUse, raced>>
  BY DEF BeginForward
<1>2. layers \in Nat /\ layers >= 3 /\ current \in Nat /\ Types
  BY Windows DEF OffloadInv, Types
<1>3. Types' /\ Stamps' /\ Copied' /\ raced' = FALSE
  BY <1>1 DEF OffloadInv, Types, Stamps, Copied
<1>4. BackwardInv'
  BY <1>1 DEF BackwardInv
<1>5. CASE current < layers
  <2>1. current = 0 /\ count = 0 /\ saved = <<>> /\ buf = {} /\ mapping = <<>>
    BY <1>1, <1>5 DEF OffloadInv, RestInv
  <2>2. DOMAIN saved = {} /\ DOMAIN mapping = 0 .. current - 1
    BY <2>1
  <2>3. ForwardInv'
    BY <1>1, <2>1, <2>2 DEF ForwardInv
  <2>4. RestInv'
    BY <1>1, <1>2, <1>5, <2>1 DEF RestInv
  <2>5. QED
    BY <1>3, <1>4, <2>3, <2>4 DEF OffloadInv
<1>6. CASE ~(current < layers)
  <2>1. ~paired /\ count = layers - 1
    BY <1>1, <1>2, <1>6 DEF OffloadInv, RestInv
  <2>2. saved = <<>>
    BY <1>1 DEF OffloadInv, RestInv
  <2>3. ForwardInv' /\ RestInv'
    BY <1>1, <1>2, <1>6, <2>1, <2>2 DEF ForwardInv, RestInv
  <2>4. QED
    BY <1>3, <1>4, <2>3 DEF OffloadInv
<1>7. QED
  BY <1>5, <1>6

\* A tensor is saved: it is on the device, computed by what has just run.
LEMMA TensorPushKeeps ==
    ASSUME OffloadInv, TensorPush
    PROVE  OffloadInv'
<1>1. PICK tag, clk, slot :
        /\ tag[1] = current /\ clk = Tick(clock, "compute")
        /\ DOMAIN slot = {"on", "key", "stamp"} /\ slot.on = "gpu" /\ slot.stamp = Stamp(clk, "compute")
        /\ saved' = [t \in DOMAIN saved \cup {tag} |-> IF t = tag THEN slot ELSE saved[t]]
        /\ buf' = (IF current < NumOffload THEN buf \cup {tag} ELSE buf)
        /\ clock' = clk
  <2>1. PICK key :
          /\ saved' = [t \in DOMAIN saved \cup {<<current, TagCount>>} |->
                          IF t = <<current, TagCount>>
                          THEN [on |-> "gpu", key |-> key, stamp |-> Stamp(Tick(clock, "compute"), "compute")]
                          ELSE saved[t]]
          /\ buf' = (IF current < NumOffload THEN buf \cup {<<current, TagCount>>} ELSE buf)
          /\ clock' = Tick(clock, "compute")
    BY DEF TensorPush
  <2>2. PICK tag : tag = <<current, TagCount>>
    OBVIOUS
  <2>3. PICK slot : slot = [on |-> "gpu", key |-> key, stamp |-> Stamp(Tick(clock, "compute"), "compute")]
    OBVIOUS
  <2>4. /\ saved' = [t \in DOMAIN saved \cup {tag} |-> IF t = tag THEN slot ELSE saved[t]]
        /\ buf' = (IF current < NumOffload THEN buf \cup {tag} ELSE buf)
    BY <2>1, <2>2, <2>3
  <2>5. tag[1] = current
    BY <2>2
  <2>6. DOMAIN slot = {"on", "key", "stamp"} /\ slot.on = "gpu" /\ slot.stamp = Stamp(Tick(clock, "compute"), "compute")
    BY <2>3
  <2>7. QED
    BY <2>1, <2>4, <2>5, <2>6
<1>2. /\ phase = "forward" /\ UNCHANGED <<layers, phase, step, paired, current, count, mapping, lastUse, raced>>
  BY DEF TensorPush
<1>3. /\ Types /\ layers \in Nat /\ current \in Nat /\ NumOffload = layers - 1 /\ IsClock(clock)
  BY Windows DEF OffloadInv, Types
<1>4. "compute" \in Streams
  BY DEF Streams
<1>5. /\ IsClock(clk) /\ NotBefore(clk, clock) /\ IsStamp(slot.stamp)
      /\ slot.stamp.on = "compute" /\ slot.stamp.at = clk["compute"]["compute"]
  BY <1>1, <1>3, <1>4, TickFacts
<1>6. DOMAIN saved' = DOMAIN saved \cup {tag} /\ saved' = [t \in DOMAIN saved' |-> saved'[t]]
  BY <1>1
<1>7. saved'[tag] = slot /\ \A t \in DOMAIN saved \ {tag} : saved'[t] = saved[t]
  BY <1>1
<1>8. IsSlot(slot)
  BY <1>1, <1>5 DEF IsSlot
<1>9. \A t \in DOMAIN saved' : IsSlot(saved'[t])
  BY <1>6, <1>7, <1>8 DEF OffloadInv, Types
<1>10. Types'
  BY <1>1, <1>2, <1>5, <1>6, <1>9 DEF OffloadInv, Types
<1>11. ASSUME NEW x, IsStamp(x), x.at <= clock[x.on][x.on]
       PROVE  x.at <= clk[x.on][x.on]
  BY <1>3, <1>5, <1>11 DEF IsStamp, IsClock, NotBefore
<1>12. Stamps'
  <2>1. ASSUME NEW t \in DOMAIN saved'
        PROVE  saved'[t].stamp.at <= clk[saved'[t].stamp.on][saved'[t].stamp.on]
    <3>1. CASE t = tag
      <4>1. clk["compute"]["compute"] \in Nat
        BY <1>4, <1>5 DEF IsClock
      <4>2. QED
        BY <1>5, <1>7, <3>1, <4>1
    <3>2. CASE t # tag
      <4>1. t \in DOMAIN saved /\ saved'[t] = saved[t]
        BY <1>6, <1>7, <3>2
      <4>2. IsStamp(saved[t].stamp) /\ saved[t].stamp.at <= clock[saved[t].stamp.on][saved[t].stamp.on]
        BY <4>1 DEF OffloadInv, Types, IsSlot, Stamps
      <4>3. QED
        BY <1>11, <4>1, <4>2
    <3>3. QED
      BY <3>1, <3>2
  <2>2. \A g \in DOMAIN mapping : mapping[g].stamp.on = "d2h" /\ mapping[g].stamp.at <= clk["d2h"]["d2h"]
    BY <1>11 DEF OffloadInv, Types, Stamps
  <2>3. lastUse.at <= clk["compute"]["compute"]
    BY <1>11 DEF OffloadInv, Types, Stamps, IsStamp, Streams
  <2>4. QED
    BY <1>1, <1>2, <2>1, <2>2, <2>3 DEF Stamps
<1>13. Copied'
  BY <1>1, <1>2, <1>6, <1>7 DEF OffloadInv, Copied
<1>14. ForwardInv'
  <2>1. SUFFICES ASSUME current < layers PROVE ForwardInv'
    BY <1>2 DEF ForwardInv
  <2>2. ASSUME NEW t \in DOMAIN saved'
        PROVE  /\ t[1] \in 0 .. current
               /\ saved'[t].on = "host" <=> t[1] < current
               /\ saved'[t].stamp.on = "compute"
    <3>1. CASE t = tag
      BY <1>1, <1>3, <1>5, <1>7, <3>1
    <3>2. CASE t # tag
      <4>1. t \in DOMAIN saved /\ saved'[t] = saved[t]
        BY <1>6, <1>7, <3>2
      <4>2. QED
        BY <1>2, <2>1, <4>1 DEF OffloadInv, ForwardInv
    <3>3. QED
      BY <3>1, <3>2
  <2>3. \A t \in buf' : t[1] \in {current - 1, current} /\ t[1] \in 0 .. layers - 2
    <3>1. \A t \in buf : t[1] \in {current - 1, current} /\ t[1] \in 0 .. layers - 2
      BY <1>2, <2>1 DEF OffloadInv, ForwardInv
    <3>2. current < NumOffload => current \in 0 .. layers - 2
      BY <1>3
    <3>3. QED
      BY <1>1, <3>1, <3>2
  <2>4. (count = IF current = 0 THEN 0 ELSE current - 1) /\ DOMAIN mapping = 0 .. current - 1
    BY <1>2, <2>1 DEF OffloadInv, ForwardInv
  <2>5. QED
    BY <1>2, <2>2, <2>3, <2>4 DEF ForwardInv
<1>15. BackwardInv' /\ RestInv'
  BY <1>2 DEF OffloadInv, BackwardInv, RestInv
<1>16. QED
  BY <1>2, <1>10, <1>12, <1>13, <1>14, <1>15 DEF OffloadInv

\* The end of a layer. Where the windows are used up it raises, which takes a pass
\* without gradients before.
LEMMA CommitForwardKeeps ==
    ASSUME OffloadInv, CommitForward
    PROVE  OffloadInv'
<1>1. PICK n : n = SynchronizeForward(Handler, current)
  OBVIOUS
<1>2. /\ Types /\ layers \in Nat /\ layers >= 3 /\ current \in Nat /\ NumOffload = layers - 1
      /\ IsHandler(Handler) /\ Handler.count = count
  BY Windows, HandlerFacts DEF OffloadInv, Types
<1>3. phase \in {"forward", "nograd"} /\ UNCHANGED <<layers, step, paired, lastUse>>
  BY DEF CommitForward
<1>4. CASE current < layers
  <2>1. /\ Committed(n, current + 1) /\ NotBefore(n.clock, clock) /\ n.count = current
        /\ DOMAIN n.saved = DOMAIN saved
        /\ \A tag \in n.buf : tag[1] = current /\ tag[1] \in 0 .. layers - 2
        /\ current = layers - 1 =>
             \A g \in DOMAIN n.mapping : n.mapping[g].stamp.at <= n.clock["compute"]["d2h"]
    BY <1>1, <1>3, <1>4, ForwardCommit
  <2>2. IsHandler(n) /\ StampsOf(n)
    BY <2>1 DEF Committed
  <2>3. /\ count' = current /\ saved' = n.saved /\ buf' = n.buf /\ mapping' = n.mapping
        /\ clock' = n.clock /\ raced' = FALSE /\ current' = current + 1
        /\ phase' = IF current + 1 < layers THEN phase
                    ELSE IF phase = "forward" THEN "backward" ELSE "idle"
    BY <1>1, <2>1, <2>2 DEF CommitForward, Update, IsHandler
  <2>4. Types'
    <3>1. /\ saved' = [tag \in DOMAIN saved' |-> saved'[tag]]
          /\ \A tag \in DOMAIN saved' : IsSlot(saved'[tag])
          /\ mapping' = [g \in DOMAIN mapping' |-> mapping'[g]]
          /\ \A g \in DOMAIN mapping' : IsStamp(mapping'[g].stamp)
          /\ IsClock(clock')
      BY <2>2, <2>3 DEF IsHandler
    <3>2. phase' \in {"idle", "forward", "nograd", "backward", "raised"}
      BY <1>3, <2>3
    <3>3. current' \in Nat /\ count' \in Nat
      BY <1>2, <2>3
    <3>4. QED
      BY <1>3, <3>1, <3>2, <3>3 DEF OffloadInv, Types
  <2>5. Stamps'
    <3>1. lastUse.at <= n.clock["compute"]["compute"]
      <4>1. /\ lastUse.at <= clock["compute"]["compute"] /\ lastUse.at \in Nat
            /\ clock["compute"]["compute"] <= n.clock["compute"]["compute"]
        BY <2>1 DEF OffloadInv, Stamps, Types, NotBefore, Streams
      <4>2. clock["compute"]["compute"] \in Nat /\ n.clock["compute"]["compute"] \in Nat
        BY <2>2 DEF OffloadInv, Types, IsHandler, IsClock, Streams
      <4>3. QED
        BY <4>1, <4>2
    <3>2. QED
      BY <1>3, <2>2, <2>3, <3>1 DEF StampsOf, Stamps
  <2>6. /\ DOMAIN mapping' = {g \in 0 .. current : g <= layers - 2}
        /\ \A tag \in DOMAIN saved' :
             /\ tag[1] \in 0 .. current + 1
             /\ saved'[tag].on = "host" <=> (tag[1] < current + 1 /\ tag[1] <= layers - 2)
             /\ saved'[tag].stamp.on = "compute"
             /\ saved'[tag].on = "host" => saved'[tag].key \in mapping'[tag[1]].keys
    <3>1. (current + 1) - 1 = current
      BY <1>2
    <3>2. QED
      BY <2>1, <2>3, <3>1 DEF Committed
  <2>7. Copied'
    <3>1. SUFFICES ASSUME NEW tag \in DOMAIN saved', saved'[tag].on = "host"
                   PROVE  tag[1] \in DOMAIN mapping' /\ saved'[tag].key \in mapping'[tag[1]].keys
      BY DEF Copied
    <3>2. tag[1] \in 0 .. current + 1 /\ tag[1] < current + 1 /\ tag[1] <= layers - 2
      BY <2>6, <3>1
    <3>3. tag[1] \in 0 .. current
      BY <1>2, <3>2
    <3>4. QED
      BY <2>6, <3>1, <3>2, <3>3
  <2>8. CASE current + 1 < layers
    <3>1. phase' = phase /\ current' < layers
      BY <2>3, <2>8
    <3>2. DOMAIN mapping' = 0 .. current' - 1
      <4>1. {g \in 0 .. current : g <= layers - 2} = 0 .. (current + 1) - 1
        BY <1>2, <2>8
      <4>2. QED
        BY <2>3, <2>6, <4>1
    <3>3. count' = IF current' = 0 THEN 0 ELSE current' - 1
      BY <1>2, <2>3
    <3>4. \A tag \in buf' : tag[1] \in {current' - 1, current'} /\ tag[1] \in 0 .. layers - 2
      BY <1>2, <2>1, <2>3
    <3>5. ASSUME NEW tag \in DOMAIN saved'
          PROVE  /\ tag[1] \in 0 .. current'
                 /\ saved'[tag].on = "host" <=> tag[1] < current'
                 /\ saved'[tag].stamp.on = "compute"
      <4>1. tag[1] \in 0 .. current + 1 /\ (tag[1] < current + 1 => tag[1] <= layers - 2)
        BY <1>2, <2>6, <2>8
      <4>2. QED
        BY <2>3, <2>6, <4>1
    <3>6. ForwardInv'
      BY <1>3, <3>2, <3>3, <3>4, <3>5 DEF ForwardInv
    <3>7. phase' = "nograd" => saved' = <<>> /\ ~paired'
      <4>1. CASE phase = "nograd"
        <5>1. saved = <<>> /\ ~paired
          BY <4>1 DEF OffloadInv, RestInv
        <5>2. DOMAIN saved' = {} /\ saved' = [tag \in DOMAIN saved' |-> saved'[tag]]
          BY <2>1, <2>3, <2>4, <5>1 DEF Types
        <5>3. saved' = <<>>
          BY <5>2
        <5>4. QED
          BY <1>3, <5>1, <5>3
      <4>2. CASE phase # "nograd"
        BY <3>1, <4>2
      <4>3. QED
        BY <4>1, <4>2
    <3>8. RestInv'
      <4>1. phase' # "idle" /\ phase' # "raised" /\ ~(current' >= layers')
        BY <1>2, <1>3, <2>3, <2>8, <3>1
      <4>2. QED
        BY <3>7, <4>1 DEF RestInv
    <3>9. BackwardInv'
      BY <1>3, <3>1 DEF BackwardInv
    <3>10. QED
      BY <2>3, <2>4, <2>5, <2>7, <3>6, <3>8, <3>9 DEF OffloadInv
  <2>9. CASE ~(current + 1 < layers)
    <3>1. current = layers - 1 /\ current' = layers
      BY <1>2, <1>4, <2>3, <2>9
    <3>2. phase' = IF phase = "forward" THEN "backward" ELSE "idle"
      BY <2>3, <2>9
    <3>3. ForwardInv'
      BY <3>2 DEF ForwardInv
    <3>4. RestInv'
      <4>1. CASE phase = "forward"
        BY <3>2, <4>1 DEF RestInv
      <4>2. CASE phase = "nograd"
        <5>1. saved = <<>> /\ ~paired
          BY <4>2 DEF OffloadInv, RestInv
        <5>2. DOMAIN saved' = {} /\ saved' = [tag \in DOMAIN saved' |-> saved'[tag]]
          BY <2>1, <2>3, <2>4, <5>1 DEF Types
        <5>3. saved' = <<>>
          BY <5>2
        <5>4. phase' = "idle" /\ ~paired' /\ count' = layers' - 1 /\ ~(current' < layers')
          BY <1>2, <1>3, <2>3, <3>1, <3>2, <4>2, <5>1
        <5>5. QED
          BY <5>3, <5>4 DEF RestInv
      <4>3. QED
        BY <1>3, <4>1, <4>2
    <3>5. BackwardInv'
      <4>1. current' <= layers' /\ count' = (IF current' >= 2 THEN current' - 1 ELSE current')
        BY <1>2, <1>3, <2>3, <3>1
      <4>2. DOMAIN mapping' = 0 .. current' - 2
        <5>1. {g \in 0 .. layers - 1 : g <= layers - 2} = 0 .. layers - 2
          BY <1>2
        <5>2. QED
          BY <2>6, <3>1, <5>1
      <4>3. ASSUME NEW tag \in DOMAIN saved'
            PROVE  /\ tag[1] \in 0 .. current'
                   /\ saved'[tag].on = "host" <=> tag[1] < current' - 1
                   /\ saved'[tag].stamp.on \in {"compute", "h2d"}
                   /\ tag[1] = current' =>
                        saved'[tag].stamp.at <= clock'["compute"][saved'[tag].stamp.on]
        <5>1. tag[1] \in 0 .. layers /\ saved'[tag].stamp.on = "compute"
          BY <1>2, <2>6, <3>1
        <5>2. (tag[1] < current + 1 /\ tag[1] <= layers - 2) <=> tag[1] < layers - 1
          BY <1>2, <3>1, <5>1
        <5>3. saved'[tag].stamp.at <= clock'["compute"]["compute"]
          BY <2>5, <5>1 DEF Stamps
        <5>4. QED
          BY <2>6, <3>1, <5>1, <5>2, <5>3
      <4>4. buf' = {}
        <5>1. ~(current \in 0 .. layers - 2)
          BY <1>2, <3>1
        <5>2. QED
          BY <2>1, <2>3, <5>1
      <4>5. \A g \in DOMAIN mapping' : mapping'[g].stamp.at <= clock'["compute"]["d2h"]
        BY <2>1, <2>3, <3>1
      <4>6. QED
        BY <4>1, <4>2, <4>3, <4>4, <4>5 DEF BackwardInv
    <3>6. QED
      BY <2>3, <2>4, <2>5, <2>7, <3>3, <3>4, <3>5 DEF OffloadInv
  <2>10. QED
    BY <2>8, <2>9
<1>5. CASE ~(current < layers)
  <2>1. ~paired /\ count = layers - 1
    BY <1>2, <1>3, <1>5 DEF OffloadInv, RestInv
  <2>2. ~InWindowMap(count) /\ current # 0
    BY <1>2, <1>5, <2>1 DEF InWindowMap
  <2>3. n = [Handler EXCEPT !.error = TRUE]
    BY <1>1, <1>2, <2>2 DEF SynchronizeForward
  <2>4. n.error = TRUE
    BY <1>2, <2>3 DEF IsHandler
  <2>5. phase' = "raised" /\ UNCHANGED <<current, count, saved, buf, mapping, clock, raced>>
    BY <1>1, <2>4 DEF CommitForward
  <2>6. Types' /\ Stamps' /\ Copied' /\ raced' = FALSE
    BY <1>3, <2>5 DEF OffloadInv, Types, Stamps, Copied
  <2>7. ForwardInv' /\ BackwardInv' /\ RestInv'
    BY <1>3, <2>1, <2>5 DEF ForwardInv, BackwardInv, RestInv
  <2>8. QED
    BY <2>6, <2>7 DEF OffloadInv
<1>6. QED
  BY <1>4, <1>5

\* Backward comes to the layer below.
LEMMA CommitBackwardKeeps ==
    ASSUME OffloadInv, CommitBackward
    PROVE  OffloadInv'
<1>1. PICK n : n = SynchronizeBackward(Handler, current - 1)
  OBVIOUS
<1>2. /\ phase = "backward" /\ current > 0 /\ OfGroup(Handler, current) = {}
      /\ UNCHANGED <<layers, step, paired, lastUse>>
  BY DEF CommitBackward
<1>3. layers \in Nat /\ current \in Nat /\ current <= layers
  BY <1>2, Windows DEF OffloadInv, Types, BackwardInv
<1>4. /\ Returned(n, current - 1) /\ NotBefore(n.clock, clock)
      /\ n.count = IF current - 1 >= 2 THEN current - 2 ELSE current - 1
  BY <1>1, <1>2, BackwardCommit
<1>5. IsHandler(n) /\ StampsOf(n)
  BY <1>4 DEF Returned
<1>6. /\ count' = n.count /\ saved' = n.saved /\ buf' = n.buf /\ mapping' = n.mapping
      /\ clock' = n.clock /\ raced' = FALSE /\ current' = current - 1 /\ phase' = "backward"
  BY <1>1, <1>2, <1>5 DEF CommitBackward, Update, IsHandler
<1>7. Types'
  <2>1. /\ saved' = [tag \in DOMAIN saved' |-> saved'[tag]]
        /\ \A tag \in DOMAIN saved' : IsSlot(saved'[tag])
        /\ mapping' = [g \in DOMAIN mapping' |-> mapping'[g]]
        /\ \A g \in DOMAIN mapping' : IsStamp(mapping'[g].stamp)
        /\ IsClock(clock')
    BY <1>5, <1>6 DEF IsHandler
  <2>2. current' \in Nat /\ count' \in Nat
    BY <1>2, <1>3, <1>4, <1>6
  <2>3. QED
    BY <1>2, <1>6, <2>1, <2>2 DEF OffloadInv, Types
<1>8. Stamps'
  <2>1. lastUse.at <= n.clock["compute"]["compute"]
    <3>1. /\ lastUse.at <= clock["compute"]["compute"] /\ lastUse.at \in Nat
          /\ clock["compute"]["compute"] <= n.clock["compute"]["compute"]
      BY <1>4 DEF OffloadInv, Stamps, Types, NotBefore, Streams
    <3>2. clock["compute"]["compute"] \in Nat /\ n.clock["compute"]["compute"] \in Nat
      BY <1>5 DEF OffloadInv, Types, IsHandler, IsClock, Streams
    <3>3. QED
      BY <3>1, <3>2
  <2>2. QED
    BY <1>2, <1>5, <1>6, <2>1 DEF StampsOf, Stamps
<1>9. /\ DOMAIN mapping' = 0 .. current' - 2 /\ buf' = {}
      /\ \A tag \in DOMAIN saved' :
           /\ tag[1] \in 0 .. current'
           /\ saved'[tag].on = "host" <=> tag[1] < current' - 1
           /\ saved'[tag].stamp.on \in {"compute", "h2d"}
           /\ tag[1] = current' => saved'[tag].stamp.at <= clock'["compute"][saved'[tag].stamp.on]
           /\ saved'[tag].on = "host" => saved'[tag].key \in mapping'[tag[1]].keys
      /\ \A g \in DOMAIN mapping' : mapping'[g].stamp.at <= clock'["compute"]["d2h"]
  BY <1>4, <1>6 DEF Returned
<1>10. Copied'
  <2>1. SUFFICES ASSUME NEW tag \in DOMAIN saved', saved'[tag].on = "host"
                 PROVE  tag[1] \in DOMAIN mapping' /\ saved'[tag].key \in mapping'[tag[1]].keys
    BY DEF Copied
  <2>2. tag[1] \in 0 .. current' /\ tag[1] < current' - 1
    BY <1>9, <2>1
  <2>3. current' \in Nat
    BY <1>7 DEF Types
  <2>4. tag[1] \in 0 .. current' - 2
    BY <2>2, <2>3
  <2>5. QED
    BY <1>9, <2>1, <2>4
<1>11. BackwardInv'
  <2>1. current' <= layers' /\ count' = (IF current' >= 2 THEN current' - 1 ELSE current')
    BY <1>2, <1>3, <1>4, <1>6
  <2>2. QED
    BY <1>9, <2>1 DEF BackwardInv
<1>12. ForwardInv' /\ RestInv'
  BY <1>6 DEF ForwardInv, RestInv
<1>13. QED
  BY <1>6, <1>7, <1>8, <1>10, <1>11, <1>12 DEF OffloadInv

\* The layer that runs backward is on the device, and compute has waited for it.
LEMMA TensorPopKeeps ==
    ASSUME OffloadInv, TensorPop
    PROVE  OffloadInv'
<1>1. PICK tag \in OfGroup(Handler, current) :
        \/ saved[tag].on = "host"
        \/ /\ saved' = Restrict(saved, DOMAIN saved \ {tag})
           /\ buf' = buf \ {tag}
           /\ clock' = Tick(clock, "compute")
           /\ raced' = (raced \/ ~After(clock, "compute", saved[tag].stamp))
           /\ lastUse' = IF saved[tag].stamp.on = "h2d" THEN Stamp(clock', "compute") ELSE lastUse
           /\ UNCHANGED phase
  BY DEF TensorPop
<1>2. phase = "backward" /\ UNCHANGED <<layers, step, paired, current, count, mapping>>
  BY DEF TensorPop
<1>3. /\ Types /\ layers \in Nat /\ current \in Nat /\ IsClock(clock) /\ Handler.saved = saved
  BY Windows, HandlerFacts DEF OffloadInv, Types
<1>4. tag \in DOMAIN saved /\ tag[1] = current
  BY <1>1, <1>3 DEF OfGroup
<1>5. /\ saved[tag].on # "host"
      /\ saved[tag].stamp.at <= clock["compute"][saved[tag].stamp.on]
  <2>1. saved[tag].on = "host" <=> tag[1] < current - 1
    BY <1>2, <1>4 DEF OffloadInv, BackwardInv
  <2>2. QED
    BY <1>2, <1>3, <1>4, <2>1 DEF OffloadInv, BackwardInv
<1>6. /\ saved' = Restrict(saved, DOMAIN saved \ {tag})
      /\ buf' = buf \ {tag} /\ clock' = Tick(clock, "compute")
      /\ raced' = (raced \/ ~After(clock, "compute", saved[tag].stamp))
      /\ lastUse' = IF saved[tag].stamp.on = "h2d" THEN Stamp(clock', "compute") ELSE lastUse
      /\ phase' = "backward"
  BY <1>1, <1>2, <1>5
<1>7. "compute" \in Streams
  BY DEF Streams
<1>8. /\ IsClock(clock') /\ NotBefore(clock', clock) /\ Stamp(clock', "compute").on = "compute"
      /\ Stamp(clock', "compute").at = clock'["compute"]["compute"]
  BY <1>3, <1>6, <1>7, TickFacts
<1>9. raced' = FALSE
  BY <1>5, <1>6 DEF OffloadInv, After
<1>10. /\ DOMAIN saved' = DOMAIN saved \ {tag} /\ saved' = [t \in DOMAIN saved' |-> saved'[t]]
       /\ \A t \in DOMAIN saved' : saved'[t] = saved[t]
  BY <1>6 DEF Restrict
<1>11. clock'["compute"]["compute"] \in Nat /\ clock["compute"]["compute"] \in Nat
       /\ clock["compute"]["compute"] <= clock'["compute"]["compute"]
  BY <1>3, <1>7, <1>8 DEF IsClock, NotBefore
<1>12. lastUse'.on = "compute" /\ lastUse'.at \in Nat /\ lastUse'.at <= clock'["compute"]["compute"]
  <2>1. CASE saved[tag].stamp.on = "h2d"
    BY <1>6, <1>8, <1>11, <2>1
  <2>2. CASE saved[tag].stamp.on # "h2d"
    <3>1. lastUse' = lastUse
      BY <1>6, <2>2
    <3>2. lastUse.on = "compute" /\ lastUse.at \in Nat /\ lastUse.at <= clock["compute"]["compute"]
      BY DEF OffloadInv, Types, Stamps
    <3>3. QED
      BY <1>11, <3>1, <3>2
  <2>3. QED
    BY <2>1, <2>2
<1>13. Types'
  BY <1>2, <1>6, <1>8, <1>10, <1>12 DEF OffloadInv, Types
<1>14. ASSUME NEW x, IsStamp(x), NEW s \in Streams, x.at <= clock[s][x.on]
       PROVE  x.at <= clock'[s][x.on]
  BY <1>3, <1>8, <1>14 DEF IsStamp, IsClock, NotBefore
<1>15. Stamps'
  <2>1. \A t \in DOMAIN saved' : saved'[t].stamp.at <= clock'[saved'[t].stamp.on][saved'[t].stamp.on]
    <3>1. SUFFICES ASSUME NEW t \in DOMAIN saved'
                   PROVE  saved[t].stamp.at <= clock'[saved[t].stamp.on][saved[t].stamp.on]
      BY <1>10
    <3>2. IsStamp(saved[t].stamp) /\ saved[t].stamp.at <= clock[saved[t].stamp.on][saved[t].stamp.on]
      BY <1>10 DEF OffloadInv, Types, Stamps, IsSlot
    <3>3. QED
      BY <1>14, <3>2 DEF IsStamp
  <2>2. \A g \in DOMAIN mapping : mapping[g].stamp.on = "d2h" /\ mapping[g].stamp.at <= clock'["d2h"]["d2h"]
    BY <1>14 DEF OffloadInv, Types, Stamps, Streams
  <2>3. QED
    BY <1>2, <1>12, <2>1, <2>2 DEF Stamps
<1>16. Copied'
  BY <1>2, <1>10 DEF OffloadInv, Copied
<1>17. BackwardInv'
  <2>1. ASSUME NEW t \in DOMAIN saved'
        PROVE  /\ t[1] \in 0 .. current
               /\ saved[t].on = "host" <=> t[1] < current - 1
               /\ saved[t].stamp.on \in {"compute", "h2d"}
               /\ t[1] = current => saved[t].stamp.at <= clock'["compute"][saved[t].stamp.on]
    <3>1. /\ t \in DOMAIN saved /\ IsStamp(saved[t].stamp)
      BY <1>10 DEF OffloadInv, Types, IsSlot
    <3>2. /\ t[1] \in 0 .. current
          /\ saved[t].on = "host" <=> t[1] < current - 1
          /\ saved[t].stamp.on \in {"compute", "h2d"}
          /\ t[1] = current => saved[t].stamp.at <= clock["compute"][saved[t].stamp.on]
      BY <1>2, <3>1 DEF OffloadInv, BackwardInv
    <3>3. QED
      BY <1>7, <1>14, <3>1, <3>2
  <2>2. \A g \in DOMAIN mapping : mapping[g].stamp.at <= clock'["compute"]["d2h"]
    <3>1. SUFFICES ASSUME NEW g \in DOMAIN mapping PROVE mapping[g].stamp.at <= clock'["compute"]["d2h"]
      OBVIOUS
    <3>2. /\ IsStamp(mapping[g].stamp) /\ mapping[g].stamp.on = "d2h"
          /\ mapping[g].stamp.at <= clock["compute"]["d2h"]
      BY <1>2 DEF OffloadInv, Types, Stamps, BackwardInv
    <3>3. QED
      BY <1>7, <1>14, <3>2
  <2>3. buf' = {}
    BY <1>2, <1>6 DEF OffloadInv, BackwardInv
  <2>4. /\ current <= layers /\ DOMAIN mapping = 0 .. current - 2
        /\ count = IF current >= 2 THEN current - 1 ELSE current
    BY <1>2 DEF OffloadInv, BackwardInv
  <2>5. QED
    BY <1>2, <1>10, <2>1, <2>2, <2>3, <2>4 DEF BackwardInv
<1>18. ForwardInv' /\ RestInv'
  BY <1>6 DEF ForwardInv, RestInv
<1>19. QED
  BY <1>9, <1>13, <1>15, <1>16, <1>17, <1>18 DEF OffloadInv

\* When the first layer is through, nothing is left.
LEMMA EndBackwardKeeps ==
    ASSUME OffloadInv, EndBackward
    PROVE  OffloadInv'
<1>1. /\ phase = "backward" /\ phase' = "idle" /\ current = 0 /\ OfGroup(Handler, 0) = {}
      /\ UNCHANGED <<layers, step, paired, current, count, saved, buf, mapping, clock, lastUse, raced>>
  BY DEF EndBackward
<1>2. layers \in Nat /\ layers >= 3 /\ Handler.saved = saved
  BY Windows, HandlerFacts DEF OffloadInv
<1>3. count = 0 /\ buf = {} /\ DOMAIN mapping = 0 .. current - 2 /\ \A tag \in DOMAIN saved : tag[1] \in 0 .. current
  BY <1>1 DEF OffloadInv, BackwardInv
<1>4. DOMAIN mapping = {}
  BY <1>1, <1>3
<1>5. DOMAIN saved = {}
  <2>1. \A tag \in DOMAIN saved : tag[1] = 0
    BY <1>1, <1>3
  <2>2. QED
    BY <1>1, <1>2, <2>1 DEF OfGroup
<1>6. saved = [tag \in DOMAIN saved |-> saved[tag]] /\ mapping = [g \in DOMAIN mapping |-> mapping[g]]
  BY DEF OffloadInv, Types
<1>7. saved = <<>> /\ mapping = <<>>
  BY <1>4, <1>5, <1>6
<1>8. Types' /\ Stamps' /\ Copied' /\ raced' = FALSE
  BY <1>1 DEF OffloadInv, Types, Stamps, Copied
<1>9. ForwardInv' /\ BackwardInv'
  BY <1>1 DEF ForwardInv, BackwardInv
<1>10. RestInv'
  BY <1>1, <1>2, <1>3, <1>7 DEF RestInv
<1>11. QED
  BY <1>8, <1>9, <1>10 DEF OffloadInv

\* OffloadInv holds in every state.
LEMMA Offload == Spec => []OffloadInv
<1>1. Init => OffloadInv
  BY OffloadInit
<1>2. OffloadInv /\ [Next]_vars => OffloadInv'
  <2>1. SUFFICES ASSUME OffloadInv, [Next]_vars PROVE OffloadInv'
    OBVIOUS
  <2>2. CASE BeginForward
    BY <2>1, <2>2, BeginForwardKeeps
  <2>3. CASE TensorPush
    BY <2>1, <2>3, TensorPushKeeps
  <2>4. CASE CommitForward
    BY <2>1, <2>4, CommitForwardKeeps
  <2>5. CASE CommitBackward
    BY <2>1, <2>5, CommitBackwardKeeps
  <2>6. CASE TensorPop
    BY <2>1, <2>6, TensorPopKeeps
  <2>7. CASE EndBackward
    BY <2>1, <2>7, EndBackwardKeeps
  <2>8. CASE UNCHANGED vars
    BY <2>1, <2>8 DEF vars, OffloadInv, Types, Stamps, Copied, ForwardInv, BackwardInv, RestInv
  <2>9. QED
    BY <2>1, <2>2, <2>3, <2>4, <2>5, <2>6, <2>7, <2>8 DEF Next
<1>3. QED
  BY <1>1, <1>2, PTL DEF Spec

-----------------------------------------------------------------------------
(* What follows.                                                           *)

\* The activations that are on the device are those of two groups next to each other.
LEMMA TwoOnDevice ==
    ASSUME OffloadInv, paired
    PROVE  OnDevice \subseteq {current - 1, current}
<1>1. layers \in Nat /\ current \in Nat /\ Types
  BY Windows DEF OffloadInv, Types
<1>2. SUFFICES ASSUME NEW tag, (tag \in DOMAIN saved /\ saved[tag].on = "gpu") \/ tag \in buf
               PROVE  tag[1] \in {current - 1, current}
  BY DEF OnDevice
<1>3. phase \in {"idle", "forward", "nograd"} => current < layers
  BY <1>1 DEF OffloadInv, RestInv
<1>4. CASE phase = "idle"
  <2>1. saved = <<>> /\ buf = {}
    BY <1>3, <1>4 DEF OffloadInv, RestInv
  <2>2. QED
    BY <1>2, <2>1
<1>5. CASE phase \in {"forward", "nograd"}
  <2>1. CASE tag \in buf
    BY <1>3, <1>5, <2>1 DEF OffloadInv, ForwardInv
  <2>2. CASE tag \in DOMAIN saved /\ saved[tag].on = "gpu"
    <3>1. tag[1] \in 0 .. current /\ (saved[tag].on = "host" <=> tag[1] < current)
      BY <1>3, <1>5, <2>2 DEF OffloadInv, ForwardInv
    <3>2. QED
      BY <1>1, <2>2, <3>1
  <2>3. QED
    BY <1>2, <2>1, <2>2
<1>6. CASE phase = "backward"
  <2>1. buf = {}
    BY <1>6 DEF OffloadInv, BackwardInv
  <2>2. tag \in DOMAIN saved /\ saved[tag].on = "gpu"
    BY <1>2, <2>1
  <2>3. tag[1] \in 0 .. current /\ (saved[tag].on = "host" <=> tag[1] < current - 1)
    BY <1>6, <2>2 DEF OffloadInv, BackwardInv
  <2>4. QED
    BY <1>1, <2>2, <2>3
<1>7. CASE phase = "raised"
  BY <1>7 DEF OffloadInv, RestInv
<1>8. QED
  BY <1>1, <1>4, <1>5, <1>6, <1>7 DEF Types

\* The waits between the three streams order every two conflicting accesses, for any
\* number of layers, tensors and passes, passes without gradients included.
THEOREM NoAccessRaces == Spec => []NoRace
<1>1. OffloadInv => NoRace
  BY DEF OffloadInv, NoRace
<1>2. QED
  BY <1>1, Offload, PTL

\* At most two groups of activations are on the device: the one that runs, and the one
\* before it.
THEOREM TwoGroupsAtMost == Spec => []TwoGroups
<1>1. ASSUME OffloadInv PROVE TwoGroups
  <2>1. SUFFICES ASSUME paired PROVE Cardinality(OnDevice) <= 2
    BY DEF TwoGroups
  <2>2. OnDevice \subseteq {current - 1, current}
    BY <1>1, <2>1, TwoOnDevice
  <2>3. PICK a, b : a = current - 1 /\ b = current
    OBVIOUS
  <2>4. IsFiniteSet({a}) /\ Cardinality({a}) = 1
    BY FS_Singleton
  <2>5. /\ IsFiniteSet({a} \cup {b})
        /\ Cardinality({a} \cup {b}) = IF b \in {a} THEN Cardinality({a}) ELSE Cardinality({a}) + 1
    BY <2>4, FS_AddElement
  <2>6. Cardinality({a} \cup {b}) <= 2
    BY <2>4, <2>5
  <2>7. OnDevice \subseteq {a} \cup {b}
    BY <2>2, <2>3
  <2>8. IsFiniteSet(OnDevice) /\ Cardinality(OnDevice) <= Cardinality({a} \cup {b})
    BY <2>5, <2>7, FS_Subset
  <2>9. Cardinality(OnDevice) \in Nat /\ Cardinality({a} \cup {b}) \in Nat
    BY <2>5, <2>8, FS_CardinalityType
  <2>10. QED
    BY <2>6, <2>8, <2>9
<1>2. QED
  BY <1>1, Offload, PTL

\* As long as every forward pass had its backward pass, no assertion or lookup of the
\* handler fails, and between two passes nothing is left and both counters are back.
THEOREM PassesBalanced == Spec => []Balanced
<1>1. ASSUME OffloadInv PROVE Balanced
  <2>1. SUFFICES ASSUME paired
                 PROVE  /\ phase # "raised"
                        /\ phase = "idle" =>
                             /\ current = 0 /\ count = 0
                             /\ saved = <<>> /\ buf = {} /\ mapping = <<>>
    BY DEF Balanced
  <2>2. layers \in Nat /\ current \in Nat
    BY <1>1, Windows DEF OffloadInv, Types
  <2>3. phase # "raised" /\ (phase = "idle" => current < layers)
    BY <1>1, <2>1, <2>2 DEF OffloadInv, RestInv
  <2>4. QED
    BY <1>1, <2>3 DEF OffloadInv, RestInv
<1>2. QED
  BY <1>1, Offload, PTL

=============================================================================
