-------------------------- MODULE LiveStreamProofs --------------------------
(***************************************************************************)
(* The live path from the warm store to a browser view, for any number of  *)
(* wells, connections and samples, any sizes of the queues and the window, *)
(* and any number of losses, switches and restarts: no subscription        *)
(* outlives its handler, and the view is in order and has no hole.         *)
(***************************************************************************)
EXTENDS LiveStream, TLAPS

-----------------------------------------------------------------------------
(* Sequences. *)

\* The rest of a queue is the queue, one place on.
LEMMA TailFacts ==
    ASSUME NEW S, NEW s \in Seq(S), s # <<>>
    PROVE  /\ Tail(s) \in Seq(S) /\ Len(Tail(s)) = Len(s) - 1
           /\ \A i \in DOMAIN Tail(s) : i + 1 \in DOMAIN s /\ Tail(s)[i] = s[i + 1]
           /\ Head(s) = s[1] /\ 1 \in DOMAIN s /\ Head(s) \in S /\ Len(s) \in Nat
  BY SMT

\* A new frame goes to the end, and leaves the others where they are.
LEMMA AppendFacts ==
    ASSUME NEW S, NEW s \in Seq(S), NEW x \in S
    PROVE  /\ Append(s, x) \in Seq(S) /\ Len(Append(s, x)) = Len(s) + 1
           /\ \A i \in DOMAIN s : Append(s, x)[i] = s[i] /\ i < Len(s) + 1
           /\ DOMAIN Append(s, x) = DOMAIN s \cup {Len(s) + 1}
           /\ Append(s, x)[Len(s) + 1] = x /\ Len(s) \in Nat
  BY SMT

-----------------------------------------------------------------------------
(* Types. *)

\* The frames the hub can send: samples from..to of a well, none if from is
\* beyond to; a delta is one sample.
Frames ==
    {f \in [kind : {"data", "snapshot"}, well : Wells, from : Nat, to : Nat] :
        f.from \in 1..(f.to + 1) /\ (f.kind = "data" => f.from = f.to)}

\* A handler that sends a snapshot or has a drain task is subscribed.
Busy == \A k \in Conns : handler[k] = "snapshot" \/ drain[k] => current[k] \in Wells

\* TypeOK, with what is in the queues and on the wire.
TypeInv ==
    /\ TypeOK
    /\ queue \in [Wells \X Conns -> Seq(Frames)]
    /\ \A p \in Wells \X Conns : \A i \in DOMAIN queue[p] :
           queue[p][i].kind = "data" /\ queue[p][i].well = p[1]
    /\ down \in [Conns -> Seq(Frames)]
    /\ view \in Seq(Nat) /\ lossy \in BOOLEAN /\ reread \in BOOLEAN
    /\ \A w \in Wells : oldest[w] =< newest[w]
    /\ Busy

\* A delta and a snapshot are frames.
LEMMA FramesSent ==
    ASSUME TypeInv, NEW w \in Wells
    PROVE  /\ Frame("data", w, newest[w] + 1, newest[w] + 1) \in Frames
           /\ SnapshotFrame(w) \in Frames
           /\ SnapshotFrame(w).kind = "snapshot" /\ SnapshotFrame(w).well = w
           /\ SnapshotFrame(w).to = newest[w]
           /\ SnapshotFrame(w).from > newest[w] => newest[w] = oldest[w]
<1>1. /\ newest[w] \in Nat /\ oldest[w] \in Nat /\ oldest[w] =< newest[w]
      /\ SnapLimit \in Nat \ {0}
  BY StreamConstants DEF TypeInv, TypeOK
<1>2. Frame("data", w, newest[w] + 1, newest[w] + 1) \in Frames
  BY <1>1 DEF Frame, Frames
<1> DEFINE from == IF newest[w] - oldest[w] > SnapLimit
                   THEN newest[w] - SnapLimit + 1 ELSE oldest[w] + 1
<1>3. from \in 1..(newest[w] + 1) /\ (from > newest[w] => newest[w] = oldest[w])
  BY <1>1
<1>4. SnapshotFrame(w) = [kind |-> "snapshot", well |-> w, from |-> from, to |-> newest[w]]
  BY DEF SnapshotFrame, Frame
<1> HIDE DEF from
<1>5. SnapshotFrame(w) \in Frames
  BY <1>1, <1>3, <1>4 DEF Frames
<1> QED BY <1>2, <1>3, <1>4, <1>5

\* publish keeps a queue within its bound; what it adds is the last frame.
LEMMA PutFacts ==
    ASSUME NEW q \in Seq(Frames), Len(q) =< QueueSize, NEW f \in Frames
    PROVE  /\ Put(q, f) \in Seq(Frames) /\ Len(Put(q, f)) =< QueueSize
           /\ Len(Put(q, f)) >= 1 /\ Put(q, f)[Len(Put(q, f))] = f
           /\ \A i \in DOMAIN Put(q, f) :
                  i < Len(Put(q, f)) =>
                      \E d \in {0, 1} : i + d \in DOMAIN q /\ Put(q, f)[i] = q[i + d]
           /\ Len(q) # QueueSize => Put(q, f) = Append(q, f)
<1>1. QueueSize \in Nat \ {0} /\ Len(q) \in Nat
  BY StreamConstants
<1>2. CASE Len(q) = QueueSize
  <2>1. q # <<>> /\ Put(q, f) = Append(Tail(q), f)
    BY <1>1, <1>2 DEF Put
  <2>2. Tail(q) \in Seq(Frames) /\ Len(Tail(q)) = Len(q) - 1
    BY <2>1, TailFacts
  <2>3. \A i \in DOMAIN Tail(q) : i + 1 \in DOMAIN q /\ Tail(q)[i] = q[i + 1]
    BY <2>1, TailFacts
  <2> DEFINE t == Tail(q)
  <2> HIDE DEF t
  <2>4. /\ Append(t, f) \in Seq(Frames) /\ Len(Append(t, f)) = Len(t) + 1
        /\ \A i \in DOMAIN t : Append(t, f)[i] = t[i] /\ i < Len(t) + 1
        /\ DOMAIN Append(t, f) = DOMAIN t \cup {Len(t) + 1}
        /\ Append(t, f)[Len(t) + 1] = f /\ Len(t) \in Nat
    BY <2>2, AppendFacts DEF t
  <2> QED BY <1>1, <1>2, <2>1, <2>2, <2>3, <2>4 DEF t
<1>3. CASE Len(q) # QueueSize
  <2>1. Put(q, f) = Append(q, f)
    BY <1>3 DEF Put
  <2> QED BY <1>1, <1>3, <2>1, AppendFacts
<1> QED BY <1>2, <1>3

\* What follows the first c elements.
LEMMA SubFacts ==
    ASSUME NEW S, NEW s \in Seq(S), NEW c \in 0..Len(s)
    PROVE  /\ SubSeq(s, c + 1, Len(s)) \in Seq(S) /\ Len(SubSeq(s, c + 1, Len(s))) = Len(s) - c
           /\ \A i \in DOMAIN SubSeq(s, c + 1, Len(s)) : SubSeq(s, c + 1, Len(s))[i] = s[i + c]
  BY SMT

\* One sequence after another.
LEMMA CatFacts ==
    ASSUME NEW S, NEW s \in Seq(S), NEW t \in Seq(S)
    PROVE  /\ s \o t \in Seq(S) /\ Len(s \o t) = Len(s) + Len(t)
           /\ \A i \in DOMAIN (s \o t) : (s \o t)[i] = IF i =< Len(s) THEN s[i] ELSE t[i - Len(s)]
  BY SMT

\* The samples of a frame.
Points(f) == [n \in 1..(f.to - f.from + 1) |-> f.from + n - 1]

\* The samples that stay in front of them, if the window has room.
KeptBefore(f) == IF f.kind = "snapshot" /\ f.from =< f.to THEN <<>> ELSE view

\* What a snapshot or a frame becomes: the samples of the range, in order.
LEMMA PointsFacts ==
    ASSUME NEW a \in Nat, NEW b \in Nat, a =< b + 1
    PROVE  LET pts == [n \in 1..(b - a + 1) |-> a + n - 1]
           IN  pts \in Seq(Nat) /\ Len(pts) = b - a + 1 /\ (pts = <<>> <=> a = b + 1)
<1>1. LET pts == [n \in 1..(b - a + 1) |-> a + n - 1]
      IN  pts \in Seq(Nat) /\ Len(pts) = b - a + 1
  BY SMT
<1>2. LET pts == [n \in 1..(b - a + 1) |-> a + n - 1]
      IN  pts = <<>> <=> a = b + 1
  BY SMT
<1> QED BY <1>1, <1>2

\* The window after a frame: the samples kept, then those of the frame, and of
\* all of these the last WindowSize.
LEMMA ShownFacts ==
    ASSUME view \in Seq(Nat), NEW f \in Frames
    PROVE  \E cut \in Nat :
           /\ KeptBefore(f) \in Seq(Nat) /\ Shown(f) \in Seq(Nat)
           /\ Len(Shown(f)) = Len(KeptBefore(f)) + (f.to - f.from + 1) - cut
           /\ Len(Shown(f)) =< WindowSize
           /\ cut > 0 => Len(Shown(f)) = WindowSize
           /\ \A n \in DOMAIN Shown(f) :
                  /\ n + cut =< Len(KeptBefore(f)) => Shown(f)[n] = KeptBefore(f)[n + cut]
                  /\ n + cut > Len(KeptBefore(f)) =>
                         Shown(f)[n] = f.from + ((n + cut) - Len(KeptBefore(f))) - 1
<1> DEFINE pts == Points(f)
           kept == KeptBefore(f)
           all == kept \o pts
           cut == IF Len(all) > WindowSize THEN Len(all) - WindowSize ELSE 0
<1>1. f.from \in Nat \ {0} /\ f.to \in Nat /\ f.from =< f.to + 1
  BY DEF Frames
<1>2. /\ pts \in Seq(Nat) /\ Len(pts) = f.to - f.from + 1
      /\ pts = <<>> <=> f.from = f.to + 1
  BY <1>1, PointsFacts DEF Points
<1>3. \A n \in 1..Len(pts) : pts[n] = f.from + n - 1
  BY <1>1, <1>2 DEF Points
<1>4. kept \in Seq(Nat)
  BY DEF KeptBefore
<1>5. (f.kind = "snapshot" /\ pts # <<>>) <=> (f.kind = "snapshot" /\ f.from =< f.to)
  BY <1>1, <1>2
<1>6. kept = IF f.kind = "snapshot" /\ pts # <<>> THEN <<>> ELSE view
  BY <1>5 DEF KeptBefore
<1>7. Shown(f) = SubSeq(all, cut + 1, Len(all))
  BY <1>6 DEF Shown, Points
<1> HIDE DEF pts, kept
<1>8. /\ all \in Seq(Nat) /\ Len(all) = Len(kept) + Len(pts)
      /\ \A n \in DOMAIN all : all[n] = IF n =< Len(kept) THEN kept[n] ELSE pts[n - Len(kept)]
  BY <1>2, <1>4, CatFacts
<1> HIDE DEF all
<1>9. cut \in 0..Len(all) /\ Len(all) - cut =< WindowSize /\ (cut > 0 => Len(all) - cut = WindowSize)
  BY <1>8, StreamConstants
<1> HIDE DEF cut
<1>10. /\ Shown(f) \in Seq(Nat) /\ Len(Shown(f)) = Len(all) - cut
       /\ \A n \in DOMAIN Shown(f) : Shown(f)[n] = all[n + cut]
  <2> DEFINE t == SubSeq(all, cut + 1, Len(all))
  <2>1. all \in Seq(Nat) /\ cut \in 0..Len(all)
    BY <1>8, <1>9
  <2>2. /\ t \in Seq(Nat) /\ Len(t) = Len(all) - cut
        /\ \A n \in DOMAIN t : t[n] = all[n + cut]
    BY <2>1, SubFacts, Zenon
  <2>3. t = Shown(f)
    BY <1>7
  <2> HIDE DEF t
  <2> QED BY <2>2, <2>3
<1>11. ASSUME NEW n \in DOMAIN Shown(f)
       PROVE  /\ n + cut =< Len(kept) => Shown(f)[n] = kept[n + cut]
              /\ n + cut > Len(kept) => Shown(f)[n] = f.from + ((n + cut) - Len(kept)) - 1
  <2>0. cut \in Nat /\ Len(all) \in Nat /\ all \in Seq(Nat) /\ Len(Shown(f)) = Len(all) - cut
    BY <1>8, <1>9, <1>10
  <2>a. Shown(f) \in Seq(Nat)
    BY <1>10
  <2>b. n \in 1..(Len(all) - cut)
    BY <2>0, <2>a
  <2>1. n \in Nat /\ n >= 1 /\ n + cut =< Len(all) /\ n + cut \in DOMAIN all /\ cut \in Nat
    BY <2>0, <2>b
  <2>2. all[n + cut] = IF n + cut =< Len(kept) THEN kept[n + cut] ELSE pts[(n + cut) - Len(kept)]
    BY <2>1, <1>8, Zenon
  <2>3. n + cut > Len(kept) => (n + cut) - Len(kept) \in 1..Len(pts)
    BY <2>1, <1>2, <1>4, <1>8
  <2>4. n + cut > Len(kept) => pts[(n + cut) - Len(kept)] = f.from + ((n + cut) - Len(kept)) - 1
    BY <2>3, <1>3
  <2>5. ~(n + cut =< Len(kept)) <=> n + cut > Len(kept)
    BY <2>1, <1>4
  <2>6. Shown(f)[n] = all[n + cut]
    BY <1>10
  <2> QED BY <2>2, <2>4, <2>5, <2>6, Zenon
<1>12. cut \in Nat /\ Len(Shown(f)) = Len(kept) + (f.to - f.from + 1) - cut
  BY <1>1, <1>2, <1>4, <1>8, <1>9, <1>10
<1>13. Len(Shown(f)) =< WindowSize /\ (cut > 0 => Len(Shown(f)) = WindowSize)
  BY <1>9, <1>10
<1> QED BY <1>4, <1>10, <1>11, <1>12, <1>13 DEF kept

\* A queue that is no longer registered is empty; the others stay as they are.
LEMMA KeptFacts ==
    ASSUME TypeInv, NEW pairs
    PROVE  /\ Kept(pairs) \in [Wells \X Conns -> Seq(Frames)]
           /\ \A p \in Wells \X Conns : Kept(pairs)[p] = IF p \in pairs THEN queue[p] ELSE <<>>
           /\ \A p \in Wells \X Conns : Len(Kept(pairs)[p]) =< QueueSize
           /\ \A p \in Wells \X Conns : \A i \in DOMAIN Kept(pairs)[p] :
                  Kept(pairs)[p][i].kind = "data" /\ Kept(pairs)[p][i].well = p[1]
<1>1. queue \in [Wells \X Conns -> Seq(Frames)] /\ <<>> \in Seq(Frames)
  BY DEF TypeInv
<1>2. \A p \in Wells \X Conns : Kept(pairs)[p] = IF p \in pairs THEN queue[p] ELSE <<>>
  BY DEF Kept
<1>3. Kept(pairs) \in [Wells \X Conns -> Seq(Frames)]
  BY <1>1 DEF Kept
<1>4. \A p \in Wells \X Conns : Len(Kept(pairs)[p]) =< QueueSize
  BY <1>2, StreamConstants DEF TypeInv, TypeOK
<1>5. ASSUME NEW p \in Wells \X Conns, NEW i \in DOMAIN Kept(pairs)[p]
      PROVE  Kept(pairs)[p][i].kind = "data" /\ Kept(pairs)[p][i].well = p[1]
  <2>1. CASE p \in pairs
    <3>1. Kept(pairs)[p] = queue[p]
      BY <1>2, <2>1
    <3> QED BY <3>1 DEF TypeInv
  <2>2. CASE p \notin pairs
    <3>1. Kept(pairs)[p] = <<>>
      BY <1>2, <2>2
    <3> QED BY <3>1
  <2> QED BY <2>1, <2>2
<1> QED BY <1>2, <1>3, <1>4, <1>5

-----------------------------------------------------------------------------
\* The types of the store's queues, one conjunct of TypeInv.
QueueType ==
    /\ queue \in [Wells \X Conns -> Seq(Frames)]
    /\ \A p \in Wells \X Conns : Len(queue[p]) =< QueueSize
    /\ \A p \in Wells \X Conns : \A i \in DOMAIN queue[p] :
           queue[p][i].kind = "data" /\ queue[p][i].well = p[1]

\* The types hold at the start.
LEMMA InitType == Init => TypeInv
<1> SUFFICES ASSUME Init PROVE TypeInv
  OBVIOUS
<1>1. TypeOK
  BY StreamConstants DEF Init, TypeOK
<1>2. \A p \in Wells \X Conns : queue[p] = <<>>
  BY DEF Init
<1>3. queue \in [Wells \X Conns -> Seq(Frames)]
  BY DEF Init
<1>4. down \in [Conns -> Seq(Frames)] /\ view \in Seq(Nat)
  BY DEF Init
<1>5. \A p \in Wells \X Conns : \A i \in DOMAIN queue[p] : FALSE
  BY <1>2
<1>6. lossy \in BOOLEAN /\ reread \in BOOLEAN
  BY Zenon DEF Init
<1>7. \A w \in Wells : oldest[w] =< newest[w]
  BY DEF Init
<1>8. \A k \in Conns : handler[k] = "none" /\ drain[k] = FALSE
  BY DEF Init
<1>9. \A k \in Conns : ~(handler[k] = "snapshot" \/ drain[k])
  BY <1>8
<1> QED BY <1>1, <1>3, <1>4, <1>5, <1>6, <1>7, <1>9, Zenon DEF TypeInv, Busy

\* A step that publishes or drops frames keeps the queues typed.
LEMMA QueuesTyped ==
    ASSUME TypeInv, [Next]_vars
    PROVE  QueueType'
<1>0. QueueType
  BY DEF QueueType, TypeInv, TypeOK
<1>1. ASSUME NEW w \in Wells, Ingest(w) PROVE QueueType'
  <2> DEFINE f == Frame("data", w, newest[w] + 1, newest[w] + 1)
  <2>1. f \in Frames /\ f.kind = "data" /\ f.well = w
    BY FramesSent DEF Frame
  <2>2. queue' = [p \in Wells \X Conns |->
                     IF p[1] = w /\ p \in subs THEN Put(queue[p], f) ELSE queue[p]]
    BY <1>1 DEF Ingest
  <2> HIDE DEF f
  <2>3. ASSUME NEW p \in Wells \X Conns
        PROVE  /\ queue'[p] \in Seq(Frames) /\ Len(queue'[p]) =< QueueSize
               /\ \A i \in DOMAIN queue'[p] : queue'[p][i].kind = "data" /\ queue'[p][i].well = p[1]
    <3> DEFINE q == queue[p]
               r == Put(q, f)
    <3>1. /\ q \in Seq(Frames) /\ Len(q) =< QueueSize
          /\ \A i \in DOMAIN q : q[i].kind = "data" /\ q[i].well = p[1]
      BY <1>0 DEF QueueType
    <3>2. CASE p[1] = w /\ p \in subs
      <4>1. queue'[p] = r
        BY <2>2, <3>2
      <4> HIDE DEF q
      <4>2. /\ r \in Seq(Frames) /\ Len(r) =< QueueSize /\ r[Len(r)] = f
            /\ \A i \in DOMAIN r : i < Len(r) => \E d \in {0, 1} : i + d \in DOMAIN q /\ r[i] = q[i + d]
        BY <2>1, <3>1, PutFacts
      <4> HIDE DEF r
      <4>3. \A i \in DOMAIN r : r[i].kind = "data" /\ r[i].well = p[1]
        <5> TAKE i \in DOMAIN r
        <5>1. i < Len(r) \/ i = Len(r)
          BY <4>2
        <5> QED BY <5>1, <4>2, <3>1, <3>2, <2>1
      <4> QED BY <4>1, <4>2, <4>3
    <3>3. CASE ~(p[1] = w /\ p \in subs)
      <4>1. queue'[p] = q
        BY <2>2, <3>3
      <4> QED BY <4>1, <3>1
    <3> QED BY <3>2, <3>3
  <2>4. queue' \in [Wells \X Conns -> Seq(Frames)]
    BY <2>2, <2>3
  <2> QED BY <2>3, <2>4 DEF QueueType
<1>2. ASSUME NEW pairs, queue' = Kept(pairs) PROVE QueueType'
  <2> DEFINE K == Kept(pairs)
  <2>1. /\ K \in [Wells \X Conns -> Seq(Frames)]
        /\ \A p \in Wells \X Conns : Len(K[p]) =< QueueSize
        /\ \A p \in Wells \X Conns : \A i \in DOMAIN K[p] : K[p][i].kind = "data" /\ K[p][i].well = p[1]
    <3>1. K \in [Wells \X Conns -> Seq(Frames)]
      BY KeptFacts
    <3>2. \A p \in Wells \X Conns : Len(K[p]) =< QueueSize
      BY KeptFacts
    <3>3. \A p \in Wells \X Conns : \A i \in DOMAIN K[p] : K[p][i].kind = "data" /\ K[p][i].well = p[1]
      BY KeptFacts
    <3> QED BY <3>1, <3>2, <3>3
  <2>2. queue' = K
    BY <1>2
  <2> HIDE DEF K
  <2> QED BY <2>1, <2>2 DEF QueueType
<1>3. ASSUME NEW k \in Conns, ReceiveSubscribe(k) PROVE QueueType'
  <2> DEFINE w == Head(up[k])
             K == Kept(Released(k))
  <2>1. w \in Wells /\ queue' = [K EXCEPT ![<<w, k>>] = <<>>]
    BY <1>3 DEF ReceiveSubscribe
  <2>2. /\ K \in [Wells \X Conns -> Seq(Frames)]
        /\ \A p \in Wells \X Conns : Len(K[p]) =< QueueSize
        /\ \A p \in Wells \X Conns : \A i \in DOMAIN K[p] : K[p][i].kind = "data" /\ K[p][i].well = p[1]
    <3>1. K \in [Wells \X Conns -> Seq(Frames)]
      BY KeptFacts
    <3>2. \A p \in Wells \X Conns : Len(K[p]) =< QueueSize
      BY KeptFacts
    <3>3. \A p \in Wells \X Conns : \A i \in DOMAIN K[p] : K[p][i].kind = "data" /\ K[p][i].well = p[1]
      BY KeptFacts
    <3> QED BY <3>1, <3>2, <3>3
  <2> HIDE DEF K, w
  <2>3. queue' \in [Wells \X Conns -> Seq(Frames)]
    BY <2>1, <2>2
  <2>4. ASSUME NEW p \in Wells \X Conns
        PROVE  /\ Len(queue'[p]) =< QueueSize
               /\ \A i \in DOMAIN queue'[p] : queue'[p][i].kind = "data" /\ queue'[p][i].well = p[1]
    <3>1. CASE p = <<w, k>>
      <4>1. queue'[p] = <<>>
        BY <2>1, <2>2, <3>1
      <4> QED BY <4>1, StreamConstants
    <3>2. CASE p # <<w, k>>
      <4>1. queue'[p] = K[p]
        BY <2>1, <2>2, <3>2
      <4> QED BY <4>1, <2>2
    <3> QED BY <3>1, <3>2
  <2> QED BY <2>3, <2>4 DEF QueueType
<1>4. ASSUME NEW k \in Conns, DrainOne(k) PROVE QueueType'
  <2> DEFINE p == <<current[k], k>>
             t == Tail(queue[p])
  <2>1. queue[p] # <<>> /\ queue' = [queue EXCEPT ![p] = Tail(@)]
    BY <1>4 DEF DrainOne
  <2>2. CASE p \in Wells \X Conns
    <3>1. /\ t \in Seq(Frames) /\ Len(t) = Len(queue[p]) - 1 /\ Len(queue[p]) \in Nat
          /\ \A i \in DOMAIN t : i + 1 \in DOMAIN queue[p] /\ t[i] = queue[p][i + 1]
      BY <1>0, <2>1, <2>2, TailFacts DEF QueueType
    <3>2. queue' \in [Wells \X Conns -> Seq(Frames)] /\ queue'[p] = t
      BY <1>0, <2>1, <2>2, <3>1 DEF QueueType
    <3>3. \A q \in Wells \X Conns : q # p => queue'[q] = queue[q]
      BY <1>0, <2>1 DEF QueueType
    <3> HIDE DEF t
    <3>4. \A i \in DOMAIN t : t[i].kind = "data" /\ t[i].well = p[1]
      BY <1>0, <2>2, <3>1 DEF QueueType
    <3>5. Len(t) =< QueueSize
      BY <1>0, <2>2, <3>1, StreamConstants DEF QueueType
    <3>6. ASSUME NEW q \in Wells \X Conns
          PROVE  /\ Len(queue'[q]) =< QueueSize
                 /\ \A i \in DOMAIN queue'[q] : queue'[q][i].kind = "data" /\ queue'[q][i].well = q[1]
      <4>1. CASE q = p
        <5>1. queue'[q] = t
          BY <3>2, <4>1
        <5> QED BY <4>1, <5>1, <3>4, <3>5
      <4>2. CASE q # p
        <5>1. queue'[q] = queue[q]
          BY <3>3, <4>2
        <5> QED BY <5>1, <1>0 DEF QueueType
      <4> QED BY <4>1, <4>2
    <3> QED BY <3>2, <3>6 DEF QueueType
  <2>3. CASE p \notin Wells \X Conns
    <3>1. queue' = queue
      BY <1>0, <2>1, <2>3 DEF QueueType
    <3> QED BY <3>1, <1>0 DEF QueueType
  <2> QED BY <2>2, <2>3
<1>5. CASE Restart
  <2>1. queue' = [p \in Wells \X Conns |-> <<>>]
    BY <1>5 DEF Restart
  <2>2. \A p \in Wells \X Conns : queue'[p] = <<>>
    BY <2>1
  <2>3. queue' \in [Wells \X Conns -> Seq(Frames)]
    BY <2>1
  <2> QED BY <2>2, <2>3, StreamConstants DEF QueueType
<1>6. ASSUME queue' = queue PROVE QueueType'
  BY <1>0, <1>6 DEF QueueType
<1>7. ASSUME NEW k \in Conns, Handler(k) PROVE QueueType'
  <2>1. CASE ReceiveUnsubscribe(k)
    BY <2>1, <1>2 DEF ReceiveUnsubscribe
  <2>2. CASE Disconnect(k)
    BY <2>2, <1>2 DEF Disconnect
  <2>3. CASE SnapshotSent(k)
    BY <2>3, <1>6 DEF SnapshotSent, store
  <2> QED BY <1>3, <1>4, <1>7, <2>1, <2>2, <2>3 DEF Handler
<1>8. CASE UNCHANGED vars
  BY <1>6, <1>8 DEF vars, store
<1>9. ASSUME NEW w \in Wells, ViewWell(w) \/ SwitchWell(w) PROVE QueueType'
  BY <1>6, <1>9 DEF ViewWell, SwitchWell, store
<1>10. ASSUME NEW k \in Conns, Open(k) PROVE QueueType'
  BY <1>6, <1>10 DEF Open, store
<1>11. CASE Deliver \/ LoseConnection
  BY <1>6, <1>11 DEF Deliver, LoseConnection, store
<1> QED BY <1>1, <1>5, <1>7, <1>8, <1>9, <1>10, <1>11 DEF Next

\* The drain task and the snapshot live within the subscription.
LEMMA BusyKept ==
    ASSUME TypeInv, [Next]_vars
    PROVE  Busy'
<1>0. /\ Busy
      /\ handler \in [Conns -> {"none", "receive", "snapshot"}]
      /\ current \in [Conns -> Wells \cup {None}] /\ drain \in [Conns -> BOOLEAN]
  BY DEF TypeInv, TypeOK
<1>1. ASSUME UNCHANGED <<handler, current, drain>> PROVE Busy'
  BY <1>0, <1>1 DEF Busy
<1>2. ASSUME NEW k \in Conns, Handler(k) \/ Open(k) PROVE Busy'
  <2> SUFFICES ASSUME NEW j \in Conns PROVE handler'[j] = "snapshot" \/ drain'[j] => current'[j] \in Wells
    BY DEF Busy
  <2>1. CASE ReceiveSubscribe(k)
    <3>1. Head(up[k]) \in Wells /\ current' = [current EXCEPT ![k] = Head(up[k])]
      BY <2>1 DEF ReceiveSubscribe
    <3>2. drain' = [drain EXCEPT ![k] = FALSE] /\ handler' = [handler EXCEPT ![k] = "snapshot"]
      BY <2>1 DEF ReceiveSubscribe
    <3> QED BY <1>0, <3>1, <3>2 DEF Busy
  <2>2. CASE ReceiveUnsubscribe(k) \/ Disconnect(k)
    <3>1. /\ current' = [current EXCEPT ![k] = None] /\ drain' = [drain EXCEPT ![k] = FALSE]
          /\ handler'[k] # "snapshot" /\ (j # k => handler'[j] = handler[j])
      BY <1>0, <2>2 DEF ReceiveUnsubscribe, Disconnect
    <3> QED BY <1>0, <3>1 DEF Busy
  <2>3. CASE SnapshotSent(k)
    <3>1. /\ handler[k] = "snapshot" /\ current' = current
          /\ handler' = [handler EXCEPT ![k] = "receive"] /\ drain' = [drain EXCEPT ![k] = TRUE]
      BY <2>3 DEF SnapshotSent
    <3> QED BY <1>0, <3>1 DEF Busy
  <2>4. CASE DrainOne(k)
    BY <2>4, <1>1 DEF DrainOne, server, Busy
  <2>5. CASE Open(k)
    <3>1. handler' = [handler EXCEPT ![k] = "receive"] /\ UNCHANGED <<current, drain>>
      BY <2>5 DEF Open
    <3> QED BY <1>0, <3>1 DEF Busy
  <2> QED BY <1>2, <2>1, <2>2, <2>3, <2>4, <2>5 DEF Handler
<1>3. CASE Restart
  <2>1. handler' = [k \in Conns |-> "none"] /\ drain' = [k \in Conns |-> FALSE]
    BY <1>3 DEF Restart
  <2> QED BY <2>1 DEF Busy
<1>4. ASSUME NEW w \in Wells, Ingest(w) \/ ViewWell(w) \/ SwitchWell(w) PROVE Busy'
  BY <1>1, <1>4 DEF Ingest, ViewWell, SwitchWell, server
<1>5. CASE Deliver \/ LoseConnection
  BY <1>1, <1>5 DEF Deliver, LoseConnection, server
<1>6. CASE UNCHANGED vars
  BY <1>1, <1>6 DEF vars, server
<1> QED BY <1>2, <1>3, <1>4, <1>5, <1>6 DEF Next

\* The types of everything else.
LEMMA TypeInvInductive ==
    ASSUME TypeInv, [Next]_vars
    PROVE  TypeInv'
<1> DEFINE Simple == /\ oldest \in [Wells -> 0..MaxSample] /\ newest \in [Wells -> 0..MaxSample]
                     /\ \A w \in Wells : oldest[w] =< newest[w]
                     /\ subs \subseteq Wells \X Conns
                     /\ link \in [Conns -> {"free", "open", "gone"}]
                     /\ handler \in [Conns -> {"none", "receive", "snapshot"}]
                     /\ current \in [Conns -> Wells \cup {None}]
                     /\ drain \in [Conns -> BOOLEAN]
                     /\ sock \in Conns \cup {None} /\ wanted \in Wells
                     /\ lossy \in BOOLEAN /\ reread \in BOOLEAN
           Wire == down \in [Conns -> Seq(Frames)]
           Window == view \in Seq(Nat) /\ Len(view) =< WindowSize
<1>0. Simple /\ Wire /\ Window
  BY DEF TypeInv, TypeOK
<1>1. QueueType'
  BY QueuesTyped
<1>2. SUFFICES Simple' /\ Wire' /\ Window'
  BY <1>1, BusyKept DEF TypeInv, TypeOK, QueueType
<1>3. ASSUME NEW w \in Wells, Ingest(w) PROVE Simple' /\ Wire' /\ Window'
  <2>1. UNCHANGED <<oldest, subs, link, handler, current, drain, down, sock, wanted, view, reread>>
    BY <1>3 DEF Ingest, server, net, client
  <2>2. newest[w] + 1 =< MaxSample /\ newest' = [newest EXCEPT ![w] = newest[w] + 1] /\ lossy' \in BOOLEAN
    BY <1>3 DEF Ingest
  <2>3. newest' \in [Wells -> 0..MaxSample] /\ \A v \in Wells : oldest[v] =< newest'[v]
    BY <1>0, <2>2, StreamConstants
  <2> QED BY <1>0, <2>1, <2>2, <2>3
<1>4. ASSUME NEW k \in Conns, ReceiveSubscribe(k) PROVE Simple' /\ Wire' /\ Window'
  <2> DEFINE w == Head(up[k])
  <2>1. UNCHANGED <<oldest, newest, link, sock, wanted, view, lossy, reread>>
    BY <1>4 DEF ReceiveSubscribe, client
  <2>2. /\ w \in Wells
        /\ subs' = Released(k) \cup {<<w, k>>} /\ current' = [current EXCEPT ![k] = w]
        /\ drain' = [drain EXCEPT ![k] = FALSE] /\ handler' = [handler EXCEPT ![k] = "snapshot"]
        /\ down' = [down EXCEPT ![k] = IF link[k] = "open" THEN Append(@, SnapshotFrame(w)) ELSE @]
    BY <1>4 DEF ReceiveSubscribe
  <2>3. SnapshotFrame(w) \in Frames
    BY <2>2, FramesSent
  <2> HIDE DEF w
  <2>4. Simple'
    BY <1>0, <2>1, <2>2 DEF Released
  <2>5. Wire'
    <3>1. down[k] \in Seq(Frames)
      BY <1>0
    <3>2. Append(down[k], SnapshotFrame(w)) \in Seq(Frames)
      BY <2>3, <3>1
    <3> QED BY <1>0, <2>2, <3>1, <3>2
  <2> QED BY <1>0, <2>1, <2>4, <2>5
<1>5. ASSUME NEW k \in Conns, ReceiveUnsubscribe(k) PROVE Simple' /\ Wire' /\ Window'
  <2>1. UNCHANGED <<oldest, newest, handler, link, down, sock, wanted, view, lossy, reread>>
    BY <1>5 DEF ReceiveUnsubscribe, client
  <2>2. subs' = Released(k) /\ current' = [current EXCEPT ![k] = None] /\ drain' = [drain EXCEPT ![k] = FALSE]
    BY <1>5 DEF ReceiveUnsubscribe
  <2> QED BY <1>0, <2>1, <2>2 DEF Released
<1>6. ASSUME NEW k \in Conns, SnapshotSent(k) PROVE Simple' /\ Wire' /\ Window'
  <2>1. UNCHANGED <<oldest, newest, subs, current, link, down, sock, wanted, view, lossy, reread>>
    BY <1>6 DEF SnapshotSent, store, net, client
  <2>2. handler' = [handler EXCEPT ![k] = "receive"] /\ drain' = [drain EXCEPT ![k] = TRUE]
    BY <1>6 DEF SnapshotSent
  <2> QED BY <1>0, <2>1, <2>2
<1>7. ASSUME NEW k \in Conns, DrainOne(k) PROVE Simple' /\ Wire' /\ Window'
  <2> DEFINE p == <<current[k], k>>
  <2>1. UNCHANGED <<oldest, newest, subs, link, handler, current, drain, sock, wanted, view, lossy, reread>>
    BY <1>7 DEF DrainOne, server, client
  <2>2. queue[p] # <<>> /\ down' = [down EXCEPT ![k] = Append(@, Head(queue[p]))]
    BY <1>7 DEF DrainOne
  <2>3. p \in Wells \X Conns
    BY <1>7 DEF DrainOne, TypeInv, Busy
  <2>4. queue[p] \in Seq(Frames) /\ down[k] \in Seq(Frames)
    BY <1>0, <2>3 DEF TypeInv
  <2>5. Head(queue[p]) \in Frames
    BY <2>2, <2>4, TailFacts
  <2>6. Append(down[k], Head(queue[p])) \in Seq(Frames)
    BY <2>4, <2>5
  <2> HIDE DEF p
  <2> QED BY <1>0, <2>1, <2>2, <2>6
<1>8. ASSUME NEW k \in Conns, Disconnect(k) PROVE Simple' /\ Wire' /\ Window'
  <2>1. UNCHANGED <<oldest, newest, down, sock, wanted, view, lossy, reread>>
    BY <1>8 DEF Disconnect, client
  <2>2. /\ subs' = Released(k) /\ current' = [current EXCEPT ![k] = None]
        /\ drain' = [drain EXCEPT ![k] = FALSE] /\ handler' = [handler EXCEPT ![k] = "none"]
        /\ link' = [link EXCEPT ![k] = "free"]
    BY <1>8 DEF Disconnect
  <2> QED BY <1>0, <2>1, <2>2 DEF Released
<1>9. ASSUME NEW k \in Conns, Open(k) PROVE Simple' /\ Wire' /\ Window'
  <2>1. UNCHANGED <<oldest, newest, subs, current, drain, down, wanted, view, lossy, reread>>
    BY <1>9 DEF Open, store
  <2>2. /\ sock' = k /\ link' = [link EXCEPT ![k] = "open"]
        /\ handler' = [handler EXCEPT ![k] = "receive"]
    BY <1>9 DEF Open
  <2> QED BY <1>0, <2>1, <2>2
<1>10. CASE Deliver
  <2> DEFINE f == Head(down[sock])
  <2>1. UNCHANGED <<oldest, newest, subs, link, handler, current, drain, sock, wanted, lossy, reread>>
    BY <1>10 DEF Deliver, store, server
  <2>2. /\ sock # None /\ down[sock] # <<>> /\ down' = [down EXCEPT ![sock] = Tail(@)]
        /\ view' = IF f.well = wanted THEN Shown(f) ELSE view
    BY <1>10 DEF Deliver
  <2>3. down[sock] \in Seq(Frames)
    BY <1>0, <2>2
  <2>4. Tail(down[sock]) \in Seq(Frames) /\ f \in Frames
    BY <2>2, <2>3, TailFacts
  <2>5. Shown(f) \in Seq(Nat) /\ Len(Shown(f)) =< WindowSize
    BY <1>0, <2>4, ShownFacts
  <2> HIDE DEF f
  <2> QED BY <1>0, <2>1, <2>2, <2>4, <2>5
<1>11. CASE LoseConnection
  <2>1. UNCHANGED <<oldest, newest, subs, handler, current, drain, wanted, view, lossy, reread>>
    BY <1>11 DEF LoseConnection, store, server
  <2>2. /\ sock # None /\ link' = [link EXCEPT ![sock] = "gone"]
        /\ down' = [down EXCEPT ![sock] = <<>>] /\ sock' = None
    BY <1>11 DEF LoseConnection, Abandon
  <2> QED BY <1>0, <2>1, <2>2
<1>12. ASSUME NEW w \in Wells, ViewWell(w) PROVE Simple' /\ Wire' /\ Window'
  <2>1. UNCHANGED <<oldest, newest, subs, handler, current, drain, lossy, reread>>
    BY <1>12 DEF ViewWell, store, server
  <2>2. /\ wanted' = w /\ view' = <<>>
        /\ \/ UNCHANGED <<link, down, sock>>
           \/ /\ sock # None /\ link' = [link EXCEPT ![sock] = "gone"]
              /\ down' = [down EXCEPT ![sock] = <<>>] /\ sock' = None
    BY <1>12 DEF ViewWell, Abandon
  <2>3. Simple'
    BY <1>0, <2>1, <2>2
  <2>4. Wire'
    <3>1. CASE down' = down
      BY <1>0, <3>1
    <3>2. CASE down' = [down EXCEPT ![sock] = <<>>]
      <4>1. <<>> \in Seq(Frames)
        OBVIOUS
      <4> HIDE DEF Simple, Window
      <4> QED BY <1>0, <3>2, <4>1
    <3> QED BY <2>2, <3>1, <3>2
  <2>5. Window'
    BY <2>2, StreamConstants
  <2> QED BY <2>3, <2>4, <2>5
<1>13. ASSUME NEW w \in Wells, SwitchWell(w) PROVE Simple' /\ Wire' /\ Window'
  <2>1. UNCHANGED <<oldest, newest, subs, handler, current, drain, link, down, sock, lossy, reread>>
    BY <1>13 DEF SwitchWell, store, server
  <2>2. wanted' = w /\ view' = <<>>
    BY <1>13 DEF SwitchWell
  <2> QED BY <1>0, <2>1, <2>2, StreamConstants
<1>14. CASE Restart
  <2>1. UNCHANGED <<wanted, view>> /\ lossy' = TRUE /\ reread' \in BOOLEAN
    BY <1>14 DEF Restart
  <2>2. oldest' = newest' /\ newest' \in [Wells -> 0..MaxSample]
    BY <1>14 DEF Restart
  <2>3. /\ subs' = {} /\ sock' = None
        /\ link' = [k \in Conns |-> "free"] /\ handler' = [k \in Conns |-> "none"]
        /\ current' = [k \in Conns |-> None] /\ drain' = [k \in Conns |-> FALSE]
        /\ down' = [k \in Conns |-> <<>>]
    BY <1>14 DEF Restart
  <2>4. \A w \in Wells : oldest'[w] =< newest'[w]
    BY <2>2, StreamConstants
  <2> QED BY <1>0, <2>1, <2>2, <2>3, <2>4
<1>15. CASE UNCHANGED vars
  BY <1>0, <1>15 DEF vars, store, server, net, client
<1> QED BY <1>3, <1>4, <1>5, <1>6, <1>7, <1>8, <1>9, <1>10, <1>11, <1>12, <1>13, <1>14, <1>15
        DEF Next, Handler

-----------------------------------------------------------------------------
(* The hub. *)

\* The subscriptions and the sockets.  A handler is registered with the queue
\* of its well and with no other, and only while its connection lives; only the
\* socket the client listens to is open and has frames in flight; and a queue
\* nobody is registered with is empty.
HubInv ==
    /\ \A w \in Wells, k \in Conns : <<w, k>> \in subs <=> current[k] = w
    /\ \A k \in Conns : link[k] = "free" => current[k] = None /\ ~drain[k] /\ handler[k] = "none"
    /\ \A k \in Conns : link[k] = "open" <=> sock = k
    /\ \A k \in Conns : down[k] # <<>> => sock = k
    /\ \A w \in Wells, k \in Conns : <<w, k>> \notin subs => queue[<<w, k>>] = <<>>

\* The same, said of pairs.
LEMMA Subscribed ==
    ASSUME TypeInv
    PROVE  NoLeakedSubscriber <=>
               /\ \A w \in Wells, k \in Conns : <<w, k>> \in subs <=> current[k] = w
               /\ \A k \in Conns : link[k] = "free" => current[k] = None /\ ~drain[k]
<1>1. subs \subseteq Wells \X Conns /\ current \in [Conns -> Wells \cup {None}] /\ None \notin Wells
  BY StreamConstants DEF TypeInv, TypeOK
<1> DEFINE S == {<<current[k], k>> : k \in {c \in Conns : current[c] # None}}
<1>2. S \subseteq Wells \X Conns
  BY <1>1
<1>3. \A w \in Wells, k \in Conns : <<w, k>> \in S <=> current[k] = w
  BY <1>1
<1> HIDE DEF S
<1>4. subs = S <=> \A w \in Wells, k \in Conns : <<w, k>> \in subs <=> <<w, k>> \in S
  <2>1. ASSUME \A w \in Wells, k \in Conns : <<w, k>> \in subs <=> <<w, k>> \in S
        PROVE  subs = S
    <3>1. \A p \in Wells \X Conns : p[1] \in Wells /\ p[2] \in Conns /\ p = <<p[1], p[2]>>
      OBVIOUS
    <3>2. \A p \in Wells \X Conns : p \in subs <=> p \in S
      BY <2>1, <3>1, Zenon
    <3> QED BY <1>1, <1>2, <3>2
  <2> QED BY <2>1
<1> QED BY <1>3, <1>4 DEF NoLeakedSubscriber, S

\* Nobody is connected at the start.
LEMMA InitHub == Init => HubInv
<1> SUFFICES ASSUME Init PROVE HubInv
  OBVIOUS
<1>1. /\ subs = {} /\ sock = None
      /\ queue = [p \in Wells \X Conns |-> <<>>] /\ current = [k \in Conns |-> None]
      /\ link = [k \in Conns |-> "free"] /\ handler = [k \in Conns |-> "none"]
      /\ drain = [k \in Conns |-> FALSE] /\ down = [k \in Conns |-> <<>>]
  BY DEF Init
<1> QED BY <1>1, StreamConstants DEF HubInv

\* The hub's steps, the client's and the store's keep the subscriptions.
LEMMA HubInvInductive ==
    ASSUME TypeInv, HubInv, [Next]_vars
    PROVE  HubInv'
<1>0. /\ subs \subseteq Wells \X Conns /\ queue \in [Wells \X Conns -> Seq(Frames)]
      /\ link \in [Conns -> {"free", "open", "gone"}]
      /\ handler \in [Conns -> {"none", "receive", "snapshot"}]
      /\ current \in [Conns -> Wells \cup {None}] /\ drain \in [Conns -> BOOLEAN]
      /\ down \in [Conns -> Seq(Frames)] /\ sock \in Conns \cup {None}
      /\ None \notin Wells /\ None \notin Conns
  BY StreamConstants DEF TypeInv, TypeOK
<1>1. ASSUME UNCHANGED <<subs, link, handler, current, drain, sock>>,
             \A k \in Conns : down'[k] # <<>> => down[k] # <<>> \/ link[k] = "open",
             \A w \in Wells, k \in Conns : <<w, k>> \notin subs => queue'[<<w, k>>] = queue[<<w, k>>]
      PROVE  HubInv'
  BY <1>1 DEF HubInv
<1>2. ASSUME NEW w \in Wells, Ingest(w) PROVE HubInv'
  <2>1. UNCHANGED <<subs, link, handler, current, drain, sock, down>>
    BY <1>2 DEF Ingest, server, net, client
  <2>2. \A v \in Wells, k \in Conns : <<v, k>> \notin subs => queue'[<<v, k>>] = queue[<<v, k>>]
    BY <1>2 DEF Ingest
  <2> QED BY <1>1, <2>1, <2>2
<1>3. ASSUME NEW k \in Conns, ReceiveSubscribe(k) PROVE HubInv'
  <2> DEFINE w == Head(up[k])
  <2>1. link' = link /\ sock' = sock
    BY <1>3 DEF ReceiveSubscribe, client
  <2>2. /\ w \in Wells /\ handler[k] = "receive"
        /\ subs' = (subs \ {<<current[k], k>>}) \cup {<<w, k>>} /\ current' = [current EXCEPT ![k] = w]
        /\ drain' = [drain EXCEPT ![k] = FALSE] /\ handler' = [handler EXCEPT ![k] = "snapshot"]
    BY <1>3 DEF ReceiveSubscribe, Released
  <2>3. \A j \in Conns : down'[j] # <<>> => down[j] # <<>> \/ (j = k /\ link[k] = "open")
    BY <1>0, <1>3 DEF ReceiveSubscribe
  <2>4. \A v \in Wells, j \in Conns : queue'[<<v, j>>] =
            IF <<v, j>> # <<w, k>> /\ <<v, j>> \in subs \ {<<current[k], k>>}
            THEN queue[<<v, j>>] ELSE <<>>
    BY <1>3 DEF ReceiveSubscribe, Released, Kept
  <2> HIDE DEF w
  <2>5. link[k] # "free"
    BY <2>2 DEF HubInv
  <2>6. ASSUME NEW v \in Wells, NEW j \in Conns PROVE <<v, j>> \in subs' <=> current'[j] = v
    <3>1. <<v, j>> \in subs <=> current[j] = v
      BY DEF HubInv
    <3>2. CASE j = k
      BY <1>0, <2>2, <3>1, <3>2
    <3>3. CASE j # k
      <4>1. <<v, j>> # <<current[k], k>> /\ <<v, j>> # <<w, k>>
        BY <3>3
      <4> QED BY <1>0, <2>2, <3>1, <3>3, <4>1
    <3> QED BY <3>2, <3>3
  <2>7. \A j \in Conns : link'[j] = "free" => current'[j] = None /\ ~drain'[j] /\ handler'[j] = "none"
    BY <1>0, <2>1, <2>2, <2>5 DEF HubInv
  <2>8. \A j \in Conns : down'[j] # <<>> => sock' = j
    BY <2>1, <2>3 DEF HubInv
  <2>9. \A v \in Wells, j \in Conns : <<v, j>> \notin subs' => queue'[<<v, j>>] = <<>>
    BY <2>2, <2>4
  <2> QED BY <2>1, <2>6, <2>7, <2>8, <2>9 DEF HubInv
<1>4. ASSUME NEW k \in Conns, ReceiveUnsubscribe(k) \/ Disconnect(k) PROVE HubInv'
  <2>1. sock' = sock /\ down' = down
    BY <1>4 DEF ReceiveUnsubscribe, Disconnect, client
  <2>2. /\ subs' = subs \ {<<current[k], k>>} /\ current' = [current EXCEPT ![k] = None]
        /\ drain' = [drain EXCEPT ![k] = FALSE]
    BY <1>4 DEF ReceiveUnsubscribe, Disconnect, Released
  <2>3. \/ link' = link /\ handler' = handler /\ handler[k] = "receive"
        \/ /\ link[k] = "gone" /\ link' = [link EXCEPT ![k] = "free"]
           /\ handler' = [handler EXCEPT ![k] = "none"]
    BY <1>4 DEF ReceiveUnsubscribe, Disconnect
  <2>4. \A v \in Wells, j \in Conns : queue'[<<v, j>>] =
            IF <<v, j>> \in subs' THEN queue[<<v, j>>] ELSE <<>>
    BY <1>4 DEF ReceiveUnsubscribe, Disconnect, Kept
  <2>5. ASSUME NEW v \in Wells, NEW j \in Conns PROVE <<v, j>> \in subs' <=> current'[j] = v
    <3>1. <<v, j>> \in subs <=> current[j] = v
      BY DEF HubInv
    <3>2. CASE j = k
      BY <1>0, <2>2, <3>1, <3>2
    <3>3. CASE j # k
      <4>1. <<v, j>> # <<current[k], k>>
        BY <3>3
      <4> QED BY <1>0, <2>2, <3>1, <3>3, <4>1
    <3> QED BY <3>2, <3>3
  <2>6. \A j \in Conns : link'[j] = "free" => current'[j] = None /\ ~drain'[j] /\ handler'[j] = "none"
    BY <1>0, <2>2, <2>3 DEF HubInv
  <2>7. \A j \in Conns : link'[j] = "open" <=> link[j] = "open"
    BY <1>0, <2>3
  <2> QED BY <2>1, <2>4, <2>5, <2>6, <2>7 DEF HubInv
<1>5. ASSUME NEW k \in Conns, SnapshotSent(k) PROVE HubInv'
  <2>1. UNCHANGED <<subs, queue, current, link, down, sock>>
    BY <1>5 DEF SnapshotSent, store, net, client
  <2>2. /\ handler[k] = "snapshot" /\ handler' = [handler EXCEPT ![k] = "receive"]
        /\ drain' = [drain EXCEPT ![k] = TRUE]
    BY <1>5 DEF SnapshotSent
  <2>3. link[k] # "free"
    BY <2>2 DEF HubInv
  <2> QED BY <1>0, <2>1, <2>2, <2>3 DEF HubInv
<1>6. ASSUME NEW k \in Conns, DrainOne(k) PROVE HubInv'
  <2> DEFINE p == <<current[k], k>>
  <2>1. UNCHANGED <<subs, link, handler, current, drain, sock>> /\ link[k] = "open"
    BY <1>6 DEF DrainOne, server, client
  <2>2. current[k] \in Wells
    BY <1>6 DEF DrainOne, TypeInv, Busy
  <2>3. p \in subs
    BY <2>2 DEF HubInv
  <2>4. down' = [down EXCEPT ![k] = Append(@, Head(queue[p]))] /\ queue' = [queue EXCEPT ![p] = Tail(@)]
    BY <1>6 DEF DrainOne
  <2> HIDE DEF p
  <2>5. \A j \in Conns : down'[j] # <<>> => down[j] # <<>> \/ link[j] = "open"
    BY <1>0, <2>1, <2>4
  <2>6. \A w \in Wells, j \in Conns : <<w, j>> \notin subs => queue'[<<w, j>>] = queue[<<w, j>>]
    BY <1>0, <2>3, <2>4
  <2> QED BY <1>1, <2>1, <2>5, <2>6
<1>7. ASSUME NEW k \in Conns, Open(k) PROVE HubInv'
  <2>1. UNCHANGED <<subs, queue, current, drain, down>>
    BY <1>7 DEF Open, store
  <2>2. /\ sock = None /\ sock' = k /\ link' = [link EXCEPT ![k] = "open"]
        /\ handler' = [handler EXCEPT ![k] = "receive"]
    BY <1>7 DEF Open
  <2>3. \A j \in Conns : down[j] = <<>> /\ link[j] # "open"
    BY <1>0, <2>2 DEF HubInv
  <2> QED BY <1>0, <2>1, <2>2, <2>3 DEF HubInv
<1>8. CASE Deliver
  <2>1. UNCHANGED <<subs, queue, link, handler, current, drain, sock>>
    BY <1>8 DEF Deliver, store, server
  <2>2. down[sock] # <<>> /\ down' = [down EXCEPT ![sock] = Tail(@)]
    BY <1>8 DEF Deliver
  <2>3. \A k \in Conns : down'[k] # <<>> => down[k] # <<>>
    BY <1>0, <2>2
  <2> QED BY <1>1, <2>1, <2>3
<1>9. ASSUME UNCHANGED <<subs, queue, handler, current, drain>>, sock # None, Abandon(sock)
      PROVE  HubInv'
  <2>1. /\ link' = [link EXCEPT ![sock] = "gone"] /\ down' = [down EXCEPT ![sock] = <<>>]
        /\ sock' = None
    BY <1>9 DEF Abandon
  <2>2. \A k \in Conns : down'[k] = <<>>
    BY <1>0, <2>1 DEF HubInv
  <2>3. \A k \in Conns : link'[k] # "open" /\ (link'[k] = "free" => link[k] = "free")
    BY <1>0, <2>1 DEF HubInv
  <2> QED BY <1>0, <1>9, <2>1, <2>2, <2>3 DEF HubInv
<1>10. CASE LoseConnection
  BY <1>9, <1>10 DEF LoseConnection, store, server
<1>11. ASSUME NEW w \in Wells, ViewWell(w) \/ SwitchWell(w) PROVE HubInv'
  <2>1. UNCHANGED <<subs, queue, handler, current, drain>>
    BY <1>11 DEF ViewWell, SwitchWell, store, server
  <2>2. UNCHANGED <<link, down, sock>> \/ (sock # None /\ Abandon(sock))
    BY <1>11 DEF ViewWell, SwitchWell
  <2> QED BY <1>1, <1>9, <2>1, <2>2
<1>12. CASE Restart
  <2>1. /\ subs' = {} /\ sock' = None
        /\ queue' = [p \in Wells \X Conns |-> <<>>] /\ current' = [k \in Conns |-> None]
        /\ link' = [k \in Conns |-> "free"] /\ handler' = [k \in Conns |-> "none"]
        /\ drain' = [k \in Conns |-> FALSE] /\ down' = [k \in Conns |-> <<>>]
    BY <1>12 DEF Restart
  <2> QED BY <1>0, <2>1 DEF HubInv
<1>13. CASE UNCHANGED vars
  BY <1>1, <1>13 DEF vars, store, server, net, client
<1> QED BY <1>2, <1>3, <1>4, <1>5, <1>6, <1>7, <1>8, <1>10, <1>11, <1>12, <1>13 DEF Next, Handler

\* The live path's variables hold what the code can put in them, in every
\* reachable state: a subscriber queue and the view's window never outgrow
\* their bounds, whatever the sizes of the queues, the snapshot and the window.
THEOREM LiveTypeCorrect == Spec => []TypeOK
<1>1. Spec => []TypeInv
  BY InitType, TypeInvInductive, PTL DEF Spec
<1>2. TypeInv => TypeOK
  BY DEF TypeInv
<1> QED BY <1>1, <1>2, PTL

\* The store publishes to exactly the wells of the live handlers: no
\* subscription outlives its handler, through subscribes, unsubscribes, closed
\* sockets and restarts in any order.
THEOREM NoSubscriberLeaks == Spec => []NoLeakedSubscriber
<1>1. Spec => [](TypeInv /\ HubInv)
  BY InitType, TypeInvInductive, InitHub, HubInvInductive, PTL DEF Spec
<1>2. TypeInv /\ HubInv => NoLeakedSubscriber
  BY Subscribed DEF HubInv
<1> QED BY <1>1, <1>2, PTL

-----------------------------------------------------------------------------
(* Order. *)

\* A sample n is not beyond the frame, and before its samples if it is a delta.
Follows(n, f) == n =< f.to /\ (f.kind = "data" => n < f.from)

\* The frames of each well, in the order in which they were sent.
Ordered(s) ==
    \A i, j \in DOMAIN s : i < j /\ s[i].well = s[j].well => Follows(s[i].to, s[j])

Increasing(v) == \A m, n \in DOMAIN v : m < n => v[m] < v[n]

\* The view is in order, and so are the frames on the way to each client and
\* those in each queue; nothing is beyond the newest sample; what waits in a
\* queue comes after what is on the way, and both after what the view shows.
ViewOrder == Increasing(view) /\ \A n \in Range(view) : n =< newest[wanted]
WireOrder == \A k \in Conns : Ordered(down[k]) /\ \A f \in Range(down[k]) : f.to =< newest[f.well]
QueueOrder == \A w \in Wells, k \in Conns : Ordered(queue[<<w, k>>])
QueueAfterWire ==
    \A w \in Wells, k \in Conns : \A f \in Range(queue[<<w, k>>]) :
        f.to =< newest[w] /\ \A g \in Range(down[k]) : g.well = w => Follows(g.to, f)
AllAfterView ==
    \A k \in Conns : sock = k => \A n \in Range(view) :
        /\ \A f \in Range(down[k]) : f.well = wanted => Follows(n, f)
        /\ \A f \in Range(queue[<<wanted, k>>]) : Follows(n, f)

InOrder == ViewOrder /\ WireOrder /\ QueueOrder /\ QueueAfterWire /\ AllAfterView

\* A restarted API that reads samples again breaks the order.
OrderInv == ~reread => InOrder

\* What is in a sequence after a frame was added, taken, or all were dropped.
LEMMA RangeFacts ==
    ASSUME NEW S, NEW s \in Seq(S)
    PROVE  /\ \A x \in S : Range(Append(s, x)) = Range(s) \cup {x}
           /\ s # <<>> => Range(Tail(s)) \subseteq Range(s) /\ Head(s) \in Range(s)
           /\ Range(s) \subseteq S /\ Range(<<>>) = {}
<1>1. ASSUME NEW x \in S PROVE Range(Append(s, x)) = Range(s) \cup {x}
  <2> DEFINE t == Append(s, x)
  <2>1. /\ \A i \in DOMAIN s : t[i] = s[i] /\ i \in DOMAIN t
        /\ DOMAIN t = DOMAIN s \cup {Len(s) + 1} /\ t[Len(s) + 1] = x
    BY AppendFacts
  <2> HIDE DEF t
  <2>2. Range(t) = Range(s) \cup {x}
    BY <2>1 DEF Range
  <2> QED BY <2>2 DEF t
<1>2. ASSUME s # <<>> PROVE Range(Tail(s)) \subseteq Range(s) /\ Head(s) \in Range(s)
  <2>1. /\ \A i \in DOMAIN Tail(s) : i + 1 \in DOMAIN s /\ Tail(s)[i] = s[i + 1]
        /\ Head(s) = s[1] /\ 1 \in DOMAIN s
    BY <1>2, TailFacts
  <2> QED BY <2>1 DEF Range
<1>3. Range(s) \subseteq S /\ Range(<<>>) = {}
  BY DEF Range
<1> QED BY <1>1, <1>2, <1>3

\* The order of the frames after one was taken or added.
LEMMA OrderedFacts ==
    ASSUME NEW s \in Seq(Frames), Ordered(s)
    PROVE  /\ Ordered(<<>>)
           /\ s # <<>> => /\ Ordered(Tail(s))
                          /\ \A f \in Range(Tail(s)) : f.well = Head(s).well => Follows(Head(s).to, f)
           /\ \A f \in Frames : (\A g \in Range(s) : g.well = f.well => Follows(g.to, f)) =>
                  Ordered(Append(s, f))
<1>1. Ordered(<<>>)
  BY DEF Ordered
<1>2. ASSUME s # <<>> 
      PROVE /\ Ordered(Tail(s)) 
            /\ \A f \in Range(Tail(s)) : f.well = Head(s).well => Follows(Head(s).to, f)
  <2> DEFINE t == Tail(s)
  <2>1. /\ \A i \in DOMAIN t : i + 1 \in DOMAIN s /\ t[i] = s[i + 1]
        /\ Head(s) = s[1] /\ 1 \in DOMAIN s /\ t \in Seq(Frames)
    BY <1>2, TailFacts
  <2> HIDE DEF t
  <2>2. \A i \in DOMAIN t : i \in Nat /\ 1 < i + 1
    BY <2>1
  <2>3. \A i, j \in DOMAIN t : i < j => i + 1 < j + 1
    BY <2>2
  <2>4. Ordered(t)
    <3> SUFFICES ASSUME NEW i \in DOMAIN t, NEW j \in DOMAIN t, i < j, t[i].well = t[j].well
                 PROVE  Follows(t[i].to, t[j])
      BY DEF Ordered
    <3>1. i + 1 \in DOMAIN s /\ j + 1 \in DOMAIN s /\ i + 1 < j + 1 /\ t[i] = s[i + 1] /\ t[j] = s[j + 1]
      BY <2>1, <2>3
    <3> QED BY <3>1 DEF Ordered
  <2>5. ASSUME NEW f \in Range(t), f.well = Head(s).well PROVE Follows(Head(s).to, f)
    <3>1. PICK i \in DOMAIN t : f = t[i]
      BY DEF Range
    <3>2. i + 1 \in DOMAIN s /\ f = s[i + 1] /\ 1 < i + 1
      BY <2>1, <2>2, <3>1
    <3> QED BY <2>1, <2>5, <3>2 DEF Ordered
  <2> QED BY <2>4, <2>5 DEF t
<1>3. ASSUME NEW f \in Frames, \A g \in Range(s) : g.well = f.well => Follows(g.to, f)
      PROVE  Ordered(Append(s, f))
  <2> DEFINE t == Append(s, f)
  <2>1. /\ \A i \in DOMAIN s : t[i] = s[i] /\ i < Len(s) + 1
        /\ DOMAIN t = DOMAIN s \cup {Len(s) + 1} /\ t[Len(s) + 1] = f /\ Len(s) \in Nat
    BY AppendFacts
  <2> HIDE DEF t
  <2> SUFFICES ASSUME NEW i \in DOMAIN t, NEW j \in DOMAIN t, i < j, t[i].well = t[j].well
               PROVE  Follows(t[i].to, t[j])
    BY DEF Ordered, t
  <2>2. i \in DOMAIN s
    BY <2>1
  <2>3. CASE j \in DOMAIN s
    BY <2>1, <2>2, <2>3 DEF Ordered
  <2>4. CASE j = Len(s) + 1
    <3>1. t[j] = f /\ t[i] = s[i] /\ s[i] \in Range(s)
      BY <2>1, <2>2, <2>4 DEF Range
    <3> QED BY <3>1, <1>3
  <2> QED BY <2>1, <2>3, <2>4
<1> QED BY <1>1, <1>2, <1>3

\* The same for publish.
LEMMA PutOrdered ==
    ASSUME NEW q \in Seq(Frames), Ordered(q), NEW f \in Frames,
           \A g \in Range(q) : g.well = f.well => Follows(g.to, f)
    PROVE  Ordered(Put(q, f)) /\ Range(Put(q, f)) \subseteq Range(q) \cup {f}
<1> DEFINE r == IF Len(q) = QueueSize THEN Tail(q) ELSE q
<1>1. Put(q, f) = Append(r, f)
  BY DEF Put
<1>2. r \in Seq(Frames) /\ Ordered(r) /\ Range(r) \subseteq Range(q)
  <2>1. CASE Len(q) = QueueSize
    <3>1. q # <<>>
      BY <2>1, StreamConstants
    <3>2. Tail(q) \in Seq(Frames) /\ Ordered(Tail(q)) /\ Range(Tail(q)) \subseteq Range(q)
      BY <3>1, TailFacts, OrderedFacts, RangeFacts
    <3> QED BY <2>1, <3>2
  <2>2. CASE Len(q) # QueueSize
    BY <2>2
  <2> QED BY <2>1, <2>2
<1> HIDE DEF r
<1>3. Range(Append(r, f)) = Range(r) \cup {f}
  BY <1>2, RangeFacts
<1>4. \A g \in Range(r) : g.well = f.well => Follows(g.to, f)
  BY <1>2
<1>5. Ordered(Append(r, f))
  BY <1>2, <1>4, OrderedFacts
<1> QED BY <1>1, <1>2, <1>3, <1>5

\* Samples that follow the view leave it in order, and none is beyond the frame.
LEMMA ShownOrdered ==
    ASSUME view \in Seq(Nat), Increasing(view), NEW f \in Frames, 
           \A n \in Range(view) : Follows(n, f)
    PROVE  Increasing(Shown(f)) /\ \A n \in Range(Shown(f)) : n =< f.to
<1> DEFINE v == Shown(f)
           old == KeptBefore(f)
<1>1. PICK cut \in Nat :
           /\ old \in Seq(Nat) /\ v \in Seq(Nat)
           /\ Len(v) = Len(old) + (f.to - f.from + 1) - cut
           /\ \A n \in DOMAIN v :
                  /\ n + cut =< Len(old) => v[n] = old[n + cut]
                  /\ n + cut > Len(old) => v[n] = f.from + ((n + cut) - Len(old)) - 1
  BY ShownFacts
<1>2. f.from \in Nat /\ f.to \in Nat /\ f.from =< f.to + 1 /\ f.kind \in {"data", "snapshot"}
  BY DEF Frames
<1>3. Increasing(old) /\ \A n \in DOMAIN old : old[n] =< f.to /\ (f.from =< f.to => old[n] < f.from)
  <2>1. CASE f.kind = "snapshot" /\ f.from =< f.to
    <3>1. old = <<>>
      BY <2>1 DEF KeptBefore
    <3> QED BY <3>1 DEF Increasing
  <2>2. CASE ~(f.kind = "snapshot" /\ f.from =< f.to)
    <3>1. old = view
      BY <2>2 DEF KeptBefore
    <3>2. \A n \in DOMAIN view : Follows(view[n], f)
      BY DEF Range
    <3>3. \A n \in DOMAIN view : view[n] =< f.to /\ (f.from =< f.to => view[n] < f.from)
      BY <1>2, <2>2, <3>2 DEF Follows
    <3> QED BY <3>1, <3>3
  <2> QED BY <2>1, <2>2
<1> HIDE DEF v, old
<1>4. \A n \in DOMAIN v : n \in Nat /\ n >= 1 /\ n + cut =< Len(old) + (f.to - f.from + 1)
  BY <1>1, <1>2
<1>5. ASSUME NEW n \in DOMAIN v
      PROVE  /\ n + cut =< Len(old) => n + cut \in DOMAIN old
             /\ n + cut > Len(old) => v[n] =< f.to /\ v[n] >= f.from /\ f.from =< f.to
  <2>1. n \in Nat /\ n >= 1 /\ n + cut =< Len(old) + (f.to - f.from + 1) /\ Len(old) \in Nat
    BY <1>1, <1>4
  <2>2. n + cut =< Len(old) => n + cut \in DOMAIN old
    BY <1>1, <2>1
  <2>3. n + cut > Len(old) => v[n] = f.from + ((n + cut) - Len(old)) - 1
    BY <1>1
  <2> QED BY <1>2, <2>1, <2>2, <2>3
<1>6. ASSUME NEW n \in DOMAIN v PROVE v[n] =< f.to
  <2>1. n + cut =< Len(old) \/ n + cut > Len(old)
    BY <1>1, <1>4
  <2> QED BY <1>1, <1>3, <1>5, <2>1
<1>7. ASSUME NEW m \in DOMAIN v, NEW n \in DOMAIN v, m < n PROVE v[m] < v[n]
  <2>1. m \in Nat /\ n \in Nat /\ Len(old) \in Nat
    BY <1>1, <1>4
  <2>2. CASE n + cut =< Len(old)
    <3>1. m + cut =< Len(old) /\ m + cut < n + cut
      BY <1>7, <2>1, <2>2
    <3>2. v[m] = old[m + cut] /\ v[n] = old[n + cut] /\ m + cut \in DOMAIN old /\ n + cut \in DOMAIN old
      BY <1>1, <1>5, <2>2, <3>1
    <3> QED BY <1>3, <3>1, <3>2 DEF Increasing
  <2>3. CASE n + cut > Len(old) /\ m + cut =< Len(old)
    <3>1. v[m] = old[m + cut] /\ m + cut \in DOMAIN old
      BY <1>1, <1>5, <2>3
    <3>2. old[m + cut] \in Nat /\ v[n] \in Nat
      BY <1>1, <3>1
    <3> QED BY <1>2, <1>3, <1>5, <2>3, <3>1, <3>2
  <2>4. CASE n + cut > Len(old) /\ m + cut > Len(old)
    <3>1. /\ v[m] = f.from + ((m + cut) - Len(old)) - 1
          /\ v[n] = f.from + ((n + cut) - Len(old)) - 1
      BY <1>1, <2>4
    <3> QED BY <1>2, <1>7, <2>1, <3>1
  <2> QED BY <2>1, <2>2, <2>3, <2>4
<1> QED BY <1>6, <1>7 DEF Increasing, Range, v

-----------------------------------------------------------------------------
\* Emptying queues, connections or the view, and opening a socket whose well has
\* no queue, leaves everything in order.
LEMMA OrderShrinks ==
    ASSUME TypeInv, InOrder, newest' = newest,
           \A w \in Wells, k \in Conns : queue'[<<w, k>>] \in {queue[<<w, k>>], <<>>},
           \A k \in Conns : down'[k] \in {down[k], <<>>},
           view' = <<>> \/ UNCHANGED <<view, wanted>>,
           wanted' \in Wells,
           \A k \in Conns : sock' = k => sock = k \/ (down'[k] = <<>> /\ queue'[<<wanted', k>>] = <<>>)
    PROVE  InOrder'
<1>0. Range(<<>>) = {} /\ Ordered(<<>>) /\ Increasing(<<>>)
  BY DEF Range, Ordered, Increasing
<1>1. \A w \in Wells, k \in Conns : Range(queue'[<<w, k>>]) \subseteq Range(queue[<<w, k>>])
  BY <1>0
<1>2. \A k \in Conns : Range(down'[k]) \subseteq Range(down[k])
  BY <1>0
<1>3. ViewOrder'
  BY <1>0 DEF InOrder, ViewOrder
<1>4. WireOrder'
  BY <1>0, <1>2 DEF InOrder, WireOrder
<1>5. QueueOrder'
  BY <1>0 DEF InOrder, QueueOrder
<1>6. QueueAfterWire'
  BY <1>1, <1>2 DEF InOrder, QueueAfterWire
<1>7. AllAfterView'
  BY <1>0, <1>1, <1>2 DEF InOrder, AllAfterView
<1> QED BY <1>3, <1>4, <1>5, <1>6, <1>7 DEF InOrder

\* A new sample is beyond everything that was sent, queued or shown.
LEMMA IngestOrder ==
    ASSUME TypeInv, InOrder, NEW w \in Wells, Ingest(w)
    PROVE  InOrder'
<1> DEFINE f == Frame("data", w, newest[w] + 1, newest[w] + 1)
<1>1. f \in Frames /\ f.kind = "data" /\ f.well = w /\ f.to = newest[w] + 1 /\ f.from = newest[w] + 1
  BY FramesSent DEF Frame
<1>2. UNCHANGED <<down, sock, wanted, view>>
  BY DEF Ingest, net, client
<1>3. /\ newest' = [newest EXCEPT ![w] = newest[w] + 1]
      /\ queue' = [p \in Wells \X Conns |->
                      IF p[1] = w /\ p \in subs THEN Put(queue[p], f) ELSE queue[p]]
  BY DEF Ingest
<1> HIDE DEF f
<1>4. /\ newest \in [Wells -> Nat] /\ queue \in [Wells \X Conns -> Seq(Frames)]
      /\ down \in [Conns -> Seq(Frames)] /\ wanted \in Wells /\ view \in Seq(Nat)
  BY StreamConstants DEF TypeInv, TypeOK
<1>5. \A v \in Wells : newest'[v] >= newest[v] /\ newest'[v] \in Nat
  BY <1>3, <1>4
<1>6. \A v \in Wells : newest'[v] = IF v = w THEN newest[w] + 1 ELSE newest[v]
  BY <1>3, <1>4
<1>7. ASSUME NEW v \in Wells, NEW k \in Conns
      PROVE  /\ Ordered(queue'[<<v, k>>])
             /\ Range(queue'[<<v, k>>]) \subseteq Range(queue[<<v, k>>]) \cup {f}
             /\ v # w => queue'[<<v, k>>] = queue[<<v, k>>]
  <2> DEFINE q == queue[<<v, k>>]
  <2>1. q \in Seq(Frames) /\ Ordered(q) /\ \A g \in Range(q) : g.to =< newest[v] 
    BY <1>4 DEF InOrder, QueueOrder, QueueAfterWire
  <2>2. \A g \in Range(q) : g \in Frames /\ g.to \in Nat
    BY <2>1, RangeFacts DEF Frames
  <2>3. queue'[<<v, k>>] = IF v = w /\ <<v, k>> \in subs THEN Put(q, f) ELSE q
    BY <1>3
  <2>4. v = w => \A g \in Range(q) : g.well = f.well => Follows(g.to, f)
    <3> HAVE v = w
    <3> TAKE g \in Range(q)
    <3>1. g.to \in Nat /\ g.to =< newest[w] /\ newest[w] \in Nat
      BY <1>4, <2>1, <2>2
    <3> QED BY <1>1, <3>1 DEF Follows
  <2>5. v = w => Ordered(Put(q, f)) /\ Range(Put(q, f)) \subseteq Range(q) \cup {f}
    BY <1>1, <2>1, <2>4, PutOrdered
  <2> HIDE DEF q
  <2>6. Ordered(queue'[<<v, k>>]) /\ Range(queue'[<<v, k>>]) \subseteq Range(q) \cup {f}
    BY <2>1, <2>3, <2>5
  <2> QED BY <2>3, <2>6 DEF q
<1>8. \A n \in Range(view) : n \in Nat
  BY <1>4, RangeFacts
<1>9. \A k \in Conns : \A g \in Range(down[k]) : g \in Frames /\ g.to \in Nat /\ g.well \in Wells
  <2>1. \A k \in Conns : Range(down[k]) \subseteq Frames
    BY <1>4, RangeFacts
  <2> QED BY <2>1 DEF Frames
<1>10. ViewOrder'
  BY <1>2, <1>4, <1>5, <1>8 DEF InOrder, ViewOrder
<1>11. WireOrder'
  <2>1. \A k \in Conns : \A g \in Range(down[k]) : g.to =< newest[g.well]
    BY DEF InOrder, WireOrder
  <2>2. \A k \in Conns : \A g \in Range(down[k]) : g.to =< newest'[g.well]
    BY <1>4, <1>5, <1>9, <2>1
  <2> QED BY <1>2, <2>2 DEF InOrder, WireOrder
<1>12. QueueOrder'
  BY <1>7 DEF QueueOrder
<1>13. QueueAfterWire'
  <2> SUFFICES ASSUME NEW v \in Wells, NEW k \in Conns, NEW g \in Range(queue'[<<v, k>>])
               PROVE  g.to =< newest'[v] /\ \A h \in Range(down[k]) : h.well = v => Follows(h.to, g)
    BY <1>2 DEF QueueAfterWire
  <2>1. CASE g \in Range(queue[<<v, k>>])
    <3>1. g.to =< newest[v] /\ \A h \in Range(down[k]) : h.well = v => Follows(h.to, g)
      BY <2>1 DEF InOrder, QueueAfterWire
    <3>2. g.to \in Nat
      <4>1. Range(queue[<<v, k>>]) \subseteq Frames
        BY <1>4, RangeFacts
      <4> QED BY <2>1, <4>1 DEF Frames
    <3> QED BY <1>4, <1>5, <3>1, <3>2
  <2>2. CASE g = f /\ v = w
    <3>1. \A h \in Range(down[k]) : h.well = v => h.to =< newest[w] /\ h.to \in Nat
      BY <1>9, <2>2 DEF InOrder, WireOrder
    <3>2. \A h \in Range(down[k]) : h.well = v => Follows(h.to, g)
      BY <1>1, <1>4, <2>2, <3>1 DEF Follows
    <3> QED BY <1>1, <1>4, <1>6, <2>2, <3>2
  <2> QED BY <1>7, <2>1, <2>2
<1>14. AllAfterView'
  <2> SUFFICES ASSUME NEW k \in Conns, sock = k, NEW n \in Range(view)
               PROVE  /\ \A g \in Range(down[k]) : g.well = wanted => Follows(n, g)
                      /\ \A g \in Range(queue'[<<wanted, k>>]) : Follows(n, g)
    BY <1>2 DEF AllAfterView
  <2>1. /\ \A g \in Range(down[k]) : g.well = wanted => Follows(n, g)
        /\ \A g \in Range(queue[<<wanted, k>>]) : Follows(n, g)
    BY DEF InOrder, AllAfterView
  <2>2. n \in Nat /\ n =< newest[wanted]
    BY <1>8 DEF InOrder, ViewOrder
  <2>3. wanted = w => Follows(n, f)
    BY <1>1, <1>4, <2>2 DEF Follows
  <2>4. \A g \in Range(queue'[<<wanted, k>>]) : g \in Range(queue[<<wanted, k>>]) \/ (g = f /\ wanted = w)
    BY <1>4, <1>7
  <2> QED BY <2>1, <2>3, <2>4
<1> QED BY <1>10, <1>11, <1>12, <1>13, <1>14 DEF InOrder

\* A snapshot ends with the newest sample; its queue is empty.
LEMMA SubscribeOrder ==
    ASSUME TypeInv, HubInv, InOrder, NEW k \in Conns, ReceiveSubscribe(k)
    PROVE  InOrder'
<1> DEFINE w == Head(up[k])
           f == SnapshotFrame(w)
<1>1. UNCHANGED <<newest, sock, wanted, view>> /\ w \in Wells
  BY DEF ReceiveSubscribe, client
<1>2. down' = [down EXCEPT ![k] = IF link[k] = "open" THEN Append(@, f) ELSE @]
  BY DEF ReceiveSubscribe
<1>3. /\ newest \in [Wells -> Nat] /\ queue \in [Wells \X Conns -> Seq(Frames)]
      /\ down \in [Conns -> Seq(Frames)] /\ wanted \in Wells /\ view \in Seq(Nat)
  BY StreamConstants DEF TypeInv, TypeOK
<1>4. \A v \in Wells, j \in Conns :
          /\ queue'[<<v, j>>] \in {queue[<<v, j>>], <<>>}
          /\ <<v, j>> = <<w, k>> => queue'[<<v, j>>] = <<>>
  BY DEF ReceiveSubscribe, Kept
<1>5. f \in Frames /\ f.kind = "snapshot" /\ f.well = w /\ f.to = newest[w]
  BY <1>1, FramesSent
<1> HIDE DEF f, w
<1>6. Range(<<>>) = {} /\ Ordered(<<>>)
  BY DEF Range, Ordered
<1>7. \A v \in Wells, j \in Conns :
          /\ Range(queue'[<<v, j>>]) \subseteq Range(queue[<<v, j>>])
          /\ v = w /\ j = k => Range(queue'[<<v, j>>]) = {}
  BY <1>4, <1>6
<1>8. ASSUME NEW j \in Conns
      PROVE  Ordered(down'[j]) /\ Range(down'[j]) \subseteq Range(down[j]) \cup {f}
             /\ (j # k => down'[j] = down[j])
  <2>1. CASE down'[j] = down[j]
    BY <2>1 DEF InOrder, WireOrder
  <2>2. CASE j = k /\ down'[j] = Append(down[k], f)
    <3> DEFINE s == down[k]
    <3>1. s \in Seq(Frames) /\ Ordered(s) /\ \A g \in Range(s) : g.to =< newest[g.well]
      BY <1>3 DEF InOrder, WireOrder
    <3>2. \A g \in Range(s) : g.well = f.well => Follows(g.to, f)
      BY <1>5, <3>1 DEF Follows
    <3> HIDE DEF s
    <3>3. Ordered(Append(s, f)) /\ Range(Append(s, f)) = Range(s) \cup {f}
      BY <1>5, <3>1, <3>2, OrderedFacts, RangeFacts
    <3> QED BY <2>2, <3>3 DEF s
  <2>3. down'[j] = down[j] \/ (j = k /\ down'[j] = Append(down[k], f))
    BY <1>2, <1>3
  <2>4. j # k => down'[j] = down[j]
    BY <1>2, <1>3
  <2> QED BY <2>1, <2>2, <2>3, <2>4
<1>9. ViewOrder'
  BY <1>1 DEF InOrder, ViewOrder
<1>10. WireOrder'
  <2>1. f.to =< newest[f.well]
    BY <1>1, <1>3, <1>5
  <2> QED BY <1>1, <1>8, <2>1 DEF InOrder, WireOrder
<1>11. QueueOrder'
  BY <1>4, <1>6 DEF InOrder, QueueOrder
<1>12. QueueAfterWire'
  <2> SUFFICES ASSUME NEW v \in Wells, NEW j \in Conns, NEW g \in Range(queue'[<<v, j>>])
               PROVE  /\ g.to =< newest[v] 
                      /\ \A h \in Range(down'[j]) : h.well = v => Follows(h.to, g)
    BY <1>1 DEF QueueAfterWire
  <2>1. g \in Range(queue[<<v, j>>]) /\ ~(v = w /\ j = k)
    BY <1>7
  <2>2. g.to =< newest[v] /\ \A h \in Range(down[j]) : h.well = v => Follows(h.to, g)
    BY <2>1 DEF InOrder, QueueAfterWire
  <2>3. \A h \in Range(down'[j]) : h \in Range(down[j]) \/ (j = k /\ h = f)
    BY <1>8
  <2> QED BY <1>5, <2>1, <2>2, <2>3
<1>13. AllAfterView'
  <2> SUFFICES ASSUME NEW j \in Conns, sock = j, NEW n \in Range(view)
               PROVE  /\ \A g \in Range(down'[j]) : g.well = wanted => Follows(n, g)
                      /\ \A g \in Range(queue'[<<wanted, j>>]) : Follows(n, g)
    BY <1>1 DEF AllAfterView
  <2>1. /\ \A g \in Range(down[j]) : g.well = wanted => Follows(n, g)
        /\ \A g \in Range(queue[<<wanted, j>>]) : Follows(n, g)
    BY DEF InOrder, AllAfterView
  <2>2. f.well = wanted => Follows(n, f)
    BY <1>5 DEF Follows, InOrder, ViewOrder
  <2> QED BY <1>3, <1>7, <1>8, <2>1, <2>2
<1> QED BY <1>9, <1>10, <1>11, <1>12, <1>13 DEF InOrder

\* The head of a queue comes after what is on the way, and before the rest of it.
LEMMA DrainOrder ==
    ASSUME TypeInv, HubInv, InOrder, NEW k \in Conns, DrainOne(k)
    PROVE  InOrder'
<1> DEFINE w == current[k]
           q == queue[<<w, k>>]
           f == Head(q)
<1>1. UNCHANGED <<newest, sock, wanted, view>>
  BY DEF DrainOne, client
<1>2. w \in Wells
  BY DEF DrainOne, TypeInv, Busy
<1>3. /\ q # <<>> /\ down' = [down EXCEPT ![k] = Append(@, f)]
      /\ queue' = [queue EXCEPT ![<<w, k>>] = Tail(@)]
  BY DEF DrainOne
<1>4. /\ newest \in [Wells -> Nat] /\ queue \in [Wells \X Conns -> Seq(Frames)]
      /\ down \in [Conns -> Seq(Frames)] /\ wanted \in Wells /\ view \in Seq(Nat)
  BY StreamConstants DEF TypeInv, TypeOK
<1>5. /\ q \in Seq(Frames) /\ Ordered(q) /\ <<w, k>> \in Wells \X Conns
      /\ \A g \in Range(q) : g.to =< newest[w] /\ \A h \in Range(down[k]) : h.well = w => Follows(h.to, g)
  BY <1>2, <1>4 DEF InOrder, QueueOrder, QueueAfterWire
<1>6. \A g \in Range(q) : g.well = w
  BY <1>5 DEF TypeInv, Range
<1>7. queue'[<<w, k>>] = Tail(q)
  BY <1>3, <1>4, <1>5
<1>8. \A v \in Wells, j \in Conns : ~(v = w /\ j = k) => queue'[<<v, j>>] = queue[<<v, j>>]
  <2> TAKE v \in Wells, j \in Conns
  <2>1. ~(v = w /\ j = k) => <<v, j>> # <<w, k>>
    OBVIOUS
  <2> QED BY <1>3, <1>4, <2>1
<1> HIDE DEF q, w
<1>9. /\ f \in Range(q) /\ f \in Frames /\ Range(Tail(q)) \subseteq Range(q) /\ Ordered(Tail(q))
      /\ \A g \in Range(Tail(q)) : g.well = f.well => Follows(f.to, g)
  BY <1>3, <1>5, RangeFacts, OrderedFacts
<1> HIDE DEF f
<1>10. /\ Range(down'[k]) = Range(down[k]) \cup {f} /\ Ordered(down'[k])
       /\ \A j \in Conns : j # k => down'[j] = down[j]
  <2>1. down[k] \in Seq(Frames) /\ Ordered(down[k]) /\ down'[k] = Append(down[k], f)
    BY <1>3, <1>4 DEF InOrder, WireOrder
  <2>2. \A h \in Range(down[k]) : h.well = f.well => Follows(h.to, f)
    BY <1>5, <1>6, <1>9
  <2> DEFINE s == down[k]
  <2> HIDE DEF s
  <2>3. Range(Append(s, f)) = Range(s) \cup {f} /\ Ordered(Append(s, f))
    BY <1>9, <2>1, <2>2, RangeFacts, OrderedFacts DEF s
  <2>4. \A j \in Conns : j # k => down'[j] = down[j]
    BY <1>3, <1>4
  <2> QED BY <2>1, <2>3, <2>4 DEF s
<1>11. \A v \in Wells, j \in Conns : Range(queue'[<<v, j>>]) \subseteq Range(queue[<<v, j>>])
  BY <1>7, <1>8, <1>9 DEF q
<1>12. ViewOrder'
  BY <1>1 DEF InOrder, ViewOrder
<1>13. WireOrder'
  <2>1. f.to =< newest[f.well]
    BY <1>5, <1>6, <1>9
  <2> QED BY <1>1, <1>10, <2>1 DEF InOrder, WireOrder
<1>14. QueueOrder'
  BY <1>7, <1>8, <1>9 DEF InOrder, QueueOrder
<1>15. QueueAfterWire'
  <2> SUFFICES ASSUME NEW v \in Wells, NEW j \in Conns, NEW g \in Range(queue'[<<v, j>>])
               PROVE  /\ g.to =< newest[v] 
                      /\ \A h \in Range(down'[j]) : h.well = v => Follows(h.to, g)
    BY <1>1 DEF QueueAfterWire
  <2>1. g.to =< newest[v] /\ \A h \in Range(down[j]) : h.well = v => Follows(h.to, g)
    BY <1>11 DEF InOrder, QueueAfterWire
  <2>2. j = k /\ f.well = v => Follows(f.to, g)
    BY <1>6, <1>7, <1>9
  <2>3. \A h \in Range(down'[j]) : h \in Range(down[j]) \/ (j = k /\ h = f)
    BY <1>10
  <2> QED BY <2>1, <2>2, <2>3
<1>16. AllAfterView'
  <2> SUFFICES ASSUME NEW j \in Conns, sock = j, NEW n \in Range(view)
               PROVE  /\ \A g \in Range(down'[j]) : g.well = wanted => Follows(n, g)
                      /\ \A g \in Range(queue'[<<wanted, j>>]) : Follows(n, g)
    BY <1>1 DEF AllAfterView
  <2>1. /\ \A g \in Range(down[j]) : g.well = wanted => Follows(n, g)
        /\ \A g \in Range(queue[<<wanted, j>>]) : Follows(n, g)
    BY DEF InOrder, AllAfterView
  <2>2. j = k /\ f.well = wanted => Follows(n, f)
    BY <1>6, <1>9, <2>1 DEF q
  <2>3. \A h \in Range(down'[j]) : h \in Range(down[j]) \/ (j = k /\ h = f)
    BY <1>10
  <2> QED BY <1>4, <1>11, <2>1, <2>2, <2>3
<1> QED BY <1>12, <1>13, <1>14, <1>15, <1>16 DEF InOrder

\* The frame delivered comes after what the view shows, and before what follows.
LEMMA DeliverOrder ==
    ASSUME TypeInv, HubInv, InOrder, Deliver
    PROVE  InOrder'
<1> DEFINE s == down[sock]
           f == Head(s)
<1>1. UNCHANGED <<newest, queue, sock, wanted>>
  BY DEF Deliver, store
<1>2. /\ sock # None /\ s # <<>> /\ down' = [down EXCEPT ![sock] = Tail(@)]
      /\ view' = IF f.well = wanted THEN Shown(f) ELSE view
  BY DEF Deliver
<1>3. /\ newest \in [Wells -> Nat] /\ queue \in [Wells \X Conns -> Seq(Frames)]
      /\ down \in [Conns -> Seq(Frames)] /\ wanted \in Wells /\ view \in Seq(Nat)
      /\ sock \in Conns
  BY <1>2, StreamConstants DEF TypeInv, TypeOK
<1>4. /\ s \in Seq(Frames) /\ Ordered(s)
      /\ \A g \in Range(s) : g.to =< newest[g.well]
      /\ \A n \in Range(view) : \A g \in Range(s) : g.well = wanted => Follows(n, g)
  BY <1>3 DEF InOrder, WireOrder, AllAfterView
<1>5. /\ f \in Range(s) /\ f \in Frames /\ Range(Tail(s)) \subseteq Range(s) /\ Ordered(Tail(s))
      /\ \A g \in Range(Tail(s)) : g.well = f.well => Follows(f.to, g)
  BY <1>2, <1>4, RangeFacts, OrderedFacts
<1>6. down'[sock] = Tail(s) /\ \A k \in Conns : k # sock => down'[k] = down[k]
  BY <1>2, <1>3
<1>7. \A k \in Conns : Range(down'[k]) \subseteq Range(down[k])
  BY <1>5, <1>6
<1> HIDE DEF f
<1>8. ASSUME f.well = wanted PROVE ViewOrder' /\ AllAfterView'
  <2>1. \A n \in Range(view) : Follows(n, f)
    BY <1>4, <1>5, <1>8
  <2>2. Increasing(Shown(f)) /\ \A n \in Range(Shown(f)) : n =< f.to
    BY <1>3, <1>5, <2>1, ShownOrdered DEF InOrder, ViewOrder
  <2>3. view' = Shown(f)
    BY <1>2, <1>8
  <2>4. view' \in Seq(Nat)
    BY <1>3, <1>5, <2>3, ShownFacts
  <2>5. \A n \in Range(view') : n \in Nat /\ n =< f.to
    BY <2>2, <2>3, <2>4, RangeFacts
  <2>6. f.to \in Nat /\ f.to =< newest[wanted] /\ newest[wanted] \in Nat
    BY <1>3, <1>4, <1>5, <1>8 DEF Frames
  <2>7. ViewOrder'
    <3>1. \A n \in Range(view') : n =< newest[wanted]
      BY <2>5, <2>6
    <3> QED BY <1>1, <2>2, <2>3, <3>1 DEF ViewOrder
  <2>8. AllAfterView'
    <3> SUFFICES ASSUME NEW n \in Range(view')
                 PROVE  /\ \A g \in Range(down'[sock]) : g.well = wanted => Follows(n, g)
                        /\ \A g \in Range(queue[<<wanted, sock>>]) : Follows(n, g)
      BY <1>1 DEF AllAfterView
    <3>1. ASSUME NEW g \in Frames, Follows(f.to, g) PROVE Follows(n, g)
      <4>1. g.to \in Nat /\ g.from \in Nat
        BY DEF Frames
      <4> QED BY <2>5, <2>6, <3>1, <4>1 DEF Follows
    <3>2. \A g \in Range(down'[sock]) : g.well = wanted => g \in Frames /\ Follows(f.to, g)
      <4>1. Range(s) \subseteq Frames
        BY <1>4, RangeFacts
      <4> QED BY <1>5, <1>6, <1>8, <4>1
    <3>3. \A g \in Range(queue[<<wanted, sock>>]) : g \in Frames /\ Follows(f.to, g)
      <4>1. queue[<<wanted, sock>>] \in Seq(Frames)
        BY <1>3
      <4>2. Range(queue[<<wanted, sock>>]) \subseteq Frames
        BY <4>1, RangeFacts
      <4> QED BY <1>3, <1>5, <1>8, <4>2 DEF InOrder, QueueAfterWire
    <3> QED BY <3>1, <3>2, <3>3
  <2> QED BY <2>7, <2>8
<1>9. ASSUME f.well # wanted PROVE ViewOrder' /\ AllAfterView'
  <2>1. view' = view
    BY <1>2, <1>9
  <2> QED BY <1>1, <1>3, <1>7, <2>1 DEF InOrder, ViewOrder, AllAfterView
<1>10. WireOrder'
  BY <1>1, <1>5, <1>6, <1>7 DEF InOrder, WireOrder
<1>11. QueueOrder' /\ QueueAfterWire'
  BY <1>1, <1>7 DEF InOrder, QueueOrder, QueueAfterWire
<1>12. ViewOrder' /\ AllAfterView'
  BY <1>8, <1>9
<1> QED BY <1>10, <1>11, <1>12 DEF InOrder

\* The view is empty at the start.
LEMMA InitOrder == Init => OrderInv
<1> SUFFICES ASSUME Init PROVE InOrder
  BY DEF OrderInv
<1>0. Range(<<>>) = {} /\ Ordered(<<>>) /\ Increasing(<<>>)
  BY DEF Range, Ordered, Increasing
<1>1. /\ view = <<>> /\ \A k \in Conns : down[k] = <<>>
      /\ \A w \in Wells, k \in Conns : queue[<<w, k>>] = <<>>
  BY DEF Init
<1> QED BY <1>0, <1>1 DEF InOrder, ViewOrder, WireOrder, QueueOrder, QueueAfterWire, AllAfterView

\* The order survives every step, until samples are read again.
LEMMA OrderInvInductive ==
    ASSUME TypeInv, TypeInv', HubInv, OrderInv, [Next]_vars
    PROVE  OrderInv'
<1> SUFFICES ASSUME ~reread' PROVE InOrder'
  BY DEF OrderInv
<1>0. /\ down \in [Conns -> Seq(Frames)] /\ link \in [Conns -> {"free", "open", "gone"}]
      /\ sock \in Conns \cup {None} /\ None \notin Conns /\ None \notin Wells /\ wanted' \in Wells
  BY StreamConstants DEF TypeInv, TypeOK
<1>1. ~reread
  <2>1. ASSUME NEW k \in Conns, Handler(k) \/ Open(k) PROVE reread' = reread
    BY <2>1 DEF Handler, ReceiveSubscribe, ReceiveUnsubscribe, SnapshotSent, DrainOne, Disconnect, Open
  <2>2. ASSUME NEW w \in Wells, Ingest(w) \/ ViewWell(w) \/ SwitchWell(w) PROVE reread' = reread
    BY <2>2 DEF Ingest, ViewWell, SwitchWell
  <2>3. CASE Restart
    BY <2>3 DEF Restart
  <2>4. CASE Deliver \/ LoseConnection \/ UNCHANGED vars
    BY <2>4 DEF Deliver, LoseConnection, vars
  <2> QED BY <2>1, <2>2, <2>3, <2>4 DEF Next
<1>2. InOrder
  BY <1>1 DEF OrderInv
<1>3. ASSUME NEW k \in Conns, ReceiveUnsubscribe(k) \/ Disconnect(k) PROVE InOrder'
  <2>1. UNCHANGED <<newest, down, sock, wanted, view>>
    BY <1>3 DEF ReceiveUnsubscribe, Disconnect, client
  <2>2. \A w \in Wells, j \in Conns : queue'[<<w, j>>] \in {queue[<<w, j>>], <<>>}
    BY <1>3 DEF ReceiveUnsubscribe, Disconnect, Kept
  <2> QED BY <1>0, <1>2, <2>1, <2>2, OrderShrinks
<1>4. ASSUME NEW k \in Conns, SnapshotSent(k) PROVE InOrder'
  <2>1. UNCHANGED <<newest, queue, down, sock, wanted, view>>
    BY <1>4 DEF SnapshotSent, store, net, client
  <2> QED BY <1>0, <1>2, <2>1, OrderShrinks
<1>5. ASSUME NEW k \in Conns, Open(k) PROVE InOrder'
  <2>1. UNCHANGED <<newest, queue, down, wanted, view>> /\ sock = None /\ sock' = k /\ link[k] = "free"
    BY <1>5 DEF Open, store
  <2>2. down[k] = <<>> /\ current[k] = None
    BY <1>0, <2>1 DEF HubInv
  <2>3. queue[<<wanted, k>>] = <<>>
    BY <1>0, <2>1, <2>2 DEF HubInv
  <2> QED BY <1>0, <1>2, <2>1, <2>2, <2>3, OrderShrinks
<1>6. ASSUME Abandon(sock), UNCHANGED <<newest, queue>>, view' = <<>> \/ UNCHANGED <<view, wanted>>
      PROVE  InOrder'
  <2>1. sock' = None /\ \A k \in Conns : down'[k] \in {down[k], <<>>}
    BY <1>0, <1>6 DEF Abandon
  <2> QED BY <1>0, <1>2, <1>6, <2>1, OrderShrinks
<1>7. CASE LoseConnection
  BY <1>6, <1>7 DEF LoseConnection, store
<1>8. ASSUME NEW w \in Wells, ViewWell(w) \/ SwitchWell(w) PROVE InOrder'
  <2>1. UNCHANGED <<newest, queue>> /\ view' = <<>>
    BY <1>8 DEF ViewWell, SwitchWell, store
  <2>2. CASE Abandon(sock)
    BY <1>6, <2>1, <2>2
  <2>3. CASE UNCHANGED <<down, sock>>
    BY <1>0, <1>2, <2>1, <2>3, OrderShrinks
  <2> QED BY <1>8, <2>2, <2>3 DEF ViewWell, SwitchWell
<1>9. CASE Restart
  <2>1. newest' = newest
    BY <1>9 DEF Restart
  <2>2. UNCHANGED <<wanted, view>> /\ sock' = None
    BY <1>9 DEF Restart
  <2>3. queue' = [p \in Wells \X Conns |-> <<>>] /\ down' = [k \in Conns |-> <<>>]
    BY <1>9 DEF Restart
  <2>4. \A k \in Conns : down'[k] = <<>> /\ \A w \in Wells : queue'[<<w, k>>] = <<>>
    BY <2>3
  <2> QED BY <1>0, <1>2, <2>1, <2>2, <2>4, OrderShrinks
<1>10. CASE UNCHANGED vars
  <2>1. UNCHANGED <<newest, queue, down, sock, wanted, view>>
    BY <1>10 DEF vars, store, net, client
  <2> QED BY <1>0, <1>2, <2>1, OrderShrinks
<1> QED BY <1>2, <1>3, <1>4, <1>5, <1>7, <1>8, <1>9, <1>10,
           IngestOrder, SubscribeOrder, DrainOrder, DeliverOrder DEF Next, Handler

\* What the view shows is in order and no sample is shown twice, whatever is
\* lost, reordered by reconnects or dropped by a full queue, unless a restarted
\* API has read samples again.
THEOREM ViewStaysInOrder == Spec => []ViewInOrder
<1>1. Spec => [](TypeInv /\ HubInv /\ OrderInv)
  BY InitType, TypeInvInductive, InitHub, HubInvInductive, InitOrder, OrderInvInductive, PTL DEF Spec
<1>2. TypeInv /\ OrderInv => ViewInOrder
  <2> SUFFICES ASSUME TypeInv, ~reread, Increasing(view), NEW n \in 1..(Len(view) - 1)
               PROVE  view[n] < view[n + 1]
    BY DEF OrderInv, InOrder, ViewOrder, ViewInOrder
  <2>1. view \in Seq(Nat)
    BY DEF TypeInv
  <2>2. n \in DOMAIN view /\ n + 1 \in DOMAIN view /\ n < n + 1
    BY <2>1
  <2> QED BY <2>2 DEF Increasing
<1> QED BY <1>1, <1>2, PTL

-----------------------------------------------------------------------------
(* No gap. *)

\* A delta meets the frame of its well before it.
Adjacent(s) ==
    \A i, j \in DOMAIN s :
        /\ i < j /\ s[i].well = s[j].well /\ s[j].kind = "data"
        /\ \A m \in DOMAIN s : i < m /\ m < j => s[m].well # s[j].well
        => s[i].to + 1 = s[j].from

\* The first frame of well w, if it is a delta, starts at sample n.
Begins(s, w, n) ==
    \A j \in DOMAIN s :
        /\ s[j].well = w /\ s[j].kind = "data"
        /\ \A m \in DOMAIN s : m < j => s[m].well # w
        => s[j].from = n

\* The last frame of well w ends just before sample n.
Ends(s, w, n) ==
    \A i \in DOMAIN s :
        s[i].well = w /\ (\A m \in DOMAIN s : i < m => s[m].well # w) => s[i].to + 1 = n

\* The sample a subscriber's queue starts with, or will start with.
Due(w, k) == newest[w] - Len(queue[<<w, k>>]) + 1

\* The same after a step, of a well the step does not rename.
DueNext(w, k) == newest'[w] - Len(queue'[<<w, k>>]) + 1

Contiguous(v) ==
    \A n \in DOMAIN v : v[n] >= 1 /\ (n + 1 \in DOMAIN v => v[n + 1] = v[n] + 1)

\* As long as nothing was lost, an empty snapshot is one of a well that has no
\* sample yet; the view, the frames on the way and the queue of its subscription
\* meet, and so do the frames and the queue of every other subscription.
WireWhole ==
    \A k \in Conns : Adjacent(down[k]) /\ \A f \in Range(down[k]) : f.from > f.to => f.to = 0
SubsWhole ==
    \A w \in Wells, k \in Conns : <<w, k>> \in subs =>
        /\ \A i \in DOMAIN queue[<<w, k>>] : queue[<<w, k>>][i].from = Due(w, k) + i - 1
        /\ Ends(down[k], w, Due(w, k))
ViewMeets ==
    \A k \in Conns : sock = k /\ view # <<>> =>
        /\ Begins(down[k], wanted, view[Len(view)] + 1)
        /\ <<wanted, k>> \in subs /\ (\A f \in Range(down[k]) : f.well # wanted) =>
               view[Len(view)] + 1 = Due(wanted, k)

Whole ==
    /\ \A w \in Wells : oldest[w] = 0
    /\ Contiguous(view) /\ WireWhole /\ SubsWhole /\ ViewMeets

GapInv == (reread => lossy) /\ (~lossy => Whole)

\* Frames that meet still do after the first was taken, and after one was added
\* that is a snapshot or meets the last frame of its well.
LEMMA AdjacentFacts ==
    ASSUME NEW s \in Seq(Frames), Adjacent(s)
    PROVE  /\ s # <<>> => Adjacent(Tail(s)) /\ Begins(Tail(s), Head(s).well, Head(s).to + 1)
           /\ \A f \in Frames : (f.kind = "data" => Ends(s, f.well, f.from)) => Adjacent(Append(s, f))
<1>1. ASSUME s # <<>> PROVE Adjacent(Tail(s)) /\ Begins(Tail(s), Head(s).well, Head(s).to + 1)
  <2> DEFINE t == Tail(s)
  <2>1. /\ \A i \in DOMAIN t : i + 1 \in DOMAIN s /\ t[i] = s[i + 1]
        /\ Head(s) = s[1] /\ 1 \in DOMAIN s /\ t \in Seq(Frames) /\ Len(t) = Len(s) - 1
    BY <1>1, TailFacts
  <2> HIDE DEF t
  <2>2. \A i \in DOMAIN t : i \in Nat /\ i >= 1
    BY <2>1
  <2>3. \A m \in DOMAIN s : m \in Nat /\ (m # 1 => m - 1 \in DOMAIN t /\ m = (m - 1) + 1 /\ t[m - 1] = s[m])
    BY <2>1
  <2>4. Adjacent(t)
    <3> SUFFICES ASSUME NEW i \in DOMAIN t, NEW j \in DOMAIN t, i < j, t[i].well = t[j].well,
                        t[j].kind = "data",
                        \A m \in DOMAIN t : i < m /\ m < j => t[m].well # t[j].well
                 PROVE  t[i].to + 1 = t[j].from
      BY DEF Adjacent
    <3>1. /\ i + 1 \in DOMAIN s /\ j + 1 \in DOMAIN s /\ i + 1 < j + 1
          /\ t[i] = s[i + 1] /\ t[j] = s[j + 1] /\ i \in Nat /\ i >= 1 /\ j \in Nat
      BY <2>1, <2>2
    <3>2. \A m \in DOMAIN s : i + 1 < m /\ m < j + 1 => s[m].well # s[j + 1].well
      <4> SUFFICES ASSUME NEW m \in DOMAIN s, i + 1 < m, m < j + 1 PROVE s[m].well # s[j + 1].well
        OBVIOUS
      <4>1. m # 1 /\ i < m - 1 /\ m - 1 < j
        BY <2>3, <3>1
      <4> QED BY <2>3, <3>1, <4>1
    <3> QED BY <3>1, <3>2 DEF Adjacent
  <2>5. Begins(t, Head(s).well, Head(s).to + 1)
    <3> SUFFICES ASSUME NEW j \in DOMAIN t, t[j].well = s[1].well, t[j].kind = "data",
                        \A m \in DOMAIN t : m < j => t[m].well # s[1].well
                 PROVE  t[j].from = s[1].to + 1
      BY <2>1 DEF Begins
    <3>1. j + 1 \in DOMAIN s /\ 1 < j + 1 /\ t[j] = s[j + 1] /\ j \in Nat
      BY <2>1, <2>2
    <3>2. \A m \in DOMAIN s : 1 < m /\ m < j + 1 => s[m].well # s[j + 1].well
      <4> SUFFICES ASSUME NEW m \in DOMAIN s, 1 < m, m < j + 1 PROVE s[m].well # s[j + 1].well
        OBVIOUS
      <4>1. m # 1 /\ m - 1 < j
        BY <2>3, <3>1
      <4> QED BY <2>3, <3>1, <4>1
    <3> QED BY <2>1, <3>1, <3>2 DEF Adjacent
  <2> QED BY <2>4, <2>5 DEF t
<1>2. ASSUME NEW f \in Frames, f.kind = "data" => Ends(s, f.well, f.from) PROVE Adjacent(Append(s, f))
  <2> DEFINE t == Append(s, f)
  <2>1. /\ \A i \in DOMAIN s : t[i] = s[i] /\ i < Len(s) + 1
        /\ DOMAIN t = DOMAIN s \cup {Len(s) + 1} /\ t[Len(s) + 1] = f /\ Len(s) \in Nat
    BY AppendFacts
  <2> HIDE DEF t
  <2> SUFFICES ASSUME NEW i \in DOMAIN t, NEW j \in DOMAIN t, i < j, t[i].well = t[j].well,
                      t[j].kind = "data",
                      \A m \in DOMAIN t : i < m /\ m < j => t[m].well # t[j].well
               PROVE  t[i].to + 1 = t[j].from
    BY DEF Adjacent, t
  <2>2. i \in DOMAIN s
    BY <2>1
  <2>3. CASE j \in DOMAIN s
    <3>1. \A m \in DOMAIN s : i < m /\ m < j => s[m].well # s[j].well
      BY <2>1, <2>3
    <3> QED BY <2>1, <2>2, <2>3, <3>1 DEF Adjacent
  <2>4. CASE j = Len(s) + 1
    <3>1. t[j] = f /\ t[i] = s[i]
      BY <2>1, <2>2, <2>4
    <3>2. \A m \in DOMAIN s : i < m => s[m].well # f.well
      BY <2>1, <2>4, <3>1
    <3> QED BY <1>2, <2>2, <3>1, <3>2 DEF Ends
  <2> QED BY <2>1, <2>3, <2>4
<1> QED BY <1>1, <1>2

\* The last frame of a well, after one was taken or added.
LEMMA EndsFacts ==
    ASSUME NEW s \in Seq(Frames), NEW w, NEW n
    PROVE  /\ Ends(<<>>, w, n)
           /\ s # <<>> /\ Ends(s, w, n) =>
                  /\ Ends(Tail(s), w, n)
                  /\ Head(s).well = w /\ (\A f \in Range(Tail(s)) : f.well # w) => Head(s).to + 1 = n
           /\ \A f \in Frames : f.well = w /\ f.to + 1 = n => Ends(Append(s, f), w, n)
<1>1. Ends(<<>>, w, n)
  BY DEF Ends
<1>2. ASSUME s # <<>>, Ends(s, w, n)
      PROVE  /\ Ends(Tail(s), w, n)
             /\ Head(s).well = w /\ (\A f \in Range(Tail(s)) : f.well # w) => Head(s).to + 1 = n
  <2> DEFINE t == Tail(s)
  <2>1. /\ \A i \in DOMAIN t : i + 1 \in DOMAIN s /\ t[i] = s[i + 1]
        /\ Head(s) = s[1] /\ 1 \in DOMAIN s /\ t \in Seq(Frames) /\ Len(t) = Len(s) - 1
    BY <1>2, TailFacts
  <2> HIDE DEF t
  <2>2. \A i \in DOMAIN t : i \in Nat /\ i >= 1
    BY <2>1
  <2>3. \A m \in DOMAIN s : m \in Nat /\ (m # 1 => m - 1 \in DOMAIN t /\ m = (m - 1) + 1 /\ t[m - 1] = s[m])
    BY <2>1
  <2>4. Ends(t, w, n)
    <3> SUFFICES ASSUME NEW i \in DOMAIN t, t[i].well = w, \A m \in DOMAIN t : i < m => t[m].well # w
                 PROVE  t[i].to + 1 = n
      BY DEF Ends
    <3>1. i + 1 \in DOMAIN s /\ t[i] = s[i + 1] /\ i \in Nat /\ i >= 1
      BY <2>1, <2>2
    <3>2. \A m \in DOMAIN s : i + 1 < m => s[m].well # w
      <4> SUFFICES ASSUME NEW m \in DOMAIN s, i + 1 < m PROVE s[m].well # w
        OBVIOUS
      <4>1. m # 1 /\ i < m - 1
        BY <2>3, <3>1
      <4> QED BY <2>3, <4>1
    <3> QED BY <1>2, <3>1, <3>2 DEF Ends
  <2>5. ASSUME Head(s).well = w, \A f \in Range(t) : f.well # w PROVE Head(s).to + 1 = n
    <3>1. \A m \in DOMAIN s : 1 < m => s[m].well # w
      <4> SUFFICES ASSUME NEW m \in DOMAIN s, 1 < m PROVE s[m].well # w
        OBVIOUS
      <4>1. m - 1 \in DOMAIN t /\ t[m - 1] = s[m]
        BY <2>3
      <4>2. s[m] \in Range(t)
        BY <4>1 DEF Range
      <4> QED BY <2>5, <4>2
    <3> QED BY <1>2, <2>1, <2>5, <3>1 DEF Ends
  <2> QED BY <2>4, <2>5 DEF t
<1>3. ASSUME NEW f \in Frames, f.well = w, f.to + 1 = n PROVE Ends(Append(s, f), w, n)
  <2> DEFINE t == Append(s, f)
  <2>1. /\ \A i \in DOMAIN s : t[i] = s[i] /\ i < Len(s) + 1
        /\ DOMAIN t = DOMAIN s \cup {Len(s) + 1} /\ t[Len(s) + 1] = f /\ Len(s) \in Nat
    BY AppendFacts
  <2> HIDE DEF t
  <2>2. Ends(t, w, n)
    BY <1>3, <2>1 DEF Ends
  <2> QED BY <2>2 DEF t
<1> QED BY <1>1, <1>2, <1>3

\* The first frame of a well, after one was taken or added.
LEMMA BeginsFacts ==
    ASSUME NEW s \in Seq(Frames), NEW w, NEW n
    PROVE  /\ Begins(<<>>, w, n)
           /\ s # <<>> /\ Begins(s, w, n) =>
                  /\ Head(s).well # w => Begins(Tail(s), w, n)
                  /\ Head(s).well = w /\ Head(s).kind = "data" => Head(s).from = n
           /\ Begins(s, w, n) => \A f \in Frames :
                  (f.kind = "data" /\ f.well = w /\ (\A g \in Range(s) : g.well # w) => f.from = n) =>
                      Begins(Append(s, f), w, n)
<1>1. Begins(<<>>, w, n)
  BY DEF Begins
<1>2. ASSUME s # <<>>, Begins(s, w, n)
      PROVE  /\ Head(s).well # w => Begins(Tail(s), w, n)
             /\ Head(s).well = w /\ Head(s).kind = "data" => Head(s).from = n
  <2> DEFINE t == Tail(s)
  <2>1. /\ \A i \in DOMAIN t : i + 1 \in DOMAIN s /\ t[i] = s[i + 1]
        /\ Head(s) = s[1] /\ 1 \in DOMAIN s /\ t \in Seq(Frames) /\ Len(t) = Len(s) - 1
    BY <1>2, TailFacts
  <2> HIDE DEF t
  <2>2. \A i \in DOMAIN t : i \in Nat /\ i >= 1
    BY <2>1
  <2>3. \A m \in DOMAIN s : /\ m \in Nat /\ m >= 1
                            /\ m # 1 => m - 1 \in DOMAIN t /\ m = (m - 1) + 1 /\ t[m - 1] = s[m]
    BY <2>1
  <2>4. ASSUME Head(s).well # w PROVE Begins(t, w, n)
    <3> SUFFICES ASSUME NEW j \in DOMAIN t, t[j].well = w, t[j].kind = "data",
                        \A m \in DOMAIN t : m < j => t[m].well # w
                 PROVE  t[j].from = n
      BY DEF Begins
    <3>1. j + 1 \in DOMAIN s /\ t[j] = s[j + 1] /\ j \in Nat
      BY <2>1, <2>2
    <3>2. \A m \in DOMAIN s : m < j + 1 => s[m].well # w
      <4> SUFFICES ASSUME NEW m \in DOMAIN s, m < j + 1 PROVE s[m].well # w
        OBVIOUS
      <4>1. CASE m = 1
        BY <2>1, <2>4, <4>1
      <4>2. CASE m # 1
        <5>1. m - 1 < j
          BY <2>3, <3>1
        <5> QED BY <2>3, <4>2, <5>1
      <4> QED BY <4>1, <4>2
    <3> QED BY <1>2, <3>1, <3>2 DEF Begins
  <2>5. ASSUME Head(s).well = w, Head(s).kind = "data" PROVE Head(s).from = n
    <3>1. \A m \in DOMAIN s : ~(m < 1)
      BY <2>3
    <3> QED BY <1>2, <2>1, <2>5, <3>1 DEF Begins
  <2> QED BY <2>4, <2>5 DEF t
<1>3. ASSUME Begins(s, w, n), NEW f \in Frames,
             f.kind = "data" /\ f.well = w /\ (\A g \in Range(s) : g.well # w) => f.from = n
      PROVE  Begins(Append(s, f), w, n)
  <2> DEFINE t == Append(s, f)
  <2>1. /\ \A i \in DOMAIN s : t[i] = s[i] /\ i < Len(s) + 1
        /\ DOMAIN t = DOMAIN s \cup {Len(s) + 1} /\ t[Len(s) + 1] = f /\ Len(s) \in Nat
    BY AppendFacts
  <2> HIDE DEF t
  <2> SUFFICES ASSUME NEW j \in DOMAIN t, t[j].well = w, t[j].kind = "data",
                      \A m \in DOMAIN t : m < j => t[m].well # w
               PROVE  t[j].from = n
    BY DEF Begins, t
  <2>2. CASE j \in DOMAIN s
    <3>1. \A m \in DOMAIN s : m < j => s[m].well # w
      BY <2>1
    <3> QED BY <1>3, <2>1, <2>2, <3>1 DEF Begins
  <2>3. CASE j = Len(s) + 1
    <3>1. \A g \in Range(s) : g.well # w
      BY <2>1, <2>3 DEF Range
    <3> QED BY <1>3, <2>1, <2>3, <3>1
  <2> QED BY <2>1, <2>2, <2>3
<1> QED BY <1>1, <1>2, <1>3

\* The frame's samples reach beyond what is kept.
LEMMA WindowEnd ==
    ASSUME NEW a \in Nat, NEW b \in Nat, NEW cut \in Nat, NEW L \in Nat, NEW n \in Nat,
           n = L + (b - a + 1) - cut, a =< b
    PROVE  n + cut > L
  BY SMT

\* Samples that meet the window's last one, or replace the window, leave it
\* without a hole, and the frame's last sample is its last.
LEMMA ShownContiguous ==
    ASSUME view \in Seq(Nat), Contiguous(view), NEW f \in Frames, f.from =< f.to,
           f.kind = "data" /\ view # <<>> => f.from = view[Len(view)] + 1
    PROVE  /\ Shown(f) # <<>> /\ Shown(f)[Len(Shown(f))] = f.to
           /\ Contiguous(Shown(f))
<1> DEFINE v == Shown(f)
           old == KeptBefore(f)
<1>1. PICK cut \in Nat :
           /\ old \in Seq(Nat) /\ v \in Seq(Nat)
           /\ Len(v) = Len(old) + (f.to - f.from + 1) - cut
           /\ cut > 0 => Len(v) = WindowSize
           /\ \A n \in DOMAIN v :
                  /\ n + cut =< Len(old) => v[n] = old[n + cut]
                  /\ n + cut > Len(old) => v[n] = f.from + ((n + cut) - Len(old)) - 1
  BY ShownFacts
<1>2. /\ f.from \in Nat /\ f.to \in Nat /\ f.from >= 1 /\ f.kind \in {"data", "snapshot"}
      /\ WindowSize \in Nat /\ WindowSize >= 1
  BY StreamConstants DEF Frames
<1>3. Contiguous(old) /\ (old # <<>> => f.from = old[Len(old)] + 1)
  <2>1. CASE f.kind = "snapshot"
    <3>1. old = <<>>
      BY <2>1 DEF KeptBefore
    <3> QED BY <3>1 DEF Contiguous
  <2>2. CASE f.kind = "data"
    <3>1. old = view
      BY <2>2 DEF KeptBefore
    <3> QED BY <2>2, <3>1
  <2> QED BY <1>2, <2>1, <2>2
<1> HIDE DEF v, old
<1>4. Len(old) \in Nat /\ Len(v) \in Nat /\ Len(v) >= 1 /\ DOMAIN v = 1..Len(v) /\ DOMAIN old = 1..Len(old)
  BY <1>1, <1>2
<1>5. v # <<>> /\ v[Len(v)] = f.to
  <2>1. Len(v) \in DOMAIN v /\ Len(v) + cut > Len(old)
    <3>1. Len(v) \in DOMAIN v
      BY <1>4
    <3>2. Len(v) = Len(old) + (f.to - f.from + 1) - cut
      BY <1>1
    <3> QED BY <1>2, <1>4, <3>1, <3>2, WindowEnd
  <2>2. v[Len(v)] = f.from + ((Len(v) + cut) - Len(old)) - 1
    BY <1>1, <2>1
  <2> QED BY <1>1, <1>2, <1>4, <2>2
<1>6. ASSUME NEW n \in DOMAIN v PROVE v[n] >= 1
  <2>1. n \in Nat /\ n >= 1
    BY <1>4
  <2>2. CASE n + cut =< Len(old)
    <3>1. n + cut \in DOMAIN old
      BY <1>4, <2>1, <2>2
    <3> QED BY <1>1, <1>3, <2>2, <3>1 DEF Contiguous
  <2>3. CASE n + cut > Len(old)
    <3>1. v[n] = f.from + ((n + cut) - Len(old)) - 1
      BY <1>1, <2>3
    <3> QED BY <1>2, <1>4, <2>1, <2>3, <3>1
  <2> QED BY <1>4, <2>1, <2>2, <2>3
<1>7. ASSUME NEW n \in DOMAIN v, n + 1 \in DOMAIN v PROVE v[n + 1] = v[n] + 1
  <2>1. n \in Nat /\ n >= 1 /\ (n + 1) + cut = (n + cut) + 1
    BY <1>4
  <2>2. CASE (n + 1) + cut =< Len(old)
    <3>1. n + cut =< Len(old) /\ n + cut \in DOMAIN old /\ (n + cut) + 1 \in DOMAIN old
      BY <1>4, <2>1, <2>2
    <3>2. v[n] = old[n + cut] /\ v[n + 1] = old[(n + cut) + 1]
      BY <1>1, <1>7, <2>1, <2>2, <3>1
    <3> QED BY <1>3, <3>1, <3>2 DEF Contiguous
  <2>3. CASE n + cut = Len(old)
    <3>1. n + cut =< Len(old) /\ (n + 1) + cut > Len(old) /\ old # <<>>
      BY <1>4, <2>1, <2>3
    <3>2. v[n] = old[n + cut] /\ v[n + 1] = f.from + (((n + 1) + cut) - Len(old)) - 1
      BY <1>1, <1>7, <3>1
    <3>3. v[n + 1] = f.from
      <4>1. n \in Nat /\ Len(old) \in Nat /\ f.from \in Nat /\ cut \in Nat
        BY <1>2, <1>4, <2>1
      <4>2. f.from + (((n + 1) + cut) - Len(old)) - 1 = f.from
        <5> DEFINE a == f.from
                   L == Len(old)
        <5>1. n \in Nat /\ L \in Nat /\ a \in Nat /\ n + cut = L
          BY <2>3, <4>1
        <5> HIDE DEF a, L
        <5>2. a + (((n + 1) + cut) - L) - 1 = a
          BY <5>1
        <5> QED BY <5>2 DEF a, L
      <4> QED BY <3>2, <4>2, Zenon
    <3> QED BY <1>3, <2>3, <3>1, <3>2, <3>3
  <2>4. CASE n + cut > Len(old)
    <3>1. (n + 1) + cut > Len(old)
      BY <1>4, <2>1, <2>4
    <3>2. /\ v[n] = f.from + ((n + cut) - Len(old)) - 1
          /\ v[n + 1] = f.from + (((n + 1) + cut) - Len(old)) - 1
      BY <1>1, <1>7, <2>4, <3>1
    <3>3. n \in Nat /\ Len(old) \in Nat /\ f.from \in Nat /\ cut \in Nat
      BY <1>2, <1>4, <2>1
    <3>4. f.from + (((n + 1) + cut) - Len(old)) - 1 = (f.from + ((n + cut) - Len(old)) - 1) + 1
      <4> DEFINE a == f.from
                 L == Len(old)
      <4>1. n \in Nat /\ L \in Nat /\ a \in Nat
        BY <3>3
      <4> HIDE DEF a, L
      <4>2. a + (((n + 1) + cut) - L) - 1 = (a + ((n + cut) - L) - 1) + 1
        BY <4>1
      <4> QED BY <4>2 DEF a, L
    <3> QED BY <3>2, <3>4, Zenon
  <2> QED BY <1>4, <2>1, <2>2, <2>3, <2>4
<1>8. Contiguous(v)
  BY <1>6, <1>7 DEF Contiguous
<1> QED BY <1>5, <1>8 DEF v

\* An empty snapshot leaves an empty view empty.
LEMMA ShownNothing ==
    ASSUME view = <<>>, NEW f \in Frames, f.from > f.to
    PROVE  Shown(f) = <<>>
<1>1. view \in Seq(Nat)
  OBVIOUS
<1>2. PICK cut \in Nat :
           /\ Shown(f) \in Seq(Nat)
           /\ Len(Shown(f)) = Len(KeptBefore(f)) + (f.to - f.from + 1) - cut
  BY <1>1, ShownFacts
<1>3. f.from \in Nat /\ f.to \in Nat /\ f.from =< f.to + 1
  BY DEF Frames
<1>4. Len(KeptBefore(f)) = 0
  BY DEF KeptBefore
<1>5. Len(Shown(f)) = 0
  BY <1>2, <1>3, <1>4
<1> QED BY <1>2, <1>5

-----------------------------------------------------------------------------
\* Dropping subscriptions, connections or the view, and opening a socket that
\* has no subscription yet, opens no gap.
LEMMA WholeShrinks ==
    ASSUME TypeInv, Whole, newest' = newest, oldest' = oldest, subs' \subseteq subs,
           \A w \in Wells, k \in Conns : <<w, k>> \in subs' => queue'[<<w, k>>] = queue[<<w, k>>],
           \A k \in Conns : down'[k] \in {down[k], <<>>},
           view' = <<>> \/ UNCHANGED <<view, wanted>>,
           wanted' \in Wells,
           \A k \in Conns : sock' = k =>
               \/ sock = k /\ down'[k] = down[k]
               \/ down'[k] = <<>> /\ <<wanted', k>> \notin subs'
    PROVE  Whole'
<1>0. Range(<<>>) = {} /\ Adjacent(<<>>) /\ Contiguous(<<>>)
  BY DEF Range, Adjacent, Contiguous
<1>1. \A w, n : Ends(<<>>, w, n) /\ Begins(<<>>, w, n)
  BY DEF Ends, Begins
<1>2. \A w \in Wells : oldest'[w] = 0
  BY DEF Whole
<1>3. Contiguous(view')
  BY <1>0 DEF Whole
<1>4. WireWhole'
  BY <1>0 DEF Whole, WireWhole
<1>5. \A w \in Wells, k \in Conns : <<w, k>> \in subs' => DueNext(w, k) = Due(w, k)
  BY DEF Due, DueNext
<1>6. SubsWhole'
  <2> SUFFICES ASSUME NEW w \in Wells, NEW k \in Conns, <<w, k>> \in subs'
               PROVE  /\ \A i \in DOMAIN queue'[<<w, k>>] : queue'[<<w, k>>][i].from = DueNext(w, k) + i - 1
                      /\ Ends(down'[k], w, DueNext(w, k))
    BY DEF SubsWhole, Due, DueNext
  <2>1. queue'[<<w, k>>] = queue[<<w, k>>] /\ DueNext(w, k) = Due(w, k)
    BY <1>5
  <2>2. /\ \A i \in DOMAIN queue[<<w, k>>] : queue[<<w, k>>][i].from = Due(w, k) + i - 1
        /\ Ends(down[k], w, Due(w, k))
    BY DEF Whole, SubsWhole
  <2>3. Ends(down'[k], w, Due(w, k))
    BY <1>1, <2>2
  <2> QED BY <2>1, <2>2, <2>3
<1>7. ViewMeets'
  <2> SUFFICES ASSUME NEW k \in Conns, sock' = k, view' # <<>>
               PROVE  /\ Begins(down'[k], wanted', view'[Len(view')] + 1)
                      /\ <<wanted', k>> \in subs' /\ (\A f \in Range(down'[k]) : f.well # wanted') =>
                             view'[Len(view')] + 1 = DueNext(wanted', k)
    BY DEF ViewMeets, Due, DueNext
  <2>1. view' = view /\ wanted' = wanted
    OBVIOUS
  <2>2. CASE sock = k /\ down'[k] = down[k]
    <3>1. /\ Begins(down[k], wanted, view[Len(view)] + 1)
          /\ <<wanted, k>> \in subs /\ (\A f \in Range(down[k]) : f.well # wanted) =>
                 view[Len(view)] + 1 = Due(wanted, k)
      BY <2>1, <2>2 DEF Whole, ViewMeets
    <3>2. <<wanted, k>> \in subs' => DueNext(wanted, k) = Due(wanted, k)
      BY <1>5, <2>1
    <3> QED BY <2>1, <2>2, <3>1, <3>2
  <2>3. CASE down'[k] = <<>> /\ <<wanted', k>> \notin subs'
    BY <1>1, <2>3
  <2> QED BY <2>2, <2>3
<1> QED BY <1>2, <1>3, <1>4, <1>6, <1>7 DEF Whole

\* A new sample is appended to every queue of its well that has room for it.
LEMMA IngestWhole ==
    ASSUME TypeInv, Whole, NEW w \in Wells, Ingest(w), ~lossy'
    PROVE  Whole'
<1> DEFINE f == Frame("data", w, newest[w] + 1, newest[w] + 1)
<1>1. f \in Frames /\ f.from = newest[w] + 1
  BY FramesSent DEF Frame
<1>2. UNCHANGED <<oldest, subs, down, sock, wanted, view>>
  BY DEF Ingest, net, client
<1>3. /\ newest' = [newest EXCEPT ![w] = newest[w] + 1]
      /\ queue' = [p \in Wells \X Conns |->
                      IF p[1] = w /\ p \in subs THEN Put(queue[p], f) ELSE queue[p]]
  BY DEF Ingest
<1>4. \A p \in subs : p[1] = w => Len(queue[p]) # QueueSize
  BY DEF Ingest
<1> HIDE DEF f
<1>5. /\ newest \in [Wells -> Nat] /\ queue \in [Wells \X Conns -> Seq(Frames)] /\ wanted \in Wells
  BY StreamConstants DEF TypeInv, TypeOK
<1>6. ASSUME NEW v \in Wells, NEW k \in Conns, <<v, k>> \in subs
      PROVE  /\ DueNext(v, k) = Due(v, k)
             /\ \A i \in DOMAIN queue'[<<v, k>>] : queue'[<<v, k>>][i].from = Due(v, k) + i - 1
  <2> DEFINE q == queue[<<v, k>>]
             d == Due(v, k)
  <2>1. q \in Seq(Frames) /\ newest[v] \in Nat /\ Len(q) \in Nat
    BY <1>5
  <2>2. d = newest[v] - Len(q) + 1 /\ DueNext(v, k) = newest'[v] - Len(queue'[<<v, k>>]) + 1
    BY DEF Due, DueNext
  <2>3. \A i \in DOMAIN q : q[i].from = d + i - 1
    BY <1>6 DEF Whole, SubsWhole
  <2>4. CASE v # w
    <3>1. queue'[<<v, k>>] = q /\ newest'[v] = newest[v]
      BY <1>3, <1>5, <2>4
    <3> QED BY <2>2, <2>3, <3>1
  <2>5. CASE v = w
    <3>1. Len(q) # QueueSize
      BY <1>4, <1>6, <2>5
    <3>2. queue'[<<v, k>>] = Append(q, f) /\ newest'[v] = newest[v] + 1
      BY <1>3, <1>5, <1>6, <2>5, <3>1 DEF Put
    <3> HIDE DEF q, d
    <3>3. /\ \A i \in DOMAIN q : Append(q, f)[i] = q[i]
          /\ DOMAIN Append(q, f) = DOMAIN q \cup {Len(q) + 1}
          /\ Append(q, f)[Len(q) + 1] = f /\ Len(Append(q, f)) = Len(q) + 1
      BY <1>1, <2>1, AppendFacts
    <3>4. DueNext(v, k) = d
      BY <2>1, <2>2, <3>2, <3>3
    <3>5. f.from = d + (Len(q) + 1) - 1
      BY <1>1, <2>1, <2>2, <2>5
    <3>6. \A i \in DOMAIN Append(q, f) : Append(q, f)[i].from = d + i - 1
      BY <2>3, <3>3, <3>5
    <3> QED BY <3>2, <3>4, <3>6 DEF d
  <2> QED BY <2>4, <2>5
<1>7. SubsWhole'
  <2> SUFFICES ASSUME NEW v \in Wells, NEW k \in Conns, <<v, k>> \in subs
               PROVE  /\ \A i \in DOMAIN queue'[<<v, k>>] : queue'[<<v, k>>][i].from = DueNext(v, k) + i - 1
                      /\ Ends(down[k], v, DueNext(v, k))
    BY <1>2 DEF SubsWhole, Due, DueNext
  <2> QED BY <1>6 DEF Whole, SubsWhole
<1>8. ViewMeets'
  <2> SUFFICES ASSUME NEW k \in Conns, sock = k, view # <<>>
               PROVE  /\ Begins(down[k], wanted, view[Len(view)] + 1)
                      /\ <<wanted, k>> \in subs /\ (\A g \in Range(down[k]) : g.well # wanted) =>
                             view[Len(view)] + 1 = DueNext(wanted, k)
    BY <1>2 DEF ViewMeets, Due, DueNext
  <2> QED BY <1>5, <1>6 DEF Whole, ViewMeets
<1> QED BY <1>2, <1>7, <1>8 DEF Whole, WireWhole

\* A snapshot ends just before the first sample of its subscription's queue.
LEMMA SubscribeWhole ==
    ASSUME TypeInv, HubInv, Whole, NEW k \in Conns, ReceiveSubscribe(k)
    PROVE  Whole'
<1> DEFINE w == Head(up[k])
           f == SnapshotFrame(w)
<1>1. UNCHANGED <<oldest, newest, sock, wanted, view>> /\ w \in Wells
  BY DEF ReceiveSubscribe, client
<1>2. /\ down' = [down EXCEPT ![k] = IF link[k] = "open" THEN Append(@, f) ELSE @]
      /\ subs' = (subs \ {<<current[k], k>>}) \cup {<<w, k>>}
  BY DEF ReceiveSubscribe, Released
<1>3. /\ newest \in [Wells -> Nat] /\ queue \in [Wells \X Conns -> Seq(Frames)]
      /\ down \in [Conns -> Seq(Frames)] /\ wanted \in Wells
  BY StreamConstants DEF TypeInv, TypeOK
<1>4. /\ queue'[<<w, k>>] = <<>>
      /\ \A v \in Wells, j \in Conns :
             j # k /\ <<v, j>> \in subs => queue'[<<v, j>>] = queue[<<v, j>>]
  <2>1. \A v \in Wells, j \in Conns : queue'[<<v, j>>] =
            IF <<v, j>> # <<w, k>> /\ <<v, j>> \in subs \ {<<current[k], k>>}
            THEN queue[<<v, j>>] ELSE <<>>
    BY DEF ReceiveSubscribe, Released, Kept
  <2> HIDE DEF w
  <2> QED BY <1>1, <2>1
<1>5. f \in Frames /\ f.kind = "snapshot" /\ f.well = w /\ f.to = newest[w] /\ (f.from > newest[w] => newest[w] = oldest[w])
  BY <1>1, FramesSent
<1> HIDE DEF f, w
<1>6. \A v \in Wells : <<v, k>> \in subs' => v = w
  <2>1. \A v \in Wells : <<v, k>> \in subs => current[k] = v
    BY DEF HubInv
  <2> QED BY <1>2, <2>1
<1>7. \A v \in Wells, j \in Conns : j # k => (<<v, j>> \in subs' <=> <<v, j>> \in subs)
  BY <1>2
<1>8. DueNext(w, k) = newest[w] + 1
  BY <1>1, <1>3, <1>4 DEF DueNext
<1>9. \A j \in Conns : j # k => down'[j] = down[j]
  BY <1>2, <1>3
<1>10. \A v \in Wells, j \in Conns : j # k /\ <<v, j>> \in subs => DueNext(v, j) = Due(v, j)
  BY <1>1, <1>4 DEF Due, DueNext
<1>11. \/ link[k] = "open" /\ down'[k] = Append(down[k], f)
       \/ link[k] # "open" /\ down'[k] = down[k] /\ down[k] = <<>> /\ sock # k
  BY <1>2, <1>3 DEF HubInv
<1> DEFINE s == down[k]
<1>12. s \in Seq(Frames) /\ Adjacent(s) /\ \A g \in Range(s) : g.from > g.to => g.to = 0
  BY <1>3 DEF Whole, WireWhole
<1>13. s = down[k]
  OBVIOUS
<1> HIDE DEF s
<1>14. /\ Range(Append(s, f)) = Range(s) \cup {f} /\ Adjacent(Append(s, f))
       /\ Ends(Append(s, f), w, newest[w] + 1)
       /\ \A n : Begins(s, wanted, n) => Begins(Append(s, f), wanted, n)
  <2>1. Range(Append(s, f)) = Range(s) \cup {f}
    BY <1>5, <1>12, RangeFacts
  <2>2. Adjacent(Append(s, f))
    BY <1>5, <1>12, AdjacentFacts
  <2>3. Ends(Append(s, f), w, newest[w] + 1)
    BY <1>5, <1>12, EndsFacts
  <2>4. \A n : Begins(s, wanted, n) => Begins(Append(s, f), wanted, n)
    <3> SUFFICES ASSUME NEW n, Begins(s, wanted, n) PROVE Begins(Append(s, f), wanted, n)
      OBVIOUS
    <3> QED BY <1>5, <1>12, BeginsFacts
  <2> QED BY <2>1, <2>2, <2>3, <2>4
<1>15. f.from > f.to => f.to = 0
  BY <1>1, <1>5 DEF Whole
<1>16. WireWhole'
  <2> SUFFICES ASSUME NEW j \in Conns
               PROVE  Adjacent(down'[j]) /\ \A g \in Range(down'[j]) : g.from > g.to => g.to = 0
    BY DEF WireWhole
  <2>1. CASE down'[j] = down[j]
    BY <2>1 DEF Whole, WireWhole
  <2>2. CASE j = k /\ down'[k] = Append(s, f)
    BY <1>12, <1>14, <1>15, <2>2
  <2> QED BY <1>9, <1>11, <1>13, <2>1, <2>2
<1>17. SubsWhole'
  <2> SUFFICES ASSUME NEW v \in Wells, NEW j \in Conns, <<v, j>> \in subs'
               PROVE  /\ \A i \in DOMAIN queue'[<<v, j>>] : queue'[<<v, j>>][i].from = DueNext(v, j) + i - 1
                      /\ Ends(down'[j], v, DueNext(v, j))
    BY DEF SubsWhole, Due, DueNext
  <2>1. CASE j = k
    <3>1. v = w /\ queue'[<<v, j>>] = <<>>
      BY <1>4, <1>6, <2>1
    <3>2. Ends(down'[k], w, newest[w] + 1)
      <4>1. Ends(<<>>, w, newest[w] + 1)
        BY DEF Ends
      <4> QED BY <1>11, <1>13, <1>14, <4>1
    <3> QED BY <1>8, <2>1, <3>1, <3>2
  <2>2. CASE j # k
    <3>1. <<v, j>> \in subs /\ queue'[<<v, j>>] = queue[<<v, j>>] /\ DueNext(v, j) = Due(v, j) /\ down'[j] = down[j]
      BY <1>4, <1>7, <1>9, <1>10, <2>2
    <3>2. /\ \A i \in DOMAIN queue[<<v, j>>] : queue[<<v, j>>][i].from = Due(v, j) + i - 1
          /\ Ends(down[j], v, Due(v, j))
      BY <3>1 DEF Whole, SubsWhole
    <3> QED BY <3>1, <3>2
  <2> QED BY <2>1, <2>2
<1>18. ViewMeets'
  <2> SUFFICES ASSUME NEW j \in Conns, sock = j, view # <<>>
               PROVE  /\ Begins(down'[j], wanted, view[Len(view)] + 1)
                      /\ <<wanted, j>> \in subs' /\ (\A g \in Range(down'[j]) : g.well # wanted) =>
                             view[Len(view)] + 1 = DueNext(wanted, j)
    BY <1>1 DEF ViewMeets, Due, DueNext
  <2>1. /\ Begins(down[j], wanted, view[Len(view)] + 1)
        /\ <<wanted, j>> \in subs /\ (\A g \in Range(down[j]) : g.well # wanted) =>
               view[Len(view)] + 1 = Due(wanted, j)
    BY DEF Whole, ViewMeets
  <2>2. CASE j = k
    <3>1. down'[k] = Append(s, f)
      BY <1>11, <1>13, <2>2
    <3>2. f \in Range(down'[k]) /\ (<<wanted, k>> \in subs' => f.well = wanted)
      BY <1>3, <1>5, <1>6, <1>14, <3>1
    <3> QED BY <1>13, <1>14, <2>1, <2>2, <3>1, <3>2
  <2>3. CASE j # k
    <3>1. down'[j] = down[j] /\ (<<wanted, j>> \in subs' => <<wanted, j>> \in subs /\ DueNext(wanted, j) = Due(wanted, j))
      BY <1>3, <1>7, <1>9, <1>10, <2>3
    <3> QED BY <2>1, <3>1
  <2> QED BY <2>2, <2>3
<1> QED BY <1>1, <1>16, <1>17, <1>18 DEF Whole

\* The delta forwarded meets the last frame of its well, and so does the next.
LEMMA DrainWhole ==
    ASSUME TypeInv, HubInv, Whole, NEW k \in Conns, DrainOne(k)
    PROVE  Whole'
<1> DEFINE w == current[k]
           q == queue[<<w, k>>]
           t == Tail(q)
           f == Head(q)
           s == down[k]
           d == Due(w, k)
<1>1. UNCHANGED <<oldest, newest, subs, sock, wanted, view>>
  BY DEF DrainOne, client
<1>2. w \in Wells /\ <<w, k>> \in subs /\ \A v \in Wells : <<v, k>> \in subs => v = w
  BY DEF DrainOne, TypeInv, Busy, HubInv
<1>3. /\ q # <<>> /\ down' = [down EXCEPT ![k] = Append(s, f)]
      /\ queue' = [queue EXCEPT ![<<w, k>>] = t]
  BY DEF DrainOne
<1>4. /\ newest \in [Wells -> Nat] /\ queue \in [Wells \X Conns -> Seq(Frames)]
      /\ down \in [Conns -> Seq(Frames)] /\ wanted \in Wells
      /\ q \in Seq(Frames) /\ s \in Seq(Frames)
  BY <1>2, StreamConstants DEF TypeInv, TypeOK
<1>5. queue'[<<w, k>>] = t /\ down'[k] = Append(s, f) /\ \A j \in Conns : j # k => down'[j] = down[j]
  BY <1>2, <1>3, <1>4
<1>6. \A v \in Wells, j \in Conns : j # k => queue'[<<v, j>>] = queue[<<v, j>>]
  <2> TAKE v \in Wells, j \in Conns
  <2>1. j # k => <<v, j>> # <<w, k>>
    OBVIOUS
  <2> QED BY <1>3, <1>4, <2>1
<1>7. /\ \A i \in DOMAIN q : q[i].from = d + i - 1 /\ q[i].kind = "data" /\ q[i].well = w
      /\ Ends(s, w, d)
  BY <1>2 DEF Whole, SubsWhole, TypeInv
<1>8. d = newest[w] - Len(q) + 1 /\ newest[w] \in Nat
  BY <1>2, <1>4 DEF Due
<1>9. \A v \in Wells, j \in Conns : j # k => DueNext(v, j) = Due(v, j)
  BY <1>1, <1>6 DEF Due, DueNext
<1>10. DueNext(w, k) = newest[w] - Len(t) + 1
  BY <1>1, <1>5 DEF DueNext
<1>11. Adjacent(s) /\ \A g \in Range(s) : g.from > g.to => g.to = 0
  BY DEF Whole, WireWhole
<1>s. s = down[k]
  OBVIOUS
<1>d. d = Due(w, k)
  OBVIOUS
<1> HIDE DEF s, q, d, w
<1>12. /\ t \in Seq(Frames) /\ Len(t) = Len(q) - 1 /\ Len(q) \in Nat
       /\ \A i \in DOMAIN t : i + 1 \in DOMAIN q /\ t[i] = q[i + 1]
       /\ f = q[1] /\ 1 \in DOMAIN q /\ f \in Frames
  BY <1>3, <1>4, TailFacts
<1> HIDE DEF t, f
<1>13. d \in Int /\ DueNext(w, k) = d + 1
  BY <1>8, <1>10, <1>12
<1>14. f.from = d /\ f.to = d /\ f.kind = "data" /\ f.well = w
  <2>1. f.from = d + 1 - 1 /\ f.kind = "data" /\ f.well = w
    BY <1>7, <1>12
  <2>2. f.from = f.to
    BY <1>12, <2>1 DEF Frames
  <2> QED BY <1>13, <2>1, <2>2
<1>15. /\ Range(Append(s, f)) = Range(s) \cup {f} /\ Adjacent(Append(s, f))
       /\ Ends(Append(s, f), w, d + 1)
  <2>1. Range(Append(s, f)) = Range(s) \cup {f}
    BY <1>4, <1>12, RangeFacts
  <2>2. Adjacent(Append(s, f))
    BY <1>4, <1>7, <1>11, <1>12, <1>14, AdjacentFacts
  <2>3. Ends(Append(s, f), w, d + 1)
    BY <1>4, <1>12, <1>14, EndsFacts
  <2> QED BY <2>1, <2>2, <2>3
<1>16. WireWhole'
  <2> SUFFICES ASSUME NEW j \in Conns
               PROVE  Adjacent(down'[j]) /\ \A g \in Range(down'[j]) : g.from > g.to => g.to = 0
    BY DEF WireWhole
  <2>1. CASE j # k
    BY <1>5, <2>1 DEF Whole, WireWhole
  <2>2. CASE j = k
    <3>1. Adjacent(down'[k]) /\ Range(down'[k]) = Range(s) \cup {f}
      BY <1>5, <1>15
    <3>2. ~(f.from > f.to)
      BY <1>13, <1>14
    <3> QED BY <1>11, <2>2, <3>1, <3>2
  <2> QED BY <2>1, <2>2
<1>17. SubsWhole'
  <2> SUFFICES ASSUME NEW v \in Wells, NEW j \in Conns, <<v, j>> \in subs
               PROVE  /\ \A i \in DOMAIN queue'[<<v, j>>] : queue'[<<v, j>>][i].from = DueNext(v, j) + i - 1
                      /\ Ends(down'[j], v, DueNext(v, j))
    BY <1>1 DEF SubsWhole, Due, DueNext
  <2>1. CASE j # k
    <3>1. queue'[<<v, j>>] = queue[<<v, j>>] /\ DueNext(v, j) = Due(v, j) /\ down'[j] = down[j]
      BY <1>5, <1>6, <1>9, <2>1
    <3>2. /\ \A i \in DOMAIN queue[<<v, j>>] : queue[<<v, j>>][i].from = Due(v, j) + i - 1
          /\ Ends(down[j], v, Due(v, j))
      BY DEF Whole, SubsWhole
    <3> QED BY <3>1, <3>2
  <2>2. CASE j = k
    <3>1. v = w /\ queue'[<<v, j>>] = t /\ DueNext(v, j) = d + 1 /\ Ends(down'[j], v, DueNext(v, j))
      BY <1>2, <1>5, <1>13, <1>15, <2>2
    <3>2. ASSUME NEW i \in DOMAIN t PROVE t[i].from = (d + 1) + i - 1
      <4>1. i \in Nat /\ i + 1 \in DOMAIN q /\ t[i].from = d + (i + 1) - 1
        BY <1>7, <1>12
      <4> QED BY <1>13, <4>1
    <3> QED BY <3>1, <3>2
  <2> QED BY <2>1, <2>2
<1>18. ViewMeets'
  <2> SUFFICES ASSUME NEW j \in Conns, sock = j, view # <<>>
               PROVE  /\ Begins(down'[j], wanted, view[Len(view)] + 1)
                      /\ <<wanted, j>> \in subs /\ (\A g \in Range(down'[j]) : g.well # wanted) =>
                             view[Len(view)] + 1 = DueNext(wanted, j)
    BY <1>1 DEF ViewMeets, Due, DueNext
  <2>1. /\ Begins(down[j], wanted, view[Len(view)] + 1)
        /\ <<wanted, j>> \in subs /\ (\A g \in Range(down[j]) : g.well # wanted) =>
               view[Len(view)] + 1 = Due(wanted, j)
    BY DEF Whole, ViewMeets
  <2>2. CASE j = k
    <3> DEFINE n == view[Len(view)] + 1
    <3>1. Begins(s, wanted, n)
      BY <1>s, <2>1, <2>2
    <3>2. f.well = wanted /\ (\A g \in Range(s) : g.well # wanted) => f.from = n
      BY <1>2, <1>d, <1>s, <1>14, <2>1, <2>2
    <3> HIDE DEF n
    <3>3. Begins(Append(s, f), wanted, n)
      BY <1>4, <1>12, <3>1, <3>2, BeginsFacts
    <3>4. <<wanted, k>> \in subs => f.well = wanted /\ f \in Range(down'[k])
      BY <1>2, <1>4, <1>5, <1>14, <1>15
    <3> QED BY <1>5, <2>2, <3>3, <3>4 DEF n
  <2>3. CASE j # k
    <3>1. down'[j] = down[j] /\ DueNext(wanted, j) = Due(wanted, j)
      BY <1>4, <1>5, <1>9, <2>3
    <3> QED BY <2>1, <3>1
  <2> QED BY <2>2, <2>3
<1> QED BY <1>1, <1>16, <1>17, <1>18 DEF Whole

\* The frame delivered meets what the view shows, or replaces it, and is met by
\* what follows; the order rules out an empty snapshot after a sample.
LEMMA DeliverWhole ==
    ASSUME TypeInv, HubInv, InOrder, Whole, Deliver
    PROVE  Whole'
<1> DEFINE s == down[sock]
           t == Tail(s)
           f == Head(s)
<1>1. UNCHANGED <<oldest, newest, subs, queue, sock, wanted>>
  BY DEF Deliver, store
<1>2. /\ sock # None /\ s # <<>> /\ down' = [down EXCEPT ![sock] = t]
      /\ view' = IF f.well = wanted THEN Shown(f) ELSE view
  BY DEF Deliver
<1>3. /\ down \in [Conns -> Seq(Frames)] /\ wanted \in Wells /\ view \in Seq(Nat)
      /\ sock \in Conns
  BY <1>2 DEF TypeInv, TypeOK
<1>4. /\ s \in Seq(Frames) /\ Adjacent(s)
      /\ \A g \in Range(s) : g.from > g.to => g.to = 0
      /\ \A n \in Range(view) : \A g \in Range(s) : g.well = wanted => Follows(n, g)
      /\ \A w \in Wells : <<w, sock>> \in subs => Ends(s, w, Due(w, sock))
      /\ view # <<>> => Begins(s, wanted, view[Len(view)] + 1)
      /\ view # <<>> /\ <<wanted, sock>> \in subs /\ (\A g \in Range(s) : g.well # wanted) =>
             view[Len(view)] + 1 = Due(wanted, sock)
  <2>1. s \in Seq(Frames) /\ Adjacent(s) /\ \A g \in Range(s) : g.from > g.to => g.to = 0
    BY <1>3 DEF Whole, WireWhole
  <2>2. \A n \in Range(view) : \A g \in Range(s) : g.well = wanted => Follows(n, g)
    BY <1>3 DEF InOrder, AllAfterView
  <2>3. \A w \in Wells : <<w, sock>> \in subs => Ends(s, w, Due(w, sock))
    BY <1>3 DEF Whole, SubsWhole
  <2>4. /\ view # <<>> => Begins(s, wanted, view[Len(view)] + 1)
        /\ view # <<>> /\ <<wanted, sock>> \in subs /\ (\A g \in Range(s) : g.well # wanted) =>
               view[Len(view)] + 1 = Due(wanted, sock)
    BY <1>3 DEF Whole, ViewMeets
  <2> QED BY <2>1, <2>2, <2>3, <2>4
<1>5. down'[sock] = t /\ \A k \in Conns : k # sock => down'[k] = down[k]
  BY <1>2, <1>3
<1> HIDE DEF s
<1>6. /\ f \in Range(s) /\ f \in Frames /\ Range(t) \subseteq Range(s)
      /\ Adjacent(t) /\ Begins(t, f.well, f.to + 1)
      /\ \A g \in Range(s) : g = f \/ g \in Range(t)
  <2>1. f \in Range(s) /\ f \in Frames /\ Range(t) \subseteq Range(s)
    BY <1>2, <1>4, RangeFacts
  <2>2. Adjacent(t) /\ Begins(t, f.well, f.to + 1)
    BY <1>2, <1>4, AdjacentFacts
  <2>3. ASSUME NEW g \in Range(s) PROVE g = f \/ g \in Range(t)
    <3>1. PICK i \in DOMAIN s : g = s[i]
      BY DEF Range
    <3>2. /\ f = s[1] /\ Len(t) = Len(s) - 1 /\ t \in Seq(Frames)
          /\ \A j \in DOMAIN t : t[j] = s[j + 1]
      BY <1>2, <1>4, TailFacts
    <3>3. i \in Nat /\ (i # 1 => i - 1 \in DOMAIN t /\ (i - 1) + 1 = i)
      BY <1>4, <3>2
    <3>4. i # 1 => t[i - 1] = g
      BY <3>1, <3>2, <3>3
    <3> QED BY <3>1, <3>2, <3>3, <3>4 DEF Range
  <2> QED BY <2>1, <2>2, <2>3
<1>7. \A w \in Wells : <<w, sock>> \in subs =>
          /\ Ends(t, w, Due(w, sock))
          /\ f.well = w /\ (\A g \in Range(t) : g.well # w) => f.to + 1 = Due(w, sock)
  BY <1>2, <1>4, EndsFacts
<1> HIDE DEF t, f
<1>8. WireWhole'
  <2> SUFFICES ASSUME NEW j \in Conns
               PROVE  Adjacent(down'[j]) /\ \A g \in Range(down'[j]) : g.from > g.to => g.to = 0
    BY DEF WireWhole
  <2>1. CASE j # sock
    BY <1>5, <2>1 DEF Whole, WireWhole
  <2>2. CASE j = sock
    BY <1>4, <1>5, <1>6, <2>2
  <2> QED BY <2>1, <2>2
<1>9. SubsWhole'
  <2> SUFFICES ASSUME NEW w \in Wells, NEW k \in Conns, <<w, k>> \in subs
               PROVE  /\ \A i \in DOMAIN queue[<<w, k>>] : queue[<<w, k>>][i].from = Due(w, k) + i - 1
                      /\ Ends(down'[k], w, Due(w, k))
    BY <1>1 DEF SubsWhole, Due
  <2>1. /\ \A i \in DOMAIN queue[<<w, k>>] : queue[<<w, k>>][i].from = Due(w, k) + i - 1
        /\ Ends(down[k], w, Due(w, k))
    BY DEF Whole, SubsWhole
  <2> QED BY <1>5, <1>7, <2>1
<1>10. SUFFICES /\ Contiguous(view')
                /\ view' # <<>> =>
                       /\ Begins(t, wanted, view'[Len(view')] + 1)
                       /\ <<wanted, sock>> \in subs /\ (\A g \in Range(t) : g.well # wanted) =>
                              view'[Len(view')] + 1 = Due(wanted, sock)
  <2>1. ViewMeets'
    BY <1>1, <1>5, <1>10 DEF ViewMeets, Due
  <2> QED BY <1>1, <1>8, <1>9, <1>10, <2>1 DEF Whole
<1>11. CASE f.well # wanted
  <2>1. view' = view
    BY <1>2, <1>11
  <2>2. view # <<>> => Begins(t, wanted, view[Len(view)] + 1)
    <3> DEFINE n == view[Len(view)] + 1
    <3> HIDE DEF n
    <3>1. view # <<>> => Begins(s, wanted, n)
      BY <1>4 DEF n
    <3>2. view # <<>> => Begins(t, wanted, n)
      BY <1>2, <1>4, <1>11, <3>1, BeginsFacts DEF t, f
    <3> QED BY <3>2 DEF n
  <2>3. (\A g \in Range(t) : g.well # wanted) => (\A g \in Range(s) : g.well # wanted)
    BY <1>6, <1>11
  <2> QED BY <1>4, <2>1, <2>2, <2>3 DEF Whole
<1>12. CASE f.well = wanted
  <2>1. view' = Shown(f)
    BY <1>2, <1>12
  <2>2. f.from \in Nat /\ f.to \in Nat
    BY <1>6 DEF Frames
  <2>3. CASE f.from > f.to
    <3>1. f.to = 0
      BY <1>4, <1>6, <2>3
    <3>2. view = <<>>
      <4> SUFFICES ASSUME view # <<>> PROVE FALSE
        OBVIOUS
      <4>1. 1 \in DOMAIN view /\ view[1] \in Nat
        BY <1>3
      <4>2. view[1] >= 1 /\ view[1] \in Range(view)
        BY <4>1 DEF Whole, Contiguous, Range
      <4>3. view[1] =< f.to
        BY <1>4, <1>6, <1>12, <4>2 DEF Follows
      <4> QED BY <3>1, <4>1, <4>2, <4>3
    <3>3. view' = <<>>
      BY <1>6, <2>1, <2>3, <3>2, ShownNothing
    <3> QED BY <3>3 DEF Contiguous
  <2>4. CASE f.from =< f.to
    <3>1. f.kind = "data" /\ view # <<>> => f.from = view[Len(view)] + 1
      <4> DEFINE n == view[Len(view)] + 1
      <4> HIDE DEF n
      <4>1. view # <<>> => Begins(s, wanted, n)
        BY <1>4 DEF n
      <4>2. f.kind = "data" /\ view # <<>> => f.from = n
        BY <1>2, <1>4, <1>12, <4>1, BeginsFacts DEF f
      <4> QED BY <4>2 DEF n
    <3>2. Shown(f) # <<>> /\ Shown(f)[Len(Shown(f))] = f.to /\ Contiguous(Shown(f))
      BY <1>3, <1>6, <2>4, <3>1, ShownContiguous DEF Whole
    <3>3. view' # <<>> /\ view'[Len(view')] = f.to /\ Contiguous(view')
      BY <2>1, <3>2
    <3> QED BY <1>3, <1>6, <1>7, <1>12, <3>3
  <2> QED BY <2>2, <2>3, <2>4
<1> QED BY <1>11, <1>12

\* Nothing has been read at the start.
LEMMA InitGap == Init => GapInv
<1> SUFFICES ASSUME Init PROVE Whole /\ ~reread
  BY DEF GapInv
<1>0. Range(<<>>) = {} /\ Adjacent(<<>>) /\ Contiguous(<<>>)
  BY DEF Range, Adjacent, Contiguous
<1>1. ~reread /\ view = <<>> /\ subs = {} /\ \A k \in Conns : down[k] = <<>>
  BY DEF Init
<1>2. \A w \in Wells : oldest[w] = 0
  BY DEF Init
<1> QED BY <1>0, <1>1, <1>2 DEF Whole, WireWhole, SubsWhole, ViewMeets

\* Every step keeps the view whole, until a queue overflows or the API restarts.
LEMMA GapInvInductive ==
    ASSUME TypeInv, TypeInv', HubInv, OrderInv, GapInv, [Next]_vars
    PROVE  GapInv'
<1>0. /\ down \in [Conns -> Seq(Frames)] /\ link \in [Conns -> {"free", "open", "gone"}]
      /\ sock \in Conns \cup {None} /\ None \notin Conns /\ None \notin Wells /\ wanted' \in Wells
      /\ lossy \in BOOLEAN /\ reread \in BOOLEAN
  BY StreamConstants DEF TypeInv, TypeOK
<1>1. (reread' => lossy') /\ (~lossy' => ~lossy /\ ~Restart)
  <2>1. ASSUME NEW k \in Conns, Handler(k) \/ Open(k) PROVE UNCHANGED <<reread, lossy>>
    BY <2>1 DEF Handler, ReceiveSubscribe, ReceiveUnsubscribe, SnapshotSent, DrainOne, Disconnect, Open
  <2>2. ASSUME NEW w \in Wells, ViewWell(w) \/ SwitchWell(w) PROVE UNCHANGED <<reread, lossy>>
    BY <2>2 DEF ViewWell, SwitchWell
  <2>3. ASSUME NEW w \in Wells, Ingest(w) PROVE reread' = reread /\ (lossy => lossy')
    BY <2>3 DEF Ingest
  <2>4. ASSUME Restart PROVE lossy'
    BY <2>4 DEF Restart
  <2>5. ASSUME Deliver \/ LoseConnection \/ UNCHANGED vars PROVE UNCHANGED <<reread, lossy>>
    BY <2>5 DEF Deliver, LoseConnection, vars
  <2> QED BY <1>0, <2>1, <2>2, <2>3, <2>4, <2>5 DEF Next, GapInv
<1>2. SUFFICES ASSUME ~lossy' PROVE Whole'
  BY <1>1 DEF GapInv
<1>3. Whole /\ InOrder /\ ~Restart
  BY <1>1, <1>2 DEF GapInv, OrderInv
<1>4. ASSUME NEW k \in Conns, ReceiveUnsubscribe(k) \/ Disconnect(k) PROVE Whole'
  <2>1. UNCHANGED <<oldest, newest, down, sock, wanted, view>> /\ subs' \subseteq subs
    BY <1>4 DEF ReceiveUnsubscribe, Disconnect, client, Released
  <2>2. \A w \in Wells, j \in Conns : <<w, j>> \in subs' => queue'[<<w, j>>] = queue[<<w, j>>]
    BY <1>4 DEF ReceiveUnsubscribe, Disconnect, Kept
  <2> QED BY <1>0, <1>3, <2>1, <2>2, WholeShrinks
<1>5. ASSUME NEW k \in Conns, SnapshotSent(k) PROVE Whole'
  <2>1. UNCHANGED <<oldest, newest, subs, queue, down, sock, wanted, view>>
    BY <1>5 DEF SnapshotSent, store, net, client
  <2> QED BY <1>0, <1>3, <2>1, WholeShrinks
<1>6. ASSUME NEW k \in Conns, Open(k) PROVE Whole'
  <2>1. UNCHANGED <<oldest, newest, subs, queue, down, wanted, view>> /\ sock = None /\ sock' = k /\ link[k] = "free"
    BY <1>6 DEF Open, store
  <2>2. down[k] = <<>> /\ current[k] = None
    BY <1>0, <2>1 DEF HubInv
  <2>3. <<wanted, k>> \notin subs
    BY <1>0, <2>1, <2>2 DEF HubInv
  <2> QED BY <1>0, <1>3, <2>1, <2>2, <2>3, WholeShrinks
<1>7. ASSUME Abandon(sock), UNCHANGED <<oldest, newest, subs, queue>>,
             view' = <<>> \/ UNCHANGED <<view, wanted>>
      PROVE  Whole'
  <2>1. sock' = None /\ \A k \in Conns : down'[k] \in {down[k], <<>>}
    BY <1>0, <1>7 DEF Abandon
  <2> QED BY <1>0, <1>3, <1>7, <2>1, WholeShrinks
<1>8. CASE LoseConnection
  BY <1>7, <1>8 DEF LoseConnection, store
<1>9. ASSUME NEW w \in Wells, ViewWell(w) \/ SwitchWell(w) PROVE Whole'
  <2>1. UNCHANGED <<oldest, newest, subs, queue>> /\ view' = <<>>
    BY <1>9 DEF ViewWell, SwitchWell, store
  <2>2. CASE Abandon(sock)
    BY <1>7, <2>1, <2>2
  <2>3. CASE UNCHANGED <<down, sock>>
    BY <1>0, <1>3, <2>1, <2>3, WholeShrinks
  <2> QED BY <1>9, <2>2, <2>3 DEF ViewWell, SwitchWell
<1>10. CASE UNCHANGED vars
  <2>1. UNCHANGED <<oldest, newest, subs, queue, down, sock, wanted, view>>
    BY <1>10 DEF vars, store, net, client
  <2> QED BY <1>0, <1>3, <2>1, WholeShrinks
<1> QED BY <1>2, <1>3, <1>4, <1>5, <1>6, <1>8, <1>9, <1>10,
           IngestWhole, SubscribeWhole, DrainWhole, DeliverWhole DEF Next, Handler

\* The view has no hole until a subscriber queue overflows or the API restarts:
\* through reconnects and switches, the snapshot and the deltas that follow it
\* meet exactly.
THEOREM ViewStaysWhole == Spec => []ViewHasNoGaps
<1>1. Spec => [](TypeInv /\ HubInv /\ OrderInv /\ GapInv)
  BY InitType, TypeInvInductive, InitHub, HubInvInductive, InitOrder, OrderInvInductive,
     InitGap, GapInvInductive, PTL DEF Spec
<1>2. TypeInv /\ GapInv => ViewHasNoGaps
  <2> SUFFICES ASSUME TypeInv, Contiguous(view), NEW n \in 1..(Len(view) - 1)
               PROVE  view[n + 1] = view[n] + 1
    BY DEF GapInv, Whole, ViewHasNoGaps
  <2>1. view \in Seq(Nat)
    BY DEF TypeInv
  <2>2. n \in DOMAIN view /\ n + 1 \in DOMAIN view
    BY <2>1
  <2> QED BY <2>2 DEF Contiguous
<1> QED BY <1>1, <1>2, PTL
=============================================================================
