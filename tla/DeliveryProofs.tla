--------------------------- MODULE DeliveryProofs ---------------------------
(***************************************************************************)
(* Theorems about Delivery, for any capacities, any number of events,      *)
(* mounts, requests and failures.                                          *)
(***************************************************************************)
EXTENDS Delivery, WellFoundedInduction, TLAPS

\* The events that are stored or for which a property makes an exception, and
\* the absences among them whose end is.
Safe == {e \in Events : row[e] # "none"} \cup givenUp \cup overwritten
Over == {e \in Events : row[e] = "ended"} \cup givenUp \cup overwritten

Pushes == [type : {"hidden", "returned", "blur"}, closes : {0} \cup Events]
QueueStates == [mode : {"none", "running", "stopped", "dead"}, events : Seq(Nat), sending : BOOLEAN]
Requests == [at : {"load", "close", "create", "answer"}, status : {"ok", "refused", "failed"},
             batch : Seq(Nat), left : Nat]

Typed ==
  /\ event \in Seq(Pushes) /\ Len(event) <= MaxEvents
  /\ row \in [Events -> {"none", "open", "ended"}]
  /\ givenUp \subseteq Events /\ overwritten \subseteq Events

Increasing(s) == \A i, j \in 1 .. Len(s) : i < j => s[i] < s[j]

\* A part of the n events in their order, in which an event is missing before
\* another one only if it is safe.
Sound(s, safe, n) ==
  /\ s \in Seq(Nat) /\ Increasing(s) /\ Range(s) \subseteq 1 .. n
  /\ \A e \in Range(s) : 1 .. e \subseteq Range(s) \cup safe

\* What a request has passed in its batch is safe, and before it stores a
\* return, the absence is over.
RequestOK(r, safe, over, ev) ==
  /\ Sound(r.batch, safe, Len(ev)) /\ r.batch # <<>>
  /\ r.at = "load" => r.left = Len(r.batch)
  /\ r.at \in {"close", "create"} =>
       /\ r.left \in 1 .. Len(r.batch)
       /\ \A i \in 1 .. Len(r.batch) - r.left : r.batch[i] \in safe
       /\ r.at = "create" => ev[r.batch[Len(r.batch) - r.left + 1]].closes \in {0} \cup over
  /\ r.at = "answer" /\ r.status = "ok" => Range(r.batch) \subseteq safe

RequestsOK(rq, safe, over, ev) ==
  /\ rq \in [Slots -> Requests \cup {Free}]
  /\ \A s \in Slots : rq[s] # Free => RequestOK(rq[s], safe, over, ev)

\* One room is open at a time.
QueuesOK(qs, safe, n) ==
  /\ qs \in [Queues -> QueueStates]
  /\ \A q \in Queues : Sound(qs[q].events, safe, n)
  /\ \A p, q \in Queues : qs[p].mode = "running" /\ qs[q].mode = "running" => p = q

\* An absence is over before the next one begins.
EventsOK(ev, open) ==
  /\ open \in 0 .. Len(ev)
  /\ \A e \in 1 .. Len(ev) : ev[e].closes \in 0 .. e - 1
  /\ \A g \in 1 .. Len(ev) : ev[g].type = "hidden" =>
       /\ g = open \/ \E e \in 1 .. Len(ev) : ev[e].closes = g
       /\ \A h \in g + 1 .. Len(ev) : ev[h].type = "hidden" => \E e \in 1 .. h : ev[e].closes = g

\* Rows are stored in the order of the events, but for those given up.
RowsOK(r, safe, over, ev) ==
  \A e \in Events : r[e] # "none" =>
    e \in 1 .. Len(ev) /\ 1 .. e \subseteq safe /\ ev[e].closes \in {0} \cup over

\* What is not safe is in the storage, and what is in the storage is in the
\* queue of the room that is open.
Stored ==
  /\ \A e \in 1 .. Len(event) : e \in Safe \cup Range(storage)
  /\ \A q \in Queues : Running(q) => Range(storage) \subseteq Range(queue[q].events) \cup Safe

Inductive ==
  /\ Typed
  /\ QueuesOK(queue, Safe, Len(event))
  /\ RequestsOK(request, Safe, Over, event)
  /\ Sound(storage, Safe, Len(event)) /\ Stored
  /\ EventsOK(event, openHidden)
  /\ RowsOK(row, Safe, Over, event)

-----------------------------------------------------------------------------
(* Sequences of events                                                     *)

LEMMA Constants ==
  /\ Keep \in Nat /\ Keep >= 1 /\ Batch \in Nat /\ Batch >= 1 /\ FlushAt \in Nat /\ FlushAt >= 1
  /\ MaxEvents \in Nat /\ MaxQueues \in Nat
  /\ \A s \in Loose : s \notin Queues
  BY DeliveryAssumption DEF Queues

LEMMA RangeOf ==
  ASSUME NEW s \in Seq(Nat)
  PROVE  /\ \A i \in 1 .. Len(s) : s[i] \in Range(s)
         /\ \A e \in Range(s) : e \in Nat /\ \E i \in 1 .. Len(s) : s[i] = e
         /\ s = <<>> <=> Len(s) = 0
  BY DEF Range

LEMMA SoundGrows ==
  ASSUME NEW s, NEW safe, NEW safe2, NEW n \in Nat, NEW m \in Nat, Sound(s, safe, n), safe \subseteq safe2, n <= m
  PROVE  Sound(s, safe2, m)
  BY DEF Sound

LEMMA SoundEmpty ==
  ASSUME NEW safe, NEW n \in Nat
  PROVE  Sound(<<>>, safe, n) /\ Range(<<>>) = {}
  BY DEF Sound, Increasing, Range

LEMMA SoundAppend ==
  ASSUME NEW s, NEW safe, NEW n \in Nat, Sound(s, safe, n), 1 .. n \subseteq Range(s) \cup safe
  PROVE  /\ Sound(Append(s, n + 1), safe, n + 1)
         /\ Range(Append(s, n + 1)) = Range(s) \cup {n + 1}
         /\ Append(s, n + 1) # <<>>
<1> DEFINE t == Append(s, n + 1)
<1>1. s \in Seq(Nat) /\ n + 1 \in Nat
  BY DEF Sound
<1>2. t \in Seq(Nat) /\ Len(t) = Len(s) + 1 /\ t # <<>> /\ Len(s) \in Nat
  BY <1>1
<1>3. \A i \in 1 .. Len(t) : t[i] = IF i <= Len(s) THEN s[i] ELSE n + 1
  BY <1>1, <1>2
<1> HIDE DEF t
<1>4. Range(t) = Range(s) \cup {n + 1}
  <2>1. ASSUME NEW e \in Range(t) PROVE e \in Range(s) \cup {n + 1}
    <3>1. PICK i \in 1 .. Len(t) : t[i] = e
      BY <1>2, RangeOf
    <3>2. CASE i <= Len(s)
      <4>1. i \in 1 .. Len(s) /\ s[i] = e
        BY <1>2, <1>3, <3>1, <3>2
      <4> QED
        BY <1>1, <4>1, RangeOf
    <3>3. CASE ~ (i <= Len(s))
      BY <1>3, <3>1, <3>3
    <3> QED
      BY <3>2, <3>3
  <2>2. ASSUME NEW e \in Range(s) PROVE e \in Range(t)
    <3>1. PICK i \in 1 .. Len(s) : s[i] = e
      BY <1>1, RangeOf
    <3>2. i \in 1 .. Len(t) /\ t[i] = e
      BY <1>2, <1>3, <3>1
    <3> QED
      BY <1>2, <3>2, RangeOf
  <2>3. n + 1 \in Range(t)
    <3>1. Len(t) \in 1 .. Len(t) /\ t[Len(t)] = n + 1
      BY <1>2, <1>3
    <3> QED
      BY <1>2, <3>1, RangeOf
  <2> QED
    BY <2>1, <2>2, <2>3
<1>5. \A i \in 1 .. Len(s) : s[i] \in 1 .. n
  BY <1>1, RangeOf DEF Sound
<1>6. Increasing(t)
  <2>1. ASSUME NEW i \in 1 .. Len(t), NEW j \in 1 .. Len(t), i < j PROVE t[i] < t[j]
    <3>1. i \in 1 .. Len(s) /\ t[i] = s[i] /\ s[i] \in 1 .. n
      BY <1>2, <1>3, <1>5, <2>1
    <3>2. CASE j <= Len(s)
      <4>1. j \in 1 .. Len(s) /\ t[j] = s[j]
        BY <1>2, <1>3, <3>2
      <4> QED
        BY <2>1, <3>1, <4>1 DEF Sound, Increasing
    <3>3. CASE j > Len(s)
      <4>1. t[j] = n + 1
        BY <1>2, <1>3, <3>3
      <4> QED
        BY <3>1, <4>1
    <3> QED
      BY <1>2, <3>2, <3>3
  <2> QED
    BY <2>1 DEF Increasing
<1>7. ASSUME NEW e \in Range(t) PROVE 1 .. e \subseteq Range(t) \cup safe
  <2>1. CASE e \in Range(s)
    BY <1>4, <2>1 DEF Sound
  <2>2. CASE e = n + 1
    BY <1>4, <2>2
  <2> QED
    BY <1>4, <2>1, <2>2
<1>8. Range(t) \subseteq 1 .. n + 1
  BY <1>4 DEF Sound
<1> QED
  BY <1>2, <1>4, <1>6, <1>7, <1>8 DEF t, Sound

\* What is cut from the storage is given up.
LEMMA SoundLatest ==
  ASSUME NEW s, NEW safe, NEW n \in Nat, Sound(s, safe, n), Range(s) \ Range(Latest(s)) \subseteq safe
  PROVE  Sound(Latest(s), safe, n) /\ Range(Latest(s)) \subseteq Range(s)
<1> DEFINE t == Latest(s)
           k == IF Len(s) > Keep THEN Len(s) - Keep ELSE 0
<1>1. s \in Seq(Nat) /\ Len(s) \in Nat /\ Keep \in Nat /\ k \in 0 .. Len(s)
  BY Constants DEF Sound
<1>2. /\ t \in Seq(Nat) /\ Len(t) = Len(s) - k
      /\ \A i \in 1 .. Len(t) : t[i] = s[k + i] /\ k + i \in 1 .. Len(s)
  <2>1. t = SubSeq(s, k + 1, Len(s))
    BY DEF Latest
  <2> HIDE DEF t, k
  <2> QED
    BY <1>1, <2>1
<1> HIDE DEF t, k
<1>3. Range(t) \subseteq Range(s)
  BY <1>1, <1>2, RangeOf
<1>4. Increasing(t)
  <2>1. ASSUME NEW i \in 1 .. Len(t), NEW j \in 1 .. Len(t), i < j PROVE t[i] < t[j]
    <3>1. /\ t[i] = s[k + i] /\ t[j] = s[k + j] /\ k + i < k + j
          /\ k + i \in 1 .. Len(s) /\ k + j \in 1 .. Len(s)
      BY <1>1, <1>2, <2>1
    <3> QED
      BY <3>1 DEF Sound, Increasing
  <2> QED
    BY <2>1 DEF Increasing
<1> QED
  BY <1>2, <1>3, <1>4 DEF Sound, t

\* The first events of a queue, as a request takes them.
LEMMA SoundFirst ==
  ASSUME NEW s, NEW safe, NEW n \in Nat, Sound(s, safe, n), s # <<>>
  PROVE  /\ Sound(First(s), safe, n) /\ First(s) # <<>>
         /\ First(s) \in Seq(Nat) /\ Len(First(s)) \in Nat /\ Len(First(s)) >= 1
<1> DEFINE t == First(s)
           k == IF Len(s) < Batch THEN Len(s) ELSE Batch
<1>1. s \in Seq(Nat) /\ Len(s) \in Nat /\ Len(s) >= 1 /\ k \in 1 .. Len(s)
  <2>1. s \in Seq(Nat)
    BY DEF Sound
  <2>2. Len(s) \in Nat /\ Len(s) >= 1
    BY <2>1
  <2> QED
    BY <2>1, <2>2, Constants
<1>2. t \in Seq(Nat) /\ Len(t) = k /\ \A i \in 1 .. k : t[i] = s[i]
  <2>1. t = SubSeq(s, 1, k)
    BY DEF First
  <2> HIDE DEF t, k
  <2> QED
    BY <1>1, <2>1
<1> HIDE DEF t, k
<1>3. Range(t) \subseteq Range(s)
  <2>1. ASSUME NEW e \in Range(t) PROVE e \in Range(s)
    <3>1. PICK i \in 1 .. Len(t) : t[i] = e
      BY <1>2, RangeOf
    <3>2. i \in 1 .. Len(s) /\ s[i] = e
      BY <1>1, <1>2, <3>1
    <3> QED
      BY <1>1, <3>2, RangeOf
  <2> QED
    BY <2>1
<1>4. Increasing(t)
  <2>1. ASSUME NEW i \in 1 .. Len(t), NEW j \in 1 .. Len(t), i < j PROVE t[i] < t[j]
    <3>1. i \in 1 .. Len(s) /\ j \in 1 .. Len(s) /\ t[i] = s[i] /\ t[j] = s[j]
      BY <1>1, <1>2
    <3> QED
      BY <2>1, <3>1 DEF Sound, Increasing
  <2> QED
    BY <2>1 DEF Increasing
<1>5. ASSUME NEW e \in Range(t), NEW g \in 1 .. e PROVE g \in Range(t) \cup safe
  <2>1. PICK i \in 1 .. k : s[i] = e
    BY <1>2, RangeOf
  <2>2. CASE g \in Range(s)
    <3>1. PICK j \in 1 .. Len(s) : s[j] = g
      BY <1>1, <2>2, RangeOf
    <3>2. i \in 1 .. Len(s) /\ i \in Nat /\ j \in Nat /\ s[i] \in Nat /\ s[j] \in Nat /\ ~ (s[i] < s[j])
      BY <1>1, <2>1, <3>1
    <3>3. ~ (i < j)
      BY <3>1, <3>2 DEF Sound, Increasing
    <3>4. j \in 1 .. Len(t) /\ t[j] = g
      BY <1>1, <1>2, <3>1, <3>2, <3>3
    <3> QED
      BY <1>2, <3>4, RangeOf
  <2> QED
    BY <1>3, <2>2 DEF Sound
<1>6. t # <<>> /\ Len(t) \in Nat /\ Len(t) >= 1
  BY <1>1, <1>2
<1> QED
  BY <1>2, <1>3, <1>4, <1>5, <1>6 DEF Sound, t
-----------------------------------------------------------------------------
(* The filter.  A recursive function is what its equation says by the least *)
(* number for which it would not be.                                       *)

LEMMA Least ==
  ASSUME NEW T, T \subseteq Nat, T # {}
  PROVE  \E x \in T : \A y \in T : x <= y
<1> DEFINE R == {ss \in Nat \X Nat : ss[1] < ss[2]}
<1>1. OpToRel(<, Nat) = R
  BY Zenon DEF OpToRel
<1>2. IsWellFoundedOn(R, Nat)
  BY Zenon, <1>1, NatLessThanWellFounded
<1>3. \A x, y \in Nat : <<y, x>> \in R <=> y < x
  OBVIOUS
<1> HIDE DEF R
<1>4. PICK x \in T : \A y \in T : ~ (<<y, x>> \in R)
  BY <1>2, WFMin
<1>5. ASSUME NEW y \in T PROVE x <= y
  <2>1. x \in Nat /\ y \in Nat /\ ~ (y < x)
    BY <1>3, <1>4
  <2> QED
    BY <2>1
<1> QED
  BY <1>5

\* The equation up to m.
Keeps(f, s, batch, m) ==
  \A n \in 0 .. m :
    f[n] = IF n = 0 THEN <<>>
           ELSE IF s[n] \in Range(batch) THEN f[n - 1] ELSE Append(f[n - 1], s[n])

LEMMA KeepsExists ==
  ASSUME NEW s, Len(s) \in Nat, NEW batch
  PROVE  \E f : Keeps(f, s, batch, Len(s))
<1> DEFINE T == {m \in 0 .. Len(s) : ~ \E f : Keeps(f, s, batch, m)}
<1> SUFFICES ASSUME T # {} PROVE FALSE
  OBVIOUS
<1>1. PICK m \in T : \A y \in T : m <= y
  <2>1. T \subseteq Nat
    OBVIOUS
  <2> HIDE DEF T
  <2> QED
    BY <2>1, Least
<1>2. CASE m = 0
  <2>1. Keeps([n \in {0} |-> <<>>], s, batch, m)
    BY <1>2 DEF Keeps
  <2> QED
    BY <2>1
<1>3. CASE m # 0
  <2>1. m - 1 \in 0 .. Len(s) /\ m - 1 \notin T
    BY <1>1, <1>3
  <2>2. PICK f : Keeps(f, s, batch, m - 1)
    BY <2>1
  <2>3. Keeps([n \in 0 .. m |-> IF n = m THEN (IF s[m] \in Range(batch) THEN f[m - 1] ELSE Append(f[m - 1], s[m]))
                                ELSE f[n]], s, batch, m)
    BY <1>3, <2>2 DEF Keeps
  <2> QED
    BY <2>3
<1> QED
  BY <1>2, <1>3

LEMMA WithoutKeeps ==
  ASSUME NEW s \in Seq(Nat), NEW batch
  PROVE  \E f : Keeps(f, s, batch, Len(s)) /\ Without(s, batch) = f[Len(s)]
<1> DEFINE Body(f) == [n \in 0 .. Len(s) |-> IF n = 0 THEN <<>>
                                             ELSE IF s[n] \in Range(batch) THEN f[n - 1] ELSE Append(f[n - 1], s[n])]
           kept == CHOOSE f : f = Body(f)
<1>1. \E f : f = Body(f)
  <2>1. PICK f : Keeps(f, s, batch, Len(s))
    BY KeepsExists
  <2>2. \A n \in 0 .. Len(s) : Body(f)[n] = f[n]
    BY <2>1 DEF Keeps
  <2>3. \A n \in 0 .. Len(s) : Body(Body(f))[n] = Body(f)[n]
    BY <2>2
  <2>4. Body(f) = Body(Body(f))
    BY <2>3
  <2> QED
    BY <2>4
<1>2. kept = Body(kept)
  <2> HIDE DEF Body
  <2> QED
    BY <1>1
<1>3. Without(s, batch) = kept[Len(s)]
  BY DEF Without
<1>4. Keeps(kept, s, batch, Len(s))
  BY <1>2 DEF Keeps
<1> QED
  BY <1>3, <1>4

\* What the filter returns: the events that are not in the batch, in their order.
LEMMA WithoutRange ==
  ASSUME NEW s \in Seq(Nat), Increasing(s), NEW batch
  PROVE  /\ Without(s, batch) \in Seq(Nat) /\ Increasing(Without(s, batch))
         /\ Range(Without(s, batch)) = Range(s) \ Range(batch)
<1>1. PICK f : Keeps(f, s, batch, Len(s)) /\ Without(s, batch) = f[Len(s)]
  BY WithoutKeeps
<1> DEFINE Upto(n) == {s[i] : i \in 1 .. n}
           Right(n) == f[n] \in Seq(Nat) /\ Increasing(f[n]) /\ Range(f[n]) = Upto(n) \ Range(batch)
           T == {n \in 0 .. Len(s) : ~ Right(n)}
<1>2. Right(0)
  <2>1. f[0] = <<>>
    BY <1>1 DEF Keeps
  <2> QED
    BY <2>1, SoundEmpty DEF Sound
<1>3. ASSUME NEW n \in 1 .. Len(s), Right(n - 1) PROVE Right(n)
  <2>1. f[n] = IF s[n] \in Range(batch) THEN f[n - 1] ELSE Append(f[n - 1], s[n])
    BY <1>1, <1>3 DEF Keeps
  <2>2. Upto(n) = Upto(n - 1) \cup {s[n]} /\ s[n] \in Nat
    <3>1. 1 .. n = (1 .. n - 1) \cup {n}
      OBVIOUS
    <3> QED
      BY <3>1
  <2>3. \A e \in Upto(n - 1) : e \in Nat /\ e < s[n]
    BY <1>3 DEF Increasing
  <2> HIDE DEF Upto
  <2>4. CASE s[n] \in Range(batch)
    BY <1>3, <2>1, <2>2, <2>4
  <2>5. CASE s[n] \notin Range(batch)
    <3> DEFINE u == f[n - 1]
               t == Append(u, s[n])
    <3>1. u \in Seq(Nat) /\ Increasing(u) /\ Range(u) = Upto(n - 1) \ Range(batch)
      BY <1>3
    <3> HIDE DEF u
    <3>2. /\ t \in Seq(Nat) /\ Len(t) = Len(u) + 1 /\ Len(u) \in Nat
          /\ \A i \in 1 .. Len(t) : t[i] = IF i <= Len(u) THEN u[i] ELSE s[n]
      BY <2>2, <3>1
    <3> HIDE DEF t
    <3>3. \A i \in 1 .. Len(u) : u[i] \in Nat /\ u[i] < s[n]
      BY <2>3, <3>1, RangeOf
    <3>4. Increasing(t)
      <4>1. ASSUME NEW i \in 1 .. Len(t), NEW j \in 1 .. Len(t), i < j PROVE t[i] < t[j]
        <5>1. i \in 1 .. Len(u) /\ t[i] = u[i]
          BY <3>2, <4>1
        <5>2. CASE j \in 1 .. Len(u)
          <6>1. t[j] = u[j]
            BY <3>2, <4>1, <5>2
          <6> QED
            BY <3>1, <4>1, <5>1, <5>2, <6>1 DEF Increasing
        <5>3. CASE j \notin 1 .. Len(u)
          <6>1. t[j] = s[n]
            BY <3>2, <4>1, <5>3
          <6> QED
            BY <3>3, <5>1, <6>1
        <5> QED
          BY <5>2, <5>3
      <4> QED
        BY <4>1 DEF Increasing
    <3>5. Range(t) = Range(u) \cup {s[n]}
      <4>1. ASSUME NEW e \in Range(t) PROVE e \in Range(u) \cup {s[n]}
        <5>1. PICK i \in 1 .. Len(t) : t[i] = e
          BY <3>2, RangeOf
        <5>2. CASE i \in 1 .. Len(u)
          BY <3>1, <3>2, <5>1, <5>2, RangeOf
        <5>3. CASE i \notin 1 .. Len(u)
          BY <3>2, <5>1, <5>3
        <5> QED
          BY <5>2, <5>3
      <4>2. ASSUME NEW e \in Range(u) PROVE e \in Range(t)
        <5>1. PICK i \in 1 .. Len(u) : u[i] = e
          BY <3>1, RangeOf
        <5>2. i \in 1 .. Len(t) /\ t[i] = e
          BY <3>2, <5>1
        <5> QED
          BY <3>2, <5>2, RangeOf
      <4>3. s[n] \in Range(t)
        <5>1. Len(t) \in 1 .. Len(t) /\ t[Len(t)] = s[n]
          BY <3>2
        <5> QED
          BY <3>2, <5>1, RangeOf
      <4> QED
        BY <4>1, <4>2, <4>3
    <3>6. f[n] = t
      BY <2>1, <2>5 DEF t, u
    <3> QED
      BY <2>2, <2>5, <3>1, <3>2, <3>4, <3>5, <3>6
  <2> QED
    BY <2>4, <2>5
<1>4. T = {}
  <2> SUFFICES ASSUME T # {} PROVE FALSE
    OBVIOUS
  <2>1. T \subseteq Nat /\ \A n \in 0 .. Len(s) : n \in T <=> ~ Right(n)
    OBVIOUS
  <2>2. \A n \in T : n \in 0 .. Len(s)
    OBVIOUS
  <2> HIDE DEF T, Right
  <2>3. PICK n \in T : \A y \in T : n <= y
    BY <2>1, Least
  <2>4. n # 0 /\ n \in 1 .. Len(s) /\ n - 1 \in 0 .. Len(s)
    BY <1>2, <2>1, <2>2
  <2>5. n - 1 \notin T
    BY <2>3, <2>4
  <2> QED
    BY <1>3, <2>1, <2>2, <2>4, <2>5
<1>5. Right(Len(s))
  <2>1. Len(s) \in 0 .. Len(s)
    OBVIOUS
  <2> HIDE DEF Right
  <2> QED
    BY <1>4, <2>1
<1>6. Upto(Len(s)) = Range(s)
  BY RangeOf
<1> QED
  BY <1>1, <1>5, <1>6

LEMMA SoundWithout ==
  ASSUME NEW s, NEW safe, NEW n \in Nat, NEW batch, Sound(s, safe, n), Range(batch) \subseteq safe
  PROVE  /\ Sound(Without(s, batch), safe, n)
         /\ Range(Without(s, batch)) = Range(s) \ Range(batch)
  BY WithoutRange DEF Sound

-----------------------------------------------------------------------------
(* Queues, requests and events                                             *)

LEMMA FlushedOK ==
  ASSUME NEW q \in QueueStates
  PROVE  /\ Flushed(q) \in QueueStates /\ Flushed(q).events = q.events /\ Flushed(q).mode = q.mode
         /\ Flushed(q).sending /\ ~q.sending => q.events # <<>>
  BY DEF Flushed, QueueStates

LEMMA PushedOK ==
  ASSUME NEW q \in QueueStates, NEW e \in Nat
  PROVE  /\ Pushed(q, e) \in QueueStates /\ Pushed(q, e).mode = q.mode
         /\ Pushed(q, e).events = Append(q.events, e)
<1> DEFINE longer == [q EXCEPT !.events = Append(@, e)]
<1>1. longer \in QueueStates /\ longer.mode = q.mode /\ longer.events = Append(q.events, e)
  <2>1. q.events \in Seq(Nat) /\ Append(q.events, e) \in Seq(Nat)
    BY DEF QueueStates
  <2> QED
    BY <2>1 DEF QueueStates
<1>2. Pushed(q, e) = IF Len(longer.events) >= FlushAt THEN Flushed(longer) ELSE longer
  BY DEF Pushed
<1> HIDE DEF longer
<1> QED
  BY <1>1, <1>2, FlushedOK

LEMMA RestOK ==
  ASSUME NEW q \in QueueStates
  PROVE  /\ Rest(q) \in QueueStates
         /\ Rest(q) = q \/ (Rest(q).events = <<>> /\ Rest(q).mode # "running" /\ q.mode # "running")
<1> DEFINE gone == [NoQueue EXCEPT !.mode = "dead"]
<1>1. NoQueue \in QueueStates /\ NoQueue.events = <<>>
  BY DEF NoQueue, QueueStates
<1>2. gone \in QueueStates /\ gone.events = <<>> /\ gone.mode = "dead"
  BY <1>1 DEF QueueStates
<1>3. Rest(q) = IF q.mode = "stopped" /\ ~q.sending THEN gone ELSE q
  BY DEF Rest
<1> HIDE DEF gone
<1> QED
  BY <1>2, <1>3

LEMMA SettledOK ==
  ASSUME NEW q \in QueueStates, NEW status, NEW batch, NEW safe, NEW n \in Nat,
         Sound(q.events, safe, n), status # "failed" => Range(batch) \subseteq safe
  PROVE  LET new == Settled(q, status, batch) IN
         /\ new \in QueueStates /\ new.mode = q.mode
         /\ Sound(new.events, safe, n)
         /\ Range(new.events) \subseteq Range(q.events)
         /\ Range(q.events) \subseteq Range(new.events) \cup safe
         /\ status # "failed" => Range(new.events) = Range(q.events) \ Range(batch)
         /\ new.sending => new.events # <<>>
<1> DEFINE kept == IF status = "failed" THEN q.events ELSE Without(q.events, batch)
           idle == [q EXCEPT !.events = kept, !.sending = FALSE]
<1>1. /\ Sound(kept, safe, n) /\ kept \in Seq(Nat) /\ Range(kept) \subseteq Range(q.events)
      /\ Range(q.events) \subseteq Range(kept) \cup safe
      /\ status # "failed" => Range(kept) = Range(q.events) \ Range(batch)
  <2>1. CASE status = "failed"
    BY <2>1 DEF Sound
  <2>2. CASE status # "failed"
    <3>1. Sound(Without(q.events, batch), safe, n) /\ Range(Without(q.events, batch)) = Range(q.events) \ Range(batch)
      BY <2>2, SoundWithout
    <3>2. Without(q.events, batch) \in Seq(Nat)
      BY <3>1 DEF Sound
    <3> QED
      BY <2>2, <3>1, <3>2
  <2> QED
    BY <2>1, <2>2
<1>2. Settled(q, status, batch) = IF q.mode = "running" /\ Len(kept) >= FlushAt THEN Flushed(idle) ELSE idle
  BY DEF Settled
<1> HIDE DEF kept
<1>3. idle \in QueueStates /\ idle.mode = q.mode /\ idle.events = kept /\ ~idle.sending
  BY <1>1 DEF QueueStates
<1> HIDE DEF idle
<1> QED
  BY <1>1, <1>2, <1>3, FlushedOK

LEMMA NewRequestOK ==
  ASSUME NEW s, NEW safe, NEW over, NEW ev, Len(ev) \in Nat, Sound(s, safe, Len(ev)), s # <<>>
  PROVE  /\ NewRequest(s) \in Requests /\ NewRequest(s).at = "load"
         /\ RequestOK(NewRequest(s), safe, over, ev)
<1>1. /\ Sound(First(s), safe, Len(ev)) /\ First(s) # <<>>
      /\ First(s) \in Seq(Nat) /\ Len(First(s)) \in Nat
  BY SoundFirst
<1> QED
  BY <1>1 DEF NewRequest, Requests, RequestOK

\* The events so far stay what they are.
Extends(ev, ev2) ==
  /\ ev \in Seq(Pushes) /\ ev2 \in Seq(Pushes) /\ Len(ev) <= Len(ev2)
  /\ \A i \in 1 .. Len(ev) : ev2[i] = ev[i]

LEMMA RequestGrows ==
  ASSUME NEW safe, NEW safe2, NEW over, NEW over2, NEW ev, NEW ev2, NEW r \in Requests,
         RequestOK(r, safe, over, ev), safe \subseteq safe2, over \subseteq over2, Extends(ev, ev2)
  PROVE  RequestOK(r, safe2, over2, ev2)
<1>1. Len(ev) \in Nat /\ Len(ev2) \in Nat /\ Len(ev) <= Len(ev2) /\ r.batch \in Seq(Nat)
  BY DEF Extends, Requests
<1>2. Sound(r.batch, safe2, Len(ev2)) /\ r.batch # <<>>
  BY <1>1, SoundGrows DEF RequestOK
<1>3. \A i \in 1 .. Len(r.batch) : ev2[r.batch[i]] = ev[r.batch[i]]
  <2>1. \A i \in 1 .. Len(r.batch) : r.batch[i] \in 1 .. Len(ev)
    BY <1>1, RangeOf DEF RequestOK, Sound
  <2> QED
    BY <2>1 DEF Extends
<1>4. ASSUME r.at \in {"close", "create"}
      PROVE  /\ r.left \in 1 .. Len(r.batch)
             /\ \A i \in 1 .. Len(r.batch) - r.left : r.batch[i] \in safe2
             /\ r.at = "create" => ev2[r.batch[Len(r.batch) - r.left + 1]].closes \in {0} \cup over2
  <2>1. r.left \in 1 .. Len(r.batch) /\ Len(r.batch) - r.left + 1 \in 1 .. Len(r.batch)
    BY <1>1, <1>4 DEF RequestOK
  <2> QED
    BY <1>3, <1>4, <2>1 DEF RequestOK
<1> QED
  BY <1>2, <1>4 DEF RequestOK

LEMMA RowsGrow ==
  ASSUME NEW r, NEW safe, NEW safe2, NEW over, NEW over2, NEW ev, NEW ev2,
         RowsOK(r, safe, over, ev), safe \subseteq safe2, over \subseteq over2, Extends(ev, ev2)
  PROVE  RowsOK(r, safe2, over2, ev2)
  BY DEF RowsOK, Extends

\* One event more.
LEMMA EventsPush ==
  ASSUME NEW ev \in Seq(Pushes), NEW open, EventsOK(ev, open)
  PROVE  /\ open = 0 => EventsOK(Append(ev, [type |-> "hidden", closes |-> 0]), Len(ev) + 1)
         /\ open # 0 => EventsOK(Append(ev, [type |-> "returned", closes |-> open]), 0)
         /\ EventsOK(Append(ev, [type |-> "blur", closes |-> 0]), open)
<1>1. ASSUME NEW x, NEW now, now \in 0 .. Len(ev) + 1, x.closes \in 0 .. Len(ev),
             open # 0 /\ now # open => x.closes = open,
             x.type = "hidden" => open = 0 /\ now = Len(ev) + 1
      PROVE  EventsOK(Append(ev, x), now)
  <2> DEFINE ev2 == Append(ev, x)
             n == Len(ev)
  <2>1. n \in Nat /\ Len(ev2) = n + 1 /\ ev2[n + 1] = x /\ \A i \in 1 .. n : ev2[i] = ev[i]
    OBVIOUS
  <2>2. /\ open \in 0 .. n
        /\ \A e \in 1 .. n : ev[e].closes \in 0 .. e - 1
        /\ \A g \in 1 .. n : ev[g].type = "hidden" =>
             /\ g = open \/ \E e \in 1 .. n : ev[e].closes = g
             /\ \A h \in g + 1 .. n : ev[h].type = "hidden" => \E e \in 1 .. h : ev[e].closes = g
    BY DEF EventsOK
  <2> HIDE DEF ev2, n
  <2>3. \A e \in 1 .. n + 1 : ev2[e].closes \in 0 .. e - 1
    <3>1. ASSUME NEW e \in 1 .. n + 1 PROVE ev2[e].closes \in 0 .. e - 1
      <4>1. CASE e = n + 1
        BY <1>1, <2>1, <4>1 DEF n
      <4>2. CASE e \in 1 .. n
        BY <2>1, <2>2, <4>2
      <4> QED
        BY <2>1, <4>1, <4>2
    <3> QED
      BY <3>1
  <2>4. ASSUME NEW g \in 1 .. n + 1, ev2[g].type = "hidden"
        PROVE  g = now \/ \E e \in 1 .. n + 1 : ev2[e].closes = g
    <3>1. CASE g = n + 1
      BY <1>1, <2>1, <2>4, <3>1 DEF n
    <3>2. CASE g \in 1 .. n /\ g = open
      BY <1>1, <2>1, <3>2
    <3>3. CASE g \in 1 .. n /\ g # open
      <4>1. PICK e \in 1 .. n : ev[e].closes = g
        BY <2>1, <2>2, <2>4, <3>3
      <4> QED
        BY <2>1, <4>1
    <3> QED
      BY <2>1, <3>1, <3>2, <3>3
  <2>5. ASSUME NEW g \in 1 .. n + 1, NEW h \in g + 1 .. n + 1, ev2[g].type = "hidden", ev2[h].type = "hidden"
        PROVE  \E e \in 1 .. h : ev2[e].closes = g
    <3>1. g \in 1 .. n /\ ev[g].type = "hidden"
      BY <2>1, <2>5
    <3>2. CASE h = n + 1
      <4>1. open = 0
        BY <1>1, <2>1, <2>5, <3>2
      <4>2. PICK e \in 1 .. n : ev[e].closes = g
        BY <2>2, <3>1, <4>1
      <4> QED
        BY <2>1, <3>2, <4>2
    <3>3. CASE h \in g + 1 .. n
      <4>1. ev[h].type = "hidden" /\ h \in 1 .. n
        BY <2>1, <2>5, <3>1, <3>3
      <4>2. PICK e \in 1 .. h : ev[e].closes = g
        BY <2>2, <3>1, <3>3, <4>1
      <4> QED
        BY <2>1, <4>1, <4>2
    <3> QED
      BY <2>1, <3>2, <3>3
  <2>6. Len(ev2) = n + 1 /\ now \in 0 .. n + 1
    BY <1>1, <2>1 DEF n
  <2>7. EventsOK(ev2, now)
    BY <2>3, <2>4, <2>5, <2>6 DEF EventsOK
  <2> QED
    BY <2>7 DEF ev2
<1>2. Len(ev) \in Nat /\ open \in 0 .. Len(ev)
  BY DEF EventsOK
<1>3. open = 0 => EventsOK(Append(ev, [type |-> "hidden", closes |-> 0]), Len(ev) + 1)
  BY <1>1, <1>2
<1>4. open # 0 => EventsOK(Append(ev, [type |-> "returned", closes |-> open]), 0)
  BY <1>1, <1>2
<1>5. EventsOK(Append(ev, [type |-> "blur", closes |-> 0]), open)
  BY <1>1, <1>2
<1> QED
  BY <1>3, <1>4, <1>5

-----------------------------------------------------------------------------
(* The parts of the state that a step replaces                             *)

LEMMA Frees == Free \notin Requests /\ Free.at = "free"
  BY DEF Free, Requests

LEMMA QueuesOne ==
  ASSUME NEW qs, NEW safe, NEW safe2, NEW n \in Nat, NEW m \in Nat, QueuesOK(qs, safe, n),
         safe \subseteq safe2, n <= m, NEW q \in Queues, NEW new \in QueueStates, Sound(new.events, safe2, m),
         new.mode = "running" => qs[q].mode = "running" \/ \A p \in Queues : qs[p].mode # "running"
  PROVE  QueuesOK([qs EXCEPT ![q] = new], safe2, m)
<1>1. \A p \in Queues : Sound(qs[p].events, safe2, m)
  BY SoundGrows DEF QueuesOK
<1> QED
  BY <1>1 DEF QueuesOK

LEMMA QueuesGrow ==
  ASSUME NEW qs, NEW safe, NEW safe2, NEW n \in Nat, NEW m \in Nat, QueuesOK(qs, safe, n),
         safe \subseteq safe2, n <= m
  PROVE  QueuesOK(qs, safe2, m)
  BY SoundGrows DEF QueuesOK

LEMMA RequestsGrow ==
  ASSUME NEW rq, NEW safe, NEW safe2, NEW over, NEW over2, NEW ev, NEW ev2, RequestsOK(rq, safe, over, ev),
         safe \subseteq safe2, over \subseteq over2, Extends(ev, ev2)
  PROVE  RequestsOK(rq, safe2, over2, ev2)
<1>1. ASSUME NEW s \in Slots, rq[s] # Free PROVE RequestOK(rq[s], safe2, over2, ev2)
  <2>1. rq[s] \in Requests /\ RequestOK(rq[s], safe, over, ev)
    BY <1>1 DEF RequestsOK
  <2> QED
    BY <2>1, RequestGrows
<1> QED
  BY <1>1 DEF RequestsOK

LEMMA RequestsOne ==
  ASSUME NEW rq, NEW safe, NEW over, NEW ev, RequestsOK(rq, safe, over, ev),
         NEW s \in Slots, NEW r \in Requests \cup {Free}, r # Free => RequestOK(r, safe, over, ev)
  PROVE  RequestsOK([rq EXCEPT ![s] = r], safe, over, ev)
  BY DEF RequestsOK

LEMMA Lengths == Inductive => Len(event) \in Nat /\ Extends(event, event) /\ Safe \subseteq Events /\ Over \subseteq Safe
  BY DEF Inductive, Typed, Extends, Safe, Over

LEMMA Initially == Init => Inductive
<1> SUFFICES ASSUME Init PROVE Inductive
  OBVIOUS
<1>1. event = <<>> /\ Len(event) = 0 /\ storage = <<>> /\ Len(event) \in Nat
  BY DEF Init
<1>2. Typed
  BY Constants DEF Init, Typed
<1>3. Sound(<<>>, Safe, Len(event)) /\ Range(<<>>) = {}
  BY <1>1, SoundEmpty
<1>4. QueuesOK(queue, Safe, Len(event))
  <2>1. NoQueue \in QueueStates /\ NoQueue.events = <<>> /\ NoQueue.mode = "none"
    BY DEF NoQueue, QueueStates
  <2> QED
    BY <1>3, <2>1 DEF Init, QueuesOK
<1>5. RequestsOK(request, Safe, Over, event)
  BY DEF Init, RequestsOK
<1>6. Stored
  BY <1>1, <1>3 DEF Stored
<1>7. EventsOK(event, openHidden) /\ RowsOK(row, Safe, Over, event)
  BY <1>1 DEF Init, EventsOK, RowsOK
<1> QED
  BY <1>1, <1>2, <1>3, <1>4, <1>5, <1>6, <1>7 DEF Inductive

\* A step of the queues and their requests alone.
LEMMA QuietStays ==
  ASSUME Inductive, UNCHANGED <<storage, openHidden, event, row, givenUp, overwritten>>,
         QueuesOK(queue', Safe, Len(event)), RequestsOK(request', Safe, Over, event),
         \A q \in Queues : queue'[q].mode = "running" => Range(storage) \subseteq Range(queue'[q].events) \cup Safe
  PROVE  Inductive'
<1>1. Safe' = Safe /\ Over' = Over
  BY DEF Safe, Over
<1>2. Typed'
  BY DEF Inductive, Typed
<1>3. Stored'
  BY <1>1 DEF Inductive, Stored, Running
<1> QED
  BY <1>1, <1>2, <1>3 DEF Inductive

\* A queue is replaced.
LEMMA ReplaceOK ==
  ASSUME NEW q \in Queues, NEW new \in QueueStates, queue' = [queue EXCEPT ![q] = Rest(new)], NEW safe, NEW n \in Nat,
         QueuesOK(queue, safe, n), Sound(new.events, safe, n),
         new.mode = "running" => Running(q) \/ \A p \in Queues : ~Running(p)
  PROVE  /\ QueuesOK(queue', safe, n)
         /\ \A p \in Queues : queue'[p].mode = "running" =>
              (p # q => Running(p)) /\ queue'[p] = IF p = q THEN new ELSE queue[p]
<1>1. Rest(new) \in QueueStates /\ (Rest(new) = new \/ (Rest(new).events = <<>> /\ Rest(new).mode # "running" /\ new.mode # "running"))
  BY RestOK
<1>2. Sound(Rest(new).events, safe, n)
  BY <1>1, SoundEmpty
<1>3. QueuesOK(queue', safe, n)
  <2>1. Rest(new).mode = "running" => queue[q].mode = "running" \/ \A p \in Queues : queue[p].mode # "running"
    BY <1>1 DEF Running
  <2>2. safe \subseteq safe /\ n <= n
    OBVIOUS
  <2>3. QueuesOK([queue EXCEPT ![q] = Rest(new)], safe, n)
    BY <1>1, <1>2, <2>1, <2>2, QueuesOne
  <2> QED
    BY <2>3
<1>4. ASSUME NEW p \in Queues, queue'[p].mode = "running"
      PROVE  (p # q => Running(p)) /\ queue'[p] = IF p = q THEN new ELSE queue[p]
  BY <1>1, <1>4 DEF QueuesOK, Running
<1> QED
  BY <1>3, <1>4

\* A queue goes on, with a request if it sends.
LEMMA BecomeOK ==
  ASSUME NEW q \in Queues, NEW new \in QueueStates, Become(q, new), NEW safe, NEW over, NEW ev, Len(ev) \in Nat,
         QueuesOK(queue, safe, Len(ev)), RequestsOK(request, safe, over, ev), Sound(new.events, safe, Len(ev)),
         Running(q), new.sending /\ ~queue[q].sending => new.events # <<>>
  PROVE  /\ QueuesOK(queue', safe, Len(ev)) /\ RequestsOK(request', safe, over, ev)
         /\ \A p \in Queues : queue'[p].mode = "running" => Running(p) /\ queue'[p] = IF p = q THEN new ELSE queue[p]
<1>1. /\ QueuesOK(queue', safe, Len(ev))
      /\ \A p \in Queues : queue'[p].mode = "running" => Running(p) /\ queue'[p] = IF p = q THEN new ELSE queue[p]
  <2>1. queue' = [queue EXCEPT ![q] = Rest(new)]
    BY DEF Become
  <2> QED
    BY <2>1, ReplaceOK
<1>2. RequestsOK(request', safe, over, ev)
  <2>1. CASE new.sending /\ ~queue[q].sending
    <3>1. NewRequest(new.events) \in Requests /\ RequestOK(NewRequest(new.events), safe, over, ev)
      BY <2>1, NewRequestOK
    <3>2. request' = [request EXCEPT ![q] = NewRequest(new.events)]
      BY <2>1 DEF Become
    <3> QED
      BY <3>1, <3>2, RequestsOne DEF Slots
  <2>2. CASE ~ (new.sending /\ ~queue[q].sending)
    BY <2>2 DEF Become
  <2> QED
    BY <2>1, <2>2
<1> QED
  BY <1>1, <1>2

\* An event is pushed after the events s, which hold all that is not safe.
LEMMA AddOK ==
  ASSUME Inductive, NEW s, Sound(s, Safe, Len(event)), 1 .. Len(event) \subseteq Range(s) \cup Safe,
         NEW type, NEW closes, [type |-> type, closes |-> closes] \in Pushes, Len(event) + 1 \in Events,
         event' = Append(event, [type |-> type, closes |-> closes]),
         storage' = Latest(Append(s, Len(event) + 1)),
         givenUp' = givenUp \cup (Range(Append(s, Len(event) + 1)) \ Range(Latest(Append(s, Len(event) + 1)))),
         UNCHANGED <<row, overwritten>>
  PROVE  /\ Safe \subseteq Safe' /\ Over \subseteq Over' /\ Extends(event, event') /\ Len(event') = Len(event) + 1
         /\ Append(s, Len(event) + 1) # <<>> /\ Sound(Append(s, Len(event) + 1), Safe', Len(event'))
         /\ Range(storage') \subseteq Range(Append(s, Len(event) + 1)) /\ Sound(storage', Safe', Len(event'))
         /\ \A e \in 1 .. Len(event') : e \in Safe' \cup Range(storage')
         /\ Typed' /\ RowsOK(row', Safe', Over', event')
         /\ QueuesOK(queue, Safe', Len(event')) /\ RequestsOK(request, Safe', Over', event')
<1> DEFINE n == Len(event)
           t == Append(s, n + 1)
<1>1. /\ n \in Nat /\ n + 1 \in Events /\ Len(event') = n + 1 /\ Len(event') <= MaxEvents
      /\ event' \in Seq(Pushes) /\ Extends(event, event')
  <2>1. event \in Seq(Pushes) /\ n \in Nat /\ n + 1 \in Events
    BY Lengths DEF Inductive, Typed
  <2>2. n + 1 <= MaxEvents
    BY <2>1, Constants DEF Events
  <2> QED
    BY <2>1, <2>2 DEF Extends
<1>2. t # <<>> /\ Sound(t, Safe, n + 1) /\ Range(t) = Range(s) \cup {n + 1}
  BY <1>1, SoundAppend
<1>3. storage' = Latest(t) /\ givenUp' = givenUp \cup (Range(t) \ Range(storage'))
  OBVIOUS
<1> HIDE DEF t
<1>4. Safe \subseteq Safe' /\ Over \subseteq Over' /\ Range(t) \ Range(storage') \subseteq Safe'
  BY <1>3 DEF Safe, Over
<1>5. Sound(t, Safe', n + 1)
  BY <1>1, <1>2, <1>4, SoundGrows
<1>6. Sound(storage', Safe', n + 1) /\ Range(storage') \subseteq Range(t)
  BY <1>1, <1>3, <1>4, <1>5, SoundLatest
<1>7. QueuesOK(queue, Safe', Len(event')) /\ RequestsOK(request, Safe', Over', event')
  <2>1. QueuesOK(queue, Safe, n) /\ RequestsOK(request, Safe, Over, event)
    BY DEF Inductive
  <2> QED
    BY <1>1, <1>4, <2>1, QueuesGrow, RequestsGrow
<1>8. ASSUME NEW e \in 1 .. n + 1 PROVE e \in Safe' \cup Range(storage')
  <2>1. e \in Range(s) \cup Safe \cup {n + 1}
    BY <1>1
  <2> QED
    BY <1>2, <1>4, <2>1
<1>9. Typed'
  <2>1. Range(t) \subseteq Events
    BY <1>1, <1>2, Constants DEF Sound, Events
  <2> QED
    BY <1>1, <1>3, <2>1 DEF Inductive, Typed
<1>10. RowsOK(row', Safe', Over', event')
  <2>1. RowsOK(row, Safe, Over, event)
    BY DEF Inductive
  <2> QED
    BY <1>1, <1>4, <2>1, RowsGrow
<1> QED
  BY <1>1, <1>2, <1>4, <1>5, <1>6, <1>7, <1>8, <1>9, <1>10 DEF t

\* An event is pushed to the queue of the room that is open.
LEMMA PushStays ==
  ASSUME Inductive, NEW q \in Queues, Running(q), NEW type, NEW closes, [type |-> type, closes |-> closes] \in Pushes,
         Push(q, type, closes), UNCHANGED row, EventsOK(event', openHidden')
  PROVE  Inductive'
<1> DEFINE t == Append(queue[q].events, Len(event) + 1)
           new == Pushed(queue[q], Len(event) + 1)
<1>1. /\ queue[q] \in QueueStates /\ Sound(queue[q].events, Safe, Len(event)) /\ Len(event) \in Nat
      /\ 1 .. Len(event) \subseteq Range(queue[q].events) \cup Safe
  BY Lengths DEF Inductive, QueuesOK, Stored
<1>2. new \in QueueStates /\ new.mode = queue[q].mode /\ new.events = t
  <2>1. Len(event) + 1 \in Nat
    BY <1>1
  <2> QED
    BY <1>1, <2>1, PushedOK
<1>3. /\ Become(q, new) /\ Len(event) + 1 \in Events /\ event' = Append(event, [type |-> type, closes |-> closes])
      /\ storage' = Latest(t) /\ givenUp' = givenUp \cup (Range(t) \ Range(Latest(t))) /\ overwritten' = overwritten
  BY DEF Push, Persist
<1>4. /\ Safe \subseteq Safe' /\ Over \subseteq Over' /\ Len(event') = Len(event) + 1
      /\ t # <<>> /\ Sound(t, Safe', Len(event'))
      /\ Range(storage') \subseteq Range(t) /\ Sound(storage', Safe', Len(event'))
      /\ \A e \in 1 .. Len(event') : e \in Safe' \cup Range(storage')
      /\ Typed' /\ RowsOK(row', Safe', Over', event')
      /\ QueuesOK(queue, Safe', Len(event')) /\ RequestsOK(request, Safe', Over', event')
  BY <1>1, <1>3, AddOK
<1> HIDE DEF t, new
<1>5. /\ QueuesOK(queue', Safe', Len(event')) /\ RequestsOK(request', Safe', Over', event')
      /\ \A p \in Queues : queue'[p].mode = "running" => Running(p) /\ queue'[p] = IF p = q THEN new ELSE queue[p]
  <2>1. /\ Len(event') \in Nat /\ Sound(new.events, Safe', Len(event')) /\ new.events # <<>>
        /\ new \in QueueStates /\ Running(q) /\ Become(q, new)
    BY <1>1, <1>2, <1>3, <1>4
  <2>2. QueuesOK(queue, Safe', Len(event')) /\ RequestsOK(request, Safe', Over', event')
    BY <1>4
  <2> QED
    BY <2>1, <2>2, BecomeOK
<1>6. ASSUME NEW p \in Queues, queue'[p].mode = "running" PROVE Range(storage') \subseteq Range(queue'[p].events)
  <2>1. p = q
    BY <1>5, <1>6 DEF Inductive, QueuesOK, Running
  <2> QED
    BY <1>2, <1>4, <1>5, <1>6, <2>1
<1>7. Stored'
  BY <1>4, <1>6 DEF Stored, Running
<1> QED
  BY <1>4, <1>5, <1>7 DEF Inductive

-----------------------------------------------------------------------------
(* The tab                                                                 *)

LEMMA TimerStays ==
  ASSUME Inductive, NEW q \in Queues, FlushTimer(q) \/ Leave(q)
  PROVE  Inductive'
<1> DEFINE to == IF FlushTimer(q) THEN Flushed(queue[q]) ELSE [Flushed(queue[q]) EXCEPT !.mode = "stopped"]
<1>1. queue[q] \in QueueStates /\ Sound(queue[q].events, Safe, Len(event)) /\ Len(event) \in Nat /\ Running(q)
  BY Lengths DEF Inductive, QueuesOK, FlushTimer, Leave
<1>2. /\ to \in QueueStates /\ to.events = queue[q].events
      /\ to.sending /\ ~queue[q].sending => to.events # <<>>
  <2>1. /\ Flushed(queue[q]) \in QueueStates /\ Flushed(queue[q]).events = queue[q].events
        /\ Flushed(queue[q]).sending /\ ~queue[q].sending => queue[q].events # <<>>
    BY <1>1, FlushedOK
  <2> QED
    BY <2>1 DEF QueueStates
<1>3. Become(q, to) /\ UNCHANGED <<storage, openHidden, event, row, givenUp, overwritten>>
  BY DEF FlushTimer, Leave, server
<1> HIDE DEF to
<1>4. QueuesOK(queue, Safe, Len(event)) /\ RequestsOK(request, Safe, Over, event)
  BY DEF Inductive
<1>5. /\ QueuesOK(queue', Safe, Len(event)) /\ RequestsOK(request', Safe, Over, event)
      /\ \A p \in Queues : queue'[p].mode = "running" => Running(p) /\ queue'[p] = IF p = q THEN to ELSE queue[p]
  BY <1>1, <1>2, <1>3, <1>4, BecomeOK
<1>6. \A p \in Queues : queue'[p].mode = "running" => Range(storage) \subseteq Range(queue'[p].events) \cup Safe
  BY <1>2, <1>5 DEF Inductive, Stored
<1> QED
  BY <1>3, <1>5, <1>6, QuietStays

LEMMA SignalStays ==
  ASSUME Inductive, NEW q \in Queues, Hide(q) \/ Show(q) \/ Blur(q)
  PROVE  Inductive'
<1>1. /\ UNCHANGED row /\ Running(q) /\ event \in Seq(Pushes) /\ EventsOK(event, openHidden)
      /\ Len(event) \in Nat /\ openHidden \in 0 .. Len(event) /\ openHidden \in {0} \cup Events
  <2>1. UNCHANGED row /\ Running(q)
    BY DEF Hide, Show, Blur, server
  <2>2. event \in Seq(Pushes) /\ EventsOK(event, openHidden) /\ Len(event) <= MaxEvents
    BY DEF Inductive, Typed
  <2>3. Len(event) \in Nat /\ openHidden \in 0 .. Len(event)
    BY <2>2 DEF EventsOK
  <2> QED
    BY <2>1, <2>2, <2>3, Constants DEF Events
<1>2. CASE UNCHANGED <<queue, storage, openHidden, event, request, givenUp, overwritten>>
  <2>1. QueuesOK(queue', Safe, Len(event)) /\ RequestsOK(request', Safe, Over, event)
    BY <1>2 DEF Inductive
  <2> QED
    BY <1>1, <1>2, <2>1, QuietStays DEF Inductive, Stored, Running
<1>3. CASE openHidden = 0 /\ openHidden' = Len(event) + 1 /\ Push(q, "hidden", 0)
  <2>1. [type |-> "hidden", closes |-> 0] \in Pushes
    BY DEF Pushes
  <2>2. EventsOK(event', openHidden')
    BY <1>1, <1>3, EventsPush DEF Push
  <2> QED
    BY <1>1, <1>3, <2>1, <2>2, PushStays
<1>4. CASE openHidden # 0 /\ openHidden' = 0 /\ Push(q, "returned", openHidden)
  <2>1. [type |-> "returned", closes |-> openHidden] \in Pushes
    BY <1>1 DEF Pushes
  <2>2. EventsOK(event', openHidden')
    BY <1>1, <1>4, EventsPush DEF Push
  <2> QED
    BY <1>1, <1>4, <2>1, <2>2, PushStays
<1>5. CASE UNCHANGED openHidden /\ Push(q, "blur", 0)
  <2>1. [type |-> "blur", closes |-> 0] \in Pushes
    BY DEF Pushes
  <2>2. EventsOK(event', openHidden')
    BY <1>1, <1>5, EventsPush DEF Push
  <2> QED
    BY <1>1, <1>5, <2>1, <2>2, PushStays
<1> QED
  BY <1>2, <1>3, <1>4, <1>5 DEF Hide, Show, Blur

LEMMA AnswerStays ==
  ASSUME Inductive, NEW q \in Queues, Answer(q)
  PROVE  Inductive'
<1> DEFINE r == request[q]
           new == Settled(queue[q], r.status, r.batch)
           n == Len(event)
<1>1. /\ n \in Nat /\ Extends(event, event) /\ queue[q] \in QueueStates /\ Sound(queue[q].events, Safe, n)
      /\ QueuesOK(queue, Safe, n) /\ RequestsOK(request, Safe, Over, event)
  BY Lengths DEF Inductive, QueuesOK
<1>2. r \in Requests /\ r.at = "answer" /\ RequestOK(r, Safe, Over, event)
  BY <1>1 DEF Answer, AtStep, RequestsOK, Slots
<1>3. r.status \in {"ok", "refused", "failed"} /\ (r.status = "ok" => Range(r.batch) \subseteq Safe) /\ Range(r.batch) \subseteq 1 .. n
  BY <1>2 DEF RequestOK, Requests, Sound
<1>4. /\ queue' = [queue EXCEPT ![q] = Rest(new)]
      /\ request' = [request EXCEPT ![q] = IF new.sending THEN NewRequest(new.events) ELSE Free]
      /\ UNCHANGED <<openHidden, event, row>>
      /\ IF r.status = "failed" THEN UNCHANGED <<storage, givenUp, overwritten>>
         ELSE Persist(q, new.events, r.batch, r.status = "refused")
  BY DEF Answer, server
\* With what is safe after the step.
<1>5. /\ Safe \subseteq Safe' /\ Over \subseteq Over'
      /\ r.status # "failed" => Range(r.batch) \subseteq Safe'
  <2>1. CASE r.status = "failed"
    BY <1>4, <2>1 DEF Safe, Over
  <2>2. CASE r.status # "failed"
    <3>1. givenUp \subseteq givenUp' /\ overwritten \subseteq overwritten' /\ (r.status = "refused" => Range(r.batch) \subseteq givenUp')
      BY <1>4, <2>2 DEF Persist
    <3>2. Safe \subseteq Safe' /\ Over \subseteq Over' /\ givenUp' \subseteq Safe'
      BY <1>4, <3>1 DEF Safe, Over
    <3> QED
      BY <1>3, <2>2, <3>1, <3>2
  <2> QED
    BY <2>1, <2>2
<1>6. Sound(queue[q].events, Safe', n) /\ QueuesOK(queue, Safe', n) /\ RequestsOK(request, Safe', Over', event)
  <2>1. n <= n
    BY <1>1
  <2> QED
    BY <1>1, <1>5, <2>1, SoundGrows, QueuesGrow, RequestsGrow
<1>7. /\ new \in QueueStates /\ new.mode = queue[q].mode /\ Sound(new.events, Safe', n)
      /\ Range(new.events) \subseteq Range(queue[q].events)
      /\ Range(queue[q].events) \subseteq Range(new.events) \cup Safe'
      /\ new.sending => new.events # <<>>
  <2>1. queue[q] \in QueueStates /\ Sound(queue[q].events, Safe', n) /\ n \in Nat
    BY <1>1, <1>6
  <2>2. r.status # "failed" => Range(r.batch) \subseteq Safe'
    BY <1>5
  <2> HIDE DEF r, n
  <2> QED
    BY <2>1, <2>2, SettledOK
<1> HIDE DEF new
<1>8. /\ QueuesOK(queue', Safe', n)
      /\ \A p \in Queues : queue'[p].mode = "running" =>
           (p # q => Running(p)) /\ queue'[p] = IF p = q THEN new ELSE queue[p]
  <2>1. new.mode = "running" => Running(q)
    BY <1>7 DEF Running
  <2> QED
    BY <1>1, <1>4, <1>6, <1>7, <2>1, ReplaceOK
<1>9. RequestsOK(request', Safe', Over', event)
  <2>1. CASE new.sending
    <3>1. NewRequest(new.events) \in Requests /\ RequestOK(NewRequest(new.events), Safe', Over', event)
      BY <1>1, <1>7, <2>1, NewRequestOK
    <3>2. request' = [request EXCEPT ![q] = NewRequest(new.events)]
      BY <1>4, <2>1
    <3> QED
      BY <1>6, <3>1, <3>2, RequestsOne DEF Slots
  <2>2. CASE ~new.sending
    <3>1. request' = [request EXCEPT ![q] = Free]
      BY <1>4, <2>2
    <3> QED
      BY <1>6, <3>1, RequestsOne DEF Slots
  <2> QED
    BY <2>1, <2>2
<1>10. RowsOK(row', Safe', Over', event)
  BY <1>1, <1>4, <1>5, RowsGrow DEF Inductive
<1>11. \A p \in Queues : queue'[p].mode = "running" =>
         Running(p) /\ Range(queue[p].events) \subseteq Range(queue'[p].events) \cup Safe'
  BY <1>7, <1>8 DEF Running
<1>12. CASE r.status = "failed"
  <2>1. Safe' = Safe
    BY <1>4, <1>12 DEF Safe
  <2>2. Stored'
    BY <1>4, <1>11, <1>12, <2>1 DEF Inductive, Stored, Running
  <2>3. Typed' /\ Sound(storage', Safe', n)
    BY <1>4, <1>12, <2>1 DEF Inductive, Typed
  <2> QED
    BY <1>4, <1>8, <1>9, <1>10, <2>2, <2>3 DEF Inductive
<1>13. CASE r.status # "failed"
  <2>1. /\ storage' = Latest(new.events) /\ Range(new.events) \ Range(storage') \subseteq givenUp'
        /\ givenUp' = givenUp \cup (Range(new.events) \ Range(storage')) \cup (IF r.status = "refused" THEN Range(r.batch) ELSE {})
        /\ overwritten' = IF Running(q) THEN overwritten
                          ELSE overwritten \cup ((Range(storage) \ Range(new.events)) \ Range(r.batch))
    BY <1>4, <1>13 DEF Persist
  <2>2. givenUp' \subseteq Safe' /\ overwritten' \subseteq Safe' /\ Range(new.events) \ Range(storage') \subseteq Safe'
    BY <2>1 DEF Safe
  <2>3. Sound(storage', Safe', n) /\ Range(storage') \subseteq Range(new.events)
    BY <1>1, <1>7, <2>1, <2>2, SoundLatest
  <2>4. Range(storage) \subseteq 1 .. n /\ Range(new.events) \subseteq 1 .. n /\ 1 .. n \subseteq Events
    BY <1>1, <1>7, Constants DEF Inductive, Sound, Typed, Events
  <2>5. Typed'
    <3>1. givenUp' \subseteq Events /\ overwritten' \subseteq Events
      BY <1>3, <2>1, <2>4 DEF Inductive, Typed
    <3> QED
      BY <1>4, <3>1 DEF Inductive, Typed
  <2>6. ASSUME NEW e \in Range(storage) PROVE e \in Safe' \cup Range(storage')
    <3>1. CASE Running(q)
      <4>1. e \in Range(queue[q].events) \cup Safe
        BY <3>1 DEF Inductive, Stored
      <4> QED
        BY <1>5, <1>7, <2>2, <4>1
    <3>2. CASE ~Running(q)
      <4>1. e \in Range(new.events) \cup Range(r.batch) \cup overwritten'
        BY <2>1, <3>2
      <4> QED
        BY <1>5, <1>13, <2>2, <4>1
    <3> QED
      BY <3>1, <3>2
  <2>7. ASSUME NEW p \in Queues, queue'[p].mode = "running" PROVE Range(storage') \subseteq Range(queue'[p].events) \cup Safe'
    <3>1. CASE p = q
      BY <1>8, <2>3, <2>7, <3>1
    <3>2. CASE p # q
      <4>1. Running(p) /\ queue'[p] = queue[p]
        BY <1>8, <2>7, <3>2
      <4>2. Range(storage') \subseteq 1 .. n
        BY <2>3, <2>4
      <4>3. 1 .. n \subseteq Range(queue[p].events) \cup Safe
        BY <4>1 DEF Inductive, Stored
      <4> QED
        BY <1>5, <4>1, <4>2, <4>3
    <3> QED
      BY <3>1, <3>2
  <2>8. Stored'
    <3>1. \A e \in 1 .. n : e \in Safe' \cup Range(storage')
      BY <1>5, <2>6 DEF Inductive, Stored
    <3> QED
      BY <1>4, <2>7, <3>1 DEF Stored, Running
  <2> QED
    BY <1>4, <1>8, <1>9, <1>10, <2>3, <2>5, <2>8 DEF Inductive
<1> QED
  BY <1>12, <1>13

LEMMA LoseStays ==
  ASSUME Inductive, NEW q \in Queues, NEW s \in Loose, LoseConnection(q, s)
  PROVE  Inductive'
<1> DEFINE new == Settled(queue[q], "failed", <<>>)
           mid == [request EXCEPT ![s] = request[q]]
           n == Len(event)
<1>1. /\ n \in Nat /\ queue[q] \in QueueStates /\ Sound(queue[q].events, Safe, n)
      /\ QueuesOK(queue, Safe, n) /\ RequestsOK(request, Safe, Over, event)
  BY Lengths DEF Inductive, QueuesOK
<1>2. /\ queue' = [queue EXCEPT ![q] = Rest(new)]
      /\ request' = [mid EXCEPT ![q] = IF new.sending THEN NewRequest(new.events) ELSE Free]
      /\ UNCHANGED <<storage, openHidden, event, row, givenUp, overwritten>>
  BY DEF LoseConnection, server
<1>3. /\ new \in QueueStates /\ new.mode = queue[q].mode /\ Sound(new.events, Safe, n)
      /\ Range(queue[q].events) \subseteq Range(new.events) \cup Safe
      /\ new.sending => new.events # <<>>
  BY <1>1, SettledOK
<1>4. RequestsOK(mid, Safe, Over, event)
  <2>1. /\ request[q] \in Requests \cup {Free} /\ s \in Slots
        /\ request[q] # Free => RequestOK(request[q], Safe, Over, event)
    BY <1>1 DEF RequestsOK, Slots
  <2> QED
    BY <1>1, <2>1, RequestsOne
<1> HIDE DEF new, mid
<1>5. /\ QueuesOK(queue', Safe, n)
      /\ \A p \in Queues : queue'[p].mode = "running" =>
           (p # q => Running(p)) /\ queue'[p] = IF p = q THEN new ELSE queue[p]
  <2>1. new.mode = "running" => Running(q)
    BY <1>3 DEF Running
  <2> QED
    BY <1>1, <1>2, <1>3, <2>1, ReplaceOK
<1>6. RequestsOK(request', Safe, Over, event)
  <2>1. CASE new.sending
    <3>1. NewRequest(new.events) \in Requests /\ RequestOK(NewRequest(new.events), Safe, Over, event)
      BY <1>1, <1>3, <2>1, NewRequestOK
    <3>2. request' = [mid EXCEPT ![q] = NewRequest(new.events)]
      BY <1>2, <2>1
    <3> QED
      BY <1>4, <3>1, <3>2, RequestsOne DEF Slots
  <2>2. CASE ~new.sending
    <3>1. request' = [mid EXCEPT ![q] = Free]
      BY <1>2, <2>2
    <3> QED
      BY <1>4, <3>1, RequestsOne DEF Slots
  <2> QED
    BY <2>1, <2>2
<1>7. \A p \in Queues : queue'[p].mode = "running" =>
         Running(p) /\ Range(queue[p].events) \subseteq Range(queue'[p].events) \cup Safe
  BY <1>3, <1>5 DEF Running
<1>8. \A p \in Queues : queue'[p].mode = "running" => Range(storage) \subseteq Range(queue'[p].events) \cup Safe
  BY <1>7 DEF Inductive, Stored
<1> QED
  BY <1>2, <1>5, <1>6, <1>8, QuietStays

LEMMA MountStays ==
  ASSUME Inductive, NEW q \in Queues, NEW seen, Mount(q, seen)
  PROVE  Inductive'
<1> DEFINE start == [mode |-> "running", events |-> storage, sending |-> FALSE]
           loaded == Flushed(start)
           n == Len(event)
           t == Append(storage, n + 1)
           new == IF openHidden # 0 /\ seen THEN Pushed(loaded, n + 1) ELSE loaded
           sent == IF loaded.sending THEN loaded.events ELSE new.events
<1>1. /\ n \in Nat /\ event \in Seq(Pushes) /\ Sound(storage, Safe, n) /\ storage \in Seq(Nat)
      /\ QueuesOK(queue, Safe, n) /\ RequestsOK(request, Safe, Over, event)
      /\ 1 .. n \subseteq Range(storage) \cup Safe /\ EventsOK(event, openHidden) /\ openHidden \in 0 .. n
  BY Lengths DEF Inductive, Sound, Stored, Typed, EventsOK
<1>2. /\ \A p \in Queues : ~Running(p)
      /\ queue' = [queue EXCEPT ![q] = Rest(new)]
      /\ request' = IF new.sending THEN [request EXCEPT ![q] = NewRequest(sent)] ELSE request
      /\ UNCHANGED <<row, overwritten>>
  BY DEF Mount, server
<1>3. start \in QueueStates /\ start.events = storage /\ start.mode = "running" /\ ~start.sending
  BY <1>1 DEF QueueStates
<1> HIDE DEF start
<1>4. /\ loaded \in QueueStates /\ loaded.events = storage /\ loaded.mode = "running"
      /\ loaded.sending => storage # <<>>
  BY <1>3, FlushedOK
<1>5. CASE ~(openHidden # 0 /\ seen)
  <2>1. UNCHANGED <<storage, openHidden, event, givenUp>> /\ new = loaded
    BY <1>5 DEF Mount
  <2> HIDE DEF loaded, new, sent
  <2>2. /\ QueuesOK(queue', Safe, n)
        /\ \A p \in Queues : queue'[p].mode = "running" => p = q /\ queue'[p] = loaded
    BY <1>1, <1>2, <1>4, <2>1, ReplaceOK
  <2>3. RequestsOK(request', Safe, Over, event)
    <3>1. CASE loaded.sending
      <4>1. sent = storage /\ storage # <<>>
        BY <1>4, <3>1 DEF sent
      <4>2. NewRequest(sent) \in Requests /\ RequestOK(NewRequest(sent), Safe, Over, event)
        BY <1>1, <4>1, NewRequestOK
      <4> QED
        BY <1>1, <1>2, <2>1, <3>1, <4>2, RequestsOne DEF Slots
    <3>2. CASE ~loaded.sending
      BY <1>1, <1>2, <2>1, <3>2
    <3> QED
      BY <3>1, <3>2
  <2>4. \A p \in Queues : queue'[p].mode = "running" => Range(storage) \subseteq Range(queue'[p].events) \cup Safe
    BY <1>4, <2>2
  <2> QED
    BY <1>2, <2>1, <2>2, <2>3, <2>4, QuietStays
<1>6. CASE openHidden # 0 /\ seen
  <2>1. /\ n + 1 \in Events /\ event' = Append(event, [type |-> "returned", closes |-> openHidden])
        /\ openHidden' = 0 /\ storage' = Latest(new.events) /\ new = Pushed(loaded, n + 1)
        /\ givenUp' = givenUp \cup (Range(new.events) \ Range(Latest(new.events)))
    <3>1. n + 1 \in Events /\ event' = Append(event, [type |-> "returned", closes |-> openHidden]) /\ openHidden' = 0
      BY <1>6 DEF Mount
    <3>2. new = Pushed(loaded, n + 1)
      BY <1>6
    <3>3. loaded = Flushed([mode |-> "running", events |-> storage, sending |-> FALSE])
      BY DEF start
    <3> HIDE DEF loaded, new, sent
    <3>4. /\ storage' = Latest(Pushed(loaded, n + 1).events)
          /\ givenUp' = givenUp \cup (Range(Pushed(loaded, n + 1).events) \ Range(Latest(Pushed(loaded, n + 1).events)))
      BY <1>6, <3>3 DEF Mount
    <3> QED
      BY <3>1, <3>2, <3>4
  <2> HIDE DEF loaded, new, sent
  <2>2. new \in QueueStates /\ new.mode = "running" /\ new.events = t
    <3>1. n + 1 \in Nat
      BY <1>1
    <3> QED
      BY <1>4, <2>1, <3>1, PushedOK
  <2>3. [type |-> "returned", closes |-> openHidden] \in Pushes
    <3>1. openHidden \in {0} \cup Events
      BY <1>1, Constants DEF Events, Inductive, Typed
    <3> QED
      BY <3>1 DEF Pushes
  <2>4. /\ Safe \subseteq Safe' /\ Over \subseteq Over' /\ Len(event') = n + 1
        /\ t # <<>> /\ Sound(t, Safe', Len(event'))
        /\ Range(storage') \subseteq Range(t) /\ Sound(storage', Safe', Len(event'))
        /\ \A e \in 1 .. Len(event') : e \in Safe' \cup Range(storage')
        /\ Typed' /\ RowsOK(row', Safe', Over', event')
        /\ QueuesOK(queue, Safe', Len(event')) /\ RequestsOK(request, Safe', Over', event')
    BY <1>1, <1>2, <2>1, <2>2, <2>3, AddOK
  <2>5. /\ QueuesOK(queue', Safe', Len(event'))
        /\ \A p \in Queues : queue'[p].mode = "running" => p = q /\ queue'[p] = new
    <3>1. Len(event') \in Nat /\ Sound(new.events, Safe', Len(event')) /\ QueuesOK(queue, Safe', Len(event'))
      BY <1>1, <2>2, <2>4
    <3> QED
      BY <1>2, <2>2, <3>1, ReplaceOK
  <2>6. RequestsOK(request', Safe', Over', event')
    <3>1. CASE new.sending
      <4>1. sent # <<>> /\ Sound(sent, Safe', Len(event')) /\ Len(event') \in Nat
        <5>1. Sound(storage, Safe', Len(event'))
          <6>1. n <= n + 1 /\ n + 1 \in Nat
            BY <1>1
          <6> QED
            BY <1>1, <2>4, <6>1, SoundGrows
        <5>2. Len(event') \in Nat
          BY <1>1, <2>4
        <5> QED
          BY <1>4, <2>2, <2>4, <5>1, <5>2 DEF sent
      <4>2. NewRequest(sent) \in Requests /\ RequestOK(NewRequest(sent), Safe', Over', event')
        BY <4>1, NewRequestOK
      <4> QED
        BY <1>2, <2>4, <3>1, <4>2, RequestsOne DEF Slots
    <3>2. CASE ~new.sending
      BY <1>2, <2>4, <3>2
    <3> QED
      BY <3>1, <3>2
  <2>7. Stored'
    BY <2>2, <2>4, <2>5 DEF Stored, Running
  <2>8. EventsOK(event', openHidden')
    BY <1>1, <1>6, <2>1, EventsPush
  <2> QED
    BY <2>4, <2>5, <2>6, <2>7, <2>8 DEF Inductive
<1> QED
  BY <1>5, <1>6

\* The tab is gone, and its queues with it.
LEMMA DeadOK ==
  ASSUME NEW safe, NEW n \in Nat, QueuesOK(queue, safe, n)
  PROVE  QueuesOK(Dead, safe, n) /\ \A q \in Queues : Dead[q].mode # "running"
<1> DEFINE gone == [NoQueue EXCEPT !.mode = "dead"]
<1>1. NoQueue \in QueueStates /\ NoQueue.events = <<>>
  BY DEF NoQueue, QueueStates
<1>2. gone \in QueueStates /\ gone.events = <<>> /\ gone.mode = "dead"
  BY <1>1 DEF QueueStates
<1>3. Dead = [q \in Queues |-> IF Alive(q) THEN gone ELSE queue[q]]
  BY DEF Dead
<1> HIDE DEF gone
<1>4. Sound(<<>>, safe, n)
  BY SoundEmpty
<1>5. \A q \in Queues : Dead[q] = gone \/ (Dead[q] = queue[q] /\ queue[q].mode # "running")
  BY <1>3 DEF Alive
<1> QED
  BY <1>2, <1>3, <1>4, <1>5 DEF QueuesOK

LEMMA CrashStays ==
  ASSUME Inductive, Crash
  PROVE  Inductive'
<1>1. Len(event) \in Nat /\ QueuesOK(queue, Safe, Len(event)) /\ RequestsOK(request, Safe, Over, event)
  BY Lengths DEF Inductive
<1>2. /\ queue' = Dead /\ UNCHANGED <<storage, openHidden, event, row, givenUp, overwritten>>
      /\ request' = [s \in Slots |-> IF AtStep(s, "answer") THEN Free ELSE request[s]]
  BY DEF Crash, server
<1>3. QueuesOK(queue', Safe, Len(event)) /\ \A q \in Queues : queue'[q].mode # "running"
  BY <1>1, <1>2, DeadOK
<1>4. RequestsOK(request', Safe, Over, event)
  BY <1>1, <1>2 DEF RequestsOK
<1> QED
  BY <1>2, <1>3, <1>4, QuietStays

LEMMA UnloadStays ==
  ASSUME Inductive, NEW q \in Queues, NEW s \in Loose, Unload(q, s)
  PROVE  Inductive'
<1> DEFINE n == Len(event)
           t == Append(queue[q].events, n + 1)
           Sends(new) == request' = [u \in Slots |->
             IF u = s /\ queue[q].events # <<>> THEN NewRequest(queue[q].events)
             ELSE IF u = q /\ new.sending /\ ~queue[q].sending THEN NewRequest(new.events)
             ELSE IF AtStep(u, "answer") THEN Free ELSE request[u]]
<1>1. /\ n \in Nat /\ QueuesOK(queue, Safe, n) /\ RequestsOK(request, Safe, Over, event)
      /\ queue[q] \in QueueStates /\ Sound(queue[q].events, Safe, n) /\ Running(q) /\ event \in Seq(Pushes)
      /\ 1 .. n \subseteq Range(queue[q].events) \cup Safe /\ EventsOK(event, openHidden)
  BY Lengths DEF Inductive, QueuesOK, Stored, Unload, Typed
<1>2. queue' = Dead /\ UNCHANGED row
  BY DEF Unload, server
<1>3. ASSUME NEW new, Sends(new), NEW safe, NEW over, NEW ev, Len(ev) \in Nat, RequestsOK(request, safe, over, ev),
             Sound(queue[q].events, safe, Len(ev)),
             new.sending /\ ~queue[q].sending => new.events # <<>> /\ Sound(new.events, safe, Len(ev))
      PROVE  RequestsOK(request', safe, over, ev)
  <2>1. queue[q].events # <<>> =>
          NewRequest(queue[q].events) \in Requests /\ RequestOK(NewRequest(queue[q].events), safe, over, ev)
    BY <1>3, NewRequestOK
  <2>2. new.sending /\ ~queue[q].sending =>
          NewRequest(new.events) \in Requests /\ RequestOK(NewRequest(new.events), safe, over, ev)
    BY <1>3, NewRequestOK
  <2>3. ASSUME NEW u \in Slots
        PROVE  request'[u] \in Requests \cup {Free} /\ (request'[u] # Free => RequestOK(request'[u], safe, over, ev))
    BY <1>3, <2>1, <2>2 DEF RequestsOK
  <2>4. request' = [u \in Slots |-> request'[u]]
    BY <1>3
  <2> QED
    BY <2>3, <2>4 DEF RequestsOK
<1>4. CASE Sends(queue[q]) /\ UNCHANGED <<event, openHidden, storage, givenUp, overwritten>>
  <2>1. QueuesOK(queue', Safe, n) /\ \A p \in Queues : queue'[p].mode # "running"
    BY <1>1, <1>2, DeadOK
  <2>2. RequestsOK(request', Safe, Over, event)
    BY <1>1, <1>3, <1>4
  <2> QED
    BY <1>2, <1>4, <2>1, <2>2, QuietStays
<1>5. CASE /\ n + 1 \in Events /\ openHidden = 0 /\ openHidden' = n + 1
           /\ event' = Append(event, [type |-> "hidden", closes |-> 0])
           /\ Sends(Pushed(queue[q], n + 1)) /\ Persist(q, Pushed(queue[q], n + 1).events, <<>>, FALSE)
  <2> DEFINE new == Pushed(queue[q], n + 1)
  <2>1. new \in QueueStates /\ new.events = t
    <3>1. n + 1 \in Nat
      BY <1>1
    <3> QED
      BY <1>1, <3>1, PushedOK
  <2>2. storage' = Latest(t) /\ overwritten' = overwritten /\ givenUp' = givenUp \cup (Range(t) \ Range(Latest(t)))
    BY <1>1, <1>5, <2>1 DEF Persist
  <2>3. [type |-> "hidden", closes |-> 0] \in Pushes
    BY DEF Pushes
  <2>4. /\ Safe \subseteq Safe' /\ Over \subseteq Over' /\ Len(event') = n + 1
        /\ t # <<>> /\ Sound(t, Safe', Len(event'))
        /\ Sound(storage', Safe', Len(event'))
        /\ \A e \in 1 .. Len(event') : e \in Safe' \cup Range(storage')
        /\ Typed' /\ RowsOK(row', Safe', Over', event')
        /\ QueuesOK(queue, Safe', Len(event')) /\ RequestsOK(request, Safe', Over', event')
    BY <1>1, <1>2, <1>5, <2>2, <2>3, AddOK
  <2>5. Len(event') \in Nat /\ Sound(queue[q].events, Safe', Len(event'))
    <3>1. n <= n + 1 /\ n + 1 \in Nat
      BY <1>1
    <3> QED
      BY <1>1, <2>4, <3>1, SoundGrows
  <2>6. QueuesOK(queue', Safe', Len(event')) /\ \A p \in Queues : queue'[p].mode # "running"
    BY <1>2, <2>4, <2>5, DeadOK
  <2>7. RequestsOK(request', Safe', Over', event')
    <3> HIDE DEF new, t, Sends
    <3>1. Sends(new)
      BY <1>5 DEF new
    <3> QED
      BY <1>3, <2>1, <2>4, <2>5, <3>1
  <2>8. Stored'
    BY <2>4, <2>6 DEF Stored, Running
  <2>9. EventsOK(event', openHidden')
    BY <1>1, <1>5, EventsPush
  <2> QED
    BY <2>4, <2>6, <2>7, <2>8, <2>9 DEF Inductive
<1> QED
  BY <1>4, <1>5 DEF Unload

-----------------------------------------------------------------------------
(* The server                                                              *)

\* A request is answered.
LEMMA RespondOK ==
  ASSUME NEW s \in Slots, NEW status \in {"ok", "refused", "failed"}, NEW safe, NEW over, NEW ev,
         RequestsOK(request, safe, over, ev), request[s] # Free, Respond(s, status),
         status = "ok" => Range(request[s].batch) \subseteq safe
  PROVE  RequestsOK(request', safe, over, ev)
<1> DEFINE r == request[s]
           a == [r EXCEPT !.at = "answer", !.status = status, !.left = 0]
<1>1. r \in Requests /\ RequestOK(r, safe, over, ev)
  BY DEF RequestsOK
<1>2. request' = [request EXCEPT ![s] = IF s \in Loose \/ ~Alive(s) THEN Free ELSE a]
  BY DEF Respond, RequestsOK
<1> HIDE DEF r
<1>3. /\ a \in Requests /\ a.at = "answer" /\ a.status = status /\ a.batch = r.batch
      /\ a.left = 0
  BY <1>1 DEF Requests
<1> HIDE DEF a
<1>4. RequestOK(a, safe, over, ev)
  BY <1>1, <1>3 DEF RequestOK, r
<1> QED
  BY <1>2, <1>3, <1>4, RequestsOne

\* The loop has come to the event that is `left' from the end.
LEMMA BeginOK ==
  ASSUME NEW s \in Slots, NEW safe, NEW over, RequestsOK(request, safe, over, event), request[s] # Free,
         NEW left \in 0 .. Len(request[s].batch), Begin(s, left),
         \A i \in 1 .. Len(request[s].batch) - left : request[s].batch[i] \in safe
  PROVE  RequestsOK(request', safe, over, event)
<1> DEFINE r == request[s]
           e == r.batch[Len(r.batch) - left + 1]
           at == IF event[e].closes # 0 THEN "close" ELSE "create"
           a == [[r EXCEPT !.left = left] EXCEPT !.at = at]
<1>1. r \in Requests /\ RequestOK(r, safe, over, event) /\ r.batch \in Seq(Nat) /\ Len(r.batch) \in Nat
  BY DEF RequestsOK, Requests
<1>2. CASE left = 0
  <2>1. Range(r.batch) \subseteq safe
    BY <1>1, <1>2, RangeOf
  <2>2. Respond(s, "ok")
    BY <1>2 DEF Begin
  <2> QED
    BY <2>1, <2>2, RespondOK
<1>3. CASE left # 0
  <2>1. request' = [request EXCEPT ![s] = a]
    BY <1>3 DEF Begin, RequestsOK
  <2>2. at \in {"close", "create"} /\ (at = "create" => event[e].closes = 0)
    OBVIOUS
  <2>3. left \in Nat
    BY <1>1
  <2> HIDE DEF r, at
  <2>4. /\ a \in Requests /\ a.at = at /\ a.left = left /\ a.batch = r.batch /\ a.status = r.status
    BY <1>1, <2>2, <2>3 DEF Requests
  <2> HIDE DEF a
  <2>5. \A i \in 1 .. Len(r.batch) - left : r.batch[i] \in safe
    BY DEF r
  <2>6. left \in 1 .. Len(r.batch)
    BY <1>3, <1>1 DEF r
  <2>7. RequestOK(a, safe, over, event)
    BY <1>1, <2>4, <2>5, <2>6, <2>2 DEF RequestOK
  <2> QED
    BY <2>1, <2>4, <2>7, RequestsOne
<1> QED
  BY <1>2, <1>3

\* What comes before the event that the loop is at has been dealt with.
LEMMA EarlierSafe ==
  ASSUME NEW r \in Requests, NEW safe, NEW over, NEW ev \in Seq(Pushes), RequestOK(r, safe, over, ev),
         r.at \in {"close", "create"},
         NEW cur, cur = r.batch[Len(r.batch) - r.left + 1]
  PROVE  cur \in 1 .. Len(ev) /\ 1 .. cur - 1 \subseteq safe
<1> DEFINE k == Len(r.batch) - r.left + 1
<1>1. /\ r.batch \in Seq(Nat) /\ Len(r.batch) \in Nat /\ r.left \in 1 .. Len(r.batch)
      /\ Sound(r.batch, safe, Len(ev)) /\ k \in 1 .. Len(r.batch)
      /\ \A i \in 1 .. Len(r.batch) - r.left : r.batch[i] \in safe
  BY DEF Requests, RequestOK
<1>2. cur \in Range(r.batch) /\ cur = r.batch[k]
  BY <1>1, RangeOf
<1>3. cur \in 1 .. Len(ev) /\ 1 .. cur \subseteq Range(r.batch) \cup safe
  BY <1>1, <1>2 DEF Sound
<1>4. ASSUME NEW g \in 1 .. cur - 1 PROVE g \in safe
  <2>1. CASE g \in Range(r.batch)
    <3>1. PICK j \in 1 .. Len(r.batch) : r.batch[j] = g
      BY <1>1, <2>1, RangeOf
    <3>2. ~ (k < j)
      <4>1. k < j => r.batch[k] < r.batch[j]
        BY <1>1 DEF Sound, Increasing
      <4>2. ~ (cur < g)
        BY <1>3
      <4> QED
        BY <1>2, <3>1, <4>1, <4>2
    <3>3. j # k
      BY <1>2, <1>3, <3>1
    <3>4. j \in 1 .. Len(r.batch) - r.left
      BY <1>1, <3>2, <3>3
    <3> QED
      BY <1>1, <3>1, <3>4
  <2>2. CASE g \notin Range(r.batch)
    BY <1>3, <2>2
  <2> QED
    BY <2>1, <2>2
<1> QED
  BY <1>3, <1>4

\* A step of the server.
LEMMA ServerStays ==
  ASSUME Inductive, UNCHANGED <<client, overwritten>>, Safe \subseteq Safe',
         row' \in [Events -> {"none", "open", "ended"}], givenUp' \subseteq Events,
         RequestsOK(request', Safe', Over', event), RowsOK(row', Safe', Over', event)
  PROVE  Inductive'
<1>1. UNCHANGED <<queue, storage, openHidden, event>> /\ Len(event) \in Nat /\ Len(event) <= Len(event)
  BY Lengths DEF client
<1>2. Typed'
  BY <1>1 DEF Inductive, Typed
<1>3. QueuesOK(queue, Safe', Len(event))
  BY <1>1, QueuesGrow DEF Inductive
<1>4. Sound(storage, Safe', Len(event))
  BY <1>1, SoundGrows DEF Inductive
<1>5. Stored'
  BY <1>1 DEF Inductive, Stored, Running
<1> QED
  BY <1>1, <1>2, <1>3, <1>4, <1>5 DEF Inductive

LEMMA LoadStays ==
  ASSUME Inductive, NEW s \in Slots, LoadRoom(s)
  PROVE  Inductive'
<1>1. /\ UNCHANGED <<row, givenUp, overwritten, client>> /\ request[s] # Free /\ request[s].at = "load"
      /\ RequestsOK(request, Safe, Over, event) /\ Typed /\ RowsOK(row, Safe, Over, event)
  BY DEF LoadRoom, AtStep, server, Inductive
<1>2. Safe' = Safe /\ Over' = Over
  BY <1>1 DEF Safe, Over
<1>3. /\ request[s].left = Len(request[s].batch) /\ request[s].left \in 0 .. Len(request[s].batch)
      /\ \A i \in 1 .. Len(request[s].batch) - request[s].left : request[s].batch[i] \in Safe
  BY <1>1 DEF RequestsOK, RequestOK, Requests
<1>4. RequestsOK(request', Safe, Over, event)
  <2>1. CASE Begin(s, request[s].left)
    BY <1>1, <1>3, <2>1, BeginOK
  <2>2. CASE Respond(s, "refused")
    BY <1>1, <2>2, RespondOK
  <2> QED
    BY <2>1, <2>2 DEF LoadRoom
<1> QED
  BY <1>1, <1>2, <1>4, ServerStays DEF Typed

LEMMA FailStays ==
  ASSUME Inductive, NEW s \in Slots, Fail(s)
  PROVE  Inductive'
<1>1. /\ UNCHANGED <<row, givenUp, overwritten, client>> /\ request[s] # Free /\ Respond(s, "failed")
      /\ RequestsOK(request, Safe, Over, event) /\ Typed /\ RowsOK(row, Safe, Over, event)
  BY DEF Fail, server, Inductive
<1>2. Safe' = Safe /\ Over' = Over
  BY <1>1 DEF Safe, Over
<1>3. RequestsOK(request', Safe, Over, event)
  BY <1>1, RespondOK
<1> QED
  BY <1>1, <1>2, <1>3, ServerStays DEF Typed

LEMMA CompleteStays ==
  ASSUME Inductive, Complete
  PROVE  Inductive'
<1>1. /\ UNCHANGED <<row, givenUp, overwritten, client, request>>
      /\ RequestsOK(request, Safe, Over, event) /\ Typed /\ RowsOK(row, Safe, Over, event)
  BY DEF Complete, Inductive
<1>2. Safe' = Safe /\ Over' = Over
  BY <1>1 DEF Safe, Over
<1> QED
  BY <1>1, <1>2, ServerStays DEF Typed

LEMMA CloseStays ==
  ASSUME Inductive, NEW s \in Slots, CloseHidden(s)
  PROVE  Inductive'
<1> DEFINE r == request[s]
           h == event[Current(s)].closes
           a == [r EXCEPT !.at = "create"]
<1>1. /\ UNCHANGED <<givenUp, overwritten, client, event>> /\ r # Free /\ r.at = "close"
      /\ RequestsOK(request, Safe, Over, event) /\ Typed /\ RowsOK(row, Safe, Over, event)
      /\ EventsOK(event, openHidden) /\ row \in [Events -> {"none", "open", "ended"}]
  BY DEF CloseHidden, AtStep, Inductive, client, Typed
<1>2. r \in Requests /\ RequestOK(r, Safe, Over, event) /\ Len(event) \in Nat /\ event \in Seq(Pushes)
  BY <1>1, Lengths DEF RequestsOK, Typed
<1>3. Current(s) \in 1 .. Len(event) /\ 1 .. Current(s) - 1 \subseteq Safe
  BY <1>1, <1>2, EarlierSafe DEF Current
<1>4. h \in {0} \cup Safe
  <2>1. Current(s) \in Nat /\ h \in 0 .. Current(s) - 1
    BY <1>1, <1>2, <1>3 DEF EventsOK
  <2> HIDE DEF h
  <2>2. h = 0 \/ h \in 1 .. Current(s) - 1
    BY <2>1
  <2> QED
    BY <1>3, <2>2
<1>5. row' = (IF row[h] = "open" THEN [row EXCEPT ![h] = "ended"] ELSE row)
      /\ request' = [request EXCEPT ![s] = a]
  BY <1>1 DEF CloseHidden, Go, RequestsOK
<1> HIDE DEF h
<1>6. /\ row' \in [Events -> {"none", "open", "ended"}]
      /\ \A e \in Events : row'[e] # "none" <=> row[e] # "none"
      /\ \A e \in Events : row[e] = "ended" => row'[e] = "ended"
      /\ \A e \in Events : e = h /\ row[e] # "none" => row'[e] = "ended"
  BY <1>1, <1>5
<1>7. Safe' = Safe /\ Over \subseteq Over'
  BY <1>1, <1>6 DEF Safe, Over
<1>8. h \in {0} \cup Over'
  BY <1>1, <1>4, <1>6 DEF Safe, Over
<1>9. RequestsOK(request, Safe', Over', event) /\ RowsOK(row, Safe', Over', event)
  BY <1>1, <1>7, Lengths, RequestsGrow, RowsGrow
<1>10. RequestsOK(request', Safe', Over', event)
  <2>1. RequestOK(r, Safe', Over', event)
    BY <1>1, <1>9 DEF RequestsOK
  <2> HIDE DEF r
  <2>2. a \in Requests /\ a.at = "create" /\ a.left = r.left /\ a.batch = r.batch
    BY <1>2 DEF Requests
  <2>3. event[r.batch[Len(r.batch) - r.left + 1]].closes = h
    BY DEF h, Current, r
  <2> HIDE DEF a
  <2>4. RequestOK(a, Safe', Over', event)
    BY <1>1, <1>8, <2>1, <2>2, <2>3 DEF RequestOK
  <2> QED
    BY <1>5, <1>9, <2>2, <2>4, RequestsOne
<1>11. RowsOK(row', Safe', Over', event)
  BY <1>6, <1>9 DEF RowsOK
<1> QED
  BY <1>1, <1>6, <1>7, <1>10, <1>11, ServerStays DEF Typed

LEMMA CreateStays ==
  ASSUME Inductive, NEW s \in Slots, CreateRow(s)
  PROVE  Inductive'
<1> DEFINE r == request[s]
           e == Current(s)
<1>1. /\ UNCHANGED <<overwritten, client, event>> /\ r # Free /\ r.at = "create"
      /\ RequestsOK(request, Safe, Over, event) /\ Typed /\ RowsOK(row, Safe, Over, event)
      /\ row \in [Events -> {"none", "open", "ended"}] /\ givenUp \subseteq Events
      /\ Begin(s, r.left - 1)
  BY DEF CreateRow, AtStep, Inductive, client, Typed
<1>2. r \in Requests /\ RequestOK(r, Safe, Over, event) /\ Len(event) \in Nat /\ event \in Seq(Pushes)
  BY <1>1, Lengths DEF RequestsOK, Typed
<1>3. e \in 1 .. Len(event) /\ 1 .. e - 1 \subseteq Safe
  BY <1>1, <1>2, EarlierSafe DEF Current
<1>4. e \in Events /\ e \in Nat
  BY <1>1, <1>2, <1>3, Constants DEF Typed, Events
<1>5. event[e].closes \in {0} \cup Over /\ e = r.batch[Len(r.batch) - r.left + 1]
  BY <1>1, <1>2 DEF RequestOK, Current
<1>6. /\ \/ /\ row' = IF row[e] = "none" \/ RowOf(e) = "ended" THEN [row EXCEPT ![e] = RowOf(e)] ELSE row
            /\ givenUp' = givenUp
         \/ givenUp' = givenUp \cup {e} /\ row' = row
  BY DEF CreateRow
<1>7. RowOf(e) \in {"open", "ended"}
  BY DEF RowOf
<1> HIDE DEF e
<1>8. /\ row' \in [Events -> {"none", "open", "ended"}] /\ givenUp' \subseteq Events /\ givenUp \subseteq givenUp'
      /\ \A g \in Events : row[g] # "none" => row'[g] # "none"
      /\ \A g \in Events : row[g] = "ended" => row'[g] = "ended"
      /\ \A g \in Events : g # e => row'[g] = row[g]
      /\ row'[e] # "none" \/ e \in givenUp'
  BY <1>1, <1>4, <1>6, <1>7
<1>9. Safe \subseteq Safe' /\ Over \subseteq Over' /\ e \in Safe'
  BY <1>1, <1>4, <1>8 DEF Safe, Over
<1>10. RequestsOK(request, Safe', Over', event) /\ RowsOK(row, Safe', Over', event)
  BY <1>1, <1>9, Lengths, RequestsGrow, RowsGrow
<1>11. RowsOK(row', Safe', Over', event)
  <2>1. ASSUME NEW g \in Events, row'[g] # "none"
        PROVE  g \in 1 .. Len(event) /\ 1 .. g \subseteq Safe' /\ event[g].closes \in {0} \cup Over'
    <3>1. CASE g = e
      <4>1. ASSUME NEW f \in 1 .. e PROVE f \in Safe'
        <5>1. f = e \/ f \in 1 .. e - 1
          BY <1>4
        <5> QED
          BY <1>3, <1>9, <5>1
      <4> QED
        BY <1>3, <1>5, <1>9, <3>1, <4>1
    <3>2. CASE g # e
      BY <1>8, <1>10, <2>1, <3>2 DEF RowsOK
    <3> QED
      BY <3>1, <3>2
  <2> QED
    BY <2>1 DEF RowsOK
<1>12. RequestsOK(request', Safe', Over', event)
  <2>1. r.left \in 1 .. Len(r.batch) /\ Len(r.batch) \in Nat /\ \A i \in 1 .. Len(r.batch) - r.left : r.batch[i] \in Safe
    BY <1>1, <1>2 DEF RequestOK, Requests
  <2> HIDE DEF r
  <2>2. r.left - 1 \in 0 .. Len(r.batch)
    BY <2>1
  <2>3. ASSUME NEW i \in 1 .. Len(r.batch) - (r.left - 1) PROVE r.batch[i] \in Safe'
    <3>1. i \in 1 .. Len(r.batch) - r.left \/ i = Len(r.batch) - r.left + 1
      BY <2>1
    <3> QED
      BY <1>5, <1>9, <2>1, <3>1
  <2>4. request[s] = r /\ request[s] # Free /\ Begin(s, r.left - 1)
    BY <1>1 DEF r
  <2> QED
    BY <1>10, <2>2, <2>3, <2>4, BeginOK
<1> QED
  BY <1>1, <1>8, <1>9, <1>11, <1>12, ServerStays

-----------------------------------------------------------------------------

LEMMA InductiveStays == Inductive /\ [Next]_vars => Inductive'
<1> SUFFICES ASSUME Inductive, [Next]_vars PROVE Inductive'
  OBVIOUS
<1>1. CASE UNCHANGED vars
  <2>1. UNCHANGED <<client, server, request, givenUp, overwritten>> /\ UNCHANGED row
    BY <1>1 DEF vars, server
  <2>2. Safe' = Safe /\ Over' = Over
    BY <2>1 DEF Safe, Over
  <2> QED
    BY <2>1, <2>2, ServerStays DEF Inductive, Typed
<1>2. ASSUME NEW q \in Queues, FlushTimer(q) \/ Leave(q) PROVE Inductive'
  BY <1>2, TimerStays
<1>3. ASSUME NEW q \in Queues, Hide(q) \/ Show(q) \/ Blur(q) PROVE Inductive'
  BY <1>3, SignalStays
<1>4. ASSUME NEW q \in Queues, Answer(q) PROVE Inductive'
  BY <1>4, AnswerStays
<1>5. ASSUME NEW q \in Queues, NEW s \in Loose, LoseConnection(q, s) \/ Unload(q, s) PROVE Inductive'
  BY <1>5, LoseStays, UnloadStays
<1>6. ASSUME NEW q \in Queues, NEW seen \in BOOLEAN, Mount(q, seen) PROVE Inductive'
  BY <1>6, MountStays
<1>7. ASSUME NEW s \in Slots, Serve(s) \/ Fail(s) PROVE Inductive'
  BY <1>7, LoadStays, CloseStays, CreateStays, FailStays DEF Serve
<1>8. CASE Crash \/ Complete
  BY <1>8, CrashStays, CompleteStays
<1> QED
  BY <1>1, <1>2, <1>3, <1>4, <1>5, <1>6, <1>7, <1>8 DEF Next

-----------------------------------------------------------------------------
(* Theorems                                                                *)

\* The inductive invariant.  What the queues and the requests hold are parts of
\* the events in their order, in which an event is missing before another only
\* if it is stored or given up; so a return never reaches the database before
\* the absence it ends (proctoring-queue.ts 46-81, service.ts 45-120).
THEOREM InductiveInvariant == Spec => []Inductive
<1>1. Init => Inductive
  BY Initially
<1>2. Inductive /\ [Next]_vars => Inductive'
  BY InductiveStays
<1> QED
  BY <1>1, <1>2, PTL DEF Spec

\* However many rooms are mounted, left, reloaded and crash, and whatever calls
\* are lost or delivered twice: an event that is not stored, given up or taken
\* by a queue left behind is in the storage, where proctoring-queue.ts wrote it
\* "so a refresh, crash or brief network loss does not lose" it.
THEOREM EventsSurvive == Spec => []NothingLost
<1>1. Inductive => NothingLost
  BY DEF Inductive, Stored, Safe, NothingLost, Kept
<1> QED
  BY <1>1, InductiveInvariant, PTL

\* A return that is stored has ended the absence it returns from, whatever
\* request brought either of them (service.ts 55-66).
THEOREM ReturnsEnd == Spec => []ReturnEndsAbsence
<1>1. Inductive => ReturnEndsAbsence
  <2> SUFFICES ASSUME Inductive, NEW e \in 1 .. Len(event), row[e] # "none", event[e].closes # 0,
                      row[event[e].closes] # "none", event[e].closes \notin givenUp \cup overwritten
               PROVE  row[event[e].closes] = "ended"
    BY DEF ReturnEndsAbsence
  <2>1. e \in Events
    <3>1. Len(event) \in Nat /\ Len(event) <= MaxEvents /\ MaxEvents \in Nat
      BY Lengths, Constants DEF Inductive, Typed
    <3> QED
      BY <3>1 DEF Events
  <2>2. event[e].closes \in Over
    BY <2>1 DEF Inductive, RowsOK
  <2> QED
    BY <2>2 DEF Over
<1> QED
  BY <1>1, InductiveInvariant, PTL

\* Of the absences that are stored only the last may be open, unless the return
\* from an earlier one, or the absence itself, was given up: the tab monitor
\* reports a return before the next absence, and the rows come in that order.
THEOREM OneOpen == Spec => []OneAbsenceOpen
<1>1. Inductive => OneAbsenceOpen
  <2> SUFFICES ASSUME Inductive, NEW g \in 1 .. Len(event), NEW h \in 1 .. Len(event), g < h,
                      event[g].type = "hidden", event[h].type = "hidden", row[g] = "open", row[h] # "none"
               PROVE  \E e \in givenUp \cup overwritten : e = g \/ event[e].closes = g
    BY DEF OneAbsenceOpen
  <2>1. /\ Len(event) \in Nat /\ Len(event) <= MaxEvents /\ MaxEvents \in Nat
    BY Lengths, Constants DEF Inductive, Typed
  <2>2. g \in Events /\ h \in Events /\ h \in g + 1 .. Len(event)
    BY <2>1 DEF Events
  <2>3. PICK e \in 1 .. h : event[e].closes = g
    BY <2>2 DEF Inductive, EventsOK
  <2>4. e \in Safe
    BY <2>2 DEF Inductive, RowsOK
  <2>5. CASE e \in givenUp \cup overwritten
    BY <2>3, <2>5
  <2>6. CASE e \notin givenUp \cup overwritten
    <3>1. e \in Events /\ row[e] # "none"
      BY <2>4, <2>6 DEF Safe
    <3>2. g \in {0} \cup Over /\ g # 0
      BY <2>3, <3>1 DEF Inductive, RowsOK
    <3>3. g \in givenUp \cup overwritten
      BY <3>2 DEF Over
    <3> QED
      BY <3>3
  <2> QED
    BY <2>5, <2>6
<1> QED
  BY <1>1, InductiveInvariant, PTL
=============================================================================
