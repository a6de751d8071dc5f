---------------------------- MODULE PageProofs ----------------------------
(***************************************************************************)
(* Theorems about two components of the candidate's page.  They share no   *)
(* state, and no theorem is about both.                                    *)
(*                                                                         *)
(* FaceMonitor, for any grace periods, any time, and any number of         *)
(* disturbances: what is pushed was open, and what is open was observed.   *)
(*                                                                         *)
(* Page, for any submissions, messages, requests and losses: FollowUpOnce  *)
(* holds because what was asked is remembered, whatever the page is shown. *)
(***************************************************************************)
EXTENDS FaceMonitor, Page, TLAPS

TypeOf(kind) == IF kind = "none" THEN "FACE_NOT_DETECTED" ELSE "MULTIPLE_FACES_DETECTED"
KindOf(type) == IF type = "FACE_NOT_DETECTED" THEN "none" ELSE "multiple"
GraceOf(type) == IF KindOf(type) = "none" THEN NoneGrace ELSE MultipleGrace

\* NoFaceInside for one interval.
Inside(i, fr) ==
  i.type # "CAMERA_INTERRUPTED" =>
    /\ i.end - i.start >= GraceOf(i.type)
    /\ \A t \in i.start .. i.start + GraceOf(i.type) : fr[t] \in {KindOf(i.type), "unseen"} \/ t = i.end
    /\ \A t \in i.start .. i.end - 1 : fr[t] # "one"

\* What has been pushed until the second n.
PushedOK(ps, fr, n) ==
  /\ ps \in Seq(Intervals)
  /\ \A j \in 1 .. Len(ps) : ps[j].end <= n /\ Inside(ps[j], fr)
  /\ \A i, j \in 1 .. Len(ps) :
       i < j /\ ps[i].type = ps[j].type => ps[i].end <= ps[j].start \/ \E k \in i .. j - 1 : ps[k].by = "break"

\* An interval of this type that begins in the second `start' may come next.
MayFollow(ps, type, start) ==
  \A i \in 1 .. Len(ps) :
    ps[i].type = type => ps[i].end <= start \/ \E k \in i .. Len(ps) : ps[k].by = "break"

\* The grace period is over, and no single face has been seen until the second n.
Faceless(type, start, fr, n) ==
  type # "CAMERA_INTERRUPTED" =>
    /\ start + GraceOf(type) <= n
    /\ \A t \in start .. start + GraceOf(type) : fr[t] \in {KindOf(type), "unseen"}
    /\ \A t \in start .. n : fr[t] # "one"

\* The open interval, which is not younger than what is being observed.
OpenOK(o, si, ps, fr, n) ==
  o # Nothing =>
    /\ Faceless(o.type, o.start, fr, n) /\ MayFollow(ps, o.type, o.start)
    /\ o.type # "CAMERA_INTERRUPTED" => si # Nothing /\ o.start <= si.since

\* What is being observed is all that has been seen since then; as long as the
\* room is shown it may become an interval.
SinceOK(si, ps, fr, n, shown) ==
  si # Nothing =>
    /\ \A t \in si.since .. n : fr[t] \in {si.kind, "unseen"}
    /\ shown /\ si.kind # "one" => MayFollow(ps, TypeOf(si.kind), si.since)

\* Frames without a face until the second n have been observed from the first of them on.
Observed(si, fr, n) ==
  \A u \in 1 .. n : (\A v \in u .. n : fr[v] = "none") => si # Nothing /\ si.kind = "none" /\ si.since <= u

\* The second t of an absence is in an interval that was pushed or dropped, or is open.
Reported(ps, dr, o, t) ==
  \/ \E j \in 1 .. Len(ps) : ps[j].type = "FACE_NOT_DETECTED" /\ ps[j].start <= t - NoneGrace /\ t <= ps[j].end
  \/ \E i \in dr : i.type = "FACE_NOT_DETECTED" /\ i.start <= t - NoneGrace /\ t <= i.end
  \/ o # Nothing /\ o.type = "FACE_NOT_DETECTED" /\ o.start <= t - NoneGrace

Absent(t, fr) == t > NoneGrace /\ \A u \in t - NoneGrace .. t : fr[u] = "none"

\* The camera: what is on and has not escaped is what streamRef holds.
CameraTyped ==
  /\ stage \in Stages /\ mounted \in BOOLEAN
  /\ starting \in [Starts -> Progress]
  /\ live \subseteq Starts /\ held \in Starts \cup {NoStart} /\ escaped \subseteq Starts
  /\ camera \in {"idle", "requesting", "active", "interrupted", "denied", "failed"}
  /\ timer \in BOOLEAN /\ detector \in BOOLEAN

CameraOK == CameraTyped /\ live \subseteq escaped \cup {held} /\ CameraReleased

Inductive ==
  /\ TypeOK /\ CameraOK
  /\ PushedOK(pushed, frames, now)
  /\ OpenOK(open, since, pushed, frames, now)
  /\ SinceOK(since, pushed, frames, now, mounted)
  /\ Observed(since, frames, now)
  /\ \A t \in 1 .. now : Absent(t, frames) => Reported(pushed, dropped, open, t)

-----------------------------------------------------------------------------
(* Intervals                                                               *)

LEMMA Constants ==
  /\ NoneGrace \in Nat /\ MultipleGrace \in Nat /\ NoneGrace > 0 /\ MultipleGrace > 0 /\ MaxTime \in Nat
  /\ \A type : GraceOf(type) \in Nat
  BY FaceMonitorAssumption DEF GraceOf

LEMMA NotNothing ==
  ASSUME NEW type, NEW start
  PROVE  [type |-> type, start |-> start] # Nothing
<1> SUFFICES ASSUME [type |-> type, start |-> start] = Nothing PROVE FALSE
  OBVIOUS
<1>1. DOMAIN [type |-> type, start |-> start] = DOMAIN Nothing
  OBVIOUS
<1>2. "none" \in DOMAIN Nothing /\ "none" \notin DOMAIN [type |-> type, start |-> start]
  BY DEF Nothing
<1> QED
  BY <1>1, <1>2

\* What was pushed stays right while further frames are seen.
LEMMA PushedGrows ==
  ASSUME NEW ps, NEW fr, NEW fr2, NEW n \in Nat, NEW m \in Nat, PushedOK(ps, fr, n), n <= m,
         \A t \in 0 .. n : fr2[t] = fr[t]
  PROVE  PushedOK(ps, fr2, m)
<1>1. ASSUME NEW j \in 1 .. Len(ps) PROVE ps[j].end <= m /\ Inside(ps[j], fr2)
  <2>1. ps[j] \in Intervals /\ ps[j].end <= n /\ Inside(ps[j], fr)
    BY DEF PushedOK
  <2>2. ps[j].start \in Nat /\ ps[j].end \in Nat /\ GraceOf(ps[j].type) \in Nat
    BY <2>1, Constants DEF Intervals, Times
  <2>3. ASSUME ps[j].type # "CAMERA_INTERRUPTED", NEW t \in ps[j].start .. ps[j].end PROVE fr2[t] = fr[t]
    <3>1. t \in 0 .. n
      BY <2>1, <2>2, <2>3
    <3> QED
      BY <3>1
  <2>4. ps[j].end <= m
    BY <2>1, <2>2
  <2> QED
    BY <2>1, <2>2, <2>3, <2>4 DEF Inside
<1> QED
  BY <1>1 DEF PushedOK

\* The open interval is pushed, in the second `end'.
LEMMA PushedAppend ==
  ASSUME NEW ps, NEW o \in [type : Types, start : Times], NEW si, NEW fr, NEW fr2, NEW n \in Nat, NEW end \in Times,
         NEW by \in {"frame", "break", "stop"},
         PushedOK(ps, fr, n), OpenOK(o, si, ps, fr, n), o # Nothing, o.start <= n,
         \A t \in 0 .. n : fr2[t] = fr[t], end \in {n, n + 1}
  PROVE  PushedOK(Append(ps, [type |-> o.type, start |-> o.start, end |-> end, by |-> by]), fr2, end)
<1> DEFINE x == [type |-> o.type, start |-> o.start, end |-> end, by |-> by]
           t2 == Append(ps, x)
<1>1. PushedOK(ps, fr2, end) /\ ps \in Seq(Intervals) /\ end \in Nat /\ n <= end /\ o.start \in Nat
  <2>1. end \in Nat /\ n <= end /\ ps \in Seq(Intervals) /\ o.start \in Nat
    BY Constants DEF Times, PushedOK
  <2> QED
    BY <2>1, PushedGrows
<1>2. x \in Intervals
  BY DEF Intervals
<1>3. x.type = o.type /\ x.start = o.start /\ x.end = end /\ x.by = by
  OBVIOUS
<1> HIDE DEF x
<1>4. /\ t2 \in Seq(Intervals) /\ Len(t2) = Len(ps) + 1 /\ Len(ps) \in Nat
      /\ \A j \in 1 .. Len(t2) : t2[j] = IF j <= Len(ps) THEN ps[j] ELSE x
  BY <1>1, <1>2
<1> HIDE DEF t2
<1>5. Inside(x, fr2)
  <2>1. CASE x.type # "CAMERA_INTERRUPTED"
    <3>1. /\ GraceOf(x.type) \in Nat /\ x.start + GraceOf(x.type) <= n
          /\ \A t \in x.start .. x.start + GraceOf(x.type) : fr[t] \in {KindOf(x.type), "unseen"}
          /\ \A t \in x.start .. n : fr[t] # "one"
      BY <1>3, <2>1, Constants DEF OpenOK, Faceless
    <3>2. \A t \in x.start .. n : fr2[t] = fr[t]
      BY <1>1, <1>3
    <3>3. x.end - x.start >= GraceOf(x.type)
      BY <1>1, <1>3, <3>1
    <3>4. ASSUME NEW t \in x.start .. x.start + GraceOf(x.type) PROVE fr2[t] \in {KindOf(x.type), "unseen"}
      <4>1. t \in x.start .. n
        BY <1>1, <1>3, <3>1
      <4> QED
        BY <3>1, <3>2, <4>1
    <3>5. ASSUME NEW t \in x.start .. x.end - 1 PROVE fr2[t] # "one"
      <4>1. t \in x.start .. n
        BY <1>1, <1>3
      <4> QED
        BY <3>1, <3>2, <4>1
    <3> QED
      BY <3>3, <3>4, <3>5 DEF Inside
  <2> QED
    BY <2>1 DEF Inside
<1>6. ASSUME NEW j \in 1 .. Len(t2) PROVE t2[j].end <= end /\ Inside(t2[j], fr2)
  <2>1. CASE j <= Len(ps)
    <3>1. j \in 1 .. Len(ps) /\ t2[j] = ps[j]
      BY <1>4, <2>1
    <3> QED
      BY <1>1, <3>1 DEF PushedOK
  <2>2. CASE ~ (j <= Len(ps))
    BY <1>1, <1>3, <1>4, <1>5, <2>2
  <2> QED
    BY <2>1, <2>2
<1>7. ASSUME NEW i \in 1 .. Len(t2), NEW j \in 1 .. Len(t2), i < j, t2[i].type = t2[j].type
      PROVE  t2[i].end <= t2[j].start \/ \E k \in i .. j - 1 : t2[k].by = "break"
  <2>1. i \in 1 .. Len(ps) /\ t2[i] = ps[i]
    BY <1>4, <1>7
  <2>2. CASE j <= Len(ps)
    <3>1. j \in 1 .. Len(ps) /\ t2[j] = ps[j] /\ \A k \in i .. j - 1 : t2[k] = ps[k]
      BY <1>4, <2>2
    <3> QED
      BY <1>1, <1>7, <2>1, <3>1 DEF PushedOK
  <2>3. CASE ~ (j <= Len(ps))
    <3>1. j = Len(ps) + 1 /\ t2[j] = x /\ \A k \in i .. Len(ps) : t2[k] = ps[k]
      BY <1>4, <2>3
    <3>2. ps[i].type = o.type
      BY <1>3, <1>7, <2>1, <3>1
    <3>3. ps[i].end <= o.start \/ \E k \in i .. Len(ps) : ps[k].by = "break"
      BY <2>1, <3>2 DEF OpenOK, MayFollow
    <3>4. j - 1 = Len(ps)
      BY <1>4, <3>1
    <3> QED
      BY <1>3, <2>1, <3>1, <3>3, <3>4
  <2> QED
    BY <2>2, <2>3
<1> QED
  BY <1>4, <1>6, <1>7 DEF PushedOK, t2, x

\* What may follow may still follow another interval that is over, broken off or
\* of another type.
LEMMA MayFollowAppend ==
  ASSUME NEW ps \in Seq(Intervals), NEW x \in Intervals, NEW type, NEW start,
         x.type = type => x.end <= start \/ x.by = "break",
         MayFollow(ps, type, start) \/ x.by = "break"
  PROVE  MayFollow(Append(ps, x), type, start)
<1> DEFINE t2 == Append(ps, x)
<1>1. /\ t2 \in Seq(Intervals) /\ Len(t2) = Len(ps) + 1 /\ Len(ps) \in Nat
      /\ \A j \in 1 .. Len(t2) : t2[j] = IF j <= Len(ps) THEN ps[j] ELSE x
  OBVIOUS
<1> HIDE DEF t2
<1>2. t2[Len(t2)] = x /\ Len(t2) \in 1 .. Len(t2)
  BY <1>1
<1>3. ASSUME NEW i \in 1 .. Len(t2), t2[i].type = type
      PROVE  t2[i].end <= start \/ \E k \in i .. Len(t2) : t2[k].by = "break"
  <2>1. CASE i = Len(t2) \/ x.by = "break"
    <3>1. Len(t2) \in i .. Len(t2)
      BY <1>1
    <3> QED
      BY <1>2, <1>3, <2>1, <3>1
  <2>2. CASE i # Len(t2) /\ x.by # "break"
    <3>1. i \in 1 .. Len(ps) /\ t2[i] = ps[i] /\ ps[i].type = type
      BY <1>1, <1>3, <2>2
    <3>2. ps[i].end <= start \/ \E k \in i .. Len(ps) : ps[k].by = "break"
      BY <2>2, <3>1 DEF MayFollow
    <3>3. \A k \in i .. Len(ps) : k \in i .. Len(t2) /\ t2[k] = ps[k]
      BY <1>1
    <3> QED
      BY <3>1, <3>2, <3>3
  <2> QED
    BY <2>1, <2>2
<1> QED
  BY <1>3 DEF MayFollow, t2

\* Everything that was pushed is over in the second n.
LEMMA MayFollowLater ==
  ASSUME NEW ps, NEW fr, NEW n \in Nat, PushedOK(ps, fr, n), NEW type, NEW start \in Nat, n <= start
  PROVE  MayFollow(ps, type, start)
<1>1. ASSUME NEW i \in 1 .. Len(ps) PROVE ps[i].end <= start
  <2>1. ps[i] \in Intervals /\ ps[i].end <= n
    BY DEF PushedOK
  <2>2. ps[i].end \in Nat
    BY <2>1, Constants DEF Intervals, Times
  <2> QED
    BY <2>1, <2>2
<1> QED
  BY <1>1 DEF MayFollow

LEMMA TypedOpen ==
  ASSUME TypeOK
  PROVE  /\ now \in Nat /\ now \in Times /\ now <= MaxTime
         /\ open # Nothing => /\ open \in [type : Types, start : Times] /\ open.start \in 0 .. now
                              /\ open = [type |-> open.type, start |-> open.start]
         /\ pushed \in Seq(Intervals) /\ dropped \subseteq Intervals
<1>1. now \in Times /\ now \in Nat /\ now <= MaxTime
  BY Constants DEF TypeOK, Times
<1>2. ASSUME open # Nothing PROVE open \in [type : Types, start : Times] /\ open.start \in 0 .. now
  <2>1. open \in [type : Types, start : 0 .. now]
    BY <1>2 DEF TypeOK
  <2>2. 0 .. now \subseteq Times
    BY <1>1, Constants DEF Times
  <2> QED
    BY <2>1, <2>2
<1> QED
  BY <1>1, <1>2 DEF TypeOK

\* closeInterval, in this second or the next.
LEMMA CloseOK ==
  ASSUME Inductive, NEW end \in Times, end \in {now, now + 1}, NEW by \in {"frame", "break", "stop"},
         NEW rec \in BOOLEAN, NEW fr, \A t \in 0 .. now : fr[t] = frames[t],
         NEW next, next = CloseInterval(end, by, rec)
  PROVE  /\ next.open = Nothing /\ next.dropped \subseteq Intervals
         /\ PushedOK(next.pushed, fr, end)
         /\ \A type, start : /\ MayFollow(pushed, type, start) \/ (by = "break" /\ rec /\ open # Nothing)
                             /\ open = Nothing \/ open.type # type \/ by = "break"
                             => MayFollow(next.pushed, type, start)
         /\ ~rec => next.pushed = pushed
         /\ \A t \in 1 .. now : Reported(pushed, dropped, open, t) => Reported(next.pushed, next.dropped, Nothing, t)
<1> DEFINE x == [type |-> open.type, start |-> open.start, end |-> end, by |-> by]
<1>1. TypeOK /\ PushedOK(pushed, frames, now) /\ OpenOK(open, since, pushed, frames, now) /\ now \in Nat
      /\ pushed \in Seq(Intervals) /\ dropped \subseteq Intervals
  BY TypedOpen DEF Inductive
<1>2. /\ next.open = Nothing
      /\ next.pushed = IF open # Nothing /\ rec THEN Append(pushed, x) ELSE pushed
      /\ next.dropped = IF open # Nothing /\ ~rec THEN dropped \cup {x} ELSE dropped
  BY DEF CloseInterval, Closed
<1>3. open # Nothing => x \in Intervals /\ x.type = open.type /\ x.start = open.start /\ x.end = end /\ x.by = by
  BY <1>1, TypedOpen DEF Intervals
<1>4. PushedOK(pushed, fr, end)
  <2>1. end \in Nat /\ now <= end
    BY <1>1
  <2> QED
    BY <1>1, <2>1, PushedGrows
<1>5. PushedOK(next.pushed, fr, end)
  <2>1. open # Nothing => PushedOK(Append(pushed, x), fr, end)
    <3> SUFFICES ASSUME open # Nothing PROVE PushedOK(Append(pushed, x), fr, end)
      OBVIOUS
    <3>1. open \in [type : Types, start : Times] /\ open.start <= now
      BY <1>1, TypedOpen
    <3> QED
      BY <1>1, <3>1, PushedAppend
  <2> QED
    BY <1>2, <1>4, <2>1
<1> HIDE DEF x
<1>6. ASSUME NEW type, NEW start, MayFollow(pushed, type, start) \/ (by = "break" /\ rec /\ open # Nothing),
             open = Nothing \/ open.type # type \/ by = "break"
      PROVE  MayFollow(next.pushed, type, start)
  <2>1. CASE open # Nothing /\ rec
    BY <1>1, <1>2, <1>3, <1>6, <2>1, MayFollowAppend
  <2>2. CASE ~ (open # Nothing /\ rec)
    BY <1>2, <1>6, <2>2
  <2> QED
    BY <2>1, <2>2
<1>7. ASSUME NEW t \in 1 .. now, Reported(pushed, dropped, open, t)
      PROVE  Reported(next.pushed, next.dropped, Nothing, t)
  <2>1. CASE \E j \in 1 .. Len(pushed) :
               pushed[j].type = "FACE_NOT_DETECTED" /\ pushed[j].start <= t - NoneGrace /\ t <= pushed[j].end
    <3>1. PICK j \in 1 .. Len(pushed) :
            pushed[j].type = "FACE_NOT_DETECTED" /\ pushed[j].start <= t - NoneGrace /\ t <= pushed[j].end
      BY <2>1
    <3>2. j \in 1 .. Len(next.pushed) /\ next.pushed[j] = pushed[j]
      BY <1>1, <1>2, <1>3
    <3> QED
      BY <3>1, <3>2 DEF Reported
  <2>2. CASE \E i \in dropped : i.type = "FACE_NOT_DETECTED" /\ i.start <= t - NoneGrace /\ t <= i.end
    <3>1. dropped \subseteq next.dropped
      BY <1>2
    <3> QED
      BY <2>2, <3>1 DEF Reported
  <2>3. CASE open # Nothing /\ open.type = "FACE_NOT_DETECTED" /\ open.start <= t - NoneGrace
    <3>1. t <= end
      BY <1>1
    <3>2. CASE rec
      <4>1. Len(next.pushed) \in 1 .. Len(next.pushed) /\ next.pushed[Len(next.pushed)] = x
        BY <1>1, <1>2, <1>3, <2>3, <3>2
      <4> QED
        BY <1>3, <2>3, <3>1, <4>1 DEF Reported
    <3>3. CASE ~rec
      <4>1. x \in next.dropped
        BY <1>2, <2>3, <3>3
      <4> QED
        BY <1>3, <2>3, <3>1, <4>1 DEF Reported
    <3> QED
      BY <3>2, <3>3
  <2> QED
    BY <1>7, <2>1, <2>2, <2>3 DEF Reported
<1>8. next.dropped \subseteq Intervals
  BY <1>1, <1>2, <1>3
<1>9. ~rec => next.pushed = pushed
  BY <1>2
<1> QED
  BY <1>2, <1>5, <1>6, <1>7, <1>8, <1>9

-----------------------------------------------------------------------------
(* Steps within a second                                                   *)

LEMMA Initially == Init => Inductive
<1> SUFFICES ASSUME Init PROVE Inductive
  OBVIOUS
<1>1. now = 0 /\ pushed = <<>> /\ Len(pushed) = 0 /\ open = Nothing /\ since = Nothing
      /\ frames = [t \in Times |-> "unseen"] /\ 0 \in Times /\ pushed \in Seq(Intervals)
  BY Constants DEF Init, Times
<1>2. CameraOK
  BY DEF Init, CameraOK, CameraTyped, CameraReleased, Stages, Progress
<1>3. TypeOK
  <2>1. now \in Times /\ disturbed \in 0 .. MaxDisturbances
    BY <1>1, FaceMonitorAssumption DEF Init
  <2>2. frames \in [Times -> Kinds \cup {"unseen"}] /\ dropped \subseteq Intervals
    BY <1>1 DEF Init
  <2> QED
    BY <1>1, <1>2, <2>1, <2>2 DEF TypeOK, CameraOK, CameraTyped
<1>4. PushedOK(pushed, frames, now) /\ OpenOK(open, since, pushed, frames, now)
  BY <1>1 DEF PushedOK, OpenOK
<1>5. SinceOK(since, pushed, frames, now, mounted) /\ Observed(since, frames, now)
  BY <1>1 DEF SinceOK, Observed
<1> QED
  BY <1>1, <1>2, <1>3, <1>4, <1>5 DEF Inductive

\* One call of start() goes on, and the others do not.
LEMMA GoesOnTyped ==
  ASSUME CameraTyped, NEW c \in Starts, NEW from, NEW to \in Progress, GoesOn(c, from, to)
  PROVE  /\ starting' \in [Starts -> Progress] /\ starting[c] = from
         /\ starting'[c] = to /\ \A d \in Starts \ {c} : starting'[d] = starting[d]
<1>1. starting \in [Starts -> Progress] /\ starting[c] = from /\ starting' = [starting EXCEPT ![c] = to]
  BY DEF CameraTyped, GoesOn
<1> QED
  BY <1>1

\* The camera, whatever is reported.
LEMMA StartsStay ==
  ASSUME CameraOK, NEW c \in Starts,
         Start(c) \/ Granted(c) \/ Denied(c) \/ Played(c) \/ Loaded(c) \/ TrackEnded(c)
  PROVE  CameraOK'
<1>1. CameraTyped /\ live \subseteq escaped \cup {held} /\ CameraReleased
  BY DEF CameraOK
<1>2. CASE Start(c)
  <2>1. /\ starting' \in [Starts -> Progress]
        /\ camera' = "requesting" /\ UNCHANGED <<stage, mounted, live, held, timer, detector, escaped>>
    BY <1>1, <1>2, GoesOnTyped DEF Start, Progress
  <2> QED
    BY <1>1, <2>1 DEF CameraOK, CameraTyped, CameraReleased
<1>3. CASE Granted(c)
  <2>1. /\ starting' \in [Starts -> Progress]
        /\ starting'[c] = "playing" /\ \A d \in Starts \ {c} : starting'[d] = starting[d]
    BY <1>1, <1>3, GoesOnTyped DEF Granted, Progress
  <2>2. /\ live' = live \cup {c} /\ held' = c /\ UNCHANGED <<stage, mounted, camera, timer, detector>>
        /\ escaped' = escaped \cup (live \cap {held}) \cup (IF mounted /\ stage # "completed" THEN {} ELSE {c})
    BY <1>3 DEF Granted
  <2>3. escaped' \subseteq Starts /\ live' \subseteq escaped' \cup {held'}
    BY <1>1, <2>2 DEF CameraTyped
  <2>4. live' \ escaped' \subseteq {c}
    BY <2>2, <2>3
  <2>5. c \notin escaped' => mounted /\ stage # "completed"
    BY <2>2
  <2>6. CameraReleased'
    BY <2>1, <2>2, <2>4, <2>5 DEF CameraReleased
  <2> QED
    BY <1>1, <2>1, <2>2, <2>3, <2>6 DEF CameraOK, CameraTyped
<1>4. CASE Denied(c)
  <2>1. /\ starting' \in [Starts -> Progress]
        /\ camera' \in {"denied", "failed"} /\ UNCHANGED <<stage, mounted, live, held, timer, detector, escaped>>
    BY <1>1, <1>4, GoesOnTyped DEF Denied, Progress
  <2> QED
    BY <1>1, <2>1 DEF CameraOK, CameraTyped, CameraReleased
<1>5. CASE Played(c)
  <2>1. /\ starting' \in [Starts -> Progress]
        /\ camera' = "active" /\ UNCHANGED <<stage, mounted, live, held, detector, escaped>>
        /\ timer' = (timer \/ detector)
    BY <1>1, <1>5, GoesOnTyped DEF Played, Progress
  <2>2. timer' \in BOOLEAN
    BY <2>1
  <2> QED
    BY <1>1, <2>1, <2>2 DEF CameraOK, CameraTyped, CameraReleased
<1>6. CASE Loaded(c)
  <2>1. /\ starting' \in [Starts -> Progress]
        /\ starting[c] = "loading" /\ \A d \in Starts \ {c} : starting'[d] = starting[d]
        /\ UNCHANGED <<stage, mounted, live, held, camera, escaped>>
        /\ (detector' = TRUE /\ timer' = TRUE) \/ UNCHANGED <<detector, timer>>
    BY <1>1, <1>6, GoesOnTyped DEF Loaded, Progress
  <2>2. timer' \in BOOLEAN /\ detector' \in BOOLEAN
    BY <1>1, <2>1 DEF CameraTyped
  <2>3. CameraReleased'
    BY <1>1, <2>1 DEF CameraReleased, CameraTyped
  <2> QED
    BY <1>1, <2>1, <2>2, <2>3 DEF CameraOK, CameraTyped
<1>7. CASE TrackEnded(c)
  <2>1. /\ live' = live \ {c} /\ camera' = "interrupted" /\ timer' = FALSE
        /\ UNCHANGED <<stage, mounted, starting, held, detector, escaped>>
    BY <1>7 DEF TrackEnded
  <2>2. CameraReleased'
    BY <1>1, <2>1 DEF CameraReleased
  <2> QED
    BY <1>1, <2>1, <2>2 DEF CameraOK, CameraTyped
<1> QED
  BY <1>2, <1>3, <1>4, <1>5, <1>6, <1>7

LEMMA CameraStays ==
  ASSUME CameraOK, [Next]_vars
  PROVE  CameraOK'
<1>1. CameraTyped /\ live \subseteq escaped \cup {held} /\ CameraReleased
  BY DEF CameraOK
<1>2. CASE UNCHANGED <<stage, mounted, starting, live, held, camera, timer, detector, escaped>>
  BY <1>1, <1>2 DEF CameraOK, CameraTyped, CameraReleased
<1>3. CASE UNCHANGED vars \/ Second \/ PageHide
  <2>1. UNCHANGED <<stage, mounted, starting, live, held, camera, timer, detector, escaped>>
    BY <1>3 DEF vars, Second, PageHide, monitor
  <2> QED
    BY <1>2, <2>1
<1>4. CASE Released /\ UNCHANGED <<starting, escaped>> /\ stage' \in Stages /\ mounted' \in BOOLEAN
  <2>1. timer' = FALSE /\ detector' = FALSE /\ held' = NoStart /\ camera' = "idle" /\ live' = live \ {held}
    BY <1>4 DEF Released
  <2>2. live' \subseteq escaped'
    BY <1>1, <1>4, <2>1
  <2>3. CameraReleased'
    BY <2>2 DEF CameraReleased
  <2> QED
    BY <1>1, <1>4, <2>1, <2>2, <2>3 DEF CameraOK, CameraTyped
<1>5. CASE TurnOff \/ Completed \/ Unmount
  <2>1. Released /\ UNCHANGED <<starting, escaped>>
    BY <1>5 DEF TurnOff, Completed, Unmount
  <2>2. stage' \in Stages /\ mounted' \in BOOLEAN
    BY <1>1, <1>5 DEF TurnOff, Completed, Unmount, CameraTyped, Stages
  <2> QED
    BY <1>4, <2>1, <2>2
<1>6. CASE StartInterview \/ Cancelled
  <2>1. /\ stage' \in {"on", "unrecorded", "cancelled"}
        /\ UNCHANGED <<mounted, starting, live, held, camera, timer, detector, escaped>> /\ mounted
    BY <1>6 DEF StartInterview, Cancelled, monitor
  <2>2. CameraReleased'
    BY <1>1, <2>1 DEF CameraReleased
  <2>3. stage' \in Stages
    BY <2>1 DEF Stages
  <2> QED
    BY <1>1, <2>1, <2>2, <2>3 DEF CameraOK, CameraTyped
<1>7. CASE \E c \in Starts : Start(c) \/ Granted(c) \/ Denied(c) \/ Played(c) \/ Loaded(c) \/ TrackEnded(c)
  BY <1>7, StartsStay
<1> QED
  BY <1>3, <1>5, <1>6, <1>7 DEF Next

\* The camera changes, and the report does not.
LEMMA QuietStays ==
  ASSUME Inductive, CameraOK', UNCHANGED <<now, mounted, frames, open, since, pushed, dropped, disturbed>>
  PROVE  Inductive'
<1>1. TypeOK'
  BY DEF Inductive, TypeOK, CameraOK, CameraTyped
<1> QED
  BY <1>1 DEF Inductive

\* The report changes within a second.
LEMMA SameSecond ==
  ASSUME Inductive, UNCHANGED <<now, since, frames>>, TypeOK', CameraOK',
         PushedOK(pushed', frames, now), OpenOK(open', since, pushed', frames, now),
         mounted' => mounted /\ \A type, start : MayFollow(pushed, type, start) => MayFollow(pushed', type, start),
         \A t \in 1 .. now : Reported(pushed, dropped, open, t) => Reported(pushed', dropped', open', t)
  PROVE  Inductive'
<1>1. SinceOK(since, pushed', frames, now, mounted')
  BY DEF Inductive, SinceOK
<1>2. \A t \in 1 .. now : Absent(t, frames) => Reported(pushed', dropped', open', t)
  BY DEF Inductive
<1> QED
  BY <1>1, <1>2 DEF Inductive

\* The open interval, if there is one, is closed within a second.
LEMMA ClosingStays ==
  ASSUME Inductive, CameraOK', NEW by \in {"break", "stop"}, NEW rec \in BOOLEAN,
         Becomes(CloseInterval(now, by, rec)), UNCHANGED <<now, since, frames>>,
         disturbed' \in 0 .. MaxDisturbances, mounted' => mounted /\ (by = "break" \/ ~rec)
  PROVE  Inductive'
<1> DEFINE next == CloseInterval(now, by, rec)
<1>1. open' = next.open /\ pushed' = next.pushed /\ dropped' = next.dropped
  BY DEF Becomes
<1>2. TypeOK /\ now \in Times /\ now \in Nat
  BY TypedOpen DEF Inductive
<1> HIDE DEF next
<1>3. /\ next.open = Nothing /\ next.dropped \subseteq Intervals
      /\ PushedOK(next.pushed, frames, now)
      /\ \A type, start : /\ MayFollow(pushed, type, start) \/ (by = "break" /\ rec /\ open # Nothing)
                          /\ open = Nothing \/ open.type # type \/ by = "break"
                          => MayFollow(next.pushed, type, start)
      /\ ~rec => next.pushed = pushed
      /\ \A t \in 1 .. now : Reported(pushed, dropped, open, t) => Reported(next.pushed, next.dropped, Nothing, t)
  <2>1. next = CloseInterval(now, by, rec) /\ by \in {"frame", "break", "stop"} /\ now \in {now, now + 1}
        /\ \A t \in 0 .. now : frames[t] = frames[t]
    BY DEF next
  <2> QED
    BY <1>2, <2>1, CloseOK
<1>4. TypeOK'
  BY <1>1, <1>2, <1>3 DEF TypeOK, PushedOK, CameraOK, CameraTyped
<1>6. OpenOK(open', since, pushed', frames, now)
  BY <1>1, <1>3 DEF OpenOK
<1>7. mounted' => mounted /\ \A type, start : MayFollow(pushed, type, start) => MayFollow(pushed', type, start)
  BY <1>1, <1>3
<1> QED
  BY <1>1, <1>3, <1>4, <1>6, <1>7, SameSecond

LEMMA RoomStays ==
  ASSUME Inductive, CameraOK', TurnOff \/ Completed \/ PageHide \/ Unmount
  PROVE  Inductive'
<1>1. disturbed \in 0 .. MaxDisturbances /\ MaxDisturbances \in Nat
  BY FaceMonitorAssumption DEF Inductive, TypeOK
<1>2. CASE TurnOff \/ Completed
  <2>1. /\ Becomes(CloseInterval(now, "stop", FALSE)) /\ UNCHANGED <<now, since, frames, disturbed>>
        /\ "stop" \in {"break", "stop"} /\ FALSE \in BOOLEAN /\ mounted
    BY <1>2 DEF TurnOff, Completed
  <2> QED
    BY <1>1, <2>1, ClosingStays
<1>3. CASE PageHide
  <2>1. /\ Becomes(CloseInterval(now, "break", stage = "on")) /\ UNCHANGED <<now, since, frames>>
        /\ "break" \in {"break", "stop"} /\ (stage = "on") \in BOOLEAN /\ mounted
        /\ disturbed < MaxDisturbances /\ disturbed' = disturbed + 1
    BY <1>3 DEF PageHide, Disturb
  <2>2. disturbed' \in 0 .. MaxDisturbances
    BY <1>1, <2>1
  <2> QED
    BY <2>1, <2>2, ClosingStays
<1>4. CASE Unmount
  <2>1. /\ Becomes(CloseInterval(now, "stop", stage = "on")) /\ UNCHANGED <<now, since, frames, disturbed>>
        /\ "stop" \in {"break", "stop"} /\ (stage = "on") \in BOOLEAN /\ ~mounted'
    BY <1>4 DEF Unmount
  <2> QED
    BY <1>1, <2>1, ClosingStays
<1> QED
  BY <1>2, <1>3, <1>4

LEMMA PlayedStays ==
  ASSUME Inductive, CameraOK', NEW c \in Starts, Played(c)
  PROVE  Inductive'
<1>1. UNCHANGED <<now, mounted, since, frames, disturbed>> /\ disturbed \in 0 .. MaxDisturbances
  BY DEF Played, Inductive, TypeOK
<1>2. CASE Becomes(CloseInterval(now, "break", stage = "on"))
  <2>1. "break" \in {"break", "stop"} /\ (stage = "on") \in BOOLEAN /\ (mounted' => mounted)
    BY <1>1
  <2> QED
    BY <1>1, <1>2, <2>1, ClosingStays
<1>3. CASE UNCHANGED <<open, pushed, dropped>>
  BY <1>1, <1>3, QuietStays
<1> QED
  BY <1>2, <1>3 DEF Played

LEMMA TrackStays ==
  ASSUME Inductive, CameraOK', NEW c \in Starts, TrackEnded(c)
  PROVE  Inductive'
<1> DEFINE next == OpenInterval("CAMERA_INTERRUPTED", now, now, "break", stage = "on")
           closed == CloseInterval(now, "break", stage = "on")
           o == [type |-> "CAMERA_INTERRUPTED", start |-> now]
<1>1. /\ TypeOK /\ disturbed \in 0 .. MaxDisturbances /\ MaxDisturbances \in Nat
      /\ now \in Times /\ now \in Nat /\ PushedOK(pushed, frames, now)
  BY TypedOpen, FaceMonitorAssumption DEF Inductive, TypeOK
<1>2. /\ UNCHANGED <<now, mounted, since, frames>>
      /\ disturbed' = disturbed + 1 /\ disturbed < MaxDisturbances
      /\ open' = next.open /\ pushed' = next.pushed /\ dropped' = next.dropped
  BY DEF TrackEnded, Becomes, Disturb
<1>3. disturbed' \in 0 .. MaxDisturbances
  BY <1>1, <1>2
<1>4. CASE open # Nothing /\ open.type = "CAMERA_INTERRUPTED"
  <2>1. UNCHANGED <<open, pushed, dropped>>
    BY <1>2, <1>4 DEF OpenInterval
  <2>2. TypeOK'
    BY <1>1, <1>2, <1>3, <2>1 DEF TypeOK, CameraOK, CameraTyped
  <2> QED
    BY <1>2, <2>1, <2>2 DEF Inductive
<1>5. CASE ~ (open # Nothing /\ open.type = "CAMERA_INTERRUPTED")
  <2>1. next = [closed EXCEPT !.open = o]
    BY <1>5 DEF OpenInterval
  <2>2. next.open = o /\ next.pushed = closed.pushed /\ next.dropped = closed.dropped
    BY <2>1 DEF CloseInterval
  <2> HIDE DEF next, closed
  <2>3. /\ closed.dropped \subseteq Intervals
        /\ PushedOK(closed.pushed, frames, now)
        /\ \A type, start : /\ MayFollow(pushed, type, start) \/ ("break" = "break" /\ stage = "on" /\ open # Nothing)
                            /\ open = Nothing \/ open.type # type \/ "break" = "break"
                            => MayFollow(closed.pushed, type, start)
        /\ \A t \in 1 .. now : Reported(pushed, dropped, open, t) => Reported(closed.pushed, closed.dropped, Nothing, t)
    <3>1. /\ closed = CloseInterval(now, "break", stage = "on") /\ "break" \in {"frame", "break", "stop"}
          /\ now \in {now, now + 1} /\ (stage = "on") \in BOOLEAN
          /\ \A t \in 0 .. now : frames[t] = frames[t]
      BY DEF closed
    <3> QED
      BY <1>1, <3>1, CloseOK
  <2>4. o \in [type : Types, start : 0 .. now] /\ o.type = "CAMERA_INTERRUPTED" /\ o.start = now
    BY <1>1 DEF Types
  <2>5. TypeOK'
    <3>1. open' = Nothing \/ open' \in [type : Types, start : 0 .. now']
      BY <1>2, <2>2, <2>4
    <3>2. pushed' \in Seq(Intervals) /\ dropped' \subseteq Intervals
      BY <1>2, <2>2, <2>3 DEF PushedOK
    <3> QED
      BY <1>1, <1>2, <1>3, <3>1, <3>2 DEF TypeOK, CameraOK, CameraTyped
  <2>6. OpenOK(open', since, pushed', frames, now)
    <3>1. MayFollow(closed.pushed, "CAMERA_INTERRUPTED", now)
      BY <1>1, <2>3, MayFollowLater
    <3> QED
      BY <1>2, <2>2, <2>4, <3>1 DEF OpenOK, Faceless
  <2>7. \A t \in 1 .. now : Reported(pushed, dropped, open, t) => Reported(pushed', dropped', open', t)
    BY <1>2, <2>2, <2>3 DEF Reported
  <2>8. mounted' => mounted /\ \A type, start : MayFollow(pushed, type, start) => MayFollow(pushed', type, start)
    BY <1>2, <2>2, <2>3
  <2> QED
    BY <1>2, <2>2, <2>3, <2>5, <2>6, <2>7, <2>8, SameSecond
<1> QED
  BY <1>4, <1>5

-----------------------------------------------------------------------------
(* A second passes                                                         *)

\* The open interval goes on if the frame does not show a single face.
LEMMA OpenGrows ==
  ASSUME NEW o, NEW si, NEW si2, NEW ps, NEW fr, NEW fr2, NEW n \in Nat, OpenOK(o, si, ps, fr, n),
         o # Nothing => o.start \in Nat,
         \A t \in 0 .. n : fr2[t] = fr[t],
         o = Nothing \/ o.type = "CAMERA_INTERRUPTED" \/ fr2[n + 1] # "one",
         si # Nothing => si2 # Nothing /\ si.since \in Nat /\ si2.since \in Nat /\ si.since <= si2.since
  PROVE  OpenOK(o, si2, ps, fr2, n + 1)
<1>1. CASE o = Nothing
  BY <1>1 DEF OpenOK
<1>2. CASE o # Nothing /\ o.type = "CAMERA_INTERRUPTED"
  BY <1>2 DEF OpenOK, Faceless
<1>3. CASE o # Nothing /\ o.type # "CAMERA_INTERRUPTED"
  <2>1. o.start \in Nat /\ GraceOf(o.type) \in Nat /\ o.start + GraceOf(o.type) <= n
    BY <1>3, Constants DEF OpenOK, Faceless
  <2>2. ASSUME NEW t \in o.start .. o.start + GraceOf(o.type) PROVE fr2[t] \in {KindOf(o.type), "unseen"}
    <3>1. t \in 0 .. n
      BY <2>1
    <3> QED
      BY <1>3, <3>1 DEF OpenOK, Faceless
  <2>3. ASSUME NEW t \in o.start .. n + 1 PROVE fr2[t] # "one"
    <3>1. t = n + 1 \/ (t \in 0 .. n /\ t \in o.start .. n)
      BY <2>1
    <3> QED
      BY <1>3, <3>1 DEF OpenOK, Faceless
  <2>4. o.start + GraceOf(o.type) <= n + 1
    BY <2>1
  <2>5. si2 # Nothing /\ o.start <= si2.since
    BY <1>3, <2>1 DEF OpenOK
  <2> QED
    BY <1>3, <2>2, <2>3, <2>4, <2>5 DEF OpenOK, Faceless
<1> QED
  BY <1>1, <1>2, <1>3

\* A second passes, and the report is right again.
LEMMA SecondDone ==
  ASSUME Inductive, CameraOK', now < MaxTime, now' = now + 1, NEW kind \in Kinds \cup {"unseen"},
         frames' = [frames EXCEPT ![now + 1] = kind], UNCHANGED mounted,
         disturbed' \in 0 .. MaxDisturbances,
         open' = Nothing \/ open' \in [type : Types, start : 0 .. now + 1],
         since' = Nothing \/ since' \in [kind : Kinds, since : 0 .. now + 1],
         dropped' \subseteq Intervals, PushedOK(pushed', frames', now + 1),
         OpenOK(open', since', pushed', frames', now + 1), SinceOK(since', pushed', frames', now + 1, mounted),
         Observed(since', frames', now + 1),
         \A t \in 1 .. now : Reported(pushed, dropped, open, t) => Reported(pushed', dropped', open', t),
         Absent(now + 1, frames') => Reported(pushed', dropped', open', now + 1)
  PROVE  Inductive'
<1>1. TypeOK /\ now \in Nat /\ now + 1 \in Times /\ frames \in [Times -> Kinds \cup {"unseen"}]
  <2>1. TypeOK /\ now \in Nat /\ frames \in [Times -> Kinds \cup {"unseen"}]
    BY TypedOpen DEF Inductive, TypeOK
  <2> QED
    BY <2>1, Constants DEF Times
<1>2. TypeOK'
  <2>1. pushed' \in Seq(Intervals) /\ frames' \in [Times -> Kinds \cup {"unseen"}]
    BY <1>1 DEF PushedOK
  <2> QED
    BY <1>1, <2>1 DEF TypeOK, CameraOK, CameraTyped
<1>4. ASSUME NEW t \in 1 .. now + 1, Absent(t, frames') PROVE Reported(pushed', dropped', open', t)
  <2>1. CASE t = now + 1
    BY <1>4, <2>1
  <2>2. CASE t # now + 1
    <3>1. t \in 1 .. now
      BY <1>1, <2>2
    <3>2. Absent(t, frames)
      <4>1. \A u \in t - NoneGrace .. t : t > NoneGrace => u \in Times /\ u # now + 1
        BY <1>1, <3>1, Constants DEF Times
      <4> QED
        BY <1>1, <1>4, <4>1 DEF Absent
    <3>3. Reported(pushed, dropped, open, t)
      BY <3>1, <3>2 DEF Inductive
    <3> QED
      BY <3>1, <3>3
  <2> QED
    BY <2>1, <2>2
<1>5. UNCHANGED mounted
  OBVIOUS
<1> QED
  BY <1>2, <1>4, <1>5 DEF Inductive

LEMMA SecondStays ==
  ASSUME Inductive, CameraOK', Second
  PROVE  Inductive'
<1> DEFINE t == now + 1
           rec == stage = "on"
           fr == frames'
<1>1. PICK kind \in Kinds \cup {"unseen"} :
        /\ IF ~Watching THEN kind = "unseen" /\ UNCHANGED disturbed
           ELSE IF kind = "unseen" /\ held \in live THEN Disturb ELSE UNCHANGED disturbed
        /\ frames' = [frames EXCEPT ![t] = kind]
        /\ IF kind = "unseen" THEN UNCHANGED report
           ELSE LET seen == Since(kind, t) IN
                /\ since' = seen
                /\ IF kind = "one" /\ open # Nothing /\ open.type # "CAMERA_INTERRUPTED"
                   THEN Becomes(CloseInterval(t, "frame", stage = "on"))
                   ELSE IF kind # "one" /\ Sustained(kind, t, seen.since)
                   THEN Becomes(OpenInterval(IF kind = "none" THEN "FACE_NOT_DETECTED" ELSE "MULTIPLE_FACES_DETECTED",
                                             seen.since, t, "frame", stage = "on"))
                   ELSE UNCHANGED <<open, pushed, dropped>>
  BY DEF Second
<1>2. /\ TypeOK /\ now \in Nat /\ now < MaxTime /\ t \in Times /\ t \in Nat /\ now' = t
      /\ UNCHANGED mounted
      /\ frames \in [Times -> Kinds \cup {"unseen"}]
  <2>1. /\ TypeOK /\ now \in Nat /\ now < MaxTime /\ now' = t
        /\ UNCHANGED mounted
        /\ frames \in [Times -> Kinds \cup {"unseen"}]
    BY TypedOpen DEF Inductive, Second, TypeOK
  <2> QED
    BY <2>1, Constants DEF Times
<1>3. disturbed' \in 0 .. MaxDisturbances
  <2>1. disturbed \in 0 .. MaxDisturbances /\ MaxDisturbances \in Nat
    BY <1>2, FaceMonitorAssumption DEF TypeOK
  <2> QED
    BY <1>1, <2>1 DEF Disturb
<1>4. fr[t] = kind /\ \A u \in 0 .. now : fr[u] = frames[u]
  <2>1. \A u \in 0 .. now : u \in Times /\ u # t
    BY <1>2, Constants DEF Times
  <2> QED
    BY <1>1, <1>2, <2>1
<1>5. /\ open # Nothing => open.start \in Nat
      /\ open = Nothing \/ open \in [type : Types, start : 0 .. t]
      /\ since # Nothing => since.kind \in Kinds /\ since.since \in 0 .. now
      /\ pushed \in Seq(Intervals) /\ dropped \subseteq Intervals
      /\ PushedOK(pushed, frames, now) /\ OpenOK(open, since, pushed, frames, now)
      /\ SinceOK(since, pushed, frames, now, mounted) /\ Observed(since, frames, now)
  <2>1. 0 .. now \subseteq 0 .. t
    BY <1>2
  <2>2. open = Nothing \/ open \in [type : Types, start : 0 .. now]
    BY <1>2 DEF TypeOK
  <2>3. since # Nothing => since.kind \in Kinds /\ since.since \in 0 .. now
    BY <1>2 DEF TypeOK
  <2>4. /\ PushedOK(pushed, frames, now) /\ OpenOK(open, since, pushed, frames, now)
        /\ SinceOK(since, pushed, frames, now, mounted) /\ Observed(since, frames, now)
    BY DEF Inductive
  <2>5. open # Nothing => open.start \in Nat
    BY <1>2, <2>2
  <2>6. open = Nothing \/ open \in [type : Types, start : 0 .. t]
    BY <2>1, <2>2
  <2> QED
    BY <1>2, <2>3, <2>4, <2>5, <2>6, TypedOpen
<1>6. PushedOK(pushed, fr, t)
  <2>1. now <= t
    BY <1>2
  <2> QED
    BY <1>2, <1>4, <1>5, <2>1, PushedGrows
<1> HIDE DEF fr
<1>7. CASE kind = "unseen"
  <2>1. UNCHANGED <<open, since, pushed, dropped>>
    BY <1>1, <1>7 DEF report
  <2>2. OpenOK(open, since, pushed, fr, t)
    <3>1. fr[now + 1] # "one" /\ (since # Nothing => since.since \in Nat /\ since.since <= since.since)
      BY <1>2, <1>4, <1>5, <1>7
    <3> QED
      BY <1>2, <1>4, <1>5, <3>1, OpenGrows
  <2>3. SinceOK(since, pushed, fr, t, mounted)
    <3>1. ASSUME since # Nothing, NEW u \in since.since .. t PROVE fr[u] \in {since.kind, "unseen"}
      <4>1. u = t \/ (u \in 0 .. now /\ u \in since.since .. now)
        BY <1>2, <1>5, <3>1
      <4> QED
        BY <1>4, <1>5, <1>7, <3>1, <4>1 DEF SinceOK
    <3> QED
      BY <1>5, <3>1 DEF SinceOK
  <2>4. Observed(since, fr, t)
    <3>1. \A u \in 1 .. t : t \in u .. t
      BY <1>2
    <3> QED
      BY <1>4, <1>7, <3>1 DEF Observed
  <2>5. ~ Absent(t, fr)
    <3>1. t \in t - NoneGrace .. t
      BY <1>2, Constants
    <3> QED
      BY <1>4, <1>7, <3>1 DEF Absent
  <2>6. since' = Nothing \/ since' \in [kind : Kinds, since : 0 .. t]
    <3>1. 0 .. now \subseteq 0 .. t
      BY <1>2
    <3>2. since = Nothing \/ since \in [kind : Kinds, since : 0 .. now]
      BY <1>2 DEF TypeOK
    <3> QED
      BY <2>1, <3>1, <3>2
  <2> QED
    BY <1>1, <1>2, <1>3, <1>5, <1>6, <2>1, <2>2, <2>3, <2>4, <2>5, <2>6, SecondDone DEF fr
<1>8. CASE kind # "unseen"
  <2> DEFINE seen == Since(kind, t)
             type == TypeOf(kind)
  <2>1. kind \in Kinds
    BY <1>8
  <2>2. \/ since # Nothing /\ since.kind = kind /\ seen = since
        \/ ~(since # Nothing /\ since.kind = kind) /\ seen = [kind |-> kind, since |-> t]
    BY DEF Since
  <2>3. seen \in [kind : Kinds, since : 0 .. t] /\ seen.kind = kind /\ seen.since \in Nat /\ seen # Nothing
    <3>1. CASE since # Nothing /\ since.kind = kind /\ seen = since
      <4>1. 0 .. now \subseteq 0 .. t
        BY <1>2
      <4>2. since \in [kind : Kinds, since : 0 .. now]
        BY <1>2, <3>1 DEF TypeOK
      <4> QED
        BY <1>5, <3>1, <4>1, <4>2
    <3>2. CASE seen = [kind |-> kind, since |-> t]
      <4>1. DOMAIN seen # DOMAIN Nothing
        <5>1. "none" \in DOMAIN Nothing /\ "none" \notin DOMAIN [kind |-> kind, since |-> t]
          BY DEF Nothing
        <5> QED
          BY <3>2, <5>1
      <4>2. t \in 0 .. t
        BY <1>2
      <4> QED
        BY <1>2, <2>1, <3>2, <4>1, <4>2
    <3> QED
      BY <2>2, <3>1, <3>2
  <2>4. since' = seen
    BY <1>1, <1>8
  <2>5. since # Nothing => since.since \in Nat /\ since.since <= seen.since
    <3>1. CASE seen = since
      BY <1>5, <3>1
    <3>2. CASE seen = [kind |-> kind, since |-> t]
      <4>1. seen.since = t
        BY <3>2
      <4> QED
        BY <1>2, <1>5, <4>1
    <3> QED
      BY <2>2, <3>1, <3>2
  <2>6. \A u \in seen.since .. t : fr[u] \in {kind, "unseen"}
    <3> TAKE u \in seen.since .. t
    <3>1. CASE u = t
      BY <1>4, <3>1
    <3>2. CASE u # t
      <4>1. u \in seen.since .. now /\ u \in 0 .. now
        BY <1>2, <2>3, <3>2
      <4>2. since # Nothing /\ since.kind = kind /\ seen = since
        <5>1. seen.since # t
          BY <1>2, <2>3, <4>1
        <5> QED
          BY <2>2, <5>1
      <4> QED
        BY <1>4, <1>5, <4>1, <4>2 DEF SinceOK
    <3> QED
      BY <3>1, <3>2
  <2>7. mounted /\ kind # "one" => MayFollow(pushed, type, seen.since)
    <3>1. CASE since # Nothing /\ since.kind = kind /\ seen = since
      BY <1>5, <3>1 DEF SinceOK
    <3>2. CASE seen = [kind |-> kind, since |-> t]
      <4>1. seen.since = t /\ now <= t
        BY <1>2, <3>2
      <4> QED
        BY <1>2, <1>5, <4>1, MayFollowLater
    <3> QED
      BY <2>2, <3>1, <3>2
  <2>8. Observed(seen, fr, t)
    <3>1. ASSUME NEW u \in 1 .. t, \A v \in u .. t : fr[v] = "none"
          PROVE  seen # Nothing /\ seen.kind = "none" /\ seen.since <= u
      <4>1. kind = "none"
        <5>1. t \in u .. t
          BY <1>2
        <5> QED
          BY <1>4, <3>1, <5>1
      <4>2. CASE u = t
        BY <1>2, <2>3, <4>1, <4>2
      <4>3. CASE u # t
        <5>1. u \in 1 .. now /\ \A v \in u .. now : v \in u .. t /\ v \in 0 .. now
          BY <1>2, <4>3
        <5>2. \A v \in u .. now : frames[v] = "none"
          BY <1>4, <3>1, <5>1
        <5>3. since # Nothing /\ since.kind = "none" /\ since.since <= u
          BY <1>5, <5>1, <5>2 DEF Observed
        <5> QED
          BY <2>2, <2>3, <4>1, <5>3
      <4> QED
        BY <4>2, <4>3
    <3> QED
      BY <3>1 DEF Observed
  <2>9. Absent(t, fr) => kind = "none" /\ seen.since <= t - NoneGrace
    <3> SUFFICES ASSUME Absent(t, fr) PROVE kind = "none" /\ seen.since <= t - NoneGrace
      OBVIOUS
    <3>1. /\ t - NoneGrace \in 1 .. t /\ t \in t - NoneGrace .. t
          /\ \A v \in t - NoneGrace .. t : fr[v] = "none"
      BY <1>2, Constants DEF Absent
    <3> QED
      BY <1>4, <2>8, <3>1 DEF Observed
  <2>10. mounted
    BY <1>1, <1>8 DEF Watching
  <2> HIDE DEF seen
  <2>11. CASE kind = "one" /\ open # Nothing /\ open.type # "CAMERA_INTERRUPTED"
    <3> DEFINE next == CloseInterval(t, "frame", rec)
    <3>1. open' = next.open /\ pushed' = next.pushed /\ dropped' = next.dropped
      BY <1>1, <1>8, <2>11 DEF Becomes
    <3> HIDE DEF next
    <3>2. /\ next.open = Nothing /\ next.dropped \subseteq Intervals
          /\ PushedOK(next.pushed, fr, t)
          /\ \A u \in 1 .. now : Reported(pushed, dropped, open, u) => Reported(next.pushed, next.dropped, Nothing, u)
      <4>1. next = CloseInterval(t, "frame", rec) /\ t \in {now, now + 1} /\ "frame" \in {"frame", "break", "stop"}
            /\ rec \in BOOLEAN
        BY DEF next
      <4> QED
        BY <1>2, <1>4, <4>1, CloseOK
    <3>3. OpenOK(open', seen, pushed', fr, t)
      BY <3>1, <3>2 DEF OpenOK
    <3>4. SinceOK(seen, pushed', fr, t, mounted)
      BY <2>3, <2>6, <2>11 DEF SinceOK
    <3>5. ~ Absent(t, fr)
      BY <2>9, <2>11
    <3> QED
      BY <1>1, <1>2, <1>3, <2>3, <2>4, <2>8, <3>1, <3>2, <3>3, <3>4, <3>5, SecondDone DEF fr
  <2>12. CASE /\ ~ (kind = "one" /\ open # Nothing /\ open.type # "CAMERA_INTERRUPTED")
              /\ UNCHANGED <<open, pushed, dropped>>
              /\ Absent(t, fr) => Reported(pushed, dropped, open, t)
    <3>1. OpenOK(open, seen, pushed, fr, t)
      BY <1>2, <1>4, <1>5, <2>3, <2>5, <2>12, OpenGrows
    <3>2. SinceOK(seen, pushed, fr, t, mounted)
      BY <2>3, <2>6, <2>7 DEF SinceOK
    <3> QED
      BY <1>1, <1>2, <1>3, <1>5, <1>6, <2>3, <2>4, <2>8, <2>12, <3>1, <3>2, SecondDone DEF fr
  <2>13. CASE /\ ~ (kind = "one" /\ open # Nothing /\ open.type # "CAMERA_INTERRUPTED")
              /\ ~ (kind # "one" /\ Sustained(kind, t, seen.since))
    <3>1. UNCHANGED <<open, pushed, dropped>>
      BY <1>1, <1>8, <2>13 DEF seen
    <3>2. ~ Absent(t, fr)
      <4>1. kind = "none" /\ seen.since <= t - NoneGrace => Sustained(kind, t, seen.since)
        BY <1>2, <2>3, Constants DEF Sustained
      <4> QED
        BY <2>9, <2>13, <4>1
    <3> QED
      BY <2>12, <2>13, <3>1, <3>2
  <2>14. CASE kind # "one" /\ Sustained(kind, t, seen.since)
    <3> DEFINE next == OpenInterval(type, seen.since, t, "frame", rec)
               closed == CloseInterval(t, "frame", rec)
               o == [type |-> type, start |-> seen.since]
    <3>1. open' = next.open /\ pushed' = next.pushed /\ dropped' = next.dropped
      BY <1>1, <1>8, <2>14 DEF Becomes, seen, TypeOf
    <3>2. /\ type \in Types /\ type # "CAMERA_INTERRUPTED" /\ KindOf(type) = kind
          /\ (kind = "none" <=> type = "FACE_NOT_DETECTED") /\ t - seen.since >= GraceOf(type)
      BY <2>1, <2>14 DEF TypeOf, KindOf, GraceOf, Types, Kinds, Sustained
    <3>3. CASE open # Nothing /\ open.type = type
      <4>1. UNCHANGED <<open, pushed, dropped>>
        BY <3>1, <3>3 DEF OpenInterval
      <4>2. Absent(t, fr) => Reported(pushed, dropped, open, t)
        <5> SUFFICES ASSUME Absent(t, fr) PROVE Reported(pushed, dropped, open, t)
          OBVIOUS
        <5>1. since # Nothing /\ open.start <= since.since
          BY <1>5, <3>2, <3>3 DEF OpenOK
        <5>2. open.start <= t - NoneGrace
          BY <1>2, <1>5, <2>3, <2>5, <2>9, <3>3, <5>1, Constants
        <5> QED
          BY <2>9, <3>2, <3>3, <5>2 DEF Reported
      <4> QED
        BY <2>12, <2>14, <4>1, <4>2
    <3>4. CASE ~ (open # Nothing /\ open.type = type)
      <4>1. next = [closed EXCEPT !.open = o]
        BY <3>4 DEF OpenInterval
      <4>2. next.open = o /\ next.pushed = closed.pushed /\ next.dropped = closed.dropped
        BY <4>1 DEF CloseInterval
      <4> HIDE DEF next, closed, type
      <4>3. o \in [type : Types, start : 0 .. t] /\ o.type = type /\ o.start = seen.since /\ o # Nothing
        BY <2>3, <3>2, NotNothing
      <4> HIDE DEF o
      <4>4. /\ closed.dropped \subseteq Intervals
            /\ PushedOK(closed.pushed, fr, t)
            /\ \A ty, start : /\ MayFollow(pushed, ty, start) \/ ("frame" = "break" /\ rec /\ open # Nothing)
                              /\ open = Nothing \/ open.type # ty \/ "frame" = "break"
                              => MayFollow(closed.pushed, ty, start)
            /\ \A u \in 1 .. now : Reported(pushed, dropped, open, u) => Reported(closed.pushed, closed.dropped, Nothing, u)
        <5>1. closed = CloseInterval(t, "frame", rec) /\ t \in {now, now + 1} /\ "frame" \in {"frame", "break", "stop"}
              /\ rec \in BOOLEAN
          BY DEF closed
        <5> QED
          BY <1>2, <1>4, <5>1, CloseOK
      <4>5. MayFollow(closed.pushed, type, seen.since)
        BY <2>7, <2>10, <2>14, <3>4, <4>4 DEF type
      <4>6. Faceless(type, seen.since, fr, t)
        <5>1. GraceOf(type) \in Nat /\ seen.since + GraceOf(type) <= t
          BY <1>2, <2>3, <3>2, Constants
        <5>2. \A u \in seen.since .. seen.since + GraceOf(type) : u \in seen.since .. t
          BY <1>2, <2>3, <5>1
        <5>3. \A u \in seen.since .. t : fr[u] # "one"
          BY <2>6, <2>14
        <5> QED
          BY <2>6, <3>2, <5>1, <5>2, <5>3 DEF Faceless
      <4>7. OpenOK(open', seen, pushed', fr, t)
        <5>1. seen.since <= seen.since
          BY <2>3
        <5> QED
          BY <2>3, <3>1, <4>2, <4>3, <4>5, <4>6, <5>1 DEF OpenOK
      <4>8. SinceOK(seen, pushed', fr, t, mounted)
        BY <2>3, <2>6, <3>1, <4>2, <4>5 DEF SinceOK, type
      <4>9. \A u \in 1 .. now : Reported(pushed, dropped, open, u) => Reported(pushed', dropped', open', u)
        BY <3>1, <4>2, <4>4 DEF Reported
      <4>10. Absent(t, fr) => Reported(pushed', dropped', open', t)
        BY <2>9, <3>1, <3>2, <4>2, <4>3 DEF Reported
      <4> QED
        BY <1>1, <1>2, <1>3, <2>3, <2>4, <2>8, <3>1, <4>2, <4>3, <4>4, <4>7, <4>8, <4>9, <4>10, SecondDone DEF fr
    <3> QED
      BY <3>3, <3>4
  <2> QED
    BY <2>11, <2>13, <2>14
<1> QED
  BY <1>7, <1>8

-----------------------------------------------------------------------------
(* Theorems                                                                *)

LEMMA InductiveStays == Inductive /\ [Next]_vars => Inductive'
<1> SUFFICES ASSUME Inductive, [Next]_vars PROVE Inductive'
  OBVIOUS
<1>1. CameraOK'
  BY CameraStays DEF Inductive
<1>2. CASE UNCHANGED vars \/ StartInterview \/ Cancelled \/ \E c \in Starts : Start(c) \/ Granted(c) \/ Denied(c) \/ Loaded(c)
  <2>1. UNCHANGED <<now, mounted, frames, open, since, pushed, dropped, disturbed>>
    BY <1>2 DEF vars, report, monitor, StartInterview, Cancelled, Start, Granted, Denied, Loaded
  <2> QED
    BY <1>1, <2>1, QuietStays
<1>3. CASE Second
  BY <1>1, <1>3, SecondStays
<1>4. CASE \E c \in Starts : Played(c)
  BY <1>1, <1>4, PlayedStays
<1>5. CASE \E c \in Starts : TrackEnded(c)
  BY <1>1, <1>5, TrackStays
<1>6. CASE TurnOff \/ Completed \/ PageHide \/ Unmount
  BY <1>1, <1>6, RoomStays
<1> QED
  BY <1>2, <1>3, <1>4, <1>5, <1>6 DEF Next

\* The inductive invariant.  What is open has lasted its grace period without a
\* single face and began no later than what is being observed; what is being
\* observed may become an interval that shares no time with those of its type
\* before it, unless one of them was broken off (use-face-monitor.ts 47-106).
THEOREM InductiveInvariant == Spec => []Inductive
<1>1. Init => Inductive
  BY Initially
<1>2. Inductive /\ [Next]_vars => Inductive'
  BY InductiveStays
<1> QED
  BY <1>1, <1>2, PTL DEF Spec

\* Every variable keeps its type (use-face-monitor.ts 37-47).
THEOREM TypeCorrect == Spec => []TypeOK
<1>1. Inductive => TypeOK
  BY DEF Inductive
<1> QED
  BY <1>1, InductiveInvariant, PTL

\* No camera is on in a room that was left or whose interview is completed, nor
\* while the page says that it is off, however many calls of start() overlap:
\* unless it escaped stop(), because the browser gave it only afterwards or
\* another call had replaced it in streamRef (use-face-monitor.ts 70-81, 131).
THEOREM CameraIsReleased == Spec => []CameraReleased
<1>1. Inductive => CameraReleased
  BY DEF Inductive, CameraOK
<1> QED
  BY <1>1, InductiveInvariant, PTL

\* What is pushed may be counted as it stands: an interval begins with its grace
\* period, holds no frame with a single face, and shares no time with an earlier
\* one of its type that was not broken off.
THEOREM IntervalsAreRight == Spec => []IntervalsCount
<1>1. Inductive => IntervalsCount
  <2> SUFFICES ASSUME Inductive PROVE NoFaceInside /\ CountedOnce
    BY DEF IntervalsCount
  <2>1. PushedOK(pushed, frames, now)
    BY DEF Inductive
  <2>2. NoFaceInside
    <3> SUFFICES ASSUME NEW i \in Pushed PROVE
          LET kind == IF i.type = "FACE_NOT_DETECTED" THEN "none" ELSE "multiple"
              grace == IF kind = "none" THEN NoneGrace ELSE MultipleGrace
          IN i.type # "CAMERA_INTERRUPTED" =>
               /\ i.end - i.start >= grace
               /\ \A t \in i.start .. i.start + grace : frames[t] \in {kind, "unseen"} \/ t = i.end
               /\ \A t \in i.start .. i.end - 1 : frames[t] # "one"
      BY DEF NoFaceInside
    <3>1. Inside(i, frames)
      BY <2>1 DEF PushedOK, Pushed
    <3> QED
      BY <3>1 DEF Inside, KindOf, GraceOf
  <2>3. CountedOnce
    BY <2>1 DEF PushedOK, CountedOnce
  <2> QED
    BY <2>2, <2>3
<1> QED
  BY <1>1, InductiveInvariant, PTL

\* No second of a sustained absence is missing from what was pushed, dropped
\* because nothing was recorded, or is still open.
THEOREM AbsencesAreReported == Spec => []AbsenceReported
<1>1. Inductive => AbsenceReported
  <2> SUFFICES ASSUME Inductive, NEW t \in 1 .. now, AbsentAt(t)
               PROVE  \E i \in Pushed \cup dropped \cup Current :
                        i.type = "FACE_NOT_DETECTED" /\ i.start <= t - NoneGrace /\ t <= i.end
    BY DEF AbsenceReported
  <2>1. Reported(pushed, dropped, open, t)
    BY DEF Inductive, AbsentAt, Absent
  <2>2. CASE \E j \in 1 .. Len(pushed) :
               pushed[j].type = "FACE_NOT_DETECTED" /\ pushed[j].start <= t - NoneGrace /\ t <= pushed[j].end
    BY <2>2 DEF Pushed
  <2>3. CASE \E i \in dropped : i.type = "FACE_NOT_DETECTED" /\ i.start <= t - NoneGrace /\ t <= i.end
    BY <2>3
  <2>4. CASE open # Nothing /\ open.type = "FACE_NOT_DETECTED" /\ open.start <= t - NoneGrace
    <3> DEFINE x == [Closed(now + 1, "frame") EXCEPT !.end = now + 1]
    <3>1. x.type = open.type /\ x.start = open.start /\ x.end = now + 1
      BY DEF Closed
    <3>2. x \in Current
      BY <2>4 DEF Current
    <3>3. t <= now + 1
      BY TypedOpen DEF Inductive
    <3> HIDE DEF x
    <3> QED
      BY <2>4, <3>1, <3>2, <3>3
  <2> QED
    BY <2>1, <2>2, <2>3, <2>4 DEF Reported
<1> QED
  BY <1>1, InductiveInvariant, PTL

-----------------------------------------------------------------------------
(* The page                                                                *)

\* The page remembers every submission whose follow-up it has asked for.
AskedIsRemembered ==
  /\ "asked" \in DOMAIN page
  /\ calls \in [Subs -> Nat]
  /\ \A s \in Subs : calls[s] <= 1
  /\ \A s \in Subs : s \notin page.asked => calls[s] = 0

\* Most steps leave both as they are.
LEMMA NothingAsked ==
  ASSUME AskedIsRemembered, UNCHANGED calls, page'.asked = page.asked, DOMAIN page' = DOMAIN page
  PROVE  AskedIsRemembered'
  BY DEF AskedIsRemembered

LEMMA AskStays == \A k \in Slots : AskedIsRemembered /\ AskFollowUp(k) => AskedIsRemembered'
<1> SUFFICES ASSUME NEW k \in Slots, AskedIsRemembered, AskFollowUp(k)
             PROVE  AskedIsRemembered'
  OBVIOUS
<1> DEFINE last == Max(Done)
<1>1. /\ last \notin page.asked
      /\ calls' = [calls EXCEPT ![last] = @ + 1]
      /\ page' = [page EXCEPT !.asked = @ \cup {last}]
  BY DEF AskFollowUp
<1> HIDE DEF last
<1>2. "asked" \in DOMAIN page' /\ page'.asked = page.asked \cup {last}
  BY <1>1 DEF AskedIsRemembered
<1>3. /\ calls' = [s \in Subs |-> calls'[s]]
      /\ \A s \in Subs : calls'[s] = IF s = last THEN calls[s] + 1 ELSE calls[s]
  BY <1>1 DEF AskedIsRemembered
<1>4. calls' \in [Subs -> Nat]
  BY <1>3 DEF AskedIsRemembered
<1> QED
  BY <1>1, <1>2, <1>3, <1>4 DEF AskedIsRemembered

\* What an answer brings replaces the room, the chat or the submissions.
LEMMA AnswersStay == \A k \in Slots : AskedIsRemembered /\ Answer(k) => AskedIsRemembered'
<1> SUFFICES ASSUME NEW k \in Slots, AskedIsRemembered, Answer(k)
             PROVE  AskedIsRemembered'
  OBVIOUS
<1>1. CASE RefreshAnswer(k)
  BY <1>1, NothingAsked DEF RefreshAnswer, Newest
<1>2. CASE SubmissionAnswer(k)
  BY <1>2, NothingAsked DEF SubmissionAnswer
<1>3. CASE MessageAnswer(k)
  BY <1>3, NothingAsked DEF MessageAnswer
<1>4. CASE RoomAnswer(k)
  BY <1>4, NothingAsked DEF RoomAnswer, Newest
<1> QED
  BY <1>1, <1>2, <1>3, <1>4 DEF Answer

LEMMA RoomSteps == AskedIsRemembered /\ [PageNext]_pageVars => AskedIsRemembered'
<1> SUFFICES ASSUME AskedIsRemembered, [PageNext]_pageVars
             PROVE  AskedIsRemembered'
  OBVIOUS
<1> USE NothingAsked
<1>1. CASE UNCHANGED pageVars
  BY <1>1 DEF pageVars
<1>2. ASSUME NEW k \in Slots, ServerStep(k) PROVE AskedIsRemembered'
  BY <1>2 DEF ServerStep, ReadInterview, ReadLists, ReadSubmission,
              CreateSubmission, StoreMessage, MoveRoom
<1>3. ASSUME NEW k \in Slots, FinishOnTimeout(k) PROVE AskedIsRemembered'
  BY <1>3 DEF FinishOnTimeout
<1>4. ASSUME NEW k \in Slots,
             \/ RequestFails(k) \/ Submit(k) \/ SendChat(k) \/ Press(k)
             \/ Poll(k) \/ BackgroundRefresh(k) \/ Connect(k) \/ Notified(k)
      PROVE  AskedIsRemembered'
  BY <1>4 DEF RequestFails, Submit, SendChat, Press, Poll,
              BackgroundRefresh, Connect, Notified
<1>5. ASSUME NEW s \in Subs, Judged(s) PROVE AskedIsRemembered'
  BY <1>5 DEF Judged
<1>6. CASE DeadlinePasses \/ Lose
  BY <1>6 DEF DeadlinePasses, Lose
<1> QED
  BY <1>1, <1>2, <1>3, <1>4, <1>5, <1>6, AskStays, AnswersStay DEF PageNext

\* The page calls for the follow-up of a submission once, whatever order the
\* answers to its requests come back in (the effect of interview-room.tsx on
\* finished submissions, with the set it remembers them in).
THEOREM FollowUpAskedOnce == PageSpec => []FollowUpOnce
<1>1. PageInit => AskedIsRemembered
  BY DEF PageInit, AskedIsRemembered
<1>2. AskedIsRemembered => FollowUpOnce
  BY DEF AskedIsRemembered, FollowUpOnce
<1> QED
  BY <1>1, <1>2, RoomSteps, PTL DEF PageSpec
=============================================================================
