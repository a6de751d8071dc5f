---------------------------- MODULE FaceMonitor ----------------------------
(***************************************************************************)
(* The camera monitor of the candidate's page                              *)
(* (apps/web/components/proctoring/use-face-monitor.ts): the camera that   *)
(* start() asks for and opens in several waits, the check of a frame every *)
(* second, and the intervals it reports.                                   *)
(*                                                                         *)
(* Time is counted in the timer's seconds.  What the detector sees in a    *)
(* frame is a choice, and so is whether it sees anything.  The pushed      *)
(* intervals go to the queue of module Delivery.                           *)
(***************************************************************************)
EXTENDS Integers, Sequences

CONSTANTS
  NoneGrace,      \* faceAbsenceGraceMs (5 s)
  MultipleGrace,  \* multipleFacesGraceMs (3 s)
  Starts,         \* the calls of start(), each made once
  NoStart,        \* none of them
  MaxTime,        \* bound on the seconds
  MaxDisturbances \* bound on missed frames, lost cameras and hidden pages

ASSUME FaceMonitorAssumption ==
  /\ {NoneGrace, MultipleGrace, MaxTime} \subseteq Nat \ {0} /\ MaxDisturbances \in Nat
  /\ NoStart \notin Starts

VARIABLES
  now,        \* Date.now()
  stage,      \* of the interview; only one that is "on" is recorded
  mounted,    \* is the room shown?
  starting,   \* the wait in which each call of start() is
  live,       \* the calls whose camera is on
  held,       \* streamRef: the call whose camera it is
  camera,     \* what the page says of the camera
  timer,      \* is a tick due every second?
  detector,   \* has the model been loaded?
  open,       \* openRef
  since,      \* sinceRef
  pushed,     \* history: the intervals pushed, in order
  dropped,    \* history: the intervals closed without being pushed
  frames,     \* history: second -> what the detector saw in it
  disturbed,  \* how many disturbances there have been
  escaped     \* history: cameras given when the room was over or left, or
              \* replaced in streamRef while they were on

monitor == <<starting, live, held, camera, timer, detector>>
report == <<open, since, pushed, dropped>>
vars == <<now, stage, mounted, monitor, report, frames, disturbed, escaped>>

Kinds == {"none", "one", "multiple"}
Types == {"FACE_NOT_DETECTED", "MULTIPLE_FACES_DETECTED", "CAMERA_INTERRUPTED"}
Times == 0 .. MaxTime
Nothing == [none |-> TRUE]
Intervals == [type : Types, start : Times, end : Times, by : {"frame", "break", "stop"}]

Stages == {"before", "on", "unrecorded", "completed", "cancelled"}
Progress == {"no", "asking", "playing", "loading", "done"}

TypeOK ==
  /\ now \in Times
  /\ stage \in Stages /\ mounted \in BOOLEAN
  /\ starting \in [Starts -> Progress]
  /\ live \subseteq Starts /\ held \in Starts \cup {NoStart} /\ escaped \subseteq Starts
  /\ camera \in {"idle", "requesting", "active", "interrupted", "denied", "failed"}
  /\ timer \in BOOLEAN /\ detector \in BOOLEAN
  /\ open = Nothing \/ open \in [type : Types, start : 0 .. now]
  /\ since = Nothing \/ since \in [kind : Kinds, since : 0 .. now]
  /\ pushed \in Seq(Intervals) /\ dropped \subseteq Intervals
  /\ frames \in [Times -> Kinds \cup {"unseen"}]
  /\ disturbed \in 0 .. MaxDisturbances

Init ==
  /\ now = 0 /\ stage = "before" /\ mounted = TRUE
  /\ starting = [c \in Starts |-> "no"] /\ live = {} /\ held = NoStart /\ camera = "idle"
  /\ timer = FALSE /\ detector = FALSE
  /\ open = Nothing /\ since = Nothing /\ pushed = <<>> /\ dropped = {}
  /\ frames = [t \in Times |-> "unseen"]
  /\ disturbed = 0 /\ escaped = {}

Disturb == disturbed < MaxDisturbances /\ disturbed' = disturbed + 1

-----------------------------------------------------------------------------
(* The open interval.  A change of it is a record of open, pushed, dropped *)

Closed(end, by) == [type |-> open.type, start |-> open.start, end |-> end, by |-> by]

\* closeInterval: what is open is pushed if the interview is recorded, and it
\* is forgotten in any case.
CloseInterval(end, by, recording) ==
  [open |-> Nothing,
   pushed |-> IF open # Nothing /\ recording THEN Append(pushed, Closed(end, by)) ELSE pushed,
   dropped |-> IF open # Nothing /\ ~recording THEN dropped \cup {Closed(end, by)} ELSE dropped]

\* openInterval: an interval of the same type goes on.
OpenInterval(type, start, end, by, recording) ==
  IF open # Nothing /\ open.type = type
  THEN [open |-> open, pushed |-> pushed, dropped |-> dropped]
  ELSE [CloseInterval(end, by, recording) EXCEPT !.open = [type |-> type, start |-> start]]

Becomes(next) == open' = next.open /\ pushed' = next.pushed /\ dropped' = next.dropped

-----------------------------------------------------------------------------
(* tick                                                                    *)

\* MUTANT of Since: a frame with one face does not begin a new observation.
SinceBad(kind, t) == IF since = Nothing \/ (since.kind # kind /\ kind # "one")
                     THEN [kind |-> kind, since |-> t] ELSE since

Since(kind, t) == IF since = Nothing \/ since.kind # kind THEN [kind |-> kind, since |-> t] ELSE since

\* MUTANT of Sustained: off by one.
SustainedIfLonger(kind, t, from) ==
  \/ kind = "none" /\ t - from > NoneGrace
  \/ kind = "multiple" /\ t - from > MultipleGrace

\* Has what is seen been seen for the grace period?
Sustained(kind, t, from) ==
  \/ kind = "none" /\ t - from >= NoneGrace
  \/ kind = "multiple" /\ t - from >= MultipleGrace

\* Is there a video to look at?  The lobby always shows one, the interview only
\* while the camera is on, and no other page does.
Watching ==
  /\ timer /\ detector /\ mounted /\ held # NoStart
  /\ stage = "before" \/ (stage = "on" /\ camera = "active")

\* A second passes; a frame is analysed if there is one.
Second ==
  LET t == now + 1 IN
  /\ now < MaxTime
  /\ now' = t
  /\ \E kind \in Kinds \cup {"unseen"} :
       /\ IF ~Watching THEN kind = "unseen" /\ UNCHANGED disturbed
          ELSE IF kind = "unseen" /\ held \in live THEN Disturb ELSE UNCHANGED disturbed
       /\ frames' = [frames EXCEPT ![t] = kind]
       /\ IF kind = "unseen" THEN UNCHANGED report
          ELSE LET seen == Since(kind, t) IN
               /\ since' = seen
               /\ IF kind = "one" /\ open # Nothing /\ open.type # "CAMERA_INTERRUPTED"
                  THEN Becomes(CloseInterval(t, "frame", stage = "on"))
                  ELSE IF kind # "one" /\ Sustained(kind, t, seen.since)
                  THEN Becomes(OpenInterval(IF kind = "none" THEN "FACE_NOT_DETECTED" ELSE "MULTIPLE_FACES_DETECTED",
                                            seen.since, t, "frame", stage = "on"))
                  ELSE UNCHANGED <<open, pushed, dropped>>
  /\ UNCHANGED <<stage, mounted, monitor, escaped>>

-----------------------------------------------------------------------------
(* start                                                                   *)

GoesOn(c, from, to) == starting[c] = from /\ starting' = [starting EXCEPT ![c] = to]

\* The candidate presses the button, which is there unless the page says that
\* the camera is on or is being asked for.  stop() also makes it "idle" while a
\* call waits, so that the next call may overlap with it.
Start(c) ==
  /\ mounted
  /\ \/ stage = "before" /\ camera \notin {"requesting", "active"}
     \/ stage = "on" /\ camera \notin {"requesting", "active", "denied"}
  /\ GoesOn(c, "no", "asking")
  /\ camera' = "requesting"
  /\ UNCHANGED <<now, stage, mounted, live, held, timer, detector, report, frames, disturbed, escaped>>

\* The browser gives the camera, whatever has become of the room.
Granted(c) ==
  /\ GoesOn(c, "asking", "playing")
  /\ live' = live \cup {c} /\ held' = c
  /\ escaped' = escaped \cup (live \cap {held})
                        \cup (IF mounted /\ stage # "completed" THEN {} ELSE {c})
  /\ UNCHANGED <<now, stage, mounted, camera, timer, detector, report, frames, disturbed>>

Denied(c) ==
  /\ GoesOn(c, "asking", "done")
  /\ camera' \in {"denied", "failed"}
  /\ UNCHANGED <<now, stage, mounted, live, held, timer, detector, report, frames, disturbed, escaped>>

\* The video plays: an interruption is over.  The model is loaded once.
Played(c) ==
  /\ GoesOn(c, "playing", IF detector THEN "done" ELSE "loading")
  /\ camera' = "active"
  /\ IF open # Nothing /\ open.type = "CAMERA_INTERRUPTED"
     THEN Becomes(CloseInterval(now, "break", stage = "on"))
     ELSE UNCHANGED <<open, pushed, dropped>>
  /\ timer' = (timer \/ detector)
  /\ UNCHANGED <<now, stage, mounted, live, held, detector, since, frames, disturbed, escaped>>

Loaded(c) ==
  /\ GoesOn(c, "loading", "done")
  /\ \/ detector' = TRUE /\ timer' = TRUE
     \/ UNCHANGED <<detector, timer>>
  /\ UNCHANGED <<now, stage, mounted, live, held, camera, report, frames, disturbed, escaped>>

\* The device takes a camera away, be it streamRef's or not.
TrackEnded(c) ==
  /\ c \in live
  /\ live' = live \ {c}
  /\ camera' = "interrupted"
  /\ timer' = FALSE
  /\ Becomes(OpenInterval("CAMERA_INTERRUPTED", now, now, "break", stage = "on"))
  /\ Disturb
  /\ UNCHANGED <<now, stage, mounted, starting, held, detector, since, frames, escaped>>

-----------------------------------------------------------------------------
(* The room                                                                *)

\* MUTANT of Released: the stream is left to the next start.
ReleasedButStream ==
  timer' = FALSE /\ detector' = FALSE /\ held' = NoStart /\ camera' = "idle" /\ UNCHANGED live

\* stop, except for the interval: streamRef's camera, and no other, is stopped.
Released ==
  timer' = FALSE /\ detector' = FALSE /\ held' = NoStart /\ camera' = "idle" /\ live' = live \ {held}

\* "Turn camera off", or "Start without proctoring" before it is sent.
TurnOff ==
  /\ mounted /\ stage = "before"
  /\ Becomes(CloseInterval(now, "stop", FALSE))
  /\ Released
  /\ UNCHANGED <<now, stage, mounted, starting, since, frames, disturbed, escaped>>

\* The room shows that the interview has begun, here or in another tab, with
\* proctoring or without.
StartInterview ==
  /\ mounted /\ stage = "before"
  /\ stage' \in {"on", "unrecorded"}
  /\ UNCHANGED <<now, mounted, monitor, report, frames, disturbed, escaped>>

\* The room shows that the interview was cancelled in another tab: nothing of
\* the monitor is stopped.
Cancelled ==
  /\ mounted /\ stage = "before"
  /\ stage' = "cancelled"
  /\ UNCHANGED <<now, mounted, monitor, report, frames, disturbed, escaped>>

\* The room shows that the interview is completed: recordingRef is already
\* false when the open interval is closed; then the camera is stopped.
Completed ==
  /\ mounted /\ stage \in {"before", "on", "unrecorded"}
  /\ stage' = "completed"
  /\ Becomes(CloseInterval(now, "stop", FALSE))
  /\ Released
  /\ UNCHANGED <<now, mounted, starting, since, frames, disturbed, escaped>>

\* pagehide of a page that comes back.
PageHide ==
  /\ mounted
  /\ open # Nothing
  /\ Becomes(CloseInterval(now, "break", stage = "on"))
  /\ Disturb
  /\ UNCHANGED <<now, stage, mounted, monitor, since, frames, escaped>>

\* The room is left: stop() on unmount.
Unmount ==
  /\ mounted
  /\ mounted' = FALSE
  /\ Becomes(CloseInterval(now, "stop", stage = "on"))
  /\ Released
  /\ UNCHANGED <<now, stage, starting, since, frames, disturbed, escaped>>

Next ==
  \/ Second
  \/ \E c \in Starts : Start(c) \/ Granted(c) \/ Denied(c) \/ Played(c) \/ Loaded(c) \/ TrackEnded(c)
  \/ TurnOff \/ StartInterview \/ Cancelled \/ Completed \/ PageHide \/ Unmount

Spec == Init /\ [][Next]_vars

-----------------------------------------------------------------------------
(* Properties                                                              *)

Pushed == {pushed[i] : i \in 1 .. Len(pushed)}
Current == IF open = Nothing THEN {} ELSE {[Closed(now + 1, "frame") EXCEPT !.end = now + 1]}

\* "Grace periods avoid flagging blinks, glances or single missed frames"
\* (use-face-monitor.ts 31): an interval without a face, or with several, begins
\* with a grace period in which nothing else was seen, and holds no frame with
\* just one face.  Seconds in which nothing was seen at all are not excluded:
\* sinceRef outlives a camera that is interrupted.
NoFaceInside ==
  \A i \in Pushed :
    LET kind == IF i.type = "FACE_NOT_DETECTED" THEN "none" ELSE "multiple"
        grace == IF kind = "none" THEN NoneGrace ELSE MultipleGrace
    IN i.type # "CAMERA_INTERRUPTED" =>
         /\ i.end - i.start >= grace
         /\ \A t \in i.start .. i.start + grace : frames[t] \in {kind, "unseen"} \/ t = i.end
         /\ \A t \in i.start .. i.end - 1 : frames[t] # "one"

\* The second t was the last of enough seconds with frames without a face.
AbsentAt(t) == t > NoneGrace /\ \A u \in t - NoneGrace .. t : frames[u] = "none"

\* Every second of a sustained absence is in an interval that has been pushed,
\* is open, or was open before the recording began or when it stopped.
AbsenceReported ==
  \A t \in 1 .. now : AbsentAt(t) =>
    \E i \in Pushed \cup dropped \cup Current :
      i.type = "FACE_NOT_DETECTED" /\ i.start <= t - NoneGrace /\ t <= i.end

\* Two intervals of one type share no time, so their durations may be added up
\* (summarizeProctoring), unless the first was cut off by a hidden page or a
\* lost camera: then the absence is taken up again from its old beginning.
CountedOnce ==
  \A i, j \in 1 .. Len(pushed) :
    i < j /\ pushed[i].type = pushed[j].type =>
      pushed[i].end <= pushed[j].start \/ \E k \in i .. j - 1 : pushed[k].by = "break"

\* Both at once: what is pushed may be counted as it stands.
IntervalsCount == NoFaceInside /\ CountedOnce

\* "Media tracks are stopped when the interview ends, the candidate turns the
\* camera off, or the component unmounts" (docs/SECURITY.md 68).  What stop()
\* guarantees of it, however many calls of start() wait: no camera is on in a
\* room that was left or whose interview is completed, nor while the page says
\* that the camera is off, unless it escaped, or has just been given and the
\* page is about to say so.  A cancelled interview keeps its camera.
CameraReleased ==
  \A c \in live \ escaped :
    /\ mounted /\ stage # "completed"
    /\ camera = "idle" => starting[c] = "playing"
=============================================================================
