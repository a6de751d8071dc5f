---------------------------- MODULE RoomProofs ----------------------------
(***************************************************************************)
(* Theorems about what an interviewer and a candidate exchange in an open  *)
(* room: the code on its way to the database and to who watches            *)
(* (CodeView), and the conversation with the model (Conversation). The two *)
(* share no state, and no theorem is about both.                           *)
(*                                                                         *)
(* CodeView, for any number of edits, loads, joins, losses and requests    *)
(* under way: two arguments that meet only in the types.  "Saved"          *)
(* (DraftInv): unless two requests were under way at once, the one that is *)
(* carries the code on the screen as long as the timer is not set.  The    *)
(* view (ViewInv): what the relay takes from a load has growing counters,  *)
(* so whatever is on its way to the watcher is the snapshot or older than  *)
(* it; and between joining and the last message either the snapshot is     *)
(* still to come, or the view has a counter that is not below it.          *)
(*                                                                         *)
(* Conversation, for any number of requests, triggers, attempts, calls and *)
(* deaths.  RepeatAsksNothing is not inductive: that a repeated call       *)
(* leaves "find" with the follow-up it looks for needs to know that what   *)
(* has been shown is in the log, hence that a follow-up is shown only      *)
(* after it has been stored or found, and that the log only grows.         *)
(***************************************************************************)
EXTENDS CodeView, Conversation, TLAPS

-----------------------------------------------------------------------------
(* The code                                                                *)

Pages == [load : 1 .. MaxLoads, code : 0 .. MaxEdits, seq : 0 .. MaxEdits,
          state : {"saved", "saving", "unsaved", "error"}, timer : BOOLEAN]
Stores == [op : {"draft", "submit"}, code : 0 .. edits, calls : [1 .. 2 -> Calls],
           waits : 0 .. 2, alone : BOOLEAN, row : BOOLEAN]

EditorTypes ==
  /\ page \in Pages /\ edits \in 0 .. MaxEdits
  /\ page.code <= edits /\ page.seq <= edits
  /\ draft \in 0 .. edits /\ raced \in BOOLEAN /\ halves \subseteq 0 .. edits
  /\ save \in [Slots -> {Free} \cup Stores]

RelayTypes ==
  /\ link \in BOOLEAN /\ recent \in BOOLEAN
  /\ toServer \in Seq(Sync) /\ toView \in Seq(Sync)
  /\ snapshot \in Sync \cup {Nothing}
  /\ held \in Sync \cup {Nothing} /\ view \in Sync \cup {Nothing}
  /\ watcher \in {"out", "joined", "read", "on"}
  /\ joins \in 0 .. MaxJoins /\ losses \in 0 .. MaxLosses

Types == EditorTypes /\ RelayTypes

Has(f, call) == \E n \in 1 .. 2 : f.calls[n] = call

\* The request's code is the draft, or its row has no draft: not yet, or never.
Whole(f, d, h) == d = f.code \/ f.code \in h \/ Has(f, "made")

\* What the calls of a request have done is still there.
Sound(f, d, h) ==
  /\ Has(f, "made") => f.row
  /\ Has(f, "done") => f.row \/ d = f.code
  /\ f.row => Whole(f, d, h)
  /\ f.waits = 1 => f.calls[2] = "none"

\* A request that has met no other; while the page waits for it, it carries the
\* code on the screen.
AloneInv(k) ==
  /\ \A j \in Slots : save[j] # Free => j = k
  /\ ~page.timer /\ (save[k].waits # 0 \/ ~raced) => save[k].code = page.code
  /\ Sound(save[k], draft, halves)

DraftInv ==
  /\ \A k \in Slots : save[k] # Free /\ save[k].alone => AloneInv(k)
  /\ ~raced =>
       /\ \A k \in Slots : save[k] # Free => save[k].alone
       /\ page.state = "saved" /\ ~page.timer =>
            \/ draft = page.code \/ page.code \in halves
            \/ \E k \in Slots : save[k] # Free /\ Whole(save[k], draft, halves)

Elements(s) == {s[i] : i \in 1 .. Len(s)}

\* What is on its way to the relay is of this load, counted up, and newer than the snapshot.
Growing(s, load, top, last) ==
  /\ \A i \in 1 .. Len(s) :
       /\ s[i].load = load /\ s[i].seq <= top
       /\ last # Nothing /\ last.load = load => last.seq < s[i].seq
  /\ \A i, j \in 1 .. Len(s) : i < j => s[i].seq < s[j].seq

FromEditor ==
  /\ Growing(toServer, page.load, page.seq, snapshot)
  /\ snapshot # Nothing =>
       snapshot.load <= page.load /\ (snapshot.load = page.load => snapshot.seq <= page.seq)

\* A relayed code is the snapshot or older.
Older(m) == m # Nothing =>
  /\ snapshot # Nothing
  /\ \/ m = snapshot
     \/ m.load < snapshot.load
     \/ m.load = snapshot.load /\ m.seq < snapshot.seq

ToWatcher == Older(view) /\ Older(held) /\ \A m \in Elements(toView) : Older(m)

\* The snapshot is still to come, or the view has passed it.
Covered ==
  \/ snapshot \in Elements(toView)
  \/ view.seq >= snapshot.seq /\ (view.load = snapshot.load => view = snapshot)

Watching == snapshot # Nothing =>
  /\ watcher = "on" => Covered
  /\ watcher = "read" => held = snapshot \/ Covered

ViewInv == FromEditor /\ ToWatcher /\ Watching

Inductive == Types /\ DraftInv /\ ViewInv

LEMMA Bounds ==
  MaxEdits \in Nat /\ MaxLoads \in Nat /\ MaxLoads > 0 /\ MaxJoins \in Nat /\ MaxLosses \in Nat
  BY CodeViewAssumption

USE Bounds

LEMMA TailElements ==
  ASSUME NEW S, NEW s \in Seq(S), s # <<>>
  PROVE  /\ Tail(s) \in Seq(S) /\ Head(s) \in S /\ Head(s) = s[1] /\ Len(s) >= 1
         /\ Len(Tail(s)) = Len(s) - 1
         /\ \A i \in 1 .. Len(Tail(s)) : Tail(s)[i] = s[i + 1]
         /\ Elements(s) = {Head(s)} \cup Elements(Tail(s))
<1>1. /\ Tail(s) \in Seq(S) /\ Head(s) \in S /\ Head(s) = s[1] /\ Len(s) >= 1 /\ Len(s) \in Nat
      /\ Len(Tail(s)) = Len(s) - 1
      /\ \A i \in 1 .. Len(Tail(s)) : Tail(s)[i] = s[i + 1]
  OBVIOUS
<1>2. ASSUME NEW i \in 1 .. Len(s) PROVE s[i] \in {Head(s)} \cup Elements(Tail(s))
  <2>1. CASE i = 1
    BY <1>1, <2>1
  <2>2. CASE i # 1
    <3>1. i - 1 \in 1 .. Len(Tail(s)) /\ Tail(s)[i - 1] = s[i]
      BY <1>1, <2>2
    <3> QED
      BY <3>1 DEF Elements
  <2> QED
    BY <2>1, <2>2
<1>3. Elements(Tail(s)) \subseteq Elements(s)
  <2> SUFFICES ASSUME NEW i \in 1 .. Len(Tail(s)) PROVE Tail(s)[i] \in Elements(s)
    BY DEF Elements
  <2>1. i + 1 \in 1 .. Len(s) /\ Tail(s)[i] = s[i + 1]
    BY <1>1
  <2> QED
    BY <2>1 DEF Elements
<1>4. Head(s) \in Elements(s)
  BY <1>1 DEF Elements
<1> QED
  BY <1>1, <1>2, <1>3, <1>4 DEF Elements

LEMMA AppendElements ==
  ASSUME NEW S, NEW s \in Seq(S), NEW e \in S
  PROVE  /\ Append(s, e) \in Seq(S)
         /\ Len(Append(s, e)) = Len(s) + 1 /\ Len(s) \in Nat
         /\ \A i \in 1 .. Len(s) : Append(s, e)[i] = s[i]
         /\ Append(s, e)[Len(s) + 1] = e
         /\ Elements(Append(s, e)) = Elements(s) \cup {e}
<1>1. /\ Append(s, e) \in Seq(S) /\ Len(Append(s, e)) = Len(s) + 1 /\ Len(s) \in Nat
      /\ \A i \in 1 .. Len(s) : Append(s, e)[i] = s[i]
      /\ Append(s, e)[Len(s) + 1] = e
  OBVIOUS
<1>2. 1 .. Len(s) + 1 = (1 .. Len(s)) \cup {Len(s) + 1}
  BY <1>1
<1> QED
  BY <1>1, <1>2 DEF Elements

LEMMA NoElements == Elements(<< >>) = {} /\ << >> \in Seq(Sync)
<1>1. << >> \in Seq(Sync)
  OBVIOUS
<1> QED
  BY <1>1 DEF Elements

LEMMA SyncIsSomething == \A m \in Sync : m # Nothing /\ m.seq >= 1 /\ m.seq \in Nat /\ m.load \in Nat
  BY DEF Sync, Nothing

LEMMA GrowingTail ==
  ASSUME NEW s \in Seq(Sync), s # <<>>, NEW load \in Nat, NEW top \in Nat,
         NEW last \in Sync \cup {Nothing}, Growing(s, load, top, last)
  PROVE  /\ Growing(Tail(s), load, top, last) /\ Growing(Tail(s), load, top, Head(s))
         /\ Head(s).load = load /\ Head(s).seq <= top
         /\ last # Nothing /\ last.load = load => last.seq < Head(s).seq
<1> DEFINE t == Tail(s)
<1>1. /\ Head(s) = s[1] /\ Len(s) \in Nat /\ Len(s) >= 1 /\ Len(t) = Len(s) - 1
      /\ \A i \in 1 .. Len(t) : t[i] = s[i + 1]
  BY TailElements
<1> HIDE DEF t
<1>2. \A i \in 1 .. Len(t) : i + 1 \in 1 .. Len(s) /\ 1 < i + 1
  BY <1>1
<1>3. 1 \in 1 .. Len(s)
  BY <1>1
<1>4. \A i \in 1 .. Len(t) :
        /\ t[i].load = load /\ t[i].seq <= top /\ Head(s).seq < t[i].seq
        /\ last # Nothing /\ last.load = load => last.seq < t[i].seq
  BY <1>1, <1>2, <1>3 DEF Growing
<1>5. ASSUME NEW i \in 1 .. Len(t), NEW j \in 1 .. Len(t), i < j PROVE t[i].seq < t[j].seq
  <2>1. i + 1 < j + 1
    BY <1>1, <1>5
  <2> QED
    BY <1>1, <1>2, <2>1 DEF Growing
<1>6. Growing(t, load, top, last) /\ Growing(t, load, top, Head(s))
  BY <1>4, <1>5 DEF Growing
<1> QED
  BY <1>1, <1>3, <1>6 DEF t, Growing

LEMMA GrowingAppend ==
  ASSUME NEW s \in Seq(Sync), NEW m \in Sync, NEW load \in Nat, NEW top \in Nat,
         NEW last \in Sync \cup {Nothing}, Growing(s, load, top, last),
         last # Nothing /\ last.load = load => last.seq <= top,
         m.load = load, m.seq = top + 1
  PROVE  Growing(s, load, top + 1, last) /\ Growing(Append(s, m), load, top + 1, last)
<1> DEFINE t == Append(s, m)
<1>1. /\ Len(t) = Len(s) + 1 /\ Len(s) \in Nat /\ t[Len(s) + 1] = m
      /\ \A i \in 1 .. Len(s) : t[i] = s[i]
  BY AppendElements
<1> HIDE DEF t
<1>2. \A i \in 1 .. Len(s) : s[i].seq \in Nat
  BY SyncIsSomething
<1>3. \A i \in 1 .. Len(t) : i \in 1 .. Len(s) \/ i = Len(s) + 1
  BY <1>1
<1>4. last # Nothing => last.seq \in Nat
  BY SyncIsSomething
<1>5. Growing(s, load, top + 1, last)
  BY <1>2 DEF Growing
<1>6. \A i \in 1 .. Len(t) :
        /\ t[i].load = load /\ t[i].seq <= top + 1
        /\ last # Nothing /\ last.load = load => last.seq < t[i].seq
  BY <1>1, <1>2, <1>3, <1>4 DEF Growing
<1>7. ASSUME NEW i \in 1 .. Len(t), NEW j \in 1 .. Len(t), i < j PROVE t[i].seq < t[j].seq
  <2>1. i \in 1 .. Len(s)
    BY <1>1, <1>7
  <2>2. CASE j \in 1 .. Len(s)
    BY <1>1, <1>7, <2>1, <2>2 DEF Growing
  <2>3. CASE j = Len(s) + 1
    <3>1. s[i].seq <= top /\ s[i].seq \in Nat
      BY <1>2, <2>1 DEF Growing
    <3> QED
      BY <1>1, <2>1, <2>3, <3>1
  <2> QED
    BY <1>3, <2>2, <2>3
<1>8. Growing(t, load, top + 1, last)
  BY <1>6, <1>7 DEF Growing
<1> QED
  BY <1>5, <1>8 DEF t

LEMMA Initially == Init => Inductive
<1> SUFFICES ASSUME Init PROVE Inductive
  OBVIOUS
<1>1. Types
  <2>1. EditorTypes
    <3>1. page \in Pages /\ page.code = 0 /\ page.seq = 0
      BY DEF Init, Pages
    <3>2. save \in [Slots -> {Free} \cup Stores]
      BY DEF Init
    <3>3. edits = 0 /\ draft = 0 /\ raced \in BOOLEAN /\ halves = {}
      BY DEF Init
    <3> QED
      BY <3>1, <3>2, <3>3 DEF EditorTypes
  <2>2. RelayTypes
    <3>1. toServer \in Seq(Sync) /\ toView \in Seq(Sync)
      BY NoElements DEF Init
    <3>2. link \in BOOLEAN /\ recent \in BOOLEAN /\ watcher = "out" /\ joins = 0 /\ losses = 0
      BY DEF Init
    <3>3. snapshot = Nothing /\ held = Nothing /\ view = Nothing
      BY DEF Init
    <3> QED
      BY <3>1, <3>2, <3>3 DEF RelayTypes
  <2> QED
    BY <2>1, <2>2 DEF Types
<1>2. DraftInv
  BY DEF Init, DraftInv
<1>3. ViewInv
  BY NoElements DEF Init, ViewInv, FromEditor, Growing, ToWatcher, Older, Watching
<1> QED
  BY <1>1, <1>2, <1>3 DEF Inductive

-----------------------------------------------------------------------------
(* Types                                                                   *)

\* The steps of the requests.
SavesStep ==
  \/ \E k \in Slots : SaveDraft(k) \/ Run(k) \/ Answered(k) \/ Retry(k) \/ GiveUp(k)
  \/ \E k \in Slots, n \in 1 .. 2 : CreateRow(k, n) \/ FindRow(k, n) \/ WriteDraft(k, n) \/ Dies(k, n)

LEMMA NotFree == \A f \in Stores : f # Free
  BY DEF Stores, Free

LEMMA KeptTyped == \A f \in Stores : Kept(f) \in Stores \cup {Free}
  BY DEF Kept

LEMMA WithCall ==
  ASSUME NEW f \in Stores, NEW n \in 1 .. 2, NEW call \in Calls
  PROVE  [f EXCEPT !.calls[n] = call] \in Stores
  BY DEF Stores

LEMMA SentAgain ==
  ASSUME NEW f \in Stores
  PROVE  LET again == [f EXCEPT !.waits = 2, !.calls[2] = "sent"] IN
         /\ again \in Stores /\ again.code = f.code /\ again.alone = f.alone
         /\ again.row = f.row /\ again.calls = [f.calls EXCEPT ![2] = "sent"] /\ again.waits = 2
<1> DEFINE c == [f.calls EXCEPT ![2] = "sent"]
           again == [f EXCEPT !.waits = 2, !.calls[2] = "sent"]
<1>1. c \in [1 .. 2 -> Calls]
  BY DEF Stores, Calls
<1>2. again = [f EXCEPT !.waits = 2, !.calls = c]
  BY DEF Stores
<1> HIDE DEF c
<1>3. [f EXCEPT !.waits = 2, !.calls = c] \in Stores
  <2>1. [f EXCEPT !.waits = 2] \in Stores
    BY DEF Stores
  <2>2. \A g \in Stores : [g EXCEPT !.calls = c] \in Stores
    BY <1>1 DEF Stores
  <2> QED
    BY <2>1, <2>2
<1>4. again.calls = c /\ again.code = f.code /\ again.alone = f.alone /\ again.row = f.row /\ again.waits = 2
  BY <1>2 DEF Stores
<1> QED
  BY <1>2, <1>3, <1>4 DEF c

LEMMA SavesKeepTypes ==
  ASSUME Types, SavesStep
  PROVE  Types'
<1> USE DEF Types, editor, drafts, relay, viewer
<1> USE NotFree
<1>1. CASE \E k \in Slots : SaveDraft(k) \/ Run(k)
  <2>1. PICK k \in Slots, op \in {"draft", "submit"} :
          /\ save' = Joined(k, Fresh(op, page.code))
          /\ raced' = (raced \/ \E j \in Slots : save[j] # Free)
          /\ UNCHANGED <<edits, draft, halves, link, toServer, relay, viewer, toView, losses>>
    BY <1>1 DEF SaveDraft, Run, Request
  <2>2. page' = page \/ page' = [page EXCEPT !.state = "saving", !.timer = FALSE]
    BY <1>1 DEF SaveDraft, Run
  <2>3. page' \in Pages /\ page'.code = page.code /\ page'.seq = page.seq
    BY <2>2 DEF EditorTypes, Pages
  <2>4. Fresh(op, page.code) \in Stores
    BY <2>1 DEF EditorTypes, Pages, Stores, Fresh, Calls
  <2>5. \A f \in Stores : [f EXCEPT !.alone = FALSE] \in Stores
    BY DEF Stores
  <2>6. save' \in [Slots -> {Free} \cup Stores]
    BY <2>1, <2>4, <2>5 DEF Joined, EditorTypes
  <2>7. Stores' = Stores
    BY <2>1 DEF Stores
  <2>8. EditorTypes'
    BY <2>1, <2>3, <2>6, <2>7 DEF EditorTypes
  <2>9. RelayTypes'
    BY <2>1 DEF RelayTypes
  <2> QED
    BY <2>8, <2>9
<1>2. CASE \E k \in Slots : Answered(k) \/ Retry(k) \/ GiveUp(k)
  <2>1. PICK k \in Slots : Answered(k) \/ Retry(k) \/ GiveUp(k)
    BY <1>2
  <2>2. /\ UNCHANGED <<edits, draft, halves, link, toServer, relay, viewer, toView>>
        /\ losses' \in 0 .. MaxLosses /\ raced' \in BOOLEAN
    <3>1. CASE Answered(k)
      BY <3>1 DEF Answered, RelayTypes, EditorTypes
    <3>2. CASE Failed(k)
      BY <3>2 DEF Failed, MayFail, RelayTypes, EditorTypes
    <3> QED
      BY <2>1, <3>1, <3>2 DEF Retry, GiveUp
  <2>3. save[k] \in Stores
    BY <2>1 DEF Answered, Retry, GiveUp, Failed, EditorTypes
  <2>4. page' = page \/ page' = [page EXCEPT !.state = "saved"] \/ page' = [page EXCEPT !.state = "error"]
    BY <2>1 DEF Answered, Retry, GiveUp
  <2>5. page' \in Pages /\ page'.code = page.code /\ page'.seq = page.seq
    BY <2>4 DEF EditorTypes, Pages
  <2>6. [save[k] EXCEPT !.waits = 0] \in Stores
    BY <2>3 DEF Stores
  <2>7. [save[k] EXCEPT !.waits = 2, !.calls[2] = "sent"] \in Stores
    BY <2>3, SentAgain
  <2>8. \/ save' = [save EXCEPT ![k] = Kept([save[k] EXCEPT !.waits = 0])]
        \/ save' = [save EXCEPT ![k] = [save[k] EXCEPT !.waits = 2, !.calls[2] = "sent"]]
    <3>1. CASE Answered(k) \/ GiveUp(k)
      BY <3>1 DEF Answered, GiveUp, EditorTypes
    <3>2. CASE Retry(k)
      BY <3>2, <2>3 DEF Retry, EditorTypes, Stores
    <3> QED
      BY <2>1, <3>1, <3>2
  <2>9. save' \in [Slots -> {Free} \cup Stores]
    BY <2>6, <2>7, <2>8, KeptTyped DEF EditorTypes
  <2>10. Stores' = Stores
    BY <2>2 DEF Stores
  <2>11. EditorTypes'
    BY <2>2, <2>5, <2>9, <2>10 DEF EditorTypes
  <2>12. RelayTypes'
    BY <2>2 DEF RelayTypes
  <2> QED
    BY <2>11, <2>12
<1>3. CASE \E k \in Slots, n \in 1 .. 2 : CreateRow(k, n) \/ FindRow(k, n) \/ WriteDraft(k, n) \/ Dies(k, n)
  <2>1. PICK k \in Slots, n \in 1 .. 2 : CreateRow(k, n) \/ FindRow(k, n) \/ WriteDraft(k, n) \/ Dies(k, n)
    BY <1>3
  <2>2. save[k] \in Stores /\ save[k].code \in 0 .. edits
    BY <2>1 DEF CreateRow, FindRow, WriteDraft, Dies, EditorTypes, Free, Stores
  <2>3. PICK call \in Calls :
          \/ save' = [save EXCEPT ![k] = Kept(Comes(k, n, call))]
          \/ save' = [save EXCEPT ![k] = Kept([Comes(k, n, call) EXCEPT !.row = TRUE])]
    BY <2>1 DEF CreateRow, FindRow, WriteDraft, Dies, Serve, Calls
  <2>4. Comes(k, n, call) \in Stores
    BY <2>2, WithCall DEF Comes
  <2>5. [Comes(k, n, call) EXCEPT !.row = TRUE] \in Stores
    BY <2>4 DEF Stores
  <2>6. save' \in [Slots -> {Free} \cup Stores]
    BY <2>3, <2>4, <2>5, KeptTyped DEF EditorTypes
  <2>7. UNCHANGED <<page, edits, raced, link, toServer, relay, viewer, toView>>
    BY <2>1 DEF CreateRow, FindRow, WriteDraft, Dies, Serve
  <2>8. draft' \in 0 .. edits /\ halves' \subseteq 0 .. edits
    BY <2>1, <2>2 DEF CreateRow, FindRow, WriteDraft, Dies, EditorTypes
  <2>9. losses' \in 0 .. MaxLosses
    BY <2>1 DEF CreateRow, FindRow, WriteDraft, Dies, MayFail, RelayTypes
  <2>10. Stores' = Stores
    BY <2>7 DEF Stores
  <2>11. EditorTypes'
    BY <2>6, <2>7, <2>8, <2>10 DEF EditorTypes
  <2>12. RelayTypes'
    BY <2>7, <2>9 DEF RelayTypes
  <2> QED
    BY <2>11, <2>12
<1> QED
  BY <1>1, <1>2, <1>3 DEF SavesStep

LEMMA EditorKeepsTypes ==
  ASSUME Types, Edit \/ Reload \/ SavesStep
  PROVE  Types'
<1> USE DEF Types, editor, drafts, relay, viewer
<1>1. CASE Edit
  <2>1. edits < MaxEdits /\ edits' = edits + 1 /\ UNCHANGED <<draft, save, raced, halves>>
    BY <1>1 DEF Edit
  <2>2. page' = [page EXCEPT !.code = edits + 1, !.seq = @ + 1, !.state = "unsaved", !.timer = TRUE]
    BY <1>1 DEF Edit
  <2>3. page.seq + 1 \in 0 .. MaxEdits /\ edits + 1 \in 0 .. MaxEdits /\ page.seq + 1 <= edits + 1
    BY <2>1 DEF EditorTypes, Pages
  <2>4. page' \in Pages /\ page'.code = edits + 1 /\ page'.seq = page.seq + 1 /\ page'.load = page.load
    BY <2>2, <2>3 DEF EditorTypes, Pages
  <2>5. Stores \subseteq Stores'
    BY <2>1 DEF EditorTypes, Stores
  <2>6. EditorTypes'
    BY <2>1, <2>3, <2>4, <2>5 DEF EditorTypes
  <2>7. [load |-> page.load, seq |-> page'.seq, code |-> edits'] \in Sync
    BY <2>1, <2>3, <2>4 DEF Sync, EditorTypes, Pages
  <2>8. toServer' \in Seq(Sync)
    BY <1>1, <2>7, AppendElements DEF Edit, RelayTypes
  <2>9. RelayTypes'
    BY <1>1, <2>8 DEF Edit, RelayTypes
  <2> QED
    BY <2>6, <2>9
<1>2. CASE Reload
  <2>1. /\ page.load < MaxLoads /\ UNCHANGED <<edits, draft, halves>>
        /\ page' = [load |-> page.load + 1, code |-> draft, seq |-> 0, state |-> "saved", timer |-> FALSE]
    BY <1>2 DEF Reload
  <2>2. page.load + 1 \in 1 .. MaxLoads /\ draft \in 0 .. MaxEdits
    BY <2>1 DEF EditorTypes, Pages
  <2>3. page' \in Pages /\ page'.load = page.load + 1 /\ page'.code <= edits /\ page'.seq <= edits
    BY <2>1, <2>2 DEF EditorTypes, Pages
  <2>4. \A f \in Stores : Kept([f EXCEPT !.waits = 0]) \in Stores \cup {Free}
    <3>1. \A f \in Stores : [f EXCEPT !.waits = 0] \in Stores
      BY DEF Stores
    <3> QED
      BY <3>1, KeptTyped
  <2>5. save' \in [Slots -> {Free} \cup Stores] /\ raced' \in BOOLEAN
    BY <1>2, <2>4 DEF Reload, EditorTypes
  <2>6. EditorTypes'
    <3>1. Stores' = Stores
      BY <2>1 DEF Stores
    <3> QED
      BY <2>1, <2>3, <2>5, <3>1 DEF EditorTypes
  <2>7. /\ link' = FALSE /\ toServer' = <<>> /\ recent' = FALSE
        /\ UNCHANGED <<snapshot, watcher, held, view, joins, toView, losses>>
    BY <1>2 DEF Reload
  <2>8. RelayTypes'
    BY <2>7, NoElements DEF RelayTypes
  <2> QED
    BY <2>6, <2>8
<1>3. CASE SavesStep
  BY <1>3, SavesKeepTypes
<1> QED
  BY <1>1, <1>2, <1>3

LEMMA RelayKeepsTypes ==
  ASSUME Types, \/ Connect \/ Disconnect \/ Relay \/ Tick
                \/ Join \/ ReadSnapshot \/ Hello \/ Leave \/ Show \/ UNCHANGED vars
  PROVE  Types'
<1> USE DEF RelayTypes, editor, drafts, relay, viewer
<1>1. RelayTypes
  BY DEF Types
<1>2. EditorTypes'
  <2>1. UNCHANGED <<page, edits, draft, save, raced, halves>>
    BY DEF Connect, Disconnect, Relay, Tick, Join, ReadSnapshot, Hello, Leave, Show, vars
  <2>2. UNCHANGED Stores
    BY <2>1 DEF Stores
  <2> QED
    BY <2>1, <2>2 DEF Types, EditorTypes
<1>3. CASE Connect \/ Disconnect \/ Tick \/ Join \/ ReadSnapshot \/ Leave \/ UNCHANGED vars
  <2>1. joins' \in 0 .. MaxJoins
    BY <1>3, <1>1 DEF Connect, Disconnect, Tick, Join, ReadSnapshot, Leave, vars
  <2>2. losses' \in 0 .. MaxLosses
    BY <1>3, <1>1 DEF Connect, Disconnect, Tick, Join, ReadSnapshot, Leave, MayFail, vars
  <2>3. ASSUME Connect \/ Disconnect \/ Tick \/ UNCHANGED vars PROVE RelayTypes'
    <3>1. link' \in BOOLEAN /\ recent' \in BOOLEAN
      BY <1>1, <2>3 DEF Connect, Disconnect, Tick, vars
    <3>2. toServer' = toServer \/ toServer' = <<>>
      BY <2>3 DEF Connect, Disconnect, Tick, vars
    <3>3. UNCHANGED <<toView, snapshot, held, view, watcher>>
      BY <2>3 DEF Connect, Disconnect, Tick, vars
    <3> QED
      BY <1>1, <2>1, <2>2, <3>1, <3>2, <3>3, NoElements
  <2>4. ASSUME Join \/ ReadSnapshot PROVE RelayTypes'
    BY <1>1, <2>1, <2>2, <2>4 DEF Join, ReadSnapshot
  <2>5. ASSUME Leave PROVE RelayTypes'
    <3>1. view' \in Sync \cup {Nothing} /\ held' = Nothing /\ toView' = <<>> /\ watcher' = "out"
      BY <1>1, <2>5 DEF Leave
    <3>2. UNCHANGED <<link, recent, toServer, snapshot>>
      BY <2>5 DEF Leave
    <3> QED
      BY <1>1, <2>1, <2>2, <3>1, <3>2, NoElements
  <2>6. RelayTypes'
    BY <1>3, <2>3, <2>4, <2>5
  <2> QED
    BY <1>2, <2>6 DEF Types
<1>4. CASE Relay
  <2>1. Tail(toServer) \in Seq(Sync) /\ Head(toServer) \in Sync
    BY <1>4, <1>1, TailElements DEF Relay
  <2>2. Append(toView, Head(toServer)) \in Seq(Sync)
    BY <1>1, <2>1, AppendElements
  <2>3. RelayTypes'
    BY <1>4, <1>1, <2>1, <2>2 DEF Relay
  <2> QED
    BY <1>2, <2>3 DEF Types
<1>5. CASE Hello
  <2>1. toView' \in Seq(Sync)
    BY <1>5, <1>1, AppendElements DEF Hello
  <2>2. RelayTypes'
    BY <1>5, <1>1, <2>1 DEF Hello
  <2> QED
    BY <1>2, <2>2 DEF Types
<1>6. CASE Show
  <2>1. Tail(toView) \in Seq(Sync) /\ Head(toView) \in Sync
    BY <1>6, <1>1, TailElements DEF Show
  <2>2. RelayTypes'
    BY <1>6, <1>1, <2>1 DEF Show
  <2> QED
    BY <1>2, <2>2 DEF Types
<1> QED
  BY <1>3, <1>4, <1>5, <1>6


-----------------------------------------------------------------------------
(* The draft                                                               *)

\* A step of a request that has been made, towards r: the others stay as they are,
\* and if it is alone, there are none.
LEMMA RequestMoves ==
  ASSUME Types, DraftInv, NEW k \in Slots, save[k] # Free, NEW r \in Stores,
         save' = [save EXCEPT ![k] = Kept(r)],
         r.code = save[k].code, r.alone = save[k].alone, r.waits # 0 => save[k].waits # 0,
         page'.code = page.code, page'.timer = page.timer,
         \/ UNCHANGED raced
         \/ save[k].waits # 0 /\ raced' = (raced /\ ~save[k].alone),
         save[k].alone => /\ Sound(r, draft', halves')
                          /\ Whole(save[k], draft, halves) => Whole(r, draft', halves'),
         page'.state = "saved" =>
           \/ page.state = "saved" /\ (raced' \/ ~raced)
           \/ save[k].waits # 0 /\ (save[k].alone => Whole(r, draft', halves'))
  PROVE  DraftInv'
<1> USE NotFree
<1>1. save \in [Slots -> {Free} \cup Stores] /\ raced \in BOOLEAN
  BY DEF Types, EditorTypes
<1>2. save'[k] = Kept(r) /\ \A j \in Slots : j # k => save'[j] = save[j]
  BY <1>1
<1>3. save'[k] # Free => save'[k] = r
  BY <1>2 DEF Kept
<1>4. save'[k] = Free => ~Has(r, "made")
  BY <1>2 DEF Kept, Has
<1>5. raced' => raced
  BY <1>1
<1>6. save[k].alone => \A j \in Slots : save'[j] # Free => j = k
  BY <1>2 DEF DraftInv, AloneInv
<1>7. ASSUME NEW j \in Slots, save'[j] # Free, save'[j].alone PROVE AloneInv(j)'
  <2>1. j = k
    <3>1. CASE j # k
      <4>1. save[j] # Free /\ save[j].alone
        BY <1>2, <1>7, <3>1
      <4> QED
        BY <4>1 DEF DraftInv, AloneInv
    <3> QED
      BY <3>1
  <2>2. save'[k] = r /\ save[k].alone
    BY <1>3, <1>7, <2>1
  <2>3. AloneInv(k)
    BY <2>2 DEF DraftInv
  <2>4. Sound(save'[k], draft', halves')
    BY <2>2
  <2>5. ~page'.timer /\ (save'[k].waits # 0 \/ ~raced') => save'[k].code = page'.code
    BY <2>2, <2>3 DEF AloneInv
  <2> QED
    BY <1>6, <2>1, <2>2, <2>4, <2>5 DEF AloneInv
<1>8. ASSUME ~raced' PROVE save[k].alone
  BY <1>1, <1>8 DEF DraftInv
<1>9. ASSUME ~raced', page'.state = "saved", ~page'.timer
      PROVE  draft' = page'.code \/ page'.code \in halves' \/ (save'[k] # Free /\ Whole(save'[k], draft', halves'))
  <2>1. save[k].alone /\ AloneInv(k)
    BY <1>8, <1>9 DEF DraftInv
  <2>2. save[k].code = page.code
    BY <1>1, <1>9, <2>1 DEF AloneInv
  <2>3. Whole(r, draft', halves')
    <3>1. CASE page.state = "saved" /\ ~raced
      <4>1. \/ draft = page.code \/ page.code \in halves
            \/ \E j \in Slots : save[j] # Free /\ Whole(save[j], draft, halves)
        BY <1>9, <3>1 DEF DraftInv
      <4>2. Whole(save[k], draft, halves)
        BY <2>1, <2>2, <4>1 DEF AloneInv, Whole
      <4> QED
        BY <2>1, <4>2
    <3> QED
      BY <1>9, <2>1, <3>1
  <2> QED
    BY <1>3, <1>4, <2>2, <2>3 DEF Whole
<1>10. ~raced' => \A j \in Slots : save'[j] # Free => save'[j].alone
  BY <1>3, <1>6, <1>8
<1> QED
  BY <1>7, <1>9, <1>10 DEF DraftInv

LEMMA RequestKeepsDraftInv ==
  ASSUME Types, DraftInv, NEW k \in Slots, SaveDraft(k) \/ Run(k)
  PROVE  DraftInv'
<1> USE NotFree DEF Types, EditorTypes
<1>1. PICK op \in {"draft", "submit"} :
        /\ save[k] = Free /\ save' = Joined(k, Fresh(op, page.code))
        /\ raced' = (raced \/ \E j \in Slots : save[j] # Free)
        /\ UNCHANGED <<draft, halves>>
  BY DEF SaveDraft, Run, Request
<1>2. page' = page \/ page' = [page EXCEPT !.state = "saving", !.timer = FALSE]
  BY DEF SaveDraft, Run
<1>3. page'.code = page.code /\ (page'.state = "saved" => page' = page)
  BY <1>2 DEF Pages
<1> DEFINE f == Fresh(op, page.code)
<1>4. /\ f.code = page.code /\ f.waits = 1 /\ ~f.row /\ f.calls[2] = "none"
      /\ f.alone <=> \A j \in Slots : save[j] = Free
      /\ ~Has(f, "made") /\ ~Has(f, "done")
  BY DEF Fresh, Has
<1>5. save'[k] = f
  BY <1>1 DEF Joined
<1> HIDE DEF f
<1>6. ASSUME NEW j \in Slots, j # k, save'[j] # Free PROVE save[j] # Free /\ save'[j].alone = FALSE
  BY <1>1, <1>6 DEF Joined, Stores
<1>7. ASSUME NEW j \in Slots, save'[j] # Free, save'[j].alone PROVE AloneInv(j)'
  <2>1. j = k /\ f.alone
    BY <1>5, <1>6, <1>7
  <2>2. \A i \in Slots : save'[i] # Free => i = k
    BY <1>4, <1>6, <2>1
  <2>3. Sound(save'[k], draft', halves')
    BY <1>4, <1>5 DEF Sound
  <2> QED
    BY <1>3, <1>4, <1>5, <2>1, <2>2, <2>3 DEF AloneInv
<1>8. ASSUME ~raced' PROVE ~raced /\ \A j \in Slots : save[j] = Free
  BY <1>1, <1>8
<1>9. ~raced' => \A j \in Slots : save'[j] # Free => save'[j].alone
  BY <1>4, <1>5, <1>6, <1>8
<1>10. ~raced' /\ page'.state = "saved" /\ ~page'.timer => draft' = page'.code \/ page'.code \in halves'
  BY <1>1, <1>3, <1>8 DEF DraftInv
<1> QED
  BY <1>7, <1>9, <1>10 DEF DraftInv

LEMMA PageKeepsDraftInv ==
  ASSUME Types, DraftInv, NEW k \in Slots, Answered(k) \/ Retry(k) \/ GiveUp(k)
  PROVE  DraftInv'
<1> USE NotFree DEF Types, EditorTypes
<1>1. save[k] # Free /\ save[k] \in Stores /\ save[k].waits # 0 /\ UNCHANGED <<draft, halves>>
  BY DEF Answered, Retry, GiveUp, Failed
<1>2. save[k].alone => Sound(save[k], draft, halves)
  BY <1>1 DEF DraftInv, AloneInv
<1> DEFINE ended == [save[k] EXCEPT !.waits = 0]
           again == [save[k] EXCEPT !.waits = 2, !.calls[2] = "sent"]
<1>3. /\ ended \in Stores /\ ended.code = save[k].code /\ ended.alone = save[k].alone
      /\ ended.row = save[k].row /\ ended.calls = save[k].calls /\ ended.waits = 0
  BY <1>1 DEF Stores
<1> HIDE DEF ended
<1>4. /\ Whole(save[k], draft, halves) <=> Whole(ended, draft', halves')
      /\ Sound(save[k], draft, halves) => Sound(ended, draft', halves')
  BY <1>1, <1>3 DEF Whole, Sound, Has
<1>5. CASE Answered(k)
  <2>1. /\ save' = [save EXCEPT ![k] = Kept(ended)] /\ raced' = (raced /\ ~save[k].alone)
        /\ page' = [page EXCEPT !.state = "saved"]
    BY <1>5 DEF Answered, ended
  <2>2. page'.code = page.code /\ page'.timer = page.timer
    BY <2>1 DEF Pages
  <2>3. Has(save[k], "done")
    BY <1>1, <1>5 DEF Answered, Has, Stores
  <2>4. save[k].alone => Whole(ended, draft', halves')
    BY <1>2, <1>4, <2>3 DEF Sound, Whole
  <2> QED
    BY <1>1, <1>2, <1>3, <1>4, <2>1, <2>2, <2>4, RequestMoves
<1>6. CASE GiveUp(k)
  <2>1. /\ save' = [save EXCEPT ![k] = Kept(ended)] /\ UNCHANGED raced
        /\ page' = page \/ page' = [page EXCEPT !.state = "error"]
    BY <1>6 DEF GiveUp, Failed, ended
  <2>2. /\ page'.code = page.code /\ page'.timer = page.timer
        /\ page'.state = "saved" => page.state = "saved"
    BY <2>1 DEF Pages
  <2> QED
    BY <1>1, <1>2, <1>3, <1>4, <2>1, <2>2, RequestMoves
<1>7. CASE Retry(k)
  <2>1. save[k].waits = 1 /\ UNCHANGED <<page, raced>>
    BY <1>7 DEF Retry, Failed
  <2>2. /\ again \in Stores /\ again.code = save[k].code /\ again.alone = save[k].alone
        /\ again.row = save[k].row /\ again.calls = [save[k].calls EXCEPT ![2] = "sent"] /\ again.waits = 2
    BY <1>1, SentAgain
  <2>3. save' = [save EXCEPT ![k] = again]
    BY <1>1, <1>7 DEF Retry, Stores
  <2> HIDE DEF again
  <2>4. save' = [save EXCEPT ![k] = Kept(again)]
    BY <2>2, <2>3 DEF Kept
  <2>5. ASSUME Sound(save[k], draft, halves)
        PROVE  /\ Has(again, "made") <=> Has(save[k], "made")
               /\ Has(again, "done") <=> Has(save[k], "done")
    BY <1>1, <2>1, <2>2, <2>5 DEF Sound, Has, Stores
  <2>6. Sound(save[k], draft, halves) =>
          /\ Sound(again, draft', halves')
          /\ Whole(save[k], draft, halves) => Whole(again, draft', halves')
    BY <1>1, <2>2, <2>5 DEF Sound, Whole
  <2> QED
    BY <1>1, <1>2, <2>1, <2>2, <2>4, <2>6, RequestMoves
<1> QED
  BY <1>5, <1>6, <1>7

LEMMA ServerKeepsDraftInv ==
  ASSUME Types, DraftInv, NEW k \in Slots, NEW n \in 1 .. 2,
         CreateRow(k, n) \/ FindRow(k, n) \/ WriteDraft(k, n) \/ Dies(k, n)
  PROVE  DraftInv'
<1> USE NotFree DEF Types, EditorTypes
<1>1. save[k] # Free /\ save[k] \in Stores /\ UNCHANGED <<page, raced>>
  BY DEF CreateRow, FindRow, WriteDraft, Dies, Serve, Free, editor
<1>2. save[k].alone => Sound(save[k], draft, halves)
  BY <1>1 DEF DraftInv, AloneInv
<1> DEFINE
  Creates(call, row) == call = "made" /\ row = TRUE /\ UNCHANGED <<draft, halves>>
  Finds(call, row) == /\ call = "done" /\ row = save[k].row /\ UNCHANGED <<draft, halves>>
                      /\ save[k].row = TRUE /\ save[k].calls[n] = "sent"
  Writes(call, row) == call = "done" /\ row = save[k].row /\ draft' = save[k].code /\ UNCHANGED halves
  Ends(call, row) == /\ call = "dead" /\ row = save[k].row /\ UNCHANGED draft
                     /\ halves \subseteq halves'
                     /\ save[k].calls[n] = "made" => save[k].code \in halves'
<1>3. PICK call \in Calls \ {"none", "sent"}, row \in BOOLEAN, r \in Stores :
        /\ save' = [save EXCEPT ![k] = Kept(r)]
        /\ r.code = save[k].code /\ r.alone = save[k].alone /\ r.waits = save[k].waits
        /\ r.calls = [save[k].calls EXCEPT ![n] = call] /\ r.row = row
        /\ \/ Creates(call, row) \/ Finds(call, row) \/ Writes(call, row) \/ Ends(call, row)
  <2>1. ASSUME NEW call \in Calls
        PROVE  LET c == Comes(k, n, call) IN
               /\ c \in Stores /\ c.code = save[k].code /\ c.alone = save[k].alone
               /\ c.waits = save[k].waits /\ c.row = save[k].row
               /\ c.calls = [save[k].calls EXCEPT ![n] = call]
    <3>1. Comes(k, n, call) \in Stores
      BY <1>1, WithCall DEF Comes
    <3> QED
      BY <1>1, <3>1 DEF Comes, Stores
  <2>2. CASE CreateRow(k, n)
    <3> DEFINE c == Comes(k, n, "made")
    <3>1. /\ c \in Stores /\ c.code = save[k].code /\ c.alone = save[k].alone
          /\ c.waits = save[k].waits /\ c.calls = [save[k].calls EXCEPT ![n] = "made"]
      BY <2>1 DEF Calls
    <3>2. save' = [save EXCEPT ![k] = Kept([c EXCEPT !.row = TRUE])]
      BY <2>2 DEF CreateRow, Serve
    <3> HIDE DEF c
    <3>3. /\ [c EXCEPT !.row = TRUE] \in Stores /\ [c EXCEPT !.row = TRUE].row = TRUE
          /\ [c EXCEPT !.row = TRUE].code = c.code /\ [c EXCEPT !.row = TRUE].alone = c.alone
          /\ [c EXCEPT !.row = TRUE].waits = c.waits /\ [c EXCEPT !.row = TRUE].calls = c.calls
      BY <3>1 DEF Stores
    <3> QED
      BY <2>2, <3>1, <3>2, <3>3 DEF Calls, CreateRow
  <2>3. CASE FindRow(k, n) \/ WriteDraft(k, n)
    <3>1. save' = [save EXCEPT ![k] = Kept(Comes(k, n, "done"))] /\ save[k].row \in BOOLEAN
      BY <1>1, <2>3 DEF FindRow, WriteDraft, Serve, Stores
    <3>2. Finds("done", save[k].row) \/ Writes("done", save[k].row)
      BY <1>1, <2>3 DEF FindRow, WriteDraft, Stores
    <3> HIDE DEF Creates, Finds, Writes, Ends
    <3> QED
      BY <2>1, <3>1, <3>2 DEF Calls
  <2>4. CASE Dies(k, n)
    <3>1. save' = [save EXCEPT ![k] = Kept(Comes(k, n, "dead"))] /\ save[k].row \in BOOLEAN
      BY <1>1, <2>4 DEF Dies, Serve, Stores
    <3>2. Ends("dead", save[k].row)
      BY <2>4 DEF Dies
    <3> HIDE DEF Creates, Finds, Writes, Ends
    <3> QED
      BY <2>1, <3>1, <3>2 DEF Calls
  <2> QED
    BY <2>2, <2>3, <2>4
<1>4. save[k].calls \in [1 .. 2 -> Calls]
  BY <1>1 DEF Stores
<1>5. save[k].calls[n] \in {"sent", "made"}
  BY DEF CreateRow, FindRow, WriteDraft, Dies
<1>6. \A c \in Calls : Has(r, c) <=> c = call \/ \E i \in 1 .. 2 : i # n /\ save[k].calls[i] = c
  BY <1>3, <1>4 DEF Has
<1>7. Sound(save[k], draft, halves) => (r.waits = 1 => r.calls[2] = "none")
  BY <1>3, <1>4, <1>5 DEF Sound
<1>8. ASSUME Sound(save[k], draft, halves)
      PROVE  /\ Sound(r, draft', halves')
             /\ Whole(save[k], draft, halves) => Whole(r, draft', halves')
  <2>1. \A c \in Calls : c # save[k].calls[n] => (Has(save[k], c) => Has(r, c))
    BY <1>6 DEF Has
  <2>2. \A c \in Calls : c # call => (Has(r, c) => Has(save[k], c))
    BY <1>6 DEF Has
  <2>3. "made" \in Calls /\ "done" \in Calls
    BY DEF Calls
  <2>4. CASE Creates(call, row)
    <3>1. UNCHANGED <<draft, halves>> /\ call = "made" /\ r.row = TRUE
      BY <1>3, <2>4
    <3>2. Has(r, "made")
      BY <1>6, <2>3, <3>1
    <3> QED
      BY <1>7, <1>8, <3>1, <3>2 DEF Sound, Whole
  <2>5. CASE Finds(call, row)
    <3>1. UNCHANGED <<draft, halves>> /\ r.row = TRUE /\ call = "done" /\ save[k].calls[n] = "sent" /\ save[k].row
      BY <1>3, <2>5
    <3>2. Has(r, "made") <=> Has(save[k], "made")
      BY <2>1, <2>2, <2>3, <3>1
    <3> QED
      BY <1>3, <1>7, <1>8, <3>1, <3>2 DEF Sound, Whole
  <2>6. CASE Writes(call, row)
    <3>1. draft' = r.code /\ UNCHANGED halves /\ call # "made" /\ r.row = save[k].row
      BY <1>3, <2>6
    <3>2. Has(r, "made") => Has(save[k], "made")
      BY <2>2, <2>3, <3>1
    <3> QED
      BY <1>7, <1>8, <3>1, <3>2 DEF Sound, Whole
  <2>7. CASE Ends(call, row)
    <3>1. /\ UNCHANGED draft /\ call = "dead" /\ r.row = save[k].row /\ halves \subseteq halves'
          /\ save[k].calls[n] = "made" => r.code \in halves'
      BY <1>3, <2>7
    <3>2. Has(r, "made") => Has(save[k], "made")
      BY <2>2, <2>3, <3>1
    <3>3. Has(r, "done") => Has(save[k], "done")
      BY <2>2, <2>3, <3>1
    <3>4. Whole(save[k], draft, halves) => Whole(r, draft', halves')
      BY <1>3, <2>1, <2>3, <3>1 DEF Whole
    <3> QED
      BY <1>3, <1>7, <1>8, <3>1, <3>2, <3>3, <3>4 DEF Sound
  <2> QED
    BY <1>3, <2>4, <2>5, <2>6, <2>7
<1>9. page' = page /\ (raced' \/ ~raced)
  BY <1>1
<1> QED
  BY <1>1, <1>2, <1>3, <1>8, <1>9, RequestMoves

LEMMA KeepsDraftInv == Types /\ DraftInv /\ [Next]_vars => DraftInv'
<1> SUFFICES ASSUME Types, DraftInv, [Next]_vars PROVE DraftInv'
  OBVIOUS
<1> USE DEF Types, EditorTypes, Pages, editor, drafts, relay, viewer
<1>1. CASE Edit
  <2>1. page'.timer /\ UNCHANGED <<draft, save, raced, halves>>
    BY <1>1 DEF Edit
  <2> QED
    BY <2>1 DEF DraftInv, AloneInv, Sound, Whole
<1>2. CASE Reload
  <2>1. /\ page'.code = draft /\ UNCHANGED <<draft, halves>>
        /\ raced' <=> \E k \in Slots : save'[k] # Free
    BY <1>2 DEF Reload
  <2>2. ASSUME NEW k \in Slots, save'[k] # Free
        PROVE  /\ save[k] # Free /\ save'[k].waits = 0
               /\ save'[k].alone = save[k].alone /\ save'[k].calls = save[k].calls
               /\ save'[k].code = save[k].code /\ save'[k].row = save[k].row
    <3>1. save[k] # Free /\ save'[k] = [save[k] EXCEPT !.waits = 0]
      BY <1>2, <2>2 DEF Reload, Kept
    <3> QED
      BY <3>1 DEF Stores
  <2>3. ASSUME NEW k \in Slots, save'[k] # Free, save'[k].alone PROVE AloneInv(k)'
    <3>1. AloneInv(k)
      BY <2>2, <2>3 DEF DraftInv
    <3>2. Sound(save'[k], draft', halves')
      BY <2>1, <2>2, <2>3, <3>1 DEF AloneInv, Sound, Whole, Has
    <3> QED
      BY <2>1, <2>2, <2>3, <3>1, <3>2 DEF AloneInv
  <2> QED
    BY <2>1, <2>3 DEF DraftInv
<1>3. CASE SavesStep
  BY <1>3, RequestKeepsDraftInv, PageKeepsDraftInv, ServerKeepsDraftInv DEF SavesStep
<1>4. CASE \/ Connect \/ Disconnect \/ Relay \/ Tick
           \/ Join \/ ReadSnapshot \/ Hello \/ Leave \/ Show \/ UNCHANGED vars
  <2>1. UNCHANGED <<page, draft, save, raced, halves>>
    BY <1>4 DEF Connect, Disconnect, Relay, Tick, Join, ReadSnapshot, Hello, Leave, Show, vars
  <2> QED
    BY <2>1 DEF DraftInv, AloneInv, Sound, Whole, Has
<1> QED
  BY <1>1, <1>2, <1>3, <1>4 DEF Next, SavesStep

-----------------------------------------------------------------------------
(* The view                                                                *)

\* The editor moves FromEditor, and nothing of the watcher.
LEMMA EditorKeepsViewInv ==
  ASSUME Types, ViewInv,
         Edit \/ Reload \/ SavesStep
  PROVE  ViewInv'
<1> USE DEF Types, EditorTypes, RelayTypes, Pages, editor, drafts, relay, viewer
<1>1. UNCHANGED <<snapshot, view, held, toView, watcher>>
  BY DEF Edit, Reload, SavesStep, SaveDraft, Run, Request, Answered, Retry, GiveUp, Failed,
         CreateRow, FindRow, WriteDraft, Dies, Serve
<1>2. ToWatcher' /\ Watching'
  BY <1>1 DEF ViewInv, ToWatcher, Watching, Older, Covered
<1>3. CASE Edit
  <2>1. page'.load = page.load /\ page'.seq = page.seq + 1 /\ page.seq + 1 <= MaxEdits /\ edits' \in 1 .. MaxEdits
    BY <1>3 DEF Edit
  <2>2. PICK m : m = [load |-> page.load, seq |-> page.seq + 1, code |-> edits']
    OBVIOUS
  <2>3. m \in Sync /\ m.load = page.load /\ m.seq = page.seq + 1
    BY <2>1, <2>2 DEF Sync
  <2>4. toServer' = toServer \/ toServer' = Append(toServer, m)
    BY <1>3, <2>1, <2>2 DEF Edit
  <2>5. snapshot # Nothing => snapshot.seq \in Nat
    BY SyncIsSomething
  <2>6. Growing(toServer', page.load, page.seq + 1, snapshot)
    <3>1. /\ toServer \in Seq(Sync) /\ page.load \in Nat /\ page.seq \in Nat
          /\ snapshot \in Sync \cup {Nothing}
      OBVIOUS
    <3>2. /\ Growing(toServer, page.load, page.seq, snapshot)
          /\ snapshot # Nothing /\ snapshot.load = page.load => snapshot.seq <= page.seq
      BY DEF ViewInv, FromEditor
    <3>3. /\ Growing(toServer, page.load, page.seq + 1, snapshot)
          /\ Growing(Append(toServer, m), page.load, page.seq + 1, snapshot)
      BY <2>3, <3>1, <3>2, GrowingAppend
    <3> QED
      BY <2>4, <3>3
  <2>7. FromEditor'
    BY <1>1, <2>1, <2>5, <2>6 DEF ViewInv, FromEditor
  <2> QED
    BY <1>2, <2>7 DEF ViewInv
<1>4. CASE Reload
  <2>1. toServer' = <<>> /\ page'.load = page.load + 1
    BY <1>4 DEF Reload
  <2>2. snapshot # Nothing => snapshot.load <= page.load /\ snapshot.load \in Nat
    BY SyncIsSomething DEF ViewInv, FromEditor
  <2>3. FromEditor'
    BY <1>1, <2>1, <2>2 DEF FromEditor, Growing
  <2> QED
    BY <1>2, <2>3 DEF ViewInv
<1>5. CASE SavesStep
  <2>1. page'.load = page.load /\ page'.seq = page.seq /\ UNCHANGED toServer
    BY <1>5 DEF SavesStep, SaveDraft, Run, Request, Answered, Retry, GiveUp, Failed,
                CreateRow, FindRow, WriteDraft, Dies, Serve
  <2>2. FromEditor'
    BY <1>1, <2>1 DEF ViewInv, FromEditor
  <2> QED
    BY <1>2, <2>2 DEF ViewInv
<1> QED
  BY <1>3, <1>4, <1>5

\* The order of two numbers of which the first weighs more.
LEMMA Earlier ==
  ASSUME NEW a \in Nat, NEW b \in Nat, NEW c \in Nat, NEW d \in Nat, NEW e \in Nat, NEW f \in Nat,
         a < c \/ (a = c /\ b < d), c < e \/ (c = e /\ d < f)
  PROVE  a < e \/ (a = e /\ b < f)
  OBVIOUS

\* The relay's new snapshot is above the old one, hence above whatever is on its way.
LEMMA RelayKeepsViewInv == Types /\ ViewInv /\ Relay => ViewInv'
<1> SUFFICES ASSUME Types, ViewInv, Relay PROVE ViewInv'
  OBVIOUS
<1> USE DEF Types, EditorTypes, RelayTypes, Pages, editor, drafts, relay, viewer
<1>1. /\ toServer # <<>> /\ toServer' = Tail(toServer)
      /\ UNCHANGED <<page, watcher, held, view>>
  BY DEF Relay
<1>2. PICK h \in Sync : h = Head(toServer)
  BY <1>1, TailElements
<1>3. /\ Growing(toServer', page.load, page.seq, snapshot) /\ Growing(toServer', page.load, page.seq, h)
      /\ h.load = page.load /\ h.seq <= page.seq
      /\ snapshot # Nothing /\ snapshot.load = page.load => snapshot.seq < h.seq
  BY <1>1, <1>2, GrowingTail DEF ViewInv, FromEditor
<1>4. /\ h # Nothing /\ h.load \in Nat /\ h.seq \in Nat
      /\ snapshot # Nothing => snapshot.load \in Nat /\ snapshot.seq \in Nat
  BY SyncIsSomething
<1>5. snapshot # Nothing => snapshot.load < h.load \/ (snapshot.load = h.load /\ snapshot.seq < h.seq)
  BY <1>3, <1>4 DEF ViewInv, FromEditor
<1>6. CASE UNCHANGED <<relay, toView>>
  <2>1. FromEditor'
    BY <1>1, <1>3, <1>6 DEF ViewInv, FromEditor
  <2>2. ToWatcher' /\ Watching'
    BY <1>1, <1>6 DEF ViewInv, ToWatcher, Watching, Older, Covered
  <2> QED
    BY <2>1, <2>2 DEF ViewInv
<1>7. CASE /\ snapshot' = h
           /\ toView' = IF watcher = "out" THEN toView ELSE Append(toView, h)
  <2>1. FromEditor'
    BY <1>1, <1>3, <1>4, <1>7 DEF FromEditor
  <2>2. ASSUME NEW m \in Sync \cup {Nothing}, Older(m) PROVE Older(m)'
    <3>1. CASE m = Nothing
      BY <3>1 DEF Older
    <3>2. CASE m \in Sync
      <4>1. m.load \in Nat /\ m.seq \in Nat /\ m # Nothing
        BY <3>2, SyncIsSomething
      <4>2. /\ snapshot # Nothing
            /\ m = snapshot \/ m.load < snapshot.load \/ (m.load = snapshot.load /\ m.seq < snapshot.seq)
        BY <2>2, <4>1 DEF Older
      <4>3. snapshot.load < h.load \/ (snapshot.load = h.load /\ snapshot.seq < h.seq)
        BY <1>5, <4>2
      <4>4. m.load < h.load \/ (m.load = h.load /\ m.seq < h.seq)
        <5>1. CASE m = snapshot
          BY <4>3, <5>1
        <5>2. CASE m.load < snapshot.load \/ (m.load = snapshot.load /\ m.seq < snapshot.seq)
          BY <1>4, <4>1, <4>2, <4>3, <5>2, Earlier
        <5> QED
          BY <4>2, <5>1, <5>2
      <4> QED
        BY <1>4, <1>7, <4>4 DEF Older
    <3> QED
      BY <3>1, <3>2
  <2>3. Elements(toView) \subseteq Sync
    BY DEF Elements
  <2>4. /\ Elements(toView') \subseteq Elements(toView) \cup {h}
        /\ watcher # "out" => h \in Elements(toView')
    BY <1>7, AppendElements
  <2>5. Older(h)'
    BY <1>4, <1>7 DEF Older
  <2>6. Older(view)' /\ Older(held)'
    BY <1>1, <2>2 DEF ViewInv, ToWatcher, Older
  <2>7. ToWatcher'
    BY <2>2, <2>3, <2>4, <2>5, <2>6 DEF ViewInv, ToWatcher
  <2>8. Watching'
    BY <1>1, <1>7, <2>4 DEF Watching, Covered
  <2> QED
    BY <2>1, <2>7, <2>8 DEF ViewInv
<1> QED
  BY <1>2, <1>6, <1>7 DEF Relay

\* The watcher shows a code: if it was the snapshot, the view has now passed it;
\* if not, it cannot have replaced a view that had.
LEMMA ShowKeepsViewInv == Types /\ ViewInv /\ Show => ViewInv'
<1> SUFFICES ASSUME Types, ViewInv, Show PROVE ViewInv'
  OBVIOUS
<1> USE DEF Types, EditorTypes, RelayTypes, Pages, editor, drafts, relay, viewer
<1> DEFINE h == Head(toView)
<1>1. /\ toView' = Tail(toView) /\ UNCHANGED <<page, toServer, snapshot, watcher, held>>
      /\ view' = IF h.seq > view.seq THEN h ELSE view
  BY DEF Show, Accepts
<1>2. h \in Sync /\ Elements(toView) = {h} \cup Elements(toView')
  BY <1>1, TailElements DEF Show
<1> HIDE DEF h
<1>3. FromEditor'
  BY <1>1 DEF ViewInv, FromEditor
<1>4. Older(h) /\ Older(view)
  BY <1>2 DEF ViewInv, ToWatcher
<1>5. ToWatcher'
  BY <1>1, <1>2, <1>4 DEF ViewInv, ToWatcher, Older
<1>6. view.seq \in Nat /\ h.seq \in Nat /\ h.seq >= 1 /\ h # Nothing /\ h.load \in Nat
  BY <1>2, SyncIsSomething DEF Nothing
<1>7. snapshot # Nothing => snapshot.seq \in Nat /\ snapshot.load \in Nat
  BY SyncIsSomething
<1>8. ASSUME snapshot # Nothing, Covered PROVE Covered'
  <2>1. CASE snapshot \in Elements(toView')
    BY <1>1, <2>1 DEF Covered
  <2>2. CASE snapshot = h
    <3>1. view'.seq >= h.seq
      BY <1>1, <1>6
    <3>2. CASE h.seq > view.seq
      BY <1>1, <1>6, <2>2, <3>2 DEF Covered
    <3>3. CASE ~(h.seq > view.seq)
      <4>1. view # Nothing
        BY <1>6, <3>3 DEF Nothing
      <4>2. view.load = snapshot.load => view = snapshot
        BY <1>4, <1>6, <1>7, <1>8, <2>2, <3>3, <4>1 DEF Older, Sync
      <4> QED
        BY <1>1, <2>2, <3>1, <3>3, <4>2 DEF Covered
    <3> QED
      BY <3>2, <3>3
  <2>3. CASE view.seq >= snapshot.seq /\ (view.load = snapshot.load => view = snapshot)
    <3>1. CASE h.seq > view.seq
      <4>1. h.seq > snapshot.seq
        BY <1>6, <1>7, <1>8, <2>3, <3>1
      <4>2. h.load # snapshot.load
        BY <1>4, <1>6, <1>7, <1>8, <4>1 DEF Older
      <4> QED
        BY <1>1, <1>6, <1>7, <1>8, <3>1, <4>1, <4>2 DEF Covered
    <3>2. CASE ~(h.seq > view.seq)
      BY <1>1, <2>3, <3>2 DEF Covered
    <3> QED
      BY <3>1, <3>2
  <2> QED
    BY <1>2, <1>8, <2>1, <2>2, <2>3 DEF Covered
<1>9. Watching'
  BY <1>1, <1>8 DEF ViewInv, Watching
<1> QED
  BY <1>3, <1>5, <1>9 DEF ViewInv

LEMMA WatcherKeepsViewInv ==
  ASSUME Types, ViewInv,
         Connect \/ Disconnect \/ Tick \/ Join \/ ReadSnapshot \/ Hello \/ Leave \/ UNCHANGED vars
  PROVE  ViewInv'
<1> USE DEF Types, EditorTypes, RelayTypes, Pages, editor, drafts, relay, viewer
<1>1. UNCHANGED <<page, snapshot>> /\ (UNCHANGED toServer \/ toServer' = <<>>)
  BY DEF Connect, Disconnect, Tick, Join, ReadSnapshot, Hello, Leave, vars
<1>2. FromEditor'
  <2>1. CASE UNCHANGED toServer
    BY <1>1, <2>1 DEF ViewInv, FromEditor
  <2>2. CASE toServer' = <<>>
    BY <1>1, <2>2 DEF ViewInv, FromEditor, Growing
  <2> QED
    BY <1>1, <2>1, <2>2
<1>3. CASE Connect \/ Disconnect \/ Tick \/ Join \/ UNCHANGED vars
  <2>1. UNCHANGED <<snapshot, view, held, toView>> /\ (UNCHANGED watcher \/ watcher' = "joined")
    BY <1>3 DEF Connect, Disconnect, Tick, Join, vars
  <2>2. ToWatcher' /\ Watching'
    BY <2>1 DEF ViewInv, ToWatcher, Watching, Older, Covered
  <2> QED
    BY <1>2, <2>2 DEF ViewInv
<1>4. CASE ReadSnapshot
  <2>1. UNCHANGED <<snapshot, view, toView>> /\ held' = snapshot /\ watcher' = "read"
    BY <1>4 DEF ReadSnapshot
  <2>2. ToWatcher' /\ Watching'
    BY <2>1 DEF ViewInv, ToWatcher, Watching, Older
  <2> QED
    BY <1>2, <2>2 DEF ViewInv
<1>5. CASE Hello
  <2>1. UNCHANGED <<snapshot, view>> /\ held' = Nothing /\ watcher = "read" /\ watcher' = "on"
    BY <1>5 DEF Hello
  <2>2. Elements(toView') = Elements(toView) \cup ({held} \ {Nothing})
    BY <1>5, AppendElements DEF Hello
  <2>3. ToWatcher'
    BY <2>1, <2>2 DEF ViewInv, ToWatcher, Older
  <2>4. Watching'
    BY <2>1, <2>2 DEF ViewInv, Watching, Covered
  <2> QED
    BY <1>2, <2>3, <2>4 DEF ViewInv
<1>6. CASE Leave
  <2>1. /\ view' \in {view, Nothing} /\ held' = Nothing /\ toView' = <<>> /\ watcher' = "out"
        /\ UNCHANGED snapshot
    BY <1>6 DEF Leave
  <2>2. ToWatcher' /\ Watching'
    BY <2>1, NoElements DEF ViewInv, ToWatcher, Watching, Older
  <2> QED
    BY <1>2, <2>2 DEF ViewInv
<1> QED
  BY <1>3, <1>4, <1>5, <1>6

-----------------------------------------------------------------------------

\* The types, the draft's and the view's parts together, of every reachable state
\* (code-panel.tsx:60-110, ws-server/src/index.ts:126-160).
THEOREM InductiveInvariant == Spec => []Inductive
<1>1. Init => Inductive
  BY Initially
<1>2. Inductive /\ [Next]_vars => Inductive'
  <2> SUFFICES ASSUME Inductive, [Next]_vars PROVE Inductive'
    OBVIOUS
  <2> USE DEF Inductive
  <2>1. Types'
    BY EditorKeepsTypes, RelayKeepsTypes DEF Next, SavesStep
  <2>2. DraftInv'
    BY KeepsDraftInv
  <2>3. ViewInv'
    BY EditorKeepsViewInv, RelayKeepsViewInv, ShowKeepsViewInv, WatcherKeepsViewInv DEF Next, SavesStep
  <2> QED
    BY <2>1, <2>2, <2>3
<1> QED
  BY <1>1, <1>2, PTL DEF Spec

\* The types of the editor, of the requests and of what the relay carries.
THEOREM TypeCorrect == Spec => []TypeOK
<1>1. Inductive => TypeOK
  BY DEF Inductive, Types, EditorTypes, RelayTypes, Pages, Stores, TypeOK
<1> QED
  BY <1>1, InductiveInvariant, PTL

\* An editor that says "saved" and has nothing more to send shows what is stored,
\* unless two requests overlapped (code-panel.tsx:68-83).
THEOREM SavedMeansStored == Spec => []SavedIsStored
<1>1. Inductive => SavedIsStored
  BY DEF Inductive, DraftInv, SavedIsStored, Whole
<1> QED
  BY <1>1, InductiveInvariant, PTL

\* A watcher to whom everything has come sees the last code relayed, however often
\* the candidate and the watcher reload or reconnect (ws-server/src/index.ts:126-136).
THEOREM ViewsTheLatest == Spec => []ViewIsLatest
<1>1. Inductive => ViewIsLatest
  <2> SUFFICES ASSUME Inductive, watcher = "on", toView = <<>>, snapshot # Nothing
               PROVE  view # Nothing /\ (view.load = snapshot.load => view = snapshot)
    BY DEF ViewIsLatest
  <2>1. view.seq >= snapshot.seq /\ (view.load = snapshot.load => view = snapshot)
    BY NoElements DEF Inductive, ViewInv, Watching, Covered
  <2>2. snapshot.seq >= 1 /\ snapshot.seq \in Nat
    BY SyncIsSomething DEF Inductive, Types, RelayTypes
  <2>3. view # Nothing
    BY <2>1, <2>2 DEF Nothing
  <2> QED
    BY <2>1, <2>3
<1> QED
  BY <1>1, InductiveInvariant, PTL

-----------------------------------------------------------------------------
(* The conversation                                                        *)

Subjects == Triggers \cup {"chat"}
Errors == {"none", "busy", "again", "refused"}
Places == {"save", "find", "read", "ask", "store"}
Entries == [by : {"user", "model", "system", "follow-up"}, call : 1 .. MaxCalls, on : Subjects]
Frames == [at : Places, call : 1 .. MaxCalls, on : Subjects, attempt : 1 .. MaxAttempts,
           error : Errors, repeat : BOOLEAN]

ChatTypes ==
  /\ open \in BOOLEAN
  /\ log \in Seq(Entries)
  /\ request \in [Requests -> Frames \cup {Idle}]
  /\ calls \in 0 .. MaxCalls
  /\ shown \subseteq Triggers

\* The numbers of the requests have been given out.
Numbered ==
  /\ lost \subseteq 1 .. calls
  /\ \A r \in Requests : request[r] # Idle => request[r].call <= calls

\* What a call has returned is in the log.
ShownIsStored == \A t \in shown : Existing(t) # {}

\* A repeated call looks for a follow-up that has been returned.
Repeating == \A r \in Requests : request[r] # Idle =>
  /\ request[r].repeat => request[r].at = "find" /\ request[r].on \in shown
  /\ request[r].at = "find" => request[r].on \in Triggers

ChatInductive == ChatTypes /\ Numbered /\ ShownIsStored /\ Repeating

USE DEF At

LEMMA ChatNotFree == \A r : \A place \in Places : At(r, place) => request[r] # Idle
  BY DEF Places, Idle

LEMMA ChatInitially ==
  ChatInit => ChatInductive
  BY ConversationAssumption DEF ChatInit, ChatInductive, ChatTypes, Numbered, ShownIsStored,
         Repeating, Idle

\* An entry that is appended leaves what was found before where it was.
LEMMA LogGrows ==
  ASSUME NEW e \in Entries, log \in Seq(Entries), log' = Append(log, e)
  PROVE  /\ log' \in Seq(Entries)
         /\ \A t : Existing(t) \subseteq Existing(t)'
         /\ \A t : e.by = "follow-up" /\ e.on = t => Existing(t)' # {}
<1>1. log' \in Seq(Entries)
  OBVIOUS
<1>2. DOMAIN log = 1 .. Len(log) /\ DOMAIN log' = 1 .. (Len(log) + 1) /\ Len(log) \in Nat
  OBVIOUS
<1>3. \A i \in DOMAIN log : i \in DOMAIN log' /\ log'[i] = log[i]
  BY <1>2
<1>4. log'[Len(log) + 1] = e /\ Len(log) + 1 \in DOMAIN log'
  BY <1>2
<1>5. \A t : Existing(t) \subseteq Existing(t)'
  BY <1>3 DEF Existing
<1>6. ASSUME NEW t, e.by = "follow-up", e.on = t PROVE Existing(t)' # {}
  BY <1>4, <1>6 DEF Existing
<1> QED
  BY <1>1, <1>5, <1>6

\* A step that writes no entry and shows no more than the log holds.
LEMMA SameLog ==
  ASSUME ShownIsStored, UNCHANGED log, \A t \in shown' \ shown : Existing(t) # {}
  PROVE  ShownIsStored'
  BY DEF ShownIsStored, Existing

LEMMA ChatStutters == ChatInductive /\ UNCHANGED chatVars => ChatInductive'
  BY DEF ChatInductive, ChatTypes, Numbered, ShownIsStored, Repeating, Existing, chatVars

LEMMA ChatCloses == ChatInductive /\ Close => ChatInductive'
  BY DEF ChatInductive, ChatTypes, Numbered, ShownIsStored, Repeating, Existing, Close

LEMMA ChatBegins ==
  \A r \in Requests : ChatInductive /\ Begin(r) => ChatInductive'
<1> SUFFICES ASSUME NEW r \in Requests, ChatInductive, Begin(r)
             PROVE  ChatInductive'
  OBVIOUS
<1> USE DEF ChatInductive
<1>1. PICK t \in Subjects :
        /\ request[r] = Idle /\ open /\ calls < MaxCalls
        /\ calls' = calls + 1
        /\ request' = [request EXCEPT ![r] = New(IF t = "chat" THEN "save" ELSE "find", t)]
        /\ UNCHANGED <<open, log, lost, shown>>
  BY DEF Begin, Subjects
<1> DEFINE q == New(IF t = "chat" THEN "save" ELSE "find", t)
<1>2. q \in Frames /\ q.call = calls + 1 /\ q # Idle
  BY <1>1, ConversationAssumption DEF New, Frames, Places, Errors, Subjects, ChatTypes, Idle
<1>3. ChatTypes'
  BY <1>1, <1>2, ConversationAssumption DEF ChatTypes
<1>4. Numbered'
  BY <1>1, <1>2, ConversationAssumption DEF Numbered, ChatTypes, Frames
<1>5. ShownIsStored'
  BY <1>1, SameLog
<1>6. (q.repeat => q.at = "find" /\ q.on \in shown) /\ (q.at = "find" => q.on \in Triggers)
  BY <1>1, ConversationAssumption DEF New, ChatTypes, Subjects
<1>7. Repeating'
  BY <1>1, <1>6 DEF Repeating, ChatTypes
<1> QED
  BY <1>3, <1>4, <1>5, <1>7

\* A step of a handler that keeps what the request is about, or ends it.
LEMMA ChatGoes ==
  ASSUME ChatInductive, NEW r \in Requests, NEW q \in Frames \cup {Idle},
         request[r] # Idle,
         request' = [request EXCEPT ![r] = q],
         q # Idle => q.call = request[r].call /\ q.on = request[r].on /\ ~q.repeat /\ q.at # "find",
         shown \subseteq shown', shown' \subseteq Triggers,
         UNCHANGED <<open, calls>>,
         lost' \subseteq lost \cup {request[r].call}
  PROVE  /\ log' \in Seq(Entries) => ChatTypes'
         /\ Numbered'
         /\ Repeating'
<1> USE DEF ChatInductive
<1>1. log' \in Seq(Entries) => ChatTypes'
  BY DEF ChatTypes
<1>2. request[r] \in Frames /\ request[r].call \in 1 .. MaxCalls /\ request[r].call <= calls
  BY DEF ChatTypes, Numbered, Frames
<1>3. Numbered'
  BY <1>2, ConversationAssumption DEF Numbered, ChatTypes
<1>4. Repeating'
  BY DEF Repeating, ChatTypes
<1> QED
  BY <1>1, <1>3, <1>4

LEMMA ChatSteps ==
  \A r \in Requests : ChatInductive /\ (Step(r) \/ Die(r)) => ChatInductive'
<1> SUFFICES ASSUME NEW r \in Requests, ChatInductive, Step(r) \/ Die(r)
             PROVE  ChatInductive'
  OBVIOUS
<1> USE DEF ChatInductive
<1>1. request[r] # Idle
  BY DEF Step, SaveMessage, Find, Read, Ask, StoreReply, Die, Idle
<1>2. request[r] \in Frames
  BY <1>1 DEF ChatTypes
<1> DEFINE f == request[r]
<1>3. CASE SaveMessage(r)
  <2> DEFINE q == [f EXCEPT !.at = "read"]
             e == [by |-> "user", call |-> f.call, on |-> f.on]
  <2>1. q \in Frames /\ q # Idle /\ q.call = f.call /\ q.on = f.on /\ q.repeat = f.repeat /\ q.at # "find"
    BY <1>2 DEF Frames, Places, Idle
  <2>2. ~f.repeat
    BY <1>1, <1>3 DEF Repeating, SaveMessage
  <2>3. request' = [request EXCEPT ![r] = q] /\ UNCHANGED <<open, calls, lost, shown>>
    BY <1>3 DEF SaveMessage, ChatTypes
  <2>4. e \in Entries /\ log' = Append(log, e)
    BY <1>2, <1>3 DEF SaveMessage, Say, Entries, Frames
  <2>5. log' \in Seq(Entries) /\ \A t : Existing(t) \subseteq Existing(t)'
    BY <2>4, LogGrows DEF ChatTypes
  <2>6. ShownIsStored'
    BY <2>3, <2>5 DEF ShownIsStored
  <2>7. ChatTypes' /\ Numbered' /\ Repeating'
    BY <1>1, <2>1, <2>2, <2>3, <2>5, ChatGoes DEF ChatTypes
  <2> QED
    BY <2>6, <2>7
<1>4. CASE Find(r)
  <2>1. CASE Existing(f.on) # {}
    <3>1. /\ request' = [request EXCEPT ![r] = Idle] /\ shown' = shown \cup {f.on}
          /\ UNCHANGED <<open, log, calls, lost>>
      BY <1>4, <2>1 DEF Find
    <3>2. f.on \in Triggers
      BY <1>1, <1>4 DEF Find, Repeating
    <3>3. ShownIsStored'
      BY <2>1, <3>1, SameLog
    <3>4. ChatTypes' /\ Numbered' /\ Repeating'
      BY <1>1, <3>1, <3>2, ChatGoes DEF ChatTypes
    <3> QED
      BY <3>3, <3>4
  <2>2. CASE Existing(f.on) = {}
    <3> DEFINE q == [f EXCEPT !.at = "read"]
    <3>1. q \in Frames /\ q # Idle /\ q.call = f.call /\ q.on = f.on /\ q.repeat = f.repeat /\ q.at # "find"
      BY <1>2 DEF Frames, Places, Idle
    <3>2. ~f.repeat
      BY <1>1, <1>2, <2>2 DEF Repeating, ShownIsStored, Frames
    <3>3. request' = [request EXCEPT ![r] = q] /\ UNCHANGED <<open, log, calls, lost, shown>>
      BY <1>4, <2>2 DEF Find, ChatTypes
    <3>4. ShownIsStored'
      BY <3>3, SameLog
    <3>5. ChatTypes' /\ Numbered' /\ Repeating'
      BY <1>1, <3>1, <3>2, <3>3, ChatGoes DEF ChatTypes
    <3> QED
      BY <3>4, <3>5
  <2> QED
    BY <2>1, <2>2
<1>5. CASE Read(r)
  <2>1. PICK place \in {"ask", "store"} :
          /\ f.at = "read"
          /\ request' = [request EXCEPT ![r].at = place,
                           ![r].error = IF place = "store" THEN "refused" ELSE "none"]
          /\ UNCHANGED <<open, log, calls, lost, shown>>
    BY <1>5 DEF Read
  <2> DEFINE q == [f EXCEPT !.at = place, !.error = IF place = "store" THEN "refused" ELSE "none"]
  <2>2. q \in Frames /\ q # Idle /\ q.call = f.call /\ q.on = f.on /\ q.repeat = f.repeat /\ q.at # "find"
    BY <1>2 DEF Frames, Places, Errors, Idle
  <2>3. ~f.repeat
    BY <1>1, <2>1 DEF Repeating
  <2>4. request' = [request EXCEPT ![r] = q]
    BY <1>2, <2>1 DEF ChatTypes, Frames
  <2> HIDE DEF q
  <2>5. ShownIsStored'
    BY <2>1, SameLog
  <2>6. ChatTypes' /\ Numbered' /\ Repeating'
    BY <1>1, <2>1, <2>2, <2>3, <2>4, ChatGoes DEF ChatTypes
  <2> QED
    BY <2>5, <2>6
<1>6. CASE Ask(r)
  <2>1. PICK error \in Errors :
          /\ f.at = "ask"
          /\ request' = [request EXCEPT ![r] = Asked(f, error)]
          /\ UNCHANGED <<open, log, calls, lost, shown>>
    BY <1>6 DEF Ask, Errors, ChatTypes
  <2> DEFINE q == Asked(f, error)
  <2>2. q \in Frames /\ q # Idle /\ q.call = f.call /\ q.on = f.on /\ q.repeat = f.repeat /\ q.at # "find"
    <3>1. CASE error \in {"none", "refused"} \/ f.attempt = MaxAttempts
      <4>1. q = [f EXCEPT !.at = "store", !.error = error]
        BY <3>1 DEF Asked
      <4> QED
        BY <1>2, <4>1 DEF Frames, Places, Errors, Idle
    <3>2. CASE ~(error \in {"none", "refused"} \/ f.attempt = MaxAttempts)
      <4>1. q = [f EXCEPT !.attempt = @ + 1, !.error = error]
        BY <3>2 DEF Asked
      <4>2. f.attempt + 1 \in 1 .. MaxAttempts
        BY <1>2, <3>2, ConversationAssumption DEF Frames
      <4> QED
        BY <1>2, <2>1, <4>1, <4>2 DEF Frames, Places, Errors, Idle
    <3> QED
      BY <3>1, <3>2
  <2>3. ~f.repeat
    BY <1>1, <2>1 DEF Repeating
  <2>4. request' = [request EXCEPT ![r] = q]
    BY <2>1
  <2> HIDE DEF q
  <2>5. ShownIsStored'
    BY <2>1, SameLog
  <2>6. ChatTypes' /\ Numbered' /\ Repeating'
    BY <1>1, <2>1, <2>2, <2>3, <2>4, ChatGoes DEF ChatTypes
  <2> QED
    BY <2>5, <2>6
<1>7. CASE StoreReply(r)
  <2> DEFINE by == IF f.on # "chat" THEN "follow-up"
                   ELSE IF f.error = "none" THEN "model" ELSE "system"
             e == [by |-> by, call |-> f.call, on |-> f.on]
  <2>1. e \in Entries /\ log' = Append(log, e)
    BY <1>2, <1>7 DEF StoreReply, Say, Entries, Frames
  <2>2. e.on = f.on /\ (f.on # "chat" => e.by = "follow-up")
    OBVIOUS
  <2> HIDE DEF e
  <2>3. /\ request' = [request EXCEPT ![r] = Idle] /\ UNCHANGED <<open, calls, lost>>
        /\ shown' = shown \cup ({f.on} \cap Triggers)
    BY <1>7 DEF StoreReply
  <2>4. /\ log' \in Seq(Entries)
        /\ \A t : Existing(t) \subseteq Existing(t)'
        /\ \A t : e.by = "follow-up" /\ e.on = t => Existing(t)' # {}
    BY <2>1, LogGrows DEF ChatTypes
  <2>5. \A t \in {f.on} \cap Triggers : Existing(t)' # {}
    BY <2>2, <2>4, ConversationAssumption
  <2>6. ShownIsStored'
    BY <2>3, <2>4, <2>5 DEF ShownIsStored
  <2>7. ChatTypes' /\ Numbered' /\ Repeating'
    BY <1>1, <2>3, <2>4, ChatGoes DEF ChatTypes
  <2> QED
    BY <2>6, <2>7
<1>8. CASE Die(r)
  <2>1. ShownIsStored'
    BY <1>8, SameLog DEF Die
  <2>2. ChatTypes' /\ Numbered' /\ Repeating'
    BY <1>1, <1>8, ChatGoes DEF Die, ChatTypes
  <2> QED
    BY <2>1, <2>2
<1> QED
  BY <1>3, <1>4, <1>5, <1>6, <1>7, <1>8 DEF Step

\* The conjunction the other theorems rest on, of the events of a question and
\* of the calls that read and write them (chat.ts:75-200).
THEOREM ChatInductiveInvariant == ChatSpec => []ChatInductive
<1>1. ChatInit => ChatInductive
  BY ChatInitially
<1>2. ChatInductive /\ [ChatNext]_chatVars => ChatInductive'
  BY ChatStutters, ChatCloses, ChatBegins, ChatSteps DEF ChatNext
<1> QED
  BY <1>1, <1>2, PTL DEF ChatSpec

\* The types of the requests and of the question's events.
THEOREM ChatTypeCorrect == ChatSpec => []ChatTypeOK
<1>1. ChatInductive => ChatTypeOK
  <2> SUFFICES ASSUME ChatInductive PROVE ChatTypeOK
    OBVIOUS
  <2>1. \A i \in DOMAIN log :
          log[i].by \in {"user", "model", "system", "follow-up"} /\ log[i].call \in 1 .. MaxCalls
    <3> SUFFICES ASSUME NEW i \in DOMAIN log PROVE log[i] \in Entries
      BY DEF Entries
    <3> QED
      BY DEF ChatInductive, ChatTypes
  <2>2. \A r \in Requests : request[r] = Idle \/ request[r] \in Frames
    BY DEF ChatInductive, ChatTypes
  <2> QED
    BY <2>1, <2>2 DEF ChatInductive, ChatTypes, Numbered, ChatTypeOK, Frames, Places, Errors
<1> QED
  BY <1>1, ChatInductiveInvariant, PTL

\* A call made after a follow-up was returned for its trigger finds it, and asks
\* for no other, however many calls run at once (chat.ts:145, 169).
THEOREM RepeatsAskNothing == ChatSpec => []RepeatAsksNothing
<1>1. ChatInductive => RepeatAsksNothing
  BY DEF ChatInductive, Repeating, RepeatAsksNothing
<1> QED
  BY <1>1, ChatInductiveInvariant, PTL
=============================================================================
