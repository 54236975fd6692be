----------------------------- MODULE TasksProofs -----------------------------
(***************************************************************************)
(* Proofs about the two task stores.                                       *)
(*                                                                         *)
(* DraftTasks, for any tasks, capacity and number of inputs: the types and *)
(* the capacity, the agreement of store and calls on the inputs, no work   *)
(* left behind, the end of a task announced, and the life cycle.           *)
(*                                                                         *)
(* LegacyTasks, for any number of tasks, sessions and requests: the types  *)
(* and the capacity, the agreement of the answers to tasks/result, no work *)
(* left behind, what the pages of tasks/list show, and the life cycle.     *)
(*                                                                         *)
(* A server with one store or the other (MCTasks) has them both.           *)
(***************************************************************************)
EXTENDS MCTasks, FiniteSetTheorems, TLAPS

-----------------------------------------------------------------------------
(* The draft store.                                                         *)

TaskRecord == [status : Statuses, open : SUBSET Keys]

\* What is true of each task.
Courses(t) ==
    /\ task[t].status = "none" <=> call[t] = "none"
    /\ task[t].status \in {"none", "gone"} => task[t].open = {}
    /\ awaiting[t] # {} => call[t] = "running"
    /\ t \in token => ~Live(t) /\ task[t].status # "none"
    /\ Live(t) => call[t] = "running"

\* Keys are handed out one by one, and an answered one is not asked for again.
KeysOf(t) ==
    /\ task[t].open \subseteq 1..asked[t]
    /\ awaiting[t] \subseteq 1..asked[t]
    /\ answered[t] \subseteq 1..asked[t]
    /\ answered[t] \cap task[t].open = {}

\* The properties of the module, of one task.
AccurateOf(t) == Live(t) => (task[t].status = "input_required" <=> task[t].open # {})
AwaitedOf(t) == /\ Live(t) => task[t].open \subseteq awaiting[t] \cup abandoned[t]
                /\ awaiting[t] \cap task[t].open # {} => Live(t)
WorkOf(t) == call[t] = "running" => Live(t) \/ t \in token

Sound(t) == Courses(t) /\ KeysOf(t) /\ AccurateOf(t) /\ AwaitedOf(t) /\ WorkOf(t)

\* An end that a push has read, or has told, is the end of the task; the call's own
\* push begins when the call is over.
PushesOfCourse(t) ==
    /\ \A by, s : <<t, by, s>> \in pushes =>
         /\ s \in Terminal => task[t].status \in {s, "gone"}
         /\ by = ByCall => call[t] = "ended" /\ s # "live"
    /\ \A s \in told[t] : task[t].status \in {s, "gone"}
PushedOf(t) == task[t].status \in Terminal =>
                   \/ told[t] # {}
                   \/ call[t] = "running"
                   \/ \E s \in Terminal \cup {"unread"} : <<t, ByCall, s>> \in pushes
Announced(t) == PushesOfCourse(t) /\ PushedOf(t)

StoreInv == TypeOK /\ \A t \in Tasks : Sound(t) /\ Announced(t)

-----------------------------------------------------------------------------
\* Purging leaves records.
LEMMA PurgedType ==
  ASSUME TypeOK
  PROVE  /\ Purged \in [Tasks -> TaskRecord]
         /\ \A t \in Tasks : Kept(t) \/ t \notin due => Purged[t] = task[t]
         /\ \A t \in Tasks : Stored(t) /\ t \in due =>
              Purged[t].status = "gone" /\ Purged[t].open = {}
  BY DEF TypeOK, Purged, TaskRecord, Statuses, Kept

\* What a step leaves alone of a task, but for its entry and its token.
Idle(t) ==
    /\ call'[t] = call[t] /\ asked'[t] = asked[t] /\ awaiting'[t] = awaiting[t]
    /\ abandoned'[t] = abandoned[t] /\ answered'[t] = answered[t]
Same(t) ==
    /\ Idle(t) /\ told'[t] = told[t]
    /\ \A by, s : <<t, by, s>> \in pushes' <=> <<t, by, s>> \in pushes

\* A task is not touched, or at most purged.
Untouched(t) ==
    \/ task'[t] = task[t] /\ (t \in token' <=> t \in token)
    \/ task'[t] = Purged[t] /\ (t \in token' <=> t \in Fires)

\* A purge keeps what is true of a task.
LEMMA PurgeKeepsSound ==
  ASSUME TypeOK, NEW t \in Tasks, Sound(t), Idle(t), Untouched(t)
  PROVE  Sound(t)'
  <1>. USE DEF Live, Active, Terminal
  <1>1. CASE task'[t] = task[t] /\ (t \in token' <=> t \in token)
    BY <1>1 DEF Sound, Courses, KeysOf, AccurateOf, AwaitedOf, WorkOf, Idle
  <1>2. CASE task'[t] = Purged[t] /\ (t \in token' <=> t \in Fires) /\ Stored(t) /\ t \in due
    <2>1. task'[t].status = "gone" /\ task'[t].open = {}
      BY <1>2, PurgedType
    <2>2. (t \in token' <=> t \in token \/ Live(t)) /\ task[t].status # "none"
      BY <1>2 DEF Fires, Stored
    <2>3. Courses(t)' /\ KeysOf(t)'
      BY <2>1, <2>2 DEF Sound, Courses, KeysOf, Idle
    <2>4. AccurateOf(t)' /\ AwaitedOf(t)' /\ WorkOf(t)'
      BY <2>1, <2>2 DEF Sound, AccurateOf, AwaitedOf, WorkOf, Idle
    <2>. QED
      BY <2>3, <2>4 DEF Sound
  <1>3. CASE task'[t] = Purged[t] /\ (t \in token' <=> t \in Fires) /\ ~(Stored(t) /\ t \in due)
    <2>1. task'[t] = task[t]
      BY <1>3 DEF Purged
    <2>2. t \in token' <=> t \in token
      BY <1>3 DEF Fires, Stored
    <2>. QED
      BY <1>1, <2>1, <2>2
  <1>. QED
    BY <1>1, <1>2, <1>3 DEF Untouched

\* And what was announced of it.
LEMMA PurgeKeeps ==
  ASSUME TypeOK, NEW t \in Tasks, Sound(t), Announced(t), Same(t), Untouched(t)
  PROVE  Sound(t)' /\ Announced(t)'
  <1>1. task'[t].status = task[t].status
        \/ (task'[t].status = "gone" /\ task[t].status \notin {"none", "gone"})
    BY PurgedType DEF Untouched, Purged, Stored
  <1>2. Announced(t)'
    BY <1>1 DEF Announced, PushesOfCourse, PushedOf, Same, Idle, Terminal
  <1>. QED
    BY <1>2, PurgeKeepsSound DEF Same

\* The steps about one task purge the others at most.
StepOf(t) ==
    \/ Create(t) \/ Complete(t) \/ Obtain(t) \/ Cancel(t) \/ BecomeDue(t)
    \/ \E k \in Keys : Obtained(t, k) \/ Abandon(t, k)
    \/ \E ks \in SUBSET Keys : Update(t, ks)
    \/ \E by \in Pushers : ReadForPush(t, by) \/ \E s \in Readings : SendPush(t, by, s)
    \/ \E s \in Readings : DropPush(t, s)

\* A step of one task leaves the others as they are, or purges them.
LEMMA OthersUntouched ==
  ASSUME TypeOK, NEW t \in Tasks, StepOf(t), NEW u \in Tasks \ {t}
  PROVE  Same(u) /\ Untouched(u)
  <1>. USE PurgedType DEF Same, Idle, Untouched, TypeOK, callVars, AskPush
  <1>1. CASE Create(t)
    BY <1>1 DEF Create
  <1>2. CASE Complete(t)
    BY <1>2 DEF Complete
  <1>3. CASE Obtain(t)
    BY <1>3 DEF Obtain
  <1>4. CASE Cancel(t)
    BY <1>4 DEF Cancel
  <1>5. CASE BecomeDue(t)
    BY <1>5 DEF BecomeDue
  <1>6. ASSUME NEW k \in Keys, Obtained(t, k) \/ Abandon(t, k)
        PROVE  Same(u) /\ Untouched(u)
    BY <1>6 DEF Obtained, Abandon, PushesOf
  <1>7. ASSUME NEW ks \in SUBSET Keys, Update(t, ks)
        PROVE  Same(u) /\ Untouched(u)
    BY <1>7 DEF Update
  <1>8. ASSUME NEW by \in Pushers, ReadForPush(t, by)
        PROVE  Same(u) /\ Untouched(u)
    BY <1>8 DEF ReadForPush
  <1>9. ASSUME NEW by \in Pushers, NEW s \in Readings, SendPush(t, by, s)
        PROVE  Same(u) /\ Untouched(u)
    BY <1>9 DEF SendPush
  <1>10. ASSUME NEW s \in Readings, DropPush(t, s)
         PROVE  Same(u) /\ Untouched(u)
    BY <1>10 DEF DropPush
  <1>. HIDE DEF Same, Idle, Untouched, TypeOK, callVars, AskPush
  <1>. QED
    BY <1>1, <1>2, <1>3, <1>4, <1>5, <1>6, <1>7, <1>8, <1>9, <1>10 DEF StepOf

\* Each step about a task keeps what is true of that task.
LEMMA OwnSteps ==
  ASSUME TypeOK, NEW t \in Tasks, Sound(t), StepOf(t)
  PROVE  Sound(t)'
  <1>. USE PurgedType DEF TypeOK, callVars, AskPush, Active, Terminal, Keys
  <1>1. CASE Create(t)
    <2>1. task[t].status = "none" /\ task[t].open = {} /\ Purged[t] = task[t] /\ t \notin token
      BY <1>1 DEF Create, Sound, Courses, Purged, Stored
    <2>2. t \notin token'
      BY <1>1, <2>1 DEF Create, Fires, Live
    <2>3. \/ task'[t] = task[t] /\ call' = call
          \/ task'[t].status = "working" /\ task'[t].open = {} /\ call'[t] = "running"
      BY <1>1, <2>1 DEF Create, TaskRecord
    <2>4. /\ asked' = asked /\ awaiting' = awaiting /\ abandoned' = abandoned
          /\ answered' = answered /\ told' = told
      BY <1>1 DEF Create
    <2>. QED
      BY <2>1, <2>2, <2>3, <2>4 DEF Sound, Courses, KeysOf, AccurateOf, AwaitedOf, WorkOf,
         Live
  <1>2. CASE Complete(t)
    <2>1. /\ call[t] = "running" /\ call'[t] = "ended" /\ awaiting[t] = {}
          /\ token' = token /\ asked' = asked /\ awaiting' = awaiting
          /\ abandoned' = abandoned /\ answered' = answered /\ told' = told
      BY <1>2 DEF Complete
    <2>2. \/ Live(t) /\ task'[t].status \in {"completed", "failed"} /\ task'[t].open = task[t].open
          \/ ~Live(t) /\ task'[t] = task[t]
      BY <1>2 DEF Complete
    <2>3. Courses(t)' /\ KeysOf(t)'
      BY <2>1, <2>2 DEF Sound, Courses, KeysOf, Live
    <2>. QED
      BY <2>1, <2>2, <2>3 DEF Sound, Courses, AccurateOf, AwaitedOf, WorkOf, Live
  <1>3. CASE Obtain(t)
    <2>. DEFINE k == asked[t] + 1
    <2>1. /\ call[t] = "running" /\ k \in Keys /\ asked'[t] = k /\ token' = Fires
          /\ call' = call /\ abandoned' = abandoned /\ answered' = answered /\ told' = told
      BY <1>3, TasksAssumption DEF Obtain, TasksAssumption
    <2>2. CASE ~(Live(t) /\ Kept(t))
      <3>2. task'[t] = Purged[t]
        BY <1>3, <2>2 DEF Obtain
      <3>3. awaiting' = awaiting
        BY <1>3, <2>2 DEF Obtain
      <3>4. CASE Stored(t) /\ t \in due
        <4>1. task'[t].status = "gone" /\ task'[t].open = {} /\ task[t].status # "none"
          BY <3>2, <3>4 DEF Stored
        <4>2. t \in token' <=> t \in token \/ Live(t)
          BY <2>1, <3>4 DEF Fires
        <4>. QED
          BY <2>1, <3>3, <4>1, <4>2 DEF Sound, Courses, KeysOf, AccurateOf, AwaitedOf, WorkOf,
             Live
      <3>5. CASE ~(Stored(t) /\ t \in due)
        <4>1. task'[t] = task[t] /\ ~Live(t)
          BY <2>2, <3>2, <3>5 DEF Purged, Kept, Stored, Live
        <4>2. t \in token' <=> t \in token
          BY <2>1, <4>1 DEF Fires
        <4>. QED
          BY <2>1, <3>3, <4>1, <4>2 DEF Sound, Courses, KeysOf, AccurateOf, AwaitedOf, WorkOf,
             Live
      <3>. QED
        BY <3>4, <3>5
    <2>3. CASE Live(t) /\ Kept(t)
      <3>1. /\ task'[t].status = "input_required"
            /\ task'[t].open = task[t].open \cup {k}
        BY <1>3, <2>1, <2>3 DEF Obtain
      <3>2. awaiting'[t] = awaiting[t] \cup {k}
        BY <1>3, <2>1, <2>3 DEF Obtain
      <3>3. t \notin token'
        BY <2>1, <2>3 DEF Fires, Kept, Sound, Courses
      <3>4. Courses(t)' /\ WorkOf(t)'
        BY <2>1, <2>3, <3>1, <3>2, <3>3 DEF Sound, Courses, Live, WorkOf
      <3>5. KeysOf(t)'
        BY <2>1, <3>1, <3>2 DEF Sound, KeysOf
      <3>6. AccurateOf(t)' /\ AwaitedOf(t)'
        BY <2>1, <2>3, <3>1, <3>2 DEF Sound, AccurateOf, AwaitedOf, Live
      <3>. QED
        BY <3>4, <3>5, <3>6 DEF Sound
    <2>. QED
      BY <2>2, <2>3
  <1>4. CASE Cancel(t)
    <2>1. /\ call' = call /\ asked' = asked /\ awaiting' = awaiting /\ abandoned' = abandoned
          /\ answered' = answered /\ told' = told
      BY <1>4 DEF Cancel
    <2>2. CASE ~(Live(t) /\ Kept(t))
      <3>1. task'[t] = Purged[t] /\ token' = Fires
        BY <1>4, <2>2 DEF Cancel
      <3>3. CASE Stored(t) /\ t \in due
        <4>1. task'[t].status = "gone" /\ task'[t].open = {} /\ task[t].status # "none"
          BY <3>1, <3>3 DEF Stored
        <4>2. t \in token' <=> t \in token \/ Live(t)
          BY <3>1, <3>3 DEF Fires
        <4>. QED
          BY <2>1, <4>1, <4>2 DEF Sound, Courses, KeysOf, AccurateOf, AwaitedOf, WorkOf,
             Live
      <3>4. CASE ~(Stored(t) /\ t \in due)
        <4>1. task'[t] = task[t] /\ ~Live(t)
          BY <2>2, <3>1, <3>4 DEF Purged, Kept, Stored, Live
        <4>2. t \in token' <=> t \in token
          BY <3>1, <4>1 DEF Fires
        <4>. QED
          BY <2>1, <4>1, <4>2 DEF Sound, Courses, KeysOf, AccurateOf, AwaitedOf, WorkOf,
             Live
      <3>. QED
        BY <3>3, <3>4
    <2>3. CASE Live(t) /\ Kept(t)
      <3>1. task'[t].status = "cancelled" /\ task'[t].open = {} /\ t \in token'
        BY <1>4, <2>3 DEF Cancel
      <3>. QED
        BY <2>1, <2>3, <3>1 DEF Sound, Courses, KeysOf, AccurateOf, AwaitedOf, WorkOf,
           Live
    <2>. QED
      BY <2>2, <2>3
  <1>5. CASE BecomeDue(t)
    BY <1>5 DEF BecomeDue, Sound, Courses, KeysOf, AccurateOf, AwaitedOf, WorkOf, Live
  <1>6. ASSUME NEW k \in Keys, Obtained(t, k)
        PROVE  Sound(t)'
    <2>1. /\ UNCHANGED <<task, token, call, asked, abandoned, answered, pushes, told>>
          /\ k \in awaiting[t] /\ awaiting'[t] = awaiting[t] \ {k}
          /\ k \in answered[t] \/ k \notin task[t].open \/ t \in token
      BY <1>6 DEF Obtained
    <2>2. Live(t) => k \notin task[t].open
      BY <2>1 DEF Sound, Courses, KeysOf
    <2>3. Courses(t)' /\ KeysOf(t)'
      BY <2>1 DEF Sound, Courses, KeysOf, Live
    <2>. QED
      BY <2>1, <2>2, <2>3 DEF Sound, AccurateOf, AwaitedOf, WorkOf, Live
  <1>7. ASSUME NEW k \in Keys, Abandon(t, k)
        PROVE  Sound(t)'
    <2>1. /\ UNCHANGED <<task, token, call, asked, answered, told>>
          /\ k \in awaiting[t] /\ awaiting'[t] = awaiting[t] \ {k}
          /\ abandoned'[t] = abandoned[t] \cup {k}
      BY <1>7 DEF Abandon
    <2>2. Courses(t)' /\ KeysOf(t)'
      BY <2>1 DEF Sound, Courses, KeysOf, Live
    <2>. QED
      BY <2>1, <2>2 DEF Sound, AccurateOf, AwaitedOf, WorkOf, Live
  <1>8. ASSUME NEW ks \in SUBSET Keys, Update(t, ks)
        PROVE  Sound(t)'
    <2>1. CASE ~Kept(t)
      <3>1. Idle(t) /\ Untouched(t)
        BY <1>8, <2>1 DEF Update, Idle, Untouched
      <3>. QED
        BY <3>1, PurgeKeepsSound
    <2>2. CASE Kept(t)
      <3>1. /\ call' = call /\ asked' = asked /\ awaiting' = awaiting
            /\ abandoned' = abandoned /\ told' = told
        BY <1>8, <2>2 DEF Update
      <3>2. t \in token' <=> t \in token
        BY <1>8, <2>2 DEF Update, Fires, Kept
      <3>3. /\ task'[t].open = task[t].open \ ks
            /\ answered'[t] = answered[t] \cup (ks \cap task[t].open)
            /\ task'[t].status = IF task[t].status = "input_required" /\ task[t].open \ ks = {}
                                 THEN "working" ELSE task[t].status
        BY <1>8, <2>2 DEF Update
      <3>4. Courses(t)' /\ WorkOf(t)'
        BY <3>1, <3>2, <3>3 DEF Sound, Courses, WorkOf, Live
      <3>5. KeysOf(t)' /\ AccurateOf(t)' /\ AwaitedOf(t)'
        BY <3>1, <3>3 DEF Sound, KeysOf, AccurateOf, AwaitedOf, Live
      <3>. QED
        BY <3>4, <3>5 DEF Sound
    <2>. QED
      BY <2>1, <2>2
  <1>9. ASSUME NEW by \in Pushers, ReadForPush(t, by)
        PROVE  Sound(t)'
    <2>1. /\ call' = call /\ asked' = asked /\ awaiting' = awaiting /\ abandoned' = abandoned
          /\ answered' = answered /\ told' = told /\ task' = Purged /\ token' = Fires
      BY <1>9 DEF ReadForPush
    <2>2. Idle(t) /\ Untouched(t)
      BY <2>1 DEF Idle, Untouched
    <2>. QED
      BY <2>2, PurgeKeepsSound
  <1>10. ASSUME \/ \E by \in Pushers, s \in Readings : SendPush(t, by, s)
                \/ \E s \in Readings : DropPush(t, s)
         PROVE  Sound(t)'
    <2>1. UNCHANGED <<task, token, call, asked, awaiting, abandoned, answered>>
      BY <1>10 DEF SendPush, DropPush
    <2>. QED
      BY <2>1 DEF Sound, Courses, KeysOf, AccurateOf, AwaitedOf, WorkOf, Live
  <1>. HIDE DEF TypeOK, callVars, AskPush, Active, Terminal, Keys
  <1>. QED
    BY <1>1, <1>2, <1>3, <1>4, <1>5, <1>6, <1>7, <1>8, <1>9, <1>10 DEF StepOf

\* The keys, the call and the requests are told apart.
LEMMA PushersDiffer ==
  /\ ByRequest \in Pushers /\ ByRequest # ByCall
  /\ \A k \in Keys : k \in Pushers /\ k # ByCall /\ k # ByRequest
  BY TasksAssumption DEF TasksAssumption, Pushers, ByRequest, ByCall, Keys

\* Pushes but the call's come unread and go, while an end stays what it is.
LEMMA PushesAside ==
  ASSUME NEW t \in Tasks, Announced(t), told' = told, call' = call,
         \A by, s : <<t, by, s>> \in pushes' =>
             <<t, by, s>> \in pushes \/ (by # ByCall /\ s = "unread"),
         \A s : <<t, ByCall, s>> \in pushes => <<t, ByCall, s>> \in pushes',
         task[t].status \in Terminal => task'[t].status \in {task[t].status, "gone"},
         task[t].status = "gone" => task'[t].status = "gone",
         task'[t].status \in Terminal => task[t].status \in Terminal \/ call[t] = "running",
         told[t] \subseteq Terminal
  PROVE  Announced(t)'
  BY DEF Announced, PushesOfCourse, PushedOf, Terminal

\* Each step about a task keeps what is true of its announcements.
LEMMA OwnPushes ==
  ASSUME TypeOK, NEW t \in Tasks, Sound(t), Announced(t), StepOf(t)
  PROVE  Announced(t)'
  <1>. USE PurgedType, PushersDiffer
  <1>1. told[t] \subseteq Terminal /\ task[t].status \in Statuses
    BY DEF TypeOK
  <1>2. /\ Live(t) => call[t] = "running"
        /\ task[t].status = "none" <=> call[t] = "none"
    BY DEF Sound, Courses
  <1>3. task' = Purged \/ task' = task =>
          task'[t].status = task[t].status
          \/ (task'[t].status = "gone" /\ task[t].status \notin {"none", "gone"})
    BY DEF Purged, Stored
  <1>4. CASE Create(t)
    <2>1. /\ call[t] = "none" /\ task[t].status = "none" /\ pushes' = pushes /\ told' = told
          /\ task'[t].status \in {"none", "working"}
      BY <1>2, <1>4 DEF Create, TypeOK, Purged, Stored, TaskRecord
    <2>. QED
      BY <1>1, <2>1 DEF Announced, PushesOfCourse, PushedOf, Terminal
  <1>5. CASE Complete(t)
    <2>1. /\ call'[t] = "ended" /\ told' = told
          /\ pushes' = pushes \cup {<<t, ByCall, "unread">>}
          /\ \/ task'[t].status = task[t].status
             \/ Live(t) /\ task'[t].status \in {"completed", "failed"}
      BY <1>5 DEF Complete, TypeOK, AskPush
    <2>. QED
      BY <1>1, <2>1 DEF Announced, PushesOfCourse, PushedOf, Terminal, Live, Active
  <1>6. CASE Obtain(t)
    <2>1. asked'[t] \in Keys
      BY <1>6, TasksAssumption DEF Obtain, TasksAssumption, Keys, TypeOK
    <2>2. /\ call' = call /\ told' = told
          /\ pushes' = pushes \/ pushes' = pushes \cup {<<t, asked'[t], "unread">>}
      BY <1>6 DEF Obtain, AskPush
    <2>3. task' = Purged \/ (Live(t) /\ task'[t].status = "input_required")
      BY <1>6 DEF Obtain
    <2>. QED
      BY <1>1, <1>3, <2>1, <2>2, <2>3, PushesAside DEF Live, Active, Terminal
  <1>7. CASE Cancel(t)
    <2>1. /\ call' = call /\ told' = told
          /\ pushes' = pushes \/ pushes' = pushes \cup {<<t, ByRequest, "unread">>}
      BY <1>7 DEF Cancel, AskPush, callVars
    <2>2. task' = Purged \/ (Live(t) /\ task'[t].status = "cancelled")
      BY <1>7 DEF Cancel
    <2>. QED
      BY <1>1, <1>2, <1>3, <2>1, <2>2, PushesAside DEF Live, Active, Terminal
  <1>8. ASSUME NEW ks \in SUBSET Keys, Update(t, ks)
        PROVE  Announced(t)'
    <2>1. /\ call' = call /\ told' = told
          /\ pushes' = pushes \/ pushes' = pushes \cup {<<t, ByRequest, "unread">>}
      BY <1>8 DEF Update, AskPush, callVars
    <2>2. \/ task' = Purged
          \/ /\ Kept(t)
             /\ \/ task'[t].status = task[t].status
                \/ (task[t].status = "input_required" /\ task'[t].status = "working")
      BY <1>8 DEF Update
    <2>. QED
      BY <1>1, <1>3, <2>1, <2>2, PushesAside DEF Terminal
  <1>9. CASE BecomeDue(t) \/ \E k \in Keys : Obtained(t, k)
    BY <1>1, <1>3, <1>9, PushesAside DEF BecomeDue, Obtained, callVars
  <1>10. ASSUME NEW k \in Keys, Abandon(t, k)
         PROVE  Announced(t)'
    <2>1. /\ task' = task /\ call' = call /\ told' = told
          /\ \A by, s : <<t, by, s>> \in pushes' <=> <<t, by, s>> \in pushes /\ by # k
      BY <1>10 DEF Abandon, PushesOf
    <2>. QED
      BY <1>1, <1>3, <2>1, PushesAside
  <1>11. ASSUME NEW s \in Readings, DropPush(t, s)
         PROVE  Announced(t)'
    <2>1. /\ task' = task /\ call' = call /\ told' = told
          /\ pushes' = pushes \ {<<t, ByRequest, s>>}
      BY <1>11 DEF DropPush, callVars
    <2>. QED
      BY <1>1, <1>3, <2>1, PushesAside
  <1>12. ASSUME NEW by \in Pushers, ReadForPush(t, by)
         PROVE  Announced(t)'
    <2>1. /\ task' = Purged /\ call' = call /\ told' = told /\ <<t, by, "unread">> \in pushes
          /\ pushes' = (pushes \ {<<t, by, "unread">>})
                       \cup (IF Kept(t) THEN {<<t, by, Reading(t)>>} ELSE {})
      BY <1>12 DEF ReadForPush, callVars
    <2>2. CASE Kept(t)
      <3>1. task'[t] = task[t]
        BY <2>1, <2>2
      <3>2. by = ByCall => ~Live(t)
        BY <1>2, <2>1 DEF Announced, PushesOfCourse
      <3>3. \/ Live(t) /\ Reading(t) = "live"
            \/ ~Live(t) /\ Reading(t) = task[t].status /\ task[t].status \in Terminal
        BY <1>1, <2>2 DEF Reading, Kept, Stored, Live, Statuses
      <3>. QED
        BY <1>1, <2>1, <2>2, <3>1, <3>2, <3>3
           DEF Announced, PushesOfCourse, PushedOf, Terminal, Live, Active
    <2>3. CASE ~Kept(t)
      <3>1. task'[t].status \notin Terminal
        BY <1>1, <2>1, <2>3 DEF Kept, Purged, Stored, Terminal
      <3>2. pushes' \subseteq pushes
        BY <2>1, <2>3
      <3>. QED
        BY <1>3, <2>1, <3>1, <3>2 DEF Announced, PushesOfCourse, PushedOf, Terminal
    <2>. QED
      BY <2>2, <2>3
  <1>13. ASSUME NEW by \in Pushers, NEW s \in Readings, SendPush(t, by, s)
         PROVE  Announced(t)'
    <2>1. /\ <<t, by, s>> \in pushes /\ s # "unread"
          /\ pushes' = pushes \ {<<t, by, s>>} /\ task' = task /\ call' = call
          /\ told'[t] = told[t] \cup ({s} \ {"live"})
      BY <1>13 DEF SendPush, callVars, TypeOK
    <2>2. s = "live" \/ s \in Terminal
      BY <2>1 DEF Readings
    <2>. QED
      BY <1>1, <2>1, <2>2 DEF Announced, PushesOfCourse, PushedOf, Terminal
  <1>. QED
    BY <1>4, <1>5, <1>6, <1>7, <1>8, <1>9, <1>10, <1>11, <1>12, <1>13 DEF StepOf
\* Tasks are only added below the capacity.
LEMMA CapacitySteps ==
  ASSUME StoreInv, [Next]_vars
  PROVE  Cardinality({t \in Tasks : Stored(t)'}) <= Capacity
  <1>. DEFINE Now == {t \in Tasks : Stored(t)}
              Then == {t \in Tasks : Stored(t)'}
              Stay == {t \in Tasks : Kept(t)}
  <1>1. IsFiniteSet(Now) /\ IsFiniteSet(Then) /\ IsFiniteSet(Stay) /\ Cardinality(Now) <= Capacity
        /\ Capacity \in Nat
    BY TasksAssumption, FS_Subset DEF TasksAssumption, StoreInv, TypeOK
  <1>2. CASE Then \subseteq Now
    <2>1. Cardinality(Then) <= Cardinality(Now) /\ Cardinality(Then) \in Nat /\ Cardinality(Now) \in Nat
      BY <1>1, <1>2, FS_Subset, FS_CardinalityType
    <2>. QED
      BY <1>1, <2>1
  <1>3. ASSUME NEW t \in Tasks, Create(t), Cardinality(Stay) < Capacity
        PROVE  Cardinality(Then) <= Capacity
    <2>1. Then \subseteq Stay \cup {t}
      BY <1>3, PurgedType DEF Create, Kept, Stored, StoreInv, TypeOK, Purged
    <2>2. IsFiniteSet(Stay \cup {t}) /\ Cardinality(Stay \cup {t}) <= Cardinality(Stay) + 1
          /\ Cardinality(Stay) \in Nat /\ Cardinality(Stay \cup {t}) \in Nat
      <3>. HIDE DEF Stay
      <3>1. Cardinality(Stay) \in Nat
        BY <1>1, FS_CardinalityType
      <3>2. /\ IsFiniteSet(Stay \cup {t})
            /\ Cardinality(Stay \cup {t}) = Cardinality(Stay)
               \/ Cardinality(Stay \cup {t}) = Cardinality(Stay) + 1
        BY <1>1, FS_AddElement
      <3>. QED
        BY <3>1, <3>2
    <2>3. Cardinality(Then) <= Cardinality(Stay \cup {t}) /\ Cardinality(Then) \in Nat
      BY <1>1, <2>1, <2>2, FS_Subset, FS_CardinalityType
    <2>. QED
      BY <1>1, <1>3, <2>2, <2>3
  <1>4. ASSUME NEW t \in Tasks, StepOf(t), ~(Create(t) /\ Cardinality(Stay) < Capacity)
        PROVE  Then \subseteq Now
    <2>1. ASSUME NEW u \in Tasks \ {t}, Stored(u)'
          PROVE  Stored(u)
      BY <2>1, <1>4, OthersUntouched DEF StoreInv, Untouched, Purged, Stored
    <2>2. Stored(t)' => Stored(t)
      <3>. USE DEF StoreInv, TypeOK, Stored, Purged, Live, Active, Kept
      <3>1. CASE Create(t)
        BY <1>4, <3>1 DEF Create
      <3>2. CASE Complete(t)
        BY <3>2 DEF Complete
      <3>3. CASE Obtain(t)
        BY <3>3 DEF Obtain
      <3>4. CASE Cancel(t)
        BY <3>4 DEF Cancel
      <3>5. CASE \E ks \in SUBSET Keys : Update(t, ks)
        BY <3>5 DEF Update
      <3>6. CASE task' = task \/ task' = Purged
        BY <3>6
      <3>. QED
        BY <1>4, <3>1, <3>2, <3>3, <3>4, <3>5, <3>6
           DEF StepOf, BecomeDue, Obtained, Abandon, ReadForPush, SendPush, DropPush
    <2>. QED
      BY <2>1, <2>2
  <1>5. CASE Get \/ UNCHANGED vars
    BY <1>5, <1>2 DEF Get, Stored, vars, Purged
  <1>. QED
    BY <1>2, <1>3, <1>4, <1>5 DEF Next, StepOf

\* The types.
LEMMA TypeSteps ==
  ASSUME StoreInv, [Next]_vars
  PROVE  TypeOK'
  <1>1. Cardinality({t \in Tasks : Stored(t)})' <= Capacity
    BY CapacitySteps
  <1>2. task' \in [Tasks -> TaskRecord]
    <2>. USE PurgedType DEF StoreInv, TypeOK, TaskRecord, Statuses, Active, Terminal
    <2>1. ASSUME NEW t \in Tasks, StepOf(t)
          PROVE  task' \in [Tasks -> TaskRecord]
      <3>1. CASE Create(t)
        <4>1. task' = Purged \/ task' = [Purged EXCEPT ![t].status = "working"]
          BY <3>1 DEF Create
        <4>2. Purged \in [Tasks -> TaskRecord]
          OBVIOUS
        <4>. HIDE DEF TypeOK, StoreInv
        <4>. QED
          BY <4>1, <4>2
      <3>2. CASE Complete(t)
        BY <3>2 DEF Complete
      <3>3. CASE Obtain(t)
        <4>1. asked[t] + 1 \in Keys /\ asked'[t] = asked[t] + 1
          BY <3>3, TasksAssumption DEF Obtain, TasksAssumption, Keys
        <4>2. Purged \in [Tasks -> TaskRecord]
          OBVIOUS
        <4>3. \/ task' = Purged
              \/ task' = [Purged EXCEPT ![t] = [status |-> "input_required",
                                               open |-> Purged[t].open \cup {asked[t] + 1}]]
          BY <3>3, <4>1 DEF Obtain
        <4>. HIDE DEF TypeOK, StoreInv
        <4>. QED
          BY <4>1, <4>2, <4>3
      <3>4. CASE Cancel(t)
        BY <3>4 DEF Cancel
      <3>5. ASSUME NEW ks \in SUBSET Keys, Update(t, ks)
            PROVE  task' \in [Tasks -> TaskRecord]
        <4>1. Purged \in [Tasks -> TaskRecord] /\ task[t].open \in SUBSET Keys
          OBVIOUS
        <4>2. \/ task' = Purged
              \/ \E s \in {"working", Purged[t].status} :
                   task' = [Purged EXCEPT ![t] = [status |-> s, open |-> task[t].open \ ks]]
          BY <3>5 DEF Update
        <4>. HIDE DEF TypeOK, StoreInv
        <4>. QED
          BY <4>1, <4>2
      <3>6. CASE task' = task \/ task' = Purged
        BY <3>6
      <3>. QED
        BY <2>1, <3>1, <3>2, <3>3, <3>4, <3>5, <3>6
           DEF StepOf, BecomeDue, Obtained, Abandon, ReadForPush, SendPush, DropPush
    <2>. QED
      BY <2>1 DEF Next, StepOf, Get, vars
  <1>3. token' \subseteq Tasks /\ due' \subseteq Tasks
    BY DEF StoreInv, TypeOK, Next, Create, Complete, Obtain, Cancel, Update, BecomeDue, Obtained,
       Abandon, ReadForPush, SendPush, DropPush, Get, vars, callVars, Fires
  <1>4. call' \in [Tasks -> {"none", "running", "ended"}]
    BY DEF StoreInv, TypeOK, Next, Create, Complete, Obtain, Cancel, Update, BecomeDue, Obtained,
       Abandon, ReadForPush, SendPush, DropPush, Get, vars, callVars
  <1>. USE DEF StoreInv, TypeOK
  <1>5. asked' \in [Tasks -> 0..MaxInputs]
    <2>1. asked' = asked \/ \E t \in Tasks : asked[t] < MaxInputs /\ asked' = [asked EXCEPT ![t] = @ + 1]
      BY DEF Next, Create, Complete, Obtain, Cancel, Update, BecomeDue, Obtained, Abandon,
         ReadForPush, SendPush, DropPush, Get, vars, callVars
    <2>. QED
      BY <2>1, TasksAssumption DEF TasksAssumption
  <1>6. awaiting' \in [Tasks -> SUBSET Keys]
    <2>1. ASSUME NEW t \in Tasks, Obtain(t)
          PROVE  awaiting' \in [Tasks -> SUBSET Keys]
      <3>1. asked[t] + 1 \in Keys /\ asked'[t] = asked[t] + 1
        BY <2>1, TasksAssumption DEF Obtain, TasksAssumption, Keys
      <3>. QED
        BY <2>1, <3>1 DEF Obtain
    <2>2. ASSUME NEW t \in Tasks, NEW k \in Keys, Obtained(t, k) \/ Abandon(t, k)
          PROVE  awaiting' \in [Tasks -> SUBSET Keys]
      BY <2>2 DEF Obtained, Abandon
    <2>3. CASE awaiting' = awaiting
      BY <2>3
    <2>. QED
      BY <2>1, <2>2, <2>3 DEF Next, Create, Complete, Cancel, Update, BecomeDue, ReadForPush,
         SendPush, DropPush, Get, vars, callVars
  <1>7. abandoned' \in [Tasks -> SUBSET Keys]
    <2>1. ASSUME NEW t \in Tasks, NEW k \in Keys, Abandon(t, k)
          PROVE  abandoned' \in [Tasks -> SUBSET Keys]
      BY <2>1 DEF Abandon
    <2>2. CASE abandoned' = abandoned
      BY <2>2
    <2>. QED
      BY <2>1, <2>2 DEF Next, Create, Complete, Obtain, Obtained, Cancel, Update, BecomeDue,
         ReadForPush, SendPush, DropPush, Get, vars, callVars
  <1>8. answered' \in [Tasks -> SUBSET Keys]
    <2>1. ASSUME NEW t \in Tasks, NEW ks \in SUBSET Keys, Update(t, ks)
          PROVE  answered' \in [Tasks -> SUBSET Keys]
      BY <2>1 DEF Update
    <2>2. CASE answered' = answered
      BY <2>2
    <2>. QED
      BY <2>1, <2>2 DEF Next, Create, Complete, Obtain, Obtained, Abandon, Cancel, BecomeDue,
         ReadForPush, SendPush, DropPush, Get, vars, callVars
  <1>9. pushes' \subseteq Tasks \X Pushers \X Readings
    <2>1. ASSUME NEW t \in Tasks, StepOf(t)
          PROVE  pushes' \subseteq pushes \cup ({t} \X Pushers \X Readings)
      <3>1. ASSUME NEW by \in Pushers, ReadForPush(t, by)
            PROVE  pushes' \subseteq pushes \cup ({t} \X Pushers \X Readings)
        <4>1. Kept(t) => Reading(t) \in Readings
          BY DEF Kept, Stored, Reading, Readings, Live, Statuses
        <4>. QED
          BY <3>1, <4>1 DEF ReadForPush
      <3>2. ASSUME NEW by \in Pushers, AskPush(t, by)
            PROVE  pushes' \subseteq pushes \cup ({t} \X Pushers \X Readings)
        BY <3>2 DEF AskPush, Readings
      <3>3. CASE Complete(t) \/ Cancel(t) \/ \E ks \in SUBSET Keys : Update(t, ks)
        <4>1. ByCall \in Pushers /\ ByRequest \in Pushers
          BY DEF Pushers
        <4>. QED
          BY <3>2, <3>3, <4>1 DEF Complete, Cancel, Update
      <3>4. CASE Obtain(t)
        <4>1. asked'[t] \in Pushers
          BY <3>4, TasksAssumption DEF Obtain, TasksAssumption, Keys, Pushers
        <4>. QED
          BY <3>2, <3>4, <4>1 DEF Obtain
      <3>5. CASE pushes' \subseteq pushes
        BY <3>5
      <3>. QED
        BY <2>1, <3>1, <3>3, <3>4, <3>5 DEF StepOf, Create, BecomeDue, Obtained, Abandon,
           SendPush, DropPush, callVars
    <2>. QED
      BY <2>1 DEF Next, StepOf, Get, vars
  <1>10. told' \in [Tasks -> SUBSET Terminal]
    <2>1. ASSUME NEW t \in Tasks, NEW by \in Pushers, NEW s \in Readings, SendPush(t, by, s)
          PROVE  told' \in [Tasks -> SUBSET Terminal]
      BY <2>1 DEF SendPush, Readings
    <2>2. CASE told' = told
      BY <2>2
    <2>. QED
      BY <2>1, <2>2 DEF Next, Create, Complete, Obtain, Cancel, Update, BecomeDue, Obtained,
       Abandon, ReadForPush, DropPush, Get, vars, callVars
  <1>. QED
    BY <1>1, <1>2, <1>3, <1>4, <1>5, <1>6, <1>7, <1>8, <1>9, <1>10 DEF TypeOK, TaskRecord

\* What is true of every task stays so.
LEMMA SoundSteps ==
  ASSUME StoreInv, [Next]_vars, NEW u \in Tasks
  PROVE  Sound(u)' /\ Announced(u)'
  <1>1. TypeOK /\ Sound(u) /\ Announced(u)
    BY DEF StoreInv
  <1>2. ASSUME NEW t \in Tasks, StepOf(t)
        PROVE  Sound(u)' /\ Announced(u)'
    <2>1. CASE u = t
      BY <1>1, <1>2, <2>1, OwnSteps, OwnPushes
    <2>2. CASE u # t
      BY <1>1, <1>2, <2>2, OthersUntouched, PurgeKeeps
    <2>. QED
      BY <2>1, <2>2
  <1>3. CASE Get \/ UNCHANGED vars
    <2>1. Same(u) /\ Untouched(u)
      BY <1>3 DEF Get, vars, callVars, Same, Idle, Untouched
    <2>. QED
      BY <1>1, <2>1, PurgeKeeps
  <1>. QED
    BY <1>2, <1>3 DEF Next, StepOf

\* The invariant holds in every state.
LEMMA StoreInvHolds == Spec => []StoreInv
  <1>1. Init => StoreInv
    <2>. SUFFICES ASSUME Init PROVE StoreInv
      OBVIOUS
    <2>1. {t \in Tasks : Stored(t)} = {}
      BY DEF Init, Stored
    <2>2. TypeOK
      <3>1. Cardinality({t \in Tasks : Stored(t)}) <= Capacity /\ 0 \in 0..MaxInputs
        BY <2>1, FS_EmptySet, TasksAssumption DEF TasksAssumption
      <3>. QED
        BY <3>1 DEF Init, TypeOK, NoKeys, Statuses
    <2>3. \A t \in Tasks : Sound(t) /\ Announced(t)
      BY DEF Init, Sound, Courses, KeysOf, AccurateOf, AwaitedOf, WorkOf, Announced,
         PushesOfCourse, PushedOf, NoKeys,
         Live, Active, Terminal
    <2>. QED
      BY <2>2, <2>3 DEF StoreInv
  <1>2. StoreInv /\ [Next]_vars => StoreInv'
    BY TypeSteps, SoundSteps DEF StoreInv
  <1>. QED
    BY <1>1, <1>2, PTL DEF Spec

\* The store keeps its types and its capacity, the expired tasks counted.
THEOREM DraftStoreIsTyped == Spec => []TypeOK
  BY StoreInvHolds, PTL DEF StoreInv

\* The store and the calls agree on the inputs that are asked for: what tasks/get
\* shows as outstanding is what the call waits for or gave up.
THEOREM DraftInputsAgree == Spec => []InputsAgree
  <1>1. StoreInv => InputsAgree
    BY DEF StoreInv, Sound, AccurateOf, AwaitedOf, InputsAgree, InputRequiredIsAccurate,
       OutstandingIsAwaited
  <1>. QED
    BY <1>1, StoreInvHolds, PTL

\* No call runs on for a task that ended without being told to stop.
THEOREM DraftWorkIsNotOrphaned == Spec => []NoOrphanedWork
  <1>1. StoreInv => NoOrphanedWork
    BY DEF StoreInv, Sound, WorkOf, NoOrphanedWork
  <1>. QED
    BY <1>1, StoreInvHolds, PTL

\* push_status: the end of a stored task was announced, or the task of its call
\* has yet to announce it; and what was announced is how the task ended.
THEOREM DraftEndsArePushed == Spec => []TerminalIsPushed
  <1>1. StoreInv => TerminalIsPushed
    BY DEF StoreInv, Announced, PushesOfCourse, PushedOf, TerminalIsPushed
  <1>. QED
    BY <1>1, StoreInvHolds, PTL

-----------------------------------------------------------------------------
\* One task takes a step of the life cycle, or none.
LEMMA LifecycleSteps ==
  ASSUME StoreInv, [Next]_vars, NEW u \in Tasks
  PROVE  task'[u].status \in Lifecycle!May(task[u].status)
  <1>. USE DEF Lifecycle!May, Lifecycle!Active, Lifecycle!Terminal, Active, Terminal
  <1>1. TypeOK /\ Sound(u) /\ task[u].status \in Statuses
    BY DEF StoreInv, TypeOK
  <1>2. ASSUME Untouched(u)
        PROVE  task'[u].status \in Lifecycle!May(task[u].status)
    <2>1. task'[u].status = task[u].status
          \/ (task'[u].status = "gone" /\ task[u].status \notin {"none", "gone"})
      BY <1>1, <1>2, PurgedType DEF Untouched, Purged, Stored
    <2>. QED
      BY <1>1, <2>1 DEF Statuses
  <1>3. ASSUME StepOf(u)
        PROVE  task'[u].status \in Lifecycle!May(task[u].status)
    <2>. USE PurgedType DEF TypeOK
    <2>1. CASE Create(u)
      BY <1>1, <1>2, <2>1 DEF Create, Sound, Courses, Untouched, Purged, Stored
    <2>2. CASE Complete(u)
      BY <1>1, <1>2, <2>2 DEF Complete, Untouched, Live
    <2>3. CASE Obtain(u)
      BY <1>1, <1>2, <2>3 DEF Obtain, Untouched, Live, Kept
    <2>4. CASE Cancel(u)
      BY <1>1, <1>2, <2>4 DEF Cancel, Untouched, Live, Kept
    <2>5. CASE \E ks \in SUBSET Keys : Update(u, ks)
      BY <1>1, <1>2, <2>5 DEF Update, Untouched, Kept
    <2>6. CASE task' = task \/ (task' = Purged /\ token' = Fires)
      BY <1>1, <1>2, <2>6 DEF Untouched, Purged, Stored, Statuses
    <2>. QED
      BY <1>3, <2>1, <2>2, <2>3, <2>4, <2>5, <2>6
         DEF StepOf, BecomeDue, Obtained, Abandon, ReadForPush, SendPush, DropPush
  <1>4. ASSUME NEW t \in Tasks \ {u}, StepOf(t)
        PROVE  Untouched(u)
    BY <1>1, <1>4, OthersUntouched
  <1>5. CASE Get \/ UNCHANGED vars
    BY <1>2, <1>5 DEF Get, vars, Untouched
  <1>. QED
    BY <1>2, <1>3, <1>4, <1>5 DEF Next, StepOf

\* The draft store implements the life cycle of tasks.
THEOREM DraftImplementsLifecycle == Spec => ImplementsLifecycle
  <1>1. Init => Lifecycle!Init
    BY DEF Init, Lifecycle!Init
  <1>2. StoreInv /\ [Next]_vars /\ TypeOK' =>
          [Lifecycle!Next]_([t \in Tasks |-> task[t].status])
    <2>. SUFFICES ASSUME StoreInv, [Next]_vars, TypeOK'
                  PROVE  Lifecycle!Next
      OBVIOUS
    <2>1. \A t \in Tasks : task'[t].status \in Lifecycle!May(task[t].status)
      BY LifecycleSteps
    <2>2. \A t \in Tasks : task'[t].status \in Statuses
      BY DEF TypeOK
    <2>. QED
      BY <2>1, <2>2 DEF Lifecycle!Next, Statuses, Active, Terminal, Lifecycle!Active,
         Lifecycle!Terminal
  <1>. QED
    BY <1>1, <1>2, DraftStoreIsTyped, StoreInvHolds, PTL
       DEF Spec, ImplementsLifecycle, Lifecycle!Spec

-----------------------------------------------------------------------------
(* Counting.                                                                *)

\* Some number of a bounded set of them is the greatest: final segments are
\* finite sets, which inclusion orders well.
LEMMA GreatestNumber ==
  ASSUME NEW N \in Nat, NEW T \in SUBSET (1..N), T # {}
  PROVE  \E m \in T : \A k \in T : k <= m
  <1>. DEFINE Segments == {n..N : n \in T}
  <1>1. Segments \subseteq FiniteSubsetsOf(1..N) /\ Segments # {}
    <2>1. \A n \in T : IsFiniteSet(n..N) /\ n..N \in SUBSET (1..N)
      BY FS_Interval
    <2>. QED
      BY <2>1 DEF FiniteSubsetsOf
  <1>2. PICK x \in Segments : \A y \in Segments : <<y, x>> \notin StrictSubsetOrdering(1..N)
    <2>. HIDE DEF Segments
    <2>. QED
      BY <1>1, WFMin, FS_StrictSubsetOrderingWellFounded
  <1>3. PICK m \in T : x = m..N
    OBVIOUS
  <1>4. ASSUME NEW k \in T, ~(k <= m)
        PROVE  FALSE
    <2>1. k..N \subseteq m..N /\ k..N # m..N /\ k..N \in SUBSET (1..N) /\ m..N \in SUBSET (1..N)
      <3>1. m \in m..N /\ m \notin k..N
        BY <1>4
      <3>. QED
        BY <1>4, <3>1
    <2>2. <<k..N, x>> \in StrictSubsetOrdering(1..N)
      BY <1>3, <2>1 DEF StrictSubsetOrdering
    <2>. QED
      BY <1>2, <2>2
  <1>. QED
    BY <1>4

\* Sets of numbers up to N are finite, and their cardinalities are ordered as they are.
LEMMA Counted ==
  ASSUME NEW N \in Nat, NEW B \in SUBSET (1..N), NEW A \in SUBSET B
  PROVE  /\ IsFiniteSet(A) /\ IsFiniteSet(B)
         /\ Cardinality(A) \in Nat /\ Cardinality(B) \in Nat
         /\ Cardinality(A) <= Cardinality(B)
  <1>1. IsFiniteSet(1..N)
    BY FS_Interval
  <1>2. IsFiniteSet(B)
    BY <1>1, FS_Subset
  <1>. QED
    BY <1>2, FS_Subset, FS_CardinalityType

Before(V, t) == {u \in V : u < t}
Rank(V, t) == Cardinality(Before(V, t))
LowRank(V, n) == {t \in V : Rank(V, t) < n}
UpTo(V, S) == {t \in V : \E u \in S : t <= u}

\* A rank is a number, and what is before t, and t, are one more.
LEMMA WithItself ==
  ASSUME NEW N \in Nat, NEW V \in SUBSET (1..N), NEW t \in V
  PROVE  /\ Rank(V, t) \in Nat /\ Before(V, t) \cup {t} \in SUBSET V
         /\ Cardinality(Before(V, t) \cup {t}) = Rank(V, t) + 1
  <1>1. Before(V, t) \in SUBSET V /\ t \notin Before(V, t)
    BY DEF Before
  <1>2. IsFiniteSet(Before(V, t)) /\ Rank(V, t) \in Nat
    BY <1>1, Counted DEF Rank
  <1>. QED
    BY <1>1, <1>2, FS_AddElement DEF Rank

\* At most n members of a set have fewer than n before them.
LEMMA LowRanks ==
  ASSUME NEW N \in Nat, NEW V \in SUBSET (1..N), NEW n \in Nat
  PROVE  Cardinality(LowRank(V, n)) <= n
  <1>1. CASE LowRank(V, n) = {}
    BY <1>1, FS_EmptySet
  <1>2. CASE LowRank(V, n) # {}
    <2>1. LowRank(V, n) \in SUBSET (1..N)
      BY DEF LowRank
    <2>2. PICK m \in LowRank(V, n) : \A k \in LowRank(V, n) : k <= m
      BY <1>2, <2>1, GreatestNumber
    <2>3. m \in V /\ Rank(V, m) < n
      BY DEF LowRank
    <2>4. LowRank(V, n) \subseteq Before(V, m) \cup {m}
      <3>. SUFFICES ASSUME NEW k \in LowRank(V, n), k # m PROVE k \in Before(V, m)
        OBVIOUS
      <3>1. k \in V /\ k \in Nat /\ m \in Nat /\ k <= m
        BY <2>1, <2>2 DEF LowRank
      <3>. QED
        BY <3>1 DEF Before
    <2>5. /\ Before(V, m) \cup {m} \in SUBSET (1..N) /\ Rank(V, m) \in Nat
          /\ Cardinality(Before(V, m) \cup {m}) = Rank(V, m) + 1
      BY <2>3, WithItself
    <2>6. Cardinality(LowRank(V, n)) <= Cardinality(Before(V, m) \cup {m})
          /\ Cardinality(LowRank(V, n)) \in Nat
      BY <2>4, <2>5, Counted
    <2>. QED
      BY <2>3, <2>5, <2>6
  <1>. QED
    BY <1>1, <1>2

\* The pages of a list follow one another, and leave behind no more of the list
\* than they show, if that was so before: V is the list, S what was shown.
LEMMA PageFollows ==
  ASSUME NEW N \in Nat, NEW V \in SUBSET (1..N), NEW S \in SUBSET (1..N), NEW size \in Nat,
         Cardinality(UpTo(V, S)) <= Cardinality(S),
         NEW page \in SUBSET V,
         \A t \in V : t \in page <=> /\ Cardinality(S) <= Rank(V, t)
                                     /\ Rank(V, t) < Cardinality(S) + size
  PROVE  /\ \A t \in page, s \in S : s < t
         /\ Cardinality(S \cup page) = Cardinality(S) + Cardinality(page)
         /\ Cardinality(UpTo(V, S \cup page)) <= Cardinality(S \cup page)
  <1>. DEFINE low == LowRank(V, Cardinality(S))
              behind == UpTo(V, S \cup page)
  <1>1. /\ Cardinality(S) \in Nat /\ IsFiniteSet(S)
        /\ page \in SUBSET (1..N)
        /\ UpTo(V, S) \in SUBSET (1..N)
        /\ low \in SUBSET (1..N) /\ behind \in SUBSET (1..N)
    BY Counted DEF UpTo, LowRank
  <1>2. /\ Cardinality(page) \in Nat /\ IsFiniteSet(page)
        /\ Cardinality(UpTo(V, S)) \in Nat
        /\ IsFiniteSet(low) /\ Cardinality(low) \in Nat
        /\ Cardinality(behind) \in Nat
    BY <1>1, Counted
  <1>3. ASSUME NEW t \in UpTo(V, S)
        PROVE  Rank(V, t) < Cardinality(S)
    <2>1. t \in V
      BY DEF UpTo
    <2>2. Before(V, t) \cup {t} \in SUBSET UpTo(V, S)
      <3>. SUFFICES ASSUME NEW k \in Before(V, t) PROVE k \in UpTo(V, S)
        OBVIOUS
      <3>1. k \in V /\ k < t /\ k \in Nat /\ t \in Nat
        BY <2>1 DEF Before
      <3>2. PICK s \in S : t <= s
        BY DEF UpTo
      <3>3. s \in Nat
        OBVIOUS
      <3>4. k <= s
        BY <3>1, <3>2, <3>3
      <3>. QED
        BY <3>1, <3>4 DEF UpTo
    <2>3. Cardinality(Before(V, t) \cup {t}) <= Cardinality(UpTo(V, S))
      BY <1>1, <2>2, Counted
    <2>4. Cardinality(Before(V, t) \cup {t}) = Rank(V, t) + 1 /\ Rank(V, t) \in Nat
      BY <2>1, WithItself
    <2>. QED
      BY <1>1, <1>2, <2>3, <2>4
  <1>4. \A t \in page, s \in S : s < t
    <2>. SUFFICES ASSUME NEW t \in page, NEW s \in S, ~(s < t) PROVE FALSE
      OBVIOUS
    <2>1. t \in V /\ t \in Nat /\ s \in Nat
      OBVIOUS
    <2>2. t \in UpTo(V, S)
      BY <2>1 DEF UpTo
    <2>3. Cardinality(S) <= Rank(V, t) /\ Rank(V, t) \in Nat
      BY <2>1, WithItself
    <2>. QED
      BY <1>1, <1>3, <2>2, <2>3
  <1>5. Cardinality(S \cup page) = Cardinality(S) + Cardinality(page)
    <2>1. S \cap page = {}
      <3>. SUFFICES ASSUME NEW s \in S, s \in page PROVE FALSE
        OBVIOUS
      <3>1. s < s /\ s \in Nat
        BY <1>4
      <3>. QED
        BY <3>1
    <2>2. Cardinality(S \cap page) = 0
      BY <2>1, FS_EmptySet
    <2>3. Cardinality(S \cup page) = Cardinality(S) + Cardinality(page) - Cardinality(S \cap page)
      BY <1>1, <1>2, FS_Union
    <2>. QED
      BY <1>1, <1>2, <2>2, <2>3
  <1>6. behind \subseteq low \cup page
    <2>. SUFFICES ASSUME NEW t \in V, NEW u \in S \cup page, t <= u, t \notin page
                  PROVE  Rank(V, t) < Cardinality(S)
      BY DEF UpTo, LowRank
    <2>1. CASE u \in S
      <3>1. t \in UpTo(V, S)
        BY <2>1 DEF UpTo
      <3>. QED
        BY <1>3, <3>1
    <2>2. CASE u \in page
      <3>0. u \in V
        BY <2>2
      <3>1. Rank(V, u) < Cardinality(S) + size
        BY <2>2, <3>0
      <3>2. Before(V, t) \in SUBSET Before(V, u) /\ Before(V, u) \in SUBSET (1..N)
        <4>1. V \subseteq Nat
          OBVIOUS
        <4>2. \A v \in V : v < t => v < u
          BY <3>0, <4>1
        <4>. QED
          BY <4>2 DEF Before
      <3>3. Rank(V, t) <= Rank(V, u) /\ Rank(V, t) \in Nat /\ Rank(V, u) \in Nat
        BY <3>2, Counted DEF Rank
      <3>4. ~(Cardinality(S) <= Rank(V, t) /\ Rank(V, t) < Cardinality(S) + size)
        OBVIOUS
      <3>. QED
        BY <1>1, <3>1, <3>3, <3>4
    <2>. QED
      BY <2>1, <2>2
  <1>7. Cardinality(low) <= Cardinality(S)
    BY <1>1, LowRanks
  <1>. HIDE DEF low, behind
  <1>8. Cardinality(behind) <= Cardinality(low) + Cardinality(page)
    <2>1. low \cup page \in SUBSET (1..N)
      BY <1>1
    <2>2. Cardinality(behind) <= Cardinality(low \cup page) /\ Cardinality(low \cup page) \in Nat
      BY <1>6, <2>1, Counted
    <2>3. Cardinality(low \cup page) = Cardinality(low) + Cardinality(page) - Cardinality(low \cap page)
      BY <1>2, FS_Union
    <2>4. Cardinality(low \cap page) \in Nat
      BY <1>2, FS_Intersection, FS_CardinalityType
    <2>. QED
      BY <1>2, <2>2, <2>3, <2>4
  <1>9. Cardinality(behind) <= Cardinality(S \cup page)
    BY <1>1, <1>2, <1>5, <1>7, <1>8
  <1>. QED
    BY <1>4, <1>5, <1>9 DEF behind

-----------------------------------------------------------------------------
(* The legacy store.                                                        *)

EntryRecord == [status : {"none", "gone", "working"} \cup Ended,
                owner : Owners \cup {"nobody"}, outcome : Outcomes \cup {"none"}]
WaitRecord == [at : {"idle", "look", "waiting", "returned"}, task : Nat,
               woken : BOOLEAN, got : Outcomes \cup {"none", "not found"}]
ListRecord == [at : {"idle", "next", "whole"}, owner : Owners \cup {"nobody"}, offset : Nat,
               pages : Seq(SUBSET Ids), present : SUBSET Ids]

LegacyShape ==
    /\ made \in 0..MaxTasks
    /\ entry \in [Ids -> EntryRecord]
    /\ signalled \subseteq Ids /\ overdue \subseteq Ids
    /\ work \in [Ids -> {"none", "running", "ended"}]
    /\ wait \in [Waiters -> WaitRecord]
    /\ listing \in ListRecord

LegacyFits == Cardinality({t \in Ids : InStore(t)}) <= TaskCapacity

\* Tasks are made in order; one that has ended has an outcome, and one whose call
\* runs on works or has been told to stop.
TaskCourse(t) ==
    /\ t <= made <=> entry[t].status # "none"
    /\ entry[t].status \in Ended => entry[t].outcome \in Outcomes
    /\ work[t] = "running" => Works(t) \/ t \in signalled

\* A request asks about a task that was made, and has the answer it may have.
WaitCourse(w) ==
    /\ wait[w].at # "idle" => wait[w].task \in 1..made
    /\ wait[w].at = "returned" =>
        IF wait[w].got = "not found"
        THEN entry[wait[w].task].status = "gone" \/ entry[wait[w].task].owner # AskerOf[w]
        ELSE /\ wait[w].got \in Outcomes
             /\ InStore(wait[w].task) => entry[wait[w].task].outcome = wait[w].got
             /\ ~Works(wait[w].task)
    /\ wait[w].at = "waiting" => Works(wait[w].task) \/ wait[w].woken

LegacyInv == /\ LegacyShape /\ LegacyFits
             /\ \A t \in Ids : TaskCourse(t)
             /\ \A w \in Waiters : WaitCourse(w)

-----------------------------------------------------------------------------
\* What a step may do to the entry of a task: nothing, purge it, or make or end it.
EntryMoves(t) ==
    \/ entry'[t] = entry[t]
    \/ entry'[t] = Absent /\ InStore(t)
    \/ /\ entry[t].status = "none" /\ t = made + 1 /\ made' = t
       /\ entry'[t].status = "working" 
    \/ /\ Works(t) /\ entry'[t].status \in Ended /\ entry'[t].outcome \in Outcomes
       /\ entry'[t].owner = entry[t].owner

\* Purging leaves records, and ends what is overdue.
LEMMA AfterPurgeType ==
  ASSUME LegacyShape
  PROVE  /\ AfterPurge \in [Ids -> EntryRecord]
         /\ \A t \in Ids : ~(InStore(t) /\ t \in overdue) => AfterPurge[t] = entry[t]
         /\ \A t \in Ids : InStore(t) /\ t \in overdue => AfterPurge[t] = Absent
         /\ Signals \subseteq Ids /\ signalled \subseteq Signals
  BY DEF LegacyShape, AfterPurge, Absent, EntryRecord, Signals

\* Notifying wakes waiters and does nothing else to them.
LEMMA NotifiedType ==
  ASSUME LegacyShape, NEW ts
  PROVE  /\ Notified(ts) \in [Waiters -> WaitRecord]
         /\ \A w \in Waiters : /\ Notified(ts)[w].at = wait[w].at
                               /\ Notified(ts)[w].task = wait[w].task
                               /\ Notified(ts)[w].got = wait[w].got
                               /\ wait[w].woken => Notified(ts)[w].woken
                               /\ wait[w].at = "waiting" /\ wait[w].task \in ts =>
                                    Notified(ts)[w].woken
  <1>1. ASSUME NEW w \in Waiters
        PROVE  /\ Notified(ts)[w] \in WaitRecord
               /\ Notified(ts)[w].at = wait[w].at /\ Notified(ts)[w].task = wait[w].task
               /\ Notified(ts)[w].got = wait[w].got
               /\ wait[w].woken => Notified(ts)[w].woken
               /\ wait[w].at = "waiting" /\ wait[w].task \in ts => Notified(ts)[w].woken
    <2>1. wait[w] \in WaitRecord /\ wait[w].woken \in BOOLEAN
      BY DEF LegacyShape, WaitRecord
    <2>2. Notified(ts)[w] = IF wait[w].at = "waiting" /\ wait[w].task \in ts
                            THEN [wait[w] EXCEPT !.woken = TRUE] ELSE wait[w]
      BY DEF Notified
    <2>. QED
      BY <2>1, <2>2 DEF WaitRecord
  <1>2. Notified(ts) = [w \in Waiters |-> Notified(ts)[w]]
    BY DEF Notified
  <1>. QED
    BY <1>1, <1>2

\* A purge as a step.
Purging == entry' = AfterPurge /\ signalled' = Signals

\* A purge moves every entry as EntryMoves allows.
LEMMA PurgeMoves ==
  ASSUME LegacyShape, Purging, NEW t \in Ids
  PROVE  EntryMoves(t)
  BY AfterPurgeType DEF EntryMoves, Purging

\* Every step moves entries so.
LEMMA EntrySteps ==
  ASSUME LegacyInv, [LegacyTasksNext]_legacyTaskVars
  PROVE  /\ entry' \in [Ids -> EntryRecord]
         /\ \A t \in Ids : EntryMoves(t)
         /\ made' \in 0..MaxTasks
         /\ made' = made \/ (made' = made + 1 /\ entry'[made'].status = "working")
  <1>. USE DEF LegacyInv
  <1>0. MaxTasks \in Nat /\ MakerOf \in [1..MaxTasks -> Owners] /\ Ids = 1..MaxTasks
        /\ LegacyShape /\ made \in 0..MaxTasks
    BY LegacyTasksAssumption DEF Ids, LegacyShape
  <1>1. CASE CreateTask
    <2>1. CASE made' = made + 1 /\ made < MaxTasks
               /\ entry' = [AfterPurge EXCEPT ![made + 1] =
                    [status |-> "working", owner |-> MakerOf[made + 1], outcome |-> "none"]]
      <3>1. made + 1 \in Ids /\ MakerOf[made + 1] \in Owners
        BY <1>0, <2>1
      <3>2. entry[made + 1].status = "none"
        <4>1. TaskCourse(made + 1) /\ ~(made + 1 <= made)
          BY <1>0, <3>1
        <4>. QED
          BY <4>1 DEF TaskCourse
      <3>3. entry' \in [Ids -> EntryRecord]
        <4>1. [status |-> "working", owner |-> MakerOf[made + 1], outcome |-> "none"]
                \in EntryRecord
          BY <3>1 DEF EntryRecord
        <4>. QED
          BY <2>1, <3>1, <4>1, AfterPurgeType, <1>0
      <3>4. ASSUME NEW t \in Ids PROVE EntryMoves(t)
        <4>1. CASE t = made + 1
          BY <2>1, <3>1, <3>2, <4>1, AfterPurgeType, <1>0 DEF EntryMoves, InStore
        <4>2. CASE t # made + 1
          <5>1. entry'[t] = AfterPurge[t]
            BY <2>1, <3>1, <4>2, AfterPurgeType, <1>0
          <5>. QED
            BY <5>1, AfterPurgeType, <1>0 DEF EntryMoves
        <4>. QED
          BY <4>1, <4>2
      <3>5. entry'[made'].status = "working"
        BY <1>0, <2>1, <3>1, AfterPurgeType
      <3>. QED
        BY <1>0, <2>1, <3>3, <3>4, <3>5
    <2>2. CASE Purging /\ made' = made
      BY <1>0, <2>2, PurgeMoves, AfterPurgeType DEF Purging
    <2>. QED
      BY <1>1, <2>1, <2>2 DEF CreateTask, Purging
  <1>2. ASSUME NEW o \in Owners, NEW c \in Ids, CancelTask(o, c)
        PROVE  /\ entry' \in [Ids -> EntryRecord]
               /\ \A t \in Ids : EntryMoves(t)
    <2>1. CASE Visible(o, c) /\ Works(c)
      <3>1. AfterPurge[c] = entry[c] /\ entry[c] \in EntryRecord
        BY <1>0, <2>1, AfterPurgeType DEF Visible, Left, LegacyShape
      <3>2. entry' = [AfterPurge EXCEPT ![c] =
               [status |-> "cancelled", owner |-> entry[c].owner, outcome |-> "cancelled"]]
        BY <1>0, <1>2, <2>1, <3>1, AfterPurgeType DEF CancelTask, EntryRecord
      <3>3. [status |-> "cancelled", owner |-> entry[c].owner, outcome |-> "cancelled"]
               \in EntryRecord
        BY <3>1 DEF EntryRecord, Ended, Outcomes
      <3>4. entry' \in [Ids -> EntryRecord]
        BY <3>2, <3>3, <1>0, AfterPurgeType
      <3>5. ASSUME NEW t \in Ids PROVE EntryMoves(t)
        <4>1. CASE t = c
          <5>1. entry'[t] =
                  [status |-> "cancelled", owner |-> entry[c].owner, outcome |-> "cancelled"]
            BY <1>0, <3>2, <4>1, AfterPurgeType
          <5>. QED
            BY <2>1, <4>1, <5>1 DEF EntryMoves, Ended, Outcomes
        <4>2. CASE t # c
          <5>1. entry'[t] = AfterPurge[t]
            BY <1>0, <3>2, <4>2, AfterPurgeType
          <5>. QED
            BY <1>0, <5>1, AfterPurgeType DEF EntryMoves
        <4>. QED
          BY <4>1, <4>2
      <3>. QED
        BY <3>4, <3>5
    <2>2. CASE Purging
      BY <1>0, <2>2, PurgeMoves, AfterPurgeType DEF Purging
    <2>. QED
      BY <1>2, <2>1, <2>2 DEF CancelTask, Purge, Purging
  <1>3. ASSUME NEW c \in Ids, WorkEnds(c)
        PROVE  /\ entry' \in [Ids -> EntryRecord]
               /\ \A t \in Ids : EntryMoves(t)
    <2>1. PICK outcome \in {"value", "error"} : Record(c, outcome)
      BY <1>3 DEF WorkEnds
    <2>2. CASE Works(c)
      <3>1. entry[c] \in EntryRecord
        BY <1>0 DEF LegacyShape
      <3>. DEFINE new == [status |-> IF outcome = "value" THEN "completed" ELSE "failed",
                          owner |-> entry[c].owner, outcome |-> outcome]
      <3>2. entry' = [entry EXCEPT ![c] = new]
        BY <1>0, <2>1, <2>2, <3>1 DEF Record, EntryRecord, LegacyShape
      <3>3. new \in EntryRecord /\ new.status \in Ended /\ new.outcome \in Outcomes
            /\ new.owner = entry[c].owner
        BY <2>1, <3>1 DEF EntryRecord, Ended, Outcomes
      <3>. HIDE DEF new
      <3>4. entry' \in [Ids -> EntryRecord]
        BY <1>0, <3>2, <3>3 DEF LegacyShape
      <3>5. ASSUME NEW t \in Ids PROVE EntryMoves(t)
        <4>1. CASE t = c
          <5>1. entry'[t] = new
            BY <1>0, <3>2, <4>1 DEF LegacyShape
          <5>. QED
            BY <2>2, <3>3, <4>1, <5>1 DEF EntryMoves
        <4>2. CASE t # c
          BY <1>0, <3>2, <4>2 DEF EntryMoves, LegacyShape
        <4>. QED
          BY <4>1, <4>2
      <3>. QED
        BY <3>4, <3>5
    <2>3. CASE entry' = entry
      BY <1>0, <2>3 DEF EntryMoves, LegacyShape
    <2>. QED
      BY <2>1, <2>2, <2>3 DEF Record
  <1>4. ASSUME entry' = entry
        PROVE  /\ entry' \in [Ids -> EntryRecord]
               /\ \A t \in Ids : EntryMoves(t)
    BY <1>0, <1>4 DEF EntryMoves, LegacyShape
  <1>5. ASSUME Purging
        PROVE  /\ entry' \in [Ids -> EntryRecord]
               /\ \A t \in Ids : EntryMoves(t)
    BY <1>0, <1>5, PurgeMoves, AfterPurgeType DEF Purging
  <1>6. CASE made' = made
    <2>1. \/ \E o \in Owners, c \in Ids : CancelTask(o, c)
          \/ \E c \in Ids : WorkEnds(c)
          \/ entry' = entry \/ Purging \/ CreateTask
      BY DEF LegacyTasksNext, legacyTaskVars, Begin, AskResult, WorkStops,
         Expires, Look, WakeUp, GetTask, NextPage, Purge, Purging
    <2>2. /\ entry' \in [Ids -> EntryRecord]
          /\ \A t \in Ids : EntryMoves(t)
      BY <1>1, <1>2, <1>3, <1>4, <1>5, <2>1
    <2>. QED
      BY <1>0, <1>6, <2>2
  <1>7. CreateTask \/ made' = made
    BY DEF LegacyTasksNext, legacyTaskVars, Begin, AskResult, WorkStops, CancelTask, WorkEnds,
       Expires, Look, WakeUp, GetTask, NextPage
  <1>. QED
    BY <1>1, <1>6, <1>7

-----------------------------------------------------------------------------
\* A request keeps its answer, starts, looks or wakes up.
WaitKept(w) == /\ wait'[w].at = wait[w].at /\ wait'[w].task = wait[w].task
               /\ wait'[w].got = wait[w].got
               /\ wait[w].woken => wait'[w].woken
WaitStarts(w) == /\ wait'[w].at = "look" /\ wait'[w].task \in 1..made

\* Every step keeps a request that waits, starts it, lets it look, or wakes it.
LEMMA WaitSteps ==
  ASSUME LegacyInv, [LegacyTasksNext]_legacyTaskVars
  PROVE  /\ wait' \in [Waiters -> WaitRecord]
         /\ \A w \in Waiters : WaitKept(w) \/ WaitStarts(w) \/ Look(w) \/ WakeUp(w)
  <1>0. LegacyShape /\ wait \in [Waiters -> WaitRecord] /\ made \in 0..MaxTasks
        /\ MaxTasks \in Nat /\ entry \in [Ids -> EntryRecord] /\ Ids = 1..MaxTasks
    BY LegacyTasksAssumption DEF LegacyInv, LegacyShape, Ids
  <1>1. ASSUME NEW ts, wait' = Notified(ts)
        PROVE  wait' \in [Waiters -> WaitRecord] /\ \A w \in Waiters : WaitKept(w)
    BY <1>0, <1>1, NotifiedType DEF WaitKept
  <1>2. ASSUME wait' = wait
        PROVE  wait' \in [Waiters -> WaitRecord] /\ \A w \in Waiters : WaitKept(w)
    BY <1>0, <1>2 DEF WaitKept
  <1>3. ASSUME NEW v \in Waiters, NEW t \in Ids, AskResult(v, t)
        PROVE  /\ wait' \in [Waiters -> WaitRecord]
               /\ \A w \in Waiters : WaitKept(w) \/ WaitStarts(w)
    <2>. DEFINE new == [at |-> "look", task |-> t, woken |-> FALSE, got |-> "none"]
    <2>1. wait' = [wait EXCEPT ![v] = new] /\ t \in 1..made /\ t \in Nat
      BY <1>0, <1>3 DEF AskResult
    <2>2. new \in WaitRecord /\ new.at = "look" /\ new.task = t
      BY <2>1 DEF WaitRecord
    <2>. HIDE DEF new
    <2>3. \A w \in Waiters : wait'[w] = IF w = v THEN new ELSE wait[w]
      BY <1>0, <2>1
    <2>. QED
      BY <1>0, <2>1, <2>2, <2>3 DEF WaitKept, WaitStarts
  <1>4. ASSUME NEW v \in Waiters, Look(v)
        PROVE  /\ wait' \in [Waiters -> WaitRecord]
               /\ \A w \in Waiters : WaitKept(w) \/ Look(w)
    <2>. DEFINE ts == {u \in overdue : InStore(u)}
                seen == wait'[v].got
    <2>0. wait[v] \in WaitRecord /\ wait[v].task \in Ids
      <3>1. WaitCourse(v) /\ wait[v].at = "look" /\ wait[v] \in WaitRecord
        BY <1>0, <1>4 DEF Look, LegacyInv
      <3>. QED
        BY <1>0, <3>1 DEF WaitCourse
    <2>1. PICK s : /\ s = IF ~Visible(AskerOf[v], wait[v].task) THEN "not found"
                          ELSE IF Works(wait[v].task) THEN "none"
                          ELSE entry[wait[v].task].outcome
                   /\ wait' = [Notified(ts) EXCEPT ![v].got = s,
                                 ![v].at = IF s = "none" THEN "waiting" ELSE "returned"]
      BY <1>4 DEF Look
    <2>2. s \in Outcomes \cup {"none", "not found"}
      BY <1>0, <2>0, <2>1 DEF EntryRecord
    <2>3. Notified(ts) \in [Waiters -> WaitRecord]
      BY <1>0, NotifiedType
    <2>. HIDE DEF ts
    <2>. DEFINE x == IF s = "none" THEN "waiting" ELSE "returned"
    <2>3a. x \in {"idle", "look", "waiting", "returned"}
           /\ wait' = [Notified(ts) EXCEPT ![v].got = s, ![v].at = x]
      BY <2>1
    <2>. HIDE DEF x
    <2>4. wait' \in [Waiters -> WaitRecord]
          /\ \A w \in Waiters \ {v} : wait'[w] = Notified(ts)[w]
      BY <2>2, <2>3, <2>3a DEF WaitRecord
    <2>. QED
      BY <1>0, <1>4, <2>4, NotifiedType DEF WaitKept
  <1>5. ASSUME NEW v \in Waiters, WakeUp(v)
        PROVE  /\ wait' \in [Waiters -> WaitRecord]
               /\ \A w \in Waiters : WaitKept(w) \/ WakeUp(w)
    <2>. DEFINE x == IF InStore(wait[v].task) THEN "look" ELSE "returned"
                g == IF InStore(wait[v].task) THEN "none" ELSE "not found"
    <2>2. /\ x \in {"idle", "look", "waiting", "returned"} /\ g \in {"none", "not found"}
          /\ wait' = [wait EXCEPT ![v].woken = FALSE, ![v].at = x, ![v].got = g]
      BY <1>5 DEF WakeUp
    <2>. HIDE DEF x, g
    <2>1. wait' \in [Waiters -> WaitRecord]
          /\ \A w \in Waiters \ {v} : wait'[w] = wait[w]
      BY <1>0, <2>2 DEF WaitRecord
    <2>. QED
      BY <1>5, <2>1 DEF WaitKept
  <1>6. \/ wait' = wait \/ \E ts : wait' = Notified(ts)
        \/ \E v \in Waiters, t \in Ids : AskResult(v, t)
        \/ \E v \in Waiters : Look(v) \/ WakeUp(v)
    BY DEF LegacyTasksNext, legacyTaskVars, Begin, CreateTask, WorkEnds, WorkStops, CancelTask,
       Record, Expires, GetTask, NextPage, Purge
  <1>. QED
    BY <1>1, <1>2, <1>3, <1>4, <1>5, <1>6

\* Whatever ends a task wakes who waits for it.
LEMMA EndsWake ==
  ASSUME LegacyInv, [LegacyTasksNext]_legacyTaskVars,
         NEW w \in Waiters, wait[w].at = "waiting", wait'[w].at = "waiting",
         wait[w].task \in Ids, Works(wait[w].task), ~Works(wait[w].task)'
  PROVE  wait'[w].woken
  <1>. DEFINE t == wait[w].task
              purged == {u \in overdue : InStore(u)}
  <1>0. /\ LegacyShape /\ wait \in [Waiters -> WaitRecord] /\ entry \in [Ids -> EntryRecord]
        /\ t \in Ids /\ Works(t) /\ InStore(t) /\ wait'[w].task = t
        /\ entry'[t].status # "working"
    <2>0. WaitKept(w) \/ WaitStarts(w) \/ Look(w) \/ WakeUp(w)
      BY WaitSteps
    <2>1. WaitKept(w)
      <3>1. ~Look(w)
        BY DEF Look
      <3>2. CASE WakeUp(w)
        <4>1. wait'[w].at # "waiting"
          BY <3>2 DEF WakeUp, LegacyInv, LegacyShape, WaitRecord
        <4>. QED
          BY <4>1
      <3>. QED
        BY <2>0, <3>1, <3>2 DEF WaitStarts
    <2>2. LegacyShape /\ wait'[w].task = wait[w].task
      BY <2>1 DEF LegacyInv, WaitKept
    <2>3. wait \in [Waiters -> WaitRecord] /\ entry \in [Ids -> EntryRecord]
      BY <2>2 DEF LegacyShape
    <2>4. entry'[t].status # "working"
      BY <2>2 DEF Works
    <2>. QED
      BY <2>2, <2>3, <2>4 DEF Works, InStore
  <1>1. ASSUME NEW ts, t \in ts PROVE Notified(ts)[w].woken
    BY <1>0, <1>1, NotifiedType
  <1>2. ASSUME Purging PROVE t \in purged
    BY <1>0, <1>2, AfterPurgeType DEF Purging, Works
  <1>3. ASSUME wait' = Notified(purged), Purging PROVE wait'[w].woken
    BY <1>1, <1>2, <1>3
  <1>4. CASE CreateTask
    <2>1. ASSUME NEW x, entry' = [AfterPurge EXCEPT ![made + 1] = x], x.status = "working"
          PROVE  t \in purged
      <3>1. AfterPurge \in [Ids -> EntryRecord] /\ AfterPurge[t].status # "working"
        BY <1>0, <2>1, AfterPurgeType
      <3>. QED
        BY <1>0, <3>1, AfterPurgeType DEF Works
    <2>. QED
      BY <1>1, <1>2, <1>4, <2>1 DEF CreateTask, Purging
  <1>5. ASSUME NEW o \in Owners, NEW c \in Ids, CancelTask(o, c)
        PROVE  wait'[w].woken
    <2>1. CASE Visible(o, c) /\ Works(c)
      <3>1. wait' = Notified(purged \cup {c})
        BY <1>5, <2>1 DEF CancelTask
      <3>2. CASE t = c
        BY <1>1, <3>1, <3>2
      <3>3. CASE t # c
        <4>1. entry'[t] = AfterPurge[t]
          BY <1>0, <1>5, <2>1, <3>3, AfterPurgeType DEF CancelTask
        <4>2. t \in purged
          BY <1>0, <4>1, AfterPurgeType DEF Works
        <4>. QED
          BY <1>1, <3>1, <4>2
      <3>. QED
        BY <3>2, <3>3
    <2>. QED
      BY <1>3, <1>5, <2>1 DEF CancelTask, Purge, Purging
  <1>6. ASSUME NEW c \in Ids, WorkEnds(c)
        PROVE  wait'[w].woken
    <2>1. PICK outcome \in {"value", "error"} : Record(c, outcome)
      BY <1>6 DEF WorkEnds
    <2>2. CASE t = c
      BY <1>0, <1>1, <2>1, <2>2 DEF Record
    <2>3. CASE t # c
      BY <1>0, <2>1, <2>3 DEF Record, Works
    <2>. QED
      BY <2>2, <2>3
  <1>7. ASSUME NEW v \in Waiters, Look(v)
        PROVE  wait'[w].woken
    <2>1. v # w /\ Purging
      BY <1>0, <1>7 DEF Look, Purging
    <2>2. wait'[w] = Notified(purged)[w]
      BY <1>0, <1>7, <2>1, NotifiedType DEF Look
    <2>. QED
      BY <1>1, <1>2, <2>1, <2>2
  <1>8. entry' # entry
    BY <1>0 DEF Works
  <1>. QED
    BY <1>3, <1>4, <1>5, <1>6, <1>7, <1>8 DEF LegacyTasksNext, legacyTaskVars, Begin, AskResult,
       WorkStops, Expires, WakeUp, GetTask, NextPage, Purge, Purging

\* Whatever the step, a request asks about a task that was made and has the
\* answer it may have, and is awake if its task has ended.
LEMMA WaitCourseSteps ==
  ASSUME LegacyInv, [LegacyTasksNext]_legacyTaskVars, NEW w \in Waiters
  PROVE  WaitCourse(w)'
  <1>0. /\ MaxTasks \in Nat /\ made \in 0..MaxTasks /\ made' \in 0..MaxTasks
        /\ made' = made \/ made' = made + 1
    BY LegacyTasksAssumption, EntrySteps DEF LegacyInv, LegacyShape, LegacyTasksAssumption
  <1>a. \A k \in 1..made : k \in 1..made' /\ k \in Ids
    BY <1>0 DEF Ids
  <1>b. \A t \in Ids : TaskCourse(t) /\ EntryMoves(t) /\ entry[t] \in EntryRecord
    BY EntrySteps DEF LegacyInv, LegacyShape
  <1>c. WaitCourse(w) /\ LegacyShape
    BY DEF LegacyInv
  <1>d. ASSUME NEW t \in 1..made
        PROVE  t \in 1..made' /\ TaskCourse(t) /\ EntryMoves(t) /\ entry[t].status # "none"
               /\ entry[t] \in EntryRecord /\ t \in Ids
    <2>1. t <= made /\ t \in Ids /\ t \in 1..made'
      BY <1>0, <1>a
    <2>. QED
      BY <1>b, <2>1 DEF TaskCourse
  <1>1. CASE WaitKept(w)
    <2>1. CASE wait[w].at = "idle"
      BY <1>1, <2>1 DEF WaitCourse, WaitKept
    <2>2. CASE wait[w].at # "idle"
      <3>. DEFINE t == wait[w].task
      <3>1. t \in Ids /\ t \in 1..made /\ entry[t].status # "none" /\ EntryMoves(t)
            /\ wait'[w].task = t /\ t \in 1..made'
        BY <1>1, <1>c, <1>d, <2>2 DEF WaitCourse, WaitKept
      <3>1a. wait'[w].at = "waiting" => entry'[t].status = "working" \/ wait'[w].woken
        BY <1>1, <1>c, <3>1, EndsWake DEF WaitCourse, WaitKept, Works
      <3>. HIDE DEF t
      <3>2. CASE entry'[t] = entry[t]
        BY <1>1, <1>c, <3>1, <3>1a, <3>2 DEF WaitCourse, WaitKept, InStore, Works
      <3>3. CASE entry'[t].status = "gone"
        BY <1>1, <1>c, <3>1, <3>1a, <3>3 DEF WaitCourse, WaitKept, InStore, Works
      <3>4. CASE Works(t) /\ entry'[t].status \in Ended /\ entry'[t].owner = entry[t].owner
        BY <1>1, <1>c, <3>1, <3>1a, <3>4 DEF WaitCourse, WaitKept, Works, Ended
      <3>. QED
        BY <3>1, <3>2, <3>3, <3>4 DEF EntryMoves, Absent
    <2>. QED
      BY <2>1, <2>2
  <1>2. CASE WaitStarts(w)
    BY <1>2, <1>a DEF WaitStarts, WaitCourse
  <1>3. CASE Look(w)
    <2>. DEFINE t == wait[w].task
                s == IF ~Visible(AskerOf[w], t) THEN "not found"
                     ELSE IF Works(t) THEN "none" ELSE entry[t].outcome
    <2>1. /\ wait[w].at = "look" /\ Purging /\ t \in Ids /\ t \in 1..made
          /\ TaskCourse(t) /\ entry[t] \in EntryRecord /\ entry[t].status # "none"
      BY <1>3, <1>c, <1>d DEF Look, Purging, WaitCourse
    <2>2. wait'[w].got = s /\ wait'[w].at = (IF s = "none" THEN "waiting" ELSE "returned")
          /\ wait'[w].task = t
      <3>1. Notified({u \in overdue : InStore(u)}) \in [Waiters -> WaitRecord]
            /\ Notified({u \in overdue : InStore(u)})[w].task = t
        BY <1>c, NotifiedType
      <3>. QED
        BY <1>3, <3>1 DEF Look, WaitRecord
    <2>3. entry'[t] = (IF InStore(t) /\ t \in overdue THEN Absent ELSE entry[t]) /\ t \in 1..made'
      BY <1>d, <2>1 DEF Purging, AfterPurge
    <2>4. CASE ~Visible(AskerOf[w], t)
      <3>1. s = "not found"
        BY <2>4
      <3>2. entry'[t].status = "gone" \/ entry'[t].owner # AskerOf[w]
        BY <2>1, <2>3, <2>4 DEF Visible, Left, InStore, Absent
      <3>3. wait'[w].at = "returned" /\ wait'[w].got = "not found"
        BY <2>2, <3>1
      <3>. QED
        BY <2>2, <2>3, <3>2, <3>3 DEF WaitCourse
    <2>5. CASE Visible(AskerOf[w], t) /\ Works(t)
      <3>1. wait'[w].at = "waiting" /\ entry'[t] = entry[t]
        BY <2>2, <2>3, <2>5 DEF Visible, Left
      <3>. QED
        BY <2>2, <2>3, <2>5, <3>1 DEF WaitCourse, Works
    <2>6. CASE Visible(AskerOf[w], t) /\ ~Works(t)
      <3>1. entry'[t] = entry[t] /\ s = entry[t].outcome
        BY <2>3, <2>6 DEF Visible, Left
      <3>2. entry[t].outcome \in Outcomes
        BY <2>1, <2>6 DEF Visible, Left, InStore, Works, TaskCourse, EntryRecord
      <3>. QED
        BY <2>2, <2>3, <2>6, <3>1, <3>2 DEF WaitCourse, Works, InStore, Outcomes
    <2>. QED
      BY <2>4, <2>5, <2>6
  <1>4. CASE WakeUp(w)
    <2>. DEFINE t == wait[w].task
    <2>1. /\ wait[w].at = "waiting" /\ entry' = entry /\ t \in 1..made /\ t \in 1..made'
          /\ entry[t].status # "none" /\ wait'[w].task = t
          /\ wait'[w].at = (IF InStore(t) THEN "look" ELSE "returned")
          /\ wait'[w].got = (IF InStore(t) THEN "none" ELSE "not found")
      BY <1>4, <1>c, <1>d DEF WakeUp, WaitCourse, LegacyShape, WaitRecord
    <2>. QED
      BY <2>1 DEF WaitCourse, InStore
  <1>. QED
    BY <1>1, <1>2, <1>3, <1>4, WaitSteps

-----------------------------------------------------------------------------
\* A call that runs on has a task that works, or its token has fired.
LEMMA WorkSteps ==
  ASSUME LegacyInv, [LegacyTasksNext]_legacyTaskVars, NEW t
  PROVE  /\ work' \in [Ids -> {"none", "running", "ended"}]
         /\ signalled' \subseteq Ids /\ overdue' \subseteq Ids
         /\ t \in Ids => (work'[t] = "running" => Works(t)' \/ t \in signalled')
  <1>. DEFINE Types == /\ work' \in [Ids -> {"none", "running", "ended"}]
                       /\ signalled' \subseteq Ids /\ overdue' \subseteq Ids
              Told == t \in Ids /\ work'[t] = "running" => Works(t)' \/ t \in signalled'
  <1>0. /\ LegacyShape /\ work \in [Ids -> {"none", "running", "ended"}]
        /\ signalled \subseteq Ids /\ overdue \subseteq Ids /\ entry \in [Ids -> EntryRecord]
    BY DEF LegacyInv, LegacyShape
  <1>1. t \in Ids /\ work[t] = "running" => Works(t) \/ t \in signalled
    BY DEF LegacyInv, TaskCourse
  <1>2. ASSUME Purging, work' = work, overdue' = overdue
        PROVE  Types /\ Told
    <2>1. Types
      BY <1>0, <1>2, AfterPurgeType DEF Purging
    <2>2. CASE InStore(t) /\ t \in overdue
      BY <1>0, <1>1, <1>2, <2>2 DEF Purging, Signals
    <2>3. CASE ~(InStore(t) /\ t \in overdue)
      <3>1. t \in Ids => entry'[t] = entry[t]
        BY <1>0, <1>2, <2>3, AfterPurgeType DEF Purging
      <3>. QED
        BY <1>0, <1>1, <1>2, <3>1 DEF Purging, Signals, Works
    <2>. QED
      BY <2>1, <2>2, <2>3
  <1>3. CASE CreateTask
    <2>1. CASE entry' = AfterPurge /\ work' = work
      BY <1>2, <1>3, <2>1 DEF CreateTask, Purging
    <2>2. CASE /\ made < MaxTasks
               /\ entry' = [AfterPurge EXCEPT ![made + 1] =
                    [status |-> "working", owner |-> MakerOf[made + 1], outcome |-> "none"]]
               /\ work' = [work EXCEPT ![made + 1] = "running"]
      <3>1. made + 1 \in Ids
        BY <2>2, LegacyTasksAssumption DEF LegacyInv, LegacyShape, Ids, LegacyTasksAssumption
      <3>2. signalled' = Signals /\ overdue' = overdue
        BY <1>3 DEF CreateTask
      <3>3. Types
        BY <1>0, <2>2, <3>2, AfterPurgeType
      <3>4. CASE t = made + 1
        BY <1>0, <2>2, <3>1, <3>3, <3>4, AfterPurgeType DEF Works
      <3>5. CASE t # made + 1
        <4>1. work'[t] = work[t] /\ entry'[t] = AfterPurge[t]
          BY <1>0, <2>2, <3>1, <3>5, AfterPurgeType
        <4>2. CASE InStore(t) /\ t \in overdue
          BY <1>0, <1>1, <3>2, <3>3, <4>1, <4>2 DEF Signals
        <4>3. CASE ~(InStore(t) /\ t \in overdue)
          BY <1>0, <1>1, <3>2, <3>3, <4>1, <4>3, AfterPurgeType DEF Signals, Works
        <4>. QED
          BY <4>2, <4>3
      <3>. QED
        BY <3>3, <3>4, <3>5
    <2>. QED
      BY <1>3, <2>1, <2>2 DEF CreateTask
  <1>4. ASSUME NEW o \in Owners, NEW c \in Ids, CancelTask(o, c), Visible(o, c) /\ Works(c)
        PROVE  Types /\ Told
    <2>1. /\ signalled' = Signals \cup {c} /\ work' = work /\ overdue' = overdue
          /\ entry' = [AfterPurge EXCEPT ![c].status = "cancelled", ![c].outcome = "cancelled"]
      BY <1>4 DEF CancelTask
    <2>2. Types
      BY <1>0, <2>1, AfterPurgeType
    <2>3. CASE t = c
      BY <2>1, <2>2, <2>3
    <2>4. CASE t # c
      <3>1. t \in Ids => entry'[t] = AfterPurge[t]
        BY <1>0, <2>1, <2>4, AfterPurgeType
      <3>2. CASE InStore(t) /\ t \in overdue
        BY <1>0, <1>1, <2>1, <3>2 DEF Signals
      <3>3. CASE ~(InStore(t) /\ t \in overdue)
        BY <1>0, <1>1, <2>1, <3>1, <3>3, AfterPurgeType DEF Signals, Works
      <3>. QED
        BY <3>2, <3>3
    <2>. QED
      BY <2>2, <2>3, <2>4
  <1>5. ASSUME NEW c \in Ids, WorkEnds(c) \/ WorkStops(c)
        PROVE  Types /\ Told
    <2>1. work' = [work EXCEPT ![c] = "ended"] /\ UNCHANGED <<signalled, overdue>>
      BY <1>5 DEF WorkEnds, WorkStops
    <2>2. CASE t = c
      BY <1>0, <2>1, <2>2
    <2>3. CASE t # c
      <3>1. t \in Ids => entry'[t] = entry[t]
        <4>1. entry' = entry \/ \E outcome \in {"value", "error"} :
                entry' = [entry EXCEPT ![c].outcome = outcome,
                            ![c].status = IF outcome = "value" THEN "completed" ELSE "failed"]
          BY <1>5 DEF WorkEnds, WorkStops, Record
        <4>. QED
          BY <1>0, <2>3, <4>1
      <3>. QED
        BY <1>0, <1>1, <2>1, <2>3, <3>1 DEF Works
    <2>. QED
      BY <2>2, <2>3
  <1>6. ASSUME entry' = entry, work' = work, signalled' = signalled, overdue' \subseteq Ids
        PROVE  Types /\ Told
    BY <1>0, <1>1, <1>6 DEF Works
  <1>7. \/ CreateTask
        \/ \E o \in Owners, c \in Ids : CancelTask(o, c) /\ Visible(o, c) /\ Works(c)
        \/ \E c \in Ids : WorkEnds(c) \/ WorkStops(c)
        \/ Purging /\ work' = work /\ overdue' = overdue
        \/ entry' = entry /\ work' = work /\ signalled' = signalled /\ overdue' \subseteq Ids
    BY <1>0 DEF LegacyTasksNext, legacyTaskVars, Begin, AskResult, CancelTask,
       Expires, Look, WakeUp, GetTask, NextPage, Purge, Purging
  <1>. QED
    BY <1>2, <1>3, <1>4, <1>5, <1>6, <1>7

\* Tasks are only added below the capacity.
LEMMA LegacyCapacitySteps ==
  ASSUME LegacyInv, [LegacyTasksNext]_legacyTaskVars
  PROVE  LegacyFits'
  <1>. DEFINE Now == {t \in Ids : InStore(t)}
              Then == {t \in Ids : InStore(t)'}
              Stay == {t \in Ids : Left(t)}
  <1>1. /\ IsFiniteSet(Now) /\ IsFiniteSet(Then) /\ IsFiniteSet(Stay)
        /\ Cardinality(Now) <= TaskCapacity /\ TaskCapacity \in Nat
    <2>1. IsFiniteSet(Ids)
      BY LegacyTasksAssumption, FS_Interval DEF Ids, LegacyTasksAssumption
    <2>. QED
      BY <2>1, LegacyTasksAssumption, FS_Subset DEF LegacyTasksAssumption, LegacyInv, LegacyFits
  <1>2. CASE Then \subseteq Now
    <2>1. Cardinality(Then) <= Cardinality(Now) /\ Cardinality(Then) \in Nat /\ Cardinality(Now) \in Nat
      BY <1>1, <1>2, FS_Subset, FS_CardinalityType
    <2>. QED
      BY <1>1, <2>1 DEF LegacyFits
  <1>3. CASE CreateTask /\ Cardinality(Stay) < TaskCapacity
    <2>. DEFINE n == made + 1
    <2>1. Then \subseteq Stay \cup {n}
      <3>1. ASSUME NEW t \in Ids, t # n, InStore(t)'
            PROVE  Left(t)
        <4>1. entry'[t] = AfterPurge[t]
          <5>1. entry' = [AfterPurge EXCEPT ![n] =
                        [status |-> "working", owner |-> MakerOf[n], outcome |-> "none"]]
            BY <1>3 DEF CreateTask
          <5>2. AfterPurge \in [Ids -> EntryRecord]
            BY AfterPurgeType DEF LegacyInv
          <5>. QED
            BY <3>1, <5>1, <5>2
        <4>. QED
          BY <3>1, <4>1 DEF AfterPurge, Left, InStore, Absent
      <3>. QED
        BY <3>1
    <2>2. IsFiniteSet(Stay \cup {n}) /\ Cardinality(Stay \cup {n}) <= Cardinality(Stay) + 1
          /\ Cardinality(Stay) \in Nat /\ Cardinality(Stay \cup {n}) \in Nat
      <3>. HIDE DEF Stay, n
      <3>1. Cardinality(Stay) \in Nat
        BY <1>1, FS_CardinalityType
      <3>2. /\ IsFiniteSet(Stay \cup {n})
            /\ Cardinality(Stay \cup {n}) = Cardinality(Stay)
               \/ Cardinality(Stay \cup {n}) = Cardinality(Stay) + 1
        BY <1>1, FS_AddElement
      <3>. QED
        BY <3>1, <3>2
    <2>3. Cardinality(Then) <= Cardinality(Stay \cup {n}) /\ Cardinality(Then) \in Nat
      BY <1>1, <2>1, <2>2, FS_Subset, FS_CardinalityType
    <2>. QED
      BY <1>1, <1>3, <2>2, <2>3 DEF LegacyFits
  <1>4. CASE ~(CreateTask /\ Cardinality(Stay) < TaskCapacity)
    <2>1. ASSUME NEW t \in Ids, InStore(t)', ~InStore(t)
          PROVE  FALSE
      <3>1. EntryMoves(t)
        BY EntrySteps
      <3>2. made' = made + 1
        BY <2>1, <3>1, LegacyTasksAssumption DEF EntryMoves, InStore, Works, Absent
      <3>3. made' # made
        BY <3>2, LegacyTasksAssumption DEF LegacyInv, LegacyShape, LegacyTasksAssumption
      <3>4. CreateTask
        BY <3>3 DEF LegacyTasksNext, legacyTaskVars, Begin, AskResult, WorkStops, CancelTask,
           WorkEnds, Expires, Look, WakeUp, GetTask, NextPage
      <3>. QED
        BY <1>4, <3>3, <3>4 DEF CreateTask
    <2>. QED
      BY <1>2, <2>1
  <1>. QED
    BY <1>3, <1>4

\* What the next page is taken from.
All == {t \in Ids : Visible(listing.owner, t)}

\* The next page: the tasks with at least offset and fewer than offset + PageSize
\* tasks before them.
LEMMA PageAdded ==
  ASSUME LegacyInv, NextPage
  PROVE  \E page \in SUBSET All :
           /\ \A t \in All : t \in page <=> /\ listing.offset <= Rank(All, t)
                                           /\ Rank(All, t) < listing.offset + PageSize
           /\ Cardinality(page) \in Nat
           /\ listing' = [listing EXCEPT !.pages = Append(listing.pages, page),
                !.offset = listing.offset + Cardinality(page),
                !.at = IF listing.offset + Cardinality(page) < Cardinality(All)
                       THEN "next" ELSE "whole"]
  <1>. DEFINE page == {t \in All : /\ listing.offset <= Cardinality(Older(listing.owner, t))
                                  /\ Cardinality(Older(listing.owner, t)) < listing.offset + PageSize}
  <1>1. \A t \in All : Older(listing.owner, t) = Before(All, t)
    BY DEF Older, Before, All
  <1>2. \A t \in All : t \in page <=> /\ listing.offset <= Rank(All, t)
                                      /\ Rank(All, t) < listing.offset + PageSize
    BY <1>1 DEF Rank
  <1>3. page \in SUBSET All
    OBVIOUS
  <1>4. listing' = [listing EXCEPT !.pages = Append(listing.pages, page),
                !.offset = listing.offset + Cardinality(page),
                !.at = IF listing.offset + Cardinality(page) < Cardinality(All)
                       THEN "next" ELSE "whole"]
    BY DEF NextPage, All
  <1>. HIDE DEF page
  <1>5. Cardinality(page) \in Nat
    <2>1. MaxTasks \in Nat /\ All \in SUBSET (1..MaxTasks)
      BY LegacyTasksAssumption DEF LegacyTasksAssumption, All, Ids
    <2>. QED
      BY <1>3, <2>1, Counted
  <1>. QED
    BY <1>2, <1>3, <1>4, <1>5

\* The listing stays one.
LEMMA ListingSteps ==
  ASSUME LegacyInv, [LegacyTasksNext]_legacyTaskVars
  PROVE  listing' \in ListRecord
  <1>0. listing \in ListRecord
    BY DEF LegacyInv, LegacyShape
  <1>1. CASE listing' = listing
    BY <1>0, <1>1
  <1>2. ASSUME NEW o \in Owners, Begin(o)
        PROVE  listing' \in ListRecord
    BY <1>2 DEF Begin, ListRecord
  <1>3. CASE NextPage
    <2>1. PICK page \in SUBSET All :
            /\ Cardinality(page) \in Nat
            /\ listing' = [listing EXCEPT !.pages = Append(listing.pages, page),
                 !.offset = listing.offset + Cardinality(page),
                 !.at = IF listing.offset + Cardinality(page) < Cardinality(All)
                        THEN "next" ELSE "whole"]
      BY <1>3, PageAdded
    <2>2. page \in SUBSET Ids
      BY DEF All
    <2>3. Append(listing.pages, page) \in Seq(SUBSET Ids) /\ listing.offset + Cardinality(page) \in Nat
      BY <1>0, <2>1, <2>2 DEF ListRecord
    <2>. QED
      BY <1>0, <2>1, <2>3 DEF ListRecord
  <1>. QED
    BY <1>1, <1>2, <1>3 DEF LegacyTasksNext, legacyTaskVars, CreateTask, AskResult, WorkStops,
       CancelTask, WorkEnds, Expires, Look, WakeUp, GetTask, Purge

\* The invariant holds in every state.
LEMMA LegacyInvHolds == LegacyTasksSpec => []LegacyInv
  <1>1. LegacyTasksInit => LegacyInv
    <2>. SUFFICES ASSUME LegacyTasksInit PROVE LegacyInv
      OBVIOUS
    <2>1. LegacyFits
      <3>1. {t \in Ids : InStore(t)} = {}
        BY DEF LegacyTasksInit, InStore, NoTask
      <3>2. Cardinality({}) = 0 /\ 0 <= TaskCapacity
        BY FS_EmptySet, LegacyTasksAssumption DEF LegacyTasksAssumption
      <3>. QED
        BY <3>1, <3>2 DEF LegacyFits
    <2>2. LegacyShape
      <3>1. NoTask \in EntryRecord /\ NotWaiting \in WaitRecord
        BY DEF NoTask, NotWaiting, EntryRecord, WaitRecord
      <3>2. listing \in ListRecord
        BY DEF LegacyTasksInit, NotListing, ListRecord
      <3>3. made \in 0..MaxTasks
        BY LegacyTasksAssumption DEF LegacyTasksInit, LegacyTasksAssumption
      <3>. QED
        BY <3>1, <3>2, <3>3 DEF LegacyTasksInit, LegacyShape
    <2>3. ASSUME NEW t \in Ids PROVE TaskCourse(t)
      <3>1. ~(t <= made)
        BY LegacyTasksAssumption DEF LegacyTasksInit, Ids, LegacyTasksAssumption
      <3>. QED
        BY <3>1 DEF LegacyTasksInit, TaskCourse, NoTask, Ended
    <2>4. ASSUME NEW w \in Waiters PROVE WaitCourse(w)
      BY DEF LegacyTasksInit, WaitCourse, NotWaiting
    <2>. QED
      BY <2>1, <2>2, <2>3, <2>4 DEF LegacyInv
  <1>2. LegacyInv /\ [LegacyTasksNext]_legacyTaskVars => LegacyInv'
    <2>. SUFFICES ASSUME LegacyInv, [LegacyTasksNext]_legacyTaskVars PROVE LegacyInv'
      OBVIOUS
    <2>1. LegacyShape'
      <3>1. /\ work' \in [Ids -> {"none", "running", "ended"}]
            /\ signalled' \subseteq Ids /\ overdue' \subseteq Ids
        BY WorkSteps
      <3>. QED
        BY <3>1, EntrySteps, WaitSteps, ListingSteps DEF LegacyShape
    <2>2. ASSUME NEW t \in Ids PROVE TaskCourse(t)'
      <3>1. /\ TaskCourse(t) /\ EntryMoves(t) /\ entry' \in [Ids -> EntryRecord]
            /\ made' = made \/ (made' = made + 1 /\ entry'[made'].status = "working")
            /\ work'[t] = "running" => Works(t)' \/ t \in signalled'
        BY EntrySteps, WorkSteps DEF LegacyInv
      <3>2. t \in Nat /\ made \in Nat
        BY LegacyTasksAssumption DEF Ids, LegacyInv, LegacyShape, LegacyTasksAssumption
      <3>3. t <= made' <=> entry'[t].status # "none"
        <4>1. CASE t = made + 1 /\ made' = made + 1
          BY <3>1, <3>2, <4>1
        <4>2. CASE ~(t = made + 1 /\ made' = made + 1)
          <5>1. t <= made' <=> t <= made
            BY <3>1, <3>2, <4>2
          <5>2. entry'[t].status # "none" <=> entry[t].status # "none"
            BY <3>1, <4>2 DEF EntryMoves, Absent, InStore, Works, Ended
          <5>. QED
            BY <3>1, <5>1, <5>2 DEF TaskCourse
        <4>. QED
          BY <4>1, <4>2
      <3>4. entry'[t].status \in Ended => entry'[t].outcome \in Outcomes
        BY <3>1 DEF EntryMoves, TaskCourse, Absent, Ended
      <3>. QED
        BY <3>1, <3>3, <3>4 DEF TaskCourse
    <2>. QED
      BY <2>1, <2>2, LegacyCapacitySteps, WaitCourseSteps DEF LegacyInv
  <1>. QED
    BY <1>1, <1>2, PTL DEF LegacyTasksSpec

-----------------------------------------------------------------------------
(* The pages of tasks/list.                                                 *)

\* What the listing has gone past: the tasks of its owner up to those it showed,
\* and up to those that were there when it began, once it is whole.
Far == IF listing.at = "whole" THEN Shown \cup listing.present ELSE Shown
Reached == {t \in Ids : InStore(t) /\ entry[t].owner = listing.owner /\ \E u \in Far : t <= u}

PagesInOrder ==
    \A i, j \in DOMAIN listing.pages :
        i < j => \A t \in listing.pages[i], u \in listing.pages[j] : t < u

\* The offset counts what was shown, and no more is left behind than it counts.
ListCourse ==
    /\ listing.at = "idle" => listing = NotListing
    /\ Shown \cup listing.present \subseteq 1..made
    /\ \A t \in Shown \cup listing.present : InStore(t) => entry[t].owner = listing.owner
    /\ listing.offset = Cardinality(Shown)
    /\ PagesInOrder
    /\ Cardinality(Reached) <= Cardinality(Shown)

\* The sets of tasks are bounded.
LEMMA ListedAreTasks ==
  ASSUME LegacyInv
  PROVE  /\ MaxTasks \in Nat /\ Ids = 1..MaxTasks /\ made \in 0..MaxTasks
         /\ Shown \in SUBSET Ids /\ listing.present \in SUBSET Ids
         /\ Reached \in SUBSET Ids /\ All \in SUBSET Ids
         /\ listing \in ListRecord
  BY LegacyTasksAssumption
     DEF LegacyTasksAssumption, LegacyInv, LegacyShape, Ids, ListRecord, Shown, Reached, All

\* What is in the store after a step was there before or is new.
LEMMA StillThere ==
  ASSUME LegacyInv, [LegacyTasksNext]_legacyTaskVars, NEW t \in Ids, InStore(t)', t <= made
  PROVE  InStore(t) /\ entry'[t].owner = entry[t].owner
  <1>1. EntryMoves(t) /\ made \in Nat /\ t \in Nat
    BY EntrySteps, ListedAreTasks
  <1>. QED
    BY <1>1 DEF EntryMoves, InStore, Works, Absent

\* A step that leaves the listing alone.
LEMMA ListingRests ==
  ASSUME LegacyInv, ListCourse, [LegacyTasksNext]_legacyTaskVars, listing' = listing
  PROVE  ListCourse'
  <1>1. Shown' = Shown /\ Far' = Far /\ PagesInOrder' = PagesInOrder
    BY DEF Shown, Far, PagesInOrder
  <1>2. Shown \cup listing.present \subseteq Ids /\ Shown \cup listing.present \subseteq 1..made
    BY ListedAreTasks DEF ListCourse
  <1>3. Shown' \cup listing'.present \subseteq 1..made'
    <2>1. made \in Nat /\ made' \in Nat /\ made <= made'
      BY EntrySteps, ListedAreTasks
    <2>. QED
      BY <1>1, <1>2, <2>1
  <1>4. ASSUME NEW t \in Shown' \cup listing'.present, InStore(t)'
        PROVE  entry'[t].owner = listing'.owner
    <2>1. t \in Shown \cup listing.present /\ t \in Ids /\ t <= made
      BY <1>1, <1>2, <1>4
    <2>. QED
      BY <1>4, <2>1, StillThere DEF ListCourse
  <1>5. Reached' \subseteq Reached
    <2>. SUFFICES ASSUME NEW t \in Ids, InStore(t)', entry'[t].owner = listing'.owner,
                         NEW u \in Far', t <= u
                  PROVE  t \in Reached
      BY DEF Reached
    <2>1. u \in Far /\ u \in 1..made
      BY <1>1, <1>2 DEF Far
    <2>2. t <= made
      BY <2>1, ListedAreTasks
    <2>. QED
      BY <2>1, <2>2, StillThere DEF Reached
  <1>6. Cardinality(Reached') <= Cardinality(Shown')
    <2>1. Cardinality(Reached') <= Cardinality(Reached) /\ Cardinality(Reached') \in Nat
          /\ Cardinality(Reached) \in Nat /\ Cardinality(Shown) \in Nat
      BY <1>5, ListedAreTasks, Counted
    <2>. QED
      BY <1>1, <2>1 DEF ListCourse
  <1>. QED
    BY <1>1, <1>3, <1>4, <1>6 DEF ListCourse

\* A listing begins with nothing shown.
LEMMA ListingBegins ==
  ASSUME LegacyInv, ListCourse, NEW o \in Owners, Begin(o)
  PROVE  ListCourse'
  <1>1. /\ listing' = [at |-> "next", owner |-> o, offset |-> 0, pages |-> <<>>,
                       present |-> {t \in Ids : Visible(o, t)}]
        /\ UNCHANGED <<made, entry>>
    BY DEF Begin
  <1>2. Shown' = {} /\ Far' = {} /\ PagesInOrder' /\ Reached' = {}
    BY <1>1 DEF Shown, Far, PagesInOrder, Reached
  <1>3. \A t \in Ids : Visible(o, t) => t <= made /\ InStore(t) /\ entry[t].owner = o
    BY DEF LegacyInv, TaskCourse, Visible, Left, InStore
  <1>4. Cardinality({}) = 0
    BY FS_EmptySet
  <1>. QED
    BY <1>1, <1>2, <1>3, <1>4, ListedAreTasks DEF ListCourse, InStore

\* The next page: the tasks of the session with as many before them as were shown.
LEMMA ListingGoesOn ==
  ASSUME LegacyInv, ListCourse, NextPage
  PROVE  ListCourse'
  <1>1. PICK page \in SUBSET All :
           /\ \A t \in All : t \in page <=> /\ listing.offset <= Rank(All, t)
                                           /\ Rank(All, t) < listing.offset + PageSize
           /\ Cardinality(page) \in Nat
           /\ listing' = [listing EXCEPT !.pages = Append(listing.pages, page),
                !.offset = listing.offset + Cardinality(page),
                !.at = IF listing.offset + Cardinality(page) < Cardinality(All)
                       THEN "next" ELSE "whole"]
    BY PageAdded
  <1>2. listing.at = "next" /\ entry' = AfterPurge /\ made' = made
    BY DEF NextPage, Purge
  <1>3. \A t \in Ids : InStore(t)' <=> Left(t)
    BY <1>2, AfterPurgeType DEF LegacyInv, InStore, Left, Absent
  <1>4. \A t \in Ids : Left(t) => entry'[t] = entry[t] /\ InStore(t) /\ t <= made
    BY <1>2, AfterPurgeType DEF LegacyInv, TaskCourse, InStore, Left
  <1>5. /\ listing'.at \in {"next", "whole"} /\ listing'.owner = listing.owner
        /\ listing'.present = listing.present
        /\ listing'.offset = listing.offset + Cardinality(page)
        /\ listing'.pages = Append(listing.pages, page)
        /\ listing'.at = "whole" => ~(listing'.offset < Cardinality(All))
    BY <1>1, ListedAreTasks DEF ListRecord
  <1>6. /\ DOMAIN listing'.pages = DOMAIN listing.pages \cup {Len(listing.pages) + 1}
        /\ listing'.pages[Len(listing.pages) + 1] = page
        /\ \A i \in DOMAIN listing.pages :
             /\ listing'.pages[i] = listing.pages[i] /\ i < Len(listing.pages) + 1
             /\ ~(Len(listing.pages) + 1 < i)
        /\ ~(Len(listing.pages) + 1 < Len(listing.pages) + 1)
    <2>1. listing.pages \in Seq(SUBSET Ids) /\ page \in SUBSET Ids
      BY ListedAreTasks DEF ListRecord
    <2>. QED
      BY <1>5, <2>1
  <1>7. Shown' = Shown \cup page
    BY <1>6 DEF Shown
  <1>8. /\ \A t \in page, s \in Shown : s < t
        /\ Cardinality(Shown \cup page) = Cardinality(Shown) + Cardinality(page)
        /\ Cardinality(UpTo(All, Shown \cup page)) <= Cardinality(Shown \cup page)
    <2>1. MaxTasks \in Nat /\ Ids = 1..MaxTasks /\ PageSize \in Nat
          /\ All \in SUBSET (1..MaxTasks) /\ Shown \in SUBSET (1..MaxTasks)
          /\ Reached \in SUBSET (1..MaxTasks)
      BY ListedAreTasks, LegacyTasksAssumption DEF LegacyTasksAssumption
    <2>2. UpTo(All, Shown) \in SUBSET Reached
      BY <1>2, ListedAreTasks DEF UpTo, All, Visible, Left, Reached, Far
    <2>3. Cardinality(UpTo(All, Shown)) <= Cardinality(Shown)
      <3>1. Cardinality(UpTo(All, Shown)) <= Cardinality(Reached)
            /\ Cardinality(UpTo(All, Shown)) \in Nat /\ Cardinality(Reached) \in Nat
            /\ Cardinality(Shown) \in Nat
        BY <2>1, <2>2, Counted
      <3>. QED
        BY <3>1 DEF ListCourse
    <2>4. \A t \in All : t \in page <=> /\ Cardinality(Shown) <= Rank(All, t)
                                        /\ Rank(All, t) < Cardinality(Shown) + PageSize
      BY <1>1 DEF ListCourse
    <2>. QED
      BY <2>1, <2>3, <2>4, PageFollows
  <1>9. PagesInOrder'
    <2>. SUFFICES ASSUME NEW i \in DOMAIN listing'.pages, NEW j \in DOMAIN listing'.pages, i < j,
                         NEW t \in listing'.pages[i], NEW u \in listing'.pages[j]
                  PROVE  t < u
      BY DEF PagesInOrder
    <2>1. i \in DOMAIN listing.pages /\ t \in listing.pages[i]
      BY <1>6
    <2>2. CASE j \in DOMAIN listing.pages
      BY <1>6, <2>1, <2>2 DEF ListCourse, PagesInOrder
    <2>3. CASE j = Len(listing.pages) + 1
      BY <1>6, <1>8, <2>1, <2>3 DEF Shown
    <2>. QED
      BY <1>6, <2>2, <2>3
  <1>10. Shown' \cup listing'.present \subseteq 1..made'
    BY <1>2, <1>4, <1>5, <1>7, ListedAreTasks DEF ListCourse, All, Visible
  <1>11. ASSUME NEW t \in Shown' \cup listing'.present, InStore(t)'
         PROVE  entry'[t].owner = listing'.owner
    <2>1. t \in Ids /\ Left(t) /\ entry'[t] = entry[t] /\ InStore(t)
      BY <1>3, <1>4, <1>5, <1>7, <1>11, ListedAreTasks
    <2>. QED
      BY <1>5, <1>7, <1>11, <2>1 DEF ListCourse, All, Visible
  <1>12. listing'.offset = Cardinality(Shown')
    BY <1>5, <1>7, <1>8 DEF ListCourse
  <1>13. Cardinality(Reached') <= Cardinality(Shown')
    <2>1. Reached' \subseteq All
      BY <1>3, <1>4, <1>5 DEF Reached, All, Visible
    <2>2. CASE listing'.at = "whole"
      <3>1. ~(Cardinality(Shown') < Cardinality(All))
        BY <1>5, <1>12, <2>2
      <3>2. /\ Cardinality(Reached') <= Cardinality(All) /\ Cardinality(Reached') \in Nat
            /\ Cardinality(All) \in Nat
        BY <2>1, ListedAreTasks, Counted
      <3>3. Cardinality(Shown') \in Nat
        BY <1>7, ListedAreTasks, Counted
      <3>. QED
        BY <3>1, <3>2, <3>3
    <2>3. CASE listing'.at # "whole"
      <3>1. Reached' \in SUBSET UpTo(All, Shown \cup page)
        BY <1>7, <2>1, <2>3 DEF Reached, Far, UpTo
      <3>2. /\ UpTo(All, Shown \cup page) \in SUBSET Ids
            /\ Shown \cup page \in SUBSET Ids
        BY ListedAreTasks DEF UpTo
      <3>3. /\ Cardinality(Reached') <= Cardinality(UpTo(All, Shown \cup page))
            /\ Cardinality(Reached') \in Nat
            /\ Cardinality(UpTo(All, Shown \cup page)) \in Nat
            /\ Cardinality(Shown \cup page) \in Nat
        BY <3>1, <3>2, ListedAreTasks, Counted
      <3>. QED
        BY <1>7, <1>8, <3>3
    <2>. QED
      BY <2>2, <2>3
  <1>. QED
    BY <1>5, <1>9, <1>10, <1>11, <1>12, <1>13 DEF ListCourse

\* The course of the listing is kept.
LEMMA ListCourseHolds == LegacyTasksSpec => []ListCourse
  <1>1. LegacyTasksInit => ListCourse
    <2>. SUFFICES ASSUME LegacyTasksInit PROVE ListCourse
      OBVIOUS
    <2>1. listing = NotListing /\ listing.pages = <<>> /\ listing.present = {}
          /\ listing.at = "idle" /\ listing.offset = 0
      BY DEF LegacyTasksInit, NotListing
    <2>2. Shown = {} /\ Far = {} /\ PagesInOrder
      BY <2>1 DEF Shown, Far, PagesInOrder
    <2>3. Reached = {}
      BY <2>2 DEF Reached
    <2>4. Cardinality({}) = 0
      BY FS_EmptySet
    <2>. QED
      BY <2>1, <2>2, <2>3, <2>4 DEF ListCourse
  <1>2. LegacyInv /\ ListCourse /\ [LegacyTasksNext]_legacyTaskVars => ListCourse'
    <2>. SUFFICES ASSUME LegacyInv, ListCourse, [LegacyTasksNext]_legacyTaskVars
                  PROVE  ListCourse'
      OBVIOUS
    <2>1. \/ listing' = listing \/ NextPage \/ \E o \in Owners : Begin(o)
      BY DEF LegacyTasksNext, legacyTaskVars, CreateTask, AskResult, WorkStops,
         CancelTask, WorkEnds, Expires, Look, WakeUp, GetTask, Purge
    <2>. QED
      BY <2>1, ListingRests, ListingBegins, ListingGoesOn
  <1>. QED
    BY <1>1, <1>2, LegacyInvHolds, PTL DEF LegacyTasksSpec

\* list, whose cursor is an offset: the pages follow one another, and at the end
\* no more tasks were skipped than were purged after they had been shown.
THEOREM ListingSkipsNoMoreThanWasPurged == LegacyTasksSpec => []PagesCover
  <1>1. LegacyInv /\ ListCourse => PagesCover
    <2>. SUFFICES ASSUME LegacyInv, ListCourse PROVE PagesCover
      OBVIOUS
    <2>1. ASSUME listing.at = "whole"
          PROVE  Cardinality({t \in listing.present \ Shown : InStore(t)})
                    <= Cardinality({t \in Shown : ~InStore(t)})
      <3>. DEFINE missed == {t \in listing.present \ Shown : InStore(t)}
                  purged == {t \in Shown : ~InStore(t)}
      <3>1. MaxTasks \in Nat /\ Ids = 1..MaxTasks /\ Shown \in SUBSET Ids
            /\ Reached \in SUBSET Ids /\ listing.present \in SUBSET Ids
        BY ListedAreTasks
      <3>2. /\ Reached \ Shown \in SUBSET Ids /\ purged \in SUBSET Ids
            /\ missed \in SUBSET (Reached \ Shown)
        <4>1. \A t \in Ids : t <= t
          BY <3>1
        <4>. QED
          BY <2>1, <3>1, <4>1 DEF ListCourse, Reached, Far
      <3>3. Shown \ Reached \in SUBSET purged
        <4>1. \A t \in Ids : t <= t
          BY <3>1
        <4>. QED
          BY <2>1, <3>1, <4>1 DEF ListCourse, Reached, Far
      <3>. HIDE DEF missed, purged
      <3>4. /\ IsFiniteSet(Shown) /\ IsFiniteSet(Reached)
            /\ Cardinality(Shown) \in Nat /\ Cardinality(Reached) \in Nat
            /\ Cardinality(Reached) <= Cardinality(Shown)
        BY <3>1, Counted DEF ListCourse
      <3>5. Cardinality(Reached \ Shown) = Cardinality(Reached) - Cardinality(Reached \cap Shown)
            /\ Cardinality(Shown \ Reached) = Cardinality(Shown) - Cardinality(Shown \cap Reached)
        BY <3>4, FS_Difference
      <3>6. /\ Cardinality(Shown \cap Reached) = Cardinality(Reached \cap Shown)
            /\ Cardinality(Reached \cap Shown) \in Nat
        <4>1. Shown \cap Reached = Reached \cap Shown
          OBVIOUS
        <4>. QED
          BY <3>4, <4>1, FS_Intersection, FS_CardinalityType
      <3>7. Cardinality(missed) <= Cardinality(Reached \ Shown)
            /\ Cardinality(missed) \in Nat
        BY <3>1, <3>2, Counted
      <3>8. Cardinality(Shown \ Reached) <= Cardinality(purged) /\ Cardinality(purged) \in Nat
        BY <3>1, <3>2, <3>3, Counted
      <3>9. Cardinality(missed) <= Cardinality(purged)
        <4>1. Cardinality(Reached \ Shown) <= Cardinality(Shown \ Reached)
              /\ Cardinality(Reached \ Shown) \in Int /\ Cardinality(Shown \ Reached) \in Int
          BY <3>4, <3>5, <3>6
        <4>. QED
          BY <3>7, <3>8, <4>1
      <3>. QED
        BY <3>9 DEF missed, purged
    <2>. QED
      BY <2>1 DEF PagesCover, ListCourse, PagesInOrder
  <1>. QED
    BY <1>1, LegacyInvHolds, ListCourseHolds, PTL

-----------------------------------------------------------------------------
\* The legacy store keeps its types and its capacity, the expired tasks counted.
THEOREM LegacyStoreIsTyped == LegacyTasksSpec => []LegacyTasksTypeOK
  <1>1. LegacyInv => LegacyTasksTypeOK
    BY DEF LegacyInv, LegacyShape, LegacyFits, LegacyTasksTypeOK, EntryRecord, WaitRecord,
           ListRecord
  <1>. QED
    BY <1>1, LegacyInvHolds, PTL

\* wait_result, complete, cancel: whoever asks for the result of a task is told
\* the same, and for good, and nobody sleeps through the end of a task.
THEOREM LegacyResultsAgree == LegacyTasksSpec => []ResultsAgree
  <1>1. LegacyInv => ResultsAgree
    BY DEF LegacyInv, WaitCourse, ResultsAgree, AnswersAgree, NoWakeUpIsLost
  <1>. QED
    BY <1>1, LegacyInvHolds, PTL

\* No call runs on for a task that ended or was purged without being told to stop.
THEOREM LegacyWorkIsNotLeftBehind == LegacyTasksSpec => []NoWorkLeftBehind
  <1>1. LegacyInv => NoWorkLeftBehind
    BY DEF LegacyInv, TaskCourse, NoWorkLeftBehind
  <1>. QED
    BY <1>1, LegacyInvHolds, PTL

\* The legacy store implements the life cycle of tasks.
THEOREM LegacyImplementsLifecycle == LegacyTasksSpec => LegacyFollowsLifecycle
  <1>1. LegacyTasksInit => LegacyLifecycle!Init
    BY DEF LegacyTasksInit, LegacyLifecycle!Init, NoTask
  <1>2. LegacyInv /\ [LegacyTasksNext]_legacyTaskVars =>
          [LegacyLifecycle!Next]_([t \in Ids |-> entry[t].status])
    <2>. SUFFICES ASSUME LegacyInv, [LegacyTasksNext]_legacyTaskVars
                  PROVE  LegacyLifecycle!Next
      OBVIOUS
    <2>1. ASSUME NEW t \in Ids
          PROVE  /\ entry'[t].status \in LegacyLifecycle!May(entry[t].status)
                 /\ entry'[t].status \in {"none", "gone", "working"} \cup Ended
      <3>1. /\ EntryMoves(t) /\ entry[t] \in EntryRecord /\ entry'[t] \in EntryRecord
        BY EntrySteps DEF LegacyInv, LegacyShape
      <3>. QED
        BY <3>1 DEF EntryMoves, EntryRecord, Absent, InStore, Works, Ended, LegacyLifecycle!May,
           LegacyLifecycle!Active, LegacyLifecycle!Terminal
    <2>. QED
      BY <2>1 DEF LegacyLifecycle!Next, Ended, LegacyLifecycle!Active, LegacyLifecycle!Terminal
  <1>. QED
    BY <1>1, <1>2, LegacyInvHolds, PTL
       DEF LegacyTasksSpec, LegacyFollowsLifecycle, LegacyLifecycle!Spec

-----------------------------------------------------------------------------
(* A server with one store or the other.                                    *)

\* Its steps are steps of its store.
LEMMA StoreSteps == FairStore => Spec /\ LegacyTasksSpec
  <1>1. StoreInit => Init /\ LegacyTasksInit
    BY DEF StoreInit
  <1>2. [StoreNext]_<<store, vars, legacyTaskVars>> =>
          [Next]_vars /\ [LegacyTasksNext]_legacyTaskVars
    BY DEF StoreNext, DraftStep, LegacyStep
  <1>3. FairStore => StoreInit /\ [][StoreNext]_<<store, vars, legacyTaskVars>>
    BY PTL DEF FairStore
  <1>. QED
    BY <1>1, <1>2, <1>3, PTL DEF Spec, LegacyTasksSpec

\* Neither store leaves work behind, when a task is cancelled or purged.
THEOREM WorkIsNotOrphaned == FairStore => []NoWorkIsOrphaned
  <1>1. NoOrphanedWork /\ NoWorkLeftBehind => NoWorkIsOrphaned
    BY DEF NoWorkIsOrphaned
  <1>. QED
    BY <1>1, StoreSteps, DraftWorkIsNotOrphaned, LegacyWorkIsNotLeftBehind, PTL

\* Both stores keep their types and their capacity.
THEOREM StoresAreTyped == FairStore => []StoresTypeOK
  <1>1. TypeOK /\ LegacyTasksTypeOK => StoresTypeOK
    BY DEF StoresTypeOK
  <1>. QED
    BY <1>1, StoreSteps, DraftStoreIsTyped, LegacyStoreIsTyped, PTL

\* Both stores show a task in the steps of its life cycle.
THEOREM StoresFollowLifecycle == FairStore => FollowsLifecycle
  BY StoreSteps, DraftImplementsLifecycle, LegacyImplementsLifecycle DEF FollowsLifecycle
=============================================================================
