----------------------------- MODULE LegacyTasks -----------------------------
(***************************************************************************)
(* Tasks of the 2025-11-25 protocol (turbomcp-server/src/tasks.rs, driven  *)
(* by dispatcher/legacy_tasks.rs): a store of tasks that belong to the     *)
(* session that made them, the spawned calls that run them to their end,   *)
(* tasks/get, tasks/cancel, tasks/list page by page, and tasks/result,     *)
(* which waits for the end of a task.  A store operation is one critical   *)
(* section; all but `complete' first purge what has expired.               *)
(*                                                                         *)
(* Ids are random; tasks are numbered here in the order of their creation, *)
(* which is the order of `list'.                                           *)
(***************************************************************************)
EXTENDS Naturals, Sequences, FiniteSets

CONSTANTS
    MaxTasks,      \* bound: tasks that are ever created
    TaskCapacity,  \* of the store (1024 by default)
    Owners,        \* sessions that make tasks
    Waiters,       \* tasks/result requests
    MakerOf,       \* the session that makes the first task, the second, ...
    AskerOf,       \* the session of each tasks/result
    PageSize       \* TASKS_PAGE_SIZE

ASSUME LegacyTasksAssumption ==
    /\ MaxTasks \in Nat /\ TaskCapacity \in Nat /\ PageSize \in Nat \ {0}
    /\ IsFiniteSet(Owners) /\ IsFiniteSet(Waiters)
    /\ MakerOf \in [1..MaxTasks -> Owners] /\ AskerOf \in [Waiters -> Owners]

Ids == 1..MaxTasks
Outcomes == {"value", "error", "cancelled"}
Ended == {"completed", "failed", "cancelled"}

VARIABLES
    made,      \* how many tasks were created
    entry,     \* the store: status, owner and outcome; "gone" once purged
    signalled, \* tasks whose cancellation token has fired
    overdue,   \* tasks past their ttl
    work,      \* the spawned calls: none, running, ended
    wait,      \* the tasks/result requests
    listing    \* a client that follows the cursor of tasks/list

legacyTaskVars == <<made, entry, signalled, overdue, work, wait, listing>>

NoTask == [status |-> "none", owner |-> "nobody", outcome |-> "none"]
Absent == [status |-> "gone", owner |-> "nobody", outcome |-> "none"]
NotListing == [at |-> "idle", owner |-> "nobody", offset |-> 0, pages |-> <<>>, present |-> {}]
NotWaiting == [at |-> "idle", task |-> 0, woken |-> FALSE, got |-> "none"]

InStore(t) == entry[t].status \notin {"none", "gone"}
Works(t) == entry[t].status = "working"

\* The bound on the stored tasks counts the expired ones too.
LegacyTasksTypeOK ==
    /\ made \in 0..MaxTasks
    /\ \A t \in Ids : /\ entry[t].status \in {"none", "gone", "working"} \cup Ended
                      /\ entry[t].owner \in Owners \cup {"nobody"}
                      /\ entry[t].outcome \in Outcomes \cup {"none"}
    /\ Cardinality({t \in Ids : InStore(t)}) <= TaskCapacity
    /\ signalled \subseteq Ids /\ overdue \subseteq Ids
    /\ work \in [Ids -> {"none", "running", "ended"}]
    /\ \A w \in Waiters : wait[w].at \in {"idle", "look", "waiting", "returned"}
    /\ listing.at \in {"idle", "next", "whole"}

LegacyTasksInit ==
    /\ made = 0
    /\ entry = [t \in Ids |-> NoTask]
    /\ signalled = {} /\ overdue = {}
    /\ work = [t \in Ids |-> "none"]
    /\ wait = [w \in Waiters |-> NotWaiting]
    /\ listing = NotListing

-----------------------------------------------------------------------------
(* Critical sections.                                                       *)

\* purge_expired: what is overdue goes, and the work of a live one is cancelled.
Left(t) == InStore(t) /\ t \notin overdue
AfterPurge == [t \in Ids |-> IF InStore(t) /\ t \in overdue THEN Absent ELSE entry[t]]
Signals == signalled \cup {t \in overdue : Works(t)}

\* Slip: nobody is notified.
QuietWaits(ts) == wait
\* The watch channels of the tasks in ts: their waiters wake up, be it because
\* something was sent or because the sender is gone.
Notified(ts) ==
    [w \in Waiters |-> IF wait[w].at = "waiting" /\ wait[w].task \in ts
                       THEN [wait[w] EXCEPT !.woken = TRUE] ELSE wait[w]]
Purge == /\ entry' = AfterPurge /\ signalled' = Signals
         /\ wait' = Notified({t \in overdue : InStore(t)})

Visible(o, t) == Left(t) /\ entry[t].owner = o

\* create: at capacity the task is refused.
CreateTask ==
    /\ made < MaxTasks
    /\ signalled' = Signals
    /\ wait' = Notified({t \in overdue : InStore(t)})
    /\ IF Cardinality({t \in Ids : Left(t)}) < TaskCapacity
       THEN LET t == made + 1
            IN  /\ made' = t
                /\ entry' = [AfterPurge EXCEPT ![t] =
                        [status |-> "working", owner |-> MakerOf[t], outcome |-> "none"]]
                /\ work' = [work EXCEPT ![t] = "running"]
       ELSE entry' = AfterPurge /\ UNCHANGED <<made, work>>
    /\ UNCHANGED <<overdue, listing>>

\* Slip: a cancelled task may still complete.
FinishAnyway(t, outcome) ==
    IF InStore(t)
    THEN /\ entry' = [entry EXCEPT ![t].outcome = outcome,
                        ![t].status = IF outcome = "value" THEN "completed" ELSE "failed"]
         /\ wait' = Notified({t})
    ELSE UNCHANGED <<entry, wait>>
\* complete: nothing, if the task has ended or is gone.
Record(t, outcome) ==
    IF Works(t)
    THEN /\ entry' = [entry EXCEPT ![t].outcome = outcome,
                        ![t].status = IF outcome = "value" THEN "completed" ELSE "failed"]
         /\ wait' = Notified({t})
    ELSE UNCHANGED <<entry, wait>>

\* The spawned call comes to its end and records what the call answers, even
\* if its token has fired too (select! takes any arm that is ready) ...
WorkEnds(t) ==
    /\ work[t] = "running"
    /\ work' = [work EXCEPT ![t] = "ended"]
    /\ \E outcome \in {"value", "error"} : Record(t, outcome)
    /\ UNCHANGED <<made, signalled, overdue, listing>>

\* ... or is dropped by its token.
WorkStops(t) ==
    /\ work[t] = "running" /\ t \in signalled
    /\ work' = [work EXCEPT ![t] = "ended"]
    /\ UNCHANGED <<made, entry, signalled, overdue, wait, listing>>

\* tasks/cancel: refused for a task that has ended, or is someone else's.
CancelTask(o, t) ==
    /\ IF Visible(o, t) /\ Works(t)
       THEN /\ entry' = [AfterPurge EXCEPT ![t].status = "cancelled",
                                           ![t].outcome = "cancelled"]
            /\ signalled' = Signals \cup {t}
            /\ wait' = Notified({u \in overdue : InStore(u)} \cup {t})
       ELSE Purge
    /\ UNCHANGED <<made, overdue, work, listing>>

\* tasks/get changes nothing but what every operation purges.
GetTask == Purge /\ UNCHANGED <<made, overdue, work, listing>>

-----------------------------------------------------------------------------
(* tasks/result.                                                            *)

AskResult(w, t) ==
    /\ wait[w].at = "idle" /\ t <= made
    /\ wait' = [wait EXCEPT ![w] =
                  [at |-> "look", task |-> t, woken |-> FALSE, got |-> "none"]]
    /\ UNCHANGED <<made, entry, signalled, overdue, work, listing>>

\* One pass of wait_result: the waiter subscribes before the lock is released.
Look(w) ==
    LET t == wait[w].task
        seen == IF ~Visible(AskerOf[w], t) THEN "not found"
                ELSE IF Works(t) THEN "none" ELSE entry[t].outcome
    IN  /\ wait[w].at = "look"
        /\ entry' = AfterPurge /\ signalled' = Signals
        /\ wait' = [Notified({u \in overdue : InStore(u)}) EXCEPT
                      ![w].got = seen,
                      ![w].at = IF seen = "none" THEN "waiting" ELSE "returned"]
        /\ UNCHANGED <<made, overdue, work, listing>>

\* changed(): a status transition, after which it looks again, or a sender that
\* went with its task.
WakeUp(w) ==
    /\ wait[w].at = "waiting" /\ wait[w].woken
    /\ LET t == wait[w].task
       IN  wait' = [wait EXCEPT ![w].woken = FALSE,
                        ![w].at = IF InStore(t) THEN "look" ELSE "returned",
                        ![w].got = IF InStore(t) THEN "none" ELSE "not found"]
    /\ UNCHANGED <<made, entry, signalled, overdue, work, listing>>

-----------------------------------------------------------------------------
(* tasks/list.                                                              *)

Begin(o) ==
    /\ listing.at = "idle"
    /\ listing' = [at |-> "next", owner |-> o, offset |-> 0, pages |-> <<>>,
                   present |-> {t \in Ids : Visible(o, t)}]
    /\ UNCHANGED <<made, entry, signalled, overdue, work, wait>>

\* Slip: newest first.
Newer(o, t) == {u \in Ids : Visible(o, u) /\ u > t}
\* What the sort puts before t: oldest first.
Older(o, t) == {u \in Ids : Visible(o, u) /\ u < t}

\* A page (skip the offset, take a page), and the offset of the next one as the
\* cursor.
NextPage ==
    LET all  == {t \in Ids : Visible(listing.owner, t)}
        rank(t) == Cardinality(Older(listing.owner, t))
        page == {t \in all : listing.offset <= rank(t) /\ rank(t) < listing.offset + PageSize}
        upto == listing.offset + Cardinality(page)
    IN  /\ listing.at = "next"
        /\ listing' = [listing EXCEPT !.pages = Append(@, page), !.offset = upto,
                          !.at = IF upto < Cardinality(all) THEN "next" ELSE "whole"]
        /\ Purge
        /\ UNCHANGED <<made, overdue, work>>

-----------------------------------------------------------------------------
\* ttl_ms after its creation.
Expires(t) ==
    /\ InStore(t) /\ t \notin overdue
    /\ overdue' = overdue \cup {t}
    /\ UNCHANGED <<made, entry, signalled, work, wait, listing>>

LegacyTasksNext ==
    \/ CreateTask
    \/ \E o \in Owners : Begin(o) \/ \E t \in Ids : CancelTask(o, t)
    \/ \E w \in Waiters, t \in Ids : AskResult(w, t)
    \/ \E t \in Ids : WorkEnds(t) \/ WorkStops(t) \/ Expires(t)
    \/ \E w \in Waiters : Look(w) \/ WakeUp(w)
    \/ GetTask \/ NextPage

LegacyTasksSpec == LegacyTasksInit /\ [][LegacyTasksNext]_legacyTaskVars

-----------------------------------------------------------------------------
(* Properties.                                                              *)

\* What is answered is the outcome of the task; "not found" is for a task that
\* is gone or someone else's (complete and cancel racing, wait_result).
AnswersAgree ==
    \A w \in Waiters : wait[w].at = "returned" =>
        LET t == wait[w].task
        IN  IF wait[w].got = "not found"
            THEN entry[t].status = "gone" \/ entry[t].owner # AskerOf[w]
            ELSE /\ wait[w].got \in Outcomes
                 /\ InStore(t) => entry[t].outcome = wait[w].got

\* No wake-up is lost between the look at a task and the wait for it: who waits
\* for a task that has ended or is gone has been woken.
NoWakeUpIsLost ==
    \A w \in Waiters : wait[w].at = "waiting" => Works(wait[w].task) \/ wait[w].woken

\* tasks/result answers what the underlying call came to, the same to everyone
\* who asks and for good, and nobody sleeps through the end of a task.
ResultsAgree == AnswersAgree /\ NoWakeUpIsLost

\* As long as calls come to an end, so do the waits for them: whatever ends a
\* task, be it its call, a cancellation or a purge, wakes who waits for it.
WaitsReturn ==
    \A w \in Waiters : wait[w].at = "look" ~> wait[w].at = "returned"

\* Following the cursor to its end shows tasks once and in order, page by page,
\* and of those that were there all along at most as many are skipped as were
\* purged from among the ones already shown: the cursor is an offset.
Shown == UNION {listing.pages[i] : i \in DOMAIN listing.pages}
PagesCover ==
    /\ \A i, j \in DOMAIN listing.pages :
         i < j => \A t \in listing.pages[i], u \in listing.pages[j] : t < u
    /\ listing.at = "whole" =>
         Cardinality({t \in listing.present \ Shown : InStore(t)})
            <= Cardinality({t \in Shown : ~InStore(t)})

\* No work is left behind by a cancellation or a purge.
NoWorkLeftBehind ==
    \A t \in Ids : work[t] = "running" => Works(t) \/ t \in signalled

\* A session sees a task take the steps of the life cycle and no others.
LegacyLifecycle == INSTANCE TaskLifecycle WITH
    Tasks <- Ids, status <- [t \in Ids |-> entry[t].status]
LegacyFollowsLifecycle == LegacyLifecycle!Spec
=============================================================================
