------------------------------ MODULE DraftTasks ------------------------------
(***************************************************************************)
(* The draft Tasks extension (turbomcp-ext-tasks): the task store, the     *)
(* spawned calls that drive tasks to their end, the input broker through   *)
(* which a running call asks its client for input, the requests tasks/get, *)
(* tasks/update and tasks/cancel, and the status notifications.  Every     *)
(* store operation but `complete` first purges the tasks whose time is up. *)
(***************************************************************************)
EXTENDS Naturals, FiniteSets

CONSTANTS
    Tasks,       \* the ids that can be minted, one per taskified call
    Capacity,    \* of the store (1024 by default)
    Askers,      \* the tasks whose calls ask for input
    MaxInputs    \* bound: how often one call asks

ASSUME TasksAssumption ==
    /\ IsFiniteSet(Tasks) /\ Capacity \in Nat
    /\ Askers \subseteq Tasks /\ MaxInputs \in Nat

Keys == 1..MaxInputs

\* Who sends a status: the task that runs the call once it has ended, the wait
\* for a key before it begins, or a request about the task.
ByCall == 0
ByRequest == MaxInputs + 1
Pushers == {ByCall, ByRequest} \cup Keys

Active == {"working", "input_required"}
Terminal == {"completed", "failed", "cancelled"}
Statuses == {"none", "gone"} \cup Active \cup Terminal
Readings == {"unread", "live"} \cup Terminal

VARIABLES
    task,      \* each task's status and outstanding keys, which are also
               \* the keys of its waiters; "gone" once purged
    token,     \* tasks whose cancellation token has fired
    due,       \* tasks past their ttl
    call,      \* the spawned calls: none, running, ended
    asked,     \* how many keys each task has used
    awaiting,  \* the keys each call waits for
    abandoned, \* history: the keys whose wait a call dropped
    answered,  \* the keys whose oneshot was sent a value
    pushes,    \* push_status runs: <<t, who, "unread">>, then <<t, who, what was read>>,
               \* "live" or how the task ended; those of requests that are alike
               \* count as one
    told       \* the ends a subscriber of the task was sent, who is registered all
               \* the time

callVars == <<call, asked, awaiting, abandoned>>
vars == <<task, token, due, callVars, answered, pushes, told>>

Stored(t) == task[t].status \notin {"none", "gone"}
Live(t) == task[t].status \in Active

\* The bound on the stored tasks counts the expired ones too.
TypeOK ==
    /\ task \in [Tasks -> [status : Statuses, open : SUBSET Keys]]
    /\ Cardinality({t \in Tasks : Stored(t)}) <= Capacity
    /\ token \subseteq Tasks /\ due \subseteq Tasks
    /\ call \in [Tasks -> {"none", "running", "ended"}]
    /\ asked \in [Tasks -> 0..MaxInputs]
    /\ awaiting \in [Tasks -> SUBSET Keys]
    /\ abandoned \in [Tasks -> SUBSET Keys]
    /\ answered \in [Tasks -> SUBSET Keys]
    /\ pushes \subseteq Tasks \X Pushers \X Readings
    /\ told \in [Tasks -> SUBSET Terminal]

NoKeys == [t \in Tasks |-> {}]

Init ==
    /\ task = [t \in Tasks |-> [status |-> "none", open |-> {}]]
    /\ token = {} /\ due = {}
    /\ call = [t \in Tasks |-> "none"]
    /\ asked = [t \in Tasks |-> 0]
    /\ awaiting = NoKeys /\ abandoned = NoKeys /\ answered = NoKeys
    /\ pushes = {} /\ told = NoKeys

\* purge_expired: what is due goes, and the work of a live one is cancelled.
Kept(t) == Stored(t) /\ t \notin due
Purged == [t \in Tasks |-> IF Stored(t) /\ t \in due
                           THEN [status |-> "gone", open |-> {}] ELSE task[t]]

\* Slip: the work of a purged task runs on.
FiresNothing == token

Fires == token \cup {t \in due : Live(t)}

PushesOf(t, by) == {push \in pushes : push[1] = t /\ push[2] = by}
AskPush(t, by) == pushes' = pushes \cup {<<t, by, "unread">>}

-----------------------------------------------------------------------------
(* tools/call, run as a task.                                               *)

\* Slip: the capacity is not looked at.
CreateAlways(t) ==
    /\ call[t] = "none"
    /\ task' = [Purged EXCEPT ![t].status = "working"]
    /\ token' = Fires
    /\ call' = [call EXCEPT ![t] = "running"]
    /\ UNCHANGED <<due, asked, awaiting, abandoned, answered, pushes, told>>

\* A task is created before its call is spawned; at capacity there is none and
\* the call runs synchronously.
Create(t) ==
    /\ call[t] = "none"
    /\ token' = Fires
    /\ IF Cardinality({u \in Tasks : Kept(u)}) < Capacity
       THEN /\ task' = [Purged EXCEPT ![t].status = "working"]
            /\ call' = [call EXCEPT ![t] = "running"]
       ELSE task' = Purged /\ UNCHANGED call
    /\ UNCHANGED <<due, asked, awaiting, abandoned, answered, pushes, told>>

\* Slip: the outcome is recorded whatever the status.
CompleteAlways(t) ==
    /\ call[t] = "running" /\ awaiting[t] = {}
    /\ \E s \in {"completed", "failed"} :
         task' = IF Stored(t) THEN [task EXCEPT ![t].status = s] ELSE task
    /\ call' = [call EXCEPT ![t] = "ended"]
    /\ AskPush(t, ByCall)
    /\ UNCHANGED <<token, due, asked, awaiting, abandoned, answered, told>>

\* Slip: only cancellations and inputs are announced.
CompleteQuietly(t) ==
    /\ call[t] = "running" /\ awaiting[t] = {}
    /\ \E s \in {"completed", "failed"} :
         task' = IF Live(t) THEN [task EXCEPT ![t].status = s] ELSE task
    /\ call' = [call EXCEPT ![t] = "ended"]
    /\ UNCHANGED <<token, due, asked, awaiting, abandoned, answered, pushes, told>>

\* The call has an outcome; a task that is terminal or gone keeps its own.  The
\* spawned task goes on to announce the end, and nobody drops it.
Complete(t) ==
    /\ call[t] = "running" /\ awaiting[t] = {}
    /\ \E s \in {"completed", "failed"} :
         task' = IF Live(t) THEN [task EXCEPT ![t].status = s] ELSE task
    /\ call' = [call EXCEPT ![t] = "ended"]
    /\ AskPush(t, ByCall)
    /\ UNCHANGED <<token, due, asked, awaiting, abandoned, answered, told>>

\* TaskBroker::obtain: the request is published under a fresh key, unless the
\* task is no longer live.
Obtain(t) ==
    /\ t \in Askers
    /\ call[t] = "running" /\ asked[t] < MaxInputs
    /\ asked' = [asked EXCEPT ![t] = @ + 1]
    /\ token' = Fires
    /\ IF Live(t) /\ Kept(t)
       THEN /\ task' = [Purged EXCEPT ![t] =
                 [status |-> "input_required", open |-> @.open \cup {asked'[t]}]]
            /\ awaiting' = [awaiting EXCEPT ![t] = @ \cup {asked'[t]}]
            /\ AskPush(t, asked'[t])
       ELSE task' = Purged /\ UNCHANGED <<awaiting, pushes>>
    /\ UNCHANGED <<due, call, abandoned, answered, told>>

\* Slip: the wait has a timeout of its own.
ObtainedTimed(t, k) ==
    /\ k \in awaiting[t] /\ PushesOf(t, k) = {}
    /\ awaiting' = [awaiting EXCEPT ![t] = @ \ {k}]
    /\ UNCHANGED <<task, token, due, call, asked, abandoned, answered, pushes, told>>

\* The wait, which begins when the push is over, ends: with the answer, with a
\* dropped sender, or with the token.
Obtained(t, k) ==
    /\ k \in awaiting[t] /\ PushesOf(t, k) = {}
    /\ k \in answered[t] \/ k \notin task[t].open \/ t \in token
    /\ awaiting' = [awaiting EXCEPT ![t] = @ \ {k}]
    /\ UNCHANGED <<task, token, due, call, asked, abandoned, answered, pushes, told>>

\* The call drops the future (its own timeout, a select!), which waits for an
\* answer or still for the push to be sent; the push goes with it.
Abandon(t, k) ==
    /\ k \in awaiting[t] /\ <<t, k, "unread">> \notin pushes
    /\ pushes' = pushes \ PushesOf(t, k)
    /\ awaiting' = [awaiting EXCEPT ![t] = @ \ {k}]
    /\ abandoned' = [abandoned EXCEPT ![t] = @ \cup {k}]
    /\ UNCHANGED <<task, token, due, call, asked, answered, told>>

-----------------------------------------------------------------------------
(* Requests about tasks.                                                    *)

Get ==
    /\ task' = Purged /\ token' = Fires
    /\ UNCHANGED <<due, callVars, answered, pushes, told>>

\* tasks/cancel: the token fires, the inputs are withdrawn.
Cancel(t) ==
    /\ token' = Fires \cup (IF Live(t) /\ Kept(t) THEN {t} ELSE {})
    /\ task' = IF Live(t) /\ Kept(t)
               THEN [Purged EXCEPT ![t] = [status |-> "cancelled", open |-> {}]]
               ELSE Purged
    /\ IF Kept(t) THEN AskPush(t, ByRequest) ELSE UNCHANGED pushes
    /\ UNCHANGED <<due, callVars, answered, told>>

\* Slip: one answer is enough to go back to working.
UpdateEager(t, ks) ==
    LET left == task[t].open \ ks
        resumes == task[t].status = "input_required" /\ left # task[t].open
    IN  /\ token' = Fires
        /\ IF Kept(t)
           THEN /\ task' = [Purged EXCEPT ![t] =
                     [status |-> IF resumes THEN "working" ELSE @.status,
                      open |-> left]]
                /\ answered' = [answered EXCEPT ![t] = @ \cup (ks \cap task[t].open)]
                /\ IF resumes THEN AskPush(t, ByRequest) ELSE UNCHANGED pushes
           ELSE task' = Purged /\ UNCHANGED <<answered, pushes>>
        /\ UNCHANGED <<due, callVars, told>>

\* tasks/update, with keys that were once asked for: those that are no longer
\* outstanding are ignored; once none is left the task works on.
Update(t, ks) ==
    LET left == task[t].open \ ks
        resumes == task[t].status = "input_required" /\ left = {}
    IN  /\ ks \subseteq 1..asked[t]
        /\ token' = Fires
        /\ IF Kept(t)
           THEN /\ task' = [Purged EXCEPT ![t] =
                     [status |-> IF resumes THEN "working" ELSE @.status,
                      open |-> left]]
                /\ answered' = [answered EXCEPT ![t] = @ \cup (ks \cap task[t].open)]
                /\ IF resumes THEN AskPush(t, ByRequest) ELSE UNCHANGED pushes
           ELSE task' = Purged /\ UNCHANGED <<answered, pushes>>
        /\ UNCHANGED <<due, callVars, told>>

\* The ttl passes; nothing happens before the next purge.
BecomeDue(t) ==
    /\ Stored(t) /\ t \notin due
    /\ due' = due \cup {t}
    /\ UNCHANGED <<task, token, callVars, answered, pushes, told>>

-----------------------------------------------------------------------------
(* push_status: the task is read when the push runs, and sent later.        *)

Reading(t) == IF Live(t) THEN "live" ELSE task[t].status

ReadForPush(t, by) ==
    /\ <<t, by, "unread">> \in pushes
    /\ task' = Purged /\ token' = Fires
    /\ pushes' = (pushes \ {<<t, by, "unread">>})
                 \cup (IF Kept(t) THEN {<<t, by, Reading(t)>>} ELSE {})
    /\ UNCHANGED <<due, callVars, answered, told>>

SendPush(t, by, s) ==
    /\ <<t, by, s>> \in pushes /\ s # "unread"
    /\ pushes' = pushes \ {<<t, by, s>>}
    /\ told' = [told EXCEPT ![t] = @ \cup ({s} \ {"live"})]
    /\ UNCHANGED <<task, token, due, callVars, answered>>

\* A tasks/cancel or tasks/update that is cancelled itself is dropped where it
\* waits, which is where it sends its push.
DropPush(t, s) ==
    /\ <<t, ByRequest, s>> \in pushes /\ s # "unread"
    /\ pushes' = pushes \ {<<t, ByRequest, s>>}
    /\ UNCHANGED <<task, token, due, callVars, answered, told>>

-----------------------------------------------------------------------------
Next ==
    \/ \E t \in Tasks :
         \/ Create(t) \/ Complete(t) \/ Obtain(t) \/ Cancel(t) \/ BecomeDue(t)
         \/ \E k \in Keys : Obtained(t, k) \/ Abandon(t, k)
         \/ \E ks \in SUBSET Keys : Update(t, ks)
         \/ \E by \in Pushers :
              ReadForPush(t, by) \/ \E s \in Readings : SendPush(t, by, s)
         \/ \E s \in Readings : DropPush(t, s)
    \/ Get

Spec == Init /\ [][Next]_vars

-----------------------------------------------------------------------------
(* Properties.                                                              *)

\* tasks/get shows input_required exactly while there is something to answer.
InputRequiredIsAccurate ==
    \A t \in Tasks :
        Live(t) => (task[t].status = "input_required" <=> task[t].open # {})

\* What tasks/get asks the client for is what the call waits for, or gave up
\* waiting for, and no call waits for what the client can no longer give.
OutstandingIsAwaited ==
    \A t \in Tasks :
        /\ Live(t) => task[t].open \subseteq awaiting[t] \cup abandoned[t]
        /\ awaiting[t] \cap task[t].open # {} => Live(t)

\* A call that runs on belongs to a live task or has been told to stop: neither
\* a cancellation nor a purge leaves work behind.
NoOrphanedWork ==
    \A t \in Tasks : call[t] = "running" => Live(t) \/ t \in token

\* Whatever raced, and whichever requests were dropped with their pushes, the end
\* of a task that stays stored has been announced to its subscribers, or will be
\* by the task of its call, which is still running the call or at the push; and
\* the end they were told of is the end the task came to.
TerminalIsPushed ==
    \A t \in Tasks :
        /\ task[t].status \in Terminal =>
             \/ told[t] # {}
             \/ call[t] = "running"
             \/ \E s \in Terminal \cup {"unread"} : <<t, ByCall, s>> \in pushes
        /\ \A s \in told[t] : task[t].status \in {s, "gone"}

\* Clients see a task take the steps of its lifecycle and no others.
Lifecycle == INSTANCE TaskLifecycle WITH
                 status <- [t \in Tasks |-> task[t].status]
ImplementsLifecycle == Lifecycle!Spec

\* The store and the calls agree on the inputs that are asked for.
InputsAgree == InputRequiredIsAccurate /\ OutstandingIsAwaited
=============================================================================
