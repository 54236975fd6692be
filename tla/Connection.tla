------------------------------ MODULE Connection ------------------------------
(***************************************************************************)
(* What one connection promises its peer, whatever the driver does inside: *)
(* messages reach the wire one after the other, a call is answered at most *)
(* once and only after it was read, nothing about a call follows its       *)
(* answer, and nothing is written once the connection is closed.           *)
(***************************************************************************)
EXTENDS Sequences, Naturals

CONSTANTS Calls,       \* requests the peer may send
          Sources      \* everything else that may push on the connection

VARIABLES accepted,    \* calls that were read
          log,         \* what the peer has received, in order
          open

vars == <<accepted, log, open>>

Kinds == {"reply", "push", "ask"}

Answered(c) == \E i \in DOMAIN log : log[i] = [kind |-> "reply", of |-> c]

Init == accepted = {} /\ log = <<>> /\ open = TRUE

Accept(c) == /\ open
             /\ accepted' = accepted \cup {c}
             /\ UNCHANGED <<log, open>>

Emit(m) == /\ open
           /\ m.of \in Calls => m.of \in accepted /\ ~Answered(m.of)
           /\ log' = Append(log, m)
           /\ UNCHANGED <<accepted, open>>

Close == open /\ open' = FALSE /\ UNCHANGED <<accepted, log>>

Next == \/ \E c \in Calls : Accept(c)
        \/ \E c \in Calls, k \in Kinds : Emit([kind |-> k, of |-> c])
        \/ \E s \in Sources : Emit([kind |-> "push", of |-> s])
        \/ Close

Spec == Init /\ [][Next]_vars
=============================================================================
