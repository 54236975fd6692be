----------------------------- MODULE WsLiveness -----------------------------
(***************************************************************************)
(* The idle probes of the WebSocket transport (turbomcp-transport-ws): recv *)
(* pings after an interval without a frame and gives the peer up after a    *)
(* number of pings that nothing answered.  The count and the timer are      *)
(* locals of recv, so they live as long as one recv future does, and the    *)
(* serve loop drops that future whenever it has something to send.          *)
(*                                                                          *)
(* Time is counted in ticks.  The timer is urgent: no tick passes while it  *)
(* is due, nor while a pong of a living peer is.                            *)
(***************************************************************************)
EXTENDS Naturals

CONSTANTS
    Interval,   \* ping_interval, in ticks
    MaxIdle,    \* max_idle_pings
    Latency     \* a living peer's pong arrives within that many ticks

ASSUME TimesAssumption ==
    /\ Interval \in Nat \ {0} /\ MaxIdle \in Nat \ {0}
    /\ Latency \in Nat /\ Latency < MaxIdle * Interval

VARIABLES
    idle_pings,   \* local of the recv future
    elapsed,      \* ticks since its timer was started
    pongs,        \* ages of the pings a living peer has yet to answer
    alive,        \* the peer answers
    link,       \* open, reaped (recv gave the peer up) or closed
    quiet         \* ticks since the last inbound frame or dropped recv

probeVars == <<idle_pings, elapsed>>
wsVars == <<probeVars, pongs, alive, link, quiet>>

\* How long the probes of one recv take.
Patience == (MaxIdle + 1) * Interval

\* The count never passes the limit, and the timer never runs over.
WsTypeOK ==
    /\ idle_pings \in 0..MaxIdle /\ elapsed \in 0..Interval
    /\ pongs \subseteq 0..Latency
    /\ alive \in BOOLEAN /\ link \in {"open", "reaped", "closed"}
    /\ quiet \in Nat

WsInit ==
    /\ idle_pings = 0 /\ elapsed = 0
    /\ pongs = {}
    /\ alive = TRUE /\ link = "open"
    /\ quiet = 0

-----------------------------------------------------------------------------
(* recv.                                                                    *)

\* Slip: one probe more than allowed.
TimeoutLate ==
    /\ link = "open" /\ elapsed = Interval
    /\ IF idle_pings > MaxIdle
       THEN link' = "reaped" /\ UNCHANGED <<probeVars, pongs>>
       ELSE /\ idle_pings' = idle_pings + 1
            /\ elapsed' = 0
            /\ pongs' = IF alive THEN pongs \cup {0} ELSE pongs
            /\ UNCHANGED link
    /\ UNCHANGED <<alive, quiet>>

\* The interval passed without a frame: probe, or give up.
Timeout ==
    /\ link = "open" /\ elapsed = Interval
    /\ IF idle_pings >= MaxIdle
       THEN link' = "reaped" /\ UNCHANGED <<probeVars, pongs>>
       ELSE /\ idle_pings' = idle_pings + 1
            /\ elapsed' = 0
            /\ pongs' = IF alive THEN pongs \cup {0} ELSE pongs
            /\ UNCHANGED link
    /\ UNCHANGED <<alive, quiet>>

\* Slip: only the timer starts again.
HeardUncounted ==
    /\ elapsed' = 0
    /\ quiet' = 0
    /\ UNCHANGED idle_pings

\* Any inbound frame: the count and the timer start again, in the same recv
\* for a control frame and in the next one for a message.
Heard ==
    /\ idle_pings' = 0 /\ elapsed' = 0
    /\ quiet' = 0

\* The pong of a ping that is age ticks old.
Pong(age) ==
    /\ link = "open" /\ age \in pongs
    /\ pongs' = pongs \ {age}
    /\ Heard
    /\ UNCHANGED <<alive, link>>

\* A message, or a ping of the peer's own.
Message ==
    /\ link = "open" /\ alive
    /\ Heard
    /\ UNCHANGED <<pongs, alive, link>>

\* The serve loop has something to send, or a handler to join: its recv future
\* is dropped, and the next one starts afresh.
Dropped ==
    /\ link = "open"
    /\ idle_pings' = 0 /\ elapsed' = 0
    /\ quiet' = 0
    /\ UNCHANGED <<pongs, alive, link>>

\* A Close frame, or the end of the stream.
Closed ==
    /\ link = "open" /\ alive
    /\ link' = "closed"
    /\ Heard
    /\ UNCHANGED <<pongs, alive>>

-----------------------------------------------------------------------------
(* The peer and the clock.                                                  *)

\* Its socket stays open, and nothing comes from it any more.
FallSilent ==
    /\ link = "open" /\ alive
    /\ alive' = FALSE /\ pongs' = {}
    /\ UNCHANGED <<probeVars, link, quiet>>

Tick ==
    /\ link = "open"
    /\ elapsed < Interval /\ Latency \notin pongs
    /\ elapsed' = elapsed + 1
    /\ pongs' = {age + 1 : age \in pongs}
    /\ quiet' = quiet + 1
    /\ UNCHANGED <<idle_pings, alive, link>>

WsOver == link # "open" /\ UNCHANGED wsVars

WsNext ==
    \/ Timeout
    \/ \E age \in 0..Latency : Pong(age)
    \/ Message \/ Dropped \/ Closed
    \/ FallSilent \/ Tick \/ WsOver

WsSpec == WsInit /\ [][WsNext]_wsVars

-----------------------------------------------------------------------------
(* Properties.                                                              *)

\* A peer whose pongs take less than max_idle_pings intervals is never given
\* up, however its frames and the server's pushes fall between the probes.
LivingIsKept == link = "reaped" => ~alive

\* "Reap peers that go silent": a recv that is left alone gives up after the time
\* its probes take.
ReapedInTime == link = "open" => quiet <= Patience

\* A peer that answers is kept, one that fell silent is given up in time.
ProbesAreFair == LivingIsKept /\ ReapedInTime
=============================================================================
