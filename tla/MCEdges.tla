------------------------------- MODULE MCEdges -------------------------------
(* Instances of LineTransport, PipeConnection, WsLiveness and JwksCache for    *)
(* TLC: the lines of a pipe, the frames behind them, WebSocket frames, or HTTP *)
(* requests with a token, as `transport' says.                                 *)
EXTENDS LineTransport, PipeConnection, WsLiveness, JwksCache

CONSTANTS k1, k2, q1, q2
VARIABLE transport

\* Three bytes, a blank line, two bytes, five bytes.
FourLines == [i \in 0..4 |-> IF i = 0 THEN 0 ELSE <<3, 4, 6, 11>>[i]]

Kids == [q \in Lookups |-> IF q = q2 THEN k2 ELSE k1]

EdgeInit ==
    /\ Init /\ PipeInit /\ WsInit /\ JwksInit
    /\ transport \in {"lines", "pipe", "frames", "http"}
    /\ transport # "http" => Published = {}
LineStep ==
    transport = "lines" /\ Next /\ UNCHANGED <<transport, pipeVars, wsVars, jwksVars>>
PipeStep ==
    transport = "pipe" /\ PipeNext /\ UNCHANGED <<transport, vars, wsVars, jwksVars>>
WsStep ==
    transport = "frames" /\ WsNext /\ UNCHANGED <<transport, vars, pipeVars, jwksVars>>
JwksStep ==
    transport = "http" /\ JwksNext /\ UNCHANGED <<transport, vars, pipeVars, wsVars>>

\* The select! loop polls the line transport.
Polls(A) ==
    transport = "lines" /\ A /\ UNCHANGED <<transport, pipeVars, wsVars, jwksVars>>
FairEdges ==
    /\ EdgeInit
    /\ [][LineStep \/ PipeStep \/ WsStep \/ JwksStep]_<<transport, vars, pipeVars,
                                                       wsVars, jwksVars>>
    /\ WF_vars(Polls(Recv)) /\ WF_vars(Polls(AtEof))
    /\ WF_vars(Polls(\E n \in 1..Total : Fill(n)))

\* All four keep their types: the read buffer its cap, the probes theirs.
EdgesTypeOK == TypeOK /\ PipeTypeOK /\ WsTypeOK /\ JwksTypeOK
=============================================================================
