-------------------------------- MODULE MCHttp --------------------------------
(* Instances of RequestStreams and HttpEndpoint for TLC: one POST from within,  *)
(* or all the posts of a client, as `view' says.                                *)
EXTENDS RequestStreams, HttpEndpoint

CONSTANTS h, k, g1, g2, c1
VARIABLE view

\* A version each way, the fallback, and a modern client of a legacy server.
EachOutcome == {<<"dual", "modern">>, <<"strict", "legacy">>,
                <<"elder", "auto">>, <<"strict", "modern">>}

HttpViews ==
    /\ Init /\ HttpInit /\ view \in {"stream", "client"}
    /\ view = "stream" => <<peer, mode>> = <<"elder", "auto">>
StreamPart == view = "stream" /\ Next /\ UNCHANGED <<view, httpVars>>
ClientPart == view = "client" /\ HttpNext /\ UNCHANGED <<view, vars>>

OnStream(A) == view = "stream" /\ A /\ UNCHANGED <<view, httpVars>>
OnClient(A) == view = "client" /\ A /\ UNCHANGED <<view, vars>>

\* FairSpec of RequestStreams or FairHttpSpec of HttpEndpoint.
FairViews ==
    /\ HttpViews
    /\ [][StreamPart \/ ClientPart]_<<view, vars, httpVars>>
    /\ WF_vars(OnStream(PostStep)) /\ WF_vars(OnStream(HandlerReturns))
    /\ \A r \in Reporters : WF_vars(OnStream(ReporterStep(r)))
    /\ \A g \in Gets : WF_vars(OnStream(GetNext(g))) /\ WF_vars(OnStream(RunDry(g)))
    /\ WF_httpVars(OnClient(Deliver))
    /\ \A m \in Posts : WF_httpVars(OnClient(PostStepOf(m) \/ Arrive(m)))
    /\ \A c \in Calls : WF_httpVars(OnClient(Finish(c)))

\* Both views keep their types, and their channels their capacity.
HttpTypesOK == TypeOK /\ HttpTypeOK
\* Streams that are over end, and whoever waits for a response is told.
EndsAreSeen == /\ view = "stream" => StreamsEnd
               /\ view = "client" => RequestsAreTold
=============================================================================
