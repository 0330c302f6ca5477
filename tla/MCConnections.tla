---------------------------- MODULE MCConnections ----------------------------
(***************************************************************************)
(* Checks the connections of the client: the event connection and terminal *)
(* of a host (HostLink), the agent events of two windows (AgentFeed) and   *)
(* the stream of a session (StreamLink).  A behaviour is about one of the  *)
(* three, the focus; steps counts the inputs of users, daemons and faults. *)
(***************************************************************************)
EXTENDS HostLink, AgentFeed, StreamLink

CONSTANTS MaxLinkSteps, MaxFeedSteps, MaxStreamSteps

VARIABLES focus, steps

mcVars == <<linkVars, feedVars, streamVars, focus, steps>>

MCInit ==
    /\ LinkInit /\ FeedInit /\ StreamInit
    /\ steps = 0 /\ focus \in {"link", "feed", "stream"}
    /\ focus # "link" => hostCfg = CHOOSE e \in Endpoints : TRUE

Bound == CASE focus = "link" -> MaxLinkSteps [] focus = "feed" -> MaxFeedSteps [] focus = "stream" -> MaxStreamSteps

Input == steps < Bound /\ steps' = steps + 1
Progress == UNCHANGED steps

MCLink ==
    /\ focus = "link" /\ UNCHANGED <<focus, feedVars, streamVars>>
    /\ (Input /\ LinkInput) \/ (Progress /\ LinkProgress)

MCFeed ==
    /\ focus = "feed" /\ UNCHANGED <<focus, linkVars, streamVars>>
    /\ (Input /\ FeedInput) \/ (Progress /\ FeedProgress)

MCStream ==
    /\ focus = "stream" /\ UNCHANGED <<focus, linkVars, feedVars>>
    /\ (Input /\ StreamInput) \/ (Progress /\ StreamProgress)

MCNext == MCLink \/ MCFeed \/ MCStream

MCSpec == MCInit /\ [][MCNext]_mcVars /\ LinkFairness
=============================================================================
