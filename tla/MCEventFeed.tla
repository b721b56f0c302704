---------------------------- MODULE MCEventFeed ----------------------------
(* An instance of EventFeed for TLC: the list of reports is open while        *)
(* handlers and tasks write.                                                  *)
EXTENDS EventFeed

Kinds == {"job_updated", "report_updated"}
ListPage == {"reports"}

\* Changes of both kinds, or of one (they concern the list alike) and a trouble.
OneKindInTrouble ==
    \/ troubles = 0
    \/ /\ \A i \in DOMAIN sent : sent[i] = "job_updated"
       /\ unsent["report_updated"] = 0
=============================================================================
