---------------------------- MODULE MCTimeTravel ----------------------------
(* Two comments on different commits of one history, and one that lacks    *)
(* what time travel needs.  The limit cuts the longer history off.         *)
EXTENDS TimeTravel

MCCommitOf == [c \in Comments |-> CASE c = "c1" -> "k3"
                                    [] c = "c2" -> "k2"
                                    [] c = "c3" -> None]
MCLog == [k \in Commits |-> CASE k = "k4" -> <<"k4", "k3", "k2", "k1">>
                              [] k = "k3" -> <<"k3", "k2", "k1">>
                              [] k = "k2" -> <<"k2", "k1">>
                              [] k = "k1" -> <<"k1">>]
=============================================================================
