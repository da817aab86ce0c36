------------------------------ MODULE MCClient ------------------------------
EXTENDS ScanClient, ScanAssistant

MCRankings == {<<>>, <<"f1">>, <<"k1", "f1">>, <<"k1">>}

VARIABLE program    \* which of the two programs this run is

Idle == [q \in Questions |-> "done"]

MCInit ==
    \/ program = "client" /\ ClientInit
       /\ pc = Idle /\ status = [q \in Questions |-> [model |-> FALSE, embedding |-> FALSE]]
       /\ ranked = [q \in Questions |-> [words |-> <<>>, model |-> <<>>]]
       /\ sources = [q \in Questions |-> NoSources] /\ sent = [q \in Questions |-> {}]
       /\ free = 1 /\ response = [q \in Questions |-> <<>>]
    \/ program = "assistant" /\ ClientInit /\ AssistantInit

MCNext ==
    /\ UNCHANGED program
    /\ \/ program = "client" /\ ClientNext /\ UNCHANGED assistantVars
       \/ program = "assistant" /\ AssistantNext /\ UNCHANGED clientVars

MCSpec == /\ MCInit /\ [][MCNext]_<<program, clientVars, assistantVars>>
          /\ ClientFairness
=============================================================================
