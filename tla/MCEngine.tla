------------------------------ MODULE MCEngine ------------------------------
(* Configurations, check results and windows for TLC. *)
EXTENDS EngineProperties

CONSTANTS group, child   \* monitors of the group run; model values

Check(retries) == [typ |-> "http", maxRetries |-> retries, interval |-> 1,
                   paused |-> FALSE, token |-> FALSE, parent |-> NoSite]
Push(retries, k, tok) == [typ |-> "push", maxRetries |-> retries,
                          interval |-> k, paused |-> FALSE, token |-> tok,
                          parent |-> NoSite]

PullConfigs  == [s \in Sites |-> {Check(0), Check(1)}]
PushConfigs  == [s \in Sites |->
                   {Push(0, 1, TRUE), Push(1, 1, TRUE), Push(0, 2, FALSE)}]
GroupConfigs == [s \in Sites |->
                   IF s = group THEN {[Check(0) EXCEPT !.typ = "group"]}
                   ELSE {[Check(0) EXCEPT !.parent = group]}]

Out(st, c) == [verdict |-> st, cert |-> c]
PullResults == {Out("UP", "soon"), Out("DOWN", "none"), Out("SSL EXP", "none")}

Failing == {Out("DOWN", "none")}

PushWindows == {{}, {Everything}}
NoWindows == {{}}
=============================================================================
