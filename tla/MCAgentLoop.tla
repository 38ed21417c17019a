---------------------------- MODULE MCAgentLoop ----------------------------
(* AgentLoop for TLC: two agents, one of them listed; their calls play the same roles. *)
EXTENDS AgentLoop, TLC

CONSTANTS auditor, oracle

Agents2 == {auditor, oracle}
ListedOnly == {oracle}

\* The oracle's record is in order or not; the auditor can be found but has no agentId.
Records ==
  {[auditor |-> [endpoint |-> TRUE, agentId |-> FALSE, registered |-> FALSE],
    oracle |-> [endpoint |-> TRUE, agentId |-> TRUE, registered |-> r]] : r \in BOOLEAN}
EnsOf == {[x \in Agents2 |-> IF x = auditor THEN r.auditor ELSE r.oracle] : r \in Records}

Symmetry == Permutations(Call)

Purse == [x \in Agents2 |-> IF x = auditor THEN 2 ELSE 1]
===========================================================================
