---------------------------- MODULE MCConnection ----------------------------
(* Connection on a small instance. *)
EXTENDS Connection

\* An older client, an older agent, and two that match.
MCBootVersions == {[client |-> 1, agent |-> 2], [client |-> 2, agent |-> 1],
                   [client |-> 2, agent |-> 2]}

\* Three connections on a good path, one with a message changed, one to an agent
\* of another session.
MCTrials == {[tries |-> 2, changes |-> 0, id |-> "ours"],
             [tries |-> 0, changes |-> 1, id |-> "ours"],
             [tries |-> 0, changes |-> 0, id |-> "other"]}

\* Each end writes, or the terminal stalls, two of the three at a time.
MCLoads == {[agent |-> 1, client |-> 0, stalls |-> 1],
            [agent |-> 0, client |-> 1, stalls |-> 1],
            [agent |-> 1, client |-> 1, stalls |-> 0]}
=============================================================================
