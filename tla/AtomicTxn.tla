----------------------------- MODULE AtomicTxn ------------------------------
(***************************************************************************)
(* What two-phase commit promises.  A transaction is prepared at shards    *)
(* and may be released again; its client decides once, and may decide to   *)
(* commit at a set of shards only when all of them hold it prepared; from  *)
(* then on none of them releases it and each of them can only commit it.   *)
(***************************************************************************)
EXTENDS Maps

CONSTANTS Txns, Shards

VARIABLES
    state,      \* state[s][t], where transaction t is at shard s
    decision    \* the decided transactions, their outcome and participants

vars == <<state, decision>>

Init ==
    /\ state = [s \in Shards |-> [t \in Txns |-> "working"]]
    /\ decision = EmptyMap

DecidedCommit(t) == t \in DOMAIN decision /\ decision[t].outcome = "commit"

Move(t, s, from, to) ==
    /\ state[s][t] = from
    /\ state' = [state EXCEPT ![s][t] = to]
    /\ UNCHANGED decision

Prepare(t, s) == ~DecidedCommit(t) /\ Move(t, s, "working", "prepared")

Release(t, s) == ~DecidedCommit(t) /\ Move(t, s, "prepared", "working")

Commit(t, s) ==
    /\ DecidedCommit(t)
    /\ s \in decision[t].at
    /\ Move(t, s, "prepared", "committed")

Decide(t, outcome, at) ==
    /\ t \notin DOMAIN decision
    /\ outcome = "commit" => \A s \in at : state[s][t] = "prepared"
    /\ decision' = With(decision, t, [outcome |-> outcome, at |-> at])
    /\ UNCHANGED state

Next ==
    \E t \in Txns :
        \/ \E s \in Shards : Prepare(t, s) \/ Release(t, s) \/ Commit(t, s)
        \/ \E outcome \in {"commit", "abort"}, at \in SUBSET Shards : Decide(t, outcome, at)

Spec == Init /\ [][Next]_vars

-----------------------------------------------------------------------------
\* All or nothing: a shard holds a transaction as committed only if its client
\* decided so, and then every participant holds it prepared or committed.
AllOrNothing ==
    \A t \in Txns, s \in Shards :
        state[s][t] = "committed" =>
            /\ DecidedCommit(t)
            /\ s \in decision[t].at
            /\ \A p \in decision[t].at : state[p][t] \in {"prepared", "committed"}
=============================================================================
