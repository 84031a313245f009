--------------------------- MODULE AtomicTxnProofs ---------------------------
(***************************************************************************)
(* AtomicTxn keeps AllOrNothing, for any transactions and shards.          *)
(***************************************************************************)
EXTENDS AtomicTxn, TLAPS

\* A shard's view of a transaction, and a client's decision.
States == {"working", "prepared", "committed"}
Outcomes == {"commit", "abort"}

TypeInv ==
    /\ state \in [Shards -> [Txns -> States]]
    /\ DOMAIN decision \subseteq Txns
    /\ \A t \in DOMAIN decision : decision[t] \in [outcome : Outcomes, at : SUBSET Shards]

\* After the decision to commit no participant is left that has not voted.
ParticipantsHold ==
    \A t \in Txns : DecidedCommit(t) =>
        \A p \in decision[t].at : state[p][t] \in {"prepared", "committed"}

IInv == TypeInv /\ ParticipantsHold /\ AllOrNothing

\* Adding a decision leaves the others as they are.
LEMMA AddDecision ==
    ASSUME NEW t \in Txns, NEW d, t \notin DOMAIN decision,
           decision' = With(decision, t, d)
    PROVE  /\ DOMAIN decision' = DOMAIN decision \cup {t}
           /\ decision'[t] = d
           /\ \A u \in DOMAIN decision : decision'[u] = decision[u]
  BY DEF With

\* The initial states satisfy the inductive invariant: no shard has prepared and
\* no client has decided anything.
LEMMA InitIInv == Init => IInv
  BY DEF Init, EmptyMap, IInv, TypeInv, States, ParticipantsHold, AllOrNothing, DecidedCommit

\* Every step keeps it.  A shard moves a transaction only in the direction its
\* decision allows, and a commit is decided only over prepared participants.
LEMMA NextIInv == IInv /\ [Next]_vars => IInv'
  <1> SUFFICES ASSUME IInv, [Next]_vars PROVE IInv'
    OBVIOUS
  <1> USE DEF IInv, TypeInv, States, Outcomes
  <1>1. ASSUME NEW t \in Txns, NEW s \in Shards, Prepare(t, s) PROVE IInv'
    BY <1>1 DEF Prepare, Move, ParticipantsHold, AllOrNothing, DecidedCommit
  <1>2. ASSUME NEW t \in Txns, NEW s \in Shards, Release(t, s) PROVE IInv'
    BY <1>2 DEF Release, Move, ParticipantsHold, AllOrNothing, DecidedCommit
  <1>3. ASSUME NEW t \in Txns, NEW s \in Shards, Commit(t, s) PROVE IInv'
    BY <1>3 DEF Commit, Move, ParticipantsHold, AllOrNothing, DecidedCommit
  <1>4. ASSUME NEW t \in Txns, NEW outcome \in Outcomes, NEW at \in SUBSET Shards,
               Decide(t, outcome, at)
        PROVE  IInv'
    <2> DEFINE d == [outcome |-> outcome, at |-> at]
    <2>1. /\ DOMAIN decision' = DOMAIN decision \cup {t}
          /\ decision'[t] = d
          /\ \A u \in DOMAIN decision : decision'[u] = decision[u]
      BY <1>4, AddDecision DEF Decide
    <2>2. TypeInv'
      BY <1>4, <2>1 DEF Decide
    <2>3. state' = state
      BY <1>4 DEF Decide
    <2>4. ParticipantsHold'
      BY <1>4, <2>1, <2>3 DEF Decide, ParticipantsHold, DecidedCommit
    <2>5. AllOrNothing'
      BY <1>4, <2>1, <2>3 DEF Decide, AllOrNothing, DecidedCommit
    <2> QED BY <2>2, <2>4, <2>5
  <1>5. CASE UNCHANGED vars
    BY <1>5 DEF vars, ParticipantsHold, AllOrNothing, DecidedCommit
  <1> QED BY <1>1, <1>2, <1>3, <1>4, <1>5 DEF Next

\* Two-phase commit as AtomicTxn describes it is all or nothing: a shard commits
\* only what the client decided to commit, and then no participant has released
\* it.  StrongStore, the model of client.cc and shardclient.cc, implements it.
THEOREM AtomicTxnAllOrNothing == Spec => []AllOrNothing
  <1>1. IInv => AllOrNothing
    BY DEF IInv
  <1> QED BY InitIInv, NextIInv, <1>1, PTL DEF Spec
=============================================================================
