------------------------------ MODULE SkipList ------------------------------
(***************************************************************************)
(* The clue index of LedgerDB: one skip list per key, from timestamps to   *)
(* values, in the key-value store (ledger/ledgerdb/skiplist/skiplist.cc).  *)
(* The node under "<prefix>|head" holds the timestamp inserted first and   *)
(* stays in front; the others follow in descending order.                  *)
(***************************************************************************)
EXTENDS Integers, Sequences, SequencesExt, FiniteSetsExt, Maps

CONSTANTS
    Stamps,        \* timestamps, natural numbers
    MaxLevel,      \* maxLevel
    MaxInserts     \* bound on the calls of insert

VARIABLES
    slnodes,       \* node id -> node; the id is Head or a timestamp
    inserts        \* the inserted <<timestamp, value>>, in order

slVars == <<slnodes, inserts>>

Null == -1
HeadId == -2       \* the key "<prefix>|head"

SkipNode(k, v, level) ==
    [key |-> k, value |-> v, forward |-> [i \in 1 .. level |-> Null]]

\* nodeLevel: the levels up to the first null pointer, at least one.
NodeLevel(forward) ==
    LET used == {l \in 1 .. Len(forward) : \A i \in 1 .. l : forward[i] # Null}
    IN  Max({1} \cup used)

\* The while loop of find and insert: the last node at level i before k.
RECURSIVE Walk(_, _, _, _)
Walk(nodes, id, i, k) ==
    IF nodes[id].forward[i] > Null /\ nodes[id].forward[i] > k
      THEN Walk(nodes, nodes[id].forward[i], i, k)
      ELSE id

RECURSIVE FindFrom(_, _, _, _)
FindFrom(nodes, id, i, k) ==
    IF i = 0 THEN <<>>
    ELSE LET at == Walk(nodes, id, i, k)
         IN  IF nodes[at].forward[i] = k THEN <<nodes[k]>>
             ELSE FindFrom(nodes, at, i - 1, k)

\* find: the node as a sequence of one, or <<>> for the empty string.
Find(nodes, k) ==
    IF HeadId \notin DOMAIN nodes THEN <<>>
    ELSE IF nodes[HeadId].key = k THEN <<nodes[HeadId]>>
    ELSE FindFrom(nodes, HeadId, NodeLevel(nodes[HeadId].forward), k)

\* Mutant: the new node is linked in but does not point on.
Splice_cut(nodes, id, new, i) ==
    IF i = 0 THEN With(nodes, new.key, new)
    ELSE With([nodes EXCEPT ![Walk(nodes, id, i, new.key)].forward[i] = new.key], new.key, new)

\* The loop of insert over the levels, down from i: the predecessor found at a
\* level is where the next level starts.
RECURSIVE Splice(_, _, _, _)
Splice(nodes, id, new, i) ==
    IF i = 0 THEN With(nodes, new.key, new)
    ELSE LET p == Walk(nodes, id, i, new.key)
         IN  Splice([nodes EXCEPT ![p].forward[i] = new.key], p,
                    [new EXCEPT !.forward[i] = nodes[p].forward[i]], i - 1)

\* insert, with the level that randomLevel draws.  An existing node is written
\* back under its timestamp, also when it is the head.
InsertNode(nodes, k, v, level) ==
    IF HeadId \notin DOMAIN nodes THEN With(nodes, HeadId, SkipNode(k, v, MaxLevel))
    ELSE IF Find(nodes, k) # <<>> THEN With(nodes, k, [Find(nodes, k)[1] EXCEPT !.value = v])
    ELSE Splice(nodes, HeadId, SkipNode(k, v, level), level)

\* scan: at most n nodes along the lowest level.
RECURSIVE ScanFrom(_, _, _)
ScanFrom(nodes, id, n) ==
    IF n = 0 \/ id \notin DOMAIN nodes THEN <<>>
    ELSE <<nodes[id]>> \o (IF nodes[id].forward[1] < 0 THEN <<>>
                           ELSE ScanFrom(nodes, nodes[id].forward[1], n - 1))

Scan(nodes, n) == ScanFrom(nodes, HeadId, n)

-----------------------------------------------------------------------------
SkipListInit == slnodes = EmptyMap /\ inserts = <<>>

\* LedgerDB::Set inserts the value of the next block under a timestamp.
SkipListInsert(k, level) ==
    /\ Len(inserts) < MaxInserts
    /\ slnodes' = InsertNode(slnodes, k, Len(inserts) + 1, level)
    /\ inserts' = Append(inserts, k)

SkipListNext == \E k \in Stamps, level \in 1 .. MaxLevel : SkipListInsert(k, level)

-----------------------------------------------------------------------------
(* Properties *)

\* Whatever the order of the timestamps and the levels drawn, find
\* (skiplist.cc:116) returns for each inserted timestamp the value inserted for
\* it last; only the first one inserted keeps its first value, for insert looks
\* behind it.  It returns nothing for a timestamp that was not inserted.  scan
\* (skiplist.cc:202), which GetVersions serves versions from, returns the first
\* version and then the others from the newest timestamp to the oldest, each once.
SkipListMatchesInserts ==
    /\ \A k \in Stamps :
        LET at == {i \in DOMAIN inserts : inserts[i] = k}
            found == Find(slnodes, k)
        IN  IF at = {} THEN found = <<>>
            ELSE /\ found # <<>>
                 /\ found[1].key = k
                 /\ found[1].value = IF inserts[1] = k THEN 1 ELSE Max(at)
    /\ LET s == Scan(slnodes, MaxInserts)
       IN  /\ {s[i].key : i \in DOMAIN s} = ToSet(inserts)
           /\ Len(s) = Cardinality(ToSet(inserts))
           /\ s # <<>> => s[1].key = inserts[1]
           /\ \A i \in 2 .. Len(s) - 1 : s[i].key > s[i + 1].key
=============================================================================
