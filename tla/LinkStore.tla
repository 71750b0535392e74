------------------------------ MODULE LinkStore ------------------------------
(***************************************************************************)
(* The bbolt store of urlshort: the buckets links (key -> target) and      *)
(* targets (target -> key), read by View transactions on the committed     *)
(* state and changed by Update transactions, of which one runs at a time.  *)
(*                                                                         *)
(* A link record is abstracted to its target: rule, owner and timestamps   *)
(* are stored beside it and no operation reads them back to decide.        *)
(***************************************************************************)
EXTENDS KeyRules, Order

CONSTANTS
    NoTarget,    \* what a read of an absent key returns
    MaxBatch     \* maxBatchCreate of the API, 100 in the code

ASSUME LinkStoreAssumption ==
    /\ NoTarget \notin Targets
    /\ MaxBatch \in Nat \ {0}

VARIABLES
    db,          \* the committed buckets
    tx           \* the open write transaction, if any

storeVars == <<db, tx>>

Buckets == [links : [Keys -> Targets \cup {NoTarget}],
            targets : [Targets -> Keys \cup {NoKey}]]

EmptyBuckets == [links |-> [k \in Keys |-> NoTarget],
                 targets |-> [t \in Targets |-> NoKey]]

Free(d) == {k \in Keys : d.links[k] = NoTarget}

-----------------------------------------------------------------------------
(* Reads. Each is one View transaction: a snapshot of the committed state. *)

Resolve(d, t) == d.targets[t]

Get(d, k) == IF k = NoKey THEN NoTarget ELSE d.links[k]

\* The keys under a prefix that a cursor still has before it, in key order;
\* the cursor is exclusive and NoKey starts from the beginning.
Ahead(d, prefix, cursor) ==
    {k \in prefix : d.links[k] # NoTarget /\ k > cursor}

\* List: the first limit links after the cursor, and the last key as the next
\* cursor exactly when the page is full.
ListKeys(d, prefix, limit, cursor) ==
    FirstOf(limit, Ahead(d, prefix, cursor))

\* Mutation of NextCursor: a page that is exactly full ends the listing.
NextCursorEarlyEnd(page, limit) == NoKey

NextCursor(page, limit) ==
    IF Cardinality(page) < limit THEN NoKey ELSE Greatest(page)

-----------------------------------------------------------------------------
(* Writes, on the buckets of a transaction.                                *)

Insert(d, k, t) == [links |-> [d.links EXCEPT ![k] = t],
                    targets |-> [d.targets EXCEPT ![t] = k]]

Failure(d, e) ==
    [db |-> d, res |-> [err |-> e, key |-> NoKey, target |-> NoTarget, created |-> FALSE]]

Success(d, k, t, c) ==
    [db |-> d, res |-> [err |-> "none", key |-> k, target |-> t, created |-> c]]

Result == [err : {"none", "conflict", "forbidden", "internal"},
           key : Keys \cup {NoKey}, target : Targets \cup {NoTarget},
           created : BOOLEAN]

\* createInTx when the target has a key already: nothing is written.
CreateExisting(d, r) ==
    LET k == d.targets[r.target]
    IN  IF r.key # NoKey /\ r.key # k THEN Failure(d, "conflict")
        ELSE IF d.links[k] = NoTarget THEN Failure(d, "internal")
        ELSE Success(d, k, d.links[k], FALSE)

\* Mutation of CreateExplicit: an explicit key overwrites the link it names.
OverwriteExplicit(d, r) == Success(Insert(d, r.key, r.target), r.key, r.target, TRUE)

CreateExplicit(d, r) ==
    IF d.links[r.key] # NoTarget THEN Failure(d, "conflict")
    ELSE Success(Insert(d, r.key, r.target), r.key, r.target, TRUE)

\* Mutation of CreateGenerated: the generated key is not checked against the
\* client's namespaces again.
GeneratedUnchecked(d, r) ==
    {Success(Insert(d, k, r.target), k, r.target, TRUE) : k \in GenKeys(r, Free(d)) \cap Free(d)}

\* The generator's outcomes: a key that it may use, one that the client may
\* not, one that is taken after all (the store looks again), or none left.
\* Ten random draws that collide are no ErrConflict.
CreateGenerated(d, r) ==
    LET allowed == {k \in GenKeys(r, Free(d)) : CanAccess(r.client, k)}
    IN  {Success(Insert(d, k, r.target), k, r.target, TRUE) : k \in allowed \cap Free(d)}
        \cup {Failure(d, "forbidden") : k \in GenKeys(r, Free(d)) \ allowed}
        \cup {Failure(d, "conflict") : k \in allowed \ Free(d)}
        \cup {Failure(d, e) :
                e \in {x \in {"conflict", "internal"} :
                         GenGivesUp(r, Free(d)) /\ (x = "conflict" <=> MatchesRule(r.target))}}

\* Mutation of CreateOutcomes: the target is not looked up again inside the
\* transaction.
CreateWithoutRecheck(d, r) ==
    IF r.key # NoKey THEN {CreateExplicit(d, r)} ELSE CreateGenerated(d, r)

\* createInTx: the outcomes of one request, each the buckets after it and its result.
CreateOutcomes(d, r) ==
    IF d.targets[r.target] # NoKey THEN {CreateExisting(d, r)}
    ELSE IF r.key # NoKey THEN {CreateExplicit(d, r)}
    ELSE CreateGenerated(d, r)

\* Mutation of CanUpdate: the new target may have another key.
CanUpdateAny(d, k, t) == d.links[k] # NoTarget

CanUpdate(d, k, t) ==
    /\ d.links[k] # NoTarget
    /\ d.targets[t] \in {NoKey, k}

\* Mutation of Retargeted: the old target keeps its entry.
RetargetedKeepsOld(d, k, t) == Insert(d, k, t)

\* The old target is released before the new one is taken; an update to the
\* same target writes nothing.
Retargeted(d, k, t) ==
    IF d.links[k] = t THEN d
    ELSE Insert([d EXCEPT !.targets[d.links[k]] = NoKey], k, t)

Removed(d, k) == [links |-> [d.links EXCEPT ![k] = NoTarget],
                  targets |-> [d.targets EXCEPT ![d.links[k]] = NoKey]]

-----------------------------------------------------------------------------
(* Transactions. bbolt gives the writer a private copy of the buckets,     *)
(* which readers do not see before Commit and which a rollback or a crash  *)
(* throws away; the writer lock admits one writer.                         *)

NoTx == [open |-> FALSE, db |-> EmptyBuckets, todo |-> <<>>, done |-> <<>>]

StoreInit == db = EmptyBuckets /\ tx = NoTx

\* Mutation of WriterFree: no writer lock.
NoWriterLock == TRUE

WriterFree == ~tx.open

\* Create and CreateBatch: open a write transaction for a list of requests.
Begin(reqs) ==
    /\ WriterFree
    /\ tx' = [open |-> TRUE, db |-> db, todo |-> reqs, done |-> <<>>]
    /\ UNCHANGED db

\* One item of the batch; its failure is a result and ends nothing.
CreateItem ==
    /\ tx.todo # <<>>
    /\ \E o \in CreateOutcomes(tx.db, Head(tx.todo)) :
          tx' = [tx EXCEPT !.db = o.db, !.todo = Tail(@), !.done = Append(@, o.res)]
    /\ UNCHANGED db

\* Mutation of Commit: the writer lock is not given back.
CommitKeepsLock ==
    /\ tx.open
    /\ tx.todo = <<>>
    /\ db' = tx.db
    /\ UNCHANGED tx

Commit ==
    /\ tx.open
    /\ tx.todo = <<>>
    /\ db' = tx.db
    /\ tx' = NoTx

\* A commit that fails, or the process dying before it: nothing was written.
Rollback ==
    /\ tx.open
    /\ tx' = NoTx
    /\ UNCHANGED db

\* Update and Delete are transactions of one step; the calls that fail
\* (ErrNotFound, ErrConflict) change nothing.
Update(k, t) ==
    /\ WriterFree
    /\ CanUpdate(db, k, t)
    /\ db' = Retargeted(db, k, t)
    /\ UNCHANGED tx

Delete(k) ==
    /\ WriterFree
    /\ db.links[k] # NoTarget
    /\ db' = Removed(db, k)
    /\ UNCHANGED tx

\* The lists of requests one transaction may be opened for.
Batches == UNION {[1..n -> Request] : n \in 1..MaxBatch}

StoreNext ==
    \/ \E reqs \in Batches : Begin(reqs)
    \/ CreateItem
    \/ Commit
    \/ Rollback
    \/ \E k \in Keys : Delete(k) \/ \E t \in Targets : Update(k, t)

StoreSpec == StoreInit /\ [][StoreNext]_storeVars

-----------------------------------------------------------------------------
\* The values the store's variables take: buckets hold keys and targets, an
\* open transaction has at most MaxBatch items between todo and done.
StoreTypeOK ==
    /\ db \in Buckets
    /\ tx.db \in Buckets
    /\ tx.open \in BOOLEAN
    /\ tx.todo \in Seq(Request)
    /\ tx.done \in Seq(Result)
    /\ tx = [open |-> tx.open, db |-> tx.db, todo |-> tx.todo, done |-> tx.done]
    /\ Len(tx.todo) + Len(tx.done) <= MaxBatch

\* The claim of store_bbolt.go:11-12: the two buckets are inverse to each other.
Mirrored(d) ==
    /\ \A t \in Targets : d.targets[t] # NoKey => d.links[d.targets[t]] = t
    /\ \A k \in Keys : d.links[k] # NoTarget => d.targets[d.links[k]] = k

\* Both in what readers see and inside an open transaction, whatever sequence
\* of creates, retargets and deletes led there.
BucketsInverse == Mirrored(db) /\ Mirrored(tx.db)

\* What CreateBatch reports about an item is so when the transaction commits,
\* however later items of the batch turned out: a successful item's key leads
\* to its target and its target to that key.
BatchReportTrue ==
    \A i \in DOMAIN tx.done :
        tx.done[i].err = "none" =>
            /\ tx.db.links[tx.done[i].key] = tx.done[i].target
            /\ tx.db.targets[tx.done[i].target] = tx.done[i].key

\* The links a transaction is going to publish are the ones it reports as
\* created, and nothing else changes: no lost update of a concurrent writer,
\* no write of a failed item that stays behind.
TxWritesAreReported ==
    tx.open =>
        {k \in Keys : tx.db.links[k] # db.links[k]} =
            {tx.done[i].key : i \in {j \in DOMAIN tx.done : tx.done[j].created}}

\* The store implements the map it promises.
Map == INSTANCE LinkMap WITH map <- db.links

ImplementsLinkMap == Map!Spec
=============================================================================
