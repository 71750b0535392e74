---------------------------- MODULE LinkApiProofs ----------------------------
(***************************************************************************)
(* Proofs about the link store and the link endpoints over it: what the    *)
(* buckets and transactions keep true, what a create request is answered,  *)
(* and what a client sees that pages through a namespace, for every set of *)
(* keys, targets and clients, every configuration of rules and namespaces, *)
(* every batch size and every interleaving of the requests.                *)
(***************************************************************************)
EXTENDS LinkApi, OrderProofs

-----------------------------------------------------------------------------
(* The operators on the buckets.                                           *)

\* The generator honours isFree: it returns only keys that no link has.
LEMMA GeneratedKeysAreFree ==
    ASSUME NEW d, NEW r, NEW k \in GenKeys(r, Free(d))
    PROVE  k \in Keys /\ d.links[k] = NoTarget
BY DEF GenKeys, FirstFree, Free

LEMMA NoKeyIsNoKey == NoKey \notin Keys
BY KeyRulesAssumption DEF NoKey

LEMMA NoTargetIsNoTarget == NoTarget \notin Targets
BY LinkStoreAssumption

LEMMA BucketsParts ==
    ASSUME NEW d \in Buckets
    PROVE  /\ d.links \in [Keys -> Targets \cup {NoTarget}]
           /\ d.targets \in [Targets -> Keys \cup {NoKey}]
           /\ d = [links |-> d.links, targets |-> d.targets]
BY DEF Buckets

\* Writing a free key and an unpublished target into both buckets keeps them
\* inverse to each other.
LEMMA InsertInverse ==
    ASSUME NEW d \in Buckets, Mirrored(d),
           NEW k \in Keys, d.links[k] = NoTarget,
           NEW t \in Targets, d.targets[t] = NoKey
    PROVE  /\ Insert(d, k, t) \in Buckets
           /\ Mirrored(Insert(d, k, t))
           /\ Insert(d, k, t).links = [d.links EXCEPT ![k] = t]
           /\ Insert(d, k, t).targets = [d.targets EXCEPT ![t] = k]
<1> USE NoKeyIsNoKey, NoTargetIsNoTarget
<1>0. /\ d.links \in [Keys -> Targets \cup {NoTarget}]
      /\ d.targets \in [Targets -> Keys \cup {NoKey}]
      /\ d = [links |-> d.links, targets |-> d.targets]
  BY BucketsParts
<1> USE <1>0
<1>1. Insert(d, k, t) \in Buckets
  BY DEF Insert, Buckets
<1>2. Mirrored(Insert(d, k, t))
  BY DEF Insert, Mirrored, Buckets
<1>3. QED
  BY <1>1, <1>2 DEF Insert

\* What createInTx does to the buckets: it fails or finds the target and
\* writes nothing, or it inserts a free key for a target that had none.
CreateEffect(d, r, o) ==
    \/ /\ o.db = d
       /\ ~o.res.created
       /\ o.res.err = "none" =>
              /\ o.res.key = d.targets[r.target]
              /\ o.res.target = d.links[o.res.key]
              /\ o.res.key \in Keys
              /\ o.res.target \in Targets
    \/ /\ o.res.created
       /\ o.res.err = "none"
       /\ o.res.key \in Keys
       /\ o.res.target = r.target
       /\ d.links[o.res.key] = NoTarget
       /\ d.targets[r.target] = NoKey
       /\ o.db = Insert(d, o.res.key, r.target)

LEMMA CreateDoes ==
    ASSUME NEW d \in Buckets, NEW r \in Request, NEW o \in CreateOutcomes(d, r)
    PROVE  o.res \in Result /\ CreateEffect(d, r, o)
<1> USE NoKeyIsNoKey, NoTargetIsNoTarget
<1>d. /\ d.links \in [Keys -> Targets \cup {NoTarget}]
      /\ d.targets \in [Targets -> Keys \cup {NoKey}]
      /\ d = [links |-> d.links, targets |-> d.targets]
  BY BucketsParts
<1> USE <1>d
<1>1. /\ r.target \in Targets
      /\ r.key \in Keys \cup {NoKey}
  BY DEF Request, ValidKeys
<1>2. CASE d.targets[r.target] # NoKey
  <2>1. o = CreateExisting(d, r)
    BY <1>2 DEF CreateOutcomes
  <2>2. d.targets[r.target] \in Keys
    BY <1>1, <1>2
  <2>3. QED
    BY <2>1, <2>2, <1>1 DEF CreateExisting, Failure, Success, Result, CreateEffect
<1>3. CASE d.targets[r.target] = NoKey /\ r.key # NoKey
  <2>1. o = CreateExplicit(d, r)
    BY <1>3 DEF CreateOutcomes
  <2>2. QED
    BY <2>1, <1>1, <1>3 DEF CreateExplicit, Failure, Success, Result, CreateEffect
<1>4. CASE d.targets[r.target] = NoKey /\ r.key = NoKey
  <2>1. o \in CreateGenerated(d, r)
    BY <1>4 DEF CreateOutcomes
  <2>2. CASE \E k \in GenKeys(r, Free(d)) :
                o = Success(Insert(d, k, r.target), k, r.target, TRUE)
    <3>1. PICK k \in GenKeys(r, Free(d)) :
                o = Success(Insert(d, k, r.target), k, r.target, TRUE)
      BY <2>2
    <3>2. k \in Keys /\ d.links[k] = NoTarget
      BY <3>1, GeneratedKeysAreFree
    <3>3. QED
      BY <3>1, <3>2, <1>1, <1>4 DEF Success, Result, CreateEffect
  <2>3. ASSUME NEW e \in {"forbidden", "conflict", "internal"}, o = Failure(d, e)
        PROVE  o.res \in Result /\ CreateEffect(d, r, o)
    <3>1. /\ o.db = d
          /\ o.res = [err |-> e, key |-> NoKey, target |-> NoTarget, created |-> FALSE]
      BY <2>3 DEF Failure
    <3>2. o.res \in Result
      BY <3>1 DEF Result
    <3>3. CreateEffect(d, r, o)
      BY <3>1 DEF CreateEffect
    <3>4. QED
      BY <3>2, <3>3
  <2>4. QED
    BY <2>1, <2>2, <2>3 DEF CreateGenerated
<1>5. QED
  BY <1>2, <1>3, <1>4

\* One create request leaves well-typed and inverse buckets, and its result is
\* what the buckets say.
LEMMA CreateKeepsInverse ==
    ASSUME NEW d \in Buckets, Mirrored(d), NEW r \in Request,
           NEW o \in CreateOutcomes(d, r)
    PROVE  /\ o.db \in Buckets
           /\ Mirrored(o.db)
           /\ o.res.err = "none" =>
                 /\ o.db.links[o.res.key] = o.res.target
                 /\ o.db.targets[o.res.target] = o.res.key
           /\ \A k \in Keys : d.links[k] # NoTarget => o.db.links[k] = d.links[k]
           /\ \A t \in Targets : d.targets[t] # NoKey => o.db.targets[t] = d.targets[t]
           /\ o.res.created => /\ o.res.key \in Keys
                               /\ d.links[o.res.key] = NoTarget
                               /\ o.db.links = [d.links EXCEPT ![o.res.key] = o.res.target]
                               /\ o.res.target \in Targets
           /\ ~o.res.created => o.db = d
<1> USE NoKeyIsNoKey, NoTargetIsNoTarget
<1>d. /\ d.links \in [Keys -> Targets \cup {NoTarget}]
      /\ d.targets \in [Targets -> Keys \cup {NoKey}]
      /\ d = [links |-> d.links, targets |-> d.targets]
  BY BucketsParts
<1> USE <1>d
<1>0. o.res \in Result /\ CreateEffect(d, r, o)
  BY CreateDoes
<1>1. r.target \in Targets
  BY DEF Request
<1>2. CASE ~o.res.created
  <2>1. o.db = d
    BY <1>0, <1>2 DEF CreateEffect
  <2>2. ASSUME o.res.err = "none"
        PROVE  d.links[o.res.key] = o.res.target /\ d.targets[o.res.target] = o.res.key
    BY <1>0, <1>2, <2>2 DEF CreateEffect, Mirrored
  <2>3. QED
    BY <1>2, <2>1, <2>2
<1>3. CASE o.res.created
  <2>1. /\ o.res.key \in Keys
        /\ d.links[o.res.key] = NoTarget
        /\ d.targets[r.target] = NoKey
        /\ o.res.target = r.target
        /\ o.db = Insert(d, o.res.key, r.target)
    BY <1>0, <1>3 DEF CreateEffect
  <2>2. /\ o.db \in Buckets
        /\ Mirrored(o.db)
        /\ o.db.links = [d.links EXCEPT ![o.res.key] = r.target]
        /\ o.db.targets = [d.targets EXCEPT ![r.target] = o.res.key]
    BY <1>1, <2>1, InsertInverse
  <2>3. QED
    BY <1>1, <1>3, <2>1, <2>2
<1>4. QED
  BY <1>2, <1>3

\* Retargeting a link to a target that is free or its own keeps the buckets
\* inverse: the entry of the old target goes.
LEMMA RetargetKeepsInverse ==
    ASSUME NEW d \in Buckets, Mirrored(d), NEW k \in Keys, NEW t \in Targets,
           CanUpdate(d, k, t)
    PROVE  /\ Retargeted(d, k, t) \in Buckets
           /\ Mirrored(Retargeted(d, k, t))
           /\ Retargeted(d, k, t).links = [d.links EXCEPT ![k] = t]
<1> USE NoKeyIsNoKey, NoTargetIsNoTarget
<1>0. /\ d.links \in [Keys -> Targets \cup {NoTarget}]
      /\ d.targets \in [Targets -> Keys \cup {NoKey}]
      /\ d = [links |-> d.links, targets |-> d.targets]
  BY BucketsParts
<1> USE <1>0
<1>1. CASE d.links[k] = t
  BY <1>1 DEF Retargeted
<1>2. CASE d.links[k] # t
  <2> DEFINE old == d.links[k]
             e == [d EXCEPT !.targets[old] = NoKey]
  <2>1. old \in Targets /\ d.targets[old] = k
    BY DEF CanUpdate, Mirrored
  <2>2. /\ e.links = d.links
        /\ e.targets = [d.targets EXCEPT ![old] = NoKey]
    BY DEF Buckets
  <2>3. d.targets[t] = NoKey
    BY <1>2 DEF CanUpdate, Mirrored
  <2>4. Retargeted(d, k, t) = [links |-> [d.links EXCEPT ![k] = t],
                               targets |-> [[d.targets EXCEPT ![old] = NoKey] EXCEPT ![t] = k]]
    BY <1>2, <2>2 DEF Retargeted, Insert
  <2>5. Retargeted(d, k, t) \in Buckets
    BY <2>4 DEF Buckets
  <2>6. Mirrored(Retargeted(d, k, t))
    BY <1>2, <2>1, <2>3, <2>4 DEF Mirrored
  <2>7. QED
    BY <2>4, <2>5, <2>6
<1>3. QED
  BY <1>1, <1>2

LEMMA RemoveKeepsInverse ==
    ASSUME NEW d \in Buckets, Mirrored(d), NEW k \in Keys, d.links[k] # NoTarget
    PROVE  /\ Removed(d, k) \in Buckets
           /\ Mirrored(Removed(d, k))
           /\ Removed(d, k).links = [d.links EXCEPT ![k] = NoTarget]
<1> USE NoKeyIsNoKey, NoTargetIsNoTarget
<1>0. /\ d.links \in [Keys -> Targets \cup {NoTarget}]
      /\ d.targets \in [Targets -> Keys \cup {NoKey}]
      /\ d = [links |-> d.links, targets |-> d.targets]
  BY BucketsParts
<1> USE <1>0
<1>1. d.links[k] \in Targets /\ d.targets[d.links[k]] = k
  BY DEF Mirrored
<1>2. Removed(d, k) \in Buckets
  BY DEF Removed, Buckets
<1>3. Mirrored(Removed(d, k))
  BY <1>1 DEF Removed, Mirrored
<1>4. QED
  BY <1>2, <1>3 DEF Removed

LEMMA EmptyInverse == EmptyBuckets \in Buckets /\ Mirrored(EmptyBuckets)
BY DEF EmptyBuckets, Buckets, Mirrored

-----------------------------------------------------------------------------
(* The inductive invariant. A success that the open transaction reports is *)
(* about a key and a target that exist, and what was published when it     *)
(* began is still in its copy.                                             *)

SuccessesAreLinks ==
    \A i \in DOMAIN tx.done :
        /\ tx.done[i].err = "none" => tx.done[i].key \in Keys /\ tx.done[i].target \in Targets
        /\ tx.done[i].created => tx.done[i].err = "none"

TxExtendsDb ==
    tx.open => \A k \in Keys : db.links[k] # NoTarget => tx.db.links[k] = db.links[k]

StoreInv ==
    /\ StoreTypeOK
    /\ BucketsInverse
    /\ BatchReportTrue
    /\ TxWritesAreReported
    /\ SuccessesAreLinks
    /\ TxExtendsDb

\* An idle transaction satisfies every part that is about it.
LEMMA NoTxHolds ==
    ASSUME tx = NoTx, db \in Buckets, Mirrored(db)
    PROVE  StoreInv
<1> USE DEF NoTx
<1>1. StoreTypeOK
  BY EmptyInverse, LinkStoreAssumption DEF StoreTypeOK
<1>2. BucketsInverse
  BY EmptyInverse DEF BucketsInverse
<1>3. BatchReportTrue /\ TxWritesAreReported /\ SuccessesAreLinks /\ TxExtendsDb
  BY DEF BatchReportTrue, TxWritesAreReported, SuccessesAreLinks, TxExtendsDb
<1>4. QED
  BY <1>1, <1>2, <1>3 DEF StoreInv

LEMMA StoreInitInv == StoreInit => StoreInv
BY NoTxHolds, EmptyInverse DEF StoreInit

LEMMA BeginKeepsInv ==
    ASSUME StoreInv, NEW reqs \in Batches, Begin(reqs)
    PROVE  StoreInv'
<1>0. /\ tx' = [open |-> TRUE, db |-> db, todo |-> reqs, done |-> <<>>]
      /\ db' = db
  BY DEF Begin
<1>1. reqs \in Seq(Request) /\ Len(reqs) <= MaxBatch /\ Len(reqs) \in Nat
  <2>1. PICK n \in 1..MaxBatch : reqs \in [1..n -> Request]
    BY DEF Batches
  <2>2. n \in Nat /\ n <= MaxBatch
    BY <2>1, LinkStoreAssumption
  <2>3. QED
    BY <2>1, <2>2
<1>2. StoreTypeOK'
  BY <1>0, <1>1, LinkStoreAssumption DEF StoreInv, StoreTypeOK
<1>3. BucketsInverse'
  BY <1>0 DEF StoreInv, BucketsInverse
<1>4. (BatchReportTrue /\ TxWritesAreReported /\ SuccessesAreLinks /\ TxExtendsDb)'
  BY <1>0 DEF BatchReportTrue, TxWritesAreReported, SuccessesAreLinks, TxExtendsDb
<1>5. QED
  BY <1>2, <1>3, <1>4 DEF StoreInv

LEMMA CreateItemKeepsInv ==
    ASSUME StoreInv, tx.open, CreateItem
    PROVE  StoreInv'
<1> DEFINE r == Head(tx.todo)
           n == Len(tx.done)
<1>t. /\ db \in Buckets /\ tx.db \in Buckets
      /\ Mirrored(db) /\ Mirrored(tx.db)
      /\ tx.open \in BOOLEAN /\ tx.todo \in Seq(Request) /\ tx.done \in Seq(Result)
      /\ tx = [open |-> tx.open, db |-> tx.db, todo |-> tx.todo, done |-> tx.done]
      /\ n + Len(tx.todo) <= MaxBatch
      /\ tx.todo # <<>>
      /\ n \in Nat
  BY DEF StoreInv, StoreTypeOK, BucketsInverse, CreateItem
<1>r. r \in Request
  BY <1>t
<1>1. PICK o \in CreateOutcomes(tx.db, r) :
        tx' = [tx EXCEPT !.db = o.db, !.todo = Tail(@), !.done = Append(@, o.res)]
  BY DEF CreateItem
<1>2. /\ tx' = [open |-> TRUE, db |-> o.db, todo |-> Tail(tx.todo),
                done |-> Append(tx.done, o.res)]
      /\ db' = db
  BY <1>t, <1>1 DEF CreateItem
<1>3. o.res \in Result /\ CreateEffect(tx.db, r, o)
  BY <1>t, <1>r, CreateDoes
<1>4. /\ o.db \in Buckets
      /\ Mirrored(o.db)
      /\ o.res.err = "none" =>
            /\ o.db.links[o.res.key] = o.res.target
            /\ o.db.targets[o.res.target] = o.res.key
      /\ \A k \in Keys : tx.db.links[k] # NoTarget => o.db.links[k] = tx.db.links[k]
      /\ \A t \in Targets : tx.db.targets[t] # NoKey => o.db.targets[t] = tx.db.targets[t]
      /\ o.res.created => /\ o.res.key \in Keys
                          /\ tx.db.links[o.res.key] = NoTarget
                          /\ o.db.links = [tx.db.links EXCEPT ![o.res.key] = o.res.target]
                          /\ o.res.target \in Targets
      /\ ~o.res.created => o.db = tx.db
  <2>1. tx.db \in Buckets /\ Mirrored(tx.db) /\ r \in Request
    BY <1>t, <1>r
  <2> HIDE DEF r
  <2>2. QED
    BY ONLY <2>1, <1>1, CreateKeepsInverse
\* The results after the step: the old ones and one more.
<1>5. /\ Len(tx'.done) = n + 1
      /\ DOMAIN tx'.done = 1..(n + 1)
      /\ DOMAIN tx.done = 1..n
      /\ tx'.done[n + 1] = o.res
      /\ \A i \in 1..n : tx'.done[i] = tx.done[i]
  BY <1>t, <1>2, <1>3
<1>6. StoreTypeOK'
  <2>1. Tail(tx.todo) \in Seq(Request) /\ Len(Tail(tx.todo)) = Len(tx.todo) - 1
    BY <1>t
  <2>2. Append(tx.done, o.res) \in Seq(Result) /\ Len(Append(tx.done, o.res)) = n + 1
    BY <1>t, <1>3
  <2>3. Len(tx.todo) \in Nat /\ MaxBatch \in Nat
    BY <1>t, LinkStoreAssumption
  <2>4. Len(tx'.todo) + Len(tx'.done) <= MaxBatch
    BY <1>t, <1>2, <2>1, <2>2, <2>3
  <2>5. QED
    BY <1>t, <1>2, <1>4, <2>1, <2>2, <2>4 DEF StoreTypeOK
<1>7. BucketsInverse'
  BY <1>t, <1>2, <1>4 DEF BucketsInverse
<1>8. SuccessesAreLinks'
  <2>1. /\ o.res.err = "none" => o.res.key \in Keys /\ o.res.target \in Targets
        /\ o.res.created => o.res.err = "none"
    BY <1>3, <1>r DEF CreateEffect, Request
  <2>2. ASSUME NEW i \in DOMAIN tx'.done
        PROVE  /\ tx'.done[i].err = "none" =>
                      tx'.done[i].key \in Keys /\ tx'.done[i].target \in Targets
               /\ tx'.done[i].created => tx'.done[i].err = "none"
    <3>1. i = n + 1 \/ i \in 1..n
      BY <1>t, <1>5, <2>2
    <3>2. QED
      BY <1>5, <2>1, <3>1 DEF StoreInv, SuccessesAreLinks
  <2>3. QED
    BY <2>2 DEF SuccessesAreLinks
<1>9. BatchReportTrue'
  <2>1. ASSUME NEW i \in DOMAIN tx'.done, tx'.done[i].err = "none"
        PROVE  /\ o.db.links[tx'.done[i].key] = tx'.done[i].target
               /\ o.db.targets[tx'.done[i].target] = tx'.done[i].key
    <3>1. CASE i = n + 1
      BY <1>4, <1>5, <2>1, <3>1
    <3>2. CASE i \in 1..n
      <4>1. /\ tx.done[i].key \in Keys
            /\ tx.done[i].target \in Targets
            /\ tx.db.links[tx.done[i].key] = tx.done[i].target
            /\ tx.db.targets[tx.done[i].target] = tx.done[i].key
            /\ tx'.done[i] = tx.done[i]
        BY <1>5, <2>1, <3>2 DEF StoreInv, BatchReportTrue, SuccessesAreLinks
      <4>2. QED
        BY <1>4, <4>1, NoKeyIsNoKey, NoTargetIsNoTarget
    <3>3. QED
      BY <1>t, <1>5, <2>1, <3>1, <3>2
  <2>2. QED
    BY <1>2, <2>1 DEF BatchReportTrue
<1>10. TxExtendsDb'
  BY <1>2, <1>4 DEF StoreInv, TxExtendsDb
<1>11. TxWritesAreReported'
  <2> DEFINE Changed == {k \in Keys : tx.db.links[k] # db.links[k]}
             Created == {tx.done[i].key : i \in {j \in DOMAIN tx.done : tx.done[j].created}}
             ChangedNow == {k \in Keys : o.db.links[k] # db.links[k]}
             CreatedNow ==
                 {tx'.done[i].key : i \in {j \in DOMAIN tx'.done : tx'.done[j].created}}
  <2>1. Changed = Created
    BY DEF StoreInv, TxWritesAreReported
  <2>l. tx.db.links \in [Keys -> Targets \cup {NoTarget}]
    BY <1>t, BucketsParts
  <2>2. ASSUME o.res.created
        PROVE  ChangedNow = CreatedNow
    <3>1. CreatedNow = Created \cup {o.res.key}
      <4>1. ASSUME NEW k PROVE k \in CreatedNow <=> k \in Created \cup {o.res.key}
        <5>1. k \in CreatedNow <=> \E i \in 1..(n + 1) : tx'.done[i].created /\ k = tx'.done[i].key
          BY <1>5
        <5>2. k \in Created <=> \E i \in 1..n : tx.done[i].created /\ k = tx.done[i].key
          BY <1>5
        <5>3. 1..(n + 1) = 1..n \cup {n + 1}
          BY <1>t
        <5>4. QED
          BY <1>5, <2>2, <5>1, <5>2, <5>3
      <4>2. QED
        BY <4>1
    <3>2. ChangedNow = Changed \cup {o.res.key}
      <4>1. db.links[o.res.key] = NoTarget
        BY <1>4, <2>2 DEF StoreInv, TxExtendsDb
      <4>2. o.db.links[o.res.key] # NoTarget
        BY <1>4, <2>2, <2>l, NoTargetIsNoTarget
      <4>3. \A k \in Keys : k # o.res.key => o.db.links[k] = tx.db.links[k]
        BY <1>4, <2>2, <2>l
      <4>4. o.res.key \in Keys
        BY <1>4, <2>2
      <4>5. ASSUME NEW k \in Keys
            PROVE  o.db.links[k] # db.links[k] <=>
                      tx.db.links[k] # db.links[k] \/ k = o.res.key
        BY <4>1, <4>2, <4>3
      <4>6. QED
        BY <4>4, <4>5
    <3>3. QED
      BY <2>1, <3>1, <3>2
  <2>3. ASSUME ~o.res.created
        PROVE  ChangedNow = CreatedNow
    <3>1. CreatedNow = Created
      <4>1. ASSUME NEW k PROVE k \in CreatedNow <=> k \in Created
        <5>1. k \in CreatedNow <=> \E i \in 1..(n + 1) : tx'.done[i].created /\ k = tx'.done[i].key
          BY <1>5
        <5>2. k \in Created <=> \E i \in 1..n : tx.done[i].created /\ k = tx.done[i].key
          BY <1>5
        <5>3. 1..(n + 1) = 1..n \cup {n + 1}
          BY <1>t
        <5>4. QED
          BY <1>5, <2>3, <5>1, <5>2, <5>3
      <4>2. QED
        BY <4>1
    <3>2. QED
      BY <1>4, <2>1, <2>3, <3>1
  <2>4. ChangedNow = CreatedNow
    BY <2>2, <2>3
  <2>5. QED
    BY <1>2, <2>4 DEF TxWritesAreReported
<1>12. QED
  BY <1>6, <1>7, <1>8, <1>9, <1>10, <1>11 DEF StoreInv

\* A step that ends a transaction, or runs while none is open.
LEMMA IdleKeepsInv ==
    ASSUME StoreInv, db' \in Buckets, Mirrored(db'), tx' = NoTx \/ (tx' = tx /\ ~tx.open)
    PROVE  StoreInv'
<1>1. CASE tx' = NoTx
  BY <1>1, EmptyInverse, LinkStoreAssumption
  DEF NoTx, StoreInv, StoreTypeOK, BucketsInverse, BatchReportTrue,
      TxWritesAreReported, SuccessesAreLinks, TxExtendsDb
<1>2. CASE tx' = tx /\ ~tx.open
  BY <1>2
  DEF StoreInv, StoreTypeOK, BucketsInverse, BatchReportTrue,
      TxWritesAreReported, SuccessesAreLinks, TxExtendsDb
<1>3. QED
  BY <1>1, <1>2

\* Only an open transaction has items to do.
IdleHasNothingToDo == tx.todo # <<>> => tx.open

LEMMA StoreStepKeepsInv ==
    ASSUME StoreInv, IdleHasNothingToDo, [StoreNext]_storeVars
    PROVE  StoreInv' /\ IdleHasNothingToDo'
<1> USE DEF IdleHasNothingToDo
<1>t. db \in Buckets /\ Mirrored(db)
  BY DEF StoreInv, StoreTypeOK, BucketsInverse
<1>1. ASSUME NEW reqs \in Batches, Begin(reqs)
      PROVE  StoreInv' /\ IdleHasNothingToDo'
  BY <1>1, BeginKeepsInv DEF Begin
<1>2. ASSUME CreateItem
      PROVE  StoreInv' /\ IdleHasNothingToDo'
  <2>1. tx.open
    BY <1>2 DEF CreateItem
  <2>2. tx'.open
    BY <1>2, <2>1 DEF CreateItem, StoreInv, StoreTypeOK
  <2>3. QED
    BY <1>2, <2>1, <2>2, CreateItemKeepsInv
<1>3. ASSUME Commit
      PROVE  StoreInv' /\ IdleHasNothingToDo'
  <2>1. db' \in Buckets /\ Mirrored(db') /\ tx' = NoTx
    BY <1>3 DEF Commit, StoreInv, StoreTypeOK, BucketsInverse
  <2>2. QED
    BY <2>1, IdleKeepsInv DEF NoTx
<1>4. ASSUME Rollback
      PROVE  StoreInv' /\ IdleHasNothingToDo'
  BY <1>4, <1>t, IdleKeepsInv DEF Rollback, NoTx
<1>5. ASSUME NEW k \in Keys, NEW t \in Targets, Update(k, t)
      PROVE  StoreInv' /\ IdleHasNothingToDo'
  <2>1. db' \in Buckets /\ Mirrored(db')
    BY <1>5, <1>t, RetargetKeepsInverse DEF Update
  <2>2. QED
    BY <1>5, <2>1, IdleKeepsInv DEF Update, WriterFree
<1>6. ASSUME NEW k \in Keys, Delete(k)
      PROVE  StoreInv' /\ IdleHasNothingToDo'
  <2>1. db' \in Buckets /\ Mirrored(db')
    BY <1>6, <1>t, RemoveKeepsInverse DEF Delete
  <2>2. QED
    BY <1>6, <2>1, IdleKeepsInv DEF Delete, WriterFree
<1>7. CASE UNCHANGED storeVars
  BY <1>7
  DEF storeVars, StoreInv, StoreTypeOK, BucketsInverse, BatchReportTrue,
      TxWritesAreReported, SuccessesAreLinks, TxExtendsDb
<1>8. QED
  BY <1>1, <1>2, <1>3, <1>4, <1>5, <1>6, <1>7 DEF StoreNext

LEMMA StoreInvHolds == StoreSpec => [](StoreInv /\ IdleHasNothingToDo)
<1>1. StoreInit => StoreInv /\ IdleHasNothingToDo
  BY StoreInitInv DEF StoreInit, NoTx, IdleHasNothingToDo
<1>2. StoreInv /\ IdleHasNothingToDo /\ [StoreNext]_storeVars
          => (StoreInv /\ IdleHasNothingToDo)'
  BY StoreStepKeepsInv
<1>3. QED
  BY <1>1, <1>2, PTL DEF StoreSpec

-----------------------------------------------------------------------------
\* The store's variables keep their types, and a transaction its batch limit
\* (store_bbolt.go:138-154).
THEOREM StoreTyped == StoreSpec => []StoreTypeOK
<1>1. StoreInv => StoreTypeOK
  BY DEF StoreInv
<1>2. QED
  BY <1>1, StoreInvHolds, PTL

\* The claim of store_bbolt.go:11-12: links and targets stay inverse to each
\* other through every create, batch, retarget, delete, rollback and crash.
THEOREM StoreInverse == StoreSpec => []BucketsInverse
<1>1. StoreInv => BucketsInverse
  BY DEF StoreInv
<1>2. QED
  BY <1>1, StoreInvHolds, PTL

\* A batch's report is true of what the transaction will commit.
THEOREM StoreReportTrue == StoreSpec => []BatchReportTrue
<1>1. StoreInv => BatchReportTrue
  BY DEF StoreInv
<1>2. QED
  BY <1>1, StoreInvHolds, PTL

\* A transaction publishes exactly the links it reports as created.
THEOREM StoreWritesReported == StoreSpec => []TxWritesAreReported
<1>1. StoreInv => TxWritesAreReported
  BY DEF StoreInv
<1>2. QED
  BY <1>1, StoreInvHolds, PTL

-----------------------------------------------------------------------------
(* Refinement: the committed links implement the map of LinkMap.           *)

LEMMA InverseIsInjective ==
    ASSUME NEW d \in Buckets, Mirrored(d)
    PROVE  Map!Injective(d.links)
BY DEF Mirrored, Map!Injective, Buckets

LEMMA StoreStepImplements ==
    ASSUME StoreInv, IdleHasNothingToDo, StoreInv', [StoreNext]_storeVars
    PROVE  [Map!Next]_(db.links)
<1>t. /\ db \in Buckets /\ Mirrored(db)
      /\ tx.db \in Buckets /\ Mirrored(tx.db)
      /\ db.links \in [Keys -> Targets \cup {NoTarget}]
  BY BucketsParts DEF StoreInv, StoreTypeOK, BucketsInverse
<1>1. ASSUME NEW reqs \in Batches, Begin(reqs)
      PROVE  UNCHANGED db.links
  BY <1>1 DEF Begin
<1>2. ASSUME CreateItem
      PROVE  UNCHANGED db.links
  BY <1>2 DEF CreateItem
<1>3. ASSUME Commit
      PROVE  Map!Publish
  <2>1. db' = tx.db /\ tx.open
    BY <1>3 DEF Commit
  <2>2. tx.db.links \in [Keys -> Targets \cup {NoTarget}]
    BY <1>t, BucketsParts
  <2>3. \A k \in Keys : db.links[k] # NoTarget => tx.db.links[k] = db.links[k]
    BY <2>1 DEF StoreInv, TxExtendsDb
  <2>4. Map!Injective(tx.db.links)
    BY <1>t, InverseIsInjective
  <2>5. QED
    BY <2>1, <2>2, <2>3, <2>4 DEF Map!Publish
<1>4. ASSUME Rollback
      PROVE  UNCHANGED db.links
  BY <1>4 DEF Rollback
<1>5. ASSUME NEW k \in Keys, NEW t \in Targets, Update(k, t)
      PROVE  Map!Retarget(k, t) \/ UNCHANGED db.links
  <2>1. /\ CanUpdate(db, k, t)
        /\ db' = Retargeted(db, k, t)
    BY <1>5 DEF Update
  <2>2. CASE db.links[k] = t
    BY <2>1, <2>2 DEF Retargeted
  <2>3. CASE db.links[k] # t
    <3>1. db'.links = [db.links EXCEPT ![k] = t]
      BY <1>t, <2>1, RetargetKeepsInverse
    <3>2. \A j \in Keys : db.links[j] # t
      BY <1>t, <2>1, <2>3, NoKeyIsNoKey, NoTargetIsNoTarget DEF CanUpdate, Mirrored
    <3>3. QED
      BY <2>1, <3>1, <3>2 DEF Map!Retarget, CanUpdate
  <2>4. QED
    BY <2>2, <2>3
<1>6. ASSUME NEW k \in Keys, Delete(k)
      PROVE  Map!Remove(k)
  <2>1. db.links[k] # NoTarget /\ db' = Removed(db, k)
    BY <1>6 DEF Delete
  <2>2. db'.links = [db.links EXCEPT ![k] = NoTarget]
    BY <1>t, <2>1, RemoveKeepsInverse
  <2>3. QED
    BY <2>1, <2>2 DEF Map!Remove
<1>7. CASE UNCHANGED storeVars
  BY <1>7 DEF storeVars
<1>8. QED
  BY <1>1, <1>2, <1>3, <1>4, <1>5, <1>6, <1>7 DEF StoreNext, Map!Next

\* What readers see is an injective map in which a published key changes only
\* by a retarget or a delete: batches, failed items, rollbacks and crashes
\* appear as one publication of several keys or as nothing.
THEOREM StoreImplementsMap == StoreSpec => ImplementsLinkMap
<1>1. StoreInit => Map!Init
  BY DEF StoreInit, EmptyBuckets, Map!Init
<1>2. StoreInv /\ IdleHasNothingToDo /\ StoreInv' /\ [StoreNext]_storeVars
          => [Map!Next]_(db.links)
  BY StoreStepImplements
<1>3. QED
  BY <1>1, <1>2, StoreInvHolds, PTL DEF StoreSpec, ImplementsLinkMap, Map!Spec

-----------------------------------------------------------------------------
(* The inductive invariant of the endpoints.                               *)

Outcome == [err : ApiErrors, key : Keys \cup {NoKey},
            target : Targets \cup {NoTarget}, created : BOOLEAN]

Stages == {"idle", "prepare", "get", "write", "list"}

ApiTypes ==
    /\ pc \in [Clients -> Stages]
    /\ items \in [Clients -> Seq(Item)]
    /\ prepared \in [Clients -> Seq(Outcome)]
    /\ found \in [Clients -> Keys \cup {NoKey}]
    /\ owner \in Clients \cup {NoClient}
    /\ churn \in Nat

\* One client's request: at most a batch, its items prepared in order. The
\* second lookup is that of an item without a key; what is left for the store
\* has a key that the client may write, and what has been answered has the key
\* that was asked for; nothing is pending in a response.
Sound(c, p, its, outs, f) ==
    /\ Len(its) <= MaxBatch
    /\ Len(outs) <= Len(its)
    /\ p = "get" => /\ Len(outs) < Len(its)
                    /\ its[Len(outs) + 1].key = NoKey
                    /\ f \in Keys
    /\ p \in {"idle", "list"} => PendingIn(outs) = {}
    /\ \A i \in DOMAIN outs :
           its[i].key # NoKey =>
               /\ outs[i].err = "pending" => CanAccess(c, its[i].key)
               /\ outs[i].err = "none" => outs[i].key = its[i].key /\ outs[i].target = its[i].target

AllSound == \A c \in Clients : Sound(c, pc[c], items[c], prepared[c], found[c])

Published(d, k, t) ==
    k \in Keys /\ t \in Targets /\ d.links[k] = t /\ d.targets[t] = k

\* What one client was answered or has found is so in the buckets d.
Agrees(p, its, outs, f, d) ==
    /\ \A i \in DOMAIN outs : outs[i].err = "none" => Published(d, outs[i].key, its[i].target)
    /\ p = "get" => Published(d, f, its[Len(outs) + 1].target)

\* It stays so while no link is retargeted or deleted.
AllAgree ==
    churn = 0 => \A c \in Clients : Agrees(pc[c], items[c], prepared[c], found[c], db)

\* The write transaction is that of the request that waits for it.
Owned ==
    /\ tx.open <=> owner # NoClient
    /\ \A c \in Clients : pc[c] = "write" <=> owner = c

AskedOf(c, item) == [target |-> item.target, key |-> item.key, client |-> c]

\* A result that the item may be given.
Answers(item, res) ==
    res.err = "none" =>
        res.target = item.target /\ (item.key # NoKey => res.key = item.key)

\* The transaction's results are those of the first pending items, and the
\* other pending items are what it has to do.
Aligned(c, its, outs, t) ==
    LET pend == PendingIn(outs)
    IN  /\ Len(t.done) + Len(t.todo) = Cardinality(pend)
        /\ \A i \in pend :
               /\ Rank(i, pend) <= Len(t.done) => Answers(its[i], t.done[Rank(i, pend)])
               /\ Rank(i, pend) > Len(t.done) =>
                      t.todo[Rank(i, pend) - Len(t.done)] = AskedOf(c, its[i])

\* The transaction asks for and has created keys that the client may write.
Entitled(c, t) ==
    /\ \A j \in DOMAIN t.todo :
           /\ t.todo[j].client = c
           /\ t.todo[j].key # NoKey => CanAccess(c, t.todo[j].key)
    /\ \A j \in DOMAIN t.done : t.done[j].created => CanAccess(c, t.done[j].key)

TxServes ==
    tx.open => /\ Aligned(owner, items[owner], prepared[owner], tx)
               /\ Entitled(owner, tx)

CreateInv ==
    /\ StoreInv /\ IdleHasNothingToDo
    /\ ApiTypes /\ AllSound /\ AllAgree /\ Owned /\ TxServes

-----------------------------------------------------------------------------
Listing == [ask : SUBSET Keys, cursor : Keys \cup {NoKey}, page : SUBSET Keys,
            got : SUBSET Keys, keep : SUBSET Keys, seen : SUBSET Keys, full : BOOLEAN]

\* What the progress l of c's paging has shown, on the buckets d.
Paged(c, l, d) ==
    /\ l.keep \subseteq Present(d) \cap l.ask
    /\ l.got \cup l.page \subseteq l.seen \cap l.ask
    /\ l.ask = {} \/ Present(d) \subseteq l.seen

\* Up to the cursor, and at the end without a limit, all has been shown.
UpToCursor(c, l) ==
    /\ \A k \in l.keep :
           k <= l.cursor \/ (l.full /\ l.cursor = NoKey) => k \in l.got \cup l.page
    /\ ~l.full => /\ Cardinality(l.page) < PageLimit
                  /\ \A k \in l.page : k <= l.cursor
                  /\ ~Filtered(c, l.ask) => l.page = {}

PagingInv ==
    /\ listing \in [Clients -> Listing]
    /\ \A c \in Clients :
           /\ Paged(c, listing[c], db)
           /\ IF pc[c] = "list" THEN UpToCursor(c, listing[c])
              ELSE listing[c].keep \subseteq listing[c].got

-----------------------------------------------------------------------------
(* Paging.                                                                 *)

LEMMA KeysAreNumbers ==
    /\ IsFiniteSet(Keys) /\ Keys \subseteq Nat /\ NoKey = 0 /\ NoKey \notin Keys
    /\ PageLimit \in Nat /\ PageLimit >= 1
<1>1. Keys \subseteq Nat \ {0}
  BY KeyRulesAssumption
<1>2. IsFiniteSet(Keys) /\ PageLimit \in Nat \ {0}
  BY LinkApiAssumption
<1> QED  BY <1>1, <1>2 DEF NoKey

LEMMA CursorIsNumber == \A k \in Keys \cup {NoKey} : k \in Nat
<1> SUFFICES ASSUME NEW k \in Keys \cup {NoKey} PROVE k \in Nat
  OBVIOUS
<1>1. CASE k \in Keys
  BY <1>1, KeysAreNumbers
<1>2. CASE k = NoKey
  BY <1>2 DEF NoKey
<1> QED  BY <1>1, <1>2

\* The keys of one List call: an initial segment of those ahead of the cursor,
\* and all of them unless the page is full.
LEMMA BatchFacts ==
    ASSUME NEW ahead \in SUBSET Keys, NEW cursor \in Keys \cup {NoKey},
           \A k \in ahead : k > cursor,
           NEW batch, batch = FirstOf(PageLimit, ahead),
           NEW next, next = NextCursor(batch, PageLimit)
    PROVE  /\ batch \subseteq ahead
           /\ batch \subseteq Keys /\ IsFiniteSet(batch) /\ Cardinality(batch) <= PageLimit
           /\ \A k \in batch, j \in ahead : j < k => j \in batch
           /\ \A k \in batch : cursor < k
           /\ next = NoKey => batch = ahead
           /\ next # NoKey => /\ next \in batch /\ \A k \in batch : k <= next
                              /\ Cardinality(batch) = PageLimit
<1>1. ahead \in SUBSET Keys /\ \A k \in ahead : k > cursor
  OBVIOUS
<1>2. IsFiniteSet(ahead) /\ ahead \subseteq Nat /\ PageLimit \in Nat
  <2>1. IsFiniteSet(ahead)
    BY <1>1, KeysAreNumbers, FS_Subset
  <2> QED  BY <1>1, <2>1, KeysAreNumbers
<1>3. batch = FirstOf(PageLimit, ahead)
  OBVIOUS
<1>4. /\ batch \subseteq ahead
      /\ \A k \in batch, j \in ahead : j < k => j \in batch
      /\ IsFiniteSet(batch)
      /\ Cardinality(batch) <= PageLimit
      /\ batch # ahead => Cardinality(batch) = PageLimit
  <2> DEFINE first == FirstOf(PageLimit, ahead)
  <2>1. /\ first \subseteq ahead
        /\ \A k \in first, j \in ahead : j < k => j \in first
        /\ IsFiniteSet(first)
        /\ Cardinality(first) <= PageLimit
        /\ first # ahead => Cardinality(first) = PageLimit
    BY <1>2, FirstOfFacts
  <2>2. batch = first
    BY <1>3
  <2> HIDE DEF first
  <2> QED  BY <2>1, <2>2
<1>5. Cardinality(batch) \in Nat
  BY <1>4, FS_CardinalityType
<1>6. batch \subseteq Keys /\ batch \subseteq Nat /\ \A k \in batch : k > cursor
  BY <1>1, <1>2, <1>4
<1>7. \A k \in batch : cursor < k
  BY <1>6, KeysAreNumbers
<1>8. CASE Cardinality(batch) < PageLimit
  <2>1. next = NoKey
    BY <1>8 DEF NextCursor
  <2>2. batch = ahead
    BY <1>4, <1>5, <1>8, KeysAreNumbers
  <2> QED  BY <1>4, <1>6, <1>7, <2>1, <2>2
<1>9. CASE ~(Cardinality(batch) < PageLimit)
  <2>1. next = Greatest(batch)
    BY <1>9 DEF NextCursor
  <2>2. batch # {} /\ Cardinality(batch) = PageLimit
    BY <1>4, <1>5, <1>9, KeysAreNumbers, FS_EmptySet
  <2>3. next \in batch /\ \A k \in batch : k <= next
    BY <1>4, <1>6, <2>1, <2>2, GreatestNatural
  <2>4. next # NoKey
    BY <1>6, <2>3, KeysAreNumbers
  <2> QED  BY <1>4, <1>6, <1>7, <2>2, <2>3, <2>4
<1> QED  BY <1>8, <1>9

\* The keys that fit into the page: an initial segment of the client's keys in
\* the batch, and all of them unless they fill the page.
LEMMA FittingFacts ==
    ASSUME NEW l \in Listing, NEW batch \in SUBSET Keys,
           Cardinality(l.page) < PageLimit,
           \A k \in l.page : k <= l.cursor, \A k \in batch : l.cursor < k,
           NEW page, page = l.page \cup Fitting(l, batch)
    PROVE  /\ Fitting(l, batch) \subseteq batch \cap l.ask
           /\ \A k \in Fitting(l, batch), j \in batch \cap l.ask :
                  j < k => j \in Fitting(l, batch)
           /\ page \subseteq Keys /\ IsFiniteSet(page) /\ Cardinality(page) \in Nat
           /\ Cardinality(page) <= PageLimit
           /\ Fitting(l, batch) # batch \cap l.ask => Cardinality(page) = PageLimit
<1> DEFINE mine == batch \cap l.ask
           n == PageLimit - Cardinality(l.page)
           F == Fitting(l, batch)
<1>0. l.page \in SUBSET Keys /\ l.cursor \in Nat
  <2>1. l.page \in SUBSET Keys /\ l.cursor \in Keys \cup {NoKey}
    BY DEF Listing
  <2> QED  BY <2>1, CursorIsNumber
<1>1. IsFiniteSet(l.page) /\ Cardinality(l.page) \in Nat
  BY <1>0, KeysAreNumbers, FS_Subset, FS_CardinalityType
<1>2. n \in Nat
  BY <1>1, KeysAreNumbers
<1>3. mine \in SUBSET Keys
  OBVIOUS
<1>4. IsFiniteSet(mine) /\ mine \subseteq Nat
  <2> HIDE DEF mine
  <2> QED  BY <1>3, KeysAreNumbers, FS_Subset
<1>5. F = FirstOf(n, mine)
  BY DEF Fitting
<1> HIDE DEF F, n
<1>6. /\ F \subseteq mine
      /\ \A k \in F, j \in mine : j < k => j \in F
      /\ IsFiniteSet(F)
      /\ Cardinality(F) <= n
      /\ F # mine => Cardinality(F) = n
  <2> HIDE DEF mine
  <2> QED  BY <1>2, <1>4, <1>5, FirstOfFacts
<1>7. l.page \cap F = {}
  <2> SUFFICES ASSUME NEW k \in l.page, k \in F PROVE FALSE
    OBVIOUS
  <2>1. k \in Nat /\ k <= l.cursor /\ l.cursor < k
    BY <1>0, <1>6, KeysAreNumbers
  <2> QED  BY <1>0, <2>1
<1>8. page = l.page \cup F
  BY DEF F
<1>9. IsFiniteSet(page) /\ Cardinality(page) = Cardinality(l.page) + Cardinality(F)
  <2>1. /\ IsFiniteSet(l.page \cup F)
        /\ Cardinality(l.page \cup F)
             = Cardinality(l.page) + Cardinality(F) - Cardinality(l.page \cap F)
    BY <1>1, <1>6, FS_Union
  <2>2. Cardinality(l.page \cap F) = 0
    BY <1>7, FS_EmptySet
  <2>3. Cardinality(F) \in Nat
    BY <1>6, FS_CardinalityType
  <2> DEFINE a == Cardinality(l.page)
             b == Cardinality(F)
             o == Cardinality(l.page \cap F)
             u == Cardinality(l.page \cup F)
  <2>4. u = a + b - o /\ o = 0 /\ a \in Nat /\ b \in Nat
    BY <1>1, <2>1, <2>2, <2>3
  <2> HIDE DEF a, b, o, u
  <2>5. u = a + b
    BY <2>4
  <2> QED  BY <1>8, <2>1, <2>5 DEF a, b, u
<1>10. Cardinality(F) \in Nat
  BY <1>6, FS_CardinalityType
<1>11. n + Cardinality(l.page) = PageLimit
  BY <1>1, KeysAreNumbers DEF n
<1>12. /\ Cardinality(page) \in Nat /\ Cardinality(page) <= PageLimit
       /\ F # mine => Cardinality(page) = PageLimit
  <2> HIDE DEF mine
  <2> QED  BY <1>1, <1>2, <1>6, <1>9, <1>10, <1>11
<1>13. page \subseteq Keys
  BY <1>0, <1>3, <1>6, <1>8
<1> QED  BY <1>6, <1>9, <1>12, <1>13 DEF F

\* One List call keeps what has been shown complete up to the cursor.
LEMMA ListStepShows ==
    ASSUME NEW c \in Clients, NEW d, NEW l \in Listing, Paged(c, l, d), UpToCursor(c, l),
           ~l.full,
           NEW prefix, prefix = IF Filtered(c, l.ask) THEN Keys ELSE l.ask,
           NEW batch, batch = ListKeys(d, prefix, PageLimit, l.cursor),
           NEW next, next = NextCursor(batch, PageLimit),
           NEW page, page = l.page \cup Fitting(l, batch),
           NEW m, m.ask = l.ask, m.keep = l.keep, m.got = l.got, m.seen = l.seen,
           m.page = page,
           m.full <=> (Cardinality(page) >= PageLimit \/ next = NoKey),
           m.cursor = IF Cardinality(page) >= PageLimit /\ Filtered(c, l.ask)
                      THEN Greatest(page) ELSE next
    PROVE  /\ m.page \in SUBSET Keys /\ m.cursor \in Keys \cup {NoKey}
           /\ Paged(c, m, d) /\ UpToCursor(c, m)
<1> DEFINE ahead == Ahead(d, prefix, l.cursor)
           mine == batch \cap l.ask
           F == Fitting(l, batch)
<1>0. /\ l.ask \in SUBSET Keys /\ l.page \in SUBSET Keys /\ l.cursor \in Keys \cup {NoKey}
      /\ l.keep \in SUBSET Keys
      /\ prefix \in SUBSET Keys /\ l.ask \subseteq prefix
      /\ Cardinality(l.page) < PageLimit /\ \A k \in l.page : k <= l.cursor
      /\ ~Filtered(c, l.ask) => l.page = {} /\ prefix = l.ask
  BY DEF Listing, UpToCursor
<1>1. l.cursor \in Nat
  <2>1. l.cursor \in Keys \cup {NoKey}
    BY <1>0
  <2> QED  BY <2>1, CursorIsNumber
<1>2. /\ batch \subseteq ahead
      /\ batch \subseteq Keys /\ IsFiniteSet(batch) /\ Cardinality(batch) <= PageLimit
      /\ \A k \in batch, j \in ahead : j < k => j \in batch
      /\ \A k \in batch : l.cursor < k
      /\ next = NoKey => batch = ahead
      /\ next # NoKey => /\ next \in batch /\ \A k \in batch : k <= next
                         /\ Cardinality(batch) = PageLimit
  <2> HIDE DEF ahead
  <2> DEFINE cur == l.cursor
  <2>1. cur \in Keys \cup {NoKey}
    BY <1>0
  <2>2. ahead \in SUBSET Keys /\ \A k \in ahead : k > cur
    BY <1>0 DEF ahead, Ahead
  <2>3. batch = FirstOf(PageLimit, ahead) /\ next = NextCursor(batch, PageLimit)
    BY DEF ahead, ListKeys
  <2> HIDE DEF cur
  <2>4. /\ batch \subseteq ahead
        /\ batch \subseteq Keys /\ IsFiniteSet(batch) /\ Cardinality(batch) <= PageLimit
        /\ \A k \in batch, j \in ahead : j < k => j \in batch
        /\ \A k \in batch : cur < k
        /\ next = NoKey => batch = ahead
        /\ next # NoKey => /\ next \in batch /\ \A k \in batch : k <= next
                           /\ Cardinality(batch) = PageLimit
    BY ONLY <2>1, <2>2, <2>3, BatchFacts
  <2> QED  BY <2>4 DEF cur
<1>3. /\ F \subseteq mine
      /\ \A k \in F, j \in mine : j < k => j \in F
      /\ page \subseteq Keys /\ IsFiniteSet(page) /\ Cardinality(page) \in Nat
      /\ Cardinality(page) <= PageLimit
      /\ F # mine => Cardinality(page) = PageLimit
  <2>1. batch \in SUBSET Keys
    BY <1>2
  <2> HIDE DEF mine, F
  <2> QED  BY <1>0, <1>2, <2>1, FittingFacts DEF mine, F
<1>4. \A k \in mine : k \in ahead /\ k \in batch /\ k \in l.ask
  BY <1>2
<1>5. \A k \in ahead : k \in Present(d) /\ k \in Keys
  BY <1>0 DEF Ahead, Present
<1>6. page = l.page \cup F
  OBVIOUS
<1>7. \A k \in l.keep : ~(k <= l.cursor) => k \in ahead /\ k \in l.ask
  <2> SUFFICES ASSUME NEW k \in l.keep, ~(k <= l.cursor) PROVE k \in ahead /\ k \in l.ask
    OBVIOUS
  <2>1. k \in Present(d) /\ k \in l.ask
    BY DEF Paged
  <2>2. k > l.cursor
    <3>1. k \in Nat
      BY <1>0, KeysAreNumbers
    <3> QED  BY <1>1, <3>1
  <2> QED  BY <1>0, <2>1, <2>2 DEF Ahead, Present
<1> HIDE DEF ahead, mine, F
\* Without a filter the page is the batch.
<1>8. ~Filtered(c, l.ask) => F = mine /\ mine = batch /\ page = batch
  <2> SUFFICES ASSUME ~Filtered(c, l.ask) PROVE F = mine /\ mine = batch /\ page = batch
    OBVIOUS
  <2>1. mine = batch
    <3>1. batch \subseteq l.ask
      BY <1>0, <1>2 DEF ahead, Ahead
    <3> QED  BY <3>1 DEF mine
  <2>2. page = F
    BY <1>0, <1>6
  <2>3. F \in SUBSET batch
    BY <1>3, <2>1
  <2>4. Cardinality(F) <= Cardinality(batch) /\ (Cardinality(batch) = Cardinality(F) => batch = F)
    BY <1>2, <2>3, FS_Subset
  <2>5. Cardinality(batch) \in Nat
    BY <1>2, FS_CardinalityType
  <2>6. F = mine
    BY <1>2, <1>3, <2>1, <2>2, <2>4, <2>5, KeysAreNumbers
  <2> QED  BY <2>1, <2>2, <2>6
<1>9. Cardinality(page) >= PageLimit => Greatest(page) \in page
  <2> SUFFICES ASSUME Cardinality(page) >= PageLimit PROVE Greatest(page) \in page
    OBVIOUS
  <2>1. page # {}
    BY KeysAreNumbers, FS_EmptySet
  <2>2. page \subseteq Nat
    BY <1>3, KeysAreNumbers
  <2> QED  BY <1>3, <2>1, <2>2, GreatestNatural
<1>10. m.page \in SUBSET Keys /\ m.cursor \in Keys \cup {NoKey}
  <2>1. next \in Keys \cup {NoKey}
    BY <1>2
  <2> QED  BY <1>3, <1>9, <2>1
<1>11. Paged(c, m, d)
  <2>1. \A k \in F : k \in l.ask /\ k \in Present(d)
    BY <1>3, <1>4, <1>5
  <2> QED  BY <1>6, <2>1 DEF Paged
\* What is not shown before is shown now, up to the new cursor.
<1>12. ASSUME NEW k \in l.keep, k <= m.cursor \/ (m.full /\ m.cursor = NoKey)
       PROVE  k \in m.got \cup m.page
  <2>0. k \in Keys /\ k \in Nat
    BY <1>0, KeysAreNumbers
  <2>1. CASE k <= l.cursor
    BY <1>6, <2>1 DEF UpToCursor
  <2>2. CASE ~(k <= l.cursor)
    <3>1. k \in ahead /\ k \in l.ask
      BY <1>7, <2>2
    <3>2. k \in batch => k \in mine
      BY <3>1 DEF mine
    <3>3. CASE Cardinality(page) >= PageLimit /\ Filtered(c, l.ask)
      <4> DEFINE g == Greatest(page)
      <4>1. m.cursor = g /\ g \in page /\ g \in Keys
        BY <1>3, <1>9, <3>3
      <4> HIDE DEF g
      <4>2. g \in Nat /\ g # NoKey /\ k <= g
        BY <1>12, <4>1, KeysAreNumbers
      <4>3. g \in F
        <5>1. g \notin l.page
          BY <1>0, <1>1, <2>0, <2>2, <4>2
        <5> QED  BY <1>6, <4>1, <5>1
      <4>4. k = g \/ k < g
        BY <2>0, <4>2
      <4>5. k < g => k \in F
        BY <1>2, <1>3, <1>4, <3>1, <3>2, <4>3
      <4> QED  BY <1>6, <4>3, <4>4, <4>5
    <3>4. CASE ~(Cardinality(page) >= PageLimit /\ Filtered(c, l.ask))
      <4>1. m.cursor = next
        BY <3>4
      <4>2. F = mine
        BY <1>3, <1>8, <3>4, KeysAreNumbers
      <4>3. next = NoKey => k \in batch
        BY <1>2, <3>1
      <4>4. next # NoKey => k \in batch
        <5> SUFFICES ASSUME next # NoKey PROVE k \in batch
          OBVIOUS
        <5>1. k <= next /\ next \in batch
          BY <1>2, <1>12, <4>1
        <5>2. next \in Nat
          BY <1>2, <5>1, KeysAreNumbers
        <5>3. k = next \/ k < next
          BY <2>0, <5>1, <5>2
        <5> QED  BY <1>2, <3>1, <5>1, <5>3
      <4> QED  BY <1>6, <3>2, <4>2, <4>3, <4>4
    <3> QED  BY <3>3, <3>4
  <2> QED  BY <2>1, <2>2
<1>13. ASSUME ~m.full
       PROVE  /\ Cardinality(page) < PageLimit
              /\ \A k \in page : k <= m.cursor
              /\ Filtered(c, l.ask)
  <2>1. ~(Cardinality(page) >= PageLimit) /\ next # NoKey
    BY <1>13
  <2>2. Cardinality(page) < PageLimit
    BY <1>3, <2>1, KeysAreNumbers
  <2>3. m.cursor = next
    BY <2>1
  <2>4. Filtered(c, l.ask)
    BY <1>2, <1>8, <2>1, <2>2, KeysAreNumbers
  <2>5. ASSUME NEW k \in page PROVE k <= next
    <3>1. next \in batch /\ next \in Nat /\ l.cursor < next
      BY <1>2, <2>1, KeysAreNumbers
    <3>2. k \in Nat
      BY <1>3, KeysAreNumbers
    <3>3. k \in F => k \in batch
      BY <1>3, <1>4
    <3>4. k \in l.page => k <= l.cursor
      BY <1>0
    <3> QED  BY <1>1, <1>2, <1>6, <2>1, <3>1, <3>2, <3>3, <3>4
  <2> QED  BY <2>2, <2>3, <2>4, <2>5
<1>14. UpToCursor(c, m)
  <2>1. m.keep = l.keep /\ m.ask = l.ask /\ m.page = page
    OBVIOUS
  <2> QED  BY <1>12, <1>13, <2>1 DEF UpToCursor
<1> QED  BY <1>10, <1>11, <1>14

-----------------------------------------------------------------------------
(* Create requests: what is pending, what is asked for, what is answered.  *)

LEMMA StringsDiffer ==
    /\ ApiErrors = {"none", "conflict", "forbidden", "internal", "bad_request", "pending"}
    /\ Result \subseteq Outcome
  BY DEF ApiErrors, Result, Outcome

LEMMA PendingFacts ==
    ASSUME NEW outs \in Seq(Outcome),
           NEW pend, pend = PendingIn(outs)
    PROVE  /\ pend \subseteq 1..Len(outs) /\ pend \subseteq Nat /\ IsFiniteSet(pend)
           /\ Cardinality(pend) \in Nat /\ Cardinality(pend) <= Len(outs)
           /\ \A i \in pend : Rank(i, pend) \in 1..Cardinality(pend)
           /\ pend = {} <=> Cardinality(pend) = 0
<1> DEFINE n == Len(outs)
<1>1. n \in Nat /\ pend \in SUBSET (1..n)
  BY DEF PendingIn
<1>2. 1 \in Int /\ n \in Int
  BY <1>1
<1> HIDE DEF n
<1>3. IsFiniteSet(1..n) /\ Cardinality(1..n) = n
  <2>1. Cardinality(1..n) = IF 1 > n THEN 0 ELSE n - 1 + 1
    BY <1>2, FS_Interval
  <2>2. IsFiniteSet(1..n)
    BY <1>2, FS_Interval
  <2> QED  BY <1>1, <2>1, <2>2
<1>4. IsFiniteSet(pend) /\ Cardinality(pend) <= n
  BY <1>1, <1>3, FS_Subset
<1>5. pend \subseteq Nat
  BY <1>1
<1>6. \A i \in pend : Rank(i, pend) \in 1..Cardinality(pend)
  BY <1>4, <1>5, RankType
<1>7. Cardinality(pend) \in Nat /\ (pend = {} <=> Cardinality(pend) = 0)
  BY <1>4, FS_CardinalityType, FS_EmptySet
<1> QED  BY <1>1, <1>4, <1>5, <1>6, <1>7 DEF n

RequestsOf(c, its, outs) ==
    [j \in DOMAIN Ascending(PendingIn(outs)) |-> AskedOf(c, its[Ascending(PendingIn(outs))[j]])]

LEMMA RequestsAreOf == \A c : Requests(c) = RequestsOf(c, items[c], prepared[c])
  BY DEF Requests, RequestsOf, Asked, AskedOf

\* Requests(c) has one request for each pending item, in the items' order.
LEMMA RequestsFacts ==
    ASSUME NEW c \in Clients, NEW its \in Seq(Item), NEW outs \in Seq(Outcome),
           Len(its) <= MaxBatch, Len(outs) <= Len(its),
           NEW pend, pend = PendingIn(outs), NEW r, r = RequestsOf(c, its, outs)
    PROVE  /\ r = <<>> <=> pend = {}
           /\ r \in Seq(Request)
           /\ Len(r) = Cardinality(pend)
           /\ r # <<>> => r \in Batches
           /\ \A i \in pend : r[Rank(i, pend)] = AskedOf(c, its[i])
           /\ \A j \in DOMAIN r : \E i \in pend : r[j] = AskedOf(c, its[i])
<1> DEFINE a == Ascending(pend)
           n == Cardinality(pend)
<1>1. /\ pend \subseteq 1..Len(outs) /\ pend \subseteq Nat /\ IsFiniteSet(pend)
      /\ n \in Nat /\ n <= Len(outs)
      /\ \A i \in pend : Rank(i, pend) \in 1..n
      /\ pend = {} <=> n = 0
  <2> HIDE DEF n
  <2> QED  BY PendingFacts DEF n
<1>2. /\ Len(a) = n
      /\ DOMAIN a = 1..n
      /\ \A j \in 1..n : a[j] \in pend
  <2>1. /\ Len(a) = n /\ DOMAIN a = 1..Len(a)
        /\ \A j \in DOMAIN a : a[j] \in pend
    BY <1>1, AscendingFacts
  <2> QED  BY <2>1
<1>3. \A i \in pend : a[Rank(i, pend)] = i
  BY <1>1, AscendingAt
<1>4. r = [j \in 1..n |-> AskedOf(c, its[a[j]])]
  <2>1. r = [j \in DOMAIN a |-> AskedOf(c, its[a[j]])]
    BY DEF RequestsOf
  <2> HIDE DEF a, n
  <2> QED  BY <1>2, <2>1
<1>5. \A i \in pend : its[i] \in Item /\ AskedOf(c, its[i]) \in Request
  <2> SUFFICES ASSUME NEW i \in pend
               PROVE  its[i] \in Item /\ AskedOf(c, its[i]) \in Request
    OBVIOUS
  <2>1. i \in 1..Len(its)
    BY <1>1
  <2>2. its[i] \in Item
    BY <2>1
  <2> QED  BY <2>2 DEF Item, AskedOf, Request
<1> HIDE DEF a, n
<1>6. r \in [1..n -> Request]
  BY <1>2, <1>4, <1>5
<1>7. r \in Seq(Request) /\ Len(r) = n /\ DOMAIN r = 1..n
  BY <1>1, <1>6
<1>8. \A i \in pend : r[Rank(i, pend)] = AskedOf(c, its[i])
  BY <1>1, <1>3, <1>4
<1>9. \A j \in DOMAIN r : \E i \in pend : r[j] = AskedOf(c, its[i])
  BY <1>2, <1>4, <1>7
<1>10. r = <<>> <=> pend = {}
  BY <1>1, <1>7
<1>11. r # <<>> => r \in Batches
  <2> SUFFICES ASSUME r # <<>> PROVE r \in Batches
    OBVIOUS
  <2>1. n \in 1..MaxBatch
    <3>1. n # 0 /\ MaxBatch \in Nat /\ Len(its) \in Nat /\ Len(outs) \in Nat
      BY <1>1, <1>10, LinkStoreAssumption
    <3> QED  BY <1>1, <3>1
  <2> QED  BY <1>6, <2>1 DEF Batches
<1> QED  BY <1>7, <1>8, <1>9, <1>10, <1>11 DEF n

LEMMA PlanFacts ==
    ASSUME NEW c \in Clients, NEW item \in Item
    PROVE  /\ Plan(c, item) \in Outcome
           /\ Plan(c, item).err # "none"
           /\ item.key # NoKey /\ Plan(c, item).err = "pending" => CanAccess(c, item.key)
<1>1. \A e \in ApiErrors, k \in Keys \cup {NoKey}, t \in Targets \cup {NoTarget} :
        Done(e, k, t) \in Outcome /\ Done(e, k, t).err = e
  BY DEF Done, Outcome
<1>2. /\ "pending" \in ApiErrors /\ "forbidden" \in ApiErrors /\ "bad_request" \in ApiErrors
      /\ NoKey \in Keys \cup {NoKey} /\ NoTarget \in Targets \cup {NoTarget}
  BY DEF ApiErrors
<1>3. /\ Pending \in Outcome /\ Pending.err = "pending"
      /\ Done("forbidden", NoKey, NoTarget) \in Outcome
      /\ Done("forbidden", NoKey, NoTarget).err = "forbidden"
      /\ Done("bad_request", NoKey, NoTarget) \in Outcome
      /\ Done("bad_request", NoKey, NoTarget).err = "bad_request"
  BY <1>1, <1>2 DEF Pending
<1> QED  BY <1>3 DEF Plan

\* One more prepared item.
LEMMA AppendIsSound ==
    ASSUME NEW c \in Clients, NEW p, NEW f, NEW g, NEW its \in Seq(Item),
           NEW outs \in Seq(Outcome), Sound(c, p, its, outs, f), Len(outs) < Len(its),
           NEW out \in Outcome, NEW item, item = its[Len(outs) + 1],
           item.key # NoKey =>
               /\ out.err # "none"
               /\ out.err = "pending" => CanAccess(c, item.key)
    PROVE  /\ item \in Item
           /\ Append(outs, out) \in Seq(Outcome)
           /\ Sound(c, "prepare", its, Append(outs, out), g)
           /\ \A d, h : /\ \A i \in DOMAIN outs :
                              outs[i].err = "none" => Published(d, outs[i].key, its[i].target)
                        /\ out.err = "none" => Published(d, out.key, item.target)
                        => Agrees("prepare", its, Append(outs, out), h, d)
<1> DEFINE more == Append(outs, out)
           n == Len(outs)
<1>1. n \in Nat /\ Len(its) \in Nat /\ n + 1 \in 1..Len(its)
  OBVIOUS
<1>2. item \in Item
  BY <1>1
<1>3. /\ more \in Seq(Outcome) /\ Len(more) = n + 1 /\ DOMAIN more = 1..(n + 1)
      /\ DOMAIN outs = 1..n
      /\ more[n + 1] = out /\ \A i \in 1..n : more[i] = outs[i]
  OBVIOUS
<1>4. \A i \in 1..(n + 1) : i = n + 1 \/ i \in 1..n
  BY <1>1
<1> HIDE DEF more, n
<1>5. \A i \in DOMAIN more :
          its[i].key # NoKey =>
              /\ more[i].err = "pending" => CanAccess(c, its[i].key)
              /\ more[i].err = "none" => more[i].key = its[i].key /\ more[i].target = its[i].target
  <2> SUFFICES ASSUME NEW i \in DOMAIN more, its[i].key # NoKey
               PROVE  /\ more[i].err = "pending" => CanAccess(c, its[i].key)
                      /\ more[i].err = "none" => more[i].key = its[i].key /\ more[i].target = its[i].target
    OBVIOUS
  <2>1. CASE i = n + 1
    BY <1>3, <2>1 DEF n
  <2>2. CASE i \in 1..n
    BY <1>3, <2>2 DEF Sound
  <2> QED  BY <1>3, <1>4, <2>1, <2>2
<1>6. Sound(c, "prepare", its, more, g)
  <2>1. Len(its) <= MaxBatch
    BY DEF Sound
  <2>2. Len(more) <= Len(its)
    BY <1>1, <1>3
  <2> QED  BY <1>5, <2>1, <2>2 DEF Sound
<1>7. ASSUME NEW d, NEW h,
             \A i \in DOMAIN outs :
                 outs[i].err = "none" => Published(d, outs[i].key, its[i].target),
             out.err = "none" => Published(d, out.key, item.target)
      PROVE  Agrees("prepare", its, more, h, d)
  <2>1. \A i \in DOMAIN more : more[i].err = "none" => Published(d, more[i].key, its[i].target)
    BY <1>3, <1>4, <1>7 DEF n
  <2> QED  BY <2>1 DEF Agrees
<1> QED  BY <1>2, <1>3, <1>6, <1>7 DEF more

\* On the buckets d, what was answered and what the transaction reports is so.
Truthful(outs, its, res, d) ==
    /\ \A i \in DOMAIN outs : outs[i].err = "none" => Published(d, outs[i].key, its[i].target)
    /\ \A j \in DOMAIN res : res[j].err = "none" => Published(d, res[j].key, res[j].target)

\* The response: each pending item gets the result at its rank.
LEMMA FillInIsSound ==
    ASSUME NEW c \in Clients, NEW p, NEW f, NEW g, NEW its \in Seq(Item),
           NEW outs \in Seq(Outcome), Sound(c, p, its, outs, f),
           NEW pend, pend = PendingIn(outs),
           NEW res \in Seq(Result), Len(res) = Cardinality(pend),
           \A i \in pend : Answers(its[i], res[Rank(i, pend)]),
           NEW full, full = FillIn(outs, res)
    PROVE  /\ full \in Seq(Outcome)
           /\ Sound(c, "idle", its, full, g)
           /\ \A d : Truthful(outs, its, res, d) => Agrees("idle", its, full, g, d)
<1> DEFINE n == Len(outs)
<1>1. n \in Nat /\ DOMAIN outs = 1..n /\ \A i \in 1..n : outs[i] \in Outcome
  OBVIOUS
<1>2. /\ \A i \in 1..n : i \in pend <=> outs[i].err = "pending"
      /\ pend \subseteq 1..n
  BY <1>1 DEF PendingIn
<1>3. \A i \in pend : Rank(i, pend) \in 1..Cardinality(pend)
  BY PendingFacts
<1>5. res \in Seq(Result) /\ DOMAIN res = 1..Len(res)
  OBVIOUS
<1>6. full = [i \in 1..n |-> IF i \in pend THEN res[Rank(i, pend)] ELSE outs[i]]
  BY <1>1 DEF FillIn
<1> HIDE DEF n
<1>7. \A i \in pend : /\ Rank(i, pend) \in DOMAIN res
                      /\ res[Rank(i, pend)] \in Result
                      /\ Answers(its[i], res[Rank(i, pend)])
  <2> SUFFICES ASSUME NEW i \in pend
               PROVE  /\ Rank(i, pend) \in DOMAIN res
                      /\ res[Rank(i, pend)] \in Result
                      /\ Answers(its[i], res[Rank(i, pend)])
    OBVIOUS
  <2>1. Rank(i, pend) \in 1..Len(res)
    BY <1>3
  <2> QED  BY <1>5, <2>1
<1>8. \A i \in 1..n : full[i] = IF i \in pend THEN res[Rank(i, pend)] ELSE outs[i]
  BY <1>6
<1>9. \A i \in 1..n : full[i] \in Outcome /\ full[i].err # "pending"
  <2> TAKE i \in 1..n
  <2>1. CASE i \in pend
    <3>1. full[i] = res[Rank(i, pend)] /\ full[i] \in Result
      BY <1>7, <1>8, <2>1
    <3>2. full[i].err \in {"none", "conflict", "forbidden", "internal"}
      BY <3>1 DEF Result
    <3> QED  BY <3>1, <3>2, StringsDiffer
  <2>2. CASE i \notin pend
    BY <1>1, <1>2, <1>8, <2>2
  <2> QED  BY <2>1, <2>2
<1>10. full \in Seq(Outcome) /\ Len(full) = n /\ DOMAIN full = 1..n
  <2>1. full \in [1..n -> Outcome]
    BY <1>6, <1>8, <1>9
  <2> QED  BY <1>1, <2>1
<1>11. \A i \in 1..n :
          its[i].key # NoKey /\ full[i].err = "none" =>
              full[i].key = its[i].key /\ full[i].target = its[i].target
  <2> TAKE i \in 1..n
  <2>1. CASE i \in pend
    BY <1>7, <1>8, <2>1 DEF Answers
  <2>2. CASE i \notin pend
    BY <1>1, <1>8, <2>2 DEF Sound
  <2> QED  BY <2>1, <2>2
<1>12. Sound(c, "idle", its, full, g)
  <2>1. Len(its) <= MaxBatch /\ Len(full) <= Len(its)
    BY <1>10 DEF Sound, n
  <2>2. PendingIn(full) = {}
    BY <1>9, <1>10 DEF PendingIn
  <2> QED  BY <1>9, <1>10, <1>11, <2>1, <2>2 DEF Sound
<1>13. ASSUME NEW d, Truthful(outs, its, res, d)
       PROVE  Agrees("idle", its, full, g, d)
  <2>1. ASSUME NEW i \in 1..n, full[i].err = "none"
        PROVE  Published(d, full[i].key, its[i].target)
    <3>1. CASE i \in pend
      <4>1. full[i] = res[Rank(i, pend)] /\ Rank(i, pend) \in DOMAIN res
        BY <1>7, <1>8, <3>1
      <4>2. full[i].target = its[i].target
        BY <1>7, <2>1, <3>1, <4>1 DEF Answers
      <4>3. Published(d, full[i].key, full[i].target)
        BY <1>13, <2>1, <4>1 DEF Truthful
      <4> QED  BY <4>2, <4>3
    <3>2. CASE i \notin pend
      BY <1>1, <1>8, <1>13, <2>1, <3>2 DEF Truthful
    <3> QED  BY <3>1, <3>2
  <2> QED  BY <1>10, <2>1 DEF Agrees
<1> QED  BY <1>10, <1>12, <1>13

-----------------------------------------------------------------------------
(* The write transaction.                                                  *)

\* A success is about the request's target and its explicit key; a created key
\* is the explicit one or one that the client may write.
LEMMA CreateAnswers ==
    ASSUME NEW d \in Buckets, Mirrored(d), NEW r \in Request, NEW o \in CreateOutcomes(d, r)
    PROVE  /\ Answers(r, o.res)
           /\ o.res.created => \/ r.key # NoKey /\ o.res.key = r.key
                               \/ CanAccess(r.client, o.res.key)
<1>1. r.target \in Targets /\ r.key \in Keys \cup {NoKey}
  BY DEF Request, ValidKeys
<1>2. ASSUME NEW e, e # "none", o = Failure(d, e)
      PROVE  Answers(r, o.res) /\ ~o.res.created
  <2>1. o.res = [err |-> e, key |-> NoKey, target |-> NoTarget, created |-> FALSE]
    BY <1>2 DEF Failure
  <2> QED  BY <1>2, <2>1 DEF Answers
<1>3. ASSUME NEW x, NEW k, NEW b, o = Success(x, k, r.target, b), r.key # NoKey => r.key = k
      PROVE  Answers(r, o.res) /\ o.res.key = k /\ o.res.created = b
  <2>1. o.res = [err |-> "none", key |-> k, target |-> r.target, created |-> b]
    BY <1>3 DEF Success
  <2> QED  BY <1>3, <2>1 DEF Answers
<1>4. CASE d.targets[r.target] # NoKey
  <2> DEFINE k == d.targets[r.target]
  <2>1. o = CreateExisting(d, r)
    BY <1>4 DEF CreateOutcomes
  <2>2. d.links[k] = r.target
    BY <1>1, <1>4 DEF Mirrored
  <2>3. \/ o = Failure(d, "conflict") \/ o = Failure(d, "internal")
        \/ o = Success(d, k, d.links[k], FALSE) /\ (r.key # NoKey => r.key = k)
    BY <2>1 DEF CreateExisting
  <2> HIDE DEF k
  <2>4. CASE o = Failure(d, "conflict") \/ o = Failure(d, "internal")
    BY <1>2, <2>4
  <2>5. CASE o = Success(d, k, d.links[k], FALSE) /\ (r.key # NoKey => r.key = k)
    <3>1. o = Success(d, k, r.target, FALSE)
      BY <2>2, <2>5
    <3>2. Answers(r, o.res) /\ o.res.created = FALSE
      BY <1>3, <2>5, <3>1
    <3> QED  BY <3>2, Zenon
  <2> QED  BY <2>3, <2>4, <2>5
<1>5. CASE d.targets[r.target] = NoKey /\ r.key # NoKey
  <2>1. o = CreateExplicit(d, r)
    BY <1>5 DEF CreateOutcomes
  <2>2. \/ o = Failure(d, "conflict")
        \/ o = Success(Insert(d, r.key, r.target), r.key, r.target, TRUE)
    BY <2>1 DEF CreateExplicit
  <2>3. CASE o = Failure(d, "conflict")
    BY <1>2, <2>3
  <2>4. CASE o = Success(Insert(d, r.key, r.target), r.key, r.target, TRUE)
    <3>1. Answers(r, o.res) /\ o.res.key = r.key
      BY <1>3, <2>4
    <3> QED  BY <1>5, <3>1
  <2> QED  BY <2>2, <2>3, <2>4
<1>6. CASE d.targets[r.target] = NoKey /\ r.key = NoKey
  <2>1. o \in CreateGenerated(d, r)
    BY <1>6 DEF CreateOutcomes
  <2>2. \/ \E k \in GenKeys(r, Free(d)) :
               CanAccess(r.client, k) /\ o = Success(Insert(d, k, r.target), k, r.target, TRUE)
        \/ o = Failure(d, "forbidden")
        \/ \E e \in {"conflict", "internal"} : o = Failure(d, e)
    BY <2>1 DEF CreateGenerated
  <2>3. CASE \E k \in GenKeys(r, Free(d)) :
               CanAccess(r.client, k) /\ o = Success(Insert(d, k, r.target), k, r.target, TRUE)
    <3>1. PICK k : CanAccess(r.client, k) /\ o = Success(Insert(d, k, r.target), k, r.target, TRUE)
      BY <2>3
    <3>2. Answers(r, o.res) /\ o.res.key = k
      BY <1>3, <1>6, <3>1
    <3> QED  BY <3>1, <3>2
  <2>4. CASE o = Failure(d, "forbidden") \/ \E e \in {"conflict", "internal"} : o = Failure(d, e)
    BY <1>2, <2>4
  <2> QED  BY <2>2, <2>3, <2>4
<1> QED  BY <1>4, <1>5, <1>6

\* What one item of the transaction does to its results and its rest.
LEMMA WriteItemServes ==
    ASSUME NEW c \in Clients, NEW its, NEW outs \in Seq(Outcome),
           NEW t, NEW u, t.db \in Buckets, Mirrored(t.db),
           t.todo \in Seq(Request), t.done \in Seq(Result), t.todo # <<>>,
           NEW r, r = Head(t.todo), NEW o \in CreateOutcomes(t.db, r),
           u.todo = Tail(t.todo), u.done = Append(t.done, o.res),
           Aligned(c, its, outs, t), Entitled(c, t)
    PROVE  Aligned(c, its, outs, u) /\ Entitled(c, u)
<1> DEFINE pend == PendingIn(outs)
           n == Len(t.done)
           m == Len(t.todo)
<1>1. r \in Request /\ o.res \in Result
  <2>1. r \in Request
    OBVIOUS
  <2> QED  BY <2>1, CreateDoes
<1>2. /\ n \in Nat /\ m \in Nat /\ m >= 1
      /\ u.todo \in Seq(Request) /\ Len(u.todo) = m - 1 /\ DOMAIN u.todo = 1..(m - 1)
      /\ u.done \in Seq(Result) /\ Len(u.done) = n + 1 /\ DOMAIN u.done = 1..(n + 1)
      /\ u.done[n + 1] = o.res /\ \A j \in 1..n : u.done[j] = t.done[j]
      /\ \A j \in 1..(m - 1) : u.todo[j] = t.todo[j + 1]
      /\ t.todo[1] = r /\ DOMAIN t.todo = 1..m /\ DOMAIN t.done = 1..n
  BY <1>1
<1>3. /\ Answers(r, o.res)
      /\ o.res.created => \/ r.key # NoKey /\ o.res.key = r.key
                          \/ CanAccess(r.client, o.res.key)
  BY <1>1, CreateAnswers
<1>4. /\ n + m = Cardinality(pend)
      /\ \A i \in pend :
             /\ Rank(i, pend) <= n => Answers(its[i], t.done[Rank(i, pend)])
             /\ Rank(i, pend) > n => t.todo[Rank(i, pend) - n] = AskedOf(c, its[i])
  BY DEF Aligned
<1>5. \A i \in pend : Rank(i, pend) \in 1..(n + m)
  <2> HIDE DEF pend
  <2>1. \A i \in pend : Rank(i, pend) \in 1..Cardinality(pend)
    BY PendingFacts DEF pend
  <2> QED  BY <1>4, <2>1
<1>6. /\ \A j \in 1..m : t.todo[j].client = c /\ (t.todo[j].key # NoKey => CanAccess(c, t.todo[j].key))
      /\ \A j \in 1..n : t.done[j].created => CanAccess(c, t.done[j].key)
  BY <1>2 DEF Entitled
<1> HIDE DEF pend, n, m
<1>7. ASSUME NEW i \in pend
      PROVE  /\ Rank(i, pend) <= n + 1 => Answers(its[i], u.done[Rank(i, pend)])
             /\ Rank(i, pend) > n + 1 => u.todo[Rank(i, pend) - (n + 1)] = AskedOf(c, its[i])
  <2> DEFINE k == Rank(i, pend)
  <2>1. k \in 1..(n + m)
    BY <1>5
  <2>2. /\ k <= n => Answers(its[i], t.done[k])
        /\ k > n => t.todo[k - n] = AskedOf(c, its[i])
    BY <1>4
  <2> HIDE DEF k
  <2>3. CASE k <= n
    BY <1>2, <2>1, <2>2, <2>3 DEF k
  <2>4. CASE k = n + 1
    <3>1. k - n = 1 /\ k > n
      BY <1>2, <2>4
    <3>2. r = AskedOf(c, its[i])
      BY <1>2, <2>2, <3>1
    <3>3. r.target = its[i].target /\ r.key = its[i].key
      BY <3>2 DEF AskedOf
    <3>4. Answers(its[i], o.res)
      BY <1>3, <3>3 DEF Answers
    <3> QED  BY <1>2, <2>4, <3>4 DEF k
  <2>5. CASE k > n + 1
    <3>1. k - (n + 1) \in 1..(m - 1) /\ (k - (n + 1)) + 1 = k - n /\ k > n
      BY <1>2, <2>1, <2>5, SMTT(30)
    <3>2. u.todo[k - (n + 1)] = t.todo[k - n]
      BY <1>2, <3>1
    <3> QED  BY <1>2, <2>1, <2>2, <2>5, <3>1, <3>2 DEF k
  <2>6. k <= n \/ k = n + 1 \/ k > n + 1
    BY <1>2, <2>1
  <2> QED  BY <2>3, <2>4, <2>5, <2>6
<1>8. Aligned(c, its, outs, u)
  <2>1. Len(u.done) + Len(u.todo) = Cardinality(pend)
    <3>1. Len(u.done) = n + 1 /\ Len(u.todo) = m - 1 /\ n \in Nat /\ m \in Nat
      BY <1>2
    <3>2. n + m = Cardinality(pend)
      BY <1>4
    <3>3. (n + 1) + (m - 1) = n + m
      BY <3>1
    <3> QED  BY <3>1, <3>2, <3>3
  <2> QED  BY <1>2, <1>7, <2>1 DEF Aligned, pend
<1>9. Entitled(c, u)
  <2>1. ASSUME NEW j \in 1..(m - 1)
        PROVE  u.todo[j].client = c /\ (u.todo[j].key # NoKey => CanAccess(c, u.todo[j].key))
    <3>1. j + 1 \in 1..m
      BY <1>2
    <3> QED  BY <1>2, <1>6, <3>1
  <2>2. ASSUME NEW j \in 1..(n + 1), u.done[j].created PROVE CanAccess(c, u.done[j].key)
    <3>1. j = n + 1 \/ j \in 1..n
      BY <1>2
    <3>2. CASE j \in 1..n
      BY <1>2, <1>6, <2>2, <3>2
    <3>3. CASE j = n + 1
      <4>1. 1 \in 1..m
        BY <1>2
      <4>2. r.client = c /\ (r.key # NoKey => CanAccess(c, r.key))
        BY <1>2, <1>6, <4>1
      <4> QED  BY <1>2, <1>3, <2>2, <3>3, <4>2
    <3> QED  BY <3>1, <3>2, <3>3
  <2> QED  BY <1>2, <2>1, <2>2 DEF Entitled
<1> QED  BY <1>8, <1>9

-----------------------------------------------------------------------------
(* One step of one client.                                                 *)

\* Every link of d is one of e.
Extends(d, e) ==
    /\ \A k \in Keys : d.links[k] # NoTarget => e.links[k] = d.links[k]
    /\ \A t \in Targets : d.targets[t] # NoKey => e.targets[t] = d.targets[t]

LEMMA AgreesStays ==
    ASSUME NEW p, NEW its, NEW outs, NEW f, NEW d, NEW e,
           Agrees(p, its, outs, f, d), Extends(d, e)
    PROVE  Agrees(p, its, outs, f, e)
<1>1. \A k, t : Published(d, k, t) => Published(e, k, t)
  BY NoKeyIsNoKey, NoTargetIsNoTarget DEF Published, Extends
<1> QED  BY <1>1 DEF Agrees

LEMMA ExceptSelf ==
    ASSUME NEW S, NEW T, NEW f \in [S -> T], NEW c \in S
    PROVE  f = [f EXCEPT ![c] = f[c]]
  OBVIOUS

\* The step of client c: its own request becomes p, its, outs, f.
LEMMA ClientStep ==
    ASSUME ApiTypes, AllSound, AllAgree, NEW c \in Clients,
           NEW p \in Stages, NEW its \in Seq(Item), NEW outs \in Seq(Outcome),
           NEW f \in Keys \cup {NoKey},
           pc' = [pc EXCEPT ![c] = p], items' = [items EXCEPT ![c] = its],
           prepared' = [prepared EXCEPT ![c] = outs], found' = [found EXCEPT ![c] = f],
           Sound(c, p, its, outs, f),
           owner' \in Clients \cup {NoClient}, churn' \in Nat,
           churn' = 0 => churn = 0 /\ Extends(db, db') /\ Agrees(p, its, outs, f, db')
    PROVE  ApiTypes' /\ AllSound' /\ AllAgree'
<1>1. ApiTypes'
  BY DEF ApiTypes
<1>2. /\ pc'[c] = p /\ items'[c] = its /\ prepared'[c] = outs /\ found'[c] = f
      /\ \A e \in Clients \ {c} : /\ pc'[e] = pc[e] /\ items'[e] = items[e]
                                  /\ prepared'[e] = prepared[e] /\ found'[e] = found[e]
  BY DEF ApiTypes
<1>3. \A e \in Clients : Sound(e, pc'[e], items'[e], prepared'[e], found'[e])
  <2> TAKE e \in Clients
  <2>1. CASE e = c
    BY <1>2, <2>1
  <2>2. CASE e # c
    BY <1>2, <2>2 DEF AllSound
  <2> QED  BY <2>1, <2>2
<1>4. churn' = 0 => \A e \in Clients : Agrees(pc'[e], items'[e], prepared'[e], found'[e], db')
  <2> SUFFICES ASSUME churn' = 0, NEW e \in Clients
               PROVE  Agrees(pc'[e], items'[e], prepared'[e], found'[e], db')
    OBVIOUS
  <2>1. CASE e = c
    BY <1>2, <2>1
  <2>2. CASE e # c
    <3>1. Agrees(pc[e], items[e], prepared[e], found[e], db)
      BY DEF AllAgree
    <3>2. Agrees(pc[e], items[e], prepared[e], found[e], db')
      BY <3>1, AgreesStays
    <3> QED  BY <1>2, <2>2, <3>2
  <2> QED  BY <2>1, <2>2
<1>5. AllSound'
  BY <1>3 DEF AllSound
<1>6. AllAgree'
  BY <1>4 DEF AllAgree
<1> QED  BY <1>1, <1>5, <1>6

\* A step that leaves the transaction alone, of a client that does not own it.
LEMMA TxUntouched ==
    ASSUME ApiTypes, Owned, TxServes, NEW c \in Clients, owner # c, tx' = tx, owner' = owner,
           NEW p \in Stages, p # "write", NEW its, NEW outs,
           pc' = [pc EXCEPT ![c] = p], items' = [items EXCEPT ![c] = its],
           prepared' = [prepared EXCEPT ![c] = outs]
    PROVE  Owned' /\ TxServes'
<1>1. Owned'
  BY DEF Owned, ApiTypes
<1>2. ASSUME tx.open
      PROVE  items'[owner] = items[owner] /\ prepared'[owner] = prepared[owner]
  <2>1. owner \in Clients \ {c}
    BY <1>2 DEF Owned, ApiTypes
  <2> QED  BY <2>1 DEF ApiTypes
<1>3. TxServes'
  BY <1>2 DEF TxServes
<1> QED  BY <1>1, <1>3

\* The transaction of client c ends.
LEMMA TxEnds ==
    ASSUME ApiTypes, Owned, NEW c \in Clients, owner = c, tx' = NoTx, owner' = NoClient,
           NEW p \in Stages, p # "write", pc' = [pc EXCEPT ![c] = p]
    PROVE  Owned' /\ TxServes'
<1>1. ~tx'.open
  BY DEF NoTx
<1>2. NoClient \notin Clients
  BY LinkApiAssumption
<1>3. \A e \in Clients : pc'[e] # "write"
  BY DEF Owned, ApiTypes
<1>4. Owned'
  BY <1>1, <1>2, <1>3 DEF Owned
<1>5. TxServes'
  BY <1>1 DEF TxServes
<1> QED  BY <1>4, <1>5

\* The parts of the invariant that a step works with.
LEMMA CreateInvParts ==
    ASSUME CreateInv, NEW c \in Clients
    PROVE  /\ pc \in [Clients -> Stages] /\ items \in [Clients -> Seq(Item)]
           /\ prepared \in [Clients -> Seq(Outcome)] /\ found \in [Clients -> Keys \cup {NoKey}]
           /\ pc[c] \in Stages /\ items[c] \in Seq(Item) /\ prepared[c] \in Seq(Outcome)
           /\ found[c] \in Keys \cup {NoKey}
           /\ pc = [pc EXCEPT ![c] = pc[c]] /\ items = [items EXCEPT ![c] = items[c]]
           /\ prepared = [prepared EXCEPT ![c] = prepared[c]]
           /\ found = [found EXCEPT ![c] = found[c]]
           /\ Sound(c, pc[c], items[c], prepared[c], found[c])
           /\ churn \in Nat /\ owner \in Clients \cup {NoClient}
           /\ churn = 0 => Agrees(pc[c], items[c], prepared[c], found[c], db)
           /\ pc[c] = "write" <=> owner = c
           /\ db \in Buckets /\ Mirrored(db) /\ Extends(db, db)
           /\ db.links \in [Keys -> Targets \cup {NoTarget}]
           /\ db.targets \in [Targets -> Keys \cup {NoKey}]
<1>1. /\ pc \in [Clients -> Stages] /\ items \in [Clients -> Seq(Item)]
      /\ prepared \in [Clients -> Seq(Outcome)] /\ found \in [Clients -> Keys \cup {NoKey}]
      /\ churn \in Nat /\ owner \in Clients \cup {NoClient}
  BY DEF CreateInv, ApiTypes
<1>2. /\ pc = [pc EXCEPT ![c] = pc[c]] /\ items = [items EXCEPT ![c] = items[c]]
      /\ prepared = [prepared EXCEPT ![c] = prepared[c]]
      /\ found = [found EXCEPT ![c] = found[c]]
  BY <1>1
<1>3. /\ Sound(c, pc[c], items[c], prepared[c], found[c])
      /\ churn = 0 => Agrees(pc[c], items[c], prepared[c], found[c], db)
      /\ pc[c] = "write" <=> owner = c
  BY DEF CreateInv, AllSound, AllAgree, Owned
<1>4. db \in Buckets /\ Mirrored(db) /\ Extends(db, db)
  BY DEF CreateInv, StoreInv, StoreTypeOK, BucketsInverse, Extends
<1>5. /\ db.links \in [Keys -> Targets \cup {NoTarget}]
      /\ db.targets \in [Targets -> Keys \cup {NoKey}]
  BY <1>4, BucketsParts
<1> QED  BY <1>1, <1>2, <1>3, <1>4, <1>5

\* What is not about the store stays when only the listings move.
LEMMA SameRequests ==
    ASSUME CreateInv, NEW c \in Clients, NEW p \in {"idle", "list"}, pc[c] \in {"idle", "list"},
           pc' = [pc EXCEPT ![c] = p],
           UNCHANGED <<storeVars, items, prepared, found, owner, churn>>
    PROVE  CreateInv'
<1> USE DEF storeVars
<1>0. p \in Stages /\ p # "write" /\ p # "get" /\ pc[c] # "write"
  BY DEF Stages
<1>1. StoreInv' /\ IdleHasNothingToDo'
  BY StoreStepKeepsInv DEF CreateInv
<1>2. Sound(c, p, items[c], prepared[c], found[c])
  <2>1. Sound(c, pc[c], items[c], prepared[c], found[c])
    BY CreateInvParts
  <2> QED  BY <1>0, <2>1 DEF Sound
<1>3. churn = 0 => Agrees(p, items[c], prepared[c], found[c], db)
  BY <1>0, CreateInvParts DEF Agrees
<1>4. ApiTypes /\ AllSound /\ AllAgree /\ Owned /\ TxServes
  BY DEF CreateInv
<1> DEFINE its == items[c]
           outs == prepared[c]
           f == found[c]
<1>a. /\ its \in Seq(Item) /\ outs \in Seq(Outcome) /\ f \in Keys \cup {NoKey}
      /\ items' = [items EXCEPT ![c] = its] /\ prepared' = [prepared EXCEPT ![c] = outs]
      /\ found' = [found EXCEPT ![c] = f]
      /\ owner' \in Clients \cup {NoClient} /\ churn' \in Nat /\ owner # c
      /\ Extends(db, db') /\ tx' = tx /\ owner' = owner /\ churn' = churn
  BY <1>0, CreateInvParts
<1>b. Sound(c, p, its, outs, f) /\ (churn = 0 => Agrees(p, its, outs, f, db'))
  BY <1>2, <1>3
<1> HIDE DEF its, outs, f
<1>c. pc' = [pc EXCEPT ![c] = p]
  OBVIOUS
<1>5. ApiTypes' /\ AllSound' /\ AllAgree'
  BY ONLY <1>0, <1>4, <1>a, <1>b, <1>c, ClientStep
<1>6. Owned' /\ TxServes'
  BY ONLY <1>0, <1>4, <1>a, <1>c, TxUntouched
<1> QED  BY <1>1, <1>5, <1>6 DEF CreateInv

\* A step that prepares: the transaction and the buckets stay.
LEMMA PreparingKeepsInv ==
    ASSUME CreateInv, NEW c \in Clients, owner # c,
           NEW p \in Stages, p # "write", NEW its \in Seq(Item), NEW outs \in Seq(Outcome),
           NEW f \in Keys \cup {NoKey},
           pc' = [pc EXCEPT ![c] = p], items' = [items EXCEPT ![c] = its],
           prepared' = [prepared EXCEPT ![c] = outs], found' = [found EXCEPT ![c] = f],
           UNCHANGED <<storeVars, owner, churn>>,
           Sound(c, p, its, outs, f), churn = 0 => Agrees(p, its, outs, f, db)
    PROVE  CreateInv'
<1>1. ApiTypes /\ AllSound /\ AllAgree /\ Owned /\ TxServes
  BY DEF CreateInv
<1>2. /\ db' = db /\ tx' = tx /\ owner' = owner /\ churn' = churn
      /\ owner' \in Clients \cup {NoClient} /\ churn' \in Nat /\ Extends(db, db')
  BY CreateInvParts DEF storeVars
<1>3. StoreInv' /\ IdleHasNothingToDo'
  BY StoreStepKeepsInv DEF CreateInv
<1>4. churn' = 0 => churn = 0 /\ Extends(db, db') /\ Agrees(p, its, outs, f, db')
  BY <1>2
<1>5. ApiTypes' /\ AllSound' /\ AllAgree'
  BY <1>1, <1>2, <1>4, ClientStep
<1>6. Owned' /\ TxServes'
  BY <1>1, <1>2, TxUntouched
<1> QED  BY <1>3, <1>5, <1>6 DEF CreateInv

LEMMA StartCreateKeepsInv ==
    ASSUME CreateInv, NEW c \in Clients, NEW list \in Lists, StartCreate(c, list)
    PROVE  CreateInv'
<1> DEFINE p == "prepare"
           outs == <<>>
           f == found[c]
<1>1. list \in Seq(Item) /\ Len(list) <= MaxBatch
  <2>1. list \in Seq(Item) /\ Len(list) \in 1..MaxBatch
    BY LinkApiAssumption
  <2> QED  BY <2>1, LinkStoreAssumption
<1>2. outs \in Seq(Outcome) /\ Len(outs) = 0 /\ DOMAIN outs = {}
  OBVIOUS
<1>3. /\ pc[c] = "idle" /\ p \in Stages /\ p # "write" /\ f \in Keys \cup {NoKey}
      /\ pc' = [pc EXCEPT ![c] = p] /\ items' = [items EXCEPT ![c] = list]
      /\ prepared' = [prepared EXCEPT ![c] = outs] /\ found' = [found EXCEPT ![c] = f]
      /\ UNCHANGED <<storeVars, owner, churn>>
      /\ owner # c
  BY CreateInvParts DEF StartCreate, Accept, Stages
<1>4. Sound(c, p, list, outs, f) /\ Agrees(p, list, outs, f, db)
  <2>1. Len(list) \in Nat
    BY <1>1
  <2> QED  BY <1>1, <1>2, <2>1 DEF Sound, Agrees
<1> HIDE DEF p, outs, f
<1> QED  BY ONLY CreateInv, <1>1, <1>2, <1>3, <1>4, PreparingKeepsInv

LEMMA PrepareKeepsInv ==
    ASSUME CreateInv, NEW c \in Clients, Prepare(c)
    PROVE  CreateInv'
<1> DEFINE its == items[c]
           outs == prepared[c]
           f == found[c]
           item == its[Len(outs) + 1]
           k == db.targets[item.target]
           plan == Plan(c, item)
           more == Append(outs, plan)
<1>1. /\ pc[c] = "prepare" /\ Len(outs) < Len(its)
      /\ UNCHANGED <<storeVars, owner, churn>> /\ items' = items
      /\ \/ /\ item.key = NoKey /\ k # NoKey
            /\ pc' = [pc EXCEPT ![c] = "get"] /\ found' = [found EXCEPT ![c] = k]
            /\ prepared' = prepared
         \/ /\ prepared' = [prepared EXCEPT ![c] = more]
            /\ pc' = pc /\ found' = found
  BY DEF Prepare, NextItem, Resolve, Prepared
<1>2. /\ its \in Seq(Item) /\ outs \in Seq(Outcome) /\ f \in Keys \cup {NoKey}
      /\ items = [items EXCEPT ![c] = its] /\ prepared = [prepared EXCEPT ![c] = outs]
      /\ found = [found EXCEPT ![c] = f] /\ pc = [pc EXCEPT ![c] = "prepare"]
      /\ Sound(c, "prepare", its, outs, f) /\ owner # c
      /\ churn = 0 => Agrees("prepare", its, outs, f, db)
      /\ Mirrored(db) /\ db.targets \in [Targets -> Keys \cup {NoKey}]
  BY <1>1, CreateInvParts
<1>3. item \in Item /\ item.target \in Targets
  <2>1. Len(outs) + 1 \in 1..Len(its)
    BY <1>1, <1>2
  <2>2. item \in Item
    BY <1>2, <2>1
  <2> QED  BY <2>2 DEF Item
<1>s. "get" \in Stages /\ "prepare" \in Stages
  BY DEF Stages
<1>4. CASE /\ item.key = NoKey /\ k # NoKey
           /\ pc' = [pc EXCEPT ![c] = "get"] /\ found' = [found EXCEPT ![c] = k]
           /\ prepared' = prepared
  <2>1. k \in Keys /\ Published(db, k, item.target)
    BY <1>2, <1>3, <1>4 DEF Mirrored, Published
  <2>2. Sound(c, "get", its, outs, k)
    BY <1>1, <1>2, <1>4, <2>1 DEF Sound
  <2>3. churn = 0 => Agrees("get", its, outs, k, db)
    BY <1>2, <2>1 DEF Agrees
  <2>4. k \in Keys \cup {NoKey} /\ items' = [items EXCEPT ![c] = its]
        /\ prepared' = [prepared EXCEPT ![c] = outs]
    BY <1>1, <1>2, <1>4, <2>1
  <2> HIDE DEF its, outs, k
  <2> QED  BY ONLY CreateInv, <1>1, <1>2, <1>4, <1>s, <2>2, <2>3, <2>4, PreparingKeepsInv
<1>5. CASE /\ prepared' = [prepared EXCEPT ![c] = more]
           /\ pc' = pc /\ found' = found
  <2>1. /\ plan \in Outcome /\ plan.err # "none"
        /\ item.key # NoKey /\ plan.err = "pending" => CanAccess(c, item.key)
    <3> HIDE DEF item
    <3> QED  BY <1>3, PlanFacts
  <2>2. /\ more \in Seq(Outcome) /\ Sound(c, "prepare", its, more, f)
        /\ churn = 0 => Agrees("prepare", its, more, f, db)
    <3>1. item = its[Len(outs) + 1]
      OBVIOUS
    <3>2. churn = 0 => \A i \in DOMAIN outs :
                           outs[i].err = "none" => Published(db, outs[i].key, its[i].target)
      BY <1>2 DEF Agrees
    <3>3. Len(outs) < Len(its) /\ its \in Seq(Item) /\ outs \in Seq(Outcome)
          /\ Sound(c, "prepare", its, outs, f)
      BY <1>1, <1>2
    <3> HIDE DEF item, its, outs, plan, f
    <3> QED  BY ONLY <2>1, <3>1, <3>2, <3>3, AppendIsSound
  <2>3. /\ items' = [items EXCEPT ![c] = its] /\ found' = [found EXCEPT ![c] = f]
        /\ pc' = [pc EXCEPT ![c] = "prepare"]
    BY <1>1, <1>2, <1>5
  <2> HIDE DEF its, more, f
  <2> QED  BY ONLY CreateInv, <1>1, <1>2, <1>5, <1>s, <2>2, <2>3, PreparingKeepsInv
<1> QED  BY <1>1, <1>4, <1>5

LEMMA GetFoundKeepsInv ==
    ASSUME CreateInv, NEW c \in Clients, GetFound(c)
    PROVE  CreateInv'
<1> DEFINE its == items[c]
           outs == prepared[c]
           f == found[c]
           item == its[Len(outs) + 1]
           t == Get(db, f)
           out == IF t # NoTarget THEN Done("none", f, t) ELSE Plan(c, item)
           more == Append(outs, out)
<1>1. /\ pc[c] = "get"
      /\ UNCHANGED <<storeVars, owner, churn>> /\ items' = items
      /\ pc' = [pc EXCEPT ![c] = "prepare"] /\ found' = [found EXCEPT ![c] = NoKey]
      /\ prepared' = [prepared EXCEPT ![c] = more]
  BY DEF GetFound, NextItem, Prepared
<1>2. /\ its \in Seq(Item) /\ outs \in Seq(Outcome)
      /\ items = [items EXCEPT ![c] = its]
      /\ Sound(c, "get", its, outs, f) /\ owner # c
      /\ churn = 0 => Agrees("get", its, outs, f, db)
      /\ db.links \in [Keys -> Targets \cup {NoTarget}]
  BY <1>1, CreateInvParts
<1>3. Len(outs) < Len(its) /\ item.key = NoKey /\ f \in Keys
  BY <1>2 DEF Sound
<1>4. item \in Item
  <2>1. Len(outs) + 1 \in 1..Len(its)
    BY <1>2, <1>3
  <2> QED  BY <1>2, <2>1
<1>5. t = db.links[f] /\ t \in Targets \cup {NoTarget}
  BY <1>2, <1>3, NoKeyIsNoKey DEF Get
<1>6. out \in Outcome
  <2>1. "none" \in ApiErrors /\ f \in Keys \cup {NoKey}
    BY <1>3 DEF ApiErrors
  <2>2. Done("none", f, t) \in Outcome
    <3> HIDE DEF f, t
    <3> QED  BY <1>5, <2>1 DEF Done, Outcome
  <2>3. Plan(c, item) \in Outcome
    <3> HIDE DEF item
    <3> QED  BY <1>4, PlanFacts
  <2> HIDE DEF t, item
  <2> QED  BY <2>2, <2>3
<1>7. churn = 0 /\ out.err = "none" => Published(db, out.key, item.target)
  <2> SUFFICES ASSUME churn = 0, out.err = "none" PROVE Published(db, out.key, item.target)
    OBVIOUS
  <2>1. Published(db, f, item.target)
    BY <1>2 DEF Agrees
  <2>2. Plan(c, item).err # "none"
    <3> HIDE DEF item
    <3> QED  BY <1>4, PlanFacts
  <2>3. out = Done("none", f, t)
    <3> HIDE DEF t, item
    <3> QED  BY <2>2
  <2>4. out.key = f
    BY <2>3 DEF Done
  <2> QED  BY <2>1, <2>4
<1>8. /\ more \in Seq(Outcome) /\ Sound(c, "prepare", its, more, NoKey)
      /\ churn = 0 => Agrees("prepare", its, more, NoKey, db)
  <2>1. item = its[Len(outs) + 1]
    OBVIOUS
  <2>2. churn = 0 => \A i \in DOMAIN outs :
                         outs[i].err = "none" => Published(db, outs[i].key, its[i].target)
    BY <1>2 DEF Agrees
  <2> HIDE DEF item, its, outs, out, f, t
  <2> QED  BY <1>2, <1>3, <1>6, <1>7, <2>1, <2>2, AppendIsSound
<1>9. /\ "prepare" \in Stages /\ NoKey \in Keys \cup {NoKey} /\ items' = [items EXCEPT ![c] = its]
      /\ "prepare" # "write"
  BY <1>1, <1>2 DEF Stages
<1> HIDE DEF its, more
<1> QED  BY ONLY CreateInv, <1>1, <1>2, <1>8, <1>9, PreparingKeepsInv

LEMMA StoreKeepsInv ==
    ASSUME CreateInv, NEW c \in Clients, Store(c)
    PROVE  CreateInv'
<1> DEFINE its == items[c]
           outs == prepared[c]
           f == found[c]
           pend == PendingIn(outs)
           reqs == Requests(c)
<1>1. /\ pc[c] = "prepare" /\ Len(outs) = Len(its)
      /\ items' = items /\ prepared' = prepared /\ found' = found /\ churn' = churn
      /\ \/ reqs = <<>> /\ pc' = [pc EXCEPT ![c] = "idle"] /\ UNCHANGED <<storeVars, owner>>
         \/ /\ reqs # <<>> /\ Begin(reqs) /\ owner' = c
            /\ pc' = [pc EXCEPT ![c] = "write"]
  BY DEF Store
<1>2. /\ its \in Seq(Item) /\ outs \in Seq(Outcome) /\ f \in Keys \cup {NoKey}
      /\ items = [items EXCEPT ![c] = its] /\ prepared = [prepared EXCEPT ![c] = outs]
      /\ found = [found EXCEPT ![c] = f]
      /\ Sound(c, "prepare", its, outs, f) /\ owner # c
      /\ churn = 0 => Agrees("prepare", its, outs, f, db)
      /\ churn \in Nat
  BY <1>1, CreateInvParts
<1>3. /\ reqs = <<>> <=> pend = {}
      /\ reqs \in Seq(Request) /\ Len(reqs) = Cardinality(pend)
      /\ reqs # <<>> => reqs \in Batches
      /\ \A i \in pend : reqs[Rank(i, pend)] = AskedOf(c, its[i])
      /\ \A j \in DOMAIN reqs : \E i \in pend : reqs[j] = AskedOf(c, its[i])
  <2>1. /\ its \in Seq(Item) /\ outs \in Seq(Outcome) 
        /\ Len(its) <= MaxBatch /\ Len(outs) <= Len(its)
    BY <1>2 DEF Sound
  <2>2. pend = PendingIn(outs) /\ reqs = RequestsOf(c, its, outs)
    BY RequestsAreOf
  <2> HIDE DEF pend, its, outs, reqs
  <2> QED  BY ONLY <2>1, <2>2, RequestsFacts
<1>s. "idle" \in Stages /\ "write" \in Stages /\ "idle" # "write"
  BY DEF Stages
<1>4. CASE reqs = <<>> /\ pc' = [pc EXCEPT ![c] = "idle"] /\ UNCHANGED <<storeVars, owner>>
  <2>1. Sound(c, "idle", its, outs, f) /\ (churn = 0 => Agrees("idle", its, outs, f, db))
    BY <1>2, <1>3, <1>4 DEF Sound, Agrees
  <2>2. /\ items' = [items EXCEPT ![c] = its] /\ prepared' = [prepared EXCEPT ![c] = outs]
        /\ found' = [found EXCEPT ![c] = f] /\ UNCHANGED <<storeVars, owner, churn>>
    BY <1>1, <1>2, <1>4
  <2> HIDE DEF its, outs, f, reqs
  <2> QED  BY ONLY CreateInv, <1>2, <1>4, <1>s, <2>1, <2>2, PreparingKeepsInv
<1>5. CASE /\ reqs # <<>> /\ Begin(reqs) /\ owner' = c
           /\ pc' = [pc EXCEPT ![c] = "write"]
  <2>1. /\ ~tx.open /\ tx' = [open |-> TRUE, db |-> db, todo |-> reqs, done |-> <<>>]
        /\ db' = db
    BY <1>5 DEF Begin, WriterFree
  <2>2. StoreInv' /\ IdleHasNothingToDo'
    <3>1. StoreNext
      BY <1>3, <1>5 DEF StoreNext
    <3> QED  BY <3>1, StoreStepKeepsInv DEF CreateInv
  <2>3. Sound(c, "write", its, outs, f) /\ (churn = 0 => Agrees("write", its, outs, f, db))
    BY <1>2 DEF Sound, Agrees
  <2>4. ApiTypes' /\ AllSound' /\ AllAgree'
    <3>1. ApiTypes /\ AllSound /\ AllAgree
      BY DEF CreateInv
    <3>2. /\ items' = [items EXCEPT ![c] = its] /\ prepared' = [prepared EXCEPT ![c] = outs]
          /\ found' = [found EXCEPT ![c] = f] /\ pc' = [pc EXCEPT ![c] = "write"]
          /\ owner' \in Clients \cup {NoClient} /\ churn' \in Nat
      BY <1>1, <1>2, <1>5
    <3>3. Extends(db, db')
      BY <2>1 DEF Extends
    <3>4. churn' = 0 => churn = 0 /\ Extends(db, db') /\ Agrees("write", its, outs, f, db')
      BY <1>1, <2>1, <2>3, <3>3
    <3> HIDE DEF its, outs, f
    <3> QED  BY ONLY <1>2, <1>s, <2>3, <3>1, <3>2, <3>4, ClientStep
  <2>5. Owned'
    <3>1. owner = NoClient /\ pc \in [Clients -> Stages] /\ NoClient \notin Clients
      BY <2>1, LinkApiAssumption DEF CreateInv, Owned, ApiTypes
    <3>2. \A e \in Clients : pc[e] # "write"
      BY <3>1 DEF CreateInv, Owned
    <3>3. \A e \in Clients : pc'[e] = "write" <=> e = c
      BY <1>5, <3>1, <3>2
    <3> QED  BY <1>5, <2>1, <3>1, <3>3 DEF Owned
  <2>6. Aligned(c, its, outs, tx')
    <3>1. Len(tx'.done) = 0 /\ tx'.todo = reqs
      BY <2>1
    <3>2. \A i \in pend : Rank(i, pend) \in 1..Cardinality(pend)
      <4> HIDE DEF pend, outs
      <4> QED  BY <1>2, PendingFacts DEF pend
    <3>3. Cardinality(pend) \in Nat
      BY <1>3
    <3>4. \A i \in pend : /\ Rank(i, pend) > 0 /\ ~(Rank(i, pend) <= 0)
                          /\ Rank(i, pend) - 0 = Rank(i, pend)
      <4> HIDE DEF pend
      <4> QED  BY <3>2, <3>3
    <3>5. 0 + Len(reqs) = Cardinality(pend)
      BY <1>3
    <3> HIDE DEF pend, outs, its, reqs
    <3> QED  BY <1>3, <3>1, <3>4, <3>5 DEF Aligned, pend
  <2>7. Entitled(c, tx')
    <3>1. tx'.todo = reqs /\ DOMAIN tx'.done = {}
      BY <2>1
    <3>2. ASSUME NEW j \in DOMAIN reqs
          PROVE  reqs[j].client = c /\ (reqs[j].key # NoKey => CanAccess(c, reqs[j].key))
      <4>1. PICK i \in pend : reqs[j] = AskedOf(c, its[i])
        BY <1>3
      <4>2. i \in DOMAIN outs /\ outs[i].err = "pending"
        BY <4>1 DEF PendingIn
      <4>3. its[i].key # NoKey => CanAccess(c, its[i].key)
        BY <1>2, <4>2 DEF Sound
      <4> HIDE DEF reqs, its
      <4> QED  BY <4>1, <4>3 DEF AskedOf
    <3> HIDE DEF reqs
    <3> QED  BY <3>1, <3>2 DEF Entitled
  <2>8. TxServes'
    BY <1>1, <1>5, <2>6, <2>7 DEF TxServes
  <2> QED  BY <2>2, <2>4, <2>5, <2>8 DEF CreateInv
<1> QED  BY <1>1, <1>4, <1>5

LEMMA WriteItemKeepsInv ==
    ASSUME CreateInv, NEW c \in Clients, WriteItem(c)
    PROVE  CreateInv'
<1>1. /\ owner = c /\ CreateItem
      /\ UNCHANGED <<pc, items, prepared, found, owner, listing, left, churn>>
  BY DEF WriteItem, apiVars
<1>2. /\ StoreInv /\ ApiTypes /\ AllSound /\ AllAgree /\ Owned /\ TxServes /\ tx.open
      /\ prepared[c] \in Seq(Outcome)
  <2>1. StoreInv /\ ApiTypes /\ AllSound /\ AllAgree /\ Owned /\ TxServes
    BY DEF CreateInv
  <2>2. tx.open
    BY <1>1, <2>1, LinkApiAssumption DEF Owned
  <2> QED  BY <2>1, <2>2 DEF ApiTypes
<1>3. /\ tx.db \in Buckets /\ Mirrored(tx.db) /\ tx.todo \in Seq(Request)
      /\ tx.done \in Seq(Result) /\ tx.todo # <<>>
      /\ tx = [open |-> tx.open, db |-> tx.db, todo |-> tx.todo, done |-> tx.done]
      /\ db' = db
  BY <1>1, <1>2 DEF StoreInv, StoreTypeOK, BucketsInverse, CreateItem
<1>4. StoreInv' /\ IdleHasNothingToDo'
  <2>1. StoreNext
    BY <1>1 DEF StoreNext
  <2> QED  BY <2>1, StoreStepKeepsInv DEF CreateInv
<1>5. ApiTypes' /\ AllSound' /\ AllAgree'
  BY <1>1, <1>2, <1>3 DEF ApiTypes, AllSound, AllAgree
<1> DEFINE r == Head(tx.todo)
<1>6. PICK o \in CreateOutcomes(tx.db, r) :
         tx' = [tx EXCEPT !.db = o.db, !.todo = Tail(@), !.done = Append(@, o.res)]
  BY <1>1 DEF CreateItem
<1>7. tx'.todo = Tail(tx.todo) /\ tx'.done = Append(tx.done, o.res) /\ tx'.open = tx.open
  BY <1>3, <1>6
<1>8. Owned'
  BY <1>1, <1>2, <1>7 DEF Owned
<1>9. Aligned(c, items[c], prepared[c], tx') /\ Entitled(c, tx')
  <2> DEFINE its == items[c]
             outs == prepared[c]
             t == tx
             u == tx'
  <2>1. Aligned(c, its, outs, t) /\ Entitled(c, t) /\ outs \in Seq(Outcome)
    BY <1>1, <1>2 DEF TxServes
  <2>2. /\ t.db \in Buckets /\ Mirrored(t.db) /\ t.todo \in Seq(Request)
        /\ t.done \in Seq(Result) /\ t.todo # <<>> /\ r = Head(t.todo)
        /\ o \in CreateOutcomes(t.db, r)
        /\ u.todo = Tail(t.todo) /\ u.done = Append(t.done, o.res)
    BY <1>3, <1>6, <1>7
  <2> HIDE DEF its, outs, t, u, r
  <2>3. Aligned(c, its, outs, u) /\ Entitled(c, u)
    BY ONLY <2>1, <2>2, WriteItemServes
  <2> QED  BY <2>3 DEF its, outs, u
<1>10. TxServes'
  BY <1>1, <1>9 DEF TxServes
<1> QED  BY <1>4, <1>5, <1>8, <1>10 DEF CreateInv

LEMMA ReplyKeepsInv ==
    ASSUME CreateInv, NEW c \in Clients, Reply(c)
    PROVE  CreateInv' /\ (\A k \in Keys : db.links[k] # NoTarget => db'.links[k] = db.links[k])
<1> DEFINE its == items[c]
           outs == prepared[c]
           f == found[c]
           full == FillIn(outs, tx.done)
<1>1. /\ owner = c /\ Commit /\ owner' = NoClient
      /\ pc' = [pc EXCEPT ![c] = "idle"] /\ prepared' = [prepared EXCEPT ![c] = full]
      /\ items' = items /\ found' = found /\ churn' = churn
      /\ tx.open /\ tx.todo = <<>> /\ db' = tx.db /\ tx' = NoTx
  BY DEF Reply, Commit
<1>2. /\ its \in Seq(Item) /\ outs \in Seq(Outcome) /\ f \in Keys \cup {NoKey}
      /\ items = [items EXCEPT ![c] = its] /\ found = [found EXCEPT ![c] = f]
      /\ Sound(c, "write", its, outs, f)
      /\ churn = 0 => Agrees("write", its, outs, f, db)
      /\ churn \in Nat /\ db \in Buckets /\ Mirrored(db)
  BY <1>1, CreateInvParts
<1>3. /\ StoreInv /\ ApiTypes /\ AllSound /\ AllAgree /\ Owned /\ TxServes
      /\ tx.done \in Seq(Result) /\ tx.db \in Buckets /\ Mirrored(tx.db)
  BY DEF CreateInv, StoreInv, StoreTypeOK, BucketsInverse
<1>4. StoreInv' /\ IdleHasNothingToDo'
  <2>1. StoreNext
    BY <1>1 DEF StoreNext
  <2> QED  BY <2>1, StoreStepKeepsInv DEF CreateInv
<1>5. Extends(db, db')
  <2>1. \A k \in Keys : db.links[k] # NoTarget => tx.db.links[k] = db.links[k]
    BY <1>1, <1>3 DEF StoreInv, TxExtendsDb
  <2>2. ASSUME NEW t \in Targets, db.targets[t] # NoKey
        PROVE  tx.db.targets[t] = db.targets[t]
    <3>1. db.targets[t] \in Keys /\ db.links[db.targets[t]] = t
      BY <1>2, <2>2, BucketsParts DEF Mirrored
    <3>2. tx.db.links[db.targets[t]] = t
      BY <2>1, <3>1, NoTargetIsNoTarget
    <3> QED  BY <1>3, <3>1, <3>2, NoTargetIsNoTarget DEF Mirrored
  <2> QED  BY <1>1, <2>1, <2>2 DEF Extends
<1>6. Aligned(c, its, outs, tx)
  BY <1>1, <1>3 DEF TxServes
<1>7. \A j \in DOMAIN tx.done :
         tx.done[j].err = "none" => Published(db', tx.done[j].key, tx.done[j].target)
  BY <1>1, <1>3 DEF StoreInv, SuccessesAreLinks, BatchReportTrue, Published
<1>8. churn = 0 => Agrees("write", its, outs, f, db')
  BY <1>2, <1>5, AgreesStays
<1>9. /\ full \in Seq(Outcome) /\ Sound(c, "idle", its, full, f)
      /\ churn = 0 => Agrees("idle", its, full, f, db')
  <2> DEFINE t == tx
             d == db'
  <2>1. /\ t.done \in Seq(Result) /\ t.todo = <<>> /\ Aligned(c, its, outs, t)
        /\ full = FillIn(outs, t.done)
    BY <1>1, <1>3, <1>6
  <2>2. churn = 0 => \A i \in DOMAIN outs :
                         outs[i].err = "none" => Published(d, outs[i].key, its[i].target)
    BY <1>8 DEF Agrees
  <2>3. \A j \in DOMAIN t.done :
           t.done[j].err = "none" => Published(d, t.done[j].key, t.done[j].target)
    BY <1>7
  <2> HIDE DEF its, outs, f, full, t, d
  <2>5. /\ its \in Seq(Item) /\ outs \in Seq(Outcome) /\ Sound(c, "write", its, outs, f)
    BY <1>2
  <2>4. /\ full \in Seq(Outcome) /\ Sound(c, "idle", its, full, f)
        /\ churn = 0 => Agrees("idle", its, full, f, d)
    <3> DEFINE res == t.done
               pend == PendingIn(outs)
    <3>1. res \in Seq(Result) /\ full = FillIn(outs, res) /\ Len(res) \in Nat
      BY <2>1
    <3>2. \A j \in DOMAIN res : res[j].err = "none" => Published(d, res[j].key, res[j].target)
      BY <2>3
    <3>3. \A i \in pend : Rank(i, pend) \in 1..Cardinality(pend)
      <4> HIDE DEF pend
      <4> QED  BY <2>5, PendingFacts DEF pend
    <3>4. Len(res) = Cardinality(pend)
      <4>1. Len(res) + 0 = Cardinality(pend)
        BY <2>1 DEF Aligned
      <4> HIDE DEF res, pend
      <4> QED  BY <3>1, <4>1
    <3>5. \A i \in pend : Rank(i, pend) <= Len(res) => Answers(its[i], res[Rank(i, pend)])
      BY <2>1 DEF Aligned
    <3>6. pend = PendingIn(outs)
      OBVIOUS
    <3> HIDE DEF res, pend
    <3>7. \A i \in pend : Answers(its[i], res[Rank(i, pend)])
      BY <3>1, <3>3, <3>4, <3>5
    <3>8. full \in Seq(Outcome) /\ Sound(c, "idle", its, full, f)
      BY ONLY <2>5, <3>1, <3>4, <3>6, <3>7, FillInIsSound
    <3>9. churn = 0 => Agrees("idle", its, full, f, d)
      <4>1. churn = 0 => Truthful(outs, its, res, d)
        BY <2>2, <3>2 DEF Truthful
      <4> QED  BY ONLY <2>5, <3>1, <3>4, <3>6, <3>7, <4>1, FillInIsSound
    <3> QED  BY <3>8, <3>9
  <2> QED  BY <2>4 DEF d
<1>10. ApiTypes' /\ AllSound' /\ AllAgree'
  <2>1. /\ items' = [items EXCEPT ![c] = its] /\ found' = [found EXCEPT ![c] = f]
        /\ pc' = [pc EXCEPT ![c] = "idle"] /\ prepared' = [prepared EXCEPT ![c] = full]
        /\ owner' \in Clients \cup {NoClient} /\ churn' \in Nat /\ "idle" \in Stages
    BY <1>1, <1>2 DEF Stages
  <2>2. churn' = 0 => churn = 0 /\ Extends(db, db') /\ Agrees("idle", its, full, f, db')
    BY <1>1, <1>5, <1>9
  <2> HIDE DEF its, full, f
  <2> QED  BY ONLY <1>2, <1>3, <1>9, <2>1, <2>2, ClientStep
<1>11. Owned' /\ TxServes'
  <2>1. "idle" \in Stages /\ "idle" # "write"
    BY DEF Stages
  <2> QED  BY <1>1, <1>3, <2>1, TxEnds
<1>12. \A k \in Keys : db.links[k] # NoTarget => db'.links[k] = db.links[k]
  BY <1>5 DEF Extends
<1> QED  BY <1>4, <1>10, <1>11, <1>12 DEF CreateInv

LEMMA ReplyErrorKeepsInv ==
    ASSUME CreateInv, NEW c \in Clients, ReplyError(c)
    PROVE  CreateInv'
<1> DEFINE its == items[c]
           outs == <<>>
           f == found[c]
<1>1. /\ owner = c /\ Rollback /\ owner' = NoClient
      /\ pc' = [pc EXCEPT ![c] = "idle"] /\ prepared' = [prepared EXCEPT ![c] = outs]
      /\ items' = items /\ found' = found /\ churn' = churn
      /\ db' = db /\ tx' = NoTx
  BY DEF ReplyError, Rollback
<1>2. /\ its \in Seq(Item) /\ outs \in Seq(Outcome) /\ f \in Keys \cup {NoKey}
      /\ items = [items EXCEPT ![c] = its] /\ found = [found EXCEPT ![c] = f]
      /\ Sound(c, "write", its, prepared[c], f) /\ churn \in Nat /\ Extends(db, db)
  BY <1>1, CreateInvParts
<1>3. ApiTypes /\ AllSound /\ AllAgree /\ Owned
  BY DEF CreateInv
<1>4. StoreInv' /\ IdleHasNothingToDo'
  <2>1. StoreNext
    BY <1>1 DEF StoreNext
  <2> QED  BY <2>1, StoreStepKeepsInv DEF CreateInv
<1>5. Sound(c, "idle", its, outs, f) /\ Agrees("idle", its, outs, f, db')
  <2>1. Len(outs) = 0 /\ DOMAIN outs = {} /\ PendingIn(outs) = {} /\ Len(its) \in Nat
    BY <1>2 DEF PendingIn
  <2> QED  BY <1>2, <2>1 DEF Sound, Agrees
<1>6. ApiTypes' /\ AllSound' /\ AllAgree'
  <2>1. /\ items' = [items EXCEPT ![c] = its] /\ found' = [found EXCEPT ![c] = f]
        /\ pc' = [pc EXCEPT ![c] = "idle"] /\ prepared' = [prepared EXCEPT ![c] = outs]
        /\ owner' \in Clients \cup {NoClient} /\ churn' \in Nat /\ "idle" \in Stages
        /\ churn' = 0 => churn = 0 /\ Extends(db, db') /\ Agrees("idle", its, outs, f, db')
    BY <1>1, <1>2, <1>5 DEF Stages
  <2> HIDE DEF its, outs, f
  <2> QED  BY ONLY <1>2, <1>3, <1>5, <2>1, ClientStep
<1>7. Owned' /\ TxServes'
  <2>1. "idle" \in Stages /\ "idle" # "write"
    BY DEF Stages
  <2> QED  BY <1>1, <1>3, <2>1, TxEnds
<1> QED  BY <1>4, <1>6, <1>7 DEF CreateInv

\* PUT and DELETE.
LEMMA ChurnKeepsInv ==
    ASSUME CreateInv, NEW c \in Clients, NEW k \in Keys,
           DeleteLink(c, k) \/ \E t \in Targets : UpdateLink(c, k, t)
    PROVE  CreateInv'
<1> DEFINE its == items[c]
           outs == prepared[c]
           f == found[c]
<1>1. /\ pc[c] = "idle" /\ pc' = pc /\ items' = items /\ prepared' = prepared /\ found' = found
      /\ owner' = owner /\ churn' = churn + 1
      /\ Delete(k) \/ \E t \in Targets : Update(k, t)
  BY DEF DeleteLink, UpdateLink, Accept, ChurnBound
<1>2. tx' = tx
  BY <1>1 DEF Delete, Update
<1>3. StoreInv' /\ IdleHasNothingToDo'
  <2>1. StoreNext
    BY <1>1 DEF StoreNext
  <2> QED  BY <2>1, StoreStepKeepsInv DEF CreateInv
<1>4. ApiTypes /\ AllSound /\ AllAgree /\ Owned /\ TxServes
  BY DEF CreateInv
<1>5. churn' \in Nat /\ churn' # 0
  BY <1>1, <1>4 DEF ApiTypes
<1>6. /\ its \in Seq(Item) /\ outs \in Seq(Outcome) /\ f \in Keys \cup {NoKey}
      /\ items' = [items EXCEPT ![c] = its] /\ prepared' = [prepared EXCEPT ![c] = outs]
      /\ found' = [found EXCEPT ![c] = f] /\ pc' = [pc EXCEPT ![c] = "idle"]
      /\ Sound(c, "idle", its, outs, f) /\ owner # c
      /\ owner' \in Clients \cup {NoClient} /\ "idle" \in Stages /\ "idle" # "write"
  BY <1>1, CreateInvParts DEF Stages
<1> HIDE DEF its, outs, f
<1>7. ApiTypes' /\ AllSound' /\ AllAgree'
  BY ONLY <1>4, <1>5, <1>6, ClientStep
<1>8. Owned' /\ TxServes'
  <2>1. owner' = owner
    BY <1>1
  <2> QED  BY ONLY <1>2, <1>4, <1>6, <2>1, TxUntouched
<1> QED  BY <1>3, <1>7, <1>8 DEF CreateInv

\* GET requests.
LEMMA ListingKeepsInv ==
    ASSUME CreateInv, NEW c \in Clients,
           ListStep(c) \/ ListPage(c) \/ \E ask \in Prefixes(c) : StartList(c, ask)
    PROVE  CreateInv'
<1>1. pc = [pc EXCEPT ![c] = pc[c]]
  BY CreateInvParts
<1>2. /\ pc[c] \in {"idle", "list"}
      /\ \E p \in {"idle", "list"} : pc' = [pc EXCEPT ![c] = p]
      /\ UNCHANGED <<storeVars, items, prepared, found, owner, churn>>
  <2>1. CASE ListStep(c)
    BY <1>1, <2>1 DEF ListStep
  <2>2. CASE ListPage(c)
    BY <1>1, <2>2 DEF ListPage
  <2>3. CASE \E ask \in Prefixes(c) : StartList(c, ask)
    BY <2>3 DEF StartList, Accept
  <2> QED  BY <2>1, <2>2, <2>3
<1> QED  BY <1>2, SameRequests

LEMMA CreateInit == Init => CreateInv
<1> SUFFICES ASSUME Init PROVE CreateInv
  OBVIOUS
<1>1. db \in Buckets /\ Mirrored(db) /\ tx = NoTx
  BY LinkApiAssumption DEF Init
<1>2. StoreInv /\ IdleHasNothingToDo
  BY <1>1, NoTxHolds DEF IdleHasNothingToDo, NoTx
<1>3. /\ owner = NoClient /\ churn = 0 /\ ~tx.open
      /\ \A c \in Clients : /\ pc[c] = "idle" /\ items[c] = <<>> /\ prepared[c] = <<>>
                            /\ found[c] = NoKey
  BY <1>1 DEF Init, NoTx
<1>4. ApiTypes
  BY DEF Init, ApiTypes, Stages
<1>5. \A c, f : Sound(c, "idle", <<>>, <<>>, f) /\ Agrees("idle", <<>>, <<>>, f, db)
  BY LinkStoreAssumption DEF Sound, Agrees, PendingIn
<1>6. AllSound /\ AllAgree
  BY <1>3, <1>5 DEF AllSound, AllAgree
<1>7. Owned /\ TxServes
  BY <1>3, LinkApiAssumption DEF Owned, TxServes
<1> QED  BY <1>2, <1>4, <1>6, <1>7 DEF CreateInv

LEMMA CreateStep == CreateInv /\ [Next]_vars => CreateInv'
<1> SUFFICES ASSUME CreateInv, [Next]_vars PROVE CreateInv'
  OBVIOUS
<1>1. CASE UNCHANGED vars
  <2>1. UNCHANGED <<pc, items, prepared, found, owner, churn, tx, db>>
    BY <1>1 DEF vars, apiVars, storeVars
  <2>2. StoreInv' /\ IdleHasNothingToDo'
    BY <2>1, StoreStepKeepsInv DEF CreateInv, storeVars
  <2>3. ApiTypes' /\ AllSound' /\ AllAgree' /\ Owned' /\ TxServes'
    BY <2>1 DEF CreateInv, ApiTypes, AllSound, AllAgree, Owned, TxServes
  <2> QED  BY <2>2, <2>3 DEF CreateInv
<1>2. CASE Next
  <2> PICK c \in Clients :
          \/ Step(c)
          \/ \E list \in Lists : StartCreate(c, list)
          \/ \E ask \in Prefixes(c) : StartList(c, ask)
          \/ \E k \in Keys : DeleteLink(c, k) \/ \E t \in Targets : UpdateLink(c, k, t)
    BY <1>2 DEF Next
  <2>1. CASE Prepare(c)
    BY <2>1, PrepareKeepsInv
  <2>2. CASE GetFound(c)
    BY <2>2, GetFoundKeepsInv
  <2>3. CASE Store(c)
    BY <2>3, StoreKeepsInv
  <2>4. CASE WriteItem(c)
    BY <2>4, WriteItemKeepsInv
  <2>5. CASE Reply(c)
    BY <2>5, ReplyKeepsInv
  <2>6. CASE ReplyError(c)
    BY <2>6, ReplyErrorKeepsInv
  <2>7. CASE ListStep(c) \/ ListPage(c) \/ \E ask \in Prefixes(c) : StartList(c, ask)
    BY <2>7, ListingKeepsInv
  <2>8. CASE \E list \in Lists : StartCreate(c, list)
    BY <2>8, StartCreateKeepsInv
  <2>9. CASE \E k \in Keys : DeleteLink(c, k) \/ \E t \in Targets : UpdateLink(c, k, t)
    BY <2>9, ChurnKeepsInv
  <2> QED  BY <2>1, <2>2, <2>3, <2>4, <2>5, <2>6, <2>7, <2>8, <2>9 DEF Step
<1> QED  BY <1>1, <1>2

LEMMA CreateInvHolds == Spec => []CreateInv
  BY CreateInit, CreateStep, PTL DEF Spec

\* While no link is retargeted or deleted, every key that any client was given
\* for a target is still the key of that target (api.go:497-501, C8 and C9 of
\* the design), however many requests race to shorten the same one.
THEOREM PublishedAgree == Spec => []PublishedKeysAgree
<1>1. CreateInv => PublishedKeysAgree
  <2> SUFFICES ASSUME CreateInv, churn = 0, NEW c \in Clients, NEW i \in Answered(c),
                      prepared[c][i].err = "none"
               PROVE  /\ db.links[prepared[c][i].key] = items[c][i].target
                      /\ db.targets[items[c][i].target] = prepared[c][i].key
    BY DEF PublishedKeysAgree
  <2>1. i \in DOMAIN prepared[c]
    BY DEF Answered
  <2>2. Agrees(pc[c], items[c], prepared[c], found[c], db)
    BY DEF CreateInv, AllAgree
  <2> QED  BY <2>1, <2>2 DEF Agrees, Published
<1> QED  BY <1>1, CreateInvHolds, PTL

\* A create request is answered with the keys it asks for, in request order,
\* and writes only keys that its client may write (api.go:483-546).
THEOREM CreatesAreAsAsked == Spec => []CreatesAsAsked
<1>1. CreateInv => ExplicitKeyHonoured
  <2> SUFFICES ASSUME CreateInv, NEW c \in Clients, NEW i \in Answered(c)
               PROVE  /\ prepared[c][i].err # "pending"
                      /\ items[c][i].key # NoKey /\ prepared[c][i].err = "none" =>
                             /\ prepared[c][i].key = items[c][i].key
                             /\ prepared[c][i].target = items[c][i].target
    BY DEF ExplicitKeyHonoured
  <2>1. i \in DOMAIN prepared[c] /\ pc[c] = "idle"
    BY DEF Answered
  <2>2. Sound(c, pc[c], items[c], prepared[c], found[c])
    BY DEF CreateInv, AllSound
  <2>3. i \notin PendingIn(prepared[c])
    BY <2>1, <2>2 DEF Sound
  <2> QED  BY <2>1, <2>2, <2>3 DEF Sound, PendingIn
<1>2. CreateInv => CreatesInNamespace
  <2> SUFFICES ASSUME CreateInv, NEW k \in Keys, tx.open, tx.db.links[k] # db.links[k]
               PROVE  CanAccess(owner, k)
    BY DEF CreatesInNamespace
  <2>1. k \in {tx.done[i].key : i \in {j \in DOMAIN tx.done : tx.done[j].created}}
    BY DEF CreateInv, StoreInv, TxWritesAreReported
  <2>2. Entitled(owner, tx)
    BY DEF CreateInv, TxServes
  <2> QED  BY <2>1, <2>2 DEF Entitled
<1> QED  BY <1>1, <1>2, CreateInvHolds, PTL DEF CreatesAsAsked

-----------------------------------------------------------------------------
(* Paging, whatever is created and deleted between the pages.              *)

\* Other requests may take keys away and add keys.
LEMMA PagedStays ==
    ASSUME NEW c, NEW l, NEW d, NEW e, NEW m, Paged(c, l, d),
           m.ask = l.ask, m.cursor = l.cursor, m.page = l.page, m.got = l.got,
           m.full = l.full, m.keep = l.keep \cap Present(e), m.seen = l.seen \cup Present(e)
    PROVE  /\ Paged(c, m, e)
           /\ UpToCursor(c, l) => UpToCursor(c, m)
           /\ l.keep \subseteq l.got => m.keep \subseteq m.got
<1>1. Paged(c, m, e)
  BY DEF Paged
<1>2. UpToCursor(c, l) => UpToCursor(c, m)
  BY DEF UpToCursor
<1> QED  BY <1>1, <1>2

\* A step of c that lists nothing.
LEMMA OtherStepPages ==
    ASSUME PagingInv, pc \in [Clients -> Stages], NEW c \in Clients, NEW p \in Stages,
           pc[c] # "list", p # "list", pc' = [pc EXCEPT ![c] = p],
           Witness \/ (listing' = listing /\ db' = db)
    PROVE  PagingInv'
<1>1. \A e \in Clients : pc'[e] = "list" <=> pc[e] = "list"
  OBVIOUS
<1>2. listing \in [Clients -> Listing]
  BY DEF PagingInv
<1>3. CASE listing' = listing /\ db' = db
  BY <1>1, <1>3 DEF PagingInv
<1>4. CASE Witness
  <2>1. ASSUME NEW e \in Clients
        PROVE  /\ listing'[e] \in Listing /\ Paged(e, listing'[e], db')
               /\ IF pc'[e] = "list" THEN UpToCursor(e, listing'[e])
                  ELSE listing'[e].keep \subseteq listing'[e].got
    <3> DEFINE l == listing[e]
               m == listing'[e]
               d == db'
               P == Present(d)
    <3>1. m = [l EXCEPT !.keep = @ \cap Present(d), !.seen = @ \cup Present(d)]
      BY <1>4 DEF Witness
    <3>2. /\ l \in Listing /\ Paged(e, l, db)
          /\ IF pc[e] = "list" THEN UpToCursor(e, l) ELSE l.keep \subseteq l.got
      BY <1>2 DEF PagingInv
    <3>a. P \in SUBSET Keys /\ m = [l EXCEPT !.keep = @ \cap P, !.seen = @ \cup P]
      BY <3>1 DEF Present
    <3>b. P = Present(d)
      OBVIOUS
    <3> HIDE DEF l, m, d, P
    <3>c. m \in Listing
      BY <3>2, <3>a DEF Listing
    <3>d. /\ m.ask = l.ask /\ m.cursor = l.cursor /\ m.page = l.page /\ m.got = l.got
          /\ m.full = l.full /\ m.keep = l.keep \cap P /\ m.seen = l.seen \cup P
      BY <3>2, <3>a DEF Listing
    <3>3. /\ m \in Listing /\ Paged(e, m, d)
          /\ UpToCursor(e, l) => UpToCursor(e, m)
          /\ l.keep \subseteq l.got => m.keep \subseteq m.got
      BY <3>2, <3>b, <3>c, <3>d, PagedStays
    <3>4. IF pc'[e] = "list" THEN UpToCursor(e, m) ELSE m.keep \subseteq m.got
      BY <1>1, <3>2, <3>3
    <3> QED  BY <3>3, <3>4 DEF m, d
  <2>2. listing' \in [Clients -> Listing]
    <3>1. listing' = [e \in Clients |-> listing'[e]]
      BY <1>4 DEF Witness
    <3> QED  BY <2>1, <3>1
  <2> QED  BY <2>1, <2>2 DEF PagingInv
<1> QED  BY <1>3, <1>4

\* A step of c in its listing.
LEMMA OwnStepPages ==
    ASSUME PagingInv, pc \in [Clients -> Stages], NEW c \in Clients, NEW p \in Stages,
           pc' = [pc EXCEPT ![c] = p], NEW m \in Listing,
           listing' = [listing EXCEPT ![c] = m], db' = db,
           Paged(c, m, db),
           IF p = "list" THEN UpToCursor(c, m) ELSE m.keep \subseteq m.got
    PROVE  PagingInv'
<1>1. listing \in [Clients -> Listing]
  BY DEF PagingInv
<1>2. /\ listing' \in [Clients -> Listing] /\ listing'[c] = m /\ pc'[c] = p
      /\ \A e \in Clients \ {c} : listing'[e] = listing[e] /\ pc'[e] = pc[e]
  BY <1>1
<1>3. ASSUME NEW e \in Clients
      PROVE  /\ Paged(e, listing'[e], db')
             /\ IF pc'[e] = "list" THEN UpToCursor(e, listing'[e])
                ELSE listing'[e].keep \subseteq listing'[e].got
  <2>1. CASE e = c
    BY <1>2, <2>1
  <2>2. CASE e # c
    BY <1>2, <2>2 DEF PagingInv
  <2> QED  BY <2>1, <2>2
<1> QED  BY <1>2, <1>3 DEF PagingInv

LEMMA PrefixesAreKeys == ASSUME NEW c \in Clients, NEW ask \in Prefixes(c) PROVE ask \in SUBSET Keys
<1>1. Namespaces[c] \in Seq(SUBSET Keys)
  BY KeyRulesAssumption
<1>2. \A i \in DOMAIN Namespaces[c] : Namespaces[c][i] \in SUBSET Keys
  BY <1>1
<1>3. AllOf(c) \in SUBSET Keys
  BY <1>2 DEF AllOf
<1> QED  BY <1>2, <1>3 DEF Prefixes

LEMMA StartListPages ==
    ASSUME PagingInv, pc \in [Clients -> Stages], NEW c \in Clients, NEW ask \in Prefixes(c),
           StartList(c, ask)
    PROVE  PagingInv'
<1> DEFINE m == [NoListing EXCEPT !.ask = ask, !.keep = Present(db) \cap ask, !.seen = Present(db)]
<1>1. ask \in SUBSET Keys /\ Present(db) \in SUBSET Keys
  BY PrefixesAreKeys DEF Present
<1>2. m = [ask |-> ask, cursor |-> NoKey, page |-> {}, got |-> {},
           keep |-> Present(db) \cap ask, seen |-> Present(db), full |-> FALSE]
  <2> DEFINE P == Present(db)
             K == P \cap ask
  <2>1. m = [NoListing EXCEPT !.ask = ask, !.keep = K, !.seen = P]
    OBVIOUS
  <2> HIDE DEF P, K, m
  <2>2. m = [ask |-> ask, cursor |-> NoKey, page |-> {}, got |-> {},
             keep |-> K, seen |-> P, full |-> FALSE]
    BY <2>1 DEF NoListing
  <2> QED  BY <2>2 DEF P, K
<1>3. m \in Listing
  <2> DEFINE P == Present(db)
             K == P \cap ask
  <2>1. P \in SUBSET Keys /\ K \in SUBSET Keys
    BY <1>1
  <2>2. m = [ask |-> ask, cursor |-> NoKey, page |-> {}, got |-> {},
             keep |-> K, seen |-> P, full |-> FALSE]
    BY <1>2
  <2> HIDE DEF P, K, m
  <2> QED  BY <1>1, <2>1, <2>2 DEF Listing
<1>4. Paged(c, m, db)
  BY <1>2 DEF Paged
<1>5. UpToCursor(c, m)
  <2>1. \A k \in m.keep : ~(k <= m.cursor) /\ ~m.full
    <3> SUFFICES ASSUME NEW k \in m.keep PROVE ~(k <= m.cursor) /\ ~m.full
      OBVIOUS
    <3>1. k \in Keys /\ m.cursor = NoKey /\ ~m.full
      BY <1>1, <1>2
    <3>2. k \in Nat /\ k # 0 /\ m.cursor = 0
      <4> HIDE DEF m
      <4> QED  BY <3>1, KeyRulesAssumption DEF NoKey
    <3> HIDE DEF m
    <3> QED  BY <3>1, <3>2
  <2>2. m.page = {} /\ Cardinality(m.page) = 0
    BY <1>2, FS_EmptySet
  <2> HIDE DEF m
  <2> QED  BY <2>1, <2>2, KeysAreNumbers DEF UpToCursor
<1>6. /\ pc' = [pc EXCEPT ![c] = "list"] /\ listing' = [listing EXCEPT ![c] = m] /\ db' = db
      /\ "list" \in Stages
  BY DEF StartList, storeVars, Stages
<1> HIDE DEF m
<1> QED  BY ONLY PagingInv, pc \in [Clients -> Stages], <1>3, <1>4, <1>5, <1>6, OwnStepPages

LEMMA ListStepPages ==
    ASSUME PagingInv, pc \in [Clients -> Stages], NEW c \in Clients, ListStep(c)
    PROVE  PagingInv'
<1> DEFINE l == listing[c]
           d == db
           prefix == IF Filtered(c, l.ask) THEN Keys ELSE l.ask
           batch == ListKeys(d, prefix, PageLimit, l.cursor)
           next == NextCursor(batch, PageLimit)
           page == l.page \cup Fitting(l, batch)
           full == Cardinality(page) >= PageLimit
           cursor == IF full /\ Filtered(c, l.ask) THEN Greatest(page) ELSE next
           m == [l EXCEPT !.page = page, !.full = full \/ next = NoKey, !.cursor = cursor]
<1>1. /\ pc[c] = "list" /\ ~l.full /\ db' = db /\ pc' = pc
      /\ listing' = [listing EXCEPT ![c].page = page, ![c].full = full \/ next = NoKey,
                                    ![c].cursor = cursor]
  BY DEF ListStep, storeVars
<1>2. /\ listing \in [Clients -> Listing] /\ l \in Listing
      /\ Paged(c, l, d) /\ UpToCursor(c, l)
  BY <1>1 DEF PagingInv
<1>3. listing' = [listing EXCEPT ![c] = m]
  BY <1>1, <1>2
<1>4. /\ m.ask = l.ask /\ m.keep = l.keep /\ m.got = l.got /\ m.seen = l.seen
      /\ m.page = page /\ m.cursor = cursor
      /\ m.full <=> (Cardinality(page) >= PageLimit \/ next = NoKey)
  <2>1. l = [ask |-> l.ask, cursor |-> l.cursor, page |-> l.page, got |-> l.got,
             keep |-> l.keep, seen |-> l.seen, full |-> l.full]
    BY <1>2 DEF Listing
  <2> HIDE DEF page, cursor, next
  <2> QED  BY <2>1
<1>5. /\ m.page \in SUBSET Keys /\ m.cursor \in Keys \cup {NoKey}
      /\ Paged(c, m, d) /\ UpToCursor(c, m)
  <2>1. m.cursor = IF Cardinality(page) >= PageLimit /\ Filtered(c, l.ask)
                   THEN Greatest(page) ELSE next
    BY <1>4
  <2>2. /\ prefix = IF Filtered(c, l.ask) THEN Keys ELSE l.ask
        /\ batch = ListKeys(d, prefix, PageLimit, l.cursor)
        /\ next = NextCursor(batch, PageLimit)
        /\ page = l.page \cup Fitting(l, batch)
        /\ ~l.full
    BY <1>1
  <2> HIDE DEF l, d, prefix, batch, next, page, full, cursor, m
  <2> QED  BY ONLY <1>2, <1>4, <2>1, <2>2, ListStepShows
<1>6. m \in Listing
  <2> DEFINE b == full \/ next = NoKey
  <2>1. b \in BOOLEAN /\ m = [l EXCEPT !.page = page, !.full = b, !.cursor = cursor]
        /\ page \in SUBSET Keys /\ cursor \in Keys \cup {NoKey}
    BY <1>4, <1>5
  <2> HIDE DEF b, l, page, cursor, m
  <2> QED  BY <1>2, <2>1 DEF Listing
<1>7. pc' = [pc EXCEPT ![c] = "list"] /\ "list" \in Stages
  BY <1>1 DEF Stages
<1> HIDE DEF m
<1> QED  BY ONLY PagingInv, pc \in [Clients -> Stages], <1>1, <1>3, <1>5, <1>6, <1>7, OwnStepPages
        DEF d

LEMMA ListPagePages ==
    ASSUME PagingInv, pc \in [Clients -> Stages], NEW c \in Clients, ListPage(c)
    PROVE  PagingInv'
<1> DEFINE l == listing[c]
           m == [l EXCEPT !.got = @ \cup l.page, !.page = {}, !.full = FALSE]
           p == IF l.cursor = NoKey THEN "idle" ELSE "list"
<1>1. /\ pc[c] = "list" /\ l.full /\ db' = db
      /\ listing' = [listing EXCEPT ![c].got = @ \cup l.page, ![c].page = {}, ![c].full = FALSE]
      /\ pc' = IF l.cursor = NoKey THEN [pc EXCEPT ![c] = "idle"] ELSE pc
  BY DEF ListPage, storeVars
<1>2. /\ listing \in [Clients -> Listing] /\ l \in Listing
      /\ Paged(c, l, db) /\ UpToCursor(c, l)
  BY <1>1 DEF PagingInv
<1>3. listing' = [listing EXCEPT ![c] = m]
  BY <1>1, <1>2
<1>4. pc' = [pc EXCEPT ![c] = p] /\ p \in Stages
  BY <1>1 DEF Stages
<1>5. m = [ask |-> l.ask, cursor |-> l.cursor, page |-> {}, got |-> l.got \cup l.page,
           keep |-> l.keep, seen |-> l.seen, full |-> FALSE]
  <2>1. l = [ask |-> l.ask, cursor |-> l.cursor, page |-> l.page, got |-> l.got,
             keep |-> l.keep, seen |-> l.seen, full |-> l.full]
    BY <1>2 DEF Listing
  <2> DEFINE G == l.got \cup l.page
  <2>2. m = [l EXCEPT !.got = G, !.page = {}, !.full = FALSE]
    OBVIOUS
  <2> HIDE DEF l, m, G
  <2>3. m = [ask |-> l.ask, cursor |-> l.cursor, page |-> {}, got |-> G,
             keep |-> l.keep, seen |-> l.seen, full |-> FALSE]
    BY <2>1, <2>2
  <2> QED  BY <2>3 DEF G
<1>6. m \in Listing
  <2>1. /\ l.ask \in SUBSET Keys /\ l.cursor \in Keys \cup {NoKey} /\ l.got \cup l.page \in SUBSET Keys
        /\ l.keep \in SUBSET Keys /\ l.seen \in SUBSET Keys
    BY <1>2 DEF Listing
  <2> HIDE DEF m, l
  <2> QED  BY <1>5, <2>1 DEF Listing
<1>7. Paged(c, m, db)
  BY <1>2, <1>5 DEF Paged
<1>8. l.cursor = NoKey => m.keep \subseteq m.got
  BY <1>1, <1>2, <1>5 DEF UpToCursor
<1>9. l.cursor # NoKey => UpToCursor(c, m)
  <2> SUFFICES ASSUME l.cursor # NoKey PROVE UpToCursor(c, m)
    OBVIOUS
  <2>1. \A k \in m.keep : k <= m.cursor \/ (m.full /\ m.cursor = NoKey) => k \in m.got \cup m.page
    BY <1>2, <1>5 DEF UpToCursor
  <2>2. m.page = {} /\ Cardinality(m.page) = 0
    BY <1>5, FS_EmptySet
  <2> HIDE DEF m
  <2> QED  BY <2>1, <2>2, KeysAreNumbers DEF UpToCursor
<1>10. IF p = "list" THEN UpToCursor(c, m) ELSE m.keep \subseteq m.got
  BY <1>8, <1>9
<1> HIDE DEF m, p
<1> QED  BY ONLY PagingInv, pc \in [Clients -> Stages], <1>1, <1>3, <1>4, <1>6, <1>7, <1>10, OwnStepPages

LEMMA PagingStep == CreateInv /\ PagingInv /\ [Next]_vars => PagingInv'
<1> SUFFICES ASSUME CreateInv, PagingInv, [Next]_vars PROVE PagingInv'
  OBVIOUS
<1>0. /\ pc \in [Clients -> Stages]
      /\ \A c \in Clients : owner = c => pc[c] = "write"
  BY DEF CreateInv, ApiTypes, Owned
<1>1. CASE UNCHANGED vars
  BY <1>1 DEF vars, apiVars, storeVars, PagingInv
<1>2. CASE Next
  <2> PICK c \in Clients :
          \/ Step(c)
          \/ \E list \in Lists : StartCreate(c, list)
          \/ \E ask \in Prefixes(c) : StartList(c, ask)
          \/ \E k \in Keys : DeleteLink(c, k) \/ \E t \in Targets : UpdateLink(c, k, t)
    BY <1>2 DEF Next
  <2>0. pc = [pc EXCEPT ![c] = pc[c]] /\ pc[c] \in Stages
    BY <1>0
  <2>1. CASE ListStep(c)
    BY <1>0, <2>1, ListStepPages
  <2>2. CASE ListPage(c)
    BY <1>0, <2>2, ListPagePages
  <2>3. CASE \E ask \in Prefixes(c) : StartList(c, ask)
    BY <1>0, <2>3, StartListPages
  <2>4. ASSUME ~ListStep(c), ~ListPage(c), ~(\E ask \in Prefixes(c) : StartList(c, ask))
        PROVE  /\ pc[c] # "list"
               /\ \E p \in Stages : p # "list" /\ pc' = [pc EXCEPT ![c] = p]
               /\ Witness \/ (listing' = listing /\ db' = db)
    <3> USE DEF Stages
    <3>1. CASE Prepare(c)
      BY <2>0, <3>1 DEF Prepare, storeVars
    <3>2. CASE GetFound(c)
      BY <2>0, <3>2 DEF GetFound, storeVars
    <3>3. CASE Store(c)
      BY <2>0, <3>3 DEF Store, storeVars, Begin
    <3>4. CASE WriteItem(c)
      BY <1>0, <2>0, <3>4 DEF WriteItem, CreateItem, apiVars
    <3>5. CASE Reply(c)
      BY <1>0, <3>5 DEF Reply
    <3>6. CASE ReplyError(c)
      BY <1>0, <3>6 DEF ReplyError, Rollback
    <3>7. CASE \E list \in Lists : StartCreate(c, list)
      BY <3>7 DEF StartCreate, Accept, storeVars
    <3>8. CASE \E k \in Keys : DeleteLink(c, k) \/ \E t \in Targets : UpdateLink(c, k, t)
      BY <2>0, <3>8 DEF DeleteLink, UpdateLink, Accept
    <3> QED  BY <2>4, <3>1, <3>2, <3>3, <3>4, <3>5, <3>6, <3>7, <3>8 DEF Step
  <2> QED  BY <1>0, <2>1, <2>2, <2>3, <2>4, OtherStepPages
<1> QED  BY <1>1, <1>2

LEMMA PagingInit == Init => PagingInv
<1> SUFFICES ASSUME Init PROVE PagingInv
  OBVIOUS
<1>1. NoListing \in Listing
  BY DEF NoListing, Listing
<1>2. \A c, d : Paged(c, NoListing, d) /\ NoListing.keep \subseteq NoListing.got
  BY DEF NoListing, Paged
<1>3. \A c \in Clients : listing[c] = NoListing /\ pc[c] = "idle"
  BY DEF Init
<1>4. listing \in [Clients -> Listing]
  BY <1>1 DEF Init
<1> QED  BY <1>2, <1>3, <1>4 DEF PagingInv

\* A client that pages to the end is shown every key that was there all along
\* and none that never was or is not its own (api.go:382-462,
\* store_bbolt.go:283-328).
THEOREM PagesAreComplete == Spec => []PagingComplete
<1>1. PagingInv => PagingComplete
  BY DEF PagingInv, Paged, PagingComplete
<1> QED  BY <1>1, PagingInit, PagingStep, CreateInvHolds, PTL DEF Spec
=============================================================================
