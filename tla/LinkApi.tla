------------------------------- MODULE LinkApi -------------------------------
(***************************************************************************)
(* The link endpoints of urlshort's REST API over its store: several       *)
(* clients whose requests interleave at every store transaction.           *)
(*                                                                         *)
(* A create request (POST /links, and POST /links/batch for a list) is     *)
(* prepared item by item with View transactions and then hands what is     *)
(* left to one write transaction. PUT and DELETE are one transaction.      *)
(* GET pages through a namespace, one View transaction after another,      *)
(* and the client asks for the next page with the returned cursor.         *)
(***************************************************************************)
EXTENDS LinkStore

CONSTANTS
    NoClient,    \* nobody holds the write transaction
    PageLimit,   \* the limit of a list request
    Seeds,       \* the databases the server may start with
    Lists,       \* the item lists of the create requests
    MaxRequests, \* bound of the model: requests per client
    MaxChurn     \* bound of the model: PUT and DELETE requests in all

Item == [target : Targets, key : ValidKeys \cup {NoKey}]

ASSUME LinkApiAssumption ==
    /\ \A d \in Seeds : d \in Buckets /\ Mirrored(d)
    /\ \A list \in Lists : list \in Seq(Item) /\ Len(list) \in 1..MaxBatch
    /\ NoClient \notin Clients
    /\ IsFiniteSet(Keys)
    /\ PageLimit \in Nat \ {0}
    /\ MaxRequests \in Nat /\ MaxChurn \in Nat

VARIABLES
    pc,          \* where each client's request stands
    items,       \* the items of its create request
    prepared,    \* the outcome of each item prepared so far
    found,       \* the key that Resolve returned for the next item
    owner,       \* whose request holds the write transaction
    listing,     \* the progress of its paging
    left,        \* requests it may still send
    churn        \* PUT and DELETE requests so far

apiVars == <<pc, items, prepared, found, owner, listing, left, churn>>
vars == <<storeVars, apiVars>>

ApiErrors == {"none", "conflict", "forbidden", "internal", "bad_request", "pending"}

\* An item's outcome that needs no write; "pending" waits for the transaction.
Done(e, k, t) == [err |-> e, key |-> k, target |-> t, created |-> FALSE]

Pending == Done("pending", NoKey, NoTarget)

\* prepareCreate after the lookups: an API error or a request for the store.
Plan(c, item) ==
    IF item.key # NoKey
    THEN IF CanAccess(c, item.key) THEN Pending ELSE Done("forbidden", NoKey, NoTarget)
    ELSE IF ~MatchesRule(item.target)
    THEN IF RandomPool[c] # {} THEN Pending ELSE Done("bad_request", NoKey, NoTarget)
    ELSE IF CanAccess(c, FullKey(item.target)) THEN Pending
    ELSE Done("forbidden", NoKey, NoTarget)

\* The items of a request that are left for the write transaction.
PendingIn(outs) == {i \in DOMAIN outs : outs[i].err = "pending"}

Asked(c, i) == [target |-> items[c][i].target, key |-> items[c][i].key, client |-> c]

\* The store requests of the pending items, in request order.
Requests(c) ==
    LET pend == Ascending(PendingIn(prepared[c]))
    IN  [j \in DOMAIN pend |-> Asked(c, pend[j])]

\* The responses once the write transaction has answered the pending items.
FillIn(outs, results) ==
    [i \in DOMAIN outs |->
        IF i \in PendingIn(outs) THEN results[Rank(i, PendingIn(outs))] ELSE outs[i]]

-----------------------------------------------------------------------------
NoListing == [ask |-> {}, cursor |-> NoKey, page |-> {}, got |-> {},
              keep |-> {}, seen |-> {}, full |-> FALSE]

Init ==
    /\ db \in Seeds
    /\ tx = NoTx
    /\ pc = [c \in Clients |-> "idle"]
    /\ items = [c \in Clients |-> <<>>]
    /\ prepared = [c \in Clients |-> <<>>]
    /\ found = [c \in Clients |-> NoKey]
    /\ owner = NoClient
    /\ listing = [c \in Clients |-> NoListing]
    /\ left = [c \in Clients |-> MaxRequests]
    /\ churn = 0

Accept(c) ==
    /\ pc[c] = "idle"
    /\ left[c] > 0
    /\ left' = [left EXCEPT ![c] = @ - 1]

Present(d) == {k \in Keys : d.links[k] # NoTarget}

\* What every paging client could have seen, kept up to date by each commit:
\* the keys there all along and the keys there at some time.
Witness ==
    listing' = [c \in Clients |->
                  [listing[c] EXCEPT !.keep = @ \cap Present(db'),
                                     !.seen = @ \cup Present(db')]]

-----------------------------------------------------------------------------
(* createLink and handleLinksBatch.                                        *)

StartCreate(c, list) ==
    /\ Accept(c)
    /\ pc' = [pc EXCEPT ![c] = "prepare"]
    /\ items' = [items EXCEPT ![c] = list]
    /\ prepared' = [prepared EXCEPT ![c] = <<>>]
    /\ UNCHANGED <<storeVars, found, owner, listing, churn>>

Prepared(c, out) == prepared' = [prepared EXCEPT ![c] = Append(@, out)]

NextItem(c) == items[c][Len(prepared[c]) + 1]

\* prepareCreate up to its first View transaction, which looks the target up;
\* an explicit key skips the lookup.
Prepare(c) ==
    /\ pc[c] = "prepare"
    /\ Len(prepared[c]) < Len(items[c])
    /\ LET item == NextItem(c)
           k == Resolve(db, item.target)
       IN  IF item.key = NoKey /\ k # NoKey
           THEN /\ pc' = [pc EXCEPT ![c] = "get"]
                /\ found' = [found EXCEPT ![c] = k]
                /\ UNCHANGED prepared
           ELSE /\ Prepared(c, Plan(c, item))
                /\ UNCHANGED <<pc, found>>
    /\ UNCHANGED <<storeVars, items, owner, listing, left, churn>>

\* The second View transaction: the link under the key that Resolve found. The
\* link may be gone by now, and the item is planned as if it had not been found.
GetFound(c) ==
    /\ pc[c] = "get"
    /\ LET t == Get(db, found[c])
       IN  Prepared(c, IF t # NoTarget THEN Done("none", found[c], t)
                       ELSE Plan(c, NextItem(c)))
    /\ pc' = [pc EXCEPT ![c] = "prepare"]
    /\ found' = [found EXCEPT ![c] = NoKey]
    /\ UNCHANGED <<storeVars, items, owner, listing, left, churn>>

\* Every item is prepared: the pending ones go to one write transaction, and
\* without any the response is sent at once.
Store(c) ==
    /\ pc[c] = "prepare"
    /\ Len(prepared[c]) = Len(items[c])
    /\ IF Requests(c) = <<>>
       THEN /\ pc' = [pc EXCEPT ![c] = "idle"]
            /\ UNCHANGED <<storeVars, owner>>
       ELSE /\ Begin(Requests(c))
            /\ owner' = c
            /\ pc' = [pc EXCEPT ![c] = "write"]
    /\ UNCHANGED <<items, prepared, found, listing, left, churn>>

WriteItem(c) ==
    /\ owner = c
    /\ CreateItem
    /\ UNCHANGED apiVars

\* The transaction commits and the response carries its results.
Reply(c) ==
    /\ owner = c
    /\ Commit
    /\ owner' = NoClient
    /\ pc' = [pc EXCEPT ![c] = "idle"]
    /\ prepared' = [prepared EXCEPT ![c] = FillIn(@, tx.done)]
    /\ Witness
    /\ UNCHANGED <<items, found, left, churn>>

\* The transaction fails and the whole request is answered with an error.
ReplyError(c) ==
    /\ owner = c
    /\ Rollback
    /\ owner' = NoClient
    /\ pc' = [pc EXCEPT ![c] = "idle"]
    /\ prepared' = [prepared EXCEPT ![c] = <<>>]
    /\ UNCHANGED <<items, found, listing, left, churn>>

-----------------------------------------------------------------------------
(* updateLink and deleteLink: one transaction after the namespace check.   *)

ChurnBound == churn < MaxChurn /\ churn' = churn + 1

UpdateLink(c, k, t) ==
    /\ Accept(c)
    /\ CanAccess(c, k)
    /\ Update(k, t)
    /\ ChurnBound
    /\ Witness
    /\ UNCHANGED <<pc, items, prepared, found, owner>>

DeleteLink(c, k) ==
    /\ Accept(c)
    /\ CanAccess(c, k)
    /\ Delete(k)
    /\ ChurnBound
    /\ Witness
    /\ UNCHANGED <<pc, items, prepared, found, owner>>

-----------------------------------------------------------------------------
(* listLinks. A namespace parameter, an admin or a client of one namespace *)
(* lists by prefix; a client of several namespaces filters the full list.  *)

AllOf(c) ==
    IF c \in Admins THEN Keys
    ELSE UNION {Namespaces[c][i] : i \in DOMAIN Namespaces[c]}

\* The prefixes a client may ask for, each the set of keys under it.
Prefixes(c) == {Namespaces[c][i] : i \in DOMAIN Namespaces[c]} \cup {AllOf(c)}

\* Whether a request for these keys takes the filtering path.
Filtered(c, ask) == c \notin Admins /\ Len(Namespaces[c]) # 1 /\ ask = AllOf(c)

StartList(c, ask) ==
    /\ Accept(c)
    /\ pc' = [pc EXCEPT ![c] = "list"]
    /\ listing' = [listing EXCEPT ![c] =
                     [NoListing EXCEPT !.ask = ask,
                                       !.keep = Present(db) \cap ask,
                                       !.seen = Present(db)]]
    /\ UNCHANGED <<storeVars, items, prepared, found, owner, churn>>

\* The accessible keys of a batch that fit into the page, in order.
Fitting(l, batch) == FirstOf(PageLimit - Cardinality(l.page), batch \cap l.ask)

\* One List call of the store. On the filtering path it is repeated within
\* the request until the page is full or the keys are exhausted; the cursor is
\* the last key that filled the page, or the last one looked at.
ListStep(c) ==
    /\ pc[c] = "list"
    /\ ~listing[c].full
    /\ LET l == listing[c]
           prefix == IF Filtered(c, l.ask) THEN Keys ELSE l.ask
           batch == ListKeys(db, prefix, PageLimit, l.cursor)
           next == NextCursor(batch, PageLimit)
           page == l.page \cup Fitting(l, batch)
           full == Cardinality(page) >= PageLimit
       IN  /\ listing' = [listing EXCEPT ![c].page = page,
                                         ![c].full = full \/ next = NoKey,
                                         ![c].cursor = IF full /\ Filtered(c, l.ask)
                                                      THEN Greatest(page) ELSE next]
    /\ UNCHANGED <<storeVars, pc, items, prepared, found, owner, left, churn>>

\* The page is returned; the client goes on with next_cursor until it is empty.
ListPage(c) ==
    /\ pc[c] = "list"
    /\ listing[c].full
    /\ listing' = [listing EXCEPT ![c].got = @ \cup listing[c].page,
                                  ![c].page = {}, ![c].full = FALSE]
    /\ pc' = IF listing[c].cursor = NoKey THEN [pc EXCEPT ![c] = "idle"] ELSE pc
    /\ UNCHANGED <<storeVars, items, prepared, found, owner, left, churn>>

-----------------------------------------------------------------------------
Step(c) ==
    \/ Prepare(c)
    \/ GetFound(c)
    \/ Store(c)
    \/ WriteItem(c)
    \/ Reply(c)
    \/ ReplyError(c)
    \/ ListStep(c)
    \/ ListPage(c)

Next ==
    \E c \in Clients :
        \/ Step(c)
        \/ \E list \in Lists : StartCreate(c, list)
        \/ \E ask \in Prefixes(c) : StartList(c, ask)
        \/ \E k \in Keys : DeleteLink(c, k) \/ \E t \in Targets : UpdateLink(c, k, t)

\* A handler's goroutine keeps running. The writer lock is a Go mutex, which
\* hands itself to a waiter that it has passed over: Store(c) is not starved.
Fairness == \A c \in Clients : WF_vars(Step(c)) /\ SF_vars(Store(c))

Spec == Init /\ [][Next]_vars /\ Fairness
-----------------------------------------------------------------------------
\* The values the API's variables take; the write transaction is open exactly
\* while some client's request owns it.
ApiTypeOK ==
    /\ StoreTypeOK
    /\ pc \in [Clients -> {"idle", "prepare", "get", "write", "list"}]
    /\ \A c \in Clients :
        /\ items[c] \in Seq(Item)
        /\ Len(prepared[c]) <= Len(items[c])
        /\ \A i \in DOMAIN prepared[c] : prepared[c][i].err \in ApiErrors
        /\ pc[c] = "get" <=> found[c] # NoKey
        /\ pc[c] = "write" <=> owner = c
        /\ listing[c].cursor \in Keys \cup {NoKey}
    /\ owner \in Clients \cup {NoClient}
    /\ tx.open <=> owner # NoClient

Answered(c) == IF pc[c] = "idle" THEN DOMAIN prepared[c] ELSE {}

\* Nobody has retargeted or deleted a link: then every key that any client was
\* given for a target is still the key of that target, so two clients racing
\* to shorten the same URL get the same short link (C8, C9 of the design).
PublishedKeysAgree ==
    churn = 0 =>
        \A c \in Clients : \A i \in Answered(c) :
            prepared[c][i].err = "none" =>
                /\ db.links[prepared[c][i].key] = items[c][i].target
                /\ db.targets[items[c][i].target] = prepared[c][i].key

\* A successful item with an explicit key is answered with that key and its
\* own target: results are in request order, however many items of the
\* request were settled before the transaction.
ExplicitKeyHonoured ==
    \A c \in Clients : \A i \in Answered(c) :
        /\ prepared[c][i].err # "pending"
        /\ items[c][i].key # NoKey /\ prepared[c][i].err = "none" =>
               /\ prepared[c][i].key = items[c][i].key
               /\ prepared[c][i].target = items[c][i].target

\* A create request writes only keys that its client may write, also when the
\* hash is extended or another rule key is taken inside the transaction.
CreatesInNamespace ==
    \A k \in Keys :
        tx.open /\ tx.db.links[k] # db.links[k] => CanAccess(owner, k)

\* Both: a create request gets the keys it asks for, and only such as it may.
CreatesAsAsked == ExplicitKeyHonoured /\ CreatesInNamespace

\* A client that pages through a namespace to the end has been shown every key
\* that was there all along and no key that never was or is not its own,
\* whatever was created and deleted between the pages.
PagingComplete ==
    \A c \in Clients :
        pc[c] # "list" /\ listing[c].ask # {} =>
            /\ listing[c].keep \subseteq listing[c].got
            /\ listing[c].got \subseteq listing[c].seen \cap listing[c].ask

\* Every create, batch and list gets its response: none waits for ever for the
\* writer, although transactions of items fail (CreateBatch gives the lock back; a
\* PUT or DELETE is one step here, so its wait is not seen).
RequestsAnswered == \A c \in Clients : pc[c] # "idle" ~> pc[c] = "idle"

\* The answer to a create request is a link to the requested target.
AnswerHasTarget ==
    \A c \in Clients : \A i \in Answered(c) :
        prepared[c][i].err = "none" => prepared[c][i].target = items[c][i].target
=============================================================================
