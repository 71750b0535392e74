# dflybot in TLA+

This directory is the formal model of the DragonFly BSD bot suite: the IRC bot
**dflybot**, the URL shortener **urlshort**, and the monitors that feed the bot.
It holds TLA+ modules translated from the Go source, TLC configurations that check
them on small instances, and proofs that hold for every value of the constants.
`PROJECT.json` is the machine-readable index: which lines each definition stands
for, what each run checks, which mutation of the code each property detects, the
hazards and the findings. Paths below are relative to `src/`.

Contents: 1 the system, 2 modules and their correspondence to the code, 3 the
runs, 4 what is proved, 5 findings, 6 what is not modelled, 7 the plan.

## 1. The system

```
 git-monitor   ─┐  POST /notify (retries)                    ┌─> IRC
 github-monitor ─┼────────────────────────> webhook ─> bus ──┤
 redmine-…, …   ─┘                           ^               └─> Telegram
                    IRC channel messages ────┘
 IRC handlers ──> membership mirror, seen database, channel logs
 monitors, users ──> urlshort API ──> link store (bbolt)
```

Each monitor is a process of its own with one goroutine per repository, project or
site; dflybot and urlshort are servers. They share no memory and talk by HTTP only.

| component | state | operations | hard behaviour | what makes it correct |
|---|---|---|---|---|
| link store `urlshort/store_bbolt.go` | buckets `links`, `targets` | Create, CreateBatch, Update, Delete, Get, Resolve, List | batches in one transaction with items that fail; retarget and delete between creates | the buckets stay inverse; a report is true; a failed item leaves nothing |
| key rules `urlshort/rules.go`, `auth.go` | – | generate a key, namespace check | hash prefixes that collide or leave the namespace | keys are free and allowed |
| link API `urlshort/api.go` | per request: prepared items, page | create, batch, update, delete, list | look up, then write, in several transactions, between other clients | racing clients agree; results match items; paging complete |
| message bus `bus.go` | input channel, subscribers, their channels | Produce, Subscribe, dispatch, Close | three goroutines and two locks; closing under the dispatcher | order kept, a stuck subscriber delays nobody |
| pipeline `webhook.go`, `monitor/webhook.go`, `main.go`, `telegram.go` | requests under way, stop order | Post with retries, handleNotify, stop | lost and late responses; shutdown in the middle | acknowledged means delivered to the bus, in order |
| git-monitor | `LastSeen`, `SeenTags`, mirror, state file | seed, poll, announce, save | any git command fails; crash; rewritten history | every commit once, ancestors first as far as the dates tell, none lost |
| github-monitor | watermark (second, ids, ETag), state file | page, seed, announce, save | a list that grows while it is paged; several events per second | every event once, in order, none lost |
| redmine-monitor | watermark, status per issue, state file | seed, poll, classify, announce | the same, plus a remembered status | action named by the right earlier status |
| jenkins-monitor | last build, state per job, nodes, stuck queue item, state file | poll, collapse, announce, save | a build whose request fails in the middle of a series | one message per failed build |
| web-monitor | up/down, counters, certificate notice | probe, update, save | flapping; first probes | a change after a threshold of consecutive results |
| IRC bot `irc.go` | members per channel, replay cache | one handler per IRC line, reconnect | lost connections, NAMES in chunks, kicks, nick changes | the mirror is the server's membership |
| seen database `seen.go` | records per channel and nick, dirty set, files | set, Quit, Rename, flush, Stop, load | snapshot under a lock, write outside it; failed writes; kill | clean means saved; stop saves all |
| channel logs `log.go` | one buffered file per channel | Record, rotate, flush, Stop | a line stamped before midnight and recorded after it; failing writes; stop | each day's file has what was recorded and no failure cost |
| `!opme` over the TTL cache, `irc.go`, `ttlcache/` | credentials with expiry | the command; Add, Get, clean | expiry and cleaning against the leeway; the clock read three times; restarts | a credential is granted once, but for one more use at the very end of the leeway |
| maintenance `urlshort/maintenance.go` | backup files, status, timer | run, verify, publish, retain, record, Stop | steps fail, also the listing for the status; stop or kill in the middle; runs across the hour | what looks like a backup is one; the status names one that exists |
| daily logs `urlshort/logfile.go` | channel of records, open file | Write, rotate, retain, Close | callers racing Close; rotation; drain; failing writes | what was accepted and no failure cost is written, once and in order |
| rate limiter `urlshort/server.go` | tracked keys in the order of use, token buckets | Allow | eviction at the limit; the token is taken outside the lock | a busy key is not forgotten for idle ones |
| urlshort server `urlshort/server.go`, … | settings, pages | serve, redirect, status | – | – |

The hazards of this code, each at its line, are the `hazards` of `PROJECT.json`; the
properties were chosen from that list.

## 2. The modules

Every module states its bounds in its CONSTANTS. Several have a variable `scenario` (or
`load`), chosen once in `Init` from a CONSTANT set: a behaviour has one of these
scenarios, which keeps each combination small. A scenario says what *may* happen, never
what must. History variables (`posted`, `again`, `lost`, `base`, `mishaps`, `entered`,
`last`, `acked`, `observed`, `churn`, `seeded`, `failed`, and those marked "history" in
WebMonitor, JenkinsMonitor and RedmineMonitor) record what happened for the properties. No
action depends on `mishaps`; a property that says "unless a crash" reads it. Operators
with the comment "Mutation of X" are deliberately wrong variants of X; no specification
uses them, and `PROJECT.json` lists the property that tells each apart.

### urlshort

* **KeyRules**: rules and keys as constants. Keys are numbers in byte order (what the
  cursor of a listing needs). `RuleKeys[t]` is the sequence of prefixes of the target's
  hash, shortest first, or the single key of another rule; `RandomPool[c]` the random
  keys of a client. `GenKeys` is the generator with its `isFree` callback; `CanAccess`
  the namespace check.
* **LinkStore**: `db` are the committed buckets, `tx` the open write transaction with
  the requests still to do and the results so far. `Begin`, `CreateItem`, `Commit`,
  `Rollback` are one `CreateBatch` (a Create is a batch of one); `Update` and `Delete`
  are one transaction each. bbolt itself is external: one writer, a private copy, all
  or nothing. A link is its target: the other fields decide nothing.
* **LinkMap**: the abstract promise, an injective map with Publish, Retarget, Remove.
* **LinkApi**: the handlers over LinkStore. A request goes through `prepare`, `get`,
  `write`; every View and Update transaction is a step of its own, so that requests
  interleave exactly where the code can. `ListStep` is one `List` call, repeated inside
  a request on the filtering path, and `ListPage` returns a page.
* **Maintenance**: `dir` and `parts` are the files of the backup directory, published and
  temporary; `job` is the run under way and the step it is at, so that every step can fail
  (`Fails`), and Stop, the closing of the store under the run (`CloseStore`: Stop waits a
  limited time) and a kill come between any two. `Boot` is Start and the loop up to its
  first timer; `RunStartup` and `RunScheduled` begin a run, `Compact`, `Verify`,
  `Publish`, `Retain` and `Record` go on with it. When `Record` cannot list the directory
  it leaves the name in the status as it was ("unlisted"). What a copy holds is abstracted
  to whether it passes verification. Time is instants, `DayLen` to a day.
* **DailyLog**: `Write` is `StartWrite` (the look at the closed flag) and `Enqueue`; the
  writer's loop is `WriteRecord`, `Tick`, `SeeStop` and `Drained`; Close is `SetClosed`,
  `CloseStop` and `CloseReturns`. Retention is part of `NewDailyLog` and `Tick`, and may
  fail for any file. bufio writes a full buffer out by itself (`Spilled`). Writing out,
  there, at a flush or at a close, may fail after any record (`Reach`), which the code only
  logs; bufio then takes nothing more for that file (`stuck`), so that what it buffered
  and what is offered to it later is lost (`WriteFails`) until another file is opened.
* **RateLimiter**: `Ask` is Allow under its lock (the bucket is found, or made and
  another one evicted), `TakeToken` the token taken after it. The token buckets
  themselves are external: whole tokens, refilled by the second.
* **Urlshort** composes LinkStore, Maintenance, DailyLog and RateLimiter. They share no
  state but the database being closed under a run, which Maintenance has as
  `CloseStore`: a behaviour follows one of them (`followed`), and the others have not
  begun.
* **LinkApiProofs** (link store and link API), **UrlshortProofs** (backups, logs, rate
  limiter): section 4.

### The bot's message path

* **Bus**: `Produce`, `Take`, `Offer` (one iteration of the dispatcher over the map,
  under the read lock), `Subscribe`, `Unmap` (write lock), `CloseChan` (no lock), and
  `Close` as `StartClose`, `Cancel`, `EndClose` (no lock). A write to the map while
  `Close` walks it may abort the process: a Go data race, modelled as a choice.
* **Pipeline**: extends Bus by the client's `Post` (attempts, lost requests and
  responses), one handler per request, messages from IRC, and main's stoppers in their
  order. A request that the client gave up on can still enter the bus.
* **ChannelLog**: `StampLine` takes the time of a line, `Record` appends it under the
  lock, so that lines come late at midnight and the file of the day before is opened
  again. `FlushAll` is the loop's tick, `StopLog`, `LoopEnded` and `CloseAll` are Stop.
  Writes fail as in DailyLog, for each channel by itself (`Spill`, `WriteFails`, `broken`).
* **OpMe**: `CheckOpMe` are the command's checks (an operator's bot, the leeway, a known
  user, the MAC), `LookUpAuth` the cache's Get and `GrantOp` its Add with the mode given:
  three steps, as the handler reads the clock in each (`irc.go:457`, `ttlcache.go:125` and
  `175`) and the clock, the cleaning and a restart come between. goirc runs one handler at
  a time, so one credential at most is on its way. `CleanCache` is the cache's goroutine,
  `ClockTick` the clock in seconds.
* **Dflybot** composes Pipeline, ChannelLog and OpMe in the same manner as Urlshort.
* **DflybotProofs** (the message path, channel logs, `!opme`): section 4.

### The monitors

* **GitMonitor**: `remote`, `mirror`, `st` (memory), `disk` (file). `Boot`/`BootFails` and
  `Seed`/`SeedFails` are Start up to its loop, `Collect(fault)` the fetch and
  `collectAnnouncements` with a fault at any git command, `Send`/`Sent` the posts and the
  save, `Exit` the deferred save. Commits are numbered parents before children, which says
  nothing of their dates. rev-list without `--topo-order` goes by dates: `Orders` has
  every list that some dates give, in which the tip is last and each other commit comes
  before one of its children, and a behaviour of the kind "skewed" has lists in which a
  commit comes before an ancestor (`SkewedList`). A poll chooses one for each branch
  (`order`). `out` has what is still to be posted; `SendTag` and `SendBranch` post one
  message, a `Batch` being as many of a branch's commits, oldest first, as their texts'
  lengths (`Size`, `MaxLen`) allow. When the first alone is too long the code posts a
  message without a text before it (`blank`).
* **GithubMonitor**: `list` at GitHub changes between pages. `FetchPage` reads one
  page; the last one ends in `Seed`, `Announce` or `NothingNew`. `got` keeps the pages
  until their events are posted, and `out` has the places in them that are to be posted,
  from the end: an event that the list shifted onto the next page is there twice. An
  event is of interest or is in `Ignored`; the rest of its classification has no state.
  `Unread` records that the paging stopped before the end of the list with new events
  unread that the watermark will pass. Late events (an older second that appears later)
  do not arrive between two pages of one poll. Events that arrive between two pages shift
  the list ("shift"); they may then be announced twice, and if enough of them arrive also
  out of order, since the page after has events newer than those read before.
* In both, a message is posted or lost: `Post` gives up after its attempts, or the stop
  has cancelled its context, and the code ignores the error and saves what was lost as
  seen. The history `lost` holds these messages, so that the properties say what else may
  not be lost. A behaviour without "unsent" in its scenario has no stop while it sends.
  A save fails or succeeds as a whole (rename). A crash can occur between any two steps.
* **WebMonitor**: one web. `Probe` is the probe with `updateState` and `updateCert`;
  `PostWeb` hands over a message and `WebPolled` saves. `Results` says what a probe can
  find: the HTTP client keeps its connection, so it may show the certificate that the web
  served earlier, no connection is made with one that has expired, and a probe that
  succeeds may have seen none (plain HTTP, or `tls_verify = false`). Time is days, and
  a certificate is its last day.
* **JenkinsMonitor**: one job, one watched node, the job's queue items. A poll is
  `PollJob` (nothing new, a collapse, or the start of a series), `OneBuild` for each build
  of a series, `EndSeries`, `PollNodes`, `PollQueue` and, if all requests succeeded,
  `JobPolled`; each request has its failing variant. Jenkins starts, ends and deletes
  builds between any two requests. FAILURE stands for UNSTABLE too, ABORTED for every
  result that is ignored. Of several items of the job that wait at once the poll takes the
  one that Jenkins lists last, whichever that is (`PollQueue`). The count of consecutive
  failures is used by messages only and is left out.
* **RedmineMonitor**: one project with one issue. `proj` is the state in memory (the
  watermark's second and entry ids, the feed's ETag, the issue's remembered status, the
  streak of blocks), `projDisk` the file. `PollFeed` is `poll` after an answer: nothing
  changed (304), the first run (`SeedFeed`), or `ReadFeed`, which classifies what is new,
  oldest first, filters it and moves the watermark. The loop that remembers the status of
  each new activity before the next one is classified is the closed form `ActionOf`: the
  status remembered before an activity is the last that a title of those before it has.
  `PollBlocked` is `handleAnubis`, `PostAct` one post, `FeedPolled` the save at the end.
  `TitleStatus` is what a title shows: a status change its own, a creation the status the
  issue has *when the feed is read*, a comment none; that is Redmine's doing and external.
  Activities do not arrive late. The ETag changes with every activity.
* In these three a message counts as announced when it was handed to `Post`; what Post
  does with it is in Pipeline.
* **Alerts** composes the three. They are processes that share nothing: a behaviour
  follows one of them (`watched`) while the others have not been started, which loses
  nothing, as no property relates them.
* **Order**: the least and greatest of a set of numbers and the set in ascending order,
  which the monitors need for builds, activities and dates; and the first of a set,
  which a page of links is; and what an increasing sequence is, for the bus and the logs.
  **OrderProofs** has the
  facts about them; **AlertsProofs**: section 4.

### The IRC bot

* **IrcBotProofs** (seen database, mirror): section 4.
* **SeenStore**: the records, the dirty set, one write at a time with its snapshot, the
  flush loop, `Stop` (waits for the loop, then `saveAll`), load. A nick stands for all
  its spellings.
* **IrcBot**: the server's truth `on` beside the bot's `members`. One IRC line with all
  its handlers is one step: goirc runs the handlers of a line in turn and reports the
  disconnect after its reading goroutine has ended. After the bot's JOIN nothing comes
  before the end of the NAMES reply; the reply itself comes in pieces. The bot's own PART
  takes only the bot out of the mirror: the history `parted` holds the channels it was
  made to leave so, whose members stay in the mirror until it connects anew;
  `MirrorExact` says of these just that neither the server nor the mirror has the bot in.

## 3. The runs

| run | module / cfg | what it shows |
|---|---|---|
| urlshort | MCUrlshort | the store: inverse buckets, true reports, no stray write, and that it implements LinkMap; the backups: every one restorable, the status names the newest, no hour of a day missed; the logs: accepted records written once and in order, but for those that failing writes and kills cost; the rate limiter: no new burst for a key that keeps asking |
| link_api | MCLinkApi | two clients: agreement on keys, every create as asked (its explicit key, its namespace), complete paging, every request answered |
| link_api_target | MCLinkApiTarget.cfg | *violation*: section 5 |
| dflybot | MCDflybot | the message path: order per subscriber, acknowledged means delivered and in the order posted, bounded duplicates, panic only after everything is saved, dispatch never blocked; the channel logs: each file has what was recorded, once and in order, but for what failing writes and kills cost; !opme: a credential is granted once, and once more at most when its look-up came after the end of its leeway |
| git | MCGitMonitor | nothing lost, nothing twice, ancestors first as far as the dates agree with the history, seeded once, catches up |
| git_tags | MCGitMonitorTags.cfg | *violation* |
| irc | MCIrcBot | exact mirror, no exit after a join of one present, clean is saved, stop saves all and ends |
| irc_rename | MCIrcBotRename.cfg | *violation* |
| github | MCGithubMonitor | nothing passed by, nothing twice, chronological, one first run, all announced |
| github_pages | MCGithubMonitorPages.cfg | *violation* |
| alerts | MCAlerts | a web is declared down and up by consecutive probes only, also across restarts; certificate warnings, node and queue notices and warnings of blocks once each; no failed build forgotten or announced twice, no recovery without failure; no Redmine activity forgotten or announced twice, each named by the issue's earlier status; each but for the excuses its property names (section 5) |
| reopen | MCAlertsReopen.cfg | *violation* |

Bounds, and why they are enough:

* urlshort, the store: 5 keys in three namespaces and the root, 3 targets (hash rule that
  collides, hash rule that leaves the namespace, no rule), 2 clients, batches of 2. Two
  items are what one item needs to see another one's write; a third target takes a key
  that was freed. No step is bounded: the runs are unbounded sequences of operations.
  The backups: three days of three instants (`MaxInstant` 7), the hour after midnight,
  a run of at most one instant (`MaxRun`), so that it may begin before the hour or
  midnight and end after it; retention of a day and one startup backup, both of which
  remove something; three starts of the process; one kind of fault in a behaviour, as
  often as it likes, where a listing that fails for the status is one. The logs: two
  callers, a channel of 2, four records, three days, retention of a day, two lives, and
  any write may fail at any record. The rate limiter: three keys of which two are tracked,
  two handlers, buckets of 2, seven requests: what a key needs to be evicted, asked for
  again and use up a second burst. They end at their bounds, hence CHECK_DEADLOCK FALSE.
* link_api: 6 keys, 4 targets, 2 databases to begin with (nearly empty and nearly
  full), 3 shapes of request, 2 requests in all (`MaxRequests`), of them at most 2
  retargets or deletes (`MaxChurn`), pages of 2. Two requests are one race; pages of 2 against
  5 links give full, partial and empty last pages. The behaviour ends when the requests
  are used up, hence CHECK_DEADLOCK FALSE.
* dflybot, the message path: channels of capacity 1 (the smallest that can be full), 2
  attempts, loads of two messages, one message beside one from IRC, and one with a
  shutdown. It ends when the load is handled or the process is gone, hence CHECK_DEADLOCK
  FALSE. The channel logs: two channels, two makers, three lines, one midnight; a late
  line of the day before needs two makers, its return to the new file a third line; any
  write may fail. !opme: a leeway of a second and times 1 and 2, so that the clock (0 to
  5) passes both ends of both, and the ends of what is remembered; two users, one of which
  has a key in both channels. A grant is counted up to 3, one more than the property
  allows.
* git: 5 commits with two sides that are merged, one branch, one tag that is annotated or
  not, messages of two texts (the merge's alone is too long), and at most one *kind* of
  mishap in a behaviour, as often as it likes.
* irc: the bot and two nicks in one channel; one nick in two channels; one nick with the
  saving; the bot itself may be made to part. The clock has 2 seconds: earlier and later
  is all the records tell apart.
* github: 5 events in 2 seconds, pages of 2, at most 2 of them, one kind of mishap in a
  behaviour (the page limits of the code are 100 and 10).
* alerts, the web: 3 failures and 2 successes declare a change (`DownRepeats`,
  `UpRepeats`), thresholds of 0 and 1 days, certificates for 2 and 3 days, and 3 days.
  The number of probes is not bounded. Jenkins: 4 builds, series of 2 at most (`MaxNew`,
  20 in the code), so that both series and large gaps occur; 2 queue items, which wait at
  once in a behaviour of their own. A behaviour
  has one kind of mishap, or a failing request of the nodes or the queue beside one of
  the builds; the node and the queue change in behaviours without builds, as the code
  relates them to nothing but the success of the poll. Redmine: a feed of 2 activities
  and 4 activities in all (3 where something goes wrong, 1 where there are blocks), so
  that the feed may not reach back; 2 seconds, so that a second has several; a warning
  after 3 blocks; every action wanted, or all but closing, which must be remembered all
  the same.

Fairness. Every liveness property is stated under what the code's scheduling gives:

* link_api: a handler's goroutine keeps running (weak fairness per client), and a
  writer that waits for bbolt's mutex is not starved (strong fairness of Store): a Go
  mutex hands itself over to a waiter that it has passed over for a millisecond.
* dflybot: the dispatcher and Telegram's goroutine run (requests time out); a blocked
  channel send is served in turn (strong fairness of Handle: Go channels queue their
  senders). Nothing is assumed of IRC, which may take no message for ever.
* git, github: the goroutine proceeds, and of its polls, however many fail, some
  succeed: strong fairness of the successful poll. Without it a host that never answers
  announces nothing, which is no fault of the code.
* irc: the flush loop and Stop proceed. Nothing is assumed of the server.

Maintenance, DailyLog, RateLimiter, ChannelLog and OpMe have safety properties only. That
the hour is not missed (`DayHasBackup`) is one, because Maintenance states the clock's
assumptions as guards of `Pass`: a timer that is due fires before the next instant, and
a run ends `MaxRun` instants after it began.

Fairness conditions have a subscript without the constant `scenario` where there is one
in the state, which is equivalent and cheaper for TLC.

## 4. What is proved

**The link store.** `LinkApiProofs` proves, for **every** set of keys and targets, every
configuration of rules and namespaces, and every batch size:

| theorem | statement |
|---|---|
| StoreTyped | `StoreSpec => []StoreTypeOK` |
| StoreInverse | `StoreSpec => []BucketsInverse` |
| StoreReportTrue | `StoreSpec => []BatchReportTrue` |
| StoreWritesReported | `StoreSpec => []TxWritesAreReported` |
| StoreImplementsMap | `StoreSpec => ImplementsLinkMap` |

Assumptions: `KeyRulesAssumption` (keys are positive numbers, rule keys and random keys
are keys, and no rule renders a random key) and `LinkStoreAssumption` (`NoTarget` is no
target, a batch has a positive limit). Both are what the code establishes when it reads
its configuration; TLC evaluates them in every run over these modules.

The argument. `BucketsInverse` alone is not inductive: a Commit copies the private
buckets of the transaction over the committed ones, and an item's result speaks of
buckets that later items go on changing. `StoreInv` therefore joins the types, inverse
buckets in `db` *and* in `tx.db`, the truth of the reports in `tx.db`, and that `tx.db`
only extends `db` (`TxExtendsDb`: a published key keeps its target inside a
transaction) and that every successful item names a key and a target
(`SuccessesAreLinks`). A second conjunct, `IdleHasNothingToDo`, says that without a
transaction there is no item left to process; without it CreateItem could start from a
closed transaction. The lemma
`CreateDoes` reduces the code of createInTx to two effects (nothing written, or one
free key for a target that had none), and `InsertInverse`, `RetargetKeepsInverse`,
`RemoveKeepsInverse` say what the three writes do to inverse buckets. For the
refinement a Commit maps to `Publish`, Update to `Retarget` or a
stutter, Delete to `Remove`, everything else to a stutter.

**The link API.** `LinkApiProofs`, over the invariant of the store, also proves for every
number of clients, requests and items of a batch, and every page limit:

| theorem | statement |
|---|---|
| PublishedAgree | `Spec => []PublishedKeysAgree` |
| CreatesAreAsAsked | `Spec => []CreatesAsAsked` |
| PagesAreComplete | `Spec => []PagingComplete` |

Assumptions: those above and `LinkApiAssumption`, which has the set of keys finite, as
keys have a greatest length (`urlshort/rules.go:165`). The three properties speak of
finished requests, so the invariants follow a request on its way. In `CreateInv`, `Sound`
and `Agrees` say of every item prepared so far what the properties ask of an answer, and
of the key that Resolve returned that it is published with the item's target, which the
second lookup then reads. `Owned` ties the open transaction to the one request in `write`;
`Aligned` has its results and what it has to do, in turn, stand for the pending items
in request order, which is what the index list of handleLinksBatch is there for;
`Entitled` says that it only asks for and creates keys that the client may write. In
`PagingInv`, `UpToCursor` says that every key up to the cursor which was there all the
time has been shown, so that a key deleted at the cursor loses nothing; when the cursor
ends, that is all of them. `BatchFacts` and `FittingFacts` are what a page is: the least keys
behind the cursor, none skipped.

**The message path.** `DflybotProofs` proves, for every set of subscribers, all
capacities, every number of attempts and every list of stoppers:

| theorem | statement |
|---|---|
| QueuesInOrder | `Spec => []OrderInv`, the inductive invariant |
| InOrder | `Spec => []SubscribersInOrder` |
| BusTyped, PipeTyped | `Spec => []BusTypeOK`, `Spec => []PipeTypeOK` |
| PanicOnlyAfterSave | `Spec => []PanicOnlyAfterStop` |
| DeliveredInOrder | `Spec => []DeliveredAsPosted` |

Assumptions: `BusAssumption` (the input channel holds at least one message) and
`PipelineAssumption`. `StepOfBus` first reduces every step of the pipeline to a step of
the bus or none of its own. `SubscribersInOrder` speaks of the concatenation of four
queues. `OrderInv` takes it apart into comparisons of what a subscriber received last,
what is in its channel, what the dispatcher has in hand and what is queued, and adds what
the steps need: everything is a message that entered (`Len(entered)` is the bound that a
new message lies above), and what the dispatcher has in hand lies before the queue also
for subscribers it has already served. `IncreasingConcat` puts it together again. For
the panic, `StopInv` says that the bus is not closing before the last stopper, that only
closing cancels, and that only cancelled subscribers lose their channel.

**The seen store.** `IrcBotProofs` proves, for every set of channels and nicks:

| theorem | statement |
|---|---|
| SeenTyped | `Spec => []SeenTypeOK` |
| CleanSaved | `Spec => []CleanIsSaved` |
| StoppedSaved | `Spec => []StoppedIsSaved` |

Assumptions: `SeenAssumption` (no channel is called by the empty string) and
`IrcAssumption`. `StepOfStore` reduces the steps of the bot to what they do to the store,
and `Changes` all handlers to one effect: the channels that change become dirty and have
an entry. `CleanIsSaved` is not inductive: it says nothing of a channel whose last write
failed, and a second write of it may succeed. `SnapFresh` adds that what is being written
of a clean channel is what is in memory. For the stop, `StopInv` says that no handler
runs any more and that what is dirty is among what saveAll has left, which holds when it
begins because a dirty channel has an entry (`DirtyKnown`).

**The mirror of the channels.** `IrcBotProofs`, over the invariant of the seen store,
also proves for every set of channels and nicks:

| theorem | statement |
|---|---|
| MirrorHolds | `Spec => []MirrorInv`, the inductive invariant |
| MirrorIsExact | `Spec => []MirrorExact` |
| PresentHolds | `Spec => []PresentInv`, the inductive invariant of the records |
| JoinedArePresent | `Spec => []PresentSinceJoin` |

Assumptions: those above; of `IrcAssumption` it needs that no other user has the bot's
nick and that `NoSet` is no set of nicks. `MirrorInv` separates the channel whose names
are still to come (`NamesToCome`, `MirrorsSoFar`) from all others (`Mirrors`), and adds
what a JOIN and a new connection rely on: a channel asked for is one that the bot is not
in (`AskedOut`), and without a connection the bot is in none and the mirror is empty
(`DownIsEmpty`). `LineInv` reduces every line about others to what it does to one
channel. `PresentInv` adds to `PresentSinceJoin` that the observed ones are in the channel
(so that a QUIT or NICK of theirs is heard, and a new nick is not among them) and that no
recorded time, in memory, in the file or in a write under way, is of the future: a join
is recorded at a time that is not before the last exit.

**The backups.** `UrlshortProofs` proves, for every length of the day, hour, retention,
number of starts and set of scenarios:

| theorem | statement |
|---|---|
| BackupHolds | `BackupSpec => []BackupInv`, the inductive invariant |
| BackupRestorable | `BackupSpec => []BackupsRestorable` |
| ScheduleHolds | `BackupSpec => []ScheduleInv`, the inductive invariant of schedule and status |
| StatusIsTrue | `BackupSpec => []StatusNamesBackup` |
| EveryDayHasBackup | `BackupSpec => []DayHasBackup` |

From `MaintenanceAssumption`, and the last three also from `RetentionAssumption`: a run is
over before retention would remove what it made (`Hour + MaxRun <= RetentionDays *
DayLen`, or retention is off). The code does not enforce this: it ages a daily backup from
the midnight before it, so that with a retention of one day a run that passes midnight
removes the backup it has just made. With a longer retention only a run of more than a day
could break it. `BackupsRestorable` is not inductive, since a rename could publish
anything: `RenamesVerified` adds that while a run is at its rename, the temporary file of
its name is one that was verified. `JobChanges` covers all steps that remove files or
begin a copy, `FilesStay` those that touch neither files nor run. `StatusNamesBackup` says
something of the moments between two runs only. `ScheduleInv` follows a run through its
steps: it is named for the day it began (`RunDated`), nothing in the directory is newer
than it (`RunNewest`), its file is there until it is reported (`RunMade`), and the
reported one is the newest startup backup and is there but when retention was entitled to
it (`StatusTops`, `StatusThere`). A listing that failed leaves the older name (`unlisted`
has the backup of the good run it followed): the conjunct about the newest backup excuses
it, and the one that the named file is there holds until retention finds that file too
old. That no hour is missed is `Waits`: the next hour is always that after the start or
after the end of the last run, of whose day there is a backup unless a run failed. The day
of an instant is arithmetic of `\div` and `%` with any length of a day (`DayOf` and what
follows it).

**The rate limiter.** `UrlshortProofs` proves, for every number of keys, handlers, tracked
keys, tokens and seconds:

| theorem | statement |
|---|---|
| RateHolds | `RateSpec => []RateInv`, the inductive invariant |
| RateIsHeld | `RateSpec => []RateHeld` |

From `RateLimiterAssumption`. `RateHeld` counts what a key was let through since the
beginning; that says nothing of what is left in its bucket. `WithinCredit` adds the
tokens of a tracked bucket to the count. A new bucket is paid for by `fresh`, which the
property lets grow only when enough others have asked: `LaterInFront` says that the keys
in front of a tracked key are among those that asked since, so that one that falls off
the end of a full list is behind `MaxTracked - 1` of them and the new one
(`ForgottenForMany`). `SpareBucket` counts handlers and tracked keys to show that a bucket
is free.

**The logs.** `UrlshortProofs` proves, for every set of callers, any capacity, retention,
number of days and starts:

| theorem | statement |
|---|---|
| LogHolds | `LogSpec => []LogInv`, the inductive invariant |
| LogIsComplete | `LogSpec => []LogComplete` |

From `DailyLogAssumption`. `KeptInOrder` is the property file by file, buffer and channel.
A step also needs that the open file is the last one that has records, so that
what is flushed comes after all of them (`OpenIsLast`), and that a writer that is done
left nothing accepted before Close (`DoneIsWritten`). `FlushKeeps`, `AgingKeeps`,
`TakingKeeps`, `PuttingKeeps`, `CutKeeps` and `CrashKeeps` say what each step does to the
order, for any files, buffer and channel; `CutKeeps` is a write that fails: a first part of
the buffer reaches the file, the rest is lost, and the order stays. `LogComplete` counts as
lost exactly what was in the buffer when writing it out failed, what was offered to that
file afterwards, what found no file, and what a kill took: a record that is neither lost
nor aged is where it should be.

`UrlshortParts` and, for dflybot, `DflybotParts` say that a behaviour of the composition
which the runs check is one of each of these parts, so that the theorems are about it.

**The alerts.** `AlertsProofs` proves, for every threshold, length of a series or of the
feed, set of wanted actions and set of faults:

| theorem | statement |
|---|---|
| AlertsAreDeserved | `Spec => AlertsDeserved`, an action property |
| FailuresTold | `Spec => []FailuresToldOnce` |
| RecoveryTold | `Spec => []RecoveryFollowsFailure` |
| NoticesToldOnce | `Spec => []NoticesOnce` |
| ActivitiesTold | `Spec => []ActivitiesToldOnce` |
| ActivitiesNamed | `Spec => []NamedByStatus` |

From the assumptions of the three modules. The inductive invariant is `MonitorsInv`, one
for each monitor, and every excuse a property has stands before the conjunct that needs
it. What the monitor knows is in memory while it runs and in the file while it does not
(`WebNow`, `JobNow`, `FeedNow`); the invariants relate that state to what was said.

* The web: the counts are below the thresholds (`WebCounts`) and no larger than the
  number of last probes that went so (`WebStreaks`), which makes a declared change
  deserved but for the first success of a new web, which leaves the failures before it
  counted (`shaky`); the message in hand is that of the state (`WebOrdered`); every warning said
  or in hand is of an older certificate or threshold than the next (`WarnedOnce`).
* The job: every failed build up to the one counted as processed is announced or passed
  over, in a series up to the one before the next (`JobCovered`), and none announced is
  ahead of it (`JobOnce`); the job has failed only when that was the last said; the item
  remembered as stuck is the one announced, as long as one waits at a time (`QueueHolds`).
* The issue: the watermark stands between two activities, with the issue's status there
  (`Knows`), which is what names the next activity; what was announced is behind it or
  has left the feed (`FeedOnce`). `RememberedFacts` relates the status remembered on the
  way to the issue's own, `AnnouncedFacts` the messages to the activities. All this holds
  until one of `FeedLimits` happened (the feed did not reach back, the first run remembered
  an older status or none, an issue was created and changed in one poll), after which
  `NamedByStatus` and the first part of `ActivitiesToldOnce` say nothing.

`OrderProofs` shows that a finite set of numbers has a least and a greatest element and
that its ascending order has each element once. The induction it needs is stated for sets
(`NaturalInduction`: a set that has 0, and with every number the next one, has them all).

**The events of GitHub.** `GithubMonitorProofs` proves, for every size and number of
pages, every set of events of no interest, any clock and number of events, and every
combination of mishaps:

| theorem | statement |
|---|---|
| MonitorHolds | `Spec => []MonitorInv`, the inductive invariant of the list and the pages |
| WatermarkIsAnnounced | `Spec => []PassedIsAnnounced` |
| AnnouncedOnce | `Spec => []NoRepeatsBut` |
| AnnouncedInOrder | `Spec => Chronological`, an action property |
| BacklogOnce | `Spec => OneFirstRun`, an action property |

From `GithubAssumption`. The runs have one kind of mishap in a behaviour; the theorems
have any. What a poll knows of a list that changes under it is `PagesKnow`: every event
of the list was read, or is on a page still to be read, or came after the first page and
is not older than anything read. Hence an event that the new watermark passes without it
being read was cut off by the page limit or by the stop at the watermark's second, which
the code does and the property excuses (`NewsMiss`). Without a shift the pages are the
beginning of the list (`OneList`), and then:

* `NoRepeatsBut` needs that what was announced, or taken as seen, is behind the watermark
  or so far down the list that no poll reads it (`Covers`, `Deep`), for the watermark in
  memory while the monitor runs and the saved one while it does not (`Current`).
* `Chronological` needs that what is due under either watermark is not older than what was
  posted (`Later`), which for the saved one rests on `PassedIsAnnounced`, and the same for
  what is queued. What Post lost is behind the watermark, unless a crash or a failed
  save brings it back.

**The commits and tags of git.** `GitMonitorProofs` proves, for every history, every set
of branches and tags, any lengths of texts and messages, and every combination of mishaps:

| theorem | statement |
|---|---|
| StateHolds | `Spec => [](StateInv /\ ScenarioInv)`, the types and the phases |
| RememberedIsAnnounced | `Spec => []SeenIsAnnounced` |
| AnnouncedOnce | `Spec => []NoRepeats` |
| ParentsFirst | `Spec => AncestorsFirst`, an action property |
| BranchSeededOnce | `Spec => SeededOnce`, an action property |

From `GitAssumption`: commits are *numbered* parents before children, which every history
without a cycle can be, names and objects are apart, `None` is none of them. Nothing is
assumed of dates: the lists of a poll are all of `Orders`. The run has one branch, one tag
and one kind of mishap in a behaviour. `AncestorFacts` has what a history is: closed under
parents, inside the history of each commit that has it, and nothing in it later than its
tip; it is defined as the intersection of the closed sets, so no induction is needed.
`PollOfBranch` is what a poll makes of a branch: nothing, its seeding, or a new tip that
is the last commit announced and, when all of them could be read, the tip of the remote.

* `SeenIsAnnounced` needs in addition that what is to be posted is part of the remembered
  history (`Announced`). That the last of a list is the tip, whatever the dates, is
  `OrderFacts` with `LastFacts`.
* `AncestorsFirst` says for any dates that an ancestor of what is posted was posted,
  given up or seeded, or is queued in the same poll; and when no list was skewed, that it
  is not queued either. It adds to `Announced` that the queued commits keep the order of
  their list (`OrderInv`), and `BatchFacts`, that a batch leaves nothing behind which that
  list has earlier.
* `SeededOnce` needs that a branch of which something was taken as seen has a tip in
  memory while the monitor runs and in the file while it does not (`HasTip`; `CurrentStep`
  says when that state changes, which is at the polls and the seeding only).
* `NoRepeats`, for a branch (`BranchInv`): what was told lies in the history of the
  remembered tip and of the mirror's, both of which are behind the remote's, and what is
  to be posted is outside of it. For a tag (`TagInv`): what was told is where the tag
  points in the mirror, and if that is a commit it is the remembered one. Of an annotated
  tag no such thing holds (section 5).

**!opme.** `DflybotProofs` proves, for every set of users, keys and times, every leeway and
any pace of the clock, of the handler's three readings of it, and of the cleaning:

| theorem | statement |
|---|---|
| OpRemembers | `OpSpec => []OpInv`, the inductive invariant |
| OpGrantedOnce | `OpSpec => []GrantedOnce` |

From `OpMeAssumption`. A count says nothing of the next command: `GrantRemembered` adds
that a granted credential is either out of date or in the cache until it is
(`Outlasts`). It is accepted from a leeway before its time, and remembered for two leeways
from a clock that is not earlier, and it counts as expired only after the entry's last
second: so a look-up within the leeway finds it. Only a handler that checked the time
within the leeway and looked up after it can miss it (`late`); `InHand` says so of what is
about to be granted, and `GrantedAtMost` that this happens once: handlers run one after
another, and any later command fails the check of the time.

**The channel logs.** `DflybotProofs` proves, for every set of channels and makers and
any number of days and lines:

| theorem | statement |
|---|---|
| ChanHolds | `ChanSpec => []ChanInv`, the inductive invariant |
| FilesHaveLines | `ChanSpec => []LogHasLines` |

From `ChannelLogAssumption`. The invariant takes the property file by file (`Holds`) and
adds the types, that a line is recorded for one file only (`Apart`), so that what one file
loses is missing in no other, and that Stop leaves no file open (`ClosedIsClosed`).
`CutExact` is a write that fails after some of the lines.

Only model-checked: the liveness properties (LinkApi, Pipeline, GitMonitor, IrcBot,
GithubMonitor), which the prover does not treat. Every invariant and action property that
a passing run checks is stated by a theorem.

## 5. Findings

Each is a run that TLC ends with a counterexample; `PROJECT.json` quotes the lines.

* `urlshort/api.go:499` (link_api_target): between the two lookups of prepareCreate a
  retarget can make the answer a link to a target nobody asked for.
* `git-monitor/monitor.go:339` (git_tags): an annotated tag created while the monitor
  runs is announced as updated in every later poll, because the commit is remembered and
  the tag object compared.
* `seen.go:318` (irc_rename): a nick change onto a nick with an older record loses the
  newer times.
* `github-monitor/github.go:163` (github_pages): paging stops at an event *of* the
  watermark's second, though events of that second may follow on the next page.
* `redmine-monitor/monitor.go:381` (reopen): the first run goes through the feed newest
  first, so that of several statuses of an issue it remembers the oldest, and a later
  change between two open statuses may be announced as a reopening.

Properties of the passing runs name the limits that the code has by design, and say
nothing, or less, once they were reached:

* The monitors: events that arrive late, more events than the pages hold, a crash between
  announcement and save (repeats), a state file that cannot be read (seeds anew), a message
  that Post gives up on or that the stop cancels (lost, though saved as seen).
* git-monitor: a commit that git cannot show is passed over; with dates that disagree with
  a merged history a commit comes before its ancestors within one poll; a tag whose commit
  is not found is remembered by its object (`monitor.go:324-328`).
* jenkins-monitor: a request that fails in the middle of a series repeats the announcements
  before it; a build that still ran when a later one had ended is passed over, although
  `monitor.go:7-8` has each failed build announced; of several queue items of a job the
  one listed last counts, so that one may be announced again after another, although
  `monitor.go:403` says once per queue item. Which one is listed last is Jenkins' choice,
  so it is excused ("several") and no run shows it as violated.
* web-monitor: the first success of a new web does not reset the failures counted before
  it, so that its first DOWN may come early; certificates that alternate are warned about
  at every poll.
* redmine-monitor: activities that the feed no longer shows are missed (the code warns in
  its log), and an issue that is created and changed within one poll is given today's
  status by its creation, by which the change after it is named. From then on neither
  completeness nor names are claimed for the model's one issue.
* The seen database: a failed write is retried at the next change or the stop.
* The logs of urlshort and of the channels: a write that fails is logged and nothing else;
  what was buffered, and what comes for that file until it is opened anew, is lost.
* urlshort's status: a directory that cannot be listed after a good run leaves the name of
  the older backup (`maintenance.go:219`).
* `!opme`: a credential is remembered for exactly the width of its leeway, and the handler
  reads the clock anew for the check, the look-up and the entry. A handler that the end of
  the leeway overtakes grants it once more.

Two more disagreements, which the properties of Maintenance allow for:

* `docs/urlshort.design.md:587` lets retention run after a *successful* backup and at
  startup. RunOnce (`urlshort/maintenance.go:131-145`) calls cleanup whether or not the
  backup was made, so that backups that fail for `retention_days` leave none:
  `StatusNamesBackup` excepts just that.
* `docs/urlshort.design.md:899` has `last_backup_file` beside the time of the last backup;
  record takes the newest by the date in the name, and a startup backup's has the second,
  so that the daily backup made later on the same day is not the one named.
  `StatusNamesBackup` asks for a backup of the day of the last good run.

## 6. What is not modelled

* Rendering: message texts, link shortening in announcements, escaping, templates,
  logging. No state depends on it, except lengths in the batching, which are modelled.
* TLS, HTTP servers, configuration, password hashing, regular expressions.
* Durations: a timeout is a step that may happen; the backoff of the IRC bot delays its
  stop by up to five minutes, which no model shows.
* bbolt, goirc, git, GitHub: external, modelled by what this code relies on. Of rev-list
  the *set* of commits is taken as exact for any dates; the order within one message is
  in no property.
* Waiting for the writer lock by a PUT or DELETE, each of which is one step:
  `RequestsAnswered` is about creates, batches and lists.
* The piece of a record or line that a failing write leaves in a file: the record counts
  as lost. The error of closing a file after its flush succeeded. Clocks that go back.
* The monitors' history files, which only other programs read.
* urlshort's server, redirects, pages, TLS and status: a redirect is one read of the
  store, settings are read once, the rest is rendering. The access log's format too.
* The shortener's client (`monitor/urlshort.go`): one request and its response; with the
  link API it would show nothing that a client of LinkApi does not.
* Nick recovery of the IRC bot: which nick it has is in no property; `Me` stands for it.
* The TTL cache's Set, Pop and Delete, which the program does not call, and its pool of
  items, which holds nothing between two calls.
* Tools, packaging, formatting: one-shot scripts and pure text.

## 7. The plan

Done, in this order: link store with its proofs, link API, bus and pipeline,
git-monitor, IRC bot with the seen database, github-monitor, web-monitor,
jenkins-monitor, redmine-monitor, the proofs of these; then the backups, logs and rate
limiter of urlshort, the channel logs, !opme with its cache, the two compositions, and
the proofs over Maintenance, RateLimiter, DailyLog, ChannelLog, OpMe, the mirror, the
delivery of messages, the web, Jenkins, Redmine, GitHub and git monitors, and the link
API.

Next, abstract specifications: a notifier that announces each item at most once and in
order, implemented by both watermark monitors and, per branch, by git-monitor.
