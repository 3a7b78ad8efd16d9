# A TLA+ model of the SDX controller

The controller takes requests for L2VPN connections over HTTP, has a path
computed, cuts it into one *segment* (a "breakdown") per OXP domain, asks each
domain's local controller over RabbitMQ to create its segment (an *EVC*), and
follows their answers. Its state is in MongoDB; several threads work on it
without a lock or a transaction. That is where it is hard, and what this project
is about.

## 1. Inventory

| component | code | state | operations | talks to |
|---|---|---|---|---|
| L2VPN controller | `controllers/l2vpn_controller.py` | none of its own | POST, DELETE, PATCH, GET, on as many HTTP threads as there are requests | ConnectionHandler, DbUtils |
| ConnectionHandler | `handlers/connection_handler.py` | none of its own | place, remove, archive, clean up partially, recover from link failure, UNI ports, status query | PCE (`te_manager`), DbUtils, TopicQueueProducer |
| LC message handler | `handlers/lc_message_handler.py` | none of its own | OXP answers, status changes, topologies, rollback of a failed PATCH; on the one *LC thread* | ConnectionHandler, `te_manager`, DbUtils |
| timeout monitor | `__init__.py:44-117` | none of its own | times out connections stuck in UNDER_PROVISIONING | DbUtils, ConnectionHandler |
| RpcConsumer | `messaging/rpc_queue_consumer.py` | the queue, `domain_dict`, `latest_topo` | receive and acknowledge, the LC thread's loop, reload after a restart | LC message handler, HeartbeatMonitor |
| HeartbeatMonitor | same file | `last_heartbeat`, `domain_status`, a lock | record a heartbeat, mark silent domains | DbUtils |
| DbUtils | `utils/db_utils.py` | MongoDB collections | add or replace, set a field, read, mark deleted, delete | MongoDB |
| TopicQueueProducer | `messaging/topic_queue_producer.py` | a connection, a keep-alive thread | publish | RabbitMQ |
| BAPM server | `bapm_server/` | an asynchronous publisher and consumer, a queue in memory, a counter | publish, confirm, take, acknowledge, index | RabbitMQ, Elasticsearch |
| stubs, models | `controllers/{link,node,user,topology}_*`, `models/`, `util.py` | none | reads, generated code | |

Everything the threads share is in documents they read, change a copy of and
write back, by field (`update_field_in_json`) or whole
(`add_key_value_pair_to_db`). The behaviours that are hard to test, each at its
line, are the `hazards` of `PROJECT.json`. In short: copies that are stale when
written; a DELETE, a PATCH, a timeout, a lost link and an answer that cross;
answers delivered twice or late, or counted for another placement; publishing
that fails half-way; documents "deleted" that later writes still find or insert
again; two writers of the domain register of which only one holds the lock; a
restart that forgets what the documents remember.

What makes each component correct:

- POST, answers, timeout: *up* means every segment is created, and it still is; a
  refusal or a timeout leaves no EVC and no reservation; provisioning ends.
- DELETE: nothing is left, nothing comes back, no OXP is asked to remove what it
  does not have.
- PATCH: the new request or the old one is provisioned, never a mixture, never
  both, never neither.
- lost links and ports: no connection is shown up on a link or a port that is
  down; nothing of an abandoned path stays; a recovery ends.
- domain register: a silent domain is shown UNKNOWN, until it is heard and no
  longer; a stored topology is listed; the LC thread lives.
- restart: no VLAN is given twice; what was up is held again; the LC thread serves.
- BAPM: a measurement is stored once.

## 2. Modules

| module | what it is | proofs |
|---|---|---|
| `ConnectionSM` | statuses, the transition table as a parameter `Legal` | |
| `ConnectionLifecycle` | abstract specification: what a client sees of a connection | |
| `Provisioning` | POST, DELETE, the LC thread on answers and status changes, the timeout monitor, the OXPs | `ProvisioningInv` (invariants), `ProvisioningProofs` (types), `ProvisioningSafety` (the wire, the documents, the refinement), `ProvisioningCount` (what holds *up*, cleanup) |
| `Heartbeat` | the register of domains: heartbeats, topologies, the monitor, restarts | `HeartbeatProofs` |
| `Recovery` | lost links, UNI ports and the indexes that find the connections on them | `RecoveryProofs` |
| `PatchTransaction` | abstract specification: what a user of PATCH may rely on | |
| `Patch` | PATCH, its waits, and its rollback by two threads | `PatchInv` (invariant), `PatchProofs` (with the refinement) |
| `VlanRange`, `ConnectionView` | the sanitiser of VLAN ranges and the status query, as operators | |
| `Restart` | what is saved, and what is rebuilt from it after a crash | `RestartProofs` |
| `Bapm` | the BAPM server and its publisher | `BapmProofs` |
| `MC...` | parameter values for TLC | |

`Recovery` and `Patch` take the environment of `Provisioning` apart: each has the
documents, orders, answers and OXPs, with the fields and threads its questions
need. `Restart` has POST and DELETE in a step each and the reload in many. Who
shares a document with whom is thereby covered pairwise: HTTP with LC and the
monitor (`Provisioning`), PATCH with LC and a recovery (`Patch`), several
recoveries with late answers (`Recovery`), HTTP with the reload (`Restart`), LC
with the heartbeat monitor (`Heartbeat`).

Each action's code is in `map`. A step is what one thread does between two
accesses of something another thread of the module writes.

### Provisioning

| variable | code |
|---|---|
| `conns`, `tombs` | collection CONNECTIONS: the visible document of an id, how many documents of it carry `deleted: True` |
| `breakdowns`, `history` | BREAKDOWNS (its keys), HISTORICAL_CONNECTIONS (its length) |
| `reserved` | the PCE holds a solution and VLANs for the id |
| `toLC`, `toSDX`, `reports` | messages to and from the local controllers |
| `oxp` | the EVC of each segment at its OXP |
| `post`, `del`, `lc`, `mon` | each thread's program counter and the copies it holds |

A document keeps `status`, `oxp_success_count` (`count`), the keys of
`oxp_response` (`resp`), those with an EVC id (`evc`),
`partial_cleanup_requested` (`partial`), `provisioning_timeout_handled`
(`handled`) and `late_cleanup_domains` (`late`).

What is merged or abstracted, and why it matters little:

- The LC thread's reads of the connection and of the breakdown are one step, and
  so are its field updates (`LcSave`). `archive_connection` is two steps: its
  read, and its delete with the history entry.
- One call of DbUtils is one step. Documents are inserted by POST once per id.
- A replacement that changes nothing completes. The code retries until the
  server reports one modified document; that an identical document counts is how
  the code uses the server: every POST registers the same UNI port twice
  (`_process_path_to_db`, then `_send_breakdown_to_lc`), and
  `test_l2vpn_controller.py:359` runs it.
- The path, VLANs and bandwidth are the set of segments the PCE returns, any
  non-empty set. The PCE and the solver are a library;
  `generate_connection_breakdown` either returns a breakdown or raises (`PlaceFail`).
- A local controller echoes `breakdown_domain`, as the handler expects, so an
  answer is filed under its segment. Answers in flight are a set: it allows every
  order, of which the queue's is one. Two identical deletes in flight are one.
- A delete's answer keeps the EVC id that is recorded; a refusal records none.
- POST is modelled for fresh ids (the generated `uuid4`).
- The monitor's `find()` cursor is one snapshot; elapsed time is whether it fires.

`Legal` is the table of `sdx_datamodel`, which is not in the repository. Runs use
the least table the code's own moves need (`MinLegal`) and the largest that refuses
DOWN to UP (`MaxLegal`), as `test_connection_state_machine.py` expects; the
theorems hold for every table in between, unless they name a move that must be
illegal (section 4).

### Heartbeat

`doc` is the document `DOMAINS/domain_dict`, `dict` the LC thread's variable of
that name, `status` and `last` those of the monitor (a heartbeat is never heard,
recent or overdue: `Lapse` moves it), `saved` the stored topologies.
`HeartbeatMonitor.lock` is held while `mon` is not asleep and while `lc` is at
`recordWrite`; `Record` merges taking the lock, the two dictionaries and the read
of the document; `Mark` and `MarkWrite` are the monitor's read and its write, with
the lock held between, which `Add`, the write for a new domain, does not take. An
exception in `record_heartbeat` is outside the loop's `try` and ends the thread.
`Restart` keeps the collections and loses the rest, queue included (messages are
acknowledged when queued). Domains send what they like in any order.

Two things make the document disagree with the monitor: a topology of a new
domain has the LC thread store its own dict, in which the monitor's marks are not
(`lc_message_handler.py:404`), and a restart leaves UNKNOWN in the document of which the
new monitor knows nothing. `overwritten` records which domains either has hit, until the
monitor or a heartbeat next writes the domain's status; only properties read it.

### Recovery

`index` is the link index, seen from the connection, and `listed` says that the port
index lists it under both its UNI ports (`_process_path_to_db` enters and removes both).
`Ends` are a connection's UNI ports, which connections may share; a topology says of each
port whether it is up, and `LcPorts` handles the ports one by one as the code does: all
that went down, then all that came up, each setting the status of every connection it is
listed for and looking at no other port. `solutions` are the links of its stored path,
`topo` what the TE manager has, and `evcs` the EVCs at the OXPs, each with the number of the placement that asked
for it (`attempt`), so that an answer to an old placement can be told from one to
the new. The LC thread is the only writer here (POST, DELETE, PATCH and the
monitor are quiet), so that a message, or one connection of a topology, takes a
step or two: `TakeTopology`, then `LcRemove` and `LcPlace` for each connection,
then `LcPorts`. An OXP may publish, answer and serve its queue (in order) between
any two. The paths the PCE may answer (`Route`) and the topologies the OXPs may
publish are parameters. The wait of `remove_connection` is for answers this very
thread would record: it can only expire, and changes nothing.

### Patch

`conn` adds to the document what PATCH uses: the request's own fields (`req`),
`rollback_request` (`back`) and the three flags. Request `k` is that of the k-th
PATCH, and `request` says for which request each placement was, which is how a
mixture shows. `th["http"]` and `th["lc"]` run the same `remove_connection` and
`place_connection` (`PlaceStep`) on their own copies, with a `job`: place the new
request, the old one, or the same one `again` after a lost link. The 10 s sleep
between removal and placement may end at any time (`PatchReset`): whether it was long
enough is not a guard but recorded, as `stuck` when the LC thread still holds a copy of
the old document and as `hasty` when orders or answers of the removal are still under way.
A wait may expire at any poll.
PATCHes come one after the other, and a link is lost only between two of them;
the monitor and DELETE are quiet.

`PatchTransaction` is what comes out of it: one request is *agreed*, and at most one
is *shown* as up. A PATCH opens a transaction; only an open one takes the connection
down; it is decided once, for its own request, which is then shown, or for the previous
one, and the answer is true when it is given. The mapping is at the end of `Patch`.
While the connection is being removed (`Removes`) the agreed request is the one PATCH has
read; while the document can be rolled back (`Undecided`: `onFail`, and not UP) it is
`rollback_request`; otherwise it is the document's own. So a thread that rolls back to
anything but the agreed request, rolls back what is decided, or tells of a result that
another thread has overturned, takes a step the specification does not have. It gives up
(`broken`) when one of the weaknesses below but `forgotten` has struck.

### VlanRange, ConnectionView, Restart

A range is a list of numbers, pairs, texts (the parts of `"a-b"`, of which those
that are not digits are dropped, as the code does) or anything else; `ValidItem` and
`Sanitised` are `_is_valid_vlan_range` and `_sanitize_vlan_ranges`. `View` is
`get_connection_status`. `Restart` has three groups of variables: the store, the
TE manager (`range`, `table` of the VLANs in use, `solutions`), and the LC thread
with the monitor's copy. `Crash` loses the second and third at any time; `Load`
rebuilds them one connection at a time while POST and DELETE are served. `base` is
`latest_topo`, which is read at start-up only: `lc_message_handler.py:418` assigns
a local variable.

### Bapm

`pub` and `con` go through the callbacks of a connection (`PubNext`, `ConNext`);
the broker is `bound`, `queue` and the one delivery in `flight`. `threadQueue`,
`msgId` and `index` are the main thread's. The publisher numbers its messages; the
OXPs, too, publish measurements. A consumer whose channel or connection is lost stops at
once: closing the channel clears `_consuming` first (`bapm_consumer.py:54`, `:96`).

### Known weaknesses: `hurt`

`Recovery`, `Patch`, `Restart` and `Bapm` each keep a set `hurt` of the weaknesses of the code
that have struck; a property excuses only those it names, so that everything
else is still checked in the same run, after them too:

| module | weakness | what it is |
|---|---|---|
| Recovery, Patch | `publish` | publishing raises half-way; nothing undoes what was sent (`connection_handler.py:770`, `:811`) |
| Recovery | `port` | a port that changes while its connection is being provisioned overwrites the status (`:912`) |
| | `oneEnd` | a port that comes up sets its connections UP though the other port is down (`:912`), see `VUpHasBothPorts` |
| | `skipped` | a link is lost under a connection that cannot be moved to ERROR, and is not looked at again (`:777`) |
| | `aborted` | a failed recovery raises out of the handler (`:815`); the connections and ports still to do are forgotten |
| | `undeleted` | an OXP fails to remove an EVC, and the document no longer knows it (`:791`) |
| Patch | `stuck` | the sleep after the removal ends while the LC thread holds a copy of the old document, and writes it over the new one (`l2vpn_controller.py:396`) |
| | `hasty` | it ends while deletes are to be done or answered; their answers fill the new `oxp_response` and start a rollback early (the same line) |
| | `expired` | the wait ends while the LC thread still cleans up; HTTP places the old request |
| | `raced` | HTTP and the LC thread both place the old request (`lc_message_handler.py:347`) |
| | `lost` | a link is lost later, see `VPatchStays`; answers to old deletes also fill `oxp_response` and trigger a rollback early |
| | `forgotten` | the LC thread's rollback cannot be placed, and its result is not looked at (`lc_message_handler.py:70`): REQUESTED for ever |
| Restart | `overtaken` | a POST before the tables are rebuilt, or after the LC thread has died rebuilding them, gets a VLAN in use |
| | `stale` | the breakdowns of DOWN and REJECTED connections take VLANs at reload |
| | `unlisted` | the monitor's stale write drops a domain; the reload has no table for it and the LC thread dies |
| | `unsaved` | a crash between taking a topology and saving it; the same |
| Bapm | `several` | one confirmation of the broker is for several publications, of which the publisher settles one (`bapm_publisher.py:138`) |
| | `refused` | Elasticsearch raises: the main thread dies, the consumer goes on acknowledging |
| | `restarted` | the queue in memory is lost, and the ids start at 1 again and overwrite |

## 3. Runs

`CHECK_DEADLOCK FALSE` everywhere: with no request, message or timeout to come
the system stops, and should.

| run | asks | bounds |
|---|---|---|
| `ProvTwo` | is any EVC deleted without being created, by two connections that share the LC thread and the monitor's scan? | 2 connections, 1 segment each, 1 DELETE, 1 redelivery, timeouts |
| `ProvTimeout` | is *up* backed by every segment, across timeouts, reports and failed publishes? | 1 connection, 2 segments, 1 DELETE |
| `ProvDelete` | two DELETEs at once, publishing fails anywhere: does what is up stay up, what is deleted stay deleted, and does the client see `ConnectionLifecycle`? | 1 connection, 2 segments, 2 DELETEs |
| `ProvCleanup` | is a refused connection cleaned up, and does provisioning end? | 1 connection, 2 segments |
| `Heartbeat` | does the document follow the monitor, what takes UNKNOWN back, does the LC thread know every listed domain and live, is silence noticed? | 2 domains, queue of 2, any order of messages, 1 restart anywhere |
| `Recovery` | links and ports change during a recovery | 2 connections that share one of 3 UNI ports, 2 links, a path of 2 domains and one of 1 that share a domain, 2 topologies, one OXP that may fail to delete |
| `Patch` | is a PATCH all or nothing, with its two rollbacks, and a transaction (`PatchTransaction`)? | 2 domains, the old request in 1, 1 PATCH, 1 lost link, publishing fails |
| `Restart` | does the reload restore what a crash has taken? | 2 connections on the same ports, 2 VLANs, 2 domains, 3 topologies, 1 crash between any two steps |
| `Bapm` | is a measurement stored once, and the account right? | 2 publications, 2 measurements of which 1 is not JSON, 1 restart, connections lost anywhere |

Two segments are enough for "one succeeds, one fails", for one answer to arrive
before and one after any step, and for a count to be wrong; two DELETEs for
either to act on what the other has left. A queue of two lets a heartbeat and a
topology wait behind each other. Two topologies let the second come while the
recovery from the first is being answered; the two paths share a domain, so that
a delete and a create of one segment follow each other. One VLAN more than one
connection needs is enough to see a VLAN given twice. `Patch` was also run
with two PATCHes, which lets a rollback go to a request that is not that of POST and
find what the first has left in the document, without a violation, as long as the sleep
suffices (`CONSTRAINT Unhurt({"stuck", "hasty"})`; without it there are more than 33
million states, and TLC was not run to the end): the invariants with a lost link and
publishing that fails (4.6 million states), the refinement without these (440,099 states).
The theorems of section 4 hold for any
number.

Fairness. `ControllerFairness` is weak fairness of each controller thread: a
thread with something to do eventually runs; it waits only by polling with a
deadline. `OxpFairness` says that OXPs answer: it is part of `FairSpec`, which is
used where a property could not hold without them, and not of
`ControllerFairSpec`. In `Heartbeat`, only the LC thread and the monitor are fair;
domains need not send anything, and nothing forces `Lapse`. `Recovery` and `Patch`
are fair to the threads and to the OXPs, one by one, and nothing forces a PATCH or
a change of topology. In `Restart` the LC thread is fair. In `Bapm` the broker and
both threads of the server are; nothing forces a publication. Connections may be
lost, and threads end, at any time.

What the passing runs leave out, or excuse by `hurt`, is what breaks their
properties. Three violation runs put it back:

| run | what happens | line |
|---|---|---|
| `VUpTimeout` | a timed-out connection is shown up by an answer read before | `__init__.py:98` |
| `VUpHasBothPorts` | both UNI ports of a connection go down and one comes up: it is shown up | `connection_handler.py:912` |
| `VPatchStays` | after a PATCH that succeeded, a link is lost and an OXP refuses the new path: the LC thread places the request of before the PATCH | `l2vpn_controller.py:407` |

More disagreements show when a constant of a run is changed. They have no run of
their own; these settings find them:

| property | with | what happens |
|---|---|---|
| `NoResurrection` | `VUpTimeout`'s constants, 1 DELETE | the monitor's snapshot, written after a DELETE, inserts the connection again (`__init__.py:98`); a status change does the same (`lc_message_handler.py:213`) |
| `UpNeedsEverySegment` | `ProvTimeout`'s, 1 redelivery | one answer, delivered twice, counts for two segments (`lc_message_handler.py:288`) |
| `DeleteTearsDown` | `ProvCleanup`'s under `FairSpec`, 1 DELETE, no wait expires | a DELETE of a REQUESTED connection does not wait for its creates; an EVC created afterwards stays (`connection_handler.py:630`) |
| `LcKeepsServing` without its antecedent, that a domain is listed | `Heartbeat`'s | `domain in None` ends the LC thread (`rpc_queue_consumer.py:73`) |
| `StatusMovesLegally` | `VUpTimeout`'s constants, `MaxLegal` | DOWN is overwritten by the UP of a copy read before the timeout (`lc_message_handler.py:340`) |
| `ProvisioningEnds` | `VUpTimeout`'s, under `ControllerFairSpec` | UNDER_PROVISIONING is written back over DOWN; the document is marked as handled, and the monitor skips it for ever |
| `CleanupComplete` | `ProvCleanup`'s, both segments in one domain | the late cleanup takes the first segment of a domain only (`connection_handler.py:397`) |
| `OnlyHeartbeatsRevive` without its last disjunct | `Heartbeat`'s, no restart | a silent domain is written UP by another's topology, from the LC thread's copy (`lc_message_handler.py:404`) |
| `SavedIsListed` | `Heartbeat`'s | a domain that has just joined is dropped by the monitor's copy (`rpc_queue_consumer.py:100`): its topology is stored, a restart does not load it |
| `NoFalseUnknown` without its last disjunct | `Heartbeat`'s | a heartbeat after a restart does not clear UNKNOWN (`rpc_queue_consumer.py:62`) |
| `UpIsBacked`, `UpHasPorts` of Recovery | `MaxLegal` | if the table lets a connection leave DOWN or ERROR freely, answers to an older placement are counted for the newer one (`connection_handler.py:790`) |
| `NoDoubleProvision` of Patch | a table that lets UNDER_PROVISIONING or DOWN move to MODIFYING, 2 PATCHes | the second PATCH deletes only the EVCs that have been answered (`connection_handler.py:630`); one the first PATCH has asked for is created after it, and stays beside the new one |
| any that excuses a weakness | the excuse removed | the table of weaknesses above |

Smaller things seen while modelling: the warning "keeping %s" about an invalid
VLAN range keeps the range of the controller's start, not the current one
(`lc_message_handler.py:153`); `"x-1"` and `"-5"` are accepted as one VLAN; GET
shows no endpoints for a request of specification 1.0.0 (`connection_handler.py:1002`);
the BAPM publisher logs "reopening in 5 seconds" and ends (`bapm_publisher.py:63`);
its consumer sets `should_reconnect`, which nobody reads.

Each property of a passing run has a mutant of the code that violates it
(`Mut...`, next to the definition it replaces).

## 4. Theorems

All are checked by TLAPS for every value of the constants that the named
assumptions of the module allow: finite sets of segments, any number of
connections, domains, VLANs, requests, messages and restarts. Each inductive
invariant was checked by TLC, on the runs' instances and with more connections or
redeliveries, before it was proved. Every safety and action property of the passing
runs is stated by a theorem, and so is each of the two refinements.

A theorem holds for every `Legal` that `LegalAssumption` allows, unless it says
otherwise. What else a theorem assumes is stated with `ASSUME`:

| assumption | says | why |
|---|---|---|
| `Undisturbed` | the timeout is off, no OXP reports a status unasked | both write a copy of the document over it: `VUpTimeout` and the first row of section 3's list are what happens otherwise |
| `Unrepeated` | no answer is delivered twice, no OXP reports "UP" unasked | one answer counts for two segments |
| `RejectsEarly` | publishing never raises, or UNDER_PROVISIONING may not move to REJECTED | POST rejects in its `except` what it has sent half of; the least table refuses that move, and a client must not see *rejected* after *down* |
| `OnlyRefusals` | `Undisturbed`; no DELETE, no publish that raises, no EVC that cannot be removed, one segment in each domain | each of these leaves an EVC behind; a DELETE has its own cleanup |
| `OnlyUpFails` | UNDER_PROVISIONING and DOWN may not move to ERROR | the row of that list about Recovery: an answer to an older placement would be counted for the newer one. If the table refuses both, the LC thread recovers only what is UP, and what is UP has no answer under way |
| `OnlyUpModifies` | what may move to MODIFYING is UP | the row of that list about Patch: a PATCH of a connection whose answers are still to come leaves EVCs behind. `UpMatchesRequest` was not violated then, with two PATCHes; the proof has one invariant for both. The refinement assumes it too: a PATCH of what is not up opens a transaction while another is undecided |

**Types.** `TypeCorrect` of each module; that of Heartbeat is proved only, the others are
also checked by a run. The delicate places are `tombs` in
Provisioning (`DbDeleteOne` only subtracts from a positive count), the queues of
orders in Recovery and Patch, and in Restart that no step gives the TE manager a
range it cannot use.

**Provisioning**, in the order in which one rests on another:

- `WireCorrect` and `DeletesAreSafe`, without assumptions. `DeleteTargetsCreated` is
  not inductive: what a DELETE publishes comes from a copy of the document, and
  that copy from any thread's earlier write. The invariant `WireInv` adds that
  *every* copy, in the database or held by a thread, records only EVCs that were
  created (`EveryCopy(EvcCreated)`), that answers in flight are true, and that a
  create is sent, in flight or served but never two of these, so an EVC once
  created stays "created". It holds with redeliveries, failures and timeouts.
- `CountCorrect` and `UpIsBacked` (the run's `UpNeedsEverySegment`), assuming
  `Unrepeated`. `CountInv`: in every copy the count is at most the number of
  recorded EVCs, an answer in flight is in no copy, and a copy that says UP has
  recorded the whole breakdown. So stale copies, however written over each other,
  cannot bring a connection up early. Its part `Planned`, that a breakdown has every
  segment that was posted, needs no assumption (`PlannedCorrect`).
- `NoResurrectionCorrect`, assuming `Undisturbed`: only POST, of a connection that is not
  there yet, inserts a document; the LC thread updates fields, which finds none to
  update. The invariant is that nobody is about to replace a document (`Quiet`).
  `DocumentInv`, from which what follows starts, adds that a POST that has sent nothing
  has nothing on the wire (`UnsentIsClean`), and that no document marked deleted is beside
  a visible one (`OneDocument`), of which an update would find the wrong one.
- `LifecycleCorrect`, the refinement, assuming `Undisturbed` and `RejectsEarly`: the
  initial states map to the initial state of `ConnectionLifecycle`, and each action,
  by a lemma of its own, to one of its steps or a stutter. The LC thread checks a move
  on its copy and writes it later; `LifeInv` says that the copy is at most one move
  ahead of the document (`CopyFollows`) and that the document's status is what POST's
  place in the code allows (`StatusFollows`), so that what is written is a step from
  what is there.
- `UpIsOperationalCorrect` and `ReservationFollowsCorrect`, assuming `Undisturbed` and
  `Unrepeated`. `OperationalInv`: a planned connection keeps its breakdown, its
  resources and its EVCs until a DELETE is at work or an OXP has refused one (`Kept`).
  That a refused connection is not up comes from `CountInv`: the EVC that was refused
  is in the breakdown and not among the recorded ones.
- `CleanupCompleteCorrect`, assuming `OnlyRefusals`, with any number of redeliveries. A
  partial cleanup is recorded in one step and prepared in several, each on a copy:
  `CleanupInv` names, for every EVC that is up, who will see to it (`Reached`): its delete
  is in flight, its answer is, the LC thread is at it, or the document records it and the
  cleanup is yet to come. `LateInv` says that a domain noted in `late_cleanup_domains`
  has its delete, so a repeated answer may be passed over; `Whole` that, with no refusal,
  an answer always moves the status, so that an answer never leaves without saving its EVC.

**Heartbeat**, all without assumptions: any order of messages, any number of domains and
restarts. `ListedCorrect`: `ListedInv` adds the same for the monitor's copy.
`UnknownCorrect`: `UnknownInv` adds that the monitor's copy says UNKNOWN only of domains
it has marked or that were UNKNOWN at the start, and that the lock keeps heartbeats off
between its read and its write. `ReviveCorrect` (an action property) says what may take
UNKNOWN back: the domain's own heartbeat, or the first topology of another domain, with
which the LC thread stores a dict that has none of the monitor's marks. So it does not
exclude that write, which holds no lock, but says that it is the only one of its kind;
that the monitor's own stale copy is not another is the point of `ReviveInv`: of a domain
that has not been heard, no copy the monitor is about to write says less than the
document does. `StoreFollowsCorrect`: `FollowInv` says what the monitor's copy may
differ in from the document, for the domains that are not `overwritten`.

**Recovery.** `IndexFollowsPathCorrect`: `IndexInv` adds that a connection about to be
placed has been removed, since the links of the old path leave the index by the *stored*
solution, which the next placement overwrites. The other three assume `OnlyUpFails` and
rest on the index. For `UpIsBackedCorrect`, `BackedInv` divides the connections in three:
one that is removed (`Gone`), one an OXP has refused (`TakenDown`), and one that is
`Held`: of each segment at most one create or answer is under way, of the last placement,
while the deletes under way are of older ones, and what the document counts is the
segments it has the current EVC of. So UP, all counted, means that
no answer is under way, which makes it safe to remove. `UpAvoidsLostCorrect`: a
connection on a lost link is on the LC thread's list. `UpHasPortsCorrect`: `PortsInv`
says that a connection that is up, or on its way, had each of its UNI ports up in the last
topology that was handled, and that one on the LC thread's list is placed, so that what
was found down stays down when it is placed again. It excuses a port that came up while
another was down (`oneEnd`), which `VUpHasBothPorts` shows.

**Patch.** `NothingLostCorrect`. `LostInv`: the document is missing only while HTTP is
about to write it; `remove` is reached with the new request only; and, unless publishing
has raised, MODIFYING is in the document or in the LC thread's copy only between the
removal and the new document. That the LC thread does not carry it past that point rests
on the sleep: unless it ends while the LC thread holds a copy (`stuck`), there is none when
PATCH writes. Answers that are still under way (`hasty`) do not disturb it. Every other step
of the LC thread is `Steady`.

`UpMatchesRequestCorrect` and `NoDoubleProvisionCorrect`, assuming `OnlyUpModifies`, for
any number of PATCHes and any plans, while none of the weaknesses they excuse has
struck. `MatchInv` says that the connection is then in one of five modes:
served (`Serving`), removed by PATCH (`Removed`), being placed by PATCH (`PatchPlaces`)
or by the LC thread's rollback (`LcPlaces`), or left with a request nobody could place
(`Ended`). In all but the first, no create and no answer to one is under way and every
EVC has its delete (`Cleared`), so a placement starts from nothing. While it is served,
the newer of two copies, the LC thread's or the stored one (`Doc`), records the EVCs of
the current placement only, and each EVC that exists is recorded in it, still to be
answered, or about to be deleted (`Followed`); the stored copy is behind, but says UP only
if the newer one does (`Coherent`). The rollback is where two threads meet. The LC thread
starts it when every segment has answered, and `OwnAnswers` makes that count mean what it
should: while a PATCH can still be rolled back, `oxp_response` holds no answer to a delete
of the placement before. That the two threads do not both roll back is `WaitsFor`: what
PATCH waits for either can still be rolled back by the LC thread or has been.

`PatchSticksCorrect`, without assumptions. It excuses a lost link and a
sleep that was too short (`stuck`, `hasty`), and nothing else: a
PATCH answered "up" is up also if, before or meanwhile, publishing has raised, a wait has
expired or both threads have rolled back, so `MatchInv` is of no use. `SticksInv` needs
nothing of the past instead. When PATCH stores its request and the sleep sufficed, nothing
is under way (`ResetQuiet`), whatever else had struck, so that the count starts from nothing.
From then on, until a create of this placement fails, the newer copy of the document
counts the segments whose EVC it records (`Counts`), and as long as every segment is
recorded or still awaited (`Promising`) nothing is deleted and what has been answered is
there. An answer that is lost, or whose handling raises, breaks `Promising`, and leaves the
count short for ever. A create that fails sets `partial`, after which nothing is counted;
and once the LC thread is `Undoing` the PATCH, or it is `Undone`, an UP is the old
request's, and `performed` has PATCH answer "undone". After "up" nobody places the connection again
without a request of its user (`NoneAgain`), which is what a lost link breaks.

`TransactionCorrect`, the refinement, assuming `OnlyUpModifies`: each step of the two
threads and of the OXPs, by a lemma of its own or shared by a few, is one of
`PatchTransaction` or a stutter. It rests on `MatchInv`, `LostInv` and on `AgreedInv`, of
which the point is that the two threads agree on the request to go back to, though each
goes by its own copy of it: while the document can be rolled back it is of the last
PATCH and its `rollback_request` is of an earlier one (`ReqKept`), which is also what the
copy HTTP waits with says (`HttpBack`) and what the LC thread's says (`LcBack`); and once
rolled back, `performed` says so and the request is not that of the last PATCH. That a
transaction once committed is not taken back by an older copy is `Coherent`: what the LC
thread writes over an UP is UP, and MODIFYING it writes only during a removal (`LostInv`).

**Restart.** `NothingInventedCorrect`: what is stored, latest, base or in use of a domain
is vouched for, also across a crash between any two of them. `NoSharedVlanCorrect`,
`UpIsHeldCorrect` and `BothEndsShownCorrect` follow from one invariant, `HeldOnce` with
`Documented`: of the connections already reloaded the table holds what their breakdowns
say, and two that are up are apart, by their *breakdowns*; so reloading one never takes a
VLAN from another. `Documented` is needed for the empty register: a controller that finds
no domain listed loads nothing, and need not, since nothing can have been placed; and for
the status query, which shows the ends of the breakdown of what is up (`PathAssumption`:
the requested ports are on the path).

**Bapm.** `AccountCorrect`: what was published is acked, nacked or a delivery, and the
deliveries contain what the broker has not confirmed; they are exactly that until it
confirms several at once, since from then on the list keeps numbers that are settled. `KeptOnceCorrect`: `Numbered`
says that a number is used once; `KeptInv`, until one is refused or the server restarted,
that the next index id is a free one, that no measurement is in two places, and that one
the consumer has taken but not acknowledged is in neither queue of a consumer whose
connection is open, so that what the broker gives again after a lost connection is the
only case left.

Only model-checked is liveness (`ProvisioningEnds`, `PartialIsCleaned`,
`LcKeepsServing`, `SilenceIsNoticed`, `RecoveryEnds`, `NoOrphans`, `PatchSettles`,
`ServesAgain`, `MeasurementsArrive`), which is beyond this prover, as is ENABLED,
induction over data and recursive operators (the modules have none).

## 5. Not modelled

- The PCE, the solver, RabbitMQ, MongoDB, Elasticsearch and the local controllers
  are outside `src/`: what the code relies on is in the actions marked external.
- A message lost between its acknowledgement and its processing
  (`rpc_queue_consumer.py:174`): it is an answer that never comes, which the safety
  runs allow, and no run combines answers with crashes. A crash in the middle of a
  PATCH, which loses the connection.
- Two threads writing the port and link indexes at once (each is one JSON blob):
  `Recovery` has one writer.
- A connection whose two ports are on one switch (`connection_handler.py:450-493`) is
  placed on a branch of its own: no path and no solution, one port is listed, and a publish
  that raises leaves its breakdown. The modules have the general branch only, of which
  such a connection is the case of one segment and no links, but for these differences.
- In `Restart` a breakdown has one VLAN for all its ends, where the code has one for each
  (the PCE finds a VLAN free on the whole path), and POST and DELETE are a step each, so
  that no crash falls inside one; a crash there leaves a document that `Provisioning`'s
  failing publishes also leave, but no run reloads it.
- The timeout monitor together with PATCH or a recovery. PATCH does not reset
  `provisioning_started_at` and recovery does; the monitor is modelled with POST.
- `TopicQueueProducer`'s keep-alive thread: what pika does when two threads share a
  connection is not defined, and no state of this repository depends on it.
- The wire format of messages, the ports and VLANs of a request (`ConnectionView`
  apart), logs, user accounts, generated models and stubs.
