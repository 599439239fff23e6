# SentinelCommerce: TLA+ models

Models, model-checking runs and machine-checked proofs for the event-driven
parts of SentinelCommerce: the cart, the listing and the low-stock pipeline, the
per-client rate limit of the request authorizer, the security group watchdog,
the orders on MySQL with Act 1 around them, and the vendored PyMySQL driver:
login, connection, cursors, statements. Paths are relative to the repository
root.

    tlc -config pipeline.cfg MCLowStockPipeline     # check one run
    tlapm PipelineProofs.tla                        # check the proofs of a module

`PROJECT.json` lists the runs, the definition-to-source map, the hazards and the
theorems. For each property it also names a *slip*: a variant of one definition,
kept next to it in the module, that a plausible mistake in the code would amount
to and that makes the property fail.

## The system

| part | code | state | operations |
|---|---|---|---|
| single table | `stacks/data_stack.py` | product stock, cart lines, rate counters; a stream of old and new images | put, atomic update, delete, scan |
| `update_cart` | `lambda/inventory/handler.py` | none of its own | put the cart line, then decrement the stock |
| `get_inventory` | same | none | read one product, or scan for all |
| event source mapping | `stacks/compute_stack.py` | position in the stream, batch, attempt | poll, invoke, retry, give up |
| `stream_processor` | `lambda/stream_processor/handler.py` | threshold and position of one invocation | read the threshold, walk the batch, publish |
| threshold | `stacks/governance_stack.py` | one SSM parameter | changed live by an operator |
| authorizer | `lambda/authorizer/handler.py` | window and count of one invocation | match signatures, count, allow or deny |
| watchdog | `lambda/sg_watchdog/handler.py` | rules seen by one invocation | describe, revoke, publish |
| `create_order`, `get_reports` | `lambda/create_order`, `lambda/get_reports` | one MySQL connection | connect, create table, insert, commit; aggregate |
| database | `stacks/data_stack.py`, `scripts/demo.sh` | RDS instance and a read replica | replicate, promote (Act 1) |
| PyMySQL: login | `layers/pymysql`: `connections.py`, `_auth.py` | plugin, scramble, cached public key | greet, TLS, respond, switch plugin, exchange |
| PyMySQL: session | `connections.py`, `cursors.py` | socket, packet number, server status, current result, one per cursor | connect, ping, commands, queries, fetches, close |
| PyMySQL: values | `protocol.py`, `converters.py`, `cursors.py` | the statement being put together, rows fetched | frame, quote, batch, decode, fetch |
| scripts | `scripts/` | none | seed products, reset the demo, run the acts, print checks |
| stacks, dashboard, budget | `app.py`, `stacks/` | none at run time | declare the resources |

How they interact. `update_cart`, `seed_data.py`, `demo.sh reset` and the
authorizer write to one table. Each write that changes an item becomes a record
of the stream; the mapping takes consecutive records as a batch and invokes
`stream_processor`, which publishes to SNS. The threshold is shared through SSM.
The authorizer runs before every API function; EventBridge starts the watchdog,
people start it too, and people edit the same security group.

What is hard. `update_cart` is two writes with nothing around them. The mapping
retries a whole batch whose first half may already be published, with a
threshold that may have moved, and gives it up after three attempts. Rate counters are
updated by overlapping invocations that read the clock first and answer later,
that let requests through when the table fails, whose updates the SDK may send
twice, and that a reset deletes under them. The watchdog acts on rules that
others may have removed or opened again, and its failure half way is retried
from the start. For orders: a commit whose answer is lost, a retried checkout
under a fresh id, and a promotion that loses what was not replicated. In the
driver one connection carries every command: a result left half read, a row that
cannot be decoded, an error in the middle or a reconnect must not let the next
command read what belongs to an earlier one, or wait for what will not come.

What makes each part correct:

* cart: stock and lines agree up to requests in flight or cut short;
* pipeline: no crossing is passed over, one alert per shortage, bounded repeats,
  the last message is the newest, the consumer never stops;
* rate limit: no slot twice, the limit per counter, nobody denied for another
  client, a bound over any stretch of time;
* watchdog: only what opens port 22 to the world is removed, a range of ports that
  does is removed in the end (and, the code's promise, any such rule), each removal
  is announced at most once (and, again the promise, at least once);
* orders: a 201 means stored, an order is stored without one only when a commit
  or its answer was lost, reports contain what was answered and, after Act 1,
  lack only what had not reached the replica or was ordered after the promotion;
* listing: a product is left out only for a full page of other items;
* login: driver and server are logged in together or not at all, never wait for
  each other, and the right password gets in unless a listed reason stands against it;
* session: replies match commands, nothing is waited for that will not come, the
  autocommit mode agreed on is kept (with two exceptions, below), every call returns;
* values: what `executemany` is given arrives and comes back, once and in order;
  rows are not taken for end or error packets.

## Modules

| module | stands for |
|---|---|
| `InventoryTable` | the table through its stream: `stock`, `log`, one operator per kind of write |
| `Cart` | `update_cart` on `InventoryTable`: `AddLine`, `Decrement`, `Abandon` |
| `StreamProcessor` | mapping and handler: `Poll`, `ReadThreshold`, `Skip`, `Publish`, `SendUnanswered`, `Return`, `Fail`, `PublishAndFail` |
| `LowStockPipeline` | both composed, with seeding, reset, the authorizer's records and the live threshold; the pipeline's properties |
| `AlertContract` | abstract specification: what a subscriber is promised |
| `RateLimiter` | `_rate_exceeded` and the answer, per overlapping invocation, with a clock |
| `Watchdog` | the watchdog's handler per overlapping invocation, its retries, rules edited by hand |
| `Orders` | `create_order` per overlapping invocation, call by call, and `get_reports`, on the MySQL instance |
| `InventoryListing` | `get_inventory` beside `Cart`: one lookup, or a scan key by key that ends with its first page |
| `DisasterRecovery` | Act 1 around `Orders`: replica, loss of the primary, promotion, `get_reports` repointed |
| `Login` | greeting, TLS, handshake response, plugin switch and the exchange of each kind of plugin |
| `Session` | one connection after the login, packet by packet: commands, results, cursors, `ping`, `close` |
| `Driver` | `Login` and `Session` composed: every dial of a connect or reconnect is a login |
| `Wire` | frames of a packet, length-encoded columns, telling rows from end and error packets |
| `Literals` | quoting of strings, durations written and read |
| `Statements` | `executemany` on `Wire` and `Literals`, the server's INSERT, a SELECT and a buffered cursor |
| `Conversions` | one duration or one row there and back |
| `FoldTheorems` | lemmas on sums and on the functions behind folds |
| `CartProofs`, `PipelineProofs`, `RateLimiterProofs`, `WatchdogProofs`, `OrdersProofs`, `DriverProofs`, `CodecProofs` | theorems and proofs of the components, with what is composed around them |
| `MCCart`, `MCLowStockPipeline`, `MCRateLimiter`, `MCWatchdog`, `MCRecovery`, `MCDriver`, `MCCodec` | constants for TLC |

`LowStockPipeline` composes `Cart` and `StreamProcessor` over `InventoryTable`,
`InventoryListing` extends `Cart`, `DisasterRecovery` extends `Orders`, `Driver`
extends `Session` and `Login`. Each extended specification keeps its actions as
they are; the composition adds what others do and what stays the same.

### Cart and table

A cart line is `cart[<<cart, sku>>]`, a product `stock[sku]`. `put_item` and
`update_item` are one step each, because DynamoDB applies each atomically to one
item. `pending[w]` is an invocation between its two writes. `Abandon` covers a
timeout and an `update_item` that raises; both leave the line. A put that fails
changes nothing, and a lost answer leaves the state of a success, so neither is
an action; a client's repeated request is one more `AddLine`. A write that leaves an
item as it was appends no record, as DynamoDB streams do.

Quantities are not validated by the code, and `Qtys` may hold any integer;
`CartLinesBacked` says what it claims only for quantities of at least 1. Stock
may go below zero, as in the code: no document promises that it does not.

### Pipeline

`log` is everything ever written to the stream, and `settled` what the mapping
is past: one verdict per record, the threshold it was judged with or `Dropped`.
So `checkpoint == Len(settled)`. An invocation is `thr`, the threshold it read
(one SSM call per invocation, `handler.py:36`), and `pos`. A failure at any point
is `Fail`, one after a publish `PublishAndFail`; both restart the whole batch,
or give it up when `attempt = MaxAttempts` (`retry_attempts=2` is three
attempts). One shard is modelled: all records of one item are in one shard, and
per item the stream is in order. Of a record only its key and the two stocks
are kept; the keys of cart lines and rate counters are one value, `Other`,
because the handler treats them alike. Within one `sns.publish` botocore sends the
request again when no answer or a server error comes back: `SendUnanswered` is a
copy the topic took without an answer, `MaxSends` the requests for one call (5 in
botocore's default mode, so a subscriber sees one record at most 15 times; copies
that are sent again for one call tell the same). The stream's 24 hours of
retention are not modelled: three attempts end long before.

### Rate limiter

`cnt` holds the counters by `<<ip, window>>`. `ReadClock` fixes the window,
`Count` is the atomic `ADD`, and the answer is `Allow`, `Deny` or
`AllowUncounted`, each a step of its own, so that others come between. `FailOpen`
is the `except` branch, whether or not the update was applied; `Resend` an
update the SDK repeats after losing the answer; `Die` an invocation cut off.
`Clear` is `demo.sh reset`; a counter deleted and counted again begins another
*life*, and the limit can only hold per life. `Tick` never passes the 5 s
timeout of a running invocation. Requests denied by a signature are never
counted and are left out.

### Watchdog

A rule is one source of one protocol and port range. `Listed` groups the rules as
EC2 does: one permission for each protocol and port range, with all its sources.
`Suspect` and `Offending` are `_offending_permissions`: which permissions it picks,
and the narrowing of each to its open sources (the slip `OffendingWhole` leaves it
out, and takes a restricted source along). `Named` are the rules a revocation of
permissions takes away. What is right is stated apart from the handler:
`OpensPort22` says which rules let the world in on port 22. A rule for all traffic
does; it has no ports, and the handler passes it over (`from_p is None`): see the
violated run `all_traffic`. A publish that botocore sends again counts as one
announcement here; what resends do to a subscriber is in the pipeline's model.
External assumptions: one revocation is atomic, and for a group outside a default
VPC EC2 refuses it as a whole with `InvalidPermission.NotFound` when a rule is
missing; describing shows the rules of that moment; a rule is not added where
it already is. A failed asynchronous invocation is run again twice by Lambda,
one started by hand is not.

### Orders

`inv[w]` is an invocation of `create_order`: the call it is in (`After` is the
order of the calls in the handler), its order and what its transaction holds.
`rows` are the orders committed. An `order_id` is drawn per request, so an order
is its checkout and the number of the request for it; a client that repeats a
checkout makes another order, in the code and in the model. `BreakOff` is a call
that fails, before or after it took effect, and a COMMIT that is still under way
(`late`) when the client gives up; `Answer500` is the `except` branch after it,
`Kill` Lambda's timeout or a crash, after which nothing is answered. From
`conn.close()` on nothing can fail any more (PyMySQL swallows its errors), but an
invocation can still be killed. `Read` is the one SELECT of `get_reports` on a
connection of its own; its grouping and sums are left out. External assumptions
on MySQL: autocommit is off (PyMySQL's default), CREATE TABLE commits implicitly
and is atomic, COMMIT is durable, a dropped connection is rolled back.

### Listing

`Scan` is `table.scan` without a key condition: `Visit` reads the next key in any
order, into the page and, for a product, into the list (the filter comes after
the read), and `PageEnd` ends the answer when the page is full or all keys were
seen: the handler does not follow `LastEvaluatedKey`. Reads are eventually
consistent, so a read returns any version the item ever had; `before` are the
products stored long enough ago for every read to find them. `Lookup` is
`get_item`. A page is counted in items rather than bytes. The authorizer's rate
counters share the table: `Counters` are their keys, each of which may be stored or
not at any moment and then takes room in the page.

### Act 1

`binlog` is the sequence of committed states of the primary, `copied` where the
replica is; `Replicate` brings the next state, with any delay. `Lose` takes
the primary away, `Promote` ends the replication for good, whether or not the
primary is lost, and `Repoint` changes `reader`, which is `DB_READER_ENDPOINT`.
`get_reports` reads it when its container starts (`host[r]`), `create_order`
never does: both functions keep running on whatever they have. RDS itself is external.
`rows` stays what was committed when the primary is lost: `CreatedIsStored` is about
what the primary took, and what is lost with it is in `ReportGapsExplained`, whose
reports read the promoted copy.

### Login

`attempt` holds what differs from one login to the next: whether TLS is used, to
be had or not required, the plugin announced and that of the account, the
password, whether `cryptography` is installed, the public key at hand and whether
the server has the account cached. `phase` is where `_request_authentication` and
the functions of `_auth.py` are, `server` the other end, and the two sequences
are messages under way. `native` stands for `mysql_native_password` and for the clear password,
which are answered once. `ed25519` is answered if `pynacl` is installed and raises
otherwise (`_auth.py:59-68`). For `mysql_old_password` there is a branch, but
`_auth.scramble_old_password`, which it calls (`connections.py:1055`), does not exist, so
the login fails whatever the password (`old`). Connections by unix socket, which the
driver takes for secure, are left out: `Secure` is TLS.
The hashes are ideal: a scramble of the right password convinces, no other does;
what was encrypted with an old key cannot be read. A server that offers TLS to a
connection goes on offering it.

### Session

`call` is the one call the application is in (a connection is not shared between
threads): its `pc`, and the commands it has still to send. `wire` holds the
packets sent and not read; each has a kind, a number modulo `SeqMod`, and `mine`,
a history mark that says if it answers the latest command. A read takes a packet
that has the number `_next_seq_id`; `Broken` is one that finds another number or
the connection lost, and closes the socket. `Garbled` is a packet of a kind the
reader in turn does not expect, `ErrorPacket` one that raises the server's
error; both leave the connection open, but for inside `connect()`. `BadRow` is a
row whose decoding raises in the middle of a result: the rest of the reply stays on the wire and `self._result` is not what
is being read. `result`, `holder` and `told` are `self._result`, the cursor it
belongs to and what the application knows of its `SSCursor`. `Finish` is
`_finish_unbuffered_query`, before every command; `Leave` a call that raises.
`SendFile` is LOAD DATA LOCAL. Result sets are column definitions (one packet
here), rows and an end or an error, and a query may have two. The
server is external and does what the protocol asks: one reply for each command.

The connection may be lost at any moment (`LinkLost`), ends the session and takes any
suffix of what was sent with it. Two things are told apart by history variables: `muddled` marks
histories where the packets left behind by an unreadable row could carry the
numbers of the next reply, which `_read_packet` cannot notice, and `stale` ones
where a reconnect found an unfinished result of the connection before.

The autocommit mode. A statement answered by an OK, and one that fails after it
changed the mode (a procedure), may leave either mode (`ModesAfter`); each OK tells the mode
at its own statement (`Flags`), an EOF's flags are not used, an error has none. So the flags the
client holds may be out of date, and `autocommit()`, which compares with them
(`connections.py:462-466`), then sends nothing. Two histories do that, and
`AutocommitKept` and `StatusFresh` except exactly them:

1. `SELECT 1; SET autocommit=1` with the second result unread, then
   `autocommit(False)`: the flags still say False, nothing is sent, and the server
   stays in autocommit mode (`wire # <<>>` in `SkipAgreed`);
2. a `CALL` whose procedure sets autocommit and then raises: only the error arrives,
   and the change shows with the next OK (`hidden`).

No document or comment of the repository says otherwise of either, so there is no
run that refutes one; both are in the model, as steps after which nothing is agreed on.

### Values

`Wire.Frames` is `write_packet`'s splitting, `ReadPacket` the joining of
`_read_packet_from`; `Row`, `IsEof` and `IsError` the columns and tests of
`protocol.py`. `Statements` batches rows as `_do_execute_many` does, with the
lengths that decide when a batch ends (`max_stmt_length`, prefix and postfix
counted in tokens), and gives the rows to a server that parses the literals by
MySQL's rules, with or without `NO_BACKSLASH_ESCAPES`. Strings are made of the four
kinds of characters that quoting tells apart. `Conversions` follows one
`timedelta` into a TIME column and back, and one row of two columns at the
length boundaries. A TIME column reaches to 838:59:59 (`MaxTime`); what is beyond is
refused or cut to that, as `sql_mode` has it, so the three digits of `TIMEDELTA_RE` are enough. `DurationsReturn`
speaks of the durations a column can hold, not negative or of whole hours. Of a
negative duration of part hours nothing is asserted: `escape_timedelta`
(`converters.py:98-106`) writes the sign on the hours alone, so that -00:30:00 is
stored as -01:30:00. Client and server share the setting `backslashes`: that the client's flag is
out of date, and an `executemany` of which one batch fails, are not covered.

## Runs

| run | question | result |
|---|---|---|
| `cart` | two invocations, two carts sharing a product, quantities 1 and 2, 5 records, listings with pages of 2 items, a rate counter | `CartTypeOK`, `CartLinesBacked`, `StockAccounted`, `ListingCompletePage` hold |
| `pipeline` | all writers, two thresholds, batches of 3, 2 attempts, 2 requests per publish, 3 records; refinement of `AlertContract` and progress | `TypeOK`, `NoCrossingSkipped`, `LowStockIsReported`, `OneAlertPerShortage`, `AlertsRepeatBounded`, `LastAlertIsNewest`, `ImplementsContract`, `EveryRecordSettled` hold |
| `every_crossing` | "on every crossing an alert" | violated: a batch given up after three failures takes its crossings along |
| `limiter` | one client, two invocations, limit 1, 2 updates per counter, resends and a reset, 7 ticks of windows of 3 | `TypeOK`, `SlotsUnique`, `AllowedPerWindow`, `DenyJustified`, `SlidingBound` hold |
| `ttl` | do counters expire? | violated: nothing deletes them |
| `watchdog` | a scheduled and a manual invocation, four rules (two of one permission, one open and one not; a UDP range; all traffic), those it removes added up to twice, a failure, 2 attempts | `TypeOK`, `AlertsTruthful`, `OthersKept`, `OpenRangesRevoked` hold |
| `all_traffic` | "any inbound rule" for port 22 is revoked | violated: a rule for all traffic has no port and stays |
| `announced` | is every removal announced? | violated: a failure after the revocation loses the alert |
| `recovery` | two overlapping invocations, three requests for one checkout, one report at a time, a failure or kill in every call, Act 1 at any moment | `RecoveryTypeOK`, `CreatedIsStored`, `StoredIsAccountedFor`, `ReportGapsExplained` hold |
| `driver` | a login with every setting, then a buffered and an unbuffered cursor with every call in any order, errors, unreadable rows, losses, reconnects; 1 row, 2 statements, packet numbers modulo 5 | `SessionTypeOK`, `RepliesMatched`, `WaitsOnlyForAnswers`, `UnreadIsKnown`, `StatusFresh`, `AutocommitKept`, `LoggedInTogether`, `SomebodyTalks`, `RightPasswordGetsIn`, `CallsReturn` hold |
| `reconnect` | does `ping` reconnect and go on? | violated: it can wait for ever on the new connection |
| `codec` | up to 3 rows of up to 2 characters, statements of 16 tokens, frames of 3 bytes, frame numbers modulo 3; durations and rows one at a time | `RowsArrive`, `RowsHandedOut`, `DurationsReturn`, `RowsReturn` hold |

Why the bounds are enough. Every interesting pattern of the pipeline needs one
product: a crossing, a restock and a second crossing are three records, so a
stream of 3 with batches of up to 3 holds them in one batch and split over two;
a partly published batch with a moved threshold needs two attempts. Thresholds 3
and 5, stocks 6 and 4 and a quantity of 3 put stock above, between and below
both thresholds. For the limiter two invocations give every pairwise
interleaving, and a limit of 1 the first excess; the ticks let late
answers of one window, a whole next one and the start of a third fall into one
stretch: the factor of 3 in `SlidingBound` is tight, 2 fails. That clients do not
disturb each other is proved for any number of them. The watchdog's races need
two invocations that saw the same rule, and one opened again between their calls.
Orders of different checkouts differ in nothing the code looks at, so one
checkout with three requests, two of them in flight together, has every
interleaving that two invocations can have; the report runs beside them, and
Act 1 happens once. A page of two items is less than one product and two
lines. For the driver one row is a row and the next packet, two statements leave
a command that follows an error, and modulo 5 packet numbers come round within
two results. Frames of 3 bytes and numbers modulo 3 make a statement of 16 tokens
take several frames, fill the last one exactly and come round; a batch ends after
one row or two.
The proofs cover what the bounds leave out for the properties they name.

`MaxLog`, `MaxRequests`, `MaxTime`, `MaxSent`, `MaxClears`, `MaxOpened`,
`MaxFaults`, `MaxRows`, `MaxBatch`, `MaxLength` and `MaxFetches` bound counters that
the code does not; they appear only in guards and in the sets inputs are taken
from. `Settings` names the settings of the logins after the first. Deadlock
checking is off where a bound stops every writer (cart, pipeline, limiter and
codec runs), and on for the watchdog, the orders and the driver, where somebody
can always ask again.

Fairness. `WF_vars(Consume)`: Lambda keeps polling the stream and finishes or
kills each invocation; nobody is obliged to shop or to tune. `Progress` of each
authorizer invocation and `Tick` are weakly fair for the same reason. The
watchdog's `Work` is weakly fair per invocation and `Start` per scheduled one,
because the rule fires every five minutes. `GoingOn` of the driver is weakly
fair: the driver runs its own code and the server answers what it was sent; that
calls come, that a connection is lost, or that a lost one is noticed otherwise
than by a read, is not assumed. No success is assumed: a call may
fail as often as the model allows, and in `pipeline` and `driver` without bound.
`OpenRangesRevoked` needs failures to stop, hence `MaxFaults`.

The refinement. `LowStockPipeline` instantiates `AlertContract` (`INSTANCE ...
WITH`) with its own `log`, `alerts` and `settled`: batches, attempts, the cached
threshold and partial publishes are hidden. TLC checks the whole contract
(`ImplementsContract`, safety and progress), TLAPS the safety half for every
instance.

## What the violated runs say

* `every_crossing`: `lambda/stream_processor/handler.py:3-5` promises an alert on every
  crossing; the mapping has three attempts and no failure destination.
* `ttl`: `lambda/authorizer/handler.py:10-11` says counters self-expire; `expireAt` is
  written but the table declares no TTL attribute.
* `all_traffic`: `lambda/sg_watchdog/handler.py:10-11` says any inbound rule that
  allows the world on port 22 is removed; a rule for all traffic has no `FromPort`, and
  line 43 passes over it.
* `announced`: `lambda/sg_watchdog/handler.py:9-13` says the fix is published; the retry after
  a failure between revoking and publishing finds nothing to announce.
* `reconnect`: `layers/pymysql/python/pymysql/connections.py:603` says of `ping` that it
  reconnects a closed connection. `connect()` keeps `self._result`. When the
  connection was lost with an unbuffered result half read, the first command on the new
  one finds it active, and `_execute_command` (line 867) reads for its rest: from a
  server that has nothing more to send.

Three more differences are visible without a run: `lambda/authorizer/handler.py:9` says 100
requests per window and `stacks/compute_stack.py:86` deploys 25; `_process_auth` names
`mysql_old_password` but cannot answer it; and the sign of negative durations, above.

## What is proved

All theorems hold for every value of the constants under the assumptions named in
the modules (for instance: `Absent` is no integer, batch size and attempts are
at least 1, the sets of carts and of watchdog and authorizer invocations are
finite, an authorizer invocation is shorter than a window, microseconds are
below a million, lengths of columns below 2^31).

* `FoldTheorems`: two properties add over a set. No rule of induction can be
  cited here, so the lemmas start from a least number (`LeastNumber`, from the
  well-foundedness of `<`): what a set inherits from its proper subsets holds
  of every subset of a finite set. From that the recursive function behind a fold
  exists, and `SumUnfolds`, `SumAgrees` and `SumGrows` say what a sum does when an
  index goes, when a function changes elsewhere and when one value grows.
* `CartProofs`: `CartTypeCorrect`, `LinesBacked` and `UnitsAccounted`. The backed-line
  invariant is not inductive: a decrement clears `pending[w]` and must leave
  `taken[l] >= cart[l]`, which needs that `taken` never shrinks and is never
  negative. `BackedInv` adds this to the types. `StockAccounted` is inductive
  given the types: a decrement takes from the stock what it adds to one `taken`.
  Then the listings beside it: the carts and the table behave as without them, hence `ListedLinesBacked` and `ListedUnitsAccounted`; and
  `CompletePage`: a product of `before` is still to be read, or listed, until the
  page ends.
* `PipelineProofs`: `TypeCorrect`, then
  - `CrossingsNotSkipped` and `PipelineImplementsContract`. `NoCrossingSkipped`
    only speaks of records behind the checkpoint, which moves in one step over a
    whole batch; `CoverInv` adds `AttemptCoversPrefix`: what the running
    invocation has stepped over is alerted, by it or an earlier attempt. From it
    each step of the pipeline is a step of `AlertContract` or leaves its
    variables alone;
  - `ShortagesAlertedOnce`. `StreamInv`: the old image of a
    record is the new one of the record before it of the same product, and the
    table holds the last. `JudgeInv`: every message is about a crossing in the
    batches handed out, and, as long as the threshold stays, was judged with it;
    as long as it only falls, with no less than what applies now. Two messages about
    a product then have a restocking between them, because the later crossing
    starts at or above the threshold;
  - `LowStockReported`. `ReportInv`: every low record settled, or stepped over by
    the running invocation, has a message that no record up to it outdated. A
    record that is stepped over without crossing was low before; its predecessor
    was judged with no less, so it was low for its own judge too, and reported;
  - `NewestAlertLast`. `LastInv`: a crossing settled or stepped over had the last
    word when it was, so messages after it are about later records;
  - `RepeatsBounded`. `RepeatInv` counts the messages about each record of the
    batch in hand: at most `MaxSends` for each earlier attempt, as many for this one
    once it is past the record, and `sends` for the record at hand.
* `RateLimiterProofs`: `TypeCorrect`, `NoSlotTwice`, `LimitHolds`,
  `DenialsJustified` and `StretchBounded`.
  `SlotsBelowCounter` says that every slot of the current life of a counter, in
  flight or granted, is at most its count, so the next one is fresh; `SlotInv`
  joins it with `SlotsUnique`. `PassedInv` says that as many requests passed in
  a life as slots of it were granted; the slots are distinct numbers in
  `1..RATE_LIMIT`, hence at most `RATE_LIMIT`. For a denial `SentInv`: a count, with the
  updates that invocations in flight may still apply, stays within the updates
  sent for its own counter. `SlidingBound` speaks of the times of the answers, and
  `AllowedPerWindow` of the windows of the counts. `TimelyInv` relates them: an
  invocation counts in the window it started in and answers at most `MaxDelay`
  later, which is less than a window (`TimeoutWithinWindow`: 5 s and 300 s). So
  `StretchInv`: what got through in any stretch of one window's length is at most
  what three neighbouring counters let through, each of them at most `RATE_LIMIT`.
* `WatchdogProofs`: `TypeCorrect`, `AlertsAreTruthful` and `OthersAreKept`.
  `AlertsTruthful` is inductive given the types: its sum counts removals
  announced, removals owed and the rule itself, and a step of an
  invocation moves one from the rule to the debt, or from the debt to the alerts.
  `OthersAreKept` rests on `FixesPort22`: what an invocation names in a revocation
  opens port 22, because grouping and narrowing keep each source with its own
  protocol and ports.
* `OrdersProofs`: `TypeCorrect`, `StoredAccountedFor`, `CreatedStored` and
  `ReportsFollow`. `InHand` says where an order is at each call: the transaction
  is empty until the insert, holds exactly the order before the commit, and the
  order is a row when the invocation closes. `ReportInv` carries what a report
  must contain from the question to the read; `OneAnswer` says that order
  numbers are fresh, so that no order has two answers.
  The same for `RecoverySpec` (`RecoveryTypeCorrect`, `RecoveryAccountedFor`,
  `RecoveryCreatedStored`): a step of Act 1 is a step of `Orders`, or a read of the
  copy, which touches neither orders nor answers, so the lemmas carry over.
  `GapsExplained` adds `LogTypeOK`: the states of the binary log only grow and the
  last one is the table, so what the copy holds is stored on the primary too.
* `DriverProofs`: `InTogether`, `NoSilence` and `RightGetsIn`. `InStep` lists what
  can be under way at each pair of places of driver and server: one message
  at most, or the two of the fast path. `KeyInv` says where a public key can come
  from, and `OnCourse` what is still to come of a login that has no reason to
  fail; both are kept by every reaction to every message.
  For the session, `SessionTypes`, `OwnReplies`, `NoVainWait`, `NothingBehind`,
  `ModeKnown` and `ModeAgreed`, for any number of rows, any modulus of packet
  numbers above 1, any cursors and any mixture of calls and failures. None of
  these properties is inductive: each speaks of one place of a call, and what
  it needs was settled calls before. `TypeInv` has the types, with the call in
  hand; `WireInv` says what the wire holds at each place: `ChannelInv`
  (nothing comes without a connection, no result is left where a reply is
  awaited), `ShapeInv` (columns and rows are followed by what may follow them,
  replies are whole unless the connection is lost, who waits has something to
  come), `OwnInv` (what an earlier command left comes before the reply to the
  latest, and carries a number that stops it from being read). The mode rests on
  `ModeInv`: the last OK on the wire tells the server's mode unless an error hid a
  change (`Tells`), a reply that ends in an OK ends in one that tells it (`EndsIn`),
  and where no OK is to come (`Silent`) the client's flags are the server's mode. Each step
  then takes the head off the wire or appends one reply, and the lemmas on `Shaped`,
  `Whole`, `Ordered`, `Single` and `Foreign` say what that leaves.

* `CodecProofs`: the values, for specifications with one use of the conversions
  each (`StatementSpec`, `ConversionSpec`), which the `codec` run puts side by side.
  The library's `FoldLeft`, `FoldRight` and `FlattenSeq` are recursive functions
  over sets of indices; the first lemmas give each as a step from one index to the
  next, and what holds of every index then follows by `Upwards`.
  `DurationsComeBack`: quotients and rests of hours, minutes and seconds are put
  together again (`Clock`), what the property names fits into a column (`HeldFits`),
  and `ConvertTimedelta` undoes `EscapeTimedelta` on it. `RowsComeBack`: a length is
  read back from its bytes (`LowBytes`, `HeadOfColumn`), and a first byte of 254
  is followed by too much for an EOF packet. `RowsAllArrive`: `Leads(x, s, y)`
  says that reading s takes the server from x to y; it composes over `\o`, so that
  each escaped character, literal, row, statement and packet is one lemma on top
  of the one before. `PacketReturns` says that the frames of a packet are joined to
  that packet and nothing is left, also if the last is exactly full. `ArriveInv`
  splits what the application gave in four, in order: stored, on the wire, in the
  statement in hand, still to come. `RowsAllHandedOut`: what was handed
  out since the last scroll is the prefix up to `rownumber`.

Only model-checked: all liveness (`EveryRecordSettled`, the progress half of
`ImplementsContract`, `OpenRangesRevoked`, `CallsReturn`), which is out of the
prover's reach.

## Not modelled

* Authorizer: signatures and the policy document, pure functions of one request;
  a request denied by a signature is not counted.
* `get_reports`: the grouping and sums of its SELECT.
* Driver, login: the `dialog` plugin, unix sockets, authentication handlers of the
  application, the hashes themselves; `sql_mode`, `init_command` and
  `autocommit_mode=None`, which send other or no commands on connect.
* Driver, session: warnings (`show_warnings`), the argument checks of each call.
* Driver, values: the conversions of the other types, one-liners over one value;
  character sets, error numbers and classes, module constants: data.
* CDK stacks beyond the values they give the models, dashboards, the budget, and
  the operator's checks: declarations and read-only scripts.

Left without a property, because no document, comment or test says what should
be true: stock below zero and unknown products (`lambda/inventory/handler.py:56`),
the counter that requests without an address share (`lambda/authorizer/handler.py:115`),
a repeated checkout stored under a second id (`lambda/create_order/handler.py:42`),
reports asked for before the first order, which fail
(`lambda/get_reports/handler.py:32`), and rows of an `SSCursor` that another
cursor's command consumed, so that the fetch that follows reports an end
(`connections.py:867`). All of these are behaviours of the models or, for the
shared counter, of one client in them.

## Plan

1. `Orders` on the driver: that connect, `execute`, `commit` and `close` of
   `create_order` are calls of `Session`, with its failures.
2. The rate limiter's counters as records of the stream, in one composition.
