# TLA+ models of the Pinpoint Go agent

This directory holds TLA+ models of the Go agent in `src/` and the TLC
configurations that check them. Each module's header comment says which code it
models. `PROJECT.json` maps every definition to the lines it translates, and
lists the runs, the mutants, the findings and the hazards.

## The system and its parts

The agent instruments a Go program in four steps:

1. A request handler is wrapped. `WrapHandleFunc`, the go-micro wrappers in
   `src/integrations/nrmicro` or the gRPC interceptors in
   `src/integrations/nrgrpc` start a *transaction* and put it in the request
   context.
2. The handler starts and ends *segments* on the transaction. It may hand
   linked child transactions (`NewGoroutine`) to goroutines.
3. `End` pushes the finished record into the harvest buffer.
4. A harvest loop swaps the buffer out and sends each record to the collector.
   `src/thrift/io/serializer.go` frames each record.

Trace context crosses processes in HTTP headers
(`src/pinpoint/cross_process_http.go`). The application is configured by a
chain of `ConfigOption`s (`src/pinpoint/config_options.go`).

Short programs end their transactions and then call `app.Shutdown(timeout)`,
which runs a final flush. Long-running programs defer `app.Shutdown` while
other goroutines keep ending transactions.

The transaction package, the harvest loop and `WrapHandleFunc` are not in
`src/`. Where a module needs them, they are modelled from `spec.md` and marked
`spec_modelled` in the map.

| Part | Source | Module | Status |
|---|---|---|---|
| Transaction / Segment API, harvest hand-off | (spec.md 3, 4.2, 4.4, 5) | `Transaction` | modelled from the spec |
| Example server handlers | `examples/server/main.go` | `AsyncServer` | partly (`ignore`, `roundtripper` left out) |
| Inbound / outbound trace headers | `pinpoint/cross_process_http.go` | `TraceIdCodec` | modelled (appData helpers unused) |
| Collector frame encoder | `thrift/io/serializer.go` | `WireFrame` | modelled |
| Harvest aggregator: buffer swap, flush, shutdown with timeout | (spec.md 4.4, 5, 6, 7) | `Harvest`, refining `HarvestQueue` | modelled from the spec |
| Configuration options, environment, YAML, labels | `pinpoint/config_options.go` | `ConfigOptions` | modelled |
| go-micro wrappers, gRPC interceptors | `integrations/nrmicro`, `integrations/nrgrpc` | `RpcWrappers` | modelled (`extractHost` unused) |
| MySQL DSN host/port | `integrations/nrmysql/nrmysql.go` | `MysqlDSN` | modelled |
| gRPC streaming example client | `integrations/nrgrpc/example/client/client.go` | `GrpcStreamClient` | modelled |
| go-micro pubsub example | `integrations/nrmicro/example/pubsub/main.go` | `PubSub` | modelled |
| Agent stats, logrus adapter, constants, tools, other examples | | | not modelled (see below) |

## Modules

**Transaction** (from the spec). State:

- `txn`: each handle's status, sequence id, parent span, segments and attributes;
- `seqCounter`: the process-wide atomic counter;
- `pending`: the harvest buffer;
- `delivered`: what the transport has received.

Each API call is one atomic step, because spec.md 4.2 puts every mutation of a
transaction under one mutex. A call on an ended transaction is a silent no-op
(spec.md 4.2, 9). `HarvestTick` is one swap-and-send.

**AsyncServer** (`examples/server/main.go`) composes Transaction with the
handlers. Every goroutine has a program counter:

- the request goroutine: `WrapStart`, the handler body, `WrapEnd`;
- the two goroutines of `async`, named `go1` and `go2`.

`wg` is the `sync.WaitGroup` counter. A negative value is the panic state and
is excluded by `TypeOK`. Go's `defer` runs in LIFO order, so `Go1` ends its
segment, then calls `wg.Done`, then ends its transaction, in that order. A
`defer txn.StartSegment(n).End()` starts the segment at the defer statement.
Each handler step is one action, named after the handler (`Async`, `Go1`,
`Go2`, `Segments`). Its disjuncts follow the statements of the handler.

`route` is the handler each request is routed to. It is chosen in `Init`
from the constant `Handlers` and never changes. Fairness is stated over
`stepVars`, the variables a step may change.

The smaller handlers are actions too:

- `SegmentHandler` covers `mysql`, `message` and `external`. Each starts one
  segment and ends it on every return path.
- `NoticeErrorHandler` covers `noticeError`.
- `Background` covers `/background`. It is registered without
  `WrapHandleFunc`, so it starts and ends its own transaction.
- `index`, `versionHandler` and `setName` change nothing the model keeps.
  Their requests go from `WrapStart` straight to `WrapEnd`.

**RpcWrappers** (`nrmicro.go`, `nrgrpc_server.go`) composes Transaction with
the RPC wrappers. Each inbound call has its own goroutine and program counter,
and each kind of call has one action:

- `HandlerWrapper`: go-micro handlers;
- `SubscriberWrapper`: go-micro subscribers;
- `ServerInterceptor`: the unary and stream gRPC interceptors, which share one
  control flow.

Each of these actions starts the transaction, defers `End`, runs the user
handler, records the outcome and then ends. The outcome is:

- for `HandlerWrapper`, the response code from the error type (200, the
  go-micro error's code, or 500);
- for `ServerInterceptor`, `int(status.Code(err))`;
- for `SubscriberWrapper`, `NoticeError` on failure, after the routing-key
  attribute is added.

The user handler is `ClientCall` (`Call`, `Stream`, `Publish`, `CallWrapper`)
followed by `HandlerReturns`. `ClientCall` starts a segment through
`startExternal` or `startMessage` and ends it by the deferred `seg.End()`.
A wrapper built with a nil `Application` passes the call through with no
transaction, and the client wrappers then get the zero segment.

**TraceIdCodec** (`cross_process_http.go`). Header values are abstract texts:

- empty;
- a name;
- a decimal with sign, leading zeros and magnitude;
- a decimal too large for int64.

A trace id is the sequence of its `"^"`-separated parts. `strconv.ParseInt`
and `Atoi` accept exactly the decimals, and `int16()` is two's-complement
truncation. `httpHeaderToMetadata` keeps every early return.
`metadataToHTTPHeader` returns the empty header, as the code does. One request
goes through `InboundHTTPRequest` and then `OutboundHTTPRequest`. `Init` ranges
over every header built from the configured texts.

**WireFrame** (`serializer.go`). Bytes are the integers 0..255. A uint32 is
kept as `<<hi16, lo16>>`, because TLC's integers are 32-bit signed.
`EncodeTstruct` and `EncodeTCPTTstuctRequest` are byte-exact. The Thrift
compact encoding of a struct is the constant `Body`, and `WriteFails` lists the
structs whose `Write` fails. `Send` models the harvest sender: it writes a
frame whole, or drops a record whose encoding fails (spec.md 7). The recursive
operator `DecodeStream` is the collector's reading of the byte stream, and it
is the reference.

**Harvest** (from spec.md 4.4, 5, 6 and 7) extends WireFrame with the
aggregator:

- `TxnEnd` pushes a record into `pending`;
- `Tick` swaps `pending` out into `batch` and starts a flush;
- `EncodeNext` sends the batch's head through WireFrame's `Send`;
- `FlushDone` returns to `Idle`;
- `Shutdown` swaps the buffer and starts the final flush;
- `ShutdownDone` stops and disables operations when the flush is done;
- `ShutdownTimeout` stops with the rest of the batch abandoned.

`log` is a history variable of every record pushed.

**HarvestQueue** is what the pipeline promises, stated over records: a FIFO
queue whose head is delivered or lost, and lost only when its encoding fails
or when the agent closes. `Harvest` implements it. `HQ == INSTANCE
HarvestQueue WITH ...` maps the following, and `HarvestRefinement == HQ!Spec`
is checked as a property:

- the queue to the batch followed by the buffer;
- the collector's output to `DecodeStream` of the connection's bytes;
- the lost records to the dropped, the abandoned and the records left in the
  buffer after operations are disabled.

**MysqlDSN** (`nrmysql.go`). An address is a sequence over five characters:
a host character, a port digit, `:`, `[` and `]`. `SplitHostPort` is a
translation of Go's `net.SplitHostPort`. `parseConfig` is the code's switch.
`ParseDSN` is `parseDSN`: it fills the segment unless `mysql.ParseDSN`
failed. `Parsed` is what `mysql.ParseDSN` can return. It is outside the
repository, and a TCP address always gets a port. The reference
`RefEndpoint` is a declarative grammar of `host:port` and `[host]:port`.

**GrpcStreamClient** (`nrgrpc/example/client/client.go`) extends Harvest with
the client's two goroutines and its peer:

- main defers `app.Shutdown` and `txn.End`, then runs `Dial`. A failed dial
  panics before `defer conn.Close()` is reached, and `registered` counts the
  defer statements executed. `OpenStream` is `DoStreamStream`, and an error
  there panics too. Then come `StreamSend` (the send loop), `CloseSend` and
  `WaitDone` (`<-waitc`), then the deferred calls. `RunDefer` runs them in
  `Defers` order, the reverse of the defer statements executed: `conn.Close`
  (if registered), `txn.End`, `app.Shutdown`. `ShutdownReturns` waits for the final flush to stop, and
  `MainReturns` returns.
- the receiver goroutine is `Recv`. It prints replies, closes `waitc` on EOF
  and panics on any other error.
- the peer is the sample server's echo (`Echo`), which is not in the
  repository. The stream may break once (`Break`). After a break, `Send`
  fails and main panics and unwinds through its defers, while the receiver's
  `Recv` panics and ends the process at once. `exit` records how the process
  ended.

**PubSub** (`nrmicro/example/pubsub/main.go`) extends Harvest with the
example's three actors:

- the publish goroutine: `PublishStart` (a tick and `StartTransaction`),
  `Publish` (through `nrWrapper.Publish`; an error is `log.Fatal`, which exits
  without running deferred calls) and `PublishEnd` (`txn.End`);
- the wrapped subscriber: `SubscriberStart` (`SubscriberWrapper` starts a
  transaction and calls `subEv`) and `SubscriberEnd` (the deferred `End`);
- main: `ServiceRun` (`s.Run` returns after a signal, or with an error that is
  `log.Fatal`), `DeferShutdown` and `MainReturns`, after which the process
  exits.

The broker is a count of undelivered messages. A delivery starts only while
`s.Run` runs. Segments and attributes are not tracked, because the pipeline
reads only the finished record.

**ConfigOptions** (`config_options.go`). `cfg` is the Config being built, and
each action applies one option:

- `ApplySetter`: the `ConfigX` setters;
- `ApplyEnvironment`: `configFromEnvironment` with an environment drawn from
  `Envs`;
- `ApplyYaml`: `configFromYaml`.

`configFromEnvironment` is the composition of the code's helpers, in the
code's order:

- `AssignBool`, `AssignInt`, `AssignString`;
- `AssignLabels`, which uses the recursive `LabelLoop` of `getLabels`;
- `AssignAttributes`, which replaces `Attributes.Include` or `.Exclude` by
  `strings.Split(env, ",")`, given by the table `CommaSplit` (a trailing
  comma leaves an empty part);
- `AssignLog`.

One field of each kind stands for the others that its setter or assign helper
writes the same way. `AppName` stands for `AgentID`, `Collector.IP`, `Host`
and `HostDisplayName`. `TCPPort` stands for `StatPort`, `SpanPort` and the
span-event queue size.

A YAML input records whether the read failed and whether the unmarshal failed.
It also records the fields yaml.v2 had decoded, because a `*TypeError` comes
after partial decoding. `last` is a history variable, the option just applied,
which the action properties use.

## Runs

| Run | Expect | What it shows |
|---|---|---|
| `async_server` | pass | 29k states. One `/async` request runs concurrently with a second request routed to any of the other handlers (`segments`, `mysql`, `message`, `external`, `noticeError`, `/background`, plain), and both interleave with their goroutines and with harvest ticks. The WaitGroup counter never goes negative (`TypeOK`). Every harvested record has all its segments closed (`HarvestedSegmentsClosed`). Nested segments end innermost first (`NestedEnd`). `wg.Wait` returns only after `async-block` has ended (`WaitGroupOrder`). Every started transaction is eventually delivered (`AllDelivered`, under weak fairness). |
| `wrappers` | pass | 141k states. Four concurrent calls interleave with harvest ticks: a go-micro handler with a client `Call`, a subscriber that publishes, a gRPC call, and a handler behind a nil-`Application` wrapper. Every finished record carries its call's outcome (`ResponseRecorded`) and has its client segments closed (`ClientSegmentsClosed`). Every started transaction is delivered (`AllDelivered`). |
| `codec_outbound` | violation | The header built for the next hop from a decoded context is empty, so the next hop decodes no context (`OutboundRoundTrip`). |
| `codec_empty_agent` | violation | `"^+7^+7"` is accepted with an empty agent id. |
| `codec_apptype_wrap` | violation | A papptype of 40000 is stored as -25536. |
| `harvest` | pass | 62k states. Producers end up to 3 records, chosen from all 12 wire messages: ids 0 and 0xFFFFFFFF, types 5 and 300, bodies of 1 and 300 bytes, and a struct whose encoding fails. They do so while timer flushes and shutdown run. The bytes decode into exactly the records sent (`StreamDecodes`). The pipeline implements `HarvestQueue` (`HarvestRefinement`). Every record ended before shutdown is eventually delivered or dropped (`ShutdownFlushes`). |
| `pubsub_strand` | violation | In the pubsub example, main returns from its deferred `app.Shutdown` while a transaction the publish goroutine ended during the final flush is neither delivered nor dropped (`EndedBeforeExitSettled`). |
| `mysql_dsn` | pass | Four networks and every address of up to 4 characters. The segment's host and `PortPathOrID` are the endpoint the grammar gives, including an IPv6 literal in brackets, an empty host read as localhost, and addresses `SplitHostPort` rejects (`SegmentNamesEndpoint`). |
| `grpc_stream_client` | pass | 471 states. The client always ends, whether the dial, the stream open or the stream fails or the stream completes (`Terminates`). Once main has run all its deferred calls, after a normal return or a panic of its own, its transaction was ended before the agent stopped and has been flushed or dropped (`MainTxnReported`). |
| `config` | pass | Any two options, over 901 inputs (43,449 states). An option changes only the fields its input supplies (`InputFrame`). An error is never lost (`ErrorNeverCleared`): after an option, Config.Error is set if an earlier option set it or if any input of this option was rejected, even when a later variable of the same environment is valid. Labels are at most 64, with keys and values of 1..255 runes (`LabelsBounded`). |
| `config_doc_env` | violation | `PINPOINT_DISTRIBUTED_TRACING_ENABLED=true` and `PINPOINT_LICENSE_KEY=key` are ignored (the same holds for an invalid `PINPOINT_UTILIZATION_LOGICAL_PROCESSORS`, whose assignment is also commented out). |
| `config_labels_strict` | violation | 64 good labels followed by a malformed entry give no error. |

Four further configurations are kept beside the runs:

- `MCTraceIdCodec.cfg`: every header decoded and forwarded once, with no
  property (583k states); the codec's properties are checked by the
  `MCTraceIdCodec_*.cfg` runs.

- `MCHarvest_strand.cfg`: `EverySettles`, the shutdown gap for any producer.
  It is violated. `pubsub_strand` shows the same gap on a program from `src/`.
- `MCAsyncServer_handlers.cfg`: four requests at once, to `external`,
  `noticeError`, `/background` and a plain handler (12k states).
- `MCWireFrame.cfg`: the sender alone, with `StreamDecodes`. It is subsumed by
  the `harvest` run.

### The shutdown finding

spec.md 6 says shutdown "triggers a final flush and then disables further
operations". Between those two points `End` is still accepted. The record goes
into the buffer that the final flush has already swapped out, so nothing ever
flushes it. spec.md 4.4 says every finished record is delivered or dropped.
`nrmicro/example/pubsub/main.go` reaches this: its `publish` goroutine ends a
transaction every second (line 35) while main's deferred `app.Shutdown` (line
59) runs. `pubsub_strand` shows it on that program, with 8 steps: a signal,
the shutdown request, one publish whose `End` lands after the swap, the end of
the flush, and main's return. The refinement counts such a record as lost at
close, so `HarvestRefinement` holds. `EverySettles` in `Harvest` states the
same gap for any producer, and `MCHarvest_strand.cfg` checks it.

Each property of a passing run has a mutant in `PROJECT.json`: a plausible bug
in the mapped definition (a missing `wg.Add`, a swapped parse, a length that
omits the header, a `>` for `>=`, ...). TLC finds each mutant's property
violated.

## Bounds and why they suffice

- **AsyncServer**: 2 requests, the first routed to `/async`. Each request is its own
  goroutine with its own transaction. The hazards are within a request
  (defer order, WaitGroup) or across transactions (the harvest buffer), so 2
  requests already show every cross-request interleaving of the buffer.
  The second request takes every other handler in turn, so every handler
  step runs concurrently with the heaviest one. Letting both requests take
  every handler gives 1.1M states and 11 minutes. The four-request instance
  `MCAsyncServer_handlers.cfg` is kept as a configuration of its own.
- **RpcWrappers**: 4 calls: a handler, a subscriber, a gRPC call and a
  nil-app handler. Between them they take every wrapper path and both kinds
  of client call. Results cover nil, a go-micro error with code 404, a gRPC
  status with code 5 and any other error. A run with 5 calls did not finish
  within 30 minutes.
- **TraceIdCodec**: up to 4 parts per trace id. The texts cover every class
  the parser tells apart: empty, non-numeric, signed, zero-padded, int16
  overflow and int64 overflow.
- **WireFrame**: at most 3 frames per stream. Lengths above 255 exercise both
  bytes of the length fields. The 4 GiB truncation is out of reach (see the
  hazards).
- **Harvest**: `MaxMsgs = 3` records, any of the 12 messages. That allows a
  record to be pushed during a flush, during the shutdown flush and after
  stop, and a batch of more than one record to be cut by the timeout.
- **MysqlDSN**: addresses of up to 4 characters over 5 symbols. This includes
  `[a]:1`, `:1`, `a:1:`, `[:]:` and the shapes `SplitHostPort` rejects.
- **GrpcStreamClient**: `NumSends = 3`, as in the code, with one transaction
  (`MaxMsgs = 1`). The dial and the stream open may fail, and the stream may
  break at any point, once.
- **PubSub**: two ticks of the publish loop, so up to four transactions
  (`MaxMsgs = 4`) over three records. A tick before and a tick after the
  signal are enough for the strand. The full state space has 17k states.
- **ConfigOptions**: `MaxOptions = 2`. That is enough for an error to be
  followed by a clearing option. The labels inputs include 65 distinct keys,
  two keys that collide after truncation, an empty middle entry and trimmed
  ends.

## Fairness

`AsyncServer` and `RpcWrappers` state liveness. Each goroutine's step is
weakly fair: the Go scheduler runs every runnable goroutine eventually, and
`time.Sleep` always returns. In RpcWrappers the user handler and the remote
call always return (a returned error is one of the results). The harvest loop runs on a ticker, so `HarvestTick` is weakly fair as
well. Nothing is assumed about the order of goroutines.

In `Harvest`, the timer, each flush step and the completion of the final flush
are weakly fair. `Shutdown` and `ShutdownTimeout` are not fair, because a
program may run forever and the timeout may or may not fire first. In
`GrpcStreamClient`, every goroutine's step and the peer's echo are weakly
fair, and a break is not fair. The deferred `app.Shutdown` can start only when
the aggregator is `Idle`, which timer ticks keep interrupting. The request is
taken because the aggregator's loop selects among ready channels at random, so
`RunDefer` is strongly fair. `PubSub` states the same fairness for its
deferred `Shutdown`: the ticker, the subscriber and the flush steps are weakly
fair, and the signal is not fair.

## Not modelled

- **Agent stats** (`agent_stat.go`): samples gopsutil once and builds a
  struct. It is pure I/O with no state. Nothing in `src/` except its test
  calls `getTAgentStat`. `getProcessStat` ignores the error of
  `proc.MemoryInfo()` and reads `mem.RSS` (line 91). If that call fails, this
  is a nil dereference, a latent panic for whichever agent code calls it.
- **nrlogrus**: formatting only.
- **integrationsupport**: nil-checked forwarding and test helpers.
- **Constant tables and `version.go`**: no behaviour.
- **`internal/tools/utilization`** and the other example programs: sequential
  calls with no concurrency. `examples/client`, `short-lived-process`,
  `nrmysql/example` and `nrredis-v7/example` end their transactions and then
  call `app.Shutdown`. That is the sequence `GrpcStreamClient` checks, and
  `harvest` checks it for any number of records. The nrmicro server example
  runs until a signal with `app.Shutdown` deferred, as `PubSub` does.
- **`integrations/nrgin/example`**: the gin handlers write responses, and
  `/500` divides by zero. What becomes of that transaction depends on
  `nrgin.Middleware`, which is not in `src/`. `spec.md` also puts framework
  middlewares out of scope.
- **`examples/server-http`**: one `ServeHTTP` with the segments handler's
  nesting and a 404. It is another program with the same steps as the
  `AsyncServer` handlers.
- **`doUnaryUnary`, `doUnaryStream`, `doStreamUnary`** (gRPC client): never
  called.
- **`init` of nrmysql and `DatabaseName`**: `init` registers the driver, and
  `DatabaseName` is copied unchanged.
- **`ignore` and `roundtripper`** (example server): `txn.Ignore` and
  `NewRoundTripper` are agent code that is neither under `src/` nor described
  in `spec.md`.
- **Header copying** in `startWebTransaction`, `startTransaction`,
  `addDTPayloadToContext` and `SubscriberWrapper`: these copy metadata into an
  `http.Header` and keep nothing the properties read. `getURL` formats a
  URL.
- **`nrmicro.extractHost`**: it writes the package-level `addrMap` without a
  lock, which would be a data race under concurrent calls. Nothing in `src/`
  calls it, so it is not a hazard of this code.

## Plan

1. Refine `Transaction`'s `HarvestTick` by `Harvest`, so that the server
   models run on the detailed pipeline. This needs `Transaction` to allow a
   record to be dropped when its encoding fails.
2. A lock-level `Transaction` refining the atomic one. No program in `src/`
   mutates one transaction from two goroutines: the async handler hands
   children from `NewGoroutine` to its goroutines. So this would check the
   agent's design, not this code.
