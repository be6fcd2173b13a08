# The LLM gateway, specified

TLA+ models of the gateway in this repository, model-checked with TLC, with
proofs checked by TLAPS. They cover what the gateway does while it serves:
admitting a request, choosing and failing over between providers, relaying and
translating the response, counting tokens, and reporting usage to the control
plane. Paths below are relative to the repository's root.

## 1. Inventory

| Part | State it keeps | Operations | Talks to |
| --- | --- | --- | --- |
| Request handler (`internal/proxy/handler.go`, `ServeHTTP`, `report`) | per request: context, candidates, last error, outcome | admit, key-auth, route, select / skip a candidate, send, judge a failure, relay, give up, report | control plane, router, providers, metering |
| Response relay (`handler.go`, `relay`, `flushWriter`, `classifyTruncation`) | per response: errors, usage, what was written | read an event, meter it, translate and write it, close, classify | upstream, client, codecs, usage parser |
| Stream codecs (`internal/protocol/translate/stream_*.go`) | decoder and encoder state of one stream | `ToIR`, `FromIR`, `Feed`, `Fail` | relay |
| Request and response codecs (`translate/anthropic.go`, `openai_chat.go`, `openai_responses.go`, `response.go`) | none: the conversation is in the client's history | `Request`, `Response` | handler, relay |
| Usage parsing (`internal/protocol`) | one account per stream | `Feed`, `ParseUsage`, `clamp` | relay, codecs |
| Metering queue (`internal/metering/queue.go`) | buffered channel, done channel, workers | `Enqueue`, worker, `deliver`, `Shutdown` | handler, control plane, `main` |
| Router and poller (`internal/router/router.go`) | atomic snapshot, ETag | `Load`, `Attempts`, `Sync`, `Run` | control plane, handler |
| Control-plane client (`internal/controlplane/client.go`) | none | `FetchRoutes`, `KeyAuth`, `ReportUsage` | control plane |
| Providers (`internal/provider/provider.go`, `sigv4.go`) | credentials (in the AWS SDK) | resolve, sign, build URL | upstream |
| Bedrock invoke adapter (`provider/bedrock_invoke.go`) | per stream: a pump goroutine, a pipe, the SDK's event stream | pump, `Read`, `Close` | AWS SDK, relay |
| Lifecycle (`cmd/gateway/main.go`) | readiness | initial load, drain, shutdown, flush | all |
| Configuration, secrets, observability | read once, or written only | | |

What is hard here, and what correctness means:

* **Metering.** A bounded buffer between request goroutines and workers, retries
  over a network that loses and delays answers, a shutdown that races both, and
  a process that may die. *A report is in one place, is counted once, is posted a
  bounded number of times, is counted `ok` only if the ledger has it, and is
  settled if it was accepted in time.*
* **Relay.** Upstream, client, context and relay loop move independently, and the
  loop's conclusion (status, `truncated`, billed or not) is taken at the end from
  flags each of them has set. *A client that got its response is billed and not
  called truncated; one that did not is not billed; a translated client gets
  exactly one terminal event; the blame for a cut is right; the loop ends.*
* **Failover.** Up to `max_failover_attempts` candidates, each of which can be
  skipped, refused, unreachable or answer an error, while the context may end
  anywhere. *One answer, at most one report, which agrees with it; no candidate
  is contacted after the answer has begun; the loop gives up only for a reason.*
* **Routing.** Requests draw from a snapshot that the poller swaps under them; the
  ETag must not get ahead of the table. *A request sees one table; the draw
  follows the weights; an empty answer does not blank the table; the gateway
  catches up with the control plane.*
* **Stream translation.** Three block structures that do not nest alike. *For every
  direction and every well-formed stream the client gets a legal stream with the
  whole message.*
* **Bodies.** A conversation's history is written by the client and by upstreams of
  three protocols in turn, and each request carries all of it. *Whatever the history
  is made of, the translated request keeps the rules of its protocol and says
  everything that was said; an answer's calls reach the client and so does the way it
  ended; a request extends the one before it, as prompt caches need.*
* **InvokeStream.** The SDK's reader, the pump and the relay wait for each other, and
  either end may go first. *What is read is what was sent; an exception is never a
  clean end; no goroutine outlives the response.*
* **Lifecycle.** Readiness, drain, a deadline for handlers that nobody stops, a flush
  with a budget of its own. *A graceful exit has settled every request's report; a
  signalled process ends.*
* **Usage.** Two readers of the same events, several statements of the same
  counters. *What is billed is what was counted; what the client is shown is
  what is billed.*

`PROJECT.json` lists every hazard at its line with the properties that watch it.

## 2. Modules

| Module | Models | State ↔ code |
| --- | --- | --- |
| `Metering` | `queue.go`, `ReportUsage`/`postJSON`, the flush at exit | `ch`, `done`: the channels; `pc`, `draining`, `job`, `attempt`: a worker goroutine's position and locals; `wire`, `answer`: HTTP in flight; `tally`: `llmgw_metering_reports_total`; `ledger`: the control plane |
| `ReportDelivery` | abstract: what metering promises | offered, taken or turned away, settled; the ledger |
| `Gateway` | the process: `Metering` composed with requests in flight and the shutdown sequence of `cmd/gateway/main.go` | `main`: where main's goroutine is; `arrived`: requests that reached a handler |
| `Relay` | `relay`, `flushWriter`, `classifyTruncation`, `Stream.Feed/Ended/Fail` | `relayResult` and `Stream` fields by their names, `wire`/`up`: the body, `written`: the client's connection |
| `RelayContract` | what a relay hands back to its request | shared by `Relay` (guarantees it) and `Requests` (assumes it) |
| `Requests` | `ServeHTTP` from admission to report | locals of `ServeHTTP` by their names |
| `Routing` | `Load`, `Attempts`, `weightedOrder`, `Sync`, `Run`, initial load | `snap`, `tiersOf`: the atomic pointer and the shared slices behind it; `rem`, `out`: a request's copy |
| `StreamCodecs` | three decoders, three encoders, as operators | records of the codec structs' fields |
| `StreamTranslation` | an upstream, `Feed`, and a client that assembles what it gets | |
| `Usage` | parsers, normalisation, the codecs' own handling of usage | `meter`: `StreamParser`; `dec`: the decoder's usage; `shown`: what the encoder renders |
| `InvokeStream` | `pumpInvokeStream`, `io.Pipe`, `invokeStreamBody`, the SDK's reader goroutine | `sdk`, `offered`: `es.Events()`; `err`: `es.Err()`; `pw`, `prClosed`: the pipe's ends; `pump`, `frame`: the goroutine and its `pw.Write`; `got`, `end`: what the relay has read |
| `RequestCodecs` | the three `ToIR`, the three `FromIR` of requests, `Translator.Request` | operators on records of the wire structs' fields |
| `ResponseCodecs` | the same for complete responses, stop reasons, `Translator.Response` | as above |
| `Conversation` | an agent that keeps its history in its own protocol while the gateway sends each turn to an upstream of any protocol | `request`: the client's next body; `asked`: the last translated body per protocol; `said`, `original`: history variables, what was said and how the upstream's last answer ended |
| `GatewayProofs`, `RequestsProofs`, `RelayProofs`, `RoutingProofs`, `StreamTranslationProofs`, `UsageProofs`, `ConversationProofs` | proofs about the modules of those names; `GatewayProofs` holds those about `Metering` too, `RelayProofs` those about `InvokeStream` | |
| `CodecProofs` | lemmas about the two codec modules, for `ConversationProofs` | |
| `MCRouting` | the tables of the routing run | |

The request is modelled twice at two grains. `Requests` takes a whole relay as
one step whose outcomes are `RelayOutcomes`; `Relay` is checked to produce nothing
else (`WithinContract`). `Gateway` takes a request as its arrival and its one
`Enqueue`, the last thing `ServeHTTP` does. `InvokeStream` is the upstream body of a
`Relay` whose provider is Bedrock's InvokeModel: a clean end there is `up = "eof"` here, an
exception an error event and then `up = "cut"`.

An action is a step between two points where another goroutine can interfere:
a channel operation, a network call, a look at a context, a write to the client.
`Enqueue` therefore is two actions (the look at `done`, then the `select`), and
`deliver` is three (post, receive, wake from backoff). The relay loop is cut at its
read, its dispatch and its end.

Names of the form `X_Variant`, standing before a definition `X`, are plausible
wrong versions of `X`. They are part of no specification; they exist to be put in
`X`'s place, to see that a property notices.

Abstractions, by module: reports carry no payload beyond their identity; a
candidate is how it is reached and whether it needs translation; stream
content is a fragment number; a table is a name; a usage object is a function
from the fields present; a text is the sequence of the numbered utterances it is
made of, so that joining texts is concatenation and a lost, doubled or moved
utterance shows; an InvokeStream chunk is its number. Ids, names, signatures, wording, metrics other than the
report counter, and logging are left out.

## 3. Runs

All bounds are constants of the `.cfg`. `CHECK_DEADLOCK FALSE` is set everywhere
because every modelled thing comes to an end: a request is answered, a stream
closes, the process stops.

| Run | Bounds | Distinct states | Shows |
| --- | --- | --- | --- |
| `gateway` | 2 reports, 2 workers, 1 slot, 1 retry, 429 | 318 154 | `OnePlace`, `RetryBudget`, `CountedOkIsRecorded`, `GivesUpOnlyWhenSpent`; accepted reports are settled; a graceful exit loses nothing; a signalled process ends; the queue implements `ReportDelivery` |
| `relay` | 2 events | 503 600 | what is written, billed and blamed, and termination |
| `requests` | up to 4 routes, 3 attempts, 5 statuses | 876 537 | one answer, a report that agrees, what a 504 means, order, reasons for giving up, an end unless the client never reads on |
| `routing` | 2 requests, 4 tables, 2 table changes | 64 375 | snapshot isolation, weights honoured and positive, ETag, convergence |
| `stream_translation` | 3 blocks, 4 fragments | 35 530 | six directions: legal stream, whole message |
| `usage` | counters -1..2, 3 events | 117 447 | no negative counter, billed is counted, shown is billed |
| `invoke_stream` | 3 chunks | 3 595 | order, clean end, exception, no leak |
| `conversation` | 2 answered turns, 3 requests, namespaces of 2 levels | 350 178 | rules of the target protocol, nothing lost, calls delivered and announced, parameters, prompt prefix |
| `metering_clean_shutdown` | 2 reports, 2 slots | violation | finding 1 |
| `relay_failed_billed` | 2 events | violation | finding 2 |
| `requests_unreported` | 2 routes | violation | finding 3 |
| `stream_interleaved` | 3 blocks, overlapping | violation | finding 4 |

Why the bounds are enough:

* *Gateway and Metering.* With two workers and one slot, two reports make the
  contention occur: a worker posting while the other drains, a full buffer, a drop, a
  flush that begins with a report buffered and one in flight. One retry tells the
  first attempt, the last and the spent budget apart; 429 is an answer worth retrying;
  a final one is a 200 that is rejected or unusable. Liveness and symmetry cannot be
  combined, hence no symmetry. The proofs below lift the bounds of the safety part.
* *Relay.* The relay keeps one event at a time and a handful of flags; an opening
  event followed by any other reaches each of its branches. Three events were
  checked too (4 267 000 states) and show nothing new.
* *Requests.* Four routes with three attempts: the cap cuts, and a candidate can
  be first, in the middle and last. `Status` has one of each class that the loop tells
  apart (taken, the client's fault, worth a failover) and 504, which an upstream may
  state itself and the gateway relays and reports like any other.
* *Routing.* A table with two tiers and a zero weight, one with a negative weight,
  one without providers, one without models; two changes let the table change
  before and after an answer is fetched.
* *Streams.* Three blocks give tool–tool, tool–text–tool and text–tool–text, the
  transitions the encoders' implicit closing is about; four fragments let one block
  receive two. `stream_interleaved` lets the upstream go back to an earlier block, which
  an encoder has closed by then.
* *Usage.* Counters 0, 1 and 2 separate every sum that is confused with another;
  -1 is the "unknown" of some servers; three events give a start and two deltas.
* *InvokeStream.* The pump and the pipe hold one event each; three chunks put one
  before, one at and one after every point where either side may stop.
* *Conversation.* Two answered turns make a third request whose history holds answers
  of two upstreams, each of any protocol; that is where their rules meet. An
  answer is empty, or has text, reasoning, calls, or calls in the forms that servers get
  wrong, each beside every reason for ending that the protocol has, cut calls and a
  reason that the codec does not know included. Requests are continued with results,
  failed results, words, pictures, system words, and combinations. `MaxNesting` bounds how
  deep tool namespaces may nest (`flattenResponsesTools` recurses); a Responses client offers
  its function in a namespace, one level deep, beside a hosted tool.

### Fairness

* `Gateway` (and `Metering`): weak fairness of each worker, of `Enqueue`'s second step, of
  main's steps once a signal has come (a sleep and a context with a timeout), of
  `FinishShutdown` and of main's return. These are goroutines that the scheduler
  runs when they can move. A worker waiting for an answer is fair because the HTTP
  client has a timeout (`LoseAnswer`). Nothing is assumed of producers, of handlers
  (which may hang), of the signal, of the flush budget or of the control plane.
* `Relay`: weak fairness of the request timer and strong fairness of the relay's
  step: the client can stall and resume for ever, which would disable a step again
  and again; a goroutine whose write can proceed again and again proceeds.
  Upstream and client owe nothing. Hence `EndsUnlessClientStalls` and not more.
* `Requests`: weak fairness of the handler's steps up to the relay and after it, and of
  the deadline, which is a timer; strong fairness of the relay while the client reads,
  which is what `Relay` gives. A client that has stalled keeps the relay beyond
  `request_timeout`, hence `EndsUnlessRelayStalls`.
* `Routing`: the poller's ticker, requests that draw, and polls that are answered.
  Strong fairness of a successful answer says that the control plane is not down
  for ever; without it nothing could converge.

* `InvokeStream`: the pump, the SDK's reader once told to stop, and a `Close` once
  begun. Bedrock need not send and the relay need not read.

`Usage`, `StreamTranslation` and `Conversation` state safety only and need none.

## 4. Findings

Each is a run that TLC ends with a counterexample.

1. **A clean shutdown can strand a report** (`metering_clean_shutdown`).
   `Enqueue` passes its first look at `done`; the whole shutdown overtakes it; with
   both cases of its `select` ready, Go may choose the send. The report is accepted
   (`true` is returned), no worker is left, and no counter knows of it.
   `internal/metering/queue.go:40-41` promises `false` in that case.
2. **A failed translated stream is billed** (`relay_failed_billed`). An upstream
   error event sets `ended`, so the stream counts as complete: `truncated` is empty
   and the usage seen so far is billed with status 200. `classifyTruncation`'s
   comment excludes this.
3. **A request that was sent goes unreported** (`requests_unreported`). The early
   returns for an untranslatable body and an unbuildable URL skip the report even if
   an earlier candidate was contacted. `docs/control-plane.md:174` says every
   request past key-auth is reported.
4. **A split tool call is not refused** (`stream_interleaved`). Input that arrives
   for a tool call after another block has begun opens a second block;
   `ir.go:166-168` requires an error.

Also met, and not given a run of their own:

* After a failed upstream read neither case of the switch after the relay loop applies
  (`handler.go:565`), so a connected client of a translated stream gets no terminal event;
  the comment of `Stream.Fail` (`translate.go:267-268`) speaks of avoiding half-open messages
  but names translation and upstream together. `OneTerminal` is about streams that could
  be read to their end.
* A client that stays connected but stops reading holds the handler beyond
  `request_timeout`: `flushWriter` writes without a deadline, although
  `cmd/gateway/main.go:147` relies on the context. In `Relay` this is the second
  disjunct of `EndsUnlessClientStalls`, in `Requests` that of `EndsUnlessRelayStalls`;
  neither holds without it.
* `classifyTruncation` looks at the contexts after the response has failed
  (`handler.go:391-406`). A departure or a deadline that comes between the failure and the
  look takes the blame for it. `BlameIsRight` says that what is blamed has happened, not
  that it came first; nothing in the repository says which of two is to be named, and the
  record is not billed either way.
* Calls beside a finish reason the codec does not know, or in a failed or cancelled
  response, are told an Anthropic client with `end_turn` (`response.go:106-119`, `207-215`,
  `openai_responses.go:507-530`): an agent that trusts the stop reason does not run them.
  Clients of any protocol are told the end of a failed Responses answer as an ordinary one. `docs/protocol-translation-design.md:94` and
  `120` promise no more than the nearest value. This is the exception in `CallsAreAnnounced`;
  calls cut by the limit or the filter are announced as cut, as the code means it.
* If an Anthropic-style upstream's `message_delta` repeats some input-side counters
  and omits others, the decoder takes the omitted ones for 0 and the parser keeps
  them (`stream_anthropic.go:159-165`, `anthropic_messages.go:62-78`): the client
  sees another account than the one billed. This is why `ShownIsBilled` has the
  antecedent `whole`.
* `docs/control-plane.md:194` gives Responses upstreams the same cache-write fields as
  Chat; `openai_responses.go` reads only `input_tokens_details.cache_write_tokens`.
  Writes stated elsewhere are billed as plain input (the antecedent of
  `BilledIsCounted`).
* An OpenAI upstream that states `cached_tokens: -1` is billed one prompt token too
  many: `normalize` subtracts the -1 before `clamp` removes it. `BilledIsCounted`
  therefore speaks of known counters.
* A Chat upstream's `refusal` is decoded (`response.go:148`) and not read: the client gets an
  answer without text.
* Empty texts reach Anthropic as empty text blocks; `UpstreamAccepts` is about structure and
  does not ask for text in them.
* `openAIResponsesResponse.FromIR` shows another family's reasoning as a reasoning item with
  a summary only. The client keeps it in its history; a later translated request drops
  it, but one passed through to a native Responses upstream carries it.
* `toolResultString` (Responses) marks a failed result with "Error: " only if it is a JSON
  string; the Chat codec marks every one. `Conversation` makes failed results strings and does not
  follow what a successful one holds.
* With only hosted tools offered, a target gets the tool choice without any tools.

## 5. Proofs

Eight modules of proofs, about specifications with any number of reports, workers,
routes, events, chunks, tables, blocks, tokens or turns. Every proof of an invariant goes the same way: a
strengthening that is inductive, one lemma per action (or group of actions) that
preserves it, `Step` or `NextIInv` that puts them together, and short arguments from
it to the properties of the runs. The assumptions are the named ASSUMEs of the
modules (positive queue size and attempt cap, natural bounds and default limit, distinct "none"
values), which TLC evaluates on every run.

| Module | Theorem | Says |
| --- | --- | --- |
| `GatewayProofs` | `TypeCorrect` | `TypeOK`: among others the buffer never exceeds `queue_size` |
| | `Conservation` | `OnePlace`: an accepted report is in exactly one place and counted once |
| | `RetriesAreBounded` | `RetryBudget`: at most `max_retries + 1` posts |
| | `OkIsRecorded` | `CountedOkIsRecorded` |
| | `GivingUp` | `GivesUpOnlyWhenSpent`, an action property |
| | `ImplementsDeliverySafety` | every step of the queue is a step or a stutter of `ReportDelivery` |
| | `GatewayTypeCorrect`, `GracefulExit` | types; `GracefulExitLosesNothing` |
| `RequestsProofs` | `TypeCorrect`, `OneAnswer`, `MatchingReport`, `RealTimeout` | types; `AnsweredOnce`; `ReportMatchesAnswer`; `TimeoutIsRealTimeout` |
| | `InOrder`, `Exhausted` | the action properties `InOrderAndBeforeTheAnswer`, `GivesUpOnlyWhenExhausted` |
| `RelayProofs` | `TypeCorrect`, `KeepsContract`, `Billing`, `Delivered`, `Terminates`, `Blame` | types; all five invariants of the `relay` run |
| | `BodyTypeCorrect`, `InOrder`, `CleanEnd`, `Failure` | of `InvokeStream`: types; `ReadsWhatWasSent`; `CleanEndIsComplete`; `FailureIsTold` |
| `RoutingProofs` | `EtagIsHonest`, `SharedTiersStay`, `NeverUnloaded`, `RoutingIsNotBlanked` | `EtagNamesSnapshot`; the tiers that requests share are never altered; a serving gateway has a table; models are not replaced by none |
| | `TypeCorrect`, `EveryCandidateOnce`, `WeightsAreHonoured` | types; `AttemptsAreThePlan`; `SharesFollowWeights`: shares are the weights, and there is always a value to draw |
| `StreamTranslationProofs` | `StreamsAreLegal` | `ClientStreamIsLegal`, in all six directions and for any upstream, overlapping blocks included |
| | `TypeCorrect`, `MessagesArriveIntact`, `ContractIsKept` | if blocks do not overlap: `TypeOK`; `MessageIsIntact`; `DecoderContract` |
| `UsageProofs` | `TypeCorrect`, `NoneNegative`, `CountedIsBilled`, `ShownAsBilled` | types; `NoNegativeCounters`; `BilledIsCounted`; `ShownIsBilled` |
| `ConversationProofs` | `ConversationInvariant`, `ConversationTyped` | the inductive invariant, and `TypeOK` |
| | `NothingIsLost` | `NothingIsLostOnTheWay`: an upstream hears all that was said, in order, through any number of turns and translations |
| | `CallsAnnounced` | `CallsAreAnnounced`: whatever the upstream's reason for ending, the client gets its calls once and in order, is told of a cut if there was one, and else to run the calls it has |
| | `ParametersReach` | `ParametersArrive`: limit, tool choice, the offered tools, the request for usage |
| | `HistoryGrows` | `HistoryOnlyGrows`, an action property: every request extends the one before it |
| | `UpstreamAccepted` | `UpstreamAccepts`: calls and results stand where the upstream's protocol asks for them, in conversations of any number of turns |

Why the invariants of the runs are not enough by themselves:

* *Metering.* A step preserves `OnePlace` only because a worker without a job is at
  rest (`WorkerState`), the buffer holds no report twice and no two workers the same
  (`NoDoubleHandling`), and a counted report is nowhere any more (`TallyByCall`,
  `NothingLost`). `RetryBudget` needs the relation between `posted`, `attempt` and where the
  worker stands (`PostsByState`). `CountedOkIsRecorded` needs that an accepting answer
  under way is in the ledger already (`AnswersTellTheTruth`) and that only accepted
  reports travel (`OnlyAcceptedTravels`).
* *Gateway.* `GracefulExitLosesNothing` rests on metering's invariant, on `Arrivals`
  (once handlers are drained every request has reported, and none was refused before
  the flush) and on `Sequence`: a worker that leaves after the drain leaves the buffer
  empty for good. After a cut that does not hold, which is how finding 1 arises.
* *InvokeStream.* `Progress` counts the frames read against the chunks sent, with the
  one the SDK offers and the one in `pw.Write` in between; `Phases` ties that to the
  pump's position; `Ended` says what the reader's last `Read` meant.
* *Requests.* `Stage` fixes what is set at each point of `ServeHTTP`, `Tried` orders the
  candidates contacted, `Errors` says where `lastErr` came from, `Result` relates answer,
  outcome and report.
* *Relay.* `Contexts` (a noticed departure happened), `Whereabouts` and `InputOver` (what is
  known at each point of the loop), `Shown` (what the client has, against `ended` and
  `clientErr`), `Conclusion` and `Result` (what the classification was made from).
* *Routing.* `Intact` (every shared tier is as it was loaded), `Serving` and `Tables`, and
  `Drawn` for the draw: at every point of it the candidates already out and those left are
  the providers of the tiers so far, each once, priorities ascending (`Ledger`). That a
  candidate's share is its weight is a lemma about `Sums`: the values that fall on candidate
  k are those from `Sums[k - 1]` up to `Sums[k]`.
* *Stream translation.* `Inv` says that nothing is on its way between two events: the
  client's message says what the upstream has said so far (`Streaming`), the encoder's
  fields describe what the client holds (`Sound`: `FramedFit` for encoders with blocks,
  `ChatFit` for the one that numbers tool calls), the block the upstream is at is the one
  the encoder has open (`Current`), and each decoder's fields describe the upstream
  (`AnthropicFit`, `ResponsesFit`, `ChatInFit`). `Current` is what overlapping blocks break,
  and with it three of the four properties: TLC finds each of them violated then, which is
  why these theorems assume `~Interleaving`. `ClientStreamIsLegal` survives, by the weaker
  `Unbroken`: as long as the stream goes on, encoder and client fit each other, whatever IR
  events come. TLC checked both invariants on the bounds of
  the runs, the second one with overlapping blocks (460 640 states).
* *Usage.* The two readers never meet, so `Metered` says what the parser holds of the
  counters stated so far, and `Agreement` that after every event the decoder's account is
  the parser's, clamped; `Fresh` that a Responses upstream says nothing before its last
  event. The lemmas about objects (`OpenAIObjectFacts`, `RoundTrip`) show that
  normalising undoes how an upstream states its counts, and reading undoes rendering.

* *Conversation.* `Sound`: the client's next request is made of messages its protocol has
  (`Reqs`), says what was said unless the client relies on a stored response, and is what the
  request under way was translated from. `CallsAreAnnounced` needs nothing beside it, since
  `original` keeps what the upstream answered: the lemmas behind it follow each reason for
  ending from the upstream's word into the IR (`Heeded`) and on to the client (`Told`).
  What a reader hears in a request (`Heard`) is a map over its messages and
  blocks, as the codecs are; so each codec is shown to keep what is heard in one block, one
  message, one item, and the lemmas about maps, selections and folds carry that over to
  histories and requests of any length. Chat messages hold all words of a turn and then its calls, which is why
  words and calls are followed separately (`SameThings`). `HistoryOnlyGrows` needs `GrowInv`
  beside it: each request sent earlier is the translation of a beginning of the client's
  history that ends where no assistant's turn is open (`Settled`). Without that the three
  places where the codecs look back (`splitSystem`'s leading system words,
  `appendAssistant`, `mergeAdjacentAnthropic`) could reach into what had been sent.
  `UpstreamAccepts` is about neighbours (results right after their calls, roles that
  alternate), so its argument goes by rounds instead of by elements. `OrderInv`: what the
  client keeps of an answer is one assistant message in the IR at most (`Opened`), what it
  adds then is the results of exactly those calls, in order, with the user's words
  (`Replied`), and the history is a sequence of such rounds. For each protocol there is a
  notion of order (`ChatOrder`, `ItemOrder`, `AOrd`) that a first request has, that a further
  round keeps, and that implies what the upstream checks. Two facts carry it: the ids of a
  round's calls are distinct and later than all earlier ones (`Fresh`), so that outputs
  cannot be taken for those of another round, and merging adjacent messages of one role
  leaves results at the head of the message after their calls (`UserKept`). A
  request that relies on `previous_response_id` holds a part of the history only; `OrderInv`
  exempts it, and the code refuses to translate it.

The library's induction theorems cannot be used by the provers at hand, since they take
an operator as a parameter. Where a function or a fold runs over a sequence of any length
(`Sums`, `TakeAll`, `FeedAll`, `Content`, the enumeration of priorities, the codecs' folds) the
proofs take the set of counterexamples and its least element (`Least`), which comes to the same.

What stays with TLC: liveness and the liveness half of the refinement, since the
prover does not reason about ENABLED and fairness. Every invariant that a passing run checks
is also a theorem; three of `StreamTranslationProofs` assume that blocks do not overlap.

## 6. Not modelled

* Of the body codecs: sampling parameters, stop sequences, response formats, image
  payloads, user metadata, names, and the errors for malformed bodies. They are copied
  field by field or rejected before any state exists.
* Of the Bedrock adapter: the non-streaming call, the rewriting of the request body
  and the mapping of SDK errors to responses, all stateless.
* Of the stream codecs: content that an Anthropic `content_block_start` already carries
  (`stream_anthropic.go:94-106`); `StreamTranslation`'s upstream sends all of it in deltas.
* Whether tools may be called in parallel: Anthropic's codec drops the flag, the others copy it.
* Credential caching and SigV4: in the AWS SDK.
* Secrets and configuration: sequential, before anything runs. Bounds the modules
  assume (positive `queue_size`, `max_failover_attempts`) are not enforced for
  negative values by `config.go`; see the hazards.
* 64-bit overflow of weights and counters: they would have to be near 2^63.
* The readiness probe and `/v1/models`, which only read; the health check command.
* Mock control plane, probe tools, manifests, scripts.

## 7. What could follow

* A three-request `gateway` instance without liveness, if the queue's code changes;
  the proofs make it unnecessary for the code as it stands.
* A connection of `InvokeStream` to `Relay` as a refinement of `Relay`'s upstream, in place of
  the correspondence described in section 2.
