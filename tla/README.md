# Moon Bridge in TLA+

Moon Bridge is a Go HTTP proxy: it accepts OpenAI Responses requests (from Codex)
and serves them from providers that speak the Anthropic, OpenAI Chat, Google
GenAI or OpenAI Responses protocol. A runtime holds its configuration; a
management API stages changes to a persisted copy of it and applies them while
requests are served. This directory holds TLA+ modules of its stateful parts,
TLC configurations that check them on small instances, and proofs checked with
TLAPS.

The paths below are relative to the repository.

## The system

| component | state | operations | interacts with |
|---|---|---|---|
| configuration store `internal/service/store` | tables settings, models, providers, offers, routes; changes; profiles; `applyMu` | stage, list, apply, discard, load all, save / load / rename / delete profile | the database, the runtime (a callback of Apply) |
| runtime `internal/service/runtime` | one atomic pointer to a config, its provider manager and its prices | `Current`, `Reload` | read by every request, written by Apply and by profile activation |
| management API `internal/service/api` | none of its own | a handler per resource: it reads the live config and stages rows | store, runtime, sessions, statistics |
| configuration `internal/config` | none (values) | file or rows to `Config`, `Validate`, and back to a file | loaded by the store and at start |
| database selection `internal/db`, `internal/extension/db/*` | registered providers and consumers, one bound store per consumer | `Init`, `Shutdown`, `WithTx` | SQLite or Cloudflare D1 |
| sessions `internal/service/server/session` | map from key to session and `lastUsed`, a mutex, a ticker goroutine | `GetOrCreate`, `NewEphemeral`, `Prune`, `Stop`, `List` | every request; TTL and limit read from the runtime |
| dispatch `internal/service/server/dispatch.go` | the request's own | resolve the model, filter the candidates, pass through or hand over | runtime, provider manager, statistics, plugin hooks |
| adapter dispatch `internal/service/server/adapter_dispatch.go` | the request's own; adapters are shared by all requests | request and response conversion, stream pipeline, reasoning cache | adapters, providers, sessions, plugins |
| search loops `websearch_inject.go`, `internal/extension/websearch*` | round counter, messages so far | ask, search, ask again | providers, Tavily, Firecrawl |
| provider manager `internal/service/provider` | providers, routes, clients | `ResolveModel`, `ClientFor`, `Reload`, streams | dispatch |
| protocol adapters `internal/protocol/*` | per stream: open items, indices, tool calls; per adapter: a stream buffer | requests, responses and streams to and from the core format | adapter dispatch |
| prompt cache planner `internal/protocol/cache` | registry of prefix keys | plan breakpoints, record use | Anthropic adapter |
| plugins `internal/extension/plugin` and the extensions | plugin list, data per session | `InitAll`, `ShutdownAll`, hooks | server, sessions |
| DeepSeek reasoning cache `internal/extension/deepseek_v4` | thinking per tool call, per session | remember, prepend | adapter dispatch, sessions |
| statistics, usage, metrics, traces, logs | totals, prices, trace number, rows | record, read | completion of requests |
| process `internal/service/app`, `cmd/*` | – | start, bootstrap from the store, serve, stop | all |

What is hard about it: calls of the management API run concurrently with each
other and with requests; an apply is a transaction, five separate reads and a
reload, with a mutex that not everybody takes; a process may die between any
two of them; a request reads the clock before it waits for a mutex; requests look
the configuration and their session up several times while both change; streams
are pipelines of goroutines that one end may leave. The list of hazards with
their lines is in `PROJECT.json`.

What makes each component correct:

- *store*: changes take effect once and in the order they were staged; a row is
  marked applied exactly when its effect is committed; the runtime serves a valid
  config, loaded whole from committed rows; nobody waits for ever.
- *profiles*: at most one is active; what was saved can be loaded.
- *sessions*: conversations are isolated, kept for their TTL, bounded in number,
  given up oldest first, and removed in the end.
- *dispatch*: a candidate is tried only after the better ones failed; address, key
  and protocol of a call belong together although a request reads the configuration
  several times; images that are items of the input go to models that take them; what is reported and billed is
  what was served; a request that was given up by its client ends.
- *streams*: what a client is told of an item comes after it was announced and before
  it was done; the text it is told is the text of the final answer, and the text the
  provider sent; goroutines and channels neither lose nor reorder it while the client
  stays, and a handler returns unless its provider never ends the stream or its client stays and reads no more; what a session remembers of a stream is its own.
- *requests to a provider*: no call and no output of the input is lost or doubled;
  every call is followed by its results, as each provider demands; the reasoning sent
  with a call is that of the answer which made it; the cache marks reach the newest
  message.
- *tool loops*: they end; every call has its result; a call of the client's own tools
  reaches the client, under the name it declared (but not on every path: see the findings).
- *process*: nothing is closed under a request that the shutdown waits for, and the
  process ends once its requests do.

## The modules

| module | models |
|---|---|
| `ConfigTables` | the rows of the five tables, what one staged change does to them, what `LoadAll` makes of them, `Config.Validate` |
| `ConfigStore` | the store, the runtime and the management API calls that run in between, with crashes and failing statements |
| `LiveConfig` | the abstract specification: what the store promises to a reader of the runtime |
| `MCConfigStore` | instances for TLC: a config file, the initial tables, the menus of requests |
| `ConfigStore_proofs` | types, stage order, marks; sound configs, profiles, refinement of `LiveConfig` |
| `SessionManager` | the session table, the requests that look sessions up, the pruner |
| `MCSessionManager` | its symmetry for TLC |
| `ModelRouting` | the providers and routes of a loaded config, the provider manager, `ResolveModel` |
| `Dispatch` | a request from the model name to the completion hooks, with reloads in between |
| `MCDispatch` | three config files for TLC |
| `Dispatch_proofs` | all safety properties of the dispatch |
| `ResponsesStream` | `streamLoop`: core events to Responses events, with its maps by block index |
| `ProviderStreams` | the Anthropic, Chat and Gemini streams, the adapters' state machines, whole answers made into streams; EXTENDS `ResponsesStream` and feeds its loop |
| `ProviderStreams_proofs` | types, texts and their deltas, items announced and items done |
| `StreamContent_proofs` | the whole of what was given is in the answer; EXTENDS `ProviderStreams_proofs` |
| `Flattening` | sequences put together, for `InputLoop` and `ProviderStreams` |
| `StreamPipeline` | the goroutines, channels and shared buffers of streaming requests, with clients that leave |
| `StreamFifo` | the abstract specification of the pipeline: one queue per request |
| `MCStreamPipeline` | its instance for TLC |
| `StreamPipeline_proofs` | types, refinement of `StreamFifo`, a client that stays gets all, what is remembered of a stream |
| `InputItems` | the operators of `convertInput`: items to messages |
| `InputLoop` | `convertInput` over every input, one item per step |
| `ProviderMessages` | messages as each provider is sent them, and answers as items |
| `ReasoningMemory` | what a session remembers of reasoning, and puts back |
| `CachePlan` | the planner of cache marks |
| `Conversation` | a client, the server and a provider over several turns: composes the four modules above |
| `Conversation_proofs` | calls and their results in every request, the cache marks; of `InputLoop`: what waits, where reasoning is put, that no call and no output is lost |
| `ToolNames` | declared tools to the provider's tools, and calls back to items |
| `ToolLoop` | the search and visual loops over each protocol; uses `ToolNames` |
| `MCToolLoop` | its lists of tools for TLC |
| `ToolLoop_proofs` | calls and results, the client's own calls, the names they come back under |
| `WebSearchModes` | how the web search mode of each candidate is resolved at start |
| `MCWebSearchModes` | its configurations for TLC |
| `ServerLifecycle` | the process from its plugins to its end |
| `MCServerLifecycle` | its plugins and databases for TLC |
| `Server_proofs` | all safety properties of the sessions; the process: types, what handlers find open |

### ConfigTables and ConfigStore

One goroutine per management API call is a member of `Clients`; `pc` says what
its call does next, and the steps of a call are the statements it sends to the
database and the locks it takes:

| action | code |
|---|---|
| `Submit` | a handler that stages reads the live config and decides what to stage (404 and 409 answers are no step) |
| `Stage` | `StageChange`, one INSERT; an import (`handlePostConfigImport`) calls it once per row, in the order of its loops |
| `Discard` | `DiscardPendingChanges`, one DELETE, without the mutex |
| `StartApply`, `Acquire`, `List`, `NothingPending`, `Begin`, `ApplyRow`, `Commit` | `ApplyPendingChanges` up to the end of `WithTx` |
| `SelectSettings` … `SelectRoutes` | the five SELECTs of `loadFileConfig` |
| `Publish`, `RefuseRows` | `FromFileConfig`, `Validate` and `Runtime.Reload`, or their error |
| `Fail`, `Disconnect` | a statement fails; the request context ends in `BeginTx` or in the transaction |
| `StartSave`, `SaveProfile`, `SelectProfile`, `SeedFromProfile`, `DeleteProfile`, `RenameProfile` | the profile handlers and the statements behind them |
| `Crash` | the process dies |
| `Boot`, `BootFromYaml` | `runTransform` serves what `LoadAll` returns, or logs its error and serves the YAML file: rows that do not load, a store that was never seeded, or a SELECT that fails over rows that do |

The variables `tables`, `changes`, `profiles` are the committed rows and survive a
crash; `snapshot` is the runtime's config; `applyMu` and `conn` are the mutex
and the only connection of the SQLite pool (`sqlite/plugin.go` opens one by
default), which an open transaction keeps. `committed` and
`unpublished` are history variables: which rows took effect, and whether the last load
failed, which a call has answered with an error after its rows were committed, or the start has
logged.

Abstractions. A provider keeps `base_url` and `api_key`, the columns that decide
validity; all settings but the mode are one value, and `seeded` says that the
mode is there; offers have no upstream name, so a route's model is the same slug
before and after `buildRoutes`; an invalid search or cache setting, or a bad
extension, is not in the tables. `create` and `update` are the same upsert, as they
are in the code. A masked key that has nothing to replace is staged as some value.

What the code does is what the model does. These are consequences of it that
no property states: a PATCH fills what it was not given from the live config, so
the first of two patches before an apply is lost; a PATCH without `api_key`
stages an empty one; `PUT /extensions/{name}` replaces the whole setting (all
settings are one value here); the exported file masks keys with another text than
the one PATCH recognises.

The management API is mounted only when the server is given a store, which the
binaries do not do at this commit (see the findings), so these calls are those of
an embedder or of the tests.

### LiveConfig

The abstract specification has the committed rows, the live config, whether the process
runs, and whether its last load failed. In a process that runs, the live config changes only by a
`Publish` of a whole config loaded from the rows committed at that very moment; a `Start` serves
such a config too, or the YAML config with `failed` set, as `runTransform` does with a warning. `ConfigStore` without
profiles implements it (`ImplementsLiveConfig`): although an apply reads five
tables in five statements while other calls write, and although crashes and
errors interrupt it, no reader sees a mixture or an older config.

With profiles it does not: activation takes no mutex (see the findings).

### SessionManager

A request is a member of `Requests`. `Arrive` and `LookUpAgain` are
`sessionForRequest`: they read the clock (`at`) and then wait. `dispatch.go:63`
and `adapter_dispatch.go:78` and `:852` ask for the session up to three times; in
the model any number of times. `Lock` takes the mutex and prunes with the time
that was read; `Hit` and `Create` finish `GetOrCreate`; the lock is held between
them so that the limit and the TTL, read one after the other from the live
config, may differ. `NewEphemeral` is a request without a session header. `Wake`
and `Prune` are the ticker goroutine, `Stop` is `Server.Close`, `Reconfigure` is a
reload of the runtime. The session a request works with is `held`: which one, and
when it asked. What a ticker wake-up may do after `Stop` is left out (a
`select` with both channels ready may prune once more). `List` and the late
`InitExtensions` for sessions older than the plugins read the table or fill in a
field and are left out.

### ModelRouting and Dispatch

`ModelRouting` has no variables. `LoadsOf` is what a config file may become: with a
route that names no provider there is one config per provider that offers its model,
since `buildRoutes` takes the first in the iteration order of a map. `ResolveModel`
gives the set of candidates of a name, and `IsFirst` the first of a set in the order of
the sort (priority, then key). Providers are numbers in the order of their keys.

In `Dispatch`, `live` is the config of `Runtime.Current()`; `Reload` replaces it by any
config of `Files`, at any time. What a request took from one reading it keeps in
variables of its own, and each later reading is of the new `live`:

| action | code |
|---|---|
| `Receive`, `Reject` | the body is decoded, or refused (405 is among the "bad request" answers) |
| `Resolve`, `UnknownModel` | `resolveModelOrFallback`, first reading |
| `Filter`, `NoneFits` | `filterCandidatesByInput`, second reading |
| `PassThrough`, `ToAdapter`, `NoAdapter` | the branch on the protocol of the first candidate; `handleOpenAIResponse` keeps a third reading, `pm` |
| `Skip`, `Attempt`, `TransportFails` | the loop over the Responses candidates: no base URL, a call, an error before a response; `Advance` continues with the next one, `GiveUp` is the `isLast` branch |
| `UpstreamResponds`, `CopyEnds`, `CopyFails` | header and body of the upstream's response, report by the last lines or by the deferred `hookErr` |
| `Convert`, `ConversionFails`, `Connect`, `NoClient` | `handleWithAdapters` up to the upstream call; the Chat and Google clients are a further reading |
| `UpstreamFails`, `Respond`, `StartStream`, `StreamEnds` | the ways out of `handleWithAdapters` and `handleAdapterStream` |
| `Disconnect` | the client goes, and the request's context ends |

Abstractions. A client is its address and key. A request has no image, one that is an item of its
input ("item"), or one within the content of a message ("content"); `requestHasImage` looks at the
types of the items, and so `RequestHasImage` is true of the first kind of image only: `Fit` lets the other
pass unfiltered. Whether a model takes images is a
matter of its slug (an offer's overrides may change it per provider). The rounds of
a search or of the visual extension are upstream calls with the same client and are one
call here; conversions succeed or fail. `json.Marshal` of a decoded request does not
fail. A plugin registry and statistics are there, as in the binaries; without a
registry the non-stream adapter path would not record usage either. The fallback of a
server without a provider manager, the bearer token and the session are left out.

Consequences of the code that no property forbids: a stream that breaks off, on either
side, is reported as success (`StreamEnds`); a provider removed from the config keeps
being called through the client made at start, while another that the reload brought is
resolved (`ActiveClient`); a body that could not be copied is reported as an error
and not billed; when the first candidate speaks the Responses protocol, candidates of
other protocols are never tried, and behind an adapter there is no fallback at all.

### ResponsesStream and ProviderStreams

`ResponsesStream` is the state of one `streamLoop` (`openai/adapter.go`): the
response's output, and the maps by the index of a content block. Each action takes
the oldest core event from `core` and appends what the loop writes to `sent`: one action
per case of its switch, with the cases that end items early. A missing entry of a Go
map reads as 0, and so does it here: that is how an event for an unknown block gets to
output position 0.

`ProviderStreams` adds what comes before it. The provider is nondeterministic: it opens
blocks, sends pieces and stops, breaks off or fails, within what its protocol allows.
The actions named for a protocol are the cases of `convertEvent` (Anthropic), of the
chunk loop of `ToCoreStream` (Chat, Gemini) and of the two conversions of a whole answer
into a stream (`coreResponseToCoreStream`, `coreResponseToStreamEvents`). A piece of text
is a number, so a text is the sequence of its pieces and the question "is everything
there, once and in order" is an equation with the ghost `given`. The next chunk is read when
the core events of the last one have been translated: the channels between are queues,
which `StreamPipeline` shows.

`habits` names what a provider does that the adapters are not ready for, and each
property says how far it still holds then:

| habit | what the code does with it |
|---|---|
| `server_input` | Anthropic's own tool is held back, its input is not: it goes to output position 0 |
| `status_in_text` | a text block turns into a search status: it is suppressed to its end, and its item is never done |
| `text_again` | Chat sends text after calls: where only reasoning came before, the text takes the index of a call and goes to its item |
| `late_reasoning` | Chat sends reasoning after calls began: what follows goes to position 0 |
| `unnamed_call` | a Chat call without a name is not announced |
| `same_snapshot` | Gemini repeats a text: it is sent again |
| `call_with_image` | a streamed Anthropic request with an image, answered by the visual extension, loses its calls |

`TextIsItsDeltas` holds under all of them; `ClosedItemsStayClosed` and `ItemsAreAnnounced` under all
but `server_input` and `late_reasoning`, with which an event goes astray; `ContentArrivesWhole` for a
provider without any.

### StreamPipeline and StreamFifo

A request has four processes: `reader` (the goroutine over the body), `adapter` (the one of
`ToCoreStream`), `loop` (`streamLoop`) and `handler`. `chunks` and `events` are the
buffered channels; the one between loop and handler has no buffer, so `WriteEvent` is a step
of both. `pc` and `hand` say where a process is and what it has received and not yet passed
on. An Anthropic adapter reads the body itself: then `chunks` is what has arrived, and the
adapter ends or fails with the body, while the Chat and Gemini adapters report completion
however it ended. `ClientLeaves` is unnoticed until a write fails or `ContextEnds`. After `ClientStalls` a
client is connected and reads no more, for good, and no `WriteEvent` is possible: nothing ends a write
(`runHTTPServer` sets no `WriteTimeout`).
`buffer` is one per adapter, not per request: `Begin` empties it, `TakeChunk` fills it, and
`Remember` reads both, whatever the request's protocol. `shared` is a ghost: whose buffer
somebody else has used.

`StreamFifo` has one queue per request: put, get, and lose when given up.

### InputItems, InputLoop, ProviderMessages, ReasoningMemory, CachePlan, Conversation

`Take` is one turn of the loop of `convertInput`, as a function on a record of what it has at
hand; `AllTaken` is what follows the loop. In Go, reasoning that waits is a slice that is
emptied with `[:0]` and filled again, while messages made of it before may lie in the same
array: `room` and `sharers` keep that, and writing into it changes those messages.
`InputLoop` reads any sequence of items; `Conversation` only those that a client gets from
the server.

`Conversation` is the round trip. `history` is the client's: `UserSpeaks`, `RunTools` and
`Answer` add to it, and with the constant habit `echoes` it keeps the reasoning or not. `Ask`
sends `CoreMessages` through the adapter of the protocol, puts back the session's reasoning
(`prependCachedThinking`, `prependCachedReasoningForChat`) and plans the cache marks. `Answer`
remembers the reasoning for each call, prunes the memory to `Limit`, and returns the items, whose
order differs between whole answers and streams. `SessionLost` is the expiry or eviction that
`SessionManager` describes.

Two simplifications: a call has a tag of its own, also with Gemini,
where the code makes up `name__call_n`, which may repeat from turn to turn, and sends the name alone (the order in
which results follow their calls is the code's); and the top-level `cache_control` that the mode "automatic" adds
(`internal/protocol/anthropic/cache.go:149`) is left out: it is no mark of a message, and the marks here are those that
the planner places.

### ToolNames, ToolLoop

`ToolNames` flattens the declared tools: namespaces become prefixes, a grammar for patches
becomes five tools, the shell one, names that are taken are dropped. `OutputItem` is the way
back. A name is the sequence of its parts, so that two tools may come to have one name.

`ToolLoop` is one request. Which loop it gets depends on its protocol, on streaming, on an
image and on the injected search (`VisualRuns`, `SearchRuns`), and the six actions
`AnswerFrom…` are the tests that each of the loops makes on an answer. `RunCall` runs the next call, well or
not; `NextRound` sends all results; `Exceeded` is the bound on the rounds. Connections break
and clients leave at any time. `Answered` is what the client is given: all of the answer, but for a streamed Anthropic
request with an image that the visual loop answers (`LosesCalls`), of which `coreResponseToStreamEvents` passes on
reasoning and text only. Without an image the same loop's answer goes through `coreResponseToCoreStream`, which keeps
the calls. With Gemini a result carries a name and no id; the order is what keeps it with its call.

### WebSearchModes

The modes are written in a map by provider, candidate and model name; the actions go through providers, models and
routes in any order, as `range` over a Go map does. `Reload` makes a new provider manager, whose map is empty.

### ServerLifecycle

`stage` is where the main goroutine is, from `InitAll` over the database, its consumers and
`runHTTPServer` to the deferred calls. `running` is how many plugins are initialised,
`handle` the state of each database, `rows` what became of each request's row of metrics. A signal
comes at any time after the listener is started, the listener may fail, and each step of the start may fail. Left out are a
signal before that, which ends `runHTTPServer` at once, and `handler.Close`, which stops the session pruner (`Stop` of
`SessionManager`).

## The runs

| run | shows | distinct states |
|---|---|---|
| `store_apply` | two clients, three staged rows, two providers, every statement may fail, one crash and a start whose load may fail; `InStageOrder`, `MarkedIffCommitted`, `LiveConfigSound`, `ServesCommittedRows`, `ImplementsLiveConfig`, `EveryCallReturns` | 285,060 |
| `store_profiles` | two clients, two profiles, a store that was never seeded; `OneActiveProfile`, `ProfilesLoadable` | 380,225 |
| `sessions_table` | two requests, three keys, limits 0 to 2; `Isolated`, `ConversationKept`, `OldestGoFirst` | 2,727,654 |
| `sessions_expiry` | `ExpiredSessionsGo` under changing TTLs | 160,748 |
| `dispatch_serve` | one request on every path, reloads between all its steps; `CredentialsTogether`, `SpeaksItsProtocol`, `FallbackInOrder`, `ImagesOnlyToVision`, `ReportedAsServed`, `AbandonedRequestsEnd` | 234,120 |
| `streams_translate` | every stream of up to seven chunks in three blocks, of each protocol and with every habit; `ClosedItemsStayClosed`, `ItemsAreAnnounced`, `TextIsItsDeltas`, `ContentArrivesWhole` | 537,256 |
| `streams_pipeline` | two streams, channels with room for one, clients that leave or read no more; `StayingClientGetsAll`, `OwnStreamRemembered`, `DeliversInOrder`, `HandlersReturn` | 657,914 |
| `input_items` | every input of up to five items; `OneWaits`, `CallsAndOutputsKept`, `ReasoningLeads` | 271,453 |
| `conversation` | four answers with three protocols, a memory of two calls that may be lost; `ResultsFollowTheirCalls`, `ReasoningIsItsOwn`, `RecentCallsHaveReasoning`, `MarksReachTheNewest`, `NoMarkIsWasted` | 2,080,294 |
| `tool_loops` | every kind of request, up to four and three rounds; `EveryCallHasItsResult`, `ClientCallsReachTheClient`, `FunctionCallsComeBack`, `RequestsEnd` | 277,628 |
| `lifecycle` | one life of the process with two requests; `HandlersHaveWhatTheyUse`, `ServerStops` | 127,940 |
| `web_search_modes` | a model whose own setting is "enabled" is served with injected search: the mode of its candidate is overwritten by that of its name or of a route (violation of `ModelSettingWins`) | |

Several modules state further properties that the code does not have; the comment on each
begins with what the code or a document says and goes on "Does not hold". No run checks
them; the findings give their counterexamples. To see one, name it under INVARIANTS or
PROPERTIES of the run's configuration (for `ConfigStore`, with `SettingMenu` or `ImportMenu` of
`MCConfigStore` as `Menu`, or with the profiles' configuration, as the comment on the property says).
`TypeOK` of each module is not in a configuration either: for `ConfigStore`, `SessionManager`, `Dispatch`,
`ProviderStreams`, `StreamPipeline` and `ServerLifecycle` it is proved; for `InputLoop`, `Conversation` and `ToolLoop`
the invariants of the proofs hold the types they need, and it documents the state.

Bounds. Two clients are enough for every race above, since each is between two
calls; the proofs remove the bound for the safety properties. `MaxChanges` = 3
stages two rows for one apply and one that is staged while it runs. One crash
suffices to lose any intermediate state once, and the state after it is again an
initial state with other tables. `EditMenu` has what can go wrong with
references: a provider deleted under its route, an offer staged after the deletion of its
provider (which loads as one without address and key, and is refused), and a PATCH with a masked key. The rows of `store_apply` have two providers
that both offer the model of a route which names neither, so that two loads of the same rows may
give different configs: the route goes to either. In `store_profiles` the
other kinds of requests, among them an offer of a model that does not exist yet, are between saves and activations; its `File` has one
provider, one offer and one route, `LargerFile` a second model.

For the sessions, three keys with two concurrent requests fill a table beyond a
limit of two, then lower the limit to one; four identities allow a key to be given
a second session after its first was evicted; `MaxTime` 3 with a TTL of 2 reaches
the moment of expiry and the one after it. `MaxWait` is how long a lookup may take
from reading the clock to its end: `Tick` does not overtake it. It is a
parameter of `ConversationKept`, not a bound of the checker: the code promises
nothing if a goroutine may wait for the mutex for ever. Requests and keys are
interchangeable, so `sessions_table` uses symmetry; `sessions_expiry` checks
liveness and does not.

One request is enough for `Dispatch`: requests share nothing but the config, and
what other requests do is not read by it. The proofs are for any number. Nothing in the
module counts, so there is no bound. The three files of `MCDispatch` differ in what a
reload may change under a request: the first has three Responses providers with equal and
different priorities; the second removes one, moves another to the Chat protocol, a
new address and key, and swaps the order; the third gives no protocol to one, which is
Anthropic, has a Google provider, and no model that takes images. The names asked for are
the slug, an upstream name, a route alias, a direct reference and an unknown name.

For the streams, seven chunks in three blocks are enough for a block to be opened,
interrupted, resumed and closed beside two others. In the pipeline, channels with room for one
are full and empty again within two chunks; two requests share a buffer or not, and the
second, with one chunk, may come and go while the first is served. The proof is for any capacities.

Five items put reasoning, two calls and what follows them into every order. Four
answers with a memory of two calls make the memory overflow, and give a conversation that
has more messages than there are cache marks. Four rounds of search and three of the visual
loop reach their bounds (5 and 4 in the code by default) with every result in between. The lists of tools in `MCToolLoop` have functions, namespaces
with equal names, a patch grammar and a shell. In `lifecycle` there are two databases, one of
them the Worker's, and two consumers.

Each passing property has a mutant in `PROJECT.json`: a change of one mapped
definition, as a bug might make it, that violates it in the same run.

## Fairness

`ConfigStore`: strong fairness for the next step of each call in progress.
A goroutine that may run is run; `sync.Mutex` hands over in starvation mode after
1 ms, and `database/sql` serves the requests for a connection in order, so a call
that is again and again able to go on does go on. Nothing forces a client to call,
a statement to fail, or the process to crash.

`SessionManager`: the ticker fires (weak fairness of `Wake`), and the pruner and
the lookups get the mutex when it is free again and again (strong fairness, for
the same reason). Requests need not finish, and the clock need not advance.
`ExpiredSessionsGo` needs only these: the clock is where it is, and the pruner
removes what has expired by then, or somebody uses the session again.

`Dispatch`: the handler goes on when it can (weak fairness of `Handle`). An upstream
call or a transfer must end only once the client has gone, since `net/http` ends the
request's context then; the upstream client has `Timeout: 0`, so an upstream may keep
a request for as long as its client stays, and nothing stronger is assumed. Only
`TransportFails`, `CopyFails`, `UpstreamFails` and `StreamEnds` are forced then: the
code cannot rely on an answer.

`StreamPipeline`: each goroutine that can go on does (weak fairness of the steps of the adapter, the
loop and the handler). `net/http` notices at last that a client has left (`ContextEnds`), and a body
ends with the request's context. Otherwise nothing is assumed of a provider's body: the upstream
clients have no timeout, so a provider may keep a stream open for as long as its client stays.
Nor of a client: `WriteEvent` is a step of the handler that is possible only while the client reads, since
`writeSSE` blocks on a full connection and the server has no timeout for writes.
`HandlersReturn` makes exceptions of these two cases, and of no other: a provider that keeps the stream of a client
that stays open for ever, and a client that stays and never reads again.

`ToolLoop`: the server runs calls and starts rounds when it can; a search has a timeout of 30 or 60 s and
then fails, which is a result as well. A provider may be silent while its client stays; a call ends
with the context once the client has gone. `RequestsEnd` therefore has as its hypothesis that the provider answers
again and again, or that the client leaves. `ServerLifecycle`: the main goroutine goes on while it can. Nothing says that a
handler returns: `ServerStops` has that as its hypothesis, since `Shutdown` waits without a
limit. `ProviderStreams`, `InputLoop`, `Conversation` and `WebSearchModes` state no fairness and
no liveness.

## What is proved

The proofs hold for any number of clients, requests, keys, providers, models and
routes, any menu of requests and any bounds. Assumptions: `ConstantsAssumption`,
`RequestsAssumption`, `StoreAssumption`, `FaultyAssumption`, `SessionAssumption`,
`RoutingAssumption`, `DispatchAssumption`, `PipelineAssumption`, `ProviderAssumption`, `InputAssumption`, `ConversationAssumption`,
`LoopAssumption`, `ToolAssumption`, `LifecycleAssumption`
(the markers for "nothing" are not values, the config file is valid, the initial
rows are rows, a list of tools is a sequence of tools as a client may declare them).

`ConfigStore_proofs`. `TypeCorrect` is inductive with little help.
`AppliedInStageOrder` and `MarksAreTrue` come from one invariant, `Ledger`: what a
call has listed are the oldest rows of those still pending; what it has applied, and
all that was ever committed, is older; only the holder of `applyMu` has a list; the
committed ids are the marked ones; ids are below `nextId` and name one row. It is needed because the property speaks of
one transaction, but is broken by what another call does between its list and its
commit.

The second half of the module: `LiveConfigIsSound` and `ProfilesCanBeLoaded` follow from
`OnlyConfigs`: the snapshot, each saved profile and each profile being saved or
activated satisfy `IsConfig`, and `IsConfig` gives rows that load to themselves
(lemmas on `Outcomes`). `ServesWhatIsCommitted` and `StoreImplementsLiveConfig`
assume `ProfileNames = {}` and rest on `Loading`: while a call loads, it holds the
mutex, nobody has a transaction, and the parts read so far equal the committed
tables. It is the step in which another client changes `tables` that needs it:
`Commit` requires the mutex that the loading call has. The refinement maps
`committed` to `tables`, `live` to `snapshot`, `running` to `up` and `failed` to `unpublished`; `Commit` and `SeedFromProfile`
map to `CommitRows`, `Publish` to `Publish`, `RefuseRows` and a load that fails to `LoadFails`, `Crash` to `Stop`,
`Boot` and `BootFromYaml` to `Start`, the rest stutters.

`Server_proofs`, the sessions. `Retained` strengthens `ConversationKept`: while the
session a request holds is due, it is the one in the table, and the entry's
`lastUsed` is at most `MaxWait` before the moment the request asked for it;
and a lookup in progress carries a time at most `MaxWait` old. It has to cover the
requests that wait with an old time, since they may set `lastUsed` back. `Owned`
strengthens `Isolated`: identities are below `nextId`, and one identity belongs to
one key, in the table and among the requests. `LimitIsKept` and `OldestAreGivenUpFirst` are
action properties from the type invariant and facts on the cardinality of `Kept`.

`Dispatch_proofs`. The inductive invariant `DInv` says `Sound(r)` of each request: the
four properties that are not about images, `Course` (what is set at which step: the
`pc` and the answer, the reports, the call) and `Origin`. `Origin` is what the
properties need beyond the request's own variables: every candidate is genuine, that is,
some config declares its address, key and protocol together (lemma `ResolvedGenuine`
for the three ways of `ResolveModel`), and after the filter every candidate takes
images if one is an item of the request's input. Since `Reload` changes only `live`, and `Sound` speaks of all of
`Configs` and never of `live`, a reload cannot break it (lemma `Frame`). Proved are the
types, `CredentialsTogether`, `SpeaksItsProtocol`, `FallbackInOrder`,
`ImagesOnlyToVision` and `ReportedAsServed`. For the order, `FirstUntried` shows that
what comes before the first untried candidate has failed.

`StreamPipeline_proofs`. `PipelineTypes`: with the typing of goroutines, channels and buffers,
no channel holds more than its capacity. `PipelineIsFifo` maps what is on its way to one queue, `InFlight`:
what the loop has in hand, the events, what the adapter has in hand, the chunks. Lemmas on
sequences say that moving an element from the head of one part to the end of the part before leaves
the concatenation as it is (a stutter), that reading a chunk or ending the body appends to it (a put),
and that a write takes its head (a get); losing one needs the context or the client to be gone.
Beside the types its invariant is `HandsMatch`: a process has something in hand exactly while it
passes it on, and both are idle until the handler begins.

`WhoStaysGetsAll` proves `StayingClientGetsAll`. While the client stays, `Ordered` says, the parts of a
request end one after the other, each when nothing is left for it: the reader, the adapter
(no chunks), the loop (no events), the handler; so the context is done only at the end, and no event is
dropped. `Whole` says that what was received and what is on its way are together what the provider
sent, with at most one final event once the adapter is past the body's end. At the end the queue
is empty. `Whole` alone is not inductive: the adapter's answer to an ended context would break it.

`OwnStreamIsRemembered` proves `OwnStreamRemembered`. `InLine` says that the chunks which wait are the next
ones the reader has read, so that `Taken` is how many the adapter has taken; `Alone`, that the buffer of a
request under way that shares it with nobody holds just the first of them, up to the limit. It needs
`Together`: two requests under way on one protocol have both been marked as sharing, whichever began
first, so a write to the buffer by another request is never a write to the buffer of an unshared one.

`Conversation_proofs`, its last part, is about `InputLoop`. `OneOfThemWaits` is inductive: reasoning that comes while calls wait is put
among the calls, and a call takes the waiting reasoning along. `ReasoningIsFirst` strengthens `ReasoningLeads`: in what waits, in every message, and in every message
that shares the array of the waiting reasoning, the reasoning of the input is a prefix; an
empty reasoning, which is put between calls, is not of the input. The array that is written over is
covered: it is written by reasoning only at positions within its `room`.

`CallsAndOutputsAreKept` follows the tags of calls and of outputs, as a sequence, through each of the six places
at which something is flushed (`TakeTags`: an item adds its own tags behind all there are, or none). Since a
message that lies in a shared array has reasoning and text alone, what is written over it changes no tag.

The rest of `Conversation_proofs` is about whole conversations. The invariant, `Turn`, says how `convertInput` reads the
client's history (`Reading`): between the turns it is `Settled`, no call waits; while the client runs tools it
is `Asking`, and just the open calls wait. What is read is `Tidy` (types; reasoning and calls do not wait side by side;
every message has a content that fits its role; a message in the waiting reasoning's array has no calls) and `Paired`
(the results in the tool's messages behind a message are those of its calls, and there are no others). Each action
keeps that: an answer, whole or streamed, with or without its reasoning, leaves just its calls waiting
(`AnswerAsks`, from no text coming after a call); the outputs in any order settle them
(`OutputsSettle`); the DeepSeek reminder goes in before a message of the user, never between calls and
results (`ReinforcedTalk`). The messages of Anthropic and of Gemini are groups of the core messages in their order,
in which results that follow each other are together (`AnthropicGroups`, `GeminiGroups`), and pairing is kept by
such groups (`GroupsPaired`); for Chat it is kept message by message (`RunsAnswered`). From this
`ResultsAreWithTheirCalls`. `MarksAreAtTheNewest` and `MarksAreAllUsed` rest on `PlanMarks`, for any messages and
any sizes: `EvenlySpaced` picks as many positions as it has slots, each once, the last among them
(`SlotsAreApart` is the arithmetic of the slots); the invariant gives it that no message is empty and one is the user's.
Neither `Limit` nor `MaxTurns` matters, and nothing is assumed of the memory: whatever reasoning is put back, these hold.

`ProviderStreams_proofs` is about the loop and the adapters together, for every protocol and whatever a provider
does. The loop handles an event long after the adapter has emitted it, so the invariant has to
relate what an adapter will emit to what the loop knows by then. `Fits` says of one block when it does no harm
to start it, to send it a delta or to end it (a text delta fits a block whose item is no message that has ended, for
instance). `Allowed` says the same of a later moment: it fits now and nothing in the queue disturbs it (`Left`), or
something in the queue makes it fit (`Made`) and nothing after that disturbs it. `AllFit` asks it of every event
in the queue, for what is before it, and is kept since handling the first event has just the effect of `Made`
and `Left` (`FitsKept`, from `Effects`: what a step does to the place and the maps of its own block and leaves of the others).
Each adapter has its own list of what it may emit next (`AnthropicCan`, `GoogleCan`, `WholeCan`, `ChatCan`), as
pairs of a deed and a block; a step of a provider emits only what is on the list and renews it (`Emits`: `Sound` and `Comes`
follow an emission event by event). The chat adapter needs most: a call's slot is behind the slots before it and, while the
current block is one of reasoning, behind the block (`ChatSlots`), or reasoning has interrupted the calls and an event
may go astray. With events that fit, the loop keeps its maps and items in order (`Struct`: no two blocks have one
item; a reasoning block is no message), each message in progress has the text its deltas said (`Texts`, for `TextIsItsDeltas`),
and what is told of an item is told between its start and its end (`Ends`, for `ClosedItemsStayClosed` and
`ItemsAreAnnounced`). `Typed` has the types, and that every output index names an item, which is what keeps
`output[index]` of the code in its bounds.

`StreamContent_proofs` builds on these. `ArrivesWhole` (`ContentArrivesWhole`) needs an order: not only that each event
fits, but that all that is on its way adds up. An *account* is what the answer is to be after some of the events:
its items with their types and texts, the item of each block, the text blocks that have begun without an
item, and the blocks whose items are still open. `Follows` says what one core event does to an account, a
third description beside the adapters and the loop, and simpler than either. The invariant, `Kept`, says of a stream
without misleading habits that there are two accounts: one that agrees with the loop's items and maps
(`Accounted`, through which `Translate` is followed event by event), and one that the events in the queue
lead to (`Runs`) and that agrees with the adapter and adds up to `given` (`Rest`: what each adapter's state
says of its open blocks, and that texts, reasoning and arguments, put together, are what the provider sent). A step of the provider
extends the second, a step of the loop moves the first along the queue; at the end the queue is empty, the two are
one, and no block is open. Since `Kept` quantifies over all accounts, and the events between two accounts over all
ways of getting there, TLC cannot evaluate it; what TLC checks is its consequence, on `streams_translate`.

`ToolLoop_proofs`. The invariant relates `results` to the first of `calls`, one by one, in the phase
"run", and says of each round sent that it is such a pair, complete. `ClientGetsItsCalls` rests on
the tests of the six loops: a loop goes on only with calls of its own tool; what the client is then given is the whole answer,
unless the request is streamed for its image (`StreamedForItsImage`), which the theorem excepts as the property does. `FunctionCallsAreFound` rests on
two facts about the flattened tools: each stems from a declared tool and is named as the client expects
it (`ConvertedIsExpected`), and of tools of one name the first is kept (`FirstOfNameKeeps`), so that a name which
only functions have leads to one of them.

`Server_proofs`, the process. The invariant says by stage what is running, bound and open: while
somebody is handled and the listener has not failed, `stage` is at most "drain", so all plugins run, and
a bound consumer means that the database is open.

What recursive functions compute (the folds over items, messages and names) is proved without an induction
theorem: a set of numbers that holds 0, and with `k - 1` also `k`, holds all, since it has no least gap
(`AllUpTo`).

Only model-checked: the liveness properties `EveryCallReturns`, `ExpiredSessionsGo`, `AbandonedRequestsEnd`,
`HandlersReturn`, `RequestsEnd` and `ServerStops`, since liveness under fairness is out of
the prover's reach, as are ENABLED, induction theorems with an operator as a parameter, and RECURSIVE operators (there are
none in the modules proved about). Also `ReasoningIsItsOwn` and `RecentCallsHaveReasoning`, which need the content of
the memory of reasoning and of every message that has it. `ServesCommittedRows` with
profiles is false.

## Findings

What was found where the code and its documents, comments or intentions part is listed in
`PROJECT.json` with its line. In short:

- *store*: a discard, an import and an activation race with an apply; a repeated apply
  answers success without loading. A start whose load fails serves the YAML file and only logs it. The branch that seeds a fresh store is unreachable, and the
  binaries do not mount the management API.
- *dispatch*: an image within a message is not seen by the filter, and goes to a model that takes none;
  failures on the adapter path are not reported to the hooks; an offer's
  upstream name is not sent; the order of direct references and routes.
- *streams*: a failed write leaves the goroutines behind the handler blocked; a client that reads no more holds its handler, since
  no write has a timeout; buffers, and in the
  Gemini adapter the fields of a conversion, are shared by all requests; signatures are lost;
  hidden tools leak their input; `completed` is reported for cut answers; a repeated Gemini snapshot is
  sent twice; calls of a streamed answer about an image are dropped.
- *input*: reasoning that waits shares an array with earlier messages and overwrites them.
- *tool loops*: only the last round of a buffered stream is sent; deltas of arguments are merged
  as if they were snapshots; streamed Anthropic requests get the search tools and no loop.
- *tools*: the setting of the patch proxy is asked by the name of a tool, and from the
  configuration at start.
- *cache*: the client's cache key is not read; the registries are asked under an empty key, or warmed
  for a content that was never made.
- *web search*: modes depend on the order of Go maps and are lost with a reload.
- *process*: the summary is written before the requests end; a shutdown waits for ever; a listener that
  fails closes the database under its handlers.

Consequences that are in the models and not findings: reasoning of an answer that was broken
off goes to the calls of the next one (`BrokenOff` in `ReasoningIsItsOwn`); a whole answer is
returned with its reasoning before its text; the results of the visual loop over Chat are text
without the id of a call; the search loops report the usage of the last round; the DeepSeek reminder is put in again in every visual round; prices are given to the
statistics at start only.

## What is not modelled, and the plan

What is left of the parts modelled: the queries and traces beside a request; the
registries of the prompt caches with their TTLs (under the keys they are asked with they do
nothing, see the findings); the records of reasoning by the text of an answer; the
sums of usage and their prices; the conversion between rows and file with upstream names, as a
refinement of `ConfigTables`; D1 and the Worker; the Kimi workaround, which rewrites
one request and keeps no state.

In this order: `SessionStats` (sums under concurrent completions and the
prices of a reload); `CacheRegistry` with the key as it was meant; the capture of traces, whose
counter is under a mutex; the rows and the file with upstream names.

More to prove: `ReasoningIsItsOwn`, from what `Remembered` finds; `OneActiveProfile` kept when profiles are activated by several processes on one file.

Not planned: the text of the Codex catalogue and grammars, YAML syntax, the
capture proxies, D1's HTTP transport, trace and log files, the desktop launcher and
the scripts. They are formatting, pass-through or external services.
