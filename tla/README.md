# reefy-llm-proxy in TLA+

Models, model-checking runs and proofs for `src/reefy_llm_proxy`, the
OpenAI-compatible proxy that holds OAuth credentials for the attached LLM
providers, keeps them fresh, and forwards requests to them.

Paths below are relative to the repository; line numbers are of the commit the
project was written against. `PROJECT.json` maps every definition to its lines.

## 1. The system

One asyncio event loop, one process per device. Nothing preempts: between two
`await`s a handler runs alone, so an *action* of a model is the code between
two suspension points. What makes the system hard is what can happen at those
points.

| Component | State | Operations | Talks to |
|---|---|---|---|
| Credential store (`credentials.py`) | `_vault`, `_chain_seed`, one `asyncio.Lock` per key; `credentials.json` (read only), `credentials.runtime.json` | `_load` / `reload` (chain merge), `get`, `update` + `_persist`, `lock_for`, `discovery_identity` | both files; everything below calls it |
| OAuth refresh (`refresh.py`, `proxy.py` `_ensure_fresh` and the 401/403 path) | locals `cred`, `current` across awaits | proactive refresh under the lock, reactive refresh and one resend | token endpoint, store |
| Watcher (`main.py` `_watch_attach_file`, `lifespan`) | an inotify watch, armed when the task first runs | `store.reload` on added/modified | the file's owner, store |
| Retry (`retry.py`) | three counters per call | `request_with_retry` | wraps every outgoing call |
| Forwarding (`proxy.py` `forward`) | one handler per request, the shared httpx connection pool | resolve provider, refresh, forward, stream back | all of the above |
| Model registry (`registry.py`) | `_cache`, `_retry_at`, `_fetch_lock`, cache file | `_maybe_refresh`, `list_for_api`, `resolve_provider` | store (identity, token), upstream `/models` |
| Codex translator (`codex_translator.py`) | `tool_calls`, `buf`; the collector's `calls`, `finish` | `chat_to_responses`, `responses_sse_to_chat_sse`, `collect_chat_sse` | upstream SSE, client |
| Stats (`stats.py`) | counters, their file | `add_request`, `add_tokens`, `snapshot`, write with every increment | forwarding |
| Debug capture (`debug.py`) | `enabled`, the chunks of each captured stream | `POST /internal/debug`, the tee `wrap_response_stream`, `dump_request_response` | forwarding |
| Provider table and configuration (`providers.py`, `config.py`), HTTP routes (`main.py`) | constants | - | - |

What is hard, and what makes each part correct:

- **Store and refresh.** Providers rotate refresh tokens and revoke the whole
  chain when a spent one is presented. Any number of requests may find the same
  token expired or refused; the file may be re-attached, detached, broken or
  removed at any await; the POST may be lost after the provider has rotated;
  `_persist` may fail; the process may die anywhere. Correct means: one POST
  per provider, only with a cause; never a spent token unless one was really
  lost; the attached account wins; restarts and reloads bring nothing back.
- **Watcher.** Changes before the watch is armed, changes that make `_load`
  raise, deletions. Correct means: what is reported is loaded.
- **Retry and pool.** Three budgets spent in any order, streamed responses that
  hold a pooled connection, a lock held across a POST that needs one. Correct
  means: bounded attempts, the lock released on every path, everything ends.
- **Registry.** Contexts are computed, tokens read, results stored and lists
  read at four different times, and accounts change in between. Correct means:
  no list is used for an account it was not fetched for, lookups coalesce and
  back off, nothing due is missed, last-good lists survive.
- **Translator.** Four kinds of events repeat a call's arguments, interleaved,
  contradicting or cut off. Correct means: the client assembles exactly what
  upstream said, contradictions and truncations fail closed.

- **Forwarding.** One request holds a snapshot of the attached providers and a
  credential across the registry's fetches, the wait for a refresh and a resend,
  while the accounts behind them change. Correct means: what routes a request and
  what authenticates it belong together at each attempt.
- **An exchange.** The response to one request is translated, collected,
  counted and captured by four parts that hear of its end in different ways: a
  clean end, a truncation, an exception, a client that leaves, a crash. What
  the client assembled then comes back translated in its next request. Correct
  means: upstream gets its own calls back, counters never claim what did not
  happen and survive, captures are tried for what was captured, and are whole.

`PROJECT.json` lists the hazards at their lines, with the properties that
would catch each going wrong.

## 2. Modules

```
Credentials ── TokenRefresh ── MCTokenRefresh                      (TLC)
                    │   ├── TokenRefreshProofs                     (TLAPS)
                    │   └── TokenRefreshInv ── TokenRefreshSafety ─ (also EXTENDS TokenRefreshProofs)
              AtomicRotation (abstract, implemented by TokenRefresh)
RetryPolicy ── RetryPolicyProofs
ModelRegistry ── Forwarding ── MCForwarding
       └── ModelRegistryProofs ── ForwardingProofs (also EXTENDS Forwarding)
CodexStream ┐
ChatRequest ├─ Exchange ── MCExchange
Stats       │       └──── ExchangeProofs (also EXTENDS CodexStreamProofs, ChatRequestProofs)
DebugCapture┘
CodexStream ── CodexStreamProofs
ChatRequest ── ChatRequestProofs
```

### Credentials
Data of the store. A *chain* is one attachment: the refresh token the user
obtained and everything rotated from it. A refresh-token value is
`<<chain, rt>>`, an access-token value `<<chain, at>>`, with `rt`, `at` the
rotations since; a seed, being the attached refresh token itself, is just the
chain number. `ChainAlive`, `Merge` and `Load` are the chain-merge rule of
`_load` (credentials.py:126-194), for a readable attach file and for the
fallback to the runtime file.

### TokenRefresh
The core. Variables on the proxy's side: `file`, `disk` (the two files), `mem`
(`_vault` and `_chain_seed`), `armed`, `event` (the watch), `lock`, and per
request `pc`, `target`, `mine` (the local `cred` of `forward`), `ask` (the
`current` whose token it has POSTed), `answer` (what the POST has come to). On
the provider's side: `live` (the refresh generation honoured per chain),
`reused` (chains revoked for replay), `stale` (access tokens within the expiry
skew). History variables, which no guard of the code's actions reads: `synced`,
`unsaved`, `spoiled`, `crossed`.

| Action | Code |
|---|---|
| `Arrive`, `AcquireE` | `forward` up to its first await, `_ensure_fresh` before and after the lock |
| `Unauthorized`, `AcquireR` | 401/403, the 30 s anti-flood guard, the comparison under the lock |
| `Refreshed`, `Refused`, `GiveUp`, `Repost` | end of `refresh_credential` with `update`/`_persist`; RefreshError; httpx exception; retry |
| `Finish` | the upstream call is over |
| `AnswerRotated`, `AnswerKept`, `AnswerDenied`, `AnswerError`, `Lose` | token endpoint and network (external) |
| `AttachWrite`, `AttachBreak`, `AttachRemove` | the owner of credentials.json (external) |
| `Arm`, `Reload` | the watcher; `Reload` is the whole of `store.reload` |
| `Restart` | crash at any point and a new `lifespan` |

`AtomicRotation` is what all of this promises: vault and provider rotate in one
step. `RotatesAtomically` is the refinement: the held token is the vault's, a
rotation whose answer is still under way has not happened yet, and slugs in
`spoiled` or `crossed` are void.

The histories say precisely when the promise is off: `spoiled` when the
provider has rotated and the answer, or the only copy of it, was lost (no
client can survive that), `crossed` when a reload changed the attachment under
a request that then writes back (a defect, see findings). `unsaved` marks a
rotation that a failed `_persist` left in memory only. The properties do not claim
that such losses are prevented: they say that nothing else leads to a replay or a
rollback. `spoiled` also has the slugs whose rotated token was dropped from both
files while their entry was away (`Dropped`, `Gone`): an entry of credentials.json
that lacks a field is skipped, the next `_persist` writes a vault without it, and
the repaired entry is the spent one.

### RetryPolicy
`request_with_retry` with its three counters, as used by `_forward_once` (a
streaming call) and `refresh_credential`, with the provider lock and the shared
connection pool. `leaked` counts responses nobody will close. An attempt may end in
an error that is retried, in one that is not (only four of httpx's are listed), in
`PoolTimeout` or in an answer; a refresh also in an answer it cannot use.

### ModelRegistry
`_maybe_refresh` and its two readers. `seed` and `account` are the store as
`discovery_identity` and `_fetch_one` see it: they differ only after a crossed
refresh (`Overwrite`). `Enter` is everything from taking the lock to the
`gather`, `Start` the first step of a `_fetch_one` task (which reads the token
*after* the contexts were computed), `Answer`/`Fail` its end, `Finish`
everything after the gather, including the reading of the cache, since no await
separates them. Entries carry `owner`, the account and release they were really
fetched with, which the code does not have; the property compares it. `Return` is
the store's fallback and its repair, which bring an earlier account back; `back`
marks the fetches under way then, whose contexts the code compares only at the two
ends. `Raises`: a lookup whose cache file cannot be created (`mkdir`, `mkstemp`)
raises instead of answering; other failures of the save are only logged. Time
passes in ticks; the cache holds ages (saturating at the largest limit) instead
of timestamps, so the models are finite without a clock bound.

### Forwarding
`ModelRegistry` with the request handlers that use it, for several providers.
`fw[f]` holds the locals of `forward`: the snapshot `attached`, the provider and the
credential; tokens are known by their account, since
`TokenRefresh` has their generations. `seedless` holds the providers that a refresh
has put back after they were detached: the store has no seed for them, and
`discovery_identity` falls back to the refresh token, so that each refresh makes
another account of them in the registry's eyes. `RegistryStep` joins the end of a lookup
with what `forward` does next, because no await separates them: the credential
is read after the lookup, the snapshot was taken before. `Updated` is
`store.update` after a refresh, over whatever has been attached meanwhile, so
that the overwritten token that `ModelRegistry` alone takes as an environment
step (`Overwrite`) has its cause here; if the persist fails then, the request ends
with the vault changed (`Answered`). `ImplementsRegistry` says that nothing else
happens to the registry: `Forwarding` is a refinement of `ModelRegistry`, with its
variables as they are, and so has its properties.

### CodexStream
The generator and the client's assembly of its chunks (`collect_chat_sse`, or
any ChatCompletions client, which assembles in the same way). `said` is the
history of what upstream last said the arguments are. `Completed` only starts
`response.completed`; its items are gone through one by one, because chunks go
out in between and the second item may raise after the first was sent. A delta of a
call that has not been announced is a step that tells the client nothing.

### ChatRequest
`chat_to_responses` as an operator from messages to instructions and input
items. A content block is its type, of ChatCompletions or native, and what a
translation makes of the types it knows is a table (`InputBlock`, `SpokenBlock`,
`TextBlock`); a call is its id and arguments. `Contents` and `Roles` are what a message can hold. The loop over the
messages is `FlattenSeq`: each message adds what `Instructions` and `InputItems` make
of it. `KeepsText` compares the text that goes in with the text that comes out: what
goes in counts where it is in a block of its message's role (`Readable`), since text
in a native block of another role is dropped (section 4).

### Stats, DebugCapture
The counters with their file, and the capture flag with the tee and the dump.
Each has the properties that concern it alone; their actions are used by
`Exchange`, which says when the code calls them. `gap` tells why the file may
differ from the counters: a write or a load has failed. `entered` tells whether the
response's generator has been started, without which no `finally` runs; a dump is
written, fails and is logged, or raises what `_write_dump` does not catch.

### Exchange
The composition: turns of one client with the codex backend. `Ask` is `forward`
up to the upstream call; `Begin` counts the request and sets up the way back:
`chat` (translated; every step of it is a step of `CodexStream`), `raw` (native
Responses, mirrored by `_stream_with_stats`) or `error`, which is mirrored and
scanned for usage alike, though its request is not counted (`uncounted`). `Start` is
the first chunk asked for; a client that is gone before it leaves the generators
unentered (`NeverStarted`). When a stream is over, `Close` runs the tee's `finally`,
which may break the answer. After a whole answer the client may go on with
what it has assembled, its calls and their results in any order, and the
translated request can be compared with what upstream had said. `Switch` flips
the capture flag, `Restart` is a crash, both at any moment.

## 3. Runs

All with 2 workers; states are distinct states.

| Run | Instance | States, time | Shows |
|---|---|---|---|
| `refresh` | 1 provider, 2 requests, 2 chains, 1 refresh per chain; the file broken, malformed, stripped, removed and repaired, failing persists, lost answers, restarts | 2.6 M, 80 s | the safety properties of refresh, and refinement |
| `refresh_live` | 2 requests, lost answers, failing persists, fairness | 95 k, 120 s | `RequestsEnd`, `EventsAreServed` |
| `refresh_reattach`, `refresh_forwards`, `refresh_watch` | small | < 1 s | findings (violations) |
| `retry` | 2 requests, a pool one leak from exhaustion, fairness | 45 k, 5 s | budgets, lock, progress |
| `retry_pool` | | < 1 s | finding |
| `registry` | 1 provider, 2 lookups, 2 accounts that come and come back, 2 releases, failing saves, overwritten tokens, restarts, fairness | 1.0 M, 170 s | lists, coalescing, back-off, last-good lists, progress |
| `registry_back`, `registry_first` | | < 1 s | findings |
| `forwarding` | 2 providers, 2 requests, 2 accounts, failing persists, fallbacks | 1.0 M, 85 s | routing and tokens of each attempt; lists of two providers; refinement of the registry |
| `exchange` | 2 turns, 2 calls, 3 values of arguments, 9 openings; failed writes and loads, crashes | 2.5 M, 95 s | assembly, failing closed, history, counters, captures |

Why the bounds are enough:

- *1 provider* for refresh: entries, locks and seeds of different providers are
  never related by the code, except that one `_persist` writes all of them and
  one reload reads all; the proofs are for any set. The constraint `Promised` stops
  where nothing is promised any more: from a state with a void slug only those
  steps are followed that lose no token and leave the file readable.
- *2 requests*: one to rotate, one to be overtaken. *2 chains*: before and after
  a re-attachment. *1 refresh per chain*: a spent token, a live one, and a
  chance to go back.
- *2 lookups* and one provider in `registry`: one lookup holds the lock while
  the other waits and then finds what it left. *2 accounts*: one that goes and
  comes back while the other is there. TTL and back-off 1 tick, empty TTL 0: the
  order of the limits is what counts, ages stop at the largest.
- *2 providers* and two requests in `forwarding`: one provider changes while the
  other keeps its account, and one request refreshes while the other looks up its
  model or waits. The constraint `Bounded` says so: the accounts of one provider
  change, and of two requests one at a time is in the registry, whose own run has two
  lookups. States that differ only in the cache file or the history are one (`Seeing`):
  without `Restart` nothing reads them back.
- *3 values of arguments* (nothing, a prefix, the whole): each continues the one
  before, and each is a conflict after the next. The constraint `Bounded` keeps a
  slot that the stream contradicts from growing for ever, and the last answer
  without calls: what calls can do has been done in the first.
- *2 turns*: the second request holds what came of the first response; a third
  would be translated and counted alike. The openings are sequences of one or two of
  six messages, which between them have every role, and every form and kind of
  content that the translation tells apart, native blocks of both directions
  included.

Symmetry is declared for safety runs only. Deadlock is checked except in
`exchange`, where a client may stop after its last answer.

**Fairness.** `asyncio.Lock` is FIFO, so a waiting request gets the lock if it
is free again and again (SF on the acquiring actions); every outgoing call has
a 60 s timeout (WF on the endpoint's answer or loss); `request_with_retry`
retries a bounded number of times, which `RetryPolicy` checks by itself, so a
request that could settle again and again settles (SF on `Settle`); the watcher
and the fetch tasks are scheduled (WF). No fairness is assumed of users,
upstream's mood, crashes or the clock.

**Mutants.** Each property of each passing run has a mutated definition in the
same module (`X_Something` before `X`), a plausible bug that makes TLC find
that property violated.

## 4. Findings

1. **A refresh in flight overwrites a re-attachment** (`refresh_reattach`).
   `update` stores under its key whatever was attached meanwhile, and `_persist`
   writes the old account's token under the *new* seed, so restarts keep it. A
   detached provider comes back in memory the same way.
2. **A connection error in a proactive refresh fails the request**
   (`refresh_forwards`): only `RefreshError` is caught, although the docstring
   promises to pass the stale token on.
3. **A change before the watch is armed is not loaded** (`refresh_watch`).
4. **Retried streaming responses are never closed** (`retry_pool`).
5. **A failed account's back-off outlives it** (`registry_first`): if it never
   had a list, the next account is not asked for up to 30 s.
6. **A list fetched for an account that came back for a moment is served for the
   other** (`registry_back`). A lookup has computed its contexts; before its fetch
   starts, the watcher loads a half-written credentials.json, and the vault falls back to
   the runtime file's account, with whose token the fetch goes out; before it ends, the
   file is complete again. registry.py:196 compares the contexts at the two ends, which are equal, and
   stores the list, although "discovery results" are to be discarded "if the
   attachment changes during the HTTP request" (docs/model-discovery-regression.md:12).

Smaller disagreements with documentation and comments, without a run of their
own, show in how the models are stated: after a failed `_persist`, a byte-identical rewrite of
credentials.json is not a no-op (hence `unsaved` in `ReloadIsNoop`), and
connection errors lead to four attempts, not three (`AttemptsBounded`). Usage
is not recorded "exactly once per request" (proxy.py:179) when its line is cut by
the end of a chunk of a raw stream, or the client leaves before it
(`CountUsage`), and it is recorded without a request for the body of an error or of
a request without a model (`uncounted`). The summary of a captured Responses stream, meant to tell "what
the model actually said" (debug.py:392), misses arguments that only a
completion has (`strayed` in `DumpReadsTrue`). "Every proxied request" is not
captured (README.md:147): refusals are not, nor is one whose client is gone
before its response starts (`NeverStarted`), whose upstream response is not
closed either; and a dump that cannot be assembled or encoded breaks the answer it
should only watch (`dump = "raised"`). Clients can "build mixed bodies"
(codex_translator.py:92) in user messages only: the text of a native block is dropped in a
system message, and in an assistant message unless it is output_text
(`Readable`). "On a malformed token we drop the header" (README.md:328) does not hold of
a request that brings a `ChatGPT-Account-ID` of its own, or whose refresh returns
such a token: proxy.py:70 then leaves the one there is. A provider attached while a bare name is looked up is refused for
that request although the registry lists the model for it (`Matches`).

## 5. Proofs

Every safety property of the passing runs is also a theorem, proved by TLAPS for
every set of providers, requests and items, every bound and every set of faults.

**Assumptions.** The `ASSUME`s of the modules, and nothing else: bounds are
naturals, "nobody" (`Free`) is not a request, an empty list lives no longer than a
full one; the provider table (`Slugs`) is finite in `ModelRegistry`, because the lookup counts
the lists that have a name; in `Forwarding` "no prefix" (`Bare`) is not a provider, and
`Hazards` has `crossing`, since the refreshes that cross an attachment are its own; the
items of one stream are finite and arguments are
texts (sequences) in `CodexStream`; an opening of a conversation, in `Exchange`, is a
non-empty sequence of messages of any roles and contents, in which no call has been
made or answered yet (a result of a call nobody made would reach upstream ahead of
nothing: the property would be false of the client, not of the code).
`Requests` and `Handlers` may be infinite.

### The refresh
- `TokenRefreshProofs`: types, `OneRefreshAtATime`, `RefreshHasCause`. `TypeOK` is
  not inductive by itself: a new credential is within `Gens` only because the
  answer that led to it was guarded when it was given; `RotationsBounded` carries
  that guard from the answer to the store.
- `TokenRefreshInv` is the invariant of the rest. `LockInv`: a lock is held by r iff
  r is inside it. `StoreInv`: which chain each copy (attach file, runtime file,
  vault) is of, and when the runtime file follows the vault. `RequestInv`: what a
  request has POSTed is the vault's entry. `ServerInv`: the provider honours the
  vault's token or has just rotated it (`Settled`: the generation honoured, but for
  an answer on its way), the runtime file's token unless unsaved, and generation 0
  of a chain not yet taken up. All of it per slug, outside `spoiled` and `crossed`,
  because one `_persist` and one `Reload` write all slugs at once. None of these
  parts is inductive without the others: a reload is harmless only because disk and
  vault agree (`StoreInv`), and a late answer only because its request still posts
  the vault's entry (`RequestInv`).
- `TokenRefreshSafety` proves it inductive (`Invariance`), action by action, and from
  it `NoTokenReplay`, `AttachWinsUnlessCrossed`, `ReloadIsNoop` and `NoRollback`.
- Its last part proves `Spec => RotatesAtomically`. Under the mapping, `held` is
  the vault's token, `honoured` is `Settled`, and the slugs in `spoiled` or `crossed`
  are void; `Refreshed` is the abstract rotation, and every other step a stutter, an
  attachment or a loss.

### Retry
`RetryPolicyProofs`: an attempt is counted when it is made, a budget when it is
spent, and `CallsCounted` relates the two between any two steps; with the budgets
this bounds the attempts. `PoolInv` needs that the connections in hand are finitely
many, which each acquisition preserves.

### Registry and forwarding
- `ModelRegistryProofs`. `OwnerInv`: an entry or a fetch was made with the token of the
  account its context names, unless an earlier account came back meanwhile or the token
  was not of the seed's account when it was sent (`back`); of a fetch under way this is
  claimed only while the account of its context is attached, since an account attached
  later has a number of its own and `Return` marks the fetch. `MutexInv` and
  `RoundInv`: what the one lookup inside the lock may assume at its end of the
  cache, which readers saw in between. `DiskInv`: what a restart will find. `DueInv`:
  a list that has not run out came with the last fetch, and the last fetch is the one in
  the cache or the one backed off from. It does not speak of who is attached, so that
  it holds of accounts that come back. From these the type invariant and four action
  properties.
- `ForwardingProofs`. `ForwardSpec => Spec`: requests and their refreshes do nothing
  that `ModelRegistry` does not do without them (`ForwardingImplementsRegistry`). The
  step that needs an argument is the write of a refresh (`UpdatedIsNext`):
  `RequestInv` says that a request in flight holds the token of an account that was
  attached once, so that what it writes over an entry is no change or an `Overwrite`, and what
  it puts back a `Reattach`. The registry's theorems, those about asking included,
  then hold of `Forwarding` without a proof of their own; its invariant
  (`RegistryInv`) is what the theorems about routing rest on.

### The exchange
- `CodexStreamProofs`. `IndexInv`: the known calls have the indices
  `1..tool_call_idx`, each its own (so, by counting, none is left out:
  `IndicesAreCalls`). `SyncInv`: what the translator accounts for, what the client
  has and what upstream said are three equal things until an exception. `EndInv`: a
  contradiction is an exception, and `200` or `done` a clean end. The steps rest on
  `PieceLaw` (a prefix and the rest make the whole) and on what a chunk does to the
  client's sequence (`EmitOld`, `EmitNew`).
- `ExchangeProofs` carries these from turn to turn (a translated step is a step of
  the stream, `Begin` and `Restart` reset it, a raw answer leaves the calls alone)
  and adds, independently of each other: `ReportInv` (the usage report still due of
  the answer under way, as a summand) with `ReckonInv` (an answer that is not counted is
  one of a turn), `FileInv` (file behind counters, equal
  without a fault), `TeeInv` (when the stream is over, and not before, there is a dump exactly if
  the stream was captured and entered, and one that raised broke it), `SlotsInv` (slots
  and what was said; a late completion leaves a prefix, and prefixes compose). `TurnsHandOnCalls` is the stream's half of
  `HistoryAsSaid`: the calls that go into the next turn are upstream's, all of them
  and in order (`AssembledLaw`).
- `ChatRequestProofs` is the other half, about the loop over the messages. Its
  proofs are inductions over data, which a theorem with an operator parameter would
  state and the provers cannot use; `SetInduction` states induction over the naturals
  for a *set* of numbers instead (a least one missing contradicts `WFMin`), and each
  use defines the set of lengths for which the claim holds. So `FlattenSeq`, whose
  definition is a recursive function, is shown to exist, to append (`FlattenStep`) and
  to distribute over `\o` (`FlattenConcat`); `Texts` adds up (`TextsConcat`); a table
  that keeps the text of some types, and of no others, does so in a list
  (`TranslatedKeepsText`, `HeardLaw`), a message keeps it
  (`MessageKeepsText`), and so does a conversation (`TextIsKept`). `TurnInput` says of
  a conversation that continues with calls and results where their items are.
- The two meet in `ExchangeProofs`: `AskedInv` says that a request under way is an
  opening, or an opening followed by a turn made of what the client has *now*, since
  nothing touches the stream before upstream answers; it is what `HistoryComesBack`
  (`HistoryAsSaid`) and `NoTextIsLost` (`TextKept`) need besides `ExchangeInv`.
- These proofs changed the model once: `Instructions` was a `CASE` with two guards
  true of one message, of which TLC takes the first and a proof none. It is an `IF`
  now, in the order of the code's `if` and `elif`.

### Only model-checked
- Liveness: `RequestsEnd`, `EventsAreServed`, `HandlersEnd`, `LookupsEnd`. These need
  fairness and `ENABLED`, which the provers do not have.
- The findings, which are counterexamples.

## 6. Abstractions and what is not modelled

- Labels other than `default`: `forward` never uses one.
- A re-attachment always brings a new chain (credentials.py says so); an old
  attach file is never restored.
- Handlers are not cancelled when a client disconnects (they run on under
  uvicorn; a streaming response is closed by its `finally`).
- `TokenRefresh` does not count retries; `RetryPolicy` does.
- The token endpoint answers 200 with or without a refresh token, 4xx, 5xx, or
  not at all, and revokes a chain on replay (RFC 9700 behaviour; the code's
  comments describe it for both providers).
- In `CodexStream`, upstream announces an item once and sends nothing after
  `response.completed`; text passes through; bytes are already framed. In the
  raw stream of `Exchange` an announcement may also come behind deltas of its call,
  and then says no more than they did.
- `Stats` counts for one provider and model. A usage report is one token, and a body
  has at most one.
- In `Forwarding` a refresh that puts a detached provider back has rotated its
  refresh token (refresh.py: "rotates on every refresh for both providers"), else the
  identity would be that of the account it was before; a 503 changes nothing and is no step.
- In `ModelRegistry` a provider that a refresh puts back after a detachment counts as
  re-attached (`Forwarding` has the refresh); which earlier account the runtime file
  can bring back is not tracked there, any may be; model entries are names.
- A `Retry-After` is waited for, however long (retry.py:73 has no limit): the fairness
  of `RetryPolicy` has it end.
- Not modelled: the `ChatGPT-Account-ID` header, which `_provider_headers` computes anew
  from each token (section 4), the flags `forward` forces into a body (`stream`, `store`,
  `include_usage`), filtered headers, tool declarations, the dump's rendering and
  its summary of a ChatCompletions stream, provider constants, HTTP routes.

## 7. Plan

Done: all parts modelled and composed (section 2); every safety property of the runs
proved; the refinements of `AtomicRotation` by `TokenRefresh` and of `ModelRegistry` by
`Forwarding`.

Next:

1. An abstract specification of the registry itself (per account, a list that is
   fetched, served and dropped) and its refinement, as `AtomicRotation` is for the
   refresh; `Forwarding` would then implement it too.
2. The bounds of the environment (`MaxChains`, `MaxAccounts`, `MaxTurns`) enter the
   proofs only through types; stating the actions for unbounded counters, with the
   bounds in the MC modules, would make that visible.
