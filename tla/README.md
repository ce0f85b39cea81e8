# A verification project for the AI data assistant

The service answers questions in natural language about a PostgreSQL database:
`POST /ask` loads the database schema, asks an LLM for SQL, vets the SQL with a
guard, runs it in a read-only transaction and returns the rows. This directory
holds TLA+ models of its parts, the TLC configurations that check them on small
instances, and TLAPS proofs of the properties that matter most. Source paths
below are relative to `src/src/`.

Everything runs on one asyncio event loop in one process: tasks interleave only
at `await`. An action of a model is the code of one task from one await to the
next, so the models show exactly the interleavings the program has.

## 1. Inventory

| Component | State it keeps | Operations | Interacts with |
|---|---|---|---|
| **SQL executor** `infrastructure/db/sql_executor.py` | locals of each call; Prometheus counters | `execute`, `_preflight_explain` | borrows a pooled connection for a whole transaction; called by the use case |
| **Connection pool** `infrastructure/db/pool.py` (psycopg_pool, external) and **server sessions** | slots, who holds each, the queue, one session per slot | open, getconn, putconn, close; BEGIN/COMMIT/ROLLBACK, SET | executor, schema provider, readiness probe |
| **Schema provider** `infrastructure/db/schema_provider.py` | `_cached`, shared by all requests, unlocked | `get_schema`, `_introspect` | pool; called first by the use case |
| **LLM client** `infrastructure/llm/openai_client.py` | shared httpx client; counters | `generate_sql` (up to two POSTs), `_extract_content`, `_parse_sql`, `_record_usage` | completion endpoint |
| **Prompt builder** `infrastructure/llm/prompt.py`, `domain/entities.py` | none | `build_messages`, `render_for_prompt` | schema provider, LLM client |
| **SQL guard** `infrastructure/sql/guard.py` | its policy | `validate`, `_strip_markdown`, `_run_quality_policy`, `_apply_limit` | sqlglot (external) |
| **Ask use case** `application/use_cases/ask_question.py` | locals of each request | `execute` with its attempt loop | the four ports |
| **Domain** `domain/` | none | entities, ports, exception hierarchy | everything |
| **Error handlers** `api/errors.py` | none | exception → HTTP status | exceptions |
| **Ask route, schemas** `api/routers/ask.py`, `api/schemas.py`, `api/deps.py` | none | validation, rendering | use case |
| **Request-id and metrics middleware** `api/middleware.py` | a contextvar; HTTP counters | wraps every request | error handlers, logs |
| **Probes** `api/routers/health.py` | none | `/health`, `/health/ready` | pool |
| **Lifespan** `main.py` | the long-lived resources | start-up, drain, shutdown | pool, HTTP client, every request |
| **Metrics** `infrastructure/observability/metrics.py`, `api/routers/metrics.py` | counters | increment, render | all of the above |
| **Configuration** `infrastructure/config.py` | settings, fixed per process | load | all of the above |
| **Database DDL, seed** `db/`, `scripts/generate_seed.py` | the lists of generated rows | writes one SQL script | server |

What makes each of them correct, and what is hard about it:

* *Executor.* A connection is borrowed once and returned once, whichever of the
  six awaits fails; no setting of one call reaches the next through the pool;
  SQL written by a model meets the server only READ ONLY and under a timeout;
  results are cut exactly at `max_rows`; the preflight verdict is honoured;
  each call is counted once; each call ends. Hard: the server may die between
  any two awaits, slots are contended, the preflight has six outcomes in two modes.
* *Schema provider.* Test and fill of the cache are separated by awaits and not
  locked. Correct means: the cache settles, an uncached answer is fresh, no
  connection leaks.
* *LLM client.* Exactly the malformed replies are tried once more, the caller
  gets what the last reply says, metrics count the POSTs. Hard: two nested retry
  loops (client, use case), concurrent calls on shared counters, and three token counters
  that are incremented one after the other, where each increment may raise.
* *Guard.* What passes is one SELECT without forbidden nodes and under the cap,
  no matter how the text is wrapped or how often it is validated.
* *Use case.* Only the vetted statement is executed, `unsafe_sql` only after all
  attempts, no connection is held while the LLM thinks, the LIMIT of the LLM, that of the guard
  and the cut of the executor together cost the client no row, each request is answered
  with the documented status.
* *Schema text.* The LLM is told of every table and column, once, with its keys. Hard: the
  catalog views the query reads depend on the privileges of the role, and it joins them by
  constraint name, which PostgreSQL does not keep unique.
* *Edge (middleware, probes, lifespan).* An id belongs to one request, each request is
  counted once under the status its client saw, the probe says "ready" exactly of a server
  that answers, resources outlive the requests, a shutdown ends. Hard: the 500 path leaves
  through a handler outside of both middlewares; the probe competes for the same pool;
  start-up succeeds without a database.
* *Seed generator.* The script loads: references resolve in statement order, chunks lose
  no row, payments agree with the discounted items, the sequences end past the keys.

`PROJECT.json` lists every hazard at its line with the properties that cover it.

## 2. Modules

```
one component                          ConnectionPool, Ports, ErrorMapping, SqlGuard, Catalog
  SqlExecutor      ConnectionPool, Ports
  SchemaProvider   ConnectionPool
  LlmClient        Catalog
  GuardCalls       SqlGuard
  HttpEdge, Seed   (alone)

detailed            implements          which is composed in
  SqlExecutorContract  DbCall  <------  AskQuestion (two instances, with SqlGuard,
  SchemaProvider       DbCall                        Ports, ErrorMapping)
  AskQuestion          AskCall <------  Service (with ConnectionPool, HttpEdge)

MCx instantiates x for TLC; x_proofs holds the theorems about x (SqlExecutor_proofs those of
SqlExecutorContract, too, AskQuestion_proofs those of GuardCalls, LlmClient_proofs those of
Catalog). SequenceLemmas holds what is proved of FlattenSeq and SetToSeq, which Catalog and
Seed are built from.
```

* **ConnectionPool** - the pool and the PostgreSQL sessions, from how the code
  uses them. A session has a link, a transaction state, READ ONLY, the scope of
  `statement_timeout` and whether its transaction wrote. `COMMIT`/`ROLLBACK` undo
  `SET TRANSACTION` and `SET LOCAL`, not `SET` (`EndTx`). The server stops and
  starts at any time; the pool hands out dead connections, because it does not
  test idle ones, and discards them on return. The queue is a set: psycopg_pool
  is first come, first served, and every property checked here holds for any order.
* **SqlExecutor** - one action per await of `execute` and per outcome of
  `_preflight_explain`. `exPc[r]` is the await, `frame[r]` the locals. The
  settings that select a branch (preflight on, strict) are the variable `policy`,
  chosen at start and never changed, so that one run covers all modes.
* **SqlExecutorContract**, **DbCall** - `DbCall` is what a port call promises the
  use case: it queues, owns one slot, gives it back with one allowed answer, or is
  refused. `SqlExecutorContract` and `SchemaProvider` map their state onto it.
* **SchemaProvider** - `get_schema` with its shared cache; a schema is the
  version of the database it was read at.
* **Catalog** - what the LLM gets to know of the database: the introspection query as joins
  over the information_schema views (external: what a role sees of them is PostgreSQL's
  documented rule), the grouping of its rows in `_introspect`, and `render_for_prompt`. Names
  and nullability are kept; data types and comments, which are copied through, are not.
* **LlmClient** - the loop of `generate_sql`: the prompt it posts, and what it makes of a
  reply, which is a record of what the client can tell apart (how the POST ended, what the
  body holds, whether it decodes, the JSON, the fence, each of the three token counts).
  `_record_usage` increments prompt, completion and total in turn; a count that `Counter.inc`
  rejects ends it with the ones before recorded (`RecordedTokens`) and the reply's statement lost.
* **SqlGuard**, **GuardCalls** - `validate` as pure operators over abstract texts
  (lines that are fences, code or blank, and what sqlglot parses them to), and one
  call of it for every input.
* **ErrorMapping** - `_status_for`: the first mapped class in the MRO.
* **AskQuestion** - the composition: the use case with two instances of `DbCall`
  that share the holders of the connections, the operators of the guard, the error
  mapping, and an LLM that may write anything of `Generated`. The contracts stand for
  the adapters; the refinement runs show that the adapters keep them.
* **AskCall** - an ask abstract from SQL, prompts and attempts: two calls of the database
  at most, before and after the generation, each with one slot, and one answer out of those
  its stage allows. `AskQuestion` implements it (`ImplementsAskCall`).
* **HttpEdge** - both middlewares, the log filter and the two exception handlers around a
  request: the contextvar, the ids it logged under, header, status and count. FastAPI runs
  the handler for `AssistantError` inside of the middlewares and the one for `Exception`
  outside, so a failed request passes the state `failing` between them.
* **Service** - the process: lifespan, asks (as `AskCall`) and readiness probes below
  `HttpEdge`, over one `ConnectionPool`, with a server that stops and starts.
* **Seed** - `generate_seed.py`: statements with the rows they insert and what these
  reference; draws of the random generator are choices.

A definition `X_Y` marked *slip* is no part of a model. It is `X` with the mistake a
maintainer could make (a dropped `LOCAL`, an exact instead of a one-larger fetch,
a missing `async with`); substituting it for `X` breaks the property it is listed
with in `PROJECT.json`, which shows that the property can fail.

## 3. Runs

Passing runs (every property must hold):

| Run | Instance | Question |
|---|---|---|
| `executor` | 2 calls, 1 slot, all three policies, a writing and two reading statements, plans below/at/above each budget and with a missing figure, 0/2/4 rows | connections owned and clean, untrusted SQL confined, no committed write, the inductive invariant, exact cut, preflight honoured, accounting, termination, refinement of `DbCall` |
| `schema` | 3 calls, 2 slots, cache on and off, one DDL change | ownership, freshness, the cache settles, termination, refinement of `DbCall` |
| `llm` | 2 calls, 24 databases, 13 kinds of reply | prompt complete and right, retries, answers, metrics of replies that fail half way |
| `guard` | all texts up to 4 lines; every query around each bound of a strict policy | what passes, validation of what passed, fences |
| `ask` | 2 requests, 1 slot, 3 attempts, 5 kinds of text, two of them with a LIMIT | the pipeline end to end, the rows the client gets, refinement of `AskCall` |
| `service` | 1 ask, 1 endless probe, 2 slots, any `X-Request-ID`, metrics on and off | ids, counts, ownership, readiness, life and end of the process |
| `seed` | 3 orders of up to 3 items at a discount of 20 %, chunks of 2 rows | references, chunks and sequences, payments |

`SchemaInv`, `LlmInv`, `AttemptDiscipline`, `ServiceInv` and `ExecutorInv` contain the type
invariants of their modules.

Violation runs (each checks a claim of the repository and TLC refutes it):

| Run | Claim | What the code does |
|---|---|---|
| `executor_explain_error` | relaxed mode proceeds after a failed EXPLAIN (a test and a warning say so) | the transaction is aborted, so the query fails; the test's fake cursor has no transactions |
| `executor_outage` | 503 when the database is unavailable (route docs) | a refused connection in `execute` is reported as 422 |
| `llm_keys` | the prompt marks primary and foreign keys (`domain/entities.py`) | a role with SELECT only, as the service's, sees none in information_schema |
| `ask_truncation` | `truncated` tells that the result was capped | the guard's LIMIT cuts first, `truncated` is never set |
| `edge_trace` | every answer and log line carries the request id (`api/middleware.py`) | an unexpected 500 is logged and answered outside of the middleware, without it |

One more divergence is stated by a property of a passing run. `ask_question.py:14` says "Every step
raises a domain exception on failure", `domain/ports.py:38` and the head of `openai_client.py` name
the two exceptions of a generation. `AnswerIsLastReply` says which replies end `generate_sql`
otherwise, past every `except`, and are answered as an unexpected 500: a token count that
`Counter.inc` rejects (`openai_client.py:143`), which costs a usable statement and leaves the counts
before it recorded; a body that does not decode (line 105); an httpx error that is no
`TransportError`, such as `DecodingError` (line 87). No other reply does.

Divergences met while modelling that are noted here only: `sql_cost_exceeded_total` counts in
strict mode only; `llm_requests_total` counts a reply with a blank `sql` under two labels; the
schema is read on first use, once per concurrent cold request, although
`infrastructure/config.py:62` says once at startup; the note that the introspection query is
right for single-column foreign keys (`schema_provider.py:42`) needs constraint names that are
unique across tables, which `PlainKeys` says; the prices of order items repeat the draws of the
product loop with a second generator, but not in its order, and match no product's price; a LIMIT
that is no literal (an expression, FETCH FIRST) is replaced by `max_rows` even where it is the
smaller one, although the docstring of `_apply_limit` (`guard.py:119`) speaks of larger ones
only. `RowsAsAsked` leaves such statements aside.

Why the bounds are enough. Two calls on one slot give every kind of contention
(queueing, refusal, hand-over of a used session); three on two slots add holding
side by side and a third in the queue, for the schema provider here and for the executor
in the proofs, which hold for any number. Calls are not repeated by the same request:
a later borrower of the slot is another request. The row cap is 2 with 0, 2 and 4
matches and LIMITs on both sides of the cap, which hits below, at and above it;
plan figures sit at the budget and one above. The LIMITs of `ask` are 1, none and 3, around the
same cap. The server may stop and start any number
of times. `MaxVersion` bounds the DDL changes of the schema at one: every hazard of
the cache needs one older and one newer version. Three attempts give a first, a middle
and a last one. The databases of `llm` are two tables of two columns under every mix of
simple and composite keys, equal and distinct constraint names, and all, one or no
tables owned: each way two constraints can meet needs two tables. In `service` the probe repeats
for ever, so one of them meets the ask at every stage, and an ask and a probe are enough to
mix up ids, slots and counts; two slots let a dead one stay in the pool while the other is in use.
`seed` has chunks that are full, not full and several, a review for every third order, and a
discount on every item, so that a total without it differs; the theorem covers any mix of discounts.

`CHECK_DEADLOCK FALSE` appears where the system may stop: `llm`, `guard`, `ask`, `seed` and
their variants handle a fixed number of requests and then are done. The database
models never stop, because the server can always stop or start again.

## 4. Fairness

* `FairExecutorSpec`: weak fairness of each call's *prompt* steps: `getconn` answers within
  its 30 s (psycopg_pool default, `pool.py` sets no other), BEGIN, SETs and COMMIT
  return, `statement_timeout` fires, a dead link errs, unwinding runs. That a plan or
  a statement ever comes back by itself is not assumed, so that termination rests on
  the timeout the code sets. It presumes `db_statement_timeout_ms` > 0 (PostgreSQL reads
  0 as no limit).
* `FairSchemaSpec`: weak fairness of the whole call. The catalog query has no timeout
  (although `infrastructure/config.py:50` calls the setting a ceiling "on every query"), so that the
  server answers it is an assumption about the server.
* `FairAskSpec`: each port answers and the event loop resumes the request. The first is
  what the runs above show of the adapters; for the LLM it is httpx's timeout, which limits
  inactivity, not the whole exchange.
* `FairServiceSpec`: the event loop runs every task, `getconn` answers within 30 s, a server
  that is up answers `SELECT 1` and lets the pool reconnect, the calls of an ask end (the runs
  above), the orchestrator keeps probing, and start-up and shutdown go on once begun. Nothing
  makes the server come back or the process be stopped. `ready` has no timeout for `SELECT 1`:
  a server that accepts the query and neither answers nor drops the link is not modelled.

## 5. Proofs

`tlapm` checks eight modules, for every value of the constants that meets the `ASSUME`s of
the models (`Nobody` is no request, budgets and caps are naturals, inputs are well formed);
nothing is assumed about how many requests or slots there are, how often the server stops
or what an LLM, an endpoint or a client sends. Four further facts are assumed, each by name:

* `PlansHaveFigures` (a hypothesis of `BudgetHonoured` only): a plan reports a cost or a row
  count. PostgreSQL always prints both; a plan with neither would pass `_preflight_explain`
  as affordable and without a warning.
* `IsFiniteSet(Requests)` (a hypothesis of `CountedOnce` and `AttemptsCounted` only): both
  compare counters with cardinalities.
* `IsDatabase` of each of `Databases` (`DatabasesAssumption`): what PostgreSQL itself ensures
  (table names are unique, a table has one primary key, keys and tables are finite, a foreign key
  of one column points to one column), and two properties of `db/01_schema.sql`: foreign keys
  point to public tables and no table is without columns. Constraint names may repeat, keys
  may be composite and the role may own any of the tables: the theorem covers those, too.
* `NoId # NotUtf8` (`ServiceAssumption`): no `X-Request-ID` at all is not one that does not decode.

No property proved here is inductive by itself. What each invariant adds, and why:

**ConnectionPool_proofs** has no theorem of its own but what the pool's users need: a request
that is granted, returns or is refused a slot touches nobody else's (`Untouched`), and owns
before and after what it should (`OwnsAs`).

**SqlExecutor_proofs.** `TypeCorrect` first, then `ExecutorInv`: to know that a returned session
is clean one must know that its timeout was LOCAL and that nothing was written
(`SessionsHarmless`); to know that nothing was written, that the statement ran READ ONLY
(`StatementsConfined`); to know that, that READ ONLY was set before the timeout
(`ReadOnlyFirst`), and that no reconnection replaced the session of a borrowed slot in between
(`BorrowedOpen`). Every action of a call that owns a connection is one *move* - one exchange over its
own slot that leaves a session fit for the next await (`Moves`, `FitFor`) - so preservation is
proved once for moves, once for the end of a call, once for the pool and once for the environment.
From it follow `NoLeak`, `CleanReturn`, `Confinement`, `NoWrites`. `AnswersInv` adds what a call has
learned at each await: no figures before the preflight, no query without its consent, no rows but
those of a statement that ran and does not write. It gives `RowsDelivered`, `BudgetHonoured`,
`CountedOnce` and `ExecuteIsDbCall`: each step of `execute` is a step of `DbCall` or a stutter.

**SchemaProvider_proofs.** `ProviderInv`: every session is idle, a call owns a slot exactly while
it reads or stores, and what it has read is not older than the call. Hence `OwnsWhileReading`,
`NeverStaleUncached`, the action property `SettlesForGood`, and `GetSchemaIsDbCall`.

**LlmClient_proofs.** `ClientInv` says how many replies a call has behind it at each await and
that the first of two was unusable. Hence `RetriesOnce` and `LastReplyDecides`; together with the
counters it is inductive for `AttemptsCounted`, where each reply adds one new POST: the POSTs are
counted under the labels of their replies (`PostsCounted`), and the token counters, which may stop
half way, hold every count of a success and of the others at most one for each call that failed
with an unexpected error (`TokensAgreeWithAnswers`).
`PromptIsFaithful` needs only that a call which has begun posts `Prompt(database)`
(`MessagesInv`); the work is in the operators of Catalog, for any database. The views of the catalog
are finite, so the outer joins give each column at least one row (`CellsAre`), and exactly one,
with its keys, where constraint names tell the keys apart (`PlainCells`, `DescribedCell`). The rows
of the query go through the tables and their columns in order without a gap (`ListsAll`), so that
the grouping of `_introspect` finds each table once, in order (`HeadsAre`), and under it its
columns (`TableColumns`): a function that increases from 1..n onto 1..m is the identity.

**AskQuestion_proofs.** Of the guard, `GuardInv` reduces `Confined`, `RevalidationKeeps` and
`FencesChangeNothing` to facts about the operators. Fence stripping keeps the lines from the least
to the greatest index that is no fence; that both exist follows from the well-foundedness of `<`,
without induction over texts. Of the use case that trusts it, `AskInv` ties the attempt, the phases
of the two port calls, what the guard said and what was executed together, the LIMIT executed with
the one the LLM wrote included, for each request. Hence `AttemptsDisciplined`, `OneStatement`,
`RowsDeliveredAsAsked` (two cuts in sequence are one at the smaller cap, `CutTwice`),
`NoneHeldWhileGenerating`, `StatusesDocumented` (the walk of the MRO ends at the class
that is documented) and `ExecuteIsAskCall`, the refinement that lets Service use `AskCall`.

**Service_proofs.** `EdgeInv` for the middlewares alone (whose id the contextvar holds at each
stage, what was counted), which no step of the handlers disturbs; `ProcessInv` with the pool, the
probes and the lifespan (a task owns a slot only inside of its handler, no link is live without a
server, and resources are closed only when every request is answered). Hence `OwnIds`,
`CountedOnceAsAnswered`, `SlotsOwned`, `ResourcesLast`, `ReadyIsServed`.

**Seed_proofs.** `ScriptInv`: what is written so far loads, the tables that `main` is past have
all of their keys, and orders, items and payments kept for `_emit_bulk` reference nothing but these and
each other. The lemma that matters is `BulkInsert`: chunks hold the rows they were made of and no
others, for any number of rows and any chunk length (`ChunkOfRow`, division with rounding up).
Hence `ScriptLoads`. `OnceInv` adds what the script inserts into each table (`RowsIn`): nothing
while `main` has not come to it, rows under the keys 1, 2, ... afterwards, and, of the sales tables,
exactly the rows that were kept; no part of `main` fills a table that another one filled
(`FillsTables`), and the last reset of a sequence comes after all rows of its table. Hence
`RowsInsertedOnce`. `PayInv` numbers the orders and says which order each payment is for: a
new order takes a key that no item or payment refers to yet, so the totals of the earlier ones do
not change. Hence `PaymentsAgree`: the amount is the total of what `main` charged for the rows,
and each row was charged the net of the quantity, price and discount it was written with.

**SequenceLemmas** has no theorem of its own. `FlattenSeq` recurses with a function, which is
unfolded here: it exists, is unique and appends (`FlattenAppend`), distributes over concatenation
(`FlattenConcat`), and puts each element of each part at one place, in order (`FlattenPlaces`). The
inductions are about sets of naturals (`SetInduction`, from the well-foundedness of `<`), because
the induction theorems of the library take an operator as parameter.

Only model-checked is liveness, because fairness and ENABLED are out of the prover's reach:
`CallsComplete`, `SchemaCallsComplete`, `EveryRequestAnswered`, `EveryRequestCloses`,
`LifespanProgresses`, `HealsByItself`. What a fold over amounts computes (`OrderTotal`, with
`FoldSeq`) is not proved either: `PaymentsAgree` says that a payment's amount is this total.

## 6. Plan

All modules of the inventory are built, and every safety and action property that a run checks
has a theorem. What is worth adding when the code changes: a second vendor of the
completion endpoint as a refinement of `LlmClient`, and a timeout for the catalog query and the
readiness probe, with which `FairSchemaSpec` and `FairServiceSpec` could assume less.

## 7. What is left out, and why

* The database role (no write privileges, `db/01_schema.sql`): deliberately absent, so
  that `NoWriteCommits` shows the READ ONLY transaction at work by itself.
* Two unexpected failures of a query: an exception in `cur.execute` that is no psycopg error, which
  passes the `except` clauses of `execute` uncounted while its `async with` unwinds as for the
  modelled errors; and a value in the rows of a successful query that cannot be serialised, which
  fails after the slot is back. What an unexpected exception of a handler does to id, count and
  answer is in HttpEdge.
* Text: the wording of prompts and error messages, logging, data types and comments in the
  prompt, the conversion of cells (`_to_jsonable`).
* What sqlglot makes of a text is an input (`Query`), not derived from characters;
  subqueries are counted, not nested.
* Request validation by pydantic: `max_rows` is at least 1 in the models because the
  schema says so. `default_max_rows` has no such bound in the settings.
* Cancellation of a request task by a disconnecting client: neither the routes nor the
  middleware cancel a handler.
* The `path` label of the HTTP metrics (`api/middleware.py`), rendering of `/metrics`, and
  latencies, of which no property speaks. Settings are loaded by pydantic.
* Of the seed script: names, dates, the rounding of a total to cents (`round(order_total, 2)`; amounts
  are counted in hundredths of a price's unit, exactly), the streams of the random generator and the CHECK ranges of
  the DDL. Orders, items and payments are compared with the rows `main` keeps; reviews, which go
  through the same `_emit_bulk`, by their keys only. Build files.
