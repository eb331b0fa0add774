# pySQLbridge in TLA+

pySQLbridge answers SQL Server's wire protocol (TDS) over files, workbooks,
databases and HTTP APIs: a client connects, logs in, and reads tables that the
bridge makes from those sources. This directory models how it does so, from the
crawl that finds an API's tables to the rows of an answer: the parts whose
correctness depends on order, failure or concurrency as state machines, and the
pure parts (reading SQL, answering it, converting values) as operators that are
checked against a definition of what they should give. TLC checks the models on
small instances; TLAPS proves the most important properties of ten of them for
every value of the constants.

Paths below are relative to `src/pysqlbridge/`. `PROJECT.json` gives, for every
definition, the lines it models; for every property, a change to the code that
the run notices; and the hazards with the lines they are at.

    tlc -config Connection_dialogue.cfg Connection.tla
    tlapm SessionProofs.tla

## 1. The system

One thread per connection moves bytes between a socket and a `Connection`, a
state machine over buffers. A `Connection` that is logged in hands each batch
to the one `Catalog` that all connections share, with a `session` dictionary of
its own. The catalog reads the batch, runs it statement by statement, and for
each SELECT asks the sources for tables. A file source has read its table
already; an `HttpSource` reads it from mirrors and pages, keeps it for a time and
refreshes it from a background thread. What a configuration names is served as it
is; what it leaves to be found, a `Crawler` finds before the first client.

    client ─TDS─ _Handler ─ Connection ─ Catalog.answer ─ statements ─ sources
                 (thread)   (session)    (shared)            │         │
                                            own tables, variables      │
                                                        HttpSource ────┤ lock, cache
                                         Crawler ───────mirrors, pages ┘ host gates

| Component | State | Operations | What is hard | What makes it correct |
| --- | --- | --- | --- | --- |
| HTTP source cache, `http_source.py` 641-850, 1010-1050 | table, schema, their children and times; `_refreshing`; a lock | load, schema, children, child_schemas, prime, invalidate, background refresh | cache fields read outside the lock that is held over a fetch; a flag set by one thread and cleared by another | one fetch at a time; no needless one; no answer goes back; children of the table they are served with; every refresh ends |
| HTTP fetching, 60-220, 597-639, 906-1008 | a gate per host; the requests in flight | race of mirrors, serial pages, read ahead | parallel requests answered in any order, one failing, prediction past the end | pages in order, none missing unsaid; speculation costs nothing; the read ends |
| Transactions, `catalog.py` 205-241, 719-860, 3247-3293 | count, name, savepoints | BEGIN, COMMIT, ROLLBACK, SAVE; the end by error | nested and named, by SQL and by the client's API | nothing of one transaction is left for the next |
| Session, `tds/connection.py` 314-349, 535-551, 668-763 | session dictionary, transaction descriptor | batch, transaction request, reset | two modules keep the two halves; pooled connections change users | users see nothing of each other; the client knows what it holds |
| Batch execution, `catalog.py` 1506-2161 | `@@ERROR`, what was caught, answers so far; the Python stack | every statement and construct | errors that end a statement, a text, a TRY, a batch or a transaction | each error reaches its CATCH or the client, takes what it should with it and no more; batches end |
| Session tables, `catalog.py` 2163-2560, `predicate.py` casts | the connection's tables, variables, `@@ROWCOUNT` | CREATE, SELECT INTO, INSERT, UPDATE, DELETE, TRUNCATE, DROP, SET | a statement that reads what it writes; a refusal half way; two conversions of one value | a statement writes all or nothing from what it read; a column holds what its type can |
| Connection dialogue, `tds/connection.py` | state, two buffers, tunnel, queued responses | one step per state | packets split and joined by TCP; three wrappings; the exception that drops what is queued | nobody waits for somebody who waits for them; answers in order, readable; no client that follows the protocol is cut off |
| Listener, `server.py` | threads and sockets | accept, handle, shutdown | partial reads, failing handlers | as the dialogue |
| Framing and tunnel, `tds/packet.py`, `tds/tls.py` | a counter of session ids; the tunnel's state | parse, reassemble, build; handshake, wrap, unwrap | incomplete input | as the dialogue; ids differ among live sessions |
| Catalog registry, `catalog.py` 863-1027, 3023-3093 | the dictionary of sources | add_source, warm, load_all, get, discovery of children and of a whole API | changed by one connection's thread while others iterate | a table found is found again; a name given wins over one inferred |
| Crawler, `discover.py` | visited set, budget, the survey | describe, walk, guess, collect | three routes share one visited set and one budget; answers in any order | never over budget, no URL twice, ends, asks for what is linked |
| SQL reading, `sql.py`, `predicate.py` parser, `catalog.py` 1506-1660 | none | compile, divide a batch, read a SELECT and an expression | every construct inside every other, texts cut short | what runs is what was written; what was cut short inside something is refused before it runs, and elsewhere no later than where it was cut |
| Joins, grouping, ordering, `catalog.py` 3560-5250, `aggregate.py` | none | resolve, join, group, sort, page | NULL in keys, ties, order of the stages | the relational definitions |
| Subqueries, `catalog.py` 1250-1500, 3700-3900 | answers kept for a statement | read once, per row, or matched by a column | three ways to one answer; a table refreshed meanwhile | each row is answered for itself, from one reading |
| Predicates, `predicate.py` | candidates kept between rows | evaluate | three-valued logic, order of evaluation, integer width | SQL's truth tables; overflow refused |
| Windows, `window.py` | none | over | frames past the partition's ends, peers | the definition of a frame |
| Precedence, `precedence.py` | none | resolve, convert | mixed branches | every branch's value is held |
| Shape detection, `detect.py` | none | detect | a heuristic | rejects an error document |
| Views and procedures, `information_schema.py`, `procedures.py` | none | one per view | breadth | the catalog's contents |
| File sources, `source.py`, `workbook.py`, `markup.py`, `access.py` | the table read | read | formats | type inference holds every value |
| Credentials, logins, Windows, `credentials.py`, `logins.py`, `auth.py` | the logins | admit, accept | who gets a secret | secrets stay with their host; a refusal is told |
| Message bodies, `tds/{prelogin,login,batch,rpc,transaction,token,result}.py` | none | parse, build | byte layouts | the captured bytes |

## 2. Modules

| Module | Models | Uses |
| --- | --- | --- |
| `HttpSource` | one source's caches, lock and refresh threads | |
| `HttpPaging` | one full read of each of several sources | implements `CollectionRead` |
| `CollectionRead` | what reading a collection promises | |
| `Transactions` | the transaction statements as functions of what is held | |
| `Session` | one physical connection, lent to one user after another | `Transactions` |
| `BatchExec` | batches and everything nested in them | `Transactions` |
| `Connection` | a client and the bridge on one TCP connection | |
| `Crawler` | finding out what an API serves from its base URL | |
| `Catalog` | the registry, from the crawl to the clients' threads | `Crawler` |
| `Values`, `Predicate`, `Casts` | values and their comparison; conditions; conversion into a column | |
| `Joins`, `Reduce`, `Precedence` | how tables become one; groups, aggregates and windows; the type of several branches | `Predicate` |
| `Query` | one SELECT answered, stage by stage | implements `Answers` |
| `Answers` | what a SELECT means | `Reduce`, `Precedence` |
| `Subqueries` | a subquery beside the rows of the query around it | is given the operators of `Correlated` |
| `Correlated` | what a subquery reads of a row, and what it answers when handed it | `Reduce` |
| `Scratch` | a connection's own tables, variable and `@@ROWCOUNT` | `Casts` |
| `Words`, `Parser`, `SelectReader` | tokens; expressions read; a SELECT read | `Predicate` |
| `Statements`, `Malformed` | a batch divided; what its text alone settles | `Words`, `Parser` |
| `Grammar` | what a batch means and how it is written | `SelectReader` |
| `Reading` | a batch compiled, divided and read as it runs | `Grammar`, `Malformed` |
| `HttpSourceProofs`, `PagingProofs`, `SessionProofs`, `BatchProofs`, `ConnectionProofs`, `ScratchProofs`, `CatalogProofs`, `SubqueriesProofs` | theorems | the module each names |
| `MC*` | constants for TLC | the module each names |

### HttpSource

The variables are the fields of `HttpSource` and, per thread, where it is in
the method it is running and the table it holds in a local. A table is the
version of the upstream collection it was read from, so "older" means a smaller
number; the upstream changes at any time, and a clock ticks. Every read or write
of a field that another thread may touch without the lock is a step of its own:
`_fresh` is two steps (table, then time), and a full read publishes in four.
Client steps are named after the place they start from (`fresh.read` is the
first line of `_fresh`, `begin.lock` waits for the lock of
`_begin_background_refresh`); refreshers are the threads that function starts.
A fetch answers with the present version or raises; with `Misshapen`, from_records
raises after the children were set. `StartCanFail` lets `Thread.start` raise.
`PromptWaiters` says that a first load that waited for another's fetch looks
before the table it finds expires.

### HttpPaging and CollectionRead

A page is its number in the collection; the API behind a source is chosen among
those of the constant `Apis`: how many pages and rows, whether its next links
show a stride, none, or are missing with pages that echo their position, what it
answers past its end (a refusal, nothing, its last page again, or something that
is not a page), and whether it declares an honest total. A request waits for a
permit of its host, is open, and is answered or fails. `Reader` takes the reader
thread through `_race`, `_read_pages` and `_read_ahead`; requests move by
themselves. `CollectionRead` is the promise: tables grow by the next pages in
order, and are called whole only when they are. `Abstract` maps `read` to its
table and the stage, the warning and whether a predicted page failed to its
outcome; `ReadsTheCollection` is its specification as a property.

### Transactions and Session

`Transactions` gives `_transaction_statement` as operators from what is held to
what is held and the error raised, with names folded as `str.lower` does where
the code compares so, and exactly where it does not. It also says which errors
end a transaction. `Session` holds the session dictionary, the descriptor of
`Connection` and what the client was told. One message is one step, because the
thread handles one to its end before it reads the next; its reset bits are acted
on first. A request of the transaction manager is turned to SQL text as in the
code, so that a name the grammar does not read (`Readable`) is refused by the
batch, while the reply's ENVCHANGE is made from the request.

### BatchExec

`frames` is the stack of Python calls that run statements, `exc` the QueryError
on its way out and `leaving` a BREAK or CONTINUE on its way out. The program is
not given: the next statement of the innermost construct is any statement or
its end, so a run covers every program within the bounds. Errors carry a number
and, for THROW and RAISERROR, whether the batch carries on past them; reads,
conditions and assignments fail with any of `Fails`. Each `except` and `finally`
of the code is an action of unwinding. A loop may run other statements each
turn, as one whose body consists of IFs does. Rows and variables are in
`Scratch`, and how a batch is cut into statements in `Reading`: nothing that
decides where an error goes reads them. `happened` and `outside` are history:
the rows a batch gave with the errors no CATCH took, in the order of both, and the tables
made outside a text. No action reads them to decide what to do.

### Connection

What travels is a sequence of packets, each with what its message is for,
whether it is a TLS record and whether it ends its message. A read takes any
number of the packets that arrived. The bridge's variables are those of
`Connection` and where its thread is in `_Handler.handle`; each `_step_*` is an
action, and an exception raised in one drops what was queued, as `receive` does.
The client waits where a driver waits. It uses a password or Windows, asks for
encryption or not, sends messages in one or two packets, may cancel, may send a
last SPNEGO leg, and may once send a packet that is out of place (`Strays`). A
client without TLS is not modelled: the bridge tunnels every login.

### Crawler and Catalog

In `Crawler` a URL is a host, the words of its path and whether it ends in a
slash. A document is what the crawler tells apart: a map of links, rows with
links around them, a description of the surface, a rejection, or something no
table can be read from; a read may also fail. The site is part of the
configuration. One thread claims URLs and decides, so claiming a level is one
step; the reads of a level go out together and are answered in any order.
`asked` counts what the budget is spent on, `seen` is the visited set the three
routes share, and `early` is a history variable: what was claimed before the
walk began.

`Catalog` is the same program from `load` on: it crawls the surfaces the
configuration names, adds the tables named (`add_named`, which a crawled table
gives way to), and registers what was found. Then clients' threads use the registry
without a lock: `load_all` reads a snapshot of the sources, one at a time, and
`_register_children` adds what arrays in a page make; `get` looks a name up and
answers a miss with the names that are served. Each read or write of the
dictionary that another thread can come between is a step. A source holds nothing,
the table the crawl made, its first page or all of it, and a crawled source is a
table whose expiry only starts a background refresh.

### Query and Answers

`Query` has one action for each thing `_read`, `_reduced` and `_combined` do to
the rows of a SELECT: join, filter, group, reduce, filter groups, project,
drop repeats, order, page, combine with the part before, order and page the
whole. Its definitions do what the code does: left joins by hash buckets keyed
as the code keys them, sorts one key at a time from the last key to the first, running
totals in a window, TOP's own WITH TIES count. `Joins`, `Reduce`, `Precedence`
and `Predicate` hold them. `Answers` says at once what the statement means: sets
of pairs, an order as a relation, a frame as the rows between its bounds, with
no stage and no bucket. `Query` implements it: `AnswersWhatIsMeant` is the
specification of `Meant == INSTANCE Answers`, every stage but the last a stutter,
and fairness of `Next` makes the answer come.

A value is a record of its kind and what it is worth; a refusal is a value too
and carries the number of the error, so a stage that would raise gives a table
that is refused. Where the language leaves open which of several refusals is
sent, or which of equal rows comes first, `Answers` allows each.

### Subqueries

The catalog answers a subquery once when it reads nothing of the outer row, per
row when it does, keeping each answer by the values asked about (up to
`MAX_CORRELATED_ANSWERS`), and an EXISTS that matches one column by reading that
column once. `plan` is the choice, made from the text as the code makes it.
`Change` is a refresh of the inner table by its source between two rows: it is why an answer
kept is not always an answer that could be given again. `Subqueries` is the machine of
this: when something is asked, what is kept, what is said. What is asked and answered are
operators, constants of the module, that a configuration sets to those of `Correlated`: the
evaluator that recurses over a SELECT, which no proof can reach, is apart from the machine,
which one can.

### Scratch and Casts

`Scratch` steps a connection's statements one at a time: CREATE, DROP, TRUNCATE,
SELECT INTO, INSERT of values or of a SELECT, UPDATE, DELETE, DECLARE, SET and the
SELECT that assigns. A statement reads the rows as they are, works everything
out, and writes; the action is the whole handler. Rows are a function from the
places they were put in at, so that what a WHERE kept can be told from what it
moved. `Casts` gives `cast_to` by what it does to a number, a bit, a decimal, a
float and a text, with the float nearest to a decimal told apart from it where
rounding differs, and `column_of`, which types what a SELECT INTO worked out.

### Words to Reading

A text is a sequence of tokens; what a lexer makes of characters is left out.
`Parser` is `_Parser` of `predicate.py`, one operator per method, `SelectReader`
is `parse_select` clause by clause, `Statements` divides a batch, finds loose
exits and unbound names, `Malformed` is what the text alone settles. All four
are the code's own reading, with the places it looks ahead and the words it
stops at.

`Grammar` goes the other way, from trees to text, and reads nothing: brackets
stand only where precedence asks for them, so that an expression is written as a
person writes it. With each text come the places where it could stop and still
be complete. `Reading` sends a batch, whole or cut after some token, compiles it
and runs it text by text; beside the texts it steps the trees they were written
from, by what the language says of each construct. The properties compare the two:
what runs is what was written.

The batches are those on which the code and the language agree. Where they part
is section 5, and the batches exclude it by name: a branch without BEGIN that
holds a second word a statement may begin with, or guards a CREATE or a DROP;
`IF ... SET @a = 1;`; BEGIN TRAN inside a block; a plain block at the top with semicolons
or nested; a BREAK last in a block without one; a condition that begins with a bracket
around arithmetic.

## 3. Runs

| Run | States | Shows |
| --- | --- | --- |
| `source_reads` | 195,040 | Two clients read by every operation, no faults: each refresh is owned and ended, no full read begins over a fresh table, children match their parent, every call ends |
| `source_faults` | 576,491 | All operations with invalidate, a primed source, threads refused, waiters outlasted, an answer that makes no table: one fetch at a time, no answer goes back |
| `paging_reads` | 162,762 | A source of one to five pages with two mirrors, behind every kind of API, beside another on one host, one failure anywhere: a failed prediction costs nothing, the refinement of `CollectionRead`, every read ends |
| `session_pooled` | 19,121 | Requests and batches of every kind by users in turn: nothing outlives its transaction or its user, descriptors are paired, fresh and truthful |
| `batch_runs` | 570,488 | Every batch of up to five statements, three constructs deep inside it, with errors raised anywhere: where errors go, what they end, what texts leave, the client reads what happened in its order or the last error alone, the batch ends |
| `connection_dialogue` | 313,136 | One client of every kind from PRELOGIN to requests and cancellations, packets falling into reads in every way, one out of place: nobody waits for a waiter, answers in order and readable, nobody conforming is cut off |
| `query_answers` | 6,702 | 115 statements over six small contents each: the stages give what the words mean, or a refusal they allow |
| `subqueries_asked` | 2,906 | Rows that repeat, with the inner table refreshed between two of them: each row is answered for itself and from one reading |
| `catalog_served` | 226,599 | Seven configurations from the crawl to two clients' threads: no URL of the surface twice, what is linked is asked for within the budget, a named table wins, a listing shows every table there was |
| `batches_read` | 18,068 | Some 370 batches, every construct inside every other, whole and cut off after each token: what runs is what was written; what was cut off within a block, a bracket, a CASE or a condition is refused before any of it runs, elsewhere then or by reading its last statement |
| `scratch_kept` | 39,448 | Two tables and a variable through four statements of every kind, with values that convert, do not, or do not fit: columns hold what they can, statements are all or nothing, `@@ROWCOUNT` counts them |
| `update_means_a_read` | 3,941 | *violation*: an UPDATE is refused for a row its WHERE passes over |

Every property of a passing run has a mutant in `PROJECT.json`: a change to one
operator, such as a guard or a reset left out, under which the same run fails.

### Why the bounds are enough

- `HttpSource`: two clients are needed for one to be between two steps of the
  other and for two to wait at once; two refreshers let a second refresh begin
  (`source_reads`), three let one be lost and two more begin (`source_faults`).
  With TTL 1 and time to 3 a table expires twice. Versions to 2 or 3 tell a table
  from the one before it. The calls of all clients together are bounded.
- `HttpPaging`: a source with two mirrors and five pages or fewer, and a second
  source of one page that shares a host with it. Two page workers make the
  smallest batch in which an answer can overtake another; collections of 1, 2, 3
  and 5 pages end in the serial part, at a batch's start, inside it and past
  `MaxPages`. One permit per host is the hardest gate.
- `Session`: five messages are a BEGIN, a save, an error or a rollback, a reset
  and what the next user does. Names are a name, the same in other letters, and
  one the grammar refuses.
- `BatchExec`: four frames are a TRY in a CATCH or a text in a loop in a TRY;
  five statements fill them. Two turns of a loop let a turn follow a turn.
- `Connection`: two requests show an order and let a cancellation stand between
  them; three unread packets are two messages and a part of one. One stray
  packet of each kind at each place.
- `Catalog`: sites of up to seven documents, the largest with one below the depth
  limit, and budgets of twelve and of seven requests; two reads at once are enough to answer out of
  order; one read that fails may be any. Two clients, because one is between two
  steps of another.
- `Query`: contents have up to five rows in one table and four in the other, among them a NULL, a repeat and
  a tie in every column that is compared, a table of one row and tables that are empty. The statements name each clause and each pair of
  clauses that meet in the code, each window function, each pair of frame bounds
  and each refusal; bigger statements meet no other code.
- `Subqueries`: four outer rows, of which two are alike or nearly so; two answers kept, so
  that the third is past the limit; two versions of the inner table.
- `Scratch`: a table must be made, filled, changed and read, which is four statements.
  Values lie on both sides of each limit: 255 and 256, two characters and
  three, a half to round in both directions.
- `Reading`: batches are written from all pairs of constructs, and expressions
  from all pairs of operators, since a reader looks one construct around itself.

### Fairness

Liveness is checked under weak fairness of the bridge's own steps only.
`HttpSource`: each client goes on with its call, refresh threads run, and every
fetch ends, because every request carries a timeout (`fetch`'s docstring); a
thread that waits for the lock is weakly fair only, and the bound on calls keeps
the lock from being taken for ever by others. New calls, ticks and upstream
changes are not fair.
`HttpPaging`: the reader, and each request's getting its permit and being
answered; a semaphore's waiters are woken. `BatchExec`: the thread that runs
a batch runs; which statement comes next is not fair, so a batch need not be
short, it ends because programs and turns are bounded. `Connection`: the
bridge's steps, and the client's reading of what it was sent. No client has
to send, nobody has to close. `Query`: the thread that answers a SELECT goes on.
`Session`, `Subqueries`, `Catalog`, `Reading` and `Scratch` state no fairness and are
checked for safety alone.

`CHECK_DEADLOCK FALSE` is said of the runs of `Session`, `BatchExec`,
`Connection`, `Catalog` and `Scratch`, where clients stop sending when their bound is
reached or when they went away. The other modules have an action for
having nothing to do, enabled only when every call, refresh and read is over, so a
deadlock of threads is an error.

## 4. Theorems

All are checked by TLAPS from the specification alone, for every value of the
constants, with no assumption other than those that the module of the constants
states by name and those named here.

`HttpSourceProofs`. `TypeCorrect`. `OneFetch` is the mutual exclusion of
`_lock`: the invariant `LockInv` says who holds it by where each thread is.
`NoReadGoesBack` needs more: what it says of finished calls tells nothing of the
table a thread is about to publish. `OrderInv` adds that every copy in the store,
and the table that a fetch carries, is at least as new as the last full read
that gave the lock back (`settled`), which is at least what any call in progress
began with (`floor`); that what a full read has published is what it holds; and
that it gives the lock back with the schema's copies gone. It is inductive
with `TypeOK` and `LockInv`.

Of the refreshes, in the same module, `FlagIsOwned` says that a raised `_refreshing` has a thread that
will take it down, where threads can be started; without that it is false,
and section 5 says so. `ChildrenAreIts` is about the fields of two
publications at once and needs, of each thread in the lock, how far its own has
come (`Matched`); it assumes that nothing was primed and that every answer makes a table.
`NoNeedlessRead` is an action property over the lock's whole story: `RefreshInv`
says, of every thread on the way to a full read, that the cache was seen expired or
empty and that nobody has filled it since without this thread looking again. It
assumes prompt waiters and no `invalidate`.

`PagingProofs`. `ReadsAreOfTheCollection` is the refinement of `CollectionRead`. The
invariant says that what was read is the first n pages, that the next link kept is
the one the last of them showed, that the requests in flight are for the
pages after them, in order, and that each that failed is past the
end or explains the warning or the error. A step finishes a read (`Finishing`), adds pages
(`GoingOn`), fails it (`Failing`), or stutters. The work is in a batch: its
answers come in any order, and those taken are the next pages because they are
taken up to the first that is missing. `ReadingAheadIsHarmless` follows from the
same invariant; that a batch offered within an honest total never meets the limit of rows
needs `RoomForMore`.

`SessionProofs` and `BatchProofs` each begin with what they need of the operators of
`Transactions`: what each keeps of `Sound`, what is held being well formed and nothing held
when closed.

`SessionProofs`. One invariant, `IInv`, carries all six theorems. It is the
properties themselves with two facts they need: descriptors told begun are
numbers up to the counter (so the next one is fresh), and a client that never
strayed has at most one transaction open (so that a commit ends it, which is
what the reply says). `DescriptorsAreFresh` is an action property, proved from
`IInv` and each action.

`BatchProofs`. The stack of constructs is a sequence that steps push and pop, so
each property is strengthened to one about every frame: constructs nest as
the grammar does (`Nested`), each text found only tables that were there when it
began (`FoundOutside`), what was caught belongs to a CATCH that is open, and a BREAK
on its way out has its loop below it (`InALoop`). Four action properties follow by
actions: only a batch's answer ends a transaction, an error in a TRY is
answered by nothing before its CATCH, and a text that changes the count of
transactions is left with an error. `BatchTells` has an invariant of its own, `HInv`, over
the history variable `happened`: a step does nothing to it, gives rows, raises, takes an
error among the answers or hands one to a CATCH (`Nothing` to `Handled`), and each of
these keeps it equal to the answers and the error on its way out. That the batch's own
frame catches is needed at the end: an error of `GoesOn` then ends a batch under XACT_ABORT
alone, so what drops the answers is an error of neither list.

`ConnectionProofs`. `TypeCorrect` goes through every step of the bridge and of
the client, with lemmas about what `reassemble` leaves of a stream. `Readable` is about
the wrapping of replies. It is inductive (`Wrapped`) with a statement about what is queued
and one that relates the bridge's record, `_session_encrypted`, to what the two
agreed: from the PRELOGIN on and until a failure they are the same.

`Answered`, `NoneIsCutOff` and `NoMutualWait` need the whole dialogue in one
invariant. What is neither answered nor refused may be under way, in `buffer` or in
`plaintext`; so the proof first takes these as one sequence, decrypted (`Held` what
the bridge has, `Pending` with what is under way), on which a read changes nothing
and a step takes whole messages from the front. `Inductive` is then, with `TypeOK`
and `Wrapped`:

- `Settles`: between reads nothing is queued, and nothing whole is left in hand
  by a bridge that has not failed. This is what the loops of `_step_*` are for,
  and where a message left behind would stay until the next read.
- `Orderly`, of every client, one with a packet out of place too: replies are in
  strictly increasing order of their requests, those that wait come after those
  answered, and a refusal is told.
- `Followed`, of a client that follows the protocol (`Conforming`): it is not failed for
  what it sent; no request is passed over; and until a failure `OnScript`, that
  is, `Pending` can be read from the bridge's state as a legal dialogue (`Script`),
  wrapped as expected (`Agreed`), the client's place says where the bridge is and
  which of the two has something for the other (`Placed`), and each request is
  waiting or answered (`Accounted`).

`NoMutualWait` follows: with nothing on its way to either end the bridge has not failed
(that would be told), so `Pending` is what it holds, `Script` lets that only
be empty or have a whole message, and by `Settles` it has none; and `Placed` and
`Accounted` leave no client waiting when both are silent. No bound is assumed: the
theorems hold for every `MaxRequests`, `MaxStrays` and `MaxUnread`.

`ScratchProofs`. `ColumnsHoldTheirTypes` is inductive once it says of a table all that a
statement relies on: each row has a value per column, each value is one its
column's type can hold, the columns' places are 1 up to their number, and
neither the variable nor `@@ROWCOUNT` is outside what a statement can read
(`IInv`). What `cast_to` and arithmetic return is a lemma per type: a value that
fits, or a refusal. `CountsAreOfWhatWasTouched` and `WritesAreOfWhatWasRead` are action
properties: a lemma per kind of statement concludes `Faithful`, which is the
invariant after the step with both. They hold for every set of well-formed
statements (`WellFormed`: what the reader hands on), every set of tables and
every number of rows up to `MOST`, 999, so that a count is a value of the model;
numbers are those of 0 to `MOST`, with thousandths.

`CatalogProofs` is about `Crawler` and `Catalog` together: every configuration of
well-formed surfaces and tables (`ConfigurationsAssumption`: nothing is assumed of a
site's documents or of where its links lead), any number of threads, any budget,
depth and number of lost reads. `IsSound` is inductive and has five parts.

- `CrawlIsSound`, of the crawl: the visited set is counted by what was asked
  and is within the budget; a URL of this level or heard of before is in it, and two
  that are one resource are one URL; and each is where a crawl may ask
  (`Permitted`). Every route claims through `ClaimAll`, whose lemma (`ClaimsAre`)
  says so of any list of URLs; that `Those`, `Unvisited`, `Harvest` and
  `Alphabetical` give back URLs of their argument, and leave none out that they should
  not, are lemmas as well. Induction over data is not to be had from these provers,
  but a loop over a sequence is: `LoopRuns` gives the run of any step function,
  and what holds after each turn is shown at the least place where it would fail.
- `TurnsAre`: no thread asks before `load` has ended, so no list is under way
  while a named table takes a discovered one's place.
- `RegistryIs`: one source to a name, and a name that only the crawl gave is that
  of an HTTP source.
- `TablesKept`: what `add_named` has read is in the registry, unchanged, and is not
  counted as discovered.
- `ClientsAre`, of each thread's list against a registry that others add to: the
  snapshot's names are still where they stood; what it added is in the registry and
  new to its snapshot; all the rest was registered by others; what its sources
  showed is in the list, was registered by others, or is still to be tested. A
  thread between its test of a name and the registration knows that whoever has
  taken the name since registered a child by it. That is why the missing lock loses
  neither a table nor a name: `NamesWon` and `EveryTableListed` rest on it.

`EverythingReachableAsked` needs the walk's past as well, and with it `IsFull`. While
the walk is at a depth, and requests are left, there is a chain of sets of URLs, one to a
depth, from the base up to what has been claimed (`IsWalked`): each holds the one
before and where what was read of that one leads (`LeadsInto`, which passes over what was
claimed before the walk), and nothing this level has still to hear is in a set before the
last, so an answer that comes later leads on from the last alone. A walk that
goes on adds a set; one that finds nothing new repeats the last to `MaxDepth`, and
the guesses that may follow leave the chain as it is (`IsEnded`). By induction on the
depth `Reachable` lies inside a chain (`ChainReaches`). `Keeping` says of each document that was
heard that it is kept, belongs to this level, or was read where descriptions usually are.
The chain is a bound variable of the invariant, so TLC checks the property itself
and the invariant is only proved.

`SubqueriesProofs` holds for every evaluator: any questions, rows, tables and whatever
operators say what is asked, answered and refused. Its invariant says where each thing that
is kept comes from. An answer kept by a key is what one version of the table answers to that
key; a column that was read is that of one version; what was said of a row is what is kept
for it, by its key or by looking it up in the column; and nothing kept is a refusal. A
refresh adds a version and moves none, so it disturbs nothing, and a row that comes later finds
what an earlier one left. `SaysWhatOneVersionAnswers` follows with nothing assumed. That
this is also what the words mean (`EachRowIsAnsweredForItself`, and `RowsAreAnsweredFromOneReading`) needs
the evaluator: the condition `EveryPlanIsMeant` says that, of a version that stands still, the
way planned for a question gives its meaning beside each row. The first part of
`AnswersForItsRow` is that condition for the question, rows and table a run begins with, so
`subqueries_asked` checks it of the code's evaluator on every instance it has.

Only model-checked:

- `CallsEnd`, `EveryReadEnds`, `EveryBatchEnds`, `EveryWaitEnds` and the liveness in
  `AnswersWhatIsMeant`: liveness and ENABLED are beyond the installed provers.
- The properties of `Query` and `Reading`, and of `Correlated` that each way of answering
  gives what the words mean: their definitions recurse over trees and texts, and what
  recursion computes is an induction over data, which the installed provers cannot do.

## 5. Where the code and its words part

One run is expected to end in a violation and shows a sentence of the code that the
code does not keep; `PROJECT.json` quotes it. `update_means_a_read`: an UPDATE works
out what it assigns for every row, so a row its WHERE passes over can refuse it.

The rest was seen while modelling. The models have what they cover of it as the
code does, and leave the rest out where section 2 says so. Line numbers are of
`catalog.py` where no file is named.

Sources and the crawl:

- A query of an expired table waits for the refresh that another query started,
  where docs and docstring say it is answered at once: `begin_background_refresh`
  waits for the lock (`http_source.py` 698). A run that showed it gave its place to others.
- A source primed by discovery has no child tables until its first full read
  (683-685, 1033).
- A predicted page that fails in the middle of a collection is taken for its
  end, and the part is served as the whole without the warning (1004-1006).
- `schema()` looks again inside the lock but not at the full table. A from_records that fails
  leaves children newer than the table. `children()` never asks for a refresh.
  A thread that cannot be started leaves `_refreshing` set. An `invalidate()`
  between the looks of `child_schemas` answers no tables.
- A total declared wrong, or an empty page before the end, ends a read ahead without
  a word. A page that answers with something that is not a page fails the
  whole read, past the end too. A mirror's answer that cannot be decoded wins its race.
- A description that names the base, a link of the base or another description claims
  it before the walk, which then follows none of its links; the base itself
  ends the crawl there (`discover.py` 518, 533; the comment at 521 says what is
  plainly reachable from the base is not lost).
- A page of rows whose envelope is mostly links is taken for an index and never served
  (`discover.py`, `_is_index`).
- `load_all` may miss a child that another thread registered meanwhile; `get`'s way to an
  error raises RuntimeError when another thread registers children under it; two
  arrays that make the same name can change places under a race.

Transactions, batches and sessions:

- A TRY with a CATCH inside a CATCH clears what the outer one caught, so
  ERROR_NUMBER() is NULL in the rest of it (1967).
- A batch of one read neither sets nor clears `@@ERROR` (1584-1603).
- A batch whose only answer is an error loses its transaction though it ran to its
  end (1511-1518, 1657-1663).
- Text that drops a table of the batch and makes one of the same name leaves its
  own behind (2144 compares names). A text ended by an error tells no mismatch of
  transactions. `XACT_ABORT` ends the text only.
- A batch refused before it runs for making a table twice still ends an earlier batch's transaction.
- A BEGIN, SAVE or ROLLBACK through the API by a name the statement grammar does
  not read is answered as done (`connection.py` 698). A COMMIT with two open tells the client its
  transaction ended. A ROLLBACK that names the transaction ends it untold, as
  does an error with XACT_ABORT on. The flags for beginning another on commit or
  rollback are read past.
- Names a session keeps for itself (host, login, app, server, now) hide tables of those names.
- A password outside ASCII closes the socket instead of being refused (`logins.py` 126).
- Session ids wrap after 65485 connections (`tds/packet.py` 160).

- An error that a batch ran past is dropped with the rest of the answers when the batch ends
  at an error in neither list (1654-1655), where the docstring (1672-1676) says such errors are
  left among the answers: `SELECT 1/0 AS a; SELECT 2 AS b; SELECT nosuch FROM people` is
  answered 207 alone. The comment above (1647-1650) explains it of an error of compiling, but
  the statements before one found by reading have run. `TellsWhatHappened` has the case.

Reading a batch:

- A single-statement branch ends at any word a statement may begin with
  (`sql.py` 3146 never asks `_belongs_to_it`, against 3008-3018): `IF 1 = 0 INSERT
  INTO #a SELECT 5` runs the SELECT, `IF 1=1 UPDATE #t SET a = 2` is refused.
- `IF ... DROP TABLE` and `CREATE TABLE` are refused: STATEMENT_WORDS (146-154)
  lacks what `sql.py` 3189 has.
- BEGIN TRAN inside a block or a TRY swallows the rest of the batch. A plain block
  `BEGIN SELECT 1; SELECT 2 END` loses its first result or is refused. BEGIN TRY needs no CATCH.
- What the text alone does not settle is found when its turn comes, after what stands before
  it ran: `CREATE TABLE #t (a int); SELECT id FROM people WHERE id` makes the table and is
  then refused (4145), as is one that stops after `BETWEEN 1` or after an `IF EXISTS (...)` with
  nothing to run (50000). In a branch not taken it is never found: `IF 1=1 SELECT 1 ELSE
  SELECT id FROM people WHERE id` answers 1. `CutShortIsRefused` asks such a text only
  to be refused when it is read.
- `IF ... BEGIN ... END; ELSE ...` splits the ELSE off; `IF 1 = 1 SET @a = 1; SELECT @a` is refused.
- A BREAK last in a block of several statements is missed by `loose_exits` and reaches the caller
  as `_LeftTheTurn`.
- A name after @ or # that spells a statement's first word is cut there
  (`@return`; tests/test_sql.py:804 says a variable's name is one name). A
  bracketed name with `]]` and a semicolon is cut.
- UNION and INTERSECT go left to right, and `SELECT 1 EXCEPT (SELECT 1 UNION
  SELECT 2)` answers 2. A SELECT with no FROM loses its WITH queries (`sql.py` 3334).
- Refused: `TOP(2) id` without a space, `SELECT ALL id`, `id>1ORDER BY`, `FROM p OUTER APPLY`
  with no alias (`sql.py` 169), OVER with no FROM, a space between a frame's bound and its
  bracket, `(id+1)*2 > 4` as a condition (`predicate.py` 3272), `6/(id-2)`; `id -1` is a name and a
  number.

Answering a SELECT:

- `TOP 50 PERCENT WITH TIES` returns every row (5117); `TOP 0` with no FROM
  returns one; `TOP ... WITH TIES` by an aggregate in arithmetic raises a raw error.
- `SELECT DISTINCT COUNT(*) ... GROUP BY` keeps repeats (2041-2097). `COUNT(DISTINCT
  x)` with `HAVING COUNT(x)` reads the DISTINCT count (4526-4545).
- `SELECT p.* FROM p JOIN t` returns all columns. A window's alias that is a
  column's name too sorts by the column, and the other way round. A division by zero in ORDER BY
  is told as an unknown column (4062).
- EXISTS over a correlated COUNT(*) ignores the aggregate (1406-1478). An alias in a
  self-correlated subquery reads as inner (3813-3836), which does not look into ORDER BY,
  aggregates, GROUP BY or ON. Subqueries in a window's own ORDER BY are dropped.
- A SELECT that assigns keeps correlated answers across rows, and of a plain column
  converts only the last row (2660).
- `1 NOT BETWEEN 5 AND NULL` is unknown (`predicate.py` 3142, 3193). IN compares as Python
  does; `1 = ANY ('x', '1')` is refused where IN is true. Empty and reversed ranges of LIKE raise raw
  errors. A tie between binary types goes by the order of the branches.
- `window.py` 19 says frames are refused; they are read. AVG of integers truncates in a group and not in a window.

Session tables:

- `UPDATE ... SET a = MAX(a)` and `DELETE ... WHERE COUNT(*) > 5` read one row and drop the rest of the
  table (2369-2395).
- 2.675 into a decimal(5,2) is 2.68 by INSERT and 2.67 by UPDATE, which 2386 says
  converts alike. A text column made by SELECT INTO keeps numbers as numbers.
- `INSERT ... EXEC` keeps the first result only. A column may be named twice
  (`source.py` 436-449). A name that no table has is accepted where the table is empty.
- A refused statement in a TRY leaves `@@ROWCOUNT` at what its own read counted (1695 says
  nought), and `SET @v = @@ROWCOUNT` gives NULL (1758).

## 6. Not modelled

`PROJECT.json` lists every component with the reason. In short: byte layouts
and file formats have no state and are tested against captures; views and procedures
are literal tables built afresh; shape detection is a heuristic with nothing to hold it
to; scalar functions, LIKE and dates compute on text one call at a time. Of SQL reading the
characters are left out: comments, quoting, numbers. Of `Scratch`, aggregates in
an UPDATE or a DELETE, a column named twice, INSERT of an EXEC and a SET from a subquery. The TLS handshake and SSPI
belong to their libraries and appear as steps that succeed or fail.
A collection that changes while it is being read gives a table of two
versions; the code says nothing about it and the model keeps a collection still.

## 7. Plan

Done, in the order of importance it was done in: `HttpSource`, `HttpPaging` with
`CollectionRead`, `Transactions`, `Session`, `BatchExec` and `Connection`, each with
proofs; `Crawler` and `Catalog`, and their proofs; `Query` with `Answers`; `Subqueries`, and its proofs;
`Words` to `Reading`; `Scratch` with `Casts`, and its proofs.

Left:

1. `Session` and `Connection` composed, so that an error which fails the
   connection after a request was carried out is seen by the client beside what
   the session did.
2. Scalar functions over NULL and mixed types, as one table of what each gives; views over
   the catalog that `Catalog` already models.
