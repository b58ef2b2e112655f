# A TLA+ verification of scount

scount is a small HTTP service in Go for sharing expenses: users register, log
in, change their password and keep *scounts*, the groups that share expenses, in a
PostgreSQL database. This
directory models its handlers and its store, model-checks them with TLC and
proves the main invariants with TLAPS.

## 1. The system

| part | source | state | operations |
|---|---|---|---|
| schema | `db/postgres/init.sql` | tables `users`, `scounts`, `members` with their keys | - |
| collections | `db/postgres/users.go`, `scounts.go`, `members.go` | none of their own | Insert, DeleteOne, UpdateOne, FindOne, Find; FindByEmail, UpdatePassword |
| transactions, errors | `db/postgres/store.go` | - | `Tx`, `Error`, `queryData.iterator` |
| store contract | `db/store.go` | `Iterable`: consumed, total, error | Iterator, Total, Err |
| authentication | `api/auth.go` | - | RegisterUser, LoginUser, ChangePassword |
| users | `api/users.go` | - | GetUser, GetCurrentUser, UpdateUser, DeleteUser, ListUsers |
| scounts | `api/scounts.go` | - | CreateScount, GetScount, UpdateScount, DeleteScount, ListScounts |
| middleware | `api/middleware.go`, `api/internal/context.go` | the context of a request | BodyParser, QueryParser, Validware, Authware, setCurrentUser, ScountPathWare |
| tokens | `api/random.go`, `main.go` | `secret`, drawn at start unless `SECRET` is set | GenerateID, GenerateToken, SetKey, GetKey |
| paging | `api/api.go`, `api/internal/parsing.go` | - | ParsePaginator, PagingLinks, LinkHeader |
| documents, health | `fs.go`, `main.go` | - | static files, 200 |

The handlers share nothing but the database and the signing key. A request
passes the middleware of its route (`Router` of each resource), the handler
issues one statement, `ChangePassword` two, and maps the error of the store to
a status. Nothing in the process is locked apart from the key; every decision
between two requests is taken by PostgreSQL's keys, foreign keys and the WHERE
clause of the statement.

What is hard here:

* `ChangePassword` reads, compares and then writes, in two statements with other
  requests in between (`api/auth.go:207`, `:242`). The comparison is only worth
  something because the UPDATE repeats the old hash in its WHERE clause.
* A statement may end without an answer. Then the client is told 500, and
  the write may still happen, at any later time.
* `CreateScount` writes two tables; `DeleteScount` and the owner change depend on
  foreign keys between them.
* `Insert` of several rows writes row by row and relies on the deferred Rollback
  (`db/postgres/store.go:111`). Sessions wait for each other's uncommitted keys, may
  deadlock, and a lost Commit leaves a session behind that nobody listens to.
* A listing is a count and a page in two statements of one transaction, each with a
  view of its own, while rows arrive; its rows come one by one and may stop coming.
* `page` and `size` are whatever integers the client sends.
* Tokens outlive what they were given for: Authware never looks the subject up.
* The order of the middleware on each route decides which context keys a handler
  finds; a missing one is a panic.

`PROJECT.json` lists all hazards with their lines, those that no property
covers yet included.

## 2. The modules

`Tables` - the three tables as sets of rows, and one action per statement:
`UserInsert`, `UserUpdatePassword`, `ScountInsert`, `ScountUpdate`,
`ScountDelete` and so on relate the tables before, the tables after and `err`, the
error that the method returns. An Insert of one row is one action: its `Tx`
contains a single statement, so that its effect and its outcome are PostgreSQL's.
`Error` (store.go:37) maps classes of SQL errors; classes 22 and 42 do not depend
on the rows, so `Rejected` lets any statement fail with the ones in the constant
`Rejections`. A bcrypt hash is a record of a password and a salt; the salt is what
makes two hashes of one password different. The description of a scount is
left out: no code reads it but to send it back.

`Api` (EXTENDS `Tables`) - one process per goroutine that serves a request:

| variable | in the code |
|---|---|
| `tokens` | the subjects that hold a token signed with the current key and not expired |
| `pc[p]` | idle; run: past the middleware; update: ChangePassword before its UPDATE; reply: status decided |
| `req[p]` | the request, with what the middleware put into its context |
| `user[p]` | the local variable `user` of LoginUser and ChangePassword |
| `status[p]` | the status written, `Aborted` for a connection that net/http closes |
| `stray[p]` | a write that process p sent and gave up on, which PostgreSQL may still run |

`Admit` and `Refuse` run the middleware of a route (`Chain`, in the order of
`Router`; `Verdict` is what each one refuses). Each handler is an action that runs
its statement and maps the error to a status; `ChangePassword` is two. `Reply` is
the moment the client has the answer: only then can it use a token. `Panic` is a
handler whose context key is missing (`MissingKeys`, computed from `Sets`, `Reads`
and `Chain`). Failures: `StatementFails` (no answer, 500; the write may stay behind
in `stray`), `StrayRuns`, `StrayDropped`, `Restart` (all processes stop, and the key is
lost unless `SECRET` is set) and `Expire` (a token is an hour old).

What a handler computes between two statements reads nothing that others
write, so it is part of the step of the statement before. bcrypt's limit of 72
bytes and a random source that fails bcrypt are among the reasons for `StatementFails`.

`ApiProperties` - the properties of `Api`, and, at its end, statements of the
repository's documents that the code does not meet.

`Credentials` - the abstract specification of accounts: register, log in and change
a password each take effect in one step between the arrival of the call and its
answer. Hashes, statements, tokens and HTTP are not mentioned. Its two weaknesses
are explicit: a call that failed may be carried out late, and a change may be
refused if the account was changed during the call (`contended`).

`ApiCredentials` - the refinement mapping. Accounts are the rows of `users` without
salt and name; a call is contended when the hash it has read is gone; late calls
are the stray writes. `CredentialsAtomic` is `Credentials!CSpec` under the mapping.

`MCApi` - workloads and symmetry for TLC.

`Calls` (EXTENDS `Tables`) - the calls of package `db`, for any number of goroutines:
an Insert is a sequence of rows, the others name what they change or look for. It
defines what each call does when nothing else runs, and the keys a row takes in
the unique indexes of `init.sql`.

`Collections` - the abstract specification of `db.Collection` ("assumed to be
thread-safe", `db/store.go:31`): every call takes effect in one step between its
arrival and its answer, an Insert with all of its rows or with none. After an error
that is none of package `db`'s the call may still take effect later, once.

`Transactions` - the same calls as package `postgres` carries them out:

| variable | in the code |
|---|---|
| `call[p]`, `answer[p]` | the method a goroutine is in, and the error it returned |
| `sess[p]` | the transaction of `Tx`: the keys taken, the rows written, the row the loop is at, and whether that row has its first key |
| `orphans` | sessions whose caller has given up: a transaction that will be aborted, or a statement or a Commit that the server has received |

`StartRow` and `FinishRow` are one `ExecContext` of the loop: the row's entries in two
indexes are made one after the other, so that two inserts can hold what the other
one waits for. `Violation` and `RejectRow` are an error of the statement, which ends
the transaction; `Deadlock` is PostgreSQL's choice of a victim (an error of class 40,
which `Error` passes through); `Commit` makes the rows visible. `Fail` is a
connection that ends at any moment. A delete waits while an uncommitted row
refers to its row (`Blocked`). `CallsAtomic` is `Collections!CSpec` under the mapping
that forgets sessions and keeps those orphans that may still take effect.

`Paging` - `ParsePaginator`, the window of rows that `ListUsers` asks for, and
`PagingLinks`, over Go's int of a small width: products wrap around, division
truncates, and by zero it panics.

`Browsing` - a client that goes from answer to answer by the links of `PagingLinks`
(`Show` is the answer of `ListUsers`). The links are computed from `Total`, which for
users is always 1 (see `total` below); here `Total` says any number that never shrinks,
so what is shown of the links holds for the 1 of today and for a count that is put
right. A true number would shrink only if users were removed, which no request does.

`Listing` - `GET /users` and `GET /scounts`: QueryParser (`Refuse`, `Arrive`), the
count (`Count`, `CountScounts`, both inside `Iterator`, which panics when the list is
consumed), the statement of the page (`SelectPage`), row after
row (`Fetch`), the end of the transaction (`Commit`), and the answer (`Respond`), with
the state of the `Iterable` (`total`, `consumed`) and of the response (`list`, `links`).
`Break` is a failure in between, `Register` is another request that adds a user.
`before`, `moments` and `walk` are history: the users there were when the request
came, those there were at each moment from then until the statement of its page, and
what a client has seen that reads page after page. Each listing works on its own
variables and changes no table, so one reader beside the registrations meets every
interleaving there is.

`MCTransactions`, `MCListing` - instances for TLC.

`TablesProofs`, `ApiProofs`, `CredentialsProofs`, `TransactionsProofs`, `PagingProofs`,
`BrowsingProofs`, `ListingProofs` - the theorems (section 4). Each extends the module it
is about and holds the inductive invariant, so that the models stay readable alone.

Definitions introduced by "Faulty variant" are the code with one plausible bug.
Nothing uses them; each one, put in the place of the definition that follows it,
makes a property fail. They are the evidence that the properties can fail.

## 3. What TLC checks

| run | instance | properties |
|---|---|---|
| `credentials` | 2 processes on 1 account, 2 passwords; lost answers, one of the processes leaves writes behind, restarts with a new key | `HandlersRemember`, `AcknowledgedWritesDone`, `PasswordChangesGenuine`, `CredentialsAtomic` |
| `scounts` | 2 processes, 2 users, 2 scounts, title given or empty; no faults | `TypeOK`, `Integrity`, `EveryScountHasMember`, `AcknowledgedWritesDone`, `ScountsChangeAsRequested` |
| `requests` | 1 process and its stray write, 2 users, 1 scount, every request there is, malformed or without token; lost answers, restarts with a new key | `TokenSubjectsRegistered`, `FailuresChangeNothing` |
| `calls` | 2 callers, 2 users, 2 emails, 1 scount; users inserted two at a time, every other method but `UpdatePassword` (which `credentials` has); lost connections, 1 session left behind at a time | `TxTypeOK`, `Integrity`, `CallsAtomic` |
| `progress` | 2 callers, 2 users with 1 email between them, any two rows per call; 2 sessions left behind; fair | `SomeCallAnswered` |
| `links` | totals up to 20 that may grow from answer to answer, sizes 1 to 6, int of 6 bits | `LinksLeadToRows` |
| `pages` | 1 reader, 3 users who register meanwhile, sizes 1, 2 and default, pages 0 to 3, filters; size and page zero, negative, overflowing or no number; unknown sort; scounts; failures; int of 5 bits | `ListIsOnePage`, `WalkMissesNobody` |

Each of the next runs finds a behaviour that contradicts a document of the
repository:

| run | what the code does |
|---|---|
| `delete_scount` | `DELETE /scounts/{sid}` of the owner's own scount is answered 409: the owner is a member and the foreign key of `members` does not cascade |
| `change_me` | the routes `/users/me` for DELETE and PATCH lack `setCurrentUser` (and `BodyParser`): the handler panics |
| `total` | the count is grouped by uid, so `Total` of a list of users is always 1, and no answer has a link to the next page unless size is 1; the property only looks at listings during which nobody registers, so that a correct count meets it |
| `sorted` | users asked for in the order of email come in the order of uid: the template "sort" is invoked without data (`Orders`; `openapi.json:248`) |
| `overflow` | a page whose offset wraps around to 0 or more is answered with the users of another page (`Window`; `openapi.json:807`) |

More differences between the code and its documents are in the models as the code
has them, without a run of their own:

* PATCH of owner and title is answered 500 and sets neither: the template writes no
  comma (`UpdateColumns`, `IsSql`; `schema/ScountUpdater.json:5`).
* `GET /scounts/{sid}` answers 404, which `openapi.json:633` does not list; a request
  that fails validation is answered 400, not 422 (`openapi.json:766`).
* A listing of users that none matches is answered 500, as the count has no row
  (`Count`); `db/store.go:42` says "then empty list".
* A client that relies on the links alone sees no more than the first page, or the
  first two of size 1, as they are computed from a total of 1 (`PagingLinks`).
* `GET /scounts` is always answered 500: both statements are refused by PostgreSQL
  (`CountScounts`; `openapi.json:581`).
* `GET /users?size=0` is closed without an answer when somebody matches (`Panics`), no
  size is too large (`schema/Paginator.json:9` says 50), and a negative `page` is not
  refused with 400 but by PostgreSQL, with 500.
* `DELETE /users/me` removes nobody (it panics), so nothing that was created over HTTP
  is ever removed. That is not stated as a property: it is the sum of two defects.

**Bounds.** Two processes are enough for every race of the code: a handler
has at most one point where others can come in between, so a third process adds
no new order of two statements. Two users, emails and scounts let keys collide and
differ. Six salts are more than there are hashes in use, so a fresh one always
exists. `stray` keeps one write per process; an older one is lost, which is among the
behaviours of the code. The instances with faults have fewer values to stay within
minutes: `credentials` has two processes on one account, where all races are, and
`requests` has one process on two, because its second writer is the stray write.
Symmetry permutes users, emails, passwords, scounts and titles, which the model
only compares, and processes when they are alike; `progress`, with its liveness
property, uses none.

In `calls` and `progress` two callers suffice for every wait, and for a deadlock: in
`progress` each inserts two rows in opposite order. A third session that waits or is
waited for is an orphan: one that keeps the keys of an earlier attempt of the same
Insert is the case of `progress`, which has two of them. `calls` has one orphan
(`Slots`) and at most one row of scounts and members per call to stay within minutes.
In `pages` the offset wraps at 16 instead of 2^63, and page 15 of size 2 reaches it;
three users are enough for full, partial and empty pages. `ListIsOnePage` leaves out
what `sorted` and `overflow` report: orders other than by uid, and offsets that are
no int.

**Fairness.** Only `progress` assumes any. No handler of `Api` or `Listing` waits for
another one, so that every request ends is no more than the scheduler's fairness and
is not stated.

`SomeCallAnswered` assumes weak fairness of each caller's work and of the server
towards sessions whose client is gone: PostgreSQL answers a statement that need not
wait, breaks deadlocks, and notices closed connections. It does not assume
that a waiting statement is served before others that come later, and so states
only that *some* call is answered: which one of two waiting inserts gets a key is
PostgreSQL's choice, and one may lose every time. `Fail` is not fair.

Deadlock is checked in every run: the server can always take another
request, package `db` another call, and a client can always go back to the first page.

## 4. What TLAPS proves

In `ApiProofs`, for all values of the constants that satisfy their assumptions (`NoneIsNoValue`:
the empty string is no identifier and no name; `RejectionsAreErrors`; `Constants`:
the workload consists of requests), with faults and restarts:

* `InvariantHolds`: `Spec => []IInv`.
* `TypesHold`, `IntegrityHolds`, `MembersHold`, `TokenSubjectsHold`, `MemoryHolds`:
  the five state invariants of the runs over `Api`.
* `PasswordChangesHold`, `ScountChangesHold`, `AcknowledgedHold`, `FailuresHold`: the
  four action properties.

None of the invariants is inductive alone. That `CreateScount` never meets a missing
owner needs `TokenSubjectsRegistered`; that needs users never to be removed and
every authorized route to run Authware, now and for writes that outlived their
handler; and that the second step of `ChangePassword` writes the right row needs
`HandlersRemember`. `IInv` therefore has one conjunct for the tables (types, keys,
references, a member for every scount), one for tokens, one for each process (its
request is one that could be admitted, what it remembers is true, at `reply` a
login holds the row of its email) and one for each stray write. `TablesProofs` has
one lemma per statement that says what it keeps; `ApiProofs` has one lemma for
`Write`, the disjunction of all statements, and one per group of actions. The
action properties then follow from `IInv` and from who may write: a handler's own
request or a stray's, both of which are in `Pending`.

In `TransactionsProofs`, for any number of callers, rows per call, users and scounts,
any workload of calls (`WorkloadOfCalls`), with or without faults:

* `InvariantHolds`: `Spec => []IInv`; `TypesHold`, `IntegrityHolds`: its two parts that
  the runs check.
* `AtomicityHolds`: `Spec => CallsAtomic`, the refinement of `Collections`.

`Integrity` is about committed rows only, and a Commit checks nothing. That it
keeps keys unique needs what is known of every open session, orphans included: it
has written exactly the rows of its call up to the one it is at and holds exactly
their keys (`AtRowOf`), none of these keys is in the tables and what its rows refer to
is (`Fits`), and no two sessions hold a key in common (`KeysApart`). `IInv` is that
beside types and integrity. A single statement keeps it because only an Insert adds
keys (`Shrunk`) and because a delete is `Blocked` by a row that refers to its row; a
Commit because the keys of all others are disjoint from its own (`Grown`). For the
refinement, `Commit` is the step at which the whole Insert happens: by `AtRowOf` and
`Fits` all of its rows fit into the tables and beside each other, which is
`Insertable`; `StartRow` and `FinishRow` are stutters; and `Violation` is only taken when
the call is not `Insertable`.

In `CredentialsProofs`, with the constants of `ApiProofs`:

* `HashesHold`: `Spec => []RInv`, where `RInv` adds to `IInv` that hashes differ.
* `CredentialsHold`: `Spec => CredentialsAtomic`, the refinement of `Credentials`.

`IInv` is not enough for the refinement. `ChangePassword` compares the password with one
row and updates by uid and old hash; the abstract change compares and replaces the
password at once. They agree only if the hash that was read still being in the
table means that the account still has the password that was compared, and its
absence that the account was changed in between (`contended`). That is `HashInv`: no two
rows have the same hash, and the one held between the two statements belongs to nobody
else. It is kept because a new hash has a salt that is in use nowhere, neither in
the tables nor in a handler nor in a stray write (`FreshHashIsNew`, `WriteHashes`). The
refinement has one lemma per handler: the statement that decides a call is the step
of the abstract call (`RegisterStep`, `LoginStep`, `ChangeStep`), the read is a
stutter or a refusal (`ReadStep`), a lost answer moves the call to the late ones
(`FailStep`), and a stray write carries out a late call (`StrayStep`).

In `PagingProofs`, for every width of an int: products that fit are not wrapped
(`WrapKeeps`), those just beyond are negative (`WrapNegates`), and division of
natural numbers by `PagingLinks` truncates (`QuotientIs`). The prover knows no induction
on `2 ^ n`, so `PowerOfTwo` gets `2 ^ (n + 1) = 2 * 2 ^ n` by counting subsets.

In `BrowsingProofs`, for every total, size of a page and width of an int, as
long as the total and the size are ints (`BrowsingBounds`):

* `InvariantHolds`: `Spec => []IInv`; `LinksHold`: the property.

The invariant is that the page shown starts no later than one row behind those
counted. Every link keeps that (`LinksStart`): `next` because it is only given before the
last page, and because a later answer never counts fewer rows.

In `ListingProofs`, for any number of readers, users, names, patterns and queries, any
width of an int, with or without failures (`ListingConstants`: queries are queries, and
uids are numbers, as only their order matters):

* `ListingInvariantHolds`: `Spec => []IInv`.
* `ListIsOnePageHolds`, `WalkMissesNobodyHolds`: the two properties of `pages`.

The place of a row is its `Rank`, the number of matching rows with smaller uids. In an
ordered list the i-th row has rank i - 1 (`OrderedByRank`; by cardinalities, without
induction), so that LIMIT and OFFSET cut out the rows of certain ranks (`PageIsWindow`).
`IInv` says of a page being fetched that entries and rows to come are together
the window of the users of one of the `moments` (`HasPage`): the users there are belong to
the moments until the page is selected, and each moment holds all who were there when
the request came (`MomentsInv`), which `Register` cannot disturb; and of a walk that every user who
matched at its beginning was on a page read so far, or has at least the rank at
which the next page starts (`IsWalk`). A registration only raises ranks (`RankGrows`).
That rank is counted among the users who were there when the request came (`Base`),
not among those there are now: someone who registers after the page's statement would
push a row back only in a later snapshot. The offset itself may overflow,
but a walk goes up in steps of one size, and the first product beyond the ints
is negative and refused (`NextOffset`), so a walk never continues on a wrong page.

Only model-checked: the liveness property `SomeCallAnswered`, as
neither fairness nor ENABLED is within the prover's reach. Every state
invariant, action property and refinement of the passing runs is also a theorem. The
assumption of `Transactions`, `Api` and `Listing` about what PostgreSQL does in one
statement is part of the models and is not proved.

## 5. Not modelled, and what is left

Left out for good: static documents and the health check (stateless), the wrapper
of errors in `db/internal/error.go`, wording of logs and bodies, the encoding of the
Link header, the description of a scount, the redirects of `main.go`.
`MemberCollection.Find` is called by nothing; it is built like the listing of scounts and
fails like it.

A failing random source (`api/random.go:22`, `:35`) is left out: `GenerateID` would
return the empty string and `init` would keep a key of zeros.

Not reachable over HTTP: updating and deleting users (their handlers panic before the
statement) and the whole members collection. Their statements are in `Tables`, and
callers of package `db` that use them are in `Transactions`. `Listing` therefore has no
users that are renamed or removed.

What is left: `Session`, several tokens of one subject with their expiry times and
keys, implementing the set `tokens` of `Api`, with the proof that it does.
