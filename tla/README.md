# Verification of notifications_utils

`notifications_utils` is the library that the Notify apps (API, admin, template
preview, the Celery workers) share. These TLA+ modules model the parts of it
whose correctness depends on interleavings, failures, time, or long sequences of
calls. TLC checks them on small instances; TLAPS proves what matters most for
every instance.

Contents: 1 inventory, 2 plan, 3 the modules, 4 the runs and their bounds,
5 fairness, 6 the proofs, 7 what is only model-checked, 8 where the code and its
documentation differ, 9 what is not modelled. `PROJECT.json` maps every
definition to its lines, every property to a mutation of the code that it
catches, and every hazard to the properties that would catch it going wrong.

Paths below are relative to `src/notifications_utils/`.

## 1. Inventory

### The system's parts

| part | state it keeps | operations | why it is hard |
| --- | --- | --- | --- |
| request cache, `clients/redis/request_cache.py` | redis entries; the API's data behind them | `@set`, `@delete`, `@delete_by_pattern` | calls of many processes interleave between their redis commands and API calls, each of which may time out, fail, or take effect later |
| redis client, `clients/redis/redis_client.py` | per app context: a flakey mark | commands, `__handle_exception` | an exception says nothing about whether the command ran |
| token bucket, same file | one redis hash per key | `get_remaining_bucket_tokens` and its Lua script | callers' clocks differ, scripts run late and out of order, integer rounding |
| sliding window, same file | one sorted set per key, with an expiry | `exceeded_rate_limit` | entries are timed by the callers, the key by redis; refused calls count |
| recycled contexts, `gunicorn/eventlet.py`, `local_vars.py` | a pool of `contextvars` contexts; a resource in each | `handle`, `LazyLocalGetter.__call__`, `clear` | green threads switch anywhere in a handler and the factory, and handlers raise |
| greenlet accounting, `eventlet.py` | counters on each greenlet | the trace hook, `reset_greenlet_stats`, the readers | switches before the hook is there; a reset in mid-turn |
| interruptible calls, `interruptible_io.py` | one generator and its counter, for all callers | `interruptible_every`, `interruptible_iter` | the generator is re-entered at its own switch |
| request timeouts, `eventlet.py` | none | `EventletTimeoutMiddleware` | exceptions at any switch, soft before hard |
| letter timings, `letter_timings.py` | none; three readings of the clock | dates of printing and delivery, `letter_can_be_cancelled` | midnight and the deadline between the readings; weekends and holidays |
| S3 folders, `s3.py` | two buckets | `s3_move_folder_between_buckets` | copy and delete are two calls; side by side, failing, run again |
| Celery tasks, `celery.py` | `flask.g` of stacked app contexts; `start` on the task object | `apply_async`, `retry`, `__call__`, `on_success`... | tasks that call tasks, redelivery, workers with a context at start |
| request ids, `request_helper.py`, and logging, `logging/` | the ids of a request; what its last line is given in advance | `trace_id`, `span_id`, the headers, `before_request`, `after_request`, the filters | ids must survive requests, tasks and retries; the last line is written when request and `g` are gone |
| insensitive sets, `insensitive_dict.py` | an ordered dict of normalised keys to spellings | the set operations, in place and not | aliases: in-place operators with themselves and with lists |
| recipients' spreadsheets, `recipients.py` | rows, and one template that all of them use | reading, `_get_rows`, errors and limits | repeated, respelt and missing headings; cached content; checks that cannot be asked in every order |
| SMS templates, `template.py`, `field.py` | values, prefix, cached text and count | setters, `content_count`... | a cache that one of its two setters empties |
| email and letter templates, `template.py` | the texts of one of two languages; the values that were set | the `values` setter, `missing_data`, `additional_data`, `is_message_empty`, a letter's address block | values are set while the texts are still of the other language; one name in several spellings; an address block that is asked before it is complete |
| Dutch postal addresses, `recipient_validation/notifynl/postal_address.py` | none | normalisation, `valid` | what is stored is read again |
| countries, `countries/` | a dictionary that is built from five tables on import | `CountryMapping.__getitem__`, `Country.postage_zone` | later tables override earlier ones, names are read without their article or case |
| UK postal addresses, `recipient_validation/postal_address.py` | none | `normalised_lines`, BFPO, `as_personalisation`, `valid` | lines are taken away from the end by rules that look at all of them; what is stored is read again, as text or by keys |
| Zendesk, `clients/zendesk/zendesk_client.py` | tickets and uploads of the desk; how far open files have been read | `send_ticket_to_zendesk`, `update_ticket` | several requests make one update, each of which may be acted upon and not answered; callers call again |
| formatters, markdown, sanitising | none | text to text | in the characters, which models leave out |
| phone numbers, `recipient_validation/phone_number.py`, `notifynl/phone_number.py` | none | parsing, `validate`, normal forms, billing | second readings of what the first does not accept; what is stored is read again |
| antivirus, signing, encryption | none | one or two calls of a service or library | - |
| serialised models, settings, telemetry, small helpers, test support | none | - | - |

### How they interact

A request enters a gunicorn eventlet worker. `ContextRecyclingEventletWorker`
gives its green thread a context from the pool, in which `LazyLocalGetter` keeps
clients from one request to the next. `EventletTimeoutMiddleware` starts its
timers; `EventletTimeout` may then be raised at any switch, among others in a
redis command or in the switches of `interruptible_io`. The request logger resets
and reads the greenlet's accounts. The request's trace id is taken from its headers
or made up, and travels in the headers of every Celery task it sends, from there to
the tasks these send. The code behind the request reads and updates through
`RequestCache`, which calls `RedisClient`; once a command timed out, the client
marks the *app context* flakey and skips gets and sets (never deletes). The rate
limiters use the same client. `RecipientCSV` gives a template the values of each
row in turn, its headings and the template's placeholders are insensitive sets, and
letters' addresses are `PostalAddress`, whose last line may name a country that
`countries` knows. Apps file what goes wrong for their users with the Zendesk client.

### What makes each part correct

* *Request cache*: a read that begins after an update returned answers with it or
  with something newer, except where the code cannot help it; nobody is told of
  an update while redis may hold what was there before; stale entries go by themselves.
* *Rate limiters*: never more than the rate, whatever the clocks; no time lost and
  none counted twice; who pauses is forgiven, who keeps asking is not (window).
* *Worker*: no context in two hands; as many contexts as were ever needed at once;
  a stored resource is not overwritten; no time unaccounted for; switches as
  often as asked.
* *Letters*: dates are working days, counted right; nobody is told that a printed
  letter can be cancelled; a file is always in one of the buckets.
* *Tasks*: whatever a request causes, directly or through tasks and retries, goes
  by its id and message group; durations are those of the run.
* *Zendesk*: a call that returns has done what it was asked, once; comments carry
  all of their files.
* *Messages*: each row is measured as if it were alone; files without errors can be
  sent, and what is wrong with the others is shown; no value of a file is lost;
  what a template says of its values is true of what goes out; stored addresses and
  phone numbers read the same again, and valid addresses go out whole.

## 2. Plan

Order of work, the parts whose failure costs most and that tests reach least first:

1. `RedisClient`, `RequestCache` and its proofs - **done**
2. `Callers`, `TokenBucket`, `EagerBucket`, `SlidingWindow` and their proofs - **done**
3. `Eventlet`, `ContextPool`, `GreenletAccounting`, `InterruptibleEvery`, `RequestLog`,
   proofs of `ContextPool` and `GreenletAccounting` - **done**
4. `LetterTimings`, `FolderMove` and their proofs - **done**
5. `NotifyTask` (tasks, request ids, message groups) and its proofs - **done**
6. `Insensitive`, `InsensitiveSets`, `RecipientCSV`, `Fragments`, `PostalAddress`,
   `PhoneNumber` - **done** for text messages, Dutch addresses and Dutch phone numbers
7. `MessageTemplates`: the values of emails and letters - **done**; *open*: emails and
   letters in `RecipientCSV`
8. `Countries` and `UKPostalAddress` - **done**
9. `Zendesk` - **done**
10. proofs about `InterruptibleEvery`, `RequestLog`, `Zendesk`, sets, spreadsheets,
    templates and addresses - **done**; *open*: `PhoneNumber`'s normal forms

Compositions: `RequestCache` over `RedisClient`, with the keys of `CacheKeys`; both limiters over `Callers`;
`ContextPool`, `GreenletAccounting` and `InterruptibleEvery` over `Eventlet`;
`NotifyTask` is the composition of requests, a queue and workers; `RecipientCSV`
composes headers, rows and template, over `Insensitive`, which is over `Lists`; `UKPostalAddress` is over
`Countries`, which is a dictionary of `Insensitive`, and `MessageTemplates` over
`Insensitive` and `PostalAddress`.

Abstract specifications: `EagerBucket` is what the lazily replenished bucket
promises, and `TokenBucket` is shown to implement it. The limiters' other promises are
stated over histories (`served`, `admitted`), the set operations' over plain sets
of keys (`Algebra`).

Theorems: those of section 6.

## 3. The modules

Names follow the code: an action is named for the call or line it stands for,
a variable for the attribute or redis value. Variables that only record what
happened, for properties, are listed as history.

**`RedisClient`** has no state: which exceptions a command may end in, which mark
the context flakey, which are let out in spite of `raise_exception=False`, and
after which the command may have run all the same (`__handle_exception`).

**`RequestCache`** has one process per app context, and one action per step of a
decorated call that touches redis or the API: `GetAnswered`, `CallAnswered`,
`SetAnswered` and their failures for a read; `FirstDelete`, `Commit`,
`ApiAnswered`, `SecondDelete` and theirs for an update. The API's commit and its
answer are two actions, so that a call can fail after it took effect. `db` is the
version of the data per key, `store` what redis holds: a version, whether it has a TTL
and whether it landed late. A SET whose client timed out stays in `inflight` and
may be run by redis at any later time (`LateSet`). History: `settled` (the last update
that returned), `floor` (that, when a read began), `excused`, `refilled`, `waits`.

**`CacheKeys`** is `_make_key`: which argument of a call each name of a key format
stands for, given by position, by keyword or by default, and the one spelling that UUIDs
are given. It is compared with what Python binds (`Bound`, for calls it `Takes`).

**`Callers`** are clocks: `clock`, per caller `Skew`, and `asked`, when a caller
read its clock. `MaxDelay` bounds the time until redis runs its command.

**`TokenBucket`** is the `tally-bucket-rate-limit` script (`RunScript`, atomic as redis
runs it), its calls (`BucketAsk`, `BucketFail` before or after the script) and a
redis that loses the key (`Lose`). Time is in ticks, of which a token takes
`TicksPerToken`; `Replenishment`, `Remaining`, `Replenished` are the script's lines,
with its rounding. **`EagerBucket`** gains a token whenever its time has passed.

**`SlidingWindow`** is the pipeline of `exceeded_rate_limit` (`Execute`: zremrangebyscore,
zadd, zcard, expire, in one transaction), with the answer and failures as
actions of their own, so that other callers' pipelines come between.

**`Eventlet`** has the green threads. **`ContextPool`** is
`ContextRecyclingEventletWorker.handle` (`Handle`, `Return`, `Raise`, `End`) and
`LazyLocalGetter` (`StartFactory`, `StoreResource`, `RejectResource`, `Clear`); the
factory is a step of its own because it may switch.
**`GreenletAccounting`** is the trace hook, as one action per switch (`Switch`, and
`SwitchUntraced` before `Install`); resets and reads happen in the running greenlet.
**`InterruptibleEvery`** is the generator that the decorator's callers share:
`CallInner`, `Interrupt` (it is at its `sleep(0)`), `Resume`, `TimeOut`, `Collide`
(someone else calls `next` on it) and `Exhaust`.

**`RequestLog`** follows requests through `before_request`, the view (`Look` at ids
and the service, `Call` another app, whose headers come from
`get_onwards_request_headers`), `after_request` and `_log_response_closed`. What
the last line knows was put into it by `after_request` (`baked`), because by then
request and `g` are gone. Lines have a level and are only there if the log's is not higher.

**`LetterTimings`** has a clock of days, minutes and seconds, one letter, the walks
over the calendar (`Walk`, one step per day tested; `Advance`, what `days` add up to)
and `letter_can_be_cancelled` as `ReadDay`, `ReadTime`, `ReadDeadline`, `Decide`, one
action per reading of the clock. **`FolderMove`** has two buckets with
the versions of files, and movers: `List`, `Copy`, `Delete`, `Return`, `Raise`,
while others `Upload`.

**`Countries`** builds the dictionary of names as `data.py` and `__init__.py` do on
import (`find_canonical`, `PairsOf`, `Tables`), on twelve places instead of thousands,
with every kind of entry: countries that ended with or without a successor, islands,
numeric synonyms, names with articles, Welsh ones, synonyms of synonyms. `CountryOf` is
the lookup. What is expected of it is an assumption of `MCLetters`, `CountriesAreFound`, which
TLC evaluates; what the proofs need of any tables is `CountriesAssumption`. **`UKPostalAddress`** makes the normal form of an address
(`PostalAddressOf` is `__init__`, whose attributes make `normalised_lines`),
says what is `valid`, and stores it as text or `as_personalisation`, any number of times;
an address whose reading raises (`Raises`) is not stored.

**`Zendesk`** has the desk's tickets and uploads, clients, and the files that callers have
open, which a request reads to their end. `SendTicket` is one request; `UpdateTicket`,
`UploadAttachment` and `Put` are the steps of an update. Each request is refused, or acted
upon and answered, or acted upon and its answer lost. A caller whose call raised may
call again, with the same files.

**`NotifyTask`** has web apps and workers, a stack of app contexts with
their `g` per process, a stack of calls, and a queue that may deliver twice.
`SendTask` is `apply_async` with its headers; `BeginTask`, `CallDirectly`,
`Leave`, `Retry`, `End` are `__call__` and the hooks Celery calls. History: which
request a message was caused by, the group it was sent with, when a run began.

**`Lists`** is Python's `[item for item in list if ...]`. **`Insensitive`** has the ordered, normalised items and what is made of them;
**`InsensitiveSets`** how sets are sliced, indexed, searched and compared, and every operation of
the mutable sets as an action on one of two sets, with the other, itself, or something from elsewhere.

**`RecipientCSV`** reads a file row by row (`BuildRow`) into the shared template, whose
owner may have set values and the prefix and read it before. A value is its length, and of a
recipient also whether it is wrong or elsewhere; the template has a plain and a
conditional placeholder. `Checks` are the seven operands of `has_errors`, in
their order, each of which says yes, no, or raises; the lists of rows and
`displayed_rows` are what is shown of a file with errors, `personalisation` what is sent
of one without. **`Fragments`** is how many parts a message is sent and paid for as.

**`MessageTemplates`** has the texts of an email or a letter, their placeholders in the
order and spelling in which `placeholders` joins them, and the setter of `values` (`SetTo`), which
`__init__` calls before it chooses the texts of the language. `missing_data`,
`additional_data`, `is_message_empty` and `_address_block` are what is read from it.

**`PostalAddress`** makes an address's normal form and reads it again (`ReadAgain`); a
line is a sequence of words, of which the code tells apart postcodes, countries,
labels, return addresses and words a line must not begin with. `CanonicalName` is what the
tables of `countries` make of the name of another country; a canonical name is looked up
again when the address is read again, and the tables may then have another for it. `valid` and the `has_...`
that it is made of say what may be sent. **`PhoneNumber`** reads a text, a sequence
of digits and pluses (`Format`): `parse_phone_number` and the second readings of
`notifynl/phone_number.py`, `validate` for what a service allows, and what is made
of the normal and the readable form when they are read again. libphonenumber is
external: `Plan` has the lengths, forms and kinds of the numbers of each country. A number keeps
the zeros that its text had before it; `is_tv_number` and the normal form are of what
libphonenumber keeps as an integer (`NationalNumber`), and the region of code 31 is the
Netherlands whether the number is valid or not (`is_international_number`).

`MCRequestCache`, `MCRateLimits`, `MCTokenBucket`, `MCEventlet`, `MCLetters`,
`MCTasks`, `MCMessages` give constants their values. Four of them take together parts
that share no state: in each behaviour one of them moves, and the others keep their initial
state, so that each part's behaviours are all there and none are multiplied.

## 4. Runs

| run | shows | distinct states |
| --- | --- | --- |
| `cache_faults` | under every redis fault and both request deadlines: returned updates are seen, the first delete precedes the update, a flakey context does not wait again | 2,073,143 |
| `cache_live` | with a pattern that covers two keys: stale entries do not stay once updates stop | 451,238 |
| `cache_stale` | *violation*: stale data behind an update that returned | - |
| `rate_limits` | neither limiter lets more through than its rate; the bucket loses no time and forgives; the window decides by all timestamps in the interval | 344,489 |
| `bucket_exact` | with one clock and no delay `TokenBucket` implements `EagerBucket` | 16,496 |
| `eventlet` | contexts are exclusive and bounded, resources stay, times are exact, the shared counter takes turns; requests' ids are followed through calls and logs, and what should be logged is | 747,698 |
| `interruptible_collision` | *violation*: a call that does not reach its function | - |
| `greenlet_longest` | *violation*: a turn from before the reset | - |
| `letters` | walks count working days; no printed letter is cancellable and all others of its day are; no file is lost; UK addresses stay what they are when they are stored, and valid ones go out whole; Zendesk's calls that return have done what they were asked, and comments carry their files | 1,203,674 |
| `letters_deadline` | *violation*: the deadline's seconds | - |
| `tasks` | requests' ids and groups are followed through tasks, retries and redelivery; durations are those of the run | 2,048,643 |
| `messages` | operators in place are those that make new sets, and change no other set but the operand of `^=`, which loses what the two shared; sets read as lists and as sets; rows are measured alone, files without errors can be sent and no value is lost; what emails and letters say of their values is so, an address is shown; stored addresses and numbers stay, valid addresses go out whole, a number is read as itself however it is written | 408,696 |

Bounds, and why they are enough:

* **cache_faults**: two contexts with redis and one without, one key, all of
  `RedisExceptions`, `MaxVersion` 1. The interesting races are between one reader and
  one updater, or two updaters; a third context shows what an app with
  redis switched off leaves behind. One update per key is enough for an entry to be
  older than what was returned; races of several updates are covered by the proofs,
  which bound nothing. The two contexts with redis are symmetric.
* **cache_live**: two keys, so that a pattern deletes one entry and is interrupted
  before the other; one fault, since what a fault *is* does not matter to the TTL. No symmetry,
  as it checks liveness.
* **rate_limits**: two callers, one of which is a tick ahead, and a tick between reading
  the clock and redis, so that scripts run in both orders and stamp in the past
  and the future. A token takes 2 ticks (so a tick can be left over), the bucket
  holds 2 and owes 1, and 8 ticks empty and fill it more than once. The window is 5
  ticks for 2 requests. Each timestamp is counted up to `MaxTies`.
* **bucket_exact**: 3 ticks per token leave two different remainders; 15 ticks fill
  the bucket twice over.
* **eventlet**: three green threads, so that two can meet in what a third left; 3
  contexts and resources, 5 ticks, 3 switches to each, and a switch every third call.
  Green threads are symmetric. Of the log two requests, which may call each other, one
  service, ids from outside that may be said twice, and a level of each kind.
* **letters**: a day of four minutes of two seconds, the deadline in the
  middle, printing after the first; seconds matter at the deadline only, and two tell before
  from after. A letter is created in any second of a week, with every choice of
  holidays from a midweek day, the Friday and the Tuesday after, and walks go on
  from there as far as they have to, over weekends; the clock runs on to day 5 for
  the question whether it can be cancelled. Two files and two movers, two uploads of each.
  UK addresses of up to three lines of fifteen kinds, four of seven and five of four, where
  two to four are allowed; the kinds are what the code tells apart: a postcode in either
  case, BFPO with and without a number, this country, others, islands and names of no
  country. Two Zendesk clients make three calls in all, so that two updates of one
  ticket meet or one is made again after it raised; comments have two files or one twice.
* **tasks**: one web app, one worker, two tasks, a queue of one message, 3 ids, direct
  calls two deep in the worker. A task called by a task called by a task repeats what the
  second showed. Both with and without a context pushed at the worker's start, and
  with groups enabled or not in each process.
* **messages**: two sets of four headings, two of which are spellings of one key; 13
  headers that cover one and two spellings, repeats, missing and empty columns, and empty headings; up to
  two rows, since what a row leaves for the next needs two; messages of at most two characters,
  files of at most one or two rows; a service that may send to anybody, one that
  may send one message to one number, and one that may not send abroad. Addresses of
  up to four lines where two to three are allowed, so that there may be too few, enough
  and too many, with two postcodes and every kind of country: names of the Netherlands that are
  left out and not, one whose canonical name is its own, and South Georgia, which changes
  its name twice. Phone numbers of up to
  five digits after any beginning of zeros and pluses; codes of one digit; a home
  with numbers of two lengths, a country whose numbers with their code look like those at home,
  and one whose numbers are longer and cost by area. Emails and letters whose texts have
  up to three parts, of three placeholders, one of them in two spellings; values are given,
  empty, spaces, in another spelling, or None; of addresses three lines and the
  postcode. Values are set again any number of times. `Fragments`, which has no
  state, is evaluated for up to 500 characters, more than three fragments of either kind.

The keys of the `cache` runs are those that two methods' calls make, in all ways to
call them; `MCRequestCache` and `MCMessages` assume (and TLC evaluates) that.

Types are theorems (`CacheTypes`, `PoolTypes`, `DeskTypes` and so on) where there are proofs that rest on them;
of the runs only `cache_faults` checks them too. Everything is checked for deadlock. Passing runs fire every action of their modules.

Every property is broken by a plausible mistake in the code: `PROJECT.json`'s mutants
are operators next to the definition they mutate (a guard dropped, a
rounding turned round, a delete skipped), with the property they break.

## 5. Fairness

Only `cache_live` checks something that must happen, and the only fairness is
`WF_vars(Expire(k))`: redis removes a key some time after its TTL. Nothing in the
code makes contexts go on: a call may stop anywhere, and the process be killed
between any two steps, so no action of theirs is fair. `EventuallyFresh` holds all the
same, because an update bounds the versions to come, and each entry that is not
fresh was set with a TTL, or is deleted.

## 6. Proofs

All but two (`SameArgumentsSameKey`, `FragmentsAreNeeded`) are of `Spec => []Inv` or `Spec => [][A]_vars`, for every value of the constants
that the modules' named assumptions allow. Bounds such as `MaxVersion` are among the
constants and may be any natural number.

| module | theorems | inductive invariant beyond the types |
| --- | --- | --- |
| `RedisProofs` | of `RequestCache`: `CacheTypes`, `UpdatesAreSeen`, `DeletionComesFirst`, `WaitOnce`; of `CacheKeys`, `SameArgumentsSameKey` | `SettledIsCommitted`, `OldEntriesAreLate`, `ReadsKeepUp`, `DeletedBeforeUpdated`, `WaitingIsNoticed` |
| | of `TokenBucket`: `BucketTypes`, `BucketWithinLimits`, `RateLimit`, `ForwardsOnly`, `NothingLost`, `PausesRestore`, `EagerRefinement` | `Accounts`; for the refinement also `InTime` |
| | of `SlidingWindow`: `WindowTypes`, `SlidingRateLimit`, `Decision` | `AskedLately`, `NotAhead`, `Remembered`, `Genuine` |
| `WorkerProofs` | of `ContextPool`: `PoolTypes`, `ContextsAreExclusive`, `PoolIsBounded`, `ResourcesAlwaysStay` | `OnlyMadeContexts`, `NothingIsReplaced` |
| | of `GreenletAccounting`: `AccountsTypes`, `ExactTimes`, `LongestTurn` | `Untraced`, `AccountOf`, `LongestOf` |
| | of `InterruptibleEvery`: `EveryOneTakesTurns` | `CounterIsRight` |
| | of `RequestLog`: `LogTypes`, `CallsAreAlwaysFollowed`, `AnsweredIsAlwaysLogged` | `IdsAreMade`, `StageOK`, `CallOK`, `SpansDiffer`, `LineOK`, `LevelOK`, `LoggedOK` |
| `LettersProofs` | of `UKPostalAddress`: `UKAddressesInductive`, `UKAddressesAlwaysStay`, `ValidUKAddressesAlwaysGoOutWhole` | `UKAddressInv`: what was stored is `Reread`, once or twice, of what was given |
| | of `LetterTimings`: `TimingsTypes`, `NotFromUnderThePress`, `UntilProcessed`, `WalksAlwaysCount` | `Walking`, `Reading`, `Answering`, `HalfRead`; `Counting` |
| | of `FolderMove`: `MoveTypes`, `FilesAreKept`, `MovedWhenReturned` | `InOrder`, `CopiedBefore`, `MovedSoFar` |
| `NotifyTaskProofs` | `TypeCorrectness`, `CausesAreAlwaysFollowed`, `GroupsAreAlwaysRemembered`, `DurationsAreAlwaysOfTheRun` | `QueueOK`, `ProcessOK`: `TracesAreCauses`, `OthersAreDirect`, `FirstIsTheMessage`, `FirstKeepsItsGroup`, `FirstIsTimed`, `OneContextAtMostBeneath`, `NoIdBeneath`, `ContextsHoldTheCause` |
| `ZendeskProofs` | `DeskTypes`, `CommentsAlwaysCarryTheirFiles`, `ReturnedAlwaysMeansDone` | `TokensAreTheFiles`, `ReadToTheEnd`, `CommentsAreOfCalls`, `CommentsAreOnce`, `TicketsAreCounted`, `DoneWhenReturned` |
| `InsensitiveProofs` | lemmas on lists, folds and sets of keys, for `LettersProofs` and the two below | |
| `MessagesProofs` | of `InsensitiveSets`: `SetsAreOrdered`, `InPlaceAlwaysAsNew`, `SetsAlwaysReadAsLists` | none: the type says that no key is twice in a set |
| | of `Fragments`: `FragmentsAreNeeded` | |
| | of `RecipientCSV`: `RowsAreAlwaysMeasuredAlone`, `ValuesAreNeverLost`, `FilesAreSendable` | `FileInv`, `IsTemplate`, `RowsInv` |
| `TemplatesProofs` | of `MessageTemplates`: `TemplatesAlwaysAnswer`, `AddressAlwaysShown` | `TemplatesInv`: whose texts and values they are, and how they are spelt |
| | of `PostalAddress`: `AddressesAlwaysStay`, `ValidAddressesAlwaysGoOutWhole` | `AddressInv`: what is read again has the lines of the normal form, or of the normal form's own |

The arguments in short:

* *Request cache*. `UpdatesAreSeen` is not inductive: it speaks of what a read
  returns. What it rests on is that redis never holds an entry older than the last update that
  returned, unless it landed after the update's second delete (`OldEntriesAreLate`),
  and that a read under way carries something no older than what had returned when it
  began, or is excused (`ReadsKeepUp`). A returned update ran its second delete or was let
  out of it by an exception; `SettledIsCommitted` orders `settled` and `db`.
  `SameArgumentsSameKey` has no behaviour: for calls that Python takes,
  `_get_argument` finds what the parameter is bound to, so that calls of reader and updater
  that mean the same data delete the key that was set.
* *Token bucket*. `Accounts` adds up: what was served is the tokens ever made less
  those remaining, and tokens are made only for time between the first
  `last_replenished` and the present one, which is never after the newest clock.
  `PausesRestore` needs no more: in a step of a call that finds its key, with its clock
  a pause after `last_replenished`, the tokens made are at least those of the pause.
  `EagerRefinement` maps
  the bucket's tokens and the whole tokens since `last_replenished` to the level of
  `EagerBucket`, and the remainder to its phase; the rounding's lemmas on `\div` and `%` are
  stated apart. It needs `OneClock` (no skew, no delay): with two clocks the
  lazy bucket is only bounded by the eager one, which `RateLimit` says.
* *Sliding window*. Entries leave the set only when they are outside the window of
  the caller that removes them, or the key expires by redis' clock; `Remembered` says
  what is therefore still in the set, up to the slack of delay and skew, and `Genuine` that
  nothing else is.
* *Context pool*. Exclusiveness and the bound are inductive together with which ids
  were made. The bound is on cardinalities; `FiniteSetTheorems` is cited for them.
  `ResourcesAlwaysStay` is of two contexts at once: a context's resources change only in a
  step of the greenlet that has it, or when nobody has.
* *Greenlet accounting*. The hook adds the time since the last switch to the greenlet
  that is left; `AccountOf` relates the account to the time run (history), by case of
  whether the greenlet is running and was ever seen by the hook.
* *Interruptible calls*. `CounterIsRight`: the generator's counter is one less than the
  calls since the last switch, also after a caller was timed out at the switch.
* *Request log*. A request's ids are made up when they are first asked for, so its trace and span are
  `TraceToBe` and `SpanToBe`: what its record has, or its headers, or what was kept for the last
  line once the request is gone. No step changes either once it is known (`Grows`), so what lines and
  called requests copied from it stays true of it (`LineOK`, `CallOK`); `IdsAreMade` makes
  a new span differ from all that are to be (`SpansDiffer`). `LevelOK` ties the level that is kept for the
  last line to the answer. The steps touch one request or two, and `StepAt` says
  once what holds of a step that does.
* *Letters*. `Walking` keeps the day of printing behind the day of processing,
  `Reading` the day of creation before the first reading of the clock, `Answering` ties
  the answer to the readings it is made from. The answer "yes" then needs the first reading
  to be of a day on which the letter was not yet processed, whatever the other two
  say. `CancellableUntilProcessed` excepts answers whose readings fall on two days,
  and letters created in the deadline's own minute. `WalksAlwaysCount` follows the walk from
  working day to working day: one more day passed is one more counted, by cardinality of
  the set of working days passed, and the days it skips are none of them.
* *Folders*. `CopiedBefore`: when a mover is about to delete a file, the bucket it
  copied to has its newest version, unless the file was uploaded again since, which
  is what `torn` records; `MovedSoFar` adds up what the call has moved.
* *Tasks*. A worker works for a message from taking it to its end, and the first of its calls
  is the message's; all others are direct and have no id. `OneContextAtMostBeneath`: there
  are as many app contexts as calls that pushed one, and at most one beneath them
  (a request's, or one pushed at the worker's start). `ContextsHoldTheCause`: as long as every call pushed
  a context (else the history variable says that the way is blurred), the contexts of the
  calls all hold the cause's id, so whatever is sent from any depth has it. `NoIdBeneath`
  is needed for the step after: when the last call returns, what is left has no id that
  a later task could inherit. `FirstIsTimed`: `start` of the message's task is its
  beginning, or later if the task called itself. That a task's own request is its
  innermost call's needs that a set of places in a sequence has a last one
  (`LastPlace`), proved by well-foundedness of strict inclusion.

* *Zendesk*. A call's tokens are of the files it was given, in their order, as
  far as it got (`TokensAreTheFiles`); an upload made for one of them holds all that was
  left to read of the file (`ReadToTheEnd`). A ticket's comments are of calls
  (`CommentsAreOfCalls`), each made once (`CommentsAreOnce`), so a comment has the tokens of one
  call, which no step takes back (`Kept`).
* *Sets*. All set operations filter one operand by the keys of another. `OfKeysProperties`
  says what filtering leaves (order, no key twice), and two operations that leave the same
  keys leave the same items; `InPlaceAlwaysAsNew` is then algebra of sets of keys, for the set and for
  the operand of `^=`, from which `__ixor__` removes what both hold.
  `SetsAlwaysReadAsLists`: where a slice begins and ends, what is clamped by Python and what is cut by `islice`
  leave the same places (`Forwards`, `Backwards`), every `step`-th of which is taken (`EveryNthPlace`); as many
  of them stand before one as come before it (`PlacesBefore`).
* *Fragments*. More characters never need fewer fragments, and as many as are
  counted are needed: arithmetic on `\div` in the two ranges.
* *Spreadsheets*. The model's folds (over a row's columns, a value's texts, the
  template's placeholders) are related to sets, one step at a time: `StepByStep` is
  induction over a set of numbers, which a set constructor can state where an operator
  parameter cannot, `FoldExists` and `FoldSteps` make a fold a sequence of its
  intermediate results. `OutputHolds` says of each value in a row that the row's dictionary
  has it, `LastEntryCounts` that of two entries whose spellings have one key the later wins.
  `RowIsRead` relates each row that was built to the one in the file, and `IsTemplate` what the
  template has cached to the values it has now, so that a row is measured by its own.
  `FilesAreSendable` needs more of each entry of a row: what is in it stands in the
  file under its heading (`IsRead`, kept by every step of reading), and a recipient column
  that is not repeated gives one number at most. The filtered lists are related to sets
  (`WhereItems`). Of the checks it uses their order: whatever is asked, all before it said "no"
  (`FirstAnswer`), so the guest list is never compared with a list of numbers, and
  numbers abroad are never counted where one is missing (`ChecksCanBeMade`). That no file has more rows read than `max_rows` without `too_many_rows` is why `RowIsRead`
  says which rows are none. It assumes of a spreadsheet's cells that they are texts, of limits that they are
  numbers, that no heading is the key of what has no heading, and that neither the recipient's column nor a
  placeholder is an empty heading, whose empty values are not kept (`Unheaded`).
* *Templates*. The values are, of each key in one spelling, those given last, in the spelling
  of the placeholders that there were when they were set (`AreValues`). At first these are
  not those of the language; but both are joined to what the two languages share, so a name that
  the text still has is spelt as it was (`NowIsMade`). What is missing, additional or shown in a
  filled text then all comes down to one thing: what was given last under a key (`DataIn`).
  A filled text is taken part by part: each placeholder without a value stays, all
  others give way to words (`FilledNow`). It assumes of texts and values only that they are sequences.
  `AddressAlwaysShown` goes the way of a value from the dictionary to the block. Its words are those of a line
  of the address, read under its key (`LineOf`), which no other key can have; what the normal form keeps
  of a line is said below, and the block is the normal form or, of too few lines, the fields filled one by
  one, with the place of the sixth line left for the postcode. It needs that the keys of the lines
  differ from each other, from the postcode's and from no key at all.
* *Dutch addresses*. One lemma says what an address is read as when it ends with a line of a postcode
  and a town and its other lines are none of a postcode's, a country's, a label's or a return address's
  (`FormedLines`): the same postcode, town and lines, so the normal form is its own normal form. Abroad
  the last line becomes the canonical name, which is read as its own canonical name (`NamedLines`), so the normal
  form's normal form differs from it by that name at most, and is its own (`FormOf`). Whatever its country and
  lines, an address's normal form is of one of these kinds or is left as it is, and as personalisation it is the same up to empty lines, which reading drops, if there are no more
  lines than keys. `AddressInv` is then inductive: the lines are those of the normal form once or twice
  (`SecondForm`), and either way as valid as what was given (`Keeps`). `ValidAddressesAlwaysGoOutWhole` counts: the words of a
  list of lines are as many as those of its parts, and each filter takes away only lines whose words
  are the postcode's, a country's or the town's, which come back in the last line. It needs that a valid
  address has more than one line, as the town's line may be the only other one. `WordsAssumption` says what
  is needed of the words: a postcode is no label, for instance, and a canonical name is a known name, whose
  canonical name is its own, and begins no line that is not the recipient's. The repository's tables are like this.

* *UK addresses*. `Sound` is what an address is in which no country stands beneath another: its
  lines are no BFPO lines that count and, if it is of this country, do not end with one's name. Whatever was read
  is sound (`SoundAsRead`; names that are taken off are those after the last line that is no country's,
  `TruncatedIs`). Of the normal form of a sound address each line has one meaning only (`NormalPlaces`): the lines, the
  number and the postcode are read as they were (`TextIs`, `ParsedIs`), and the name of the country as
  what the tables have for it. As personalisation the normal form is the same, if there are no more lines than
  keys (`PersonalisationIs`). So `UKAddressInv` says what an address is after any number of readings: `Reread` of the given
  one, which changes at most the country's name, or of that, which changes nothing more. Both are as valid as what was
  given (`ValidAgain`, line by line). What the proofs need of the tables is named, in
  `CountriesAssumption` and `NamesAssumption`: a canonical name is found, as one of its zone that is found as
  itself, and is written with letters, without a character that no line may start with, and not as a BFPO line;
  a postcode in its normal form is one and no country; a number reads as itself. The repository's tables are like
  this: of their canonical names only "South Georgia and the South Sandwich Islands" is found as another.

Not listed with a run are the types, the inductive invariants (`AddressesInductive`,
`UKAddressesInductive`, `TemplatesInductive`, `RecipientsInductive`), what has no behaviour, and
`ForwardsOnly` (a bucket's `last_replenished` never goes back), `BucketWithinLimits`,
`MovedWhenReturned` (a mover that returned has moved what it listed) and `LongestTurn` (what the
longest turn is, given the reset that `greenlet_longest` shows).

## 7. Only model-checked

* `EventuallyFresh`: liveness.
* `NormalFormsStay` and `WritingsAreOneNumber`: they depend on the numbering plan, which is external: not
  every plan has them.

## 8. Where code and documentation differ

Each has a run whose property is what the documentation says:

* `cache_stale`: `request_cache.py:144-155`. The second delete does not deal with all
  of the race it is there for: a reader may set after it.
* `interruptible_collision`: `interruptible_io.py:172`. A call made while another
  is at its switch ends in `ValueError`; one whose switch is timed out ends the
  generator for all later calls.
* `greenlet_longest`: `eventlet.py:180`. The longest turn "since
  reset_greenlet_stats was called" counts the turn of the reset from its start.
* `letters_deadline`: `letter_timings.py:193`. A letter created in the deadline's
  minute is treated as created before it.

Seen while modelling, and not the subject of a run of its own:

* `recipients.py:126-135`: `international_sms_count` raises `TypeError` for a row
  without a number. `has_errors` asks it last, when every row has one; who asks it
  directly should not.
* `field.py:47-48`: a list, from two columns with one heading, as the value named by the text of
  a conditional placeholder makes `re.sub` raise, and the file cannot be read.
* `recipients.py:525`: an empty value under an empty heading is not kept, so a placeholder whose name is only
  spaces, hyphens or underscores has no cell in such a row, and no error says that its value is missing.
* `request_helper.py:123-133`: the names of headers are compared as they are
  with lower-cased ones, so the middleware always appends its own.
* `logging/flask.py:180-199`: if `before_request` did not run, `request_time` is `None`,
  which `%.4g` cannot format: the line is lost.
* `redis_client.py:315`: two calls in the same instant make one member of the sorted set, so the
  window counts timestamps, not calls as its docstring (`:305`) says.
* `notifynl/postal_address.py:391-396`: `has_country_as_last_line` raises for a line that is no
  country; `:183, 288`: addresses are compared with the case of their towns, so an address
  equals its normal form only if its town was written in capitals.
* `recipient_validation/phone_number.py:194-204`: the pattern of `is_tv_number` is a set of digits, so it is
  true of 7700 and any other digit, in any country. It is matched with the number as an integer, so a
  Dutch text such as "00077009" is accepted for a TV number, and stored in a form that
  cannot be read again: the exception that `NormalFormsStay` makes (`IsTvAfterZeros`).
* `recipient_validation/phone_number.py:306`: `is_a_crown_dependency_number`, which is inherited, is true of
  every Dutch number that is not taken for a TV number; spreadsheets count what is abroad by country code, billing by
  `is_international_number`, which differ for TV numbers.
* `recipient_validation/postal_address.py:51, 117`: `PostalAddress("BFPO 12")`, an address that is
  only its BFPO lines, raises `IndexError` when its country is asked for, and so does
  `as_personalisation` of one that is only names of the United Kingdom. A country and a
  BFPO line alone are stored as the BFPO line alone, which cannot be read again.
* `recipient_validation/postal_address.py:84-91`: names of the United Kingdom are counted from the end
  past lines that are no country, and as many lines are cut off: "England / a / SW1A 1AA / b /
  UK" loses "b". A country written above the United Kingdom becomes the country when the
  address is read again ("France / UK").
* `countries/`: "South Georgia and the South Sandwich Islands" (`_data/synonyms.json:62-64`) is itself a synonym of
  another name in the table (of the same zone), so an address in South Georgia, Dutch or British, changes
  once more when its normal form is stored again: the exception that `StoredAddressesStay` makes; "NI" is Northern Ireland's and no longer Nicaragua's code.
  `countries_nl/__init__.py:43` looks for a name in a list of pairs, so it is never there.
* `clients/zendesk/zendesk_client.py`: an update that fails leaves its uploads behind; one that is made
  again with the same open files uploads what is left to read of them, which is nothing.
* `template.py:155-165`: content that does not begin and end with a placeholder is said never to be empty;
  spaces around placeholders suffice, and are nothing once stripped.
* `template.py:730`: the address block tests for `address_line_6` and `postcode` in one exact
  spelling; with too few lines the postcode then takes the place of line 6.
  `notifynl/postal_address.py`'s `from_personalisation` ignores the postcode when there is a key for the
  last line, even an empty one.
* `template.py`: a Welsh letter's `additional_data` names placeholders of the English texts only, until
  its values are set again; `:788-794` changes the caller's dict.
* `request_cache.py:84-86`: a keyword-only parameter that follows `*args` takes its place in the
  key from the positional arguments. No such method is decorated here; `CacheKeys` has no `*args`.

## 9. What is not modelled

* Keys, values and messages as characters: `formatters`, `markdown`, `sanitise_text`,
  the views and typography of addresses, the case of words.
* Of `RedisClient`: `incr`, `decrby`, `get_lock`, which only pass their call on. Of S3: uploads,
  downloads, listings. Of `eventlet`: the second of the two clocks that are
  accounted alike. Of `interruptible_io`: the file wrapper and list mixin. Of the worker:
  `OtelAwareEventletWorker`. Of `logging`: formatters and handlers.
* Local time: days in `LetterTimings` are those of the local clock, so the hour that is
  skipped or repeated twice a year is not there.
* `RecipientCSV`: emails and letters. Templates: HTML, markdown, previews and typography of all
  types; conditional placeholders in emails and letters, which `RecipientCSV` has for text messages.
* Phone numbers of the United Kingdom and of services, beyond the code that Dutch ones
  share: libphonenumber decides most. Email addresses: a regular expression.
* Addresses: the characters within a line, `as_single_line`, the Dutch zones of `countries_nl`. Countries: the
  thousands of names, of which one of each kind is there. `src/tests_nl/country_synonyms.py` is a table
  of what tests expect.
* Zendesk: what the desk does with a ticket other than what the client asks.
* Antivirus, signing, encryption, serialised models, settings and telemetry,
  small helpers, version tools, test support: no state, or one call.
