# A verification project for shitposter

Shitposter is a discussion board: users register with passkeys, comment on
posts in trees, vote on comments, and write in a small markup language. This
directory holds TLA+ models of its backend, the TLC runs that check them, and
proofs for TLAPS. Everything here is read off the code under `src/`; a doc is
quoted only where the code and the doc disagree.

Run a model with `tlc -config X.cfg M`, a proof with `tlapm M.tla`; the table of
runs below says which configuration belongs to which module.

## The system

| part | state it keeps | operations | talks to |
|---|---|---|---|
| Comment store (`db/sqlc/tx_*comment.go`, `update_comment.go`, SQL functions of migrations 1, 4, 9, 11) | tables `comments`, `comment_votes` | InsertCommentTx, DeleteCommentTx, UpdateComment, VoteCommentTx | PostgreSQL (row locks, unique index, advisory lock, cascades) |
| Comment reading (`query_comments.go`, migration 3) and tree building (`api/comments_utils.go`) | none | QueryComments (depth-first rows), PrepareCommentTree | the comments table |
| Accounts (`tx_create_user_with_credentials.go`, `tx_soft_delete_user.go`, `update_user.go`, `get_user*.go`, `record_credential_use.go`, `create_session.go`, `get_session.go`, migrations 2, 7, 8, 10) | tables `users`, `webauthn_credentials`, `sessions` | create, soft delete, update and look up users; count credential use; create and read sessions | PostgreSQL |
| Sign-up and sign-in (`api/webauthn_*`, `generate_auth_tokens.go`, `renew_access.go`, `auth_middleware.go`, `delete_user.go`, `update_user.go`) | nothing of its own between requests | begin and finish a ceremony, issue, renew and check tokens | accounts, `tmpstore` (Redis with expiry), `token` (JWT), WebAuthn library |
| Temporary store (`tmpstore`) | pending ceremonies in Redis, each with a time to live | save, get, delete | Redis |
| Tokens (`token`) | none on the server (signed, with an expiry); clients hold them | create, verify | JWT library |
| HTTP layer (`api/service.go`, `router.go`, `json_utils.go`, `vomit.go`, `resource_error.go`, validation) | none | decode, validate, map store errors to problem responses | everything above |
| Post votes (migration 1 `vote_post`, `delete_post_vote`) | table `post_votes`, counters of `posts` | only the tests of the repository call them | PostgreSQL |
| SCUM (`scum`) | a dictionary of tags; during a parse the parser state, the token and node arenas, the list of warnings | AddTag, SetEscapeTrigger, SetAttributeSignature, Tokenize, Parse, Serialize | SML |
| SML (`sml`) | a dictionary and a warning policy | NewEater; Munch: parse, serialise and normalise a text; HTML, Text | SCUM |
| Process (`main.go`) | HTTP server, pools | start, serve, graceful shutdown | all |

Comment store: the calls of one client are HTTP handlers that run in goroutines;
they meet only in PostgreSQL. Comments form trees by `parent_id`; a leaf is
erased, a comment with replies is soft-deleted. What makes it correct: the tree
stays well formed, nobody loses a reply to another user's delete, counters equal
the stored votes, and each call is atomic.

Accounts and sign-in: a sign-up or sign-in is two requests with a pending
session in Redis between them. What makes it correct: a pending session is
worth at most one account or one login, a deleted account keeps no session and
no credential, names of active accounts are unique, sign counts never go back, and
access ends with the account although tokens are never revoked.

SCUM and SML: one parse is sequential, with arenas addressed by index, hard
limits, and parser state that a pool hands from parse to parse. What makes them
correct: the tokens cover the input and fit the parser, every node, token and
attribute span stays inside its arena, the tree
of nodes nests, limits stop the parse with the promised warning, the list of
warnings keeps to its overflow policy, no parse sees another one's state, what is
serialised is the tree that was parsed, and what is rendered has only attributes that
its tags allow.

The hard behaviours, in the order in which they are modelled: statements of
concurrent transactions in any order, with row locks, a unique index, an advisory
lock, deadlocks, lost connections and lost answers to a commit (comments, then
accounts); two-request ceremonies whose state in Redis expires, is read twice or
outlives its use (sign-up, sign-in); long sequences of legal tokens that a
one-pass parser with counters and flags must survive, and scans that limits cut
short (SCUM). Each is listed with its line under "hazards" in `PROJECT.json`.

## Modules

| module | what it is |
|---|---|
| `CommentBoard` | the contract of the comment methods of `db.Store`: a board on which every call is one step and a vote recounts |
| `CommentStore` | the same calls as the code runs them: one action per SQL statement, row locks, uncommitted rows, deadlocks, lost connections |
| `CommentStoreInv` | the inductive invariant `IInv` of `CommentStore` |
| `CommentStoreProofs` | type correctness; `IInv` is inductive; what follows from it about states |
| `CommentStoreTheorems` | what follows about steps and answers, the one deadlock, and the refinement of `CommentBoard` |
| `CommentAnswers` | the handlers of comments: the HTTP status a client gets for what the store answered |
| `CommentReading` | `QueryComments` and `PrepareCommentTree` on the tables of `CommentStore` |
| `CommentReadingProofs` | that a page is read as the tree that is stored |
| `AccountBook` | the contract of the account methods: a sign-up, a use of a passkey, a change and a deletion are one step each |
| `Accounts` | the handlers of sign-up, sign-in, renewal, update and deletion, with the statements, Redis commands and locks they run and the tokens they hand out |
| `AccountsInv` | the inductive invariant of `Accounts` |
| `AccountsProofs` | its two parts, `IInv` and `LoginInv`, are inductive; what follows about accounts, credentials and assertions, and the refinement of `AccountBook` |
| `ScumDictionary` | the tags and triggers, and the calls that register them |
| `ScumTokenizer` | `Tokenize`: bytes in, tokens, statistics and warnings out |
| `ScumTokenizerInv`, `ScumTokenizerProofs` | its inductive invariant `IInv`; that it is one, and what follows |
| `ScumWarnings` | the list of warnings and its overflow policies |
| `ScumParser` | `ParseInto`: tokens in, arena out |
| `ScumParserInv`, `ScumParserProofs` | its inductive invariant `IInv`; that it is one, and what follows |
| `ScumSerialize` | `Serialize` and `Text`: arena in, tree and text out |
| `ScumSerializeProofs` | that the links of the arena make up a tree whose tags nest as they may; that tree and text are those that were parsed |
| `SmlEater` | the dictionary that `NewEater` builds |
| `SmlNormalize` | `normalizeRenderTree`: which attributes reach the HTML |
| `SmlNormalizeInv`, `SmlNormalizeProofs` | its inductive invariant `IInv`; that it is one, and what follows |
| `MCCommentStore`, `MCAccounts`, `MCScumTokenizer`, `MCScumParser`, `MCSmlNormalize` | constants, symmetry, setups and starting points of the runs |

### How they follow the code

**CommentStore.** A transaction `t` of `Tx` is one `execTx` on one connection.
`pc[t]` names the SQL statement that comes next; the action of that name runs it
together with the Go code up to the next one, so every early return of
`InsertCommentTx`, `DeleteCommentTx`, `UpdateComment` and `VoteCommentTx` is a
disjunct that closes the call with the error kind the code returns. `comments`
and `votes` are the committed rows. What a transaction has written stays in
`write[t]` and `ballot[t]` until `Commit`. `WaitsFor(t)` says, statement by
statement, which transactions hold what `t` needs; a statement is enabled when
that set is empty. `ConnectionLost` may end a call between any two statements, and
`Commit` may answer with `KindInternal` although it happened. PostgreSQL is modelled
from the locking clauses, indexes and foreign keys in the SQL and from its
documented lock conflicts; those definitions are marked external in the map.

**CommentBoard.** The documentation of the same methods as one step per call, on
the two tables alone; a vote recomputes the counters there, instead of adding
deltas. `Atomic == Board!Spec` says the detailed store implements it.

**CommentAnswers.** The three handlers of comments make one store call each and turn its
error kind into a status. `AnswersHonest` is about the moment a call ends: a 2xx means that
the step stored what was asked for (or that it is so already), a 4xx that it stored nothing and
that the reason given is true of the tables then, although the row that decided was read
statements ago. After a 500 anything can have happened, a lost answer to a commit too.

**CommentReading.** A query is one SQL statement and sees the committed rows of one
moment, so reading adds operators and no actions: `Rnk` is the array the recursive
query sorts by, `InOrder` the `ORDER BY` (the n-th row is the one with n - 1 rows before it), `Attach`
one turn of the loop of `PrepareCommentTree`. The three
orders differ in the columns they compare; all of them, with ids for ties, are
rankings of the comments, and `ReadAsStored` is checked for every ranking. It looks at
states without an open call, which loses no table: `ConnectionLost` leads to one from
everywhere.

**Accounts.** A request `r` of `Req` is a handler in its goroutine; `pc[r]` is
the next statement or Redis command. `pending` is the temporary store: an entry
is written by the first request of a ceremony, read and removed by the second in
two commands, and `Expire` may take it at any time. What the client answers
to a challenge is chosen freely; the WebAuthn library either accepts it, and then the
ceremony, the sign count and the user are those of the answer, or refuses. `by` in
a session row remembers which ceremony and count opened it, for the properties
only. An update that changes nothing but the profile image is one whose name and
email are both absent. A token names a user that exists, so what a handler does
for an unknown user of a valid token does not arise. `access` and `refresh` are the
tokens that clients hold: `refresh[s]` is kept by name, because renewal compares it
with a session row, `access` only as the users it is good for. The middleware takes
any token that verifies, a refresh token too, and looks at no session (its TODO), so `Bearer`
is either. `is_blocked` is never set by the code and left out; the expiry of a session
row is that of its refresh token.

**ScumDictionary.** A dictionary is a record, and each of the three calls a function
from dictionary to dictionary that returns it unchanged where the code refuses.
Reasons to refuse that only look at one argument (an unprintable byte, the length of a
name, a negative limit) are left out.

**ScumTokenizer.** `i` and `textStart` are the two positions of `Tokenize`. The plan
that `CreateAction` puts together for a tag is a list of steps, of which the
first that handles the case ends it; every way through a plan is an action here, with the
mutators on that way folded in: what they find out is `Opened` and `Body` (the
`Bounds` of the code), what they report is `BodyWarnings`. `ActEscape` is
one action at the end of the input and one before it, `ActAttribute` one that skips and
one that emits. Positions
count from 0; a character wider than a byte is one symbol; of a warning the kind and the
place are kept.

**ScumParser.** `phase`, the stacks, `skip`, `openedTags`, `lastNode` and the
counters are the fields of `parserState`; `nodes` and `attributes` are the
arenas; an action is one handler of `process_*.go` with everything it calls. Node
1 is the root and 0 the code's -1. `Tokenize` runs before the parser in the code;
the model picks the next token when the parser comes to it, among those that the
tokenizer can emit there; `FitsParser` is what it assumes of them, and `ScumTokenizer`
checks that. `LimitsKept` says of every token that wants a node (`Wanted`) that it has it or comes
at or after the warning of a limit, or needs none (`NeedsNoNode`: a duplicate, a closer that is skipped or has
nothing to close); and of every warning of a node or depth limit that it stands where a token wanted a node and got
none, and that the limit was reached. Attributes have no position of their own in the arena, so of them it
compares the numbers. `Reset` is part of `Finalize`, and the next `BeginParse` takes the state as it
was put back.

**ScumWarnings.** `Add` is `Warnings.Add` case by case. `Faithful` is what
a list must look like after a sequence of warnings, and the parser keeps that
sequence in `raised`.

**ScumSerialize.** Serialisation only reads, so it is a function of the arena that is evaluated
in every finished parse: `Walk` is one turn of the loop of `Serialize` with its stack of
tasks, `slots` the one array of which each node gets a window. A child count or a link that is off
sends a task out of its window, which `SerializedAsParsed` would see.

**SmlEater.** `NewEater` is seven calls on an empty dictionary, and the tokenizer runs on
what they build. `NewEater` panics when one is refused; `EaterAssumption` says none is.

**SmlNormalize.** A tree is the sequence of its nodes in the order of the recursion, a node
its kind and its attribute slice. `normalizeLink` filters in place: `Pushed` is Go's `append` to
the front of the array that is still being read, so the `rel` of a `_blank` target can
overwrite the next attribute. `Serialize` makes each slice exactly as long as its content, so an
append past the end moves to another array, and nothing is left to be read then.

## Runs

Times are for two workers.

| run | module, configuration | instance | checks |
|---|---|---|---|
| `store_tree` (130 s) | `MCCommentStore`, `StoreTree.cfg` | 2 transactions, 2 users, two post ids of which one exists, depth 3; all calls, with a legal and an illegal vote, while at most 2 of the 4 ids have been handed out, and root, reply and delete after that | the inductive invariant `IInv` (`TypeOK` is a part of it), `ThreadsOK` (`TreeOK` and `OneLiveReply`), `NeverCorrupted`, `ReadAsStored`; no step erases another user's comment, replies to a deleted one, changes a buried one (`BuriedForever`), or answers falsely (`AnswersHonest`); `Atomic`: the store implements `CommentBoard` |
| `store_votes` (140 s) | `MCCommentStore`, `StoreVotes.cfg` | 3 transactions, 2 users, 1 comment: root, vote, delete; both legal votes | `CountersMatch`, the one deadlock the lock order allows, `AnswersHonest` for repeated and changed votes, and `EveryCallReturns` under fairness |
| `store_root_limit` (1 s) | `MCCommentStore`, `StoreRootLimit.cfg` | 2 transactions of 1 user | violated: `RootLimit` |
| `accounts_safe` (100 s) | `MCAccounts`, `AccountsSafe.cfg` | 2 requests, 2 accounts, 2 ceremonies, 2 sessions, counts 0 and 1 | the inductive invariant `Inductive` (`TypeOK` is a part of it), ceremonies, credentials, assertions, and `Atomic`: the accounts implement `AccountBook`, where names and emails are unique |
| `accounts_return` (80 s) | `MCAccounts`, `AccountsReturn.cfg` | from two signed-up users: sign-in, renewal, change of name, delete, tokens that expire | `EveryRequestReturns` and `AccessEnds` under fairness |
| `accounts_sessions` (3 s) | `MCAccounts`, `AccountsSessions.cfg` | 2 requests | violated: `DeleteTakesSessions` |
| `accounts_signin` (2 s) | `MCAccounts`, `AccountsSignin.cfg` | 2 requests, 1 account | violated: `SigninChecksCount` |
| `scum_tokenizer` (70 s) | `MCScumTokenizer`, `ScumTokenizer.cfg` | every input of up to 6 bytes over 4 to 6 that mean something, for six dictionaries: that of `NewEater`, its links and attributes with small limits, rules, sequences of several bytes, greedy and grasping bodies, a signature set twice | the tokens tile the input, bodies and attributes end where they should, escapes hold, statistics, what the parser assumes, silent markup, progress |
| `scum_escape` (3 s) | `MCScumTokenizer`, `ScumEscape.cfg` | every input of up to 6 bytes, one tag of four symbols | violated: `EscapeProtects` |
| `scum_parser` (70 s) | `MCScumParser`, `ScumParser.cfg` | every input of up to 5 tokens over a universal tag, two openers that share a closer, a greedy tag, text and attributes, under 7 settings | `SerializedAsParsed`, nesting, bounds, statistics, limits, skip counts, warnings, pool |
| `scum_attributes` (1 s) | `MCScumParser`, `ScumAttributes.cfg` | up to 6 tokens, one pair of tags, no limits | violated: `AttributesContiguous` |
| `sml_normalize` (10 s) | `MCSmlNormalize`, `SmlNormalize.cfg` | every link with up to 5 attributes of nine kinds, every tree of two nodes with up to one each | `Rendered`, `FirstValidKept` |

**Bounds and why they are enough.** Every hazard of the comment store involves
two calls that meet on one comment, its parent or its votes, so two transactions
show them; a wait between three is possible only on the votes of one comment, and
`store_votes` has three. Four ids make a thread of depth three with a sibling; votes and edits
meet a buried comment and its reply with two, and `ThenThreadsOnly` of `MCCommentStore` keeps them to that
(after it, no vote is stored either). No step of the store reads the answer of a call that is over, so `store_tree` takes states
that differ in it alone as one (`ButAnswers`); `NeverCorrupted`, which reads it, is part of that view.
The invariants of the store, the accounts, the tokenizer, the parser and the normalisation are
proved for every value of the constants, so there the bounds only had to be large enough to find
mistakes. (The `IInv` of SCUM hold on the instances of `scum_tokenizer` and `scum_parser` too, that of
SML on links of up to three attributes: add them to the configurations to see it.) In `Accounts` two
requests at a time are what a race needs, and two accounts, ceremonies and
sessions let one be deleted and its name taken by the next. The liveness run starts from
two signed-up users (a state `Init` leads to), because what races there is what outlives an
account. The id, ceremony and
session counters stop a request from starting when it might not find room, never
in the middle; a system that has used them up can stop, which is why the
configurations of `Accounts` do not check for deadlock (the waiting of requests
for one another is a property there). For the parser, five tokens suffice for a
tag, a duplicate or refused tag inside, both their closers and one more; the
settings put each limit at a place where it falls in the middle of a tree
(between the two nodes of a greedy tag too), with capacities 0, 1 and 2 of the
warnings. For the tokenizer, six bytes hold an opener, a body at its limit of two, a
closer and something on either side; limits of one and two fall inside the inputs, and a
dictionary without them has the defaults out of reach. The setups also make calls that
are refused, and one that takes over the escape symbol. Five attributes of a link hold all three names, a repetition and
a target whose `rel` has something to overwrite. For the parser, six
tokens (with five of the settings and no tokenizer warnings, 3.4 million states) pass as well.
Symmetry is used in safety runs only, over transactions, requests, users, names
and emails, whose identity no definition tells apart.

**Fairness.** `WF_vars(Work(t))` for every transaction or request: a goroutine
goes on with its statement once it stays granted. `WF_vars(DeadlockAbort(t))`: the
deadlock detector finds every cycle that lasts. Nothing is assumed about clients
(`Begin`), about failures (`ConnectionLost`) or about the expiry of Redis entries.
`Clock`: a token expires in the end, because every token is made with a duration and
verified against the clock; only `AccessEnds` rests on it.
What this promises is stated for a system that comes to rest: if from some
moment on no call begins, then every call returns. Without that condition it does not hold, and the
code gives no ground for more: row locks that do not conflict are granted past a
waiter, so a stream of first votes (each holds KEY SHARE on the comment) can keep a
delete waiting for ever. The tokenizer needs no fairness: each of its steps moves
on (`AlwaysMovesOn`), and the check for deadlock says that there is always one.

## What is proved

`CommentStore`, for any finite sets of transactions and users, any posts, ids, texts, vote
values and limits (`StoreAssumption`, which each run also evaluates):

- `TypesCorrect`: `Spec => []TypeOK`.
- `StoreSafe`: `Spec => []IInv`, and from it `ThreadsSafe` and `CountersSafe`.
- `AuthorsErase`, `RepliesReachTheLiving`, `BuriedStaysBuried`: the action
  properties of the same runs.
- `DeleteFindsNoCorruption`: the branch of `DeleteCommentTx` that reports corrupted
  data is unreachable.
- `OneDeadlock`: `Spec => []OnlyKnownDeadlock`. Whatever the number of calls, only a changed
  vote that is about to tally and the removal of its comment can wait for each other.
- `AnswersTrue`: `Spec => AnswersHonest`, the answers of the handlers when a call ends.
- `Implements`: `Spec => Atomic`. Every step of the store is a step of
  `CommentBoard` or leaves its variables alone.

None of the safety properties is inductive: `TreeOK` survives the commit of a
reply only because the parent the transaction saw some statements ago is still
alive, on the same post and at the same depth; `CountersMatch` survives the commit of a
vote only because the previous vote it read is still the stored one. `IInv` says so for
every statement: `CallOK`, `LockOK`, `SeenOK` and `WriteOK` say what a transaction
at `pc[t]` holds, knows and has written; `PairInv` says what two transactions cannot
do at once (hold conflicting locks on one comment, vote for one user on one comment,
have one reply twice); `StoreInv` is about the tables. The proof that a step of `t`
keeps `IInv` splits the steps in two. A step that leaves the tables alone can only
disturb what `t` itself holds and its pairs (`QuietStep`). A step that
changes them must leave what every other transaction relies on: `CommentStoreProofs`
states that as a relation between the tables before and after, proves that
each kind of change has it, and that it keeps the others' parts of `IInv`.
`CommentStoreTheorems` then describes exactly what a step can do to the tables
(`StoreEffect`: add, erase, bury, cast or rewrite one row) and reads the action
properties and the refinement off that. The cascade of a delete needs no induction
over the tree: `IInv` says the erased comment has no replies, so its subtree is itself.

`Accounts`, for any finite set of requests, any names and emails and any bounds
(`AccountsAssumption`):

- `AccountsInductive`: `Spec => []Inductive`; `AccountsTyped` is its part `TypeOK`.
- `CeremonyMakesOneAccount`, `PasskeyWhileActive` and `NamesUnique`: what `IInv` keeps of accounts.
- `AccountsImplement`: `Spec => Atomic`. Every step of a handler is a step of `AccountBook` or
  leaves its variables alone.
- `AssertionsSafe`: `Spec => []OneLoginPerAssertion`.

Uniqueness is decided when a statement writes and counts when it commits, so it is not
inductive either. `IInv` says of each request what its open transaction has written: a new row
shares no key with any row that is committed or that another transaction has inserted
(`MineOK`, `PairInv`), because `create_user` has waited for every writer whose row could collide; a changed
row is the committed one with the new name, and nobody else has rewritten it; of a deletion likewise.
`RowStep` carries that over a commit, `QuietStep` over the steps that leave accounts alone.
An assertion is good for one session for another reason: `LoginInv` says that there is an owner
for each ceremony, that the stored count of a user is at least any that earned a session or is about
to, and that no two of these are equal. The comparison of `record_credential_use` makes a new
one greater than all before, unless the authenticator does not count.

What the proofs rest on: the behaviour of PostgreSQL as modelled (lock conflicts,
waiting of the unique index, commit), and that a call holds at most one existing comment
row, which is how the code is written and how `lock` is declared.

`ScumTokenizer`, for any dictionary that a finite sequence of calls can set up, any limits and any
input (`DictionaryAssumption`, `JobAssumption`):

- `TokenizerInvariant`: `Spec => []IInv`; `PositionsInInput`, `InputTiled` and `TokensFitParser`
  read `TypeOK`, `TokensTile` and `FitsParser` off it.
- `NothingUnreported` and `ScanMovesOn`: the action properties `MarkupReported` and `AlwaysMovesOn`.
- `BodiesEndAtCloser` and `AttributesMatchSignature`: `GreedyBodies` and `AttributesWellFormed`.
- `EscapesHold`: `Spec => []EscapedIsText`. What an escape symbol stands before starts no token, where no tag has four symbols.
- `StatsCountTokens`: `Spec => []StatsMatch`.

That texts never touch is not inductive: a text is emitted only when something else follows, or
at the end, so `TextsApart` says that while the scan goes on no text is last. That an opening tag is
not the end of the input rests on the plan that was made for it when the tag was registered, so
`DictionaryOK` says what the calls make sure of; `DictionaryCorrect` proves it for the calls of
any setup by looking at the first of them that would break it. The two theorems about bodies and attributes need
no stronger invariant but a reading of each search: the first closer that `Body` finds
is the first there is (`FoundFirst`), a closing run is whole because what stands before it is not
the symbol (`RunFacts`), and the payload scan, which jumps over escaped pairs, meets the
end symbols before which the number of escapes is even (`FoundUnescaped`). A token that is sound when it
is emitted stays so (`SoundStays`). The bytes of text are counted as the number of positions of
the input that lie in a payload: what a new token adds is not in any earlier payload, because
tokens are laid end to end (`LaidEnds`), so each emission adds just its share.

Escapes are read from left to right, so a token is protected only if every way of passing bytes over as text
takes an escape symbol together with the byte behind it, or not at all: the text that is pending never ends in a symbol
that escapes (`Unescaped`), at every step (`NextProtects`). An action that skips a whole pair keeps that, and so does one
whose last byte is no escape symbol (`LastPlain`), as is the last byte of a tag or of a run of tags (`OpenedLast`,
`BodyLast`). Where the sequence of a tag breaks off this needs the last byte that is passed over to lie in the part of the
window that matched: so it does with up to three symbols, which leave a longer match no room to begin behind it, and not
with four, where the attempt to prove it led to the counterexample of `scum_escape`. `EscapeStands` excludes what calls may do to the escape symbol itself: a tag
with it inside its sequence takes it over, and of two symbols set by two calls only the second is known as one.

`ScumParser`, for any tags, any limits and warning policies, and any sequence of parses of any
length whose tokens `ScumTokenizer` can emit:

- `ParserInvariant`: `Spec => []IInv`; from it `TypesHold`, `SlicesInBounds`, `LimitsHold`,
  `WarningsFaithful` and `PoolStaysClean` for `TypeOK`, `InBounds`, `LimitsKept`, `WarningsReported` and
  `PoolIsClean`, and `NoTagOpenTwice` and `DepthBounded`, which `NoTagInItself` rests on.

`IInv` has to say how the three stacks mirror one another: `cumWidth` is added to the start of an
open node when it closes, and stays inside the input only because what each open tag spans so far ends
where the next one starts (`Telescope`). An attribute range counts all attributes of its node,
next to each other or not, and stays inside the arena because the last one it counts was
appended after the first (`RangesOK`). That each limit is warned of once follows because the set of
limits warned of and the warnings that were raised are the same thing until the parse ends
(`LimitsReported`). That nothing is left out in silence, and nothing that is there is called left out, needs
`OmissionsOK` on top of it: positions grow with the tokens, and every node starts at a place that some token wanted
(`PlacesOK`); the node of every open tag is in the arena (`OpenNodes`), so its closer is answered; a closer is only
skipped to the count of an opener that was left out before it, as a duplicate or behind the warning of a limit (`SkipsExplained`); and
every token so far has the nodes it wanted or its reason (`Answered`). `NextOmissions` carries these over every action.

- `WellNestedRead`: `Spec => []WellNested`.

The skip counts know neither place nor depth, so this needs to be said about every prefix
of the input that can still become well nested, as `NestingOK` does against the tags that the reading has
open (`Nesting`). The stack is that reading without the tags that are open further out already, in the same order
(`StackReads`); as soon as another one is missing, there is no room for any tag after it; and of each
closer as many are to be skipped as its tags are open in the reading and not on
the stack (`SkipReads`). So a closer with a skip to its name belongs to a tag that was left out, and one
without closes the last tag of the stack. `Nesting` is a recursive function; that it is what its equation says
(`NestingDefined`, `NestingStep`) is proved by looking at the least prefix for which it would not be.

- `TextCounted`: `Spec => []TextAccounted`.

The statistics are complete only when the parse ends, so `TalliesOK` says of the parse under way that what the
parser counted and what it will take over from the tokens together are what the tree has, as long as no
limit on nodes was met. The sums are recursive functions too; `TotalFacts` says what one more element adds
to one. Closing a tag writes the end of an open node, which is never a text, and no skip ever names a greedy
tag, so the payload of every greedy tag read becomes a node.

- `TagsNest`: `Spec => []NoTagInItself`.

The arena has the tree only as links to a first, a last and a next node. `TreeOK` says that there is a tree
in it: functions from a node to its children, in the order of the arena, to its parent, and to the tags around it, so
that the links agree with the first two (`Family`) and the third follows from the second
(`Surround`). `appendNode` adds to these functions what its node needs (`FamilyGrows`, `SurroundGrows`), and
around an open tag are exactly the tags that the stack has below it (`AroundOpen`), where a tag that is
opened is not (`OpenedOnce`). At the end of a parse `Children`, `ParentOf` and
`TagsAround`, which the property walks along, are those three functions (`ChildrenAre`, `ParentsAre`,
`AroundAre`); for the recursive ones a least node where they differ is led to a contradiction.

- `SerializesAsParsed`: `Spec => []SerializedAsParsed`.

A tree alone does not make the arena its preorder: a new node must also hang under one that is
still open. `Preorder` says that what lies between a node and its parent is below that parent too, and `TextsInOrder`
that no text starts before an earlier one ends; `NextTree` and `NextOrder` carry both over every step. The walk is followed
turn by turn (`WalkOK`): what has been written sits in its place (`Written`), what is on the stack is what
is due there (`Due`), and the places handed out so far are as many as the children of the nodes that were visited, one for each
(`Placed`). So a turn visits a new node (`WalkGoesOn`), and after as many turns as there are nodes none is left (`WalkEnds`).
Each node and what is below it are an interval of the arena (`SpansExist`), those of its children lie next to one another
(`KidsAdjoin`), and so what is read below a node is its interval, in order: for the greatest node for which it
were not, all its children would still be read right (`NodeReads`, `ReadsInOrder`).

`SmlNormalize`, for any trees whose attributes are numbered as they were given (`SmlAssumption`):

- `NormalizeInvariant`: `Spec => []IInv`; from it `CleanLinks` and `FirstsKept` for `Rendered` and
  `FirstValidKept`.

The front of the array that is filtered grows by two at a `_blank` target while the loop reads one. `Place`
says why it overtakes the reading at most once, and by one: there is one target among the names, and before
it at most as much was kept as was read, and as much only if nothing was left out (`Straight`). So what is
unread is what was given, but for a `rel` where the front is ahead (`Rest`, `NextIs`); `Names`
says that the names seen are those of the first valid attributes, which is what the loop goes by (`NamesSay`).
`SkipFits`, `AcceptFits` and `FinishFits` are the turns of the loop and its end, and `LoopStep` and `NodeStep`
carry the rest of the tree over them.

`CommentReading`, on every reachable table of `CommentStore`:

- `ReadsAsStored`: `Spec => []ReadAsStored`.

That the tables are forests with right depths is `TreeOK`, from `IInv`. On a forest the array of a comment is that of its
parent and one number (`RnkDefined`, `PageIsTree`), the numbers of siblings are their ranks from 1 on (`PlaceCounts`),
and so `Precedes` is a linear order in which a subtree is in one piece behind its root (`ArraysOrdered`,
`SiblingsGroup`). `InOrder` lists any finite set by any such order, each element once (`Listed`, `ListAscends`): in a linear
order the numbers of elements before each one are different, and there are as many as places. Reading is followed row by row
(`ReadGoesOn`): the stack is the path from the root to the row read last (`BranchMoves`), and each list of replies is
what has been read so far of the replies in their order (`FilledGrows`). The arrays and the fold are recursive functions, so a
least row for which a statement about them failed is led to a contradiction.

Model-checked only: the liveness properties (`EveryCallReturns`, `EveryRequestReturns`, `AccessEnds`), which are out of the
prover's reach. Every safety property of a passing run is proved.

## Where code and comments disagree

- `RootLimit`: the maximum of root comments per user and post is counted without a
  lock, so two concurrent inserts get past it.
- `DeleteTakesSessions`: a sign-in whose checks are done stores its session after a
  deletion has removed the user's sessions and before it commits.
- `SigninChecksCount`: a failure of `RecordCredentialUse` that is neither a
  security error nor a missing credential is dropped, and the sign-in goes on.
- `AttributesContiguous`: a tag is the last node twice, at its opening and at its
  closing; the attributes it gets at both times are not next to each other.
- `EscapeProtects`: `check_multi_char_tag_seq.go:11` drops the place where the best match starts and keeps its
  length. With a tag `<bb>` and the escape symbol `\`, the input `<\<bb>` passes over `<\`, because two symbols of the tag
  stand behind it, and the tag is taken though it is escaped. For the same reason `<<b>` loses a tag `<b>`: its second
  byte is passed over, and `dictionary.go:208` says of the partial sequence alone that it is treated as plain text.

Met in the parser, the tokenizer and SML, and kept in the models as the code has them, without
a run of their own:

- `warnings.go:63` says that `overflowed` is true if the number of recorded warnings reached the capacity, and
  `warnings.go:73` that `IsOverflow` reports this. `Add` sets it with the first warning that finds no place (`warnings.go:125`):
  a list that is full and has lost nothing is no overflow, and under `Trunc` one slot is kept for the marker, so the overflow
  begins with the warning that would fill the list. `WarningsReported` follows the code.
- `token.go:48` says that the payload of a flag is empty, and `token.go:51` that `AttrKey` holds its name.
  `set_attribute_signature.go:126` leaves the name in the payload and `AttrKey` empty, as
  `set_attribute_signature_test.go:266` expects. `AttributesWellFormed` follows the code.
- Attributes, duplicate openers and closers that are skipped or misplaced add no width, so the
  span of a node around them ends before its last child does, while `ast.go:45` calls it the
  range the node covers and `serialize.go:49` its content the exact slice.
- The documented example of `eater.go:51`, a link with a href, a `_blank` target and a title,
  loses its title: the `rel` that `link.go:130` appends overwrites it before it is read
  (`Overwritten` in `SmlNormalize`). `eater.go:31` says the first of several attributes with one
  name is used; it is the first valid one.
- `tx_soft_delete_user.go` ends a user's sessions, but `InsertCommentTx` does not look
  at the user: with a token that has not expired a deleted user can still comment.

- `parser_state.go:44` says that the closer of a tag that was left out is consumed without error. The skips
  are counted by closer, so with two openers that share one (as in `tokenize_test.go:67`) the second `]` of
  `[ [ * :[ ] * ] ]` is counted for the duplicate, `:[` stays open and the second `*` is a mismatch. A universal tag inside
  itself under a depth limit breaks it too, since each refused one makes room: so in
  `* _ ( _ * [ ( ) ] * _ ) _ *` with a depth of 2. `WellNested` is about inputs without these.
- `add_tag.go:7` lets a greedy tag be the closer of another tag. When that other tag is left out, as a duplicate or at
  a limit, `process_tag.go:13` discards the greedy tag with the text inside as its closer, but
  `tokenize.go:107` has counted the text: `ast.go:84` calls `TextByteLen` the length of the text in the input, and
  the tree has none of it. `TextAccounted` is about dictionaries without such a tag.
- `warn_invalid_sequence.go:15` reports the byte before the unexpected one as `Got`.
- A body longer than the limit is reported as unclosed, not as too long, when part of a
  closing sequence stands within the limit, or a run that is no closer reaches it.
- `add_tag.go:21` refuses a second tag on a byte but not a tag on the escape symbol or the attribute
  trigger, which `set_attribute_signature.go:10` calls unique among them; attribute payloads
  go on honouring the escape symbol then.
- A tag that neither opens nor closes is accepted and skipped without a warning.
- A second call of `SetAttributeSignature` or `SetEscapeTrigger` succeeds when it is about another
  byte, and leaves the action of the first trigger in place (`set_attribute_signature.go:35`,
  `set_escape_trigger.go:25`): the old byte starts attributes with the symbols of the new signature.

## Abstractions and what is not modelled

- Texts are model values; time is left out: an entry in Redis and a token may expire at any
  moment, and with `Clock` a token does.
- A row's entries go into all its unique indexes at once; in PostgreSQL they go in one by
  one, so two inserts could also deadlock between two indexes, which
  `EveryRequestReturns` covers only through `DeadlockAbort` on the orders that are modelled.
- The WebAuthn library's copy of the sign count and the stored one are one number.
- A deleted user's comments and votes: the comment store only sees user ids, and rows of
  users are never removed.
- Parser: a greedy tag opens and closes with one byte, and what the
  tokenizer warned of is at most one warning before the parser's; tag sequences, escape
  and the intra-word rule belong to the tokenizer.
- Tokenizer: the warnings it raises are the sequence `raised`, before the overflow policy
  of `ScumWarnings`; their tags and bytes are left out.
- SML: values are classes (`AnyValue`); the root's own attributes are neither normalised nor
  rendered; what `HTML` writes for a normalised tree is formatting.
- Not modelled: the rest of the HTTP layer (decoding, validation and formatting of one request),
  posts and post votes (no handler calls them), start-up and configuration, the unfinished block format of post bodies,
  generated code. `PROJECT.json` lists them with reasons.

## Plan

1. Done: the comment store with its board, inductive invariant, refinement, reading and
   answers; accounts, ceremonies and tokens with their book, inductive invariant and refinement; the dictionary of SML, the
   tokenizer, the parser, its warnings and serialisation, and the normalisation of SML.
2. Left to model: the parser on the tokenizer's own tokens (one module that composes
   `ScumTokenizer` and `ScumParser`, instead of the tokens the parser picks among those
   `FitsParser` allows); comments of users that are deleted meanwhile (`CommentStore` with
   `Accounts`); posts and their votes once handlers reach them.
3. Every safety property that a run checks is proved; what a composition adds is to be proved with it.
