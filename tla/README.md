# fevm-test-vectors: a verification project

The repository turns one Ethereum transaction into a test vector for the
Filecoin EVM. It asks a Geth node for the state before the transaction and for
the trace of its execution, replays the trace to get the state after it, builds
two Filecoin state trees from the two states, and writes them with the message
into a JSON file. This directory models that in TLA+, checks it with TLC and
proves part of it with TLAPS. Paths below are relative to the repository.

## The system

| component | state | operations | interacts with |
|---|---|---|---|
| trace replay (`src/extractor/transaction.rs`) | `poststate`, `execution_contexts`, `snapshots`, `block_hashes`, `depth`, `i` | four requests, then one iteration per struct log | asks the node, also in the middle of the loop (`get_code`); returns the vector |
| Geth node (external) | accounts, open calls, the trace | executes, logs, answers | what the replay is measured against |
| state tree builder (`src/lib.rs` 214-292, `src/mock.rs`) | root of the map of actors, init actor's address map | the `mock_*` methods, once per account and tree | reads and writes the tracing store |
| tracing store (`src/tracing_blockstore.rs`) | base store, traced Cids | `get`, `put_keyed` | the traced set is what the car is made of |
| car export (`src/lib.rs` 95-111) | channel of 100, shared buffer behind a lock | a main task that sends, a writer task | the only concurrency inside a run |
| conversions (`src/extractor/types.rs`) | none | `bytes_to_big_int` and its callers | amounts in trees and message |
| message, receipt (`src/lib.rs` 113-208, 294-328) | none | `to_message`, the lists of accounts to compare, the receipt | made of the transaction, found again in the trees |
| test vector JSON (`src/vector.rs`, `src/cidjson.rs`) | none | write and read a `TestVector` | the file is all that a runner of the vector has |
| command line and batch (`src/main.rs`) | files and directories | extract, generate, generate-from-file | calls the others in sequence; two runs meet in the files |
| helpers (`src/util.rs`) | none | hex, hashes, the bundle of actor codes | |

What makes it correct, and what is hard about it:

* **Replay.** A struct log does not say that a call returned, or that it failed:
  both are inferred. The context stack, the snapshot stack and the call depth
  must stay in step over any nesting of calls, failures and creations; a
  snapshot must be taken before the right change; payments must not make or
  lose money; nothing looked up may be missing.
* **Trees.** The second tree is made by changing the first one, so what is left
  over from the prestate must be right. Ids, the address map and the map of
  actors are written in separate steps. Every block that a root leads to must
  be in the store and traced.
* **Export.** A bounded channel, a lock and a join between two tasks: no
  deadlock, no lost block, no half-written car.
* **Vector.** The car, the message and the lists of accounts are made
  separately and must fit when they are run: one nonce in four places, a
  recipient that the first tree has, a creation whose address is free, every
  account compared, a gas limit that survived the multiplication.
* **Commands.** A file is emptied and then written; a run may be killed in
  between, a batch may fail part of the way, two files may have one output, and
  two runs one file. What was done must stay, and what is torn must be explained.

## Modules

| module | models | corresponds to |
|---|---|---|
| `EthState` | accounts and the operations on them | `EthAccountState`, `EthState`; `Transfer` is the debit-then-credit of lines 151-156 |
| `StructLogs` | one entry of the trace | the operands an opcode reads are fields; `unreadable` is a stack that is too short |
| `TraceReplay` | the extraction | `Fetch` is lines 18-88, `Deploy` 90-101, `TransferValue` 103-109, one action per opcode for one iteration of the loop (the cut of the stacks at its start and the error pop at its end included, in `Contexts`, `Snapshots` and `Advance`), `Panic` every failing unwrap, index or subtraction, `Refund` 306-341 |
| `AnyReplay` | `TraceReplay` with a node that answers anything | |
| `GethEvm` | the node: an EVM with calls, creations, self-destruction, failures and a struct logger | external |
| `Extract` | `GethEvm` executing, then `TraceReplay` replaying what it logged | the composition |
| `PlainTraces` | `Extract` for the transactions whose extraction is proved right | assumptions on its constants, no definition of its own behaviour |
| `Conversions` | U256 to token amount, hexadecimal text to U256 | `bytes_to_big_int`, `hex_to_bytes`, `hex_to_u256` |
| `StateTree` | `load_evm_contract_input`, `Mock`, the tracing store | a Cid is the block it identifies; the `mock_*` methods are functions from `Mock` to `Mock`, an iteration of one of the two loops is an action |
| `VectorJson` | the JSON of a `TestVector`, both ways | a pair of operators for every serde declaration; a field that serde may miss is read with `Field` |
| `ExportVector` | the whole of `export_test_vector_file`: `StateTree`, then the car, the message and the file | `ExportCar` is lines 94-116, `WriteMessage` is `to_message`, `WriteVector` the construction of the vector and its serialization; `EvmActorsSlots` is `get_evm_actors_slots` |
| `Commands` | the three commands and the files | one action per step of `main` that reads or changes a file: `Start` (the assertion, the walk), `Read`, `Export`, `Create`, `Write` for one piece of the text; `Kill` at any point |
| `CarFile` | what the export promises: the car of all traced blocks, or a panic for a missing one | abstract specification |
| `CarExport` | the two tasks and the channel | lines 98-111 of `lib.rs` |
| `TraceReplayProofs`, `CarExportProofs`, `ConversionsProofs`, `CommandsProofs` | theorems about the module of that name | the first one for `AnyReplay` |
| `ExtractProofs` | theorems about `Extract` under the assumptions of `PlainTraces` | extends `TraceReplayProofs` |
| `MockProofs`, `StateTreeProofs`, `ExportVectorProofs` | theorems about the operations of `Mock`, the trees, the export | each extends the one before |
| `MCReplay`, `MCExtract`, `MCPlainTraces`, `MCStateTree`, `MCExportVector`, `MCCarExport`, `MCCommands` | the small instances | |

The modules meet where the code does. `Covers` (in `EthState`) is what
`TraceReplay` proves of every state it keeps (`KeepsAccounts`) and what
`StateTree` assumes of a poststate (`PostTreeMirrors`). `ExportVector` extends
`StateTree` and goes on where it ends. `SelfContained` gives
`traced \subseteq stored`, under which `CarFile!GiveUp` is never enabled, so
`ExportCar` is `CarFile!Publish` (`OnlyNumbersPanic`: the unwrap of a missing
block never panics). The properties of the vector are stated on `Vector`, what the
file reads as, and not on what was in memory.

Abstractions worth knowing: amounts are small naturals (the code's arithmetic
is checked, only the lower bound can be met); a HAMT or a KAMT is one block;
the intermediate roots of `mock_builtin_actor` are left out; the order of a
`BTreeMap` or `HashMap` iteration is any order, and so is that of a directory;
storage keys and values are words of `Width` bytes (4 in the runs, 32 in the
code), and the integers of the gas limit end at `Half` and `2 * Half` (2^23 and
2^24 in the runs, 2^63 and 2^64 in the code), so that TLC's own integers can
hold them;
CBOR, base64, gzip and the texts of addresses and Cids are tags on what they
encode; a file is text in two pieces, or a directory, and is read in one step,
where the code reads it through a buffer in chunks, so that a reader never sees
another run's write begin half way; `Kill` is also an error of the writing
itself, such as a full disk; a `get_code` answer is any code
in `AnyReplay` and either the node's code or none (a later transaction may have
destroyed the contract) in `Extract`.

## Runs

Deadlock is checked in `CarExport`; the other specifications stop when the
sequential program ends (`Commands` when no command is left to give), and their
configurations say so.

| run | question | bounds, and why they are enough |
|---|---|---|
| `Replay` | does the bookkeeping hold for any answer, consistent or not? does money stay? | traces of at most `MaxTrace` logs out of 30 kinds, depths 1 to 3: a jump up or down of more than one, a pop on an empty stack and every panic occur |
| `Calls` | is the poststate what the node ended in, over calls, delegate calls, writes, transfers and visible failures? does money stay? does nothing panic? | traces of 6 logs with depth limit 2: calls in calls, reentrance, failure of the inner, the outer and both, refused calls; three transactions (contract with value, failing payer, self-transfer) |
| `Creates` | the same for creations, up to nonces and codes; does nothing panic? | 6 logs, creation by transaction and by contract, with and without value, failing constructors; the prestate has the zero address (`ContextsKnown`), without which the replay of a failed creation panics: that is `CreationFails` |
| `Destruct` | are survivors right after self-destructions, and the block hashes those the transaction saw? is what the replay looks up always there? | 6 logs: to oneself, to another, twice, in a delegate call, in a call that fails; hashes of a known block, of the transaction's own, of one too old |
| `CarExport` | lost blocks, deadlock, liveness, the promise of `CarFile` | every traced set and every store over 4 blocks, capacity 2: the channel is full and empty, the store lacks a block |
| `Tree` | from a transaction to its file: are the trees the two states, complete, with a consistent address map? does the file read as the vector, and can the vector be run from the file alone? | a sender, a contract with two slots that appear, change and become zero, a third account that is funded, deployed, missing or created, poststates a hand-written file may hold; for three of these transactions also no calldata, no fees, no block hashes, gas at the limits of both integers in builds with and without overflow checks, and a block number, time and chain id beyond them |
| `Commands` | which files are torn, whose are they, what has a failed batch done, does every command end? | two runs at one time, two commands, one killed at any point; six file systems: two files of one name, both good or one that cannot be exported, an outdated file, a file of another kind, a torn vector, an old vector, directories named like files; an export that fails. A third command is beyond the time of a run; what an earlier one may have left is among the initial files instead |

Nonces after creations are not compared: the node starts a contract's nonce at
1 and keeps the creator's increment when a creation fails, the replay does
neither. No document of the repository says which is meant for the FVM. Nor are
their codes: the replay goes on only where it was given none
(`CreationHasCode`), the node leaves what the constructor returned.

The remaining runs each find one statement of the repository's comments or
documents that the code does not keep:

| run | statement | what happens |
|---|---|---|
| `CallOutOfGas` | `transaction.rs:86` snapshots are "used to handle reverting and other errors" | a `CALL` that runs out of gas pops the snapshot it has just pushed, and the changes of its call stay |
| `PrecompileFails` | `transaction.rs:150` calls fail "without any error" | only depth and balance are looked at; the transfer to a failing precompile is kept |
| `CreationFails` | `transaction.rs:193` the created address is on the stack of the next log | after a failed creation that is 0, and the zero account is looked up |
| `CreationHasCode` | `transaction.rs:98` "failed to get code" | the condition is the wrong way round: the extraction gives up when there is code |
| `TreeBalances` | `README.md:15` "balance changes" | hexadecimal digits are parsed as decimal: 0x0a becomes 0, 0x10 becomes 10 |

`Calls`, `Creates` and `Destruct` are runs of `MCPlainTraces`, so that TLC
evaluates the assumptions of `PlainTraces` on the programs they run; the
violating runs of `Extract`, some outside them, are runs of `MCExtract`.

The passing runs of `Extract` therefore choose, in the constants `Faults`,
`FailingPrecompiles`, `Deployed` and `Program`, the traces whose failures the
replay can see; each violating run adds one kind of failure. `Destruct` has a
failing precompile too, one that is paid nothing. Two more failures are hidden
from the replay as in `CallOutOfGas`, and `CallOutOfGas.cfg` shows them when
`Faults` is one of two other sets of `MCExtract`: `RevertRunsOutOfGas` (a
`REVERT` with an error pops two snapshots) and `StaticWriteFails` (a write
refused in a static call has no error in its log and is kept). The slots of a
destroyed account stay in the poststate (`transaction.rs:274` asks "consider
delete the account?"), which is why `Destruct` compares survivors only; if they
were deleted, a later call of one would panic (the mutant of `NeverPanics` in
that run). The nonce in an `EvmState` is always 1, where `evm_state.rs:23` says
it tracks how many times `CREATE` or `CREATE2` have been called, so that it
differs for every contract that has created one. `StateTree` builds the trees
as the code does; `Shows`, which is what `PreTreeMirrors` and `PostTreeMirrors`
say of a contract, leaves this nonce out, and nothing is claimed about it.

Three more things that the code does and no document denies: the receipt says
`OK` for a transaction that failed; `tests/contracts/0x26c9...json` has no
`random`, which the code now requires, so that `exec_export` cannot read it
(the model's "outdated" files); and `extract` and `generate` give the same name
to a transaction and to its vector, so that in one directory the second
overwrites the first and a later batch fails.

**Fairness.** `CarExport` (`BothEnd`) assumes weak fairness of the main task
and of the writer task as wholes: `main` is inside `block_on`, the writer is on
the executor's thread pool, and an executor polls every task that was woken.
`Commands` (`CommandsEnd`) assumes weak fairness of each run as a whole: the
operating system schedules every process, and the requests to the node are
taken to return or to fail. Nothing is assumed of a single action, and nothing
says that a command is given or that a run is killed.

## Proofs

Every theorem is for all values of the constants that meet the named
assumptions of the modules; TLC evaluates these on the runs' values.

`TraceReplayProofs` is about `AnyReplay`: any set of answers that have the
right types, traces of any length. The inductive invariant `IndInv` joins
`TypeOK`, `ContextPerCall`, `KeepsAccounts` and two facts they need: the
addresses of the open contexts, and the relation between snapshots and depth
along a well nested trace (`NestInv`), which says that after a log which did
not end its call there are as many snapshots as open calls, and one fewer
otherwise. Proved: `TypeCorrect`, `ContextsMatchCalls`, `AccountsKept`,
`SnapshotsSuffice`, and `MoneyConserved`. The last one is inductive relative to
`IndInv`: a payment needs a payer that can pay and two accounts that exist,
which is what `KeepsAccounts` and the guards of the code give it. Money is
counted as a set of coins, `Coins(state)`, and `Total` is its cardinality, so
that a sum over accounts needs no induction: all of an account's coins are one
part of a disjoint union (`TotalSplits`), and a debit or a credit changes that
part alone. `AddressAssumption` (addresses are words of 20 bytes) makes it
finite. Creations, failures and traces that no node would give are included.
The assumptions are those named in the modules (`NoCodeIsCode`,
`AddressAssumption`, `TraceAssumption`, `ReplayAssumption`,
`AnswersAssumption`).

`ExtractProofs` compares the replay with the execution that made its trace, for
traces of any length, with calls and creations of any depth. Its first half is
about the node (`NodeInv`): for every log there was a state before it -
accounts, open calls, destroyed accounts - and `Executed(s, log, t)` says what
the instruction made of it and how the log shows it. That history, `past`, is
no variable of the node; it is the witness of an existential, and grows by one
state with every log. The second half is that the replay, at log `i`, is where
the node was in `past[i]` (`Abreast`). `Agree` says when the accounts are the
same: all of an account where nothing is created, its balance and storage where
something is. `Mirrors` says of every open call that the replay has the
context it acts for, and the snapshot that holds what the node would restore;
it may have more of both, until it cuts them to the depth of the log, and never
has fewer.

Creations break that simple correspondence, because the replay learns the new
contract from the word that the creator finds on its stack afterwards, and that
word is 0 if the constructor fails. In such a constructor, and in all that it
calls, the context of the replay is the zero address, so that payments and
writes go to other accounts than the node's. What saves the result is that all
of it is thrown away: the call will fail. `Doomed(past, n)` is the set of open
calls, by depth, that fail from log `n` on. It looks ahead, which is possible
since the node has finished before the replay starts and `past` is complete;
the replay looks ahead in the same way. The invariant is then conditional:
`Mirrors` promises the right snapshot, and the right context or else doom, for
a call whose enclosing contexts are all right (`Aligned`), and the accounts
agree only while every context is right. A call that ends without a failure was
not doomed, so its context was right if those around it were
(`OnCourseBefore`); a failure goes back to a snapshot that was taken in the
enclosing call (`MirrorsFailed`). `CreatedIs` and `CreationEnds` tie the
address that line 195 finds to the constructor that ends: the first later log
at the creator's depth is the one after it, and its top is the new address or
0. They look at the first state in which the constructor is no longer open
(`LeastNumber`, from the well-foundedness of the naturals). An iteration then
needs one argument per opcode (a call made, a call refused, a creation, a
failure, a return, a write, a destruction) that `past[i + 1]` is reached.
`ExtractInv` joins `NodeInv`, the replay's own `IndInv` and `Follows`. TLC
checked `Past` and `Follows` on the instances of `Calls`, `Creates` and
`Destruct`, with the history as an additional variable, before they were
proved.

Proved, with the hypotheses that a theorem has on top of the assumptions of
`PlainTraces`:

| theorem | hypothesis | says |
|---|---|---|
| `SurvivorsAreExtracted` | none | balance and storage of every account that was not destroyed |
| `SurvivorsAgree` | `NoCreation` | those accounts as a whole |
| `CreationsAgree` | `NoDestruction` | balance and storage of every account |
| `ReplayAgrees` | `NoCreation`, `NoDestruction` | the poststate is the node's |
| `HashesAreThoseSeen` | none | the block hashes |
| `ReplayNeverPanics` | `ContextsKnown` | no unwrap fails |
| `ExtractionConserves` | none | no money is made |

`NoCreation` and `NoDestruction` say that no instruction and no transaction
creates, or destroys: the replay counts nonces differently and leaves a
destroyed account in the poststate, so the two equalities do not hold without
them. `ContextsKnown` is what keeps the replay of a creation from panicking: the
prestate has the zero address, which it takes for the contract of a failed
creation (`CreationFails` shows what happens otherwise), or contracts create
none. `Calls` and `Creates` meet it. One panic is left, and `NeverPanics` names
it: a tracer may not know the contract that the transaction itself creates.

What `PlainTraces` assumes is where this repository's replay is right at all:

* the prestate has every account that is acted for or paid, which is what a
  `prestateTracer` answers. An account created by an instruction is among them:
  the creating instruction looks it up, and the node's `ExecCreate` has this as
  its guard. Of the account that the transaction itself creates the tracer may
  still deny knowing, as said;
* that account is the one that the extractor computes (`CreationAssumption`),
  and deployed code is code;
* failures are those the replay sees (`VisibleFaults`): a halt, or an error of
  an instruction that pushes no snapshot. `CallOutOfGas`, `PrecompileFails` and
  the two other sets of `Faults` above show the theorems false without this. A
  `BLOCKHASH` that runs out of gas is excluded too: the replay would take its
  answer from a log of another call;
* a precompiled contract that fails is paid nothing;
* `None`, an empty stack, is no word, and the words of `BLOCKHASH` and of a
  successful call are words.

`CarExportProofs` is for every set of blocks, every store and every capacity
above 0. `IndInv` joins `TypeOK`, `NothingLost` - the concatenation `Flow` of
buffer, channel and pending send lists what the iteration has come to, once
each - and `Phases`, which ties how far each task is to what is left: main
reads only after the writer has ended, and the writer ends only with an empty
closed channel. A send or a write leaves `Flow` as it is, so `NothingLost`
needs an argument only for `NextBlock`. From it follow `TypeCorrect`,
`NoBlockLost` and the refinement `ExportKeepsPromise`: `ReadBuffer` is
`Publish`, `MissingBlock` is `GiveUp`, every other step is a stutter.

`ConversionsProofs` is for words of any width. `WordsReadBack`: a word is the
bytes of its number, so that two slots never become one. `HexReadsBack`:
`hex_to_u256` reads what was printed. `GetBalanceNeverMore`: a token amount is
a natural number and never larger than the number it was made from, whatever
digits `bytes_to_big_int` took for decimal ones, because two digits read as
decimal ones are at most their byte, and a word without its leading zero bytes
is no larger (that the amount is often smaller is what `TreeBalances` shows).
The value of a word is a
recursive function; facts about it are proved by induction on its length in the
form of a fact about sets (`LeastNumber`, `Induction`), since the induction
theorems of the library cannot be instantiated.

`MockProofs` has one lemma per `mock_*` method, on any store: `IsMock` is kept,
and the actors other than the one of the address are left alone. `IsMock` is
what the code relies on without saying it: what is traced is stored and leads
only to what is traced (`Closed`), and the address map and the map of actors
are two views of one thing (`Indexed`: ids are given once and lie below
`next_id`, an address of the map leads to an actor that has it, an actor is
found by its own address). The two maps are written in separate steps of a
method; the lemmas are about whole methods.

`StateTreeProofs` adds what the two loops of `load_evm_contract_input` have
come to. `IndInv` joins `Building` - in `Holds`, which address the current root
knows, and what the actor of each is, by whether the first or the second loop
has been at it - with `Finished`, the same of the two roots that were kept, and
`Compared`. `PreTreeMirrors` alone is not inductive, because it says nothing
before the loop ends; nor is `PostTreeMirrors` without the first root, since an
account the second loop comes to has the slots the first one left. Proved:
`TypeCorrect`, `AddressesConsistent`, `TracedIsComplete`, `BuildsWithoutPanic`,
`PreTreeRight`, `PostTreeRight`, from `TreeAssumption`.

`ExportVectorProofs` extends that to the file (`VectorInv`: `IndInv`, and
`Exporting` for what each stage has made). `TracedIsComplete` is what excludes
the panic of a missing block: `PanicsOnlyOnNumbers`. `FileReadsBack` goes
through every serde declaration of `VectorJson`: each reader undoes its writer.
From it the rest is proved about the file and not about memory: `VectorsRun`,
`EverythingIsCompared` and `SlotsAreRead`, which takes the slots back through
the KAMT with `WordsReadBack` (`get_evm_actors_slots` is public and nothing in
the repository calls it; it is asked of the store that the blocks were traced
in, not of the car). `VectorAssumption` and `NoneAssumption` say
what is given: the fields a transaction has, that a new contract's address (a
hash of the sender's) is not the sender's, finitely many addresses, and that
`None` is none of the values it is compared with.

`CommandsProofs` is for any number of runs, kills and pieces, over any finite
directories. `Inv` joins the types with what a run has at each place (`Phase`),
where its document came from (`Sourced`), and `Mended`: unless a path is `hurt`,
all that write to it write one document, and each of its pieces is there or is
still to be written by one of them. That is why a file that two runs write at
one time is whole in the end if they agree, and it gives `OnlyInterruptionsTear`
when the last writer is through. `BatchInv` is about a `generate-from-file` that
runs alone: the document in memory belongs to the path it is at (`Holds`), the
file has the pieces that were written (`Progress`), and every path before that
one has its vector (`Handles`) even though later ones may have the same name.
Proved: `TypeCorrect`, `TornByInterruptionsOnly`, `NamesTellTransactions`,
`HandledHaveVectors`, `NoFailureWithoutReason`.

Only model-checked: liveness (`BothEnd`, `CommandsEnd`), which is beyond the
prover. Every invariant of a passing run is stated by a theorem.

## Not modelled

Left out for good: the bytes of base64, CBOR and gzip (library calls), logging,
`compute_address_create` (a hash; the constant `Created`), `get_code_cid_map`
(reads a bundle compiled into the binary), the `vec` and `opt` wrappers of
`cidjson.rs` and `hex_to_eth_address` (no caller outside a test), and the tests.
