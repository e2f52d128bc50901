# Concent: a TLA+ model

Concent is the arbiter of the Golem network. When a requestor and a provider of
a computation stop talking to each other, either of them may turn to Concent,
which passes messages on with a deadline, verifies results, and pays out of
deposits the clients have locked in a smart contract. This directory holds TLA+
modules that follow the code, TLC configurations that check them on small
instances, and proofs that TLAPS checks for every instance.

Paths below are relative to the repository.

## The system

| Component | Code | State it keeps | Operations |
|---|---|---|---|
| Core (control cluster) | `concent_api/core` | `Subtask`, `StoredMessage`, `PendingResponse`, `Client` in the control database | `send/` and `receive/` endpoints, timeouts, the Celery tasks `upload_finished`, `verification_result`, `result_upload_finished` |
| Bankster | `concent_api/core/payments/bankster.py` | `DepositAccount`, `DepositClaim` | `claim_deposit`, `finalize_payment`, `settle_overdue_acceptances`, `discard_claim` |
| Payment backend | `concent_api/core/payments/{service,storage,sci_callback}.py`, `backends/` | `GlobalTransactionState` (the nonce), `PendingEthereumTransaction` | deposit and payment queries, transactions, the search for the first block after an instant |
| Conductor (storage cluster) | `concent_api/conductor` | `VerificationRequest`, `UploadReport`, `ResultTransferRequest`, `BlenderSubtaskDefinition` in the storage database | the `report_upload` endpoint, `blender_verification_request`, `upload_acknowledged`, `result_transfer_request` |
| Verifier | `concent_api/verifier` | the files of one order, in `VERIFIER_STORAGE_PATH` | `blender_verification_order` |
| Gatekeeper | `concent_api/gatekeeper` | none | decides for nginx about each request to the file storage, by the token in it |
| MiddleMan | `concent_api/middleman` | queues and the message tracker, in memory | carries frames between Concent workers and the one signing service |
| MiddleMan protocol | `middleman_protocol` | what a reader has gathered | framing, escaping, frame signatures |
| Signing service | `signing_service` | the daily sum of transferred tokens, in a file | reconnects, authenticates, signs transactions |

How they interact. A client sends one message to `send/` and gets a synchronous
answer; messages for the other party are rows of `PendingResponse`, fetched with
`receive/`. Nothing runs on a timer: a deadline is looked at only when a client
sends a message about the subtask or calls `receive/`. The core calls the storage
cluster through Celery (`.delay()` after the commit), the storage cluster calls
back the same way, and so do the verifier and the conductor with each other. The
core calls Bankster as a library, some of it from `on_commit` callbacks; Bankster
calls the payment backend, whose transactions are signed by the signing service
behind the MiddleMan. Clients and the verifier move files with tokens that the core (or the
verifier) makes and the gatekeeper checks; the two never talk to each other, they only compute
their times from the same messages and settings.

What is hard in it:

* Every view runs with `non_atomic_requests` and opens its transactions itself
  (`common/decorators.py`, `non_nesting_atomic`), so a request is several
  transactions and other workers run in between.
* Some locks are query sets that nobody evaluates (`subtask_helpers.py:231`,
  `bankster.py:105`), so they lock nothing.
* `Subtask.clean()` compares the new state with the state *the object* was read
  in, not with the one in the table.
* A claim is made in a transaction of its own before the state changes, and paid
  in an `on_commit` callback after it has changed; a crash or a refusal may come
  in between.
* Celery calls may come late, twice or never, and race with the timeout.
* `clean()` refuses active states during a soft shutdown, which also hits work
  that had been accepted before.
* How long the core waits, how long a token is valid, how long the verifier may work and how
  long an administrator is told to wait are computed in five places, from messages of
  different times.
* The verifier works in a directory that an earlier order may have left files in, and looks at
  no response of the storage; what it finds is blamed on the provider or on Concent.
* `socket.send()` may take a part of a frame, and nobody looks at how much.

PROJECT.json lists each hazard with its line and the properties that watch it.

### What makes each component correct

* Core: a subtask moves only along `POSSIBLE_TRANSITIONS_TO`; the rows satisfy
  what `clean()` enforces; each client gets one verdict; a deadline is neither
  cut short nor forgotten; every pending response can be built and is delivered.
* Core with Bankster: while a state may end in a payment the claim for it exists;
  a claim is paid once, and not by the party the verdict was for.
* Bankster: what is sent is covered by the deposit; a provider is not paid more
  than it is owed; funds of closed use cases are freed.
* Payment backend: no two pending transactions with one nonce, no gap in the nonces.
* Conductor: the core is told of an upload exactly when all files are in and asked
  for, whatever the order of reports and requests.
* Verifier: a provider is accepted for what it has uploaded itself, and is not blamed for what
  it has not done; an order has one verdict and ends.
* Files: while the core waits for a file the gatekeeper lets it in; a download has the time
  that the core allows for it.
* MiddleMan protocol: frames arrive whole, in order and once, whatever bytes are in them.
* MiddleMan: a request is passed on and answered once at most; a response that goes to the
  wrong worker does no harm; the signing service can always come back.
* Signing service: what is signed in a day stays below the limit, restarts included.

## The modules

| Module | What it models |
|---|---|
| `SubtaskModel` | the row of the `Subtask` table, the transition and message tables of `core/models.py`, `Subtask.clean()`, what `store_subtask` and `update_and_return_updated_subtask` write |
| `SubtaskLifecycle` | the abstract specification: states that move along `POSSIBLE_TRANSITIONS_TO`, one subtask at a time |
| `ClaimModel` | which deposit claims there can be, and their status |
| `ClaimLifecycle` | the abstract specification of a claim: made with the others of its use case, paid or given up once, freed. `ControlCluster` and `Bankster` both implement it |
| `ControlCluster` | the workers of the control cluster: all message handlers, `receive/`, timeouts, Celery tasks, `on_commit` callbacks, crashes, soft shutdown |
| `MCControlCluster` | the instances TLC checks |
| `ControlCluster_proofs` | the theorems about it |
| `Bankster` | the workers of the control cluster inside Bankster: amounts, deposits, payments, settlements, the blockchain as Bankster sees it |
| `MCBankster` | the instance TLC checks |
| `Sums` | lemmas about finite sets and the sums of amounts over them |
| `Bankster_proofs` | the theorems about what holds of `Bankster` with all races |
| `Deposits_proofs` | the theorems about deposits, settlements and claims without three of them |
| `TransactionStorage` | the processes of the control cluster that share the nonce and the pending transactions |
| `BlockSearch` | the search for the first block after an instant, on a chain that grows |
| `Conductor` | the storage cluster: the conductor's transactions and callbacks, the verifier's stages |
| `Conductor_proofs` | the theorems about it |
| `SigningModel` | calls, attempts, links and payloads, for the modules of the signing path |
| `Signing` | the abstract specification of `sci_callback`: a call returns what was signed for it, or raises |
| `SciCallback` | the callers in the control cluster |
| `MiddleMan` | its connection handlers, queues, tracker, and the authentication of signing services |
| `ServiceConnection` | how the signing service connects, fails, tries again and gives up |
| `SigningPath` | the composition of the last three, with the connections between them; implements `Signing` |
| `MCSigningPath` | the instance TLC checks |
| `SigningPath_proofs` | the theorems about it |
| `SigningService` | `ServiceConnection` with the daily limit, its file and midnight |
| `Framing` | the frames of the MiddleMan protocol on a stream of bytes: escaping, both writers and both readers |
| `MCParts` | the instance TLC checks of `TransactionStorage`, `BlockSearch`, `SigningService` and `Framing`, one after the other |
| `Parts_proofs` | the theorems about these four |
| `TransferTimes` | the settings and functions that deadlines and lifetimes of tokens are computed from |
| `Gatekeeper` | tokens, and the decision about a request |
| `FileTransfer` | the core's deadlines, its tokens, the file storage and the conductor's answers, on one clock; the composition of the last two with the core's states |
| `VerificationOrder` | the abstract specification of an order to the verifier |
| `Verifier` | `FileTransfer` with the verifier: its stages, its directory and its verdicts; implements `VerificationOrder` |
| `MCVerifier` | the instance TLC checks |
| `Verifier_proofs` | the theorems about `FileTransfer` and `Verifier` |

### How `ControlCluster` corresponds to the code

An action is one database transaction of one worker, because transactions are what
the database makes atomic.

* `Send` is `pre_process_message_related_subtasks`: the timeout of the message's
  subtask in a transaction that really locks the row. The handler follows as an
  action of its own, named as in `message_handlers.py`.
* `ForceSubtaskResults` and `SubtaskResultsVerify` are three actions each:
  `CheckBeforeClaim` (the state is read without a lock), `ClaimDeposit` or
  `ClaimRefused` (Bankster's transaction), and `Store...`.
* `Refuse` is every early return and every exception of a handler that changes
  nothing. It fires exactly when the handler's guard does not hold. (`IntegrityError`
  makes the view run once more; the same as a client that sends the message again.)
* `StartReceive` reads all active subtasks of a client into `copies`; `SweepSubtask`
  processes one copy and saves it; `Deliver` is the choice of the response, and fails
  without marking it delivered when a related message that it needs is NULL.
* `todo` is the list of `on_commit` callbacks of the worker. `ReadClaim` and `PayClaim`
  are the reading of the claim and the rest of `finalize_payment`, merged into one
  step; `DeleteDepositClaim` is `discard_claim`.
* `UploadFinished`, `VerificationResult` and `ResultUploadFinished` are enabled as soon
  as the core has asked for the work, and stay enabled: calls may be late, repeated or
  never come. A Celery task that cannot take its `nowait` lock is retried a few times
  and then dropped, which is one of those cases.
* `Crash` loses the request, its copies and its callbacks. The databases survive.

Data is kept only as far as the control depends on it: a message is its kind, the
subtask, a size class of the reported result, the verdict in it and the timestamp of
`SubtaskResultsRejected`; a related message is present or NULL; signatures, keys and
message validation are left out, so every message that is considered is valid.
Deadlines and the clock are integers.

How the two meet. `ControlCluster` knows a claim as its status (`claim`), `Bankster` by
its amount and hash, from which `Status` is computed. Both are shown to implement
`ClaimLifecycle`, so what the core is checked to do with claims holds for claims as
Bankster treats them.

### How `Bankster` corresponds to the code

An operation is a question to SCI, a database transaction and perhaps a payment, and
each is an action, since other workers run in between.

* `AskForDeposits` is the start of `claim_deposit`, up to the two deposits it is told.
  `CheckRequestor` and `CheckProvider` compare them with the sums of claims, and
  `InsertClaims` is the commit. The three are one transaction in the code, but its locks
  are not taken and the database runs at read committed, so each sum sees what is
  committed at that time.
* `AskForPayersDeposit`, `LockClaim`, `PayClaim`, `SaveClaim` are `finalize_payment`, and
  `DiscardClaim` the callback it registers.
* `AskForSettledDeposit`, `LockSettlement`, `PaySettlement`, `SaveSettlement` are
  `settle_overdue_acceptances`. The definitions between them are its helpers.
* `Abort` is an exception from SCI or the death of the process, which also loses the
  callbacks. `Confirm` is the next transaction being mined: the contract moves the amount
  or what there is left. `Transfer` is a requestor who pays for a subtask by itself, at any
  time after the acceptance: the block that the transfer is in.
* `IsShown` is the range of blocks of `get_list_of_payments`, which ends `REQUIRED_CONFS` before
  the last confirmed one. A payment is `ConfirmationTime` old before `SettlementEvents` and
  `BatchTransfers` have it. A settlement is found in the table until then, a transfer nowhere.

SCI, the client and the contract are external, and modelled by what `bankster.py` and
`sci_backend.py` use of them. Claims of different payees with the same payer need no more
than the sum over the payer.

### How `TransactionStorage` and `BlockSearch` correspond to the code

Each process has a `PaymentInterface` of its own, so `step` says for each of them where it
is in the storage's methods and in what `golem_sci` does around them; the tables are shared.

* `AskNonce`, `CompareNonces`, `RaiseNonce` are `init`, and `CheckUniqueness`, `InsertState`
  its `_init_with_nonce`: `full_clean` looks for the row, `save` updates it or inserts it.
* `GetNonce`, `LockState`, `SignAndSave`, `SigningFails` are `set_nonce_sign_and_save_tx`.
  The signing service may take long to answer while the lock is held, so `lock` is a
  variable; every other transaction that locks the row is one action and waits for it.
* `RevertLastTx`, `RemoveTx` and `Resend` (a row of `get_all_tx`) are the others.
* `Send`, `Refuse`, `Mine` are `golem_sci` and the network: a transaction is sent after it
  is signed, or refused and taken back; the account's transactions are mined in the order
  of their nonces. One that is being taken back is not sent by others, since all ask the
  same network.

`BlockSearch` is one call of `get_latest_existing_block_at` after the other: `Probe` is an
iteration of the loop, and `MineBlock` may come between any two.

### How `Conductor` corresponds to the code

The storage database is used at read committed, so an action is the part of a transaction
up to the next thing it reads, or its commit; `step` says where each process is, with what
it has read. What a transaction has written is seen by others with the commit.

* `FindRequest`, `FindTransferRequest`, `CheckRequest`, `CommitReport` are `report_upload`
  with `update_upload_report`. It locks the `VerificationRequest`, if there is one
  (`LockedBy`), and this is what orders the reports of two files.
* `LinkSource`, `LinkResult`, `CommitRequest` are `blender_verification_request`: the request
  is inserted, the reports of one path are linked, then those of the other.
* `StartTransfer`, `CheckTransfer`, `CommitTransfer` are `result_transfer_request`, and
  `UploadAcknowledged` the task of that name, which locks the request it changes.
* `Delay` is one `on_commit` callback, `LoseCallbacks` the death of the process before the
  rest of them, `Rollback` an exception or a death before the commit.
* `TakeOrder`, `Pass`, `Verdict`, `Abandon` are `blender_verification_order` and
  `handle_verification_results`: a list of stages, each of which may end the task with the
  verdicts in `Failures`, or with an exception that nobody handles.

The core is external: it asks for a verification or a transfer at any time, and acknowledges
an upload it has been told of, any number of times. A report is repeated as nginx pleases.
`lost` is a history variable, the calls that died with a process.

### How `SigningPath` and `SigningService` correspond to the code

MiddleMan is one event loop, so an action of `MiddleMan` is what a coroutine does between two
awaits. The callers and the signing service are processes of their own; an action is what they
do between two calls of the socket. A connection is the sequence of frames under way (`down`,
`up`; between a caller and MiddleMan there is one frame each way and the handler's state stands
for it), and ends for each side by itself, which is how both come to believe different things.

* `Ask` and `Retry` open a connection of a call and send its frame (`send_request_to_middleman`
  under its retry decorator). `ReadRequest` is `request_producer`, `Deliver` is
  `response_consumer` with the caller's checks, `Release` the end of the handler: end of file,
  `sleep` and `join` are one step, since nothing else depends on when they happen.
* `TimeOut` is the end of `SCI_CALLBACK_RETRIES_TIME`, which may come after any attempt;
  `Disconnect` is an end of file, and also a refused connection: a caller that finds no
  MiddleMan is one whose MiddleMan restarts at once.
* `Connect`, `Answer`, `LeaveLink`, `StartService` are the signing service's side of
  `ServiceConnection`; `Serve` is the loop of `_handle_connection`, which signs or rejects.
* `Pass` is `request_consumer`, `Return` is `response_producer`. The tracker is a sequence of
  entries because `discard_entries_for_lost_messages` depends on the order of the `OrderedDict`;
  a key that is set again keeps its place (`Track`), as in Python.
* `AcceptLink`, `ReceiveReply`, `Admit`, `Refuse`, `LoseCandidate`, `FinishAborted` are the parts
  of `_handle_service_connection` and `_authenticate_signing_service`; `index` is kept over the
  await, and `HasEntry` says when `pop(index)` raises. `Finally` clears the flag in every case.
* `RestartMiddleMan` loses everything MiddleMan has, and its connections.

TLC reaches states in which two links are served at once (a failed candidate clears the flag of
the served one), a response is put in the queue of another connection (two links use the same
ids), and the entry of a live request is dropped. So none of that is a property: what holds in
spite of it is that a call does not return a transaction that is not its own, that nothing is
signed more often than it was sent, that no connection is answered twice, and that the flag does
not lock the service out.

`SigningService` has the same `ServiceConnection` and adds what is done with a request: `Exceeds`
compares with the sum in memory (`SumSoFar`), `WriteSum` writes the file, possibly that of the
next day. `LoseResponse` is a transaction that was counted and could not be sent; `TearFile` a
crash between the truncation of the file and the write. Nothing updates the sum in memory after a
signature, so what one connection signs is compared with the sum at its start, and the file holds
that sum and the last value: the limit itself does not hold (`daily_limit`). What does hold, with
every step of the code, is `LatestAreLimited`: of each connection of a day the last transaction is
counted, and together these stay within the limit. `history` records them (`latest`, of the
connection and the day, and `lasts`, their sum); no guard reads it but the bound `MaxTotal`, which
is on the sum of all (`total`). A torn file counts as 0 afterwards, so the record starts again with
it.

### How `Framing` corresponds to the code

A stream is one direction of a link. `Write` is `append_frame_separator` after
`escape_encode_raw_message`, and what the socket takes of it: `send_over_stream` calls
`socket.send()` and does not look at the result, while MiddleMan's writer takes all.
`ReceiveFrame` is MiddleMan's `handle_frame_receive_async`; `Overrun` is the
`LimitOverrunError` that it does not catch. `ReceiveByte` is an iteration of `split_stream`
with `unescape_stream`, which the clients read with. What makes a frame valid is taken as a
whole (`IsValid`): the escapes, the length in the frame, and the signature.

### How `FileTransfer`, `TransferTimes` and `Gatekeeper` correspond to the code

* `TransferTimes` has the functions that compute durations and instants, from the settings as
  the system checks accept them. There are two differences: `DOWNLOAD_LEADIN_TIME = 0` passes the
  check and fails an assertion in `core/utils.py`, so `TimesAssumption` excludes it, and the check
  of `ADDITIONAL_VERIFICATION_CALL_TIME` is not registered.
* `Gatekeeper` is an operator, since the gatekeeper keeps nothing: `IsViewable` is what the views
  ask of a request, `ParseHeaders` what `parse_headers` asks of the token in it.
* In `FileTransfer` the handlers of `send/` are those that set a deadline or make a token;
  `UpdateSubtask` is `update_subtasks_states` (`VerifyFileStatus` before `TimeOut`, for the
  requestor), and `HandOutUpload`, `HandOutDownload` are the responses of `receive/` with a token.
  The handlers are one step each; what other workers do in between is `ControlCluster`'s.
* `Upload` is a request to the storage with any token that was handed out, by any client.
  `ResultUploadFinished` and `UploadFinished` are the Celery tasks, with the deadline they compare.
* `TimeUntilShutdown` is the query of `core/templatetags/admin_tags.py`.

### How `Verifier` corresponds to the code

The verifier is one process that owns `VERIFIER_STORAGE_PATH`, and an action is a stage of
`blender_verification_order`. `directory` is what each file of it holds: what the provider
uploaded, a page that the storage sent instead (no status is looked at), or a file of an earlier
order. `delivery` says what the provider uploaded and what an earlier order has left.

* `TakeOrder` makes the token, which is computed from the size of the result alone.
  `DownloadSource`, `DownloadResult` are `store_file_from_response_in_chunks` with its file that must be new.
* `ValidateDownloadedArchives`, `UnpackArchives`, `MatchFrames` look at lists of names, and
  `RenderFrame`, `Compare` at files. They disagree in three ways, which `Delivery` lists: an
  archive may be torn, names may be in directories (`os.listdir` and `clean_directory` do not look
  there), and only the first `UNPACK_CHUNK_SIZE` names are unpacked.
* `RenderFails`, `RenderTimesOut` are the errors of Blender and its timeout, which is what is left
  until the deadline of the core. `Failure` has the other exceptions that give the verdict ERROR.
* `Abandon` is an exception that nobody turns into a verdict, or the death of the process.
* `Report` is `verification_result`, which the core may get late, or not at all.

`Conductor` keeps its own short verifier, since what matters there is only whether it answers.

## The runs

The instances of `ControlCluster` have one subtask, its requestor `alice` and its provider `bob`. One
subtask is enough, since no handler looks at two subtasks, and the bounded clock reaches past the last deadline the handlers
compute. `MaxTime` stops the clock where every window has opened and closed; the
times (1 each) are the smallest that keep the windows apart.
The soft shutdown is in `reporting` only, and `reporting` has no verification: what a shutdown does
to claims is not checked, and of the deadlines for uploads to a verification `SilenceHasUntilDeadline` is
proved (`SilenceIsNotHeldEarly`) and not checked.

| Run | Specification | Shows |
|---|---|---|
| `reporting` | `Spec`, 2 workers, crashes, soft shutdown | the rows are clean although `receive/` saves old copies; nobody's deadline is cut short |
| `acceptance_and_verification` | `RaceFreeSpec`, 2 workers, crashes | the table implements `SubtaskLifecycle`; one verdict; claims backed, paid once, not charged to the requestor whose rejection was confirmed; responses can be built |
| `liveness` | `FairSpec`, 1 worker | deadlines are processed, mail is delivered, settled results are paid for |
| `paid_twice` | `Spec` | violation: two `receive/` requests pay one claim twice |
| `bankster` | `OrderlySpec` of `Bankster`, 2 workers, aborts | types; payments are covered by the deposit; claims live as `ClaimLifecycle` says; verification is paid in full; a provider is not overpaid; database and blockchain agree on settlements |
| `settled_twice` | `Spec` of `Bankster` | violation: two requests for the same settlement are both paid |
| `conductor` | `FairSpec` of `Conductor`, 2 processes, rollbacks, lost callbacks | a request is finished exactly when both files are in; the core is told and a subtask is verified at most once; finished uploads are not forgotten |
| `signing_path` | `Spec` of `SigningPath`, 2 callers, 3 links | `sci_callback` keeps its promise (`Signing`); a transaction is signed at most as often as it was sent; a connection is answered once; the service is never locked out |
| `daily_limit` | `Spec` of `SigningService` | violation: two transactions over one connection exceed the limit |
| `parts` | `SerialSpec` of `TransactionStorage`, 2 processes, crashes, refusals | every transaction has its own nonce, none is missing |
| | `FairSearchSpec` of `BlockSearch` | the block found is what the docstring says; the search ends |
| | `FairSpec` of `SigningService` | the last transactions of all connections of a day stay within the limit together, over reconnections, restarts, lost responses and midnight; the service connects or gives up |
| | `FramingSpec`, 3 frames | frames come in order; a whole frame arrives after anything that ended |
| `file_transfer` | `FairVerifierSpec` of `Verifier` | uploads are not refused while the core waits; administrators wait for downloads; matches and mismatches are deserved; nobody fails without a verdict; the verifier implements `VerificationOrder` and ends |
| `blamed` | `VerifierSpec` | violation: a provider is blamed for a page that the storage sent to the verifier |

`RaceFreeSpec` restricts `Spec` to the behaviours in which no row changes while a
`receive/` request holds a copy of it. That is what the lock in
`update_all_timed_out_subtasks_of_a_client` would give if it were evaluated. `paid_twice`
shows what happens without it, and so would `ImplementsLifecycle`, since a copy that is
saved may undo an answer; everything else is checked under
it, so that one defect does not hide others.

The instance of `Bankster` has two subtasks of one pair of clients, with prices 1 and 3
against a deposit of 2, and a verification cost of 2 against a deposit of 3: claims and
settlements compete, are lowered and are given up. Both verifications are claimed, both
acceptances become overdue, one after the other, alone or together, and one subtask may
be paid by the requestor itself. The clock stops when the last acceptance is overdue. With
`ConfirmationTime` 1 a payment is unseen at the instant of its block and seen at the next one, so
settlements meet transfers and events on both sides of the limit.
`FORCED_ACCEPTANCE` differs from a verification only by making one claim instead of two.
The two workers are interchangeable, so symmetry is used; all properties are safety
properties.

`OrderlySpec` leaves out what four races do, each of them in a row of the hazards: a claim
that is confirmed and discarded between the question for the deposit and the sum of the
claims (`DepositsAreFresh`), a claim that comes or goes within `claim_deposit`
(`LocksAreTaken`), a settlement that is sent while another one of the pair is, or
that is sent without its hash being saved (`SettlementsAreSaved`), and a settlement that crosses
a transfer which is too young to be seen (`TransfersAreShown`). `settled_twice` shows the third
one. The last one has two sides. A transfer made once the settlement is in the table is paid
twice whatever Bankster does, since nobody asks the requestor to wait for the chain. A transfer
made before, and not yet deep enough, is what `get_list_of_payments` does not return: TLC finds
the overpayment in six states when the condition is dropped. No document says how early a
requestor must pay; `TimelyTransfersAreShown` below says how early is enough.
`ImplementsClaims` needs none of this: the theorem below is about `Spec`.

Even so a claim does not always keep its amount. From the confirmation of a payment to
`discard_claim` its amount counts twice in `claim_deposit` and `finalize_payment`: it has
left the deposit, and it is still subtracted as a claim. A second claim against the same
deposit is then lowered, though the deposit would cover it. The instance of the run has
too small a deposit to see it; the attempt to prove `ProviderPaysInFull` did not get past it, and
TLC shows it with a deposit of 5. No comment or test promises otherwise, so the property says where it
happens: `StillCounted` is such a claim. `OnlyProvider` leaves out a provider who is also a
requestor, since settlements take no account of the claims for verifications.

The run `parts` checks four parts that have nothing in common: the first state says which of
them moves, and the others stand still. So its states are the sum of theirs and not the product,
and a property says of the others only that they hold at the start.

The instance of `TransactionStorage` has three transactions, enough for one to be
confirmed, one to be taken back and one that gets the nonce again, and a table that is
missing, behind the network or equal to it at the start. `SerialSpec` leaves out the races
on the row: what a process has read of it (that there is none, that it is behind, which
nonce is next, that its own transaction is the last) still holds when it writes. Each of
the four is a row of the hazards; without the assumption none of the properties about nonces
holds (two processes that sign at the same time are enough).

The instance of `BlockSearch` has chains of one to five blocks with all increasing
timestamps up to 6, so that every shape of the range (one block, odd and even, all blocks
earlier, all later, equal timestamps) occurs, and blocks are added at any time. Its fairness
is that the loop goes on; nothing is assumed of the chain.

The instance of `Conductor` has one subtask, since nothing in the code relates two, its two
files with up to two reports each, and two processes: a report and a request, two reports of
different files, two reports of one file, and a request and a transfer all run at the same
time. Its fairness: a process that has committed runs its callbacks, a Celery worker takes
the orders, and a stage of the verifier ends; what a stage finds is left open.

The instance of `SigningPath` has two calls, one of which may try again, so that an old attempt, a
new one and a stranger meet in the queues, and three links, so that a served link, a candidate
and a late one do. Ids are small enough to be reused by every link. `MaxFailures` is 0: a
service that gives up and is started again is, for MiddleMan, one that reconnects; the counting
is the matter of `SigningService`. Calls are not interchangeable, and links are numbered, so
there is no symmetry. Nothing is fair here: a call ends by its timeout, and the code promises
nothing else.

The instance of `SigningService` has values 1 and 2 against a limit of 3, so that the limit is
reached exactly, missed and exceeded, three days, and two failures before the service gives
up. Its fairness is that the loop of `run` goes on until there is a connection, which the
timeouts of `connect` and of the challenge give; that a connection ends is not assumed.

The instance of `Framing` has three frames, so that one that was cut or is too long stands between
two others, and five bodies: with both escaped characters, with parts of escape sequences, and with
escaped lengths on both sides of the limit of 4. A frame that is too long ends MiddleMan's reader, so
what comes after one is owed by the clients' reader only.

The instance of `FileTransfer` and `Verifier` has all times at 1 (the multiplier 2), with which the
windows are one after the other and none is empty, and a clock that stops at 16: behind the last
deadline of a rejection that is made when the acceptance is forced last. Two frames let one image be
right and the next one not. `MCDeliveries` has every kind of archive, and each way in which an
earlier order can get in the way. Its fairness: time passes, the process goes on, and Blender is
stopped when its time is up; that Blender ends by itself is not assumed. A download ends, which is an
assumption about the storage: the verifier sets no timeout for it. `OrderEnds` is about orders whose
deadline comes before the clock stops.

The types of most modules are proved (`VerifierTypeOK`, `ControlCluster`'s `TypeOK`, ...) and not
checked by a run of their own; the same goes for `DownloadHasTime`, `AcceptanceFollowsDownload` and
`VerifierAndCoreAgree`, which the theorems give for all settings.

Fairness. A worker goes on with the request it has (a process that is scheduled), the
clock advances, and each client comes back to `receive/` again and again: strong
fairness, because a client cannot know when a worker is free, and because nothing but
clients' requests makes Concent look at deadlines. Nothing is assumed of new messages,
Celery calls or the blockchain. The liveness run has no crashes: a crash loses
callbacks for good, and the hazards list says so.

Each property has a mutant in PROJECT.json: a plausible mistake in the code, written
next to the definition it replaces, under which TLC finds the property violated.

## The proofs

`ControlCluster_proofs` holds for every set of subtasks, clients, workers and size
classes, and all settings, under `PackageAssumption` and `ControlAssumption` (the types
of the constants, and that nobody is both requestor and provider of one subtask).

* `TypeCorrectness`: `Spec => []TypeOK`.
* `TableIsClean`: `Spec => []SavedRowsAreClean`, with no assumption about races.
* `TableRefinesLifecycle`: `RaceFreeSpec => ImplementsLifecycle`.
* `VerdictsAreFinal`: under `RaceFreeSpec` no subtask leaves ACCEPTED or FAILED.
* `ClaimsArePaidOnce`, `WaitingHasClaims`, `CoreKeepsToClaims`: under `RaceFreeSpec` a claim is
  paid at most once, every state whose end may pay has its claims, and the claims live as
  `ClaimLifecycle` says.
* `VerdictsAreGivenOnce`, `RejectionIsFree`: under `RaceFreeSpec` each client gets one verdict at
  most, and a requestor who was told of a rejection is not charged for the verification.
* `ResponsesCanBeBuilt`, `SilenceIsNotHeldEarly`: under `RaceFreeSpec` every response in a mailbox
  can be built from the subtask as it is now, and no timeout comes before its deadline.

The invariant behind the first two is `IndInv`. `SavedRowsAreClean` is not inductive: a
timeout saves the copy a `receive/` request read some time ago, so the copies must be
clean too (`CopiesAreClean`), and what a handler saves can only be typed if the worker is
serving a message (`JobOK`). A copy stays clean because it never changes until it is
saved; a timeout keeps a clean row clean because of how the timeout's target state and
the table of forbidden messages fit together (`TimedOutRow`). There is one lemma per
action or group of alike actions.

For the refinement the invariant is extended with `SafeCopies` (a copy still equals the
row), which is what `RaceFreeSpec` provides. A save by a handler follows the rule because
`clean()` checked it against a state that is then the table's own; for an object that was
not in the table `clean()` checks no transition, and it is the handler's own guard that
gives it (`HandlerMoves`).

The claims and the verdicts need the one further idea that payments and verdicts only come from
the step that takes a subtask to ACCEPTED or FAILED, which happens once (`FinalStays`, from the
refinement). So a callback that is to pay says that its subtask is final and its claim unpaid
(`PaymentsAreDue`), no two callbacks pay one claim (`OnePayer`), and a claim that was paid or has
a hash is of a final subtask (`PaidIsFinal`). Conversely the claims of a subtask that is not
final can only be made, never go, so they are still there between the transaction that makes
them and the one that saves the row (`StoringIsBacked`) and for as long as it waits
(`WaitingIsBacked`). `VerdictInv` says the same of letters: a verdict is of a final subtask, there
is one for each client, and after a rejection no callback charges the requestor. Every action
but three is `Quiet` (it moves callbacks, claims and letters only in ways that keep all this) or
ends one subtask (`Ends`); the three that make, read and pay claims have a lemma of their own.
`PaidTwice.cfg` shows that without the condition of `RaceFreeSpec` the first of these fails.

That responses can be built needs to know only how a row changes (`Grows`): a related message that
was stored stays, and a subtask whose results were accepted gets no rejection, nor the other way
round (`Sound`). Then a response that could be built when it was posted can be built ever after
(`DeliverableStays`), whatever the handlers, the timeouts and the tasks did in between. For
`SilenceHasUntilDeadline` the point is that an answer leaves a message that was not there before,
which `clean()` and `MayRespond` make sure of (`AnswerInTime`); the other ways to the same state
are timeouts, which have looked at the clock.

`Bankster_proofs` holds for all sets of subtasks, accounts and workers and all amounts,
under `BanksterAssumption` (the types of the constants, positive prices, and that the
provider is charged exactly when the verification costs something).

* `ClaimsAreImplemented`: `Spec => ImplementsClaims`, with all races and aborts.
* `TypesAreKept`: `Spec => []TypeOK`, so no amount, claimed, sent or left, is ever negative.

The invariant of the first is `Inv`: a claim that a worker is paying is in the table and has no hash
(`FinalizedIsOpen`), no two workers pay one claim (`OneFinalizer`), and `Shape`, which is as
much of the types as is needed. `ClaimedIsOffered` says that a worker in `claim_deposit` has
a subtask and a use case. A step of the environment or of a settlement changes no claim
(`QuietStep`, `EnvironmentStep`); every other action changes one claim (`OneClaimChanges`),
or makes the claims of one use case. The sums of amounts decide only whether a claim is
paid or given up, so nothing has to be known about them. That a claim is finalised by one
caller is assumed in `AskForPayersDeposit`, as the docstring of `finalize_payment` does; it
is the core's `PaidAtMostOnce`.

`Deposits_proofs` holds under the same assumption, for `OrderlySpec`: these properties are false
with the races, and the conditions of `OrderlySpec` are what takes the races away.

* `DepositsCoverWhatIsSent`: `OrderlySpec => []SentIsCovered`.
* `SettlementsAreMatched`: `OrderlySpec => []SettlementsMatchChain`.
* `ProvidersAreNotOverpaid`: `OrderlySpec => []ProviderIsNotOverpaid`.
* `ProvidersPayInFull`: `OrderlySpec => ProviderPaysInFull`.
* `TimelyTransfersAreShown`: `Spec => [](TransfersAreTimely => TransfersAreShown)`, with all races.

`CoverInv` says that a deposit covers all that is decided against it and not confirmed: the
claims and settlements between the decision and the confirmation, in whichever hands
(`Committed`). A decision adds an amount that was bounded by what is left of the deposit after
the other claims and unconfirmed settlements (`LockClaimCover`, `LockSettlementCover`), and a
confirmation takes the same amount from both sides. This is why the chain never lowers an amount,
and so a confirmed settlement has moved what its row says. `Ledger` keeps the tables and the chain
in step: each transaction has a row, with its amount.

For `ProviderIsNotOverpaid` the bound at the accepted instants is not inductive. A settlement
covers acceptances from the first overdue one on (`T0`) and subtracts what the chain and the table
show since then; what was settled for earlier acceptances is not looked at, so it must already
have been within the price of those. `OverInv` therefore bounds what is decided up to *every*
instant. What the decision finds since `T0` is all that was decided since `T0`, because nobody
else is settling for the pair and every transaction has its hash saved (`DecidedIsPaid`): here
`SettlementsAreSaved` is used. A settlement that is not deep enough is found in the table. A
transfer that is not deep enough is not found at all, and `TransfersAreShown` is used: after the
decision a settlement of the pair closes at the last acceptance, so every transfer for a result up
to it is shown (`TransfersArePaid`); one for a later result is not counted up to that instant,
and for later instants there is room for the price of that result (`RoomForLater`).

That last condition is one about the requestor. `TransfersAreTimely` says that a transfer is deep
enough `PaymentDueTime` after the acceptance it pays for. A settlement closes only at acceptances
that were overdue by then when it was asked for (`SettledIsDue`), so it sees all transfers that it
might cross, and `ProvidersAreNotOverpaid` assumes nothing about requestors who pay in time.

For `ProviderPaysInFull` the invariant (`ProviderInv`) is that the claims against a provider are
covered by the deposit together with what claims still in the table took out of it (`Room`), that
a claim about to be inserted fits in too, and that the answer for the deposit that a worker
holds is not less than the deposit (`FundsAreOld`).

`Sums` has what these proofs say about amounts: how a sum over a finite set changes with an
element, a union, a subset, another function. `SumFunctionOnSet` is a fold, and the library's induction
theorems take an operator, which the provers cannot instantiate. So `SetInduction` states
induction over finite sets for a property given as a *set* of sets, from the well-foundedness of
the proper subset ordering, and `SumIsTheSum`, `SumExists` and `SumUnique` tie the fold to it.

The theorems about `TransactionStorage`, `BlockSearch`, `SigningService` and `Framing` are in
`Parts_proofs`.

About `TransactionStorage`, they hold for any processes and bounds: `NoncesAreUsedOnce`,
`NoNonceIsMissing`, `StartsDoNotReuseNonces` and `StorageTypeCorrect` of `SerialSpec`. The properties are not
inductive; `StorageInv` adds where the transaction of each process is (`StepInv`: one to be
sent is in the table or was sent, one to be taken back is in the table and was not sent),
that no two processes have the same one (`TransactionsDiffer`), that the counter is not
behind the network once a process is ready, and that what is mined was sent
(`MinedIsSent`), so that taking back the last transaction never lowers the counter below
what is mined. There is one lemma for each action that changes the tables and one for
those that do not (`QuietStorageStep`).

About `BlockSearch`, for chains of every length: `FoundBlockIsFirst`, from the loop
invariant `RangeHoldsTheBlock` (no block up to `lowest` is later, and `highest` is, unless it
was never looked at) and `ChainIsSorted`.

`Conductor_proofs` holds for any subtasks, processes and numbers of reports, with all races
and losses: `FilesAreComplete`, `TypesAreKept` and `VerificationsHappenOnce`. `report_upload` decides whether its report
is the last one expected before it commits, so `FilesInv` says that what it has found still
holds (`StepOK`): the request exists, and the other file is linked and its own is not. This is
so because the lock of the request has one holder (`OneHolder`), and because no report is
linked with a request that does not exist yet (`Unrequested`). `CommitReportKeepsFiles` and
`CommitRequestKeepsFiles` are the two steps that matter; the rest change neither requests nor
reports (`StepKeepsFiles`).
For `VerifiedOnce`, `OnceInv` says that a request is finished at most once, in the transaction
that registers the call to the core, because the lock of the request is held until then; and
that the call, and after it the order of the verification, is in one place at a time (with one
process, queued, with the verifier or done), so that no second one can come of it.

`SigningPath_proofs` holds for any calls, attempts, links and numbers of failures, with every loss
and restart: `SigningIsImplemented` (`Spec => ImplementsSigning`), `NobodyIsLockedOut`,
`PathIsAlwaysTyped`, `NoConnectionIsAnsweredTwice` and `SignedNoMoreThanSent`. The promise does not rest on MiddleMan's bookkeeping, which goes wrong, but on
what the payloads say: `PathInv` says that every connection, request and frame is of a call that
was begun, and every response anywhere, whomever it reaches, is true (`IsTrue`: it says that a
transaction was signed only when it was). Both sets only grow (`SetsGrow`), so what is under way
stays true; then `IsExpected`, which compares the data, is all that is needed. `ActiveIsServed`
is inductive with the types: only `Admit` sets the flag, and only `Finally`, which clears it,
takes a link out of service (`OneLinkChanges`).

A connection is answered once because it waits in one place at a time. The places are a queue, a
tracker and queues of responses, in which the same response may be twice; `OnceInv` counts the
positions (`WaitsOnce`): before its frame is read a connection waits nowhere, and afterwards it
moves from one position to the next or drops out. A transaction is signed no more often than it
was sent because of `ChanceInv`: what was signed, the frames on their way down, the requests in
the queue and the connections whose frame is not read yet (`Chances`) are together never more than
the attempts. A step that passes a request on moves it from one of these to the next, and nothing
that fails makes a second one of it.

About `SigningService`, for all values, limits, days and numbers of failures:
`LatestTransactionsAreLimited` and `ServiceIsTyped` of `Spec`, with any number of transactions on a
connection, torn files and midnight. `LimitInv` adds (`CountInv`) that today's file is not below the
last transactions of today's connections, that the sum in memory is not below those of the earlier
connections, and that nothing was signed on a later day.

`Verifier_proofs` holds for all settings under `TimesAssumption`, all sizes, numbers of frames and
deliveries. About `FileTransfer`: `UploadsAreAccepted`, `ShutdownIsLater`, `DownloadsHaveTime`,
`AcceptanceWaits` and `OneDeadline`. `TransferInv` says in which range each deadline is
(`DeadlinesInv`), that tokens are those the core makes, with the lifetimes it gives them
(`TokensInv`), and that no token to download is given out before the result is there
(`DownloadInv`); the rest is how the instants follow each other (`Instants`, `FilesInstants`), which
is where the constants matter: the token for an upload is valid until the very deadline that the
handlers compute in another file.

About `Verifier`: `VerifierIsTyped`, `MatchesAreDeserved`, `MismatchesAreDeserved`,
`FailuresAreVerdicts` and `OrderIsImplemented`. `ArchiveInv` says what each stage knows of the
archives, and `FileInv` what the files hold then: after the names were looked for, a file of an
earlier order is one of this order's names only if it is in a directory, and it is still there only
if it is beyond what is unpacked too (`NoRelic`). Then a comparison that finds all images alike has
seen the provider's own (`CompareKeeps`).

About `Framing`, for any bodies of bytes, any limit and any number of frames: `FramesStayInOrder`,
`EveryWholeFrameArrives` and `StreamTypesAreKept` of `FramingSpec`, and `DecodeUndoesEncode`, a
theorem about the operators alone. These are folds over sequences; `SeqSetInduction` is induction
over sequences for a property given as a set of sequences, as in `Sums`. Escaping goes on byte by byte
(`EncodeAppend`), so one induction shows that the raw bytes come back: what precedes a byte never ends
in the middle of an escape sequence, and so neither of the two replacements reaches across it
(`ReplacePairConcat`, `HalfDecoded`). Others show that no separator is left in an escaped
frame (`EncodeHasNoSeparator`) and that 0 or 1 follows every escape character in it (`EncodeGuarded`),
so that it is not taken for broken (`EncodedIsNotBroken`).

The order is inductive in terms of the bytes. Each frame has its number on the wire once
(`NumberIsOnce`), data that is accepted as a frame has that frame's number in it (`HeldNumber`), and
`OrderInv` says that the numbers that are accepted, gathered and still in the stream grow in this
order; cutting frames and joining what is left cannot change that. For the other property
`WholeInv` says where a frame that must arrive is: it was accepted, or what is gathered and then the
stream begin with it, or it follows a separator in the stream; and after a whole frame the stream
ends with a separator, which makes the last of these true of the next one. The last two are
impossible when nothing is left to read. A frame that is being gathered is never cut at the limit,
because its separator is still to come (`ReceiveByteKeepsWhole`).

What remains with TLC is the liveness properties: the provers handle neither fairness nor ENABLED.

## Not modelled, and why

* Django settings other than the times, the system checks of them, logging, admin pages other than
  the time until shutdown, middleware, the command line tool, the end-to-end scripts: no state of
  the protocol.
* Blender, OpenCV, scikit-image and nginx: external, taken by what `verifier` and the configuration
  make of their results.
* Two verifier processes in one directory: the code takes no lock and makes no directory of its own
  for an order, so it relies on having `VERIFIER_STORAGE_PATH` for itself, and so does the model.
* The error responses of MiddleMan and of the signing service to invalid frames, and the e-mails
  of the latter: neither Concent nor MiddleMan sends such frames.
* Message validation and signatures other than those of tokens: they decide whether a message is
  considered at all.

## The plan

1. Done: `SubtaskModel`, `SubtaskLifecycle`, `ControlCluster` and their proofs.
2. Done: `ClaimModel`, `ClaimLifecycle`, `Bankster` and the proof that the claims live as the
   core expects.
3. Done: `TransactionStorage` and `BlockSearch` with their proofs.
4. Done: `Conductor` with the verifier, and the proof that its requests are complete.
5. Done: `SigningPath` with `MiddleMan`, and `SigningService`, with their proofs.
6. Done: `Framing`; `TransferTimes`, `Gatekeeper`, `FileTransfer` and `Verifier`, with the proofs
   about the last two.
7. Done: the proofs about claims, verdicts, responses and deadlines in the core.
8. Done: the amounts of Bankster, and how often a transaction is signed and a connection answered.
9. Done: the frames.
10. Left: the hazards of `PROJECT.json` that no property covers, each with its reason there; the
    first is what becomes of a claim whose transaction in the core fails.
