# Verification of SyncPilot

TLA+ models of SyncPilot's core logic, the TLC configurations that check them on
small instances, and TLAPS proofs of what matters most. SyncPilot reads a user's
Gmail inbox, lets a language model triage each email (ignore, summarise to
Signal, archive, snooze, draft a reply), and mails a drafted reply only after the
user has confirmed it by answering a Signal message that carries a four-character
ref code.

Paths below are relative to `src/`. The map from every definition to the lines it
models is in `PROJECT.json`, as are the hazards with the properties that guard
them and the mutants under which each property fails.

## 1. The system: parts, state, operations, interaction

| Component | State | Operations |
|---|---|---|
| **Reply handling** `web/features/signal/handle-reply.ts`, `parse-reply.ts`, `web/db/queries/pending-actions.ts` | rows of `pending_actions` (`pending`, `confirmed`, `discarded`, `expired`; ref code; payload with the Gmail draft id), `processed_emails.gmail_draft_id`, `agent_feedback`, the Gmail drafts | parse a reply; send (claim, send, release); discard (claim, delete, feedback); revise (rewrite, delete, create, two table writes); expire rows older than 24 h |
| **Signal inbox poll** `web/app/api/cron/poll-signal-replies/route.ts`, `web/db/queries/inbound-signal.ts` | signal-cli's queue, rows of `inbound_signal_messages`, attempts | drain the queue, store, process oldest first, count attempts, give up after `MAX_PROCESS_ATTEMPTS` |
| **Signal link and routing** `web/features/signal/signal.ts`, `receive.ts`, `routing.ts`, `web/db/queries/integrations.ts`, `web/components/settings/settings-actions.ts` | the two numbers of each user | save and drop numbers, send to them, read envelopes, group integrations by sender, match replies by recipient |
| **Signal QR dialog** `web/components/dashboard/signal-qr-modal.tsx`, `web/app/api/signal/qr` | dialog, requests, object URLs | open, close, load the code |
| **Draft creation** `web/features/agent/tools/draft-reply.ts`, ref codes in `pending-actions.ts` | `pending_actions`, Gmail | check for a pending draft, create it, choose a free ref code, insert the row |
| **Agent run and triage** `web/features/agent/*`, `web/db/queries/processed-emails.ts` | rows of `processed_emails`, `gmail_accounts.last_run_timestamp` | resurface due snoozed emails, fetch the window, drop handled ones, claim, one model turn with tools, record, advance the window |
| **Labels** `web/features/gmail/gmail-labels.ts`, `gmail-actions.ts` | Gmail's labels, a process-wide cache of ids | look up, create, remember, put on |
| **Gmail accounts** `web/app/api/auth/composio/*`, `web/lib/composio.ts`, `integrations.ts` | connections at Composio, rows of `integrations` | connect (OAuth and callback), switch, remove |
| **Gmail calls** `web/lib/composio.ts`, `web/lib/retry.ts` | calls in flight | 30 s timeout, retries of reads; a timed-out call is not cancelled |
| **Sync queue and worker** `server/*`, `web/db/queries/sync-jobs.ts`, `web/app/api/internal/sync-jobs`, `web/app/api/cron/fetch-emails`, `web/app/api/agent/run-job` | BullMQ jobs, rows of `sync_jobs` | collect jobs each tick, enqueue or run inline, take, end, retry, report by HTTP |
| **Billing** `web/app/api/webhooks/razorpay/route.ts`, `web/app/api/billing/subscribe`, `webhook-events.ts`, `subscriptions.ts` | `processed_webhook_events`, `subscriptions`, `users.plan` | check out; webhook: claim the event id, update the subscription, set the plan |
| **User identity** `web/db/queries/users.ts`, `web/auth.ts` | `users` | find, insert, find again at sign-in; upsert at checkout |
| **Agent console** `web/components/dashboard/agent-console`, `web/app/api/agent/run`, `web/features/agent/result-parser.ts` | form, requests, list of answers | submit, model call, parse, repair, fall back, show |
| **Run records** `web/db/queries/agent-runs.ts`, `agent-decisions.ts`, `user-usage.ts`, `web/components/agent` | `agent_decisions`, `user_usage`, the page a reader is on | save a run, its decisions and its usage; read decisions in pages |
| **AI, pages, configuration, logging, encryption** | – | section 9 |

**How they interact.** An external scheduler calls two cron routes. One collects a
sync job per account that is on; the worker takes a job and calls the agent-run
route, whose triage writes `processed_emails`, Gmail drafts and `pending_actions`,
puts labels on and sends Signal messages, and ends by writing records. The other
polls Signal replies: it drains signal-cli, stores what it drained, and calls
`handleSignalReply` for each stored message, which changes the same
`pending_actions`, drafts and `processed_emails`. The `fetch-emails` tick also expires
old `pending_actions`. The web app writes users, numbers, accounts and subscriptions
while all of that runs, Razorpay calls the webhook, and the two servers report about
jobs to each other. All coordination is by single SQL statements; there are no
transactions around the sequences of awaits and no lock between invocations.

**What is hard.** Ticks do not wait for one another, so polls and runs overlap and
every `await` is a point where another invocation, the expiry or a late Gmail call may
step in. Invocations are killed at `maxDuration`. A Gmail call that "timed out" may
still happen. signal-cli's queue is emptied by reading it, and a message may be
handed out twice. Webhooks and job reports are duplicated, late, out of order or lost.
Rows are read, and written back after several awaits.

**What makes each component correct.**

- *Reply handling*: a draft is mailed at most once; a row that was or may have been
  mailed is never handed back; what the user is told became of a draft is true; an
  email never has two drafts in Gmail; both tables name the same draft; a confirmed
  send ends in a mail, a hand-back, or an attempt to warn the user.
- *Inbox poll*: a reply whose effect is on record is not handled again, and none is given
  up before its last attempt; first tries are in order; every stored reply is settled.
- *Signal link*: nothing goes by the numbers of another user, or by an account and a phone
  saved at different times; a poll that saves keeps every reply it can read from the
  phone of a user it polls.
- *QR dialog*: it shows what became of its newest request only.
- *Draft creation*: one awaiting row per email, one per ref code.
- *Triage*: an email is claimed once per arrival or snooze; a snoozed email stays put
  until its time and then returns; no email of a window goes unreported.
- *Labels, Gmail accounts*: an account's address is that of its mailbox; connecting saves
  the connection that was made; overlapping calls do not mix label names up.
- *Sync queue*: a row never says of a job what has not happened and catches up when its
  reports do; every job ends.
- *Billing, identity*: a plan is changed by an event only, once, and for the buyer; both
  tables follow the provider; one user per address.
- *Console, records*: a plain object the model wrote is always readable; no answer is lost
  from the list; no decision is passed over; usage adds up.

## 2. Modules

| Module | What it is |
|---|---|
| `DraftStore` | What reply handlers share: rows of `pending_actions`, the Gmail drafts they name, the SQL statements as operators, and how an awaited Gmail call can end (`Succeeds`, `Fails`, `TimesOut`), with `LateCall` for calls nobody waits for any more |
| `DraftApproval` | Each invocation of `handleSignalReply` as a process, one action per await |
| `DraftDecision` | Abstract specification: each draft is decided once |
| `SignalInbox` | Overlapping polls of one sender number; `handleSignalReply` seen from outside |
| `SignalLink` | The users' numbers, sending, the shapes of envelopes, routing |
| `SignalQr` | The dialog that links a phone |
| `DraftQueue` | Drafting runs of one user, ref codes, and replies as far as they change what is pending |
| `EmailTriage` | Overlapping agent runs on one account, with clock, window, snoozes and tools |
| `UserAccounts` | The users table and sign-in |
| `Billing` | EXTENDS `UserAccounts`: checkout, Razorpay, webhook |
| `Entitlement` | Abstract specification: what may change a plan |
| `SyncQueue` | Cron, queue, worker, reports, `sync_jobs` |
| `GmailAccounts` | The OAuth flow and the settings page |
| `GmailLabels` | EXTENDS `GmailAccounts`: labels and their cache |
| `ResultParser` | Pure: what the console makes of a model's answer |
| `AgentConsole` | EXTENDS `ResultParser`: form, requests, answers |
| `AgentRecords` | What runs leave, and the reader of the decision list |
| `Dashboard` | EXTENDS `AgentConsole`, `AgentRecords`: the two side by side |
| `MC*` | Small instances for TLC |
| `*Proofs` | TLAPS proofs about the module they are named after; `SignalProofs` is about `SignalLink`, `SignalQr` and `DraftQueue`, `GmailLabelsProofs` about `GmailAccounts` too, `DashboardProofs` about `ResultParser`, `AgentConsole` and `AgentRecords` |

Three MC modules put independent components into one run: `MCSignalLink` (link, dialog,
drafts), `MCDashboard` (console, records) and `MCGmailLabels` (accounts; then labels,
from every state in which each mailbox is connected). A variable `part`, chosen at the
start and never changed, says which of them the behaviour is of, so the state spaces add
up instead of multiplying. The parts of the first two share no state. The labels part
reads which accounts are on, and starts from any accounts that are.

### How state and actions correspond to the code

*DraftStore / DraftApproval.* `status`, `refCode`, `payload`, `aged` are the columns of
`pending_actions`; `drafted` is `processed_emails.gmail_draft_id`; `gmail`, `owner`,
`delivered` are the mailbox; `late` holds Gmail calls whose caller has gone. A handler's
record is what the invocation has read. `Receive` is `parseReply`; `ClaimSend`, `Send`,
`Release` are `confirmDraftSend` and `handleSendFailure`; `ClaimDiscard`,
`DiscardDelete`, `LogDiscardFeedback` are `discardDraft`; `Rewrite`, `ReviseDelete`,
`Create`, `MarkEmailDrafted`, `UpdatePayload` are `reviseDraft`; `Notify` the message to
the user, which may fail to be delivered ("unheard"), and nobody looks; `Abort` a kill or
a database call that throws. A draft id stands for its body.

*SignalInbox.* `queue` is signal-cli's, `row` the table, `waiting` the users with a
pending action. A poll goes `Start` (integrations read), `Drain`, `Persist`, `Load`, then
`Process` with `MarkProcessed`, `MarkFailed`, `NotifyGaveUp` per message, and `Finish`.
`MarkProcessed` is in the handler's `try`: where it throws, the attempt failed, though the
reply took effect. `seen` is the attempt count read by `Load`, from which `MarkFailed`
counts on. A message without a timestamp that is handed out again is stored under another
(`route.ts:155`): it counts as another message. `effect` (whether a reply took effect, and
whether that is on record), `failures`, `gaveUp` and `overlap` are history.

*SignalLink.* `link` is `signal_integrations`. `ResolveNumbers` and `Post` are the two
halves of `dispatchSignalMessage`. `StartPoll` reads the integrations of users with a
draft pending and groups them; each group goes `DrainSender`, `StoreReplies` or
`SaveFails`. `From` is `toInboundMessage`'s choice of the writer, which for a text of the
account's own phone without a number ("blind") is the phone it was sent to, `Messages` what `extractMessages` keeps of an
answer, `Owners` the match by recipient. `saved` is history: every pair ever saved.

*SignalQr.* `newest` is `requestIdRef`, `shown` the request whose code is in
`qrObjectUrl`, `urls` the object URLs not revoked. `OpenModal` is `openModal` with
`loadQrCode` up to its await, `Served` and `ShowQr` the rest of it.

*DraftQueue.* A drafting run goes `BeginDraft` (the look-up of a pending draft),
`CreateDraft` (and `markEmailDrafted`), `PickCode`, `Insert`. `Answer` is the claim of a
send or discard, `Release` the hand-back, `Expire` the cron's. `exposed` and `redrafted`
record the windows in which the code can make two of something.

*EmailTriage.* `entry` and `until` are the row of `processed_emails`, `lastRun` the
account's timestamp. A run goes `Resolve`, `ReadDue`, `Resurface`, `FetchWindow`,
`DropHandled`, then per email `Claim`, `RunTriageModel`, `UseTool`, `EndTurn`,
`RecordHandled`, and `Finish`, `PersistLastRun`. The model's choice of tools is open, and
it may call several in its one turn, which run side by side. The first decision recorded
decides whether `RecordHandled` writes the row. `RecordHandled` and `PersistLastRun` log a
write that fails and go on. `claims`, `snoozes`, `told`, `spared` (what was snoozed when a
run started) and `slipped` (`last_run_timestamp` was not written, or moved back) are
history.

*UserAccounts / Billing.* A tab holds a session. `FindUser`, `InsertUser`, `FindAgain`
are the awaits of `resolveUserIdByEmail`; `CreateSubscription`, `UpsertBuyer`,
`SaveSubscription` those of the checkout; `Happen` is Razorpay; `ClaimEvent`,
`UpdateSubscription`, `SetUserPlan` the webhook's. `unanswered` is what Razorpay sends
again. `finished`, `spent`, `orderly` and `raced` are history.

*SyncQueue.* `job` is BullMQ's record (`made` is `attemptsMade`), `row` is `sync_jobs`.
`CollectSyncJobs`, `Enqueue`, `ReportEnqueued`, `RunInline` are the cron and the intake
server in their two modes; `Take`, `RunEnds`, `TimeOut` the worker; `Requeue`, `Stalled`
and `StalledOut` BullMQ: a job found stalled waits again once, and the second time is over
without its attempt being counted (`maxStalledCount` is left at its default of 1);
`Close`, `Exit`, `Kill`, `Restart` the container. A report is in `reports` until it
arrives (any of them may arrive next) or is lost.

*GmailAccounts / GmailLabels.* Connections are numbered in the order they were begun,
which is the order `getLatestGmailConnection` sorts by. A tab goes `Initiate`,
`Authorise` or `Decline`, then the callback's `ListConnections`, `ResolveAddress`,
`SaveGmailAccount`. `Toggle` and `Remove` are the buttons of the settings page. A label
call goes `ApplyLabel` (cache), `FindLabel`, `CreateLabel`, `ModifyLabels`. `source` is
history: the mailbox a cached id was read from.

*ResultParser / AgentConsole.* A text is a sequence of pieces (prose, fences, braces of the
prose, an object, an object with fences in its strings, other JSON) and the reply its
object is; `ExtractJsonObject` cuts it as `extractJsonObject` does, between the first two
fences or from the first brace to the last, and `IsJson` says whether `JSON.parse` takes
what was cut. A reply is what the parser tells apart of an object: for each enumeration
the word it finds, for each list the number of usable items, the confidence. `Normalized`
is `normalizeAgentResult`, `Result` the schema, `Readable` the whole of
`tryParseAgentResult`. A request goes `Submit`, `Complete`, `ParseText`, perhaps
`Repair`, `Show`, or `RunFails` at an await.

*AgentRecords.* A run goes `Processed`, `SaveRun`, `SaveDecisions`, `SaveUsage`; each
write may fail and is then passed over, as in `run-agent.ts`. `PagesOf` gives every page
the query may return under `ORDER BY created_at DESC, id DESC`. `OpenPage` counts,
`FetchPage` reads: two queries with runs in between.

## 3. Runs

Twelve runs; ten pass and two refute statements of the repository.

| Run (module) | Checks | On |
|---|---|---|
| `approval_safety` (`MCDraftApproval`) | `TypeOK`, `AtMostOneMail`, `MailedStaysConfirmed`, `OneSendAtATime`, `OutcomesAreTrue`, `ImplementsDecision` | one row, three handlers, two draft ids; calls refused or timed out and late, notices not delivered, invocations killed; Gmail accepting a second send of a sent draft |
| `approval_fair` (`MCDraftApproval`) | `OneDraftEverywhere`, `SendSettles` | one row, two handlers, three draft ids; calls refused, lost or timed out, notices not delivered |
| `approval_lost_answer` (`MCDraftApproval`) | refutes `MailedStaysConfirmed` | a send that took effect and was answered with an error that does not say "timed out" |
| `inbox` (`MCSignalInbox`) | `TypeOK`, `NeverGivesUpEarly`, `EndsOnce`, `FirstTriesInOrder`, `StoredIsSettled` | two polls, two replies of one user and one of a stranger's phone, two attempts, every fault: handlers and marks that throw, queue reads that fail, kills, redelivery |
| `triage` (`MCEmailTriage`) | `TypeOK`, `UnsnoozedClaimedOnce`, `SnoozeRespected` | two overlapping runs, one email, two snoozes, up to two calls in a turn, every tool, every fault |
| `triage_fair` (`MCEmailTriage`) | `ActiveIsInHand`, `NothingGoesUnreported`, `SnoozedReturns` | two overlapping runs, one email, up to two calls in a turn; logged writes that fail |
| `triage_two_calls` (`MCEmailTriage`) | refutes `ToolRowStands` | one run, a summary and a snooze in one turn |
| `billing` (`MCBilling`) | `TypeOK`, `OneUserPerAddress`, `PlanFollowsProvider`, `PromiseKept` | two tabs of one address, two subscriptions, two webhook requests at once, every await failing |
| `sync_queue` (`MCSyncQueue`) | `TypeOK`, `RowsAreTrue`, `RowCatchesUp`, `EveryJobEnds` | one job, three attempts, two kills, any number of stops; runs that fail or outlast the worker; reports lost or out of order |
| `gmail_links` (`MCGmailLabels`) | `TypeOK`, `AddressIsTheMailbox`, `WrongLabelIsForeign`, `ConnectSavesItsOwn` | two mailboxes, two tabs, three connections; two label calls, two names, two ids |
| `signal_link` (`MCSignalLink`) | `NumbersStayPaired`, `GroupIsServed`, `DialogIsOfNewest`, `CodeNamesOneDraft`, `OneDraftPerEmail` | two users and two numbers with every shape of envelope, saves that fail; four openings of the dialog; two drafting runs, two emails, two codes, three drafts |
| `dashboard` (`MCDashboard`) | `TypeOK`, `ObjectsAreReadable`, `AnswersStay`, `RecordsAreWhole` | two requests; objects with every field at its bounds, and texts of thirteen forms; two runs of up to three decisions and a reader with pages of two |

What the passing runs show:

- the claim in `confirmDraftSend` keeps overlapping, retried and late replies from
  mailing twice, provided an error that does not say "timed out" means that nothing was
  sent; `approval_lost_answer` removes exactly that proviso, and the property fails;
- the dedup insert and the status filter keep a reply whose effect is on record from being
  handled again while polls do not overlap; while they do, attempt counts may be lost but
  are never invented;
- the claim in triage keeps two runs from one email unless it was snoozed;
- one row per user in `subscriptions` and the claim of the event id are enough for "once,
  and for the buyer", and not enough for "the plan of the latest event": that needs
  events handled one after the other, as `PlanFollowsProvider` says;
- a snooze by a run that has ended holds, whatever overlaps and fails later, as long as
  `last_run_timestamp` only moves forward;
- a job's row may be old but is not false;
- codes, emails, users and mailboxes are kept apart except in the windows that the
  properties name (`exposed`, `redrafted`, `raced`, `overtaken`, `deleted`, and for labels
  an id read from another mailbox): the
  properties say that these are the only ways.

A property that has such a proviso fails without it in the same run: the exception
is a behaviour of the code, listed in section 4.

Each property of a passing run has a mutant of the code in `PROJECT.json` (a dropped
`WHERE` clause, a missing write, an off-by-one in a count, ...) under which TLC finds it
violated.

## 4. Findings and observed behaviour

The violation runs are findings. `approval_lost_answer`: `handle-reply.ts:147` takes an
error that does not say "timed out" to mean that nothing was sent, as the comment at line
121 says; a lost answer hands a mailed draft back. `triage_two_calls`: `triage.ts:208` says
that an email is marked handled unless its tool already wrote a row, and `triage.ts:35`
that a single call is forced, where only the number of steps is; of a summary and a snooze
in one turn the first recorded decides, and the summary's mark overwrites the snooze.

Other behaviour the models show and a reader of the code should know. It is modelled; no
run of its own is spent on it. Where a doc or comment says otherwise, it is named.

*Replies and drafts*

- A revision whose create fails after its delete leaves an awaiting row whose draft is
  gone (`handle-reply.ts:236`, against the comment at line 214).
- The reply that loses a claim ends without a word to the user (`handle-reply.ts:101`,
  although line 48 says it "always acks").
- A send that timed out and whose warning Signal does not deliver ends in silence: notices
  report failure by `ok: false`, which nobody reads (`handle-reply.ts:136`, against line 48).
- A revision overtaken by a send, a discard or the expiry announces a ref code that no
  longer matches (`pending-actions.ts:174` has no condition on the status).
- A revision killed between its two UPDATEs leaves `processed_emails` naming the new draft
  and `pending_actions` the deleted one (`handle-reply.ts:242`, `:243`).
- A discard overlapping a revision deletes the old draft and leaves the revised one in
  Gmail (`handle-reply.ts:169`).
- Expiry leaves the Gmail draft (`pending-actions.ts:97`; `docs/api_docs.md:84` says
  "cleaned up").
- A drafting run that fails after the create leaves a Gmail draft without a row
  (`draft-reply.ts:83`); two overlapping runs can queue two drafts of one email
  (`draft-reply.ts:59`).
- A ref code is free again when its draft is claimed or expired; a release brings the old
  draft back under a code that may since have been given to another
  (`pending-actions.ts:185`).

*Polls and numbers*

- After a failed revise the loop goes on, so the send after it is applied first
  (`poll-signal-replies/route.ts:173`, against `inbound-signal.ts:47`).
- The queue is emptied before its messages are stored: a kill in between, or a save that
  throws, loses them (`route.ts:108`, `:121`, `:159`).
- A message without a timestamp gets the time of its storing: handed out again, it is
  stored and handled again (`route.ts:155`).
- A reply that took effect and whose mark fails counts as a failed attempt: it is tried
  again, and may be reported as given up (`route.ts:187` is in the `try` of `:186`). A poll
  killed between the two leaves it to be tried again too.
- Two overlapping polls that both make the last attempt both send the give-up notice
  (`inbound-signal.ts:101`).
- A failed reply of a user whose drafts have since been settled is neither retried nor
  given up until the user has a draft pending again (`route.ts:82`); a reply of a user
  whose draft was queued after the poll read its integrations is dropped (`route.ts:141`).
- One envelope the schema does not know drops the whole drained batch
  (`receive.ts:186`).
- A text the user's own phone sends to somebody else on the linked account is read as a
  reply if that phone is also the recipient; a phone that hides its number is not
  recognised. A text of the account's own phone that does not give its number goes by the
  phone it was sent to, so it is taken for a reply of the user who has that phone
  (`receive.ts:226-229`).
- Two users with the same sender and recipient: the replies go to one of them.

*Triage and queue*

- A second run that read the same due row makes an email claimable again after the first
  has triaged it (`collect-emails.ts:115`; `README.md:412-413` says at most once).
- A failed run advances the window past emails it never triaged (`run-agent.ts:37`,
  against `docs/api_docs.md:149`).
- A run that throws between resurfacing an email and claiming it leaves it `active`,
  which no query looks for (`collect-emails.ts:25`, `:115`).
- A run killed after a claim leaves the email claimed and untold (`triage.ts:64`).
- Under overlap a run that fetched an email before it was snoozed claims it before its
  time (`processed-emails.ts:73`). So does the next run after one whose write of
  `last_run_timestamp` failed or came late: it fetches the old window again, and snoozed
  rows are not filtered out (`run-agent.ts:161`).
- When triage and the fallback summary both fail, the email is recorded as notified and
  nobody heard of it (`triage.ts:195`).
- At most 20 emails of a window are looked at (`gmail.ts:8`).
- A run that ended in an error is answered with 200, so its job counts as completed and
  is not tried again (`run-job/route.ts`; `docs/api_docs.md:149`).
- A late report of the enqueueing overwrites what the worker has reported since
  (`server/queue.ts:67`), and a process that exits takes its reports on the way with it
  (`server/worker.ts:74`).
- A job found stalled twice is over with attempts left, and its row says "failed", as that
  of a job that will be tried again (`server/worker.ts:49`).
- The cron that gives up on `POST /sync` may have enqueued its jobs all the same; in
  inline mode a kill drops the accounts not yet run.
- A worker that stops waiting after 300 s retries while the first run may go on.

*Billing and identity*

- An event claimed and not applied is answered as a duplicate when it is sent again, and
  the plan stays (`webhooks/razorpay/route.ts:42`).
- Events are applied as they arrive: an activation delivered after the cancellation gives
  the plan back (`route.ts:70`).
- A second checkout overwrites the first; if the first is then paid, its events find no
  row and the buyer stays free (`subscriptions.ts:70`).
- An authenticated subscription counts as active and gives the plan before its first
  charge (`docs/api_docs.md:264`: "only when the webhook confirms payment").
- Two first sign-ins at once insert two users (`users.ts:46`); a checkout stores the
  e-mail as Google spells it, which the lower-case lookup does not find (`users.ts:21`).

*Accounts, labels, console, records*

- The callback takes the newest connection, whatever flow it is for
  (`composio.ts:64-68`, whose comment says "the one the user just authorised"); a removed
  account's connection stays active and can be found again; one mailbox can be connected
  twice.
- The settings page sets the opposite of what it showed when it was rendered.
- The cache of label ids is kept per user, not per mailbox: with two mailboxes an email
  may get another label, or none (`gmail-labels.ts:10`); two calls that both miss both
  create, and one fails; a deleted label stays in the cache.
- `extractJsonObject` takes what the first two fences enclose, or all from the first brace
  to the last: an object with a fence in a string, or with a brace in the prose around it,
  is not read and costs a second call (`result-parser.ts:24`). JSON between fences that is
  no object is shown as an empty answer, "ready" with a confidence of 70
  (`result-parser.ts:81`).
- A repairing call that throws is answered with 500, and the fallback is not used; the
  console's "latest run" is the last one answered, and an error stays above a later
  answer; phrases are matched by the words in them ("very high" is medium, "not ready" is
  ready).
- A failed run's tokens are not counted; a run, its decisions or its usage that cannot be
  written are passed over; the page count is read before the rows.

## 5. Bounds, and why they are enough

- `Actions`: one row. Handlers of different rows share only the ref-code lookup, the
  draft ids and the expiry; each property is about one row at a time, and the proofs hold
  for any number. `Handlers`: three where two senders and a third party can meet, two
  where a revision meets one other reply; a handler takes a new reply after `Return`, so
  the number bounds the overlap, not the replies. `Drafts`: an initial draft and one or
  two revisions (`SpareDraft` lets a revision start only if an unused id is left).
- `delivered` and `feedback` saturate at 2 ("more than once"), `failures` at `MaxAttempts`, `claims` at `MaxSnoozes + 2`: the values the properties
  tell apart.
- `Messages`: two replies of one user, whose order matters, and one from a number no user
  has saved. `Late` holds all of them but the first: polls overlap only before
  any of these is sent, so that overlap meets one reply and the order of two is checked
  where polls follow one another. `MaxAttempts` is 2 instead of 5: a first and a last
  attempt.
- `MaxTime` 4 ticks (`TimeIsUp` is the stutter at its end), `DefaultWindow` 2 or 4,
  `MaxSnoozes` 2, or 1 where liveness is checked, `MaxCalls` 2: any two tools in a turn. One
  email: rows of different emails share only the window, and what `MaxResults` cuts off is
  not exercised by a run (the proofs hold for any number of emails and any `MaxResults`).
  The last tick waits for a snooze being written, so a snooze always has a later time to
  return at. Two runs of an account never start in the same second (`Start`).
- `billing`: one address, spelled with capitals, two ids and two tabs are what two racing
  sign-ins need; two subscriptions for a checkout that overtakes another; one kind of
  event that gives, one that takes and one that is ignored; two requests for a
  duplicate in the middle of its first delivery. `IdsUsedUp` is the stutter when no id is
  left to make up.
- `sync_queue`: jobs share the worker's places and nothing else, and rows and reports are
  per job; three attempts are a first, a middle and a last; all its reports may be on
  their way at once. `MaxKills` is 2: the second stall of a job is its last.
- `gmail_links`: three connections for a flow overtaken by another with an older one left
  active; two ids and two names for an id that stands for another name elsewhere.
- `signal_link`: `MaxSaved` 2 and `MaxSent` 2 let two users share an account, one of them
  change its numbers, and two envelopes share a batch; `MaxOpened` 4; `MaxDrafts` 3.
- `dashboard`: `MaxAsked` 2 for answers that overtake each other; `MCReplies` are objects
  ordinary but for one field, with each field at each boundary, and `MCForms` has texts of
  up to five pieces, of every way `extractJsonObject` cuts one, rightly or wrongly; five decisions over two
  time stamps and pages of two give three pages with ties across a page's edge.
- Three runs say `CHECK_DEADLOCK FALSE`: in `gmail_links`, `signal_link` and `dashboard`
  a part ends when it has reached its bounds (openings, requests, runs). The other runs
  check for deadlock.
- Symmetry is used for interchangeable handlers, emails, runs, users, tabs and the like,
  in runs without liveness properties only.

The largest are `signal_link` (3.0 million distinct states), `gmail_links` (2.1 million),
`billing` (1.9 million), `triage` (1.4 million), `approval_fair` (1.1 million),
`approval_safety` (820 000) and `dashboard` (660 000); `inbox` and `triage_fair` have some
300 000 and `sync_queue` 144 000. Each ends within three minutes on two workers.

## 6. Fairness

Liveness is checked under the weakest fairness that the deployment gives.

- `DraftApproval`: weak fairness of each handler's steps. Every await ends: Gmail calls
  after 30 s at the latest, Signal and Groq calls have timeouts of their own. Nothing is
  assumed of replies, expiry or late calls, and no kill happens in the fair run.
- `SignalInbox`: weak fairness of starting a poll (the scheduler ticks every minute) and
  of each poll's steps. `StoredIsSettled` assumes in addition that the user has a draft
  pending from some time on, because the code polls only such users, and that kills end:
  a poll that is killed each time settles nothing. Nothing is assumed of attempts
  succeeding.
- `EmailTriage`: weak fairness of the clock, of starting some run, and of each run's
  steps. Emails need not arrive.
- `SyncQueue`: BullMQ hands out waiting jobs (strong fairness of `Take`, since the worker
  may be stopped again and again), requeues delayed and stalled ones or ends those (strong fairness, for the same reason), a run ends or times
  out, a worker that closes exits and its container is started again, and the oldest
  report of a job arrives if it stays the oldest. Nothing is assumed of attempts
  succeeding.

## 7. Proofs

Proved by TLAPS for every value of the constants that satisfies the modules'
assumptions. Each proof has an inductive invariant, one lemma per action (or per kind of
action), and frame lemmas for what a step leaves alone. Every invariant was first checked
by TLC on the run of its module. Every invariant and action property of the passing runs is
stated by a theorem; where a theorem needs more than the model's assumptions, its ASSUME
says so, and this section says why.

*DraftApprovalProofs.*

- `TypeCorrect`: types, strengthened by `HoldsRow` (a handler past its lookup holds a row).
- `ClaimsSafe`, and from it `NoDoubleSend`, `NoReleaseAfterMail`, `OneSenderPerDraft`,
  under `"lost" \notin Faults` (the proviso of the finding). `AtMostOneMail` alone is not
  inductive: a state in which two handlers are about to send one draft, or a late send is
  outstanding for a pending row, satisfies it and leads to a second mail. `ClaimInv` adds
  exactly what excludes these.
- `SettledRowsAreFinal`: the action property `SettledIsFinal`.
- `DecidesOnce`: `DraftApproval` implements `DraftDecision!Spec`; every step is classified
  (`EveryStepDecides`) as a decision, a hand-back, a mail, an expiry or no change, each an
  abstract step or a stutter.
- `ToldTheTruth`: `OutcomesAreTrue`, under the same proviso, on top of `ClaimInv`. What a
  user is told was true some awaits earlier and must still be. `OutcomeInv` follows the
  note from the step that writes it (`NoteIsTrue`) to the message sent (`ToldIsTrue`), and
  says that only one handler at a time discards a row (`DiscardsAlone`), without which the
  feedback of a discarded draft could be counted twice.
- `NeverTwoDrafts`: `OneLiveDraft`, for every fault, lost answers too. A revision deletes
  before it creates, and a creation that timed out may still take effect. `PlaceInv` says
  that such a creation finds no live draft of its row (`OnePlace`), that a handler holds a
  draft of its own row (`HoldsOwnDraft`), and that while one handler replaces the draft of
  a row no other gets past its delete (`ReplacesAlone`).
- `TablesNameOneDraft`: `OneDraftEverywhere`, under `"abort" \notin Faults`: a process
  killed between the two UPDATEs of a revision leaves the tables naming different drafts
  (section 4). It rests on `PlaceInv` and `SavesWhatItMarked`.

*SignalInboxProofs.*

- `InboxTypeCorrect` and `GivesUpOnlyWhenExhausted`, for any number of overlapping polls
  and every fault. A poll writes an attempt count from a value it read long ago, so neither
  is inductive. `AttemptsInv` adds that what a poll read never exceeds the failures there
  were, that the failure in hand has been counted, and that untried rows have no attempts.
- `EndsOnceTheorem` and `FirstTriesTheorem`, for every fault, kills among them. `SerialInv`,
  of behaviours in which polls have not overlapped, relates the list of the one poll to the
  rows: what is left on it is open, what is on record is not on it, and a reply never tried
  is on the list of a poll that has loaded. Overlap is the only proviso, and it is in the
  properties themselves.

*EmailTriageProofs.*

- `TypeTheorem` and `ClaimedOnceTheorem` for any overlap and every fault: `ClaimInv` says
  that an email never snoozed has no row and no claim, or a final row and one claim
  (`RowsUnsnoozed`), and that what a run has in hand has a row (`HandsHaveRows`).
- `ActiveTheorem`: no row is left `active` outside a batch, where no run throws or is
  killed; `ActiveInv` adds that only collecting and claiming runs have a batch.
- `SnoozeRespectedTheorem`: the action property, for any overlap, every fault and any number
  of calls in a turn. `SnoozeInv` relates times that are read at different awaits: when a
  run started and how far its window looks back, and when a spared email came, which is
  before the window of every run that started after the run that snoozed it ended, so that
  no listing offers it again and no list of due rows has it before its time. `slipped`
  records the two ways a window can start earlier.

*SignalProofs.*

- `PairedTheorem`, `ServedTheorem` (an action property) and `LinkTypeTheorem`. `LinkInv`:
  every copy of a user's numbers, in the table, in a send under way or in a poll, is a pair
  the user once saved, whatever phone an envelope goes by; and what is queued or drained is a well-formed envelope of the
  account it was read from.
- `DialogTheorem`: `DialogIsOfNewest`, with `QrInv`: a request that is neither answered nor
  aborted is the newest, of an open dialog that shows nothing yet.
- `CodeTheorem`, `EmailTheorem` and `QueueTypeTheorem`. The two properties are about
  pending rows, and a row becomes pending out of a drafting run or out of a claim that is
  given back; `CodeInv` and `EmailInv` extend them to claimed rows and to the codes and
  emails runs have in hand, and `HandInv` says that a draft in hand has no row yet and is
  in no other hand.

*SyncQueueProofs.*

- `RowsTheorem` and `SyncTypeTheorem`, with `QueueInv`: every report on its way is as true
  as a row must be (`IsTrue`), and stays so, because counts only grow and an ended job does
  not start again (`CountsInv`). `GivenUp` is a job that stalled too often: it is over, and
  both properties say what its row reads.
- `CatchesUpTheorem`: `RowCatchesUp`, with `LatestInv`: of a job whose reports were applied
  in the order they were made, the last report on its way, or the row when none is, says
  what the job does now (`Says`).

*BillingProofs.*

- `OneUserTheorem`, `BillingTypeTheorem`, and `PromiseTheorem`: `Billing` implements
  `Entitlement!Spec` with the plan of a user without a row as "free". `BillingInv`: an id
  made up is nobody's yet (`TabInv`), an e-mail is stored in one of two spellings
  (`SpeltInv`), an address whose users are two was raced for or is spelled otherwise
  (`AddressInv`), a subscription row is of its buyer (`BuyerInv`), and a webhook request
  has claimed an event no other handles and none has spent (`WebhookInv`).
- `FollowsTheorem`: `PlanFollowsProvider`. A webhook request changes the subscription in
  one step and the user in a later one, and the events of a subscription may be claimed in
  any order. `FollowInv` ranks a subscription's events by their place in its life
  (`RankInv`), says that an event claimed in its turn follows events that are over
  (`TurnInv`), and describes both tables while a request is half way (`HalfWay`) and when
  none is (`BothAgree`).

*GmailLabelsProofs.* About the accounts and the labels together, as the run starts the
labels from the accounts there are. `LabelsTypeTheorem`, `AddressTheorem`,
`WrongLabelTheorem` and `SavesItsOwnTheorem` (`ConnectSavesItsOwn`, an action property).
Connections are begun in order, so that the newest active one, which the callback takes for
its own, is its own unless another flow was begun since (`FlowInv`, `NewestInv`); an id in
the cache, or in the hands of a call, is that of its label in the mailbox it was read from
until somebody deletes such a label (`CacheInv`, `CallInv`).

*DashboardProofs.*

- `EveryObjectFits`, about the parser alone: what it normalises fits the schema it is then
  held against, for any list lengths and all wordings; `ReadableTheorem` rests on it and on
  `PlainIsCutOut`: of a text in which the object stands in prose or between a pair of fences
  of its own, the search cuts out the object.
- `AnswersTheorem`, with `HistoryInv`: a list entry is of a request that is over, and of
  one only, so that no later step can change or repeat it.
- `WholeTheorem`: `RecordsAreWhole`. That usage adds up needs that a sum grows by what one
  run adds. That no decision is passed over needs to know what a reader has come past:
  `ReadTo(R)` says that R are the decisions before the end of the page when it was read,
  that the reader has seen all he expects of them, and that what he still expects comes
  after. Decisions saved meanwhile come before, since the list is newest first, and push
  rows down the list, never up.
- The folds these rest on are recursive functions over finite sets, and the library's
  induction theorems cannot be instantiated. `SmallestSubset` takes their place: of the
  subsets of a finite set that refute a claim there is a smallest one, since strict
  inclusion is well-founded there. From it, `SumsAreCounts`: a sum is the number of
  `Units` it adds up.
- `ConsoleTypeTheorem`, `RecordTypeTheorem`, `DashboardTypeTheorem`.

What is only model-checked: liveness (`SendSettles`, `StoredIsSettled`,
`NothingGoesUnreported`, `SnoozedReturns`, `EveryJobEnds`). It is beyond the prover, as is
ENABLED, on which the fairness of these properties rests.

## 8. Plan

1. `ReplyFlow`: `SignalInbox` composed with `DraftApproval` (a retried reply meets the
   effect of its first attempt), and a proof that the composition keeps `ClaimInv`.
2. `withTimeoutAndRetry` as a process, for reads, and that it has the outcomes
   `DraftStore` gives a Gmail call.
3. `extractRefCode` and `stripRefCode` against a reference definition.

## 9. Not modelled, and why

- AI prompts and answers: the model's choice is nondeterministic wherever it is asked;
  wording is out of scope. Of an answer, only the pieces the search for its object and
  the fields the parser tell apart.
- Pages and components without state that several requests share; forms, layout, legal
  and landing pages.
- Logging, telemetry, configuration, encryption, constant-time comparison: I/O and pure
  functions over library code. The webhook's signature and the cron's secret are taken to
  match: what does not match changes nothing.
- The retry loop of Gmail calls: it serves reads, which have no effect the models see.
- The splitting of a reply's text into ref code and command: a reply is the command it is
  classified as and the code it names.
- The row of `agent_runs` and token counts: nothing but totals on a page reads them.
- Multiple users in `DraftApproval`, `DraftQueue` and `EmailTriage`: every query is
  filtered by user or account, and nothing is shared between them. Users who share a
  Signal account are `SignalLink`'s.
- The loss of replies drained but not stored is in the models but not the subject of a
  property, since nothing in the code prevents it.

## 10. Running

    tlc -workers 2 -config approval_safety.cfg MCDraftApproval
    tlc -workers 2 -config signal_link.cfg MCSignalLink
    tlapm BillingProofs.tla

The module of each configuration is named in the table of section 3. Every `*Proofs`
module is checked by itself.
