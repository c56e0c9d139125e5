# Verification of nli-server

nli-server is the relay server of the NetherLink mod: a Rust process (axum, tokio) in front of Redis and
Postgres. A client registers a *runtime instance* with its Minecraft token and gets an instance token, publishes a
*Presence* ("hosting, joinable"), sees the Presences of its friends, and exchanges *signaling messages* with
another instance over WebSockets until the two have a WebRTC connection of their own. This directory holds TLA+
modules of the parts of it where steps of several actors interleave, their TLC configurations, and proofs that
TLAPS checks. Paths such as `signaling.rs` are relative to `src/src/`.

## The system

| Component | State | Operations | Talks to | Module |
|---|---|---|---|---|
| Signaling connection registry (`signaling.rs`) | in memory, `RwLock<HashMap<presence id, Connection>>`; an mpsc channel of 64 messages per connection | register, unregister, send, close, close_all | WebSocket tasks, the closing of instances, shutdown | `ConnectionRegistry` |
| WebSocket task (`api/signaling.rs`) | one per socket: the text in hand, a copy of a session, the token it came with | connect, serve_socket, handle_text, begin_session, continue_session, heartbeat, cleanup | registry, Redis, Postgres (friendship) | `SignalingRelay`, `InstanceConnections` |
| Signaling session (`model/signaling.rs`, `redis.rs`) | Redis: `signaling-session:<id>`, `presence-signaling-sessions:<id>` | register_*; put, get, delete, delete for a Presence | every WebSocket task; the closing of instances | `SignalingSession`, `SignalingRelay` |
| Runtime instances (`api/instances.rs`, `redis.rs`) | Redis: `instance:<hash>`, `presence-instance:<id>`, `profile-instances:<id>` | create, renew, close, authenticate | every other endpoint authenticates here | `RuntimeInstances`, `InstanceConnections` |
| Presence (`api/presence.rs`, `redis.rs`) | Redis: `presence:<id>`, the sorted set `profile-presences:<id>` | publish, clear, presences_for_profile | instances, friends, signaling | `RuntimeInstances`, `PresenceDirectory` |
| Rate limits (`redis.rs`) | Redis: `rate-limit:<bucket>` | increment_rate_limit | most endpoints | `PresenceDirectory` (the bucket of publishing) |
| Friends projection (`db/friends.rs`, `api/friends.rs`) | Postgres: `friendships`, `friend_requests` | GET /friends, add, accept, remove; replace_with_official_snapshot, snapshot, are_friends | the official friends service, signaling | `FriendProjection` |
| Graceful shutdown (`main.rs`) | none | shutdown_signal | registry | `ConnectionRegistry` (CloseAll) |
| Profile cache, TURN credentials, terms, configuration, health, nonces | a cache; none | | | not modelled |

What is hard here. Every handler is an `async fn` that awaits one command after the other, and between two
awaits any other handler may run. Only the Lua scripts, the `MULTI` blocks and single SQL statements are atomic. Sessions are
read, changed in memory and written back without a condition. Keys expire, by whole seconds, while tokens expire by
fractions of them, and an index has a time to live of its own. `TimeoutLayer` drops HTTP handlers wherever they
stand after 15 seconds, and a crash drops everything but Redis and Postgres. The registry hands out senders under a lock and
uses them after it. Snapshots of friends are replaced by transactions that wait for each other's rows. `PROJECT.json` lists
these hazards line by line.

What makes each component correct:

- *registry*: a Presence has at most one connection, a profile at most eight; a displaced connection comes to its
  end and takes nothing from its replacement; no sender waits.
- *sessions*: they follow the documented state machine from JOIN_REQUEST to ANSWER, with the consent of the host;
  they are gone after five minutes, and when a peer disconnects.
- *instances*: one token per Presence, good until its expiry, dead for good once it is closed or renewed; at most
  five per profile; a connection does not survive its token.
- *Presence*: gone with its instance; found by a reader for as long as it is stored.
- *friends*: what is stored is what the official service said last to somebody concerned; nothing disappears while
  it is replaced; every synchronisation ends.

## Modules

| Module | What it is |
|---|---|
| `ConnectionOwnership` | what the registry promises, without queues and locks |
| `ConnectionRegistry` | the registry and the part of `serve_socket` that uses it |
| `SignalingSession` | a session as a value, the checks on a message and its effect |
| `SignalingRelay` | the WebSocket tasks and their sessions in Redis, with the times to live Redis is given |
| `TokenLife` | what a token of an instance is worth: current, replaced or ended, and never current again |
| `RuntimeInstances` | tokens, reverse mappings, slots and Presence records of one profile |
| `InstanceConnections` | instances against the connections that serve them; uses `ConnectionOwnership` |
| `PresenceDirectory` | the Presences of a profile, their index, its readers, and the rate limit of publishing |
| `FriendProjection` | the replacement of friends in Postgres, statement by statement |
| `*Proofs` | the theorems about each of them |
| `MC*` | instances of these for TLC |

**ConnectionRegistry.** `registry` is the map, `queue` the channels, `pc` the place of each WebSocket task. A sender
lives in the map, in `previous` (displaced by `register`, which tells it to close only after `drop(connections)`), in
`clone` (taken by `send` under the read lock) or in `taken` (removed by `close` or `close_all`). The locked part of
each function is one action and what it does after the lock is another: `Register`/`NotifyPrevious`,
`Close`, `CloseAll`/`NotifyTaken`, `SendLookup`/`SendTry`. `TrySend` is tokio's `try_send`: it never waits and loses the message when the
channel is full or its receiver gone. `ReceiveNone` is `recv` answering `None`, when the queue is drained and no
sender is left. `SocketEnds` stands for every other reason to leave the loop (peer, socket, idle timeout, stale token).
`Spec` refines `ConnectionOwnership` with `owner <- registry` and each task's stage read off its `pc`.

**SignalingSession.** `Phase`, `Recipient`, `RoleAllows`, `PhaseAllows` and `Register` are `phase`, and the checks and
`register_*` methods `continue_session` calls. A peer is a Presence, since the profile of a Presence never changes.

**SignalingRelay.** `task[c]` is where the task of connection `c` stands and its locals: the text, the copy of the
session, what is to be deleted. `Receive` is the reading of a text and the GET that begins `begin_session` or
`continue_session`; `BeginCheck` and `ContinueCheck` are what follows it, `HostCheck` the second look at the host's Presence
before JOIN_ACCEPTED and OFFER (its publication is another component, so a Presence of `Host` is found joinable or not;
`Guest` and `Trickler` bound who joins and who sends candidates);
`RegisterMessage` registers the message in the copy and computes the time it goes out with (`Remaining`; a new session has all of `SessionTtl`);
`Put` is the arrival of `put_signaling_session` at Redis, and `Send` the forwarding, which fails when the Presence has no
connection or the queue is full, and then deletes the session. `Drop`, `DropRead`, `DropCommit` are `delete_signaling_session` (GET, then MULTI).
`Unregister`, `Sweep`, `SweepNext`, `SweepDone` are the cleanup after the loop (unregister, SMEMBERS, one deletion
per id, DEL of the index). `Tick` is Redis' expiry, `Crash` the death of the process. Redis drops a session at `until`, not at the expiry in its
record: SETEX is given whole seconds (`Whole`, of `Second` ticks) and counts them from the arrival of the write, which may be up to
`MaxDelay` ticks under way, while the handler compares the record's expiry with its own clock (`Outlived`). A time of no whole second is refused by
SETEX, inside a MULTI that goes on: the indexes get their EXPIRE, the value stays what it was, and the handler answers an error (`Put` with `lasts = 0`). A text that is refused before it
touches a session (malformed, rate limited, not a friend) changes nothing and is left out. `hist` is a ghost: what has
happened to a binding (id, initiator, target) since its JOIN_REQUEST; so is `unlisted`: the sessions an index lost by lapsing before they did.
The registry appears as the owner of a Presence: taken over by who connects, given up by who unregisters and still owns it, as the steps of
`ConnectionOwnership` that need no limit and no operator. `Stretch` and `Steps` measure how far a task is from its loop or its end.

**TokenLife.** The abstract specification of runtime tokens, for any set of ids and tokens: a Presence is given a first token under an id that
was not used (`Issue`), the token is replaced by a new one (`Renew`) or ends (`End`), and a token or an id that is not drawn successfully is lost
(`Withdraw`). It is written to be implemented: `RuntimeInstances` is shown to do no more than that.

**RuntimeInstances.** One action per awaited command or script of `create`, `renew`, `close`, `publish`, `clear` and
`authenticate_instance`. `req[q]` is where a request stands. Ids and tokens are drawn fresh (`minted`). The clock ticks `Second`
times per second: `Floor` is `timestamp()`, with which slots are scored and pruned, while leases expire by the tick.
`Cancel` drops a request between any two commands: an error of Redis, `TimeoutLayer`, a client that is gone, a crash.
No request lives beyond `RequestTimeout` (`InTime`). `Announce` may fail before or after the Presence is written, and
then rolls the instance back. Ghosts: `known` (tokens clients were given, with their expiry), `ended`, `closedAt`,
and `ousted` (Presences whose slot was taken away while a token of theirs lived: pruned before a late renewal, or deleted with an expired
token that had been renewed meanwhile). `Leased` is every Presence that some token authenticates, with or without a mapping or a slot, but for
the last second of its lease, in which its slot may be pruned.
`TokensLive` is `TokenLife` with a Presence's current token read off its lease, and with those ids and tokens left to issue that nobody has drawn, or
whose request has yet to write them.
The module assumes that the configured Presence TTL is within the 180 seconds publish clamps to (it is 90 by default; the
initial Presence is not clamped).

**InstanceConnections.** Here an instance is its current token, numbered from 1 to `MaxTokens`, and 0 before it is created and after
it is gone; `mapped` has the instances whose reverse mapping is there, `slot` the members of `profile-instances`, and the ghost `ousted` those who lost
their slot while they lived. Time is abstracted: `Create` prunes the slots of instances that are gone and those of any set `due` of instances in the last
second of their lease (any instance, since no clock says which), and counts what is left; `Expire` is the end of a lease, by Redis (the slot stays) or by
`delete_runtime_instance` (it goes); `ExpireRenewed` the same deletion after a renewal, which takes mapping and slot from a token that lives; `Renew`
and `CloseScript` ask for the mapping. So the module allows at least what `RuntimeInstances` does to tokens, mappings and slots in the steps of its requests; that it does is
read off the two, and not proved. A connection is
authenticated (`Connect`), upgraded and registered later (`Register`, `Refused`), checks its token at every text
(`Text`) and every heartbeat (`Heartbeat`), may fail to write the response (`Respond`), and unregisters when its loop
has ended. `Close` is two steps, the script (`CloseScript`) and `signaling_connections.close` (`CloseConnection`), and a
handler that is dropped between them never gets to the second (`CloseDropped`). The registry's steps are those of
`Registry == INSTANCE ConnectionOwnership`, so the connections here are the ones `ConnectionRegistry` implements. `late` is a
ghost: the connections that were being upgraded when the registry was asked to close their Presence.

**PresenceDirectory.** `until` is the time to live of `presence:<id>`, `score` the members of `profile-presences` with their
expiry, `indexUntil` the time to live of the set itself. `Put` is the MULTI of `put_presence` (SET, ZADD, EXPIRE), with
`now` the time at which the command was put together, which may be earlier than the one at which Redis runs it. `BeginClear`, `Clear` are
`delete_presence` (GET, then MULTI). A reader is `Sweep` (ZREMRANGEBYSCORE), `Range` (ZRANGEBYSCORE), and per id `Get` and,
when it finds nothing, `Drop` (ZREM). `Increment` is the script of `increment_rate_limit`, for the bucket
`presence-publish`. `Cancel` is a failed command, a dropped request or a crash. Ghosts: `shortened` (Presences whose index was
given a shorter life by a publish of another), `dropped` (stored Presences whose id a reader removed), and each reader's `gone`.

**FriendProjection.** `official` is what the official service knows, `table` the committed rows of `friendships` and
`friend_requests`; a row is a pair of profiles and who asked (`NoOne` for a friendship). Each endpoint is one action up to
the official answer; then `replace_with_official_snapshot` runs statement by statement. A DELETE finds its rows
when it starts (`DeleteRequests`, `DeleteFriends`) and visits them one at a time (`DeleteRow`); an INSERT is one row
(`InsertRow`). `deleted`, `added` and `held` are what a transaction has written, and `Blocks` is Postgres' rule of who waits for whom: a
DELETE for whoever wrote the row, an INSERT for whoever wrote one with its unique key. A row somebody else has deleted
and committed meanwhile is skipped, as READ COMMITTED does. `Violation` is the INSERT of a request whose reverse is there,
which `ON CONFLICT` does not name; `Deadlock` is Postgres' choice of a victim. After the commit, GET /friends reads the three lists in three
statements outside of any transaction. `Elsewhere` is whatever other clients and servers do to the official relationship.
`missed` is a ghost: the pairs others have committed to since the task got its answer.

## Runs

Each passing run has one mutant of the code per property (`PROJECT.json`, "mutants"; the faulty variants stand beside
the definitions they replace), which TLC finds violated.

| Run | Bounds | Shows |
|---|---|---|
| `registry` | 2 Presences of a profile with room for 1, 3 connections (2 rivals), queues of 1 | `TypeOK`, `ProfileLimit`, `OwnershipSteps`, `DisplacedDrains`, `OwnershipSpec`: limit, replacement, closing and sending in every interleaving, and the refinement with liveness |
| `relay_serve` | a guest and a host, one session id, no candidates, half seconds, sessions of 2 ticks over 2, writes under way for up to 1, no slack of the index | `TypeOK`, `DisconnectDeletes`, `SingleOffer`, `HandlerReturns`, `CleanupEnds` |
| `relay_crash` | the same with a candidate of the guest, 3 ticks, 1 tick of slack, and crashes | `StoredWellFormed`, `HostConsents`, `NoOverstay`, `WorkShrinks` |
| `instances` | 2 Presences, 1 slot, 3 tokens, 2 requests, half seconds, 6 ticks | `TypeOK`, `OneToken`, `TokenLasts`, `ClosedForGood`, `PresenceEnds`, `LimitUnlessOusted`, `TokensLive` |
| `lifecycle` | 1 profile with room for 1 instance and 1 connection, 2 instances of 2 tokens, 3 connections | `TypeOK`, `ClosedServesLate`, `StaleForGood`, `RefusedForGone`, `StaleTokenEnds`, `GoneIsForgotten` |
| `directory` | 2 Presences, 2 requests, half seconds, times to live of 2 and 8 ticks, 4 ticks, 1 publish per window of 2 | `TypeOK`, `IndexSound`, `ListedUnlessLapsed`, `ReadComplete`, `BucketLapses` |
| `friends` | 2 profiles, both served, 2 requests at a time, their relationship changed elsewhere too | `TypeOK`, `RequestsUnique`, `Replaced`, `AnswerSound`, `NoGap`, `WaitsForTheOpen`, `SyncShrinks` |
| `friends_deadlock` | 3 profiles, one of them served, 2 pairs, 2 requests at a time | `SyncEnds` |
| `relay_answer` | guest and host | finding: `SingleAnswer` |
| `instances_removed` | 1 Presence | finding: `PresenceRemoved` |
| `instances_mapping` | 1 Presence | finding: `MappingKept` |
| `directory_listed` | as `directory`, 1 request | finding: `Listing` |

Why the bounds are enough to be interesting.

- *registry*: two rivals for one Presence are a replacement, and the third connection is of a Presence that meets the limit; a queue
  of one is full as soon as a text waits, so that a Close is lost and the displaced connection must end by its sender's end.
- *relay*: a guest and a host are the two parties a session has; both handlers and both cleanups interleave freely, an
  id is used again after its session is gone, and the one candidate the guest may send (in `relay_crash`) both reaches the limit of candidates and
  overwrites the host's updates, its ANSWER among them. Two ticks are a second: a session of two is written back with all of its time or with half a second, which is no whole one, and a
  JOIN_REQUEST's write that arrives a tick late leaves a session in Redis that outlives its own expiry. Without slack an index lapses before the session
  when the last write had half a second left (`unlisted`). In the three ticks of `relay_crash` a session is begun again after the first has gone.
- *instances*: two requests race at every pair of steps; two Presences race for the one slot; three tokens are two
  registrations and a renewal, or two renewals; the leases of four ticks end inside the six, and two ticks to the
  second make the fraction of a second visible. Both kinds of ousted instances come about: TLC finds two instances against the limit of
  one when `ousted` is not excepted.
- *lifecycle*: with room for one, the connection of an instance that is gone, or of one that lost its slot, keeps that of the next one out; a renewal
  makes a connection stale whose instance lives; three connections are a replacement besides.
- *directory*: a publish for the short time to live ends the index before a Presence published for the long one; two
  requests are a reader and a publisher, a clearer or another reader; the times to live of two ticks end inside the four.
- *friends*: one pair has every relationship two profiles can have, and both its ends replace the same rows at once. Two
  pairs of one profile are the two rows it takes to wait in opposite order.

Deadlock is not checked in the runs: in all of them the actors may be finished (connections are used once, time, tokens
and ids run out, nobody need call).

Findings. The violated properties restate sentences of `doc/v1`, quoted in `PROJECT.json`:

- a lost update takes an ANSWER back, so that a second one is accepted (`relay_answer`). `SingleOffer` and `HostConsents` hold
  all the same: whatever a stale copy takes back, it lies before the next step of the same party;
- a publish that was authenticated before the closure brings the Presence back (`instances_removed`);
  `PresenceEnds` bounds for how long;
- the deletion of an expired token also deletes the reverse mapping a renewal has just written
  (`instances_mapping`); the new token still authenticates (`TokenLasts`), but can be neither renewed nor closed. The same step frees the
  slot (`redis.rs:190`), so that another instance can be registered while this one lives: one more than the five `doc/v1/rest-api.md:116` allows.
  `LimitUnlessOusted` says what remains true;
- a publish of 30 seconds gives the index of its profile 90, while another Presence of the profile may be stored
  for 180: no reader finds it until it is published again (`directory_listed`). `ListedUnlessLapsed` says what remains true.

What was met besides, and needs no run of its own:

- the same lost update re-opens a session that INVITE_DECLINED had closed, when JOIN_ACCEPTED is being written;
- where a Presence reconnects, the cleanups of the two connections overlap, and the first one's DEL of the index hides a
  session from the second; the older connection may also put back a session from before an OFFER. `DisconnectDeletes` and
  `SingleOffer` therefore speak of Presences that connect once, in the run and in the theorem. There they hold:
  unregister comes before SMEMBERS, and send after the write, so the session that escapes the one is deleted after
  the other, unless the index has expired before the session. It can: with two sessions of different age and the default times (300 s, and 60 s
  of slack for the index), a message of the older one shortens the index that holds the younger one, which then outlives a disconnect, although
  `doc/v1/signaling-api.md:99` says that a disconnect deletes every session. `DisconnectDeletes` excepts exactly what an index has lost so (`unlisted`);
- a session in its last second cannot be written back: the message that tries is answered with an error;
- slots are counted in whole seconds, so there may be one instance too many for less than a second, and for longer
  when one is renewed just then, whose slot another has taken (`doc/v1/rest-api.md:116` again). `Leased` leaves the last second out, and `ousted` the late renewal;
- a pair may be stored both as friends and as a request: two transactions with different answers write different tables,
  and no constraint spans them (`doc/v1/data-model.md` recommends one).

Fairness. The tokio runtime polls a task that can run: weak fairness of what a task has begun (`Handle`,
`NotifyPrevious`, `NotifyTaken`, `SendTry`, `Unregister`, `Respond`). `select!` picks among its ready branches at random, so a
`recv` branch that is ready again and again is taken: strong fairness of `Receive` and `ReceiveNone`. The heartbeat's interval ticks: weak
fairness of `Heartbeat`. Postgres queues those who wait for a row, so nobody is overtaken for ever (strong fairness of `Obtain`), and
looks for deadlocks after `deadlock_timeout` (weak fairness of `Deadlock`). Nobody owes a
text, a disconnect, a closure, an answer of the official service or the passing of time. The writes to a socket are taken to return; a client that
does not read can hold its task up, for there is no time limit on them.

## Proofs

All theorems hold for every value of the constants under the assumptions of their modules: finitely many Presences where they are
counted, each connection authenticated as one Presence, positive capacities and times, ids and tokens apart from the absent value.

- `ConnectionRegistryProofs`. `TypeCorrect`, with the capacity of the queues (`TrySendType`). `ProfileLimitHolds`: the limit is
  inductive over types; a registration adds one Presence only when there was room (`RegisterKeepsLimit`), and
  every other step removes entries or leaves them (`RemovalKeepsLimit`). `RegistryImplementsOwnership`: initial states map to
  initial states, and each action to `Take`, `Refuse`, `Revoke`, `Finish` or a stutter. From it, `NeverRegisteredAgain`: who lost its Presence or is
  over never owns it again. `DisplacedDrainsHolds` is the safety half of `OwnershipSpec`: a Presence leads only to a connection that authenticated as it
  (`Keyed`), so a displaced one is in no entry from which `send`, `register` or `close` could take its sender; the senders that are out give
  themselves up as they are used. What remains for fairness is that those who hold one go on, and that `recv` is polled.
- `SignalingRelayProofs`. None of the properties is inductive alone, since handlers write copies they have read
  earlier; each invariant says of every copy in a handler's hand what it says of the store.
  - `StoredWellFormedHolds`, `HostConsentsHolds`: by `AllSound`, a copy is well formed and, if accepted, accepted by the target of
    its binding. Consent is never taken back (`StepKeepsConsent`), so an old copy stays sound; `RegisterWellFormed` says that a
    registered message keeps a session well formed.
  - `NoOverstayHolds`: by `Timely`, what is stored, and every copy that is to be written back, expires no later than SessionTtl after the last
    JOIN_REQUEST of its binding, a copy on its way has no more time with it than was left of that when it was sent (`Due`), and Redis drops what
    is stored no later than `MaxDelay` after its own expiry, nor a whole second before it. A binding's beginning only moves on (`StepKeepsBeginnings`),
    no register_* method changes the expiry, and whole seconds are no more than the time they are of (`WholeSeconds`).
  - `SingleOfferHolds`, for Presences that connect once (`ConnectsOnce`): by `Offered`, as long as the target holds a copy from before the OFFER, the
    binding has no OFFER, and neither the store nor the initiator's copy is accepted; so the initiator, whose OFFER needs the acceptance,
    cannot offer until that copy is written. The initiator in turn knows of its own OFFER (`InitiatorKnows`).
  - `WorkShrinksHolds` is the safety half of `HandlerReturns` and `CleanupEnds`: each step lowers a measure that no step of anybody else raises.
    A text takes six steps at most; a cleanup first takes the ids SMEMBERS answers, finitely many (`Finite`; one command adds one id at most,
    `IndexGrowsByOne`), and then three for each. `StepLeads` goes through the actions, `LeadsNearer` counts. What remains for fairness is that
    the steps are taken.
- `SignalingCleanupProofs`: `DisconnectDeletesHolds`, for a server that stays up (`ServeSpec`; a crash runs no cleanup) and for Presences that
  connect once, and for any times of sessions and indexes. Its invariant says where each connection stands
  (`Placed`), that only one being served is registered (`Owners`), and that
  each stored session is taken care of (`CaredFor`): before the SMEMBERS it is in the index, or the index has lapsed and lost it (`unlisted`), after it among those
  to be deleted, or about to be deleted by the handler that wrote it and will find nobody to forward to.
- `TokenLife`: `NeverAgainHolds`, that a token that was current and is no more never is again: by `LifeInvariant`, no two Presences have one
  token, and the tokens still to be drawn are not in use; what was replaced is no longer to be drawn.
- `RuntimeInstancesProofs`.
  - `OneTokenHolds` and `ClosedForGoodHolds` follow from `Consistent`: what was not
    drawn is nowhere (`Drawn`), a Presence still to be registered has no keys and is not closed (`Unregistered`), and
    a token other than the mapping's is gone, or the mapping is (`Bound`). The scripts compare the token presented
    with the mapping, so a request that was authenticated in time but comes late changes nothing.
  - `PresenceEndsHolds`: by `Passing`, a Presence of a closed instance ends in time, and a request that may still store it began before
    the closure; `InTime` ends it.
  - `TokenLastsHolds`: by `Held`, only the request that drew a token knows it before it is answered, so no roll back meets a token a client
    has; by `Enduring`, a known token that was not ended is stored with its expiry, and who is about to delete it as expired has
    seen its expiry pass.
  - `LimitUnlessOustedHolds`: by `Slotted`, who is leased and was not ousted has a slot with the score of its lease, mapping or not, and the slots of those who were not ousted
    are no more than the limit: a script that registers counts all of them, a renewal either finds its slot or is ousted. A slot
    goes for good only when no token of its Presence is left (`Deserted`, by `OneToken` and `Bound`).
  - `TokensLiveHolds`, the refinement of `TokenLife`: a registration that finds room is an `Issue`, a rotation a `Renew`; the closing
    script, a roll back, the deletion of an expired token and the end of a lease are `End`s, and so, of no Presence, is a request that gives up what it has drawn. It takes `Matched`: a stored token was drawn, its mapping
    leads to a lease of its own Presence, and a request that deletes as expired deletes the mapping of the lease's own Presence; otherwise a
    rotation could end a token of one Presence for another's. `NothingComesBack` is `NeverAgainHolds` brought down by the refinement: no
    interleaving of renewals, closures, roll backs, lost answers and expiries makes a token valid again.
- `InstanceConnectionsProofs`. `NobodySlipsIn` (`ClosedServesLate`) by `ServeInv`: a connection that is yet to register has authenticated
  (`Authenticated`), no token comes back after the last one (`Final`), so that whoever registers after the closure is in `late`
  (`ClosedAdmitsLate`). `LivingNeverFill` (`RefusedForGone`) counts: by `SlotInv`, who lives and was not ousted has a slot, and those slots are no more than
  `MaxInstances`, by assumption no more than `MaxPerProfile` (5 and 8 in the code); a registry that is full without a connection of one that is gone or ousted
  would have more. `StaleStays` (`StaleForGood`): numbers of tokens only
  grow and none follows 0, and a connection never changes the one it has authenticated with, so the heartbeat that finds it stale
  need not hurry.
- `PresenceDirectoryProofs`. `IndexIsSound`, `StaysListed`, `ReadsAll`, `BucketsLapse` by one invariant over scores, expiries and what each reader
  has still to read, for any delay of `Put`. Assumption: a publish asks for at least a second.
- `FriendProjectionProofs`. `NeverTwoRequests`, `ReplacesAll`, `AnswersSoundly`, `NeverGaps` by one invariant over the rows each transaction
  has written, for any number of profiles, pairs and requests: two transactions never hold rows with one key, what is visited is
  official or changed by others, and what is deleted and not in the answer goes only with the commit.
  The safety half of `SyncEnds`: `SyncShrinksHolds` (every change of a request in progress, its own steps, failures and the commits of others,
  leaves an earlier part of the work behind or takes a row off the part at hand), `WorkIsFinite` (those rows are finitely many, of infinitely
  many profiles too) and `NobodyHoldsUpAfterwards` (whom a request waits for is in its transaction).

Only model-checked: the liveness properties (`OwnershipSpec` beyond its safety part, `HandlerReturns`, `CleanupEnds`,
`StaleTokenEnds`, `GoneIsForgotten`, `SyncEnds`), which are out of the prover's reach: they rest on fairness and ENABLED. Of the first
three and of `SyncEnds` the argument is proved as an action property (`DisplacedDrains`, `WorkShrinks`, `SyncShrinks`), and of `StaleTokenEnds` that stale is final (`StaleForGood`).

## Not modelled

Validation of texts and headers; the profile cache (nothing reads it for a decision), TURN credentials (a stateless
HMAC), terms, health, metrics, configuration, nonces (no caller); the Minecraft session and profile requests, which keep no state;
the settings of the official friends service, which are passed on; the other rate-limit buckets, counted by the same script.
The friendship check of a text, whose answer is arbitrary between two synchronisations. The deletion of the
sessions at the end of `close`, which is the cleanup after a disconnect. Slow or silent sockets; several server processes (the document asks for a single one as long as the registry is local).
`PROJECT.json` gives the reason for each component, and names the hazards no property covers yet.

## What could come next

1. The lapse of `presence-signaling-sessions` with two sessions of different age, and two guests that share a session id; both need a relay with
   more sessions or peers than TLC can take with time in it.
2. An abstract signaling protocol (one session, its peers, who may say what when) that `SignalingRelay` implements up
   to lost updates.
3. Sockets that do not read, and the missing time limit on writes.
