# LFT backend: specification, model checking and proofs

The backend (NestJS, TypeORM, PostgreSQL) lets League of Legends players open a
*room*, apply for a position in somebody else's room, and chat with the members.
This directory holds TLA+ modules translated from `src/src`, TLC configurations
that check them on small instances, and theorems that TLAPS has checked.
`PROJECT.json` maps every definition to the lines it stands for.

## 1. Inventory

| Component | State | Operations | Interacts with | Correct when |
|---|---|---|---|---|
| League rooms (`league/rooms`) | `league_room`: date, demanded positions, deletedAt | create, update (date, positions, owner), leave, remove, search | applications (same aggregate, saved together), accounts | one owner; a filled position is not demanded; a removed room is final |
| Room applications (`league/rooms/applications`) | `league_room_application`: status, isOwner, position, applicant | apply, approve, reject, list | rooms, guard | a decision is final for removed rooms; no row is lost |
| League accounts (`league/users`, `league/riotApi`) | `league_user`: summoner, region, positions; the reference in `user_games` | create, update (both ask Riot first), delete | applications (cascade), users (their save cascades to the account), Riot API | one account per user; Riot knows it in its region; its positions differ; deletion is final |
| Users, password reset (`users`) | `user`: password, code, sentAt, verifiedAt | register, login, change password, send code, use code | notifications, auth, accounts | only who is entitled changes a password; guesses are slowed down |
| Authentication, roles (`auth`, `roles`) | none (JWT) | issue, verify, refresh | users | a token names an existing user |
| Notifications (`shared/notification`, `shared/mailer`) | `notification`: status | send | users, mail provider | its status tells the truth; every notification is settled |
| Room chat (`chat`) | `room_chat_message`, socket.io rooms | subscribe, unsubscribe, send, fetch | guard on APPROVED rows | who receives has been a member; what is received is stored, in order |
| Search and paging (`shared/page`, `boilerplate.polyfill.ts`) | none | filters, count, page, links | rooms, accounts | the pages show the list; what is shown can be used |
| Games, configuration, tickets | one row each | one insert or one read | - | - |
| HTTP plumbing, bootstrap, migrations | schema constraints | - | all | - |

Hard to test here: every handler reads rows into entities, changes them in
memory and calls TypeORM's `save()`, which compares each column with the table
and writes those that differ. There is no lock, no version column and (but for
the approval, whose reads precede it) no transaction around read and write, so
any two requests for one room can interleave at every `await`. Guards are one
more query, made earlier. Saving a user writes his account as well, which is
loaded eagerly with him. The chat awaits its guards before and its store after a
broadcast, a search sees the table at four moments per page, and a notification
is several awaits that may each be rejected, with nothing that resumes it. Sequentially, the protocol is unusual as well: a user
may apply any number of times, approve and reject do not look at the current
status, the ownership can go to any applicant, and the account of an owner can
be deleted. `PROJECT.json` lists these hazards at their lines.

## 2. Modules

| Module | Models |
|---|---|
| `RoomLifecycle` | One room and the applications to it; every handler is one atomic step |
| `RoomRequests` | The same handlers split at their awaits, several in flight, with the columns `save()` compares and writes; `INSTANCE RoomLifecycle` is its abstract specification |
| `PasswordReset` | One user's password, verification code and cooldowns, several requests in flight, the clock |
| `LeagueAccount` | What the rest of the program may rely on of a user's account: an abstract specification |
| `LeagueAccounts` | What the code does: creation, update and deletion around the calls to Riot, and saves of the user, several in flight; `INSTANCE LeagueAccount` is its abstract specification |
| `Notifications` | From storing a verification code to the answer: notification, handlers, rejected promises, crashes |
| `RoomChat` | The chat of a room, composed with `RoomLifecycle` (EXTENDS): every step of a room is a step of `RoomChat` |
| `RoomSearch` | A client paging through a search while rooms, account and clock change |
| `RoomLifecycleProofs`, `RoomRequestsProofs`, `PasswordResetProofs`, `LeagueAccountsProofs`, `NotificationsProofs`, `RoomChatProofs`, `RoomSearchProofs` | The theorems about the module each is named after, and the lemmas they rest on |
| `MCRoomLifecycle`, `MCRoomRequests`, `MCPasswordReset`, `MCLeagueAccounts`, `MCNotifications`, `MCRoomChat`, `MCRoomSearch` | Small instances |

**RoomLifecycle.** Rooms share no rows, so one room is enough. The variables are
the columns that decide anything: `room` (absent, live, or removed = deletedAt
set), `date`, `demanded` (the array as a bag), `status` and `owners` of the
application rows, `accounts`, and the clock `now`. A row is named by its
immutable columns (user, position, and a number, since a user may apply twice
for one position). Refused requests are no steps. Where the code takes "the" row
of a user with `getOne()`, the model takes any. `MaxDemand` and `MaxTime` are
bounds of the model; the others are parameters.

**RoomRequests.** A slot of `requests` is a handler in flight:
`idle -> admitted` (guard query) `-> saving` (rows loaded and changed in memory)
`-> ... -> answer -> idle`. While saving, the SELECTs of `save()` for the rows
and for the room are two steps (`CompareRows`, `CompareRoom`), each of which
keeps only the columns that differ; `Commit` writes them. `leaveRoom` reads the
room and its own row in either order (`Promise.all`). `End` may happen at any
step: an answer, an error or a crash, after which memory is lost. The NOT NULL
and foreign key constraints of the migration are the guard of `Commit`.
`Kinds` and `Overlapping` choose which handlers clients call, and which of them
while another request is in flight.

**PasswordReset.** Users share no rows, so one user is enough. `user` holds the
four columns that the handlers use; a password is a choice and the number of
times it was hashed, so that a hash that is hashed again is visible. A request
loads the row and changes it in one step, since nothing it awaits in between
(`bcrypt.compare`) depends on the row; `save()` is two steps, `Compare` (SELECT,
`UserSubscriber`, column differences) and `Write` (UPDATE). A reset saves twice:
`then` is the password it sets once the guess is recorded. `Mail` stands for the
notification that follows a new code and may fail; `Fail` loses a request at any
step. `guesses` is a history variable: it counts the recorded guesses since the
last code. A guess that matches no code is 0.

**LeagueAccounts.** Requests touch the rows of their own user only, so one user
is enough. `rows` are the `league_user` rows by id, `link` is the nullable
reference in `user_games`. A request loads, asks Riot and is checked in one step
(Riot's answer depends on nothing here); then `save()` compares the row
(`CompareRow`) and the reference (`CompareLink`), and `Commit` writes what
differs. A row that has gone in the meantime is inserted again: that is what
TypeORM's cascade does. `LoadUser` stands for every handler that saves the user.
Some overlaps leave something behind; `met` remembers which kinds of requests
have overlapped, and each property names exactly the overlaps that break it.

**Notifications.** The n-th request for a code generates code n and notification
n. `row` is the stored status, `status` that of the entity in memory; they
differ between two saves. `accepted` and `refused` are what the provider and the
caller saw of a mail: after a lost answer it is in both. The application
configures one handler; the loop is modelled for any list, and the run takes
two.

**RoomChat.** An event is admitted by the guards (a query), then handled in one
step without an await, and a message it broadcasts is stored later, or never.
`RoomStep` is any step of `RoomLifecycle`; nothing tells the gateway of it.
`wereMembers` is a history variable.

**RoomSearch.** A request is `asked -> loaded (the account) -> counted -> picked
(the ids of the page) -> answered (the rows)`; any change may come between. The
list is what the two queries say. `IsOpen` needs an approved member, `IsOwn` only
the client's own row: `searchUserRooms` binds the parameter `status` twice, and
the queried status wins in both joins. A page is a slice (`Page`) of the order by
date and id, since TypeORM appends the primary key to the order of a query with
joins and a limit; rooms are numbers because of it. The rooms change as the
handlers of `RoomLifecycle` change what the queries see: the first demanded
position and whether there is one, the client's own row and whether anybody else
is approved. A position is demanded once, and not while the client holds it
(`HeldByClient`): the DTOs drop what is named twice, and `NoDoubleBooking` is
shown in `RoomLifecycle`. One `UpdateRoom` changes the date, the positions or
both. `drift` counts the changes that mattered to the walk under way, `steady`
keeps the rooms that were on the list all along at one date, and `fresh` those
that were shown last and have not been touched since.

## 3. Runs

| Run | Instance | Shows |
|---|---|---|
| `room_lifecycle` | 3 users, 2 positions, 5 rows (two of one user, for two positions and twice for one), 2 copies, 2 instants | all invariants and step properties of the atomic handlers: a removed room is final, one owner, places are moved and not lost, whoever waits can be answered |
| `serial_requests` | 1 slot, 2 users, 3 rows, all handlers | `RoomRequests` implements `RoomLifecycle` when requests do not overlap |
| `overlapping_requests` | 2 slots, 2 users, 3 rows | no application is lost and no row outlives its account, whatever overlaps |
| `leave_picks_any_row` | as `room_lifecycle` | a test expects who leaves to be gone; with two applications he may stay |
| `apply_overlaps_remove` | 2 slots, 3 users, 3 rows, only the handlers named | a test expects a removed room to be gone; an application that was under way brings it back |
| `password_reset` | 1 slot, 2 passwords, 2 codes, 7 instants, cooldowns of 3 and 2 | the cooldowns bound the guesses although a new code clears the second one; only who is entitled changes the password; it stays usable |
| `guess_overlaps_update` | 2 slots | a test expects a wrong guess to leave the password alone; an overlapping change of the password is undone |
| `league_accounts` | 2 slots, 3 regions (Riot finds the summoner in two), 3 positions, 2 rows | Riot knows every row, whatever overlaps; the exact overlaps that leave a second account, equal positions or a revived account; without them the refinement of `LeagueAccount` |
| `notifications` | 3 requests, 2 handlers | status, answer and stored code tell the truth about the mail under rejections and crashes; every notification is settled |
| `room_chat` | 2 users, 2 positions, 2 rows, 1 event between guard and handler, 2 messages | only who has been a member receives, a removed room falls silent, the history keeps the order, a broadcast is stored unless its save fails; who leaves cannot unsubscribe |
| `room_search` | 3 rooms, two of them at one date, 3 searches (open rooms for a position in pages of 1, his own rooms where he is a member in pages of 2, where he waits in pages of 1), 2 changes | the pages show every room once when nothing changes, and are off by at most one room per change otherwise; what is shown can be used |
| `next_link_drops_filters` | as `room_search`, 1 change | a comment calls `next` a link to the next page; it leads to a page without the filters |

*Bounds.* Two positions let one be filled and one demanded; three users are an
owner, a member and an applicant; a user with two rows is the case in which
`getOne()` matters; two instants are before and after a date. A lost update
needs two requests, and the constraints are about one row and one other request.
`overlapping_requests` leaves `update` and `reject` out: they save the same
columns as `remove` and `approve`, and with them the run does not end in
minutes. In `password_reset` one slot
is the assumption, not a bound, of all but `NeverPlainText`, which is proved for
any number. Seven instants hold two codes and two guesses after each; of the cooldowns only
their order matters (60 s and 10 s in the code), and both are above one instant
so that an early retry exists. `MaxHashes` cuts off passwords hashed more than
twice: once more than allowed is enough to break `PasswordIsUsable`. `guesses`
stops at `MaxTime + 2`, where `GuessesLimited` has failed already.
In `league_accounts` three positions let two updates change one each and meet in
the third; two rows are a first account and its successor or double. Three
requests for a code are one that is mailed, one that overlaps it and one after a
crash. In `room_chat` one event at a time lies between its guard and its handler
(any steps of the room come between), and two messages can be stored out of
order. In `room_search` three rooms and pages of one are a first, a middle and a
last page; two rooms of one date are told apart by their ids, also across the
edge of a page; two changes are one that takes a room off a page and one that puts
another on; changes before the walk are left to the initial states. Pages of 10
to 50 rows differ from pages of 1 and 2 in nothing the properties speak of.
`SlotSymmetry` and `Interchangeable` are sound where they are used: slots,
positions and the regions Riot answers alike for are interchangeable, and no
liveness is checked there. Deadlock checking is off because bounded clocks,
requests and changes let the model stop.

*Fairness.* The two modules with liveness assume weak fairness of what goes on by
itself once it has begun: in `Notifications` of every request that was accepted
(`Proceed`), in `RoomChat` of every awaited save. The code justifies it: the
event loop runs every continuation, and each awaited promise (database, mail
provider) resolves or rejects; that it may reject is part of the action. Clients,
crashes and the clock are under no fairness. `LeagueAccounts`, `RoomSearch` and
the rooms have safety properties only.

## 4. Proofs

Every invariant, step property and refinement that a passing run checks is also
a theorem, for every value of the constants that satisfies the assumptions of
the modules. These say no more than the code does: the regions, positions and
summoners are any sets (the positions, and in `RoomSearch` the rooms, finite
ones, as an enum and a table are; the rooms of `RoomSearch` are integers, for the
order of their ids), rows are made of users and positions, the
list of handlers has one at least, page sizes are positive, bounds are natural
numbers. An inductive invariant was checked with TLC on the instance of its run
before it was proved.

`RoomLifecycleProofs`:

- `TypeCorrect`: `TypeOK` is inductive as it stands.
- `RemovedRoomIsQuiescent`, `RoomHasOneOwner`: inductive relative to `TypeOK`.
  In the first, the point is that no handler that sets PENDING or APPROVED is
  enabled once the room is removed.
- `PositionsAreNotDoubleBooked`: not inductive alone, because before the room
  exists nothing forbids rows. The inductive invariant adds
  `NoRowsBeforeCreation`; `SingleApplicationsBefore` shows that if nobody has
  two rows after a step, nobody had before, so the property held there.
- `PendingApplicationsReachOwner` follows from these invariants.
- `RemovedRoomIsFrozen`, `OwnerIsLostOnlyWithAccount`, `OwnerlessRoomStaysStuck`,
  `LiveRoomKeepsPlaces`: step properties, one case per handler. The last one
  counts: places are the cardinality of two sets, and each handler moves one
  element between them.

`RoomRequestsProofs`:

- `RequestsAreTyped`, `RowsHaveAccounts`, `ApplicationsAreNeverLost`: any number
  of slots, any overlap. `RequestsInv` types the columns in flight one by one:
  a commit mixes columns of two requests, so a type of the whole would not be
  kept.
- `SingleRequestsAreAtomic`: with one slot, `RSpec => Serial!Spec`, where
  `SerialNow` dates a handler to the moment it loaded its rows. `SerialInv` says
  of each kind of request how what it holds in memory follows from the tables,
  which nobody else has changed; every step up to the commit is then a stutter,
  the commit is the handler, and the clock catches up when the request is over.
- `SerialRequestsKeepRoomsInOrder` carries four invariants of `RoomLifecycle`
  through this refinement to every await of the handlers.

`PasswordResetProofs`:

- `PasswordTypeCorrect`: inductive, for any number of slots.
- `PasswordNeverInPlainText`: any number of slots. The row alone is not
  inductive; `HashedBeforeWriting` adds that what is about to be written has
  been hashed, which holds because a plain password never equals a stored one.
- `PasswordStaysUsable`, `GuessesAreLimited`, `ChangesAreEntitled`: under
  `OneRequest` (at most one slot), as in `password_reset`; two overlapping
  requests break the first and the last (`guess_overlaps_update`). They follow
  from `SerialInv`, which says how the entity of a request differs from the row
  it was loaded from (`EntityInv`), and, of the row, that the guesses are bounded
  by the time of the last one (`UserInv`). The cooldowns are any positive
  numbers.

`LeagueAccountsProofs`, for any number of slots:

- `AccountsAreTyped`: from `AccountsInv`, which adds the foreign key, what a save
  of each kind may hold before and after each of its two comparisons
  (`SaveShape`), and that an insert writes all columns.
- `RiotKnowsAccounts`: that every row is known to Riot is not inductive, since an
  update writes its region into whatever row it finds. `OneSummoner` adds that
  all writes that aim at a row, and the row, have one summoner: a region that is
  written was accepted for it.
- `DeletionsAreFinal`, `AccountsAreReferredTo`, `PositionsAreTwo`: each holds
  until an overlap that it names. `Overlaps` says that `met` has seen every pair
  of requests that are in flight; `RowsAreThere`, `OneAccount` and `TwoPositions`
  say what requests that do not overlap may rely on. `TwoPositions` needs that
  any number of saves of the user agree with the row and with each other.
- `AccountIsImplemented`: the steps of `LeagueAccounts` are steps of
  `LeagueAccount` or stutters as long as `met` is empty, one case per kind of
  request.

`NotificationsProofs`, for any handlers and any number of requests: one invariant,
`NotificationInv`, says at each await which handlers have been called and
fulfilled (`Calls`) and how far the row lags behind the entity (`Stage`).

`RoomChatProofs`: `RoomsAreUnawareOfChat` shows that the chat takes no step of the
room, so everything proved of rooms holds beside it. `OnlyMembersSubscribe` needs
that whoever is between guard and handler has been let in (`LetIn`);
`HistoryIsInOrder` that messages were created one after the other;
`RemovedRoomsFallSilent` uses `RemovedRoomQuiescent`.

`RoomSearchProofs`, for any rooms, page sizes and numbers of changes:

- `SearchIsTyped`: the pages are bounded because a next page exists only below
  the number of pages of a count, which is one of rooms (`PagesAreRooms`).
  `FoundRoomsCanBeUsed`: while nothing changes, the rooms of every query still
  match (`FoundStillMatches`).
- `QuietWalksShowEveryRoom`: the order by date and id gives every room of the
  list a place of its own (`RanksOfRooms`), and as long as nothing changes each
  query sees the same list (`ListStays`). `QuietInv` states after every page that
  exactly the rooms of the pages so far have been shown, once; the last page ends
  behind the last row (`PagesAreEnough`).
- `DriftsAreBounded`: a steady room is shown by the page on which its rank, the
  number of rows before it, falls (`Page`); so it is missed only if its
  rank crosses the edge of the pages seen from below, and shown again only if it
  crosses from above. Different rooms have different ranks (`RanksOfRooms`),
  and a room that comes, goes or moves shifts ranks by one at most: it carries at
  most one of them over the edge (`RoomsCrossing`). `DriftInv` adds up, for both directions, what
  has crossed so far. `Uncounted` is by how much the list is longer than the
  count that ends the walk: that many rooms at most stand behind its last page
  (`BeyondIsUncounted`).

Only model-checked: the two liveness properties, `NotificationsSettle` and
`BroadcastIsStored` (liveness under fairness and ENABLED are out of the prover's
reach), and the four runs that expect a violation, which show what is false.
There are no recursive definitions.

## 5. Plan

All modules of the plan are written, and all their safety properties proved.
What is left, the most telling first:

1. What overlapping requests for a room can do at worst, as one theorem: which
   columns of a commit may be stale, for the kinds of requests in flight.
2. The step properties of `RoomLifecycle` for `RoomRequests` with one slot,
   carried over as `SerialRequestsKeepRoomsInOrder` does for the invariants.
3. Of the two liveness properties, the safety half: that a notification that is
   not settled is in the hands of a request, or was lost in a crash.

## 6. Not modelled

Authentication and roles keep no state: the token of an HTTP request is a
signature and an expiry, that of a websocket is decoded and its user looked up
(`jwt-websockets-auth.guard.ts:31` does not verify it), a role is a comparison. Password hashing, JWT signatures, mail and Riot payloads belong
to libraries and services. Serializers, filters and logging are stateless. Game
configuration and tickets are one statement each, which no other request reads
back. Registration is an insert guarded by a unique index. Descriptions of rooms
and the `retries` of notifications are read by no decision.

What overlapping updates of one room do to each other is only shown where a test
of the repository contradicts it: the invariants of `RoomLifecycle` about owners
and demanded positions are claims about requests that do not overlap.
