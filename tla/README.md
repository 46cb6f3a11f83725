# Drug cards: specifications and proofs

TLA+ models of two parts of this repository, the TLC runs that check them, and
TLAPS proofs about them:

* the drug-card app in `src/lib` (Flutter/Dart, about 6900 lines, no tests). It
  shows cards from Firestore, lets people sign up and in, search the cards, write
  notes under them, and counts new notifications on a bell;
* of the OpenSSL 1.0.2h sources in `src/openssl-1.0.2h`, three state machines: BIO
  pairs (`crypto/bio/bss_bio.c`), the DTLS record layer (`ssl/d1_pkt.c`), and the
  DTLS handshake with its timers, retransmission and reassembly (`ssl/d1_both.c`,
  `d1_lib.c`, `d1_clnt.c`, `d1_srvr.c`). Nothing in the app refers to these sources;
  they are modelled for themselves.

In the app the state that can go wrong is spread over five places that are written at
different times: the fields of the `ChangeNotifier` blocs, the fields of the
pages, SharedPreferences (memory and disk), the device's queue of unsent
Firestore writes, and the server. Dart runs one turn of the event loop at a
time, so everything between two `await`s is atomic and everything across an
`await` is not. **An action of a model is one turn.** Builds are release builds:
Dart `assert`s are off. In the OpenSSL modules an action is one call of the API, or
one turn of a loop that a call may be interrupted at.

## 1. Inventory

| Part | State | Operations | Talks to | What is hard | What makes it correct |
|---|---|---|---|---|---|
| **Session**: `blocs/sign_in_bloc.dart`, `pages/sign_up.dart`, `sign_in.dart`, `welcome_page.dart`, `profile.dart`, `main.dart` | `_name`, `_email`, `_imageUrl`, `_uid`; preferences `signed in`, `name`, `email`, `image url`, `uid`; Firebase accounts and `currentUser`; `users/<uid>` | submit of two forms (chains of up to nine awaits), launch check, logout, walking between pages | Firebase Auth, Firestore, SharedPreferences, UserBloc, every page | a flag and a `clear()` nobody awaits; fields read after an await; two submissions at once; a page gone under its handler; death between two writes | a device starts signed in as one registered person with a whole profile, or as nobody |
| **UserBloc** `blocs/user_bloc.dart` | copies of four preferences | `getUserData`; love and bookmark handlers (no page in use calls them) | preferences, `users`, `contents` | copy outlives a logout; read-modify-write of `loves` | the pages show, and sign notes as, the user who is signed in |
| **Notes** `blocs/comments_bloc.dart`, `pages/comments.dart` | page field `comment`, `contents/<card>/comments`, each device's queue | send, confirm a delete, list own notes | Firestore, preferences, InternetBloc, UserBloc | fields and uid read after an await; writes not awaited; ids made of uid and second; stale list | no note is lost, replaced or deleted by another person |
| **Notification badge** `blocs/notification_bloc.dart`, bell of `pages/home.dart` and `obstetrics.dart`, `pages/notification.dart` | `_ndata`, three counters, preference `saved length` | fetch, reload, touch the bell, build | Firestore, preferences, logout | two start-up calls race; `_ndata` never cleared; the bell does not listen | never an empty badge; nothing unseen is acknowledged |
| **Card search** `blocs/popular_bloc.dart`, `pages/search_page.dart` | `_popularData`, `_filteredData`, text field | fetch, type, clear, touch | Firestore, details page | indexes kept across changes of two lists; lists outlive the page | what is shown exists, matches the text, and opens what was touched |
| **Card feeds and tabs** `blocs/news_data_bloc.dart`, `recent_bloc.dart`, `obstetrics_data_bloc.dart`, `tabs/*`, `widgets/featured.dart`, category lists | one list each; what the open tab was built with | one fetch each, filter by category, open a tab, touch | Firestore, details pages | NewsDataBloc notifies nobody; no second fetch after a failure; words, labels and categories in eleven files; items that index a live list | no tab keeps an old list; no card is under another label, or in two tabs; loading ends |
| **Bookmarks** `blocs/bookmark_bloc.dart`, `pages/bookmark.dart` | `_data` | `getData` at every start of a home page | preferences, `users`, `contents` | two runs clear first and fill later | each card once (nobody reads the list today) |
| **Connectivity** `blocs/internet_bloc.dart` | `_hasInternet`, shared by all callers | `checkInternet` | Session, Notes | a caller reads another caller's answer | |
| **Home, bottom, drawer** | current tab, Firebase Messaging handlers | switch tab, open profile, open notifications on a push message | all blocs | `initState` runs again at every tab | |
| Password reset, details pages, small widgets | none of their own | one call, or layout | | | |
| Pages nothing opens (`intro`, `category*`, `more_news`, `RegionalDataBloc`, four widgets) | | | | | not reachable |
| Platform shells | | | | | generated |
| **BIO pairs** `crypto/bio/bss_bio.c` | per BIO: peer, ring buffer (`buf`, `offset`, `len`, `size`), `closed`, `request` | create, pair, resize, read, write (copying or not), shut, reset, part, free | the peer's struct | reads and writes wrap; buffers survive a pairing; the second allocation may fail | each direction is a pipe |
| **DTLS records** `ssl/d1_pkt.c`, `crypto/pqueue` | epochs, two replay bitmaps, three record queues, write sequence numbers | write, retransmit, read, process buffered records, change cipher spec | the network, the handshake | records of the next epoch come early; a retransmission crosses an epoch; data between ChangeCipherSpec and Finished waits | no record goes up twice, no number names two records, no data precedes its Finished |
| **DTLS handshake** `ssl/d1_both.c`, `d1_lib.c`, `d1_clnt.c`, `d1_srvr.c` | state, message numbers, `sent_messages`, `buffered_messages`, timer, timeout counts, MTU | send, read, reassemble, time out, retransmit | the records, the other end | losses, overtaking, timers on one side only, fragments of two sizes | no end gives up, nobody waits for nobody, both finish |
| The rest of OpenSSL (ciphers, bignums, ASN.1, X.509, TLS over streams, commands, tests) | | | | | see section 7 |

`PROJECT.json` has the same parts with their status, and under `hazards` every
place in the code where a test would hardly reach, with the property that covers
it or the reason that none does. Handlers that nothing calls (love, bookmark, the list of
BookmarkBloc) are left out of it until something does.

`NewsDataBloc`, `BookmarkBloc`, `NotificationBloc` and `InternetBloc` are built
at launch (`lazy: false`), the other blocs at first use; `isSignedIn` changes
only in `checkSignIn`, once per launch.

## 2. Modules

| Module | What it is |
|---|---|
| `SessionContract` | abstract: a device holds one registered person's session, or none |
| `Session` | the login in detail; implements `SessionContract` |
| `SessionProofs` | theorems about `Session`: types, the disk and the queue; then the pages and the refinement |
| `NoteBoard` | abstract: notes appear once, under the name of their session, removed ones stay away, and none takes an author's note's place |
| `Notes` | notes on several devices; implements `NoteBoard` |
| `NotesMC`, `NotesProofs` | symmetry for TLC; theorems |
| `NotificationBadge`, `NotificationBadgeProofs` | the bell; theorems |
| `CardSearch`, `CardSearchMC`, `CardSearchProofs` | the search; its instance for TLC; theorems |
| `CardFeeds`, `CardFeedsMC`, `CardFeedsProofs` | feeds and tabs; instances; theorems |
| `BytePipe` | abstract: a pipe each way between the two ends of a pair |
| `BioPair`, `BioPairMC`, `BioPairProofs` | BIO pairs; implements `BytePipe`; symmetry for TLC; theorems |
| `DatagramOnce` | abstract: a network that loses and reorders, numbers no two records alike and delivers none twice |
| `DtlsRecords`, `DtlsRecordsProofs` | the record layer; implements `DatagramOnce`; theorems |
| `DtlsHandshake`, `DtlsHandshakeProofs` | client, server, network and clock; theorems |

`Session` composes SignInBloc, both authentication pages, UserBloc, the logout
and the three services they share. `Notes` keeps two values of it per device, the
preference `uid` (`user`) and UserBloc's copy (`ub`), which `Login` sets together: that
they agree on a home page is `UserBlocFresh` of `Session`, proved for one submission at
a time; for overlapping ones it is an assumption of `Notes`. They come apart when a
logout leaves the pages open. `NotificationBadge` sees of the
session only that a logout clears `saved length`. `DtlsHandshake` composes the two
ends with a network that loses and reorders but repeats nothing and damages nothing:
that the record layer makes such a network of a worse one is `RecordsAreDatagrams`,
checked and proved of `DtlsRecords`.

An operator `Bug...` stands before the operator it spoils: a plausible mistake in
that code (a dropped guard, a missing reset, another order). No specification uses
it; put in the place of the right one, it makes TLC report the property it is
listed with under `mutants`.

### Session

| Variable | Code |
|---|---|
| `bloc`, `ub` | the four fields of SignInBloc and of UserBloc |
| `cache`, `disk`, `pending` | SharedPreferences: setters change memory at once and send a platform write; writes reach the disk first in, first out |
| `docs`, `outbox` | `users/<uid>` on the server, and the device's unacknowledged write of it |
| `accounts`, `authUser` | Firebase Auth's users and `currentUser` |
| `flows[f].pc` | where a submit handler waits: `check1`, `check2` (the two `checkInternet`), `auth`, `created` (account made, answer on its way), `profile` (`getUserData`), `prefs` with `at` = 1..4 (`saveDataToSP`), `saving` (`ref.set`), `nav` (the timer of one second) |
| `flows[f].mounted` | whether the page the handler belongs to is still there |
| `screen` | page, profile on top or not, the launch check, `initState`'s `getUserData`, a logout waiting for `signOut` |

Values are abstracted to the person they belong to, so that "a mixture of two
people" is expressible and letters are not. Handlers are followed through every
await and every way out: an invalid form, no connection, an error of Firebase, an
answer that is lost, a missing document (`snap.data()` is null), a refused
document, a page that is gone (`setState` throws; `nextScreenReplace` has a dead
context). `Restart` can come at any step.

### Notes

`flows` are runs of `handleSubmit` and of a confirmed `handleDelete`, each waiting
for `checkInternet`; after it they read `comment` (the State's field, kept by the
handler when the page is left: `onPage`, `text`), the uid, and the second.
`outbox[d]` is Firestore's queue of device `d`. `device[d]` is its session (`user`, `ub`),
whether pages behind the sign-in are open (`inside`), and CommentsPage. `Logout` is what
`Yes` does after `signOut`: `clear()`, then the way to WelcomePage through the context of
the dialog that was popped before. If that context is gone by then, the pages stay, and
CommentsPage can be opened and used on them: the list shows the notes of UserBloc's user
until a home page asks again (`LoadUser`), a note is saved under the uid null
(`"unsigned"`, no accepted note), and of the notes only nobody's can be deleted. Two
such notes of one second have one name, whoever sent them, so `NoteBoard` lets nobody's
note take the place of nobody's; an author's note it never lets go but by a removal.
`fate`, `used` and `posted` are history. `ListAnswered` reads when the answer comes; an older answer shows a state
that an earlier `ListAnswered` would have shown. The name on a note, its card and
its date travel with the text and are not told apart from it.

### NotificationBadge

Lists are their lengths. `Build` sets `badge` from three counters as `HomePage`
does, and nothing else does, because the bell does not listen. The loop over
`contents` in `getData` compares documents with strings and so adds nothing;
its query still delays, or fails, the second one.

### CardSearch

A card stands for its document and `Matches` for `contains`. `shown` is what the
last frame built; `touched` the card under the finger and `details` the card that
opened: a touch indexes the list of the bloc as it is *then*. An item of a search
takes its date from the list that was not searched, at the same index, as
`search_page.dart:274` does. The `where` of `afterSearch` is `Searched`: the i-th of
the cards it keeps is the one with i kept cards up to it. `CardSearchMC` has TLC compare
it with `SelectSeq` for every list of up to four cards.

### CardFeeds

A feed is what its `getData` waits for, its list, and whether the last change of
the list was told to listeners (`told`): NewsDataBloc never tells, and a sort that
meets a card without `timestamp` throws before `notifyListeners`. Tabs 0 to 9 are
`Tab0` to `Tab9`, 10 is `ObstetricsTab0`. A category is the sequence of its words
and `contains` looks for a word, which tells apart what the code's nine words tell
apart. The lists `categories` and `TabWords`, and the labels, are those of the code.
An item of `categoryTabList` opens what its closure was built with; an item of
`Featured` indexes the bloc's own list.

### BioPair

`bio[x]` is the BIO with its `struct bio_bio_st`; a field of a struct that was never
written holds `Junk`. `last` is the last answer, with the bytes in it. The ring is
modelled byte by byte, with the two `memcpy`s of a read and of a write, because wrapping
is what can be wrong. `PairIsPipe` maps the ring of `x` to the pipe that its peer
reads. A program may call anything in any order, on a pair or on a single BIO.

### DtlsRecords

| Variable | Code |
|---|---|
| `w` | write epoch, `write_sequence`, `last_write_sequence` (the next free number of the old epoch), what is kept for retransmission, the progress of the writer's handshake |
| `r` | `r_epoch`, `bitmap`, `next_bitmap`, the queues `unprocessed_rcds`, `processed_rcds`, `buffered_app_data` with their epochs, `in_init`, `change_cipher_spec_ok`, `change_cipher_spec` |
| `wire` | records sent; nothing leaves it, so each may arrive never or often, and in any order |
| `up`, `twice`, `refused` | history |

A reader's step is one turn of the loop in `dtls1_read_bytes`, with
`dtls1_process_buffered_records` at its start. A damaged copy of a record fails in
`dtls1_process_record`. The bitmap is a set of distances from the maximum.

### DtlsHandshake

| Variable | Code |
|---|---|
| `ends[e].pc` | `s->state`: which step of `Client` or `Server` comes next; the programs name every message that is sent or read, and whether the timer is started or stopped there |
| `readSeq`, `writeSeq`, `readEpoch`, `writeEpoch` | `handshake_read_seq`, `next_handshake_write_seq`, `r_epoch`, `w_epoch` |
| `flight`, `buffered`, `kept` | `sent_messages`, `buffered_messages` (which parts of a message are there), `unprocessed_rcds` |
| `timer`, `alerts`, `small` | `next_timeout`, `num_alerts`, whether the MTU fell back |
| `wire[e]` | records on their way to `e`, in the order they were sent |
| `faults`, `verifyLost` | how many of `MaxFaults` happened; whether one of them was the loss of a HelloVerifyRequest |

A long message goes out whole or in two parts: whole if the datagram has room for it,
in parts if what is already in it leaves too little room, or if the MTU fell back.
`dtls1_get_message_fragment` takes a whole message in its turn past the queue,
everything else through it. A timeout is *due* when nothing else can happen and no
other timer is ahead; any other timeout is *early* and counts as a fault.

## 3. `Impatient`

`Session`, `Notes` and `CardSearch` have a constant `Impatient`: what a person does not
wait for. Nothing in the code enforces that anybody waits, so patience is an
assumption, and these are the properties that need it:

| Module | Patient means | Holds for the impatient as well | Needs patience |
|---|---|---|---|
| `Session` (`Impatient` is FALSE or TRUE) | nobody submits, or leaves the page, while a submission runs | `ProfileWrittenOnce`, `HomeEntryHasSession` (`session_overlap`); with one submission at a time `PersistedSessionComplete` and `NoFlowBehindHome` (proved) | `WelcomeMeansSignedOut` (a submission left behind sets the flag after a logout), `OnlyRestartSplitsAuth`; with two people and two submissions also `PersistedSessionOneUser`, `PersistedSessionComplete`, `ProfileWrittenOnce` |
| `Notes` (`Impatient` is a set of "send", "delete") | without "send", nobody sends, deletes or logs out on a device while a note is being sent there, and a person sends no two notes in one second; likewise "delete" | `OnlyAuthorsDelete` (proved for every `Impatient`); with "delete" all the others (`notes`; proved too) | with "send": `NoteKept`, `DeletedGoes` (the second note replaces the first, or the first handler saves the second text) |
| `CardSearch` (FALSE or TRUE) | a touch comes after the frame that follows a keystroke | `NoBrokenItem`, `ResultsMatchText` (both proved) | `TouchOpensCard` (proved for the patient) |

The failures in the last column are not findings: no text of the repository
promises otherwise. They are listed as hazards, with these conditions.

## 4. Runs

| Run | Question | Instance | Distinct states |
|---|---|---|---|
| `session_patient` | two people take turns on one device; the process dies anywhere; do submissions end, does the disk catch up | 2 people, 1 flow, 3 queued writes, fairness | 66,728 |
| `session_overlap` | two submissions of one person at once, pages left, acts before the launch check | 1 person, 2 flows, 2 queued writes, `Impatient` | 1,740,126 |
| `badge` | the bell with reloads, overlapping fetches, restarts | 2 fetches, 2 notifications, 2 reloads, 1 queued write | 15,901 |
| `notes` | notes of two people on two phones, refused writes, crashes, deletions nobody waits for, pages left open by a logout | 2 people, 2 devices, 2 notes, 2 flows (one per device at a time), 2 seconds; a note is begun when nothing is queued, a deletion with at most one write before it | 2,645,184 (symmetry) |
| `feeds_all` | is no card under another label than its own; does loading end | a card of each category, one at a time, fairness | 129,150 |
| `feeds_order` | answers, throwing sorts, tabs, edits in every order | 5 cards, 3 at a time, one without a stamp | 620,334 |
| `search` | typing, clearing, leaving while cards are fetched | 3 cards, 4 texts, 2 suggestions | 9,896 |
| `biopair` | is a pair a pipe each way | 2 BIOs, rings of 2 and 3 bytes | 122,897 (symmetry) |
| `dtls_records` | replay, reordering, loss, damage and retransmission across epochs | 3 epochs of 3 records, window and queues of 2 | 164,194 |
| `dtls_handshake` | do client and server finish | 3 kinds of handshake, 2 long messages, 4 faults, fairness | 181,976 |
| `dtls_insert`, `dtls_queue` | two comments of the code that do not hold | see the findings below | violated |

What they show:

* `session_patient`: the flag on disk is never ahead of the four values; what is on
  disk is one person's profile; it goes through the sessions of the contract
  (`SessionRefinesContract`); the app and Firebase come apart only when a restart
  loses a `clear()`; after a logout nobody is signed in or about to be; the pages
  show the user who is signed in. The writes nobody awaits do reach the disk, and the
  only wait without an end is the one for the acknowledgement of `users/<uid>`.
* `session_overlap`: even so, a profile document is never overwritten, and the home
  page is never entered without a session.
* `badge`: the badge, when shown, shows at least 1, and a touch acknowledges only what
  has been published, as long as nothing was reloaded.
* `notes`: a note saved in a session stays visible until it is deleted or refused; a
  deletion cannot be overtaken by the write it follows, in the same queue or another;
  nobody deletes another person's note; the documents go through the states of
  `NoteBoard`, those too that are sent on pages without a session.
* `feeds_all`: each card of RecentDataBloc but the updates is in one tab, the one with its
  label, and the obstetric tab shows all cards of its label and no other. Obstetric cards of
  the labels "Cesarean" and "Other" (`category_data.dart:16`) are in no tab: the page builds
  one only (`obstetrics.dart:199`). The loading animation of a tab of
  categories ends, unless the query failed, found nothing for the tab, or found cards
  it could not sort.
* `feeds_order`: a tab that waits for no frame shows what its bloc has, unless
  nobody was told (always so for Featured); a touch opens what was touched.
* `search`: no broken item, results match the text, a touch opens the touched card.
* `biopair`: peers point back at each other, the ring stays inside its buffer and is
  empty between pairings, and what is read is what was written, in order, to the end.
* `dtls_records`: no record goes up twice; numbers are never used again, whatever is
  retransmitted; no data goes up before its Finished; moving the records of the next
  epoch from queue to queue never overflows; a good handshake record kept for the epoch
  its queue waits for is handed up. That condition is needed: each call of
  `dtls1_process_buffered_records` ends at the first record that does not decode, and only
  a call that empties the queue lets the queue's epoch move on. While damaged records of
  one epoch still lie there, a handshake record of the following epoch can join them (with
  `MaxEpoch` 2, `MaxSeq` 4 and `Limit` 3); it is then tried with the old keys and dropped.
  The other end sends it again under another number.
* `dtls_handshake`: with any four faults no end meets a message it does not expect,
  some timer with something to send always runs, and both ends finish, unless a
  HelloVerifyRequest was lost: it is not kept for retransmission, and the server drops
  the repeated ClientHello as a stale one.

### Findings

* `dtls_insert`: `d1_pkt.c:273` says that `pqueue_insert` does not fail, since duplicates
  are dropped. Application data kept from one handshake and not read before the next
  has the number of a record of the next epoch, and the queue's priority leaves the
  epoch out.
* `dtls_queue`: `d1_both.c:611` says that `dtls1_retrieve_buffered_fragment` checks
  whether the desired fragment is available. It looks at the head of the queue only.
  When a fragment of a message is lost and the message comes again whole, it is read
  past the queue, and its incomplete entry stays at the head for the rest of the
  handshake. What is complete behind it is not found; the handshake then lives on
  retransmissions that arrive whole and in their turn. With a ServerHello and a
  Certificate that are both long, and four faults, `HandshakeCompletes` fails for this
  reason: the MTU has fallen back, the server sends the Certificate in parts only, and
  the client drops the parts of what it has already put together. So `Long` has the
  Certificate and the KeyExchange, one long message of each end, in `dtls_handshake`.

### Bounds

Two people are enough to mix; a third adds nobody to mix with in properties about
one device's session. Two devices give one account two queues, which is what
`NoteBoard`'s "no note takes the place of another" is about. Two flows give every
pair of awaits an interleaving. Two seconds allow ids to coincide and to differ.
`MaxPending` stops a logout, never a write of a submission: three queued writes
hold a flag, a `clear` and the first value of the next sign-in, which is the
longest chain in which an order could matter. `MaxQueued` is one: a note is begun while no
device has a write queued, but a deletion may be confirmed with one write before it on its
device, and a flow that has begun is stopped by neither. So the set of a note and the
delete of it, the pair whose order matters, share a queue. `MaxRuns` leaves one run at a
time to each device (the two devices run at once), `Lingering` lets one of the two keep its
pages after a logout, and the clock stands still when nothing is left to send: these
three keep the run small, and the theorems hold without them, for longer queues and for
more runs at once. Two notifications let one be published before and one after a touch.
Three cards and four texts give a result that skips a card, an empty one and a full one; the code suggests five cards, the
instance two, so that there are more cards than suggestions. Cards do not influence
each other's tab, so one at a time is enough in `feeds_all`; three at a time
let a sort throw while another card is there.

Rings of two and three bytes are full, empty and wrapped at every offset, and a buffer
that survives a pairing meets another size. Three epochs let a record be of the epoch
before, the present and the next one, and make the bitmaps change places twice; a window
of two has both edges; a queue of two is full. In `dtls_handshake` `MaxAlerts` and
`ShrinkAfter` are the code's 12 and 2. Four faults are enough to lose a flight, its
retransmission before and after the MTU falls back, and a piece of the next. Faults
bound nothing else: `Next` has no other bound but what the programs send.

Action constraints and state constraints are not used: every bound is a guard.
Symmetry is used in `Notes`, over people, texts and slots (devices are not
symmetric since `IdleFlow` chooses one), and in `BioPair`, over the two BIOs. No
liveness is checked under symmetry.

### Fairness

`session_patient`: weak fairness of each flow's steps, of the launch check, of the
platform's writes, of `LoadUser` and of `SignedOut`: timers fire, platform calls answer, and requests
to Firebase Auth are answered or time out. `CommitDoc` and `RejectDoc` are not
fair, since a device may stay offline and Firestore then keeps the write for good;
user steps and restarts are not fair, since nobody has to act. That is why
`SubmissionEnds` excepts `saving` and `DiskCatchesUp` ends in "or the user was
quicker".

`feeds_all`: weak fairness of each query's end, answered or failed, and of frames;
nobody has to open a tab, and nobody has to edit a card.

`dtls_handshake`: weak fairness of each end's `Proceed` (an application calls
`SSL_connect` or `SSL_accept` again as long as it wants the connection; an end reads its
socket) and of `DueTimeout` (the application calls `DTLSv1_handle_timeout`, or reads,
which calls it, when `DTLSv1_get_timeout` says so). `First` orders two running timers by
how often they have run out, because each time doubles them. Losses, overtakings and
early timeouts are not fair, and end at `MaxFaults`.

## 5. Proofs

All theorems hold for every value of the constants that meets the modules' named
assumptions (missing values are not members of the sets they are missing from;
bounds are natural numbers).

| Theorem | Says | Under |
|---|---|---|
| `SessionProofs!TypeCorrect` | `[]TypeOK` | nothing: any number of overlapping submissions |
| `SessionProofs!SessionComplete` | `[]PersistedSessionComplete` | `Serial`: at most one submission at a time, page changes allowed |
| `SessionProofs!HomeIsQuiet` | `[]NoFlowBehindHome` | `Serial` |
| `SessionProofs!EntryWithSession` | `HomeEntryHasSession` | nothing: any number of overlapping submissions, any impatience |
| `SessionProofs!UserShownIsCurrent` | `[]UserBlocFresh` | `Serial` |
| `SessionProofs!DocumentWrittenOnce` | `[]ProfileWrittenOnce` | `OneWriter`: `Serial`, or all submissions are one person's |
| `SessionProofs!WelcomeIsQuiet`, `RestartAloneSplits` | `[]WelcomeMeansSignedOut`, `OnlyRestartSplitsAuth` | `Patient` (section 3) |
| `SessionProofs!DiskHasOneUser` | `[]PersistedSessionOneUser` | `Serial` and `Patient` |
| `SessionProofs!SessionImplementsContract` | `SessionRefinesContract`: the detailed specification implements `SessionContract` | `Serial` and `Patient` |
| `NotificationBadgeProofs!BadgeTypeCorrect`, `BadgePositive` | `[]TypeOK`, `[]BadgeCountsSomething` | nothing |
| `NotificationBadgeProofs!AcksSound` | `[]AcksOnlyPublished`, which speaks of the time before a reload | nothing |
| `NotesProofs!NotesTypeCorrect` | `[]TypeOK` | nothing |
| `NotesProofs!DeletesAreOwn` | `[]OnlyAuthorsDelete` | nothing: patient or not |
| `NotesProofs!NotesAreKept`, `DeletesArrive` | `[]NoteKept`, `[]DeletedGoes` | `Waits`: "send" is not in `Impatient`; deletes need not be awaited |
| `NotesProofs!NotesImplementBoard` | `NotesRefineBoard`, pages left without a session included: the detailed specification implements `NoteBoard` | `Waits` |
| `CardFeedsProofs!TabsAreCurrent`, `TouchesAreTrue` | `[]ShownIsCurrent`, `[]TouchOpensCard` | nothing |
| `CardFeedsProofs!CardsAreLabelled` | `[]CardsUnderTheirLabel` | nothing: any cards whose categories are of the code's lists; of the obstetric ones it says which are in the one tab |
| `CardSearchProofs!SearchItemsAreWhole`, `SearchResultsMatch` | `[]NoBrokenItem`, `[]ResultsMatchText` | nothing: any finite set of cards, any texts, any impatience |
| `CardSearchProofs!SearchTouchesAreTrue` | `[]TouchOpensCard` | `~Impatient` (section 3) |
| `BioPairProofs!TypeCorrect`, `PeersAlwaysPointBack`, `RingAlwaysFits`, `RequestAlwaysFits` | `[]TypeOK`, `[]PeersPointBack`, `[]RingFits`, `[]RequestFits` | nothing: any sizes, data and calls |
| `BioPairProofs!PairImplementsPipe` | `PairIsPipe`: the detailed specification implements `BytePipe` | nothing |
| `DtlsRecordsProofs!TypeCorrect`, `RecordsOnce`, `FreshNumbers`, `DataWaits` | `[]TypeOK`, `[]OnceEach`, `[]NumbersFresh`, `[]DataAfterFinished` | nothing: any window, queues, epochs and records |
| `DtlsRecordsProofs!QueuesHaveRoom`, `KeptGoUp` | `[]QueuesFit`, `KeptIsHandedUp` | nothing |
| `DtlsRecordsProofs!Implements` | `RecordsAreDatagrams`: the detailed specification implements `DatagramOnce` | nothing |
| `DtlsHandshakeProofs!HandshakeNeverUnexpected`, `HandshakeWakesUp` | `[]NeverUnexpected`, `[]SomebodyWakesUp` | nothing: any number of faults and alerts, any long messages |

*Session.* `TypeOK` is not inductive: `saveToFirebase` indexes `outbox` by the uid in
the bloc, which must be a person. `TypeInv` adds that. `PersistedSessionComplete` speaks of the
disk, which is written from a queue: `SessionInv` adds what the queue may hold
(`QueueInv`: clears behind at most one flag, which finds four values on disk, before
the one value of the submission), how far the submission has come (`SavingInv`: the
values before the one it awaits are on disk, and from the second on nothing else is
queued), and why nothing clears while it writes (`PageInv`: home pages and
submissions exclude each other). The last is `NoFlowBehindHome` itself, so both
theorems come out of one induction. Without `Serial` the induction fails where the
program does: a second submission may put a value behind the first one's flag.

The pages have invariants of their own. `EntryInv` needs no assumption: a submission
whose page is still there is on an authentication page, below which no home page is
open, so no logout takes away the flag it has set before it navigates. `AloneInv` is
the patient user's: there is one submission, on the page it was made on, and whoever
is signed in is on a home page or on the way there. With it `AuthInv` follows the two
sessions, the app's and Firebase's, from the sign-in to the flag. `WrittenInv` says
that who has no account has no document, and that an account without a document
belongs to one sign-up; it rests on `UidInv`, that the bloc still holds the person the
sign-up is about, which is where `OneWriter` comes in. `UserBlocFresh` is inductive
with `NoFlowBehindHome`: only a submission, or a logout, changes what a home page shows.

For the refinement "four values" must become "one person's": `OneUserInv` says that
documents hold the profile of their own user, that what a submission has written so
far is the bloc's and the bloc one registered person's (`WritesInv`), that a flag in the
queue finds such a profile, and that a logout the disk does not know of has its clear in
the queue. The last is what the proof turns on: while values are written one by one the disk
is a mixture, and it must not be flagged then. The saver's write is alone in the queue,
so no clear is in it, and nobody is signed in (`AloneInv`): hence the disk is not flagged.

*NotificationBadge.* `BadgeInv` relates what is shown to the counters: whenever the
saved counter is below the length, the final count is at least their difference,
and before `getNlength` nothing counts as saved (else its late answer could lower the
difference that a `getData` has already taken). `AcksInv` adds `FetchedOnce`: without reloads the list is
filled once, so its length never exceeds what is published.

*Notes.* A delete is a write without a note, so the invariant must say that a
submission never queues one by accident: `SubmissionsHaveText` says that whoever
waits in `send` has a text, on the open page or kept from the page that was left,
and that CommentsPage is open only above a home page, with a session or without.

Where the notes are takes four more parts, all under `Waits`. `PlaceInv`: a note, and an
author's name, is used once, so that among the queued writes and the documents no two have
an author's name or a note in common, and nothing is queued under such a name of a document
but deletes of it; the names with no author may coincide. `FateInv`: an accepted note is in
one of those places, under an author's name, with no delete on its way to it, and behind a deleted one waits a delete, in the same queue if the note is still
queued. `SeenInv`: what a device lists, or is about to delete, is nobody's or no longer on its way
from another device, since it was seen on the server or in the device's own queue; so
the delete goes behind whatever could still write the note. `SendInv` is where `Waits`
is used: each device sends one note at a time, and what it will save is the text that was sent.
Only `Commit` changes the board: a set posts a note nobody has posted, in nobody's note's
place only if it is nobody's itself, and a delete removes one or finds nothing.

*CardFeeds.* `FeedsInv` adds the shape of the records, and `NewsOnce`: NewsDataBloc has
asked from the start and what Featured shows is nothing or the one list it will ever
have, which is why an index into the live list finds the card that was built there.
`CardsUnderTheirLabel` compares three lists that are written down in eleven files. `OwnCards`
says that a bloc holds only cards of its own collection, which an answer could only
break by its order of the cards (`OrdersHaveNoOthers`); the rest is a computation over
the code's categories: each label names one tab (`OneTabPerLabel`), and
the word "Labor" stands in one category of obstetrics only (`OnlyLaborIsLabor`), so that
the obstetric tab holds the cards of its label.

*CardSearch.* `SearchInv` says that the searched list holds cards that match the last
search and is not longer than the list of all cards, which is empty until it is filled,
once; and that a page that waits for no frame shows the list that a touch indexes. That a search makes the list no longer and keeps only what
matches (`SearchedFinds`) is proved by counting, since an induction over the list is
beyond the prover: the number of kept cards up to a place grows from place to place
where one is kept (`RankGrows`), and takes every value up to their number
(`EveryPlaceIsTaken`), so that each place of the result has one card to stand there.

*BioPair.* The invariant says of each struct that it is well formed, that its ring fits
and its request can be met, and of each pair that the links point back and that an end
without a peer has nothing in its ring; of the last answer that it is one. The
refinement maps a ring to the sequence of bytes a reader would get: the lemmas say that
a copy in two chunks takes the beginning of that sequence, that `Consume` leaves the
rest, and that a write appends to it, at every offset.

*DtlsRecords.* `Writing` says what the records sent tell of the writer: its numbers are
above those on the wire, in its epoch and in the one before, and the ChangeCipherSpec is
the last new record of an epoch. `Reading` says how far the two ends may be apart, what each
queue holds, that a record is in one place (on the wire, in one queue, or handed up),
that whatever was received of this epoch or the next is marked in the right bitmap, and
that each epoch begins with a Finished. Marks are never lost: they stay in the window or
fall behind its edge, where everything counts as received. `Fits` is a second induction:
the two queues of the next epoch have at most `Limit` records together and no number
twice, because the wire is read only when nothing processed is left. With both, a good
record of the epoch its queue waits for stops no loop of
`dtls1_process_buffered_records`, finds room, and otherwise lies behind the record that
stopped it.

*DtlsHandshake.* Three tables give, for each kind of handshake and each end, what it may
send (`SentBy`), how many messages it has read and written before each step (`Counts`),
and where it reads Finished. The invariant says that each end is where the table says,
that flights, wires and kept records hold pieces of what may be sent, and that whatever
waits in the queue of messages is known: it was sent under that number, is no
ChangeCipherSpec, and is a Finished only if the second epoch has begun. Then the number
that is next to be read determines the message, which is the one awaited.
`SomebodyWakesUp` needs to know in addition what the two ends have done, and `SentInv`
says so. What an end has on the wire, keeps or has read was sent by a step the other end
has behind it (`SentBefore`, `Out`), so the one who waits for a message is never ahead of
the one who sends it; and an end that has started its timer by a step and has not stopped
it by a later one has its timer on and a flight to send again (`Armed`). When nothing
moves both ends wait for a message (or one is done); going through the steps where they
may stand, one of them is armed in every combination that `SentInv` allows. A server
that has sent a HelloVerifyRequest, without a timer and without keeping it, is the case
where it must be the client.

Each proof is laid out as Init, one lemma or step per action, and a temporal step.

## 6. Model-checked only

* `DiskCatchesUp`, `SubmissionEnds`, `LoadingEnds`, `HandshakeCompletes`: liveness is
  beyond the prover.
* That `Searched` of `CardSearch` is `SelectSeq`: an induction over sequences. TLC
  checks it for every list of up to four cards.

Every safety invariant and action property that a passing run checks is a theorem.

## 7. Assumptions and omissions

* A second `Yes` in the logout dialog before `signOut`, a local call, has answered
  is left out. The launch check is over before a form can be filled in.
* In `Notes` the end of a logout, from `signOut` to the navigation, is one step; a
  submission that reads the uid between is one that reads it before or after. (`Session`
  has `signOut` and the rest apart.)
* Platform writes of SharedPreferences do not fail and keep their order.
* A `createUser` that arrives after the process has died is `ServerCreates` before
  the death. Accounts made on other devices exist from the start.
* `users/<uid>` has one unsent write at a time in `Session`; the device's whole
  queue is in `Notes`.
* `Notes` has one card. People sign in on several devices, one at a time on each.
* Cards have a title and a description; a card may lack `loves`
  (`FetchAnswered` with `sorted` FALSE) or, in `CardFeeds`, `timestamp`. Its category is
  one of the lists in `category_data.dart`, as the comment there asks.
* One tab is on the glass at a time; the two that a swipe shows together are not.
* `BioPair`: one thread, as the code requires; two different BIOs are paired; sizes and
  lengths are not negative; the region of a non-copying write is filled before the next
  call. `Junk` stands for fields that `bio_new` leaves as they are.
* `DtlsRecords`: one direction. The other end is what lets a handshake go on (`Answered`).
  Records of epoch 0 are not damaged (a plain record has no MAC to fail). Sequence
  numbers do not reach 2^48.
* `DtlsHandshake`: a record never arrives twice or damaged (see `DtlsRecords`), a long
  message has two parts, and the records of one datagram are lost and overtaken one by
  one. CertificateStatus,
  ServerKeyExchange and CertificateRequest are not told apart from the Certificate they
  follow. No client certificate, session ticket, anonymous or PSK suite, renegotiation,
  `DTLSv1_listen`, SCTP, heartbeat, alert or shutdown.
* Of the rest of OpenSSL nothing is modelled. Most of it computes (ciphers, digests,
  bignums, curves) or converts (ASN.1, PEM, X.509): what could be wrong there is a
  matter of arithmetic on large values or of formats, which a finite model does not reach.
  TLS over streams (`s3_*.c`) has no loss, no order and no timers; engines, commands,
  tests and generated tables keep no protocol state. So these models cover a small
  share of the lines in the repository.
* Not modelled: layout, colours, toasts, the progress indicator, the show-password
  toggle, links, the video player, push messages, bookmarks, the love
  counter, the shared connectivity field, password reset. The first are about
  no property; the others are in the plan or keep no state.

## 8. Plan

Done: the modules of section 2, their runs, and the proofs of section 5. What could come
next, in this order:

1. `DtlsHandshake`: client certificates and renegotiation, with the same two theorems.
2. `HomeShell`: push messages, tabs and `initState`, composed with
   `NotificationBadge` and `LoadUser`.
3. `Reactions`: the love and bookmark handlers and BookmarkBloc, on two devices:
   counter against lists, two runs of `getData`. Nothing reachable calls the
   handlers today; the model would say under which condition they could be turned on.
4. `Connectivity`: the field `hasInternet` between two callers, composed with the
   submissions of `Session` and `Notes`.
