# git-remote-cloak in TLA+

git-remote-cloak keeps an encrypted git repository on an ordinary git host. Each
client runs a git remote helper; all coordination between clients goes through
one branch of the host, which moves by compare-and-swap. This directory models
that coordination, checks it with TLC and proves parts of it with TLAPS.

## 1. The system

| Component | State it keeps | Operations | Interacts with |
|---|---|---|---|
| Host branch (`backend/`) | one branch; each commit holds an encrypted manifest and the pack blobs it declares live | `Fetch`, `ReadBlob`, `BuildCommit`, `PushFF` (plain push), `PushLease` (force with lease) | every client |
| Manifest (`manifest/`) | generation, repository id, refs, packs with `replaces` | `New`, `Clone`, `Validate`, encode/decode | engine |
| Engine: fetch (`engine/engine.go`) | the loaded remote state | `LoadRemoteState`, `FetchApply`, `CommitPin` | backend, state directory, local object store |
| Engine: push (`engine/push.go`) | the push plan of one attempt | `Push` → `pushOnce` → `acceptPush` / `retryAfterCASLost` | backend, state directory, consolidation |
| Engine: consolidation, repack (`engine/consolidate.go`, `geometry/`) | scratch repository | `consolidate`, `FullRepack`, `Victims` | push, `cloak repack`, `cloak rekey` |
| State directory (`state/`) | files `generation`, `repoid`, `applied`, `lock` | `CheckPin`, `CheckRepoID`, `SavePins`, `MarkApplied`, `Lock` | every session of one remote |
| Remote helper (`helper/`) | one session per process | `list`, `fetch` batch, `push` batch, `option` | git over a line protocol |
| Accept commands (`cli/statuscmd.go`) | a copy of the pins they clear | `accept-rollback`, `accept-repo-change` | state directory, engine |
| Pack limit (`engine/packlimit.go`) | none | when to split, refuse or leave unmerged | push, consolidation, repack |
| Repack, rekey (`cli/remotecmd.go`) | key reference in git config | `FullRepack`, then config | engine, keystore |
| Local store (`engine/keeps.go`) | `.keep` files | `ReapOrphanKeeps` | git gc, every session |
| Keys (`keystore/`, `cli/keycmd.go`) | key files or keychain | `keygen`, `key export`, `key import`, `key delete` | every session, rekey |
| Encryption (`agecrypt/`) | none | streams | engine |
| `debug seed-remote` (`cli/seedcmd.go`) | none | a first push without a session | host |

What is hard in it:

- **Concurrency**: any number of clients act between any two steps of a session;
  the host decides by compare-and-swap. Sessions of one client and one remote
  exclude each other by `flock`, as far as their state directory keeps its path.
- **Failure**: a process can die between any two writes of the state directory;
  the host's answer to a push can get lost; any rejected status line counts as a
  lost compare-and-swap.
- **A host that changes its mind**: it can be restored from a backup or wiped.
  The rollback pin and the repository pin are there for that.
- **Skipping**: a fetch skips packs by three rules (recorded as applied, all
  replaced packs applied, closure of the refs already present). Each is an
  inference from local state that consolidation and repack keep changing.
- **The store is shared**: two remotes of one repository have a lock each but one
  object store, from which git gc may collect what a fetch has not wired yet.
- **Keys change**: a rekey changes the remote first and its own configuration
  last, while pushes under the old key are under way elsewhere.
- **git on the other end of a pipe**: it may stop in the middle of a batch, and it
  waits for answers the helper buffers.

Correctness, per component: a stored version contains all its refs reach
(push, consolidation, repack); refs move like one register (push); what a
fetch skips it does not need (fetch, applied set); pins only advance and bound
what sessions work on (state directory); accept commands leave consistent pins;
pushes are answered and fetchers converge (retry loop); keeps hold what a fetch
has not wired, and no longer (local store); a remote is under one key, and a key
that was reported stored is whole (keys); packs respect the host's limit and
stay few (geometry, pack limit); batches run whole or not at all (helper).
PROJECT.json lists the hazards one by one with the line where each bites.

## 2. Modules

| Module | What it is |
|---|---|
| `Objects` | The commit graph and reachability. A commit stands for itself and the trees and blobs only it introduces. |
| `Manifests` | Packs and manifests, and the engine's pure decisions: accepted updates, objects to pack, splitting, the next manifest, consolidation, repack, what a fetch must download. |
| `CloakSync` | Clients, sessions, state directories and the host: the core of the system, and its mapping to `RefRegister`. |
| `RefRegister` | The abstract specification: the refs of a remote as one shared register. |
| `MCCloakSync` | `CloakSync` on a small commit graph. |
| `CloakSync_proofs` | Theorems about `CloakSync` on any host: types, complete versions, pins. |
| `HonestHost_proofs` | `CloakSync` on a host that keeps what it stored: lost races and the refinement of `RefRegister`. |
| `Fetch_proofs` | On such a host: fetches suffice, and who may be alarmed. On any host, while no session is killed: the two pins belong together. |
| `StateDirs` | The state directories of one URL in one repository, at the level of paths, locks, renames and syncs: what `CloakSync` takes for granted. |
| `MCStateDirs` | Sessions of `StateDirs` as model values. |
| `LocalStore` | The packs and keeps of one repository with two remotes, against git gc. |
| `Packing` | Sizes: splitting, geometric consolidation, repack and the host's limit. |
| `Keys` | Key files, rekey and the sessions of several machines. |
| `Helper` | The dialogue of git with the helper, line by line. |
| `MCMachine` | The last four, which share no state, on small instances. |
| `StateDirs_proofs`, `LocalStore_proofs`, `Packing_proofs`, `Keys_proofs`, `Helper_proofs` | Theorems about these modules. |

### How `CloakSync` corresponds to the code

The host is `versions`, every version it ever stored, and `tip`, the one its
branch points at (0: no branch). A version's number stands for the backend
commit, for the hash of the manifest ciphertext and for a repository id first
used in it; all three are unique to one push because encryption, commit and
repository id are randomised. `chain` is the set of versions the backend commit
descends from: a squash starts a new one.

A client's disk is `objs` (object store), `applied`, `pin` and `repoPin` (the
files). `sess[c]` is its running session; `Idle` is none. `sess[c].pc` is the
next step:

| `pc` | Next step in the code |
|---|---|
| `ready` | helper waits for git; a repack attempt starts with `FetchApply` |
| `fetched` | `fetchBatch` verifies what git asked for; `repackOnce` packs |
| `push` | `pushOnce`: plan, pack, build the commit, offer it to the host |
| `lost` | `retryAfterCASLost` / `retryRepackAfterCASLost` |
| `pinGen`, `pinRepo` | the two renames of `SavePins` |
| `mark` | `MarkApplied` of `persistPushed` |
| `clearing`, `cleared` | accept: the generation file is cleared second; load and pin |
| `restorePin`, `restoreRepo` | accept failed: the pins are put back, one file each |

Granularity. Between two steps of one session every other client and the host
may act. Planning a push, packing, building and offering are one step: until the
host decides they read what the session loaded and the client's own objects, and
they write scratch files only. For the same reason loading the remote state is
one step. A retry plans again and resolves the sources again, as `pushOnce`
does.

What the data is reduced to. Objects are commits. Which object of a split push
goes to which pack is any choice (`BuildPacks`). Which packs are consolidated is
any choice of two or more (`PushOffers`): a superset of what `geometry.Victims`
returns for any sizes and any factor. `FetchApplyCut` lets any subset of the
packs reach the store before the session dies, a superset of the prefixes of the
manifest's order. Pack sizes, HEAD, timestamps, dry runs (no effect on any of
this state) and wording are left out. A source that does not resolve is rejected
by the code and has the effect of a smaller batch.

The environment. `LocalCommit` is git; `Restore` and `Wipe` are the host's
operator; `Crash` covers a killed process and every error that ends a session
before the next write. `Faults` selects what may happen in a run.

### How `StateDirs` corresponds to the code

`entry` says which directory each of the two paths leads to: the remote's name
and the hash of its URL. A session of the configured remote is `Named`; one that
was given the same URL itself (`git fetch cloak::...`, before or besides the
remote) is `Anonymous` (`stateIdentity`). Sessions resolve their path at every
step (`Dir(p)`), as the code does, but hold the flock of the file they opened
(`sess[p].lock`), which moves with its directory. `pc` follows `state.Open`
(`stat`, `adopt`, `mkdir`), `Lock` (`open`, `wait`), `backend.Open` (`wire`),
`LoadRemote` (`load`) and the batch (`work`), whose file operations are the
sequence `todo`: a fetch runs `MarkApplied` and then `SavePins`, a push the other
way round.

A file is what a reader sees (`now`) and the values a power loss may leave
(`may`): a rename adds to `may`, syncing the directory reduces it to `now`. Nothing
syncs what holds the state directories, so after a power loss `entry` may be
anything it has been since the last one (`was`); what is done to directories is taken
to reach the disk in order. The host is honest and only counts generations; pins, the
applied set and the alarm on half-saved pins are there, decryption and skip rules
are not. The accept commands are not in this module.

### The four modules of `MCMachine`

`LocalStore` spells out what `CloakSync` takes for granted: that objects stay.
`files[p]` is a pack's state in the store (`absent`, `kept`, `plain`), `loose` what
git holds in packs of its own, `wired[r]` the tips git's refs point to and
`recorded[r]` the applied set. A session (`fetch[r]`) lists the keeps, asks git
what the refs reach, reaps one keep at a time (`ReapOrphanKeeps`), and then lets
git fetch: `ApplyPack` is one turn of `applyManifestPacks` with the memo of
`lazyClosure` (`whole`), `RecordApplied` is `MarkApplied`, `VerifyObjects` the end
of `fetchBatch`. git wires, removes the first keep it was told of, and ends. `gc`
works in two steps, so a keep may be added or removed between its listing and its
deletions. A pack that fails to download is `KillFetch`. gc collects at once what no
ref reaches; grace periods and reflogs only make the real one milder. A manifest's
packs may hold more than its refs reach.

`Packing` is about ciphertext sizes only. `PlanPush` is `preparePush`: the objects
are packed, split if the limit asks for it (any division that
`git pack-objects --max-pack-size` may choose), checked against the limit and, as
a manifest, against the cap on packs. `Publish` is `maybeConsolidate` and the
accepted push, `RepackAll` is `FullRepack`. `Smaller` multiplies in two words as
`bits.Mul64` does; the word, the overhead of encryption, git's least
`--max-pack-size` and the cap are constants, so that small numbers reach them. Packs
are their sizes in the order `Victims` sorts them into, and `Sums` are the running
sums its loops keep. A merged pack may be as large as its victims together or as small as the largest.

`Keys` has, per machine, what a reader sees of every key file (`keyFile`), what a
power loss may bring back in its place (`keyOld`), whether its data are on disk
(`keySynced`), `cloak.keyRef` and one running command. The
steps of `saveFile` (create exclusively, write, sync) are actions of their own.
`HostTakesOffer` and `LoseOffer` are the leased push, with lost answers and answers
read as a lost race; `UpdateKeyRef` is the last step of `runRekey`. An export on
one machine and an import on another are one action. `saveFile` syncs the file and
not its directory, so a power loss may take the creation of a file back as a whole,
and likewise bring a deleted file back.

`Helper` has git's requests, the pipe, the helper's state (`main` loop,
`batch` collection, `run`) and the answers in its buffer and on their way.
A line longer than the scanner's buffer, a git that dies and an engine that fails
are `Disturbances`. What a batch does to the remote is `CloakSync`'s business.

## 3. What the runs check

Every passing run of `CloakSync` has two clients and, unless the table says otherwise, the
commits `{a, b}` with `b` on top of `a`: the smallest graph in which a push can be a fast-forward, a creation or a
rewrite, and in which one client can hold what another lacks. Deadlock is
checked in all of them.

| Run | Environment and bounds | Properties | Shows |
|---|---|---|---|
| `crash` | crashes, consolidation; unrelated commits `{a, d}`, 2 refs, 1 retry, 2 requests | `TypeOK`, `FetchSufficient`, `AlarmMeansHalfSaved`, `RegisterSpec` | Sessions dying anywhere corrupt neither the remote nor a client's applied set, even when a client consolidates packs it never downloaded; the only alarm they cause is the refusal of half-saved pins. |
| `merge` | consolidation and repack, pushes split over 2 packs; 1 ref, 1 retry, 3 requests | `RemoteComplete`, `FetchSufficient`, `LostToNewer`, `RegisterSpec` | Merging never loses an object for anyone; losing a compare-and-swap means that someone else won. |
| `hosts` | restored and wiped host, lost and wrong answers, accept commands; no retries, 3 requests | `RemoteComplete`, `PinsAgree`, `WorksAheadOfPin`, `PinsAdvance` | What the pins promise, whatever the host serves. |
| `converge` | repack, fairness; 1 retry, 3 requests | `PushAnswered`, `Converges`, `MissedIsPinned` | Every push is answered; who keeps fetching ends up with the whole history; a client that lacks history of the branch's version ends up with that version pinned, unless the branch moves on. |
| `dirs` | 2 named sessions and an anonymous one; killed sessions, power loss, full disk: 2 in all; 1 generation | `TypeOK`, `RemoteSerialized`, `AnsweredIsDurable`, `FailedSaveKeepsPair` | The lock gives a session of the remote its directory to itself although directories move; an answer is given only when nothing can take back what was saved in the directory; a failed save never splits the pins. |
| `machine` | the four parts: 2 remotes, 3 packs, 1 kill; 4 pushes of up to 3 objects, limits 0, 2, 3 and 6, factors 0, 2 and 9, words of 64; 2 machines, 2 keys, 2 paths, 3 set-ups, 3 versions, 2 mishaps; 3 dialogues | `StoreTypeOK`, `KeptUntilWired`, `AlarmMeansPruned`, `KeepsReclaimed` | Keeps protect a fetch until git wires it, although others reap and collect meanwhile, and do not stay for good; a fetch raises the alarm only if gc collected objects of its remote. |
| | | `PackTypeOK`, `VictimsRestore`, `NeverOverLimit`, `TooLargeMeansOneFile`, `LogarithmicWithoutLimit` | Victims are exactly what restores the progression, words included; no pack ever exceeds the limit, and a push is refused only when no split helps. |
| | | `KeysTypeOK`, `StoredKeyWhole`, `UniformKey`, `KeyChangesOnlyByRekey` | A key reported as stored is whole and only its user or a power loss removes it; a remote is under one key, which only a rekey of that key changes. |
| | | `WholeBatches`, `AlwaysAnswered` | No part of a batch runs while git lives; git never waits for a buffered answer. |
| `linear` | packs of `machine`: objects of 1 and 8, limit 10, 9 pushes | `LogarithmicallyPacked` | Violated: see below. |
| `adopted` | a named and an anonymous session, no trouble; 2 generations | `HalfSavedMeansInterrupted` | Violated: see below. |
| `interrupted` | crashes | `InterruptionNeverBlocks` | Violated: see below. |
| `repack_empty` | repack, wiped host | `RepackHasManifest` | Violated. |
| `restored` | restored host, accept commands; 4 requests | `RestoreIsNoTamper` | Violated. |
| `rolled_back` | restored host; 4 requests | `RollbackRefused` | Violated. |

Bounds. `MaxRequests` bounds pushes, repacks and accept commands made in all; it
is what keeps `versions` finite. Two requests are enough for a race, three for a
race followed by another client's operation on its outcome, which is what every
property relates; four are used where the shortest history that shows a finding
needs them. `MaxSplit` bounds the packs of one push. `PushRetries` is the code's
own parameter: 1 exercises a retry and its exhaustion; in `hosts` it is 0 because
a retry is a fresh load and the sessions users open afterwards load as well.
The theorems about the properties of `hosts` hold for any number of retries.
In `converge` pushes do not consolidate: with three temporal properties the larger
instance takes too long, and what consolidation does to a client that fetches is
the subject of `FetchSufficient`, in `crash` and `merge`.
In `dirs` two troubles are
what it takes to leave something unsynced and then lose power, and one generation
already tells an old file from a new one. It has two sessions of the remote, which
must exclude each other, and one that names the URL, whose directory they adopt.
Nothing in the code limits how many sessions name the URL, and two of them may
disturb each other (see "Observations"). So nothing is claimed of such a pair:
`RemoteSerialized` is about a session of the remote and any other,
`AnsweredIsDurable` and `FailedSaveKeepsPair` are about the `Orderly` sessions, those of
the remote and the one that names the URL when it is the only one. That any number of
sessions that name the URL leaves the sessions of the remote alone is what the theorems
of `StateDirs_proofs` show; a second one in the run takes it past what TLC finishes in
minutes.
Clients are symmetric; the liveness runs use no symmetry.

`RegisterSpec` is the refinement `CloakSync => RefRegister` under the mapping at the
end of `CloakSync`: the register's refs and generation are those of the version at
`tip`, and a client's pending batch is its session's. It says that every move of
the remote's refs is one push of one client, judged against the refs the remote
had at that moment, touching nothing its batch does not name. A publication may coincide with its
client giving up, because the host's answer can be lost. It holds on a host
that keeps what it stored, so it is checked in runs without `restore` and `wipe`.

In `machine` the four parts are explored one at a time: `part` is chosen in the
initial state and the others stay as they start, so the number of states is the
sum of theirs. Two remotes are the least that share a store. The first has two
unrelated commits in a pack each, so that git may ask for one, lose the other to gc
and ask for it later; the second has both in one pack and a ref to one of them only,
so that its keep covers an object no ref reaches, and so that a closure can be
present without a pack having been applied. Pack sizes from 1 to 9, a factor of 9 and words
of 64 make products overflow; limits of 2, 3 and 6 with objects of 1 and 3 make
splits, both kinds of refusal and skipped consolidations happen; four packs reach the cap. Two machines
and two keys are a rekey and its rival; three set-ups are a key, its copy on the
other machine and a new key. Two mishaps: the theorems about `Keys` hold
for any number. The dialogues have two batches, options in between and every
request the helper knows. Deadlock is not checked in this run, whose parts end at
their bounds and whose dialogue ends.

Fairness (`FairSpec`). In `CloakSync` a running session takes its next step (it is a sequential
process); git starts a helper again and again and ends every helper it started; and
git does not forever leave unasked what it lacks (`Lacks`). The last two are strong
fairness because other requests may interrupt them. git sends a fetch batch only when its
connectivity check finds history missing, so nothing is assumed of a client that
has all the refs reach: after a repack it works on without ever pinning the new
version, and `Converges` is about history only. `MissedIsPinned` says what holds of pins. No fairness is assumed of pushes: that a push is
answered follows from `LostToNewer` and the bound on requests, since each lost
compare-and-swap has a winner. `Converges` speaks of what happens when requests
are used up. In `MCMachine` it is weak fairness of two alternatives: as long as
some session of some remote can take a step, one does (`KeepsReclaimed` needs that
sessions go on being opened, of whatever remote; which of them reaps does not
matter), and as long as git can read an answer or the helper read a line, that
happens. Killing, gc, git's writing and its death are not forced.

### Findings

- `interrupted`: a crash between the two renames of a client's first `SavePins`
  leaves a generation file without a repoid file. `CheckRepoID` refuses this with
  the TAMPER ALARM until `accept-repo-change` is run, while
  `scenario_m5_test.go:186` says that an interrupted push never blocks the next
  one. `AlarmMeansHalfSaved` shows that this is the only such state.
- `repack_empty`: `FullRepack` tests for an empty remote on entry only. If the
  branch disappears while a repack runs, the retry dereferences a missing
  manifest.
- `restored`: a fetch records packs it skipped as applied. On a host restored to
  an older version the objects of such a pack may be needed, the pack is not
  downloaded, and the user sees a TAMPER ALARM where `howto.md` promises that one
  `accept-rollback` is enough.
- `rolled_back`: generations are compared by number, so a client does not notice
  a rollback once others have pushed past its pin on the older state.

- `adopted`: `Open` adopts the hashed directory before any lock is taken. A
  session at work in it loses its path: between its two renames of `SavePins`
  the directory is left with a generation file and no repoid file, and the named
  remote shows the TAMPER ALARM from then on, with no crash and no tampering.

- `linear`: `initialSplit` takes the highest pack that is too small. Once two packs
  are near `cloak.maxPackBytes` every set of victims contains them,
  `consolidationWouldExceed` skips it as a whole, no smaller set is tried, and each
  push leaves one more pack. `engine.go:347` and `manifest.go:28` count on a
  logarithmic number. Without a limit the number is logarithmic to the letter
  (`LogarithmicWithoutLimit`).

Observations that no run states as a property:

- The lock is on a file, work is by path. A session that names the URL holds
  its lock when a session of the remote adopts its directory; the next session that
  names the URL makes a new directory at the old path and locks a file in it, and both
  work there: Open, Lock, adoption by the remote, Open and Lock of the second, next
  file step of the first. `state.go:126` and `state.go:447` say that sessions are
  serialized and that the read-modify-write of the applied file has no concurrent
  writer. Two sessions that name the URL are not; `RemoteSerialized` is what holds.
- `SavePins` and `writeStateFile` sync the state directory, but nothing
  syncs `cloak/` or the git directory after `Open` made or renamed the state directory.
  The power loss that `state.go:176` guards against can take the directory with all its
  pins. `StateDirs` lets it (`was`); `AnsweredIsDurable` is about the files in it.
- `saveFile` syncs a new key file and not the directory it made it in, so the
  file can be gone after a power loss although the user was told where it is stored.
  `keystore.go:294` calls the file "the single most critical artifact", and
  `state.go:215` knows that an entry in an unsynced directory can be lost. If the first
  push has been made by then, nobody can read the remote. `Keys` lets it (`keySynced`,
  `keyOld`); `StoredKeyWhole` says that nothing worse happens.

- `keeps.go:34` says reaping sees only keeps of completed invocations. That holds
  for sessions of one remote; a session of a second remote sees the keeps of a
  running fetch. `KeptUntilWired` holds nevertheless, because a keep goes only when
  refs reach all its objects.
- Two names of one host share packs, and then a keep can come too late: gc lists a
  pack whose keep git has just removed for the first remote, the second one indexes
  the pack again under a new keep, and gc's sweep deletes pack and keep before that
  fetch is wired. `FetchedKept` therefore assumes that packs are not shared.
- `ReapOrphanKeeps` looks for keeps in the session's own git directory (`keeps.go:65`),
  which in a linked worktree has no objects: sessions there reap nothing, and
  `KeepsReclaimed` is about sessions of the main worktree, whose keeps `ListKeeps` sees.
- When git dies before it wires a fetch, or asks for fewer refs than the manifest
  has, gc may collect objects of packs that are recorded as applied; a later fetch
  that needs them ends with the TAMPER ALARM. `AlarmMeansPruned` says this is the
  only way there in this module.
- A partial key file blocks `keygen` and `key import` at its path until
  `key delete`, though no key can be loaded from it. A `keygen` killed after its
  write and before its sync leaves a key that can be used and that nobody was told
  is stored.
- The comment of `indexVictims` says that at most one pack of a push is ever a
  victim. A split push can contribute more; `canMarkConsolidated` is right all the
  same, which `FetchSufficient` in `merge` covers.
- An accept command killed between the removal of a pin and its sync, run again on a
  remote that is empty by then, finds no file and syncs nothing (`state.go:237`); a
  power loss then brings the pin back. Not modelled.

## 4. What is proved

### `CloakSync_proofs`

`CloakSync_proofs` proves, for every commit graph, set of refs, set of clients,
number of retries and choice of `Faults`:

- `TypeCorrect`: `Spec => []TypeOK`.
- `RemoteAlwaysComplete`: `Spec => []RemoteComplete`. Inductive together with
  `TypeOK`. The argument: every offer to the host is whole if the loaded version
  is (`OfferSound`), because a push keeps all packs of its base and uploads what
  its tips reach beyond tips the base already has (`PushWhole`), splitting and
  merging preserve the union of the packs (`SplitPacksExact`, `ConsolidatedExact`),
  and a repack packs the closure itself (`RepackWhole`).
- `AlwaysAhead`: `Spec => []WorksAheadOfPin`, and `PinsNeverMoveBack`:
  `Spec => PinsAdvance`. `WorksAheadOfPin` is not inductive: after a push that
  created a repository the exception it allows must end when the repoid file is
  written, a batch must be present where one is executed, and only accept
  commands may be at the steps that clear pins. `PinInv` adds this, per session
  (`Fine`). Loading establishes it (`LoadFine`), an accepted push is one
  generation up (`OfferSound`), and stored versions never change
  (`StepManifest`), so other clients cannot disturb it.

The assumptions are those of `Objects`, `Manifests` and `CloakSync` on their
constants: reachability is reflexive and transitive, numbers are naturals.
`PinInv` was model-checked in the environments of `hosts` and of `crash` and
`merge` before it was proved.

### `Keys_proofs`

For every number of machines, keys, paths and mishaps:

- `KeysTypeCorrect`: `KeysSpec => []KeysTypeOK`. Inductive with what the fields of a
  command hold at its steps (`TypeInv`): a session has a key, a rekey a second one.
- `StoredKeysStayWhole`: `KeysSpec => StoredKeyWhole`. The sync that
  ends a save must find the key still in the file: a command
  that has created a key file owns it until it ends, with the partial key in it
  before the write and the key after it, because a machine runs one command at a
  time, creation is exclusive and a power loss ends the command (`StoringKey`). A stored key
  whose data are synced can be lost with its file only; that it can be lost then is
  one of the observations.
- `RemoteUnderOneKey`: `KeysSpec => []UniformKey`. A push keeps the packs there are
  and adds one under its session's key, so that key must be the remote's.
  `LeasedKey` says so: while a session's version is the host's current one, the
  host's key is the one the session was opened with.
- `OnlyRekeyChangesKey`: `KeysSpec => KeyChangesOnlyByRekey`, from the same two
  invariants.

The only assumptions are that the markers for absent, partial and no key are not
keys and that the bounds are numbers (`KeysAssumption`).

### `HonestHost_proofs`, `Fetch_proofs`

These extend `CloakSync_proofs` and prove, again for every commit graph, set of refs,
set of clients, number of retries and split, what needs an assumption on the
environment. Each assumption is necessary; TLC finds the counterexample without it.

- `LosesOnlyToNewer`: `[]LostToNewer` if the host is neither restored nor wiped
  (`Honest`) and its answers arrive (`"network" \notin Faults`: an answer taken for a
  rejection loses to nobody). `LostInv`: the version of a session that waits to retry
  is behind the branch.
- `RegisterImplemented`: `Spec => RegisterSpec` if `Honest`, with crashes, lost
  answers, retries, consolidation and repack. A squash or a plain push is taken
  exactly when its session loaded the version the branch points at
  (`TakenMeansLatest`), so the refs it was judged against are those of the register.
- `FetchesSuffice`: `[]FetchSufficient` if `Honest`. The invariant has two halves.
  `HostInv` is about the host: each version *continues* each earlier one
  (`Continues`): what it needs beyond the earlier one is in packs that nobody who saw
  only the earlier one can take for applied or covered by predecessors, and what it
  still needs of an earlier pack is in a pack that *stands for* it. `Succeeds` says
  this of one push, squash or repack, and `ContinuesStep` composes. `FetchInv` is
  about a client: against the newest version it has *seen* (loaded, or pushed itself)
  the packs it has not applied complete its store (`Delivered`). `Continues` carries this from the seen
  version to the present one, so a fetch can skip by all three rules. A pusher that
  consolidates packs it never downloaded is the hard case: it may mark the merged
  pack only if it applied the victims (`canMarkConsolidated`).
- `OnlyHalfSavedPinsAlarm`: `[]AlarmMeansHalfSaved` if `Honest`. `Quiet`, per client: an
  honest host has one repository, so every pin that is there names it; and a fetch
  that ran to its end has all it needs (`FetchInv`), so the integrity check never
  fires.
- `PinsStayPaired`: `[]PinsAgree` if no session is killed, on any host. `Paired` says
  at which steps the two files may disagree and what holds them together there: the
  half-done `SavePins`, and the copies an accept command keeps and puts back.
- `OnlyKillsAlarm`: `[]InterruptionNeverBlocks` if `Honest` and no session is killed;
  with crashes it is the finding of `interrupted`.

### `LocalStore_proofs`

For every set of remotes, every division of histories into packs and any number of
kills:

- `StoreTypes`: `StoreSpec => []StoreTypeOK`.
- `OnlyPrunedAlarm`: `StoreSpec => []AlarmMeansPruned`, shared packs included.
  `PrunedPart`: a remote that has recorded its packs, is verifying, or was told that
  the closure is whole has all its objects in the store except pruned ones.
- `FetchedKept`: `StoreSpec => []KeptUntilWired`, if no two remotes share a pack
  (`DisjointPacks`). The invariant says of each pack a fetch has indexed that it is
  `Anchored`: not on the list of a collection and kept or live as a whole, or its
  objects are live for that collection already. gc's list is older than the keeps, so
  both a pack's keep and its absence from the list count. The assumption is
  needed: with one pack in two remotes, gc lists it between git's removal of the first
  fetch's keep and the second fetch's indexing, and then drops it with its new keep.

### `StateDirs_proofs`

For any number of sessions of either kind, directories, generations and troubles:

- `DirTypesHold`: `Spec => []TypeOK`.
- `RemoteSessionsSerialized`: `Spec => []RemoteSerialized`. A session of the remote has
  its directory to itself.
- `AnswersDurable`: `Spec => []AnsweredIsDurable`, and `FailuresKeepPair`:
  `Spec => []FailedSaveKeepsPair`. Both are about the `Orderly` sessions (see "Bounds").
  The first is about the files of a directory; that the directory itself may be lost is
  one of the observations. The second is about a session that still has the
  directory it locked; that one whose directory is adopted may leave half a pair is the
  finding of `adopted`.

The inductive invariant `DirsInv` has three
parts. `Typed`, of every session. `Placed`: the two paths never lead to one directory, nor
can a power loss make them (`Apart`); an orderly session that holds its lock works in the
directory it locked, unless that was adopted since (`Moved`), and in that case whatever is at its
path by then has no `tmp/`, because only the session itself could have made it. `Part`, per
orderly session: the nine file steps of a batch are a plan; `Reached` says what each prefix of
it has left in the staged and installed files, and `Durable` what the whole of it
leaves after a power loss. A session whose directory moved gets no further than its
next staging (`Beginnings`), so it never installs one pin without the other in someone
else's directory. Of sessions that disturb each other the invariant keeps only the types;
`Alone` shows that they never write where an orderly session works.

### `Helper_proofs`

`BatchesRunWhole`: `HelperSpec => []WholeBatches`, for every set of well-formed
dialogues (`DialogueAssumption`: requests are single lines, or lines of one kind and a
blank line) and all disturbances. `HelperInv` says that while git lives, git and the
helper are at the same request, at a line each: git has written `k` lines of it, the
helper has read `m` of these, the pipe holds the lines in between, some of them
perhaps unreadable, and the helper's batch is the lines it has read. It needs that git
waits for each answer and that the helper owes at most one.

### `Packing_proofs`

For all sizes, factors, limits and words, any number of pushes and any way git divides
a push:

- `PacksInCaps`: `PackSpec => []PackTypeOK`, and `PacksFit`: `PackSpec => []NeverOverLimit`.
- `OneMergeIsEnough`: `PackSpec => []VictimsRestore`. `VictimsFacts` says what the two
  loops of `Victims` find: the packs up to the last one that is too small.
  `SmallerCompares` says that comparing in two words compares numbers as long as both
  operands are below a word, which is where the totals of `PacksInCaps` are needed.
  `OneMergeRestores` then follows the merged pack to its place: the packs it passes
  keep their sums, or lose part of them, because a merged pack is no larger than its
  victims together.
- `RefusalMeansOneFile`: `PackSpec => []TooLargeMeansOneFile`. A part of a split that
  is over the limit is over the budget, because the margin covers the overhead, and
  git puts one object into such a part.
- `LogarithmicallyMany`: `PackSpec => []LogarithmicWithoutLimit`. Without a limit every
  published manifest is a progression (also the first, which is one pack), and sums in a
  progression multiply by `factor + 1` with each pack.

The inductive invariant is `Packed`: for some size `K` that no encrypted object
exceeds and that fits a word `MaxPushes * MaxObjs` times, every manifest is sorted, holds
sizes the host takes, lists at most `MaxPacks` packs, and totals at most `K` per object of
the pushes begun (`PackInv`). The bound on the total is what makes it inductive:
that a total is below a word says nothing about the next push. `WordAssumption` is the
code's reason why sums do not overflow: objects and pushes are bounded. `SizesAssumption`
says that encryption adds something and that the margin covers it.

Sums, insertion and powers are recursive functions, and what they compute
is an induction over data. The library's induction theorems cannot be used, but induction
itself can: `LeastElement` states well-foundedness of the naturals for a set,
`UpTo` and `GreatestElement` follow from it, and `RecursionExists` shows that a recursive
function is what its definition says. Each induction names the set of numbers for
which its claim holds.

### Model-checked only

`PushAnswered`, `Converges`, `MissedIsPinned`, `KeepsReclaimed` and `AlwaysAnswered` are
liveness under fairness, which TLAPS does not prove. The claims of the violation runs are false. Every
other property of a run is a theorem, under the assumptions named with it.

## 5. What is not modelled, and what is left

Left to do, in this order:

1. **Accept commands on disk**: `StateDirs` with durable deletion of pins and the
   restore steps, and that `StateDirs` implements the file steps of `CloakSync`.
   `dirs` has about three million states, so this needs an instance of its own.
2. **Lazy blob reads** against a host that collects garbage (`backend.go:171`).
3. **The keychain** as a second backend of `Keys`.

Not modelled, and not planned: encryption itself, JSON and the validation of
manifest fields other than the cap on packs, error wording and classification,
logging, progress display, path and URL resolution, the diagnostics of
`packlimit.go`, the process plumbing of `gitx`, and `debug seed-remote`.
