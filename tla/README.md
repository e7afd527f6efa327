# The Familiar in TLA+

A verification development kept beside the code of *The Familiar*, a local-first
autonomous service: one daemon per machine (Rust, `crates/`), several machines
joined into a mesh, device shells in Swift (`ios/`), and human-owned policy
files that every act is weighed against. TLA+ modules model the parts of the
code whose correctness depends on an order of events; TLC checks them on small
instances; TLAPS proves the main results for every value of the constants.

`PROJECT.json` maps each definition to the lines it stands for and lists runs,
mutants, hazards, findings and theorems. Sections 1 and 2 survey the whole
system, modelled or not. Section 3 is the plan. Sections 4 to 6 describe what
exists: the models, the runs, the proofs. Section 7 says what is left out.

## 1. The system and how its parts interact

| part | state it keeps | operations that change it | talks to |
|---|---|---|---|
| `workshop` (order, ledger, manifest) | one append-only JSONL ledger per production order, a lock file | `append` of eight kinds of event, each admitted only if the whole file replays with it | factory, cli, human witness |
| `factory` (generate, materialize, bench, converge), `factory-run` | an iteration directory per generation, the order's ledger | `converge`: generate, record, materialize, bench, verdict, repeat within a budget | workshop, llm, jail |
| `mcp` ladder (grant, partner_act) | one SQLite table of partner acts; a process-wide authority lock; a handle key | request, grant, decline, propose, refuse, revoke, observe, invoke | partner (network), human (console), executor in `cycle` |
| `mcp` registry and server (partner, covenant, session, server, serving, inbox) | partner registry, accepted covenants, rate windows | register, attest, revoke; hello, accept, call | ladder, mesh console acts |
| `mesh` admission (record, enroll, group, node, device) | a membership record per device, invites, group and node keys | claim, introduce, establish, release, correct, purge, sync with other doors | transport, standing |
| `mesh` views (standing, viewer, worldview, members, federation) | sibling introductions, standing | read at a rung; welcome or leave a sibling | admission, kernel |
| `mesh` gossip (brief, merge, grants, thread_sync, transport) | outbox, inbox of briefs, peers, learned tools | build, verify, stash, merge once a tick | cycle, every other door |
| `mesh` signed seams (observe, console_act, consult, status, rendezvous) | nonce cache, consult queue, soft-state directories | one verified write or read each | devices |
| `mesh` outreach, push | contact ledger, proposals, push tokens | tend, approve, send | parties outside the mesh |
| `kernel` reasoning (thread, prediction, belief, question, pending, reaction_rule, actuator) | theories, open prediction instances and results, questions, decisions that wait for a human, standing rules | one fold or transition each, once a tick or on a human's word | cycle, mesh |
| `kernel` authority (boundary, guard, review, parameters, corruption, ledger) | the human's boundary file, co-owned parameters, refusal counts, a hash-chained ledger | narrow, review and revert, count, append | everything that acts |
| `kernel` evolution (candidate, spec, mutation, score, selection, trial, pattern_memory) | candidates, trials, patterns | test, score, select, mutate | cycle, scenario |
| `cycle` | the tick's own pacing files | one tick: sense, detect, generate, test, measure, interpret, answer, act | all of the above |
| `llm`, `agent`, `exec`, `jail` | a consult lane lock file; processes | consult, run, kill | cycle, factory |
| `recipe`, `scenario` | interpreter state; a campaign's checkpoint | run a recipe; run a cell, resume | cycle; offline |
| `cli`, `sense`, `reach`, `vision`, `probe`, `core-ffi`, `ios` | a pid file; a shell's own settings | start, stop, perceive, show | the daemon |

A daemon runs the tick on one thread and the mesh's HTTP server on others; the
command line and a second `factory-run` are separate processes on the same
files. So three kinds of concurrency matter: threads of one daemon over one
database (the ladder), processes over one file (the order ledger, the consult
lane), and machines that exchange signed records with no order between them
(the mesh).

## 2. What is hard in each part, and what makes it correct

**Order ledger.** A ledger admits an event only if the whole file, replayed with
it, is legal. Hard: two processes, a crash between the bytes of one line and
the newline, a full disk, a failed `fsync`, a waiter overtaken on the lock file.
Correct when: proof, witness and declaration are always of the candidate they
were obtained for; what is on disk replays; an acknowledged event stays; every
append returns.

**Converge.** A loop over generations with a budget, restarted after crashes,
beside other appenders and possibly a second run of itself in the same
directories. Correct when: a verdict is of the candidate that was recorded, a
converged order is so on the ledger, restarts share one budget, every run ends.

**Authority ladder.** Eight operations over one stream; four of them check and
append without a lock, three hold a lock through device I/O. Hard: revocation
against an act in flight, retries of an invocation whose answer was lost, a
daemon that dies between reservation and settlement, time read before waiting,
ceilings counted before the append. Correct when: no act under a grant begins
or continues after its revocation was acknowledged; an idempotency key reaches
the device at most once; answers are never contradicted; rates and ceilings
hold; the stream always loads; the lock is given back.

**Partner registry and server.** Identity from credential files; covenant before
anything else; a rate window per partner. Hard: revocation racing a call,
re-registration under an old id, two windows. Correct when: nothing but the
constitution is reachable before acceptance, and a revoked partner reaches
nothing.

**Admission.** Membership records are merged between doors that may each have
corrected them. Hard: duplicated and reordered syncs, a purge racing a
sighting, a released identity reappearing from an old copy, an invite spent
twice. Correct when: merge is commutative, associative and idempotent; a stop
or release is not undone by an older copy; no device is a member without both
filters.

**Views.** Which projection a reader gets. Correct when it fails closed and a
sibling never reads above its rung.

**Gossip and merge.** Correct when draining the same brief again changes
nothing, a retired theory stays retired on every door, and nothing learned is
laundered into local sensing.

**Signed seams.** Correct when a request takes effect at most once within its
window, whatever is replayed, and a directory entry lasts no longer than its
owner's silence allows.

**Outreach.** Correct when every utterance was in the ledger before the wire,
under consent, within its rate, and only a human's approval sends a covenant.

**Reasoning.** Correct when each prediction instance is settled once, a belief
moves only with hysteresis, assent asked for survives the theory's decay, and a
rule the human undid does not fire again.

**Authority files.** Correct when the boundary only narrows, a parameter outside
its envelope is reverted and said so, and the ledger's chain names the first
alteration.

**Evolution, recipe, scenario.** Sequential; correct when they compute what
their documents define, and when a resumed campaign repeats no cell.

**Consult lane.** Threads of one process, and several processes, share one model and
two files; correct when one of them consults at a time, each takes the answer to its
own prompt, and a dead or late adapter blocks nobody.

## 3. Plan

| step | modules | composes | state |
|---|---|---|---|
| 1 | `OrderReplay`, `OrderLifecycle`, `LedgerFile`, `Converge`, `Campaign` | the file implements the lifecycle; converge runs over the lifecycle's fold | done, with proofs |
| 2 | `PartnerStream`, `PartnerLedger` | the ladder over the stream's fold | done, with proofs |
| 3 | `MeshRecord`, `Doors`, `Formation` | doors over the merge of records | `Doors` done, with proofs of its safety; `Formation` checked |
| 4 | `Theories`, `Devices`, `Briefs` | one household, in `MCHousehold` | done, with proofs |
| 5 | `Prediction`, `Belief`, `Actuation`, `Dialogue`, `Questions`, `Consult`, `RefusalChain`, `Goals` | what one tick tends, in `MCTick`; the rest in `MCHousehold` and `MCOrderLifecycle` | done, with proofs |
| 6 | partner registry and covenant in front of the ladder; the nonce caches of the signed seams; outreach; parameters; the learned tools; the recipe interpreter; views; key rotation of a device | registry over the ladder, sweep over the record | left |

What is left is mostly sequential, or one check of one value under one lock; what
was noticed while reading it is in section 5.4.

The abstract specification is the order's lifecycle. `LedgerFile` implements it,
checked by TLC and proved. The other properties are stated over the modules'
own state, with ghosts where a property needs what the code forgets.

## 4. The models

The `MC` modules put several modules into one run as *stories*: an initial choice
says which of them moves, and each leaves the state of the others alone. A story
is a system of its own; that they share a run says nothing about the code.

### 4.1 Orders, and what else is written line by line

`OrderReplay` is the fold of `workshop/src/ledger.rs`: for each event of `apply`
one operator for what it demands (`…Legal`) and one for what it does
(`…Effect`), over the fields of `OrderState` that a rule compares. Hashes and
digests are model values; `validate_order` and `validate_outcome` are kept as
the conditions they put on an order and on an outcome.

`OrderLifecycle` is the abstract life of one order: a state `st` that moves by
events that are legal in it, and ghost sets recording what was asked, answered,
offered and observed, which the properties compare with `st`. Generations are
bounded by `MaxIterations`.

`LedgerFile` is the file. Processes take the lock file, read and replay what is
there, validate, write the body and then the newline as the two writes they are
on an unbuffered file, sync and acknowledge. A process may stop between any two
of these and inside the body; a write or sync may fail. The file is a sequence
of fragments (a whole body, a torn one, a newline), and replay is the fold of
its whole bodies, of which the lifecycle's variables are functions.

`Converge` runs two copies of `converge` on one order with other appenders, over
`OrderReplay`'s fold. The iteration directory holds whose candidate was written
last, because both runs name it by the iteration number.

`Campaign` is the scenario laboratory's other budgeted loop: cells in order, a
checkpoint after each, halts, crashes and resumptions, and a ghost count of the
calls really made beside the count the checkpoint keeps.

`RefusalChain` is the hash-chained ledger of refusals: several writers, a lock
that is waited for a second and then passed by, two writes to a line, stops
anywhere. `overtaken` says that somebody was inside past the lock.

`Goals` is the roadmap of two hosts: seeds, claims, runs, progress records and the
briefs that carry goals and records. `tries` counts the runs really begun.

### 4.2 The authority ladder: `PartnerStream`, `PartnerLedger`

`PartnerStream` is `validate_sequence` and the folds of `grant.rs`: a record of
the stream's requests, decisions, grants, ends, proposals, reservations and
settlements, and `history`, which says whether every row could follow the ones
before it. The code validates the whole stream on each load, so one row out of
place makes all later loads fail; `Loads` is that test.

`PartnerLedger` runs `Threads` calls at a time, drawn from `Menu`. A call that
takes no lock checks (`Pass`) and appends in two steps (`Request`, `Grant`,
`Decline`, `Propose`, `RefuseProposal`); the append is one keyed transaction. A
call that takes the authority lock (`Lock`) revokes (`RevokeCheck`, `Revoke`) or
is admitted (`Admit`), reserves (`Reserve`), runs the device (`Execute`) and
settles (`Settle`), or replays an earlier answer (`Replay`). `FindExpired` and
`Expire` record an expiry met on the way. `Fail` is a failed append or a panic
in the executor, `Crash` a restart of the daemon, `SetGate` the human's hand on
`allow_agent`, `allow_actuate` and the declared surface, `Tick` the clock. The
ghost `proposed` says whether any proposal was appended, which is what finding 3
turns on.

Decisions of the abstraction: partners are registered and attested; audit rows
of refusals change no fold and are left out, as are input shape checks, which
refuse before anything is read; a handle names its grant; `propose` loads the
stream twice with nothing between that depends on the first, modelled as one
check; a request's optional duration is always given. `Reserve`'s keyed append
cannot meet an earlier row, because the lookup was made under the same lock.
The code looks at `allow_agent` when it grants and when it takes a proposal, not
when it observes or invokes; the model does the same.

### 4.3 Admission: `MeshRecord`, `Doors`, `Formation`

`MeshRecord` is one device's membership record as `mesh/src/record.rs` defines
it: its establishment, its admission, its corrections, what follows from them
(`Member`, `Guest`, `Severed`), `Merge`, and the two-hour lease of a guest. A
correction is its act and its second; corrections of one second are ordered as
the code's sort by nonce orders them.

`Doors` is what the doors of a mesh hold about one device: `rec`, the replica of
each; `roll`, the legacy standing roll it mirrors into; `granted` and `denied`,
the certificate and denial files; `spent`, the invites used at each door; `wire`,
the syncs on their way. Devices knock, introduce themselves, are refused, are
seen; humans grant, revoke, name, deny and correct; doors sweep (`Purge`), offer
what they hold (`Offer`) and take in what they are offered (`Absorb`). Each action
is the whole handler, with the roll and the files it writes besides the record.

Decisions of the abstraction: an act at a door is one step. The code loads,
changes and saves a record without a lock; a save over another undoes that one,
which leaves the records as if it had not been made, so the exchange is covered
and the loss itself is a hazard of its own. A lost sync is one never sent. A
device has one key; claims, notes, origins and reasons are left out, for no
rule compares them; the doors' clocks are one clock; a door can mint; a
member's correction reaches one door, once, at most `Delay` after it was signed.
At the start some doors may hold a guest or a member that others never heard of.
Replicas are compared without the name: a name filled in at one door does not
change the fact, and `merge_records` lets neither copy win for it.

`Formation` is how nodes with no group find or found one: a seeker asks every
host to admit it, asks everybody who they are, and founds when it is the lowest
of those without a group. The requests of a round interleave with those of the
other nodes, and nodes go down and come back.

### 4.4 The household: `Theories`, `Devices`, `Questions`, `Consult`, `Briefs`

`Theories`: the rows two doors keep of their theories, each numbering its own;
mint, status, fold, retirement, answers, and the offer and absorption on a dial,
which may be lost or late. An offer is the newest rows of the window, in the order
of the code's stable sort, cut off after `SyncCap` (`THREAD_SYNC_CAP`, 64). All rows
are of one schema version. `Devices`: the record two doors keep of one machine,
with names, posture, machine facts and dated sightings, of which a record keeps
`MaxNetworks` (twelve) when a new address is noted; the cap of an offer of devices is
left out, as there is one device. `Questions`: the
registry of questions, the screen, a person for whom a need is and another, who
come and go, and answers by the routes that know the registry and those that do
not; and the question an older daemon left about a new device, which the tick
retires once the device is gone. `Consult`: the lane of a process, the two files of the machine, the adapter
with its shell and the stray it may leave, deadlines and the stepping aside.
`Briefs`: the hub that has no person, its peers, what it needs decided, what they
decide, and the briefs that carry both, the last one replacing the one before.

### 4.5 The tick: `Belief`, `Prediction`, `Actuation`, `Dialogue`

`Belief`: settled results folded into a state with hysteresis, a person's
corrections and reversed acts as overrides, asides with a cooldown.
`Prediction`: windows in event time, late evidence, the pass that settles what
can no longer change. `Actuation`: one surface and everyone who moves it: the
tick, which loads the surface's record and saves it later, the person at the
device, the partner, the answers that decide a standing policy, and the gate. Each
run of a tool may fail with the gate open, and minting a policy may be refused, which
declines the decision (`AssentRefused`); what refuses it, another person's rule on the
surface, is not held in the module.
`Dialogue`: two threads of one daemon that answer the same words over one log.

A stop of the process may fall between any two writes in each of these.

## 5. The runs

Each run's bounds are in its `.cfg`. Every property has a mutant: a definition
changed as a plausible bug would change it, under which TLC finds the property
violated in the same run.

| run | question | bounds and why they are enough |
|---|---|---|
| `order` | do proof, witness and declaration stay with their candidate; is a verdict of what was recorded, and a budget shared by restarts; does the chain of refusals only fork past its lock; does no goal burn, no campaign overrun; does work end? | two generations (one to inherit from), two requests and two digests (one of them the wrong one), a mechanical and a witness rung; two runners, a sound and a faulty candidate, one crash; three cells under a cap of three calls; two writers, three records, one stop; two hosts, one of them without a deployer's hand, two attempts, two seeds, one brief |
| `order_declared_digest` | does commissioning follow the digest last proposed? Violated: finding 1 | as above |
| `ledger_file` | does the file replay, keep what it acknowledged, implement the lifecycle, and return every append? | two processes, three events, a stop or fault anywhere: both torn positions and a reader after each |
| `ledger_crash_line` | does an acknowledged append leave a ledger that reads? Violated: finding 2 | as above |
| `partner` | fence, single run, final answers, legal history until a proposal, hourly rate, ceilings, keys | two calls at once in three stories: the effect edge with retries, a revocation, a grant that expires, a closing gate and one fault; three invocations under a rate of two, in an hour of two ticks within a clock of three; three requests and two proposals under ceilings of one |
| `partner_race` | does the stream load with a proposal racing the end of its grant? Violated: finding 3 | one grant, one proposal, one revocation |
| `doors` | do released facts stay spent, is nothing new agreement, do doors come to agree and forget visitors, do nodes end in a group? | two doors, two acts in the first two seconds, one sync in flight, four kinds of evidence, a clock that ends after every lease taken in them: a tie, a late correction, a crossing sync and a sweep before it all happen; three nodes, one outage |
| `doors_release` | does a release stand? Violated: finding 4 | one act is enough |
| `tick` | are assents whole, scores sound, replies true to what was said, beliefs moved for cause, asides paced, a no heeded, a yes kept, what is owed paid? | one surface with budgets per conversation; four results of each kind, one correction, one reversal; one claim, two observations up to two late; two words in one second, one of them corrupting; one stop in each |
| `household` | do words stay with their consult, does sync only add, is a not-now kept, what is hers held for her, and nothing left waiting? | two doors, one theory, three operations, one loss, three days, and two days of the same with a cap of one row that a purge of two is cut by; two addresses of a machine of which its record keeps one; two people, two visits (one, and no stop, when an older daemon left a question); three consults of one process, one of them human; a hub whose gate is shut at first, a peer, two newcomers |
| `own_words` | does a consult get its own words? Violated: finding 5 | two consults of two processes |
| `answers_lost` | do answers stay on their thread? Violated: finding 6 | one theory at two doors |

Symmetry is used only over `Threads`, in runs of invariants. `CHECK_DEADLOCK` is
off everywhere: a system may stop, with no more events, ids or time left.

### 5.1 Fairness

`LedgerFile`: a process that is running goes on; trying for the lock is repeated
until the code's own timeout, which is what makes an overtaken append return.
`Converge`: each run's own steps; adapters and benches have their timeouts.
`Campaign`: a campaign goes on, and whoever runs it takes the stop file away and
resumes it until it is complete. `Goals`: a host's daemon ticks.
`Doors`: a handler that took a sync finishes, the tick sweeps, and a round of
gossip dials again and again (strong fairness of `Offer`, which is blocked while
the wire is at its bound); once the acts are over a sync arrives within its
second, as a request has a timeout of seconds against a lease of hours.
`Formation`: each node's rounds go on. `Theories`: an offer that arrived is taken
in, and doors dial again. `Questions`: the daemon ticks and time passes.
`Consult`: a running consult goes on, as the adapter has a deadline. `Briefs`: each
daemon ticks and dials, and of the exchanges tried again and again one gets
through. `Actuation`, `Prediction`, `Dialogue`: the tick starts and finishes; and in
`Actuation` a tool may fail, but the undo of an act, which the code tries again on every
tick, does not fail each time (strong fairness of `HeedUndo`): a device that never
answers again is one no code can put back.
Taking a mutex is fair nowhere, as `std::sync::Mutex` promises no order, and no
person has to act: where a property needs one, it says so as a condition
(`NothingWaitsForEver` asks that somebody be there and the screen be freed).

### 5.2 Findings, each a run of kind `violation`

1. A second `DeclarationProposed` leaves `declared` standing for the first one
   (`workshop/src/ledger.rs:465`).
2. A crash between a line's JSON and its newline makes the next acknowledged
   append share the line, and the ledger is unreadable from then on
   (`workshop/src/ledger.rs:647`).
3. A proposal checked before its grant's end and appended after it makes every
   later load of the partner stream fail (`mcp/src/grant.rs:617`).
4. A release is forgotten two hours later with the record it was written on,
   and a sibling that was away brings the member back, on the roll and all
   (`mesh/src/record.rs:986`).
5. The lane of the consults is a lock of one process, its two files belong to
   the machine: the daemon and a factory run are handed each other's words
   (`llm/src/lib.rs:215`).
6. A sibling's later status of a live thread replaces the copy with the answers
   (`kernel/src/thread.rs:491`).

### 5.3 What the findings leave to state

Where the code does not keep a promise, the project also states what it does
keep: `LoadsUnproposed` (the stream loads until somebody proposes),
`ForksOnlyPastTheLock` (the chain holds until somebody writes past the lock),
`CrossedOnlyByStrays` (words cross only between processes or by a stray),
`NothingNewIsAgreement` (doors that have nothing new for each other agree), in
`SyncOnlyAdds`, that a closed theory stays closed while ids are apart and that a
sighting of a device gives way only to as many no older ones as a record keeps, and,
in `NothingWaitsForEver`, that a verdict travels while an offer has room for it
(`HasRoom`: fewer than `SyncCap` other rows were touched as late as it).

### 5.4 Noticed without a run

What was met while reading and modelling, and departs from a comment or document
or leaves something open. None of it is claimed by a run; each would be a run of
its own if the code's owners thought it worth one.

- **Orders.** A failed sync returns an error for an event that stays in the file
  (`workshop/src/ledger.rs:650`). A comment speaks of a pid-lease lock (line 26);
  the code uses the operating system's file lock, and so does the model. A converged
  order that is started again is refused as an invalid outcome
  (`factory/src/converge.rs:96`). A campaign whose cells partly failed still halts
  with "Every cell is done"; a torn checkpoint blocks `--resume`; the calls of failed
  cells are not counted; `--force` keeps the done cells of another plan.
- **Ladder.** `invoke` judges expiry by a time read before it waited for the lock
  (`mcp/src/grant.rs:902`). A panic under the lock leaves it poisoned for good
  (line 1072). A stop while the handle key is written leaves a short key (line 1864).
  A proposal that finds its grant expired ends the grant without the lock while an
  invocation may be admitted.
- **Admission.** Record writes are load, change, save without a lock and in place
  (`mesh/src/record.rs:1065`, 868). A hold after a sever undoes it (403). A correction
  that is delivered again after the sweep is taken again (1590). A release that comes
  by sync leaves the standing roll as it was (1535), and a revoked standing returns
  by a sibling's record (`mesh/src/standing.rs:186`). A name given at one door is
  dropped for a sibling's later record (1176).
- **Formation.** Two nodes that ask each other at different moments may both found
  a group, and groups never merge, though `docs/mesh.md:110` says that at most one
  forms; a node of the lowest id that does not seek (`auto_peer` off) keeps the others
  from forming.
- **Theories.** Each door numbers its rows, and a first match by id
  (`kernel/src/thread.rs:507`) takes distinct theories of one number for one: after such a
  mix an update by id may revive a retired row, where `mesh/src/thread_sync.rs:10` says
  no sync can. An offer is the newest 64 rows (`mesh/src/thread_sync.rs:71`), the same
  ones on every dial while nothing newer is touched: of a purge that dates more rows than
  that to one second, as the 443 of its header (line 5) may be, the rest does not leave the
  door within the window, where `touched_at` says "A retirement must travel" (line 47).
  The answer to a GET is cut the same way. With `HasRoom` left out of `Unheard`, TLC finds
  this in the story `purge`.
- **Policies.** A comment says that a mint is refused when the surface is no longer
  declared or its edges no longer labels (`cycle/src/lib.rs:3242`); `mint_policy` looks only
  at empty fields and at the rules of other people (`kernel/src/reaction_rule.rs:90`).
- **Replies.** Two threads that answer one word within the same second, or an answerer
  whose clock was read before the word, may both answer (`cycle/src/lib.rs:1057`); a
  request's id is counted and two writers can mint one (1119).
- **Beliefs.** The transition is appended before the row it describes, so a stop
  between makes it appear twice (`kernel/src/belief.rs:313`).
- **Briefs.** The second stop of a gate that was reopened locally is ignored; a denial
  with nothing pending is not marked, is applied on every tick and its hold never ends;
  a second question of the same peer is never surfaced; a late answer retires another
  question.
- **Refusals.** A crashed process's lock file is never removed, so that every later
  writer goes past it; a stop between a record and its newline spoils the next
  acknowledged record; a tail that cannot be read blocks recording.
- **Goals.** Two hosts can both claim and do one goal. Ids are minted from a local
  count and collide. Attempts count every host's progress records, those of claims and
  of an agent that was unavailable included, though one comment says "its own"
  (`cycle/src/lib.rs:4197`) and another that unavailability is "not a failure of the goal"
  (4313). A stop between claim and park leaves a goal claimed for ever, as does a
  host that goes away.
- **Not modelled at all.** Outreach sends first and appends to its ledger after,
  against its own line (`mesh/src/outreach.rs:304`), so an approval that stops between
  sends twice, and two processes exceed the daily limit. `audit_tool_health` (`cycle/src/lib.rs:4125`)
  looks only at tools whose last run was good. A tool's id comes from a row count
  and is used again after a prune. Ingestion remembers a nonce before its rows are
  recorded, and forgets one before a batch stamped in the future expires.

## 6. The proofs

Eight modules of theorems. All are statements about the modules as they are
checked; none has a hypothesis besides the named assumptions on the constants,
which TLC evaluates on the runs and which say no more than types, finiteness, that
a value is not one of those it stands beside, and, for `Converge`, that the
desk's appends are not generations (only a loop writes those).
The bounds (`Max…`) are arbitrary naturals.

Some theorems are about a component's own specification, others about the
composition in an `MC` module; the latter rest on the former and on each story
leaving the state of the others alone.

**Orders** (`OrderLifecycleProofs`). The inductive invariant `LifecycleInv` is the
conjunction of the checked invariants with what they need of each other: that a
standing proposal has the mechanical rungs behind it, that an outstanding request
was asked in this iteration, that nothing was declared but against this iteration's
proposal. None of the checked invariants is inductive alone: that the witness rung
was passed on a Yes needs that `witnessed` was set by an answer to this
iteration's request. One lemma per event.

**The file** (`LedgerFileProofs`). `LedgerInv`: who is past the lock is alone there,
and what it wants to write is the next entry and legal after what is on disk
(`Locked`, `MintedReplays`); who has written its body finds it at its number
(`MintedIsThere`); what was acknowledged is there (`OnDisk`); and the whole
replays. `TheDiskReplays` and `AckedStays` follow. Replay is a fold over the file,
and induction over data is out of reach; but what replay makes of a file that is
one fragment longer (`ReplayOfMore`) is proved without an induction schema, by
looking at the least fragment at which two foldings could differ (`LeastExists`,
`UpTo`). `MirrorInv` says what the mapped variables are: the count of the whole
lines is the count of replay, and its iteration the number of generations. Then
`TheFileIsTheLifecycle`: a fragment that is not a whole body is a stutter of the
lifecycle, a whole body its event. `EveryFileKeepsItsOrder` carries what
`OrderLifecycleProofs` proves of every lifecycle over the refinement: the four
invariants hold of what anyone replays from a file, through every crash.

**Loop, chain, roadmap, laboratory** (`OrderStoriesProofs`).
- `ConvergeInv`: from the record to the end of its run an iteration is its runner's
  alone (`OneRecords`), its directory holds that runner's candidate (`BenchedIsHeld`),
  and no verdict is of an iteration not counted yet. The uniqueness comes from the
  ledger's own rule that a generation is the next one.
- `ChainInv`: while nobody was overtaken, one writer is inside (`AloneInside`), what it
  chains onto is what it read (`TailIsFresh`) and the line it ends is its own
  (`LineIsIts`).
- `GoalsInv`: of every goal a host owns it has one record more than it began runs, but
  for the one still to be written and those that stops cost it (`EveryRunIsKnown`),
  which needs that nobody else takes over an owned row (`OwnersHave`, `DoingOwned`).
- `LabInv`: a call that was made is in the running state, in the file once that was
  saved, or lost with its cell, and a cell begins below the cap.

**The ladder** (`PartnerLedgerProofs`, `PartnerCountProofs`), for any number of
concurrent calls, any menu, bounds, clock and number of faults.
- `TypeInv`: the types, and that a thread at a place makes a call that can be
  there (`Placed`).
- `Mutex` and `Unrevoked`: acknowledged revocations are in the stream, and nobody
  admitted was admitted on one; a revocation is acknowledged while nobody else is
  past the lock. `AcknowledgedFence` follows.
- `EffectsInv`: a key names one reservation; who is admitted has none yet; an act
  in flight is not settled or told of; what was settled or told is of a
  reservation. `OneRunPerKey` and `AnswersStand` follow.
- `LoadInv`, while `~proposed`: every row could follow the ones before.
  `LoadsUntilProposed` says so of every stream, and finding 3 that it stops there.
- `OpenInv`: open rows and the calls that saw room and have not appended yet together
  overshoot the ceiling by less than one per thread.
- `RateInv`: who is admitted has counted every reservation its own can share an hour
  with, and holds the lock until it is made, so no window of an hour holds too many,
  whichever second it starts at.

**Admission** (`DoorsProofs`). `DoorsInv`: in every replica, held or on its way, no
correction is later than the clock and no fact as old as a release it knows. It is
`Merge` that must keep this, for any two sound records, and a door that mints must
date the fact later than the greatest release it knows. `SpentStaysGone` is one half
of it. `ExchangeEndsInAgreement` is a fact about `Merge` alone: two records each of
which takes nothing from the other are one but for the name.

**The household** (`HouseholdProofs`). `ConsultInv`: a consult that no other process
and no stray disturbs owns both files while it runs. `BriefsInv`: who is denied is
not pending, and peers send decisions only. `TheoriesInv`: rows are of their type and
not from the future; and an absorbed copy keeps a verdict while ids are apart. It is
proved of whatever part of the recent rows an offer carries (`OfferKeeps`), and so of
both stories of the theories: that what the doors do besides offering and losing does
not depend on the cap is `CutIsAlike`.
`DevicesInv`: records, also those in flight, are dated by the past, so what is
written now is not older than what was there, and what a new address pushes out is no
newer than all that stays (`NoteNetworkKeeps`). `QuestionsInv`: between the start of
a tick and what it puts on the screen the registry was joined with what threads were
answered, and a need without an addressee is one a stop cut off. `HouseholdInv` is all
five; the clock, which two of them share, only moves forward.

**The tick** (`TickProofs`). `BeliefInv`: a row never counts results it has not seen,
its last move rested on what had settled, and its mark of an aside agrees with what
was told, up to a stop between the two. `ScoringInv`: timely evidence in the window of
an open claim is still ahead of the cursor less its overlap, and an open claim has
only rows of earlier runs of the process. `ActuationInv`: what a pass loaded is a
record the surface could have, a pass about to act read a label other than the one
wanted, and no step takes a minted edge back. `DialogueInv`: whoever is about to record
has seen every reply that is as new as what it answers, and what is filed points at
replies to its word. `TickInv` is all four with their bounds.

**Only model-checked.** Liveness, and whatever holds under fairness: `AppendReturns`,
`WorkEnds`, `MeshSettles`, `NoIsHeeded`, `YesIsKept`, `SettledAndHeard`,
`NothingWaitsForEver`. The prover's temporal backend does not treat `ENABLED`, so
these stay on the bounds of section 5. Every invariant and every action property of
a passing run, and the refinement, is the statement of a theorem.
`Formation` has no safety property of its own: what one would want of it, that one
group is founded, does not hold (section 5.4).

## 7. What is not modelled

The parts of step 6 of the plan, for want of an order of events in most of them: the
partner registry and covenant (one person at one console rewrites one row; each request
is decided anew), views and worldview (pure functions of a record for a reader),
the nonce cache (one set under one lock), outreach (one person's approval and one
provider), parameters and boundary review (one value against a table), the learned
tools, the recipe interpreter, key rotation of a device.

Not planned: HTTP and TLS framing, prompts and parsing of model output, sandbox
profiles, perception of the host, rendering, argument parsing, deployment scripts,
the floating-point scores of evolution. They keep no state whose order matters, or
their correctness is that of the operating system.

Data is abstracted where no rule compares it: hashes, digests, names, notes and
reasons are model values or left out, doors of a mesh share one clock, signatures
are taken as valid. Each module's head says what it leaves out.
