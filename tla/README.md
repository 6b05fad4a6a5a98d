# A TLA+ model of Splinter

This directory holds TLA+ specifications of the parts of Splinter that run concurrently or keep
state across nodes, the TLC configurations that check them on small instances, and TLAPS proofs of
the most important results for every instance. `PROJECT.json` maps every definition to the lines of
code it models, and lists the runs, the mutants that show each property can fail, the findings, the
hazards of the code and the theorems.

## The system and its modules

A Splinter *node* (`splinterd`) talks to other nodes over authorized connections. *Circuits* are
virtual networks of nodes, *services* are endpoints within a circuit, and *applications* use them
over REST and websockets. Two kinds of services, and two of the examples, agree by *two-phase
consensus*: the *admin service* of every node, which agrees on new circuits; *scabbard*, which agrees
on batches of transactions; and the example services *private_xo* and *private_counter*.

| part | source (`src/`) | module |
|---|---|---|
| two-phase consensus engine | `libsplinter/src/consensus/two_phase` | `TwoPhase` |
| what consensus promises | `libsplinter/src/consensus/mod.rs` | `AtomicCommit` (abstract) |
| scabbard service, over the engine | `libsplinter/src/service/scabbard` | `Scabbard` (extends `TwoPhase`) |
| private_xo, private_counter, over the engine | `examples/private_xo`, `examples/private_counter` | `PrivateServices` (extends `TwoPhase`) |
| admin service | `libsplinter/src/admin/service` | `Admin`, `Subsequences` |
| admin and state events, mailbox, bounded sets | `admin/service/mailbox.rs`, `storage/sets`, `rest_api/events.rs` | `AdminEvents` |
| websocket client and reactor | `libsplinter/src/events` | `EventClient` |
| circuit state, service directory, routing | `libsplinter/src/circuit` | `CircuitRouting` |
| service processor, orchestrator, daemon threads | `libsplinter/src/{service,orchestrator}`, `splinterd/src/daemon.rs` | `Services` |
| peers and authorization | `libsplinter/src/network`, `collections` | `PeerNetwork` |
| mesh | `libsplinter/src/mesh` | `Mesh` |
| transports | `libsplinter/src/transport` | `Transports` |
| gameroom daemon | `examples/gameroom/daemon` | `Gameroom` |
| node registry, paged lists | `node_registry`, `splinterd/src/routes`, gameroom's routes | `Registries` |
| `splinter cert`, `splinter admin keygen/keyregistry` | `cli/src` | `CliFiles` |

`MCTwoPhase`, `MCScabbard`, `MCAdmin`, `MCApps`, `MCHosts` and `MCNetwork` instantiate them for TLC.
The last three each hold several components that share no state: a behaviour is about one of them
(its `subject`), and the others stay as they start.

### How state and actions correspond to the code

Variables keep the names of the fields they model, one function per kind of node or service. An
action is a handler or a manager call as a whole, with its early returns as disjuncts or guards; a
call that holds a lock from beginning to end is one step, and where a lock is taken twice, or a thread
waits in between, there are two. Channels are sequences, in order per sender and receiver, and bounded
where the code bounds them.

* **TwoPhase.** One engine per node runs the loop of `run`: abort a timed-out proposal, take up a
  backlogged request, get the next proposal, handle a message, handle an update. `pc[n]` is the step
  that comes next. The proposal manager is open: what it answers is a parameter of the action that
  calls it, so that `Scabbard` and `PrivateServices` conjoin a manager of their own. `created`,
  `validated`, `accepted` and `rejected` are histories of the answers. `Faults` says what may fail:
  manager calls, creating a proposal after sending it to some verifiers, sends, and engines, which
  stop and start with empty memory.
* **Scabbard, PrivateServices.** A state root stands for the state it hashes, the sequence of the
  batches applied; the ID of a proposal is the state root that its batch should lead to. Queues,
  pending changes, `HEAD` in the database (scabbard), the batch history with its limit, and the
  messages that carry proposals are variables. Executing transactions is membership of a set of valid
  state roots.
* **Admin.** Submission, waiting for peers, proposals and votes through consensus, commit to the
  state and to the disk, `MEMBER_READY`, start of the services, restart. Peers are authorized, are
  refused (`on_authorization_change` drops what awaits them) and disconnect, which the authorization
  manager notes without telling the admin service; `met` is the history of who has been a peer since
  a payload was submitted. Consensus is reduced to what the theorems about `TwoPhase` promise a
  manager. A payload stands for its hash.
* **CircuitRouting.** `validate_circuit`, the directory of services that each node keeps for itself,
  connect and disconnect requests, and the routing of messages and errors by the directory. Any node
  accepts an admin service of any name, as the code does; messages between admin services go by name.
* **Services.** The daemon's loops and bounded channels, the three threads of each of two hosts, a
  service's life, replies and errors to waiting callers, and Ctrl-C. A queue of the mesh may be full:
  the processor and the node's sender then drop the message, and the orchestrator's outgoing thread
  ends with all that is queued for it (`Refuses`, `SendOut`, `SendUp`).
* **PeerNetwork.** The two-way peer map with its redirects, connecting in two steps (the peer is
  added, then the request is sent under its ID), the handshake, the listeners, and the two locks that
  a callback takes. **Mesh** and **Transports** lie below it: the reactor's queues, and one connection
  from its making to its end.
* **EventClient.** The futures of websockets, each at a stage between connecting and its end; writes
  that may block for ever; and the reactor's thread with its bounded channel, in which also a handler
  that starts a websocket waits for room.
* **AdminEvents, Gameroom, Registries, CliFiles.** What applications are shown and what
  they and the command line keep: events past and new, the transactions that events
  make on the daemon's tables, pages of lists, and files that a killed command leaves behind.

## What TLC checks

`pass` runs explore every state of these instances; each property has a mutant of the code's
definitions under which the same run finds it violated.

| run | instance | properties |
|---|---|---|
| `two_phase` | two engines with two proposals, interleaved step by step; three engines with one, where messages are lost, creation fails half-way and engines stop | `IInv`, `Agreement`, `AcceptedOnlyIfAllValid`, `EvaluationEndsInDecision`, `ImplementsAtomicCommit` |
| `scabbard` | two services, two batches, proposals half sent, lost messages, commits failing in each of three places, one crash | `StatesAgree`, `CommittedIsApplied`, `CommitsTheProposal` |
| `scabbard_progress` | two services, one batch, half-sent proposals, fair threads | `CommitsReachAll`, `CoordinationEnds` |
| `admin` | six workloads on three nodes: rival definitions of an ID, the same with failing stores and sends and lost connections, the same with restarts, votes of two members that meet, circuits proposed among strangers, a circuit proposed twice while peers come and go | `CircuitsAreVotedFor`, `MembersToldTheSame`, `VerifiersAreMembers`, `ServicesStartTogether`, `ProposedAmongPeers`, `CommittedCircuitsRun`, `CircuitsStay` |
| `apps` | example services (two batches or increments); routing on two nodes with ten shapes of circuit and admin services; a gameroom daemon; walks of every list, of the node registry with up to two filters; four commands of the command line | `XoNeverForks`, `CommitsTheProposal`, `DirectoriesAgree`, `ValidCircuitsCommit`, `NotDropped`, `MessagesEnd`, `TablesMatchLog`, `WalkShowsEachOnce`, `CertsMatch`, `RegistryHasPairs` |
| `hosts` | services that start and stop, or are rejected, while channels of capacity one fill and the mesh refuses a message; an application that registers while events are sent and evicted; websocket clients, of which one reconnects and one starts another when it fails | `CalledWhileStarted`, `CallsReturn`, `ShownInOrder`, `NothingOwedIsLost`, `OrphansClose`, `HandlesReturn` |
| `network` | two nodes that connect by name, by endpoint and to each other at once, closes and refusals; a mesh of two threads, where a send would block up to three times; a connection of each transport | `AuthorizedIsPeer`, `HandshakeCompletes`, `GoneIsForgotten`, `NothingLost`, `RemoveFinds`, `AcceptedIsWritten`, `SentIsReceived` |

Five runs expect a violation, each of a sentence of the code's own documentation (quoted under
`findings`):

* `scabbard_abort`: after a failed commit the coordinator evaluates its proposal for ever, and the
  timeout that should abort it does not.
* `admin_pending_changes`: the rejection of one circuit's proposal drops the pending change of
  another's, with another coordinator.
* `shutdown`: Ctrl-C stops the loops that the shutdown handle waits for.
* `network_deadlock`: a submission and an authorization callback take two locks in opposite orders.
* `private_state`: a private_xo service whose pending proposal was overwritten misses a commit.

### What the properties leave out

Some of what the code does is modelled and excepted by the property that it would violate, since no
document says otherwise. These are limits of what is shown:

* `ProposedAmongPeers` says that each member has been an authorized peer since the submission, not
  that it still is: the manager forgets a peer that disconnects without a callback.
* `CircuitsStay` excepts behaviours with both failed writes of the store and restarts: a circuit whose
  write failed is lost by a restart, and a proposal that was closed in memory only is open again.
* `DirectoriesAgree` is about the services of circuits. Two nodes may list an admin service of one
  name each as their own.
* `WalkShowsEachOnce`, of nodes, has at most one filter, and a list that only grew at its end.
  `list_nodes` skips and takes after each filter, so that a paged walk with two of them leaves nodes
  out; the run has such walks, and without the exception TLC refutes the property.
* `CallsReturn` excepts a caller whose own request or reply the mesh refused, which waits for ever
  (`get` has no timeout), and behaviours where a handler failed.
* `HandlesReturn` excepts a future that is inside a write to its connection, which has no timeout, and
  one whose `on_message` waits for room in the reactor's channel.
* `ShownInOrder` takes `SystemTime` not to go back. `NothingOwedIsLost` excepts an event that was
  evicted before it was loaded, and one that was sent between the reading of the past and the
  subscription; the instance has a cache smaller than the bound, unlike the defaults.
* `SentIsReceived` excepts two ends that send at once and hold the locks, or the room, that the other
  waits for (`Deadlocked`), and a stream that pauses within a length (`torn`): TLC refutes it without
  either. It is about wake-ups that are not lost and pieces that are put together.
* `AcceptedIsWritten` is about any `Connection` that answers `WouldBlock`; `rw::write`, which tcp and
  tls share, sleeps and tries again instead.
* `CertsMatch` excepts a forced run that ended early. `RegistryHasPairs` takes names to be distinct
  file stems. `GoneIsForgotten` needs a heartbeat interval other than 0. `PeerNetwork` has no full
  queues of the mesh: a handshake is four messages a side, and a queue of the daemon holds 128.

### The bounds, and why they are enough

Two proposals are the least for which requests, votes and results meet an engine that evaluates
something else, and three engines the least with two verifiers that vote and learn of the result
independently; with three, one engine at a time is inside its loop and one is down at a time, which
keeps the run within minutes (the loops of two engines interleave freely in the other half of the
run, those of any number in the proofs). Two batches of which each may come first are the least for
which states could fork. Three members are the least whose votes meet. Two nodes are the least
between which a message of a circuit is forwarded and two directories can differ; the routing
theorems hold for any number. Channels have capacity one, so that they are full as soon as something
is in them. `MaxFaults`, `MaxCrashes`, `MaxSubmissions`, `MaxMessages`, `MaxEvents` and the like
bound how often the environment acts, and are guards of its actions alone; one fault is where each
partial failure begins, and the proofs below need no such bound.

Deadlock is checked in `two_phase` and the scabbard runs. The other systems may really stop: a
workload ends, a process ends, or a client has walked its list.

### Fairness

Liveness is checked under weak fairness of the threads the code runs in loops: engines, the
reactors, dispatch and sender loops, the websocket actors that poll their streams; and of time, that a
timeout elapses. Nothing is assumed of clients, peers or failures, nor that a write to a websocket
ends. That messages arrive is assumed
only by `CommitsReachAll`, as strong fairness of receiving what stays at the head of a queue
(`recv_timeout` takes what is there). `CoordinationEnds` holds even if no message ever arrives.

## What is proved

`tlapm` checks every theorem for all values of the constants, without TLC's bounds. The assumptions
are those of the modules, and TLC evaluates them on every run: node IDs are numbers of which a
proposal's verifiers have a least (`VerifiersAssumption`; the coordinator is the least verifier, as
in the code); every service of scabbard and of the examples verifies every proposal, and a proposal
holds at least one batch (`BatchesAssumption`, `PrivateAssumption`); the others are types
(`AdminAssumption`, `LinkAssumption`) and that the admin service is not one that the orchestrator
starts (`HostsAssumption`). The routing theorems have the hypothesis `WellFormed` instead (the
candidate circuits are records of the right shape; names of services, of admin services and of
connections differ); the run `apps` evaluates it as `ShapesAssumption`.

**The engines** (`TwoPhaseLemmas`, `TwoPhaseTheorems`). `TypeCorrect`, then `Invariant`, which
proves `IInv`. Agreement is not inductive: a verifier's decision is that of a message, so the proof
needs that messages tell the truth about their sender (`MessagesTrue`), that votes counted were cast
by someone who had found the proposal valid (`VotesTrue`), that the coordinator meets a proposal only
once (`MetOnce`), and that the others decide after it and as it did (`DecisionsFollow`). From it
follow

* `AgreementHolds` and `CommitsAreVerified`: no two nodes decide differently, and what is accepted
  anywhere was found valid by every verifier, whatever is lost, delayed or stopped;
* `CoordinatorFirst` and `TimeoutsAreCoordinators`;
* `Refinement`: `TwoPhase` implements `AtomicCommit`, action by action;
* `EvaluationsEndInDecisions`, an action property: an evaluation ends only in the decision on it;
* `ManagersAskedOnce`: no manager checks a proposal again that it has found valid, though requests
  and proposals wait in two backlogs and either may come first. Its invariant `Checks` says where a
  proposal can be between its arrival and its verdict.

**Scabbard** (`ScabbardTheorems`). `CommittedAreApplied` has an invariant of its own (`StatusInv`:
what the history of batches calls committed is in the state) and no condition. `ServicesAgree`
and `CommitsProposal` rest on `ServicesInv`: the invariants of the engines, `DataOK` (types),
`AllPending` (what is pending is the batch of the proposal under evaluation, on the state it was
checked on) and `Shared` (what the coordinator has accepted is in its database, and no service is
ahead of that). Both hold where no proposal ID is proposed twice (`ProposedOnce`). The
condition is needed: an ID is the hash of the state that the batch leads to, and when it comes up
again the engines may count a verdict or a vote on its first use.

**The example services** (`PrivateServicesTheorems`). `XoServicesNeverFork` and
`XoCommitsTheProposal`, under the same condition (`XoProposedOnce`). A private_xo service keeps one
pending proposal that any later one overwrites, so that its commit may fail and the service stay
behind (the run `private_state`); `XoInv` says that every service is at the last state that the
coordinator has accepted, or one batch before it (`Common`), and that a proposal which a service has
found valid and not decided is what its batch leads to from where the service is (`AllLead`).

**The admin service** (`AdminTheorems`). `AdminInvariant` proves `AdminInv`: queued
messages carry submitted payloads, stored proposals hold the votes that were cast, a payload that
waits has met every other member that it does not await (`WaitingForStrangers`, which is what makes
`ProposedAmongPeers` inductive although peers come and go), and of one ID a node holds one definition,
which the disk has too where writes do not fail (`OneOfAnId`). It gives `CircuitsVotedFor`,
`VerifiersMembers`,
`ProposedToPeers` and the action property `CommittedCircuitsStay`. Queues are cut by `Keep`, whose
elements are found by an induction through the least place where the claim could fail
(`KeepElements`).

**Services and peers** (`ServicesTheorems`, `PeerNetworkTheorems`). `CallsAreWhileStarted`:
`handle_message` is called on started services only, because a service leaves the map of its host
before it is stopped (`CallsInv`). `AuthorizedArePeers`: whom the authorization manager holds to be
authorized is a peer, or the listener that was told of its end is about to forget it (`NetInv`).

**Circuit routing** (`CircuitRoutingTheorems`). For any nodes, services and candidate circuits:
`DirectoriesNeverDisagree` (no two nodes route a service of the circuit to different nodes, and what
a node has as its own it can send to), `CommitsNeverFail` (what `validate_circuit` lets through is
committed without an error) and `NothingDropped` (a message is dropped without an answer only after
a service has disconnected or a node restarted). They follow from `RoutingInv`, in two parts.
`DirectoryInv` ties each entry of a directory to the roster of the circuit, and says that the node
of a service knows its connection if anyone does, an entry of an admin service being the node's own;
two directories agree because they agree with one roster, on which validation allows a service one
node. `MessageInv` says where a message can be: a direct message on its way from the sender's node
to the recipient's, an error on its way back to where the sender is connected.

## What is only model-checked

* Liveness (`CommitsReachAll`, `CoordinationEnds`, `CallsReturn`, `OrphansClose`, `HandlesReturn`,
  `HandshakeCompletes`, `GoneIsForgotten`, `MessagesEnd`, `AcceptedIsWritten`, `SentIsReceived`):
  beyond the prover, as is `ENABLED`.
* `MembersToldTheSame`, `ServicesStartTogether` and `CommittedCircuitsRun` relate the queues of
  several admin services through the consensus between them; they hold where payloads do not recur.
* `CommitsTheProposal` for the private counter, and only with two increments. The hash of a counter
  is that of its value alone, so two of three increments can lead to one hash from different values,
  and a later one replaces the pending one between its check and its commit. The property is stated
  for two; with the increments 1, 3 and 2 TLC finds a counter that commits another value than agreed.
* What the applications, the command line, the mesh and the transports keep (`TablesMatchLog`,
  `WalkShowsEachOnce`, `CertsMatch`, `RegistryHasPairs`, `ShownInOrder`, `NothingOwedIsLost`,
  `NothingLost`, `RemoveFinds`): instances with few values, where TLC's states are already close to
  all the cases there are.

## What is not modelled

* Code without state or steps of its own: the message dispatcher's table (its handlers and their
  order are modelled), key registry and signing, wrappers of channels, the REST framework,
  configuration and start of `splinterd`, the client library, the health service, the read routes of
  the private examples.
* Storage guards, which write a file when dropped: `Admin` and `CircuitRouting` model what is stored
  and read back; a write that fails ends the process.
* The ZMQ transport, a wrapper of a library's sockets; Biome notifications, tables that nothing reads
  yet; the browser applications.
* Of the parts modelled: the orchestrator's `destroy` and listings, the building of the daemon, the
  single-row reads, users and key files of `gameroomd`, and the protobuf conversions, which carry no
  state.
