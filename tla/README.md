# A verification development for Blockchain Radio

TLA+ models of the mesh radio programs in `src/BlockchainRadioV4` and
`src/BlockchainRadioV3`, TLC configurations that check them on small
instances, and theorems about them that TLAPS proves for every value of the
constants. `PROJECT.json` gives for every definition the source lines it
stands for.

## The system

A radio message travels RadioA → producer → repeaters → receiver → RadioB.
Version 4 pays for a slow proof (or a block signed by the other nodes) once per
session, and then authenticates each packet with a fast keyed hash. There are
two generations of its nodes side by side: `network/producer.py`,
`repeater.py`, `receiver.py` (V1: sessions announced in packets) and
`network/*_v2.py` with `blockchain/consensus.py` (V2: sessions announced in
signed blocks). `docker-compose-v2.yml` runs one producer, four repeaters and
one receiver and restarts what dies; the receiver signs blocks as the repeaters
do and is one of them in the models.

| Component | State | Operations | Interacts with |
|---|---|---|---|
| Chain (`BlockchainStorage`, `Block`) | `blocks`, the JSON file, the index of sessions | `add_block`, `_save`, `_load`, `get_session` | every V2 node |
| Block consensus (`ProducerNode`, `RepeaterNode`, `ProducerV2`, `RepeaterV2`, `ReceiverV2`) | pending sessions, current proposal, signatures; handler threads | propose, sign, collect, finalise, broadcast, store | TCP, one thread per connection on each side |
| Session manager (`SessionManager`, `Session`) | table, index by peer, state and clocks of each session | create, establish, look up, close, clean up, shut down | V1 producer's radio thread, cleanup thread |
| Session cache (`SessionCache`) | bounded table, index by node, clocks | add, look up, remove, evict, clean up, clear | every thread of every verifying node |
| Data path (V2) | packets in flight, sequence numbers, active sessions | choose or establish, forward, verify, deliver | chain, cache, consensus |
| Handshake (`SessionHandshake`) | a state per side, nonces, challenge, proof | five messages, proof, verification, keys | proof subprocess |
| Message authentication (`HMACAuth`, `Session`) | send and receive sequence numbers | create and verify a tag | session, clock |
| V3 mesh | bounded packet queues, seen numbers, one receiving and one forwarding thread per node | receive, verify, queue, forward, deliver | next hop over TCP, proof scripts |
| V1 mesh of V4 | the same, with sessions in packets | the same | next hop over TCP, session cache |
| Proof contracts (`*.ts`) | counters on a zkApp | init, record | proof library |

**What is hard.** V2 nodes start a thread per connection and the storage has no
lock; messages are sent once, over separate connections, and a failure is only
logged; processes are restarted and read back only the chain's file; sessions
end by three different clocks in four different tables; the handshake never
compares session ids. `PROJECT.json` lists these hazards one by one with the
line where each bites.

**What makes each component correct.** One history on all nodes, signed by a
majority, on disk when it is said to be; each session in one block; a node that
is behind catches up, or it is known when it cannot (consensus). Tables and
indexes agree, bounds hold, the dead leave and the living are found (manager,
cache). A packet is delivered at most once, only if every hop could verify it,
and then surely; the cache in front of a node's chain
makes no difference to that (data path).
A message is delivered in order and once, or lost (V3 mesh, message authentication). Only a fresh proof of the expected peer is
accepted, and both sides end with one outcome and agree on all it rests on, which
the code misses for the key (handshake).

## Modules

| Module | Stands for |
|---|---|
| `Chain` | blocks and proposals, `add_block`'s tests, majorities; no state |
| `Ledger` | abstract: a log that is append-only until its writer's file is torn, and readers that follow it |
| `Consensus` | the V2 producer, repeaters and network; shown to implement `Ledger` |
| `SessionManager` | `session/session.py` and the V1 producer that uses it |
| `SessionCache` | `session/cache.py` |
| `Verifier` | abstract: a V2 node that reads its chain for each packet |
| `CachedPath` | one V2 node: `SessionCache`, chain, the threads per packet and per block; shown to implement `Verifier` |
| `DataPath` | radio messages along the line of V2 nodes |
| `Handshake` | `session/handshake.py` |
| `MessageAuth` | `crypto/hmac_auth.py` and the messages of `Session`; shown to implement `LossyLine` |
| `LossyLine` | abstract: a line that may lose messages, never duplicates or reorders them |
| `Mesh` | `BlockchainRadioV3/network/`; shown to implement `LossyLine` |
| `MC…` | definitions TLC needs: symmetry, which node owns which session |
| `…Proofs` | the theorems of the module they are named after; those of `CachedPath` are in `SessionCacheProofs` |

Definitions whose comment begins "A bug:" are variants that a plausible mistake
in the code would give. They are no part of any specification; they are used,
one at a time, to see that the properties notice.

### Chain and Consensus

A block is a record `num, prev, stamp, sess, sigs`. Its hash is the values it
is computed from that can differ here, so equal hashes mean equal blocks.
`stamp` is the attempt's number and stands for the time a proposal is made.

The producer handles one radio message at a time, so it has a program counter:
`StartAttempt` (create the proposal, start one thread per peer),
`ReceiveSignature` (under the lock that `finalize_block` holds while it saves),
`Finalize` then `FinishFinalize` (the block is in memory, then in the file),
or `FailAttempt` (no majority when the threads have ended or their joins have
timed out: the session is kept, local only, and stays pending), `SendFinalized`
to each peer once, the last of which ends the attempt. A repeater has a set of
handler threads: `HandleProposal` signs what extends its latest block;
`HandleFinalized` makes `add_block`'s tests, `AppendBlock` appends and takes the copy
of the list that `_save` will write, `OpenFile` truncates the file, `SaveBlock` has
written it. These are separate steps because nothing locks the storage between them:
the older of two copies may be written last, and a longer text's end may stick out
behind a shorter one, or two threads' writes may mix (`Overlaid`). `saved` and `disk`
are what the next `_load` would read, which is a new genesis block for a file that
cannot be read. `ProducerCrash`, `RepeaterCrash` and `RepeaterRestart` keep only the
files, in whatever state a save has left them (`AfterCrash`); `Lose` and `Refuse` lose
a message on a connection that fails.

A crash of the *producer* between `open` and `json.dump` (`consensus.py:327`) starts a
second history from genesis: "Append-only blockchain storage" (`consensus.py:281`) is
not true of it. The history variable `torn` records that this has happened.
`ChainsArePrefixes`, `StaleStays` and `NextIsNeverRefused` make that one exception, and
`Ledger` has it as the step `StartOver`; a crash inside a *repeater's* save needs none,
because genesis is a prefix. `MajoritySigned`, `OneCopy`, `SessionInOneBlock` and
`ChainEnds` hold of torn saves as well, and `ChainEnds` says what comes of them.

### SessionManager

A session is an id with peer, state, two clocks and the number of times it got
keys. `age` and `idle` count units of time up to one past their limits, beyond
which nothing changes. `Remove` is `_remove_session`, which forgets the index
entry of the *peer* whatever session the entry names. The V1 producer's radio
thread runs one handshake at a time (`StartHandshake`, then `FinishHandshake` or
`FailHandshake`); `Send` asks `is_active` and not `is_expired`, as the code.

### SessionCache

`RemoveSession`, `GetSessionsForNode` and `shutdown` have no caller in the repository.
The specification here has them, so the theorems hold for callers that do; the runs
check the cache inside the node that uses it (`CachedPath`). The table and the index by node are sets; `age` is the clock of `is_expired`,
`idle` the order of `last_used`. The lock of the class makes each method one action.
`LeastRecent` is the choice `_evict_oldest` may make.

### CachedPath and Verifier

A packet's thread goes through `arrived`, `missed`, `found`, `added` to `passed`
or `refused`: `FirstLook`, `LoadRecord`, `AddBack` and `SecondLook` are the calls
of `verify_and_forward_packet` and `verify_and_deliver_packet` that touch the
cache or the chain, and only the calls are atomic. `StoreBlock` is the chain's
part of a FINALIZED message, `CacheSession` the loop after it. `RestartNode`
empties the cache, loses the threads and reads back some of the chain. A packet's thread may start again when it is done:
packets of a session keep coming. Between
`added` and the second look `waited` counts time. A refusal of a known session
is excused in two cases only, and TLC shows that each is needed: the chain
alone has as many sessions as the cache has room, or the thread waited for
longer than an entry lives.

### DataPath

Nodes `1 .. Hops` are the repeaters and, last, the receiver. `Establish`
summarises `Consensus` in a step with its possible outcomes: the block is
finalised and announced, announced to some only, or the session is local;
`CrashInSave` is the crash of the producer that leaves a truncated chain, or one
with a block nobody was sent. A node's chain is the sequence of its blocks, and a node
that restarts reads back any prefix of it (`NodeRestart`), since `Consensus` shows that
a file may be older than the chain, or unreadable. `learned` remembers which sessions a
node has ever had. Block announcements and packets travel separately; any thread may run next, so they
arrive in any order. `Knows` is whether a session is in a node's chain, which is
what the cache and the reload from the storage come to together. `Forward` and
`Deliver` look at neither the sequence number nor the timestamp nor the expiry
of the session, as the code.

### Handshake

One object in use on each side, numbered; the number of an initiator's object
is its nonce, its session id and its commitment, that of a responder's its nonce,
its challenge and what tells its RESULT from others. Each method is an action: `CreateHello`, `ReceiveHello`,
`CreateChallenge`, `ReceiveChallenge`, `CreateProof`, `VerifyProof`,
`CreateResult`, `ReceiveResult`. A message that meets the wrong state is gone
with an exception (`Unexpected`). `NewInitiator` and `NewResponder` go on with a
new object at any time. The node itself hands over no messages yet, so the
caller that gives each message to the method of its type is an assumption.
PROOF_GENERATING and VERIFYING are states inside one method call of one thread
and are not seen by anybody, except after a PROOF that cannot be parsed, which
is not modelled.

### MessageAuth

Two ends, each with its session's number, state and counter, and between them
the messages on their way. `now` is the sender's clock, `skew` the difference of
the receiver's, which `SetClock` may change at any time. `EstablishSender` and
`EstablishReceiver` are the two ends of a handshake and may come in any order and
one without the other; a new session resets its counters. `Receive` may leave
the message on the wire (a duplicate). The tag is the values that
`_build_auth_data` covers, under the session's key, so it matches when the
session is the receiver's. The checks are in the order of `verify_tag`: the order
makes no difference to the answer, since no check changes anything. `VerifyMessage`
is one step although `recv_seq` has no lock, because the repository has no two threads
that verify for one session.

One assumption is not met by the rest of the repository: that both ends of a session
have one key and one session id (`TagMatches`). The two ends of a handshake derive
different keys, as run `handshake` shows, and each end's `Session` draws an id of its
own; nothing connects `SessionHandshake` with `Session` yet. The module is about
messages between two ends that do share them.

### Mesh and LossyLine

Nodes `0 .. Repeaters + 1`, producer first and receiver last. A packet is its
number `uid`, whether its proof is a real one, and its hop count; `msg` tells
messages apart for the properties only, because a restarted producer uses its
numbers again. A packet moves through `inbound` (a connection not accepted),
`adding` (`PacketQueue.add` has marked it as seen and may block in `put`),
`queue`, and `taken` (by the forwarding thread), to the next node's `inbound`,
and the forwarding thread then has `waiting` set until that node answers or dies.
`verifying` is the packet the receiving thread is at *after* it has queued it:
`Accept` counts the hop on the object wherever it then is, and `Reject` changes
nothing but the answer. A simulated proof always verifies; a real one's verdict
comes from a script and is open; `rejected` remembers whom a repeater has refused. `ReadTorn` is a read that returns part of a
packet: the handler raises and keeps the connection open until its next
`accept` returns. That needs another connection, and the only node that
connects is waiting for its answer. At most one connection for each fault, and one
more, is open at a node (`BacklogsAreShort`), so the listen backlog of five, which
the model leaves out, is not full before four things have failed; the runs have
fewer.

## Runs

| Run | Instance | Question |
|---|---|---|
| `consensus_safe` | 3 repeaters, 2 attempts, 1 fault, which may tear a save, 2.3 M states | Is there one history (`ChainsArePrefixes`), is every block signed by a majority that signed *it* (`MajoritySigned`), is a session in one block only although failed attempts leave it pending (`SessionInOneBlock`), do two threads of a repeater never handle copies of one block (`OneCopy`)? Is the block a repeater needs next never refused (`NextIsNeverRefused`), and one that it missed never made good (`StaleStays`)? Is this a `Ledger` (`ImplementsLedger`)? |
| `consensus_live` | 2 repeaters, 3 attempts, 1 fault, 0.4 M states | Do attempts end (`AttemptEnds`)? Is the chain at its end once too few can sign (`ChainEnds`)? |
| `consensus_lost_save` | no fault | refutes "stored permanently": two threads save in the wrong order |
| `manager` | 2 peers, 3 sessions, 0.6 M states | `IndexSound`, `KeyedOnce`, `EveryoneLeaves` |
| `manager_lookup` | 1 peer, 2 sessions | refutes "get active session with a peer": cleaning up an old session hides the new one |
| `cached_path` | 4 sessions of 2 radios, room for 3, time-out 1, 2 packets that come again, 0.1 M states | Are bound and index of the cache kept (`CapacityKept`, `IndexExact`), does a live session stay (`LiveSessionsStay`) and one that is not added again leave (`NotAddedLeaves`)? Is the node one that reads its chain for each packet (`ImplementsVerifier`)? When does a thread miss what it has just added (`ReloadHolds`)? Does a packet of a known session pass (`KnownPasses`)? |
| `message_auth` | 2 sessions, 3 messages, clocks 1 apart, 1 duplicate or loss, 0.6 M states | Do numbers, tags and sessions make the network a line that only loses (`ImplementsLine`)? Is what was accepted fresh (`AcceptedFresh`)? Is the slack for the clocks enough (`TimelyPasses`)? |
| `data_path` | 2 hops, 2 sessions, 2 packets each, 2 faults, 0.1 M states | `DeliveredOnce`, `DeliveredIsKnown`, `KnownDelivered` |
| `data_path_expired` | 1 session | refutes "called on every packet at every hop" of the expiry check: an expired session's packet is delivered |
| `handshake` | 3 objects on each side, 2 faults, 0.2 M states | `ProofIsFresh`, `OneHandshakeTwoKeys`, `ConfirmedMeansVerified`, `HandshakeEnds` |
| `mesh` | producer, 1 repeater, receiver, queues of 1, 3 messages, 2 faults, 0.1 M states | Does the line only lose messages (`ImplementsLine`)? Does the hop count ever claim a repeater that did not verify (`HopsAreVerified`)? Does every sender get an answer (`SenderGoesOn`)? Does a packet with a fresh number that no repeater rejects arrive (`FreshArrives`)? |
| `mesh_rejected` | 1 message, no fault | refutes "drop the packet": a repeater sends on what it has rejected |

Each module's run also checks its type invariant; that the cache of a node is part of
its chain is a theorem only. `PROJECT.json` quotes the lines the refuted statements
come from, and one finding that needs no refutation: `OneHandshakeTwoKeys` holds, and
what it says of the keys is the reverse of the comment "same derivation as responder".

`StaleStays` and `ChainEnds` are about a weakness and hold: they say what
`README.md`'s "all nodes receive, verify, and cache the session" comes to when
one message is lost. Four further statements are false of the models by the
same reading of the code and have no run of their own: the chain is append-only
(`Consensus`, in a torn save of the producer); once a session is committed "now all
nodes can verify" its messages (`DataPath`: the first packet may overtake the block); a
session closed during its handshake stays closed (`SessionManager`: `CloseSession`,
then `FinishHandshake`); sequence numbers are delivered in growing order (`DataPath`:
two packets overtake each other). `KnownDelivered` makes no promise about expired
sessions and `FreshArrives` none about rejected packets: what the code does with them
is what `data_path_expired` and `mesh_rejected` refute. `SenderGoesOn`
has to except torn packets: one of them may stop the whole line for good.

**Bounds.** They are constants with names that begin with `Max` (and `Timeout`,
`MaxIdle`, `Capacity`, `Hops`, which are the program's own parameters, made
small). Three repeaters are the least for which a majority is not everybody and
two different majorities exist; two attempts let a late message of the first
meet the second, and let a failed attempt's session be proposed again; a third, in
`consensus_live`, follows a torn save of the second block. One fault
anywhere separates any two copies of the chain; two are used where the state
space allows. Three sessions for two peers let an old, a current and another
peer's session meet. A cache of three for four sessions evicts, and while the chain has
two sessions or fewer no eviction is excused; with a time-out of one an entry
can be older than a thread's wait and yet live. Three messages let one overtake
another within a session while a third is of the next. Two hops are a
repeater and a receiver, the only two kinds of node. Three handshake objects on
each side give messages that are two attempts late. Three messages fill a queue of
one and the hands of both threads of a node, and two faults let a producer that
restarts reuse a number that was lost. Clocks need one value past
their limit. `CHECK_DEADLOCK FALSE` stands where these bounds, or the end of
all that there is to do, stop the system; the session modules never stop,
because time passes.

**Fairness.** Threads that can go on do: weak fairness of each handler,
save, send and of the producer's own steps. Joins have time-outs, which is why
`FailAttempt` is fair. A dead repeater is restarted (`restart:
unless-stopped`). The clock ticks and the cleanup threads wake up. No fairness is
assumed of radio messages, of faults not happening, or of new attempts.
In `Mesh` and `CachedPath` each thread is one fairness condition; in `MessageAuth` what is on its way arrives unless lost. `KnownDelivered`, `FreshArrives`
and `HandshakeEnds` therefore say "unless a fault, an expiry, a
rejection or a new attempt comes between".

## Theorems

All hold for any values of the constants that satisfy the named assumptions:
bounds are natural numbers, `Hops` and `Capacity` are positive, the sets of
repeaters and of sessions are finite where a majority or a capacity is counted.

* `ConsensusProofs`. `ChainsArePrefixes`
  is not inductive: a message or thread could carry a block of another history.
  The invariant adds that, unless a save of the producer was torn, every block on its
  way or in a thread, and every copy a thread is saving, is that block, or such a
  prefix, of the producer's chain, and a file being written is a prefix too. A
  repeater tests a block against its latest one, and equal hashes mean equal
  blocks, so what it appends is the next block of that chain. That the two
  threads' copies may be saved in the wrong order does no harm here: both are
  prefixes, and so is the genesis block of an unreadable file. From this follow
  `OneHistory` and `ConsensusImplementsLedger`; after a torn save only the steps of
  `Ledger` that ask for no prefix are left, and what `add_block` tests is enough for
  them. `MajorityOnEveryBlock` adds that a collected signature for the
  current proposal, or one on its way, was made by its signer.
  `SessionsAreInOneBlock` adds that what is queued is in no block and no younger
  than the last attempt; `BlocksAreHandledOnce` that what is on its way is older
  than what an attempt collects or saves. `MissedForGood` adds to the
  refinement's invariant that a block a repeater has is not on its way to it, so that
  a crash leaves it nothing to wait for. `NextBlockArrives` shows that the block with
  the number a repeater needs is, by the same invariant, the next one of its chain, so
  that `add_block`'s tests pass whenever it is handled. `TheChainEnds` holds of torn
  saves too: a proposal extends the saved chain, so a repeater that ends in another block does
  not sign it. (`Lost` compares latest blocks, not chains: of two threads that
  checked blocks of both histories each may append, and the repeater then signs on.)
  `ProducersChainIsLinked` is inductive with the types, because the producer builds a
  block on the very chain it appends it to; `AllChainsAreLinked` follows from it and
  `OneHistory`. `SessionsAreKept` adds what the block in hand holds in each phase of an
  attempt: all that is pending. `NothingInTurnIsRefused` adds to the refinement's
  invariant that what is proposed now extends the producer's chain.
* `SessionManagerProofs`. `IndexNeverDangles` needs that tracked sessions have a
  peer. `EstablishedOnce` needs that an untracked, never established session has
  no keys and that while a handshake runs its session is the one that
  `create_session` returned, which has none either, or had its only because
  `active_sessions` has it, and then no handshake starts. `NobodyLivesTwice` needs
  that a tracked session has a peer: only `create_session` adds to the table, and
  only an id that was never used.
* `SessionCacheProofs`. The capacity theorem counts: one session goes before one
  comes. `IndexAlwaysExact` is inductive with the types. `LiveSessionsAreKept` needs
  the capacity: an eviction happens at it, never above.
  Of `CachedPath`: every step is a step of the cache or leaves it alone, so the
  cache's theorems hold in the node. `NodeInv` adds to the types that what is
  cached, waits to be cached, or was found by a thread is on the chain, and that an
  entry is no older than the wait of any thread that added it, or had to go. From it
  follow `CacheFollowsChain`, `ReloadsHold` and `CachedPathImplementsVerifier`.
* `DataPathProofs`. `DeliveryIsVerifiedEverywhere` adds (`LearnedInv`): a packet on its
  way to node `n` has a session that all nodes before `n` have learned, and what is on
  a node's chain it has learned; `learned` only grows, whatever chains lose.
  `DeliveryHappensOnce` adds that a packet in flight is at one place, not
  delivered yet, and numbered below its session's next number, or of a session
  that a restarted producer has forgotten. `KnownPacketsAreKept` needs the types only:
  without a fault nothing that a node knows is taken back (`KnowledgeGrows`).
* `HandshakeProofs`. A proof on its way is in the history, the history knows only
  objects up to the present one, and a positive result, returned, travelling or
  received, has a verified proof behind it. `SameHandshakeOtherKey` adds (`Agreed`) that
  a proof made by the object in use was made for the challenge it still has, and one
  verified by the object in use carries the commitment it still has. Of the first handshake, while nothing has
  failed and no second one begun, `InOrder` lists the phases: which message is on its
  way, or which step is next, for the states of the two objects. `FirstHandshakeGoesOn`
  reads it off, and `HonestProofsPass` adds to it that the responder expects the
  initiator.
* `MessageAuthProofs`. `WireInv` says that creation numbers and the pairs of session
  and sequence number order the messages on the wire alike; then accepting a message
  removes exactly the older ones from what is awaited
  (`MessageAuthImplementsLine`). `AcceptedIsFresh` needs only the range of the clocks.
  `OpenMessagesPass` assumes that the clocks differ by no more than the slack of
  `verify_tag` (`MaxSkew <= MaxAhead`, as in the run) and adds that no stamp lies in the
  sender's future; without the assumption it is false.
* `LossyLineProofs`. What is delivered is older than all that is on its way.
* `MeshProofs`. The types, with the queues' bound: `put` adds the one packet the
  thread holds. `OrderInv` reads the line from the receiver back to the producer,
  and within a node from the packet taken over the queue and the packet being added
  to the open connections: the messages are in the order in which RadioA sent them.
  So what is delivered is older than all the rest, whatever was lost
  (`MeshImplementsLine`). `HopsInv` adds that a message which has not passed a
  repeater's queue was not verified there, and that what the repeater is verifying
  is older than those: it verifies each message once, and the count goes up with a
  new member of the set it is compared with (`HopsAreEarned`).
  `EveryAnswerIsOwed`: what a forwarder waits for is on a connection of the next node,
  being added there or being verified, or was not read; `Pending` tells the packet that
  a repeater verifies from those it has not looked at. `TheLineNeverBlocks` then takes
  the last forwarder that waits: the node behind it owes it an answer, and if its
  receiving thread is blocked at a full queue, its own forwarder, which does not wait,
  can take from it. (`CanReceive` and `CanForward` write out when the two threads can
  step.) `BacklogsAreShort` counts connections: a forwarder opens one when it waits for
  none, and only a failure makes it stop waiting for one that is still open.
  `FreshPacketsAreKept` follows from `OrderInv`: the packets that a node reads before
  a fresh one are older and have other numbers, and the newer stay behind it.

Only model-checked: everything temporal under fairness (`AttemptEnds`,
`EveryoneLeaves`, `NotAddedLeaves`, `KnownDelivered`, `KnownPasses`,
`TimelyPasses`, `HandshakeEnds`, `SenderGoesOn`, `FreshArrives`), which the prover does
not reach. What such a property needs beside fairness is proved for most of them: that
no step takes away what is to come. The theorem is, in this order of properties,
`NobodyLivesTwice` (`EveryoneLeaves`),
`KnownPacketsAreKept` (`KnownDelivered`), `CachedPathImplementsVerifier`
(`KnownPasses`), `OpenMessagesPass` (`TimelyPasses`), `FirstHandshakeGoesOn`
(`HandshakeEnds`), `EveryAnswerIsOwed` and `TheLineNeverBlocks` (`SenderGoesOn`) and
`FreshPacketsAreKept` (`FreshArrives`). What is left to the runs is that the threads,
which can go on, do.

## Not modelled

Cryptography (`crypto/keys.py`, `crypto/key_derivation.py`): a hash, key or
signature is the values it is computed from. Text, logs, statistics and radios.
Corrupted packets: a tag verifies when the session is known. A PROOF message that
cannot be parsed, which leaves the responder of a handshake in VERIFYING: no
sender in the program makes one. `ProducerNetwork` and `RepeaterNetwork` in
`consensus.py`, older copies of what the V2 nodes do, which nothing uses. The
proof scripts and contracts: version 3's scripts run on a fresh local chain, and
nothing deploys or calls `SessionProof`, so no counter is met by a second step. The thesis web pages.

The V1 mesh of version 4 (`network/repeater.py`, `receiver.py`, `packet.py`), because
nothing passes its first hop: the producer tags a packet under a key derived from
the session's over proof hash, id, number, stamp and data
(`HMACAuth._build_auth_data`), while the repeater's cache entry has a key made from
the text `test-key` and the id, and it verifies a tag over id and data
(`verify_hmac`); the receiver's `_auto_cache_session` calls `add_session` without
the `proof_hash` it requires. Its queue and its threads are those of version 3,
which `Mesh` models.

## Open

Theorem still to prove: that each node of `DataPath` is a `Verifier`, which needs a
history of what became of each packet at each node.
